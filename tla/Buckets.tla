------------------------------ MODULE Buckets ------------------------------
(***************************************************************************)
(* The lifecycle of the buckets of one service: how they are created by a  *)
(* first write, configured, disabled, enabled, repaired, found by a scan *)
(* of the disk and deleted.                                                *)
(*                                                                         *)
(* DataStore keeps a map from bucket names to bucket objects.  Each object *)
(* has the handles of its two LevelDB databases, which are modelled as one *)
(* with one lock.  The configurations are records of a bucket of their     *)
(* own, _bucket_config, which is opened first and never closed.            *)
(*                                                                         *)
(* A task is one call of DataStore, from a client or from the handler of   *)
(* bucket-list-update.  One step of a task is what it does between two     *)
(* awaits, or the effect of a storage call it awaits.  All calls but the   *)
(* creation by a first write run createBucket without a lock of their own. *)
(***************************************************************************)
EXTENDS Naturals, Sequences, FiniteSets

CONSTANTS
    Ids,            \* names of buckets
    Tasks,          \* the calls of DataStore
    Ops,            \* which calls: a subset of Calls
    Generations,    \* bound: how many bucket objects of a name exist at a time
    NoBucket,       \* an absent bucket object
    NoConfig,       \* an absent configuration
    Nobody,         \* no task
    MaxFaults,      \* bound: how many storage calls fail
    MaxCrashes      \* bound: how often the service is killed and restarted

Calls == {"write", "configure", "read", "delete", "repair"}

ASSUME BucketsAssumption ==
    /\ Ops \subseteq Calls
    /\ Generations \in Nat \ {0}
    /\ MaxFaults \in Nat /\ MaxCrashes \in Nat
    /\ Nobody \notin Tasks
    /\ Ids # {}

\* A bucket object: a later bucket of the same name is another object.
Bucket == Ids \X (1..Generations)

\* A configuration, by the task that supplied it.
Config == [by : Tasks \cup {Nobody}, disabled : BOOLEAN]
EmptyConfig == [by |-> Nobody, disabled |-> FALSE]

\* An absent object or configuration is no object and no configuration.
ASSUME AbsentAssumption == NoBucket \notin Bucket /\ NoConfig \notin Config

VARIABLES
    map,        \* buckets: name -> bucket object or NoBucket
    bucket,     \* bucket object -> [db, isDeleting, repairing, config, isOpen], see Fields
    folders,    \* names that have a folder, which is what a scan looks for
    dir,        \* names whose folder has the directory of the databases
    assets,     \* names whose folder holds other files, the assets of a web site
    lock,       \* name -> the object whose handle holds LevelDB's lock, or NoBucket
    stored,     \* name -> configuration in _bucket_config, or NoConfig
    holder,     \* task that holds bucketCreationSemaphore
    queue,      \* tasks that wait for it, first come first served
    pc,         \* task -> what it awaits, or its outcome
    op,         \* task -> its operation; "event" is the handler a configuration starts
    id,         \* task -> the bucket it works on at present
    ref,        \* task -> the bucket object it has looked up
    cfg,        \* task -> the configuration it was given or has read
    source,     \* task -> where the configuration it applies comes from
    todo,       \* task -> names its scan has still to create
    faults, crashes,
    mixed,      \* history: names interfered with by a configuration, deletion or failure
    scanned     \* history: names a scan has worked on together with another call

diskVars == <<folders, dir, assets, lock, stored>>
semVars == <<holder, queue>>
vars == <<map, bucket, diskVars, semVars, pc, op, id, ref, cfg, source, todo,
          faults, crashes, mixed, scanned>>

\* db: undefined or null, open, or being closed.  isOpen is status.isOpen, which is
\* what waitForBucketCreation looks at.
Fields == [db : {"none", "open", "closing"}, isDeleting : BOOLEAN,
           repairing : BOOLEAN, config : Config, isOpen : BOOLEAN]
Fresh == [db |-> "none", isDeleting |-> FALSE, repairing |-> FALSE, config |-> EmptyConfig, isOpen |-> FALSE]

\* storage.isOpen of a bucket object.
IsOpen(b) == bucket[b].db = "open"

Settled == {"done", "failed", "lost"}
Working == {"storeConfig", "storedConfig", "readConfig", "gotConfig", "mkdir", "openDb",
            "openMeta", "openFailed", "purge", "storeEmpty", "storedEmpty", "created",
            "close", "refused", "rm", "rmdir", "unconfigure", "unmap",
            "closeToRepair", "repair", "repairAndOpen"}
Steps == Settled \cup Working \cup {"idle", "create", "wait", "scan", "list"}

\* The tasks in createBucket or removeBucketAndData of a name.
WorkingOn(i) == {t \in Tasks : pc[t] \in Working /\ id[t] = i}

\* An object for a new bucket: one that nothing refers to any more.
InUse(b) == \/ \E i \in Ids : b \in {map[i], lock[i]}
            \/ \E t \in Tasks : ref[t] = b /\ pc[t] \in Working
            \/ bucket[b].db # "none"
HasFreeObject(i) == \E n \in 1..Generations : ~InUse(<<i, n>>)
NewBucket(i) == <<i, CHOOSE n \in 1..Generations : ~InUse(<<i, n>>)>>

-----------------------------------------------------------------------------
(* The service has started: configureBuckets has created a bucket for every
   folder before the servers listen.                                       *)

\* The map after a start, from what is on disk: applyBucketConfig stores an empty
\* configuration where there is none, and opens the bucket unless it is disabled.
Started(found, configs) ==
    [i \in Ids |-> IF i \notin found \/ configs[i] # NoConfig THEN configs[i] ELSE EmptyConfig]

\* The names whose databases the start opens.
StartedOpen(found, configs) == {i \in found : ~Started(found, configs)[i].disabled}

StartedBuckets(found, configs) ==
    [b \in Bucket |->
        IF b[2] # 1 \/ b[1] \notin found THEN Fresh
        ELSE LET c == Started(found, configs)[b[1]] IN
             [Fresh EXCEPT !.config = c, !.isOpen = ~c.disabled,
                           !.db = IF c.disabled THEN "none" ELSE "open"]]

StartedLocks(found, configs) ==
    [i \in Ids |-> IF i \in StartedOpen(found, configs) THEN <<i, 1>> ELSE NoBucket]

Init ==
    /\ folders \in SUBSET Ids
    /\ \E configs \in [Ids -> {NoConfig, EmptyConfig, [EmptyConfig EXCEPT !.disabled = TRUE]}] :
          /\ \A i \in Ids : configs[i] = NoConfig => i \notin folders
          /\ \A i \in Ids \ folders : configs[i] # EmptyConfig
          /\ stored = configs
    /\ dir \in SUBSET folders /\ StartedOpen(folders, stored) \subseteq dir
    /\ assets \in SUBSET folders
    /\ map = [i \in Ids |-> IF i \in folders THEN <<i, 1>> ELSE NoBucket]
    /\ bucket = StartedBuckets(folders, stored)
    /\ lock = StartedLocks(folders, stored)
    /\ holder = Nobody /\ queue = <<>>
    /\ pc = [t \in Tasks |-> "idle"]
    /\ op = [t \in Tasks |-> "read"]
    /\ id = [t \in Tasks |-> CHOOSE i \in Ids : TRUE]
    /\ ref = [t \in Tasks |-> NoBucket]
    /\ cfg = [t \in Tasks |-> NoConfig]
    /\ source = [t \in Tasks |-> "supplied"]
    /\ todo = [t \in Tasks |-> {}]
    /\ faults = 0 /\ crashes = 0
    /\ mixed = {} /\ scanned = {}

-----------------------------------------------------------------------------
(* What a step does before its next await.                                 *)
(*                                                                         *)
(* The operators named Bug... are plausible mistakes in the definition     *)
(* that follows them; no specification uses them.                          *)

Goto(t, where) == pc' = [pc EXCEPT ![t] = where]

\* A bucket that is not open is taken for one that is not there.
BugCreateUnlessOpen(t, i, c) ==
    LET fresh == map[i] = NoBucket \/ ~IsOpen(map[i])
        b == IF fresh THEN NewBucket(i) ELSE map[i]
    IN  /\ fresh => HasFreeObject(i)
        /\ map' = [map EXCEPT ![i] = b]
        /\ bucket' = [bucket EXCEPT ![b] = IF fresh THEN Fresh ELSE [@ EXCEPT !.isOpen = TRUE]]
        /\ id' = [id EXCEPT ![t] = i]
        /\ cfg' = [cfg EXCEPT ![t] = c]
        /\ Goto(t, IF c = NoConfig THEN "readConfig" ELSE "storeConfig")

\* createBucket up to the first await of applyBucketConfig.
CreateBucket(t, i, c) ==
    LET b == IF map[i] = NoBucket THEN NewBucket(i) ELSE map[i]
    IN  /\ map[i] = NoBucket => HasFreeObject(i)       \* bound
        /\ map' = [map EXCEPT ![i] = b]
        /\ bucket' = [bucket EXCEPT ![b] =
                        IF map[i] = NoBucket THEN Fresh ELSE [@ EXCEPT !.isOpen = IsOpen(b)]]
        /\ id' = [id EXCEPT ![t] = i]
        /\ cfg' = [cfg EXCEPT ![t] = c]
        /\ Goto(t, IF c = NoConfig THEN "readConfig" ELSE "storeConfig")

\* updateDBState with configuration c, and what applyBucketConfig does when it returns
\* or throws at once.  now is the state of the objects when it is called.  The close of
\* a disabled bucket is not awaited.
UpdateDBState(t, c, from, now) ==
    LET b == map[id[t]]
    IN  /\ source' = [source EXCEPT ![t] = from]
        /\ ref' = [ref EXCEPT ![t] = b]
        /\ \/ /\ c.disabled \/ now[b].db = "open"
              /\ bucket' = [now EXCEPT ![b].db =
                              IF c.disabled /\ @ = "open" THEN "closing" ELSE @]
              /\ Goto(t, IF from = "empty" THEN "storeEmpty" ELSE "created")
           \/ /\ ~c.disabled /\ now[b].db # "open"
              /\ bucket' = now
              /\ Goto(t, IF now[b].isDeleting THEN "openFailed" ELSE "mkdir")

\* The bucket has left the map: looking up its configuration throws a TypeError.
Gone(t) == map[id[t]] = NoBucket

\* The semaphore is released on success only.
BugThrowHolding(t) ==
    /\ Goto(t, IF op[t] \in {"read", "event"} THEN "list" ELSE "failed")
    /\ UNCHANGED holder

\* createBucket throws: the semaphore is released, a scan goes on with the next name.
Throw(t) ==
    /\ Goto(t, IF op[t] \in {"read", "event"} THEN "list" ELSE "failed")
    /\ holder' = IF holder = t THEN Nobody ELSE holder

\* write of a key, once createBucketIfNotExists and waitForBucketCreation have returned.
Put(t, i) == Goto(t, IF map[i] # NoBucket /\ IsOpen(map[i]) THEN "done" ELSE "failed")

\* No wait.
BugPutAtOnce(t, i) == Put(t, i) /\ UNCHANGED queue

\* waitForBucketCreation and the write after it.
WaitForBucketCreation(t, i) ==
    LET beingCreated == map[i] # NoBucket /\ ~bucket[map[i]].isOpen
    IN  \/ beingCreated /\ Goto(t, "wait") /\ queue' = Append(queue, t)
        \/ ~beingCreated /\ Put(t, i) /\ UNCHANGED queue

-----------------------------------------------------------------------------
(* The calls.                                                              *)

others == <<folders, dir, assets, lock, stored, faults, crashes>>

\* write of a key: createBucketIfNotExists finds the bucket, or queues to create it.
StartWrite(t, i) ==
    /\ op' = [op EXCEPT ![t] = "write"] /\ id' = [id EXCEPT ![t] = i]
    /\ \/ map[i] # NoBucket /\ WaitForBucketCreation(t, i)
       \/ map[i] = NoBucket /\ Goto(t, "create") /\ queue' = Append(queue, t)
    /\ UNCHANGED <<map, bucket, holder, ref, cfg, source, todo, others>>

\* write to _bucket_config: initializeBucket.
StartConfigure(t, i) ==
    /\ op' = [op EXCEPT ![t] = "configure"]
    /\ \E d \in BOOLEAN : CreateBucket(t, i, [by |-> t, disabled |-> d])
    /\ UNCHANGED <<semVars, ref, source, todo, others>>

\* read of a key, answered with the value or an error: when the bucket is not there, a
\* scan of the disk may find it.
StartRead(t, i) ==
    /\ op' = [op EXCEPT ![t] = "read"] /\ id' = [id EXCEPT ![t] = i]
    /\ Goto(t, IF map[i] = NoBucket THEN "scan" ELSE "done")
    /\ UNCHANGED <<map, bucket, semVars, ref, cfg, source, todo, others>>

\* removeBucketAndData, up to the await of close, which rejects for a bucket that has
\* no database.
StartDelete(t, i) ==
    /\ op' = [op EXCEPT ![t] = "delete"] /\ id' = [id EXCEPT ![t] = i]
    /\ ref' = [ref EXCEPT ![t] = map[i]]
    /\ \/ map[i] = NoBucket /\ Goto(t, "failed") /\ UNCHANGED bucket
       \/ /\ map[i] # NoBucket
          /\ bucket' = [bucket EXCEPT ![map[i]].isDeleting = TRUE,
                                      ![map[i]].db = IF @ = "open" THEN "closing" ELSE @]
          /\ Goto(t, IF bucket[map[i]].db = "none" THEN "refused" ELSE "close")
    /\ UNCHANGED <<map, semVars, cfg, source, todo, others>>

\* repair, up to its first await: that of close when the bucket is open.
StartRepair(t, i) ==
    /\ op' = [op EXCEPT ![t] = "repair"] /\ id' = [id EXCEPT ![t] = i]
    /\ ref' = [ref EXCEPT ![t] = map[i]]
    /\ \/ map[i] = NoBucket /\ Goto(t, "failed") /\ UNCHANGED bucket
       \/ /\ map[i] # NoBucket /\ bucket[map[i]].repairing
          /\ Goto(t, "failed") /\ UNCHANGED bucket
       \/ /\ map[i] # NoBucket /\ ~bucket[map[i]].repairing
          /\ IF IsOpen(map[i])
             THEN bucket' = [bucket EXCEPT ![map[i]].db = "closing"] /\ Goto(t, "closeToRepair")
             ELSE bucket' = [bucket EXCEPT ![map[i]].repairing = TRUE] /\ Goto(t, "repair")
    /\ UNCHANGED <<map, semVars, cfg, source, todo, others>>

Start(t) ==
    /\ pc[t] = "idle"
    /\ \E i \in Ids :
          \/ "write" \in Ops /\ StartWrite(t, i)
          \/ "configure" \in Ops /\ StartConfigure(t, i)
          \/ "read" \in Ops /\ StartRead(t, i)
          \/ "delete" \in Ops /\ StartDelete(t, i)
          \/ "repair" \in Ops /\ StartRepair(t, i)

\* bucketCreationSemaphore.acquire resolves for the first in the queue: a creation keeps
\* it, a wait gives it back at once and writes.
Acquire(t) ==
    /\ holder = Nobody /\ queue # <<>> /\ t = Head(queue)
    /\ queue' = Tail(queue)
    /\ \/ /\ pc[t] = "create"
          /\ holder' = t
          /\ CreateBucket(t, id[t], NoConfig)
       \/ /\ pc[t] = "wait"
          /\ Put(t, id[t])
          /\ UNCHANGED <<map, bucket, holder, id, cfg>>
    /\ UNCHANGED <<op, ref, source, todo, others>>

-----------------------------------------------------------------------------
(* applyBucketConfig.                                                      *)

\* The configuration that was passed is in _bucket_config.
StoreConfig(t) ==
    /\ pc[t] \in {"storeConfig", "storeEmpty"}
    /\ stored' = [stored EXCEPT ![id[t]] = IF pc[t] = "storeConfig" THEN cfg[t] ELSE EmptyConfig]
    /\ Goto(t, IF pc[t] = "storeConfig" THEN "storedConfig" ELSE "storedEmpty")
    /\ UNCHANGED <<map, bucket, folders, dir, assets, lock, semVars, op, id, ref, cfg, source, todo, faults, crashes>>

\* The object keeps the configuration it had.
BugApplySuppliedToDisk(t) ==
    /\ pc[t] = "storedConfig"
    /\ IF Gone(t) THEN Throw(t) /\ UNCHANGED <<bucket, ref, source>>
       ELSE UpdateDBState(t, cfg[t], "supplied", bucket) /\ UNCHANGED holder
    /\ UNCHANGED <<map, queue, op, id, cfg, todo, others>>

\* storage.write has returned: the object takes the configuration it was passed.
ApplySupplied(t) ==
    /\ pc[t] = "storedConfig"
    /\ \/ /\ ~Gone(t)
          /\ UpdateDBState(t, cfg[t], "supplied", [bucket EXCEPT ![map[id[t]]].config = cfg[t]])
          /\ UNCHANGED holder
       \/ Gone(t) /\ Throw(t) /\ UNCHANGED <<bucket, ref, source>>
    /\ UNCHANGED <<map, queue, op, id, cfg, todo, others>>

\* storage.read of the configuration finds what is stored, or nothing.
ReadConfig(t) ==
    /\ pc[t] = "readConfig"
    /\ cfg' = [cfg EXCEPT ![t] = stored[id[t]]]
    /\ Goto(t, "gotConfig")
    /\ UNCHANGED <<map, bucket, semVars, op, id, ref, source, todo, others>>

\* storage.read has returned.  When it has rejected, the catch clause goes on with an
\* empty configuration, which throws in turn when the bucket has left the map.
ApplyStored(t) ==
    /\ pc[t] = "gotConfig"
    /\ \/ /\ ~Gone(t) /\ cfg[t] # NoConfig
          /\ UpdateDBState(t, cfg[t], "stored", [bucket EXCEPT ![map[id[t]]].config = cfg[t]])
          /\ UNCHANGED holder
       \/ /\ ~Gone(t) /\ cfg[t] = NoConfig
          /\ UpdateDBState(t, EmptyConfig, "empty", bucket)
          /\ UNCHANGED holder
       \/ Gone(t) /\ Throw(t) /\ UNCHANGED <<bucket, ref, source>>
    /\ UNCHANGED <<map, queue, op, id, cfg, todo, others>>

\* The object is left without a configuration.
BugApplyEmptyNull(t) ==
    /\ pc[t] = "storedEmpty"
    /\ IF Gone(t) THEN Throw(t) /\ UNCHANGED bucket
       ELSE /\ bucket' = [bucket EXCEPT ![map[id[t]]].config = NoConfig]
            /\ Goto(t, "created") /\ UNCHANGED holder
    /\ UNCHANGED <<map, queue, op, id, ref, cfg, source, todo, others>>

\* storage.write of the empty configuration has returned.
ApplyEmpty(t) ==
    /\ pc[t] = "storedEmpty"
    /\ \/ /\ ~Gone(t)
          /\ bucket' = [bucket EXCEPT ![map[id[t]]].config = EmptyConfig]
          /\ Goto(t, "created") /\ UNCHANGED holder
       \/ Gone(t) /\ Throw(t) /\ UNCHANGED bucket
    /\ UNCHANGED <<map, queue, op, id, ref, cfg, source, todo, others>>

-----------------------------------------------------------------------------
(* updateDBState: the steps of storage.open and the purge of session keys. *)

Mkdir(t) ==
    /\ pc[t] = "mkdir"
    /\ folders' = folders \cup {id[t]} /\ dir' = dir \cup {id[t]}
    /\ Goto(t, "openDb")
    /\ UNCHANGED <<map, bucket, assets, lock, stored, semVars, op, id, ref, cfg, source, todo, faults, crashes>>

\* LevelDB opens the records and takes the lock, or rejects when it is held.  It makes
\* its directory again when a deletion has removed it, unless that took the folder too.
OpenDb(t) ==
    /\ pc[t] = "openDb"
    /\ \/ /\ lock[id[t]] = NoBucket /\ id[t] \in folders
          /\ lock' = [lock EXCEPT ![id[t]] = ref[t]]
          /\ dir' = dir \cup {id[t]}
          /\ Goto(t, "openMeta")
       \/ /\ lock[id[t]] # NoBucket \/ id[t] \notin folders
          /\ Goto(t, "openFailed")
          /\ UNCHANGED <<dir, lock>>
    /\ UNCHANGED <<map, bucket, folders, assets, stored, semVars, op, id, ref, cfg, source, todo, faults, crashes>>

\* The metadata database is open too: the object that was looked up gets its handles.
OpenMeta(t) ==
    /\ pc[t] = "openMeta"
    /\ bucket' = [bucket EXCEPT ![ref[t]].db = "open",
                                ![ref[t]].repairing = @ /\ op[t] # "repair"]
    /\ Goto(t, IF op[t] = "repair" THEN "done" ELSE "purge")
    /\ UNCHANGED <<map, semVars, op, id, ref, cfg, source, todo, others>>

\* deleteExpiredKeys, which rejects when the bucket has been closed meanwhile.
Purge(t) ==
    /\ pc[t] = "purge"
    /\ IF IsOpen(ref[t])
       THEN /\ bucket' = [bucket EXCEPT ![ref[t]].isOpen = TRUE]
            /\ Goto(t, IF source[t] = "empty" THEN "storeEmpty" ELSE "created")
       ELSE bucket' = bucket /\ Goto(t, "openFailed")
    /\ UNCHANGED <<map, semVars, op, id, ref, cfg, source, todo, others>>

RepairEnds(t, outcome) ==
    /\ bucket' = [bucket EXCEPT ![ref[t]].repairing = FALSE]
    /\ Goto(t, outcome)

\* updateDBState, or the open of a repair, throws.  A bucket that was being opened with the configuration found
\* in _bucket_config is opened again with an empty one, by the catch clause.
OpenFailed(t) ==
    /\ pc[t] = "openFailed"
    /\ LET closed == [bucket EXCEPT ![ref[t]].isOpen = FALSE]
       IN  \/ op[t] = "repair" /\ RepairEnds(t, "failed") /\ UNCHANGED <<holder, ref, source>>
           \/ /\ op[t] # "repair" /\ source[t] = "stored" /\ ~Gone(t)
              /\ UpdateDBState(t, EmptyConfig, "empty", closed)
              /\ UNCHANGED holder
           \/ /\ op[t] # "repair" /\ (source[t] # "stored" \/ Gone(t))
              /\ bucket' = closed
              /\ Throw(t)
              /\ UNCHANGED <<ref, source>>
    /\ UNCHANGED <<map, queue, op, id, cfg, todo, others>>

\* createBucket returns: a write goes on to the key, a configuration is acknowledged and
\* emits bucket-list-update, a scan goes on with the next name.
Created(t) ==
    /\ pc[t] = "created"
    /\ \/ /\ op[t] = "write"
          /\ holder' = Nobody
          /\ WaitForBucketCreation(t, id[t])
          /\ UNCHANGED op
       \/ /\ op[t] = "configure"
          /\ op' = [op EXCEPT ![t] = "event"]
          /\ Goto(t, "scan")
          /\ UNCHANGED semVars
       \/ /\ op[t] \in {"read", "event"}
          /\ Goto(t, "list")
          /\ UNCHANGED <<op, semVars>>
    /\ UNCHANGED <<map, bucket, id, ref, cfg, source, todo, others>>

-----------------------------------------------------------------------------
(* updateBuckets: a read of a missing bucket and every configuration scan. *)

Scan(t) ==
    /\ pc[t] = "scan"
    /\ todo' = [todo EXCEPT ![t] = folders]
    /\ Goto(t, "list")
    /\ UNCHANGED <<map, bucket, semVars, op, id, ref, cfg, source, others>>

\* createBuckets, one name after the other, whatever becomes of each.
CreateNext(t) ==
    /\ pc[t] = "list"
    /\ \/ \E i \in todo[t] :
             /\ todo' = [todo EXCEPT ![t] = @ \ {i}]
             /\ CreateBucket(t, i, NoConfig)
       \/ /\ todo[t] = {}
          /\ Goto(t, "done")
          /\ UNCHANGED <<map, bucket, id, cfg, todo>>
    /\ UNCHANGED <<semVars, op, ref, source, others>>

-----------------------------------------------------------------------------
(* close, and the rest of removeBucketAndData.                             *)

\* Both databases of an object are closed: the lock is free, and a deletion that has
\* awaited the close goes on.
FinishClose(b) ==
    /\ bucket[b].db = "closing"
    /\ bucket' = [bucket EXCEPT ![b].db = "none",
                     ![b].repairing = @ \/ \E t \in Tasks : pc[t] = "closeToRepair" /\ ref[t] = b]
    /\ lock' = [lock EXCEPT ![b[1]] = IF @ = b THEN NoBucket ELSE @]
    /\ pc' = [t \in Tasks |-> IF ref[t] # b THEN pc[t]
                              ELSE CASE pc[t] = "close" -> "rm"
                                     [] pc[t] = "closeToRepair" -> "repairAndOpen"
                                     [] OTHER -> pc[t]]
    /\ UNCHANGED <<map, folders, dir, assets, stored, semVars, op, id, ref, cfg, source, todo, faults, crashes>>

\* close has rejected: the bucket keeps isDeleting.
RefuseDelete(t) ==
    /\ pc[t] = "refused"
    /\ Goto(t, "failed")
    /\ UNCHANGED <<map, bucket, semVars, op, id, ref, cfg, source, todo, others>>

\* The directory of the databases is removed.
Rm(t) ==
    /\ pc[t] = "rm"
    /\ dir' = dir \ {id[t]}
    /\ Goto(t, "rmdir")
    /\ UNCHANGED <<map, bucket, folders, assets, lock, stored, semVars, op, id, ref, cfg, source,
                   todo, faults, crashes>>

\* Then the folder, which stays when it is not empty: with the assets of a web site, or
\* with the databases of a bucket that was opened meanwhile.  A later scan takes a folder
\* that has stayed for a bucket.
Rmdir(t) ==
    /\ pc[t] = "rmdir"
    /\ folders' = IF id[t] \in dir \cup assets THEN folders ELSE folders \ {id[t]}
    /\ Goto(t, "unconfigure")
    /\ UNCHANGED <<map, bucket, dir, assets, lock, stored, semVars, op, id, ref, cfg, source, todo, faults, crashes>>

\* The configuration stays.
Unconfigure(t) ==
    /\ pc[t] = "unconfigure"
    /\ stored' = [stored EXCEPT ![id[t]] = NoConfig]
    /\ Goto(t, "unmap")
    /\ UNCHANGED <<map, bucket, folders, dir, assets, lock, semVars, op, id, ref, cfg, source, todo, faults, crashes>>

Unmap(t) ==
    /\ pc[t] = "unmap"
    /\ map' = [map EXCEPT ![id[t]] = NoBucket]
    /\ Goto(t, "done")
    /\ UNCHANGED <<bucket, semVars, op, id, ref, cfg, source, todo, others>>

-----------------------------------------------------------------------------
(* The rest of repair.                                                     *)

\* leveldown.repair of both databases, which may meet a lock and must find the folder, and
\* which makes the directory if it is missing; a bucket that was open is opened again, as
\* far as open lets one that is being deleted.
Repair(t) ==
    /\ pc[t] \in {"repair", "repairAndOpen"}
    /\ \/ /\ lock[id[t]] # NoBucket \/ id[t] \notin dir
          /\ RepairEnds(t, "failed")
          /\ UNCHANGED dir
       \/ /\ id[t] \in folders /\ dir' = dir \cup {id[t]}
          /\ \/ pc[t] = "repair" /\ RepairEnds(t, "done")
             \/ /\ pc[t] = "repairAndOpen"
                /\ Goto(t, IF bucket[ref[t]].isDeleting THEN "openFailed" ELSE "mkdir")
                /\ UNCHANGED bucket
    /\ UNCHANGED <<map, folders, assets, lock, stored, semVars, op, id, ref, cfg, source, todo,
                   faults, crashes>>

-----------------------------------------------------------------------------
(* Failures.                                                               *)

\* A storage call rejects.  A failing read of a configuration looks like an absent one;
\* a failing open forgets the handles it has, with the lock; a folder that cannot be
\* removed stays.
Fault(t) ==
    /\ faults < MaxFaults
    /\ faults' = faults + 1
    /\ \/ /\ pc[t] = "readConfig"
          /\ cfg' = [cfg EXCEPT ![t] = NoConfig]
          /\ Goto(t, "gotConfig") /\ UNCHANGED <<bucket, holder>>
       \/ /\ pc[t] \in {"mkdir", "openDb", "openMeta", "purge"}
          /\ Goto(t, "openFailed") /\ UNCHANGED <<bucket, cfg, holder>>
       \/ /\ pc[t] \in {"storeConfig", "storeEmpty"}
          /\ Throw(t) /\ UNCHANGED <<bucket, cfg>>
       \/ /\ pc[t] \in {"rm", "unconfigure"}
          /\ Goto(t, "failed") /\ UNCHANGED <<bucket, cfg, holder>>
       \/ /\ pc[t] = "rmdir"
          /\ Goto(t, "unconfigure") /\ UNCHANGED <<bucket, cfg, holder>>
       \/ /\ pc[t] \in {"repair", "repairAndOpen"}
          /\ RepairEnds(t, "failed") /\ UNCHANGED <<cfg, holder>>
    /\ UNCHANGED <<map, diskVars, queue, op, id, ref, source, todo, crashes>>

\* The process is killed, started again, and has opened what it found.
Restart ==
    /\ crashes < MaxCrashes
    /\ crashes' = crashes + 1
    /\ map' = [i \in Ids |-> IF i \in folders THEN <<i, 1>> ELSE NoBucket]
    /\ stored' = Started(folders, stored)
    /\ dir' = dir \cup StartedOpen(folders, stored)
    /\ bucket' = StartedBuckets(folders, stored)
    /\ lock' = StartedLocks(folders, stored)
    /\ pc' = [t \in Tasks |-> IF pc[t] \in Settled \cup {"idle"} THEN pc[t] ELSE "lost"]
    /\ holder' = Nobody /\ queue' = <<>>
    /\ UNCHANGED <<folders, assets, op, id, ref, cfg, source, todo, faults>>

Step(t) ==
    \/ Acquire(t)
    \/ StoreConfig(t) \/ ApplySupplied(t)
    \/ ReadConfig(t) \/ ApplyStored(t) \/ ApplyEmpty(t)
    \/ Mkdir(t) \/ OpenDb(t) \/ OpenMeta(t) \/ Purge(t) \/ OpenFailed(t)
    \/ Created(t)
    \/ Scan(t) \/ CreateNext(t)
    \/ RefuseDelete(t) \/ Rm(t) \/ Rmdir(t) \/ Unconfigure(t) \/ Unmap(t)
    \/ Repair(t)

\* Two tasks at work on one name, one of which configures, deletes or repairs it; or an opening
\* while the bucket is still being closed.
Overlapping(i) ==
    \/ \E t, u \in WorkingOn(i) : t # u /\ op[t] \in {"configure", "delete", "repair"}
    \/ \E t \in WorkingOn(i), b \in Bucket :
          b[1] = i /\ bucket[b].db = "closing" /\ pc[t] \in {"mkdir", "openDb", "openFailed", "repair"}

\* A scan and another task at work on one name.
ScanOverlapping(i) == \E t, u \in WorkingOn(i) : t # u /\ op[t] \in {"read", "event"}

\* A restart cuts calls short, and forgets that a deletion was refused, which had kept
\* the bucket from opening with the configurations it was given since.
Interrupted(i) == \/ WorkingOn(i) # {}
                  \/ map[i] # NoBucket /\ bucket[map[i]].isDeleting

\* Every call is answered and there is none to come.
Finished ==
    /\ \A t \in Tasks : pc[t] \in Settled
    /\ \A b \in Bucket : bucket[b].db # "closing"
    /\ UNCHANGED vars

\* The history of an undisturbed step.
History ==
    /\ mixed' = mixed \cup {i \in Ids : Overlapping(i)'}
    /\ scanned' = scanned \cup {i \in Ids : ScanOverlapping(i)'}

Advance(t) == Step(t) /\ History
CloseDone(b) == FinishClose(b) /\ History

Next ==
    \/ \E t \in Tasks : Start(t) /\ History
    \/ \E t \in Tasks : Advance(t)
    \/ \E b \in Bucket : CloseDone(b)
    \/ \E t \in Tasks : Fault(t) /\ mixed' = mixed \cup {id[t]} /\ UNCHANGED scanned
    \/ Restart /\ mixed' = mixed \cup {i \in Ids : Interrupted(i)} /\ UNCHANGED scanned
    \/ Finished

Spec == Init /\ [][Next]_vars

\* Every storage call ends and every resolved promise runs its continuation.
Fairness ==
    /\ \A t \in Tasks : WF_vars(Advance(t))
    /\ \A b \in Bucket : WF_vars(CloseDone(b))

FairSpec == Spec /\ Fairness

-----------------------------------------------------------------------------
TypeOK ==
    /\ map \in [Ids -> Bucket \cup {NoBucket}]
    /\ bucket \in [Bucket -> Fields]
    /\ folders \in SUBSET Ids /\ dir \in SUBSET folders /\ assets \in SUBSET folders
    /\ lock \in [Ids -> Bucket \cup {NoBucket}]
    /\ stored \in [Ids -> Config \cup {NoConfig}]
    /\ holder \in Tasks \cup {Nobody}
    /\ queue \in Seq(Tasks)
    /\ pc \in [Tasks -> Steps]
    /\ op \in [Tasks -> Ops \cup {"event", "read"}]
    /\ id \in [Tasks -> Ids]
    /\ ref \in [Tasks -> Bucket \cup {NoBucket}]
    /\ cfg \in [Tasks -> Config \cup {NoConfig}]
    /\ source \in [Tasks -> {"supplied", "stored", "empty"}]
    /\ todo \in [Tasks -> SUBSET Ids]
    /\ faults \in 0..MaxFaults /\ crashes \in 0..MaxCrashes
    /\ mixed \in SUBSET Ids /\ scanned \in SUBSET Ids

\* A name no two calls have interfered on is either there or not, in every place where
\* the service keeps it: the map, the folder, the lock, the stored configuration and the
\* one in memory.  Only a configuration that disables the bucket may stay without a
\* folder, which is how such a bucket is forgotten by a restart, and a folder without a
\* bucket only for the other files in it: its next scan makes a new bucket of it.
Coherent ==
    \A i \in Ids \ mixed :
        (WorkingOn(i) = {} /\ \A b \in Bucket : b[1] = i => bucket[b].db # "closing") =>
            IF map[i] = NoBucket
            THEN /\ i \notin dir /\ lock[i] = NoBucket
                 /\ i \in folders => i \in assets
                 /\ stored[i] # NoConfig => stored[i].disabled
            ELSE LET b == map[i] IN
                 /\ stored[i] = bucket[b].config
                 /\ ~bucket[b].isDeleting => (IsOpen(b) <=> ~bucket[b].config.disabled)
                 /\ lock[i] = IF IsOpen(b) THEN b ELSE NoBucket
                 /\ IsOpen(b) => i \in dir

\* A deletion spans four awaits after the close.  What it removes then, the folder, the
\* configuration and the entry of the map, is still that of the bucket it closed: nothing
\* takes the place of a bucket that is being deleted, but for a second deletion, which
\* may go on after the first has made room for a new bucket of the name.
DeletesWhatItClosed ==
    \A t \in Tasks :
        (/\ pc[t] \in {"rm", "rmdir", "unconfigure", "unmap"}
         /\ \A u \in Tasks \ {t} : ~(op[u] = "delete" /\ id[u] = id[t] /\ pc[u] # "idle"))
        => map[id[t]] = ref[t]

\* bucketCreationSemaphore and waitForBucketCreation: a write to a bucket that another
\* write is creating is not refused.  It is when the bucket is disabled or deleted, and
\* when a configuration or a scan creates it at the same time, which the semaphore does
\* not cover: of two openings the one that meets the other's lock fails.
WritesAreServed ==
    [][\A t \in Tasks :
         (op'[t] = "write" /\ pc[t] # "failed" /\ pc'[t] = "failed") =>
            LET b == map[id'[t]] IN
            \/ id'[t] \in mixed' \cup scanned'
            \/ \E u \in WorkingOn(id'[t]) : op[u] # "write"
            \/ b = NoBucket \/ bucket[b].isDeleting \/ bucket[b].config.disabled]_vars

\* Every call is answered, or lost to a crash: whatever fails or throws on the way, the
\* semaphore is released and its queue moves on.
EverySettles == \A t \in Tasks : (pc[t] # "idle") ~> (pc[t] \in Settled)

\* datastore.ts, line 122: "apply config (supplied or from datastore)".  The catch clause
\* that stores an empty configuration runs only when none is stored.
StoredConfigKept == \A t \in Tasks : pc[t] = "storeEmpty" => stored[id[t]] = NoConfig
=============================================================================
