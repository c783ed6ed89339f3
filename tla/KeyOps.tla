------------------------------- MODULE KeyOps -------------------------------
(***************************************************************************)
(* The key operations of one LevelDB bucket: DataStore.write,              *)
(* writeFailIfExists, patch and remove over DataStoreLevel.write, read and *)
(* remove, and the opening of the bucket when the service starts.          *)
(*                                                                         *)
(* Node runs one handler at a time, but every await hands control over and *)
(* LevelDB applies the calls in flight in any order.  A request is then a  *)
(* little process whose steps are the storage calls it awaits:             *)
(*                                                                         *)
(*    write, remove:   put -> putMeta -> publish                           *)
(*    create, patch:   wait -> read -> put -> putMeta -> publish           *)
(*                                                                         *)
(* "create" is writeFailIfExists, "rootPatch" a patch of the whole value   *)
(* (an operation on path "").  Only creates and patches take the write     *)
(* semaphore.  Each record is stored twice, in db (the record) and in      *)
(* metadb (the metadata alone), by two calls in this order.                *)
(***************************************************************************)
EXTENDS Naturals, Sequences

CONSTANTS
    Keys,        \* the keys of the bucket
    Requests,    \* client requests, each invoked at most once
    Ops,         \* the operations the clients use
    Legacy,      \* the writer of the records found on disk at the first start
    NoRecord,    \* no record is stored under the key
    Nobody,      \* the write semaphore is free
    Fallible,    \* the storage calls that may fail, and "open" for those of an opening
    MaxFaults,   \* bound on failing storage calls
    MaxCrashes   \* bound on crashes of the service

OpNames == {"write", "create", "patch", "rootPatch", "remove"}
Patches == {"patch", "rootPatch"}
ReadModifyWrite == {"create"} \cup Patches   \* the ones that take writeSemaphore
Calls == {"read", "put", "putMeta", "open"}

ASSUME OpsAssumption == Ops \subseteq OpNames
ASSUME NamesAssumption == Nobody \notin Requests /\ Legacy \notin Requests
ASSUME FaultsAssumption == Fallible \subseteq Calls
ASSUME BoundsAssumption == MaxFaults \in Nat /\ MaxCrashes \in Nat

Writers == Requests \cup {Legacy}

\* A JSON value is the set of the requests that contributed to it: a write makes
\* {r}, a patch adds r to what it read.  `session` stands for expire = 'session',
\* `by` for the timestamp and the size, which tell one version from another.
Record == [by : Writers, val : SUBSET Writers, session : BOOLEAN]
Metadata == [by : Writers, session : BOOLEAN]

ASSUME NoRecordAssumption == NoRecord \notin Record \cup Metadata

VARIABLES
    db,          \* the records: key -> Record
    meta,        \* the metadata database: key -> Metadata
    metaExists,  \* the directory of the metadata database exists
    mode,        \* "down", "copying", "purging" or "serving"
    purge,       \* session keys the opening has still to remove
    call,        \* what each request asks for
    pc,          \* where each request is
    seen,        \* the record a create or a patch has read
    holder,      \* who holds writeSemaphore
    waiting,     \* who queues for it, first come first served
    faults, crashes

\* What no code keeps: history the properties speak about.
VARIABLES
    view,        \* the copy kept by a subscriber that applies every change event
    suspect,     \* keys whose last mutations overlapped, or were cut short
    exposed,     \* creates and patches whose key was replaced, since they read it,
                 \* by an operation that does not hold the semaphore
    misread,     \* creates that took a failing read for an absent key
    spared,      \* session keys the last opening has left, because it failed
    old          \* requests made before the last crash

bootVars == <<mode, purge, metaExists>>
reqVars == <<call, seen, holder, waiting>>
ghosts == <<view, suspect, exposed, misread, spared, old>>
vars == <<db, meta, metaExists, mode, purge, call, pc, seen, holder, waiting,
          faults, crashes, view, suspect, exposed, misread, spared, old>>

Settled == {"acked", "refused", "failed", "lost"}
Phases == {"idle", "wait", "read", "put", "putMeta", "publish", "refuse", "error"}
            \cup Settled

Call == [op : Ops, key : Keys, session : BOOLEAN]

TypeOK ==
    /\ db \in [Keys -> Record \cup {NoRecord}]
    /\ meta \in [Keys -> Metadata \cup {NoRecord}]
    /\ metaExists \in BOOLEAN
    /\ mode \in {"down", "copying", "purging", "serving"}
    /\ purge \subseteq Keys
    /\ pc \in [Requests -> Phases]
    /\ call \in [Requests -> Call \cup {Nobody}]
    /\ \A r \in Requests : pc[r] # "idle" => call[r] \in Call
    /\ seen \in [Requests -> Record \cup {NoRecord}]
    /\ holder \in Requests \cup {Nobody}
    /\ waiting \in Seq(Requests)
    /\ faults \in 0 .. MaxFaults /\ crashes \in 0 .. MaxCrashes
    /\ view \in [Keys -> SUBSET Writers]
    /\ suspect \subseteq Keys /\ spared \subseteq Keys
    /\ exposed \subseteq Requests /\ misread \subseteq Requests /\ old \subseteq Requests

-----------------------------------------------------------------------------
(* The operators named Bug... are not part of the model: each is a plausible       *)
(* mistake in the definition that follows it, which the properties must notice.    *)

BugMetaWithoutExpiry(rec) == IF rec = NoRecord THEN NoRecord ELSE [by |-> rec.by]

\* DataStoreLevel.write: what the two databases keep of a record.
MetaOf(rec) == IF rec = NoRecord THEN NoRecord ELSE [by |-> rec.by, session |-> rec.session]
ValueOf(rec) == IF rec = NoRecord THEN {} ELSE rec.val   \* {}: no value

\* What the request stores.  A patch stores the value it read, with no expiry at all;
\* json-patch has patched that value in place, unless the operation is on the root: then
\* it has returned another one, which is not stored.
NewRecord(r) ==
    CASE call[r].op = "remove" -> NoRecord
      [] call[r].op = "patch" ->
            [by |-> r, val |-> seen[r].val \cup {r}, session |-> FALSE]
      [] call[r].op = "rootPatch" ->
            [by |-> r, val |-> seen[r].val, session |-> FALSE]
      [] OTHER -> [by |-> r, val |-> {r}, session |-> call[r].session]

\* The value of the change event and of the reply: of a patch, what apply returned.
Announced(r) == IF call[r].op = "rootPatch" THEN {r} ELSE ValueOf(NewRecord(r))

BugExpiredByMetadata == {k \in Keys : meta[k] # NoRecord /\ meta[k].session}
\* The keys deleteExpiredKeys removes: it lists the records, not the metadata.
ExpiredKeys == {k \in Keys : db[k] # NoRecord /\ db[k].session}

\* The requests between their first effect on key k and their change event.
Window(k) == {r \in Requests : pc[r] \in {"putMeta", "publish"} /\ call[r].key = k}

\* The request replaces the key without having seen what it holds.
Blind(r) == call[r].op \notin ReadModifyWrite \/ r \in misread

\* The creates and patches of key k that are past their read.
Informed(k) ==
    {r \in Requests : /\ pc[r] \in {"put", "putMeta", "publish", "acked"}
                      /\ call[r].op \in ReadModifyWrite
                      /\ call[r].key = k}

Init ==
    /\ db \in [Keys -> {NoRecord} \cup [by : {Legacy}, val : {{Legacy}}, session : BOOLEAN]]
    /\ meta = [k \in Keys |-> NoRecord]
    /\ metaExists = FALSE
    /\ mode = "down"
    /\ purge = {}
    /\ call = [r \in Requests |-> Nobody]
    /\ pc = [r \in Requests |-> "idle"]
    /\ seen = [r \in Requests |-> NoRecord]
    /\ holder = Nobody
    /\ waiting = <<>>
    /\ faults = 0 /\ crashes = 0
    /\ view = [k \in Keys |-> {}]
    /\ suspect = {} /\ exposed = {} /\ misread = {} /\ spared = {} /\ old = {}

-----------------------------------------------------------------------------
(* Opening the bucket, before the servers listen. *)

\* DataStoreLevel.open: both databases are open; the metadata is to be copied
\* when its directory was not there before.
Open ==
    /\ mode = "down"
    /\ mode' = IF metaExists THEN "purging" ELSE "copying"
    /\ metaExists' = TRUE
    /\ purge' = IF metaExists THEN ExpiredKeys ELSE {}
    /\ spared' = {}
    /\ UNCHANGED <<db, meta, pc, reqVars, faults, crashes,
                   view, suspect, exposed, misread, old>>

\* copyBucketMetaData: one batch with the metadata of every record.
CopyMetadata ==
    /\ mode = "copying"
    /\ meta' = [k \in Keys |-> IF db[k] = NoRecord THEN meta[k] ELSE MetaOf(db[k])]
    /\ suspect' = {k \in Keys : db[k] = NoRecord /\ k \in suspect}
    /\ mode' = "purging"
    /\ purge' = ExpiredKeys
    /\ UNCHANGED <<db, metaExists, pc, reqVars, faults, crashes,
                   view, exposed, misread, spared, old>>

\* deleteExpiredKeys, one key at a time: DataStoreLevel.remove deletes the record
\* and then its metadata.
PurgeRecord(k) ==
    /\ mode = "purging"
    /\ k \in purge
    /\ \A j \in purge : db[j] # NoRecord
    /\ db' = [db EXCEPT ![k] = NoRecord]
    /\ UNCHANGED <<meta, metaExists, mode, purge, pc, reqVars, faults, crashes, ghosts>>

PurgeMeta(k) ==
    /\ mode = "purging"
    /\ k \in purge
    /\ db[k] = NoRecord
    /\ meta' = [meta EXCEPT ![k] = NoRecord]
    /\ purge' = purge \ {k}
    /\ suspect' = suspect \ {k}
    /\ UNCHANGED <<db, metaExists, mode, pc, reqVars, faults, crashes,
                   view, exposed, misread, spared, old>>

\* CachearooDb.init goes on to start the servers; a subscriber reads the bucket.
Serve ==
    /\ mode = "purging"
    /\ purge = {}
    /\ mode' = "serving"
    /\ view' = [k \in Keys |-> ValueOf(db[k])]
    /\ UNCHANGED <<db, meta, metaExists, purge, pc, reqVars, faults, crashes,
                   suspect, exposed, misread, spared, old>>

\* The keys an interruption leaves half done: stored but without their metadata,
\* purged but still with it, or never copied.
HalfDone ==
    {k \in Keys : \/ \E r \in Requests : pc[r] = "putMeta" /\ call[r].key = k
                  \/ k \in purge /\ db[k] = NoRecord
                  \/ mode = "copying" /\ db[k] # NoRecord}

\* A storage call of the copy or of the purge rejects when the two databases are open.
\* applyBucketConfig catches it and applies the empty configuration to the bucket,
\* which is open: it is served as it stands.
FailOpening ==
    /\ mode \in {"copying", "purging"}
    /\ "open" \in Fallible
    /\ faults < MaxFaults
    /\ faults' = faults + 1
    /\ mode' = "serving"
    /\ purge' = {}
    /\ spared' = ExpiredKeys
    /\ suspect' = suspect \cup HalfDone
    /\ view' = [k \in Keys |-> ValueOf(db[k])]
    /\ UNCHANGED <<db, meta, metaExists, pc, reqVars, crashes, exposed, misread, old>>

-----------------------------------------------------------------------------
(* The requests. *)

\* Only a write and a create carry an expiry.
ExpiryChoices(o) == IF o \in {"write", "create"} THEN BOOLEAN ELSE {FALSE}

\* The entry of the four operations.  A write or a remove issues its first storage
\* call at once; a create or a patch queues for the semaphore.
Invoke(r, o, k, s) ==
    /\ mode = "serving"
    /\ pc[r] = "idle"
    /\ s \in ExpiryChoices(o)
    /\ call' = [call EXCEPT ![r] = [op |-> o, key |-> k, session |-> s]]
    /\ \/ /\ o \notin ReadModifyWrite
          /\ pc' = [pc EXCEPT ![r] = "put"]
          /\ UNCHANGED waiting
       \/ /\ o \in ReadModifyWrite
          /\ pc' = [pc EXCEPT ![r] = "wait"]
          /\ waiting' = Append(waiting, r)
    /\ UNCHANGED <<db, meta, bootVars, seen, holder, faults, crashes, ghosts>>

BugAcquireFree(r) ==
    /\ pc[r] = "wait"
    /\ waiting # <<>> /\ Head(waiting) = r
    /\ holder' = r
    /\ waiting' = Tail(waiting)
    /\ pc' = [pc EXCEPT ![r] = "read"]
    /\ UNCHANGED <<db, meta, bootVars, call, seen, faults, crashes, ghosts>>

\* The semaphore of await-semaphore serves its queue in order.
Acquire(r) ==
    /\ pc[r] = "wait"
    /\ holder = Nobody
    /\ waiting # <<>> /\ Head(waiting) = r
    /\ holder' = r
    /\ waiting' = Tail(waiting)
    /\ pc' = [pc EXCEPT ![r] = "read"]
    /\ UNCHANGED <<db, meta, bootVars, call, seen, faults, crashes, ghosts>>

BugReadForCreateBlind(r) ==
    /\ pc[r] = "read" /\ call[r].op = "create"
    /\ seen' = [seen EXCEPT ![r] = db[call[r].key]]
    /\ pc' = [pc EXCEPT ![r] = "put"]
    /\ UNCHANGED <<db, meta, bootVars, call, holder, waiting, faults, crashes, ghosts>>

\* writeFailIfExists: a read that succeeds refuses the write.
ReadForCreate(r) ==
    /\ pc[r] = "read" /\ call[r].op = "create"
    /\ seen' = [seen EXCEPT ![r] = db[call[r].key]]
    /\ pc' = [pc EXCEPT ![r] = IF db[call[r].key] = NoRecord THEN "put" ELSE "refuse"]
    /\ UNCHANGED <<db, meta, bootVars, call, holder, waiting, faults, crashes, ghosts>>

\* patch: an absent key refuses it, and so does a patch that does not apply.
ReadForPatch(r) ==
    /\ pc[r] = "read" /\ call[r].op \in Patches
    /\ seen' = [seen EXCEPT ![r] = db[call[r].key]]
    /\ \/ /\ db[call[r].key] # NoRecord
          /\ pc' = [pc EXCEPT ![r] = "put"]
       \/ pc' = [pc EXCEPT ![r] = "refuse"]
    /\ UNCHANGED <<db, meta, bootVars, call, holder, waiting, faults, crashes, ghosts>>

\* The first storage call of DataStoreLevel.write or remove takes effect.
StoreRecord(r) ==
    LET k == call[r].key IN
    /\ pc[r] = "put"
    /\ db' = [db EXCEPT ![k] = NewRecord(r)]
    /\ pc' = [pc EXCEPT ![r] = "putMeta"]
    /\ suspect' = IF Window(k) = {} THEN suspect \ {k} ELSE suspect \cup {k}
    /\ exposed' = IF Blind(r) THEN exposed \cup (Informed(k) \ {r}) ELSE exposed
    /\ UNCHANGED <<meta, bootVars, reqVars, faults, crashes, view, misread, spared, old>>

BugStoreMetaOfRemoved(r) ==
    /\ pc[r] = "putMeta"
    /\ meta' = IF call[r].op = "remove" THEN meta
               ELSE [meta EXCEPT ![call[r].key] = MetaOf(NewRecord(r))]
    /\ pc' = [pc EXCEPT ![r] = "publish"]
    /\ UNCHANGED <<db, bootVars, reqVars, faults, crashes, ghosts>>

\* The second one does: the metadata of what this request stored.
StoreMeta(r) ==
    /\ pc[r] = "putMeta"
    /\ meta' = [meta EXCEPT ![call[r].key] = MetaOf(NewRecord(r))]
    /\ pc' = [pc EXCEPT ![r] = "publish"]
    /\ UNCHANGED <<db, bootVars, reqVars, faults, crashes, ghosts>>

BugReleaseAny(r) == holder' = Nobody

Release(r) == holder' = IF holder = r THEN Nobody ELSE holder

BugPublishUnpatched(r) ==
    /\ pc[r] = "publish"
    /\ view' = [view EXCEPT ![call[r].key] =
                    IF call[r].op = "patch" THEN ValueOf(seen[r]) ELSE Announced(r)]
    /\ pc' = [pc EXCEPT ![r] = "acked"]
    /\ Release(r)
    /\ UNCHANGED <<db, meta, bootVars, call, seen, waiting, faults, crashes,
                   suspect, exposed, misread, spared, old>>

\* Back from the storage: the change event, the reply and the release.
Publish(r) ==
    /\ pc[r] = "publish"
    /\ view' = [view EXCEPT ![call[r].key] = Announced(r)]
    /\ pc' = [pc EXCEPT ![r] = "acked"]
    /\ Release(r)
    /\ UNCHANGED <<db, meta, bootVars, call, seen, waiting, faults, crashes,
                   suspect, exposed, misread, spared, old>>

BugGiveUpHolding(r) ==
    /\ pc[r] \in {"refuse", "error"}
    /\ pc' = [pc EXCEPT ![r] = IF pc[r] = "refuse" THEN "refused" ELSE "failed"]
    /\ UNCHANGED <<db, meta, bootVars, reqVars, faults, crashes, ghosts>>

\* The error reply, with the release of the finally clause.
GiveUp(r) ==
    /\ pc[r] \in {"refuse", "error"}
    /\ pc' = [pc EXCEPT ![r] = IF pc[r] = "refuse" THEN "refused" ELSE "failed"]
    /\ Release(r)
    /\ UNCHANGED <<db, meta, bootVars, call, seen, waiting, faults, crashes, ghosts>>

\* A storage call rejects.  writeFailIfExists takes any rejection of its read for an
\* absent key and goes on to write; every other rejection reaches the client.
Fault(r) ==
    /\ pc[r] \in Fallible
    /\ faults < MaxFaults
    /\ faults' = faults + 1
    /\ \/ /\ pc[r] = "read" /\ call[r].op = "create"
          /\ pc' = [pc EXCEPT ![r] = "put"]
          /\ misread' = misread \cup {r}
          /\ UNCHANGED suspect
       \/ /\ ~(pc[r] = "read" /\ call[r].op = "create")
          /\ pc' = [pc EXCEPT ![r] = "error"]
          /\ suspect' = IF pc[r] = "putMeta" THEN suspect \cup {call[r].key} ELSE suspect
          /\ UNCHANGED misread
    /\ UNCHANGED <<db, meta, bootVars, reqVars, crashes, view, exposed, spared, old>>

-----------------------------------------------------------------------------
\* The process dies; systemd starts it again.
Crash ==
    /\ crashes < MaxCrashes
    /\ crashes' = crashes + 1
    /\ mode' = "down"
    /\ purge' = {}
    /\ pc' = [r \in Requests |->
                 IF pc[r] \in Settled \cup {"idle"} THEN pc[r] ELSE "lost"]
    /\ holder' = Nobody
    /\ waiting' = <<>>
    /\ suspect' = suspect \cup HalfDone
    /\ old' = {r \in Requests : pc[r] # "idle"}
    /\ UNCHANGED <<db, meta, metaExists, call, seen, faults, view, exposed, misread, spared>>

\* Every request is answered and there is none to come.
Finished ==
    /\ mode = "serving"
    /\ \A r \in Requests : pc[r] \in Settled
    /\ UNCHANGED vars

Boot ==
    \/ Open
    \/ CopyMetadata
    \/ \E k \in Keys : PurgeRecord(k) \/ PurgeMeta(k)
    \/ Serve

Advance(r) ==
    \/ Acquire(r)
    \/ ReadForCreate(r)
    \/ ReadForPatch(r)
    \/ StoreRecord(r)
    \/ StoreMeta(r)
    \/ Publish(r)
    \/ GiveUp(r)

Next ==
    \/ Boot
    \/ FailOpening
    \/ \E r \in Requests :
          \/ \E o \in Ops, k \in Keys, s \in BOOLEAN : Invoke(r, o, k, s)
          \/ Advance(r)
          \/ Fault(r)
    \/ Crash
    \/ Finished

Spec == Init /\ [][Next]_vars

\* A storage call ends, a resolved promise runs its continuation, and systemd
\* restarts the service; clients owe nothing.
Fairness == WF_vars(Boot) /\ \A r \in Requests : WF_vars(Advance(r))

FairSpec == Spec /\ Fairness

-----------------------------------------------------------------------------
\* The database and its metadata agree on every key whose last mutations neither
\* overlapped nor were cut short: DataStoreLevel.write and remove keep the two in
\* step, and a record that was torn is healed by the next mutation that runs alone.
MetaAgrees ==
    \A k \in Keys :
        (/\ mode \in {"purging", "serving"}
         /\ k \notin suspect \cup purge
         /\ ~ \E r \in Requests : pc[r] = "putMeta" /\ call[r].key = k)
        => meta[k] = MetaOf(db[k])

\* The copy holds what a patch of the root returned, over the record it wrote back.
HoldsRootPatch(k) ==
    /\ db[k] # NoRecord
    /\ \E r \in Requests : /\ pc[r] = "acked" /\ call[r].op = "rootPatch"
                           /\ db[k].by = r /\ view[k] = {r}

\* A subscriber that applies every change event holds, of such a key, what is
\* stored, once the events of the mutations in flight are out: no mutation is
\* stored without its event and no event is sent for what is not stored, except
\* that of a patch of the root, until the key is written again.
MirrorAgrees ==
    \A k \in Keys :
        (mode = "serving" /\ k \notin suspect /\ Window(k) = {})
        => view[k] = ValueOf(db[k]) \/ HoldsRootPatch(k)

\* A patch that was acknowledged is never lost to another create or patch, over
\* failures and crashes: what it contributed stays in the value of the key until an
\* operation that does not take the write semaphore replaces it.  A patch of the root
\* is none of these: it is acknowledged and nothing of it is stored, but it loses no
\* other.
NoLostPatch ==
    \A r \in Requests :
        (pc[r] = "acked" /\ call[r].op = "patch" /\ r \notin exposed)
        => /\ db[call[r].key] # NoRecord
           /\ r \in db[call[r].key].val

\* The create r still has its claim on its key: it saw that the key was absent, no
\* blind operation replaced the key since, and no restart expired its record.
Claims(r) ==
    /\ pc[r] = "acked" /\ call[r].op = "create"
    /\ r \notin exposed \cup misread
    /\ ~(call[r].session /\ r \in old)

\* writeFailIfExists lets one client at most create a key: of two that were told
\* they did, one has lost its claim.
SingleCreator ==
    \A q, r \in Requests :
        (q # r /\ Claims(q) /\ Claims(r)) => call[q].key # call[r].key

\* No session record outlives a restart: once the service serves again, none of the
\* records written for a session before the crash is there, torn or not, unless the
\* opening failed; what a failed opening has left, the next one that succeeds removes.
NoStaleSession ==
    mode = "serving" =>
        \A k \in Keys \ spared :
            (db[k] # NoRecord /\ db[k].session) => db[k].by \notin old \cup {Legacy}

\* Every request is answered, or lost to a crash: whatever fails inside, the write
\* semaphore is released and its queue moves on.
EverySettles == \A r \in Requests : (pc[r] # "idle") ~> (pc[r] \in Settled)
=============================================================================
