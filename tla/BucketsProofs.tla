--------------------------- MODULE BucketsProofs ---------------------------
(***************************************************************************)
(* Proofs about Buckets: type correctness, what a deletion deletes, and   *)
(* what a bucket is when no call is at work on it.                         *)
(*                                                                         *)
(* Coherent speaks of quiet names; the inductive invariant says, for a name *)
(* no two calls have interfered on, how far each call at work on it has    *)
(* brought it.  Such a name is either in the hands of one configuration,   *)
(* deletion or repair, or of any number of finders: first writes, reads and *)
(* scans, which create the bucket together from what is stored.            *)
(***************************************************************************)
EXTENDS Buckets, FiniteSetTheorems, TLAPS

Finders == {"write", "read", "event"}

\* The steps at which a task goes by the object it has looked up.
Deleting == {"close", "refused", "rm", "rmdir", "unconfigure", "unmap"}
Repairing == {"closeToRepair", "repair", "repairAndOpen"}
Opening == {"mkdir", "openDb", "openMeta"}
Looked == Deleting \cup Repairing \cup Opening \cup {"purge", "openFailed"}

\* Which call may be at step p, with operation o, the configuration c and its source s,
\* the object rf looked up, on name i.
AtStep(p, o, s, c, rf, i) ==
    /\ p \in {"create", "wait"} => o = "write"
    /\ p \in {"scan", "list"} => o \in {"read", "event"}
    /\ p \in {"storeConfig", "storedConfig"} => o = "configure" /\ c \in Config
    /\ p \in {"readConfig", "gotConfig", "storeEmpty", "storedEmpty"} => o \in Finders
    /\ p \in Deleting => o = "delete"
    /\ p \in Repairing => o = "repair"
    /\ p \in Opening \cup {"openFailed"} => o \in Finders \cup {"configure", "repair"}
    /\ p \in {"purge", "created"} => o \in Finders \cup {"configure"}
    /\ p \in Opening \cup {"purge", "openFailed"} /\ o = "configure" => s = "supplied"
    /\ p \in Looked => rf \in Bucket /\ rf[1] = i

TaskInv == \A t \in Tasks : AtStep(pc[t], op[t], source[t], cfg[t], ref[t], id[t])

\* The objects are those of their names.
ObjectInv == \A i \in Ids : /\ map[i] # NoBucket => map[i][1] = i
                            /\ lock[i] # NoBucket => lock[i][1] = i

\* A deletion that is the only one of its name finds in the map what it closes.
DeletionInv == \A t \in Tasks :
    (/\ pc[t] \in Deleting
     /\ \A u \in Tasks \ {t} : ~(op[u] = "delete" /\ id[u] = id[t] /\ pc[u] # "idle"))
    => map[id[t]] = ref[t]

-----------------------------------------------------------------------------
(* A name no two calls have interfered on. *)

At(i, steps) == \E t \in WorkingOn(i) : pc[t] \in steps

\* Whoever works on it has the bucket of the map, and no other object is open.
Bound(i) ==
    /\ \A t \in WorkingOn(i) : map[i] \in Bucket /\ (pc[t] \in Looked => ref[t] = map[i])
    /\ \A b \in Bucket : b[1] = i /\ b # map[i] => bucket[b].db = "none"

Absent(i) == map[i] = NoBucket =>
    /\ i \notin dir /\ lock[i] = NoBucket
    /\ stored[i] # NoConfig => stored[i].disabled

\* The lock is that of a bucket with handles, or about to get them.
Locked(i) == map[i] # NoBucket =>
    LET r == bucket[map[i]] IN
    /\ lock[i] = IF r.db # "none" \/ At(i, {"openMeta"}) THEN map[i] ELSE NoBucket
    /\ r.db = "open" => i \in dir /\ ~r.isDeleting /\ ~r.config.disabled
    /\ \A t, u \in WorkingOn(i) : pc[t] = "openMeta" /\ pc[u] = "openMeta" => t = u

\* What a call has achieved that is at step p, with operation o, the configuration c and
\* its source s: r is the bucket, st its stored configuration, d whether its databases are on disk.
Achieved(p, o, s, c, r, st, d) ==
    /\ p \in {"openDb", "openMeta", "closeToRepair", "repairAndOpen"} => d
    /\ p \in Opening \cup {"closeToRepair", "repairAndOpen"} =>
          ~r.isDeleting /\ ~r.config.disabled
    /\ p \in Opening /\ o \notin Finders => r.db = "none"
    /\ p = "openMeta" => r.db = "none"
    /\ p \in {"purge", "storeEmpty", "storedEmpty"} => r.db = "open"
    /\ p \in Deleting => r.isDeleting
    /\ p \in {"close", "closeToRepair"} => r.db = "closing"
    /\ p \in {"refused", "rm", "rmdir", "unconfigure", "unmap", "repairAndOpen"} => r.db = "none"
    /\ p \in {"rmdir", "unconfigure", "unmap"} => ~d
    /\ p = "unmap" => st = NoConfig
    /\ p = "openFailed" => o # "repair" /\ (s # "empty" => r.isDeleting)
    /\ p = "storedConfig" => st = c
    /\ p = "gotConfig" => c \in {NoConfig, st}
    /\ p = "storedEmpty" => st = EmptyConfig

\* A finder that opens the bucket, or is to give it an empty configuration, has found
\* none, and nothing else has come since.
FoundNone(p, o, s, c, r, st) ==
    (\/ p = "gotConfig" /\ c = NoConfig
     \/ p \in Opening \cup {"purge"} /\ o \in Finders
     \/ p \in {"storeEmpty", "storedEmpty"})
    => /\ r.config = EmptyConfig /\ ~r.isDeleting
       /\ st \in {NoConfig, EmptyConfig}
       /\ p \in Opening \cup {"purge"} => s = "empty"
       /\ p \in Opening /\ r.db # "open" => st = NoConfig

Progress(i) == \A t \in WorkingOn(i) :
    /\ Achieved(pc[t], op[t], source[t], cfg[t], bucket[map[i]], stored[i], i \in dir)
    /\ FoundNone(pc[t], op[t], source[t], cfg[t], bucket[map[i]], stored[i])

\* The steps of a finder that is to store an empty configuration.
Finding(db) == IF db = "open" THEN {"purge", "storeEmpty"}
                              ELSE {"readConfig", "gotConfig"} \cup Opening

\* Where the bucket has not the stored configuration, a call is about to see to it.
Agreed(i) == map[i] # NoBucket =>
    LET r == bucket[map[i]] IN
    \/ stored[i] = r.config
    \/ At(i, {"storeConfig", "storedConfig"})
    \/ At(i, {"unmap"})
    \/ /\ r.config = EmptyConfig /\ ~r.isDeleting /\ r.db # "closing"
       /\ stored[i] = NoConfig
       /\ \E t \in WorkingOn(i) : op[t] \in Finders /\ pc[t] \in Finding(r.db)
    \/ /\ r.config = EmptyConfig /\ ~r.isDeleting /\ r.db = "none"
       /\ stored[i] # NoConfig /\ stored[i].disabled
       /\ WorkingOn(i) # {}
       /\ \A t \in WorkingOn(i) : pc[t] \in {"readConfig", "gotConfig"}

\* A bucket that should be open and is not is about to be.
Opened(i) == map[i] # NoBucket =>
    LET r == bucket[map[i]] IN
    \/ r.config.disabled \/ r.isDeleting \/ r.db = "open"
    \/ At(i, Opening \cup {"storeConfig", "storedConfig", "closeToRepair", "repairAndOpen"})
    \/ At(i, {"readConfig", "gotConfig"}) /\ stored[i] # r.config

NameInv(i) == /\ ~Overlapping(i)
              /\ Bound(i) /\ Absent(i) /\ Locked(i) /\ Progress(i)
              /\ Agreed(i) /\ Opened(i)

NamesInv == \A i \in Ids \ mixed : NameInv(i)

-----------------------------------------------------------------------------
(* A name no scan has disturbed either. *)

\* The first writes at work hold the semaphore, so there is one at most.
HolderInv == \A t \in Tasks : pc[t] \in Working /\ op[t] = "write" => holder = t

ServedInv(i) ==
    /\ ~ScanOverlapping(i)
    /\ \A t \in WorkingOn(i) :
          /\ pc[t] \in {"mkdir", "openDb"} => bucket[map[i]].db # "open"
          /\ pc[t] = "openFailed" => bucket[map[i]].isDeleting
    /\ map[i] # NoBucket =>
          LET r == bucket[map[i]] IN
          r.isOpen => \/ r.db = "open" \/ r.config.disabled \/ r.isDeleting
                      \/ \E u \in WorkingOn(i) : op[u] # "write"

AllServed == \A i \in Ids \ (mixed \cup scanned) : ServedInv(i)

IInv == TypeOK /\ TaskInv /\ ObjectInv /\ DeletionInv /\ NamesInv /\ HolderInv /\ AllServed

-----------------------------------------------------------------------------
(* What the operators the actions share do. *)

LEMMA FreshType == /\ EmptyConfig \in Config /\ Fresh \in Fields
                   /\ Fresh.db = "none" /\ Fresh.config = EmptyConfig /\ ~EmptyConfig.disabled
                   /\ ~Fresh.isDeleting /\ ~Fresh.isOpen /\ ~Fresh.repairing
  BY DEF EmptyConfig, Config, Fresh, Fields

LEMMA FieldsUpdate ==
    ASSUME NEW r \in Fields
    PROVE  /\ \A x \in {"none", "open", "closing"} : [r EXCEPT !.db = x] \in Fields
           /\ \A x \in BOOLEAN : [r EXCEPT !.isOpen = x] \in Fields
           /\ \A x \in BOOLEAN : [r EXCEPT !.repairing = x] \in Fields
           /\ \A x \in Config : [r EXCEPT !.config = x] \in Fields
  BY DEF Fields

LEMMA NewBucketIsFree ==
    ASSUME NEW i \in Ids, HasFreeObject(i)
    PROVE  NewBucket(i) \in Bucket /\ NewBucket(i)[1] = i /\ ~InUse(NewBucket(i))
<1> DEFINE Free(n) == ~InUse(<<i, n>>)
           m == CHOOSE n \in 1..Generations : Free(n)
<1>1. \E n \in 1..Generations : Free(n)
  BY DEF HasFreeObject
<1> HIDE DEF Free
<1>2. m \in 1..Generations /\ Free(m)
  BY <1>1
<1>3. NewBucket(i) = <<i, m>>
  BY DEF NewBucket, Free
<1> HIDE DEF m
<1> QED
  BY <1>2, <1>3 DEF Free, Bucket

\* createBucket finds the bucket, or puts a new one into the map.
LEMMA CreateEffect ==
    ASSUME TypeOK, ObjectInv, NEW t \in Tasks, NEW i \in Ids, NEW c, CreateBucket(t, i, c)
    PROVE  \E b \in Bucket :
              /\ b[1] = i /\ map' = [map EXCEPT ![i] = b] /\ map'[i] = b
              /\ \/ /\ map[i] = b
                    /\ bucket' = [bucket EXCEPT ![b].isOpen = (bucket[b].db = "open")]
                 \/ /\ map[i] = NoBucket /\ ~InUse(b)
                    /\ bucket' = [bucket EXCEPT ![b] = Fresh]
              /\ id' = [id EXCEPT ![t] = i] /\ cfg' = [cfg EXCEPT ![t] = c]
              /\ pc' = [pc EXCEPT ![t] = IF c = NoConfig THEN "readConfig" ELSE "storeConfig"]
<1>1. CASE map[i] = NoBucket
  <2> DEFINE b == NewBucket(i)
  <2>1. b \in Bucket /\ b[1] = i /\ ~InUse(b)
    BY <1>1, NewBucketIsFree DEF CreateBucket
  <2>2. /\ map' = [map EXCEPT ![i] = b] /\ bucket' = [bucket EXCEPT ![b] = Fresh]
        /\ id' = [id EXCEPT ![t] = i] /\ cfg' = [cfg EXCEPT ![t] = c]
        /\ pc' = [pc EXCEPT ![t] = IF c = NoConfig THEN "readConfig" ELSE "storeConfig"]
    BY <1>1 DEF CreateBucket, Goto
  <2> HIDE DEF b
  <2>3. map'[i] = b
    BY <2>2 DEF TypeOK
  <2> QED
    BY <1>1, <2>1, <2>2, <2>3
<1>2. CASE map[i] # NoBucket
  <2> DEFINE b == map[i]
  <2>1. b \in Bucket /\ b[1] = i
    BY <1>2 DEF TypeOK, ObjectInv
  <2>2. /\ map' = [map EXCEPT ![i] = b]
        /\ bucket' = [bucket EXCEPT ![b].isOpen = (bucket[b].db = "open")]
        /\ id' = [id EXCEPT ![t] = i] /\ cfg' = [cfg EXCEPT ![t] = c]
        /\ pc' = [pc EXCEPT ![t] = IF c = NoConfig THEN "readConfig" ELSE "storeConfig"]
    BY <1>2 DEF CreateBucket, Goto, IsOpen
  <2>3. map'[i] = b
    BY <2>2 DEF TypeOK
  <2> QED
    BY <2>1, <2>2, <2>3
<1> QED
  BY <1>1, <1>2

\* updateDBState closes the bucket, opens it, refuses to, or has nothing to do.
LEMMA UpdateEffect ==
    ASSUME TypeOK, ObjectInv, NEW t \in Tasks, ~Gone(t), NEW c \in Config,
           NEW from \in {"supplied", "stored", "empty"},
           NEW now \in [Bucket -> Fields], UpdateDBState(t, c, from, now)
    PROVE  LET b == map[id[t]] IN
           /\ b \in Bucket /\ b[1] = id[t]
           /\ source' = [source EXCEPT ![t] = from] /\ ref' = [ref EXCEPT ![t] = b]
           /\ \/ /\ c.disabled /\ now[b].db = "open"
                 /\ bucket' = [now EXCEPT ![b].db = "closing"]
                 /\ pc' = [pc EXCEPT ![t] = IF from = "empty" THEN "storeEmpty" ELSE "created"]
              \/ /\ c.disabled <=> now[b].db # "open"
                 /\ bucket' = now
                 /\ pc' = [pc EXCEPT ![t] = IF from = "empty" THEN "storeEmpty" ELSE "created"]
              \/ /\ ~c.disabled /\ now[b].db # "open" /\ bucket' = now
                 /\ pc' = [pc EXCEPT ![t] = IF now[b].isDeleting THEN "openFailed" ELSE "mkdir"]
<1> DEFINE b == map[id[t]]
<1>1. b \in Bucket /\ b[1] = id[t]
  BY DEF TypeOK, ObjectInv, Gone
<1>2. source' = [source EXCEPT ![t] = from] /\ ref' = [ref EXCEPT ![t] = b]
  BY DEF UpdateDBState
<1>3. CASE c.disabled /\ now[b].db = "open"
  BY <1>1, <1>2, <1>3 DEF UpdateDBState, Goto
<1>4. CASE ~(c.disabled /\ now[b].db = "open") /\ (c.disabled \/ now[b].db = "open")
  <2>1. now[b] \in Fields
    BY <1>1
  <2>2. bucket' = [now EXCEPT ![b] = [now[b] EXCEPT !.db = now[b].db]]
    BY <1>4 DEF UpdateDBState
  <2>3. bucket' = now
    BY <1>1, <2>1, <2>2 DEF Fields
  <2>4. pc' = [pc EXCEPT ![t] = IF from = "empty" THEN "storeEmpty" ELSE "created"]
    BY <1>4 DEF UpdateDBState, Goto
  <2> QED
    BY <1>1, <1>2, <1>4, <2>3, <2>4
<1>5. CASE ~c.disabled /\ now[b].db # "open"
  BY <1>1, <1>2, <1>5 DEF UpdateDBState, Goto
<1> QED
  BY <1>3, <1>4, <1>5

-----------------------------------------------------------------------------
(* Types, and which call may be at which step. *)

Typed == TypeOK /\ TaskInv /\ ObjectInv

\* The outcomes of a creation that throws.
LEMMA ThrowEffect ==
    ASSUME TypeOK, NEW t \in Tasks, Throw(t)
    PROVE  /\ holder' = (IF holder = t THEN Nobody ELSE holder)
           /\ \/ op[t] \in {"read", "event"} /\ pc' = [pc EXCEPT ![t] = "list"]
              \/ op[t] \notin {"read", "event"} /\ pc' = [pc EXCEPT ![t] = "failed"]
  BY DEF Throw, Goto

LEMMA CreateTypes ==
    ASSUME Typed, NEW t \in Tasks, NEW i \in Ids, NEW c \in Config \cup {NoConfig},
           CreateBucket(t, i, c)
    PROVE  /\ map' \in [Ids -> Bucket \cup {NoBucket}] /\ bucket' \in [Bucket -> Fields]
           /\ id' \in [Tasks -> Ids] /\ cfg' \in [Tasks -> Config \cup {NoConfig}]
           /\ pc' \in [Tasks -> Steps]
           /\ \A j \in Ids : map'[j] # NoBucket => map'[j][1] = j
<1>1. PICK b \in Bucket :
              /\ b[1] = i /\ map' = [map EXCEPT ![i] = b] /\ map'[i] = b
              /\ \/ /\ map[i] = b
                    /\ bucket' = [bucket EXCEPT ![b].isOpen = (bucket[b].db = "open")]
                 \/ /\ map[i] = NoBucket /\ ~InUse(b)
                    /\ bucket' = [bucket EXCEPT ![b] = Fresh]
              /\ id' = [id EXCEPT ![t] = i] /\ cfg' = [cfg EXCEPT ![t] = c]
              /\ pc' = [pc EXCEPT ![t] = IF c = NoConfig THEN "readConfig" ELSE "storeConfig"]
  BY CreateEffect DEF Typed
<1>2. bucket' \in [Bucket -> Fields]
  <2>1. CASE bucket' = [bucket EXCEPT ![b].isOpen = (bucket[b].db = "open")]
    <3> DEFINE v == (bucket[b].db = "open")
               r == [bucket[b] EXCEPT !.isOpen = v]
    <3>1. bucket[b] \in Fields /\ v \in BOOLEAN
      BY DEF Typed, TypeOK
    <3>2. bucket' = [bucket EXCEPT ![b] = r]
      BY <2>1
    <3> HIDE DEF v
    <3>3. r \in Fields
      BY <3>1 DEF Fields
    <3> HIDE DEF r
    <3> QED
      BY <3>2, <3>3 DEF Typed, TypeOK
  <2>2. CASE bucket' = [bucket EXCEPT ![b] = Fresh]
    BY <2>2, FreshType DEF Typed, TypeOK
  <2> QED
    BY <1>1, <2>1, <2>2
<1>3. map' \in [Ids -> Bucket \cup {NoBucket}]
  BY <1>1 DEF Typed, TypeOK
<1>4. id' \in [Tasks -> Ids] /\ cfg' \in [Tasks -> Config \cup {NoConfig}]
  BY <1>1 DEF Typed, TypeOK
<1>5. pc' \in [Tasks -> Steps]
  BY <1>1 DEF Typed, TypeOK, Steps, Working
<1>6. \A j \in Ids : map'[j] # NoBucket => map'[j][1] = j
  BY <1>1 DEF Typed, TypeOK, ObjectInv
<1> QED
  BY <1>2, <1>3, <1>4, <1>5, <1>6

LEMMA UpdateTypes ==
    ASSUME Typed, NEW t \in Tasks, ~Gone(t), NEW c \in Config,
           NEW from \in {"supplied", "stored", "empty"},
           NEW now \in [Bucket -> Fields], UpdateDBState(t, c, from, now)
    PROVE  /\ bucket' \in [Bucket -> Fields] /\ pc' \in [Tasks -> Steps]
           /\ source' \in [Tasks -> {"supplied", "stored", "empty"}]
           /\ ref' \in [Tasks -> Bucket \cup {NoBucket}]
           /\ ref'[t] \in Bucket /\ ref'[t][1] = id[t] /\ source'[t] = from
           /\ \A u \in Tasks \ {t} : pc'[u] = pc[u] /\ ref'[u] = ref[u] /\ source'[u] = source[u]
           /\ \/ pc'[t] = "storeEmpty" /\ from = "empty"
              \/ pc'[t] = "created" /\ from # "empty"
              \/ pc'[t] \in {"openFailed", "mkdir"}
<1> DEFINE b == map[id[t]]
<1>1. /\ b \in Bucket /\ b[1] = id[t]
      /\ source' = [source EXCEPT ![t] = from] /\ ref' = [ref EXCEPT ![t] = b]
      /\ \/ /\ bucket' = [now EXCEPT ![b].db = "closing"]
            /\ pc' = [pc EXCEPT ![t] = IF from = "empty" THEN "storeEmpty" ELSE "created"]
         \/ /\ bucket' = now
            /\ pc' = [pc EXCEPT ![t] = IF from = "empty" THEN "storeEmpty" ELSE "created"]
         \/ /\ bucket' = now
            /\ pc' = [pc EXCEPT ![t] = IF now[b].isDeleting THEN "openFailed" ELSE "mkdir"]
  BY UpdateEffect DEF Typed
<1> HIDE DEF b
<1>2. bucket' \in [Bucket -> Fields]
  BY <1>1 DEF Fields
<1>3. source' \in [Tasks -> {"supplied", "stored", "empty"}] /\ source'[t] = from
  BY <1>1 DEF Typed, TypeOK
<1>4. ref' \in [Tasks -> Bucket \cup {NoBucket}] /\ ref'[t] = b
  BY <1>1 DEF Typed, TypeOK
<1>5. PICK p \in {"storeEmpty", "created", "openFailed", "mkdir"} :
         /\ pc' = [pc EXCEPT ![t] = p]
         /\ p = "storeEmpty" => from = "empty"
         /\ p = "created" => from # "empty"
  BY <1>1
<1>6. pc' \in [Tasks -> Steps] /\ pc'[t] = p
  BY <1>5 DEF Typed, TypeOK, Steps, Working
<1>7. \A u \in Tasks \ {t} : pc'[u] = pc[u] /\ ref'[u] = ref[u] /\ source'[u] = source[u]
  BY <1>1, <1>5 DEF Typed, TypeOK
<1> QED
  BY <1>1, <1>2, <1>3, <1>4, <1>5, <1>6, <1>7

\* Nothing changes for the other tasks.
Untouched(t) == \A u \in Tasks \ {t} :
    /\ pc'[u] = pc[u] /\ op'[u] = op[u] /\ id'[u] = id[u]
    /\ ref'[u] = ref[u] /\ cfg'[u] = cfg[u] /\ source'[u] = source[u]

LEMMA TaskInvKept ==
    ASSUME TaskInv, NEW t \in Tasks, Untouched(t),
           AtStep(pc'[t], op'[t], source'[t], cfg'[t], ref'[t], id'[t])
    PROVE  TaskInv'
  BY DEF TaskInv, Untouched

LEMMA HistoryTypes ==
    ASSUME Typed, History
    PROVE  mixed' \in SUBSET Ids /\ scanned' \in SUBSET Ids
  BY DEF Typed, TypeOK, History

\* A task goes on to another step.
LEMMA GotoTypes ==
    ASSUME Typed, NEW t \in Tasks, NEW p \in Steps, Goto(t, p)
    PROVE  /\ pc' \in [Tasks -> Steps] /\ pc'[t] = p
           /\ \A u \in Tasks \ {t} : pc'[u] = pc[u]
  BY DEF Typed, TypeOK, Goto

LEMMA ThrowTypes ==
    ASSUME Typed, NEW t \in Tasks, Throw(t)
    PROVE  /\ pc' \in [Tasks -> Steps] /\ holder' \in Tasks \cup {Nobody}
           /\ \A u \in Tasks \ {t} : pc'[u] = pc[u]
           /\ \/ op[t] \in {"read", "event"} /\ pc'[t] = "list"
              \/ op[t] \notin {"read", "event"} /\ pc'[t] = "failed"
<1>1. holder' \in Tasks \cup {Nobody}
  BY ThrowEffect DEF Typed, TypeOK
<1>2. "list" \in Steps /\ "failed" \in Steps
  BY DEF Steps, Settled
<1>3. CASE op[t] \in {"read", "event"} /\ pc' = [pc EXCEPT ![t] = "list"]
  BY <1>1, <1>2, <1>3 DEF Typed, TypeOK
<1>4. CASE op[t] \notin {"read", "event"} /\ pc' = [pc EXCEPT ![t] = "failed"]
  BY <1>1, <1>2, <1>4 DEF Typed, TypeOK
<1> QED
  BY <1>3, <1>4, ThrowEffect DEF Typed

LEMMA WaitTypes ==
    ASSUME Typed, NEW t \in Tasks, NEW i \in Ids, WaitForBucketCreation(t, i)
    PROVE  /\ pc' \in [Tasks -> Steps] /\ queue' \in Seq(Tasks)
           /\ \A u \in Tasks \ {t} : pc'[u] = pc[u]
           /\ pc'[t] \in {"wait", "done", "failed"}
<1>1. queue' \in Seq(Tasks)
  <2>1. queue \in Seq(Tasks)
    BY DEF Typed, TypeOK
  <2>2. queue' = Append(queue, t) \/ queue' = queue
    BY DEF WaitForBucketCreation
  <2> QED
    BY <2>1, <2>2
<1>2. PICK p \in {"wait", "done", "failed"} : Goto(t, p)
  BY DEF WaitForBucketCreation, Put
<1>3. p \in Steps
  BY DEF Steps, Settled
<1> QED
  BY <1>1, <1>2, <1>3, GotoTypes

\* Every action keeps the types.
LEMMA StartTypes ==
    ASSUME Typed, NEW t \in Tasks, Start(t), History
    PROVE  Typed'
<1>1. mixed' \in SUBSET Ids /\ scanned' \in SUBSET Ids
  BY HistoryTypes
<1>2. PICK i \in Ids : \/ "write" \in Ops /\ StartWrite(t, i)
                       \/ "configure" \in Ops /\ StartConfigure(t, i)
                       \/ "read" \in Ops /\ StartRead(t, i)
                       \/ "delete" \in Ops /\ StartDelete(t, i)
                       \/ "repair" \in Ops /\ StartRepair(t, i)
  BY DEF Start
<1>3. ASSUME "write" \in Ops, StartWrite(t, i) PROVE Typed'
  <2>1. /\ pc' \in [Tasks -> Steps] /\ queue' \in Seq(Tasks)
        /\ \A u \in Tasks \ {t} : pc'[u] = pc[u]
        /\ pc'[t] \in {"wait", "done", "failed", "create"}
    <3>1. CASE WaitForBucketCreation(t, i)
      BY <3>1, WaitTypes
    <3>2. CASE Goto(t, "create") /\ queue' = Append(queue, t)
      <4>1. "create" \in Steps /\ queue \in Seq(Tasks)
        BY DEF Steps, Typed, TypeOK
      <4> QED
        BY <3>2, <4>1, GotoTypes
    <3> QED
      BY <1>3, <3>1, <3>2 DEF StartWrite
  <2>2. /\ op' = [op EXCEPT ![t] = "write"] /\ id' = [id EXCEPT ![t] = i]
        /\ UNCHANGED <<map, bucket, holder, ref, cfg, source, todo, folders, dir, assets, lock, stored, faults, crashes>>
    BY <1>3 DEF StartWrite, others
  <2>3. TypeOK'
    BY <1>1, <1>3, <2>1, <2>2 DEF Typed, TypeOK
  <2>4. Untouched(t) /\ op'[t] = "write"
    BY <2>1, <2>2 DEF Untouched, Typed, TypeOK
  <2>5. AtStep(pc'[t], op'[t], source'[t], cfg'[t], ref'[t], id'[t])
    BY <2>1, <2>4 DEF AtStep, Deleting, Repairing, Opening, Looked
  <2> QED
    BY <2>2, <2>3, <2>4, <2>5, TaskInvKept DEF Typed, ObjectInv
<1>4. ASSUME "configure" \in Ops, StartConfigure(t, i) PROVE Typed'
  <2>1. PICK d \in BOOLEAN : CreateBucket(t, i, [by |-> t, disabled |-> d])
    BY <1>4 DEF StartConfigure
  <2> DEFINE c == [by |-> t, disabled |-> d]
  <2>2. c \in Config /\ c # NoConfig
    BY AbsentAssumption DEF Config
  <2> HIDE DEF c
  <2>3. /\ map' \in [Ids -> Bucket \cup {NoBucket}] /\ bucket' \in [Bucket -> Fields]
        /\ id' \in [Tasks -> Ids] /\ cfg' \in [Tasks -> Config \cup {NoConfig}]
        /\ pc' \in [Tasks -> Steps]
        /\ \A j \in Ids : map'[j] # NoBucket => map'[j][1] = j
    BY <2>1, <2>2, CreateTypes DEF c
  <2>4. /\ id' = [id EXCEPT ![t] = i] /\ cfg' = [cfg EXCEPT ![t] = c]
        /\ pc' = [pc EXCEPT ![t] = "storeConfig"]
    BY <2>1, <2>2, CreateEffect DEF c, Typed
  <2>5. /\ op' = [op EXCEPT ![t] = "configure"]
        /\ UNCHANGED <<holder, queue, ref, source, todo, folders, dir, assets, lock, stored, faults, crashes>>
    BY <1>4 DEF StartConfigure, others, semVars
  <2>6. TypeOK'
    BY <1>1, <1>4, <2>3, <2>5 DEF Typed, TypeOK
  <2>7. /\ Untouched(t)
        /\ op'[t] = "configure" /\ pc'[t] = "storeConfig" /\ cfg'[t] = c
    BY <2>4, <2>5 DEF Untouched, Typed, TypeOK
  <2>8. AtStep(pc'[t], op'[t], source'[t], cfg'[t], ref'[t], id'[t])
    BY <2>2, <2>7 DEF AtStep, Deleting, Repairing, Opening, Looked
  <2> QED
    BY <2>3, <2>5, <2>6, <2>7, <2>8, TaskInvKept DEF Typed, ObjectInv
<1>5. ASSUME "read" \in Ops, StartRead(t, i) PROVE Typed'
  <2>1. PICK p \in {"scan", "done"} : Goto(t, p)
    BY <1>5 DEF StartRead
  <2>2. pc' \in [Tasks -> Steps] /\ pc'[t] = p /\ \A u \in Tasks \ {t} : pc'[u] = pc[u]
    <3>1. p \in Steps
      BY DEF Steps, Settled
    <3> QED
      BY <2>1, <3>1, GotoTypes
  <2>3. /\ op' = [op EXCEPT ![t] = "read"] /\ id' = [id EXCEPT ![t] = i]
        /\ UNCHANGED <<map, bucket, holder, queue, ref, cfg, source, todo, folders, dir, assets, lock, stored, faults, crashes>>
    BY <1>5 DEF StartRead, others, semVars
  <2>4. TypeOK'
    BY <1>1, <2>2, <2>3 DEF Typed, TypeOK
  <2>5. Untouched(t) /\ op'[t] = "read"
    BY <2>2, <2>3 DEF Untouched, Typed, TypeOK
  <2>6. AtStep(pc'[t], op'[t], source'[t], cfg'[t], ref'[t], id'[t])
    BY <2>2, <2>5 DEF AtStep, Deleting, Repairing, Opening, Looked
  <2> QED
    BY <2>3, <2>4, <2>5, <2>6, TaskInvKept DEF Typed, ObjectInv
<1>6. ASSUME "delete" \in Ops, StartDelete(t, i) PROVE Typed'
  <2>1. /\ op' = [op EXCEPT ![t] = "delete"] /\ id' = [id EXCEPT ![t] = i]
        /\ ref' = [ref EXCEPT ![t] = map[i]]
        /\ UNCHANGED <<map, holder, queue, cfg, source, todo, folders, dir, assets, lock, stored, faults, crashes>>
    BY <1>6 DEF StartDelete, others, semVars
  <2>2. bucket' \in [Bucket -> Fields]
    <3>1. CASE map[i] = NoBucket
      BY <1>6, <3>1 DEF StartDelete, Typed, TypeOK
    <3>2. CASE map[i] # NoBucket
      <4> DEFINE b == map[i]
                 db == IF bucket[b].db = "open" THEN "closing" ELSE bucket[b].db
                 r == [bucket[b] EXCEPT !.isDeleting = TRUE, !.db = db]
      <4>1. b \in Bucket /\ bucket[b] \in Fields
        BY <3>2 DEF Typed, TypeOK
      <4>2. bucket' = [bucket EXCEPT ![b] = r]
        BY <1>6, <3>2, <4>1 DEF StartDelete, Typed, TypeOK
      <4>3. db \in {"none", "open", "closing"}
        BY <4>1 DEF Fields
      <4> HIDE DEF db
      <4>4. r \in Fields
        BY <4>1, <4>3 DEF Fields
      <4> HIDE DEF r, b
      <4> QED
        BY <4>2, <4>4 DEF Typed, TypeOK
    <3> QED
      BY <3>1, <3>2
  <2>3. PICK p \in {"failed", "refused", "close"} : Goto(t, p) /\ (p # "failed" => map[i] # NoBucket)
    BY <1>6 DEF StartDelete
  <2>4. pc' \in [Tasks -> Steps] /\ pc'[t] = p /\ \A u \in Tasks \ {t} : pc'[u] = pc[u]
    <3>1. p \in Steps
      BY DEF Steps, Settled, Working
    <3> QED
      BY <2>3, <3>1, GotoTypes
  <2>5. TypeOK'
    BY <1>1, <1>6, <2>1, <2>2, <2>4 DEF Typed, TypeOK
  <2>6. Untouched(t) /\ op'[t] = "delete" /\ id'[t] = i /\ ref'[t] = map[i]
    BY <2>1, <2>4 DEF Untouched, Typed, TypeOK
  <2>7. map[i] # NoBucket => map[i] \in Bucket /\ map[i][1] = i
    BY DEF Typed, TypeOK, ObjectInv
  <2>8. AtStep(pc'[t], op'[t], source'[t], cfg'[t], ref'[t], id'[t])
    BY <2>3, <2>4, <2>6, <2>7 DEF AtStep, Deleting, Repairing, Opening, Looked
  <2> QED
    BY <2>1, <2>5, <2>6, <2>8, TaskInvKept DEF Typed, ObjectInv
<1>7. ASSUME "repair" \in Ops, StartRepair(t, i) PROVE Typed'
  <2>1. /\ op' = [op EXCEPT ![t] = "repair"] /\ id' = [id EXCEPT ![t] = i]
        /\ ref' = [ref EXCEPT ![t] = map[i]]
        /\ UNCHANGED <<map, holder, queue, cfg, source, todo, folders, dir, assets, lock, stored, faults, crashes>>
    BY <1>7 DEF StartRepair, others, semVars
  <2>2. \/ Goto(t, "failed") /\ UNCHANGED bucket
        \/ /\ map[i] # NoBucket /\ Goto(t, "closeToRepair")
           /\ bucket' = [bucket EXCEPT ![map[i]].db = "closing"]
        \/ /\ map[i] # NoBucket /\ Goto(t, "repair")
           /\ bucket' = [bucket EXCEPT ![map[i]].repairing = TRUE]
    BY <1>7 DEF StartRepair
  <2>3. bucket' \in [Bucket -> Fields]
    <3>1. CASE map[i] = NoBucket
      BY <2>2, <3>1 DEF Typed, TypeOK
    <3>2. CASE map[i] # NoBucket
      <4>1. map[i] \in Bucket /\ bucket[map[i]] \in Fields
        BY <3>2 DEF Typed, TypeOK
      <4>2. /\ [bucket[map[i]] EXCEPT !.db = "closing"] \in Fields
            /\ [bucket[map[i]] EXCEPT !.repairing = TRUE] \in Fields
        BY <4>1, FieldsUpdate
      <4> QED
        BY <2>2, <4>1, <4>2 DEF Typed, TypeOK
    <3> QED
      BY <3>1, <3>2
  <2>4. PICK p \in {"failed", "closeToRepair", "repair"} : Goto(t, p) /\ (p # "failed" => map[i] # NoBucket)
    BY <2>2
  <2>5. pc' \in [Tasks -> Steps] /\ pc'[t] = p /\ \A u \in Tasks \ {t} : pc'[u] = pc[u]
    <3>1. p \in Steps
      BY DEF Steps, Settled, Working
    <3> QED
      BY <2>4, <3>1, GotoTypes
  <2>6. TypeOK'
    BY <1>1, <1>7, <2>1, <2>3, <2>5 DEF Typed, TypeOK
  <2>7. Untouched(t) /\ op'[t] = "repair" /\ id'[t] = i /\ ref'[t] = map[i]
    BY <2>1, <2>5 DEF Untouched, Typed, TypeOK
  <2>8. map[i] # NoBucket => map[i] \in Bucket /\ map[i][1] = i
    BY DEF Typed, TypeOK, ObjectInv
  <2>9. AtStep(pc'[t], op'[t], source'[t], cfg'[t], ref'[t], id'[t])
    BY <2>4, <2>5, <2>7, <2>8 DEF AtStep, Deleting, Repairing, Opening, Looked
  <2> QED
    BY <2>1, <2>6, <2>7, <2>9, TaskInvKept DEF Typed, ObjectInv
<1> QED
  BY <1>2, <1>3, <1>4, <1>5, <1>6, <1>7

LEMMA StoreConfigTypes ==
    ASSUME Typed, NEW t \in Tasks, StoreConfig(t), History
    PROVE  Typed'
<1>1. mixed' \in SUBSET Ids /\ scanned' \in SUBSET Ids
  BY HistoryTypes
<1>2. PICK p \in {"storedConfig", "storedEmpty"} : Goto(t, p)
  BY DEF StoreConfig, RepairEnds
<1>3. pc' \in [Tasks -> Steps] /\ pc'[t] = p /\ \A u \in Tasks \ {t} : pc'[u] = pc[u]
  <2>1. p \in Steps
    BY DEF Steps, Settled, Working
  <2> QED
    BY <1>2, <2>1, GotoTypes
<1>4. /\ UNCHANGED <<map, bucket, folders, dir, assets, lock, holder, queue, op, id, ref, cfg, source, todo, faults, crashes>>
      /\ pc[t] \in {"storeConfig", "storeEmpty"}
  BY DEF StoreConfig, others, semVars, diskVars, RepairEnds
<1>5. /\ stored' \in [Ids -> Config \cup {NoConfig}]
      /\ p = IF pc[t] = "storeConfig" THEN "storedConfig" ELSE "storedEmpty"
  <2>1. CASE pc[t] = "storeConfig"
    <3>1. cfg[t] \in Config
      BY <2>1 DEF Typed, TaskInv, AtStep
    <3> QED
      BY <1>3, <2>1, <3>1 DEF StoreConfig, Goto, Typed, TypeOK
  <2>2. CASE pc[t] # "storeConfig"
    BY <1>3, <2>2, FreshType DEF StoreConfig, Goto, Typed, TypeOK
  <2> QED
    BY <2>1, <2>2
<1>6. TypeOK'
  BY <1>1, <1>3, <1>4, <1>5 DEF Typed, TypeOK
<1>7. Untouched(t)
  BY <1>3, <1>4, <1>5 DEF Untouched, Typed, TypeOK
<1>8. AtStep(pc'[t], op'[t], source'[t], cfg'[t], ref'[t], id'[t])
  <2>1. AtStep(pc[t], op[t], source[t], cfg[t], ref[t], id[t])
    BY DEF Typed, TaskInv
  <2> QED
    BY <2>1, <1>3, <1>4, <1>5 DEF AtStep, Deleting, Repairing, Opening, Looked, Finders
<1> QED
  BY <1>4, <1>5, <1>6, <1>7, <1>8, TaskInvKept DEF Typed, ObjectInv

LEMMA ReadConfigTypes ==
    ASSUME Typed, NEW t \in Tasks, ReadConfig(t), History
    PROVE  Typed'
<1>1. mixed' \in SUBSET Ids /\ scanned' \in SUBSET Ids
  BY HistoryTypes
<1>2. PICK p \in {"gotConfig"} : Goto(t, p)
  BY DEF ReadConfig, RepairEnds
<1>3. pc' \in [Tasks -> Steps] /\ pc'[t] = p /\ \A u \in Tasks \ {t} : pc'[u] = pc[u]
  <2>1. p \in Steps
    BY DEF Steps, Settled, Working
  <2> QED
    BY <1>2, <2>1, GotoTypes
<1>4. /\ UNCHANGED <<map, bucket, folders, dir, assets, lock, stored, holder, queue, op, id, ref, source, todo, faults, crashes>>
      /\ pc[t] = "readConfig"
  BY DEF ReadConfig, others, semVars, diskVars, RepairEnds
<1>5. cfg' \in [Tasks -> Config \cup {NoConfig}] /\ \A u \in Tasks \ {t} : cfg'[u] = cfg[u]
  BY DEF ReadConfig, Typed, TypeOK
<1>6. TypeOK'
  BY <1>1, <1>3, <1>4, <1>5 DEF Typed, TypeOK
<1>7. Untouched(t)
  BY <1>3, <1>4, <1>5 DEF Untouched, Typed, TypeOK
<1>8. AtStep(pc'[t], op'[t], source'[t], cfg'[t], ref'[t], id'[t])
  <2>1. AtStep(pc[t], op[t], source[t], cfg[t], ref[t], id[t])
    BY DEF Typed, TaskInv
  <2> QED
    BY <2>1, <1>3, <1>4, <1>5 DEF AtStep, Deleting, Repairing, Opening, Looked, Finders
<1> QED
  BY <1>4, <1>5, <1>6, <1>7, <1>8, TaskInvKept DEF Typed, ObjectInv

LEMMA MkdirTypes ==
    ASSUME Typed, NEW t \in Tasks, Mkdir(t), History
    PROVE  Typed'
<1>1. mixed' \in SUBSET Ids /\ scanned' \in SUBSET Ids
  BY HistoryTypes
<1>2. PICK p \in {"openDb"} : Goto(t, p)
  BY DEF Mkdir, RepairEnds
<1>3. pc' \in [Tasks -> Steps] /\ pc'[t] = p /\ \A u \in Tasks \ {t} : pc'[u] = pc[u]
  <2>1. p \in Steps
    BY DEF Steps, Settled, Working
  <2> QED
    BY <1>2, <2>1, GotoTypes
<1>4. /\ UNCHANGED <<map, bucket, assets, lock, stored, holder, queue, op, id, ref, cfg, source, todo, faults, crashes>>
      /\ pc[t] = "mkdir"
  BY DEF Mkdir, others, semVars, diskVars, RepairEnds
<1>5. folders' \in SUBSET Ids /\ dir' \in SUBSET folders' /\ assets' \in SUBSET folders'
  BY DEF Mkdir, Typed, TypeOK
<1>6. TypeOK'
  BY <1>1, <1>3, <1>4, <1>5 DEF Typed, TypeOK
<1>7. Untouched(t)
  BY <1>3, <1>4, <1>5 DEF Untouched, Typed, TypeOK
<1>8. AtStep(pc'[t], op'[t], source'[t], cfg'[t], ref'[t], id'[t])
  <2>1. AtStep(pc[t], op[t], source[t], cfg[t], ref[t], id[t])
    BY DEF Typed, TaskInv
  <2> QED
    BY <2>1, <1>3, <1>4, <1>5 DEF AtStep, Deleting, Repairing, Opening, Looked, Finders
<1> QED
  BY <1>4, <1>5, <1>6, <1>7, <1>8, TaskInvKept DEF Typed, ObjectInv

LEMMA OpenDbTypes ==
    ASSUME Typed, NEW t \in Tasks, OpenDb(t), History
    PROVE  Typed'
<1>1. mixed' \in SUBSET Ids /\ scanned' \in SUBSET Ids
  BY HistoryTypes
<1>2. PICK p \in {"openMeta", "openFailed"} : Goto(t, p)
  BY DEF OpenDb, RepairEnds
<1>3. pc' \in [Tasks -> Steps] /\ pc'[t] = p /\ \A u \in Tasks \ {t} : pc'[u] = pc[u]
  <2>1. p \in Steps
    BY DEF Steps, Settled, Working
  <2> QED
    BY <1>2, <2>1, GotoTypes
<1>4. /\ UNCHANGED <<map, bucket, folders, assets, stored, holder, queue, op, id, ref, cfg, source, todo, faults, crashes>>
      /\ pc[t] = "openDb"
  BY DEF OpenDb, others, semVars, diskVars, RepairEnds
<1>5. /\ dir' \in SUBSET folders /\ lock' \in [Ids -> Bucket \cup {NoBucket}]
      /\ \A i \in Ids : lock'[i] # NoBucket => lock'[i][1] = i
  <2>1. ref[t] \in Bucket /\ ref[t][1] = id[t] /\ id[t] \in Ids
    BY <1>4 DEF Typed, TypeOK, TaskInv, AtStep, Looked, Opening
  <2> QED
    BY <2>1 DEF OpenDb, Typed, TypeOK, ObjectInv
<1>6. TypeOK'
  BY <1>1, <1>3, <1>4, <1>5 DEF Typed, TypeOK
<1>7. Untouched(t)
  BY <1>3, <1>4, <1>5 DEF Untouched, Typed, TypeOK
<1>8. AtStep(pc'[t], op'[t], source'[t], cfg'[t], ref'[t], id'[t])
  <2>1. AtStep(pc[t], op[t], source[t], cfg[t], ref[t], id[t])
    BY DEF Typed, TaskInv
  <2> QED
    BY <2>1, <1>3, <1>4, <1>5 DEF AtStep, Deleting, Repairing, Opening, Looked, Finders
<1> QED
  BY <1>4, <1>5, <1>6, <1>7, <1>8, TaskInvKept DEF Typed, ObjectInv

LEMMA OpenMetaTypes ==
    ASSUME Typed, NEW t \in Tasks, OpenMeta(t), History
    PROVE  Typed'
<1>1. mixed' \in SUBSET Ids /\ scanned' \in SUBSET Ids
  BY HistoryTypes
<1>2. PICK p \in {"done", "purge"} : Goto(t, p)
  BY DEF OpenMeta, RepairEnds
<1>3. pc' \in [Tasks -> Steps] /\ pc'[t] = p /\ \A u \in Tasks \ {t} : pc'[u] = pc[u]
  <2>1. p \in Steps
    BY DEF Steps, Settled, Working
  <2> QED
    BY <1>2, <2>1, GotoTypes
<1>4. /\ UNCHANGED <<map, folders, dir, assets, lock, stored, holder, queue, op, id, ref, cfg, source, todo, faults, crashes>>
      /\ pc[t] = "openMeta"
  BY DEF OpenMeta, others, semVars, diskVars, RepairEnds
<1>5. /\ bucket' \in [Bucket -> Fields]
      /\ p = IF op[t] = "repair" THEN "done" ELSE "purge"
  <2>1. ref[t] \in Bucket /\ bucket[ref[t]] \in Fields
    BY <1>4 DEF Typed, TypeOK, TaskInv, AtStep, Looked, Opening, Repairing
  <2> DEFINE r == [bucket[ref[t]] EXCEPT !.db = "open"]
             v == r.repairing /\ op[t] # "repair"
             q == [r EXCEPT !.repairing = v]
  <2>2. bucket' = [bucket EXCEPT ![ref[t]] = q]
    BY <2>1, ZenonT(30) DEF OpenMeta, Typed, TypeOK
  <2>3. r \in Fields
    BY <2>1, FieldsUpdate
  <2>4. v \in BOOLEAN
    BY <2>3 DEF Fields
  <2> HIDE DEF r, v
  <2>5. q \in Fields
    BY <2>3, <2>4, FieldsUpdate
  <2> HIDE DEF q
  <2>6. bucket' \in [Bucket -> Fields]
    BY <2>2, <2>5 DEF Typed, TypeOK
  <2>7. p = IF op[t] = "repair" THEN "done" ELSE "purge"
    BY <1>3 DEF OpenMeta, Goto, Typed, TypeOK
  <2> QED
    BY <2>6, <2>7
<1>6. TypeOK'
  BY <1>1, <1>3, <1>4, <1>5 DEF Typed, TypeOK
<1>7. Untouched(t)
  BY <1>3, <1>4, <1>5 DEF Untouched, Typed, TypeOK
<1>8. AtStep(pc'[t], op'[t], source'[t], cfg'[t], ref'[t], id'[t])
  <2>1. AtStep(pc[t], op[t], source[t], cfg[t], ref[t], id[t])
    BY DEF Typed, TaskInv
  <2> QED
    BY <2>1, <1>3, <1>4, <1>5 DEF AtStep, Deleting, Repairing, Opening, Looked, Finders
<1> QED
  BY <1>4, <1>5, <1>6, <1>7, <1>8, TaskInvKept DEF Typed, ObjectInv

LEMMA PurgeTypes ==
    ASSUME Typed, NEW t \in Tasks, Purge(t), History
    PROVE  Typed'
<1>1. mixed' \in SUBSET Ids /\ scanned' \in SUBSET Ids
  BY HistoryTypes
<1>2. PICK p \in {"openFailed", "storeEmpty", "created"} : Goto(t, p)
  BY DEF Purge, RepairEnds
<1>3. pc' \in [Tasks -> Steps] /\ pc'[t] = p /\ \A u \in Tasks \ {t} : pc'[u] = pc[u]
  <2>1. p \in Steps
    BY DEF Steps, Settled, Working
  <2> QED
    BY <1>2, <2>1, GotoTypes
<1>4. /\ UNCHANGED <<map, folders, dir, assets, lock, stored, holder, queue, op, id, ref, cfg, source, todo, faults, crashes>>
      /\ pc[t] = "purge"
  BY DEF Purge, others, semVars, diskVars, RepairEnds
<1>5. /\ bucket' \in [Bucket -> Fields]
      /\ p = "storeEmpty" => source[t] = "empty"
      /\ p = "created" => source[t] # "empty"
  <2>1. ref[t] \in Bucket /\ bucket[ref[t]] \in Fields
    BY <1>4 DEF Typed, TypeOK, TaskInv, AtStep, Looked, Opening, Repairing
  <2>2. [bucket[ref[t]] EXCEPT !.isOpen = TRUE] \in Fields
    BY <2>1, FieldsUpdate
  <2>3. CASE IsOpen(ref[t])
    BY <1>3, <2>1, <2>2, <2>3, ZenonT(30) DEF Purge, Goto, Typed, TypeOK
  <2>4. CASE ~IsOpen(ref[t])
    BY <1>3, <2>4 DEF Purge, Goto, Typed, TypeOK
  <2> QED
    BY <2>3, <2>4
<1>6. TypeOK'
  BY <1>1, <1>3, <1>4, <1>5 DEF Typed, TypeOK
<1>7. Untouched(t)
  BY <1>3, <1>4, <1>5 DEF Untouched, Typed, TypeOK
<1>8. AtStep(pc'[t], op'[t], source'[t], cfg'[t], ref'[t], id'[t])
  <2>1. AtStep(pc[t], op[t], source[t], cfg[t], ref[t], id[t])
    BY DEF Typed, TaskInv
  <2> QED
    BY <2>1, <1>3, <1>4, <1>5 DEF AtStep, Deleting, Repairing, Opening, Looked, Finders
<1> QED
  BY <1>4, <1>5, <1>6, <1>7, <1>8, TaskInvKept DEF Typed, ObjectInv

LEMMA ScanTypes ==
    ASSUME Typed, NEW t \in Tasks, Scan(t), History
    PROVE  Typed'
<1>1. mixed' \in SUBSET Ids /\ scanned' \in SUBSET Ids
  BY HistoryTypes
<1>2. PICK p \in {"list"} : Goto(t, p)
  BY DEF Scan, RepairEnds
<1>3. pc' \in [Tasks -> Steps] /\ pc'[t] = p /\ \A u \in Tasks \ {t} : pc'[u] = pc[u]
  <2>1. p \in Steps
    BY DEF Steps, Settled, Working
  <2> QED
    BY <1>2, <2>1, GotoTypes
<1>4. /\ UNCHANGED <<map, bucket, folders, dir, assets, lock, stored, holder, queue, op, id, ref, cfg, source, faults, crashes>>
      /\ pc[t] = "scan"
  BY DEF Scan, others, semVars, diskVars, RepairEnds
<1>5. todo' \in [Tasks -> SUBSET Ids]
  BY DEF Scan, Typed, TypeOK
<1>6. TypeOK'
  BY <1>1, <1>3, <1>4, <1>5 DEF Typed, TypeOK
<1>7. Untouched(t)
  BY <1>3, <1>4, <1>5 DEF Untouched, Typed, TypeOK
<1>8. AtStep(pc'[t], op'[t], source'[t], cfg'[t], ref'[t], id'[t])
  <2>1. AtStep(pc[t], op[t], source[t], cfg[t], ref[t], id[t])
    BY DEF Typed, TaskInv
  <2> QED
    BY <2>1, <1>3, <1>4, <1>5 DEF AtStep, Deleting, Repairing, Opening, Looked, Finders
<1> QED
  BY <1>4, <1>5, <1>6, <1>7, <1>8, TaskInvKept DEF Typed, ObjectInv

LEMMA RefuseDeleteTypes ==
    ASSUME Typed, NEW t \in Tasks, RefuseDelete(t), History
    PROVE  Typed'
<1>1. mixed' \in SUBSET Ids /\ scanned' \in SUBSET Ids
  BY HistoryTypes
<1>2. PICK p \in {"failed"} : Goto(t, p)
  BY DEF RefuseDelete, RepairEnds
<1>3. pc' \in [Tasks -> Steps] /\ pc'[t] = p /\ \A u \in Tasks \ {t} : pc'[u] = pc[u]
  <2>1. p \in Steps
    BY DEF Steps, Settled, Working
  <2> QED
    BY <1>2, <2>1, GotoTypes
<1>4. /\ UNCHANGED <<map, bucket, folders, dir, assets, lock, stored, holder, queue, op, id, ref, cfg, source, todo, faults, crashes>>
      /\ pc[t] = "refused"
  BY DEF RefuseDelete, others, semVars, diskVars, RepairEnds
<1>6. TypeOK'
  BY <1>1, <1>3, <1>4 DEF Typed, TypeOK
<1>7. Untouched(t)
  BY <1>3, <1>4 DEF Untouched, Typed, TypeOK
<1>8. AtStep(pc'[t], op'[t], source'[t], cfg'[t], ref'[t], id'[t])
  <2>1. AtStep(pc[t], op[t], source[t], cfg[t], ref[t], id[t])
    BY DEF Typed, TaskInv
  <2> QED
    BY <2>1, <1>3, <1>4 DEF AtStep, Deleting, Repairing, Opening, Looked, Finders
<1> QED
  BY <1>4, <1>6, <1>7, <1>8, TaskInvKept DEF Typed, ObjectInv

LEMMA RmTypes ==
    ASSUME Typed, NEW t \in Tasks, Rm(t), History
    PROVE  Typed'
<1>1. mixed' \in SUBSET Ids /\ scanned' \in SUBSET Ids
  BY HistoryTypes
<1>2. PICK p \in {"rmdir"} : Goto(t, p)
  BY DEF Rm, RepairEnds
<1>3. pc' \in [Tasks -> Steps] /\ pc'[t] = p /\ \A u \in Tasks \ {t} : pc'[u] = pc[u]
  <2>1. p \in Steps
    BY DEF Steps, Settled, Working
  <2> QED
    BY <1>2, <2>1, GotoTypes
<1>4. /\ UNCHANGED <<map, bucket, folders, assets, lock, stored, holder, queue, op, id, ref, cfg, source, todo, faults, crashes>>
      /\ pc[t] = "rm"
  BY DEF Rm, others, semVars, diskVars, RepairEnds
<1>5. dir' \in SUBSET folders
  BY DEF Rm, Typed, TypeOK
<1>6. TypeOK'
  BY <1>1, <1>3, <1>4, <1>5 DEF Typed, TypeOK
<1>7. Untouched(t)
  BY <1>3, <1>4, <1>5 DEF Untouched, Typed, TypeOK
<1>8. AtStep(pc'[t], op'[t], source'[t], cfg'[t], ref'[t], id'[t])
  <2>1. AtStep(pc[t], op[t], source[t], cfg[t], ref[t], id[t])
    BY DEF Typed, TaskInv
  <2> QED
    BY <2>1, <1>3, <1>4, <1>5 DEF AtStep, Deleting, Repairing, Opening, Looked, Finders
<1> QED
  BY <1>4, <1>5, <1>6, <1>7, <1>8, TaskInvKept DEF Typed, ObjectInv

LEMMA RmdirTypes ==
    ASSUME Typed, NEW t \in Tasks, Rmdir(t), History
    PROVE  Typed'
<1>1. mixed' \in SUBSET Ids /\ scanned' \in SUBSET Ids
  BY HistoryTypes
<1>2. PICK p \in {"unconfigure"} : Goto(t, p)
  BY DEF Rmdir, RepairEnds
<1>3. pc' \in [Tasks -> Steps] /\ pc'[t] = p /\ \A u \in Tasks \ {t} : pc'[u] = pc[u]
  <2>1. p \in Steps
    BY DEF Steps, Settled, Working
  <2> QED
    BY <1>2, <2>1, GotoTypes
<1>4. /\ UNCHANGED <<map, bucket, dir, assets, lock, stored, holder, queue, op, id, ref, cfg, source, todo, faults, crashes>>
      /\ pc[t] = "rmdir"
  BY DEF Rmdir, others, semVars, diskVars, RepairEnds
<1>5. folders' \in SUBSET Ids /\ dir \in SUBSET folders' /\ assets \in SUBSET folders'
  BY DEF Rmdir, Typed, TypeOK
<1>6. TypeOK'
  BY <1>1, <1>3, <1>4, <1>5 DEF Typed, TypeOK
<1>7. Untouched(t)
  BY <1>3, <1>4, <1>5 DEF Untouched, Typed, TypeOK
<1>8. AtStep(pc'[t], op'[t], source'[t], cfg'[t], ref'[t], id'[t])
  <2>1. AtStep(pc[t], op[t], source[t], cfg[t], ref[t], id[t])
    BY DEF Typed, TaskInv
  <2> QED
    BY <2>1, <1>3, <1>4, <1>5 DEF AtStep, Deleting, Repairing, Opening, Looked, Finders
<1> QED
  BY <1>4, <1>5, <1>6, <1>7, <1>8, TaskInvKept DEF Typed, ObjectInv

LEMMA UnconfigureTypes ==
    ASSUME Typed, NEW t \in Tasks, Unconfigure(t), History
    PROVE  Typed'
<1>1. mixed' \in SUBSET Ids /\ scanned' \in SUBSET Ids
  BY HistoryTypes
<1>2. PICK p \in {"unmap"} : Goto(t, p)
  BY DEF Unconfigure, RepairEnds
<1>3. pc' \in [Tasks -> Steps] /\ pc'[t] = p /\ \A u \in Tasks \ {t} : pc'[u] = pc[u]
  <2>1. p \in Steps
    BY DEF Steps, Settled, Working
  <2> QED
    BY <1>2, <2>1, GotoTypes
<1>4. /\ UNCHANGED <<map, bucket, folders, dir, assets, lock, holder, queue, op, id, ref, cfg, source, todo, faults, crashes>>
      /\ pc[t] = "unconfigure"
  BY DEF Unconfigure, others, semVars, diskVars, RepairEnds
<1>5. stored' \in [Ids -> Config \cup {NoConfig}]
  BY DEF Unconfigure, Typed, TypeOK
<1>6. TypeOK'
  BY <1>1, <1>3, <1>4, <1>5 DEF Typed, TypeOK
<1>7. Untouched(t)
  BY <1>3, <1>4, <1>5 DEF Untouched, Typed, TypeOK
<1>8. AtStep(pc'[t], op'[t], source'[t], cfg'[t], ref'[t], id'[t])
  <2>1. AtStep(pc[t], op[t], source[t], cfg[t], ref[t], id[t])
    BY DEF Typed, TaskInv
  <2> QED
    BY <2>1, <1>3, <1>4, <1>5 DEF AtStep, Deleting, Repairing, Opening, Looked, Finders
<1> QED
  BY <1>4, <1>5, <1>6, <1>7, <1>8, TaskInvKept DEF Typed, ObjectInv

LEMMA UnmapTypes ==
    ASSUME Typed, NEW t \in Tasks, Unmap(t), History
    PROVE  Typed'
<1>1. mixed' \in SUBSET Ids /\ scanned' \in SUBSET Ids
  BY HistoryTypes
<1>2. PICK p \in {"done"} : Goto(t, p)
  BY DEF Unmap, RepairEnds
<1>3. pc' \in [Tasks -> Steps] /\ pc'[t] = p /\ \A u \in Tasks \ {t} : pc'[u] = pc[u]
  <2>1. p \in Steps
    BY DEF Steps, Settled, Working
  <2> QED
    BY <1>2, <2>1, GotoTypes
<1>4. /\ UNCHANGED <<bucket, folders, dir, assets, lock, stored, holder, queue, op, id, ref, cfg, source, todo, faults, crashes>>
      /\ pc[t] = "unmap"
  BY DEF Unmap, others, semVars, diskVars, RepairEnds
<1>5. /\ map' \in [Ids -> Bucket \cup {NoBucket}]
      /\ \A i \in Ids : map'[i] # NoBucket => map'[i][1] = i
  BY DEF Unmap, Typed, TypeOK, ObjectInv
<1>6. TypeOK'
  BY <1>1, <1>3, <1>4, <1>5 DEF Typed, TypeOK
<1>7. Untouched(t)
  BY <1>3, <1>4, <1>5 DEF Untouched, Typed, TypeOK
<1>8. AtStep(pc'[t], op'[t], source'[t], cfg'[t], ref'[t], id'[t])
  <2>1. AtStep(pc[t], op[t], source[t], cfg[t], ref[t], id[t])
    BY DEF Typed, TaskInv
  <2> QED
    BY <2>1, <1>3, <1>4, <1>5 DEF AtStep, Deleting, Repairing, Opening, Looked, Finders
<1> QED
  BY <1>4, <1>5, <1>6, <1>7, <1>8, TaskInvKept DEF Typed, ObjectInv

LEMMA RepairTypes ==
    ASSUME Typed, NEW t \in Tasks, Repair(t), History
    PROVE  Typed'
<1>1. mixed' \in SUBSET Ids /\ scanned' \in SUBSET Ids
  BY HistoryTypes
<1>2. PICK p \in {"failed", "done", "openFailed", "mkdir"} : Goto(t, p)
  BY DEF Repair, RepairEnds
<1>3. pc' \in [Tasks -> Steps] /\ pc'[t] = p /\ \A u \in Tasks \ {t} : pc'[u] = pc[u]
  <2>1. p \in Steps
    BY DEF Steps, Settled, Working
  <2> QED
    BY <1>2, <2>1, GotoTypes
<1>4. /\ UNCHANGED <<map, folders, assets, lock, stored, holder, queue, op, id, ref, cfg, source, todo, faults, crashes>>
      /\ pc[t] \in {"repair", "repairAndOpen"} /\ dir' \in SUBSET folders
  BY DEF Repair, others, semVars, diskVars, RepairEnds, Typed, TypeOK
<1>5. bucket' \in [Bucket -> Fields]
  <2>1. ref[t] \in Bucket /\ bucket[ref[t]] \in Fields
    BY <1>4 DEF Typed, TypeOK, TaskInv, AtStep, Looked, Opening, Repairing
  <2>2. [bucket[ref[t]] EXCEPT !.repairing = FALSE] \in Fields
    BY <2>1, FieldsUpdate
  <2>3. bucket' = [bucket EXCEPT ![ref[t]].repairing = FALSE] \/ bucket' = bucket
    BY DEF Repair, RepairEnds
  <2> QED
    BY <2>1, <2>2, <2>3 DEF Typed, TypeOK
<1>6. TypeOK'
  BY <1>1, <1>3, <1>4, <1>5 DEF Typed, TypeOK
<1>7. Untouched(t)
  BY <1>3, <1>4, <1>5 DEF Untouched, Typed, TypeOK
<1>8. AtStep(pc'[t], op'[t], source'[t], cfg'[t], ref'[t], id'[t])
  <2>1. AtStep(pc[t], op[t], source[t], cfg[t], ref[t], id[t])
    BY DEF Typed, TaskInv
  <2> QED
    BY <2>1, <1>3, <1>4, <1>5 DEF AtStep, Deleting, Repairing, Opening, Looked, Finders
<1> QED
  BY <1>4, <1>5, <1>6, <1>7, <1>8, TaskInvKept DEF Typed, ObjectInv

LEMMA AcquireTypes ==
    ASSUME Typed, NEW t \in Tasks, Acquire(t), History
    PROVE  Typed'
<1>1. mixed' \in SUBSET Ids /\ scanned' \in SUBSET Ids
  BY HistoryTypes
<1>2. queue' \in Seq(Tasks) /\ id[t] \in Ids
  BY DEF Acquire, Typed, TypeOK
<1>3. /\ UNCHANGED <<op, ref, source, todo, folders, dir, assets, lock, stored, faults, crashes>>
      /\ pc[t] \in {"create", "wait"}
  BY DEF Acquire, others
<1>4. op[t] = "write"
  BY <1>3 DEF Typed, TaskInv, AtStep
<1>5. CASE pc[t] = "create"
  <2>1. holder' = t /\ CreateBucket(t, id[t], NoConfig)
    BY <1>5 DEF Acquire
  <2>2. /\ map' \in [Ids -> Bucket \cup {NoBucket}] /\ bucket' \in [Bucket -> Fields]
        /\ id' \in [Tasks -> Ids] /\ cfg' \in [Tasks -> Config \cup {NoConfig}]
        /\ pc' \in [Tasks -> Steps]
        /\ \A j \in Ids : map'[j] # NoBucket => map'[j][1] = j
    BY <1>2, <2>1, CreateTypes
  <2>3. /\ id' = [id EXCEPT ![t] = id[t]] /\ cfg' = [cfg EXCEPT ![t] = NoConfig]
        /\ pc' = [pc EXCEPT ![t] = "readConfig"]
    BY <1>2, <2>1, CreateEffect DEF Typed
  <2>4. TypeOK'
    BY <1>1, <1>2, <1>3, <2>1, <2>2 DEF Typed, TypeOK
  <2>5. Untouched(t) /\ pc'[t] = "readConfig" /\ op'[t] = "write"
    BY <1>3, <1>4, <2>3 DEF Untouched, Typed, TypeOK
  <2>6. AtStep(pc'[t], op'[t], source'[t], cfg'[t], ref'[t], id'[t])
    BY <2>5 DEF AtStep, Deleting, Repairing, Opening, Looked, Finders
  <2> QED
    BY <1>3, <2>2, <2>4, <2>5, <2>6, TaskInvKept DEF Typed, ObjectInv
<1>6. CASE pc[t] = "wait"
  <2>1. UNCHANGED <<map, bucket, holder, id, cfg>> /\ Put(t, id[t])
    BY <1>6 DEF Acquire
  <2>2. PICK p \in {"done", "failed"} : Goto(t, p)
    BY <2>1 DEF Put
  <2>3. pc' \in [Tasks -> Steps] /\ pc'[t] = p /\ \A u \in Tasks \ {t} : pc'[u] = pc[u]
    <3>1. p \in Steps
      BY DEF Steps, Settled
    <3> QED
      BY <2>2, <3>1, GotoTypes
  <2>4. TypeOK'
    BY <1>1, <1>2, <1>3, <2>1, <2>3 DEF Typed, TypeOK
  <2>5. Untouched(t)
    BY <1>3, <2>1, <2>3 DEF Untouched
  <2>6. AtStep(pc'[t], op'[t], source'[t], cfg'[t], ref'[t], id'[t])
    BY <2>3 DEF AtStep, Deleting, Repairing, Opening, Looked
  <2> QED
    BY <1>3, <2>1, <2>4, <2>5, <2>6, TaskInvKept DEF Typed, ObjectInv
<1> QED
  BY <1>3, <1>5, <1>6

LEMMA ApplySuppliedTypes ==
    ASSUME Typed, NEW t \in Tasks, ApplySupplied(t), History
    PROVE  Typed'
<1>1. mixed' \in SUBSET Ids /\ scanned' \in SUBSET Ids
  BY HistoryTypes
<1>2. /\ UNCHANGED <<map, queue, op, id, cfg, todo, folders, dir, assets, lock, stored, faults, crashes>>
      /\ pc[t] = "storedConfig"
  BY DEF ApplySupplied, others
<1>3. op[t] = "configure" /\ cfg[t] \in Config
  BY <1>2 DEF Typed, TaskInv, AtStep
<1>4. CASE ~Gone(t)
  <2> DEFINE b == map[id[t]]
             now == [bucket EXCEPT ![b].config = cfg[t]]
  <2>1. UpdateDBState(t, cfg[t], "supplied", now) /\ UNCHANGED holder
    BY <1>4 DEF ApplySupplied
  <2>2. now \in [Bucket -> Fields]
    <3>1. b \in Bucket /\ bucket[b] \in Fields
      BY <1>4 DEF Gone, Typed, TypeOK
    <3>2. [bucket[b] EXCEPT !.config = cfg[t]] \in Fields
      BY <1>3, <3>1, FieldsUpdate
    <3> QED
      BY <3>1, <3>2 DEF Typed, TypeOK
  <2> HIDE DEF now
  <2>3. /\ bucket' \in [Bucket -> Fields] /\ pc' \in [Tasks -> Steps]
        /\ source' \in [Tasks -> {"supplied", "stored", "empty"}]
        /\ ref' \in [Tasks -> Bucket \cup {NoBucket}]
        /\ ref'[t] \in Bucket /\ ref'[t][1] = id[t] /\ source'[t] = "supplied"
        /\ \A u \in Tasks \ {t} : pc'[u] = pc[u] /\ ref'[u] = ref[u] /\ source'[u] = source[u]
        /\ pc'[t] \in {"created", "openFailed", "mkdir"}
    BY <1>3, <1>4, <2>1, <2>2, UpdateTypes
  <2>4. TypeOK'
    BY <1>1, <1>2, <2>1, <2>3 DEF Typed, TypeOK
  <2>5. Untouched(t)
    BY <1>2, <2>3 DEF Untouched
  <2>6. AtStep(pc'[t], op'[t], source'[t], cfg'[t], ref'[t], id'[t])
    BY <1>2, <1>3, <2>3 DEF AtStep, Deleting, Repairing, Opening, Looked
  <2> QED
    BY <1>2, <2>4, <2>5, <2>6, TaskInvKept DEF Typed, ObjectInv
<1>5. CASE Gone(t)
  <2>1. Throw(t) /\ UNCHANGED <<bucket, ref, source>>
    BY <1>5 DEF ApplySupplied
  <2>2. /\ pc' \in [Tasks -> Steps] /\ holder' \in Tasks \cup {Nobody}
        /\ \A u \in Tasks \ {t} : pc'[u] = pc[u]
        /\ pc'[t] = "failed"
    BY <1>3, <2>1, ThrowTypes
  <2>3. TypeOK'
    BY <1>1, <1>2, <2>1, <2>2 DEF Typed, TypeOK
  <2>4. Untouched(t)
    BY <1>2, <2>1, <2>2 DEF Untouched
  <2>5. AtStep(pc'[t], op'[t], source'[t], cfg'[t], ref'[t], id'[t])
    BY <2>2 DEF AtStep, Deleting, Repairing, Opening, Looked
  <2> QED
    BY <1>2, <2>1, <2>3, <2>4, <2>5, TaskInvKept DEF Typed, ObjectInv
<1> QED
  BY <1>4, <1>5

LEMMA ApplyStoredTypes ==
    ASSUME Typed, NEW t \in Tasks, ApplyStored(t), History
    PROVE  Typed'
<1>1. mixed' \in SUBSET Ids /\ scanned' \in SUBSET Ids
  BY HistoryTypes
<1>2. /\ UNCHANGED <<map, queue, op, id, cfg, todo, folders, dir, assets, lock, stored, faults, crashes>>
      /\ pc[t] = "gotConfig"
  BY DEF ApplyStored, others
<1>3. op[t] \in Finders /\ cfg[t] \in Config \cup {NoConfig}
  BY <1>2 DEF Typed, TypeOK, TaskInv, AtStep
<1>4. CASE ~Gone(t)
  <2> DEFINE b == map[id[t]]
  <2>1. PICK c \in Config, from \in {"stored", "empty"}, now \in [Bucket -> Fields] :
           UpdateDBState(t, c, from, now)
    <3>1. CASE cfg[t] = NoConfig
      <4>1. UpdateDBState(t, EmptyConfig, "empty", bucket)
        BY <1>4, <3>1 DEF ApplyStored
      <4>2. bucket \in [Bucket -> Fields]
        BY DEF Typed, TypeOK
      <4> QED
        BY <4>1, <4>2, FreshType
    <3>2. CASE cfg[t] # NoConfig
      <4> DEFINE n == [bucket EXCEPT ![b].config = cfg[t]]
      <4>1. UpdateDBState(t, cfg[t], "stored", n)
        BY <1>4, <3>2 DEF ApplyStored
      <4>2. b \in Bucket /\ bucket[b] \in Fields
        BY <1>4 DEF Gone, Typed, TypeOK
      <4>3. [bucket[b] EXCEPT !.config = cfg[t]] \in Fields
        BY <1>3, <3>2, <4>2, FieldsUpdate
      <4>4. n \in [Bucket -> Fields]
        BY <4>2, <4>3 DEF Typed, TypeOK
      <4> HIDE DEF n
      <4> QED
        BY <1>3, <3>2, <4>1, <4>4
    <3> QED
      BY <3>1, <3>2
  <2>2. UNCHANGED holder
    BY <1>4 DEF ApplyStored
  <2>3. /\ bucket' \in [Bucket -> Fields] /\ pc' \in [Tasks -> Steps]
        /\ source' \in [Tasks -> {"supplied", "stored", "empty"}]
        /\ ref' \in [Tasks -> Bucket \cup {NoBucket}]
        /\ ref'[t] \in Bucket /\ ref'[t][1] = id[t]
        /\ \A u \in Tasks \ {t} : pc'[u] = pc[u] /\ ref'[u] = ref[u] /\ source'[u] = source[u]
        /\ pc'[t] \in {"storeEmpty", "created", "openFailed", "mkdir"}
    BY <1>4, <2>1, UpdateTypes
  <2>4. TypeOK'
    BY <1>1, <1>2, <2>2, <2>3 DEF Typed, TypeOK
  <2>5. Untouched(t)
    BY <1>2, <2>3 DEF Untouched
  <2>6. AtStep(pc'[t], op'[t], source'[t], cfg'[t], ref'[t], id'[t])
    BY <1>2, <1>3, <2>3 DEF AtStep, Deleting, Repairing, Opening, Looked, Finders
  <2> QED
    BY <1>2, <2>4, <2>5, <2>6, TaskInvKept DEF Typed, ObjectInv
<1>5. CASE Gone(t)
  <2>1. Throw(t) /\ UNCHANGED <<bucket, ref, source>>
    BY <1>5 DEF ApplyStored
  <2>2. /\ pc' \in [Tasks -> Steps] /\ holder' \in Tasks \cup {Nobody}
        /\ \A u \in Tasks \ {t} : pc'[u] = pc[u]
        /\ \/ op[t] \in {"read", "event"} /\ pc'[t] = "list"
           \/ op[t] \notin {"read", "event"} /\ pc'[t] = "failed"
    BY <2>1, ThrowTypes
  <2>3. TypeOK'
    BY <1>1, <1>2, <2>1, <2>2 DEF Typed, TypeOK
  <2>4. Untouched(t)
    BY <1>2, <2>1, <2>2 DEF Untouched
  <2>5. AtStep(pc'[t], op'[t], source'[t], cfg'[t], ref'[t], id'[t])
    BY <1>2, <2>2 DEF AtStep, Deleting, Repairing, Opening, Looked
  <2> QED
    BY <1>2, <2>1, <2>3, <2>4, <2>5, TaskInvKept DEF Typed, ObjectInv
<1> QED
  BY <1>4, <1>5

LEMMA ApplyEmptyTypes ==
    ASSUME Typed, NEW t \in Tasks, ApplyEmpty(t), History
    PROVE  Typed'
<1>1. mixed' \in SUBSET Ids /\ scanned' \in SUBSET Ids
  BY HistoryTypes
<1>2. /\ UNCHANGED <<map, queue, op, id, ref, cfg, source, todo, folders, dir, assets, lock, stored, faults, crashes>>
      /\ pc[t] = "storedEmpty"
  BY DEF ApplyEmpty, others
<1>3. op[t] \in Finders
  BY <1>2 DEF Typed, TaskInv, AtStep
<1>4. /\ bucket' \in [Bucket -> Fields] /\ pc' \in [Tasks -> Steps]
      /\ holder' \in Tasks \cup {Nobody}
      /\ \A u \in Tasks \ {t} : pc'[u] = pc[u]
      /\ \/ op[t] \in {"read", "event"} /\ pc'[t] = "list"
         \/ op[t] \notin {"read", "event"} /\ pc'[t] = "failed"
         \/ pc'[t] = "created"
  <2>1. CASE ~Gone(t)
    <3>1. map[id[t]] \in Bucket /\ bucket[map[id[t]]] \in Fields
      BY <2>1 DEF Gone, Typed, TypeOK
    <3>2. [bucket[map[id[t]]] EXCEPT !.config = EmptyConfig] \in Fields
      BY <3>1, FieldsUpdate, FreshType
    <3>3. /\ bucket' = [bucket EXCEPT ![map[id[t]]].config = EmptyConfig]
          /\ Goto(t, "created") /\ holder' = holder
      BY <2>1 DEF ApplyEmpty
    <3>4. "created" \in Steps
      BY DEF Steps, Working
    <3>5. bucket' \in [Bucket -> Fields] /\ holder' \in Tasks \cup {Nobody}
      BY <3>1, <3>2, <3>3 DEF Typed, TypeOK
    <3> QED
      BY <3>3, <3>4, <3>5, GotoTypes
  <2>2. CASE Gone(t)
    <3>1. Throw(t) /\ bucket' = bucket
      BY <2>2 DEF ApplyEmpty
    <3> QED
      BY <3>1, ThrowTypes DEF Typed, TypeOK
  <2> QED
    BY <2>1, <2>2
<1>5. TypeOK'
  BY <1>1, <1>2, <1>4 DEF Typed, TypeOK
<1>6. Untouched(t)
  BY <1>2, <1>4 DEF Untouched
<1>7. AtStep(pc'[t], op'[t], source'[t], cfg'[t], ref'[t], id'[t])
  BY <1>2, <1>3, <1>4 DEF AtStep, Deleting, Repairing, Opening, Looked
<1> QED
  BY <1>2, <1>5, <1>6, <1>7, TaskInvKept DEF Typed, ObjectInv

LEMMA OpenFailedTypes ==
    ASSUME Typed, NEW t \in Tasks, OpenFailed(t), History
    PROVE  Typed'
<1> DEFINE closed == [bucket EXCEPT ![ref[t]].isOpen = FALSE]
<1>1. mixed' \in SUBSET Ids /\ scanned' \in SUBSET Ids
  BY HistoryTypes
<1>2. /\ UNCHANGED <<map, queue, op, id, cfg, todo, folders, dir, assets, lock, stored, faults, crashes>>
      /\ pc[t] = "openFailed"
  BY DEF OpenFailed, others
<1>3. /\ op[t] \in Finders \cup {"configure", "repair"} /\ ref[t] \in Bucket /\ ref[t][1] = id[t]
      /\ op[t] = "configure" => source[t] = "supplied"
  BY <1>2 DEF Typed, TaskInv, AtStep, Looked
<1>4. closed \in [Bucket -> Fields]
  <2>1. bucket[ref[t]] \in Fields
    BY <1>3 DEF Typed, TypeOK
  <2>2. [bucket[ref[t]] EXCEPT !.isOpen = FALSE] \in Fields
    BY <2>1, FieldsUpdate
  <2> QED
    BY <2>2 DEF Typed, TypeOK
<1>5. CASE op[t] = "repair"
  <2>1. RepairEnds(t, "failed") /\ UNCHANGED <<holder, ref, source>>
    BY <1>5 DEF OpenFailed
  <2>2. bucket' \in [Bucket -> Fields]
    <3>1. bucket[ref[t]] \in Fields
      BY <1>3 DEF Typed, TypeOK
    <3>2. [bucket[ref[t]] EXCEPT !.repairing = FALSE] \in Fields
      BY <3>1, FieldsUpdate
    <3> QED
      BY <2>1, <3>2 DEF RepairEnds, Typed, TypeOK
  <2>3. pc' \in [Tasks -> Steps] /\ pc'[t] = "failed" /\ \A u \in Tasks \ {t} : pc'[u] = pc[u]
    <3>1. "failed" \in Steps /\ Goto(t, "failed")
      BY <2>1 DEF Steps, Settled, RepairEnds
    <3> QED
      BY <3>1, GotoTypes
  <2>4. TypeOK'
    BY <1>1, <1>2, <2>1, <2>2, <2>3 DEF Typed, TypeOK
  <2>5. Untouched(t)
    BY <1>2, <2>1, <2>3 DEF Untouched
  <2>6. AtStep(pc'[t], op'[t], source'[t], cfg'[t], ref'[t], id'[t])
    BY <2>3 DEF AtStep, Deleting, Repairing, Opening, Looked
  <2> QED
    BY <1>2, <2>4, <2>5, <2>6, TaskInvKept DEF Typed, ObjectInv
<1>6. CASE op[t] # "repair" /\ source[t] = "stored" /\ ~Gone(t)
  <2>1. UpdateDBState(t, EmptyConfig, "empty", closed) /\ UNCHANGED holder
    BY <1>6 DEF OpenFailed
  <2> HIDE DEF closed
  <2>2. /\ bucket' \in [Bucket -> Fields] /\ pc' \in [Tasks -> Steps]
        /\ source' \in [Tasks -> {"supplied", "stored", "empty"}]
        /\ ref' \in [Tasks -> Bucket \cup {NoBucket}]
        /\ ref'[t] \in Bucket /\ ref'[t][1] = id[t]
        /\ \A u \in Tasks \ {t} : pc'[u] = pc[u] /\ ref'[u] = ref[u] /\ source'[u] = source[u]
        /\ pc'[t] \in {"storeEmpty", "openFailed", "mkdir"}
    BY <1>4, <1>6, <2>1, UpdateTypes, FreshType
  <2>3. op[t] \in Finders
    BY <1>3, <1>6
  <2>4. TypeOK'
    BY <1>1, <1>2, <2>1, <2>2 DEF Typed, TypeOK
  <2>5. Untouched(t)
    BY <1>2, <2>2 DEF Untouched
  <2>6. AtStep(pc'[t], op'[t], source'[t], cfg'[t], ref'[t], id'[t])
    BY <1>2, <2>2, <2>3 DEF AtStep, Deleting, Repairing, Opening, Looked, Finders
  <2> QED
    BY <1>2, <2>4, <2>5, <2>6, TaskInvKept DEF Typed, ObjectInv
<1>7. CASE op[t] # "repair" /\ (source[t] # "stored" \/ Gone(t))
  <2>1. bucket' = closed /\ Throw(t) /\ UNCHANGED <<ref, source>>
    BY <1>7 DEF OpenFailed
  <2> HIDE DEF closed
  <2>2. /\ pc' \in [Tasks -> Steps] /\ holder' \in Tasks \cup {Nobody}
        /\ \A u \in Tasks \ {t} : pc'[u] = pc[u]
        /\ \/ op[t] \in {"read", "event"} /\ pc'[t] = "list"
           \/ op[t] \notin {"read", "event"} /\ pc'[t] = "failed"
    BY <2>1, ThrowTypes
  <2>3. TypeOK'
    BY <1>1, <1>2, <1>4, <2>1, <2>2 DEF Typed, TypeOK
  <2>4. Untouched(t)
    BY <1>2, <2>1, <2>2 DEF Untouched
  <2>5. AtStep(pc'[t], op'[t], source'[t], cfg'[t], ref'[t], id'[t])
    BY <1>2, <2>2 DEF AtStep, Deleting, Repairing, Opening, Looked
  <2> QED
    BY <1>2, <2>3, <2>4, <2>5, TaskInvKept DEF Typed, ObjectInv
<1> QED
  BY <1>5, <1>6, <1>7

LEMMA CreatedTypes ==
    ASSUME Typed, NEW t \in Tasks, Created(t), History
    PROVE  Typed'
<1>1. mixed' \in SUBSET Ids /\ scanned' \in SUBSET Ids
  BY HistoryTypes
<1>2. UNCHANGED <<map, bucket, id, ref, cfg, source, todo, folders, dir, assets, lock, stored, faults, crashes>>
  BY DEF Created, others
<1>3. /\ pc' \in [Tasks -> Steps] /\ queue' \in Seq(Tasks) /\ holder' \in Tasks \cup {Nobody}
      /\ op' \in [Tasks -> Ops \cup {"event", "read"}]
      /\ \A u \in Tasks \ {t} : pc'[u] = pc[u] /\ op'[u] = op[u]
      /\ \/ op'[t] = "write" /\ pc'[t] \in {"wait", "done", "failed"}
         \/ op'[t] \in {"read", "event"} /\ pc'[t] \in {"scan", "list"}
  <2>1. "scan" \in Steps /\ "list" \in Steps /\ id[t] \in Ids
    BY DEF Steps, Typed, TypeOK
  <2>2. CASE op[t] = "write"
    <3>1. holder' = Nobody /\ WaitForBucketCreation(t, id[t]) /\ op' = op
      BY <2>2 DEF Created
    <3>2. /\ pc' \in [Tasks -> Steps] /\ queue' \in Seq(Tasks)
          /\ \A u \in Tasks \ {t} : pc'[u] = pc[u]
          /\ pc'[t] \in {"wait", "done", "failed"}
      BY <2>1, <3>1, WaitTypes
    <3> QED
      BY <2>2, <3>1, <3>2 DEF Typed, TypeOK
  <2>3. CASE op[t] = "configure"
    <3>1. op' = [op EXCEPT ![t] = "event"] /\ Goto(t, "scan") /\ queue' = queue /\ holder' = holder
      BY <2>3 DEF Created, semVars
    <3>2. op' \in [Tasks -> Ops \cup {"event", "read"}] /\ op'[t] = "event"
          /\ \A u \in Tasks \ {t} : op'[u] = op[u]
      BY <3>1 DEF Typed, TypeOK
    <3> QED
      BY <2>1, <3>1, <3>2, GotoTypes DEF Typed, TypeOK
  <2>4. CASE op[t] \in {"read", "event"}
    <3>1. op' = op /\ Goto(t, "list") /\ queue' = queue /\ holder' = holder
      BY <2>4 DEF Created, semVars
    <3> QED
      BY <2>1, <2>4, <3>1, GotoTypes DEF Typed, TypeOK
  <2> QED
    BY <2>2, <2>3, <2>4 DEF Created
<1>4. TypeOK'
  BY <1>1, <1>2, <1>3 DEF Typed, TypeOK
<1>5. Untouched(t)
  BY <1>2, <1>3 DEF Untouched
<1>6. AtStep(pc'[t], op'[t], source'[t], cfg'[t], ref'[t], id'[t])
  BY <1>3 DEF AtStep, Deleting, Repairing, Opening, Looked
<1> QED
  BY <1>2, <1>4, <1>5, <1>6, TaskInvKept DEF Typed, ObjectInv

LEMMA CreateNextTypes ==
    ASSUME Typed, NEW t \in Tasks, CreateNext(t), History
    PROVE  Typed'
<1>1. mixed' \in SUBSET Ids /\ scanned' \in SUBSET Ids
  BY HistoryTypes
<1>2. /\ UNCHANGED <<holder, queue, op, ref, source, folders, dir, assets, lock, stored, faults, crashes>>
      /\ pc[t] = "list"
  BY DEF CreateNext, others, semVars
<1>3. op[t] \in {"read", "event"}
  BY <1>2 DEF Typed, TaskInv, AtStep
<1>4. ASSUME NEW i \in todo[t], todo' = [todo EXCEPT ![t] = @ \ {i}], CreateBucket(t, i, NoConfig)
      PROVE  Typed'
  <2>1. i \in Ids
    BY DEF Typed, TypeOK
  <2>2. /\ map' \in [Ids -> Bucket \cup {NoBucket}] /\ bucket' \in [Bucket -> Fields]
        /\ id' \in [Tasks -> Ids] /\ cfg' \in [Tasks -> Config \cup {NoConfig}]
        /\ pc' \in [Tasks -> Steps]
        /\ \A j \in Ids : map'[j] # NoBucket => map'[j][1] = j
    BY <1>4, <2>1, CreateTypes
  <2>3. /\ id' = [id EXCEPT ![t] = i] /\ cfg' = [cfg EXCEPT ![t] = NoConfig]
        /\ pc' = [pc EXCEPT ![t] = "readConfig"]
    BY <1>4, <2>1, CreateEffect DEF Typed
  <2>4. todo' \in [Tasks -> SUBSET Ids]
    BY <1>4 DEF Typed, TypeOK
  <2>5. TypeOK'
    BY <1>1, <1>2, <2>2, <2>4 DEF Typed, TypeOK
  <2>6. Untouched(t) /\ pc'[t] = "readConfig"
    BY <1>2, <2>3 DEF Untouched, Typed, TypeOK
  <2>7. AtStep(pc'[t], op'[t], source'[t], cfg'[t], ref'[t], id'[t])
    BY <1>2, <1>3, <2>6 DEF AtStep, Deleting, Repairing, Opening, Looked, Finders
  <2> QED
    BY <1>2, <2>2, <2>5, <2>6, <2>7, TaskInvKept DEF Typed, ObjectInv
<1>5. ASSUME Goto(t, "done"), UNCHANGED <<map, bucket, id, cfg, todo>> PROVE Typed'
  <2>1. pc' \in [Tasks -> Steps] /\ pc'[t] = "done" /\ \A u \in Tasks \ {t} : pc'[u] = pc[u]
    <3>1. "done" \in Steps
      BY DEF Steps, Settled
    <3> QED
      BY <1>5, <3>1, GotoTypes
  <2>2. TypeOK'
    BY <1>1, <1>2, <1>5, <2>1 DEF Typed, TypeOK
  <2>3. Untouched(t)
    BY <1>2, <1>5, <2>1 DEF Untouched
  <2>4. AtStep(pc'[t], op'[t], source'[t], cfg'[t], ref'[t], id'[t])
    BY <2>1 DEF AtStep, Deleting, Repairing, Opening, Looked
  <2> QED
    BY <1>2, <1>5, <2>2, <2>3, <2>4, TaskInvKept DEF Typed, ObjectInv
<1> QED
  BY <1>4, <1>5 DEF CreateNext

LEMMA FinishCloseEffect ==
    ASSUME Typed, NEW b \in Bucket, FinishClose(b)
    PROVE  /\ bucket[b].db = "closing" /\ b[1] \in Ids
           /\ bucket' \in [Bucket -> Fields]
           /\ bucket'[b].db = "none" /\ bucket'[b].config = bucket[b].config
           /\ bucket'[b].isDeleting = bucket[b].isDeleting /\ bucket'[b].isOpen = bucket[b].isOpen
           /\ \A c \in Bucket \ {b} : bucket'[c] = bucket[c]
           /\ lock' = [lock EXCEPT ![b[1]] = IF lock[b[1]] = b THEN NoBucket ELSE lock[b[1]]]
           /\ pc' \in [Tasks -> Steps]
           /\ \A t \in Tasks : pc'[t] = IF ref[t] = b /\ pc[t] = "close" THEN "rm"
                                        ELSE IF ref[t] = b /\ pc[t] = "closeToRepair" THEN "repairAndOpen"
                                        ELSE pc[t]
           /\ UNCHANGED <<map, folders, dir, assets, stored, holder, queue, op, id, ref, cfg, source, todo, faults, crashes>>
<1> DEFINE v == bucket[b].repairing \/ \E t \in Tasks : pc[t] = "closeToRepair" /\ ref[t] = b
           r == [bucket[b] EXCEPT !.db = "none"]
           q == [r EXCEPT !.repairing = v]
<1>1. bucket[b] \in Fields /\ b[1] \in Ids
  BY DEF Typed, TypeOK, Bucket
<1>2. r \in Fields /\ v \in BOOLEAN
  BY <1>1, FieldsUpdate DEF Fields
<1>3. r.db = "none" /\ r.config = bucket[b].config /\ r.isDeleting = bucket[b].isDeleting
      /\ r.isOpen = bucket[b].isOpen /\ r.repairing = bucket[b].repairing
  BY <1>1 DEF Fields
<1>4. bucket' = [bucket EXCEPT ![b] = q]
  BY <1>1, <1>3 DEF FinishClose, Typed, TypeOK
<1> HIDE DEF v, r
<1>5. q \in Fields /\ q.db = r.db /\ q.config = r.config /\ q.isDeleting = r.isDeleting /\ q.isOpen = r.isOpen
  BY <1>2, FieldsUpdate DEF Fields
<1> HIDE DEF q
<1>6. /\ bucket' \in [Bucket -> Fields]
      /\ bucket'[b] = q /\ \A c \in Bucket \ {b} : bucket'[c] = bucket[c]
  BY <1>4, <1>5 DEF Typed, TypeOK
<1>7. /\ bucket[b].db = "closing"
      /\ lock' = [lock EXCEPT ![b[1]] = IF lock[b[1]] = b THEN NoBucket ELSE lock[b[1]]]
      /\ UNCHANGED <<map, folders, dir, assets, stored, holder, queue, op, id, ref, cfg, source, todo, faults, crashes>>
  BY DEF FinishClose, semVars
<1>8. /\ pc' \in [Tasks -> Steps]
      /\ \A t \in Tasks : pc'[t] = IF ref[t] = b /\ pc[t] = "close" THEN "rm"
                                   ELSE IF ref[t] = b /\ pc[t] = "closeToRepair" THEN "repairAndOpen"
                                   ELSE pc[t]
  <2> DEFINE P(t) == IF ref[t] # b THEN pc[t]
                     ELSE CASE pc[t] = "close" -> "rm"
                            [] pc[t] = "closeToRepair" -> "repairAndOpen"
                            [] OTHER -> pc[t]
  <2>1. \A t \in Tasks : P(t) = IF ref[t] = b /\ pc[t] = "close" THEN "rm"
                                ELSE IF ref[t] = b /\ pc[t] = "closeToRepair" THEN "repairAndOpen"
                                ELSE pc[t]
    OBVIOUS
  <2>2. pc' = [t \in Tasks |-> P(t)]
    BY DEF FinishClose
  <2>3. \A t \in Tasks : P(t) \in Steps
    BY <2>1 DEF Typed, TypeOK, Steps, Working
  <2> HIDE DEF P
  <2> QED
    BY <2>1, <2>2, <2>3
<1> QED
  BY <1>1, <1>3, <1>5, <1>6, <1>7, <1>8

LEMMA FinishCloseTypes ==
    ASSUME Typed, NEW b \in Bucket, FinishClose(b), History
    PROVE  Typed'
<1>1. mixed' \in SUBSET Ids /\ scanned' \in SUBSET Ids
  BY HistoryTypes
<1>2. /\ b[1] \in Ids /\ bucket' \in [Bucket -> Fields]
      /\ lock' = [lock EXCEPT ![b[1]] = IF lock[b[1]] = b THEN NoBucket ELSE lock[b[1]]]
      /\ pc' \in [Tasks -> Steps]
      /\ \A t \in Tasks : pc'[t] = IF ref[t] = b /\ pc[t] = "close" THEN "rm"
                                   ELSE IF ref[t] = b /\ pc[t] = "closeToRepair" THEN "repairAndOpen"
                                   ELSE pc[t]
      /\ UNCHANGED <<map, folders, dir, assets, stored, holder, queue, op, id, ref, cfg, source, todo, faults, crashes>>
  BY FinishCloseEffect
<1>3. lock' \in [Ids -> Bucket \cup {NoBucket}]
  BY <1>2 DEF Typed, TypeOK
<1>4. TypeOK'
  BY <1>1, <1>2, <1>3 DEF Typed, TypeOK
<1>5. ASSUME NEW t \in Tasks PROVE AtStep(pc'[t], op'[t], source'[t], cfg'[t], ref'[t], id'[t])
  <2>1. AtStep(pc[t], op[t], source[t], cfg[t], ref[t], id[t])
    BY DEF Typed, TaskInv
  <2>2. \/ pc'[t] = pc[t]
        \/ pc[t] = "close" /\ pc'[t] = "rm"
        \/ pc[t] = "closeToRepair" /\ pc'[t] = "repairAndOpen"
    <3>1. pc'[t] = IF ref[t] = b /\ pc[t] = "close" THEN "rm"
                   ELSE IF ref[t] = b /\ pc[t] = "closeToRepair" THEN "repairAndOpen"
                   ELSE pc[t]
      BY <1>2
    <3> QED
      BY <3>1
  <2> QED
    BY <1>2, <2>1, <2>2 DEF AtStep, Deleting, Repairing, Opening, Looked
<1>6. ObjectInv'
  BY <1>2 DEF Typed, TypeOK, ObjectInv
<1> QED
  BY <1>4, <1>5, <1>6 DEF Typed, TaskInv

\* The history of a failing step.
FaultHistory(t) == mixed' = mixed \cup {id[t]} /\ UNCHANGED scanned

LEMMA FaultTypes ==
    ASSUME Typed, NEW t \in Tasks, Fault(t), FaultHistory(t)
    PROVE  Typed' /\ Untouched(t) /\ pc[t] \in Working /\ id'[t] = id[t]
<1>1. mixed' \in SUBSET Ids /\ scanned' \in SUBSET Ids
  BY DEF FaultHistory, Typed, TypeOK
<1>2. /\ UNCHANGED <<map, folders, dir, assets, lock, stored, queue, op, id, ref, source, todo, crashes>>
      /\ faults' \in 0..MaxFaults
  <2>1. faults < MaxFaults /\ faults' = faults + 1 /\ faults \in 0..MaxFaults /\ MaxFaults \in Nat
    BY BucketsAssumption DEF Fault, Typed, TypeOK
  <2> QED
    BY <2>1 DEF Fault, diskVars
<1>3. AtStep(pc[t], op[t], source[t], cfg[t], ref[t], id[t])
  BY DEF Typed, TaskInv
<1>4. {"gotConfig", "openFailed", "failed", "unconfigure"} \subseteq Steps
  BY DEF Steps, Settled, Working
<1>5. /\ pc[t] \in Working /\ pc' \in [Tasks -> Steps] /\ holder' \in Tasks \cup {Nobody}
      /\ bucket' \in [Bucket -> Fields] /\ cfg' \in [Tasks -> Config \cup {NoConfig}]
      /\ \A u \in Tasks \ {t} : pc'[u] = pc[u] /\ cfg'[u] = cfg[u]
      /\ AtStep(pc'[t], op[t], source[t], cfg'[t], ref[t], id[t])
  <2>1. CASE /\ pc[t] = "readConfig" /\ cfg' = [cfg EXCEPT ![t] = NoConfig]
             /\ Goto(t, "gotConfig") /\ UNCHANGED <<bucket, holder>>
    <3>1. /\ pc' \in [Tasks -> Steps] /\ pc'[t] = "gotConfig"
          /\ \A u \in Tasks \ {t} : pc'[u] = pc[u]
      BY <1>4, <2>1, GotoTypes
    <3>2. AtStep(pc'[t], op[t], source[t], cfg'[t], ref[t], id[t])
      BY <1>3, <2>1, <3>1 DEF AtStep, Deleting, Repairing, Opening, Looked
    <3>3. /\ cfg' \in [Tasks -> Config \cup {NoConfig}] /\ \A u \in Tasks \ {t} : cfg'[u] = cfg[u]
          /\ bucket' \in [Bucket -> Fields] /\ holder' \in Tasks \cup {Nobody}
      BY <2>1 DEF Typed, TypeOK
    <3> QED
      BY <2>1, <3>1, <3>2, <3>3 DEF Working
  <2>2. CASE /\ pc[t] \in {"mkdir", "openDb", "openMeta", "purge"}
             /\ Goto(t, "openFailed") /\ UNCHANGED <<bucket, cfg, holder>>
    <3>1. /\ pc' \in [Tasks -> Steps] /\ pc'[t] = "openFailed"
          /\ \A u \in Tasks \ {t} : pc'[u] = pc[u]
      BY <1>4, <2>2, GotoTypes
    <3>2. AtStep(pc'[t], op[t], source[t], cfg'[t], ref[t], id[t])
      BY <1>3, <2>2, <3>1 DEF AtStep, Deleting, Repairing, Opening, Looked
    <3> QED
      BY <2>2, <3>1, <3>2 DEF Working, Typed, TypeOK
  <2>3. CASE pc[t] \in {"storeConfig", "storeEmpty"} /\ Throw(t) /\ UNCHANGED <<bucket, cfg>>
    <3>1. /\ pc' \in [Tasks -> Steps] /\ holder' \in Tasks \cup {Nobody}
          /\ \A u \in Tasks \ {t} : pc'[u] = pc[u]
          /\ \/ op[t] \in {"read", "event"} /\ pc'[t] = "list"
             \/ op[t] \notin {"read", "event"} /\ pc'[t] = "failed"
      BY <2>3, ThrowTypes
    <3>2. AtStep(pc'[t], op[t], source[t], cfg'[t], ref[t], id[t])
      BY <3>1 DEF AtStep, Deleting, Repairing, Opening, Looked
    <3> QED
      BY <2>3, <3>1, <3>2 DEF Working, Typed, TypeOK
  <2>4. CASE /\ pc[t] \in {"rm", "unconfigure"}
             /\ Goto(t, "failed") /\ UNCHANGED <<bucket, cfg, holder>>
    <3>1. /\ pc' \in [Tasks -> Steps] /\ pc'[t] = "failed"
          /\ \A u \in Tasks \ {t} : pc'[u] = pc[u]
      BY <1>4, <2>4, GotoTypes
    <3>2. AtStep(pc'[t], op[t], source[t], cfg'[t], ref[t], id[t])
      BY <3>1 DEF AtStep, Deleting, Repairing, Opening, Looked
    <3> QED
      BY <2>4, <3>1, <3>2 DEF Working, Typed, TypeOK
  <2>5. CASE /\ pc[t] \in {"repair", "repairAndOpen"}
             /\ RepairEnds(t, "failed") /\ UNCHANGED <<cfg, holder>>
    <3>1. /\ pc' \in [Tasks -> Steps] /\ pc'[t] = "failed"
          /\ \A u \in Tasks \ {t} : pc'[u] = pc[u]
      BY <1>4, <2>5, GotoTypes DEF RepairEnds
    <3>2. AtStep(pc'[t], op[t], source[t], cfg'[t], ref[t], id[t])
      BY <3>1 DEF AtStep, Deleting, Repairing, Opening, Looked
    <3>3. bucket' \in [Bucket -> Fields]
      <4>1. ref[t] \in Bucket /\ bucket[ref[t]] \in Fields
        BY <1>3, <2>5 DEF AtStep, Looked, Repairing, Typed, TypeOK
      <4>2. [bucket[ref[t]] EXCEPT !.repairing = FALSE] \in Fields
        BY <4>1, FieldsUpdate
      <4> QED
        BY <2>5, <4>2 DEF RepairEnds, Typed, TypeOK
    <3> QED
      BY <2>5, <3>1, <3>2, <3>3 DEF Working, Typed, TypeOK
  <2>6. CASE pc[t] = "rmdir" /\ Goto(t, "unconfigure") /\ UNCHANGED <<bucket, cfg, holder>>
    <3>1. /\ pc' \in [Tasks -> Steps] /\ pc'[t] = "unconfigure"
          /\ \A u \in Tasks \ {t} : pc'[u] = pc[u]
      BY <1>4, <2>6, GotoTypes
    <3>2. AtStep(pc'[t], op[t], source[t], cfg'[t], ref[t], id[t])
      BY <1>3, <2>6, <3>1 DEF AtStep, Deleting, Repairing, Opening, Looked
    <3> QED
      BY <2>6, <3>1, <3>2 DEF Working, Typed, TypeOK
  <2> QED
    BY <2>1, <2>2, <2>3, <2>4, <2>5, <2>6 DEF Fault
<1>6. TypeOK'
  BY <1>1, <1>2, <1>5 DEF Typed, TypeOK
<1>7. Untouched(t)
  BY <1>2, <1>5 DEF Untouched
<1> QED
  BY <1>2, <1>5, <1>6, <1>7, TaskInvKept DEF Typed, ObjectInv

\* What a start finds on disk.
LEMMA StartedState ==
    ASSUME NEW found \in SUBSET Ids, NEW configs \in [Ids -> Config \cup {NoConfig}]
    PROVE  /\ Started(found, configs) \in [Ids -> Config \cup {NoConfig}]
           /\ \A i \in Ids : i \notin found => Started(found, configs)[i] = configs[i]
           /\ \A i \in found : Started(found, configs)[i] \in Config
           /\ StartedBuckets(found, configs) \in [Bucket -> Fields]
           /\ \A b \in Bucket : b[2] # 1 \/ b[1] \notin found =>
                 StartedBuckets(found, configs)[b] = Fresh
           /\ \A i \in found :
                 LET c == Started(found, configs)[i]
                     r == StartedBuckets(found, configs)[<<i, 1>>]
                 IN  /\ <<i, 1>> \in Bucket /\ r.config = c /\ ~r.isDeleting
                     /\ r.db = IF c.disabled THEN "none" ELSE "open"
                     /\ r.isOpen <=> ~c.disabled
           /\ StartedLocks(found, configs) \in [Ids -> Bucket \cup {NoBucket}]
           /\ \A i \in Ids : StartedLocks(found, configs)[i] =
                 IF i \in found /\ ~Started(found, configs)[i].disabled THEN <<i, 1>> ELSE NoBucket
<1> DEFINE S == Started(found, configs)
           C(i) == [Fresh EXCEPT !.config = S[i], !.isOpen = ~S[i].disabled,
                                 !.db = IF S[i].disabled THEN "none" ELSE "open"]
<1>1. S \in [Ids -> Config \cup {NoConfig}]
  BY FreshType DEF Started
<1>2. \A i \in Ids : i \notin found => S[i] = configs[i]
  BY DEF Started
<1>3. \A i \in found : S[i] \in Config
  BY FreshType DEF Started
<1>4. \A i \in found : <<i, 1>> \in Bucket
  BY BucketsAssumption DEF Bucket
<1> HIDE DEF S
<1>5. ASSUME NEW i \in found
      PROVE  /\ C(i) \in Fields /\ C(i).config = S[i] /\ ~C(i).isDeleting
             /\ C(i).db = IF S[i].disabled THEN "none" ELSE "open"
             /\ C(i).isOpen <=> ~S[i].disabled
  <2> DEFINE v == ~S[i].disabled
             x == IF S[i].disabled THEN "none" ELSE "open"
  <2>1. v \in BOOLEAN /\ x \in {"none", "open", "closing"} /\ S[i] \in Config
    BY <1>3 DEF Config
  <2>2. C(i) = [db |-> x, isDeleting |-> FALSE, repairing |-> FALSE, config |-> S[i], isOpen |-> v]
    <3>1. C(i) = [Fresh EXCEPT !.config = S[i], !.isOpen = v, !.db = x]
      OBVIOUS
    <3> HIDE DEF v, x, C
    <3> QED
      BY <3>1 DEF Fresh
  <2> HIDE DEF v, x, C
  <2>3. C(i) \in Fields /\ C(i).config = S[i] /\ ~C(i).isDeleting /\ C(i).db = x /\ C(i).isOpen = v
    BY <2>1, <2>2 DEF Fields
  <2> QED
    BY <2>3 DEF v, x
<1>6. \A b \in Bucket : b[1] \in Ids
  BY DEF Bucket
<1>7. \A b \in Bucket : StartedBuckets(found, configs)[b] =
                           IF b[2] # 1 \/ b[1] \notin found THEN Fresh ELSE C(b[1])
  BY DEF StartedBuckets, S
<1> HIDE DEF C
<1>8. StartedBuckets(found, configs) \in [Bucket -> Fields]
  <2>1. \A b \in Bucket : StartedBuckets(found, configs)[b] \in Fields
    BY <1>5, <1>7, FreshType
  <2>2. DOMAIN StartedBuckets(found, configs) = Bucket
    BY DEF StartedBuckets
  <2>3. StartedBuckets(found, configs) =
           [b \in Bucket |-> StartedBuckets(found, configs)[b]]
    BY <2>2 DEF StartedBuckets
  <2> QED
    BY <2>1, <2>3
<1>9. \A i \in found : StartedBuckets(found, configs)[<<i, 1>>] = C(i)
  BY <1>4, <1>7
<1>10. StartedLocks(found, configs) \in [Ids -> Bucket \cup {NoBucket}]
       /\ \A i \in Ids : StartedLocks(found, configs)[i] =
             IF i \in found /\ ~S[i].disabled THEN <<i, 1>> ELSE NoBucket
  BY <1>4 DEF StartedLocks, StartedOpen, S
<1> QED
  BY <1>1, <1>2, <1>3, <1>4, <1>5, <1>7, <1>8, <1>9, <1>10 DEF S

\* The history of a restart.
RestartHistory == mixed' = mixed \cup {i \in Ids : Interrupted(i)} /\ UNCHANGED scanned

LEMMA RestartTypes ==
    ASSUME Typed, Restart, RestartHistory
    PROVE  Typed'
<1>1. mixed' \in SUBSET Ids /\ scanned' \in SUBSET Ids
  BY DEF RestartHistory, Typed, TypeOK
<1>2. folders \in SUBSET Ids /\ stored \in [Ids -> Config \cup {NoConfig}]
  BY DEF Typed, TypeOK
<1>3. \A i \in folders : <<i, 1>> \in Bucket
  BY <1>2, StartedState
<1>4. /\ map' \in [Ids -> Bucket \cup {NoBucket}]
      /\ \A i \in Ids : map'[i] # NoBucket => map'[i][1] = i
  BY <1>3 DEF Restart
<1>5. /\ lock' \in [Ids -> Bucket \cup {NoBucket}]
      /\ \A i \in Ids : lock'[i] # NoBucket => lock'[i][1] = i
  <2>1. /\ lock' = StartedLocks(folders, stored)
        /\ StartedLocks(folders, stored) \in [Ids -> Bucket \cup {NoBucket}]
    BY <1>2, StartedState DEF Restart
  <2>3. \A i \in Ids : \/ StartedLocks(folders, stored)[i] = <<i, 1>>
                        \/ StartedLocks(folders, stored)[i] = NoBucket
    BY DEF StartedLocks
  <2>2. \A i \in Ids : <<i, 1>>[1] = i
    OBVIOUS
  <2> QED
    BY <2>1, <2>2, <2>3
<1>6. bucket' \in [Bucket -> Fields] /\ stored' \in [Ids -> Config \cup {NoConfig}]
  BY <1>2, StartedState DEF Restart
<1>7. /\ pc' \in [Tasks -> Steps]
      /\ \A t \in Tasks : pc'[t] \in Settled \cup {"idle"}
  <2>1. pc' = [t \in Tasks |-> IF pc[t] \in Settled \cup {"idle"} THEN pc[t] ELSE "lost"]
    BY DEF Restart
  <2>2. "lost" \in Settled /\ Settled \subseteq Steps /\ "idle" \in Steps
    BY DEF Steps, Settled
  <2> HIDE DEF Settled
  <2> QED
    BY <2>1, <2>2 DEF Typed, TypeOK
<1>8. /\ UNCHANGED <<folders, assets, op, id, ref, cfg, source, todo, faults>>
      /\ holder' = Nobody /\ queue' = <<>> /\ dir' \in SUBSET folders
  BY DEF Restart, StartedOpen, Typed, TypeOK
<1>9. crashes' \in 0..MaxCrashes
  BY BucketsAssumption DEF Restart, Typed, TypeOK
<1>10. TypeOK'
  BY <1>1, <1>4, <1>5, <1>6, <1>7, <1>8, <1>9 DEF Typed, TypeOK
<1>11. TaskInv'
  BY <1>7 DEF TaskInv, AtStep, Settled, Deleting, Repairing, Opening, Looked
<1> QED
  BY <1>4, <1>5, <1>10, <1>11 DEF Typed, ObjectInv

LEMMA InitTypes == Init => Typed
<1> SUFFICES ASSUME Init PROVE Typed
  OBVIOUS
<1>1. folders \in SUBSET Ids /\ stored \in [Ids -> Config \cup {NoConfig}]
  <2>1. [EmptyConfig EXCEPT !.disabled = TRUE] \in Config
    BY FreshType DEF Config
  <2>2. PICK configs \in [Ids -> {NoConfig, EmptyConfig, [EmptyConfig EXCEPT !.disabled = TRUE]}] :
           stored = configs
    BY DEF Init
  <2>3. \A i \in Ids : configs[i] \in Config \cup {NoConfig}
    BY <2>1, FreshType
  <2>4. folders \in SUBSET Ids
    BY DEF Init
  <2> QED
    BY <2>2, <2>3, <2>4
<1>2. \A i \in folders : <<i, 1>> \in Bucket
  BY <1>1, StartedState
<1>3. /\ map \in [Ids -> Bucket \cup {NoBucket}]
      /\ \A i \in Ids : map[i] # NoBucket => map[i][1] = i
  BY <1>2 DEF Init
<1>4. /\ lock \in [Ids -> Bucket \cup {NoBucket}]
      /\ \A i \in Ids : lock[i] # NoBucket => lock[i][1] = i
  <2>1. /\ lock = StartedLocks(folders, stored)
        /\ StartedLocks(folders, stored) \in [Ids -> Bucket \cup {NoBucket}]
    BY <1>1, StartedState DEF Init
  <2>3. \A i \in Ids : \/ StartedLocks(folders, stored)[i] = <<i, 1>>
                        \/ StartedLocks(folders, stored)[i] = NoBucket
    BY DEF StartedLocks
  <2>2. \A i \in Ids : <<i, 1>>[1] = i
    OBVIOUS
  <2> QED
    BY <2>1, <2>2, <2>3
<1>5. bucket \in [Bucket -> Fields]
  BY <1>1, StartedState DEF Init
<1>6. /\ pc \in [Tasks -> Steps] /\ \A t \in Tasks : pc[t] = "idle"
  BY DEF Init, Steps
<1>7. id \in [Tasks -> Ids]
  BY BucketsAssumption DEF Init
<1>8. /\ holder \in Tasks \cup {Nobody} /\ queue \in Seq(Tasks)
      /\ op \in [Tasks -> Ops \cup {"event", "read"}] /\ ref \in [Tasks -> Bucket \cup {NoBucket}]
      /\ cfg \in [Tasks -> Config \cup {NoConfig}]
      /\ source \in [Tasks -> {"supplied", "stored", "empty"}] /\ todo \in [Tasks -> SUBSET Ids]
  BY DEF Init
<1>12. dir \in SUBSET folders /\ assets \in SUBSET folders
  BY DEF Init
<1>9. faults \in 0..MaxFaults /\ crashes \in 0..MaxCrashes /\ mixed \in SUBSET Ids /\ scanned \in SUBSET Ids
  BY BucketsAssumption DEF Init
<1>10. TypeOK
  BY <1>1, <1>3, <1>4, <1>5, <1>6, <1>7, <1>8, <1>9, <1>12 DEF TypeOK
<1>11. TaskInv
  BY <1>6 DEF TaskInv, AtStep, Deleting, Repairing, Opening, Looked
<1> QED
  BY <1>3, <1>4, <1>10, <1>11 DEF Typed, ObjectInv

-----------------------------------------------------------------------------
(* What a step of one task leaves alone. *)

\* Nothing of a name changes.
NameSame(i) ==
    /\ map'[i] = map[i] /\ lock'[i] = lock[i] /\ stored'[i] = stored[i] /\ (i \in dir' <=> i \in dir)
    /\ \A b \in Bucket : b[1] = i => bucket'[b] = bucket[b]

\* Those at work on it stay where they are.
CrewSame(i) ==
    /\ WorkingOn(i)' = WorkingOn(i)
    /\ \A u \in WorkingOn(i) : /\ pc'[u] = pc[u] /\ op'[u] = op[u]
                               /\ ref'[u] = ref[u] /\ cfg'[u] = cfg[u] /\ source'[u] = source[u]

LEMMA NameKept ==
    ASSUME Typed, NEW i \in Ids, NameInv(i), NameSame(i), CrewSame(i)
    PROVE  NameInv(i)'
<1>1. \A t \in WorkingOn(i) : t \in Tasks
  BY DEF WorkingOn
<1>2. map[i] # NoBucket => /\ map[i] \in Bucket /\ map'[i] = map[i]
                           /\ bucket'[map[i]] = bucket[map[i]]
  BY DEF Typed, TypeOK, ObjectInv, NameSame
<1>3. ~Overlapping(i)'
  BY <1>1 DEF NameInv, Overlapping, NameSame, CrewSame
<1>4. Bound(i)'
  BY <1>1 DEF NameInv, Bound, NameSame, CrewSame
<1>5. Absent(i)'
  BY DEF NameInv, Absent, NameSame
<1>6. \A S : At(i, S)' <=> At(i, S)
  BY DEF At, CrewSame
<1>7. Locked(i)'
  BY <1>2, <1>6 DEF NameInv, Locked, NameSame, CrewSame
<1>8. Progress(i)'
  <2> SUFFICES ASSUME NEW t \in WorkingOn(i)
               PROVE  /\ Achieved(pc[t], op[t], source[t], cfg[t], bucket[map[i]], stored[i], i \in dir')
                      /\ FoundNone(pc[t], op[t], source[t], cfg[t], bucket[map[i]], stored[i])
    BY <1>2, AbsentAssumption DEF NameInv, Bound, Progress, NameSame, CrewSame
  <2>1. /\ Achieved(pc[t], op[t], source[t], cfg[t], bucket[map[i]], stored[i], i \in dir)
        /\ FoundNone(pc[t], op[t], source[t], cfg[t], bucket[map[i]], stored[i])
    BY DEF NameInv, Progress
  <2>2. i \in dir' <=> i \in dir
    BY DEF NameSame
  <2> QED
    BY <2>1, <2>2 DEF Achieved
<1>9. Agreed(i)'
  BY <1>2, <1>6 DEF NameInv, Agreed, NameSame, CrewSame
<1>10. Opened(i)'
  BY <1>2, <1>6 DEF NameInv, Opened, NameSame
<1> QED
  BY <1>3, <1>4, <1>5, <1>7, <1>8, <1>9, <1>10 DEF NameInv

LEMMA ServedKept ==
    ASSUME Typed, NEW i \in Ids, NameInv(i), ServedInv(i), NameSame(i), CrewSame(i)
    PROVE  ServedInv(i)'
<1>1. map[i] # NoBucket => /\ map[i] \in Bucket /\ map'[i] = map[i]
                           /\ bucket'[map[i]] = bucket[map[i]]
  BY DEF Typed, TypeOK, ObjectInv, NameSame
<1>2. ~ScanOverlapping(i)'
  BY DEF ServedInv, ScanOverlapping, CrewSame
<1>3. \A t \in WorkingOn(i) : map[i] \in Bucket
  BY DEF NameInv, Bound
<1>4. map[i] \in Bucket => map[i] # NoBucket
  BY AbsentAssumption
<1> QED
  BY <1>1, <1>2, <1>3, <1>4 DEF ServedInv, CrewSame, NameSame

\* What every step of a task does and does not do.
OnlyName(j) == \A i \in Ids \ {j} : NameSame(i)

Local(t) ==
    /\ Untouched(t) /\ OnlyName(id'[t])
    /\ pc[t] \in Working => id'[t] = id[t]
    /\ pc[t] # "idle" => pc'[t] # "idle"
    /\ pc[t] # "idle" /\ op[t] = "delete" => op'[t] = "delete" /\ id'[t] = id[t]
    /\ pc'[t] \in Deleting => \/ pc[t] \in Deleting /\ ref'[t] = ref[t]
                              \/ map'[id'[t]] = ref'[t]
    /\ \/ map'[id'[t]] = map[id'[t]] \/ map[id'[t]] = NoBucket
       \/ pc[t] \in Deleting /\ pc'[t] \notin Deleting
    /\ holder' = holder \/ holder \in {Nobody, t}
    /\ pc'[t] \in Working /\ op'[t] = "write" => holder' = t

Grows == mixed \subseteq mixed' /\ scanned \subseteq scanned'

LEMMA CrewOfOthers ==
    ASSUME Typed, NEW t \in Tasks, Local(t), NEW i \in Ids \ {id'[t]}
    PROVE  CrewSame(i)
  BY DEF Local, Untouched, CrewSame, WorkingOn

\* A step of a task keeps what concerns neither its name nor itself.
LEMMA LocalStep ==
    ASSUME IInv, Typed', NEW t \in Tasks, Local(t), Grows
    PROVE  /\ DeletionInv' /\ HolderInv'
           /\ \A i \in Ids \ {id'[t]} : i \notin mixed' => NameInv(i)'
           /\ \A i \in Ids \ {id'[t]} : i \notin mixed' \cup scanned' => ServedInv(i)'
<1>1. Typed
  BY DEF IInv, Typed
<1>2. ASSUME NEW i \in Ids \ {id'[t]}
      PROVE  /\ i \notin mixed' => NameInv(i)'
             /\ i \notin mixed' \cup scanned' => ServedInv(i)'
  <2>1. NameSame(i) /\ CrewSame(i)
    BY <1>1, CrewOfOthers DEF Local, OnlyName
  <2>2. i \notin mixed' => NameInv(i)
    BY DEF Grows, IInv, NamesInv
  <2>3. i \notin mixed' \cup scanned' => ServedInv(i)
    BY DEF Grows, IInv, AllServed
  <2> QED
    BY <1>1, <2>1, <2>2, <2>3, NameKept, ServedKept
<1>3. HolderInv'
  BY BucketsAssumption DEF IInv, HolderInv, Local, Untouched
<1>4. DeletionInv'
  <2> SUFFICES ASSUME NEW u \in Tasks, pc'[u] \in Deleting,
                      \A v \in Tasks \ {u} : ~(op'[v] = "delete" /\ id'[v] = id'[u] /\ pc'[v] # "idle")
               PROVE  map'[id'[u]] = ref'[u]
    BY DEF DeletionInv
  <2>1. \A i \in Ids \ {id'[t]} : map'[i] = map[i]
    BY DEF Local, OnlyName, NameSame
  <2>2. \A v \in Tasks : op[v] = "delete" /\ pc[v] # "idle" =>
                            op'[v] = "delete" /\ id'[v] = id[v] /\ pc'[v] # "idle"
    BY DEF Local, Untouched
  <2>3. id'[u] \in Ids
    BY DEF Typed, TypeOK
  <2>4. CASE u = t
    <3>1. CASE map'[id'[t]] = ref'[t]
      BY <2>4, <3>1
    <3>2. CASE pc[t] \in Deleting /\ ref'[t] = ref[t]
      <4>1. op[t] = "delete" /\ pc[t] # "idle" /\ ref[t] \in Bucket
        BY <1>1, <3>2 DEF Typed, TaskInv, AtStep, Deleting, Looked
      <4>2. id'[t] = id[t]
        BY <4>1 DEF Local
      <4>3. map[id[t]] = ref[t]
        BY <2>2, <2>4, <3>2, <4>2 DEF IInv, DeletionInv
      <4>4. map'[id'[t]] = map[id'[t]]
        BY AbsentAssumption, <2>4, <4>1, <4>2, <4>3 DEF Local
      <4> QED
        BY <2>4, <3>2, <4>2, <4>3, <4>4
    <3> QED
      BY <2>4, <3>1, <3>2 DEF Local
  <2>5. CASE u # t
    <3>1. pc[u] \in Deleting /\ id'[u] = id[u] /\ ref'[u] = ref[u]
      BY <2>5 DEF Local, Untouched
    <3>2. map[id[u]] = ref[u]
      BY <2>2, <3>1 DEF IInv, DeletionInv
    <3>3. ref[u] \in Bucket
      BY <1>1, <3>1 DEF Typed, TaskInv, AtStep, Looked
    <3>4. CASE id[u] # id'[t]
      BY <2>1, <2>3, <3>1, <3>2, <3>4
    <3>5. CASE id[u] = id'[t]
      <4>1. ~(pc[t] \in Deleting /\ pc'[t] \notin Deleting)
        <5> SUFFICES ASSUME pc[t] \in Deleting PROVE FALSE
          OBVIOUS
        <5>1. op[t] = "delete" /\ pc[t] # "idle"
          BY <1>1 DEF Typed, TaskInv, AtStep, Deleting
        <5>2. op'[t] = "delete" /\ id'[t] = id[t] /\ pc'[t] # "idle"
          BY <2>2, <5>1
        <5> QED
          BY <2>5, <3>1, <3>5, <5>2
      <4> QED
        BY <3>1, <3>2, <3>3, <3>5, <4>1, AbsentAssumption DEF Local
    <3> QED
      BY <3>4, <3>5
  <2> QED
    BY <2>4, <2>5
<1> QED
  BY <1>2, <1>3, <1>4

-----------------------------------------------------------------------------
(* A step of a task and its own name. *)

Keeps(t, j) ==
    /\ id'[t] = j /\ Local(t)
    /\ j \notin mixed' => NameInv(j)'
    /\ j \notin mixed' \cup scanned' => ServedInv(j)'

LEMMA KeepsStep ==
    ASSUME IInv, Typed', NEW t \in Tasks, NEW j \in Ids, Keeps(t, j), Grows
    PROVE  IInv'
<1>1. id'[t] = j /\ Local(t)
  BY DEF Keeps
<1>2. /\ DeletionInv' /\ HolderInv'
      /\ \A i \in Ids \ {j} : i \notin mixed' => NameInv(i)'
      /\ \A i \in Ids \ {j} : i \notin mixed' \cup scanned' => ServedInv(i)'
  BY <1>1, LocalStep
<1>3. NamesInv'
  BY <1>2 DEF Keeps, NamesInv
<1>4. AllServed'
  BY <1>2 DEF Keeps, AllServed
<1> QED
  BY <1>2, <1>3, <1>4 DEF IInv, Typed

LEMMA HistoryGrows ==
    ASSUME History
    PROVE  /\ Grows
           /\ \A i \in Ids : i \notin mixed' => i \notin mixed /\ ~Overlapping(i)'
           /\ \A i \in Ids : i \notin scanned' => i \notin scanned /\ ~ScanOverlapping(i)'
  BY DEF History, Grows

\* Before it works on a name, and when it no longer does, a task changes nothing.
LEMMA IdleStep ==
    ASSUME IInv, Typed', NEW t \in Tasks, NEW j \in Ids, id'[t] = j, Grows, Untouched(t),
           UNCHANGED <<map, bucket, dir, lock, stored, holder>>,
           pc[t] \notin Working, pc'[t] \notin Working \cup {"idle"},
           pc[t] # "idle" /\ op[t] = "delete" => op'[t] = "delete" /\ id'[t] = id[t]
    PROVE  Keeps(t, j)
<1>1. ASSUME NEW i \in Ids PROVE NameSame(i) /\ CrewSame(i)
  BY DEF NameSame, CrewSame, WorkingOn, Untouched
<1>2. Local(t)
  BY <1>1 DEF Local, OnlyName, Working, Deleting
<1>3. Typed
  BY DEF IInv, Typed
<1>4. j \notin mixed' => NameInv(j)'
  BY <1>1, <1>3, NameKept DEF Grows, IInv, NamesInv
<1>5. j \notin mixed' \cup scanned' => ServedInv(j)'
  BY <1>1, <1>3, ServedKept DEF Grows, IInv, NamesInv, AllServed
<1> QED
  BY <1>2, <1>4, <1>5 DEF Keeps

LEMMA WorkingOps ==
    ASSUME Typed, NEW t \in Tasks, pc[t] \in Working
    PROVE  /\ op[t] \in Finders \cup {"configure", "delete", "repair"}
           /\ op[t] \in Finders => pc[t] \in Opening \cup {"readConfig", "gotConfig", "storeEmpty",
                                       "storedEmpty", "openFailed", "purge", "created"}
  BY DEF Typed, TaskInv, AtStep, Working, Deleting, Repairing, Opening, Finders

LEMMA OthersFind ==
    ASSUME Typed, NEW j \in Ids, ~Overlapping(j), NEW t \in WorkingOn(j), NEW u \in WorkingOn(j), t # u
    PROVE  op[t] \in Finders /\ op[u] \in Finders
<1>1. t \in Tasks /\ pc[t] \in Working /\ u \in Tasks /\ pc[u] \in Working
  BY DEF WorkingOn
<1>2. op[t] \notin {"configure", "delete", "repair"} /\ op[u] \notin {"configure", "delete", "repair"}
  BY DEF Overlapping
<1> QED
  BY <1>1, <1>2, WorkingOps

\* No two tasks are at work on a name that no scan has disturbed.
LEMMA Alone ==
    ASSUME Typed, HolderInv, NEW j \in Ids, ~Overlapping(j), ~ScanOverlapping(j),
           NEW t \in WorkingOn(j), NEW u \in WorkingOn(j)
    PROVE  t = u
<1> SUFFICES ASSUME t # u PROVE FALSE
  OBVIOUS
<1>1. op[t] \in Finders /\ op[u] \in Finders
  BY OthersFind
<1>2. op[t] \notin {"read", "event"} /\ op[u] \notin {"read", "event"}
  BY DEF ScanOverlapping
<1>3. op[t] = "write" /\ op[u] = "write"
  BY <1>1, <1>2 DEF Finders
<1> QED
  BY <1>3 DEF HolderInv, WorkingOn

Rest(j, t, S) == \E u \in WorkingOn(j) \ {t} : pc[u] \in S

\* The crew of a name after a step of one of it.
LEMMA CrewAfter ==
    ASSUME NEW t \in Tasks, NEW j, id'[t] = j, Untouched(t)
    PROVE  /\ \A u \in WorkingOn(j)' : u # t => u \in WorkingOn(j)
           /\ \A u \in WorkingOn(j) : u # t => u \in WorkingOn(j)'
           /\ t \in WorkingOn(j)' <=> pc'[t] \in Working
           /\ \A u \in WorkingOn(j) : u # t => /\ pc'[u] = pc[u] /\ op'[u] = op[u] /\ ref'[u] = ref[u]
                                               /\ cfg'[u] = cfg[u] /\ source'[u] = source[u]
           /\ \A S : At(j, S)' <=> (pc'[t] \in Working /\ pc'[t] \in S) \/ Rest(j, t, S)
  BY DEF WorkingOn, Untouched, At, Rest

LEMMA CrewBefore ==
    ASSUME NEW j, NEW t \in WorkingOn(j)
    PROVE  \A S : At(j, S) <=> pc[t] \in S \/ Rest(j, t, S)
  BY DEF At, Rest

\* A step of a task at work on an undisturbed name.
LEMMA OwnName ==
    ASSUME Typed, NEW t \in Tasks, NEW j \in Ids, NameInv(j), ~Overlapping(j)',
           Untouched(t), id'[t] = j, NEW b \in Bucket, map[j] = b, map'[j] = b,
           \A c \in Bucket \ {b} : c[1] = j => bucket'[c] = bucket[c],
           pc'[t] \in Looked => ref'[t] = b,
           pc'[t] \in Working =>
              /\ Achieved(pc'[t], op'[t], source'[t], cfg'[t], bucket'[b], stored'[j], j \in dir')
              /\ FoundNone(pc'[t], op'[t], source'[t], cfg'[t], bucket'[b], stored'[j]),
           \A u \in WorkingOn(j) \ {t} :
              /\ Achieved(pc[u], op[u], source[u], cfg[u], bucket'[b], stored'[j], j \in dir')
              /\ FoundNone(pc[u], op[u], source[u], cfg[u], bucket'[b], stored'[j]),
           Locked(j)', Agreed(j)', Opened(j)'
    PROVE  NameInv(j)'
<1>1. /\ \A u \in WorkingOn(j)' : u # t => u \in WorkingOn(j)
      /\ t \in WorkingOn(j)' <=> pc'[t] \in Working
      /\ \A u \in WorkingOn(j) : u # t => /\ pc'[u] = pc[u] /\ op'[u] = op[u] /\ ref'[u] = ref[u]
                                          /\ cfg'[u] = cfg[u] /\ source'[u] = source[u]
  BY CrewAfter
<1>2. Bound(j)'
  BY <1>1 DEF NameInv, Bound
<1>3. Absent(j)'
  BY AbsentAssumption DEF Absent
<1>4. Progress(j)'
  BY <1>1 DEF Progress
<1> QED
  BY <1>2, <1>3, <1>4 DEF NameInv

\* What is known of a task at work on an undisturbed name.
LEMMA OwnFacts ==
    ASSUME IInv, NEW t \in Tasks, pc[t] \in Working, id[t] \notin mixed
    PROVE  /\ id[t] \in Ids /\ t \in WorkingOn(id[t]) /\ NameInv(id[t])
           /\ map[id[t]] \in Bucket /\ map[id[t]] # NoBucket /\ map[id[t]][1] = id[t]
           /\ bucket[map[id[t]]] \in Fields
           /\ pc[t] \in Looked => ref[t] = map[id[t]]
           /\ Achieved(pc[t], op[t], source[t], cfg[t], bucket[map[id[t]]], stored[id[t]], id[t] \in dir)
           /\ FoundNone(pc[t], op[t], source[t], cfg[t], bucket[map[id[t]]], stored[id[t]])
           /\ \A u \in WorkingOn(id[t]) \ {t} :
                 /\ op[t] \in Finders /\ op[u] \in Finders
                 /\ pc[u] \in Opening \cup {"readConfig", "gotConfig", "storeEmpty",
                                            "storedEmpty", "openFailed", "purge", "created"}
                 /\ Achieved(pc[u], op[u], source[u], cfg[u], bucket[map[id[t]]], stored[id[t]], id[t] \in dir)
                 /\ FoundNone(pc[u], op[u], source[u], cfg[u], bucket[map[id[t]]], stored[id[t]])
<1> DEFINE j == id[t]
<1>1. Typed /\ j \in Ids
  BY DEF IInv, Typed, TypeOK
<1>2. t \in WorkingOn(j) /\ NameInv(j)
  BY <1>1 DEF WorkingOn, IInv, NamesInv
<1>3. map[j] \in Bucket /\ (pc[t] \in Looked => ref[t] = map[j])
  BY <1>2 DEF NameInv, Bound
<1>4. map[j] # NoBucket /\ map[j][1] = j /\ bucket[map[j]] \in Fields
  BY <1>1, <1>3, AbsentAssumption DEF Typed, TypeOK, ObjectInv
<1>5. \A u \in WorkingOn(j) :
         /\ Achieved(pc[u], op[u], source[u], cfg[u], bucket[map[j]], stored[j], j \in dir)
         /\ FoundNone(pc[u], op[u], source[u], cfg[u], bucket[map[j]], stored[j])
  BY <1>2 DEF NameInv, Progress
<1>6. ASSUME NEW u \in WorkingOn(j) \ {t}
      PROVE  /\ op[t] \in Finders /\ op[u] \in Finders
             /\ pc[u] \in Opening \cup {"readConfig", "gotConfig", "storeEmpty",
                                        "storedEmpty", "openFailed", "purge", "created"}
  <2>1. op[t] \in Finders /\ op[u] \in Finders
    BY <1>1, <1>2, OthersFind DEF NameInv
  <2>2. u \in Tasks /\ pc[u] \in Working
    BY DEF WorkingOn
  <2> QED
    BY <1>1, <2>1, <2>2, WorkingOps
<1> QED
  BY <1>1, <1>2, <1>3, <1>4, <1>5, <1>6

\* A step of the only task at work on a name that no scan has disturbed either.
LEMMA OwnServed ==
    ASSUME NEW t \in Tasks, NEW j \in Ids, ~ScanOverlapping(j)',
           \A u \in WorkingOn(j) : u = t, Untouched(t), id'[t] = j,
           NEW b \in Bucket, map'[j] = b,
           pc'[t] \in {"mkdir", "openDb"} => bucket'[b].db # "open",
           pc'[t] = "openFailed" => bucket'[b].isDeleting,
           bucket'[b].isOpen =>
              \/ bucket'[b].db = "open" \/ bucket'[b].config.disabled \/ bucket'[b].isDeleting
              \/ pc'[t] \in Working /\ op'[t] # "write"
    PROVE  ServedInv(j)'
<1>1. \A u \in WorkingOn(j)' : u = t
  BY CrewAfter
<1>2. t \in WorkingOn(j)' <=> pc'[t] \in Working
  BY CrewAfter
<1> QED
  BY <1>1, <1>2 DEF ServedInv

LEMMA AloneNow ==
    ASSUME IInv, NEW t \in Tasks, pc[t] \in Working, id[t] \notin mixed \cup scanned
    PROVE  /\ \A u \in WorkingOn(id[t]) : u = t
           /\ ServedInv(id[t])
<1>1. Typed /\ HolderInv /\ id[t] \in Ids /\ t \in WorkingOn(id[t])
  BY DEF IInv, Typed, TypeOK, WorkingOn
<1>2. NameInv(id[t]) /\ ServedInv(id[t])
  BY <1>1 DEF IInv, NamesInv, AllServed
<1> QED
  BY <1>1, <1>2, Alone DEF NameInv, ServedInv

\* A name in the hands of one configuration, deletion or repair.
SoloSteps == {"storeConfig", "storedConfig", "closeToRepair", "repairAndOpen"}

LEMMA SoloBefore ==
    ASSUME Typed, NEW j \in Ids, NameInv(j), NEW t \in WorkingOn(j), \A u \in WorkingOn(j) : u = t,
           op[t] \notin Finders, map[j] # NoBucket
    PROVE  LET r == bucket[map[j]] IN
           /\ lock[j] = IF r.db # "none" \/ pc[t] = "openMeta" THEN map[j] ELSE NoBucket
           /\ r.db = "open" => j \in dir /\ ~r.isDeleting /\ ~r.config.disabled
           /\ stored[j] = r.config \/ pc[t] \in {"storeConfig", "storedConfig", "unmap"}
           /\ \/ r.config.disabled \/ r.isDeleting \/ r.db = "open"
              \/ pc[t] \in Opening \cup SoloSteps
<1> DEFINE r == bucket[map[j]]
<1>1. \A S : At(j, S) <=> pc[t] \in S
  BY DEF At
<1>2. pc[t] \notin {"readConfig", "gotConfig"}
  BY DEF Typed, TaskInv, AtStep, WorkingOn
<1>3. /\ lock[j] = IF r.db # "none" \/ pc[t] = "openMeta" THEN map[j] ELSE NoBucket
      /\ r.db = "open" => j \in dir /\ ~r.isDeleting /\ ~r.config.disabled
  BY <1>1 DEF NameInv, Locked
<1>4. stored[j] = r.config \/ pc[t] \in {"storeConfig", "storedConfig", "unmap"}
  BY <1>1, <1>2 DEF NameInv, Agreed
<1>5. \/ r.config.disabled \/ r.isDeleting \/ r.db = "open"
      \/ pc[t] \in Opening \cup SoloSteps
  BY <1>1, <1>2 DEF NameInv, Opened, SoloSteps
<1> QED
  BY <1>3, <1>4, <1>5

LEMMA SoloName ==
    ASSUME Typed, NEW t \in Tasks, NEW j \in Ids, NameInv(j), ~Overlapping(j)',
           Untouched(t), id'[t] = j, NEW b \in Bucket, map[j] = b, map'[j] = b,
           \A u \in WorkingOn(j) : u = t,
           \A c \in Bucket \ {b} : c[1] = j => bucket'[c] = bucket[c],
           pc'[t] \in Looked => ref'[t] = b,
           pc'[t] \in Working =>
              /\ Achieved(pc'[t], op'[t], source'[t], cfg'[t], bucket'[b], stored'[j], j \in dir')
              /\ FoundNone(pc'[t], op'[t], source'[t], cfg'[t], bucket'[b], stored'[j]),
           lock'[j] = IF bucket'[b].db # "none" \/ pc'[t] = "openMeta" THEN b ELSE NoBucket,
           bucket'[b].db = "open" =>
              j \in dir' /\ ~bucket'[b].isDeleting /\ ~bucket'[b].config.disabled,
           stored'[j] = bucket'[b].config \/ pc'[t] \in {"storeConfig", "storedConfig", "unmap"},
           \/ bucket'[b].config.disabled \/ bucket'[b].isDeleting \/ bucket'[b].db = "open"
           \/ pc'[t] \in Opening \cup SoloSteps
    PROVE  NameInv(j)'
<1>1. /\ \A u \in WorkingOn(j)' : u = t
      /\ t \in WorkingOn(j)' <=> pc'[t] \in Working
  BY CrewAfter
<1>2. \A S : At(j, S)' <=> pc'[t] \in Working /\ pc'[t] \in S
  BY <1>1 DEF At
<1>3. Opening \cup SoloSteps \cup {"unmap"} \subseteq Working
  BY DEF Opening, SoloSteps, Working
<1>4. Locked(j)'
  BY <1>1, <1>2, <1>3 DEF Locked, Opening
<1>5. Agreed(j)'
  BY <1>2, <1>3 DEF Agreed, SoloSteps
<1>6. Opened(j)'
  BY <1>2, <1>3 DEF Opened, SoloSteps
<1> QED
  BY <1>4, <1>5, <1>6, OwnName

\* The steps of a deletion.
LEMMA RefuseDeleteStep ==
    ASSUME IInv, Typed', NEW t \in Tasks, RefuseDelete(t), History
    PROVE  Keeps(t, id[t])
<1> DEFINE j == id[t]
           b == map[j]
<1>1. /\ pc[t] = "refused" /\ pc'[t] = "failed" /\ Untouched(t) /\ id'[t] = j /\ j \in Ids
      /\ UNCHANGED <<map, bucket, holder, op, ref, cfg, source, dir, lock, stored>>
  BY DEF RefuseDelete, Goto, others, semVars, Untouched, IInv, TypeOK
<1>2. Local(t)
  BY <1>1 DEF Local, OnlyName, NameSame, Working, Deleting
<1>3. op[t] = "delete" /\ pc[t] \in Working /\ pc'[t] \notin Working \cup Looked
  BY <1>1 DEF IInv, TaskInv, AtStep, Deleting, Repairing, Opening, Looked, Working
<1>4. ASSUME j \notin mixed
      PROVE  /\ NameInv(j) /\ b \in Bucket /\ b # NoBucket /\ t \in WorkingOn(j)
             /\ \A u \in WorkingOn(j) : u = t
             /\ bucket[b].isDeleting /\ bucket[b].db = "none"
  BY <1>1, <1>3, <1>4, OwnFacts DEF Achieved, Deleting, Finders
<1>5. ASSUME j \notin mixed' PROVE NameInv(j)'
  <2>1. Typed /\ j \notin mixed /\ ~Overlapping(j)'
    BY <1>1, <1>5, HistoryGrows DEF IInv, Typed
  <2>2. /\ lock[j] = IF bucket[b].db # "none" THEN b ELSE NoBucket
        /\ stored[j] = bucket[b].config
    BY <1>1, <1>3, <1>4, <2>1, SoloBefore DEF Finders
  <2> HIDE DEF b
  <2> QED
    BY <1>1, <1>3, <1>4, <2>1, <2>2, SoloName DEF b
<1>6. ASSUME j \notin mixed' \cup scanned' PROVE ServedInv(j)'
  <2>1. j \notin mixed \cup scanned /\ ~ScanOverlapping(j)'
    BY <1>1, <1>6, HistoryGrows
  <2> QED
    BY <1>1, <1>4, <2>1, OwnServed
<1> QED
  BY <1>1, <1>2, <1>5, <1>6 DEF Keeps

LEMMA RmStep ==
    ASSUME IInv, Typed', NEW t \in Tasks, Rm(t), History
    PROVE  Keeps(t, id[t])
<1> DEFINE j == id[t]
           b == map[j]
<1>1. /\ pc[t] = "rm" /\ pc'[t] = "rmdir" /\ Untouched(t) /\ id'[t] = j /\ j \in Ids
      /\ dir' = dir \ {j} /\ op'[t] = op[t]
      /\ UNCHANGED <<map, bucket, holder, op, ref, cfg, source, lock, stored>>
  BY DEF Rm, Goto, semVars, Untouched, IInv, TypeOK
<1>2. Local(t)
  BY <1>1 DEF Local, OnlyName, NameSame, Working, Deleting, IInv, HolderInv
<1>3. op[t] = "delete" /\ pc[t] \in Working /\ pc[t] \in Looked /\ pc'[t] \in Working
  BY <1>1 DEF IInv, TaskInv, AtStep, Deleting, Repairing, Opening, Looked, Working
<1>4. ASSUME j \notin mixed
      PROVE  /\ NameInv(j) /\ b \in Bucket /\ b # NoBucket /\ t \in WorkingOn(j) /\ ref[t] = b
             /\ \A u \in WorkingOn(j) : u = t
             /\ bucket[b].isDeleting /\ bucket[b].db = "none"
  BY <1>1, <1>3, <1>4, OwnFacts DEF Achieved, Deleting, Finders
<1>5. ASSUME j \notin mixed' PROVE NameInv(j)'
  <2>1. Typed /\ j \notin mixed /\ ~Overlapping(j)'
    BY <1>1, <1>5, HistoryGrows DEF IInv, Typed
  <2>2. /\ lock[j] = IF bucket[b].db # "none" THEN b ELSE NoBucket
        /\ stored[j] = bucket[b].config
    BY <1>1, <1>3, <1>4, <2>1, SoloBefore DEF Finders
  <2>3. Achieved(pc'[t], op'[t], source'[t], cfg'[t], bucket'[b], stored'[j], j \in dir')
    BY <1>1, <1>4, <2>1 DEF Achieved, Opening, Deleting
  <2>4. FoundNone(pc'[t], op'[t], source'[t], cfg'[t], bucket'[b], stored'[j])
    BY <1>1 DEF FoundNone, Opening
  <2> HIDE DEF b
  <2> QED
    BY <1>1, <1>3, <1>4, <2>1, <2>2, <2>3, <2>4, SoloName DEF b
<1>6. ASSUME j \notin mixed' \cup scanned' PROVE ServedInv(j)'
  <2>1. j \notin mixed \cup scanned /\ ~ScanOverlapping(j)'
    BY <1>1, <1>6, HistoryGrows
  <2> QED
    BY <1>1, <1>4, <2>1, OwnServed
<1> QED
  BY <1>1, <1>2, <1>5, <1>6 DEF Keeps

LEMMA RmdirStep ==
    ASSUME IInv, Typed', NEW t \in Tasks, Rmdir(t), History
    PROVE  Keeps(t, id[t])
<1> DEFINE j == id[t]
           b == map[j]
<1>1. /\ pc[t] = "rmdir" /\ pc'[t] = "unconfigure" /\ Untouched(t) /\ id'[t] = j /\ j \in Ids
      /\ UNCHANGED <<map, bucket, holder, op, ref, cfg, source, lock, dir, stored>>
  BY DEF Rmdir, Goto, semVars, Untouched, IInv, TypeOK
<1>2. Local(t)
  BY <1>1 DEF Local, OnlyName, NameSame, Working, Deleting, IInv, HolderInv
<1>3. op[t] = "delete" /\ pc[t] \in Working /\ pc[t] \in Looked /\ pc'[t] \in Working
  BY <1>1 DEF IInv, TaskInv, AtStep, Deleting, Repairing, Opening, Looked, Working
<1>4. ASSUME j \notin mixed
      PROVE  /\ NameInv(j) /\ b \in Bucket /\ b # NoBucket /\ t \in WorkingOn(j) /\ ref[t] = b
             /\ \A u \in WorkingOn(j) : u = t
             /\ bucket[b].isDeleting /\ bucket[b].db = "none" /\ j \notin dir
  BY <1>1, <1>3, <1>4, OwnFacts DEF Achieved, Deleting, Finders
<1>5. ASSUME j \notin mixed' PROVE NameInv(j)'
  <2>1. Typed /\ j \notin mixed /\ ~Overlapping(j)'
    BY <1>1, <1>5, HistoryGrows DEF IInv, Typed
  <2>2. /\ lock[j] = IF bucket[b].db # "none" THEN b ELSE NoBucket
        /\ stored[j] = bucket[b].config
    BY <1>1, <1>3, <1>4, <2>1, SoloBefore DEF Finders
  <2>3. Achieved(pc'[t], op'[t], source'[t], cfg'[t], bucket'[b], stored'[j], j \in dir')
    BY <1>1, <1>4, <2>1 DEF Achieved, Opening, Deleting
  <2>4. FoundNone(pc'[t], op'[t], source'[t], cfg'[t], bucket'[b], stored'[j])
    BY <1>1 DEF FoundNone, Opening
  <2> HIDE DEF b
  <2> QED
    BY <1>1, <1>3, <1>4, <2>1, <2>2, <2>3, <2>4, SoloName DEF b
<1>6. ASSUME j \notin mixed' \cup scanned' PROVE ServedInv(j)'
  <2>1. j \notin mixed \cup scanned /\ ~ScanOverlapping(j)'
    BY <1>1, <1>6, HistoryGrows
  <2> QED
    BY <1>1, <1>4, <2>1, OwnServed
<1> QED
  BY <1>1, <1>2, <1>5, <1>6 DEF Keeps

LEMMA UnconfigureStep ==
    ASSUME IInv, Typed', NEW t \in Tasks, Unconfigure(t), History
    PROVE  Keeps(t, id[t])
<1> DEFINE j == id[t]
           b == map[j]
<1>1. /\ pc[t] = "unconfigure" /\ pc'[t] = "unmap" /\ Untouched(t) /\ id'[t] = j /\ j \in Ids
      /\ stored' = [stored EXCEPT ![j] = NoConfig] /\ stored'[j] = NoConfig
      /\ UNCHANGED <<map, bucket, holder, op, ref, cfg, source, lock, dir>>
  BY DEF Unconfigure, Goto, semVars, Untouched, IInv, TypeOK
<1>2. Local(t)
  BY <1>1 DEF Local, OnlyName, NameSame, Working, Deleting, IInv, HolderInv, TypeOK
<1>3. op[t] = "delete" /\ pc[t] \in Working /\ pc[t] \in Looked /\ pc'[t] \in Working
  BY <1>1 DEF IInv, TaskInv, AtStep, Deleting, Repairing, Opening, Looked, Working
<1>4. ASSUME j \notin mixed
      PROVE  /\ NameInv(j) /\ b \in Bucket /\ b # NoBucket /\ t \in WorkingOn(j) /\ ref[t] = b
             /\ \A u \in WorkingOn(j) : u = t
             /\ bucket[b].isDeleting /\ bucket[b].db = "none" /\ j \notin dir
  BY <1>1, <1>3, <1>4, OwnFacts DEF Achieved, Deleting, Finders
<1>5. ASSUME j \notin mixed' PROVE NameInv(j)'
  <2>1. Typed /\ j \notin mixed /\ ~Overlapping(j)'
    BY <1>1, <1>5, HistoryGrows DEF IInv, Typed
  <2>2. lock[j] = IF bucket[b].db # "none" THEN b ELSE NoBucket
    BY <1>1, <1>3, <1>4, <2>1, SoloBefore DEF Finders
  <2>3. Achieved(pc'[t], op'[t], source'[t], cfg'[t], bucket'[b], stored'[j], j \in dir')
    BY <1>1, <1>4, <2>1 DEF Achieved, Opening, Deleting
  <2>4. FoundNone(pc'[t], op'[t], source'[t], cfg'[t], bucket'[b], stored'[j])
    BY <1>1 DEF FoundNone, Opening
  <2> HIDE DEF b
  <2> QED
    BY <1>1, <1>3, <1>4, <2>1, <2>2, <2>3, <2>4, SoloName DEF b
<1>6. ASSUME j \notin mixed' \cup scanned' PROVE ServedInv(j)'
  <2>1. j \notin mixed \cup scanned /\ ~ScanOverlapping(j)'
    BY <1>1, <1>6, HistoryGrows
  <2> QED
    BY <1>1, <1>4, <2>1, OwnServed
<1> QED
  BY <1>1, <1>2, <1>5, <1>6 DEF Keeps

LEMMA UnmapStep ==
    ASSUME IInv, Typed', NEW t \in Tasks, Unmap(t), History
    PROVE  Keeps(t, id[t])
<1> DEFINE j == id[t]
           b == map[j]
<1>1. /\ pc[t] = "unmap" /\ pc'[t] = "done" /\ Untouched(t) /\ id'[t] = j /\ j \in Ids
      /\ map' = [map EXCEPT ![j] = NoBucket] /\ map'[j] = NoBucket
      /\ UNCHANGED <<bucket, holder, op, ref, cfg, source, lock, dir, stored>>
  BY DEF Unmap, Goto, semVars, others, Untouched, IInv, TypeOK
<1>2. Local(t)
  BY <1>1 DEF Local, OnlyName, NameSame, Working, Deleting, IInv, HolderInv, TypeOK
<1>3. op[t] = "delete" /\ pc[t] \in Working /\ pc[t] \in Looked /\ pc'[t] \notin Working
  BY <1>1 DEF IInv, TaskInv, AtStep, Deleting, Repairing, Opening, Looked, Working
<1>4. ASSUME j \notin mixed
      PROVE  /\ NameInv(j) /\ b \in Bucket /\ b # NoBucket /\ t \in WorkingOn(j)
             /\ \A u \in WorkingOn(j) : u = t
             /\ bucket[b].db = "none" /\ j \notin dir /\ stored[j] = NoConfig
  BY <1>1, <1>3, <1>4, OwnFacts DEF Achieved, Deleting, Finders
<1>5. \A u \in WorkingOn(j)' : u # t /\ u \in WorkingOn(j)
  BY <1>1, <1>3, CrewAfter
<1>6. ASSUME j \notin mixed' PROVE NameInv(j)'
  <2>1. Typed /\ j \notin mixed /\ ~Overlapping(j)'
    BY <1>1, <1>6, HistoryGrows DEF IInv, Typed
  <2>2. lock[j] = NoBucket
    BY <1>1, <1>3, <1>4, <2>1, SoloBefore DEF Finders
  <2>3. WorkingOn(j)' = {}
    BY <1>4, <1>5, <2>1
  <2>4. Bound(j)'
    BY <1>1, <1>4, <2>1, <2>3 DEF NameInv, Bound
  <2>5. Absent(j)'
    BY <1>1, <1>4, <2>1, <2>2 DEF Absent
  <2> QED
    BY <1>1, <2>1, <2>3, <2>4, <2>5 DEF NameInv, Locked, Progress, Agreed, Opened
<1>7. ASSUME j \notin mixed' \cup scanned' PROVE ServedInv(j)'
  <2>1. j \notin mixed \cup scanned /\ ~ScanOverlapping(j)'
    BY <1>1, <1>7, HistoryGrows
  <2> QED
    BY <1>1, <1>4, <1>5, <2>1 DEF ServedInv
<1> QED
  BY <1>1, <1>2, <1>6, <1>7 DEF Keeps

-----------------------------------------------------------------------------
(* A name in the hands of one task or of several finders. *)

FinderSteps == Opening \cup {"readConfig", "gotConfig", "storeEmpty", "storedEmpty",
                             "openFailed", "purge", "created"}

\* What the state of a name owes to task t at step p, with operation o, and to the finders
\* besides it: b is the bucket of the map and r its record, st the stored configuration, d
\* whether it has a folder, l the lock.
Shared(j, t, p, o, b, r, st, d, l) ==
    /\ l = IF r.db # "none" \/ p = "openMeta" \/ Rest(j, t, {"openMeta"}) THEN b ELSE NoBucket
    /\ r.db = "open" => d /\ ~r.isDeleting /\ ~r.config.disabled
    /\ p = "openMeta" => ~Rest(j, t, {"openMeta"})
    /\ \/ st = r.config
       \/ p \in {"storeConfig", "storedConfig", "unmap"}
       \/ /\ r.config = EmptyConfig /\ ~r.isDeleting /\ r.db # "closing" /\ st = NoConfig
          /\ \/ o \in Finders /\ p \in Finding(r.db)
             \/ Rest(j, t, Finding(r.db))
       \/ /\ r.config = EmptyConfig /\ ~r.isDeleting /\ r.db = "none"
          /\ st # NoConfig /\ st.disabled
          /\ p \in {"readConfig", "gotConfig"} \/ (p \notin Working /\ WorkingOn(j) \ {t} # {})
          /\ \A u \in WorkingOn(j) \ {t} : pc[u] \in {"readConfig", "gotConfig"}
    /\ \/ r.config.disabled \/ r.isDeleting \/ r.db = "open"
       \/ p \in Opening \cup SoloSteps \/ Rest(j, t, Opening)
       \/ /\ p \in {"readConfig", "gotConfig"} \/ Rest(j, t, {"readConfig", "gotConfig"})
          /\ st # r.config

LEMMA SharedBefore ==
    ASSUME Typed, NEW j \in Ids, NameInv(j), map[j] # NoBucket, NEW t \in Tasks, NEW p,
           \/ t \in WorkingOn(j) /\ p = pc[t]
           \/ t \notin WorkingOn(j) /\ p = "idle",
           \A u \in WorkingOn(j) \ {t} : op[u] \in Finders /\ pc[u] \in FinderSteps
    PROVE  Shared(j, t, p, op[t], map[j], bucket[map[j]], stored[j], j \in dir, lock[j])
<1> DEFINE r == bucket[map[j]]
           st == stored[j]
<1>1. \A S : At(j, S) => p \in S \/ Rest(j, t, S)
  BY DEF At, Rest
<1>2. At(j, {"openMeta"}) <=> p = "openMeta" \/ Rest(j, t, {"openMeta"})
  BY DEF At, Rest
<1>3. ~Rest(j, t, SoloSteps) /\ ~Rest(j, t, {"storeConfig", "storedConfig"}) /\ ~Rest(j, t, {"unmap"})
  BY DEF Rest, SoloSteps, FinderSteps, Opening
<1>4. p \in Working <=> t \in WorkingOn(j)
  BY DEF WorkingOn, Working
<1>5. /\ lock[j] = IF r.db # "none" \/ p = "openMeta" \/ Rest(j, t, {"openMeta"}) THEN map[j] ELSE NoBucket
      /\ r.db = "open" => j \in dir /\ ~r.isDeleting /\ ~r.config.disabled
  BY <1>2 DEF NameInv, Locked
<1>6. p = "openMeta" => ~Rest(j, t, {"openMeta"})
  BY DEF NameInv, Locked, Rest
<1>7. \/ st = r.config
      \/ p \in {"storeConfig", "storedConfig", "unmap"}
      \/ /\ r.config = EmptyConfig /\ ~r.isDeleting /\ r.db # "closing" /\ st = NoConfig
         /\ \/ op[t] \in Finders /\ p \in Finding(r.db)
            \/ Rest(j, t, Finding(r.db))
      \/ /\ r.config = EmptyConfig /\ ~r.isDeleting /\ r.db = "none"
         /\ st # NoConfig /\ st.disabled
         /\ p \in {"readConfig", "gotConfig"} \/ (p \notin Working /\ WorkingOn(j) \ {t} # {})
         /\ \A u \in WorkingOn(j) \ {t} : pc[u] \in {"readConfig", "gotConfig"}
  <2>1. CASE st = r.config \/ At(j, {"storeConfig", "storedConfig"}) \/ At(j, {"unmap"})
    BY <1>1, <1>3, <2>1
  <2>2. CASE /\ r.config = EmptyConfig /\ ~r.isDeleting /\ r.db # "closing" /\ st = NoConfig
             /\ \E u \in WorkingOn(j) : op[u] \in Finders /\ pc[u] \in Finding(r.db)
    BY <2>2 DEF Rest
  <2>3. CASE /\ r.config = EmptyConfig /\ ~r.isDeleting /\ r.db = "none"
             /\ st # NoConfig /\ st.disabled /\ WorkingOn(j) # {}
             /\ \A u \in WorkingOn(j) : pc[u] \in {"readConfig", "gotConfig"}
    <3>1. p \in {"readConfig", "gotConfig"} \/ (p \notin Working /\ WorkingOn(j) \ {t} # {})
      BY <1>4, <2>3
    <3> QED
      BY <2>3, <3>1
  <2> QED
    BY <2>1, <2>2, <2>3 DEF NameInv, Agreed
<1>8. \/ r.config.disabled \/ r.isDeleting \/ r.db = "open"
      \/ p \in Opening \cup SoloSteps \/ Rest(j, t, Opening)
      \/ /\ p \in {"readConfig", "gotConfig"} \/ Rest(j, t, {"readConfig", "gotConfig"})
         /\ st # r.config
  <2>1. At(j, Opening \cup {"storeConfig", "storedConfig", "closeToRepair", "repairAndOpen"})
           => p \in Opening \cup SoloSteps \/ Rest(j, t, Opening)
    BY <1>1, <1>3 DEF SoloSteps, Rest
  <2> QED
    BY <1>1, <2>1 DEF NameInv, Opened
<1> QED
  BY <1>5, <1>6, <1>7, <1>8 DEF Shared

LEMMA SharedName ==
    ASSUME Typed, NEW t \in Tasks, NEW j \in Ids, NameInv(j), ~Overlapping(j)',
           Untouched(t), id'[t] = j, NEW b \in Bucket, map[j] = b, map'[j] = b,
           \A c \in Bucket \ {b} : c[1] = j => bucket'[c] = bucket[c],
           pc'[t] \in Looked => ref'[t] = b,
           pc'[t] \in Working =>
              /\ Achieved(pc'[t], op'[t], source'[t], cfg'[t], bucket'[b], stored'[j], j \in dir')
              /\ FoundNone(pc'[t], op'[t], source'[t], cfg'[t], bucket'[b], stored'[j]),
           \A u \in WorkingOn(j) \ {t} :
              /\ op[u] \in Finders
              /\ Achieved(pc[u], op[u], source[u], cfg[u], bucket'[b], stored'[j], j \in dir')
              /\ FoundNone(pc[u], op[u], source[u], cfg[u], bucket'[b], stored'[j]),
           Shared(j, t, pc'[t], op'[t], b, bucket'[b], stored'[j], j \in dir', lock'[j])
    PROVE  NameInv(j)'
<1> DEFINE r == bucket'[b]
           st == stored'[j]
           p == pc'[t]
<1>1. /\ \A u \in WorkingOn(j)' : u # t => u \in WorkingOn(j)
      /\ \A u \in WorkingOn(j) : u # t => u \in WorkingOn(j)'
      /\ t \in WorkingOn(j)' <=> p \in Working
      /\ \A u \in WorkingOn(j) : u # t => pc'[u] = pc[u] /\ op'[u] = op[u]
      /\ \A S : At(j, S)' <=> (p \in Working /\ p \in S) \/ Rest(j, t, S)
  BY CrewAfter
<1>2. /\ Opening \cup SoloSteps \cup {"unmap", "readConfig", "gotConfig"} \subseteq Working
      /\ "openMeta" \in Opening
      /\ Finding(r.db) \subseteq Working
  BY DEF Opening, SoloSteps, Working, Finding
<1>3. Locked(j)'
  <2>1. \A u, v \in WorkingOn(j)' : pc'[u] = "openMeta" /\ pc'[v] = "openMeta" => u = v
    <3>1. \A u, v \in WorkingOn(j) : pc[u] = "openMeta" /\ pc[v] = "openMeta" => u = v
      BY AbsentAssumption DEF NameInv, Locked
    <3>2. p = "openMeta" => \A u \in WorkingOn(j) \ {t} : pc[u] # "openMeta"
      BY DEF Shared, Rest
    <3> QED
      BY <1>1, <3>1, <3>2
  <2>2. /\ lock'[j] = IF r.db # "none" \/ At(j, {"openMeta"})' THEN b ELSE NoBucket
        /\ r.db = "open" => j \in dir' /\ ~r.isDeleting /\ ~r.config.disabled
    BY <1>1, <1>2 DEF Shared
  <2> QED
    BY <2>1, <2>2 DEF Locked
<1>4. Agreed(j)'
  <2>1. CASE st = r.config
    BY <2>1 DEF Agreed
  <2>2. CASE p \in {"storeConfig", "storedConfig", "unmap"}
    BY <1>1, <1>2, <2>2 DEF Agreed, SoloSteps
  <2>3. CASE /\ r.config = EmptyConfig /\ ~r.isDeleting /\ r.db # "closing" /\ st = NoConfig
             /\ \/ op'[t] \in Finders /\ p \in Finding(r.db)
                \/ Rest(j, t, Finding(r.db))
    <3>1. \E u \in WorkingOn(j)' : op'[u] \in Finders /\ pc'[u] \in Finding(r.db)
      BY <1>1, <1>2, <2>3 DEF Rest
    <3> QED
      BY <2>3, <3>1 DEF Agreed
  <2>4. CASE /\ r.config = EmptyConfig /\ ~r.isDeleting /\ r.db = "none"
             /\ st # NoConfig /\ st.disabled
             /\ p \in {"readConfig", "gotConfig"} \/ (p \notin Working /\ WorkingOn(j) \ {t} # {})
             /\ \A u \in WorkingOn(j) \ {t} : pc[u] \in {"readConfig", "gotConfig"}
    <3>1. /\ WorkingOn(j)' # {}
          /\ \A u \in WorkingOn(j)' : pc'[u] \in {"readConfig", "gotConfig"}
      BY <1>1, <1>2, <2>4
    <3> QED
      BY <2>4, <3>1 DEF Agreed
  <2> QED
    BY <2>1, <2>2, <2>3, <2>4 DEF Shared
<1>5. Opened(j)'
  <2>1. CASE p \in Opening \cup SoloSteps \/ Rest(j, t, Opening)
    <3>1. At(j, Opening \cup {"storeConfig", "storedConfig", "closeToRepair", "repairAndOpen"})'
      BY <1>1, <1>2, <2>1 DEF SoloSteps, Rest
    <3> QED
      BY <3>1 DEF Opened
  <2>2. CASE /\ p \in {"readConfig", "gotConfig"} \/ Rest(j, t, {"readConfig", "gotConfig"})
             /\ st # r.config
    <3>1. At(j, {"readConfig", "gotConfig"})'
      BY <1>1, <1>2, <2>2
    <3> QED
      BY <2>2, <3>1 DEF Opened
  <2> QED
    BY <2>1, <2>2 DEF Shared, Opened
<1> QED
  BY <1>3, <1>4, <1>5, OwnName

\* What is shared before a step of a task at work.
LEMMA OwnShared ==
    ASSUME IInv, NEW t \in Tasks, pc[t] \in Working, id[t] \notin mixed
    PROVE  LET j == id[t] IN
           /\ Shared(j, t, pc[t], op[t], map[j], bucket[map[j]], stored[j], j \in dir, lock[j])
           /\ \A u \in WorkingOn(j) \ {t} : op[u] \in Finders /\ pc[u] \in FinderSteps
           /\ op[t] \notin Finders => \A u \in WorkingOn(j) : u = t
<1> DEFINE j == id[t]
<1>1. /\ Typed /\ j \in Ids /\ t \in WorkingOn(j) /\ NameInv(j) /\ map[j] # NoBucket
      /\ \A u \in WorkingOn(j) \ {t} : op[t] \in Finders /\ op[u] \in Finders /\ pc[u] \in FinderSteps
  BY OwnFacts DEF FinderSteps, IInv, Typed
<1> QED
  BY <1>1, SharedBefore

\* The last task at work leaves a name that no scan has disturbed.
LEMMA LeaveServed ==
    ASSUME NEW t \in Tasks, NEW j \in Ids, ~ScanOverlapping(j)', NameInv(j)',
           \A u \in WorkingOn(j) : u = t, Untouched(t), id'[t] = j, pc'[t] \notin Working
    PROVE  ServedInv(j)'
<1>1. WorkingOn(j)' = {}
  BY CrewAfter
<1>2. \A S : ~At(j, S)'
  BY <1>1 DEF At
<1> QED
  BY <1>1, <1>2 DEF ServedInv, NameInv, Opened

\* What is known of a task at work on a name that its step leaves undisturbed.
LEMMA OwnState ==
    ASSUME IInv, History, NEW t \in Tasks, pc[t] \in Working, id[t] \notin mixed', id'[t] = id[t]
    PROVE  LET j == id[t]
               b == map[j]
               r == bucket[b]
           IN  /\ Typed /\ j \in Ids /\ j \notin mixed /\ ~Overlapping(j) /\ ~Overlapping(j)' /\ NameInv(j)
               /\ b \in Bucket /\ b # NoBucket /\ b[1] = j /\ t \in WorkingOn(j)
               /\ r \in Fields /\ stored[j] \in Config \cup {NoConfig}
               /\ pc[t] \in Looked => ref[t] = b
               /\ Achieved(pc[t], op[t], source[t], cfg[t], r, stored[j], j \in dir)
               /\ FoundNone(pc[t], op[t], source[t], cfg[t], r, stored[j])
               /\ Shared(j, t, pc[t], op[t], b, r, stored[j], j \in dir, lock[j])
               /\ op[t] \notin Finders => \A u \in WorkingOn(j) : u = t
               /\ \A u \in WorkingOn(j) \ {t} :
                     /\ op[u] \in Finders /\ pc[u] \in FinderSteps
                     /\ Achieved(pc[u], op[u], source[u], cfg[u], r, stored[j], j \in dir)
                     /\ FoundNone(pc[u], op[u], source[u], cfg[u], r, stored[j])
<1>1. id[t] \in Ids /\ stored[id[t]] \in Config \cup {NoConfig} /\ Typed
  BY DEF IInv, TypeOK, Typed
<1>2. id[t] \notin mixed /\ ~Overlapping(id[t])'
  BY <1>1, HistoryGrows
<1> QED
  BY <1>1, <1>2, OwnFacts, OwnShared DEF NameInv

LEMMA OwnAlone ==
    ASSUME IInv, History, NEW t \in Tasks, pc[t] \in Working, id[t] \notin mixed' \cup scanned',
           id'[t] = id[t]
    PROVE  LET j == id[t]
               r == bucket[map[j]]
           IN  /\ ~ScanOverlapping(j)' /\ \A u \in WorkingOn(j) : u = t
               /\ pc[t] \in {"mkdir", "openDb"} => r.db # "open"
               /\ pc[t] = "openFailed" => r.isDeleting
               /\ r.isOpen => r.db = "open" \/ r.config.disabled \/ r.isDeleting \/ op[t] # "write"
<1>1. id[t] \in Ids
  BY DEF IInv, TypeOK
<1>2. id[t] \notin mixed \cup scanned /\ ~ScanOverlapping(id[t])'
  <2>1. id[t] \notin mixed' /\ id[t] \notin scanned'
    OBVIOUS
  <2> QED
    BY <1>1, <2>1, HistoryGrows
<1>3. /\ ServedInv(id[t]) /\ t \in WorkingOn(id[t]) /\ map[id[t]] # NoBucket
      /\ \A u \in WorkingOn(id[t]) : u = t
  BY <1>2, AloneNow, OwnFacts
<1> QED
  BY <1>2, <1>3 DEF ServedInv

-----------------------------------------------------------------------------
(* The steps of a creation. *)

LEMMA ReadConfigStep ==
    ASSUME IInv, Typed', NEW t \in Tasks, ReadConfig(t), History
    PROVE  Keeps(t, id[t])
<1> DEFINE j == id[t]
           b == map[j]
           r == bucket[b]
<1>1. /\ pc[t] = "readConfig" /\ pc'[t] = "gotConfig" /\ Untouched(t) /\ id'[t] = j /\ j \in Ids
      /\ cfg'[t] = stored[j]
      /\ UNCHANGED <<map, bucket, holder, op, ref, source, dir, lock, stored>>
  BY DEF ReadConfig, Goto, others, semVars, Untouched, IInv, TypeOK
<1>2. Local(t)
  BY <1>1 DEF Local, OnlyName, NameSame, Working, Deleting, IInv, HolderInv
<1>3. op[t] \in Finders /\ pc[t] \in Working /\ pc'[t] \in Working \ Looked
  BY <1>1 DEF IInv, TaskInv, AtStep, Deleting, Repairing, Opening, Looked, Working
<1>4. ASSUME j \notin mixed' PROVE NameInv(j)'
  <2>1. /\ Typed /\ ~Overlapping(j)' /\ NameInv(j) /\ b \in Bucket /\ r \in Fields
        /\ Shared(j, t, pc[t], op[t], b, r, stored[j], j \in dir, lock[j])
        /\ \A u \in WorkingOn(j) \ {t} :
              /\ op[u] \in Finders
              /\ Achieved(pc[u], op[u], source[u], cfg[u], r, stored[j], j \in dir)
              /\ FoundNone(pc[u], op[u], source[u], cfg[u], r, stored[j])
    BY <1>1, <1>3, <1>4, OwnState
  <2>2. Achieved(pc'[t], op'[t], source'[t], cfg'[t], r, stored[j], j \in dir)
    BY <1>1 DEF Achieved, Opening, Deleting
  <2>3. FoundNone(pc'[t], op'[t], source'[t], cfg'[t], r, stored[j])
    <3> SUFFICES ASSUME stored[j] = NoConfig PROVE r.config = EmptyConfig /\ ~r.isDeleting
      BY <1>1 DEF FoundNone, Opening
    <3>1. stored[j] # r.config
      BY <2>1, AbsentAssumption DEF Fields
    <3> QED
      BY <1>1, <2>1, <3>1 DEF Shared
  <2>4. Shared(j, t, pc'[t], op'[t], b, r, stored[j], j \in dir, lock[j])
    BY <1>1, <1>3, <2>1 DEF Shared, Opening, SoloSteps, Finding
  <2> HIDE DEF b
  <2>5. map[j] = b /\ map'[j] = b /\ bucket'[b] = r
    BY <1>1 DEF b
  <2> QED
    BY <1>1, <1>3, <2>1, <2>2, <2>3, <2>4, <2>5, SharedName
<1>5. ASSUME j \notin mixed' \cup scanned' PROVE ServedInv(j)'
  <2>1. b \in Bucket /\ map'[j] = b /\ bucket'[b] = r
    BY <1>1, <1>3, <1>5, OwnState
  <2>2. /\ ~ScanOverlapping(j)' /\ \A u \in WorkingOn(j) : u = t
        /\ r.isOpen => r.db = "open" \/ r.config.disabled \/ r.isDeleting \/ op[t] # "write"
    BY <1>1, <1>3, <1>5, OwnAlone
  <2> HIDE DEF b, r
  <2> QED
    BY <1>1, <1>3, <2>1, <2>2, OwnServed
<1> QED
  BY <1>1, <1>2, <1>4, <1>5 DEF Keeps

LEMMA StoreConfigStep ==
    ASSUME IInv, Typed', NEW t \in Tasks, StoreConfig(t), History
    PROVE  Keeps(t, id[t])
<1> DEFINE j == id[t]
           b == map[j]
           r == bucket[b]
<1>1. /\ Untouched(t) /\ id'[t] = j /\ j \in Ids
      /\ \/ pc[t] = "storeConfig" /\ pc'[t] = "storedConfig" /\ stored'[j] = cfg[t]
         \/ pc[t] = "storeEmpty" /\ pc'[t] = "storedEmpty" /\ stored'[j] = EmptyConfig
      /\ \A i \in Ids \ {j} : stored'[i] = stored[i]
      /\ UNCHANGED <<map, bucket, holder, op, ref, cfg, source, dir, lock>>
  BY DEF StoreConfig, Goto, semVars, Untouched, IInv, TypeOK
<1>2. Local(t)
  BY <1>1 DEF Local, OnlyName, NameSame, Working, Deleting, IInv, HolderInv
<1>3. /\ pc[t] \in Working /\ pc'[t] \in Working \ Looked
      /\ pc[t] = "storeEmpty" => op[t] \in Finders
      /\ pc[t] = "storeConfig" => op[t] = "configure"
  BY <1>1 DEF IInv, TaskInv, AtStep, Deleting, Repairing, Opening, Looked, Working
<1>4. ASSUME j \notin mixed' PROVE NameInv(j)'
  <2>1. /\ Typed /\ ~Overlapping(j)' /\ NameInv(j) /\ b \in Bucket /\ r \in Fields
        /\ Achieved(pc[t], op[t], source[t], cfg[t], r, stored[j], j \in dir)
        /\ FoundNone(pc[t], op[t], source[t], cfg[t], r, stored[j])
        /\ Shared(j, t, pc[t], op[t], b, r, stored[j], j \in dir, lock[j])
        /\ op[t] \notin Finders => \A u \in WorkingOn(j) : u = t
        /\ \A u \in WorkingOn(j) \ {t} :
              /\ op[u] \in Finders /\ pc[u] \in FinderSteps
              /\ Achieved(pc[u], op[u], source[u], cfg[u], r, stored[j], j \in dir)
              /\ FoundNone(pc[u], op[u], source[u], cfg[u], r, stored[j])
    BY <1>1, <1>3, <1>4, OwnState
  <2>2. pc[t] = "storeEmpty" => /\ r.db = "open" /\ r.config = EmptyConfig /\ ~r.isDeleting
                                /\ stored[j] \in {NoConfig, EmptyConfig}
    BY <2>1 DEF Achieved, FoundNone
  <2>3. Achieved(pc'[t], op'[t], source'[t], cfg'[t], r, stored'[j], j \in dir)
    BY <1>1, <2>2 DEF Achieved, Opening, Deleting
  <2>4. FoundNone(pc'[t], op'[t], source'[t], cfg'[t], r, stored'[j])
    BY <1>1, <2>2 DEF FoundNone, Opening
  <2>5. ASSUME NEW u \in WorkingOn(j) \ {t}
        PROVE  /\ Achieved(pc[u], op[u], source[u], cfg[u], r, stored'[j], j \in dir)
               /\ FoundNone(pc[u], op[u], source[u], cfg[u], r, stored'[j])
    <3>1. pc[t] = "storeEmpty" /\ stored'[j] = EmptyConfig
      BY <1>1, <1>3, <2>1 DEF Finders
    <3>2. Achieved(pc[u], op[u], source[u], cfg[u], r, stored'[j], j \in dir)
      BY <2>1, <2>2, <3>1 DEF Achieved, FinderSteps, Opening, Deleting
    <3>3. FoundNone(pc[u], op[u], source[u], cfg[u], r, stored'[j])
      BY <2>1, <2>2, <3>1 DEF FoundNone, Opening
    <3> QED
      BY <3>2, <3>3
  <2>6. Shared(j, t, pc'[t], op'[t], b, r, stored'[j], j \in dir, lock[j])
    BY <1>1, <1>3, <2>1, <2>2 DEF Shared, Opening, SoloSteps, Finding
  <2> HIDE DEF b
  <2>7. map[j] = b /\ map'[j] = b /\ bucket'[b] = r
    BY <1>1 DEF b
  <2> QED
    BY <1>1, <1>3, <2>1, <2>3, <2>4, <2>5, <2>6, <2>7, SharedName
<1>5. ASSUME j \notin mixed' \cup scanned' PROVE ServedInv(j)'
  <2>1. b \in Bucket /\ map'[j] = b /\ bucket'[b] = r
    BY <1>1, <1>3, <1>5, OwnState
  <2>2. /\ ~ScanOverlapping(j)' /\ \A u \in WorkingOn(j) : u = t
        /\ r.isOpen => r.db = "open" \/ r.config.disabled \/ r.isDeleting \/ op[t] # "write"
    BY <1>1, <1>3, <1>5, OwnAlone
  <2> HIDE DEF b, r
  <2> QED
    BY <1>1, <1>3, <2>1, <2>2, OwnServed
<1> QED
  BY <1>1, <1>2, <1>4, <1>5 DEF Keeps

LEMMA ApplyEmptyStep ==
    ASSUME IInv, Typed', NEW t \in Tasks, ApplyEmpty(t), History
    PROVE  Keeps(t, id[t])
<1> DEFINE j == id[t]
           b == map[j]
           r == bucket[b]
<1>1. /\ pc[t] = "storedEmpty" /\ Untouched(t) /\ id'[t] = j /\ j \in Ids
      /\ UNCHANGED <<map, op, ref, cfg, source, dir, stored, lock>>
      /\ \/ /\ b \in Bucket /\ b[1] = j /\ b # NoBucket
            /\ pc'[t] = "created" /\ holder' = holder
            /\ bucket'[b] = [r EXCEPT !.config = EmptyConfig]
            /\ \A c \in Bucket \ {b} : bucket'[c] = bucket[c]
         \/ /\ b = NoBucket /\ pc'[t] \in {"list", "failed"} /\ bucket' = bucket
            /\ holder' = IF holder = t THEN Nobody ELSE holder
  <2>1. /\ pc[t] = "storedEmpty" /\ j \in Ids
        /\ UNCHANGED <<map, op, ref, cfg, source, dir, stored, lock, id>>
    BY DEF ApplyEmpty, others, IInv, TypeOK
  <2>2. CASE Gone(t)
    BY <2>1, <2>2, ThrowTypes DEF ApplyEmpty, Gone, Untouched, IInv, Typed, ThrowEffect, Throw
  <2>3. CASE ~Gone(t)
    <3>1. b \in Bucket /\ b[1] = j /\ b # NoBucket
      BY <2>1, <2>3 DEF Gone, IInv, TypeOK, ObjectInv
    <3>2. /\ bucket' = [bucket EXCEPT ![b].config = EmptyConfig]
          /\ pc' = [pc EXCEPT ![t] = "created"] /\ holder' = holder
      BY <2>3 DEF ApplyEmpty, Goto
    <3> QED
      BY <2>1, <3>1, <3>2 DEF IInv, TypeOK, Untouched
  <2> QED
    BY <2>2, <2>3
<1>2. pc[t] \in Working /\ op[t] \in Finders /\ pc'[t] \notin Looked \cup {"idle"}
  BY <1>1 DEF IInv, TaskInv, AtStep, Deleting, Repairing, Opening, Looked, Working
<1>3. Local(t)
  <2>1. OnlyName(j)
    BY <1>1 DEF OnlyName, NameSame
  <2>2. pc'[t] \in Working => pc'[t] = "created"
    BY <1>1 DEF Working
  <2> QED
    BY <1>1, <1>2, <2>1, <2>2 DEF Local, Deleting, Finders, IInv, HolderInv, Looked
<1>4. ASSUME j \notin mixed' PROVE NameInv(j)' /\ pc'[t] = "created" /\ bucket'[b] = r /\ r.db = "open"
  <2>1. /\ Typed /\ ~Overlapping(j)' /\ NameInv(j) /\ b \in Bucket /\ r \in Fields /\ b # NoBucket
        /\ Achieved(pc[t], op[t], source[t], cfg[t], r, stored[j], j \in dir)
        /\ FoundNone(pc[t], op[t], source[t], cfg[t], r, stored[j])
        /\ Shared(j, t, pc[t], op[t], b, r, stored[j], j \in dir, lock[j])
        /\ \A u \in WorkingOn(j) \ {t} :
              /\ op[u] \in Finders
              /\ Achieved(pc[u], op[u], source[u], cfg[u], r, stored[j], j \in dir)
              /\ FoundNone(pc[u], op[u], source[u], cfg[u], r, stored[j])
    BY <1>1, <1>2, <1>4, OwnState
  <2>2. r.config = EmptyConfig /\ stored[j] = EmptyConfig /\ r.db = "open"
    BY <1>1, <2>1 DEF Achieved, FoundNone
  <2>3. bucket'[b] = r /\ pc'[t] = "created"
    BY <1>1, <2>1, <2>2 DEF Fields
  <2>4. Achieved(pc'[t], op'[t], source'[t], cfg'[t], r, stored[j], j \in dir)
    BY <2>3 DEF Achieved, Opening, Deleting
  <2>5. FoundNone(pc'[t], op'[t], source'[t], cfg'[t], r, stored[j])
    BY <2>3 DEF FoundNone, Opening
  <2>6. Shared(j, t, pc'[t], op'[t], b, r, stored[j], j \in dir, lock[j])
    BY <1>1, <2>1, <2>2, <2>3 DEF Shared
  <2>7. \A c \in Bucket \ {b} : c[1] = j => bucket'[c] = bucket[c]
    BY <1>1, <2>1
  <2> HIDE DEF b
  <2>8. map[j] = b /\ map'[j] = b /\ bucket'[b] = r
    BY <1>1, <2>3 DEF b
  <2> QED
    BY <1>1, <1>2, <2>1, <2>2, <2>3, <2>4, <2>5, <2>6, <2>7, <2>8, SharedName
<1>5. ASSUME j \notin mixed' \cup scanned' PROVE ServedInv(j)'
  <2>1. b \in Bucket /\ map'[j] = b /\ bucket'[b] = r /\ r.db = "open" /\ pc'[t] = "created"
    BY <1>1, <1>2, <1>4, <1>5, OwnState
  <2>2. ~ScanOverlapping(j)' /\ \A u \in WorkingOn(j) : u = t
    BY <1>1, <1>2, <1>5, OwnAlone
  <2> HIDE DEF b, r
  <2> QED
    BY <1>1, <2>1, <2>2, OwnServed
<1> QED
  BY <1>1, <1>3, <1>4, <1>5 DEF Keeps

LEMMA MkdirStep ==
    ASSUME IInv, Typed', NEW t \in Tasks, Mkdir(t), History
    PROVE  Keeps(t, id[t])
<1> DEFINE j == id[t]
           b == map[j]
           r == bucket[b]
<1>1. /\ pc[t] = "mkdir" /\ pc'[t] = "openDb" /\ Untouched(t) /\ id'[t] = j /\ j \in Ids
      /\ dir' = dir \cup {j}
      /\ UNCHANGED <<map, bucket, holder, op, ref, cfg, source, stored, lock>>
  BY DEF Mkdir, Goto, semVars, Untouched, IInv, TypeOK
<1>2. Local(t)
  BY <1>1 DEF Local, OnlyName, NameSame, Working, Deleting, IInv, HolderInv
<1>3. pc[t] \in Working /\ pc[t] \in Looked /\ pc'[t] \in Working
  BY <1>1 DEF Opening, Looked, Working
<1>4. ASSUME j \notin mixed' PROVE NameInv(j)'
  <2>1. /\ Typed /\ ~Overlapping(j)' /\ NameInv(j) /\ b \in Bucket /\ r \in Fields /\ ref[t] = b
        /\ Achieved(pc[t], op[t], source[t], cfg[t], r, stored[j], j \in dir)
        /\ FoundNone(pc[t], op[t], source[t], cfg[t], r, stored[j])
        /\ Shared(j, t, pc[t], op[t], b, r, stored[j], j \in dir, lock[j])
        /\ \A u \in WorkingOn(j) \ {t} :
              /\ op[u] \in Finders /\ pc[u] \in FinderSteps
              /\ Achieved(pc[u], op[u], source[u], cfg[u], r, stored[j], j \in dir)
              /\ FoundNone(pc[u], op[u], source[u], cfg[u], r, stored[j])
    BY <1>1, <1>3, <1>4, OwnState
  <2>2. Achieved(pc'[t], op'[t], source'[t], cfg'[t], r, stored[j], j \in dir')
    BY <1>1, <2>1 DEF Achieved, Opening, Deleting
  <2>3. FoundNone(pc'[t], op'[t], source'[t], cfg'[t], r, stored[j])
    BY <1>1, <2>1 DEF FoundNone, Opening
  <2>4. ASSUME NEW u \in WorkingOn(j) \ {t}
        PROVE  Achieved(pc[u], op[u], source[u], cfg[u], r, stored[j], j \in dir')
    BY <1>1, <2>1 DEF Achieved, FinderSteps, Opening, Deleting
  <2>5. Shared(j, t, pc'[t], op'[t], b, r, stored[j], j \in dir', lock[j])
    <3>1. /\ pc[t] \in Finding(r.db) <=> pc'[t] \in Finding(r.db)
          /\ pc'[t] \in Opening /\ pc'[t] # "openMeta" /\ pc'[t] = "openDb" /\ pc[t] = "mkdir"
          /\ pc[t] \notin {"storeConfig", "storedConfig", "unmap"} \cup {"readConfig", "gotConfig"}
          /\ pc[t] \in Working /\ op'[t] = op[t] /\ lock'[j] = lock[j]
          /\ r.db = "open" => j \in dir
          /\ j \in dir'
      BY <1>1, <1>3, <2>1 DEF Opening, Finding, Shared
    <3> HIDE DEF r, b, j
    <3> QED
      BY <2>1, <3>1 DEF Shared
  <2> HIDE DEF b
  <2>6. map[j] = b /\ map'[j] = b /\ bucket'[b] = r
    BY <1>1 DEF b
  <2> QED
    BY <1>1, <1>3, <2>1, <2>2, <2>3, <2>4, <2>5, <2>6, SharedName
<1>5. ASSUME j \notin mixed' \cup scanned' PROVE ServedInv(j)'
  <2>1. b \in Bucket /\ map'[j] = b /\ bucket'[b] = r
    BY <1>1, <1>3, <1>5, OwnState
  <2>2. /\ ~ScanOverlapping(j)' /\ \A u \in WorkingOn(j) : u = t
        /\ r.db # "open"
        /\ r.isOpen => r.db = "open" \/ r.config.disabled \/ r.isDeleting \/ op[t] # "write"
    BY <1>1, <1>3, <1>5, OwnAlone
  <2> HIDE DEF b, r
  <2> QED
    BY <1>1, <1>3, <2>1, <2>2, OwnServed
<1> QED
  BY <1>1, <1>2, <1>4, <1>5 DEF Keeps

LEMMA OpenDbStep ==
    ASSUME IInv, Typed', NEW t \in Tasks, OpenDb(t), History
    PROVE  Keeps(t, id[t])
<1> DEFINE j == id[t]
           b == map[j]
           r == bucket[b]
<1>1. /\ pc[t] = "openDb" /\ Untouched(t) /\ id'[t] = j /\ j \in Ids
      /\ UNCHANGED <<map, bucket, holder, op, ref, cfg, source, stored>>
      /\ \/ /\ lock[j] = NoBucket /\ pc'[t] = "openMeta" /\ lock'[j] = ref[t] /\ dir' = dir \cup {j}
            /\ \A i \in Ids \ {j} : lock'[i] = lock[i]
         \/ /\ lock[j] # NoBucket \/ j \notin dir
            /\ pc'[t] = "openFailed" /\ lock' = lock /\ dir' = dir
  BY DEF OpenDb, Goto, semVars, Untouched, IInv, TypeOK
<1>2. Local(t)
  BY <1>1 DEF Local, OnlyName, NameSame, Working, Deleting, IInv, HolderInv
<1>3. pc[t] \in Working /\ pc[t] \in Looked /\ pc'[t] \in Working
  BY <1>1 DEF Opening, Looked, Working
<1>4. ASSUME j \notin mixed'
      PROVE  /\ Typed /\ ~Overlapping(j)' /\ NameInv(j) /\ b \in Bucket /\ r \in Fields /\ ref[t] = b /\ b # NoBucket
             /\ Achieved(pc[t], op[t], source[t], cfg[t], r, stored[j], j \in dir)
             /\ FoundNone(pc[t], op[t], source[t], cfg[t], r, stored[j])
             /\ Shared(j, t, pc[t], op[t], b, r, stored[j], j \in dir, lock[j])
             /\ op[t] \notin Finders => \A u \in WorkingOn(j) : u = t
             /\ \A u \in WorkingOn(j) \ {t} :
                   /\ op[u] \in Finders /\ pc[u] \in FinderSteps
                   /\ Achieved(pc[u], op[u], source[u], cfg[u], r, stored[j], j \in dir)
                   /\ FoundNone(pc[u], op[u], source[u], cfg[u], r, stored[j])
             /\ r.db # "closing" /\ j \in dir
  <2>1. /\ Typed /\ ~Overlapping(j)' /\ ~Overlapping(j) /\ NameInv(j) /\ b \in Bucket /\ r \in Fields
        /\ ref[t] = b /\ b # NoBucket /\ b[1] = j /\ t \in WorkingOn(j)
        /\ Achieved(pc[t], op[t], source[t], cfg[t], r, stored[j], j \in dir)
        /\ FoundNone(pc[t], op[t], source[t], cfg[t], r, stored[j])
        /\ Shared(j, t, pc[t], op[t], b, r, stored[j], j \in dir, lock[j])
        /\ op[t] \notin Finders => \A u \in WorkingOn(j) : u = t
        /\ \A u \in WorkingOn(j) \ {t} :
              /\ op[u] \in Finders /\ pc[u] \in FinderSteps
              /\ Achieved(pc[u], op[u], source[u], cfg[u], r, stored[j], j \in dir)
              /\ FoundNone(pc[u], op[u], source[u], cfg[u], r, stored[j])
    BY <1>1, <1>3, <1>4, OwnState
  <2>2. r.db # "closing"
    BY <1>1, <2>1 DEF Overlapping
  <2>3. j \in dir
    BY <1>1, <2>1 DEF Achieved
  <2> QED
    BY <2>1, <2>2, <2>3
<1>5. ASSUME j \notin mixed', pc'[t] = "openMeta" PROVE NameInv(j)'
  <2>1. /\ r.db = "none" /\ ~Rest(j, t, {"openMeta"}) /\ lock'[j] = b /\ (j \in dir' <=> j \in dir)
    BY <1>1, <1>4, <1>5 DEF Shared, Fields
  <2>2. Achieved(pc'[t], op'[t], source'[t], cfg'[t], r, stored[j], j \in dir')
    BY <1>1, <1>4, <1>5, <2>1 DEF Achieved, Opening, Deleting
  <2>3. FoundNone(pc'[t], op'[t], source'[t], cfg'[t], r, stored[j])
    BY <1>1, <1>4, <1>5 DEF FoundNone, Opening
  <2>4. ASSUME NEW u \in WorkingOn(j) \ {t}
        PROVE  Achieved(pc[u], op[u], source[u], cfg[u], r, stored[j], j \in dir')
    BY <1>4, <1>5, <2>1 DEF Achieved
  <2>5. Shared(j, t, pc'[t], op'[t], b, r, stored[j], j \in dir', lock'[j])
    <3>1. /\ pc[t] \in Finding(r.db) <=> pc'[t] \in Finding(r.db)
          /\ pc'[t] \in Opening
          /\ pc[t] \notin {"storeConfig", "storedConfig", "unmap"} \cup {"readConfig", "gotConfig"}
          /\ op'[t] = op[t]
      BY <1>1, <1>5 DEF Opening, Finding
    <3> HIDE DEF r, b, j
    <3> QED
      BY <1>3, <1>4, <1>5, <2>1, <3>1 DEF Shared
  <2> HIDE DEF b
  <2>6. map[j] = b /\ map'[j] = b /\ bucket'[b] = r
    BY <1>1 DEF b
  <2> QED
    BY <1>1, <1>3, <1>4, <1>5, <2>2, <2>3, <2>4, <2>5, <2>6, SharedName
<1>6. ASSUME j \notin mixed', pc'[t] = "openFailed"
      PROVE  NameInv(j)' /\ (r.db = "open" \/ Rest(j, t, {"openMeta"}))
  <2>1. lock[j] # NoBucket /\ lock'[j] = lock[j] /\ dir' = dir
    BY <1>1, <1>4, <1>6
  <2>2. r.db = "open" \/ Rest(j, t, {"openMeta"})
    BY <1>1, <1>4, <1>6, <2>1 DEF Shared, Fields
  <2>3. op[t] \in Finders
    <3>1. op[t] \notin Finders => r.db = "none" /\ ~Rest(j, t, {"openMeta"})
      BY <1>1, <1>4, <1>6 DEF Achieved, Opening, Rest
    <3> QED
      BY <2>2, <3>1
  <2>4. Achieved(pc'[t], op'[t], source'[t], cfg'[t], r, stored[j], j \in dir')
    <3>1. source[t] = "empty" /\ op[t] # "repair"
      BY <1>1, <1>4, <1>6, <2>3 DEF FoundNone, Opening, Finders
    <3> QED
      BY <1>1, <1>6, <2>1, <3>1 DEF Achieved, Opening, Deleting
  <2>5. FoundNone(pc'[t], op'[t], source'[t], cfg'[t], r, stored[j])
    BY <1>6 DEF FoundNone, Opening
  <2>6. Shared(j, t, pc'[t], op'[t], b, r, stored[j], j \in dir', lock'[j])
    <3>1. /\ pc'[t] \notin Opening \cup SoloSteps
          /\ pc[t] \notin {"storeConfig", "storedConfig", "unmap"} \cup {"readConfig", "gotConfig"}
          /\ op'[t] = op[t] /\ pc[t] # "openMeta"
          /\ r.db = "open" => pc[t] \notin Finding(r.db)
          /\ Rest(j, t, {"openMeta"}) => Rest(j, t, Opening)
          /\ r.db # "open" => Finding(r.db) = {"readConfig", "gotConfig"} \cup Opening
          /\ Rest(j, t, {"openMeta"}) => Rest(j, t, {"readConfig", "gotConfig"} \cup Opening)
      BY <1>1, <1>6 DEF Opening, Finding, SoloSteps, Rest
    <3> HIDE DEF r, b, j
    <3> QED
      BY <1>3, <1>4, <1>6, <2>1, <2>2, <3>1 DEF Shared
  <2> HIDE DEF b
  <2>7. map[j] = b /\ map'[j] = b /\ bucket'[b] = r
    BY <1>1 DEF b
  <2> QED
    BY <1>1, <1>3, <1>4, <1>6, <2>1, <2>2, <2>4, <2>5, <2>6, <2>7, SharedName
<1>7. ASSUME j \notin mixed' \cup scanned' PROVE ServedInv(j)'
  <2>1. b \in Bucket /\ map'[j] = b /\ bucket'[b] = r
    BY <1>1, <1>3, <1>7, OwnState
  <2>2. /\ ~ScanOverlapping(j)' /\ \A u \in WorkingOn(j) : u = t
        /\ r.db # "open"
        /\ r.isOpen => r.db = "open" \/ r.config.disabled \/ r.isDeleting \/ op[t] # "write"
    BY <1>1, <1>3, <1>7, OwnAlone
  <2>3. pc'[t] = "openMeta"
    BY <1>1, <1>6, <1>7, <2>2 DEF Rest
  <2> HIDE DEF b, r
  <2> QED
    BY <1>1, <1>3, <2>1, <2>2, <2>3, OwnServed
<1> QED
  BY <1>1, <1>2, <1>5, <1>6, <1>7 DEF Keeps

LEMMA OpenMetaStep ==
    ASSUME IInv, Typed', NEW t \in Tasks, OpenMeta(t), History
    PROVE  Keeps(t, id[t])
<1> DEFINE j == id[t]
           b == map[j]
           r == bucket[b]
           q == bucket'[b]
<1>1. /\ pc[t] = "openMeta" /\ Untouched(t) /\ id'[t] = j /\ j \in Ids
      /\ UNCHANGED <<map, holder, op, ref, cfg, source, stored, lock, dir>>
      /\ pc'[t] = IF op[t] = "repair" THEN "done" ELSE "purge"
  BY DEF OpenMeta, Goto, semVars, others, Untouched, IInv, TypeOK
<1>2. pc[t] \in Working /\ pc[t] \in Looked
  BY <1>1 DEF Opening, Looked, Working
<1>3. ref[t] \in Bucket /\ ref[t][1] = j
  BY <1>2 DEF IInv, TaskInv, AtStep
<1>4. /\ \A c \in Bucket \ {ref[t]} : bucket'[c] = bucket[c]
      /\ bucket'[ref[t]].db = "open" /\ bucket'[ref[t]].config = bucket[ref[t]].config
      /\ bucket'[ref[t]].isDeleting = bucket[ref[t]].isDeleting
      /\ bucket'[ref[t]].isOpen = bucket[ref[t]].isOpen
  <2> DEFINE o == ref[t]
             v == bucket[o].repairing /\ op[t] # "repair"
             x == [bucket[o] EXCEPT !.db = "open"]
             y == [x EXCEPT !.repairing = v]
  <2>1. bucket[o] \in Fields
    BY <1>3 DEF IInv, TypeOK
  <2>2. x.repairing = bucket[o].repairing
    BY <2>1 DEF Fields
  <2>3. bucket' = [bucket EXCEPT ![o] = y]
    BY <1>3, <2>2 DEF OpenMeta, IInv, TypeOK
  <2> HIDE DEF v
  <2>4. y.db = "open" /\ y.config = bucket[o].config /\ y.isDeleting = bucket[o].isDeleting
        /\ y.isOpen = bucket[o].isOpen
    BY <2>1 DEF Fields
  <2> HIDE DEF y
  <2> QED
    BY <1>3, <2>3, <2>4 DEF IInv, TypeOK
<1>5. Local(t)
  BY <1>1, <1>3, <1>4 DEF Local, OnlyName, NameSame, Working, Deleting, IInv, HolderInv
<1>6. ASSUME j \notin mixed' PROVE NameInv(j)'
  <2>1. /\ Typed /\ ~Overlapping(j)' /\ NameInv(j) /\ b \in Bucket /\ r \in Fields /\ ref[t] = b
        /\ Achieved(pc[t], op[t], source[t], cfg[t], r, stored[j], j \in dir)
        /\ FoundNone(pc[t], op[t], source[t], cfg[t], r, stored[j])
        /\ Shared(j, t, pc[t], op[t], b, r, stored[j], j \in dir, lock[j])
        /\ op[t] \notin Finders => \A u \in WorkingOn(j) : u = t
        /\ \A u \in WorkingOn(j) \ {t} :
              /\ op[u] \in Finders /\ pc[u] \in FinderSteps
              /\ Achieved(pc[u], op[u], source[u], cfg[u], r, stored[j], j \in dir)
              /\ FoundNone(pc[u], op[u], source[u], cfg[u], r, stored[j])
    BY <1>1, <1>2, <1>6, OwnState
  <2>2. /\ q.db = "open" /\ q.config = r.config /\ q.isDeleting = r.isDeleting
        /\ \A c \in Bucket \ {b} : bucket'[c] = bucket[c]
    BY <1>4, <2>1
  <2>3. r.db = "none" /\ ~r.isDeleting /\ ~r.config.disabled /\ j \in dir /\ ~Rest(j, t, {"openMeta"})
    BY <1>1, <2>1 DEF Achieved, Opening, Shared
  <2>4. pc'[t] \in Working =>
           /\ Achieved(pc'[t], op'[t], source'[t], cfg'[t], q, stored[j], j \in dir)
           /\ FoundNone(pc'[t], op'[t], source'[t], cfg'[t], q, stored[j])
    <3> SUFFICES ASSUME pc'[t] = "purge"
                 PROVE  /\ Achieved(pc'[t], op'[t], source'[t], cfg'[t], q, stored[j], j \in dir)
                        /\ FoundNone(pc'[t], op'[t], source'[t], cfg'[t], q, stored[j])
      BY <1>1 DEF Working
    <3>1. Achieved(pc'[t], op'[t], source'[t], cfg'[t], q, stored[j], j \in dir)
      BY <2>2 DEF Achieved, Opening, Deleting
    <3>2. FoundNone(pc'[t], op'[t], source'[t], cfg'[t], q, stored[j])
      BY <1>1, <2>1, <2>2 DEF FoundNone, Opening
    <3> QED
      BY <3>1, <3>2
  <2>5. ASSUME NEW u \in WorkingOn(j) \ {t}
        PROVE  /\ Achieved(pc[u], op[u], source[u], cfg[u], q, stored[j], j \in dir)
               /\ FoundNone(pc[u], op[u], source[u], cfg[u], q, stored[j])
    <3>1. pc[u] # "openMeta" /\ pc[u] \in FinderSteps /\ op[u] \in Finders
      BY <2>1, <2>3 DEF Rest
    <3>2. Achieved(pc[u], op[u], source[u], cfg[u], q, stored[j], j \in dir)
      BY <2>1, <2>2, <2>3, <3>1 DEF Achieved, FinderSteps, Opening, Deleting
    <3>3. FoundNone(pc[u], op[u], source[u], cfg[u], q, stored[j])
      BY <2>1, <2>2, <3>1 DEF FoundNone, Opening
    <3> QED
      BY <3>2, <3>3
  <2>6. Shared(j, t, pc'[t], op'[t], b, q, stored[j], j \in dir, lock[j])
    <3>1. /\ pc[t] \notin {"storeConfig", "storedConfig", "unmap"} \cup {"readConfig", "gotConfig"}
          /\ op'[t] = op[t] /\ pc'[t] # "openMeta"
          /\ op[t] \in Finders => pc'[t] \in Finding(q.db)
      BY <1>1, <2>2 DEF Opening, Finding, SoloSteps, Finders
    <3>2. /\ op[t] \in Finders \/ stored[j] = r.config
          /\ lock[j] = b
          /\ stored[j] # r.config => r.config = EmptyConfig /\ ~r.isDeleting /\ stored[j] = NoConfig
      <4>1. op[t] \notin Finders => ~Rest(j, t, Finding(r.db))
        BY <2>1 DEF Rest
      <4> HIDE DEF r, b, j
      <4> QED
        BY <1>1, <1>2, <2>1, <3>1, <4>1 DEF Shared
    <3> HIDE DEF r, b, j, q
    <3> QED
      BY <2>2, <2>3, <3>1, <3>2 DEF Shared
  <2>7. pc'[t] \in Looked => ref'[t] = b
    BY <1>1, <2>1
  <2> HIDE DEF b, q
  <2>8. map[j] = b /\ map'[j] = b /\ bucket'[b] = q
    BY <1>1 DEF b, q
  <2>9. /\ \A c \in Bucket \ {b} : c[1] = j => bucket'[c] = bucket[c]
        /\ b \in Bucket /\ Typed /\ ~Overlapping(j)' /\ NameInv(j)
        /\ \A u \in WorkingOn(j) \ {t} : op[u] \in Finders
    BY <2>1, <2>2
  <2> QED
    BY <1>1, <2>4, <2>5, <2>6, <2>7, <2>8, <2>9, SharedName
<1>7. ASSUME j \notin mixed' \cup scanned' PROVE ServedInv(j)'
  <2>1. b \in Bucket /\ map'[j] = b /\ ref[t] = b
    BY <1>1, <1>2, <1>7, OwnState
  <2>2. ~ScanOverlapping(j)' /\ \A u \in WorkingOn(j) : u = t
    BY <1>1, <1>2, <1>7, OwnAlone
  <2>3. bucket'[b].db = "open"
    BY <1>4, <2>1
  <2> HIDE DEF b, r
  <2> QED
    BY <1>1, <2>1, <2>2, <2>3, OwnServed
<1> QED
  BY <1>1, <1>5, <1>6, <1>7 DEF Keeps

LEMMA PurgeStep ==
    ASSUME IInv, Typed', NEW t \in Tasks, Purge(t), History
    PROVE  Keeps(t, id[t])
<1> DEFINE j == id[t]
           b == map[j]
           r == bucket[b]
           q == bucket'[b]
<1>1. /\ pc[t] = "purge" /\ Untouched(t) /\ id'[t] = j /\ j \in Ids
      /\ UNCHANGED <<map, holder, op, ref, cfg, source, stored, lock, dir>>
      /\ pc'[t] = IF ~IsOpen(ref[t]) THEN "openFailed"
                  ELSE IF source[t] = "empty" THEN "storeEmpty" ELSE "created"
  BY DEF Purge, Goto, semVars, others, Untouched, IInv, TypeOK
<1>2. pc[t] \in Working /\ pc[t] \in Looked /\ pc'[t] \in Working
  BY <1>1 DEF Looked, Working
<1>3. ref[t] \in Bucket /\ ref[t][1] = j
  BY <1>2 DEF IInv, TaskInv, AtStep
<1>4. /\ \A c \in Bucket \ {ref[t]} : bucket'[c] = bucket[c]
      /\ bucket'[ref[t]].db = bucket[ref[t]].db /\ bucket'[ref[t]].config = bucket[ref[t]].config
      /\ bucket'[ref[t]].isDeleting = bucket[ref[t]].isDeleting
  <2>1. bucket[ref[t]] \in Fields
    BY <1>3 DEF IInv, TypeOK
  <2>2. bucket' = [bucket EXCEPT ![ref[t]].isOpen = TRUE] \/ bucket' = bucket
    BY DEF Purge
  <2> QED
    BY <1>3, <2>1, <2>2 DEF IInv, TypeOK, Fields
<1>5. Local(t)
  <2>1. OnlyName(j)
    BY <1>1, <1>3, <1>4 DEF OnlyName, NameSame
  <2>2. pc'[t] \notin Deleting \cup {"idle"}
    BY <1>1 DEF Deleting
  <2> QED
    BY <1>1, <1>2, <2>1, <2>2 DEF Local, Deleting, IInv, HolderInv
<1>6. op[t] # "configure" => op[t] \in Finders
  BY <1>1 DEF IInv, TaskInv, AtStep
<1>7. ASSUME j \notin mixed'
      PROVE  /\ Typed /\ ~Overlapping(j)' /\ NameInv(j) /\ b \in Bucket /\ r \in Fields /\ ref[t] = b
             /\ FoundNone(pc[t], op[t], source[t], cfg[t], r, stored[j])
             /\ Shared(j, t, pc[t], op[t], b, r, stored[j], j \in dir, lock[j])
             /\ op[t] \notin Finders => \A u \in WorkingOn(j) : u = t
             /\ \A u \in WorkingOn(j) \ {t} :
                   /\ op[u] \in Finders
                   /\ Achieved(pc[u], op[u], source[u], cfg[u], r, stored[j], j \in dir)
                   /\ FoundNone(pc[u], op[u], source[u], cfg[u], r, stored[j])
             /\ r.db = "open" /\ pc'[t] = IF source[t] = "empty" THEN "storeEmpty" ELSE "created"
  <2>1. /\ Typed /\ ~Overlapping(j)' /\ NameInv(j) /\ b \in Bucket /\ r \in Fields /\ ref[t] = b
        /\ Achieved(pc[t], op[t], source[t], cfg[t], r, stored[j], j \in dir)
        /\ FoundNone(pc[t], op[t], source[t], cfg[t], r, stored[j])
        /\ Shared(j, t, pc[t], op[t], b, r, stored[j], j \in dir, lock[j])
        /\ op[t] \notin Finders => \A u \in WorkingOn(j) : u = t
        /\ \A u \in WorkingOn(j) \ {t} :
              /\ op[u] \in Finders
              /\ Achieved(pc[u], op[u], source[u], cfg[u], r, stored[j], j \in dir)
              /\ FoundNone(pc[u], op[u], source[u], cfg[u], r, stored[j])
    BY <1>1, <1>2, <1>7, OwnState
  <2>2. r.db = "open" /\ IsOpen(ref[t])
    BY <1>1, <2>1 DEF Achieved, IsOpen
  <2> QED
    BY <1>1, <2>1, <2>2
<1>8. ASSUME j \notin mixed' PROVE NameInv(j)'
  <2>1. /\ q.db = "open" /\ r.db = "open" /\ q.config = r.config /\ q.isDeleting = r.isDeleting
        /\ \A c \in Bucket \ {b} : bucket'[c] = bucket[c]
    BY <1>4, <1>7, <1>8
  <2>2. pc'[t] = "storeEmpty" => op[t] \in Finders
    BY <1>1, <1>2, <1>7, <1>8 DEF IInv, TaskInv, AtStep
  <2>3. pc'[t] = "storeEmpty" <=> op[t] \in Finders
    BY <1>1, <1>7, <1>8, <2>2 DEF FoundNone
  <2>4. Achieved(pc'[t], op'[t], source'[t], cfg'[t], q, stored[j], j \in dir)
    BY <1>7, <1>8, <2>1 DEF Achieved, Opening, Deleting
  <2>5. FoundNone(pc'[t], op'[t], source'[t], cfg'[t], q, stored[j])
    BY <1>1, <1>7, <1>8, <2>1, <2>3 DEF FoundNone, Opening
  <2>6. ASSUME NEW u \in WorkingOn(j) \ {t}
        PROVE  /\ Achieved(pc[u], op[u], source[u], cfg[u], q, stored[j], j \in dir)
               /\ FoundNone(pc[u], op[u], source[u], cfg[u], q, stored[j])
    <3>1. Achieved(pc[u], op[u], source[u], cfg[u], q, stored[j], j \in dir)
      BY <1>7, <1>8, <2>1 DEF Achieved
    <3>2. FoundNone(pc[u], op[u], source[u], cfg[u], q, stored[j])
      BY <1>7, <1>8, <2>1 DEF FoundNone
    <3> QED
      BY <3>1, <3>2
  <2>7. Shared(j, t, pc'[t], op'[t], b, q, stored[j], j \in dir, lock[j])
    <3>1. /\ pc[t] \notin {"storeConfig", "storedConfig", "unmap"} \cup {"readConfig", "gotConfig"}
          /\ op'[t] = op[t] /\ pc'[t] # "openMeta" /\ pc[t] # "openMeta"
          /\ op[t] \in Finders => pc'[t] \in Finding(q.db)
      BY <1>1, <1>7, <1>8, <2>1, <2>3 DEF Finding
    <3> HIDE DEF r, b, j, q
    <3> QED
      BY <1>2, <1>7, <1>8, <2>1, <3>1 DEF Shared
  <2>8. pc'[t] \in Looked => ref'[t] = b
    BY <1>1, <1>7, <1>8
  <2> HIDE DEF b, q
  <2>9. map[j] = b /\ map'[j] = b /\ bucket'[b] = q
    BY <1>1 DEF b, q
  <2>10. \A c \in Bucket \ {b} : c[1] = j => bucket'[c] = bucket[c]
    BY <2>1
  <2> QED
    BY <1>1, <1>7, <1>8, <2>4, <2>5, <2>6, <2>7, <2>8, <2>9, <2>10, SharedName
<1>9. ASSUME j \notin mixed' \cup scanned' PROVE ServedInv(j)'
  <2>1. b \in Bucket /\ map'[j] = b /\ ref[t] = b /\ r.db = "open" /\ pc'[t] # "openFailed"
    BY <1>1, <1>7, <1>9
  <2>2. ~ScanOverlapping(j)' /\ \A u \in WorkingOn(j) : u = t
    BY <1>1, <1>2, <1>9, OwnAlone
  <2>3. bucket'[b].db = "open" /\ pc'[t] \notin {"mkdir", "openDb"}
    BY <1>1, <1>4, <2>1
  <2> HIDE DEF b, r
  <2> QED
    BY <1>1, <2>1, <2>2, <2>3, OwnServed
<1> QED
  BY <1>1, <1>5, <1>8, <1>9 DEF Keeps

LEMMA CreatedStep ==
    ASSUME IInv, Typed', NEW t \in Tasks, Created(t), History
    PROVE  Keeps(t, id[t])
<1> DEFINE j == id[t]
           b == map[j]
           r == bucket[b]
<1>1. /\ pc[t] = "created" /\ Untouched(t) /\ id'[t] = j /\ j \in Ids
      /\ UNCHANGED <<map, bucket, ref, cfg, source, stored, lock, dir>>
      /\ pc'[t] \in {"wait", "done", "failed", "scan", "list"}
      /\ op[t] \in Finders \cup {"configure"}
      /\ \/ op[t] = "write" /\ holder' = Nobody
         \/ op[t] # "write" /\ holder' = holder
  <2>1. /\ pc[t] = "created" /\ j \in Ids
        /\ UNCHANGED <<map, bucket, id, ref, cfg, source, stored, lock, dir>>
    BY DEF Created, others, IInv, TypeOK
  <2>2. op[t] \in Finders \cup {"configure"}
    BY <2>1 DEF IInv, TaskInv, AtStep
  <2>3. CASE op[t] = "write"
    <3>1. op' = op /\ holder' = Nobody /\ WaitForBucketCreation(t, j)
      BY <2>3 DEF Created
    <3>2. /\ \A u \in Tasks \ {t} : pc'[u] = pc[u]
          /\ pc'[t] \in {"wait", "done", "failed"}
      BY <2>1, <3>1, WaitTypes DEF IInv, Typed
    <3> QED
      BY <2>1, <2>2, <2>3, <3>1, <3>2 DEF Untouched
  <2>4. CASE op[t] # "write"
    BY <2>1, <2>2, <2>4 DEF Created, Goto, semVars, Untouched, Finders, IInv, TypeOK
  <2> QED
    BY <2>3, <2>4
<1>2. pc[t] \in Working /\ pc'[t] \notin Working \cup Looked
  BY <1>1 DEF Deleting, Repairing, Opening, Looked, Working
<1>3. Local(t)
  <2>1. holder' = holder \/ holder \in {Nobody, t}
    BY <1>1, <1>2 DEF IInv, HolderInv
  <2> QED
    BY <1>1, <1>2, <2>1 DEF Local, OnlyName, NameSame, Looked, Finders
<1>4. ASSUME j \notin mixed' PROVE NameInv(j)'
  <2>1. /\ Typed /\ ~Overlapping(j)' /\ NameInv(j) /\ b \in Bucket /\ r \in Fields
        /\ Shared(j, t, pc[t], op[t], b, r, stored[j], j \in dir, lock[j])
        /\ \A u \in WorkingOn(j) \ {t} :
              /\ op[u] \in Finders
              /\ Achieved(pc[u], op[u], source[u], cfg[u], r, stored[j], j \in dir)
              /\ FoundNone(pc[u], op[u], source[u], cfg[u], r, stored[j])
    BY <1>1, <1>2, <1>4, OwnState
  <2>2. Shared(j, t, pc'[t], op'[t], b, r, stored[j], j \in dir, lock[j])
    <3>1. /\ pc[t] \notin Opening \cup SoloSteps \cup {"storeConfig", "storedConfig", "unmap"}
                            \cup {"readConfig", "gotConfig", "openMeta"}
          /\ pc'[t] # "openMeta" /\ pc[t] \notin Finding(r.db)
      BY <1>1 DEF Opening, SoloSteps, Finding
    <3> HIDE DEF r, b, j
    <3> QED
      BY <1>2, <2>1, <3>1 DEF Shared
  <2> HIDE DEF b
  <2>3. map[j] = b /\ map'[j] = b /\ bucket'[b] = r
    BY <1>1 DEF b
  <2> QED
    BY <1>1, <1>2, <2>1, <2>2, <2>3, SharedName
<1>5. ASSUME j \notin mixed' \cup scanned' PROVE ServedInv(j)'
  <2>1. ~ScanOverlapping(j)' /\ \A u \in WorkingOn(j) : u = t
    BY <1>1, <1>2, <1>5, OwnAlone
  <2> QED
    BY <1>1, <1>2, <1>4, <1>5, <2>1, LeaveServed
<1> QED
  BY <1>1, <1>3, <1>4, <1>5 DEF Keeps

LEMMA RepairStep ==
    ASSUME IInv, Typed', NEW t \in Tasks, Repair(t), History
    PROVE  Keeps(t, id[t])
<1> DEFINE j == id[t]
           b == map[j]
           r == bucket[b]
           q == bucket'[b]
<1>1. /\ pc[t] \in {"repair", "repairAndOpen"} /\ Untouched(t) /\ id'[t] = j /\ j \in Ids
      /\ UNCHANGED <<map, op, ref, cfg, source, stored, lock, holder>>
      /\ dir \subseteq dir' /\ \A i \in Ids \ {j} : i \in dir' <=> i \in dir
      /\ \/ pc'[t] \in {"failed", "done"} /\ bucket' = [bucket EXCEPT ![ref[t]].repairing = FALSE]
         \/ /\ pc[t] = "repairAndOpen" /\ bucket' = bucket
            /\ pc'[t] = IF bucket[ref[t]].isDeleting THEN "openFailed" ELSE "mkdir"
      /\ pc[t] = "repairAndOpen" /\ pc'[t] \in {"failed", "done"} => lock[j] # NoBucket \/ j \notin dir
  BY DEF Repair, RepairEnds, Goto, semVars, others, Untouched, IInv, TypeOK
<1>2. /\ pc[t] \in Working /\ pc[t] \in Looked /\ op[t] = "repair" /\ op[t] \notin Finders
      /\ ref[t] \in Bucket /\ ref[t][1] = j
  BY <1>1 DEF IInv, TaskInv, AtStep, Repairing, Looked, Working, Finders
<1>3. /\ \A c \in Bucket \ {ref[t]} : bucket'[c] = bucket[c]
      /\ bucket'[ref[t]].db = bucket[ref[t]].db /\ bucket'[ref[t]].config = bucket[ref[t]].config
      /\ bucket'[ref[t]].isDeleting = bucket[ref[t]].isDeleting
      /\ bucket'[ref[t]].isOpen = bucket[ref[t]].isOpen
  <2>1. bucket[ref[t]] \in Fields
    BY <1>2 DEF IInv, TypeOK
  <2> QED
    BY <1>1, <1>2, <2>1 DEF IInv, TypeOK, Fields
<1>4. Local(t)
  <2>1. OnlyName(j)
    BY <1>1, <1>2, <1>3 DEF OnlyName, NameSame
  <2>2. pc'[t] \notin Deleting \cup {"idle"}
    BY <1>1 DEF Deleting
  <2> QED
    BY <1>1, <1>2, <2>1, <2>2 DEF Local, Deleting, IInv, HolderInv
<1>5. ASSUME j \notin mixed'
      PROVE  /\ Typed /\ ~Overlapping(j)' /\ NameInv(j) /\ b \in Bucket /\ r \in Fields
             /\ ref[t] = b /\ b # NoBucket
             /\ Achieved(pc[t], op[t], source[t], cfg[t], r, stored[j], j \in dir)
             /\ Shared(j, t, pc[t], op[t], b, r, stored[j], j \in dir, lock[j])
             /\ \A u \in WorkingOn(j) : u = t
             /\ t \in WorkingOn(j)
  BY <1>1, <1>2, <1>5, OwnState
<1>6. ASSUME j \notin mixed' PROVE NameInv(j)' /\ (pc'[t] \in {"failed", "done"} \/ (pc'[t] = "mkdir" /\ r.db = "none"))
  <2>1. /\ q.db = r.db /\ q.config = r.config /\ q.isDeleting = r.isDeleting
        /\ \A c \in Bucket \ {b} : bucket'[c] = bucket[c]
    BY <1>3, <1>5, <1>6
  <2>2. /\ lock[j] = IF r.db # "none" THEN b ELSE NoBucket
        /\ r.db = "open" => j \in dir /\ ~r.isDeleting /\ ~r.config.disabled
        /\ stored[j] = r.config
        /\ \/ r.config.disabled \/ r.isDeleting \/ r.db = "open"
           \/ pc[t] = "repairAndOpen"
    BY <1>1, <1>2, <1>5, <1>6, SoloBefore DEF Opening, SoloSteps
  <2>3. pc[t] = "repairAndOpen" => j \in dir /\ ~r.isDeleting /\ ~r.config.disabled /\ r.db = "none"
    BY <1>5, <1>6 DEF Achieved
  <2>4. pc[t] = "repairAndOpen" => pc'[t] = "mkdir"
    BY <1>1, <1>5, <1>6, <2>2, <2>3
  <2>5. pc'[t] \in {"failed", "done"} \/ (pc[t] = "repairAndOpen" /\ pc'[t] = "mkdir" /\ r.db = "none")
    BY <1>1, <2>3, <2>4
  <2>6. pc'[t] \in Working =>
           /\ Achieved(pc'[t], op'[t], source'[t], cfg'[t], q, stored[j], j \in dir')
           /\ FoundNone(pc'[t], op'[t], source'[t], cfg'[t], q, stored[j])
    <3> SUFFICES ASSUME pc[t] = "repairAndOpen", pc'[t] = "mkdir"
                 PROVE  /\ Achieved(pc'[t], op'[t], source'[t], cfg'[t], q, stored[j], j \in dir')
                        /\ FoundNone(pc'[t], op'[t], source'[t], cfg'[t], q, stored[j])
      BY <2>5 DEF Working
    <3>1. Achieved(pc'[t], op'[t], source'[t], cfg'[t], q, stored[j], j \in dir')
      BY <1>1, <2>1, <2>3 DEF Achieved, Opening, Deleting
    <3>2. FoundNone(pc'[t], op'[t], source'[t], cfg'[t], q, stored[j])
      BY <1>1, <1>2 DEF FoundNone
    <3> QED
      BY <3>1, <3>2
  <2>7. pc'[t] = "mkdir" => pc'[t] \in Opening
    BY DEF Opening
  <2>8. pc'[t] \in Looked => ref'[t] = b
    BY <1>1, <1>5, <1>6
  <2> HIDE DEF b, q
  <2>9. map[j] = b /\ map'[j] = b /\ bucket'[b] = q
    BY <1>1 DEF b, q
  <2>10. /\ lock'[j] = IF q.db # "none" \/ pc'[t] = "openMeta" THEN b ELSE NoBucket
         /\ q.db = "open" => j \in dir' /\ ~q.isDeleting /\ ~q.config.disabled
         /\ stored'[j] = q.config
         /\ \/ q.config.disabled \/ q.isDeleting \/ q.db = "open"
            \/ pc'[t] \in Opening \cup SoloSteps
         /\ \A c \in Bucket \ {b} : c[1] = j => bucket'[c] = bucket[c]
    BY <1>1, <2>1, <2>2, <2>4, <2>5, <2>7
  <2>11. NameInv(j)'
    BY <1>1, <1>5, <1>6, <2>6, <2>8, <2>9, <2>10, SoloName
  <2> QED
    BY <2>5, <2>11
<1>7. ASSUME j \notin mixed' \cup scanned' PROVE ServedInv(j)'
  <2>1. ~ScanOverlapping(j)' /\ \A u \in WorkingOn(j) : u = t
    BY <1>1, <1>2, <1>7, OwnAlone
  <2>2. b \in Bucket /\ map'[j] = b /\ ref[t] = b
    BY <1>1, <1>5, <1>7
  <2>3. CASE pc'[t] \in {"failed", "done"}
    BY <1>1, <1>6, <1>7, <2>1, <2>3, LeaveServed DEF Working
  <2>4. CASE pc'[t] = "mkdir" /\ r.db = "none"
    <3>1. q.db # "open" /\ pc'[t] \in Working /\ op'[t] # "write"
      BY <1>1, <1>2, <1>3, <2>2, <2>4 DEF Working
    <3> HIDE DEF b, r
    <3> QED
      BY <1>1, <2>1, <2>2, <2>4, <3>1, OwnServed
  <2> QED
    BY <1>6, <1>7, <2>3, <2>4
<1> QED
  BY <1>1, <1>4, <1>6, <1>7 DEF Keeps

\* updateDBState, object by object.
LEMMA UpdateFacts ==
    ASSUME Typed, NEW t \in Tasks, ~Gone(t), NEW c \in Config,
           NEW from \in {"supplied", "stored", "empty"},
           NEW now \in [Bucket -> Fields], UpdateDBState(t, c, from, now)
    PROVE  LET b == map[id[t]]
               r == bucket'[b]
           IN  /\ b \in Bucket /\ b[1] = id[t] /\ b # NoBucket
               /\ source'[t] = from /\ ref'[t] = b
               /\ \A u \in Tasks \ {t} : pc'[u] = pc[u] /\ ref'[u] = ref[u] /\ source'[u] = source[u]
               /\ \A o \in Bucket \ {b} : bucket'[o] = now[o]
               /\ r.config = now[b].config /\ r.isDeleting = now[b].isDeleting /\ r.isOpen = now[b].isOpen
               /\ \/ /\ c.disabled /\ now[b].db = "open" /\ r.db = "closing"
                     /\ pc'[t] = IF from = "empty" THEN "storeEmpty" ELSE "created"
                  \/ /\ c.disabled <=> now[b].db # "open"
                     /\ r.db = now[b].db
                     /\ pc'[t] = IF from = "empty" THEN "storeEmpty" ELSE "created"
                  \/ /\ ~c.disabled /\ now[b].db # "open" /\ r.db = now[b].db
                     /\ pc'[t] = IF now[b].isDeleting THEN "openFailed" ELSE "mkdir"
<1> DEFINE b == map[id[t]]
<1>1. b \in Bucket /\ b[1] = id[t] /\ b # NoBucket
  BY DEF Gone, Typed, TypeOK, ObjectInv
<1>2. /\ source' = [source EXCEPT ![t] = from] /\ ref' = [ref EXCEPT ![t] = b]
      /\ \/ /\ c.disabled /\ now[b].db = "open"
            /\ bucket' = [now EXCEPT ![b].db = "closing"]
            /\ pc' = [pc EXCEPT ![t] = IF from = "empty" THEN "storeEmpty" ELSE "created"]
         \/ /\ c.disabled <=> now[b].db # "open"
            /\ bucket' = now
            /\ pc' = [pc EXCEPT ![t] = IF from = "empty" THEN "storeEmpty" ELSE "created"]
         \/ /\ ~c.disabled /\ now[b].db # "open" /\ bucket' = now
            /\ pc' = [pc EXCEPT ![t] = IF now[b].isDeleting THEN "openFailed" ELSE "mkdir"]
  BY UpdateEffect DEF Typed
<1> HIDE DEF b
<1>3. now[b] \in Fields
  BY <1>1
<1>4. /\ source'[t] = from /\ ref'[t] = b
      /\ \A u \in Tasks \ {t} : ref'[u] = ref[u] /\ source'[u] = source[u]
  BY <1>2 DEF Typed, TypeOK
<1>5. \A p : pc' = [pc EXCEPT ![t] = p] => pc'[t] = p /\ \A u \in Tasks \ {t} : pc'[u] = pc[u]
  BY DEF Typed, TypeOK
<1>6. CASE /\ c.disabled /\ now[b].db = "open"
           /\ bucket' = [now EXCEPT ![b].db = "closing"]
           /\ pc' = [pc EXCEPT ![t] = IF from = "empty" THEN "storeEmpty" ELSE "created"]
  <2>1. /\ bucket'[b].db = "closing" /\ bucket'[b].config = now[b].config
        /\ bucket'[b].isDeleting = now[b].isDeleting /\ bucket'[b].isOpen = now[b].isOpen
        /\ \A o \in Bucket \ {b} : bucket'[o] = now[o]
    BY <1>1, <1>3, <1>6 DEF Fields
  <2> QED
    BY <1>1, <1>4, <1>5, <1>6, <2>1 DEF b
<1>7. CASE /\ c.disabled <=> now[b].db # "open"
           /\ bucket' = now
           /\ pc' = [pc EXCEPT ![t] = IF from = "empty" THEN "storeEmpty" ELSE "created"]
  BY <1>1, <1>4, <1>5, <1>7 DEF b
<1>8. CASE /\ ~c.disabled /\ now[b].db # "open" /\ bucket' = now
           /\ pc' = [pc EXCEPT ![t] = IF now[b].isDeleting THEN "openFailed" ELSE "mkdir"]
  BY <1>1, <1>4, <1>5, <1>8 DEF b
<1> QED
  BY <1>2, <1>6, <1>7, <1>8

LEMMA ConfigSet ==
    ASSUME Typed, NEW b \in Bucket, NEW c \in Config
    PROVE  LET now == [bucket EXCEPT ![b].config = c] IN
           /\ now \in [Bucket -> Fields]
           /\ now[b].config = c /\ now[b].db = bucket[b].db /\ now[b].isDeleting = bucket[b].isDeleting
           /\ now[b].isOpen = bucket[b].isOpen
           /\ \A o \in Bucket \ {b} : now[o] = bucket[o]
<1>1. bucket[b] \in Fields /\ [bucket[b] EXCEPT !.config = c] \in Fields
  BY FieldsUpdate DEF Typed, TypeOK
<1> QED
  BY <1>1 DEF Typed, TypeOK, Fields

LEMMA ApplySuppliedStep ==
    ASSUME IInv, Typed', NEW t \in Tasks, ApplySupplied(t), History
    PROVE  Keeps(t, id[t])
<1> DEFINE j == id[t]
           b == map[j]
           r == bucket[b]
           q == bucket'[b]
           c == cfg[t]
<1>1. /\ pc[t] = "storedConfig" /\ id'[t] = j /\ j \in Ids /\ op[t] = "configure" /\ c \in Config
      /\ UNCHANGED <<map, op, id, cfg, stored, lock, dir>>
      /\ pc[t] \in Working
  BY DEF ApplySupplied, others, IInv, TypeOK, TaskInv, AtStep, Working
<1>2. \/ b = NoBucket /\ pc'[t] = "failed" /\ Untouched(t) /\ bucket' = bucket
         /\ holder' = IF holder = t THEN Nobody ELSE holder
      \/ /\ b \in Bucket /\ b[1] = j /\ b # NoBucket /\ Untouched(t) /\ holder' = holder
         /\ source'[t] = "supplied" /\ ref'[t] = b
         /\ \A o \in Bucket \ {b} : bucket'[o] = bucket[o]
         /\ q.config = c /\ q.isDeleting = r.isDeleting /\ q.isOpen = r.isOpen
         /\ \/ c.disabled /\ r.db = "open" /\ q.db = "closing" /\ pc'[t] = "created"
            \/ (c.disabled <=> r.db # "open") /\ q.db = r.db /\ pc'[t] = "created"
            \/ /\ ~c.disabled /\ r.db # "open" /\ q.db = r.db
               /\ pc'[t] = IF r.isDeleting THEN "openFailed" ELSE "mkdir"
  <2>1. CASE Gone(t)
    BY <1>1, <2>1, ThrowTypes, ThrowEffect DEF ApplySupplied, Gone, Untouched, IInv, Typed
  <2>2. CASE ~Gone(t)
    <3> DEFINE now == [bucket EXCEPT ![b].config = c]
    <3>1. b \in Bucket
      BY <1>1, <2>2 DEF Gone, IInv, TypeOK
    <3>2. /\ now \in [Bucket -> Fields]
          /\ now[b].config = c /\ now[b].db = r.db /\ now[b].isDeleting = r.isDeleting
          /\ now[b].isOpen = r.isOpen
          /\ \A o \in Bucket \ {b} : now[o] = bucket[o]
      BY <1>1, <3>1, ConfigSet DEF IInv, Typed
    <3>3. UpdateDBState(t, c, "supplied", now) /\ holder' = holder
      BY <2>2 DEF ApplySupplied
    <3> HIDE DEF now
    <3>4. /\ b \in Bucket /\ b[1] = j /\ b # NoBucket
          /\ source'[t] = "supplied" /\ ref'[t] = b
          /\ \A u \in Tasks \ {t} : pc'[u] = pc[u] /\ ref'[u] = ref[u] /\ source'[u] = source[u]
          /\ \A o \in Bucket \ {b} : bucket'[o] = now[o]
          /\ q.config = now[b].config /\ q.isDeleting = now[b].isDeleting /\ q.isOpen = now[b].isOpen
          /\ \/ /\ c.disabled /\ now[b].db = "open" /\ q.db = "closing"
                /\ pc'[t] = IF "supplied" = "empty" THEN "storeEmpty" ELSE "created"
             \/ /\ c.disabled <=> now[b].db # "open"
                /\ q.db = now[b].db
                /\ pc'[t] = IF "supplied" = "empty" THEN "storeEmpty" ELSE "created"
             \/ /\ ~c.disabled /\ now[b].db # "open" /\ q.db = now[b].db
                /\ pc'[t] = IF now[b].isDeleting THEN "openFailed" ELSE "mkdir"
      <4>1. Typed /\ c \in Config
        BY <1>1 DEF IInv, Typed
      <4> QED
        BY <2>2, <3>2, <3>3, <4>1, UpdateFacts
    <3>5. Untouched(t)
      BY <1>1, <3>4 DEF Untouched
    <3> HIDE DEF b, r, q, c
    <3> QED
      BY <3>2, <3>3, <3>4, <3>5
  <2> QED
    BY <2>1, <2>2
<1>3. Local(t)
  <2>1. OnlyName(j) /\ Untouched(t)
    BY <1>1, <1>2 DEF OnlyName, NameSame
  <2>2. pc'[t] \notin Deleting \cup {"idle"}
    BY <1>2 DEF Deleting
  <2>3. holder' = holder \/ holder \in {Nobody, t}
    BY <1>2
  <2> QED
    BY <1>1, <2>1, <2>2, <2>3 DEF Local, Deleting
<1>4. ASSUME j \notin mixed'
      PROVE  /\ Typed /\ ~Overlapping(j)' /\ NameInv(j) /\ b \in Bucket /\ r \in Fields
             /\ b # NoBucket /\ b[1] = j /\ t \in WorkingOn(j)
             /\ \A u \in WorkingOn(j) : u = t
             /\ stored[j] = c
             /\ lock[j] = IF r.db # "none" THEN b ELSE NoBucket
             /\ r.db = "open" => j \in dir /\ ~r.isDeleting
  <2>1. /\ Typed /\ ~Overlapping(j)' /\ NameInv(j) /\ b \in Bucket /\ r \in Fields
        /\ b # NoBucket /\ b[1] = j /\ t \in WorkingOn(j)
        /\ \A u \in WorkingOn(j) : u = t
        /\ Achieved(pc[t], op[t], source[t], cfg[t], r, stored[j], j \in dir)
    BY <1>1, <1>4, OwnState DEF Finders
  <2>2. stored[j] = c
    BY <1>1, <2>1 DEF Achieved
  <2>3. /\ lock[j] = IF r.db # "none" THEN b ELSE NoBucket
        /\ r.db = "open" => j \in dir /\ ~r.isDeleting
    BY <1>1, <2>1, SoloBefore DEF Finders
  <2> QED
    BY <2>1, <2>2, <2>3
<1>5. ASSUME j \notin mixed' PROVE NameInv(j)'
  <2>1. /\ Untouched(t) /\ source'[t] = "supplied" /\ ref'[t] = b
        /\ \A o \in Bucket \ {b} : bucket'[o] = bucket[o]
        /\ q.config = c /\ q.isDeleting = r.isDeleting /\ q.isOpen = r.isOpen
        /\ \/ c.disabled /\ r.db = "open" /\ q.db = "closing" /\ pc'[t] = "created"
           \/ (c.disabled <=> r.db # "open") /\ q.db = r.db /\ pc'[t] = "created"
           \/ /\ ~c.disabled /\ r.db # "open" /\ q.db = r.db
              /\ pc'[t] = IF r.isDeleting THEN "openFailed" ELSE "mkdir"
    BY <1>2, <1>4, <1>5
  <2>2. pc'[t] = "mkdir" => q.db = "none"
    <3> SUFFICES ASSUME pc'[t] = "mkdir", q.db # "none" PROVE FALSE
      OBVIOUS
    <3>1. q.db = "closing" /\ b[1] = j /\ b \in Bucket
      BY <1>4, <1>5, <2>1 DEF Fields
    <3>2. t \in WorkingOn(j)'
      BY <1>1 DEF WorkingOn, Working
    <3> QED
      BY <1>1, <1>4, <1>5, <3>1, <3>2 DEF Overlapping
  <2>3. /\ Achieved(pc'[t], op'[t], source'[t], cfg'[t], q, stored[j], j \in dir)
        /\ FoundNone(pc'[t], op'[t], source'[t], cfg'[t], q, stored[j])
    <3>1. Achieved(pc'[t], op'[t], source'[t], cfg'[t], q, stored[j], j \in dir)
      BY <1>1, <2>1, <2>2 DEF Achieved, Opening, Deleting
    <3>2. FoundNone(pc'[t], op'[t], source'[t], cfg'[t], q, stored[j])
      BY <1>1, <2>1 DEF FoundNone, Opening, Finders
    <3> QED
      BY <3>1, <3>2
  <2>4. pc'[t] = "mkdir" => pc'[t] \in Opening
    BY DEF Opening
  <2>5. pc'[t] # "openMeta"
    BY <2>1
  <2> HIDE DEF b, q, c
  <2>6. map[j] = b /\ map'[j] = b /\ bucket'[b] = q
    BY <1>1 DEF b, q
  <2>7. /\ lock'[j] = IF q.db # "none" \/ pc'[t] = "openMeta" THEN b ELSE NoBucket
        /\ q.db = "open" => j \in dir' /\ ~q.isDeleting /\ ~q.config.disabled
        /\ stored'[j] = q.config
        /\ \/ q.config.disabled \/ q.isDeleting \/ q.db = "open"
           \/ pc'[t] \in Opening \cup SoloSteps
        /\ \A o \in Bucket \ {b} : o[1] = j => bucket'[o] = bucket[o]
    BY <1>1, <1>4, <1>5, <2>1, <2>4, <2>5
  <2> QED
    BY <1>1, <1>4, <1>5, <2>1, <2>3, <2>6, <2>7, SoloName
<1>6. ASSUME j \notin mixed' \cup scanned' PROVE ServedInv(j)'
  <2>1. ~ScanOverlapping(j)' /\ \A u \in WorkingOn(j) : u = t
    BY <1>1, <1>6, OwnAlone
  <2>2. b \in Bucket /\ map'[j] = b /\ b # NoBucket
    BY <1>1, <1>4, <1>6
  <2>3. /\ pc'[t] \in {"mkdir", "openDb"} => q.db # "open"
        /\ pc'[t] = "openFailed" => q.isDeleting
        /\ \/ q.config.disabled \/ q.db = "open" \/ q.isDeleting
           \/ pc'[t] = "mkdir" /\ op'[t] # "write"
    <3> HIDE DEF b, r, q, c
    <3> QED
      BY <1>1, <1>2, <2>2
  <2>4. pc'[t] = "mkdir" => pc'[t] \in Working
    BY DEF Working
  <2>5. Untouched(t)
    BY <1>2
  <2> HIDE DEF b, r, q, c
  <2>6. bucket'[b] = q
    BY DEF q
  <2> QED
    BY <1>1, <2>1, <2>2, <2>3, <2>4, <2>5, <2>6, OwnServed
<1> QED
  BY <1>1, <1>3, <1>5, <1>6 DEF Keeps

LEMMA ApplyStoredStep ==
    ASSUME IInv, Typed', NEW t \in Tasks, ApplyStored(t), History
    PROVE  Keeps(t, id[t])
<1> DEFINE j == id[t]
           b == map[j]
           r == bucket[b]
           q == bucket'[b]
           c == IF cfg[t] = NoConfig THEN EmptyConfig ELSE cfg[t]
           k == IF cfg[t] = NoConfig THEN r.config ELSE c
           from == IF cfg[t] = NoConfig THEN "empty" ELSE "stored"
<1>1. /\ pc[t] = "gotConfig" /\ id'[t] = j /\ j \in Ids /\ op[t] \in Finders
      /\ UNCHANGED <<map, op, id, cfg, stored, lock, dir>>
      /\ pc[t] \in Working /\ pc[t] \notin Looked
      /\ c \in Config /\ cfg[t] \in Config \cup {NoConfig}
  BY FreshType DEF ApplyStored, others, IInv, TypeOK, TaskInv, AtStep, Working, Looked,
                   Deleting, Repairing, Opening
<1>2. \/ b = NoBucket /\ pc'[t] \in {"failed", "list"} /\ Untouched(t) /\ bucket' = bucket
         /\ holder' = IF holder = t THEN Nobody ELSE holder
      \/ /\ b \in Bucket /\ b[1] = j /\ b # NoBucket /\ Untouched(t) /\ holder' = holder
         /\ source'[t] = from /\ ref'[t] = b
         /\ \A o \in Bucket \ {b} : bucket'[o] = bucket[o]
         /\ q.config = k /\ q.isDeleting = r.isDeleting /\ q.isOpen = r.isOpen
         /\ \/ /\ c.disabled /\ r.db = "open" /\ q.db = "closing"
               /\ pc'[t] = IF from = "empty" THEN "storeEmpty" ELSE "created"
            \/ /\ c.disabled <=> r.db # "open"
               /\ q.db = r.db
               /\ pc'[t] = IF from = "empty" THEN "storeEmpty" ELSE "created"
            \/ /\ ~c.disabled /\ r.db # "open" /\ q.db = r.db
               /\ pc'[t] = IF r.isDeleting THEN "openFailed" ELSE "mkdir"
  <2>1. CASE Gone(t)
    BY <1>1, <2>1, ThrowTypes, ThrowEffect DEF ApplyStored, Gone, Untouched, IInv, Typed
  <2>2. CASE ~Gone(t)
    <3> DEFINE now == IF cfg[t] = NoConfig THEN bucket ELSE [bucket EXCEPT ![b].config = c]
    <3>1. b \in Bucket /\ Typed
      BY <1>1, <2>2 DEF Gone, IInv, TypeOK, Typed
    <3>2. /\ now \in [Bucket -> Fields]
          /\ now[b].config = k /\ now[b].db = r.db /\ now[b].isDeleting = r.isDeleting
          /\ now[b].isOpen = r.isOpen
          /\ \A o \in Bucket \ {b} : now[o] = bucket[o]
      <4>1. CASE cfg[t] = NoConfig
        BY <3>1, <4>1 DEF Typed, TypeOK
      <4>2. CASE cfg[t] # NoConfig
        <5>1. now = [bucket EXCEPT ![b].config = c] /\ k = c
          BY <4>2
        <5> HIDE DEF c, k, now
        <5> QED
          BY <1>1, <3>1, <5>1, ConfigSet
      <4> QED
        BY <4>1, <4>2
    <3>3. UpdateDBState(t, c, from, now) /\ holder' = holder
      BY <2>2 DEF ApplyStored
    <3>4. from \in {"supplied", "stored", "empty"}
      OBVIOUS
    <3> HIDE DEF now, c, from, k
    <3>5. /\ b \in Bucket /\ b[1] = j /\ b # NoBucket
          /\ source'[t] = from /\ ref'[t] = b
          /\ \A u \in Tasks \ {t} : pc'[u] = pc[u] /\ ref'[u] = ref[u] /\ source'[u] = source[u]
          /\ \A o \in Bucket \ {b} : bucket'[o] = now[o]
          /\ q.config = now[b].config /\ q.isDeleting = now[b].isDeleting /\ q.isOpen = now[b].isOpen
          /\ \/ /\ c.disabled /\ now[b].db = "open" /\ q.db = "closing"
                /\ pc'[t] = IF from = "empty" THEN "storeEmpty" ELSE "created"
             \/ /\ c.disabled <=> now[b].db # "open"
                /\ q.db = now[b].db
                /\ pc'[t] = IF from = "empty" THEN "storeEmpty" ELSE "created"
             \/ /\ ~c.disabled /\ now[b].db # "open" /\ q.db = now[b].db
                /\ pc'[t] = IF now[b].isDeleting THEN "openFailed" ELSE "mkdir"
      <4> HIDE DEF j
      <4>1. c \in Config /\ from \in {"supplied", "stored", "empty"} /\ now \in [Bucket -> Fields]
        BY <1>1, <3>2, <3>4
      <4> QED
        BY <2>2, <3>1, <3>3, <4>1, UpdateFacts DEF j
    <3>6. Untouched(t)
      BY <1>1, <3>5 DEF Untouched
    <3> HIDE DEF b, r, q
    <3> QED
      BY <3>2, <3>3, <3>5, <3>6
  <2> QED
    BY <2>1, <2>2
<1> HIDE DEF k
<1>3. Local(t)
  <2>1. OnlyName(j) /\ Untouched(t)
    BY <1>1, <1>2 DEF OnlyName, NameSame
  <2>2. pc'[t] \notin Deleting \cup {"idle"} /\ (pc'[t] \in Working => holder' = holder)
    BY <1>2 DEF Deleting, Working
  <2>3. holder' = holder \/ holder \in {Nobody, t}
    BY <1>2
  <2> QED
    BY <1>1, <2>1, <2>2, <2>3 DEF Local, Deleting, IInv, HolderInv, Finders
<1>4. ASSUME j \notin mixed'
      PROVE  /\ Typed /\ ~Overlapping(j)' /\ NameInv(j) /\ b \in Bucket /\ r \in Fields
             /\ b # NoBucket /\ stored[j] \in Config \cup {NoConfig}
             /\ Achieved(pc[t], op[t], source[t], cfg[t], r, stored[j], j \in dir)
             /\ FoundNone(pc[t], op[t], source[t], cfg[t], r, stored[j])
             /\ Shared(j, t, pc[t], op[t], b, r, stored[j], j \in dir, lock[j])
             /\ \A u \in WorkingOn(j) \ {t} :
                   /\ op[u] \in Finders /\ pc[u] \in FinderSteps
                   /\ Achieved(pc[u], op[u], source[u], cfg[u], r, stored[j], j \in dir)
                   /\ FoundNone(pc[u], op[u], source[u], cfg[u], r, stored[j])
  BY <1>1, <1>4, OwnState
<1>5. ASSUME j \notin mixed'
      PROVE  /\ Untouched(t) /\ source'[t] = from /\ ref'[t] = b
             /\ \A o \in Bucket \ {b} : bucket'[o] = bucket[o]
             /\ q.config = k /\ q.isDeleting = r.isDeleting /\ q.isOpen = r.isOpen
             /\ \/ /\ c.disabled /\ r.db = "open" /\ q.db = "closing"
                   /\ pc'[t] = IF from = "empty" THEN "storeEmpty" ELSE "created"
                \/ /\ c.disabled <=> r.db # "open"
                   /\ q.db = r.db
                   /\ pc'[t] = IF from = "empty" THEN "storeEmpty" ELSE "created"
                \/ /\ ~c.disabled /\ r.db # "open" /\ q.db = r.db
                   /\ pc'[t] = IF r.isDeleting THEN "openFailed" ELSE "mkdir"
  BY <1>2, <1>4, <1>5
\* Nobody opens a bucket that has its stored configuration.
<1>6. ASSUME j \notin mixed', stored[j] = r.config, ~r.config.disabled, r.db # "open" PROVE r.isDeleting
  <2> SUFFICES ASSUME ~r.isDeleting PROVE FALSE
    OBVIOUS
  <2>1. Rest(j, t, Opening)
    <3>1. pc[t] \notin Opening \cup SoloSteps
      BY <1>1 DEF Opening, SoloSteps
    <3> HIDE DEF b, r, j
    <3> QED
      BY <1>4, <1>6, <3>1 DEF Shared
  <2>2. PICK u \in WorkingOn(j) \ {t} : pc[u] \in Opening
    BY <2>1 DEF Rest
  <2>3. stored[j] = NoConfig
    BY <1>4, <1>6, <2>2 DEF FoundNone
  <2> QED
    BY <1>4, <1>6, <2>3, AbsentAssumption DEF Fields
\* What is stored is applied, or kept for a bucket that is being deleted.
<1>7. ASSUME j \notin mixed', cfg[t] # NoConfig
      PROVE  /\ stored[j] = c /\ k = c /\ q.db = r.db /\ from = "stored"
             /\ \/ pc'[t] = "created" /\ (c.disabled <=> r.db # "open")
                \/ pc'[t] = "openFailed" /\ r.isDeleting /\ r.db # "open"
             /\ \/ stored[j] = r.config
                \/ /\ r.db = "none" /\ stored[j].disabled
                   /\ \A u \in WorkingOn(j) \ {t} : pc[u] \in {"readConfig", "gotConfig"}
  <2>1. stored[j] = c /\ k = c /\ from = "stored" /\ c = cfg[t]
    BY <1>1, <1>4, <1>7 DEF Achieved, k
  <2>2. \/ stored[j] = r.config
        \/ /\ r.db = "none" /\ stored[j].disabled
           /\ \A u \in WorkingOn(j) \ {t} : pc[u] \in {"readConfig", "gotConfig"}
    <3>1. pc[t] \notin {"storeConfig", "storedConfig", "unmap"} /\ stored[j] # NoConfig
      BY <1>1, <1>7, <2>1
    <3> HIDE DEF b, r, j, c, from
    <3> QED
      BY <1>4, <1>7, <3>1 DEF Shared
  <2>3. r.db = "open" => ~r.config.disabled
    BY <1>4, <1>7 DEF Shared
  <2>4. ~(c.disabled /\ r.db = "open")
    BY <2>1, <2>2, <2>3
  <2>5. ~c.disabled /\ r.db # "open" => r.isDeleting
    BY <1>6, <1>7, <2>1, <2>2
  <2> HIDE DEF b, r, j, c, q
  <2> QED
    BY <1>5, <1>7, <2>1, <2>2, <2>4, <2>5
\* When none is found, the bucket is opened unless it is open, to store an empty one.
<1>8. ASSUME j \notin mixed', cfg[t] = NoConfig
      PROVE  /\ r.config = EmptyConfig /\ ~r.isDeleting /\ k = r.config /\ q.db = r.db
             /\ from = "empty" /\ stored[j] \in {NoConfig, EmptyConfig}
             /\ \/ pc'[t] = "storeEmpty" /\ r.db = "open"
                \/ pc'[t] = "mkdir" /\ r.db = "none" /\ stored[j] = NoConfig
  <2>1. /\ r.config = EmptyConfig /\ ~r.isDeleting /\ k = r.config /\ c = EmptyConfig /\ from = "empty"
        /\ stored[j] \in {NoConfig, EmptyConfig}
    BY <1>1, <1>4, <1>8 DEF FoundNone, k
  <2>2. ~c.disabled /\ ~r.config.disabled
    BY <2>1, FreshType
  <2>3. r.db # "open" => stored[j] = NoConfig
    BY <1>6, <1>8, <2>1, <2>2
  <2>4. r.db # "open" => r.db = "none"
    <3>1. pc[t] \notin {"storeConfig", "storedConfig", "unmap"} /\ r.db \in {"none", "open", "closing"}
          /\ (r.db # "open" => stored[j] # r.config)
      BY <1>1, <1>4, <1>8, <2>1, <2>3, FreshType, AbsentAssumption DEF Fields
    <3> HIDE DEF b, r, j, c, from
    <3> QED
      BY <1>4, <1>8, <2>3, <3>1 DEF Shared
  <2> HIDE DEF b, r, j, c, q, from
  <2> QED
    BY <1>5, <1>8, <2>1, <2>2, <2>3, <2>4
<1> HIDE DEF c, from
<1>9. ASSUME j \notin mixed' PROVE NameInv(j)'
  <2>1. Achieved(pc'[t], op'[t], source'[t], cfg'[t], q, stored[j], j \in dir)
    <3>1. pc'[t] = "mkdir" => ~q.isDeleting /\ ~q.config.disabled /\ op'[t] \in Finders
      BY <1>1, <1>5, <1>7, <1>8, <1>9, FreshType
    <3>2. pc'[t] = "storeEmpty" => q.db = "open"
      BY <1>5, <1>7, <1>8, <1>9
    <3>3. pc'[t] = "openFailed" => q.isDeleting /\ op'[t] # "repair"
      BY <1>1, <1>5, <1>7, <1>8, <1>9 DEF Finders
    <3>4. pc'[t] \in {"mkdir", "storeEmpty", "openFailed", "created"}
      BY <1>7, <1>8, <1>9
    <3> HIDE DEF b, r, j, q
    <3> QED
      BY <3>1, <3>2, <3>3, <3>4 DEF Achieved, Opening, Deleting
  <2>2. FoundNone(pc'[t], op'[t], source'[t], cfg'[t], q, stored[j])
    <3>1. pc'[t] \in {"mkdir", "storeEmpty"} =>
             /\ q.config = EmptyConfig /\ ~q.isDeleting /\ stored[j] \in {NoConfig, EmptyConfig}
             /\ source'[t] = "empty"
             /\ pc'[t] = "mkdir" => stored[j] = NoConfig
      BY <1>5, <1>7, <1>8, <1>9
    <3>2. pc'[t] \in {"mkdir", "storeEmpty", "openFailed", "created"}
      BY <1>7, <1>8, <1>9
    <3> HIDE DEF b, r, j, q
    <3> QED
      BY <3>1, <3>2 DEF FoundNone, Opening
  <2>3. q.config = r.config \/ (/\ r.db = "none" /\ stored[j].disabled /\ stored[j] \in Config
                                /\ \A u \in WorkingOn(j) \ {t} : pc[u] \in {"readConfig", "gotConfig"})
    BY <1>1, <1>5, <1>7, <1>8, <1>9
  <2>4. q.db = r.db /\ q.isDeleting = r.isDeleting
    BY <1>5, <1>7, <1>8, <1>9
  <2>5. ASSUME NEW u \in WorkingOn(j) \ {t}
        PROVE  /\ op[u] \in Finders
               /\ Achieved(pc[u], op[u], source[u], cfg[u], q, stored[j], j \in dir)
               /\ FoundNone(pc[u], op[u], source[u], cfg[u], q, stored[j])
    <3>1. /\ Achieved(pc[u], op[u], source[u], cfg[u], r, stored[j], j \in dir)
          /\ FoundNone(pc[u], op[u], source[u], cfg[u], r, stored[j]) /\ op[u] \in Finders
      BY <1>4, <1>9
    <3>2. CASE q.config = r.config
      <4>1. Achieved(pc[u], op[u], source[u], cfg[u], q, stored[j], j \in dir)
        BY <2>4, <3>1, <3>2 DEF Achieved
      <4>2. FoundNone(pc[u], op[u], source[u], cfg[u], q, stored[j])
        BY <2>4, <3>1, <3>2 DEF FoundNone
      <4> QED
        BY <3>1, <4>1, <4>2
    <3>3. CASE stored[j] \in Config /\ stored[j].disabled /\ pc[u] \in {"readConfig", "gotConfig"}
      <4>1. Achieved(pc[u], op[u], source[u], cfg[u], q, stored[j], j \in dir)
        BY <2>4, <3>1, <3>3 DEF Achieved, Opening, Deleting
      <4>2. FoundNone(pc[u], op[u], source[u], cfg[u], q, stored[j])
        <5>1. ~(pc[u] = "gotConfig" /\ cfg[u] = NoConfig)
          <6> SUFFICES ASSUME pc[u] = "gotConfig", cfg[u] = NoConfig PROVE FALSE
            OBVIOUS
          <6>1. stored[j] \in {NoConfig, EmptyConfig}
            BY <3>1 DEF FoundNone
          <6> QED
            BY <3>3, <6>1, FreshType, AbsentAssumption
        <5> QED
          BY <3>3, <5>1 DEF FoundNone, Opening
      <4> QED
        BY <3>1, <4>1, <4>2
    <3> QED
      BY <2>3, <3>2, <3>3
  <2>6. Shared(j, t, pc'[t], op'[t], b, q, stored[j], j \in dir, lock[j])
    <3>1. CASE cfg[t] # NoConfig
      <4>1. /\ stored[j] = q.config /\ pc'[t] # "openMeta" /\ pc[t] # "openMeta"
            /\ q.config.disabled \/ q.db = "open" \/ q.isDeleting
            /\ q.db = "open" => ~q.config.disabled
        BY <1>1, <1>5, <1>7, <1>9, <3>1
      <4> HIDE DEF b, r, j, q
      <4> QED
        BY <1>4, <1>9, <2>4, <4>1 DEF Shared
    <3>2. CASE cfg[t] = NoConfig
      <4>1. /\ q.config = r.config /\ pc'[t] # "openMeta" /\ pc[t] # "openMeta"
            /\ pc'[t] \in Finding(q.db) /\ op'[t] \in Finders
            /\ stored[j] = q.config \/ stored[j] = NoConfig
            /\ q.db = "open" \/ pc'[t] \in Opening
            /\ r.config = EmptyConfig /\ ~r.isDeleting /\ q.db # "closing"
        BY <1>1, <1>5, <1>8, <1>9, <3>2 DEF Finding, Opening
      <4> HIDE DEF b, r, j, q
      <4> QED
        BY <1>4, <1>9, <2>4, <4>1 DEF Shared
    <3> QED
      BY <3>1, <3>2
  <2> HIDE DEF b, q
  <2>7. map[j] = b /\ map'[j] = b /\ bucket'[b] = q
    BY <1>1 DEF b, q
  <2>8. /\ \A o \in Bucket \ {b} : o[1] = j => bucket'[o] = bucket[o]
        /\ Typed /\ NameInv(j) /\ ~Overlapping(j)' /\ b \in Bucket /\ ref'[t] = b /\ Untouched(t)
    BY <1>4, <1>5, <1>9
  <2> QED
    BY <1>1, <2>1, <2>2, <2>5, <2>6, <2>7, <2>8, SharedName
<1>10. ASSUME j \notin mixed' \cup scanned' PROVE ServedInv(j)'
  <2>1. /\ ~ScanOverlapping(j)' /\ \A u \in WorkingOn(j) : u = t
        /\ r.isOpen => r.db = "open" \/ r.config.disabled \/ r.isDeleting \/ op[t] # "write"
    BY <1>1, <1>10, OwnAlone
  <2>2. b \in Bucket /\ map'[j] = b /\ b # NoBucket /\ Untouched(t)
    BY <1>1, <1>4, <1>5, <1>10
  <2>3. /\ pc'[t] \in {"mkdir", "openDb"} => q.db # "open"
        /\ pc'[t] = "openFailed" => q.isDeleting
        /\ pc'[t] \in Working
    BY <1>5, <1>7, <1>8, <1>10 DEF Working
  <2>4. q.isOpen => \/ q.config.disabled \/ q.db = "open" \/ q.isDeleting
                    \/ op'[t] # "write"
    BY <1>1, <1>5, <1>7, <1>8, <1>10, <2>1
  <2> HIDE DEF b, r, q
  <2>5. bucket'[b] = q
    BY DEF q
  <2> QED
    BY <1>1, <2>1, <2>2, <2>3, <2>4, <2>5, OwnServed
<1> QED
  BY <1>1, <1>3, <1>9, <1>10 DEF Keeps

LEMMA OpenFailedStep ==
    ASSUME IInv, Typed', NEW t \in Tasks, OpenFailed(t), History
    PROVE  Keeps(t, id[t])
<1> DEFINE j == id[t]
           b == map[j]
           r == bucket[b]
           q == bucket'[b]
           closed == [bucket EXCEPT ![ref[t]].isOpen = FALSE]
<1>1. /\ pc[t] = "openFailed" /\ id'[t] = j /\ j \in Ids
      /\ UNCHANGED <<map, op, id, cfg, stored, lock, dir>>
      /\ pc[t] \in Working /\ pc[t] \in Looked
      /\ op[t] \in Finders \cup {"configure", "repair"}
      /\ ref[t] \in Bucket /\ ref[t][1] = j
      /\ Typed /\ ObjectInv
  BY DEF OpenFailed, others, IInv, Typed, TypeOK, TaskInv, AtStep, Working, Looked
<1>2. /\ closed \in [Bucket -> Fields]
      /\ closed[ref[t]].db = bucket[ref[t]].db /\ closed[ref[t]].config = bucket[ref[t]].config
      /\ closed[ref[t]].isDeleting = bucket[ref[t]].isDeleting /\ ~closed[ref[t]].isOpen
      /\ \A o \in Bucket \ {ref[t]} : closed[o] = bucket[o]
  <2>1. bucket[ref[t]] \in Fields /\ [bucket[ref[t]] EXCEPT !.isOpen = FALSE] \in Fields
    BY <1>1, FieldsUpdate DEF Typed, TypeOK
  <2> QED
    BY <1>1, <2>1 DEF Typed, TypeOK, Fields
<1>3. CASE op[t] = "repair"
  <2>1. /\ bucket' = [bucket EXCEPT ![ref[t]].repairing = FALSE] /\ pc' = [pc EXCEPT ![t] = "failed"]
        /\ UNCHANGED <<holder, ref, source>>
    BY <1>3 DEF OpenFailed, RepairEnds, Goto
  <2>2. Untouched(t) /\ pc'[t] = "failed" /\ OnlyName(j)
    BY <1>1, <2>1 DEF Untouched, Typed, TypeOK, OnlyName, NameSame
  <2>3. Local(t)
    BY <1>1, <1>3, <2>1, <2>2 DEF Local, Deleting, Working
  <2>4. j \in mixed
    BY <1>1, <1>3, OwnFacts DEF Achieved
  <2>5. j \in mixed'
    BY <2>4, HistoryGrows DEF Grows
  <2> QED
    BY <1>1, <2>3, <2>5 DEF Keeps
\* The object is closed and createBucket throws.
<1>4. CASE op[t] # "repair" /\ (source[t] # "stored" \/ Gone(t))
  <2>1. bucket' = closed /\ Throw(t) /\ UNCHANGED <<ref, source>>
    BY <1>4 DEF OpenFailed
  <2> HIDE DEF closed
  <2>2. /\ Untouched(t) /\ pc'[t] \in {"list", "failed"}
        /\ holder' = IF holder = t THEN Nobody ELSE holder
    BY <1>1, <2>1, ThrowTypes, ThrowEffect DEF Untouched, Typed
  <2>3. OnlyName(j)
    BY <1>1, <1>2, <2>1 DEF OnlyName, NameSame
  <2>4. pc'[t] \notin Working \cup Deleting \cup Looked \cup {"idle"}
    BY <2>2 DEF Working, Deleting, Looked, Opening, Repairing
  <2>5. Local(t)
    BY <1>1, <2>2, <2>3, <2>4 DEF Local, Finders
  <2>6. ASSUME j \notin mixed' PROVE NameInv(j)'
    <3>1. /\ ~Overlapping(j)' /\ NameInv(j) /\ b \in Bucket /\ r \in Fields /\ ref[t] = b
          /\ Shared(j, t, pc[t], op[t], b, r, stored[j], j \in dir, lock[j])
          /\ \A u \in WorkingOn(j) \ {t} :
                /\ op[u] \in Finders
                /\ Achieved(pc[u], op[u], source[u], cfg[u], r, stored[j], j \in dir)
                /\ FoundNone(pc[u], op[u], source[u], cfg[u], r, stored[j])
      BY <1>1, <2>6, OwnState
    <3>2. /\ q.db = r.db /\ q.config = r.config /\ q.isDeleting = r.isDeleting
          /\ \A o \in Bucket \ {b} : bucket'[o] = bucket[o]
      BY <1>2, <2>1, <3>1
    <3>3. Shared(j, t, pc'[t], op'[t], b, q, stored[j], j \in dir, lock[j])
      <4>1. /\ pc[t] \notin Opening \cup SoloSteps \cup {"storeConfig", "storedConfig", "unmap"}
                              \cup {"readConfig", "gotConfig", "openMeta"}
            /\ pc'[t] # "openMeta" /\ pc[t] \notin Finding(r.db)
        BY <1>1, <2>2 DEF Opening, SoloSteps, Finding
      <4> HIDE DEF r, b, j, q
      <4> QED
        BY <1>1, <2>4, <3>1, <3>2, <4>1 DEF Shared
    <3>4. ASSUME NEW u \in WorkingOn(j) \ {t}
          PROVE  /\ op[u] \in Finders
                 /\ Achieved(pc[u], op[u], source[u], cfg[u], q, stored[j], j \in dir)
                 /\ FoundNone(pc[u], op[u], source[u], cfg[u], q, stored[j])
      <4>1. Achieved(pc[u], op[u], source[u], cfg[u], q, stored[j], j \in dir)
        BY <3>1, <3>2 DEF Achieved
      <4>2. FoundNone(pc[u], op[u], source[u], cfg[u], q, stored[j])
        BY <3>1, <3>2 DEF FoundNone
      <4> QED
        BY <3>1, <4>1, <4>2
    <3> HIDE DEF b, q
    <3>5. map[j] = b /\ map'[j] = b /\ bucket'[b] = q
      BY <1>1 DEF b, q
    <3>6. \A o \in Bucket \ {b} : o[1] = j => bucket'[o] = bucket[o]
      BY <3>2
    <3> QED
      BY <1>1, <2>2, <2>4, <3>1, <3>3, <3>4, <3>5, <3>6, SharedName
  <2>7. ASSUME j \notin mixed' \cup scanned' PROVE ServedInv(j)'
    <3>1. ~ScanOverlapping(j)' /\ \A u \in WorkingOn(j) : u = t
      BY <1>1, <2>7, OwnAlone
    <3> QED
      BY <1>1, <2>2, <2>4, <2>6, <2>7, <3>1, LeaveServed
  <2> QED
    BY <1>1, <2>5, <2>6, <2>7 DEF Keeps
\* The catch clause tries to open it with an empty configuration.
<1>5. CASE op[t] # "repair" /\ source[t] = "stored" /\ ~Gone(t)
  <2>1. UpdateDBState(t, EmptyConfig, "empty", closed) /\ UNCHANGED holder
    BY <1>5 DEF OpenFailed
  <2> HIDE DEF closed
  <2>2. /\ b \in Bucket /\ b[1] = j
        /\ source'[t] = "empty" /\ ref'[t] = b
        /\ \A u \in Tasks \ {t} : pc'[u] = pc[u] /\ ref'[u] = ref[u] /\ source'[u] = source[u]
        /\ \A o \in Bucket \ {b} : bucket'[o] = closed[o]
        /\ q.config = closed[b].config /\ q.isDeleting = closed[b].isDeleting /\ q.isOpen = closed[b].isOpen
        /\ \/ /\ EmptyConfig.disabled /\ closed[b].db = "open" /\ q.db = "closing"
              /\ pc'[t] = IF "empty" = "empty" THEN "storeEmpty" ELSE "created"
           \/ /\ EmptyConfig.disabled <=> closed[b].db # "open"
              /\ q.db = closed[b].db
              /\ pc'[t] = IF "empty" = "empty" THEN "storeEmpty" ELSE "created"
           \/ /\ ~EmptyConfig.disabled /\ closed[b].db # "open" /\ q.db = closed[b].db
              /\ pc'[t] = IF closed[b].isDeleting THEN "openFailed" ELSE "mkdir"
    <3>1. /\ Typed /\ EmptyConfig \in Config /\ closed \in [Bucket -> Fields]
          /\ "empty" \in {"supplied", "stored", "empty"}
      BY <1>1, <1>2, FreshType
    <3> QED
      BY <1>5, <2>1, <3>1, UpdateFacts
  <2>3. Untouched(t) /\ pc'[t] \in {"storeEmpty", "openFailed", "mkdir"}
    BY <1>1, <2>2, FreshType DEF Untouched
  <2>4. OnlyName(j)
    BY <1>1, <1>2, <2>2 DEF OnlyName, NameSame
  <2>5. pc'[t] \notin Deleting \cup {"idle"} /\ pc'[t] \in Working
    BY <2>3 DEF Working, Deleting
  <2>6. Local(t)
    BY <1>1, <2>1, <2>3, <2>4, <2>5 DEF Local, Finders, Deleting, IInv, HolderInv
  <2>7. ASSUME j \notin mixed'
        PROVE  /\ ~Overlapping(j)' /\ NameInv(j) /\ r \in Fields /\ ref[t] = b
               /\ Shared(j, t, pc[t], op[t], b, r, stored[j], j \in dir, lock[j])
               /\ \A u \in WorkingOn(j) \ {t} :
                     /\ op[u] \in Finders
                     /\ Achieved(pc[u], op[u], source[u], cfg[u], r, stored[j], j \in dir)
                     /\ FoundNone(pc[u], op[u], source[u], cfg[u], r, stored[j])
               /\ q.db = r.db /\ q.config = r.config /\ q.isDeleting = r.isDeleting /\ ~q.isOpen
               /\ \A o \in Bucket \ {b} : bucket'[o] = bucket[o]
               /\ pc'[t] = "openFailed" /\ r.isDeleting
    <3>1. /\ ~Overlapping(j)' /\ NameInv(j) /\ r \in Fields /\ ref[t] = b
          /\ Achieved(pc[t], op[t], source[t], cfg[t], r, stored[j], j \in dir)
          /\ Shared(j, t, pc[t], op[t], b, r, stored[j], j \in dir, lock[j])
          /\ \A u \in WorkingOn(j) \ {t} :
                /\ op[u] \in Finders
                /\ Achieved(pc[u], op[u], source[u], cfg[u], r, stored[j], j \in dir)
                /\ FoundNone(pc[u], op[u], source[u], cfg[u], r, stored[j])
      BY <1>1, <2>7, OwnState
    <3>2. r.isDeleting /\ r.db # "open"
      BY <1>1, <1>5, <3>1 DEF Achieved, Shared
    <3>3. /\ closed[b].db = r.db /\ closed[b].config = r.config /\ ~closed[b].isOpen
          /\ closed[b].isDeleting = r.isDeleting /\ \A o \in Bucket \ {b} : closed[o] = bucket[o]
      BY <1>2, <3>1
    <3> HIDE DEF b, r, q
    <3> QED
      BY <2>2, <3>1, <3>2, <3>3, FreshType
  <2>8. ASSUME j \notin mixed' PROVE NameInv(j)'
    <3>1. Shared(j, t, pc'[t], op'[t], b, q, stored[j], j \in dir, lock[j])
      <4> HIDE DEF r, b, j, q
      <4> QED
        BY <1>1, <2>7, <2>8 DEF Shared
    <3>2. Achieved(pc'[t], op'[t], source'[t], cfg'[t], q, stored[j], j \in dir)
      BY <1>1, <1>5, <2>7, <2>8 DEF Achieved, Opening, Deleting
    <3>3. FoundNone(pc'[t], op'[t], source'[t], cfg'[t], q, stored[j])
      BY <2>7, <2>8 DEF FoundNone, Opening
    <3>4. ASSUME NEW u \in WorkingOn(j) \ {t}
          PROVE  /\ op[u] \in Finders
                 /\ Achieved(pc[u], op[u], source[u], cfg[u], q, stored[j], j \in dir)
                 /\ FoundNone(pc[u], op[u], source[u], cfg[u], q, stored[j])
      <4>1. Achieved(pc[u], op[u], source[u], cfg[u], q, stored[j], j \in dir)
        BY <2>7, <2>8 DEF Achieved
      <4>2. FoundNone(pc[u], op[u], source[u], cfg[u], q, stored[j])
        BY <2>7, <2>8 DEF FoundNone
      <4> QED
        BY <2>7, <2>8, <4>1, <4>2
    <3> HIDE DEF b, q
    <3>5. map[j] = b /\ map'[j] = b /\ bucket'[b] = q
      BY <1>1 DEF b, q
    <3>6. /\ \A o \in Bucket \ {b} : o[1] = j => bucket'[o] = bucket[o]
          /\ ~Overlapping(j)' /\ NameInv(j)
      BY <2>7, <2>8
    <3> QED
      BY <1>1, <2>2, <2>3, <3>1, <3>2, <3>3, <3>4, <3>5, <3>6, SharedName
  <2>9. ASSUME j \notin mixed' \cup scanned' PROVE ServedInv(j)'
    <3>1. ~ScanOverlapping(j)' /\ \A u \in WorkingOn(j) : u = t
      BY <1>1, <2>9, OwnAlone
    <3>2. ~q.isOpen /\ q.isDeleting /\ pc'[t] = "openFailed" /\ map'[j] = b
      BY <1>1, <2>7, <2>9
    <3> HIDE DEF b
    <3> QED
      BY <1>1, <2>2, <2>3, <3>1, <3>2, OwnServed
  <2> QED
    BY <1>1, <2>6, <2>8, <2>9 DEF Keeps
<1> QED
  BY <1>1, <1>3, <1>4, <1>5 DEF OpenFailed

-----------------------------------------------------------------------------
(* The starts. *)

\* Those that are at work on a name a task joins.
LEMMA CrewJoined ==
    ASSUME IInv, Typed', NEW t \in Tasks, NEW j \in Ids, pc[t] \notin Working, Untouched(t),
           id'[t] = j, pc'[t] \in Working, ~Overlapping(j)'
    PROVE  /\ t \notin WorkingOn(j)
           /\ \A u \in WorkingOn(j) : op'[t] \in Finders /\ op[u] \in Finders /\ pc[u] \in FinderSteps
           /\ HolderInv' /\ ~ScanOverlapping(j)' => WorkingOn(j) = {}
<1>1. t \notin WorkingOn(j) /\ t \in WorkingOn(j)'
  BY DEF WorkingOn
<1>2. \A u \in WorkingOn(j) : u # t /\ u \in WorkingOn(j)' /\ op'[u] = op[u]
  BY <1>1, CrewAfter DEF Untouched, WorkingOn
<1>3. ASSUME NEW u \in WorkingOn(j)
      PROVE  op'[t] \in Finders /\ op[u] \in Finders /\ pc[u] \in FinderSteps
  <2>1. op'[t] \notin {"configure", "delete", "repair"} /\ op'[u] \notin {"configure", "delete", "repair"}
    BY <1>1, <1>2 DEF Overlapping
  <2>2. u \in Tasks /\ pc[u] \in Working /\ op[u] \in Finders
    BY <1>2, <2>1, WorkingOps DEF WorkingOn, IInv, Typed
  <2>3. pc[u] \in FinderSteps
    BY <2>2, WorkingOps DEF IInv, Typed, FinderSteps
  <2>4. op'[t] \in Finders
    BY <2>1 DEF Typed, TaskInv, AtStep, Working, Deleting, Repairing, Opening, Finders
  <2> QED
    BY <2>2, <2>3, <2>4
<1>4. ASSUME HolderInv', ~ScanOverlapping(j)' PROVE WorkingOn(j) = {}
  <2> SUFFICES ASSUME NEW u \in WorkingOn(j) PROVE FALSE
    OBVIOUS
  <2>1. op'[t] = "write" /\ op'[u] = "write"
    BY <1>1, <1>2, <1>3, <1>4 DEF ScanOverlapping, Finders
  <2>2. u \in Tasks /\ pc'[u] \in Working
    BY <1>2 DEF WorkingOn
  <2> QED
    BY <1>2, <1>4, <2>1, <2>2 DEF HolderInv
<1> QED
  BY <1>1, <1>3, <1>4

\* createBucket by a task that joins those at work on name i.
LEMMA CreateKeeps ==
    ASSUME IInv, Typed', NEW t \in Tasks, NEW i \in Ids, NEW c \in Config \cup {NoConfig},
           CreateBucket(t, i, c), History, Untouched(t), pc[t] \notin Working,
           UNCHANGED <<dir, lock, stored>>,
           IF c = NoConfig THEN op'[t] \in Finders ELSE op'[t] = "configure",
           pc[t] # "idle" => op[t] # "delete",
           holder' = holder \/ holder \in {Nobody, t},
           op'[t] = "write" => holder' = t
    PROVE  Keeps(t, i)
<1>1. PICK b \in Bucket :
         /\ b[1] = i /\ map' = [map EXCEPT ![i] = b] /\ map'[i] = b
         /\ \/ /\ map[i] = b
               /\ bucket' = [bucket EXCEPT ![b].isOpen = (bucket[b].db = "open")]
            \/ /\ map[i] = NoBucket /\ ~InUse(b)
               /\ bucket' = [bucket EXCEPT ![b] = Fresh]
         /\ id' = [id EXCEPT ![t] = i] /\ cfg' = [cfg EXCEPT ![t] = c]
         /\ pc' = [pc EXCEPT ![t] = IF c = NoConfig THEN "readConfig" ELSE "storeConfig"]
  BY CreateEffect, SMTT(20) DEF IInv
<1> DEFINE r == bucket[b]
           q == bucket'[b]
<1>2. /\ id'[t] = i /\ pc'[t] = IF c = NoConfig THEN "readConfig" ELSE "storeConfig"
      /\ Typed
  BY <1>1 DEF IInv, Typed, TypeOK
<1>3. /\ \A o \in Bucket \ {b} : bucket'[o] = bucket[o]
      /\ \/ /\ map[i] = b /\ q.db = r.db /\ q.config = r.config /\ q.isDeleting = r.isDeleting
            /\ q.isOpen <=> r.db = "open"
         \/ map[i] = NoBucket /\ ~InUse(b) /\ q = Fresh
  <2>1. r \in Fields
    BY DEF IInv, TypeOK
  <2>2. CASE map[i] = b /\ bucket' = [bucket EXCEPT ![b].isOpen = (bucket[b].db = "open")]
    <3> DEFINE v == (bucket[b].db = "open")
               x == [r EXCEPT !.isOpen = v]
    <3>1. bucket' = [bucket EXCEPT ![b] = x]
      BY <2>2
    <3>2. v <=> r.db = "open"
      OBVIOUS
    <3> HIDE DEF v
    <3>3. x.db = r.db /\ x.config = r.config /\ x.isDeleting = r.isDeleting /\ x.isOpen = v
      BY <2>1 DEF Fields
    <3> HIDE DEF x
    <3>4. q = x /\ \A o \in Bucket \ {b} : bucket'[o] = bucket[o]
      BY <3>1 DEF IInv, TypeOK
    <3> QED
      BY <2>2, <3>2, <3>3, <3>4
  <2>3. CASE map[i] = NoBucket /\ ~InUse(b) /\ bucket' = [bucket EXCEPT ![b] = Fresh]
    BY <2>3 DEF IInv, TypeOK
  <2> QED
    BY <1>1, <2>2, <2>3
<1> HIDE DEF q
<1>4. pc'[t] \in Working /\ pc'[t] \notin Deleting \cup Looked \cup {"idle"}
  BY <1>2 DEF Working, Deleting, Repairing, Opening, Looked
<1>5. Local(t)
  <2>1. OnlyName(i)
    BY <1>1, <1>3 DEF OnlyName, NameSame, IInv, TypeOK
  <2>2. map'[i] = map[i] \/ map[i] = NoBucket
    BY <1>1
  <2> QED
    BY <1>2, <1>4, <2>1, <2>2 DEF Local
<1>6. ASSUME i \notin mixed'
      PROVE  /\ NameInv(i) /\ ~Overlapping(i)' /\ t \notin WorkingOn(i)
             /\ \A u \in WorkingOn(i) : op'[t] \in Finders /\ op[u] \in Finders /\ pc[u] \in FinderSteps
  BY <1>2, <1>4, <1>6, HistoryGrows, CrewJoined DEF IInv, NamesInv
<1>7. Achieved(pc'[t], op'[t], source'[t], cfg'[t], q, stored[i], i \in dir)
  BY <1>2 DEF Achieved, Opening, Deleting
<1>8. FoundNone(pc'[t], op'[t], source'[t], cfg'[t], q, stored[i])
  BY <1>2 DEF FoundNone, Opening
<1>9. ASSUME i \notin mixed', map[i] = b PROVE NameInv(i)'
  <2>1. b # NoBucket /\ r \in Fields
    BY AbsentAssumption DEF IInv, TypeOK
  <2>2. q.db = r.db /\ q.config = r.config /\ q.isDeleting = r.isDeleting
    BY <1>3, <1>9, <2>1
  <2>3. Shared(i, t, "idle", op[t], map[i], bucket[map[i]], stored[i], i \in dir, lock[i])
    BY <1>2, <1>6, <1>9, <2>1, SharedBefore
  <2>4. Shared(i, t, pc'[t], op'[t], b, q, stored[i], i \in dir, lock[i])
    <3>1. Shared(i, t, "idle", op[t], b, r, stored[i], i \in dir, lock[i])
      BY <1>9, <2>3
    <3>2. "idle" \notin Opening \cup SoloSteps \cup Finding(r.db)
      BY DEF Opening, SoloSteps, Finding
    <3>3. \/ pc'[t] = "storeConfig" /\ pc'[t] \in SoloSteps
          \/ pc'[t] = "readConfig"
      BY <1>2 DEF SoloSteps
    <3> HIDE DEF r
    <3> QED
      BY <2>2, <3>1, <3>2, <3>3 DEF Shared
  <2>5. ASSUME NEW u \in WorkingOn(i) \ {t}
        PROVE  /\ op[u] \in Finders
               /\ Achieved(pc[u], op[u], source[u], cfg[u], q, stored[i], i \in dir)
               /\ FoundNone(pc[u], op[u], source[u], cfg[u], q, stored[i])
    <3>1. /\ Achieved(pc[u], op[u], source[u], cfg[u], r, stored[i], i \in dir)
          /\ FoundNone(pc[u], op[u], source[u], cfg[u], r, stored[i]) /\ op[u] \in Finders
      BY <1>6, <1>9 DEF NameInv, Progress
    <3>2. Achieved(pc[u], op[u], source[u], cfg[u], q, stored[i], i \in dir)
      BY <2>2, <3>1 DEF Achieved
    <3>3. FoundNone(pc[u], op[u], source[u], cfg[u], q, stored[i])
      BY <2>2, <3>1 DEF FoundNone
    <3> QED
      BY <3>1, <3>2, <3>3
  <2>6. map'[i] = b /\ bucket'[b] = q
    BY <1>1 DEF q
  <2> QED
    BY <1>2, <1>3, <1>4, <1>6, <1>7, <1>8, <1>9, <2>4, <2>5, <2>6, SharedName
<1>10. ASSUME i \notin mixed', map[i] = NoBucket PROVE NameInv(i)'
  <2>1. WorkingOn(i) = {}
    BY <1>6, <1>10, AbsentAssumption DEF NameInv, Bound
  <2>2. \A u \in WorkingOn(i)' : u = t
    BY <1>2, <2>1, CrewAfter
  <2>3. /\ i \notin dir /\ lock[i] = NoBucket
        /\ stored[i] # NoConfig => stored[i].disabled
        /\ \A o \in Bucket : o[1] = i => bucket[o].db = "none"
    BY <1>6, <1>10, AbsentAssumption DEF NameInv, Bound, Absent
  <2>4. q = Fresh /\ map'[i] = b /\ b # NoBucket
    BY <1>1, <1>3, <1>10, AbsentAssumption
  <2>5. /\ q.db = "none" /\ q.config = EmptyConfig /\ ~q.config.disabled /\ ~q.isDeleting
        /\ bucket'[b] = q
    BY <2>4, FreshType DEF q
  <2>6. t \in WorkingOn(i)'
    BY <1>2, <1>4 DEF WorkingOn
  <2>7. Bound(i)'
    BY <1>1, <1>3, <1>4, <2>2, <2>3 DEF Bound
  <2>8. Locked(i)'
    <3>1. ~At(i, {"openMeta"})'
      BY <1>2, <2>2 DEF At
    <3> QED
      BY <2>2, <2>3, <2>4, <2>5, <3>1 DEF Locked
  <2>9. Progress(i)'
    BY <1>7, <1>8, <2>2, <2>4, <2>5 DEF Progress
  <2>10. Agreed(i)'
    <3>1. CASE pc'[t] = "storeConfig"
      <4>1. At(i, {"storeConfig", "storedConfig"})'
        BY <2>6, <3>1 DEF At
      <4> QED
        BY <4>1 DEF Agreed
    <3>2. CASE pc'[t] = "readConfig"
      <4>1. op'[t] \in Finders /\ pc'[t] \in Finding(q.db)
        BY <1>2, <2>5, <3>2 DEF Finding
      <4>2. CASE stored'[i] = NoConfig
        BY <2>4, <2>5, <2>6, <4>1, <4>2 DEF Agreed
      <4>3. CASE stored'[i] # NoConfig
        BY <2>2, <2>3, <2>4, <2>5, <2>6, <3>2, <4>3 DEF Agreed
      <4> QED
        BY <4>2, <4>3
    <3> QED
      BY <1>2, <3>1, <3>2
  <2>11. Opened(i)'
    <3>1. CASE pc'[t] = "storeConfig"
      <4>1. At(i, Opening \cup {"storeConfig", "storedConfig", "closeToRepair", "repairAndOpen"})'
        BY <2>6, <3>1 DEF At
      <4> QED
        BY <4>1 DEF Opened
    <3>2. CASE pc'[t] = "readConfig"
      <4>1. At(i, {"readConfig", "gotConfig"})'
        BY <2>6, <3>2 DEF At
      <4>2. stored'[i] # q.config
        BY <2>3, <2>5, FreshType, AbsentAssumption
      <4> QED
        BY <2>4, <2>5, <4>1, <4>2 DEF Opened
    <3> QED
      BY <1>2, <3>1, <3>2
  <2> QED
    BY <1>6, <1>10, <2>4, <2>7, <2>8, <2>9, <2>10, <2>11 DEF NameInv, Absent
<1>11. ASSUME i \notin mixed' \cup scanned' PROVE ServedInv(i)'
  <2>1. ~ScanOverlapping(i)' /\ ~Overlapping(i)' /\ Grows
    BY <1>11, HistoryGrows
  <2>2. HolderInv'
    BY <1>5, <2>1, LocalStep
  <2>3. WorkingOn(i) = {}
    BY <1>2, <1>4, <2>1, <2>2, CrewJoined
  <2>4. q.isOpen => q.db = "open"
    BY <1>3, FreshType
  <2>5. map'[i] = b /\ bucket'[b] = q /\ pc'[t] \notin {"mkdir", "openDb", "openFailed"}
    BY <1>1, <1>2 DEF q
  <2> QED
    BY <1>2, <2>1, <2>3, <2>4, <2>5, OwnServed
<1>12. map[i] = b \/ map[i] = NoBucket
  BY <1>1
<1> QED
  BY <1>2, <1>5, <1>9, <1>10, <1>11, <1>12 DEF Keeps

LEMMA StartDeleteStep ==
    ASSUME IInv, Typed', NEW t \in Tasks, NEW i \in Ids, pc[t] = "idle", StartDelete(t, i), History
    PROVE  Keeps(t, i)
<1> DEFINE b == map[i]
           r == bucket[b]
           q == bucket'[b]
<1>1. /\ op'[t] = "delete" /\ id'[t] = i /\ ref'[t] = b /\ Untouched(t) /\ Typed
      /\ UNCHANGED <<map, holder, dir, lock, stored>>
      /\ \/ b = NoBucket /\ pc'[t] = "failed" /\ bucket' = bucket
         \/ /\ b # NoBucket
            /\ bucket' = [bucket EXCEPT ![b].isDeleting = TRUE,
                                        ![b].db = IF @ = "open" THEN "closing" ELSE @]
            /\ pc'[t] = IF r.db = "none" THEN "refused" ELSE "close"
  <2>1. /\ op'[t] = "delete" /\ id'[t] = i /\ ref'[t] = b /\ Typed
        /\ UNCHANGED <<map, holder, dir, lock, stored, cfg, source>>
        /\ \A u \in Tasks \ {t} : op'[u] = op[u] /\ id'[u] = id[u] /\ ref'[u] = ref[u]
    BY DEF StartDelete, semVars, others, IInv, Typed, TypeOK
  <2>2. \A p : Goto(t, p) => pc'[t] = p /\ \A u \in Tasks \ {t} : pc'[u] = pc[u]
    BY DEF Goto, IInv, TypeOK
  <2>3. CASE b = NoBucket
    BY <2>1, <2>2, <2>3 DEF StartDelete, Untouched
  <2>4. CASE b # NoBucket
    <3>1. /\ bucket' = [bucket EXCEPT ![b].isDeleting = TRUE,
                                      ![b].db = IF @ = "open" THEN "closing" ELSE @]
          /\ Goto(t, IF r.db = "none" THEN "refused" ELSE "close")
      BY <2>4 DEF StartDelete
    <3> QED
      BY <2>1, <2>2, <2>4, <3>1 DEF Untouched
  <2> QED
    BY <2>3, <2>4
<1>2. CASE b = NoBucket
  <2>1. pc'[t] \notin Working \cup {"idle"} /\ pc[t] \notin Working /\ Grows
    BY <1>1, <1>2, HistoryGrows, AbsentAssumption DEF Working
  <2> QED
    BY <1>1, <1>2, <2>1, IdleStep
<1>3. CASE b # NoBucket
  <2>1. b \in Bucket /\ b[1] = i /\ r \in Fields
    BY <1>3 DEF IInv, TypeOK, ObjectInv
  <2>2. /\ \A o \in Bucket \ {b} : bucket'[o] = bucket[o]
        /\ q.isDeleting /\ q.config = r.config /\ q.isOpen = r.isOpen
        /\ q.db = IF r.db = "open" THEN "closing" ELSE r.db
    <3> DEFINE x == [r EXCEPT !.isDeleting = TRUE]
               v == IF r.db = "open" THEN "closing" ELSE r.db
               y == [x EXCEPT !.db = v]
    <3>1. x.db = r.db
      BY <2>1 DEF Fields
    <3>2. bucket' = [bucket EXCEPT ![b] = y]
      BY <1>1, <1>3, <2>1, <3>1 DEF IInv, TypeOK
    <3> HIDE DEF v
    <3>3. y.isDeleting /\ y.config = r.config /\ y.isOpen = r.isOpen /\ y.db = v
      BY <2>1 DEF Fields
    <3> HIDE DEF y, b
    <3>4. bucket'[b] = y /\ \A o \in Bucket \ {b} : bucket'[o] = bucket[o]
      BY <2>1, <3>2 DEF IInv, TypeOK
    <3> QED
      BY <3>3, <3>4 DEF v
  <2> HIDE DEF q
  <2>3. pc'[t] = IF r.db = "none" THEN "refused" ELSE "close"
    BY <1>1, <1>3
  <2>4. /\ pc'[t] \in Working /\ pc'[t] \in Looked /\ pc'[t] \in Deleting /\ pc'[t] # "idle"
        /\ pc[t] \notin Working
    BY <1>1, <1>3, AbsentAssumption DEF Working, Deleting, Looked
  <2>5. Local(t)
    <3>1. OnlyName(i)
      BY <1>1, <2>1, <2>2 DEF OnlyName, NameSame
    <3> QED
      BY <1>1, <2>4, <3>1 DEF Local
  <2>6. ASSUME i \notin mixed'
        PROVE  NameInv(i) /\ ~Overlapping(i)' /\ t \notin WorkingOn(i) /\ WorkingOn(i) = {}
    BY <1>1, <2>4, <2>6, HistoryGrows, CrewJoined DEF IInv, NamesInv, Finders
  <2>7. ASSUME i \notin mixed' PROVE NameInv(i)'
    <3>1. Shared(i, t, "idle", op[t], b, r, stored[i], i \in dir, lock[i])
      BY <1>1, <1>3, <2>6, <2>7, SharedBefore
    <3>2. /\ lock[i] = IF r.db # "none" THEN b ELSE NoBucket
          /\ stored[i] = r.config
      <4>1. ~Rest(i, t, {"openMeta"}) /\ ~Rest(i, t, Finding(r.db))
        BY <2>6, <2>7 DEF Rest
      <4>2. "idle" \notin Finding(r.db) /\ "idle" \notin Working /\ WorkingOn(i) \ {t} = {}
        BY <2>6, <2>7 DEF Finding, Opening, Working
      <4> HIDE DEF b, r
      <4> QED
        BY <3>1, <4>1, <4>2 DEF Shared
    <3>3. Achieved(pc'[t], op'[t], source'[t], cfg'[t], q, stored[i], i \in dir)
      <4>1. /\ pc'[t] = "refused" => q.db = "none"
            /\ pc'[t] = "close" => q.db = "closing"
        BY <2>1, <2>2, <2>3 DEF Fields
      <4> QED
        BY <2>2, <2>3, <4>1 DEF Achieved, Opening
    <3>4. FoundNone(pc'[t], op'[t], source'[t], cfg'[t], q, stored[i])
      BY <2>3 DEF FoundNone, Opening
    <3>5. q.db # "open" /\ (q.db = "none" <=> r.db = "none") /\ pc'[t] # "openMeta"
      BY <2>1, <2>2, <2>3 DEF Fields
    <3> HIDE DEF b
    <3>6. map[i] = b /\ map'[i] = b /\ bucket'[b] = q
      BY <1>1 DEF b, q
    <3>7. \A u \in WorkingOn(i) : u = t
      BY <2>6, <2>7
    <3>8. NameInv(i) /\ ~Overlapping(i)' /\ \A o \in Bucket \ {b} : o[1] = i => bucket'[o] = bucket[o]
      BY <2>2, <2>6, <2>7
    <3> QED
      BY <1>1, <2>1, <2>2, <3>2, <3>3, <3>4, <3>5, <3>6, <3>7, <3>8, SoloName
  <2>8. ASSUME i \notin mixed' \cup scanned' PROVE ServedInv(i)'
    <3>1. ~ScanOverlapping(i)' /\ WorkingOn(i) = {}
      BY <2>6, <2>8, HistoryGrows
    <3>2. map'[i] = b /\ bucket'[b] = q /\ pc'[t] \notin {"mkdir", "openDb", "openFailed"}
      BY <1>1, <2>3 DEF q
    <3> HIDE DEF b
    <3> QED
      BY <1>1, <2>1, <2>2, <3>1, <3>2, OwnServed
  <2> QED
    BY <1>1, <2>5, <2>7, <2>8 DEF Keeps
<1> QED
  BY <1>2, <1>3

LEMMA StartRepairStep ==
    ASSUME IInv, Typed', NEW t \in Tasks, NEW i \in Ids, pc[t] = "idle", StartRepair(t, i), History
    PROVE  Keeps(t, i)
<1> DEFINE b == map[i]
           r == bucket[b]
           q == bucket'[b]
<1>1. /\ op'[t] = "repair" /\ id'[t] = i /\ ref'[t] = b /\ Untouched(t) /\ Typed
      /\ UNCHANGED <<map, holder, dir, lock, stored>>
      /\ \/ pc'[t] = "failed" /\ bucket' = bucket
         \/ /\ b # NoBucket
            /\ \/ r.db = "open" /\ bucket' = [bucket EXCEPT ![b].db = "closing"] /\ pc'[t] = "closeToRepair"
               \/ r.db # "open" /\ bucket' = [bucket EXCEPT ![b].repairing = TRUE] /\ pc'[t] = "repair"
  BY DEF StartRepair, IsOpen, Goto, semVars, others, Untouched, IInv, Typed, TypeOK
<1>2. CASE pc'[t] = "failed" /\ bucket' = bucket
  <2>1. pc'[t] \notin Working \cup {"idle"} /\ pc[t] \notin Working /\ Grows
    BY <1>2, HistoryGrows DEF Working
  <2> QED
    BY <1>1, <1>2, <2>1, IdleStep
<1>3. CASE /\ b # NoBucket
           /\ \/ r.db = "open" /\ bucket' = [bucket EXCEPT ![b].db = "closing"] /\ pc'[t] = "closeToRepair"
              \/ r.db # "open" /\ bucket' = [bucket EXCEPT ![b].repairing = TRUE] /\ pc'[t] = "repair"
  <2>1. b \in Bucket /\ b[1] = i /\ r \in Fields
    BY <1>3 DEF IInv, TypeOK, ObjectInv
  <2>2. /\ \A o \in Bucket \ {b} : bucket'[o] = bucket[o]
        /\ q.isDeleting = r.isDeleting /\ q.config = r.config /\ q.isOpen = r.isOpen
        /\ \/ r.db = "open" /\ q.db = "closing" /\ pc'[t] = "closeToRepair"
           \/ r.db # "open" /\ q.db = r.db /\ pc'[t] = "repair"
    BY <1>3, <2>1 DEF IInv, TypeOK, Fields
  <2> HIDE DEF q
  <2>3. /\ pc'[t] \in Working /\ pc'[t] \in Looked /\ pc'[t] \notin Deleting /\ pc'[t] # "idle"
        /\ pc[t] \notin Working
    BY <2>2 DEF Working, Deleting, Repairing, Looked
  <2>4. Local(t)
    <3>1. OnlyName(i)
      BY <1>1, <2>1, <2>2 DEF OnlyName, NameSame
    <3> QED
      BY <1>1, <2>3, <3>1 DEF Local
  <2>5. ASSUME i \notin mixed'
        PROVE  NameInv(i) /\ ~Overlapping(i)' /\ t \notin WorkingOn(i) /\ WorkingOn(i) = {}
    BY <1>1, <2>3, <2>5, HistoryGrows, CrewJoined DEF IInv, NamesInv, Finders
  <2>6. ASSUME i \notin mixed' PROVE NameInv(i)'
    <3>1. Shared(i, t, "idle", op[t], b, r, stored[i], i \in dir, lock[i])
      BY <1>1, <1>3, <2>5, <2>6, SharedBefore
    <3>2. /\ lock[i] = IF r.db # "none" THEN b ELSE NoBucket
          /\ stored[i] = r.config
          /\ r.db = "open" => i \in dir /\ ~r.isDeleting /\ ~r.config.disabled
          /\ r.db # "open" => r.config.disabled \/ r.isDeleting
      <4>1. /\ ~Rest(i, t, {"openMeta"}) /\ ~Rest(i, t, Finding(r.db)) /\ ~Rest(i, t, Opening)
            /\ ~Rest(i, t, {"readConfig", "gotConfig"})
        BY <2>5, <2>6 DEF Rest
      <4>2. "idle" \notin Finding(r.db) \cup Opening \cup SoloSteps \cup Working /\ WorkingOn(i) \ {t} = {}
        BY <2>5, <2>6 DEF Finding, Opening, SoloSteps, Working
      <4> HIDE DEF b, r
      <4> QED
        BY <3>1, <4>1, <4>2 DEF Shared
    <3>3. Achieved(pc'[t], op'[t], source'[t], cfg'[t], q, stored[i], i \in dir)
      BY <2>2, <3>2 DEF Achieved, Opening, Deleting
    <3>4. FoundNone(pc'[t], op'[t], source'[t], cfg'[t], q, stored[i])
      BY <2>2 DEF FoundNone, Opening
    <3>5. /\ q.db # "open" /\ (q.db = "none" <=> r.db = "none") /\ pc'[t] # "openMeta"
          /\ q.config.disabled \/ q.isDeleting \/ pc'[t] \in Opening \cup SoloSteps
      BY <2>1, <2>2, <3>2 DEF Fields, SoloSteps
    <3> HIDE DEF b
    <3>6. map[i] = b /\ map'[i] = b /\ bucket'[b] = q
      BY <1>1 DEF b, q
    <3>7. \A u \in WorkingOn(i) : u = t
      BY <2>5, <2>6
    <3>8. NameInv(i) /\ ~Overlapping(i)' /\ \A o \in Bucket \ {b} : o[1] = i => bucket'[o] = bucket[o]
      BY <2>2, <2>5, <2>6
    <3> QED
      BY <1>1, <2>1, <2>2, <3>2, <3>3, <3>4, <3>5, <3>6, <3>7, <3>8, SoloName
  <2>7. ASSUME i \notin mixed' \cup scanned' PROVE ServedInv(i)'
    <3>1. ~ScanOverlapping(i)' /\ WorkingOn(i) = {}
      BY <2>5, <2>7, HistoryGrows
    <3>2. map'[i] = b /\ bucket'[b] = q /\ pc'[t] \notin {"mkdir", "openDb", "openFailed"}
      BY <1>1, <2>2 DEF q
    <3> HIDE DEF b
    <3> QED
      BY <1>1, <2>1, <2>3, <3>1, <3>2, OwnServed
  <2> QED
    BY <1>1, <2>4, <2>6, <2>7 DEF Keeps
<1> QED
  BY <1>1, <1>2, <1>3

LEMMA StartStep ==
    ASSUME IInv, Typed', NEW t \in Tasks, Start(t), History
    PROVE  \E j \in Ids : Keeps(t, j)
<1>1. pc[t] = "idle" /\ pc[t] \notin Working /\ Typed /\ Grows
  BY HistoryGrows DEF Start, Working, IInv, Typed
<1>2. PICK i \in Ids : \/ StartWrite(t, i) \/ StartConfigure(t, i) \/ StartRead(t, i)
                       \/ StartDelete(t, i) \/ StartRepair(t, i)
  BY DEF Start
<1>3. CASE StartWrite(t, i)
  <2>1. /\ op' = [op EXCEPT ![t] = "write"] /\ id' = [id EXCEPT ![t] = i]
        /\ UNCHANGED <<map, bucket, holder, ref, cfg, source, dir, lock, stored>>
    BY <1>3 DEF StartWrite, others
  <2>2. /\ \A u \in Tasks \ {t} : pc'[u] = pc[u]
        /\ pc'[t] \in {"create", "wait", "done", "failed"}
    BY <1>1, <1>3, WaitTypes DEF StartWrite, Goto, Typed, TypeOK
  <2>3. Untouched(t) /\ id'[t] = i
    BY <2>1, <2>2 DEF Untouched, IInv, TypeOK
  <2>4. pc'[t] \notin Working \cup {"idle"}
    BY <2>2 DEF Working
  <2> QED
    BY <1>1, <2>1, <2>3, <2>4, IdleStep
<1>4. CASE StartConfigure(t, i)
  <2>1. PICK d \in BOOLEAN : CreateBucket(t, i, [by |-> t, disabled |-> d])
    BY <1>4 DEF StartConfigure
  <2> DEFINE c == [by |-> t, disabled |-> d]
  <2>2. c \in Config /\ c # NoConfig
    BY AbsentAssumption DEF Config
  <2>3. /\ op' = [op EXCEPT ![t] = "configure"]
        /\ UNCHANGED <<holder, ref, source, dir, lock, stored>>
    BY <1>4 DEF StartConfigure, semVars, others
  <2> HIDE DEF c
  <2>4. /\ id' = [id EXCEPT ![t] = i] /\ cfg' = [cfg EXCEPT ![t] = c]
        /\ pc' = [pc EXCEPT ![t] = "storeConfig"]
    BY <2>1, <2>2 DEF CreateBucket, Goto, c
  <2>5. Untouched(t) /\ op'[t] = "configure"
    BY <2>3, <2>4 DEF Untouched, IInv, TypeOK
  <2>6. CreateBucket(t, i, c)
    BY <2>1 DEF c
  <2> QED
    BY <1>1, <2>2, <2>3, <2>5, <2>6, CreateKeeps
<1>5. CASE StartRead(t, i)
  <2>1. /\ UNCHANGED <<map, bucket, holder, dir, lock, stored>>
        /\ Untouched(t) /\ id'[t] = i /\ pc'[t] \in {"scan", "done"}
    BY <1>5 DEF StartRead, Goto, semVars, others, Untouched, IInv, TypeOK
  <2>2. pc'[t] \notin Working \cup {"idle"}
    BY <2>1 DEF Working
  <2> QED
    BY <1>1, <2>1, <2>2, IdleStep
<1>6. CASE StartDelete(t, i)
  BY <1>1, <1>6, StartDeleteStep
<1>7. CASE StartRepair(t, i)
  BY <1>1, <1>7, StartRepairStep
<1> QED
  BY <1>2, <1>3, <1>4, <1>5, <1>6, <1>7

LEMMA AcquireStep ==
    ASSUME IInv, Typed', NEW t \in Tasks, Acquire(t), History
    PROVE  Keeps(t, id[t])
<1>1. /\ id[t] \in Ids /\ Typed /\ Grows /\ holder = Nobody
      /\ UNCHANGED <<op, ref, source, dir, lock, stored>>
  BY HistoryGrows DEF Acquire, others, IInv, Typed, TypeOK
<1>2. CASE pc[t] = "create"
  <2>1. /\ holder' = t /\ CreateBucket(t, id[t], NoConfig)
    BY <1>2 DEF Acquire
  <2>2. /\ id' = [id EXCEPT ![t] = id[t]] /\ cfg' = [cfg EXCEPT ![t] = NoConfig]
        /\ pc' = [pc EXCEPT ![t] = "readConfig"]
    BY <2>1 DEF CreateBucket, Goto
  <2>3. Untouched(t)
    BY <1>1, <2>2 DEF Untouched, Typed, TypeOK
  <2>4. op[t] = "write" /\ pc[t] \notin Working
    BY <1>2 DEF IInv, TaskInv, AtStep, Working
  <2> QED
    BY <1>1, <2>1, <2>3, <2>4, CreateKeeps DEF Finders
<1>3. CASE pc[t] = "wait"
  <2>1. UNCHANGED <<map, bucket, holder, id, cfg>> /\ Put(t, id[t])
    BY <1>3 DEF Acquire
  <2>2. pc'[t] \in {"done", "failed"} /\ \A u \in Tasks \ {t} : pc'[u] = pc[u]
    BY <1>1, <2>1 DEF Put, Goto, Typed, TypeOK
  <2>3. Untouched(t) /\ id'[t] = id[t]
    BY <1>1, <2>1, <2>2 DEF Untouched
  <2>4. pc[t] \notin Working /\ pc'[t] \notin Working \cup {"idle"}
    BY <1>3, <2>2 DEF Working
  <2> QED
    BY <1>1, <2>1, <2>3, <2>4, IdleStep
<1> QED
  BY <1>2, <1>3 DEF Acquire

LEMMA ScanStep ==
    ASSUME IInv, Typed', NEW t \in Tasks, Scan(t), History
    PROVE  Keeps(t, id[t])
<1>1. /\ id[t] \in Ids /\ Grows /\ Untouched(t) /\ id'[t] = id[t] /\ pc[t] = "scan" /\ pc'[t] = "list"
      /\ UNCHANGED <<map, bucket, dir, lock, stored, holder, op>>
  BY HistoryGrows DEF Scan, Goto, semVars, others, Untouched, IInv, TypeOK
<1>2. pc[t] \notin Working /\ pc'[t] \notin Working \cup {"idle"}
  BY <1>1 DEF Working
<1> QED
  BY <1>1, <1>2, IdleStep

LEMMA CreateNextStep ==
    ASSUME IInv, Typed', NEW t \in Tasks, CreateNext(t), History
    PROVE  \E j \in Ids : Keeps(t, j)
<1>1. /\ pc[t] = "list" /\ pc[t] \notin Working /\ op[t] \in {"read", "event"} /\ Typed /\ Grows
      /\ UNCHANGED <<holder, op, ref, source, dir, lock, stored>>
      /\ todo[t] \subseteq Ids /\ id[t] \in Ids
  BY HistoryGrows DEF CreateNext, semVars, others, IInv, Typed, TypeOK, TaskInv, AtStep, Working
<1>2. CASE \E i \in todo[t] : CreateBucket(t, i, NoConfig)
  <2>1. PICK i \in Ids : CreateBucket(t, i, NoConfig)
    BY <1>1, <1>2
  <2>2. /\ id' = [id EXCEPT ![t] = i] /\ cfg' = [cfg EXCEPT ![t] = NoConfig]
        /\ pc' = [pc EXCEPT ![t] = "readConfig"]
    BY <2>1 DEF CreateBucket, Goto
  <2>3. Untouched(t)
    BY <1>1, <2>2 DEF Untouched, Typed, TypeOK
  <2>4. op'[t] \in Finders /\ op'[t] # "write" /\ op[t] # "delete"
    BY <1>1 DEF Finders
  <2> QED
    BY <1>1, <2>1, <2>3, <2>4, CreateKeeps
<1>3. CASE Goto(t, "done") /\ UNCHANGED <<map, bucket, id, cfg, todo>>
  <2>1. /\ Untouched(t) /\ id'[t] = id[t] /\ pc'[t] = "done"
    BY <1>1, <1>3 DEF Goto, Untouched, Typed, TypeOK
  <2>2. pc'[t] \notin Working \cup {"idle"}
    BY <2>1 DEF Working
  <2> QED
    BY <1>1, <1>3, <2>1, <2>2, IdleStep
<1> QED
  BY <1>2, <1>3 DEF CreateNext

-----------------------------------------------------------------------------
(* The steps that are not of a task, and the failures. *)

LEMMA FaultStep ==
    ASSUME IInv, Typed', NEW t \in Tasks, Fault(t), FaultHistory(t)
    PROVE  Keeps(t, id[t]) /\ Grows
<1>1. /\ Typed /\ Untouched(t) /\ pc[t] \in Working /\ id'[t] = id[t]
      /\ id[t] \in Ids
  BY FaultTypes DEF IInv, Typed, TypeOK
<1>2. id[t] \in mixed' /\ Grows
  BY DEF FaultHistory, Grows
<1>3. /\ UNCHANGED <<map, dir, lock, stored, op, id, ref>>
      /\ bucket' = bucket \/ (pc[t] \in Repairing /\ bucket' = [bucket EXCEPT ![ref[t]].repairing = FALSE])
  BY DEF Fault, RepairEnds, Throw, diskVars, Repairing
<1>4. OnlyName(id[t])
  <2>1. pc[t] \in Repairing => ref[t] \in Bucket /\ ref[t][1] = id[t]
    BY <1>1 DEF Typed, TaskInv, AtStep, Looked
  <2> QED
    BY <1>1, <1>3, <2>1 DEF OnlyName, NameSame, Typed, TypeOK
<1>5. /\ \/ pc'[t] \in {"gotConfig", "openFailed", "list", "failed"}
         \/ pc[t] = "rmdir" /\ pc'[t] = "unconfigure"
      /\ holder' = holder \/ (holder' = IF holder = t THEN Nobody ELSE holder)
      /\ pc'[t] \in {"gotConfig", "openFailed", "unconfigure"} => holder' = holder
  <2>1. \/ Goto(t, "gotConfig") /\ holder' = holder
        \/ Goto(t, "openFailed") /\ holder' = holder
        \/ Throw(t)
        \/ Goto(t, "failed") /\ holder' = holder
        \/ pc[t] = "rmdir" /\ Goto(t, "unconfigure") /\ holder' = holder
    BY DEF Fault, RepairEnds
  <2>2. \A p : Goto(t, p) => pc'[t] = p
    BY <1>1 DEF Goto, Typed, TypeOK
  <2>3. CASE Throw(t)
    BY <1>1, <2>3, ThrowTypes, ThrowEffect DEF Typed
  <2> QED
    BY <2>1, <2>2, <2>3
<1>6. /\ pc'[t] # "idle" /\ (pc'[t] \in Deleting => pc[t] \in Deleting /\ ref'[t] = ref[t])
      /\ pc'[t] \in Working => pc'[t] \in {"gotConfig", "openFailed", "unconfigure"}
  BY <1>3, <1>5 DEF Deleting, Working
<1>7. holder' = holder \/ holder \in {Nobody, t}
  BY <1>5
<1>8. Local(t)
  BY <1>1, <1>3, <1>4, <1>5, <1>6, <1>7 DEF Local, IInv, HolderInv
<1> QED
  BY <1>1, <1>2, <1>8 DEF Keeps

LEMMA FinishCloseStep ==
    ASSUME IInv, Typed', NEW b \in Bucket, FinishClose(b), History
    PROVE  IInv'
<1> DEFINE j == b[1]
           r == bucket[b]
           q == bucket'[b]
<1>1. Typed
  BY DEF IInv, Typed
<1>2. /\ r.db = "closing" /\ j \in Ids
      /\ q.db = "none" /\ q.config = r.config /\ q.isDeleting = r.isDeleting /\ q.isOpen = r.isOpen
      /\ \A c \in Bucket \ {b} : bucket'[c] = bucket[c]
      /\ lock' = [lock EXCEPT ![j] = IF lock[j] = b THEN NoBucket ELSE lock[j]]
      /\ \A t \in Tasks : pc'[t] = IF ref[t] = b /\ pc[t] = "close" THEN "rm"
                                   ELSE IF ref[t] = b /\ pc[t] = "closeToRepair" THEN "repairAndOpen"
                                   ELSE pc[t]
      /\ UNCHANGED <<map, dir, stored, holder, op, id, ref, cfg, source>>
  BY <1>1, FinishCloseEffect
<1> HIDE DEF q
<1>3. \A t \in Tasks : \/ pc'[t] = pc[t]
                       \/ ref[t] = b /\ pc[t] = "close" /\ pc'[t] = "rm"
                       \/ ref[t] = b /\ pc[t] = "closeToRepair" /\ pc'[t] = "repairAndOpen"
  BY <1>2
<1>4. \A t \in Tasks : /\ pc'[t] \in Working <=> pc[t] \in Working
                       /\ pc'[t] \in Deleting => pc[t] \in Deleting
                       /\ pc'[t] \in Looked => pc[t] \in Looked
                       /\ pc'[t] = "idle" <=> pc[t] = "idle"
  BY <1>3 DEF Working, Deleting, Repairing, Looked
<1>5. \A i : WorkingOn(i)' = WorkingOn(i)
  BY <1>2, <1>4 DEF WorkingOn
<1>6. HolderInv' /\ DeletionInv'
  BY <1>2, <1>4 DEF IInv, HolderInv, DeletionInv
<1>7. ASSUME NEW i \in Ids, i # j
      PROVE  /\ i \notin mixed' => NameInv(i)'
             /\ i \notin mixed' \cup scanned' => ServedInv(i)'
  <2>1. NameSame(i)
    BY <1>1, <1>2, <1>7 DEF NameSame, Typed, TypeOK
  <2>2. CrewSame(i)
    <3>1. ASSUME NEW u \in WorkingOn(i) PROVE pc'[u] = pc[u]
      <4>1. u \in Tasks /\ id[u] = i
        BY DEF WorkingOn
      <4>2. pc[u] \in {"close", "closeToRepair"} => ref[u][1] = i
        BY <1>1, <4>1 DEF Typed, TaskInv, AtStep, Deleting, Repairing, Looked
      <4> QED
        BY <1>3, <1>7, <4>1, <4>2
    <3> QED
      BY <1>2, <1>5, <3>1 DEF CrewSame
  <2>3. i \notin mixed' => NameInv(i)
    BY HistoryGrows DEF IInv, NamesInv
  <2>4. i \notin mixed' \cup scanned' => ServedInv(i)
    BY HistoryGrows DEF IInv, AllServed
  <2> QED
    BY <1>1, <2>1, <2>2, <2>3, <2>4, NameKept, ServedKept
<1>8. ASSUME j \notin mixed' PROVE NameInv(j) /\ ~Overlapping(j)' /\ map[j] = b /\ b # NoBucket
  <2>1. NameInv(j) /\ ~Overlapping(j)'
    BY <1>2, <1>8, HistoryGrows DEF IInv, NamesInv
  <2>2. map[j] = b /\ b # NoBucket
    BY <1>2, <2>1, AbsentAssumption DEF NameInv, Bound
  <2> QED
    BY <2>1, <2>2
<1>9. ASSUME j \notin mixed' PROVE NameInv(j)'
  <2>1. \A t \in WorkingOn(j) :
           /\ t \in Tasks
           /\ Achieved(pc[t], op[t], source[t], cfg[t], r, stored[j], j \in dir)
           /\ FoundNone(pc[t], op[t], source[t], cfg[t], r, stored[j])
    BY <1>8, <1>9 DEF NameInv, Progress, WorkingOn
  <2>2. \A t \in WorkingOn(j) : /\ map[j] \in Bucket /\ (pc[t] \in Looked => ref[t] = b)
                                /\ pc[t] # "openMeta" /\ pc[t] # "unmap"
    BY <1>2, <1>8, <1>9, <2>1 DEF NameInv, Bound, Achieved
  <2>3. \A t \in WorkingOn(j) :
           \/ pc'[t] = pc[t] /\ pc[t] \notin {"close", "closeToRepair"}
           \/ pc[t] = "close" /\ pc'[t] = "rm"
           \/ pc[t] = "closeToRepair" /\ pc'[t] = "repairAndOpen"
    BY <1>2, <2>1, <2>2 DEF Looked, Deleting, Repairing
  <2>4. Bound(j)'
    BY <1>2, <1>4, <1>5, <1>8, <1>9, <2>1, <2>2 DEF NameInv, Bound
  <2>5. map'[j] = b /\ bucket'[b] = q /\ map'[j] # NoBucket
    BY <1>2, <1>8, <1>9 DEF q
  <2>6. Locked(j)'
    <3>1. lock[j] = b
      BY <1>2, <1>8, <1>9 DEF NameInv, Locked
    <3>2. lock'[j] = NoBucket
      BY <1>1, <1>2, <3>1 DEF Typed, TypeOK
    <3>3. \A t \in WorkingOn(j)' : pc'[t] # "openMeta"
      BY <1>5, <2>2, <2>3
    <3> QED
      BY <1>2, <2>5, <3>2, <3>3 DEF Locked, At
  <2>7. ASSUME NEW t \in WorkingOn(j)
        PROVE  /\ Achieved(pc'[t], op[t], source[t], cfg[t], q, stored[j], j \in dir)
               /\ FoundNone(pc'[t], op[t], source[t], cfg[t], q, stored[j])
    <3>1. Achieved(pc[t], op[t], source[t], cfg[t], r, stored[j], j \in dir)
      BY <2>1
    <3>2. Achieved(pc'[t], op[t], source[t], cfg[t], q, stored[j], j \in dir)
      <4>1. CASE pc'[t] = pc[t] /\ pc[t] \notin {"close", "closeToRepair"}
        BY <1>2, <3>1, <4>1 DEF Achieved
      <4>2. CASE pc[t] = "close" /\ pc'[t] = "rm"
        BY <1>2, <3>1, <4>2 DEF Achieved, Opening, Deleting
      <4>3. CASE pc[t] = "closeToRepair" /\ pc'[t] = "repairAndOpen"
        BY <1>2, <3>1, <4>3 DEF Achieved, Opening, Deleting
      <4> QED
        BY <2>3, <4>1, <4>2, <4>3
    <3>3. FoundNone(pc'[t], op[t], source[t], cfg[t], q, stored[j])
      BY <1>2, <2>1, <2>3 DEF FoundNone, Opening
    <3> QED
      BY <3>2, <3>3
  <2>8. Progress(j)'
    BY <1>2, <1>5, <2>5, <2>7 DEF Progress
  <2>9. Agreed(j)'
    <3>1. ~At(j, {"unmap"})
      BY <2>2 DEF At
    <3>2. stored[j] = r.config \/ At(j, {"storeConfig", "storedConfig"})
      BY <1>2, <1>8, <1>9, <3>1 DEF NameInv, Agreed
    <3>3. At(j, {"storeConfig", "storedConfig"}) => At(j, {"storeConfig", "storedConfig"})'
      BY <1>5, <2>3 DEF At
    <3> QED
      BY <1>2, <2>5, <3>2, <3>3 DEF Agreed
  <2>10. Opened(j)'
    <3> DEFINE S == Opening \cup {"storeConfig", "storedConfig", "closeToRepair", "repairAndOpen"}
               L == {"readConfig", "gotConfig"}
    <3>1. \A t \in WorkingOn(j) : /\ pc[t] \in S => pc'[t] \in S
                                  /\ pc[t] \in L => pc'[t] \in L
      BY <2>3 DEF Opening
    <3>2. /\ map[j] = b /\ b # NoBucket /\ map'[j] = b /\ bucket'[b] = q
          /\ stored'[j] = stored[j] /\ q.config = r.config /\ q.isDeleting = r.isDeleting
      BY <1>2, <1>8, <1>9, <2>5
    <3>3. \/ r.config.disabled \/ r.isDeleting
          \/ At(j, S)
          \/ At(j, L) /\ stored[j] # r.config
      BY <1>2, <1>8, <1>9, <3>2 DEF NameInv, Opened
    <3>4. (At(j, S) => At(j, S)') /\ (At(j, L) => At(j, L)')
      <4> HIDE DEF S, L
      <4> QED
        BY <1>5, <3>1 DEF At
    <3> QED
      BY <3>2, <3>3, <3>4 DEF Opened
  <2> QED
    BY <1>8, <1>9, <2>4, <2>5, <2>6, <2>8, <2>9, <2>10 DEF NameInv, Absent
<1>10. ASSUME j \notin mixed' \cup scanned' PROVE ServedInv(j)'
  <2>1. ServedInv(j) /\ ~ScanOverlapping(j)'
    BY <1>2, <1>10, HistoryGrows DEF IInv, AllServed
  <2>2. map[j] = b /\ map'[j] = b /\ bucket'[b] = q /\ b # NoBucket
    BY <1>2, <1>8, <1>10 DEF q
  <2>3. ASSUME NEW t \in WorkingOn(j)', pc'[t] = "openFailed" PROVE q.isDeleting
    BY <1>2, <1>3, <1>5, <2>1, <2>2, <2>3 DEF ServedInv, WorkingOn
  <2>4. q.isOpen => \/ q.config.disabled \/ q.isDeleting
                    \/ \E u \in WorkingOn(j)' : op'[u] # "write"
    BY <1>2, <1>5, <2>1, <2>2 DEF ServedInv
  <2> QED
    BY <1>2, <2>1, <2>2, <2>3, <2>4 DEF ServedInv
<1>11. NamesInv' /\ AllServed'
  BY <1>7, <1>9, <1>10 DEF NamesInv, AllServed
<1> QED
  BY <1>6, <1>11 DEF IInv, Typed

-----------------------------------------------------------------------------
(* The start of the service, and a restart. *)

\* What is on disk decides what there is, and no call is at work.
JustStarted ==
    /\ map = [i \in Ids |-> IF i \in folders THEN <<i, 1>> ELSE NoBucket]
    /\ bucket = StartedBuckets(folders, stored)
    /\ lock = StartedLocks(folders, stored)
    /\ StartedOpen(folders, stored) \subseteq dir /\ dir \subseteq folders
    /\ \A i \in folders : stored[i] # NoConfig
    /\ \A t \in Tasks : pc[t] \notin Working

\* A name without a folder is one without a configuration, or disabled.
Forgettable(i) == i \notin folders /\ stored[i] # NoConfig => stored[i].disabled

StartedNames == \A i \in Ids : Forgettable(i) => NameInv(i) /\ ServedInv(i)

LEMMA StartedName == TypeOK /\ JustStarted => StartedNames
<1> SUFFICES ASSUME TypeOK, JustStarted, NEW i \in Ids, Forgettable(i)
             PROVE  NameInv(i) /\ ServedInv(i)
  BY DEF StartedNames
<1>1. WorkingOn(i) = {} /\ \A S : ~At(i, S)
  BY DEF JustStarted, WorkingOn, At
<1>2. ~Overlapping(i) /\ ~ScanOverlapping(i)
  BY <1>1 DEF Overlapping, ScanOverlapping
<1>3. folders \in SUBSET Ids /\ stored \in [Ids -> Config \cup {NoConfig}]
  BY DEF TypeOK
<1>4. /\ \A b \in Bucket : b[2] # 1 \/ b[1] \notin folders => bucket[b] = Fresh
      /\ lock[i] = IF i \in folders /\ ~Started(folders, stored)[i].disabled THEN <<i, 1>> ELSE NoBucket
  BY <1>3, StartedState DEF JustStarted
<1>5. CASE i \notin folders
  <2>1. map[i] = NoBucket /\ lock[i] = NoBucket /\ i \notin dir
    BY <1>4, <1>5 DEF JustStarted
  <2>2. \A b \in Bucket : b[1] = i => bucket[b].db = "none"
    BY <1>4, <1>5, FreshType
  <2> QED
    BY <1>1, <1>2, <1>5, <2>1, <2>2
       DEF NameInv, Bound, Absent, Locked, Progress, Agreed, Opened, ServedInv, Forgettable
<1>6. CASE i \in folders
  <2> DEFINE b == <<i, 1>>
             r == bucket[b]
  <2>1. /\ map[i] = b /\ b \in Bucket /\ b # NoBucket /\ r.config = stored[i] /\ ~r.isDeleting
        /\ r.db = IF stored[i].disabled THEN "none" ELSE "open"
        /\ lock[i] = IF ~stored[i].disabled THEN b ELSE NoBucket
        /\ ~stored[i].disabled => i \in dir
    <3>1. Started(folders, stored)[i] = stored[i]
      BY <1>6 DEF Started, JustStarted
    <3>2. map[i] = b
      BY <1>6 DEF JustStarted
    <3>3. LET c == Started(folders, stored)[i]
              q == StartedBuckets(folders, stored)[<<i, 1>>]
          IN  /\ <<i, 1>> \in Bucket /\ q.config = c /\ ~q.isDeleting
              /\ q.db = IF c.disabled THEN "none" ELSE "open"
      <4>1. \A k \in folders :
              LET c == Started(folders, stored)[k]
                  q == StartedBuckets(folders, stored)[<<k, 1>>]
              IN  /\ <<k, 1>> \in Bucket /\ q.config = c /\ ~q.isDeleting
                  /\ q.db = IF c.disabled THEN "none" ELSE "open"
                  /\ q.isOpen <=> ~c.disabled
        BY <1>3, StartedState, Zenon
      <4> QED
        BY <1>6, <4>1
    <3>4. bucket = StartedBuckets(folders, stored)
      BY DEF JustStarted
    <3>5. ~stored[i].disabled => i \in dir
      BY <1>6, <3>1 DEF JustStarted, StartedOpen
    <3> QED
      BY <1>4, <1>6, <3>1, <3>2, <3>3, <3>4, <3>5, AbsentAssumption
  <2>2. \A o \in Bucket : o[1] = i /\ o # b => bucket[o].db = "none"
    <3>1. ASSUME NEW o \in Bucket, o[1] = i, o # b PROVE o[2] # 1
      BY <3>1 DEF Bucket
    <3> QED
      BY <1>4, <3>1, FreshType
  <2> HIDE DEF b
  <2> QED
    BY <1>1, <1>2, <1>6, <2>1, <2>2
       DEF NameInv, Bound, Absent, Locked, Progress, Agreed, Opened, ServedInv
<1> QED
  BY <1>5, <1>6

LEMMA InitInv == Init => IInv
<1> SUFFICES ASSUME Init PROVE IInv
  OBVIOUS
<1>1. Typed /\ \A t \in Tasks : pc[t] = "idle"
  BY InitTypes DEF Init
<1>2. JustStarted
  <2>1. \A t \in Tasks : pc[t] \notin Working
    BY <1>1 DEF Working
  <2>2. \A i \in folders : stored[i] # NoConfig
    BY DEF Init
  <2> QED
    BY <2>1, <2>2 DEF Init, JustStarted
<1>3. \A i \in Ids : Forgettable(i)
  BY DEF Init, Forgettable, EmptyConfig
<1>4. NamesInv /\ AllServed
  BY <1>1, <1>2, <1>3, StartedName DEF Typed, StartedNames, NamesInv, AllServed
<1>5. DeletionInv /\ HolderInv
  BY <1>1 DEF DeletionInv, HolderInv, Deleting, Working
<1> QED
  BY <1>1, <1>4, <1>5 DEF IInv, Typed

LEMMA RestartStep ==
    ASSUME IInv, Typed', Restart, RestartHistory
    PROVE  IInv'
<1>1. TypeOK /\ TypeOK'
  BY DEF IInv, Typed
<1>2. \A t \in Tasks : pc'[t] \notin Working /\ pc'[t] \notin Deleting
  <2>1. \A t \in Tasks : pc'[t] \in Settled \cup {"idle"}
    BY DEF Restart, Settled
  <2> QED
    BY <2>1 DEF Settled, Working, Deleting
<1>3. folders \in SUBSET Ids /\ stored \in [Ids -> Config \cup {NoConfig}] /\ folders' = folders
  BY <1>1 DEF TypeOK, Restart
<1>4. /\ stored' = Started(folders, stored)
      /\ \A i \in Ids : i \notin folders => stored'[i] = stored[i]
      /\ \A i \in folders : stored'[i] \in Config
  <2>1. stored' = Started(folders, stored)
    BY DEF Restart
  <2>2. /\ \A i \in Ids : i \notin folders => Started(folders, stored)[i] = stored[i]
        /\ \A i \in folders : Started(folders, stored)[i] \in Config
    BY <1>3, StartedState
  <2> QED
    BY <2>1, <2>2
<1>5. JustStarted'
  <2>1. \A i \in folders : stored'[i] # NoConfig
    BY <1>4, AbsentAssumption
  <2>2. Started(folders, stored') = stored'
    <3>1. stored' \in [Ids -> Config \cup {NoConfig}]
      BY <1>1 DEF TypeOK
    <3>2. Started(folders, stored') = [i \in Ids |-> stored'[i]]
      BY <2>1 DEF Started
    <3> QED
      BY <3>1, <3>2
  <2>5. StartedOpen(folders, stored') \subseteq dir' /\ dir' \subseteq folders
    BY <1>1, <1>3, <1>4, <2>2 DEF Restart, StartedOpen, TypeOK
  <2>3. StartedBuckets(folders, stored') = StartedBuckets(folders, stored)
    BY <1>4, <2>2 DEF StartedBuckets
  <2>4. StartedLocks(folders, stored') = StartedLocks(folders, stored)
    BY <1>4, <2>2 DEF StartedLocks, StartedOpen
  <2> QED
    BY <1>2, <1>3, <2>1, <2>3, <2>4, <2>5 DEF Restart, JustStarted
<1>6. StartedNames'
  BY <1>1, <1>5, StartedName, PTL
<1>7. ASSUME NEW i \in Ids, i \notin mixed' PROVE Forgettable(i)'
  <2>1. i \notin mixed /\ WorkingOn(i) = {} /\ (map[i] = NoBucket \/ ~bucket[map[i]].isDeleting)
    BY <1>7 DEF RestartHistory, Interrupted
  <2>2. NameInv(i) /\ \A S : ~At(i, S)
    BY <2>1 DEF IInv, NamesInv, At
  <2>3. CASE map[i] = NoBucket
    BY <1>3, <1>4, <2>2, <2>3 DEF NameInv, Absent, Forgettable
  <2>4. CASE map[i] # NoBucket
    <3>1. stored[i] = bucket[map[i]].config
      BY <2>1, <2>2, <2>4 DEF NameInv, Agreed
    <3>2. bucket[map[i]].config.disabled \/ bucket[map[i]].db = "open"
      BY <2>1, <2>2, <2>4 DEF NameInv, Opened
    <3>3. bucket[map[i]].db = "open" => i \in dir /\ dir \subseteq folders
      BY <1>1, <2>2, <2>4 DEF NameInv, Locked, TypeOK
    <3> QED
      BY <1>3, <1>4, <3>1, <3>2, <3>3 DEF Forgettable
  <2> QED
    BY <2>3, <2>4
<1>8. NamesInv' /\ AllServed'
  BY <1>6, <1>7 DEF StartedNames, NamesInv, AllServed
<1>9. DeletionInv' /\ HolderInv'
  BY <1>2 DEF DeletionInv, HolderInv
<1> QED
  BY <1>8, <1>9 DEF IInv, Typed

-----------------------------------------------------------------------------
(* Every step keeps the invariant. *)

\* What each step of a task does to the bucket it works on.
LEMMA StepKeeps ==
    ASSUME IInv, NEW t \in Tasks, Step(t), History
    PROVE  Typed' /\ Grows /\ \E j \in Ids : Keeps(t, j)
<1>1. Typed /\ Grows
  BY HistoryGrows DEF IInv, Typed
<1>2. Typed'
  BY <1>1, AcquireTypes, StoreConfigTypes, ApplySuppliedTypes, ReadConfigTypes, ApplyStoredTypes,
     ApplyEmptyTypes, MkdirTypes, OpenDbTypes, OpenMetaTypes, PurgeTypes, OpenFailedTypes,
     CreatedTypes, ScanTypes, CreateNextTypes, RefuseDeleteTypes, RmTypes, RmdirTypes, UnconfigureTypes,
     UnmapTypes, RepairTypes DEF Step
<1>3. \E j \in Ids : Keeps(t, j)
  <2>1. id[t] \in Ids
    BY <1>1 DEF Typed, TypeOK
  <2>2. CASE CreateNext(t)
    BY <1>2, <2>2, CreateNextStep
  <2>3. CASE ~CreateNext(t)
    <3>1. Keeps(t, id[t])
      BY <1>2, <2>3, AcquireStep, StoreConfigStep, ApplySuppliedStep, ReadConfigStep,
         ApplyStoredStep, ApplyEmptyStep, MkdirStep, OpenDbStep, OpenMetaStep, PurgeStep,
         OpenFailedStep, CreatedStep, ScanStep, RefuseDeleteStep, RmStep, RmdirStep, UnconfigureStep,
         UnmapStep, RepairStep DEF Step
    <3> QED
      BY <2>1, <3>1
  <2> QED
    BY <2>2, <2>3
<1> QED
  BY <1>1, <1>2, <1>3

LEMMA AdvanceStep ==
    ASSUME IInv, NEW t \in Tasks, Step(t), History
    PROVE  IInv'
  BY StepKeeps, KeepsStep

LEMMA NextStep ==
    ASSUME IInv, [Next]_vars
    PROVE  IInv'
<1>1. Typed
  BY DEF IInv, Typed
<1>2. ASSUME NEW t \in Tasks, Start(t), History PROVE IInv'
  <2>1. Typed' /\ Grows
    BY <1>1, <1>2, StartTypes, HistoryGrows
  <2> QED
    BY <1>2, <2>1, StartStep, KeepsStep
<1>3. ASSUME NEW t \in Tasks, Advance(t) PROVE IInv'
  BY <1>3, AdvanceStep DEF Advance
<1>4. ASSUME NEW b \in Bucket, CloseDone(b) PROVE IInv'
  BY <1>1, <1>4, FinishCloseTypes, FinishCloseStep DEF CloseDone
<1>5. ASSUME NEW t \in Tasks, Fault(t), FaultHistory(t) PROVE IInv'
  <2>1. Typed' /\ id[t] \in Ids
    BY <1>1, <1>5, FaultTypes DEF Typed, TypeOK
  <2>2. Keeps(t, id[t]) /\ Grows
    BY <1>5, <2>1, FaultStep
  <2> QED
    BY <2>1, <2>2, KeepsStep
<1>6. ASSUME Restart, RestartHistory PROVE IInv'
  BY <1>1, <1>6, RestartTypes, RestartStep
<1>7. CASE UNCHANGED vars
  <2>1. \A i : WorkingOn(i)' = WorkingOn(i)
    BY <1>7 DEF vars, diskVars, semVars, WorkingOn
  <2>2. ASSUME NEW i \in Ids PROVE NameSame(i) /\ CrewSame(i)
    BY <1>7, <2>1 DEF vars, diskVars, semVars, NameSame, CrewSame
  <2>3. NamesInv' /\ AllServed'
    <3>1. mixed' = mixed /\ scanned' = scanned
      BY <1>7 DEF vars
    <3> QED
      BY <1>1, <2>2, <3>1, NameKept, ServedKept DEF IInv, NamesInv, AllServed
  <2>4. TypeOK' /\ TaskInv' /\ ObjectInv' /\ DeletionInv' /\ HolderInv'
    BY <1>7 DEF vars, diskVars, semVars, IInv, TypeOK, TaskInv, ObjectInv, DeletionInv, HolderInv
  <2> QED
    BY <2>3, <2>4 DEF IInv
<1> QED
  BY <1>2, <1>3, <1>4, <1>5, <1>6, <1>7 DEF Next, Finished, FaultHistory, RestartHistory

\* The invariant above holds in every state.
THEOREM Invariance == Spec => []IInv
<1>1. Init => IInv
  BY InitInv
<1>2. IInv /\ [Next]_vars => IInv'
  BY NextStep
<1> QED
  BY <1>1, <1>2, PTL DEF Spec

-----------------------------------------------------------------------------
(* What a deletion leaves. *)

\* The steps of a deletion that has tried to remove the folder.
Removed == {"unconfigure", "unmap"}

\* A folder without a bucket, or that of a deletion that has tried to remove it, is there
\* for the other files in it.
Left(i) == (map[i] = NoBucket \/ At(i, Removed)) /\ i \in folders => i \in assets

LeftInv == \A i \in Ids \ mixed : Left(i)

\* A step that concerns the name j leaves the others as they are.
LEMMA LeftLocal ==
    ASSUME IInv, LeftInv, NEW t \in Tasks, NEW j \in Ids, Keeps(t, j), Grows, assets' = assets,
           \A i \in Ids \ {j} : i \in folders' => i \in folders,
           j \notin mixed' => Left(j)'
    PROVE  LeftInv'
<1> SUFFICES ASSUME NEW i \in Ids, i \notin mixed' PROVE Left(i)'
  BY DEF LeftInv
<1>1. CASE i = j
  BY <1>1
<1>2. CASE i # j
  <2>1. NameSame(i) /\ CrewSame(i)
    BY <1>2, CrewOfOthers DEF Keeps, Local, OnlyName, IInv, Typed
  <2>2. At(i, Removed)' <=> At(i, Removed)
    BY <2>1 DEF At, CrewSame
  <2>3. Left(i)
    BY DEF Grows, LeftInv
  <2> QED
    BY <1>2, <2>1, <2>2, <2>3 DEF Left, NameSame
<1> QED
  BY <1>1, <1>2

\* So does its own name, unless it makes the folder or removes it.
LEMMA LeftOwn ==
    ASSUME IInv, LeftInv, NEW t \in Tasks, NEW j \in Ids, Keeps(t, j), Grows,
           UNCHANGED <<folders, assets>>,
           pc'[t] \in Removed => pc[t] \in Removed,
           map'[j] = NoBucket => map[j] = NoBucket \/ (pc[t] \in Removed /\ id[t] = j)
    PROVE  LeftInv'
<1>1. ASSUME j \notin mixed' PROVE Left(j)'
  <2>1. Left(j) /\ Untouched(t) /\ id'[t] = j
    BY <1>1 DEF Grows, LeftInv, Keeps, Local
  <2>2. pc[t] \in Removed => pc[t] \in Working /\ id[t] = j
    BY <2>1 DEF Removed, Working, Keeps, Local
  <2>3. At(j, Removed)' => At(j, Removed)
    BY <2>1, <2>2 DEF At, WorkingOn, Untouched
  <2>4. map'[j] = NoBucket => map[j] = NoBucket \/ At(j, Removed)
    BY <2>2 DEF At, WorkingOn
  <2> QED
    BY <2>1, <2>3, <2>4 DEF Left
<1> QED
  BY <1>1, LeftLocal

LEMMA LeftStep ==
    ASSUME IInv, LeftInv, IInv', NEW t \in Tasks, Step(t), History
    PROVE  LeftInv'
<1>1. PICK j \in Ids : Keeps(t, j)
  BY StepKeeps
<1>2. Typed /\ Typed' /\ Grows /\ id'[t] = j /\ (pc[t] \in Working => id[t] = j)
  BY <1>1, HistoryGrows DEF IInv, Typed, Keeps, Local
<1>3. AtStep(pc[t], op[t], source[t], cfg[t], ref[t], id[t])
  BY <1>2 DEF Typed, TaskInv
<1>4. AtStep(pc'[t], op'[t], source'[t], cfg'[t], ref'[t], id'[t])
  BY <1>2 DEF Typed, TaskInv
<1>5. map'[j] = map[j] \/ map[j] = NoBucket \/ (pc[t] \in Deleting /\ pc'[t] \notin Deleting)
  BY <1>1, <1>2 DEF Keeps, Local
<1>6. CASE Mkdir(t)
  <2>1. /\ folders' = folders \cup {j} /\ assets' = assets /\ UNCHANGED <<map, id>>
        /\ pc[t] = "mkdir" /\ pc[t] \in Working /\ pc'[t] = "openDb"
    BY <1>2, <1>6 DEF Mkdir, Goto, Working, Typed, TypeOK
  <2>2. ASSUME j \notin mixed' PROVE Left(j)'
    <3>1. /\ map[j] # NoBucket
          /\ \A u \in WorkingOn(j) \ {t} :
                pc[u] \in Opening \cup {"readConfig", "gotConfig", "storeEmpty",
                                        "storedEmpty", "openFailed", "purge", "created"}
      BY <1>2, <2>1, <2>2, OwnFacts DEF Grows
    <3>2. ~At(j, Removed)'
      BY <1>1, <2>1, <3>1 DEF At, WorkingOn, Keeps, Local, Untouched, Opening, Removed
    <3> QED
      BY <2>1, <3>1, <3>2 DEF Left
  <2> QED
    BY <1>1, <1>2, <2>1, <2>2, LeftLocal
<1>7. CASE Rmdir(t)
  <2>1. /\ folders' = (IF j \in dir \cup assets THEN folders ELSE folders \ {j})
        /\ assets' = assets /\ pc[t] = "rmdir" /\ pc[t] \in Working
    BY <1>2, <1>7 DEF Rmdir, Working
  <2>2. ASSUME j \notin mixed' PROVE Left(j)'
    <3>1. j \notin dir
      BY <1>2, <2>1, <2>2, OwnFacts DEF Grows, Achieved
    <3> QED
      BY <2>1, <3>1 DEF Left
  <2> QED
    BY <1>1, <1>2, <2>1, <2>2, LeftLocal
<1>8. CASE RefuseDelete(t) \/ Rm(t) \/ Unconfigure(t) \/ Unmap(t)
  <2>1. /\ UNCHANGED <<folders, assets>>
        /\ pc'[t] \in Removed => pc[t] \in Removed
        /\ map' = map \/ pc[t] \in Removed
    BY <1>2, <1>8 DEF RefuseDelete, Rm, Unconfigure, Unmap, Goto, others, Removed, Typed, TypeOK
  <2>2. pc[t] \in Removed => id[t] = j
    BY <1>2 DEF Removed, Working
  <2> QED
    BY <1>1, <1>2, <2>1, <2>2, LeftOwn
<1>9. CASE \/ Acquire(t)
           \/ StoreConfig(t) \/ ApplySupplied(t)
           \/ ReadConfig(t) \/ ApplyStored(t) \/ ApplyEmpty(t)
           \/ OpenDb(t) \/ OpenMeta(t) \/ Purge(t) \/ OpenFailed(t)
           \/ Created(t)
           \/ Scan(t) \/ CreateNext(t)
           \/ Repair(t)
  <2>1. UNCHANGED <<folders, assets>>
    BY <1>9 DEF Acquire, StoreConfig, ApplySupplied, ReadConfig, ApplyStored, ApplyEmpty, OpenDb,
                OpenMeta, Purge, OpenFailed, Created, Scan, CreateNext, Repair, others, diskVars
  <2>2. pc[t] \notin Deleting \cup {"idle"}
    BY <1>9 DEF Acquire, StoreConfig, ApplySupplied, ReadConfig, ApplyStored, ApplyEmpty, OpenDb,
                OpenMeta, Purge, OpenFailed, Created, Scan, CreateNext, Repair, Deleting
  <2>3. op'[t] \in {op[t], "event"}
    BY <1>2, <1>9 DEF Acquire, StoreConfig, ApplySupplied, ReadConfig, ApplyStored, ApplyEmpty,
                OpenDb, OpenMeta, Purge, OpenFailed, Created, Scan, CreateNext, Repair, Typed, TypeOK
  <2>4. op[t] # "delete"
    BY <1>3, <1>9 DEF Acquire, StoreConfig, ApplySupplied, ReadConfig, ApplyStored, ApplyEmpty,
                OpenDb, OpenMeta, Purge, OpenFailed, Created, Scan, CreateNext, Repair,
                AtStep, Finders, Opening, Repairing
  <2>5. pc'[t] \notin Removed
    BY <1>4, <2>3, <2>4 DEF AtStep, Deleting, Removed
  <2>6. map'[j] = NoBucket => map[j] = NoBucket
    BY <1>5, <2>2
  <2> QED
    BY <1>1, <1>2, <2>1, <2>5, <2>6, LeftOwn
<1> QED
  BY <1>6, <1>7, <1>8, <1>9 DEF Step

LEMMA LeftNext ==
    ASSUME IInv, IInv', LeftInv, [Next]_vars
    PROVE  LeftInv'
<1>1. Typed /\ Typed'
  BY DEF IInv, Typed
<1>2. ASSUME NEW t \in Tasks, Start(t), History PROVE LeftInv'
  <2>1. PICK j \in Ids : Keeps(t, j)
    BY <1>1, <1>2, StartStep
  <2>2. UNCHANGED <<folders, assets>> /\ pc[t] = "idle"
    BY <1>2 DEF Start, StartWrite, StartConfigure, StartRead, StartDelete, StartRepair, others
  <2>3. pc'[t] \notin Removed
    BY <1>1, <1>2 DEF Start, StartWrite, StartConfigure, StartRead, StartDelete, StartRepair,
                      WaitForBucketCreation, Put, CreateBucket, Goto, Removed, Typed, TypeOK
  <2>4. map'[j] = NoBucket => map[j] = NoBucket
    BY <2>1, <2>2 DEF Keeps, Local, Deleting
  <2> QED
    BY <1>2, <2>1, <2>2, <2>3, <2>4, LeftOwn, HistoryGrows
<1>3. ASSUME NEW t \in Tasks, Advance(t) PROVE LeftInv'
  BY <1>3, LeftStep DEF Advance
<1>4. ASSUME NEW b \in Bucket, CloseDone(b) PROVE LeftInv'
  <2>1. /\ UNCHANGED <<map, folders, assets, id>>
        /\ \A t \in Tasks : pc'[t] \in Removed <=> pc[t] \in Removed
    BY <1>1, <1>4, FinishCloseEffect DEF CloseDone, Removed
  <2>2. \A i \in Ids : At(i, Removed)' => At(i, Removed)
    BY <2>1 DEF At, WorkingOn, Removed, Working
  <2>3. mixed \subseteq mixed'
    BY <1>4, HistoryGrows DEF CloseDone, Grows
  <2> QED
    BY <2>1, <2>2, <2>3 DEF LeftInv, Left
<1>5. ASSUME NEW t \in Tasks, Fault(t), FaultHistory(t) PROVE LeftInv'
  <2>1. id[t] \in Ids /\ id[t] \in mixed' /\ UNCHANGED <<folders, assets>>
    BY <1>1, <1>5 DEF FaultHistory, Fault, diskVars, Typed, TypeOK
  <2>2. Keeps(t, id[t]) /\ Grows
    BY <1>1, <1>5, FaultStep
  <2> QED
    BY <2>1, <2>2, LeftLocal
<1>6. CASE Restart
  <2>1. \A i \in Ids : map'[i] = NoBucket => i \notin folders'
    <3>1. \A i \in folders : <<i, 1>> \in Bucket
      BY BucketsAssumption, <1>1 DEF Bucket, Typed, TypeOK
    <3> QED
      BY <1>6, <3>1, AbsentAssumption DEF Restart
  <2>2. \A t \in Tasks : pc'[t] \notin Removed
    BY <1>6 DEF Restart, Settled, Removed
  <2> QED
    BY <2>1, <2>2 DEF LeftInv, Left, At, WorkingOn
<1>7. CASE UNCHANGED vars
  BY <1>7 DEF vars, diskVars, LeftInv, Left, At, WorkingOn
<1> QED
  BY <1>2, <1>3, <1>4, <1>5, <1>6, <1>7 DEF Next, Finished, FaultHistory

\* A folder outlives its bucket only for the other files in it.
THEOREM Remains == Spec => []LeftInv
<1>1. Init => LeftInv
  <2> SUFFICES ASSUME Init, NEW i \in Ids, map[i] = NoBucket \/ At(i, Removed) PROVE i \notin folders
    BY DEF LeftInv, Left
  <2>1. ~At(i, Removed)
    BY DEF Init, At, WorkingOn, Removed
  <2>2. i \in folders => <<i, 1>> \in Bucket /\ map[i] = <<i, 1>>
    BY BucketsAssumption DEF Init, Bucket
  <2> QED
    BY <2>1, <2>2, AbsentAssumption
<1>2. IInv /\ IInv' /\ LeftInv /\ [Next]_vars => LeftInv'
  BY LeftNext
<1> QED
  BY <1>1, <1>2, Invariance, PTL DEF Spec

-----------------------------------------------------------------------------
(* The properties. *)

\* The variables keep their types: every task is at a step of its call, and what it has
\* looked up, read or been given is of the kind that step goes by.
THEOREM TypeCorrect == Spec => []TypeOK
<1>1. IInv => TypeOK
  BY DEF IInv
<1> QED
  BY <1>1, Invariance, PTL

\* removeBucketAndData removes the folder, the configuration and the entry of the bucket
\* it has closed: no creation, configuration, repair, failure or restart puts another
\* bucket in its place between the awaits, a second deletion aside.
THEOREM Deletes == Spec => []DeletesWhatItClosed
<1>1. IInv => DeletesWhatItClosed
  BY DEF IInv, DeletionInv, DeletesWhatItClosed, Deleting
<1> QED
  BY <1>1, Invariance, PTL

\* When no call is at work on a name no two calls have interfered on, the map, the folder,
\* the lock, the stored configuration and the one in memory tell the same.
THEOREM Coherence == Spec => []Coherent
<1>1. IInv /\ LeftInv => Coherent
  <2> SUFFICES ASSUME IInv, LeftInv, NEW i \in Ids \ mixed, WorkingOn(i) = {},
                      \A b \in Bucket : b[1] = i => bucket[b].db # "closing"
               PROVE  IF map[i] = NoBucket
                      THEN /\ i \notin dir /\ lock[i] = NoBucket
                           /\ i \in folders => i \in assets
                           /\ stored[i] # NoConfig => stored[i].disabled
                      ELSE LET b == map[i] IN
                           /\ stored[i] = bucket[b].config
                           /\ ~bucket[b].isDeleting => (IsOpen(b) <=> ~bucket[b].config.disabled)
                           /\ lock[i] = IF IsOpen(b) THEN b ELSE NoBucket
                           /\ IsOpen(b) => i \in dir
    BY DEF Coherent
  <2>1. NameInv(i) /\ \A S : ~At(i, S)
    BY DEF IInv, NamesInv, At
  <2>2. CASE map[i] = NoBucket
    BY <2>1, <2>2 DEF NameInv, Absent, LeftInv, Left
  <2>3. CASE map[i] # NoBucket
    <3> DEFINE r == bucket[map[i]]
    <3>1. map[i] \in Bucket /\ r \in Fields /\ r.db # "closing"
      BY <2>3 DEF IInv, TypeOK, ObjectInv
    <3>2. r.db = "none" \/ r.db = "open"
      BY <3>1 DEF Fields
    <3>3. /\ lock[i] = IF r.db # "none" THEN map[i] ELSE NoBucket
          /\ r.db = "open" => i \in dir /\ ~r.config.disabled
      BY <2>1, <2>3 DEF NameInv, Locked
    <3>4. stored[i] = r.config
      BY <2>1, <2>3 DEF NameInv, Agreed
    <3>5. r.config.disabled \/ r.isDeleting \/ r.db = "open"
      BY <2>1, <2>3 DEF NameInv, Opened
    <3>6. r.db = "open" <=> r.db # "none"
      BY <3>2
    <3> QED
      BY <2>3, <3>3, <3>4, <3>5, <3>6 DEF IsOpen
  <2> QED
    BY <2>2, <2>3
<1> QED
  BY <1>1, Invariance, Remains, PTL

-----------------------------------------------------------------------------
(* Writes that fail. *)

\* A write fails at this step, for none of the reasons it may.
Refused(t) == op'[t] = "write" /\ pc[t] # "failed" /\ pc'[t] = "failed"

Excused(t) ==
    LET b == map[id'[t]] IN
    \/ id'[t] \in mixed' \cup scanned'
    \/ \E u \in WorkingOn(id'[t]) : op[u] # "write"
    \/ b = NoBucket \/ bucket[b].isDeleting \/ bucket[b].config.disabled

\* The bucket a write finds is open once it is said to be, or no call is at work on it.
LEMMA PutServed ==
    ASSUME IInv, Grows, NEW t \in Tasks, NEW i \in Ids, id'[t] = i, ~Excused(t), Put(t, i),
           bucket[map[i]].isOpen \/ WorkingOn(i) = {}
    PROVE  pc'[t] = "done"
<1> DEFINE r == bucket[map[i]]
<1>1. i \notin mixed \cup scanned
  BY DEF Excused, Grows
<1>2. /\ map[i] # NoBucket /\ ~r.isDeleting /\ ~r.config.disabled
      /\ ~\E u \in WorkingOn(i) : op[u] # "write"
  BY DEF Excused
<1>3. r.db = "open"
  <2>1. CASE r.isOpen
    BY <1>1, <1>2, <2>1 DEF IInv, AllServed, ServedInv
  <2>2. CASE WorkingOn(i) = {}
    BY <1>1, <1>2, <2>2 DEF IInv, NamesInv, NameInv, Opened, At
  <2> QED
    BY <2>1, <2>2
<1> QED
  BY <1>2, <1>3 DEF Put, Goto, IsOpen, IInv, TypeOK

\* After waitForBucketCreation the bucket is open.
LEMMA WaitServed ==
    ASSUME IInv, Grows, NEW t \in Tasks, NEW i \in Ids, id'[t] = i, ~Excused(t),
           WaitForBucketCreation(t, i)
    PROVE  pc'[t] \in {"wait", "done"}
<1>1. map[i] # NoBucket
  BY DEF Excused
<1>2. CASE Goto(t, "wait")
  BY <1>2 DEF Goto, IInv, TypeOK
<1>3. CASE bucket[map[i]].isOpen /\ Put(t, i)
  BY <1>3, PutServed
<1> QED
  BY <1>1, <1>2, <1>3 DEF WaitForBucketCreation

\* A creation that throws has lost its bucket, or was not that of a write.
LEMMA StepServed ==
    ASSUME IInv, NEW t \in Tasks, Step(t), History, Refused(t)
    PROVE  Excused(t)
<1> SUFFICES ASSUME ~Excused(t) PROVE FALSE
  OBVIOUS
<1>1. Typed /\ Grows /\ id[t] \in Ids
  BY HistoryGrows DEF IInv, Typed, TypeOK
<1>2. AtStep(pc[t], op[t], source[t], cfg[t], ref[t], id[t])
  BY DEF IInv, TaskInv
<1>3. ASSUME NEW p, Goto(t, p) PROVE p = "failed"
  BY <1>3 DEF Goto, Refused, IInv, TypeOK
<1>4. CASE Acquire(t)
  <2>1. CASE pc[t] = "wait" /\ Put(t, id[t]) /\ id' = id
    <3>1. WorkingOn(id[t]) = {}
      <4>1. \A u \in WorkingOn(id[t]) : op[u] = "write"
        BY <2>1 DEF Excused
      <4>2. \A u \in WorkingOn(id[t]) : holder = u
        BY <4>1 DEF IInv, HolderInv, WorkingOn
      <4>3. holder = Nobody
        BY <1>4 DEF Acquire
      <4> QED
        BY <4>2, <4>3, BucketsAssumption DEF WorkingOn
    <3> QED
      BY <1>1, <2>1, <3>1, PutServed DEF Refused
  <2>2. CASE CreateBucket(t, id[t], NoConfig)
    BY <1>3, <2>2 DEF CreateBucket
  <2> QED
    BY <1>4, <2>1, <2>2 DEF Acquire
<1>5. CASE Created(t)
  <2>1. WaitForBucketCreation(t, id[t]) /\ id' = id
    BY <1>3, <1>5 DEF Created, Refused
  <2> QED
    BY <1>1, <2>1, WaitServed DEF Refused
<1>6. ASSUME id' = id, op' = op, pc[t] \in Working
      PROVE  /\ op[t] = "write" /\ ~Gone(t)
             /\ pc[t] # "openFailed"
  <2>1. id[t] \notin mixed \cup scanned
    BY <1>1, <1>6 DEF Excused, Grows
  <2>2. NameInv(id[t]) /\ ServedInv(id[t]) /\ t \in WorkingOn(id[t])
    BY <1>1, <1>6, <2>1 DEF IInv, NamesInv, AllServed, WorkingOn
  <2>3. op[t] = "write" /\ ~bucket[map[id[t]]].isDeleting
    BY <1>6 DEF Refused, Excused
  <2> QED
    BY <2>2, <2>3, AbsentAssumption DEF NameInv, Bound, ServedInv, Gone
<1>7. CASE StoreConfig(t) \/ ReadConfig(t) \/ Mkdir(t) \/ OpenDb(t) \/ OpenMeta(t) \/ Purge(t)
           \/ Scan(t) \/ Rm(t) \/ Rmdir(t) \/ Unconfigure(t) \/ Unmap(t)
  BY <1>3, <1>7 DEF StoreConfig, ReadConfig, Mkdir, OpenDb, OpenMeta, Purge, Scan, Rm, Rmdir, Unconfigure, Unmap
<1>8. CASE CreateNext(t)
  BY <1>3, <1>8 DEF CreateNext, CreateBucket
<1>9. CASE RefuseDelete(t) \/ Repair(t) \/ ApplySupplied(t)
  <2>1. id' = id /\ op' = op /\ op[t] # "write"
    BY <1>2, <1>9 DEF RefuseDelete, Repair, ApplySupplied, AtStep, Deleting, Repairing
  <2> QED
    BY <2>1 DEF Refused
<1>10. CASE ApplyStored(t)
  <2>1. pc[t] \in Working /\ id' = id /\ op' = op
    BY <1>10 DEF ApplyStored, Working
  <2>2. \E c, from, now : UpdateDBState(t, c, from, now)
    BY <1>6, <1>10, <2>1 DEF ApplyStored
  <2> QED
    BY <1>3, <2>2 DEF UpdateDBState
<1>11. CASE ApplyEmpty(t)
  <2>1. pc[t] \in Working /\ id' = id /\ op' = op
    BY <1>11 DEF ApplyEmpty, Working
  <2> QED
    BY <1>3, <1>6, <1>11, <2>1 DEF ApplyEmpty
<1>12. CASE OpenFailed(t)
  <2>1. pc[t] = "openFailed" /\ pc[t] \in Working /\ id' = id /\ op' = op
    BY <1>12 DEF OpenFailed, Working
  <2> QED
    BY <1>6, <2>1
<1> QED
  BY <1>4, <1>5, <1>7, <1>8, <1>9, <1>10, <1>11, <1>12 DEF Step

LEMMA NextServed ==
    ASSUME IInv, Next, NEW t \in Tasks, Refused(t)
    PROVE  Excused(t)
<1>1. Typed
  BY DEF IInv, Typed
<1>2. ASSUME NEW u \in Tasks, pc'[t] = pc[t] PROVE FALSE
  BY <1>2 DEF Refused
<1>3. ASSUME NEW u \in Tasks, NEW j \in Ids, Keeps(u, j) PROVE u = t
  BY <1>3 DEF Keeps, Local, Untouched, Refused
<1>4. ASSUME NEW u \in Tasks, Start(u), History PROVE Excused(t)
  <2>1. Typed' /\ Grows
    BY <1>1, <1>4, StartTypes, HistoryGrows
  <2>2. u = t
    BY <1>3, <1>4, <2>1, StartStep
  <2>3. PICK i \in Ids : StartWrite(t, i)
    BY <1>4, <2>2 DEF Start, StartConfigure, StartRead, StartDelete, StartRepair, Refused, IInv, TypeOK
  <2>4. id'[t] = i
    BY <2>3 DEF StartWrite, IInv, TypeOK
  <2>5. CASE WaitForBucketCreation(t, i)
    BY <2>1, <2>4, <2>5, WaitServed DEF Refused
  <2>6. CASE map[i] = NoBucket
    BY <2>4, <2>6 DEF Excused
  <2> QED
    BY <2>3, <2>5, <2>6 DEF StartWrite
<1>5. ASSUME NEW u \in Tasks, Step(u), History PROVE Excused(t)
  <2>1. u = t
    BY <1>3, <1>5, StepKeeps
  <2> QED
    BY <1>5, <2>1, StepServed
<1>6. ASSUME NEW b \in Bucket, FinishClose(b) PROVE FALSE
  <2>1. \/ pc'[t] = pc[t] \/ pc'[t] = "rm" \/ pc'[t] = "repairAndOpen"
    BY <1>1, <1>6, FinishCloseEffect
  <2> QED
    BY <2>1 DEF Refused
<1>7. ASSUME NEW u \in Tasks, Fault(u), FaultHistory(u) PROVE Excused(t)
  <2>1. u = t /\ id'[t] = id[t]
    BY <1>1, <1>7, FaultTypes DEF Untouched, Refused
  <2> QED
    BY <1>7, <2>1 DEF FaultHistory, Excused
<1>8. CASE Restart
  BY <1>8 DEF Restart, Refused
<1>9. CASE UNCHANGED vars
  BY <1>9 DEF vars, Refused
<1> QED
  BY <1>4, <1>5, <1>6, <1>7, <1>8, <1>9
     DEF Next, Advance, CloseDone, Finished, FaultHistory

\* A write to a bucket that other writes are creating is not refused: the semaphore makes
\* them one after the other, and whoever waits finds the bucket open.
THEOREM Served == Spec => WritesAreServed
<1> DEFINE NotRefused(t) ==
             (op'[t] = "write" /\ pc[t] # "failed" /\ pc'[t] = "failed") =>
                LET b == map[id'[t]] IN
                \/ id'[t] \in mixed' \cup scanned'
                \/ \E u \in WorkingOn(id'[t]) : op[u] # "write"
                \/ b = NoBucket \/ bucket[b].isDeleting \/ bucket[b].config.disabled
<1>1. IInv /\ [Next]_vars => [\A t \in Tasks : NotRefused(t)]_vars
  BY NextServed DEF Refused, Excused
<1> QED
  BY <1>1, Invariance, PTL DEF Spec, WritesAreServed
=============================================================================
