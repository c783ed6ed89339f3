--------------------------- MODULE StoragesProofs ---------------------------
(***************************************************************************)
(* The safety properties of Storages, for every set of keys and requests   *)
(* and every number of configurations, restarts, buckets received and      *)
(* keys generated.                                                         *)
(***************************************************************************)
EXTENDS Storages, FiniteSetTheorems, TLAPS

\* The keys of a millisecond are counted from zero.  While the clock has not been set
\* back, the last key is the newest and has the largest counter of its millisecond.
KeyInv ==
    /\ generated \subseteq Nat \X Nat /\ IsFiniteSet(generated)
    /\ newest \in Nat /\ {steppedBack, reused} \subseteq BOOLEAN
    /\ \A g \in generated : <<g[1], 0>> \in generated
    /\ keyLast # None =>
          /\ <<keyLast, keyCounter>> \in generated
          /\ ~reused => keyCounter < Cardinality(generated)
    /\ ~steppedBack =>
          /\ \A g \in generated : g[1] <= newest
          /\ keyLast # None =>
                /\ keyLast = newest
                /\ \A g \in generated : g[1] = newest => g[2] <= keyCounter

IInv == TypeOK /\ KeyInv /\ EventsTellWhatIsServed /\ FreshKeys

StoreTypes ==
    /\ disk \in Store /\ memory \in Store
    /\ ~inMemory => \A k \in Keys : memory[k] = Absent
    /\ view \in [Keys -> Value \cup {Absent}]
    /\ stale \subseteq Keys

\* A record that is put where reads come from, and published with its value, leaves the
\* subscribers knowing what is served; put elsewhere it makes its key stale.
LEMMA PutAndPublish ==
    ASSUME TypeOK, EventsTellWhatIsServed,
           NEW s \in {"disk", "memory"}, NEW k \in Keys, NEW rec \in Record \cup {Absent},
           Put(s, k, rec), Publish(s, k, ValueOf(rec)), UNCHANGED persistence
    PROVE  StoreTypes' /\ EventsTellWhatIsServed'
<1>1. ValueOf(rec) \in Value \cup {Absent}
  BY AbsentAssumption DEF ValueOf, Record
<1>2. /\ view' = [view EXCEPT ![k] = ValueOf(rec)]
      /\ stale' = IF s = persistence THEN stale \ {k} ELSE stale \cup {k}
  BY DEF Publish
<1>3. CASE s = "memory"
  <2>1. memory' = [memory EXCEPT ![k] = rec] /\ inMemory' = TRUE /\ UNCHANGED disk
    BY <1>3 DEF Put
  <2> QED
    BY <1>1, <1>2, <1>3, <2>1 DEF TypeOK, StoreTypes, Store, EventsTellWhatIsServed, Served, ValueOf
<1>4. CASE s = "disk"
  <2>1. disk' = [disk EXCEPT ![k] = rec] /\ UNCHANGED <<memory, inMemory>>
    BY <1>4 DEF Put
  <2> QED
    BY <1>1, <1>2, <1>4, <2>1 DEF TypeOK, StoreTypes, Store, EventsTellWhatIsServed, Served, ValueOf
<1> QED
  BY <1>3, <1>4

\* The same of the records a request or a master puts.
LEMMA RecordOf ==
    ASSUME NEW value \in Value, NEW session \in BOOLEAN
    PROVE  /\ [value |-> value, session |-> session] \in Record
           /\ ValueOf([value |-> value, session |-> session]) = value
           /\ ValueOf(Absent) = Absent
  BY AbsentAssumption DEF Record, ValueOf

\* Every variable keeps its type, and what subscribers were told is what is served.
LEMMA StoreStep ==
    ASSUME TypeOK, EventsTellWhatIsServed, [Next]_vars
    PROVE  StoreTypes' /\ EventsTellWhatIsServed'
<1> DEFINE Goal == StoreTypes' /\ EventsTellWhatIsServed'
<1> USE DEF storeVars, requestVars, keyVars, configVars
<1>1. ASSUME UNCHANGED <<storeVars, view, stale, persistence>> PROVE Goal
  BY <1>1 DEF TypeOK, StoreTypes, EventsTellWhatIsServed, Served
<1>2. persistence \in {"disk", "memory"} /\ \A r \in Requests : key[r] \in Keys /\ storage[r] \in {"disk", "memory"}
  BY DEF TypeOK
<1>3. \A r \in Requests : {<<r, 1>>} \in Value /\ {<<r, 1>>, <<r, 2>>} \in Value
  BY DEF Value, Mark
<1>4. {<<Master, 1>>} \in Value
  BY DEF Value, Mark
<1>5. ASSUME NEW r \in Requests, NEW session \in BOOLEAN, Write(r, session) PROVE Goal
  <2> DEFINE rec == [value |-> {<<r, 1>>}, session |-> session]
  <2>1. rec \in Record /\ ValueOf(rec) = {<<r, 1>>}
    BY <1>3, RecordOf
  <2>2. Put(persistence, key[r], rec) /\ Publish(persistence, key[r], ValueOf(rec)) /\ UNCHANGED persistence
    BY <1>5, <2>1 DEF Write
  <2> HIDE DEF rec
  <2> QED
    BY <1>2, <2>1, <2>2, PutAndPublish
<1>6. ASSUME NEW r \in Requests, Remove(r) PROVE Goal
  BY <1>1, <1>2, <1>6, RecordOf, PutAndPublish DEF Remove, Value
<1>7. ASSUME NEW r \in Requests, AskPatch(r) PROVE Goal
  BY <1>1, <1>7 DEF AskPatch
<1>8. ASSUME NEW r \in Requests, Patch(r) PROVE Goal
  <2> DEFINE value == Found(r).value \cup {<<r, 1>>, <<r, 2>>}
             rec == [value |-> value, session |-> FALSE]
  <2>1. Found(r) \in Record
    BY <1>2, <1>8 DEF Patch, Found, TypeOK, Store
  <2>2. value \in Value
    BY <1>3, <2>1 DEF Record, Value
  <2>3. rec \in Record /\ ValueOf(rec) = value
    BY <2>2, RecordOf
  <2>4. Put(storage[r], key[r], rec) /\ Publish(storage[r], key[r], ValueOf(rec)) /\ UNCHANGED persistence
    BY <1>8, <2>3 DEF Patch
  <2> HIDE DEF rec
  <2> QED
    BY <1>2, <2>3, <2>4, PutAndPublish
<1>17. ASSUME NEW r \in Requests, PatchRoot(r) PROVE Goal
  <2> DEFINE rec == [value |-> Found(r).value, session |-> FALSE]
  <2>1. Found(r) \in Record
    BY <1>2, <1>17 DEF PatchRoot, Found, TypeOK, Store
  <2>2. rec \in Record
    BY <2>1 DEF Record
  <2>3. /\ Put(storage[r], key[r], rec) /\ UNCHANGED persistence
        /\ view' = [view EXCEPT ![key[r]] = {<<r, 1>>}]
        /\ stale' = stale \cup {key[r]}
    BY <1>17 DEF PatchRoot
  <2> HIDE DEF rec
  <2>4. StoreTypes'
    BY <1>2, <1>3, <2>2, <2>3 DEF TypeOK, StoreTypes, Store, Put
  <2>5. EventsTellWhatIsServed'
    BY <1>2, <2>3 DEF TypeOK, Store, Put, EventsTellWhatIsServed, Served
  <2> QED
    BY <2>4, <2>5
<1>9. ASSUME NEW r \in Requests, PatchFails(r) PROVE Goal
  <2>1. CASE Found(r) # Absent /\ storage[r] = "memory"
    <3> DEFINE rec == [memory[key[r]] EXCEPT !.value = @ \cup {<<r, 1>>}]
    <3>1. memory[key[r]] \in Record
      BY <1>2, <2>1 DEF Found, TypeOK, Store
    <3>2. rec \in Record
      BY <1>3, <3>1 DEF Record, Value
    <3>3. memory' = [memory EXCEPT ![key[r]] = rec]
          /\ stale' = (IF persistence = "memory" THEN stale \cup {key[r]} ELSE stale)
          /\ UNCHANGED <<disk, inMemory, view, persistence>>
      BY <1>9, <2>1 DEF PatchFails
    <3> HIDE DEF rec
    <3>4. inMemory
      BY <1>2, <3>1, AbsentAssumption DEF TypeOK
    <3> QED
      BY <1>2, <3>2, <3>3, <3>4 DEF TypeOK, StoreTypes, Store, EventsTellWhatIsServed, Served
  <2>2. CASE ~(Found(r) # Absent /\ storage[r] = "memory")
    BY <1>1, <1>9, <2>2 DEF PatchFails
  <2> QED
    BY <2>1, <2>2
<1>10. ASSUME NEW keys \in SUBSET Keys, Receive(keys) PROVE Goal
  <2> DEFINE rec == [value |-> {<<Master, 1>>}, session |-> FALSE]
             written == [k \in Keys |-> IF k \in keys THEN rec ELSE disk[k]]
  <2>1. rec \in Record /\ ValueOf(rec) = {<<Master, 1>>}
    BY <1>4, RecordOf
  <2>2. /\ disk' = IF persistence = "disk"
                   THEN [k \in Keys |-> IF k \in keys THEN written[k] ELSE Absent] ELSE written
        /\ memory' = IF persistence = "memory"
                     THEN [k \in Keys |-> IF k \in keys THEN memory[k] ELSE Absent] ELSE memory
        /\ view' = [k \in Keys |-> IF k \in keys THEN {<<Master, 1>>} ELSE view[k]]
        /\ stale' = IF persistence = "memory" THEN Keys
                    ELSE (stale \ keys) \cup {k \in Keys \ keys : view[k] # Absent}
        /\ UNCHANGED <<inMemory, persistence>>
    BY <1>10 DEF Receive
  <2> HIDE DEF rec
  <2>3. StoreTypes'
    BY <1>4, <2>1, <2>2 DEF TypeOK, StoreTypes, Store
  <2>4. EventsTellWhatIsServed'
    BY <1>2, <2>1, <2>2 DEF EventsTellWhatIsServed, Served, ValueOf, TypeOK
  <2> QED
    BY <2>3, <2>4
<1>11. ASSUME NEW k \in Keys, ReceiveRecord(k) PROVE Goal
  BY <1>2, <1>4, <1>11, RecordOf, PutAndPublish DEF ReceiveRecord
<1>12. ASSUME NEW k \in Keys, ReceiveDeletion(k) PROVE Goal
  BY <1>1, <1>2, <1>12, RecordOf, PutAndPublish DEF ReceiveDeletion, Value
<1>13. CASE Toggle
  BY <1>13 DEF Toggle, TypeOK, StoreTypes, EventsTellWhatIsServed
<1>14. CASE Restart
  <2>1. /\ disk' = Purged(persistence) /\ disk' \in Store
        /\ memory' = [k \in Keys |-> Absent] /\ inMemory' = FALSE /\ stale' = {}
        /\ view' = [k \in Keys |-> ValueOf(IF persistence' = "memory" THEN Absent ELSE disk'[k])]
    BY <1>14 DEF Restart, Purged, TypeOK, Store
  <2>2. \A rec \in Record \cup {Absent} : ValueOf(rec) \in Value \cup {Absent}
    BY DEF ValueOf, Record
  <2>3. StoreTypes'
    BY <2>1, <2>2 DEF StoreTypes, Store
  <2> QED
    BY <2>1, <2>3 DEF EventsTellWhatIsServed, Served
<1>15. CASE GenerateKey
  BY <1>1, <1>15 DEF GenerateKey
<1>16. CASE UNCHANGED vars
  BY <1>1, <1>16 DEF vars
<1> QED
  BY <1>5, <1>6, <1>7, <1>8, <1>9, <1>10, <1>11, <1>12, <1>13, <1>14, <1>15, <1>16, <1>17 DEF Next

\* The requests and the configuration keep their types.
LEMMA ConfigStep ==
    ASSUME TypeOK, [Next]_vars
    PROVE  /\ persistence' \in {"disk", "memory"}
           /\ pc' \in [Requests -> {"idle", "wait", "done", "failed"}]
           /\ key' \in [Requests -> Keys] /\ storage' \in [Requests -> {"disk", "memory"}]
<1> USE DEF TypeOK, storeVars, requestVars, keyVars, configVars
<1>1. ASSUME NEW r \in Requests, NEW outcome \in {"wait", "done", "failed"}, End(r, outcome)
      PROVE  pc' \in [Requests -> {"idle", "wait", "done", "failed"}]
  BY <1>1 DEF End
<1>2. ASSUME NEW r \in Requests,
             (\E session \in BOOLEAN : Write(r, session)) \/ Remove(r)
                \/ Patch(r) \/ PatchRoot(r) \/ PatchFails(r)
      PROVE  /\ \E outcome \in {"done", "failed"} : End(r, outcome)
             /\ UNCHANGED <<key, storage, configVars>>
  BY <1>2 DEF Write, Remove, Patch, PatchRoot, PatchFails
<1>3. ASSUME NEW r \in Requests, AskPatch(r)
      PROVE  storage' \in [Requests -> {"disk", "memory"}]
  BY <1>3 DEF AskPatch
<1>4. CASE \E r \in Requests : AskPatch(r)
  BY <1>1, <1>3, <1>4 DEF AskPatch
<1>5. CASE UNCHANGED <<requestVars, configVars>>
  BY <1>5
<1>6. CASE Toggle
  BY <1>6 DEF Toggle
<1>7. CASE Restart
  BY <1>7 DEF Restart, StartsWith
<1> QED
  BY <1>1, <1>2, <1>4, <1>5, <1>6, <1>7 DEF Next, Receive, ReceiveRecord, ReceiveDeletion, GenerateKey, vars

\* While the clock moves on a counter is new, and the one a restart begins with is one of
\* a millisecond in which no key was given out.
LEMMA KeyStep ==
    ASSUME TypeOK, KeyInv, FreshKeys, [Next]_vars
    PROVE  /\ keyLast' \in 0 .. MaxClock \cup {None} /\ keyCounter' \in 0 .. MaxGenerated
           /\ KeyInv' /\ FreshKeys'
<1> USE DEF storeVars, requestVars, keyVars, configVars
<1>1. CASE UNCHANGED keyVars
  BY <1>1 DEF TypeOK, KeyInv, FreshKeys
<1>2. CASE Restart
  <2>1. keyLast' = None /\ keyCounter' = 0 /\ UNCHANGED <<generated, newest, steppedBack, reused>>
    BY <1>2 DEF Restart
  <2> QED
    BY <2>1, BoundsAssumption DEF TypeOK, KeyInv, FreshKeys
<1>3. CASE GenerateKey
  <2> DEFINE counter(now) == IF now = keyLast THEN keyCounter + 1 ELSE 0
  <2>1. PICK now \in 0 .. MaxClock :
            /\ Cardinality(generated) < MaxGenerated /\ ~reused
            /\ keyLast' = now /\ keyCounter' = counter(now)
            /\ newest' = (IF now > newest THEN now ELSE newest)
            /\ steppedBack' = (steppedBack \/ now < newest \/ (keyLast = None /\ <<now, 0>> \in generated))
            /\ generated' = generated \cup {<<now, counter(now)>>}
            /\ reused' = (<<now, counter(now)>> \in generated)
    BY <1>3 DEF GenerateKey
  <2> DEFINE c == counter(now)
             new == <<now, c>>
  <2>2. now \in Nat /\ now # None /\ keyCounter \in Nat
    BY BoundsAssumption, NoneAssumption DEF TypeOK
  <2>3. c \in Nat /\ (c # 0 => keyLast = now /\ c = keyCounter + 1)
    BY <2>2
  <2>4. /\ generated \subseteq Nat \X Nat /\ IsFiniteSet(generated) /\ newest \in Nat
        /\ \A g \in generated : <<g[1], 0>> \in generated
    BY DEF KeyInv
  <2>5. Cardinality(generated) \in Nat /\ IsFiniteSet(generated')
        /\ Cardinality(generated') = IF new \in generated THEN Cardinality(generated) ELSE Cardinality(generated) + 1
    BY <2>1, <2>4, FS_CardinalityType, FS_AddElement
  <2>6. c # 0 => keyCounter < Cardinality(generated) /\ <<now, keyCounter>> \in generated
    BY <2>1, <2>2, <2>3 DEF KeyInv
  <2>7. c \in 0 .. MaxGenerated
    BY <2>1, <2>2, <2>3, <2>5, <2>6, BoundsAssumption
  <2>8. /\ generated' \subseteq Nat \X Nat
        /\ \A g \in generated' : <<g[1], 0>> \in generated'
    <3>1. c # 0 => <<now, 0>> \in generated
      BY <2>4, <2>6
    <3> QED
      BY <2>1, <2>2, <2>3, <2>4, <3>1
  <2>9. ~reused' => c < Cardinality(generated')
    <3> HIDE DEF c, new
    <3>1. ASSUME ~reused' PROVE Cardinality(generated') = Cardinality(generated) + 1
      BY <2>1, <2>5, <3>1 DEF c, new
    <3> QED
      BY <2>2, <2>3, <2>5, <2>6, <3>1
  <2>10. ASSUME ~steppedBack'
         PROVE  /\ \A g \in generated' : g[1] <= newest'
                /\ now = newest'
                /\ \A g \in generated' : g[1] = newest' => g[2] <= c
                /\ new \notin generated
    <3>0. ~steppedBack /\ ~(now < newest) /\ ~(keyLast = None /\ <<now, 0>> \in generated)
      BY <2>1, <2>10, Zenon
    <3>1. ~steppedBack /\ now >= newest /\ ~(keyLast = None /\ <<now, 0>> \in generated)
      BY <2>2, <2>4, <3>0
    <3>2. newest' = now
      BY <2>1, <2>2, <2>4, <3>1
    <3>3. /\ \A g \in generated : g[1] <= newest
          /\ keyLast # None =>
                /\ keyLast = newest
                /\ \A g \in generated : g[1] = newest => g[2] <= keyCounter
      BY <3>1 DEF KeyInv
    <3>4. \A g \in generated : g[1] = now => g[2] < c
      <4>1. CASE now > newest
        BY <2>2, <2>4, <3>3, <4>1
      <4>2. CASE now = newest /\ keyLast = None
        BY <2>4, <3>1, <4>2
      <4>3. CASE now = newest /\ keyLast # None
        BY <2>2, <2>4, <3>3, <4>3
      <4> QED
        BY <2>2, <2>4, <3>1, <4>1, <4>2, <4>3
    <3>5. \A g \in generated' : g[1] <= now /\ (g[1] = now => g[2] <= c)
      BY <2>1, <2>2, <2>3, <2>4, <3>1, <3>3, <3>4
    <3> QED
      BY <2>3, <3>2, <3>4, <3>5
  <2>11. steppedBack' \in BOOLEAN /\ reused' \in BOOLEAN /\ newest' \in Nat /\ new \in generated'
    BY <2>1, <2>2, <2>4 DEF KeyInv
  <2> HIDE DEF c, new
  <2>12. keyLast' = now /\ keyCounter' = c /\ (reused' <=> new \in generated)
    BY <2>1 DEF c, new
  <2>13. KeyInv'
    BY <2>5, <2>8, <2>9, <2>10, <2>11, <2>12 DEF KeyInv, new
  <2>14. FreshKeys'
    BY <2>10, <2>12 DEF FreshKeys
  <2> QED
    BY <2>2, <2>7, <2>12, <2>13, <2>14
<1> QED
  BY <1>1, <1>2, <1>3
  DEF Next, Write, Remove, AskPatch, Patch, PatchRoot, PatchFails, Receive, ReceiveRecord, ReceiveDeletion, Toggle, vars

\* The invariant holds of a bucket without records.
LEMMA InitInv ==
    ASSUME Init
    PROVE  IInv
<1> USE DEF Init
<1>1. TypeOK
  BY BoundsAssumption DEF TypeOK, Store
<1>2. KeyInv
  BY FS_EmptySet DEF KeyInv
<1>3. EventsTellWhatIsServed /\ FreshKeys
  BY DEF EventsTellWhatIsServed, Served, ValueOf, FreshKeys
<1> QED
  BY <1>1, <1>2, <1>3 DEF IInv

\* The inductive invariant of the storages.
THEOREM Invariance == Spec => []IInv
<1>1. Init => IInv
  BY InitInv
<1>2. ASSUME IInv, [Next]_vars PROVE IInv'
  <2>1. StoreTypes' /\ EventsTellWhatIsServed'
    BY <1>2, StoreStep DEF IInv
  <2>2. /\ persistence' \in {"disk", "memory"}
        /\ pc' \in [Requests -> {"idle", "wait", "done", "failed"}]
        /\ key' \in [Requests -> Keys] /\ storage' \in [Requests -> {"disk", "memory"}]
    BY <1>2, ConfigStep DEF IInv
  <2>3. /\ keyLast' \in 0 .. MaxClock \cup {None} /\ keyCounter' \in 0 .. MaxGenerated
        /\ KeyInv' /\ FreshKeys'
    BY <1>2, KeyStep DEF IInv
  <2>4. TypeOK'
    BY <2>1, <2>2, <2>3 DEF TypeOK, StoreTypes
  <2> QED
    BY <2>1, <2>2, <2>3, <2>4 DEF IInv
<1> QED
  BY <1>1, <1>2, PTL DEF Spec

\* Every variable has its type: a storage without a map has no record.
THEOREM TypeCorrect == Spec => []TypeOK
  BY Invariance, PTL DEF IInv

\* A subscriber that applies the events knows what a read would tell it.
THEOREM EventsTell == Spec => []EventsTellWhatIsServed
  BY Invariance, PTL DEF IInv

\* generateKey gives no key out twice, however often the service restarts, unless the
\* clock is set back.
THEOREM Fresh == Spec => []FreshKeys
  BY Invariance, PTL DEF IInv
=============================================================================
