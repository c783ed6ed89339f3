---------------------------- MODULE KeyOpsProofs ----------------------------
(***************************************************************************)
(* The safety properties of KeyOps, proved for every set of keys and of    *)
(* requests and every number of faults and crashes.  Each layer of IInv is *)
(* preserved by every step, given the layers it rests on.  With creates and *)
(* patches only, KeyOps implements AtomicKeys.                             *)
(***************************************************************************)
EXTENDS KeyOpsInv, KeyOpsAtomic, SequenceTheorems, TLAPS

LEMMA AppendType ==
    ASSUME NEW S, NEW s \in Seq(S), NEW e \in S
    PROVE  Append(s, e) \in Seq(S)
  BY AppendProperties

\* A step keeps every variable in its type.  What a request stores is a record because
\* a patch goes on to its put only with the record it has read.
LEMMA TypeStep ==
    ASSUME TypeOK, RequestInv, [Next]_vars
    PROVE  TypeOK'
<1> USE DEF TypeOK, RequestInv, reqVars, bootVars, ghosts, Call, Phases, Settled, OpNames, ReadModifyWrite, Patches
<1>1. CASE Open
  BY <1>1 DEF Open, ExpiredKeys
<1>2. CASE CopyMetadata
  BY <1>2 DEF CopyMetadata, MetaOf, Record, Metadata, ExpiredKeys
<1>3. ASSUME NEW k \in Keys, PurgeRecord(k) PROVE TypeOK'
  BY <1>3 DEF PurgeRecord
<1>4. ASSUME NEW k \in Keys, PurgeMeta(k) PROVE TypeOK'
  BY <1>4 DEF PurgeMeta
<1>5. CASE Serve
  BY <1>5 DEF Serve, ValueOf, Record
<1>6. ASSUME NEW r \in Requests, NEW o \in Ops, NEW k \in Keys, NEW s \in BOOLEAN,
           Invoke(r, o, k, s)
    PROVE  TypeOK'
  <2>1. [op |-> o, key |-> k, session |-> s] \in Call
    OBVIOUS
  <2>2. call' \in [Requests -> Call \cup {Nobody}]
    BY <1>6, <2>1 DEF Invoke
  <2>3. pc' \in [Requests -> Phases]
    BY <1>6 DEF Invoke
  <2>4. ASSUME NEW q \in Requests, pc'[q] # "idle" PROVE call'[q] \in Call
    BY <1>6, <2>1, <2>4 DEF Invoke
  <2>5. waiting' \in {waiting, Append(waiting, r)}
    BY <1>6 DEF Invoke
  <2>6. waiting' \in Seq(Requests)
    <3>1. waiting \in Seq(Requests)
      OBVIOUS
    <3>2. Append(waiting, r) \in Seq(Requests)
      BY <3>1, AppendType
    <3> QED
      BY <2>5, <3>1, <3>2
  <2> QED
    BY <1>6, <2>2, <2>3, <2>4, <2>6 DEF Invoke
<1>7. ASSUME NEW r \in Requests, Acquire(r) PROVE TypeOK'
  BY <1>7 DEF Acquire
<1>8. ASSUME NEW r \in Requests, ReadForCreate(r) PROVE TypeOK'
  BY <1>8 DEF ReadForCreate
<1>9. ASSUME NEW r \in Requests, ReadForPatch(r) PROVE TypeOK'
  BY <1>9 DEF ReadForPatch
<1>10. ASSUME NEW r \in Requests, StoreRecord(r) PROVE TypeOK'
  BY <1>10, NoRecordAssumption DEF StoreRecord, NewRecord, Record, Writers, Window, Informed, Blind
<1>11. ASSUME NEW r \in Requests, StoreMeta(r) PROVE TypeOK'
  BY <1>11 DEF StoreMeta, MetaOf, NewRecord, Record, Metadata, Writers
<1>12. ASSUME NEW r \in Requests, Publish(r) PROVE TypeOK'
  BY <1>12 DEF Publish, Announced, ValueOf, NewRecord, Record, Writers, Release
<1>13. ASSUME NEW r \in Requests, GiveUp(r) PROVE TypeOK'
  BY <1>13 DEF GiveUp, Release
<1>14. ASSUME NEW r \in Requests, Fault(r) PROVE TypeOK'
  <2>1. faults' \in 0 .. MaxFaults
    BY <1>14, BoundsAssumption DEF Fault
  <2>2. suspect' \subseteq Keys
    BY <1>14 DEF Fault
  <2>3. pc' \in [Requests -> Phases] /\ \A q \in Requests : pc'[q] # "idle" => call'[q] \in Call
    BY <1>14, FaultsAssumption DEF Fault, Calls
  <2> QED
    BY <1>14, <2>1, <2>2, <2>3 DEF Fault
<1>15. CASE Crash
  BY <1>15, BoundsAssumption DEF Crash, HalfDone
<1>17. CASE FailOpening
  BY <1>17, BoundsAssumption DEF FailOpening, ExpiredKeys, HalfDone, ValueOf, Record
<1>16. CASE UNCHANGED vars
  BY <1>16 DEF vars
<1> QED
  BY <1>1, <1>2, <1>3, <1>4, <1>5, <1>6, <1>7, <1>8, <1>9, <1>10, <1>11, <1>12, <1>13, <1>14, <1>15, <1>16, <1>17 DEF Next, Boot, Advance, Finished

\* What is known of a request from where it is.
LEMMA RequestStep ==
    ASSUME TypeOK, RequestInv, [Next]_vars
    PROVE  RequestInv'
<1> USE DEF TypeOK, RequestInv, bootVars, reqVars, ghosts, Call, Phases, Settled, OpNames, ReadModifyWrite, Patches
<1>1. CASE Open
  BY <1>1 DEF Open
<1>2. CASE CopyMetadata
  BY <1>2 DEF CopyMetadata
<1>3. ASSUME NEW k \in Keys, PurgeRecord(k) PROVE RequestInv'
  BY <1>3 DEF PurgeRecord
<1>4. ASSUME NEW k \in Keys, PurgeMeta(k) PROVE RequestInv'
  BY <1>4 DEF PurgeMeta
<1>5. CASE Serve
  BY <1>5 DEF Serve
<1>6. ASSUME NEW r \in Requests, NEW o \in Ops, NEW k \in Keys, NEW s \in BOOLEAN,
           Invoke(r, o, k, s)
    PROVE  RequestInv'
  <2>1. \A q \in Requests \ {r} : call'[q] = call[q] /\ pc'[q] = pc[q]
    BY <1>6 DEF Invoke
  <2>2. call'[r].op = o /\ pc'[r] \in {"put", "wait"} /\ (pc'[r] = "wait" => o \in ReadModifyWrite)
    BY <1>6 DEF Invoke
  <2>3. (pc'[r] = "put" => o \notin ReadModifyWrite) /\ pc[r] = "idle" /\ mode = "serving"
    BY <1>6 DEF Invoke
  <2>4. UNCHANGED <<mode, seen, exposed, misread, old>>
    BY <1>6 DEF Invoke
  <2> QED
    BY <2>1, <2>2, <2>3, <2>4
<1>7. ASSUME NEW r \in Requests, Acquire(r) PROVE RequestInv'
  BY <1>7 DEF Acquire
<1>8. ASSUME NEW r \in Requests, ReadForCreate(r) PROVE RequestInv'
  BY <1>8 DEF ReadForCreate
<1>9. ASSUME NEW r \in Requests, ReadForPatch(r) PROVE RequestInv'
  BY <1>9 DEF ReadForPatch
<1>10. ASSUME NEW r \in Requests, StoreRecord(r) PROVE RequestInv'
  BY <1>10 DEF StoreRecord, Informed, Blind
<1>11. ASSUME NEW r \in Requests, StoreMeta(r) PROVE RequestInv'
  BY <1>11 DEF StoreMeta
<1>12. ASSUME NEW r \in Requests, Publish(r) PROVE RequestInv'
  BY <1>12 DEF Publish, Release
<1>13. ASSUME NEW r \in Requests, GiveUp(r) PROVE RequestInv'
  BY <1>13 DEF GiveUp, Release
<1>14. ASSUME NEW r \in Requests, Fault(r) PROVE RequestInv'
  BY <1>14, FaultsAssumption DEF Fault, Calls
<1>15. CASE Crash
  BY <1>15 DEF Crash
<1>17. CASE FailOpening
  BY <1>17 DEF FailOpening
<1>16. CASE UNCHANGED vars
  BY <1>16 DEF vars
<1> QED
  BY <1>1, <1>2, <1>3, <1>4, <1>5, <1>6, <1>7, <1>8, <1>9, <1>10, <1>11, <1>12, <1>13, <1>14, <1>15, <1>16, <1>17 DEF Next, Boot, Advance, Finished

\* Acquire waits for the semaphore to be free, and only its holder releases it.
LEMMA HolderStep ==
    ASSUME TypeOK, RequestInv, HolderInv, [Next]_vars
    PROVE  HolderInv'
<1> USE DEF TypeOK, RequestInv, HolderInv, InSection, bootVars, reqVars, ghosts, Call, Phases, Settled, OpNames, ReadModifyWrite, Patches
<1>1. CASE Open
  BY <1>1 DEF Open
<1>2. CASE CopyMetadata
  BY <1>2 DEF CopyMetadata
<1>3. ASSUME NEW k \in Keys, PurgeRecord(k) PROVE HolderInv'
  BY <1>3 DEF PurgeRecord
<1>4. ASSUME NEW k \in Keys, PurgeMeta(k) PROVE HolderInv'
  BY <1>4 DEF PurgeMeta
<1>5. CASE Serve
  BY <1>5 DEF Serve
<1>6. ASSUME NEW r \in Requests, NEW o \in Ops, NEW k \in Keys, NEW s \in BOOLEAN,
           Invoke(r, o, k, s)
    PROVE  HolderInv'
  BY <1>6 DEF Invoke
<1>7. ASSUME NEW r \in Requests, Acquire(r) PROVE HolderInv'
  BY <1>7, NamesAssumption DEF Acquire
<1>8. ASSUME NEW r \in Requests, ReadForCreate(r) PROVE HolderInv'
  BY <1>8 DEF ReadForCreate
<1>9. ASSUME NEW r \in Requests, ReadForPatch(r) PROVE HolderInv'
  BY <1>9 DEF ReadForPatch
<1>10. ASSUME NEW r \in Requests, StoreRecord(r) PROVE HolderInv'
  BY <1>10 DEF StoreRecord
<1>11. ASSUME NEW r \in Requests, StoreMeta(r) PROVE HolderInv'
  BY <1>11 DEF StoreMeta
<1>12. ASSUME NEW r \in Requests, Publish(r) PROVE HolderInv'
  BY <1>12 DEF Publish, Release
<1>13. ASSUME NEW r \in Requests, GiveUp(r) PROVE HolderInv'
  BY <1>13 DEF GiveUp, Release
<1>14. ASSUME NEW r \in Requests, Fault(r) PROVE HolderInv'
  BY <1>14, FaultsAssumption DEF Fault, Calls
<1>15. CASE Crash
  BY <1>15 DEF Crash
<1>17. CASE FailOpening
  BY <1>17 DEF FailOpening
<1>16. CASE UNCHANGED vars
  BY <1>16 DEF vars
<1> QED
  BY <1>1, <1>2, <1>3, <1>4, <1>5, <1>6, <1>7, <1>8, <1>9, <1>10, <1>11, <1>12, <1>13, <1>14, <1>15, <1>16, <1>17 DEF Next, Boot, Advance, Finished

\* The opening purges every session record before the bucket serves, and while it serves
\* only requests made since the last start write.
LEMMA BootStep ==
    ASSUME TypeOK, RequestInv, BootInv, [Next]_vars
    PROVE  BootInv'
<1> USE DEF TypeOK, RequestInv, BootInv, ExpiredKeys, bootVars, reqVars, ghosts, Call, Phases, Settled, OpNames, ReadModifyWrite, Patches
<1>1. CASE Open
  BY <1>1 DEF Open
<1>2. CASE CopyMetadata
  BY <1>2 DEF CopyMetadata, MetaOf
<1>3. ASSUME NEW k \in Keys, PurgeRecord(k) PROVE BootInv'
  BY <1>3 DEF PurgeRecord
<1>4. ASSUME NEW k \in Keys, PurgeMeta(k) PROVE BootInv'
  BY <1>4 DEF PurgeMeta
<1>5. CASE Serve
  BY <1>5 DEF Serve
<1>6. ASSUME NEW r \in Requests, NEW o \in Ops, NEW k \in Keys, NEW s \in BOOLEAN,
           Invoke(r, o, k, s)
    PROVE  BootInv'
  BY <1>6 DEF Invoke
<1>7. ASSUME NEW r \in Requests, Acquire(r) PROVE BootInv'
  BY <1>7 DEF Acquire
<1>8. ASSUME NEW r \in Requests, ReadForCreate(r) PROVE BootInv'
  BY <1>8 DEF ReadForCreate
<1>9. ASSUME NEW r \in Requests, ReadForPatch(r) PROVE BootInv'
  BY <1>9 DEF ReadForPatch
<1>10. ASSUME NEW r \in Requests, StoreRecord(r) PROVE BootInv'
  BY <1>10, NamesAssumption, NoRecordAssumption DEF StoreRecord, NewRecord, Record
<1>11. ASSUME NEW r \in Requests, StoreMeta(r) PROVE BootInv'
  BY <1>11 DEF StoreMeta
<1>12. ASSUME NEW r \in Requests, Publish(r) PROVE BootInv'
  BY <1>12 DEF Publish
<1>13. ASSUME NEW r \in Requests, GiveUp(r) PROVE BootInv'
  BY <1>13 DEF GiveUp
<1>14. ASSUME NEW r \in Requests, Fault(r) PROVE BootInv'
  BY <1>14 DEF Fault
<1>15. CASE Crash
  BY <1>15 DEF Crash
<1>17. CASE FailOpening
  BY <1>17 DEF FailOpening
<1>16. CASE UNCHANGED vars
  BY <1>16 DEF vars
<1> QED
  BY <1>1, <1>2, <1>3, <1>4, <1>5, <1>6, <1>7, <1>8, <1>9, <1>10, <1>11, <1>12, <1>13, <1>14, <1>15, <1>16, <1>17 DEF Next, Boot, Advance, Finished

\* A step of a request that neither has a mutation under way nor begins one.
LEMMA WindowKept ==
    ASSUME WindowInv, NEW r \in Requests,
           pc[r] \notin {"putMeta", "publish"}, pc'[r] \notin {"putMeta", "publish"},
           UNCHANGED <<db, suspect>>,
           \A q \in Requests \ {r} :
              pc'[q] = pc[q] /\ call'[q] = call[q] /\ NewRecord(q)' = NewRecord(q)
    PROVE  WindowInv'
<1> SUFFICES ASSUME NEW q \in Requests, pc'[q] \in {"putMeta", "publish"},
                    call'[q].key \notin suspect'
             PROVE  db'[call'[q].key] = NewRecord(q)' /\ Window(call[q].key)' = {q}
  BY DEF WindowInv, Window
<1>1. q # r /\ pc[q] \in {"putMeta", "publish"} /\ call'[q] = call[q] /\ NewRecord(q)' = NewRecord(q)
  OBVIOUS
<1>2. db[call[q].key] = NewRecord(q) /\ Window(call[q].key) = {q}
  BY <1>1 DEF WindowInv
<1>3. Window(call[q].key)' = Window(call[q].key)
  <2>1. \A x \in Requests : (pc'[x] \in {"putMeta", "publish"} /\ call'[x].key = call'[q].key)
                             <=> (pc[x] \in {"putMeta", "publish"} /\ call[x].key = call[q].key)
    BY <1>1
  <2> QED
    BY <2>1 DEF Window
<1> QED
  BY <1>1, <1>2, <1>3

\* A mutation that finds another one of its key under way makes the key suspect.
LEMMA WindowStep ==
    ASSUME TypeOK, RequestInv, WindowInv, [Next]_vars
    PROVE  WindowInv'
<1> USE DEF TypeOK, RequestInv, WindowInv, Window, bootVars, reqVars, ghosts, Call, Phases, Settled, OpNames, ReadModifyWrite, Patches
<1>1. CASE Open
  BY <1>1 DEF Open
<1>2. CASE CopyMetadata
  BY <1>2 DEF CopyMetadata
<1>3. ASSUME NEW k \in Keys, PurgeRecord(k) PROVE WindowInv'
  BY <1>3 DEF PurgeRecord
<1>4. ASSUME NEW k \in Keys, PurgeMeta(k) PROVE WindowInv'
  BY <1>4 DEF PurgeMeta
<1>5. CASE Serve
  BY <1>5 DEF Serve
<1>6. ASSUME NEW r \in Requests, NEW o \in Ops, NEW k \in Keys, NEW s \in BOOLEAN,
           Invoke(r, o, k, s)
    PROVE  WindowInv'
  <2>1. \A q \in Requests \ {r} : call'[q] = call[q] /\ pc'[q] = pc[q] /\ seen'[q] = seen[q]
    BY <1>6 DEF Invoke
  <2>2. \A q \in Requests \ {r} : NewRecord(q)' = NewRecord(q)
    BY <2>1 DEF NewRecord
  <2>3. pc'[r] \in {"put", "wait"} /\ pc[r] = "idle"
    BY <1>6 DEF Invoke
  <2>4. UNCHANGED <<db, suspect>>
    BY <1>6 DEF Invoke
  <2> QED
    BY <2>1, <2>2, <2>3, <2>4
<1>7. ASSUME NEW r \in Requests, Acquire(r) PROVE WindowInv'
  <2>1. \A q \in Requests : NewRecord(q)' = NewRecord(q)
    BY <1>7 DEF Acquire, NewRecord
  <2> QED
    BY <1>7, <2>1 DEF Acquire
<1>8. ASSUME NEW r \in Requests, ReadForCreate(r) PROVE WindowInv'
  <2>1. \A q \in Requests \ {r} : NewRecord(q)' = NewRecord(q)
    BY <1>8 DEF ReadForCreate, NewRecord
  <2>2. pc[r] = "read" /\ pc'[r] \in {"put", "refuse"} /\ UNCHANGED <<db, suspect>>
    BY <1>8 DEF ReadForCreate
  <2>3. \A q \in Requests \ {r} : pc'[q] = pc[q] /\ call'[q] = call[q]
    BY <1>8 DEF ReadForCreate
  <2> HIDE DEF WindowInv
  <2> QED
    BY <2>1, <2>2, <2>3, WindowKept
<1>9. ASSUME NEW r \in Requests, ReadForPatch(r) PROVE WindowInv'
  <2>1. \A q \in Requests \ {r} : NewRecord(q)' = NewRecord(q)
    BY <1>9 DEF ReadForPatch, NewRecord
  <2>2. pc[r] = "read" /\ pc'[r] \in {"put", "refuse"} /\ UNCHANGED <<db, suspect>>
    BY <1>9 DEF ReadForPatch
  <2>3. \A q \in Requests \ {r} : pc'[q] = pc[q] /\ call'[q] = call[q]
    BY <1>9 DEF ReadForPatch
  <2> HIDE DEF WindowInv
  <2> QED
    BY <2>1, <2>2, <2>3, WindowKept
<1>10. ASSUME NEW r \in Requests, StoreRecord(r) PROVE WindowInv'
  <2>1. \A q \in Requests : NewRecord(q)' = NewRecord(q)
    BY <1>10 DEF StoreRecord, NewRecord
  <2> QED
    BY <1>10, <2>1 DEF StoreRecord
<1>11. ASSUME NEW r \in Requests, StoreMeta(r) PROVE WindowInv'
  <2>1. \A q \in Requests : NewRecord(q)' = NewRecord(q)
    BY <1>11 DEF StoreMeta, NewRecord
  <2> QED
    BY <1>11, <2>1 DEF StoreMeta
<1>12. ASSUME NEW r \in Requests, Publish(r) PROVE WindowInv'
  <2>1. \A q \in Requests : NewRecord(q)' = NewRecord(q)
    BY <1>12 DEF Publish, NewRecord
  <2> QED
    BY <1>12, <2>1 DEF Publish
<1>13. ASSUME NEW r \in Requests, GiveUp(r) PROVE WindowInv'
  <2>1. \A q \in Requests : NewRecord(q)' = NewRecord(q)
    BY <1>13 DEF GiveUp, NewRecord
  <2> QED
    BY <1>13, <2>1 DEF GiveUp
<1>14. ASSUME NEW r \in Requests, Fault(r) PROVE WindowInv'
  <2>1. \A q \in Requests : NewRecord(q)' = NewRecord(q)
    BY <1>14 DEF Fault, NewRecord
  <2> QED
    BY <1>14, <2>1 DEF Fault
<1>15. CASE Crash
  BY <1>15 DEF Crash
<1>17. CASE FailOpening
  <2>1. \A q \in Requests : NewRecord(q)' = NewRecord(q)
    BY <1>17 DEF FailOpening, NewRecord
  <2> QED
    BY <1>17, <2>1 DEF FailOpening
<1>16. CASE UNCHANGED vars
  <2>1. \A q \in Requests : NewRecord(q)' = NewRecord(q)
    BY <1>16 DEF vars, NewRecord
  <2> QED
    BY <1>16, <2>1 DEF vars
<1> QED
  BY <1>1, <1>2, <1>3, <1>4, <1>5, <1>6, <1>7, <1>8, <1>9, <1>10, <1>11, <1>12, <1>13, <1>14, <1>15, <1>16, <1>17 DEF Next, Boot, Advance, Finished

\* The second storage call follows the first with the metadata of the same record.
LEMMA MetaStep ==
    ASSUME TypeOK, RequestInv, BootInv, WindowInv, MetaInv, [Next]_vars
    PROVE  MetaInv'
<1> USE DEF TypeOK, RequestInv, BootInv, WindowInv, MetaInv, Window, MetaOf, bootVars, reqVars, ghosts, Call, Phases, Settled, OpNames, ReadModifyWrite, Patches
<1>1. CASE Open
  BY <1>1 DEF Open
<1>2. CASE CopyMetadata
  BY <1>2 DEF CopyMetadata
<1>3. ASSUME NEW k \in Keys, PurgeRecord(k) PROVE MetaInv'
  BY <1>3 DEF PurgeRecord
<1>4. ASSUME NEW k \in Keys, PurgeMeta(k) PROVE MetaInv'
  BY <1>4 DEF PurgeMeta
<1>5. CASE Serve
  BY <1>5 DEF Serve
<1>6. ASSUME NEW r \in Requests, NEW o \in Ops, NEW k \in Keys, NEW s \in BOOLEAN,
           Invoke(r, o, k, s)
    PROVE  MetaInv'
  BY <1>6 DEF Invoke
<1>7. ASSUME NEW r \in Requests, Acquire(r) PROVE MetaInv'
  BY <1>7 DEF Acquire
<1>8. ASSUME NEW r \in Requests, ReadForCreate(r) PROVE MetaInv'
  BY <1>8 DEF ReadForCreate
<1>9. ASSUME NEW r \in Requests, ReadForPatch(r) PROVE MetaInv'
  BY <1>9 DEF ReadForPatch
<1>10. ASSUME NEW r \in Requests, StoreRecord(r) PROVE MetaInv'
  BY <1>10 DEF StoreRecord
<1>11. ASSUME NEW r \in Requests, StoreMeta(r) PROVE MetaInv'
  BY <1>11 DEF StoreMeta
<1>12. ASSUME NEW r \in Requests, Publish(r) PROVE MetaInv'
  BY <1>12 DEF Publish
<1>13. ASSUME NEW r \in Requests, GiveUp(r) PROVE MetaInv'
  BY <1>13 DEF GiveUp
<1>14. ASSUME NEW r \in Requests, Fault(r) PROVE MetaInv'
  BY <1>14 DEF Fault
<1>15. CASE Crash
  BY <1>15 DEF Crash, HalfDone
<1>17. CASE FailOpening
  BY <1>17 DEF FailOpening, HalfDone
<1>16. CASE UNCHANGED vars
  BY <1>16 DEF vars
<1> QED
  BY <1>1, <1>2, <1>3, <1>4, <1>5, <1>6, <1>7, <1>8, <1>9, <1>10, <1>11, <1>12, <1>13, <1>14, <1>15, <1>16, <1>17 DEF Next, Boot, Advance, Finished

\* What the operations store.
LEMMA StoredRecord ==
    ASSUME TypeOK, RequestInv, NEW r \in Requests, pc[r] \in {"put", "putMeta", "publish"}
    PROVE  /\ call[r].op = "remove" => NewRecord(r) = NoRecord
           /\ call[r].op # "remove" =>
                 NewRecord(r) \in Record /\ NewRecord(r) # NoRecord /\ NewRecord(r).by = r
           /\ call[r].op = "patch" =>
                 NewRecord(r).val = seen[r].val \cup {r} /\ ~NewRecord(r).session
           /\ call[r].op = "rootPatch" =>
                 NewRecord(r).val = seen[r].val /\ ~NewRecord(r).session
           /\ call[r].op \in {"write", "create"} =>
                 NewRecord(r).val = {r} /\ (NewRecord(r).session => call[r].session)
  <1> USE DEF TypeOK, RequestInv, Call, OpNames
  <1>1. CASE call[r].op = "remove"
    BY <1>1 DEF NewRecord
  <1>2. CASE call[r].op = "patch"
    <2>1. NewRecord(r) = [by |-> r, val |-> seen[r].val \cup {r}, session |-> FALSE]
      BY <1>2 DEF NewRecord
    <2>2. seen[r].val \cup {r} \subseteq Writers
      BY <1>2 DEF Record, Writers, Patches
    <2>3. NewRecord(r) \in Record
      BY <2>1, <2>2 DEF Record, Writers
    <2>4. NewRecord(r) # NoRecord
      BY <2>3, NoRecordAssumption
    <2>5. NewRecord(r).by = r /\ NewRecord(r).val = seen[r].val \cup {r}
      BY <2>1
    <2>6. NewRecord(r).session = FALSE
      BY <2>1
    <2> QED
      BY <1>2, <2>3, <2>4, <2>5, <2>6
  <1>3. CASE call[r].op \in {"write", "create"}
    <2>1. NewRecord(r) = [by |-> r, val |-> {r}, session |-> call[r].session]
      BY <1>3 DEF NewRecord
    <2>2. call[r].session \in BOOLEAN
      OBVIOUS
    <2>3. NewRecord(r) \in Record
      BY <2>1, <2>2 DEF Record, Writers
    <2>4. NewRecord(r) # NoRecord
      BY <2>3, NoRecordAssumption
    <2>5. NewRecord(r).by = r /\ NewRecord(r).val = {r}
      BY <2>1
    <2>6. NewRecord(r).session => call[r].session
      BY <2>1
    <2> QED
      BY <1>3, <2>3, <2>4, <2>5, <2>6
  <1>4. CASE call[r].op = "rootPatch"
    <2>1. NewRecord(r) = [by |-> r, val |-> seen[r].val, session |-> FALSE]
      BY <1>4 DEF NewRecord
    <2>2. seen[r].val \subseteq Writers
      BY <1>4 DEF Record, Patches
    <2>3. NewRecord(r) \in Record
      BY <2>1, <2>2 DEF Record, Writers
    <2>4. NewRecord(r) # NoRecord
      BY <2>3, NoRecordAssumption
    <2>5. NewRecord(r).by = r /\ NewRecord(r).val = seen[r].val /\ NewRecord(r).session = FALSE
      BY <2>1
    <2> QED
      BY <1>4, <2>3, <2>4, <2>5
  <1> QED
    BY <1>1, <1>2, <1>3, <1>4, OpsAssumption

\* The event of a mutation carries what it stored, or what a patch of the root returned.
LEMMA MirrorStep ==
    ASSUME TypeOK, RequestInv, BootInv, WindowInv, MirrorAgrees, [Next]_vars
    PROVE  MirrorAgrees'
<1> USE DEF TypeOK, RequestInv, BootInv, WindowInv, MirrorAgrees, Window, ValueOf, HoldsRootPatch, bootVars, reqVars, ghosts, Call, Phases, Settled, OpNames, ReadModifyWrite, Patches
<1>1. CASE Open
  BY <1>1 DEF Open
<1>2. CASE CopyMetadata
  BY <1>2 DEF CopyMetadata
<1>3. ASSUME NEW k \in Keys, PurgeRecord(k) PROVE MirrorAgrees'
  BY <1>3 DEF PurgeRecord
<1>4. ASSUME NEW k \in Keys, PurgeMeta(k) PROVE MirrorAgrees'
  BY <1>4 DEF PurgeMeta
<1>5. CASE Serve
  BY <1>5 DEF Serve
<1>6. ASSUME NEW r \in Requests, NEW o \in Ops, NEW k \in Keys, NEW s \in BOOLEAN,
           Invoke(r, o, k, s)
    PROVE  MirrorAgrees'
  BY <1>6 DEF Invoke
<1>7. ASSUME NEW r \in Requests, Acquire(r) PROVE MirrorAgrees'
  BY <1>7 DEF Acquire
<1>8. ASSUME NEW r \in Requests, ReadForCreate(r) PROVE MirrorAgrees'
  BY <1>8 DEF ReadForCreate
<1>9. ASSUME NEW r \in Requests, ReadForPatch(r) PROVE MirrorAgrees'
  BY <1>9 DEF ReadForPatch
<1>10. ASSUME NEW r \in Requests, StoreRecord(r) PROVE MirrorAgrees'
  BY <1>10 DEF StoreRecord
<1>11. ASSUME NEW r \in Requests, StoreMeta(r) PROVE MirrorAgrees'
  BY <1>11 DEF StoreMeta
<1>12. ASSUME NEW r \in Requests, Publish(r) PROVE MirrorAgrees'
  <2>1. \A q \in Requests : call'[q] = call[q] /\ (q # r => pc'[q] = pc[q])
    BY <1>12 DEF Publish
  <2>2. view' = [view EXCEPT ![call[r].key] = Announced(r)] /\ UNCHANGED <<db, mode, suspect>>
    BY <1>12 DEF Publish
  <2>3. ASSUME NEW k \in Keys, mode = "serving", k \notin suspect, Window(k)' = {}
        PROVE  view'[k] = ValueOf(db[k]) \/ HoldsRootPatch(k)'
    <3>1. CASE k = call[r].key
      <4>1. db[k] = NewRecord(r) /\ view'[k] = Announced(r)
        BY <1>12, <2>2, <2>3, <3>1 DEF Publish
      <4>2. CASE call[r].op = "rootPatch"
        <5>1. db[k] # NoRecord /\ db[k].by = r /\ pc'[r] = "acked" /\ db' = db
          BY <1>12, <2>2, <4>1, <4>2, StoredRecord DEF Publish
        <5> QED
          BY <2>1, <4>1, <4>2, <5>1 DEF Announced, HoldsRootPatch
      <4>3. CASE call[r].op # "rootPatch"
        BY <4>1, <4>3 DEF Announced
      <4> QED
        BY <4>2, <4>3
    <3>2. CASE k # call[r].key
      <4>1. Window(k) = {}
        BY <1>12, <2>1, <2>3, <3>2 DEF Publish
      <4>2. view'[k] = view[k] /\ (HoldsRootPatch(k) => HoldsRootPatch(k)')
        BY <1>12, <2>1, <2>2, <3>2 DEF Publish, HoldsRootPatch
      <4> QED
        BY <2>2, <2>3, <4>1, <4>2
    <3> QED
      BY <3>1, <3>2
  <2> QED
    BY <2>2, <2>3
<1>13. ASSUME NEW r \in Requests, GiveUp(r) PROVE MirrorAgrees'
  BY <1>13 DEF GiveUp
<1>14. ASSUME NEW r \in Requests, Fault(r) PROVE MirrorAgrees'
  <2>1. \A q \in Requests : call'[q] = call[q] /\ (q # r => pc'[q] = pc[q])
    BY <1>14 DEF Fault
  <2>2. UNCHANGED <<db, view, mode>> /\ suspect \subseteq suspect'
    BY <1>14 DEF Fault
  <2>3. \A k \in Keys : k \notin suspect' => Window(k)' = Window(k)
    BY <1>14, <2>1, FaultsAssumption DEF Fault, Calls
  <2>4. \A k \in Keys : HoldsRootPatch(k) => HoldsRootPatch(k)'
    BY <1>14, <2>1, <2>2, FaultsAssumption DEF Fault, Calls
  <2> QED
    BY <2>2, <2>3, <2>4
<1>15. CASE Crash
  BY <1>15 DEF Crash
<1>17. CASE FailOpening
  BY <1>17 DEF FailOpening
<1>16. CASE UNCHANGED vars
  BY <1>16 DEF vars
<1> QED
  BY <1>1, <1>2, <1>3, <1>4, <1>5, <1>6, <1>7, <1>8, <1>9, <1>10, <1>11, <1>12, <1>13, <1>14, <1>15, <1>16, <1>17 DEF Next, Boot, Advance, Finished

\* Only an operation without the semaphore can replace a key between the read and the
\* put of a holder, and it exposes every request that is past its read.
LEMMA ReadStep ==
    ASSUME TypeOK, RequestInv, HolderInv, ReadInv, [Next]_vars
    PROVE  ReadInv'
<1> USE DEF TypeOK, RequestInv, HolderInv, InSection, ReadInv, Informed, Blind, bootVars, reqVars, ghosts, Call, Phases, Settled, OpNames, ReadModifyWrite, Patches
<1>1. CASE Open
  BY <1>1 DEF Open
<1>2. CASE CopyMetadata
  BY <1>2 DEF CopyMetadata
<1>3. ASSUME NEW k \in Keys, PurgeRecord(k) PROVE ReadInv'
  BY <1>3 DEF PurgeRecord
<1>4. ASSUME NEW k \in Keys, PurgeMeta(k) PROVE ReadInv'
  BY <1>4 DEF PurgeMeta
<1>5. CASE Serve
  BY <1>5 DEF Serve
<1>6. ASSUME NEW r \in Requests, NEW o \in Ops, NEW k \in Keys, NEW s \in BOOLEAN,
           Invoke(r, o, k, s)
    PROVE  ReadInv'
  BY <1>6 DEF Invoke
<1>7. ASSUME NEW r \in Requests, Acquire(r) PROVE ReadInv'
  BY <1>7 DEF Acquire
<1>8. ASSUME NEW r \in Requests, ReadForCreate(r) PROVE ReadInv'
  BY <1>8 DEF ReadForCreate
<1>9. ASSUME NEW r \in Requests, ReadForPatch(r) PROVE ReadInv'
  BY <1>9 DEF ReadForPatch
<1>10. ASSUME NEW r \in Requests, StoreRecord(r) PROVE ReadInv'
  BY <1>10 DEF StoreRecord
<1>11. ASSUME NEW r \in Requests, StoreMeta(r) PROVE ReadInv'
  BY <1>11 DEF StoreMeta
<1>12. ASSUME NEW r \in Requests, Publish(r) PROVE ReadInv'
  BY <1>12 DEF Publish
<1>13. ASSUME NEW r \in Requests, GiveUp(r) PROVE ReadInv'
  BY <1>13 DEF GiveUp
<1>14. ASSUME NEW r \in Requests, Fault(r) PROVE ReadInv'
  BY <1>14 DEF Fault
<1>15. CASE Crash
  BY <1>15 DEF Crash
<1>17. CASE FailOpening
  BY <1>17 DEF FailOpening
<1>16. CASE UNCHANGED vars
  BY <1>16 DEF vars
<1> QED
  BY <1>1, <1>2, <1>3, <1>4, <1>5, <1>6, <1>7, <1>8, <1>9, <1>10, <1>11, <1>12, <1>13, <1>14, <1>15, <1>16, <1>17 DEF Next, Boot, Advance, Finished

\* A create goes on to its put only when it saw no record, or when its read failed.
LEMMA CreateStep ==
    ASSUME TypeOK, RequestInv, CreateInv, [Next]_vars
    PROVE  CreateInv'
<1> USE DEF TypeOK, RequestInv, CreateInv, bootVars, reqVars, ghosts, Call, Phases, Settled, OpNames, ReadModifyWrite, Patches
<1>1. CASE Open
  BY <1>1 DEF Open
<1>2. CASE CopyMetadata
  BY <1>2 DEF CopyMetadata
<1>3. ASSUME NEW k \in Keys, PurgeRecord(k) PROVE CreateInv'
  BY <1>3 DEF PurgeRecord
<1>4. ASSUME NEW k \in Keys, PurgeMeta(k) PROVE CreateInv'
  BY <1>4 DEF PurgeMeta
<1>5. CASE Serve
  BY <1>5 DEF Serve
<1>6. ASSUME NEW r \in Requests, NEW o \in Ops, NEW k \in Keys, NEW s \in BOOLEAN,
           Invoke(r, o, k, s)
    PROVE  CreateInv'
  BY <1>6 DEF Invoke
<1>7. ASSUME NEW r \in Requests, Acquire(r) PROVE CreateInv'
  BY <1>7 DEF Acquire
<1>8. ASSUME NEW r \in Requests, ReadForCreate(r) PROVE CreateInv'
  BY <1>8 DEF ReadForCreate
<1>9. ASSUME NEW r \in Requests, ReadForPatch(r) PROVE CreateInv'
  BY <1>9 DEF ReadForPatch
<1>10. ASSUME NEW r \in Requests, StoreRecord(r) PROVE CreateInv'
  BY <1>10 DEF StoreRecord
<1>11. ASSUME NEW r \in Requests, StoreMeta(r) PROVE CreateInv'
  BY <1>11 DEF StoreMeta
<1>12. ASSUME NEW r \in Requests, Publish(r) PROVE CreateInv'
  BY <1>12 DEF Publish
<1>13. ASSUME NEW r \in Requests, GiveUp(r) PROVE CreateInv'
  BY <1>13 DEF GiveUp
<1>14. ASSUME NEW r \in Requests, Fault(r) PROVE CreateInv'
  BY <1>14 DEF Fault
<1>15. CASE Crash
  BY <1>15 DEF Crash
<1>17. CASE FailOpening
  BY <1>17 DEF FailOpening
<1>16. CASE UNCHANGED vars
  BY <1>16 DEF vars
<1> QED
  BY <1>1, <1>2, <1>3, <1>4, <1>5, <1>6, <1>7, <1>8, <1>9, <1>10, <1>11, <1>12, <1>13, <1>14, <1>15, <1>16, <1>17 DEF Next, Boot, Advance, Finished

\* The next create or patch of a key stores over the value it has read, which holds the
\* parts of every patch that is not exposed.
LEMMA PatchStep ==
    ASSUME TypeOK, RequestInv, HolderInv, BootInv, ReadInv, CreateInv, PatchInv, [Next]_vars
    PROVE  PatchInv'
<1> USE DEF TypeOK, RequestInv, HolderInv, InSection, BootInv, ReadInv, CreateInv, PatchInv, Informed, Blind, ExpiredKeys, bootVars, reqVars, ghosts, Call, Phases, Settled, OpNames, ReadModifyWrite, Patches
<1>1. CASE Open
  BY <1>1 DEF Open
<1>2. CASE CopyMetadata
  BY <1>2 DEF CopyMetadata
<1>3. ASSUME NEW k \in Keys, PurgeRecord(k) PROVE PatchInv'
  BY <1>3 DEF PurgeRecord
<1>4. ASSUME NEW k \in Keys, PurgeMeta(k) PROVE PatchInv'
  BY <1>4 DEF PurgeMeta
<1>5. CASE Serve
  BY <1>5 DEF Serve
<1>6. ASSUME NEW r \in Requests, NEW o \in Ops, NEW k \in Keys, NEW s \in BOOLEAN,
           Invoke(r, o, k, s)
    PROVE  PatchInv'
  BY <1>6 DEF Invoke
<1>7. ASSUME NEW r \in Requests, Acquire(r) PROVE PatchInv'
  BY <1>7 DEF Acquire
<1>8. ASSUME NEW r \in Requests, ReadForCreate(r) PROVE PatchInv'
  BY <1>8 DEF ReadForCreate
<1>9. ASSUME NEW r \in Requests, ReadForPatch(r) PROVE PatchInv'
  BY <1>9 DEF ReadForPatch
<1>10. ASSUME NEW r \in Requests, StoreRecord(r) PROVE PatchInv'
  <2> DEFINE k == call[r].key
  <2>1. /\ k \in Keys /\ pc[r] = "put" /\ UNCHANGED <<call, seen>>
        /\ db' = [db EXCEPT ![k] = NewRecord(r)]
        /\ pc' = [pc EXCEPT ![r] = "putMeta"]
        /\ exposed \subseteq exposed'
        /\ Blind(r) => Informed(k) \ {r} \subseteq exposed'
    BY <1>10 DEF StoreRecord
  <2>2. SUFFICES ASSUME NEW q \in Requests, pc'[q] \in {"putMeta", "publish", "acked"},
                        call[q].op = "patch", q \notin exposed'
                 PROVE  /\ db'[call[q].key] # NoRecord
                        /\ q \in db'[call[q].key].val
                        /\ ~db'[call[q].key].session
    BY <2>1
  <2>3. CASE q = r
    BY <2>1, <2>2, <2>3, StoredRecord
  <2>4. CASE call[q].key # k
    BY <2>1, <2>2, <2>4
  <2>5. CASE q # r /\ call[q].key = k
    <3>1. q \in Informed(k) /\ q \notin exposed
      BY <2>1, <2>2, <2>5
    <3>2. ~Blind(r) /\ seen[r] = db[k]
      BY <2>1, <2>2, <2>5, <3>1
    <3>3. db[k] # NoRecord /\ q \in db[k].val
      BY <2>1, <2>2, <2>5, <3>1
    <3>4. call[r].op \in {"patch", "rootPatch"}
      BY <2>1, <3>2, <3>3
    <3> QED
      BY <2>1, <2>5, <3>2, <3>3, <3>4, StoredRecord
  <2> QED
    BY <2>3, <2>4, <2>5
<1>11. ASSUME NEW r \in Requests, StoreMeta(r) PROVE PatchInv'
  BY <1>11 DEF StoreMeta
<1>12. ASSUME NEW r \in Requests, Publish(r) PROVE PatchInv'
  BY <1>12 DEF Publish
<1>13. ASSUME NEW r \in Requests, GiveUp(r) PROVE PatchInv'
  BY <1>13 DEF GiveUp
<1>14. ASSUME NEW r \in Requests, Fault(r) PROVE PatchInv'
  BY <1>14 DEF Fault
<1>15. CASE Crash
  BY <1>15 DEF Crash
<1>17. CASE FailOpening
  BY <1>17 DEF FailOpening
<1>16. CASE UNCHANGED vars
  BY <1>16 DEF vars
<1> QED
  BY <1>1, <1>2, <1>3, <1>4, <1>5, <1>6, <1>7, <1>8, <1>9, <1>10, <1>11, <1>12, <1>13, <1>14, <1>15, <1>16, <1>17 DEF Next, Boot, Advance, Finished

\* A create finds the record of the one before it, as long as nothing removed it.
LEMMA ClaimStep ==
    ASSUME TypeOK, RequestInv, HolderInv, BootInv, ReadInv, CreateInv, ClaimInv, [Next]_vars
    PROVE  ClaimInv'
<1> USE DEF TypeOK, RequestInv, HolderInv, InSection, BootInv, ReadInv, CreateInv, ClaimInv, Stands, Informed, Blind, ExpiredKeys, bootVars, reqVars, ghosts, Call, Phases, Settled, OpNames, ReadModifyWrite, Patches
<1>1. CASE Open
  BY <1>1 DEF Open
<1>2. CASE CopyMetadata
  BY <1>2 DEF CopyMetadata
<1>3. ASSUME NEW k \in Keys, PurgeRecord(k) PROVE ClaimInv'
  BY <1>3 DEF PurgeRecord
<1>4. ASSUME NEW k \in Keys, PurgeMeta(k) PROVE ClaimInv'
  BY <1>4 DEF PurgeMeta
<1>5. CASE Serve
  BY <1>5 DEF Serve
<1>6. ASSUME NEW r \in Requests, NEW o \in Ops, NEW k \in Keys, NEW s \in BOOLEAN,
           Invoke(r, o, k, s)
    PROVE  ClaimInv'
  BY <1>6 DEF Invoke
<1>7. ASSUME NEW r \in Requests, Acquire(r) PROVE ClaimInv'
  BY <1>7 DEF Acquire
<1>8. ASSUME NEW r \in Requests, ReadForCreate(r) PROVE ClaimInv'
  BY <1>8 DEF ReadForCreate
<1>9. ASSUME NEW r \in Requests, ReadForPatch(r) PROVE ClaimInv'
  BY <1>9 DEF ReadForPatch
<1>10. ASSUME NEW r \in Requests, StoreRecord(r) PROVE ClaimInv'
  <2> DEFINE k == call[r].key
  <2>1. /\ k \in Keys /\ pc[r] = "put" /\ UNCHANGED <<call, seen, misread, old>>
        /\ db' = [db EXCEPT ![k] = NewRecord(r)]
        /\ pc' = [pc EXCEPT ![r] = "putMeta"]
        /\ exposed \subseteq exposed'
        /\ Blind(r) => Informed(k) \ {r} \subseteq exposed'
    BY <1>10 DEF StoreRecord
  <2>2. ASSUME NEW q \in Requests, q # r, Stands(q)'
        PROVE  Stands(q) /\ (call[q].key = k => q \in Informed(k) \ {r} /\ ~Blind(r) /\ call[r].op \in Patches)
    <3>1. Stands(q) /\ q \notin exposed'
      BY <2>1, <2>2
    <3>2. ASSUME call[q].key = k PROVE q \in Informed(k) \ {r} /\ ~Blind(r) /\ call[r].op \in Patches
      <4>1. q \in Informed(k) \ {r} /\ q \notin exposed
        BY <2>1, <2>2, <3>1, <3>2
      <4>2. ~Blind(r) /\ seen[r] = db[k] /\ db[k] # NoRecord
        BY <2>1, <3>1, <3>2, <4>1
      <4> QED
        BY <2>1, <4>1, <4>2
    <3> QED
      BY <3>1, <3>2
  <2>3. ASSUME Stands(r)' PROVE \A q \in Requests : q # r /\ Stands(q)' => call[q].key # k
    BY <2>1, <2>2, <2>3
  <2>4. ASSUME NEW q \in Requests, Stands(q)'
        PROVE  db'[call[q].key] # NoRecord /\ (db'[call[q].key].session => call[q].session)
    <3>1. CASE q = r
      BY <2>1, <2>4, <3>1, StoredRecord
    <3>2. CASE q # r /\ call[q].key # k
      BY <2>1, <2>2, <2>4, <3>2
    <3>3. CASE q # r /\ call[q].key = k
      BY <2>1, <2>2, <2>4, <3>3, StoredRecord
    <3> QED
      BY <3>1, <3>2, <3>3
  <2>5. ASSUME NEW p \in Requests, NEW q \in Requests, p # q, Stands(p)', Stands(q)'
        PROVE  call[p].key # call[q].key
    BY <2>1, <2>2, <2>3, <2>5
  <2> QED
    BY <2>1, <2>4, <2>5
<1>11. ASSUME NEW r \in Requests, StoreMeta(r) PROVE ClaimInv'
  BY <1>11 DEF StoreMeta
<1>12. ASSUME NEW r \in Requests, Publish(r) PROVE ClaimInv'
  BY <1>12 DEF Publish
<1>13. ASSUME NEW r \in Requests, GiveUp(r) PROVE ClaimInv'
  BY <1>13 DEF GiveUp
<1>14. ASSUME NEW r \in Requests, Fault(r) PROVE ClaimInv'
  BY <1>14 DEF Fault
<1>15. CASE Crash
  BY <1>15 DEF Crash
<1>17. CASE FailOpening
  BY <1>17 DEF FailOpening
<1>16. CASE UNCHANGED vars
  BY <1>16 DEF vars
<1> QED
  BY <1>1, <1>2, <1>3, <1>4, <1>5, <1>6, <1>7, <1>8, <1>9, <1>10, <1>11, <1>12, <1>13, <1>14, <1>15, <1>16, <1>17, SMTT(20) DEF Next, Boot, Advance, Finished

-----------------------------------------------------------------------------
\* Before the first start nothing is under way and no metadata was ever copied.
LEMMA InitInv ==
    ASSUME Init
    PROVE  IInv
<1> USE DEF Init
<1>1. TypeOK
  <2>1. db \in [Keys -> Record \cup {NoRecord}]
    BY DEF Record, Writers
  <2>2. faults \in 0 .. MaxFaults /\ crashes \in 0 .. MaxCrashes
    BY BoundsAssumption
  <2>3. waiting \in Seq(Requests)
    OBVIOUS
  <2>4. meta \in [Keys -> Metadata \cup {NoRecord}] /\ view \in [Keys -> SUBSET Writers]
    OBVIOUS
  <2> QED
    BY <2>1, <2>2, <2>3, <2>4 DEF TypeOK, Phases
<1>2. HolderInv /\ RequestInv /\ WindowInv /\ MetaInv /\ ReadInv /\ CreateInv
  BY DEF HolderInv, InSection, RequestInv, WindowInv, MetaInv, ReadInv, CreateInv, Settled
<1>3. BootInv /\ MirrorAgrees /\ PatchInv /\ ClaimInv
  BY DEF BootInv, MirrorAgrees, PatchInv, ClaimInv, Stands
<1> QED
  BY <1>1, <1>2, <1>3 DEF IInv

\* IInv is inductive: the layers in the order they rest on one another.
LEMMA NextInv ==
    ASSUME IInv, [Next]_vars
    PROVE  IInv'
  BY TypeStep, RequestStep, HolderStep, BootStep, WindowStep, MetaStep, MirrorStep,
     ReadStep, CreateStep, PatchStep, ClaimStep DEF IInv

\* Every behaviour of the bucket keeps the inductive invariant.
THEOREM Invariance == Spec => []IInv
<1>1. Init => IInv
  BY InitInv
<1>2. IInv /\ [Next]_vars => IInv'
  BY NextInv
<1> QED
  BY <1>1, <1>2, PTL DEF Spec

\* Type correctness: every record, metadata entry, request and queue entry of the
\* bucket has its type at every step.
THEOREM TypeCorrect == Spec => []TypeOK
  BY Invariance, PTL DEF IInv

\* The two databases agree on every key whose last mutations neither overlapped nor
\* were cut short.
THEOREM MetadataAgreement == Spec => []MetaAgrees
<1>1. IInv => MetaAgrees
  BY DEF IInv, TypeOK, BootInv, MetaInv, MetaAgrees
<1> QED
  BY <1>1, Invariance, PTL

\* A subscriber that applies every event holds what is stored under such a key, or what
\* the patch of the root that wrote it back has returned.
THEOREM MirrorAgreement == Spec => []MirrorAgrees
  BY Invariance, PTL DEF IInv

\* No acknowledged patch inside a value is lost to another create or patch.
THEOREM PatchesLast == Spec => []NoLostPatch
<1>1. IInv => NoLostPatch
  BY DEF IInv, PatchInv, NoLostPatch
<1> QED
  BY <1>1, Invariance, PTL

\* At most one client is told that it created a key.
THEOREM OneCreator == Spec => []SingleCreator
<1>1. IInv => SingleCreator
  BY DEF IInv, ClaimInv, Stands, SingleCreator, Claims
<1> QED
  BY <1>1, Invariance, PTL

\* No session record is served after a restart, but what a failed opening has left.
THEOREM SessionsEnd == Spec => []NoStaleSession
<1>1. IInv => NoStaleSession
  BY DEF IInv, BootInv, NoStaleSession
<1> QED
  BY <1>1, Invariance, PTL

-----------------------------------------------------------------------------
(* The refinement of AtomicKeys. *)

\* The clients use creates and patches only, and no read fails.
AtomicUse == Ops \subseteq ReadModifyWrite /\ "read" \notin Fallible

\* Then nobody replaces a key blindly.
Sighted == exposed = {} /\ misread = {}

LEMMA SightedInit == Init => Sighted
  BY DEF Init, Sighted

LEMMA SightedStep ==
    ASSUME AtomicUse, TypeOK, Sighted, [Next]_vars
    PROVE  Sighted'
<1>1. ASSUME NEW r \in Requests, StoreRecord(r) PROVE Sighted'
  <2>1. ~Blind(r)
    BY <1>1 DEF AtomicUse, TypeOK, Call, StoreRecord, Sighted, Blind
  <2> QED
    BY <1>1, <2>1 DEF StoreRecord, Sighted
<1>2. ASSUME NEW r \in Requests, Fault(r) PROVE Sighted'
  BY <1>2 DEF AtomicUse, Fault, Sighted
<1>3. CASE Boot
  BY <1>3 DEF Boot, Open, CopyMetadata, PurgeRecord, PurgeMeta, Serve, Sighted, ghosts
<1>4. ASSUME NEW r \in Requests, NEW o \in Ops, NEW k \in Keys, NEW s \in BOOLEAN, Invoke(r, o, k, s)
      PROVE  Sighted'
  BY <1>4 DEF Invoke, Sighted, ghosts
<1>5. ASSUME NEW r \in Requests, Advance(r), ~StoreRecord(r) PROVE Sighted'
  BY <1>5 DEF Advance, Acquire, ReadForCreate, ReadForPatch, StoreMeta, Publish, GiveUp, Sighted, ghosts
<1>6. CASE Crash
  BY <1>6 DEF Crash, Sighted
<1>7. CASE UNCHANGED vars
  BY <1>7 DEF vars, Sighted
<1>8. CASE FailOpening
  BY <1>8 DEF FailOpening, Sighted
<1> QED
  BY <1>1, <1>2, <1>3, <1>4, <1>5, <1>6, <1>7, <1>8 DEF Next, Finished

\* What the variables of AtomicKeys are.
Items == [k \in Keys |-> ItemOf(db[k])]
Statuses == [r \in Requests |-> Status(pc[r])]

LEMMA ItemType ==
    ASSUME TypeOK, NEW k \in Keys
    PROVE  /\ db[k] # NoRecord =>
                 /\ ItemOf(db[k]) # NoRecord
                 /\ ItemOf(db[k]).val = db[k].val /\ ItemOf(db[k]).session = db[k].session
           /\ db[k] = NoRecord => ItemOf(db[k]) = NoRecord
<1>1. CASE db[k] # NoRecord
  <2>1. db[k] \in Record
    BY <1>1 DEF TypeOK
  <2>2. ItemOf(db[k]) = [val |-> db[k].val, session |-> db[k].session]
    BY <1>1 DEF ItemOf
  <2>3. ItemOf(db[k]) \in Atomic!Item
    BY <2>1, <2>2 DEF Atomic!Item, Record, Writers
  <2> QED
    BY <1>1, <2>2, <2>3, ItemAssumption
<1> QED
  BY <1>1 DEF ItemOf

\* A record that is stored is the item of its key.
LEMMA OneItem ==
    ASSUME TypeOK, NEW k \in Keys, NEW STATE rec, db' = [db EXCEPT ![k] = rec]
    PROVE  Items' = [Items EXCEPT ![k] = ItemOf(rec)]
  BY DEF Items, TypeOK

LEMMA StatusOf ==
    /\ \A p \in {"wait", "read", "put"} : Status(p) = "pending"
    /\ \A p \in {"putMeta", "publish"} : Status(p) = "applied"
    /\ Status("refuse") = "refused" /\ Status("error") = "failed"
    /\ \A p \in Settled \cup {"idle"} : Status(p) = p
  BY DEF Status, Settled

\* The effect of a request is the storing of its record: on a key that is as it was when
\* the request read it.
LEMMA StoreRefines ==
    ASSUME AtomicUse, IInv, Sighted, NEW r \in Requests, StoreRecord(r)
    PROVE  Atomic!Create(r) \/ Atomic!Patch(r) \/ Atomic!PatchRoot(r)
<1> DEFINE k == call[r].key
<1>1. /\ TypeOK /\ pc[r] = "put" /\ call[r] \in Call /\ k \in Keys
      /\ call[r].op \in {"create", "patch", "rootPatch"} /\ call[r].session \in BOOLEAN
  BY DEF StoreRecord, IInv, TypeOK, AtomicUse, ReadModifyWrite, Patches, Call
<1>2. seen[r] = db[k]
  <2>1. r \in Informed(k)
    BY <1>1 DEF Informed, ReadModifyWrite, Patches
  <2> QED
    BY <1>1, <2>1 DEF IInv, ReadInv, Sighted, ReadModifyWrite, Patches
<1>3. /\ Statuses[r] = "pending" /\ Statuses' = [Statuses EXCEPT ![r] = "applied"]
      /\ Items' = [Items EXCEPT ![k] = ItemOf(NewRecord(r))] /\ Items[k] = ItemOf(db[k])
      /\ call' = call
  BY <1>1, StatusOf DEF StoreRecord, reqVars, TypeOK, Statuses, Items
<1>4. CASE call[r].op = "create"
  <2>1. Items[k] = NoRecord
    BY <1>1, <1>2, <1>3, <1>4, ItemType DEF IInv, CreateInv, Sighted
  <2>2. NewRecord(r) = [by |-> r, val |-> {r}, session |-> call[r].session]
    BY <1>4 DEF NewRecord
  <2>3. NewRecord(r) # NoRecord
    BY <1>1, <2>2, NoRecordAssumption DEF Record, Writers
  <2>4. ItemOf(NewRecord(r)) = [val |-> {r}, session |-> call[r].session]
    BY <2>2, <2>3 DEF ItemOf
  <2> QED
    BY <1>3, <1>4, <2>1, <2>4 DEF Atomic!Create, Atomic!Settle, Items, Statuses
<1>5. CASE call[r].op = "patch"
  <2>1. db[k] \in Record /\ db[k] # NoRecord
    BY <1>1, <1>2, <1>5, NoRecordAssumption DEF IInv, RequestInv, Patches
  <2>2. Items[k] # NoRecord /\ Items[k].val = db[k].val
    BY <1>1, <1>3, <2>1, ItemType
  <2>3. NewRecord(r) = [by |-> r, val |-> db[k].val \cup {r}, session |-> FALSE]
    BY <1>2, <1>5 DEF NewRecord
  <2>4. NewRecord(r) # NoRecord
    <3>1. db[k].val \cup {r} \subseteq Writers
      BY <2>1 DEF Record, Writers
    <3>2. NewRecord(r) \in Record
      BY <2>3, <3>1 DEF Record, Writers
    <3> QED
      BY <3>2, NoRecordAssumption
  <2>5. ItemOf(NewRecord(r)) = [val |-> Items[k].val \cup {r}, session |-> FALSE]
    BY <2>2, <2>3, <2>4 DEF ItemOf
  <2> QED
    BY <1>3, <1>5, <2>2, <2>5 DEF Atomic!Patch, Atomic!Settle, Items, Statuses
<1>6. CASE call[r].op = "rootPatch"
  <2>1. db[k] \in Record /\ db[k] # NoRecord
    BY <1>1, <1>2, <1>6, NoRecordAssumption DEF IInv, RequestInv, Patches
  <2>2. Items[k] # NoRecord /\ Items[k].val = db[k].val
    BY <1>1, <1>3, <2>1, ItemType
  <2>3. NewRecord(r) = [by |-> r, val |-> db[k].val, session |-> FALSE]
    BY <1>2, <1>6 DEF NewRecord
  <2>4. NewRecord(r) # NoRecord
    <3>1. NewRecord(r) \in Record
      BY <2>1, <2>3 DEF Record, Writers
    <3> QED
      BY <3>1, NoRecordAssumption
  <2>5. ItemOf(NewRecord(r)) = [val |-> Items[k].val, session |-> FALSE]
    BY <2>2, <2>3, <2>4 DEF ItemOf
  <2> QED
    BY <1>3, <1>6, <2>2, <2>5 DEF Atomic!PatchRoot, Atomic!Settle, Items, Statuses
<1> QED
  BY <1>1, <1>4, <1>5, <1>6

\* A request is refused when it reads.
LEMMA ReadRefines ==
    ASSUME IInv, NEW r \in Requests, ReadForCreate(r) \/ ReadForPatch(r)
    PROVE  Atomic!Refuse(r) \/ UNCHANGED Atomic!vars
<1>1. /\ TypeOK /\ pc[r] = "read" /\ call[r] \in Call /\ call[r].key \in Keys
      /\ db' = db /\ call' = call
  BY DEF ReadForCreate, ReadForPatch, IInv, TypeOK, Call
<1>2. Items' = Items /\ Statuses[r] = "pending"
  BY <1>1, StatusOf DEF Items, Statuses
<1>3. CASE pc' = [pc EXCEPT ![r] = "put"]
  <2>1. Statuses' = [Statuses EXCEPT ![r] = "pending"]
    BY <1>1, <1>3, StatusOf DEF TypeOK, Statuses
  <2>2. Statuses' = Statuses
    BY <1>2, <2>1 DEF Statuses
  <2> QED
    BY <1>1, <1>2, <2>2 DEF Atomic!vars, Items, Statuses
<1>4. CASE /\ pc' = [pc EXCEPT ![r] = "refuse"]
           /\ call[r].op = "create" => db[call[r].key] # NoRecord
  <2>1. Statuses' = [Statuses EXCEPT ![r] = "refused"]
    BY <1>1, <1>4, StatusOf DEF TypeOK, Statuses
  <2>2. call[r].op = "create" => Items[call[r].key] # NoRecord
    BY <1>1, <1>4, ItemType DEF Items
  <2> QED
    BY <1>1, <1>2, <2>1, <2>2 DEF Atomic!Refuse, Atomic!Settle, Items, Statuses
<1> QED
  BY <1>3, <1>4 DEF ReadForCreate, ReadForPatch, Patches

\* What a restart finds half done is lost to the client that asked for it.
LEMMA CrashRefines ==
    ASSUME TypeOK, Crash
    PROVE  Atomic!Restart
<1> DEFINE L == {r \in Requests : pc[r] \notin Settled \cup {"idle"}}
<1>1. db' = db /\ call' = call /\ Items' = Items
  BY DEF Crash, Items
<1>2. \A r \in Requests : pc'[r] = IF r \in L THEN "lost" ELSE pc[r]
  BY DEF Crash
<1>3. \A r \in Requests : Statuses[r] = Status(pc[r]) /\ Statuses'[r] = Status(pc'[r])
  BY DEF Statuses
<1>4. \A r \in Requests :
         /\ r \in L => Statuses[r] \in {"pending", "applied", "refused", "failed"}
         /\ r \notin L => Statuses[r] = pc[r] /\ pc[r] \in Settled \cup {"idle"}
  BY <1>3, StatusOf DEF TypeOK, Phases
<1>5. L \subseteq {r \in Requests : Statuses[r] \notin {"idle", "acked"}}
  BY <1>4
<1>6. {r \in Requests : Statuses[r] \in {"pending", "applied"}} \subseteq L
  BY <1>4 DEF Settled
<1>7. \A r \in Requests : Statuses'[r] = IF r \in L THEN "lost" ELSE Statuses[r]
  BY <1>2, <1>3, StatusOf DEF Settled
<1>8. Statuses' = [r \in Requests |-> IF r \in L THEN "lost" ELSE Statuses[r]]
  BY <1>7 DEF Statuses
<1> HIDE DEF L
<1>9. L \in SUBSET {r \in Requests : Statuses[r] \notin {"idle", "acked"}}
  BY <1>5
<1> QED
  BY <1>1, <1>6, <1>8, <1>9 DEF Atomic!Restart, Items, Statuses

\* Every other step of a request is one of AtomicKeys, or none.
LEMMA InvokeRefines ==
    ASSUME AtomicUse, TypeOK, NEW r \in Requests, NEW o \in Ops, NEW k \in Keys, NEW s \in BOOLEAN,
           Invoke(r, o, k, s)
    PROVE  o \in {"create", "patch", "rootPatch"} /\ Atomic!Ask(r, o, k, s)
<1>1. o \in {"create", "patch", "rootPatch"} /\ o \in ReadModifyWrite
  BY DEF AtomicUse, ReadModifyWrite, Patches
<1>2. Statuses[r] = "idle" /\ Statuses' = [Statuses EXCEPT ![r] = "pending"] /\ Items' = Items
  BY <1>1, StatusOf DEF Invoke, TypeOK, Statuses, Items
<1> QED
  BY <1>1, <1>2 DEF Invoke, Atomic!Ask, Atomic!Settle, Statuses, Items

LEMMA FaultRefines ==
    ASSUME AtomicUse, TypeOK, NEW r \in Requests, Fault(r)
    PROVE  Atomic!Fail(r)
<1>1. pc[r] \in {"put", "putMeta"} /\ pc' = [pc EXCEPT ![r] = "error"] /\ db' = db /\ call' = call
  BY FaultsAssumption DEF AtomicUse, TypeOK, Phases, Settled, Fault, reqVars, Calls
<1>2. /\ Statuses[r] \in {"pending", "applied"} /\ Items' = Items
      /\ Statuses' = [Statuses EXCEPT ![r] = "failed"]
  BY <1>1, StatusOf DEF TypeOK, Statuses, Items
<1> QED
  BY <1>1, <1>2 DEF Atomic!Fail, Atomic!Settle, Statuses, Items

LEMMA PublishRefines ==
    ASSUME TypeOK, NEW r \in Requests, Publish(r)
    PROVE  Atomic!Ack(r)
<1>1. /\ Statuses[r] = "applied" /\ Items' = Items /\ call' = call
      /\ Statuses' = [Statuses EXCEPT ![r] = "acked"]
  BY StatusOf DEF Publish, TypeOK, Statuses, Items, Settled
<1> QED
  BY <1>1 DEF Atomic!Ack, Atomic!Settle, Statuses, Items

\* The semaphore, the metadata and the release are nobody's business.
LEMMA SilentRefines ==
    ASSUME TypeOK, NEW r \in Requests, Acquire(r) \/ StoreMeta(r) \/ GiveUp(r)
    PROVE  UNCHANGED Atomic!vars
<1>1. PICK p : pc' = [pc EXCEPT ![r] = p] /\ Status(p) = Status(pc[r])
  BY StatusOf DEF Acquire, StoreMeta, GiveUp, Settled
<1>2. Statuses' = [Statuses EXCEPT ![r] = Status(pc[r])]
  BY <1>1 DEF TypeOK, Statuses
<1>3. Statuses' = Statuses
  BY <1>2 DEF Statuses
<1>4. Items' = Items /\ call' = call
  BY DEF Acquire, StoreMeta, GiveUp, reqVars, Items
<1> QED
  BY <1>3, <1>4 DEF Atomic!vars, Statuses, Items

\* Of the opening only the removal of a session record is seen.
LEMMA BootRefines ==
    ASSUME IInv, Boot
    PROVE  (\E k \in Keys : Atomic!Expire(k)) \/ UNCHANGED Atomic!vars
<1>1. pc' = pc /\ call' = call /\ TypeOK
  BY DEF IInv, Boot, Open, CopyMetadata, PurgeRecord, PurgeMeta, Serve, reqVars
<1>2. ASSUME NEW k \in Keys, PurgeRecord(k) PROVE Atomic!Expire(k)
  <2>1. db[k] # NoRecord /\ db[k].session
    BY <1>2 DEF PurgeRecord, IInv, BootInv
  <2>2. Items[k] # NoRecord /\ Items[k].session
    BY <1>1, <2>1, ItemType DEF Items
  <2>3. Items' = [Items EXCEPT ![k] = NoRecord]
    BY <1>1, <1>2, OneItem DEF PurgeRecord, ItemOf
  <2> QED
    BY <1>1, <2>2, <2>3 DEF Atomic!Expire, Items
<1>3. CASE db' = db
  BY <1>1, <1>3 DEF Atomic!vars
<1> QED
  BY <1>2, <1>3 DEF Boot, Open, CopyMetadata, PurgeMeta, Serve

LEMMA StepRefines ==
    ASSUME AtomicUse, IInv, Sighted, [Next]_vars
    PROVE  [Atomic!Next]_(Atomic!vars)
<1>1. TypeOK
  BY DEF IInv
<1>2. ASSUME NEW r \in Requests, Advance(r) PROVE [Atomic!Next]_(Atomic!vars)
  <2>1. CASE StoreRecord(r)
    BY <2>1, StoreRefines DEF Atomic!Next
  <2>2. CASE ReadForCreate(r) \/ ReadForPatch(r)
    BY <2>2, ReadRefines DEF Atomic!Next
  <2>3. CASE Publish(r)
    BY <1>1, <2>3, PublishRefines DEF Atomic!Next
  <2>4. CASE Acquire(r) \/ StoreMeta(r) \/ GiveUp(r)
    BY <1>1, <2>4, SilentRefines
  <2> QED
    BY <1>2, <2>1, <2>2, <2>3, <2>4 DEF Advance
<1>3. ASSUME NEW r \in Requests, NEW o \in Ops, NEW k \in Keys, NEW s \in BOOLEAN, Invoke(r, o, k, s)
      PROVE  Atomic!Next
  BY <1>1, <1>3, InvokeRefines DEF Atomic!Next
<1>4. ASSUME NEW r \in Requests, Fault(r) PROVE Atomic!Next
  BY <1>1, <1>4, FaultRefines DEF Atomic!Next
<1>5. CASE Boot
  BY <1>5, BootRefines DEF Atomic!Next
<1>6. CASE Crash
  BY <1>1, <1>6, CrashRefines DEF Atomic!Next
<1>7. CASE UNCHANGED vars
  BY <1>7 DEF vars, Atomic!vars
<1>8. CASE FailOpening
  BY <1>8 DEF FailOpening, reqVars, Atomic!vars
<1> QED
  BY <1>2, <1>3, <1>4, <1>5, <1>6, <1>7, <1>8 DEF Next, Finished

LEMMA InitRefines == Init => Atomic!Init
<1> SUFFICES ASSUME Init PROVE Atomic!Init
  OBVIOUS
<1>1. Statuses = [r \in Requests |-> "idle"]
  BY StatusOf DEF Init, Statuses
<1>2. ASSUME NEW k \in Keys
      PROVE  ItemOf(db[k]) \in {NoRecord} \cup [val : {{Legacy}}, session : BOOLEAN]
  BY DEF Init, ItemOf
<1>3. Items \in [Keys -> {NoRecord} \cup [val : {{Legacy}}, session : BOOLEAN]]
  BY <1>2 DEF Items
<1> QED
  BY <1>1, <1>3 DEF Init, Atomic!Init, Items, Statuses

\* Creates and patches are atomic: while clients use no other operation and no read fails,
\* writeFailIfExists and patch, each three storage calls and a semaphore, look to every
\* client like one step on the stored value.
THEOREM CreatesAndPatchesAreAtomic ==
    ASSUME AtomicUse
    PROVE  Spec => ImplementsAtomic
<1>1. Init => Sighted /\ Atomic!Init
  BY SightedInit, InitRefines
<1>2. IInv /\ Sighted /\ [Next]_vars => Sighted' /\ [Atomic!Next]_(Atomic!vars)
  BY SightedStep, StepRefines DEF IInv
<1> QED
  BY <1>1, <1>2, Invariance, PTL DEF Spec, ImplementsAtomic, Atomic!Spec
=============================================================================
