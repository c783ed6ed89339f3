------------------------- MODULE SessionKeysProofs -------------------------
(***************************************************************************)
(* The safety properties of SessionKeys, for every set of connections,     *)
(* keys and requests and every number of failing calls.                    *)
(***************************************************************************)
EXTENDS SessionKeys, TLAPS

\* The connection c has been told that it wrote the key k for its session.
Wrote(c, k) ==
    \E r \in Requests :
        pc[r] = "done" /\ call[r] \in Call /\ call[r].session
            /\ call[r].conn = c /\ call[r].key = k

\* A record belongs to a write of its key that has taken effect.
StoreInv ==
    \A k \in Keys :
        store[k] # NoRecord =>
            call[store[k]].key = k /\ pc[store[k]] \in {"stored", "done", "failed"}

\* Only what was written for a session is registered, and only a closed connection
\* has removals under way.
RegistryInv ==
    /\ \A k \in Keys : \A c \in keys[k] : Wrote(c, k)
    /\ \A m \in removals : Wrote(m.conn, m.key) /\ connection[m.conn] = "closed"
    /\ \A r \in Requests : pc[r] = "idle" <=> call[r] = NoRecord

IInv ==
    TypeOK /\ StoreInv /\ RegistryInv /\ OpenIsRegistered /\ ClosedIsRemoved

\* Every variable keeps its type.
LEMMA TypeStep ==
    ASSUME TypeOK, [Next]_vars
    PROVE  TypeOK'
<1> USE DEF TypeOK, Call, Removal
<1>1. ASSUME NEW r \in Requests, NEW c \in Connections, NEW o \in {"write", "remove"},
             NEW k \in Keys, NEW s \in BOOLEAN, Request(r, c, o, k, s)
      PROVE  TypeOK'
  <2>1. [op |-> o, conn |-> c, key |-> k, session |-> s] \in Call
    OBVIOUS
  <2>2. pc' \in [Requests -> {"idle", "called", "stored", "done", "failed"}]
    BY <1>1 DEF Request
  <2>3. ASSUME NEW q \in Requests, pc'[q] # "idle" PROVE call'[q] \in Call
    BY <1>1, <2>1, <2>3 DEF Request
  <2> QED
    BY <1>1, <2>2, <2>3 DEF Request
<1>2. ASSUME NEW r \in Requests, Store(r) PROVE TypeOK'
  BY <1>2 DEF Store
<1>3. ASSUME NEW r \in Requests, Return(r) PROVE TypeOK'
  BY <1>3 DEF Return
<1>4. ASSUME NEW r \in Requests, Reject(r) PROVE TypeOK'
  BY <1>4, BoundAssumption DEF Reject
<1>5. ASSUME NEW c \in Connections, Close(c) PROVE TypeOK'
  BY <1>5 DEF Close
<1>6. ASSUME NEW m \in removals, Remove(m) PROVE TypeOK'
  BY <1>6 DEF Remove
<1>7. ASSUME NEW m \in removals, FailRemoval(m) PROVE TypeOK'
  BY <1>7, BoundAssumption DEF FailRemoval
<1>8. CASE UNCHANGED vars
  BY <1>8 DEF vars
<1> QED
  BY <1>1, <1>2, <1>3, <1>4, <1>5, <1>6, <1>7, <1>8 DEF Next, Finished

\* What is stored comes from a write that has taken effect, and what is registered or
\* about to be removed was written for a session.
LEMMA OriginStep ==
    ASSUME TypeOK, StoreInv, RegistryInv, [Next]_vars
    PROVE  StoreInv' /\ RegistryInv'
<1> USE DEF TypeOK, StoreInv, RegistryInv, Wrote
<1>1. ASSUME NEW r \in Requests, NEW c \in Connections, NEW o \in {"write", "remove"},
             NEW k \in Keys, NEW s \in BOOLEAN, Request(r, c, o, k, s)
      PROVE  StoreInv' /\ RegistryInv'
  <2>1. /\ pc[r] = "idle" /\ pc'[r] = "called"
        /\ call'[r] = [op |-> o, conn |-> c, key |-> k, session |-> s] /\ call'[r] # NoRecord
        /\ \A q \in Requests \ {r} : pc'[q] = pc[q] /\ call'[q] = call[q]
        /\ UNCHANGED <<store, connection, keys, removals>>
    BY <1>1, NoRecordAssumption DEF Request, Call
  <2> QED
    BY <2>1
<1>2. ASSUME NEW r \in Requests, Store(r) PROVE StoreInv' /\ RegistryInv'
  BY <1>2 DEF Store
<1>3. ASSUME NEW r \in Requests, Return(r) PROVE StoreInv' /\ RegistryInv'
  BY <1>3 DEF Return
<1>4. ASSUME NEW r \in Requests, Reject(r) PROVE StoreInv' /\ RegistryInv'
  BY <1>4 DEF Reject
<1>5. ASSUME NEW c \in Connections, Close(c) PROVE StoreInv' /\ RegistryInv'
  BY <1>5 DEF Close, Removal
<1>6. ASSUME NEW m \in removals, Remove(m) PROVE StoreInv' /\ RegistryInv'
  BY <1>6 DEF Remove
<1>7. ASSUME NEW m \in removals, FailRemoval(m) PROVE StoreInv' /\ RegistryInv'
  BY <1>7 DEF FailRemoval
<1>8. CASE UNCHANGED vars
  BY <1>8 DEF vars
<1> QED
  BY <1>1, <1>2, <1>3, <1>4, <1>5, <1>6, <1>7, <1>8 DEF Next, Finished

\* The write registers before its connection closes, or is late; the close turns every
\* registration into a removal; and a removal ends in the absence of the record.
LEMMA ExpiryStep ==
    ASSUME TypeOK, StoreInv, OpenIsRegistered, ClosedIsRemoved, [Next]_vars
    PROVE  OpenIsRegistered' /\ ClosedIsRemoved'
<1> USE DEF TypeOK, StoreInv, OpenIsRegistered, ClosedIsRemoved, Registered
<1>1. ASSUME NEW r \in Requests, NEW c \in Connections, NEW o \in {"write", "remove"},
             NEW k \in Keys, NEW s \in BOOLEAN, Request(r, c, o, k, s)
      PROVE  OpenIsRegistered' /\ ClosedIsRemoved'
  <2>1. /\ pc'[r] = "called"
        /\ \A q \in Requests \ {r} : pc'[q] = pc[q] /\ call'[q] = call[q]
        /\ UNCHANGED <<store, connection, keys, removals, late, kept>>
    BY <1>1 DEF Request
  <2> QED
    BY <2>1
<1>2. ASSUME NEW r \in Requests, Store(r) PROVE OpenIsRegistered' /\ ClosedIsRemoved'
  BY <1>2, NoRecordAssumption DEF Store
<1>3. ASSUME NEW r \in Requests, Return(r) PROVE OpenIsRegistered' /\ ClosedIsRemoved'
  BY <1>3, NoRecordAssumption DEF Return, Call
<1>4. ASSUME NEW r \in Requests, Reject(r) PROVE OpenIsRegistered' /\ ClosedIsRemoved'
  BY <1>4 DEF Reject
<1>5. ASSUME NEW c \in Connections, Close(c) PROVE OpenIsRegistered' /\ ClosedIsRemoved'
  BY <1>5, NoRecordAssumption DEF Close, Call
<1>6. ASSUME NEW m \in removals, Remove(m) PROVE OpenIsRegistered' /\ ClosedIsRemoved'
  BY <1>6, NoRecordAssumption DEF Remove, Removal
<1>7. ASSUME NEW m \in removals, FailRemoval(m) PROVE OpenIsRegistered' /\ ClosedIsRemoved'
  BY <1>7 DEF FailRemoval
<1>8. CASE UNCHANGED vars
  BY <1>8 DEF vars
<1> HIDE DEF TypeOK, StoreInv, OpenIsRegistered, ClosedIsRemoved, Registered
<1> QED
  BY <1>1, <1>2, <1>3, <1>4, <1>5, <1>6, <1>7, <1>8 DEF Next, Finished

\* The invariant holds of a server without connections that wrote anything.
LEMMA InitInv ==
    ASSUME Init
    PROVE  IInv
<1>1. TypeOK
  BY BoundAssumption DEF Init, TypeOK
<1>2. StoreInv /\ RegistryInv /\ OpenIsRegistered /\ ClosedIsRemoved
  BY NoRecordAssumption DEF Init, StoreInv, RegistryInv, OpenIsRegistered, ClosedIsRemoved, Registered
<1> QED
  BY <1>1, <1>2 DEF IInv

\* The inductive invariant of the session keys.
THEOREM Invariance == Spec => []IInv
<1>1. Init => IInv
  BY InitInv
<1>2. IInv /\ [Next]_vars => IInv'
  BY TypeStep, OriginStep, ExpiryStep DEF IInv
<1> QED
  BY <1>1, <1>2, PTL DEF Spec

\* The variables keep their types: each call and each removal is that of one connection.
THEOREM TypeCorrect == Spec => []TypeOK
  BY Invariance, PTL DEF IInv

\* An open connection is registered for every session key it was told is written.
THEOREM OpenRegistered == Spec => []OpenIsRegistered
  BY Invariance, PTL DEF IInv

\* The session keys of a closed connection that were answered in time are gone, or
\* their removal is under way or has failed.
THEOREM ClosedRemoved == Spec => []ClosedIsRemoved
  BY Invariance, PTL DEF IInv

\* A key disappears only by a remove or with a connection that wrote it for its session.
THEOREM Reasons == Spec => RemovedForAReason
<1>1. ASSUME IInv, [Next]_vars, NEW k \in Keys, store[k] # NoRecord, store'[k] = NoRecord
      PROVE  HasReason(k)
  <2> USE DEF IInv, TypeOK
  <2>1. ASSUME NEW r \in Requests, Store(r) PROVE HasReason(k)
    BY <1>1, <2>1, NoRecordAssumption DEF Store, Call, HasReason
  <2>2. ASSUME NEW m \in removals, Remove(m) PROVE HasReason(k)
    BY <1>1, <2>2, NoRecordAssumption DEF Remove, RegistryInv, Wrote, Removal, HasReason
  <2>3. (\E r \in Requests : Store(r)) \/ (\E m \in removals : Remove(m)) \/ UNCHANGED store
    BY <1>1 DEF Next, Request, Return, Reject, Close, FailRemoval, Finished, vars
  <2> QED
    BY <1>1, <2>1, <2>2, <2>3
<1>2. IInv /\ [Next]_vars
        => [\A k \in Keys : (store[k] # NoRecord /\ store'[k] = NoRecord) => HasReason(k)]_vars
  BY <1>1
<1> QED
  BY <1>2, Invariance, PTL DEF Spec, RemovedForAReason
=============================================================================
