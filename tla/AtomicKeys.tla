----------------------------- MODULE AtomicKeys -----------------------------
(***************************************************************************)
(* What writeFailIfExists and patch promise their callers: each takes      *)
(* effect at one instant between the request and the answer, on the value  *)
(* the key holds at that instant.  No semaphore, no metadata, no calls in  *)
(* flight; KeyOpsAtomic shows that KeyOps implements it.                   *)
(***************************************************************************)
EXTENDS Naturals

CONSTANTS Keys, Requests, Legacy, NoRecord, Nobody

VARIABLES
    store,    \* key -> [val, session], or NoRecord
    asked,    \* what each request asks for
    status    \* what has become of it

vars == <<store, asked, status>>

Item == [val : SUBSET (Requests \cup {Legacy}), session : BOOLEAN]

TypeOK ==
    /\ store \in [Keys -> Item \cup {NoRecord}]
    /\ status \in [Requests ->
            {"idle", "pending", "applied", "acked", "refused", "failed", "lost"}]

Init ==
    /\ store \in [Keys -> {NoRecord} \cup [val : {{Legacy}}, session : BOOLEAN]]
    /\ asked = [r \in Requests |-> Nobody]
    /\ status = [r \in Requests |-> "idle"]

Settle(r, outcome) == status' = [status EXCEPT ![r] = outcome]

Ask(r, o, k, s) ==
    /\ status[r] = "idle"
    /\ asked' = [asked EXCEPT ![r] = [op |-> o, key |-> k, session |-> s]]
    /\ Settle(r, "pending")
    /\ UNCHANGED store

\* The key was absent and now holds this request's value alone.
Create(r) ==
    /\ status[r] = "pending" /\ asked[r].op = "create"
    /\ store[asked[r].key] = NoRecord
    /\ store' = [store EXCEPT ![asked[r].key] =
                    [val |-> {r}, session |-> asked[r].session]]
    /\ Settle(r, "applied")
    /\ UNCHANGED asked

\* The key was present and now holds what it held, with this request's part.
Patch(r) ==
    /\ status[r] = "pending" /\ asked[r].op = "patch"
    /\ store[asked[r].key] # NoRecord
    /\ store' = [store EXCEPT ![asked[r].key] =
                    [val |-> store[asked[r].key].val \cup {r}, session |-> FALSE]]
    /\ Settle(r, "applied")
    /\ UNCHANGED asked

\* A patch of the root is acknowledged like any other, but the key keeps the value it
\* held, and loses its expiry.
PatchRoot(r) ==
    /\ status[r] = "pending" /\ asked[r].op = "rootPatch"
    /\ store[asked[r].key] # NoRecord
    /\ store' = [store EXCEPT ![asked[r].key] =
                    [val |-> store[asked[r].key].val, session |-> FALSE]]
    /\ Settle(r, "applied")
    /\ UNCHANGED asked

\* A create is refused only when the key is present.
Refuse(r) ==
    /\ status[r] = "pending"
    /\ asked[r].op = "create" => store[asked[r].key] # NoRecord
    /\ Settle(r, "refused")
    /\ UNCHANGED <<store, asked>>

Ack(r) ==
    /\ status[r] = "applied"
    /\ Settle(r, "acked")
    /\ UNCHANGED <<store, asked>>

\* A failure may be reported although the request took effect.
Fail(r) ==
    /\ status[r] \in {"pending", "applied"}
    /\ Settle(r, "failed")
    /\ UNCHANGED <<store, asked>>

\* A crash loses the answers that were not sent, and nothing that was stored.
Restart ==
    /\ \E lost \in SUBSET {r \in Requests : status[r] \notin {"idle", "acked"}} :
          /\ {r \in Requests : status[r] \in {"pending", "applied"}} \subseteq lost
          /\ status' = [r \in Requests |-> IF r \in lost THEN "lost" ELSE status[r]]
    /\ UNCHANGED <<store, asked>>

Expire(k) ==
    /\ store[k] # NoRecord /\ store[k].session
    /\ store' = [store EXCEPT ![k] = NoRecord]
    /\ UNCHANGED <<asked, status>>

Next ==
    \/ \E r \in Requests :
          \/ \E o \in {"create", "patch", "rootPatch"}, k \in Keys, s \in BOOLEAN : Ask(r, o, k, s)
          \/ Create(r) \/ Patch(r) \/ PatchRoot(r) \/ Refuse(r) \/ Ack(r) \/ Fail(r)
    \/ Restart
    \/ \E k \in Keys : Expire(k)

Spec == Init /\ [][Next]_vars
=============================================================================
