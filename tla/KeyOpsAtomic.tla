---------------------------- MODULE KeyOpsAtomic ----------------------------
(* KeyOps implements AtomicKeys when the clients use creates and patches only. *)
EXTENDS KeyOps

\* A request takes effect when its record is stored, and is refused when it reads.
Status(p) ==
    CASE p \in {"wait", "read", "put"} -> "pending"
      [] p \in {"putMeta", "publish"} -> "applied"
      [] p = "refuse" -> "refused"
      [] p = "error" -> "failed"
      [] OTHER -> p

ItemOf(rec) ==
    IF rec = NoRecord THEN NoRecord ELSE [val |-> rec.val, session |-> rec.session]

Atomic == INSTANCE AtomicKeys WITH
    store <- [k \in Keys |-> ItemOf(db[k])],
    asked <- call,
    status <- [r \in Requests |-> Status(pc[r])]

\* An absent record is no item.
ASSUME ItemAssumption == NoRecord \notin Atomic!Item

\* Creates and patches are atomic: writeFailIfExists and patch, each three storage
\* calls and a semaphore, look to every client like one step on the stored value,
\* over interleavings, failing writes and crashes.
ImplementsAtomic == Atomic!Spec
=============================================================================
