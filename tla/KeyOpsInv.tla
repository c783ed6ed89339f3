----------------------------- MODULE KeyOpsInv -----------------------------
(***************************************************************************)
(* Why the invariants of KeyOps hold: the inductive invariant IInv, in     *)
(* layers.  TLC checks it on a small instance; KeyOpsProofs proves it for  *)
(* every value of the constants.                                           *)
(***************************************************************************)
EXTENDS KeyOps

\* A request in the section the write semaphore protects.
InSection(r) ==
    \/ pc[r] = "read"
    \/ pc[r] \in {"put", "putMeta", "publish", "refuse", "error"}
       /\ call[r].op \in ReadModifyWrite

\* The semaphore is held by whoever is in the section, hence by one request at most.
HolderInv == \A r \in Requests : InSection(r) => holder = r

\* What was read, and the history kept about requests, is about requests under way.
RequestInv ==
    \A r \in Requests :
        /\ pc[r] = "wait" => call[r].op \in ReadModifyWrite
        /\ (pc[r] \in {"put", "putMeta", "publish", "acked"} /\ call[r].op \in Patches)
              => seen[r] \in Record
        /\ r \in exposed \cup misread => pc[r] \notin {"idle", "wait", "read"}
        /\ r \in old => pc[r] \in Settled
        /\ mode # "serving" => pc[r] \in Settled \cup {"idle"}
        /\ mode # "serving" /\ pc[r] # "idle" => r \in old
        /\ r \in misread => call[r].op = "create"

\* The opening of the bucket.
BootInv ==
    /\ mode \notin {"purging"} => purge = {}
    /\ mode \in {"copying", "purging", "serving"} => metaExists
    /\ (~metaExists \/ mode = "copying") => \A k \in Keys : meta[k] = NoRecord
    /\ mode = "purging" => ExpiredKeys \subseteq purge
    /\ \A k \in purge : db[k] # NoRecord => db[k].session
    /\ mode = "serving" =>
         \A k \in Keys \ spared :
            (db[k] # NoRecord /\ db[k].session) => db[k].by \notin old \cup {Legacy}

\* A mutation that overlapped with no other is still what the key holds.
WindowInv ==
    \A r \in Requests :
        (pc[r] \in {"putMeta", "publish"} /\ call[r].key \notin suspect) =>
            /\ db[call[r].key] = NewRecord(r)
            /\ Window(call[r].key) = {r}

\* The metadata of a key that is not suspect, in every mode.
MetaInv ==
    \A k \in Keys :
        (/\ metaExists /\ mode # "copying"
         /\ k \notin suspect
         /\ ~ \E r \in Requests : pc[r] = "putMeta" /\ call[r].key = k)
        => \/ meta[k] = MetaOf(db[k])
           \/ k \in purge /\ db[k] = NoRecord

\* What a holder of the semaphore has read is what the key holds, or else nobody
\* past a read has a claim on the key any more.
ReadInv ==
    \A r \in Requests :
        (pc[r] = "put" /\ call[r].op \in ReadModifyWrite /\ r \notin misread) =>
            \/ r \notin exposed /\ seen[r] = db[call[r].key]
            \/ Informed(call[r].key) \subseteq exposed

\* A create reaches its put only when it saw no record.
CreateInv ==
    \A r \in Requests :
        (pc[r] = "put" /\ call[r].op = "create" /\ r \notin misread) => seen[r] = NoRecord

\* The part a patch has stored is in the value, in a record no restart expires.
PatchInv ==
    \A r \in Requests :
        (/\ pc[r] \in {"putMeta", "publish", "acked"}
         /\ call[r].op = "patch" /\ r \notin exposed)
        => /\ db[call[r].key] # NoRecord
           /\ r \in db[call[r].key].val
           /\ ~db[call[r].key].session

\* A create that has stored its record: the key holds one, permanent if it was.
Stands(r) ==
    /\ pc[r] \in {"putMeta", "publish", "acked"} /\ call[r].op = "create"
    /\ r \notin exposed \cup misread
    /\ ~(call[r].session /\ r \in old)

ClaimInv ==
    \A r \in Requests :
        Stands(r) =>
            /\ db[call[r].key] # NoRecord
            /\ db[call[r].key].session => call[r].session
            /\ \A q \in Requests :
                  (q # r /\ Stands(q)) => call[q].key # call[r].key

\* The inductive invariant: with it, and only with it, each step preserves
\* MetaAgrees, MirrorAgrees, NoLostPatch, SingleCreator and NoStaleSession.
IInv ==
    /\ TypeOK
    /\ HolderInv /\ RequestInv /\ BootInv
    /\ WindowInv /\ MetaInv /\ MirrorAgrees
    /\ ReadInv /\ CreateInv /\ PatchInv /\ ClaimInv
=============================================================================
