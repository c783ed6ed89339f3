---------------------------- MODULE SessionKeys ----------------------------
(***************************************************************************)
(* Keys that expire with a connection.  A WebSocket client that writes a   *)
(* key with expire = 'session' wants it removed when its connection        *)
(* closes.  WSAPIDataStoreOperations registers the key with the connection *)
(* once the write has returned; the close handler of WSAPI removes what    *)
(* the connection has registered.  Writes and removals are asynchronous:   *)
(* a close can come while a write is in flight, and a removal it issues    *)
(* races the writes of the other connections.                              *)
(***************************************************************************)
EXTENDS Naturals

CONSTANTS
    Keys,
    Connections,
    Requests,    \* client operations, each made at most once
    NoRecord,    \* no record is stored under the key
    MaxFaults    \* bound on failing datastore calls

ASSUME BoundAssumption == MaxFaults \in Nat

VARIABLES
    store,       \* the request whose record each key holds, or NoRecord
    connection,  \* "open" or "closed"
    keys,        \* SessionExpiringKeys.keys: the connections registered for a key
    call,        \* what each request asks for
    pc,          \* "idle", "called", "stored", "done" or "failed"
    removals,    \* removals issued by close handlers, not yet applied
    faults,
    late,        \* history: session writes that returned after their connection closed
    kept         \* history: removals that failed

vars == <<store, connection, keys, call, pc, removals, faults, late, kept>>

\* A patch stores like a write without an expiry and registers nothing.
Call == [op : {"write", "remove"}, conn : Connections, key : Keys, session : BOOLEAN]
ASSUME NoRecordAssumption == NoRecord \notin Requests \cup Call

Removal == [key : Keys, conn : Connections]

TypeOK ==
    /\ store \in [Keys -> Requests \cup {NoRecord}]
    /\ connection \in [Connections -> {"open", "closed"}]
    /\ keys \in [Keys -> SUBSET Connections]
    /\ call \in [Requests -> Call \cup {NoRecord}]
    /\ pc \in [Requests -> {"idle", "called", "stored", "done", "failed"}]
    /\ \A r \in Requests : pc[r] # "idle" => call[r] \in Call
    /\ removals \subseteq Removal /\ kept \subseteq Removal
    /\ faults \in 0 .. MaxFaults
    /\ late \subseteq Requests

Init ==
    /\ store = [k \in Keys |-> NoRecord]
    /\ connection = [c \in Connections |-> "open"]
    /\ keys = [k \in Keys |-> {}]
    /\ call = [r \in Requests |-> NoRecord]
    /\ pc = [r \in Requests |-> "idle"]
    /\ removals = {} /\ kept = {} /\ late = {}
    /\ faults = 0

-----------------------------------------------------------------------------
(* The operators named Bug... are plausible mistakes in the definition that        *)
(* follows them, which the properties must notice; the model does not use them.    *)

\* Only a write carries an expiry.
ExpiryChoices(o) == IF o = "write" THEN BOOLEAN ELSE {FALSE}

\* processOperation of an open connection calls the datastore.
Request(r, c, o, k, s) ==
    /\ pc[r] = "idle" /\ connection[c] = "open"
    /\ s \in ExpiryChoices(o)
    /\ call' = [call EXCEPT ![r] = [op |-> o, conn |-> c, key |-> k, session |-> s]]
    /\ pc' = [pc EXCEPT ![r] = "called"]
    /\ UNCHANGED <<store, connection, keys, removals, faults, late, kept>>

\* The datastore call takes effect.
Store(r) ==
    /\ pc[r] = "called"
    /\ store' = [store EXCEPT ![call[r].key] =
                    IF call[r].op = "write" THEN r ELSE NoRecord]
    /\ pc' = [pc EXCEPT ![r] = "stored"]
    /\ UNCHANGED <<connection, keys, call, removals, faults, late, kept>>

BugReturnUnregistered(r) ==
    /\ pc[r] = "stored"
    /\ pc' = [pc EXCEPT ![r] = "done"]
    /\ keys' = IF call[r].session /\ keys[call[r].key] = {}
               THEN [keys EXCEPT ![call[r].key] = {call[r].conn}] ELSE keys
    /\ UNCHANGED <<store, connection, call, removals, faults, late, kept>>

\* It returns: a session write registers its key, whatever became of the connection.
Return(r) ==
    /\ pc[r] = "stored"
    /\ pc' = [pc EXCEPT ![r] = "done"]
    /\ keys' = IF call[r].session
               THEN [keys EXCEPT ![call[r].key] = @ \cup {call[r].conn}] ELSE keys
    /\ late' = IF call[r].session /\ connection[call[r].conn] = "closed"
               THEN late \cup {r} ELSE late
    /\ UNCHANGED <<store, connection, call, removals, faults, kept>>

\* It rejects, before its effect or after (the record is stored, its metadata is not);
\* nothing is registered.
Reject(r) ==
    /\ pc[r] \in {"called", "stored"}
    /\ faults < MaxFaults
    /\ faults' = faults + 1
    /\ pc' = [pc EXCEPT ![r] = "failed"]
    /\ UNCHANGED <<store, connection, keys, call, removals, late, kept>>

BugCloseDropsEntry(c) ==
    /\ connection[c] = "open"
    /\ connection' = [connection EXCEPT ![c] = "closed"]
    /\ removals' = removals \cup {[key |-> k, conn |-> c] : k \in {j \in Keys : c \in keys[j]}}
    /\ keys' = [k \in {j \in Keys : keys[j] # {c}} |-> keys[k] \ {c}]
    /\ UNCHANGED <<store, call, pc, faults, late, kept>>

BugCloseLastOnly(c) ==
    /\ connection[c] = "open"
    /\ connection' = [connection EXCEPT ![c] = "closed"]
    /\ removals' = removals \cup {[key |-> k, conn |-> c] : k \in {j \in Keys : keys[j] = {c}}}
    /\ keys' = [k \in Keys |-> keys[k] \ {c}]
    /\ UNCHANGED <<store, call, pc, faults, late, kept>>

BugCloseRemovesAll(c) ==
    /\ connection[c] = "open"
    /\ connection' = [connection EXCEPT ![c] = "closed"]
    /\ removals' = removals \cup {[key |-> k, conn |-> c] : k \in {j \in Keys : keys[j] # {}}}
    /\ keys' = [k \in Keys |-> keys[k] \ {c}]
    /\ UNCHANGED <<store, call, pc, faults, late, kept>>

\* The close handler: removeByConnection forgets the connection and issues the
\* removal of every key it was registered for, also registered by others or not.
Close(c) ==
    /\ connection[c] = "open"
    /\ connection' = [connection EXCEPT ![c] = "closed"]
    /\ removals' = removals \cup {[key |-> k, conn |-> c] : k \in {j \in Keys : c \in keys[j]}}
    /\ keys' = [k \in Keys |-> keys[k] \ {c}]
    /\ UNCHANGED <<store, call, pc, faults, late, kept>>

BugRemoveUnlessShared(m) ==
    /\ m \in removals
    /\ store' = IF keys[m.key] = {} THEN [store EXCEPT ![m.key] = NoRecord] ELSE store
    /\ removals' = removals \ {m}
    /\ UNCHANGED <<connection, keys, call, pc, faults, late, kept>>

\* A removal takes effect, whoever wrote the record that is there by then.
Remove(m) ==
    /\ m \in removals
    /\ store' = [store EXCEPT ![m.key] = NoRecord]
    /\ removals' = removals \ {m}
    /\ UNCHANGED <<connection, keys, call, pc, faults, late, kept>>

\* It fails: the error is logged and nobody tries again.
FailRemoval(m) ==
    /\ m \in removals
    /\ faults < MaxFaults
    /\ faults' = faults + 1
    /\ removals' = removals \ {m}
    /\ kept' = kept \cup {m}
    /\ UNCHANGED <<store, connection, keys, call, pc, late>>

\* All is over: every connection is closed and everything was answered.
Finished ==
    /\ \A c \in Connections : connection[c] = "closed"
    /\ \A r \in Requests : pc[r] \in {"idle", "done", "failed"}
    /\ removals = {}
    /\ UNCHANGED vars

Next ==
    \/ \E r \in Requests :
          \/ \E c \in Connections, o \in {"write", "remove"}, k \in Keys, s \in BOOLEAN :
                Request(r, c, o, k, s)
          \/ Store(r) \/ Return(r) \/ Reject(r)
    \/ \E c \in Connections : Close(c)
    \/ \E m \in removals : Remove(m) \/ FailRemoval(m)
    \/ Finished

Spec == Init /\ [][Next]_vars

\* LevelDB answers every call; nothing makes a client close.
Fairness ==
    /\ \A r \in Requests : WF_vars(Store(r) \/ Return(r))
    /\ \A m \in Removal : WF_vars(Remove(m))

FairSpec == Spec /\ Fairness

-----------------------------------------------------------------------------
\* A session record that is stored, and whose write was answered in time.
Registered(r, k) ==
    store[k] = r /\ pc[r] = "done" /\ call[r].session /\ r \notin late

\* As long as the connection is open, it is registered for the session keys it was
\* told are written, so that its close will find them, whatever the other connections
\* registered for the key do.
OpenIsRegistered ==
    \A k \in Keys, r \in Requests :
        (Registered(r, k) /\ connection[call[r].conn] = "open") => call[r].conn \in keys[k]

\* No session key is forgotten: when the connection of an answered session write is
\* closed, the removal of its record is on its way or has failed.
ClosedIsRemoved ==
    \A k \in Keys, r \in Requests :
        (Registered(r, k) /\ connection[call[r].conn] = "closed")
        => [key |-> k, conn |-> call[r].conn] \in removals \cup kept

\* A remove of the key takes effect, or a connection that wrote it for its session
\* has closed.
HasReason(k) ==
    \E r \in Requests :
        /\ call[r] # NoRecord /\ call[r].key = k
        /\ \/ call[r].op = "remove" /\ pc[r] = "called" /\ pc'[r] = "stored"
           \/ call[r].session /\ pc[r] = "done" /\ connection[call[r].conn] = "closed"

\* A key disappears only by a remove, or because a connection closed that once wrote
\* it for its session; the close of a bystander never costs a key.
RemovedForAReason ==
    [][\A k \in Keys : (store[k] # NoRecord /\ store'[k] = NoRecord) => HasReason(k)]_vars

\* The record of an answered session write goes away once its connection is closed.
SessionRecordsGo ==
    \A k \in Keys, r \in Requests :
        (Registered(r, k) /\ connection[call[r].conn] = "closed")
        ~> (store[k] # r \/ [key |-> k, conn |-> call[r].conn] \in kept)

\* ws-api.ts, line 217: "let the following 'close' clean up".  When every connection
\* is closed, nothing is in flight and nothing failed, no session key is left.
CloseCleansUp ==
    (/\ \A c \in Connections : connection[c] = "closed"
     /\ \A r \in Requests : pc[r] \in {"idle", "done"}
     /\ removals = {})
    => \A k \in Keys : store[k] # NoRecord => ~call[store[k]].session
=============================================================================
