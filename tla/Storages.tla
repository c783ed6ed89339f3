------------------------------ MODULE Storages ------------------------------
(***************************************************************************)
(* The two storages of a service.  A bucket with persistenceDisabled is    *)
(* kept in memory (datastore-memory.ts), any other in LevelDB; the setting *)
(* can change at any time, and what the other storage holds stays there.   *)
(* A LevelDB database is open behind either.                               *)
(*                                                                         *)
(* One bucket, always open.  A call chooses its storage, may have to wait, *)
(* and then works on it in one step: what overlapping calls do to one      *)
(* another in LevelDB is the subject of KeyOps.  generateKey is here too:  *)
(* like the memory, its state is gone after a restart.                     *)
(***************************************************************************)
EXTENDS Naturals, FiniteSets

CONSTANTS
    Keys,
    Requests,       \* the writes, patches and removes of clients
    Master,         \* the server this bucket may be a replica of
    Absent,         \* no record
    None,           \* no key generated since the start
    MaxToggles, MaxRestarts, MaxSyncs,      \* bounds: configurations, restarts, buckets received
    MaxClock, MaxGenerated                  \* bounds: milliseconds, generated keys

ASSUME BoundsAssumption ==
    {MaxToggles, MaxRestarts, MaxSyncs, MaxClock, MaxGenerated} \subseteq Nat

\* What a value is made of: a write or the master's value is one mark, a patch of two
\* operations adds two.
Mark == (Requests \cup {Master}) \X {1, 2}
Value == SUBSET Mark
Record == [value : Value, session : BOOLEAN]
Store == [Keys -> Record \cup {Absent}]

ASSUME AbsentAssumption == Absent \notin Record
ASSUME NoneAssumption == None \notin Nat

VARIABLES
    persistence,    \* config in force: "disk", or "memory" for persistenceDisabled
    disk, memory,   \* the records of the bucket in each storage
    inMemory,       \* the memory storage has a map for the bucket
    pc,             \* request -> "idle", "wait" (for its turn), "done" or "failed"
    key, storage,   \* request -> its key, and the storage it has chosen
    view,           \* what a subscriber knows from the events
    stale,          \* history: keys whose storage and events have gone apart
    keyLast, keyCounter, generated,     \* generateKey, and the keys it has given
    newest, steppedBack, reused,        \* history of generateKey
    toggles, restarts, syncs

storeVars == <<disk, memory, inMemory>>
requestVars == <<pc, key, storage>>
keyVars == <<keyLast, keyCounter, generated, newest, steppedBack, reused>>
configVars == <<persistence, toggles, restarts>>
vars == <<storeVars, requestVars, keyVars, configVars, view, stale, syncs>>

TypeOK ==
    /\ persistence \in {"disk", "memory"}
    /\ disk \in Store /\ memory \in Store
    /\ ~inMemory => \A k \in Keys : memory[k] = Absent
    /\ pc \in [Requests -> {"idle", "wait", "done", "failed"}]
    /\ key \in [Requests -> Keys] /\ storage \in [Requests -> {"disk", "memory"}]
    /\ view \in [Keys -> Value \cup {Absent}]
    /\ stale \subseteq Keys
    /\ keyLast \in 0 .. MaxClock \cup {None} /\ keyCounter \in 0 .. MaxGenerated

(* The operators named Bug... are plausible mistakes in the definition that        *)
(* follows them, which the properties must notice; the model does not use them.    *)

ValueOf(rec) == IF rec = Absent THEN Absent ELSE rec.value

\* getStorage: the records a read or a list is answered from.
Served(k) == IF persistence = "memory" THEN memory[k] ELSE disk[k]

Init ==
    /\ persistence \in {"disk", "memory"}
    /\ disk = [k \in Keys |-> Absent] /\ memory = disk /\ inMemory = FALSE
    /\ pc = [r \in Requests |-> "idle"]
    /\ key \in [Requests -> Keys] /\ storage = [r \in Requests |-> "disk"]
    /\ view = disk /\ stale = {}
    /\ keyLast = None /\ keyCounter = 0 /\ generated = {} /\ newest = 0
    /\ steppedBack = FALSE /\ reused = FALSE
    /\ toggles = 0 /\ restarts = 0 /\ syncs = 0

-----------------------------------------------------------------------------
(* Requests. *)

BugPut(s, k, rec) ==
    IF s = "memory"
    THEN memory' = [memory EXCEPT ![k] = rec] /\ UNCHANGED <<disk, inMemory>>
    ELSE disk' = [disk EXCEPT ![k] = rec] /\ UNCHANGED <<memory, inMemory>>

\* The record goes to one storage; the memory makes its map for the first.
Put(s, k, rec) ==
    IF s = "memory"
    THEN memory' = [memory EXCEPT ![k] = rec] /\ inMemory' = TRUE /\ UNCHANGED disk
    ELSE disk' = [disk EXCEPT ![k] = rec] /\ UNCHANGED <<memory, inMemory>>

\* doDataUpdateEvent; readers see the value unless the storage has gone out of use.
Publish(s, k, value) ==
    /\ view' = [view EXCEPT ![k] = value]
    /\ stale' = IF s = persistence THEN stale \ {k} ELSE stale \cup {k}

End(r, outcome) == pc' = [pc EXCEPT ![r] = outcome]

\* A write chooses its storage when it is ready to store.
Write(r, session) ==
    /\ pc[r] = "idle"
    /\ Put(persistence, key[r], [value |-> {<<r, 1>>}, session |-> session])
    /\ Publish(persistence, key[r], {<<r, 1>>})
    /\ End(r, "done")
    /\ UNCHANGED <<key, storage, keyVars, configVars, syncs>>

\* DataStoreInMemory.remove rejects when it has no map; a missing key is no error.
Remove(r) ==
    /\ pc[r] = "idle"
    /\ IF persistence = "memory" /\ ~inMemory
       THEN End(r, "failed") /\ UNCHANGED <<storeVars, view, stale>>
       ELSE /\ Put(persistence, key[r], Absent)
            /\ Publish(persistence, key[r], Absent)
            /\ End(r, "done")
    /\ UNCHANGED <<key, storage, keyVars, configVars, syncs>>

\* A patch has chosen before it waits for the semaphore.
AskPatch(r) ==
    /\ pc[r] = "idle"
    /\ storage' = [storage EXCEPT ![r] = persistence]
    /\ End(r, "wait")
    /\ UNCHANGED <<key, storeVars, keyVars, configVars, view, stale, syncs>>

Found(r) == IF storage[r] = "memory" THEN memory[key[r]] ELSE disk[key[r]]

BugPatch(r) ==
    /\ pc[r] = "wait" /\ Found(r) # Absent
    /\ LET value == Found(r).value \cup {<<r, 1>>, <<r, 2>>} IN
          /\ Put(storage[r], key[r], [value |-> value, session |-> FALSE])
          /\ Publish(storage[r], key[r], {<<r, 1>>, <<r, 2>>})
    /\ End(r, "done")
    /\ UNCHANGED <<key, storage, keyVars, configVars, syncs>>

Patch(r) ==
    /\ pc[r] = "wait" /\ Found(r) # Absent
    /\ LET value == Found(r).value \cup {<<r, 1>>, <<r, 2>>} IN
          /\ Put(storage[r], key[r], [value |-> value, session |-> FALSE])
          /\ Publish(storage[r], key[r], value)
    /\ End(r, "done")
    /\ UNCHANGED <<key, storage, keyVars, configVars, syncs>>

\* A patch of the root: json-patch returns a new value and leaves the one that was read,
\* which is stored again; the event tells of the other.
PatchRoot(r) ==
    /\ pc[r] = "wait" /\ Found(r) # Absent
    /\ Put(storage[r], key[r], [value |-> Found(r).value, session |-> FALSE])
    /\ view' = [view EXCEPT ![key[r]] = {<<r, 1>>}]
    /\ stale' = stale \cup {key[r]}
    /\ End(r, "done")
    /\ UNCHANGED <<key, storage, keyVars, configVars, syncs>>

\* No record, or the second operation of the patch does not apply.  What LevelDB read is a
\* copy; what the memory read is the record itself, which the first operation has changed.
PatchFails(r) ==
    /\ pc[r] = "wait"
    /\ IF Found(r) # Absent /\ storage[r] = "memory"
       THEN /\ memory' = [memory EXCEPT ![key[r]].value = @ \cup {<<r, 1>>}]
            /\ stale' = IF persistence = "memory" THEN stale \cup {key[r]} ELSE stale
       ELSE UNCHANGED <<memory, stale>>
    /\ End(r, "failed")
    /\ UNCHANGED <<key, storage, disk, inMemory, keyVars, configVars, view, syncs>>

\* receiveReplicationMessage, a bucket: its records go to LevelDB always, the records that
\* are not in it are deleted from the storage in use, without an event.
Receive(keys) ==
    /\ syncs < MaxSyncs /\ syncs' = syncs + 1
    /\ LET rec == [value |-> {<<Master, 1>>}, session |-> FALSE]
           Kept(store) == [k \in Keys |-> IF k \in keys THEN store[k] ELSE Absent]
           written == [k \in Keys |-> IF k \in keys THEN rec ELSE disk[k]]
       IN /\ disk' = IF persistence = "disk" THEN Kept(written) ELSE written
          /\ memory' = IF persistence = "memory" THEN Kept(memory) ELSE memory
    /\ view' = [k \in Keys |-> IF k \in keys THEN {<<Master, 1>>} ELSE view[k]]
    /\ stale' = IF persistence = "memory" THEN Keys
                ELSE (stale \ keys) \cup {k \in Keys \ keys : view[k] # Absent}
    /\ UNCHANGED <<inMemory, requestVars, keyVars, configVars>>

\* A single change of the master goes to the storage in use, and its event follows the
\* storage; a deletion rejects without a map, and then has no event.
ReceiveRecord(k) ==
    /\ syncs < MaxSyncs /\ syncs' = syncs + 1
    /\ Put(persistence, k, [value |-> {<<Master, 1>>}, session |-> FALSE])
    /\ Publish(persistence, k, {<<Master, 1>>})
    /\ UNCHANGED <<requestVars, keyVars, configVars>>

ReceiveDeletion(k) ==
    /\ syncs < MaxSyncs /\ syncs' = syncs + 1
    /\ IF persistence = "memory" /\ ~inMemory
       THEN UNCHANGED <<storeVars, view, stale>>
       ELSE Put(persistence, k, Absent) /\ Publish(persistence, k, Absent)
    /\ UNCHANGED <<requestVars, keyVars, configVars>>

-----------------------------------------------------------------------------
(* The configuration and the start. *)

\* The setting is stored and in force; the records stay where they are.
Toggle ==
    /\ toggles < MaxToggles /\ toggles' = toggles + 1
    /\ persistence' = IF persistence = "disk" THEN "memory" ELSE "disk"
    /\ stale' = Keys
    /\ UNCHANGED <<storeVars, requestVars, keyVars, view, restarts, syncs>>

\* deleteExpiredKeys at a start: it lists LevelDB and removes from the storage in use.
Purged(setting) ==
    [k \in Keys |-> IF setting = "disk" /\ disk[k] # Absent /\ disk[k].session THEN Absent ELSE disk[k]]

SessionOnDisk == \E k \in Keys : disk[k] # Absent /\ disk[k].session

\* The memory has no map yet, so the removal of a session record from it rejects, and
\* applyBucketConfig's catch stores an empty configuration in the place of the one it read.
StartsWith(setting) ==
    IF setting = "memory" /\ SessionOnDisk THEN "disk" ELSE setting

\* What is in memory is gone, with the requests under way; the subscribers come back and
\* read what there is.
Restart ==
    /\ restarts < MaxRestarts /\ restarts' = restarts + 1
    /\ persistence' = StartsWith(persistence)
    /\ disk' = Purged(persistence)
    /\ memory' = [k \in Keys |-> Absent] /\ inMemory' = FALSE
    /\ view' = [k \in Keys |-> ValueOf(IF persistence' = "memory" THEN Absent ELSE disk'[k])]
    /\ stale' = {}
    /\ pc' = [r \in Requests |-> IF pc[r] = "wait" THEN "failed" ELSE pc[r]]
    /\ keyLast' = None /\ keyCounter' = 0
    /\ UNCHANGED <<key, storage, generated, newest, steppedBack, reused, toggles, syncs>>

BugGenerateKey ==
    \E now \in 0 .. MaxClock :
        LET counter == IF now = keyLast THEN keyCounter + 1 ELSE 0 IN
        /\ Cardinality(generated) < MaxGenerated /\ ~reused
        /\ keyLast' = (IF keyLast = None THEN now ELSE keyLast) /\ keyCounter' = counter
        /\ newest' = IF now > newest THEN now ELSE newest
        /\ steppedBack' = (steppedBack \/ now < newest \/ (keyLast = None /\ <<now, 0>> \in generated))
        /\ generated' = generated \cup {<<now, counter>>}
        /\ reused' = (<<now, counter>> \in generated)
        /\ UNCHANGED <<storeVars, requestVars, configVars, view, stale, syncs>>

\* generateKey, for a write without a key: the time, with a counter when the last key was
\* of the same millisecond.  A restart takes longer than a millisecond.
GenerateKey ==
    \E now \in 0 .. MaxClock :
        LET counter == IF now = keyLast THEN keyCounter + 1 ELSE 0 IN
        /\ Cardinality(generated) < MaxGenerated /\ ~reused
        /\ keyLast' = now /\ keyCounter' = counter
        /\ newest' = IF now > newest THEN now ELSE newest
        /\ steppedBack' = (steppedBack \/ now < newest \/ (keyLast = None /\ <<now, 0>> \in generated))
        /\ generated' = generated \cup {<<now, counter>>}
        /\ reused' = (<<now, counter>> \in generated)
        /\ UNCHANGED <<storeVars, requestVars, configVars, view, stale, syncs>>

Next ==
    \/ \E r \in Requests :
          \/ \E session \in BOOLEAN : Write(r, session)
          \/ Remove(r)
          \/ AskPatch(r)
          \/ Patch(r)
          \/ PatchRoot(r)
          \/ PatchFails(r)
    \/ \E keys \in SUBSET Keys : Receive(keys)
    \/ \E k \in Keys : ReceiveRecord(k) \/ ReceiveDeletion(k)
    \/ Toggle
    \/ Restart
    \/ GenerateKey

Spec == Init /\ [][Next]_vars

-----------------------------------------------------------------------------
\* A subscriber that applies the events knows what a read would tell it, whichever storage
\* the bucket is in and whichever a waiting patch had chosen.  Excepted are, until their
\* next event, the keys of a bucket that has just changed its storage, a record in memory
\* a failed patch has changed, one whose root was patched, and what a master's bucket has changed without an event:
\* all of it when the replica is in memory, for its records go to LevelDB.
EventsTellWhatIsServed ==
    \A k \in Keys \ stale : view[k] = ValueOf(Served(k))

\* generateKey gives no key out twice, unless the clock is set back.
FreshKeys == reused => steppedBack
=============================================================================
