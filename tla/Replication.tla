---------------------------- MODULE Replication ----------------------------
(***************************************************************************)
(* A bucket and its replica on another server.  The replica opens a        *)
(* connection and registers; the master answers with the whole bucket and  *)
(* from then on sends every change.  The replica handles each message in   *)
(* an asynchronous handler it does not wait for: the handlers of several   *)
(* messages run at once, and those of a connection that was lost go on     *)
(* beside those of the next one.                                           *)
(*                                                                         *)
(* The writes of the master are numbered; overlapping writes of one key    *)
(* are the subject of KeyOps and left out here, and so are local writes of *)
(* the replica's own clients.  What the master announces without storing   *)
(* it, the event-broadcast of a client or the result of a patch of the     *)
(* root, is a change to the replica like any other.                        *)
(***************************************************************************)
EXTENDS Naturals, Sequences

CONSTANTS
    Keys,
    Kinds,       \* the changes clients make: "value", "falsy" (0, "", false, null), "deleted"
    KeepLocal,   \* config.replicationKeepLocalObjects
    Absent,      \* no record under the key
    Local,       \* a record of the replica that the master never held
    None,        \* no snapshot, no change
    MaxChanges, MaxBroadcasts, MaxDrops, MaxFaults

ASSUME KindsAssumption == Kinds \subseteq {"value", "falsy", "deleted"}
ASSUME KeepLocalAssumption == KeepLocal \in BOOLEAN
ASSUME BoundsAssumption == {MaxChanges, MaxBroadcasts, MaxDrops, MaxFaults} \subseteq Nat
ASSUME NamesAssumption == {Absent, Local} \cap Nat = {} /\ Absent # Local

Versions == 0 .. MaxChanges
Contents == [Keys -> Versions \cup {Absent}]     \* what the master can hold
Change == [key : Keys, version : Versions, kind : Kinds]
Foreign == [key : Keys, number : 1 .. MaxBroadcasts]    \* announced and not stored
Message == [type : {"change"}, change : Change] \cup [type : {"data"}, data : Contents]
             \cup [type : {"broadcast"}, broadcast : Foreign]

\* A handler of a data message: the keys it has still to write, and then, once it has
\* listed the bucket, the keys it has still to delete.
Resync == [link : Nat, data : Contents, toWrite : SUBSET Keys,
           listed : BOOLEAN, toDelete : SUBSET Keys]

ASSUME NoneAssumption == None \notin Change \cup Contents

VARIABLES
    master,      \* the records of the master
    unsent,      \* for each key, a change that is stored and not yet published
    link,        \* "down", "connected" (not registered yet) or "registered"
    snapshot,    \* the bucket as the master listed it for the replica, or None
    channel,     \* messages on their way to the replica, in order
    replica,     \* the records of the replica
    writing,     \* change messages whose handler waits for its storage call
    storing,     \* the same of what was announced and not stored
    resyncs,     \* data messages being handled
    version, broadcasts, drops, faults,
    raced        \* history: keys that more than one handler, a failure, a value the
                 \* replica ignores or one the master never held may have set since a
                 \* bucket was listed for the replica

masterVars == <<master, unsent, version, broadcasts>>
linkVars == <<link, snapshot, channel>>
replicaVars == <<replica, writing, storing, resyncs>>
vars == <<masterVars, linkVars, replicaVars, drops, faults, raced>>

TypeOK ==
    /\ master \in Contents
    /\ unsent \in [Keys -> Change \cup {None}]
    /\ link \in {"down", "connected", "registered"}
    /\ snapshot \in Contents \cup {None}
    /\ channel \in Seq(Message)
    /\ replica \in [Keys -> Versions \cup {Absent, Local}]
    /\ writing \subseteq Change /\ storing \subseteq Foreign
    /\ resyncs \subseteq Resync
    /\ version \in Versions /\ broadcasts \in 0 .. MaxBroadcasts
    /\ drops \in 0 .. MaxDrops /\ faults \in 0 .. MaxFaults
    /\ raced \subseteq Keys

(* The operators named Bug... are plausible mistakes in the definition that        *)
(* follows them, which the properties must notice; the model does not use them.    *)

BugOutcomeOfFalsy(c) == IF c.kind = "value" THEN c.version ELSE IF c.kind = "falsy" THEN None ELSE Absent

\* What a change leaves under its key.
Outcome(c) == IF c.kind = "deleted" THEN Absent ELSE c.version

\* The replica follows the master from the first start; each has what it has on disk.
Init ==
    /\ master \in [Keys -> {0, Absent}]
    /\ unsent = [k \in Keys |-> None]
    /\ link = "down"
    /\ snapshot = None
    /\ channel = <<>>
    /\ replica \in [Keys -> {Absent, Local}]
    /\ writing = {} /\ storing = {}
    /\ resyncs = {}
    /\ version = 0 /\ broadcasts = 0 /\ drops = 0 /\ faults = 0
    /\ raced = Keys

-----------------------------------------------------------------------------
(* The master. *)

\* A client changes a key: the record is stored.
Store(k, kind) ==
    /\ version < MaxChanges
    /\ unsent[k] = None
    /\ version' = version + 1
    /\ LET c == [key |-> k, version |-> version', kind |-> kind] IN
          /\ master' = [master EXCEPT ![k] = Outcome(c)]
          /\ unsent' = [unsent EXCEPT ![k] = c]
    /\ UNCHANGED <<broadcasts, linkVars, replicaVars, drops, faults, raced>>

\* The buckets that are on their way to the replica or being written there.
Underway ==
    ({snapshot} \ {None})
      \cup {channel[i].data : i \in {j \in DOMAIN channel : channel[j].type = "data"}}
      \cup {s.data : s \in resyncs}

BugPublishFirst(k) ==
    LET c == unsent[k] IN
    /\ c # None
    /\ unsent' = [unsent EXCEPT ![k] = None]
    /\ \/ /\ link = "registered"
          /\ channel' = <<[type |-> "change", change |-> c]>> \o channel
          /\ raced' = IF \E s \in Underway : s[k] # Outcome(c) THEN raced \cup {k} ELSE raced
       \/ /\ link # "registered"
          /\ UNCHANGED <<channel, raced>>
    /\ UNCHANGED <<master, version, broadcasts, link, snapshot, replicaVars, drops, faults>>

\* The call returns and the change is broadcast: to the replica if it is registered.
Publish(k) ==
    LET c == unsent[k] IN
    /\ c # None
    /\ unsent' = [unsent EXCEPT ![k] = None]
    /\ \/ /\ link = "registered"
          /\ channel' = Append(channel, [type |-> "change", change |-> c])
          /\ raced' = IF \E s \in Underway : s[k] # Outcome(c) THEN raced \cup {k} ELSE raced
       \/ /\ link # "registered"
          /\ UNCHANGED <<channel, raced>>
    /\ UNCHANGED <<master, version, broadcasts, link, snapshot, replicaVars, drops, faults>>

\* A value is announced that the master does not store: a client broadcasts it as an
\* event, or patches the root of a record.  Nobody hears of it but who is registered; a
\* value that is false in a condition the replica ignores.
Broadcast(k) ==
    /\ link = "registered" /\ broadcasts < MaxBroadcasts
    /\ broadcasts' = broadcasts + 1
    /\ channel' = Append(channel, [type |-> "broadcast",
                                   broadcast |-> [key |-> k, number |-> broadcasts']])
    /\ raced' = raced \cup {k}
    /\ UNCHANGED <<master, unsent, version, link, snapshot, replicaVars, drops, faults>>

\* The register-replication-client message: the connection is registered, and the
\* bucket is listed as it is now.  The listing takes its time.
Register ==
    /\ link = "connected"
    /\ link' = "registered"
    /\ snapshot' = master
    /\ raced' = IF writing = {} /\ storing = {} /\ resyncs = {} THEN {} ELSE Keys
    /\ UNCHANGED <<masterVars, channel, replicaVars, drops, faults>>

\* sendBucket: the listing is complete and goes out behind the changes sent meanwhile.
SendBucket ==
    /\ snapshot # None
    /\ channel' = Append(channel, [type |-> "data", data |-> snapshot])
    /\ snapshot' = None
    /\ UNCHANGED <<masterVars, link, replicaVars, drops, faults, raced>>

\* The listing fails: it is logged, and the replica stays registered without a bucket.
ListingFails ==
    /\ snapshot # None
    /\ faults < MaxFaults
    /\ faults' = faults + 1
    /\ snapshot' = None
    /\ raced' = Keys
    /\ UNCHANGED <<masterVars, link, channel, replicaVars, drops>>

-----------------------------------------------------------------------------
(* The connection. *)

BugConnectOnce ==
    /\ link = "down" /\ drops = 0
    /\ link' = "connected"
    /\ UNCHANGED <<masterVars, snapshot, channel, replicaVars, drops, faults, raced>>

Connect ==
    /\ link = "down"
    /\ link' = "connected"
    /\ UNCHANGED <<masterVars, snapshot, channel, replicaVars, drops, faults, raced>>

\* What was not delivered is lost; the handlers of the replica go on.
Drop ==
    /\ link # "down"
    /\ drops < MaxDrops
    /\ drops' = drops + 1
    /\ link' = "down"
    /\ snapshot' = None
    /\ channel' = <<>>
    /\ UNCHANGED <<masterVars, replicaVars, faults, raced>>

-----------------------------------------------------------------------------
(* The replica: receiveReplicationMessage. *)

\* A change starts a handler of its own.  A value that is false in a condition is
\* taken for no change at all.
ReceiveChange ==
    /\ channel # <<>> /\ Head(channel).type = "change"
    /\ LET c == Head(channel).change IN
          \/ /\ c.kind # "falsy"
             /\ writing' = writing \cup {c}
             /\ raced' = IF \E d \in writing : d.key = c.key THEN raced \cup {c.key} ELSE raced
          \/ /\ c.kind = "falsy"
             /\ raced' = raced \cup {c.key}
             /\ UNCHANGED writing
    /\ channel' = Tail(channel)
    /\ UNCHANGED <<masterVars, link, snapshot, replica, storing, resyncs, drops, faults>>

\* The storage call of a change takes effect.
ApplyChange(c) ==
    /\ c \in writing
    /\ replica' = [replica EXCEPT ![c.key] = Outcome(c)]
    /\ writing' = writing \ {c}
    /\ UNCHANGED <<masterVars, linkVars, storing, resyncs, drops, faults, raced>>

\* To the replica a broadcast value is a change like any other, and it stores it.
ReceiveBroadcast ==
    /\ channel # <<>> /\ Head(channel).type = "broadcast"
    /\ storing' = storing \cup {Head(channel).broadcast}
    /\ channel' = Tail(channel)
    /\ UNCHANGED <<masterVars, link, snapshot, replica, writing, resyncs, drops, faults, raced>>

ApplyBroadcast(b) ==
    /\ b \in storing
    /\ replica' = [replica EXCEPT ![b.key] = Local]
    /\ storing' = storing \ {b}
    /\ UNCHANGED <<masterVars, linkVars, writing, resyncs, drops, faults, raced>>

Present(data) == {k \in Keys : data[k] # Absent}

\* A bucket starts a handler: it writes the records one after the other.
ReceiveBucket ==
    /\ channel # <<>> /\ Head(channel).type = "data"
    /\ resyncs' = resyncs \cup
          {[link |-> drops, data |-> Head(channel).data,
            toWrite |-> Present(Head(channel).data), listed |-> FALSE, toDelete |-> {}]}
    /\ channel' = Tail(channel)
    /\ UNCHANGED <<masterVars, link, snapshot, replica, writing, storing, drops, faults, raced>>

WriteNext(s, k) ==
    /\ s \in resyncs /\ k \in s.toWrite
    /\ replica' = [replica EXCEPT ![k] = s.data[k]]
    /\ resyncs' = (resyncs \ {s}) \cup {[s EXCEPT !.toWrite = @ \ {k}]}
    /\ UNCHANGED <<masterVars, linkVars, writing, storing, drops, faults, raced>>

BugListUnlessKept(s) ==
    /\ s \in resyncs /\ s.toWrite = {} /\ ~s.listed
    /\ resyncs' = (resyncs \ {s}) \cup
          (IF ~KeepLocal THEN {}
           ELSE {[s EXCEPT !.listed = TRUE, !.toDelete = Present(replica) \ Present(s.data)]})
    /\ UNCHANGED <<masterVars, linkVars, replica, writing, storing, drops, faults, raced>>

\* Then it lists the bucket, unless local records are kept.
ListLocal(s) ==
    /\ s \in resyncs /\ s.toWrite = {} /\ ~s.listed
    /\ resyncs' = (resyncs \ {s}) \cup
          (IF KeepLocal THEN {}
           ELSE {[s EXCEPT !.listed = TRUE, !.toDelete = Present(replica) \ Present(s.data)]})
    /\ UNCHANGED <<masterVars, linkVars, replica, writing, storing, drops, faults, raced>>

\* And deletes, one after the other, what it listed and had not written.
DeleteNext(s, k) ==
    /\ s \in resyncs /\ k \in s.toDelete
    /\ replica' = [replica EXCEPT ![k] = Absent]
    /\ resyncs' = (resyncs \ {s}) \cup {[s EXCEPT !.toDelete = @ \ {k}]}
    /\ UNCHANGED <<masterVars, linkVars, writing, storing, drops, faults, raced>>

EndResync(s) ==
    /\ s \in resyncs /\ s.listed /\ s.toDelete = {}
    /\ resyncs' = resyncs \ {s}
    /\ UNCHANGED <<masterVars, linkVars, replica, writing, storing, drops, faults, raced>>

\* A storage call fails: it is logged, and the handler goes on with the next key; but a
\* listing that fails ends the handler, which deletes nothing.
Fault ==
    /\ faults < MaxFaults
    /\ faults' = faults + 1
    /\ \/ \E c \in writing :
             /\ writing' = writing \ {c}
             /\ raced' = raced \cup {c.key}
             /\ UNCHANGED <<storing, resyncs>>
       \/ \E b \in storing :
             /\ storing' = storing \ {b}
             /\ UNCHANGED <<writing, resyncs, raced>>
       \/ \E s \in resyncs : \E k \in s.toWrite :
             /\ resyncs' = (resyncs \ {s}) \cup {[s EXCEPT !.toWrite = @ \ {k}]}
             /\ raced' = raced \cup {k}
             /\ UNCHANGED <<writing, storing>>
       \/ \E s \in resyncs : \E k \in s.toDelete :
             /\ resyncs' = (resyncs \ {s}) \cup {[s EXCEPT !.toDelete = @ \ {k}]}
             /\ raced' = raced \cup {k}
             /\ UNCHANGED <<writing, storing>>
       \/ \E s \in resyncs :
             /\ s.toWrite = {} /\ ~s.listed /\ ~KeepLocal
             /\ resyncs' = resyncs \ {s}
             /\ raced' = raced \cup (Keys \ Present(s.data))
             /\ UNCHANGED <<writing, storing>>
    /\ UNCHANGED <<masterVars, linkVars, replica, drops>>

\* The replica's process dies; its start comes back to an empty set of handlers.
Crash ==
    /\ drops < MaxDrops
    /\ drops' = drops + 1
    /\ link' = "down"
    /\ snapshot' = None
    /\ channel' = <<>>
    /\ writing' = {} /\ storing' = {}
    /\ resyncs' = {}
    /\ UNCHANGED <<masterVars, replica, faults, raced>>

-----------------------------------------------------------------------------
\* Everything that was stored on the master has reached the replica's storage.
Quiet ==
    /\ link = "registered"
    /\ snapshot = None /\ channel = <<>>
    /\ writing = {} /\ storing = {} /\ resyncs = {}
    /\ \A k \in Keys : unsent[k] = None

Finished ==
    /\ Quiet /\ version = MaxChanges
    /\ UNCHANGED vars

Deliver ==
    \/ ReceiveChange
    \/ ReceiveBroadcast
    \/ ReceiveBucket

Handle(s) ==
    \/ \E k \in Keys : WriteNext(s, k) \/ DeleteNext(s, k)
    \/ ListLocal(s)
    \/ EndResync(s)

Next ==
    \/ \E k \in Keys, kind \in Kinds : Store(k, kind)
    \/ \E k \in Keys : Publish(k) \/ Broadcast(k)
    \/ Register
    \/ SendBucket
    \/ ListingFails
    \/ Connect
    \/ Drop
    \/ Deliver
    \/ \E c \in writing : ApplyChange(c)
    \/ \E b \in storing : ApplyBroadcast(b)
    \/ \E s \in resyncs : Handle(s)
    \/ Fault
    \/ Crash
    \/ Finished

Spec == Init /\ [][Next]_vars

\* Storage calls return, messages are delivered and the client reconnects after five
\* seconds; clients owe no change and no broadcast, and links no failure.
Fairness ==
    /\ \A k \in Keys : WF_vars(Publish(k))
    /\ WF_vars(Register) /\ WF_vars(SendBucket) /\ WF_vars(Connect)
    /\ WF_vars(Deliver)
    /\ WF_vars(\E c \in writing : ApplyChange(c))
    /\ WF_vars(\E b \in storing : ApplyBroadcast(b))
    /\ WF_vars(\E s \in resyncs : Handle(s))

FairSpec == Spec /\ Fairness

-----------------------------------------------------------------------------
\* When nothing is on its way, the replica holds what the master holds, of every key
\* that was not raced since the last registration: its bucket makes good what was lost,
\* failed or only broadcast before, including local records and keys deleted meanwhile
\* (which KeepLocal keeps).  A registration whose bucket cannot be listed makes nothing
\* good, and neither does one that finds handlers of an earlier connection at work.
Agrees ==
    Quiet => \A k \in Keys \ raced :
                replica[k] = master[k] \/ (KeepLocal /\ master[k] = Absent)

\* The replica of such a key never goes back to an older version.
NoStepBack ==
    [][\A k \in Keys \ raced' :
          {replica[k], replica'[k]} \subseteq Nat => replica[k] <= replica'[k]]_vars

\* Whatever is lost, the replica comes to rest in the end, connected, with nothing on
\* its way.
Settles == []<>Quiet

\* datastore.ts, lines 415 and 430: "resynchronize complete bucket", "delete local keys
\* that were not synced".  Without a failure, the replica ends as the master is.
Converges == Quiet => replica = master
=============================================================================
