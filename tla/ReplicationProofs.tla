-------------------------- MODULE ReplicationProofs --------------------------
(***************************************************************************)
(* The safety properties of Replication, for every set of keys, every kind *)
(* of change and every number of changes, lost connections, crashes and    *)
(* failures, whether local records are kept or not.                        *)
(***************************************************************************)
EXTENDS Replication, SequenceTheorems, TLAPS

Messages(s) == {s[i] : i \in DOMAIN s}
ChangesIn(s) == {m.change : m \in {n \in Messages(s) : n.type = "change"}}
DataIn(s) == {m.data : m \in {n \in Messages(s) : n.type = "data"}}
ForeignIn(s) == {m.broadcast : m \in {n \in Messages(s) : n.type = "broadcast"}}

\* The changes of a key that are on their way to the replica's storage.
InFlight(k) == {c \in ChangesIn(channel) \cup writing : c.key = k}

\* The versions a key has outside of the master.
Seen(k) == ({replica[k]} \cup {d[k] : d \in Underway}) \cap Nat

-----------------------------------------------------------------------------
(* What holds of every key. *)

LinkInv == link # "registered" => snapshot = None /\ channel = <<>>

StoredInv ==
    \A k \in Keys : unsent[k] # None => unsent[k].key = k /\ master[k] = Outcome(unsent[k])

\* Versions grow with every change of the master.
BoundInv ==
    \A k \in Keys :
        /\ master[k] \in Nat => master[k] <= version
        /\ unsent[k] # None => unsent[k].version <= version
        /\ \A c \in InFlight(k) :
              /\ c.version <= version
              /\ unsent[k] # None => c.version < unsent[k].version
              /\ master[k] \in Nat => c.version <= master[k]
        /\ \A v \in Seen(k) :
              /\ v <= version
              /\ unsent[k] # None => v <= unsent[k].version
              /\ master[k] \in Nat => v <= master[k]

\* The changes of a key are delivered in their order.
OrderInv ==
    /\ \A i, j \in DOMAIN channel :
          i < j /\ channel[i].type = "change" /\ channel[j].type = "change"
                /\ channel[i].change.key = channel[j].change.key
             => channel[i].change.version < channel[j].change.version
    /\ \A c \in writing : \A d \in ChangesIn(channel) : c.key = d.key => c.version < d.version

\* What the handler of a bucket still has to do.
ShapeInv ==
    \A s \in resyncs :
        /\ s.toWrite \subseteq Present(s.data) /\ s.toDelete \cap Present(s.data) = {}
        /\ IF s.listed THEN s.toWrite = {} /\ ~KeepLocal ELSE s.toDelete = {}

\* As long as a key is not raced, one bucket at most is on its way or being written.
SingleInv ==
    Keys \ raced # {} =>
        /\ snapshot # None => DataIn(channel) = {} /\ resyncs = {}
        /\ DataIn(channel) # {} => resyncs = {}
        /\ \A i, j \in DOMAIN channel :
              channel[i].type = "data" /\ channel[j].type = "data" => i = j
        /\ \A s, t \in resyncs : s = t

\* What was announced and not stored touches raced keys only.
ForeignInv == \A b \in ForeignIn(channel) \cup storing : b.key \in raced

-----------------------------------------------------------------------------
(* What holds of a key that is not raced. *)

\* No change of the key overtakes another, and none differs from a bucket.
CalmInv(k) ==
    /\ \A c, d \in writing : c.key = k /\ d.key = k => c = d
    /\ \A c \in InFlight(k) : \A d \in Underway : Outcome(c) = d[k]
    /\ link = "registered" /\ unsent[k] = None => \A d \in Underway : master[k] = d[k]

\* The handler of a bucket has written the key, or will.
ResyncInv(k) ==
    \A s \in resyncs :
        /\ k \notin s.toWrite /\ s.data[k] # Absent => replica[k] = s.data[k]
        /\ s.listed => k \in s.toDelete \/ replica[k] = s.data[k]

\* Nothing on its way to the replica is older than what it has.
NewerInv(k) ==
    replica[k] \in Nat =>
        /\ \A c \in InFlight(k) : replica[k] <= c.version
        /\ \A d \in Underway : d[k] \in Nat => replica[k] <= d[k]

\* The newest change on its way is what the master has; without one, the replica has it.
Same(k) == replica[k] = master[k] \/ (KeepLocal /\ master[k] = Absent)

LatestInv(k) ==
    link = "registered" /\ unsent[k] = None =>
        /\ \A c \in InFlight(k) :
              (\A d \in InFlight(k) : d.version <= c.version) => Outcome(c) = master[k]
        /\ Underway = {} /\ InFlight(k) = {} => Same(k)

KeyInv(k) == CalmInv(k) /\ ResyncInv(k) /\ NewerInv(k) /\ LatestInv(k)

IInv ==
    /\ TypeOK /\ LinkInv /\ StoredInv /\ BoundInv /\ OrderInv /\ ShapeInv /\ SingleInv
    /\ ForeignInv
    /\ \A k \in Keys \ raced : KeyInv(k)

-----------------------------------------------------------------------------
(* Messages, and the sets they make. *)

LEMMA MessageKinds ==
    /\ \A m \in Message : \/ m.type = "change" /\ m.change \in Change
                          \/ m.type = "data" /\ m.data \in Contents
                          \/ m.type = "broadcast" /\ m.broadcast \in Foreign
    /\ \A c \in Change : [type |-> "change", change |-> c] \in Message
    /\ \A d \in Contents : [type |-> "data", data |-> d] \in Message
    /\ \A b \in Foreign : [type |-> "broadcast", broadcast |-> b] \in Message
  BY DEF Message

LEMMA SentInAppend ==
    ASSUME NEW s \in Seq(Message), NEW m \in Message
    PROVE  /\ ChangesIn(Append(s, m)) = ChangesIn(s) \cup (IF m.type = "change" THEN {m.change} ELSE {})
           /\ DataIn(Append(s, m)) = DataIn(s) \cup (IF m.type = "data" THEN {m.data} ELSE {})
           /\ ForeignIn(Append(s, m)) =
                 ForeignIn(s) \cup (IF m.type = "broadcast" THEN {m.broadcast} ELSE {})
<1> DEFINE t == Append(s, m)
<1>1. /\ Len(s) \in Nat /\ DOMAIN s = 1 .. Len(s) /\ DOMAIN t = 1 .. (Len(s) + 1)
      /\ \A i \in DOMAIN s : t[i] = s[i]
      /\ t[Len(s) + 1] = m
  OBVIOUS
<1> HIDE DEF t
<1>2. \A i : i \in DOMAIN t <=> i \in DOMAIN s \/ i = Len(s) + 1
  BY <1>1
<1>3. Messages(t) = Messages(s) \cup {m}
  BY <1>1, <1>2 DEF Messages
<1> QED
  BY <1>3 DEF t, ChangesIn, DataIn, ForeignIn

LEMMA SentInTail ==
    ASSUME NEW s \in Seq(Message), s # <<>>
    PROVE  /\ Tail(s) \in Seq(Message) /\ Head(s) \in Message
           /\ \A i \in DOMAIN Tail(s) : i + 1 \in DOMAIN s /\ Tail(s)[i] = s[i + 1]
           /\ 1 \in DOMAIN s /\ s[1] = Head(s)
           /\ ChangesIn(s) = ChangesIn(Tail(s)) \cup
                 (IF Head(s).type = "change" THEN {Head(s).change} ELSE {})
           /\ DataIn(s) = DataIn(Tail(s)) \cup (IF Head(s).type = "data" THEN {Head(s).data} ELSE {})
           /\ ForeignIn(s) = ForeignIn(Tail(s)) \cup
                 (IF Head(s).type = "broadcast" THEN {Head(s).broadcast} ELSE {})
<1> DEFINE t == Tail(s)
<1>1. /\ Len(s) \in Nat \ {0} /\ DOMAIN s = 1 .. Len(s)
      /\ t \in Seq(Message) /\ DOMAIN t = 1 .. (Len(s) - 1)
      /\ \A i \in DOMAIN t : t[i] = s[i + 1]
      /\ Head(s) = s[1] /\ Head(s) \in Message
  OBVIOUS
<1> HIDE DEF t
<1>2. ASSUME NEW i \in DOMAIN s, i # 1 PROVE i - 1 \in DOMAIN t /\ t[i - 1] = s[i]
  <2>1. i - 1 \in DOMAIN t /\ (i - 1) + 1 = i
    BY <1>1, <1>2
  <2> QED
    BY <1>1, <2>1
<1>3. \A i \in DOMAIN t : i + 1 \in DOMAIN s
  BY <1>1
<1>4. 1 \in DOMAIN s
  BY <1>1
<1>5. \A i \in DOMAIN s : i = 1 \/ \E j \in DOMAIN t : t[j] = s[i]
  BY <1>2
<1>6. \A i \in DOMAIN t : \E j \in DOMAIN s : s[j] = t[i]
  BY <1>1, <1>3
<1>7. Messages(s) = Messages(t) \cup {Head(s)}
  <2>1. \A m : m \in Messages(s) <=> \E i \in DOMAIN s : m = s[i]
    BY DEF Messages
  <2>2. \A m : m \in Messages(t) <=> \E i \in DOMAIN t : m = t[i]
    BY DEF Messages
  <2>3. Head(s) = s[1]
    BY <1>1
  <2> HIDE DEF Messages
  <2>4. \A m \in Messages(s) : m \in Messages(t) \cup {Head(s)}
    BY <1>5, <2>1, <2>2, <2>3
  <2>5. \A m \in Messages(t) \cup {Head(s)} : m \in Messages(s)
    BY <1>4, <1>6, <2>1, <2>2, <2>3
  <2> QED
    BY <2>4, <2>5
<1> QED
  BY <1>1, <1>3, <1>4, <1>7 DEF t, ChangesIn, DataIn, ForeignIn

LEMMA UnderwayIs ==
    /\ Underway = ({snapshot} \ {None}) \cup DataIn(channel) \cup {s.data : s \in resyncs}
    /\ Underway' = ({snapshot'} \ {None}) \cup DataIn(channel') \cup {s.data : s \in resyncs'}
  BY DEF Underway, DataIn, Messages

LEMMA SentTypes ==
    ASSUME TypeOK
    PROVE  /\ ChangesIn(channel) \subseteq Change /\ DataIn(channel) \subseteq Contents
           /\ Underway \subseteq Contents
           /\ \A k : InFlight(k) \subseteq Change
<1>1. \A i \in DOMAIN channel : channel[i] \in Message
  BY ElementOfSeq DEF TypeOK
<1>2. ChangesIn(channel) \subseteq Change /\ DataIn(channel) \subseteq Contents
  BY <1>1, MessageKinds DEF ChangesIn, DataIn, Messages
<1>3. Underway \subseteq Contents
  BY <1>2, UnderwayIs DEF TypeOK, Resync
<1>4. \A k : InFlight(k) \subseteq Change
  BY <1>2 DEF InFlight, TypeOK
<1> QED
  BY <1>2, <1>3, <1>4

LEMMA OutcomeType ==
    ASSUME NEW c \in Change
    PROVE  /\ Outcome(c) \in Versions \cup {Absent}
           /\ Outcome(c) \in Nat => Outcome(c) = c.version
           /\ c.version \in Nat /\ c.version <= MaxChanges
  BY NamesAssumption, BoundsAssumption DEF Change, Outcome, Versions

\* A handler that has one key less to do.
LEMMA ResyncType ==
    ASSUME NEW s \in Resync, NEW K
    PROVE  /\ [s EXCEPT !.toWrite = @ \ K] \in Resync
           /\ [s EXCEPT !.toDelete = @ \ K] \in Resync
           /\ [s EXCEPT !.listed = TRUE, !.toDelete = Present(replica) \ K] \in Resync
  BY DEF Resync, Present

-----------------------------------------------------------------------------
LEMMA TypeStep ==
    ASSUME TypeOK, Next
    PROVE  TypeOK'
<1> USE BoundsAssumption DEF masterVars, linkVars, replicaVars
<1>1. ASSUME NEW k \in Keys, NEW kind \in Kinds, Store(k, kind) PROVE TypeOK'
  <2> DEFINE c == [key |-> k, version |-> version', kind |-> kind]
  <2>1. version' \in Versions /\ version' = version + 1
    BY <1>1 DEF Store, TypeOK, Versions
  <2>2. c \in Change
    BY <2>1, KindsAssumption DEF Change
  <2>3. /\ master' = [master EXCEPT ![k] = Outcome(c)]
        /\ unsent' = [unsent EXCEPT ![k] = c]
    BY <1>1 DEF Store
  <2> HIDE DEF c
  <2>4. master' \in Contents /\ unsent' \in [Keys -> Change \cup {None}]
    BY <2>2, <2>3, OutcomeType DEF TypeOK, Contents
  <2> QED
    BY <1>1, <2>1, <2>4 DEF Store, TypeOK
<1>2. ASSUME NEW k \in Keys, Publish(k) PROVE TypeOK'
  <2>1. unsent' \in [Keys -> Change \cup {None}] /\ unsent[k] \in Change
    BY <1>2 DEF Publish, TypeOK
  <2>2. channel' \in Seq(Message)
    <3> DEFINE m == [type |-> "change", change |-> unsent[k]]
    <3>1. m \in Message
      BY <2>1, MessageKinds
    <3>2. channel' \in {channel, Append(channel, m)}
      BY <1>2 DEF Publish
    <3> HIDE DEF m
    <3>3. channel \in Seq(Message)
      BY DEF TypeOK
    <3>4. Append(channel, m) \in Seq(Message)
      BY <3>1, <3>3, AppendProperties
    <3> QED
      BY <3>2, <3>3, <3>4
  <2>3. raced' \subseteq Keys
    BY <1>2 DEF Publish, TypeOK
  <2> QED
    BY <1>2, <2>1, <2>2, <2>3 DEF Publish, TypeOK
<1>3. CASE Register
  BY <1>3 DEF Register, TypeOK
<1>4. CASE SendBucket
  <2>1. snapshot \in Contents /\ channel' \in Seq(Message)
    BY <1>4, MessageKinds DEF SendBucket, TypeOK
  <2> QED
    BY <1>4, <2>1 DEF SendBucket, TypeOK
<1>5. CASE Connect
  BY <1>5 DEF Connect, TypeOK
<1>6. CASE Drop
  <2>1. drops' \in 0 .. MaxDrops
    BY <1>6 DEF Drop, TypeOK
  <2> QED
    BY <1>6, <2>1 DEF Drop, TypeOK
<1>7. CASE ReceiveChange
  <2>1. channel' \in Seq(Message) /\ Head(channel).change \in Change
    BY <1>7, SentInTail, MessageKinds DEF ReceiveChange, TypeOK
  <2>2. writing' \subseteq Change /\ raced' \subseteq Keys
    BY <1>7, <2>1 DEF ReceiveChange, TypeOK, Change
  <2> QED
    BY <1>7, <2>1, <2>2 DEF ReceiveChange, TypeOK
<1>8. CASE ReceiveBucket
  <2>1. channel' \in Seq(Message) /\ Head(channel).data \in Contents
    BY <1>8, SentInTail, MessageKinds DEF ReceiveBucket, TypeOK
  <2>2. resyncs' \subseteq Resync
    <3> DEFINE s == [link |-> drops, data |-> Head(channel).data,
                     toWrite |-> Present(Head(channel).data), listed |-> FALSE, toDelete |-> {}]
    <3>1. s \in Resync
      BY <2>1 DEF Resync, Present, TypeOK
    <3>2. resyncs' = resyncs \cup {s}
      BY <1>8 DEF ReceiveBucket
    <3> QED
      BY <3>1, <3>2 DEF TypeOK
  <2> QED
    BY <1>8, <2>1, <2>2 DEF ReceiveBucket, TypeOK
<1>9. ASSUME NEW c \in writing, ApplyChange(c) PROVE TypeOK'
  <2>1. c \in Change /\ Outcome(c) \in Versions \cup {Absent}
    BY OutcomeType DEF TypeOK
  <2>2. replica' \in [Keys -> Versions \cup {Absent, Local}]
    BY <1>9, <2>1 DEF ApplyChange, TypeOK
  <2> QED
    BY <1>9, <2>2 DEF ApplyChange, TypeOK
<1>10. ASSUME NEW s \in resyncs, NEW k \in Keys, WriteNext(s, k) PROVE TypeOK'
  <2>1. s \in Resync /\ s.data[k] \in Versions \cup {Absent}
    BY DEF TypeOK, Resync, Contents
  <2>2. replica' \in [Keys -> Versions \cup {Absent, Local}]
    BY <1>10, <2>1 DEF WriteNext, TypeOK
  <2>3. resyncs' \subseteq Resync
    BY <1>10, <2>1, ResyncType DEF WriteNext, TypeOK
  <2> QED
    BY <1>10, <2>2, <2>3 DEF WriteNext, TypeOK
<1>11. ASSUME NEW s \in resyncs, NEW k \in Keys, DeleteNext(s, k) PROVE TypeOK'
  <2>1. replica' \in [Keys -> Versions \cup {Absent, Local}]
    BY <1>11 DEF DeleteNext, TypeOK
  <2>2. resyncs' \subseteq Resync
    <3>1. s \in Resync
      BY DEF TypeOK
    <3>2. [s EXCEPT !.toDelete = @ \ {k}] \in Resync
      BY <3>1, ResyncType
    <3> QED
      BY <1>11, <3>2 DEF DeleteNext, TypeOK
  <2> QED
    BY <1>11, <2>1, <2>2 DEF DeleteNext, TypeOK
<1>12. ASSUME NEW s \in resyncs, ListLocal(s) PROVE TypeOK'
  <2>1. resyncs' \subseteq Resync
    <3>1. s \in Resync
      BY DEF TypeOK
    <3>2. [s EXCEPT !.listed = TRUE, !.toDelete = Present(replica) \ Present(s.data)] \in Resync
      BY <3>1, ResyncType
    <3> QED
      BY <1>12, <3>2 DEF ListLocal, TypeOK
  <2> QED
    BY <1>12, <2>1 DEF ListLocal, TypeOK
<1>13. ASSUME NEW s \in resyncs, EndResync(s) PROVE TypeOK'
  BY <1>13 DEF EndResync, TypeOK
<1>14. CASE Fault
  <2>1. faults' \in 0 .. MaxFaults
    BY <1>14 DEF Fault, TypeOK
  <2>2. writing' \subseteq Change /\ resyncs' \subseteq Resync /\ raced' \subseteq Keys
    <3>1. ASSUME NEW c \in writing, writing' = writing \ {c}, raced' = raced \cup {c.key}, UNCHANGED resyncs
          PROVE  writing' \subseteq Change /\ resyncs' \subseteq Resync /\ raced' \subseteq Keys
      BY <3>1 DEF TypeOK, Change
    <3>3. ASSUME UNCHANGED writing, resyncs' \subseteq resyncs, raced' \subseteq raced \cup Keys
          PROVE  writing' \subseteq Change /\ resyncs' \subseteq Resync /\ raced' \subseteq Keys
      BY <3>3 DEF TypeOK
    <3>2. ASSUME NEW s \in resyncs, NEW k \in s.toWrite \cup s.toDelete, raced' = raced \cup {k}, UNCHANGED writing,
                 \/ resyncs' = (resyncs \ {s}) \cup {[s EXCEPT !.toWrite = @ \ {k}]}
                 \/ resyncs' = (resyncs \ {s}) \cup {[s EXCEPT !.toDelete = @ \ {k}]}
          PROVE  writing' \subseteq Change /\ resyncs' \subseteq Resync /\ raced' \subseteq Keys
      <4>1. s \in Resync /\ k \in Keys
        BY DEF TypeOK, Resync
      <4> QED
        BY <3>2, <4>1, ResyncType DEF TypeOK
    <3> QED
      BY <1>14, <3>1, <3>2, <3>3 DEF Fault
  <2>3. storing' \subseteq Foreign
    BY <1>14 DEF Fault, TypeOK
  <2> QED
    BY <1>14, <2>1, <2>2, <2>3 DEF Fault, TypeOK
<1>15. CASE Crash
  <2>1. drops' \in 0 .. MaxDrops
    BY <1>15 DEF Crash, TypeOK
  <2> QED
    BY <1>15, <2>1 DEF Crash, TypeOK
<1>16. CASE Finished
  BY <1>16 DEF Finished, vars, TypeOK
<1>17. ASSUME NEW k \in Keys, Broadcast(k) PROVE TypeOK'
  <2> DEFINE b == [key |-> k, number |-> broadcasts']
  <2>1. broadcasts' \in 0 .. MaxBroadcasts /\ b \in Foreign
    BY <1>17 DEF Broadcast, TypeOK, Foreign
  <2>2. channel' = Append(channel, [type |-> "broadcast", broadcast |-> b])
    BY <1>17 DEF Broadcast
  <2> HIDE DEF b
  <2>3. channel' \in Seq(Message)
    BY <2>1, <2>2, MessageKinds DEF TypeOK
  <2> QED
    BY <1>17, <2>1, <2>3 DEF Broadcast, TypeOK
<1>18. CASE ListingFails
  <2>1. faults' \in 0 .. MaxFaults
    BY <1>18 DEF ListingFails, TypeOK
  <2> QED
    BY <1>18, <2>1 DEF ListingFails, TypeOK
<1>19. CASE ReceiveBroadcast
  <2>1. channel' \in Seq(Message) /\ Head(channel).broadcast \in Foreign
    BY <1>19, SentInTail, MessageKinds DEF ReceiveBroadcast, TypeOK
  <2> QED
    BY <1>19, <2>1 DEF ReceiveBroadcast, TypeOK
<1>20. ASSUME NEW b \in storing, ApplyBroadcast(b) PROVE TypeOK'
  <2>1. replica' \in [Keys -> Versions \cup {Absent, Local}]
    BY <1>20 DEF ApplyBroadcast, TypeOK
  <2> QED
    BY <1>20, <2>1 DEF ApplyBroadcast, TypeOK
<1> QED
  BY <1>1, <1>2, <1>3, <1>4, <1>5, <1>6, <1>7, <1>8, <1>9, <1>10, <1>11, <1>12, <1>13, <1>14,
     <1>15, <1>16, <1>17, <1>18, <1>19, <1>20 DEF Next, Deliver, Handle

-----------------------------------------------------------------------------
(* The steps, told apart by what they do to the handlers and to what is on its way. *)

\* The connection is lost, and with it what is on its way, and maybe the handlers.
Lost ==
    /\ link' = "down" /\ snapshot' = None /\ channel' = <<>>
    /\ writing' \subseteq writing /\ storing' \subseteq storing /\ resyncs' \subseteq resyncs
    /\ UNCHANGED <<master, unsent, version, replica, raced>>

\* The handler s of a bucket goes on as t.
Handled(s, t) ==
    /\ s \in resyncs /\ t.data = s.data
    /\ resyncs' = (resyncs \ {s}) \cup {t}
    /\ UNCHANGED <<master, unsent, version, link, snapshot, channel, writing, storing>>

Wrote(s, t, k) ==
    /\ Handled(s, t) /\ raced' = raced
    /\ k \in s.toWrite /\ t.toWrite = s.toWrite \ {k}
    /\ t.listed = s.listed /\ t.toDelete = s.toDelete
    /\ replica' = [replica EXCEPT ![k] = s.data[k]]

Deleted(s, t, k) ==
    /\ Handled(s, t) /\ raced' = raced
    /\ k \in s.toDelete /\ t.toDelete = s.toDelete \ {k}
    /\ t.listed = s.listed /\ t.toWrite = s.toWrite
    /\ replica' = [replica EXCEPT ![k] = Absent]

ListedAs(s, t) ==
    /\ Handled(s, t) /\ raced' = raced /\ replica' = replica
    /\ s.toWrite = {} /\ ~s.listed /\ ~KeepLocal
    /\ t.listed /\ t.toWrite = {} /\ t.toDelete = Present(replica) \ Present(s.data)

Skipped(s, t, k) ==
    /\ Handled(s, t) /\ raced' = raced \cup {k} /\ replica' = replica /\ t.listed = s.listed
    /\ \/ k \in s.toWrite /\ t.toWrite = s.toWrite \ {k} /\ t.toDelete = s.toDelete
       \/ k \in s.toDelete /\ t.toDelete = s.toDelete \ {k} /\ t.toWrite = s.toWrite

\* The handler s of a bucket is over, maybe because it could not list what to delete.
Ended(s) ==
    /\ s \in resyncs /\ s.toWrite = {} /\ s.toDelete = {}
    /\ raced \subseteq raced'
    /\ s.listed \/ KeepLocal \/ Keys \ Present(s.data) \subseteq raced'
    /\ resyncs' = resyncs \ {s}
    /\ UNCHANGED <<master, unsent, version, link, snapshot, channel, writing, storing, replica>>

\* The storage call of a change fails.
FailedChange(c) ==
    /\ c \in writing /\ writing' = writing \ {c} /\ raced' = raced \cup {c.key}
    /\ UNCHANGED <<master, unsent, version, link, snapshot, channel, replica, storing, resyncs>>

\* A handler of a broadcast value fails, or nothing happens.
Idle ==
    /\ storing' \subseteq storing
    /\ UNCHANGED <<master, unsent, version, link, snapshot, channel, replica, writing, resyncs, raced>>

LEMMA Steps ==
    ASSUME TypeOK, ShapeInv, Next
    PROVE  \/ \E k \in Keys, kind \in Kinds : Store(k, kind)
           \/ \E k \in Keys : Publish(k)
           \/ \E k \in Keys : Broadcast(k)
           \/ Register
           \/ SendBucket
           \/ ListingFails
           \/ Connect
           \/ Lost
           \/ ReceiveChange
           \/ ReceiveBroadcast
           \/ ReceiveBucket
           \/ \E b \in storing : ApplyBroadcast(b)
           \/ \E c \in writing : ApplyChange(c)
           \/ \E s \in resyncs : \E t, k : Wrote(s, t, k)
           \/ \E s \in resyncs : \E t, k : Deleted(s, t, k)
           \/ \E s \in resyncs : \E t : ListedAs(s, t)
           \/ \E s \in resyncs : \E t, k : Skipped(s, t, k)
           \/ \E s \in resyncs : Ended(s)
           \/ \E c \in writing : FailedChange(c)
           \/ Idle
<1> USE DEF masterVars, linkVars, replicaVars
<1>1. \A s \in resyncs : s \in Resync
  BY DEF TypeOK
<1>2. ASSUME NEW s \in Resync, NEW K
      PROVE  LET t == [s EXCEPT !.toWrite = @ \ K]
                 u == [s EXCEPT !.toDelete = @ \ K]
             IN  /\ t.data = s.data /\ t.toWrite = s.toWrite \ K /\ t.listed = s.listed
                 /\ t.toDelete = s.toDelete
                 /\ u.data = s.data /\ u.toDelete = s.toDelete \ K /\ u.listed = s.listed
                 /\ u.toWrite = s.toWrite
  BY DEF Resync
<1>3. CASE Drop \/ Crash
  BY <1>3 DEF Drop, Crash, Lost
<1>4. ASSUME NEW s \in resyncs, NEW k \in Keys, WriteNext(s, k) PROVE \E t : Wrote(s, t, k)
  <2> DEFINE t == [s EXCEPT !.toWrite = @ \ {k}]
  <2>1. /\ t.data = s.data /\ t.toWrite = s.toWrite \ {k} /\ t.listed = s.listed
        /\ t.toDelete = s.toDelete
    BY <1>1, <1>2
  <2>2. resyncs' = (resyncs \ {s}) \cup {t}
    BY <1>4 DEF WriteNext
  <2> HIDE DEF t
  <2> QED
    BY <1>4, <2>1, <2>2 DEF WriteNext, Wrote, Handled
<1>5. ASSUME NEW s \in resyncs, NEW k \in Keys, DeleteNext(s, k) PROVE \E t : Deleted(s, t, k)
  <2> DEFINE t == [s EXCEPT !.toDelete = @ \ {k}]
  <2>1. /\ t.data = s.data /\ t.toDelete = s.toDelete \ {k} /\ t.listed = s.listed
        /\ t.toWrite = s.toWrite
    BY <1>1, <1>2
  <2>2. resyncs' = (resyncs \ {s}) \cup {t}
    BY <1>5 DEF DeleteNext
  <2> HIDE DEF t
  <2> QED
    BY <1>5, <2>1, <2>2 DEF DeleteNext, Deleted, Handled
<1>6. ASSUME NEW s \in resyncs, ListLocal(s) PROVE Ended(s) \/ \E t : ListedAs(s, t)
  <2> DEFINE t == [s EXCEPT !.listed = TRUE, !.toDelete = Present(replica) \ Present(s.data)]
  <2>1. /\ t.data = s.data /\ t.toDelete = Present(replica) \ Present(s.data) /\ t.listed
        /\ t.toWrite = s.toWrite
    BY <1>1 DEF Resync
  <2>2. resyncs' = (resyncs \ {s}) \cup (IF KeepLocal THEN {} ELSE {t})
    BY <1>6 DEF ListLocal
  <2> HIDE DEF t
  <2>3. CASE KeepLocal
    BY <1>6, <2>2, <2>3 DEF ListLocal, Ended, ShapeInv
  <2>4. CASE ~KeepLocal
    BY <1>6, <2>1, <2>2, <2>4 DEF ListLocal, ListedAs, Handled
  <2> QED
    BY <2>3, <2>4
<1>7. ASSUME NEW s \in resyncs, EndResync(s) PROVE Ended(s)
  BY <1>7 DEF EndResync, Ended, ShapeInv
<1>8. CASE Fault
  <2>1. ASSUME NEW s \in resyncs, NEW k \in s.toWrite,
               resyncs' = (resyncs \ {s}) \cup {[s EXCEPT !.toWrite = @ \ {k}]},
               raced' = raced \cup {k}, UNCHANGED writing
        PROVE  \E t : Skipped(s, t, k)
    <3> DEFINE t == [s EXCEPT !.toWrite = @ \ {k}]
    <3>1. /\ t.data = s.data /\ t.toWrite = s.toWrite \ {k} /\ t.listed = s.listed
          /\ t.toDelete = s.toDelete
      BY <1>1, <1>2
    <3> HIDE DEF t
    <3> QED
      BY <1>8, <2>1, <3>1 DEF t, Fault, Skipped, Handled
  <2>2. ASSUME NEW s \in resyncs, NEW k \in s.toDelete,
               resyncs' = (resyncs \ {s}) \cup {[s EXCEPT !.toDelete = @ \ {k}]},
               raced' = raced \cup {k}, UNCHANGED writing
        PROVE  \E t : Skipped(s, t, k)
    <3> DEFINE t == [s EXCEPT !.toDelete = @ \ {k}]
    <3>1. /\ t.data = s.data /\ t.toDelete = s.toDelete \ {k} /\ t.listed = s.listed
          /\ t.toWrite = s.toWrite
      BY <1>1, <1>2
    <3> HIDE DEF t
    <3> QED
      BY <1>8, <2>2, <3>1 DEF t, Fault, Skipped, Handled
  <2>3. ASSUME NEW c \in writing, writing' = writing \ {c}, raced' = raced \cup {c.key}, UNCHANGED resyncs
        PROVE  FailedChange(c)
    BY <1>8, <2>3 DEF Fault, FailedChange
  <2>4. ASSUME NEW b \in storing, storing' = storing \ {b}, UNCHANGED <<writing, resyncs, raced>>
        PROVE  Idle
    BY <1>8, <2>4 DEF Fault, Idle
  <2>5. ASSUME NEW s \in resyncs, s.toWrite = {}, ~s.listed, resyncs' = resyncs \ {s},
               raced' = raced \cup (Keys \ Present(s.data)), UNCHANGED <<writing, storing>>
        PROVE  Ended(s)
    BY <1>8, <2>5 DEF Fault, Ended, ShapeInv
  <2> QED
    BY <1>8, <2>1, <2>2, <2>3, <2>4, <2>5 DEF Fault
<1>9. CASE Finished
  BY <1>9 DEF Finished, vars, Idle
<1> QED
  BY <1>3, <1>4, <1>5, <1>6, <1>7, <1>8, <1>9 DEF Next, Deliver, Handle

-----------------------------------------------------------------------------
(* What the steps do to what is on its way. *)

LEMMA SameOnItsWay ==
    ASSUME ChangesIn(channel') \cup writing' = ChangesIn(channel) \cup writing
    PROVE  \A k : InFlight(k)' = InFlight(k)
  BY DEF InFlight

LEMMA HandledEffect ==
    ASSUME NEW s, NEW t, Handled(s, t)
    PROVE  Underway' = Underway /\ \A k : InFlight(k)' = InFlight(k)
<1>1. {r.data : r \in resyncs'} = {r.data : r \in resyncs}
  BY DEF Handled
<1>2. Underway' = Underway
  BY <1>1, UnderwayIs DEF Handled
<1> QED
  BY <1>2, SameOnItsWay DEF Handled

LEMMA EndedEffect ==
    ASSUME NEW s, Ended(s)
    PROVE  /\ Underway' \subseteq Underway /\ s.data \in Underway
           /\ \A k : InFlight(k)' = InFlight(k)
<1>1. Underway' \subseteq Underway /\ s.data \in Underway
  BY UnderwayIs DEF Ended
<1> QED
  BY <1>1, SameOnItsWay DEF Ended

LEMMA LostEffect ==
    ASSUME Lost
    PROVE  /\ Underway' \subseteq Underway
           /\ ChangesIn(channel') = {} /\ DataIn(channel') = {}
           /\ \A k : InFlight(k)' \subseteq InFlight(k)
<1>1. ChangesIn(<<>>) = {} /\ DataIn(<<>>) = {}
  BY DEF ChangesIn, DataIn, Messages
<1>2. Underway' \subseteq Underway
  BY <1>1, UnderwayIs DEF Lost
<1> QED
  BY <1>1, <1>2 DEF Lost, InFlight

\* Neither a change nor a bucket comes on its way or leaves it.
LEMMA BroadcastEffect ==
    ASSUME TypeOK, NEW k \in Keys, Broadcast(k)
    PROVE  /\ \E m \in Message : /\ m.type = "broadcast" /\ m.broadcast.key = k
                                /\ channel' = Append(channel, m)
           /\ raced' = raced \cup {k}
           /\ UNCHANGED <<master, unsent, version, link, snapshot, replica, writing, storing, resyncs>>
           /\ ChangesIn(channel') = ChangesIn(channel) /\ DataIn(channel') = DataIn(channel)
           /\ Underway' = Underway
           /\ \A q : InFlight(q)' = InFlight(q)
<1> DEFINE b == [key |-> k, number |-> broadcasts']
           m == [type |-> "broadcast", broadcast |-> b]
<1>1. b \in Foreign /\ m.type = "broadcast" /\ m.broadcast = b /\ b.key = k
  BY BoundsAssumption DEF Broadcast, TypeOK, Foreign
<1>2. /\ m \in Message /\ channel' = Append(channel, m) /\ raced' = raced \cup {k}
      /\ UNCHANGED <<master, unsent, version, link, snapshot, replica, writing, storing, resyncs>>
  BY <1>1, MessageKinds DEF Broadcast, replicaVars
<1> HIDE DEF m, b
<1>3. ChangesIn(channel') = ChangesIn(channel) /\ DataIn(channel') = DataIn(channel)
  BY <1>1, <1>2, SentInAppend DEF TypeOK
<1>4. Underway' = Underway
  BY <1>2, <1>3, UnderwayIs
<1>5. \A q : InFlight(q)' = InFlight(q)
  BY <1>2, <1>3, SameOnItsWay
<1> QED
  BY <1>1, <1>2, <1>3, <1>4, <1>5

LEMMA ReceiveBroadcastEffect ==
    ASSUME TypeOK, ReceiveBroadcast
    PROVE  /\ channel # <<>> /\ channel' = Tail(channel) /\ Head(channel).type = "broadcast"
           /\ storing' = storing \cup {Head(channel).broadcast}
           /\ UNCHANGED <<master, unsent, version, link, snapshot, replica, writing, resyncs, raced>>
           /\ ChangesIn(channel') = ChangesIn(channel) /\ DataIn(channel') = DataIn(channel)
           /\ Underway' = Underway
           /\ \A q : InFlight(q)' = InFlight(q)
<1>1. /\ channel # <<>> /\ channel' = Tail(channel) /\ Head(channel).type = "broadcast"
      /\ storing' = storing \cup {Head(channel).broadcast}
      /\ UNCHANGED <<master, unsent, version, link, snapshot, replica, writing, resyncs, raced>>
  BY DEF ReceiveBroadcast, masterVars
<1>2. ChangesIn(channel') = ChangesIn(channel) /\ DataIn(channel') = DataIn(channel)
  <2>1. /\ ChangesIn(channel) = ChangesIn(Tail(channel)) \cup
              (IF Head(channel).type = "change" THEN {Head(channel).change} ELSE {})
        /\ DataIn(channel) = DataIn(Tail(channel)) \cup
              (IF Head(channel).type = "data" THEN {Head(channel).data} ELSE {})
    BY <1>1, SentInTail DEF TypeOK
  <2> QED
    BY <1>1, <2>1
<1>3. Underway' = Underway
  BY <1>1, <1>2, UnderwayIs
<1>4. \A q : InFlight(q)' = InFlight(q)
  BY <1>1, <1>2, SameOnItsWay
<1> QED
  BY <1>1, <1>2, <1>3, <1>4

\* What goes on beside the changes and the buckets.
LEMMA BesideEffect ==
    ASSUME UNCHANGED <<channel, writing, resyncs>>
    PROVE  /\ snapshot' = snapshot => Underway' = Underway
           /\ snapshot' = None => Underway' \subseteq Underway
           /\ \A k : InFlight(k)' = InFlight(k)
<1>1. /\ snapshot' = snapshot => Underway' = Underway
      /\ snapshot' = None => Underway' \subseteq Underway
  BY UnderwayIs
<1> QED
  BY <1>1, SameOnItsWay

LEMMA SendBucketEffect ==
    ASSUME TypeOK, SendBucket
    PROVE  /\ snapshot \in Contents /\ [type |-> "data", data |-> snapshot] \in Message
           /\ ChangesIn(channel') = ChangesIn(channel)
           /\ DataIn(channel') = DataIn(channel) \cup {snapshot}
           /\ Underway' = Underway
           /\ \A k : InFlight(k)' = InFlight(k)
<1> DEFINE m == [type |-> "data", data |-> snapshot]
<1>1. snapshot \in Contents /\ m \in Message /\ m.type = "data" /\ m.data = snapshot
  BY MessageKinds DEF SendBucket, TypeOK
<1>2. channel' = Append(channel, m)
  BY DEF SendBucket
<1> HIDE DEF m
<1>3. /\ ChangesIn(channel') = ChangesIn(channel)
      /\ DataIn(channel') = DataIn(channel) \cup {snapshot}
  BY <1>1, <1>2, SentInAppend DEF TypeOK
<1>4. resyncs' = resyncs /\ writing' = writing /\ snapshot # None /\ snapshot' = None
  BY DEF SendBucket, replicaVars
<1>5. Underway' = Underway
  BY <1>3, <1>4, UnderwayIs
<1> QED
  BY <1>1, <1>3, <1>4, <1>5, SameOnItsWay DEF m

\* What is published is the newest change of its key, of which it is the only one.
LEMMA PublishEffect ==
    ASSUME TypeOK, StoredInv, NEW k \in Keys, Publish(k)
    PROVE  /\ unsent[k] \in Change /\ unsent[k].key = k
           /\ unsent'[k] = None /\ \A q \in Keys \ {k} : unsent'[q] = unsent[q]
           /\ Underway' = Underway
           /\ UNCHANGED <<master, version, link, snapshot, replica, writing, resyncs>>
           /\ \/ link # "registered" /\ UNCHANGED <<channel, raced>>
              \/ /\ link = "registered"
                 /\ [type |-> "change", change |-> unsent[k]] \in Message
                 /\ channel' = Append(channel, [type |-> "change", change |-> unsent[k]])
                 /\ DataIn(channel') = DataIn(channel)
                 /\ ChangesIn(channel') = ChangesIn(channel) \cup {unsent[k]}
                 /\ raced \subseteq raced'
                 /\ k \notin raced' => \A d \in Underway : d[k] = Outcome(unsent[k])
           /\ \A q : InFlight(q) \subseteq InFlight(q)'
           /\ \A q : InFlight(q)' \subseteq InFlight(q) \cup {c \in {unsent[k]} : q = k}
<1> DEFINE m == [type |-> "change", change |-> unsent[k]]
<1>1. /\ unsent[k] \in Change /\ unsent[k].key = k
      /\ unsent'[k] = None /\ \A q \in Keys \ {k} : unsent'[q] = unsent[q]
  BY DEF Publish, TypeOK, StoredInv
<1>2. UNCHANGED <<master, version, link, snapshot, replica, writing, resyncs>>
  BY DEF Publish, replicaVars
<1>3. CASE link # "registered"
  <2>1. UNCHANGED <<channel, raced>>
    BY <1>3 DEF Publish
  <2>2. Underway' = Underway
    BY <1>2, <2>1, UnderwayIs
  <2>3. \A q : InFlight(q)' = InFlight(q)
    BY <1>2, <2>1, SameOnItsWay
  <2> QED
    BY <1>1, <1>2, <1>3, <2>1, <2>2, <2>3
<1>4. CASE link = "registered"
  <2>1. m \in Message /\ m.type = "change" /\ m.change = unsent[k]
    BY <1>1, MessageKinds
  <2>2. channel' = Append(channel, m)
    BY <1>4 DEF Publish
  <2> HIDE DEF m
  <2>3. DataIn(channel') = DataIn(channel) /\ ChangesIn(channel') = ChangesIn(channel) \cup {unsent[k]}
    BY <2>1, <2>2, SentInAppend DEF TypeOK
  <2>4. Underway' = Underway
    BY <1>2, <2>3, UnderwayIs
  <2>5. /\ raced \subseteq raced'
        /\ k \notin raced' => \A d \in Underway : d[k] = Outcome(unsent[k])
    BY <1>4 DEF Publish
  <2>6. \A q : /\ InFlight(q) \subseteq InFlight(q)'
               /\ InFlight(q)' \subseteq InFlight(q) \cup {c \in {unsent[k]} : q = k}
    BY <1>1, <1>2, <2>3 DEF InFlight
  <2> QED
    BY <1>1, <1>2, <1>4, <2>1, <2>2, <2>3, <2>4, <2>5, <2>6 DEF m
<1> QED
  BY <1>3, <1>4

LEMMA RegisterEffect ==
    ASSUME TypeOK, LinkInv, Register
    PROVE  /\ snapshot' = master /\ channel' = <<>> /\ link' = "registered"
           /\ DataIn(channel) = {} /\ ChangesIn(channel) = {} /\ channel = <<>>
           /\ Underway' = Underway \cup {master}
           /\ \A k : InFlight(k)' = InFlight(k)
           /\ UNCHANGED <<master, unsent, version, replica, writing, resyncs>>
           /\ raced' # Keys => writing = {} /\ resyncs = {} /\ Underway = {}
                                /\ \A k : InFlight(k) = {}
<1>1. ChangesIn(<<>>) = {} /\ DataIn(<<>>) = {}
  BY DEF ChangesIn, DataIn, Messages
<1>2. /\ snapshot' = master /\ channel' = <<>> /\ link' = "registered"
      /\ channel = <<>> /\ snapshot = None
      /\ UNCHANGED <<master, unsent, version, replica, writing, resyncs>>
      /\ raced' # Keys => writing = {} /\ resyncs = {}
  BY DEF Register, LinkInv, masterVars, replicaVars
<1>3. master # None
  BY NoneAssumption DEF TypeOK
<1>4. Underway' = Underway \cup {master}
  BY <1>1, <1>2, <1>3, UnderwayIs
<1>5. \A k : InFlight(k)' = InFlight(k)
  BY <1>2, SameOnItsWay
<1>6. writing = {} /\ resyncs = {} => Underway = {} /\ \A k : InFlight(k) = {}
  BY <1>1, <1>2, UnderwayIs DEF InFlight
<1> QED
  BY <1>1, <1>2, <1>4, <1>5, <1>6

LEMMA ReceiveChangeEffect ==
    ASSUME TypeOK, ReceiveChange
    PROVE  /\ channel # <<>> /\ channel' = Tail(channel)
           /\ DataIn(channel') = DataIn(channel)
           /\ ChangesIn(channel) = ChangesIn(channel') \cup {Head(channel).change}
           /\ Head(channel).change \in Change /\ Head(channel).type = "change"
           /\ writing \subseteq writing' /\ writing' \subseteq writing \cup {Head(channel).change}
           /\ raced \subseteq raced'
           /\ UNCHANGED <<master, unsent, version, link, snapshot, replica, resyncs>>
           /\ Underway' = Underway
           /\ \A k : InFlight(k)' \subseteq InFlight(k)
           /\ \A k \in Keys \ raced' : InFlight(k)' = InFlight(k)
           /\ \A k \in Keys \ raced' : \A c, d \in writing' :
                 c.key = k /\ d.key = k => c = d \/ (c \in writing /\ d \in writing)
<1> DEFINE h == Head(channel).change
<1>1. /\ channel # <<>> /\ channel' = Tail(channel) /\ Head(channel).type = "change"
      /\ UNCHANGED <<master, unsent, version, link, snapshot, replica, resyncs>>
  BY DEF ReceiveChange, masterVars
<1>2. /\ DataIn(channel') = DataIn(channel) /\ ChangesIn(channel) = ChangesIn(channel') \cup {h}
      /\ h \in Change
  BY <1>1, SentInTail, MessageKinds DEF TypeOK
<1>3. /\ raced \subseteq raced'
      /\ \/ /\ writing' = writing \cup {h}
            /\ h.key \in raced' \/ \A d \in writing : d.key # h.key
         \/ writing' = writing /\ h.key \in raced'
  BY DEF ReceiveChange
<1> HIDE DEF h
<1>4. Underway' = Underway
  BY <1>1, <1>2, UnderwayIs
<1>5. \A k : InFlight(k)' \subseteq InFlight(k)
  BY <1>2, <1>3 DEF InFlight
<1>6. \A k \in Keys \ raced' : InFlight(k)' = InFlight(k)
  BY <1>2, <1>3 DEF InFlight
<1>7. ASSUME NEW k \in Keys \ raced', NEW c \in writing', NEW d \in writing', c.key = k, d.key = k
      PROVE  c = d \/ (c \in writing /\ d \in writing)
  <2>1. CASE writing' = writing
    BY <2>1
  <2>2. CASE h.key = k /\ writing' = writing \cup {h}
    <3>1. \A e \in writing : e.key # k
      BY <1>3, <2>2
    <3> QED
      BY <1>7, <2>2, <3>1
  <2>3. CASE h.key # k /\ writing' = writing \cup {h}
    BY <1>7, <2>3
  <2> QED
    BY <1>3, <2>1, <2>2, <2>3
<1> QED
  BY <1>1, <1>2, <1>3, <1>4, <1>5, <1>6, <1>7 DEF h

LEMMA ReceiveBucketEffect ==
    ASSUME TypeOK, ReceiveBucket
    PROVE  /\ channel # <<>> /\ channel' = Tail(channel) /\ Head(channel).type = "data"
           /\ DataIn(channel) = DataIn(channel') \cup {Head(channel).data}
           /\ ChangesIn(channel') = ChangesIn(channel)
           /\ UNCHANGED <<master, unsent, version, link, snapshot, replica, writing, raced>>
           /\ \E s : /\ resyncs' = resyncs \cup {s}
                     /\ s.data = Head(channel).data /\ s.toWrite = Present(s.data)
                     /\ ~s.listed /\ s.toDelete = {}
           /\ Underway' = Underway
           /\ \A k : InFlight(k)' = InFlight(k)
<1> DEFINE d == Head(channel).data
           s == [link |-> drops, data |-> d, toWrite |-> Present(d), listed |-> FALSE, toDelete |-> {}]
<1>1. /\ channel # <<>> /\ channel' = Tail(channel) /\ Head(channel).type = "data"
      /\ UNCHANGED <<master, unsent, version, link, snapshot, replica, writing, raced>>
      /\ resyncs' = resyncs \cup {s}
  BY DEF ReceiveBucket, masterVars
<1>2. s.data = d /\ s.toWrite = Present(s.data) /\ ~s.listed /\ s.toDelete = {}
  OBVIOUS
<1>3. /\ DataIn(channel) = DataIn(channel') \cup {d} /\ ChangesIn(channel') = ChangesIn(channel)
  <2>1. /\ ChangesIn(channel) = ChangesIn(Tail(channel)) \cup
              (IF Head(channel).type = "change" THEN {Head(channel).change} ELSE {})
        /\ DataIn(channel) = DataIn(Tail(channel)) \cup
              (IF Head(channel).type = "data" THEN {Head(channel).data} ELSE {})
    BY <1>1, SentInTail DEF TypeOK
  <2> QED
    BY <1>1, <2>1
<1> HIDE DEF s, d
<1>4. Underway' = Underway
  BY <1>1, <1>2, <1>3, UnderwayIs
<1>5. \A k : InFlight(k)' = InFlight(k)
  BY <1>1, <1>3, SameOnItsWay
<1> QED
  BY <1>1, <1>2, <1>3, <1>4, <1>5 DEF d

\* A change that is applied is not on its way any more.
LEMMA ApplyEffect ==
    ASSUME TypeOK, OrderInv, NEW c \in writing, ApplyChange(c) \/ FailedChange(c)
    PROVE  /\ c \in Change
           /\ writing' = writing \ {c}
           /\ UNCHANGED <<master, unsent, version, link, snapshot, channel, resyncs>>
           /\ Underway' = Underway
           /\ \A k : k # c.key => InFlight(k)' = InFlight(k)
           /\ c \in InFlight(c.key)
           /\ \A k : InFlight(k)' = InFlight(k) \ {c}
<1>1. /\ c \in Change /\ writing' = writing \ {c}
      /\ UNCHANGED <<master, unsent, version, link, snapshot, channel, resyncs>>
  BY DEF ApplyChange, FailedChange, TypeOK, masterVars, linkVars
<1>2. c \notin ChangesIn(channel)
  BY <1>1, OutcomeType DEF OrderInv
<1>3. Underway' = Underway
  BY <1>1, UnderwayIs
<1>4. \A k : InFlight(k)' = InFlight(k) \ {c}
  BY <1>1, <1>2 DEF InFlight
<1> QED
  BY <1>1, <1>3, <1>4 DEF InFlight

-----------------------------------------------------------------------------
(* Every step keeps what holds of every key. *)

LEMMA LinkStep ==
    ASSUME TypeOK, ShapeInv, LinkInv, Next
    PROVE  LinkInv'
<1>1. ASSUME UNCHANGED <<link, snapshot, channel>> PROVE LinkInv'
  BY <1>1 DEF LinkInv
<1>2. ASSUME NEW k \in Keys, NEW kind \in Kinds, Store(k, kind) PROVE LinkInv'
  BY <1>1, <1>2 DEF Store, linkVars
<1>3. ASSUME NEW k \in Keys, Publish(k) PROVE LinkInv'
  BY <1>3 DEF Publish, LinkInv
<1>4. CASE Register
  BY <1>4 DEF Register, LinkInv
<1>5. CASE SendBucket
  BY <1>5 DEF SendBucket, LinkInv
<1>6. CASE Connect
  BY <1>6 DEF Connect, LinkInv
<1>7. CASE Lost
  BY <1>7 DEF Lost, LinkInv
<1>8. CASE ReceiveChange \/ ReceiveBucket
  BY <1>8 DEF ReceiveChange, ReceiveBucket, LinkInv
<1>9. ASSUME NEW c \in writing, ApplyChange(c) \/ FailedChange(c) PROVE LinkInv'
  BY <1>1, <1>9 DEF ApplyChange, FailedChange, linkVars
<1>10. ASSUME NEW s, NEW t, Handled(s, t) PROVE LinkInv'
  BY <1>1, <1>10 DEF Handled
<1>11. ASSUME NEW s, Ended(s) PROVE LinkInv'
  BY <1>1, <1>11 DEF Ended
<1>12. CASE Idle
  BY <1>1, <1>12 DEF Idle
<1>13. ASSUME NEW k \in Keys, Broadcast(k) PROVE LinkInv'
  BY <1>13 DEF Broadcast, LinkInv
<1>14. CASE ListingFails \/ ReceiveBroadcast
  BY <1>14 DEF ListingFails, ReceiveBroadcast, LinkInv
<1>15. ASSUME NEW b \in storing, ApplyBroadcast(b) PROVE LinkInv'
  BY <1>1, <1>15 DEF ApplyBroadcast, linkVars
<1> QED
  BY <1>2, <1>3, <1>4, <1>5, <1>6, <1>7, <1>8, <1>9, <1>10, <1>11, <1>12, <1>13, <1>14, <1>15, Steps
     DEF Wrote, Deleted, ListedAs, Skipped

\* Only two steps change the master.
LEMMA MasterSteps ==
    ASSUME TypeOK, ShapeInv, Next
    PROVE  \/ \E k \in Keys, kind \in Kinds : Store(k, kind)
           \/ \E k \in Keys : Publish(k)
           \/ UNCHANGED <<master, unsent, version>>
  BY Steps DEF Broadcast, Register, SendBucket, ListingFails, Connect, Lost, ReceiveChange,
     ReceiveBroadcast, ReceiveBucket, ApplyChange, ApplyBroadcast, Wrote, Deleted, ListedAs,
     Skipped, Handled, Ended, FailedChange, Idle, masterVars

LEMMA StoreEffect ==
    ASSUME TypeOK, NEW k \in Keys, NEW kind \in Kinds, Store(k, kind)
    PROVE  /\ version' = version + 1 /\ unsent[k] = None
           /\ unsent'[k] \in Change /\ unsent'[k] # None
           /\ unsent'[k].key = k /\ unsent'[k].version = version'
           /\ master'[k] = Outcome(unsent'[k])
           /\ \A q \in Keys \ {k} : master'[q] = master[q] /\ unsent'[q] = unsent[q]
           /\ UNCHANGED <<link, snapshot, channel, replica, writing, resyncs, raced>>
           /\ Underway' = Underway
           /\ \A q : InFlight(q)' = InFlight(q)
<1> DEFINE c == [key |-> k, version |-> version', kind |-> kind]
<1>1. version' \in Versions /\ version' = version + 1 /\ unsent[k] = None
  BY BoundsAssumption DEF Store, TypeOK, Versions
<1>2. c \in Change /\ c.key = k /\ c.version = version' /\ c # None
  BY <1>1, KindsAssumption, NoneAssumption DEF Change
<1>3. /\ master' = [master EXCEPT ![k] = Outcome(c)]
      /\ unsent' = [unsent EXCEPT ![k] = c]
      /\ UNCHANGED <<link, snapshot, channel, replica, writing, resyncs, raced>>
  BY DEF Store, linkVars, replicaVars
<1> HIDE DEF c
<1>4. /\ unsent'[k] = c /\ master'[k] = Outcome(c)
      /\ \A q \in Keys \ {k} : master'[q] = master[q] /\ unsent'[q] = unsent[q]
  BY <1>3 DEF TypeOK, Contents
<1>5. Underway' = Underway
  BY <1>3, UnderwayIs
<1>6. \A q : InFlight(q)' = InFlight(q)
  BY <1>3, SameOnItsWay
<1> QED
  BY <1>1, <1>2, <1>3, <1>4, <1>5, <1>6

LEMMA StoredStep ==
    ASSUME TypeOK, ShapeInv, StoredInv, Next
    PROVE  StoredInv'
<1>1. ASSUME NEW k \in Keys, NEW kind \in Kinds, Store(k, kind) PROVE StoredInv'
  <2>1. ASSUME NEW q \in Keys, unsent'[q] # None
        PROVE  unsent'[q].key = q /\ master'[q] = Outcome(unsent'[q])
    BY <1>1, <2>1, StoreEffect DEF StoredInv
  <2> QED
    BY <2>1 DEF StoredInv
<1>2. ASSUME NEW k \in Keys, Publish(k) PROVE StoredInv'
  BY <1>2, PublishEffect DEF StoredInv
<1>3. CASE UNCHANGED <<master, unsent, version>>
  BY <1>3 DEF StoredInv
<1> QED
  BY <1>1, <1>2, <1>3, MasterSteps

LEMMA ShapeStep ==
    ASSUME TypeOK, ShapeInv, Next
    PROVE  ShapeInv'
<1>1. CASE resyncs' \subseteq resyncs
  BY <1>1 DEF ShapeInv, Present
<1>2. CASE ReceiveBucket
  BY <1>2, ReceiveBucketEffect DEF ShapeInv, Present
<1>3. ASSUME NEW s \in resyncs, NEW t, NEW k, Wrote(s, t, k) \/ Deleted(s, t, k) \/ Skipped(s, t, k)
      PROVE  ShapeInv'
  BY <1>3 DEF Wrote, Deleted, Skipped, Handled, ShapeInv, Present
<1>4. ASSUME NEW s \in resyncs, NEW t, ListedAs(s, t) PROVE ShapeInv'
  BY <1>4 DEF ListedAs, Handled, ShapeInv, Present
<1>5. \/ resyncs' \subseteq resyncs
      \/ ReceiveBucket
      \/ \E s \in resyncs : \E t, k : Wrote(s, t, k) \/ Deleted(s, t, k) \/ Skipped(s, t, k)
      \/ \E s \in resyncs : \E t : ListedAs(s, t)
  BY Steps DEF Store, Publish, Broadcast, Register, SendBucket, ListingFails, Connect, Lost,
     ReceiveChange, ReceiveBroadcast, ApplyChange, ApplyBroadcast, Ended, FailedChange, Idle, replicaVars
<1> QED
  BY <1>1, <1>2, <1>3, <1>4, <1>5

\* Few steps send anything, and only those that start a handler add one.
LEMMA ChannelSteps ==
    ASSUME TypeOK, ShapeInv, Next
    PROVE  \/ \E k \in Keys : Publish(k)
           \/ \E k \in Keys : Broadcast(k)
           \/ Register
           \/ SendBucket
           \/ Lost
           \/ ReceiveChange
           \/ ReceiveBroadcast
           \/ ReceiveBucket
           \/ /\ channel' = channel /\ snapshot' \in {snapshot, None}
              /\ writing' \subseteq writing /\ storing' \subseteq storing /\ raced \subseteq raced'
              /\ resyncs' \subseteq resyncs \/ \E s, t : Handled(s, t)
  BY Steps, ZenonT(30) DEF Store, ListingFails, Connect, ApplyChange, ApplyBroadcast, Wrote, Deleted, ListedAs,
     Skipped, Handled, Ended, FailedChange, Idle, TypeOK, masterVars, linkVars, replicaVars

LEMMA InChanges ==
    ASSUME NEW s
    PROVE  /\ \A c : c \in ChangesIn(s) <=> \E i \in DOMAIN s : s[i].type = "change" /\ c = s[i].change
           /\ \A d : d \in DataIn(s) <=> \E i \in DOMAIN s : s[i].type = "data" /\ d = s[i].data
  BY DEF ChangesIn, DataIn, Messages

LEMMA OrderStep ==
    ASSUME TypeOK, ShapeInv, LinkInv, StoredInv, BoundInv, OrderInv, Next
    PROVE  OrderInv'
<1>1. CASE UNCHANGED channel /\ writing' \subseteq writing
  BY <1>1 DEF OrderInv
<1>2. CASE Lost
  <2>1. channel' = <<>> /\ ChangesIn(channel') = {}
    BY <1>2, LostEffect DEF Lost
  <2> QED
    BY <2>1 DEF OrderInv
<1>3. ASSUME NEW m \in Message, channel' = Append(channel, m), writing' = writing,
             m.type = "change" => \A c \in InFlight(m.change.key) : c.version < m.change.version
      PROVE  OrderInv'
  <2>1. /\ \A i \in DOMAIN channel' : i \in DOMAIN channel \/ i = Len(channel) + 1
        /\ \A i \in DOMAIN channel : channel'[i] = channel[i]
        /\ channel'[Len(channel) + 1] = m
        /\ Len(channel) \in Nat /\ DOMAIN channel = 1 .. Len(channel)
    BY <1>3 DEF TypeOK
  <2>2. ChangesIn(channel') = ChangesIn(channel) \cup (IF m.type = "change" THEN {m.change} ELSE {})
    BY <1>3, SentInAppend DEF TypeOK
  <2>3. ASSUME NEW i \in DOMAIN channel', NEW j \in DOMAIN channel', i < j,
               channel'[i].type = "change", channel'[j].type = "change",
               channel'[i].change.key = channel'[j].change.key
        PROVE  channel'[i].change.version < channel'[j].change.version
    <3>1. CASE j \in DOMAIN channel
      <4>1. i \in DOMAIN channel
        BY <2>1, <2>3, <3>1
      <4> QED
        BY <2>1, <2>3, <3>1, <4>1 DEF OrderInv
    <3>2. CASE j = Len(channel) + 1
      <4>1. i \in DOMAIN channel
        BY <2>1, <2>3, <3>2
      <4>2. channel[i].change \in ChangesIn(channel)
        BY <2>1, <2>3, <4>1, InChanges
      <4>3. channel[i].change \in InFlight(m.change.key)
        BY <2>1, <2>3, <3>2, <4>1, <4>2 DEF InFlight
      <4> QED
        BY <1>3, <2>1, <2>3, <3>2, <4>1, <4>3
    <3> QED
      BY <2>1, <2>3, <3>1, <3>2
  <2>4. ASSUME NEW c \in writing', NEW d \in ChangesIn(channel'), c.key = d.key
        PROVE  c.version < d.version
    <3>1. CASE d \in ChangesIn(channel)
      BY <1>3, <2>4, <3>1 DEF OrderInv
    <3>2. CASE m.type = "change" /\ d = m.change
      <4>1. c \in InFlight(m.change.key)
        BY <1>3, <2>4, <3>2 DEF InFlight
      <4> QED
        BY <1>3, <3>2, <4>1
    <3> QED
      BY <2>2, <2>4, <3>1, <3>2
  <2> QED
    BY <2>3, <2>4 DEF OrderInv
<1>4. ASSUME channel # <<>>, channel' = Tail(channel),
             writing' \subseteq writing \cup {c \in {Head(channel).change} : Head(channel).type = "change"}
      PROVE  OrderInv'
  <2>1. /\ \A i \in DOMAIN channel' : i + 1 \in DOMAIN channel /\ channel'[i] = channel[i + 1]
        /\ 1 \in DOMAIN channel /\ channel[1] = Head(channel)
        /\ ChangesIn(channel') \subseteq ChangesIn(channel)
    BY <1>4, SentInTail DEF TypeOK
  <2>2. channel' \in Seq(Message)
    BY <1>4, SentInTail DEF TypeOK
  <2>3. ASSUME NEW i \in DOMAIN channel', NEW j \in DOMAIN channel', i < j,
               channel'[i].type = "change", channel'[j].type = "change",
               channel'[i].change.key = channel'[j].change.key
        PROVE  channel'[i].change.version < channel'[j].change.version
    <3>1. i + 1 < j + 1 /\ i + 1 \in DOMAIN channel /\ j + 1 \in DOMAIN channel
      BY <2>1, <2>2, <2>3
    <3> QED
      BY <2>1, <2>3, <3>1 DEF OrderInv
  <2>4. ASSUME NEW c \in writing', NEW d \in ChangesIn(channel'), c.key = d.key
        PROVE  c.version < d.version
    <3>1. CASE c \in writing
      BY <2>1, <2>4, <3>1 DEF OrderInv
    <3>2. CASE c = Head(channel).change /\ Head(channel).type = "change"
      <4>1. PICK i \in DOMAIN channel' : channel'[i].type = "change" /\ d = channel'[i].change
        BY <2>4, InChanges
      <4>2. 1 < i + 1 /\ i + 1 \in DOMAIN channel /\ channel'[i] = channel[i + 1]
        BY <2>1, <2>2, <4>1
      <4> QED
        BY <2>1, <2>4, <3>2, <4>1, <4>2 DEF OrderInv
    <3> QED
      BY <1>4, <2>4, <3>1, <3>2
  <2> QED
    BY <2>3, <2>4 DEF OrderInv
<1>5. ASSUME NEW k \in Keys, Publish(k) PROVE OrderInv'
  <2>1. CASE UNCHANGED channel
    BY <1>1, <1>5, <2>1, PublishEffect
  <2>2. CASE channel' = Append(channel, [type |-> "change", change |-> unsent[k]])
    <3> DEFINE m == [type |-> "change", change |-> unsent[k]]
    <3>1. m \in Message /\ m.change = unsent[k] /\ unsent[k].key = k /\ writing' = writing
      BY <1>5, PublishEffect, MessageKinds
    <3>2. \A c \in InFlight(k) : c.version < unsent[k].version
      BY <1>5 DEF Publish, BoundInv
    <3> HIDE DEF m
    <3>3. channel' = Append(channel, m)
      BY <2>2 DEF m
    <3> QED
      BY <1>3, <3>1, <3>2, <3>3
  <2> QED
    BY <1>5, <2>1, <2>2, PublishEffect
<1>6. CASE Register
  BY <1>1, <1>6 DEF Register, replicaVars
<1>7. CASE SendBucket
  <2> DEFINE m == [type |-> "data", data |-> snapshot]
  <2>1. m \in Message /\ m.type # "change" /\ channel' = Append(channel, m) /\ writing' = writing
    BY <1>7, SendBucketEffect DEF SendBucket, replicaVars
  <2> HIDE DEF m
  <2> QED
    BY <1>3, <2>1
<1>8. CASE ReceiveChange
  BY <1>4, <1>8, ReceiveChangeEffect
<1>9. CASE ReceiveBucket
  BY <1>4, <1>9, ReceiveBucketEffect
<1>10. ASSUME NEW k \in Keys, Broadcast(k) PROVE OrderInv'
  <2>1. PICK m \in Message : m.type = "broadcast" /\ channel' = Append(channel, m)
    BY <1>10, BroadcastEffect
  <2>2. writing' = writing /\ m.type # "change"
    BY <1>10, <2>1, BroadcastEffect
  <2> QED
    BY <1>3, <2>1, <2>2
<1>11. CASE ReceiveBroadcast
  BY <1>4, <1>11, ReceiveBroadcastEffect
<1> QED
  BY <1>1, <1>2, <1>5, <1>6, <1>7, <1>8, <1>9, <1>10, <1>11, ChannelSteps

LEMMA SingleStep ==
    ASSUME TypeOK, ShapeInv, LinkInv, StoredInv, SingleInv, Next
    PROVE  SingleInv'
<1>1. ASSUME channel' = channel, snapshot' \in {snapshot, None}, raced \subseteq raced',
             resyncs' \subseteq resyncs \/ \E s, t : Handled(s, t)
      PROVE  SingleInv'
  <2>1. CASE resyncs' \subseteq resyncs
    BY <1>1, <2>1 DEF SingleInv
  <2>2. ASSUME NEW s, NEW t, Handled(s, t) PROVE SingleInv'
    BY <1>1, <2>2 DEF SingleInv, Handled
  <2> QED
    BY <1>1, <2>1, <2>2
<1>2. CASE Lost
  <2>1. /\ snapshot' = None /\ channel' = <<>> /\ DataIn(channel') = {}
        /\ resyncs' \subseteq resyncs /\ raced' = raced
    BY <1>2, LostEffect DEF Lost
  <2> QED
    BY <2>1 DEF SingleInv
<1>3. ASSUME NEW k \in Keys, Publish(k) PROVE SingleInv'
  <2>1. CASE UNCHANGED <<channel, raced>>
    BY <1>1, <1>3, <2>1, PublishEffect
  <2>2. CASE link = "registered"
    <3> DEFINE m == [type |-> "change", change |-> unsent[k]]
    <3>1. /\ DataIn(channel') = DataIn(channel) /\ raced \subseteq raced'
          /\ resyncs' = resyncs /\ snapshot' = snapshot
      BY <1>3, <2>2, PublishEffect
    <3>2. channel' = Append(channel, m) /\ m \in Message /\ m.type # "data"
      BY <1>3, <2>2, PublishEffect
    <3> HIDE DEF m
    <3>3. \A i \in DOMAIN channel' : channel'[i].type = "data" =>
             i \in DOMAIN channel /\ channel[i].type = "data"
      BY <3>2 DEF TypeOK
    <3> QED
      BY <3>1, <3>3 DEF SingleInv
  <2> QED
    BY <1>3, <2>1, <2>2, PublishEffect
<1>4. CASE Register
  BY <1>4, RegisterEffect DEF SingleInv
<1>5. CASE SendBucket
  <2> DEFINE m == [type |-> "data", data |-> snapshot]
  <2>1. /\ m \in Message /\ channel' = Append(channel, m)
        /\ snapshot # None /\ snapshot' = None /\ resyncs' = resyncs /\ raced' = raced
    BY <1>5, SendBucketEffect DEF SendBucket, replicaVars
  <2> HIDE DEF m
  <2>2. SUFFICES ASSUME Keys \ raced # {}
                 PROVE  /\ resyncs' = {}
                        /\ \A i, j \in DOMAIN channel' :
                              channel'[i].type = "data" /\ channel'[j].type = "data" => i = j
    BY <2>1 DEF SingleInv
  <2>3. DataIn(channel) = {} /\ resyncs = {}
    BY <2>1, <2>2 DEF SingleInv
  <2>4. \A i \in DOMAIN channel : channel[i].type # "data"
    BY <2>3, InChanges
  <2>5. \A i \in DOMAIN channel' : channel'[i].type = "data" => i = Len(channel) + 1
    BY <2>1, <2>4 DEF TypeOK
  <2> QED
    BY <2>1, <2>3, <2>5
<1>6. CASE ReceiveChange
  <2>1. /\ channel # <<>> /\ channel' = Tail(channel) /\ DataIn(channel') = DataIn(channel)
        /\ snapshot' = snapshot /\ resyncs' = resyncs /\ raced \subseteq raced'
    BY <1>6, ReceiveChangeEffect
  <2>2. /\ \A i \in DOMAIN channel' : i + 1 \in DOMAIN channel /\ channel'[i] = channel[i + 1]
        /\ channel' \in Seq(Message)
    BY <2>1, SentInTail DEF TypeOK
  <2>3. \A i, j \in DOMAIN channel' : i + 1 = j + 1 => i = j
    BY <2>2
  <2> QED
    BY <2>1, <2>2, <2>3 DEF SingleInv
<1>7. CASE ReceiveBucket
  <2>1. /\ channel # <<>> /\ channel' = Tail(channel) /\ Head(channel).type = "data"
        /\ DataIn(channel) # {}
        /\ snapshot' = snapshot /\ raced' = raced
        /\ \E s : resyncs' = resyncs \cup {s}
    BY <1>7, ReceiveBucketEffect
  <2>2. /\ \A i \in DOMAIN channel' : i + 1 \in DOMAIN channel /\ channel'[i] = channel[i + 1]
        /\ 1 \in DOMAIN channel /\ channel[1] = Head(channel)
        /\ channel' \in Seq(Message)
    BY <2>1, SentInTail DEF TypeOK
  <2>3. SUFFICES ASSUME Keys \ raced # {}
                 PROVE  snapshot' = None /\ DataIn(channel') = {} /\ \A s, t \in resyncs' : s = t
    BY <2>1, InChanges DEF SingleInv
  <2>4. snapshot = None /\ resyncs = {}
    BY <2>1, <2>3 DEF SingleInv
  <2>5. \A i \in DOMAIN channel' : channel'[i].type # "data"
    <3>1. \A i \in DOMAIN channel' : i + 1 # 1
      BY <2>2
    <3> QED
      BY <2>1, <2>2, <2>3, <3>1 DEF SingleInv
  <2>6. DataIn(channel') = {}
    BY <2>5, InChanges
  <2> QED
    BY <2>1, <2>4, <2>6
<1>8. ASSUME NEW k \in Keys, Broadcast(k) PROVE SingleInv'
  <2>1. /\ DataIn(channel') = DataIn(channel) /\ raced \subseteq raced'
        /\ resyncs' = resyncs /\ snapshot' = snapshot
    BY <1>8, BroadcastEffect
  <2>2. PICK m \in Message : m.type = "broadcast" /\ channel' = Append(channel, m)
    BY <1>8, BroadcastEffect
  <2>3. \A i \in DOMAIN channel' : channel'[i].type = "data" =>
           i \in DOMAIN channel /\ channel[i].type = "data"
    BY <2>2 DEF TypeOK
  <2> QED
    BY <2>1, <2>3 DEF SingleInv
<1>9. CASE ReceiveBroadcast
  <2>1. /\ channel # <<>> /\ channel' = Tail(channel) /\ DataIn(channel') = DataIn(channel)
        /\ snapshot' = snapshot /\ resyncs' = resyncs /\ raced' = raced
    BY <1>9, ReceiveBroadcastEffect
  <2>2. /\ \A i \in DOMAIN channel' : i + 1 \in DOMAIN channel /\ channel'[i] = channel[i + 1]
        /\ channel' \in Seq(Message)
    BY <2>1, SentInTail DEF TypeOK
  <2>3. \A i, j \in DOMAIN channel' : i + 1 = j + 1 => i = j
    BY <2>2
  <2> QED
    BY <2>1, <2>2, <2>3 DEF SingleInv
<1> QED
  BY <1>1, <1>2, <1>3, <1>4, <1>5, <1>6, <1>7, <1>8, <1>9, ChannelSteps

LEMMA ForeignStep ==
    ASSUME TypeOK, ShapeInv, LinkInv, StoredInv, ForeignInv, Next
    PROVE  ForeignInv'
<1>1. ASSUME ForeignIn(channel') \subseteq ForeignIn(channel), storing' \subseteq storing,
             raced \subseteq raced'
      PROVE  ForeignInv'
  BY <1>1 DEF ForeignInv
<1>2. ForeignIn(<<>>) = {}
  BY DEF ForeignIn, Messages
<1>3. ASSUME NEW m \in Message, channel' = Append(channel, m), storing' = storing, raced \subseteq raced',
             m.type = "broadcast" => m.broadcast.key \in raced'
      PROVE  ForeignInv'
  <2>1. ForeignIn(channel') = ForeignIn(channel) \cup (IF m.type = "broadcast" THEN {m.broadcast} ELSE {})
    BY <1>3, SentInAppend DEF TypeOK
  <2> QED
    BY <1>3, <2>1 DEF ForeignInv
<1>4. ASSUME channel # <<>>, channel' = Tail(channel), raced \subseteq raced',
             storing' \subseteq storing \cup
                {b \in {Head(channel).broadcast} : Head(channel).type = "broadcast"}
      PROVE  ForeignInv'
  <2>1. /\ ForeignIn(channel') \subseteq ForeignIn(channel)
        /\ Head(channel).type = "broadcast" => Head(channel).broadcast \in ForeignIn(channel)
    BY <1>4, SentInTail DEF TypeOK
  <2> QED
    BY <1>4, <2>1 DEF ForeignInv
<1>5. ASSUME NEW k \in Keys, Publish(k) PROVE ForeignInv'
  <2> DEFINE m == [type |-> "change", change |-> unsent[k]]
  <2>1. storing' = storing
    BY <1>5 DEF Publish, replicaVars
  <2>2. CASE UNCHANGED <<channel, raced>>
    BY <1>1, <2>1, <2>2
  <2>3. CASE link = "registered"
    <3>1. m \in Message /\ m.type # "broadcast" /\ channel' = Append(channel, m) /\ raced \subseteq raced'
      BY <1>5, <2>3, PublishEffect
    <3> HIDE DEF m
    <3> QED
      BY <1>3, <2>1, <3>1
  <2> QED
    BY <1>5, <2>2, <2>3, PublishEffect
<1>6. ASSUME NEW k \in Keys, Broadcast(k) PROVE ForeignInv'
  <2>1. PICK m \in Message : /\ m.type = "broadcast" /\ m.broadcast.key = k
                            /\ channel' = Append(channel, m)
    BY <1>6, BroadcastEffect
  <2>2. storing' = storing /\ raced \subseteq raced' /\ k \in raced'
    BY <1>6, BroadcastEffect
  <2> QED
    BY <1>3, <2>1, <2>2
<1>7. CASE Register
  <2>1. channel' = <<>> /\ channel = <<>> /\ storing' = storing
    BY <1>7, RegisterEffect DEF Register, replicaVars
  <2>2. storing = {} \/ raced' = Keys
    BY <1>7 DEF Register
  <2>3. \A b \in storing : b.key \in Keys
    BY DEF TypeOK, Foreign
  <2> QED
    BY <1>2, <2>1, <2>2, <2>3 DEF ForeignInv
<1>8. CASE SendBucket
  <2> DEFINE m == [type |-> "data", data |-> snapshot]
  <2>1. m \in Message /\ m.type # "broadcast" /\ channel' = Append(channel, m)
    BY <1>8, SendBucketEffect DEF SendBucket
  <2>2. storing' = storing /\ raced' = raced
    BY <1>8 DEF SendBucket, replicaVars
  <2> HIDE DEF m
  <2> QED
    BY <1>3, <2>1, <2>2
<1>9. CASE Lost
  BY <1>1, <1>2, <1>9 DEF Lost
<1>10. CASE ReceiveChange
  <2>1. storing' = storing
    BY <1>10 DEF ReceiveChange
  <2> QED
    BY <1>4, <1>10, <2>1, ReceiveChangeEffect
<1>11. CASE ReceiveBucket
  <2>1. storing' = storing
    BY <1>11 DEF ReceiveBucket
  <2> QED
    BY <1>4, <1>11, <2>1, ReceiveBucketEffect
<1>12. CASE ReceiveBroadcast
  BY <1>4, <1>12, ReceiveBroadcastEffect
<1> QED
  BY <1>1, <1>5, <1>6, <1>7, <1>8, <1>9, <1>10, <1>11, <1>12, ChannelSteps

LEMMA BoundTypes ==
    ASSUME TypeOK, NEW k \in Keys
    PROVE  /\ version \in Nat /\ master[k] \in Nat \cup {Absent} /\ Absent \notin Nat
           /\ unsent[k] # None => unsent[k] \in Change /\ unsent[k].version \in Nat
           /\ \A c \in InFlight(k) : c \in Change /\ c.version \in Nat /\ c.key = k
           /\ replica[k] \in Nat \cup {Absent, Local} /\ Local \notin Nat
           /\ \A d \in Underway : d[k] \in Nat \cup {Absent}
<1>1. Versions \subseteq Nat
  BY DEF Versions
<1>2. InFlight(k) \subseteq Change /\ Underway \subseteq Contents
  BY SentTypes
<1>3. \A c \in InFlight(k) : c.key = k
  BY DEF InFlight
<1> QED
  BY <1>1, <1>2, <1>3, NamesAssumption DEF TypeOK, Contents, Change

\* What the replica has, and what is sent to it, comes from the master or was there.
LEMMA SeenEffect ==
    ASSUME TypeOK, ShapeInv, LinkInv, OrderInv, Next
    PROVE  \/ \E k \in Keys, kind \in Kinds : Store(k, kind)
           \/ \E k \in Keys : Publish(k)
           \/ /\ UNCHANGED <<master, unsent, version>>
              /\ \A k \in Keys :
                    /\ InFlight(k)' \subseteq InFlight(k)
                    /\ \A v \in Seen(k)' :
                          v \in Seen(k) \/ v = master[k] \/ \E c \in InFlight(k) : v = c.version
<1> DEFINE Goal == /\ UNCHANGED <<master, unsent, version>>
                   /\ \A k \in Keys :
                         /\ InFlight(k)' \subseteq InFlight(k)
                         /\ \A v \in Seen(k)' :
                               v \in Seen(k) \/ v = master[k] \/ \E c \in InFlight(k) : v = c.version
<1>1. ASSUME UNCHANGED <<master, unsent, version, replica>>, Underway' \subseteq Underway,
             \A k : InFlight(k)' \subseteq InFlight(k)
      PROVE  Goal
  BY <1>1 DEF Seen
<1>2. ASSUME Register PROVE Goal
  <2>1. /\ UNCHANGED <<master, unsent, version, replica>>
        /\ Underway' = Underway \cup {master} /\ \A k : InFlight(k)' = InFlight(k)
    BY <1>2, RegisterEffect
  <2> QED
    BY <2>1 DEF Seen
<1>3. ASSUME SendBucket PROVE Goal
  BY <1>1, <1>3, SendBucketEffect DEF SendBucket, masterVars, replicaVars
<1>4. ASSUME Connect PROVE Goal
  BY <1>1, <1>4, SameOnItsWay, UnderwayIs DEF Connect, masterVars, replicaVars
<1>5. ASSUME Lost PROVE Goal
  BY <1>1, <1>5, LostEffect DEF Lost
<1>6. ASSUME ReceiveChange PROVE Goal
  BY <1>1, <1>6, ReceiveChangeEffect
<1>7. ASSUME ReceiveBucket PROVE Goal
  BY <1>1, <1>7, ReceiveBucketEffect
<1>8. ASSUME NEW c \in writing, ApplyChange(c) PROVE Goal
  <2>1. /\ UNCHANGED <<master, unsent, version>> /\ Underway' = Underway
        /\ \A k : InFlight(k)' \subseteq InFlight(k)
        /\ c \in Change /\ c \in InFlight(c.key)
    BY <1>8, ApplyEffect
  <2>2. \A k \in Keys : replica'[k] = IF k = c.key THEN Outcome(c) ELSE replica[k]
    BY <1>8, <2>1 DEF ApplyChange, TypeOK, Change
  <2>3. Outcome(c) \in Nat => Outcome(c) = c.version
    BY <2>1, OutcomeType
  <2> QED
    BY <2>1, <2>2, <2>3 DEF Seen
<1>9. ASSUME NEW s \in resyncs, NEW t, NEW k, Wrote(s, t, k) PROVE Goal
  <2>1. /\ UNCHANGED <<master, unsent, version>> /\ Underway' = Underway
        /\ \A q : InFlight(q)' = InFlight(q)
    BY <1>9, HandledEffect DEF Wrote, Handled
  <2>2. \A q \in Keys : replica'[q] = IF q = k THEN s.data[k] ELSE replica[q]
    BY <1>9 DEF Wrote, TypeOK
  <2>3. s.data \in Underway
    BY UnderwayIs
  <2> QED
    BY <2>1, <2>2, <2>3 DEF Seen
<1>10. ASSUME NEW s \in resyncs, NEW t, NEW k, Deleted(s, t, k) PROVE Goal
  <2>1. /\ UNCHANGED <<master, unsent, version>> /\ Underway' = Underway
        /\ \A q : InFlight(q)' = InFlight(q)
    BY <1>10, HandledEffect DEF Deleted, Handled
  <2>2. \A q \in Keys : replica'[q] = IF q = k THEN Absent ELSE replica[q]
    BY <1>10 DEF Deleted, TypeOK
  <2> QED
    BY <2>1, <2>2, NamesAssumption DEF Seen
<1>11. /\ \A s \in resyncs : \A t : ListedAs(s, t) => Goal
       /\ \A s \in resyncs : \A t, k : Skipped(s, t, k) => Goal
  BY <1>1, HandledEffect DEF ListedAs, Skipped, Handled
<1>12. ASSUME NEW s \in resyncs, Ended(s) PROVE Goal
  BY <1>1, <1>12, EndedEffect DEF Ended
<1>13. ASSUME NEW c \in writing, FailedChange(c) PROVE Goal
  BY <1>1, <1>13, ApplyEffect DEF FailedChange
<1>14. ASSUME Idle PROVE Goal
  BY <1>1, <1>14, BesideEffect DEF Idle
<1>16. ASSUME NEW k \in Keys, Broadcast(k) PROVE Goal
  BY <1>1, <1>16, BroadcastEffect
<1>17. ASSUME ListingFails PROVE Goal
  BY <1>1, <1>17, BesideEffect DEF ListingFails, masterVars, replicaVars
<1>18. ASSUME ReceiveBroadcast PROVE Goal
  BY <1>1, <1>18, ReceiveBroadcastEffect
<1>19. ASSUME NEW b \in storing, ApplyBroadcast(b) PROVE Goal
  <2>1. /\ UNCHANGED <<master, unsent, version, snapshot>> /\ Underway' = Underway
        /\ \A k : InFlight(k)' = InFlight(k)
    BY <1>19, BesideEffect DEF ApplyBroadcast, masterVars, linkVars
  <2>2. \A q \in Keys : replica'[q] \in {replica[q], Local}
    BY <1>19 DEF ApplyBroadcast, TypeOK
  <2> QED
    BY <2>1, <2>2, NamesAssumption DEF Seen
<1> HIDE DEF Goal
<1>15. \/ \E k \in Keys, kind \in Kinds : Store(k, kind)
       \/ \E k \in Keys : Publish(k)
       \/ Goal
  BY <1>2, <1>3, <1>4, <1>5, <1>6, <1>7, <1>8, <1>9, <1>10, <1>11, <1>12, <1>13, <1>14, <1>16,
     <1>17, <1>18, <1>19, Steps
<1> QED
  BY <1>15 DEF Goal

LEMMA BoundStep ==
    ASSUME TypeOK, ShapeInv, LinkInv, OrderInv, StoredInv, BoundInv, Next
    PROVE  BoundInv'
<1>1. ASSUME NEW k \in Keys, NEW kind \in Kinds, Store(k, kind) PROVE BoundInv'
  <2>1. /\ version' = version + 1 /\ unsent'[k] # None /\ unsent'[k] \in Change
        /\ unsent'[k].version = version + 1 /\ master'[k] = Outcome(unsent'[k])
        /\ \A q \in Keys \ {k} : master'[q] = master[q] /\ unsent'[q] = unsent[q]
        /\ \A q \in Keys : InFlight(q)' = InFlight(q) /\ Seen(q)' = Seen(q)
    BY <1>1, StoreEffect DEF Seen
  <2>2. master'[k] \in Nat => master'[k] = version + 1
    BY <2>1, OutcomeType
  <2>3. ASSUME NEW q \in Keys
        PROVE  /\ master'[q] \in Nat => master'[q] <= version'
               /\ unsent'[q] # None => unsent'[q].version <= version'
               /\ \A c \in InFlight(q)' :
                     /\ c.version <= version'
                     /\ unsent'[q] # None => c.version < unsent'[q].version
                     /\ master'[q] \in Nat => c.version <= master'[q]
               /\ \A v \in Seen(q)' :
                     /\ v <= version'
                     /\ unsent'[q] # None => v <= unsent'[q].version
                     /\ master'[q] \in Nat => v <= master'[q]
    <3>1. /\ version \in Nat
          /\ unsent[q] # None => unsent[q].version \in Nat
          /\ \A c \in InFlight(q) : c.version \in Nat
          /\ \A v \in Seen(q) : v \in Nat
      BY BoundTypes DEF Seen
    <3>2. CASE q = k
      BY <2>1, <2>2, <3>1, <3>2 DEF BoundInv
    <3>3. CASE q # k
      BY <2>1, <3>1, <3>3 DEF BoundInv
    <3> QED
      BY <3>2, <3>3
  <2> QED
    BY <2>3 DEF BoundInv
<1>2. ASSUME NEW k \in Keys, Publish(k) PROVE BoundInv'
  <2>1. /\ unsent[k] \in Change /\ unsent[k] # None
        /\ unsent'[k] = None /\ \A q \in Keys \ {k} : unsent'[q] = unsent[q]
        /\ UNCHANGED <<master, version>>
        /\ \A q \in Keys : Seen(q)' = Seen(q)
        /\ \A q \in Keys : InFlight(q)' \subseteq InFlight(q) \cup {c \in {unsent[k]} : q = k}
    <3>1. unsent[k] # None
      BY <1>2 DEF Publish
    <3> QED
      BY <1>2, <3>1, PublishEffect DEF Seen
  <2>2. /\ unsent[k].version <= version
        /\ master[k] \in Nat => unsent[k].version <= master[k]
    <3>1. master[k] \in Nat => master[k] = unsent[k].version
      BY <2>1, OutcomeType DEF StoredInv
    <3> QED
      BY <2>1, <3>1, OutcomeType DEF BoundInv
  <2>3. ASSUME NEW q \in Keys
        PROVE  /\ master'[q] \in Nat => master'[q] <= version'
               /\ unsent'[q] # None => unsent'[q].version <= version'
               /\ \A c \in InFlight(q)' :
                     /\ c.version <= version'
                     /\ unsent'[q] # None => c.version < unsent'[q].version
                     /\ master'[q] \in Nat => c.version <= master'[q]
               /\ \A v \in Seen(q)' :
                     /\ v <= version'
                     /\ unsent'[q] # None => v <= unsent'[q].version
                     /\ master'[q] \in Nat => v <= master'[q]
    <3>1. CASE q = k
      BY <2>1, <2>2, <3>1 DEF BoundInv
    <3>2. CASE q # k
      BY <2>1, <3>2 DEF BoundInv
    <3> QED
      BY <3>1, <3>2
  <2> QED
    BY <2>3 DEF BoundInv
<1>3. ASSUME UNCHANGED <<master, unsent, version>>, NEW q \in Keys,
             InFlight(q)' \subseteq InFlight(q),
             \A v \in Seen(q)' :
                v \in Seen(q) \/ v = master[q] \/ \E c \in InFlight(q) : v = c.version
      PROVE  /\ master'[q] \in Nat => master'[q] <= version'
             /\ unsent'[q] # None => unsent'[q].version <= version'
             /\ \A c \in InFlight(q)' :
                   /\ c.version <= version'
                   /\ unsent'[q] # None => c.version < unsent'[q].version
                   /\ master'[q] \in Nat => c.version <= master'[q]
             /\ \A v \in Seen(q)' :
                   /\ v <= version'
                   /\ unsent'[q] # None => v <= unsent'[q].version
                   /\ master'[q] \in Nat => v <= master'[q]
  <2>1. unsent[q] # None /\ master[q] \in Nat => master[q] = unsent[q].version
    BY BoundTypes, OutcomeType DEF StoredInv
  <2>2. ASSUME NEW v \in Seen(q)'
        PROVE  /\ v <= version
               /\ unsent[q] # None => v <= unsent[q].version
               /\ master[q] \in Nat => v <= master[q]
    <3>1. v \in Nat
      BY DEF Seen
    <3>2. CASE v \in Seen(q)
      BY <3>2 DEF BoundInv
    <3>3. CASE v = master[q]
      BY <2>1, <3>1, <3>3 DEF BoundInv
    <3>4. ASSUME NEW c \in InFlight(q), v = c.version
          PROVE  /\ v <= version
                 /\ unsent[q] # None => v <= unsent[q].version
                 /\ master[q] \in Nat => v <= master[q]
      <4>1. unsent[q] # None => v < unsent[q].version /\ unsent[q].version \in Nat
        BY <3>4, BoundTypes DEF BoundInv
      <4> QED
        BY <3>1, <3>4, <4>1 DEF BoundInv
    <3> QED
      BY <1>3, <3>2, <3>3, <3>4
  <2> QED
    BY <1>3, <2>2 DEF BoundInv
<1>4. ASSUME UNCHANGED <<master, unsent, version>>,
             \A k \in Keys :
                /\ InFlight(k)' \subseteq InFlight(k)
                /\ \A v \in Seen(k)' :
                      v \in Seen(k) \/ v = master[k] \/ \E c \in InFlight(k) : v = c.version
      PROVE  BoundInv'
  BY <1>3, <1>4 DEF BoundInv
<1> QED
  BY <1>1, <1>2, <1>4, SeenEffect

-----------------------------------------------------------------------------
(* Every step keeps what holds of a key that is not raced.  First what most steps leave   *)
(* alone, part by part.                                                                   *)

LEMMA CalmKept ==
    ASSUME NEW k, CalmInv(k), UNCHANGED <<master, unsent>>,
           link' = "registered" => link = "registered",
           \A c, d \in writing' : c.key = k /\ d.key = k => c = d \/ (c \in writing /\ d \in writing),
           InFlight(k)' \subseteq InFlight(k), Underway' \subseteq Underway
    PROVE  CalmInv(k)'
  BY DEF CalmInv

LEMMA NewerKept ==
    ASSUME NEW k, NewerInv(k), replica'[k] = replica[k],
           InFlight(k)' \subseteq InFlight(k), Underway' \subseteq Underway
    PROVE  NewerInv(k)'
  BY DEF NewerInv

LEMMA LatestKept ==
    ASSUME NEW k, LatestInv(k), UNCHANGED <<master, unsent>>, replica'[k] = replica[k],
           link' = "registered" => link = "registered",
           InFlight(k)' = InFlight(k), Underway' = Underway
    PROVE  LatestInv(k)'
  BY DEF LatestInv, Same

\* A key whose record stays as it is, and no handler of a bucket has more or less to do for.
LEMMA ResyncKept ==
    ASSUME NEW k, ResyncInv(k), replica'[k] = replica[k],
           \A t \in resyncs' : \/ t \in resyncs
                               \/ /\ t.data[k] # Absent => k \in t.toWrite
                                  /\ ~t.listed
                               \/ \E s \in resyncs :
                                     /\ t.data = s.data /\ t.listed = s.listed
                                     /\ k \in t.toWrite <=> k \in s.toWrite
                                     /\ k \in t.toDelete <=> k \in s.toDelete
    PROVE  ResyncInv(k)'
  BY DEF ResyncInv

\* While a key is not raced, all that is under way is what a handler has.
LEMMA OneUnderway ==
    ASSUME SingleInv, Keys \ raced # {}, NEW s \in resyncs
    PROVE  resyncs = {s} /\ Underway = {s.data}
<1>1. resyncs = {s} /\ DataIn(channel) = {} /\ snapshot = None
  BY DEF SingleInv
<1> QED
  BY <1>1, UnderwayIs

\* A step of the handler of a bucket for another key.
LEMMA HandledKept ==
    ASSUME NEW k, KeyInv(k), NEW s, NEW t, Handled(s, t), replica'[k] = replica[k],
           t.listed = s.listed,
           k \in t.toWrite <=> k \in s.toWrite,
           k \in t.toDelete <=> k \in s.toDelete
    PROVE  KeyInv(k)'
<1>1. /\ UNCHANGED <<master, unsent, link, writing>>
      /\ Underway' = Underway /\ InFlight(k)' = InFlight(k)
  BY HandledEffect DEF Handled
<1>2. CalmInv(k)'
  BY <1>1, CalmKept DEF KeyInv
<1>3. NewerInv(k)'
  BY <1>1, NewerKept DEF KeyInv
<1>4. LatestInv(k)'
  BY <1>1, LatestKept DEF KeyInv
<1>5. ResyncInv(k)'
  BY ResyncKept DEF KeyInv, Handled
<1> QED
  BY <1>2, <1>3, <1>4, <1>5 DEF KeyInv

LEMMA StoreKey ==
    ASSUME TypeOK, NEW q \in Keys, KeyInv(q), NEW k \in Keys, NEW kind \in Kinds, Store(k, kind)
    PROVE  KeyInv(q)'
<1>1. /\ unsent'[k] # None
      /\ q # k => master'[q] = master[q] /\ unsent'[q] = unsent[q]
      /\ UNCHANGED <<link, replica, writing, resyncs>>
      /\ Underway' = Underway /\ InFlight(q)' = InFlight(q)
  BY StoreEffect
<1>2. CalmInv(q)'
  BY <1>1 DEF KeyInv, CalmInv
<1>3. NewerInv(q)'
  BY <1>1, NewerKept DEF KeyInv
<1>4. LatestInv(q)'
  BY <1>1 DEF KeyInv, LatestInv, Same
<1>5. ResyncInv(q)'
  BY <1>1, ResyncKept DEF KeyInv
<1> QED
  BY <1>2, <1>3, <1>4, <1>5 DEF KeyInv

\* The change that is published is newer than all the replica has or will have, and what
\* the master has.
LEMMA PublishKey ==
    ASSUME TypeOK, StoredInv, BoundInv, NEW q \in Keys \ raced', KeyInv(q),
           NEW k \in Keys, Publish(k)
    PROVE  KeyInv(q)'
<1>1. /\ UNCHANGED <<master, link, replica, writing, resyncs>>
      /\ Underway' = Underway
      /\ InFlight(q) \subseteq InFlight(q)'
      /\ InFlight(q)' \subseteq InFlight(q) \cup {c \in {unsent[k]} : q = k}
  BY PublishEffect
<1>2. ResyncInv(q)'
  BY <1>1, ResyncKept DEF KeyInv
<1>3. CASE q # k
  <2>1. unsent'[q] = unsent[q] /\ InFlight(q)' = InFlight(q)
    BY <1>1, <1>3, PublishEffect
  <2>2. CalmInv(q)' /\ NewerInv(q)' /\ LatestInv(q)'
    BY <1>1, <2>1 DEF KeyInv, CalmInv, NewerInv, LatestInv, Same
  <2> QED
    BY <1>2, <2>2 DEF KeyInv
<1>4. CASE q = k /\ link # "registered"
  <2>1. InFlight(q)' = InFlight(q)
    BY <1>1, <1>4, PublishEffect, SameOnItsWay
  <2>2. CalmInv(q)' /\ NewerInv(q)' /\ LatestInv(q)'
    BY <1>1, <1>4, <2>1 DEF KeyInv, CalmInv, NewerInv, LatestInv
  <2> QED
    BY <1>2, <2>2 DEF KeyInv
<1>5. CASE q = k /\ link = "registered"
  <2> DEFINE c == unsent[k]
  <2>1. /\ c \in Change /\ c # None /\ c.key = k /\ master[k] = Outcome(c)
        /\ \A d \in Underway : d[k] = Outcome(c)
        /\ c \in InFlight(k)'
    <3>1. c # None
      BY DEF Publish
    <3>2. /\ c \in Change /\ c.key = k /\ \A d \in Underway : d[k] = Outcome(c)
          /\ ChangesIn(channel') = ChangesIn(channel) \cup {c}
      BY <1>5, PublishEffect
    <3> QED
      BY <3>1, <3>2 DEF StoredInv, InFlight
  <2>2. /\ c.version \in Nat
        /\ \A d \in InFlight(k) : d.version \in Nat /\ d.version < c.version
        /\ replica[k] \in Nat => replica[k] <= c.version
    BY <2>1, BoundTypes DEF BoundInv, Seen
  <2> HIDE DEF c
  <2>3. InFlight(k)' = InFlight(k) \cup {c}
    BY <1>1, <1>5, <2>1 DEF c
  <2>4. CalmInv(k)'
    BY <1>1, <1>5, <2>1, <2>3 DEF KeyInv, CalmInv
  <2>5. NewerInv(k)'
    BY <1>1, <1>5, <2>2, <2>3 DEF KeyInv, NewerInv
  <2>6. LatestInv(k)'
    <3>1. ASSUME NEW d \in InFlight(k)', \A e \in InFlight(k)' : e.version <= d.version
          PROVE  Outcome(d) = master'[k]
      <4>1. c.version <= d.version
        BY <2>1, <3>1
      <4>2. d = c
        BY <2>2, <2>3, <3>1, <4>1
      <4> QED
        BY <1>1, <2>1, <4>2
    <3> QED
      BY <2>1, <3>1 DEF LatestInv
  <2> QED
    BY <1>2, <1>5, <2>4, <2>5, <2>6 DEF KeyInv
<1> QED
  BY <1>3, <1>4, <1>5

\* A registration that finds no handler begins anew: the one bucket is what the master has.
LEMMA RegisterKey ==
    ASSUME TypeOK, LinkInv, BoundInv, Register, NEW q \in Keys \ raced'
    PROVE  KeyInv(q)'
<1>1. /\ UNCHANGED <<master, unsent, version, replica>>
      /\ writing' = {} /\ resyncs' = {}
      /\ Underway' = {master} /\ InFlight(q)' = {}
  BY RegisterEffect
<1>2. CalmInv(q)'
  BY <1>1 DEF CalmInv
<1>3. ResyncInv(q)'
  BY <1>1 DEF ResyncInv
<1>4. NewerInv(q)'
  BY <1>1 DEF NewerInv, BoundInv, Seen
<1>5. LatestInv(q)'
  BY <1>1 DEF LatestInv
<1> QED
  BY <1>2, <1>3, <1>4, <1>5 DEF KeyInv

\* A step between the master and the handlers that neither adds a change nor a bucket.
LEMMA TransportKey ==
    ASSUME NEW q, KeyInv(q), UNCHANGED <<master, unsent, replica>>,
           link' = "registered" => link = "registered",
           \A c, d \in writing' : c.key = q /\ d.key = q => c = d \/ (c \in writing /\ d \in writing),
           \/ InFlight(q)' = InFlight(q) /\ Underway' = Underway
           \/ link' = "down" /\ InFlight(q)' \subseteq InFlight(q) /\ Underway' \subseteq Underway,
           \A t \in resyncs' : t \in resyncs \/ (~t.listed /\ (t.data[q] # Absent => q \in t.toWrite))
    PROVE  KeyInv(q)'
<1>1. CalmInv(q)'
  BY CalmKept DEF KeyInv
<1>2. NewerInv(q)'
  BY NewerKept DEF KeyInv
<1>3. LatestInv(q)'
  <2>1. CASE link' = "down"
    BY <2>1 DEF LatestInv
  <2>2. CASE InFlight(q)' = InFlight(q) /\ Underway' = Underway
    BY <2>2, LatestKept DEF KeyInv
  <2> QED
    BY <2>1, <2>2
<1>4. ResyncInv(q)'
  BY ResyncKept DEF KeyInv
<1> QED
  BY <1>1, <1>2, <1>3, <1>4 DEF KeyInv

\* A change that is applied is the only one of its key in a handler, the oldest on its
\* way, and what every bucket has.
LEMMA ApplyKey ==
    ASSUME TypeOK, OrderInv, NEW q \in Keys \ raced, KeyInv(q), NEW c \in writing, ApplyChange(c)
    PROVE  KeyInv(q)'
<1>1. /\ c \in Change /\ writing' = writing \ {c}
      /\ UNCHANGED <<master, unsent, link, channel, resyncs>>
      /\ Underway' = Underway
      /\ q # c.key => InFlight(q)' = InFlight(q)
      /\ InFlight(q)' = InFlight(q) \ {c}
      /\ c \in InFlight(c.key)
  BY ApplyEffect
<1>2. \A k \in Keys : replica'[k] = IF k = c.key THEN Outcome(c) ELSE replica[k]
  BY <1>1 DEF ApplyChange, TypeOK, Change
<1>3. CalmInv(q)'
  BY <1>1, CalmKept DEF KeyInv
<1>4. CASE q # c.key
  <2>1. NewerInv(q)' /\ LatestInv(q)' /\ ResyncInv(q)'
    BY <1>1, <1>2, <1>4, NewerKept, LatestKept, ResyncKept DEF KeyInv
  <2> QED
    BY <1>3, <2>1 DEF KeyInv
<1>5. CASE q = c.key
  <2>1. /\ replica'[q] = Outcome(c)
        /\ Outcome(c) \in Nat => Outcome(c) = c.version
        /\ \A d \in Underway : d[q] = Outcome(c)
        /\ c.version \in Nat
    BY <1>1, <1>2, <1>5, OutcomeType DEF KeyInv, CalmInv
  <2>2. \A d \in InFlight(q)' : d \in Change /\ d.version \in Nat /\ c.version < d.version
    <3>1. ASSUME NEW d \in InFlight(q)' PROVE d \in ChangesIn(channel) /\ d.key = q
      <4>1. d \in InFlight(q) /\ d # c
        BY <1>1
      <4>2. d \notin writing
        BY <1>5, <4>1 DEF KeyInv, CalmInv, InFlight
      <4> QED
        BY <4>1, <4>2 DEF InFlight
    <3>2. ASSUME NEW d \in InFlight(q)' PROVE d \in Change /\ d.version \in Nat
      BY <1>1, SentTypes, OutcomeType
    <3> QED
      BY <1>5, <3>1, <3>2 DEF OrderInv
  <2>3. NewerInv(q)'
    <3>1. \A d \in InFlight(q)' : c.version <= d.version
      BY <2>1, <2>2
    <3>2. \A d \in Underway' : d[q] \in Nat => c.version <= d[q]
      BY <1>1, <2>1
    <3> QED
      BY <2>1, <3>1, <3>2 DEF NewerInv
  <2>4. LatestInv(q)'
    <3>1. SUFFICES ASSUME link = "registered", unsent[q] = None
                   PROVE  /\ \A d \in InFlight(q)' :
                                (\A e \in InFlight(q)' : e.version <= d.version) => Outcome(d) = master[q]
                          /\ InFlight(q)' = {} => Same(q)'
      BY <1>1 DEF LatestInv
    <3>2. ASSUME NEW d \in InFlight(q)', \A e \in InFlight(q)' : e.version <= d.version
          PROVE  Outcome(d) = master[q]
      <4>1. \A e \in InFlight(q) : e.version <= d.version
        <5>1. c.version <= d.version
          BY <2>1, <2>2
        <5> QED
          BY <1>1, <3>2, <5>1
      <4> QED
        BY <1>1, <3>1, <3>2, <4>1 DEF KeyInv, LatestInv
    <3>3. ASSUME InFlight(q)' = {} PROVE Same(q)'
      <4>1. InFlight(q) = {c}
        BY <1>1, <1>5, <3>3
      <4>2. c.version <= c.version
        BY <2>1
      <4>3. Outcome(c) = master[q]
        BY <3>1, <4>1, <4>2 DEF KeyInv, LatestInv
      <4> QED
        BY <1>1, <2>1, <4>3 DEF Same
    <3> QED
      BY <3>2, <3>3
  <2>5. ResyncInv(q)'
    <3>1. \A s \in resyncs : s.data[q] = Outcome(c)
      BY <2>1, UnderwayIs
    <3> QED
      BY <1>1, <2>1, <3>1 DEF ResyncInv
  <2> QED
    BY <1>3, <2>3, <2>4, <2>5 DEF KeyInv
<1> QED
  BY <1>4, <1>5

\* A handler writes what every change on its way agrees with, and is alone to do so.
LEMMA WriteKey ==
    ASSUME TypeOK, ShapeInv, SingleInv, NEW q \in Keys \ raced, KeyInv(q),
           NEW s \in resyncs, NEW t, NEW k, Wrote(s, t, k)
    PROVE  KeyInv(q)'
<1>1. \A p \in Keys : replica'[p] = IF p = k THEN s.data[k] ELSE replica[p]
  BY DEF Wrote, TypeOK
<1>2. CASE q # k
  <2>1. /\ Handled(s, t) /\ t.listed = s.listed /\ replica'[q] = replica[q]
        /\ q \in t.toWrite <=> q \in s.toWrite
        /\ q \in t.toDelete <=> q \in s.toDelete
    BY <1>1, <1>2 DEF Wrote
  <2> QED
    BY <2>1, HandledKept
<1>3. CASE q = k
  <2>1. resyncs = {s} /\ Underway = {s.data}
    BY OneUnderway
  <2>2. /\ UNCHANGED <<master, unsent, link, writing>> /\ resyncs' = {t} /\ t.data = s.data
        /\ Underway' = Underway /\ InFlight(q)' = InFlight(q)
        /\ replica'[q] = s.data[q] /\ s.data[q] # Absent /\ t.listed = s.listed /\ ~s.listed
    BY <1>1, <1>3, <2>1, HandledEffect DEF Wrote, Handled, ShapeInv, Present
  <2>3. CalmInv(q)'
    BY <2>2, CalmKept DEF KeyInv
  <2>4. ResyncInv(q)'
    BY <2>2 DEF ResyncInv
  <2>5. NewerInv(q)'
    <3>1. \A c \in InFlight(q) : c \in Change /\ Outcome(c) = s.data[q]
      BY <2>1, SentTypes DEF KeyInv, CalmInv
    <3>2. \A c \in InFlight(q) : c.version \in Nat /\ (s.data[q] \in Nat => s.data[q] = c.version)
      BY <3>1, OutcomeType
    <3> QED
      BY <2>1, <2>2, <3>2 DEF NewerInv
  <2>6. LatestInv(q)'
    BY <2>1, <2>2 DEF KeyInv, LatestInv
  <2> QED
    BY <2>3, <2>4, <2>5, <2>6 DEF KeyInv
<1> QED
  BY <1>2, <1>3

\* A handler deletes what its bucket does not have.
LEMMA DeleteKey ==
    ASSUME TypeOK, ShapeInv, SingleInv, NEW q \in Keys \ raced, KeyInv(q),
           NEW s \in resyncs, NEW t, NEW k, Deleted(s, t, k)
    PROVE  KeyInv(q)'
<1>1. \A p \in Keys : replica'[p] = IF p = k THEN Absent ELSE replica[p]
  BY DEF Deleted, TypeOK
<1>2. CASE q # k
  <2>1. /\ Handled(s, t) /\ t.listed = s.listed /\ replica'[q] = replica[q]
        /\ q \in t.toWrite <=> q \in s.toWrite
        /\ q \in t.toDelete <=> q \in s.toDelete
    BY <1>1, <1>2 DEF Deleted
  <2> QED
    BY <2>1, HandledKept
<1>3. CASE q = k
  <2>1. resyncs = {s} /\ Underway = {s.data}
    BY OneUnderway
  <2>2. /\ UNCHANGED <<master, unsent, link, writing>> /\ resyncs' = {t} /\ t.data = s.data
        /\ Underway' = Underway /\ InFlight(q)' = InFlight(q)
        /\ replica'[q] = Absent /\ s.data[q] = Absent
    BY <1>1, <1>3, <2>1, HandledEffect DEF Deleted, Handled, ShapeInv, Present
  <2>3. CalmInv(q)'
    BY <2>2, CalmKept DEF KeyInv
  <2>4. ResyncInv(q)'
    BY <2>2 DEF ResyncInv
  <2>5. NewerInv(q)'
    BY <2>2, NamesAssumption DEF NewerInv
  <2>6. LatestInv(q)'
    BY <2>1, <2>2 DEF KeyInv, LatestInv
  <2> QED
    BY <2>3, <2>4, <2>5, <2>6 DEF KeyInv
<1> QED
  BY <1>2, <1>3

\* Listed is what the handler has not written and the replica has.
LEMMA ListKey ==
    ASSUME TypeOK, ShapeInv, SingleInv, NEW q \in Keys \ raced, KeyInv(q),
           NEW s \in resyncs, NEW t, ListedAs(s, t)
    PROVE  KeyInv(q)'
<1>1. resyncs = {s} /\ Underway = {s.data}
  BY OneUnderway
<1>2. /\ UNCHANGED <<master, unsent, link, writing, replica>> /\ resyncs' = {t} /\ t.data = s.data
      /\ Underway' = Underway /\ InFlight(q)' = InFlight(q)
  BY <1>1, HandledEffect DEF ListedAs, Handled
<1>3. s.data[q] # Absent => replica[q] = s.data[q]
  BY DEF ListedAs, KeyInv, ResyncInv
<1>4. q \in t.toDelete \/ replica[q] = s.data[q]
  BY <1>3 DEF ListedAs, Present
<1>5. CalmInv(q)' /\ NewerInv(q)' /\ LatestInv(q)'
  BY <1>2, CalmKept, NewerKept, LatestKept DEF KeyInv
<1>6. ResyncInv(q)'
  BY <1>2, <1>3, <1>4 DEF ResyncInv
<1> QED
  BY <1>5, <1>6 DEF KeyInv

\* At its end the replica has what the bucket has, which is what the master has, unless a
\* change is on its way.
LEMMA EndKey ==
    ASSUME TypeOK, SingleInv, NEW q \in Keys \ raced', KeyInv(q), NEW s \in resyncs, Ended(s)
    PROVE  KeyInv(q)'
<1>1. resyncs = {s} /\ Underway = {s.data}
  BY OneUnderway DEF Ended
<1>2. /\ UNCHANGED <<master, unsent, link, writing, replica>> /\ resyncs' = {}
      /\ Underway' \subseteq Underway /\ InFlight(q)' = InFlight(q)
  BY <1>1, EndedEffect DEF Ended
<1>3. replica[q] = s.data[q] \/ (KeepLocal /\ s.data[q] = Absent)
  BY DEF Ended, KeyInv, ResyncInv, Present
<1>4. CalmInv(q)' /\ NewerInv(q)'
  BY <1>2, CalmKept, NewerKept DEF KeyInv
<1>5. ResyncInv(q)'
  BY <1>2 DEF ResyncInv
<1>6. LatestInv(q)'
  <2>1. link = "registered" /\ unsent[q] = None => s.data[q] = master[q]
    BY <1>1 DEF KeyInv, CalmInv
  <2> QED
    BY <1>2, <1>3, <2>1 DEF KeyInv, LatestInv, Same
<1> QED
  BY <1>4, <1>5, <1>6 DEF KeyInv

LEMMA KeyStep ==
    ASSUME IInv, Next, NEW q \in Keys \ raced'
    PROVE  KeyInv(q)'
<1> USE DEF IInv
<1>1. CASE Register
  BY <1>1, RegisterKey
<1>2. CASE raced \subseteq raced'
  <2>1. KeyInv(q) /\ q \in Keys \ raced
    BY <1>2
  <2>2. ASSUME NEW k \in Keys, NEW kind \in Kinds, Store(k, kind) PROVE KeyInv(q)'
    BY <2>1, <2>2, StoreKey
  <2>3. ASSUME NEW k \in Keys, Publish(k) PROVE KeyInv(q)'
    BY <2>1, <2>3, PublishKey
  <2>4. CASE SendBucket
    BY <2>1, <2>4, SendBucketEffect, TransportKey DEF SendBucket, masterVars, replicaVars
  <2>5. CASE Connect
    <3>1. /\ UNCHANGED <<master, unsent, replica, writing, resyncs>> /\ link' = "connected"
          /\ InFlight(q)' = InFlight(q) /\ Underway' = Underway
      BY <2>5, SameOnItsWay, UnderwayIs DEF Connect, masterVars, replicaVars
    <3> QED
      BY <2>1, <3>1, TransportKey
  <2>6. CASE Lost
    BY <2>1, <2>6, LostEffect, TransportKey DEF Lost
  <2>7. CASE ReceiveChange
    BY <2>1, <2>7, ReceiveChangeEffect, TransportKey
  <2>8. CASE ReceiveBucket
    <3>1. ASSUME NEW t \in resyncs'
          PROVE  t \in resyncs \/ (~t.listed /\ (t.data[q] # Absent => q \in t.toWrite))
      BY <2>8, ReceiveBucketEffect DEF Present
    <3> QED
      BY <2>1, <2>8, <3>1, ReceiveBucketEffect, TransportKey
  <2>9. ASSUME NEW c \in writing, ApplyChange(c) PROVE KeyInv(q)'
    BY <2>1, <2>9, ApplyKey
  <2>10. ASSUME NEW s \in resyncs, NEW t, NEW k, Wrote(s, t, k) PROVE KeyInv(q)'
    BY <2>1, <2>10, WriteKey
  <2>11. ASSUME NEW s \in resyncs, NEW t, NEW k, Deleted(s, t, k) PROVE KeyInv(q)'
    BY <2>1, <2>11, DeleteKey
  <2>12. ASSUME NEW s \in resyncs, NEW t, ListedAs(s, t) PROVE KeyInv(q)'
    BY <2>1, <2>12, ListKey
  <2>13. ASSUME NEW s \in resyncs, NEW t, NEW k, Skipped(s, t, k) PROVE KeyInv(q)'
    <3>1. /\ q # k /\ Handled(s, t) /\ replica'[q] = replica[q] /\ t.listed = s.listed
          /\ q \in t.toWrite <=> q \in s.toWrite
          /\ q \in t.toDelete <=> q \in s.toDelete
      BY <2>13 DEF Skipped
    <3> QED
      BY <2>1, <3>1, HandledKept
  <2>14. ASSUME NEW s \in resyncs, Ended(s) PROVE KeyInv(q)'
    BY <2>1, <2>14, EndKey
  <2>15. ASSUME NEW c \in writing, FailedChange(c) PROVE KeyInv(q)'
    <3>1. /\ UNCHANGED <<master, unsent, replica, link, resyncs>>
          /\ writing' \subseteq writing
          /\ InFlight(q)' = InFlight(q) /\ Underway' = Underway
      BY <2>15, ApplyEffect DEF FailedChange
    <3> QED
      BY <2>1, <3>1, TransportKey
  <2>16. CASE Idle
    <3>1. /\ UNCHANGED <<master, unsent, replica, link, writing, resyncs>>
          /\ InFlight(q)' = InFlight(q) /\ Underway' = Underway
      BY <2>16, BesideEffect DEF Idle
    <3> QED
      BY <2>1, <3>1, TransportKey
  <2>17. ASSUME NEW k \in Keys, Broadcast(k) PROVE KeyInv(q)'
    BY <2>1, <2>17, BroadcastEffect, TransportKey
  <2>18. CASE ListingFails
    BY <2>18 DEF ListingFails
  <2>19. CASE ReceiveBroadcast
    BY <2>1, <2>19, ReceiveBroadcastEffect, TransportKey
  <2>20. ASSUME NEW b \in storing, ApplyBroadcast(b) PROVE KeyInv(q)'
    <3>1. /\ UNCHANGED <<master, unsent, link, snapshot, writing, resyncs, raced>>
          /\ InFlight(q)' = InFlight(q) /\ Underway' = Underway
      BY <2>20, BesideEffect DEF ApplyBroadcast, masterVars, linkVars
    <3>2. replica'[q] = replica[q]
      <4>1. b.key # q
        BY <2>1 DEF ForeignInv
      <4> QED
        BY <2>20, <4>1 DEF ApplyBroadcast, TypeOK
    <3>3. CalmInv(q)' /\ NewerInv(q)' /\ LatestInv(q)' /\ ResyncInv(q)'
      BY <2>1, <3>1, <3>2, CalmKept, NewerKept, LatestKept, ResyncKept DEF KeyInv
    <3> QED
      BY <3>3 DEF KeyInv
  <2> QED
    BY <1>1, <2>2, <2>3, <2>4, <2>5, <2>6, <2>7, <2>8, <2>9, <2>10, <2>11, <2>12, <2>13, <2>14,
       <2>15, <2>16, <2>17, <2>18, <2>19, <2>20, Steps
<1>3. Register \/ raced \subseteq raced'
  BY ChannelSteps, PublishEffect, ReceiveChangeEffect
     DEF Broadcast, SendBucket, Lost, ReceiveBroadcast, ReceiveBucket
<1> QED
  BY <1>1, <1>2, <1>3

-----------------------------------------------------------------------------
LEMMA InitInv == Init => IInv
<1> SUFFICES ASSUME Init PROVE IInv
  OBVIOUS
<1>1. 0 \in Versions
  BY BoundsAssumption DEF Versions
<1>2. TypeOK
  BY <1>1, BoundsAssumption DEF Init, TypeOK, Contents
<1>3. ChangesIn(channel) = {} /\ DataIn(channel) = {}
  BY DEF Init, ChangesIn, DataIn, Messages
<1>4. Underway = {} /\ \A k : InFlight(k) = {}
  BY <1>3, UnderwayIs DEF Init, InFlight
<1>5. LinkInv /\ StoredInv /\ ShapeInv
  BY DEF Init, LinkInv, StoredInv, ShapeInv
<1>6. BoundInv
  <2>1. \A k \in Keys : Seen(k) = {}
    BY <1>4, NamesAssumption DEF Init, Seen
  <2>2. \A k \in Keys : unsent[k] = None /\ master[k] \in {0, Absent}
    BY DEF Init
  <2>3. version = 0 /\ Absent \notin Nat
    BY NamesAssumption DEF Init
  <2>4. \A k \in Keys : master[k] \in Nat => master[k] = version
    BY <2>2, <2>3
  <2>5. version <= version
    BY <2>3
  <2>6. ASSUME NEW k \in Keys
        PROVE  /\ master[k] \in Nat => master[k] <= version
               /\ unsent[k] = None
               /\ InFlight(k) = {} /\ Seen(k) = {}
    BY <1>4, <2>1, <2>2, <2>4, <2>5
  <2> QED
    BY <2>6 DEF BoundInv
<1>7. OrderInv
  BY DEF Init, OrderInv
<1>8. SingleInv /\ \A k \in Keys \ raced : KeyInv(k)
  BY DEF Init, SingleInv
<1>9. ForeignInv
  BY DEF Init, ForeignInv, ForeignIn, Messages
<1> QED
  BY <1>2, <1>5, <1>6, <1>7, <1>8, <1>9 DEF IInv

LEMMA NextInv == IInv /\ Next => IInv'
<1> SUFFICES ASSUME IInv, Next PROVE IInv'
  OBVIOUS
<1>1. /\ TypeOK' /\ LinkInv' /\ StoredInv' /\ BoundInv' /\ OrderInv' /\ ShapeInv' /\ SingleInv'
      /\ ForeignInv'
  BY TypeStep, LinkStep, StoredStep, BoundStep, OrderStep, ShapeStep, SingleStep, ForeignStep DEF IInv
<1>2. \A k \in Keys \ raced' : KeyInv(k)'
  BY KeyStep
<1> QED
  BY <1>1, <1>2 DEF IInv

LEMMA StutterInv == IInv /\ UNCHANGED vars => IInv'
<1> SUFFICES ASSUME IInv, UNCHANGED vars PROVE IInv'
  OBVIOUS
<1> USE DEF vars, masterVars, linkVars, replicaVars
<1>1. Underway' = Underway /\ \A k : InFlight(k)' = InFlight(k) /\ Seen(k)' = Seen(k)
  BY DEF Underway, InFlight, Seen
<1>2. TypeOK' /\ LinkInv' /\ StoredInv' /\ OrderInv' /\ ShapeInv' /\ SingleInv' /\ ForeignInv'
  BY DEF IInv, TypeOK, LinkInv, StoredInv, OrderInv, ShapeInv, SingleInv, ForeignInv
<1>3. BoundInv'
  BY <1>1 DEF IInv, BoundInv
<1>4. \A k \in Keys \ raced' : KeyInv(k)'
  BY <1>1 DEF IInv, KeyInv, CalmInv, ResyncInv, NewerInv, LatestInv, Same
<1> QED
  BY <1>2, <1>3, <1>4 DEF IInv

\* What holds all the time of the replica and of what is on its way.
THEOREM Invariance == Spec => []IInv
  BY InitInv, NextInv, StutterInv, PTL DEF Spec

\* Every variable stays within its type.
THEOREM TypeCorrect == Spec => []TypeOK
  BY Invariance, PTL DEF IInv

\* Whenever nothing is on its way, the replica has what the master has of every key that
\* was not raced since the last bucket: a registration that finds no handler of an earlier
\* connection (receiveReplicationMessage) makes good all that was lost.
THEOREM Agreement == Spec => []Agrees
<1>1. IInv => Agrees
  <2>1. SUFFICES ASSUME IInv, Quiet, NEW k \in Keys \ raced PROVE Same(k)
    BY DEF Agrees, Same
  <2>2. /\ snapshot = None /\ channel = <<>> /\ writing = {} /\ resyncs = {}
        /\ link = "registered" /\ unsent[k] = None
    BY <2>1 DEF Quiet
  <2>3. Underway = {} /\ InFlight(k) = {}
    BY <2>2, UnderwayIs DEF ChangesIn, DataIn, Messages, InFlight
  <2> QED
    BY <2>1, <2>2, <2>3 DEF IInv, KeyInv, LatestInv
<1> QED
  BY <1>1, Invariance, PTL

\* No step of a handler takes such a key back to an older version, although the handlers
\* of changes and of a bucket run at once.
THEOREM NoReturn == Spec => NoStepBack
<1> DEFINE NoBack == \A k \in Keys \ raced' :
                        {replica[k], replica'[k]} \subseteq Nat => replica[k] <= replica'[k]
<1>1. ASSUME IInv, Next PROVE NoBack
  <2>1. ASSUME replica' = replica PROVE NoBack
    BY <2>1
  <2>2. ASSUME NEW c \in writing, ApplyChange(c) PROVE NoBack
    <3>1. c \in Change /\ c \in InFlight(c.key) /\ raced' = raced
      BY <1>1, <2>2, ApplyEffect DEF IInv, ApplyChange
    <3>2. \A k \in Keys : replica'[k] = IF k = c.key THEN Outcome(c) ELSE replica[k]
      BY <1>1, <2>2, <3>1 DEF ApplyChange, IInv, TypeOK, Change
    <3>3. Outcome(c) \in Nat => Outcome(c) = c.version
      BY <3>1, OutcomeType
    <3> QED
      BY <1>1, <3>1, <3>2, <3>3 DEF IInv, KeyInv, NewerInv
  <2>3. ASSUME NEW s \in resyncs, NEW t, NEW k, Wrote(s, t, k) PROVE NoBack
    <3>1. \A q \in Keys : replica'[q] = IF q = k THEN s.data[k] ELSE replica[q]
      BY <1>1, <2>3 DEF Wrote, IInv, TypeOK
    <3>2. s.data \in Underway /\ raced' = raced
      BY <2>3, UnderwayIs DEF Wrote
    <3> QED
      BY <1>1, <3>1, <3>2 DEF IInv, KeyInv, NewerInv
  <2>4. ASSUME NEW s \in resyncs, NEW t, NEW k, Deleted(s, t, k) PROVE NoBack
    <3>1. \A q \in Keys : replica'[q] = IF q = k THEN Absent ELSE replica[q]
      BY <1>1, <2>4 DEF Deleted, IInv, TypeOK
    <3> QED
      BY <3>1, NamesAssumption
  <2>6. ASSUME NEW b \in storing, ApplyBroadcast(b) PROVE NoBack
    <3>1. \A q \in Keys : replica'[q] \in {replica[q], Local}
      BY <1>1, <2>6 DEF ApplyBroadcast, IInv, TypeOK
    <3>2. \A q \in Keys : replica[q] \in Nat => replica[q] <= replica[q]
      OBVIOUS
    <3> QED
      BY <3>1, <3>2, NamesAssumption
  <2>5. \/ replica' = replica
        \/ \E c \in writing : ApplyChange(c)
        \/ \E b \in storing : ApplyBroadcast(b)
        \/ \E s \in resyncs : \E t, k : Wrote(s, t, k) \/ Deleted(s, t, k)
    BY <1>1, Steps DEF IInv, Store, Publish, Broadcast, Register, SendBucket, ListingFails, Connect,
       Lost, ReceiveChange, ReceiveBroadcast, ReceiveBucket, ListedAs, Skipped, Ended, FailedChange,
       Idle, replicaVars
  <2> QED
    BY <2>1, <2>2, <2>3, <2>4, <2>5, <2>6
<1>2. Spec => [][NoBack]_vars
  BY <1>1, Invariance, PTL DEF Spec
<1> QED
  BY <1>2 DEF NoStepBack
=============================================================================
