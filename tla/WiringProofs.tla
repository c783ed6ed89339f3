---------------------------- MODULE WiringProofs ----------------------------
(***************************************************************************)
(* The safety properties of Wiring, for every set of buckets, masters and  *)
(* virtual paths and every number of edits, failures and restarts.         *)
(***************************************************************************)
EXTENDS Wiring, SequenceTheorems, TLAPS

\* Until its handlers have come to a virtual path or a bucket, something is on its way
\* that will route it.
RoutingInv ==
    phase = "serving" =>
        /\ unannounced = 0 /\ loads = 0 => stored \ unlisted \subseteq routed \cup UNION listed
        /\ scans = 0 => {b \in Buckets : Exists(b)} \subseteq routed \cup opening \cup missed

\* The client of the map connects to the address its bucket is configured with, unless
\* a handler has not run yet or there is no event to start one.  The client of a bucket
\* that was deleted is still there.
CurrentInv ==
    \A b \in Buckets : current[b] # 0 =>
        /\ Exists(b) /\ b \notin opening \cup missed /\ scans = 0 =>
              /\ config[b] # Off
              /\ made[b][current[b]].uri = Uri(config[b])
        /\ Exists(b) \/ b \in missed

IInv ==
    /\ TypeOK
    /\ RetryingIsCurrent /\ ConnectedIsTrue
    /\ RoutingInv /\ CurrentInv

-----------------------------------------------------------------------------
(* What the handlers do to the clients of a bucket. *)

\* Disconnecting keeps the address, the bucket object and any connection of a client.
LEMMA DisconnectEffect ==
    ASSUME NEW c \in Client
    PROVE  /\ Disconnect(c) \in Client
           /\ Disconnect(c).uri = c.uri /\ Disconnect(c).object = c.object
           /\ ~Disconnect(c).doReconnect
           /\ c.state \in {"open", "closing"} => Disconnect(c).state \in {"open", "closing"}
  BY DEF Client, ClientStates, Disconnect

\* killWebSocket changes no client but the current one, which it disconnects.
LEMMA DisconnectedEffect ==
    ASSUME TypeOK, NEW b \in Buckets
    PROVE  /\ Disconnected(b) \in Seq(Client)
           /\ Len(Disconnected(b)) = Len(made[b])
           /\ \A i \in DOMAIN made[b] :
                 Disconnected(b)[i] = IF i = current[b] THEN Disconnect(made[b][i]) ELSE made[b][i]
<1> DEFINE i == current[b]
<1>1. made[b] \in Seq(Client) /\ i \in 0 .. Len(made[b])
  BY DEF TypeOK
<1>2. CASE i = 0
  BY <1>1, <1>2 DEF Disconnected
<1>3. CASE i # 0
  <2>1. i \in DOMAIN made[b] /\ made[b][i] \in Client
    BY <1>1, <1>3, ElementOfSeq
  <2>2. Disconnected(b) = [made[b] EXCEPT ![i] = Disconnect(made[b][i])]
    BY <1>3, <2>1 DEF Disconnected
  <2>3. Disconnect(made[b][i]) \in Client
    BY <2>1, DisconnectEffect
  <2> HIDE DEF i
  <2> QED
    BY <1>1, <2>1, <2>2, <2>3, ExceptSeq DEF i
<1> QED
  BY <1>2, <1>3

\* A new client is current and the last; without a configuration there is none; a client
\* that is kept is what it was.
LEMMA InitClientsEffect ==
    ASSUME TypeOK, InitReplicationClients, NEW b \in Buckets
    PROVE  \/ /\ ~Exists(b) \/ Keeps(b)
              /\ made'[b] = made[b] /\ current'[b] = current[b]
           \/ /\ Exists(b) /\ config[b] = Off
              /\ made'[b] = Disconnected(b) /\ current'[b] = 0
           \/ /\ Exists(b) /\ config[b] # Off
              /\ made'[b] = Append(Disconnected(b), NewClient(b))
              /\ current'[b] = Len(made[b]) + 1
              /\ NewClient(b) \in Client
<1>1. CASE ~Exists(b) \/ Keeps(b)
  BY <1>1 DEF InitReplicationClients
<1>2. CASE Exists(b) /\ ~Keeps(b) /\ config[b] = Off
  BY <1>2 DEF InitReplicationClients
<1>3. CASE Exists(b) /\ ~Keeps(b) /\ config[b] # Off
  <2>1. NewClient(b) \in Client
    BY <1>3 DEF NewClient, Client, ClientStates, TypeOK
  <2>2. /\ made'[b] = Append(Disconnected(b), NewClient(b))
        /\ current'[b] = Len(made'[b])
    BY <1>3 DEF InitReplicationClients
  <2>3. Len(made'[b]) = Len(made[b]) + 1
    BY <2>1, <2>2, DisconnectedEffect, AppendProperties
  <2> QED
    BY <1>3, <2>1, <2>2, <2>3
<1> QED
  BY <1>1, <1>2, <1>3

\* Becomes changes the state of one client.
LEMMA BecomesEffect ==
    ASSUME TypeOK, NEW b \in Buckets, NEW i \in DOMAIN made[b], NEW state \in ClientStates,
           Becomes(b, i, state)
    PROVE  /\ made' \in [Buckets -> Seq(Client)]
           /\ \A a \in Buckets : Len(made'[a]) = Len(made[a]) /\ DOMAIN made'[a] = DOMAIN made[a]
           /\ \A a \in Buckets : \A j \in DOMAIN made[a] :
                 /\ made'[a][j] \in Client
                 /\ made'[a][j].uri = made[a][j].uri /\ made'[a][j].object = made[a][j].object
                 /\ made'[a][j].doReconnect = made[a][j].doReconnect
                 /\ made'[a][j].state = IF a = b /\ j = i THEN state ELSE made[a][j].state
<1> DEFINE c == [made[b][i] EXCEPT !.state = state]
           s == [made[b] EXCEPT ![i] = c]
<1>1. made[b] \in Seq(Client) /\ made[b][i] \in Client
  BY ElementOfSeq DEF TypeOK
<1>2. /\ c \in Client /\ c.uri = made[b][i].uri /\ c.object = made[b][i].object
      /\ c.doReconnect = made[b][i].doReconnect /\ c.state = state
  BY <1>1 DEF Client
<1>3. made' = [made EXCEPT ![b] = s]
  BY DEF Becomes
<1> HIDE DEF c
<1>4. /\ s \in Seq(Client) /\ Len(s) = Len(made[b]) /\ DOMAIN s = DOMAIN made[b] /\ s[i] = c
      /\ \A j \in DOMAIN made[b] : j # i => s[j] = made[b][j]
  BY <1>1, <1>2, ExceptSeq
<1> HIDE DEF s
<1>5. /\ made' \in [Buckets -> Seq(Client)] /\ made'[b] = s
      /\ \A a \in Buckets \ {b} : made'[a] = made[a]
  BY <1>3, <1>4 DEF TypeOK
<1>6. \A a \in Buckets : \A j \in DOMAIN made[a] : made[a][j] \in Client
  BY ElementOfSeq DEF TypeOK
<1> QED
  BY <1>1, <1>2, <1>4, <1>5, <1>6

\* createBucket leaves the name with a bucket object: the one it had, or one that is not
\* connected.
LEMMA CreateEffect ==
    ASSUME TypeOK, NEW b \in Buckets, Create(b)
    PROVE  /\ object' \in [Buckets -> Nat] /\ objects' \in [Buckets -> Nat]
           /\ connected' \in [Buckets -> BOOLEAN]
           /\ object'[b] # 0
           /\ (object'[b] = object[b] /\ connected'[b] = connected[b]) \/ ~connected'[b]
           /\ \A a \in Buckets \ {b} : object'[a] = object[a] /\ connected'[a] = connected[a]
<1>1. CASE Exists(b)
  BY <1>1 DEF Create, Exists, TypeOK
<1>2. CASE ~Exists(b)
  <2>1. /\ objects' = [objects EXCEPT ![b] = @ + 1]
        /\ object' = [object EXCEPT ![b] = objects[b] + 1]
        /\ connected' = [connected EXCEPT ![b] = FALSE]
    BY <1>2 DEF Create
  <2> QED
    BY <2>1 DEF TypeOK
<1> QED
  BY <1>1, <1>2

-----------------------------------------------------------------------------
(* Every step preserves each part of the invariant. *)

\* Every variable keeps its type.
LEMMA TypeStep ==
    ASSUME TypeOK, [Next]_vars
    PROVE  TypeOK'
<1> USE DEF TypeOK, bucketVars, clientVars, pathVars
<1>1. ASSUME InitReplicationClients
      PROVE  /\ made' \in [Buckets -> Seq(Client)]
             /\ \A b \in Buckets : current'[b] \in 0 .. Len(made'[b])
  <2>1. ASSUME NEW b \in Buckets
        PROVE  made'[b] \in Seq(Client) /\ current'[b] \in 0 .. Len(made'[b])
    <3>1. Disconnected(b) \in Seq(Client) /\ Len(Disconnected(b)) = Len(made[b])
      BY DisconnectedEffect
    <3>2. NewClient(b) \in Client =>
            /\ Append(Disconnected(b), NewClient(b)) \in Seq(Client)
            /\ Len(Append(Disconnected(b), NewClient(b))) = Len(made[b]) + 1
      BY <3>1, AppendProperties
    <3>3. Len(made[b]) \in Nat
      BY LenProperties
    <3>4. CASE made'[b] = made[b] /\ current'[b] = current[b]
      BY <3>4
    <3>5. CASE made'[b] = Disconnected(b) /\ current'[b] = 0
      BY <3>1, <3>3, <3>5
    <3>6. CASE /\ made'[b] = Append(Disconnected(b), NewClient(b)) /\ NewClient(b) \in Client
               /\ current'[b] = Len(made[b]) + 1
      BY <3>2, <3>3, <3>6
    <3> QED
      BY <1>1, <3>4, <3>5, <3>6, InitClientsEffect
  <2>2. made' = [b \in Buckets |-> made'[b]]
    BY <1>1 DEF InitReplicationClients
  <2> QED
    BY <2>1, <2>2
<1>2. CASE Start
  BY <1>1, <1>2 DEF Start
<1>3. CASE Scanned
  BY <1>1, <1>3 DEF Scanned
<1>4. ASSUME NEW b \in Buckets, NEW c \in Masters \cup {Off}, Configure(b, c) PROVE TypeOK'
  <2>1. object' \in [Buckets -> Nat] /\ objects' \in [Buckets -> Nat] /\ connected' \in [Buckets -> BOOLEAN]
    BY <1>4, CreateEffect DEF Configure
  <2>2. edits' \in 0 .. MaxEdits
    BY <1>4, BoundsAssumption DEF Configure, Edit
  <2> QED
    BY <1>4, <2>1, <2>2 DEF Configure
<1>5. ASSUME NEW b \in Buckets, Configured(b) PROVE TypeOK'
  BY <1>5 DEF Configured
<1>6. ASSUME NEW b \in Buckets, OpenFails(b) PROVE TypeOK'
  BY <1>6, BoundsAssumption DEF OpenFails
<1>7. ASSUME NEW b \in Buckets, FirstWrite(b) PROVE TypeOK'
  <2>1. object' \in [Buckets -> Nat] /\ objects' \in [Buckets -> Nat] /\ connected' \in [Buckets -> BOOLEAN]
    BY <1>7, CreateEffect DEF FirstWrite
  <2> QED
    BY <1>7, <2>1, BoundsAssumption DEF FirstWrite, Edit
<1>8. ASSUME NEW b \in Buckets, Delete(b) PROVE TypeOK'
  BY <1>8, BoundsAssumption DEF Delete, Edit
<1>9. ASSUME NEW b \in Buckets, NEW i \in DOMAIN made[b], NEW state \in ClientStates, Becomes(b, i, state),
             UNCHANGED current
      PROVE  /\ made' \in [Buckets -> Seq(Client)]
             /\ \A a \in Buckets : current'[a] \in 0 .. Len(made'[a])
  BY <1>9, BecomesEffect
<1>10. ASSUME NEW b \in Buckets, NEW i \in DOMAIN made[b], ClientStep(b, i) PROVE TypeOK'
  BY <1>9, <1>10 DEF ClientStep, Established, Closed, OnClose, Timer, Reconnect, Report, ClientStates
<1>11. ASSUME NEW b \in Buckets, NEW i \in DOMAIN made[b], ConnectFailed(b, i) PROVE TypeOK'
  <2>1. failures' \in 0 .. MaxFailures
    BY <1>11, BoundsAssumption DEF ConnectFailed
  <2> QED
    BY <1>9, <1>11, <2>1 DEF ConnectFailed, Reconnect, Report, ClientStates
<1>12. ASSUME NEW b \in Buckets, NEW i \in DOMAIN made[b], Lost(b, i) PROVE TypeOK'
  BY <1>9, <1>12, BoundsAssumption DEF Lost, OnClose, Reconnect, Report, ClientStates
<1>13. ASSUME NEW b \in Buckets, NEW i \in DOMAIN made[b], Message(b, i) PROVE TypeOK'
  <2>1. made[b][i] \in Client
    BY ElementOfSeq
  <2>2. made[b][i].uri \in {Uri(m) : m \in Masters}
    BY <2>1 DEF Client
  <2> QED
    BY <1>13, <2>2 DEF Message
<1>14. ASSUME NEW p \in Paths, EditPath(p) PROVE TypeOK'
  BY <1>14, BoundsAssumption DEF EditPath, Edit
<1>15. CASE PathEdited
  BY <1>15 DEF PathEdited
<1>16. CASE Load
  BY <1>16, BoundsAssumption DEF Load
<1>20. CASE LoadFails
  BY <1>20, BoundsAssumption DEF LoadFails
<1>17. ASSUME NEW paths \in listed, ApplyRouting(paths) PROVE TypeOK'
  BY <1>17 DEF ApplyRouting
<1>18. CASE Crash
  <2>1. \A b \in Buckets : made'[b] = <<>> /\ current'[b] = 0
    BY <1>18 DEF Crash
  <2> QED
    BY <1>18, <2>1, BoundsAssumption DEF Crash
<1>19. CASE UNCHANGED vars
  BY <1>19 DEF vars
<1> QED
  BY <1>2, <1>3, <1>4, <1>5, <1>6, <1>7, <1>8, <1>10, <1>11, <1>12, <1>13, <1>14, <1>15, <1>16, <1>17, <1>18, <1>19, <1>20 DEF Next

\* Of a new set of clients, again, the current one is the one that reconnects, and no
\* connection of a bucket object has gone.
LEMMA InitClientsKeeps ==
    ASSUME TypeOK, RetryingIsCurrent, InitReplicationClients, NEW b \in Buckets
    PROVE  /\ \A i \in DOMAIN made'[b] : made'[b][i].doReconnect <=> i = current'[b]
           /\ \A i \in DOMAIN made[b] :
                 /\ i \in DOMAIN made'[b] /\ made'[b][i].object = made[b][i].object
                 /\ made[b][i].state \in {"open", "closing"} => made'[b][i].state \in {"open", "closing"}
<1> DEFINE d == Disconnected(b)
<1>1. /\ made[b] \in Seq(Client) /\ current[b] \in 0 .. Len(made[b])
      /\ \A i \in DOMAIN made[b] : made[b][i] \in Client
  BY ElementOfSeq DEF TypeOK
<1>2. /\ d \in Seq(Client) /\ DOMAIN d = DOMAIN made[b] /\ Len(d) = Len(made[b])
      /\ \A i \in DOMAIN made[b] : d[i] = IF i = current[b] THEN Disconnect(made[b][i]) ELSE made[b][i]
  BY <1>1, DisconnectedEffect
<1> HIDE DEF d
<1>3. /\ \A i \in DOMAIN d : ~d[i].doReconnect
      /\ \A i \in DOMAIN made[b] :
            /\ d[i].object = made[b][i].object
            /\ made[b][i].state \in {"open", "closing"} => d[i].state \in {"open", "closing"}
  BY <1>1, <1>2, DisconnectEffect DEF RetryingIsCurrent
<1>4. CASE made'[b] = made[b] /\ current'[b] = current[b]
  BY <1>4 DEF RetryingIsCurrent
<1>5. CASE made'[b] = d /\ current'[b] = 0
  BY <1>1, <1>2, <1>3, <1>5
<1>6. CASE /\ made'[b] = Append(d, NewClient(b)) /\ NewClient(b) \in Client
           /\ current'[b] = Len(made[b]) + 1
  <2>1. /\ DOMAIN made'[b] = 1 .. (Len(d) + 1)
        /\ \A i \in DOMAIN d : made'[b][i] = d[i]
        /\ made'[b][Len(d) + 1] = NewClient(b)
    BY <1>2, <1>6, AppendProperties
  <2>2. NewClient(b).doReconnect
    BY DEF NewClient
  <2> QED
    BY <1>1, <1>2, <1>3, <1>6, <2>1, <2>2
<1> QED
  BY <1>4, <1>5, <1>6, InitClientsEffect DEF d

\* A client is only replaced together with its place in the map, and a connection that
\* ends is reported to the bucket object it belongs to.
LEMMA ClientsStep ==
    ASSUME TypeOK, RetryingIsCurrent, ConnectedIsTrue, [Next]_vars
    PROVE  RetryingIsCurrent' /\ ConnectedIsTrue'
<1> USE DEF bucketVars, clientVars, pathVars, Exists
<1> DEFINE Goal == RetryingIsCurrent' /\ ConnectedIsTrue'
<1>1. ASSUME InitReplicationClients, UNCHANGED <<object, connected>> PROVE Goal
  BY <1>1, InitClientsKeeps DEF RetryingIsCurrent, ConnectedIsTrue
<1>2. ASSUME UNCHANGED <<made, current, object, connected>> PROVE Goal
  BY <1>2 DEF RetryingIsCurrent, ConnectedIsTrue
<1>3. ASSUME NEW b \in Buckets, Create(b), UNCHANGED <<made, current>> PROVE Goal
  BY <1>3, CreateEffect DEF RetryingIsCurrent, ConnectedIsTrue
<1>4. ASSUME NEW b \in Buckets, Delete(b) PROVE Goal
  <2>1. object'[b] = 0 /\ \A a \in Buckets \ {b} : object'[a] = object[a]
    BY <1>4 DEF Delete, TypeOK
  <2> QED
    BY <1>4, <2>1 DEF Delete, RetryingIsCurrent, ConnectedIsTrue
<1>5. ASSUME NEW b \in Buckets, NEW i \in DOMAIN made[b], NEW state \in ClientStates, NEW up \in BOOLEAN,
             Becomes(b, i, state), Report(b, made[b][i], up),
             up <=> state = "open", UNCHANGED <<current, object>>
      PROVE  Goal
  <2>1. \A a \in Buckets \ {b} : connected'[a] = connected[a]
    BY <1>5 DEF Report, TypeOK
  <2>2. IF made[b][i].object = object[b] THEN connected'[b] = up ELSE connected'[b] = connected[b]
    BY <1>5 DEF Report, TypeOK
  <2>3. RetryingIsCurrent'
    BY <1>5, BecomesEffect DEF RetryingIsCurrent
  <2>4. ASSUME NEW a \in Buckets, Exists(a), connected'[a]
        PROVE  \E j \in DOMAIN made'[a] :
                  made'[a][j].object = object'[a] /\ made'[a][j].state \in {"open", "closing"}
    <3>1. CASE a = b /\ made[b][i].object = object[b]
      BY <1>5, <2>2, <2>4, <3>1, BecomesEffect
    <3>2. CASE ~(a = b /\ made[b][i].object = object[b])
      <4>1. PICK j \in DOMAIN made[a] :
                made[a][j].object = object[a] /\ made[a][j].state \in {"open", "closing"}
        BY <2>1, <2>2, <2>4, <3>2 DEF ConnectedIsTrue
      <4> QED
        BY <1>5, <3>2, <4>1, BecomesEffect
    <3> QED
      BY <3>1, <3>2
  <2> QED
    BY <1>5, <2>3, <2>4 DEF ConnectedIsTrue
<1>6. ASSUME NEW b \in Buckets, NEW i \in DOMAIN made[b], ClientStep(b, i) PROVE Goal
  <2>1. CASE Established(b, i)
    BY <1>5, <2>1 DEF Established, ClientStates
  <2>2. CASE Closed(b, i)
    BY <1>5, <2>2 DEF Closed, OnClose, Reconnect, ClientStates
  <2>3. CASE Timer(b, i)
    <3>1. Becomes(b, i, "connecting") /\ made[b][i].state = "waiting" /\ "connecting" \in ClientStates
      BY <2>3 DEF Timer, ClientStates
    <3>2. \A a \in Buckets : \A j \in DOMAIN made[a] :
             /\ j \in DOMAIN made'[a] /\ made'[a][j].object = made[a][j].object
             /\ made[a][j].state \in {"open", "closing"} => made'[a][j].state = made[a][j].state
      BY <3>1, BecomesEffect
    <3>3. RetryingIsCurrent'
      BY <2>3, <3>1, BecomesEffect DEF Timer, RetryingIsCurrent
    <3> QED
      BY <2>3, <3>2, <3>3 DEF Timer, ConnectedIsTrue
  <2> QED
    BY <1>6, <2>1, <2>2, <2>3 DEF ClientStep
<1>7. ASSUME NEW b \in Buckets, NEW i \in DOMAIN made[b], ConnectFailed(b, i) \/ Lost(b, i) PROVE Goal
  BY <1>5, <1>7 DEF ConnectFailed, Lost, OnClose, Reconnect, ClientStates
<1>8. CASE Crash
  <2>1. \A b \in Buckets : made'[b] = <<>> /\ ~connected'[b]
    BY <1>8 DEF Crash
  <2> QED
    BY <2>1 DEF RetryingIsCurrent, ConnectedIsTrue
<1> QED
  BY <1>1, <1>2, <1>3, <1>4, <1>6, <1>7, <1>8
  DEF Next, Start, Scanned, Configure, Configured, OpenFails, FirstWrite, Message, EditPath, PathEdited,
      Load, LoadFails, ApplyRouting, vars

\* A change is followed by a handler that has not yet listed, a listing that is not yet
\* routed, or a route; the handlers never take one away.
LEMMA RoutingStep ==
    ASSUME TypeOK, RoutingInv, [Next]_vars
    PROVE  RoutingInv'
<1> USE DEF RoutingInv, bucketVars, clientVars, pathVars, Exists
<1>1. CASE Start
  BY <1>1 DEF Start
<1>2. CASE Scanned
  BY <1>2 DEF Scanned
<1>3. ASSUME NEW b \in Buckets, NEW c \in Masters \cup {Off}, Configure(b, c) PROVE RoutingInv'
  BY <1>3, CreateEffect DEF Configure, Edit
<1>4. ASSUME NEW b \in Buckets, Configured(b) PROVE RoutingInv'
  BY <1>4 DEF Configured, TypeOK
<1>5. ASSUME NEW b \in Buckets, OpenFails(b) PROVE RoutingInv'
  BY <1>5 DEF OpenFails
<1>6. ASSUME NEW b \in Buckets, FirstWrite(b) PROVE RoutingInv'
  BY <1>6, CreateEffect DEF FirstWrite, Edit
<1>7. ASSUME NEW b \in Buckets, Delete(b) PROVE RoutingInv'
  BY <1>7 DEF Delete, Edit, TypeOK
<1>8. ASSUME UNCHANGED <<phase, stored, unannounced, loads, listed, unlisted, routed, scans, object, opening, missed>>
      PROVE  RoutingInv'
  BY <1>8
<1>9. ASSUME NEW p \in Paths, EditPath(p) PROVE RoutingInv'
  BY <1>9 DEF EditPath, Edit, TypeOK
<1>10. CASE PathEdited
  BY <1>10 DEF PathEdited, TypeOK
<1>11. CASE Load
  BY <1>11 DEF Load, TypeOK
<1>14. CASE LoadFails
  BY <1>14 DEF LoadFails, TypeOK
<1>12. ASSUME NEW paths \in listed, ApplyRouting(paths) PROVE RoutingInv'
  BY <1>12 DEF ApplyRouting
<1>13. CASE Crash
  BY <1>13 DEF Crash
<1> QED
  BY <1>1, <1>2, <1>3, <1>4, <1>5, <1>6, <1>7, <1>8, <1>9, <1>10, <1>11, <1>12, <1>13, <1>14
  DEF Next, ClientStep, Established, Closed, OnClose, Timer, ConnectFailed, Lost, Message, vars

\* With the address it was made with no client is kept, so each is the one its bucket is
\* configured for.
LEMMA InitClientsCurrent ==
    ASSUME TypeOK, InitReplicationClients, NEW b \in Buckets
    PROVE  IF Exists(b)
           THEN current'[b] # 0 => config[b] # Off /\ made'[b][current'[b]].uri = Uri(config[b])
           ELSE made'[b] = made[b] /\ current'[b] = current[b]
<1>1. ~Keeps(b)
  <2>1. ASSUME current[b] # 0 PROVE made[b][current[b]] \in Client
    BY <2>1, ElementOfSeq DEF TypeOK
  <2>2. config[b] \in Masters \cup {Off}
    BY DEF TypeOK
  <2> QED
    BY <2>1, <2>2, AddressAssumption DEF Keeps, Client
<1>2. CASE Exists(b) /\ config[b] # Off
  <2>1. made'[b] = Append(Disconnected(b), NewClient(b)) /\ NewClient(b) \in Client
        /\ current'[b] = Len(made[b]) + 1
    BY <1>1, <1>2, InitClientsEffect
  <2>2. made'[b][Len(made[b]) + 1] = NewClient(b)
    BY <2>1, DisconnectedEffect, AppendProperties
  <2>3. NewClient(b).uri = Uri(config[b])
    BY DEF NewClient
  <2> QED
    BY <1>2, <2>1, <2>2, <2>3
<1>3. CASE ~Exists(b) \/ config[b] = Off
  BY <1>1, <1>3, InitClientsEffect
<1> QED
  BY <1>2, <1>3

\* What makes a current client out of date also opens the bucket, leaves it without an
\* event or has started a handler, which replaces the client.
LEMMA CurrentStep ==
    ASSUME TypeOK, CurrentInv, [Next]_vars
    PROVE  CurrentInv'
<1> USE DEF CurrentInv, bucketVars, clientVars, pathVars, Exists
<1>1. CASE Start
  BY <1>1, InitClientsCurrent DEF Start
<1>2. CASE Scanned
  BY <1>2, InitClientsCurrent DEF Scanned
<1>3. ASSUME NEW b \in Buckets, NEW c \in Masters \cup {Off}, Configure(b, c) PROVE CurrentInv'
  <2>1. config' = [config EXCEPT ![b] = c] /\ opening' = opening \cup {b}
        /\ UNCHANGED <<made, current, missed, scans>>
    BY <1>3 DEF Configure
  <2>2. \A a \in Buckets \ {b} : config'[a] = config[a]
    BY <2>1 DEF TypeOK
  <2> QED
    BY <1>3, <2>1, <2>2, CreateEffect DEF Configure
<1>4. ASSUME NEW b \in Buckets, Configured(b) PROVE CurrentInv'
  BY <1>4 DEF Configured, TypeOK
<1>5. ASSUME NEW b \in Buckets, OpenFails(b) PROVE CurrentInv'
  BY <1>5 DEF OpenFails
<1>6. ASSUME NEW b \in Buckets, FirstWrite(b) PROVE CurrentInv'
  BY <1>6, CreateEffect DEF FirstWrite
<1>7. ASSUME NEW b \in Buckets, Delete(b) PROVE CurrentInv'
  BY <1>7 DEF Delete, TypeOK
<1>8. ASSUME NEW b \in Buckets, NEW i \in DOMAIN made[b], NEW state \in ClientStates, Becomes(b, i, state),
             UNCHANGED <<config, object, opening, missed, scans, current>>
      PROVE  CurrentInv'
  <2>1. \A a \in Buckets : current[a] # 0 => current[a] \in DOMAIN made[a]
    BY DEF TypeOK
  <2>2. \A a \in Buckets : current[a] # 0 => made'[a][current[a]].uri = made[a][current[a]].uri
    BY <1>8, <2>1, BecomesEffect
  <2> QED
    BY <1>8, <2>2
<1>9. ASSUME NEW b \in Buckets, NEW i \in DOMAIN made[b], ClientStep(b, i) PROVE CurrentInv'
  BY <1>8, <1>9 DEF ClientStep, Established, Closed, OnClose, Timer, Reconnect, ClientStates
<1>10. ASSUME NEW b \in Buckets, NEW i \in DOMAIN made[b], ConnectFailed(b, i) \/ Lost(b, i) PROVE CurrentInv'
  BY <1>8, <1>10 DEF ConnectFailed, Lost, OnClose, Reconnect, ClientStates
<1>11. ASSUME UNCHANGED <<config, object, opening, missed, scans, made, current>> PROVE CurrentInv'
  BY <1>11
<1>12. CASE Load \/ LoadFails
  <2>1. CASE Load
    BY <2>1 DEF Load, TypeOK
  <2>2. CASE LoadFails
    BY <2>2 DEF LoadFails, TypeOK
  <2> QED
    BY <1>12, <2>1, <2>2
<1>13. CASE Crash
  BY <1>13 DEF Crash
<1> QED
  BY <1>1, <1>2, <1>3, <1>4, <1>5, <1>6, <1>7, <1>9, <1>10, <1>11, <1>12, <1>13
  DEF Next, Message, EditPath, PathEdited, ApplyRouting, vars

-----------------------------------------------------------------------------
\* The invariant holds of a service that starts.
LEMMA InitInv ==
    ASSUME Init
    PROVE  IInv
<1> USE DEF Init
<1>1. \A b \in Buckets : made[b] = <<>> /\ current[b] = 0 /\ ~connected[b]
  OBVIOUS
<1>2. TypeOK
  BY <1>1, BoundsAssumption DEF TypeOK
<1>3. RetryingIsCurrent /\ ConnectedIsTrue /\ RoutingInv /\ CurrentInv
  BY <1>1 DEF RetryingIsCurrent, ConnectedIsTrue, RoutingInv, CurrentInv
<1> QED
  BY <1>2, <1>3 DEF IInv

\* The inductive invariant of the wiring.
THEOREM Invariance == Spec => []IInv
<1>1. Init => IInv
  BY InitInv
<1>2. IInv /\ [Next]_vars => IInv'
  BY TypeStep, ClientsStep, RoutingStep, CurrentStep DEF IInv
<1> QED
  BY <1>1, <1>2, PTL DEF Spec

\* Every variable has its type.
THEOREM TypeCorrect == Spec => []TypeOK
  BY Invariance, PTL DEF IInv

\* A bucket never has two clients that will try to connect again, and one that was replaced
\* or stopped never returns.
THEOREM Retrying == Spec => []RetryingIsCurrent
  BY Invariance, PTL DEF IInv

\* A bucket said to be connected to its master has a connection.
THEOREM Connected == Spec => []ConnectedIsTrue
  BY Invariance, PTL DEF IInv

\* No overlap of two handlers loses the route of a virtual path or of a bucket, and the
\* next handler makes up for one that failed.
THEOREM Routed == Spec => []EverythingRouted
<1>1. IInv => EverythingRouted
  BY DEF IInv, RoutingInv, EverythingRouted
<1> QED
  BY <1>1, Invariance, PTL

\* A bucket takes messages from the master it is configured for, but for the clients and
\* the moments FedByItsMaster excepts.
THEOREM Fed == Spec => FedByItsMaster
<1> DEFINE Excused(b) ==
        \/ config[b] # Off /\ fed'[b] = Uri(config[b])
        \/ b \in opening \cup missed \/ scans > 0
        \/ \E i \in DOMAIN made[b] :
              /\ made[b][i].uri = fed'[b]
              /\ i \in Leftovers(b) \/ made[b][i].state = "closing"
<1>1. ASSUME IInv, [Next]_vars, NEW b \in Buckets, fed'[b] # fed[b], fed'[b] # Nothing
      PROVE  Excused(b)
  <2> USE DEF IInv, TypeOK
  <2>1. \/ \E i \in DOMAIN made[b] : Message(b, i)
        \/ \E a \in Buckets \ {b} : \E i \in DOMAIN made[a] : Message(a, i)
        \/ UNCHANGED fed \/ Crash
    BY <1>1 DEF Next, Start, Scanned, Configure, Configured, OpenFails, FirstWrite, Delete, ClientStep,
                Established, Closed, OnClose, Timer, ConnectFailed, Lost, EditPath, PathEdited, Load, LoadFails,
                ApplyRouting, vars, clientVars
  <2>2. PICK i \in DOMAIN made[b] : Message(b, i)
    BY <1>1, <2>1 DEF Message, Crash
  <2>3. fed'[b] = made[b][i].uri /\ made[b][i].state \in {"open", "closing"} /\ Exists(b)
    BY <1>1, <2>2 DEF Message
  <2>4. CASE made[b][i].state = "closing" \/ ~made[b][i].doReconnect
    BY <2>3, <2>4 DEF Leftovers
  <2>5. CASE made[b][i].doReconnect
    <3>1. current[b] = i /\ current[b] # 0
      BY <1>1, <2>5 DEF RetryingIsCurrent
    <3> QED
      BY <1>1, <2>3, <3>1 DEF CurrentInv
  <2> QED
    BY <2>4, <2>5
<1>2. IInv /\ [Next]_vars
        => [\A b \in Buckets : (fed'[b] # fed[b] /\ fed'[b] # Nothing) => Excused(b)]_vars
  BY <1>1
<1> QED
  BY <1>2, Invariance, PTL DEF Spec, FedByItsMaster
=============================================================================
