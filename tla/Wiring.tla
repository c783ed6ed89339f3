------------------------------- MODULE Wiring -------------------------------
(***************************************************************************)
(* What a service does about its configuration: the replication clients it *)
(* starts and stops (replication-client.ts), the static routes it adds     *)
(* (bucket-router.ts, virtual-paths.ts), and the handlers of the events    *)
(* bucket-list-update and virtual-path-update that do both                 *)
(* (cachearoo.ts).  The handlers are not awaited, so several run at once.  *)
(*                                                                         *)
(* A handler of bucket-list-update scans the disk, then lists the buckets  *)
(* and acts on them in one go: `scans' counts those that have not got      *)
(* there.  The overlap of two calls that create or delete one bucket is    *)
(* the subject of Buckets, and what a connection carries of Replication.   *)
(***************************************************************************)
EXTENDS Naturals, Sequences

CONSTANTS
    Buckets,        \* buckets that can be replicas
    Masters,        \* the values of config.replicationURI
    Off,            \* the configuration of a bucket that does not replicate, or is disabled
    Paths,          \* virtual paths: entries of the bucket _virtual_paths_config
    Nothing,        \* fed by no master yet
    MaxEdits,       \* bound: changes of the configuration
    MaxFailures,    \* bound: failed connections, openings and listings
    MaxCrashes      \* bound: restarts of the service

ASSUME BoundsAssumption == MaxEdits \in Nat /\ MaxFailures \in Nat /\ MaxCrashes \in Nat
ASSUME NamesAssumption == Off \notin Masters /\ Nothing \notin Masters

\* The address a client connects to: the master's with the device id in its query.
Uri(m) == <<m, "?id=">>

\* Nobody configures an address that has the query already: it would be appended again.
ASSUME AddressAssumption == \A m \in Masters : Uri(m) \notin Masters \cup {Off}

ClientStates == {"connecting", "open", "waiting", "closing", "ended"}
Client == [uri : {Uri(m) : m \in Masters}, object : Nat, doReconnect : BOOLEAN, state : ClientStates]

VARIABLES
    phase,        \* "starting" or "serving"
    config,       \* configuration of each bucket, Off for one that does not exist
    object,       \* the bucket object under each name, numbered; 0 if there is none
    objects,      \* how many bucket objects each name has had
    connected,    \* status.replicationConnected of the bucket object under each name
    opening,      \* buckets whose new configuration is in force and whose event is not yet out
    scans,        \* handlers of bucket-list-update under way
    made,         \* the clients made for each bucket, oldest first
    current,      \* `clients': the index of the bucket's client, 0 if it has none
    fed,          \* the master whose message the bucket took last
    routed,       \* buckets and virtual paths the server has a static route for
    stored,       \* virtual paths that are stored
    unannounced,  \* changes of the virtual paths whose event is not yet out
    loads,        \* handlers of virtual-path-update that have not listed yet
    listed,       \* what the others have listed
    unlisted,     \* history: stored virtual paths whose handler has failed to list them
    missed,       \* history: buckets whose last change was followed by no event
    edits, failures, crashes

bucketVars == <<config, object, objects, opening>>
clientVars == <<made, current, connected, fed>>
pathVars == <<stored, unannounced, loads, listed, unlisted>>
vars == <<phase, bucketVars, clientVars, pathVars, routed, scans, missed, edits, failures, crashes>>

TypeOK ==
    /\ phase \in {"starting", "serving"}
    /\ config \in [Buckets -> Masters \cup {Off}]
    /\ object \in [Buckets -> Nat] /\ objects \in [Buckets -> Nat]
    /\ connected \in [Buckets -> BOOLEAN]
    /\ opening \subseteq Buckets /\ missed \subseteq Buckets
    /\ made \in [Buckets -> Seq(Client)]
    /\ \A b \in Buckets : current[b] \in 0 .. Len(made[b])
    /\ fed \in [Buckets -> {Uri(m) : m \in Masters} \cup {Nothing}]
    /\ routed \subseteq Buckets \cup Paths
    /\ stored \subseteq Paths /\ unlisted \subseteq Paths /\ listed \subseteq SUBSET Paths
    /\ {scans, unannounced, loads} \subseteq Nat
    /\ edits \in 0 .. MaxEdits /\ failures \in 0 .. MaxFailures /\ crashes \in 0 .. MaxCrashes

(* The operators named Bug... are plausible mistakes in the definition that        *)
(* follows them, which the properties must notice; the model does not use them.    *)

Exists(b) == object[b] # 0

\* A service that starts with what it has stored.
Init ==
    /\ phase = "starting"
    /\ config \in [Buckets -> Masters \cup {Off}]
    /\ object \in [Buckets -> {0, 1}] /\ objects = object
    /\ \A b \in Buckets : ~Exists(b) => config[b] = Off
    /\ connected = [b \in Buckets |-> FALSE]
    /\ opening = {} /\ scans = 0 /\ missed = {}
    /\ made = [b \in Buckets |-> <<>>] /\ current = [b \in Buckets |-> 0]
    /\ fed = [b \in Buckets |-> Nothing]
    /\ routed = {}
    /\ stored \in SUBSET Paths /\ unannounced = 0 /\ loads = 0 /\ listed = {} /\ unlisted = {}
    /\ edits = 0 /\ failures = 0 /\ crashes = 0

-----------------------------------------------------------------------------
(* Replication clients. *)

NewClient(b) ==
    [uri |-> Uri(config[b]), object |-> object[b], doReconnect |-> TRUE, state |-> "connecting"]

BugDisconnect(c) == [c EXCEPT !.state = IF @ = "open" THEN "closing" ELSE @]

\* Closes an open connection; a timer or a handshake under way is left alone.
Disconnect(c) ==
    [c EXCEPT !.doReconnect = FALSE, !.state = IF @ = "open" THEN "closing" ELSE @]

\* killWebSocket, disconnectIfOpen
Disconnected(b) ==
    IF current[b] = 0 THEN made[b] ELSE [made[b] EXCEPT ![current[b]] = Disconnect(@)]

\* The client is kept if it has the configured address, which its own, with the device
\* id, never equals.
Keeps(b) == current[b] # 0 /\ config[b] = made[b][current[b]].uri

BugInitAlways ==
    /\ made' = [b \in Buckets |->
          IF ~Exists(b) \/ Keeps(b) THEN made[b] ELSE Append(Disconnected(b), NewClient(b))]
    /\ current' = [b \in Buckets |-> IF ~Exists(b) \/ Keeps(b) THEN current[b] ELSE Len(made'[b])]

BugInitForgets ==
    /\ made' = [b \in Buckets |->
          IF ~Exists(b) \/ Keeps(b) \/ config[b] = Off THEN made[b]
          ELSE Append(Disconnected(b), NewClient(b))]
    /\ current' = [b \in Buckets |->
          IF ~Exists(b) \/ Keeps(b) THEN current[b] ELSE IF config[b] = Off THEN 0 ELSE Len(made'[b])]

\* Every listed bucket gets a new client or loses the one it has; a bucket that was
\* deleted is not listed.
InitReplicationClients ==
    /\ made' = [b \in Buckets |->
          IF ~Exists(b) \/ Keeps(b) THEN made[b]
          ELSE IF config[b] = Off THEN Disconnected(b)
          ELSE Append(Disconnected(b), NewClient(b))]
    /\ current' = [b \in Buckets |->
          IF ~Exists(b) \/ Keeps(b) THEN current[b]
          ELSE IF config[b] = Off THEN 0 ELSE Len(made'[b])]

\* The bucket object of a client is told, which may not be the one in the map any more.
Report(b, c, up) ==
    connected' = IF c.object = object[b] THEN [connected EXCEPT ![b] = up] ELSE connected

Becomes(b, i, state) == made' = [made EXCEPT ![b][i].state = state]

Reconnect(b, i) == Becomes(b, i, IF made[b][i].doReconnect THEN "waiting" ELSE "ended")

\* `connect': the connection registers with the master, whoever the client is by now.
Established(b, i) ==
    /\ made[b][i].state = "connecting"
    /\ Becomes(b, i, "open")
    /\ Report(b, made[b][i], TRUE)
    /\ UNCHANGED <<phase, bucketVars, current, fed, pathVars, routed, scans, missed, edits, failures, crashes>>

BugConnectFailed(b, i) ==
    /\ made[b][i].state = "connecting" /\ failures < MaxFailures
    /\ failures' = failures + 1
    /\ Becomes(b, i, "ended")
    /\ Report(b, made[b][i], FALSE)
    /\ UNCHANGED <<phase, bucketVars, current, fed, pathVars, routed, scans, missed, edits, crashes>>

\* `connectFailed', or socket.connect throws.
ConnectFailed(b, i) ==
    /\ made[b][i].state = "connecting" /\ failures < MaxFailures
    /\ failures' = failures + 1
    /\ Reconnect(b, i)
    /\ Report(b, made[b][i], FALSE)
    /\ UNCHANGED <<phase, bucketVars, current, fed, pathVars, routed, scans, missed, edits, crashes>>

BugOnClose(b, i) ==
    /\ Reconnect(b, i)
    /\ UNCHANGED <<phase, bucketVars, current, connected, fed, pathVars, routed, scans, missed, edits, crashes>>

\* `close'
OnClose(b, i) ==
    /\ Reconnect(b, i)
    /\ Report(b, made[b][i], FALSE)
    /\ UNCHANGED <<phase, bucketVars, current, fed, pathVars, routed, scans, missed, edits, crashes>>

\* The end of a close of our own.
Closed(b, i) == made[b][i].state = "closing" /\ OnClose(b, i) /\ UNCHANGED failures

\* The master closes the connection, or does not answer the keepalive.
Lost(b, i) ==
    /\ made[b][i].state = "open" /\ OnClose(b, i)
    /\ failures < MaxFailures /\ failures' = failures + 1

\* The five seconds are over.
Timer(b, i) ==
    /\ made[b][i].state = "waiting"
    /\ Becomes(b, i, "connecting")
    /\ UNCHANGED <<phase, bucketVars, current, connected, fed, pathVars, routed, scans, missed, edits, failures, crashes>>

\* `message': receiveReplicationMessage finds the bucket by its name.
Message(b, i) ==
    /\ made[b][i].state \in {"open", "closing"}
    /\ Exists(b)
    /\ fed' = [fed EXCEPT ![b] = made[b][i].uri]
    /\ UNCHANGED <<phase, bucketVars, made, current, connected, pathVars, routed, scans, missed, edits, failures, crashes>>

-----------------------------------------------------------------------------
(* Buckets and their configuration. *)

Edit == phase = "serving" /\ edits < MaxEdits /\ edits' = edits + 1

\* createBucket makes a bucket object when the name has none.
Create(b) ==
    IF Exists(b) THEN UNCHANGED <<object, objects, connected>>
    ELSE /\ objects' = [objects EXCEPT ![b] = @ + 1]
         /\ object' = [object EXCEPT ![b] = objects[b] + 1]
         /\ connected' = [connected EXCEPT ![b] = FALSE]

\* A write to _bucket_config, up to the opening.
Configure(b, c) ==
    /\ Edit /\ b \notin opening
    /\ Create(b)
    /\ config' = [config EXCEPT ![b] = c]
    /\ opening' = opening \cup {b}
    /\ UNCHANGED <<phase, made, current, fed, pathVars, routed, scans, missed, failures, crashes>>

Configured(b) ==
    /\ b \in opening /\ opening' = opening \ {b}
    /\ scans' = scans + 1
    /\ UNCHANGED <<phase, config, object, objects, clientVars, pathVars, routed, missed, edits, failures, crashes>>

\* The client is told of the failure, the new configuration stays, and there is no event.
OpenFails(b) ==
    /\ b \in opening /\ opening' = opening \ {b}
    /\ failures < MaxFailures /\ failures' = failures + 1
    /\ missed' = missed \cup {b}
    /\ UNCHANGED <<phase, config, object, objects, clientVars, pathVars, routed, scans, edits, crashes>>

\* A first write of a key creates the bucket, without an event.
FirstWrite(b) ==
    /\ Edit /\ ~Exists(b)
    /\ Create(b)
    /\ missed' = missed \cup {b}
    /\ UNCHANGED <<phase, config, opening, made, current, fed, pathVars, routed, scans, failures, crashes>>

\* removeBucketAndData emits nothing either.
Delete(b) ==
    /\ Edit /\ Exists(b) /\ b \notin opening
    /\ object' = [object EXCEPT ![b] = 0]
    /\ config' = [config EXCEPT ![b] = Off]
    /\ missed' = missed \cup {b}
    /\ UNCHANGED <<phase, objects, opening, clientVars, pathVars, routed, scans, failures, crashes>>

\* configureBuckets after updateBuckets.
Scanned ==
    /\ scans > 0 /\ scans' = scans - 1
    /\ InitReplicationClients
    /\ routed' = routed \cup {b \in Buckets : Exists(b)}
    /\ missed' = {b \in missed : ~Exists(b)}
    /\ UNCHANGED <<phase, bucketVars, connected, fed, pathVars, edits, failures, crashes>>

-----------------------------------------------------------------------------
(* Virtual paths. *)

\* A client writes or removes an entry of _virtual_paths_config.
EditPath(p) ==
    /\ Edit
    /\ stored' = IF p \in stored THEN stored \ {p} ELSE stored \cup {p}
    /\ unannounced' = unannounced + 1
    /\ UNCHANGED <<phase, bucketVars, clientVars, loads, listed, unlisted, routed, scans, missed, failures, crashes>>

PathEdited ==
    /\ unannounced > 0 /\ unannounced' = unannounced - 1
    /\ loads' = loads + 1
    /\ UNCHANGED <<phase, bucketVars, clientVars, stored, listed, unlisted, routed, scans, missed, edits, failures, crashes>>

\* load configures its bucket anew, which is a bucket-list-update, and lists it.  When
\* the configuration fails, it lists all the same.
Load ==
    /\ loads > 0 /\ loads' = loads - 1
    /\ \/ scans' = scans + 1 /\ UNCHANGED failures
       \/ failures < MaxFailures /\ failures' = failures + 1 /\ UNCHANGED scans
    /\ listed' = listed \cup {stored} /\ unlisted' = {}
    /\ UNCHANGED <<phase, bucketVars, clientVars, stored, unannounced, routed, missed, edits, crashes>>

\* When the listing fails, with the configuration or alone, the handler ends there.
LoadFails ==
    /\ loads > 0 /\ loads' = loads - 1
    /\ failures < MaxFailures /\ failures' = failures + 1
    /\ scans' \in {scans, scans + 1}
    /\ unlisted' = unlisted \cup (stored \ routed)
    /\ UNCHANGED <<phase, bucketVars, clientVars, stored, unannounced, listed, routed, missed, edits, crashes>>

BugApplyRouting(paths) ==
    /\ paths \in listed /\ listed' = listed \ {paths}
    /\ routed' = (routed \ Paths) \cup paths
    /\ UNCHANGED <<phase, bucketVars, clientVars, stored, unannounced, loads, unlisted, scans, missed, edits, failures, crashes>>

\* Routes are only ever added.
ApplyRouting(paths) ==
    /\ paths \in listed /\ listed' = listed \ {paths}
    /\ routed' = routed \cup paths
    /\ UNCHANGED <<phase, bucketVars, clientVars, stored, unannounced, loads, unlisted, scans, missed, edits, failures, crashes>>

-----------------------------------------------------------------------------
\* init awaits the virtual paths and then the buckets before it listens.
Start ==
    /\ phase = "starting" /\ phase' = "serving"
    /\ InitReplicationClients
    /\ routed' = stored \cup {b \in Buckets : Exists(b)}
    /\ UNCHANGED <<bucketVars, connected, fed, pathVars, scans, missed, edits, failures, crashes>>

Crash ==
    /\ phase = "serving" /\ phase' = "starting"
    /\ crashes < MaxCrashes /\ crashes' = crashes + 1
    /\ object' = [b \in Buckets |-> IF Exists(b) THEN 1 ELSE 0] /\ objects' = object'
    /\ connected' = [b \in Buckets |-> FALSE]
    /\ opening' = {} /\ scans' = 0 /\ missed' = {}
    /\ made' = [b \in Buckets |-> <<>>] /\ current' = [b \in Buckets |-> 0]
    /\ fed' = [b \in Buckets |-> Nothing]
    /\ routed' = {} /\ unannounced' = 0 /\ loads' = 0 /\ listed' = {} /\ unlisted' = {}
    /\ UNCHANGED <<config, stored, edits, failures>>

\* What a client of a bucket does that ends without a failure.
ClientStep(b, i) ==
    \/ Established(b, i)
    \/ Closed(b, i)
    \/ Timer(b, i)

Next ==
    \/ Start
    \/ Scanned
    \/ \E b \in Buckets :
          \/ \E c \in Masters \cup {Off} : Configure(b, c)
          \/ Configured(b)
          \/ OpenFails(b)
          \/ FirstWrite(b)
          \/ Delete(b)
          \/ \E i \in DOMAIN made[b] :
                \/ ClientStep(b, i)
                \/ ConnectFailed(b, i)
                \/ Lost(b, i)
                \/ Message(b, i)
    \/ \E p \in Paths : EditPath(p)
    \/ PathEdited
    \/ Load
    \/ LoadFails
    \/ \E paths \in listed : ApplyRouting(paths)
    \/ Crash

Spec == Init /\ [][Next]_vars

\* Promises settle, timers fire and sockets close.
Fairness ==
    /\ WF_vars(Start) /\ WF_vars(Scanned) /\ WF_vars(PathEdited) /\ WF_vars(Load)
    /\ \A b \in Buckets : WF_vars(Configured(b))
    /\ \A b \in Buckets : \A i \in 1 .. MaxEdits + 1 :
          WF_vars(i \in DOMAIN made[b] /\ ClientStep(b, i))
    /\ WF_vars(\E paths \in listed : ApplyRouting(paths))

FairSpec == Spec /\ Fairness

-----------------------------------------------------------------------------
\* The clients that will try to connect again are those of the map: a bucket never has
\* two of them, however the handlers, the timers and the handshakes interleave, and one
\* that was replaced or stopped never returns.
RetryingIsCurrent ==
    \A b \in Buckets : \A i \in DOMAIN made[b] : made[b][i].doReconnect <=> i = current[b]

\* A client that was disconnected while its timer or its handshake ran: disconnect finds
\* no connection to close, so it still connects, once.
Leftovers(b) ==
    {i \in DOMAIN made[b] : ~made[b][i].doReconnect /\ made[b][i].state \in {"waiting", "connecting", "open"}}

\* A bucket takes messages from the master it is configured for and from no other, except
\* while its new configuration has not reached the clients, from a connection that is
\* closing, or from a leftover.
FedByItsMaster ==
    [][\A b \in Buckets :
         (fed'[b] # fed[b] /\ fed'[b] # Nothing) =>
            \/ config[b] # Off /\ fed'[b] = Uri(config[b])
            \/ b \in opening \cup missed \/ scans > 0
            \/ \E i \in DOMAIN made[b] :
                  /\ made[b][i].uri = fed'[b]
                  /\ i \in Leftovers(b) \/ made[b][i].state = "closing"]_vars

\* What the admin UI shows of a bucket is never better than what is: a bucket said to be
\* connected has a connection. (It may be worse: the close of a replaced client says
\* "disconnected" of a bucket whose new client is connected.)
ConnectedIsTrue ==
    \A b \in Buckets : (Exists(b) /\ connected[b]) =>
        \E i \in DOMAIN made[b] :
            made[b][i].object = object[b] /\ made[b][i].state \in {"open", "closing"}

\* Once the handlers have run, every bucket that was announced has its route, and so has
\* every stored virtual path, unless the listing after it failed: no overlap of two
\* handlers loses one, and what a failure has left the next handler makes up for.
EverythingRouted ==
    (phase = "serving" /\ unannounced = 0 /\ loads = 0 /\ listed = {} /\ scans = 0 /\ opening = {})
        => (stored \ unlisted) \cup {b \in Buckets \ missed : Exists(b)} \subseteq routed

\* Every bucket ends connected to the master it is configured for, or with no client, when
\* its last change was announced and connections stop failing.
FollowsConfiguration ==
    \A b \in Buckets : <>[](
        (Exists(b) /\ b \notin missed) =>
            IF config[b] = Off THEN current[b] = 0
            ELSE /\ current[b] # 0
                 /\ made[b][current[b]].uri = Uri(config[b])
                 /\ made[b][current[b]].state = "open")
=============================================================================
