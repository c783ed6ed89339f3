-------------------------------- MODULE Api --------------------------------
(***************************************************************************)
(* The two ways into a service, HTTP requests (datastore-router.ts) and    *)
(* WebSocket messages (ws-api.ts, ws-datastore-operations.ts), and the     *)
(* event bus: which connection is sent which change.                       *)
(*                                                                         *)
(* A request is refused or becomes a call of the datastore, which is       *)
(* awaited while other messages are served.  What a call does to the store *)
(* is the subject of KeyOps: here it resolves or rejects.  Its event and   *)
(* its answer leave in one go, for no other callback runs in between.      *)
(***************************************************************************)
EXTENDS Naturals, Sequences

CONSTANTS
    Connections,    \* WebSocket connections
    Http,           \* the caller of an HTTP request
    Requests,
    Buckets, Keys,
    Star,           \* '*' in a registration
    None,           \* no call
    Topics,         \* the keys requests are about
    Registrations,  \* the lists of events clients register for
    Secured,        \* config.apiKey is set
    PublicRead,     \* config.publicRead
    MaxRegistrations, MaxBreaks    \* bounds: registrations; broken sockets

\* "read" stands for lists and filters too, "write" for all that changes a key: write,
\* writeFailIfExists, patch and remove.
Ops == {"read", "write", "broadcast", "unknown"}
Pattern == [bucket : Buckets \cup {Star}, key : Keys \cup {Star}]

ASSUME TopicsAssumption == Topics \subseteq [bucket : Buckets, key : Keys]
ASSUME CallerAssumption == Http \notin Connections
ASSUME RegistrationsAssumption == Registrations \subseteq Seq(Pattern)
ASSUME AccessAssumption == Secured \in BOOLEAN /\ PublicRead \in BOOLEAN
ASSUME BoundsAssumption == MaxRegistrations \in Nat /\ MaxBreaks \in Nat

Call == [from : Connections \cup {Http}, op : Ops, topic : Topics, allowed : BOOLEAN]
Answers == {"ok", "error", "400", "401", "404", "500"}
Listing == [to : Connections, i : Nat \ {0}, n : Nat, of : Buckets \cup {Star}]

VARIABLES
    socket,         \* connection -> "open", "broken" (sends fail) or "closed"
    wsClients,      \* the connections events are sent to
    registered,     \* connection.registeredEvents
    listings,       \* synchronisations of replication clients, at the listing they await
    sent,           \* connection -> the buckets it was sent: the name, and whose records
    call, pc,       \* request -> what it asks; "idle", "calling" or "done"
    answers,        \* request -> the answers its caller was sent
    inbox,          \* connection -> the events it was sent, by their place in the log
    log,            \* history: the requests whose events were emitted
    since,          \* history: connection -> how many before it last registered
    switched,       \* history: connections that registered while they were synchronised
    registrations, breaks

connectionVars == <<socket, wsClients, registered, listings, sent, since, switched, registrations, breaks>>
requestVars == <<call, pc, answers, inbox, log>>
vars == <<connectionVars, requestVars>>

TypeOK ==
    /\ socket \in [Connections -> {"open", "broken", "closed"}]
    /\ wsClients = {c \in Connections : socket[c] \in {"open", "broken"}}
    /\ registered \in [Connections -> Registrations \cup {<<>>}]
    /\ listings \subseteq Listing
    /\ pc \in [Requests -> {"idle", "calling", "done"}]
    /\ call \in [Requests -> Call \cup {None}]
    /\ \A r \in Requests : pc[r] # "idle" => call[r] \in Call
    /\ answers \in [Requests -> Seq(Answers)]
    /\ inbox \in [Connections -> Seq(Nat)] /\ log \in Seq(Requests)
    /\ sent \in [Connections -> SUBSET [named : Buckets \cup {Star}, of : Buckets \cup {Star}]]
    /\ since \in [Connections -> Nat] /\ switched \subseteq Connections
    /\ registrations \in 0 .. MaxRegistrations /\ breaks \in 0 .. MaxBreaks

(* The operators named Bug... are plausible mistakes in the definition that        *)
(* follows them, which the properties must notice; the model does not use them.    *)

\* Connections that were accepted and have registered nothing; no request.
Init ==
    /\ socket = [c \in Connections |-> "open"] /\ breaks = 0
    /\ registered = [c \in Connections |-> <<>>]
    /\ wsClients = Connections /\ listings = {} /\ switched = {} /\ registrations = 0
    /\ sent = [c \in Connections |-> {}] /\ since = [c \in Connections |-> 0]
    /\ call = [r \in Requests |-> None] /\ pc = [r \in Requests |-> "idle"]
    /\ answers = [r \in Requests |-> <<>>]
    /\ inbox = [c \in Connections |-> <<>>] /\ log = <<>>

-----------------------------------------------------------------------------
(* Connections. *)

\* The peer is gone and the service does not know yet.
Break(c) ==
    /\ socket[c] = "open" /\ breaks < MaxBreaks /\ breaks' = breaks + 1
    /\ socket' = [socket EXCEPT ![c] = "broken"]
    /\ UNCHANGED <<wsClients, registered, listings, sent, since, switched, registrations, requestVars>>

BugClose(c) ==
    /\ socket[c] # "closed"
    /\ socket' = [socket EXCEPT ![c] = "closed"]
    /\ UNCHANGED <<wsClients, registered, listings, sent, since, switched, registrations, breaks, requestVars>>

\* `close'; what it does to the session keys is in SessionKeys.
Close(c) ==
    /\ socket[c] # "closed"
    /\ socket' = [socket EXCEPT ![c] = "closed"]
    /\ wsClients' = wsClients \ {c}
    /\ UNCHANGED <<registered, listings, sent, since, switched, registrations, breaks, requestVars>>

\* Does the key entitle to the operation?
Allowed(op, apiKey) == ~Secured \/ apiKey \/ (PublicRead /\ op = "read")

\* The synchronisation of c turns to the i-th of its n registrations, as the list is now.
Listings(c, events, i, n) ==
    IF i <= n /\ i <= Len(events) THEN {[to |-> c, i |-> i, n |-> n, of |-> events[i].bucket]} ELSE {}

\* register-events and register-replication-client: the list replaces the one before, also
\* for a synchronisation under way.  What needs no key or has it is accepted.
Register(c, events, replication) ==
    /\ socket[c] = "open" /\ registrations < MaxRegistrations
    /\ registrations' = registrations + 1
    /\ registered' = [registered EXCEPT ![c] = events]
    /\ listings' = listings \cup (IF replication THEN Listings(c, events, 1, Len(events)) ELSE {})
    /\ since' = [since EXCEPT ![c] = Len(log)]
    /\ switched' = IF \E s \in listings : s.to = c THEN switched \cup {c} ELSE switched
    /\ UNCHANGED <<socket, wsClients, sent, breaks, requestVars>>

BugListed(s) ==
    LET events == registered[s.to] IN
    /\ s \in listings
    /\ listings' = (listings \ {s}) \cup Listings(s.to, events, s.i + 1, s.n)
    /\ \/ UNCHANGED sent
       \/ /\ socket[s.to] = "open" /\ s.n <= Len(events)
          /\ sent' = [sent EXCEPT ![s.to] = @ \cup {[named |-> events[s.n].bucket, of |-> s.of]}]
    /\ UNCHANGED <<socket, wsClients, registered, since, switched, registrations, breaks, requestVars>>

\* A bucket was listed: its records leave under the name the list has by now at that place.
\* A listing that rejects, a list that has become too short or a broken socket costs this
\* bucket only.
Listed(s) ==
    LET events == registered[s.to] IN
    /\ s \in listings
    /\ listings' = (listings \ {s}) \cup Listings(s.to, events, s.i + 1, s.n)
    /\ \/ UNCHANGED sent
       \/ /\ socket[s.to] = "open" /\ s.i <= Len(events)
          /\ sent' = [sent EXCEPT ![s.to] = @ \cup {[named |-> events[s.i].bucket, of |-> s.of]}]
    /\ UNCHANGED <<socket, wsClients, registered, since, switched, registrations, breaks, requestVars>>

-----------------------------------------------------------------------------
(* Events. *)

IsSubscribed(c, topic) ==
    \E i \in DOMAIN registered[c] :
        /\ registered[c][i].bucket \in {topic.bucket, Star}
        /\ registered[c][i].key \in {topic.key, Star}

BugDestinations(from, topic) ==
    IF \E c \in wsClients : socket[c] = "broken" /\ IsSubscribed(c, topic) THEN {}
    ELSE {c \in wsClients \ {from} : IsSubscribed(c, topic)}

\* Everyone who asked for it, but not its origin.
Destinations(from, topic) == {c \in wsClients \ {from} : IsSubscribed(c, topic)}

\* wsBroadcastChange and wsBroadcastBinary; a broken socket costs its own event only.
Broadcast(r, from, topic) ==
    /\ log' = Append(log, r)
    /\ inbox' = [c \in Connections |->
          IF c \in Destinations(from, topic) /\ socket[c] = "open" THEN Append(inbox[c], Len(log'))
          ELSE inbox[c]]

NoEvent == UNCHANGED <<inbox, log>>

-----------------------------------------------------------------------------
(* Requests. *)

Answer(r, from, a) ==
    /\ pc' = [pc EXCEPT ![r] = "done"]
    /\ answers' = IF from = Http \/ socket[from] = "open" THEN [answers EXCEPT ![r] = Append(@, a)]
                  ELSE answers

\* checkAPIKey, and the checks of a message's apiKey.
Unauthorized(r, from, op, apiKey) ==
    /\ ~Allowed(op, apiKey)
    /\ Answer(r, from, IF from = Http THEN "401" ELSE "error")
    /\ NoEvent

\* jsonOnly, which comes before the key is looked at; a session key written over HTTP.
BadRequest(r, from, op) ==
    /\ from = Http /\ op = "write"
    /\ Answer(r, from, "400") /\ NoEvent

BugStart(r, from, op, apiKey) ==
    /\ op \notin {"broadcast", "unknown"}
    /\ pc' = [pc EXCEPT ![r] = "calling"]
    /\ NoEvent
    /\ answers' = IF Allowed(op, apiKey) THEN answers
                  ELSE [answers EXCEPT ![r] = Append(@, IF from = Http THEN "401" ELSE "error")]

\* The call of the datastore, up to its first await.
Start(r, from, op, apiKey) ==
    /\ Allowed(op, apiKey) /\ op \notin {"broadcast", "unknown"}
    /\ pc' = [pc EXCEPT ![r] = "calling"]
    /\ NoEvent
    /\ UNCHANGED answers

\* event-broadcast and binary messages leave at once and are not answered; neither is an
\* operation processOperation does not know: its default branch throws without a send.
Unanswered(r, from, op, topic, apiKey) ==
    /\ Allowed(op, apiKey) /\ op \in {"broadcast", "unknown"}
    /\ pc' = [pc EXCEPT ![r] = "done"]
    /\ IF op = "broadcast" THEN Broadcast(r, from, topic) ELSE NoEvent
    /\ UNCHANGED answers

Request(r, from, op, topic, apiKey) ==
    /\ pc[r] = "idle"
    /\ IF from = Http THEN op \notin {"broadcast", "unknown"} ELSE socket[from] = "open"
    /\ call' = [call EXCEPT ![r] = [from |-> from, op |-> op, topic |-> topic, allowed |-> Allowed(op, apiKey)]]
    /\ \/ Unauthorized(r, from, op, apiKey)
       \/ BadRequest(r, from, op)
       \/ Start(r, from, op, apiKey)
       \/ Unanswered(r, from, op, topic, apiKey)
    /\ UNCHANGED connectionVars

\* The call resolved: doDataUpdateEvent, and the answer.
Resolve(r) ==
    /\ pc[r] = "calling"
    /\ IF call[r].op = "read" THEN NoEvent ELSE Broadcast(r, call[r].from, call[r].topic)
    /\ Answer(r, call[r].from, "ok")
    /\ UNCHANGED <<connectionVars, call>>

BugReject(r) ==
    /\ pc[r] = "calling"
    /\ IF call[r].op = "read" THEN NoEvent ELSE Broadcast(r, call[r].from, call[r].topic)
    /\ Answer(r, call[r].from, "error")
    /\ UNCHANGED <<connectionVars, call>>

\* It rejected.  No error is named EEXISTS, so a key that exists is a 500, never the 412 of
\* the router.
Reject(r) ==
    /\ pc[r] = "calling"
    /\ NoEvent
    /\ Answer(r, call[r].from,
              IF call[r].from # Http THEN "error" ELSE IF call[r].op = "read" THEN "404" ELSE "500")
    /\ UNCHANGED <<connectionVars, call>>

Next ==
    \/ \E c \in Connections :
          \/ Break(c)
          \/ Close(c)
          \/ \E events \in Registrations, replication \in BOOLEAN : Register(c, events, replication)
    \/ \E s \in listings : Listed(s)
    \/ \E r \in Requests :
          \/ \E from \in Connections \cup {Http}, op \in Ops, topic \in Topics, apiKey \in BOOLEAN :
                Request(r, from, op, topic, apiKey)
          \/ Resolve(r)
          \/ Reject(r)

Spec == Init /\ [][Next]_vars

-----------------------------------------------------------------------------
\* A request that is over was answered once, if its caller is still there to hear it: a
\* check that answers also ends the request, and no path forgets to answer but the
\* operation nobody knows (processOperation) and a broadcast.
AnsweredOnce ==
    \A r \in Requests :
        IF pc[r] # "done" THEN answers[r] = <<>>
        ELSE \/ call[r].from # Http /\ socket[call[r].from] # "open"
             \/ call[r].op \in {"broadcast", "unknown"} /\ call[r].allowed
             \/ Len(answers[r]) = 1

\* Between its last registration and now, an open connection was sent every event it is
\* subscribed to and not the origin of, each once and in the order they were emitted,
\* whatever other sockets broke, closed or registered anew meanwhile (safeSend, close).
EveryEventOnce ==
    \A c \in Connections : socket[c] = "open" =>
        /\ \A i, j \in DOMAIN inbox[c] : i < j => inbox[c][i] < inbox[c][j]
        /\ \A n \in (since[c] + 1) .. Len(log) :
              (\E i \in DOMAIN inbox[c] : inbox[c][i] = n)
                <=> call[log[n]].from # c /\ IsSubscribed(c, call[log[n]].topic)

\* No subscriber hears of a change that did not happen, or of a request that was refused:
\* the caller of an event's request was told of no error.
EventsAreOfSuccesses ==
    \A n \in DOMAIN log :
        /\ call[log[n]].allowed
        /\ \A i \in DOMAIN answers[log[n]] : answers[log[n]][i] = "ok"
        /\ pc[log[n]] = "done"

\* A replication client is sent the records of a bucket under the name of that bucket,
\* although the loop of the synchronisation reads the registrations again after the
\* listing it awaits, unless the client has registered anew meanwhile.
BucketUnderItsName ==
    \A c \in Connections \ switched : \A b \in sent[c] : b.named = b.of
=============================================================================
