------------------------------ MODULE ApiProofs ------------------------------
(***************************************************************************)
(* The safety properties of Api, for every set of connections, requests    *)
(* and topics, every way to register and every number of registrations and *)
(* broken sockets.                                                         *)
(***************************************************************************)
EXTENDS Api, SequenceTheorems, TLAPS

\* Only what the key entitles to is called.
CallingInv == \A r \in Requests : pc[r] = "calling" => call[r].allowed

\* A connection is sent no event before it is emitted.
InboxInv ==
    \A c \in Connections : \A i \in DOMAIN inbox[c] : inbox[c][i] \in DOMAIN log

\* A listing is of the bucket that has its place in the registrations, unless these have
\* changed while it was made.
ListingInv ==
    \A s \in listings : s.to \notin switched =>
        /\ s.i \in DOMAIN registered[s.to]
        /\ s.of = registered[s.to][s.i].bucket

IInv ==
    /\ TypeOK /\ CallingInv /\ InboxInv /\ ListingInv
    /\ AnsweredOnce /\ EveryEventOnce /\ EventsAreOfSuccesses /\ BucketUnderItsName

-----------------------------------------------------------------------------
(* What the handlers of a request do. *)

LEMMA AnswerEffect ==
    ASSUME TypeOK, NEW r \in Requests, NEW from \in Connections \cup {Http}, NEW a \in Answers,
           Answer(r, from, a)
    PROVE  /\ pc' = [pc EXCEPT ![r] = "done"]
           /\ answers' \in [Requests -> Seq(Answers)]
           /\ \A q \in Requests \ {r} : answers'[q] = answers[q]
           /\ answers'[r] = IF from = Http \/ socket[from] = "open" THEN Append(answers[r], a)
                            ELSE answers[r]
<1>1. answers \in [Requests -> Seq(Answers)] /\ Append(answers[r], a) \in Seq(Answers)
  BY DEF TypeOK
<1>2. CASE from = Http \/ socket[from] = "open"
  <2>1. answers' = [answers EXCEPT ![r] = Append(answers[r], a)]
    BY <1>2 DEF Answer
  <2> QED
    BY <1>1, <1>2, <2>1 DEF Answer
<1>3. CASE ~(from = Http \/ socket[from] = "open")
  BY <1>1, <1>3 DEF Answer
<1> QED
  BY <1>2, <1>3

\* An event is the last of the log and of every inbox it goes to.
LEMMA BroadcastEffect ==
    ASSUME TypeOK, NEW r \in Requests, NEW from, NEW topic, Broadcast(r, from, topic)
    PROVE  /\ log' \in Seq(Requests) /\ Len(log') = Len(log) + 1 /\ log'[Len(log')] = r
           /\ \A n \in DOMAIN log : log'[n] = log[n]
           /\ inbox' \in [Connections -> Seq(Nat)]
           /\ \A c \in Connections :
                 IF c \in Destinations(from, topic) /\ socket[c] = "open"
                 THEN inbox'[c] = Append(inbox[c], Len(log) + 1)
                 ELSE inbox'[c] = inbox[c]
<1>1. /\ log' \in Seq(Requests) /\ Len(log') = Len(log) + 1 /\ log'[Len(log')] = r
      /\ \A n \in DOMAIN log : log'[n] = log[n]
  BY AppendProperties DEF Broadcast, TypeOK
<1>2. \A c \in Connections : inbox[c] \in Seq(Nat) /\ Append(inbox[c], Len(log) + 1) \in Seq(Nat)
  BY DEF TypeOK
<1>3. inbox' = [c \in Connections |->
                  IF c \in Destinations(from, topic) /\ socket[c] = "open"
                  THEN Append(inbox[c], Len(log) + 1) ELSE inbox[c]]
  BY <1>1 DEF Broadcast
<1> QED
  BY <1>1, <1>2, <1>3

\* A step of request r: it is called, or it is over and answered once where that is due,
\* and then it may have emitted an event.
RequestStep(r) ==
    \/ \E from \in Connections \cup {Http}, op \in Ops, topic \in Topics, apiKey \in BOOLEAN :
          Request(r, from, op, topic, apiKey)
    \/ Resolve(r)
    \/ Reject(r)

Heard(from) == from = Http \/ socket[from] = "open"

LEMMA RequestEffect ==
    ASSUME TypeOK, CallingInv, AnsweredOnce, NEW r \in Requests, RequestStep(r)
    PROVE  /\ UNCHANGED connectionVars
           /\ pc[r] # "done" /\ pc'[r] \in {"calling", "done"}
           /\ pc' = [pc EXCEPT ![r] = pc'[r]]
           /\ call'[r] \in Call /\ \A q \in Requests \ {r} : call'[q] = call[q]
           /\ answers' \in [Requests -> Seq(Answers)]
           /\ \A q \in Requests \ {r} : answers'[q] = answers[q]
           /\ pc'[r] = "calling" => answers'[r] = <<>> /\ call'[r].allowed
           /\ pc'[r] = "done" =>
                 \/ ~Heard(call'[r].from)
                 \/ call'[r].op \in {"broadcast", "unknown"} /\ call'[r].allowed
                 \/ Len(answers'[r]) = 1
           /\ \/ NoEvent
              \/ /\ Broadcast(r, call'[r].from, call'[r].topic)
                 /\ pc'[r] = "done" /\ call'[r].allowed
                 /\ \A i \in DOMAIN answers'[r] : answers'[r][i] = "ok"
<1>1. /\ pc \in [Requests -> {"idle", "calling", "done"}]
      /\ answers \in [Requests -> Seq(Answers)]
      /\ pc[r] # "idle" => call[r] \in Call
  BY DEF TypeOK
<1>2. pc[r] # "done" => answers[r] = <<>>
  BY DEF AnsweredOnce
<1>3. \A a \in Answers : LET s == Append(<<>>, a) IN Len(s) = 1 /\ \A i \in DOMAIN s : s[i] = a
  OBVIOUS
<1>4. ASSUME NEW from \in Connections \cup {Http}, NEW a \in Answers, pc[r] # "done", Answer(r, from, a)
      PROVE  /\ pc'[r] = "done" /\ pc' = [pc EXCEPT ![r] = pc'[r]]
             /\ answers' \in [Requests -> Seq(Answers)]
             /\ \A q \in Requests \ {r} : answers'[q] = answers[q]
             /\ ~Heard(from) \/ Len(answers'[r]) = 1
             /\ \A i \in DOMAIN answers'[r] : answers'[r][i] = a
  <2>1. /\ pc' = [pc EXCEPT ![r] = "done"]
        /\ answers' \in [Requests -> Seq(Answers)]
        /\ \A q \in Requests \ {r} : answers'[q] = answers[q]
        /\ answers'[r] = IF from = Http \/ socket[from] = "open" THEN Append(answers[r], a)
                         ELSE answers[r]
    BY <1>4, AnswerEffect
  <2>2. pc'[r] = "done"
    BY <1>1, <2>1
  <2>3. CASE Heard(from)
    BY <1>2, <1>3, <1>4, <2>1, <2>2, <2>3 DEF Heard
  <2>4. CASE ~Heard(from)
    <3>1. answers'[r] = <<>>
      BY <1>2, <1>4, <2>1, <2>4 DEF Heard
    <3>2. \A i \in DOMAIN answers'[r] : answers'[r][i] = a
      BY <3>1
    <3> QED
      BY <2>1, <2>2, <2>4, <3>2
  <2> QED
    BY <2>3, <2>4
<1>5. ASSUME NEW from \in Connections \cup {Http}, NEW op \in Ops, NEW topic \in Topics,
             NEW apiKey \in BOOLEAN, Request(r, from, op, topic, apiKey)
      PROVE  /\ pc[r] = "idle" /\ UNCHANGED connectionVars
             /\ call'[r] = [from |-> from, op |-> op, topic |-> topic, allowed |-> Allowed(op, apiKey)]
             /\ call'[r] \in Call
             /\ \A q \in Requests \ {r} : call'[q] = call[q]
  <2>1. Allowed(op, apiKey) \in BOOLEAN
    BY AccessAssumption DEF Allowed
  <2>2. pc[r] = "idle" /\ UNCHANGED connectionVars
    BY <1>5 DEF Request
  <2> DEFINE c == [from |-> from, op |-> op, topic |-> topic, allowed |-> Allowed(op, apiKey)]
  <2>3. c \in Call
    BY <2>1 DEF Call
  <2>4. call' = [call EXCEPT ![r] = c]
    BY <1>5 DEF Request
  <2> HIDE DEF c
  <2>5. call'[r] = c /\ \A q \in Requests \ {r} : call'[q] = call[q]
    BY <2>4 DEF TypeOK
  <2> QED
    BY <2>2, <2>3, <2>5 DEF c
<1>6. ASSUME NEW from \in Connections \cup {Http}, NEW op \in Ops, NEW topic \in Topics,
             NEW apiKey \in BOOLEAN, Request(r, from, op, topic, apiKey)
      PROVE  /\ pc'[r] \in {"calling", "done"}
             /\ pc' = [pc EXCEPT ![r] = pc'[r]]
             /\ answers' \in [Requests -> Seq(Answers)]
             /\ \A q \in Requests \ {r} : answers'[q] = answers[q]
             /\ pc'[r] = "calling" => answers'[r] = <<>> /\ Allowed(op, apiKey)
             /\ pc'[r] = "done" =>
                   \/ ~Heard(from)
                   \/ op \in {"broadcast", "unknown"} /\ Allowed(op, apiKey)
                   \/ Len(answers'[r]) = 1
             /\ \/ NoEvent
                \/ /\ Broadcast(r, from, topic)
                   /\ pc'[r] = "done" /\ Allowed(op, apiKey)
                   /\ \A i \in DOMAIN answers'[r] : answers'[r][i] = "ok"
  <2>1. pc[r] = "idle" /\ answers[r] = <<>>
    BY <1>2, <1>6 DEF Request
  <2>2. CASE Unauthorized(r, from, op, apiKey)
    <3>1. Answer(r, from, IF from = Http THEN "401" ELSE "error") /\ NoEvent
      BY <2>2 DEF Unauthorized
    <3>2. (IF from = Http THEN "401" ELSE "error") \in Answers
      BY DEF Answers
    <3> QED
      BY <1>4, <2>1, <3>1, <3>2
  <2>3. CASE BadRequest(r, from, op)
    <3>1. Answer(r, from, "400") /\ NoEvent /\ "400" \in Answers
      BY <2>3 DEF BadRequest, Answers
    <3> QED
      BY <1>4, <2>1, <3>1
  <2>4. CASE Start(r, from, op, apiKey)
    BY <1>1, <2>1, <2>4 DEF Start
  <2>5. CASE Unanswered(r, from, op, topic, apiKey)
    <3>1. /\ pc' = [pc EXCEPT ![r] = "done"] /\ answers' = answers
          /\ Allowed(op, apiKey) /\ op \in {"broadcast", "unknown"}
          /\ Broadcast(r, from, topic) \/ NoEvent
      BY <2>5 DEF Unanswered
    <3>2. pc'[r] = "done"
      BY <1>1, <3>1
    <3>3. \A i \in DOMAIN answers'[r] : answers'[r][i] = "ok"
      BY <2>1, <3>1
    <3> QED
      BY <1>1, <3>1, <3>2, <3>3
  <2> QED
    BY <1>6, <2>2, <2>3, <2>4, <2>5 DEF Request
<1>7. CASE \E from \in Connections \cup {Http}, op \in Ops, topic \in Topics, apiKey \in BOOLEAN :
             Request(r, from, op, topic, apiKey)
  <2>1. PICK from \in Connections \cup {Http}, op \in Ops, topic \in Topics, apiKey \in BOOLEAN :
             Request(r, from, op, topic, apiKey)
    BY <1>7
  <2>2. /\ call'[r].from = from /\ call'[r].op = op /\ call'[r].topic = topic
        /\ call'[r].allowed = Allowed(op, apiKey)
    <3>1. call'[r] = [from |-> from, op |-> op, topic |-> topic, allowed |-> Allowed(op, apiKey)]
      BY <1>5, <2>1
    <3> QED
      BY <3>1
  <2>3. /\ pc[r] = "idle" /\ UNCHANGED connectionVars /\ call'[r] \in Call
        /\ \A q \in Requests \ {r} : call'[q] = call[q]
    BY <1>5, <2>1
  <2> QED
    BY <1>6, <2>1, <2>2, <2>3
<1>8. CASE Resolve(r)
  <2>1. /\ pc[r] = "calling" /\ UNCHANGED <<connectionVars, call>>
        /\ Answer(r, call[r].from, "ok") /\ "ok" \in Answers
        /\ NoEvent \/ Broadcast(r, call[r].from, call[r].topic)
    BY <1>8 DEF Resolve, Answers
  <2>2. call[r] \in Call /\ call[r].allowed /\ call[r].from \in Connections \cup {Http}
    BY <1>1, <2>1 DEF CallingInv, Call
  <2>3. call' = call
    BY <2>1
  <2> QED
    BY <1>4, <2>1, <2>2, <2>3
<1>9. CASE Reject(r)
  <2> DEFINE a == IF call[r].from # Http THEN "error" ELSE IF call[r].op = "read" THEN "404" ELSE "500"
  <2>1. /\ pc[r] = "calling" /\ UNCHANGED <<connectionVars, call>>
        /\ Answer(r, call[r].from, a) /\ a \in Answers /\ NoEvent
    BY <1>9 DEF Reject, Answers
  <2>2. call[r] \in Call /\ call[r].from \in Connections \cup {Http}
    BY <1>1, <2>1 DEF Call
  <2>3. call' = call
    BY <2>1
  <2> HIDE DEF a
  <2> QED
    BY <1>4, <2>1, <2>2, <2>3
<1> QED
  BY <1>7, <1>8, <1>9 DEF RequestStep

\* The steps, by what they are about.
LEMMA Steps ==
    ASSUME Next
    PROVE  \/ \E c \in Connections : Break(c)
           \/ \E c \in Connections : Close(c)
           \/ \E c \in Connections, events \in Registrations, replication \in BOOLEAN :
                 Register(c, events, replication)
           \/ \E s \in listings : Listed(s)
           \/ \E r \in Requests : RequestStep(r)
  BY DEF Next, RequestStep

\* The next listing of a synchronisation is of the bucket that has its place in the list.
LEMMA ListingsEffect ==
    ASSUME NEW c \in Connections, NEW events \in Seq(Pattern), NEW i \in Nat \ {0}, NEW n \in Nat
    PROVE  \A s \in Listings(c, events, i, n) :
              /\ s \in Listing
              /\ s.to = c /\ s.i \in DOMAIN events /\ s.of = events[s.i].bucket
<1>1. SUFFICES ASSUME i <= n, i <= Len(events)
               PROVE  LET s == [to |-> c, i |-> i, n |-> n, of |-> events[i].bucket] IN
                         /\ s \in Listing
                         /\ s.to = c /\ s.i \in DOMAIN events /\ s.of = events[s.i].bucket
  BY DEF Listings
<1>2. i \in DOMAIN events /\ events[i] \in Pattern
  BY <1>1
<1> QED
  BY <1>1, <1>2 DEF Pattern, Listing

LEMMA RegisteredType ==
    ASSUME TypeOK, NEW c \in Connections
    PROVE  registered[c] \in Seq(Pattern)
<1>1. registered[c] \in Registrations \cup {<<>>}
  BY DEF TypeOK
<1>2. <<>> \in Seq(Pattern)
  OBVIOUS
<1> QED
  BY <1>1, <1>2, RegistrationsAssumption

-----------------------------------------------------------------------------
(* Every step keeps the invariant. *)

LEMMA TypeStep ==
    ASSUME TypeOK, CallingInv, AnsweredOnce, Next
    PROVE  TypeOK'
<1>1. ASSUME NEW c \in Connections, Break(c) PROVE TypeOK'
  <2>1. /\ socket' \in [Connections -> {"open", "broken", "closed"}]
        /\ wsClients' = {d \in Connections : socket'[d] \in {"open", "broken"}}
    BY <1>1 DEF Break, TypeOK
  <2>2. breaks' \in 0 .. MaxBreaks
    BY <1>1, BoundsAssumption DEF Break, TypeOK
  <2> QED
    BY <1>1, <2>1, <2>2 DEF Break, requestVars, TypeOK
<1>2. ASSUME NEW c \in Connections, Close(c) PROVE TypeOK'
  <2>1. /\ socket' \in [Connections -> {"open", "broken", "closed"}]
        /\ wsClients' = {d \in Connections : socket'[d] \in {"open", "broken"}}
    BY <1>2 DEF Close, TypeOK
  <2> QED
    BY <1>2, <2>1 DEF Close, requestVars, TypeOK
<1>3. ASSUME NEW c \in Connections, NEW events \in Registrations, NEW replication \in BOOLEAN,
             Register(c, events, replication)
      PROVE  TypeOK'
  <2>1. events \in Seq(Pattern) /\ Len(events) \in Nat
    BY RegistrationsAssumption
  <2>2. listings' \subseteq Listing
    <3>1. \A s \in Listings(c, events, 1, Len(events)) :
             s \in Listing
      BY <2>1, ListingsEffect
    <3>2. listings' \subseteq listings \cup Listings(c, events, 1, Len(events))
      BY <1>3 DEF Register
    <3> QED
      BY <3>1, <3>2 DEF TypeOK
  <2>3. registered' \in [Connections -> Registrations \cup {<<>>}]
    BY <1>3 DEF Register, TypeOK
  <2>4. since' \in [Connections -> Nat] /\ switched' \subseteq Connections
    <3>1. log \in Seq(Requests) /\ Len(log) \in Nat
      BY DEF TypeOK
    <3> QED
      BY <1>3, <3>1 DEF Register, TypeOK
  <2>5. registrations' \in 0 .. MaxRegistrations
    BY <1>3, BoundsAssumption DEF Register, TypeOK
  <2> QED
    BY <1>3, <2>2, <2>3, <2>4, <2>5 DEF Register, requestVars, TypeOK
<1>4. ASSUME NEW s \in listings, Listed(s) PROVE TypeOK'
  <2>1. /\ s \in Listing
        /\ s.to \in Connections /\ s.i \in Nat \ {0} /\ s.n \in Nat /\ s.of \in Buckets \cup {Star}
        /\ registered[s.to] \in Seq(Pattern)
    BY RegisteredType DEF TypeOK, Listing
  <2>2. listings' \subseteq Listing
    <3>1. \A t \in Listings(s.to, registered[s.to], s.i + 1, s.n) :
             t \in Listing
      BY <2>1, ListingsEffect
    <3> QED
      BY <1>4, <3>1 DEF Listed, TypeOK
  <2>3. sent' \in [Connections -> SUBSET [named : Buckets \cup {Star}, of : Buckets \cup {Star}]]
    <3>1. CASE UNCHANGED sent
      BY <3>1 DEF TypeOK
    <3>2. CASE /\ s.i <= Len(registered[s.to])
               /\ sent' = [sent EXCEPT ![s.to] = @ \cup {[named |-> registered[s.to][s.i].bucket, of |-> s.of]}]
      <4>1. registered[s.to][s.i] \in Pattern
        BY <2>1, <3>2, ElementOfSeq
      <4>2. [named |-> registered[s.to][s.i].bucket, of |-> s.of]
              \in [named : Buckets \cup {Star}, of : Buckets \cup {Star}]
        BY <2>1, <4>1 DEF Pattern
      <4> HIDE DEF Pattern
      <4> QED
        BY <2>1, <3>2, <4>2 DEF TypeOK
    <3> QED
      BY <1>4, <3>1, <3>2 DEF Listed
  <2> QED
    BY <1>4, <2>2, <2>3 DEF Listed, requestVars, TypeOK
<1>5. ASSUME NEW r \in Requests, RequestStep(r) PROVE TypeOK'
  <2>1. /\ UNCHANGED connectionVars
        /\ pc' = [pc EXCEPT ![r] = pc'[r]] /\ pc'[r] \in {"calling", "done"}
        /\ call'[r] \in Call /\ \A q \in Requests \ {r} : call'[q] = call[q]
        /\ answers' \in [Requests -> Seq(Answers)]
        /\ NoEvent \/ Broadcast(r, call'[r].from, call'[r].topic)
    BY <1>5, RequestEffect
  <2>2. inbox' \in [Connections -> Seq(Nat)] /\ log' \in Seq(Requests)
    <3>1. CASE NoEvent
      BY <3>1 DEF NoEvent, TypeOK
    <3>2. CASE Broadcast(r, call'[r].from, call'[r].topic)
      BY <3>2, BroadcastEffect
    <3> QED
      BY <2>1, <3>1, <3>2
  <2>3. call' \in [Requests -> Call \cup {None}]
    <3>1. call' = call \/ \E c : call' = [call EXCEPT ![r] = c]
      BY <1>5 DEF RequestStep, Request, Resolve, Reject
    <3>2. CASE call' = call
      BY <3>2 DEF TypeOK
    <3>3. ASSUME NEW c, call' = [call EXCEPT ![r] = c] PROVE call' \in [Requests -> Call \cup {None}]
      BY <2>1, <3>3 DEF TypeOK
    <3> QED
      BY <3>1, <3>2, <3>3
  <2>4. /\ pc' \in [Requests -> {"idle", "calling", "done"}]
        /\ \A q \in Requests : pc'[q] # "idle" => call'[q] \in Call
    BY <2>1 DEF TypeOK
  <2> QED
    BY <2>1, <2>2, <2>3, <2>4 DEF connectionVars, TypeOK
<1> QED
  BY <1>1, <1>2, <1>3, <1>4, <1>5, Steps

LEMMA AnsweredStep ==
    ASSUME TypeOK, CallingInv, AnsweredOnce, Next
    PROVE  CallingInv' /\ AnsweredOnce'
<1>1. ASSUME UNCHANGED requestVars,
             \A c \in Connections : socket[c] # "open" => socket'[c] # "open"
      PROVE  CallingInv' /\ AnsweredOnce'
  <2>1. \A r \in Requests : pc[r] = "done" => call[r].from \in Connections \cup {Http}
    BY DEF TypeOK, Call
  <2> QED
    BY <1>1, <2>1 DEF requestVars, CallingInv, AnsweredOnce
<1>2. ASSUME NEW c \in Connections, Break(c) PROVE CallingInv' /\ AnsweredOnce'
  BY <1>1, <1>2 DEF Break, TypeOK
<1>3. ASSUME NEW c \in Connections, Close(c) PROVE CallingInv' /\ AnsweredOnce'
  BY <1>1, <1>3 DEF Close, TypeOK
<1>4. ASSUME NEW c \in Connections, NEW events \in Registrations, NEW replication \in BOOLEAN,
             Register(c, events, replication)
      PROVE  CallingInv' /\ AnsweredOnce'
  BY <1>1, <1>4 DEF Register
<1>5. ASSUME NEW s \in listings, Listed(s) PROVE CallingInv' /\ AnsweredOnce'
  BY <1>1, <1>5 DEF Listed
<1>6. ASSUME NEW r \in Requests, RequestStep(r) PROVE CallingInv' /\ AnsweredOnce'
  <2>1. /\ UNCHANGED connectionVars
        /\ pc[r] # "done" /\ pc'[r] \in {"calling", "done"}
        /\ pc' = [pc EXCEPT ![r] = pc'[r]]
        /\ call'[r] \in Call /\ \A q \in Requests \ {r} : call'[q] = call[q]
        /\ \A q \in Requests \ {r} : answers'[q] = answers[q]
        /\ pc'[r] = "calling" => answers'[r] = <<>> /\ call'[r].allowed
        /\ pc'[r] = "done" =>
              \/ ~Heard(call'[r].from)
              \/ call'[r].op \in {"broadcast", "unknown"} /\ call'[r].allowed
              \/ Len(answers'[r]) = 1
    BY <1>6, RequestEffect
  <2>2. \A q \in Requests \ {r} : pc'[q] = pc[q]
    BY <2>1 DEF TypeOK
  <2>3. socket' = socket
    BY <2>1 DEF connectionVars
  <2>4. CallingInv'
    BY <2>1, <2>2 DEF CallingInv
  <2>5. AnsweredOnce'
    <3>1. ASSUME NEW q \in Requests \ {r}
          PROVE  IF pc'[q] # "done" THEN answers'[q] = <<>>
                 ELSE \/ call'[q].from # Http /\ socket'[call'[q].from] # "open"
                      \/ call'[q].op \in {"broadcast", "unknown"} /\ call'[q].allowed
                      \/ Len(answers'[q]) = 1
      BY <2>1, <2>2, <2>3 DEF AnsweredOnce
    <3>2. IF pc'[r] # "done" THEN answers'[r] = <<>>
          ELSE \/ call'[r].from # Http /\ socket'[call'[r].from] # "open"
               \/ call'[r].op \in {"broadcast", "unknown"} /\ call'[r].allowed
               \/ Len(answers'[r]) = 1
      BY <2>1, <2>3 DEF Heard
    <3> QED
      BY <3>1, <3>2 DEF AnsweredOnce
  <2> QED
    BY <2>4, <2>5
<1> QED
  BY <1>2, <1>3, <1>4, <1>5, <1>6, Steps

\* Only a step of a request changes the requests and what is sent about them.
LEMMA OtherSteps ==
    ASSUME Next
    PROVE  UNCHANGED requestVars \/ \E r \in Requests : RequestStep(r)
  BY Steps DEF Break, Close, Register, Listed

LEMMA SuccessesStep ==
    ASSUME TypeOK, CallingInv, AnsweredOnce, EventsAreOfSuccesses, Next
    PROVE  EventsAreOfSuccesses'
<1>1. CASE UNCHANGED requestVars
  BY <1>1 DEF requestVars, EventsAreOfSuccesses
<1>2. ASSUME NEW r \in Requests, RequestStep(r) PROVE EventsAreOfSuccesses'
  <2>1. /\ pc[r] # "done"
        /\ pc' = [pc EXCEPT ![r] = pc'[r]]
        /\ \A q \in Requests \ {r} : call'[q] = call[q] /\ answers'[q] = answers[q]
        /\ \/ NoEvent
           \/ /\ Broadcast(r, call'[r].from, call'[r].topic)
              /\ pc'[r] = "done" /\ call'[r].allowed
              /\ \A i \in DOMAIN answers'[r] : answers'[r][i] = "ok"
    BY <1>2, RequestEffect
  <2>2. \A n \in DOMAIN log : log[n] \in Requests \ {r}
    BY <2>1, ElementOfSeq DEF EventsAreOfSuccesses, TypeOK
  <2>3. \A q \in Requests \ {r} : pc'[q] = pc[q]
    BY <2>1 DEF TypeOK
  <2>4. \A n \in DOMAIN log :
           /\ call'[log[n]].allowed
           /\ \A i \in DOMAIN answers'[log[n]] : answers'[log[n]][i] = "ok"
           /\ pc'[log[n]] = "done"
    BY <2>1, <2>2, <2>3 DEF EventsAreOfSuccesses
  <2>5. CASE NoEvent
    BY <2>4, <2>5 DEF NoEvent, EventsAreOfSuccesses
  <2>6. CASE /\ Broadcast(r, call'[r].from, call'[r].topic)
             /\ pc'[r] = "done" /\ call'[r].allowed
             /\ \A i \in DOMAIN answers'[r] : answers'[r][i] = "ok"
    <3>1. /\ log' \in Seq(Requests) /\ Len(log') = Len(log) + 1 /\ log'[Len(log')] = r
          /\ \A n \in DOMAIN log : log'[n] = log[n]
      BY <2>6, BroadcastEffect
    <3>2. \A n \in DOMAIN log' : n \in DOMAIN log \/ n = Len(log')
      BY <3>1 DEF TypeOK
    <3> QED
      BY <2>4, <2>6, <3>1, <3>2 DEF EventsAreOfSuccesses
  <2> QED
    BY <2>1, <2>5, <2>6
<1> QED
  BY <1>1, <1>2, OtherSteps

\* What a connection was sent is said of each connection apart.
Matches(events, topic) ==
    \E i \in DOMAIN events :
        /\ events[i].bucket \in {topic.bucket, Star}
        /\ events[i].key \in {topic.key, Star}

SentRight(c) ==
    /\ \A i, j \in DOMAIN inbox[c] : i < j => inbox[c][i] < inbox[c][j]
    /\ \A n \in (since[c] + 1) .. Len(log) :
          (\E i \in DOMAIN inbox[c] : inbox[c][i] = n)
            <=> call[log[n]].from # c /\ Matches(registered[c], call[log[n]].topic)

LEMMA SentEach ==
    /\ EveryEventOnce <=> \A c \in Connections : socket[c] = "open" => SentRight(c)
    /\ EveryEventOnce' <=> \A c \in Connections : socket'[c] = "open" => SentRight(c)'
  BY DEF EveryEventOnce, SentRight, IsSubscribed, Matches

\* One more event, later than the others, leaves an inbox in order.
LEMMA AppendInOrder ==
    ASSUME NEW s \in Seq(Nat), NEW t \in Seq(Nat), NEW m \in Nat, t = Append(s, m + 1),
           \A i \in DOMAIN s : s[i] \in 1 .. m,
           \A i, j \in DOMAIN s : i < j => s[i] < s[j]
    PROVE  /\ \A i, j \in DOMAIN t : i < j => t[i] < t[j]
           /\ \E i \in DOMAIN t : t[i] = m + 1
           /\ \A n \in 1 .. m : (\E i \in DOMAIN t : t[i] = n) <=> (\E i \in DOMAIN s : s[i] = n)
<1>1. /\ Len(s) \in Nat /\ DOMAIN s = 1 .. Len(s)
      /\ DOMAIN t = 1 .. (Len(s) + 1)
      /\ \A i \in DOMAIN s : t[i] = s[i]
      /\ t[Len(s) + 1] = m + 1
  OBVIOUS
<1>2. \A i \in DOMAIN t : i \in DOMAIN s \/ i = Len(s) + 1
  BY <1>1
<1>3. \A i, j \in DOMAIN t : i < j => t[i] < t[j]
  BY <1>1, <1>2
<1>4. \E i \in DOMAIN t : t[i] = m + 1
  BY <1>1
<1>5. \A n \in 1 .. m : (\E i \in DOMAIN t : t[i] = n) <=> (\E i \in DOMAIN s : s[i] = n)
  BY <1>1, <1>2
<1> QED
  BY <1>3, <1>4, <1>5

LEMMA EventsStep ==
    ASSUME TypeOK, CallingInv, AnsweredOnce, EventsAreOfSuccesses, InboxInv, EveryEventOnce, Next
    PROVE  InboxInv' /\ EveryEventOnce'
<1>1. ASSUME UNCHANGED requestVars,
             \A c \in Connections : socket'[c] = "open" =>
                /\ socket[c] = "open"
                /\ \/ since'[c] = Len(log)
                   \/ since'[c] = since[c] /\ registered'[c] = registered[c]
      PROVE  InboxInv' /\ EveryEventOnce'
  <2>1. InboxInv'
    BY <1>1 DEF requestVars, InboxInv
  <2>2. ASSUME NEW c \in Connections, socket'[c] = "open" PROVE SentRight(c)'
    <3>1. SentRight(c) /\ inbox' = inbox /\ log' = log /\ call' = call
      BY <1>1, <2>2, SentEach DEF requestVars
    <3>2. CASE since'[c] = since[c] /\ registered'[c] = registered[c]
      BY <3>1, <3>2 DEF SentRight
    <3>3. CASE since'[c] = Len(log)
      <4>1. log \in Seq(Requests) /\ Len(log) \in Nat
        BY DEF TypeOK
      <4>2. (since'[c] + 1) .. Len(log') = {}
        BY <3>1, <3>3, <4>1
      <4> QED
        BY <3>1, <4>2 DEF SentRight
    <3> QED
      BY <1>1, <2>2, <3>2, <3>3
  <2> QED
    BY <2>1, <2>2, SentEach
<1>2. ASSUME NEW c \in Connections, Break(c) PROVE InboxInv' /\ EveryEventOnce'
  BY <1>1, <1>2 DEF Break, TypeOK
<1>3. ASSUME NEW c \in Connections, Close(c) PROVE InboxInv' /\ EveryEventOnce'
  BY <1>1, <1>3 DEF Close, TypeOK
<1>4. ASSUME NEW c \in Connections, NEW events \in Registrations, NEW replication \in BOOLEAN,
             Register(c, events, replication)
      PROVE  InboxInv' /\ EveryEventOnce'
  BY <1>1, <1>4 DEF Register, TypeOK
<1>5. ASSUME NEW s \in listings, Listed(s) PROVE InboxInv' /\ EveryEventOnce'
  BY <1>1, <1>5 DEF Listed
<1>6. ASSUME NEW r \in Requests, RequestStep(r) PROVE InboxInv' /\ EveryEventOnce'
  <2>1. /\ UNCHANGED connectionVars /\ pc[r] # "done"
        /\ \A q \in Requests \ {r} : call'[q] = call[q]
        /\ NoEvent \/ Broadcast(r, call'[r].from, call'[r].topic)
    BY <1>6, RequestEffect
  <2>2. /\ UNCHANGED <<socket, since, registered>>
        /\ log \in Seq(Requests) /\ Len(log) \in Nat
    BY <2>1 DEF connectionVars, TypeOK
  <2>3. \A n \in DOMAIN log : call'[log[n]] = call[log[n]]
    BY <2>1, ElementOfSeq DEF EventsAreOfSuccesses, TypeOK
  <2>4. CASE NoEvent
    <3>1. InboxInv'
      BY <2>4 DEF NoEvent, InboxInv
    <3>2. ASSUME NEW c \in Connections, socket'[c] = "open" PROVE SentRight(c)'
      <4>1. SentRight(c) /\ since[c] \in Nat
        BY <2>2, <3>2, SentEach DEF TypeOK
      <4>2. \A n \in (since[c] + 1) .. Len(log) : n \in DOMAIN log
        BY <2>2, <4>1
      <4> QED
        BY <2>2, <2>3, <2>4, <4>1, <4>2 DEF NoEvent, SentRight
    <3> QED
      BY <3>1, <3>2, SentEach
  <2>5. CASE Broadcast(r, call'[r].from, call'[r].topic)
    <3> DEFINE from == call'[r].from
               topic == call'[r].topic
               last == Len(log) + 1
    <3>1. /\ log' \in Seq(Requests) /\ Len(log') = last /\ log'[last] = r
          /\ \A n \in DOMAIN log : log'[n] = log[n]
          /\ \A c \in Connections :
                IF c \in Destinations(from, topic) /\ socket[c] = "open"
                THEN inbox'[c] = Append(inbox[c], last)
                ELSE inbox'[c] = inbox[c]
      BY <2>5, BroadcastEffect
    <3>2. ASSUME NEW c \in Connections
          PROVE  /\ inbox[c] \in Seq(Nat) /\ Len(inbox[c]) \in Nat
                 /\ \A i \in DOMAIN inbox[c] : inbox[c][i] \in 1 .. Len(log)
      BY <2>2 DEF InboxInv, TypeOK
    <3> HIDE DEF from, topic
    <3>3. InboxInv'
      <4>1. ASSUME NEW c \in Connections, NEW i \in DOMAIN inbox'[c]
            PROVE  inbox'[c][i] \in DOMAIN log'
        <5>1. CASE inbox'[c] = inbox[c]
          BY <2>2, <3>1, <3>2, <5>1
        <5>2. CASE inbox'[c] = Append(inbox[c], last)
          BY <2>2, <3>1, <3>2, <5>2
        <5> QED
          BY <3>1, <5>1, <5>2
      <4> QED
        BY <4>1 DEF InboxInv
    <3>4. ASSUME NEW c \in Connections, socket'[c] = "open" PROVE SentRight(c)'
      <4>1. SentRight(c) /\ since[c] \in Nat /\ socket[c] = "open" /\ c \in wsClients
        BY <2>2, <3>4, SentEach DEF TypeOK
      <4>2. \A n \in (since[c] + 1) .. Len(log') : n \in DOMAIN log \/ n = last
        BY <2>2, <3>1, <4>1
      <4>3. registered' = registered /\ since' = since
        BY <2>2
      <4>4. c \in Destinations(from, topic) <=> c # from /\ Matches(registered[c], topic)
        BY <4>1 DEF Destinations, IsSubscribed, Matches
      <4>5. call'[log'[last]].from = from /\ call'[log'[last]].topic = topic
        BY <3>1 DEF from, topic
      <4>6. ASSUME NEW n \in (since[c] + 1) .. Len(log), n \in DOMAIN log
            PROVE  (\E i \in DOMAIN inbox[c] : inbox[c][i] = n)
                      <=> call'[log'[n]].from # c /\ Matches(registered'[c], call'[log'[n]].topic)
        BY <2>3, <3>1, <4>1, <4>3, <4>6 DEF SentRight
      <4>7. CASE c \in Destinations(from, topic)
        <5>1. inbox'[c] = Append(inbox[c], Len(log) + 1) /\ inbox'[c] \in Seq(Nat)
          BY <2>5, <3>1, <3>4, <4>1, <4>7, BroadcastEffect
        <5>2. /\ \A i, j \in DOMAIN inbox'[c] : i < j => inbox'[c][i] < inbox'[c][j]
              /\ \E i \in DOMAIN inbox'[c] : inbox'[c][i] = last
              /\ \A n \in 1 .. Len(log) :
                    (\E i \in DOMAIN inbox'[c] : inbox'[c][i] = n)
                       <=> (\E i \in DOMAIN inbox[c] : inbox[c][i] = n)
          <6>1. \A i, j \in DOMAIN inbox[c] : i < j => inbox[c][i] < inbox[c][j]
            BY <4>1 DEF SentRight
          <6>2. inbox[c] \in Seq(Nat) /\ \A i \in DOMAIN inbox[c] : inbox[c][i] \in 1 .. Len(log)
            BY <3>2
          <6>3. Len(log) \in Nat
            BY <2>2
          <6> QED
            BY <5>1, <6>1, <6>2, <6>3, AppendInOrder
        <5>3. ASSUME NEW n \in (since'[c] + 1) .. Len(log')
              PROVE  (\E i \in DOMAIN inbox'[c] : inbox'[c][i] = n)
                        <=> call'[log'[n]].from # c /\ Matches(registered'[c], call'[log'[n]].topic)
          <6>1. CASE n = last
            BY <4>3, <4>4, <4>5, <4>7, <5>2, <6>1
          <6>2. CASE n \in DOMAIN log
            <7>1. n \in (since[c] + 1) .. Len(log) /\ n # last
              BY <2>2, <4>1, <5>3, <6>2
            <7>2. (\E i \in DOMAIN inbox'[c] : inbox'[c][i] = n)
                     <=> (\E i \in DOMAIN inbox[c] : inbox[c][i] = n)
              BY <2>2, <5>2, <6>2
            <7> QED
              BY <4>6, <6>2, <7>1, <7>2
          <6> QED
            BY <2>2, <4>2, <5>3, <6>1, <6>2
        <5> QED
          BY <5>2, <5>3 DEF SentRight
      <4>8. CASE c \notin Destinations(from, topic)
        <5>1. inbox'[c] = inbox[c]
          BY <3>1, <4>8
        <5>2. ASSUME NEW n \in (since'[c] + 1) .. Len(log')
              PROVE  (\E i \in DOMAIN inbox'[c] : inbox'[c][i] = n)
                        <=> call'[log'[n]].from # c /\ Matches(registered'[c], call'[log'[n]].topic)
          <6>1. CASE n = last
            BY <2>2, <3>2, <4>3, <4>4, <4>5, <4>8, <5>1, <6>1
          <6>2. CASE n \in DOMAIN log
            <7>1. n \in (since[c] + 1) .. Len(log)
              BY <2>2, <4>1, <5>2, <6>2
            <7> QED
              BY <4>6, <5>1, <6>2, <7>1
          <6> QED
            BY <2>2, <4>2, <5>2, <6>1, <6>2
        <5> QED
          BY <4>1, <5>1, <5>2 DEF SentRight
      <4> QED
        BY <4>7, <4>8
    <3> QED
      BY <3>3, <3>4, SentEach
  <2> QED
    BY <2>1, <2>4, <2>5
<1> QED
  BY <1>2, <1>3, <1>4, <1>5, <1>6, Steps

LEMMA ListingStep ==
    ASSUME TypeOK, CallingInv, AnsweredOnce, ListingInv, BucketUnderItsName, Next
    PROVE  ListingInv' /\ BucketUnderItsName'
<1>1. ASSUME UNCHANGED <<registered, listings, sent, switched>>
      PROVE  ListingInv' /\ BucketUnderItsName'
  BY <1>1 DEF ListingInv, BucketUnderItsName
<1>2. ASSUME NEW c \in Connections, Break(c) PROVE ListingInv' /\ BucketUnderItsName'
  BY <1>1, <1>2 DEF Break
<1>3. ASSUME NEW c \in Connections, Close(c) PROVE ListingInv' /\ BucketUnderItsName'
  BY <1>1, <1>3 DEF Close
<1>4. ASSUME NEW c \in Connections, NEW events \in Registrations, NEW replication \in BOOLEAN,
             Register(c, events, replication)
      PROVE  ListingInv' /\ BucketUnderItsName'
  <2>1. events \in Seq(Pattern) /\ Len(events) \in Nat
    BY RegistrationsAssumption
  <2>2. /\ registered'[c] = events
        /\ \A d \in Connections \ {c} : registered'[d] = registered[d]
        /\ listings' \subseteq listings \cup Listings(c, events, 1, Len(events))
        /\ switched \subseteq switched' /\ sent' = sent
        /\ (\E s \in listings : s.to = c) => c \in switched'
    BY <1>4 DEF Register, TypeOK
  <2>3. ASSUME NEW s \in listings', s.to \notin switched'
        PROVE  s.i \in DOMAIN registered'[s.to] /\ s.of = registered'[s.to][s.i].bucket
    <3>1. CASE s \in listings
      <4>1. s.to \in Connections \ {c} /\ s.to \notin switched
        BY <2>2, <2>3, <3>1 DEF TypeOK, Listing
      <4> QED
        BY <2>2, <3>1, <4>1 DEF ListingInv
    <3>2. CASE s \in Listings(c, events, 1, Len(events))
      BY <2>1, <2>2, <3>2, ListingsEffect
    <3> QED
      BY <2>2, <3>1, <3>2
  <2> QED
    BY <2>2, <2>3 DEF ListingInv, BucketUnderItsName
<1>5. ASSUME NEW s \in listings, Listed(s) PROVE ListingInv' /\ BucketUnderItsName'
  <2>1. /\ s.to \in Connections /\ s.i + 1 \in Nat \ {0} /\ s.n \in Nat
        /\ registered[s.to] \in Seq(Pattern)
    BY SMTT(20), RegisteredType DEF TypeOK, Listing
  <2>2. /\ listings' = (listings \ {s}) \cup Listings(s.to, registered[s.to], s.i + 1, s.n)
        /\ registered' = registered /\ switched' = switched
    BY <1>5 DEF Listed
  <2>3. ListingInv'
    <3>1. \A t \in Listings(s.to, registered[s.to], s.i + 1, s.n) :
             t.to = s.to /\ t.i \in DOMAIN registered[s.to] /\ t.of = registered[s.to][t.i].bucket
      BY <2>1, ListingsEffect
    <3> QED
      BY <2>2, <3>1 DEF ListingInv
  <2>4. BucketUnderItsName'
    <3>1. CASE UNCHANGED sent
      BY <2>2, <3>1 DEF BucketUnderItsName
    <3>2. CASE sent' = [sent EXCEPT ![s.to] = @ \cup {[named |-> registered[s.to][s.i].bucket, of |-> s.of]}]
      <4> DEFINE b == [named |-> registered[s.to][s.i].bucket, of |-> s.of]
      <4>1. s.to \notin switched => b.named = b.of
        BY DEF ListingInv
      <4>2. /\ sent'[s.to] = sent[s.to] \cup {b}
            /\ \A c \in Connections \ {s.to} : sent'[c] = sent[c]
        BY <2>1, <3>2 DEF TypeOK
      <4> HIDE DEF b
      <4> QED
        BY <2>2, <4>1, <4>2 DEF BucketUnderItsName
    <3> QED
      BY <1>5, <3>1, <3>2 DEF Listed
  <2> QED
    BY <2>3, <2>4
<1>6. ASSUME NEW r \in Requests, RequestStep(r) PROVE ListingInv' /\ BucketUnderItsName'
  BY <1>1, <1>6, RequestEffect DEF connectionVars
<1> QED
  BY <1>2, <1>3, <1>4, <1>5, <1>6, Steps

-----------------------------------------------------------------------------
LEMMA InitInv == Init => IInv
<1> SUFFICES ASSUME Init PROVE IInv
  OBVIOUS
<1>1. TypeOK
  BY BoundsAssumption DEF Init, TypeOK
<1>2. CallingInv /\ InboxInv /\ ListingInv
  BY DEF Init, CallingInv, InboxInv, ListingInv
<1>3. AnsweredOnce /\ EveryEventOnce /\ EventsAreOfSuccesses /\ BucketUnderItsName
  BY DEF Init, AnsweredOnce, EveryEventOnce, EventsAreOfSuccesses, BucketUnderItsName
<1> QED
  BY <1>1, <1>2, <1>3 DEF IInv

THEOREM Invariance == Spec => []IInv
<1>1. IInv /\ Next => IInv'
  BY TypeStep, AnsweredStep, SuccessesStep, EventsStep, ListingStep DEF IInv
<1>2. IInv /\ UNCHANGED vars => IInv'
  BY DEF IInv, vars, connectionVars, requestVars, TypeOK, CallingInv, InboxInv, ListingInv,
         AnsweredOnce, EveryEventOnce, EventsAreOfSuccesses, BucketUnderItsName, IsSubscribed
<1> QED
  BY <1>1, <1>2, InitInv, PTL DEF Spec

\* Every variable stays within its type.
THEOREM TypeCorrect == Spec => []TypeOK
  BY Invariance, PTL DEF IInv

\* Every request is answered exactly once, refused or not, unless nobody is there to hear
\* it or the operation is one the service does not answer.
THEOREM Answered == Spec => []AnsweredOnce
  BY Invariance, PTL DEF IInv

\* A connection is sent each event it subscribed to once and in order, whatever happens to
\* other connections.
THEOREM EveryEvent == Spec => []EveryEventOnce
  BY Invariance, PTL DEF IInv

\* No event is of a request that was refused or failed.
THEOREM Successes == Spec => []EventsAreOfSuccesses
  BY Invariance, PTL DEF IInv

\* Records are sent under the name of their bucket, to clients that do not register anew
\* during a synchronisation.
THEOREM UnderItsName == Spec => []BucketUnderItsName
  BY Invariance, PTL DEF IInv
=============================================================================
