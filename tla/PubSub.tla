------------------------------- MODULE PubSub -------------------------------
(***************************************************************************)
(* From Publish to the subscribers of a topic: a server that has been set  *)
(* up (Registration), startBroker and startSubscribe, a client, and one of *)
(* five ways a message travels (MessageCodec): the stub broker, the HTTP   *)
(* broker, ServePubSub, NATS and RabbitMQ.                                 *)
(*                                                                         *)
(* The stub broker, the HTTP broker and ServePubSub call the handlers      *)
(* before the publisher has its result.  NATS calls them later.  RabbitMQ  *)
(* keeps messages in queues, and QueueConsumer has the rest of their way.  *)
(* The handlers, net/http, the NATS and AMQP libraries and their brokers   *)
(* are outside the repository.                                             *)
(***************************************************************************)
EXTENDS Registration, MessageCodec, FiniteSets

CONSTANTS
  Messages,
  Content,  \* Content[m]: what is published
  TopicsOf, \* TopicsOf[m]: the topics it may be published to
  MaxRuns,  \* bound: calls of Run
  MaxLost,  \* bound: publishers that lose their connection
  MaxAsk,   \* bound: retries a handler asks for
  Cuts      \* lengths to which a request to the HTTP broker may be cut

ASSUME BoundAssumption == MaxRuns \in Nat /\ MaxLost \in Nat /\ MaxAsk \in Nat

ASSUME CutsAssumption == Cuts \subseteq Nat

ASSUME ContentAssumption == \A m \in Messages : Content[m] \in Samples

VARIABLES
  transport, \* how messages travel
  shared,    \* server and client have the same broker object
  stage,     \* of the server: "stopped", "subscribing" or "serving"
  runs,      \* calls of Run so far
  todo,      \* subscriptions startSubscribe has not come to
  link,      \* of a broker object: listener, connection or channel
  subs,      \* subscriptions the broker calls handlers for
  bound,     \* RabbitMQ: pairs of an exchange and a queue bound to it
  client,    \* "none", "ready", "failed" or "closed"
  call,      \* the Publish of a message
  flight,    \* publishings the broker has not seen yet, in order
  inbox,     \* messages of queues and of queue groups
  work,      \* NATS: callbacks in their retry loop
  got,       \* history: calls of handlers for a publishing
  crash      \* "none", or what ended the process

busVars  == <<transport, shared>>
runVars  == <<stage, runs, todo, subs, bound>>
sendVars == <<call, flight>>
readVars == <<inbox, work, got>>
vars == <<setupVars, busVars, runVars, link, client, sendVars, readVars, crash>>

-----------------------------------------------------------------------------
Sync  == transport \in {"stub", "http", "direct"}
Async == transport \in {"nats", "rabbitmq"}

Objects == {"server", "client"}

\* The broker object the client was given.
Own == IF shared THEN "server" ELSE "client"

Topic(m) == call[m].topic

Unused == [pc |-> "none", topic |-> <<>>, to |-> "none", must |-> {}, seen |-> {},
           lost |-> "no", result |-> "none"]

Subscribed == {subscriberMap[k] : k \in DOMAIN subscriberMap}

\* The subscribers a synchronous dispatch ranges over: a prefix of the joined
\* name for ServePubSub, the queues of the topic for a broker object.
Matching(m) ==
  IF transport = "direct" THEN {s \in Subscribed : IsPrefix(Topic(m), Key(s))}
  ELSE {s \in subs : call[m].to = "server" /\ s.topic = Topic(m)}

\* Where the asynchronous brokers put a message: a queue group is a queue
\* below a topic for NATS, which has callbacks, and a queue for RabbitMQ.
Group(s) == IF transport = "nats" THEN <<s.topic, s.queue>> ELSE <<s.queue>>

Groups(t) ==
  IF transport = "nats"
  THEN {Group(s) : s \in {x \in subs : x.topic = t /\ x.size > 0}}
  ELSE {<<b[2]>> : b \in {x \in bound : x[1] = t}}

Init ==
  /\ SetupInit
  /\ transport \in {"stub", "http", "direct", "nats", "rabbitmq"}
  /\ shared \in IF transport \in {"stub", "http"} THEN BOOLEAN ELSE {FALSE}
  /\ stage = "stopped" /\ runs = 0
  /\ todo = {} /\ subs = {} /\ bound = {}
  /\ link = [o \in Objects |-> "none"]
  /\ client = "none"
  /\ call = [m \in Messages |-> Unused]
  /\ flight = <<>>
  /\ inbox = {} /\ work = {} /\ got = {}
  /\ crash = "none"

-----------------------------------------------------------------------------
(* Connect and Close of a broker object *)

\* Mutant: an address in use is not noticed.
Connects_AnyAddress(o) ==
  \/ transport = "stub" /\ UNCHANGED link
  \/ transport = "http" /\ UNCHANGED link
  \/ Async /\ link' = [link EXCEPT ![o] = "open"]

\* The HTTP broker listens unless it ever has; one of two objects gets the
\* address.
Connects(o) ==
  \/ transport = "stub" /\ UNCHANGED link
  \/ transport = "http" /\ link[o] # "none" /\ UNCHANGED link
  \/ /\ transport = "http" /\ \A x \in Objects : link[x] # "open"
     /\ link[o] = "none"
     /\ link' = [link EXCEPT ![o] = "open"]
  \/ Async /\ link' = [link EXCEPT ![o] = "open"]

ConnectFails(o) ==
  \/ transport = "http" /\ link[o] = "none" /\ UNCHANGED link
  \/ Async /\ link' = [link EXCEPT ![o] = "none"]

\* Close of the stub broker does nothing.
Closed(o) == link' = [link EXCEPT ![o] = IF transport = "stub" THEN @ ELSE "closed"]

-----------------------------------------------------------------------------
(* The server: startBroker, startSubscribe and stopBroker *)

StartBroker ==
  /\ Done /\ ~fatal
  /\ transport # "direct"
  /\ stage = "stopped" /\ runs < MaxRuns
  /\ runs' = runs + 1
  /\ \/ Connects("server") /\ todo' = Subscribed
        /\ stage' = IF Subscribed = {} THEN "serving" ELSE "subscribing"
     \/ ConnectFails("server") /\ UNCHANGED <<todo, stage>>
  /\ UNCHANGED <<setupVars, busVars, subs, bound, client, sendVars, readVars, crash>>

\* Mutant: a queue is bound to the first topic that names it.
StartSubscribe_BindsOnce(s) ==
  /\ stage = "subscribing" /\ s \in todo
  /\ todo' = todo \ {s}
  /\ stage' = IF todo = {s} THEN "serving" ELSE stage
  /\ subs' = subs \cup {s}
  /\ bound' = IF transport = "rabbitmq" /\ \A b \in bound : b[2] # s.queue
              THEN bound \cup {<<s.topic, s.queue>>} ELSE bound
  /\ UNCHANGED <<setupVars, busVars, runs, link, client, sendVars, readVars, crash>>

\* broker.Subscribe: an entry in the handlers of the topic, the callbacks of a
\* queue group, or an exchange with a queue bound to it.
StartSubscribe(s) ==
  /\ stage = "subscribing" /\ s \in todo
  /\ todo' = todo \ {s}
  /\ stage' = IF todo = {s} THEN "serving" ELSE stage
  /\ subs' = subs \cup {s}
  /\ bound' = IF transport = "rabbitmq" THEN bound \cup {<<s.topic, s.queue>>} ELSE bound
  /\ UNCHANGED <<setupVars, busVars, runs, link, client, sendVars, readVars, crash>>

\* The subscriptions of a connection end with it, and so do the messages NATS
\* has for them; an object keeps its handlers, and RabbitMQ its queues.
StopBroker ==
  /\ stage = "serving"
  /\ stage' = "stopped"
  /\ Closed("server")
  /\ subs' = IF Async THEN {} ELSE subs
  /\ inbox' = IF transport = "nats" THEN {} ELSE inbox
  /\ UNCHANGED <<setupVars, busVars, runs, todo, bound, client, sendVars, work, got, crash>>

\* The handlers are a map without a lock: when the runtime notices that
\* ServeHTTP or Publish reads it beside Subscribe, it ends the process.
MapRace(m) ==
  /\ transport \in {"stub", "http"}
  /\ stage = "subscribing"
  /\ call[m].pc \in {"sent", "range"} /\ call[m].to = "server"
  /\ crash' = "mapRace"
  /\ UNCHANGED <<setupVars, busVars, runVars, link, client, sendVars, readVars>>

-----------------------------------------------------------------------------
(* The client: New, Close and Publish *)

\* Nothing a client sees happens before the setup is done, so it begins then.
NewClient ==
  /\ Done
  /\ client = "none" /\ transport # "direct"
  /\ \/ Connects(Own) /\ client' = "ready"
     \/ ConnectFails(Own) /\ client' = "failed"
  /\ UNCHANGED <<setupVars, busVars, runVars, sendVars, readVars, crash>>

CloseClient ==
  /\ client = "ready"
  /\ client' = "closed"
  /\ Closed(Own)
  /\ UNCHANGED <<setupVars, busVars, runVars, sendVars, readVars, crash>>

\* The Publish of m becomes the record r.
Calling(m, r) ==
  /\ call[m].pc = "none"
  /\ call' = [call EXCEPT ![m] = r]
  /\ flight' = IF Async /\ r.pc = "sent" THEN Append(flight, m) ELSE flight

\* ServePubSub is called in the server; a POST goes to whoever listens; an
\* asynchronous broker takes the message and reports nothing else.
Publish(m, t) ==
  /\ \/ transport = "direct" /\ Done /\ ~fatal
        /\ Calling(m, [Unused EXCEPT !.topic = t, !.pc = "sent", !.result = "pending"])
     \/ transport = "stub" /\ client = "ready"
        /\ Calling(m, [Unused EXCEPT !.topic = t, !.pc = "sent", !.to = Own, !.result = "pending"])
     \/ transport = "http" /\ client = "ready"
        /\ \E o \in Objects : /\ link[o] = "open"
             /\ Calling(m, [Unused EXCEPT !.topic = t, !.pc = "sent", !.to = o, !.result = "pending"])
     \/ transport = "http" /\ client = "ready"
        /\ \A o \in Objects : link[o] # "open"
        /\ Calling(m, [Unused EXCEPT !.topic = t, !.pc = "over", !.result = "error"])
     \/ Async /\ client = "ready" /\ link[Own] = "open"
        /\ Calling(m, [Unused EXCEPT !.topic = t, !.pc = "sent", !.must = {Group(s) : s \in {x \in subs : x.topic = t}},
                                    !.result = "ok"])
     \/ Async /\ client = "ready" /\ link[Own] # "open"
        /\ Calling(m, [Unused EXCEPT !.topic = t, !.pc = "over", !.result = "error"])
  /\ UNCHANGED <<setupVars, busVars, runVars, link, client, readVars, crash>>

-----------------------------------------------------------------------------
(* ServeHTTP, Publish of the stub broker and ServePubSub *)

Told(m, result) == IF call[m].result = "pending" THEN result ELSE call[m].result

\* An unknown topic is a 404; ServePubSub knows every topic.
Arrive(m) ==
  /\ Sync /\ call[m].pc = "sent"
  /\ call' = IF transport # "direct" /\ Matching(m) = {}
            THEN [call EXCEPT ![m].pc = "over", ![m].result = Told(m, "notFound")]
            ELSE [call EXCEPT ![m].pc = "range", ![m].must = Matching(m)]
  /\ UNCHANGED <<setupVars, busVars, runVars, link, client, flight, readVars, crash>>

\* What is decoded of the first bytes of m, not all of them if it was cut off; the
\* error of Unmarshal is ignored.
Decoded ==
  UNION {LET data == MarshalTo(Content[m]) IN
         {[of |-> m, cut |-> n < Len(data), msg |-> Unmarshal(SubSeq(data, 1, n)).msg] :
            n \in {c \in Cuts \cup {Len(data)} : c <= Len(data)}} : m \in Messages}

\* What the handlers are given: the publisher's own message from the stub
\* broker, or what was received of it.
Read(m, cut) ==
  IF transport = "stub" THEN {Content[m]}
  ELSE {d.msg : d \in {e \in Decoded : e.of = m /\ e.cut = cut}}

\* Mutant: the queues after a failed one are served as well.
Called_GoesOn(m, s, ok) ==
  call' = [call EXCEPT ![m].seen = @ \cup {s},
                     ![m].result = IF ok THEN @ ELSE Told(m, "error")]

\* The first error ends the range over the queues.
Called(m, s, ok) ==
  call' = IF ok THEN [call EXCEPT ![m].seen = @ \cup {s}]
         ELSE [call EXCEPT ![m].pc = "over", ![m].result = Told(m, "error")]

\* A queue subscribed during the range over the map may be served or not.
CallHandler(m, s, ok) ==
  /\ Sync /\ call[m].pc = "range"
  /\ s \in Matching(m) \ call[m].seen
  /\ Called(m, s, ok)
  /\ \E saw \in Read(m, call[m].lost = "cut") :
       got' = got \cup {[sub |-> s, msg |-> m, oks |-> <<ok>>, ask |-> 0, saw |-> saw]}
  /\ UNCHANGED <<setupVars, busVars, runVars, link, client, flight, inbox, work, crash>>

\* Mutant: one queue is enough.
Served_Any(m) == call[m].must \cap call[m].seen # {}

\* Mutant: a queue more is waited for as well.
Served_Exactly(m) == call[m].must = call[m].seen

Served(m) == call[m].must \subseteq call[m].seen

RangeEnds(m) ==
  /\ call[m].pc = "range"
  /\ Served(m)
  /\ call' = [call EXCEPT ![m].pc = "over", ![m].result = Told(m, "ok")]
  /\ UNCHANGED <<setupVars, busVars, runVars, link, client, flight, readVars, crash>>

\* The connection of a publisher breaks, while its request is on its way or
\* later: ServeHTTP runs on with what it got.
LoseRequest(m) ==
  /\ transport = "http" /\ call[m].pc \in {"sent", "range"}
  /\ call[m].result = "pending"
  /\ Cardinality({b \in Messages : call[b].lost # "no"}) < MaxLost
  /\ \E l \in {"later"} \cup IF call[m].pc = "sent" THEN {"cut"} ELSE {} :
       call' = [call EXCEPT ![m].result = "error", ![m].lost = l]
  /\ UNCHANGED <<setupVars, busVars, runVars, link, client, flight, readVars, crash>>

-----------------------------------------------------------------------------
(* NATS and RabbitMQ *)

\* Every group gets the message.  A RabbitMQ exchange exists once a server has
\* subscribed to the topic; publishing to another one closes the channel, and
\* what follows on the channel is discarded.
Route ==
  LET m == Head(flight)
      known == transport = "nats" \/ Groups(Topic(m)) # {}
      passed == IF known THEN {m} ELSE {flight[i] : i \in DOMAIN flight} IN
  /\ flight # <<>>
  /\ flight' = IF known THEN Tail(flight) ELSE <<>>
  /\ call' = [b \in Messages |->
               IF b \in passed
               THEN [call[b] EXCEPT !.pc = "over", !.seen = Groups(Topic(m))]
               ELSE call[b]]
  /\ inbox' = inbox \cup {[to |-> g, msg |-> m] : g \in Groups(Topic(m))}
  /\ link' = IF known \/ link[Own] # "open" THEN link ELSE [link EXCEPT ![Own] = "mute"]
  /\ UNCHANGED <<setupVars, busVars, runVars, client, work, got, crash>>

\* One of the size callbacks of the queue group.
Take(s, d) ==
  /\ transport = "nats" /\ s \in subs
  /\ d \in inbox /\ d.to = Group(s)
  /\ Cardinality({w \in work : w.sub = s}) < s.size
  /\ inbox' = inbox \ {d}
  /\ work' = work \cup {[sub |-> s, msg |-> d.msg, oks |-> <<>>, ask |-> 0]}
  /\ UNCHANGED <<setupVars, busVars, runVars, link, client, sendVars, got, crash>>

\* Mutant: the first call counts as one of the retries.
Again_CountsFirst(w, ok) == ~ok /\ Len(w.oks) < w.ask

\* Mutant: a success does not end the loop.
Again_NoBreak(w, ok) == Len(w.oks) <= w.ask

\* Whether the loop calls the handler once more.
Again(w, ok) == ~ok /\ Len(w.oks) <= w.ask

\* What a call of the handler asks for: the first failure decides.
Asked(w, ok) == IF w.oks = <<>> /\ ~ok THEN 0 .. MaxAsk ELSE {w.ask}

\* A call of the handler, which may be followed by others, each with Retry one
\* higher.
Callback(w, ok, ask) ==
  LET v == [w EXCEPT !.oks = Append(@, ok), !.ask = ask] IN
  /\ work' = (work \ {w}) \cup IF Again(v, ok) THEN {v} ELSE {}
  /\ got' = IF Again(v, ok) THEN got
            ELSE got \cup {[sub |-> v.sub, msg |-> v.msg, oks |-> v.oks, ask |-> v.ask,
                            saw |-> [saw EXCEPT !.Retry = @ + Len(w.oks)]] :
                             saw \in Read(v.msg, FALSE)}
  /\ UNCHANGED <<setupVars, busVars, runVars, link, client, sendVars, inbox, crash>>

-----------------------------------------------------------------------------
Server == StartBroker \/ (\E s \in todo : StartSubscribe(s)) \/ StopBroker

Dispatch(m) ==
  \/ Arrive(m)
  \/ \E s \in Matching(m), ok \in BOOLEAN : CallHandler(m, s, ok)
  \/ RangeEnds(m)

Nats ==
  \/ \E s \in subs, d \in inbox : Take(s, d)
  \/ \E w \in work, ok \in BOOLEAN : \E ask \in Asked(w, ok) : Callback(w, ok, ask)

Next ==
  /\ crash = "none"
  /\ \/ Setup /\ UNCHANGED <<busVars, runVars, link, client, sendVars, readVars, crash>>
     \/ Server
     \/ NewClient \/ CloseClient
     \/ \E m \in Messages : \E t \in TopicsOf[m] : Publish(m, t)
     \/ \E m \in Messages : Dispatch(m) \/ LoseRequest(m) \/ MapRace(m)
     \/ Route
     \/ Nats

Spec == Init /\ [][Next]_vars

\* Handlers return, as the timeout of a subscription makes sure, and what the
\* runtime, NATS and the network have begun goes on; it is enough that one of
\* the steps under way is taken at a time.
Delivers == (\E m \in Messages : Dispatch(m)) \/ Route \/ Nats

FairSpec == Spec /\ WF_vars(crash = "none" /\ Delivers)

-----------------------------------------------------------------------------
(* Properties *)

\* Type invariant, and: no callback of NATS goes on after a success.
TypeOK ==
  /\ transport \in {"stub", "http", "direct", "nats", "rabbitmq"}
  /\ shared \in BOOLEAN
  /\ stage \in {"stopped", "subscribing", "serving"} /\ runs \in 0 .. MaxRuns
  /\ todo \subseteq Subscribed /\ subs \subseteq Subscribed
  /\ bound \subseteq {<<s.topic, s.queue>> : s \in Subscribed}
  /\ link \in [Objects -> {"none", "open", "closed", "mute"}]
  /\ client \in {"none", "ready", "failed", "closed"}
  /\ \A m \in Messages :
       /\ call[m].pc \in {"none", "sent", "range", "over"}
       /\ call[m].result \in {"none", "pending", "ok", "error", "notFound"}
  /\ \A i \in DOMAIN flight : flight[i] \in Messages
  /\ \A d \in inbox : d.msg \in Messages
  /\ \A w \in work :
       w.sub \in Subscribed /\ w.msg \in Messages /\ \A i \in DOMAIN w.oks : ~w.oks[i]
  /\ crash \in {"none", "mapRace"}

\* The message a subscriber should see: an empty body is not transmitted.
Sent(m) ==
  LET c == Content[m] IN
  IF transport # "stub" /\ c.Body = <<>> THEN [c EXCEPT !.Body = NoBody] ELSE c

\* A publisher is told of success only when every subscription to the topic
\* that was in place (all of the server's for ServePubSub) has handled the
\* whole message, whatever order the map of queues was ranged over in and
\* whatever was subscribed, lost or cut off meanwhile.
SuccessReachesAll ==
  \A m \in Messages : Sync /\ call[m].result = "ok" =>
    LET due == IF transport = "direct" THEN {s \in Subscribed : s.topic = Topic(m)}
                                       ELSE call[m].must IN
    /\ due # {} \/ transport = "direct"
    /\ \A s \in due : \E g \in got :
         g.sub = s /\ g.msg = m /\ g.oks = <<TRUE>> /\ g.saw = Sent(m)

\* Dispatch stops at the first failure: at most one handler fails for each
\* Publish, the publisher is told an error and not another result, and one
\* that is told there is no such topic has reached nobody.
OneFailureEach ==
  \A m \in Messages : Sync =>
    LET failed == {g \in got : g.msg = m /\ g.oks = <<FALSE>>} IN
    /\ Cardinality(failed) <= 1
    /\ failed # {} => call[m].result = "error"
    /\ call[m].result = "notFound" => \A g \in got : g.msg # m

\* A queue group of NATS handles a publishing at most once, however many
\* callbacks its subscription has: the callback calls the handler until a
\* success, or once and as often again as the first failure asked, with Retry
\* counting up from what was sent.
GroupHandlesOnce ==
  transport = "nats" =>
    /\ \A m \in Messages, s \in Subscribed :
         Cardinality({g \in got : g.msg = m /\ Group(g.sub) = Group(s)})
           + Cardinality({w \in work : w.msg = m /\ Group(w.sub) = Group(s)})
           + Cardinality({d \in inbox : d.msg = m /\ d.to = Group(s)}) <= 1
    /\ \A g \in got :
         /\ \A i \in 1 .. Len(g.oks) - 1 : ~g.oks[i]
         /\ ~Last(g.oks) => Len(g.oks) = 1 + g.ask
         /\ g.saw = [Sent(g.msg) EXCEPT !.Retry = @ + Len(g.oks) - 1]

\* RabbitMQ puts a message into every queue subscribed when it was published,
\* though queues may be shared between topics, unless the client has published
\* to a topic nobody had subscribed to: that closed its channel.
QueuedUnlessMuted ==
  transport = "rabbitmq" => \A m \in Messages :
    call[m].pc = "over" /\ call[m].result = "ok" =>
      \/ call[m].must \subseteq call[m].seen
      \/ \E b \in Messages : /\ Topic(b) # Topic(m)
                          /\ call[b].result = "ok" /\ call[b].seen = {}

\* A server that serves with an HTTP broker is listened for, but for two cases
\* in which Connect finds a listener that was closed: a second Run, and a
\* client that shares the broker object and has closed it.
ServingIsReachable ==
  transport = "http" /\ stage = "serving" =>
    link["server"] = "open" \/ runs > 1 \/ (shared /\ client = "closed")

\* Every Publish that waits for handlers returns, though more queues may be
\* subscribed while it does, and what NATS has for queue groups is handled, all
\* retries included, or lost when the server stops; unless the process ends.
\* A message is published once, so there is a time after which none is under way.
DeliveryEnds ==
  []<>(\/ crash # "none"
       \/ /\ \A m \in Messages : call[m].result # "pending"
          /\ transport = "nats" => inbox \cup work = {})

\* Every message fills the buffer MarshalTo is given exactly and is read back as
\* it was written, but for a body of no bytes; unknown fields do not change what
\* is read; and a message that is cut off loses its body and is read without an
\* error only when the cut is between two fields.  Only the stub broker does
\* without the encoding.
EncodingKept == transport # "stub" => Encodes
=============================================================================
