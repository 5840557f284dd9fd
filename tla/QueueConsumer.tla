---------------------------- MODULE QueueConsumer ----------------------------
(***************************************************************************)
(* One RabbitMQ queue consumed by the workers of several kuja servers:     *)
(* rabbitmqBroker.Subscribe, the handler wrappers server.subscribe and     *)
(* server.subscribeTimeout, and SubscribeContext.Reject.                   *)
(*                                                                         *)
(* Every server consumes the queue on a channel of its own with a prefetch *)
(* equal to its number of workers.  A worker calls the wrapped handler,    *)
(* calls it again as often as the first failure asked for, and settles the *)
(* delivery.  With a timeout the handler runs in a goroutine the wrapper   *)
(* may abandon.  The broker and the AMQP client are outside the            *)
(* repository: a channel that closes requeues what it delivered and nobody *)
(* settled, settling a delivery twice closes the channel, and frames of a  *)
(* closed channel are ignored.                                             *)
(***************************************************************************)
EXTENDS Naturals, Sequences, FiniteSets

CONSTANTS
  Servers,     \* processes that subscribed to the queue
  Workers,     \* worker goroutines of all servers
  Messages,    \* messages in the queue
  Worlds,      \* records [home, undecodable]: the server each worker belongs
               \* to, and messages whose body the subscriber's encoder rejects
  Timeout,     \* s.timeout # 0
  MaxAsk,      \* bound: retries a handler may ask for in Reject
  MaxFaults,   \* bound: crashes and lost channels
  None         \* absence of a delivery

ASSUME WorldsAssumption ==
  Worlds \subseteq [home: [Workers -> Servers], undecodable: SUBSET Messages]
ASSUME TimeoutAssumption == Timeout \in BOOLEAN
ASSUME AskAssumption == MaxAsk \in Nat
ASSUME FaultAssumption == MaxFaults \in Nat
ASSUME WorkersAssumption == IsFiniteSet(Workers)
ASSUME PlaceAssumption ==
  Servers \cap {"ready", "acked", "dropped", "waiting", "processed"} = {}

VARIABLES
  world,     \* which of the worlds it is, which never changes
  place,     \* broker: "ready", the server it is delivered to, or its end
  count,     \* broker: how often the message was delivered
  open,      \* broker: servers whose channel is open
  buffer,    \* deliveries of a server no worker has taken from consume yet
  up,        \* servers whose process is running
  pc,        \* where a worker is
  held,      \* the delivery a worker is processing
  attempt,   \* brokerMsg.Retry
  left,      \* retries the worker's loop still has to make
  seen,      \* results h returned for the delivery, in order
  running,   \* handler calls that have not returned
  results,   \* returned calls that have yet to send their result on ch
  faults,    \* crashes and lost channels so far
  succeeded, \* history: handler calls that returned nil
  verdict    \* history: what settled the message: <<delivery, results>>

brokerVars == <<place, count, open, faults>>
loopVars   == <<pc, held, attempt, left, seen>>
callVars   == <<running, results, succeeded>>
stepVars == <<brokerVars, buffer, up, loopVars, callVars, verdict>>
vars == <<world, stepVars>>

-----------------------------------------------------------------------------
Home(w) == world.home[w]

Size(s) == Cardinality({w \in Workers : Home(w) = s})

Subscribing == {Home(w) : w \in Workers}

Unsettled(s) == {m \in Messages : place[m] = s}

\* The n-th delivery of a message, and a call of the handler for it.
Deliveries == [srv: Servers, msg: Messages, n: Nat]
Calls      == [of: Deliveries, attempt: Nat]

\* What the wrapped handler returns: success, or an error with the number of
\* retries it asks for.
Outcomes == [ok: {TRUE}, ask: {0}] \cup [ok: {FALSE}, ask: 0 .. MaxAsk]
Failure  == [ok |-> FALSE, ask |-> 0]

CallOf(w) == [of |-> held[w], attempt |-> attempt[w]]

Holding(w) == pc[w] \in {"call", "wait", "ack", "reject"}

Init ==
  /\ world \in Worlds
  /\ place = [m \in Messages |-> "ready"]
  /\ count = [m \in Messages |-> 0]
  /\ open = Subscribing
  /\ buffer = [s \in Servers |-> {}]
  /\ up = Subscribing
  /\ pc = [w \in Workers |-> "idle"]
  /\ held = [w \in Workers |-> None]
  /\ attempt = [w \in Workers |-> 0]
  /\ left = [w \in Workers |-> 0]
  /\ seen = [w \in Workers |-> <<>>]
  /\ running = {}
  /\ results = {}
  /\ faults = 0
  /\ succeeded = {}
  /\ verdict = [m \in Messages |-> <<>>]

-----------------------------------------------------------------------------
(* The broker and the AMQP client *)

\* Mutant: Consume asks for no acknowledgements.
Deliver_NoAck(s, m) ==
  /\ s \in open
  /\ place[m] = "ready"
  /\ place' = [place EXCEPT ![m] = "acked"]
  /\ count' = [count EXCEPT ![m] = @ + 1]
  /\ buffer' = [buffer EXCEPT ![s] =
                  @ \cup {[srv |-> s, msg |-> m, n |-> count[m] + 1]}]
  /\ UNCHANGED <<open, faults, up, loopVars, callVars, verdict>>

\* Mutant: Qos is not called, the channel has no prefetch limit.
Deliver_NoQos(s, m) ==
  /\ s \in open
  /\ place[m] = "ready"
  /\ place' = [place EXCEPT ![m] = s]
  /\ count' = [count EXCEPT ![m] = @ + 1]
  /\ buffer' = [buffer EXCEPT ![s] =
                  @ \cup {[srv |-> s, msg |-> m, n |-> count[m] + 1]}]
  /\ UNCHANGED <<open, faults, up, loopVars, callVars, verdict>>

\* Qos(size, 0, false) and Consume with no-ack false: at most size unsettled
\* deliveries on the channel.
Deliver(s, m) ==
  /\ s \in open
  /\ place[m] = "ready"
  /\ Cardinality(Unsettled(s)) < Size(s)
  /\ place' = [place EXCEPT ![m] = s]
  /\ count' = [count EXCEPT ![m] = @ + 1]
  /\ buffer' = [buffer EXCEPT ![s] =
                  @ \cup {[srv |-> s, msg |-> m, n |-> count[m] + 1]}]
  /\ UNCHANGED <<open, faults, up, loopVars, callVars, verdict>>

Requeued(s) == [m \in Messages |-> IF place[m] = s THEN "ready" ELSE place[m]]

\* The broker closes the channel of s.
CloseChannel(s) ==
  /\ open' = open \ {s}
  /\ place' = Requeued(s)

\* The connection is lost, or broker.Close closes it: nothing reopens the
\* channel while the process lives.
LoseChannel(s) ==
  /\ s \in open
  /\ faults < MaxFaults
  /\ faults' = faults + 1
  /\ CloseChannel(s)
  /\ UNCHANGED <<count, buffer, up, loopVars, callVars, verdict>>

\* Whether the client still hands out deliveries it had buffered when the
\* channel closed is up to the library.
DiscardBuffer(s) ==
  /\ s \in up \ open
  /\ buffer[s] # {}
  /\ buffer' = [buffer EXCEPT ![s] = {}]
  /\ UNCHANGED <<brokerVars, up, loopVars, callVars, verdict>>

\* The process dies with its workers, its handler calls and its channel.
Crash(s) ==
  /\ s \in up
  /\ faults < MaxFaults
  /\ faults' = faults + 1
  /\ up' = up \ {s}
  /\ CloseChannel(s)
  /\ buffer' = [buffer EXCEPT ![s] = {}]
  /\ pc' = [w \in Workers |-> IF Home(w) = s THEN "stopped" ELSE pc[w]]
  /\ running' = {c \in running : c.of.srv # s}
  /\ results' = {x \in results : x.call.of.srv # s}
  /\ UNCHANGED <<count, held, attempt, left, seen, succeeded, verdict>>

\* A new process subscribes.
Restart(s) ==
  /\ s \in Subscribing \ up
  /\ up' = up \cup {s}
  /\ open' = open \cup {s}
  /\ pc' = [w \in Workers |-> IF Home(w) = s THEN "idle" ELSE pc[w]]
  /\ UNCHANGED <<place, count, faults, buffer, held, attempt, left, seen,
                 callVars, verdict>>

-----------------------------------------------------------------------------
(* The worker loop of rabbitmqBroker.Subscribe *)

\* for d := range consume, with a fresh brokerMsg whose Retry is 0.
Take(w, d) ==
  /\ pc[w] = "idle"
  /\ d \in buffer[Home(w)]
  /\ buffer' = [buffer EXCEPT ![Home(w)] = @ \ {d}]
  /\ pc' = [pc EXCEPT ![w] = "call"]
  /\ held' = [held EXCEPT ![w] = d]
  /\ attempt' = [attempt EXCEPT ![w] = 0]
  /\ left' = [left EXCEPT ![w] = 0]
  /\ seen' = [seen EXCEPT ![w] = <<>>]
  /\ UNCHANGED <<brokerVars, up, callVars, verdict>>

\* The range loop ends when the channel is closed and consume is drained.
Stop(w) ==
  /\ pc[w] = "idle"
  /\ Home(w) \notin open
  /\ buffer[Home(w)] = {}
  /\ pc' = [pc EXCEPT ![w] = "stopped"]
  /\ UNCHANGED <<brokerVars, buffer, up, held, attempt, left, seen, callVars,
                 verdict>>

\* Mutant: the loop makes one retry more than the first failure asked for.
Returned_OneMore(w, o) ==
  LET first == attempt[w] = 0
      more  == IF first /\ o.ask > 0 THEN o.ask + 1
               ELSE IF first THEN 0 ELSE left[w] IN
  /\ seen' = [seen EXCEPT ![w] = Append(@, o)]
  /\ IF o.ok
     THEN pc' = [pc EXCEPT ![w] = "ack"] /\ UNCHANGED <<attempt, left>>
     ELSE IF more = 0
          THEN pc' = [pc EXCEPT ![w] = "reject"] /\ UNCHANGED <<attempt, left>>
          ELSE /\ pc' = [pc EXCEPT ![w] = "call"]
               /\ attempt' = [attempt EXCEPT ![w] = @ + 1]
               /\ left' = [left EXCEPT ![w] = more - 1]

\* Mutant: every failure starts the loop again with the retries it asks for.
Returned_AskAgain(w, o) ==
  /\ seen' = [seen EXCEPT ![w] = Append(@, o)]
  /\ IF o.ok
     THEN pc' = [pc EXCEPT ![w] = "ack"] /\ UNCHANGED <<attempt, left>>
     ELSE IF o.ask = 0
          THEN pc' = [pc EXCEPT ![w] = "reject"] /\ UNCHANGED <<attempt, left>>
          ELSE /\ pc' = [pc EXCEPT ![w] = "call"]
               /\ attempt' = [attempt EXCEPT ![w] = @ + 1]
               /\ left' = [left EXCEPT ![w] = o.ask - 1]

\* h returned o.  The first failure decides how often the loop calls h again;
\* what a retry asks for is ignored.
Returned(w, o) ==
  LET more == IF attempt[w] = 0 THEN o.ask ELSE left[w] IN
  /\ seen' = [seen EXCEPT ![w] = Append(@, o)]
  /\ \/ /\ o.ok
        /\ pc' = [pc EXCEPT ![w] = "ack"]
        /\ UNCHANGED <<attempt, left>>
     \/ /\ ~o.ok /\ more = 0
        /\ pc' = [pc EXCEPT ![w] = "reject"]
        /\ UNCHANGED <<attempt, left>>
     \/ /\ ~o.ok /\ more > 0
        /\ pc' = [pc EXCEPT ![w] = "call"]
        /\ attempt' = [attempt EXCEPT ![w] = @ + 1]
        /\ left' = [left EXCEPT ![w] = more - 1]

\* A frame that settles the delivery w holds.  The second one for the same
\* delivery is a channel exception; a closed channel sends nothing.
Settle(w, end) ==
  LET s == Home(w)
      m == held[w].msg IN
  \/ /\ s \in open /\ place[m] = s
     /\ place' = [place EXCEPT ![m] = end]
     /\ verdict' = [verdict EXCEPT ![m] = <<held[w], seen[w]>>]
     /\ UNCHANGED open
  \/ /\ s \in open /\ place[m] # s
     /\ CloseChannel(s)
     /\ UNCHANGED verdict
  \/ /\ s \notin open
     /\ UNCHANGED <<place, open, verdict>>

\* d.Ack(false).  After a retry the loop breaks and falls into d.Reject.
Ack(w) ==
  /\ pc[w] = "ack"
  /\ Settle(w, "acked")
  /\ pc' = [pc EXCEPT ![w] = IF attempt[w] = 0 THEN "idle" ELSE "reject"]
  /\ UNCHANGED <<count, faults, buffer, up, held, attempt, left, seen,
                 callVars>>

\* Mutant: the delivery is rejected only if its last attempt was a retry.
Reject_RetriedOnly(w) ==
  /\ pc[w] = "reject"
  /\ IF attempt[w] > 0 THEN Settle(w, "dropped")
                       ELSE UNCHANGED <<place, open, verdict>>
  /\ pc' = [pc EXCEPT ![w] = "idle"]
  /\ UNCHANGED <<count, faults, buffer, up, held, attempt, left, seen,
                 callVars>>

\* d.Reject(false) drops the message, unless the worker has acked it.
Reject(w) ==
  /\ pc[w] = "reject"
  /\ Settle(w, "dropped")
  /\ pc' = [pc EXCEPT ![w] = "idle"]
  /\ UNCHANGED <<count, faults, buffer, up, held, attempt, left, seen,
                 callVars>>

-----------------------------------------------------------------------------
(* The wrapped handler: server.subscribe and server.subscribeTimeout *)

\* The body is decoded before the handler is called.
StartCall(w) ==
  /\ pc[w] = "call"
  /\ held[w].msg \notin world.undecodable
  /\ pc' = [pc EXCEPT ![w] = "wait"]
  /\ running' = running \cup {CallOf(w)}
  /\ UNCHANGED <<brokerVars, buffer, up, held, attempt, left, seen, results,
                 succeeded, verdict>>

DecodeFails(w) ==
  /\ pc[w] = "call"
  /\ held[w].msg \in world.undecodable
  /\ Returned(w, Failure)
  /\ UNCHANGED <<brokerVars, buffer, up, held, callVars, verdict>>

\* User code returns nil, or an error after ctx.Reject(ask, err).
HandlerReturns(c, o) ==
  /\ c \in running
  /\ running' = running \ {c}
  /\ results' = results \cup {[call |-> c, outcome |-> o]}
  /\ succeeded' = IF o.ok THEN succeeded \cup {c} ELSE succeeded
  /\ UNCHANGED <<brokerVars, buffer, up, loopVars, verdict>>

\* Mutant: the calls of a subscriber send on one shared channel.
ReceiveResult_SharedChannel(w, x) ==
  /\ pc[w] = "wait"
  /\ x \in results
  /\ x.call.of.srv = Home(w)
  /\ results' = results \ {x}
  /\ Returned(w, x.outcome)
  /\ UNCHANGED <<brokerVars, buffer, up, held, running, succeeded, verdict>>

\* The result comes over the channel of this very call.
ReceiveResult(w, x) ==
  /\ pc[w] = "wait"
  /\ x \in results
  /\ x.call = CallOf(w)
  /\ results' = results \ {x}
  /\ Returned(w, x.outcome)
  /\ UNCHANGED <<brokerVars, buffer, up, held, running, succeeded, verdict>>

\* Mutant: a retry is called without the timeout.
TimeoutFires_FirstOnly(w) ==
  /\ Timeout /\ attempt[w] = 0
  /\ pc[w] = "wait"
  /\ Returned(w, Failure)
  /\ UNCHANGED <<brokerVars, buffer, up, held, callVars, verdict>>

\* time.After wins the select, perhaps against a result that is ready: the
\* handler runs on, or stays blocked on its channel for good.
TimeoutFires(w) ==
  /\ Timeout
  /\ pc[w] = "wait"
  /\ Returned(w, Failure)
  /\ UNCHANGED <<brokerVars, buffer, up, held, callVars, verdict>>

-----------------------------------------------------------------------------
Broker == \E s \in Servers :
  \/ \E m \in Messages : Deliver(s, m)
  \/ LoseChannel(s)
  \/ DiscardBuffer(s)
  \/ Crash(s)
  \/ Restart(s)

\* What the runtime and the library do for a worker without user code.
Loop(w) ==
  \/ \E d \in buffer[Home(w)] : Take(w, d)
  \/ Stop(w)
  \/ StartCall(w)
  \/ DecodeFails(w)
  \/ \E x \in results : ReceiveResult(w, x)
  \/ TimeoutFires(w)
  \/ Ack(w)
  \/ Reject(w)

Handlers == \E c \in running, o \in Outcomes : HandlerReturns(c, o)

Next ==
  /\ Broker \/ Handlers \/ \E w \in Workers : Loop(w)
  /\ UNCHANGED world

Spec == Init /\ [][Next]_vars

\* The scheduler runs every worker and the broker delivers.  Handlers need
\* not return: with a timeout the timer fires.
FairSpec ==
  /\ Spec
  /\ \A w \in Workers : WF_stepVars(Loop(w))
  /\ \A s \in Servers, m \in Messages : WF_stepVars(Deliver(s, m))

-----------------------------------------------------------------------------
(* Properties *)

Places == {"ready", "acked", "dropped"} \cup Servers

TypeOK ==
  /\ world \in Worlds
  /\ place \in [Messages -> Places]
  /\ count \in [Messages -> Nat]
  /\ open \subseteq up
  /\ buffer \in [Servers -> SUBSET Deliveries]
  /\ up \subseteq Servers
  /\ pc \in [Workers -> {"idle", "call", "wait", "ack", "reject", "stopped"}]
  /\ held \in [Workers -> Deliveries \cup {None}]
  /\ attempt \in [Workers -> 0 .. MaxAsk]
  /\ left \in [Workers -> 0 .. MaxAsk]
  /\ seen \in [Workers -> Seq(Outcomes)]
  /\ running \subseteq Calls
  /\ results \subseteq [call: Calls, outcome: Outcomes]
  /\ faults \in 0 .. MaxFaults
  /\ succeeded \subseteq Calls
  /\ verdict \in [Messages -> {<<>>} \cup (Deliveries \X Seq(Outcomes))]

\* A message leaves the queue as processed only if a handler call for that
\* very delivery returned nil: an abandoned call of another delivery, or the
\* timer, never acks it.
AckedMeansProcessed ==
  \A m \in Messages : place[m] = "acked" =>
    LET d == verdict[m][1]
        n == Len(verdict[m][2]) IN
    [of |-> d, attempt |-> n - 1] \in succeeded

\* A message is dropped only when the first call and every retry it asked
\* for failed or timed out.
DroppedMeansExhausted ==
  \A m \in Messages : place[m] = "dropped" =>
    LET outcomes == verdict[m][2] IN
    /\ \A i \in 1 .. Len(outcomes) : ~outcomes[i].ok
    /\ Len(outcomes) = 1 + outcomes[1].ask

\* No delivery is forgotten: while the broker waits for a message to be
\* settled it is in the consumer's buffer or in the hands of one worker.
UnsettledIsHeld ==
  \A m \in Messages, s \in Servers : place[m] = s =>
    LET d == [srv |-> s, msg |-> m, n |-> count[m]] IN
    \/ d \in buffer[s]
    \/ \E w \in Workers : Holding(w) /\ held[w] = d

\* While its channel is open the broker lets nobody else have a message a
\* worker is still trying, so no message is acked for one worker and retried
\* by another.
HolderOwns ==
  \A w \in Workers : Holding(w) /\ Home(w) \in open =>
    \/ /\ place[held[w].msg] = Home(w)
       /\ held[w].n = count[held[w].msg]
       /\ held[w] \notin buffer[Home(w)]
       /\ \A v \in Workers \ {w} : Holding(v) => held[v] # held[w]
    \/ pc[w] = "reject" /\ place[held[w].msg] = "acked"

\* What the broker and the consumers do together, seen as a work queue: the
\* prefetch of each server, where each message is, and the messages whose current
\* delivery a handler call has succeeded for.
queueCapacity == [s \in Servers |-> Size(s)]

queueAt ==
  [m \in Messages |-> CASE place[m] = "ready" -> "waiting"
                        [] place[m] = "acked" -> "processed"
                        [] OTHER              -> place[m]]

queueGood ==
  {m \in Messages :
     /\ place[m] \in Servers
     /\ \E c \in succeeded : c.of = [srv |-> place[m], msg |-> m, n |-> count[m]]}

Queue == INSTANCE WorkQueue WITH
  Consumers <- Servers,
  capacity <- queueCapacity, at <- queueAt, good <- queueGood

\* Every step of broker, workers and handlers is a step of a work queue or
\* changes nothing there: no prefetch is exceeded, late results of abandoned
\* calls count for nothing, and no message comes back once it has left.
ImplementsWorkQueue == Queue!QSpec

\* With a timeout every message is settled in the end, whatever handlers do,
\* as long as one server keeps its channel.
EverySettled ==
  (\E s \in Servers : <>[](s \in open)) =>
    \A m \in Messages : <>(place[m] \in {"acked", "dropped"})

\* As example/pubsub presents it, each message goes to one subscriber of its
\* queue group.  The code violates this without any fault: a success after a
\* retry is acked and then rejected, the channel closes, and what its other
\* workers hold is delivered again.
DeliveredToOne == \A m \in Messages : count[m] <= 1
=============================================================================
