------------------------- MODULE QueueConsumerProofs -------------------------
(* What QueueConsumer keeps of a message, for any servers, workers, messages *)
(* and bounds, and that it is a work queue.                                  *)
EXTENDS QueueConsumer, SequenceTheorems, FiniteSetTheorems, TLAPS

\* A delivery a worker has, or could still be given, is one its own server got,
\* and no delivery or call is of a later one than the broker has made.  Nothing
\* is buffered for a server that is down.
KnownOK ==
  /\ \A w \in Workers : Holding(w) =>
       /\ held[w] \in Deliveries
       /\ held[w].srv = Home(w)
       /\ held[w].n <= count[held[w].msg]
  /\ \A s \in Servers : \A d \in buffer[s] : d.srv = s /\ d.n <= count[d.msg]
  /\ \A c \in running \cup succeeded : c.of.n <= count[c.of.msg]
  /\ \A s \in Servers \ up : buffer[s] = {}

\* The loop has made one call for each result and has as many left as the first
\* failure asked for.
LoopOK ==
  \A w \in Workers : pc[w] \in {"call", "wait"} =>
    /\ Len(seen[w]) = attempt[w]
    /\ \A i \in 1 .. attempt[w] : ~seen[w][i].ok
    /\ attempt[w] > 0 => attempt[w] + left[w] = seen[w][1].ask

TypeInv == TypeOK /\ KnownOK /\ LoopOK

\* Every worker has a home.
LEMMA HomeType ==
  ASSUME TypeOK, NEW w \in Workers
  PROVE  Home(w) \in Servers
BY WorldsAssumption DEF TypeOK, Home

\* The fields of a result.
LEMMA OutcomeType ==
  ASSUME NEW o \in Outcomes
  PROVE  o.ok \in BOOLEAN /\ o.ask \in 0 .. MaxAsk
<1>1. CASE o \in [ok: {TRUE}, ask: {0}]
  <2>1. o.ok = TRUE /\ o.ask = 0
    BY <1>1
  <2>2. o.ask \in 0 .. MaxAsk
    BY <2>1, AskAssumption
  <2> QED
    BY <2>1, <2>2
<1>2. CASE o \in [ok: {FALSE}, ask: 0 .. MaxAsk]
  <2>1. o.ok = FALSE /\ o.ask \in 0 .. MaxAsk
    BY <1>2
  <2> QED
    BY <2>1
<1> QED
  BY <1>1, <1>2 DEF Outcomes

\* What Append does to a sequence of results.
LEMMA AppendOutcome ==
  ASSUME NEW s \in Seq(Outcomes), NEW o \in Outcomes
  PROVE  /\ Append(s, o) \in Seq(Outcomes)
         /\ Len(s) \in Nat
         /\ Len(Append(s, o)) = Len(s) + 1
         /\ \A i \in 1 .. Len(s) : Append(s, o)[i] = s[i]
         /\ Append(s, o)[Len(s) + 1] = o
BY AppendProperties, LenProperties

\* What one pass of the worker's loop does to the worker it is of.
LEMMA ReturnedStep ==
  ASSUME TypeOK, LoopOK, NEW w \in Workers, NEW o \in Outcomes,
         pc[w] \in {"call", "wait"}, Returned(w, o)
  PROVE  /\ pc' \in [Workers -> {"idle", "call", "wait", "ack", "reject", "stopped"}]
         /\ attempt' \in [Workers -> 0 .. MaxAsk]
         /\ left' \in [Workers -> 0 .. MaxAsk]
         /\ seen' \in [Workers -> Seq(Outcomes)]
         /\ \A v \in Workers \ {w} :
              /\ pc'[v] = pc[v] /\ seen'[v] = seen[v]
              /\ attempt'[v] = attempt[v] /\ left'[v] = left[v]
         /\ seen'[w] = Append(seen[w], o)
         /\ Len(seen'[w]) = attempt[w] + 1
         /\ \A i \in 1 .. attempt[w] : ~seen'[w][i].ok
         /\ seen'[w][attempt[w] + 1] = o
         /\ \/ pc'[w] = "ack" /\ o.ok /\ attempt'[w] = attempt[w]
            \/ pc'[w] = "reject" /\ ~o.ok /\ attempt[w] = seen'[w][1].ask
            \/ /\ pc'[w] = "call" /\ ~o.ok
               /\ attempt'[w] = attempt[w] + 1
               /\ attempt'[w] + left'[w] = seen'[w][1].ask
<1> DEFINE a == attempt[w]
           s == seen[w]
<1>1. /\ s \in Seq(Outcomes) /\ Len(s) = a /\ a \in 0 .. MaxAsk
      /\ left[w] \in 0 .. MaxAsk
      /\ \A i \in 1 .. a : ~s[i].ok
      /\ a > 0 => a + left[w] = s[1].ask
  BY DEF TypeOK, LoopOK
<1>2. /\ seen' = [seen EXCEPT ![w] = Append(s, o)]
      /\ seen' \in [Workers -> Seq(Outcomes)]
      /\ seen'[w] = Append(s, o)
  BY <1>1, AppendOutcome DEF Returned, TypeOK
<1>3. /\ Len(seen'[w]) = a + 1
      /\ \A i \in 1 .. a : seen'[w][i] = s[i] /\ ~seen'[w][i].ok
      /\ seen'[w][a + 1] = o
  BY <1>1, <1>2, AppendOutcome
<1>4. o.ok \in BOOLEAN /\ o.ask \in 0 .. MaxAsk
  BY OutcomeType
<1>5. a > 0 => seen'[w][1] = s[1] /\ s[1] \in Outcomes
  <2>1. a > 0 => 1 \in 1 .. a
    BY <1>1
  <2> QED
    BY <1>1, <1>3, <2>1, ElementOfSeq
<1>6. a = 0 => seen'[w][1] = o
  BY <1>3
<1>7. \A v \in Workers \ {w} : seen'[v] = seen[v]
  BY <1>2 DEF TypeOK
<1>8. CASE o.ok
  BY <1>1, <1>2, <1>3, <1>7, <1>8 DEF Returned, TypeOK
<1>9. CASE ~o.ok
  <2> DEFINE more == IF a = 0 THEN o.ask ELSE left[w]
  <2>1. more \in 0 .. MaxAsk /\ a + more = seen'[w][1].ask
    BY <1>1, <1>4, <1>5, <1>6
  <2>2. seen'[w][1].ask \in 0 .. MaxAsk
    <3>1. a > 0 => s[1].ask \in 0 .. MaxAsk
      BY <1>5, OutcomeType
    <3> QED
      BY <1>1, <1>4, <1>5, <1>6, <3>1
  <2>3. CASE more = 0
    <3>1. pc' = [pc EXCEPT ![w] = "reject"] /\ UNCHANGED <<attempt, left>>
      BY <1>9, <2>1, <2>3 DEF Returned
    <3> QED
      BY <1>1, <1>2, <1>3, <1>7, <1>9, <2>1, <2>3, <3>1 DEF TypeOK
  <2>4. CASE more > 0
    <3>1. /\ pc' = [pc EXCEPT ![w] = "call"]
          /\ attempt' = [attempt EXCEPT ![w] = a + 1]
          /\ left' = [left EXCEPT ![w] = more - 1]
      BY <1>9, <2>1, <2>4 DEF Returned
    <3>2. a + 1 \in 0 .. MaxAsk /\ more - 1 \in 0 .. MaxAsk
      BY <1>1, <2>1, <2>2, <2>4, AskAssumption
    <3>3. /\ pc'[w] = "call" /\ attempt'[w] = a + 1 /\ left'[w] = more - 1
          /\ \A v \in Workers \ {w} :
               /\ pc'[v] = pc[v]
               /\ attempt'[v] = attempt[v] /\ left'[v] = left[v]
      BY <3>1 DEF TypeOK
    <3>4. attempt'[w] + left'[w] = seen'[w][1].ask
      BY <1>1, <2>1, <3>3
    <3>5. /\ pc' \in [Workers -> {"idle", "call", "wait", "ack", "reject", "stopped"}]
          /\ attempt' \in [Workers -> 0 .. MaxAsk]
          /\ left' \in [Workers -> 0 .. MaxAsk]
      BY <3>1, <3>2 DEF TypeOK
    <3> QED
      BY <1>2, <1>3, <1>7, <1>9, <3>3, <3>4, <3>5
  <2> QED
    BY <2>1, <2>3, <2>4, AskAssumption
<1> QED
  BY <1>4, <1>8, <1>9

-----------------------------------------------------------------------------
(* Types *)

\* The types and the loop variables hold at the start.
LEMMA TypeInit == Init => TypeInv
<1> SUFFICES ASSUME Init
             PROVE  TypeInv
  OBVIOUS
<1>1. Subscribing \subseteq Servers
  BY WorldsAssumption DEF Init, Subscribing, Home
<1>2. TypeOK
  BY <1>1, AskAssumption, FaultAssumption, EmptySeq DEF Init, TypeOK, Places
<1>3. KnownOK /\ LoopOK
  BY DEF Init, KnownOK, LoopOK, Holding
<1> QED
  BY <1>2, <1>3 DEF TypeInv

\* The broker counts one delivery more and the server buffers it.
LEMMA TypeDeliver ==
  ASSUME TypeInv, NEW s \in Servers, NEW m \in Messages, Deliver(s, m),
         UNCHANGED world
  PROVE  TypeInv'
<1> DEFINE d == [srv |-> s, msg |-> m, n |-> count[m] + 1]
<1>1. /\ d \in Deliveries /\ s \in up /\ s \in open
      /\ place' = [place EXCEPT ![m] = s]
      /\ count' = [count EXCEPT ![m] = @ + 1]
      /\ buffer' = [buffer EXCEPT ![s] = @ \cup {d}]
      /\ UNCHANGED <<open, faults, up, loopVars, callVars, verdict>>
  BY DEF Deliver, TypeInv, TypeOK, Deliveries
<1>2. TypeOK'
  BY <1>1 DEF TypeInv, TypeOK, Places, loopVars, callVars
<1>3. \A x \in Messages : count[x] <= count'[x]
  BY <1>1 DEF TypeInv, TypeOK
<1>4. /\ \A x \in Deliveries : x.n <= count[x.msg] => x.n <= count'[x.msg]
      /\ d.n <= count'[d.msg]
  BY <1>1, <1>3 DEF TypeInv, TypeOK, Deliveries
<1>5. KnownOK'
  <2>1. \A w \in Workers : Holding(w)' =>
          /\ held'[w] \in Deliveries
          /\ held'[w].srv = Home(w)'
          /\ held'[w].n <= count'[held'[w].msg]
    BY <1>1, <1>4 DEF TypeInv, KnownOK, Holding, Home, loopVars
  <2>2. \A t \in Servers : \A x \in buffer'[t] :
          x.srv = t /\ x.n <= count'[x.msg]
    BY <1>1, <1>4 DEF TypeInv, TypeOK, KnownOK
  <2>3. \A c \in running' \cup succeeded' : c.of.n <= count'[c.of.msg]
    BY <1>1, <1>4 DEF TypeInv, TypeOK, KnownOK, callVars, Calls
  <2>4. \A t \in Servers \ up' : buffer'[t] = {}
    BY <1>1 DEF TypeInv, TypeOK, KnownOK
  <2> QED
    BY <2>1, <2>2, <2>3, <2>4 DEF KnownOK
<1>6. LoopOK'
  BY <1>1 DEF TypeInv, LoopOK, loopVars
<1> QED
  BY <1>2, <1>5, <1>6 DEF TypeInv

\* The broker requeues what was delivered on a channel that closes.
LEMMA RequeuedType ==
  ASSUME TypeOK, NEW s \in Servers, CloseChannel(s)
  PROVE  place' \in [Messages -> Places] /\ open' \subseteq up
BY DEF TypeOK, CloseChannel, Requeued, Places

\* A lost channel gives its deliveries back and leaves the workers alone.
LEMMA TypeLoseChannel ==
  ASSUME TypeInv, NEW s \in Servers, LoseChannel(s), UNCHANGED world
  PROVE  TypeInv'
<1>1. TypeOK'
  BY RequeuedType, FaultAssumption DEF TypeInv, TypeOK, LoseChannel, loopVars, callVars
<1>2. KnownOK' /\ LoopOK'
  BY DEF TypeInv, KnownOK, LoopOK, LoseChannel, Holding, Home, loopVars, callVars
<1> QED
  BY <1>1, <1>2 DEF TypeInv

\* Frames on a closed channel are dropped.
LEMMA TypeDiscardBuffer ==
  ASSUME TypeInv, NEW s \in Servers, DiscardBuffer(s), UNCHANGED world
  PROVE  TypeInv'
<1>1. TypeOK'
  BY DEF TypeInv, TypeOK, DiscardBuffer, brokerVars, loopVars, callVars
<1>2. KnownOK' /\ LoopOK'
  BY DEF TypeInv, TypeOK, KnownOK, LoopOK, DiscardBuffer, Holding, Home,
         brokerVars, loopVars, callVars
<1> QED
  BY <1>1, <1>2 DEF TypeInv

\* A process that ends takes its workers and handlers along.
LEMMA TypeCrash ==
  ASSUME TypeInv, NEW s \in Servers, Crash(s), UNCHANGED world
  PROVE  TypeInv'
<1>1. place' \in [Messages -> Places] /\ open' \subseteq up'
  BY RequeuedType DEF TypeInv, TypeOK, Crash, CloseChannel
<1>2. TypeOK'
  BY <1>1, FaultAssumption DEF TypeInv, TypeOK, Crash
<1>3. \A w \in Workers : pc'[w] # "stopped" => pc'[w] = pc[w]
  BY DEF TypeInv, TypeOK, Crash
<1>4. KnownOK'
  BY <1>3 DEF TypeInv, TypeOK, KnownOK, Crash, Holding, Home
<1>5. LoopOK'
  BY <1>3 DEF TypeInv, LoopOK, Crash
<1> QED
  BY <1>2, <1>4, <1>5 DEF TypeInv

\* A new process has idle workers and an open channel.
LEMMA TypeRestart ==
  ASSUME TypeInv, NEW s \in Servers, Restart(s), UNCHANGED world
  PROVE  TypeInv'
<1>1. TypeOK'
  BY DEF TypeInv, TypeOK, Restart, callVars
<1>2. \A w \in Workers : pc'[w] # "idle" => pc'[w] = pc[w]
  BY DEF TypeInv, TypeOK, Restart
<1>3. KnownOK'
  BY <1>2 DEF TypeInv, TypeOK, KnownOK, Restart, Holding, Home, callVars
<1>4. LoopOK'
  BY <1>2 DEF TypeInv, LoopOK, Restart
<1> QED
  BY <1>1, <1>3, <1>4 DEF TypeInv

\* A worker takes a delivery from the buffer of its own server.
LEMMA TypeTake ==
  ASSUME TypeInv, NEW w \in Workers, NEW d \in buffer[Home(w)], Take(w, d),
         UNCHANGED world
  PROVE  TypeInv'
<1>1. /\ Home(w) \in Servers /\ d \in Deliveries
      /\ d.srv = Home(w) /\ d.n <= count[d.msg]
  BY HomeType DEF TypeInv, TypeOK, KnownOK
<1>2. TypeOK'
  BY <1>1, AskAssumption, EmptySeq
  DEF TypeInv, TypeOK, Take, brokerVars, callVars
<1>3. /\ held'[w] = d /\ seen'[w] = <<>> /\ attempt'[w] = 0
      /\ \A v \in Workers \ {w} :
           /\ held'[v] = held[v] /\ pc'[v] = pc[v] /\ seen'[v] = seen[v]
           /\ attempt'[v] = attempt[v] /\ left'[v] = left[v]
  BY DEF TypeInv, TypeOK, Take
<1>4. KnownOK'
  BY <1>1, <1>3
  DEF TypeInv, TypeOK, KnownOK, Take, Holding, Home, brokerVars, callVars
<1>5. LoopOK'
  BY <1>3 DEF TypeInv, LoopOK
<1> QED
  BY <1>2, <1>4, <1>5 DEF TypeInv

\* A worker of a closed channel leaves its loop.
LEMMA TypeStop ==
  ASSUME TypeInv, NEW w \in Workers, Stop(w), UNCHANGED world
  PROVE  TypeInv'
<1>1. TypeOK'
  BY DEF TypeInv, TypeOK, Stop, brokerVars, callVars
<1>2. \A v \in Workers : pc'[v] # "stopped" => pc'[v] = pc[v]
  BY DEF TypeInv, TypeOK, Stop
<1>3. KnownOK' /\ LoopOK'
  BY <1>2 DEF TypeInv, KnownOK, LoopOK, Stop, Holding, Home, brokerVars, callVars
<1> QED
  BY <1>1, <1>3 DEF TypeInv

\* A call of the handler is for the delivery the worker holds.
LEMMA TypeStartCall ==
  ASSUME TypeInv, NEW w \in Workers, StartCall(w), UNCHANGED world
  PROVE  TypeInv'
<1>1. held[w] \in Deliveries /\ held[w].n <= count[held[w].msg]
  BY DEF TypeInv, KnownOK, StartCall, Holding
<1>2. CallOf(w) \in Calls /\ CallOf(w).of = held[w]
  BY <1>1 DEF TypeInv, TypeOK, CallOf, Calls
<1>3. TypeOK'
  BY <1>2 DEF TypeInv, TypeOK, StartCall, brokerVars
<1>4. pc'[w] = "wait" /\ \A v \in Workers \ {w} : pc'[v] = pc[v]
  BY DEF TypeInv, TypeOK, StartCall
<1>5. \A v \in Workers : Holding(v)' => Holding(v)
  BY <1>4 DEF Holding, StartCall
<1>6. KnownOK'
  BY <1>1, <1>2, <1>5 DEF TypeInv, KnownOK, StartCall, Home, brokerVars
<1>7. LoopOK'
  BY <1>4 DEF TypeInv, LoopOK, StartCall
<1> QED
  BY <1>3, <1>6, <1>7 DEF TypeInv

\* The three ways a call ends for the worker: no decoding, a result, the timer.
LEMMA TypeReturned ==
  ASSUME TypeInv, NEW w \in Workers, NEW o \in Outcomes,
         pc[w] \in {"call", "wait"}, Returned(w, o), results' \subseteq results,
         UNCHANGED <<world, brokerVars, buffer, up, held, running, succeeded, verdict>>
  PROVE  TypeInv'
<1>1. TypeOK'
  BY ReturnedStep DEF TypeInv, TypeOK, brokerVars
<1>2. \A v \in Workers : Holding(v)' => Holding(v)
  BY ReturnedStep DEF Holding, TypeInv
<1>3. KnownOK'
  BY <1>2 DEF TypeInv, KnownOK, Home, brokerVars
<1>4. LoopOK'
  <2> SUFFICES ASSUME NEW v \in Workers, pc'[v] \in {"call", "wait"}
               PROVE  /\ Len(seen'[v]) = attempt'[v]
                      /\ \A i \in 1 .. attempt'[v] : ~seen'[v][i].ok
                      /\ attempt'[v] > 0 => attempt'[v] + left'[v] = seen'[v][1].ask
    BY DEF LoopOK
  <2>1. CASE v # w
    <3>1. /\ pc'[v] = pc[v] /\ seen'[v] = seen[v]
          /\ attempt'[v] = attempt[v] /\ left'[v] = left[v]
      BY <2>1, ReturnedStep DEF TypeInv
    <3> QED
      BY <3>1 DEF TypeInv, LoopOK
  <2>2. CASE v = w
    <3>1. /\ pc'[w] = "call" /\ ~o.ok
          /\ attempt'[w] = attempt[w] + 1
          /\ attempt'[w] + left'[w] = seen'[w][1].ask
      BY <2>2, ReturnedStep DEF TypeInv
    <3>2. /\ Len(seen'[w]) = attempt[w] + 1
          /\ \A i \in 1 .. attempt[w] : ~seen'[w][i].ok
          /\ seen'[w][attempt[w] + 1] = o
      BY ReturnedStep DEF TypeInv
    <3>3. attempt[w] \in Nat
      BY AskAssumption DEF TypeInv, TypeOK
    <3> QED
      BY <2>2, <3>1, <3>2, <3>3
  <2> QED
    BY <2>1, <2>2
<1> QED
  BY <1>1, <1>3, <1>4 DEF TypeInv

\* The result of a wrapped handler that failed or timed out.
LEMMA FailureType == Failure \in Outcomes
BY AskAssumption DEF Failure, Outcomes

\* A handler returns with a result, which waits on its channel.
LEMMA TypeHandlerReturns ==
  ASSUME TypeInv, NEW c \in running, NEW o \in Outcomes, HandlerReturns(c, o),
         UNCHANGED world
  PROVE  TypeInv'
<1>1. /\ c \in Calls
      /\ succeeded' \subseteq succeeded \cup {c}
      /\ running' \subseteq running
      /\ results' = results \cup {[call |-> c, outcome |-> o]}
  BY DEF TypeInv, TypeOK, HandlerReturns
<1>2. TypeOK'
  BY <1>1 DEF TypeInv, TypeOK, HandlerReturns, brokerVars, loopVars
<1>3. KnownOK'
  BY <1>1 DEF TypeInv, KnownOK, HandlerReturns, Holding, Home, brokerVars, loopVars
<1>4. LoopOK'
  BY DEF TypeInv, LoopOK, HandlerReturns, loopVars
<1> QED
  BY <1>2, <1>3, <1>4 DEF TypeInv

\* A worker that settles a delivery leaves all else of the loop as it is.
LEMMA TypeSettle ==
  ASSUME TypeInv, NEW w \in Workers, NEW end \in {"acked", "dropped"},
         Holding(w), Settle(w, end),
         NEW next \in {"idle", "reject"}, pc' = [pc EXCEPT ![w] = next],
         UNCHANGED <<world, count, faults, buffer, up, held, attempt, left, seen,
                     callVars>>
  PROVE  TypeInv'
<1>1. /\ Home(w) \in Servers /\ held[w] \in Deliveries /\ seen[w] \in Seq(Outcomes)
      /\ held[w].msg \in Messages
  BY HomeType DEF TypeInv, TypeOK, KnownOK, Deliveries
<1>2. place' \in [Messages -> Places] /\ open' \subseteq up
  <2>1. CASE CloseChannel(Home(w))
    BY <1>1, <2>1, RequeuedType DEF TypeInv
  <2>2. CASE ~CloseChannel(Home(w))
    BY <1>1, <2>2 DEF Settle, Places, TypeInv, TypeOK
  <2> QED
    BY <2>1, <2>2
<1>3. verdict' \in [Messages -> {<<>>} \cup (Deliveries \X Seq(Outcomes))]
  <2>1. <<held[w], seen[w]>> \in Deliveries \X Seq(Outcomes)
    BY <1>1
  <2> QED
    BY <2>1 DEF Settle, TypeInv, TypeOK
<1>4. TypeOK'
  BY <1>2, <1>3 DEF TypeInv, TypeOK, callVars
<1>5. pc'[w] = next /\ \A v \in Workers \ {w} : pc'[v] = pc[v]
  BY DEF TypeInv, TypeOK
<1>6. \A v \in Workers : Holding(v)' => Holding(v)
  BY <1>5 DEF Holding
<1>7. KnownOK'
  BY <1>6 DEF TypeInv, KnownOK, Home, callVars
<1>8. LoopOK'
  BY <1>5 DEF TypeInv, LoopOK
<1> QED
  BY <1>4, <1>7, <1>8 DEF TypeInv

\* Every step keeps the types and the loop variables.
LEMMA TypeNext == TypeInv /\ [Next]_vars => TypeInv'
<1> SUFFICES ASSUME TypeInv, [Next]_vars
             PROVE  TypeInv'
  OBVIOUS
<1>1. ASSUME NEW s \in Servers, NEW m \in Messages, Deliver(s, m), UNCHANGED world
      PROVE  TypeInv'
  BY <1>1, TypeDeliver
<1>2. ASSUME NEW s \in Servers, LoseChannel(s), UNCHANGED world
      PROVE  TypeInv'
  BY <1>2, TypeLoseChannel
<1>3. ASSUME NEW s \in Servers, DiscardBuffer(s), UNCHANGED world
      PROVE  TypeInv'
  BY <1>3, TypeDiscardBuffer
<1>4. ASSUME NEW s \in Servers, Crash(s), UNCHANGED world
      PROVE  TypeInv'
  BY <1>4, TypeCrash
<1>5. ASSUME NEW s \in Servers, Restart(s), UNCHANGED world
      PROVE  TypeInv'
  BY <1>5, TypeRestart
<1>6. ASSUME NEW c \in running, NEW o \in Outcomes, HandlerReturns(c, o),
             UNCHANGED world
      PROVE  TypeInv'
  BY <1>6, TypeHandlerReturns
<1>7. ASSUME NEW w \in Workers, NEW d \in buffer[Home(w)], Take(w, d), UNCHANGED world
      PROVE  TypeInv'
  BY <1>7, TypeTake
<1>8. ASSUME NEW w \in Workers, Stop(w), UNCHANGED world
      PROVE  TypeInv'
  BY <1>8, TypeStop
<1>9. ASSUME NEW w \in Workers, StartCall(w), UNCHANGED world
      PROVE  TypeInv'
  BY <1>9, TypeStartCall
<1>10. ASSUME NEW w \in Workers, DecodeFails(w) \/ TimeoutFires(w), UNCHANGED world
       PROVE  TypeInv'
  BY <1>10, FailureType, TypeReturned DEF DecodeFails, TimeoutFires, callVars
<1>11. ASSUME NEW w \in Workers, NEW x \in results, ReceiveResult(w, x),
              UNCHANGED world
       PROVE  TypeInv'
  <2>1. x.outcome \in Outcomes
    BY DEF TypeInv, TypeOK
  <2> QED
    BY <1>11, <2>1, TypeReturned DEF ReceiveResult
<1>12. ASSUME NEW w \in Workers, Ack(w), UNCHANGED world
       PROVE  TypeInv'
  BY <1>12, TypeSettle DEF Ack, Holding
<1>13. ASSUME NEW w \in Workers, Reject(w), UNCHANGED world
       PROVE  TypeInv'
  BY <1>13, TypeSettle DEF Reject, Holding
<1>14. CASE UNCHANGED vars
  BY <1>14 DEF vars, stepVars, brokerVars, loopVars, callVars, TypeInv, TypeOK,
               KnownOK, LoopOK, Holding, Home
<1> QED
  BY <1>1, <1>2, <1>3, <1>4, <1>5, <1>6, <1>7, <1>8, <1>9, <1>10, <1>11, <1>12,
     <1>13, <1>14
  DEF Next, Broker, Handlers, Loop

\* Every variable keeps its type, whatever is lost or crashes: no worker ever
\* tries more often than a handler may ask for.
THEOREM SpecTypeOK == Spec => []TypeOK
<1>1. TypeInv => TypeOK
  BY DEF TypeInv
<1> QED
  BY TypeInit, TypeNext, <1>1, PTL DEF Spec

-----------------------------------------------------------------------------
(* Deliveries *)

\* The broker waits for nobody whose channel is closed, and what is buffered for
\* an open channel is what the broker waits for.
PlacedOK ==
  /\ \A m \in Messages : place[m] \in Servers => place[m] \in open
  /\ \A s \in open : \A d \in buffer[s] : place[d.msg] = s /\ d.n = count[d.msg]

OwnInv == PlacedOK /\ HolderOwns /\ UnsettledIsHeld

\* At the start no worker holds a delivery and none is unsettled.
LEMMA OwnInit == Init => OwnInv
<1> SUFFICES ASSUME Init
             PROVE  OwnInv
  OBVIOUS
<1>1. \A m \in Messages : place[m] \notin Servers
  BY PlaceAssumption DEF Init
<1>2. \A s \in open : buffer[s] = {}
  BY WorldsAssumption DEF Init, Subscribing, Home
<1>3. \A w \in Workers : ~Holding(w)
  BY DEF Init, Holding
<1> QED
  BY <1>1, <1>2, <1>3 DEF OwnInv, PlacedOK, HolderOwns, UnsettledIsHeld

\* Steps that neither take a delivery nor settle one.
LEMMA OwnQuiet ==
  ASSUME TypeInv, OwnInv,
         UNCHANGED <<world, place, count, open, buffer, held>>,
         \A v \in Workers : Holding(v)' => Holding(v),
         \A v \in Workers : Holding(v) => Holding(v)',
         \A v \in Workers : pc'[v] = pc[v] \/ pc[v] # "reject"
  PROVE  OwnInv'
<1>1. PlacedOK'
  BY DEF OwnInv, PlacedOK
<1>2. HolderOwns'
  <2> SUFFICES ASSUME NEW w \in Workers, Holding(w), Home(w) \in open
               PROVE  \/ /\ place[held[w].msg] = Home(w)
                         /\ held[w].n = count[held[w].msg]
                         /\ held[w] \notin buffer[Home(w)]
                         /\ \A v \in Workers \ {w} : Holding(v) => held[v] # held[w]
                      \/ pc'[w] = "reject" /\ place[held[w].msg] = "acked"
    BY DEF HolderOwns, Home
  <2> QED
    BY DEF OwnInv, HolderOwns
<1>3. UnsettledIsHeld'
  <2> SUFFICES ASSUME NEW m \in Messages, NEW s \in Servers, place[m] = s
               PROVE  LET d == [srv |-> s, msg |-> m, n |-> count[m]] IN
                      \/ d \in buffer[s]
                      \/ \E w \in Workers : Holding(w)' /\ held[w] = d
    BY DEF UnsettledIsHeld
  <2> QED
    BY DEF OwnInv, UnsettledIsHeld
<1> QED
  BY <1>1, <1>2, <1>3 DEF OwnInv

\* A message that is delivered has no holder with an open channel.
LEMMA OwnDeliver ==
  ASSUME TypeInv, OwnInv, NEW s \in Servers, NEW m \in Messages, Deliver(s, m),
         UNCHANGED world
  PROVE  OwnInv'
<1> DEFINE d == [srv |-> s, msg |-> m, n |-> count[m] + 1]
<1>1. /\ s \in open /\ place[m] = "ready"
      /\ place' = [place EXCEPT ![m] = s]
      /\ count' = [count EXCEPT ![m] = @ + 1]
      /\ buffer' = [buffer EXCEPT ![s] = @ \cup {d}]
      /\ UNCHANGED <<open, pc, held>>
  BY DEF Deliver, loopVars
<1>2. /\ place'[m] = s /\ count'[m] = count[m] + 1
      /\ buffer'[s] = buffer[s] \cup {d}
      /\ \A x \in Messages \ {m} : place'[x] = place[x] /\ count'[x] = count[x]
      /\ \A t \in Servers \ {s} : buffer'[t] = buffer[t]
  BY <1>1 DEF TypeInv, TypeOK
<1>3. "ready" \notin Servers
  BY PlaceAssumption
<1>4. \A t \in open : t \in Servers /\ \A x \in buffer[t] : x.msg \in Messages \ {m}
  BY <1>1, <1>3 DEF OwnInv, PlacedOK, TypeInv, TypeOK, Deliveries
<1>5. \A w \in Workers : Holding(w) /\ Home(w) \in open =>
        held[w].msg \in Messages \ {m}
  <2> SUFFICES ASSUME NEW w \in Workers, Holding(w), Home(w) \in open
               PROVE  held[w].msg \in Messages \ {m}
    OBVIOUS
  <2>1. held[w].msg \in Messages
    BY DEF TypeInv, KnownOK, Deliveries
  <2>2. place[held[w].msg] = Home(w) \/ place[held[w].msg] = "acked"
    BY DEF OwnInv, HolderOwns
  <2> QED
    BY <1>1, <1>3, <1>4, <2>1, <2>2
<1>6. PlacedOK'
  <2>1. \A x \in Messages : place'[x] \in Servers => place'[x] \in open'
    BY <1>1, <1>2 DEF OwnInv, PlacedOK
  <2>2. \A t \in open' : \A x \in buffer'[t] :
          place'[x.msg] = t /\ x.n = count'[x.msg]
    BY <1>1, <1>2, <1>4 DEF OwnInv, PlacedOK
  <2> QED
    BY <2>1, <2>2 DEF PlacedOK
<1>7. HolderOwns'
  <2> SUFFICES ASSUME NEW w \in Workers, Holding(w), Home(w) \in open
               PROVE  \/ /\ place'[held[w].msg] = Home(w)
                         /\ held[w].n = count'[held[w].msg]
                         /\ held[w] \notin buffer'[Home(w)]
                         /\ \A v \in Workers \ {w} : Holding(v) => held[v] # held[w]
                      \/ pc[w] = "reject" /\ place'[held[w].msg] = "acked"
    BY <1>1 DEF HolderOwns, Holding, Home
  <2>1. held[w].msg \in Messages \ {m} /\ held[w] # d /\ Home(w) \in Servers
    BY <1>5, HomeType DEF TypeInv
  <2> QED
    BY <1>2, <2>1 DEF OwnInv, HolderOwns
<1>8. UnsettledIsHeld'
  <2> SUFFICES ASSUME NEW x \in Messages, NEW t \in Servers, place'[x] = t
               PROVE  LET e == [srv |-> t, msg |-> x, n |-> count'[x]] IN
                      \/ e \in buffer'[t]
                      \/ \E w \in Workers : Holding(w) /\ held[w] = e
    BY <1>1 DEF UnsettledIsHeld, Holding
  <2>1. CASE x = m
    BY <1>2, <2>1
  <2>2. CASE x # m
    BY <1>2, <2>2 DEF OwnInv, UnsettledIsHeld
  <2> QED
    BY <2>1, <2>2
<1> QED
  BY <1>6, <1>7, <1>8 DEF OwnInv

\* What was delivered on a channel that closes waits again; what its workers do
\* from then on concerns nobody.
LEMMA OwnClose ==
  ASSUME TypeInv, OwnInv, NEW s \in Servers, CloseChannel(s),
         UNCHANGED <<world, count, held>>,
         \A t \in Servers \ {s} : buffer'[t] = buffer[t],
         \A v \in Workers : Home(v) # s => pc'[v] = pc[v],
         \A v \in Workers : Holding(v)' => Holding(v)
  PROVE  OwnInv'
<1>1. /\ open' = open \ {s}
      /\ \A m \in Messages :
           place'[m] = IF place[m] = s THEN "ready" ELSE place[m]
  BY DEF CloseChannel, Requeued
<1>2. "ready" \notin Servers
  BY PlaceAssumption
<1>3. \A w \in Workers : Home(w) # s /\ Holding(w) => Holding(w)'
  BY DEF Holding
<1>4. open \subseteq Servers
  BY DEF TypeInv, TypeOK
<1>5. PlacedOK'
  <2>1. \A m \in Messages : place'[m] \in Servers => place'[m] \in open'
    BY <1>1, <1>2 DEF OwnInv, PlacedOK
  <2>2. \A t \in open' : \A d \in buffer'[t] : d \in buffer[t] /\ d.msg \in Messages
    BY <1>1, <1>4 DEF TypeInv, TypeOK, Deliveries
  <2>3. \A t \in open' : \A d \in buffer'[t] :
          place'[d.msg] = t /\ d.n = count'[d.msg]
    BY <1>1, <2>2 DEF OwnInv, PlacedOK
  <2> QED
    BY <2>1, <2>3 DEF PlacedOK
<1>6. HolderOwns'
  <2> SUFFICES ASSUME NEW w \in Workers, Holding(w), Home(w) \in open, Home(w) # s
               PROVE  \/ /\ place'[held[w].msg] = Home(w)
                         /\ held[w].n = count[held[w].msg]
                         /\ held[w] \notin buffer'[Home(w)]
                         /\ \A v \in Workers \ {w} : Holding(v)' => held[v] # held[w]
                      \/ pc'[w] = "reject" /\ place'[held[w].msg] = "acked"
    BY <1>1, <1>3 DEF HolderOwns, Home
  <2>1. held[w].msg \in Messages /\ Home(w) \in Servers
    BY <1>4 DEF TypeInv, KnownOK, Deliveries
  <2>2. CASE pc[w] = "reject" /\ place[held[w].msg] = "acked"
    <3>1. "acked" \notin Servers
      BY PlaceAssumption
    <3>2. place'[held[w].msg] = "acked"
      BY <1>1, <2>1, <2>2, <3>1
    <3>3. pc'[w] = "reject"
      BY <2>2
    <3> QED
      BY <3>2, <3>3
  <2>3. CASE /\ place[held[w].msg] = Home(w)
             /\ held[w].n = count[held[w].msg]
             /\ held[w] \notin buffer[Home(w)]
             /\ \A v \in Workers \ {w} : Holding(v) => held[v] # held[w]
    <3>1. place'[held[w].msg] = Home(w) /\ held[w] \notin buffer'[Home(w)]
      BY <1>1, <2>1, <2>3
    <3>2. ASSUME NEW v \in Workers \ {w}, Holding(v)'
          PROVE  held[v] # held[w]
      <4>1. CASE Home(v) # s
        BY <1>3, <2>3, <3>2, <4>1
      <4>2. CASE Home(v) = s
        <5>1. held[v].srv = s /\ held[w].srv # s
          BY <3>2, <4>2 DEF TypeInv, KnownOK
        <5> QED
          BY <5>1
      <4> QED
        BY <4>1, <4>2
    <3> QED
      BY <2>3, <3>1, <3>2
  <2> QED
    BY <2>2, <2>3 DEF OwnInv, HolderOwns
<1>7. UnsettledIsHeld'
  <2> SUFFICES ASSUME NEW m \in Messages, NEW t \in Servers, place'[m] = t
               PROVE  LET d == [srv |-> t, msg |-> m, n |-> count[m]] IN
                      \/ d \in buffer'[t]
                      \/ \E w \in Workers : Holding(w)' /\ held[w] = d
    BY DEF UnsettledIsHeld
  <2>1. t # s /\ place[m] = t
    BY <1>1, <1>2
  <2>2. \A w \in Workers : Holding(w) /\ held[w].srv = t => Home(w) # s
    BY <2>1 DEF TypeInv, KnownOK
  <2> QED
    BY <1>3, <2>1, <2>2 DEF OwnInv, UnsettledIsHeld
<1> QED
  BY <1>5, <1>6, <1>7 DEF OwnInv

\* The worker's own message is settled, which nobody else with an open channel
\* can be waiting for.
LEMMA OwnSettled ==
  ASSUME TypeInv, OwnInv, NEW w \in Workers, Holding(w), Home(w) \in open,
         place[held[w].msg] = Home(w),
         NEW end \in {"acked", "dropped"},
         place' = [place EXCEPT ![held[w].msg] = end],
         NEW next \in {"idle", "reject"}, pc' = [pc EXCEPT ![w] = next],
         next = "reject" => end = "acked",
         UNCHANGED <<world, count, open, buffer, held>>
  PROVE  OwnInv'
<1> DEFINE m == held[w].msg
           s == Home(w)
<1>1. /\ m \in Messages /\ s \in Servers
      /\ held[w] \in Deliveries /\ held[w].srv = s
  BY HomeType DEF TypeInv, KnownOK, Deliveries
<1>2. /\ held[w].n = count[m] /\ held[w] \notin buffer[s]
      /\ \A v \in Workers \ {w} : Holding(v) => held[v] # held[w]
  <2>1. place[m] # "acked"
    BY <1>1, PlaceAssumption
  <2> QED
    BY <2>1 DEF OwnInv, HolderOwns
<1>3. /\ place'[m] = end
      /\ \A x \in Messages \ {m} : place'[x] = place[x]
      /\ pc'[w] = next
      /\ \A v \in Workers \ {w} : pc'[v] = pc[v]
  BY <1>1 DEF TypeInv, TypeOK
<1>4. end \notin Servers
  BY PlaceAssumption
<1>5. \A v \in Workers \ {w} : Holding(v)' => Holding(v)
  BY <1>3 DEF Holding
<1>6. \A v \in Workers \ {w} : Holding(v) => Holding(v)'
  BY <1>3 DEF Holding
<1>7. \A t \in Servers : \A d \in buffer[t] :
        d \in Deliveries /\ d.msg \in Messages /\ d.srv = t
  BY DEF TypeInv, TypeOK, KnownOK, Deliveries
<1>8. \A d, e \in Deliveries :
        d.srv = e.srv /\ d.msg = e.msg /\ d.n = e.n => d = e
  BY DEF Deliveries
<1>9. \A t \in open : \A d \in buffer[t] : d.msg # m
  <2> SUFFICES ASSUME NEW t \in open, NEW d \in buffer[t], d.msg = m
               PROVE  FALSE
    OBVIOUS
  <2>1. t \in Servers /\ place[m] = t /\ d.n = count[m]
    BY DEF OwnInv, PlacedOK, TypeInv, TypeOK
  <2> QED
    BY <1>1, <1>2, <1>7, <1>8, <2>1
<1>10. \A v \in Workers \ {w} : Holding(v) /\ Home(v) \in open => held[v].msg # m
  <2> SUFFICES ASSUME NEW v \in Workers \ {w}, Holding(v), Home(v) \in open,
                      held[v].msg = m
               PROVE  FALSE
    OBVIOUS
  <2>1. held[v] \in Deliveries /\ held[v].srv = Home(v)
    BY DEF TypeInv, KnownOK
  <2>2. place[m] # "acked"
    BY <1>1, PlaceAssumption
  <2>3. place[m] = Home(v) /\ held[v].n = count[m]
    BY <2>2 DEF OwnInv, HolderOwns
  <2> QED
    BY <1>1, <1>2, <1>8, <2>1, <2>3
<1>11. PlacedOK'
  <2>1. \A x \in Messages : place'[x] \in Servers => place'[x] \in open'
    BY <1>3, <1>4 DEF OwnInv, PlacedOK
  <2>2. \A t \in open' : \A d \in buffer'[t] :
          place'[d.msg] = t /\ d.n = count'[d.msg]
    <3>1. open \subseteq Servers
      BY DEF TypeInv, TypeOK
    <3> QED
      BY <1>3, <1>7, <1>9, <3>1 DEF OwnInv, PlacedOK
  <2> QED
    BY <2>1, <2>2 DEF PlacedOK
<1>12. HolderOwns'
  <2> SUFFICES ASSUME NEW v \in Workers, Holding(v)', Home(v) \in open
               PROVE  \/ /\ place'[held[v].msg] = Home(v)
                         /\ held[v].n = count[held[v].msg]
                         /\ held[v] \notin buffer[Home(v)]
                         /\ \A u \in Workers \ {v} : Holding(u)' => held[u] # held[v]
                      \/ pc'[v] = "reject" /\ place'[held[v].msg] = "acked"
    BY DEF HolderOwns, Home
  <2>1. CASE v = w
    BY <1>3, <2>1 DEF Holding
  <2>2. CASE v # w
    <3>1. Holding(v) /\ pc'[v] = pc[v]
      BY <1>3, <1>5, <2>2
    <3>2. held[v].msg \in Messages \ {m}
      BY <1>10, <2>2, <3>1 DEF TypeInv, KnownOK, Deliveries
    <3>3. place'[held[v].msg] = place[held[v].msg]
      BY <1>3, <3>2
    <3>4. held[w] # held[v]
      BY <3>2
    <3>5. \A u \in Workers \ {v} : Holding(u)' => Holding(u) \/ u = w
      BY <1>5
    <3> QED
      BY <3>1, <3>3, <3>4, <3>5 DEF OwnInv, HolderOwns
  <2> QED
    BY <2>1, <2>2
<1>13. UnsettledIsHeld'
  <2> SUFFICES ASSUME NEW x \in Messages, NEW t \in Servers, place'[x] = t
               PROVE  LET d == [srv |-> t, msg |-> x, n |-> count[x]] IN
                      \/ d \in buffer[t]
                      \/ \E v \in Workers : Holding(v)' /\ held[v] = d
    BY DEF UnsettledIsHeld
  <2>1. x # m /\ place[x] = t
    BY <1>3, <1>4
  <2>2. [srv |-> t, msg |-> x, n |-> count[x]] # held[w]
    BY <2>1
  <2> QED
    BY <1>6, <2>1, <2>2 DEF OwnInv, UnsettledIsHeld
<1> QED
  BY <1>11, <1>12, <1>13 DEF OwnInv

\* Once its channel is closed, what a worker does with a delivery is its own
\* affair.
LEMMA OwnIgnored ==
  ASSUME TypeInv, OwnInv, NEW w \in Workers, Home(w) \notin open,
         NEW next, pc' = [pc EXCEPT ![w] = next], Holding(w)' => Holding(w),
         UNCHANGED <<world, place, count, open, buffer, held>>
  PROVE  OwnInv'
<1>1. \A v \in Workers \ {w} : pc'[v] = pc[v]
  BY DEF TypeInv, TypeOK
<1>2. \A v \in Workers \ {w} : Holding(v) => Holding(v)'
  BY <1>1 DEF Holding
<1>3. \A v \in Workers : Holding(v)' => Holding(v)
  <2>1. \A v \in Workers \ {w} : Holding(v)' => Holding(v)
    BY <1>1 DEF Holding
  <2> QED
    BY <2>1
<1>4. PlacedOK'
  BY DEF OwnInv, PlacedOK
<1>5. HolderOwns'
  <2> SUFFICES ASSUME NEW v \in Workers, Holding(v), Home(v) \in open
               PROVE  \/ /\ place[held[v].msg] = Home(v)
                         /\ held[v].n = count[held[v].msg]
                         /\ held[v] \notin buffer[Home(v)]
                         /\ \A u \in Workers \ {v} : Holding(u)' => held[u] # held[v]
                      \/ pc'[v] = "reject" /\ place[held[v].msg] = "acked"
    BY <1>3 DEF HolderOwns, Home
  <2> QED
    BY <1>1, <1>3 DEF OwnInv, HolderOwns
<1>6. UnsettledIsHeld'
  <2> SUFFICES ASSUME NEW m \in Messages, NEW t \in Servers, place[m] = t
               PROVE  LET d == [srv |-> t, msg |-> m, n |-> count[m]] IN
                      \/ d \in buffer[t]
                      \/ \E v \in Workers : Holding(v)' /\ held[v] = d
    BY DEF UnsettledIsHeld
  <2>1. t \in open
    BY DEF OwnInv, PlacedOK
  <2>2. Holding(w) => held[w].srv # t
    BY <2>1 DEF TypeInv, KnownOK
  <2> QED
    BY <1>2, <2>2 DEF OwnInv, UnsettledIsHeld
<1> QED
  BY <1>4, <1>5, <1>6 DEF OwnInv

\* Settling the delivery a worker holds keeps the owners of all others.
LEMMA OwnSettle ==
  ASSUME TypeInv, OwnInv, NEW w \in Workers, Holding(w),
         NEW end \in {"acked", "dropped"}, Settle(w, end),
         NEW next \in {"idle", "reject"}, pc' = [pc EXCEPT ![w] = next],
         next = "reject" => end = "acked",
         UNCHANGED <<world, count, buffer, held>>
  PROVE  OwnInv'
<1> DEFINE s == Home(w)
<1>1. s \in Servers
  BY HomeType DEF TypeInv
<1>2. \A v \in Workers \ {w} : pc'[v] = pc[v]
  BY DEF TypeInv, TypeOK
<1>3. \A v \in Workers : Holding(v)' => Holding(v)
  <2>1. \A v \in Workers \ {w} : Holding(v)' => Holding(v)
    BY <1>2 DEF Holding
  <2> QED
    BY <2>1
<1>4. CASE s \in open /\ place[held[w].msg] = s
  <2>1. place' = [place EXCEPT ![held[w].msg] = end] /\ UNCHANGED open
    BY <1>4 DEF Settle
  <2> QED
    BY <1>4, <2>1, OwnSettled
<1>5. CASE s \in open /\ place[held[w].msg] # s
  <2>1. CloseChannel(s)
    BY <1>5 DEF Settle
  <2>2. \A v \in Workers : Home(v) # s => pc'[v] = pc[v]
    BY <1>2
  <2> QED
    BY <1>1, <1>3, <2>1, <2>2, OwnClose
<1>6. CASE s \notin open
  <2>1. UNCHANGED <<place, open>>
    BY <1>6 DEF Settle
  <2> QED
    BY <1>6, <2>1, OwnIgnored
<1> QED
  BY <1>4, <1>5, <1>6

\* A server whose channel is closed forgets deliveries the broker has already
\* requeued.
LEMMA OwnDiscardBuffer ==
  ASSUME TypeInv, OwnInv, NEW s \in Servers, DiscardBuffer(s), UNCHANGED world
  PROVE  OwnInv'
<1>1. /\ s \notin open
      /\ \A t \in Servers \ {s} : buffer'[t] = buffer[t]
      /\ UNCHANGED <<place, count, open, pc, held>>
  BY DEF DiscardBuffer, TypeInv, TypeOK, brokerVars, loopVars
<1>2. open \subseteq Servers \ {s}
  BY <1>1 DEF TypeInv, TypeOK
<1>3. PlacedOK'
  BY <1>1, <1>2 DEF OwnInv, PlacedOK
<1>4. HolderOwns'
  <2> SUFFICES ASSUME NEW w \in Workers, Holding(w), Home(w) \in open
               PROVE  \/ /\ place[held[w].msg] = Home(w)
                         /\ held[w].n = count[held[w].msg]
                         /\ held[w] \notin buffer'[Home(w)]
                         /\ \A v \in Workers \ {w} : Holding(v) => held[v] # held[w]
                      \/ pc[w] = "reject" /\ place[held[w].msg] = "acked"
    BY <1>1 DEF HolderOwns, Home, Holding
  <2> QED
    BY <1>1, <1>2 DEF OwnInv, HolderOwns
<1>5. UnsettledIsHeld'
  <2> SUFFICES ASSUME NEW m \in Messages, NEW t \in Servers, place[m] = t
               PROVE  LET d == [srv |-> t, msg |-> m, n |-> count[m]] IN
                      \/ d \in buffer'[t]
                      \/ \E w \in Workers : Holding(w) /\ held[w] = d
    BY <1>1 DEF UnsettledIsHeld, Holding
  <2>1. t \in open
    BY DEF OwnInv, PlacedOK
  <2> QED
    BY <1>1, <1>2, <2>1 DEF OwnInv, UnsettledIsHeld
<1> QED
  BY <1>3, <1>4, <1>5 DEF OwnInv

\* A server that starts again has nothing left from before.
LEMMA OwnRestart ==
  ASSUME TypeInv, OwnInv, NEW s \in Servers, Restart(s), UNCHANGED world
  PROVE  OwnInv'
<1>1. /\ s \notin up /\ open' = open \cup {s}
      /\ UNCHANGED <<place, count, buffer, held>>
  BY DEF Restart
<1>2. \A w \in Workers : pc'[w] = IF Home(w) = s THEN "idle" ELSE pc[w]
  BY DEF Restart
<1>3. s \notin open /\ buffer[s] = {}
  BY <1>1 DEF TypeInv, TypeOK, KnownOK
<1>4. \A w \in Workers : Holding(w)' => Holding(w) /\ Home(w) # s /\ pc'[w] = pc[w]
  BY <1>2 DEF Holding
<1>5. \A w \in Workers : Holding(w) /\ Home(w) # s => Holding(w)'
  BY <1>2 DEF Holding
<1>6. PlacedOK'
  BY <1>1, <1>3 DEF OwnInv, PlacedOK
<1>7. HolderOwns'
  <2> SUFFICES ASSUME NEW w \in Workers, Holding(w)', Home(w) \in open'
               PROVE  \/ /\ place[held[w].msg] = Home(w)
                         /\ held[w].n = count[held[w].msg]
                         /\ held[w] \notin buffer[Home(w)]
                         /\ \A v \in Workers \ {w} : Holding(v)' => held[v] # held[w]
                      \/ pc'[w] = "reject" /\ place[held[w].msg] = "acked"
    BY <1>1 DEF HolderOwns, Home
  <2>1. Holding(w) /\ Home(w) \in open /\ pc'[w] = pc[w]
    BY <1>1, <1>4
  <2> QED
    BY <1>4, <2>1 DEF OwnInv, HolderOwns
<1>8. UnsettledIsHeld'
  <2> SUFFICES ASSUME NEW m \in Messages, NEW t \in Servers, place[m] = t
               PROVE  LET d == [srv |-> t, msg |-> m, n |-> count[m]] IN
                      \/ d \in buffer[t]
                      \/ \E w \in Workers : Holding(w)' /\ held[w] = d
    BY <1>1 DEF UnsettledIsHeld
  <2>1. t # s
    BY <1>3 DEF OwnInv, PlacedOK
  <2>2. \A w \in Workers : Holding(w) /\ held[w].srv = t => Home(w) # s
    BY <2>1 DEF TypeInv, KnownOK
  <2> QED
    BY <1>5, <2>2 DEF OwnInv, UnsettledIsHeld
<1> QED
  BY <1>6, <1>7, <1>8 DEF OwnInv

\* What is buffered is in nobody's hands, so only the worker that takes it has it.
LEMMA OwnTake ==
  ASSUME TypeInv, OwnInv, NEW w \in Workers, NEW d \in buffer[Home(w)], Take(w, d),
         UNCHANGED world
  PROVE  OwnInv'
<1> DEFINE s == Home(w)
<1>1. /\ s \in Servers /\ d \in Deliveries /\ d.srv = s
      /\ UNCHANGED <<place, count, open>>
  BY HomeType DEF Take, TypeInv, TypeOK, KnownOK, brokerVars
<1>2. /\ pc[w] = "idle"
      /\ buffer'[s] = buffer[s] \ {d}
      /\ \A t \in Servers \ {s} : buffer'[t] = buffer[t]
      /\ pc'[w] = "call" /\ held'[w] = d
      /\ \A v \in Workers \ {w} : pc'[v] = pc[v] /\ held'[v] = held[v]
  BY <1>1 DEF Take, TypeInv, TypeOK
<1>3. \A v \in Workers \ {w} : Holding(v)' => Holding(v)
  BY <1>2 DEF Holding
<1>4. \A v \in Workers \ {w} : Holding(v) => Holding(v)'
  BY <1>2 DEF Holding
<1>5. ~Holding(w)
  BY <1>2 DEF Holding
<1>6. Holding(w)'
  BY <1>2 DEF Holding
<1>7. open \subseteq Servers
  BY DEF TypeInv, TypeOK
<1>8. s \in open => \A v \in Workers \ {w} : Holding(v) => held[v] # d
  <2> SUFFICES ASSUME s \in open, NEW v \in Workers \ {w}, Holding(v), held[v] = d
               PROVE  FALSE
    OBVIOUS
  <2>1. Home(v) = s
    BY <1>1 DEF TypeInv, KnownOK
  <2>2. place[d.msg] = s
    BY DEF OwnInv, PlacedOK
  <2>3. place[d.msg] # "acked"
    BY <1>1, <2>2, PlaceAssumption
  <2>4. held[v] \notin buffer[s]
    BY <2>1, <2>3 DEF OwnInv, HolderOwns
  <2> QED
    BY <2>4
<1>9. PlacedOK'
  BY <1>1, <1>2, <1>7 DEF OwnInv, PlacedOK
<1>10. HolderOwns'
  <2> SUFFICES ASSUME NEW v \in Workers, Holding(v)', Home(v) \in open
               PROVE  \/ /\ place[held'[v].msg] = Home(v)
                         /\ held'[v].n = count[held'[v].msg]
                         /\ held'[v] \notin buffer'[Home(v)]
                         /\ \A u \in Workers \ {v} : Holding(u)' => held'[u] # held'[v]
                      \/ pc'[v] = "reject" /\ place[held'[v].msg] = "acked"
    BY <1>1 DEF HolderOwns, Home
  <2>1. CASE v = w
    BY <1>2, <1>3, <1>8, <2>1 DEF OwnInv, PlacedOK
  <2>2. CASE v # w
    <3>1. Holding(v) /\ held'[v] = held[v] /\ pc'[v] = pc[v]
      BY <1>2, <1>3, <2>2
    <3>2. held[v] # d \/ s \notin open
      BY <1>8, <2>2, <3>1
    <3>3. Home(v) = s \/ held[v].srv # s
      BY <3>1 DEF TypeInv, KnownOK
    <3>4. held[v] # d
      BY <1>1, <3>2, <3>3
    <3>5. held[v] \notin buffer[Home(v)] => held[v] \notin buffer'[Home(v)]
      BY <1>2, <1>7
    <3>6. (\A u \in Workers \ {v} : Holding(u) => held[u] # held[v])
            => \A u \in Workers \ {v} : Holding(u)' => held'[u] # held[v]
      BY <1>2, <1>3, <3>4
    <3> QED
      BY <3>1, <3>5, <3>6 DEF OwnInv, HolderOwns
  <2> QED
    BY <2>1, <2>2
<1>11. UnsettledIsHeld'
  <2> SUFFICES ASSUME NEW m \in Messages, NEW t \in Servers, place[m] = t
               PROVE  LET e == [srv |-> t, msg |-> m, n |-> count[m]] IN
                      \/ e \in buffer'[t]
                      \/ \E v \in Workers : Holding(v)' /\ held'[v] = e
    BY <1>1 DEF UnsettledIsHeld
  <2> DEFINE e == [srv |-> t, msg |-> m, n |-> count[m]]
  <2>1. CASE e = d
    BY <1>2, <1>6, <2>1
  <2>2. CASE e \in buffer[t] /\ e # d
    BY <1>2, <2>2
  <2>3. CASE \E v \in Workers : Holding(v) /\ held[v] = e
    BY <1>2, <1>4, <1>5, <2>3
  <2> QED
    BY <2>1, <2>2, <2>3 DEF OwnInv, UnsettledIsHeld
<1> QED
  BY <1>9, <1>10, <1>11 DEF OwnInv

\* Every step keeps who owns which delivery.
LEMMA OwnNext == TypeInv /\ OwnInv /\ [Next]_vars => OwnInv'
<1> SUFFICES ASSUME TypeInv, OwnInv, [Next]_vars
             PROVE  OwnInv'
  OBVIOUS
<1>1. ASSUME NEW s \in Servers, NEW m \in Messages, Deliver(s, m), UNCHANGED world
      PROVE  OwnInv'
  BY <1>1, OwnDeliver
<1>2. ASSUME NEW s \in Servers, LoseChannel(s), UNCHANGED world
      PROVE  OwnInv'
  <2>1. CloseChannel(s) /\ UNCHANGED <<count, held, buffer, pc>>
    BY <1>2 DEF LoseChannel, loopVars
  <2>2. \A v \in Workers : Holding(v)' => Holding(v)
    BY <2>1 DEF Holding
  <2> QED
    BY <1>2, <2>1, <2>2, OwnClose
<1>3. ASSUME NEW s \in Servers, DiscardBuffer(s), UNCHANGED world
      PROVE  OwnInv'
  BY <1>3, OwnDiscardBuffer
<1>4. ASSUME NEW s \in Servers, Crash(s), UNCHANGED world
      PROVE  OwnInv'
  <2>1. /\ CloseChannel(s) /\ UNCHANGED <<count, held>>
        /\ \A t \in Servers \ {s} : buffer'[t] = buffer[t]
        /\ \A v \in Workers : pc'[v] = IF Home(v) = s THEN "stopped" ELSE pc[v]
    BY <1>4 DEF Crash, TypeInv, TypeOK
  <2>2. \A v \in Workers : Holding(v)' => Holding(v)
    BY <2>1 DEF Holding
  <2>3. \A v \in Workers : Home(v) # s => pc'[v] = pc[v]
    BY <2>1
  <2> QED
    BY <1>4, <2>1, <2>2, <2>3, OwnClose
<1>5. ASSUME NEW s \in Servers, Restart(s), UNCHANGED world
      PROVE  OwnInv'
  BY <1>5, OwnRestart
<1>6. ASSUME NEW c \in running, NEW o \in Outcomes, HandlerReturns(c, o),
             UNCHANGED world
      PROVE  OwnInv'
  <2>1. UNCHANGED <<place, count, open, buffer, held, pc>>
    BY <1>6 DEF HandlerReturns, brokerVars, loopVars
  <2>2. \A v \in Workers : Holding(v)' = Holding(v)
    BY <2>1 DEF Holding
  <2> QED
    BY <1>6, <2>1, <2>2, OwnQuiet
<1>7. ASSUME NEW w \in Workers, NEW d \in buffer[Home(w)], Take(w, d), UNCHANGED world
      PROVE  OwnInv'
  BY <1>7, OwnTake
<1>8. ASSUME NEW w \in Workers, Stop(w), UNCHANGED world
      PROVE  OwnInv'
  <2>1. /\ Home(w) \notin open /\ pc' = [pc EXCEPT ![w] = "stopped"]
        /\ UNCHANGED <<place, count, open, buffer, held>>
    BY <1>8 DEF Stop, brokerVars
  <2>2. ~Holding(w)'
    BY <2>1 DEF Holding, TypeInv, TypeOK
  <2> QED
    BY <1>8, <2>1, <2>2, OwnIgnored
<1>9. ASSUME NEW w \in Workers, StartCall(w), UNCHANGED world
      PROVE  OwnInv'
  <2>1. /\ UNCHANGED <<place, count, open, buffer, held>>
        /\ pc[w] = "call" /\ pc'[w] = "wait"
        /\ \A v \in Workers \ {w} : pc'[v] = pc[v]
    BY <1>9 DEF StartCall, brokerVars, TypeInv, TypeOK
  <2>2. \A v \in Workers : Holding(v)' => Holding(v)
    BY <2>1 DEF Holding
  <2>3. \A v \in Workers : Holding(v) => Holding(v)'
    BY <2>1 DEF Holding
  <2>4. \A v \in Workers : pc'[v] = pc[v] \/ pc[v] # "reject"
    BY <2>1
  <2> QED
    BY <1>9, <2>1, <2>2, <2>3, <2>4, OwnQuiet
<1>10. ASSUME NEW w \in Workers, NEW o \in Outcomes, pc[w] \in {"call", "wait"},
              Returned(w, o), UNCHANGED <<world, brokerVars, buffer, held>>
       PROVE  OwnInv'
  <2>1. /\ pc'[w] \in {"ack", "reject", "call"}
        /\ \A v \in Workers \ {w} : pc'[v] = pc[v]
    BY <1>10, ReturnedStep DEF TypeInv
  <2>2. \A v \in Workers : Holding(v)' => Holding(v)
    BY <1>10, <2>1 DEF Holding
  <2>3. \A v \in Workers : Holding(v) => Holding(v)'
    BY <2>1 DEF Holding
  <2>4. \A v \in Workers : pc'[v] = pc[v] \/ pc[v] # "reject"
    BY <1>10, <2>1
  <2> QED
    BY <1>10, <2>2, <2>3, <2>4, OwnQuiet DEF brokerVars
<1>11. ASSUME NEW w \in Workers, DecodeFails(w) \/ TimeoutFires(w), UNCHANGED world
       PROVE  OwnInv'
  BY <1>10, <1>11, FailureType DEF DecodeFails, TimeoutFires
<1>12. ASSUME NEW w \in Workers, NEW x \in results, ReceiveResult(w, x),
              UNCHANGED world
       PROVE  OwnInv'
  <2>1. x.outcome \in Outcomes
    BY DEF TypeInv, TypeOK
  <2> QED
    BY <1>10, <1>12, <2>1 DEF ReceiveResult
<1>13. ASSUME NEW w \in Workers, Ack(w), UNCHANGED world
       PROVE  OwnInv'
  BY <1>13, OwnSettle DEF Ack, Holding
<1>14. ASSUME NEW w \in Workers, Reject(w), UNCHANGED world
       PROVE  OwnInv'
  BY <1>14, OwnSettle DEF Reject, Holding
<1>15. CASE UNCHANGED vars
  BY <1>15 DEF vars, stepVars, brokerVars, loopVars, OwnInv, PlacedOK, HolderOwns,
               UnsettledIsHeld, Holding, Home
<1> QED
  BY <1>1, <1>2, <1>3, <1>4, <1>5, <1>6, <1>7, <1>8, <1>9, <1>11, <1>12, <1>13,
     <1>14, <1>15
  DEF Next, Broker, Handlers, Loop

\* No delivery the broker waits for is forgotten, whatever channels are lost and
\* whatever a server still does with deliveries of a channel it has lost.
THEOREM SpecUnsettledIsHeld == Spec => []UnsettledIsHeld
<1>1. OwnInv => UnsettledIsHeld
  BY DEF OwnInv
<1> QED
  BY TypeInit, TypeNext, OwnInit, OwnNext, <1>1, PTL DEF Spec

\* While its channel is open a worker has its message for itself, until it has
\* acked it.
THEOREM SpecHolderOwns == Spec => []HolderOwns
<1>1. OwnInv => HolderOwns
  BY DEF OwnInv
<1> QED
  BY TypeInit, TypeNext, OwnInit, OwnNext, <1>1, PTL DEF Spec

-----------------------------------------------------------------------------
(* Verdicts *)

\* The first call and every retry it asked for failed.
Exhausted(outcomes) ==
  /\ \A i \in 1 .. Len(outcomes) : ~outcomes[i].ok
  /\ Len(outcomes) = 1 + outcomes[1].ask

\* A worker acks after the call it waited for has succeeded, and rejects once
\* all have failed, or after its own ack, or with its channel closed.
ResultOK ==
  /\ \A x \in results : x.outcome.ok => x.call \in succeeded
  /\ \A w \in Workers : pc[w] = "ack" =>
       Len(seen[w]) = attempt[w] + 1 /\ CallOf(w) \in succeeded
  /\ \A w \in Workers : pc[w] = "reject" =>
       \/ Exhausted(seen[w])
       \/ Home(w) \notin open
       \/ place[held[w].msg] = "acked"

VerdictInv == ResultOK /\ AckedMeansProcessed /\ DroppedMeansExhausted

\* At the start nothing is settled and no result waits.
LEMMA VerdictInit == Init => VerdictInv
BY DEF Init, VerdictInv, ResultOK, AckedMeansProcessed, DroppedMeansExhausted

\* Steps that settle nothing and end no pass of the loop.
LEMMA VerdictFrame ==
  ASSUME TypeInv, VerdictInv, UNCHANGED <<world, verdict>>,
         \A m \in Messages : place'[m] = "acked" <=> place[m] = "acked",
         \A m \in Messages : place'[m] = "dropped" => place[m] = "dropped",
         succeeded \subseteq succeeded',
         \A x \in results' : x.outcome.ok => x.call \in succeeded',
         \A w \in Workers : pc'[w] \in {"ack", "reject"} =>
           /\ pc'[w] = pc[w] /\ seen'[w] = seen[w]
           /\ attempt'[w] = attempt[w] /\ held'[w] = held[w]
           /\ Home(w) \in open' => Home(w) \in open
  PROVE  VerdictInv'
<1>1. ResultOK'
  <2>1. \A w \in Workers : pc'[w] = "ack" =>
          Len(seen'[w]) = attempt'[w] + 1 /\ CallOf(w)' \in succeeded'
    BY DEF VerdictInv, ResultOK, CallOf
  <2>2. ASSUME NEW w \in Workers, pc'[w] = "reject"
        PROVE  \/ Exhausted(seen'[w])
               \/ Home(w) \notin open'
               \/ place'[held'[w].msg] = "acked"
    <3>1. /\ pc[w] = "reject" /\ seen'[w] = seen[w] /\ held'[w] = held[w]
          /\ Home(w) \in open' => Home(w) \in open
      BY <2>2
    <3>2. held[w].msg \in Messages
      BY <3>1 DEF TypeInv, KnownOK, Holding, Deliveries
    <3> QED
      BY <3>1, <3>2 DEF VerdictInv, ResultOK
  <2>3. \A w \in Workers : pc'[w] = "reject" =>
          (Exhausted(seen[w]) \/ Home(w) \notin open \/ place[held[w].msg] = "acked")'
    BY <2>2 DEF Exhausted, Home
  <2> QED
    BY <2>1, <2>3 DEF ResultOK
<1>2. AckedMeansProcessed'
  BY DEF VerdictInv, AckedMeansProcessed
<1>3. DroppedMeansExhausted'
  BY DEF VerdictInv, DroppedMeansExhausted
<1> QED
  BY <1>1, <1>2, <1>3 DEF VerdictInv

\* A pass of the loop that failed for good has used up its retries.
LEMMA VerdictReturned ==
  ASSUME TypeInv, VerdictInv, NEW w \in Workers, NEW o \in Outcomes,
         pc[w] \in {"call", "wait"}, Returned(w, o), results' \subseteq results,
         o.ok => CallOf(w) \in succeeded,
         UNCHANGED <<world, place, open, held, succeeded, verdict>>
  PROVE  VerdictInv'
<1>1. ASSUME NEW v \in Workers \ {w}
      PROVE  /\ pc'[v] = pc[v] /\ seen'[v] = seen[v]
             /\ attempt'[v] = attempt[v]
  BY ReturnedStep DEF TypeInv
<1>2. attempt[w] \in Nat
  BY AskAssumption DEF TypeInv, TypeOK
<1>3. /\ Len(seen'[w]) = attempt[w] + 1
      /\ \A i \in 1 .. attempt[w] : ~seen'[w][i].ok
      /\ seen'[w][attempt[w] + 1] = o
      /\ pc'[w] = "ack" => o.ok /\ attempt'[w] = attempt[w]
      /\ pc'[w] = "reject" => ~o.ok /\ attempt[w] = seen'[w][1].ask
  BY ReturnedStep DEF TypeInv
<1>4. ResultOK'
  <2>1. \A x \in results' : x.outcome.ok => x.call \in succeeded'
    BY DEF VerdictInv, ResultOK
  <2>2. ASSUME NEW v \in Workers, pc'[v] = "ack"
        PROVE  Len(seen'[v]) = attempt'[v] + 1 /\ CallOf(v)' \in succeeded'
    <3>1. CASE v = w
      BY <1>3, <2>2, <3>1 DEF CallOf
    <3>2. CASE v # w
      BY <1>1, <2>2, <3>2 DEF VerdictInv, ResultOK, CallOf
    <3> QED
      BY <3>1, <3>2
  <2>3. ASSUME NEW v \in Workers, pc'[v] = "reject"
        PROVE  (\/ Exhausted(seen[v])
                \/ Home(v) \notin open
                \/ place[held[v].msg] = "acked")'
    <3>1. CASE v = w
      <4>1. \A i \in 1 .. Len(seen'[w]) : ~seen'[w][i].ok
        BY <1>2, <1>3, <2>3, <3>1
      <4>2. Len(seen'[w]) = 1 + seen'[w][1].ask
        BY <1>2, <1>3, <2>3, <3>1
      <4> QED
        BY <3>1, <4>1, <4>2 DEF Exhausted
    <3>2. CASE v # w
      BY <1>1, <2>3, <3>2 DEF VerdictInv, ResultOK, Exhausted, Home
    <3> QED
      BY <3>1, <3>2
  <2> QED
    BY <2>1, <2>2, <2>3 DEF ResultOK
<1>5. AckedMeansProcessed' /\ DroppedMeansExhausted'
  BY DEF VerdictInv, AckedMeansProcessed, DroppedMeansExhausted
<1> QED
  BY <1>4, <1>5 DEF VerdictInv

\* A frame that settles a delivery, is refused, or is lost with the channel.
LEMMA VerdictSettle ==
  ASSUME TypeInv, VerdictInv, NEW w \in Workers, NEW end \in {"acked", "dropped"},
         Holding(w), Settle(w, end),
         NEW next \in {"idle", "reject"}, pc' = [pc EXCEPT ![w] = next],
         Home(w) \in open /\ place[held[w].msg] = Home(w) =>
           /\ end = "acked" =>
                [of |-> held[w], attempt |-> Len(seen[w]) - 1] \in succeeded
           /\ end = "dropped" => Exhausted(seen[w])
           /\ next = "reject" => end = "acked",
         next = "reject" => Home(w) \notin open \/ place[held[w].msg] = Home(w),
         UNCHANGED <<world, held, attempt, seen, callVars>>
  PROVE  VerdictInv'
<1> DEFINE m == held[w].msg
           s == Home(w)
<1>1. m \in Messages /\ s \in Servers
  BY HomeType DEF TypeInv, KnownOK, Deliveries
<1>2. pc'[w] = next /\ \A v \in Workers \ {w} : pc'[v] = pc[v]
  BY DEF TypeInv, TypeOK
<1>3. "ready" \notin Servers /\ "acked" \notin Servers /\ "dropped" \notin Servers
  BY PlaceAssumption
<1>4. CASE s \in open /\ place[m] = s
  <2>1. /\ place' = [place EXCEPT ![m] = end]
        /\ verdict' = [verdict EXCEPT ![m] = <<held[w], seen[w]>>]
        /\ UNCHANGED open
    BY <1>4 DEF Settle
  <2>2. /\ place'[m] = end /\ verdict'[m] = <<held[w], seen[w]>>
        /\ \A x \in Messages \ {m} : place'[x] = place[x] /\ verdict'[x] = verdict[x]
    BY <1>1, <2>1 DEF TypeInv, TypeOK
  <2>3. ASSUME NEW v \in Workers, pc'[v] = "reject"
        PROVE  (\/ Exhausted(seen[v])
                \/ Home(v) \notin open
                \/ place[held[v].msg] = "acked")'
    <3>1. CASE v = w
      BY <1>2, <1>4, <2>2, <2>3, <3>1
    <3>2. CASE v # w
      <4>1. pc[v] = "reject"
        BY <1>2, <2>3, <3>2
      <4>2. held[v].msg \in Messages
        BY <4>1 DEF TypeInv, KnownOK, Holding, Deliveries
      <4>3. place[held[v].msg] = "acked" => place'[held[v].msg] = "acked"
        BY <1>1, <1>3, <1>4, <2>2, <4>2
      <4> QED
        BY <2>1, <4>1, <4>3 DEF VerdictInv, ResultOK, Exhausted, Home
    <3> QED
      BY <3>1, <3>2
  <2>4. \A v \in Workers : pc'[v] = "ack" => pc[v] = "ack"
    BY <1>2
  <2>5. ResultOK'
    BY <2>3, <2>4 DEF VerdictInv, ResultOK, CallOf, callVars
  <2>6. AckedMeansProcessed'
    BY <1>4, <2>2 DEF VerdictInv, AckedMeansProcessed, callVars
  <2>7. DroppedMeansExhausted'
    BY <1>4, <2>2 DEF VerdictInv, DroppedMeansExhausted, Exhausted
  <2> QED
    BY <2>5, <2>6, <2>7 DEF VerdictInv
<1>5. CASE ~(s \in open /\ place[m] = s)
  <2>1. next = "reject" => s \notin open
    BY <1>5
  <2>2. /\ UNCHANGED verdict /\ open' \subseteq open
        /\ \A x \in Messages :
             place'[x] = place[x] \/ (place[x] = s /\ place'[x] = "ready")
    BY <1>5 DEF Settle, CloseChannel, Requeued, TypeInv, TypeOK
  <2>3. \A x \in Messages : place'[x] = "acked" <=> place[x] = "acked"
    BY <1>1, <1>3, <2>2
  <2>4. \A x \in Messages : place'[x] = "dropped" => place[x] = "dropped"
    BY <2>2
  <2>5. ASSUME NEW v \in Workers, pc'[v] = "reject"
        PROVE  (\/ Exhausted(seen[v])
                \/ Home(v) \notin open
                \/ place[held[v].msg] = "acked")'
    <3>1. CASE v = w
      BY <1>2, <2>1, <2>2, <2>5, <3>1 DEF Home
    <3>2. CASE v # w
      <4>1. pc[v] = "reject"
        BY <1>2, <2>5, <3>2
      <4>2. held[v].msg \in Messages
        BY <4>1 DEF TypeInv, KnownOK, Holding, Deliveries
      <4> QED
        BY <2>2, <2>3, <4>1, <4>2 DEF VerdictInv, ResultOK, Exhausted, Home
    <3> QED
      BY <3>1, <3>2
  <2>6. \A v \in Workers : pc'[v] = "ack" => pc[v] = "ack"
    BY <1>2
  <2>7. ResultOK'
    BY <2>5, <2>6 DEF VerdictInv, ResultOK, CallOf, callVars
  <2>8. AckedMeansProcessed' /\ DroppedMeansExhausted'
    BY <2>2, <2>3, <2>4
    DEF VerdictInv, AckedMeansProcessed, DroppedMeansExhausted, callVars
  <2> QED
    BY <2>7, <2>8 DEF VerdictInv
<1> QED
  BY <1>4, <1>5

\* Every step keeps what an ack and a drop say of the handlers.
LEMMA VerdictNext == TypeInv /\ OwnInv /\ VerdictInv /\ [Next]_vars => VerdictInv'
<1> SUFFICES ASSUME TypeInv, OwnInv, VerdictInv, [Next]_vars
             PROVE  VerdictInv'
  OBVIOUS
<1> USE DEF brokerVars, loopVars, callVars
<1>1. ASSUME NEW s \in Servers, NEW m \in Messages, Deliver(s, m), UNCHANGED world
      PROVE  VerdictInv'
  <2>1. /\ place[m] = "ready" /\ place'[m] = s
        /\ \A x \in Messages \ {m} : place'[x] = place[x]
        /\ UNCHANGED <<open, loopVars, callVars, verdict>>
    BY <1>1 DEF Deliver, TypeInv, TypeOK
  <2>2. s \notin {"acked", "dropped"}
    BY PlaceAssumption
  <2>3. \A x \in Messages : place'[x] = "acked" <=> place[x] = "acked"
    BY <2>1, <2>2
  <2>4. \A x \in Messages : place'[x] = "dropped" => place[x] = "dropped"
    BY <2>1, <2>2
  <2> QED
    BY <1>1, <2>1, <2>3, <2>4, VerdictFrame DEF VerdictInv, ResultOK
<1>2. ASSUME NEW s \in Servers, CloseChannel(s)
      PROVE  /\ open' \subseteq open
             /\ \A x \in Messages : place'[x] = "acked" <=> place[x] = "acked"
             /\ \A x \in Messages : place'[x] = "dropped" => place[x] = "dropped"
  BY <1>2, PlaceAssumption DEF CloseChannel, Requeued
<1>3. ASSUME NEW s \in Servers, LoseChannel(s), UNCHANGED world
      PROVE  VerdictInv'
  <2>1. CloseChannel(s) /\ UNCHANGED <<loopVars, callVars, verdict>>
    BY <1>3 DEF LoseChannel
  <2> QED
    BY <1>2, <1>3, <2>1, VerdictFrame DEF VerdictInv, ResultOK
<1>4. ASSUME NEW s \in Servers, DiscardBuffer(s), UNCHANGED world
      PROVE  VerdictInv'
  BY <1>4, VerdictFrame DEF DiscardBuffer, VerdictInv, ResultOK
<1>5. ASSUME NEW s \in Servers, Crash(s), UNCHANGED world
      PROVE  VerdictInv'
  <2>1. /\ CloseChannel(s) /\ results' \subseteq results
        /\ UNCHANGED <<held, attempt, seen, succeeded, verdict>>
        /\ \A w \in Workers : pc'[w] # "stopped" => pc'[w] = pc[w]
    BY <1>5 DEF Crash
  <2>2. \A w \in Workers : pc'[w] \in {"ack", "reject"} => pc'[w] = pc[w]
    BY <2>1
  <2> QED
    BY <1>2, <1>5, <2>1, <2>2, VerdictFrame DEF VerdictInv, ResultOK
<1>6. ASSUME NEW s \in Servers, Restart(s), UNCHANGED world
      PROVE  VerdictInv'
  <2>1. /\ open' = open \cup {s}
        /\ UNCHANGED <<place, held, attempt, seen, callVars, verdict>>
        /\ \A w \in Workers : pc'[w] = IF Home(w) = s THEN "idle" ELSE pc[w]
    BY <1>6 DEF Restart
  <2>2. \A w \in Workers : pc'[w] \in {"ack", "reject"} =>
          pc'[w] = pc[w] /\ (Home(w) \in open' => Home(w) \in open)
    BY <2>1
  <2> QED
    BY <1>6, <2>1, <2>2, VerdictFrame DEF VerdictInv, ResultOK
<1>7. ASSUME NEW c \in running, NEW o \in Outcomes, HandlerReturns(c, o),
             UNCHANGED world
      PROVE  VerdictInv'
  <2>1. /\ UNCHANGED <<place, open, loopVars, verdict>>
        /\ succeeded \subseteq succeeded'
        /\ o.ok => c \in succeeded'
        /\ results' = results \cup {[call |-> c, outcome |-> o]}
    BY <1>7 DEF HandlerReturns
  <2>2. \A x \in results' : x.outcome.ok => x.call \in succeeded'
    BY <2>1 DEF VerdictInv, ResultOK
  <2> QED
    BY <1>7, <2>1, <2>2, VerdictFrame
<1>8. ASSUME NEW w \in Workers, NEW d \in buffer[Home(w)], Take(w, d), UNCHANGED world
      PROVE  VerdictInv'
  <2>1. /\ UNCHANGED <<place, open, callVars, verdict>>
        /\ pc'[w] = "call"
        /\ \A v \in Workers \ {w} : /\ pc'[v] = pc[v] /\ seen'[v] = seen[v]
                                    /\ attempt'[v] = attempt[v] /\ held'[v] = held[v]
    BY <1>8 DEF Take, TypeInv, TypeOK
  <2>2. \A v \in Workers : pc'[v] \in {"ack", "reject"} => v # w
    BY <2>1
  <2> QED
    BY <1>8, <2>1, <2>2, VerdictFrame DEF VerdictInv, ResultOK
<1>9. ASSUME NEW w \in Workers, Stop(w) \/ StartCall(w), UNCHANGED world
      PROVE  VerdictInv'
  <2>1. /\ UNCHANGED <<place, open, held, attempt, seen, results, succeeded, verdict>>
        /\ pc'[w] \in {"stopped", "wait"}
        /\ \A v \in Workers \ {w} : pc'[v] = pc[v]
    BY <1>9 DEF Stop, StartCall, TypeInv, TypeOK
  <2>2. \A v \in Workers : pc'[v] \in {"ack", "reject"} => pc'[v] = pc[v]
    BY <2>1
  <2> QED
    BY <1>9, <2>1, <2>2, VerdictFrame DEF VerdictInv, ResultOK
<1>10. ASSUME NEW w \in Workers, DecodeFails(w) \/ TimeoutFires(w), UNCHANGED world
       PROVE  VerdictInv'
  <2>1. ~Failure.ok
    BY DEF Failure
  <2> QED
    BY <1>10, <2>1, FailureType, VerdictReturned DEF DecodeFails, TimeoutFires
<1>11. ASSUME NEW w \in Workers, NEW x \in results, ReceiveResult(w, x),
              UNCHANGED world
       PROVE  VerdictInv'
  <2>1. x.outcome \in Outcomes
    BY DEF TypeInv, TypeOK
  <2>2. x.outcome.ok => CallOf(w) \in succeeded
    BY <1>11 DEF ReceiveResult, VerdictInv, ResultOK
  <2> QED
    BY <1>11, <2>1, <2>2, VerdictReturned DEF ReceiveResult
<1>12. ASSUME NEW w \in Workers, Ack(w), UNCHANGED world
       PROVE  VerdictInv'
  <2>1. pc[w] = "ack" /\ Holding(w)
    BY <1>12 DEF Ack, Holding
  <2>2. [of |-> held[w], attempt |-> Len(seen[w]) - 1] \in succeeded
    <3>1. attempt[w] \in Nat
      BY AskAssumption DEF TypeInv, TypeOK
    <3>2. Len(seen[w]) - 1 = attempt[w]
      BY <2>1, <3>1 DEF VerdictInv, ResultOK
    <3> QED
      BY <2>1, <3>2 DEF VerdictInv, ResultOK, CallOf
  <2>3. Home(w) \in open => place[held[w].msg] = Home(w)
    BY <2>1 DEF OwnInv, HolderOwns
  <2>4. \E next \in {"idle", "reject"} : pc' = [pc EXCEPT ![w] = next]
    BY <1>12 DEF Ack
  <2>5. Settle(w, "acked") /\ UNCHANGED <<held, attempt, seen, callVars>>
    BY <1>12 DEF Ack
  <2> QED
    BY <1>12, <2>1, <2>2, <2>3, <2>4, <2>5, VerdictSettle
<1>13. ASSUME NEW w \in Workers, Reject(w), UNCHANGED world
       PROVE  VerdictInv'
  <2>1. pc[w] = "reject" /\ Holding(w)
    BY <1>13 DEF Reject, Holding
  <2>2. Home(w) \in Servers
    BY HomeType DEF TypeInv
  <2>3. Home(w) \in open /\ place[held[w].msg] = Home(w) => Exhausted(seen[w])
    BY <2>1, <2>2, PlaceAssumption DEF VerdictInv, ResultOK
  <2>4. /\ Settle(w, "dropped") /\ pc' = [pc EXCEPT ![w] = "idle"]
        /\ UNCHANGED <<held, attempt, seen, callVars>>
    BY <1>13 DEF Reject
  <2> QED
    BY <1>13, <2>1, <2>3, <2>4, VerdictSettle
<1>14. CASE UNCHANGED vars
  BY <1>14 DEF vars, stepVars, VerdictInv, ResultOK, AckedMeansProcessed,
               DroppedMeansExhausted, Exhausted, CallOf, Home
<1> QED
  BY <1>1, <1>3, <1>4, <1>5, <1>6, <1>7, <1>8, <1>9, <1>10, <1>11, <1>12, <1>13,
     <1>14
  DEF Next, Broker, Handlers, Loop

\* A message leaves the queue as processed only after a success of that very
\* delivery, however late calls of abandoned ones return.
THEOREM SpecAckedMeansProcessed == Spec => []AckedMeansProcessed
<1>1. VerdictInv => AckedMeansProcessed
  BY DEF VerdictInv
<1> QED
  BY TypeInit, TypeNext, OwnInit, OwnNext, VerdictInit, VerdictNext, <1>1, PTL
  DEF Spec

\* A message is dropped only after the first call and each retry it asked for.
THEOREM SpecDroppedMeansExhausted == Spec => []DroppedMeansExhausted
<1>1. VerdictInv => DroppedMeansExhausted
  BY DEF VerdictInv
<1> QED
  BY TypeInit, TypeNext, OwnInit, OwnNext, VerdictInit, VerdictNext, <1>1, PTL
  DEF Spec

-----------------------------------------------------------------------------
(* The work queue *)

\* Where the work queue has a message, by where the broker has it.
LEMMA AtFacts ==
  ASSUME TypeOK, NEW m \in Messages
  PROVE  /\ queueAt[m] = "waiting" <=> place[m] = "ready"
         /\ queueAt[m] = "processed" <=> place[m] = "acked"
         /\ queueAt[m] = "dropped" <=> place[m] = "dropped"
         /\ \A s \in Servers : queueAt[m] = s <=> place[m] = s
         /\ queueAt[m] \in Servers <=> place[m] \in Servers
<1>1. place[m] \in {"ready", "acked", "dropped"} \cup Servers
  BY DEF TypeOK, Places
<1>2. queueAt[m] = CASE place[m] = "ready" -> "waiting"
                     [] place[m] = "acked" -> "processed"
                     [] OTHER              -> place[m]
  BY DEF queueAt
<1>3. \A x \in {"ready", "acked", "dropped", "waiting", "processed"} : x \notin Servers
  BY PlaceAssumption
<1> QED
  BY <1>1, <1>2, <1>3

\* The prefetch of a server is a number that never changes.
LEMMA CapacityFacts ==
  ASSUME TypeOK
  PROVE  /\ queueCapacity \in [Servers -> Nat]
         /\ UNCHANGED world => UNCHANGED queueCapacity
<1>1. ASSUME NEW s \in Servers
      PROVE  Size(s) \in Nat
  <2>1. IsFiniteSet({w \in Workers : Home(w) = s})
    BY WorkersAssumption, FS_Subset
  <2> QED
    BY <2>1, FS_CardinalityType DEF Size
<1> QED
  BY <1>1 DEF queueCapacity, Size, Home

\* The initial states are initial states of the work queue.
LEMMA RefineInit == Init => Queue!QInit
<1> SUFFICES ASSUME Init
             PROVE  Queue!QInit
  OBVIOUS
<1>1. TypeOK
  BY TypeInit DEF TypeInv
<1>2. queueAt = [m \in Messages |-> "waiting"]
  BY DEF Init, queueAt
<1>3. queueGood = {}
  BY DEF Init, queueGood
<1> QED
  BY <1>1, <1>2, <1>3, CapacityFacts DEF Queue!QInit

\* Steps that move no message and add no success of a current delivery.
LEMMA RefineStutter ==
  ASSUME TypeInv, UNCHANGED <<world, place, count>>,
         \A c \in succeeded : c \in succeeded',
         \A c \in succeeded' : \A m \in Messages :
           place[m] \in Servers /\ c.of = [srv |-> place[m], msg |-> m, n |-> count[m]]
             => m \in queueGood
  PROVE  UNCHANGED Queue!queueVars
<1>1. UNCHANGED queueCapacity
  BY CapacityFacts DEF TypeInv
<1>2. UNCHANGED queueAt
  BY DEF queueAt
<1>3. UNCHANGED queueGood
  <2>1. \A m \in queueGood' : m \in queueGood
    BY DEF queueGood
  <2>2. \A m \in queueGood : m \in queueGood'
    BY DEF queueGood
  <2> QED
    BY <2>1, <2>2
<1> QED
  BY <1>1, <1>2, <1>3 DEF Queue!queueVars

\* A current delivery that has succeeded is good already.
LEMMA GoodFacts ==
  ASSUME NEW c \in succeeded, NEW m \in Messages, place[m] \in Servers,
         c.of = [srv |-> place[m], msg |-> m, n |-> count[m]]
  PROVE  m \in queueGood
BY DEF queueGood

\* A delivery is a delivery of the work queue to a consumer with room.
LEMMA RefineDeliver ==
  ASSUME TypeInv, NEW s \in Servers, NEW m \in Messages, Deliver(s, m), UNCHANGED world
  PROVE  Queue!QNext
<1>1. /\ place[m] = "ready" /\ Cardinality(Unsettled(s)) < Size(s)
      /\ place' = [place EXCEPT ![m] = s]
      /\ count' = [count EXCEPT ![m] = @ + 1]
      /\ UNCHANGED succeeded
  BY DEF Deliver, callVars
<1>2. /\ place'[m] = s /\ count'[m] = count[m] + 1
      /\ \A x \in Messages \ {m} : place'[x] = place[x] /\ count'[x] = count[x]
  BY <1>1 DEF TypeInv, TypeOK
<1>3. Queue!With(s) = Unsettled(s)
  BY AtFacts DEF Queue!With, Unsettled, TypeInv
<1>4. queueCapacity[s] = Size(s) /\ UNCHANGED queueCapacity
  BY CapacityFacts DEF queueCapacity, TypeInv
<1>5. queueAt' = [queueAt EXCEPT ![m] = s]
  <2>1. s \notin {"ready", "acked"}
    BY PlaceAssumption
  <2> QED
    BY <1>2, <2>1 DEF queueAt
<1>6. UNCHANGED queueGood
  <2>1. m \notin queueGood
    BY <1>1, PlaceAssumption DEF queueGood
  <2>2. \A c \in succeeded : c.of # [srv |-> s, msg |-> m, n |-> count[m] + 1]
    <3> SUFFICES ASSUME NEW c \in succeeded,
                        c.of = [srv |-> s, msg |-> m, n |-> count[m] + 1]
                 PROVE  FALSE
      OBVIOUS
    <3>1. c.of.n <= count[m] /\ c.of.n = count[m] + 1 /\ count[m] \in Nat
      BY DEF TypeInv, TypeOK, KnownOK
    <3> QED
      BY <3>1
  <2>3. m \notin queueGood'
    BY <1>1, <1>2, <2>2 DEF queueGood
  <2>4. \A x \in Messages \ {m} : x \in queueGood' <=> x \in queueGood
    BY <1>1, <1>2 DEF queueGood
  <2>5. queueGood \subseteq Messages /\ queueGood' \subseteq Messages
    BY DEF queueGood
  <2> QED
    BY <2>1, <2>3, <2>4, <2>5
<1>7. queueAt[m] = "waiting"
  BY <1>1, AtFacts DEF TypeInv
<1>8. Queue!Hand(s, m)
  <2>1. Cardinality(Queue!With(s)) < queueCapacity[s]
    BY <1>1, <1>3, <1>4
  <2>2. Queue!Cardinality(Queue!With(s)) = Cardinality(Queue!With(s))
    BY DEF Queue!Cardinality, Cardinality
  <2> QED
    BY <1>5, <1>6, <1>7, <2>1, <2>2 DEF Queue!Hand
<1> QED
  BY <1>4, <1>8 DEF Queue!QNext

\* The channel of a server closes: what it had waits again.
LEMMA RefineClose ==
  ASSUME TypeInv, NEW s \in Servers, CloseChannel(s), UNCHANGED <<world, count, succeeded>>
  PROVE  [Queue!QNext]_(Queue!queueVars)
<1>1. \A m \in Messages : place'[m] = IF place[m] = s THEN "ready" ELSE place[m]
  BY DEF CloseChannel, Requeued
<1>2. UNCHANGED queueCapacity
  BY CapacityFacts DEF TypeInv
<1>3. Queue!With(s) = {m \in Messages : place[m] = s}
  BY AtFacts DEF Queue!With, TypeInv
<1>4. queueAt' = [m \in Messages |-> IF queueAt[m] = s THEN "waiting" ELSE queueAt[m]]
  <2>1. ASSUME NEW m \in Messages
        PROVE  queueAt'[m] = IF queueAt[m] = s THEN "waiting" ELSE queueAt[m]
    <3>1. queueAt[m] = s <=> place[m] = s
      BY AtFacts DEF TypeInv
    <3> QED
      BY <1>1, <3>1 DEF queueAt
  <2>2. queueAt' = [m \in Messages |-> queueAt'[m]]
    BY DEF queueAt
  <2> QED
    BY <2>1, <2>2
<1>5. queueGood' = queueGood \ Queue!With(s)
  <2>1. "ready" \notin Servers
    BY PlaceAssumption
  <2>2. \A m \in Messages : m \in queueGood' <=> m \in queueGood /\ place[m] # s
    BY <1>1, <2>1 DEF queueGood
  <2>3. queueGood \subseteq Messages /\ queueGood' \subseteq Messages
    BY DEF queueGood
  <2> QED
    BY <1>3, <2>2, <2>3
<1>6. CASE Queue!With(s) # {}
  BY <1>2, <1>4, <1>5, <1>6 DEF Queue!QNext, Queue!TakeBack
<1>7. CASE Queue!With(s) = {}
  <2>1. queueAt' = queueAt
    <3>1. \A m \in Messages : queueAt[m] # s
      BY <1>7 DEF Queue!With
    <3>2. queueAt = [m \in Messages |-> queueAt[m]]
      BY DEF queueAt
    <3> QED
      BY <1>4, <3>1, <3>2
  <2> QED
    BY <1>2, <1>5, <1>7, <2>1 DEF Queue!queueVars
<1> QED
  BY <1>6, <1>7

\* The first frame that settles a delivery takes the message out of the queue,
\* as processed only if the delivery is good.
LEMMA RefineSettle ==
  ASSUME TypeInv, OwnInv, NEW w \in Workers, Holding(w),
         NEW end \in {"acked", "dropped"}, Settle(w, end),
         end = "acked" => CallOf(w) \in succeeded,
         UNCHANGED <<world, count, succeeded>>
  PROVE  [Queue!QNext]_(Queue!queueVars)
<1> DEFINE m == held[w].msg
           s == Home(w)
           left_as == IF end = "acked" THEN "processed" ELSE "dropped"
<1>1. /\ m \in Messages /\ s \in Servers
      /\ held[w] \in Deliveries /\ held[w].srv = s
  BY HomeType DEF TypeInv, KnownOK, Deliveries
<1>2. UNCHANGED queueCapacity
  BY CapacityFacts DEF TypeInv
<1>3. CASE s \in open /\ place[m] = s
  <2>1. /\ place'[m] = end
        /\ \A x \in Messages \ {m} : place'[x] = place[x]
    BY <1>1, <1>3 DEF Settle, TypeInv, TypeOK
  <2>2. end \notin Servers
    BY PlaceAssumption
  <2>3. queueAt[m] \in Servers
    BY <1>1, <1>3, AtFacts DEF TypeInv
  <2>4. queueAt' = [queueAt EXCEPT ![m] = left_as]
    BY <1>1, <2>1 DEF queueAt
  <2>5. queueGood' = queueGood \ {m}
    <3>1. m \notin queueGood'
      BY <2>1, <2>2 DEF queueGood
    <3>2. \A x \in Messages \ {m} : x \in queueGood' <=> x \in queueGood
      BY <2>1 DEF queueGood
    <3>3. queueGood \subseteq Messages /\ queueGood' \subseteq Messages
      BY DEF queueGood
    <3> QED
      BY <3>1, <3>2, <3>3
  <2>6. CASE end = "acked"
    <3>1. held[w].n = count[m]
      <4>1. place[m] # "acked"
        BY <1>1, <1>3, PlaceAssumption
      <4> QED
        BY <1>3, <4>1 DEF OwnInv, HolderOwns
    <3>2. held[w] = [srv |-> place[m], msg |-> m, n |-> count[m]]
      BY <1>1, <1>3, <3>1 DEF Deliveries
    <3>3. CallOf(w).of = held[w]
      BY DEF CallOf
    <3>4. m \in queueGood
      BY <1>1, <1>3, <2>6, <3>2, <3>3, GoodFacts
    <3> QED
      BY <1>1, <1>2, <2>3, <2>4, <2>5, <2>6, <3>4 DEF Queue!QNext, Queue!Processed
  <2>7. CASE end = "dropped"
    BY <1>1, <1>2, <2>3, <2>4, <2>5, <2>7 DEF Queue!QNext, Queue!Dropped
  <2> QED
    BY <2>6, <2>7
<1>4. CASE s \in open /\ place[m] # s
  <2>1. CloseChannel(s)
    BY <1>4 DEF Settle
  <2> QED
    BY <1>1, <2>1, RefineClose
<1>5. CASE s \notin open
  <2>1. UNCHANGED place
    BY <1>5 DEF Settle
  <2> QED
    BY <2>1, GoodFacts, RefineStutter
<1> QED
  BY <1>3, <1>4, <1>5

\* A success counts only for the delivery the broker still waits for.
LEMMA RefineHandlerReturns ==
  ASSUME TypeInv, NEW c \in running, NEW o \in Outcomes, HandlerReturns(c, o),
         UNCHANGED world
  PROVE  [Queue!QNext]_(Queue!queueVars)
<1> DEFINE Current(x, m) ==
             /\ place[m] \in Servers
             /\ x.of = [srv |-> place[m], msg |-> m, n |-> count[m]]
<1>1. /\ UNCHANGED <<place, count>>
      /\ succeeded' = IF o.ok THEN succeeded \cup {c} ELSE succeeded
  BY DEF HandlerReturns, brokerVars
<1>2. CASE o.ok /\ \E m \in Messages : Current(c, m)
  <2>1. PICK m \in Messages : Current(c, m)
    BY <1>2
  <2>2. \A x \in Messages : Current(c, x) => x = m
    BY <2>1
  <2>3. queueGood' = queueGood \cup {m}
    <3>1. \A x \in Messages : x \in queueGood' <=> x \in queueGood \/ Current(c, x)
      BY <1>1, <1>2 DEF queueGood
    <3>2. queueGood \subseteq Messages /\ queueGood' \subseteq Messages
      BY DEF queueGood
    <3> QED
      BY <2>1, <2>2, <3>1, <3>2
  <2>4. UNCHANGED <<queueAt, queueCapacity>>
    BY <1>1, CapacityFacts DEF queueAt, TypeInv
  <2>5. queueAt[m] \in Servers
    BY <2>1, AtFacts DEF TypeInv
  <2> QED
    BY <2>3, <2>4, <2>5 DEF Queue!QNext, Queue!Handled
<1>3. CASE ~(o.ok /\ \E m \in Messages : Current(c, m))
  <2>1. \A x \in succeeded' : \A m \in Messages : Current(x, m) => m \in queueGood
    <3>1. \A x \in succeeded : \A m \in Messages : Current(x, m) => m \in queueGood
      BY GoodFacts
    <3> QED
      BY <1>1, <1>3, <3>1
  <2> QED
    BY <1>1, <2>1, RefineStutter
<1> QED
  BY <1>2, <1>3

\* Every step is a step of the work queue or leaves it alone.
LEMMA RefineNext ==
  TypeInv /\ OwnInv /\ VerdictInv /\ [Next]_vars => [Queue!QNext]_(Queue!queueVars)
<1> SUFFICES ASSUME TypeInv, OwnInv, VerdictInv, [Next]_vars
             PROVE  [Queue!QNext]_(Queue!queueVars)
  OBVIOUS
<1>1. ASSUME UNCHANGED <<world, place, count, succeeded>>
      PROVE  UNCHANGED Queue!queueVars
  BY <1>1, GoodFacts, RefineStutter
<1>2. ASSUME NEW s \in Servers, NEW m \in Messages, Deliver(s, m), UNCHANGED world
      PROVE  Queue!QNext
  BY <1>2, RefineDeliver
<1>3. ASSUME NEW s \in Servers, LoseChannel(s) \/ Crash(s), UNCHANGED world
      PROVE  [Queue!QNext]_(Queue!queueVars)
  BY <1>3, RefineClose DEF LoseChannel, Crash, callVars
<1>4. ASSUME NEW s \in Servers, DiscardBuffer(s) \/ Restart(s), UNCHANGED world
      PROVE  UNCHANGED Queue!queueVars
  BY <1>1, <1>4 DEF DiscardBuffer, Restart, brokerVars, callVars
<1>5. ASSUME NEW c \in running, NEW o \in Outcomes, HandlerReturns(c, o),
             UNCHANGED world
      PROVE  [Queue!QNext]_(Queue!queueVars)
  BY <1>5, RefineHandlerReturns
<1>6. ASSUME NEW w \in Workers, NEW d \in buffer[Home(w)], Take(w, d), UNCHANGED world
      PROVE  UNCHANGED Queue!queueVars
  BY <1>1, <1>6 DEF Take, brokerVars, callVars
<1>7. ASSUME NEW w \in Workers, UNCHANGED world,
             Stop(w) \/ StartCall(w) \/ DecodeFails(w) \/ TimeoutFires(w)
      PROVE  UNCHANGED Queue!queueVars
  BY <1>1, <1>7 DEF Stop, StartCall, DecodeFails, TimeoutFires, brokerVars, callVars
<1>8. ASSUME NEW w \in Workers, NEW x \in results, ReceiveResult(w, x),
             UNCHANGED world
      PROVE  UNCHANGED Queue!queueVars
  BY <1>1, <1>8 DEF ReceiveResult, brokerVars
<1>9. ASSUME NEW w \in Workers, Ack(w), UNCHANGED world
      PROVE  [Queue!QNext]_(Queue!queueVars)
  <2>1. Holding(w) /\ CallOf(w) \in succeeded
    BY <1>9 DEF Ack, Holding, VerdictInv, ResultOK
  <2> QED
    BY <1>9, <2>1, RefineSettle DEF Ack, callVars
<1>10. ASSUME NEW w \in Workers, Reject(w), UNCHANGED world
       PROVE  [Queue!QNext]_(Queue!queueVars)
  BY <1>10, RefineSettle DEF Reject, Holding, callVars
<1>11. CASE UNCHANGED vars
  BY <1>1, <1>11 DEF vars, stepVars, brokerVars, callVars
<1> QED
  BY <1>2, <1>3, <1>4, <1>5, <1>6, <1>7, <1>8, <1>9, <1>10, <1>11
  DEF Next, Broker, Handlers, Loop

\* Servers, workers and broker together are a work queue: no prefetch is
\* exceeded, a message leaves as processed only on a success of its current
\* delivery, and none comes back once it has left.
THEOREM SpecImplementsWorkQueue == Spec => ImplementsWorkQueue
<1> QED
  BY TypeInit, TypeNext, OwnInit, OwnNext, VerdictInit, VerdictNext, RefineInit,
     RefineNext, PTL
  DEF Spec, ImplementsWorkQueue, Queue!QSpec
=============================================================================
