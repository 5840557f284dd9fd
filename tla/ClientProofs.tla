----------------------------- MODULE ClientProofs -----------------------------
(* What a call of AsyncRequests returns, and what Request leaves behind, for *)
(* any number of requests, any services and every kind of client.            *)
EXTENDS Client, SequenceTheorems, FiniteSetTheorems, WellFoundedInduction, TLAPS

\* Goroutine g works on request g, and has not started before it is spawned.
IndexOK ==
  \A g \in Requests : /\ index[g] = g
                      /\ g > spawned => pc[g] = "none"

TypeInv == TypeOK /\ IndexOK

-----------------------------------------------------------------------------
(* Types *)

\* No goroutine runs at the start.
LEMMA TypeInit == Init => TypeInv
<1> SUFFICES ASSUME Init PROVE TypeInv
  OBVIOUS
<1>1. done \in Seq(Results) /\ aresps \in Seq(Results)
  BY EmptySeq DEF Init
<1>2. TypeOK
  BY <1>1, CountAssumption DEF Init, TypeOK, Requests
<1>3. IndexOK
  BY DEF Init, IndexOK
<1> QED
  BY <1>2, <1>3 DEF TypeInv

\* A result of Request is a result.
LEMMA ResultType ==
  ASSUME NEW g \in Requests, NEW status \in {"none", "ok", "error"},
         NEW err \in BOOLEAN
  PROVE  Result(g, status, err) \in Results
BY DEF Result, Results

\* The types after Request has returned in goroutine g.
LEMMA TypeReturn ==
  ASSUME TypeInv, NEW g \in Requests, NEW status \in {"none", "ok", "error"},
         NEW err \in BOOLEAN, Return(g, status, err)
  PROVE  /\ pc' \in [Requests -> {"none", "resolve", "lookup", "config", "store",
                                  "select", "reading", "ended"}]
         /\ done' \in Seq(Results)
         /\ done' = Append(done, Result(g, status, err))
<1>1. done' = Append(done, Result(g, status, err))
  BY DEF Return, TypeInv, IndexOK
<1>2. done \in Seq(Results) /\ Result(g, status, err) \in Results
  BY ResultType DEF TypeInv, TypeOK
<1>3. done' \in Seq(Results)
  BY <1>1, <1>2, AppendProperties
<1> QED
  BY <1>1, <1>3 DEF Return, TypeInv, TypeOK

\* A step of goroutine g, which has been spawned, keeps where the others are.
LEMMA IndexFrame ==
  ASSUME TypeInv, NEW g \in Requests, pc[g] # "none",
         UNCHANGED <<index, spawned>>,
         \A h \in Requests \ {g} : pc'[h] = pc[h]
  PROVE  IndexOK'
BY DEF TypeInv, TypeOK, IndexOK

\* The next goroutine starts with the next request.
LEMMA TypeSpawn == TypeInv /\ Spawn => TypeInv'
<1> SUFFICES ASSUME TypeInv, Spawn PROVE TypeInv'
  OBVIOUS
<1> DEFINE g == spawned + 1
<1>1. spawned \in Nat /\ g \in Requests /\ g \in 0 .. N
  BY CountAssumption DEF Spawn, TypeInv, TypeOK, Requests
<1>2. /\ spawned' = g
      /\ pc' = [pc EXCEPT ![g] = "resolve"]
      /\ index' = [index EXCEPT ![g] = g]
      /\ main' \in {"collect", "spawn"}
      /\ UNCHANGED <<kind, aresps, confVars, cmdVars, dataVars, done, crash>>
  BY DEF Spawn, Started
<1> HIDE DEF g
<1>3. TypeOK'
  BY <1>1, <1>2 DEF TypeInv, TypeOK, cmdVars, dataVars
<1>4. IndexOK'
  <2>1. SUFFICES ASSUME NEW h \in Requests
                 PROVE  index'[h] = h /\ (h > spawned' => pc'[h] = "none")
    BY DEF IndexOK
  <2>2. CASE h = g
    BY <1>1, <1>2, <2>2 DEF TypeInv, TypeOK, Requests
  <2>3. CASE h # g
    <3>1. index'[h] = index[h] /\ pc'[h] = pc[h]
      BY <1>2, <2>3 DEF TypeInv, TypeOK
    <3>2. h \in Nat /\ (h > g => h > spawned)
      BY <1>1 DEF g, Requests
    <3> QED
      BY <1>2, <3>1, <3>2 DEF TypeInv, IndexOK
  <2> QED
    BY <2>2, <2>3
<1> QED
  BY <1>3, <1>4 DEF TypeInv

\* What Collect moves from done to aresps.
LEMMA CollectFacts ==
  ASSUME TypeInv, Collect
  PROVE  /\ aresps' \in Seq(Results) /\ done' \in Seq(Results)
         /\ Len(aresps) \in Nat /\ Len(done) \in Nat /\ Len(done) > 0
         /\ Len(aresps') = Len(aresps) + 1 /\ Len(done') = Len(done) - 1
         /\ \A k \in 1 .. Len(aresps) : aresps'[k] = aresps[k]
         /\ aresps'[Len(aresps) + 1] = done[1]
         /\ \A k \in 1 .. Len(done) - 1 : done'[k] = done[k + 1]
<1>1. /\ done # <<>> /\ done \in Seq(Results) /\ aresps \in Seq(Results)
      /\ aresps' = Append(aresps, Head(done)) /\ done' = Tail(done)
  BY DEF Collect, TypeInv, TypeOK
<1>2. /\ Head(done) \in Results /\ done' \in Seq(Results)
      /\ Len(done') = Len(done) - 1
      /\ \A k \in 1 .. Len(done) - 1 : done'[k] = done[k + 1]
  BY <1>1, HeadTailProperties
<1>3. Head(done) = done[1]
  BY <1>1
<1>4. Len(aresps) \in Nat /\ Len(done) \in Nat /\ Len(done) > 0
  BY <1>1, EmptySeq, LenProperties
<1>5. /\ aresps' \in Seq(Results)
      /\ Len(aresps') = Len(aresps) + 1
      /\ \A k \in 1 .. Len(aresps) : aresps'[k] = aresps[k]
      /\ aresps'[Len(aresps) + 1] = Head(done)
  BY <1>1, <1>2, AppendProperties
<1> QED
  BY <1>2, <1>3, <1>4, <1>5

\* Results keep their type when they are received.
LEMMA TypeCollect == TypeInv /\ Collect => TypeInv'
<1> SUFFICES ASSUME TypeInv, Collect PROVE TypeInv'
  OBVIOUS
<1>1. aresps' \in Seq(Results) /\ done' \in Seq(Results)
  BY CollectFacts
<1>2. /\ main' \in {"returned", "collect"}
      /\ UNCHANGED <<kind, spawned, index, pc, confVars, cmdVars, dataVars, crash>>
  BY DEF Collect
<1> QED
  BY <1>1, <1>2 DEF TypeInv, TypeOK, IndexOK, cmdVars, dataVars

\* What may be found in a Response.
LEMMA TypeFilled ==
  ASSUME TypeInv, NEW g \in Requests,
         NEW data \in {"untouched", "decoded", "half", "garbled"}, Filled(g, data)
  PROVE  reply' \in [Requests -> {"untouched", "decoded", "half", "garbled"}]
BY DEF Filled, TypeInv, TypeOK

\* The steps of the goroutine of a request keep the types.
LEMMA TypeRequest ==
  ASSUME TypeInv, NEW g \in Requests, Request(g) \/ Await(g)
  PROVE  TypeInv'
<1>1. ASSUME NEW status \in {"none", "ok", "error"}, NEW err \in BOOLEAN,
             pc[g] # "none", Return(g, status, err),
             UNCHANGED <<mainVars, confVars, run, timer, failed, crash>>,
             reply' \in [Requests -> {"untouched", "decoded", "half", "garbled"}],
             body' \in [Requests -> Bodies \cup {"none"}],
             output' \in [Requests -> Responses \cup {"none"}]
      PROVE  TypeInv'
  <2>1. TypeOK'
    BY <1>1, TypeReturn DEF TypeInv, TypeOK, mainVars
  <2>2. \A h \in Requests \ {g} : pc'[h] = pc[h]
    BY <1>1 DEF Return, TypeInv, TypeOK
  <2> QED
    BY <1>1, <2>1, <2>2, IndexFrame DEF TypeInv, mainVars
<1>2. ASSUME NEW p \in {"lookup", "config", "store", "select", "reading"}, pc[g] # "none",
             pc' = [pc EXCEPT ![g] = p],
             run' \in [Requests -> {"none", "queued", "running", "ended"}],
             timer' \in [Requests -> BOOLEAN],
             UNCHANGED <<mainVars, output, failed, dataVars, done, crash>>
      PROVE  TypeInv'
  <2>1. TypeOK'
    BY <1>2 DEF TypeInv, TypeOK, mainVars, dataVars
  <2>2. \A h \in Requests \ {g} : pc'[h] = pc[h]
    BY <1>2 DEF TypeInv, TypeOK
  <2> QED
    BY <1>2, <2>1, <2>2, IndexFrame DEF TypeInv, mainVars
<1>3. CASE Resolve(g)
  <2>1. CASE Return(g, "none", TRUE)
    BY <1>1, <1>3, <2>1 DEF Resolve, cmdVars, dataVars, TypeInv, TypeOK
  <2>2. CASE pc' = [pc EXCEPT ![g] = "lookup"] /\ UNCHANGED done
    BY <1>2, <1>3, <2>2 DEF Resolve, cmdVars, TypeInv, TypeOK
  <2> QED
    BY <1>3, <2>1, <2>2 DEF Resolve
<1>4. CASE StubAnswers(g)
  <2>1. reply' \in [Requests -> {"untouched", "decoded", "half", "garbled"}]
    <3>1. \E data \in {"untouched", "decoded", "half", "garbled"} : Filled(g, data)
      BY <1>4 DEF StubAnswers
    <3> QED
      BY <3>1, TypeFilled
  <2> QED
    BY <1>1, <1>4, <2>1 DEF StubAnswers, cmdVars, TypeInv, TypeOK
<1>5. CASE Lookup(g)
  <2>1. pc[g] = "lookup" /\ UNCHANGED <<mainVars, output, failed, dataVars, done, crash>>
    BY <1>5 DEF Lookup
  <2>2. CASE Go(g)
    <3>1. /\ run' \in [Requests -> {"none", "queued", "running", "ended"}]
          /\ timer' \in [Requests -> BOOLEAN]
      BY <2>2 DEF Go, TypeInv, TypeOK
    <3> QED
      BY <1>2, <2>1, <2>2, <3>1 DEF Go
  <2>3. CASE pc' = [pc EXCEPT ![g] = "config"] /\ UNCHANGED <<run, timer>>
    BY <1>2, <2>1, <2>3 DEF TypeInv, TypeOK
  <2> QED
    BY <1>5, <2>2, <2>3 DEF Lookup
<1>6. CASE ConfigureCommand(g)
  BY <1>2, <1>6 DEF ConfigureCommand, cmdVars, TypeInv, TypeOK
<1>7. CASE Configure(g)
  BY <1>2, <1>7 DEF Configure, Go, TypeInv, TypeOK
<1>8. CASE TakeResponse(g)
  <2>1. /\ pc[g] = "select"
        /\ UNCHANGED <<mainVars, confVars, run, timer, failed, dataVars, crash>>
    BY <1>8 DEF TakeResponse
  <2>2. CASE /\ Return(g, StatusOf(output[g]), FALSE)
             /\ output' = [output EXCEPT ![g] = "none"]
    <3>1. StatusOf(output[g]) \in {"none", "ok", "error"}
      BY DEF StatusOf
    <3> QED
      BY <1>1, <2>1, <2>2, <3>1 DEF dataVars, TypeInv, TypeOK
  <2>3. CASE pc' = [pc EXCEPT ![g] = "reading"] /\ UNCHANGED <<output, done>>
    BY <1>2, <2>1, <2>3 DEF TypeInv, TypeOK
  <2> QED
    BY <1>8, <2>2, <2>3 DEF TakeResponse
<1>9. CASE NilEncoder(g)
  BY <1>9 DEF NilEncoder, Panic, mainVars, cmdVars, dataVars, TypeInv, TypeOK, IndexOK
<1>10. CASE TakeError(g)
  BY <1>1, <1>10 DEF TakeError, cmdVars, dataVars, TypeInv, TypeOK
<1>11. CASE ReadError(g)
  BY <1>1, <1>11 DEF ReadError, dataVars, TypeInv, TypeOK
<1>12. ASSUME NEW b \in Bodies, ReadReply(g, b) PROVE TypeInv'
  <2>1. /\ reply' \in [Requests -> {"untouched", "decoded", "half", "garbled"}]
        /\ body' \in [Requests -> Bodies \cup {"none"}]
        /\ output' \in [Requests -> Responses \cup {"none"}]
    <3>1. \/ UNCHANGED reply
          \/ \E data \in {"untouched", "decoded", "half", "garbled"} : Filled(g, data)
      BY <1>12 DEF ReadReply
    <3>2. reply' \in [Requests -> {"untouched", "decoded", "half", "garbled"}]
      BY <3>1, TypeFilled DEF TypeInv, TypeOK
    <3>3. /\ body' = [body EXCEPT ![index[g]] = b]
          /\ output' = [output EXCEPT ![g] = "none"]
      BY <1>12 DEF ReadReply
    <3> QED
      BY <3>2, <3>3 DEF TypeInv, TypeOK
  <2>2. StatusOf(output[g]) \in {"none", "ok", "error"}
    BY DEF StatusOf
  <2>3. /\ pc[g] = "reading"
        /\ UNCHANGED <<mainVars, confVars, run, timer, failed, crash>>
        /\ Return(g, StatusOf(output[g]), FALSE) \/ Return(g, "none", TRUE)
    BY <1>12 DEF ReadReply
  <2> QED
    BY <1>1, <2>1, <2>2, <2>3
<1> QED
  BY <1>3, <1>4, <1>5, <1>6, <1>7, <1>8, <1>9, <1>10, <1>11, <1>12 DEF Request, Await

\* The breaker, the HTTP client and what ends the process keep the types.
LEMMA TypeCommand ==
  ASSUME TypeInv, NEW g \in Requests, Fatal(g) \/ Command(g)
  PROVE  TypeInv'
<1>1. CASE Fatal(g)
  BY <1>1 DEF Fatal, NoNodes, NilType, MapRace, Panic, mainVars, cmdVars, dataVars,
              TypeInv, TypeOK, IndexOK
<1>2. CASE Command(g)
  <2>1. UNCHANGED <<mainVars, pc, confVars, dataVars, done, crash>>
    BY <1>2 DEF Command, Refuse, Admit, Answer, DoFails, Finish, TimerFires
  <2>2. /\ run' \in [Requests -> {"none", "queued", "running", "ended"}]
        /\ timer' \in [Requests -> BOOLEAN]
        /\ output' \in [Requests -> Responses \cup {"none"}]
        /\ failed' \in [Requests -> BOOLEAN]
    <3>1. CASE Refuse(g) \/ Admit(g) \/ DoFails(g)
      BY <3>1 DEF Refuse, Admit, DoFails, TypeInv, TypeOK
    <3>2. CASE Finish(g) \/ TimerFires(g)
      BY <3>2 DEF Finish, TimerFires, TypeInv, TypeOK
    <3>3. CASE \E resp \in Responses : Answer(g, resp)
      BY <3>3 DEF Answer, TypeInv, TypeOK
    <3> QED
      BY <1>2, <3>1, <3>2, <3>3 DEF Command
  <2> QED
    BY <2>1, <2>2 DEF mainVars, dataVars, TypeInv, TypeOK, IndexOK
<1> QED
  BY <1>1, <1>2

\* Every step keeps the types and which goroutine works on which request.
LEMMA TypeNext == TypeInv /\ [Next]_vars => TypeInv'
<1> SUFFICES ASSUME TypeInv, [Next]_vars PROVE TypeInv'
  OBVIOUS
<1>1. CASE UNCHANGED vars
  BY <1>1 DEF vars, mainVars, confVars, cmdVars, dataVars, TypeInv, TypeOK, IndexOK
<1> QED
  BY <1>1, TypeSpawn, TypeCollect, TypeRequest, TypeCommand DEF Next

\* Every variable keeps its type, for any number of requests and any services.
THEOREM SpecTypeOK == Spec => []TypeOK
<1>1. Spec => []TypeInv
  BY TypeInit, TypeNext, PTL DEF Spec
<1> QED
  BY <1>1, PTL DEF TypeInv

-----------------------------------------------------------------------------
(* Settings of the breaker *)

\* A service is in the map only once hystrix has its settings, and is configured
\* only while it was not for earlier requests.
ConfInv ==
  /\ Configured \subseteq hystrixConfig
  /\ hystrixConfig \subseteq settings
  /\ \A g \in Requests :
       /\ pc[g] \in {"config", "store"} => Service[index[g]] \notin Configured
       /\ pc[g] = "store" => Service[index[g]] \in settings
  /\ RunsConfigured

\* No command has started at the start.
LEMMA ConfInit == Init => ConfInv
BY DEF Init, ConfInv, RunsConfigured

\* A step that starts no command, configures nothing and does not end the
\* process keeps the settings right.
LEMMA ConfFrame ==
  ASSUME TypeInv, ConfInv, crash' = "none", UNCHANGED confVars,
         \A g \in Requests :
            /\ index'[g] = index[g]
            /\ pc'[g] \in {"config", "store"} => pc'[g] = pc[g]
            /\ run'[g] # "none" => run[g] # "none"
  PROVE  ConfInv'
BY DEF ConfInv, RunsConfigured, confVars

\* Lookup leaves a request without settings to ConfigureCommand, which comes
\* before the map is written.
LEMMA ConfConfigure ==
  ASSUME TypeInv, ConfInv, crash' = "none", NEW g \in Requests,
         Lookup(g) \/ ConfigureCommand(g) \/ Configure(g)
  PROVE  ConfInv'
<1> DEFINE s == Service[index[g]]
<1>1. UNCHANGED index
  BY DEF Lookup, ConfigureCommand, Configure, mainVars
<1>2. CASE Lookup(g)
  <2>1. UNCHANGED <<hystrixConfig, settings>> /\ pc[g] = "lookup"
    BY <1>2 DEF Lookup, confVars
  <2>2. CASE s \in hystrixConfig /\ Go(g)
    <3>1. \A h \in Requests : /\ pc'[h] \in {"config", "store"} => pc'[h] = pc[h]
                              /\ run'[h] # "none" => run[h] # "none" \/ h = g
      BY <2>2 DEF Go, TypeInv, TypeOK
    <3> QED
      BY <1>1, <2>1, <2>2, <3>1 DEF ConfInv, RunsConfigured
  <2>3. CASE /\ s \notin hystrixConfig
             /\ pc' = [pc EXCEPT ![g] = "config"]
             /\ UNCHANGED <<run, timer>>
    <3>1. \A h \in Requests : /\ pc'[h] = "store" => pc[h] = "store"
                              /\ pc'[h] = "config" => pc[h] = "config" \/ h = g
      BY <2>3 DEF TypeInv, TypeOK
    <3>2. s \notin Configured
      BY <2>3 DEF ConfInv
    <3> QED
      BY <1>1, <2>1, <2>3, <3>1, <3>2 DEF ConfInv, RunsConfigured
  <2> QED
    BY <1>2, <2>2, <2>3 DEF Lookup
<1>3. CASE ConfigureCommand(g)
  <2>1. /\ pc[g] = "config" /\ pc' = [pc EXCEPT ![g] = "store"]
        /\ settings' = settings \cup {s}
        /\ UNCHANGED <<hystrixConfig, run>>
    BY <1>3 DEF ConfigureCommand, cmdVars
  <2>2. \A h \in Requests : /\ pc'[h] = "store" => pc[h] = "store" \/ h = g
                            /\ pc'[h] = "config" => pc[h] = "config"
    BY <2>1 DEF TypeInv, TypeOK
  <2> QED
    BY <1>1, <2>1, <2>2 DEF ConfInv, RunsConfigured
<1>4. CASE Configure(g)
  <2>1. /\ pc[g] = "store" /\ Go(g) /\ UNCHANGED settings
        /\ hystrixConfig' = hystrixConfig \cup {s}
    BY <1>4 DEF Configure
  <2>2. \A h \in Requests : /\ pc'[h] \in {"config", "store"} => pc'[h] = pc[h]
                            /\ run'[h] # "none" => run[h] # "none" \/ h = g
    BY <2>1 DEF Go, TypeInv, TypeOK
  <2> QED
    BY <1>1, <2>1, <2>2 DEF ConfInv, RunsConfigured
<1> QED
  BY <1>2, <1>3, <1>4

\* The runtime finds the map in use only beside a first configuration.
LEMMA ConfFatal ==
  ASSUME TypeInv, ConfInv, NEW g \in Requests, Fatal(g) \/ NilEncoder(g)
  PROVE  ConfInv'
<1>1. UNCHANGED <<index, pc, hystrixConfig, settings, run>>
  BY DEF Fatal, NoNodes, NilType, MapRace, NilEncoder, Panic, mainVars, confVars,
         cmdVars
<1>2. crash' = "mapRace" => \E h \in Requests : pc[h] = "store"
  BY DEF Fatal, NoNodes, NilType, MapRace, NilEncoder, Panic
<1> QED
  BY <1>1, <1>2 DEF ConfInv, RunsConfigured

\* Every step keeps the settings right.
LEMMA ConfNext == TypeInv /\ ConfInv /\ [Next]_vars => ConfInv'
<1> SUFFICES ASSUME TypeInv, ConfInv, [Next]_vars PROVE ConfInv'
  OBVIOUS
<1>1. CASE UNCHANGED vars
  BY <1>1 DEF vars, mainVars, confVars, cmdVars, ConfInv, RunsConfigured
<1>2. CASE crash = "none" /\ Spawn
  <2>1. \A g \in Requests : pc'[g] \in {"config", "store"} => pc'[g] = pc[g]
    BY <1>2 DEF Spawn, TypeInv, TypeOK
  <2>2. index' = [index EXCEPT ![spawned + 1] = spawned + 1]
    BY <1>2 DEF Spawn, Started
  <2>3. \A g \in Requests : index'[g] = index[g]
    BY <2>2 DEF TypeInv, TypeOK, IndexOK
  <2> QED
    BY <1>2, <2>1, <2>3, ConfFrame DEF Spawn, cmdVars
<1>3. CASE crash = "none" /\ Collect
  BY <1>3, ConfFrame DEF Collect, cmdVars
<1>4. ASSUME NEW g \in Requests, crash = "none", Request(g) \/ Await(g) PROVE ConfInv'
  <2>1. CASE Lookup(g) \/ ConfigureCommand(g) \/ Configure(g)
    BY <1>4, <2>1, ConfConfigure DEF Lookup, ConfigureCommand, Configure
  <2>2. CASE \/ Resolve(g) \/ StubAnswers(g) \/ TakeResponse(g) \/ TakeError(g)
             \/ ReadError(g) \/ \E b \in Bodies : ReadReply(g, b)
    <3>1. UNCHANGED <<mainVars, confVars, run, crash>>
      BY <2>2 DEF Resolve, StubAnswers, TakeResponse, TakeError, ReadError,
                  ReadReply, cmdVars
    <3>2. \E p \in {"ended", "lookup", "reading"} : pc' = [pc EXCEPT ![g] = p]
      <4>1. CASE Resolve(g) \/ StubAnswers(g) \/ TakeResponse(g)
        BY <4>1 DEF Resolve, StubAnswers, TakeResponse, Return
      <4>2. CASE TakeError(g) \/ ReadError(g) \/ \E b \in Bodies : ReadReply(g, b)
        BY <4>2 DEF TakeError, ReadError, ReadReply, Return
      <4> QED
        BY <2>2, <4>1, <4>2
    <3>3. \A h \in Requests : pc'[h] \in {"config", "store"} => pc'[h] = pc[h]
      BY <3>2 DEF TypeInv, TypeOK
    <3> QED
      BY <1>4, <3>1, <3>3, ConfFrame DEF mainVars
  <2> QED
    BY <1>4, <2>1, <2>2, ConfFatal DEF Request, Await
<1>5. ASSUME NEW g \in Requests, crash = "none", Command(g) PROVE ConfInv'
  <2>1. UNCHANGED <<mainVars, pc, confVars, crash>>
    BY <1>5 DEF Command, Refuse, Admit, Answer, DoFails, Finish, TimerFires
  <2>2. \A h \in Requests : run'[h] # "none" => run[h] # "none"
    BY <1>5 DEF Command, Refuse, Admit, Answer, DoFails, Finish, TimerFires,
                TypeInv, TypeOK
  <2> QED
    BY <1>5, <2>1, <2>2, ConfFrame DEF mainVars
<1> QED
  BY <1>1, <1>2, <1>3, <1>4, <1>5, ConfFatal DEF Next

\* No request goes through the breaker before hystrix has the settings of its
\* service, however the goroutines share the map, and the map ends the process
\* only while some service is configured for the first time.
THEOREM SpecRunsConfigured == Spec => []RunsConfigured
<1>1. Spec => []TypeInv
  BY TypeInit, TypeNext, PTL DEF Spec
<1>2. Spec => []ConfInv
  BY ConfInit, ConfNext, <1>1, PTL DEF Spec
<1> QED
  BY <1>2, PTL DEF ConfInv

-----------------------------------------------------------------------------
(* Results *)

\* Goroutines whose Request has returned.
Ended == {g \in Requests : pc[g] = "ended"}

\* Each of them has one result, which AsyncRequests has received or not yet.
CountOK ==
  /\ main = "spawn" => aresps = <<>>
  /\ main = "collect" => Len(aresps) < N
  /\ main = "returned" => Len(aresps) = N
  /\ Len(aresps) + Len(done) = Cardinality(Ended)
  /\ \A g \in Ended : \/ \E k \in 1 .. Len(aresps) : aresps[k].of = g
                      \/ \E k \in 1 .. Len(done) : done[k].of = g

\* A result tells the truth about the Response of its request.
Truthful(x) ==
  x.of \in Ended /\ ReplyFits(x.of, x.err)

\* So do all results, and nobody touches a Response before Request returns.
ReplyOK ==
  /\ \A g \in Requests \ Ended : reply[g] = "untouched" /\ body[g] = "none"
  /\ \A k \in 1 .. Len(aresps) : Truthful(aresps[k])
  /\ \A k \in 1 .. Len(done) : Truthful(done[k])

ResultInv == CountOK /\ ReplyOK

\* The goroutines that have returned are finitely many.
LEMMA EndedFinite ==
  /\ IsFiniteSet(Requests) /\ Cardinality(Requests) = N
  /\ IsFiniteSet(Ended)
<1>1. IsFiniteSet(1 .. N) /\ Cardinality(1 .. N) = N
  <2>1. /\ IsFiniteSet(1 .. N)
        /\ Cardinality(1 .. N) = IF 1 > N THEN 0 ELSE N - 1 + 1
    BY CountAssumption, FS_Interval
  <2> QED
    BY <2>1, CountAssumption
<1>2. Ended \in SUBSET Requests
  BY DEF Ended
<1> QED
  BY <1>1, <1>2, FS_Subset DEF Requests

\* No goroutine has returned at the start.
LEMMA ResultInit == Init => ResultInv
<1> SUFFICES ASSUME Init PROVE ResultInv
  OBVIOUS
<1>1. Ended = {} /\ Cardinality({}) = 0 /\ Len(<<>>) = 0
  BY FS_EmptySet DEF Init, Ended
<1>2. CountOK
  BY <1>1 DEF Init, CountOK
<1>3. ReplyOK
  BY <1>1 DEF Init, ReplyOK
<1> QED
  BY <1>2, <1>3 DEF ResultInv

\* A step without a result keeps the results.
LEMMA ResultFrame ==
  ASSUME ResultInv, UNCHANGED <<kind, main, aresps, done, dataVars>>, Ended' = Ended
  PROVE  ResultInv'
BY DEF ResultInv, CountOK, ReplyOK, Truthful, ReplyFits, dataVars

\* Request returns once in each goroutine, with a result that is true of what it
\* has left in the Response.
LEMMA ResultReturn ==
  ASSUME TypeInv, ResultInv, NEW g \in Requests, pc[g] # "ended",
         NEW status \in {"none", "ok", "error"}, NEW err \in BOOLEAN,
         Return(g, status, err), UNCHANGED <<kind, main, aresps>>,
         \A h \in Requests \ {g} : reply'[h] = reply[h] /\ body'[h] = body[h],
         ReplyFits(g, err)'
  PROVE  ResultInv'
<1> DEFINE x == Result(g, status, err)
<1>1. done' = Append(done, x) /\ x \in Results /\ x.of = g /\ x.err = err
  BY TypeReturn, ResultType DEF Result
<1>2. done \in Seq(Results) /\ aresps \in Seq(Results)
  BY DEF TypeInv, TypeOK
<1> HIDE DEF x
<1>3. /\ Len(done) \in Nat /\ Len(aresps) \in Nat
      /\ Len(done') = Len(done) + 1
      /\ \A k \in 1 .. Len(done) : done'[k] = done[k]
      /\ done'[Len(done) + 1] = x
  BY <1>1, <1>2, AppendProperties, LenProperties
<1>4. Ended' = Ended \cup {g} /\ g \notin Ended
  BY DEF Return, Ended, TypeInv, TypeOK
<1>5. Cardinality(Ended') = Cardinality(Ended) + 1 /\ Cardinality(Ended) \in Nat
  BY <1>4, EndedFinite, FS_AddElement, FS_CardinalityType
<1>6. CountOK'
  <2>1. /\ main' = "spawn" => aresps' = <<>>
        /\ main' = "collect" => Len(aresps') < N
        /\ main' = "returned" => Len(aresps') = N
    BY DEF ResultInv, CountOK
  <2>2. Len(aresps') + Len(done') = Cardinality(Ended')
    BY <1>3, <1>5 DEF ResultInv, CountOK
  <2>3. ASSUME NEW h \in Ended'
        PROVE  \/ \E k \in 1 .. Len(aresps') : aresps'[k].of = h
               \/ \E k \in 1 .. Len(done') : done'[k].of = h
    <3>1. CASE h = g
      <4>1. Len(done) + 1 \in 1 .. Len(done')
        BY <1>3
      <4> QED
        BY <1>1, <1>3, <3>1, <4>1
    <3>2. CASE h \in Ended
      <4>1. \A k \in 1 .. Len(done) : k \in 1 .. Len(done')
        BY <1>3
      <4> QED
        BY <1>3, <3>2, <4>1 DEF ResultInv, CountOK
    <3> QED
      BY <1>4, <2>3, <3>1, <3>2
  <2> QED
    BY <2>1, <2>2, <2>3 DEF CountOK
<1> DEFINE Good == {y \in Results : y.of \in Ended' /\ ReplyFits(y.of, y.err)'}
<1>7. \A y \in Results : Truthful(y) => y \in Good
  <2>1. \A h \in Ended : h \in Ended' /\ reply'[h] = reply[h] /\ body'[h] = body[h]
    BY <1>4 DEF Ended
  <2> QED
    BY <2>1 DEF Truthful, ReplyFits
<1>8. x \in Good
  BY <1>1, <1>4
<1>9. /\ \A k \in 1 .. Len(aresps) : aresps[k] \in Good
      /\ \A k \in 1 .. Len(done) : done[k] \in Good
  <2> HIDE DEF Good
  <2>1. ASSUME NEW k \in 1 .. Len(aresps) PROVE aresps[k] \in Good
    <3>1. aresps[k] \in Results /\ Truthful(aresps[k])
      BY <1>2, ElementOfSeq DEF ResultInv, ReplyOK
    <3> QED
      BY <1>7, <3>1
  <2>2. ASSUME NEW k \in 1 .. Len(done) PROVE done[k] \in Good
    <3>1. done[k] \in Results /\ Truthful(done[k])
      BY <1>2, ElementOfSeq DEF ResultInv, ReplyOK
    <3> QED
      BY <1>7, <3>1
  <2> QED
    BY <2>1, <2>2
<1>10. \A k \in 1 .. Len(done') : done'[k] \in Good
  <2>1. SUFFICES ASSUME NEW k \in 1 .. Len(done') PROVE done'[k] \in Good
    OBVIOUS
  <2>2. k \in 1 .. Len(done) \/ k = Len(done) + 1
    BY <1>3, <2>1
  <2> HIDE DEF Good
  <2>3. CASE k \in 1 .. Len(done)
    BY <1>3, <1>9, <2>3
  <2>4. CASE k = Len(done) + 1
    BY <1>3, <1>8, <2>4
  <2> QED
    BY <2>2, <2>3, <2>4
<1>11. ReplyOK'
  <2>1. \A h \in Requests \ Ended' : reply'[h] = "untouched" /\ body'[h] = "none"
    BY <1>4 DEF ResultInv, ReplyOK
  <2>2. ASSUME NEW k \in 1 .. Len(aresps') PROVE Truthful(aresps[k])'
    <3>1. k \in 1 .. Len(aresps) /\ aresps'[k] = aresps[k]
      OBVIOUS
    <3>2. aresps[k] \in Good
      BY <1>9, <3>1
    <3> QED
      BY <3>1, <3>2 DEF Truthful, ReplyFits
  <2>3. ASSUME NEW k \in 1 .. Len(done') PROVE Truthful(done[k])'
    <3>1. PICK y \in Good : y = done'[k]
      <4> HIDE DEF Good
      <4> QED
        BY <1>10
    <3>2. y.of \in Ended' /\ ReplyFits(y.of, y.err)'
      OBVIOUS
    <3> QED
      BY <3>1, <3>2 DEF Truthful, ReplyFits
  <2> QED
    BY <2>1, <2>2, <2>3 DEF ReplyOK
<1> QED
  BY <1>6, <1>11 DEF ResultInv

\* The next goroutine has no result yet.
LEMMA ResultSpawn == TypeInv /\ ResultInv /\ Spawn => ResultInv'
<1> SUFFICES ASSUME TypeInv, ResultInv, Spawn PROVE ResultInv'
  OBVIOUS
<1> DEFINE g == spawned + 1
<1>1. g \in Requests /\ pc[g] = "none" /\ N \in Nat /\ N >= 1
  BY CountAssumption DEF Spawn, TypeInv, TypeOK, IndexOK, Requests
<1>2. pc' = [pc EXCEPT ![g] = "resolve"]
  BY DEF Spawn
<1> HIDE DEF g
<1>3. Ended' = Ended
  BY <1>1, <1>2 DEF Ended, TypeInv, TypeOK
<1>4. /\ main = "spawn" /\ main' \in {"spawn", "collect"}
      /\ UNCHANGED <<kind, aresps, done, reply, body>>
  BY DEF Spawn, dataVars
<1>5. Len(aresps) = 0 /\ aresps = <<>>
  BY <1>4, EmptySeq DEF ResultInv, CountOK
<1>6. CountOK'
  BY <1>1, <1>3, <1>4, <1>5 DEF ResultInv, CountOK
<1>7. ReplyOK'
  BY <1>3, <1>4 DEF ResultInv, ReplyOK, Truthful, ReplyFits
<1> QED
  BY <1>6, <1>7 DEF ResultInv

\* Collect moves a result and loses none.
LEMMA ResultCollect == TypeInv /\ ResultInv /\ Collect => ResultInv'
<1> SUFFICES ASSUME TypeInv, ResultInv, Collect PROVE ResultInv'
  OBVIOUS
<1> DEFINE a == Len(aresps)
           d == Len(done)
<1>1. /\ a \in Nat /\ d \in Nat /\ d > 0
      /\ Len(aresps') = a + 1 /\ Len(done') = d - 1
      /\ \A k \in 1 .. a : aresps'[k] = aresps[k]
      /\ aresps'[a + 1] = done[1]
      /\ \A k \in 1 .. d - 1 : done'[k] = done[k + 1]
  BY CollectFacts
<1>2. /\ main = "collect"
      /\ main' = IF a + 1 = N THEN "returned" ELSE "collect"
      /\ UNCHANGED <<kind, pc, reply, body>>
  BY DEF Collect, dataVars
<1>3. Ended' = Ended
  BY <1>2 DEF Ended
<1>4. a < N /\ a + d = Cardinality(Ended)
  BY <1>2 DEF ResultInv, CountOK
<1>5. CountOK'
  <2>1. /\ main' = "spawn" => aresps' = <<>>
        /\ main' = "collect" => Len(aresps') < N
        /\ main' = "returned" => Len(aresps') = N
    BY <1>1, <1>2, <1>4, CountAssumption
  <2>2. Len(aresps') + Len(done') = Cardinality(Ended')
    BY <1>1, <1>3, <1>4
  <2>3. ASSUME NEW g \in Ended
        PROVE  \/ \E k \in 1 .. Len(aresps') : aresps'[k].of = g
               \/ \E k \in 1 .. Len(done') : done'[k].of = g
    <3>1. CASE \E k \in 1 .. a : aresps[k].of = g
      <4>1. PICK k \in 1 .. a : aresps[k].of = g
        BY <3>1
      <4>2. k \in 1 .. a + 1
        BY <1>1
      <4> QED
        BY <1>1, <4>1, <4>2
    <3>2. CASE \E k \in 1 .. d : done[k].of = g
      <4>1. PICK k \in 1 .. d : done[k].of = g
        BY <3>2
      <4>2. CASE k = 1
        <5>1. a + 1 \in 1 .. a + 1
          BY <1>1
        <5> QED
          BY <1>1, <4>1, <4>2, <5>1
      <4>3. CASE k # 1
        <5>1. k - 1 \in 1 .. d - 1 /\ (k - 1) + 1 = k
          BY <1>1, <4>3
        <5>2. done'[k - 1].of = g
          BY <1>1, <4>1, <5>1
        <5> QED
          BY <1>1, <5>1, <5>2
      <4> QED
        BY <4>2, <4>3
    <3> QED
      BY <3>1, <3>2 DEF ResultInv, CountOK
  <2> QED
    BY <1>3, <2>1, <2>2, <2>3 DEF CountOK
<1>6. ReplyOK'
  <2>1. \A x \in Results : Truthful(x)' <=> Truthful(x)
    BY <1>2, <1>3 DEF Truthful, ReplyFits
  <2>2. ASSUME NEW k \in 1 .. a + 1 PROVE Truthful(aresps'[k])
    <3>1. k \in 1 .. a \/ k = a + 1
      BY <1>1
    <3>2. 1 \in 1 .. d
      BY <1>1
    <3>3. CASE k \in 1 .. a
      BY <1>1, <3>3 DEF ResultInv, ReplyOK
    <3>4. CASE k = a + 1
      BY <1>1, <3>2, <3>4 DEF ResultInv, ReplyOK
    <3> QED
      BY <3>1, <3>3, <3>4
  <2>3. ASSUME NEW k \in 1 .. d - 1 PROVE Truthful(done'[k])
    <3>1. k + 1 \in 1 .. d
      BY <1>1
    <3> QED
      BY <1>1, <3>1 DEF ResultInv, ReplyOK
  <2> QED
    BY <1>1, <1>2, <1>3, <2>2, <2>3 DEF ResultInv, ReplyOK, Truthful, ReplyFits
<1> QED
  BY <1>5, <1>6 DEF ResultInv

\* What Request decodes agrees with what it returns.
LEMMA ResultRequest ==
  ASSUME TypeInv, ResultInv, NEW g \in Requests, Request(g) \/ Await(g)
  PROVE  ResultInv'
<1>1. index[g] = g
  BY DEF TypeInv, IndexOK
<1>2. pc[g] \notin {"ended", "none"} =>
        reply[g] = "untouched" /\ body[g] = "none" /\ g \notin Ended
  BY DEF ResultInv, ReplyOK, Ended
<1>3. CASE Lookup(g) \/ ConfigureCommand(g) \/ Configure(g) \/ NilEncoder(g)
  <2>1. \A h \in Requests : pc'[h] = "ended" <=> pc[h] = "ended"
    BY <1>3 DEF Lookup, ConfigureCommand, Configure, NilEncoder, Go, Panic,
                TypeInv, TypeOK
  <2>2. Ended' = Ended
    BY <2>1 DEF Ended
  <2> QED
    BY <1>3, <2>2, ResultFrame
       DEF Lookup, ConfigureCommand, Configure, NilEncoder, Panic, mainVars
\* Request returns and leaves the Response alone.
<1>4. ASSUME pc[g] \notin {"ended", "none"}, UNCHANGED <<mainVars, dataVars>>,
             NEW status \in {"none", "ok", "error"}, NEW err \in BOOLEAN,
             Return(g, status, err)
      PROVE  ResultInv'
  <2>1. UNCHANGED <<kind, main, aresps, reply, body>>
    BY <1>4 DEF mainVars, dataVars
  <2>2. ReplyFits(g, err)'
    BY <1>2, <1>4, <2>1 DEF ReplyFits
  <2> QED
    BY <1>4, <2>1, <2>2, ResultReturn
<1>5. CASE Resolve(g)
  <2>1. UNCHANGED <<mainVars, dataVars>> /\ pc[g] = "resolve"
    BY <1>5 DEF Resolve
  <2>2. CASE Return(g, "none", TRUE)
    BY <1>4, <2>1, <2>2
  <2>3. CASE pc' = [pc EXCEPT ![g] = "lookup"] /\ UNCHANGED done
    <3>1. Ended' = Ended
      BY <2>1, <2>3 DEF Ended, TypeInv, TypeOK
    <3> QED
      BY <2>1, <2>3, <3>1, ResultFrame DEF mainVars
  <2> QED
    BY <1>5, <2>2, <2>3 DEF Resolve
<1>6. CASE StubAnswers(g)
  <2>1. /\ pc[g] = "resolve" /\ kind = "stub" /\ UNCHANGED <<kind, main, aresps, body>>
        /\ \A h \in Requests \ {g} : reply'[h] = reply[h]
    BY <1>1, <1>6 DEF StubAnswers, Filled, mainVars, TypeInv, TypeOK
  <2>2. CASE /\ Return(g, "error", TRUE)
             /\ \E data \in {"untouched", "garbled"} : Filled(g, data)
    <3>1. reply'[g] # "decoded"
      BY <1>1, <1>2, <2>1, <2>2 DEF Filled, TypeInv, TypeOK
    <3>2. ReplyFits(g, TRUE)'
      BY <3>1 DEF ReplyFits
    <3> QED
      BY <2>1, <2>2, <3>2, ResultReturn
  <2>3. CASE /\ \E status \in {"ok", "error"} : Return(g, status, FALSE)
             /\ \E data \in {"untouched", "decoded"} : Filled(g, data)
    <3>1. reply'[g] # "garbled"
      BY <1>1, <1>2, <2>1, <2>3 DEF Filled, TypeInv, TypeOK
    <3>2. ReplyFits(g, FALSE)'
      BY <2>1, <3>1 DEF ReplyFits
    <3> QED
      BY <2>1, <2>3, <3>2, ResultReturn
  <2> QED
    BY <1>6, <2>2, <2>3 DEF StubAnswers
<1>7. CASE TakeResponse(g)
  <2>1. pc[g] = "select" /\ UNCHANGED <<mainVars, dataVars>>
    BY <1>7 DEF TakeResponse
  <2>2. CASE Return(g, StatusOf(output[g]), FALSE)
    <3>1. StatusOf(output[g]) \in {"none", "ok", "error"}
      BY DEF StatusOf
    <3> QED
      BY <1>4, <2>1, <2>2, <3>1
  <2>3. CASE pc' = [pc EXCEPT ![g] = "reading"] /\ UNCHANGED done
    <3>1. Ended' = Ended
      BY <2>1, <2>3 DEF Ended, TypeInv, TypeOK
    <3> QED
      BY <2>1, <2>3, <3>1, ResultFrame DEF mainVars
  <2> QED
    BY <1>7, <2>2, <2>3 DEF TakeResponse
<1>8. CASE TakeError(g)
  BY <1>4, <1>8 DEF TakeError
<1>9. CASE ReadError(g)
  BY <1>4, <1>9 DEF ReadError
<1>10. ASSUME NEW b \in Bodies, ReadReply(g, b) PROVE ResultInv'
  <2>1. /\ pc[g] = "reading" /\ UNCHANGED <<kind, main, aresps>> /\ body'[g] = b
        /\ \A h \in Requests \ {g} : reply'[h] = reply[h] /\ body'[h] = body[h]
    BY <1>1, <1>10 DEF ReadReply, Filled, mainVars, TypeInv, TypeOK
  <2>2. StatusOf(output[g]) \in {"none", "ok", "error"}
    BY DEF StatusOf
  <2>3. CASE b \in {"empty", "cut"} /\ Return(g, StatusOf(output[g]), FALSE) /\ UNCHANGED reply
    <3>1. ReplyFits(g, FALSE)'
      BY <1>2, <2>1, <2>3 DEF ReplyFits
    <3> QED
      BY <2>1, <2>2, <2>3, <3>1, ResultReturn
  <2>4. CASE b = "whole" /\ Return(g, StatusOf(output[g]), FALSE) /\ Filled(g, "decoded")
    <3>1. ReplyFits(g, FALSE)'
      BY <1>1, <1>2, <2>1, <2>4 DEF ReplyFits, Filled, TypeInv, TypeOK
    <3> QED
      BY <2>1, <2>2, <2>4, <3>1, ResultReturn
  <2>5. CASE b = "cut" /\ Return(g, StatusOf(output[g]), FALSE) /\ Filled(g, "half")
    <3>1. ReplyFits(g, FALSE)'
      BY <1>1, <1>2, <2>1, <2>5 DEF ReplyFits, Filled, TypeInv, TypeOK
    <3> QED
      BY <2>1, <2>2, <2>5, <3>1, ResultReturn
  <2>6. CASE /\ b \in {"garbled", "cut"} /\ Return(g, "none", TRUE)
             /\ Filled(g, "garbled")
    <3>1. ReplyFits(g, TRUE)'
      BY <1>1, <1>2, <2>1, <2>6 DEF ReplyFits, Filled, TypeInv, TypeOK
    <3> QED
      BY <2>1, <2>6, <3>1, ResultReturn
  <2> QED
    BY <1>10, <2>3, <2>4, <2>5, <2>6 DEF ReadReply
<1> QED
  BY <1>3, <1>5, <1>6, <1>7, <1>8, <1>9, <1>10 DEF Request, Await

\* Every step keeps one true result for each request that has returned.
LEMMA ResultNext == TypeInv /\ ResultInv /\ [Next]_vars => ResultInv'
<1> SUFFICES ASSUME TypeInv, ResultInv, [Next]_vars PROVE ResultInv'
  OBVIOUS
<1>1. CASE UNCHANGED vars
  BY <1>1, ResultFrame DEF vars, mainVars, dataVars, Ended
<1>2. ASSUME NEW g \in Requests, Fatal(g) \/ Command(g) PROVE ResultInv'
  <2>1. UNCHANGED <<kind, main, aresps, pc, done, dataVars>>
    BY <1>2 DEF Fatal, NoNodes, NilType, MapRace, Panic, Command, Refuse, Admit,
                Answer, DoFails, Finish, TimerFires, mainVars
  <2> QED
    BY <2>1, ResultFrame DEF Ended
<1> QED
  BY <1>1, <1>2, ResultSpawn, ResultCollect, ResultRequest DEF Next

\* The results of a behaviour are true and there is one for each request.
THEOREM Resulting == Spec => [](TypeInv /\ ResultInv)
<1>1. Spec => []TypeInv
  BY TypeInit, TypeNext, PTL DEF Spec
<1> QED
  BY ResultInit, ResultNext, <1>1, PTL DEF Spec

\* When AsyncRequests returns it has exactly one result for each request, whatever
\* timed out, was refused, failed or overtook.
THEOREM SpecOneResultEach == Spec => []OneResultEach
<1>1. TypeInv /\ ResultInv => OneResultEach
  <2> SUFFICES ASSUME TypeInv, ResultInv, main = "returned"
               PROVE  /\ Len(aresps) = N
                      /\ \A i \in Requests : \E k \in 1 .. Len(aresps) : aresps[k].of = i
    BY DEF OneResultEach
  <2>1. Len(aresps) = N /\ N + Len(done) = Cardinality(Ended)
    BY DEF ResultInv, CountOK
  <2>2. Len(done) \in Nat
    BY LenProperties DEF TypeInv, TypeOK
  <2>3. Ended \in SUBSET Requests
    BY DEF Ended
  <2>4. Cardinality(Ended) <= N /\ (Cardinality(Ended) = N => Ended = Requests)
    BY <2>3, EndedFinite, FS_Subset
  <2>5. Len(done) = 0 /\ Ended = Requests
    BY <2>1, <2>2, <2>4, CountAssumption
  <2> QED
    BY <2>1, <2>5 DEF ResultInv, CountOK
<1> QED
  BY <1>1, Resulting, PTL

\* A request that reports an error never has its whole reply, not even later, and
\* one that reports none has what its server sent, unless that was cut off.
THEOREM SpecResultMatchesReply == Spec => []ResultMatchesReply
<1>1. ResultInv => ResultMatchesReply
  BY DEF ResultInv, ReplyOK, Truthful, ResultMatchesReply
<1> QED
  BY <1>1, Resulting, PTL
-----------------------------------------------------------------------------
(* Contracts *)

\* A set of numbers has a smallest one.
LEMMA MinIs ==
  ASSUME NEW S \in SUBSET Nat, S # {}
  PROVE  Min(S) \in S /\ \A y \in S : Min(S) <= y
<1>1. IsWellFoundedOn({ss \in Nat \X Nat : ss[1] < ss[2]}, Nat)
  BY NatLessThanWellFounded DEF OpToRel
<1>2. PICK x \in S : \A y \in S : ~ (<<y, x>> \in {ss \in Nat \X Nat : ss[1] < ss[2]})
  BY <1>1, WFMin
<1>3. \A y \in S : ~ (y < x)
  BY <1>2
<1>4. \E z \in S : \A y \in S : z <= y
  BY <1>3
<1> QED
  BY <1>4 DEF Min

\* Contracts and their interactions are numbered.
LEMMA ListsAre ==
  ASSUME NEW cs \in Contracts
  PROVE  /\ DOMAIN cs \subseteq Nat
         /\ \A k \in DOMAIN cs : DOMAIN cs[k].interactions \subseteq Nat
<1>1. cs \in Seq(ToSet(cs)) /\ \A k \in DOMAIN cs :
        cs[k].interactions \in Seq(ToSet(cs[k].interactions))
  BY ContractsAssumption DEF IsList
<1>2. \A S, s : s \in Seq(S) => DOMAIN s \subseteq Nat
  OBVIOUS
<1> QED
  BY <1>1, <1>2, Zenon

\* A request of a contract that has passed was answered as it expects.
LEMMA Tested ==
  ASSUME NEW cs \in Contracts, NEW p \in Providers, NEW k \in DOMAIN cs,
         Passes(cs[k], RealReturns(p, cs[k])),
         NEW i \in Requesting(cs[k]), cs[k].interactions[i].publish = None
  PROVE  p[CallOf(cs[k], i)] = [status |-> cs[k].interactions[i].response.status,
                                err |-> FALSE]
<1>1. PICK inter, answer : inter = cs[k].interactions[i] /\ answer = p[CallOf(cs[k], i)]
  OBVIOUS
<1>2. i \in DOMAIN cs[k].interactions /\ inter.request # None /\ inter.publish = None
  BY <1>1 DEF Requesting
<1>3. RealReturns(p, cs[k])[i] = answer
  BY <1>1, <1>2 DEF RealReturns
<1> QED
  BY <1>1, <1>2, <1>3 DEF Passes

\* The stub client gives the answer of one interaction, which is alike to the call
\* and was tested, or an error.
LEMMA Agrees == StubAgrees
<1> DEFINE Expects(cs, q) == cs[q[1]].interactions[q[2]].response.status
<1> SUFFICES ASSUME NEW cs \in Contracts, NEW p \in Providers,
                    \A k \in DOMAIN cs :
                      /\ Passes(cs[k], RealReturns(p, cs[k]))
                      /\ \A i \in Requesting(cs[k]) : cs[k].interactions[i].publish = None,
                    NEW k \in DOMAIN cs, NEW i \in Requesting(cs[k]),
                    NEW x, x = CallOf(cs[k], i),
                    NEW stub,
                    stub = StubRequest(cs, x[1], x[2].method, x[2].body, x[2].object)
             PROVE  \/ stub.err
                    \/ /\ \E q \in Kin(cs, x) : stub = p[CallOf(cs[q[1]], q[2])]
                       /\ (\A q \in Kin(cs, x) : Expects(cs, q) = Expects(cs, <<k, i>>))
                            => stub = p[x]
  BY DEF StubAgrees
<1>0. PICK r : x = <<cs[k].provider, r>>
  BY DEF CallOf
<1> DEFINE found == {j \in DOMAIN cs : /\ cs[j].provider = cs[k].provider
                                       /\ Requesting(cs[j]) # {}}
<1>1. Min(found) \in found
  <2>1. found \in SUBSET Nat /\ k \in found
    BY ListsAre
  <2> HIDE DEF found
  <2> QED
    BY <2>1, MinIs
<1>2. PICK l \in DOMAIN cs : l = Min(found) /\ Requesting(cs[l]) # {}
  BY <1>1
<1>3. Min(Requesting(cs[l])) \in Requesting(cs[l])
  <2>1. Requesting(cs[l]) \in SUBSET Nat
    BY ListsAre DEF Requesting
  <2> QED
    BY <1>2, <2>1, MinIs
<1>4. PICK j \in Requesting(cs[l]) : j = Min(Requesting(cs[l]))
  BY <1>3
<1>5. PICK inter : inter = cs[l].interactions[j]
  OBVIOUS
<1>6. stub = Answered(inter, r.method, r.body, r.object)
  <2>1. k \in found
    OBVIOUS
  <2>2. found # {}
    BY <2>1
  <2> QED
    BY <1>0, <1>2, <1>4, <1>5, <2>2 DEF StubRequest
<1>7. CASE stub = Refused
  BY <1>7 DEF Refused
<1>8. CASE /\ inter.request.method = r.method
           /\ TypeName(r.body) = TypeName(inter.request.body)
           /\ TypeName(r.object) = TypeName(inter.request.object)
           /\ stub = [status |-> inter.response.status, err |-> FALSE]
  <2>1. cs[l].provider = cs[k].provider
    BY <1>1, <1>2
  <2>2. Alike(CallOf(cs[l], j), x)
    <3>1. CallOf(cs[l], j) = <<cs[l].provider, inter.request>>
      BY <1>5 DEF CallOf
    <3> QED
      BY <1>0, <1>8, <2>1, <3>1 DEF Alike
  <2> DEFINE q == <<l, j>>
  <2>3. q[1] = l /\ q[2] = j
    OBVIOUS
  <2>4. q \in Kin(cs, x)
    BY <2>2 DEF Kin
  <2> HIDE DEF q
  <2>5. p[CallOf(cs[l], j)] = [status |-> inter.response.status, err |-> FALSE]
    BY <1>5, Tested
  <2>6. stub = p[CallOf(cs[q[1]], q[2])]
    BY <1>8, <2>3, <2>5
  <2>7. p[x] = [status |-> cs[k].interactions[i].response.status, err |-> FALSE]
    BY Tested
  <2>8. ASSUME \A z \in Kin(cs, x) : Expects(cs, z) = Expects(cs, <<k, i>>)
        PROVE  stub = p[x]
    <3>1. Expects(cs, q) = Expects(cs, <<k, i>>)
      BY <2>4, <2>8
    <3>2. inter.response.status = cs[k].interactions[i].response.status
      BY <1>5, <2>3, <3>1
    <3> QED
      BY <1>8, <2>7, <3>2
  <2> QED
    BY <2>4, <2>6, <2>8
<1> QED
  BY <1>6, <1>7, <1>8 DEF Answered

\* Whether interaction j tells of the topic, and what decides about a message: the
\* first interaction that does.
Told(c, topic, j) ==
  c.interactions[j].publish # None /\ c.interactions[j].publish.topic = topic

TakenBy(c, topic, v, j) ==
  /\ Told(c, topic, j)
  /\ \A l \in DOMAIN c.interactions : Told(c, topic, l) => j <= l
  /\ TypeName(v) = TypeName(c.interactions[j].publish.message)

\* The stub client of one contract and messages.
LEMMA OwnPublish ==
  ASSUME NEW c, DOMAIN c.interactions \subseteq Nat, NEW topic, NEW v
  PROVE  StubPublishes(<<c>>, topic, v) <=>
           \E j \in DOMAIN c.interactions : TakenBy(c, topic, v, j)
<1> DEFINE cs == <<c>>
           places == UNION {{k} \X DOMAIN cs[k].interactions : k \in DOMAIN cs}
           At(p)  == cs[p[1]].interactions[p[2]].publish
           found  == {p \in places : At(p) # None /\ At(p).topic = topic}
           first(p) == \A q \in found : p[1] < q[1] \/ (p[1] = q[1] /\ p[2] <= q[2])
<1>1. StubPublishes(<<c>>, topic, v) <=>
        \E p \in found : first(p) /\ TypeName(v) = TypeName(At(p).message)
  BY DEF StubPublishes
<1>2. DOMAIN cs = {1} /\ cs[1] = c
  OBVIOUS
<1>3. places = {1} \X DOMAIN c.interactions
  <2> HIDE DEF cs
  <2> QED
    BY <1>2
<1>4. \A j \in DOMAIN c.interactions : /\ At(<<1, j>>) = c.interactions[j].publish
                                       /\ <<1, j>> \in found <=> Told(c, topic, j)
  <2> HIDE DEF cs, places
  <2> QED
    BY <1>2, <1>3 DEF Told
<1>5. \A p \in found : \E j \in DOMAIN c.interactions : p = <<1, j>> /\ Told(c, topic, j)
  <2>1. \A p \in found : \E j \in DOMAIN c.interactions : p = <<1, j>>
    <3> HIDE DEF places, cs
    <3> QED
      BY <1>3
  <2> HIDE DEF found, cs
  <2> QED
    BY <2>1, <1>4
<1> HIDE DEF found, At, cs
<1>6. ASSUME NEW j \in DOMAIN c.interactions
      PROVE  first(<<1, j>>) <=> \A l \in DOMAIN c.interactions : Told(c, topic, l) => j <= l
  <2>1. \A l \in DOMAIN c.interactions : <<1, l>>[1] = 1 /\ <<1, l>>[2] = l
    OBVIOUS
  <2>2. ASSUME first(<<1, j>>), NEW l \in DOMAIN c.interactions, Told(c, topic, l) PROVE j <= l
    <3>1. <<1, l>> \in found
      BY <1>4, <2>2
    <3> QED
      BY <2>2, <3>1
  <2>3. ASSUME \A l \in DOMAIN c.interactions : Told(c, topic, l) => j <= l, NEW q \in found
        PROVE  <<1, j>>[1] = q[1] /\ <<1, j>>[2] <= q[2]
    BY <1>5, <2>3
  <2> QED
    BY <2>2, <2>3
<1>7. ASSUME NEW j \in DOMAIN c.interactions
      PROVE  TakenBy(c, topic, v, j) <=>
               /\ <<1, j>> \in found
               /\ first(<<1, j>>) /\ TypeName(v) = TypeName(At(<<1, j>>).message)
  BY <1>4, <1>6 DEF TakenBy
<1> HIDE DEF first
<1>8. (\E p \in found : first(p) /\ TypeName(v) = TypeName(At(p).message))
        <=> \E j \in DOMAIN c.interactions : TakenBy(c, topic, v, j)
  BY <1>5, <1>7
<1> QED
  BY <1>1, <1>8

\* The stub client of one contract and requests: the first request decides.
LEMMA OwnRequest ==
  ASSUME NEW c, DOMAIN c.interactions \subseteq Nat, Requesting(c) # {},
         NEW method, NEW reqv, NEW respv
  PROVE  StubRequest(<<c>>, c.provider, method, reqv, respv)
           = Answered(c.interactions[Min(Requesting(c))], method, reqv, respv)
<1> DEFINE cs == <<c>>
           found == {k \in DOMAIN cs : cs[k].provider = c.provider /\ Requesting(cs[k]) # {}}
<1>1. DOMAIN cs = {1} /\ cs[1] = c
  OBVIOUS
<1>2. found = {1}
  <2> HIDE DEF cs
  <2> QED
    BY <1>1
<1>3. Min(found) = 1
  BY <1>2, MinIs
<1>4. StubRequest(cs, c.provider, method, reqv, respv)
        = Answered(cs[Min(found)].interactions[Min(Requesting(cs[Min(found)]))],
                   method, reqv, respv)
  <2> HIDE DEF cs
  <2> QED
    BY <1>2 DEF StubRequest
<1> QED
  BY <1>1, <1>3, <1>4

\* When the first request's answer is the one an interaction expects.
RequestFits(inter, first) ==
  /\ inter.response # None /\ first.response # None
  /\ inter.request.method = first.request.method
  /\ TypeName(inter.request.body) = TypeName(first.request.body)
  /\ TypeName(inter.request.object) = TypeName(first.request.object)
  /\ inter.response.status = first.response.status
  /\ ~first.response.error /\ first.response.encodes

\* An answer of the first request is the one expected just when the request fits.
LEMMA FitsIs ==
  ASSUME NEW inter, NEW first, NEW r,
         r = Answered(first, inter.request.method, inter.request.body, inter.request.object)
  PROVE  RequestFits(inter, first) <=>
           /\ inter.response # None
           /\ r = [status |-> inter.response.status, err |-> FALSE]
<1>1. Refused # [status |-> inter.response.status, err |-> FALSE]
  BY DEF Refused
<1>2. [status |-> first.response.status, err |-> FALSE]
        = [status |-> inter.response.status, err |-> FALSE]
      <=> inter.response.status = first.response.status
  OBVIOUS
<1> QED
  BY <1>1, <1>2 DEF RequestFits, Answered

\* When the answers to requests and messages are those a contract expects.
Fits(c, pubs, first) ==
  /\ \A i \in Requesting(c) \ pubs : RequestFits(c.interactions[i], first)
  /\ \A i \in pubs : \E j \in pubs :
       /\ \A l \in pubs : c.interactions[l].publish.topic
                          = c.interactions[i].publish.topic => j <= l
       /\ c.interactions[j].publish.topic = c.interactions[i].publish.topic
       /\ TypeName(c.interactions[j].publish.message)
            = TypeName(c.interactions[i].publish.message)

\* The error of a stub's answer to a message, read back.
LEMMA ErrIs ==
  ASSUME NEW r, NEW taken, r = [err |-> ~taken]
  PROVE  ~r.err <=> taken
<1>1. r.err = ~taken
  OBVIOUS
<1> QED
  BY <1>1

\* The stub client of one contract serves it just when its answers fit: the first
\* request's answer is each request's, the first message's type each message's.
LEMMA ServesOne ==
  ASSUME NEW c, DOMAIN c.interactions \subseteq Nat,
         NEW pubs, pubs = {i \in DOMAIN c.interactions : c.interactions[i].publish # None},
         NEW first, first = c.interactions[Min(Requesting(c))]
  PROVE  Passes(c, StubReturns(<<c>>, c)) <=> Fits(c, pubs, first)
<1> DEFINE returned == StubReturns(<<c>>, c)
<1>2. ASSUME NEW i \in pubs
      PROVE  ~returned[i].err <=>
               \E j \in pubs :
                 /\ \A l \in pubs : c.interactions[l].publish.topic
                                      = c.interactions[i].publish.topic => j <= l
                 /\ c.interactions[j].publish.topic = c.interactions[i].publish.topic
                 /\ TypeName(c.interactions[j].publish.message)
                      = TypeName(c.interactions[i].publish.message)
  <2>1. PICK topic, v : /\ topic = c.interactions[i].publish.topic
                        /\ v = c.interactions[i].publish.message
    OBVIOUS
  <2>2. i \in DOMAIN c.interactions /\ c.interactions[i].publish # None
    OBVIOUS
  <2>3. returned[i] = [err |-> ~StubPublishes(<<c>>, topic, v)]
    BY <2>1, <2>2 DEF StubReturns
  <2>4. ~returned[i].err <=> StubPublishes(<<c>>, topic, v)
    <3> HIDE DEF returned
    <3> QED
      BY <2>3, ErrIs
  <2>5. StubPublishes(<<c>>, topic, v) <=>
          \E j \in DOMAIN c.interactions : TakenBy(c, topic, v, j)
    BY OwnPublish
  <2> HIDE DEF returned
  <2> QED
    BY <2>1, <2>4, <2>5 DEF TakenBy, Told
<1>3. ASSUME NEW i \in Requesting(c) \ pubs
      PROVE  RequestFits(c.interactions[i], first) <=>
               /\ c.interactions[i].response # None
               /\ returned[i] = [status |-> c.interactions[i].response.status, err |-> FALSE]
  <2>1. PICK inter : inter = c.interactions[i]
    OBVIOUS
  <2>2. i \in DOMAIN c.interactions /\ inter.publish = None /\ inter.request # None
    BY <2>1 DEF Requesting
  <2>3. returned[i] = StubRequest(<<c>>, c.provider, inter.request.method,
                                  inter.request.body, inter.request.object)
    BY <2>1, <2>2 DEF StubReturns
  <2>4. returned[i] = Answered(first, inter.request.method, inter.request.body,
                               inter.request.object)
    BY <2>3, OwnRequest
  <2> HIDE DEF returned
  <2> QED
    BY <2>1, <2>4, FitsIs
<1>4. Requesting(c) = {i \in DOMAIN c.interactions : c.interactions[i].request # None}
  BY DEF Requesting
<1> HIDE DEF returned
<1>5. Passes(c, returned) <=>
        /\ \A i \in pubs : ~returned[i].err
        /\ \A i \in Requesting(c) \ pubs :
             /\ c.interactions[i].response # None
             /\ returned[i] = [status |-> c.interactions[i].response.status, err |-> FALSE]
  BY <1>4 DEF Passes
<1> QED
  BY <1>2, <1>3, <1>5 DEF returned, Fits

\* Which contracts the stub client serves wholly, for all lists of contracts.
LEMMA Serves == OwnStubServes
<1>1. ASSUME NEW cs \in Contracts, NEW k \in DOMAIN cs, NEW c, c = cs[k]
      PROVE  Passes(c, StubReturns(<<c>>, c)) <=>
               Fits(c, {i \in DOMAIN c.interactions : c.interactions[i].publish # None},
                    c.interactions[Min(Requesting(c))])
  BY <1>1, ListsAre, ServesOne
<1> QED
  BY <1>1 DEF OwnStubServes, Fits, RequestFits

\* What a consumer is told by the stub client is what the provider was seen to
\* answer to a call alike to its own, or an error, whatever the contracts, their interactions and the providers; and
\* it serves just the contracts whose requests all have the first one's answer.
THEOREM SpecContractsAgree == Spec => []ContractsAgree
<1>1. ContractsAgree
  BY Agrees, Serves DEF ContractsAgree, Agree
<1> QED
  BY <1>1, PTL
=============================================================================
