------------------------------- MODULE Client -------------------------------
(***************************************************************************)
(* The client: one call of AsyncRequests, the goroutines it starts and     *)
(* Request in each of them, for the three kinds of client: one with a URL, *)
(* one with a registry, and the stub client that answers from contracts    *)
(* (Contract), whose AsyncRequests is the same code.                       *)
(*                                                                         *)
(* The circuit breaker (hystrix-go), the HTTP client and the server are    *)
(* outside the repository.  hystrix.Go refuses a command or runs its       *)
(* function in a goroutine of its own, and a timer may report an error     *)
(* while that function runs on.  The function ends with the headers of the *)
(* response: its body is read by Request, under no timeout.                *)
(***************************************************************************)
EXTENDS Contract, Naturals, Sequences

CONSTANTS
  N,          \* len(as)
  Service,    \* Service[i] = as[i].Service
  NoResponse, \* the i whose as[i].Response is nil
  EmptyDirs,  \* the registry may know a service without nodes
  Configured  \* services earlier requests of this client were for

Requests == 1 .. N

ASSUME CountAssumption == N \in Nat
ASSUME ServiceAssumption == DOMAIN Service = Requests
ASSUME NoResponseAssumption == NoResponse \subseteq Requests
ASSUME EmptyDirsAssumption == EmptyDirs \in BOOLEAN

VARIABLES
  kind,          \* of client: "direct" from New, "registry" from NewWithRegistry
                 \* or "stub"
  main,          \* where AsyncRequests is
  spawned,       \* goroutines it has started
  pc,            \* where each of them is
  index,         \* the request it was started for
  hystrixConfig, \* services the client has configured the command of
  settings,      \* services hystrix has settings for
  run,           \* the function passed to hystrix.Go
  timer,         \* whether the breaker's timer can still fire
  output,        \* the response in the channel output or, once taken, in
                 \* Request's hands, or "none"
  failed,        \* errChan holds an error
  reply,         \* what was decoded into as[i].Response
  body,          \* history: what was read of the response's body
  done,          \* the channel done
  aresps,        \* the results AsyncRequests has received
  crash          \* what ended the process, "none" while it runs

mainVars == <<kind, main, spawned, index, aresps>>
confVars == <<hystrixConfig, settings>>
cmdVars  == <<run, timer, output, failed>>
dataVars == <<reply, body>>
vars == <<mainVars, pc, confVars, cmdVars, dataVars, done, crash>>

-----------------------------------------------------------------------------
\* A response by its headers: status 200, or another with an error as respError
\* writes it, JSON for an errors.Error, else text, or with another Content-Type.
Responses == {"ok", "custom", "text", "other"}

\* A body by what the encoder makes of it: nothing to decode, the whole reply,
\* something it refuses, or the beginning of a reply that was cut off.
Bodies == {"empty", "whole", "garbled", "cut"}

\* A result of Request: the status is "none" for 0, "ok" for 200 and "error"
\* for any other.  The request it is for is not part of the program's value.
Results == [of: Requests, status: {"none", "ok", "error"}, err: BOOLEAN]

Result(i, status, err) == [of |-> i, status |-> status, err |-> err]

StatusOf(resp) == IF resp = "ok" THEN "ok" ELSE "error"

Init ==
  /\ kind \in {"direct", "registry", "stub"}
  /\ main = "spawn"
  /\ spawned = 0
  /\ pc = [g \in Requests |-> "none"]
  /\ index = [g \in Requests |-> g]
  /\ hystrixConfig = Configured
  /\ settings = Configured
  /\ run = [g \in Requests |-> "none"]
  /\ timer = [g \in Requests |-> FALSE]
  /\ output = [g \in Requests |-> "none"]
  /\ failed = [g \in Requests |-> FALSE]
  /\ reply = [i \in Requests |-> "untouched"]
  /\ body = [i \in Requests |-> "none"]
  /\ done = <<>>
  /\ aresps = <<>>
  /\ crash = "none"

-----------------------------------------------------------------------------
(* AsyncRequests *)

\* Mutant: the goroutines read the variable of the loop.
Started_SharedIndex(g) == \E i \in g .. N : index' = [index EXCEPT ![g] = i]

\* The goroutine gets the index of its request as an argument.
Started(g) == index' = [index EXCEPT ![g] = g]

\* Mutant: the loop runs once more.
Spawn_OneMore ==
  LET g == spawned + 1 IN
  /\ main = "spawn"
  /\ spawned' = g
  /\ pc' = IF g <= N THEN [pc EXCEPT ![g] = "resolve"] ELSE pc
  /\ main' = IF g > N THEN "collect" ELSE "spawn"
  /\ UNCHANGED <<kind, index, aresps, confVars, cmdVars, dataVars, done, crash>>

Spawn ==
  LET g == spawned + 1 IN
  /\ main = "spawn"
  /\ g <= N
  /\ spawned' = g
  /\ pc' = [pc EXCEPT ![g] = "resolve"]
  /\ Started(g)
  /\ main' = IF g = N THEN "collect" ELSE "spawn"
  /\ UNCHANGED <<kind, aresps, confVars, cmdVars, dataVars, done, crash>>

\* Results come in the order in which the requests ended.
Collect ==
  /\ main = "collect"
  /\ done # <<>>
  /\ aresps' = Append(aresps, Head(done))
  /\ done' = Tail(done)
  /\ main' = IF Len(aresps) + 1 = N THEN "returned" ELSE "collect"
  /\ UNCHANGED <<kind, spawned, index, pc, confVars, cmdVars, dataVars,
                 crash>>

-----------------------------------------------------------------------------
(* Request *)

\* Request returns in goroutine g, which reports to AsyncRequests.
Return(g, status, err) ==
  /\ pc' = [pc EXCEPT ![g] = "ended"]
  /\ done' = Append(done, Result(index[g], status, err))

Panic(cause) ==
  /\ crash' = cause
  /\ UNCHANGED <<mainVars, pc, confVars, cmdVars, dataVars, done>>

\* GetAddress and the building of the request; the registry, the encoder and
\* http.NewRequest may return an error.
Resolve(g) ==
  /\ pc[g] = "resolve" /\ kind # "stub"
  /\ \/ /\ pc' = [pc EXCEPT ![g] = "lookup"]
        /\ UNCHANGED done
     \/ Return(g, "none", TRUE)
  /\ UNCHANGED <<mainVars, confVars, cmdVars, dataVars, crash>>

\* The Response of the caller, unless that is nil.
Filled(g, data) ==
  reply' = [reply EXCEPT ![index[g]] = IF index[g] \in NoResponse THEN @ ELSE data]

\* Request of the stub client returns at once: 500, perhaps after a body it
\* could not decode, or the status of a contract, with a body or without.
StubAnswers(g) ==
  /\ pc[g] = "resolve" /\ kind = "stub"
  /\ \/ /\ Return(g, "error", TRUE)
        /\ \E data \in {"untouched", "garbled"} : Filled(g, data)
     \/ /\ index[g] \notin NoResponse
        /\ \E status \in {"ok", "error"} : Return(g, status, FALSE)
        /\ \E data \in {"untouched", "decoded"} : Filled(g, data)
  /\ UNCHANGED <<mainVars, confVars, cmdVars, body, crash>>

\* The stub client asks for the name of the type of Response, which may be nil.
NilType(g) ==
  /\ pc[g] = "resolve" /\ kind = "stub"
  /\ index[g] \in NoResponse
  /\ Panic("nilType")

\* rand.Int() % len(s.Nodes) of a service without nodes.
NoNodes(g) ==
  /\ kind = "registry" /\ EmptyDirs
  /\ pc[g] = "resolve"
  /\ Panic("noNodes")

\* hystrix.Go starts the command and its timer.
Go(g) ==
  /\ pc' = [pc EXCEPT ![g] = "select"]
  /\ run' = [run EXCEPT ![g] = "queued"]
  /\ timer' = [timer EXCEPT ![g] = TRUE]

Lookup(g) ==
  /\ pc[g] = "lookup"
  /\ \/ /\ Service[index[g]] \in hystrixConfig
        /\ Go(g)
     \/ /\ Service[index[g]] \notin hystrixConfig
        /\ pc' = [pc EXCEPT ![g] = "config"]
        /\ UNCHANGED <<run, timer>>
  /\ UNCHANGED <<mainVars, confVars, output, failed, dataVars, done, crash>>

\* Mutant: the map is written before hystrix has the settings.
ConfigureCommand_MapFirst(g) ==
  /\ pc[g] = "config"
  /\ pc' = [pc EXCEPT ![g] = "store"]
  /\ hystrixConfig' = hystrixConfig \cup {Service[index[g]]}
  /\ UNCHANGED <<mainVars, settings, cmdVars, dataVars, done, crash>>

ConfigureCommand(g) ==
  /\ pc[g] = "config"
  /\ pc' = [pc EXCEPT ![g] = "store"]
  /\ settings' = settings \cup {Service[index[g]]}
  /\ UNCHANGED <<mainVars, hystrixConfig, cmdVars, dataVars, done, crash>>

Configure(g) ==
  /\ pc[g] = "store"
  /\ hystrixConfig' = hystrixConfig \cup {Service[index[g]]}
  /\ Go(g)
  /\ UNCHANGED <<mainVars, settings, output, failed, dataVars, done, crash>>

\* hystrixConfig has no lock: when the runtime notices an access to the map
\* beside a write, it ends the process.
MapRace(g, h) ==
  /\ g # h
  /\ pc[g] \in {"lookup", "store"}
  /\ pc[h] = "store"
  /\ Panic("mapRace")

-----------------------------------------------------------------------------
(* The circuit breaker, the HTTP client and the server *)

\* The circuit is open or all tickets are taken.
Refuse(g) ==
  /\ run[g] = "queued"
  /\ run' = [run EXCEPT ![g] = "ended"]
  /\ failed' = [failed EXCEPT ![g] = TRUE]
  /\ timer' = [timer EXCEPT ![g] = FALSE]
  /\ UNCHANGED <<mainVars, pc, confVars, output, dataVars, done, crash>>

Admit(g) ==
  /\ run[g] = "queued"
  /\ run' = [run EXCEPT ![g] = "running"]
  /\ UNCHANGED <<mainVars, pc, confVars, timer, output, failed, dataVars,
                 done, crash>>

\* Mutant: the function reads and decodes the body as well.
Answer_Decodes(g, resp) ==
  /\ run[g] = "running"
  /\ run' = [run EXCEPT ![g] = "ended"]
  /\ output' = [output EXCEPT ![g] = resp]
  /\ body' = [body EXCEPT ![index[g]] = "whole"]
  /\ Filled(g, "decoded")
  /\ UNCHANGED <<mainVars, pc, confVars, timer, failed, done, crash>>

\* client.Do returned a response, its body yet to come, perhaps after the timer
\* fired.
Answer(g, resp) ==
  /\ run[g] = "running"
  /\ run' = [run EXCEPT ![g] = "ended"]
  /\ output' = [output EXCEPT ![g] = resp]
  /\ UNCHANGED <<mainVars, pc, confVars, timer, failed, dataVars, done, crash>>

\* client.Do returned an error, which is dropped once the timer has fired.
DoFails(g) ==
  /\ run[g] = "running"
  /\ run' = [run EXCEPT ![g] = "ended"]
  /\ failed' = [failed EXCEPT ![g] = TRUE]
  /\ timer' = [timer EXCEPT ![g] = FALSE]
  /\ UNCHANGED <<mainVars, pc, confVars, output, dataVars, done, crash>>

\* The breaker learns that the function returned.
Finish(g) ==
  /\ run[g] = "ended"
  /\ timer[g]
  /\ timer' = [timer EXCEPT ![g] = FALSE]
  /\ UNCHANGED <<mainVars, pc, confVars, run, output, failed, dataVars,
                 done, crash>>

\* The timeout, perhaps beside a response that has just come.
TimerFires(g) ==
  /\ timer[g]
  /\ timer' = [timer EXCEPT ![g] = FALSE]
  /\ failed' = [failed EXCEPT ![g] = TRUE]
  /\ UNCHANGED <<mainVars, pc, confVars, run, output, dataVars, done, crash>>

-----------------------------------------------------------------------------
(* The select at the end of Request *)

\* Without a Response the caller gets the status and never an error.  Else the
\* body is read, for as long as it takes.
TakeResponse(g) ==
  /\ pc[g] = "select"
  /\ output[g] # "none"
  /\ \/ /\ index[g] \in NoResponse
        /\ Return(g, StatusOf(output[g]), FALSE)
        /\ output' = [output EXCEPT ![g] = "none"]
     \/ /\ index[g] \notin NoResponse
        /\ pc' = [pc EXCEPT ![g] = "reading"]
        /\ UNCHANGED <<output, done>>
  /\ UNCHANGED <<mainVars, confVars, run, timer, failed, dataVars, crash>>

\* The body of an error has come, or what there is of it.
ReadError(g) ==
  /\ pc[g] = "reading"
  /\ output[g] = "text" \/ (output[g] = "custom" /\ kind = "direct")
  /\ Return(g, "error", TRUE)
  /\ output' = [output EXCEPT ![g] = "none"]
  /\ UNCHANGED <<mainVars, confVars, run, timer, failed, dataVars, crash>>

\* A client built by NewWithRegistry has no jsonEncoder.
NilEncoder(g) ==
  /\ kind = "registry"
  /\ pc[g] = "reading"
  /\ output[g] = "custom"
  /\ Panic("nilEncoder")

\* What came of any other body is decoded.  The error of a body that was cut off
\* is dropped: nothing may have come of it, or so much that the encoder takes it
\* for a reply.  The status may be an error all the same.
ReadReply(g, b) ==
  /\ pc[g] = "reading"
  /\ output[g] \in {"ok", "other"}
  /\ body' = [body EXCEPT ![index[g]] = b]
  /\ \/ b \in {"empty", "cut"} /\ Return(g, StatusOf(output[g]), FALSE) /\ UNCHANGED reply
     \/ b = "whole" /\ Return(g, StatusOf(output[g]), FALSE) /\ Filled(g, "decoded")
     \/ b = "cut" /\ Return(g, StatusOf(output[g]), FALSE) /\ Filled(g, "half")
     \/ b \in {"garbled", "cut"} /\ Return(g, "none", TRUE) /\ Filled(g, "garbled")
  /\ output' = [output EXCEPT ![g] = "none"]
  /\ UNCHANGED <<mainVars, confVars, run, timer, failed, crash>>

\* Mutant: the error is looked at once the function has returned.
TakeError_AfterRun(g) ==
  /\ pc[g] = "select"
  /\ failed[g] /\ run[g] = "ended"
  /\ Return(g, "none", TRUE)
  /\ UNCHANGED <<mainVars, confVars, cmdVars, dataVars, crash>>

\* A response that came as well stays in output, its body open.
TakeError(g) ==
  /\ pc[g] = "select"
  /\ failed[g]
  /\ Return(g, "none", TRUE)
  /\ UNCHANGED <<mainVars, confVars, cmdVars, dataVars, crash>>

-----------------------------------------------------------------------------
\* What goroutine g does by itself.
Request(g) ==
  \/ kind = "direct" /\ Resolve(g)
  \/ StubAnswers(g)
  \/ Lookup(g)
  \/ ConfigureCommand(g)
  \/ Configure(g)
  \/ TakeResponse(g)
  \/ TakeError(g)

\* Where it waits for others without limit: the lookup of a registry and the
\* body of a response.
Await(g) ==
  \/ kind = "registry" /\ Resolve(g)
  \/ ReadError(g)
  \/ NilEncoder(g)
  \/ \E b \in Bodies : ReadReply(g, b)

\* What the registry or the scheduler may do to it.
Fatal(g) ==
  \/ NoNodes(g)
  \/ NilType(g)
  \/ \E h \in Requests : MapRace(g, h)

Command(g) ==
  \/ Refuse(g)
  \/ Admit(g)
  \/ \E resp \in Responses : Answer(g, resp)
  \/ DoFails(g)
  \/ Finish(g)
  \/ TimerFires(g)

Next ==
  /\ crash = "none"
  /\ \/ Spawn
     \/ Collect
     \/ \E g \in Requests : Request(g) \/ Await(g) \/ Fatal(g) \/ Command(g)

Spec == Init /\ [][Next]_vars

\* The runtime runs the goroutines and the timer fires.  Servers may never
\* answer, or never end their answers, and registries neither.
FairSpec ==
  /\ Spec
  /\ WF_vars(crash = "none" /\ (Spawn \/ Collect))
  /\ \A g \in Requests : /\ WF_vars(crash = "none" /\ Request(g))
                         /\ WF_vars(crash = "none" /\ TimerFires(g))

-----------------------------------------------------------------------------
(* Properties *)

TypeOK ==
  /\ kind \in {"direct", "registry", "stub"}
  /\ main \in {"spawn", "collect", "returned"}
  /\ spawned \in 0 .. N
  /\ pc \in [Requests -> {"none", "resolve", "lookup", "config", "store",
                          "select", "reading", "ended"}]
  /\ index \in [Requests -> Requests]
  /\ run \in [Requests -> {"none", "queued", "running", "ended"}]
  /\ timer \in [Requests -> BOOLEAN]
  /\ output \in [Requests -> Responses \cup {"none"}]
  /\ failed \in [Requests -> BOOLEAN]
  /\ reply \in [Requests -> {"untouched", "decoded", "half", "garbled"}]
  /\ body \in [Requests -> Bodies \cup {"none"}]
  /\ done \in Seq(Results)
  /\ aresps \in Seq(Results)
  /\ crash \in {"none", "noNodes", "mapRace", "nilEncoder", "nilType"}

\* When AsyncRequests returns it has one result for each request, whatever
\* timed out, was refused or failed, and none twice.
OneResultEach ==
  main = "returned" =>
    /\ Len(aresps) = N
    /\ \A i \in Requests : \E k \in 1 .. Len(aresps) : aresps[k].of = i

\* What Request leaves in a Response beside an error, or beside none.
ReplyFits(i, err) ==
  IF err THEN reply[i] # "decoded"
  ELSE /\ reply[i] # "garbled"
       /\ kind # "stub" /\ i \notin NoResponse =>
            /\ reply[i] = "decoded" <=> body[i] = "whole"
            /\ reply[i] = "half" => body[i] = "cut"

\* A request that reports an error does not have its reply, and never will: a
\* response that loses against the timer is not decoded later.  One that reports
\* none has decoded what its server sent, whole, unless the body was cut off:
\* then half a reply, or none, passes for an answer.
ResultMatchesReply ==
  \A k \in 1 .. Len(aresps) : ReplyFits(aresps[k].of, aresps[k].err)

\* No request goes through the breaker with the settings hystrix has for
\* services nobody configured, though a request that finds its service in the
\* map relies on another goroutine for them; and the unguarded map ends the
\* process only while a service is configured for the first time.
RunsConfigured ==
  /\ \A g \in Requests : run[g] # "none" => Service[index[g]] \in settings
  /\ crash = "mapRace" =>
       \E h \in Requests : pc[h] = "store" /\ Service[index[h]] \notin Configured

\* Consumers that test against the stub client are told what providers were
\* tested for, and it serves wholly the contracts that keep to one request.
ContractsAgree == kind = "stub" => Agree

\* Goroutine g waits for a registry or for the rest of a body.
Held(g) == (kind = "registry" /\ pc[g] = "resolve") \/ pc[g] = "reading"

\* Unless something ends the process, the call returns even if no server ever
\* answers: the timer sees to that up to the headers of a response.  It does not
\* for an empty slice, a lookup without end or a body without end.
CallReturns ==
  N > 0 /\ []<>(\A g \in Requests : ~Held(g)) => <>(main = "returned" \/ crash # "none")
=============================================================================
