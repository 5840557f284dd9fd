--------------------------- MODULE ServerLifecycle ---------------------------
(***************************************************************************)
(* Server.Run and Server.RunTLS from the listener to the return, against a *)
(* registry and a broker whose calls may fail, with Close from another     *)
(* goroutine and the end of the process at any time.                       *)
(*                                                                         *)
(* Each server is the only one of its process.  The registry, the broker   *)
(* and graceful.Server are modelled from how the code calls them: Serve    *)
(* closes the listener after an interrupt, even one that came before it,   *)
(* and waits for the requests in progress, at most for its timeout if that *)
(* is positive.  The heartbeat is the one of the etcd registry.            *)
(***************************************************************************)
EXTENDS Naturals

CONSTANTS
  Servers,  \* servers
  Services, \* the keys of each serviceMap
  Subs,     \* the keys of each subscriberMap
  Registry, \* servers with a registry
  Etcd,     \* those whose registry is etcd
  Broker,   \* servers with a broker
  Timed,    \* servers whose Run is given a positive timeout
  Addrs,    \* addresses to listen on
  Addr,     \* Addr[s]: the address of server s
  MaxRuns,  \* bound: MaxRuns[s] is how often Run of s is called
  None      \* nobody

ASSUME AddrAssumption == Addr \in [Servers -> Addrs]
ASSUME PartsAssumption ==
  Etcd \subseteq Registry /\ Registry \subseteq Servers /\ Broker \subseteq Servers
ASSUME NoneAssumption == None \notin Servers
ASSUME RunsAssumption == MaxRuns \in [Servers -> Nat]

VARIABLES
  pc,         \* where each server is in Run
  runs,       \* calls of Run so far
  interrupt,  \* servers whose graceful.Server has been told to stop
  bound,      \* the server listening on each address
  busy,       \* servers with a request in progress
  todo,       \* services or subscribers the present loop has yet to visit
  node,       \* services whose node is set
  registered, \* services in the registry
  connected,  \* servers connected to the broker
  subscribed, \* subscriptions in place
  failed,     \* history: servers whose Run gave up after listening
  kept,       \* history: services whose last Deregister returned an error
  revived,    \* history: services that a heartbeat wrote where there were none,
              \* since they were last registered or deregistered
  refused     \* history: subscriptions that returned an error

netVars    == <<interrupt, bound, busy>>
regVars    == <<node, registered, kept, revived>>
brokerVars == <<connected, subscribed, refused>>
vars == <<pc, runs, netVars, todo, regVars, brokerVars, failed>>

-----------------------------------------------------------------------------
Entries == Servers \X Services
Subscriptions == Servers \X Subs

Init ==
  /\ pc = [s \in Servers |-> "new"]
  /\ runs = [s \in Servers |-> 0]
  /\ interrupt = {}
  /\ bound = [a \in Addrs |-> None]
  /\ busy = {}
  /\ todo = [s \in Servers |-> {}]
  /\ node = {}
  /\ registered = {}
  /\ connected = {}
  /\ subscribed = {}
  /\ failed = {}
  /\ kept = {}
  /\ revived = {}
  /\ refused = {}

Goto(s, where) == pc' = [pc EXCEPT ![s] = where]
Visit(s, what) == todo' = [todo EXCEPT ![s] = what]

-----------------------------------------------------------------------------
(* Run *)

\* Each call makes a graceful.Server of its own.
Run(s) ==
  /\ pc[s] \in {"new", "returned"}
  /\ runs[s] < MaxRuns[s]
  /\ bound[Addr[s]] = None
  /\ runs' = [runs EXCEPT ![s] = @ + 1]
  /\ interrupt' = interrupt \ {s}
  /\ bound' = [bound EXCEPT ![Addr[s]] = s]
  /\ Goto(s, "register")
  /\ Visit(s, IF s \in Registry THEN Services ELSE {})
  /\ UNCHANGED <<busy, regVars, brokerVars, failed>>

\* The address is taken or not to be had, or a certificate is not found.
ListenFails(s) ==
  /\ pc[s] \in {"new", "returned"}
  /\ runs[s] < MaxRuns[s]
  /\ runs' = [runs EXCEPT ![s] = @ + 1]
  /\ interrupt' = interrupt \ {s}
  /\ Goto(s, "returned")
  /\ UNCHANGED <<bound, busy, todo, regVars, brokerVars, failed>>

\* Run returns an error of a step; what the steps before it did stays.
GiveUp(s) ==
  /\ Goto(s, "returned")
  /\ Visit(s, {})
  /\ failed' = failed \cup {s}

\* A call that returns an error may have reached the registry all the same.
Register(s, v) ==
  /\ pc[s] = "register"
  /\ v \in todo[s]
  /\ node' = node \cup {<<s, v>>}
  /\ \/ /\ registered' = registered \cup {<<s, v>>}
        /\ kept' = kept \ {<<s, v>>}
        /\ revived' = revived \ {<<s, v>>}
        /\ Visit(s, todo[s] \ {v})
        /\ UNCHANGED <<pc, failed>>
     \/ /\ registered' \in {registered, registered \cup {<<s, v>>}}
        /\ GiveUp(s)
        /\ UNCHANGED <<kept, revived>>
  /\ UNCHANGED <<runs, netVars, brokerVars>>

\* The goroutine that each Register of etcd starts, whatever it returns, writes
\* the node every minute for as long as the process lives.
Heartbeat(s, v) ==
  /\ s \in Etcd
  /\ pc[s] # "ended"
  /\ <<s, v>> \in node \ registered
  /\ registered' = registered \cup {<<s, v>>}
  /\ revived' = revived \cup {<<s, v>>}
  /\ UNCHANGED <<pc, runs, netVars, todo, node, kept, brokerVars, failed>>

Connect(s) ==
  /\ pc[s] = "register"
  /\ todo[s] = {}
  /\ \/ /\ s \in Broker
        /\ connected' = connected \cup {s}
        /\ Goto(s, "subscribe")
        /\ Visit(s, Subs)
        /\ UNCHANGED failed
     \/ /\ s \in Broker
        /\ GiveUp(s)
        /\ UNCHANGED connected
     \/ /\ s \notin Broker
        /\ Goto(s, "subscribe")
        /\ UNCHANGED <<todo, connected, failed>>
  /\ UNCHANGED <<runs, netVars, regVars, subscribed, refused>>

\* Mutant: startSubscribe stops at the first error.
Subscribe_StopsAtError(s, q) ==
  /\ pc[s] = "subscribe"
  /\ q \in todo[s]
  /\ \/ /\ subscribed' = subscribed \cup {<<s, q>>}
        /\ refused' = refused \ {<<s, q>>}
        /\ Visit(s, todo[s] \ {q})
     \/ /\ refused' = refused \cup {<<s, q>>}
        /\ Visit(s, {})
        /\ UNCHANGED subscribed
  /\ UNCHANGED <<pc, runs, netVars, regVars, connected, failed>>

\* What Subscribe returns is ignored.
Subscribe(s, q) ==
  /\ pc[s] = "subscribe"
  /\ q \in todo[s]
  /\ Visit(s, todo[s] \ {q})
  /\ \/ /\ subscribed' = subscribed \cup {<<s, q>>}
        /\ refused' = refused \ {<<s, q>>}
     \/ /\ refused' = refused \cup {<<s, q>>}
        /\ UNCHANGED subscribed
  /\ UNCHANGED <<pc, runs, netVars, regVars, connected, failed>>

\* Mutant: the graceful.Server is made only here.
Serve_NewServer(s) ==
  /\ pc[s] = "subscribe"
  /\ todo[s] = {}
  /\ Goto(s, "serving")
  /\ interrupt' = interrupt \ {s}
  /\ UNCHANGED <<runs, bound, busy, todo, regVars, brokerVars, failed>>

Serve(s) ==
  /\ pc[s] = "subscribe"
  /\ todo[s] = {}
  /\ Goto(s, "serving")
  /\ UNCHANGED <<runs, netVars, todo, regVars, brokerVars, failed>>

\* Close, from any goroutine once Run has been called.
Close(s) ==
  /\ runs[s] > 0
  /\ pc[s] # "ended"
  /\ interrupt' = interrupt \cup {s}
  /\ UNCHANGED <<pc, runs, bound, busy, todo, regVars, brokerVars, failed>>

\* Requests come while the server serves, and end or not.
Arrive(s) ==
  /\ pc[s] = "serving"
  /\ busy' = busy \cup {s}
  /\ UNCHANGED <<pc, runs, interrupt, bound, todo, regVars, brokerVars, failed>>

Finish(s) ==
  /\ s \in busy
  /\ busy' = busy \ {s}
  /\ UNCHANGED <<pc, runs, interrupt, bound, todo, regVars, brokerVars, failed>>

\* Serve closes the listener and waits: without limit after Close, which sets
\* the timeout to 0 (Stop(0)), and with the timeout of Run after a signal or an
\* error of its own.
StopListening(s) ==
  /\ pc[s] = "serving"
  /\ bound' = [bound EXCEPT ![Addr[s]] = None]
  /\ Goto(s, IF s \in interrupt THEN "closing" ELSE "draining")
  /\ UNCHANGED <<runs, interrupt, busy, todo, regVars, brokerVars, failed>>

\* Serve returns; the connections that are left after the timeout are closed.
\* Services that were registered by an earlier Run have their nodes still.
ServeReturns(s) ==
  /\ \/ pc[s] \in {"closing", "draining"} /\ s \notin busy
     \/ pc[s] = "draining" /\ s \in Timed
  /\ busy' = busy \ {s}
  /\ Goto(s, "deregister")
  /\ Visit(s, IF s \in Registry THEN {v \in Services : <<s, v>> \in node} ELSE {})
  /\ UNCHANGED <<runs, interrupt, bound, regVars, brokerVars, failed>>

\* Mutant: stopRegistry returns at the first error.
Deregister_StopsAtError(s, v) ==
  /\ pc[s] = "deregister"
  /\ v \in todo[s]
  /\ \/ /\ registered' = registered \ {<<s, v>>}
        /\ kept' = kept \ {<<s, v>>}
        /\ revived' = revived \ {<<s, v>>}
        /\ Visit(s, todo[s] \ {v})
     \/ /\ registered' \in {registered, registered \ {<<s, v>>}}
        /\ kept' = kept \cup {<<s, v>>}
        /\ UNCHANGED revived
        /\ Visit(s, {})
  /\ UNCHANGED <<pc, runs, netVars, node, brokerVars, failed>>

\* An error, whether or not the request took effect, is logged.
Deregister(s, v) ==
  /\ pc[s] = "deregister"
  /\ v \in todo[s]
  /\ Visit(s, todo[s] \ {v})
  /\ \/ /\ registered' = registered \ {<<s, v>>}
        /\ kept' = kept \ {<<s, v>>}
        /\ revived' = revived \ {<<s, v>>}
     \/ /\ registered' \in {registered, registered \ {<<s, v>>}}
        /\ kept' = kept \cup {<<s, v>>}
        /\ UNCHANGED revived
  /\ UNCHANGED <<pc, runs, netVars, node, brokerVars, failed>>

\* stopBroker does not wait for the handlers of its subscribers.
Disconnect(s) ==
  /\ pc[s] = "deregister"
  /\ todo[s] = {}
  /\ connected' = connected \ {s}
  /\ subscribed' = subscribed \ ({s} \X Subs)
  /\ Goto(s, "returned")
  /\ UNCHANGED <<runs, netVars, todo, regVars, refused, failed>>

\* The process ends, at a return of main or by itself.  What it registered
\* stays for as long as the registry keeps it.
End(s) ==
  /\ pc[s] \notin {"new", "ended"}
  /\ Goto(s, "ended")
  /\ Visit(s, {})
  /\ bound' = [a \in Addrs |-> IF bound[a] = s THEN None ELSE bound[a]]
  /\ connected' = connected \ {s}
  /\ subscribed' = subscribed \ ({s} \X Subs)
  /\ busy' = busy \ {s}
  /\ UNCHANGED <<runs, interrupt, regVars, refused, failed>>

-----------------------------------------------------------------------------
Proceed(s) ==
  \/ \E v \in Services : Register(s, v) \/ Deregister(s, v)
  \/ \E q \in Subs : Subscribe(s, q)
  \/ Connect(s)
  \/ Serve(s)
  \/ s \in interrupt /\ StopListening(s)
  \/ ServeReturns(s)
  \/ Disconnect(s)

\* What the callers, the registry's goroutines and the machine may do.
Others(s) ==
  \/ Run(s)
  \/ ListenFails(s)
  \/ Arrive(s)
  \/ Finish(s)
  \/ StopListening(s)
  \/ Close(s)
  \/ \E v \in Services : Heartbeat(s, v)
  \/ End(s)

Next == \E s \in Servers : Proceed(s) \/ Others(s)

Spec == Init /\ [][Next]_vars

\* Run goes on: the calls of registry and broker return, graceful notices an
\* interrupt, its timer fires.  Nothing says that a request in progress ends.
FairSpec == Spec /\ \A s \in Servers : WF_vars(Proceed(s))

-----------------------------------------------------------------------------
(* Properties *)

TypeOK ==
  /\ pc \in [Servers -> {"new", "register", "subscribe", "serving", "closing",
                         "draining", "deregister", "returned", "ended"}]
  /\ \A s \in Servers : runs[s] \in 0 .. MaxRuns[s]
  /\ interrupt \subseteq Servers
  /\ bound \in [Addrs -> Servers \cup {None}]
  /\ busy \subseteq Servers
  /\ todo \in [Servers -> SUBSET (Services \cup Subs)]
  /\ \A s \in Servers :
       /\ pc[s] \in {"register", "deregister"} => todo[s] \subseteq Services
       /\ pc[s] = "subscribe" => todo[s] \subseteq Subs
       /\ pc[s] \notin {"register", "subscribe", "deregister"} => todo[s] = {}
  /\ node \subseteq Entries
  /\ registered \subseteq Entries
  /\ connected \subseteq Servers
  /\ subscribed \subseteq Subscriptions
  /\ failed \subseteq Servers
  /\ kept \subseteq Entries
  /\ revived \subseteq Entries
  /\ refused \subseteq Subscriptions

\* A server that is listed accepts connections, except while it waits for its
\* last requests and withdraws its services one by one, after the registry
\* refused that, after a heartbeat that outlived Run listed it again, and after
\* its process ended.  If nobody serves them, Run has yet to reach Serve or gave
\* up half way.  One service the registry refuses to remove does not keep the
\* others.
ListedIsServed ==
  \A s \in Servers, v \in Services : <<s, v>> \in registered =>
    \/ bound[Addr[s]] = s /\ (pc[s] = "returned" => s \in failed)
    \/ pc[s] \in {"closing", "draining"}
    \/ pc[s] = "deregister" /\ v \in todo[s]
    \/ <<s, v>> \in kept
    \/ s \in Etcd /\ <<s, v>> \in revived
    \/ pc[s] = "ended"

\* A server with a broker serves with every subscription in place that the
\* broker did not refuse.
ServesSubscribed ==
  \A s \in Servers, q \in Subs : pc[s] = "serving" /\ s \in Broker =>
    <<s, q>> \in subscribed \cup refused

\* What may keep Serve for ever: a request that does not end, after Close or in a
\* server without a timeout.
Held(s) ==
  s \in busy /\ (pc[s] = "closing" \/ (pc[s] = "draining" /\ s \notin Timed))

\* Unless a request holds it up, an interrupt ends Run, also one that comes
\* before Serve, and so does a listener that is closed, whatever the registry
\* answers.  After a signal the timeout of Run is limit enough; Close has none.
StopReturns ==
  \A s \in Servers :
    []<>~Held(s) =>
      ((s \in interrupt \/ pc[s] = "draining") ~> pc[s] \in {"returned", "ended"})
=============================================================================
