------------------------ MODULE ServerLifecycleProofs ------------------------
(* What a server has registered and subscribed at each stage of Run, for any *)
(* servers, services, subscribers, addresses and numbers of runs.            *)
EXTENDS ServerLifecycle, TLAPS

\* A server listens from the listener to Serve, and no longer while it stops.
BoundOK ==
  \A s \in Servers :
    /\ pc[s] \in {"register", "subscribe", "serving"} => bound[Addr[s]] = s
    /\ pc[s] \in {"closing", "draining", "deregister"} => bound[Addr[s]] # s

\* What is registered has a node, so that stopRegistry visits it.
NodeOK ==
  /\ registered \subseteq node
  /\ \A s \in Servers, v \in Services :
       <<s, v>> \in node => pc[s] # "new" /\ s \in Registry
  /\ \A s \in Servers : pc[s] = "register" /\ s \notin Registry => todo[s] = {}

\* The loop of startSubscribe has each subscriber before it or behind it.
SubscribeOK ==
  \A s \in Servers, q \in Subs : pc[s] = "subscribe" /\ s \in Broker =>
    q \in todo[s] \/ <<s, q>> \in subscribed \cup refused

Inv == /\ TypeOK
       /\ BoundOK
       /\ NodeOK
       /\ ListedIsServed
       /\ SubscribeOK
       /\ ServesSubscribed

-----------------------------------------------------------------------------
\* Types: each action keeps every variable in its set.
LEMMA TypeInit == Init => TypeOK
  BY AddrAssumption, RunsAssumption DEF Init, TypeOK

\* The same of a step.
LEMMA TypeStep ==
  ASSUME TypeOK, [Next]_vars
  PROVE  TypeOK'
<1> USE AddrAssumption, RunsAssumption, NoneAssumption DEF Goto, Visit, Entries, Subscriptions
<1>1. CASE UNCHANGED vars
  BY <1>1 DEF TypeOK, vars, netVars, regVars, brokerVars
<1>2. ASSUME NEW s \in Servers, Run(s) PROVE TypeOK'
  BY <1>2 DEF TypeOK, Run, regVars, brokerVars
<1>3. ASSUME NEW s \in Servers, ListenFails(s) PROVE TypeOK'
  BY <1>3 DEF TypeOK, ListenFails, regVars, brokerVars
<1>4. ASSUME NEW s \in Servers, NEW v \in Services, Register(s, v) PROVE TypeOK'
  <2>1. <<s, v>> \in Servers \X Services
    OBVIOUS
  <2>2. node' \subseteq Servers \X Services
    BY <1>4, <2>1 DEF TypeOK, Register
  <2>3. registered' \subseteq Servers \X Services
    BY <1>4, <2>1 DEF TypeOK, Register
  <2>4. kept' \subseteq Servers \X Services /\ failed' \subseteq Servers
    BY <1>4 DEF TypeOK, Register, GiveUp
  <2>5. CASE pc' = pc /\ todo' = [todo EXCEPT ![s] = todo[s] \ {v}]
    BY <1>4, <2>2, <2>3, <2>4, <2>5 DEF TypeOK, Register, netVars, brokerVars
  <2>6. CASE GiveUp(s)
    BY <1>4, <2>2, <2>3, <2>4, <2>6
    DEF TypeOK, Register, GiveUp, netVars, brokerVars
  <2> QED
    BY <1>4, <2>5, <2>6 DEF Register
<1>5. ASSUME NEW s \in Servers, NEW v \in Services, Deregister(s, v) PROVE TypeOK'
  BY <1>5 DEF TypeOK, Deregister, netVars, brokerVars
<1>6. ASSUME NEW s \in Servers, NEW q \in Subs, Subscribe(s, q) PROVE TypeOK'
  BY <1>6 DEF TypeOK, Subscribe, netVars, regVars
<1>7. ASSUME NEW s \in Servers, Connect(s) PROVE TypeOK'
  <2>1. CASE s \in Broker /\ pc' = [pc EXCEPT ![s] = "subscribe"]
    BY <1>7, <2>1 DEF TypeOK, Connect, GiveUp, netVars, regVars
  <2>2. CASE GiveUp(s)
    BY <1>7, <2>2 DEF TypeOK, Connect, GiveUp, netVars, regVars
  <2>3. CASE s \notin Broker
    BY <1>7, <2>3 DEF TypeOK, Connect, netVars, regVars
  <2> QED
    BY <1>7, <2>1, <2>2, <2>3 DEF Connect
<1>8. ASSUME NEW s \in Servers, Serve(s) PROVE TypeOK'
  BY <1>8 DEF TypeOK, Serve, netVars, regVars, brokerVars
<1>9. ASSUME NEW s \in Servers, ServeReturns(s) PROVE TypeOK'
  BY <1>9 DEF TypeOK, ServeReturns, regVars, brokerVars
<1>10. ASSUME NEW s \in Servers, Disconnect(s) PROVE TypeOK'
  BY <1>10 DEF TypeOK, Disconnect, netVars, regVars
<1>11. ASSUME NEW s \in Servers, Close(s) PROVE TypeOK'
  BY <1>11 DEF TypeOK, Close, regVars, brokerVars
<1>12. ASSUME NEW s \in Servers, End(s) PROVE TypeOK'
  <2>1. bound' \in [Addrs -> Servers \cup {None}]
    BY <1>12 DEF TypeOK, End
  <2>2. connected' \subseteq Servers /\ subscribed' \subseteq Servers \X Subs
    BY <1>12 DEF TypeOK, End
  <2> QED
    BY <1>12, <2>1, <2>2 DEF TypeOK, End, regVars
<1>13. ASSUME NEW s \in Servers, StopListening(s) PROVE TypeOK'
  BY <1>13 DEF TypeOK, StopListening, regVars, brokerVars
<1>14. ASSUME NEW s \in Servers, Arrive(s) PROVE TypeOK'
  BY <1>14 DEF TypeOK, Arrive, regVars, brokerVars
<1>15. ASSUME NEW s \in Servers, Finish(s) PROVE TypeOK'
  BY <1>15 DEF TypeOK, Finish, regVars, brokerVars
<1>16. ASSUME NEW s \in Servers, NEW v \in Services, Heartbeat(s, v) PROVE TypeOK'
  BY <1>16 DEF TypeOK, Heartbeat, netVars, brokerVars
<1> QED
  BY <1>1, <1>2, <1>3, <1>4, <1>5, <1>6, <1>7, <1>8, <1>9, <1>10, <1>11, <1>12,
     <1>13, <1>14, <1>15, <1>16
  DEF Next, Proceed, Others
-----------------------------------------------------------------------------
\* Only the server that listens on an address gives it up.
LEMMA BoundStep ==
  ASSUME TypeOK, BoundOK, [Next]_vars
  PROVE  BoundOK'
<1> USE AddrAssumption, NoneAssumption DEF Goto, Visit, TypeOK, BoundOK
<1>1. CASE UNCHANGED vars
  BY <1>1 DEF vars, netVars, regVars, brokerVars
<1>2. ASSUME NEW s \in Servers, Run(s) PROVE BoundOK'
  BY <1>2 DEF Run, regVars, brokerVars
<1>3. ASSUME NEW s \in Servers, ListenFails(s) PROVE BoundOK'
  BY <1>3 DEF ListenFails, regVars, brokerVars
<1>4. ASSUME NEW s \in Servers, NEW v \in Services, Register(s, v) PROVE BoundOK'
  BY <1>4 DEF Register, GiveUp, netVars, brokerVars
<1>5. ASSUME NEW s \in Servers, NEW v \in Services, Deregister(s, v) PROVE BoundOK'
  BY <1>5 DEF Deregister, netVars, brokerVars
<1>6. ASSUME NEW s \in Servers, NEW q \in Subs, Subscribe(s, q) PROVE BoundOK'
  BY <1>6 DEF Subscribe, netVars, regVars
<1>7. ASSUME NEW s \in Servers, Connect(s) PROVE BoundOK'
  BY <1>7 DEF Connect, GiveUp, netVars, regVars
<1>8. ASSUME NEW s \in Servers, Serve(s) PROVE BoundOK'
  BY <1>8 DEF Serve, netVars, regVars, brokerVars
<1>9. ASSUME NEW s \in Servers, ServeReturns(s) PROVE BoundOK'
  BY <1>9 DEF ServeReturns, regVars, brokerVars
<1>10. ASSUME NEW s \in Servers, Disconnect(s) PROVE BoundOK'
  BY <1>10 DEF Disconnect, netVars, regVars
<1>11. ASSUME NEW s \in Servers, Close(s) PROVE BoundOK'
  BY <1>11 DEF Close, regVars, brokerVars
<1>12. ASSUME NEW s \in Servers, End(s) PROVE BoundOK'
  BY <1>12 DEF End, regVars
<1>13. ASSUME NEW s \in Servers, StopListening(s) PROVE BoundOK'
  BY <1>13 DEF StopListening, regVars, brokerVars
<1>14. ASSUME NEW s \in Servers, Arrive(s) PROVE BoundOK'
  BY <1>14 DEF Arrive, regVars, brokerVars
<1>15. ASSUME NEW s \in Servers, Finish(s) PROVE BoundOK'
  BY <1>15 DEF Finish, regVars, brokerVars
<1>16. ASSUME NEW s \in Servers, NEW v \in Services, Heartbeat(s, v) PROVE BoundOK'
  BY <1>16 DEF Heartbeat, netVars, brokerVars
<1> QED
  BY <1>1, <1>2, <1>3, <1>4, <1>5, <1>6, <1>7, <1>8, <1>9, <1>10, <1>11, <1>12,
     <1>13, <1>14, <1>15, <1>16
  DEF Next, Proceed, Others

\* startRegistry sets the node before it registers, and nothing clears it.
LEMMA NodeStep ==
  ASSUME TypeOK, NodeOK, [Next]_vars
  PROVE  NodeOK'
<1> USE AddrAssumption, NoneAssumption, PartsAssumption DEF Goto, Visit, TypeOK, NodeOK
<1>1. CASE UNCHANGED vars
  BY <1>1 DEF vars, netVars, regVars, brokerVars
<1>2. ASSUME NEW s \in Servers, Run(s) PROVE NodeOK'
  BY <1>2 DEF Run, regVars, brokerVars
<1>3. ASSUME NEW s \in Servers, ListenFails(s) PROVE NodeOK'
  BY <1>3 DEF ListenFails, regVars, brokerVars
<1>4. ASSUME NEW s \in Servers, NEW v \in Services, Register(s, v) PROVE NodeOK'
  BY <1>4 DEF Register, GiveUp, netVars, brokerVars
<1>5. ASSUME NEW s \in Servers, NEW v \in Services, Deregister(s, v) PROVE NodeOK'
  BY <1>5 DEF Deregister, netVars, brokerVars
<1>6. ASSUME NEW s \in Servers, NEW q \in Subs, Subscribe(s, q) PROVE NodeOK'
  BY <1>6 DEF Subscribe, netVars, regVars
<1>7. ASSUME NEW s \in Servers, Connect(s) PROVE NodeOK'
  BY <1>7 DEF Connect, GiveUp, netVars, regVars
<1>8. ASSUME NEW s \in Servers, Serve(s) PROVE NodeOK'
  BY <1>8 DEF Serve, netVars, regVars, brokerVars
<1>9. ASSUME NEW s \in Servers, ServeReturns(s) PROVE NodeOK'
  BY <1>9 DEF ServeReturns, regVars, brokerVars
<1>10. ASSUME NEW s \in Servers, Disconnect(s) PROVE NodeOK'
  BY <1>10 DEF Disconnect, netVars, regVars
<1>11. ASSUME NEW s \in Servers, Close(s) PROVE NodeOK'
  BY <1>11 DEF Close, regVars, brokerVars
<1>12. ASSUME NEW s \in Servers, End(s) PROVE NodeOK'
  BY <1>12 DEF End, regVars
<1>13. ASSUME NEW s \in Servers, StopListening(s) PROVE NodeOK'
  BY <1>13 DEF StopListening, regVars, brokerVars
<1>14. ASSUME NEW s \in Servers, Arrive(s) PROVE NodeOK'
  BY <1>14 DEF Arrive, regVars, brokerVars
<1>15. ASSUME NEW s \in Servers, Finish(s) PROVE NodeOK'
  BY <1>15 DEF Finish, regVars, brokerVars
<1>16. ASSUME NEW s \in Servers, NEW v \in Services, Heartbeat(s, v) PROVE NodeOK'
  BY <1>16 DEF Heartbeat, netVars, brokerVars
<1> QED
  BY <1>1, <1>2, <1>3, <1>4, <1>5, <1>6, <1>7, <1>8, <1>9, <1>10, <1>11, <1>12,
     <1>13, <1>14, <1>15, <1>16
  DEF Next, Proceed, Others

\* A service leaves the set still to visit only as it is deregistered or kept.
LEMMA ListedStep ==
  ASSUME TypeOK, BoundOK, NodeOK, ListedIsServed, [Next]_vars
  PROVE  ListedIsServed'
<1> USE AddrAssumption, NoneAssumption DEF Goto, Visit, TypeOK, BoundOK, NodeOK, ListedIsServed
<1>1. CASE UNCHANGED vars
  BY <1>1 DEF vars, netVars, regVars, brokerVars
<1>2. ASSUME NEW s \in Servers, Run(s) PROVE ListedIsServed'
  BY <1>2 DEF Run, regVars, brokerVars
<1>3. ASSUME NEW s \in Servers, ListenFails(s) PROVE ListedIsServed'
  BY <1>3 DEF ListenFails, regVars, brokerVars
<1>4. ASSUME NEW s \in Servers, NEW v \in Services, Register(s, v) PROVE ListedIsServed'
  BY <1>4 DEF Register, GiveUp, netVars, brokerVars
<1>5. ASSUME NEW s \in Servers, NEW v \in Services, Deregister(s, v) PROVE ListedIsServed'
  BY <1>5 DEF Deregister, netVars, brokerVars
<1>6. ASSUME NEW s \in Servers, NEW q \in Subs, Subscribe(s, q) PROVE ListedIsServed'
  BY <1>6 DEF Subscribe, netVars, regVars
<1>7. ASSUME NEW s \in Servers, Connect(s) PROVE ListedIsServed'
  BY <1>7 DEF Connect, GiveUp, netVars, regVars
<1>8. ASSUME NEW s \in Servers, Serve(s) PROVE ListedIsServed'
  BY <1>8 DEF Serve, netVars, regVars, brokerVars
<1>9. ASSUME NEW s \in Servers, ServeReturns(s) PROVE ListedIsServed'
  BY <1>9 DEF ServeReturns, regVars, brokerVars
<1>10. ASSUME NEW s \in Servers, Disconnect(s) PROVE ListedIsServed'
  BY <1>10 DEF Disconnect, netVars, regVars
<1>11. ASSUME NEW s \in Servers, Close(s) PROVE ListedIsServed'
  BY <1>11 DEF Close, regVars, brokerVars
<1>12. ASSUME NEW s \in Servers, End(s) PROVE ListedIsServed'
  BY <1>12 DEF End, regVars
<1>13. ASSUME NEW s \in Servers, StopListening(s) PROVE ListedIsServed'
  BY <1>13 DEF StopListening, regVars, brokerVars
<1>14. ASSUME NEW s \in Servers, Arrive(s) PROVE ListedIsServed'
  BY <1>14 DEF Arrive, regVars, brokerVars
<1>15. ASSUME NEW s \in Servers, Finish(s) PROVE ListedIsServed'
  BY <1>15 DEF Finish, regVars, brokerVars
<1>16. ASSUME NEW s \in Servers, NEW v \in Services, Heartbeat(s, v) PROVE ListedIsServed'
  BY <1>16 DEF Heartbeat, netVars, brokerVars
<1> QED
  BY <1>1, <1>2, <1>3, <1>4, <1>5, <1>6, <1>7, <1>8, <1>9, <1>10, <1>11, <1>12,
     <1>13, <1>14, <1>15, <1>16
  DEF Next, Proceed, Others

\* A subscriber leaves the loop subscribed or refused, and Disconnect comes
\* only after serving.
LEMMA SubscribeStep ==
  ASSUME TypeOK, SubscribeOK, ServesSubscribed, [Next]_vars
  PROVE  (SubscribeOK /\ ServesSubscribed)'
<1> USE AddrAssumption, NoneAssumption DEF Goto, Visit, TypeOK, SubscribeOK, ServesSubscribed
<1>1. CASE UNCHANGED vars
  BY <1>1 DEF vars, netVars, regVars, brokerVars
<1>2. ASSUME NEW s \in Servers, Run(s) PROVE (SubscribeOK /\ ServesSubscribed)'
  BY <1>2 DEF Run, regVars, brokerVars
<1>3. ASSUME NEW s \in Servers, ListenFails(s) PROVE (SubscribeOK /\ ServesSubscribed)'
  BY <1>3 DEF ListenFails, regVars, brokerVars
<1>4. ASSUME NEW s \in Servers, NEW v \in Services, Register(s, v) PROVE (SubscribeOK /\ ServesSubscribed)'
  BY <1>4 DEF Register, GiveUp, netVars, brokerVars
<1>5. ASSUME NEW s \in Servers, NEW v \in Services, Deregister(s, v) PROVE (SubscribeOK /\ ServesSubscribed)'
  BY <1>5 DEF Deregister, netVars, brokerVars
<1>6. ASSUME NEW s \in Servers, NEW q \in Subs, Subscribe(s, q) PROVE (SubscribeOK /\ ServesSubscribed)'
  BY <1>6 DEF Subscribe, netVars, regVars
<1>7. ASSUME NEW s \in Servers, Connect(s) PROVE (SubscribeOK /\ ServesSubscribed)'
  BY <1>7 DEF Connect, GiveUp, netVars, regVars
<1>8. ASSUME NEW s \in Servers, Serve(s) PROVE (SubscribeOK /\ ServesSubscribed)'
  BY <1>8 DEF Serve, netVars, regVars, brokerVars
<1>9. ASSUME NEW s \in Servers, ServeReturns(s) PROVE (SubscribeOK /\ ServesSubscribed)'
  BY <1>9 DEF ServeReturns, regVars, brokerVars
<1>10. ASSUME NEW s \in Servers, Disconnect(s) PROVE (SubscribeOK /\ ServesSubscribed)'
  BY <1>10 DEF Disconnect, netVars, regVars
<1>11. ASSUME NEW s \in Servers, Close(s) PROVE (SubscribeOK /\ ServesSubscribed)'
  BY <1>11 DEF Close, regVars, brokerVars
<1>12. ASSUME NEW s \in Servers, End(s) PROVE (SubscribeOK /\ ServesSubscribed)'
  BY <1>12 DEF End, regVars
<1>13. ASSUME NEW s \in Servers, StopListening(s) PROVE (SubscribeOK /\ ServesSubscribed)'
  BY <1>13 DEF StopListening, regVars, brokerVars
<1>14. ASSUME NEW s \in Servers, Arrive(s) PROVE (SubscribeOK /\ ServesSubscribed)'
  BY <1>14 DEF Arrive, regVars, brokerVars
<1>15. ASSUME NEW s \in Servers, Finish(s) PROVE (SubscribeOK /\ ServesSubscribed)'
  BY <1>15 DEF Finish, regVars, brokerVars
<1>16. ASSUME NEW s \in Servers, NEW v \in Services, Heartbeat(s, v) PROVE (SubscribeOK /\ ServesSubscribed)'
  BY <1>16 DEF Heartbeat, netVars, brokerVars
<1> QED
  BY <1>1, <1>2, <1>3, <1>4, <1>5, <1>6, <1>7, <1>8, <1>9, <1>10, <1>11, <1>12,
     <1>13, <1>14, <1>15, <1>16
  DEF Next, Proceed, Others

-----------------------------------------------------------------------------
\* Nothing runs and nothing is registered at first.
LEMMA InvInit == Init => Inv
  BY TypeInit, AddrAssumption, NoneAssumption
  DEF Init, Inv, BoundOK, NodeOK, ListedIsServed, SubscribeOK, ServesSubscribed

\* Inv is inductive: ListedIsServed is not by itself, as ServeReturns must find
\* a node for each registered service and Disconnect the address given up.
LEMMA InvStep == Inv /\ [Next]_vars => Inv'
  BY TypeStep, BoundStep, NodeStep, ListedStep, SubscribeStep DEF Inv

\* Inv holds at every moment of every run.
THEOREM SpecInv == Spec => []Inv
  BY InvInit, InvStep, PTL DEF Spec

\* Every variable keeps its type, the loops included: stopRegistry visits only
\* services and startSubscribe only subscribers.
THEOREM SpecTypeOK == Spec => []TypeOK
  BY SpecInv, PTL DEF Inv

\* A registered node is served but for the windows that ListedIsServed names,
\* whatever calls fail and however often Run is called (server.go:117-271).
THEOREM SpecListedIsServed == Spec => []ListedIsServed
  BY SpecInv, PTL DEF Inv

\* A server with a broker serves with each subscription in place or refused
\* (server.go:296-307).
THEOREM SpecServesSubscribed == Spec => []ServesSubscribed
  BY SpecInv, PTL DEF Inv
=============================================================================
