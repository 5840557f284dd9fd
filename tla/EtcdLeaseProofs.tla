--------------------------- MODULE EtcdLeaseProofs ---------------------------
(* Leases of EtcdLease for any set of nodes and any timing that satisfies    *)
(* PromptAssumption.                                                         *)
EXTENDS EtcdLease, TLAPS

\* The writer of a node's key is in a phase its server allows, and no phase
\* lasts longer than its time.
PhaseOK ==
  \A n \in Nodes :
    /\ proc[n] = "off" => beat[n] = "none" /\ lease[n] = 0
    /\ proc[n] = "starting" => InFlight(n)
    /\ proc[n] \in {"up", "failed", "left"} => beat[n] # "none"
    /\ proc[n] = "dead" => beat[n] \in {"none", "asking"}
    /\ beat[n] = "sleep" => clock[n] <= Beat
    /\ InFlight(n) => clock[n] <= MaxDelay

\* What is left of the lease of a node whose last request took effect, by the
\* phase of its writer.
LeaseOK ==
  \A n \in Nodes :
    proc[n] \in {"starting", "up"} =>
      /\ beat[n] = "replied" => TTL <= lease[n] + clock[n]
      /\ proc[n] = "up" /\ ~missed[n] =>
           /\ beat[n] = "sleep" => TTL <= lease[n] + clock[n] + MaxDelay
           /\ beat[n] = "asking" =>
                TTL <= lease[n] + clock[n] + MaxDelay + Beat

\* How long a key can outlive its process.
AgeOK ==
  \A n \in Nodes :
    /\ proc[n] # "dead" => age[n] = 0
    /\ proc[n] = "dead" => lease[n] = 0 \/ lease[n] + age[n] <= TTL + MaxDelay
    /\ proc[n] = "dead" /\ beat[n] = "asking" => age[n] <= clock[n]

Inv == TypeOK /\ PhaseOK /\ LeaseOK /\ AgeOK

\* Before any Register no key is in the store and no request is in flight.
THEOREM InitInv == Init => Inv
BY TimeAssumption DEF Init, Inv, TypeOK, PhaseOK, LeaseOK, AgeOK, InFlight

\* A step of one node leaves the leases and phases of the others alone.
LEMMA StepInv ==
  ASSUME Inv, NEW n \in Nodes, Step(n)
  PROVE  Inv'
<1> USE TimeAssumption, PromptAssumption
<1> USE DEF Inv, TypeOK, PhaseOK, LeaseOK, AgeOK, InFlight, Running
<1>1. CASE Register(n)
  BY <1>1 DEF Register, Phase
<1>2. CASE BeatDue(n)
  BY <1>2 DEF BeatDue, Phase
<1>3. CASE TakesEffect(n)
  BY <1>3 DEF TakesEffect, Write
<1>4. CASE Succeeds(n)
  BY <1>4 DEF Succeeds, Returns, Phase
<1>5. CASE Fails(n)
  <2>1. /\ proc' = [proc EXCEPT ![n] = IF @ = "starting" THEN "failed" ELSE @]
        /\ beat' = [beat EXCEPT ![n] = "sleep"]
        /\ clock' = [clock EXCEPT ![n] = 0]
        /\ lost' = lost + 1
        /\ UNCHANGED <<lease, gone, age>>
        /\ InFlight(n) /\ Running(n)
    BY <1>5 DEF Fails, Returns, Phase
  <2>2. CASE beat[n] = "asking"
    <3>1. missed' = [missed EXCEPT ![n] = TRUE]
      BY <1>5, <2>2 DEF Fails
    <3> QED
      BY <2>1, <3>1
  <2>3. CASE beat[n] = "replied"
    <3>1. missed' = missed
      BY <1>5, <2>3 DEF Fails
    <3> QED
      BY <2>1, <2>3, <3>1
  <2> QED
    BY <2>1, <2>2, <2>3
<1>6. CASE Vanishes(n)
  BY <1>6 DEF Vanishes
<1>7. CASE Deregister(n)
  <2>1. /\ proc[n] = "up"
        /\ proc' = [proc EXCEPT ![n] = "left"]
        /\ UNCHANGED <<beat, clock, missed, age>>
    BY <1>7 DEF Deregister
  <2>2. CASE UNCHANGED <<lease, gone>>
    <3>1. lost' \in Nat
      BY <1>7 DEF Deregister
    <3> QED
      BY <2>1, <2>2, <3>1
  <2>3. CASE /\ lease' = [lease EXCEPT ![n] = 0]
             /\ gone' = [gone EXCEPT ![n] = TRUE]
             /\ UNCHANGED lost
    BY <2>1, <2>3
  <2> QED
    BY <1>7, <2>2, <2>3 DEF Deregister
<1>8. CASE Exit(n)
  BY <1>8 DEF Exit
<1> QED
  BY <1>1, <1>2, <1>3, <1>4, <1>5, <1>6, <1>7, <1>8 DEF Step

LEMMA TickInv ==
  ASSUME Inv, Tick
  PROVE  Inv'
<1> USE TimeAssumption, PromptAssumption
<1> USE DEF Inv, Tick, TypeOK, PhaseOK, LeaseOK, AgeOK, InFlight
<1>1. TypeOK'
  OBVIOUS
<1>2. PhaseOK'
  OBVIOUS
<1>3. LeaseOK'
  OBVIOUS
<1>4. AgeOK'
  OBVIOUS
<1> QED
  BY <1>1, <1>2, <1>3, <1>4

\* The leases, phases and ages of all nodes stay within their bounds, whatever
\* the order of requests, timers, failures and exits.
THEOREM Invariance == Spec => []Inv
<1>1. Inv /\ UNCHANGED vars => Inv'
  BY DEF vars, Inv, TypeOK, PhaseOK, LeaseOK, AgeOK, InFlight
<1>2. Inv /\ [Next]_vars => Inv'
  BY <1>1, StepInv, TickInv DEF Next
<1> QED
  BY InitInv, <1>2, PTL DEF Spec

\* Inv gives both promises about the store.
LEMMA InvImplies == Inv => LiveListed /\ EndedExpires
BY TimeAssumption, PromptAssumption
   DEF Inv, TypeOK, PhaseOK, LeaseOK, AgeOK, InFlight, LiveListed, EndedExpires

\* For every timing with Beat + 2 * MaxDelay < TTL, a server that is up and
\* whose last request reached etcd is in the store.
THEOREM SpecLiveListed == Spec => []LiveListed
BY Invariance, InvImplies, PTL

\* For every timing, the node of a process that ended leaves the store within
\* the time to live and the delay of one request.
THEOREM SpecEndedExpires == Spec => []EndedExpires
BY Invariance, InvImplies, PTL
=============================================================================
