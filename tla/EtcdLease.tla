------------------------------ MODULE EtcdLease ------------------------------
(***************************************************************************)
(* The server side of the etcd registry: Register, the heartbeat goroutine *)
(* it starts, and Deregister, against the time to live of the keys they    *)
(* write.  The store and the network are outside the repository: a request *)
(* takes effect at some moment before it returns, or fails.                *)
(*                                                                         *)
(* Time is counted in ticks.  A tick may not pass while a timer that is    *)
(* due has not fired or a request has used up its time.                    *)
(***************************************************************************)
EXTENDS Naturals

CONSTANTS
  Nodes,    \* registered nodes, one per service of a server process
  TTL,      \* ticks a key lives: 120 s
  Beat,     \* ticks between two heartbeats: time.Minute
  MaxDelay, \* ticks a request to etcd takes at most
  MaxLost   \* bound: requests that fail

ASSUME TimeAssumption == TTL \in Nat /\ Beat \in Nat /\ MaxDelay \in Nat
ASSUME PromptAssumption == Beat + 2 * MaxDelay < TTL
ASSUME LostAssumption == MaxLost \in Nat

VARIABLES
  lease,  \* ticks the node's key has left in the store, 0 if it is absent
  proc,   \* the life of the node's server
  beat,   \* the goroutine that writes the node's key
  clock,  \* ticks since that goroutine fell asleep or sent its request
  lost,   \* requests that failed so far
  missed, \* history: the last request for the node failed
  gone,   \* history: Deregister returned without an error
  age     \* history: ticks since the process ended, at most TTL + MaxDelay

vars == <<lease, proc, beat, clock, lost, missed, gone, age>>

-----------------------------------------------------------------------------
Running(n) == proc[n] \in {"starting", "up", "failed", "left"}

InFlight(n) == beat[n] \in {"asking", "replied"}

Init ==
  /\ lease = [n \in Nodes |-> 0]
  /\ proc = [n \in Nodes |-> "off"]
  /\ beat = [n \in Nodes |-> "none"]
  /\ clock = [n \in Nodes |-> 0]
  /\ lost = 0
  /\ missed = [n \in Nodes |-> FALSE]
  /\ gone = [n \in Nodes |-> FALSE]
  /\ age = [n \in Nodes |-> 0]

\* The writer of n's key enters a phase and its clock starts again.
Phase(n, p) ==
  /\ beat' = [beat EXCEPT ![n] = p]
  /\ clock' = [clock EXCEPT ![n] = 0]

\* Register sends Create.
Register(n) ==
  /\ proc[n] = "off"
  /\ proc' = [proc EXCEPT ![n] = "starting"]
  /\ Phase(n, "asking")
  /\ UNCHANGED <<lease, lost, missed, gone, age>>

\* time.After fires and the heartbeat sends Set.
BeatDue(n) ==
  /\ Running(n)
  /\ beat[n] = "sleep"
  /\ clock[n] = Beat
  /\ Phase(n, "asking")
  /\ UNCHANGED <<lease, proc, lost, missed, gone, age>>

\* Mutant: the key gets the time between heartbeats as its time to live.
Write_BeatAsTTL(n) == lease' = [lease EXCEPT ![n] = Beat]

\* Mutant: a write extends what is left of the key's time to live.
Write_Extend(n) == lease' = [lease EXCEPT ![n] = @ + TTL]

\* Create and Set give the key its full time to live.
Write(n) == lease' = [lease EXCEPT ![n] = TTL]

\* The request reaches the store, perhaps after its process has ended.
TakesEffect(n) ==
  /\ beat[n] = "asking"
  /\ Write(n)
  /\ beat' = [beat EXCEPT ![n] = IF Running(n) THEN "replied" ELSE "none"]
  /\ missed' = [missed EXCEPT ![n] = FALSE]
  /\ UNCHANGED <<proc, clock, lost, gone, age>>

\* The heartbeat goroutine sleeps, whatever the request returned; Register
\* starts it even when it is about to return an error.
Returns(n, result) ==
  /\ Running(n)
  /\ proc' = [proc EXCEPT ![n] = IF @ = "starting" THEN result ELSE @]
  /\ Phase(n, "sleep")
  /\ UNCHANGED <<lease, gone, age>>

Succeeds(n) ==
  /\ beat[n] = "replied"
  /\ Returns(n, "up")
  /\ UNCHANGED <<lost, missed>>

\* An error of Create ends Run; an error of Set is ignored.
Fails(n) ==
  /\ InFlight(n)
  /\ lost < MaxLost
  /\ lost' = lost + 1
  /\ missed' = [missed EXCEPT ![n] = @ \/ beat[n] = "asking"]
  /\ Returns(n, "failed")

\* A request whose process has ended is lost.
Vanishes(n) ==
  /\ beat[n] = "asking"
  /\ ~Running(n)
  /\ beat' = [beat EXCEPT ![n] = "none"]
  /\ UNCHANGED <<lease, proc, clock, lost, missed, gone, age>>

\* stopRegistry goes on to the next service whatever Deregister returns.
\* Delete fails for a key that is absent.
Deregister(n) ==
  /\ proc[n] = "up"
  /\ proc' = [proc EXCEPT ![n] = "left"]
  /\ \/ /\ lease[n] > 0
        /\ lease' = [lease EXCEPT ![n] = 0]
        /\ gone' = [gone EXCEPT ![n] = TRUE]
        /\ UNCHANGED lost
     \/ /\ lease[n] = 0
        /\ UNCHANGED <<lease, gone, lost>>
     \/ /\ lost < MaxLost
        /\ lost' = lost + 1
        /\ UNCHANGED <<lease, gone>>
  /\ UNCHANGED <<beat, clock, missed, age>>

\* The process ends, crashes included; a request in flight may still arrive.
Exit(n) ==
  /\ Running(n)
  /\ proc' = [proc EXCEPT ![n] = "dead"]
  /\ beat' = [beat EXCEPT ![n] = IF @ = "asking" THEN "asking" ELSE "none"]
  /\ UNCHANGED <<lease, clock, lost, missed, gone, age>>

Tick ==
  /\ \A n \in Nodes : /\ beat[n] = "sleep" => clock[n] < Beat
                      /\ InFlight(n) => clock[n] < MaxDelay
  /\ lease' = [n \in Nodes |-> IF lease[n] > 0 THEN lease[n] - 1 ELSE 0]
  /\ clock' = [n \in Nodes |-> IF beat[n] = "none" THEN clock[n]
                               ELSE clock[n] + 1]
  /\ age' = [n \in Nodes |-> IF proc[n] = "dead" /\ age[n] < TTL + MaxDelay
                             THEN age[n] + 1 ELSE age[n]]
  /\ UNCHANGED <<proc, beat, lost, missed, gone>>

Step(n) ==
  \/ Register(n)
  \/ BeatDue(n)
  \/ TakesEffect(n)
  \/ Succeeds(n)
  \/ Fails(n)
  \/ Vanishes(n)
  \/ Deregister(n)
  \/ Exit(n)

Next == Tick \/ \E n \in Nodes : Step(n)

Spec == Init /\ [][Next]_vars

-----------------------------------------------------------------------------
(* Properties *)

TypeOK ==
  /\ lease \in [Nodes -> 0 .. TTL]
  /\ proc \in [Nodes -> {"off", "starting", "up", "failed", "left", "dead"}]
  /\ beat \in [Nodes -> {"none", "asking", "replied", "sleep"}]
  /\ clock \in [Nodes -> Nat]
  /\ lost \in Nat
  /\ missed \in [Nodes -> BOOLEAN]
  /\ gone \in [Nodes -> BOOLEAN]
  /\ age \in [Nodes -> Nat]

\* While a server is up and its last request reached etcd, its node is in
\* the store: heartbeats a minute apart outrun a time to live of two, as
\* long as a request takes less than half a minute.
LiveListed == \A n \in Nodes : proc[n] = "up" /\ ~missed[n] => lease[n] > 0

\* Whatever the process had in flight when it ended, its node is out of the
\* store once the time to live and one request's delay have passed.
EndedExpires ==
  \A n \in Nodes : proc[n] = "dead" /\ age[n] = TTL + MaxDelay => lease[n] = 0

=============================================================================
