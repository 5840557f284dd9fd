------------------------------ MODULE WorkQueue ------------------------------
(***************************************************************************)
(* What a queue group promises, whatever its consumers do: a message waits *)
(* or is with one consumer, a consumer has no more than it can work on, a  *)
(* message leaves as processed only on a success of the delivery that is   *)
(* with its consumer, and what has left never comes back.                  *)
(***************************************************************************)
EXTENDS Naturals, FiniteSets

CONSTANTS Messages, Consumers

VARIABLES
  capacity, \* capacity[c]: deliveries consumer c may have at a time, as it has
            \* asked for from the start
  at,       \* "waiting", the consumer that has the message, or how it left
  good      \* messages whose current delivery was handled successfully

queueVars == <<capacity, at, good>>

With(c) == {m \in Messages : at[m] = c}

QInit ==
  /\ capacity \in [Consumers -> Nat]
  /\ at = [m \in Messages |-> "waiting"]
  /\ good = {}

Hand(c, m) ==
  /\ at[m] = "waiting"
  /\ Cardinality(With(c)) < capacity[c]
  /\ at' = [at EXCEPT ![m] = c]
  /\ UNCHANGED good

Handled(m) ==
  /\ at[m] \in Consumers
  /\ good' = good \cup {m}
  /\ UNCHANGED at

Processed(m) ==
  /\ at[m] \in Consumers /\ m \in good
  /\ at' = [at EXCEPT ![m] = "processed"]
  /\ good' = good \ {m}

\* The consumer gave up: the message is lost, perhaps although a call the
\* consumer no longer waited for has handled it.
Dropped(m) ==
  /\ at[m] \in Consumers
  /\ at' = [at EXCEPT ![m] = "dropped"]
  /\ good' = good \ {m}

\* Consumer c is lost: all it has waits again, with the successes forgotten.
TakeBack(c) ==
  /\ With(c) # {}
  /\ at' = [m \in Messages |-> IF at[m] = c THEN "waiting" ELSE at[m]]
  /\ good' = good \ With(c)

QNext ==
  /\ \/ \E c \in Consumers : TakeBack(c) \/ \E m \in Messages : Hand(c, m)
     \/ \E m \in Messages : Handled(m) \/ Processed(m) \/ Dropped(m)
  /\ UNCHANGED capacity

QSpec == QInit /\ [][QNext]_queueVars
=============================================================================
