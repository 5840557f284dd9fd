--------------------------- MODULE MCQueueConsumer ---------------------------
(* QueueConsumer with two workers, of one server or of two, and with three.  *)
EXTENDS QueueConsumer, TLC

CONSTANTS s1, s2, w1, w2, w3, m1, m2

OneEach == w1 :> s1 @@ w2 :> s2

MCWorldsOfTwo ==
  {[home |-> [w \in {w1, w2} |-> s1], undecodable |-> {}],
   [home |-> OneEach, undecodable |-> {m2}]}

MCWorldOfThree ==
  {[home |-> w1 :> s1 @@ w2 :> s1 @@ w3 :> s2, undecodable |-> {}]}
=============================================================================
