------------------------------ MODULE MCClient ------------------------------
(* Client for slices of requests to two services, and Contract for lists of *)
(* one contract with up to two interactions or two contracts with one.      *)
EXTENDS Client, TLC

MCTwoServices == [i \in 1 .. N |-> IF i = 1 THEN "sub" ELSE "add"]

\* Values of two types, one of them also behind a pointer.
A1 == [type |-> "A", ptr |-> FALSE, id |-> 1]
A2 == [type |-> "A", ptr |-> FALSE, id |-> 2]
B1 == [type |-> "B", ptr |-> FALSE, id |-> 1]
PA == [type |-> "A", ptr |-> TRUE, id |-> 1]

Asks(n, arg, object, resp) ==
  [request |-> [method |-> n, body |-> arg, object |-> object],
   publish |-> None, response |-> resp]
Tells(v) ==
  [request |-> None, publish |-> [topic |-> "t", message |-> v], response |-> None]

Returned(n, err) == [status |-> n, err |-> err]

Status(n)  == [status |-> n, error |-> FALSE, encodes |-> TRUE]
Failing    == [status |-> 500, error |-> TRUE, encodes |-> TRUE]
Unreadable == [status |-> 200, error |-> FALSE, encodes |-> FALSE]

MCInteractions ==
  {Asks("get", b, PA, Status(200)) : b \in {A1, A2, B1, PA}}
    \cup {Asks("get", A2, PA, Status(404)), Asks("get", A1, PA, Status(404)),
          Asks("set", A1, PA, Status(200)),
          Asks("get", A1, B1, Status(200)), Asks("get", A1, PA, None),
          Asks("get", A1, PA, Failing), Asks("set", PA, PA, Unreadable),
          Tells(A1), Tells(B1),
          [Asks("get", A1, PA, Status(200)) EXCEPT
             !.publish = [topic |-> "u", message |-> PA]]}

OfProvider(p, is) == [provider |-> p, interactions |-> is]

MCContracts ==
  {<<OfProvider("s", is)>> : is \in {<<>>} \cup {<<i>> : i \in MCInteractions}
                                \cup (MCInteractions \X MCInteractions)}
    \cup {<<OfProvider(p, <<i>>), OfProvider("s", <<j>>)>> :
            p \in {"s", "t"}, i \in MCInteractions, j \in MCInteractions}

MCAnswers == {Returned(200, FALSE), Returned(404, FALSE), Returned(404, TRUE)}

\* What provider s answers to each call of "get", and for "set" and provider t one
\* answer for all calls, of all the calls in the contracts.
MCGets == {Asks("get", b, PA, None).request : b \in {A1, A2, B1, PA}}
            \cup {Asks("get", A1, B1, None).request}

MCOthers == ({"s", "t"} \X {Asks("set", b, PA, None).request : b \in {A1, PA}})
              \cup ({"t"} \X MCGets)

MCProviders ==
  {[x \in {"s"} \X MCGets |-> gets[x[2]]] @@ [x \in MCOthers |-> other] :
     gets \in [MCGets -> MCAnswers], other \in MCAnswers}
=============================================================================
