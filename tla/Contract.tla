------------------------------ MODULE Contract ------------------------------
(***************************************************************************)
(* Contracts between services: what a stub client answers a consumer from  *)
(* them, and what ContractTest asserts of a client of the provider.        *)
(*                                                                         *)
(* An interaction is a record [request, publish, response], each of the    *)
(* three perhaps None.  A value is a record [type, ptr, id]; reflection    *)
(* gives a pointer's type no name.                                         *)
(***************************************************************************)
EXTENDS Naturals, Sequences, SequencesExt, FiniteSetsExt

CONSTANTS
  None,      \* a nil pointer
  Contracts, \* lists of contracts
  Providers  \* functions from calls to what a client returns from them

\* reflect.TypeOf(v).Name()
TypeName(v) == IF v.ptr THEN "" ELSE v.type

Requesting(c) == {i \in DOMAIN c.interactions : c.interactions[i].request # None}

IsList(x) == x \in Seq(ToSet(x))

ASSUME ContractsAssumption ==
  \A cs \in Contracts : IsList(cs) /\ \A k \in DOMAIN cs : IsList(cs[k].interactions)

\* A call is a pair of a provider and a request.
CallOf(c, i) == <<c.provider, c.interactions[i].request>>

\* The calls that contracts describe.
Calls ==
  UNION {UNION {{CallOf(cs[k], i) : i \in Requesting(cs[k])} : k \in DOMAIN cs} :
           cs \in Contracts}

\* A client may return any status and error from each of them.
ASSUME ProvidersAssumption == \A p \in Providers : Calls \subseteq DOMAIN p

Refused == [status |-> 500, err |-> TRUE]

-----------------------------------------------------------------------------
(* The stub client *)

\* The answer of an interaction, its Response.Error or an error of its own.
Answered(inter, method, reqv, respv) ==
  IF /\ inter.request.method = method
     /\ TypeName(reqv) = TypeName(inter.request.body)
     /\ TypeName(respv) = TypeName(inter.request.object)
     /\ inter.response # None /\ ~inter.response.error /\ inter.response.encodes
  THEN [status |-> inter.response.status, err |-> FALSE]
  ELSE Refused

\* The first request of the first contract with the provider decides, whatever
\* method it is for.
StubRequest(contracts, service, method, reqv, respv) ==
  LET found == {k \in DOMAIN contracts : /\ contracts[k].provider = service
                                         /\ Requesting(contracts[k]) # {}} IN
  IF found = {} THEN Refused
  ELSE LET c == contracts[Min(found)] IN
       Answered(c.interactions[Min(Requesting(c))], method, reqv, respv)

\* Whether the stub client takes the message: the first interaction with the
\* topic decides, in any contract.
StubPublishes(contracts, topic, v) ==
  LET places == UNION {{k} \X DOMAIN contracts[k].interactions : k \in DOMAIN contracts}
      At(p)  == contracts[p[1]].interactions[p[2]].publish
      found  == {p \in places : At(p) # None /\ At(p).topic = topic}
      first(p) == \A q \in found : p[1] < q[1] \/ (p[1] = q[1] /\ p[2] <= q[2]) IN
  \E p \in found : first(p) /\ TypeName(v) = TypeName(At(p).message)

-----------------------------------------------------------------------------
(* ContractTest *)

\* Mutant: the status is not compared.
Passes_AnyStatus(c, returned) ==
  \A i \in DOMAIN c.interactions : LET inter == c.interactions[i] IN
    /\ inter.publish # None => ~returned[i].err
    /\ inter.publish = None /\ inter.request # None =>
         inter.response # None /\ ~returned[i].err

\* No assertion fails and no nil Response is dereferenced, where returned[i] is
\* what the client returned from the call of interaction i.
Passes(c, returned) ==
  \A i \in DOMAIN c.interactions : LET inter == c.interactions[i] IN
    /\ inter.publish # None => ~returned[i].err
    /\ inter.publish = None /\ inter.request # None =>
         /\ inter.response # None
         /\ returned[i] = [status |-> inter.response.status, err |-> FALSE]

\* What the stub client returns from the calls of a contract.
StubReturns(contracts, c) ==
  [i \in DOMAIN c.interactions |->
     LET inter == c.interactions[i] IN
     IF inter.publish # None
     THEN [err |-> ~StubPublishes(contracts, inter.publish.topic, inter.publish.message)]
     ELSE IF inter.request # None
     THEN StubRequest(contracts, c.provider, inter.request.method, inter.request.body,
                      inter.request.object)
     ELSE [err |-> FALSE]]

\* What a client returns if the providers are p and all messages are taken.
RealReturns(p, c) ==
  [i \in DOMAIN c.interactions |->
     LET inter == c.interactions[i] IN
     IF inter.publish = None /\ inter.request # None
     THEN p[CallOf(c, i)]
     ELSE [err |-> FALSE]]

-----------------------------------------------------------------------------
(* Properties *)

\* Whether two calls are alike to the stub client: the values may differ.
Alike(x, y) ==
  /\ x[1] = y[1]
  /\ x[2].method = y[2].method
  /\ TypeName(x[2].body) = TypeName(y[2].body)
  /\ TypeName(x[2].object) = TypeName(y[2].object)

\* The described calls of the contracts cs that are alike to x, by their places.
Kin(cs, x) ==
  {q \in UNION {{k} \X Requesting(cs[k]) : k \in DOMAIN cs} : Alike(CallOf(cs[q[1]], q[2]), x)}

\* A consumer's test rests on what the provider's test has checked: if all the
\* contracts pass with their providers, a call they describe gets from the stub
\* client an error or what some provider was seen to answer to a call alike to
\* it, and what it was seen to answer to this very call if the contracts expect
\* one status of all calls alike to it.  If they expect several, the stub client
\* may well answer as the provider does not.  An interaction that is a request
\* and a publish is tested as a publish only.
StubAgrees ==
  \A cs \in Contracts, p \in Providers :
    (\A k \in DOMAIN cs : /\ Passes(cs[k], RealReturns(p, cs[k]))
                          /\ \A i \in Requesting(cs[k]) : cs[k].interactions[i].publish = None) =>
      \A k \in DOMAIN cs : \A i \in Requesting(cs[k]) :
        LET x == CallOf(cs[k], i)
            stub == StubRequest(cs, x[1], x[2].method, x[2].body, x[2].object)
            Expects(q) == cs[q[1]].interactions[q[2]].response.status IN
        \/ stub.err
        \/ /\ \E q \in Kin(cs, x) : stub = p[CallOf(cs[q[1]], q[2])]
           /\ (\A q \in Kin(cs, x) : Expects(q) = Expects(<<k, i>>)) => stub = p[x]

\* The stub client serves the whole of a contract only when all requests have
\* the method, the types and the status of the first, which has a response
\* without an error, and all messages of a topic the type of its first one.
OwnStubServes ==
  \A cs \in Contracts : \A k \in DOMAIN cs :
    LET c == cs[k]
        At(i)   == c.interactions[i]
        pubs    == {i \in DOMAIN c.interactions : At(i).publish # None}
        tested  == Requesting(c) \ pubs
        first   == At(Min(Requesting(c))) IN
    Passes(c, StubReturns(<<c>>, c)) <=>
      /\ \A i \in tested :
           /\ At(i).response # None /\ first.response # None
           /\ At(i).request.method = first.request.method
           /\ TypeName(At(i).request.body) = TypeName(first.request.body)
           /\ TypeName(At(i).request.object) = TypeName(first.request.object)
           /\ At(i).response.status = first.response.status
           /\ ~first.response.error /\ first.response.encodes
      /\ \A i \in pubs : \E j \in pubs :
           /\ \A l \in pubs : At(l).publish.topic = At(i).publish.topic => j <= l
           /\ At(j).publish.topic = At(i).publish.topic
           /\ TypeName(At(j).publish.message) = TypeName(At(i).publish.message)

Agree == StubAgrees /\ OwnStubServes
=============================================================================
