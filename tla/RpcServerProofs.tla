--------------------------- MODULE RpcServerProofs ---------------------------
(* Safety of RpcServer for any requests, contexts, routes and chain lengths: *)
(* first who has a context and what is in it, then what is answered and in   *)
(* which order handlers run.                                                 *)
EXTENDS RpcServer, SequenceTheorems, TLAPS

\* A request in flight asked for a registered route and, while a handler of
\* its chain is running, has that handler on its stack.
HeldOK ==
  \A r \in Requests : Active(r) =>
    /\ ask[r] \in Routes
    /\ pc[r] = "chain" => stack[r] # <<>>

\* Nothing has happened for a request that has not arrived.
NewOK ==
  \A r \in Requests : pc[r] = "new" =>
    /\ invoked[r] = {}
    /\ answers[r] = <<>>
    /\ stack[r] = <<>>
    /\ ran[r] = <<>>
    /\ refused[r] = FALSE
    /\ nextCalls[r] = [h \in HandlerIds |-> 0]
    /\ sent[r] = NoMeta(Keys)

TypeInv == TypeOK /\ ContextExclusive /\ ContextIsTheRequests /\ HeldOK /\ NewOK

LEMMA HandlerIdsFacts ==
  /\ HandlerIds \subseteq Nat
  /\ \A t \in Routes, i \in Nat : i < ChainLen[t] => i \in HandlerIds
BY ChainAssumption DEF HandlerIds

\* What Front keeps of a handler stack.
LEMMA FrontFacts ==
  ASSUME NEW S, NEW s \in Seq(S), s # <<>>
  PROVE  /\ Front(s) \in Seq(S)
         /\ Len(Front(s)) = Len(s) - 1
         /\ \A i \in 1 .. Len(s) - 1 : Front(s)[i] = s[i]
         /\ Last(s) \in S
<1>1. Len(s) \in Nat \ {0}
  BY EmptySeq, LenProperties
<1>2. Last(s) \in S
  BY <1>1, ElementOfSeq DEF Last
<1>3. /\ Front(s) \in Seq(S)
      /\ Len(Front(s)) = Len(s) - 1
      /\ \A i \in 1 .. Len(s) - 1 : Front(s)[i] = s[i]
  <2> DEFINE n == Len(s) - 1
  <2>1. n \in Int /\ n \in Nat /\ \A i \in 1 .. n : i \in 1 .. Len(s)
    BY <1>1
  <2>2. \A i \in 1 .. n : s[i] \in S
    BY <2>1, ElementOfSeq
  <2>3. n + 1 = Len(s)
    BY <1>1
  <2> HIDE DEF n
  <2>4. /\ SubSeq(s, 1, n) \in Seq(S)
        /\ Len(SubSeq(s, 1, n)) = IF 1 <= n THEN n - 1 + 1 ELSE 0
        /\ \A i \in 1 .. n - 1 + 1 : SubSeq(s, 1, n)[i] = s[1 + i - 1]
    BY <2>1, <2>2, SubSeqProperties
  <2>5. \A i \in 1 .. n : SubSeq(s, 1, n)[i] = s[i]
    <3>1. SUFFICES ASSUME NEW i \in 1 .. n PROVE SubSeq(s, 1, n)[i] = s[i]
      OBVIOUS
    <3>2. i \in 1 .. n - 1 + 1 /\ 1 + i - 1 = i
      BY <2>1
    <3> QED
      BY <2>4, <3>2, Zenon
  <2>6. Len(SubSeq(s, 1, n)) = n
    BY <2>1, <2>4
  <2> QED
    BY <2>4, <2>5, <2>6, Zenon DEF Front, n
<1> QED
  BY <1>2, <1>3

\* A new server has idle contexts only and no request in flight.
THEOREM TypeInit == Init => TypeInv
<1> SUFFICES ASSUME Init PROVE TypeInv
  OBVIOUS
<1>1. TypeOK
  BY DEF Init, TypeOK, NoMeta
<1>2. ContextExclusive /\ ContextIsTheRequests /\ HeldOK /\ NewOK
  BY DEF Init, ContextExclusive, ContextIsTheRequests, HeldOK, NewOK, Active
<1> QED
  BY <1>1, <1>2 DEF TypeInv

\* A request that arrives and takes a context keeps the invariant.
LEMMA TypeDispatch ==
  ASSUME TypeInv, NEW r \in Requests, NEW c \in Contexts, NEW t \in Routes,
         NEW names \in SUBSET Headers, Dispatch(r, c, t, names)
  PROVE  TypeInv'
<1> USE DEF TypeInv
<1>1. pc' \in [Requests -> {"new", "chain", "serve", "done", "panicked"}]
  BY DEF Dispatch, TypeOK
<1>2. /\ stack' \in [Requests -> Seq(HandlerIds)]
      /\ ran' \in [Requests -> Seq(HandlerIds)]
  <2>1. CASE ChainLen[t] > 0
    <3> DEFINE first == <<0>>
    <3>1. first \in Seq(HandlerIds)
      BY <2>1, HandlerIdsFacts, ChainAssumption
    <3>2. /\ stack' = [stack EXCEPT ![r] = first]
          /\ ran' = [ran EXCEPT ![r] = first]
      BY <2>1 DEF Dispatch
    <3> HIDE DEF first
    <3> QED
      BY <3>1, <3>2 DEF TypeOK
  <2>2. CASE ~(ChainLen[t] > 0)
    BY <2>2 DEF Dispatch, TypeOK
  <2> QED
    BY <2>1, <2>2
<1>3. reqMeta' \in [Contexts -> [Headers -> Requests \cup {None}]]
  BY DEF Dispatch, CopyHeaders, TypeOK
<1>4. TypeOK'
  BY <1>1, <1>2, <1>3 DEF Dispatch, Get, Bind, TypeOK
<1>5. \A q \in Requests \ {r} : Active(q)' => Active(q) /\ ctxOf[q] # c
  BY DEF Dispatch, Get, Active, ContextExclusive, TypeOK
<1>6. ContextExclusive'
  BY <1>5 DEF Dispatch, Get, Active, ContextExclusive, TypeOK
<1>7. ContextIsTheRequests'
  BY <1>5 DEF Dispatch, Bind, CopyHeaders, Active, ContextIsTheRequests, ContextExclusive, NewOK, TypeOK
<1>8. HeldOK'
  <2>1. <<0>> # <<>>
    OBVIOUS
  <2>2. ask'[r] \in Routes /\ (pc'[r] = "chain" => stack'[r] # <<>>)
    <3>1. CASE ChainLen[t] > 0
      <4>1. stack' = [stack EXCEPT ![r] = <<0>>]
        BY <3>1 DEF Dispatch
      <4>2. stack'[r] = <<0>>
        BY <4>1, Zenon DEF TypeOK
      <4>3. ask'[r] = t
        BY DEF Dispatch, TypeOK
      <4> QED
        BY <4>2, <4>3, <2>1
    <3>2. CASE ~(ChainLen[t] > 0)
      BY <3>2 DEF Dispatch, TypeOK
    <3> QED
      BY <3>1, <3>2
  <2> QED
    BY <1>5, <2>2 DEF Dispatch, HeldOK, Active, TypeOK
<1>9. NewOK'
  BY <1>1 DEF Dispatch, NewOK, TypeOK
<1> QED
  BY <1>4, <1>6, <1>7, <1>8, <1>9

\* A request answered without a handler chain keeps the invariant.
LEMMA TypeAnswerEarly ==
  ASSUME TypeInv, NEW r \in Requests,
         NEW a \in {"health", "notPost", "badPath"}, AnswerEarly(r, a)
  PROVE  TypeInv'
<1> USE DEF TypeInv
<1>1. EarlyStatus[a] \in Statuses /\ a \in Unroutable
  BY DEF EarlyStatus, Statuses, Unroutable
<1>2. TypeOK'
  BY <1>1 DEF AnswerEarly, ctxVars, histVars, TypeOK
<1>3. \A q \in Requests : Active(q)' => Active(q) /\ q # r
  BY DEF AnswerEarly, Active, TypeOK
<1>4. ContextExclusive' /\ ContextIsTheRequests' /\ HeldOK'
  BY <1>3 DEF AnswerEarly, ctxVars, histVars, Active, ContextExclusive,
              ContextIsTheRequests, HeldOK, NewOK, TypeOK
<1>5. NewOK'
  BY DEF AnswerEarly, histVars, NewOK, TypeOK
<1> QED
  BY <1>2, <1>4, <1>5

LEMMA TypeLookupFails ==
  ASSUME TypeInv, NEW r \in Requests, NEW c \in Contexts,
         NEW a \in {"noService", "noMethod"}, NEW names \in SUBSET Headers,
         LookupFails(r, c, a, names)
  PROVE  TypeInv'
<1> USE DEF TypeInv
<1>1. a \in Unroutable /\ "notFound" \in Statuses
  BY DEF Statuses, Unroutable
<1>2. reqMeta' \in [Contexts -> [Headers -> Requests \cup {None}]]
  BY DEF LookupFails, CopyHeaders, TypeOK
<1>3. TypeOK'
  BY <1>1, <1>2 DEF LookupFails, Get, histVars, TypeOK
<1>4. \A q \in Requests : Active(q)' => Active(q) /\ q # r /\ ctxOf[q] # c
  BY DEF LookupFails, Get, Active, ContextExclusive, TypeOK
<1>5. ContextExclusive' /\ HeldOK'
  BY <1>4 DEF LookupFails, Get, Active, ContextExclusive, HeldOK, TypeOK
<1>6. ContextIsTheRequests'
  BY <1>4 DEF LookupFails, CopyHeaders, histVars, Active, ContextIsTheRequests,
              NewOK, TypeOK
<1>7. NewOK'
  BY DEF LookupFails, histVars, NewOK, TypeOK
<1> QED
  BY <1>3, <1>5, <1>6, <1>7

LEMMA TypePoolDrop ==
  ASSUME TypeInv, NEW c \in Contexts, PoolDrop(c)
  PROVE  TypeInv'
BY DEF TypeInv, PoolDrop, ctxVars, histVars, TypeOK, ContextExclusive,
       ContextIsTheRequests, HeldOK, NewOK, Active

LEMMA TypeSetRespMeta ==
  ASSUME TypeInv, NEW r \in Requests, NEW k \in Keys, SetRespMeta(r, k)
  PROVE  TypeInv'
<1> USE DEF TypeInv
<1>1. ctxOf[r] \in Contexts
  BY DEF SetRespMeta, Active, ContextExclusive, TypeOK
<1>2. TypeOK'
  BY <1>1 DEF SetRespMeta, histVars, TypeOK
<1> QED
  BY <1>2 DEF SetRespMeta, histVars, ContextExclusive, ContextIsTheRequests,
              HeldOK, NewOK, Active

\* What every step of a handler or of serve starts from: the request holds a
\* context bound to it, and the route names the chain it runs.
LEMMA ActiveFacts ==
  ASSUME TypeInv, NEW r \in Requests, Active(r)
  PROVE  /\ ctxOf[r] \in Contexts
         /\ owner[ctxOf[r]] = r
         /\ route[ctxOf[r]] = ask[r]
         /\ ask[r] \in Routes
         /\ index[ctxOf[r]] \in Nat
         /\ ChainLen[ask[r]] \in Nat
         /\ pc[r] = "chain" => stack[r] # <<>> /\ Top(r) \in HandlerIds
<1>1. /\ ctxOf[r] \in Contexts
      /\ owner[ctxOf[r]] = r
      /\ route[ctxOf[r]] = ask[r]
      /\ ask[r] \in Routes
  BY DEF TypeInv, TypeOK, ContextExclusive, ContextIsTheRequests, HeldOK
<1>2. index[ctxOf[r]] \in Nat /\ ChainLen[ask[r]] \in Nat
  BY <1>1, ChainAssumption DEF TypeInv, TypeOK
<1>3. ASSUME pc[r] = "chain" PROVE stack[r] # <<>> /\ Top(r) \in HandlerIds
  BY <1>3, FrontFacts DEF TypeInv, TypeOK, HeldOK, Top
<1> QED
  BY <1>1, <1>2, <1>3

LEMMA TypeCallNext ==
  ASSUME TypeInv, NEW r \in Requests, CallNext(r)
  PROVE  TypeInv'
<1> USE DEF TypeInv
<1> DEFINE c == ctxOf[r]
           h == index[c] + 1
<1>1. Active(r) /\ pc[r] = "chain"
  BY DEF CallNext, Active
<1>2. /\ c \in Contexts /\ h \in Nat /\ Top(r) \in HandlerIds
      /\ route[c] = ask[r] /\ ask[r] \in Routes /\ stack[r] # <<>>
      /\ index[c] \in Nat /\ ChainLen[route[c]] \in Nat
  BY <1>1, ActiveFacts
<1>3. h < ChainLen[route[c]] => h \in HandlerIds
  BY <1>2, HandlerIdsFacts
<1>4. nextCalls' \in [Requests -> [HandlerIds -> Nat]]
  BY <1>2 DEF CallNext, TypeOK
<1>5. /\ index' \in [Contexts -> Nat]
      /\ pc' \in [Requests -> {"new", "chain", "serve", "done", "panicked"}]
      /\ stack' \in [Requests -> Seq(HandlerIds)]
      /\ ran' \in [Requests -> Seq(HandlerIds)]
      /\ stack'[r] # <<>>
      /\ \A q \in Requests : q # r => stack'[q] = stack[q] /\ ran'[q] = ran[q]
      /\ \A q \in Requests : /\ pc'[q] = "new" <=> pc[q] = "new"
                             /\ Active(q)' <=> Active(q)
                             /\ q # r => pc'[q] = pc[q]
  <2>1. CASE h = ChainLen[route[c]]
    <3>1. /\ pc' = [pc EXCEPT ![r] = "serve"]
          /\ UNCHANGED <<index, stack, ran>>
      BY <1>2, <2>1 DEF CallNext, Advance
    <3> QED
      BY <1>1, <1>2, <3>1 DEF Active, TypeOK
  <2>2. CASE h > ChainLen[route[c]]
    <3>1. UNCHANGED <<index, stack, ran, pc>>
      BY <1>2, <2>2 DEF CallNext, Advance
    <3> QED
      BY <1>1, <1>2, <3>1 DEF Active, TypeOK
  <2>3. CASE h < ChainLen[route[c]]
    <3>1. /\ stack' = [stack EXCEPT ![r] = Append(@, h)]
          /\ ran' = [ran EXCEPT ![r] = Append(@, h)]
          /\ index' = [index EXCEPT ![c] = @ + 1]
          /\ pc' = pc
      BY <1>2, <2>3 DEF CallNext, Advance
    <3>2. /\ Append(stack[r], h) \in Seq(HandlerIds)
          /\ Append(ran[r], h) \in Seq(HandlerIds)
          /\ Append(stack[r], h) # <<>>
      <4>1. /\ h \in HandlerIds
            /\ stack[r] \in Seq(HandlerIds)
            /\ ran[r] \in Seq(HandlerIds)
        BY <1>3, <2>3 DEF TypeOK
      <4> HIDE DEF h
      <4> QED
        BY <4>1, AppendProperties
    <3> HIDE DEF c, h
    <3>3. index' \in [Contexts -> Nat]
      BY <1>2, <3>1 DEF TypeOK
    <3>4. stack' \in [Requests -> Seq(HandlerIds)]
      BY <3>1, <3>2 DEF TypeOK
    <3>5. ran' \in [Requests -> Seq(HandlerIds)]
      BY <3>1, <3>2 DEF TypeOK
    <3>6. stack'[r] # <<>>
      BY <3>1, <3>2, Zenon DEF TypeOK
    <3>7. \A q \in Requests : q # r => stack'[q] = stack[q] /\ ran'[q] = ran[q]
      BY <3>1 DEF TypeOK
    <3>8. \A q \in Requests : /\ pc'[q] = "new" <=> pc[q] = "new"
                             /\ Active(q)' <=> Active(q)
                             /\ q # r => pc'[q] = pc[q]
      BY <1>1, <3>1 DEF Active
    <3> QED
      BY <3>1, <3>3, <3>4, <3>5, <3>6, <3>7, <3>8 DEF Active, TypeOK
  <2> QED
    BY <1>2, <2>1, <2>2, <2>3
<1>6. TypeOK'
  BY <1>4, <1>5 DEF CallNext, TypeOK
<1>7. ContextExclusive' /\ ContextIsTheRequests'
  BY <1>5 DEF CallNext, ContextExclusive, ContextIsTheRequests
<1>8. HeldOK' /\ NewOK'
  BY <1>1, <1>5 DEF CallNext, HeldOK, NewOK, TypeOK
<1> QED
  BY <1>6, <1>7, <1>8

\* A handler that returns hands its request back to its caller or, when it
\* was the first, ends the request and releases the context.
LEMMA TypePopHandler ==
  ASSUME TypeInv, NEW r \in Requests, PopHandler(r),
         isResp' \in [Contexts -> BOOLEAN],
         answers' \in [Requests -> Seq(Statuses)],
         refused' \in [Requests -> BOOLEAN],
         \A q \in Requests \ {r} :
            answers'[q] = answers[q] /\ refused'[q] = refused[q]
  PROVE  TypeInv'
<1> USE DEF TypeInv
<1>1. Active(r) /\ pc[r] = "chain"
  BY DEF PopHandler, Active
<1>2. ctxOf[r] \in Contexts /\ stack[r] # <<>> /\ stack[r] \in Seq(HandlerIds)
  BY <1>1, ActiveFacts DEF TypeOK
<1>3. /\ Front(stack[r]) \in Seq(HandlerIds)
      /\ Len(Front(stack[r])) = Len(stack[r]) - 1
  BY <1>2, FrontFacts
<1>4. stack'[r] = Front(stack[r]) /\ stack' \in [Requests -> Seq(HandlerIds)]
  BY <1>3 DEF PopHandler, TypeOK
<1>5. /\ pool' \subseteq Contexts
      /\ pc' \in [Requests -> {"new", "chain", "serve", "done", "panicked"}]
      /\ ctxOf' \in [Requests -> Contexts \cup {None}]
  <2>1. CASE Len(stack[r]) = 1
    <3>1. /\ pool' = pool \cup {ctxOf[r]}
          /\ pc' = [pc EXCEPT ![r] = "done"]
          /\ ctxOf' = [ctxOf EXCEPT ![r] = None]
      BY <2>1 DEF PopHandler, Release
    <3> QED
      BY <1>2, <3>1 DEF TypeOK
  <2>2. CASE Len(stack[r]) # 1
    BY <2>2 DEF PopHandler, TypeOK
  <2> QED
    BY <2>1, <2>2
<1>6. TypeOK'
  BY <1>4, <1>5 DEF PopHandler, TypeOK
<1>7. \A q \in Requests : Active(q)' =>
        /\ Active(q) /\ ctxOf'[q] = ctxOf[q]
        /\ ctxOf[q] \notin pool'
        /\ pc'[q] = pc[q]
        /\ q = r => Len(stack[r]) # 1
  BY <1>1 DEF PopHandler, Release, Active, ContextExclusive, TypeOK
<1>8. ContextExclusive' /\ ContextIsTheRequests'
  <2>1. ContextExclusive'
    BY <1>7 DEF PopHandler, ContextExclusive
  <2>2. UNCHANGED <<invoked, ask, route, owner, hdrs, reqMeta>>
    BY DEF PopHandler
  <2>3. ContextIsTheRequests'
    BY <1>7, <2>2 DEF ContextIsTheRequests
  <2> QED
    BY <2>1, <2>3
<1>9. HeldOK'
  <2>1. Len(stack[r]) # 1 => stack'[r] # <<>>
    <3>1. Len(stack[r]) \in Nat \ {0}
      BY <1>2, EmptySeq, LenProperties
    <3>2. Len(stack[r]) # 1 => Len(Front(stack[r])) # 0
      BY <1>3, <3>1
    <3> QED
      BY <1>4, <3>2
  <2> QED
    BY <1>7, <2>1 DEF PopHandler, HeldOK, TypeOK
<1>10. NewOK'
  BY <1>1 DEF PopHandler, Release, NewOK, TypeOK
<1> QED
  BY <1>6, <1>8, <1>9, <1>10

LEMMA TypeReturnNil ==
  ASSUME TypeInv, NEW r \in Requests, ReturnNil(r)
  PROVE  TypeInv'
BY TypePopHandler DEF ReturnNil, TypeInv, TypeOK

LEMMA TypeReturnError ==
  ASSUME TypeInv, NEW r \in Requests, ReturnError(r)
  PROVE  TypeInv'
<1>1. Active(r)
  BY DEF ReturnError, PopHandler, Active
<1>2. ctxOf[r] \in Contexts /\ owner[ctxOf[r]] = r
  BY <1>1, ActiveFacts
<1>3. /\ isResp' \in [Contexts -> BOOLEAN]
      /\ answers' \in [Requests -> Seq(Statuses)]
      /\ refused' \in [Requests -> BOOLEAN]
      /\ \A q \in Requests \ {r} :
            answers'[q] = answers[q] /\ refused'[q] = refused[q]
  <2>1. CASE isResp[ctxOf[r]]
    BY <1>2, <2>1 DEF ReturnError, AnswerError, TypeInv, TypeOK
  <2>2. CASE ~isResp[ctxOf[r]]
    <3>1. /\ isResp' = [isResp EXCEPT ![ctxOf[r]] = TRUE]
          /\ answers' = [answers EXCEPT ![r] = Append(@, "error")]
          /\ refused' = [refused EXCEPT ![r] = @ \/ answers[r] = <<>>]
      BY <1>2, <2>2 DEF ReturnError, AnswerError
    <3>2. answers[r] \in Seq(Statuses) /\ "error" \in Statuses
      BY DEF Statuses, TypeInv, TypeOK
    <3>3. Append(answers[r], "error") \in Seq(Statuses)
      BY <3>2, AppendProperties
    <3> QED
      BY <1>2, <3>1, <3>3 DEF TypeInv, TypeOK
  <2> QED
    BY <2>1, <2>2
<1> QED
  BY <1>3, TypePopHandler DEF ReturnError

LEMMA TypePanic ==
  ASSUME TypeInv, NEW r \in Requests, Panic(r)
  PROVE  TypeInv'
<1> USE DEF TypeInv
<1>1. TypeOK'
  BY DEF Panic, ctxVars, histVars, TypeOK
<1>2. \A q \in Requests : Active(q)' => Active(q) /\ q # r
  BY DEF Panic, Active, TypeOK
<1>3. ContextExclusive' /\ ContextIsTheRequests' /\ HeldOK'
  BY <1>2 DEF Panic, ctxVars, histVars, Active, ContextExclusive,
              ContextIsTheRequests, HeldOK, TypeOK
<1>4. NewOK'
  BY DEF Panic, histVars, Active, NewOK, TypeOK
<1> QED
  BY <1>1, <1>3, <1>4

LEMMA TypeServe ==
  ASSUME TypeInv, NEW r \in Requests, NEW res \in ServeResults,
         NEW ks \in SUBSET Keys, Serve(r, res, ks)
  PROVE  TypeInv'
<1> USE DEF TypeInv
<1> DEFINE c == ctxOf[r]
<1>1. Active(r) /\ pc[r] = "serve"
  BY DEF Serve, Active
<1>2. c \in Contexts /\ owner[c] = r /\ route[c] = ask[r] /\ ask[r] \in Routes
  BY <1>1, ActiveFacts
<1>3. /\ respMeta' \in [Contexts -> [Keys -> Requests \cup {None}]]
      /\ respMeta'[c] \in [Keys -> Requests \cup {None}]
  <2> DEFINE m == [k \in Keys |->
                     IF res.called /\ k \in ks THEN r ELSE respMeta[c][k]]
  <2>1. respMeta' = [respMeta EXCEPT ![c] = m]
    BY DEF Serve, MethodMeta
  <2>2. m \in [Keys -> Requests \cup {None}]
    BY <1>2 DEF TypeOK
  <2> HIDE DEF m
  <2> QED
    BY <1>2, <2>1, <2>2 DEF TypeOK
<1>4. /\ sent' \in [Requests -> [Keys -> Requests \cup {None}]]
      /\ \A q \in Requests \ {r} : sent'[q] = sent[q]
  <2>1. sent' = [sent EXCEPT ![r] = respMeta'[c]] \/ sent' = sent
    BY <1>2 DEF Serve
  <2> QED
    BY <1>3, <2>1 DEF TypeOK
<1>5. /\ answers' \in [Requests -> Seq(Statuses)]
      /\ \A q \in Requests \ {r} : answers'[q] = answers[q]
  <2>1. answers' = [answers EXCEPT ![r] = Append(@, res.answer)]
    BY <1>2 DEF Serve
  <2>2. answers[r] \in Seq(Statuses) /\ res.answer \in Statuses
    BY DEF ServeResults, Statuses, TypeOK
  <2>3. Append(answers[r], res.answer) \in Seq(Statuses)
    BY <2>2, AppendProperties
  <2> QED
    BY <2>1, <2>3 DEF TypeOK
<1>6. /\ invoked' \in [Requests -> SUBSET Routes]
      /\ invoked'[r] \subseteq invoked[r] \cup {ask[r]}
      /\ \A q \in Requests \ {r} : invoked'[q] = invoked[q]
  <2>1. \/ invoked' = [invoked EXCEPT ![r] = @ \cup {ask[r]}]
        \/ invoked' = invoked
    BY <1>2 DEF Serve
  <2> DEFINE more == invoked[r] \cup {ask[r]}
  <2>2. more \in SUBSET Routes /\ more \subseteq invoked[r] \cup {ask[r]}
    BY <1>2 DEF TypeOK
  <2>3. invoked' = [invoked EXCEPT ![r] = more] \/ invoked' = invoked
    BY <2>1
  <2> HIDE DEF more
  <2> QED
    BY <2>2, <2>3 DEF TypeOK
<1>7. /\ refused' \in [Requests -> BOOLEAN]
      /\ \A q \in Requests \ {r} : refused'[q] = refused[q]
  BY DEF Serve, TypeOK
<1>8. \/ /\ stack[r] = <<>>
         /\ pool' = pool \cup {c}
         /\ pc' = [pc EXCEPT ![r] = "done"]
         /\ ctxOf' = [ctxOf EXCEPT ![r] = None]
      \/ /\ stack[r] # <<>>
         /\ pc' = [pc EXCEPT ![r] = "chain"]
         /\ UNCHANGED <<pool, ctxOf>>
  BY DEF Serve, Release
<1>9. /\ isResp' = [isResp EXCEPT ![c] = TRUE]
      /\ UNCHANGED <<created, index, route, owner, reqMeta, ask, hdrs, stack,
                     start, ran, nextCalls>>
  BY DEF Serve
<1>10. /\ pool' \subseteq Contexts
       /\ pc' \in [Requests -> {"new", "chain", "serve", "done", "panicked"}]
       /\ ctxOf' \in [Requests -> Contexts \cup {None}]
       /\ isResp' \in [Contexts -> BOOLEAN]
  BY <1>2, <1>8, <1>9 DEF TypeOK
<1>11. TypeOK'
  BY <1>3, <1>4, <1>5, <1>6, <1>7, <1>9, <1>10 DEF TypeOK
<1>12. \A q \in Requests : Active(q)' =>
         /\ Active(q) /\ ctxOf'[q] = ctxOf[q]
         /\ ctxOf[q] \notin pool'
         /\ q # r => pc'[q] = pc[q]
         /\ q = r => stack[r] # <<>>
  BY <1>1, <1>2, <1>8 DEF Active, ContextExclusive, TypeOK
<1>13. ContextExclusive' /\ HeldOK'
  BY <1>9, <1>12 DEF ContextExclusive, HeldOK, Active
<1>14. ContextIsTheRequests'
  BY <1>6, <1>9, <1>12 DEF ContextIsTheRequests
<1>15. \A q \in Requests : pc'[q] = "new" => pc[q] = "new" /\ q # r
  BY <1>1, <1>8 DEF TypeOK
<1>16. NewOK'
  BY <1>4, <1>5, <1>6, <1>7, <1>9, <1>15 DEF NewOK
<1> QED
  BY <1>11, <1>13, <1>14, <1>16

LEMMA TypeStep == TypeInv /\ [Next]_vars => TypeInv'
<1> SUFFICES ASSUME TypeInv, [Next]_vars PROVE TypeInv'
  OBVIOUS
<1>1. CASE UNCHANGED vars
  BY <1>1 DEF vars, ctxVars, histVars, TypeInv, TypeOK, ContextExclusive,
              ContextIsTheRequests, HeldOK, NewOK, Active
<1>2. ASSUME NEW r \in Requests, Step(r) PROVE TypeInv'
  BY <1>2, TypeAnswerEarly, TypeLookupFails, TypeDispatch, TypeSetRespMeta,
     TypeCallNext, TypeReturnNil, TypeReturnError, TypeServe, TypePanic
     DEF Step, Arrive
<1> QED
  BY <1>1, <1>2, TypePoolDrop DEF Next

\* The inductive invariant: types, and contexts owned by one request each.
THEOREM Typing == Spec => []TypeInv
BY TypeInit, TypeStep, PTL DEF Spec

\* For every instance of the parameters all variables keep their types.
THEOREM SpecTypeOK == Spec => []TypeOK
BY Typing, PTL DEF TypeInv

\* No two requests in flight share a context, for any number of requests,
\* contexts and handlers, across panics and early returns.
THEOREM SpecContextExclusive == Spec => []ContextExclusive
BY Typing, PTL DEF TypeInv

\* A request in flight finds its own method, writer and headers in its
\* context and no other method is invoked for it.
THEOREM SpecContextIsTheRequests == Spec => []ContextIsTheRequests
BY Typing, PTL DEF TypeInv

-----------------------------------------------------------------------------
(* What is answered, and in which order handlers run *)

\* What Append does to the ends of a sequence.
LEMMA AppendFacts ==
  ASSUME NEW S, NEW s \in Seq(S), NEW x \in S
  PROVE  /\ Append(s, x) \in Seq(S)
         /\ Append(s, x) # <<>>
         /\ Len(Append(s, x)) = Len(s) + 1
         /\ \A i \in 1 .. Len(s) : Append(s, x)[i] = s[i]
         /\ Append(s, x)[Len(s) + 1] = x
         /\ s # <<>> => Append(s, x)[1] = s[1]
         /\ s = <<>> => Append(s, x)[1] = x
<1>1. /\ Append(s, x) \in Seq(S)
      /\ Append(s, x) # <<>>
      /\ Len(Append(s, x)) = Len(s) + 1
      /\ \A i \in 1 .. Len(s) : Append(s, x)[i] = s[i]
      /\ Append(s, x)[Len(s) + 1] = x
  BY AppendProperties
<1>2. Len(s) \in Nat /\ (s # <<>> => Len(s) # 0) /\ (s = <<>> => Len(s) = 0)
  BY EmptySeq, LenProperties
<1>3. s # <<>> => 1 \in 1 .. Len(s)
  BY <1>2
<1>4. s = <<>> => Len(s) + 1 = 1
  BY <1>2
<1> QED
  BY <1>1, <1>3, <1>4

-----------------------------------------------------------------------------
(* Refusals *)

\* A context that says its request was answered tells the truth; a refused
\* request was answered with an error first.
AnswerOK ==
  /\ RefusalIsAnswered
  /\ \A r \in Requests : Active(r) /\ isResp[ctxOf[r]] => answers[r] # <<>>

LEMMA AnswerInit == Init => AnswerOK
BY DEF Init, AnswerOK, RefusalIsAnswered, Active

\* An error returned by a handler is dropped only after an answer.
LEMMA AnswerReturnError ==
  ASSUME TypeInv, AnswerOK, NEW r \in Requests, ReturnError(r)
  PROVE  AnswerOK'
<1> DEFINE c == ctxOf[r]
<1>1. Active(r)
  BY DEF ReturnError, PopHandler, Active
<1>2. c \in Contexts /\ owner[c] = r
  BY <1>1, ActiveFacts
<1>3. \A q \in Requests : Active(q)' => Active(q) /\ ctxOf'[q] = ctxOf[q]
  BY <1>1 DEF ReturnError, PopHandler, Release, Active, TypeInv, TypeOK
<1>4. answers[r] \in Seq(Statuses) /\ "error" \in Statuses
  BY DEF Statuses, TypeInv, TypeOK
<1>5. refused' = [refused EXCEPT ![r] = @ \/ answers[r] = <<>>]
  BY DEF ReturnError
<1>6. CASE isResp[c]
  <2>1. UNCHANGED <<isResp, answers>>
    BY <1>6 DEF ReturnError, AnswerError
  <2>2. answers[r] # <<>>
    BY <1>1, <1>6 DEF AnswerOK
  <2>3. \A q \in Requests : refused'[q] => refused[q]
    BY <1>5, <2>2 DEF TypeInv, TypeOK
  <2> QED
    BY <1>3, <2>1, <2>3 DEF AnswerOK, RefusalIsAnswered
<1>7. CASE ~isResp[c]
  <2>1. /\ isResp' = [isResp EXCEPT ![c] = TRUE]
        /\ answers' = [answers EXCEPT ![r] = Append(@, "error")]
    BY <1>2, <1>7 DEF ReturnError, AnswerError
  <2>2. answers'[r] = Append(answers[r], "error")
    BY <2>1 DEF TypeInv, TypeOK
  <2>3. /\ answers'[r] # <<>>
        /\ answers[r] # <<>> => answers'[r][1] = answers[r][1]
        /\ answers[r] = <<>> => answers'[r][1] = "error"
    BY <1>4, <2>2, AppendFacts
  <2>4. refused'[r] => answers'[r] # <<>> /\ answers'[r][1] = "error"
    BY <1>5, <2>3 DEF AnswerOK, RefusalIsAnswered, TypeInv, TypeOK
  <2>5. \A q \in Requests \ {r} :
          /\ answers'[q] = answers[q] /\ refused'[q] = refused[q]
          /\ Active(q) => isResp'[ctxOf[q]] = isResp[ctxOf[q]]
    BY <1>1, <1>5, <2>1 DEF ContextExclusive, TypeInv, TypeOK
  <2> QED
    BY <1>3, <2>3, <2>4, <2>5 DEF AnswerOK, RefusalIsAnswered
<1> QED
  BY <1>6, <1>7

LEMMA AnswerServe ==
  ASSUME TypeInv, AnswerOK, NEW r \in Requests, NEW res \in ServeResults,
         NEW ks \in SUBSET Keys, Serve(r, res, ks)
  PROVE  AnswerOK'
<1> DEFINE c == ctxOf[r]
<1>1. Active(r)
  BY DEF Serve, Active
<1>2. c \in Contexts /\ owner[c] = r
  BY <1>1, ActiveFacts
<1>3. \A q \in Requests : Active(q)' => Active(q) /\ ctxOf'[q] = ctxOf[q]
  BY <1>1 DEF Serve, Release, Active, TypeInv, TypeOK
<1>4. answers[r] \in Seq(Statuses) /\ res.answer \in Statuses
  BY DEF ServeResults, Statuses, TypeInv, TypeOK
<1>5. /\ isResp' = [isResp EXCEPT ![c] = TRUE]
      /\ answers' = [answers EXCEPT ![r] = Append(@, res.answer)]
      /\ refused' = [refused EXCEPT ![r] =
                       @ \/ (res.answer = "error" /\ answers[r] = <<>>)]
  BY <1>2 DEF Serve
<1>6. answers'[r] = Append(answers[r], res.answer)
  BY <1>5 DEF TypeInv, TypeOK
<1>7. /\ answers'[r] # <<>>
      /\ answers[r] # <<>> => answers'[r][1] = answers[r][1]
      /\ answers[r] = <<>> => answers'[r][1] = res.answer
  BY <1>4, <1>6, AppendFacts
<1>8. refused'[r] => answers'[r] # <<>> /\ answers'[r][1] = "error"
  <2>1. refused'[r] => refused[r] \/ (res.answer = "error" /\ answers[r] = <<>>)
    BY <1>5 DEF TypeInv, TypeOK
  <2> QED
    BY <1>7, <2>1 DEF AnswerOK, RefusalIsAnswered
<1>9. \A q \in Requests \ {r} :
        /\ answers'[q] = answers[q] /\ refused'[q] = refused[q]
        /\ Active(q) => isResp'[ctxOf[q]] = isResp[ctxOf[q]]
  BY <1>1, <1>5 DEF ContextExclusive, TypeInv, TypeOK
<1> QED
  BY <1>3, <1>7, <1>8, <1>9 DEF AnswerOK, RefusalIsAnswered

\* A request answered on arrival has returned no error.
LEMMA AnswerArrive ==
  ASSUME TypeInv, AnswerOK, NEW r \in Requests, Arrive(r)
  PROVE  AnswerOK'
<1>1. ~refused[r] /\ ~Active(r)
  BY DEF Arrive, AnswerEarly, LookupFails, Dispatch, NewOK, Active, TypeInv
<1>2. /\ UNCHANGED refused
      /\ \A q \in Requests \ {r} : answers'[q] = answers[q]
  BY DEF Arrive, AnswerEarly, LookupFails, Dispatch, histVars, TypeInv, TypeOK
<1>3. RefusalIsAnswered'
  BY <1>1, <1>2 DEF AnswerOK, RefusalIsAnswered
<1>4. ASSUME NEW q \in Requests, Active(q)', isResp'[ctxOf'[q]]
      PROVE  answers'[q] # <<>>
  <2>1. CASE \E c \in Contexts, t \in Routes, names \in SUBSET Headers :
               Dispatch(r, c, t, names)
    BY <1>2, <1>4, <2>1
       DEF Dispatch, Get, Bind, Active, AnswerOK, ContextExclusive, TypeInv, TypeOK
  <2>2. CASE \E c \in Contexts, names \in SUBSET Headers :
               \E a \in {"noService", "noMethod"} : LookupFails(r, c, a, names)
    BY <1>2, <1>4, <2>2 DEF LookupFails, Active, AnswerOK, TypeInv, TypeOK
  <2>3. CASE \E a \in {"health", "notPost", "badPath"} : AnswerEarly(r, a)
    BY <1>2, <1>4, <2>3 DEF AnswerEarly, ctxVars, Active, AnswerOK, TypeInv, TypeOK
  <2> QED
    BY <2>1, <2>2, <2>3 DEF Arrive
<1> QED
  BY <1>3, <1>4 DEF AnswerOK

LEMMA AnswerStep == TypeInv /\ AnswerOK /\ [Next]_vars => AnswerOK'
<1> SUFFICES ASSUME TypeInv, AnswerOK, [Next]_vars PROVE AnswerOK'
  OBVIOUS
<1>1. CASE UNCHANGED vars
  BY <1>1 DEF vars, ctxVars, histVars, AnswerOK, RefusalIsAnswered, Active
<1>2. ASSUME NEW c \in Contexts, PoolDrop(c) PROVE AnswerOK'
  BY <1>2 DEF PoolDrop, ctxVars, histVars, AnswerOK, RefusalIsAnswered, Active
<1>3. ASSUME NEW r \in Requests, Step(r) PROVE AnswerOK'
  <2>1. ASSUME NEW k \in Keys, SetRespMeta(r, k) PROVE AnswerOK'
    BY <2>1 DEF SetRespMeta, histVars, AnswerOK, RefusalIsAnswered, Active
  <2>2. CASE CallNext(r)
    <3>1. \A q \in Requests : Active(q)' => Active(q)
      BY <2>2 DEF CallNext, Advance, Active, TypeInv, TypeOK
    <3> QED
      BY <2>2, <3>1 DEF CallNext, AnswerOK, RefusalIsAnswered
  <2>3. CASE ReturnNil(r)
    <3>1. \A q \in Requests : Active(q)' => Active(q) /\ ctxOf'[q] = ctxOf[q]
      BY <2>3 DEF ReturnNil, PopHandler, Release, Active, TypeInv, TypeOK
    <3> QED
      BY <2>3, <3>1 DEF ReturnNil, PopHandler, AnswerOK, RefusalIsAnswered
  <2>4. CASE Panic(r)
    <3>1. \A q \in Requests : Active(q)' => Active(q) /\ ctxOf'[q] = ctxOf[q]
      BY <2>4 DEF Panic, Active, TypeInv, TypeOK
    <3> QED
      BY <2>4, <3>1 DEF Panic, ctxVars, histVars, AnswerOK, RefusalIsAnswered
  <2> QED
    BY <1>3, <2>1, <2>2, <2>3, <2>4, AnswerArrive, AnswerReturnError,
       AnswerServe DEF Step
<1> QED
  BY <1>1, <1>2, <1>3 DEF Next

\* On every context, fresh or reused, an error returned before any answer is
\* the first answer of its request.
THEOREM SpecRefusalIsAnswered == Spec => []RefusalIsAnswered
<1>1. Spec => []AnswerOK
  BY AnswerInit, AnswerStep, Typing, PTL DEF Spec
<1> QED
  BY <1>1, PTL DEF AnswerOK

-----------------------------------------------------------------------------
(* Order of the handlers *)

\* No handler of a request in flight is ahead of the index of its context.
OrderOK ==
  /\ ChainOrder
  /\ \A r \in Requests : Active(r) =>
       /\ stack[r] # <<>> => ran[r] # <<>>
       /\ \A i \in 1 .. Len(ran[r]) : ran[r][i] <= index[ctxOf[r]]

\* On a context that started at 0 the handlers run so far are 0, 1, ... up to
\* its index, and all of them when the method is served.
FreshOK ==
  \A r \in Requests : start[r] = 0 =>
    /\ \A i \in 1 .. Len(ran[r]) : ran[r][i] = i - 1
    /\ Active(r) /\ ran[r] # <<>> => Len(ran[r]) = index[ctxOf[r]] + 1
    /\ pc[r] = "serve" \/ invoked[r] # {} => Len(ran[r]) = ChainLen[ask[r]]

ChainInv == OrderOK /\ FreshOK

LEMMA ChainInit == Init => ChainInv
<1> SUFFICES ASSUME Init PROVE ChainInv
  OBVIOUS
<1>1. Len(<<>>) = 0
  OBVIOUS
<1> QED
  BY <1>1 DEF Init, ChainInv, OrderOK, FreshOK, ChainOrder, Active

\* A step that runs no handler and leaves the index of the contexts in use
\* alone keeps the order; served says which requests it lets be served.
LEMMA ChainFrame ==
  ASSUME TypeInv, ChainInv, UNCHANGED <<index, ran, start>>,
         \A q \in Requests : Active(q)' =>
            /\ Active(q) /\ ctxOf'[q] = ctxOf[q] /\ ask'[q] = ask[q]
            /\ stack'[q] # <<>> => stack[q] # <<>>,
         \A q \in Requests : (pc'[q] = "serve" \/ invoked'[q] # {}) =>
            /\ ask'[q] = ask[q]
            /\ start[q] = 0 /\ ~(pc[q] = "serve" \/ invoked[q] # {}) =>
                 Len(ran[q]) = ChainLen[ask[q]]
  PROVE  ChainInv'
<1>1. OrderOK'
  <2>1. ChainOrder'
    BY DEF ChainInv, OrderOK, ChainOrder
  <2>2. ASSUME NEW q \in Requests, Active(q)'
        PROVE  /\ stack'[q] # <<>> => ran'[q] # <<>>
               /\ \A i \in 1 .. Len(ran'[q]) : ran'[q][i] <= index'[ctxOf'[q]]
    BY <2>2 DEF ChainInv, OrderOK
  <2> QED
    BY <2>1, <2>2 DEF OrderOK
<1>2. FreshOK'
  BY DEF ChainInv, FreshOK
<1> QED
  BY <1>1, <1>2 DEF ChainInv

LEMMA ChainCallNext ==
  ASSUME TypeInv, ChainInv, NEW r \in Requests, CallNext(r)
  PROVE  ChainInv'
<1> DEFINE c == ctxOf[r]
           h == index[c] + 1
<1>1. Active(r) /\ pc[r] = "chain"
  BY DEF CallNext, Active
<1>2. /\ c \in Contexts /\ route[c] = ask[r] /\ ask[r] \in Routes
      /\ index[c] \in Nat /\ ChainLen[ask[r]] \in Nat /\ stack[r] # <<>>
  BY <1>1, ActiveFacts
<1>3. UNCHANGED <<ask, ctxOf, start, invoked>>
  BY DEF CallNext
<1>4. ran[r] # <<>> /\ ran[r] \in Seq(HandlerIds) /\ Len(ran[r]) \in Nat \ {0}
  <2>1. ran[r] # <<>> /\ ran[r] \in Seq(HandlerIds)
    BY <1>1, <1>2 DEF ChainInv, OrderOK, TypeInv, TypeOK
  <2> QED
    BY <2>1, EmptySeq, LenProperties
<1>5. start[r] = 0 => Len(ran[r]) = h
  BY <1>1, <1>4 DEF ChainInv, FreshOK
<1>6. CASE h = ChainLen[ask[r]]
  <2>1. pc' = [pc EXCEPT ![r] = "serve"] /\ UNCHANGED <<index, stack, ran>>
    BY <1>2, <1>6 DEF CallNext, Advance
  <2> QED
    BY <1>1, <1>3, <1>5, <1>6, <2>1, ChainFrame DEF Active, TypeInv, TypeOK
<1>7. CASE h > ChainLen[ask[r]]
  <2>1. UNCHANGED <<index, stack, ran, pc>>
    BY <1>2, <1>7 DEF CallNext, Advance
  <2> QED
    BY <1>1, <1>3, <2>1, ChainFrame DEF Active, TypeInv, TypeOK
<1>8. CASE h < ChainLen[ask[r]]
  <2>1. /\ index' = [index EXCEPT ![c] = h]
        /\ stack' = [stack EXCEPT ![r] = Append(@, h)]
        /\ ran' = [ran EXCEPT ![r] = Append(@, h)]
        /\ pc' = pc
    BY <1>2, <1>8 DEF CallNext, Advance
  <2>2. h \in HandlerIds
    BY <1>2, <1>8, HandlerIdsFacts
  <2>3. ran'[r] = Append(ran[r], h)
    BY <2>1 DEF TypeInv, TypeOK
  <2>4. /\ Len(ran'[r]) = Len(ran[r]) + 1
        /\ \A i \in 1 .. Len(ran[r]) : ran'[r][i] = ran[r][i]
        /\ ran'[r][Len(ran[r]) + 1] = h
        /\ ran'[r] # <<>> /\ ran'[r][1] = ran[r][1]
    <3> HIDE DEF h
    <3> QED
      BY <1>4, <2>2, <2>3, AppendFacts
  <2>5. index'[c] = h
    BY <1>2, <2>1 DEF TypeInv, TypeOK
  <2>6. \A q \in Requests \ {r} : ran'[q] = ran[q] /\ stack'[q] = stack[q]
    BY <2>1 DEF TypeInv, TypeOK
  <2>7. \A q \in Requests \ {r} : Active(q) => index'[ctxOf[q]] = index[ctxOf[q]]
    BY <1>1, <2>1 DEF ContextExclusive, TypeInv, TypeOK
  <2>8. \A i \in 1 .. Len(ran[r]) : ran[r][i] <= index[c] /\ ran[r][i] \in Nat
    BY <1>1, <1>4, ElementOfSeq, HandlerIdsFacts DEF ChainInv, OrderOK
  <2>9. \A i \in 1 .. Len(ran'[r]) : ran'[r][i] <= h /\
          (i <= Len(ran[r]) => ran'[r][i] < h)
    <3>1. SUFFICES ASSUME NEW i \in 1 .. Len(ran'[r])
                   PROVE  ran'[r][i] <= h /\ (i <= Len(ran[r]) => ran'[r][i] < h)
      OBVIOUS
    <3>2. i \in 1 .. Len(ran[r]) \/ i = Len(ran[r]) + 1
      BY <1>4, <2>4, <3>1
    <3>3. CASE i \in 1 .. Len(ran[r])
      <4>1. ran'[r][i] = ran[r][i] /\ ran[r][i] <= index[c] /\ ran[r][i] \in Nat
        BY <2>4, <2>8, <3>3
      <4> QED
        BY <1>2, <4>1
    <3>4. CASE i = Len(ran[r]) + 1
      BY <1>2, <1>4, <2>4, <3>4
    <3> QED
      BY <3>2, <3>3, <3>4
  <2>10. /\ ran'[r][1] = 0
         /\ \A i, j \in 1 .. Len(ran'[r]) : i < j => ran'[r][i] < ran'[r][j]
    <3>1. ran[r][1] = 0
      BY <1>4 DEF ChainInv, OrderOK, ChainOrder
    <3>2. ASSUME NEW i \in 1 .. Len(ran'[r]), NEW j \in 1 .. Len(ran'[r]), i < j
          PROVE  ran'[r][i] < ran'[r][j]
      <4>1. CASE j = Len(ran[r]) + 1
        BY <1>4, <2>4, <2>9, <3>2, <4>1
      <4>2. CASE j # Len(ran[r]) + 1
        <5>1. i \in 1 .. Len(ran[r]) /\ j \in 1 .. Len(ran[r])
          BY <1>4, <2>4, <3>2, <4>2
        <5>2. ran[r][i] < ran[r][j]
          BY <3>2, <5>1 DEF ChainInv, OrderOK, ChainOrder
        <5> QED
          BY <2>4, <5>1, <5>2
      <4> QED
        BY <4>1, <4>2
    <3> QED
      BY <2>4, <3>1, <3>2
  <2>11. OrderOK'
    <3>1. ChainOrder'
      <4>1. ASSUME NEW q \in Requests
            PROVE  /\ ran'[q] # <<>> => ran'[q][1] = 0
                   /\ \A i, j \in 1 .. Len(ran'[q]) :
                         i < j => ran'[q][i] < ran'[q][j]
        BY <2>6, <2>10 DEF ChainInv, OrderOK, ChainOrder
      <4> QED
        BY <4>1 DEF ChainOrder
    <3>2. ASSUME NEW q \in Requests, Active(q)'
          PROVE  /\ stack'[q] # <<>> => ran'[q] # <<>>
                 /\ \A i \in 1 .. Len(ran'[q]) : ran'[q][i] <= index'[ctxOf'[q]]
      <4>1. CASE q = r
        BY <1>3, <2>4, <2>5, <2>9, <4>1
      <4>2. CASE q # r
        BY <1>3, <2>1, <2>6, <2>7, <3>2, <4>2 DEF Active, ChainInv, OrderOK
      <4> QED
        BY <4>1, <4>2
    <3> QED
      BY <3>1, <3>2 DEF OrderOK
  <2>12. ASSUME NEW q \in Requests, start'[q] = 0
         PROVE  /\ \A i \in 1 .. Len(ran'[q]) : ran'[q][i] = i - 1
                /\ Active(q)' /\ ran'[q] # <<>> =>
                     Len(ran'[q]) = index'[ctxOf'[q]] + 1
                /\ pc'[q] = "serve" \/ invoked'[q] # {} =>
                     Len(ran'[q]) = ChainLen[ask'[q]]
    <3>1. CASE q = r
      <4>1. Len(ran[r]) = h /\ Len(ran'[r]) = h + 1
        BY <1>3, <1>5, <2>4, <2>12, <3>1
      <4>2. \A i \in 1 .. Len(ran'[r]) : ran'[r][i] = i - 1
        <5>1. \A i \in 1 .. Len(ran[r]) : ran[r][i] = i - 1
          BY <1>3, <2>12, <3>1 DEF ChainInv, FreshOK
        <5> QED
          <6>1. SUFFICES ASSUME NEW i \in 1 .. Len(ran'[r])
                         PROVE  ran'[r][i] = i - 1
            OBVIOUS
          <6>2. i \in 1 .. Len(ran[r]) \/ i = Len(ran[r]) + 1
            BY <1>4, <2>4, <6>1
          <6>3. CASE i \in 1 .. Len(ran[r])
            BY <2>4, <5>1, <6>3
          <6>4. CASE i = Len(ran[r]) + 1
            BY <1>2, <2>4, <4>1, <6>4
          <6> QED
            BY <6>2, <6>3, <6>4
      <4>3. pc[r] # "serve" /\ invoked[r] = {}
        BY <1>1, <1>2, <1>3, <1>8, <2>12, <3>1, <4>1 DEF ChainInv, FreshOK
      <4> QED
        BY <1>3, <2>1, <2>5, <3>1, <4>1, <4>2, <4>3
    <3>2. CASE q # r
      BY <1>3, <2>1, <2>6, <2>7, <2>12, <3>2 DEF Active, ChainInv, FreshOK
    <3> QED
      BY <3>1, <3>2
  <2>13. FreshOK'
    BY <2>12 DEF FreshOK
  <2> QED
    BY <2>11, <2>13 DEF ChainInv
<1> QED
  BY <1>2, <1>6, <1>7, <1>8

\* A request that arrives starts with the first handler, on a context whose
\* index is what start records.
LEMMA ChainArrive ==
  ASSUME TypeInv, ChainInv, NEW r \in Requests, Arrive(r)
  PROVE  ChainInv'
<1>1. ~Active(r) /\ pc[r] = "new" /\ ran[r] = <<>> /\ invoked[r] = {}
  BY DEF Arrive, AnswerEarly, LookupFails, Dispatch, NewOK, Active, TypeInv
<1>2. CASE \E a \in {"health", "notPost", "badPath"} : AnswerEarly(r, a)
  BY <1>1, <1>2, ChainFrame
     DEF AnswerEarly, ctxVars, histVars, Active, TypeInv, TypeOK
<1>3. CASE \E c \in Contexts, names \in SUBSET Headers :
             \E a \in {"noService", "noMethod"} : LookupFails(r, c, a, names)
  BY <1>1, <1>3, ChainFrame DEF LookupFails, histVars, Active, TypeInv, TypeOK
<1>4. ASSUME NEW c \in Contexts, NEW t \in Routes, NEW names \in SUBSET Headers,
             Dispatch(r, c, t, names)
      PROVE  ChainInv'
  <2> DEFINE first == <<0>>
  <2>1. /\ ask' = [ask EXCEPT ![r] = t]
        /\ ctxOf' = [ctxOf EXCEPT ![r] = c]
        /\ start' = [start EXCEPT ![r] = index[c]]
        /\ UNCHANGED <<index, invoked>>
    BY <1>4 DEF Dispatch
  <2>2. \/ /\ ChainLen[t] > 0
           /\ pc' = [pc EXCEPT ![r] = "chain"]
           /\ stack' = [stack EXCEPT ![r] = first]
           /\ ran' = [ran EXCEPT ![r] = first]
        \/ /\ ChainLen[t] = 0
           /\ pc' = [pc EXCEPT ![r] = "serve"]
           /\ UNCHANGED <<stack, ran>>
    BY <1>4 DEF Dispatch
  <2>3. Len(first) = 1 /\ first[1] = 0 /\ first # <<>> /\ Len(<<>>) = 0
    OBVIOUS
  <2> HIDE DEF first
  <2>4. stack[r] = <<>> /\ index[c] \in Nat
    BY <1>1 DEF NewOK, TypeInv, TypeOK
  <2>5. \/ ChainLen[t] > 0 /\ ran'[r] = first /\ pc'[r] = "chain"
        \/ ChainLen[t] = 0 /\ ran'[r] = <<>> /\ pc'[r] = "serve"
                           /\ stack'[r] = <<>>
    BY <1>1, <2>2, <2>4 DEF TypeInv, TypeOK
  <2>6. /\ ctxOf'[r] = c /\ ask'[r] = t /\ start'[r] = index[c]
        /\ index'[c] = index[c]
    BY <2>1 DEF TypeInv, TypeOK
  <2>7. \A q \in Requests \ {r} :
          /\ ran'[q] = ran[q] /\ stack'[q] = stack[q] /\ pc'[q] = pc[q]
          /\ ask'[q] = ask[q] /\ ctxOf'[q] = ctxOf[q] /\ start'[q] = start[q]
    BY <2>1, <2>2 DEF TypeInv, TypeOK
  <2>8. /\ ran'[r] # <<>> => ran'[r][1] = 0
        /\ \A i, j \in 1 .. Len(ran'[r]) : i < j => ran'[r][i] < ran'[r][j]
        /\ stack'[r] # <<>> => ran'[r] # <<>>
        /\ \A i \in 1 .. Len(ran'[r]) : ran'[r][i] <= index[c]
    BY <2>3, <2>4, <2>5
  <2>9. OrderOK'
    BY <2>1, <2>6, <2>7, <2>8 DEF ChainInv, OrderOK, ChainOrder, Active
  <2>10. index[c] = 0 =>
           /\ \A i \in 1 .. Len(ran'[r]) : ran'[r][i] = i - 1
           /\ ran'[r] # <<>> => Len(ran'[r]) = index[c] + 1
           /\ pc'[r] = "serve" => Len(ran'[r]) = ChainLen[t]
    BY <2>3, <2>5
  <2>11. FreshOK'
    BY <1>1, <2>1, <2>6, <2>7, <2>10 DEF ChainInv, FreshOK, Active
  <2> QED
    BY <2>9, <2>11 DEF ChainInv
<1> QED
  BY <1>2, <1>3, <1>4 DEF Arrive

LEMMA ChainStep == TypeInv /\ ChainInv /\ [Next]_vars => ChainInv'
<1> SUFFICES ASSUME TypeInv, ChainInv, [Next]_vars PROVE ChainInv'
  OBVIOUS
<1>1. CASE UNCHANGED vars
  BY <1>1, ChainFrame DEF vars, ctxVars, histVars, Active
<1>2. ASSUME NEW c \in Contexts, PoolDrop(c) PROVE ChainInv'
  BY <1>2, ChainFrame DEF PoolDrop, ctxVars, histVars, Active
<1>3. ASSUME NEW r \in Requests, Step(r) PROVE ChainInv'
  <2>1. ASSUME NEW k \in Keys, SetRespMeta(r, k) PROVE ChainInv'
    BY <2>1, ChainFrame DEF SetRespMeta, histVars, Active
  <2>2. CASE PopHandler(r)
    <3>1. \A q \in Requests : Active(q)' =>
            /\ Active(q) /\ ctxOf'[q] = ctxOf[q]
            /\ stack'[q] # <<>> => stack[q] # <<>>
            /\ pc'[q] = pc[q]
      BY <2>2, ActiveFacts DEF PopHandler, Release, Active, TypeInv, TypeOK
    <3>2. UNCHANGED <<index, ran, start, ask, invoked>>
      BY <2>2 DEF PopHandler
    <3>3. \A q \in Requests : pc'[q] = "serve" => pc[q] = "serve"
      BY <3>1 DEF Active
    <3> QED
      BY <3>1, <3>2, <3>3, ChainFrame
  <2>3. ASSUME NEW res \in ServeResults, NEW ks \in SUBSET Keys,
               Serve(r, res, ks)
        PROVE  ChainInv'
    <3>1. Active(r) /\ pc[r] = "serve" /\ owner[ctxOf[r]] = r
      BY <2>3, ActiveFacts DEF Serve, Active
    <3>2. \A q \in Requests :
            /\ Active(q)' => Active(q) /\ ctxOf'[q] = ctxOf[q]
            /\ pc'[q] = "serve" => pc[q] = "serve"
            /\ invoked'[q] # {} => invoked[q] # {} \/ q = r
      BY <2>3, <3>1 DEF Serve, Release, Active, TypeInv, TypeOK
    <3>3. UNCHANGED <<index, ran, start, ask, stack>>
      BY <2>3 DEF Serve
    <3> QED
      BY <3>1, <3>2, <3>3, ChainFrame
  <2>4. CASE Panic(r)
    <3>1. \A q \in Requests :
            /\ Active(q)' => Active(q) /\ ctxOf'[q] = ctxOf[q] /\ q # r
            /\ pc'[q] = "serve" => pc[q] = "serve"
            /\ q # r => stack'[q] = stack[q]
      BY <2>4 DEF Panic, Active, TypeInv, TypeOK
    <3> QED
      BY <2>4, <3>1, ChainFrame DEF Panic, ctxVars, histVars
  <2> QED
    BY <1>3, <2>1, <2>2, <2>3, <2>4, ChainArrive, ChainCallNext
       DEF Step, ReturnNil, ReturnError
<1> QED
  BY <1>1, <1>2, <1>3 DEF Next

LEMMA ChainInvImplies == TypeInv /\ ChainInv => FreshContextRunsAll
<1> SUFFICES ASSUME TypeInv, ChainInv, NEW r \in Requests,
                    invoked[r] # {}, start[r] = 0
             PROVE  ran[r] = [i \in 1 .. ChainLen[ask[r]] |-> i - 1]
  BY DEF FreshContextRunsAll
<1>1. Len(ran[r]) = ChainLen[ask[r]] /\ \A i \in 1 .. Len(ran[r]) : ran[r][i] = i - 1
  BY DEF ChainInv, FreshOK
<1>2. ran[r] = [i \in 1 .. Len(ran[r]) |-> ran[r][i]]
  BY LenProperties DEF TypeInv, TypeOK
<1> QED
  BY <1>1, <1>2

\* The handlers of a request stay in step with the index of its context.
THEOREM Chaining == Spec => [](TypeInv /\ ChainInv)
BY ChainInit, ChainStep, Typing, PTL DEF Spec

\* However often and however nested Next is called, the handlers of a request
\* run in the order of the chain, the first one first and none twice.
THEOREM SpecChainOrder == Spec => []ChainOrder
BY Chaining, PTL DEF ChainInv, OrderOK

\* Unless its context was used before, a request reaches its method only
\* after every handler of the service.
THEOREM SpecFreshContextRunsAll == Spec => []FreshContextRunsAll
BY Chaining, ChainInvImplies, PTL

-----------------------------------------------------------------------------
(* Metadata *)

\* What has been left in a context that nobody holds is of requests that have
\* finished.
IdleOK ==
  \A c \in Contexts : c \in pool \/ c \notin created =>
    /\ \A n \in Headers : reqMeta[c][n] \in {None} \cup Finished
    /\ \A k \in Keys : respMeta[c][k] \in {None} \cup Finished

MetaInv == NoCrossTalk /\ IdleOK

\* What the framework shows of the contexts is of nobody or of requests that have
\* finished at the start.
LEMMA MetaInit == Init => MetaInv
BY DEF Init, MetaInv, NoCrossTalk, IdleOK, NoMeta, Active

\* A step that leaves metadata and the pool alone keeps what may be seen, since
\* requests that have finished stay finished.
LEMMA MetaFrame ==
  ASSUME TypeInv, MetaInv, UNCHANGED <<created, reqMeta, respMeta, sent>>,
         pool' \subseteq pool,
         \A q \in Requests :
            /\ pc[q] = "done" => pc'[q] = "done"
            /\ Active(q)' => Active(q) /\ ctxOf'[q] = ctxOf[q]
  PROVE  MetaInv'
<1>1. Finished \subseteq Finished'
  BY DEF Finished
<1>2. NoCrossTalk'
  BY <1>1 DEF MetaInv, NoCrossTalk
<1>3. IdleOK'
  BY <1>1 DEF MetaInv, IdleOK
<1> QED
  BY <1>2, <1>3 DEF MetaInv

\* A request that ends leaves its context behind with what it could see itself.
LEMMA MetaRelease ==
  ASSUME TypeInv, MetaInv, NEW r \in Requests, Active(r), Release(r),
         UNCHANGED <<created, reqMeta>>,
         \A q \in Requests \ {r}, k \in Keys : sent'[q][k] = sent[q][k],
         \A k \in Keys : sent'[r][k] \in {None, r} \cup Finished,
         \A c \in Contexts \ {ctxOf[r]} : respMeta'[c] = respMeta[c],
         \A k \in Keys : respMeta'[ctxOf[r]][k] \in {None, r} \cup Finished
  PROVE  MetaInv'
<1>1. Finished' = Finished \cup {r}
  BY DEF Release, Finished, TypeInv, TypeOK
<1>2. \A q \in Requests : Active(q)' =>
        /\ Active(q) /\ q # r
        /\ ctxOf'[q] = ctxOf[q] /\ ctxOf[q] \in Contexts \ {ctxOf[r]}
  BY ActiveFacts DEF Release, Active, ContextExclusive, TypeInv, TypeOK
<1>3. NoCrossTalk'
  <2>1. ASSUME NEW q \in Requests, NEW k \in Keys
        PROVE  sent'[q][k] \in {None, q} \cup Finished'
    BY <1>1 DEF MetaInv, NoCrossTalk
  <2>2. ASSUME NEW q \in Requests, Active(q)'
        PROVE  /\ \A n \in Headers : reqMeta'[ctxOf'[q]][n] \in {None, q} \cup Finished'
               /\ \A k \in Keys : respMeta'[ctxOf'[q]][k] \in {None, q} \cup Finished'
    BY <1>1, <1>2, <2>2 DEF MetaInv, NoCrossTalk
  <2> QED
    BY <2>1, <2>2 DEF NoCrossTalk
<1>4. IdleOK'
  <2>1. SUFFICES ASSUME NEW c \in Contexts, c \in pool' \/ c \notin created'
                 PROVE  /\ \A n \in Headers : reqMeta'[c][n] \in {None} \cup Finished'
                        /\ \A k \in Keys : respMeta'[c][k] \in {None} \cup Finished'
    BY DEF IdleOK
  <2>2. CASE c = ctxOf[r]
    BY <1>1, <2>2 DEF MetaInv, NoCrossTalk
  <2>3. CASE c # ctxOf[r]
    <3>1. c \in pool \/ c \notin created
      BY <2>1, <2>3 DEF Release
    <3> QED
      BY <1>1, <2>3, <3>1 DEF MetaInv, IdleOK
  <2> QED
    BY <2>2, <2>3
<1> QED
  BY <1>3, <1>4 DEF MetaInv

\* A request that gets a context finds in it what requests that have finished
\* left there, and its own headers.
LEMMA MetaArrive ==
  ASSUME TypeInv, MetaInv, NEW r \in Requests, Arrive(r)
  PROVE  MetaInv'
<1>1. pc[r] = "new" /\ ~Active(r)
  BY DEF Arrive, AnswerEarly, LookupFails, Dispatch, Active
<1>2. CASE \E a \in {"health", "notPost", "badPath"} : AnswerEarly(r, a)
  <2>1. \A q \in Requests : /\ pc[q] = "done" => pc'[q] = "done"
                            /\ Active(q)' => Active(q)
    BY <1>2 DEF AnswerEarly, Active, TypeInv, TypeOK
  <2> QED
    BY <1>2, <2>1, MetaFrame DEF AnswerEarly, ctxVars
<1>3. ASSUME NEW c \in Contexts, NEW names \in SUBSET Headers,
             Get(c), CopyHeaders(r, c, names), UNCHANGED <<respMeta, sent>>,
             \A q \in Requests \ {r} : pc'[q] = pc[q] /\ ctxOf'[q] = ctxOf[q],
             Active(r)' => ctxOf'[r] = c
      PROVE  MetaInv'
  <2>1. /\ \A n \in Headers : reqMeta'[c][n] \in {None, r} \cup Finished
        /\ \A k \in Keys : respMeta'[c][k] \in {None} \cup Finished
    BY <1>3 DEF Get, CopyHeaders, MetaInv, IdleOK, TypeInv, TypeOK
  <2>2. \A d \in Contexts \ {c} : reqMeta'[d] = reqMeta[d]
    BY <1>3 DEF CopyHeaders, TypeInv, TypeOK
  <2>3. Finished \subseteq Finished'
    BY <1>1, <1>3 DEF Finished
  <2>4. \A q \in Requests \ {r} : Active(q)' =>
          Active(q) /\ ctxOf'[q] = ctxOf[q] /\ ctxOf[q] \in Contexts \ {c}
    BY <1>3, ActiveFacts DEF Get, Active, ContextExclusive, TypeInv
  <2>5. NoCrossTalk'
    <3>1. ASSUME NEW q \in Requests, NEW k \in Keys
          PROVE  sent'[q][k] \in {None, q} \cup Finished'
      BY <1>3, <2>3 DEF MetaInv, NoCrossTalk
    <3>2. ASSUME NEW q \in Requests, Active(q)'
          PROVE  /\ \A n \in Headers : reqMeta'[ctxOf'[q]][n] \in {None, q} \cup Finished'
                 /\ \A k \in Keys : respMeta'[ctxOf'[q]][k] \in {None, q} \cup Finished'
      <4>1. CASE q = r
        BY <1>3, <2>1, <2>3, <3>2, <4>1
      <4>2. CASE q # r
        BY <1>3, <2>2, <2>3, <2>4, <3>2, <4>2 DEF MetaInv, NoCrossTalk
      <4> QED
        BY <4>1, <4>2
    <3> QED
      BY <3>1, <3>2 DEF NoCrossTalk
  <2>6. \A d \in Contexts : d \in pool' \/ d \notin created' =>
          d # c /\ (d \in pool \/ d \notin created)
    BY <1>3 DEF Get
  <2>7. IdleOK'
    BY <1>3, <2>2, <2>3, <2>6 DEF MetaInv, IdleOK
  <2> QED
    BY <2>5, <2>7 DEF MetaInv
<1>4. ASSUME NEW c \in Contexts, NEW names \in SUBSET Headers,
             NEW a \in {"noService", "noMethod"}, LookupFails(r, c, a, names)
      PROVE  MetaInv'
  <2>1. ~Active(r)' /\ \A q \in Requests \ {r} : pc'[q] = pc[q]
    BY <1>4 DEF LookupFails, Active, TypeInv, TypeOK
  <2> QED
    BY <1>3, <1>4, <2>1 DEF LookupFails
<1>5. ASSUME NEW c \in Contexts, NEW names \in SUBSET Headers, NEW t \in Routes,
             Dispatch(r, c, t, names)
      PROVE  MetaInv'
  <2>1. /\ ctxOf'[r] = c
        /\ \A q \in Requests \ {r} : pc'[q] = pc[q] /\ ctxOf'[q] = ctxOf[q]
    BY <1>5 DEF Dispatch, TypeInv, TypeOK
  <2> QED
    BY <1>3, <1>5, <2>1 DEF Dispatch
<1> QED
  BY <1>2, <1>4, <1>5 DEF Arrive

\* A handler sets metadata of its own context, under its own name.
LEMMA MetaSetRespMeta ==
  ASSUME TypeInv, MetaInv, NEW r \in Requests, NEW k \in Keys, SetRespMeta(r, k)
  PROVE  MetaInv'
<1> DEFINE c == ctxOf[r]
<1>1. Active(r)
  BY DEF SetRespMeta, Active
<1>2. c \in Contexts /\ c \in created \ pool
  BY <1>1, ActiveFacts DEF ContextExclusive, TypeInv
<1>3. /\ \A d \in Contexts \ {c} : respMeta'[d] = respMeta[d]
      /\ \A i \in Keys : respMeta'[c][i] \in {r, respMeta[c][i]}
  BY <1>2 DEF SetRespMeta, TypeInv, TypeOK
<1>4. UNCHANGED <<pool, created, reqMeta, pc, ctxOf, sent>>
  BY DEF SetRespMeta
<1>5. Finished' = Finished
  BY <1>4 DEF Finished
<1>6. NoCrossTalk'
  <2>1. ASSUME NEW q \in Requests, Active(q)
        PROVE  \A i \in Keys : respMeta'[ctxOf[q]][i] \in {None, q} \cup Finished
    <3>1. CASE q = r
      BY <1>1, <1>3, <3>1 DEF MetaInv, NoCrossTalk
    <3>2. CASE q # r
      <4>1. ctxOf[q] \in Contexts \ {c}
        BY <1>1, <2>1, <3>2, ActiveFacts DEF ContextExclusive, TypeInv
      <4> QED
        BY <1>3, <2>1, <4>1 DEF MetaInv, NoCrossTalk
    <3> QED
      BY <3>1, <3>2
  <2> QED
    BY <1>4, <1>5, <2>1 DEF MetaInv, NoCrossTalk, Active
<1>7. IdleOK'
  BY <1>2, <1>3, <1>4, <1>5 DEF MetaInv, IdleOK
<1> QED
  BY <1>6, <1>7 DEF MetaInv

\* serve sends the metadata of the context, with what the method has added.
LEMMA MetaServe ==
  ASSUME TypeInv, MetaInv, NEW r \in Requests, NEW res \in ServeResults,
         NEW ks \in SUBSET Keys, Serve(r, res, ks)
  PROVE  MetaInv'
<1> DEFINE c == ctxOf[r]
<1>1. Active(r)
  BY DEF Serve, Active
<1>2. c \in Contexts /\ c \in created \ pool /\ owner[c] = r
  BY <1>1, ActiveFacts DEF ContextExclusive, TypeInv
<1>3. /\ \A d \in Contexts \ {c} : respMeta'[d] = respMeta[d]
      /\ \A k \in Keys : respMeta'[c][k] \in {None, r} \cup Finished
  <2>1. \A k \in Keys : respMeta[c][k] \in {None, r} \cup Finished
    BY <1>1 DEF MetaInv, NoCrossTalk
  <2> QED
    BY <1>2, <2>1 DEF Serve, MethodMeta, TypeInv, TypeOK
<1>4. /\ \A q \in Requests \ {r} : sent'[q] = sent[q]
      /\ \A k \in Keys : sent'[r][k] \in {None, r} \cup Finished
  <2>1. sent' = [sent EXCEPT ![r] = respMeta'[c]] \/ sent' = sent
    BY <1>2 DEF Serve
  <2> QED
    BY <1>3, <2>1 DEF MetaInv, NoCrossTalk, TypeInv, TypeOK
<1>5. UNCHANGED <<created, reqMeta>>
  BY DEF Serve
<1>6. CASE stack[r] = <<>>
  <2>1. Release(r)
    BY <1>6 DEF Serve
  <2> QED
    BY <1>1, <1>3, <1>4, <1>5, <2>1, MetaRelease
<1>7. CASE stack[r] # <<>>
  <2>1. pc' = [pc EXCEPT ![r] = "chain"] /\ UNCHANGED <<pool, ctxOf>>
    BY <1>7 DEF Serve
  <2>2. Finished' = Finished /\ \A q \in Requests : Active(q)' => Active(q)
    BY <1>1, <2>1 DEF Finished, Active, TypeInv, TypeOK
  <2>3. NoCrossTalk'
    <3>1. ASSUME NEW q \in Requests, Active(q)
          PROVE  \A k \in Keys : respMeta'[ctxOf[q]][k] \in {None, q} \cup Finished
      <4>1. CASE q = r
        BY <1>3, <4>1
      <4>2. CASE q # r
        <5>1. ctxOf[q] \in Contexts \ {c}
          BY <1>1, <3>1, <4>2, ActiveFacts DEF ContextExclusive, TypeInv
        <5> QED
          BY <1>3, <3>1, <5>1 DEF MetaInv, NoCrossTalk
      <4> QED
        BY <4>1, <4>2
    <3> QED
      BY <1>4, <1>5, <2>1, <2>2, <3>1 DEF MetaInv, NoCrossTalk
  <2>4. IdleOK'
    BY <1>2, <1>3, <1>5, <2>1, <2>2 DEF MetaInv, IdleOK
  <2> QED
    BY <2>3, <2>4 DEF MetaInv
<1> QED
  BY <1>6, <1>7

\* Every step keeps what may be seen in a context.
LEMMA MetaStep == TypeInv /\ MetaInv /\ [Next]_vars => MetaInv'
<1> SUFFICES ASSUME TypeInv, MetaInv, [Next]_vars PROVE MetaInv'
  OBVIOUS
<1>1. CASE UNCHANGED vars
  BY <1>1, MetaFrame DEF vars, ctxVars, Active
<1>2. ASSUME NEW c \in Contexts, PoolDrop(c) PROVE MetaInv'
  BY <1>2, MetaFrame DEF PoolDrop, ctxVars, Active
<1>3. ASSUME NEW r \in Requests, Step(r) PROVE MetaInv'
  <2>1. CASE CallNext(r)
    <3>1. \A q \in Requests : /\ pc[q] = "done" => pc'[q] = "done"
                              /\ Active(q)' => Active(q)
      BY <2>1 DEF CallNext, Advance, Active, TypeInv, TypeOK
    <3> QED
      BY <2>1, <3>1, MetaFrame DEF CallNext
  <2>2. CASE PopHandler(r)
    <3>1. Active(r)
      BY <2>2 DEF PopHandler, Active
    <3>2. CASE Len(stack[r]) = 1
      <4>1. Release(r) /\ UNCHANGED <<created, reqMeta, respMeta, sent>>
        BY <2>2, <3>2 DEF PopHandler
      <4>2. /\ \A k \in Keys : sent[r][k] \in {None, r} \cup Finished
            /\ \A k \in Keys : respMeta[ctxOf[r]][k] \in {None, r} \cup Finished
        BY <3>1 DEF MetaInv, NoCrossTalk
      <4> QED
        BY <3>1, <4>1, <4>2, MetaRelease
    <3>3. CASE Len(stack[r]) # 1
      BY <2>2, <3>3, MetaFrame DEF PopHandler, Active
    <3> QED
      BY <3>2, <3>3
  <2>3. CASE Panic(r)
    <3>1. \A q \in Requests :
            /\ pc[q] = "done" => pc'[q] = "done"
            /\ Active(q)' => Active(q) /\ ctxOf'[q] = ctxOf[q]
      BY <2>3 DEF Panic, Active, TypeInv, TypeOK
    <3> QED
      BY <2>3, <3>1, MetaFrame DEF Panic, ctxVars
  <2> QED
    BY <1>3, <2>1, <2>2, <2>3, MetaArrive, MetaSetRespMeta, MetaServe
       DEF Step, ReturnNil, ReturnError
<1> QED
  BY <1>1, <1>2, <1>3 DEF Next

\* What a request finds in its context or sends is its own or of requests that
\* have finished, however contexts are pooled, dropped and reused: never of one
\* still in flight, nor of one that panicked.
THEOREM SpecNoCrossTalk == Spec => []NoCrossTalk
<1>1. Spec => [](TypeInv /\ MetaInv)
  BY MetaInit, MetaStep, Typing, PTL DEF Spec
<1> QED
  BY <1>1, PTL DEF MetaInv

-----------------------------------------------------------------------------
(* One answer *)

\* No handler of r has called Next twice.
Calm(r) == \A h \in HandlerIds : nextCalls[r][h] <= 1

\* While the handlers of a request call Next once at most: it is answered once at
\* most, its context knows of the answer, the method runs before any answer, and
\* every handler below the top of the stack has used its call of Next; so has the
\* top once the method was reached or an answer was written.
CalmAt(r) ==
  Calm(r) =>
    /\ Len(answers[r]) <= 1
    /\ Active(r) =>
         /\ answers[r] # <<>> => isResp[ctxOf[r]]
         /\ pc[r] = "serve" => answers[r] = <<>>
         /\ \A i \in 1 .. Len(stack[r]) :
              i < Len(stack[r]) \/ pc[r] = "serve" \/ answers[r] # <<>> =>
                nextCalls[r][stack[r][i]] = 1

CalmOK == \A r \in Requests : CalmAt(r)

\* No request has been answered at the start.
LEMMA CalmInit == Init => CalmOK
<1>1. Len(<<>>) = 0
  OBVIOUS
<1> QED
  BY <1>1 DEF Init, CalmOK, CalmAt, Active

\* A step of another request, or one that only ends a request, keeps CalmAt.
LEMMA CalmFrame ==
  ASSUME NEW q \in Requests, CalmAt(q),
         nextCalls'[q] = nextCalls[q], answers'[q] = answers[q],
         Active(q)' => /\ Active(q) /\ pc'[q] = pc[q] /\ stack'[q] = stack[q]
                       /\ isResp'[ctxOf'[q]] = isResp[ctxOf[q]]
  PROVE  CalmAt(q)'
BY DEF CalmAt, Calm

\* A request that arrives has no answer, or gets its first and ends.
LEMMA CalmArrive ==
  ASSUME TypeInv, CalmOK, NEW r \in Requests, Arrive(r)
  PROVE  CalmOK'
<1>1. pc[r] = "new" /\ answers[r] = <<>> /\ stack[r] = <<>> /\ Len(<<>>) = 0
  BY DEF Arrive, AnswerEarly, LookupFails, Dispatch, NewOK, TypeInv
<1>2. ASSUME NEW s \in Statuses, UNCHANGED <<nextCalls, isResp, stack, ctxOf>>,
             answers' = [answers EXCEPT ![r] = Append(@, s)],
             pc' = [pc EXCEPT ![r] = "done"]
      PROVE  CalmOK'
  <2>1. answers'[r] = Append(answers[r], s) /\ answers[r] \in Seq(Statuses)
    BY <1>2 DEF TypeInv, TypeOK
  <2>2. Len(answers'[r]) = 1
    BY <1>1, <2>1, AppendFacts
  <2>3. ~Active(r)'
    BY <1>2 DEF Active, TypeInv, TypeOK
  <2>4. CalmAt(r)'
    BY <2>2, <2>3 DEF CalmAt
  <2>5. ASSUME NEW q \in Requests, q # r PROVE CalmAt(q)'
    <3>1. answers'[q] = answers[q] /\ pc'[q] = pc[q]
      BY <1>2, <2>5 DEF TypeInv, TypeOK
    <3> QED
      BY <1>2, <3>1, CalmFrame DEF CalmOK, Active
  <2> QED
    BY <2>4, <2>5 DEF CalmOK
<1>3. CASE \E a \in {"health", "notPost", "badPath"} : AnswerEarly(r, a)
  <2>1. \A a \in {"health", "notPost", "badPath"} : EarlyStatus[a] \in Statuses
    BY DEF EarlyStatus, Statuses
  <2> QED
    BY <1>2, <1>3, <2>1 DEF AnswerEarly, ctxVars, histVars
<1>4. CASE \E c \in Contexts, names \in SUBSET Headers :
             \E a \in {"noService", "noMethod"} : LookupFails(r, c, a, names)
  <2>1. "notFound" \in Statuses
    BY DEF Statuses
  <2> QED
    BY <1>2, <1>4, <2>1 DEF LookupFails, histVars
<1>5. ASSUME NEW c \in Contexts, NEW names \in SUBSET Headers, NEW t \in Routes,
             Dispatch(r, c, t, names)
      PROVE  CalmOK'
  <2> DEFINE first == <<0>>
  <2>1. Len(first) = 1
    OBVIOUS
  <2>2. \/ /\ pc' = [pc EXCEPT ![r] = "chain"]
           /\ stack' = [stack EXCEPT ![r] = first]
        \/ /\ pc' = [pc EXCEPT ![r] = "serve"]
           /\ UNCHANGED stack
    BY <1>5 DEF Dispatch
  <2>3. /\ isResp' = [isResp EXCEPT ![c] = FALSE]
        /\ ctxOf' = [ctxOf EXCEPT ![r] = c]
        /\ UNCHANGED <<answers, nextCalls>>
    BY <1>5 DEF Dispatch, Bind
  <2> HIDE DEF first
  <2>4. CalmAt(r)'
    <3>1. answers'[r] = <<>> /\ Len(answers'[r]) = 0
      BY <1>1, <2>3
    <3>2. (pc'[r] = "chain" /\ Len(stack'[r]) = 1) \/ Len(stack'[r]) = 0
      BY <1>1, <2>1, <2>2 DEF TypeInv, TypeOK
    <3>3. \A i \in 1 .. Len(stack'[r]) :
            ~(i < Len(stack'[r])) /\ pc'[r] # "serve"
      <4>1. CASE pc'[r] = "chain" /\ Len(stack'[r]) = 1
        BY <4>1
      <4>2. CASE Len(stack'[r]) = 0
        BY <4>2
      <4> QED
        BY <3>2, <4>1, <4>2
    <3> QED
      BY <3>1, <3>3 DEF CalmAt
  <2>5. ASSUME NEW q \in Requests, q # r PROVE CalmAt(q)'
    <3>1. pc'[q] = pc[q] /\ stack'[q] = stack[q] /\ ctxOf'[q] = ctxOf[q]
      BY <2>2, <2>3, <2>5 DEF TypeInv, TypeOK
    <3>2. Active(q) => ctxOf[q] \in Contexts /\ ctxOf[q] # c
      BY <1>5, ActiveFacts DEF Dispatch, Get, ContextExclusive, TypeInv
    <3>3. Active(q) => isResp'[ctxOf[q]] = isResp[ctxOf[q]]
      BY <2>3, <3>2 DEF TypeInv, TypeOK
    <3> QED
      BY <2>3, <3>1, <3>3, CalmFrame DEF CalmOK, Active
  <2> QED
    BY <2>4, <2>5 DEF CalmOK
<1> QED
  BY <1>3, <1>4, <1>5 DEF Arrive

\* A calm request calls Next before it is answered: the top of its stack would
\* otherwise call it a second time.
LEMMA CalmCallNext ==
  ASSUME TypeInv, CalmOK, NEW r \in Requests, CallNext(r)
  PROVE  CalmOK'
<1> DEFINE c == ctxOf[r]
           h == index[c] + 1
           n == Len(stack[r])
<1>1. Active(r) /\ pc[r] = "chain"
  BY DEF CallNext, Active
<1>2. /\ c \in Contexts /\ index[c] \in Nat /\ ask[r] \in Routes
      /\ route[c] = ask[r] /\ ChainLen[ask[r]] \in Nat
      /\ stack[r] # <<>> /\ stack[r] \in Seq(HandlerIds) /\ Top(r) \in HandlerIds
  BY <1>1, ActiveFacts DEF TypeInv, TypeOK
<1>3. n \in Nat /\ n > 0 /\ stack[r][n] = Top(r)
  BY <1>2, EmptySeq, LenProperties DEF Top, Last
<1>4. UNCHANGED <<isResp, ctxOf, answers>>
  BY DEF CallNext
<1>5. /\ nextCalls' = [nextCalls EXCEPT ![r][Top(r)] = @ + 1]
      /\ nextCalls[r] \in [HandlerIds -> Nat]
  BY DEF CallNext, TypeInv, TypeOK
<1>6. /\ nextCalls'[r][Top(r)] = nextCalls[r][Top(r)] + 1
      /\ \A i \in HandlerIds \ {Top(r)} : nextCalls'[r][i] = nextCalls[r][i]
  BY <1>2, <1>5 DEF TypeInv, TypeOK
<1>7. \A q \in Requests \ {r} :
        /\ pc'[q] = pc[q] /\ stack'[q] = stack[q]
        /\ nextCalls'[q] = nextCalls[q]
  BY <1>5 DEF CallNext, Advance, TypeInv, TypeOK
<1>8. CalmAt(r)'
  <2>1. SUFFICES ASSUME Calm(r)'
                 PROVE  /\ Len(answers'[r]) <= 1
                        /\ answers'[r] = <<>>
                        /\ \A i \in 1 .. Len(stack'[r]) :
                             i < Len(stack'[r]) \/ pc'[r] = "serve" =>
                               nextCalls'[r][stack'[r][i]] = 1
    BY DEF CalmAt
  <2>2. /\ nextCalls[r][Top(r)] = 0 /\ nextCalls'[r][Top(r)] = 1
        /\ \A i \in HandlerIds \ {Top(r)} : nextCalls[r][i] <= 1
    BY <1>2, <1>5, <1>6, <2>1 DEF Calm
  <2>3. Calm(r)
    BY <2>2 DEF Calm
  <2>4. /\ Len(answers[r]) <= 1
        /\ \A i \in 1 .. n : i < n \/ answers[r] # <<>> =>
                               nextCalls[r][stack[r][i]] = 1
    BY <1>1, <2>3 DEF CalmOK, CalmAt
  <2>5. answers[r] = <<>>
    BY <1>3, <2>2, <2>4
  <2>6. \A i \in 1 .. n : nextCalls'[r][stack[r][i]] = 1
    <3>1. ASSUME NEW i \in 1 .. n PROVE nextCalls'[r][stack[r][i]] = 1
      <4>1. CASE stack[r][i] = Top(r)
        BY <2>2, <4>1
      <4>2. CASE stack[r][i] # Top(r)
        <5>1. i < n /\ stack[r][i] \in HandlerIds
          BY <1>2, <1>3, <4>2, ElementOfSeq
        <5> QED
          BY <1>6, <2>4, <4>2, <5>1
      <4> QED
        BY <4>1, <4>2
    <3> QED
      BY <3>1
  <2>7. CASE h < ChainLen[ask[r]]
    <3>1. stack' = [stack EXCEPT ![r] = Append(@, h)] /\ pc' = pc
      BY <1>2, <2>7 DEF CallNext, Advance
    <3>2. h \in HandlerIds
      BY <1>2, <2>7, HandlerIdsFacts
    <3>3. stack'[r] = Append(stack[r], h)
      BY <3>1 DEF TypeInv, TypeOK
    <3>4. /\ Len(stack'[r]) = n + 1
          /\ \A i \in 1 .. n : stack'[r][i] = stack[r][i]
      <4> HIDE DEF h
      <4> QED
        BY <1>2, <3>2, <3>3, AppendFacts
    <3>5. \A i \in 1 .. n + 1 : i < n + 1 => i \in 1 .. n
      BY <1>3
    <3> QED
      BY <1>1, <1>4, <2>4, <2>5, <2>6, <3>1, <3>4, <3>5
  <2>8. CASE ~(h < ChainLen[ask[r]])
    <3>1. UNCHANGED stack
      BY <1>2, <2>8 DEF CallNext, Advance
    <3> QED
      BY <1>4, <2>4, <2>5, <2>6, <3>1
  <2> QED
    BY <2>7, <2>8
<1>9. ASSUME NEW q \in Requests, q # r PROVE CalmAt(q)'
  BY <1>4, <1>7, <1>9, CalmFrame DEF CalmOK, Active
<1> QED
  BY <1>8, <1>9 DEF CalmOK

\* A handler that returns uncovers one that has used its call of Next; its error
\* is answered only when nothing was.
LEMMA CalmPopHandler ==
  ASSUME TypeInv, CalmOK, NEW r \in Requests, PopHandler(r),
         AnswerError(r, ctxOf[r]) \/ UNCHANGED <<isResp, answers>>
  PROVE  CalmOK'
<1> DEFINE c == ctxOf[r]
           n == Len(stack[r])
<1>1. Active(r) /\ pc[r] = "chain"
  BY DEF PopHandler, Active
<1>2. /\ c \in Contexts /\ owner[c] = r
      /\ stack[r] # <<>> /\ stack[r] \in Seq(HandlerIds) /\ n \in Nat
  BY <1>1, ActiveFacts, LenProperties DEF TypeInv, TypeOK
<1>3. /\ stack'[r] = Front(stack[r]) /\ Len(stack'[r]) = n - 1
      /\ \A i \in 1 .. n - 1 : stack'[r][i] = stack[r][i]
  <2>1. stack'[r] = Front(stack[r])
    BY DEF PopHandler, TypeInv, TypeOK
  <2> QED
    BY <1>2, <2>1, FrontFacts
<1>4. \A q \in Requests : Active(q)' =>
        Active(q) /\ ctxOf'[q] = ctxOf[q] /\ pc'[q] = pc[q]
  BY DEF PopHandler, Release, Active, TypeInv, TypeOK
<1>5. UNCHANGED nextCalls /\ \A q \in Requests \ {r} : stack'[q] = stack[q]
  BY DEF PopHandler, TypeInv, TypeOK
<1>6. \/ UNCHANGED <<isResp, answers>>
      \/ /\ ~isResp[c] /\ isResp' = [isResp EXCEPT ![c] = TRUE]
         /\ answers' = [answers EXCEPT ![r] = Append(@, "error")]
  BY <1>2 DEF AnswerError
<1>7. CalmAt(r)'
  <2>1. SUFFICES ASSUME Calm(r)
                 PROVE  /\ Len(answers'[r]) <= 1
                        /\ Active(r)' =>
                             /\ answers'[r] # <<>> => isResp'[ctxOf'[r]]
                             /\ pc'[r] = "chain"
                             /\ \A i \in 1 .. n - 1 :
                                  nextCalls[r][stack[r][i]] = 1
    BY <1>3, <1>5 DEF CalmAt, Calm
  <2>2. /\ Len(answers[r]) <= 1
        /\ answers[r] # <<>> => isResp[c]
        /\ \A i \in 1 .. n : i < n => nextCalls[r][stack[r][i]] = 1
    BY <1>1, <2>1 DEF CalmOK, CalmAt
  <2>3. /\ Len(answers'[r]) <= 1
        /\ answers'[r] # <<>> => isResp'[c]
    <3>1. CASE UNCHANGED <<isResp, answers>>
      BY <2>2, <3>1
    <3>2. CASE /\ ~isResp[c] /\ isResp' = [isResp EXCEPT ![c] = TRUE]
               /\ answers' = [answers EXCEPT ![r] = Append(@, "error")]
      <4>1. /\ answers'[r] = Append(answers[r], "error") /\ isResp'[c]
            /\ answers[r] \in Seq(Statuses) /\ "error" \in Statuses
        BY <1>2, <3>2 DEF Statuses, TypeInv, TypeOK
      <4>2. answers[r] = <<>> /\ Len(<<>>) = 0
        BY <2>2, <3>2
      <4>3. Len(answers'[r]) = Len(answers[r]) + 1
        BY <4>1, AppendFacts
      <4> QED
        BY <4>1, <4>2, <4>3
    <3> QED
      BY <1>6, <3>1, <3>2
  <2>4. \A i \in 1 .. n - 1 : nextCalls[r][stack[r][i]] = 1
    <3>1. \A i \in 1 .. n - 1 : i \in 1 .. n /\ i < n
      BY <1>2
    <3> QED
      BY <2>2, <3>1
  <2> QED
    BY <1>1, <1>4, <2>3, <2>4
<1>8. ASSUME NEW q \in Requests, q # r PROVE CalmAt(q)'
  <2>1. answers'[q] = answers[q]
    BY <1>6, <1>8 DEF TypeInv, TypeOK
  <2>2. Active(q) => isResp'[ctxOf[q]] = isResp[ctxOf[q]]
    BY <1>1, <1>6, <1>8 DEF ContextExclusive, TypeInv, TypeOK
  <2> QED
    BY <1>4, <1>5, <1>8, <2>1, <2>2, CalmFrame DEF CalmOK
<1> QED
  BY <1>7, <1>8 DEF CalmOK

\* serve writes the first answer of a calm request.
LEMMA CalmServe ==
  ASSUME TypeInv, CalmOK, NEW r \in Requests, NEW res \in ServeResults,
         NEW ks \in SUBSET Keys, Serve(r, res, ks)
  PROVE  CalmOK'
<1> DEFINE c == ctxOf[r]
<1>1. Active(r) /\ pc[r] = "serve"
  BY DEF Serve, Active
<1>2. c \in Contexts /\ owner[c] = r
  BY <1>1, ActiveFacts
<1>3. /\ isResp' = [isResp EXCEPT ![c] = TRUE]
      /\ answers' = [answers EXCEPT ![r] = Append(@, res.answer)]
      /\ UNCHANGED <<stack, nextCalls>>
  BY <1>2 DEF Serve
<1>4. \/ pc' = [pc EXCEPT ![r] = "done"] /\ ctxOf' = [ctxOf EXCEPT ![r] = None]
      \/ pc' = [pc EXCEPT ![r] = "chain"] /\ UNCHANGED ctxOf
  BY DEF Serve, Release
<1>5. CalmAt(r)'
  <2>1. SUFFICES ASSUME Calm(r)
                 PROVE  /\ Len(answers'[r]) <= 1
                        /\ Active(r)' =>
                             /\ isResp'[ctxOf'[r]]
                             /\ pc'[r] = "chain"
                             /\ \A i \in 1 .. Len(stack[r]) :
                                  nextCalls[r][stack[r][i]] = 1
    BY <1>3 DEF CalmAt, Calm
  <2>2. /\ answers[r] = <<>> /\ Len(<<>>) = 0
        /\ \A i \in 1 .. Len(stack[r]) : nextCalls[r][stack[r][i]] = 1
    BY <1>1, <2>1 DEF CalmOK, CalmAt
  <2>3. /\ answers'[r] = Append(answers[r], res.answer)
        /\ answers[r] \in Seq(Statuses) /\ res.answer \in Statuses
    BY <1>3 DEF ServeResults, Statuses, TypeInv, TypeOK
  <2>4. Len(answers'[r]) = Len(answers[r]) + 1
    BY <2>3, AppendFacts
  <2>5. Active(r)' => isResp'[ctxOf'[r]] /\ pc'[r] = "chain"
    BY <1>2, <1>3, <1>4 DEF Active, TypeInv, TypeOK
  <2> QED
    BY <2>2, <2>4, <2>5
<1>6. ASSUME NEW q \in Requests, q # r PROVE CalmAt(q)'
  <2>1. answers'[q] = answers[q] /\ pc'[q] = pc[q] /\ ctxOf'[q] = ctxOf[q]
    BY <1>3, <1>4, <1>6 DEF TypeInv, TypeOK
  <2>2. Active(q) => isResp'[ctxOf[q]] = isResp[ctxOf[q]]
    BY <1>1, <1>3, <1>6 DEF ContextExclusive, TypeInv, TypeOK
  <2> QED
    BY <1>3, <2>1, <2>2, CalmFrame DEF CalmOK, Active
<1> QED
  BY <1>5, <1>6 DEF CalmOK

\* Every step keeps what is known of calm requests.
LEMMA CalmStep == TypeInv /\ CalmOK /\ [Next]_vars => CalmOK'
<1> SUFFICES ASSUME TypeInv, CalmOK, [Next]_vars PROVE CalmOK'
  OBVIOUS
<1>1. CASE UNCHANGED vars
  BY <1>1, CalmFrame DEF vars, ctxVars, histVars, CalmOK, Active
<1>2. ASSUME NEW c \in Contexts, PoolDrop(c) PROVE CalmOK'
  BY <1>2, CalmFrame DEF PoolDrop, ctxVars, histVars, CalmOK, Active
<1>3. ASSUME NEW r \in Requests, Step(r) PROVE CalmOK'
  <2>1. ASSUME NEW k \in Keys, SetRespMeta(r, k) PROVE CalmOK'
    BY <2>1, CalmFrame DEF SetRespMeta, histVars, CalmOK, Active
  <2>2. CASE Panic(r)
    <3>1. \A q \in Requests : Active(q)' =>
            /\ Active(q) /\ ctxOf'[q] = ctxOf[q]
            /\ pc'[q] = pc[q] /\ stack'[q] = stack[q]
      BY <2>2 DEF Panic, Active, TypeInv, TypeOK
    <3> QED
      BY <2>2, <3>1, CalmFrame DEF Panic, ctxVars, histVars, CalmOK
  <2> QED
    BY <1>3, <2>1, <2>2, CalmArrive, CalmCallNext, CalmPopHandler, CalmServe
       DEF Step, ReturnNil, ReturnError
<1> QED
  BY <1>1, <1>2, <1>3 DEF Next

\* Unless a handler calls Next twice the framework answers a request at most
\* once, whichever handlers fail before, below or after the answer.
THEOREM SpecOneAnswer == Spec => []OneAnswer
<1>1. Spec => []CalmOK
  BY CalmInit, CalmStep, Typing, PTL DEF Spec
<1>2. TypeInv /\ CalmOK => OneAnswer
  <2>1. SUFFICES ASSUME TypeInv, CalmOK, NEW r \in Requests, Len(answers[r]) > 1
                 PROVE  \E h \in HandlerIds : nextCalls[r][h] > 1
    BY DEF OneAnswer
  <2>2. Len(answers[r]) \in Nat /\ nextCalls[r] \in [HandlerIds -> Nat]
    <3>1. answers[r] \in Seq(Statuses) /\ nextCalls[r] \in [HandlerIds -> Nat]
      BY <2>1 DEF TypeInv, TypeOK
    <3> QED
      BY <3>1, LenProperties
  <2>3. ~Calm(r)
    BY <2>1, <2>2 DEF CalmOK, CalmAt
  <2> QED
    BY <2>2, <2>3 DEF Calm
<1> QED
  BY <1>1, <1>2, Typing, PTL
=============================================================================
