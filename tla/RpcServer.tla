------------------------------ MODULE RpcServer ------------------------------
(***************************************************************************)
(* The RPC half of a kuja server: Server.ServeHTTP, Context.Next, serve    *)
(* and respError, run by any number of concurrent requests that share one  *)
(* sync.Pool of Context objects.                                           *)
(*                                                                         *)
(* A Context is reused by later requests.  ServeHTTP reassigns some of its *)
(* fields and leaves others (index, ReqMetadata, RespMetadata) as the last *)
(* request left them, so the model keeps every field a later request can   *)
(* observe.  User code (middleware and service methods) is nondeterministic*)
(* within the contract of the Handler type: it may set response metadata,  *)
(* call ctx.Next, return nil or an error, or panic.                        *)
(***************************************************************************)
EXTENDS Naturals, Sequences, SequencesExt

CONSTANTS
  Requests,     \* the HTTP requests the server receives, each served once
  Contexts,     \* identities of Context objects the pool may allocate
  Routes,       \* registered (service, method) pairs
  ChainLen,     \* ChainLen[t] = len(s.handlers) of the service of route t
  Headers,      \* names of request headers
  Keys,         \* names of response metadata
  Snappy,       \* server.snappy
  MaxNextCalls, \* bound: how often one handler calls ctx.Next
  None          \* absence of a request, a context or a route

ASSUME ChainAssumption == ChainLen \in [Routes -> Nat]
ASSUME BoundAssumption == MaxNextCalls \in Nat \ {0}
ASSUME SnappyAssumption == Snappy \in BOOLEAN
ASSUME NoneAssumption == None \notin Requests \cup Contexts \cup Routes

VARIABLES
  pool,      \* contexts in server.pool, ready for reuse
  created,   \* contexts server.pool.New has allocated
  index,     \* ctx.index
  isResp,    \* ctx.isResp
  route,     \* ctx.handlers, ctx.mt, ctx.rcvr and the three name fields
  owner,     \* ctx.req and ctx.w: whose request and writer ctx points to
  reqMeta,   \* ctx.ReqMetadata: for each name, the request that set it
  respMeta,  \* ctx.RespMetadata: for each name, the request that set it
  pc,        \* where the goroutine of each request is
  ask,       \* what the request asks for: a route, or an unroutable request
  hdrs,      \* names of the headers the request carries
  ctxOf,     \* the context the request's goroutine holds
  stack,     \* handlers called and not yet returned, outermost first
  answers,   \* status headers the framework wrote for the request, in order
  sent,      \* response metadata copied into the response headers
  start,     \* history: ctx.index when the request got its context
  ran,       \* history: handlers invoked for the request, in order
  nextCalls, \* history: how often each handler of the request called Next
  invoked,   \* history: routes whose method was invoked for the request
  refused    \* history: an error was returned while nothing was answered

ctxVars  == <<index, isResp, route, owner, reqMeta, respMeta>>
histVars == <<start, ran, nextCalls, invoked, refused>>
vars     == <<pool, created, ctxVars, pc, ask, hdrs, ctxOf, stack, answers,
              sent, histVars>>

-----------------------------------------------------------------------------
\* Requests ServeHTTP answers without reaching a service method.
Unroutable == {"health", "notPost", "badPath", "noService", "noMethod"}

\* "error" stands for both branches of respError: an errors.Error answers
\* with its own status as JSON, any other error with 500 as text.
Statuses == {"ok", "healthOk", "notAllowed", "notFound", "error"}

HandlerIds == UNION {0 .. ChainLen[t] - 1 : t \in Routes}

Active(r) == pc[r] \in {"chain", "serve"}
Finished  == {r \in Requests : pc[r] = "done"}

\* The goroutine of r is in the handler on top of its stack.
Top(r) == Last(stack[r])

NoMeta(names) == [n \in names |-> None]

-----------------------------------------------------------------------------
Init ==
  /\ pool = {}
  /\ created = {}
  /\ index = [c \in Contexts |-> 0]
  /\ isResp = [c \in Contexts |-> FALSE]
  /\ route = [c \in Contexts |-> None]
  /\ owner = [c \in Contexts |-> None]
  /\ reqMeta = [c \in Contexts |-> NoMeta(Headers)]
  /\ respMeta = [c \in Contexts |-> NoMeta(Keys)]
  /\ pc = [r \in Requests |-> "new"]
  /\ ask = [r \in Requests |-> None]
  /\ hdrs = [r \in Requests |-> {}]
  /\ ctxOf = [r \in Requests |-> None]
  /\ stack = [r \in Requests |-> <<>>]
  /\ answers = [r \in Requests |-> <<>>]
  /\ sent = [r \in Requests |-> NoMeta(Keys)]
  /\ start = [r \in Requests |-> 0]
  /\ ran = [r \in Requests |-> <<>>]
  /\ nextCalls = [r \in Requests |-> [h \in HandlerIds |-> 0]]
  /\ invoked = [r \in Requests |-> {}]
  /\ refused = [r \in Requests |-> FALSE]

-----------------------------------------------------------------------------
(* server.pool *)

\* Mutant: the context is put back as soon as it was obtained.
Get_PutAtOnce(c) ==
  /\ c \in pool \/ c \notin created
  /\ pool' = pool \cup {c}
  /\ created' = created \cup {c}

\* pool.Get returns a pooled context or has New allocate one.
Get(c) ==
  /\ c \in pool \/ c \notin created
  /\ pool' = pool \ {c}
  /\ created' = created \cup {c}

\* Headers overwrite entries of the same name; no entry is ever deleted.
CopyHeaders(r, c, names) ==
  reqMeta' = [reqMeta EXCEPT ![c] =
                [n \in Headers |-> IF n \in names THEN r ELSE @[n]]]

\* The runtime may drop a pooled context at any garbage collection.
PoolDrop(c) ==
  /\ c \in pool
  /\ pool' = pool \ {c}
  /\ UNCHANGED <<created, ctxVars, pc, ask, hdrs, ctxOf, stack, answers, sent,
                 histVars>>

-----------------------------------------------------------------------------
(* ServeHTTP *)

\* The health probe, a method other than POST and a malformed path are
\* answered before a context is taken.
EarlyStatus == [health |-> "healthOk", notPost |-> "notAllowed",
                badPath |-> "notFound"]

AnswerEarly(r, a) ==
  /\ pc[r] = "new"
  /\ pc' = [pc EXCEPT ![r] = "done"]
  /\ ask' = [ask EXCEPT ![r] = a]
  /\ answers' = [answers EXCEPT ![r] = Append(@, EarlyStatus[a])]
  /\ UNCHANGED <<pool, created, ctxVars, hdrs, ctxOf, stack, sent, histVars>>

\* An unknown service or method is noticed after the context was taken and
\* its ReqMetadata filled; the early return never puts the context back.
LookupFails(r, c, a, names) ==
  /\ pc[r] = "new"
  /\ Get(c)
  /\ CopyHeaders(r, c, names)
  /\ pc' = [pc EXCEPT ![r] = "done"]
  /\ ask' = [ask EXCEPT ![r] = a]
  /\ hdrs' = [hdrs EXCEPT ![r] = names]
  /\ answers' = [answers EXCEPT ![r] = Append(@, "notFound")]
  /\ UNCHANGED <<index, isResp, route, owner, respMeta, ctxOf, stack, sent,
                 histVars>>

\* Mutant: the method is bound only when the context has none yet.
Bind_RouteOnce(r, c, t) ==
  /\ route' = [route EXCEPT ![c] = IF @ = None THEN t ELSE @]
  /\ owner' = [owner EXCEPT ![c] = r]
  /\ isResp' = [isResp EXCEPT ![c] = FALSE]

\* Mutant: isResp keeps the value the last request left.
Bind_KeepIsResp(r, c, t) ==
  /\ route' = [route EXCEPT ![c] = t]
  /\ owner' = [owner EXCEPT ![c] = r]
  /\ UNCHANGED isResp

\* Fields ServeHTTP assigns before it starts the handlers.
Bind(r, c, t) ==
  /\ route' = [route EXCEPT ![c] = t]
  /\ owner' = [owner EXCEPT ![c] = r]
  /\ isResp' = [isResp EXCEPT ![c] = FALSE]

\* The request has a handler chain: handlers[0] is called directly, whatever
\* index the context carries.
Dispatch(r, c, t, names) ==
  /\ pc[r] = "new"
  /\ Get(c)
  /\ CopyHeaders(r, c, names)
  /\ Bind(r, c, t)
  /\ ask' = [ask EXCEPT ![r] = t]
  /\ hdrs' = [hdrs EXCEPT ![r] = names]
  /\ ctxOf' = [ctxOf EXCEPT ![r] = c]
  /\ start' = [start EXCEPT ![r] = index[c]]
  /\ \/ /\ ChainLen[t] > 0
        /\ pc' = [pc EXCEPT ![r] = "chain"]
        /\ stack' = [stack EXCEPT ![r] = <<0>>]
        /\ ran' = [ran EXCEPT ![r] = <<0>>]
     \/ /\ ChainLen[t] = 0
        /\ pc' = [pc EXCEPT ![r] = "serve"]
        /\ UNCHANGED <<stack, ran>>
  /\ UNCHANGED <<index, respMeta, answers, sent, nextCalls, invoked, refused>>

-----------------------------------------------------------------------------
(* User code in a handler *)

SetRespMeta(r, k) ==
  /\ pc[r] = "chain"
  /\ respMeta' = [respMeta EXCEPT ![ctxOf[r]][k] = r]
  /\ UNCHANGED <<pool, created, index, isResp, route, owner, reqMeta, pc, ask,
                 hdrs, ctxOf, stack, answers, sent, histVars>>

\* Mutant: the next handler is called without advancing the index.
Advance_NoIncrement(r, c) ==
  \/ /\ index[c] + 1 = ChainLen[route[c]]
     /\ pc' = [pc EXCEPT ![r] = "serve"]
     /\ UNCHANGED <<index, stack, ran>>
  \/ /\ index[c] + 1 < ChainLen[route[c]]
     /\ stack' = [stack EXCEPT ![r] = Append(@, index[c] + 1)]
     /\ ran' = [ran EXCEPT ![r] = Append(@, index[c] + 1)]
     /\ UNCHANGED <<index, pc>>

\* Mutant: the method is served one handler early.
Advance_ServeEarly(r, c) ==
  \/ /\ index[c] + 2 >= ChainLen[route[c]]
     /\ pc' = [pc EXCEPT ![r] = "serve"]
     /\ UNCHANGED <<index, stack, ran>>
  \/ /\ index[c] + 2 < ChainLen[route[c]]
     /\ index' = [index EXCEPT ![c] = @ + 1]
     /\ stack' = [stack EXCEPT ![r] = Append(@, index[c] + 1)]
     /\ ran' = [ran EXCEPT ![r] = Append(@, index[c] + 1)]
     /\ UNCHANGED pc

\* ctx.Next: past the last handler it serves, before it the next handler
\* runs, and with a larger index it does nothing.
Advance(r, c) ==
  \/ /\ index[c] + 1 = ChainLen[route[c]]
     /\ pc' = [pc EXCEPT ![r] = "serve"]
     /\ UNCHANGED <<index, stack, ran>>
  \/ /\ index[c] + 1 < ChainLen[route[c]]
     /\ index' = [index EXCEPT ![c] = @ + 1]
     /\ stack' = [stack EXCEPT ![r] = Append(@, index[c] + 1)]
     /\ ran' = [ran EXCEPT ![r] = Append(@, index[c] + 1)]
     /\ UNCHANGED pc
  \/ /\ index[c] + 1 > ChainLen[route[c]]
     /\ UNCHANGED <<index, stack, ran, pc>>

CallNext(r) ==
  /\ pc[r] = "chain"
  /\ nextCalls[r][Top(r)] < MaxNextCalls
  /\ nextCalls' = [nextCalls EXCEPT ![r][Top(r)] = @ + 1]
  /\ Advance(r, ctxOf[r])
  /\ UNCHANGED <<pool, created, isResp, route, owner, reqMeta, respMeta, ask,
                 hdrs, ctxOf, answers, sent, start, invoked, refused>>

\* Mutant: the callers of a handler do not look at isResp.
AnswerError_Always(r, c) ==
  /\ isResp' = [isResp EXCEPT ![c] = TRUE]
  /\ answers' = [answers EXCEPT ![owner[c]] = Append(@, "error")]

\* Either caller of a handler, Next or ServeHTTP, answers its error unless
\* the context says the request was answered.  Next then returns nil.
AnswerError(r, c) ==
  \/ /\ isResp[c]
     /\ UNCHANGED <<isResp, answers>>
  \/ /\ ~isResp[c]
     /\ isResp' = [isResp EXCEPT ![c] = TRUE]
     /\ answers' = [answers EXCEPT ![owner[c]] = Append(@, "error")]

\* ServeHTTP's last act: pool.Put.
Release(r) ==
  /\ pool' = pool \cup {ctxOf[r]}
  /\ pc' = [pc EXCEPT ![r] = "done"]
  /\ ctxOf' = [ctxOf EXCEPT ![r] = None]

\* Mutant: every handler that returns puts the context back.
PopHandler_PutEach(r) ==
  /\ pc[r] = "chain"
  /\ stack' = [stack EXCEPT ![r] = Front(@)]
  /\ pool' = pool \cup {ctxOf[r]}
  /\ IF Len(stack[r]) = 1 THEN pc' = [pc EXCEPT ![r] = "done"]
                          ELSE UNCHANGED pc
  /\ UNCHANGED <<created, index, route, owner, reqMeta, respMeta, ask, hdrs,
                 ctxOf, sent, start, ran, nextCalls, invoked>>

PopHandler(r) ==
  /\ pc[r] = "chain"
  /\ stack' = [stack EXCEPT ![r] = Front(@)]
  /\ IF Len(stack[r]) = 1 THEN Release(r) ELSE UNCHANGED <<pool, pc, ctxOf>>
  /\ UNCHANGED <<created, index, route, owner, reqMeta, respMeta, ask, hdrs,
                 sent, start, ran, nextCalls, invoked>>

ReturnNil(r) ==
  /\ PopHandler(r)
  /\ UNCHANGED <<isResp, answers, refused>>

ReturnError(r) ==
  /\ PopHandler(r)
  /\ AnswerError(r, ctxOf[r])
  /\ refused' = [refused EXCEPT ![r] = @ \/ answers[r] = <<>>]

\* A panic in user code unwinds ServeHTTP; net/http recovers it and the
\* context is never put back.
Panic(r) ==
  /\ Active(r)
  /\ pc' = [pc EXCEPT ![r] = "panicked"]
  /\ ctxOf' = [ctxOf EXCEPT ![r] = None]
  /\ stack' = [stack EXCEPT ![r] = <<>>]
  /\ UNCHANGED <<pool, created, ctxVars, ask, hdrs, answers, sent, histVars>>

-----------------------------------------------------------------------------
(* serve, and respError for the error it returns *)

\* called: the method ran; copied: it returned no error, so RespMetadata was
\* copied into the response headers; answer: what is then written.  With
\* snappy the reply is marshalled first and a failure is an error answer;
\* without it an encoding failure is ignored after the 200.
ServeResults ==
  [called: BOOLEAN, copied: {FALSE}, answer: {"error"}]
  \cup [called: {TRUE}, copied: {TRUE},
        answer: IF Snappy THEN {"ok", "error"} ELSE {"ok"}]

\* The method may set response metadata before it returns.
MethodMeta(r, c, res, ks) ==
  respMeta' = [respMeta EXCEPT ![c] =
                [k \in Keys |-> IF res.called /\ k \in ks THEN r ELSE @[k]]]

\* serve clears isResp on entry and every path out of it, or its caller's
\* respError, sets it: an error of serve is always answered.
Serve(r, res, ks) ==
  LET c == ctxOf[r] IN
  /\ pc[r] = "serve"
  /\ MethodMeta(r, c, res, ks)
  /\ isResp' = [isResp EXCEPT ![c] = TRUE]
  /\ answers' = [answers EXCEPT ![owner[c]] = Append(@, res.answer)]
  /\ sent' = IF res.copied THEN [sent EXCEPT ![owner[c]] = respMeta'[c]]
                           ELSE sent
  /\ invoked' = IF res.called
                THEN [invoked EXCEPT ![owner[c]] = @ \cup {route[c]}]
                ELSE invoked
  /\ refused' = [refused EXCEPT ![r] =
                   @ \/ (res.answer = "error" /\ answers[r] = <<>>)]
  /\ IF stack[r] = <<>>
     THEN Release(r)
     ELSE pc' = [pc EXCEPT ![r] = "chain"] /\ UNCHANGED <<pool, ctxOf>>
  /\ UNCHANGED <<created, index, route, owner, reqMeta, ask, hdrs, stack,
                 start, ran, nextCalls>>

-----------------------------------------------------------------------------
Arrive(r) ==
  \/ \E a \in {"health", "notPost", "badPath"} : AnswerEarly(r, a)
  \/ \E c \in Contexts, names \in SUBSET Headers :
       \/ \E a \in {"noService", "noMethod"} : LookupFails(r, c, a, names)
       \/ \E t \in Routes : Dispatch(r, c, t, names)

Step(r) ==
  \/ Arrive(r)
  \/ \E k \in Keys : SetRespMeta(r, k)
  \/ CallNext(r)
  \/ ReturnNil(r)
  \/ ReturnError(r)
  \/ \E res \in ServeResults, ks \in SUBSET Keys : Serve(r, res, ks)
  \/ Panic(r)

Next ==
  \/ \E r \in Requests : Step(r)
  \/ \E c \in Contexts : PoolDrop(c)

Spec == Init /\ [][Next]_vars

-----------------------------------------------------------------------------
(* Properties *)

\* Every variable keeps its type; in particular Next never calls a handler
\* outside the service's chain.
TypeOK ==
  /\ pool \subseteq Contexts
  /\ created \subseteq Contexts
  /\ index \in [Contexts -> Nat]
  /\ isResp \in [Contexts -> BOOLEAN]
  /\ route \in [Contexts -> Routes \cup {None}]
  /\ owner \in [Contexts -> Requests \cup {None}]
  /\ reqMeta \in [Contexts -> [Headers -> Requests \cup {None}]]
  /\ respMeta \in [Contexts -> [Keys -> Requests \cup {None}]]
  /\ pc \in [Requests -> {"new", "chain", "serve", "done", "panicked"}]
  /\ ask \in [Requests -> Routes \cup Unroutable \cup {None}]
  /\ hdrs \in [Requests -> SUBSET Headers]
  /\ ctxOf \in [Requests -> Contexts \cup {None}]
  /\ stack \in [Requests -> Seq(HandlerIds)]
  /\ answers \in [Requests -> Seq(Statuses)]
  /\ sent \in [Requests -> [Keys -> Requests \cup {None}]]
  /\ start \in [Requests -> Nat]
  /\ ran \in [Requests -> Seq(HandlerIds)]
  /\ nextCalls \in [Requests -> [HandlerIds -> Nat]]
  /\ invoked \in [Requests -> SUBSET Routes]
  /\ refused \in [Requests -> BOOLEAN]

\* Two requests in flight never work on the same context, and a context in
\* use is not in the pool: pool.Put is reached once and last in ServeHTTP.
ContextExclusive ==
  \A r \in Requests : Active(r) =>
    /\ ctxOf[r] \in created \ pool
    /\ \A q \in Requests \ {r} : Active(q) => ctxOf[q] # ctxOf[r]

\* Whatever request used the context before, the method, the writer and the
\* headers a request in flight finds in its context are its own, and only
\* the method it asked for is invoked for it.
ContextIsTheRequests ==
  \A r \in Requests :
    /\ invoked[r] \subseteq {ask[r]}
    /\ Active(r) => /\ route[ctxOf[r]] = ask[r]
                    /\ owner[ctxOf[r]] = r
                    /\ \A n \in hdrs[r] : reqMeta[ctxOf[r]][n] = r

\* Metadata is never cleared, so a request can see and send values of
\* earlier requests; but only of requests that have finished, never of one
\* still being served, of one that panicked or of one that was not routed.
NoCrossTalk ==
  \A r \in Requests :
    LET visible == {None, r} \cup Finished IN
    /\ \A k \in Keys : sent[r][k] \in visible
    /\ Active(r) => /\ \A n \in Headers : reqMeta[ctxOf[r]][n] \in visible
                    /\ \A k \in Keys : respMeta[ctxOf[r]][k] \in visible

\* However often handlers call Next, the handlers of a request run in chain
\* order, each at most once, starting with the first.
ChainOrder ==
  \A r \in Requests :
    /\ ran[r] # <<>> => ran[r][1] = 0
    /\ \A i, j \in 1 .. Len(ran[r]) : i < j => ran[r][i] < ran[r][j]

\* On a context no request has advanced before, a method is invoked only
\* after every handler of its service ran.
FreshContextRunsAll ==
  \A r \in Requests : invoked[r] # {} /\ start[r] = 0 =>
    ran[r] = [i \in 1 .. ChainLen[ask[r]] |-> i - 1]

\* The framework writes a second response only for a request one of whose
\* handlers called Next more than once: an error returned after the answer
\* is dropped.
OneAnswer ==
  \A r \in Requests :
    Len(answers[r]) > 1 => \E h \in HandlerIds : nextCalls[r][h] > 1

\* A request for which an error was returned before any answer gets an error
\* answer: the client never reads an implicit 200 for a refused request,
\* even on a context whose last request had been answered.
RefusalIsAnswered ==
  \A r \in Requests : refused[r] =>
    /\ answers[r] # <<>>
    /\ answers[r][1] = "error"

\* As example/middleware presents them, all middleware of a service runs
\* before its method.  The code violates this: ctx.index is not reset when a
\* context is reused.
EveryHandlerRuns ==
  \A r \in Requests : invoked[r] # {} =>
    ran[r] = [i \in 1 .. ChainLen[ask[r]] |-> i - 1]
=============================================================================
