--------------------------- MODULE EtcdCacheProofs ---------------------------
(* What EtcdCache answers and how its lock guards the cache, for any clients,*)
(* services and nodes and any number of calls and of changes of the store.   *)
EXTENDS EtcdCache, FiniteSetTheorems, TLAPS

-----------------------------------------------------------------------------
(* The invariants *)

\* Where a client is in a call, the call is one that goes there.
CallOK ==
  \A c \in Clients :
    /\ pc[c] \in {"get", "look", "ask"} => call[c] \in Names
    /\ pc[c] \in {"new", "fill"} => call[c] = "watch"
    /\ pc[c] \in {"list", "peek", "fetch"} => call[c] \in {"watch", "list"}

\* A watcher that waits for the lock or holds it has an event to handle.
EventOK == \A c \in Clients : watcher[c] \in {"lock", "handle"} => event[c] \in Events

\* The store has finitely many nodes under a service, so that they are listed.
StoreOK == \A n \in Names : IsFiniteSet(store[n])

\* Clients that read the cache.
Readers == {c \in Clients : pc[c] \in {"look", "peek"}}

\* Each reader has a read lock of its own and the watcher waits for all.
LockOK ==
  /\ IsFiniteSet(Readers)
  /\ Cardinality(Readers) <= rlocks
  /\ owner # {} => rlocks = 0

TypeInv == TypeOK /\ CallOK /\ EventOK /\ StoreOK /\ LockOK

\* The nodes that f has for a service were registered for it.
IsOwn(f) == \A n \in DOMAIN f \cap Names : ToSet(f[n]) \subseteq ever[n]

\* Where answers come from, the store, the cache and the lists that will be
\* written to it, has only nodes of the service.
OwnOK ==
  /\ \A n \in Names : store[n] \subseteq ever[n]
  /\ IsOwn(services)
  /\ \A c \in Clients : IsOwn(listed[c])

OwnInv == OwnOK /\ AnswersAreOwn

\* Only a watcher that handles an event has the lock.
OwnerOK == \A c \in owner : watcher[c] = "handle"

\* A client starts its watcher at the end of Watch and calls Watch once.
StartOK ==
  \A c \in Clients :
    call[c] = "watch" /\ pc[c] # "ready" => watcher[c] = "off"

LockInv == OwnerOK /\ StartOK

-----------------------------------------------------------------------------
(* Lemmas about the operators of the model *)

\* A finite set becomes a sequence of its elements.
LEMMA SetToSeqIs ==
  ASSUME NEW S, IsFiniteSet(S)
  PROVE  /\ SetToSeq(S) \in Seq(S)
         /\ ToSet(SetToSeq(S)) \subseteq S
<1>1. Cardinality(S) \in Nat /\ ExistsBijection(1 .. Cardinality(S), S)
  BY FS_CardinalityType
<1>2. \E f \in [1 .. Cardinality(S) -> S] : IsInjective(f)
  BY <1>1 DEF ExistsBijection, Bijection, Injection
<1>3. SetToSeq(S) \in [1 .. Cardinality(S) -> S]
  BY <1>2 DEF SetToSeq
<1> QED
  BY <1>1, <1>3 DEF ToSet

\* A map to which another is copied.
LEMMA CopiedIs ==
  ASSUME NEW f, NEW m
  PROVE  /\ DOMAIN Copied(f, m) = DOMAIN f \cup DOMAIN m
         /\ \A x \in DOMAIN m : Copied(f, m)[x] = m[x]
         /\ \A x \in DOMAIN f \ DOMAIN m : Copied(f, m)[x] = f[x]
BY DEF Copied

\* Sequences as the watcher changes them.
LEMMA SequenceLemma ==
  ASSUME NEW S, NEW s \in Seq(S), NEW e \in S
  PROVE  /\ Append(s, e) \in Seq(S)
         /\ <<e>> \in Seq(S)
         /\ [i \in 1 .. Len(s) \div 2 |-> s[2 * i]] \in Seq(S)
         /\ s # <<>> => Head(s) \in S /\ Tail(s) \in Seq(S)
<1>1. Append(s, e) \in Seq(S) /\ <<e>> \in Seq(S)
  OBVIOUS
<1>2. s # <<>> => Head(s) \in S /\ Tail(s) \in Seq(S)
  OBVIOUS
<1>3. Len(s) \div 2 \in Nat
  OBVIOUS
<1>4. \A i \in 1 .. Len(s) \div 2 : 2 * i \in 1 .. Len(s) /\ s[2 * i] \in S
  OBVIOUS
<1>5. [i \in 1 .. Len(s) \div 2 |-> s[2 * i]] \in Seq(S)
  BY <1>3, <1>4
<1> QED
  BY <1>1, <1>2, <1>5

\* What a change of the cache by an event leaves of it: the services of the
\* store are as they were.
LEMMA CachedIs ==
  ASSUME TypeOK, NEW e \in Events, Cached(e)
  PROVE  /\ IsCache(services')
         /\ \A n \in Names : n \in DOMAIN services' <=> n \in DOMAIN services
         /\ \A n \in Names \cap DOMAIN services : services'[n] = services[n]
<1>1. e.node \in Nodes
  BY DEF Events
<1>2. IsCache(services)
  BY DEF TypeOK
<1>3. CASE Blank \notin DOMAIN services /\ e.action # "create"
  BY <1>2, <1>3 DEF Cached
<1>4. CASE Blank \notin DOMAIN services /\ e.action = "create"
  <2> DEFINE one == [n \in {Blank} |-> <<e.node>>]
  <2>1. services' = Copied(services, one)
    BY <1>4 DEF Cached
  <2>2. <<e.node>> \in Seq(Nodes)
    BY <1>1
  <2>3. DOMAIN one = {Blank} /\ one[Blank] = <<e.node>>
    OBVIOUS
  <2>4. /\ DOMAIN services' = {Blank} \cup DOMAIN services
        /\ services'[Blank] = <<e.node>>
        /\ \A x \in DOMAIN services : services'[x] = services[x]
    <3>1. /\ DOMAIN Copied(services, one) = DOMAIN services \cup DOMAIN one
          /\ \A x \in DOMAIN one : Copied(services, one)[x] = one[x]
          /\ \A x \in DOMAIN services \ DOMAIN one :
               Copied(services, one)[x] = services[x]
      BY CopiedIs
    <3> HIDE DEF one
    <3> QED
      BY <1>4, <2>1, <2>3, <3>1
  <2> QED
    BY <1>2, <2>2, <2>4, BlankAssumption DEF IsCache
<1>5. CASE Blank \in DOMAIN services
  <2> DEFINE s == services[Blank]
             t == CASE e.action = "create" -> Append(s, e.node)
                    [] e.action = "delete" -> [i \in 1 .. Len(s) \div 2 |-> s[2 * i]]
                    [] OTHER               -> s
  <2>1. services' = [services EXCEPT ![Blank] = t]
    BY <1>5 DEF Cached
  <2>2. s \in Seq(Nodes)
    BY <1>2, <1>5 DEF IsCache
  <2>3. t \in Seq(Nodes)
    <3> HIDE DEF s
    <3> QED
      BY <1>1, <2>2, SequenceLemma
  <2> HIDE DEF t
  <2> QED
    BY <1>2, <1>5, <2>1, <2>3, BlankAssumption DEF IsCache
<1> QED
  BY <1>3, <1>4, <1>5

-----------------------------------------------------------------------------
(* Types *)

\* A new registry, with an empty cache and store.
LEMMA InitType == Init => TypeInv
<1> SUFFICES ASSUME Init PROVE TypeInv
  OBVIOUS
<1> USE DEF Init
<1>1. DOMAIN <<>> = {}
  OBVIOUS
<1>2. TypeOK
  <2>1. IsCache(<<>>)
    BY <1>1 DEF IsCache
  <2>2. /\ IsCache(services)
        /\ DOMAIN listed = Clients /\ \A c \in Clients : IsCache(listed[c])
    BY <2>1
  <2>3. events \in [Clients -> Seq(Events)]
    OBVIOUS
  <2> QED
    BY <2>2, <2>3, BoundAssumption DEF TypeOK
<1>3. StoreOK
  BY FS_EmptySet DEF StoreOK
<1>4. LockOK
  <2>1. Readers = {}
    BY DEF Readers
  <2> QED
    BY <2>1, FS_EmptySet DEF LockOK
<1> QED
  BY <1>2, <1>3, <1>4 DEF TypeInv, CallOK, EventOK

\* A change of the store is an event of the watches.
LEMMA ChangeType ==
  ASSUME TypeInv, NEW action \in {"create", "set", "delete", "expire"},
         NEW n \in Names, NEW u \in Nodes, Change(action, n, u)
  PROVE  /\ changes' \in 0 .. MaxChanges
         /\ events' \in [Clients -> Seq(Events)]
<1> DEFINE e == [action |-> action, name |-> n, node |-> u]
<1>1. changes' \in 0 .. MaxChanges
  BY BoundAssumption DEF TypeInv, TypeOK, Change
<1>2. e \in Events
  BY DEF Events
<1>3. \A c \in Clients : events[c] \in Seq(Events)
  BY DEF TypeInv, TypeOK
<1> HIDE DEF e
<1>4. \A c \in Clients : Append(events[c], e) \in Seq(Events)
  BY <1>2, <1>3, SequenceLemma
<1>5. events' = [c \in Clients |->
        IF watcher[c] \in {"idle", "lock", "handle"}
        THEN Append(events[c], e) ELSE events[c]]
  BY DEF Change, e
<1> QED
  BY <1>1, <1>3, <1>4, <1>5

\* The store keeps its type, and what users and watchers do is not disturbed.
LEMMA StoreType ==
  ASSUME TypeInv, NEW n \in Names, NEW u \in Nodes,
         Appear(n, u) \/ Disappear(n, u) \/ Refresh(n, u)
  PROVE  TypeInv'
<1> USE DEF TypeInv
<1>1. PICK action \in {"create", "set", "delete", "expire"} : Change(action, n, u)
  BY DEF Appear, Disappear, Refresh
<1>2. changes' \in 0 .. MaxChanges /\ events' \in [Clients -> Seq(Events)]
  BY <1>1, ChangeType
<1>3. UNCHANGED <<services, lockVars, callVars, watcher, event>>
  BY <1>1 DEF Change
<1>4. /\ store' \in [Names -> SUBSET Nodes]
      /\ dirs' \subseteq Names
      /\ ever' \in [Names -> SUBSET Nodes]
  <2>1. CASE Appear(n, u)
    BY <2>1 DEF TypeOK, Appear
  <2>2. CASE Disappear(n, u)
    BY <2>2 DEF TypeOK, Disappear
  <2>3. CASE Refresh(n, u)
    BY <2>3 DEF TypeOK, Refresh
  <2> QED
    BY <2>1, <2>2, <2>3
<1>5. TypeOK'
  BY <1>2, <1>3, <1>4 DEF TypeOK, lockVars, callVars, IsCache
<1>6. CallOK' /\ EventOK'
  BY <1>3 DEF CallOK, EventOK, callVars
<1>7. StoreOK'
  <2>1. \A m \in Names :
          \/ store'[m] = store[m]
          \/ store'[m] = store[m] \cup {u}
          \/ store'[m] = store[m] \ {u}
    BY DEF TypeOK, Appear, Disappear, Refresh
  <2>2. \A m \in Names : /\ IsFiniteSet(store[m] \cup {u})
                         /\ IsFiniteSet(store[m] \ {u})
    BY FS_AddElement, FS_RemoveElement DEF StoreOK
  <2> QED
    BY <2>1, <2>2 DEF StoreOK
<1>8. LockOK'
  BY <1>3 DEF LockOK, Readers, lockVars, callVars
<1> QED
  BY <1>5, <1>6, <1>7, <1>8

\* What a call of the registry leaves alone.
LEMMA CallFrame ==
  ASSUME NEW c \in Clients,
         Proceed(c) \/ NewClient(c) \/ List(c) \/ \E n \in Names : Get(c, n)
  PROVE  UNCHANGED <<storeVars, waiting, owner, events, event>>
BY DEF Proceed, NewClient, List, Get, GetLocks, Look, Ask, ListLocks, Peek, Fetch,
  FetchFails, Fill, Listed, storeVars, lockVars, watchVars

\* The list of the store that Fetch returns.
LEMMA FetchedIs ==
  ASSUME TypeInv
  PROVE  /\ IsCache([n \in dirs |-> SetToSeq(store[n])])
         /\ \A n \in dirs : ToSet(SetToSeq(store[n])) \subseteq store[n]
<1>1. \A n \in dirs : n \in Names /\ IsFiniteSet(store[n]) /\ store[n] \subseteq Nodes
  BY DEF TypeInv, TypeOK, StoreOK
<1>2. \A n \in dirs : /\ SetToSeq(store[n]) \in Seq(store[n])
                      /\ ToSet(SetToSeq(store[n])) \subseteq store[n]
  BY <1>1, SetToSeqIs
<1>3. \A n \in dirs : SetToSeq(store[n]) \in Seq(Nodes)
  BY <1>1, <1>2
<1> QED
  BY <1>1, <1>2, <1>3 DEF IsCache

\* Read locks are taken before the cache is read and given back after.
LEMMA CallLock ==
  ASSUME TypeInv, NEW c \in Clients,
         Proceed(c) \/ NewClient(c) \/ List(c) \/ \E n \in Names : Get(c, n)
  PROVE  LockOK' /\ rlocks' \in Nat
<1> USE DEF TypeInv, TypeOK, LockOK
<1>1. UNCHANGED owner
  BY CallFrame
<1>2. /\ IsFiniteSet(Readers) /\ Cardinality(Readers) \in Nat
      /\ rlocks \in Nat /\ Cardinality(Readers) <= rlocks
  BY FS_CardinalityType
<1>3. ASSUME GetLocks(c) \/ ListLocks(c)
      PROVE  LockOK' /\ rlocks' \in Nat
  <2>1. c \notin Readers /\ Readers' = Readers \cup {c}
    BY <1>3 DEF Readers, GetLocks, ListLocks
  <2>2. owner = {} /\ rlocks' = rlocks + 1
    BY <1>3 DEF GetLocks, ListLocks, RLock
  <2>3. IsFiniteSet(Readers') /\ Cardinality(Readers') = Cardinality(Readers) + 1
    BY <1>2, <2>1, FS_AddElement
  <2> QED
    BY <1>1, <1>2, <2>2, <2>3
<1>4. ASSUME Look(c) \/ Peek(c)
      PROVE  LockOK' /\ rlocks' \in Nat
  <2>1. c \in Readers /\ Readers' = Readers \ {c}
    BY <1>4 DEF Readers, Look, Peek, Listed
  <2>2. rlocks' \in {rlocks, rlocks - 1}
    BY <1>4 DEF Look, Peek, RUnlock
  <2>3. IsFiniteSet(Readers') /\ Cardinality(Readers') = Cardinality(Readers) - 1
    BY <1>2, <2>1, FS_RemoveElement
  <2>4. Cardinality(Readers) # 0
    BY <1>2, <2>1, FS_EmptySet
  <2>5. Cardinality(Readers') <= rlocks' /\ rlocks' \in Nat
    BY <1>2, <2>2, <2>3, <2>4
  <2>6. owner = {}
    BY <1>2, <2>4
  <2> QED
    BY <1>1, <2>3, <2>5, <2>6
<1>5. ASSUME \/ Ask(c) \/ Fetch(c) \/ FetchFails(c) \/ Fill(c)
             \/ NewClient(c) \/ List(c) \/ \E n \in Names : Get(c, n)
      PROVE  LockOK' /\ rlocks' \in Nat
  <2>1. Readers' = Readers
    BY <1>5 DEF Readers, Ask, Fetch, FetchFails, Fill, NewClient, List, Get, Listed
  <2>2. rlocks' = rlocks
    BY <1>5 DEF Ask, Fetch, FetchFails, Fill, NewClient, List, Get, lockVars
  <2> QED
    BY <1>1, <1>2, <2>1, <2>2
<1> QED
  BY <1>3, <1>4, <1>5 DEF Proceed

\* A call of the registry keeps the types.
LEMMA CallType ==
  ASSUME TypeInv, NEW c \in Clients,
         Proceed(c) \/ NewClient(c) \/ List(c) \/ \E n \in Names : Get(c, n)
  PROVE  TypeInv'
<1> USE DEF TypeInv
<1>1. UNCHANGED <<storeVars, waiting, owner, events, event>>
  BY CallFrame
<1>2. LockOK' /\ rlocks' \in Nat
  BY CallLock
<1>3. StoreOK'
  BY <1>1 DEF StoreOK, storeVars
<1> USE BoundAssumption, NamesAssumption
<1> USE DEF TypeOK, CallOK, EventOK, storeVars, lockVars, watchVars
<1>4. ASSUME NEW n \in Names, Get(c, n)
      PROVE  TypeOK' /\ CallOK' /\ EventOK'
  BY <1>1, <1>2, <1>4 DEF Get, IsCache
<1>5. CASE NewClient(c)
  BY <1>1, <1>2, <1>3, <1>5 DEF NewClient, IsCache
<1>6. CASE List(c)
  BY <1>1, <1>2, <1>3, <1>6 DEF List, IsCache
<1>7. CASE GetLocks(c) \/ ListLocks(c)
  BY <1>1, <1>2, <1>3, <1>7 DEF GetLocks, ListLocks, IsCache
<1>8. CASE Look(c)
  <2>1. call[c] \in DOMAIN services => ToSet(services[call[c]]) \in SUBSET Nodes
    BY DEF IsCache, ToSet
  <2>2. PICK found \in SUBSET Nodes : answer' = [answer EXCEPT ![c] = found]
    <3>1. CASE call[c] \in DOMAIN services
      BY <1>8, <2>1, <3>1 DEF Look
    <3>2. CASE call[c] \notin DOMAIN services
      <4>1. answer' = [answer EXCEPT ![c] = answer[c]] /\ answer[c] \in SUBSET Nodes
        BY <1>8, <3>2 DEF Look
      <4> QED
        BY <4>1
    <3> QED
      BY <3>1, <3>2
  <2>3. /\ pc' \in {[pc EXCEPT ![c] = "ready"], [pc EXCEPT ![c] = "ask"]}
        /\ pc[c] = "look"
        /\ UNCHANGED <<services, call, gets, lists, listed, watcher>>
    BY <1>8 DEF Look
  <2> QED
    BY <1>1, <1>2, <1>3, <2>2, <2>3 DEF IsCache
<1>9. CASE Ask(c)
  BY <1>1, <1>2, <1>3, <1>9 DEF Ask, IsCache
<1>10. CASE Peek(c)
  BY <1>1, <1>2, <1>3, <1>10 DEF Peek, Listed, IsCache
<1>11. CASE Fetch(c)
  <2> DEFINE found == [n \in dirs |-> SetToSeq(store[n])]
  <2>1. IsCache(found)
    BY FetchedIs
  <2>2. Listed(c, found)
    BY <1>11 DEF Fetch
  <2> HIDE DEF found
  <2> QED
    BY <1>1, <1>2, <1>3, <1>11, <2>1, <2>2 DEF Fetch, Listed, IsCache
<1>12. CASE FetchFails(c)
  BY <1>1, <1>2, <1>3, <1>12 DEF FetchFails, IsCache
<1>13. CASE Fill(c)
  <2>1. IsCache(services) /\ IsCache(listed[c])
    OBVIOUS
  <2> DEFINE filled == Copied(services, listed[c])
  <2>2. /\ DOMAIN filled = DOMAIN services \cup DOMAIN listed[c]
        /\ \A n \in DOMAIN listed[c] : filled[n] = listed[c][n]
        /\ \A n \in DOMAIN services \ DOMAIN listed[c] : filled[n] = services[n]
    BY DEF Copied
  <2>3. services' = filled
    BY <1>13 DEF Fill
  <2> HIDE DEF filled
  <2>4. IsCache(filled)
    BY <2>1, <2>2 DEF IsCache
  <2> QED
    BY <1>1, <1>2, <1>3, <1>13, <2>3, <2>4 DEF Fill, IsCache
<1> QED
  BY <1>2, <1>3, <1>4, <1>5, <1>6, <1>7, <1>8, <1>9, <1>10, <1>11, <1>12, <1>13
  DEF Proceed

\* What a watcher leaves alone.
LEMMA FollowFrame ==
  ASSUME NEW c \in Clients, Follow(c) \/ WatchEnds(c)
  PROVE  UNCHANGED <<storeVars, rlocks, callVars>>
BY DEF Follow, Connected, Receive, Lock, Handle, WatchEnds, storeVars, lockVars, callVars

\* A step of a watcher keeps the types.
LEMMA FollowType ==
  ASSUME TypeInv, NEW c \in Clients, Follow(c) \/ WatchEnds(c)
  PROVE  TypeInv'
<1> USE DEF TypeInv
<1>1. UNCHANGED <<storeVars, rlocks, callVars>>
  BY FollowFrame
<1>2. CallOK' /\ StoreOK'
  BY <1>1 DEF CallOK, StoreOK, callVars, storeVars
<1>3. LockOK'
  <2>1. owner' # {} => owner # {} \/ rlocks = 0
    BY DEF Follow, Connected, Receive, Lock, Handle, WatchEnds, lockVars, Unlock
  <2> QED
    BY <1>1, <2>1 DEF LockOK, Readers, callVars
<1> USE <1>1 DEF TypeOK, EventOK, storeVars, lockVars, callVars
<1>4. CASE Connected(c)
  BY <1>2, <1>3, <1>4 DEF Connected, IsCache
<1>5. CASE WatchEnds(c)
  <2>1. <<>> \in Seq(Events)
    OBVIOUS
  <2> QED
    BY <1>2, <1>3, <1>5, <2>1 DEF WatchEnds, IsCache
<1>6. CASE Receive(c)
  <2>1. Head(events[c]) \in Events /\ Tail(events[c]) \in Seq(Events)
    BY <1>6 DEF Receive
  <2> QED
    BY <1>2, <1>3, <1>6, <2>1 DEF Receive, IsCache
<1>7. CASE Lock(c)
  BY <1>2, <1>3, <1>7 DEF Lock, IsCache
<1>8. CASE Handle(c)
  <2>1. event[c] \in Events
    BY <1>8 DEF Handle
  <2>2. Cached(event[c])
    BY <1>8 DEF Handle
  <2>3. IsCache(services')
    BY <2>1, <2>2, CachedIs
  <2> QED
    BY <1>2, <1>3, <1>8, <2>3 DEF Handle, Unlock, IsCache
<1> QED
  BY <1>4, <1>5, <1>6, <1>7, <1>8 DEF Follow

\* A step that changes nothing.
LEMMA StutterType == TypeInv /\ UNCHANGED vars => TypeInv'
BY DEF TypeInv, TypeOK, CallOK, EventOK, StoreOK, LockOK, Readers, IsCache, vars,
  storeVars, lockVars, callVars, watchVars

\* The steps of the registry are those of the store, of calls and of watchers.
LEMMA NextIs ==
  ASSUME Next
  PROVE  \/ \E n \in Names, u \in Nodes :
              Appear(n, u) \/ Disappear(n, u) \/ Refresh(n, u)
         \/ \E c \in Clients :
              Proceed(c) \/ NewClient(c) \/ List(c) \/ \E n \in Names : Get(c, n)
         \/ \E c \in Clients : Follow(c) \/ WatchEnds(c)
BY DEF Next

LEMMA NextType == TypeInv /\ [Next]_vars => TypeInv'
<1> SUFFICES ASSUME TypeInv, [Next]_vars PROVE TypeInv'
  OBVIOUS
<1>1. CASE Next
  BY <1>1, NextIs, StoreType, CallType, FollowType
<1>2. CASE UNCHANGED vars
  BY <1>2, StutterType
<1> QED
  BY <1>1, <1>2

\* Every variable keeps its type, and a call and a watcher find what they need
\* where they are.
THEOREM SpecType == Spec => []TypeInv
BY InitType, NextType, PTL DEF Spec

-----------------------------------------------------------------------------
(* Answers *)

\* A node enters the history of a service with the store.
LEMMA StoreOwn ==
  ASSUME TypeInv, OwnInv, NEW n \in Names, NEW u \in Nodes,
         Appear(n, u) \/ Disappear(n, u) \/ Refresh(n, u)
  PROVE  OwnInv'
<1>1. /\ \A m \in Names : ever[m] \subseteq ever'[m] /\ store'[m] \subseteq ever'[m]
      /\ UNCHANGED <<services, callVars>>
  <2> USE DEF TypeInv, TypeOK, OwnInv, OwnOK, Change, storeVars
  <2>1. CASE Appear(n, u)
    BY <2>1 DEF Appear
  <2>2. CASE Disappear(n, u)
    BY <2>2 DEF Disappear
  <2>3. CASE Refresh(n, u)
    BY <2>3 DEF Refresh
  <2> QED
    BY <2>1, <2>2, <2>3
<1>2. OwnOK'
  BY <1>1 DEF OwnInv, OwnOK, IsOwn, callVars
<1>3. AnswersAreOwn'
  BY <1>1 DEF OwnInv, AnswersAreOwn, callVars
<1> QED
  BY <1>2, <1>3 DEF OwnInv

\* A call answers from the cache or the store, and fills the cache with the
\* list it found there.
LEMMA CallOwn ==
  ASSUME TypeInv, OwnInv, NEW c \in Clients,
         Proceed(c) \/ NewClient(c) \/ List(c) \/ \E n \in Names : Get(c, n)
  PROVE  OwnInv'
<1> USE DEF TypeInv, OwnInv
<1>1. UNCHANGED <<store, dirs, ever>>
  BY CallFrame DEF storeVars
<1>2. \A n \in Names : store'[n] \subseteq ever'[n]
  BY <1>1 DEF OwnOK
<1>3. IsOwn(services)'
  <2>1. CASE Fill(c)
    <3>1. IsOwn(services) /\ IsOwn(listed[c])
      BY DEF OwnOK
    <3>2. services' = Copied(services, listed[c])
      BY <2>1 DEF Fill
    <3> QED
      BY <1>1, <3>1, <3>2 DEF IsOwn, Copied
  <2>2. CASE ~Fill(c)
    <3>1. UNCHANGED services
      BY <2>2 DEF Proceed, NewClient, List, Get, GetLocks, Look, Ask, ListLocks,
        Peek, Fetch, FetchFails
    <3> QED
      BY <1>1, <3>1 DEF OwnOK, IsOwn
  <2> QED
    BY <2>1, <2>2
<1>4. \A d \in Clients : IsOwn(listed[d])'
  <2>1. PICK found : IsOwn(found) /\ listed' \in {listed, [listed EXCEPT ![c] = found]}
    <3>1. CASE Peek(c)
      BY <3>1 DEF Peek, Listed, OwnOK
    <3>2. CASE Fetch(c)
      <4> DEFINE found == [n \in dirs |-> SetToSeq(store[n])]
      <4>1. IsOwn(found)
        BY FetchedIs DEF TypeOK, OwnOK, IsOwn
      <4>2. listed' = [listed EXCEPT ![c] = found]
        BY <3>2 DEF Fetch, Listed
      <4> QED
        BY <4>1, <4>2
    <3>3. CASE ~Peek(c) /\ ~Fetch(c)
      <4>1. UNCHANGED listed
        BY <3>3 DEF Proceed, NewClient, List, Get, GetLocks, Look, Ask, ListLocks,
          FetchFails, Fill
      <4> QED
        BY <4>1 DEF OwnOK
    <3> QED
      BY <3>1, <3>2, <3>3
  <2>2. DOMAIN listed = Clients
    BY DEF TypeOK
  <2> QED
    BY <1>1, <2>1, <2>2 DEF OwnOK, IsOwn
<1>5. AnswersAreOwn'
  <2> USE NamesAssumption DEF AnswersAreOwn, TypeOK, CallOK
  <2>1. CASE Look(c)
    <3>1. call[c] \in DOMAIN services => ToSet(services[call[c]]) \subseteq ever[call[c]]
      BY <2>1 DEF OwnOK, IsOwn, Look
    <3>2. UNCHANGED call
      BY <2>1 DEF Look
    <3>3. CASE call[c] \in DOMAIN services
      <4>1. answer' = [answer EXCEPT ![c] = ToSet(services[call[c]])]
        BY <2>1, <3>3 DEF Look
      <4>2. \A d \in Clients \ {c} : answer'[d] = answer[d] /\ pc'[d] = pc[d]
        BY <2>1, <4>1 DEF Look
      <4>3. answer'[c] \subseteq ever[call[c]]
        BY <3>1, <3>3, <4>1
      <4> QED
        BY <1>1, <3>2, <4>2, <4>3
    <3>4. CASE call[c] \notin DOMAIN services
      <4>1. UNCHANGED answer /\ pc' = [pc EXCEPT ![c] = "ask"]
        BY <2>1, <3>4 DEF Look
      <4> QED
        BY <1>1, <3>2, <4>1
    <3> QED
      BY <3>3, <3>4
  <2>2. CASE Ask(c)
    BY <1>1, <2>2 DEF Ask, OwnOK
  <2>3. ASSUME NEW n \in Names, Get(c, n) PROVE AnswersAreOwn'
    BY <1>1, <2>3 DEF Get
  <2>4. CASE NewClient(c) \/ List(c)
    <3>1. /\ pc' = [pc EXCEPT ![c] = "list"]
          /\ \A d \in Clients \ {c} : call'[d] = call[d]
          /\ UNCHANGED answer
      BY <2>4 DEF NewClient, List
    <3> QED
      BY <1>1, <3>1
  <2>5. CASE Peek(c)
    BY <1>1, <2>5 DEF Peek, Listed
  <2>6. CASE Fetch(c)
    BY <1>1, <2>6 DEF Fetch, Listed
  <2>7. CASE FetchFails(c) \/ Fill(c)
    BY <1>1, <2>7 DEF FetchFails, Fill
  <2>8. CASE GetLocks(c) \/ ListLocks(c)
    BY <1>1, <2>8 DEF GetLocks, ListLocks
  <2> QED
    BY <2>1, <2>2, <2>3, <2>4, <2>5, <2>6, <2>7, <2>8 DEF Proceed
<1> QED
  BY <1>2, <1>3, <1>4, <1>5 DEF OwnOK

\* The events of a watcher have no name, so they bring no node into a service.
LEMMA FollowOwn ==
  ASSUME TypeInv, OwnInv, NEW c \in Clients, Follow(c) \/ WatchEnds(c)
  PROVE  OwnInv'
<1>1. UNCHANGED <<storeVars, callVars>>
  BY FollowFrame
<1>2. IsOwn(services)'
  <2>1. CASE Handle(c)
    <3>1. event[c] \in Events
      BY <2>1 DEF TypeInv, EventOK, Handle
    <3>2. /\ \A n \in Names : n \in DOMAIN services' <=> n \in DOMAIN services
          /\ \A n \in Names \cap DOMAIN services : services'[n] = services[n]
      BY <2>1, <3>1, CachedIs DEF TypeInv, Handle
    <3> QED
      BY <1>1, <3>2 DEF OwnInv, OwnOK, IsOwn, storeVars
  <2>2. CASE ~Handle(c)
    <3>1. UNCHANGED services
      BY <2>2 DEF Follow, Connected, Receive, Lock, WatchEnds
    <3> QED
      BY <1>1, <3>1 DEF OwnInv, OwnOK, IsOwn, storeVars
  <2> QED
    BY <2>1, <2>2
<1> QED
  BY <1>1, <1>2 DEF OwnInv, OwnOK, IsOwn, AnswersAreOwn, storeVars, callVars

LEMMA InitOwn == Init => OwnInv
<1> SUFFICES ASSUME Init PROVE OwnInv
  OBVIOUS
<1>1. DOMAIN <<>> = {}
  OBVIOUS
<1>2. IsOwn(<<>>)
  BY <1>1 DEF IsOwn
<1> QED
  BY <1>2 DEF Init, OwnInv, OwnOK, AnswersAreOwn

LEMMA NextOwn == TypeInv /\ OwnInv /\ [Next]_vars => OwnInv'
<1> SUFFICES ASSUME TypeInv, OwnInv, [Next]_vars PROVE OwnInv'
  OBVIOUS
<1>1. CASE Next
  BY <1>1, NextIs, StoreOwn, CallOwn, FollowOwn
<1>2. CASE UNCHANGED vars
  BY <1>2 DEF OwnInv, OwnOK, IsOwn, AnswersAreOwn, vars, storeVars, callVars
<1> QED
  BY <1>1, <1>2

\* A client is never sent to a node that was not registered for the service it
\* asked for, with any number of clients that share the cache.
THEOREM SpecAnswersAreOwn == Spec => []AnswersAreOwn
<1>1. Spec => [](TypeInv /\ OwnInv)
  BY InitType, NextType, InitOwn, NextOwn, PTL DEF Spec
<1>2. OwnInv => AnswersAreOwn
  BY DEF OwnInv
<1> QED
  BY <1>1, <1>2, PTL

-----------------------------------------------------------------------------
(* The lock *)

\* Calls leave the lock's owner alone, and start a watcher only where none is.
LEMMA CallGuard ==
  ASSUME TypeInv, LockInv, NEW c \in Clients,
         Proceed(c) \/ NewClient(c) \/ List(c) \/ \E n \in Names : Get(c, n)
  PROVE  LockInv'
<1> USE DEF TypeInv, LockInv
<1>1. UNCHANGED owner
  BY CallFrame
<1>2. OwnerOK'
  <2>1. CASE Fill(c)
    <3>1. c \notin owner
      BY <2>1 DEF Fill, OwnerOK, StartOK, CallOK
    <3> QED
      BY <1>1, <2>1, <3>1 DEF Fill, OwnerOK, TypeOK
  <2>2. CASE ~Fill(c)
    <3>1. UNCHANGED watcher
      BY <2>2 DEF Proceed, NewClient, List, Get, GetLocks, Look, Ask, ListLocks,
        Peek, Fetch, FetchFails, Listed, watchVars
    <3> QED
      BY <1>1, <3>1 DEF OwnerOK
  <2> QED
    BY <2>1, <2>2
<1>3. StartOK'
  <2> USE NamesAssumption DEF StartOK, CallOK, TypeOK, watchVars
  <2>1. ASSUME NEW n \in Names, Get(c, n) PROVE StartOK'
    BY <2>1 DEF Get
  <2>2. CASE NewClient(c)
    BY <2>2 DEF NewClient
  <2>3. CASE List(c)
    BY <2>3 DEF List
  <2>4. CASE GetLocks(c) \/ ListLocks(c)
    BY <2>4 DEF GetLocks, ListLocks
  <2>5. CASE Look(c)
    BY <2>5 DEF Look
  <2>6. CASE Ask(c) \/ Fill(c)
    BY <2>6 DEF Ask, Fill
  <2>7. CASE Peek(c)
    BY <2>7 DEF Peek, Listed
  <2>8. CASE Fetch(c) \/ FetchFails(c)
    BY <2>8 DEF Fetch, FetchFails, Listed
  <2> QED
    BY <2>1, <2>2, <2>3, <2>4, <2>5, <2>6, <2>7, <2>8 DEF Proceed
<1> QED
  BY <1>2, <1>3

\* A watcher takes the lock to handle an event and has given it back when it
\* waits for the next.
LEMMA FollowGuard ==
  ASSUME TypeInv, LockInv, NEW c \in Clients, Follow(c) \/ WatchEnds(c)
  PROVE  LockInv'
<1> USE DEF TypeInv, TypeOK, LockInv, OwnerOK, lockVars
<1>1. UNCHANGED callVars
  BY FollowFrame
<1>2. OwnerOK'
  <2>1. CASE Lock(c)
    BY <2>1 DEF Lock
  <2>2. CASE Handle(c)
    BY <2>2 DEF Handle, Unlock
  <2>3. CASE Connected(c) \/ Receive(c) \/ WatchEnds(c)
    BY <2>3 DEF Connected, Receive, WatchEnds
  <2> QED
    BY <2>1, <2>2, <2>3 DEF Follow
<1>3. watcher[c] # "off" /\ \A d \in Clients \ {c} : watcher'[d] = watcher[d]
  BY DEF Follow, Connected, Receive, Lock, Handle, WatchEnds
<1>4. StartOK'
  BY <1>1, <1>3 DEF StartOK, callVars
<1> QED
  BY <1>2, <1>4

LEMMA NextGuard == TypeInv /\ LockInv /\ [Next]_vars => LockInv'
<1> SUFFICES ASSUME TypeInv, LockInv, [Next]_vars PROVE LockInv'
  OBVIOUS
<1>1. ASSUME NEW n \in Names, NEW u \in Nodes,
             Appear(n, u) \/ Disappear(n, u) \/ Refresh(n, u)
      PROVE  LockInv'
  BY <1>1 DEF Appear, Disappear, Refresh, Change, LockInv, OwnerOK, StartOK,
    lockVars, callVars
<1>2. CASE Next
  BY <1>1, <1>2, NextIs, CallGuard, FollowGuard
<1>3. CASE UNCHANGED vars
  BY <1>3 DEF LockInv, OwnerOK, StartOK, vars, lockVars, callVars, watchVars
<1> QED
  BY <1>2, <1>3

LEMMA SpecLock == Spec => [](TypeInv /\ LockInv)
<1>1. Init => LockInv
  BY DEF Init, LockInv, OwnerOK, StartOK
<1> QED
  BY <1>1, InitType, NextType, NextGuard, PTL DEF Spec

\* Clients that read the cache have read locks, which the watcher respects,
\* with any number of clients that share the registry.  A client that fills the
\* cache does so without a lock, beside the watchers of others: its own does not
\* run yet.
Guarded ==
  /\ Cardinality(Readers) <= rlocks
  /\ owner # {} => rlocks = 0
  /\ owner # {} => Readers = {}
  /\ \A c \in Clients : pc[c] = "fill" => c \notin owner /\ watcher[c] = "off"

\* With any number of clients that share the registry, no read of its cache
\* meets a change by a watcher.
THEOREM SpecGuarded == Spec => []Guarded
<1>1. ASSUME TypeInv, LockInv PROVE Guarded
  <2>1. IsFiniteSet(Readers) /\ Cardinality(Readers) <= rlocks
    BY <1>1 DEF TypeInv, LockOK
  <2>2. owner # {} => rlocks = 0
    BY <1>1 DEF TypeInv, LockOK
  <2>3. Cardinality(Readers) = 0 => Readers = {}
    BY <2>1, FS_EmptySet
  <2>4. Cardinality(Readers) \in Nat
    BY <2>1, FS_CardinalityType
  <2>5. owner # {} => Readers = {}
    BY <2>1, <2>2, <2>3, <2>4
  <2>6. \A c \in Clients : pc[c] = "fill" => c \notin owner /\ watcher[c] = "off"
    BY <1>1 DEF TypeInv, CallOK, LockInv, StartOK, OwnerOK
  <2> QED
    BY <2>1, <2>2, <2>5, <2>6 DEF Guarded
<1> QED
  BY <1>1, SpecLock, PTL

\* A registry of one client: whoever reads or writes the cache has it for
\* itself, though Watch writes it without the lock.
THEOREM SpecCacheGuarded ==
  ASSUME \A c, d \in Clients : c = d
  PROVE  Spec => []CacheGuarded
<1>1. ASSUME TypeInv, LockInv PROVE CacheGuarded
  <2>1. TypeOK /\ Cardinality(Readers) <= rlocks /\ (owner # {} => rlocks = 0)
    BY <1>1 DEF TypeInv, LockOK
  <2>2. owner \subseteq Clients
    BY <2>1 DEF TypeOK
  <2>3. \A c \in Clients : pc[c] = "fill" => owner = {} /\ watcher[c] = "off"
    BY <1>1, <2>2 DEF TypeInv, CallOK, LockInv, StartOK, OwnerOK
  <2> QED
    BY <2>1, <2>3 DEF CacheGuarded, Readers
<1> QED
  BY <1>1, SpecLock, PTL
=============================================================================
