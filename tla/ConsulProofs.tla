----------------------------- MODULE ConsulProofs -----------------------------
(* What lookups of ConsulRegistry answer, for any services and nodes and any *)
(* number of changes of the catalog.                                         *)
EXTENDS ConsulRegistry, TLAPS

\* Every set of nodes that may reach the cache of a service was registered for
\* that service: what consul has, what the cache has, and what the calls of
\* serviceHandler in progress will write, in whatever order they do.
OwnOK ==
  /\ \A n \in Names : catalog[n] \subseteq ever[n]
  /\ \A n \in DOMAIN services \cap Names : services[n] \subseteq ever[n]
  /\ \A h \in handling : h.nodes \subseteq ever[h.name]
  /\ AnswersAreOwn

\* The handler of the list has a list from its first step to its last, and no
\* more read locks are kept than lists were asked for.
HandleOK ==
  /\ main \in {"adding", "removing"} => list \in SUBSET Names
  /\ rlocks <= lists

Inv == TypeOK /\ OwnOK /\ HandleOK

\* delete(m, x) of a map in Go.
LEMMA DeletedIs ==
  ASSUME NEW f, NEW x
  PROVE  /\ DOMAIN Restrict(f, DOMAIN f \ {x}) = DOMAIN f \ {x}
         /\ \A z \in DOMAIN f \ {x} : Restrict(f, DOMAIN f \ {x})[z] = f[z]
BY DEF Restrict

\* The cache of a new registry is empty.
LEMMA InitInv == Init => Inv
<1> SUFFICES ASSUME Init PROVE Inv
  OBVIOUS
<1> USE DEF Init
<1>1. DOMAIN services = {}
  OBVIOUS
<1>2. TypeOK
  <2>1. /\ catalog \in [Names -> SUBSET Nodes]
        /\ plans \in [Names -> Nat]
        /\ seen \in [Names -> (SUBSET Nodes) \cup {None}]
        /\ ever \in [Names -> SUBSET Nodes]
    BY <1>1, BoundAssumption
  <2>2. /\ changes \in 0 .. MaxChanges
        /\ rlocks \in 0 .. MaxLists
        /\ lists \in 0 .. MaxLists
    BY <1>1, BoundAssumption
  <2>3. /\ DOMAIN services \subseteq Names \cup {Blank}
        /\ \A n \in DOMAIN services : services[n] \subseteq Nodes
        /\ stuck \in BOOLEAN
        /\ pc \in {"new", "fill", "ready"}
        /\ fill \subseteq Names
        /\ answer \in [name: Names, nodes: SUBSET Nodes] \cup {None}
        /\ main \in {"off", "idle", "adding", "removing"}
        /\ list \in (SUBSET Names) \cup {None}
        /\ todo \subseteq DOMAIN services
        /\ watchers \subseteq Names
        /\ handling \subseteq [name: Names, plan: Nat, nodes: SUBSET Nodes]
        /\ crash \in BOOLEAN
        /\ late \subseteq Names \cup {Blank}
    BY <1>1, BoundAssumption
  <2> QED
    BY <2>1, <2>2, <2>3 DEF TypeOK
<1>3. OwnOK
  BY <1>1 DEF OwnOK, AnswersAreOwn
<1>4. HandleOK
  BY DEF HandleOK
<1> QED
  BY <1>2, <1>3, <1>4 DEF Inv

\* A node that is registered is in the history of its service.
LEMMA RegisterStep ==
  ASSUME Inv, NEW n \in Names, NEW u \in Nodes, Register(n, u)
  PROVE  Inv'
<1> USE DEF Inv, catalogVars, cacheVars, lockVars, callVars, mainVars, planVars
<1>1. TypeOK'
  BY BoundAssumption DEF TypeOK, Register
<1>2. OwnOK'
  BY DEF OwnOK, AnswersAreOwn, TypeOK, Register
<1>3. HandleOK'
  BY DEF HandleOK, Register
<1> QED
  BY <1>1, <1>2, <1>3

\* The history keeps what the catalog loses.
LEMMA DeregisterStep ==
  ASSUME Inv, NEW n \in Names, NEW u \in Nodes, Deregister(n, u)
  PROVE  Inv'
<1> USE DEF Inv, catalogVars, cacheVars, lockVars, callVars, mainVars, planVars
<1>1. TypeOK'
  BY BoundAssumption DEF TypeOK, Deregister
<1>2. OwnOK'
  BY DEF OwnOK, AnswersAreOwn, Deregister
<1>3. HandleOK'
  BY DEF HandleOK, Deregister
<1> QED
  BY <1>1, <1>2, <1>3

\* A lookup answers from the cache or from the catalog.
LEMMA GetServiceStep ==
  ASSUME Inv, NEW n \in Names, GetService(n)
  PROVE  Inv'
<1> USE DEF Inv, catalogVars, cacheVars, lockVars, callVars, mainVars, planVars
<1>1. TypeOK'
  BY DEF TypeOK, GetService, Found
<1>2. OwnOK'
  BY DEF OwnOK, AnswersAreOwn, GetService, Found
<1>3. HandleOK'
  BY DEF HandleOK, GetService, Found
<1> QED
  BY <1>1, <1>2, <1>3

\* Each call keeps at most one read lock.
LEMMA ListServicesStep ==
  ASSUME Inv, ListServices
  PROVE  Inv'
<1> USE DEF Inv, catalogVars, cacheVars, lockVars, callVars, mainVars, planVars
<1>1. TypeOK'
  BY BoundAssumption DEF TypeOK, HandleOK, ListServices
<1>2. OwnOK'
  BY DEF OwnOK, AnswersAreOwn, ListServices
<1>3. HandleOK'
  BY DEF HandleOK, TypeOK, ListServices
<1> QED
  BY <1>1, <1>2, <1>3

\* Watch lists services of the catalog.
LEMMA WatchStep ==
  ASSUME Inv, Watch
  PROVE  Inv'
<1> USE DEF Inv, catalogVars, cacheVars, lockVars, callVars, mainVars, planVars
<1>1. TypeOK'
  BY DEF TypeOK, Watch, Listed
<1>2. OwnOK'
  BY DEF OwnOK, AnswersAreOwn, Watch, Listed
<1>3. HandleOK'
  BY DEF HandleOK, Watch, Listed
<1> QED
  BY <1>1, <1>2, <1>3

\* Watch caches what the catalog has.
LEMMA FillStep ==
  ASSUME Inv, NEW n \in Names, Fill(n)
  PROVE  Inv'
<1> USE DEF Inv, catalogVars, cacheVars, lockVars, callVars, mainVars, planVars
<1>1. TypeOK'
  BY DEF TypeOK, Fill, Assigned, Found
<1>2. OwnOK'
  BY DEF OwnOK, AnswersAreOwn, Fill, Assigned, Found
<1>3. HandleOK'
  BY DEF HandleOK, Fill, Assigned, Found
<1> QED
  BY <1>1, <1>2, <1>3

\* The watcher has no list yet.
LEMMA StartWatcherStep ==
  ASSUME Inv, StartWatcher
  PROVE  Inv'
<1> USE DEF Inv, catalogVars, cacheVars, lockVars, callVars, mainVars, planVars
<1>1. TypeOK'
  BY DEF TypeOK, StartWatcher
<1>2. OwnOK'
  BY DEF OwnOK, AnswersAreOwn, StartWatcher
<1>3. HandleOK'
  BY DEF HandleOK, StartWatcher
<1> QED
  BY <1>1, <1>2, <1>3

\* A failed Watch leaves what it has filled.
LEMMA WatchFailsStep ==
  ASSUME Inv, WatchFails
  PROVE  Inv'
<1> USE DEF Inv, catalogVars, cacheVars, lockVars, callVars, mainVars, planVars
<1>1. TypeOK'
  BY DEF TypeOK, WatchFails
<1>2. OwnOK'
  BY DEF OwnOK, AnswersAreOwn, WatchFails
<1>3. HandleOK'
  BY DEF HandleOK, WatchFails
<1> QED
  BY <1>1, <1>2, <1>3

\* A call of serviceHandler carries nodes of the catalog.
LEMMA DeliverStep ==
  ASSUME Inv, NEW n \in Names, Deliver(n)
  PROVE  Inv'
<1> USE DEF Inv, catalogVars, cacheVars, lockVars, callVars, mainVars, planVars
<1>1. TypeOK'
  BY DEF TypeOK, Deliver
<1>2. OwnOK'
  BY DEF OwnOK, AnswersAreOwn, Deliver
<1>3. HandleOK'
  BY DEF HandleOK, Deliver
<1> QED
  BY <1>1, <1>2, <1>3

\* A call that comes late writes nodes of its own service, or none for the empty
\* name.
LEMMA ServiceHandlerStep ==
  ASSUME Inv, NEW h \in handling, ServiceHandler(h)
  PROVE  Inv'
<1> USE DEF Inv, catalogVars, cacheVars, lockVars, callVars, mainVars, planVars
<1>1. TypeOK'
  BY DEF TypeOK, ServiceHandler, Store, Present, NameOf, Assigned
<1>2. OwnOK'
  BY DEF OwnOK, AnswersAreOwn, ServiceHandler, Store, Present, NameOf, Assigned
<1>3. HandleOK'
  BY DEF HandleOK, ServiceHandler, Store, Present, NameOf, Assigned
<1> QED
  BY <1>1, <1>2, <1>3

\* A writer that is stuck writes nothing.
LEMMA BlockStep ==
  ASSUME Inv, Block
  PROVE  Inv'
<1> USE DEF Inv, catalogVars, cacheVars, lockVars, callVars, mainVars, planVars
<1>1. TypeOK'
  BY DEF TypeOK, Block
<1>2. OwnOK'
  BY DEF OwnOK, AnswersAreOwn, Block
<1>3. HandleOK'
  BY DEF HandleOK, Block
<1> QED
  BY <1>1, <1>2, <1>3

\* Handle has a list from here on.
LEMMA HandleAddsStep ==
  ASSUME Inv, HandleAdds
  PROVE  Inv'
<1> USE DEF Inv, catalogVars, cacheVars, lockVars, callVars, mainVars, planVars
<1>1. TypeOK'
  BY DEF TypeOK, HandleAdds, Listed
<1>2. OwnOK'
  BY DEF OwnOK, AnswersAreOwn, HandleAdds, Listed
<1>3. HandleOK'
  BY DEF HandleOK, TypeOK, HandleAdds, Listed
<1> QED
  BY <1>1, <1>2, <1>3

\* The iteration is over services of the cache.
LEMMA HandleReadsStep ==
  ASSUME Inv, HandleReads
  PROVE  Inv'
<1> USE DEF Inv, catalogVars, cacheVars, lockVars, callVars, mainVars, planVars
<1>1. TypeOK'
  BY DEF TypeOK, HandleReads
<1>2. OwnOK'
  BY DEF OwnOK, AnswersAreOwn, HandleReads
<1>3. HandleOK'
  BY DEF HandleOK, HandleReads
<1> QED
  BY <1>1, <1>2, <1>3

\* Removing an entry leaves the others as they are.
LEMMA HandleRemovesStep ==
  ASSUME Inv, NEW n \in DOMAIN services, HandleRemoves(n)
  PROVE  Inv'
<1> USE DEF Inv, catalogVars, lockVars, callVars, planVars
<1> DEFINE kept == DOMAIN services \ {n}
<1>1. /\ DOMAIN services' = kept
      /\ \A z \in kept : services'[z] = services[z]
  BY DeletedIs DEF HandleRemoves
<1>2. TypeOK'
  BY <1>1 DEF TypeOK, HandleRemoves
<1>3. OwnOK'
  BY <1>1 DEF OwnOK, AnswersAreOwn, HandleRemoves
<1>4. HandleOK'
  BY DEF HandleOK, HandleRemoves
<1> QED
  BY <1>2, <1>3, <1>4

\* The plans that stop leave their calls in progress.
LEMMA HandleStopsStep ==
  ASSUME Inv, HandleStops
  PROVE  Inv'
<1> USE DEF Inv, catalogVars, cacheVars, lockVars, callVars, mainVars, planVars
<1>1. TypeOK'
  BY DEF TypeOK, HandleStops, Unwatched
<1>2. OwnOK'
  BY DEF OwnOK, AnswersAreOwn, HandleStops, Unwatched
<1>3. HandleOK'
  BY DEF HandleOK, HandleStops, Unwatched
<1> QED
  BY <1>1, <1>2, <1>3

\* A crash changes nothing else.
LEMMA MapRaceStep ==
  ASSUME Inv, MapRace
  PROVE  Inv'
<1> USE DEF Inv, catalogVars, cacheVars, lockVars, callVars, mainVars, planVars
<1>1. TypeOK'
  BY DEF TypeOK, MapRace
<1>2. OwnOK'
  BY DEF OwnOK, AnswersAreOwn, MapRace
<1>3. HandleOK'
  BY DEF HandleOK, MapRace
<1> QED
  BY <1>1, <1>2, <1>3

\* Inv is inductive.
LEMMA NextInv == Inv /\ [Next]_vars => Inv'
<1> SUFFICES ASSUME Inv, [Next]_vars
             PROVE  Inv'
  OBVIOUS
<1>1. CASE UNCHANGED vars
  BY <1>1 DEF Inv, TypeOK, OwnOK, HandleOK, AnswersAreOwn, vars, catalogVars,
              cacheVars, lockVars, callVars, mainVars, planVars
<1>2. CASE Next
  <2>1. CASE \E n \in Names, u \in Nodes : Register(n, u) \/ Deregister(n, u)
    BY <2>1, RegisterStep, DeregisterStep
  <2>2. CASE \E n \in Names : GetService(n) \/ Follows(n)
    BY <2>2, GetServiceStep, DeliverStep, ServiceHandlerStep DEF Follows
  <2>3. CASE ListServices \/ Watch \/ WatchFails \/ Block \/ MapRace
    BY <2>3, ListServicesStep, WatchStep, WatchFailsStep, BlockStep, MapRaceStep
  <2>4. CASE Starts
    BY <2>4, FillStep, StartWatcherStep DEF Starts
  <2>5. CASE Handle \/ \E n \in DOMAIN services : HandleRemoves(n)
    BY <2>5, HandleAddsStep, HandleReadsStep, HandleRemovesStep, HandleStopsStep
       DEF Handle, Inv, TypeOK
  <2> QED
    BY <1>2, <2>1, <2>2, <2>3, <2>4, <2>5 DEF Next
<1> QED
  BY <1>1, <1>2

\* The types, for any number of changes, with the cache and the plans in step:
\* what the code keeps of consul is always well formed.
THEOREM SpecTypeOK == Spec => []TypeOK
<1>1. Inv => TypeOK
  BY DEF Inv
<1> QED
  BY InitInv, NextInv, <1>1, PTL DEF Spec

\* A lookup gives only nodes that were registered for the service asked for,
\* although calls of serviceHandler of plans that were stopped may write the
\* cache at any time.
THEOREM SpecAnswersAreOwn == Spec => []AnswersAreOwn
<1>1. Inv => AnswersAreOwn
  BY DEF Inv, OwnOK
<1> QED
  BY InitInv, NextInv, <1>1, PTL DEF Spec

=============================================================================
