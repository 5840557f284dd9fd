---------------------------- MODULE ConsulRegistry ----------------------------
(***************************************************************************)
(* The consul registry of one client built with watch on: GetService,      *)
(* ListServices, Watch, and the watcher, which follows the list of services*)
(* with one watch plan and each service with a plan of its own.            *)
(*                                                                         *)
(* Consul and its watch plans are outside the repository.  A plan runs in a*)
(* goroutine; it calls its handler with the present state of what it       *)
(* follows, first of all and again whenever that differs from what it gave *)
(* last, never during a call of that handler, and not after Stop, although *)
(* a call that has begun goes on.                                          *)
(*                                                                         *)
(* What the code does under the lock never blocks, so a critical section is*)
(* one step; a lock is held between steps only by ListServices, for good.  *)
(***************************************************************************)
EXTENDS Naturals, FiniteSets, Functions

CONSTANTS
  Names,      \* services
  Nodes,      \* nodes
  MaxChanges, \* bound: changes of the catalog
  MaxLists,   \* bound: calls of ListServices by users
  Blank,      \* the empty string
  None        \* no result yet

ASSUME BlankAssumption == Blank \notin Names
ASSUME BoundAssumption == MaxChanges \in Nat /\ MaxLists \in Nat

VARIABLES
  catalog,  \* nodes registered under each service
  changes,  \* changes of the catalog so far
  services, \* the cache: a function from some names to sets of nodes
  rlocks,   \* read locks that ListServices kept
  stuck,    \* a writer waits for them; no reader gets in after it
  pc,       \* the client: "new", in Watch at "fill", "ready"
  fill,     \* services Watch has yet to read
  lists,    \* calls of ListServices by users so far
  answer,   \* the service of the last lookup and the nodes it returned
  main,     \* the plan of the list: "off", "idle", or where its handler is
  list,     \* the list its handler was last called with
  todo,     \* services of the cache the handler has yet to remove
  watchers, \* services that have a plan
  plans,    \* plans started for each service
  seen,     \* the last result of the present plan of each service
  handling, \* calls of serviceHandler in progress
  crash,    \* the runtime ended the process
  ever,     \* history: nodes ever registered under each service
  late      \* history: services last written for a plan that was stopped

catalogVars == <<catalog, changes, ever>>
cacheVars   == <<services, late>>
lockVars    == <<rlocks, stuck>>
callVars    == <<pc, fill, lists, answer>>
mainVars    == <<main, list, todo, watchers, plans>>
planVars    == <<seen, handling>>
vars == <<catalogVars, cacheVars, lockVars, callVars, mainVars, planVars, crash>>

-----------------------------------------------------------------------------
Listed == {n \in Names : catalog[n] # {}}

Init ==
  /\ catalog = [n \in Names |-> {}]
  /\ changes = 0
  /\ services = <<>>
  /\ rlocks = 0
  /\ stuck = FALSE
  /\ pc = "new"
  /\ fill = {}
  /\ lists = 0
  /\ answer = None
  /\ main = "off"
  /\ list = None
  /\ todo = {}
  /\ watchers = {}
  /\ plans = [n \in Names |-> 0]
  /\ seen = [n \in Names |-> None]
  /\ handling = {}
  /\ crash = FALSE
  /\ ever = [n \in Names |-> {}]
  /\ late = {}

-----------------------------------------------------------------------------
(* The catalog *)

\* A server registers a node or deregisters it.
Register(n, u) ==
  /\ changes < MaxChanges
  /\ u \notin catalog[n]
  /\ catalog' = [catalog EXCEPT ![n] = @ \cup {u}]
  /\ ever' = [ever EXCEPT ![n] = @ \cup {u}]
  /\ changes' = changes + 1
  /\ UNCHANGED <<cacheVars, lockVars, callVars, mainVars, planVars, crash>>

Deregister(n, u) ==
  /\ changes < MaxChanges
  /\ u \in catalog[n]
  /\ catalog' = [catalog EXCEPT ![n] = @ \ {u}]
  /\ changes' = changes + 1
  /\ UNCHANGED <<ever, cacheVars, lockVars, callVars, mainVars, planVars, crash>>

-----------------------------------------------------------------------------
(* GetService and ListServices *)

\* A cached service is returned as it is, another is read from consul and not
\* kept; a call that fails changes nothing.
Found(n) == IF n \in DOMAIN services THEN services[n] ELSE catalog[n]

GetService(n) ==
  /\ pc = "ready"
  /\ ~stuck
  /\ answer' = [name |-> n, nodes |-> Found(n)]
  /\ UNCHANGED <<catalogVars, cacheVars, lockVars, pc, fill, lists, mainVars,
                 planVars, crash>>

\* A cache that is not empty is returned with the read lock still held; an
\* empty one is not kept.
ListServices ==
  /\ pc = "ready"
  /\ ~stuck
  /\ lists < MaxLists
  /\ lists' = lists + 1
  /\ rlocks' = IF DOMAIN services # {} THEN rlocks + 1 ELSE rlocks
  /\ UNCHANGED <<catalogVars, cacheVars, stuck, pc, fill, answer, mainVars,
                 planVars, crash>>

-----------------------------------------------------------------------------
(* Watch *)

\* The map m after m[k] = v.
Assigned(m, k, v) == [x \in DOMAIN m \cup {k} |-> IF x = k THEN v ELSE m[x]]

\* The cache of a new registry is empty, so the services come from consul.
Watch ==
  /\ pc = "new"
  /\ pc' = "fill"
  /\ fill' = Listed
  /\ UNCHANGED <<catalogVars, cacheVars, lockVars, lists, answer, mainVars,
                 planVars, crash>>

Fill(n) ==
  /\ pc = "fill"
  /\ n \in fill
  /\ services' = Assigned(services, n, Found(n))
  /\ fill' = fill \ {n}
  /\ UNCHANGED <<catalogVars, late, lockVars, pc, lists, answer, mainVars,
                 planVars, crash>>

StartWatcher ==
  /\ pc = "fill"
  /\ fill = {}
  /\ pc' = "ready"
  /\ main' = "idle"
  /\ UNCHANGED <<catalogVars, cacheVars, lockVars, fill, lists, answer, list,
                 todo, watchers, plans, planVars, crash>>

\* NewWithRegistry ignores the error: what is in the cache stays for good.
WatchFails ==
  /\ pc \in {"new", "fill"}
  /\ pc' = "ready"
  /\ fill' = {}
  /\ UNCHANGED <<catalogVars, cacheVars, lockVars, lists, answer, mainVars,
                 planVars, crash>>

-----------------------------------------------------------------------------
(* serviceHandler *)

\* The plan of a service calls serviceHandler.
Deliver(n) ==
  /\ n \in watchers
  /\ \A h \in handling : <<h.name, h.plan>> # <<n, plans[n]>>
  /\ seen[n] # catalog[n]
  /\ seen' = [seen EXCEPT ![n] = catalog[n]]
  /\ handling' = handling \cup
       {[name |-> n, plan |-> plans[n], nodes |-> catalog[n]]}
  /\ UNCHANGED <<catalogVars, cacheVars, lockVars, callVars, mainVars, crash>>

\* The name comes from the entries; without any it stays empty.
NameOf(h) == IF h.nodes = {} THEN Blank ELSE h.name

Present(h) == h.name \in watchers /\ h.plan = plans[h.name]

\* Mutant: the handlers share the variable of the loop that starts the plans.
Store_LastPlan(h) ==
  /\ handling' = handling \ {h}
  /\ \E n \in watchers \cup {h.name} : services' = Assigned(services, n, h.nodes)
  /\ late' = IF Present(h) THEN late \ {NameOf(h)} ELSE late \cup {NameOf(h)}

\* Store and its call in a plan that may have been stopped meanwhile.
Store(h) ==
  /\ handling' = handling \ {h}
  /\ services' = Assigned(services, NameOf(h), h.nodes)
  /\ late' = IF Present(h) THEN late \ {NameOf(h)} ELSE late \cup {NameOf(h)}

ServiceHandler(h) ==
  /\ rlocks = 0
  /\ Store(h)
  /\ UNCHANGED <<catalogVars, lockVars, callVars, mainVars, seen, crash>>

\* Lock behind a read lock nobody gives back.
Block ==
  /\ rlocks > 0
  /\ handling # {} \/ todo # {}
  /\ stuck' = TRUE
  /\ UNCHANGED <<catalogVars, cacheVars, rlocks, callVars, mainVars, planVars, crash>>

-----------------------------------------------------------------------------
(* Handle *)

\* The plan of the list calls Handle, which starts plans for new services.
HandleAdds ==
  /\ main = "idle"
  /\ list # Listed
  /\ main' = "adding"
  /\ list' = Listed
  /\ watchers' = watchers \cup Listed
  /\ plans' = [n \in Names |->
                IF n \in Listed \ watchers THEN plans[n] + 1 ELSE plans[n]]
  /\ seen' = [n \in Names |->
                IF n \in Listed \ watchers THEN None ELSE seen[n]]
  /\ UNCHANGED <<catalogVars, cacheVars, lockVars, callVars, todo, handling, crash>>

\* It copies the reference to the cache under the read lock, not the cache.
HandleReads ==
  /\ main = "adding"
  /\ ~stuck
  /\ main' = "removing"
  /\ todo' = DOMAIN services \ list
  /\ UNCHANGED <<catalogVars, cacheVars, lockVars, callVars, list, watchers,
                 plans, planVars, crash>>

\* A service put into the cache during the iteration may be met by it or not.
HandleRemoves(n) ==
  /\ main = "removing"
  /\ n \in DOMAIN services \ list
  /\ rlocks = 0
  /\ services' = Restrict(services, DOMAIN services \ {n})
  /\ late' = late \ {n}
  /\ todo' = todo \ {n}
  /\ UNCHANGED <<catalogVars, lockVars, callVars, main, list, watchers, plans,
                 planVars, crash>>

\* Mutant: the plans are stopped and stay in the map.
Unwatched_Kept == UNCHANGED watchers

Unwatched == watchers' = watchers \cap list

HandleStops ==
  /\ main = "removing"
  /\ todo = {}
  /\ main' = "idle"
  /\ Unwatched
  /\ UNCHANGED <<catalogVars, cacheVars, lockVars, callVars, list, todo, plans,
                 planVars, crash>>

\* The iteration holds no lock: the runtime may notice a write beside it.
MapRace ==
  /\ main = "removing"
  /\ rlocks = 0
  /\ handling # {}
  /\ crash' = TRUE
  /\ UNCHANGED <<catalogVars, cacheVars, lockVars, callVars, mainVars, planVars>>

-----------------------------------------------------------------------------
Starts == (\E n \in Names : Fill(n)) \/ StartWatcher

Handle == \/ HandleAdds
          \/ HandleReads
          \/ \E n \in todo : HandleRemoves(n)
          \/ HandleStops

Follows(n) == Deliver(n) \/ \E h \in handling : h.name = n /\ ServiceHandler(h)

Next ==
  /\ ~crash
  /\ \/ \E n \in Names, u \in Nodes : Register(n, u) \/ Deregister(n, u)
     \/ \E n \in Names : GetService(n) \/ Follows(n)
     \/ ListServices
     \/ Watch
     \/ Starts
     \/ WatchFails
     \/ Handle
     \/ \E n \in DOMAIN services : HandleRemoves(n)
     \/ Block
     \/ MapRace

Spec == Init /\ [][Next]_vars

\* Goroutines that are not blocked run, and plans see what consul has.
FairSpec ==
  /\ Spec
  /\ WF_vars(~crash /\ Starts)
  /\ WF_vars(~crash /\ Handle)
  /\ \A n \in Names : WF_vars(~crash /\ Follows(n))

-----------------------------------------------------------------------------
(* Properties *)

TypeOK ==
  /\ catalog \in [Names -> SUBSET Nodes]
  /\ changes \in 0 .. MaxChanges
  /\ DOMAIN services \subseteq Names \cup {Blank}
  /\ \A n \in DOMAIN services : services[n] \subseteq Nodes
  /\ rlocks \in 0 .. MaxLists
  /\ stuck \in BOOLEAN
  /\ pc \in {"new", "fill", "ready"}
  /\ fill \subseteq Names
  /\ lists \in 0 .. MaxLists
  /\ answer \in [name: Names, nodes: SUBSET Nodes] \cup {None}
  /\ main \in {"off", "idle", "adding", "removing"}
  /\ list \in (SUBSET Names) \cup {None}
  /\ todo \subseteq DOMAIN services
  /\ watchers \subseteq Names
  /\ plans \in [Names -> Nat]
  /\ seen \in [Names -> (SUBSET Nodes) \cup {None}]
  /\ handling \subseteq [name: Names, plan: Nat, nodes: SUBSET Nodes]
  /\ crash \in BOOLEAN
  /\ ever \in [Names -> SUBSET Nodes]
  /\ late \subseteq Names \cup {Blank}

\* A lookup gives only nodes that were registered for the service asked for,
\* whatever plans have written to the cache and in whatever order.
AnswersAreOwn == answer # None => answer.nodes \subseteq ever[answer.name]

\* The only ways for the cache to miss for good what consul has of a service:
\* Watch failed, ListServices kept the lock, the map race, or a call of the
\* handler that outlived its plan and came last.
Excused(n) == main = "off" \/ rlocks > 0 \/ crash \/ n \in late

\* Once the catalog stops changing, the cache has the nodes of every service
\* with nodes, however services came, went and came again while Handle and
\* the plans were at work.
CacheFollows ==
  \A n \in Names :
    <>[](\/ catalog[n] = {}
         \/ pc # "ready" \/ Excused(n)
         \/ n \in DOMAIN services /\ services[n] = catalog[n])
=============================================================================
