------------------------------ MODULE EtcdCache ------------------------------
(***************************************************************************)
(* The client side of the etcd registry: GetService, ListServices and Watch*)
(* of one EtcdRegistry, its cache of services, the RWMutex that guards it, *)
(* and the watcher goroutines that follow the store.                       *)
(*                                                                         *)
(* Clients are built by NewWithRegistry with watch on and share one        *)
(* registry.  The store is outside the repository: servers add and remove  *)
(* nodes of a service, and each change is an event for every watch that    *)
(* has been established.                                                   *)
(***************************************************************************)
EXTENDS Naturals, Sequences, FiniteSets, SequencesExt

CONSTANTS
  Clients,    \* clients that share the registry
  Names,      \* services
  Nodes,      \* URLs servers register
  MaxChanges, \* bound: changes of the store
  MaxGets,    \* bound: calls of GetService
  MaxLists,   \* bound: calls of ListServices by users of the registry
  Blank,      \* the empty string: the name in every node of an event
  None        \* no event

ASSUME BlankAssumption == Blank \notin Names
\* "watch" and "list" stand for calls that are not about one service.
ASSUME NamesAssumption == {"watch", "list"} \cap Names = {}
ASSUME BoundAssumption == MaxChanges \in Nat /\ MaxGets \in Nat /\ MaxLists \in Nat

VARIABLES
  store,    \* nodes registered under each service
  dirs,     \* services whose directory exists
  changes,  \* changes of the store so far
  services, \* the cache: a function from some names to sequences of nodes
  rlocks,   \* read locks held
  waiting,  \* watchers blocked in Lock; they keep new readers out
  owner,    \* watchers holding the lock
  pc,       \* where each client is
  call,     \* the call a client is in: "watch", "list" or a service's name
  gets,     \* calls of GetService so far
  lists,    \* calls of ListServices by users so far
  watcher,  \* where the watcher each client started is
  events,   \* events its watch has yet to pass on
  event,    \* the event it is handling
  listed,   \* what ListServices returned to each client
  answer,   \* what the last GetService of each client returned
  ever      \* history: nodes ever registered under each service

storeVars == <<store, dirs, changes, ever>>
lockVars  == <<rlocks, waiting, owner>>
callVars  == <<pc, call, gets, lists, listed, answer>>
watchVars == <<watcher, events, event>>
vars == <<storeVars, services, lockVars, callVars, watchVars>>

-----------------------------------------------------------------------------
Events == [action: {"create", "set", "delete", "expire"}, name: Names, node: Nodes]

Init ==
  /\ store = [n \in Names |-> {}]
  /\ dirs = {}
  /\ changes = 0
  /\ ever = [n \in Names |-> {}]
  /\ services = <<>>
  /\ rlocks = 0
  /\ waiting = {}
  /\ owner = {}
  /\ pc = [c \in Clients |-> "new"]
  /\ call = [c \in Clients |-> "watch"]
  /\ gets = 0
  /\ lists = 0
  /\ listed = [c \in Clients |-> <<>>]
  /\ answer = [c \in Clients |-> {}]
  /\ watcher = [c \in Clients |-> "off"]
  /\ events = [c \in Clients |-> <<>>]
  /\ event = [c \in Clients |-> None]

-----------------------------------------------------------------------------
(* The store *)

\* Established watches get every change from then on.
Change(action, n, u) ==
  /\ changes < MaxChanges
  /\ changes' = changes + 1
  /\ events' = [c \in Clients |->
       IF watcher[c] \in {"idle", "lock", "handle"}
       THEN Append(events[c], [action |-> action, name |-> n, node |-> u])
       ELSE events[c]]
  /\ UNCHANGED <<services, lockVars, callVars, watcher, event>>

\* Register, or a heartbeat's Set of a key that had expired.
Appear(n, u) ==
  /\ u \notin store[n]
  /\ store' = [store EXCEPT ![n] = @ \cup {u}]
  /\ ever' = [ever EXCEPT ![n] = @ \cup {u}]
  /\ dirs' = dirs \cup {n}
  /\ \E action \in {"create", "set"} : Change(action, n, u)

\* Deregister, or the end of the key's time to live.  The directory stays.
Disappear(n, u) ==
  /\ u \in store[n]
  /\ store' = [store EXCEPT ![n] = @ \ {u}]
  /\ \E action \in {"delete", "expire"} : Change(action, n, u)
  /\ UNCHANGED <<dirs, ever>>

\* A heartbeat's Set of a key that is there.
Refresh(n, u) ==
  /\ u \in store[n]
  /\ Change("set", n, u)
  /\ UNCHANGED <<store, dirs, ever>>

-----------------------------------------------------------------------------
(* RWMutex *)

RLock   == waiting = {} /\ owner = {} /\ rlocks' = rlocks + 1
RUnlock == rlocks' = rlocks - 1

-----------------------------------------------------------------------------
(* GetService *)

\* Discovery asks for a service.
Get(c, n) ==
  /\ pc[c] = "ready"
  /\ gets < MaxGets
  /\ gets' = gets + 1
  /\ pc' = [pc EXCEPT ![c] = "get"]
  /\ call' = [call EXCEPT ![c] = n]
  /\ UNCHANGED <<storeVars, services, lockVars, lists, listed, answer, watchVars>>

GetLocks(c) ==
  /\ pc[c] = "get"
  /\ RLock
  /\ pc' = [pc EXCEPT ![c] = "look"]
  /\ UNCHANGED <<storeVars, services, waiting, owner, call, gets, lists, listed,
                 answer, watchVars>>

\* A cached service is returned as it is.
Look(c) ==
  /\ pc[c] = "look"
  /\ RUnlock
  /\ \/ /\ call[c] \in DOMAIN services
        /\ answer' = [answer EXCEPT ![c] = ToSet(services[call[c]])]
        /\ pc' = [pc EXCEPT ![c] = "ready"]
     \/ /\ call[c] \notin DOMAIN services
        /\ pc' = [pc EXCEPT ![c] = "ask"]
        /\ UNCHANGED answer
  /\ UNCHANGED <<storeVars, services, waiting, owner, call, gets, lists, listed,
                 watchVars>>

\* Any other is read from the store, or the call returns an error; nothing
\* is added to the cache.
Ask(c) ==
  /\ pc[c] = "ask"
  /\ pc' = [pc EXCEPT ![c] = "ready"]
  /\ \E found \in {store[call[c]], {}} : answer' = [answer EXCEPT ![c] = found]
  /\ UNCHANGED <<storeVars, services, lockVars, call, gets, lists, listed,
                 watchVars>>

-----------------------------------------------------------------------------
(* ListServices and Watch *)

\* for n, nodes := range m { f[n] = nodes } of maps.
Copied(f, m) ==
  [n \in DOMAIN f \cup DOMAIN m |-> IF n \in DOMAIN m THEN m[n] ELSE f[n]]

\* NewWithRegistry calls Watch, which lists the services first.
NewClient(c) ==
  /\ pc[c] = "new"
  /\ pc' = [pc EXCEPT ![c] = "list"]
  /\ UNCHANGED <<storeVars, services, lockVars, call, gets, lists, listed,
                 answer, watchVars>>

List(c) ==
  /\ pc[c] = "ready"
  /\ lists < MaxLists
  /\ lists' = lists + 1
  /\ pc' = [pc EXCEPT ![c] = "list"]
  /\ call' = [call EXCEPT ![c] = "list"]
  /\ UNCHANGED <<storeVars, services, lockVars, gets, listed, answer, watchVars>>

ListLocks(c) ==
  /\ pc[c] = "list"
  /\ RLock
  /\ pc' = [pc EXCEPT ![c] = "peek"]
  /\ UNCHANGED <<storeVars, services, waiting, owner, call, gets, lists, listed,
                 answer, watchVars>>

\* ListServices returns what it found to Watch or to the user.
Listed(c, found) ==
  /\ pc' = [pc EXCEPT ![c] = IF call[c] = "watch" THEN "fill" ELSE "ready"]
  /\ listed' = [listed EXCEPT ![c] = found]
  /\ UNCHANGED watcher

\* Mutant: a deferred RUnlock is added to the one that is there.
Peek_DeferToo(c) ==
  /\ pc[c] = "peek"
  /\ \/ /\ DOMAIN services # {}
        /\ Listed(c, services)
        /\ rlocks' = rlocks - 1
     \/ /\ DOMAIN services = {}
        /\ rlocks' = rlocks - 2
        /\ pc' = [pc EXCEPT ![c] = "fetch"]
        /\ UNCHANGED <<listed, watcher>>
  /\ UNCHANGED <<storeVars, services, waiting, owner, call, gets, lists, answer,
                 events, event>>

\* A cache that is not empty is returned with the read lock still held.
Peek(c) ==
  /\ pc[c] = "peek"
  /\ \/ /\ DOMAIN services # {}
        /\ Listed(c, services)
        /\ UNCHANGED rlocks
     \/ /\ DOMAIN services = {}
        /\ RUnlock
        /\ pc' = [pc EXCEPT ![c] = "fetch"]
        /\ UNCHANGED <<listed, watcher>>
  /\ UNCHANGED <<storeVars, services, waiting, owner, call, gets, lists, answer,
                 events, event>>

\* Every directory of the store is a service, its keys are the nodes.
Fetch(c) ==
  /\ pc[c] = "fetch"
  /\ Listed(c, [n \in dirs |-> SetToSeq(store[n])])
  /\ UNCHANGED <<storeVars, services, lockVars, call, gets, lists, answer,
                 events, event>>

\* NewWithRegistry ignores that the list could not be read: there is no cache
\* and no watcher.
FetchFails(c) ==
  /\ pc[c] = "fetch"
  /\ pc' = [pc EXCEPT ![c] = "ready"]
  /\ UNCHANGED <<storeVars, services, lockVars, call, gets, lists, listed,
                 answer, watchVars>>

\* Watch writes the list to the cache, without a lock, and starts the watcher.
Fill(c) ==
  /\ pc[c] = "fill"
  /\ services' = Copied(services, listed[c])
  /\ watcher' = [watcher EXCEPT ![c] = "dial"]
  /\ pc' = [pc EXCEPT ![c] = "ready"]
  /\ UNCHANGED <<storeVars, lockVars, call, gets, lists, listed, answer, events,
                 event>>

-----------------------------------------------------------------------------
(* The watcher *)

\* The goroutine of client.Watch reaches etcd.
Connected(c) ==
  /\ watcher[c] = "dial"
  /\ watcher' = [watcher EXCEPT ![c] = "idle"]
  /\ UNCHANGED <<storeVars, services, lockVars, callVars, events, event>>

\* client.Watch returns, after an error or Stop, and closes the channel the
\* watcher reads; nobody starts it again.
WatchEnds(c) ==
  /\ watcher[c] \in {"dial", "idle"}
  /\ watcher' = [watcher EXCEPT ![c] = "off"]
  /\ events' = [events EXCEPT ![c] = <<>>]
  /\ UNCHANGED <<storeVars, services, lockVars, callVars, event>>

Receive(c) ==
  /\ watcher[c] = "idle"
  /\ events[c] # <<>>
  /\ event' = [event EXCEPT ![c] = Head(events[c])]
  /\ events' = [events EXCEPT ![c] = Tail(@)]
  /\ watcher' = [watcher EXCEPT ![c] = "lock"]
  /\ waiting' = waiting \cup {c}
  /\ UNCHANGED <<storeVars, services, rlocks, owner, callVars>>

Lock(c) ==
  /\ watcher[c] = "lock"
  /\ rlocks = 0 /\ owner = {}
  /\ waiting' = waiting \ {c}
  /\ owner' = {c}
  /\ watcher' = [watcher EXCEPT ![c] = "handle"]
  /\ UNCHANGED <<storeVars, services, rlocks, callVars, events, event>>

\* Mutant: a created node joins every cached service.
Cached_EveryName(e) ==
  services' = IF e.action = "create"
              THEN [n \in DOMAIN services |-> Append(services[n], e.node)]
              ELSE services

\* The nodes of an event have no name and no id, so only the service of the
\* empty name changes; no cached service of the store ever does.  A delete
\* matches every node of that service, and its loop skips one after each node
\* it takes out.
Cached(e) ==
  \/ /\ Blank \notin DOMAIN services
     /\ services' = IF e.action = "create"
                    THEN Copied(services, [n \in {Blank} |-> <<e.node>>])
                    ELSE services
  \/ /\ Blank \in DOMAIN services
     /\ services' = [services EXCEPT ![Blank] =
          CASE e.action = "create" -> Append(@, e.node)
            [] e.action = "delete" -> [i \in 1 .. Len(@) \div 2 |-> @[2 * i]]
            [] OTHER               -> @]

\* Mutant: an event that changes nothing leaves the lock held.
Unlock_ChangesOnly(e) ==
  owner' = IF Blank \notin DOMAIN services /\ e.action # "create"
           THEN owner ELSE {}

Unlock(e) == owner' = {}

Handle(c) ==
  /\ watcher[c] = "handle"
  /\ Cached(event[c])
  /\ Unlock(event[c])
  /\ watcher' = [watcher EXCEPT ![c] = "idle"]
  /\ event' = [event EXCEPT ![c] = None]
  /\ UNCHANGED <<storeVars, rlocks, waiting, callVars, events>>

-----------------------------------------------------------------------------
\* What a client does once it has called a method of the registry.
Proceed(c) ==
  \/ GetLocks(c)
  \/ Look(c)
  \/ Ask(c)
  \/ ListLocks(c)
  \/ Peek(c)
  \/ Fetch(c)
  \/ FetchFails(c)
  \/ Fill(c)

Follow(c) ==
  \/ Connected(c)
  \/ Receive(c)
  \/ Lock(c)
  \/ Handle(c)

Next ==
  \/ \E n \in Names, u \in Nodes :
       Appear(n, u) \/ Disappear(n, u) \/ Refresh(n, u)
  \/ \E c \in Clients :
       \/ \E n \in Names : Get(c, n)
       \/ NewClient(c)
       \/ List(c)
       \/ Proceed(c)
       \/ Follow(c)
       \/ WatchEnds(c)

Spec == Init /\ [][Next]_vars

\* The runtime runs every goroutine that is not blocked, and a request to
\* etcd returns.
FairSpec ==
  /\ Spec
  /\ \A c \in Clients : WF_vars(Proceed(c)) /\ WF_vars(Follow(c))

-----------------------------------------------------------------------------
(* Properties *)

\* What the cache may be and ListServices may return.
IsCache(f) ==
  /\ DOMAIN f \subseteq Names \cup {Blank}
  /\ \A n \in DOMAIN f : f[n] \in Seq(Nodes)

TypeOK ==
  /\ store \in [Names -> SUBSET Nodes]
  /\ dirs \subseteq Names
  /\ changes \in 0 .. MaxChanges
  /\ ever \in [Names -> SUBSET Nodes]
  /\ IsCache(services)
  /\ rlocks \in Nat
  /\ waiting \subseteq Clients
  /\ owner \subseteq Clients
  /\ pc \in [Clients -> {"new", "ready", "get", "look", "ask", "list", "peek",
                         "fetch", "fill"}]
  /\ call \in [Clients -> Names \cup {"watch", "list"}]
  /\ gets \in 0 .. MaxGets
  /\ lists \in 0 .. MaxLists
  /\ DOMAIN listed = Clients /\ \A c \in Clients : IsCache(listed[c])
  /\ answer \in [Clients -> SUBSET Nodes]
  /\ watcher \in [Clients -> {"off", "dial", "idle", "lock", "handle"}]
  /\ events \in [Clients -> Seq(Events)]
  /\ event \in [Clients -> Events \cup {None}]

\* A client is never sent to a node that was not registered for the service
\* it asked for, cached or not, whatever events the watcher has handled.
AnswersAreOwn ==
  \A c \in Clients : call[c] \in Names /\ pc[c] = "ready" =>
    answer[c] \subseteq ever[call[c]]

\* Type invariant, and the lock's: whoever reads the cache under the lock has a
\* read lock, which the watcher respects.  Watch writes the cache without the
\* lock; the watcher it then starts is never in the cache at that time.
CacheGuarded ==
  /\ TypeOK
  /\ Cardinality({c \in Clients : pc[c] \in {"look", "peek"}}) <= rlocks
  /\ owner # {} => rlocks = 0
  /\ \A c \in Clients : pc[c] = "fill" => owner = {} /\ watcher[c] = "off"

\* Some read lock belongs to no call in progress.
Leaked == rlocks > Cardinality({c \in Clients : pc[c] \in {"look", "peek"}})

\* A lookup blocks for good only once ListServices has kept the read lock:
\* the watcher gives the lock back after each event, and readers and watchers
\* do not wait for each other.
GetServiceReturns ==
  \A c \in Clients : pc[c] = "get" ~> (pc[c] = "ready" \/ Leaked)

\* As the README lists discovery with watch, a lookup returns.  The code
\* violates this when a second client is built on a registry.
LookupReturns == \A c \in Clients : pc[c] = "get" ~> pc[c] = "ready"

\* As example/registry presents it, watch makes the client follow the
\* registry: an event about a node of a cached service brings the node into
\* the cache or out of it.  The code violates this.
EventsApplied ==
  [][\A c \in Clients : watcher[c] = "handle" /\ watcher'[c] = "idle" =>
       LET e == event[c] IN
       e.name \in DOMAIN services =>
         (e.node \in ToSet(services'[e.name]) <=> e.action \in {"create", "set"})
    ]_vars
=============================================================================
