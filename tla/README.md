# kuja in TLA+

A verification project for kuja, a Go framework for RPC and publish/subscribe
services: TLA+ modules for its servers, clients, brokers and registries, TLC
configurations that check them on small instances, and TLAPS proofs for every
instance.  Paths and line numbers refer to the repository's files; `PROJECT.json`
maps every definition to the lines it models.

## 1. The system

| Component | State it keeps | Operations | Module |
|---|---|---|---|
| RPC server (`server.go`, `context.go`) | `serviceMap`, a `sync.Pool` of `Context`, per request a stack of handlers | `ServeHTTP`, `Context.Next`, `serve`, `respError` | `RpcServer` |
| Registration (`service.go`, `sub.go`) | `serviceMap`, `subscriberMap`, `middleware` | `Use`, `Service`/`register`/`prepareMethod`, `Subscribe`/`registerSub`, `getServiceMethod` | `Registration` |
| Server lifecycle (`server.go`) | listener, registered nodes, broker connection | `Run`, `RunTLS`, `Close`, start and stop of registry and broker | `ServerLifecycle` |
| RabbitMQ (`broker/rabbitmq`, `sub.go`) | unsettled deliveries, workers, handler goroutines; exchanges and queues | the worker loop, `subscribe`, `subscribeTimeout`, `SubscribeContext.Reject`; `Publish`, `Subscribe` | `QueueConsumer` (an implementation of `WorkQueue`); `PubSub` |
| HTTP, stub and NATS brokers, `ServePubSub` | `handlers[topic][queue]`, listener, connection | `Connect`, `Close`, `Subscribe`, `Publish`, `ServeHTTP`, the NATS callbacks | `PubSub` |
| Message codec (`broker/message.pb.go`) | none | `Size`, `MarshalTo`, `Unmarshal`, `skipMessage` | `MessageCodec` |
| etcd registry (`registry/etcd`) | store keys with a TTL, cache `services`, `RWMutex`, heartbeats, watcher | `Register`, `Deregister`, `GetService`, `ListServices`, `Watch` | `EtcdLease`, `EtcdCache` |
| consul registry (`registry/consul`) | cache `services`, watch plans | the same, `Handle`, `serviceHandler` | `ConsulRegistry` |
| Client (`client`) | `hystrixConfig`, broker, discovery method | `Request`, `AsyncRequests`, `Publish`, `GetAddress` | `Client`, `PubSub` |
| Contract tests and stub client (`contract`, `client/stub_client`) | contracts read from files | `ContractTest`, `Request`, `AsyncRequests`, `Publish` | `Contract`, `Client` |
| Encoders, mock client, stub registry, examples | none | serialisation libraries, generated and sample code | not modelled |

`PubSub` composes `Registration`, the start and stop of the broker, a client and
`MessageCodec`; the other modules stand alone, each with a `.cfg` and, where its
constants need definitions, an MC module.

How they interact.  `Run` registers every service with the registry, connects
the broker and has it call one goroutine-safe handler per subscriber, then
serves HTTP; all RPC requests share the `Context` pool.  A client resolves an
address through the registry (or uses a fixed URL) and posts to the server; it
publishes through a broker of its own.  The registry's watcher goroutine and
the readers of its cache share one `RWMutex`.

What is hard.

* *Reuse of pooled contexts.*  `ServeHTTP` reassigns some fields of a `Context`
  and leaves `index`, `ReqMetadata` and `RespMetadata` alone.
* *Callbacks into user code*: middleware may call `Next` any number of times,
  return an error before or after the answer, or panic.
* *Timeouts*: the wrapper abandons a handler that runs on and reports later; the
  breaker's timer ends with the headers of a response, `Run`'s with `Close`.
* *Settlement*: acks and rejects against crashes, lost channels, redelivery and
  a retry loop that can settle twice.
* *Leases and caches*: heartbeat against TTL, heartbeat against deregistration,
  list-then-watch, a lock that is not released.

* *Joined and shared names*: topic and queue joined by a dot, a queue below two
  topics, a URL cut at the wrong end.
* *Dispatch before the answer*: three brokers run the handlers while the publisher
  waits, over a map that may still grow.

Properties per component:

* RPC server: no shared context (`ContextExclusive`), a request sees only its
  own bindings (`ContextIsTheRequests`) and no other live request's metadata
  (`NoCrossTalk`), handlers run in order and all of them (`ChainOrder`,
  `FreshContextRunsAll`, and `EveryHandlerRuns`, which fails), one answer
  (`OneAnswer`), and no refusal lost (`RefusalIsAnswered`).
* Registration: what was set up is in force (`SetupKept`), and a request reaches the
  method it names or none (`RequestsRouted`).
* Queue: `AckedMeansProcessed`, `DroppedMeansExhausted`, `UnsettledIsHeld`,
  `HolderOwns`, `EverySettled`, and the whole of it implements a work queue
  (`ImplementsWorkQueue`); `DeliveredToOne` fails.
* Publish: what the publisher's result says of the handlers (`SuccessReachesAll`,
  `OneFailureEach`), one handling per queue group (`GroupHandlesOnce`), messages reach
  the queues that existed (`QueuedUnlessMuted`), a server that serves is listened for
  (`ServingIsReachable`), the encoding keeps messages (`EncodingKept`), and publishing
  ends (`DeliveryEnds`).
* Registry: a live node stays listed (`LiveListed`), the node of a process that
  ended disappears (`EndedExpires`), lookups give nodes of their own service
  (`AnswersAreOwn`) and return (`GetServiceReturns`; without its proviso, as
  `LookupReturns`, it fails), the cache is guarded by its lock where the code relies
  on it (`CacheGuarded`) and follows the store (`EventsApplied`, which fails for etcd;
  `CacheFollows`, with its provisos, for consul).
* Lifecycle: a registered node is served, but for named windows (`ListedIsServed`),
  a server serves with its subscriptions (`ServesSubscribed`), and an interrupt ends
  `Run` unless a request in progress holds it up (`StopReturns`).
* Client: every request gets one result (`OneResultEach`), an error comes without the
  reply and a success with it, unless its body was cut off (`ResultMatchesReply`),
  calls end although servers do not answer, unless a registry or a body keeps them
  (`CallReturns`), and no request runs with settings nobody made (`RunsConfigured`).
* Contracts: a consumer's tests rest on what the provider's tests have checked, as far
  as the stub client tells calls apart (`ContractsAgree`).

## 2. Plan

1. `RpcServer`, `RpcServerProofs` - done.
2. `WorkQueue`, `QueueConsumer`, `QueueConsumerProofs` - done, the refinement included.
3. `EtcdLease`, `EtcdLeaseProofs`, `EtcdCache`, `EtcdCacheProofs` - done; left: an
   abstract registry (which nodes a lookup may return) that both registries implement.
4. `Client`, `Contract`, `ClientProofs` - done.
5. `ConsulRegistry`, `ConsulProofs` - done.
6. `ServerLifecycle`, `ServerLifecycleProofs` - done; left: composed with the
   abstract registry and a client that resolves and calls.
7. `Registration`, `MessageCodec`, `PubSub`, `PubSubProofs` - done, the encoding of all
   messages included.

## 3. RpcServer

State.  For each `Context` object the fields a later request can observe
(`index`, `isResp`; `route` for handlers, method and receiver, which are
assigned together; `owner` for `req` and `w`; for each metadata name the request
that set it).  For each request its program counter, the context it holds, the
handlers on its goroutine's stack and the statuses the framework wrote.  The
last five variables are history, read only by properties.

Actions.  `AnswerEarly`, `LookupFails` and `Dispatch` are the three ways through
`ServeHTTP` up to the first handler; `LookupFails` takes a context and does not
return it, as the code does.  `CallNext` is `Context.Next` up to the call it
makes; `ReturnNil` and `ReturnError` return from the handler on top of the stack
into its caller, which is another handler's `Next` or `ServeHTTP`, and include
what that caller does: `respError`, and `pool.Put` after the outermost handler.
`Serve` is `serve` with the method it calls and `respError` for its error.  One
action runs without interruption by other requests where the code touches only
its own context; ownership of the context is what `ContextExclusive` shows, and
the two shared operations, `pool.Get` and `pool.Put`, are in actions of their
own goroutine's step.  `PoolDrop` is the garbage collector emptying the pool.

Left out: what a handler writes to the `ResponseWriter` itself, middleware that
recovers a panic below it, a handler that keeps the context after it returned,
and the encoders.  `serviceMap` is constant: services are registered before the
server runs.

Runs.

* `rpc_reuse`: two requests, two contexts, a service with two handlers and one
  without, `Next` called up to twice per handler: enough for two requests at a
  time, for a second request on a used context, for an index at, below and past
  the end, and for a method served twice.  That contexts are not shared among any
  number of requests is proved.
* `rpc_middleware` fails as a finding: `index` is not reset, so the second
  request on a context skips middleware.

Proofs (`RpcServerProofs`).  `TypeOK`, `ContextExclusive` and
`ContextIsTheRequests` for every set of requests, contexts, routes and headers
and every chain length, from the assumptions the module names.  The inductive
invariant is `TypeInv`.  `TypeOK` alone is not inductive: `Dispatch` and
`Serve` index functions with `ctxOf[r]` and append `index + 1` to a sequence of
handlers, which needs that a request in flight holds a context bound to a
registered route (`HeldOK`, `ContextIsTheRequests`), which in turn survives
another request's `Bind` only because contexts are not shared
(`ContextExclusive`); `NewOK` says that a request that has not arrived has no
history.  There is a lemma per action and `TypeStep` combines them.

`RefusalIsAnswered` follows from `AnswerOK`, which adds that a context in flight says
it was answered only if its request was; a reused context cannot lie because `Bind`
clears `isResp`.  `ChainOrder` and `FreshContextRunsAll` follow from `ChainInv`: no
handler of a request in flight is ahead of the index of its context, and on a context
that started at 0 the handlers run so far are exactly those up to the index.  Both are
inductive relative to `TypeInv`: that another request does not move my context's index
or flag is `ContextExclusive`.

`NoCrossTalk` needs to know what is left in the contexts nobody holds: `IdleOK` says
that it is of requests that have finished, so the next request may see it and no live
one is exposed.  `OneAnswer` needs the number of `Next` calls of each frame
(`CalmOK`): unless the request's handlers called `Next` more often, a frame below the
top of the stack, and every frame once the method was served or an answer written,
has called `Next` just once, so no second way leads to `serve` or `respError`.

## 4. QueueConsumer

State.  `world` is constant in a behaviour: which server each worker belongs to
and which bodies the encoder rejects; the constant `Worlds` has the ones a run
looks at.  `place[m]` is where the broker has a message: ready, delivered to a
server, acked or dropped; `count[m]` numbers its deliveries.  Each server has a
channel (`open`), a process (`up`) and the deliveries its client buffered.  Each
worker has the loop's local variables (`held`, `attempt` for `brokerMsg.Retry`,
`left` for the retries still to make).  `running` and `results` are the handler
goroutines: still running, or blocked on the send to their unbuffered channel.

Actions.  `Take` to `Reject` are the worker loop; `Returned` is what the loop
does with a result of the handler, and is part of `DecodeFails`,
`ReceiveResult` and `TimeoutFires`, the three ways the wrapper returns.  With
`Timeout = FALSE` the wrapper is `server.subscribe`, which calls the handler on
the worker's own goroutine: the same steps without `TimeoutFires`.  `Deliver`,
`CloseChannel`, `Requeued`, `Settle` and `DiscardBuffer` model RabbitMQ and its
client, which are not part of the repository: prefetch, requeue on close,
settling a delivery twice closes the channel, and frames on a closed channel are
ignored.  `Restart` is a new process that subscribes again; the code never
reopens a channel.

Left out: declaring the exchange and the queue and `Publish`, which are in
`PubSub` (messages start in the queue here), the order of messages, a queue with
`size` 0, a message the broker message codec rejects (its error is ignored and the
handler sees what was decoded), and panics of handlers (they end the process:
`Crash`).

Bounds: `MaxAsk` caps what a handler may ask for, `MaxFaults` the crashes and
lost channels.  Everything else is finite by itself: a message is delivered once
more per closed channel, and channels close at most once per process.

Runs.

* `queue_settle`: two workers, of one server (prefetch, and the channel closed by a
  double settlement while the other worker holds a delivery) or one each of two
  servers (a handler abandoned on one server, its message redelivered to the other,
  and its late result; one of the messages cannot be decoded); two messages, one
  retry, one fault.  It runs under `FairSpec`.
  Fairness is on each worker's loop, which the Go scheduler runs, and on
  delivery, which the broker does; there is none on handlers, because the timer
  of `time.After` fires whether they return or not, and none on restarts.
  `EverySettled` therefore assumes one server whose channel stays open.
* `queue_delivered_once` fails as a finding.

Refinement.  `WorkQueue` is what a queue group promises: a message waits, is with
one consumer that has room for it, and leaves as processed only when the delivery
that is with its consumer was handled; a consumer that is lost gives everything
back and its successes are forgotten; what has left never comes back.
`ImplementsWorkQueue` maps a server to a consumer of capacity `Size(s)`, `place` to
`at`, and to `good` the messages of which a call for the present delivery has
returned nil.  It shows that no interleaving of late results, double settlements,
requeues and crashes makes the broker and the workers do anything else; that
`Dropped` is allowed although the delivery is `good` is the abandoned handler that
succeeds after the timer has counted it as a failure.

One behaviour of the code is in the model without a property: a handler that the
timer abandoned runs on beside its worker's next call, so more handlers than
workers may run, and its goroutine then stays blocked for good on its unbuffered
channel (`results`, `sub.go:176`).

Proofs (`QueueConsumerProofs`).  All five invariants and the refinement, for any
servers, messages, finite set of workers and set of worlds, and any bounds; the
assumptions are the module's (workers have a home in each world, places are told
apart from servers).  `TypeInv` adds to `TypeOK` that deliveries a worker holds or may
still be given are of its own server and not later than the broker's last one
(`KnownOK`), and that the retry loop has seen one failure for each attempt and has as
many left as the first one asked for (`LoopOK`).  `OwnInv` is `HolderOwns` and
`UnsettledIsHeld` with `PlacedOK`: the broker waits for nobody whose channel is closed,
and what is buffered for an open channel is what it waits for.  `VerdictInv` is
`AckedMeansProcessed` and `DroppedMeansExhausted` with `ResultOK`: a worker acks after
the call it waited for has succeeded, and rejects when all have failed, when its
channel is closed or when it has acked itself.
`SpecImplementsWorkQueue` maps the initial states and
each action to a step of `WorkQueue` or a stutter; that a consumer has room for a
delivery is the prefetch limit, and that what it settles was handled is `HolderOwns`
and `VerdictInv`.  `EverySettled` is model-checked.

## 5. EtcdLease

State.  For each registered node the ticks its key has left in the store
(`lease`), the life of its server (`proc`), the goroutine that writes its key
(`beat`) and the time that goroutine has spent asleep or waiting for etcd
(`clock`).  `lost` bounds failing requests; `missed`, `gone` and `age` are
history, read only by properties.

Actions.  `Register` sends `Create`; `TakesEffect` is the moment etcd applies a
`Create` or `Set`; `Succeeds` and `Fails` are its return, after which the
heartbeat sleeps whatever the result, because `Register` starts the goroutine
even when it returns an error.  `BeatDue` is `time.After(time.Minute)` firing.
`Deregister` is one round of `stopRegistry`'s loop.  It leaves `beat` alone,
since nothing stops the goroutine.  `Exit` is any end of the process; a request
already sent may still reach etcd (`TakesEffect`) or not (`Vanishes`).  `Tick`
waits for due timers and for requests that have used up their time.

Bounds and assumptions.  A tick is 20 s, so the code's minute and 120 s are
`Beat = 3` and `TTL = 6`; a request takes at most `MaxDelay = 1` tick.
`PromptAssumption`, `Beat + 2 * MaxDelay < TTL`, is what the code's constants rely
on: between two writes of a key lie the rest of one request, the pause and the
next request, so with 60 s and 120 s each request must take less than 30 s.  The
code itself does not bound a request; with slower ones a live node does expire.
`MaxLost` bounds failing requests: one is enough, because `missed` makes
`LiveListed` ask nothing until a later request succeeds.  The node's id is a fresh
UUID, so `Create` never meets a key of an earlier process.

Left out: `CreateDir`, whose result is ignored, the cache and the watcher, and a
server whose `Run` is called again.

Runs.

* `etcd_lease`: two nodes, one failing request.

Nothing stops the heartbeat, and its `Set` creates a key that is absent, so a node
that was deregistered comes back to the store when a `Set` was in flight or when
the process lives on after `Run`.  `EndedExpires` bounds what is left of it once
the process has ended.

Proofs (`EtcdLeaseProofs`).  `LiveListed` and `EndedExpires` for any nodes and any
timing that satisfies `PromptAssumption`.  The inductive invariant `Inv` adds to
the types the time a phase may last (`PhaseOK`), how much of the lease is left in
each phase (`LeaseOK`: at least `TTL - clock` while the reply is under way,
`MaxDelay` less while asleep and another `Beat` less while asking), and how long a
key outlives its process (`AgeOK`, where a request in flight may write it once
more).

## 6. EtcdCache

State.  One `EtcdRegistry` shared by clients that `NewWithRegistry` built with
watch on: its cache `services`, the `RWMutex` (`rlocks` held for reading, `waiting`
writers, the `owner` of the write lock), each client's place in the call it is in,
and the watcher its `Watch` started with the events still to come.  The store is
outside: `store` has the nodes of each service and `dirs` the directories, which
outlive their nodes because nothing removes them.

Actions.  `GetLocks`, `Look` and `Ask` are `GetService`; a service that is not
cached is read from the store each time and never enters the cache.  `ListLocks`,
`Peek` and `Fetch` are `ListServices`: `Peek` returns a cache that is not empty
without `RUnlock`, as the code does.  `Fill` is the rest of `Watch`, which writes
the cache without the lock and starts the watcher.  `Connected` is the moment the
etcd watch exists; what changed before it is lost.  `Receive`, `Lock` and `Handle`
are the watcher goroutine; `WatchEnds` is `client.Watch` returning, after which
nobody starts it again.  A writer that waits keeps new readers out, as in
`sync.RWMutex`.

What a node of an event holds decides what `Cached` does: `newEtcdWatcher` builds
it from the value, or from the value before, without a name or an id, so it looks
for a service of the empty name.  No cached service of the store ever changes; the service of the empty
name grows with each created key and loses every other node with each deleted one.

Left out: the order of nodes, `Stop`, the crash Go's runtime may cause when `Fill`
writes the map while another client of the same registry reads it (two clients on
one registry; `CacheGuarded` is about one), and keys without a value.

Runs.

* `etcd_cache`: one client that looks up and lists, two services, two nodes, three
  changes.
  Fairness: a goroutine that is not blocked goes on, and a request to etcd returns
  (`FetchFails` and the empty answer of `Ask` are its errors); the store owes no
  events.  A user's `ListServices` keeps the read lock here, so `GetServiceReturns`
  has the proviso `Leaked`: nothing else in the registry can block a lookup.
  `CacheGuarded` adds to the types that whoever reads the cache under the lock has
  a read lock, that the watcher's write lock excludes them, and that `Fill`, which
  takes no lock, is alone.
* `etcd_cache_shared` fails as a finding: the second client of a registry keeps the
  read lock, the next event's writer waits for ever and keeps all readers out.
* `etcd_cache_follows` fails as a finding: an event changes no cached service.

Proofs (`EtcdCacheProofs`).  `AnswersAreOwn` for any clients, services, nodes and
numbers of changes and calls, and of `CacheGuarded` the part on locks likewise
(`SpecGuarded`); all of `CacheGuarded` for one client (`SpecCacheGuarded`), as it is
false for two.  `TypeInv` adds to the types what a client's call has at hand
(`CallOK`), that events were read from the store (`EventOK`, `StoreOK`), and that
`RUnlock` finds a lock to give back (`LockOK`: the read locks held are at least those of
the calls in progress).  `OwnInv` adds to `AnswersAreOwn` that the store, the cache and
the lists on their way to it have only nodes registered for the service (`OwnOK`);
events pass because what they carry has no name.  `LockInv` says that only a watcher
that handles an event has the write lock (`OwnerOK`) and that a client's watcher
starts after its only `Fill` (`StartOK`).  `GetServiceReturns` is model-checked.

## 7. Client

State.  `kind` is how the client was built: by `New`, by `NewWithRegistry`, or as the
stub client, whose `AsyncRequests` is the same code.  `main` is where `AsyncRequests`
is; for each goroutine its place in `Request` (`pc`), the index it was given, the
command of the circuit breaker (`run`, `timer`), the channels `output` and `failed`
(`errChan`), and `reply`, what was decoded into the caller's `Response`.
`hystrixConfig` is the client's map of configured commands and `settings` what hystrix
has been given, `done` the channel of results.  `crash` is what ended the process.
`body` is history: what came of a response's body.

Actions.  `Spawn` and `Collect` are the two loops of `AsyncRequests`.  `Resolve`,
`Lookup`, `ConfigureCommand` and `Configure` are `Request` up to `hystrix.Go`;
`TakeResponse` and `TakeError` are its final select, which may pick either when both
are ready.  A response is known by its headers when it is taken (`Responses`): status
200, or another one with an error as the server's `respError` writes it, or another
one with a Content-Type the switch at `client.go:216` passes over.  With a nil
`Response` the status is returned with a nil error, whatever it is (line 208).  Else
the goroutine is `"reading"`: `ReadError` and `NilEncoder` are the two cases of the
switch, `ReadReply` is the rest, also for an error status that falls through it, which
is then returned with a nil error (lines 228-229 and 245).  The error of reading the
body is dropped (line 212), so a body that was cut off may leave nothing, something
the encoder refuses, or half a reply it takes for a whole one; the caller gets the
response's status without an error in the first case and the last.  `StubAnswers` and
`NilType` are the stub client's `Request`.  `Refuse` to `TimerFires` model hystrix and
`http.Client` from how the code uses them: the breaker refuses a command or runs its
function, and its timer may report an error while the function runs on.  `MapRace`,
`NoNodes`, `NilEncoder` and `NilType` end the process: the runtime's check for a map
written while it is accessed, the modulus by zero nodes, the call of an encoder
`NewWithRegistry` left nil, and the type of a nil `Response`.

The code also does this: an empty slice is waited for for ever (`CallReturns` has
`N > 0`), and a response that loses the select against the timer stays in `output`
with its body open.

Left out: `Publish` (in `PubSub`), headers and encoding, which node `GetAddress`
picks, and the reuse of `buf` for request and response while the transport may still
send the first.  The options only assign fields.

Run `client_async`: three requests of which two have no `Response`, to one configured
and one new service; all kinds of client.  Three are enough for a goroutine to
find its service in the map while another one configures it and a third reads, and
for results to change places.  One request with a `Response` is enough, as reading
touches nothing of another request, and the invariants are proved for any number.

Fairness.  The goroutines and the breaker's timer run; servers and the breaker need not
answer.  Two steps of `Request` wait for others without limit and are not fair
(`Await`): the lookup of a registry, which for etcd may block for good
(`LookupReturns` in section 6), and the reading of a body, which the breaker's timer
does not cover since its function ends with the headers, and for which `http.Client` has
no timeout.  `CallReturns` therefore asks that it happens again and again that no
goroutine is `Held` by one of the two.

Some of the ways in which the process ends need no interleaving and have no property
of their own: a client of `NewWithRegistry` panics on the first custom error a server
sends (`client.go:219`), any request to a service whose directory is left without
nodes divides by zero (`discovery.go:18`), and the stub client panics on a nil
`Response`.

Proofs (`ClientProofs`).  All invariants, for any number of requests, services and
nodes.  `IndexOK` says that goroutine `g` works on request `g`, because the index is
passed by value (`client.go:137`).  `RunsConfigured` needs `ConfInv`: the map has only
commands hystrix was given, because `Configure` calls hystrix before it stores the
key.  `OneResultEach` needs `CountOK`: the results collected and those in the channel
are as many as the goroutines that have ended, and every one of these has one; as no
more results can be collected than there are requests, the loop ends with each
request's.  `ResultMatchesReply` needs `ReplyOK`: the `Response` of a goroutine that has
not ended is untouched and nothing of its body was read, and every result fits what was
decoded (`ReplyFits`).  `CallReturns` is model-checked.  The contracts are in section 13.

## 8. ConsulRegistry

State.  The cache `services` of one client, the read locks `ListServices` kept
(`rlocks`) and whether a writer waits for them (`stuck`), where the client is in
`Watch`, and the watcher: `main` is where the handler of the plan of the list is,
`watchers` the services with a plan of their own, `plans` how many each has had,
`handling` the calls of `serviceHandler` in progress, which may outlive their plan.
`catalog` is what consul has.  `late` is history: services last written for a plan
that had been stopped.

Actions.  `Watch`, `Fill` and `StartWatcher` are `Watch`; `WatchFails` leaves the
part of the cache it filled, as `NewWithRegistry` ignores the error.  `HandleAdds` to
`HandleStops` are `Handle`; its iteration over the live map may meet services that
come during it.  `Deliver` is a plan, which belongs to consul, and `ServiceHandler` its
call.  Nothing blocks inside a critical section, so each is one step; `Block` is the
`Lock` that meets the read lock `ListServices` kept.

Left out: `Stop` of the watcher, which nothing calls, a second client on the
registry, and the fields of a node.  Of these one matters: nodes read from consul
(`consul.go:75`, `watcher.go:48`) have no `URL`, which is what `GetAddress` uses, so an
address found through consul has no host.

Run `consul_watch`: two services, two nodes, three changes, which let a service
come, go and come again while a call for its first plan is still in progress.
Fairness: goroutines that are not blocked run, and plans see what consul has.
`CacheFollows` names the four ways in which the cache misses a service for good
(`Excused`); the run needs each of the last three, and the first, a failed `Watch`,
has no watcher at all.

Proofs (`ConsulProofs`).  `TypeOK` and `AnswersAreOwn` for any services, nodes and
numbers of changes and calls.  The inductive invariant `Inv` adds to them that all
sets of nodes on their way to a lookup were registered for its service (`OwnOK`: the
catalog, the cache, and the calls of `serviceHandler` in progress, which write after
their plan was stopped), and that `Handle` has a list while it compares and that
`ListServices` keeps at most a lock per call (`HandleOK`).  `CacheFollows` is
model-checked.

## 9. ServerLifecycle

State.  Where each server is in `Run`, the listener on each address (`bound`), whether a
request is in progress (`busy`), the services whose `node` is set, what it registered,
connected and subscribed, and whether its `graceful.Server` was told to stop
(`interrupt`).  `failed`, `kept`, `revived` and `refused` are history.

Actions.  One per step of `Run` and per element of its loops, with the failure of
each call: `Register`, `Connect` and the listener make `Run` return and leave what was
done before, `Subscribe` and `Deregister` do not.  `Close` interrupts at any time after
`Run` was called (before, it panics on a nil `srv`; left out).  `Serve` of graceful is
outside the repository: `StopListening` is its end of listening, after an interrupt, a
signal or an error of its own, which `Run` ignores, and `ServeReturns` its return.
In between it waits for the requests in progress (`Arrive`, `Finish`).  After a signal
it waits no longer than the timeout given to `Run`, if that is positive (`"draining"`,
`Timed`); `Close` calls `Stop(0)`, which sets the timeout to none, and then it waits
without limit (`"closing"`).  `Heartbeat` is the goroutine that each `Register` of the
etcd registry starts and nothing stops (`etcd.go:41`): it lists a node that was
deregistered again, for as long as the process lives.  `End` is the end of the process
at any time.  `RunTLS` differs in the certificate, whose failure is `ListenFails`.
`Register` may always fail, which covers etcd's `Create` of a key that a heartbeat has
written again before the second `Run`.

Run `server_lifecycle`: two servers on one address, one of them run twice: an
address that is taken, a listener that a failed start leaves open, and nodes of an
earlier run.  One has the etcd registry and a broker, the other a timeout.

`ListedIsServed` states the windows in which a registered node is not served: from
the registration to `Serve`, while `Serve` waits for the last requests and services
are then withdrawn one by one, after a start that gave up half way, after a
`Deregister` that failed, after a heartbeat that outlived `Run`, and after the process
ended.  Each of them occurs in the run.

Fairness: the calls of the registry and the broker return, graceful notices an
interrupt and its timer fires.  A request in progress need not end: `ServeHTTP` has no
timeout.  So `StopReturns` asks that it happens again and again that no request holds
the server up (`Held`), and needs that of a server with a timeout after `Close` only.

Left out: keys that expire in the registry's store, which is `EtcdLease`, and handlers
of the broker that run while it is closed.

Proofs (`ServerLifecycleProofs`).  `TypeOK`, `ListedIsServed` and `ServesSubscribed` for
any servers, services, subscribers and addresses, any assignment of addresses and
any number of runs.  `Inv` adds to them that a server holds its address from the
listener to the end of listening and not while it stops (`BoundOK`), that what
is registered has a `node`, so that `stopRegistry` visits it (`NodeOK`), and that the loop of
`startSubscribe` has each subscriber before it or behind it (`SubscribeOK`).
`StopReturns` is model-checked.

## 10. Registration

State.  The setup calls of a program (`program`, `made`), and what they leave:
`middleware`, `serviceMap`, `subscriberMap`, and `fatal` for `log.Fatal`.

Actions.  `Use`, `Service` (`register` and `prepareMethod`) and `Subscribe`
(`registerSub`), in the order the program makes them.  A method is what reflection
looks at: exported, numbers of parameters and results, the kinds of its types.
`NewURL`, `GetAddress`, `getServiceMethod` and `Routed` are the way of an address from
the client's URL to the method `ServeHTTP` finds.

`SetupKept` holds for a program whose calls all returned; `Service` ends the process
for a receiver that is not exported, a name that is taken or no suitable method,
`Subscribe` for an empty name.  A subscription is replaced by a later one with the
same joined name, and an unsuitable one is only logged.  `RequestsRouted` shows that a
URL with a slash at its end, or with a path, gives addresses the server answers with
404: `client.New` cuts the slash only when the URL begins with one
(`client.go:62`).

Left out: a `Subscribe` or `Service` call after `Run` and the fields of `Options`.
`prepareMethod` accepts methods `serve` panics on (`service.go:137`); the model
accepts them too.

## 11. MessageCodec

Operators, no state: `Size`, `MarshalTo`, `Unmarshal` and `skipMessage` on sequences of
bytes, varints as their groups of seven bits.  The code's loops are recursive functions
of the rounds they make, of which there are no more than bytes.  A failed `Unmarshal`
keeps the fields before the failure, and of a `Retry` that is cut off what was read, as
the code does.
An int32 that is negative is ten bytes long.  Lengths of 2^28 and more are alike,
longer than any data; the code's own arithmetic on lengths of 2^63 and more, and field
numbers written longer than needed, are left out.

`Samples` are the messages to be encoded, any whose lengths are below 2^28 (`Huge`,
`SamplesAssumption`); `Short` those of them that are also cut off and extended, and
`NoBody` is a body that is nil.  `EncodingKept`, in `PubSub`, says of them that a message
fills its buffer of `Size` bytes, that it is read back, that unknown fields before it
and behind it are passed over, and that a message which is cut off has lost its body
and is read without an error only when the cut is between two fields.  It does not
depend on the state but for the stub broker, which does without the encoding.  The
samples of `MCPubSub` are messages at the edges: varints of one to ten bytes, empty and
long fields, up to three header entries, every cut of the short ones, and unknown
fields of each wire type with groups in groups.

Proof (the first part of `PubSubProofs`).  `SpecEncodingKept` is for all samples and
all of them `Short`.  A recursive function of the model is shown to exist, and to be
what its equations say, by `SetInduction`: a set of naturals that has 0 and with a number
its successor has them all, which follows from the library's `WFMin` without an
operator as a parameter.  On this rest:

* *Varints.*  The groups of a length or an int32 are read back as that number
  (`LengthIs`, `Int32Is`, and `OrIntoZero` for `x |= group << shift` on a field that is
  zero), wherever in the data they stand (`ReadVarintIs`).
* *Round trip.*  A field `Moves` one message to another when a round of `Unmarshal` that
  stands at it reads all of it and goes from the one to the other.  A sequence of
  fields `Leads` from the first message to the last, over as many rounds, and data
  which is its concatenation is read to the end (`LeadsUnmarshals`).  Id, each entry of
  the header, Retry and Body lead from `EmptyMessage` to the message (`FieldsLead`,
  `RoundTripIs`).
* *Size.*  `SizeIs` sums the fields; the sum over the header does not depend on the order
  in which the keys are taken (`SumAny`).
* *Unknown fields.*  `skipMessage` at each of them ends at the next tag
  (`SkippedMoves`): such a field moves any message to itself (`UnknownMoves`).
* *Cuts.*  A part of a message `Notices` a cut within it: the round that stands at it
  fails and keeps the Body nil.  A cut is within one part or between two of them
  (`CutAt`), and what was read before it is a message of its own, whose encoding is the
  data before the cut (`CutIs`).  For a cut between entries of the header this needs
  that the keys before it, which are the first of the sorted keys, are those that the
  message of these entries alone is written with (`SortedFirst`); there is exactly one
  way to sort a set of keys (`OrderedExists`, `OrderedSame`).

## 12. PubSub

State.  `transport` is the way a message travels, constant in a behaviour: `stub`,
`http`, `direct` (`ServePubSub`), `nats` or `rabbitmq`; `shared` whether server and client
were given one broker object.  The server has its `stage`, the subscriptions it has yet
to make (`todo`) and those the broker has (`subs`, `bound` for RabbitMQ's
exchanges and queues).  `link` is the listener, connection or channel of a broker
object.  For each message `call` has its one `Publish`: where it is, the topic, the
queues it `must` reach and has `seen`, and the result.  `flight`, `inbox` and `work` are
publishings on their way to NATS or RabbitMQ, in queues, and in NATS callbacks; `got`
is history.

Actions.  `StartBroker`, `StartSubscribe` and `StopBroker` are the server's, `NewClient`,
`CloseClient` and `Publish` the client's.  `Arrive`, `CallHandler` and `RangeEnds` are the
dispatch of the HTTP broker's `ServeHTTP`, the stub broker's `Publish` and
`ServePubSub`: the queues of the topic in any order, until one fails.  A queue that is
subscribed during the range may be met by it.  `LoseRequest` breaks the publisher's
connection, with the request cut off or not; the handlers run on with what was
decoded.  `Route` is the broker of NATS or RabbitMQ taking the next publishing;
`Take` and `Callback` are NATS's queue groups and the retry loop.  `MapRace` is the
runtime noticing that `handlers` is read beside `Subscribe`.

Left out: TLS, a publisher that publishes a message twice, the order in which queues
are drained, and connections to NATS or RabbitMQ that break without `Close`; the
rest of RabbitMQ's way is `QueueConsumer`.  NATS ends callbacks only with the process.

Run `pubsub`: seven programs, among them two queues of one topic of which one has no
consumers, joined names that are equal, and a queue below two topics; two messages,
one of which may go to either of two topics; all five transports.  `MaxRuns = 2` for a
second `Run` after `Close`, `MaxLost = 1` lost connection, `MaxAsk = 2` retries, so that the loop
goes round more than once, and `Cuts = {5}`, a length within the encoded message.
Fairness is on what has begun: handlers return, which the timeout of a subscription
makes sure (with timeout 0 there is no timer, and it is an assumption about the user's
code), and the network, NATS and RabbitMQ go on; it asks only that one of the
steps under way is taken.  Servers, clients and publishers need not do anything.

`ServingIsReachable` names the two cases in which `Connect` returns without listening
because the object has listened before (`http.go:70`), and `QueuedUnlessMuted` the one
in which a publish to a topic without an exchange costs the client its channel.

Proofs (`PubSubProofs`).  All invariants of the run, for any messages, topics,
subscriptions, programs, URLs and bounds.  The inductive
invariants build on each other:

* `TypeInv` adds to the types that a program which is not done has started nothing
  (`IdleOK`), and what the records of `call`, `flight`, `inbox` and `work` look like
  (`CallOK`, `WayOK`).
* `LinkOK` relates the stage of the server to the link of its broker: this is
  `ServingIsReachable`.  `QueueOK` follows each publishing from `flight` to the queues it
  must reach (`FlightOK`), unless the publisher's channel is gone (`Muted`):
  `QueuedUnlessMuted`.
* `GroupOK` is `GroupHandlesOnce` with what is under way in NATS: a group that has handled a
  message has no other copy of it (`OnceOK`), and the callback's retries are those the
  handler asked for (`RetryOK`).
* `SyncOK` and `RangeOK` are about the ranges of the three brokers that dispatch before
  they answer: the queues seen are those called, the last of them alone may have
  failed, and the range ends when none it must reach is left.  `OneFailureEach` and
  `SuccessReachesAll` follow.
* `SetupOK` and `KeptOK` are `SetupKept`: `middleware` is the concatenation of what the
  calls made so far brought, and each of them is in force.  `RequestsRouted` is a fact
  about the operators (`NamesOK`): a path is cut at its last two slashes, whatever the
  names between.

* `EncodingKept` is a fact about the operators too (section 11).  The invariants rest on
  it: that a subscriber sees what was sent (`ReadIsSent`) is the round trip of
  the message's content.

Assumed are the module's constants: bounds that are numbers, programs whose names of
types and methods are not slashes, URLs that are not empty and do not begin with a
slash (with one, `client.go:62` cuts the last character of the URL), contents that are
samples of `MessageCodec` (`ContentAssumption`), and cuts that are lengths
(`CutsAssumption`).  Concatenations of sequences of any length are handled by
`SetInduction` as well.
`DeliveryEnds` is model-checked.

## 13. Contract

Operators, no state: `StubRequest` and `StubPublishes` are what the stub client answers
from a list of contracts, `Passes` what `ContractTest` asserts of a client of the
provider.  `Contracts` are the lists of contracts a run looks at and `Providers` what
a client may return from the calls in them: any status with or without an error, and
not the same from calls that differ in their values only.

`ContractsAgree`, in `Client`, has two parts.  `StubAgrees`: if all contracts of a list
pass with their providers, a call they describe gets from the stub client an error or
what a provider was seen to answer to a call alike, one of the same provider and method
whose values have types of the same names.  That may be another call than this one: the
stub client compares no values and goes by the first interaction, so that where
contracts expect several statuses of calls alike (200 for a name that is known, 404 for
one that is not) it answers the second as the first, which the provider was seen not to
do.  If they expect one status of all of them it is this call's own answer.  An
interaction that is both a request and a publish is tested as a publish only, so the
property leaves those lists out.  `OwnStubServes` says which contracts the stub client
serves wholly: the first interaction with a request answers for all of them.

The run evaluates both for all lists of one contract with up to two interactions and of
two contracts with one, and all providers that answer each call to one method with 200,
404 or 404 and an error, and the calls to the other method with one of these.  `SpecContractsAgree` in `ClientProofs` proves them for all lists
and providers: an answer that is not an error carries the status of the interaction that
decided, whose call is alike and was seen to get that status because its contract
passed; a contract is served when the least interaction of its requests, and the least
one of each topic, fits the others.

## 14. What is proved and what stays with TLC

Proved for every value of the constants, under the assumptions the modules name: all
invariants that runs check or that a module states (`TypeOK`), and the refinement
`ImplementsWorkQueue`.  `CacheGuarded` is proved for one client, for which alone it holds.
The runs of `RpcServer`, `ServerLifecycle`, `EtcdLease`, `EtcdCache` and `ConsulRegistry` do not
list `TypeOK`, as it is proved.

With TLC stay:

* liveness, which TLAPS does not handle: `EverySettled`, `GetServiceReturns`,
  `CallReturns`, `CacheFollows`, `StopReturns`, `DeliveryEnds`;
* the four runs that show a finding.

## 15. Not modelled

* The stub registry returns fixed values; the mock client is generated; the encoders
  are thin wrappers of serialisation libraries, of which the models use only
  whether decoding succeeds; the examples are read as documentation.
* `serviceMap` is read without `server.mu` (`server.go:357`) while `Service` may still
  register under it; the models register everything before the server runs.
* `ServePubSub` takes every subscription whose joined name begins with the topic
  (`sub.go:137`): `Matching` has this, but no property bounds what it reaches too much.
* `Subscribe` of RabbitMQ goes on with a nil channel when the channel cannot be
  opened (`rabbitmq.go:75`).
* Changes between the list of `Watch` and the start of the etcd watch are missed by the
  cache (`watcher.go:21`); `EtcdCache` has the gap, and as events change no cached
  service at all, no property would tell it apart.
* Nodes read from consul have no URL (`consul.go:75`).
* Buffers that go back to a pool while `net/http` may still send from them
  (`http.go:99`, `client.go:211`) need the transport as a model.
* `Close` of the HTTP broker closes its listener, not the connections that are kept
  alive (`http.go:85`), so a later `Publish` over one of them is still dispatched.
* A topic is part of the URL of the HTTP broker (`http.go:97`), and one with `?` or `#`
  in it arrives cut; the topics of the models are names that URLs keep.
* A RabbitMQ queue that two topics share gives the messages of both to whichever of
  the two handlers asks first; `QueuedUnlessMuted` says that a message is in the queue,
  not which handler takes it from there.
