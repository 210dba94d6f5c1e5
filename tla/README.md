# svckit in TLA+

A specification of svckit, the Go toolkit for services under `src/`: the
clustered clients for PostgreSQL, RabbitMQ and Redis, event delivery, the HTTP
client with its circuit breaker, the secrets store, and the life of a service
with its rate-limited requests. svckit is a library, so
a model is one object of a package (a `ClusterManager`, a `ClusterAdapter`, a
`Client`, a stack of secret stores, a queue with its subscribers) with the
goroutines that use it and the servers behind it.

Paths below are relative to `src/`.

## 1. Inventory

### pgcluster: `ClusterManager`

* **State.** Nodes with `Role`, `Health`, `Priority`, `sqlDB`, `lastCheck` and a
  mutex each; the manager's RWMutex, `circuitOpen` and `circuitOpenTime`, the
  round-robin counter, a tomb with the background tasks.
* **Operations.** `NewClusterManager` (connects to each node, starts the
  tasks), `Writer`, `Reader`, `DB`, `GetNodeStats`, `HealthCheck`,
  `SetWriterNode`, `ForceWriterDetection`, `Close`; in the background
  `performHealthChecks` (a goroutine per node and tick) and writer detection by
  query, by probe or by DNS.
* **Interactions.** Callers, health checks, detection and administrators share
  the nodes; only callers and `SetWriterNode` take the manager's mutex.
* **Hard.** Two layers of locks, a ping of up to 5 s below a node's mutex,
  goroutines that outlive the tomb, answers applied after the primary moved.
* **Correct when** a healthy node has a pool, a caller sees one writer, `Close`
  leaves nothing open, calls return, nodes recover, and the role follows the
  primary.

### amqpcluster: `ClusterAdapter`, publisher and subscriber

* **State.** Per node a connection, two channels, state, error count and mutex;
  the forwarders of the multiplexed consumers.
* **Operations.** `Publish` with failover, declarations on every node,
  `Subscribe`, health checks, `Close`; `ClusterPublisher` and
  `ClusterSubscriber` add signatures, dead-letter queues and acknowledgements.
* **Hard.** A publish that fails over while other publishers and checks change
  the nodes; publishing without confirms; deliveries that survive neither the
  connection nor the process.
* **Correct when** a message goes to a node at most once per call, a publish
  fails only if no node worked, nothing is open after `Close`, and an event
  leaves its queue only handled or dead-lettered.

### rediscluster: `ClusterAdapter`, client

* **State.** Per node a client, state, error count, mutex; `primaryClient`; the
  adapter's RWMutex.
* **Operations.** `ExecuteWithRetry` below every command, health checks,
  `updatePrimaryClient`, `MarkNodeFailed`, `Close`; `Pipeline` and `TxPipeline`
  go to `primaryClient`.
* **Hard.** Retries and tried nodes per command, thresholds per node, node and
  adapter mutexes taken in both orders.
* **Correct when** "no healthy nodes" is true, a command runs at most once on a
  node and on `MaxRetries + 1` nodes at most, and a node in rotation has a client.

### Configuration and start of the three clusters

* **State.** What `LoadConfigFromEnv` makes of the environment; the tasks of a
  `TombManager` with their wait group.
* **Operations.** `LoadConfigFromEnv` (server list, sizes, intervals, retries),
  `setDefaults`, `Validate`, the constructors, `StartBackgroundTask`,
  `StartEventSubscriber`, `Shutdown`, `calculateBackoff`.
* **Hard.** A zero means "not set", lists, numbered and single variables
  compete, durations overflow, a panic in a task is recovered.
* **Correct when** what runs is what was configured, waits keep their limits, and
  `Shutdown` ends.

### eventbus: publisher, subscriber, broadcast, signatures

* **State.** One connection and channel, the queue and its dead-letter queue, a
  verifier, `requireSigning`.
* **Operations.** `Publish` with `SignEvent`, `Subscribe` (set-up, then a goroutine that parses,
  verifies, handles and acknowledges), `BroadcastSubscriber` over an exclusive
  queue with its own retry rule, `Close`.
* **Correct when** a handler starts only on a verified event if signing is required, an
  event is not handled twice as long as connections hold, and every queue drains.

### httpclient: `Client` and `CircuitBreaker`

* **State.** `state`, `failureCount`, `lastFailureTime`, without a lock.
* **Operations.** `Do`: `CanExecute`, requests with retries, `RecordSuccess` or
  `RecordFailure`. Every attempt continues the trace in its context and sends it as
  headers; `middleware.Tracing` puts a request's trace there.
* **Correct when** lost updates and late results neither open the circuit early
  nor keep it open for ever, and the called service finds the trace of the request.

### secrets: `Cached`, `Retrying`, `Chain`, Vault, Kubernetes, environment

* **State.** The cache's entries with their expiry; the secret in the remote
  store.
* **Operations.** `Get`, `Set`, `Exists` through the stack `NewFromEnv` builds.
* **Correct when** a rotated-out value is not handed out for long and `Get` waits out
  an outage. (That a revoked secret does not come back the code says and does not keep:
  section 6.)

### middleware: `RateLimit`

* **State.** In Redis: a counter per client, type of endpoint and minute, and a
  block key per client and type.
* **Operations.** `IsAllowed`: is there a block, how high is the counter, then
  either set the block or increment, each in a command of its own.
* **Interactions.** Each command goes to a Redis server of rediscluster's choice: the
  reads to any, the increment to the primary client of the moment.
* **Correct when** concurrent requests exceed what a server has counted by no more than
  their number, and a client is not kept out for good.

### lifecycle and app: `Manager`, `App`

* **State.** A tomb with the goroutines of the service; the resources `New`
  created and the closers it tracks.
* **Operations.** `New`, starting tasks and subscribers, `Run` (HTTP server,
  signal, shutdown within five seconds, `Wait`), `Close`.
* **Hard.** `New` that fails half-way, tasks that fail or end before the server
  starts, handlers that outlive the shutdown, a tomb that is dead already.
* **Correct when** nothing is closed while it is used, everything tracked is
  closed in reverse order, and a signal ends the process.

### The rest

The other packages (`auth`, `audit`, `health`, `env`, `logging`, `ginx`, `chix`, `httpx`,
`buildinfo`, `debug`, `testkit`) keep no state that two operations could
disagree about.

## 2. Modules

| module | models | proved |
|---|---|---|
| `PgCluster` | `pgcluster/manager.go`, `health.go`, part of `writer_detection.go` (`SetWriterNode`) | `PgClusterProofs` |
| `PgWriterDetection` | `pgcluster/writer_detection.go` | `PgWriterDetectionProofs` |
| `HttpClient` | `httpclient/client.go`: `Do` and `CircuitBreaker` | `HttpTracingProofs` |
| `HttpTracing` | `httpclient/client.go`: `TraceContext`, `middleware/tracing.go`, over `HttpClient` | `HttpTracingProofs` |
| `SecretsStore` | `secrets/*.go` | `SecretsStoreProofs` |
| `EventDelivery` | `eventbus/publisher.go`, `delivery.go`, `broadcast.go`, `signing.go`, `amqpcluster/subscriber.go`, `Subscribe` of `adapter.go` | `EventDeliveryProofs` |
| `AmqpCluster` | `amqpcluster/adapter.go`, `publisher.go` (`Publish`) | `AmqpClusterProofs` |
| `RedisCluster` | `rediscluster/adapter.go`, `health.go`, the commands of `client.go` | `RedisClusterProofs` |
| `Failover` | what `AmqpCluster` and `RedisCluster` promise one caller (abstract) | implemented by both |
| `EventQueue` | what `EventDelivery` promises with the cluster adapter (abstract) | implemented, `EventDeliveryProofs` |
| `ClusterStart` | `config.go` and `tomb.go` of the three clusters, their constructors, `calculateBackoff` | `PgClusterProofs` |
| `RateLimiter` | `middleware/rate_limiting.go` | `ServiceProofs` |
| `Service` | `lifecycle/manager.go`, `app/app.go`, over `RateLimiter` | `ServiceProofs` |

`MCPgCluster`, `MCAmqpCluster` and `MCRedisCluster` add the symmetry sets for
TLC. `PROJECT.json` maps every definition to its lines.

**Grain.** A step is what the code does between two points where another
goroutine can come in. A critical section that only touches memory is one step,
guarded by the lock being free. A section that waits for a server below a lock
(a ping, a reconnect) is two steps, with the lock held between them. Where the
code has no lock at all (the breaker of `httpclient`, the circuit flag of
`pgcluster` under a read lock, the read of a selected reader's `sqlDB`) every
access to shared memory is a step.

**PgCluster.** `lock[n]` says who holds `node.mutex` across a wait: nobody, a
ping, or a check that locked it and then called `connectToNode`, which locks it
again ("relock", a wait no step ends). A caller walks the nodes one at a time
(`ScanNode`), since the code locks each node for its own test; the first walk of
`HealthCheck` (`hasHealthyNodes`) asks for the same locks and is one with the second.
The circuit is opened in three steps, the test, the flag and the time (`CircuitOpen`,
`CircuitTrip`, `CircuitStamp`). `RLockGrantable`
and `LockGrantable` are `sync.RWMutex`: a waiting `Lock` keeps out new readers,
including those that hold a read lock already, as `Reader` does when it calls
`Writer`.

**PgWriterDetection.** A detection goroutine is counted by node and by what it
knows: asked, told "primary", told "replica". Answers are applied at any later
time, in any order, while the primary moves (`Failover`), DNS lags behind
(`DnsUpdate`), nodes come and go (`Outage`, `LosePool`) and an operator sets the
writer. `conn` is what `PgCluster`'s health checks make of a node. `Answer` is what a query
or a probe brings, or an error; a query whose pool goes while it runs may still answer.
A probe may be let through by a node that is not the primary (`Learns`). `IpNodes` have
a postgres:// URL with an address, `HostNodes` one with a name, the rest neither.

**HttpClient.** `failureCount++` is `ReadCount` and `WriteCount`, its comparison with
`maxFailures` and the opening are `Trip` and `OpenCircuit`; the counter is
kept up to `maxFailures`, the only value it is compared with.

**HttpTracing.** Extends `HttpClient` by the trace of the request being served, by
the context every call starts from, and by the headers its last attempt sent. An
identifier is its form ("hex" or not), its owner and a number; `RequestID`,
`CorrelationID` and `UserID` travel as `TraceID` does. The called service is
`Tracing` applied to the headers again.

**SecretsStore.** One secret, in the environment, in Vault or in Kubernetes.
`Read` and `Store` are separate steps, with up to `MaxLag` ticks between them.
`Refusal` is what the two `checkStatus` make of an HTTP status; a request without an
answer may have been carried out; a Kubernetes secret is patched and, if it was
not there, created by a second request. Time passes by `Tick`; `stale` counts the
ticks since a version was last the backend's. `Revoke` empties the secret at any time,
whether or not the environment has it too.

**EventDelivery.** The broker is modelled by what the subscribers rely on. The
style of subscriber, its signing and whether the routing pattern matches the
dead-letter key as well are chosen in `Init`; how an event is signed is chosen when
it is published (with the key of the subscribers, with another, or not at all), and its
signature may lapse at any time (`Lapse`). `Parse` says what becomes of it: the handler
gets the event, or a value that is not one, or the delivery is rejected. A handler may
return an error taken for transient as often as it likes (`HandlerFails`), as nothing
counts; neither are breaks or restarts counted. Acknowledgements are explicit: with
`AutoAck` there is nothing to settle, and those branches are left out. `held` is what
the broker waits for, `buffer` what has been received and not been looked at: only
`Subscriber` sets a Qos, so the other two receive all there is. A connection that
breaks returns what was held; `Close` of the cluster subscriber first waits for the
handler (`Closing`), the other two do not.

**AmqpCluster, RedisCluster.** Same shape: node records, calls that walk over
them, health checks, `Close`. Choosing a node by counter, random number or hash
is a choice among the healthy nodes. In `RedisCluster` a health check keeps its
node's mutex through `connectToNode` and `updatePrimaryClient`, as the code
does, so the waits for a mutex it holds itself are in the model. Checks start at a tick, by
`ForceHealthCheck` or by `WaitForHealthy`, before and after `Close` (`Tick`); of two of
a node the second waits for its mutex. go-redis' own retries on a node belong to one
attempt (`RunOk`, `RunFails`).

**Failover.** The abstract call: it works on one node at a time, never comes back
to one that failed it, tries at most `Limit` nodes, succeeds only on the node it works
on and gives up only between nodes. `AmqpCluster!Call` and `RedisCluster!Call` are
its instances, one per caller, with a refinement mapping: `at` is the node of the
publish or command under way, `tried` the nodes it was sent to. `OneSendPerNode` and
`OneAttemptPerNode` say that each call starts and steps as `Failover` does.

**EventQueue.** A queue that delivers at least once: an event is leased to one consumer
at a time, a consumer may handle what it was given even after the lease has ended, only
the holder ends a lease, completes it only if the event has been handled, and a dead
letter has a copy. In `EventDelivery!Queue` the lease is `held`, what a consumer has in
hand is its `buffer` and the event it works on, `handled` is `accepted`, `buried` is
`dead`, and the fate of an event is its `place`, with what is not sent or not routed as
"dropped". `DeliversAtLeastOnce` says so of the cluster adapter; the other two bind the
dead-letter queue too late, or have none, and may lose what they reject.

**ClusterStart.** The three packages have the same shape and share the module;
`package` says which is at work. A variable's value is its name: `<<"url", 2>>` is
the server the variable with suffix 2 names, so that a server can be found missing
or doubled. Numbers keep a width (`Width` bits instead of 64): `Wrap` and `Backoff`
are Go's arithmetic on `time.Duration`. A task is "starting" until its goroutine
runs, "panicked" when `time.NewTicker` refuses its interval, "parked" in
`StartEventSubscriber`'s wait for a channel that is nil.

**RateLimiter, Service.** `RateLimiter` has the state and actions of the requests
and no specification of its own: `Service` extends it and lets requests begin
while its server listens, so that the shutdown meets requests at every stage of
`IsAllowed`. The tomb is modelled by what `lifecycle` relies on: it is dying once a
goroutine failed, the last one returned or it was killed, and dead once none is
left. `Servers` are the Redis servers, each with its own counter and block; where a
command goes is a choice at each step, which allows every selection and every change
of the primary client. Options of `New` are chosen step by step ("not asked for", "optional",
"required"). A counter is kept for this minute and, while requests are at work on
it, for the one before.

## 3. Runs

| run | shows | bounds |
|---|---|---|
| `pg_calls` | construction, `Reader` with its fallback to `Writer`, the circuit breaker, `SetWriterNode`, checks and `Close`: healthy nodes have pools, calls see one writer, nothing is open after `Close` | 2 nodes, 1 caller, 1 administrator, 1 queued check per node, servers up or refusing |
| `pg_calls_return` | the other calls, `SetWriterNode` and `Close` return, nodes recover | 1 node, 1 caller, 1 administrator, servers up, slow or flaky |
| `pg_detection` | detection by query, by probe and by DNS with a forced walk: priority 0 is the writer; except by the probe no node is promoted that never was primary; roles settle, with DNS on nodes with addresses (a primary with a host name ends as a reader), with the probe in that the primary is a writer | 3 nodes, two with an address and one with a host name in the URL, one answer in flight per node, one failover, outage, loss and set |
| `http_calls` | the unlocked breaker opens no earlier than the threshold and recovers; every attempt carries the trace of the request | 2 callers, 2 failures, 1 retry; requests from a svckit service, a W3C or a legacy peer, nobody, or none at all |
| `secrets_reads` | staleness is bounded through rotation and revocation, what the environment has of a revoked secret excepted; `Get` waits out an outage | 2 callers, 2 versions, ttl 1, lag 1, all three backends, answers ok, 401 or lost, the secret in the environment or not |
| `events` | the cluster queue implements `EventQueue`, so that nothing vanishes; a handler starts only on what verifies at that moment, the exceptions listed; no event is handled twice unless a connection breaks; queues drain unless the errors, breaks or handlers go on for ever | 2 events, each signed, forged, unsigned or not sent, 2 instances, 7 configurations |
| `amqp_publish` | publishes implement `Failover`, failure only without a node, `Close` is final | 2 nodes, 2 publishers |
| `redis_commands` | commands implement `Failover`, "no healthy nodes" is true, a node in rotation has a client | 2 nodes, 1 command with 1 retry, threshold 2 |
| `cluster_start` | what runs is exactly the servers and the numbers that count, waits keep their limits, `Shutdown` ends unless a query or a subscriber function does not | 3 numbered variables, 10-bit durations with a second of 4 units, sizes and retries 0, 2, 9, 50 or -1, durations 0, 3, 16, 200, 420 or -1 |
| `service` | the shutdown ends, nothing is closed in use, closers run in reverse, the limiter admits at most one too many of the requests a server lets through and counts, some server's block ends | 1 task, database and publisher, 2 requests, 2 Redis servers whose commands may fail, limit 1, a block of 2 ticks |
| `pg_self_lock` | finding 1 | 1 node |
| `pg_recursive_rlock` | finding 2 | 1 node, 1 caller, 1 administrator |

**Why these bounds are enough to be of use.** Locks, roles and pools are per
node, and a loop over the nodes can be interrupted between two of them: two
nodes give every order of "before" and "behind the loop", and writer and reader
differ. Detection compares nodes pairwise, the third one being the node whose URL
has a host name, so that DNS resolves to it and finds no node. Two Redis servers are
enough for a count that is read on one and incremented on the other. Lost updates and reordered answers need two actors. Two events
and two instances give redelivery beside a handler still at work. Three numbered
variables give a gap, and with the one without number every precedence; the numbers
of `cluster_start` lie on both sides of the defaults and of every test in the
code; 3 * 200 as well as 200 * 2^n exceed the range of ten bits, and so does 420 with a
quarter of jitter. Nothing in the code depends on
a number above the thresholds, and those are small in the runs because they only set
the length of the way to them.

Every counter that could grow has a bound in a guard: `MaxChecks`, `MaxInFlight`,
`MaxFailovers`, `MaxOutages`, `MaxLosses`, `MaxSets`, `MaxVersion`, `MaxLag`,
`Prefetch`, `Slots`, the cap `Limit` of the counters of `RateLimiter`. `MaxChecks` and `MaxInFlight` stand
for goroutines the code starts without limit.

In `service` one task is enough for a tomb that is dead before `Run`; that a second
task meets a dead tomb takes the same way through `Panic`.

`pg_calls`, `pg_detection`, `events`, `amqp_publish`, `redis_commands`,
`cluster_start` and `service` do not check for deadlock: there the system may stop,
by the self-locks below, by a configuration refused, by a process that panicked or
exited, or because every event has been dealt with.

## 4. Fairness

* A goroutine that can run does (Go's scheduler), so steps of a call under way
  are weakly fair.
* One that waits for a `sync.Mutex` or `sync.RWMutex` is not passed over for ever
  (starvation mode of the mutex, reader hand-over of the RWMutex): strong
  fairness for the lock-taking steps of `PgCluster`.
* Tickers fire and time passes. Pings, queries and HTTP requests end, since each
  has a timeout in the code.
* Nobody is obliged to call anything. One exception, stated with the
  specification: `HttpTracing!FairSpec` asks that clients keep calling, which
  `RecoversWithPeer` is about.
* In `EventDelivery` the loop of an instance goes on and what only waits expires (the
  broker's `x-message-ttl`). A handler need not return, nobody has to subscribe,
  and nothing is started again.
* In `Service` the shutdown's steps, goroutines told to stop, requests and the
  clock are fair. A task's own function is trusted to look at `Dying`, a cleanup
  function and a closer to return (pgcluster's `Close` does not where finding 1 has
  left a mutex locked; `PgCluster` has that case, `Service` has not). When a signal
  arrives is not up to the code.
* In `ClusterStart` goroutines start and end as they are told. The writer detection
  may be held up by a query, and a subscriber function is given no context
  (`amqpcluster/tomb.go:57`) and need not return: `ShutdownEnds` excepts both.
* Servers are never fair. Properties that need a server to be up say so.

## 5. Proofs

Every component has a module of proofs that extends it (`ClusterStart` shares that of
`PgCluster`). The theorems hold for every value of the constants that satisfies the named
`ASSUME`s, from `Spec` alone; a `FairSpec` is `Spec` with fairness added, so that they
hold of it too. Each module proves `TypeCorrect` (`Spec => []TypeOK`) and all the safety
properties its run checks, the refinements included. Few of these are inductive as they stand; the invariants below are, and TLC
checked each of them, on the bounds of the run, before it was proved (not `TracingInv`,
which ranges over all numbers).

**`PgClusterProofs`**, for any number of nodes, callers and administrators.

* `OneWriterAlways`. Between the first and the last `AdminUpdate` there may be none or
  two writers. `RWMutexInv` says the RWMutex excludes: nobody holds it for reading
  while an administrator updates, and only one updates. `RolesInv` says there is one
  writer outside the walk, and inside it the nodes passed have the role the target
  gives them, so that at its end there is one again.
* `HealthyAlwaysHasPool` and `CloseReleases`, both from `PoolInv`: no node the
  constructor has not reached has an open pool (`ConnectInv`), nodes `Close` has passed
  have none open (`CloseInv`), a check that pings has a pool (`PingInv`). `CloseInv` is
  where the checks that outlive `Close` matter: a check never gets to open a pool.

The same module proves `ClusterStart`, for any number of numbered variables, any
width of durations and any values; `StartInv` (`StartInductive`) is the types,
`LoadedInv`, `AttemptInv` and `TaskInv`.

* `ConfigurationApplied` (`RunsAsConfigured`). `LoadedInv`: from the first phase on the
  configuration is what the environment loads to. The rest is about `Loaded`: the server
  lists of the three packages have exactly the servers that count (`UrlsRead`, `HostsRead`,
  the list, localhost where `FirstIsLocalhost`), each at one place but for a host without
  number (`PgServersAre`, `AmqpServersAre`, `RedisServersAre`). What the documentation
  would have count and the code does not read is named in the comment of the property. `Named` puts suffixes in order by
  their rank, a cardinality; that every suffix has a rank of its own and every rank a
  suffix is a counting argument.
* `WaitsStayBounded` (`WaitsBounded`). `AttemptInv`: a wait is the backoff of the last
  attempt and some jitter, both wrapped; `TaskInv`: only an interval that is not positive
  makes a ticker panic. `Wrap` changes nothing within the range (`WrapIsExact`). The library
  has no facts about powers; 2^n is counted as the number of subsets of 1..n, which gives
  what is needed of it without an induction. The first attempt at this proof failed for a good
  reason: a wait near the top of the range overflows by its jitter alone. The property
  now asks for settings within range including the jitter, and the run has the case
  (420 of 511).

**`PgWriterDetectionProofs`**, for any number of nodes, walkers, administrators,
strategies, answers in flight and failovers.

* `WriterIsTrusted`, but for the probe, which makes a writer of any node that lets it begin.
  A writer is made by an answer, a DNS walk or an administrator, all of
  which start long before. `TrustInv` follows the name of a trusted node on all three ways:
  the current primary and what DNS says are trusted, so is a node of which an answer
  "primary" is in flight, the address of a walk under way and the target of an
  administrator.
* `WriterHasPriorityZero` needs the types only; `FlightBounded` makes those inductive.

**`AmqpClusterProofs`**, for any number of nodes and publishers and all mixes of faults.

* `AtMostOneSend` is the refinement: `Init` maps to `Failover`'s initial states and every
  step of every publisher, check and `Close` to a step of the abstract call or to a stutter.
  The hard part is that a node chosen is not one sent to before, which two lists decide that
  were read at different times. `AttemptInv`: a node that failed a call has an error
  counted, so no check makes it healthy again, and is out of rotation and off the list,
  but for the moment in which the call has yet to degrade it.
* `GivesUpOnlyWithoutNode`. `SteadyInv`: a node that has worked all the while is on the list
  of the failover loop, or still ahead of the scan that makes it.
* `ClosesForGood`. `ClosedInv` is the loop invariant of `Close`, stable because nothing
  opens a connection again.

**`RedisClusterProofs`**, for any number of nodes, callers, retries and any threshold.

* `AtMostOneAttempt`, again step by step against `Failover`. What has to be bounded
  is the number of nodes tried; what the code counts is turns. `AttemptInv` relates them:
  the nodes tried are no more than the turns taken.
* `UnavailableIsTrue` (`SteadyInv`, as above) and `RotationKeepsClients` (`RotationInv`:
  healthy nodes have a client, nodes `Close` has passed have none open).

**`HttpTracingProofs`**, for any number of calls, `maxFailures` and `MaxRetries`.

* `NeverTripsEarly`. Updates of `failureCount` get lost. `RecordInv`: neither the counter
  nor any copy read of it is ever ahead of the failed calls recorded, so what is lost
  makes the circuit open later, not earlier; a call about to open it (`Trip` and
  `OpenCircuit` are two steps) has found `maxFailures` of them.
* `TraceAlwaysFollows`. `TracingInv`: a call under way continues the trace of the request,
  and what it sent last was one of its attempts to; the rest are two lemmas on the operators:
  what `Tracing` makes of each kind of request (`IncomingType`), and what the called service
  reads from the headers of an attempt (`SentTrace`). `AbsentAssumption` says that the sign
  for a missing identifier is none of the identifiers.

**`EventDeliveryProofs`**, for any number of events, instances and signers.

* `NothingVanishes`. `HoldInv`: a delivery is held by one connected instance only.
  `KeepInv`: with the cluster adapter no event reaches a queue before its dead-letter
  queue is bound, and an acknowledgement on its way is for an event its handler accepted.
* `OnlySignedHandled` (`OnlyVerifiedStarts`, an action property). A handler starts on what
  `Take` finds in the buffer; what verified when it was published may have lapsed since, and
  is looked at again here. `SentInv`: what nothing was sent of is in no queue and no buffer,
  so that whatever is taken has a kind. The exceptions are disjuncts of the formula: a
  broadcast subscriber has no verifier, a cluster takes unsigned events whatever
  `SigningRequired` says, a `Subscriber` that does not require signing takes plain ones,
  and without a verifier calls its handler on signed ones too.
* `SuccessIsFinal`. `OnceInv`: until a connection breaks, what an instance works on and what
  it has buffered is still held for it, so that only this instance can end it.

* `ImplementsEventQueue` (`DeliversAtLeastOnce`), step by step, from `HoldInv` and `KeepInv`.
  A step of a handler is a stutter or `Handle`; a settlement is `Complete`, `Reject` or
  `Return`, or, when the connection it came by is gone, a `Return` of nothing; a break,
  a loss, a stop or a restart is a `Return` of what was held. The hard part is that
  what an instance works on may be with another one by then: `Complete` needs the
  lease of the one that settles and an event that was handled, which is `KeepInv`.

**`ServiceProofs`**, for any finite sets of tasks and requests and any choice of resources.

* `LimitHolds`. What is bounded is, per server, the requests of a minute that its counter let
  through and that were counted there (`admitted`). `LimiterInv`: those, with the ones
  about to increment, are within the bound, and a counter below the limit has
  missed none of them. With one server and without errors of Redis these are all that pass.
* `ClosedUnused`. `TombInv`: the tomb counts the goroutines alive (a cardinality), and is dead
  only without any. `PhaseInv`: what is at rest in each phase of the main goroutine; in
  particular no request is served before the server starts, and every way into `Close`
  (`New` failed, a panic of the dead tomb, `Wait`) finds no goroutine alive.
* `ReverseRelease`. `CloserInv`: the closers are exactly the open resources, in the order of
  `New`, and what is closed comes behind all of them.

**`SecretsStoreProofs`**, for any number of callers and writes, any time to live and lag.

* `RotationArrives`. A value goes from the backend through a call into the cache;
  `AgeInv` bounds its age at each place: the version the stack resolves to is not stale
  (`CurrentInv`), one on its way is no older than its lag (`HeldInv`), a cached one no older
  than the lag and the part of the time to live that is over (`CachedInv`).
  Revocation is in it. What the environment has of a revoked secret comes back through the
  chain and is current again (`Revoke` sets its age to zero, the exception the comment of
  `StaleOnlyWithinLag` names), so that the bound speaks of what was rotated out.

**Only model-checked.** All liveness (`NodesRecover`, `EveryCallReturns`, `AdminReturns`,
`RolesSettle`, `RecoversWithPeer`, `GetsArrive`, `QueueDrains`, `ShutdownEnds`, `BlockEnds`):
fairness and `ENABLED` are outside the prover's fragment. What section 6 finds
violated holds in `pg_calls_return`, where no server refuses a connection and nobody
calls `Reader`.

## 6. Findings

1. **A node that lost its pool locks itself** (`pgcluster/health.go:54`, run
   `pg_self_lock`). `checkNodeHealth` calls `connectToNode` with `node.mutex`
   held, and `connectToNode` locks it (so do `amqpcluster/adapter.go:537` and
   `rediscluster/health.go:87`). The node never recovers, and every call
   that comes to it, `Close` included, waits.
2. **`Reader` read-locks twice** (`pgcluster/manager.go:350`, run
   `pg_recursive_rlock`). `SetWriterNode` in between stops both for ever.

### Known divergences

Met while modelling and part of the models and of what the runs cover. Where a property
would be contradicted, the exception is in its formula or its comment; the rest is
not stated as a property, because the code does not promise otherwise.

* pgcluster: `Reader` reads the selected node's `sqlDB` without its mutex and may
  return nil without an error (`manager.go:374`). The circuit opens at the first
  failed look-up, whatever the configured threshold (`manager.go:328`). A caller
  that saw the timeout pass may close a circuit opened again since
  (`manager.go:482`). The probe strategy never demotes
  (`writer_detection.go:156`), and the comment that a replica refuses the transaction
  (`writer_detection.go:141`) is not taken for granted: the code only asks whether
  `BeginTx` succeeds, and in the model any node may let it (`Learns`); `WriterWasTrusted`
  excepts the probe. A detection goroutine dereferences a pool that may
  be nil by then (`writer_detection.go:102`). `extractIPFromURL` returns the host part
  of a URL, name or address (`writer_detection.go:197`): with host names, as in
  `ProdClusterExample` (`config.go:370`), the DNS strategy finds no node and demotes the
  writer it started with. Node 3 of `pg_detection` is such a node, and `RolesSettle` says what
  becomes of it: a reader, primary or not.
  `DB_HOST` alone makes five readers of the same server (`config.go:96`). A
  `DB_MAX_OPEN_CONNS` below ten is refused unless `DB_MAX_IDLE_CONNS` is set too,
  whose default is ten (`config.go:260`).
* all three clusters: `calculateBackoff` overflows for a large attempt or base, the
  limit is then not applied, and a base or limit below 4 ns panics
  (`pgcluster/manager.go:296`, `rediscluster/adapter.go:400`); three times the health
  check interval overflows as well, and the writer detection panics, which is logged
  (`writer_detection.go:26`). A wait near the top of the range overflows by its jitter alone
  and is negative then. `WaitsBounded` is stated for settings within range, the jitter
  included.
* httpclient: a body that does not marshal, a bad URL or an ended context counts
  as a failure of the peer (`client.go:637`). A server that receives a request from
  a svckit client finds its `SpanID` equal to its `ParentSpanID` (`client.go:379`: the
  `X-Span-ID` header is kept beside the traceparent that names the same span). A caller with
  a traceparent alone leaves `RequestID` and `CorrelationID` empty. Two concurrent
  calls that continue a trace built by the client itself, not parsed from headers,
  append to the same slice (`client.go:268`, `284`).
* secrets: the time to live starts when the answer is stored, not when it was
  read (`cached.go:74`), and a `Get` that began before a `Set` can store the old
  value after it (`cached.go:48`). Hence `StaleOnlyWithinLag` says `TTL + MaxLag`.
  An empty value is "a tombstone: the secret was revoked" (`kubernetes.go:170`),
  but it is reported as `ErrNotFound`, on which `Chain` goes on to the environment
  (`chain.go:27`), which `factory.go:54` always chains: a revoked secret comes back with
  the bootstrap value, for good. `Revoke` models it, and `StaleOnlyWithinLag`
  excepts that value. `ErrAccessDenied` is for "401/403"
  (`secrets.go:33`), but Vault's `checkStatus` maps 401 to an unexpected status
  (`vault.go:157`). `Set` "creates or overwrites" (`secrets.go:51`), but of two
  that create a Kubernetes secret one finds the other's and fails
  (`kubernetes.go:222`). `factory.go:29` still says that the Kubernetes backend is
  not implemented.
* lifecycle, app: `lifecycle/doc.go:4` says the shutdown lets requests in flight
  finish, "then cancels the background work"; `WaitForShutdownSignal` kills the
  tomb first (`manager.go:126`). A task that fails leaves the server listening
  until a signal comes. `Run` panics if every task has ended before it
  (`manager.go:37`). `Close` "releases everything New created" (`app.go:354`),
  but the audit client gets no closer (`app.go:250`); `ReleasedInReverse` leaves
  it out.
* middleware: a Redis error lets the request through, as documented; check and
  increment are separate, so that the limit may be exceeded (`WithinLimit`); the
  pipeline that increments goes to `primaryClient` (`rediscluster/client.go:307`), the reads
  to a selected node. With several independent servers (`rediscluster/config.go:352`) the
  count read need never be the one incremented, and nothing is bounded then;
  `WithinLimit` speaks of what a server both lets through and counts. Requests that a
  Redis error lets through are counted nowhere.
* eventbus: the dead-letter queue is bound after the main queue, so that early
  rejections are lost (`publisher.go:316`); `DeliversAtLeastOnce` is stated for the
  cluster subscriber, which binds it first. A signed event met without a verifier
  is parsed as a plain one (`publisher.go:399`). A pattern that matches the
  dead-letter key brings dead letters back into the queue (`publisher.go:307`);
  `QueueDrains` excludes it. A transient error is requeued at once and without limit
  (`publisher.go:441`, `amqpcluster/subscriber.go:239`): such an event, and what waits with
  it, need never leave the queue, and `QueueDrains` excepts it. The retry header of broadcasts is read and never
  written (`broadcast.go:181`). An event that waits or is retried longer than its
  signature's thirty minutes is dead-lettered as a security failure (`signing.go:99`).
* amqpcluster: signing is to be required (`SigningRequired`, `config.go:31`, `151`, `253`),
  but nothing reads the setting and an unsigned event is handled
  (`OnlyVerifiedStarts` names it). An event that does not verify passes
  `isRetryableError`, which looks for words in a text that quotes what was received,
  and may be requeued (`subscriber.go:219`). `StartEventSubscriber` hands its function no
  context (`tomb.go:57`), so that one that blocks keeps `Shutdown` waiting.
  `PrefetchCount` is never applied (`subscriber.go:81`).
  `contains` is "case-insensitive" (`subscriber.go:325`) and compares bytes, so that
  "Connection refused" is retried for its second word only. `LoadConfigFromEnv` does
  not call `Validate`, and the constructors of publisher and subscriber replace
  interval and retry count by 30 s and 3 (`publisher.go:26`), whatever was loaded. `RABBITMQ_HOST` alone makes five nodes of the same server
  (`config.go:114`); `RABBITMQ_HOST_1` of the Docker example (`config.go:269`) and `RABBITMQ_URL_1` are
  never read, and the first node is localhost instead (`RunsAsConfigured`). A forwarder goroutine of `Subscribe` stays when its consumer stops
  reading (`adapter.go:413`). A declaration the broker refuses closes its channel,
  which nobody opens again, while the node stays healthy; only the publisher declares
  the exchange, so a subscriber that comes first fails at `BindQueue` and has to be
  made anew (`subscriber.go:135`; `SetupFails` starts over). The package comment says
  that nodes "reconnect in the background" (`doc.go:3`): they meet the self-lock of
  finding 1 (`adapter.go:537`). A node that failed once keeps its error count and
  stays degraded (`adapter.go:562`).
  `StartEventSubscriber` in `tomb.go:58` logs "will retry" and waits for the end.
* rediscluster: with `REDIS_CLUSTER_NODES` the password is not read
  (`config.go:48`, against the example in `config.go:352`); `REDIS_MAX_RETRIES=0` and
  `REDIS_MIN_IDLE_CONNS=0` are accepted and then replaced by the defaults
  (`config.go:238`); `NewClusterAdapter` says "Validate configuration" and does not
  (`adapter.go:111`). `Pipeline` hands out `primaryClient` without a lock
  (`client.go:307`). The self-lock again (`health.go:87`); `updatePrimaryClient` asks
  for the adapter's mutex below a node's, the opposite order of everyone else,
  and then for the node's own (`health.go:118`); a degraded node
  recovers only if its ping took longer than `CircuitBreakerTimeout`, since the time
  compared was set by the same check (`health.go:100`); a command whose node loses its
  client after the selection fails with "node client is nil" (`health.go:84`); a
  hash-selected node that failed is selected again and uses the attempts up
  (`adapter.go:323`).

## 7. Not modelled, and what is left

Not modelled:

* logging, metrics, statistics, message formats, and the stateless packages (`auth`,
  `ginx`, `chix`, `httpx`, `env`, `debug`, `buildinfo`), whose functions depend on one
  request or one variable alone;
* the canonical JSON and the HMAC of a signature: `EventDelivery` takes a signature
  to be that of the content under the key, which is what the code needs of them;
* `eventbus.Dispatcher`, a map filled before use, inside one handler;
* `audit`, which builds one event and publishes it; `health`, which reads the others;
* the multiplexing of amqpcluster's `Subscribe` and the declarations on several nodes:
  every node has its own copy of a queue, and the code promises no relation between them;
* `Pipeline` and `TxPipeline` of rediscluster as operations of their own: a pointer read
  without a lock, about which there is nothing to promise (what it means for a caller is
  in `RateLimiter!Increment`);
* the `AutoAck` branches of the subscribers (`amqpcluster/subscriber.go:193`, `218`, `239`, `250`);
* `testkit`, which starts containers for tests.

Left open:

* Liveness is checked on small instances only (section 5).
* An abstract, locked circuit breaker for `HttpClient` is not stated: the unlocked one
  does not implement it, since a late success closes a circuit that was opened after it
  began. What it keeps is what `TripsOnlyAfterMax` and `RecoversWithPeer` say.
* What `EventDelivery` promises with the other two styles is less than `EventQueue`;
  `OnlyVerifiedStarts` and `QueueDrains` hold for all three.

## 8. Running

    tlc -config pg_calls.cfg MCPgCluster
    for m in *Proofs.tla; do tlapm $m; done

The longest run takes about three minutes with two workers, a module of proofs
about as long at most.
