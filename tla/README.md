# A verification project for freego

freego is a Go framework: HTTP and websocket nodes, a gRPC client and server layer,
an ORM for MySQL and Mongo, a Redis cache with locks, RabbitMQ, a cron scheduler and
utilities. This directory has TLA+ models of the parts that carry its concurrency
and failure handling and of its main algorithms, TLC configurations that check them,
and TLAPS proofs. Paths below are relative to the root of the repository; line
numbers are those of the commit the models were written from.

`PROJECT.json` is the index: the components, the runs with their properties, a
faulty variant for each property (a definition of the module with one plausible
bug, which makes TLC report that property), the source lines behind each
definition, the findings, the hazards and the theorems.

## 1. Inventory

### Modelled

**rpcx/pool: gRPC connections** (`pool.go`, `conn.go`, `options.go`). State: the
slots `conns`, the atomics `index`, `current`, `ref`, `closed`, an `RWMutex`.
`Get` raises `ref`, reads `current` and takes one of four ways: pick a slot,
re-use a slot at the limit, dial a one-time connection, or grow under the lock.
`conn.Close` lowers `ref`, and at zero shrinks the pool to `MaxIdle`. `Close`
empties it. Hard: `ref`, `current` and the slots are read outside the lock;
dials fail half way; closing overlaps everything. Correct means: no connection
dies in a user's hands, the counters describe the slots, nothing leaks, the
pool shrinks again, every call returns.
`rpcx/grpcx.go` (`getClientConn`, `readyPool`) keeps one pool per host.

**cache: Redis locks** (`redis_lock.go`, `RedisManager.Subscribe`). State: a key
per resource with a token and a lease in Redis, one pub/sub channel for all
resources, a bounded pool of connections. `TryLockWithTimeout` sets the key or
fails; `SpinLockWithTimeout` also subscribes and tries again on every message
for its resource. `unlock` runs a script: compare the token, delete, publish.
Hard: leases end during `call()`, replies are lost, the lock is released before
the waiter is subscribed, the pool runs dry, `call()` panics. Correct means:
exclusion until a lease ends, no release of a successor's lock, no announced
wake-up lost, connections returned, waiting ends.

**job: cron** (`cron.go`, `chain.go`, `option.go`). State: entries with next and
previous times, `running`, the local `now` and timer of the goroutine `run`, a
`WaitGroup` of jobs. Callers hold `runningMu` while they hand a request over an
unbuffered channel; started jobs pass through wrappers. Hard: the timer races
requests, its time is stale, jobs overrun and panic, Stop and Start overlap
running jobs. Correct means: starts are justified by schedule, `Remove` and
`Stop`; no activation is lost; no overlap under delay or skip; Stop's context
tells the truth; nobody waits for ever.

**node/listener.go: graceful shutdown**. State: a count of connections, a
shutdown flag, a channel `done`. `Accept` counts, the connection's `Close`
counts down, `Close` waits for zero or a timeout. Hard: everything is a separate
atomic step. Correct means: the count is exact and a waiting `Close` is always
signalled. The HTTP node and the websocket server both serve on it.

**utils/snowflake: IDs** (`id_worker.go`). State: last time and step of a node.
`Generate` puts time, node and step into one number; it sleeps when the clock
was set back and spins when the step overflows. An ID is taken apart again
(`Time`, `Node`, `Step`) and written and read as Base58, Base32 and JSON. Correct
means: unique over all nodes, increasing on each, inside its bits, the call
returns, an ID tells what it was made of, and a text is read as the ID it was
made from.

**ormx/sqld: sessions** (`base_manager.go` `RDBManager`; `mongo_manager.go` as
its mirror). State: a transaction or none, `Errors`, `MGOSyncData`; MySQL's rows
and Mongo's documents. Every operation is one statement; `Close` commits if
`Errors` is empty, otherwise rolls back, and then repeats saves and deletes in
Mongo. Hard: errors ignored by the caller, commits whose reply is lost, partial
failures of Mongo, two sessions on one row. Correct means: a transaction commits
exactly what its caller was told had succeeded, or nothing; nothing uncommitted is
mirrored; and the mirror agrees with the table unless one of the named causes
occurred.

**amqp** (`publish.go`, `pull.go`). State: a channel per exchange, router and
queue in a map, its watcher, a connection on each side; in the broker the queue
and the copy delivered and not acknowledged. `PublishMsgData` opens or takes the
channel, encodes the caller's object in place and sends it; the watcher reopens a
closed channel; the receiver declares, consumes, calls back, acknowledges, and
listens again when its channel closes. Hard: channels break between any two
steps, declarations fail on a reconnect, callbacks fail, a failed call is
retried with an object it has changed. Correct means: no copy leaves the queue
unprocessed, what passes the receiver's checks is what was published, no channel
leaks, both sides recover.

**node: HTTP pipeline** (`node.go`, `node_http.go`, `filter.go`,
`utils/jwt/subject.go`). State: `Context` objects of a `sync.Pool` with the
fields of one request, the replay cache. A request takes a context, `reset`s it,
goes through the filters (parameters, session, roles, handler, rendering) and
puts it back, while `TimeoutHandler` may answer first. Hard: early returns leave
fields behind, the next request gets them; check-then-store in the replay cache.
Correct means: a handler only runs for a request that is entitled to it, an
answer is made of the request's own data, a message is accepted once.

**node: websocket** (`node_websocket.go`, `node_websocket_client.go`). State: a
pool subject -> device -> `DevConn` with connection, expiry and last ping; the
client's connection. Handlers add and refresh, a cleaner closes what is silent or
expired, `SendMessage` writes to a subject's devices, clients dial again. Hard:
the cleaner looks without the lock, the `DevConn` object is re-used for the next
connection, entries of ended handlers stay. Correct means: what is served is in
the pool, expired tokens end, `nil` from `SendMessage` is true, clients come back.

**node: encipher** (`node_encipher.go`, `node_encipher_client.go`). State: key and
configuration files, the service's key pair (new at every start) and its cache of
agreed keys; the client's `keystore`, `shared`, `ready` and its thirteen encrypted
operations. Hard: crashes while files are written, lost exchanges, a handshake
during a call. Correct means: what was signed or encrypted once can be verified and
decrypted after any crash, an accepted answer answers what was sent, the two agree
again.

**ormx: conditions and pages** (`sqlc/cnd.go`, `BuildWhereCase`, the complex finds
and pagination of `base_manager.go`, `dialect.go`, `MGOManager`). A chain of calls
builds a `Cnd`; MySQL gets a text with arguments, Mongo a filter map. Correct
means: an accepted `Cnd` selects the rows its conditions describe, with joins and
groups as often as they are there, and pages show every row once.

**job: expressions** (`parser.go`, `spec.go`, `constantdelay.go`). Correct means:
`Next` returns the first time after its argument at which the expression is due.

**cache/limiter** (`rate_limiter*.go`). State: tokens, `last`, `lastEvent` under a
mutex; a cache of limiters with an expiry; a hash in Redis. Correct means: no
stretch of time gets more than the burst and the rate, and nothing is refused
that would fit.

**utils/decimal** (`decimal.go`). Value times ten to an exponent. Correct means:
results depend on the number and not on its representation, and rounding follows
the rule the operation names.

### Not modelled

- **rpcx client** (`grpcx.go`, `consulx.go`): token renewal, service lookup, and
  the call contexts, which live in the pooled `conn` and are therefore shared by
  all its users (`conn.go:54`). A module of its own is planned (2).
- `ormx/sqld/model_manager.go`, `model_index.go`: start-up registration and
  reflection over struct tags; data layout without a protocol.
- Aggregates, distinct, collation and samples of a `Cnd`; the SQL of writes;
  transactions of `MGOManager`; string primary keys.
- Conversions between `Decimal` and `float64`, trigonometry, overflow of the
  int32 exponent; the encodings of snowflake IDs that only call the library (base 2,
  36, 64, bytes); zones with daylight saving.
- Cryptography, JSON, reflection, time helpers, captcha, logging, the adapters of
  `cache/`: stateless, or one call of an external library each.
- Copies of third-party code (`goquery`), generated code (`rpcx/pb`).

### How the parts interact

```
HTTP node, websocket node --serve on--> GracefulListener
HTTP filters --verify--> jwt, --ask--> replay cache, (limiters: commented out)
websocket node --asks--> limiter; local limiter --cached in--> local cache
HTTP node --may delegate keys to--> encipher service
cron expressions --give Next to--> cron scheduler
handlers --open--> ORM session --mirrors into--> Mongo
ORM session, lock tokens --IDs from--> snowflake
handlers --lock through--> Redis lock --connections of--> Redis pool
gRPC client --service from--> Consul, --connection from--> rpcx/pool
```

Snowflake IDs are the tokens of Redis locks. `RedisLock` assumes that a token is
fresh. For the clients of one process that is `SnowflakeProofs!IDsAreUnique`.
Clients in different processes all use node 0 (`utils/common.go:39`), so two of
them can draw the same token in the same millisecond; the assumption then rests
on the lease, which is at least three seconds (`redis_lock.go:103`), while each
attempt draws a token of its own: only a `SET` delayed for longer than a lease
could meet the token of the holder before it.

## 2. Plan

Done, in this order: `GrpcPool`, `RedisLock`, `Cron`, `Snowflake`,
`GracefulListener`, `OrmSession`, then `Amqp` with `Delivery`, `WsServer`,
`HttpNode`, `Encipher`, `Decimal`, `CronSpec`, `Conditions` with `Query` and
`Pages`, `Limiter`, `IdParts` with `IdText`; proofs for
`GrpcPool`, `RedisLock`, `Snowflake`, `OrmSession`, then for `Amqp` with its
refinement of `Delivery`, `HttpNode`, `GracefulListener`, `WsServer`, `Encipher`,
`Cron`, for the mirror of `OrmSession`, for `Limiter`, `CronSpec` and `Pages`.

Next:

1. `RpcClient`: token renewal, pools per host and the shared call contexts, over
   an abstract pool which `GrpcPool` implements.
2. `MGOManager` with `UseTransaction`, `SetLimit` of the limiter.

## 3. Modules

| module | models | state and actions |
|---|---|---|
| `GrpcPool` | `rpcx/pool` | the fields of `pool`, a program counter and locals per goroutine; `Get*` and `Close*`/`Shrink*` are the atomic steps of `Get` and of `conn.Close`, `PoolClose*` those of `Close`; `DropError` is the caller in `grpcx.go` |
| `RedisLock` | `cache/redis_lock.go`, `Subscribe` | keys, leases and queues of Redis; `Begin`, `SetOK`, `SetPending`, `SetError`, `Subscribe`, `Receive*`, `CallReturns`, `CallPanics`, `Unlock`; `Tick` ages leases and timeouts |
| `Cron` | `job/cron.go`, `chain.go` | entries, the goroutine `run` and its timer, one caller at a time (it holds `runningMu`), invocations with the wrapper layer they have reached, the wait group and the goroutines of `Stop` |
| `CronSpec` | `job/parser.go`, `spec.go`, `constantdelay.go` | the call of `Next`: the time, `added`, the year limit; the parser's functions as operators, one action per turn of a loop of `Next` |
| `GracefulListener` | `node/listener.go` | count, flag, `done`; connections and closers as state machines, one step per atomic operation |
| `HttpNode` | `node/node.go`, `node_http.go`, `filter.go`, `jwt/subject.go` | contexts, requests with their place in the filter chain, the replay cache, what clients received; one action per filter, `replayExists` and `replayPut` apart, `Timeout` at any time |
| `WsServer` | `node/node_websocket.go`, its client | the pool, sockets, handlers, the cleaner's choice, a call of `SendMessage`, the clients; `AddConn*`, `RefConn`, `Cleaner*`, `SendTo`, `InitClient`, `Receive*` |
| `Encipher` | `node/node_encipher.go`, its client | files, the service, the client object, the goroutine `checkServerKey`, a call; `Crash` at any step, `Fails` of any exchange |
| `Amqp` | `amqp/publish.go`, `pull.go` | both connections, the cached channel and its watcher, callers, broker, receiver; actions named after the functions |
| `Delivery` | what `Amqp` promises | the copies kept and the copies settled |
| `IdParts` | the ID of `utils/snowflake/id_worker.go` | operators only: the number and its three parts |
| `IdText` | its texts | an ID, its text and what was read; writing and reading as Base58, Base32 and JSON |
| `Snowflake` | `Generate` of `utils/snowflake/id_worker.go` | a clock, time and step per node; `Generate`, `GetValidNow`, `Wake`, `Spin`, and the clock's `Tick` and `SetBack` |
| `OrmSession` | `ormx/sqld/base_manager.go`, part of `mongo_manager.go` | table, mirror, and per session the transaction, `Errors` and `MGOSyncData`; one action per operation of the manager, per way a statement ends, and per step of `Close` |
| `Conditions` | `ormx/sqlc/cnd.go`, `buildMongoMatch`, orders, limits, `FastPage` | operators only: the builder, the filter map with the `$`-form of each operator, rows in an order |
| `Query` | `BuildWhereCase`, the finds, counts and writes by condition of both managers, `FindListComplex`, `FindOneComplex` | a `Cnd` that a chain of calls builds and the operation it was given to; the WHERE text is a sequence of clauses with placeholders, read by a model of MySQL that takes the arguments one by one |
| `Pages` | `FindList` with numbered and fast pages | the rows that exist and a walk: its page, all it has shown, the rows that stayed; one action per kind of page, and rows coming and going |
| `Limiter` | `cache/limiter` | buckets, the cached limiter, the Redis hash, callers that have read the clock, what was granted |
| `Decimal` | `utils/decimal/decimal.go` | a chain of operations: the last one, its operands and result |

`MC*.tla` extend these for TLC with constants and symmetry sets. `*Proofs.tla`
have the theorems; `CacheProofs` has those of `RedisLock` and of `Limiter`,
`HttpNodeProofs` those of the listener too, `NodeProofs` those of `WsServer`
and `Encipher`, `CronProofs` those of `CronSpec` and `OrmSessionProofs` those of
`Pages`. Definitions whose comment begins with "Faulty:" are not part
of a specification: each is the definition after it with one plausible bug.

External parts, modelled by how the code uses them: Redis (an atomic `SET NX
EX`, an atomic script, delivery to the subscribers of the moment), the redigo
pool, MySQL (row locks, read committed, a commit that may take effect and report
an error; NULL in comparisons), Mongo (`InsertMany` stops at a duplicate,
`DeleteMany`, the meaning of its filter operators), RabbitMQ (transient messages
on a durable queue, redelivery of what was not acknowledged), fasthttp's
`TimeoutHandler`, the inner listener, wall clocks and timers.

Abstractions: data is reduced to identities (connections, tokens, rows, values);
in `Cron` a schedule is the set of seconds at which it is due; a lease and a
timeout are counted in ticks that may come between any two steps; in `HttpNode`
a field of a context is the request it came from; in `Encipher` a key is the
start of the service that made it, and the caller keeps the latest result of each
operation; in `CronSpec` the calendar is a parameter, without daylight saving (the
correction at `spec.go:123-131` never applies); in `Limiter` tokens are counted in
parts, one per tick, so that arithmetic is exact. A fast page is by the unique id
with a valid sort and without `countQ` (another sort panics, a key with equal
values would lose rows at a page's end); a numbered page counts and finds in one
step, and Mongo's estimate of a count without conditions is taken to be exact. A
complex find is of a `Cnd` with a `From`, whose names the caller qualifies, with
each field once; the plain finds get one without.
Histories (`leaked`, `expired` of the lock, `unheard`, `removed`, `ever`,
`failed`, `told`, `drift`, `ids`, `settled`, `called`, `granted`) record what a
property speaks about and guard no action, except that `leaked` and the like also
serve as the bounds named below.

## 4. Runs

| run | constants | what it checks |
|---|---|---|
| `grpc_pool` | 2 goroutines, `MaxIdle` 1, `MaxActive` 3, one stream per connection, 2 failing Gets, `index` modulo 4, `Close` may overlap `conn.Close` | `HandedOutLive`, `NoConnLeak`, `QuiescentShrunk`, `CallsReturn` |
| `grpc_pool_ref` | the same | finding: `RefCountsUse` fails |
| `services` | locks: 2 clients, 2 resources, lease 2, patience 1, pool of 3, 1 failure | `MutualExclusion`, `OnlyOwnerReleases`, `WakeupDelivered`, `WaiterReturns` |
| | IDs: nodes 0 and 1, 1-bit steps, 4 ms, 4 IDs, 2 setbacks; texts of numbers around the powers of 32 and 58 | `UniqueIDs`, `GenerateReturns`, `TextsReadBack` |
| | keys: 3 files, 13 operations, 2 crashes, 2 lost exchanges | `RoundTrips`, `AnswerMatches`, `Recovers` |
| `cron` | schedules {2,3} and {3}, 4 seconds, 2 entries, 3 calls, chains recover+skip and delay | `StartsJustified`, `NoOverlap`, `ContextMeansFinished`, `DueEntryStarts`, `EveryoneAnswered` |
| `cron_skip` | chain skip, 2 entries | finding: `SkippedOnlyIfRunning` fails |
| `orm_session` | 2 sessions, 2 rows, 2 values, 3 operations, 2 faults | `AllOrNothing`, `MirrorOnlyCommitted`, `MirrorAgrees` |
| `orm_sync` | the same | finding: `MirrorsWrites` fails |
| `orm_errors` | the same | finding: `ErrorsRecord` fails |
| `amqp` | 2 callers, 1 object sent up to twice, 1 copy of a foreign publisher, 2 copies in all, 2 faults; `SigTyp` 1, `IsNack` on and off, a typed and an untyped target | `NoChannelLeak`, `CallbackSeesOriginal`, the refinement `AtLeastOnce`, `EventuallyWorks` |
| `ws_server` | 2 devices of a subject, one with 2 connections, `max` 1 or 2, 1 fault | `Supervised`, `ExpiredClosed`, `ComesBack` |
| `http_node` | 2 requests, 2 contexts, 13 messages over 6 routes, 3 seconds, window 1, cache time 2; or 3 connections and 2 closers of the listener | `HandledOnlyAuthorised`, `ResponseIsOwn`, `ReplayRefused`, `NoLostSignal` |
| `algorithms` | see below | `DecimalAgrees`, `NextIsLeast`, `QuerySelects`, `ComplexSelects`, `PagesVisitAll`, `RateRespected`, `NoNeedlessRefusal` |

`services`, `http_node` and `algorithms` put modules side by side that share no state: a
behaviour is one of one module, with the others idle. Within each module all
behaviours of the bounds are explored.

**Refinement.** `AtLeastOnce` is `Delivery`'s specification with `kept` the copies
in the queue and the one delivered and not acknowledged, and
`settled` the copies for which `OnReceive` has returned true. Publishing,
breaking and reconnecting are stutters; the broker's taking of a copy is `Take`,
the end of a callback `Settle`, the acknowledgement `Drop`, a broker restart
`Restart`. So an acknowledgement before the callback, or one of a copy that went
back to the queue, would be reported.

**Why the bounds are enough for the cases to happen.** Pool: from 1 the pool
grows by 1 and then by the rest, so both branches of the increment, a one-time
connection at the limit (failed Gets leave references behind, so two goroutines
get past three streams), and a dial that fails at the first and at a later
connection occur; `index` wraps; two goroutines suffice for each race between a
shrink and a Get. The proofs remove these bounds. Lock: two clients on one
resource give every race, the second resource a message that is not for the
waiter; a pool of 3 is one short of two waiters; a lease of 2 with a patience of
1 lets either end first. Cron: two schedules meet at second 3, so two entries
are due together, one overruns its period, and three calls allow stop, start and
stop. IDs: a 1-bit step overflows with the third ID of a millisecond;
the texts are of numbers on both sides of the first powers of each base. Listener:
with three connections one can be accepted while another is being counted down
and a third is stuck. ORM: three operations over two sessions allow save, update
and delete of a row in all orders and the interference of the other session.
Amqp: two copies of one object are a retry, whose content was encoded before; the
foreign copy may be unsigned or under the other `SigTyp`; two callers race for the channel;
two faults break a channel and then the attempt to reopen it, or break the
receiver twice around one copy. Websocket: a client's second connection replaces
its first while the cleaner has chosen the entry; `max` 1 is full with one
subject, `max` 2 never. HTTP: two requests suffice for a context used twice and
for a message sent twice; the messages are the kinds of token, signature, plan
and role the filters tell apart; the clock passes the window and, a second
later, the cache entry. Encipher: the second crash can follow a recovery from
the first; of three files two are parsed, one of which may be empty, and one is
only copied. Algorithms:
operands with two representations of a number and of both signs, chains of two
operations; a year of two months of two and three days with a week of three, so
that days of the month and of the week meet and a month lacks a day; a table
with a null, two equal values and a value that contains another, conditions in
pairs and nested in `Or`; a table to join in which a row has two partners and
another none, with up to four parts of a complex `Cnd` (a condition counts twice),
enough for a join, a group, an order and a page together; pages of one and two rows, asked
for as 0, 1 and 2 (`PageSizes`), with two changes; two callers
on a bucket of one token with the cache expiring within a tick.

**Deadlock** is not checked: the systems may come to rest (all calls made, the
bounded clock at its end, a listener closed, every session used once, a receiver
that has given up, a process ended by a panic). That nobody waits for ever is
stated by the liveness properties.

**Fairness.** Only where liveness is checked. `GrpcPool`: strong fairness of each
goroutine's steps inside `Get` and `Close`, because Go's `RWMutex` serves a
waiting writer before later readers; none for starting a call. `RedisLock`: weak
fairness of time and of a client's steps inside the lock functions; none for how
long `call()` runs. `Cron`: the clock, the scheduler goroutine, and the steps of
jobs (`JobSteps` includes that a job ends: `EveryoneAnswered` is about the
scheduler, not about jobs that hang). `Snowflake`: the clocks advance and a call
under way is scheduled. `Amqp`: goroutines and the broker go on; none for faults,
which are bounded, so the loops that retry until the network works end.
`WsServer`: handlers, clients and the cleaner go on, an entry without pings
becomes overdue, and (strong) the cleaner's endless walk reaches an entry that is
stale again and again; none for tokens to expire or links to break. `Encipher`:
the service starts and serves, `checkServerKey` loops; none for crashes, losses
or callers.

**Assumptions that are not the code's.** `Snowflake` excludes a second setback
of the clock while `GetValidNow` sleeps: the code reads the clock once more and
goes on, so IDs may then repeat. In `GrpcPool` `Get` does not run during `Close`
(excluded by the comment at `pool.go:47`). `HttpNode` runs with a cache that all
requests share (`SharedCache`); the default of `AddCache` is not one, see 5.

**Assumptions on the constants**, which TLC evaluates in the runs and the proofs
use. Most only give types and keep `None` and its like apart from what they stand
for the absence of. The others: filters have different names, or `createFilterChain`
panics, and the sort by order, which is not stable, puts filters of the same order
into some order, given by `tie` (`FiltersAssumption`); the replay cache keeps a
signature at least twice the window (`HttpAssumption`; the code has 300 and 600
seconds); connections are finitely many (`ConnsAssumption`); the keystore is the
first file of `LoadConfig` (`FilesAssumption`); a table is finite, its ids are
positive and unique, and the default page size is within the maximum
(`TableAssumption`). Two theorems have a hypothesis besides: `MirrorIsTable` the
option `MongoSync`, and `HandlersAuthorised` that no subject is given a role twice
(`RolesListedOnce`), without which the code counts one role for two (5).

## 5. Findings

1. `cron_skip`: `SkipIfStillRunning` makes one channel for all jobs of a chain
   (`chain.go:79`): a job is skipped because a different one is running. Further,
   when a job panics inside it, the token is not given back (85-86), and with
   `Recover` outside every later invocation is skipped.
2. `grpc_pool_ref`: a `Get` that returns an error keeps the reference it took
   (`pool.go:223`, `240`, `270`). `ref`, "the using logic connection of pool" (62),
   then never comes back to zero, and the pool never shrinks again. `RefAccounting`
   says what does hold, and is proved: `ref` counts the uses and the failed Gets.
3. `orm_sync`: only `Save` and `Delete` are mirrored into Mongo; the entries of
   `Update`, `UpdateByCnd` and `DeleteByCnd` have no objects and are passed over
   (`base_manager.go:1601`), and `DeleteById` adds none.
4. `orm_errors`: failures returned by `utils.Error` instead of the manager's
   `Error` are not in `Errors` ("错误异常记录", `base_manager.go:69`), and `Close`
   commits the rest of the transaction: the query of `Count` (1190) and `Exists`
   (1276), and models without a usable primary key in saves, updates, deletes and
   finds by id (326, 422, 444, 451, 603, 681, 826).

What else the models show or what was seen while modelling. Where a property
excludes one of these cases, its definition names it.

*Pool.* A `conn.Close` that shrinks stores `current = MaxIdle` (`pool.go:193`)
after an overlapping `Close` stored 0, and later Gets index the emptied pool
instead of returning `ErrClosed` (comments 35, 46). A one-time connection whose
dial fails is returned as a non-nil `Conn` with a nil client (239). `options.go`
documents `MaxActive` zero as "no limit", `NewPool` rejects it.

*Listener.* `Accept` counts a connection after accepting it, so `Close` can return
nil while it is open (`listener.go:41`); `done` can be closed twice (62, 77),
which panics.

*IDs.* `init` marks only the first 58 (32) entries of the decoding maps as invalid
(`id_worker.go:53`), so that a character outside the alphabet, such as "I" or "l",
reads as 0 and the text as another ID, without the error that line 70 announces.

*gRPC client.* `NewClientConn` leaves the timeout at 0 when the caller gives one
(`grpcx.go:551-554`); a failed renewal overwrites the valid token with the empty
one (448).

*ORM.* All processes generate IDs as node 0
(`utils/common.go:39`).

*Amqp.* A failing declaration on a reconnect ends the receiver for good
(`pull.go:136-143`; `EventuallyWorks` has `dead` as an outcome). With `IsNack` a
failing callback is retried in place without end. A failed `PublishMsgData` leaves
its `Content` encoded; `initQueue` sets the key again (`publish.go:136`), so the
retry encodes it once more, and the receiver discards the copy, or, when it decodes
into an `interface{}`, hands over a string. Messages are transient and do not
survive a broker restart, although the queue does.

*Websocket.* No subject ever leaves the pool and the limit is tested before the
subject is looked up, so a full pool refuses reconnecting subjects it holds
(`node_websocket.go:266`); the cleaner may close a connection that has just
replaced the expired one; one dead device makes `SendMessage` return before it
has written to the others.

*HTTP.* `resetResponse` keeps the content type of the previous use. A session
route that is not POST always answers 401. A `UseRSA` GET runs its handler
unverified, and only its response is refused. `RoleFilter` asks nothing of a
token without a subject. `MatchAll` counts matches, so a role a subject has
twice stands for two needed ones (`filter.go:193`). A path with parameters has no
`RouterConfig`. The default `CacheAware` makes a new cache at each call
and thus never refuses a replay; two overlapping replays may both pass
(`node.go:301-306`). With a remote encipher plans 0 and 1 are always refused. The
rate-limit filters are commented out.

*Encipher.* One failed poll of the key, or a handshake whose answer is lost,
leaves the client not ready for good as long as the service keeps its key
(`node_encipher_client.go:43`; `Stalled`). A crash between creating and writing
the keystore leaves a service that cannot start (`Unusable`); an empty jwt file is
loaded, since `JsonUnmarshal` returns nil for no data (`utils/jsonlib.go:48-50`).
`NewDefaultEncipher` does not copy the jwt configuration (`node_encipher.go:103-121`),
so tokens are made with a zero one, whatever the file says. `EccEncrypt` encodes
in Base64 what is so encoded already (569-580), `EccDecrypt` decodes once.

*Decimal.* `Mod` is off by the divisor when the rounded quotient carries
(`decimal.go:540`). `RoundCash(15)` uses `^`, Go's exclusive or (833), so that 3.40
becomes 3.30. ".0" is refused while ".5" parses. The example at 737 has "550" for
545 under `StringFixedBank(-1)`, which rounds the tie to the even 540.

*Cron expressions.* A field "," parses to no bits and never fires. `*/n` with
n > 1 does not count as a star, so day of month and day of week are then or-ed.
"TZ=..." with nothing after it panics in `Parse`.

*Queries.* MySQL: `BuildWhereCase` has no case for `InDate`, which is ignored
without a word, in writes too; an `Or` with an empty part panics; a write with
`IsNull` alone is refused; `ResultSize` is ignored; `FastPage` gives a negative
limit; a join of an unknown type is left out. Mongo: the filter map has one entry
per key (`mongo_manager.go:820`), so a repeated key or `Or` replaces the earlier
one, in deletes too; `IsNotNull`, `NotBetween` and `NotLike` are dropped, in deletes
too; `NotEq` and `NotIn` match nulls; a page back comes in reversed order; a re-used
`Cnd` counts with its old cursor. Both: numbered pages shift when rows come and go;
a page past the last one erases the totals counted for it (`base_manager.go:1100`,
`1415`).

*Limiter.* Callers read the clock before the mutex, so an earlier `now` sets `last`
back and the time is credited again (bounded by `back` in `RateRespected`). It sets
`lastEvent` back too, and `CancelAt`, which restores what was reserved less what was
reserved "after r was obtained" (`rate_limiter.go:166-167`), measured by
`lastEvent`, then restores too much: by up to the time from `lastEvent` to the
latest event that still stands (`excess`). With a burst of 4 and a token per tick:
three calls for 4 at tick 3, to act at 3, 7 and 11; one for 1 by a caller that read
tick 0, to act at 9; the second cancelled at tick 3; and one more for 4. The two
that act at 11 take 8, one more than the burst and `back`, which is 3, account for.
A limit of 0 with a positive burst divides by zero, and the comment at
`rate_limiter.go:18` ("A zero Limit allows no events") does not hold. The expiry in
the Redis script is in a branch that is never taken; fractions of tokens are lost
with every call.

## 6. Proofs

TLAPS checks the following for every value of the constants that the named
assumptions of the modules allow (any number of goroutines, clients, nodes,
sessions, any limits), with `Spec`, or `NodeSpec`, `Walking` and the like for the modules
that share a run, and without fairness.

**GrpcPoolProofs.** `IInv` = `TypeOK`, `ControlInv` (program points against
locals and the lock), `OwnerInv` (who owns a connection object), `SlotInv` (the
slots at each point of a grow or shrink), `UseInv`, `ShrinkInv`, `RefInv`. The
heart is `UseInv`: once a shrink has seen `ref = 0` under the lock, every thread
that counts in `ref` is still waiting for the read lock, so it will read the new
`current`; and a thread past that point keeps `ref` positive. `HandedOutLive` is
not inductive without it. `RefInv` needs the cardinality of the set of users to
change by one, hence the lemmas from `FiniteSetTheorems`. Results: `TypeCorrect`,
`HandedOutStaysLive`, `RefIsAccounted`, `SlotsAlwaysMatch`, `NoConnIsLeaked`,
`QuiescentIsShrunk`.

**CacheProofs.** For the lock, `IInv` = `TypeOK`, `ResSet`, `HolderOwns` (until its lease
ends, a holder's token is in the store), `TokensDiffer`, `ConnsReturned`,
`SubFollows`, `Notified`. Exclusion follows: two unexpired holders of a resource
would have the same token. Results: `TypeCorrect`, `LocksExclude`,
`WakeupsAreDelivered`, `ConnsAreReturned` and, as an action property,
`OwnersRelease`. `Notified` also covers a waiter before its subscription, which
`WakeupDelivered` does not mention and needs.

For the limiters `LimiterInv` = `LimiterTypeOK`, `LimitersMade`, `CallsInOrder` (a
wait holds an event of its own), `EventsInOrder`, `LevelPays`, `StretchPays`,
`LacksGranted`, `NoNeedlessRefusal`. The argument follows, for each bucket, the
time at which it is or was empty (`Emptied`). `LevelPays`: what was granted from any
time s on is at most the burst and the time from s to `Emptied`, corrected by `back`
and `excess`. A reservation moves `Emptied` on by what it takes, a stale call moves
it back by as much as it adds to `back`, and a cancelled event, no longer
counted, pays for what is restored. `StretchPays` is what `RateRespected`
says, for any two times and not only those of events; at the moment of a grant it
follows from `LevelPays`, since `Emptied` is then at most the time granted.
`LacksGranted` is the converse, for refusals: a bucket that is not full has, from
some event on, granted what it lacks. Both halves speak about sums over the
sequence of events. `SumOf` is a recursive function, and `UpTo`, induction in the form of a
set of naturals (from the library's theorem on minimal elements), gives the lemmas
on sums: what an appended event, a cancelled one and a later start add or take.
Results: `LimiterInvariant`, `RateIsRespected`, `NoRefusalIsNeedless`, for every
burst, rate, expiry, number of callers and every time they bring. The attempt to prove
an earlier `RateRespected`, whose `excess` was the time from `lastEvent` to the
cancelled event only, showed the case of section 5, beyond the bounds of the run.

**SnowflakeProofs.** `NodeInv` = `NodeTypes`, `Remembered` (a node's time and step
bound the IDs it has given), `Ordered`, `SleepIsEnough`, `SpinStep`. `DigitOrder`
shows that the fields do not overlap: IDs are ordered as the triples are.
`Division` and `PartsOf` do the converse: quotient and remainder give back the
fields. Results: `TypeCorrect`, `IDsAreUnique`, `IDsAreIncreasing`,
`PartsAreReadBack`.

**OrmSessionProofs.** `IInv` = `TypeOK`, `FailuresKept` (what failed is in `Errors`,
but for the two kinds of finding 4), `ToldWritten` (without `Errors` the open
transaction has written what its caller was told), `QueueTouched` (a queued save is
of a row that is committed, or that this session has yet to commit), `SyncClean`,
`ReqShape`, `MirrorOnlyCommitted`. Results: `TypeCorrect`, `MirrorIsCommitted` and,
as an action property, `TransactionsAreAtomic`. For the mirror `SyncInv` adds, as
long as `drift` is 0: of the entries of a queue that name a row, the last one leaves
the row as its session sees it (`QueueEnds`), so that no effect of a whole queue has
to be computed; a row that Mongo does not show as it is waits in the queue of a
session whose writes are in the table (`MirrorWaits`); an uncommitted row waits in
its session's queue (`PendWaits`). An appended entry becomes the last one of its
rows, and the first entry, when Mongo has carried it out, either was the last one of
a row, which then agrees, or another still waits. With all queues empty
`MirrorAgrees` is left: `MirrorIsTable`. For `Pages` `PagesInv` = types, `FastInv`
for fast walks, `NumberedInv` for numbered ones without changes. `FastInv`: what was
shown ascends, and a row that stayed was shown or lies beyond the last row shown; as
the last row shown is what the next cursor starts from, it does not matter that
other rows, the cursor's own among them, have come or gone. `NumberedInv`: what was
shown is the beginning of the sorted table, `Seen` rows of it, and the walk goes on
exactly while `Seen` is less than the number of rows, which is what rounding
`PageCount` up gives. Underneath, `SortedEnumerates`: the ranks of the rows of a
finite set are an injection into an interval of the same size, so every rank is
taken and sorting lists every row once; and lemmas that follow `M`, `FastPage`,
`Limit`, `Orderby`, the cursor of `FindList`, the filter, the order and the limit
down to the rows of a page. Results: `PagesInvariant`, `PagesShowEveryRow`.

**AmqpProofs.** `IInv` = `TypeOK`, `PublisherInv` (`MutexHeld`: who is inside the
mutex and with which channel; `Watched`: the watcher and the cached channel;
`HasObject`; `NoChannelLeak`) and `ReceiverInv` (`CopiesSealed`: a copy of the
publisher's own passes the checks of signature and decryption; `OnePlace`: a copy
is on its way, once in the queue, or delivered, in one place only; `DeliveredIsUnacked`:
what the receiver works on is what the broker waits for; `AcceptedCalled`: a callback
was handed what its copy decodes to, and every settled copy that the checks let
through was handed over). Each
action of the receiver's side is shown to keep `ReceiverInv` and to be a step of
`Delivery` or a stutter: `OnePlace` is what makes the acknowledgement drop the
copy that was settled. Results: `TypeCorrect`, `ChannelsNotLeaked`,
`CallbacksSeeOriginals`, `ImplementsDelivery`.

**HttpNodeProofs.** `IInv` = `TypeOK`, `PipelineInv`, `ReplayInv`. `PipelineInv`
says that a context belongs to at most one running request (`Exclusive`) and, for
each request, that the fields of its context are its own or reset (`OwnContext`)
and what the filters it has passed have established (`Passed`), in terms of the
place of a filter in the sorted chain; from this, at the handler, `Admitted`.
Early returns leave a context as it is, so `OwnContext` rests on the `reset` at
its next use. The chain is any set of filters around the
built-in ones: the lemmas on `createFilterChain` count the filters before a
filter. `ReplayInv` ties an accepted message to its cache entry and the clock.
Results: `TypeCorrect`, `AnswersAreOwn`, `ReplaysRefused`, `HandlersAuthorised`.
For the listener `ListenerInv` = types, `FlagSet`, `NoLostSignal`; the count is
the cardinality of the set of counted connections: `SignalsNotLost`.

**NodeProofs.** `WsInv` = `TypeOK`, `Supervised`, `Sending` (a slot whose entry
stayed the same since `SendMessage` began is still to be visited or was written
to). Results: `WsTypeCorrect`, `ServedIsSupervised`, `NilReachedAll`. `EncipherInv`
= `EncipherTypes`, `KeyKept` (a started service uses what the keystore file
holds, and so had whoever made what the caller keeps), `CallKept` (an answer to the
caller's own text says that it verified or decrypted), `KeyOrder` and
`CallOrder` (the client's shared key is never younger than the service's key, nor
a call's than the client's, so a key once replaced does not come back). Results:
`EncipherTypeCorrect`, `ResultsGoodForEver`, `AnswersMatch`.

**CronProofs.** `CronInv` = `TypeOK`, `Ids` (the entries have different IDs, none of
them removed), `Times` (the goroutine's `now`, the timer and each entry's next time
against the clock), `Activations` (an entry's next activation is later than each of
its invocations, so none is started twice), `Counted` (the wait group counts the
invocations that have not ended), `Layers` (at each layer of a chain that is a delay
or a skip, at most one invocation of a job is past it), `ContextMeansFinished`.
Results: `TypeCorrect`, `JobsDoNotOverlap`, `ContextTruthful` and, as an action
property, `StartsAreJustified`. The wait group needs a cardinality; that the least
due time exists needs the well-foundedness of the naturals, cited in its form for
sets. For `CronSpec` `WalkInv` says that a call of `Next` has passed nothing that
fits its bit sets since the first second after the start (`Walked`), that what its
loops have left behind still fits (`LoopsBehind`), that it is within the limit
except where it starts over, and, once it has stepped, that it is at the start of
every unit whose field does not fit (`Aligned`): this is why the smaller fields need
to be reset only once, and why a jump back to the first loop loses nothing. It is
shown from the calendar: quotients and remainders of nested units, and `DaysBefore`,
a recursive function on which `UpTo` gives the induction. Apart from the walk, the
bit sets of the parser are shown to be what an expression means (`ParseMeans`):
ranges, steps and stars, optional and default fields, descriptors. Result:
`NextIsTheLeast`, for every calendar with fixed units, every expression, offset of
the zone and start.

`TypeOK` of these modules (`NodeTypes`, `EncipherTypes`, `ListenerTypes`),
`SlotsMatchCurrent`, `RefAccounting`, `ConnsReturned`, `PartsReadBack`,
`IDsIncrease` and `NilMeansAll` are stated by these theorems only; no run repeats
them.

**Only model-checked.** All liveness (`CallsReturn`, `WaiterReturns`,
`DueEntryStarts`, `EveryoneAnswered`, `GenerateReturns`, `EventuallyWorks`,
`ExpiredClosed`, `ComesBack`, `Recovers`): fairness and ENABLED are outside what
the prover handles. `DecimalAgrees`, `QuerySelects`, `ComplexSelects` and
`TextsReadBack`: what they say of every input needs induction over digits and over
nested conditions, and `Decimal` and `Query` use recursive operators.

## 7. Running

```
tlc -workers 2 -config MCGrpcPool.cfg MCGrpcPool      # likewise the others
tlc -workers 2 -config MCCronSkip.cfg MCCron          # a finding: TLC reports it
tlapm GrpcPoolProofs.tla
```

With two workers `cron`, `services`, `amqp`, `ws_server`, `http_node` and
`algorithms` take about two minutes each, the others seconds.
