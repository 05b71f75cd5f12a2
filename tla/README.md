# AspNetCore.StartupTemplate in TLA+

A specification of the parts of the repository that coordinate several actors:
processes that share Redis keys, requests that share a cached entry, tasks of a
throttled loop, nested methods that share a transaction and an outbox, branch
handlers that share database rows, and applications that share queues. Each model is
written from the C# code; TLC checks it on small instances, and TLAPS proves its
safety for every value of the constants. `PROJECT.json` maps each definition to
the lines it models.

Paths below are relative to the repository; `P` stands for
`AspNetCore.StartupTemplate`.

## 1. The system and its parts

One ASP.NET Core process serves HTTP requests (`P.Webapi`); a deployment runs
several. They share Redis (worker ids, cached values, lock keys), a MySQL
database (entities, DTM's barrier table, CAP's outbox), RabbitMQ, and an external
DTM server that calls the branch handlers over HTTP. Behaviour is added to
methods with aspects (Rougamo: `OnEntry`, the body, `OnSuccess` or `OnException`,
`OnExit`): `Transactional`, `CachingEnable` and `CacheClear`.

| Part | State | Operations | Hard behaviour | What makes it correct | Model |
|---|---|---|---|---|---|
| **Snowflake worker ids and ids** `P.Snowflake` | Redis counter and sorted set; static `WorkId`; IdGen's sequence | `InitWorkId`, `RefreshWorkId`, `UnRegisterWorkId`, `StartAsync`, `StopAsync`, `NextId` | starts at the same time, crashes between two Redis commands, a stalled or dead refresh loop, a byte that wraps | no two live nodes hold one id; no id is generated twice; an id is taken over only from a node that stopped refreshing | `SnowflakeWorkId`, `SnowflakeGenerator` |
| **Throttled asynchronous loops** `P.Utility/Extensions/IEnumerableExtensions.cs` | local list of tasks, snapshot of completed ones, results | `ForeachAsync`, `ForAsync`, `SelectAsync` | tasks complete between two reads of the list; faults; cancellation | bounded parallelism; each result once; the call waits for what it started, and returns | `AsyncLoops` |
| **Method cache** `P.Caching` | cached key and its expiry, lock key | `CachingEnableAttribute`, `CacheClearAttribute` | a command between any two Redis commands of a query; the lock's 10 s; failures in the aspect; methods that return their `Task` | one query at the database; an answer is the row as it was loaded or an entry that was; no old entry without a late query or a clearing that is under way or failed; nobody waits for good | `CacheAside`, `CachedQuery` |
| **DTM barrier and saga** `P.Core/Transaction/DtmExtension.cs`, `P.Webapi/Controllers/DtmController.cs`, `P.Filter/GlobalExceptionsFilter.cs` | barrier rows, the request's transaction, the saga's phase | `Call`, `InsertBarrier`, `SagaOut`, `SagaOutError`, `SagaInError`, `SagaInErrorCompensate` | repeated, late and reordered requests; a crash before or after the response; row locks that deadlock; exceptions answered with 200 | an action and its compensation take effect at most once and in order; a failure is never taken for success | `BranchBarrier`, `DtmBarrier`, `DtmSaga` |
| **Transactional aspect and services** `P.Core/Transaction/TransactionAttribute.cs`, `P.Services` | list of units of work, entities | `OnEntry`, `OnExit`, `ChangeMoney`, `FuncA`, `FuncB`, `Cap*` | nesting by propagation; a caller that catches a joined method's failure; commit in a continuation; a commit that throws, done or not; two requests on one row | a failed method leaves nothing; a transaction is committed all or none; nothing stays open | `Transactional`, `CapOutbox` |
| **RabbitMQ manager** `P.MQ/MQManager.cs` | exchanges, queues, channels, deliveries not yet acknowledged | `PushMessageDirect`, `PushMessageTopic`, `SubscribleDirect`, `SubscribleTopic` | lost connections, handler failures, redelivery, refused messages, retried subscriptions, queues that are renamed, channels that are never closed | a confirmed message is kept until a handler has ended for it; consumers of a queue do not share a message; a retry ends | `MessageQueue`, `AtLeastOnce` |
| **CAP usage** `P.Core/Transaction/TransactionAttribute.cs` (`UseCapTrans`), `P.Webapi/Controllers/CapController.cs`, `P.Core/ServiceRegister` | ambient CAP transaction, outbox rows (library) | publish, flush, dispose; the retry processor | a joined method's failure, an ambient transaction that is never reset, a commit that throws | a message leaves only with the transaction it was stored in | `CapOutbox` |
| **SqlSugar unit of work** `P.UnitOfWork` | a flag nothing reads | begin, commit, rollback | none of its own; nothing registers it | - | not modelled |
| **JWT** `P.Core/Jwt` | none | issue, read a token | the library's validity window | - | not modelled |
| **Utility algorithms** `P.Utility`, `P.Contract/PageList` | none | calendar arithmetic; `IsPrime`, `PageList`, `InsertAfter` and other pure helpers | the clock between two readings; years that start on a Sunday, leap years | agree with a walk through the calendar | `Calendar` (the calendar arithmetic) |
| **Jobs and migration** `P.Job`, `P.DbMigration` | Hangfire's and Evolve's | one registration call each | none of their own | - | not modelled |
| **Filters and registrations** `P.Filter`, `P.Core/ServiceRegister`, `P.Configuration` | none | configuration | none, apart from the exception filter's 200 | - | the filter, in `DtmBarrier` |
| **Entities, repositories, DTOs, code generator** | none | declarations, file output | none | - | not modelled |

### How they interact

* The snowflake generator takes its worker id from the manager; both are
  singletons of a process, and processes meet only in the two Redis keys.
* A cached query and the command that clears its key meet only in Redis and in
  the row they read and write. The query's lock key keeps queries apart, not
  queries and commands.
* The DTM server calls a branch handler; the handler begins a unit of work, and
  `DtmBarrierExtension.Call` inserts barrier rows in it and runs the business
  method. The method's `Transactional` aspect (`Required`) joins that unit of
  work: its commit does nothing and its rollback rolls the request's transaction
  back. The request's `UnitOfWorkManager` commits when the scope is disposed,
  after the response has gone out.
* Methods with the `Transactional` aspect meet in the request's `UnitOfWorkManager`:
  its list of units of work decides what a nested method joins, and what a
  repository writes to.
* With `UseCapTrans` the aspect makes a CAP transaction, ambient to the request's
  publications: CAP stores a message in the unit of work's database transaction,
  and `OnExit` flushes it after the commit. What is stored and not sent CAP's retry
  processor sends.
* Applications meet in RabbitMQ: a push goes to an exchange and on to the queues
  bound to it then, and consumers of one queue share its messages.
* `GlobalExceptionsFilter` turns what a handler throws into a `JsonResult`
  without a status, so the DTM server sees 200.

The registration of DTM is commented out in the composition root
(`P.Webapi/Program.cs:33`); the saga models describe the controller with that line
enabled.

## 2. Modules

| Module | Role | Extends | Lines up with |
|---|---|---|---|
| `SnowflakeWorkId` | worker ids of a deployment | - | one action per Redis command of `SnowflakeWorkIdManager`; the loop and the stop of `SnowflakeBackgroundServices` |
| `SnowflakeGenerator` | composition: ids on top of worker ids | `SnowflakeWorkId` | `SnowflakeGenerator.NextId` |
| `AsyncLoops` | one call of one of the three loops beside its tasks | - | a stretch between two awaits is an action; the snapshot and the removal in `SelectAsync` are two |
| `CachedQuery` | abstract: what a caller of a cached query is promised | - | - |
| `CacheAside` | queries and commands on one key | INSTANCE `CachedQuery` | one action per Redis command and per database access of the two attributes |
| `BranchBarrier` | abstract: what a barrier promises | - | - |
| `DtmBarrier` | handlers with `Call`, any requests in any order | INSTANCE `BranchBarrier` | one action per database round trip; the response and the commit are apart |
| `DtmSaga` | composition: the DTM server (external) driving the handlers | `DtmBarrier` | `SagaErrorDemo`, and DTM as its client library and the handlers use it |
| `Transactional` | the aspect around the methods of one request | - | `OnEntry`, and each way through `OnExit`; FreeSql's manager as operators |
| `CapOutbox` | composition: the aspect's CAP part and what a request publishes | `Transactional` | the `UseCapTrans` branches of `OnEntry`, `OnExit` and the continuation; each of its steps has a step of `Transactional` in it, or stutters for it |
| `AtLeastOnce` | abstract: what manual acknowledgement promises | - | - |
| `MessageQueue` | applications that push and subscribe, and the broker | INSTANCE `AtLeastOnce` | a push in three steps (sent, routed, returned), a subscription in four, the two ends of a handler |
| `Calendar` | the calendar helpers beside a walking clock | - | the helpers as operators; `GetAge` one action per reading of the clock |
| `MC*` | instances for TLC | their component | - |
| `*Proofs` | theorems | their component, TLAPS | - |

The definitions named "faulty variant" are not part of any next-state relation.
Each is a plausible mistake in the code, kept to show that a property can tell
the difference: put in the place of the definition it varies, it makes TLC find
the property violated (`mutants` in `PROJECT.json`).

### State and actions against the code

**Snowflake.** `counter` is `snowflake_workid_cur_index`, `lease` the sorted set
with its scores (`NoLease`: not a member), `workId` the static property, `cur` the
local `curWorkId`. `IncrWorkId` is the INCR with the decision that follows it;
`RegisterWorkId` the ZADD; `RecycleWorkId` and `NoWorkIdAvailable` the two outcomes
of the ZRANGEBYSCORE, which does not refresh the id it returns, as in the code.
`LoopRefresh` goes on after `StopAsync`, as `StartAsync`'s loop does, until the
process exits. `Exit` is a crash anywhere as well as a normal end. IdGen is
external: `CreateId` counts within a tick and throws at the end of the sequence;
its constructor refuses an id of too many bits.

**Loops.** `list` and `completed` are sets of item indices, since the code only
adds distinct tasks to them. `Finish` may fall between any two actions of the
method. `StartItem` may return a task that is completed already, which is what
lets `WhenAny` return at once. A cancelled call returns without a wait. With a
debugger attached `ForeachAsync` and `ForAsync` await each task in turn.

**Cache.** The row is a version number; 0 is no row, cached as "". `lock` is the key
of FreeRedis' `Lock`: it is renewed by its holder, so it does not expire under it;
a waiter gives up after 10 s (`LockTimeout`) and goes on without it. An exception
in `OnEntry` skips `OnExit` (`EntryThrows`), so the lock it holds stays; when `Set`
throws (`SetThrows`) the lock may be disposed or stay, which is up to the weaver.
`returnsTask` is a query that returns its `Task` without being async, around which
the aspect's `OnExit` runs before the query does; its caller gets the answer in
`Await`, before or after the continuation that is `OnSuccess`. What that continuation
caches is the `Task` itself, serialized, and to read it throws (`Readable`,
`GetThrows`). `taskCommand` is a command of that kind: `OnSuccess` does not look at the
task and clears at once (`ReturnsTask`), whenever the task writes or fails
(`TaskWrites`, `TaskThrows`; `writing` are those that still run). `isBefore` is the
command's option. `ExpireSec` is the expiration in force, from which each `SetCache`
draws; 0 is none. Two history variables: `lateSet` (when the entry was set, the row had
left the version it holds) and `outlived` (the commands whose write the entry has
outlived).

**Barrier and saga.** `rows` and `times` are what is committed, `mine` and `ran` what a
request has done and not committed. An INSERT IGNORE waits while another transaction
has inserted the row or has a shared lock on it (`Locked`). When the transaction that
inserted it is rolled back, InnoDB gives waiting requests the shared lock (`RollBack`,
`shared`), and each then wants the exclusive one: two of them are `Deadlocked`, and MySQL
rolls the whole transaction of one back, whose `InsertBarrier` returns the exception
(`DeadlockVictim`). `unheard` remembers that a compensation was undone so and answered
200. Only record locks are modelled, no gap locks. `Throw` is the exception's way out of the handler: `FAILURE` in
`SagaInError`, which catches, and 200 elsewhere. `Lost` is a crash: before the
response, nothing is answered; after it, the server has the answer and the
transaction is gone. The server sends the pending operation any number of times.
`mishaps`, chosen at the start, is what may go wrong in a behaviour.

**Transactional.** A request's calls are numbered; `current` is the innermost one that
runs and `parent` says where control goes when it ends. `listed` is the manager's
list of units of work, `suspended` those of them that keep the ones before them out of
reach (`NotSupported`), and `kind` what `Begin` returned: a unit of work that has a
transaction (`raw`), one that joins it (`virtual`) or none (`nothing`). `Joins`,
`BeginsRaw` and `Refuses` are FreeSql's choice by propagation; a virtual commit does
nothing and a virtual rollback rolls the joined transaction back. A body writes,
calls, catches, returns or throws at any point. `plain` methods are synchronous or
async: Rougamo runs `OnExit` when they end. A commit that throws was not done
(`ReturnCommitThrows`) or was done and its answer lost (`ReturnAnswerLost`, after which
the call's outcome is `unsure`). `task` methods return a `Task` without
being async, such as `UserService.CapWithFreeSqlTrans`: `OnExit` adds a continuation,
and `Continuation` may run at any later time, also after the scope is gone.
`written` and `spoiled` are history variables.

**CAP.** `ambient` is the call whose CAP transaction `ICapPublisher.Transaction` holds,
`dbTran` the database transaction each of them was made for, `owners` the calls that
made one. `Enter` makes one only when there is none, whatever has become of the old
one; `PlainExit` flushes after a commit and disposes, but never resets `ambient`.
That is an `AsyncLocal`: after a synchronous method it stays, after an async one it
is what it was before, so `AmbientAfter` allows both. `row` says in whose open
transaction a message is stored and `holder` in whose CAP transaction it waits;
the two may part, as `Flush` does not look at the row. When the answer to a commit is lost
the rows are stored and nothing is flushed (`AfterAnswerLost`): the retry processor sends
them later. `kept` is a history variable.

**Message queue.** An application has a connection (`conn`: up, channels in use,
topology the client library will declare again) and one subscription (`sub`, with
the arguments it was asked for). A connection starts with one channel in use, that of
`InitExchange`; `PushMessage` opens another that nobody closes. `Route` is the broker's
part: it takes the message and confirms it. With `Refuse` it does not (`nacked`; some of
the queues may have the message all the same), and `WaitForConfirms` returns false, which
nobody looks at: `PushReturns` is the end of the call in both cases.
`Subscribe`, `QueueDeclare`, `QueueBind` and `BasicConsume` are the steps of a
subscription; `DeclareRefused` and a lost connection lead to `Retry`, which is
`SubscribleDirect` without `durable` for both methods. `BasicAck` acknowledges a
delivery and all before it, `BasicNack` drops one. `ConnectionLost`, `Stop` (which is
also a crash) and `Restart` of the broker are the faults. In `ChannelsLost` a handler that
runs then runs on, and deliveries that the library has queued for it may still be
dispatched (`late`, pairs of a queue and a message). `Recover` declares again what was
recorded. A queue declared without a name gets a new one (`NewNames`, `Renamed`); the old
one keeps its binding and its messages, and has no consumer. `owed` (queues bound when
the push began), `handled`, `failed` and `runs` are history variables.

**Calendar.** `today` is walked one midnight at a time with the month lengths of the
code; `weekday`, `dayOfYear`, `week` and `birthdays` are counted on the way and are what
the helpers are held against. A call of `GetAge` reads `DateTime.Today` in `ReadMonth`,
`ReadMonthAgain`, `ReadDay` and `ReadYear`, and a midnight may fall between them. The
reference for leap years is Gauss' formula for the weekday of New Year's Day
(`GaussNewYear`), from which the walk starts.

## 3. What is checked

| Run | Question | Bounds, and why they are enough |
|---|---|---|
| `snowflake` | Do nodes share no id from the counter (`DistinctWorkIds`), keep the id they refresh (`PunctualNotRecyclable`), fail to start only at the limit (`FailsOnlyAtLimit`), and never repeat a generated id (`IdsAreFresh`)? | two nodes, one of which may stall; ids for two starts and a third that recycles; a clock past the 15 s; two sequence numbers per tick. Recycling, a robbed node, a failed start and a restart within a tick all happen |
| `snowflake_byte_wrap` | Are there 1024 worker ids? No: the fifth start shares an id when a byte has four values | the ratio of the limit to the byte is what matters: 8 to 4 here, 1024 to 256 in the code |
| `async_loops` | Is parallelism bounded (`ParallelBound`), does a good end mean that all tasks ended (`OkMeansAllEnded`), does `SelectAsync` return each result once (`ResultsExact`), does the call return (`Returns`)? | five items, two at a time: the loop waits, drops and starts again more than once |
| `cache` | Does a caller get the row as it loaded it or an entry it found, and nothing only when the key goes in between (`AnswersFromQuery`, a refinement of `CachedQuery`)? Is one query at the database (`SingleLoader`), is an old entry there only because it was set late or a command that wrote since is still to clear it or failed to (`StaleHasACause`), do all calls end (`AllCallsEnd`)? | two queries and two commands, each kind synchronous or returning its `Task`, clearing before or after: a query waits for another, two writes pass one query, and a clearing passes its own write |
| `cache_never_expires` | Is the cache fresh in the end? No: with the expiration of the shipped settings, which is none, an entry that outlives a failed clearing stays (with 2 s the same property holds) | one query, one command, `ExpireSec` 0 |
| `saga` | Do the handlers keep the barrier's promise (`KeepsPromise`, a refinement of `BranchBarrier`), are they stuck only in the deadlock of shared locks that MySQL resolves (`OnlySharedDeadlock`), is a business failure always seen (`FailureIsSeen`), and is all undone after a failure when nothing else goes wrong (`NothingLeftWhenWell`)? | the demo's two branches; its four requests and a fifth that repeats any of them; every mishap. Any operation can be repeated, late, or overtake another, and two repetitions wait behind a rollback |
| `saga_exception_is_success` | Does a failed saga leave nothing behind? No: a compensation that throws is answered with 200 and is not repeated | the same saga, one request each |
| `barrier_half_written` | Does a compensation follow its action only? No: the origin's row is committed although `Call` threw on the second one | the first compensation, and its repetition |
| `transactional` | Does a plain method that fails leave nothing (`PlainFailedLeaveNothing`), is a transaction committed all or none, also when the answer to its commit is lost (`OneTransaction`), is nothing open when no method runs (`NothingLeftOpen`)? Does a message that was stored in a transaction leave only when that is committed (`SentWasCommitted`), and does the method that made the CAP transaction decide for all that went into it (`OwnerDecides`)? | three calls in any nesting with any propagation, with and without CAP, a write and a message each; two when there is a task method among them, since with one most of the properties say nothing. A transaction joined twice, a suspended one, one that a caught failure has rolled back, and an ambient CAP transaction of a call that has ended all happen |
| `transactional_task` | Does any method that fails leave nothing? No: a faulted task is committed | one call, one write |
| `mq` | Is a message that was confirmed kept (`ReturnedIsKept`), do consumers never share one, nor handle one twice without a loss (`OneAtATime`), does a message go only when a handler has ended for it (`KeepsMessages`, a refinement of `AtLeastOnce`)? Is each message that waits in a named queue with a consumer settled (`EventuallySettled`), and does a retried subscription end (`RetriesEnd`)? | two applications on one queue or on two, two messages, one of which may be refused, three channels on a connection, three generated names, one fault of any kind at any point. One fault is enough for a redelivery, a retry, a refused retry and a renamed queue; three channels are fewer than `InitExchange`, the pushes and the subscription ask for |
| `calendar` | Are the months and years the Gregorian ones (`MonthsFillTheYears`), do `GetWeekTime`, `GetWeekWorkTime`, `WeekOfYear`, `StartOfWeek` and `IsWeekDay` agree (`WeekTimesAgree`), and is the age right though the clock is read four times (`AgeOfTheCall`)? | every day from 2000 to 2101: each of the fourteen kinds of year (of which `WeekTimesAgree` is about the twelve that do not start on a Sunday), a leap century and a common one; births on a leap day and at the ends of months and years; one midnight in a call |

All passing runs turn deadlock checking off: calls, queries, requests and sagas end, and the
clock and the counter of the snowflake run, the faults of the queue run and the
years of the calendar run are bounded. `OnlySharedDeadlock` and the
liveness properties stand for the question whether anything is stuck.

Bounds that are not the code's: `MaxTime` (clock) and `MaxStarts` (counter), both in
`SnowflakeWorkId`; `MaxCalls` and `MaxWrites` of `Transactional`; `TaskCalls` of
`CapOutbox` (how many calls a request with a task method makes); `MaxFaults`, `MaxRefused` and
`Generated` (queue names the broker makes up) of `MessageQueue`; `LastYear` and the
one midnight in a call of `Calendar`; the numbers of nodes, items, queries, commands,
requests, applications and messages. A call publishes at most one message.

### Disagreements the runs show

1. `SnowflakeWorkIdManager.cs:53` cuts the number to a byte;
   `SnowflakeDepedencyInjection.cs:27` speaks of 1024 nodes.
2. `GlobalExceptionsFilter.cs:39`: an exception is a success for the DTM server.
3. `DtmExtension.cs:40`: the barrier can be committed half written; `Wiki.md:85` says
   empty compensations need no thought.
4. `TransactionAttribute.cs:57` commits whatever became of the task; `Wiki.md:55` says
   that asynchronous methods are supported.
5. `CacheOptions.cs:15` reads `Cache:RedisCacheExpireSec`, which no settings file has
   (`appsettings.json:27` puts the 300 s under `Redis`), and `ExpireSec` is a `double?`,
   which no attribute argument can be: entries have no expiration. `CacheOptions.cs:13`,
   `CacheEnableAttribute.cs:96` and `Wiki.md:91` speak of a default, random one.

The following disagree with a comment or a document, too. They are in the models, as the
code has them, and the properties except them; no run is made of each.

* `MQManager.cs:144` retries a topic subscription as a direct one that is not durable
  (`Retry`); the comments at lines 119 and 124 say otherwise.
* `DataTimeExtension.cs:72`: in a year that starts on a Sunday `GetWeekTime` returns the
  week after the one asked for; its comment (lines 56 to 61) promises that week.
* `MQManager.cs:50` and `:115` drop the result of `WaitForConfirms`: a push whose message
  the broker refused returns as if well (`Refuse`, `PushReturns`).
* `MQManager.cs:67` declares a queue without a name, which comes back under another one
  after a lost connection: what the old one holds has no consumer any more (`Recover`).
  With that, and with `BasicNack`'s drop (line 97), line 101's concern for lost messages
  is not met.
* `MQManager.cs:43`: no push closes its channel, so pushing ends for good after as many
  pushes as a connection has channels (`PushMessage`, `CanOpen`).
* `CacheClearAttribute.cs:58-62` clears before the write of a command that returns its
  `Task` without being async (`ReturnsTask`), and `CacheEnableAttribute.cs:87` caches the
  `Task` of such a query, which cannot be read back (`GetThrows`).
* A compensation that was undone as the victim of a deadlock is answered with 200 and not
  repeated (`DeadlockVictim`); `Wiki.md:85` says the barrier takes care.

What a passing property says with an exception is worth knowing:

* `ParallelBound` allows `ForeachAsync` one task more than its limit
  (`IEnumerableExtensions.cs:40`).
* `StaleHasACause` allows the entry of a query that read before the write, and one whose
  clearing is under way or failed; it says nothing of commands that clear before they
  write, by `IsBefore` or because they have returned their `Task`.
* `AnswersFromQuery` allows an empty answer for a row that is there, when the key goes
  between `Exists` and `Get` (`CacheEnableAttribute.cs:52`).
* `OnlySharedDeadlock` allows the deadlock of requests for one row after a rollback;
  `NothingLeftWhenWell` excepts sagas in which a compensation was its victim.
* `OneTransaction` and `OwnerDecides` say what a commit whose answer was lost leaves: all
  of the transaction, and messages that are sent or stored for the retry processor.
* `SentWasCommitted` allows what `Flush` sends after a joined method's caught failure has
  rolled the row back (`TransactionAttribute.cs:77`).
* `ReturnedIsKept` is about confirmed messages, `EventuallySettled` about named queues,
  and `RetriesEnd` excepts durable queues, whose retries are refused for ever.
* `WeekTimesAgree` has the precondition that the year does not start on a Sunday;
  `AgeOfTheCall` excepts calls in which the month turns.

### Fairness

* `AsyncLoops`: weak fairness of the method and of each task's end. The thread pool
  runs a continuation that is ready, and the tasks are assumed to end; the loops
  promise nothing otherwise. Cancellation is not assumed.
* `CacheAside`: weak fairness of each query, each command and of `Expire`. A request
  runs to its end (each Redis command answers or throws), a query that waits for
  the lock gives up after 10 s, and Redis drops a key with a time to live. The last
  needs a time to live, which entries have for an `ExpireSec` of 2 or more
  (`EntriesExpire`) and not for the shipped 0: that is what `cache_never_expires` shows,
  under the same fairness.
* `MessageQueue`: weak fairness, per application, of the steps of a subscription, of
  `Recover` (automatic recovery tries again every 5 s), of delivery, of starting a
  handler and of its end. Publishing, faults and the start of a subscription are
  not assumed. That handlers end is an assumption about the callers' code.
* The snowflake, saga, transactional and calendar runs check safety only. In the saga no fairness would be
  justified: the DTM server is external, and a row lock ends by a timeout that is
  MySQL's.

## 4. What is proved

`tlapm` proves the following for every value of the constants that satisfies the
named assumptions (`RangeAssumption`, `NodeAssumption`, `SequenceAssumption`,
`LoopAssumption`, `CacheAssumption`, `BarrierAssumption`, `BranchAssumption`,
`TransactionalAssumption`, `TaskAssumption`, `QueueAssumption`, `CalendarAssumption`). They
say that bounds are natural numbers, that the refresh is shorter than the expiry,
that configured ids are bytes, that the model values differ from one another, and
that the walk through the calendar starts on the right weekday, in the year of the
births. Every safety property and every action property of a passing run is the
statement of a theorem.

* **SnowflakeProofs** - `DistinctWorkIds` and `IdsAreFresh` need more than themselves. A
  node's id comes from its number (`NumbersOK`); numbers are distinct because INCR
  exceeds every number in use (`NumbersDistinct`); a byte is injective on the
  numbers up to its range (`ToByteInjective`, the one arithmetic fact); and no
  generator is behind the ids that carry its worker id (`IssuedOK`), which is what
  survives a restart within a tick: the restarted node has a new number.
  `PunctualNotRecyclable` follows from `LeasesOK`: the score of a refreshed id is no
  older than the refresh, unless it was removed.
* **AsyncLoopsProofs** - the hard one is `ParallelBound`. `CountOK` counts the running
  tasks at each point of the loop with the cardinality lemmas of the library; in
  `ForeachAsync` it is the running part of the list that is bounded, in the others
  the list. `TasksOK` (what is not in the list has completed) gives
  `OkMeansAllEnded`; with `ResultsOK` (a result was taken iff its task left the
  list) it gives `ResultsExact`.
  What `Returns` rests on is proved as two safety facts: `WaitsOnlyForTasks` (the call
  can go on or a task runs; `WhenAny` never gets an empty list, which it would throw
  on) and `EveryStepCounts` (each step lowers the number `Left`: a task starts at most
  once per item, and a wait is followed by the next item). What is missing to
  `Returns` itself is that a step that can be taken is enabled.
* **CacheProofs** - `HoldsLock` says that a query between the lock and its end has the
  lock or gave up on it, which is `SingleLoader`. `CauseKept` says that an old entry that
  was not set late has outlived a write, and that a command whose write it has outlived
  is still at its clearing or failed at it (`AtClearing`), if commands clear after they
  write; that is `StaleEntriesHaveACause`. `NotServed` says that a query on its way to the row has no answer
  yet, and one that found an entry has loaded nothing; with these two, every step of the
  attributes maps to a step of `CachedQuery` or a stutter (`CallersGetWhatWasLoaded`):
  the row and the entry are the database's and Redis' (an entry without its time to
  live), a query has *found* an entry between `Exists` and `Get` and has *stored* its row
  after `OnSuccess`, and all of the lock maps to stutters. `EntriesExpire` is
  arithmetic: 80 % of two seconds or more is not 0, which would be no expiry. For one
  second it is.
* **DtmProofs** - the refinement `BarrierKeepsPromise`. Its invariant says who may
  hold a row (`Holds`), that a row has one holder and is not committed at the same
  time (`Exclusive`), that an operation counts at most once and only with its row
  (`Counted`), what a request past its insertions knows of the committed rows
  (`Knows`), and that a barred branch has both rows when the second cannot fail
  (`Whole`). Each step but `Commit` maps to a stutter; a commit maps to an action, a
  compensation, a bar or a stutter. `OnlySharedLocksDeadlock` adds who has
  shared locks (`Sharing`: on its own rows, and on ones nobody else has inserted or
  committed): a row that is waited for is held by a call that goes on, or by one that
  waits for its own compensation row, whose holder goes on; or a second waiter has the shared lock as well.
  Each step of the saga is a step of the handlers or a stutter
  (`SagaIsBarrier`), so the saga inherits both; `FailureIsNeverMissed` adds that the
  server never gets past a failing branch while it acts (`Forward`).
  `FailedSagaLeavesNothing` needs more of the handlers: what is committed was requested
  (`Requested`), a branch whose compensation is committed has counted as often forth
  as back (`Paired`, from why a request skips its operation, `Reasoned`), and an
  answer SUCCESS has its row, committed or about to be, if no compensation was a
  deadlock's victim (`Truthful`). On the way back each branch is then still to be compensated, compensated, or untouched (`Backward`).

* **TransactionalProofs** - type correctness holds for all styles, the rest for
  requests of plain methods. The calls that run are a stack (`Nesting`) and are
  exactly what the manager lists (`Listed`), so a method writes in its own unit of
  work and joins one that encloses it (`Bases`). A transaction is open only in a
  call that runs and holds all that was written in it unless it was rolled back
  (`Transactions`); what is committed under a transaction belongs to an owner that
  whose commit was done, whether or not its answer was lost, and what is pending never
  belongs to a call that failed (`Fates`).
  `FailedLeaveNothing` is inductive with these. The newest element of a set of
  calls is the library's well-foundedness of `<` on the naturals (`NewestIsLast`).

* **CapOutboxProofs** - `OutboxImplementsTransactional`: every step of the outbox is a step
  of `Transactional` or leaves its variables alone, so what is proved of the aspect
  holds with CAP (`OutboxTransactionsAreAtomic`). `NothingIsSentUncommitted` is
  inductive with three facts (`OutboxInv`): an owner's database transaction is the one
  it began or joined, until that is over (`Owned`); a message that is pending has
  its row in the transaction of its holder, and one that is stored was committed
  (`Placed`); a message that is gone has lost its row to a joined method's failure or
  to its holder's own end (`Lost`). `OwnersDecide`, for plain methods, adds that an
  owner that has ended has no transaction left to publish in (`Detached`), and where a message is by
  its owner's end (`Decided`): sent after a commit, stored or sent after one whose answer
  was lost, neither otherwise (`Fits`).
* **MessageQueueProofs** - the invariant `IInv` is `TInv` (types, and a channel for each
  declaration under way) with `Silent` (nothing is delivered on a connection that is
  down, so a queue that gets another name takes no delivery with it) and `MInv`: the handler that runs is for the oldest
  delivery (`Serial`), which makes the acknowledgement of several deliveries one of
  this one; a message is with one consumer, once, and not ready at the same time
  (`Alone`); what is not routed yet is nowhere (`Unknown`); what is routed and not
  refused is held or ended (`Owed`); and a handler was started no more often than there were losses
  and a first time (`Counted`). `ConsumersKeepMessages`, the refinement of `AtLeastOnce`,
  follows with one lemma per action: a requeue moves a message within what is held,
  an acknowledgement removes what is handled, and a restart purges.

* **CalendarProofs** - for any range of years and any dates of birth. The walk's
  counters agree with the tables of the code: the day of the year with the lengths of
  the months before (`DaysCounted`, `MonthsAddUp`), the weekday with Gauss' formula and
  the day of the year (`WeekdaysCounted`; `GaussStep` is that a year of the code's
  length takes one New Year's Day of Gauss to the next, by cases on the year's
  remainders by 400, 100 and 4), the week with both (`WeeksCounted`), and the birthdays
  with the date (`BirthdaysCounted`). From these the theorems about months and weeks are
  arithmetic within one state. For `AgesAreOfTheCall`, `ReadingsHold` says what a call's
  readings so far are worth after a midnight: as long as the month has not turned,
  what was read is true of today or of the time of the call.

Proving the calendar showed that two CASE expressions, there and in
`MessageQueue` (`Candidates`), had guards that overlap, so that their meaning was
open where TLC takes the first arm: they are IF expressions now.

Only model-checked: the liveness properties `Returns`, `AllCallsEnd`,
`EventuallySettled` and `RetriesEnd` (fairness and ENABLED are beyond the prover), and
the five disagreements with a run, which are counterexamples.

## 5. Not modelled, and why

* Names, payloads, serialization (but for that of a `Task`), the cache's key generator and logging: no property
  depends on them.
* The static service provider that each request overwrites
  (`P.Caching/Extensions/CachingMiddleware.cs:16`): it needs the lifetime of ASP.NET's
  scopes, and the code has no protection a property could state.
* Clocks that differ between nodes or go backwards: the models have one clock. In
  one tick of the model a node may generate ids and restart.
* Uniqueness of ids after the counter is exhausted: a recycled id can be handed to
  two starts, and a stalled node can be robbed. The code has no protection a
  property could state; both steps are in the model.
* Isolation levels, and what two requests do to one row (`ChangeMoney` reads and
  writes back without a lock, so an update can be lost). `Transactional` and `CapOutbox`
  have one request; what keeps the rows of concurrent ones apart is MySQL.
* The DTM server beyond sagas, and messages (`msg`), which no handler uses.
* MySQL's gap locks, and which of two deadlocked requests is the victim: either may be.
* The order of a queue's messages and routing keys: the code subscribes with what it
  pushes with, and promises no order.
* CAP's subscribers: those of `CapController` only print.
* The SqlSugar unit of work: three calls that SqlSugar answers, and a flag nothing
  reads; nothing registers it.
* JWT, jobs, migration, filters without state, registrations: configuration of
  libraries. Entities, DTOs and the code generator: declarations and file output.
* The pure helpers besides the calendar: date formatting (`ReturnDateFormat`,
  `GetDiffTime`), primes, paging, random numbers, strings, validators, reflection. They
  keep no state, and most are one library call.
* `docs/assets`: the generated and minified bundles of the documentation site.

## 6. What could follow

1. Two requests' `ChangeMoney` on one row under MySQL's isolation, as a composition of
   two instances of the aspect.
2. The requests and scopes of ASP.NET around the attributes' static service provider.
3. An abstract generator of unique ids, with the snowflake as its refinement.

## 7. Running

    tlc -workers 2 -config Snowflake.cfg MCSnowflake      (about 90 s)
    tlc -workers 2 -config AsyncLoops.cfg MCAsyncLoops
    tlc -workers 2 -config CacheAside.cfg MCCacheAside    (about 60 s)
    tlc -workers 2 -config DtmSaga.cfg DtmSaga            (about 60 s)
    tlc -workers 2 -config CapOutbox.cfg CapOutbox        (about 60 s)
    tlc -workers 2 -config MessageQueue.cfg MCMessageQueue (about 140 s)
    tlc -workers 2 -config Calendar.cfg MCCalendar
    tlapm SnowflakeProofs.tla

and so on for the other configurations and proof modules; `PROJECT.json` has the
list.
