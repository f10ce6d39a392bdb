# Formal models of the Kafka message queue service

The repository is a Spring Cloud message queue service over Kafka. Clients call
it through Feign; the service sends their messages to Kafka; a compensation task
resends what went wrong; workers consume, with their offsets and the messages
they have seen kept in Mongo. This directory holds TLA+ models of its core, the
TLC runs that check them and the theorems TLAPS proves about them.

## 1. Inventory

| component | state | operations | talks to |
|---|---|---|---|
| client interceptor, `KafkaMQClientIntercepter` | the call's request log; the row of the process log it writes | `doAround`: save READY, proceed, judge the result, finally mark and save again | Mongo, MQ service by Feign |
| message ids, `Message`, `DistributedIDGenerator` | a counter per process | `generatorId`: look for an overflow, reset, count, stamp | the digest by which every log tells messages apart |
| MQ service, `KafkaMQServiceImpl`, `KafkaProducerManager`, `SenderCallback` | producers in a balancer, records in flight, queue of callback tasks | `sendMQSync`, `sendMQAsync`, `compensateSendMQ`, `onCompletion`, `handle4MessageLog`, `shutdown` | Kafka, Mongo |
| compensation, `KakaMQMessageTask` | the redis lock, the page it reads, copies of rows | `onWork`, `handeMsgLog`, `doReSend`, `saveDeadedMessage`, `processNormalMessage` | Mongo, redis, MQ service |
| the collections | `kafka_process_msg_log`, `kafka_msg_log`, `kafka_deaded_msg_log` | save, update, delete, page | everyone above |
| distributed lock, `com.mq.redis.lock` | a redis key with an expiry; per JVM a map of lock objects with a semaphore; per thread one slot for a value | `getLock`, `lock`, `tryLock`, `unlock`, `CleanLockTask` | redis |
| consumer loop, `KafkaConsumerManager`, `HandleRebalance`, `GeneralOffsetCommitCallback` | position, offset cache, queues of three log executors; offset log and consumed log in Mongo; committed offset in Kafka | poll loop, commit, rebalance listener, commit callback, final commit | Kafka, Mongo, worker |
| worker lifecycle, `DefaultKafkaMsgWorker`, `KafkaWorkerManager` | running flag, two executors, registry, latch | init, handle with a timeout, release, stop all | consumer loop, the log executors all workers share |
| bootstrap, `mq-bootstrap` | ordered hooks | `doStop`: hooks in order, then the container | workers, producers, Spring |
| framework: executors, balancers | queues, a list of targets | submit, reject, close; `get` | everyone |
| code generator, front end | the address, its events, a frame, the highlighted link; a menu with its animations, the window, the layout; a grid, what is picked in it, a form | route, load, pick, configure, generate; toggle, slide, resize | browser, server |
| code generator, server | none | list schemas, list tables, archive of code | MySQL |

The hard behaviours are the interleavings of client, callback threads, scheduler
and clock over one Mongo row (no transaction anywhere, every call a step); failed
calls that may have taken effect; crashes with records in flight; stale copies
saved over newer rows; a lock that expires under its holder; offsets kept in two
places that move independently; executors that are shut while others feed them;
and, in the browser, answers and ends of animations that arrive after the user has
gone on. `PROJECT.json` lists each under "hazards" at its line, with the properties
that would see it go wrong.

What makes the parts correct:

* producer side: a saved message is never lost; NORMAL is only said of what the
  broker holds; nothing dies early; retries are bounded; rows are settled in the end;
  ids repeat only where the counter is reset twice; a service that stops loses no callback;
* lock: one holder at a time across JVMs; only a failing step forgets a key; no permit leaks;
  whoever waits sees the key change hands;
* consumer side: no record is skipped by a stored offset; a graceful stop leaves
  nothing behind; every record is handled in the end, at least once;
* shutdown: what feeds an executor has ended before the executor is shut; the JVM
  does halt;
* front end: address, frame and highlight agree; a form says what it will send; what
  is sent belongs together; the menu looks the way it is marked.

## 2. Plan

All steps are done.

1. `Outbox`, `ReliableSend`: the producer side, its abstract promise and proofs.
2. `Lease`, `GlobalLock`: what a lock with a time to live promises, the lock, and proofs.
3. `Subscription`, `Consumer`: poll loop, rebalances, offset and consumed logs, crash
   and restart; what a group promises about its offsets, and proofs.
4. `Shutdown`: init and release of workers, the log executors all workers share, the
   ordered hooks of the bootstrap, and proofs.
5. `MessageId`, `Producers`, composed by `Dispatch`: ids, the producers' balancer and
   their shutdown, and proofs.
6. `Sidebar`, `GeneratorPage`, composed by `CodeGenerator`: the pages of the code
   generator, and proofs.

## 3. Producer side: `Outbox`, `ReliableSend`

`ReliableSend` has one action per Mongo, redis or Feign call of the code, since
that is where threads interleave and calls fail.

| code | model |
|---|---|
| `doAround` | `SaveReady`, `Proceed` or `NotSent`, `Return`, `MarkFail`, `SaveFail` over `clientPc`, `saved`, `request` |
| `sendMQ`, records in flight | `SendMQ`, `RejectRequest`, `flight` (a count for each message and kind of send) |
| `onCompletion` | `BrokerAck`, `BrokerError` put tasks into the bag `tasks` |
| `handle4MessageLog` | `CallbackDelete`, `CallbackUpdate`, `CallbackLog`, `CallbackFail`, each one Mongo call |
| `onWork` | `TryLock`, `QueryPage`, `Interrupted`, `HandleRow`, `EndPage`, `Unlock` over `compPc`, `pageNum`, `todo`, `cur` |
| `doReSend` | `HandleRow` (counts), `CheckStatus`, `SaveCompensate`, `CompensateSendMQ` |
| `checkMessageDeaded`, `shouldReSend` | `CheckMessageDeaded`, `ShouldReSend` |
| `saveDeadedMessage`, `processNormalMessage` | `SaveDeaded`, `SaveNormal`, `DeleteProcessMessage` |
| crash, clock, expiry | `Crash`, `ClientCrash`, `Age`, `LockExpire` |

A message is its digest. A row keeps its status and retry count. Time is the age
of a message in three steps, at the two thresholds the code tests (6 and 15
minutes). A call fails "lost" (no effect) or "unknown" (effect, and an exception).
The request log, the fields a row carries along and the version number, which
nothing compares, are left out. The client calls once per message; a client that
repeats a call makes a new message id. The pointcut of the interceptor also names
`KafkaMQService.compensateSendMQ`, with a package pattern (`com.mq.kafka.*`) that
its package `com.mq.kafka.biz.api` does not match, so a resend is not intercepted.
The lock is one variable here, its own module below; that no run of the
compensation outlives its key is an assumption (the key lives 900000 s).

`Outbox` says what the whole amounts to: what is owed stays owed until the broker
or the dead letter log has it. `Promise == INSTANCE Outbox WITH owed <- Stored,
delivered <- inKafka, dead <- deadLog` maps the one to the other, and
`KeepsPromise` is checked and proved.

### Runs

* `send_one`: one message, one instance, one failed call, one crash, retry limit 2.
  All safety properties, the action properties and `Drains` (every row is
  settled for good) under `FairSpec`. One message is enough for them: nothing in the code
  relates two messages but the page they share. One failure and one crash reach
  every error path, and the limits of `BoundedAttempts` and `DeathIsFinal` count
  them. The retry limit has to be 2: a failed call can cost the row a count and leave one
  more chance of an attempt behind, and only with two retries is there room for both
  attempts. With a limit of 1 a bound of one attempt for each failed call holds, with 2
  it does not. `Budgeted`, in `RetryProofs`, is the account that explains the bound.
  `UnsentIsKept` is about a call that did not go out and whose first save failed, which
  `Tracked` does not cover: the finally block makes up for the save, unless it fails as
  well (a second failure, which only the theorem covers) or the client dies. A call that
  did go out, or timed out, after a failed first save is in no log; the broker may have
  its message, or nobody has.
  `Evidence`, the inductive invariant of the proofs, is checked too; that pages drift
  while rows are deleted, which takes two messages, is covered by the theorems, which
  hold for any number of messages and any page size.

### Fairness

Threads run on once started; the scheduler fires every two seconds; Kafka's
producer completes each record within `delivery.timeout.ms`; requests are handled
or lost; redis expires keys; the clock runs. Nobody has to send and nothing has
to fail. `WF` on each callback step and on the compensation as a whole is what an
executor and a scheduler give.

### What to know

* A message can be delivered and dead at once, as `handeMsgLog` buries by age or count
  although a resend may be in flight, and delivered more than once: the consumer's log
  has to sort that out. `MsgStatus` says of DEAD that no retry can succeed.
* A dead message goes to the dead letter log only; the comments of `KafkaMsgLog` and
  `KafkaProcessMsgLog` say that the full log gets it, too.
* The retry count lives in a row that callbacks delete and stale copies overwrite.
  The bound that holds is `RetryLimit + 1`, two more for each failed call and one more
  for each crash.
* A COMPENSATE row is never sent again; only death or a callback settles it.

## 4. Distributed lock: `GlobalLock`, `Lease`

| code | model |
|---|---|
| `getLock`, `CleanLockTask` | `GetLock`, `CleanLock` (out of the map), `UnlockDropped` over `cached`, `dropped`, `gen` (which lock object of a key), `life` |
| `lock` | `TakePermit`, `SemaInterrupted`, `Attempt`, `Retry`, `RetryInterrupted` |
| `tryLock` | `TakePermit`, `SemaTimeout`, `Attempt`, `Retry`, `GiveUp` |
| `unlock` | `Unlock` (the script), `Release` (its finally block) |
| the scripts | `SetNx`, `CompareAndDelete`, with `Ttl` for the unit of EXPIRE |
| expiry, crash | `Tick`, `Crash` |

A lock value is a pair of thread and serial, so values of two threads differ; the
code sums a clock, a process number and a counter, which makes a collision
unlikely, not impossible. `tryLock` may give up after any attempt; its counter,
and the endless loop of `tryLock(0)`, which no caller uses, are left out. Threads
use the lock as `GlobalLockFactory` documents, with unlock in a finally block even
after a failed `tryLock`. `removeLock` has no caller.

A thread has one slot for the value of whatever lock it took last. A second lock
taken inside a first one makes it forget the first one's value, and the first key then
stays until it expires. No caller nests, so `Nested` is `FALSE` in the runs; mutual
exclusion and the contract below are proved with it.

`Lease` is the contract of a lock with a time to live, in two sets of pairs: what the
server has granted, and what the threads rely on. A key is granted when it is free, taken
back by whom it was granted to or by time, and time takes it from the thread as well; a
crash frees nothing. `Contract == INSTANCE Lease` reads the first set off the values in
redis (a value names its thread) and the second off what `lock` and `tryLock` returned.

### Runs

* `lock_excludes`: three threads, two of them in one JVM, one key, time to live 2,
  one failed call or interrupt, one cleaning: the smallest instance with a local and a
  remote competitor, an expiry under a holder and a cleaned lock object in use. A crash
  only takes threads and permits away; it is in `lock_progress` and in the theorems.
* `lock_progress`: two threads of a JVM under `FairSpec`: threads inside a call run
  on and the clock advances. A holder need not let go: its key expires. `LeasesKept` is
  checked here as well: an expiry, a failed call, a cleaned lock object that lets the other
  thread in, and a late unlock are what it takes to break it. So is `NoOrphan`: a key may
  lose the thread that knows its value only in the very step that fails (an answer of
  `acquireLock` or an unlock that is lost, a crash), never later and never by another
  thread's step. What such a step leaves behind is `Progress`'s business.
* `lock_local`, `lock_expiry`: the semaphore admits two after a documented use of
  `tryLock`, and milliseconds reach EXPIRE as seconds.

## 5. Consumer side: `Consumer`, `Subscription`

One group on one partition; the code treats partitions of a group alike and shares
nothing between them but the loop. Records are digests, numbered from 1; offset n
stands before record n + 1.

| code | model |
|---|---|
| `startup`, the loop | `Poll`, `Take`, `Handled`, `Put`, `Leave` over `pc`, `next`, `end`, `count` |
| `currentOffsets` | `cur` |
| `startup`, the finally block | `FinalCommit`, then `Close`, or `Revoke` and `SaveRevoked` out of close |
| `onPartitionsAssigned`, `queryDbOffset` | `Assign`, `Position` |
| `onPartitionsRevoked`, `commitOffset` | `Revoke`, `SaveRevoked` |
| `GeneralOffsetCommitCallback.onComplete` | `Put`, `FinalCommit` (to the offset log), `CommitCallback` (the cache) |
| `handle`, the worker executor | `Take` (submit), `OnWork`, `Handled` (result or timeout) over `work` |
| log executors | `SaveOffset` (one thread, the queue `offsets`), `SaveConsumed` (many, the bag `marks`) |
| `exists` | `Known` |
| `buildAndStartConsumer`, `release` | `Start`, `Stop`, `Drained` |
| broker, coordinator, operating system | `Produce`, `Commit`, `Expel`, `Crash` |

The client library (kafka-clients 2.5.1) is modelled from its documented behaviour:
the listener and the commit callbacks run inside `poll`, `commitSync` and `close`;
synchronous commits, and a rebalance, wait for the asynchronous ones before them; an
expelled consumer's commits fail and it learns of its expulsion inside a later poll.
A commitAsync that raises is a commit that is lost, and the batch goes on counting.

Left out: the work log, whose entries nothing reads; the consumed record of a broken
message, which nothing looks up; interrupts, which end the loop like `running`. Each
consumer has executors of its own here; that the workers of a process share the log
executors is the subject of `Shutdown`. A `batchCommitSize` of 0 divides by zero and is excluded by the
assumption `ConsumerConstantsOK`.

`Subscription` says what the group promises: the places it may resume from move, also
backwards, but only to offsets with nothing unreached below them.
`Promise == INSTANCE Subscription WITH length <- Len(log), ...`; `KeepsUp` is checked
and proved.

### Runs

* `consume`: two consumers, two messages in a log of two records, one rebalance or
  expulsion. A batch of two and a batch of one, an expelled consumer in the middle of
  a batch while the other has been assigned, and the late writes of both, are all
  in it. No failed calls: `NoSkip` under failures is in the other run.
* `consume_restart`: one consumer, one good and one broken message, two records, two
  starts, one rebalance, one failure and one crash, under `FairSpec`. Two starts
  are the fewest that use what the first one stored. `CleanStop` speaks of the
  behaviours without failures, rebalances and crashes, which are part of the run.
* `consume_twice`: a resent record right behind its first copy is handled twice.

A log of two records has a first and a last one of a batch, and a record beyond a
batch; one cached offset before and one behind another is all the orders of writes
can tell apart. The proofs do not depend on any of these bounds.

### Fairness

The loop's thread runs on; the coordinator assigns a free partition to a consumer
that polls; close gets through its revocation; the broker answers commits or they
are lost; the business handler returns. Not assumed: that anybody starts a consumer,
that records arrive, or that the log executors ever run. `AllHandled` assumes that
some consumer stays up, as a consumer whose poll raised is not started again.

### What to know

* A message counts as settled when its handler returned, raised or timed out. The
  code keeps the exception in a result nobody acts on and moves on; a crash after a
  timeout loses the task. "Handled" is no more than "was given to the handler".
* Delivery is at least once. The consumed log removes most duplicates, not the one
  that comes right behind its original (`consume_twice`), and not one of a second
  consumer that handles the batch of an expelled one.
* Until the group's first commit a restart goes to the end of the log
  (`auto.offset.reset` is `latest`, and nothing is stored at the first assignment): a
  record that arrived in between is never handled. `NoSkip` counts it as reached.
* The offset log and the committed offset move backwards when an expelled consumer or
  a late executor writes last. Records are then handled again, never skipped.

## 6. Start and stop of a worker process: `Shutdown`

| code | model |
|---|---|
| `onApplicationEvent`, `init`, `buildAndStartConsumer` | `Register`, `OpenLoopPool`, `OpenWorkPool`, `SetRunning`, `SubmitLoop`, a thread per worker (`init`) |
| `startup`, `handle` | `Take`, `Handle`, `WorkDone`, `WorkTimeout`, `LogRecord`, `LeaveLoop`, `FinalCommit` over `loop`, `tasks` |
| log executors | `SubmitEntry`, `WriteEntry` over `logOpen`, `entries` |
| `release` of worker, manager and executors | `ClearRunning`, `ShutLoopPool`, `AwaitLoop`, `ShutWorkPool`, `AwaitPool`, `StopLogs`, `AwaitLogs` over `stopper` |
| `KafkaWorkerManager.stop` | `CountWorkers`, `SpawnStoppers`, `CountDown`, `AwaitLatch` |
| `CommonSpingBootstrap.doStop` | `Signal`, `RunBootHooks`, `CloseContainer`, `HookRaises`, `Halt` over `hook` |

A record is a task of the worker pool and a log entry. One executor stands for the
three log executors, which are alike and stopped one after another. The main thread
is not modelled: it only waits to be woken, and the JVM halts when the hook's thread
ends, possibly before the main thread has run the hooks that come after. Every wait
of the code is bounded, so each has an outcome in which it ran out. Three histories say
whom the properties excuse: `hurried`, the workers whose wait ran out; `revived`, those
that set their running flag after their release had cleared it; `late`, those that were
not registered when `stop` counted them. `HandledForReal` and `OwnEntriesKept` excuse
the first two, worker by worker: a worker that is stopped while it starts, but whose
flag stays as its release left it, is not excused. `QuietClose` needs all three to be
empty: a late worker may count the latch down in the place of another.

* `shutdown`: two workers, one record. The second worker is there to share the log
  executors, to be late, and to be counted. Under `Spec`'s fairness the hook's thread
  and the threads it spawns run on; nothing is asked of handlers, loops, executors.
* `shutdown_all_closed`: the registry and the running flag are not synchronised with a
  worker's own thread: a worker that is still starting is stopped, counted, and then
  begins to poll.

To know: the first released worker shuts the log executors for all; entries of the
others are dropped by a rejection handler that says nothing (what becomes of the offsets
then is in section 5). A task that times out counts as settled, as in section 5. The handler of a failing
hook raises itself (its format string begins with `%` and a letter Java does not
know), so that the rest of `doStop` is skipped. `DefaultTaskExecutor.close` raises for
a missing format argument and skips its last wait.

## 7. Ids, producers and their shutdown: `MessageId`, `Producers`, `Dispatch`

| code | model |
|---|---|
| `generatorId` | `Look`, `Reset`, `AddAndGet`, `Stamp` over `num`, `at`, `number`, `id` |
| `HashLoadBalancer.get` | `Get`: any target of the list; an exception once it shrinks |
| `sendMQ`, `SenderCallback` | `Send`, `Complete`, `Return`, `Timeout`, `SubmitTask`, `RunTask` |
| `StopKafkaProducerHook`, `shutdown` | `Signal`, `NextProducer`, `Flushed`, `Closed`, `ProducerRaises`, `NoneLeft` |
| the container closing the executor | `ShutExecutor`, `AwaitTasks`, `Halt` |

`Dispatch` composes them: a message that has its id becomes a request of the service.
The run `dispatch` has two messages, one synchronous, two producers, and a counter that
stands right before its limit: the overflow, a request in every step of the shutdown, and
a wait that runs out, are all in it. Ids do repeat: two threads see the same overflow
and both set the counter back. `era` counts such resets and `of` keeps in which era a
message took its number; `IdsDiffer` says how far the damage goes: within an era all
ids differ, over an ordinary reset too, so that each repeated one lets an id be given
out once more and no oftener. `Send` may raise for a closed producer and for any other
reason `KafkaProducer.send` has; the request is answered with an error all the same.
Fairness: threads run on, and a producer completes its records by its time limit.

## 8. The code generator's pages: `Sidebar`, `GeneratorPage`, `CodeGenerator`

| code | model |
|---|---|
| `app.js`: ready handler, `layout` | `Ready`, `Resize`, `Fix` over `width`, `height`, `minHeight` |
| `app.js`: `pushMenu` | `Toggle`, `ClickContent` over `collapse`, `sidebarOpen` |
| `app.js`: `tree` | `CloseMenu`, `OpenMenu`; the callbacks `Opened`, `Shut`, over the animation queue `fx` |
| `router.js` | `HashChange`, `reload` over `hash`, `events` |
| `index.js` | `Follow` over `main`, `links` |
| `generator.js` | `Load`, `ChooseSchema`, `Query`, `ConfigGen`, `Refuse`, `Generate`, `Return` |
| jqGrid, browser (external) | `RowsArrive`, `RowsFail`, `Pick`; `PageArrives`, `PageFails`, `CodeArrives` |

jQuery (2.2.4) is modelled from what the script relies on: one queue of animations per
element; the callback of each runs when it ends; an animation that has nothing to do
ends at once; a list the style sheet hides slides up without a callback. jqGrid drops a
reload while it loads and keeps what is picked apart from its rows. A frame navigates
to one place at a time, and a download leaves it as it is.

Three histories mark the races the code does have, and without them the properties
are violated; each ends with the next reload, page or fix that goes undisturbed, so
that the properties say nothing else mixes things up: `astray` (a schema chosen while
another one's list loads, a list that failed, rows picked during a load: the tables
picked may belong to another schema than the one sent with them), `lost` (a request for
code takes the frame from a page that is loading, or an error replaces it: the page's
link is then dead, because the router thinks it is there), `fixedFolded` (unfolding the
sidebar does not fix the layout).

* `code_generator`: two schemas that share a table, two widths on either side of the
  theme's boundary, two heights on either side of the sidebar's, up to three queued
  animations and seven gestures of the user in any order. Seven let the user
  go to the page, choose, pick, configure, be refused or generate, and come back. The
  user may stop at any time, so deadlock is not checked.

## 9. Proofs

For all values of the constants that satisfy the modules' assumptions.

`ReliableSendProofs`:
* `TypeCorrect`: types, action by action.
* `EvidenceHolds`, and from it `SentIsTrue`: whoever is about to delete a row or call it
  NORMAL (a success callback at any of its three steps, the compensation with a
  NORMAL copy) has the broker's acknowledgement behind it. `NormalIsSent` alone
  says nothing of tasks in a queue or of copies in memory, so it is not inductive.
* `NothingLost` and `ImplementsOutbox` follow from the same invariant: a row only
  disappears in `CallbackDelete` or `DeleteProcessMessage`.
* `UnsentNotLost`: step by step, what a client that did not send leaves behind.
* `CountsHold` (`Counted`), and from it `NobodyDiesEarly`: no copy of a retry count
  exceeds the number of attempts, and a verdict of death still stands when it is carried out.

`RetryProofs`: why retries end. `Copies` says how a row, the page's copy of it and the
task's copy agree, and that a client asks once. The *chances* of a message are a finite
set: its records and failures on their way, the client's request, a row that invites an
attempt, the record about to be sent. `Budget` covers the attempts made and the chances
left with the retry count, and with `2 * faults + crashes`. `StepKinds` sorts the steps
by what they do to a message: nothing that matters (`Calm`), an acknowledgement, which
spends a chance (`Ack`), an attempt, which counts (`Attempt`), and three ways to lose a
count again: a row found NORMAL, which spends another chance (`Settle`), a failed call
(`Slip`), a crash (`Break`). `BudgetHolds` and `AttemptsBounded` are inductions over
these kinds, with cardinalities of the chances. `DeadStayDead` rests on `Buried`: while
at most one thing has gone wrong, a buried message is not being retried and keeps the
budget of a run without failures, so its count stays above the limit.

`GlobalLockProofs`:
* `LockExcludes` rests on `Owned`: a holder's key is in redis with a value of that
  holder's, and a slot only has values of its own thread.
* `PermitsReturn` is inductive with the types.
* `NothingForgotten` (`NoOrphan`) assumes that locks are not nested. It rests on
  `OneAtATime`: a thread is in a call or holds one lock, and only what it holds can
  lapse; so the value an unlock compares is the one it stored for that key, and a step
  that leaves a key without its holder is one that failed.
* `ImplementsLease`: every step is a step of `Lease`. An unlock only deletes a value of
  its own thread (`Owned`), whichever lock that value was made for. `LeaseExcludes`: the
  contract by itself implies `MutualExclusion`.

`ConsumerProofs`: `NothingSkipped`, `OnlyHandledConsumed` and `KeepsPromise` rest on
one invariant, `IInv`. `NoSkip` alone says nothing of where a consumer stands. Beside
it, `IInv` says that a batch lies inside the log (`Within`), that a consumer that
takes records stands at an offset with nothing unsettled below it (`Placed`), that
the record at hand is with the worker, and settled by the time its offset is put
(`AtHand`), and that queued entries of the consumed log are settled (`Marks`). All
stored, cached and queued offsets come from the set `Good`, which only grows, so
the order in which they are written does not matter (`OffsetsStep`, `Monotone`).

`ConsumerStopProofs`: `StopsClean` is `CleanStop` for a group of one consumer, the case
the property is about, with any sizes of batch, poll and log and any number of starts
and stops. Its invariant, `Orderly`, speaks of runs in which nothing failed so far. The
coordinator and the consumer agree on the assignment, and the cache holds the position
or nothing (`Settling`); commits on their way and callbacks that are due are of passed
offsets, and one of the position itself has been queued for the offset log
(`Trailing`): that is what makes it safe for a callback to empty the cache, and the final
commit to do nothing then. Between batches, after the final commit, and wherever the
cache is empty, the last entry of the executor's queue, or the offset log if there is
none, is the position (`Saved`).

`ShutdownProofs`: `SInv` says in which order a worker starts (`StartOrder`) and stops
(`StopOrder`), that past `AwaitLoop` the loop has ended (`LoopFirst`) and past `AwaitLogs`
the entries are written (`LogsLast`), and that the latch counts the stoppers that are
not done (`LatchCounts`); `RecordsAreHandled`, `EntriesAreKept`, `ClosesQuietly` follow.

`DispatchProofs`: `Spread` puts the numbers an era has given, on either side of an
ordinary reset, where they cannot meet (it needs fewer messages in the making than the
counter's limit); `Orderly` says that a removed producer is closed and empty, and that a record
that was accepted is in flight, a task, or worked. `IdsAreUnique`, `StopLosesNothing`.

`CodeGeneratorProofs`: each part has its own inductive invariant and each action of the
composition is a step of the parts. The page is as tall as the folded sidebar at any
time and as the unfolded one unless it was fixed while folded (`Fits`); a grid that
did not go astray loads, or has loaded, the chosen schema's tables (`Loads`); the frame
loads what it is bound to or shows it (`Bound`).

Every invariant and every action property of the passing runs is a theorem. Only
model-checked: liveness under fairness (`Drains`, `Progress`, `AllHandled`,
`Terminates`, `Stops`, `Answered`), which is out of the prover's reach. Two theorems
need a hypothesis beyond the modules' assumptions: `NothingForgotten` that locks are not
nested, `StopsClean` that the group has one consumer.

## 10. Not modelled

* Request log, XSS and Feign plumbing, datasource, mybatis, eureka, test controllers and
  cluster scripts: no state of the message path.
* Pure choices without state: `KeyHashRobinRule` (its search for a healthy server tests
  the unhealthy one it wants to replace), `KeyHashPartitioner` and the index of
  `HashLoadBalancer` (the absolute value of the smallest integer is negative; no
  available partition divides by zero). `WeightLoadBalancer` has no user.
* A full executor queue resubmits from the handler of its own rejection, recursively;
  the models' queues are not full.
* The templates and queries of the code generator's server; the parts of its theme
  script that no page has elements for (control sidebar, box widgets, todo lists);
  paging, the filter and the select-all box of the grid, which only narrow the rows or
  repeat a pick; the keyboard; the history of the browser; locale strings.
