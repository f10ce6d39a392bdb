------------------------------- MODULE Shutdown -------------------------------
(***************************************************************************)
(* How a worker process starts its consumers and shuts down.  Every        *)
(* DefaultKafkaMsgWorker initialises itself in a thread of its own; the    *)
(* JVM's shutdown hook runs the hooks of CommonSpingBootstrap, the first   *)
(* of which lets KafkaWorkerManager stop each registered worker in one     *)
(* more thread: the consumer loop, then the pool its handlers run in, then *)
(* the log executors that all workers of the process share.  Those three   *)
(* are alike and stopped one after another, and one stands for them here;  *)
(* what a loop does with a record is Consumer's subject, and a record is a *)
(* task of the worker pool and a log entry.                                *)
(***************************************************************************)
EXTENDS Integers, FiniteSets

CONSTANTS
    Worker,     \* the workers of the process, each with one consumer
    MaxRecords  \* bound on the records each worker gets

ASSUME ShutdownConstantsOK ==
    /\ IsFiniteSet(Worker)
    /\ MaxRecords \in [Worker -> Nat]

VARIABLES
    init,       \* where the thread of onApplicationEvent stands
    registered, \* the workers in workerRegisters
    cleared,    \* has stop set workerRegisters to null
    running,    \* the flag each consumer loop looks at
    loopPool, workPool,  \* consumerExecutor and workerExecutor of a worker
    loop,       \* where a consumer loop stands
    records,    \* records a worker may still get
    accepted,   \* was the task the loop waits for accepted by the pool
    tasks,      \* tasks of the worker pool that are queued or run
    stopper,    \* where the thread that stops a worker stands
    logOpen, entries,    \* the shared log executors and the length of their queues
    hook, latch,         \* the thread of the shutdown hook, its countDownLatch
    container,  \* is the spring container open
    late,       \* history: workers not yet registered when stop counted them
    revived,    \* history: workers whose flag init set after release cleared it
    hurried,    \* history: workers one of whose bounded waits ran out
    unworked,   \* history: workers a record of which was settled without onWork
    refused,    \* history: workers an entry of which a closed executor dropped
    shutter     \* history: workers whose thread shut the log executors

workerVars == <<init, registered, cleared, running, loopPool>>
poolVars == <<workPool, tasks>>
loopVars == <<loop, records, accepted>>
logVars == <<logOpen, entries>>
hookVars == <<hook, latch, container, late>>
history == <<hurried, revived, unworked, refused, shutter>>
shutdownVars == <<workerVars, poolVars, loopVars, stopper, logVars, hookVars, history>>

InitPc == {"configure", "pools", "workers", "start", "submit", "started", "failed"}
LoopPc == {"none", "poll", "submit", "wait", "log", "commit", "closed"}
StopPc == {"none", "halt", "loop", "loopEnd", "pool", "poolEnd", "log", "logEnd", "count", "done"}
HookPc == {"up", "stop", "spawn", "await", "hooks", "close", "ended", "raised", "halted"}
Pool == {"none", "open", "shut"}

TypeOK ==
    /\ init \in [Worker -> InitPc] /\ stopper \in [Worker -> StopPc]
    /\ registered \subseteq Worker /\ cleared \in BOOLEAN /\ running \in [Worker -> BOOLEAN]
    /\ loopPool \in [Worker -> Pool] /\ workPool \in [Worker -> Pool]
    /\ loop \in [Worker -> LoopPc] /\ records \in [Worker -> Nat]
    /\ accepted \in [Worker -> BOOLEAN] /\ tasks \in [Worker -> Nat]
    /\ logOpen \in BOOLEAN /\ entries \in Nat
    /\ hook \in HookPc /\ latch \in Nat /\ container \in BOOLEAN
    /\ late \subseteq Worker /\ revived \subseteq Worker /\ hurried \subseteq Worker
    /\ unworked \subseteq Worker /\ refused \subseteq Worker /\ shutter \subseteq Worker

(* The hook may run from the moment the application has started. *)
Init ==
    /\ init = [w \in Worker |-> "configure"] /\ stopper = [w \in Worker |-> "none"]
    /\ registered = {} /\ cleared = FALSE /\ running = [w \in Worker |-> FALSE]
    /\ loopPool = [w \in Worker |-> "none"] /\ workPool = [w \in Worker |-> "none"]
    /\ loop = [w \in Worker |-> "none"] /\ records = MaxRecords
    /\ accepted = [w \in Worker |-> FALSE] /\ tasks = [w \in Worker |-> 0]
    /\ logOpen = TRUE /\ entries = 0
    /\ hook = "up" /\ latch = 0 /\ container = TRUE
    /\ late = {} /\ revived = {} /\ hurried = {} /\ unworked = {} /\ refused = {} /\ shutter = {}

-------------------------------------------------------------------------------
(* onApplicationEvent: init runs in a thread of its own. *)

InitStep(w, from, to) == init[w] = from /\ init' = [init EXCEPT ![w] = to]

(* The registry is an unsynchronised field: a thread that comes after stop *)
(* set it to null may see the null, and fail, or still see the old map.    *)
Register(w) ==
    /\ \/ InitStep(w, "configure", "pools") /\ registered' = registered \cup {w}
       \/ cleared /\ InitStep(w, "configure", "failed") /\ UNCHANGED registered
    /\ UNCHANGED <<cleared, running, loopPool, poolVars, loopVars, stopper, logVars, hookVars, history>>

OpenLoopPool(w) ==
    /\ InitStep(w, "pools", "workers")
    /\ loopPool' = [loopPool EXCEPT ![w] = "open"]
    /\ UNCHANGED <<registered, cleared, running, poolVars, loopVars, stopper, logVars, hookVars, history>>

OpenWorkPool(w) ==
    /\ InitStep(w, "workers", "start")
    /\ workPool' = [workPool EXCEPT ![w] = "open"]
    /\ UNCHANGED <<registered, cleared, running, loopPool, tasks, loopVars, stopper, logVars, hookVars, history>>

(* buildAndStartConsumer sets the flag right before it submits the loop... *)
SetRunning(w) ==
    /\ InitStep(w, "start", "submit")
    /\ running' = [running EXCEPT ![w] = TRUE]
    /\ revived' = IF stopper[w] \in {"none", "halt"} THEN revived ELSE revived \cup {w}
    /\ UNCHANGED <<registered, cleared, loopPool, poolVars, loopVars, stopper, logVars, hookVars,
                   hurried, unworked, refused, shutter>>

(* ...which a pool that is shut by now drops without a word. *)
SubmitLoop(w) ==
    /\ InitStep(w, "submit", "started")
    /\ loop' = IF loopPool[w] = "open" THEN [loop EXCEPT ![w] = "poll"] ELSE loop
    /\ UNCHANGED <<registered, cleared, running, loopPool, poolVars, records, accepted,
                   stopper, logVars, hookVars, history>>

-------------------------------------------------------------------------------
(* KafkaConsumerManager.startup: the loop of one consumer. *)

LoopStep(w, from, to) == loop[w] = from /\ loop' = [loop EXCEPT ![w] = to]

(* The loop looks at the flag before each record... *)
Take(w) ==
    /\ running[w] /\ records[w] > 0
    /\ LoopStep(w, "poll", "submit")
    /\ records' = [records EXCEPT ![w] = @ - 1]
    /\ UNCHANGED <<workerVars, poolVars, accepted, stopper, logVars, hookVars, history>>

(* ...and gives the record to the worker pool; one that is shut by then    *)
(* drops the task, and the loop waits for a future that never completes.   *)
Handle(w) ==
    /\ LoopStep(w, "submit", "wait")
    /\ accepted' = [accepted EXCEPT ![w] = workPool[w] = "open"]
    /\ tasks' = IF workPool[w] = "open" THEN [tasks EXCEPT ![w] = @ + 1] ELSE tasks
    /\ UNCHANGED <<workerVars, workPool, records, stopper, logVars, hookVars, history>>

(* A thread of the pool has run onWork: the loop has its answer, unless    *)
(* the task is one the loop has given up on.                               *)
WorkDone(w) ==
    /\ tasks[w] > 0 /\ tasks' = [tasks EXCEPT ![w] = @ - 1]
    /\ \/ accepted[w] /\ LoopStep(w, "wait", "log")
          /\ accepted' = [accepted EXCEPT ![w] = FALSE]
       \/ (accepted[w] => tasks[w] > 1) /\ UNCHANGED <<loop, accepted>>
    /\ UNCHANGED <<workerVars, workPool, records, stopper, logVars, hookVars, history>>

(* workFuture.get times out; the record counts as handled all the same. *)
WorkTimeout(w) ==
    /\ LoopStep(w, "wait", "log")
    /\ accepted' = [accepted EXCEPT ![w] = FALSE]
    /\ unworked' = IF accepted[w] THEN unworked ELSE unworked \cup {w}
    /\ UNCHANGED <<workerVars, poolVars, records, stopper, logVars, hookVars, hurried,
                   revived, refused, shutter>>

(* submitRunTask: a log executor that is shut drops the entry. *)
SubmitEntry(w) ==
    /\ entries' = IF logOpen THEN entries + 1 ELSE entries
    /\ refused' = IF logOpen THEN refused ELSE refused \cup {w}
    /\ UNCHANGED <<workerVars, poolVars, records, accepted, stopper, logOpen, hookVars,
                   hurried, revived, unworked, shutter>>

LogRecord(w) == LoopStep(w, "log", "poll") /\ SubmitEntry(w)

(* Out of the loop, for a cleared flag or a poll that failed: offsets that *)
(* are still cached are committed and logged once more before the consumer *)
(* is closed.                                                              *)
LeaveLoop(w) ==
    /\ \/ LoopStep(w, "poll", "closed")
       \/ records[w] < MaxRecords[w] /\ LoopStep(w, "poll", "commit")
    /\ UNCHANGED <<workerVars, poolVars, records, accepted, stopper, logVars, hookVars, history>>

FinalCommit(w) == LoopStep(w, "commit", "closed") /\ SubmitEntry(w)

(* The one thread of a log executor has written an entry. *)
WriteEntry ==
    /\ entries > 0 /\ entries' = entries - 1
    /\ UNCHANGED <<workerVars, poolVars, loopVars, stopper, logOpen, hookVars, history>>

-------------------------------------------------------------------------------
(* DefaultKafkaMsgWorker.release, in the thread stop has made for a worker. *)

StopStep(w, from, to) == stopper[w] = from /\ stopper' = [stopper EXCEPT ![w] = to]

ClearRunning(w) ==
    /\ StopStep(w, "halt", "loop")
    /\ running' = [running EXCEPT ![w] = FALSE]
    /\ UNCHANGED <<init, registered, cleared, loopPool, poolVars, loopVars, logVars, hookVars, history>>

(* releaseExecutor passes over a pool that does not exist (yet). *)
ShutLoopPool(w) ==
    /\ IF loopPool[w] = "none" THEN StopStep(w, "loop", "pool") ELSE StopStep(w, "loop", "loopEnd")
    /\ loopPool' = [loopPool EXCEPT ![w] = IF @ = "none" THEN @ ELSE "shut"]
    /\ UNCHANGED <<init, registered, cleared, running, poolVars, loopVars, logVars, hookVars, history>>

ShutWorkPool(w) ==
    /\ IF workPool[w] = "none" THEN StopStep(w, "pool", "log") ELSE StopStep(w, "pool", "poolEnd")
    /\ workPool' = [workPool EXCEPT ![w] = IF @ = "none" THEN @ ELSE "shut"]
    /\ UNCHANGED <<workerVars, tasks, loopVars, logVars, hookVars, history>>

(* Every wait for an executor is bounded: forty seconds of looking and     *)
(* five more minutes for a pool, twenty seconds for a log executor, whose  *)
(* last wait is lost to a faulty format string.                            *)
Wait(w, from, to, ended) ==
    /\ StopStep(w, from, to)
    /\ \/ ended /\ UNCHANGED hurried
       \/ ~ended /\ hurried' = hurried \cup {w}
    /\ UNCHANGED <<workerVars, poolVars, loopVars, logVars, hookVars, revived,
                   unworked, refused, shutter>>

(* Mutant of AwaitLoop: nobody waits for the loop. *)
PassLoop(w) == Wait(w, "loopEnd", "pool", TRUE)

AwaitLoop(w) == Wait(w, "loopEnd", "pool", loop[w] \in {"none", "closed"})
AwaitPool(w) == Wait(w, "poolEnd", "log", tasks[w] = 0)

(* KafkaConsumerManager.release stops the log executors of all workers. *)
StopLogs(w) ==
    /\ StopStep(w, "log", "logEnd")
    /\ logOpen' = FALSE /\ shutter' = shutter \cup {w}
    /\ UNCHANGED <<workerVars, poolVars, loopVars, entries, hookVars, hurried, revived,
                   unworked, refused>>

AwaitLogs(w) == Wait(w, "logEnd", "count", entries = 0)

(* Mutant of CountDown: a plain counter in place of the latch, which stays *)
(* at zero once it is there.                                               *)
CountBelow(w) ==
    /\ StopStep(w, "count", "done") /\ latch' = latch - 1
    /\ UNCHANGED <<workerVars, poolVars, loopVars, logVars, hook, container, late, history>>

CountDown(w) ==
    /\ StopStep(w, "count", "done")
    /\ latch' = IF latch > 0 THEN latch - 1 ELSE 0
    /\ UNCHANGED <<workerVars, poolVars, loopVars, logVars, hook, container, late, history>>

-------------------------------------------------------------------------------
(* CommonSpingBootstrap.doStop, in the thread of the JVM's shutdown hook. *)

HookStep(from, to) == hook = from /\ hook' = to

Signal ==
    /\ HookStep("up", "stop")
    /\ UNCHANGED <<workerVars, poolVars, loopVars, stopper, logVars, latch, container, late, history>>

(* KafkaWorkerManager.stop counts the registered workers... *)
CountWorkers ==
    /\ IF registered = {} THEN HookStep("stop", "hooks") ELSE HookStep("stop", "spawn")
    /\ latch' = Cardinality(registered)
    /\ late' = Worker \ registered
    /\ UNCHANGED <<workerVars, poolVars, loopVars, stopper, logVars, container, history>>

(* ...and makes a thread for each of those it then finds. *)
SpawnStoppers ==
    /\ HookStep("spawn", "await")
    /\ stopper' = [w \in Worker |-> IF w \in registered THEN "halt" ELSE stopper[w]]
    /\ UNCHANGED <<workerVars, poolVars, loopVars, logVars, latch, container, late, history>>

(* Mutant of AwaitLatch: the hook does not wait. *)
PassLatch ==
    /\ HookStep("await", "hooks") /\ cleared' = TRUE
    /\ UNCHANGED <<init, registered, running, loopPool, poolVars, loopVars, stopper, logVars,
                   latch, container, late, history>>

AwaitLatch ==
    /\ latch = 0 /\ HookStep("await", "hooks")
    /\ cleared' = TRUE
    /\ UNCHANGED <<init, registered, running, loopPool, poolVars, loopVars, stopper, logVars,
                   latch, container, late, history>>

(* Deregistration and the delay touch nothing of this model. *)
RunBootHooks ==
    /\ HookStep("hooks", "close")
    /\ UNCHANGED <<workerVars, poolVars, loopVars, stopper, logVars, latch, container, late, history>>

CloseContainer ==
    /\ HookStep("close", "ended") /\ container' = FALSE
    /\ UNCHANGED <<workerVars, poolVars, loopVars, stopper, logVars, latch, late, history>>

(* Mutant of HookRaises: the hook's thread is stuck in its handler. *)
HookSticks ==
    /\ \E step \in {"spawn", "hooks", "close"} : HookStep(step, "stop")
    /\ UNCHANGED <<workerVars, poolVars, loopVars, stopper, logVars, latch, container, late, history>>

(* What a hook or the container raises meets a handler that raises itself, *)
(* on its format string: the rest of doStop is skipped.                    *)
HookRaises ==
    /\ \E step \in {"spawn", "hooks", "close"} : HookStep(step, "raised")
    /\ UNCHANGED <<workerVars, poolVars, loopVars, stopper, logVars, latch, container, late, history>>

(* The JVM halts as soon as its shutdown hook has ended, and with it go    *)
(* the loops that still run and whatever is queued.                        *)
Halt ==
    /\ hook \in {"ended", "raised"} /\ hook' = "halted"
    /\ loop' = [w \in Worker |-> "none"] /\ accepted' = [w \in Worker |-> FALSE]
    /\ tasks' = [w \in Worker |-> 0] /\ entries' = 0
    /\ UNCHANGED <<workerVars, workPool, records, stopper, logOpen, latch, container, late, history>>

-------------------------------------------------------------------------------
InitThread(w) ==
    Register(w) \/ OpenLoopPool(w) \/ OpenWorkPool(w) \/ SetRunning(w) \/ SubmitLoop(w)

LoopThread(w) ==
    \/ Take(w) \/ Handle(w) \/ WorkTimeout(w) \/ LogRecord(w)
    \/ LeaveLoop(w) \/ FinalCommit(w)

StopThread(w) ==
    \/ ClearRunning(w) \/ ShutLoopPool(w) \/ AwaitLoop(w) \/ ShutWorkPool(w) \/ AwaitPool(w)
    \/ StopLogs(w) \/ AwaitLogs(w) \/ CountDown(w)

HookThread ==
    CountWorkers \/ SpawnStoppers \/ AwaitLatch \/ RunBootHooks \/ CloseContainer \/ Halt

ProcessStep ==
    \/ \E w \in Worker : InitThread(w) \/ LoopThread(w) \/ WorkDone(w) \/ StopThread(w)
    \/ WriteEntry \/ Signal \/ HookThread \/ HookRaises

Next == (hook # "halted" /\ ProcessStep) \/ (hook = "halted" /\ UNCHANGED shutdownVars)

(* The threads of the shutdown run, and each of their steps moves hook or  *)
(* stopper; nothing is asked of the handlers, the loops, the log executors *)
(* or the starting workers.                                                *)
Fairness ==
    /\ WF_hook(hook # "halted" /\ HookThread)
    /\ \A w \in Worker : WF_stopper(hook # "halted" /\ StopThread(w))

Spec == Init /\ [][Next]_shutdownVars /\ Fairness

-------------------------------------------------------------------------------
Ended(w) == loop[w] \in {"none", "closed"}

(* A record is settled without onWork only by a worker one of whose waits  *)
(* ran out, or whose flag init set again after its release had cleared it: *)
(* release shuts the pool of the handlers after the loop that feeds it has *)
(* ended, wherever in its start it meets the worker.                       *)
HandledForReal == unworked \subseteq revived \cup hurried

(* The log executors refuse any other worker's entries only when another   *)
(* worker of the process has shut them: a worker's own release does so     *)
(* after its own loop has ended.                                           *)
OwnEntriesKept ==
    \A w \in refused : w \in revived \cup hurried \/ shutter \ {w} # {}

(* When the container closes, and all workers were registered in time,     *)
(* none was revived and no wait ran out, no loop or handler is left and    *)
(* every accepted log entry has been written, by a service that still had  *)
(* its repositories.                                                       *)
QuietClose ==
    ~container /\ late = {} /\ revived = {} /\ hurried = {} =>
        /\ \A w \in Worker : Ended(w) /\ tasks[w] = 0
        /\ entries = 0

(* A JVM that was told to stop does halt, whatever its handlers, its log   *)
(* executors, a failing hook or a worker that is just starting do.         *)
Terminates == hook = "stop" ~> hook = "halted"

(* KafkaWorkerManager waits for all consumers of the container to close;   *)
(* so, unless a bounded wait ran out, none is open when that wait is over. *)
AllClosed == cleared /\ hurried = {} => \A w \in Worker : Ended(w)
===============================================================================
