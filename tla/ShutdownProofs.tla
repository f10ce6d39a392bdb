---------------------------- MODULE ShutdownProofs ----------------------------
(***************************************************************************)
(* Machine-checked proofs about Shutdown, for any workers and any number   *)
(* of records.                                                             *)
(***************************************************************************)
EXTENDS Shutdown, FiniteSetTheorems, TLAPS

-------------------------------------------------------------------------------
(* Every action keeps the program counters, pools and counters of the      *)
(* worker process in their sets.                                           *)
LEMMA TypeStep == ASSUME TypeOK, [Next]_shutdownVars PROVE TypeOK'
<1> USE DEF TypeOK, InitPc, LoopPc, StopPc, HookPc, Pool, 
          shutdownVars, workerVars, poolVars, loopVars, logVars, hookVars, history
<1>1. CASE UNCHANGED shutdownVars
  BY <1>1
<1>2. ASSUME NEW w \in Worker, Register(w) PROVE TypeOK'
  BY <1>2 DEF Register, InitStep
<1>3. ASSUME NEW w \in Worker, OpenLoopPool(w) PROVE TypeOK'
  BY <1>3 DEF OpenLoopPool, InitStep
<1>4. ASSUME NEW w \in Worker, OpenWorkPool(w) PROVE TypeOK'
  BY <1>4 DEF OpenWorkPool, InitStep
<1>5. ASSUME NEW w \in Worker, SetRunning(w) PROVE TypeOK'
  BY <1>5 DEF SetRunning, InitStep
<1>6. ASSUME NEW w \in Worker, SubmitLoop(w) PROVE TypeOK'
  BY <1>6 DEF SubmitLoop, InitStep
<1>7. ASSUME NEW w \in Worker, Take(w) PROVE TypeOK'
  BY <1>7 DEF Take, LoopStep
<1>8. ASSUME NEW w \in Worker, Handle(w) PROVE TypeOK'
  BY <1>8 DEF Handle, LoopStep
<1>9. ASSUME NEW w \in Worker, WorkTimeout(w) PROVE TypeOK'
  BY <1>9 DEF WorkTimeout, LoopStep
<1>10. ASSUME NEW w \in Worker, LogRecord(w) PROVE TypeOK'
  BY <1>10 DEF LogRecord, LoopStep, SubmitEntry
<1>11. ASSUME NEW w \in Worker, LeaveLoop(w) PROVE TypeOK'
  BY <1>11 DEF LeaveLoop, LoopStep
<1>12. ASSUME NEW w \in Worker, FinalCommit(w) PROVE TypeOK'
  BY <1>12 DEF FinalCommit, LoopStep, SubmitEntry
<1>13. ASSUME NEW w \in Worker, WorkDone(w) PROVE TypeOK'
  <2>1. tasks' \in [Worker -> Nat]
    BY <1>13 DEF WorkDone
  <2>2. loop' \in [Worker -> LoopPc] /\ accepted' \in [Worker -> BOOLEAN]
    <3>1. CASE accepted' = [accepted EXCEPT ![w] = FALSE] /\ LoopStep(w, "wait", "log")
      BY <3>1 DEF LoopStep
    <3>2. CASE UNCHANGED <<loop, accepted>>
      BY <3>2
    <3>3. QED
      BY <1>13, <3>1, <3>2, Zenon DEF WorkDone
  <2>3. QED
    BY <1>13, <2>1, <2>2 DEF WorkDone
<1>14. ASSUME NEW w \in Worker, ClearRunning(w) PROVE TypeOK'
  BY <1>14 DEF ClearRunning, StopStep
<1>15. ASSUME NEW w \in Worker, ShutLoopPool(w) PROVE TypeOK'
  BY <1>15 DEF ShutLoopPool, StopStep
<1>16. ASSUME NEW w \in Worker, AwaitLoop(w) PROVE TypeOK'
  BY <1>16 DEF AwaitLoop, Wait, StopStep
<1>17. ASSUME NEW w \in Worker, ShutWorkPool(w) PROVE TypeOK'
  BY <1>17 DEF ShutWorkPool, StopStep
<1>18. ASSUME NEW w \in Worker, AwaitPool(w) PROVE TypeOK'
  BY <1>18 DEF AwaitPool, Wait, StopStep
<1>19. ASSUME NEW w \in Worker, StopLogs(w) PROVE TypeOK'
  BY <1>19 DEF StopLogs, StopStep
<1>20. ASSUME NEW w \in Worker, AwaitLogs(w) PROVE TypeOK'
  BY <1>20 DEF AwaitLogs, Wait, StopStep
<1>21. ASSUME NEW w \in Worker, CountDown(w) PROVE TypeOK'
  BY <1>21 DEF CountDown, StopStep
<1>22. CASE WriteEntry
  BY <1>22 DEF WriteEntry
<1>23. CASE Signal
  BY <1>23 DEF Signal, HookStep
<1>24. CASE CountWorkers
  <2>1. latch' \in Nat
    BY <1>24, ShutdownConstantsOK, FS_Subset, FS_CardinalityType DEF CountWorkers, ShutdownConstantsOK
  <2>2. QED
    BY <1>24, <2>1 DEF CountWorkers, HookStep
<1>25. CASE SpawnStoppers
  BY <1>25 DEF SpawnStoppers, HookStep
<1>26. CASE AwaitLatch
  BY <1>26 DEF AwaitLatch, HookStep
<1>27. CASE RunBootHooks
  BY <1>27 DEF RunBootHooks, HookStep
<1>28. CASE CloseContainer
  BY <1>28 DEF CloseContainer, HookStep
<1>29. CASE Halt
  BY <1>29 DEF Halt
<1>30. CASE HookRaises
  BY <1>30 DEF HookRaises, HookStep
<1>31. QED
    BY <1>1, <1>2, <1>3, <1>4, <1>5, <1>6, <1>7, <1>8, <1>9, <1>10, <1>11,
     <1>12, <1>13, <1>14, <1>15, <1>16, <1>17, <1>18, <1>19, <1>20, <1>21,
     <1>22, <1>23, <1>24, <1>25, <1>26, <1>27, <1>28, <1>29, <1>30
     DEF Next, ProcessStep, InitThread, LoopThread, StopThread, HookThread

LEMMA ShutdownTypeInit == Init => TypeOK
<1> SUFFICES ASSUME Init PROVE TypeOK
  OBVIOUS
<1>1. running \in [Worker -> BOOLEAN] /\ accepted \in [Worker -> BOOLEAN]
  BY Zenon DEF Init
<1>2. records \in [Worker -> Nat]
  BY ShutdownConstantsOK DEF Init, ShutdownConstantsOK
<1>3. QED
  BY <1>1, <1>2 DEF Init, TypeOK, InitPc, LoopPc, StopPc, HookPc, Pool

(* The program counters and counters of a worker process stay in their     *)
(* sets, whatever its threads, its handlers and a failing hook do.         *)
THEOREM ShutdownTypeCorrect == Spec => []TypeOK
BY ShutdownTypeInit, TypeStep, PTL DEF Spec

-------------------------------------------------------------------------------
Excused == revived \cup hurried

(* A worker's loop runs only after its thread has made both pools, and a   *)
(* worker that has its pools is registered.                                *)
StartOrder ==
    \A w \in Worker :
        /\ loop[w] # "none" => init[w] = "started"
        /\ init[w] \in {"workers", "start", "submit", "started"} => loopPool[w] # "none"
        /\ init[w] \in {"start", "submit", "started"} => workPool[w] # "none"
        /\ init[w] \notin {"configure", "failed"} => w \in registered

(* Workers are stopped after the hook has counted them, a pool is open     *)
(* until its worker's release has come to it, and a loop that is submitted *)
(* after that meets a pool that is shut.                                   *)
StopOrder ==
    /\ hook \in {"up", "stop"} => late = {}
    /\ hook \in {"up", "stop", "spawn"} => \A w \in Worker : stopper[w] = "none"
    /\ hook \notin {"up", "stop"} => Worker \ late \subseteq registered
    /\ \A w \in Worker :
          /\ workPool[w] = "shut" => stopper[w] \in {"poolEnd", "log", "logEnd", "count", "done"}
          /\ workPool[w] = "none" => tasks[w] = 0
          /\ /\ init[w] \in {"submit", "started"} /\ w \notin revived
             /\ stopper[w] \notin {"none", "halt", "loop"}
             => loopPool[w] = "shut"

(* A release that is past the loop and was neither undone nor in a hurry   *)
(* has left no loop behind, and no task once it is past the worker pool.   *)
LoopFirst ==
    \A w \in Worker \ Excused :
        /\ stopper[w] \in {"pool", "poolEnd", "log", "logEnd", "count", "done"} => Ended(w)
        /\ loop[w] = "wait" => accepted[w]
        /\ stopper[w] \in {"log", "logEnd", "count", "done"} => tasks[w] = 0

(* Who shut the log executors did so last. *)
LogsLast ==
    /\ logOpen <=> shutter = {}
    /\ \A w \in Worker : w \in shutter <=> stopper[w] \in {"logEnd", "count", "done"}
    /\ \A w \in Worker \ hurried : stopper[w] \in {"count", "done"} => entries = 0
    /\ Worker = {} => entries = 0

Order == StartOrder /\ StopOrder /\ LoopFirst /\ LogsLast /\ HandledForReal /\ OwnEntriesKept

LEMMA OrderStep == ASSUME TypeOK, Order, [Next]_shutdownVars PROVE Order'
<1> USE DEF Order, StartOrder, StopOrder, LoopFirst, LogsLast, HandledForReal, OwnEntriesKept,
          Excused, Ended, TypeOK, InitPc, LoopPc, StopPc, HookPc, Pool,
          shutdownVars, workerVars, poolVars, loopVars, logVars, hookVars, history
<1>1. CASE UNCHANGED shutdownVars
  BY <1>1
<1>2. ASSUME NEW w \in Worker, Register(w) PROVE Order'
  BY <1>2 DEF Register, InitStep
<1>3. ASSUME NEW w \in Worker, OpenLoopPool(w) PROVE Order'
  BY <1>3 DEF OpenLoopPool, InitStep
<1>4. ASSUME NEW w \in Worker, OpenWorkPool(w) PROVE Order'
  BY <1>4 DEF OpenWorkPool, InitStep
<1>5. ASSUME NEW w \in Worker, SetRunning(w) PROVE Order'
  BY <1>5 DEF SetRunning, InitStep
<1>6. ASSUME NEW w \in Worker, SubmitLoop(w) PROVE Order'
  BY <1>6 DEF SubmitLoop, InitStep
<1>7. ASSUME NEW w \in Worker, Take(w) PROVE Order'
  BY <1>7 DEF Take, LoopStep
<1>8. ASSUME NEW w \in Worker, Handle(w) PROVE Order'
  <2>1. w \notin Excused => workPool[w] = "open"
    BY <1>8 DEF Handle, LoopStep
  <2>2. w \notin Excused => accepted' = [accepted EXCEPT ![w] = TRUE]
    BY <1>8, <2>1 DEF Handle
  <2>3. \A v \in Worker \ {w} : accepted'[v] = accepted[v] /\ tasks'[v] = tasks[v]
    BY <1>8 DEF Handle
  <2>4. LoopFirst'
    BY <1>8, <2>1, <2>2, <2>3 DEF Handle, LoopStep
  <2>5. QED
    BY <1>8, <2>4 DEF Handle, LoopStep
<1>9. ASSUME NEW w \in Worker, WorkTimeout(w) PROVE Order'
  BY <1>9 DEF WorkTimeout, LoopStep
<1>10. ASSUME NEW w \in Worker, LogRecord(w) PROVE Order'
  BY <1>10 DEF LogRecord, LoopStep, SubmitEntry
<1>11. ASSUME NEW w \in Worker, LeaveLoop(w) PROVE Order'
  BY <1>11 DEF LeaveLoop, LoopStep
<1>12. ASSUME NEW w \in Worker, FinalCommit(w) PROVE Order'
  BY <1>12 DEF FinalCommit, LoopStep, SubmitEntry
<1>13. ASSUME NEW w \in Worker, WorkDone(w) PROVE Order'
  BY <1>13 DEF WorkDone, LoopStep
<1>14. ASSUME NEW w \in Worker, ClearRunning(w) PROVE Order'
  BY <1>14 DEF ClearRunning, StopStep
<1>15. ASSUME NEW w \in Worker, ShutLoopPool(w) PROVE Order'
  BY <1>15 DEF ShutLoopPool, StopStep
<1>16. ASSUME NEW w \in Worker, AwaitLoop(w) PROVE Order'
  BY <1>16 DEF AwaitLoop, Wait, StopStep
<1>17. ASSUME NEW w \in Worker, ShutWorkPool(w) PROVE Order'
  BY <1>17 DEF ShutWorkPool, StopStep
<1>18. ASSUME NEW w \in Worker, AwaitPool(w) PROVE Order'
  BY <1>18 DEF AwaitPool, Wait, StopStep
<1>19. ASSUME NEW w \in Worker, StopLogs(w) PROVE Order'
  BY <1>19 DEF StopLogs, StopStep
<1>20. ASSUME NEW w \in Worker, AwaitLogs(w) PROVE Order'
  BY <1>20 DEF AwaitLogs, Wait, StopStep
<1>21. ASSUME NEW w \in Worker, CountDown(w) PROVE Order'
  BY <1>21 DEF CountDown, StopStep
<1>22. CASE WriteEntry
  BY <1>22 DEF WriteEntry
<1>23. CASE Signal
  BY <1>23 DEF Signal, HookStep
<1>24. CASE CountWorkers
  BY <1>24 DEF CountWorkers, HookStep
<1>25. CASE SpawnStoppers
  BY <1>25 DEF SpawnStoppers, HookStep
<1>26. CASE AwaitLatch
  BY <1>26 DEF AwaitLatch, HookStep
<1>27. CASE RunBootHooks
  BY <1>27 DEF RunBootHooks, HookStep
<1>28. CASE CloseContainer
  BY <1>28 DEF CloseContainer, HookStep
<1>29. CASE Halt
  BY <1>29 DEF Halt
<1>30. CASE HookRaises
  BY <1>30 DEF HookRaises, HookStep
<1>31. QED
    BY <1>1, <1>2, <1>3, <1>4, <1>5, <1>6, <1>7, <1>8, <1>9, <1>10, <1>11,
     <1>12, <1>13, <1>14, <1>15, <1>16, <1>17, <1>18, <1>19, <1>20, <1>21,
     <1>22, <1>23, <1>24, <1>25, <1>26, <1>27, <1>28, <1>29, <1>30
     DEF Next, ProcessStep, InitThread, LoopThread, StopThread, HookThread

-------------------------------------------------------------------------------
Pending == {w \in Worker : stopper[w] # "done"}

(* When no worker was late, the latch counts those that are not yet        *)
(* stopped, so the hook goes on only when all of them are.                 *)
LatchCounts ==
    /\ ~container => hook \in {"ended", "halted"}
    /\ late = {} =>
         /\ hook = "spawn" => latch = Cardinality(Worker)
         /\ hook = "await" => latch = Cardinality(Pending)
         /\ hook \in {"hooks", "close", "ended"} \/ ~container => \A w \in Worker : stopper[w] = "done"

LEMMA EveryoneRegistered ==
    ASSUME TypeOK, Order, late = {}, hook \notin {"up", "stop"} PROVE registered = Worker
BY DEF TypeOK, Order, StopOrder

LEMMA PendingFinite == IsFiniteSet(Pending) /\ Cardinality(Pending) \in Nat
BY ShutdownConstantsOK, FS_Subset, FS_CardinalityType DEF Pending, ShutdownConstantsOK

LEMMA OneLess ==
    ASSUME NEW w \in Pending
    PROVE Cardinality(Pending \ {w}) = Cardinality(Pending) - 1 /\ Cardinality(Pending) > 0
<1>1. Cardinality(Pending \ {w}) = Cardinality(Pending) - 1
  BY PendingFinite, FS_RemoveElement
<1>2. Cardinality(Pending) # 0
  BY PendingFinite, FS_EmptySet
<1>3. QED
  BY <1>1, <1>2, PendingFinite

LEMMA LatchStep == ASSUME TypeOK, Order, LatchCounts, [Next]_shutdownVars PROVE LatchCounts'
<1> USE DEF LatchCounts, Pending, TypeOK, InitPc, LoopPc, StopPc, HookPc, Pool,
          shutdownVars, workerVars, poolVars, loopVars, logVars, hookVars, history
<1>1. CASE UNCHANGED shutdownVars
  BY <1>1
<1>2. ASSUME NEW w \in Worker, Register(w) PROVE LatchCounts'
  BY <1>2 DEF Register, InitStep
<1>3. ASSUME NEW w \in Worker, OpenLoopPool(w) PROVE LatchCounts'
  BY <1>3 DEF OpenLoopPool, InitStep
<1>4. ASSUME NEW w \in Worker, OpenWorkPool(w) PROVE LatchCounts'
  BY <1>4 DEF OpenWorkPool, InitStep
<1>5. ASSUME NEW w \in Worker, SetRunning(w) PROVE LatchCounts'
  BY <1>5 DEF SetRunning, InitStep
<1>6. ASSUME NEW w \in Worker, SubmitLoop(w) PROVE LatchCounts'
  BY <1>6 DEF SubmitLoop, InitStep
<1>7. ASSUME NEW w \in Worker, Take(w) PROVE LatchCounts'
  BY <1>7 DEF Take, LoopStep
<1>8. ASSUME NEW w \in Worker, Handle(w) PROVE LatchCounts'
  BY <1>8 DEF Handle, LoopStep
<1>9. ASSUME NEW w \in Worker, WorkTimeout(w) PROVE LatchCounts'
  BY <1>9 DEF WorkTimeout, LoopStep
<1>10. ASSUME NEW w \in Worker, LogRecord(w) PROVE LatchCounts'
  BY <1>10 DEF LogRecord, LoopStep, SubmitEntry
<1>11. ASSUME NEW w \in Worker, LeaveLoop(w) PROVE LatchCounts'
  BY <1>11 DEF LeaveLoop, LoopStep
<1>12. ASSUME NEW w \in Worker, FinalCommit(w) PROVE LatchCounts'
  BY <1>12 DEF FinalCommit, LoopStep, SubmitEntry
<1>13. ASSUME NEW w \in Worker, WorkDone(w) PROVE LatchCounts'
  BY <1>13 DEF WorkDone, LoopStep
<1>14. ASSUME NEW w \in Worker, ClearRunning(w) PROVE LatchCounts'
  <2>1. Pending' = Pending
    BY <1>14 DEF ClearRunning, StopStep
  <2>2. QED
    BY <1>14, <2>1 DEF ClearRunning, StopStep
<1>15. ASSUME NEW w \in Worker, ShutLoopPool(w) PROVE LatchCounts'
  <2>1. Pending' = Pending
    BY <1>15 DEF ShutLoopPool, StopStep
  <2>2. QED
    BY <1>15, <2>1 DEF ShutLoopPool, StopStep
<1>16. ASSUME NEW w \in Worker, AwaitLoop(w) PROVE LatchCounts'
  <2>1. Pending' = Pending
    BY <1>16 DEF AwaitLoop, Wait, StopStep
  <2>2. QED
    BY <1>16, <2>1 DEF AwaitLoop, Wait, StopStep
<1>17. ASSUME NEW w \in Worker, ShutWorkPool(w) PROVE LatchCounts'
  <2>1. Pending' = Pending
    BY <1>17 DEF ShutWorkPool, StopStep
  <2>2. QED
    BY <1>17, <2>1 DEF ShutWorkPool, StopStep
<1>18. ASSUME NEW w \in Worker, AwaitPool(w) PROVE LatchCounts'
  <2>1. Pending' = Pending
    BY <1>18 DEF AwaitPool, Wait, StopStep
  <2>2. QED
    BY <1>18, <2>1 DEF AwaitPool, Wait, StopStep
<1>19. ASSUME NEW w \in Worker, StopLogs(w) PROVE LatchCounts'
  <2>1. Pending' = Pending
    BY <1>19 DEF StopLogs, StopStep
  <2>2. QED
    BY <1>19, <2>1 DEF StopLogs, StopStep
<1>20. ASSUME NEW w \in Worker, AwaitLogs(w) PROVE LatchCounts'
  <2>1. Pending' = Pending
    BY <1>20 DEF AwaitLogs, Wait, StopStep
  <2>2. QED
    BY <1>20, <2>1 DEF AwaitLogs, Wait, StopStep
<1>21. ASSUME NEW w \in Worker, CountDown(w) PROVE LatchCounts'
  <2>1. Pending' = Pending \ {w} /\ w \in Pending
    BY <1>21 DEF CountDown, StopStep
  <2> HIDE DEF Pending
  <2>2. Cardinality(Pending \ {w}) = Cardinality(Pending) - 1 /\ Cardinality(Pending) > 0
    BY <2>1, OneLess
  <2>3. QED
    BY <1>21, <2>1, <2>2, PendingFinite DEF CountDown, StopStep, Order, StopOrder
<1>22. CASE WriteEntry
  BY <1>22 DEF WriteEntry
<1>23. CASE Signal
  BY <1>23 DEF Signal, HookStep
<1>24. CASE CountWorkers
  <2>1. late' = {} => registered = Worker
    BY <1>24 DEF CountWorkers
  <2>2. registered = {} /\ late' = {} => Worker = {}
    BY <2>1
  <2>3. QED
    BY <1>24, <2>1, <2>2 DEF CountWorkers, HookStep, Order, StopOrder
<1>25. CASE SpawnStoppers
  <2>1. late = {} => registered = Worker
    BY <1>25, EveryoneRegistered DEF SpawnStoppers, HookStep
  <2>2. late = {} => Pending' = Worker
    BY <1>25, <2>1 DEF SpawnStoppers
  <2>3. QED
    BY <1>25, <2>2 DEF SpawnStoppers, HookStep
<1>26. CASE AwaitLatch
  <2>1. late = {} => Pending = {}
    BY <1>26, PendingFinite, FS_EmptySet DEF AwaitLatch, HookStep
  <2>2. QED
    BY <1>26, <2>1 DEF AwaitLatch, HookStep
<1>27. CASE RunBootHooks
  BY <1>27 DEF RunBootHooks, HookStep
<1>28. CASE CloseContainer
  BY <1>28 DEF CloseContainer, HookStep
<1>29. CASE Halt
  BY <1>29 DEF Halt
<1>30. CASE HookRaises
  BY <1>30 DEF HookRaises, HookStep
<1>31. QED
    BY <1>1, <1>2, <1>3, <1>4, <1>5, <1>6, <1>7, <1>8, <1>9, <1>10, <1>11,
     <1>12, <1>13, <1>14, <1>15, <1>16, <1>17, <1>18, <1>19, <1>20, <1>21,
     <1>22, <1>23, <1>24, <1>25, <1>26, <1>27, <1>28, <1>29, <1>30
     DEF Next, ProcessStep, InitThread, LoopThread, StopThread, HookThread

-------------------------------------------------------------------------------
SInv == TypeOK /\ Order /\ LatchCounts

LEMMA SInvHolds == Spec => []SInv
<1>1. Init => SInv
  <2> SUFFICES ASSUME Init PROVE SInv
    OBVIOUS
  <2>1. TypeOK
    BY ShutdownTypeInit
  <2>2. Order
    BY DEF Init, Order, StartOrder, StopOrder, LoopFirst, LogsLast, HandledForReal,
           OwnEntriesKept, Excused, Ended
  <2>3. LatchCounts
    BY DEF Init, LatchCounts
  <2>4. QED
    BY <2>1, <2>2, <2>3 DEF SInv
<1>2. SInv /\ [Next]_shutdownVars => SInv'
  BY TypeStep, OrderStep, LatchStep DEF SInv
<1>3. QED
  BY <1>1, <1>2, PTL DEF Spec

(* A record is settled without onWork only by a worker whose flag was set  *)
(* again after its release had cleared it, or one of whose waits ran out.  *)
THEOREM RecordsAreHandled == Spec => []HandledForReal
<1>1. SInv => HandledForReal
  BY DEF SInv, Order
<1>2. QED
  BY <1>1, SInvHolds, PTL

(* No other worker loses log entries to its own release.                   *)
THEOREM EntriesAreKept == Spec => []OwnEntriesKept
<1>1. SInv => OwnEntriesKept
  BY DEF SInv, Order
<1>2. QED
  BY <1>1, SInvHolds, PTL

(* The container closes on a quiet process if all workers were registered  *)
(* in time, none was revived and no wait ran out.                          *)
THEOREM ClosesQuietly == Spec => []QuietClose
<1>1. SInv => QuietClose
  <2> SUFFICES ASSUME SInv, ~container, late = {}, revived = {}, hurried = {}
               PROVE (\A w \in Worker : Ended(w) /\ tasks[w] = 0) /\ entries = 0
    BY DEF QuietClose
  <2>1. \A w \in Worker : stopper[w] = "done"
    BY DEF SInv, LatchCounts
  <2>2. QED
    BY <2>1 DEF SInv, Order, LoopFirst, LogsLast, Excused
<1>2. QED
  BY <1>1, SInvHolds, PTL

===============================================================================
