------------------------------- MODULE Producers -------------------------------
(***************************************************************************)
(* The producers of mq-service and their shutdown.  A request for a        *)
(* message takes a producer from the balancer and sends; the shutdown hook *)
(* meanwhile flushes, closes and removes one producer after another, then  *)
(* the container closes and with it the executor in which the callbacks do *)
(* their work on the logs.  What that work does is ReliableSend's subject. *)
(***************************************************************************)
EXTENDS Integers

CONSTANTS
    Request,    \* requests, one for each message
    Async,      \* those that call sendMQAsync or compensateSendMQ
    Producer,   \* the KafkaProducers of KafkaProducerManager
    None        \* no request has chosen a producer, no producer is being closed

ASSUME ProducersConstantsOK == Async \subseteq Request /\ None \notin Producer

VARIABLES
    call,       \* where the thread of a request stands
    chosen,     \* the producer it got from the balancer
    targets,    \* the producers the balancer still has
    balancer,   \* is the field loadBalancer set
    closed,     \* producers on which close has been called
    inFlight,   \* records a producer has accepted and not completed
    tasks,      \* callback tasks queued or running, by record
    worked,     \* records a callback task of which has run
    executor,   \* does the callback executor accept tasks
    hook,       \* where the shutdown hook stands
    closing,    \* the producer it is closing
    flushing,   \* the records flush waits for
    raised,     \* history: a producer failed to flush or close
    hurried     \* history: the wait for the callback tasks ran out

requestVars == <<call, chosen>>
producerVars == <<closed, inFlight>>
taskVars == <<tasks, worked>>
hookState == <<targets, balancer, executor, hook, closing, flushing, raised, hurried>>
producersVars == <<requestVars, producerVars, taskVars, hookState>>

CallPc == {"get", "send", "wait", "ok", "error"}
HookPc == {"up", "next", "flush", "close", "end", "tasks", "ended", "halted"}

ProducersTypeOK ==
    /\ call \in [Request -> CallPc] /\ chosen \in [Request -> Producer \cup {None}]
    /\ targets \subseteq Producer /\ balancer \in BOOLEAN
    /\ closed \subseteq Producer /\ inFlight \in [Producer -> SUBSET Request]
    /\ tasks \in [Request -> Nat] /\ worked \subseteq Request /\ executor \in BOOLEAN
    /\ hook \in HookPc /\ closing \in Producer \cup {None} /\ flushing \subseteq Request
    /\ hook \in {"flush", "close"} => closing \in Producer
    /\ raised \in BOOLEAN /\ hurried \in BOOLEAN

ProducersInit ==
    /\ call = [r \in Request |-> "get"] /\ chosen = [r \in Request |-> None]
    /\ targets = Producer /\ balancer = TRUE
    /\ closed = {} /\ inFlight = [p \in Producer |-> {}]
    /\ tasks = [r \in Request |-> 0] /\ worked = {} /\ executor = TRUE
    /\ hook = "up" /\ closing = None /\ flushing = {}
    /\ raised = FALSE /\ hurried = FALSE

-------------------------------------------------------------------------------
(* KafkaProducerManager.sendMQ, in the thread of a request. *)

CallStep(r, from, to) == call[r] = from /\ call' = [call EXCEPT ![r] = to]

(* The key's hash decides, so any producer of the list may come out.  The  *)
(* list is emptied, and the field set to null, without the balancer's      *)
(* lock: an index of a moment ago, an empty list and a null all raise.     *)
Get(r) ==
    /\ \/ /\ balancer
          /\ \E p \in targets : chosen' = [chosen EXCEPT ![r] = p]
          /\ CallStep(r, "get", "send")
       \/ /\ ~balancer \/ targets = {} \/ targets # Producer
          /\ CallStep(r, "get", "error") /\ UNCHANGED chosen
    /\ UNCHANGED <<producerVars, taskVars, hookState>>

(* A producer that is being closed raises; any other may, when it cannot   *)
(* serialise the record, has no metadata or room, or is interrupted.  An   *)
(* asynchronous request is answered once the producer has the record.      *)
Send(r) ==
    /\ \/ /\ CallStep(r, "send", "error") /\ UNCHANGED inFlight
       \/ /\ CallStep(r, "send", IF r \in Async THEN "ok" ELSE "wait") /\ chosen[r] \notin closed
          /\ inFlight' = [inFlight EXCEPT ![chosen[r]] = @ \cup {r}]
    /\ UNCHANGED <<chosen, closed, taskVars, hookState>>

(* SenderCallback.handle4MessageLog: an executor that is shut drops it. *)
SubmitTask(r) == tasks' = IF executor THEN [tasks EXCEPT ![r] = @ + 1] ELSE tasks

(* Mutant of Complete: the record stays with the producer. *)
CompleteKeeps(p, r) ==
    /\ r \in inFlight[p] /\ tasks[r] = 0
    /\ SubmitTask(r)
    /\ UNCHANGED <<requestVars, producerVars, worked, hookState>>

(* The producer's own thread completes a record, by the broker's answer or *)
(* its time limit: first the callback, then the future.                    *)
Complete(p, r) ==
    /\ r \in inFlight[p]
    /\ inFlight' = [inFlight EXCEPT ![p] = @ \ {r}]
    /\ SubmitTask(r)
    /\ UNCHANGED <<requestVars, closed, worked, hookState>>

(* A synchronous request runs the callback once more. *)
Return(r) ==
    /\ CallStep(r, "wait", "ok") /\ r \notin inFlight[chosen[r]]
    /\ SubmitTask(r)
    /\ UNCHANGED <<chosen, producerVars, worked, hookState>>

(* Mutant of Timeout: the send is tried again. *)
TimeoutRetries(r) ==
    /\ CallStep(r, "wait", "get")
    /\ UNCHANGED <<chosen, producerVars, taskVars, hookState>>

(* It does so, too, when it has waited long enough; that task raises at    *)
(* its first line, for want of metadata, and the request is answered ok.   *)
Timeout(r) ==
    /\ CallStep(r, "wait", "ok")
    /\ UNCHANGED <<chosen, producerVars, taskVars, hookState>>

(* Mutant of RunTask: tasks are run without being taken from the queue. *)
RunAnyway(r) ==
    /\ call[r] # "get" /\ tasks' = [tasks EXCEPT ![r] = @ - 1]
    /\ worked' = worked \cup {r}
    /\ UNCHANGED <<requestVars, producerVars, hookState>>

RunTask(r) ==
    /\ tasks[r] > 0 /\ tasks' = [tasks EXCEPT ![r] = @ - 1]
    /\ worked' = worked \cup {r}
    /\ UNCHANGED <<requestVars, producerVars, hookState>>

-------------------------------------------------------------------------------
(* StopKafkaProducerHook and the end of the container. *)

HookStep(from, to) == hook = from /\ hook' = to

Signal ==
    /\ HookStep("up", "next")
    /\ UNCHANGED <<requestVars, producerVars, taskVars, targets, balancer, executor, closing,
                   flushing, raised, hurried>>

(* flush waits for what the producer has at this moment. *)
NextProducer ==
    /\ HookStep("next", "flush")
    /\ \E p \in targets : closing' = p /\ flushing' = inFlight[p]
    /\ UNCHANGED <<requestVars, producerVars, taskVars, targets, balancer, executor, raised, hurried>>

(* close turns new records away and waits for the others. *)
Flushed ==
    /\ HookStep("flush", "close") /\ flushing \cap inFlight[closing] = {}
    /\ closed' = closed \cup {closing} /\ flushing' = {}
    /\ UNCHANGED <<requestVars, inFlight, taskVars, targets, balancer, executor, closing,
                   raised, hurried>>

(* Mutant of Closed: close does not wait. *)
ClosedAtOnce ==
    /\ HookStep("close", "next") /\ targets' = targets \ {closing} /\ closing' = None
    /\ UNCHANGED <<requestVars, producerVars, taskVars, balancer, executor, flushing, raised, hurried>>

Closed ==
    /\ HookStep("close", "next") /\ inFlight[closing] = {}
    /\ targets' = targets \ {closing} /\ closing' = None
    /\ UNCHANGED <<requestVars, producerVars, taskVars, balancer, executor, flushing, raised, hurried>>

(* What flush or close raises is caught outside the loop. *)
ProducerRaises ==
    /\ \E step \in {"flush", "close"} : HookStep(step, "end")
    /\ balancer' = FALSE /\ raised' = TRUE /\ closing' = None /\ flushing' = {}
    /\ UNCHANGED <<requestVars, producerVars, taskVars, targets, executor, hurried>>

NoneLeft ==
    /\ targets = {} /\ HookStep("next", "end") /\ balancer' = FALSE
    /\ UNCHANGED <<requestVars, producerVars, taskVars, targets, executor, closing,
                   flushing, raised, hurried>>

(* The container closes; requests may still be on their way. *)
ShutExecutor ==
    /\ HookStep("end", "tasks") /\ executor' = FALSE
    /\ UNCHANGED <<requestVars, producerVars, taskVars, targets, balancer, closing,
                   flushing, raised, hurried>>

AwaitTasks ==
    /\ HookStep("tasks", "ended")
    /\ \/ (\A r \in Request : tasks[r] = 0) /\ UNCHANGED hurried
       \/ (\E r \in Request : tasks[r] > 0) /\ hurried' = TRUE
    /\ UNCHANGED <<requestVars, producerVars, taskVars, targets, balancer, executor, closing,
                   flushing, raised>>

Halt ==
    /\ HookStep("ended", "halted")
    /\ UNCHANGED <<requestVars, producerVars, taskVars, targets, balancer, executor, closing,
                   flushing, raised, hurried>>

-------------------------------------------------------------------------------
RequestThread(r) == Get(r) \/ Send(r) \/ Return(r) \/ Timeout(r)
HookThread == NextProducer \/ Flushed \/ Closed \/ NoneLeft \/ ShutExecutor \/ AwaitTasks \/ Halt
ServiceStep ==
    \/ \E r \in Request : RunTask(r) \/ \E p \in Producer : Complete(p, r)
    \/ Signal \/ HookThread \/ ProducerRaises

-------------------------------------------------------------------------------
Accepted(r) == call[r] \in {"ok", "wait"}

(* When the service has stopped, no producer raised and the wait for the   *)
(* callbacks did not run out, the callback of every record that was ever   *)
(* accepted has been at the logs: neither the order of the shutdown nor a  *)
(* request that sends in the middle of it loses one.                       *)
WorkedAtEnd ==
    hook \in {"ended", "halted"} /\ ~raised /\ ~hurried =>
        \A r \in Request : Accepted(r) => r \in worked
===============================================================================
