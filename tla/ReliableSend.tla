----------------------------- MODULE ReliableSend -----------------------------
(***************************************************************************)
(* The producer side: the client's interceptor around the Feign call, the  *)
(* MQ service that hands records to its Kafka producers, the callback      *)
(* tasks that follow a send, and the scheduled compensation task, all over *)
(* the three Mongo collections they share.                                 *)
(*                                                                         *)
(* Every Mongo call is a step of its own: the threads of the callback      *)
(* executor, the scheduler thread and the clients interleave between them. *)
(* A Mongo call may fail without effect ("lost") or take effect and still  *)
(* raise ("unknown").                                                      *)
(***************************************************************************)
EXTENDS Naturals, FiniteSets

CONSTANTS
    Message,     \* message digests, the key of every collection
    Instance,    \* instances of the MQ service
    NoRow,       \* a digest the process log has no row for
    NoInstance,  \* nobody holds the compensation lock
    Kinds,       \* which of sendMQSync and sendMQAsync the clients call
    RetryLimit,  \* checkMessageDeaded: retrytimes > 5
    PageSize,    \* rows per page of the compensation task, 1000 in the code
    FaultLimit,  \* bound on failed Mongo and redis calls
    CrashLimit   \* bound on crashes and interrupts

VARIABLES
    clientPc,    \* where doAround stands for each message
    saved,       \* saveKafkaProcessMsgFlag
    request,     \* the Feign request is under way
    process,     \* kafka_process_msg_log: digest -> row
    msgLog,      \* kafka_msg_log, where every row is NORMAL
    deadLog,     \* the dead letter log
    inKafka,     \* messages the broker holds
    flight,      \* records a producer has accepted and not completed
    tasks,       \* callback tasks, by the Mongo call each makes next
    compPc,      \* where the compensation task stands
    lock,        \* holder of the redis lock of the compensation task
    pageNum,     \* page the compensation task reads next
    todo,        \* rows of the page it has not handled yet
    cur,         \* the row it handles, an in-memory copy
    age,         \* 0: young, 1: older than 6 minutes, 2: older than 15
    attempts,    \* history: calls of doReSend
    faults, crashes

clientVars == <<clientPc, saved, request>>
storeVars  == <<process, msgLog, deadLog>>
sendVars   == <<inKafka, flight, tasks>>
compVars   == <<compPc, lock, pageNum, todo, cur, attempts>>
envVars    == <<age, faults, crashes>>
vars == <<clientVars, storeVars, sendVars, compVars, envVars>>

-------------------------------------------------------------------------------

Status == {"READY", "FAIL", "COMPENSATE", "NORMAL"}
Row == [status : Status, retry : Nat]
Entry == [msg : Message, row : Row]

ASSUME ConstantsOK ==
    /\ NoRow \notin Row
    /\ NoInstance \notin Instance
    /\ Kinds \subseteq {"sync", "async"}
    /\ RetryLimit \in Nat
    /\ PageSize \in Nat \ {0}
    /\ FaultLimit \in Nat
    /\ CrashLimit \in Nat

(* A synchronous send waits for its record and then runs the callback a    *)
(* second time; every other send, compensation included, does not wait.    *)
Flight == Message \X {"sync", "async"}

(* The Mongo call a callback task makes next: a success deletes the row,   *)
(* updates it when nothing was deleted and writes the full log; an error   *)
(* marks the row FAIL.                                                     *)
Task == Message \X {"delete", "update", "log", "fail"}

ClientPc == {"new", "call", "wait", "mark", "resave", "done"}
CompPc == {"idle", "page", "row", "check", "compensate", "send", "verdict",
           "bury", "log", "delete", "unlock"}

Handling == {"check", "compensate", "send", "verdict", "bury", "log", "delete"}

Stored == {m \in Message : process[m] # NoRow}

TypeOK ==
    /\ clientPc \in [Message -> ClientPc]
    /\ saved \in [Message -> BOOLEAN]
    /\ request \in [Message -> BOOLEAN]
    /\ process \in [Message -> Row \cup {NoRow}]
    /\ msgLog \subseteq Message
    /\ deadLog \subseteq Message
    /\ inKafka \subseteq Message
    /\ flight \in [Instance -> [Flight -> Nat]]
    /\ tasks \in [Instance -> [Task -> Nat]]
    /\ compPc \in CompPc
    /\ lock \in Instance \cup {NoInstance}
    /\ compPc # "idle" => lock \in Instance
    /\ pageNum \in Nat \ {0}
    /\ todo \subseteq Entry
    /\ compPc \in Handling => cur \in Entry
    /\ age \in [Message -> 0..2]
    /\ attempts \in [Message -> Nat]
    /\ faults \in 0..FaultLimit
    /\ crashes \in 0..CrashLimit

Init ==
    /\ clientPc = [m \in Message |-> "new"]
    /\ saved = [m \in Message |-> FALSE]
    /\ request = [m \in Message |-> FALSE]
    /\ process = [m \in Message |-> NoRow]
    /\ msgLog = {} /\ deadLog = {} /\ inKafka = {}
    /\ flight = [i \in Instance |-> [f \in Flight |-> 0]]
    /\ tasks = [i \in Instance |-> [t \in Task |-> 0]]
    /\ compPc = "idle" /\ lock = NoInstance /\ pageNum = 1
    /\ todo = {} /\ cur = NoRow
    /\ age = [m \in Message |-> 0]
    /\ attempts = [m \in Message |-> 0]
    /\ faults = 0 /\ crashes = 0

-------------------------------------------------------------------------------
(* The collections.                                                        *)

(* How one remote call ends; each failure is paid from FaultLimit.         *)
Outcome == {"ok", "lost", "unknown"}

Call(o) ==
    /\ o # "ok" => faults < FaultLimit
    /\ faults' = IF o = "ok" THEN faults ELSE faults + 1
    /\ UNCHANGED <<age, crashes>>

Applied(o) == o # "lost"

(* Mutant of SaveRow: the retry count is not part of what is saved. *)
SaveStatusOnly(o, m, row) ==
    process' = IF ~Applied(o) THEN process
               ELSE [process EXCEPT ![m] = [row EXCEPT !.retry = IF @ = 0 \/ process[m] = NoRow
                                                                 THEN 0 ELSE process[m].retry]]

(* save is an upsert of the whole row. *)
SaveRow(o, m, row) == process' = IF Applied(o) THEN [process EXCEPT ![m] = row] ELSE process

(* Mutant of SetStatus: the update is an upsert of the one field. *)
UpsertStatus(o, m, status) ==
    process' = IF ~Applied(o) THEN process
               ELSE IF process[m] = NoRow THEN [process EXCEPT ![m] = [status |-> status]]
               ELSE [process EXCEPT ![m].status = status]

(* update and updateById touch the status of a row that exists. *)
SetStatus(o, m, status) ==
    process' = IF Applied(o) /\ process[m] # NoRow
               THEN [process EXCEPT ![m].status = status] ELSE process

DeleteRow(o, m) == process' = IF Applied(o) THEN [process EXCEPT ![m] = NoRow] ELSE process

Add(o, log, m) == IF Applied(o) THEN log \cup {m} ELSE log

-------------------------------------------------------------------------------
(* The client: one call of sendMQSync or sendMQAsync for each message.     *)

SetPc(m, pc) == clientPc' = [clientPc EXCEPT ![m] = pc]

(* doAround writes the READY row before it lets the call proceed; a Mongo  *)
(* error is swallowed and only remembered.                                 *)
SaveReady(m) == \E o \in Outcome :
    /\ clientPc[m] = "new"
    /\ Call(o)
    /\ SaveRow(o, m, [status |-> "READY", retry |-> 0])
    /\ saved' = [saved EXCEPT ![m] = (o = "ok")]
    /\ SetPc(m, "call")
    /\ UNCHANGED <<request, msgLog, deadLog, sendVars, compVars>>

Proceed(m) ==
    /\ clientPc[m] = "call"
    /\ request' = [request EXCEPT ![m] = TRUE]
    /\ SetPc(m, "wait")
    /\ UNCHANGED <<saved, storeVars, sendVars, compVars, envVars>>

(* checkSendMessageFail: no server, connection refused or circuit open. *)
NotSent(m) ==
    /\ clientPc[m] = "call"
    /\ SetPc(m, "mark")
    /\ UNCHANGED <<saved, request, storeVars, sendVars, compVars, envVars>>

(* Any other result, a timeout included, leaves requestLog READY, and then *)
(* the finally block writes nothing.                                       *)
Return(m) ==
    /\ clientPc[m] = "wait"
    /\ SetPc(m, "done")
    /\ UNCHANGED <<saved, request, storeVars, sendVars, compVars, envVars>>

(* Mutant of MarkFail: it does not matter whether the first save worked. *)
MarkOnly(m) == \E o \in Outcome :
    /\ clientPc[m] = "mark"
    /\ Call(o)
    /\ IF process[m] # NoRow /\ process[m].status = "NORMAL"
       THEN UNCHANGED process ELSE SetStatus(o, m, "FAIL")
    /\ SetPc(m, "done")
    /\ UNCHANGED <<saved, request, msgLog, deadLog, sendVars, compVars>>

(* finally: the row becomes FAIL unless it is NORMAL; an exception here    *)
(* also skips the second save.                                             *)
MarkFail(m) == \E o \in Outcome :
    /\ clientPc[m] = "mark"
    /\ Call(o)
    /\ IF process[m] # NoRow /\ process[m].status = "NORMAL"
       THEN UNCHANGED process ELSE SetStatus(o, m, "FAIL")
    /\ SetPc(m, IF o = "ok" /\ ~saved[m] THEN "resave" ELSE "done")
    /\ UNCHANGED <<saved, request, msgLog, deadLog, sendVars, compVars>>

(* finally: when the first save failed the whole row is saved again. *)
SaveFail(m) == \E o \in Outcome :
    /\ clientPc[m] = "resave"
    /\ Call(o)
    /\ SaveRow(o, m, [status |-> "FAIL", retry |-> 0])
    /\ SetPc(m, "done")
    /\ UNCHANGED <<saved, request, msgLog, deadLog, sendVars, compVars>>

ClientCrash(m) ==
    /\ clientPc[m] \notin {"new", "done"} /\ crashes < CrashLimit
    /\ SetPc(m, "done") /\ crashes' = crashes + 1
    /\ UNCHANGED <<saved, request, storeVars, sendVars, compVars, age, faults>>

Client(m) == SaveReady(m) \/ Proceed(m) \/ NotSent(m) \/ Return(m) \/ MarkFail(m) \/ SaveFail(m)

-------------------------------------------------------------------------------
(* The MQ service and its producers.                                       *)

Accepted(i, f) == [flight EXCEPT ![i][f] = @ + 1]
Completed(i, f) == [flight EXCEPT ![i][f] = @ - 1]

(* sendMQ: the producer accepts the record.  The client may have given up. *)
SendMQ(m, i) ==
    /\ request[m]
    /\ request' = [request EXCEPT ![m] = FALSE]
    /\ \E kind \in Kinds : flight' = Accepted(i, <<m, kind>>)
    /\ UNCHANGED <<clientPc, saved, storeVars, inKafka, tasks, compVars, envVars>>

(* The request is lost, or answered by an error: checkParam, a producer    *)
(* that throws, a load balancer that shutdown has cleared.                 *)
RejectRequest(m) ==
    /\ request[m]
    /\ request' = [request EXCEPT ![m] = FALSE]
    /\ UNCHANGED <<clientPc, saved, storeVars, sendVars, compVars, envVars>>

(* onCompletion with metadata and no error.  A synchronous caller that is  *)
(* still waiting submits the same success again; one that has timed out    *)
(* submits a task without metadata, which fails before it writes anything. *)
BrokerAck(m, kind, i) ==
    /\ flight[i][<<m, kind>>] > 0
    /\ flight' = Completed(i, <<m, kind>>)
    /\ inKafka' = inKafka \cup {m}
    /\ \E n \in IF kind = "sync" THEN {1, 2} ELSE {1} :
          tasks' = [tasks EXCEPT ![i][<<m, "delete">>] = @ + n]
    /\ UNCHANGED <<clientVars, storeVars, compVars, envVars>>

(* onCompletion with an error.  The broker may hold the record all the     *)
(* same (its acknowledgement was lost).  Without metadata the task fails   *)
(* on it and writes nothing.                                               *)
BrokerError(m, kind, i) ==
    /\ flight[i][<<m, kind>>] > 0
    /\ flight' = Completed(i, <<m, kind>>)
    /\ \/ /\ inKafka' \in {inKafka, inKafka \cup {m}}
          /\ tasks' = [tasks EXCEPT ![i][<<m, "fail">>] = @ + 1]
       \/ UNCHANGED <<inKafka, tasks>>
    /\ UNCHANGED <<clientVars, storeVars, compVars, envVars>>

-------------------------------------------------------------------------------
(* handle4MessageLog, in the threads of the callback executor.             *)

Start(m, i, step) == tasks[i][<<m, step>>] > 0

Finish(m, i, step) == tasks' = [tasks EXCEPT ![i][<<m, step>>] = @ - 1]

GoOn(m, i, step, next) ==
    tasks' = [[tasks EXCEPT ![i][<<m, step>>] = @ - 1] EXCEPT ![i][<<m, next>>] = @ + 1]

CallbackDelete(m, i) == \E o \in Outcome :
    /\ Start(m, i, "delete")
    /\ Call(o)
    /\ DeleteRow(o, m)
    /\ GoOn(m, i, "delete", IF o = "ok" /\ process[m] # NoRow THEN "log" ELSE "update")
    /\ UNCHANGED <<clientVars, msgLog, deadLog, inKafka, flight, compVars>>

CallbackUpdate(m, i) == \E o \in Outcome :
    /\ Start(m, i, "update")
    /\ Call(o)
    /\ SetStatus(o, m, "NORMAL")
    /\ IF o = "ok" THEN GoOn(m, i, "update", "log") ELSE Finish(m, i, "update")
    /\ UNCHANGED <<clientVars, msgLog, deadLog, inKafka, flight, compVars>>

CallbackLog(m, i) == \E o \in Outcome :
    /\ Start(m, i, "log")
    /\ Call(o)
    /\ msgLog' = Add(o, msgLog, m)
    /\ Finish(m, i, "log")
    /\ UNCHANGED <<clientVars, process, deadLog, inKafka, flight, compVars>>

(* Mutant of CallbackFail: the task does not look at the error. *)
CallbackIgnoresError(m, i) == \E o \in Outcome :
    /\ Start(m, i, "fail")
    /\ Call(o)
    /\ DeleteRow(o, m)
    /\ GoOn(m, i, "fail", "log")
    /\ UNCHANGED <<clientVars, msgLog, deadLog, inKafka, flight, compVars>>

CallbackFail(m, i) == \E o \in Outcome :
    /\ Start(m, i, "fail")
    /\ Call(o)
    /\ SetStatus(o, m, "FAIL")
    /\ Finish(m, i, "fail")
    /\ UNCHANGED <<clientVars, msgLog, deadLog, inKafka, flight, compVars>>

Callback(m, i) ==
    CallbackDelete(m, i) \/ CallbackUpdate(m, i) \/ CallbackLog(m, i) \/ CallbackFail(m, i)

-------------------------------------------------------------------------------
(* onWork, the compensation task, on the instance that holds the lock.     *)

(* Mutants of CheckMessageDeaded: one retry less; COMPENSATE forgotten. *)
DeadOneEarly(e) ==
    \/ e.row.status \in {"FAIL", "COMPENSATE"} /\ (e.row.retry >= RetryLimit \/ age[e.msg] = 2)
    \/ e.row.status = "READY" /\ age[e.msg] = 2

CompensateNeverDies(e) ==
    \/ e.row.status = "FAIL" /\ (e.row.retry > RetryLimit \/ age[e.msg] = 2)
    \/ e.row.status = "READY" /\ age[e.msg] = 2

CheckMessageDeaded(e) ==
    \/ e.row.status \in {"FAIL", "COMPENSATE"} /\ (e.row.retry > RetryLimit \/ age[e.msg] = 2)
    \/ e.row.status = "READY" /\ age[e.msg] = 2

(* Mutant of ShouldReSend: the check for death is dropped. *)
ReSendDeadToo(e) ==
    \/ e.row.status = "FAIL"
    \/ e.row.status = "READY" /\ age[e.msg] >= 1

ShouldReSend(e) ==
    /\ ~CheckMessageDeaded(e)
    /\ \/ e.row.status = "FAIL"
       \/ e.row.status = "READY" /\ age[e.msg] >= 1

(* tryLock succeeds; or redis takes the key and its answer is lost, which  *)
(* acquireLock turns into a failure: the key is nobody's until it expires. *)
TryLock(i) == \E o \in {"ok", "unknown"} :
    /\ compPc = "idle" /\ lock = NoInstance
    /\ Call(o)
    /\ compPc' = IF o = "ok" THEN "page" ELSE "idle"
    /\ lock' = i
    /\ UNCHANGED <<pageNum, todo, cur, attempts, clientVars, storeVars, sendVars>>

(* findByPage skips by count and asks for no order, so any rows may fill   *)
(* the page.  An empty page, or a query that fails, ends the run.          *)
Rest(n) == IF n > (pageNum - 1) * PageSize THEN n - (pageNum - 1) * PageSize ELSE 0

Pages == {S \in SUBSET Stored :
             LET rest == Rest(Cardinality(Stored))
             IN Cardinality(S) = IF rest < PageSize THEN rest ELSE PageSize}

QueryPage == \E o \in {"ok", "lost"} :
    /\ compPc = "page"
    /\ Call(o)
    /\ \E S \in IF o = "ok" THEN Pages ELSE {{}} :
          /\ todo' = {[msg |-> m, row |-> process[m]] : m \in S}
          /\ compPc' = IF S = {} THEN "unlock" ELSE "row"
    /\ pageNum' = pageNum + 1
    /\ UNCHANGED <<lock, cur, attempts, clientVars, storeVars, sendVars>>

Interrupted ==
    /\ compPc = "page" /\ crashes < CrashLimit
    /\ compPc' = "unlock" /\ crashes' = crashes + 1
    /\ UNCHANGED <<lock, pageNum, todo, cur, attempts, age, faults,
                   clientVars, storeVars, sendVars>>

(* handeMsgLog, one row.  doReSend starts by counting the retry in memory. *)
HandleRow == \E e \in todo :
    /\ compPc = "row"
    /\ todo' = todo \ {e}
    /\ LET resend == ShouldReSend(e) IN
       /\ compPc' = IF e.row.status = "NORMAL" THEN "log"
                    ELSE IF resend THEN "check" ELSE "verdict"
       /\ cur' = IF resend THEN [e EXCEPT !.row.retry = @ + 1] ELSE e
       /\ attempts' = IF resend THEN [attempts EXCEPT ![e.msg] = @ + 1] ELSE attempts
    /\ UNCHANGED <<lock, pageNum, clientVars, storeVars, sendVars, envVars>>

EndPage ==
    /\ compPc = "row" /\ todo = {}
    /\ compPc' = "page"
    /\ UNCHANGED <<lock, pageNum, todo, cur, attempts,
                   clientVars, storeVars, sendVars, envVars>>

(* The copy goes out of scope when its row is done with. *)
Step(pc) == compPc' = pc /\ cur' = IF pc = "row" THEN NoRow ELSE cur

(* doReSend looks the row up again: none, or NORMAL, is not sent. *)
CheckStatus == \E o \in {"ok", "lost"} :
    /\ compPc = "check"
    /\ Call(o)
    /\ IF o = "ok" /\ process[cur.msg] # NoRow /\ process[cur.msg].status # "NORMAL"
       THEN /\ compPc' = "compensate"
            /\ cur' = [cur EXCEPT !.row.status = "COMPENSATE"]
       ELSE /\ compPc' = "verdict"
            /\ UNCHANGED cur
    /\ UNCHANGED <<lock, pageNum, todo, attempts, clientVars, storeVars, sendVars>>

(* The in-memory copy is saved over whatever is there by now, and the      *)
(* message is sent whether or not the save worked.                         *)
SaveCompensate == \E o \in Outcome :
    /\ compPc = "compensate"
    /\ Call(o)
    /\ SaveRow(o, cur.msg, cur.row)
    /\ compPc' = "send"
    /\ UNCHANGED <<lock, pageNum, todo, cur, attempts, clientVars, msgLog, deadLog, sendVars>>

CompensateSendMQ ==
    /\ compPc = "send"
    /\ Step("verdict")
    /\ \/ flight' = Accepted(lock, <<cur.msg, "async">>)
       \/ UNCHANGED flight
    /\ UNCHANGED <<lock, pageNum, todo, attempts, clientVars, storeVars,
                   inKafka, tasks, envVars>>

Verdict ==
    /\ compPc = "verdict"
    /\ Step(IF CheckMessageDeaded(cur) THEN "bury" ELSE "row")
    /\ UNCHANGED <<lock, pageNum, todo, attempts,
                   clientVars, storeVars, sendVars, envVars>>

(* saveDeadedMessage: the row is deleted only after its copy is saved. *)
SaveDeaded == \E o \in Outcome :
    /\ compPc = "bury"
    /\ Call(o)
    /\ deadLog' = Add(o, deadLog, cur.msg)
    /\ Step(IF o = "ok" THEN "delete" ELSE "row")
    /\ UNCHANGED <<lock, pageNum, todo, attempts, clientVars, process, msgLog, sendVars>>

(* processNormalMessage: likewise, with the full log. *)
SaveNormal == \E o \in Outcome :
    /\ compPc = "log"
    /\ Call(o)
    /\ msgLog' = Add(o, msgLog, cur.msg)
    /\ Step(IF o = "ok" THEN "delete" ELSE "row")
    /\ UNCHANGED <<lock, pageNum, todo, attempts, clientVars, process, deadLog, sendVars>>

DeleteProcessMessage == \E o \in Outcome :
    /\ compPc = "delete"
    /\ Call(o)
    /\ DeleteRow(o, cur.msg)
    /\ Step("row")
    /\ UNCHANGED <<lock, pageNum, todo, attempts, clientVars, msgLog, deadLog, sendVars>>

(* unlock swallows a redis failure and leaves the key behind. *)
Unlock == \E o \in Outcome :
    /\ compPc = "unlock"
    /\ Call(o)
    /\ compPc' = "idle" /\ pageNum' = 1
    /\ lock' = IF Applied(o) THEN NoInstance ELSE lock
    /\ UNCHANGED <<todo, cur, attempts, clientVars, storeVars, sendVars>>

Compensation ==
    \/ QueryPage \/ HandleRow \/ EndPage \/ CheckStatus \/ SaveCompensate
    \/ CompensateSendMQ \/ Verdict \/ SaveDeaded \/ SaveNormal
    \/ DeleteProcessMessage \/ Unlock

-------------------------------------------------------------------------------
(* The environment.                                                        *)

(* An instance dies with its records in flight, some of which the broker   *)
(* has, with its callback tasks and with the run of the compensation task, *)
(* whose lock stays in redis.                                              *)
Crash(i) ==
    /\ crashes < CrashLimit
    /\ crashes' = crashes + 1
    /\ \E S \in SUBSET {m \in Message : \E kind \in {"sync", "async"} : flight[i][<<m, kind>>] > 0} :
          inKafka' = inKafka \cup S
    /\ flight' = [flight EXCEPT ![i] = [f \in Flight |-> 0]]
    /\ tasks' = [tasks EXCEPT ![i] = [t \in Task |-> 0]]
    /\ IF lock = i THEN compPc' = "idle" /\ pageNum' = 1 /\ todo' = {} /\ cur' = NoRow
                   ELSE UNCHANGED <<compPc, pageNum, todo, cur>>
    /\ UNCHANGED <<lock, attempts, clientVars, storeVars, age, faults>>

(* The key of a lock nobody will release expires.  How long that takes is  *)
(* left open; no run of the task outlives its key.                         *)
LockExpire ==
    /\ compPc = "idle" /\ lock # NoInstance
    /\ lock' = NoInstance
    /\ UNCHANGED <<compPc, pageNum, todo, cur, attempts,
                   clientVars, storeVars, sendVars, envVars>>

(* The clock runs from the creation of the message. *)
Age(m) ==
    /\ clientPc[m] # "new" /\ age[m] < 2
    /\ age' = [age EXCEPT ![m] = @ + 1]
    /\ UNCHANGED <<clientVars, storeVars, sendVars, compVars, faults, crashes>>

Next ==
    \/ \E m \in Message :
          \/ Client(m) \/ ClientCrash(m) \/ RejectRequest(m) \/ Age(m)
          \/ \E i \in Instance :
                \/ SendMQ(m, i) \/ Callback(m, i)
                \/ \E kind \in {"sync", "async"} : BrokerAck(m, kind, i) \/ BrokerError(m, kind, i)
    \/ \E i \in Instance : TryLock(i) \/ Crash(i)
    \/ Compensation \/ Interrupted \/ LockExpire

Spec == Init /\ [][Next]_vars

(* Threads run on once started, the scheduler fires every two seconds, a   *)
(* producer completes every record (delivery.timeout.ms), every request is *)
(* handled or lost, the clock runs and redis expires keys.  Nobody has to  *)
(* send a message, and nothing has to fail.                                *)
Fairness ==
    /\ \A m \in Message :
          /\ WF_vars(Client(m) /\ clientPc[m] # "new")
          /\ WF_vars(RejectRequest(m) \/ \E i \in Instance : SendMQ(m, i))
          /\ WF_vars(Age(m))
          /\ \A i \in Instance :
                /\ WF_vars(CallbackDelete(m, i))
                /\ WF_vars(CallbackUpdate(m, i))
                /\ WF_vars(CallbackLog(m, i))
                /\ WF_vars(CallbackFail(m, i))
                /\ \A kind \in {"sync", "async"} :
                      WF_vars(BrokerAck(m, kind, i) \/ BrokerError(m, kind, i))
    /\ WF_vars(Compensation)
    /\ WF_vars(\E i \in Instance : TryLock(i))
    /\ WF_vars(LockExpire)

FairSpec == Spec /\ Fairness

-------------------------------------------------------------------------------
(* Safety.                                                                 *)

(* A message whose row the client managed to save is never lost: until the *)
(* broker or the dead letter log holds it the process log still has its    *)
(* row, whatever callbacks, compensation runs and crashes do to that row.  *)
Tracked == \A m \in Message : saved[m] => process[m] # NoRow \/ m \in inKafka \cup deadLog

(* The message of a call that did not go out is lost only if two writes    *)
(* fail, or one and the client: a client whose first save raised leaves it *)
(* untracked only by a step that goes wrong as well (the finally block of  *)
(* doAround).  KeepsPromise says that what is tracked stays so.            *)
UnsentIsKept ==
    [][\A m \in Message : clientPc[m] \in {"mark", "resave"} /\ clientPc'[m] = "done"
          => \/ process'[m] # NoRow \/ m \in inKafka' \cup deadLog'
             \/ ~saved[m] /\ faults' + crashes' > faults + crashes]_vars

(* NORMAL ("sent") is only ever said of a message the broker holds, in the *)
(* process log and in the full log (SenderCallback, processNormalMessage). *)
NormalIsSent == \A m \in Message :
    /\ process[m] # NoRow => (process[m].status = "NORMAL" => m \in inKafka)
    /\ m \in msgLog => m \in inKafka

(* checkMessageDeaded buries nothing early: a message in the dead letter   *)
(* log is older than 15 minutes or was resent more often than the limit.   *)
NoPrematureDeath == \A m \in deadLog : age[m] = 2 \/ attempts[m] > RetryLimit

(* The retry limit holds although the count lives in a row that callbacks  *)
(* delete and stale copies overwrite: an attempt beyond it took a crash or *)
(* a failed call.  A failed save costs two: its own count, and the count   *)
(* that a late success of another copy of the message makes the task lose. *)
BoundedAttempts == \A m \in Message :
    saved[m] => attempts[m] <= RetryLimit + 1 + 2 * faults + crashes

(* Death is final: a message in the dead letter log is resent only if two  *)
(* things went wrong, one to keep its count low and one to keep its row.   *)
DeathIsFinal ==
    [][\A m \in deadLog : saved[m] /\ attempts'[m] # attempts[m] => faults + crashes >= 2]_vars

(* Nothing leaves the process log unless the broker or the dead letter log *)
(* holds it: the pipeline implements the outbox.                           *)
Promise == INSTANCE Outbox WITH owed <- Stored, delivered <- inKafka, dead <- deadLog
KeepsPromise == Promise!Spec

-------------------------------------------------------------------------------
(* The inductive invariants the proofs rest on.                            *)

(* Whoever is about to erase a row, or to call it NORMAL, has evidence:    *)
(* a success callback of the broker's acknowledgement, the compensation    *)
(* task of a NORMAL copy or of an entry in one of the logs.                *)
Evidence ==
    /\ NormalIsSent
    /\ \A m \in Message, i \in Instance : \A step \in {"delete", "update", "log"} :
          Start(m, i, step) => m \in inKafka
    /\ \A e \in todo : e.row.status = "NORMAL" => e.msg \in inKafka
    /\ compPc = "compensate" => cur.row.status = "COMPENSATE"
    /\ compPc = "log" => cur.msg \in inKafka
    /\ compPc = "delete" => cur.msg \in inKafka \cup deadLog

(* No copy of a retry count, in the store or in memory, exceeds the number *)
(* of attempts, and the verdict of death still stands when it is carried   *)
(* out: clock and count only grow.                                         *)
CountsBelow(m, row) == row.retry <= attempts[m]

Counted ==
    /\ NoPrematureDeath
    /\ \A m \in Stored : CountsBelow(m, process[m])
    /\ \A e \in todo : CountsBelow(e.msg, e.row)
    /\ compPc \in Handling => CountsBelow(cur.msg, cur.row)
    /\ compPc = "bury" => CheckMessageDeaded(cur)

-------------------------------------------------------------------------------
(* Liveness.                                                               *)

(* The process log drains: in the end every row has been settled and no    *)
(* late callback or stale copy brings it back.                             *)
Drains == \A m \in Message : <>[](process[m] = NoRow)
===============================================================================
