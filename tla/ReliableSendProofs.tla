-------------------------- MODULE ReliableSendProofs --------------------------
(***************************************************************************)
(* Proofs about ReliableSend for every set of messages and instances and   *)
(* every bound.                                                            *)
(***************************************************************************)
EXTENDS ReliableSend, TLAPS

(* A Mongo call on the process log leaves a process log: the three         *)
(* operations of BaseMongoService keep the type of the collection.         *)
LEMMA StoreType ==
    ASSUME TypeOK, NEW o \in Outcome, NEW m \in Message, NEW row \in Row,
           NEW status \in Status,
           SaveRow(o, m, row) \/ SetStatus(o, m, status) \/ DeleteRow(o, m) \/ UNCHANGED process
    PROVE  process' \in [Message -> Row \cup {NoRow}]
  <1>1. process \in [Message -> Row \cup {NoRow}]
    BY DEF TypeOK
  <1>2. CASE SaveRow(o, m, row)
    BY <1>1, <1>2 DEF SaveRow
  <1>3. CASE SetStatus(o, m, status)
    <2>1. ASSUME process[m] # NoRow
          PROVE  [process[m] EXCEPT !.status = status] \in Row
      BY <1>1, <2>1 DEF Row, Status
    <2>2. QED
      BY <1>1, <1>3, <2>1 DEF SetStatus
  <1>4. CASE DeleteRow(o, m)
    BY <1>1, <1>4 DEF DeleteRow
  <1>5. QED
    BY <1>1, <1>2, <1>3, <1>4

(* What a remote call may do to the fault budget. *)
LEMMA CallType ==
    ASSUME TypeOK, NEW o \in Outcome, Call(o)
    PROVE  faults' \in 0..FaultLimit /\ UNCHANGED <<age, crashes>>
  BY ConstantsOK DEF TypeOK, Call

(* Bags of records and of callback tasks count up and, where there is      *)
(* something to take, down.                                                *)
LEMMA BagType ==
    ASSUME NEW B, NEW bag \in [Instance -> [B -> Nat]], NEW i \in Instance, NEW b \in B,
           NEW n \in Nat
    PROVE  /\ [bag EXCEPT ![i][b] = @ + n] \in [Instance -> [B -> Nat]]
           /\ bag[i][b] > 0 => [bag EXCEPT ![i][b] = @ - 1] \in [Instance -> [B -> Nat]]
  <1>1. [bag[i] EXCEPT ![b] = @ + n] \in [B -> Nat]
    OBVIOUS
  <1>2. bag[i][b] > 0 => [bag[i] EXCEPT ![b] = @ - 1] \in [B -> Nat]
    OBVIOUS
  <1>3. QED
    BY <1>1, <1>2

LEMMA BagCount ==
    ASSUME NEW B, NEW bag \in [Instance -> [B -> Nat]], NEW i \in Instance, NEW b \in B,
           NEW j \in Instance, NEW c \in B, j # i \/ c # b
    PROVE  /\ \A n \in Nat : [bag EXCEPT ![i][b] = @ + n][j][c] = bag[j][c]
           /\ [bag EXCEPT ![i][b] = @ - 1][j][c] = bag[j][c]
  OBVIOUS

(* A task that goes on to its next call is taken out under one name and    *)
(* put back under another.                                                 *)
LEMMA GoOnType ==
    ASSUME TypeOK, NEW m \in Message, NEW i \in Instance,
           NEW step \in {"delete", "update", "log", "fail"},
           NEW next \in {"delete", "update", "log", "fail"},
           Start(m, i, step), GoOn(m, i, step, next)
    PROVE  tasks' \in [Instance -> [Task -> Nat]]
  <1> DEFINE less == [tasks EXCEPT ![i][<<m, step>>] = @ - 1]
  <1>1. <<m, step>> \in Task /\ <<m, next>> \in Task
    BY DEF Task
  <1>2. tasks \in [Instance -> [Task -> Nat]]
    BY DEF TypeOK
  <1>3. less \in [Instance -> [Task -> Nat]]
    BY <1>1, <1>2, BagType DEF Start
  <1>4. [less EXCEPT ![i][<<m, next>>] = @ + 1] \in [Instance -> [Task -> Nat]]
    BY <1>1, <1>3, BagType
  <1>5. tasks' = [less EXCEPT ![i][<<m, next>>] = @ + 1]
    BY DEF GoOn
  <1>6. QED
    BY <1>4, <1>5

LEMMA FinishType ==
    ASSUME TypeOK, NEW m \in Message, NEW i \in Instance,
           NEW step \in {"delete", "update", "log", "fail"},
           Start(m, i, step), Finish(m, i, step)
    PROVE  tasks' \in [Instance -> [Task -> Nat]]
  <1>1. <<m, step>> \in Task
    BY DEF Task
  <1>2. tasks \in [Instance -> [Task -> Nat]]
    BY DEF TypeOK
  <1>3. QED
    BY <1>1, <1>2, BagType DEF Finish, Start

(* The client's steps keep the types. *)
LEMMA ClientTypeOK ==
    ASSUME TypeOK, NEW m \in Message, Client(m) \/ ClientCrash(m) \/ RejectRequest(m)
    PROVE  TypeOK'
  <1>0. [status |-> "READY", retry |-> 0] \in Row /\ [status |-> "FAIL", retry |-> 0] \in Row
    BY DEF Row, Status
  <1>1. CASE SaveReady(m)
    <2>1. PICK o \in Outcome : SaveReady(m)!(o)
      BY <1>1 DEF SaveReady
    <2>2. process' \in [Message -> Row \cup {NoRow}]
      BY <1>0, <2>1, StoreType DEF Status
    <2>3. faults' \in 0..FaultLimit /\ UNCHANGED <<age, crashes>>
      BY <2>1, CallType
    <2>4. QED
      BY <2>1, <2>2, <2>3 DEF TypeOK, SetPc, ClientPc, sendVars, compVars, Handling
  <1>2. CASE Proceed(m)
    BY <1>2 DEF Proceed, SetPc, TypeOK, ClientPc, storeVars, sendVars, compVars, envVars, Handling
  <1>3. CASE NotSent(m)
    BY <1>3 DEF NotSent, SetPc, TypeOK, ClientPc, storeVars, sendVars, compVars, envVars, Handling
  <1>4. CASE Return(m)
    BY <1>4 DEF Return, SetPc, TypeOK, ClientPc, storeVars, sendVars, compVars, envVars, Handling
  <1>5. CASE MarkFail(m)
    <2>1. PICK o \in Outcome : MarkFail(m)!(o)
      BY <1>5 DEF MarkFail
    <2>2. process' \in [Message -> Row \cup {NoRow}]
      BY <1>0, <2>1, StoreType DEF Status
    <2>3. faults' \in 0..FaultLimit /\ UNCHANGED <<age, crashes>>
      BY <2>1, CallType
    <2>4. QED
      BY <2>1, <2>2, <2>3 DEF TypeOK, SetPc, ClientPc, sendVars, compVars, Handling
  <1>6. CASE SaveFail(m)
    <2>1. PICK o \in Outcome : SaveFail(m)!(o)
      BY <1>6 DEF SaveFail
    <2>2. process' \in [Message -> Row \cup {NoRow}]
      BY <1>0, <2>1, StoreType DEF Status
    <2>3. faults' \in 0..FaultLimit /\ UNCHANGED <<age, crashes>>
      BY <2>1, CallType
    <2>4. QED
      BY <2>1, <2>2, <2>3 DEF TypeOK, SetPc, ClientPc, sendVars, compVars, Handling
  <1>7. CASE ClientCrash(m)
    BY <1>7, ConstantsOK
    DEF ClientCrash, SetPc, TypeOK, ClientPc, storeVars, sendVars, compVars, Handling
  <1>8. CASE RejectRequest(m)
    BY <1>8 DEF RejectRequest, TypeOK, storeVars, sendVars, compVars, envVars, Handling
  <1>9. QED
    BY <1>1, <1>2, <1>3, <1>4, <1>5, <1>6, <1>7, <1>8 DEF Client

(* The service, the producers and the callback tasks keep the types. *)
LEMMA SendTypeOK ==
    ASSUME TypeOK, NEW m \in Message, NEW i \in Instance,
           \/ SendMQ(m, i) \/ Callback(m, i)
           \/ \E kind \in {"sync", "async"} : BrokerAck(m, kind, i) \/ BrokerError(m, kind, i)
    PROVE  TypeOK'
  <1> USE DEF Handling
  <1>0. /\ flight \in [Instance -> [Flight -> Nat]]
        /\ tasks \in [Instance -> [Task -> Nat]]
        /\ \A kind \in {"sync", "async"} : <<m, kind>> \in Flight
        /\ \A step \in {"delete", "update", "log", "fail"} : <<m, step>> \in Task
        /\ [status |-> "FAIL", retry |-> 0] \in Row
    BY DEF TypeOK, Flight, Task, Row, Status
  <1>1. CASE SendMQ(m, i)
    <2>1. PICK kind \in Kinds : flight' = Accepted(i, <<m, kind>>)
      BY <1>1 DEF SendMQ
    <2>2. kind \in {"sync", "async"}
      BY ConstantsOK
    <2>3. flight' \in [Instance -> [Flight -> Nat]]
      BY <1>0, <2>1, <2>2, BagType DEF Accepted
    <2>4. QED
      BY <1>1, <2>3 DEF SendMQ, TypeOK, storeVars, compVars, envVars
  <1>3. ASSUME NEW kind \in {"sync", "async"}, BrokerAck(m, kind, i)
        PROVE  TypeOK'
    <2>1. flight' \in [Instance -> [Flight -> Nat]]
      BY <1>0, <1>3, BagType DEF BrokerAck, Completed
    <2>2. PICK n \in {1, 2} : tasks' = [tasks EXCEPT ![i][<<m, "delete">>] = @ + n]
      BY <1>3 DEF BrokerAck
    <2>3. tasks' \in [Instance -> [Task -> Nat]]
      BY <1>0, <2>2, BagType
    <2>4. QED
      BY <1>3, <2>1, <2>3 DEF BrokerAck, TypeOK, clientVars, storeVars, compVars, envVars
  <1>4. ASSUME NEW kind \in {"sync", "async"}, BrokerError(m, kind, i)
        PROVE  TypeOK'
    <2>1. flight' \in [Instance -> [Flight -> Nat]]
      BY <1>0, <1>4, BagType DEF BrokerError, Completed
    <2>2. tasks' \in [Instance -> [Task -> Nat]]
      <3>1. tasks' = tasks \/ tasks' = [tasks EXCEPT ![i][<<m, "fail">>] = @ + 1]
        BY <1>4 DEF BrokerError
      <3>2. [tasks EXCEPT ![i][<<m, "fail">>] = @ + 1] \in [Instance -> [Task -> Nat]]
        BY <1>0, BagType
      <3>3. QED
        BY <1>0, <3>1, <3>2
    <2>3. inKafka' \subseteq Message
      BY <1>4 DEF BrokerError, TypeOK
    <2>4. QED
      BY <1>4, <2>1, <2>2, <2>3 DEF BrokerError, TypeOK, clientVars, storeVars, compVars, envVars
  <1>5. CASE CallbackDelete(m, i)
    <2>1. PICK o \in Outcome : CallbackDelete(m, i)!(o)
      BY <1>5 DEF CallbackDelete
    <2>2. process' \in [Message -> Row \cup {NoRow}]
      BY <2>1 DEF DeleteRow, TypeOK
    <2>3. faults' \in 0..FaultLimit /\ UNCHANGED <<age, crashes>>
      BY <2>1, CallType
    <2>4. tasks' \in [Instance -> [Task -> Nat]]
      BY <2>1, GoOnType
    <2>5. QED
      BY <2>1, <2>2, <2>3, <2>4 DEF TypeOK, clientVars, compVars
  <1>6. CASE CallbackUpdate(m, i)
    <2>1. PICK o \in Outcome : CallbackUpdate(m, i)!(o)
      BY <1>6 DEF CallbackUpdate
    <2>2. process' \in [Message -> Row \cup {NoRow}]
      BY <1>0, <2>1, StoreType DEF Status
    <2>3. faults' \in 0..FaultLimit /\ UNCHANGED <<age, crashes>>
      BY <2>1, CallType
    <2>4. tasks' \in [Instance -> [Task -> Nat]]
      BY <2>1, GoOnType, FinishType
    <2>5. QED
      BY <2>1, <2>2, <2>3, <2>4 DEF TypeOK, clientVars, compVars
  <1>7. CASE CallbackLog(m, i)
    <2>1. PICK o \in Outcome : CallbackLog(m, i)!(o)
      BY <1>7 DEF CallbackLog
    <2>2. faults' \in 0..FaultLimit /\ UNCHANGED <<age, crashes>>
      BY <2>1, CallType
    <2>3. tasks' \in [Instance -> [Task -> Nat]]
      BY <2>1, FinishType
    <2>4. QED
      BY <2>1, <2>2, <2>3 DEF TypeOK, Add, clientVars, compVars
  <1>8. CASE CallbackFail(m, i)
    <2>1. PICK o \in Outcome : CallbackFail(m, i)!(o)
      BY <1>8 DEF CallbackFail
    <2>2. process' \in [Message -> Row \cup {NoRow}]
      BY <1>0, <2>1, StoreType DEF Status
    <2>3. faults' \in 0..FaultLimit /\ UNCHANGED <<age, crashes>>
      BY <2>1, CallType
    <2>4. tasks' \in [Instance -> [Task -> Nat]]
      BY <2>1, FinishType
    <2>5. QED
      BY <2>1, <2>2, <2>3, <2>4 DEF TypeOK, clientVars, compVars
  <1>9. QED
    BY <1>1, <1>3, <1>4, <1>5, <1>6, <1>7, <1>8 DEF Callback

(* The compensation task, the environment and the lock keep the types. *)
LEMMA CompensationTypeOK ==
    ASSUME TypeOK, Compensation \/ Interrupted \/ LockExpire
    PROVE  TypeOK'
  <1> USE DEF Handling, CompPc
  <1>1. CASE QueryPage
    <2>1. PICK o \in {"ok", "lost"} : QueryPage!(o)
      BY <1>1 DEF QueryPage
    <2>2. PICK S \in IF o = "ok" THEN Pages ELSE {{}} :
             /\ todo' = {[msg |-> m, row |-> process[m]] : m \in S}
             /\ compPc' = IF S = {} THEN "unlock" ELSE "row"
      BY <2>1
    <2>3. S \subseteq Stored
      BY <2>2 DEF Pages
    <2>4. todo' \subseteq Entry
      BY <2>2, <2>3 DEF Stored, Entry, TypeOK
    <2>5. faults' \in 0..FaultLimit /\ UNCHANGED <<age, crashes>>
      BY <2>1, CallType DEF Outcome
    <2>6. QED
      BY <2>1, <2>2, <2>4, <2>5 DEF TypeOK, clientVars, storeVars, sendVars
  <1>2. CASE HandleRow
    <2>1. PICK e \in todo : HandleRow!(e)
      BY <1>2 DEF HandleRow
    <2>2. e \in Entry
      BY DEF TypeOK
    <2>3. cur' \in Entry
      <3>1. [e EXCEPT !.row.retry = @ + 1] \in Entry
        BY <2>2 DEF Entry, Row
      <3>2. QED
        BY <2>1, <2>2, <3>1
    <2>4. attempts' \in [Message -> Nat]
      BY <2>1, <2>2 DEF TypeOK, Entry
    <2>5. QED
      BY <2>1, <2>3, <2>4 DEF TypeOK, clientVars, storeVars, sendVars, envVars
  <1>3. CASE EndPage
    BY <1>3 DEF EndPage, TypeOK, clientVars, storeVars, sendVars, envVars
  <1>4. CASE CheckStatus
    <2>1. PICK o \in {"ok", "lost"} : CheckStatus!(o)
      BY <1>4 DEF CheckStatus
    <2>2. cur \in Entry
      BY <2>1 DEF TypeOK
    <2>3. cur' \in Entry
      <3>1. [cur EXCEPT !.row.status = "COMPENSATE"] \in Entry
        BY <2>2 DEF Entry, Row, Status
      <3>2. QED
        BY <2>1, <2>2, <3>1
    <2>4. faults' \in 0..FaultLimit /\ UNCHANGED <<age, crashes>>
      BY <2>1, CallType DEF Outcome
    <2>5. QED
      BY <2>1, <2>3, <2>4 DEF TypeOK, clientVars, storeVars, sendVars
  <1>5. CASE SaveCompensate
    <2>1. PICK o \in Outcome : SaveCompensate!(o)
      BY <1>5 DEF SaveCompensate
    <2>2. cur \in Entry
      BY <2>1 DEF TypeOK
    <2>3. process' \in [Message -> Row \cup {NoRow}]
      BY <2>1, <2>2 DEF SaveRow, TypeOK, Entry
    <2>4. faults' \in 0..FaultLimit /\ UNCHANGED <<age, crashes>>
      BY <2>1, CallType
    <2>5. QED
      BY <2>1, <2>2, <2>3, <2>4 DEF TypeOK, clientVars, sendVars
  <1>6. CASE CompensateSendMQ
    <2>1. cur \in Entry /\ lock \in Instance
      BY <1>6 DEF CompensateSendMQ, TypeOK
    <2>2. <<cur.msg, "async">> \in Flight
      BY <2>1 DEF Entry, Flight
    <2>3. flight' \in [Instance -> [Flight -> Nat]]
      <3>1. flight' = flight \/ flight' = [flight EXCEPT ![lock][<<cur.msg, "async">>] = @ + 1]
        BY <1>6 DEF CompensateSendMQ, Accepted
      <3>2. flight \in [Instance -> [Flight -> Nat]]
        BY DEF TypeOK
      <3>3. [flight EXCEPT ![lock][<<cur.msg, "async">>] = @ + 1] \in [Instance -> [Flight -> Nat]]
        BY <2>1, <2>2, <3>2, BagType
      <3>4. QED
        BY <3>1, <3>2, <3>3
    <2>4. QED
      BY <1>6, <2>1, <2>3
      DEF CompensateSendMQ, Step, TypeOK, clientVars, storeVars, envVars
  <1>7. CASE Verdict
    BY <1>7 DEF Verdict, Step, TypeOK, clientVars, storeVars, sendVars, envVars
  <1>8. CASE SaveDeaded
    <2>1. PICK o \in Outcome : SaveDeaded!(o)
      BY <1>8 DEF SaveDeaded
    <2>2. cur \in Entry /\ cur.msg \in Message
      BY <2>1 DEF TypeOK, Entry
    <2>3. faults' \in 0..FaultLimit /\ UNCHANGED <<age, crashes>>
      BY <2>1, CallType
    <2>4. QED
      BY <2>1, <2>2, <2>3 DEF TypeOK, Step, Add, clientVars, sendVars
  <1>9. CASE SaveNormal
    <2>1. PICK o \in Outcome : SaveNormal!(o)
      BY <1>9 DEF SaveNormal
    <2>2. cur \in Entry /\ cur.msg \in Message
      BY <2>1 DEF TypeOK, Entry
    <2>3. faults' \in 0..FaultLimit /\ UNCHANGED <<age, crashes>>
      BY <2>1, CallType
    <2>4. QED
      BY <2>1, <2>2, <2>3 DEF TypeOK, Step, Add, clientVars, sendVars
  <1>10. CASE DeleteProcessMessage
    <2>1. PICK o \in Outcome : DeleteProcessMessage!(o)
      BY <1>10 DEF DeleteProcessMessage
    <2>2. process' \in [Message -> Row \cup {NoRow}]
      BY <2>1 DEF DeleteRow, TypeOK
    <2>3. faults' \in 0..FaultLimit /\ UNCHANGED <<age, crashes>>
      BY <2>1, CallType
    <2>4. QED
      BY <2>1, <2>2, <2>3 DEF TypeOK, Step, clientVars, sendVars
  <1>11. CASE Unlock
    <2>1. PICK o \in Outcome : Unlock!(o)
      BY <1>11 DEF Unlock
    <2>2. faults' \in 0..FaultLimit /\ UNCHANGED <<age, crashes>>
      BY <2>1, CallType
    <2>3. QED
      BY <2>1, <2>2 DEF TypeOK, clientVars, storeVars, sendVars
  <1>12. CASE Interrupted
    BY <1>12, ConstantsOK DEF Interrupted, TypeOK, clientVars, storeVars, sendVars
  <1>13. CASE LockExpire
    BY <1>13 DEF LockExpire, TypeOK, clientVars, storeVars, sendVars, envVars
  <1>14. QED
    BY <1>1, <1>2, <1>3, <1>4, <1>5, <1>6, <1>7, <1>8, <1>9, <1>10, <1>11, <1>12, <1>13
    DEF Compensation

(* Type correctness: counts of records and tasks never go negative, a run  *)
(* of the compensation task always holds the lock, and it handles rows.    *)
THEOREM TypeCorrect == Spec => []TypeOK
  <1>1. Init => TypeOK
    BY ConstantsOK DEF Init, TypeOK, Handling, CompPc, ClientPc
  <1>2. TypeOK /\ [Next]_vars => TypeOK'
    <2> SUFFICES ASSUME TypeOK, [Next]_vars PROVE TypeOK'
      OBVIOUS
    <2>1. ASSUME NEW i \in Instance, TryLock(i) PROVE TypeOK'
      <3>1. PICK o \in {"ok", "unknown"} : TryLock(i)!(o)
        BY <2>1 DEF TryLock
      <3>2. faults' \in 0..FaultLimit /\ UNCHANGED <<age, crashes>>
        BY <3>1, CallType DEF Outcome
      <3>3. QED
        BY <3>1, <3>2 DEF TypeOK, Handling, CompPc, clientVars, storeVars, sendVars
    <2>2. ASSUME NEW i \in Instance, Crash(i) PROVE TypeOK'
      <3>1. /\ flight' \in [Instance -> [Flight -> Nat]]
            /\ tasks' \in [Instance -> [Task -> Nat]]
        BY <2>2 DEF Crash, TypeOK
      <3>2. inKafka' \subseteq Message
        BY <2>2 DEF Crash, TypeOK
      <3>3. crashes' \in 0..CrashLimit
        BY <2>2, ConstantsOK DEF Crash, TypeOK
      <3>4. QED
        BY <2>2, <3>1, <3>2, <3>3 DEF Crash, TypeOK, Handling, CompPc, clientVars, storeVars
    <2>3. ASSUME NEW m \in Message, Age(m) PROVE TypeOK'
      BY <2>3 DEF Age, TypeOK, Handling, clientVars, storeVars, sendVars, compVars
    <2>4. CASE UNCHANGED vars
      BY <2>4 DEF vars, TypeOK, Handling, clientVars, storeVars, sendVars, compVars, envVars
    <2>5. QED
      BY <2>1, <2>2, <2>3, <2>4, ClientTypeOK, SendTypeOK, CompensationTypeOK DEF Next
  <1>3. QED
    BY <1>1, <1>2, PTL DEF Spec

-------------------------------------------------------------------------------

(* A step of a client writes READY or FAIL, never NORMAL, and erases       *)
(* nothing.                                                                *)
LEMMA ClientEvidence ==
    ASSUME TypeOK, Evidence, NEW m \in Message, Client(m) \/ ClientCrash(m) \/ RejectRequest(m)
    PROVE  /\ Evidence'
           /\ \A x \in Message : process[x] # NoRow => process'[x] # NoRow
           /\ \A x \in Message : saved'[x] => saved[x] \/ process'[x] # NoRow
           /\ UNCHANGED <<inKafka, deadLog>>
  <1> DEFINE Ready == [status |-> "READY", retry |-> 0]
             Fail == [status |-> "FAIL", retry |-> 0]
  <1>0. Ready \in Row /\ Fail \in Row /\ Ready # NoRow /\ Fail # NoRow
    BY ConstantsOK DEF Row, Status
  <1>1. /\ UNCHANGED <<inKafka, deadLog, msgLog, tasks, todo, compPc, cur>>
        /\ \/ UNCHANGED <<process, saved>>
           \/ \E o \in Outcome : SaveReady(m)!(o)
           \/ \E o \in Outcome : SaveRow(o, m, Fail) /\ UNCHANGED saved
           \/ \E o \in Outcome : SetStatus(o, m, "FAIL") /\ UNCHANGED saved
    BY DEF Client, ClientCrash, RejectRequest, SaveReady, Proceed, NotSent, Return, MarkFail,
           SaveFail, clientVars, storeVars, sendVars, compVars, envVars
  <1>2. /\ \A x \in Message : process[x] # NoRow => process'[x] # NoRow
        /\ \A x \in Message : process'[x] # NoRow /\ process'[x].status = "NORMAL"
                                 => process[x] # NoRow /\ process[x].status = "NORMAL"
        /\ \A x \in Message : saved'[x] => saved[x] \/ process'[x] # NoRow
    <2>1. CASE UNCHANGED <<process, saved>>
      BY <2>1
    <2>2. ASSUME NEW o \in Outcome, SaveReady(m)!(o)
          PROVE  <1>2
      BY <1>0, <2>2 DEF SaveRow, Applied, Outcome, TypeOK
    <2>3. ASSUME NEW o \in Outcome, SaveRow(o, m, Fail), UNCHANGED saved
          PROVE  <1>2
      BY <1>0, <2>3 DEF SaveRow, TypeOK
    <2>4. ASSUME NEW o \in Outcome, SetStatus(o, m, "FAIL"), UNCHANGED saved
          PROVE  <1>2
      <3>1. ASSUME process[m] # NoRow
            PROVE  /\ [process[m] EXCEPT !.status = "FAIL"] \in Row
                   /\ [process[m] EXCEPT !.status = "FAIL"].status = "FAIL"
        BY <3>1 DEF TypeOK, Row, Status
      <3>2. QED
        BY <2>4, <3>1, ConstantsOK DEF SetStatus, TypeOK
    <2>5. QED
      BY <1>1, <2>1, <2>2, <2>3, <2>4
  <1>3. QED
    BY <1>1, <1>2 DEF Evidence, NormalIsSent, Start

(* A row that disappears is one the broker or the dead letter log holds. *)
Accounted == \A x \in Message : process[x] # NoRow /\ process'[x] = NoRow => x \in inKafka \cup deadLog

(* How one Mongo call of a callback task changes the rows. *)
LEMMA CallbackStore ==
    ASSUME TypeOK, NEW m \in Message, NEW o \in Outcome,
           NEW status \in {"NORMAL", "FAIL"}, SetStatus(o, m, status)
    PROVE  \A x \in Message :
              /\ process[x] # NoRow <=> process'[x] # NoRow
              /\ process'[x] # process[x] => x = m /\ process'[x].status = status
  <1>1. ASSUME process[m] # NoRow
        PROVE  /\ [process[m] EXCEPT !.status = status] \in Row
               /\ [process[m] EXCEPT !.status = status].status = status
    BY <1>1 DEF TypeOK, Row, Status
  <1>2. QED
    BY <1>1, ConstantsOK DEF SetStatus, TypeOK

(* The broker's acknowledgement is recorded before the callback task that  *)
(* relies on it exists, and the task carries it through its three calls.   *)
LEMMA SendEvidence ==
    ASSUME TypeOK, Evidence, NEW m \in Message, NEW i \in Instance,
           \/ SendMQ(m, i) \/ Callback(m, i)
           \/ \E kind \in {"sync", "async"} : BrokerAck(m, kind, i) \/ BrokerError(m, kind, i)
    PROVE  Evidence' /\ Accounted /\ inKafka \subseteq inKafka' /\ UNCHANGED <<deadLog, saved>>
  <1> DEFINE Steps == {"delete", "update", "log", "fail"}
             Proven == {"delete", "update", "log"}
  <1>0. /\ tasks \in [Instance -> [Task -> Nat]]
        /\ \A x \in Message : \A step \in Steps : <<x, step>> \in Task
    BY DEF TypeOK, Task
  <1>1. CASE SendMQ(m, i)
    BY <1>1 DEF SendMQ, Evidence, NormalIsSent, Start, Accounted, storeVars, compVars
  <1>2. ASSUME NEW kind \in {"sync", "async"}, BrokerAck(m, kind, i)
        PROVE  Evidence' /\ Accounted /\ inKafka \subseteq inKafka' /\ UNCHANGED <<deadLog, saved>>
    <2>1. PICK n \in {1, 2} : tasks' = [tasks EXCEPT ![i][<<m, "delete">>] = @ + n]
      BY <1>2 DEF BrokerAck
    <2>2. \A x \in Message, j \in Instance : \A step \in Proven :
             tasks'[j][<<x, step>>] > 0 => x = m \/ tasks[j][<<x, step>>] > 0
      BY <1>0, <2>1
    <2>3. QED
      BY <1>2, <2>2
      DEF BrokerAck, Evidence, NormalIsSent, Start, Accounted, clientVars, storeVars, compVars
  <1>3. ASSUME NEW kind \in {"sync", "async"}, BrokerError(m, kind, i)
        PROVE  Evidence' /\ Accounted /\ inKafka \subseteq inKafka' /\ UNCHANGED <<deadLog, saved>>
    <2>1. tasks' = tasks \/ tasks' = [tasks EXCEPT ![i][<<m, "fail">>] = @ + 1]
      BY <1>3 DEF BrokerError
    <2>2. \A x \in Message, j \in Instance : \A step \in Proven :
             tasks'[j][<<x, step>>] = tasks[j][<<x, step>>]
      <3> SUFFICES ASSUME NEW x \in Message, NEW j \in Instance, NEW step \in Proven
                   PROVE  tasks'[j][<<x, step>>] = tasks[j][<<x, step>>]
        OBVIOUS
      <3>1. <<x, step>> # <<m, "fail">> /\ <<x, step>> \in Task /\ <<m, "fail">> \in Task
        BY <1>0
      <3>2. QED
        BY <1>0, <2>1, <3>1, BagCount
    <2>3. inKafka \subseteq inKafka'
      BY <1>3 DEF BrokerError
    <2>4. QED
      BY <1>3, <2>2, <2>3
      DEF BrokerError, Evidence, NormalIsSent, Start, Accounted, clientVars, storeVars, compVars
  <1>4. ASSUME NEW step \in Steps, Finish(m, i, step)
        PROVE  \A x \in Message, j \in Instance : \A s \in Proven :
                  Start(x, j, s)' => Start(x, j, s)
    <2> SUFFICES ASSUME NEW x \in Message, NEW j \in Instance, NEW s \in Proven, Start(x, j, s)'
                 PROVE  Start(x, j, s)
      OBVIOUS
    <2>1. <<x, s>> \in Task /\ <<m, step>> \in Task
      BY <1>0
    <2>2. CASE j = i /\ <<x, s>> = <<m, step>>
      <3>1. tasks'[i][<<m, step>>] = tasks[i][<<m, step>>] - 1
        BY <1>0, <1>4, <2>1 DEF Finish
      <3>2. tasks[i][<<m, step>>] \in Nat
        BY <1>0, <2>1
      <3>3. QED
        BY <2>2, <3>1, <3>2 DEF Start
    <2>3. CASE j # i \/ <<x, s>> # <<m, step>>
      BY <1>0, <1>4, <2>1, <2>3, BagCount DEF Finish, Start
    <2>4. QED
      BY <2>2, <2>3
  <1>5. ASSUME NEW step \in Steps, NEW next \in Proven, GoOn(m, i, step, next)
        PROVE  \A x \in Message, j \in Instance : \A s \in Proven :
                  Start(x, j, s)' => x = m \/ Start(x, j, s)
    BY <1>0, <1>5 DEF GoOn, Start
  <1>6. CASE CallbackDelete(m, i)
    <2>1. PICK o \in Outcome : CallbackDelete(m, i)!(o)
      BY <1>6 DEF CallbackDelete
    <2>2. m \in inKafka
      BY <2>1 DEF Evidence
    <2>3. \A x \in Message : process'[x] # process[x] => x = m
      BY <2>1 DEF DeleteRow, TypeOK
    <2>4. QED
      BY <1>5, <2>1, <2>2, <2>3 DEF Evidence, NormalIsSent, Accounted, clientVars, compVars
  <1>7. CASE CallbackUpdate(m, i)
    <2>1. PICK o \in Outcome : CallbackUpdate(m, i)!(o)
      BY <1>7 DEF CallbackUpdate
    <2>2. m \in inKafka
      BY <2>1 DEF Evidence
    <2>3. \A x \in Message : process'[x] # process[x] => x = m
      BY <2>1, CallbackStore
    <2>4. Accounted
      BY <2>1, CallbackStore DEF Accounted
    <2>5. \A x \in Message, j \in Instance : \A s \in Proven :
             Start(x, j, s)' => x = m \/ Start(x, j, s)
      BY <1>4, <1>5, <2>1
    <2>6. QED
      BY <2>1, <2>2, <2>3, <2>4, <2>5 DEF Evidence, NormalIsSent, clientVars, compVars
  <1>8. CASE CallbackLog(m, i)
    <2>1. PICK o \in Outcome : CallbackLog(m, i)!(o)
      BY <1>8 DEF CallbackLog
    <2>2. m \in inKafka
      BY <2>1 DEF Evidence
    <2>3. QED
      BY <1>4, <2>1, <2>2 DEF Evidence, NormalIsSent, Add, Accounted, clientVars, compVars
  <1>9. CASE CallbackFail(m, i)
    <2>1. PICK o \in Outcome : CallbackFail(m, i)!(o)
      BY <1>9 DEF CallbackFail
    <2>2. /\ Accounted
          /\ \A x \in Message : process'[x] # process[x] => process'[x].status = "FAIL"
          /\ \A x \in Message : process'[x] # NoRow => process[x] # NoRow
      BY <2>1, CallbackStore DEF Accounted
    <2>3. \A x \in Message, j \in Instance : \A s \in Proven : Start(x, j, s)' => Start(x, j, s)
      BY <1>4, <2>1
    <2>4. QED
      BY <2>1, <2>2, <2>3 DEF Evidence, NormalIsSent, clientVars, compVars
  <1>10. QED
    BY <1>1, <1>2, <1>3, <1>6, <1>7, <1>8, <1>9 DEF Callback

(* The compensation task erases a row only after the full log or the dead  *)
(* letter log has its message, and the copy it saves is never NORMAL.      *)
LEMMA CompensationEvidence ==
    ASSUME TypeOK, Evidence, Compensation \/ Interrupted \/ LockExpire
    PROVE  /\ Evidence' /\ Accounted /\ deadLog \subseteq deadLog'
           /\ UNCHANGED <<inKafka, saved>>
  <1> DEFINE Goal == /\ Evidence' /\ Accounted /\ deadLog \subseteq deadLog'
                     /\ UNCHANGED <<inKafka, saved>>
  <1> USE DEF Evidence, NormalIsSent, Start, Accounted
  <1>1. CASE QueryPage
    <2>1. PICK o \in {"ok", "lost"} : QueryPage!(o)
      BY <1>1 DEF QueryPage
    <2>2. PICK S \in IF o = "ok" THEN Pages ELSE {{}} :
             /\ todo' = {[msg |-> m, row |-> process[m]] : m \in S}
             /\ compPc' = IF S = {} THEN "unlock" ELSE "row"
      BY <2>1
    <2>3. S \subseteq Stored
      BY <2>2 DEF Pages
    <2>4. \A e \in todo' : e.row.status = "NORMAL" => e.msg \in inKafka
      BY <2>2, <2>3 DEF Stored
    <2>5. QED
      BY <2>1, <2>2, <2>4 DEF clientVars, storeVars, sendVars
  <1>2. CASE HandleRow
    <2>1. PICK e \in todo : HandleRow!(e)
      BY <1>2 DEF HandleRow
    <2>2. compPc' = "log" => cur' = e /\ e.row.status = "NORMAL"
      BY <2>1 DEF ShouldReSend
    <2>3. QED
      BY <2>1, <2>2 DEF clientVars, storeVars, sendVars
  <1>3. CASE EndPage
    BY <1>3 DEF EndPage, clientVars, storeVars, sendVars
  <1>4. CASE CheckStatus
    <2>1. PICK o \in {"ok", "lost"} : CheckStatus!(o)
      BY <1>4 DEF CheckStatus
    <2>2. [cur EXCEPT !.row.status = "COMPENSATE"].row.status = "COMPENSATE"
      BY <2>1 DEF TypeOK, Handling, Entry, Row
    <2>3. QED
      BY <2>1, <2>2 DEF clientVars, storeVars, sendVars
  <1>5. CASE SaveCompensate
    <2>1. PICK o \in Outcome : SaveCompensate!(o)
      BY <1>5 DEF SaveCompensate
    <2>2. cur.row \in Row /\ cur.row # NoRow /\ cur.msg \in Message
      BY <2>1, ConstantsOK DEF TypeOK, Handling, Entry
    <2>3. \A x \in Message :
             process'[x] = process[x] \/ (process'[x] = cur.row /\ cur.row.status = "COMPENSATE")
      BY <2>1, <2>2 DEF SaveRow, TypeOK
    <2>4. QED
      BY <2>1, <2>2, <2>3 DEF clientVars, sendVars
  <1>6. CASE CompensateSendMQ
    BY <1>6 DEF CompensateSendMQ, Step, clientVars, storeVars
  <1>7. CASE Verdict
    BY <1>7 DEF Verdict, Step, clientVars, storeVars, sendVars
  <1>8. CASE SaveDeaded
    <2>1. PICK o \in Outcome : SaveDeaded!(o)
      BY <1>8 DEF SaveDeaded
    <2>2. compPc' = "delete" => cur' = cur /\ cur.msg \in deadLog'
      BY <2>1 DEF Step, Add, Applied
    <2>3. QED
      BY <2>1, <2>2 DEF Step, Add, clientVars, sendVars
  <1>9. CASE SaveNormal
    <2>1. PICK o \in Outcome : SaveNormal!(o)
      BY <1>9 DEF SaveNormal
    <2>2. cur.msg \in inKafka /\ (compPc' = "delete" => cur' = cur)
      BY <2>1 DEF Step
    <2>3. QED
      BY <2>1, <2>2 DEF Step, Add, clientVars, sendVars
  <1>10. CASE DeleteProcessMessage
    <2>1. PICK o \in Outcome : DeleteProcessMessage!(o)
      BY <1>10 DEF DeleteProcessMessage
    <2>2. cur.msg \in inKafka \cup deadLog
      BY <2>1
    <2>3. \A x \in Message : process'[x] # process[x] => x = cur.msg /\ process'[x] = NoRow
      BY <2>1 DEF DeleteRow, TypeOK
    <2>4. QED
      BY <2>1, <2>2, <2>3 DEF Step, clientVars, sendVars
  <1>11. CASE Unlock
    BY <1>11 DEF Unlock, clientVars, storeVars, sendVars
  <1>12. CASE Interrupted
    BY <1>12 DEF Interrupted, clientVars, storeVars, sendVars
  <1>13. CASE LockExpire
    BY <1>13 DEF LockExpire, clientVars, storeVars, sendVars
  <1>14. QED
    BY <1>1, <1>2, <1>3, <1>4, <1>5, <1>6, <1>7, <1>8, <1>9, <1>10, <1>11, <1>12, <1>13
    DEF Compensation

(* A crash takes callback tasks and records away and adds no claim. *)
LEMMA CrashEvidence ==
    ASSUME TypeOK, Evidence, NEW i \in Instance, Crash(i)
    PROVE  Evidence' /\ inKafka \subseteq inKafka' /\ UNCHANGED <<process, deadLog, saved>>
  <1>1. \A m \in Message, j \in Instance : \A step \in {"delete", "update", "log"} :
           Start(m, j, step)' => Start(m, j, step)
    <2> SUFFICES ASSUME NEW m \in Message, NEW j \in Instance,
                        NEW step \in {"delete", "update", "log"}
                 PROVE  tasks'[j][<<m, step>>] > 0 => tasks[j][<<m, step>>] > 0
      BY DEF Start
    <2>1. CASE j = i
      <3>1. <<m, step>> \in Task
        BY DEF Task
      <3>2. \A t \in Task : tasks'[i][t] = 0
        BY DEF Crash, TypeOK
      <3>3. tasks'[j][<<m, step>>] = 0
        BY <2>1, <3>1, <3>2
      <3>4. QED
        BY <3>3
    <2>2. CASE j # i
      <3>1. tasks'[j] = tasks[j]
        BY <2>2 DEF Crash, TypeOK
      <3>2. QED
        BY <3>1
    <2>3. QED
      BY <2>1, <2>2
  <1>2. inKafka \subseteq inKafka'
    BY DEF Crash
  <1>3. QED
    BY <1>1, <1>2 DEF Crash, Evidence, NormalIsSent, clientVars, storeVars

(* What every step does to the promise: a row appears, or it disappears    *)
(* with the message accounted for; nothing is taken back.                  *)
LEMMA StepPromise ==
    ASSUME TypeOK, Evidence, [Next]_vars
    PROVE  /\ Evidence' /\ Accounted
           /\ inKafka \subseteq inKafka' /\ deadLog \subseteq deadLog'
           /\ \A x \in Message : saved'[x] => saved[x] \/ process'[x] # NoRow
  <1> DEFINE Goal == /\ Evidence' /\ Accounted
                     /\ inKafka \subseteq inKafka' /\ deadLog \subseteq deadLog'
                     /\ \A x \in Message : saved'[x] => saved[x] \/ process'[x] # NoRow
  <1>1. ASSUME NEW m \in Message, Client(m) \/ ClientCrash(m) \/ RejectRequest(m)
        PROVE  Goal
    BY <1>1, ClientEvidence DEF Accounted
  <1>2. ASSUME NEW m \in Message, NEW i \in Instance,
               \/ SendMQ(m, i) \/ Callback(m, i)
               \/ \E kind \in {"sync", "async"} : BrokerAck(m, kind, i) \/ BrokerError(m, kind, i)
        PROVE  Goal
    BY <1>2, SendEvidence
  <1>3. CASE Compensation \/ Interrupted \/ LockExpire
    BY <1>3, CompensationEvidence
  <1>4. ASSUME NEW i \in Instance, Crash(i)
        PROVE  Goal
    BY <1>4, CrashEvidence DEF Accounted
  <1>5. ASSUME NEW i \in Instance, TryLock(i)
        PROVE  Goal
    BY <1>5 DEF TryLock, Evidence, NormalIsSent, Start, Accounted, clientVars, storeVars, sendVars
  <1>6. ASSUME NEW m \in Message, Age(m)
        PROVE  Goal
    BY <1>6 DEF Age, Evidence, NormalIsSent, Start, Accounted, clientVars, storeVars, sendVars, compVars
  <1>7. CASE UNCHANGED vars
    BY <1>7 DEF vars, Evidence, NormalIsSent, Start, Accounted, clientVars, storeVars, sendVars, compVars
  <1>8. QED
    BY <1>1, <1>2, <1>3, <1>4, <1>5, <1>6, <1>7 DEF Next

(* Whoever is about to erase a row, or to call it NORMAL, has evidence. *)
THEOREM EvidenceHolds == Spec => []Evidence
  <1>1. Init => Evidence
    BY DEF Init, Evidence, NormalIsSent, Start, Task
  <1>2. TypeOK /\ Evidence /\ [Next]_vars => Evidence'
    BY StepPromise
  <1>3. QED
    BY <1>1, <1>2, TypeCorrect, PTL DEF Spec

(* NORMAL is only said of messages the broker holds. *)
THEOREM SentIsTrue == Spec => []NormalIsSent
  <1>1. Evidence => NormalIsSent
    BY DEF Evidence
  <1>2. QED
    BY <1>1, EvidenceHolds, PTL

(* No message whose row was saved is ever lost. *)
THEOREM NothingLost == Spec => []Tracked
  <1>1. Init => Evidence /\ Tracked
    BY DEF Init, Evidence, NormalIsSent, Start, Task, Tracked
  <1>2. TypeOK /\ Evidence /\ Tracked /\ [Next]_vars => Evidence' /\ Tracked'
    BY StepPromise DEF Tracked, Accounted
  <1>3. QED
    BY <1>1, <1>2, TypeCorrect, PTL DEF Spec

(* What a client does on its way out of the finally block. *)
LEMMA LeavingStep ==
    ASSUME TypeOK, [Next]_vars, NEW m \in Message,
           clientPc[m] \in {"mark", "resave"}, clientPc'[m] = "done"
    PROVE  MarkFail(m) \/ SaveFail(m) \/ ClientCrash(m)
  <1>1. ASSUME NEW x \in Message, Client(x) \/ ClientCrash(x)
        PROVE  x = m
    BY <1>1 DEF Client, ClientCrash, SaveReady, Proceed, NotSent, Return, MarkFail, SaveFail,
                SetPc, TypeOK
  <1>2. \E x \in Message : Client(x) \/ ClientCrash(x)
    <2>1. clientPc' # clientPc
      OBVIOUS
    <2>2. ASSUME NEW x \in Message, RejectRequest(x) \/ Age(x) PROVE FALSE
      BY <2>1, <2>2 DEF RejectRequest, Age, clientVars
    <2>3. ASSUME NEW x \in Message, NEW i \in Instance, SendMQ(x, i) \/ Callback(x, i)
          PROVE  FALSE
      BY <2>1, <2>3 DEF SendMQ, Callback, CallbackDelete, CallbackUpdate, CallbackLog,
                        CallbackFail, clientVars
    <2>4. ASSUME NEW x \in Message, NEW i \in Instance, NEW kind \in {"sync", "async"},
                 BrokerAck(x, kind, i) \/ BrokerError(x, kind, i)
          PROVE  FALSE
      BY <2>1, <2>4 DEF BrokerAck, BrokerError, clientVars
    <2>5. ASSUME NEW i \in Instance, TryLock(i) \/ Crash(i) PROVE FALSE
      BY <2>1, <2>5 DEF TryLock, Crash, clientVars
    <2>6. ~Interrupted /\ ~LockExpire /\ vars' # vars
      BY <2>1 DEF Interrupted, LockExpire, vars, clientVars
    <2>7. ~Compensation
      BY <2>1 DEF Compensation, QueryPage, HandleRow, EndPage, CheckStatus, SaveCompensate,
                  CompensateSendMQ, Verdict, SaveDeaded, SaveNormal, DeleteProcessMessage,
                  Unlock, clientVars
    <2>8. QED
      BY <2>2, <2>3, <2>4, <2>5, <2>6, <2>7 DEF Next
  <1>3. Client(m) \/ ClientCrash(m)
    BY <1>1, <1>2
  <1>4. QED
    BY <1>3 DEF Client, SaveReady, Proceed, NotSent, Return, SetPc, TypeOK

(* A message whose call did not go out gets lost only in a step that goes  *)
(* wrong after the first save went wrong.                                  *)
THEOREM UnsentNotLost == Spec => UnsentIsKept
  <1> DEFINE Kept == \A m \in Message :
                clientPc[m] \in {"mark", "resave"} /\ clientPc'[m] = "done"
                  => \/ process'[m] # NoRow \/ m \in inKafka' \cup deadLog'
                     \/ ~saved[m] /\ faults' + crashes' > faults + crashes
  <1>1. ASSUME TypeOK, Tracked, Tracked', [Next]_vars
        PROVE  Kept
    <2> SUFFICES ASSUME NEW m \in Message,
                        clientPc[m] \in {"mark", "resave"}, clientPc'[m] = "done"
                 PROVE  \/ process'[m] # NoRow \/ m \in inKafka' \cup deadLog'
                        \/ ~saved[m] /\ faults' + crashes' > faults + crashes
      OBVIOUS
    <2>1. faults \in Nat /\ crashes \in Nat
      BY <1>1, ConstantsOK DEF TypeOK
    <2>2. UNCHANGED saved
      BY <1>1, LeavingStep DEF MarkFail, SaveFail, ClientCrash
    <2>3. CASE saved[m]
      BY <1>1, <2>2, <2>3 DEF Tracked
    <2>4. CASE ~saved[m] /\ MarkFail(m)
      <3>1. PICK o \in Outcome : MarkFail(m)!(o)
        BY <2>4 DEF MarkFail
      <3>2. o # "ok"
        BY <1>1, <2>4, <3>1 DEF SetPc, TypeOK
      <3>3. QED
        BY <2>1, <2>4, <3>1, <3>2 DEF Call
    <2>5. CASE ~saved[m] /\ SaveFail(m)
      <3>1. PICK o \in Outcome : SaveFail(m)!(o)
        BY <2>5 DEF SaveFail
      <3>2. CASE o = "ok"
        BY <1>1, <3>1, <3>2, ConstantsOK DEF SaveRow, Applied, Row, Status, TypeOK
      <3>3. CASE o # "ok"
        BY <2>1, <2>5, <3>1, <3>3 DEF Call
      <3>4. QED
        BY <3>2, <3>3
    <2>6. CASE ~saved[m] /\ ClientCrash(m)
      BY <2>1, <2>6 DEF ClientCrash
    <2>7. QED
      BY <1>1, <2>3, <2>4, <2>5, <2>6, LeavingStep
  <1>2. TypeOK /\ Tracked /\ Tracked' /\ [Next]_vars => [Kept]_vars
    BY <1>1
  <1>3. QED
    BY <1>2, TypeCorrect, NothingLost, PTL DEF Spec, UnsentIsKept

-------------------------------------------------------------------------------

(* A step that touches one row and neither log is a step of the outbox:    *)
(* the row is accepted, settled or merely rewritten.                       *)
LEMMA RowStep ==
    ASSUME NEW m \in Message, Accounted, UNCHANGED <<inKafka, deadLog>>,
           \A x \in Message : x # m => process'[x] = process[x]
    PROVE  [Promise!Next]_(Promise!vars)
  <1>1. CASE process[m] = NoRow /\ process'[m] # NoRow
    <2>1. Stored' = Stored \cup {m}
      BY <1>1 DEF Stored
    <2>2. QED
      BY <2>1 DEF Promise!Next, Promise!Accept
  <1>2. CASE process[m] # NoRow /\ process'[m] = NoRow
    <2>1. Stored' = Stored \ {m} /\ m \in inKafka \cup deadLog
      BY <1>2 DEF Stored, Accounted
    <2>2. QED
      BY <2>1 DEF Promise!Next, Promise!Settle
  <1>3. CASE process[m] = NoRow <=> process'[m] = NoRow
    <2>1. Stored' = Stored
      BY <1>3 DEF Stored
    <2>2. QED
      BY <2>1 DEF Promise!vars
  <1>4. QED
    BY <1>1, <1>2, <1>3

(* A step that touches no row and adds to one of the logs. *)
LEMMA LogStep ==
    ASSUME UNCHANGED process,
           \/ UNCHANGED deadLog /\ \E S \in SUBSET Message : inKafka' = inKafka \cup S
           \/ UNCHANGED inKafka /\ \E m \in Message : deadLog' = deadLog \cup {m}
    PROVE  [Promise!Next]_(Promise!vars)
  <1>1. Stored' = Stored
    BY DEF Stored
  <1>2. QED
    BY <1>1 DEF Promise!Next, Promise!Deliver, Promise!Bury

(* Every step of the pipeline is a step of the outbox or a stutter. *)
LEMMA StepRefines ==
    ASSUME TypeOK, Evidence, [Next]_vars
    PROVE  [Promise!Next]_(Promise!vars)
  <1> DEFINE Goal == [Promise!Next]_(Promise!vars)
             Same == UNCHANGED <<process, inKafka, deadLog>>
  <1>0. Accounted /\ (Same => Goal)
    BY StepPromise DEF Promise!vars, Stored
  <1>1. ASSUME NEW m \in Message, Client(m) \/ ClientCrash(m) \/ RejectRequest(m)
        PROVE  Goal
    <2>1. UNCHANGED <<inKafka, deadLog>> /\ \A x \in Message : x # m => process'[x] = process[x]
      BY <1>1 DEF Client, ClientCrash, RejectRequest, SaveReady, Proceed, NotSent, Return,
                  MarkFail, SaveFail, SaveRow, SetStatus, storeVars, sendVars, TypeOK
    <2>2. QED
      BY <1>0, <2>1, RowStep
  <1>2. ASSUME NEW m \in Message, NEW i \in Instance, SendMQ(m, i) \/ Callback(m, i)
        PROVE  Goal
    <2>1. UNCHANGED <<inKafka, deadLog>> /\ \A x \in Message : x # m => process'[x] = process[x]
      BY <1>2 DEF SendMQ, Callback, CallbackDelete, CallbackUpdate, CallbackLog, CallbackFail,
                  DeleteRow, SetStatus, storeVars, TypeOK
    <2>2. QED
      BY <1>0, <2>1, RowStep
  <1>3. ASSUME NEW m \in Message, NEW i \in Instance, NEW kind \in {"sync", "async"},
               BrokerAck(m, kind, i) \/ BrokerError(m, kind, i)
        PROVE  Goal
    <2>1. inKafka' = inKafka \cup {} \/ inKafka' = inKafka \cup {m}
      BY <1>3 DEF BrokerAck, BrokerError
    <2>2. UNCHANGED <<process, deadLog>>
      BY <1>3 DEF BrokerAck, BrokerError, storeVars
    <2>3. QED
      BY <2>1, <2>2, LogStep
  <1>4. CASE SaveCompensate \/ DeleteProcessMessage
    <2>1. cur.msg \in Message
      BY <1>4 DEF SaveCompensate, DeleteProcessMessage, TypeOK, Handling, Entry
    <2>2. UNCHANGED <<inKafka, deadLog>>
      BY <1>4 DEF SaveCompensate, DeleteProcessMessage, sendVars
    <2>3. \A x \in Message : x # cur.msg => process'[x] = process[x]
      BY <1>4, <2>1 DEF SaveCompensate, DeleteProcessMessage, SaveRow, DeleteRow, TypeOK
    <2>4. QED
      BY <1>0, <2>1, <2>2, <2>3, RowStep
  <1>5. CASE SaveDeaded
    <2>1. PICK o \in Outcome : SaveDeaded!(o)
      BY <1>5 DEF SaveDeaded
    <2>2. cur.msg \in Message
      BY <2>1 DEF TypeOK, Handling, Entry
    <2>3. CASE Applied(o)
      BY <2>1, <2>2, <2>3, LogStep DEF Add, sendVars
    <2>4. CASE ~Applied(o)
      BY <1>0, <2>1, <2>4 DEF Add, sendVars
    <2>5. QED
      BY <2>3, <2>4
  <1>6. CASE \/ QueryPage \/ HandleRow \/ EndPage \/ CheckStatus \/ CompensateSendMQ
             \/ Verdict \/ SaveNormal \/ Unlock \/ Interrupted \/ LockExpire
    BY <1>0, <1>6
    DEF QueryPage, HandleRow, EndPage, CheckStatus, CompensateSendMQ, Verdict, SaveNormal,
        Unlock, Interrupted, LockExpire, storeVars, sendVars
  <1>7. ASSUME NEW i \in Instance, Crash(i)
        PROVE  Goal
    <2>1. \E S \in SUBSET Message : inKafka' = inKafka \cup S
      BY <1>7 DEF Crash
    <2>2. UNCHANGED <<process, deadLog>>
      BY <1>7 DEF Crash, storeVars
    <2>3. QED
      BY <2>1, <2>2, LogStep
  <1>8. ASSUME NEW i \in Instance, TryLock(i)
        PROVE  Goal
    BY <1>0, <1>8 DEF TryLock, storeVars, sendVars
  <1>9. ASSUME NEW m \in Message, Age(m)
        PROVE  Goal
    BY <1>0, <1>9 DEF Age, storeVars, sendVars
  <1>10. CASE UNCHANGED vars
    BY <1>0, <1>10 DEF vars, storeVars, sendVars
  <1>11. QED
    BY <1>1, <1>2, <1>3, <1>4, <1>5, <1>6, <1>7, <1>8, <1>9, <1>10 DEF Next, Compensation

(* The pipeline implements the outbox. *)
THEOREM ImplementsOutbox == Spec => KeepsPromise
  <1>1. Init => Evidence /\ Promise!Init
    BY DEF Init, Evidence, NormalIsSent, Start, Task, Promise!Init, Stored
  <1>2. TypeOK /\ Evidence /\ [Next]_vars => Evidence' /\ [Promise!Next]_(Promise!vars)
    BY StepPromise, StepRefines
  <1>3. QED
    BY <1>1, <1>2, TypeCorrect, PTL DEF Spec, KeepsPromise, Promise!Spec

-------------------------------------------------------------------------------

(* A step of a client, a producer or a callback leaves the retry counts    *)
(* alone, or starts a row at zero.                                         *)
LEMMA QuietStep ==
    ASSUME TypeOK, Counted,
           UNCHANGED <<deadLog, compPc, todo, cur, age, attempts>>,
           \A x \in Message : process'[x] # NoRow =>
              \/ process[x] # NoRow /\ process'[x].retry = process[x].retry
              \/ process'[x].retry = 0
    PROVE  Counted'
  <1>1. NoPrematureDeath'
    BY DEF Counted, NoPrematureDeath
  <1>2. \A m \in Stored' : CountsBelow(m, process[m])'
    BY DEF Counted, Stored, CountsBelow, TypeOK
  <1>3. \A e \in todo' : CountsBelow(e.msg, e.row)'
    BY DEF Counted, CountsBelow
  <1>4. (compPc \in Handling => CountsBelow(cur.msg, cur.row))'
    BY DEF Counted, CountsBelow, Handling
  <1>5. (compPc = "bury" => CheckMessageDeaded(cur))'
    BY DEF Counted, CheckMessageDeaded
  <1>6. QED
    BY <1>1, <1>2, <1>3, <1>4, <1>5 DEF Counted

(* A step of the compensation task that counts nothing. *)
LEMMA SettlingStep ==
    ASSUME TypeOK, Counted, UNCHANGED <<age, attempts>>,
           \A x \in Message : process'[x] # NoRow =>
              \/ process[x] # NoRow /\ process'[x].retry = process[x].retry
              \/ CountsBelow(x, process'[x]),
           \A x \in deadLog' : x \in deadLog \/ age[x] = 2 \/ attempts[x] > RetryLimit,
           \A e \in todo' : CountsBelow(e.msg, e.row),
           compPc' \in Handling => CountsBelow(cur'.msg, cur'.row),
           compPc' = "bury" => CheckMessageDeaded(cur')
    PROVE  Counted'
  <1>1. NoPrematureDeath'
    BY DEF Counted, NoPrematureDeath
  <1>2. \A m \in Stored' : CountsBelow(m, process[m])'
    BY DEF Counted, Stored, CountsBelow, TypeOK
  <1>3. \A e \in todo' : CountsBelow(e.msg, e.row)'
    BY DEF CountsBelow
  <1>4. (compPc \in Handling => CountsBelow(cur.msg, cur.row))'
    BY DEF CountsBelow, Handling
  <1>5. (compPc = "bury" => CheckMessageDeaded(cur))'
    BY DEF CheckMessageDeaded
  <1>6. QED
    BY <1>1, <1>2, <1>3, <1>4, <1>5 DEF Counted

(* The clients, the producers and their callbacks. *)
LEMMA QuietActions ==
    ASSUME TypeOK, Counted, NEW m \in Message,
           \/ Client(m) \/ ClientCrash(m) \/ RejectRequest(m)
           \/ \E i \in Instance :
                 \/ SendMQ(m, i) \/ Callback(m, i)
                 \/ \E kind \in {"sync", "async"} : BrokerAck(m, kind, i) \/ BrokerError(m, kind, i)
    PROVE  Counted'
  <1> DEFINE Quiet == \A x \in Message : process'[x] # NoRow =>
                 \/ process[x] # NoRow /\ process'[x].retry = process[x].retry
                 \/ process'[x].retry = 0
  <1>1. CASE Client(m) \/ ClientCrash(m) \/ RejectRequest(m)
    <2>1. UNCHANGED <<deadLog, compPc, todo, cur, age, attempts>>
      BY <1>1 DEF Client, ClientCrash, RejectRequest, SaveReady, Proceed, NotSent, Return,
                  MarkFail, SaveFail, Call, storeVars, compVars, envVars
    <2>2. Quiet
      BY <1>1 DEF Client, ClientCrash, RejectRequest, SaveReady, Proceed, NotSent, Return,
                  MarkFail, SaveFail, SaveRow, SetStatus, Row, TypeOK, storeVars
    <2>3. QED
      BY <2>1, <2>2, QuietStep
  <1>2. ASSUME NEW i \in Instance, SendMQ(m, i) \/ Callback(m, i)
        PROVE  Counted'
    <2>1. UNCHANGED <<deadLog, compPc, todo, cur, age, attempts>>
      BY <1>2 DEF SendMQ, Callback, CallbackDelete, CallbackUpdate, CallbackLog, CallbackFail,
                  Call, storeVars, compVars, envVars
    <2>2. Quiet
      BY <1>2 DEF SendMQ, Callback, CallbackDelete, CallbackUpdate, CallbackLog, CallbackFail,
                  DeleteRow, SetStatus, Row, TypeOK, storeVars
    <2>3. QED
      BY <2>1, <2>2, QuietStep
  <1>3. ASSUME NEW i \in Instance, NEW kind \in {"sync", "async"},
               BrokerAck(m, kind, i) \/ BrokerError(m, kind, i)
        PROVE  Counted'
    <2>1. UNCHANGED <<process, deadLog, compPc, todo, cur, age, attempts>>
      BY <1>3 DEF BrokerAck, BrokerError, storeVars, compVars, envVars
    <2>2. QED
      BY <2>1, QuietStep
  <1>4. QED
    BY <1>1, <1>2, <1>3

(* The compensation task, its lock and the crash of its instance. *)
LEMMA CompensationCounted ==
    ASSUME TypeOK, TypeOK', Counted,
           \/ Compensation \/ Interrupted \/ LockExpire
           \/ \E i \in Instance : TryLock(i) \/ Crash(i)
    PROVE  Counted'
  <1> USE DEF storeVars, sendVars, clientVars
  <1>1. CASE QueryPage
    <2>1. \A e \in todo' : CountsBelow(e.msg, e.row)
      BY <1>1 DEF QueryPage, Pages, Counted, CountsBelow, Stored
    <2>2. UNCHANGED <<process, deadLog, age, attempts>> /\ compPc' \notin Handling
      BY <1>1 DEF QueryPage, Call, Handling
    <2>3. QED
      BY <2>1, <2>2, SettlingStep DEF Counted, NoPrematureDeath, Handling
  <1>2. CASE HandleRow
    <2>1. PICK e \in todo : HandleRow!(e)
      BY <1>2 DEF HandleRow
    <2>2. e.msg \in Message /\ e.row.retry \in Nat /\ e.row.retry <= attempts[e.msg]
      BY DEF TypeOK, Entry, Row, Counted, CountsBelow
    <2>3. \A m \in Message : attempts'[m] >= attempts[m] /\ attempts[m] \in Nat
      BY <2>1, <2>2 DEF TypeOK
    <2>4. cur'.msg = e.msg /\ cur'.row.retry <= attempts'[e.msg]
      <3>1. CASE ShouldReSend(e)
        <4>1. attempts'[e.msg] = attempts[e.msg] + 1
          BY <2>1, <2>2, <3>1 DEF TypeOK
        <4>2. cur' = [e EXCEPT !.row.retry = @ + 1]
          BY <2>1, <3>1
        <4>3. e \in Entry
          BY DEF TypeOK
        <4>4. cur'.msg = e.msg /\ cur'.row.retry = e.row.retry + 1
          BY <4>2, <4>3 DEF Entry, Row
        <4>5. QED
          BY <2>2, <4>1, <4>4, <2>3
      <3>2. CASE ~ShouldReSend(e)
        BY <2>1, <2>2, <3>2
      <3>3. QED
        BY <3>1, <3>2
    <2>5. UNCHANGED <<process, deadLog, age>> /\ todo' \subseteq todo /\ compPc' # "bury"
      BY <2>1 DEF envVars
    <2>6. NoPrematureDeath'
      BY <2>3, <2>5, ConstantsOK DEF Counted, NoPrematureDeath, TypeOK
    <2>7. \A m \in Stored' : CountsBelow(m, process[m])'
      BY <2>3, <2>5 DEF Counted, CountsBelow, Stored, TypeOK, Row
    <2>8. \A x \in todo' : CountsBelow(x.msg, x.row)'
      BY <2>3, <2>5 DEF Counted, CountsBelow, TypeOK, Entry, Row
    <2>9. (compPc \in Handling => CountsBelow(cur.msg, cur.row))'
      BY <2>4 DEF CountsBelow
    <2>10. QED
      BY <2>5, <2>6, <2>7, <2>8, <2>9 DEF Counted
  <1>3. CASE EndPage \/ Unlock \/ Interrupted \/ LockExpire \/ \E i \in Instance : TryLock(i)
    <2>1. UNCHANGED <<process, deadLog, todo, age, attempts>> /\ compPc' \notin Handling
      BY <1>3 DEF EndPage, Unlock, Interrupted, LockExpire, TryLock, Call, Handling, envVars
    <2>2. QED
      BY <2>1, SettlingStep DEF Counted, NoPrematureDeath, Handling
  <1>4. ASSUME NEW i \in Instance, Crash(i)
        PROVE  Counted'
    <2>1. UNCHANGED <<process, deadLog, age, attempts>>
      BY <1>4 DEF Crash
    <2>2. \/ compPc' = "idle" /\ todo' = {}
          \/ UNCHANGED <<compPc, todo, cur>>
      BY <1>4 DEF Crash
    <2>3. QED
      BY <2>1, <2>2, SettlingStep DEF Counted, NoPrematureDeath, Handling
  <1>5. CASE CheckStatus
    <2>1. UNCHANGED <<process, deadLog, todo, age, attempts>> /\ compPc \in Handling /\ compPc' # "bury"
      BY <1>5 DEF CheckStatus, Call, Handling
    <2>2. cur'.msg = cur.msg /\ cur'.row.retry = cur.row.retry
      BY <1>5, <2>1 DEF CheckStatus, TypeOK, Entry, Row
    <2>3. QED
      BY <2>1, <2>2, SettlingStep DEF Counted, NoPrematureDeath, CountsBelow
  <1>6. CASE SaveCompensate
    <2>1. cur.msg \in Message /\ CountsBelow(cur.msg, cur.row)
      BY <1>6 DEF SaveCompensate, TypeOK, Handling, Entry, Counted
    <2>2. UNCHANGED <<deadLog, todo, cur, age, attempts>> /\ compPc' = "send"
      BY <1>6 DEF SaveCompensate, Call
    <2>3. \A x \in Message : process'[x] = process[x] \/ (x = cur.msg /\ process'[x] = cur.row)
      BY <1>6, <2>1 DEF SaveCompensate, SaveRow, TypeOK
    <2>4. QED
      BY <2>1, <2>2, <2>3, SettlingStep DEF Counted, NoPrematureDeath
  <1>7. CASE CompensateSendMQ \/ Verdict \/ SaveNormal
    <2>1. /\ UNCHANGED <<process, deadLog, todo, age, attempts>> /\ compPc \in Handling
          /\ compPc' \in Handling => cur' = cur
          /\ compPc' = "bury" => CheckMessageDeaded(cur')
      BY <1>7 DEF CompensateSendMQ, Verdict, SaveNormal, Step, Call, Handling, envVars,
                  CheckMessageDeaded
    <2>2. QED
      BY <2>1, SettlingStep DEF Counted, NoPrematureDeath
  <1>8. CASE SaveDeaded
    <2>1. /\ UNCHANGED <<process, todo, age, attempts>> /\ compPc \in Handling
          /\ compPc' \in Handling => cur' = cur
          /\ compPc' # "bury" /\ deadLog' \subseteq deadLog \cup {cur.msg}
      BY <1>8 DEF SaveDeaded, Step, Call, Handling, Add
    <2>2. age[cur.msg] = 2 \/ attempts[cur.msg] > RetryLimit
      BY <1>8, <2>1, ConstantsOK DEF SaveDeaded, Counted, CheckMessageDeaded, CountsBelow,
                                     TypeOK, Entry, Row
    <2>3. QED
      BY <2>1, <2>2, SettlingStep DEF Counted, NoPrematureDeath
  <1>9. CASE DeleteProcessMessage
    <2>1. UNCHANGED <<deadLog, todo, age, attempts>> /\ compPc' \notin Handling
      BY <1>9 DEF DeleteProcessMessage, Step, Call, Handling
    <2>2. \A x \in Message : process'[x] = process[x] \/ process'[x] = NoRow
      BY <1>9 DEF DeleteProcessMessage, DeleteRow, TypeOK
    <2>3. QED
      BY <2>1, <2>2, SettlingStep DEF Counted, NoPrematureDeath, Handling
  <1>10. QED
    BY <1>1, <1>2, <1>3, <1>4, <1>5, <1>6, <1>7, <1>8, <1>9 DEF Compensation

(* Growing older only confirms a verdict. *)
LEMMA AgeCounted ==
    ASSUME TypeOK, Counted, NEW m \in Message, Age(m)
    PROVE  Counted'
  <1>1. /\ UNCHANGED <<process, deadLog, compPc, todo, cur, attempts>>
        /\ \A x \in Message : age'[x] = age[x] \/ age[x] < 2
    BY DEF Age, TypeOK, storeVars, compVars
  <1>2. compPc = "bury" => cur.msg \in Message
    BY DEF TypeOK, Handling, Entry
  <1>3. QED
    BY <1>1, <1>2 DEF Counted, NoPrematureDeath, Stored, CountsBelow, CheckMessageDeaded, TypeOK

(* No copy of a retry count exceeds the attempts made, and a verdict of    *)
(* death still stands when it is carried out.                              *)
THEOREM CountsHold == Spec => []Counted
  <1>1. Init => Counted
    BY DEF Init, Counted, NoPrematureDeath, Stored, Handling
  <1>2. TypeOK /\ TypeOK' /\ Counted /\ [Next]_vars => Counted'
    <2> SUFFICES ASSUME TypeOK, TypeOK', Counted, [Next]_vars
                 PROVE  Counted'
      OBVIOUS
    <2>1. CASE UNCHANGED vars
      BY <2>1, QuietStep DEF vars, storeVars, compVars, envVars
    <2>2. QED
      BY <2>1, QuietActions, CompensationCounted, AgeCounted DEF Next
  <1>3. QED
    BY <1>1, <1>2, TypeCorrect, PTL DEF Spec

(* A message is only buried when it is old enough or out of retries. *)
THEOREM NobodyDiesEarly == Spec => []NoPrematureDeath
  <1>1. Counted => NoPrematureDeath
    BY DEF Counted
  <1>2. QED
    BY <1>1, CountsHold, PTL
===============================================================================
