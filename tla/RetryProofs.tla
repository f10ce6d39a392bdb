------------------------------ MODULE RetryProofs ------------------------------
(***************************************************************************)
(* The retry limit of the compensation task, proved for any messages,      *)
(* instances and bounds: how many attempts a message gets, and that death  *)
(* is final.                                                               *)
(***************************************************************************)
EXTENDS ReliableSendProofs, FiniteSetTheorems

-------------------------------------------------------------------------------
(* Why the attempts are bounded.                                           *)

Retrying(m) == compPc \in {"check", "compensate"} /\ cur.msg = m

(* The retry counts that the next attempt may start from. *)
Counts(m) ==
    IF Retrying(m) THEN {cur.row.retry}
    ELSE {row.retry : row \in {process[m]} \ {NoRow}}
         \cup {e.row.retry : e \in {f \in todo : f.msg = m}}

(* What may still make, or is, a row that invites an attempt: records and  *)
(* failures on their way, the client's request or its mark, the row or a   *)
(* copy of it, and the record the task is about to send.                   *)
Asked(m) == clientPc[m] \in {"call", "mark"} \/ request[m]

Open(row) == row.status \in {"READY", "FAIL"}

Inviting(m) ==
    \/ Retrying(m)
    \/ process[m] # NoRow /\ Open(process[m])
    \/ \E e \in todo : e.msg = m /\ Open(e.row)

Source == ({"sync", "async", "fail"} \X Instance)
          \cup ({"client", "row", "send"} \X {NoInstance})

Number(m, s) ==
    CASE s[1] \in {"sync", "async"} -> flight[s[2]][<<m, s[1]>>]
      [] s[1] = "fail" -> tasks[s[2]][<<m, "fail">>]
      [] s[1] = "client" -> IF Asked(m) THEN 1 ELSE 0
      [] s[1] = "row" -> IF Inviting(m) THEN 1 ELSE 0
      [] s[1] = "send" -> IF compPc = "send" /\ cur.msg = m THEN 1 ELSE 0

Chances(m) == UNION {{s} \X (1..Number(m, s)) : s \in Source}

(* No copy of the message has succeeded in a way that still shows. *)
Unacked(m) ==
    /\ \A i \in Instance : ~Start(m, i, "delete") /\ ~Start(m, i, "update")
    /\ process[m] # NoRow => process[m].status # "NORMAL"

(* A message starts with two chances, its row and its request, and an      *)
(* attempt spends one to make one.  A count is lost to a success only by   *)
(* spending one chance on the success and another on the row it settles.   *)
(* Faults add slack: a to chances and counts together, b to counts.        *)
Budget(m, a, b) == LET chances == Cardinality(Chances(m)) IN
    \A n \in Counts(m) :
       \/ attempts[m] + chances <= n + 1 + a
       \/ Unacked(m) /\ attempts[m] <= n + b /\ attempts[m] + chances <= n + 2 + a

Budgeted == \A m \in Message :
    saved[m] => Budget(m, 2 * faults + crashes, faults + crashes)

-------------------------------------------------------------------------------
(* What the counts rest on.  Nothing of a message is there before its      *)
(* client has started;                                                     *)
Untouched == \A m \in Message : clientPc[m] = "new" =>
    /\ ~saved[m] /\ ~request[m] /\ process[m] = NoRow /\ attempts[m] = 0
    /\ \A e \in todo : e.msg # m
    /\ compPc \in Handling => cur.msg # m
    /\ \A i \in Instance : \A kind \in {"sync", "async"} : flight[i][<<m, kind>>] = 0
    /\ \A i \in Instance : \A step \in {"delete", "update", "log", "fail"} : tasks[i][<<m, step>>] = 0

(* a client asks once, and a row that is saved is not saved again by it;   *)
ClientOnce == \A m \in Message :
    /\ saved[m] => clientPc[m] # "resave"
    /\ clientPc[m] \in {"call", "mark"} => ~request[m]

(* a READY row has not been retried;                                       *)
ReadyIsFirst ==
    /\ \A m \in Message : process[m] # NoRow /\ process[m].status = "READY" => process[m].retry = 0
    /\ \A e \in todo : e.row.status = "READY" => e.row.retry = 0

(* the task has one copy of a row;                                         *)
OneCopy ==
    /\ \A e, g \in todo : e.msg = g.msg => e = g
    /\ compPc \in Handling => \A e \in todo : e.msg # cur.msg

(* and nobody else counts while it has.                                    *)
Agree ==
    /\ \A e \in todo : saved[e.msg] /\ process[e.msg] # NoRow => process[e.msg].retry = e.row.retry
    /\ \A m \in Message : Retrying(m) /\ saved[m] /\ process[m] # NoRow
                             => cur.row.retry = process[m].retry + 1

Copies == Untouched /\ ClientOnce /\ ReadyIsFirst /\ OneCopy /\ Agree

(* Most steps leave the count of a row alone and make no row READY. *)
RowKept(x) == process'[x] # NoRow =>
    /\ process[x] # NoRow /\ process'[x].retry = process[x].retry
    /\ process'[x].status = "READY" => process[x].status = "READY"

LEMMA RowUpdates ==
    ASSUME TypeOK, NEW o \in Outcome, NEW m \in Message, NEW status \in Status \ {"READY"},
           SetStatus(o, m, status) \/ DeleteRow(o, m) \/ UNCHANGED process
    PROVE  \A x \in Message : RowKept(x) /\ (x # m => process'[x] = process[x])
  BY DEF SetStatus, DeleteRow, RowKept, TypeOK, Row

(* The client's steps. *)
LEMMA ClientCopies ==
    ASSUME TypeOK, Copies, NEW m \in Message, Client(m) \/ ClientCrash(m) \/ RejectRequest(m)
    PROVE  Copies'
  <1>1. UNCHANGED <<flight, tasks, compPc, todo, cur, attempts>>
    BY DEF Client, ClientCrash, RejectRequest, SaveReady, Proceed, NotSent, Return,
           MarkFail, SaveFail, compVars, sendVars
  <1>2. \A x \in Message : x # m => UNCHANGED <<clientPc[x], saved[x], request[x], process[x]>>
    BY DEF Client, ClientCrash, RejectRequest, SaveReady, Proceed, NotSent, Return,
           MarkFail, SaveFail, SetPc, SaveRow, SetStatus, TypeOK, storeVars
  <1>3. \/ SaveReady(m) /\ (process'[m] = process[m] \/ process'[m] = [status |-> "READY", retry |-> 0])
        \/ clientPc[m] = "resave" /\ UNCHANGED <<saved, request>>
              /\ (process'[m] = process[m] \/ process'[m] = [status |-> "FAIL", retry |-> 0])
        \/ clientPc[m] # "new" /\ UNCHANGED saved /\ RowKept(m)
    <2>1. CASE SaveReady(m)
      BY <2>1 DEF SaveReady, SaveRow, TypeOK
    <2>2. CASE SaveFail(m)
      BY <2>2 DEF SaveFail, SaveRow, TypeOK
    <2>3. CASE MarkFail(m)
      BY <2>3, RowUpdates DEF MarkFail, Status
    <2>4. CASE Proceed(m) \/ NotSent(m) \/ Return(m) \/ ClientCrash(m)
      BY <2>4 DEF Proceed, NotSent, Return, ClientCrash, RowKept, storeVars
    <2>5. CASE RejectRequest(m)
      BY <2>5 DEF RejectRequest, RowKept, storeVars, Copies, Untouched
    <2>6. QED
      BY <2>1, <2>2, <2>3, <2>4, <2>5 DEF Client
  <1>4. clientPc'[m] # "new"
    BY DEF Client, ClientCrash, RejectRequest, SaveReady, Proceed, NotSent, Return,
           MarkFail, SaveFail, SetPc, TypeOK, Copies, Untouched
  <1>5. Untouched'
    <2> SUFFICES ASSUME NEW x \in Message, clientPc'[x] = "new"
                 PROVE  Untouched!(x)'
      BY DEF Untouched
    <2>1. x # m /\ clientPc[x] = "new"
      BY <1>2, <1>4
    <2>2. Untouched!(x)
      BY DEF Copies, Untouched
    <2>3. QED
      BY <1>1, <1>2, <2>1, <2>2
  <1>6. ClientOnce'
    <2>1. (saved[m] => clientPc[m] # "resave")'
      BY DEF Client, ClientCrash, RejectRequest, SaveReady, Proceed, NotSent, Return,
             MarkFail, SaveFail, SetPc, TypeOK, Copies, ClientOnce
    <2>2. (clientPc[m] \in {"call", "mark"} => ~request[m])'
      <3>1. CASE SaveReady(m)
        BY <3>1 DEF SaveReady, Copies, Untouched
      <3>2. CASE NotSent(m)
        BY <3>2 DEF NotSent, Copies, ClientOnce
      <3>3. CASE RejectRequest(m)
        BY <3>3 DEF RejectRequest, TypeOK
      <3>4. CASE Proceed(m) \/ Return(m) \/ MarkFail(m) \/ SaveFail(m) \/ ClientCrash(m)
        BY <3>4 DEF Proceed, Return, MarkFail, SaveFail, ClientCrash, SetPc, TypeOK
      <3>5. QED
        BY <3>1, <3>2, <3>3, <3>4 DEF Client
    <2>3. QED
      BY <1>2, <2>1, <2>2 DEF Copies, ClientOnce
  <1>7. ReadyIsFirst'
    BY <1>1, <1>2, <1>3 DEF Copies, ReadyIsFirst, RowKept
  <1>8. OneCopy'
    BY <1>1 DEF Copies, OneCopy
  <1>9. Agree'
    <2>1. CASE SaveReady(m)
      <3>1. (\A e \in todo : e.msg # m) /\ ~Retrying(m)
        BY <2>1 DEF SaveReady, Copies, Untouched, Retrying, Handling
      <3>2. \A e \in todo : e.msg \in Message
        BY DEF TypeOK, Entry
      <3>3. QED
        BY <1>1, <1>2, <3>1, <3>2 DEF Copies, Agree, Retrying
    <2>2. CASE UNCHANGED saved /\ (RowKept(m) \/ ~saved[m])
      <3>1. \A e \in todo : e.msg \in Message
        BY DEF TypeOK, Entry
      <3>2. QED
        BY <1>1, <1>2, <2>2, <3>1 DEF Copies, Agree, Retrying, RowKept
    <2>3. QED
      BY <1>3, <2>1, <2>2 DEF Copies, ClientOnce
  <1>10. QED
    BY <1>5, <1>6, <1>7, <1>8, <1>9 DEF Copies

(* What one message's records and tasks do is no other message's concern. *)
LEMMA BagElsewhere ==
    ASSUME NEW Name, NEW bag \in [Instance -> [Message \X Name -> Nat]],
           NEW m \in Message, NEW x \in Message \ {m}, NEW i \in Instance, NEW j \in Instance,
           NEW k \in Name, NEW l \in Name
    PROVE  /\ \A n \in Nat : [bag EXCEPT ![i][<<m, k>>] = @ + n][j][<<x, l>>] = bag[j][<<x, l>>]
           /\ [bag EXCEPT ![i][<<m, k>>] = @ - 1][j][<<x, l>>] = bag[j][<<x, l>>]
  <1>1. <<m, k>> \in Message \X Name /\ <<x, l>> \in Message \X Name /\ <<m, k>> # <<x, l>>
    OBVIOUS
  <1>2. QED
    BY <1>1

LEMMA SendElsewhere ==
    ASSUME TypeOK, NEW m \in Message, NEW i \in Instance,
           \/ SendMQ(m, i) \/ Callback(m, i)
           \/ \E kind \in {"sync", "async"} : BrokerAck(m, kind, i) \/ BrokerError(m, kind, i),
           NEW x \in Message \ {m}, NEW j \in Instance
    PROVE  /\ \A k \in {"sync", "async"} : flight'[j][<<x, k>>] = flight[j][<<x, k>>]
           /\ \A step \in {"delete", "update", "log", "fail"} :
                 tasks'[j][<<x, step>>] = tasks[j][<<x, step>>]
  <1> DEFINE Steps == {"delete", "update", "log", "fail"}
             Kept == /\ \A k \in {"sync", "async"} : flight'[j][<<x, k>>] = flight[j][<<x, k>>]
                     /\ \A step \in Steps : tasks'[j][<<x, step>>] = tasks[j][<<x, step>>]
  <1>1. /\ flight \in [Instance -> [Message \X {"sync", "async"} -> Nat]]
        /\ tasks \in [Instance -> [Message \X Steps -> Nat]]
    BY DEF TypeOK, Flight, Task
  <1>2. ASSUME NEW kind \in {"sync", "async"}, flight' = Accepted(i, <<m, kind>>), UNCHANGED tasks
        PROVE  Kept
    BY <1>1, <1>2, BagElsewhere DEF Accepted
  <1>3. ASSUME NEW kind \in {"sync", "async"}, BrokerAck(m, kind, i) \/ BrokerError(m, kind, i)
        PROVE  Kept
    <2>1. ASSUME NEW k \in {"sync", "async"} PROVE flight'[j][<<x, k>>] = flight[j][<<x, k>>]
      <3>1. flight' = [flight EXCEPT ![i][<<m, kind>>] = @ - 1]
        BY <1>3 DEF BrokerAck, BrokerError, Completed
      <3>2. QED
        BY <1>1, <3>1, BagElsewhere
    <2>2. ASSUME NEW step \in Steps PROVE tasks'[j][<<x, step>>] = tasks[j][<<x, step>>]
      <3>1. UNCHANGED tasks \/ \E s \in Steps, n \in Nat : tasks' = [tasks EXCEPT ![i][<<m, s>>] = @ + n]
        BY <1>3 DEF BrokerAck, BrokerError
      <3>2. ASSUME NEW s \in Steps, NEW n \in Nat, tasks' = [tasks EXCEPT ![i][<<m, s>>] = @ + n]
            PROVE  tasks'[j][<<x, step>>] = tasks[j][<<x, step>>]
        <4>1. [tasks EXCEPT ![i][<<m, s>>] = @ + n][j][<<x, step>>] = tasks[j][<<x, step>>]
          BY <1>1, BagElsewhere
        <4>2. QED
          BY <3>2, <4>1
      <3>3. QED
        BY <3>1, <3>2
    <2>3. QED
      BY <2>1, <2>2
  <1>4. ASSUME NEW s \in Steps, NEW step \in Steps,
               Finish(m, i, s) \/ \E t \in Steps : Start(m, i, s) /\ GoOn(m, i, s, t)
        PROVE  tasks'[j][<<x, step>>] = tasks[j][<<x, step>>]
    <2> DEFINE less == [tasks EXCEPT ![i][<<m, s>>] = @ - 1]
    <2>1. less[j][<<x, step>>] = tasks[j][<<x, step>>]
      BY <1>1, BagElsewhere
    <2>2. CASE Finish(m, i, s)
      BY <2>1, <2>2 DEF Finish
    <2>3. ASSUME NEW t \in Steps, Start(m, i, s), GoOn(m, i, s, t)
          PROVE  tasks'[j][<<x, step>>] = tasks[j][<<x, step>>]
      <3>1. less \in [Instance -> [Message \X Steps -> Nat]]
        BY <1>1, <2>3, BagType DEF Start
      <3>2. tasks' = [less EXCEPT ![i][<<m, t>>] = @ + 1]
        BY <2>3 DEF GoOn
      <3>3. [less EXCEPT ![i][<<m, t>>] = @ + 1][j][<<x, step>>] = less[j][<<x, step>>]
        <4> HIDE DEF less
        <4> QED
          BY <3>1, BagElsewhere
      <3>4. QED
        BY <2>1, <3>2, <3>3
    <2>4. QED
      BY <1>4, <2>2, <2>3
  <1>5. CASE Callback(m, i)
    <2>1. UNCHANGED flight
      BY <1>5 DEF Callback, CallbackDelete, CallbackUpdate, CallbackLog, CallbackFail
    <2>2. \E s \in Steps : Finish(m, i, s) \/ \E t \in Steps : Start(m, i, s) /\ GoOn(m, i, s, t)
      BY <1>5 DEF Callback, CallbackDelete, CallbackUpdate, CallbackLog, CallbackFail
    <2>3. QED
      BY <1>4, <2>1, <2>2
  <1>6. CASE SendMQ(m, i)
    BY <1>2, <1>6, ConstantsOK DEF SendMQ
  <1>7. QED
    BY <1>3, <1>5, <1>6

(* The producers and the callback tasks. *)
LEMMA SendCopies ==
    ASSUME TypeOK, Copies, NEW m \in Message, NEW i \in Instance,
           \/ SendMQ(m, i) \/ Callback(m, i)
           \/ \E kind \in {"sync", "async"} : BrokerAck(m, kind, i) \/ BrokerError(m, kind, i)
    PROVE  Copies'
  <1>1. /\ UNCHANGED <<clientPc, saved, compPc, todo, cur, attempts>>
        /\ request' = request \/ request' = [request EXCEPT ![m] = FALSE]
    BY DEF SendMQ, Callback, CallbackDelete, CallbackUpdate, CallbackLog, CallbackFail,
           BrokerAck, BrokerError, clientVars, compVars
  <1>2. \A x \in Message : RowKept(x)
    <2>1. CASE \E kind \in {"sync", "async"} : BrokerAck(m, kind, i) \/ BrokerError(m, kind, i)
      BY <2>1 DEF BrokerAck, BrokerError, storeVars, RowKept
    <2>2. CASE SendMQ(m, i) \/ CallbackLog(m, i)
      BY <2>2 DEF SendMQ, CallbackLog, storeVars, RowKept
    <2>3. CASE CallbackDelete(m, i) \/ CallbackUpdate(m, i) \/ CallbackFail(m, i)
      BY <2>3, RowUpdates DEF CallbackDelete, CallbackUpdate, CallbackFail, Status
    <2>4. QED
      BY <2>1, <2>2, <2>3 DEF Callback
  <1>3. clientPc[m] # "new"
    <2> SUFFICES ASSUME clientPc[m] = "new" PROVE FALSE
      OBVIOUS
    <2>1. ~request[m]
      BY DEF Copies, Untouched
    <2>2. /\ \A kind \in {"sync", "async"} : flight[i][<<m, kind>>] = 0
          /\ \A step \in {"delete", "update", "log", "fail"} : tasks[i][<<m, step>>] = 0
      BY DEF Copies, Untouched
    <2>3. /\ \A kind \in {"sync", "async"} : ~(flight[i][<<m, kind>>] > 0)
          /\ \A step \in {"delete", "update", "log", "fail"} : ~(tasks[i][<<m, step>>] > 0)
      BY <2>2
    <2>4. QED
      BY <2>1, <2>3 DEF SendMQ, Callback, CallbackDelete, CallbackUpdate, CallbackLog,
                              CallbackFail, BrokerAck, BrokerError, Start
  <1>4. \A x \in Message, j \in Instance : x # m =>
           /\ \A k \in {"sync", "async"} : flight'[j][<<x, k>>] = flight[j][<<x, k>>]
           /\ \A step \in {"delete", "update", "log", "fail"} : tasks'[j][<<x, step>>] = tasks[j][<<x, step>>]
    BY SendElsewhere
  <1>5. Untouched'
    <2> SUFFICES ASSUME NEW x \in Message, clientPc'[x] = "new"
                 PROVE  Untouched!(x)'
      BY DEF Untouched
    <2>1. x # m /\ clientPc[x] = "new"
      BY <1>1, <1>3
    <2>2. Untouched!(x)
      BY <2>1 DEF Copies, Untouched
    <2>3. request'[x] = request[x] /\ process'[x] = NoRow
      BY <1>1, <1>2, <2>1, <2>2 DEF RowKept, TypeOK
    <2>4. /\ \A j \in Instance : \A kind \in {"sync", "async"} : flight'[j][<<x, kind>>] = 0
          /\ \A j \in Instance : \A step \in {"delete", "update", "log", "fail"} :
                tasks'[j][<<x, step>>] = 0
      <3>1. ASSUME NEW j \in Instance, NEW kind \in {"sync", "async"}
            PROVE  flight'[j][<<x, kind>>] = 0
        <4>1. flight[j][<<x, kind>>] = 0
          BY <2>1, <2>2
        <4>2. QED
          BY <1>4, <2>1, <4>1
      <3>2. ASSUME NEW j \in Instance, NEW step \in {"delete", "update", "log", "fail"}
            PROVE  tasks'[j][<<x, step>>] = 0
        <4>1. tasks[j][<<x, step>>] = 0
          BY <2>1, <2>2
        <4>2. QED
          BY <1>4, <2>1, <4>1
      <3>3. QED
        BY <3>1, <3>2
    <2>5. QED
      BY <1>1, <2>2, <2>3, <2>4
  <1>6. ClientOnce'
    BY <1>1 DEF Copies, ClientOnce, TypeOK
  <1>7. ReadyIsFirst'
    BY <1>1, <1>2 DEF Copies, ReadyIsFirst, RowKept
  <1>8. OneCopy'
    BY <1>1 DEF Copies, OneCopy
  <1>9. Agree'
    <2>1. \A e \in todo : e.msg \in Message
      BY DEF TypeOK, Entry
    <2>2. QED
      BY <1>1, <1>2, <2>1 DEF Copies, Agree, Retrying, RowKept
  <1>10. QED
    BY <1>5, <1>6, <1>7, <1>8, <1>9 DEF Copies

(* A step of the task that counts nothing and reads no new row. *)
LEMMA SettlingCopies ==
    ASSUME TypeOK, Copies, UNCHANGED <<clientVars, attempts>>, todo' \subseteq todo,
           \A x \in Message : RowKept(x),
           compPc' \in Handling => compPc \in Handling /\ cur'.msg = cur.msg,
           compPc' \in {"check", "compensate"} =>
              compPc \in {"check", "compensate"} /\ cur'.row.retry = cur.row.retry,
           \A x \in Message, i \in Instance : clientPc[x] = "new" =>
              /\ \A kind \in {"sync", "async"} : flight'[i][<<x, kind>>] = 0
              /\ \A step \in {"delete", "update", "log", "fail"} : tasks'[i][<<x, step>>] = 0
    PROVE  Copies'
  <1> USE DEF clientVars
  <1>1. Untouched'
    BY DEF Copies, Untouched, RowKept
  <1>2. ClientOnce'
    BY DEF Copies, ClientOnce
  <1>3. ReadyIsFirst'
    BY DEF Copies, ReadyIsFirst, RowKept
  <1>4. OneCopy'
    BY DEF Copies, OneCopy
  <1>5. Agree'
    <2>1. \A e \in todo : e.msg \in Message
      BY DEF TypeOK, Entry
    <2>2. (\A e \in todo : saved[e.msg] /\ process[e.msg] # NoRow => process[e.msg].retry = e.row.retry)'
      BY <2>1 DEF Copies, Agree, RowKept
    <2>3. \A x \in Message : Retrying(x)' => Retrying(x) /\ cur'.row.retry = cur.row.retry
      BY DEF Retrying, Handling
    <2>4. QED
      BY <2>2, <2>3 DEF Copies, Agree, RowKept
  <1>6. QED
    BY <1>1, <1>2, <1>3, <1>4, <1>5 DEF Copies

(* What the task reads, its clients have started. *)
LEMMA StillUntouched ==
    ASSUME Copies, UNCHANGED <<clientVars, flight, tasks>>,
           \A x \in Message : clientPc[x] = "new" =>
              /\ process'[x] = process[x] /\ attempts'[x] = attempts[x]
              /\ \A e \in todo' : e.msg # x
              /\ compPc' \in Handling => cur'.msg # x
    PROVE  Untouched'
  <1> SUFFICES ASSUME NEW x \in Message, clientPc[x] = "new"
               PROVE  Untouched!(x)'
    BY DEF Untouched, clientVars
  <1>1. Untouched!(x)
    BY DEF Copies, Untouched
  <1>2. QED
    BY <1>1 DEF clientVars

(* The compensation task, its lock, the clock, and the crash of an instance. *)
LEMMA CompensationCopies ==
    ASSUME TypeOK, Evidence, Copies,
           \/ Compensation \/ Interrupted \/ LockExpire \/ \E m \in Message : Age(m)
           \/ \E i \in Instance : TryLock(i) \/ Crash(i)
    PROVE  Copies'
  <1> USE DEF storeVars, sendVars, clientVars, compVars
  <1> DEFINE Nothing(x) == clientPc[x] = "new" => \A i \in Instance :
                /\ \A kind \in {"sync", "async"} : flight'[i][<<x, kind>>] = 0
                /\ \A step \in {"delete", "update", "log", "fail"} : tasks'[i][<<x, step>>] = 0
  <1>a. UNCHANGED <<flight, tasks>> => \A x \in Message : Nothing(x)
    <2>1. ASSUME NEW x \in Message, clientPc[x] = "new", UNCHANGED <<flight, tasks>>
          PROVE  Nothing(x)
      <3>1. Untouched!(x)
        BY <2>1 DEF Copies, Untouched
      <3>2. flight' = flight /\ tasks' = tasks
        BY <2>1
      <3>3. QED
        BY <3>1, <3>2
    <2>2. QED
      BY <2>1
  <1>b. UNCHANGED process => \A x \in Message : RowKept(x)
    BY DEF RowKept
  <1>1. CASE QueryPage
    <2>1. PICK S \in SUBSET Stored : todo' = {[msg |-> m, row |-> process[m]] : m \in S}
      BY <1>1 DEF QueryPage, Pages
    <2>2. UNCHANGED <<clientVars, process, attempts, flight, tasks>> /\ compPc' \in {"row", "unlock"}
      BY <1>1 DEF QueryPage
    <2>3. \A e \in todo' : e.msg \in Message /\ process[e.msg] # NoRow /\ e.row = process[e.msg]
      BY <2>1 DEF Stored
    <2>4. Untouched'
      <3>1. \A x \in Message : clientPc[x] = "new" => process[x] = NoRow
        BY DEF Copies, Untouched
      <3>2. \A x \in Message : clientPc[x] = "new" => \A e \in todo' : e.msg # x
        BY <2>3, <3>1
      <3>3. QED
        BY <2>2, <3>2, StillUntouched DEF Handling
    <2>5. ClientOnce'
      BY <2>2 DEF Copies, ClientOnce
    <2>6. ReadyIsFirst'
      BY <2>2, <2>3 DEF Copies, ReadyIsFirst
    <2>7. OneCopy'
      BY <2>1, <2>2 DEF OneCopy, Handling
    <2>8. Agree'
      BY <2>2, <2>3 DEF Agree, Retrying
    <2>9. QED
      BY <2>4, <2>5, <2>6, <2>7, <2>8 DEF Copies
  <1>2. CASE HandleRow
    <2>1. PICK e \in todo : HandleRow!(e)
      BY <1>2 DEF HandleRow
    <2>2. UNCHANGED <<clientVars, process, flight, tasks>> /\ todo' = todo \ {e}
      BY <2>1
    <2>3. e \in Entry /\ e.msg \in Message
      BY DEF TypeOK, Entry
    <2>4. /\ cur'.msg = e.msg
          /\ compPc' \in {"check", "compensate"} => cur'.row.retry = e.row.retry + 1
          /\ \A x \in Message : x # e.msg => attempts'[x] = attempts[x]
      BY <2>1, <2>3 DEF Entry, Row, TypeOK
    <2>5. Untouched'
      <3>1. \A x \in Message : clientPc[x] = "new" => (\A f \in todo : f.msg # x) /\ e.msg # x
        BY DEF Copies, Untouched
      <3>2. QED
        BY <2>2, <2>4, <3>1, StillUntouched
    <2>6. ClientOnce'
      BY <2>2 DEF Copies, ClientOnce
    <2>7. ReadyIsFirst'
      BY <2>2 DEF Copies, ReadyIsFirst
    <2>8. OneCopy'
      BY <2>2, <2>4 DEF Copies, OneCopy
    <2>9. Agree'
      BY <2>2, <2>3, <2>4 DEF Copies, Agree, Retrying
    <2>10. QED
      BY <2>5, <2>6, <2>7, <2>8, <2>9 DEF Copies
  <1>3. CASE SaveCompensate
    <2>1. cur.msg \in Message /\ cur.row.status = "COMPENSATE"
      BY <1>3 DEF SaveCompensate, TypeOK, Handling, Entry, Evidence
    <2>2. UNCHANGED <<clientVars, attempts, flight, tasks, todo, cur>> /\ compPc' = "send"
          /\ compPc = "compensate"
      BY <1>3 DEF SaveCompensate
    <2>3. \A x \in Message : process'[x] = process[x] \/ (x = cur.msg /\ process'[x] = cur.row)
      BY <1>3, <2>1 DEF SaveCompensate, SaveRow, TypeOK
    <2>4. Untouched'
      <3>1. \A x \in Message : clientPc[x] = "new" => x # cur.msg /\ \A e \in todo : e.msg # x
        BY <2>2 DEF Copies, Untouched, Handling
      <3>2. QED
        BY <2>2, <2>3, <3>1, StillUntouched
    <2>5. ClientOnce'
      BY <2>2 DEF Copies, ClientOnce
    <2>6. ReadyIsFirst'
      BY <2>1, <2>2, <2>3 DEF Copies, ReadyIsFirst
    <2>7. OneCopy'
      BY <2>2 DEF Copies, OneCopy, Handling
    <2>8. Agree'
      <3>1. \A e \in todo : e.msg \in Message /\ e.msg # cur.msg
        BY <2>2 DEF TypeOK, Entry, Copies, OneCopy, Handling
      <3>2. QED
        BY <2>2, <2>3, <3>1 DEF Copies, Agree, Retrying
    <2>9. QED
      BY <2>4, <2>5, <2>6, <2>7, <2>8 DEF Copies
  <1>4. CASE EndPage \/ Unlock \/ Interrupted \/ LockExpire \/ \E i \in Instance : TryLock(i)
    <2>1. UNCHANGED <<clientVars, process, flight, tasks, todo, attempts>> /\ compPc' \notin Handling
      BY <1>4 DEF EndPage, Unlock, Interrupted, LockExpire, TryLock, Handling
    <2>2. QED
      BY <1>a, <1>b, <2>1, SettlingCopies DEF Handling
  <1>5. CASE \E m \in Message : Age(m)
    BY <1>a, <1>b, <1>5, SettlingCopies DEF Age
  <1>6. CASE CheckStatus
    <2>1. UNCHANGED <<clientVars, process, flight, tasks, todo, attempts>> /\ compPc = "check"
      BY <1>6 DEF CheckStatus
    <2>2. cur'.msg = cur.msg /\ cur'.row.retry = cur.row.retry
      BY <1>6 DEF CheckStatus, TypeOK, Handling, Entry, Row
    <2>3. QED
      BY <1>a, <1>b, <2>1, <2>2, SettlingCopies DEF Handling
  <1>7. CASE CompensateSendMQ
    <2>1. UNCHANGED <<clientVars, process, tasks, todo, attempts>> /\ compPc = "send"
          /\ compPc' = "verdict" /\ cur' = cur
      BY <1>7 DEF CompensateSendMQ, Step
    <2>2. ASSUME NEW x \in Message, clientPc[x] = "new" PROVE Nothing(x)
      <3>1. cur.msg \in Message /\ x # cur.msg /\ lock \in Instance
        BY <2>1, <2>2 DEF TypeOK, Handling, Entry, Copies, Untouched
      <3>2. flight \in [Instance -> [Message \X {"sync", "async"} -> Nat]]
        BY DEF TypeOK, Flight
      <3>3. \A i \in Instance : \A kind \in {"sync", "async"} : flight'[i][<<x, kind>>] = flight[i][<<x, kind>>]
        BY <1>7, <3>1, <3>2, BagElsewhere DEF CompensateSendMQ, Accepted
      <3>4. QED
        BY <2>1, <2>2, <3>3 DEF Copies, Untouched
    <2>3. QED
      BY <1>b, <2>1, <2>2, SettlingCopies DEF Handling
  <1>8. CASE Verdict \/ SaveDeaded \/ SaveNormal
    <2>1. UNCHANGED <<clientVars, process, flight, tasks, todo, attempts>> /\ compPc \in Handling
          /\ (compPc' \in Handling => cur' = cur) /\ compPc' \notin {"check", "compensate"}
      BY <1>8 DEF Verdict, SaveDeaded, SaveNormal, Step, Handling
    <2>2. QED
      BY <1>a, <1>b, <2>1, SettlingCopies
  <1>9. CASE DeleteProcessMessage
    <2>1. UNCHANGED <<clientVars, flight, tasks, todo, attempts>> /\ compPc' \notin Handling
      BY <1>9 DEF DeleteProcessMessage, Step, Handling
    <2>2. \A x \in Message : RowKept(x)
      BY <1>9, RowUpdates DEF DeleteProcessMessage, TypeOK, DeleteRow, RowKept
    <2>3. QED
      BY <1>a, <2>1, <2>2, SettlingCopies DEF Handling
  <1>10. ASSUME NEW i \in Instance, Crash(i)
         PROVE  Copies'
    <2>1. UNCHANGED <<clientVars, process, attempts>>
      BY <1>10 DEF Crash
    <2>2. \/ compPc' = "idle" /\ todo' = {}
          \/ UNCHANGED <<compPc, todo, cur>>
      BY <1>10 DEF Crash
    <2>3. \A j \in Instance : flight'[j] = flight[j] \/ flight'[j] = [f \in Flight |-> 0]
      BY <1>10 DEF Crash, TypeOK
    <2>4. \A j \in Instance : tasks'[j] = tasks[j] \/ tasks'[j] = [f \in Task |-> 0]
      BY <1>10 DEF Crash, TypeOK
    <2>5. ASSUME NEW x \in Message, clientPc[x] = "new", NEW j \in Instance
          PROVE  /\ \A kind \in {"sync", "async"} : flight'[j][<<x, kind>>] = 0
                 /\ \A step \in {"delete", "update", "log", "fail"} : tasks'[j][<<x, step>>] = 0
      <3>1. \A kind \in {"sync", "async"} : flight[j][<<x, kind>>] = 0
        BY <2>5 DEF Copies, Untouched
      <3>2. \A step \in {"delete", "update", "log", "fail"} : tasks[j][<<x, step>>] = 0
        BY <2>5 DEF Copies, Untouched
      <3>3. QED
        BY <2>3, <2>4, <3>1, <3>2 DEF Flight, Task
    <2>6. QED
      BY <1>b, <2>1, <2>2, <2>5, SettlingCopies DEF Handling
  <1>11. QED
    BY <1>1, <1>2, <1>3, <1>4, <1>5, <1>6, <1>7, <1>8, <1>9, <1>10 DEF Compensation

LEMMA CopiesHold == Spec => []Copies
  <1>1. Init => Copies
    BY DEF Init, Copies, Untouched, ClientOnce, ReadyIsFirst, OneCopy, Agree, Retrying, Handling,
           Flight, Task
  <1>2. TypeOK /\ Evidence /\ Copies /\ [Next]_vars => Copies'
    <2> SUFFICES ASSUME TypeOK, Evidence, Copies, [Next]_vars
                 PROVE  Copies'
      OBVIOUS
    <2>1. CASE UNCHANGED vars
      BY <2>1 DEF vars, clientVars, storeVars, sendVars, compVars, Copies, Untouched, ClientOnce,
                  ReadyIsFirst, OneCopy, Agree, Retrying
    <2>2. QED
      BY <2>1, ClientCopies, SendCopies, CompensationCopies DEF Next
  <1>3. QED
    BY <1>1, <1>2, TypeCorrect, EvidenceHolds, PTL DEF Spec

-------------------------------------------------------------------------------
(* Counting chances: N[s] of them from each source s in S.                 *)
Units(S, N) == UNION {{s} \X (1..N[s]) : s \in S}

LEMMA InUnits ==
    ASSUME NEW S, NEW N \in [S -> Nat], NEW u
    PROVE  u \in Units(S, N) <=> \E s \in S : \E n \in 1..N[s] : u = <<s, n>>
  BY DEF Units

(* No source gives more: so many chances at most, and fewer if one gives less. *)
LEMMA FewerUnits ==
    ASSUME NEW S, NEW N \in [S -> Nat], NEW M \in [S -> Nat], IsFiniteSet(Units(S, N)),
           \A s \in S : M[s] <= N[s]
    PROVE  /\ IsFiniteSet(Units(S, M)) /\ Cardinality(Units(S, M)) <= Cardinality(Units(S, N))
           /\ \A a \in S : M[a] < N[a] => Cardinality(Units(S, M)) + 1 <= Cardinality(Units(S, N))
  <1>1. Units(S, M) \subseteq Units(S, N)
    BY InUnits
  <1>2. IsFiniteSet(Units(S, M)) /\ Cardinality(Units(S, M)) <= Cardinality(Units(S, N))
    BY <1>1, FS_Subset
  <1>3. ASSUME NEW a \in S, M[a] < N[a]
        PROVE  Cardinality(Units(S, M)) + 1 <= Cardinality(Units(S, N))
    <2>1. <<a, N[a]>> \in Units(S, N) /\ <<a, N[a]>> \notin Units(S, M)
      BY <1>3, InUnits
    <2>2. Units(S, M) \subseteq Units(S, N) \ {<<a, N[a]>>}
      BY <1>1, <2>1
    <2>3. /\ IsFiniteSet(Units(S, N) \ {<<a, N[a]>>})
          /\ Cardinality(Units(S, N) \ {<<a, N[a]>>}) = Cardinality(Units(S, N)) - 1
      BY <2>1, FS_RemoveElement
    <2>4. Cardinality(Units(S, M)) <= Cardinality(Units(S, N)) - 1
      BY <2>2, <2>3, FS_Subset
    <2>5. Cardinality(Units(S, M)) \in Nat /\ Cardinality(Units(S, N)) \in Nat
      BY <1>2, FS_CardinalityType
    <2>6. QED
      BY <2>4, <2>5
  <1>4. QED
    BY <1>2, <1>3

(* One source gives one more; if another gives less, there are no more in all. *)
LEMMA MovedUnit ==
    ASSUME NEW S, NEW N \in [S -> Nat], NEW M \in [S -> Nat], IsFiniteSet(Units(S, N)),
           NEW b \in S, M[b] <= N[b] + 1, \A s \in S \ {b} : M[s] <= N[s]
    PROVE  /\ IsFiniteSet(Units(S, M)) /\ Cardinality(Units(S, M)) <= Cardinality(Units(S, N)) + 1
           /\ \A a \in S \ {b} : M[a] < N[a] => Cardinality(Units(S, M)) <= Cardinality(Units(S, N))
  <1> DEFINE L == [M EXCEPT ![b] = IF M[b] = N[b] + 1 THEN N[b] ELSE M[b]]
             new == <<b, N[b] + 1>>
  <1>1. L \in [S -> Nat] /\ (\A s \in S : L[s] <= N[s]) /\ \A s \in S \ {b} : L[s] = M[s]
    OBVIOUS
  <1>2. Units(S, M) \subseteq Units(S, L) \cup {new}
    <2>1. ASSUME NEW s \in S, NEW n \in 1..M[s], <<s, n>> # new
          PROVE  <<s, n>> \in Units(S, L)
      <3>1. n \in 1..L[s]
        BY <2>1
      <3> HIDE DEF L
      <3>2. QED
        BY <1>1, <3>1, InUnits
    <2> HIDE DEF L, new
    <2>2. ASSUME NEW u \in Units(S, M), u # new
          PROVE  u \in Units(S, L)
      BY <2>1, <2>2, InUnits
    <2>3. QED
      BY <2>2
  <1> HIDE DEF L, new
  <1>3. /\ IsFiniteSet(Units(S, L)) /\ Cardinality(Units(S, L)) <= Cardinality(Units(S, N))
        /\ \A a \in S : L[a] < N[a] => Cardinality(Units(S, L)) + 1 <= Cardinality(Units(S, N))
    BY <1>1, FewerUnits
  <1>4. /\ IsFiniteSet(Units(S, L) \cup {new})
        /\ Cardinality(Units(S, L) \cup {new}) <= Cardinality(Units(S, L)) + 1
    <2>1. Cardinality(Units(S, L)) \in Nat
      BY <1>3, FS_CardinalityType
    <2>2. /\ IsFiniteSet(Units(S, L) \cup {new})
          /\ \/ Cardinality(Units(S, L) \cup {new}) = Cardinality(Units(S, L))
             \/ Cardinality(Units(S, L) \cup {new}) = Cardinality(Units(S, L)) + 1
      BY <1>3, FS_AddElement
    <2>3. QED
      BY <2>1, <2>2
  <1>5. IsFiniteSet(Units(S, M)) /\ Cardinality(Units(S, M)) <= Cardinality(Units(S, L) \cup {new})
    BY <1>2, <1>4, FS_Subset
  <1>6. /\ Cardinality(Units(S, M)) \in Nat /\ Cardinality(Units(S, L)) \in Nat
        /\ Cardinality(Units(S, L) \cup {new}) \in Nat /\ Cardinality(Units(S, N)) \in Nat
    BY <1>3, <1>4, <1>5, FS_CardinalityType
  <1>7. QED
    BY <1>1, <1>3, <1>4, <1>5, <1>6

(* The same for the chances of a message. *)
LEMMA NumberType ==
    ASSUME TypeOK, NEW m \in Message, NEW s \in Source
    PROVE  Number(m, s) \in Nat
  BY DEF Source, Number, TypeOK, Flight, Task

Size(m) == Cardinality(Chances(m))

LEMMA ChancesAreUnits ==
    ASSUME TypeOK, NEW m \in Message
    PROVE  /\ [s \in Source |-> Number(m, s)] \in [Source -> Nat]
           /\ Chances(m) = Units(Source, [s \in Source |-> Number(m, s)])
  <1>1. [s \in Source |-> Number(m, s)] \in [Source -> Nat]
    BY NumberType
  <1>2. \A s \in Source : [t \in Source |-> Number(m, t)][s] = Number(m, s)
    OBVIOUS
  <1>3. QED
    BY <1>1, <1>2 DEF Chances, Units

LEMMA FewerChances ==
    ASSUME TypeOK, TypeOK', NEW m \in Message, IsFiniteSet(Chances(m)),
           \A s \in Source : Number(m, s)' <= Number(m, s)
    PROVE  /\ IsFiniteSet(Chances(m)') /\ Size(m)' <= Size(m)
           /\ \A a \in Source : Number(m, a)' < Number(m, a) => Size(m)' + 1 <= Size(m)
  <1> DEFINE N == [s \in Source |-> Number(m, s)]
             M == [s \in Source |-> Number(m, s)']
  <1>1. N \in [Source -> Nat] /\ Chances(m) = Units(Source, N)
    BY ChancesAreUnits
  <1>2. M \in [Source -> Nat] /\ Chances(m)' = Units(Source, M)
    <2>1. M \in [Source -> Nat]
      <3> SUFFICES ASSUME NEW s \in Source PROVE Number(m, s)' \in Nat
        OBVIOUS
      <3> QED
        BY DEF Source, Number, TypeOK, Flight, Task
    <2>2. QED
      BY <2>1 DEF Chances, Units
  <1>3. \A s \in Source : M[s] <= N[s] /\ M[s] = Number(m, s)' /\ N[s] = Number(m, s)
    OBVIOUS
  <1> HIDE DEF M, N
  <1>4. QED
    BY <1>1, <1>2, <1>3, FewerUnits DEF Size

LEMMA MovedChance ==
    ASSUME TypeOK, TypeOK', NEW m \in Message, IsFiniteSet(Chances(m)), NEW b \in Source,
           Number(m, b)' <= Number(m, b) + 1, \A s \in Source \ {b} : Number(m, s)' <= Number(m, s)
    PROVE  /\ IsFiniteSet(Chances(m)') /\ Size(m)' <= Size(m) + 1
           /\ \A a \in Source \ {b} : Number(m, a)' < Number(m, a) => Size(m)' <= Size(m)
  <1> DEFINE N == [s \in Source |-> Number(m, s)]
             M == [s \in Source |-> Number(m, s)']
  <1>1. N \in [Source -> Nat] /\ Chances(m) = Units(Source, N)
    BY ChancesAreUnits
  <1>2. M \in [Source -> Nat] /\ Chances(m)' = Units(Source, M)
    <2>1. M \in [Source -> Nat]
      <3> SUFFICES ASSUME NEW s \in Source PROVE Number(m, s)' \in Nat
        OBVIOUS
      <3> QED
        BY DEF Source, Number, TypeOK, Flight, Task
    <2>2. QED
      BY <2>1 DEF Chances, Units
  <1>3. \A s \in Source : M[s] = Number(m, s)' /\ N[s] = Number(m, s)
    OBVIOUS
  <1> HIDE DEF M, N
  <1>4. QED
    BY <1>1, <1>2, <1>3, MovedUnit DEF Size

LEMMA HasChance ==
    ASSUME TypeOK, NEW m \in Message, IsFiniteSet(Chances(m)), NEW a \in Source, Number(m, a) > 0
    PROVE  1 <= Size(m)
  <1>1. Number(m, a) \in Nat
    BY NumberType
  <1>2. <<a, 1>> \in {a} \X (1..Number(m, a))
    BY <1>1
  <1>3. <<a, 1>> \in Chances(m)
    BY <1>2 DEF Chances
  <1>4. Cardinality(Chances(m)) # 0
    BY <1>3, FS_EmptySet
  <1>5. QED
    BY <1>4, FS_CardinalityType DEF Size

ClientSource == <<"client", NoInstance>>
RowSource == <<"row", NoInstance>>
SendSource == <<"send", NoInstance>>

Sending(m) == compPc = "send" /\ cur.msg = m

LEMMA Sources ==
    /\ \A i \in Instance, k \in {"sync", "async", "fail"} : <<k, i>> \in Source
    /\ \A i \in Instance, k \in {"sync", "async", "fail"} :
          <<k, i>> \notin {ClientSource, RowSource, SendSource}
    /\ ClientSource \in Source /\ RowSource \in Source /\ SendSource \in Source
    /\ ClientSource # RowSource /\ RowSource # SendSource
    /\ \A s \in Source :
          \/ s \in {ClientSource, RowSource, SendSource}
          \/ \E i \in Instance, k \in {"sync", "async", "fail"} : s = <<k, i>>
  BY DEF Source, ClientSource, RowSource, SendSource

(* A step that gives no source but b more. *)
LEMMA NoMoreElsewhere ==
    ASSUME TypeOK, TypeOK', NEW m \in Message, NEW b,
           \A i \in Instance, k \in {"sync", "async"} :
              <<k, i>> # b => flight'[i][<<m, k>>] <= flight[i][<<m, k>>],
           \A i \in Instance : <<"fail", i>> # b => tasks'[i][<<m, "fail">>] <= tasks[i][<<m, "fail">>],
           b # ClientSource /\ Asked(m)' => Asked(m),
           b # RowSource /\ Inviting(m)' => Inviting(m),
           b # SendSource /\ Sending(m)' => Sending(m)
    PROVE  \A s \in Source \ {b} : Number(m, s)' <= Number(m, s)
  <1> SUFFICES ASSUME NEW s \in Source, s # b
               PROVE  Number(m, s)' <= Number(m, s)
    OBVIOUS
  <1>1. CASE \E i \in Instance, k \in {"sync", "async"} : s = <<k, i>>
    BY <1>1 DEF Number
  <1>2. CASE \E i \in Instance : s = <<"fail", i>>
    BY <1>2 DEF Number
  <1>3. CASE s = ClientSource
    BY <1>3 DEF Number, ClientSource
  <1>4. CASE s = RowSource
    BY <1>4 DEF Number, RowSource
  <1>5. CASE s = SendSource
    BY <1>5 DEF Number, SendSource, Sending
  <1>6. QED
    BY <1>1, <1>2, <1>3, <1>4, <1>5, Sources

-------------------------------------------------------------------------------
(* What a step does to a message the client saved.                         *)

(* Most do nothing that matters; *)
Calm(m) ==
    /\ attempts'[m] = attempts[m] /\ Counts(m)' \subseteq Counts(m)
    /\ IsFiniteSet(Chances(m)') /\ Size(m)' <= Size(m)
    /\ Unacked(m) => Unacked(m)'

(* an acknowledgement spends a chance; *)
Ack(m) ==
    /\ attempts'[m] = attempts[m] /\ Counts(m)' \subseteq Counts(m)
    /\ IsFiniteSet(Chances(m)') /\ Size(m)' + 1 <= Size(m)

(* an attempt counts, and takes a chance for granted; *)
Attempt(m) ==
    /\ attempts'[m] = attempts[m] + 1
    /\ \E n \in Counts(m) : n <= RetryLimit /\ Counts(m)' = {n + 1}
    /\ IsFiniteSet(Chances(m)') /\ 1 <= Size(m) /\ Size(m)' <= Size(m)
    /\ Unacked(m) => Unacked(m)'

(* the three ways to lose a count: a row found NORMAL, a call that fails,  *)
(* a crash.                                                                *)
CountLost(m) ==
    /\ attempts'[m] = attempts[m] /\ \A n \in Counts(m)' : n + 1 \in Counts(m)
    /\ IsFiniteSet(Chances(m)')

Settle(m) == CountLost(m) /\ Size(m)' + 1 <= Size(m) /\ ~Unacked(m)

Slip(m) ==
    /\ CountLost(m) /\ Size(m)' <= Size(m) + 1 /\ (Unacked(m) => Unacked(m)')
    /\ Retrying(m) /\ faults' = faults + 1

Break(m) ==
    /\ CountLost(m) /\ Size(m)' <= Size(m) /\ (Unacked(m) => Unacked(m)')
    /\ Retrying(m) /\ crashes' = crashes + 1

(* No more records and tasks of a message than before. *)
FewerSends(m) == \A i \in Instance :
    /\ \A kind \in {"sync", "async"} : flight'[i][<<m, kind>>] <= flight[i][<<m, kind>>]
    /\ \A step \in {"delete", "update", "fail"} : tasks'[i][<<m, step>>] <= tasks[i][<<m, step>>]

(* The task keeps what it has of a message, or drops it, or reads its row. *)
TaskKeeps(m) ==
    /\ Retrying(m)' <=> Retrying(m)
    /\ Retrying(m) => cur'.row.retry = cur.row.retry
    /\ Sending(m)' => Sending(m)
    /\ \A e \in todo' : e.msg = m => e \in todo \/ (process[m] # NoRow /\ e.row = process[m])

RowStays(m) == process'[m] \in {process[m], NoRow}

CountsStay(m) == process'[m] # NoRow => process[m] # NoRow /\ process'[m].retry = process[m].retry

LEMMA StillInviting ==
    ASSUME NEW m \in Message, TaskKeeps(m), RowStays(m), Inviting(m)'
    PROVE  Inviting(m)
  BY DEF TaskKeeps, RowStays, Inviting

LEMMA StillCounted ==
    ASSUME NEW m \in Message, TaskKeeps(m), CountsStay(m)
    PROVE  Counts(m)' \subseteq Counts(m)
  <1>1. CASE Retrying(m)
    BY <1>1 DEF TaskKeeps, Counts
  <1>2. CASE ~Retrying(m)
    BY <1>2 DEF TaskKeeps, CountsStay, Counts
  <1>3. QED
    BY <1>1, <1>2

LEMMA StillUnacked ==
    ASSUME TypeOK, TypeOK', NEW m \in Message, FewerSends(m), Unacked(m),
           process'[m] # NoRow => process'[m].status # "NORMAL"
    PROVE  Unacked(m)'
  <1>1. \A i \in Instance : \A step \in {"delete", "update"} :
           tasks[i][<<m, step>>] \in Nat /\ tasks'[i][<<m, step>>] \in Nat
    BY DEF TypeOK, Task
  <1>2. QED
    BY <1>1 DEF FewerSends, Unacked, Start

LEMMA CalmStep ==
    ASSUME TypeOK, TypeOK', NEW m \in Message, IsFiniteSet(Chances(m)),
           attempts'[m] = attempts[m], FewerSends(m), Asked(m)' => Asked(m), TaskKeeps(m), RowStays(m)
    PROVE  Calm(m)
  <1>1. \A s \in Source : Number(m, s)' <= Number(m, s)
    <2>1. \A s \in Source \ {<<"none", NoInstance>>} : Number(m, s)' <= Number(m, s)
      BY StillInviting, NoMoreElsewhere DEF FewerSends, TaskKeeps
    <2>2. <<"none", NoInstance>> \notin Source
      BY DEF Source
    <2>3. QED
      BY <2>1, <2>2
  <1>2. IsFiniteSet(Chances(m)') /\ Size(m)' <= Size(m)
    BY <1>1, FewerChances
  <1>3. Counts(m)' \subseteq Counts(m)
    BY StillCounted DEF RowStays, CountsStay
  <1>4. Unacked(m) => Unacked(m)'
    BY StillUnacked DEF RowStays, Unacked
  <1>5. QED
    BY <1>2, <1>3, <1>4 DEF Calm

LEMMA SameSends ==
    ASSUME TypeOK, NEW m \in Message, UNCHANGED <<flight, tasks>>
    PROVE  FewerSends(m)
  <1>1. /\ \A i \in Instance : \A kind \in {"sync", "async"} : flight[i][<<m, kind>>] \in Nat
        /\ \A i \in Instance : \A step \in {"delete", "update", "fail"} : tasks[i][<<m, step>>] \in Nat
    BY DEF TypeOK, Flight, Task
  <1>2. QED
    BY <1>1 DEF FewerSends

(* A chance moves: a source that had one loses it, and b gets it. *)
LEMMA Traded ==
    ASSUME TypeOK, TypeOK', NEW m \in Message, IsFiniteSet(Chances(m)),
           NEW a \in Source, NEW b \in Source \ {a},
           Number(m, a)' < Number(m, a), Number(m, b)' <= Number(m, b) + 1,
           \A s \in Source \ {b} : Number(m, s)' <= Number(m, s)
    PROVE  IsFiniteSet(Chances(m)') /\ Size(m)' <= Size(m)
  BY MovedChance

LEMMA ClientStep ==
    ASSUME TypeOK, TypeOK', Copies, NEW x \in Message, saved[x], IsFiniteSet(Chances(x)),
           NEW m \in Message, Client(m) \/ ClientCrash(m) \/ RejectRequest(m)
    PROVE  Calm(x)
  <1>1. UNCHANGED <<flight, tasks, compPc, todo, cur, attempts>>
    BY DEF Client, ClientCrash, RejectRequest, SaveReady, Proceed, NotSent, Return,
           MarkFail, SaveFail, compVars, sendVars
  <1>2. FewerSends(x) /\ TaskKeeps(x)
    BY <1>1, SameSends DEF TaskKeeps, Retrying, Sending
  <1>3. CASE m # x
    <2>1. \A y \in Message : y # m => UNCHANGED <<clientPc[y], request[y], process[y]>>
      BY DEF Client, ClientCrash, RejectRequest, SaveReady, Proceed, NotSent, Return,
             MarkFail, SaveFail, SetPc, SaveRow, SetStatus, TypeOK, storeVars
    <2>2. QED
      BY <1>1, <1>2, <1>3, <2>1, CalmStep DEF RowStays, Asked
  <1>4. CASE Proceed(x) \/ NotSent(x) \/ Return(x) \/ ClientCrash(x) \/ RejectRequest(x)
    <2>1. UNCHANGED process
      BY <1>4 DEF Proceed, NotSent, Return, ClientCrash, RejectRequest, storeVars
    <2>2. Asked(x)' => Asked(x)
      BY <1>4 DEF Proceed, NotSent, Return, ClientCrash, RejectRequest, SetPc, Asked, TypeOK
    <2>3. QED
      BY <1>1, <1>2, <2>1, <2>2, CalmStep DEF RowStays
  <1>5. CASE MarkFail(x)
    <2>1. Asked(x) /\ ~Asked(x)'
      BY <1>5 DEF MarkFail, SetPc, Asked, TypeOK, Copies, ClientOnce
    <2>2. PICK o \in Outcome : MarkFail(x)!(o)
      BY <1>5 DEF MarkFail
    <2>3. RowKept(x) /\ (process'[x] # NoRow => process'[x].status \in {"FAIL", process[x].status})
      <3>1. RowKept(x)
        BY <2>2, RowUpdates DEF Status
      <3>2. UNCHANGED process \/ (process' = [process EXCEPT ![x].status = "FAIL"] /\ process[x] # NoRow)
        BY <2>2 DEF SetStatus
      <3>3. QED
        BY <3>1, <3>2 DEF TypeOK, Row
    <2>4. Number(x, ClientSource)' < Number(x, ClientSource)
      BY <2>1 DEF Number, ClientSource
    <2>5. Number(x, RowSource)' <= Number(x, RowSource) + 1
      BY DEF Number, RowSource
    <2>6. \A s \in Source \ {RowSource} : Number(x, s)' <= Number(x, s)
      BY <1>2, <2>1, NoMoreElsewhere DEF FewerSends, TaskKeeps
    <2>7. ClientSource \in Source /\ RowSource \in Source \ {ClientSource}
      BY Sources
    <2>8. IsFiniteSet(Chances(x)') /\ Size(x)' <= Size(x)
      BY <2>4, <2>5, <2>6, <2>7, Traded
    <2>9. Counts(x)' \subseteq Counts(x)
      BY <1>2, <2>3, StillCounted DEF RowKept, CountsStay
    <2>10. Unacked(x) => Unacked(x)'
      BY <1>2, <2>3, StillUnacked DEF RowKept, Unacked
    <2>11. QED
      BY <1>1, <2>8, <2>9, <2>10 DEF Calm
  <1>6. ~SaveReady(x) /\ ~SaveFail(x)
    BY DEF SaveReady, SaveFail, Copies, Untouched, ClientOnce
  <1>7. QED
    BY <1>3, <1>4, <1>5, <1>6 DEF Client

(* A callback task touches the counters of the call it makes and of the    *)
(* next one only.                                                          *)
LEMMA OtherTasks ==
    ASSUME TypeOK, NEW m \in Message, NEW i \in Instance,
           NEW step \in {"delete", "update", "log", "fail"}, Start(m, i, step),
           NEW next \in {"delete", "update", "log", "fail"},
           Finish(m, i, step) \/ GoOn(m, i, step, next),
           NEW other \in {"delete", "update", "log", "fail"} \ {step, next}, NEW j \in Instance
    PROVE  tasks'[j][<<m, other>>] = tasks[j][<<m, other>>]
  <1> DEFINE less == [tasks EXCEPT ![i][<<m, step>>] = @ - 1]
  <1>1. /\ <<m, step>> \in Task /\ <<m, next>> \in Task /\ <<m, other>> \in Task
        /\ <<m, other>> # <<m, step>> /\ <<m, other>> # <<m, next>>
    BY DEF Task
  <1>2. tasks \in [Instance -> [Task -> Nat]]
    BY DEF TypeOK
  <1>3. less[j][<<m, other>>] = tasks[j][<<m, other>>] /\ less \in [Instance -> [Task -> Nat]]
    BY <1>1, <1>2, BagCount, BagType DEF Start
  <1>4. CASE Finish(m, i, step)
    BY <1>3, <1>4 DEF Finish
  <1>5. CASE GoOn(m, i, step, next)
    <2>1. tasks' = [less EXCEPT ![i][<<m, next>>] = @ + 1]
      BY <1>5 DEF GoOn
    <2> HIDE DEF less
    <2>2. [less EXCEPT ![i][<<m, next>>] = @ + 1][j][<<m, other>>] = less[j][<<m, other>>]
      BY <1>1, <1>3, BagCount
    <2>3. QED
      BY <1>3, <2>1, <2>2
  <1>6. QED
    BY <1>4, <1>5

LEMMA CallbackStep ==
    ASSUME TypeOK, TypeOK', NEW x \in Message, IsFiniteSet(Chances(x)),
           NEW i \in Instance, Callback(x, i)
    PROVE  Calm(x)
  <1>1. UNCHANGED <<flight, compPc, todo, cur, attempts, clientPc, request>>
    BY DEF Callback, CallbackDelete, CallbackUpdate, CallbackLog, CallbackFail, clientVars, compVars
  <1>2. TaskKeeps(x) /\ (Asked(x)' => Asked(x)) /\ (Sending(x)' => Sending(x))
    BY <1>1 DEF TaskKeeps, Retrying, Sending, Asked
  <1>3. /\ \A j \in Instance : \A kind \in {"sync", "async"} :
              flight'[j][<<x, kind>>] <= flight[j][<<x, kind>>]
        /\ \A j \in Instance : \A step \in {"delete", "update", "fail"} : tasks[j][<<x, step>>] \in Nat
    BY <1>1 DEF TypeOK, Flight, Task
  <1>4. CASE CallbackDelete(x, i) \/ CallbackUpdate(x, i)
    <2>1. PICK step \in {"delete", "update"}, next \in {"update", "log"} :
             Start(x, i, step) /\ (Finish(x, i, step) \/ GoOn(x, i, step, next))
      BY <1>4 DEF CallbackDelete, CallbackUpdate
    <2>2. ~Unacked(x)
      BY <2>1 DEF Unacked
    <2>3. \A j \in Instance : tasks'[j][<<x, "fail">>] <= tasks[j][<<x, "fail">>]
      BY <1>3, <2>1, OtherTasks
    <2>4. RowKept(x) /\ (process'[x] # NoRow => process'[x].status \in {"NORMAL", process[x].status})
      <3>1. RowKept(x)
        BY <1>4, RowUpdates DEF CallbackDelete, CallbackUpdate, Status
      <3>2. \/ UNCHANGED process \/ process' = [process EXCEPT ![x] = NoRow]
            \/ process' = [process EXCEPT ![x].status = "NORMAL"] /\ process[x] # NoRow
        BY <1>4 DEF CallbackDelete, CallbackUpdate, SetStatus, DeleteRow
      <3>3. QED
        BY <3>1, <3>2 DEF TypeOK, Row
    <2>5. Inviting(x)' => Inviting(x)
      BY <1>1, <2>4 DEF RowKept, Inviting, Open, Retrying
    <2>6. \A s \in Source \ {<<"none", NoInstance>>} : Number(x, s)' <= Number(x, s)
      BY <1>2, <1>3, <2>3, <2>5, NoMoreElsewhere
    <2>7. \A s \in Source : Number(x, s)' <= Number(x, s)
      BY <2>6 DEF Source
    <2>8. IsFiniteSet(Chances(x)') /\ Size(x)' <= Size(x)
      BY <2>7, FewerChances
    <2>9. Counts(x)' \subseteq Counts(x)
      BY <1>2, <2>4, StillCounted DEF RowKept, CountsStay
    <2>10. QED
      BY <1>1, <2>2, <2>8, <2>9 DEF Calm
  <1>5. CASE CallbackLog(x, i)
    <2>1. FewerSends(x)
      <3>1. Start(x, i, "log") /\ Finish(x, i, "log")
        BY <1>5 DEF CallbackLog
      <3>2. \A j \in Instance : \A other \in {"delete", "update", "fail"} :
               tasks'[j][<<x, other>>] = tasks[j][<<x, other>>]
        BY <3>1, OtherTasks
      <3>3. QED
        BY <1>3, <3>2 DEF FewerSends
    <2>2. UNCHANGED process
      BY <1>5 DEF CallbackLog
    <2>3. QED
      BY <1>1, <1>2, <2>1, <2>2, CalmStep DEF RowStays
  <1>6. CASE CallbackFail(x, i)
    <2>1. Start(x, i, "fail") /\ Finish(x, i, "fail")
      BY <1>6 DEF CallbackFail
    <2>2. \A j \in Instance : \A other \in {"delete", "update"} :
             tasks'[j][<<x, other>>] = tasks[j][<<x, other>>]
      BY <2>1, OtherTasks
    <2>3. /\ tasks'[i][<<x, "fail">>] < tasks[i][<<x, "fail">>]
          /\ \A j \in Instance : tasks'[j][<<x, "fail">>] <= tasks[j][<<x, "fail">>]
      <3>1. tasks \in [Instance -> [Task -> Nat]] /\ <<x, "fail">> \in Task
        BY DEF TypeOK, Task
      <3>2. tasks' = [tasks EXCEPT ![i][<<x, "fail">>] = @ - 1]
        BY <2>1 DEF Finish
      <3>3. tasks'[i][<<x, "fail">>] = tasks[i][<<x, "fail">>] - 1
        BY <3>1, <3>2
      <3>4. \A j \in Instance : j # i => tasks'[j] = tasks[j]
        BY <3>1, <3>2
      <3>5. QED
        BY <1>3, <3>3, <3>4
    <2>4. FewerSends(x)
      BY <1>3, <2>2, <2>3 DEF FewerSends
    <2>5. RowKept(x) /\ (process'[x] # NoRow => process'[x].status \in {"FAIL", process[x].status})
      <3>1. RowKept(x)
        BY <1>6, RowUpdates DEF CallbackFail, Status
      <3>2. UNCHANGED process \/ (process' = [process EXCEPT ![x].status = "FAIL"] /\ process[x] # NoRow)
        BY <1>6 DEF CallbackFail, SetStatus
      <3>3. QED
        BY <3>1, <3>2 DEF TypeOK, Row
    <2> DEFINE fail == <<"fail", i>>
    <2>6. /\ fail \in Source /\ RowSource \in Source \ {fail} /\ Number(x, fail)' < Number(x, fail)
          /\ Number(x, RowSource)' <= Number(x, RowSource) + 1
      <3>1. fail \in Source /\ RowSource \in Source \ {fail}
        BY Sources
      <3>2. Number(x, fail)' < Number(x, fail)
        BY <2>3 DEF Number
      <3>3. Number(x, RowSource)' <= Number(x, RowSource) + 1
        BY DEF Number, RowSource
      <3>4. QED
        BY <3>1, <3>2, <3>3
    <2>7. \A s \in Source \ {RowSource} : Number(x, s)' <= Number(x, s)
      BY <1>2, <2>4, NoMoreElsewhere DEF FewerSends
    <2>8. IsFiniteSet(Chances(x)') /\ Size(x)' <= Size(x)
      BY <2>6, <2>7, Traded
    <2>9. Counts(x)' \subseteq Counts(x)
      BY <1>2, <2>5, StillCounted DEF RowKept, CountsStay
    <2>10. Unacked(x) => Unacked(x)'
      BY <2>4, <2>5, StillUnacked DEF RowKept, Unacked
    <2>11. QED
      BY <1>1, <2>8, <2>9, <2>10 DEF Calm
  <1>7. QED
    BY <1>4, <1>5, <1>6 DEF Callback

LEMMA SendStep ==
    ASSUME TypeOK, TypeOK', Copies, NEW x \in Message, saved[x], IsFiniteSet(Chances(x)),
           NEW m \in Message, NEW i \in Instance,
           \/ SendMQ(m, i) \/ Callback(m, i)
           \/ \E kind \in {"sync", "async"} : BrokerAck(m, kind, i) \/ BrokerError(m, kind, i)
    PROVE  Calm(x) \/ Ack(x)
  <1>1. UNCHANGED <<compPc, todo, cur, attempts, clientPc>>
    BY DEF SendMQ, Callback, CallbackDelete, CallbackUpdate, CallbackLog, CallbackFail,
           BrokerAck, BrokerError, clientVars, compVars
  <1>2. TaskKeeps(x)
    BY <1>1 DEF TaskKeeps, Retrying, Sending
  <1>3. /\ \A j \in Instance : \A kind \in {"sync", "async"} : flight[j][<<x, kind>>] \in Nat
        /\ \A j \in Instance : \A step \in {"delete", "update", "fail"} : tasks[j][<<x, step>>] \in Nat
    BY DEF TypeOK, Flight, Task
  <1>4. CASE m # x
    <2>1. FewerSends(x)
      <3>1. \A j \in Instance : /\ \A k \in {"sync", "async"} : flight'[j][<<x, k>>] = flight[j][<<x, k>>]
                                /\ \A step \in {"delete", "update", "log", "fail"} :
                                      tasks'[j][<<x, step>>] = tasks[j][<<x, step>>]
        BY <1>4, SendElsewhere
      <3>2. QED
        BY <1>3, <3>1 DEF FewerSends
    <2>2. process'[x] = process[x]
      BY <1>4 DEF SendMQ, Callback, CallbackDelete, CallbackUpdate, CallbackLog, CallbackFail,
                  BrokerAck, BrokerError, storeVars, SetStatus, DeleteRow, TypeOK
    <2>3. request'[x] = request[x]
      BY <1>4 DEF SendMQ, Callback, CallbackDelete, CallbackUpdate, CallbackLog, CallbackFail,
                  BrokerAck, BrokerError, clientVars, TypeOK
    <2>4. QED
      BY <1>1, <1>2, <2>1, <2>2, <2>3, CalmStep DEF RowStays, Asked
  <1>5. CASE Callback(x, i)
    BY <1>5, CallbackStep
  <1>6. CASE SendMQ(x, i)
    <2>1. PICK kind \in {"sync", "async"} : flight' = Accepted(i, <<x, kind>>)
      BY <1>6, ConstantsOK DEF SendMQ
    <2>2. UNCHANGED <<process, tasks>>
      BY <1>6 DEF SendMQ, storeVars
    <2>3. Asked(x) /\ ~Asked(x)'
      BY <1>6 DEF SendMQ, Asked, TypeOK, Copies, ClientOnce
    <2> DEFINE new == <<kind, i>>
    <2>4. \A j \in Instance, k \in {"sync", "async"} :
             /\ flight'[j][<<x, k>>] <= flight[j][<<x, k>>] + 1
             /\ <<k, j>> # new => flight'[j][<<x, k>>] <= flight[j][<<x, k>>]
      <3>1. flight \in [Instance -> [Flight -> Nat]] /\ \A k \in {"sync", "async"} : <<x, k>> \in Flight
        BY DEF TypeOK, Flight
      <3>2. flight' = [flight EXCEPT ![i][<<x, kind>>] = @ + 1]
        BY <2>1 DEF Accepted
      <3>3. flight'[i][<<x, kind>>] = flight[i][<<x, kind>>] + 1
        BY <3>1, <3>2
      <3>4. \A j \in Instance : j # i => flight'[j] = flight[j]
        BY <3>1, <3>2
      <3>5. \A k \in {"sync", "async"} \ {kind} : flight'[i][<<x, k>>] = flight[i][<<x, k>>]
        BY <3>1, <3>2
      <3>6. QED
        BY <1>3, <3>3, <3>4, <3>5
    <2>5. /\ ClientSource \in Source /\ new \in Source \ {ClientSource}
          /\ Number(x, ClientSource)' < Number(x, ClientSource)
          /\ Number(x, new)' <= Number(x, new) + 1
      <3>1. ClientSource \in Source /\ new \in Source \ {ClientSource}
        BY Sources
      <3>2. Number(x, ClientSource)' < Number(x, ClientSource)
        BY <2>3 DEF Number, ClientSource
      <3>3. Number(x, new)' <= Number(x, new) + 1
        BY <2>4 DEF Number
      <3>4. QED
        BY <3>1, <3>2, <3>3
    <2>6. Inviting(x)' => Inviting(x)
      BY <1>2, <2>2, StillInviting DEF RowStays
    <2>7. \A s \in Source \ {new} : Number(x, s)' <= Number(x, s)
      <3>1. \A j \in Instance : tasks'[j][<<x, "fail">>] <= tasks[j][<<x, "fail">>]
        BY <1>3, <2>2
      <3>2. Sending(x)' => Sending(x)
        BY <1>2 DEF TaskKeeps
      <3> HIDE DEF new
      <3>3. QED
        BY <2>3, <2>4, <2>6, <3>1, <3>2, NoMoreElsewhere
    <2>8. IsFiniteSet(Chances(x)') /\ Size(x)' <= Size(x)
      BY <2>5, <2>7, Traded
    <2>9. Counts(x)' \subseteq Counts(x)
      BY <1>2, <2>2, StillCounted DEF CountsStay
    <2>10. Unacked(x) => Unacked(x)'
      BY <2>2 DEF Unacked, Start
    <2>11. QED
      BY <1>1, <2>8, <2>9, <2>10 DEF Calm
  <1>7. ASSUME NEW kind \in {"sync", "async"}, BrokerAck(x, kind, i) \/ BrokerError(x, kind, i)
        PROVE  Calm(x) \/ Ack(x)
    <2>1. UNCHANGED <<process, request>>
      BY <1>7 DEF BrokerAck, BrokerError, storeVars, clientVars
    <2> DEFINE old == <<kind, i>>
               fail == <<"fail", i>>
    <2>2. /\ \A j \in Instance, k \in {"sync", "async"} : flight'[j][<<x, k>>] <= flight[j][<<x, k>>]
          /\ flight'[i][<<x, kind>>] < flight[i][<<x, kind>>]
      <3>1. flight \in [Instance -> [Flight -> Nat]] /\ \A k \in {"sync", "async"} : <<x, k>> \in Flight
        BY DEF TypeOK, Flight
      <3>2. flight' = [flight EXCEPT ![i][<<x, kind>>] = @ - 1]
        BY <1>7 DEF BrokerAck, BrokerError, Completed
      <3>3. QED
        BY <3>1, <3>2
    <2>3. tasks \in [Instance -> [Task -> Nat]] /\ \A step \in {"delete", "update", "fail"} : <<x, step>> \in Task
      BY DEF TypeOK, Task
    <2>4. Inviting(x)' => Inviting(x)
      BY <1>2, <2>1, StillInviting DEF RowStays
    <2>5. Counts(x)' \subseteq Counts(x)
      BY <1>2, <2>1, StillCounted DEF CountsStay
    <2>6. (Asked(x)' => Asked(x)) /\ (Sending(x)' => Sending(x))
      BY <1>1, <2>1 DEF Asked, Sending
    <2>7. old \in Source /\ fail \in Source /\ old # fail /\ Number(x, old)' < Number(x, old)
      <3>1. old \in Source /\ fail \in Source /\ old # fail
        BY Sources
      <3>2. Number(x, old)' < Number(x, old)
        BY <2>2 DEF Number
      <3>3. QED
        BY <3>1, <3>2
    <2>8. CASE BrokerAck(x, kind, i)
      <3>1. PICK n \in {1, 2} : tasks' = [tasks EXCEPT ![i][<<x, "delete">>] = @ + n]
        BY <2>8 DEF BrokerAck
      <3>2. \A j \in Instance : tasks'[j][<<x, "fail">>] <= tasks[j][<<x, "fail">>]
        BY <2>3, <3>1
      <3>3. \A s \in Source \ {<<"none", NoInstance>>} : Number(x, s)' <= Number(x, s)
        BY <2>2, <2>4, <2>6, <3>2, NoMoreElsewhere
      <3>4. \A s \in Source : Number(x, s)' <= Number(x, s)
        BY <3>3 DEF Source
      <3>5. IsFiniteSet(Chances(x)') /\ Size(x)' + 1 <= Size(x)
        BY <2>7, <3>4, FewerChances
      <3>6. QED
        BY <1>1, <2>5, <3>5 DEF Ack
    <2>9. CASE BrokerError(x, kind, i)
      <3>1. UNCHANGED tasks \/ tasks' = [tasks EXCEPT ![i][<<x, "fail">>] = @ + 1]
        BY <2>9 DEF BrokerError
      <3>2. \A j \in Instance : /\ tasks'[j][<<x, "fail">>] <= tasks[j][<<x, "fail">>] + 1
                                /\ <<"fail", j>> # fail => tasks'[j][<<x, "fail">>] <= tasks[j][<<x, "fail">>]
                                /\ \A step \in {"delete", "update"} : tasks'[j][<<x, step>>] = tasks[j][<<x, step>>]
        BY <2>3, <3>1
      <3>3. \A s \in Source \ {fail} : Number(x, s)' <= Number(x, s)
        BY <2>2, <2>4, <2>6, <3>2, NoMoreElsewhere
      <3>4. Number(x, fail)' <= Number(x, fail) + 1
        BY <3>2 DEF Number
      <3>5. IsFiniteSet(Chances(x)') /\ Size(x)' <= Size(x)
        BY <2>7, <3>3, <3>4, Traded
      <3>6. Unacked(x) => Unacked(x)'
        BY <2>1, <3>2 DEF Unacked, Start
      <3>7. QED
        BY <1>1, <2>5, <3>5, <3>6 DEF Calm
    <2>10. QED
      BY <1>7, <2>8, <2>9
  <1>8. QED
    BY <1>4, <1>5, <1>6, <1>7

(* The compensation task begins an attempt. *)
LEMMA HandleStep ==
    ASSUME TypeOK, TypeOK', Copies, NEW x \in Message, saved[x], IsFiniteSet(Chances(x)), HandleRow
    PROVE  Calm(x) \/ Attempt(x)
  <1>1. PICK e \in todo : HandleRow!(e)
    BY DEF HandleRow
  <1>2. /\ UNCHANGED <<clientPc, request, process, flight, tasks>>
        /\ todo' = todo \ {e} /\ compPc = "row" /\ compPc' \in {"check", "log", "verdict"}
    BY <1>1 DEF clientVars, storeVars, sendVars
  <1>3. e \in Entry /\ e.msg \in Message
    BY DEF TypeOK, Entry
  <1>4. FewerSends(x) /\ (Asked(x)' => Asked(x)) /\ RowStays(x) /\ ~Sending(x)' /\ ~Retrying(x)
    BY <1>2, SameSends DEF Asked, RowStays, Sending, Retrying
  <1>5. CASE ~(e.msg = x /\ ShouldReSend(e))
    <2>1. attempts'[x] = attempts[x]
      BY <1>1, <1>3, <1>5 DEF TypeOK
    <2>2. ~Retrying(x)'
      BY <1>1, <1>3, <1>5 DEF Retrying, Entry, Row, ShouldReSend
    <2>3. TaskKeeps(x)
      BY <1>2, <1>4, <2>2 DEF TaskKeeps
    <2>4. QED
      BY <1>4, <2>1, <2>3, CalmStep
  <1>6. CASE e.msg = x /\ ShouldReSend(e)
    <2>1. /\ Retrying(x)' /\ cur'.row.retry = e.row.retry + 1
          /\ attempts'[x] = attempts[x] + 1
      BY <1>1, <1>2, <1>3, <1>6 DEF TypeOK, Retrying, Entry, Row, ShouldReSend
    <2>2. Counts(x)' = {e.row.retry + 1} /\ e.row.retry \in Counts(x)
      BY <1>4, <1>6, <2>1 DEF Counts
    <2>3. e.row.retry <= RetryLimit
      BY <1>3, <1>6, ConstantsOK DEF ShouldReSend, CheckMessageDeaded, Copies, ReadyIsFirst, Entry, Row
    <2>4. Inviting(x)
      BY <1>6 DEF Inviting, Open, ShouldReSend
    <2>5. Number(x, RowSource) > 0 /\ RowSource \in Source
      BY <2>4, Sources DEF Number, RowSource
    <2>6. 1 <= Size(x)
      BY <2>5, HasChance
    <2>7. \A s \in Source \ {<<"none", NoInstance>>} : Number(x, s)' <= Number(x, s)
      BY <1>4, <2>4, NoMoreElsewhere DEF FewerSends
    <2>8. \A s \in Source : Number(x, s)' <= Number(x, s)
      BY <2>7 DEF Source
    <2>9. IsFiniteSet(Chances(x)') /\ Size(x)' <= Size(x)
      BY <2>8, FewerChances
    <2>10. Unacked(x) => Unacked(x)'
      BY <1>2 DEF Unacked, Start
    <2>11. QED
      BY <2>1, <2>2, <2>3, <2>6, <2>9, <2>10 DEF Attempt
  <1>7. QED
    BY <1>5, <1>6

(* It looks the row up again, and may give the attempt up: its copy then   *)
(* goes, and with it the count, unless the row was deleted meanwhile.      *)
LEMMA CheckStep ==
    ASSUME TypeOK, TypeOK', Copies, NEW x \in Message, saved[x], IsFiniteSet(Chances(x)), CheckStatus
    PROVE  Calm(x) \/ Settle(x) \/ Slip(x)
  <1>1. PICK o \in {"ok", "lost"} : CheckStatus!(o)
    BY DEF CheckStatus
  <1>2. UNCHANGED <<clientPc, request, process, flight, tasks, todo, attempts>> /\ compPc = "check"
    BY <1>1 DEF clientVars, storeVars, sendVars
  <1>3. cur \in Entry /\ cur.msg \in Message /\ cur.row \in Row
    BY <1>2 DEF TypeOK, Handling, Entry
  <1>4. cur'.msg = cur.msg /\ cur'.row.retry = cur.row.retry /\ compPc' \in {"compensate", "verdict"}
    BY <1>1, <1>3 DEF Entry, Row
  <1>5. FewerSends(x) /\ (Asked(x)' => Asked(x)) /\ RowStays(x) /\ ~Sending(x)'
    BY <1>2, <1>4, SameSends DEF Asked, RowStays, Sending
  <1>6. CASE cur.msg # x \/ compPc' = "compensate"
    <2>1. TaskKeeps(x)
      BY <1>2, <1>4, <1>5, <1>6 DEF TaskKeeps, Retrying
    <2>2. QED
      BY <1>2, <1>5, <2>1, CalmStep
  <1>7. CASE cur.msg = x /\ compPc' = "verdict"
    <2>1. Retrying(x) /\ ~Retrying(x)' /\ Inviting(x)
      BY <1>2, <1>7 DEF Retrying, Inviting
    <2>2. \A f \in todo : f.msg # x
      BY <1>2, <1>7 DEF Copies, OneCopy, Handling
    <2>3. Counts(x) = {cur.row.retry}
      BY <2>1 DEF Counts
    <2>4. \A n \in Counts(x)' : process[x] # NoRow /\ n = process[x].retry
      BY <1>2, <2>1, <2>2 DEF Counts
    <2>5. process[x] # NoRow => cur.row.retry = process[x].retry + 1
      BY <2>1 DEF Copies, Agree
    <2>6. \A n \in Counts(x)' : n + 1 \in Counts(x)
      BY <2>3, <2>4, <2>5
    <2>7. \A s \in Source \ {<<"none", NoInstance>>} : Number(x, s)' <= Number(x, s)
      BY <1>5, <2>1, NoMoreElsewhere DEF FewerSends
    <2>8. \A s \in Source : Number(x, s)' <= Number(x, s)
      BY <2>7 DEF Source
    <2>9. IsFiniteSet(Chances(x)') /\ Size(x)' <= Size(x)
      BY <2>8, FewerChances
    <2>10. Unacked(x) => Unacked(x)'
      BY <1>2 DEF Unacked, Start
    <2>11. Size(x) \in Nat
      BY FS_CardinalityType DEF Size
    <2>12. CASE o = "lost"
      <3>1. faults' = faults + 1
        BY <1>1, <2>12 DEF Call
      <3>2. Size(x)' \in Nat
        BY <2>9, FS_CardinalityType DEF Size
      <3>3. QED
        BY <1>2, <2>1, <2>6, <2>9, <2>10, <2>11, <3>1, <3>2 DEF Slip, CountLost
    <2>13. CASE process[x] = NoRow
      BY <1>2, <2>4, <2>9, <2>10, <2>13 DEF Calm
    <2>14. CASE process[x] # NoRow /\ process[x].status = "NORMAL"
      <3>1. ~Unacked(x)
        BY <2>14 DEF Unacked
      <3>2. ~Inviting(x)'
        BY <1>2, <2>1, <2>2, <2>14 DEF Inviting, Open
      <3>3. Number(x, RowSource)' < Number(x, RowSource) /\ RowSource \in Source
        BY <2>1, <3>2, Sources DEF Number, RowSource
      <3>4. Size(x)' + 1 <= Size(x)
        BY <2>8, <3>3, FewerChances
      <3>5. QED
        BY <1>2, <2>6, <2>9, <3>1, <3>4 DEF Settle, CountLost
    <2>15. QED
      BY <1>1, <1>7, <2>12, <2>13, <2>14
  <1>8. QED
    BY <1>4, <1>6, <1>7

(* It saves its copy, which is when the count reaches the store. *)
LEMMA SaveStep ==
    ASSUME TypeOK, TypeOK', Evidence, Copies, NEW x \in Message, saved[x], IsFiniteSet(Chances(x)),
           SaveCompensate
    PROVE  Calm(x) \/ Slip(x)
  <1>1. PICK o \in Outcome : SaveCompensate!(o)
    BY DEF SaveCompensate
  <1>2. /\ UNCHANGED <<clientPc, request, flight, tasks, todo, cur, attempts>>
        /\ compPc = "compensate" /\ compPc' = "send"
    BY <1>1 DEF clientVars, sendVars
  <1>3. cur.msg \in Message /\ cur.row \in Row /\ cur.row # NoRow /\ cur.row.status = "COMPENSATE"
    BY <1>2, ConstantsOK DEF TypeOK, Handling, Entry, Evidence
  <1>4. FewerSends(x) /\ (Asked(x)' => Asked(x)) /\ ~Sending(x) /\ ~Retrying(x)'
    BY <1>2, SameSends DEF Asked, Sending, Retrying
  <1>5. CASE cur.msg # x
    <2>1. RowStays(x)
      BY <1>1, <1>5 DEF SaveRow, RowStays, TypeOK
    <2>2. TaskKeeps(x)
      BY <1>2, <1>5 DEF TaskKeeps, Retrying, Sending
    <2>3. QED
      BY <1>2, <1>4, <2>1, <2>2, CalmStep
  <1>6. CASE cur.msg = x
    <2>1. Retrying(x) /\ Inviting(x) /\ Counts(x) = {cur.row.retry}
      BY <1>2, <1>6 DEF Retrying, Inviting, Counts
    <2>2. \A f \in todo : f.msg # x
      BY <1>2, <1>6 DEF Copies, OneCopy, Handling
    <2>3. \A s \in Source \ {SendSource} : Number(x, s)' <= Number(x, s)
      BY <1>4, <2>1, NoMoreElsewhere DEF FewerSends
    <2>4. Number(x, SendSource)' <= Number(x, SendSource) + 1
      BY DEF Number, SendSource
    <2>5. Counts(x)' = IF process'[x] = NoRow THEN {} ELSE {process'[x].retry}
      BY <1>2, <1>4, <2>2 DEF Counts
    <2>6. CASE o = "lost"
      <3>1. UNCHANGED process /\ faults' = faults + 1
        BY <1>1, <2>6 DEF SaveRow, Applied, Call
      <3>2. process[x] # NoRow => cur.row.retry = process[x].retry + 1
        BY <2>1 DEF Copies, Agree
      <3>3. \A n \in Counts(x)' : n + 1 \in Counts(x)
        BY <2>1, <2>5, <3>1, <3>2
      <3>4. IsFiniteSet(Chances(x)') /\ Size(x)' <= Size(x) + 1
        BY <2>3, <2>4, Sources, MovedChance
      <3>5. Unacked(x) => Unacked(x)'
        BY <1>2, <3>1 DEF Unacked, Start
      <3>6. QED
        BY <1>2, <2>1, <3>1, <3>3, <3>4, <3>5 DEF Slip, CountLost
    <2>7. CASE o # "lost"
      <3>1. process'[x] = cur.row
        BY <1>1, <1>3, <1>6, <2>7 DEF SaveRow, Applied, TypeOK
      <3>2. Counts(x)' \subseteq Counts(x)
        BY <1>3, <2>1, <2>5, <3>1
      <3>3. ~Inviting(x)'
        BY <1>2, <1>3, <1>4, <2>2, <3>1 DEF Inviting, Open
      <3>4. Number(x, RowSource)' < Number(x, RowSource)
        BY <2>1, <3>3 DEF Number, RowSource
      <3>5. RowSource \in Source /\ SendSource \in Source \ {RowSource}
        BY Sources
      <3>6. IsFiniteSet(Chances(x)') /\ Size(x)' <= Size(x)
        BY <2>3, <2>4, <3>4, <3>5, Traded
      <3>7. Unacked(x) => Unacked(x)'
        BY <1>2, <1>3, <3>1 DEF Unacked, Start
      <3>8. QED
        BY <1>2, <3>2, <3>6, <3>7 DEF Calm
    <2>8. QED
      BY <2>6, <2>7
  <1>7. QED
    BY <1>5, <1>6

(* It hands the record to a producer. *)
LEMMA ResendStep ==
    ASSUME TypeOK, TypeOK', NEW x \in Message, IsFiniteSet(Chances(x)), CompensateSendMQ
    PROVE  Calm(x)
  <1>1. /\ UNCHANGED <<clientPc, request, process, tasks, todo, cur, attempts>>
        /\ compPc = "send" /\ compPc' = "verdict"
    BY DEF CompensateSendMQ, Step, clientVars, storeVars
  <1>2. cur.msg \in Message
    BY <1>1 DEF TypeOK, Handling, Entry
  <1>i. PICK i \in Instance : i = lock
    BY <1>1 DEF TypeOK
  <1>3. TaskKeeps(x) /\ RowStays(x) /\ (Asked(x)' => Asked(x)) /\ ~Sending(x)'
    BY <1>1 DEF TaskKeeps, Retrying, Sending, RowStays, Asked
  <1>4. flight \in [Instance -> [Flight -> Nat]] /\ \A y \in Message, k \in {"sync", "async"} : <<y, k>> \in Flight
    BY DEF TypeOK, Flight
  <1>5. flight' = [flight EXCEPT ![i][<<cur.msg, "async">>] = @ + 1] \/ UNCHANGED flight
    BY <1>i DEF CompensateSendMQ, Accepted
  <1>6. /\ \A j \in Instance : flight[j][<<x, "async">>] \in Nat /\ flight[j][<<x, "sync">>] \in Nat
        /\ \A j \in Instance : \A step \in {"delete", "update", "fail"} :
              tasks'[j][<<x, step>>] <= tasks[j][<<x, step>>]
    BY <1>1 DEF TypeOK, Flight, Task
  <1>7. /\ \A j \in Instance : j # i => flight'[j] = flight[j]
        /\ flight'[i][<<x, "sync">>] = flight[i][<<x, "sync">>]
        /\ cur.msg # x => flight'[i][<<x, "async">>] = flight[i][<<x, "async">>]
        /\ flight'[i][<<x, "async">>] <= flight[i][<<x, "async">>] + 1
    <2>1. CASE UNCHANGED flight
      BY <1>6, <2>1
    <2>2. CASE flight' = [flight EXCEPT ![i][<<cur.msg, "async">>] = @ + 1]
      <3>1. \A j \in Instance : j # i => flight'[j] = flight[j]
        BY <1>4, <2>2
      <3>2. flight'[i] = [flight[i] EXCEPT ![<<cur.msg, "async">>] = @ + 1]
        BY <1>4, <2>2
      <3>3. flight[i] \in [Flight -> Nat] /\ <<x, "async">> \in Flight /\ <<x, "sync">> \in Flight
        BY <1>4
      <3>4. QED
        BY <1>6, <3>1, <3>2, <3>3
    <2>3. QED
      BY <1>5, <2>1, <2>2
  <1>8. CASE cur.msg # x
    <2>1. FewerSends(x)
      BY <1>6, <1>7, <1>8 DEF FewerSends
    <2>2. QED
      BY <1>1, <1>3, <2>1, CalmStep
  <1>9. CASE cur.msg = x
    <2> DEFINE new == <<"async", i>>
    <2>1. SendSource \in Source /\ new \in Source \ {SendSource}
      BY Sources
    <2>2. Number(x, SendSource)' < Number(x, SendSource)
      BY <1>1, <1>9 DEF Number, SendSource
    <2>3. Number(x, new)' <= Number(x, new) + 1
      BY <1>7 DEF Number
    <2>4. \A j \in Instance, k \in {"sync", "async"} :
             <<k, j>> # new => flight'[j][<<x, k>>] <= flight[j][<<x, k>>]
      BY <1>6, <1>7
    <2>5. Inviting(x)' => Inviting(x)
      BY <1>3, StillInviting
    <2>6. \A s \in Source \ {new} : Number(x, s)' <= Number(x, s)
      <3> HIDE DEF new
      <3> QED
        BY <1>3, <1>6, <2>4, <2>5, NoMoreElsewhere
    <2>7. IsFiniteSet(Chances(x)') /\ Size(x)' <= Size(x)
      BY <2>1, <2>2, <2>3, <2>6, Traded
    <2>8. Counts(x)' \subseteq Counts(x)
      BY <1>1, <1>3, StillCounted DEF CountsStay
    <2>9. Unacked(x) => Unacked(x)'
      BY <1>1 DEF Unacked, Start
    <2>10. QED
      BY <1>1, <2>7, <2>8, <2>9 DEF Calm
  <1>10. QED
    BY <1>8, <1>9

(* Its instance crashes, in the middle of an attempt or elsewhere. *)
LEMMA CrashStep ==
    ASSUME TypeOK, TypeOK', Copies, NEW x \in Message, saved[x], IsFiniteSet(Chances(x)),
           NEW i \in Instance, Crash(i)
    PROVE  Calm(x) \/ Break(x)
  <1>1. UNCHANGED <<clientPc, request, process, attempts>> /\ crashes' = crashes + 1
    BY DEF Crash, clientVars, storeVars
  <1>2. FewerSends(x)
    <2>1. /\ \A j \in Instance : flight'[j] = flight[j] \/ flight'[j] = [f \in Flight |-> 0]
          /\ \A j \in Instance : tasks'[j] = tasks[j] \/ tasks'[j] = [f \in Task |-> 0]
      BY DEF Crash, TypeOK
    <2>2. /\ \A k \in {"sync", "async"} : <<x, k>> \in Flight
          /\ \A step \in {"delete", "update", "fail"} : <<x, step>> \in Task
      BY DEF Flight, Task
    <2>3. flight \in [Instance -> [Flight -> Nat]] /\ tasks \in [Instance -> [Task -> Nat]]
      BY DEF TypeOK
    <2>4. ASSUME NEW j \in Instance, NEW k \in {"sync", "async"}
          PROVE  flight'[j][<<x, k>>] <= flight[j][<<x, k>>]
      <3>1. flight[j][<<x, k>>] \in Nat /\ <<x, k>> \in Flight
        BY <2>2, <2>3
      <3>2. CASE flight'[j] = [f \in Flight |-> 0]
        BY <3>1, <3>2
      <3>3. CASE flight'[j] = flight[j]
        BY <3>1, <3>3
      <3>4. QED
        BY <2>1, <3>2, <3>3
    <2>5. ASSUME NEW j \in Instance, NEW step \in {"delete", "update", "fail"}
          PROVE  tasks'[j][<<x, step>>] <= tasks[j][<<x, step>>]
      <3>1. tasks[j][<<x, step>>] \in Nat /\ <<x, step>> \in Task
        BY <2>2, <2>3
      <3>2. CASE tasks'[j] = [f \in Task |-> 0]
        BY <3>1, <3>2
      <3>3. CASE tasks'[j] = tasks[j]
        BY <3>1, <3>3
      <3>4. QED
        BY <2>1, <3>2, <3>3
    <2>6. QED
      BY <2>4, <2>5 DEF FewerSends
  <1>3. (Asked(x)' => Asked(x)) /\ RowStays(x)
    BY <1>1 DEF Asked, RowStays
  <1>4. \/ compPc' = "idle" /\ todo' = {}
        \/ UNCHANGED <<compPc, todo, cur>>
    BY DEF Crash
  <1>5. CASE UNCHANGED <<compPc, todo, cur>> \/ (compPc' = "idle" /\ todo' = {} /\ ~Retrying(x))
    <2>1. TaskKeeps(x)
      BY <1>5 DEF TaskKeeps, Retrying, Sending
    <2>2. QED
      BY <1>1, <1>2, <1>3, <2>1, CalmStep
  <1>6. CASE compPc' = "idle" /\ todo' = {} /\ Retrying(x)
    <2>1. ~Retrying(x)' /\ ~Sending(x)' /\ Inviting(x) /\ Counts(x) = {cur.row.retry}
      BY <1>6 DEF Retrying, Sending, Inviting, Counts
    <2>2. \A n \in Counts(x)' : process[x] # NoRow /\ n = process[x].retry
      BY <1>1, <1>6, <2>1 DEF Counts
    <2>3. process[x] # NoRow => cur.row.retry = process[x].retry + 1
      BY <1>6 DEF Copies, Agree
    <2>4. \A n \in Counts(x)' : n + 1 \in Counts(x)
      BY <2>1, <2>2, <2>3
    <2>5. \A s \in Source \ {<<"none", NoInstance>>} : Number(x, s)' <= Number(x, s)
      BY <1>2, <1>3, <2>1, NoMoreElsewhere DEF FewerSends
    <2>6. \A s \in Source : Number(x, s)' <= Number(x, s)
      BY <2>5 DEF Source
    <2>7. IsFiniteSet(Chances(x)') /\ Size(x)' <= Size(x)
      BY <2>6, FewerChances
    <2>8. Unacked(x) => Unacked(x)'
      BY <1>1, <1>2, StillUnacked DEF Unacked
    <2>9. QED
      BY <1>1, <1>6, <2>4, <2>7, <2>8 DEF Break, CountLost
  <1>7. QED
    BY <1>4, <1>5, <1>6

(* The other steps of the task, its lock and the clock. *)
LEMMA OtherStep ==
    ASSUME TypeOK, TypeOK', NEW x \in Message, IsFiniteSet(Chances(x)),
           \/ QueryPage \/ EndPage \/ Verdict \/ SaveDeaded \/ SaveNormal \/ DeleteProcessMessage
           \/ Unlock \/ Interrupted \/ LockExpire
           \/ \E i \in Instance : TryLock(i)
           \/ \E m \in Message : Age(m)
    PROVE  Calm(x)
  <1> USE DEF storeVars, sendVars, clientVars, compVars
  <1>1. UNCHANGED <<clientPc, request, flight, tasks, attempts>>
    BY DEF QueryPage, EndPage, Verdict, SaveDeaded, SaveNormal, DeleteProcessMessage,
           Unlock, Interrupted, LockExpire, TryLock, Age
  <1>2. RowStays(x)
    BY DEF QueryPage, EndPage, Verdict, SaveDeaded, SaveNormal, DeleteProcessMessage, DeleteRow,
           Unlock, Interrupted, LockExpire, TryLock, Age, RowStays, TypeOK, Handling, Entry
  <1>3. TaskKeeps(x)
    <2>1. CASE \E m \in Message : Age(m)
      BY <2>1 DEF Age, TaskKeeps, Retrying, Sending
    <2>2. CASE QueryPage
      BY <2>2 DEF QueryPage, TaskKeeps, Retrying, Sending, Pages, Stored
    <2>3. CASE Verdict \/ SaveDeaded \/ SaveNormal \/ DeleteProcessMessage
      BY <2>3 DEF Verdict, SaveDeaded, SaveNormal, DeleteProcessMessage, Step, TaskKeeps, Retrying, Sending
    <2>4. CASE EndPage \/ Unlock \/ Interrupted \/ LockExpire \/ \E i \in Instance : TryLock(i)
      BY <2>4 DEF EndPage, Unlock, Interrupted, LockExpire, TryLock, TaskKeeps, Retrying, Sending
    <2>5. QED
      BY <2>1, <2>2, <2>3, <2>4
  <1>4. FewerSends(x) /\ (Asked(x)' => Asked(x))
    BY <1>1, SameSends DEF Asked
  <1>5. QED
    BY <1>1, <1>2, <1>3, <1>4, CalmStep

(* Whatever happens, it is one of the six to a message that is saved. *)
LEMMA StepKinds ==
    ASSUME TypeOK, TypeOK', Evidence, Copies, [Next]_vars,
           NEW x \in Message, saved[x], IsFiniteSet(Chances(x))
    PROVE  Calm(x) \/ Ack(x) \/ Attempt(x) \/ Settle(x) \/ Slip(x) \/ Break(x)
  <1>1. CASE \E m \in Message : Client(m) \/ ClientCrash(m) \/ RejectRequest(m)
    BY <1>1, ClientStep
  <1>2. CASE \E m \in Message, i \in Instance :
                \/ SendMQ(m, i) \/ Callback(m, i)
                \/ \E kind \in {"sync", "async"} : BrokerAck(m, kind, i) \/ BrokerError(m, kind, i)
    BY <1>2, SendStep
  <1>3. CASE HandleRow
    BY <1>3, HandleStep
  <1>4. CASE CheckStatus \/ SaveCompensate \/ CompensateSendMQ
    BY <1>4, CheckStep, SaveStep, ResendStep
  <1>5. CASE \E i \in Instance : Crash(i)
    BY <1>5, CrashStep
  <1>6. CASE \/ QueryPage \/ EndPage \/ Verdict \/ SaveDeaded \/ SaveNormal \/ DeleteProcessMessage
             \/ Unlock \/ Interrupted \/ LockExpire
             \/ \E i \in Instance : TryLock(i)
             \/ \E m \in Message : Age(m)
    BY <1>6, OtherStep
  <1>7. CASE UNCHANGED vars
    <2> USE <1>7 DEF vars, clientVars, storeVars, sendVars, compVars
    <2>1. FewerSends(x)
      BY SameSends
    <2>2. TaskKeeps(x) /\ RowStays(x) /\ (Asked(x)' => Asked(x))
      BY DEF TaskKeeps, Retrying, Sending, RowStays, Asked
    <2>3. QED
      BY <2>1, <2>2, CalmStep
  <1>8. QED
    BY <1>1, <1>2, <1>3, <1>4, <1>5, <1>6, <1>7 DEF Next, Compensation

(* Nothing is forgotten of what went wrong. *)
LEMMA TroubleGrows ==
    ASSUME TypeOK, [Next]_vars
    PROVE  faults <= faults' /\ crashes <= crashes' /\ faults \in Nat /\ crashes \in Nat
           /\ faults' \in Nat /\ crashes' \in Nat
  <1>1. faults \in Nat /\ crashes \in Nat
    BY ConstantsOK DEF TypeOK
  <1>2. faults' \in {faults, faults + 1} /\ crashes' \in {crashes, crashes + 1}
    <2>1. CASE \E m \in Message : Client(m) \/ ClientCrash(m) \/ RejectRequest(m) \/ Age(m)
      BY <2>1 DEF Client, ClientCrash, RejectRequest, Age, SaveReady, Proceed, NotSent, Return, MarkFail,
                  SaveFail, Call, envVars
    <2>2. CASE \E m \in Message, i \in Instance :
                \/ SendMQ(m, i) \/ Callback(m, i)
                \/ \E kind \in {"sync", "async"} : BrokerAck(m, kind, i) \/ BrokerError(m, kind, i)
      BY <2>2 DEF SendMQ, Callback, CallbackDelete, CallbackUpdate, CallbackLog, CallbackFail, BrokerAck,
                  BrokerError, Call, envVars
    <2>3. CASE Compensation
      BY <2>3 DEF Compensation, QueryPage, HandleRow, EndPage, CheckStatus, SaveCompensate, CompensateSendMQ,
                  Verdict, SaveDeaded, SaveNormal, DeleteProcessMessage, Unlock, Call, envVars
    <2>4. CASE Interrupted \/ LockExpire \/ \E i \in Instance : TryLock(i) \/ Crash(i)
      BY <2>4 DEF Interrupted, LockExpire, TryLock, Crash, Call, envVars
    <2>5. CASE UNCHANGED vars
      BY <2>5 DEF vars, envVars
    <2>6. QED
      BY <2>1, <2>2, <2>3, <2>4, <2>5 DEF Next
  <1>3. QED
    BY <1>1, <1>2

(* A message is first saved by a client that starts. *)
LEMMA NewClient ==
    ASSUME TypeOK, [Next]_vars, NEW x \in Message, ~saved[x], saved'[x]
    PROVE  SaveReady(x) /\ clientPc[x] = "new"
  <1>1. ASSUME NEW m \in Message, Client(m) \/ ClientCrash(m) \/ RejectRequest(m)
        PROVE  m = x /\ SaveReady(m)
    BY <1>1 DEF Client, ClientCrash, RejectRequest, SaveReady, Proceed, NotSent, Return, MarkFail,
                SaveFail, TypeOK
  <1>2. ASSUME NEW m \in Message, NEW i \in Instance,
               \/ SendMQ(m, i) \/ Callback(m, i)
               \/ \E kind \in {"sync", "async"} : BrokerAck(m, kind, i) \/ BrokerError(m, kind, i)
        PROVE  FALSE
    BY <1>2 DEF SendMQ, Callback, CallbackDelete, CallbackUpdate, CallbackLog, CallbackFail, BrokerAck,
                BrokerError, clientVars
  <1>3. ASSUME Compensation \/ Interrupted \/ LockExpire \/ (\E m \in Message : Age(m))
               \/ \E i \in Instance : TryLock(i) \/ Crash(i)
        PROVE  FALSE
    BY <1>3 DEF Compensation, QueryPage, HandleRow, EndPage, CheckStatus, SaveCompensate, CompensateSendMQ,
                Verdict, SaveDeaded, SaveNormal, DeleteProcessMessage, Unlock, Interrupted, LockExpire,
                TryLock, Crash, Age, clientVars
  <1>4. ~UNCHANGED vars
    BY DEF vars, clientVars
  <1>5. SaveReady(x)
    BY <1>1, <1>2, <1>3, <1>4 DEF Next
  <1>6. QED
    BY <1>5 DEF SaveReady

(* A message starts with two chances, its row and its request. *)
LEMMA FirstChances ==
    ASSUME TypeOK, TypeOK', Copies, NEW x \in Message, ~saved[x], saved'[x], [Next]_vars
    PROVE  /\ attempts'[x] = 0 /\ Counts(x)' = {0} /\ Unacked(x)'
           /\ IsFiniteSet(Chances(x)') /\ Size(x)' <= 2
  <1>1. SaveReady(x)
    BY NewClient
  <1>2. Untouched!(x) /\ clientPc[x] = "new"
    BY <1>1 DEF SaveReady, Copies, Untouched
  <1>3. UNCHANGED <<request, flight, tasks, compPc, todo, cur, attempts>>
    BY <1>1 DEF SaveReady, sendVars, compVars
  <1>4. process'[x] # NoRow /\ process'[x].status = "READY" /\ process'[x].retry = 0
    <2>1. process'[x] = [status |-> "READY", retry |-> 0]
      BY <1>1 DEF SaveReady, SaveRow, Applied, TypeOK
    <2>2. [status |-> "READY", retry |-> 0] \in Row
      BY DEF Row, Status
    <2>3. QED
      BY <2>1, <2>2, ConstantsOK
  <1>5. ~Retrying(x)' /\ ~Sending(x)'
    BY <1>2, <1>3 DEF Retrying, Sending, Handling
  <1>6. attempts'[x] = 0 /\ Counts(x)' = {0}
    BY <1>2, <1>3, <1>4, <1>5 DEF Counts
  <1>7. \A i \in Instance : /\ \A kind \in {"sync", "async"} : flight[i][<<x, kind>>] = 0
                            /\ tasks[i][<<x, "delete">>] = 0 /\ tasks[i][<<x, "update">>] = 0
                            /\ tasks[i][<<x, "fail">>] = 0
    BY <1>2
  <1>8. Unacked(x)'
    BY <1>3, <1>4, <1>7 DEF Unacked, Start
  <1> DEFINE first == {<<ClientSource, 1>>, <<RowSource, 1>>}
  <1>9. \A s \in Source : Number(x, s)' # 0 => Number(x, s)' = 1 /\ s \in {ClientSource, RowSource}
    <2> SUFFICES ASSUME NEW s \in Source
                 PROVE  Number(x, s)' = 0 \/ (Number(x, s)' = 1 /\ s \in {ClientSource, RowSource})
      OBVIOUS
    <2>1. CASE \E i \in Instance, k \in {"sync", "async"} : s = <<k, i>>
      BY <1>3, <1>7, <2>1 DEF Number
    <2>2. CASE \E i \in Instance : s = <<"fail", i>>
      BY <1>3, <1>7, <2>2 DEF Number
    <2>3. CASE s = SendSource
      BY <1>5, <2>3 DEF Number, SendSource, Sending
    <2>4. CASE s = ClientSource
      BY <2>4 DEF Number, ClientSource
    <2>5. CASE s = RowSource
      BY <2>5 DEF Number, RowSource
    <2>6. QED
      BY <2>1, <2>2, <2>3, <2>4, <2>5, Sources
  <1>10. Chances(x)' \subseteq first
    <2> SUFFICES ASSUME NEW u, NEW s \in Source, u \in {s} \X (1..(Number(x, s)'))
                 PROVE  u \in first
      BY DEF Chances
    <2>1. PICK n \in 1..(Number(x, s)') : u = <<s, n>>
      OBVIOUS
    <2>2. Number(x, s)' = 1 /\ s \in {ClientSource, RowSource}
      BY <1>9, <2>1
    <2>3. n = 1
      BY <2>1, <2>2
    <2>4. QED
      BY <2>1, <2>2, <2>3
  <1>11. IsFiniteSet(first) /\ Cardinality(first) <= 2
    <2> HIDE DEF first
    <2>1. IsFiniteSet({<<ClientSource, 1>>}) /\ Cardinality({<<ClientSource, 1>>}) = 1
      BY FS_Singleton
    <2>2. first = {<<ClientSource, 1>>} \cup {<<RowSource, 1>>}
      BY DEF first
    <2>3. /\ IsFiniteSet({<<ClientSource, 1>>} \cup {<<RowSource, 1>>})
          /\ \/ Cardinality({<<ClientSource, 1>>} \cup {<<RowSource, 1>>}) = Cardinality({<<ClientSource, 1>>})
             \/ Cardinality({<<ClientSource, 1>>} \cup {<<RowSource, 1>>})
                   = Cardinality({<<ClientSource, 1>>}) + 1
      BY <2>1, FS_AddElement
    <2>4. QED
      BY <2>1, <2>2, <2>3
  <1>12. IsFiniteSet(Chances(x)') /\ Cardinality(Chances(x)') <= Cardinality(first)
    <2> HIDE DEF first
    <2> QED
      BY <1>10, <1>11, FS_Subset
  <1>13. Size(x)' <= 2
    <2> HIDE DEF first
    <2> QED
      BY <1>11, <1>12, FS_CardinalityType DEF Size
  <1>14. QED
    BY <1>6, <1>8, <1>12, <1>13

-------------------------------------------------------------------------------
(* The budget, and with it the limit.                                      *)
Limited(m) == attempts[m] <= RetryLimit + 1 + 2 * faults + crashes

WithinBudget == \A m \in Message : saved[m] =>
    /\ IsFiniteSet(Chances(m))
    /\ Budget(m, 2 * faults + crashes, faults + crashes)
    /\ Limited(m)

LEMMA CountsType ==
    ASSUME TypeOK, NEW m \in Message
    PROVE  Counts(m) \subseteq Nat
  BY DEF TypeOK, Counts, Retrying, Handling, Entry, Row

LEMMA BudgetStep ==
    ASSUME TypeOK, TypeOK', Evidence, Copies, WithinBudget, [Next]_vars, NEW x \in Message, saved'[x]
    PROVE  /\ IsFiniteSet(Chances(x)')
           /\ Budget(x, 2 * faults + crashes, faults + crashes)'
           /\ Limited(x)'
  <1> DEFINE a == 2 * faults + crashes
             b == faults + crashes
             a1 == 2 * faults' + crashes'
             b1 == faults' + crashes'
  <1>1. a \in Nat /\ b \in Nat /\ a1 \in Nat /\ b1 \in Nat /\ a <= a1 /\ b <= b1 /\ b <= a
    BY TroubleGrows
  <1>2. /\ attempts[x] \in Nat /\ attempts'[x] \in Nat /\ RetryLimit \in Nat
        /\ Counts(x) \subseteq Nat /\ Counts(x)' \subseteq Nat
    <2>1. Counts(x) \subseteq Nat /\ attempts[x] \in Nat /\ attempts'[x] \in Nat /\ RetryLimit \in Nat
      BY CountsType, ConstantsOK DEF TypeOK
    <2>2. Counts(x)' \subseteq Nat
      BY DEF TypeOK, Counts, Retrying, Handling, Entry, Row
    <2>3. QED
      BY <2>1, <2>2
  <1>3. CASE ~saved[x]
    <2>1. /\ attempts'[x] = 0 /\ Counts(x)' = {0} /\ Unacked(x)'
          /\ IsFiniteSet(Chances(x)') /\ Size(x)' <= 2
      BY <1>3, FirstChances
    <2>2. Size(x)' \in Nat
      BY <2>1, FS_CardinalityType DEF Size
    <2> HIDE DEF a, b, a1, b1
    <2>3. Budget(x, 2 * faults + crashes, faults + crashes)'
      <3>1. 0 <= 0 + b1 /\ 0 + Size(x)' <= 0 + 2 + a1
        BY <1>1, <2>1, <2>2
      <3>2. QED
        BY <2>1, <3>1 DEF Budget, Size, a1, b1
    <2>4. Limited(x)'
      <3>1. 0 <= RetryLimit + 1 + a1
        BY <1>1, <1>2
      <3>2. QED
        BY <1>2, <2>1, <3>1, TroubleGrows DEF Limited, a1
    <2>5. QED
      BY <2>1, <2>3, <2>4
  <1>4. CASE saved[x]
    <2>1. /\ IsFiniteSet(Chances(x)) /\ attempts[x] <= RetryLimit + 1 + a
          /\ \A n \in Counts(x) :
                \/ attempts[x] + Size(x) <= n + 1 + a
                \/ Unacked(x) /\ attempts[x] <= n + b /\ attempts[x] + Size(x) <= n + 2 + a
      <3>1. IsFiniteSet(Chances(x)) /\ Budget(x, 2 * faults + crashes, faults + crashes) /\ Limited(x)
        BY <1>4 DEF WithinBudget
      <3>2. attempts[x] <= RetryLimit + 1 + a
        BY <1>1, <1>2, <3>1, TroubleGrows DEF Limited
      <3>3. QED
        BY <3>1, <3>2 DEF Budget, Size
    <2>2. Size(x) \in Nat
      BY <2>1, FS_CardinalityType DEF Size
    <2>3. Calm(x) \/ Ack(x) \/ Attempt(x) \/ Settle(x) \/ Slip(x) \/ Break(x)
      BY <1>4, <2>1, StepKinds
    <2>4. IsFiniteSet(Chances(x)')
      BY <2>3 DEF Calm, Ack, Attempt, Settle, Slip, Break, CountLost
    <2>5. Size(x)' \in Nat
      BY <2>4, FS_CardinalityType DEF Size
    <2> DEFINE Fits(n) ==
           \/ attempts'[x] + Size(x)' <= n + 1 + a1
           \/ Unacked(x)' /\ attempts'[x] <= n + b1 /\ attempts'[x] + Size(x)' <= n + 2 + a1
    <2> SUFFICES attempts'[x] <= RetryLimit + 1 + a1 /\ \A n \in Counts(x)' : Fits(n)
      <3>1. Limited(x)' <=> attempts'[x] <= RetryLimit + 1 + a1
        BY <1>1, <1>2, TroubleGrows DEF Limited
      <3>2. Budget(x, 2 * faults + crashes, faults + crashes)' <=> \A n \in Counts(x)' : Fits(n)
        BY DEF Budget, Size
      <3>3. QED
        BY <2>4, <3>1, <3>2
    <2>6. CASE Calm(x)
      <3> USE <2>6 DEF Calm
      <3> HIDE DEF a, b, a1, b1
      <3>1. attempts'[x] <= RetryLimit + 1 + a1
        BY <1>1, <1>2, <2>1
      <3>2. ASSUME NEW n \in Counts(x)' PROVE Fits(n)
        <4>1. n \in Counts(x) /\ n \in Nat
          BY <1>2
        <4>2. QED
          BY <1>1, <1>2, <2>1, <2>2, <2>5, <4>1
      <3>3. QED
        BY <3>1, <3>2
    <2>7. CASE Ack(x)
      <3> USE <2>7 DEF Ack
      <3> HIDE DEF a, b, a1, b1
      <3>1. attempts'[x] <= RetryLimit + 1 + a1
        BY <1>1, <1>2, <2>1
      <3>2. ASSUME NEW n \in Counts(x)' PROVE Fits(n)
        <4>1. n \in Counts(x) /\ n \in Nat
          BY <1>2
        <4>2. QED
          BY <1>1, <1>2, <2>1, <2>2, <2>5, <4>1
      <3>3. QED
        BY <3>1, <3>2
    <2>8. CASE Attempt(x)
      <3>1. PICK k \in Counts(x) : k <= RetryLimit /\ Counts(x)' = {k + 1}
        BY <2>8 DEF Attempt
      <3>2. attempts'[x] = attempts[x] + 1 /\ 1 <= Size(x) /\ Size(x)' <= Size(x) /\ (Unacked(x) => Unacked(x)')
        BY <2>8 DEF Attempt
      <3>3. k \in Nat
        BY <1>2
      <3> HIDE DEF a, b, a1, b1
      <3>4. attempts[x] <= k + a
        BY <1>1, <1>2, <2>1, <2>2, <3>1, <3>2, <3>3
      <3>5. attempts'[x] <= RetryLimit + 1 + a1
        BY <1>1, <1>2, <3>1, <3>2, <3>3, <3>4
      <3>6. Fits(k + 1)
        BY <1>1, <1>2, <2>1, <2>2, <2>5, <3>2, <3>3
      <3>7. QED
        BY <3>1, <3>5, <3>6
    <2>9. CASE Settle(x)
      <3> USE <2>9 DEF Settle, CountLost
      <3> HIDE DEF a, b, a1, b1
      <3>1. attempts'[x] <= RetryLimit + 1 + a1
        BY <1>1, <1>2, <2>1
      <3>2. ASSUME NEW n \in Counts(x)' PROVE Fits(n)
        <4>1. n + 1 \in Counts(x) /\ n \in Nat
          BY <1>2
        <4>2. QED
          BY <1>1, <1>2, <2>1, <2>2, <2>5, <4>1
      <3>3. QED
        BY <3>1, <3>2
    <2>10. CASE Slip(x)
      <3> USE <2>10 DEF Slip, CountLost
      <3>a. a + 2 <= a1 /\ b + 1 <= b1
        BY TroubleGrows
      <3> HIDE DEF a, b, a1, b1
      <3>1. attempts'[x] <= RetryLimit + 1 + a1
        BY <1>1, <1>2, <2>1
      <3>2. ASSUME NEW n \in Counts(x)' PROVE Fits(n)
        <4>1. n + 1 \in Counts(x) /\ n \in Nat
          BY <1>2
        <4>2. QED
          BY <1>1, <1>2, <2>1, <2>2, <2>5, <3>a, <4>1
      <3>3. QED
        BY <3>1, <3>2
    <2>11. CASE Break(x)
      <3> USE <2>11 DEF Break, CountLost
      <3>a. a + 1 <= a1 /\ b + 1 <= b1
        BY TroubleGrows
      <3> HIDE DEF a, b, a1, b1
      <3>1. attempts'[x] <= RetryLimit + 1 + a1
        BY <1>1, <1>2, <2>1
      <3>2. ASSUME NEW n \in Counts(x)' PROVE Fits(n)
        <4>1. n + 1 \in Counts(x) /\ n \in Nat
          BY <1>2
        <4>2. QED
          BY <1>1, <1>2, <2>1, <2>2, <2>5, <3>a, <4>1
      <3>3. QED
        BY <3>1, <3>2
    <2>12. QED
      BY <2>3, <2>6, <2>7, <2>8, <2>9, <2>10, <2>11
  <1>5. QED
    BY <1>3, <1>4

LEMMA WithinBudgetHolds == Spec => []WithinBudget
  <1>1. Init => WithinBudget
    BY DEF Init, WithinBudget
  <1>2. TypeOK /\ TypeOK' /\ Evidence /\ Copies /\ WithinBudget /\ [Next]_vars => WithinBudget'
    BY BudgetStep DEF WithinBudget
  <1>3. QED
    BY <1>1, <1>2, TypeCorrect, EvidenceHolds, CopiesHold, PTL DEF Spec

(* The account of counts and chances behind the limit is never overdrawn. *)
THEOREM BudgetHolds == Spec => []Budgeted
  <1>1. WithinBudget => Budgeted
    BY DEF WithinBudget, Budgeted
  <1>2. QED
    BY <1>1, WithinBudgetHolds, PTL

(* Whatever the store, the callbacks and stale copies do to the retry      *)
(* count, an attempt beyond the limit is paid for by what went wrong.      *)
THEOREM AttemptsBounded == Spec => []BoundedAttempts
  <1>1. WithinBudget => BoundedAttempts
    BY DEF WithinBudget, BoundedAttempts, Limited
  <1>2. QED
    BY <1>1, WithinBudgetHolds, PTL

-------------------------------------------------------------------------------
(* Death is final.                                                         *)

(* While at most one thing has gone wrong, a buried message that is not    *)
(* old keeps the budget of a run without faults, its row being gone if     *)
(* nothing else, or is about to lose its row.                              *)
Buried == \A m \in deadLog : saved[m] /\ age[m] # 2 /\ faults + crashes <= 1 =>
    /\ ~Retrying(m)
    /\ Budget(m, 0, 0) \/ (compPc = "delete" /\ cur.msg = m)

(* Only the task makes attempts, and not with old messages. *)
LEMMA AttemptSteps ==
    ASSUME TypeOK, [Next]_vars, NEW x \in Message,
           attempts'[x] # attempts[x] \/ (Retrying(x)' /\ ~Retrying(x))
    PROVE  HandleRow /\ compPc = "row" /\ age[x] # 2 /\ attempts'[x] = attempts[x] + 1
  <1>1. ASSUME UNCHANGED <<attempts, cur>>, compPc' = compPc \/ compPc' \notin {"check", "compensate"}
        PROVE  FALSE
    BY <1>1 DEF Retrying
  <1>2. ~\E m \in Message : Client(m) \/ ClientCrash(m) \/ RejectRequest(m) \/ Age(m)
    BY <1>1 DEF Client, ClientCrash, RejectRequest, Age, SaveReady, Proceed, NotSent, Return, MarkFail,
                SaveFail, compVars
  <1>3. ~\E m \in Message, i \in Instance :
              \/ SendMQ(m, i) \/ Callback(m, i)
              \/ \E kind \in {"sync", "async"} : BrokerAck(m, kind, i) \/ BrokerError(m, kind, i)
    <2>1. ASSUME NEW m \in Message, NEW i \in Instance,
                 \/ SendMQ(m, i) \/ Callback(m, i)
                 \/ \E kind \in {"sync", "async"} : BrokerAck(m, kind, i) \/ BrokerError(m, kind, i)
          PROVE  UNCHANGED <<attempts, cur, compPc>>
      BY <2>1 DEF SendMQ, Callback, CallbackDelete, CallbackUpdate, CallbackLog, CallbackFail, BrokerAck,
                  BrokerError, compVars
    <2>2. QED
      BY <1>1, <2>1
  <1>4. ~(QueryPage \/ EndPage \/ Unlock \/ Interrupted \/ LockExpire \/ SaveCompensate
          \/ \E i \in Instance : TryLock(i))
    BY <1>1 DEF QueryPage, EndPage, Unlock, Interrupted, LockExpire, SaveCompensate, TryLock
  <1>5. ASSUME UNCHANGED attempts, compPc' \notin {"check", "compensate"}
        PROVE  FALSE
    BY <1>5 DEF Retrying
  <1>6. ~(Verdict \/ SaveDeaded \/ SaveNormal \/ DeleteProcessMessage \/ CompensateSendMQ)
    BY <1>5 DEF Verdict, SaveDeaded, SaveNormal, DeleteProcessMessage, CompensateSendMQ, Step
  <1>7. ~\E i \in Instance : Crash(i)
    BY <1>1, <1>5 DEF Crash
  <1>8. ~CheckStatus
    <2>1. CheckStatus => UNCHANGED attempts /\ compPc = "check" /\ cur'.msg = cur.msg
      BY DEF CheckStatus, TypeOK, Handling, Entry
    <2>2. QED
      BY <2>1 DEF Retrying
  <1>9. ~UNCHANGED vars
    BY <1>1 DEF vars, compVars
  <1>10. HandleRow
    BY <1>2, <1>3, <1>4, <1>6, <1>7, <1>8, <1>9 DEF Next, Compensation
  <1>11. PICK e \in todo : HandleRow!(e)
    BY <1>10 DEF HandleRow
  <1>12. e \in Entry /\ e.msg \in Message
    BY DEF TypeOK, Entry
  <1>13. e.msg = x /\ ShouldReSend(e)
    BY <1>11, <1>12 DEF TypeOK, Retrying, ShouldReSend, Entry, Row
  <1>14. QED
    BY <1>10, <1>11, <1>12, <1>13 DEF TypeOK, ShouldReSend, CheckMessageDeaded

(* An old message stays old, a buried one buried, a saved one saved. *)
LEMMA StillOld ==
    ASSUME TypeOK, Copies, [Next]_vars, NEW x \in Message
    PROVE  (age[x] = 2 => age'[x] = 2) /\ (saved[x] => saved'[x])
  <1>1. CASE \E m \in Message : Client(m) \/ ClientCrash(m) \/ RejectRequest(m)
    <2>1. UNCHANGED age
      BY <1>1 DEF Client, ClientCrash, RejectRequest, SaveReady, Proceed, NotSent, Return, MarkFail,
                  SaveFail, Call, envVars
    <2>2. UNCHANGED saved \/ \E m \in Message : SaveReady(m)
      BY <1>1 DEF Client, ClientCrash, RejectRequest, Proceed, NotSent, Return, MarkFail, SaveFail
    <2>3. ASSUME NEW m \in Message, SaveReady(m), saved[x]
          PROVE  saved'[x]
      <3>1. clientPc[m] = "new" /\ \A y \in Message : y # m => saved'[y] = saved[y]
        BY <2>3 DEF SaveReady, TypeOK
      <3>2. ~saved[m]
        BY <3>1 DEF Copies, Untouched
      <3>3. QED
        BY <2>3, <3>1, <3>2
    <2>4. QED
      BY <2>1, <2>2, <2>3
  <1>a. CASE \E m \in Message : Age(m)
    BY <1>a DEF Age, clientVars, TypeOK
  <1>2. CASE \E m \in Message, i \in Instance :
              \/ SendMQ(m, i) \/ Callback(m, i)
              \/ \E kind \in {"sync", "async"} : BrokerAck(m, kind, i) \/ BrokerError(m, kind, i)
    BY <1>2 DEF SendMQ, Callback, CallbackDelete, CallbackUpdate, CallbackLog, CallbackFail, BrokerAck,
                BrokerError, Call, envVars, clientVars
  <1>3. CASE Compensation
    BY <1>3 DEF Compensation, QueryPage, HandleRow, EndPage, CheckStatus, SaveCompensate, CompensateSendMQ,
                Verdict, SaveDeaded, SaveNormal, DeleteProcessMessage, Unlock, Call, envVars, clientVars
  <1>4. CASE Interrupted \/ LockExpire \/ \E i \in Instance : TryLock(i) \/ Crash(i)
    BY <1>4 DEF Interrupted, LockExpire, TryLock, Crash, Call, envVars, clientVars
  <1>5. CASE UNCHANGED vars
    BY <1>5 DEF vars, envVars, clientVars
  <1>6. QED
    BY <1>1, <1>a, <1>2, <1>3, <1>4, <1>5 DEF Next

(* The budget without faults lasts while the message is not retried. *)
LEMMA BudgetLasts ==
    ASSUME TypeOK, TypeOK', Evidence, Copies, WithinBudget, [Next]_vars, NEW x \in Message, saved[x],
           Budget(x, 0, 0), ~Retrying(x), attempts[x] > RetryLimit \/ UNCHANGED attempts
    PROVE  Budget(x, 0, 0)' /\ UNCHANGED attempts[x] /\ ~Retrying(x)'
  <1>1. IsFiniteSet(Chances(x))
    BY DEF WithinBudget
  <1>2. /\ attempts[x] \in Nat /\ RetryLimit \in Nat /\ Counts(x) \subseteq Nat
        /\ Size(x) \in Nat
    BY <1>1, CountsType, ConstantsOK, FS_CardinalityType DEF TypeOK, Size
  <1>3. \A n \in Counts(x) : \/ attempts[x] + Size(x) <= n + 1
                             \/ Unacked(x) /\ attempts[x] <= n /\ attempts[x] + Size(x) <= n + 2
    BY <1>2 DEF Budget, Size
  <1>4. ~Attempt(x)
    <2> SUFFICES ASSUME Attempt(x) PROVE FALSE
      OBVIOUS
    <2>1. PICK n \in Counts(x) : n <= RetryLimit
      BY DEF Attempt
    <2>2. 1 <= Size(x) /\ attempts'[x] = attempts[x] + 1
      BY DEF Attempt
    <2>3. attempts[x] > RetryLimit
      BY <1>2, <2>2
    <2>4. n \in Nat
      BY <1>2
    <2>5. QED
      BY <1>2, <1>3, <2>1, <2>2, <2>3, <2>4
  <1>5. Calm(x) \/ Ack(x) \/ Settle(x)
    BY <1>1, <1>4, StepKinds DEF Slip, Break
  <1>6. attempts'[x] = attempts[x]
    BY <1>5 DEF Calm, Ack, Settle, CountLost
  <1>7. ~Retrying(x)'
    <2>1. attempts[x] + 1 # attempts[x]
      BY <1>2
    <2>2. QED
      BY <1>6, <2>1, AttemptSteps
  <1>8. Size(x)' \in Nat
    BY <1>5, FS_CardinalityType DEF Calm, Ack, Settle, CountLost, Size
  <1>9. \A n \in Counts(x)' : \/ attempts'[x] + Size(x)' <= n + 1
                              \/ Unacked(x)' /\ attempts'[x] <= n /\ attempts'[x] + Size(x)' <= n + 2
    <2> SUFFICES ASSUME NEW n \in Counts(x)'
                 PROVE  \/ attempts'[x] + Size(x)' <= n + 1
                        \/ Unacked(x)' /\ attempts'[x] <= n /\ attempts'[x] + Size(x)' <= n + 2
      OBVIOUS
    <2>1. n \in Nat
      BY DEF TypeOK, Counts, Retrying, Handling, Entry, Row
    <2>2. CASE Calm(x)
      BY <1>2, <1>3, <1>6, <1>8, <2>1, <2>2 DEF Calm
    <2>3. CASE Ack(x)
      BY <1>2, <1>3, <1>6, <1>8, <2>1, <2>3 DEF Ack
    <2>4. CASE Settle(x)
      BY <1>2, <1>3, <1>6, <1>8, <2>1, <2>4 DEF Settle, CountLost
    <2>5. QED
      BY <1>5, <2>2, <2>3, <2>4
  <1>10. Budget(x, 0, 0)'
    <2>1. attempts'[x] \in Nat
      BY <1>2, <1>6
    <2>2. QED
      BY <1>8, <1>9, <2>1 DEF Budget, Size, TypeOK, Counts, Retrying, Handling, Entry, Row
  <1>11. QED
    BY <1>6, <1>7, <1>10

(* Only the task buries. *)
LEMMA NewlyDead ==
    ASSUME TypeOK, [Next]_vars, NEW x, x \notin deadLog, x \in deadLog'
    PROVE  SaveDeaded
  <1>1. ~\E m \in Message : Client(m) \/ ClientCrash(m) \/ RejectRequest(m) \/ Age(m)
    BY DEF Client, ClientCrash, RejectRequest, Age, SaveReady, Proceed, NotSent, Return, MarkFail,
           SaveFail, storeVars
  <1>2. ASSUME NEW m \in Message, NEW i \in Instance,
               \/ SendMQ(m, i) \/ Callback(m, i)
               \/ \E kind \in {"sync", "async"} : BrokerAck(m, kind, i) \/ BrokerError(m, kind, i)
        PROVE  FALSE
    BY <1>2 DEF SendMQ, Callback, CallbackDelete, CallbackUpdate, CallbackLog, CallbackFail, BrokerAck,
                BrokerError, storeVars
  <1>3. ASSUME Compensation PROVE SaveDeaded
    BY <1>3 DEF Compensation, QueryPage, HandleRow, EndPage, CheckStatus, SaveCompensate, CompensateSendMQ,
                Verdict, SaveNormal, DeleteProcessMessage, Unlock, storeVars
  <1>4. ~(Interrupted \/ LockExpire \/ \E i \in Instance : TryLock(i) \/ Crash(i))
    BY DEF Interrupted, LockExpire, TryLock, Crash, storeVars
  <1>5. ~UNCHANGED vars
    BY DEF vars, storeVars
  <1>6. QED
    BY <1>1, <1>2, <1>3, <1>4, <1>5 DEF Next

(* When nothing goes wrong the row of a buried message is deleted. *)
LEMMA DeleteSteps ==
    ASSUME TypeOK, [Next]_vars, compPc = "delete", faults' = faults, crashes' = crashes
    PROVE  \/ compPc' = "delete" /\ UNCHANGED cur
           \/ compPc' = "row" /\ UNCHANGED todo /\ process'[cur.msg] = NoRow
  <1>1. faults \in Nat /\ crashes \in Nat
    BY TroubleGrows
  <1>2. CASE \E m \in Message : Client(m) \/ ClientCrash(m) \/ RejectRequest(m) \/ Age(m)
    BY <1>2 DEF Client, ClientCrash, RejectRequest, Age, SaveReady, Proceed, NotSent, Return, MarkFail,
                SaveFail, compVars
  <1>3. ASSUME NEW m \in Message, NEW i \in Instance,
               \/ SendMQ(m, i) \/ Callback(m, i)
               \/ \E kind \in {"sync", "async"} : BrokerAck(m, kind, i) \/ BrokerError(m, kind, i)
        PROVE  UNCHANGED <<compPc, cur>>
    BY <1>3 DEF SendMQ, Callback, CallbackDelete, CallbackUpdate, CallbackLog, CallbackFail, BrokerAck,
                BrokerError, compVars
  <1>4. CASE DeleteProcessMessage
    <2>1. PICK o \in Outcome : DeleteProcessMessage!(o)
      BY <1>4 DEF DeleteProcessMessage
    <2>2. o = "ok"
      BY <1>1, <2>1 DEF Call
    <2>3. cur.msg \in Message
      BY DEF TypeOK, Handling, Entry
    <2>4. QED
      BY <2>1, <2>2, <2>3 DEF DeleteRow, Applied, Step, TypeOK
  <1>5. CASE Compensation /\ ~DeleteProcessMessage
    BY <1>5 DEF Compensation, QueryPage, HandleRow, EndPage, CheckStatus, SaveCompensate, CompensateSendMQ,
                Verdict, SaveDeaded, SaveNormal, Unlock
  <1>6. CASE Interrupted \/ LockExpire \/ \E i \in Instance : TryLock(i) \/ Crash(i)
    BY <1>1, <1>6 DEF Interrupted, LockExpire, TryLock, Crash
  <1>7. CASE UNCHANGED vars
    BY <1>7 DEF vars, compVars
  <1>8. QED
    BY <1>2, <1>3, <1>4, <1>5, <1>6, <1>7 DEF Next

LEMMA BuriedStep ==
    ASSUME TypeOK, TypeOK', Evidence, Copies, Counted, WithinBudget, Buried, [Next]_vars,
           NEW x \in deadLog', saved'[x], age'[x] # 2, faults' + crashes' <= 1
    PROVE  /\ ~Retrying(x)'
           /\ Budget(x, 0, 0)' \/ (compPc' = "delete" /\ cur'.msg = x)
  <1>a. x \in Message
    BY DEF TypeOK
  <1>b. /\ faults <= faults' /\ crashes <= crashes'
        /\ faults \in Nat /\ crashes \in Nat /\ faults' \in Nat /\ crashes' \in Nat
    BY TroubleGrows
  <1>1. /\ x \in Message /\ age[x] # 2 /\ faults + crashes <= 1
        /\ faults \in Nat /\ crashes \in Nat /\ faults' \in Nat /\ crashes' \in Nat
    <2>1. age[x] # 2
      BY <1>a, StillOld
    <2>2. faults + crashes <= 1
      BY <1>b
    <2>3. QED
      BY <1>a, <1>b, <2>1, <2>2
  <1>2. CASE ~saved[x]
    <2>1. /\ attempts'[x] = 0 /\ Counts(x)' = {0} /\ Unacked(x)'
          /\ IsFiniteSet(Chances(x)') /\ Size(x)' <= 2
      BY <1>1, <1>2, FirstChances
    <2>2. Size(x)' \in Nat
      BY <2>1, FS_CardinalityType DEF Size
    <2>3. 0 <= 0 + 0 /\ 0 + Size(x)' <= 0 + 2 + 0
      BY <2>1, <2>2
    <2>4. Budget(x, 0, 0)'
      BY <2>1, <2>3 DEF Budget, Size
    <2>5. clientPc[x] = "new"
      BY <1>1, <1>2, <2>1, NewClient
    <2>6. ~Retrying(x)
      BY <1>1, <2>5 DEF Copies, Untouched, Retrying, Handling
    <2>7. attempts[x] = 0
      BY <1>1, <2>5 DEF Copies, Untouched
    <2>8. ~Retrying(x)'
      BY <1>1, <2>1, <2>6, <2>7, AttemptSteps
    <2>9. QED
      BY <2>4, <2>8
  <1>3. CASE saved[x] /\ ~Retrying(x) /\ Budget(x, 0, 0)
             /\ (attempts[x] > RetryLimit \/ UNCHANGED attempts)
    BY <1>1, <1>3, BudgetLasts
  <1>4. ASSUME saved[x], faults + crashes = 0
        PROVE  Budget(x, 0, 0)
    <2>1. 2 * faults + crashes = 0 /\ faults + crashes = 0
      BY <1>1, <1>4
    <2>2. QED
      BY <1>1, <1>4, <2>1 DEF WithinBudget
  <1>5. CASE x \notin deadLog /\ saved[x]
    <2>1. PICK o \in Outcome : SaveDeaded!(o)
      BY <1>5, NewlyDead DEF SaveDeaded
    <2>2. x = cur.msg /\ compPc = "bury" /\ UNCHANGED attempts /\ ~Retrying(x)
      BY <1>5, <2>1 DEF Add, Retrying
    <2>3. CASE o = "ok"
      BY <2>1, <2>2, <2>3 DEF Step, Retrying
    <2>4. CASE o # "ok"
      <3>1. faults' = faults + 1 /\ crashes' = crashes
        BY <2>1, <2>4 DEF Call
      <3>2. faults + crashes = 0
        BY <1>1, <3>1
      <3>3. QED
        BY <1>3, <1>4, <1>5, <2>2, <3>2
    <2>5. QED
      BY <2>3, <2>4
  <1>6. CASE x \in deadLog /\ saved[x]
    <2>1. attempts[x] > RetryLimit
      BY <1>1, <1>6 DEF Counted, NoPrematureDeath
    <2>2. ~Retrying(x) /\ (Budget(x, 0, 0) \/ (compPc = "delete" /\ cur.msg = x))
      BY <1>1, <1>6 DEF Buried
    <2>3. CASE Budget(x, 0, 0) \/ faults + crashes = 0
      BY <1>3, <1>4, <1>6, <2>1, <2>2, <2>3
    <2>4. CASE compPc = "delete" /\ cur.msg = x /\ faults + crashes = 1
      <3>1. faults' = faults /\ crashes' = crashes
        <4>1. ASSUME NEW f \in Nat, NEW c \in Nat, NEW g \in Nat, NEW d \in Nat,
                     f <= g, c <= d, f + c = 1, g + d <= 1
              PROVE  g = f /\ d = c
          BY <4>1
        <4>2. QED
          BY <1>b, <2>4, <4>1
      <3>2. \/ compPc' = "delete" /\ UNCHANGED cur
            \/ compPc' = "row" /\ UNCHANGED todo /\ process'[x] = NoRow
        BY <1>1, <2>4, <3>1, DeleteSteps
      <3>3. CASE compPc' = "delete" /\ UNCHANGED cur
        BY <2>4, <3>3 DEF Retrying
      <3>4. CASE compPc' = "row" /\ UNCHANGED todo /\ process'[x] = NoRow
        <4>1. \A f \in todo : f.msg # x
          BY <2>4 DEF Copies, OneCopy, Handling
        <4>2. ~Retrying(x)' /\ Counts(x)' = {}
          BY <3>4, <4>1 DEF Counts, Retrying
        <4>3. QED
          BY <4>2 DEF Budget
      <3>5. QED
        BY <3>2, <3>3, <3>4
    <2>5. QED
      BY <1>1, <2>2, <2>3, <2>4
  <1>7. QED
    BY <1>2, <1>5, <1>6

LEMMA BuriedHolds == Spec => []Buried
  <1>1. Init => Buried
    BY DEF Init, Buried
  <1>2. TypeOK /\ TypeOK' /\ Evidence /\ Copies /\ Counted /\ WithinBudget /\ Buried /\ [Next]_vars => Buried'
    BY BuriedStep DEF Buried
  <1>3. QED
    BY <1>1, <1>2, TypeCorrect, EvidenceHolds, CopiesHold, CountsHold, WithinBudgetHolds, PTL DEF Spec

(* Only a second thing that goes wrong raises a buried message. *)
THEOREM DeadStayDead == Spec => DeathIsFinal
  <1> DEFINE A == \A m \in deadLog : saved[m] /\ attempts'[m] # attempts[m] => faults + crashes >= 2
  <1>1. TypeOK /\ TypeOK' /\ Evidence /\ Copies /\ Counted /\ WithinBudget /\ Buried /\ [Next]_vars => [A]_vars
    <2> SUFFICES ASSUME TypeOK, TypeOK', Evidence, Copies, Counted, WithinBudget, Buried, [Next]_vars,
                        NEW x \in deadLog, saved[x], attempts'[x] # attempts[x], ~(faults + crashes >= 2)
                 PROVE  FALSE
      OBVIOUS
    <2>1. x \in Message /\ faults \in Nat /\ crashes \in Nat
      BY TroubleGrows DEF TypeOK
    <2>2. compPc = "row" /\ age[x] # 2
      BY <2>1, AttemptSteps
    <2>3. attempts[x] > RetryLimit
      BY <2>1, <2>2 DEF Counted, NoPrematureDeath
    <2>4. ~Retrying(x) /\ Budget(x, 0, 0)
      BY <2>1, <2>2 DEF Buried
    <2>5. UNCHANGED attempts[x]
      BY <2>1, <2>3, <2>4, BudgetLasts
    <2>6. QED
      BY <2>5
  <1>2. QED
    BY <1>1, TypeCorrect, EvidenceHolds, CopiesHold, CountsHold, WithinBudgetHolds, BuriedHolds, PTL
       DEF Spec, DeathIsFinal
===============================================================================
