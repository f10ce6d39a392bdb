-------------------------- MODULE ConsumerStopProofs --------------------------
(***************************************************************************)
(* A proof about Consumer with a single consumer: where it stops when      *)
(* nothing fails, crashes or is rebalanced, its offset log is up to date,  *)
(* however the poll loop, the worker, the commits with their callbacks and *)
(* the offset log executor interleave, and however often it is started and *)
(* stopped, in the middle of a batch too.                                  *)
(***************************************************************************)
EXTENDS ConsumerProofs

Calm == faults = 0 /\ rebalances = 0 /\ crashes = 0

(* The offset log as it will be when the executor's queue is drained. *)
Final(q, d) == IF q = <<>> THEN d ELSE q[Len(q)]

LastSaved(c) == Final(offsets[c], db)

(* What the offset log says, or will say, is the consumer's position, or   *)
(* nothing as long as nothing was handled.                                 *)
Saved(c) == \/ LastSaved(c) = next[c]
            \/ LastSaved(c) = NoOffset /\ done = {}

Unassigned(c) == pc[c] = "poll" /\ ~member[c]

(* The coordinator and the consumer agree on who has the partition, and    *)
(* the cache holds the offset of the last record put or nothing.           *)
Settling(c) ==
    /\ member[c] <=> owner = c
    /\ ~member[c] => pc[c] \in {"off", "poll", "final", "close"} /\ cur[c] = NoOffset
    /\ pc[c] = "off" => ~member[c]
    /\ pc[c] # "revoke"
    /\ cur[c] \in {NoOffset, next[c]}
    /\ pc[c] = "leave" => cur[c] # NoOffset
    /\ work[c] # {} => pc[c] = "handle" /\ work[c] = {This(c)}

(* A commit on its way, or a callback that is due, is of an offset that    *)
(* was passed, and one of the position itself was queued for the log.      *)
Trailing(c) ==
    /\ pc[c] \in {"off", "close", "leave"} \/ Unassigned(c) => sent[c] = <<>>
    /\ Unassigned(c) => offsets[c] = <<>> /\ acked[c] = {}
    /\ \A n \in acked[c] \cup Elements(sent[c]) :
          n <= next[c] /\ (n = next[c] => LastSaved(c) = n)

(* Between batches, once the final commit is made, and wherever the cache  *)
(* is empty, so that no final commit will be made.                         *)
MustBeSaved(c) ==
    \/ pc[c] \in {"off", "poll", "close", "leave"}
    \/ cur[c] = NoOffset /\ pc[c] \notin {"handle", "put"}

Orderly(c) == Settling(c) /\ Trailing(c) /\ (MustBeSaved(c) => Saved(c))

-------------------------------------------------------------------------------
(* The executor's queue.                                                   *)

LEMMA Enqueued ==
    ASSUME NEW q \in Seq(Nat), NEW n \in Nat, NEW d
    PROVE  /\ Final(Append(q, n), d) = n
           /\ Elements(Append(q, n)) = Elements(q) \cup {n}
  <1> DEFINE r == Append(q, n)
  <1>1. r \in Seq(Nat) /\ Len(r) = Len(q) + 1 /\ r[Len(q) + 1] = n /\ Len(q) \in Nat
    OBVIOUS
  <1>2. \A k \in 1..Len(q) : r[k] = q[k]
    OBVIOUS
  <1>3. DOMAIN r = 1..(Len(q) + 1) /\ DOMAIN q = 1..Len(q)
    BY <1>1
  <1>4. r # <<>>
    BY <1>1
  <1>5. Final(r, d) = n
    BY <1>1, <1>4 DEF Final
  <1>6. Elements(r) = Elements(q) \cup {n}
    <2> HIDE DEF r
    <2>1. QED
      BY <1>1, <1>2, <1>3 DEF Elements
  <1>7. QED
    BY <1>5, <1>6

LEMMA Dequeued ==
    ASSUME NEW q \in Seq(Nat), q # <<>>, NEW d
    PROVE  /\ Head(q) \in Elements(q) /\ Elements(Tail(q)) \subseteq Elements(q)
           /\ Final(Tail(q), Head(q)) = Final(q, d)
  <1> DEFINE r == Tail(q)
  <1>1. Len(q) \in Nat \ {0} /\ DOMAIN q = 1..Len(q)
    OBVIOUS
  <1>2. r \in Seq(Nat) /\ Len(r) = Len(q) - 1 /\ \A k \in 1..Len(r) : r[k] = q[k + 1]
    BY <1>1
  <1>3. DOMAIN r = 1..Len(r)
    BY <1>2
  <1>4. Head(q) = q[1]
    OBVIOUS
  <1>5. Head(q) \in Elements(q)
    BY <1>1, <1>4 DEF Elements
  <1>6. Elements(r) \subseteq Elements(q)
    <2> HIDE DEF r
    <2>1. \A k \in 1..Len(r) : k + 1 \in 1..Len(q) /\ r[k] = q[k + 1]
      BY <1>1, <1>2
    <2>2. QED
      BY <1>1, <1>3, <2>1 DEF Elements
  <1>7. Final(r, Head(q)) = q[Len(q)]
    <2>1. CASE r = <<>>
      <3> HIDE DEF r
      <3>1. Len(r) = 0
        BY <2>1
      <3>2. ASSUME NEW l \in Nat, l - 1 = 0 PROVE l = 1
        BY <3>2
      <3>3. Len(q) = 1
        BY <1>1, <1>2, <3>1, <3>2
      <3>4. QED
        BY <1>4, <2>1, <3>3 DEF Final
    <2>2. CASE r # <<>>
      <3> HIDE DEF r
      <3>1. Len(r) \in 1..Len(r) /\ Len(r) + 1 = Len(q)
        BY <1>1, <1>2, <2>2
      <3>2. QED
        BY <1>2, <2>2, <3>1 DEF Final
    <2>3. QED
      BY <2>1, <2>2
  <1>8. QED
    BY <1>5, <1>6, <1>7 DEF Final

-------------------------------------------------------------------------------
(* A calm step is one that leaves the counters at zero: no call fails.     *)

LEMMA CalmCall ==
    ASSUME TypeOK, Calm', NEW o, Call(o)
    PROVE  o = "ok"
  BY DEF TypeOK, Calm, Call

LEMMA StaysCalm == TypeOK /\ [Next]_vars /\ Calm' => Calm
  <1> SUFFICES ASSUME TypeOK, [Next]_vars, Calm' PROVE Calm
    OBVIOUS
  <1> USE DEF limitVars
  <1> DEFINE Rise == /\ faults' \in {faults, faults + 1}
                     /\ rebalances' \in {rebalances, rebalances + 1}
                     /\ crashes' \in {crashes, crashes + 1}
  <1>1. ASSUME NEW c \in Consumer,
               Start(c) \/ Stop(c) \/ Assign(c) \/ PollFails(c) \/ CommitCallback(c)
               \/ Revoke(c)
        PROVE  Rise
    BY <1>1 DEF Start, Stop, Assign, PollFails, CommitCallback, Revoke, Call
  <1>2. ASSUME NEW c \in Consumer, Loop(c) PROVE Rise
    BY <1>2 DEF Loop, Poll, Take, Handled, Put, Leave, FinalCommit, Close, SaveRevoked, Call
  <1>3. ASSUME NEW c \in Consumer,
               OnWork(c) \/ Commit(c) \/ SaveOffset(c) \/ SaveConsumed(c) \/ Expel(c)
               \/ Crash(c)
        PROVE  Rise
    BY <1>3 DEF OnWork, Commit, SaveOffset, SaveConsumed, Expel, Crash, Call
  <1>4. ASSUME NEW m \in Message, Produce(m) PROVE Rise
    BY <1>4 DEF Produce
  <1>5. ASSUME UNCHANGED vars PROVE Rise
    BY <1>5 DEF vars
  <1> HIDE DEF Rise
  <1>6. Rise
    BY <1>1, <1>2, <1>3, <1>4, <1>5 DEF Next
  <1>7. QED
    BY <1>6 DEF Rise, TypeOK, Calm

-------------------------------------------------------------------------------
(* One step per action that a calm run can take.                           *)

(* A step that touches nothing Orderly speaks of. *)
LEMMA Frame ==
    ASSUME NEW c \in Consumer, Orderly(c),
           UNCHANGED <<owner, db, pc, member, next, cur, sent, acked, offsets, work, done>>,
           pc[c] = "handle" => This(c)' = This(c)
    PROVE  Orderly(c)'
  <1>1. LastSaved(c)' = LastSaved(c) /\ Unassigned(c)' = Unassigned(c)
    BY DEF LastSaved, Unassigned
  <1>2. Settling(c)'
    BY DEF Orderly, Settling
  <1>3. Trailing(c)'
    BY <1>1 DEF Orderly, Trailing, Elements
  <1>4. Saved(c)' = Saved(c) /\ MustBeSaved(c)' = MustBeSaved(c)
    BY <1>1 DEF Saved, MustBeSaved
  <1>5. QED
    BY <1>2, <1>3, <1>4 DEF Orderly

LEMMA StartStep ==
    ASSUME TypeOK, NEW c \in Consumer, Orderly(c), Start(c)
    PROVE  Orderly(c)'
  <1> USE DEF batchVars, execVars, workVars, storeVars, groupVars
  <1>1. /\ pc[c] = "off" /\ offsets[c] = <<>> /\ work[c] = {}
        /\ pc'[c] = "poll" /\ cur'[c] = NoOffset /\ acked'[c] = {}
        /\ UNCHANGED <<owner, db, member, next, sent, offsets, work, done>>
    BY DEF TypeOK, Start, Drained
  <1>2. LastSaved(c)' = LastSaved(c) /\ Saved(c)' = Saved(c)
    BY <1>1 DEF LastSaved, Saved
  <1>3. ~member[c] /\ owner # c /\ sent[c] = <<>> /\ Saved(c)
    BY <1>1 DEF Orderly, Settling, Trailing, MustBeSaved
  <1>4. Settling(c)'
    BY <1>1, <1>3 DEF Settling
  <1>5. Trailing(c)'
    BY <1>1, <1>3 DEF Trailing, Elements
  <1>6. QED
    BY <1>2, <1>3, <1>4, <1>5 DEF Orderly

LEMMA AssignStep ==
    ASSUME TypeOK, Calm', NEW c \in Consumer, Orderly(c), Assign(c)
    PROVE  Orderly(c)'
  <1> USE DEF execVars, workVars, storeVars, commitVars
  <1>1. PICK o \in {"ok", "lost"} :
            /\ pc[c] = "poll" /\ ~member[c] /\ Call(o) /\ owner' = c
            /\ member' = [member EXCEPT ![c] = TRUE]
            /\ next' = [next EXCEPT ![c] =
                   Position(IF o = "ok" THEN db ELSE NoOffset, committed)]
            /\ UNCHANGED <<db, pc, cur, sent, acked, offsets, work, done>>
    BY DEF Assign
  <1>2. o = "ok"
    BY <1>1, CalmCall
  <1>3. member'[c] /\ next'[c] = Position(db, committed)
    BY <1>1, <1>2 DEF TypeOK
  <1>4. /\ cur[c] = NoOffset /\ work[c] = {} /\ sent[c] = <<>> /\ offsets[c] = <<>>
        /\ acked[c] = {} /\ Saved(c)
    BY <1>1 DEF Orderly, Settling, Trailing, Unassigned, MustBeSaved
  <1>5. LastSaved(c) = db /\ LastSaved(c)' = db
    BY <1>1, <1>4 DEF LastSaved, Final
  <1>6. Saved(c)'
    <2>1. CASE db = NoOffset
      <3>1. next[c] # NoOffset
        BY ConsumerConstantsOK DEF TypeOK
      <3>2. done = {}
        BY <1>4, <1>5, <2>1, <3>1 DEF Saved
      <3>3. QED
        BY <1>1, <1>5, <2>1, <3>2 DEF Saved
    <2>2. CASE db # NoOffset
      BY <1>3, <1>5, <2>2 DEF Saved, Position
    <2>3. QED
      BY <2>1, <2>2
  <1>7. Settling(c)'
    BY <1>1, <1>3, <1>4 DEF Settling
  <1>8. Trailing(c)'
    BY <1>1, <1>3, <1>4 DEF Trailing, Unassigned, Elements
  <1>9. QED
    BY <1>6, <1>7, <1>8 DEF Orderly

LEMMA CallbackStep ==
    ASSUME TypeOK, NEW c \in Consumer, Orderly(c), CommitCallback(c)
    PROVE  Orderly(c)'
  <1> USE DEF execVars, workVars, storeVars, groupVars, batchVars
  <1>1. PICK n \in acked[c] :
            /\ pc[c] \in {"poll", "final", "close", "record"}
            /\ acked' = [acked EXCEPT ![c] = @ \ {n}]
            /\ cur' = IF cur[c] = n THEN [cur EXCEPT ![c] = NoOffset] ELSE cur
            /\ UNCHANGED <<owner, db, pc, member, next, sent, offsets, work, done>>
    BY DEF CommitCallback
  <1>2. /\ acked'[c] \subseteq acked[c]
        /\ cur'[c] = IF cur[c] = n THEN NoOffset ELSE cur[c]
    BY <1>1 DEF TypeOK
  <1>3. LastSaved(c)' = LastSaved(c) /\ Saved(c)' = Saved(c) /\ Unassigned(c)' = Unassigned(c)
    BY <1>1 DEF LastSaved, Saved, Unassigned
  <1>4. work[c] = {}
    BY <1>1 DEF Orderly, Settling
  <1>5. Settling(c)'
    BY <1>1, <1>2, <1>4 DEF Orderly, Settling
  <1>6. Trailing(c)'
    BY <1>1, <1>2, <1>3 DEF Orderly, Trailing, Elements
  <1>7. MustBeSaved(c)' => Saved(c)
    <2>1. CASE cur[c] = n
      <3>1. n = next[c]
        <4>1. n # NoOffset
          BY <1>1, ConsumerConstantsOK DEF TypeOK
        <4>2. QED
          BY <2>1, <4>1 DEF Orderly, Settling
      <3>2. LastSaved(c) = next[c]
        BY <3>1 DEF Orderly, Trailing
      <3>3. QED
        BY <3>2 DEF Saved
    <2>2. CASE cur[c] # n
      BY <1>1, <1>2, <2>2 DEF Orderly, MustBeSaved
    <2>3. QED
      BY <2>1, <2>2
  <1>8. QED
    BY <1>3, <1>5, <1>6, <1>7 DEF Orderly

LEMMA RevokeStep ==
    ASSUME TypeOK, Calm, Calm', NEW c \in Consumer, Orderly(c), Revoke(c)
    PROVE  Orderly(c)'
  <1> USE DEF execVars, workVars, storeVars, commitVars, batchVars
  <1>1. pc[c] \in {"poll", "close"} /\ member[c] /\ sent[c] = <<>>
        /\ UNCHANGED <<db, next, cur, sent, acked, offsets, work, done>>
    BY DEF Revoke
  <1>2. owner = c
    BY <1>1 DEF Orderly, Settling
  <1>3. pc[c] = "close"
    <2>1. pc[c] = "poll" => rebalances' = rebalances + 1
      BY <1>2 DEF Revoke
    <2>2. QED
      BY <1>1, <2>1 DEF Calm
  <1>4. \/ /\ cur[c] # NoOffset /\ pc' = [pc EXCEPT ![c] = "leave"]
           /\ UNCHANGED <<owner, member>>
        \/ /\ cur[c] = NoOffset /\ pc' = [pc EXCEPT ![c] = "off"]
           /\ member' = [member EXCEPT ![c] = FALSE] /\ owner' = NoOne
    <2>1. PICK o \in Outcome :
              /\ cur[c] # NoOffset => faults' = IF o = "ok" THEN faults ELSE faults + 1
              /\ IF cur[c] # NoOffset /\ CommitOk(o, c)
                 THEN /\ pc' = [pc EXCEPT ![c] = IF pc[c] = "poll" THEN "revoke" ELSE "leave"]
                      /\ UNCHANGED <<owner, member>>
                 ELSE /\ pc' = [pc EXCEPT ![c] = GoneTo(c)]
                      /\ member' = [member EXCEPT ![c] = FALSE] /\ Left(c)
      BY DEF Revoke
    <2>2. cur[c] # NoOffset => o = "ok"
      BY <2>1 DEF Calm
    <2>3. QED
      BY <1>2, <1>3, <2>1, <2>2 DEF CommitOk, GoneTo, Left
  <1>5. Saved(c)
    BY <1>3 DEF Orderly, MustBeSaved
  <1>6. LastSaved(c)' = LastSaved(c) /\ Saved(c)' = Saved(c)
    BY <1>1 DEF LastSaved, Saved
  <1>7. \/ cur[c] # NoOffset /\ pc'[c] = "leave" /\ member'[c] /\ owner' = c
        \/ cur[c] = NoOffset /\ pc'[c] = "off" /\ ~member'[c] /\ owner' # c
    BY <1>1, <1>2, <1>4, ConsumerConstantsOK DEF TypeOK
  <1>8. Settling(c)'
    <2>1. work[c] = {} /\ cur[c] \in {NoOffset, next[c]}
      BY <1>3 DEF Orderly, Settling
    <2>2. QED
      BY <1>1, <1>7, <2>1 DEF Settling
  <1>9. Trailing(c)'
    BY <1>1, <1>6, <1>7 DEF Orderly, Trailing, Unassigned, Elements
  <1>10. QED
    BY <1>5, <1>6, <1>8, <1>9 DEF Orderly

LEMMA SaveRevokedStep ==
    ASSUME TypeOK, Calm', NEW c \in Consumer, Orderly(c), SaveRevoked(c)
    PROVE  Orderly(c)'
  <1> USE DEF execVars, workVars, commitVars, batchVars
  <1>1. PICK o \in Outcome :
            /\ pc[c] \in {"revoke", "leave"} /\ Call(o)
            /\ db' = IF Applied(o) THEN cur[c] ELSE db
            /\ cur' = [cur EXCEPT ![c] = NoOffset]
            /\ pc' = [pc EXCEPT ![c] = GoneTo(c)]
            /\ member' = [member EXCEPT ![c] = FALSE] /\ Left(c)
            /\ UNCHANGED <<next, sent, acked, offsets, work, done>>
    BY DEF SaveRevoked
  <1>2. o = "ok" /\ pc[c] = "leave"
    BY <1>1, CalmCall DEF Orderly, Settling
  <1>3. /\ db' = cur[c] /\ cur'[c] = NoOffset /\ pc'[c] = "off"
        /\ ~member'[c] /\ owner' # c
    BY <1>1, <1>2, ConsumerConstantsOK DEF TypeOK, Applied, GoneTo, Left
  <1>4. cur[c] = next[c] /\ work[c] = {} /\ sent[c] = <<>> /\ Saved(c)
    BY <1>2 DEF Orderly, Settling, Trailing, MustBeSaved
  <1>5. LastSaved(c)' = LastSaved(c) \/ LastSaved(c)' = next[c]
    BY <1>1, <1>3, <1>4 DEF LastSaved, Final
  <1>6. Saved(c)'
    BY <1>1, <1>4, <1>5 DEF Saved
  <1>7. Settling(c)'
    BY <1>1, <1>3, <1>4 DEF Settling
  <1>8. Trailing(c)'
    <2>1. \A n \in acked[c] : n <= next[c] /\ (n = next[c] => LastSaved(c)' = n)
      BY <1>5 DEF Orderly, Trailing
    <2>2. Elements(sent[c]) = {}
      BY <1>4 DEF Elements
    <2>3. QED
      BY <1>1, <1>3, <1>4, <2>1, <2>2 DEF Trailing, Unassigned, Elements
  <1>9. QED
    BY <1>6, <1>7, <1>8 DEF Orderly

LEMMA PollStep ==
    ASSUME TypeOK, NEW c \in Consumer, Orderly(c), Poll(c)
    PROVE  Orderly(c)'
  <1> USE DEF execVars, workVars, storeVars, groupVars, commitVars
  <1>1. /\ pc[c] = "poll" /\ member[c] /\ cur'[c] = NoOffset /\ pc'[c] = "record"
        /\ UNCHANGED <<owner, db, member, next, sent, acked, offsets, work, done>>
    BY DEF TypeOK, Poll
  <1>2. work[c] = {} /\ owner = c /\ Saved(c)
    BY <1>1 DEF Orderly, Settling, MustBeSaved
  <1>3. LastSaved(c)' = LastSaved(c) /\ Saved(c)' = Saved(c)
    BY <1>1 DEF LastSaved, Saved
  <1>4. Settling(c)'
    BY <1>1, <1>2 DEF Settling
  <1>5. Trailing(c)'
    BY <1>1, <1>3 DEF Orderly, Trailing, Unassigned, Elements
  <1>6. QED
    BY <1>2, <1>3, <1>4, <1>5 DEF Orderly

LEMMA LeaveStep ==
    ASSUME TypeOK, NEW c \in Consumer, Orderly(c), Leave(c)
    PROVE  Orderly(c)'
  <1> USE DEF execVars, workVars, storeVars, groupVars, commitVars, batchVars
  <1>1. /\ pc[c] \in {"poll", "record"} /\ pc'[c] = "final"
        /\ UNCHANGED <<owner, db, member, next, cur, sent, acked, offsets, work, done>>
    BY DEF TypeOK, Leave
  <1>2. work[c] = {} /\ (~member[c] => cur[c] = NoOffset)
    BY <1>1 DEF Orderly, Settling
  <1>3. LastSaved(c)' = LastSaved(c) /\ Saved(c)' = Saved(c)
    BY <1>1 DEF LastSaved, Saved
  <1>4. Settling(c)'
    BY <1>1, <1>2 DEF Orderly, Settling
  <1>5. Trailing(c)'
    BY <1>1, <1>3 DEF Orderly, Trailing, Unassigned, Elements
  <1>6. MustBeSaved(c)' => Saved(c)
    BY <1>1 DEF Orderly, MustBeSaved
  <1>7. QED
    BY <1>3, <1>4, <1>5, <1>6 DEF Orderly

LEMMA TakeStep ==
    ASSUME TypeOK, Calm', NEW c \in Consumer, Orderly(c), Take(c)
    PROVE  Orderly(c)'
  <1> USE DEF execVars, storeVars, groupVars, commitVars, batchVars
  <1>1. /\ pc[c] = "record"
        /\ \/ /\ pc' = [pc EXCEPT ![c] = "handle"]
              /\ work' = [work EXCEPT ![c] = @ \cup {This(c)}]
           \/ pc' = [pc EXCEPT ![c] = "put"] /\ work' = work
        /\ UNCHANGED <<log, owner, db, member, next, cur, sent, acked, offsets, done>>
    BY DEF Take
  <1>2. work[c] = {} /\ member[c]
    BY <1>1 DEF Orderly, Settling
  <1>3. \/ pc'[c] = "handle" /\ work'[c] = {This(c)}
        \/ pc'[c] = "put" /\ work'[c] = {}
    BY <1>1, <1>2 DEF TypeOK
  <1>4. LastSaved(c)' = LastSaved(c) /\ This(c)' = This(c)
    BY <1>1 DEF LastSaved, This
  <1>5. Settling(c)'
    BY <1>1, <1>2, <1>3, <1>4 DEF Orderly, Settling
  <1>6. Trailing(c)'
    BY <1>1, <1>3, <1>4 DEF Orderly, Trailing, Unassigned, Elements
  <1>7. ~MustBeSaved(c)'
    BY <1>3 DEF MustBeSaved
  <1>8. QED
    BY <1>5, <1>6, <1>7 DEF Orderly

LEMMA OnWorkStep ==
    ASSUME TypeOK, NEW c \in Consumer, Orderly(c), OnWork(c)
    PROVE  Orderly(c)'
  <1> USE DEF loopVars, execVars, storeVars, groupVars, commitVars, batchVars
  <1>1. PICK m \in work[c] :
            /\ work' = [work EXCEPT ![c] = @ \ {m}]
            /\ UNCHANGED <<log, owner, db, pc, member, next, cur, sent, acked, offsets>>
    BY DEF OnWork
  <1>2. pc[c] = "handle" /\ work[c] = {This(c)}
    BY <1>1 DEF Orderly, Settling
  <1>3. work'[c] = {}
    BY <1>1, <1>2 DEF TypeOK
  <1>4. LastSaved(c)' = LastSaved(c)
    BY <1>1 DEF LastSaved
  <1>5. Settling(c)'
    BY <1>1, <1>3 DEF Orderly, Settling
  <1>6. Trailing(c)'
    BY <1>1, <1>4 DEF Orderly, Trailing, Unassigned, Elements
  <1>7. ~MustBeSaved(c)'
    BY <1>1, <1>2 DEF MustBeSaved
  <1>8. QED
    BY <1>5, <1>6, <1>7 DEF Orderly

LEMMA HandledStep ==
    ASSUME TypeOK, Calm, Calm', NEW c \in Consumer, Orderly(c), Handled(c)
    PROVE  Orderly(c)'
  <1> USE DEF execVars, storeVars, groupVars, commitVars, batchVars
  <1>1. /\ pc[c] = "handle" /\ pc'[c] = "put" /\ This(c) \notin work[c]
        /\ UNCHANGED <<owner, db, member, next, cur, sent, acked, offsets, work>>
    BY DEF TypeOK, Handled, Calm
  <1>2. work[c] = {} /\ member[c]
    BY <1>1 DEF Orderly, Settling
  <1>3. LastSaved(c)' = LastSaved(c)
    BY <1>1 DEF LastSaved
  <1>4. Settling(c)'
    BY <1>1, <1>2 DEF Orderly, Settling
  <1>5. Trailing(c)'
    BY <1>1, <1>3 DEF Orderly, Trailing, Unassigned, Elements
  <1>6. ~MustBeSaved(c)'
    BY <1>1 DEF MustBeSaved
  <1>7. QED
    BY <1>4, <1>5, <1>6 DEF Orderly

LEMMA PutStep ==
    ASSUME TypeOK, Calm', NEW c \in Consumer, Orderly(c), Put(c)
    PROVE  Orderly(c)'
  <1> USE DEF workVars, storeVars, groupVars
  <1> DEFINE n == next[c] + 1
  <1>1. /\ pc[c] = "put" /\ n \in Nat /\ next[c] \in Nat
        /\ offsets[c] \in Seq(Nat) /\ sent[c] \in Seq(Nat) /\ acked[c] \subseteq Nat
    BY DEF TypeOK, Put
  <1>2. /\ next'[c] = n /\ cur'[c] = n /\ cur'[c] # NoOffset
        /\ pc'[c] \in {"poll", "record"} /\ (pc'[c] = "poll" => Due(c))
        /\ UNCHANGED <<owner, db, member, acked, work, done>>
    BY <1>1, ConsumerConstantsOK DEF TypeOK, Put, Upto, Due
  <1>3. IF Due(c)
        THEN offsets'[c] = Append(offsets[c], n) /\ sent'[c] = Append(sent[c], n)
        ELSE offsets'[c] = offsets[c] /\ sent'[c] = sent[c]
    <2>1. IF Due(c)
          THEN /\ offsets' = [offsets EXCEPT ![c] = Append(offsets[c], n)]
               /\ sent' = [sent EXCEPT ![c] = Append(sent[c], n)]
          ELSE UNCHANGED <<offsets, sent>>
      BY CalmCall DEF Put, Upto
    <2>2. offsets \in [Consumer -> Seq(Nat)] /\ sent \in [Consumer -> Seq(Nat)]
      BY DEF TypeOK
    <2>3. QED
      BY <2>1, <2>2
  <1>4. member[c] /\ owner = c /\ work[c] = {}
    BY <1>1 DEF Orderly, Settling
  <1>5. \A k \in acked[c] \cup Elements(sent[c]) : k \in Nat /\ k <= next[c]
    BY <1>1 DEF Orderly, Trailing, Elements
  <1>6. /\ Due(c) => LastSaved(c)' = n
        /\ Elements(sent[c])' \subseteq Elements(sent[c]) \cup IF Due(c) THEN {n} ELSE {}
    <2>1. CASE Due(c)
      <3>1. LastSaved(c)' = Final(Append(offsets[c], n), db)
        BY <1>2, <1>3, <2>1 DEF LastSaved
      <3>2. Elements(sent[c])' = Elements(Append(sent[c], n))
        BY <1>3, <2>1 DEF Elements
      <3> HIDE DEF n
      <3>3. Final(Append(offsets[c], n), db) = n
        BY <1>1, Enqueued
      <3>4. Elements(Append(sent[c], n)) = Elements(sent[c]) \cup {n}
        BY <1>1, Enqueued
      <3>5. QED
        BY <2>1, <3>1, <3>2, <3>3, <3>4
    <2>2. CASE ~Due(c)
      BY <1>3, <2>2 DEF Elements
    <2>3. QED
      BY <2>1, <2>2
  <1>7. Settling(c)'
    BY <1>2, <1>4 DEF Settling
  <1>8. Trailing(c)'
    <2>1. ~Unassigned(c)' /\ pc'[c] \notin {"off", "close", "leave"}
      BY <1>2, <1>4 DEF Unassigned
    <2>2. ASSUME NEW k \in acked'[c] \cup Elements(sent[c])'
          PROVE  k <= next'[c] /\ (k = next'[c] => LastSaved(c)' = k)
      <3>1. CASE k \in acked[c] \cup Elements(sent[c])
        <4>1. k \in Nat /\ k <= next[c]
          BY <1>5, <3>1
        <4>2. QED
          BY <1>1, <1>2, <4>1
      <3>2. CASE Due(c) /\ k = n
        BY <1>1, <1>2, <1>6, <3>2
      <3>3. QED
        BY <1>2, <1>6, <2>2, <3>1, <3>2
    <2>3. QED
      BY <2>1, <2>2 DEF Trailing
  <1>9. MustBeSaved(c)' => Saved(c)'
    BY <1>2, <1>6 DEF MustBeSaved, Saved
  <1>10. QED
    BY <1>7, <1>8, <1>9 DEF Orderly

LEMMA FinalCommitStep ==
    ASSUME TypeOK, NEW c \in Consumer, Orderly(c), FinalCommit(c)
    PROVE  Orderly(c)'
  <1> USE DEF workVars, storeVars, batchVars, commitVars
  <1>1. /\ pc[c] = "final" /\ sent[c] = <<>> /\ pc'[c] = "close"
        /\ UNCHANGED <<owner, db, member, next, cur, sent, acked, work, done>>
    BY DEF TypeOK, FinalCommit
  <1>2. IF cur[c] = NoOffset THEN offsets'[c] = offsets[c]
                             ELSE offsets'[c] = Append(offsets[c], cur[c])
    <2>1. IF cur[c] = NoOffset
          THEN offsets' = offsets
          ELSE offsets' = [offsets EXCEPT ![c] = Append(offsets[c], cur[c])]
      BY DEF FinalCommit
    <2>2. offsets \in [Consumer -> Seq(Nat)]
      BY DEF TypeOK
    <2>3. QED
      BY <2>1, <2>2
  <1>3. work[c] = {} /\ cur[c] \in {NoOffset, next[c]}
    BY <1>1 DEF Orderly, Settling
  <1>4. CASE cur[c] = NoOffset
    <2>1. LastSaved(c)' = LastSaved(c) /\ Saved(c)' = Saved(c)
      BY <1>1, <1>2, <1>4 DEF LastSaved, Saved
    <2>2. Saved(c)
      BY <1>1, <1>4 DEF Orderly, MustBeSaved
    <2>3. Trailing(c)'
      BY <1>1, <2>1 DEF Orderly, Trailing, Unassigned, Elements
    <2>4. Settling(c)'
      BY <1>1, <1>3 DEF Orderly, Settling
    <2>5. QED
      BY <2>1, <2>2, <2>3, <2>4 DEF Orderly
  <1>5. CASE cur[c] # NoOffset
    <2>1. /\ offsets[c] \in Seq(Nat) /\ next[c] \in Nat
          /\ offsets'[c] = Append(offsets[c], next[c])
      BY <1>2, <1>3, <1>5 DEF TypeOK
    <2>2. LastSaved(c)' = next[c]
      BY <1>1, <2>1, Enqueued DEF LastSaved
    <2>3. Saved(c)'
      BY <1>1, <2>2 DEF Saved
    <2>4. Trailing(c)'
      BY <1>1, <2>2 DEF Orderly, Trailing, Unassigned, Elements
    <2>5. Settling(c)'
      BY <1>1, <1>3 DEF Orderly, Settling
    <2>6. QED
      BY <2>3, <2>4, <2>5 DEF Orderly
  <1>6. QED
    BY <1>4, <1>5

LEMMA CloseStep ==
    ASSUME TypeOK, NEW c \in Consumer, Orderly(c), Close(c)
    PROVE  Orderly(c)'
  <1> USE DEF execVars, workVars, storeVars, groupVars, commitVars, batchVars
  <1>1. /\ pc[c] = "close" /\ ~member[c] /\ pc'[c] = "off"
        /\ UNCHANGED <<owner, db, member, next, cur, sent, acked, offsets, work, done>>
    BY DEF TypeOK, Close
  <1>2. work[c] = {} /\ Saved(c) /\ sent[c] = <<>>
    BY <1>1 DEF Orderly, Settling, Trailing, MustBeSaved
  <1>3. LastSaved(c)' = LastSaved(c) /\ Saved(c)' = Saved(c)
    BY <1>1 DEF LastSaved, Saved
  <1>4. Settling(c)'
    BY <1>1, <1>2 DEF Orderly, Settling
  <1>5. Trailing(c)'
    BY <1>1, <1>2, <1>3 DEF Orderly, Trailing, Unassigned, Elements
  <1>6. QED
    BY <1>2, <1>3, <1>4, <1>5 DEF Orderly

LEMMA CommitStep ==
    ASSUME TypeOK, NEW c \in Consumer, Orderly(c), Commit(c)
    PROVE  Orderly(c)'
  <1> USE DEF loopVars, execVars, workVars, storeVars, batchVars
  <1>1. /\ sent[c] # <<>> /\ sent'[c] = Tail(sent[c])
        /\ acked'[c] \subseteq acked[c] \cup {Head(sent[c])}
        /\ UNCHANGED <<owner, db, pc, member, next, cur, offsets, work, done>>
    BY DEF TypeOK, Commit
  <1>2. sent[c] \in Seq(Nat)
    BY DEF TypeOK
  <1>3. Head(sent[c]) \in Elements(sent[c]) /\ Elements(Tail(sent[c])) \subseteq Elements(sent[c])
    BY <1>1, <1>2, Dequeued
  <1>4. pc[c] \notin {"off", "close", "leave"} /\ ~Unassigned(c)
    BY <1>1 DEF Orderly, Trailing
  <1>5. LastSaved(c)' = LastSaved(c) /\ Unassigned(c)' = Unassigned(c)
        /\ MustBeSaved(c)' = MustBeSaved(c) /\ Saved(c)' = Saved(c)
    BY <1>1 DEF LastSaved, Unassigned, MustBeSaved, Saved
  <1>6. Settling(c)'
    <2>1. pc[c] # "handle" => work[c] = {}
      BY DEF Orderly, Settling
    <2>2. This(c)' = This(c)
      BY DEF Commit, This
    <2>3. QED
      BY <1>1, <2>1, <2>2 DEF Orderly, Settling
  <1>7. Trailing(c)'
    <2>1. Elements(sent[c])' = Elements(Tail(sent[c]))
      BY <1>1 DEF Elements
    <2>2. acked'[c] \cup Elements(sent[c])' \subseteq acked[c] \cup Elements(sent[c])
      BY <1>1, <1>3, <2>1
    <2>3. QED
      BY <1>1, <1>4, <1>5, <2>2 DEF Orderly, Trailing
  <1>8. QED
    BY <1>5, <1>6, <1>7 DEF Orderly

LEMMA SaveOffsetStep ==
    ASSUME TypeOK, Calm', NEW c \in Consumer, Orderly(c), SaveOffset(c)
    PROVE  Orderly(c)'
  <1> USE DEF loopVars, groupVars, workVars, commitVars, batchVars
  <1>1. PICK o \in Outcome :
            /\ offsets[c] # <<>> /\ Call(o)
            /\ offsets' = [offsets EXCEPT ![c] = Tail(offsets[c])]
            /\ db' = IF Applied(o) THEN Head(offsets[c]) ELSE db
            /\ UNCHANGED <<log, owner, pc, member, next, cur, sent, acked, work, done>>
    BY DEF SaveOffset
  <1>2. o = "ok"
    BY <1>1, CalmCall
  <1>3. offsets[c] \in Seq(Nat) /\ offsets'[c] = Tail(offsets[c]) /\ db' = Head(offsets[c])
    BY <1>1, <1>2 DEF TypeOK, Applied
  <1>4. LastSaved(c)' = LastSaved(c)
    BY <1>1, <1>3, Dequeued DEF LastSaved
  <1>5. ~Unassigned(c) /\ ~Unassigned(c)'
    BY <1>1 DEF Orderly, Trailing, Unassigned
  <1>6. MustBeSaved(c)' = MustBeSaved(c) /\ Saved(c)' = Saved(c)
    BY <1>1, <1>4 DEF MustBeSaved, Saved
  <1>7. Settling(c)'
    BY <1>1 DEF Orderly, Settling, This
  <1>8. Trailing(c)'
    BY <1>1, <1>4, <1>5 DEF Orderly, Trailing, Elements
  <1>9. QED
    BY <1>6, <1>7, <1>8 DEF Orderly

-------------------------------------------------------------------------------
(* The theorem.                                                            *)

LEMMA OrderlyStep ==
    ASSUME IInv, Calm, Calm', NEW c, Consumer = {c}, Orderly(c), [Next]_vars
    PROVE  Orderly(c)'
  <1> USE DEF groupVars, storeVars, loopVars, batchVars, commitVars, execVars, workVars,
              resetVars, limitVars
  <1> DEFINE Idle == /\ UNCHANGED <<owner, db, pc, member, next, cur, sent, acked, offsets,
                                      work, done>>
                     /\ pc[c] = "handle" => This(c)' = This(c)
  <1>1. TypeOK /\ Within /\ c \in Consumer
    BY DEF IInv
  <1>2. ASSUME NEW m \in Message, Produce(m) PROVE Idle
    <2>1. log' = Append(log, m) /\ next' = next /\ log \in Seq(Message) /\ next[c] \in Nat
      BY <1>1, <1>2 DEF Produce, TypeOK
    <2>2. pc[c] = "handle" => next[c] + 1 \in 1..Len(log)
      BY <1>1, <2>1 DEF Within, Batch, TypeOK
    <2>3. pc[c] = "handle" => This(c)' = This(c)
      BY <2>1, <2>2 DEF This
    <2>4. QED
      BY <1>2, <2>3 DEF Produce
  <1>3. ASSUME Stop(c) \/ SaveConsumed(c) \/ UNCHANGED vars PROVE Idle
    BY <1>3 DEF Stop, SaveConsumed, vars, This
  <1>4. ~PollFails(c) /\ ~Expel(c) /\ ~Crash(c)
    BY DEF Calm, PollFails, Expel, Crash
  <1>5. ASSUME Loop(c) PROVE Orderly(c)'
    BY <1>1, <1>5, PollStep, TakeStep, HandledStep, PutStep, LeaveStep, FinalCommitStep,
       CloseStep, SaveRevokedStep DEF Loop
  <1>6. Idle => Orderly(c)'
    BY <1>1, Frame
  <1> HIDE DEF Idle
  <1>7. QED
    BY <1>1, <1>2, <1>3, <1>4, <1>5, <1>6, StartStep, AssignStep, CallbackStep, RevokeStep,
       OnWorkStep, CommitStep, SaveOffsetStep DEF Next

(* A single consumer that stops, however often and wherever in a batch,    *)
(* while nothing fails, crashes or is rebalanced, leaves its position in   *)
(* the offset log: startup's finally block commits what the callbacks have *)
(* not confirmed, and the listener or the executor writes it.              *)
THEOREM StopsClean ==
    ASSUME NEW c, Consumer = {c}
    PROVE  Spec => []CleanStop
  <1> DEFINE Stops == Calm => Orderly(c)
  <1>1. Init => Stops
    <2> SUFFICES ASSUME Init PROVE Orderly(c)
      OBVIOUS
    <2>1. /\ pc[c] = "off" /\ member[c] = FALSE /\ owner # c /\ cur[c] = NoOffset
          /\ work[c] = {} /\ sent[c] = <<>> /\ acked[c] = {} /\ offsets[c] = <<>>
          /\ db = NoOffset /\ done = {}
      BY ConsumerConstantsOK DEF Init
    <2>2. Settling(c)
      BY <2>1 DEF Settling
    <2>3. Elements(sent[c]) = {}
      BY <2>1 DEF Elements
    <2>4. Trailing(c)
      BY <2>1, <2>3 DEF Trailing, Unassigned
    <2>5. Saved(c)
      BY <2>1 DEF Saved, LastSaved, Final
    <2>6. QED
      BY <2>2, <2>4, <2>5 DEF Orderly
  <1>2. IInv /\ Stops /\ [Next]_vars => Stops'
    <2> SUFFICES ASSUME IInv, Stops, [Next]_vars, Calm' PROVE Orderly(c)'
      OBVIOUS
    <2>1. Calm
      BY StaysCalm DEF IInv
    <2>2. QED
      BY <2>1, OrderlyStep
  <1>3. IInv /\ Stops => CleanStop
    <2> SUFFICES ASSUME IInv, Calm, Orderly(c), pc[c] = "off", Drained(c)
                 PROVE  IF db = NoOffset THEN done = {} ELSE db = next[c]
      BY DEF CleanStop, Calm
    <2>1. Saved(c) /\ LastSaved(c) = db
      BY DEF Orderly, MustBeSaved, Drained, LastSaved, Final
    <2>2. next[c] # NoOffset
      BY ConsumerConstantsOK DEF IInv, TypeOK
    <2>3. QED
      BY <2>1, <2>2 DEF Saved
  <1>4. QED
    BY <1>1, <1>2, <1>3, Invariance, PTL DEF Spec
===============================================================================
