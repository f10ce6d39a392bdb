---------------------------- MODULE ConsumerProofs ----------------------------
(***************************************************************************)
(* Proofs about Consumer for every set of messages and consumers, every    *)
(* batch and poll size and every bound on faults, crashes and rebalances.  *)
(***************************************************************************)
EXTENDS Consumer, TLAPS

-------------------------------------------------------------------------------
(* Types.                                                                  *)

(* A call that may fail leaves the fault counter a number. *)
LEMMA CallType ==
    ASSUME TypeOK, NEW o \in Outcome, Call(o)
    PROVE  /\ faults' \in Nat
           /\ UNCHANGED <<starts, rebalances, crashes>>
  BY ConsumerConstantsOK DEF TypeOK, Call

LEMMA GroupType ==
    ASSUME TypeOK, NEW c \in Consumer, NEW n \in Offset, NEW o \in Outcome
    PROVE  /\ Committed(o, c, n) \in Offset
           /\ (IF owner = c THEN NoOne ELSE owner) \in Consumer \cup {NoOne}
           /\ GoneTo(c) \in Pc
  BY DEF TypeOK, Committed, GoneTo, Pc

(* Functions of the consumers keep their type under an update, and queues  *)
(* when an element is put in or taken out.                                 *)
LEMMA UpdateType ==
    ASSUME NEW S, NEW f \in [Consumer -> S], NEW c \in Consumer, NEW x \in S
    PROVE  [f EXCEPT ![c] = x] \in [Consumer -> S]
  OBVIOUS

LEMMA QueueType ==
    ASSUME NEW f \in [Consumer -> Seq(Nat)], NEW c \in Consumer
    PROVE  /\ \A n \in Nat : [f EXCEPT ![c] = Append(f[c], n)] \in [Consumer -> Seq(Nat)]
           /\ f[c] # <<>> => /\ Head(f[c]) \in Nat
                            /\ [f EXCEPT ![c] = Tail(f[c])] \in [Consumer -> Seq(Nat)]
  <1>1. f[c] \in Seq(Nat)
    OBVIOUS
  <1>2. \A n \in Nat : Append(f[c], n) \in Seq(Nat)
    BY <1>1
  <1>3. f[c] # <<>> => Head(f[c]) \in Nat /\ Tail(f[c]) \in Seq(Nat)
    BY <1>1
  <1>4. QED
    BY <1>2, <1>3

(* While a batch is handled the position is inside it and it is inside the *)
(* log: the iterator in startup has a next record.                         *)
Batch(c) == pc[c] \in {"record", "handle", "put"}

Within == \A c \in Consumer :
              Batch(c) => next[c] < end[c] /\ end[c] <= Len(log)

LEMMA ThisType ==
    ASSUME TypeOK, Within, NEW c \in Consumer, Batch(c)
    PROVE  This(c) \in Message
  BY DEF TypeOK, Within, This

(* The type invariant holds in every step. *)
LEMMA StepType == TypeOK /\ Within /\ [Next]_vars => TypeOK'
  <1> SUFFICES ASSUME TypeOK, Within, [Next]_vars PROVE TypeOK'
    OBVIOUS
  <1> USE DEF groupVars, storeVars, loopVars, batchVars, commitVars, execVars,
              workVars, resetVars, limitVars
  <1>1. ASSUME NEW m \in Message, Produce(m) PROVE TypeOK'
    BY <1>1 DEF TypeOK, Produce
  <1>2. ASSUME NEW c \in Consumer, Start(c) PROVE TypeOK'
    <2>1. /\ pc' = [pc EXCEPT ![c] = "poll"] /\ running' = [running EXCEPT ![c] = TRUE]
          /\ cur' = [cur EXCEPT ![c] = NoOffset] /\ acked' = [acked EXCEPT ![c] = {}]
          /\ starts' = [starts EXCEPT ![c] = @ + 1]
      BY <1>2 DEF Start
    <2>2. pc' \in [Consumer -> Pc]
      BY <2>1 DEF TypeOK, Pc
    <2>3. running' \in [Consumer -> BOOLEAN] /\ acked' \in [Consumer -> SUBSET Nat]
      BY <2>1 DEF TypeOK
    <2>4. cur' \in [Consumer -> Offset]
      BY <2>1 DEF TypeOK, Offset
    <2>5. starts' \in [Consumer -> Nat]
      BY <2>1 DEF TypeOK
    <2>6. UNCHANGED <<log, owner, committed, db, consumed, member, next, end, count, sent,
                      offsets, marks, work, done, overdue, again, skipped, rebalances,
                      faults, crashes>>
      BY <1>2 DEF Start
    <2>7. QED
      BY <2>2, <2>3, <2>4, <2>5, <2>6 DEF TypeOK
  <1>3. ASSUME NEW c \in Consumer, Stop(c) PROVE TypeOK'
    BY <1>3 DEF TypeOK, Stop
  <1>4. ASSUME NEW c \in Consumer, Assign(c) PROVE TypeOK'
    <2>1. PICK o \in {"ok", "lost"} :
              /\ Call(o)
              /\ owner' = c /\ member' = [member EXCEPT ![c] = TRUE]
              /\ next' = [next EXCEPT ![c] =
                     Position(IF o = "ok" THEN db ELSE NoOffset, committed)]
              /\ skipped' \in {Len(log), skipped}
      BY <1>4 DEF Assign
    <2>2. Position(IF o = "ok" THEN db ELSE NoOffset, committed) \in Nat
      <3>1. Len(log) \in Nat /\ db \in Offset /\ committed \in Offset
        BY DEF TypeOK
      <3>2. QED
        BY <3>1 DEF Position, Offset
    <2>3. faults' \in Nat /\ UNCHANGED <<starts, rebalances, crashes>>
      BY <2>1, CallType DEF Outcome
    <2>4. Len(log) \in Nat
      BY DEF TypeOK
    <2>5. UNCHANGED <<log, committed, db, consumed, pc, running, end, count, cur, sent,
                      acked, offsets, marks, work, done, overdue, again>>
      BY <1>4 DEF Assign
    <2>6. QED
      BY <2>1, <2>2, <2>3, <2>4, <2>5 DEF TypeOK, Offset
  <1>5. ASSUME NEW c \in Consumer, PollFails(c) PROVE TypeOK'
    <2>1. /\ owner' \in {owner, c}
          /\ pc' = [pc EXCEPT ![c] = "final"]
          /\ faults' = faults + 1
          /\ UNCHANGED member \/ member' = [member EXCEPT ![c] = TRUE]
      BY <1>5 DEF PollFails
    <2>2. /\ member' \in [Consumer -> BOOLEAN] /\ pc' \in [Consumer -> Pc]
          /\ owner' \in Consumer \cup {NoOne} /\ faults' \in Nat
      <3>1. /\ member \in [Consumer -> BOOLEAN] /\ pc \in [Consumer -> Pc]
            /\ owner \in Consumer \cup {NoOne} /\ faults \in Nat
        BY DEF TypeOK
      <3>2. "final" \in Pc
        BY DEF Pc
      <3>3. member' \in [Consumer -> BOOLEAN]
        BY <2>1, <3>1, UpdateType
      <3>4. pc' \in [Consumer -> Pc]
        BY <2>1, <3>1, <3>2, UpdateType
      <3>5. QED
        BY <2>1, <3>1, <3>3, <3>4
    <2>3. UNCHANGED <<log, committed, db, consumed, running, next, end, count, cur, sent,
                      acked, offsets, marks, work, done, overdue, again, skipped,
                      starts, rebalances, crashes>>
      BY <1>5 DEF PollFails
    <2>4. QED
      BY <2>2, <2>3 DEF TypeOK
  <1>6. ASSUME NEW c \in Consumer, CommitCallback(c) PROVE TypeOK'
    <2>1. PICK n \in acked[c] :
              /\ acked' = [acked EXCEPT ![c] = @ \ {n}]
              /\ cur' \in {cur, [cur EXCEPT ![c] = NoOffset]}
      BY <1>6 DEF CommitCallback
    <2>2. acked' \in [Consumer -> SUBSET Nat]
      BY <2>1 DEF TypeOK
    <2>3. cur' \in [Consumer -> Offset]
      BY <2>1 DEF TypeOK, Offset
    <2>4. UNCHANGED <<log, owner, committed, db, consumed, pc, running, member, next, end,
                      count, sent, offsets, marks, work, done, overdue, again, skipped,
                      starts, rebalances, faults, crashes>>
      BY <1>6 DEF CommitCallback
    <2>5. QED
      BY <2>2, <2>3, <2>4 DEF TypeOK
  <1>7. ASSUME NEW c \in Consumer, Revoke(c) PROVE TypeOK'
    <2>1. PICK o \in Outcome :
              /\ rebalances' = rebalances \/ rebalances' = rebalances + 1
              /\ faults' = faults \/ faults' = faults + 1
              /\ committed' = committed \/ committed' = Committed(o, c, cur[c])
              /\ owner' = owner \/ owner' = IF owner = c THEN NoOne ELSE owner
              /\ \E p \in {"revoke", "leave", GoneTo(c)} : pc' = [pc EXCEPT ![c] = p]
              /\ \/ UNCHANGED member
                 \/ member' = [member EXCEPT ![c] = FALSE]
      BY <1>7 DEF Revoke, Left
    <2>2. cur[c] \in Offset
      BY DEF TypeOK
    <2>3. committed' \in Offset /\ owner' \in Consumer \cup {NoOne}
      <3>1. committed \in Offset /\ owner \in Consumer \cup {NoOne}
        BY DEF TypeOK
      <3>2. QED
        BY <2>1, <2>2, <3>1, GroupType
    <2>4. pc' \in [Consumer -> Pc]
      <3>1. "revoke" \in Pc /\ "leave" \in Pc /\ GoneTo(c) \in Pc
        BY <2>2, GroupType DEF Pc
      <3>2. QED
        BY <2>1, <3>1 DEF TypeOK
    <2>5. UNCHANGED <<log, db, consumed, running, next, end, count, cur, sent, acked,
                      offsets, marks, work, done, overdue, again, skipped,
                      starts, crashes>>
      BY <1>7 DEF Revoke
    <2>6. member' \in [Consumer -> BOOLEAN] /\ rebalances' \in Nat /\ faults' \in Nat
      <3>1. member \in [Consumer -> BOOLEAN] /\ rebalances \in Nat /\ faults \in Nat
        BY DEF TypeOK
      <3>2. [member EXCEPT ![c] = FALSE] \in [Consumer -> BOOLEAN]
        BY <3>1, UpdateType
      <3>3. rebalances' \in Nat /\ faults' \in Nat
        BY <2>1, <3>1
      <3>4. QED
        BY <2>1, <3>1, <3>2, <3>3
    <2>7. QED
      BY <2>3, <2>4, <2>5, <2>6 DEF TypeOK
  <1>8. ASSUME NEW c \in Consumer, SaveRevoked(c) PROVE TypeOK'
    <2>1. PICK o \in Outcome :
              /\ Call(o)
              /\ db' \in {db, cur[c]}
              /\ cur' = [cur EXCEPT ![c] = NoOffset]
              /\ pc' = [pc EXCEPT ![c] = GoneTo(c)]
              /\ member' = [member EXCEPT ![c] = FALSE] /\ Left(c)
      BY <1>8 DEF SaveRevoked
    <2>2. faults' \in Nat /\ UNCHANGED <<starts, rebalances, crashes>>
      BY <2>1, CallType
    <2>3. cur[c] \in Offset
      BY DEF TypeOK
    <2>4. owner' \in Consumer \cup {NoOne} /\ pc' \in [Consumer -> Pc]
      BY <2>1, <2>3, GroupType DEF TypeOK, Left
    <2>5. UNCHANGED <<log, committed, consumed, running, next, end, count, sent, acked,
                      offsets, marks, work, done, overdue, again, skipped>>
      BY <1>8 DEF SaveRevoked
    <2>6. QED
      BY <2>1, <2>2, <2>3, <2>4, <2>5 DEF TypeOK, Offset
  <1>9. ASSUME NEW c \in Consumer, Poll(c) PROVE TypeOK'
    <2>1. PICK e \in 1..MaxPoll :
              /\ end' = [end EXCEPT ![c] = next[c] + e]
              /\ cur' = [cur EXCEPT ![c] = NoOffset] /\ count' = [count EXCEPT ![c] = 0]
              /\ pc' = [pc EXCEPT ![c] = "record"]
      BY <1>9 DEF Poll
    <2>2. next[c] + e \in Nat
      <3>1. next[c] \in Nat
        BY DEF TypeOK
      <3>2. e \in Nat
        BY ConsumerConstantsOK
      <3>3. QED
        BY <3>1, <3>2
    <2>3. end' \in [Consumer -> Nat] /\ count' \in [Consumer -> Nat]
      BY <2>1, <2>2 DEF TypeOK
    <2>4. cur' \in [Consumer -> Offset]
      BY <2>1 DEF TypeOK, Offset
    <2>5. pc' \in [Consumer -> Pc]
      BY <2>1 DEF TypeOK, Pc
    <2>6. UNCHANGED <<log, owner, committed, db, consumed, running, member, next, sent,
                      acked, offsets, marks, work, done, overdue, again, skipped,
                      starts, rebalances, faults, crashes>>
      BY <1>9 DEF Poll
    <2>7. QED
      BY <2>3, <2>4, <2>5, <2>6 DEF TypeOK
  <1>10. ASSUME NEW c \in Consumer, Leave(c) PROVE TypeOK'
    BY <1>10 DEF TypeOK, Leave, Pc
  <1>11. ASSUME NEW c \in Consumer, Take(c) PROVE TypeOK'
    <2>1. PICK o \in {"ok", "lost"} :
              /\ Batch(c) /\ Call(o)
              /\ \E p \in {"handle", "put"} : pc' = [pc EXCEPT ![c] = p]
              /\ work' = work \/ work' = [work EXCEPT ![c] = @ \cup {This(c)}]
              /\ again' = again \/ again' = again \cup {This(c)}
      BY <1>11 DEF Take, Batch
    <2>2. faults' \in Nat /\ UNCHANGED <<starts, rebalances, crashes>>
      BY <2>1, CallType DEF Outcome
    <2>3. This(c) \in Message
      BY <2>1, ThisType
    <2>4. work' \in [Consumer -> SUBSET Message] /\ again' \subseteq Message
      <3>1. work \in [Consumer -> SUBSET Message] /\ again \subseteq Message
        BY DEF TypeOK
      <3>2. QED
        BY <2>1, <2>3, <3>1
    <2>5. pc' \in [Consumer -> Pc]
      BY <2>1 DEF TypeOK, Pc
    <2>6. UNCHANGED <<log, owner, committed, db, consumed, running, member, next, end,
                      count, cur, sent, acked, offsets, marks, done, overdue, skipped>>
      BY <1>11 DEF Take
    <2>7. QED
      BY <2>2, <2>4, <2>5, <2>6 DEF TypeOK
  <1>12. ASSUME NEW c \in Consumer, OnWork(c) PROVE TypeOK'
    <2>1. PICK m \in work[c] : work' = [work EXCEPT ![c] = @ \ {m}] /\ done' = done \cup {m}
      BY <1>12 DEF OnWork
    <2>2. work' \in [Consumer -> SUBSET Message] /\ done' \subseteq Message
      BY <2>1 DEF TypeOK
    <2>3. QED
      BY <1>12, <2>2 DEF TypeOK, OnWork
  <1>13. ASSUME NEW c \in Consumer, Handled(c) PROVE TypeOK'
    <2>1. /\ Batch(c)
          /\ pc' = [pc EXCEPT ![c] = "put"]
          /\ overdue' \in {overdue, overdue \cup {This(c)}}
          /\ faults' \in {faults, faults + 1}
      BY <1>13 DEF Handled, Batch
    <2>2. This(c) \in Message
      BY <2>1, ThisType
    <2>3. pc' \in [Consumer -> Pc] /\ overdue' \subseteq Message /\ faults' \in Nat
      BY <2>1, <2>2 DEF TypeOK, Pc
    <2>4. QED
      BY <1>13, <2>3 DEF TypeOK, Handled
  <1>14. ASSUME NEW c \in Consumer, Put(c) PROVE TypeOK'
    <2>1. /\ Batch(c)
          /\ next' = [next EXCEPT ![c] = next[c] + 1]
          /\ cur' = [cur EXCEPT ![c] = Upto(c)]
          /\ \/ offsets' = offsets
             \/ offsets' = [offsets EXCEPT ![c] = Append(offsets[c], Upto(c))]
          /\ sent' = sent \/ sent' = [sent EXCEPT ![c] = Append(sent[c], Upto(c))]
          /\ \E k \in {0, count[c] + 1} : count' = [count EXCEPT ![c] = k]
          /\ marks' = [marks EXCEPT ![c] = @ \cup ({This(c)} \ Broken)]
          /\ \E p \in {"poll", "record"} : pc' = [pc EXCEPT ![c] = p]
      BY <1>14 DEF Put, Batch
    <2>2. This(c) \in Message /\ Upto(c) \in Nat /\ count[c] + 1 \in Nat
      <3>1. next[c] \in Nat /\ count[c] \in Nat
        BY DEF TypeOK
      <3>2. QED
        BY <2>1, <3>1, ThisType DEF Upto
    <2>3. pc' \in [Consumer -> Pc]
      BY <2>1 DEF TypeOK, Pc
    <2>4. next' \in [Consumer -> Nat] /\ count' \in [Consumer -> Nat]
      BY <2>1, <2>2 DEF TypeOK, Upto
    <2>5. cur' \in [Consumer -> Offset]
      BY <2>1, <2>2 DEF TypeOK, Offset
    <2>6. offsets' \in [Consumer -> Seq(Nat)]
      <3>1. offsets \in [Consumer -> Seq(Nat)]
        BY DEF TypeOK
      <3>2. [offsets EXCEPT ![c] = Append(offsets[c], Upto(c))] \in [Consumer -> Seq(Nat)]
        BY <2>2, <3>1, QueueType
      <3>3. QED
        BY <2>1, <3>1, <3>2
    <2>7. sent' \in [Consumer -> Seq(Nat)]
      <3>1. sent \in [Consumer -> Seq(Nat)]
        BY DEF TypeOK
      <3>2. [sent EXCEPT ![c] = Append(sent[c], Upto(c))] \in [Consumer -> Seq(Nat)]
        BY <2>2, <3>1, QueueType
      <3>3. QED
        BY <2>1, <3>1, <3>2
    <2>8. marks' \in [Consumer -> SUBSET Message]
      <3>1. marks \in [Consumer -> SUBSET Message] /\ {This(c)} \ Broken \subseteq Message
        BY <2>2 DEF TypeOK
      <3>2. QED
        BY <2>1, <3>1
    <2>9. UNCHANGED <<log, owner, committed, db, consumed, running, member, end, acked,
                      work, done, overdue, again, skipped, starts, rebalances,
                      crashes>>
      BY <1>14 DEF Put, Call
    <2>10. faults' \in Nat
      BY <1>14 DEF Put, Call, TypeOK
    <2>11. QED
      BY <2>3, <2>4, <2>5, <2>6, <2>7, <2>8, <2>9, <2>10 DEF TypeOK
  <1>15. ASSUME NEW c \in Consumer, FinalCommit(c) PROVE TypeOK'
    <2>1. PICK o \in Outcome :
              /\ faults' = faults \/ faults' = faults + 1
              /\ pc' = [pc EXCEPT ![c] = "close"]
              /\ \/ UNCHANGED <<committed, offsets>>
                 \/ /\ cur[c] # NoOffset
                    /\ committed' = Committed(o, c, cur[c])
                    /\ offsets' = [offsets EXCEPT ![c] = Append(offsets[c], cur[c])]
      BY <1>15 DEF FinalCommit, Call, limitVars
    <2>2. cur[c] \in Offset
      BY DEF TypeOK
    <2>3. committed' \in Offset /\ faults' \in Nat
      <3>1. committed \in Offset /\ faults \in Nat
        BY DEF TypeOK
      <3>2. QED
        BY <2>1, <2>2, <3>1, GroupType
    <2>4. offsets' \in [Consumer -> Seq(Nat)]
      <3>1. offsets \in [Consumer -> Seq(Nat)]
        BY DEF TypeOK
      <3>2. CASE UNCHANGED offsets
        BY <3>1, <3>2
      <3>3. CASE cur[c] # NoOffset /\ offsets' = [offsets EXCEPT ![c] = Append(offsets[c], cur[c])]
        <4>1. cur[c] \in Nat
          BY <2>2, <3>3 DEF Offset
        <4>2. QED
          BY <3>1, <3>3, <4>1, QueueType
      <3>4. QED
        BY <2>1, <3>2, <3>3
    <2>5. pc' \in [Consumer -> Pc]
      BY <2>1 DEF TypeOK, Pc
    <2>6. UNCHANGED <<log, owner, db, consumed, running, member, next, end, count, cur,
                      sent, acked, marks, work, done, overdue, again, skipped,
                      starts, rebalances, crashes>>
      BY <1>15 DEF FinalCommit, Call, limitVars
    <2>7. QED
      BY <2>3, <2>4, <2>5, <2>6 DEF TypeOK
  <1>16. ASSUME NEW c \in Consumer, Close(c) PROVE TypeOK'
    BY <1>16 DEF TypeOK, Close, Pc
  <1>17. ASSUME NEW c \in Consumer, Commit(c) PROVE TypeOK'
    <2>1. PICK o \in Outcome :
              /\ sent[c] # <<>>
              /\ Call(o)
              /\ sent' = [sent EXCEPT ![c] = Tail(sent[c])]
              /\ committed' = Committed(o, c, Head(sent[c]))
              /\ acked' = acked \/ acked' = [acked EXCEPT ![c] = @ \cup {Head(sent[c])}]
      BY <1>17 DEF Commit
    <2>2. Head(sent[c]) \in Nat /\ sent' \in [Consumer -> Seq(Nat)]
      BY <2>1, QueueType DEF TypeOK
    <2>3. committed' \in Offset
      BY <2>1, <2>2, GroupType DEF Offset
    <2>4. faults' \in Nat /\ UNCHANGED <<starts, rebalances, crashes>>
      BY <2>1, CallType
    <2>5. acked' \in [Consumer -> SUBSET Nat]
      <3>1. acked \in [Consumer -> SUBSET Nat]
        BY DEF TypeOK
      <3>2. QED
        BY <2>1, <2>2, <3>1
    <2>6. UNCHANGED <<log, owner, db, consumed, pc, running, member, next, end, count,
                      cur, offsets, marks, work, done, overdue, again, skipped>>
      BY <1>17 DEF Commit
    <2>7. QED
      BY <2>2, <2>3, <2>4, <2>5, <2>6 DEF TypeOK
  <1>18. ASSUME NEW c \in Consumer, SaveOffset(c) PROVE TypeOK'
    <2>1. PICK o \in Outcome :
              /\ offsets[c] # <<>>
              /\ Call(o)
              /\ offsets' = [offsets EXCEPT ![c] = Tail(offsets[c])]
              /\ db' \in {db, Head(offsets[c])}
      BY <1>18 DEF SaveOffset
    <2>2. Head(offsets[c]) \in Nat /\ offsets' \in [Consumer -> Seq(Nat)]
      BY <2>1, QueueType DEF TypeOK
    <2>3. faults' \in Nat /\ UNCHANGED <<starts, rebalances, crashes>>
      BY <2>1, CallType
    <2>4. db' \in Offset
      BY <2>1, <2>2 DEF TypeOK, Offset
    <2>5. UNCHANGED <<log, owner, committed, consumed, pc, running, member, next, end,
                      count, cur, sent, acked, marks, work, done, overdue, again, skipped>>
      BY <1>18 DEF SaveOffset
    <2>6. QED
      BY <2>2, <2>3, <2>4, <2>5 DEF TypeOK
  <1>19. ASSUME NEW c \in Consumer, SaveConsumed(c) PROVE TypeOK'
    <2>1. PICK m \in marks[c], o \in Outcome :
              /\ Call(o)
              /\ marks' = [marks EXCEPT ![c] = @ \ {m}]
              /\ consumed' \in {consumed, consumed \cup {m}}
      BY <1>19 DEF SaveConsumed
    <2>2. faults' \in Nat /\ UNCHANGED <<starts, rebalances, crashes>>
      BY <2>1, CallType
    <2>3. marks' \in [Consumer -> SUBSET Message] /\ consumed' \subseteq Message
      BY <2>1 DEF TypeOK
    <2>4. UNCHANGED <<log, owner, committed, db, pc, running, member, next, end, count,
                      cur, sent, acked, offsets, work, done, overdue, again, skipped>>
      BY <1>19 DEF SaveConsumed
    <2>5. QED
      BY <2>2, <2>3, <2>4 DEF TypeOK
  <1>20. ASSUME NEW c \in Consumer, Expel(c) PROVE TypeOK'
    BY <1>20 DEF TypeOK, Expel
  <1>21. ASSUME NEW c \in Consumer, Crash(c) PROVE TypeOK'
    <2>1. /\ pc' = [pc EXCEPT ![c] = "off"] /\ running' = [running EXCEPT ![c] = FALSE]
          /\ member' = [member EXCEPT ![c] = FALSE] /\ Left(c)
          /\ cur' = [cur EXCEPT ![c] = NoOffset]
          /\ sent' = [sent EXCEPT ![c] = <<>>] /\ acked' = [acked EXCEPT ![c] = {}]
          /\ offsets' = [offsets EXCEPT ![c] = <<>>] /\ marks' = [marks EXCEPT ![c] = {}]
          /\ work' = [work EXCEPT ![c] = {}] /\ crashes' = crashes + 1
          /\ UNCHANGED <<log, committed, db, consumed, next, end, count, done, overdue,
                         again, skipped, starts, rebalances, faults>>
      BY <1>21 DEF Crash
    <2>2. pc' \in [Consumer -> Pc] /\ owner' \in Consumer \cup {NoOne}
      BY <2>1 DEF TypeOK, Pc, Left
    <2>3. running' \in [Consumer -> BOOLEAN] /\ member' \in [Consumer -> BOOLEAN]
      BY <2>1 DEF TypeOK
    <2>4. cur' \in [Consumer -> Offset]
      BY <2>1 DEF TypeOK, Offset
    <2>5. sent' \in [Consumer -> Seq(Nat)] /\ offsets' \in [Consumer -> Seq(Nat)]
      BY <2>1 DEF TypeOK
    <2>6. /\ acked' \in [Consumer -> SUBSET Nat]
          /\ marks' \in [Consumer -> SUBSET Message] /\ work' \in [Consumer -> SUBSET Message]
      BY <2>1 DEF TypeOK
    <2>7. /\ crashes' \in Nat
          /\ UNCHANGED <<log, committed, db, consumed, next, end, count, done, overdue,
                         again, skipped, starts, rebalances, faults>>
      BY <2>1 DEF TypeOK
    <2>8. QED
      BY <2>2, <2>3, <2>4, <2>5, <2>6, <2>7 DEF TypeOK
  <1>22. CASE UNCHANGED vars
    BY <1>22 DEF TypeOK, vars
  <1>23. QED
    BY <1>1, <1>2, <1>3, <1>4, <1>5, <1>6, <1>7, <1>8, <1>9, <1>10, <1>11, <1>12, <1>13,
       <1>14, <1>15, <1>16, <1>17, <1>18, <1>19, <1>20, <1>21, <1>22 DEF Next, Loop

-------------------------------------------------------------------------------
(* The inductive invariant.                                                *)

(* The offsets no record is lost to. *)
Good == {n \in 0..Len(log) : \A i \in 1..n : Reached(i)}

(* All stored, cached and queued offsets are in H. *)
Offsets(H) ==
    /\ db \in H \cup {NoOffset} /\ committed \in H \cup {NoOffset}
    /\ cur \in [Consumer -> H \cup {NoOffset}]
    /\ offsets \in [Consumer -> Seq(H)] /\ sent \in [Consumer -> Seq(H)]

(* A consumer that takes records starts them at a good offset. *)
Placed == \A c \in Consumer :
              /\ Batch(c) \/ (pc[c] = "poll" /\ member[c]) => next[c] \in Good
              /\ pc[c] = "off" => ~member[c]

(* The record at hand is with the worker or settled; when its offset is    *)
(* put it is settled.                                                      *)
AtHand == \A c \in Consumer :
              /\ pc[c] = "handle" => This(c) \in work[c] \cup Settled
              /\ pc[c] = "put" => This(c) \in Settled

Marks == consumed \subseteq Settled /\ \A c \in Consumer : marks[c] \subseteq Settled

IInv ==
    /\ TypeOK /\ Within /\ skipped <= Len(log)
    /\ Offsets(Good) /\ Placed /\ AtHand /\ Marks

(* What a step does to the log and the histories: all of them only grow,   *)
(* and so do the messages that are settled and the offsets that are good.  *)
LEMMA Grows ==
    ASSUME TypeOK, skipped <= Len(log), [Next]_vars
    PROVE  /\ log' = log \/ \E m \in Message : log' = Append(log, m)
           /\ skipped' \in Nat /\ skipped <= skipped' /\ skipped' <= Len(log)'
           /\ done \subseteq done' /\ overdue \subseteq overdue'
  <1> DEFINE Goal == /\ log' = log \/ \E m \in Message : log' = Append(log, m)
                     /\ skipped' \in {skipped, Len(log)}
                     /\ done \subseteq done' /\ overdue \subseteq overdue'
  <1> USE DEF groupVars, storeVars, loopVars, batchVars, commitVars, execVars, workVars,
              resetVars, limitVars
  <1>1. ASSUME NEW m \in Message, Produce(m) PROVE Goal
    BY <1>1 DEF Produce
  <1>2. ASSUME NEW c \in Consumer, Assign(c) PROVE Goal
    BY <1>2 DEF Assign
  <1>3. ASSUME NEW c \in Consumer, OnWork(c) PROVE Goal
    BY <1>3 DEF OnWork
  <1>4. ASSUME NEW c \in Consumer, Handled(c) PROVE Goal
    BY <1>4 DEF Handled
  <1>5. ASSUME NEW c \in Consumer, Start(c) \/ Stop(c) \/ PollFails(c) \/ CommitCallback(c)
        PROVE  Goal
    BY <1>5 DEF Start, Stop, PollFails, CommitCallback
  <1>6. ASSUME NEW c \in Consumer, Revoke(c) \/ SaveRevoked(c) \/ Poll(c) \/ Leave(c)
        PROVE  Goal
    BY <1>6 DEF Revoke, SaveRevoked, Poll, Leave
  <1>7. ASSUME NEW c \in Consumer, Take(c) \/ Put(c) \/ FinalCommit(c) \/ Close(c)
        PROVE  Goal
    BY <1>7 DEF Take, Put, FinalCommit, Close
  <1>8. ASSUME NEW c \in Consumer,
               Commit(c) \/ SaveOffset(c) \/ SaveConsumed(c) \/ Expel(c) \/ Crash(c)
        PROVE  Goal
    BY <1>8 DEF Commit, SaveOffset, SaveConsumed, Expel, Crash
  <1>9. ASSUME UNCHANGED vars PROVE Goal
    BY <1>9 DEF vars
  <1> HIDE DEF Goal
  <1>10. Goal
    BY <1>1, <1>2, <1>3, <1>4, <1>5, <1>6, <1>7, <1>8, <1>9 DEF Next, Loop
  <1>11. Len(log) \in Nat /\ skipped \in Nat
    BY DEF TypeOK
  <1>12. log \in Seq(Message)
    BY DEF TypeOK
  <1>13. Len(log) <= Len(log)'
    BY <1>10, <1>11, <1>12 DEF Goal
  <1>14. QED
    BY <1>10, <1>11, <1>13 DEF Goal

LEMMA Monotone ==
    ASSUME TypeOK, skipped <= Len(log), [Next]_vars
    PROVE  /\ Settled \subseteq Settled' /\ Good \subseteq Good'
           /\ \A i \in 1..Len(log) : Reached(i) => Reached(i)'
  <1>1. Settled \subseteq Settled'
    BY Grows DEF Settled
  <1>2. log \in Seq(Message) /\ Len(log) \in Nat /\ skipped \in Nat
    BY DEF TypeOK
  <1>3. /\ Len(log)' \in Nat /\ Len(log) <= Len(log)'
        /\ \A i \in 1..Len(log) : log'[i] = log[i]
    BY <1>2, Grows
  <1>4. \A i \in 1..Len(log) : Reached(i) => Reached(i)'
    BY <1>1, <1>2, <1>3, Grows DEF Reached
  <1>5. ASSUME NEW n \in Good PROVE n \in Good'
    <2>1. n \in 0..Len(log)' /\ \A i \in 1..n : i \in 1..Len(log)
      BY <1>2, <1>3 DEF Good
    <2>2. \A i \in 1..n : Reached(i)'
      BY <1>4, <2>1 DEF Good
    <2>3. QED
      BY <2>1, <2>2 DEF Good
  <1>6. QED
    BY <1>1, <1>4, <1>5

-------------------------------------------------------------------------------
(* One lemma per part of the invariant.                                    *)

(* A step stores only an offset some consumer has cached or queued, or the *)
(* one it puts.                                                            *)
LEMMA OffsetsStep ==
    ASSUME NEW H, Offsets(H), [Next]_vars,
           \A c \in Consumer : pc[c] = "put" => Upto(c) \in H
    PROVE  Offsets(H)'
  <1> USE DEF groupVars, storeVars, loopVars, batchVars, commitVars, execVars, workVars,
              resetVars, limitVars
  <1> DEFINE Same == UNCHANGED <<db, committed, cur, offsets, sent>>
  <1>1. ASSUME Same PROVE Offsets(H)'
    BY <1>1 DEF Offsets
  <1>2. ASSUME NEW c \in Consumer, Start(c) PROVE Offsets(H)'
    BY <1>2 DEF Offsets, Start
  <1>3. ASSUME NEW c \in Consumer, CommitCallback(c) PROVE Offsets(H)'
    BY <1>3 DEF Offsets, CommitCallback
  <1>4. ASSUME NEW c \in Consumer, Revoke(c) PROVE Offsets(H)'
    <2>1. committed' = committed \/ (cur[c] # NoOffset /\ committed' = cur[c])
      BY <1>4 DEF Revoke, Committed
    <2>2. UNCHANGED <<db, cur, offsets, sent>>
      BY <1>4 DEF Revoke
    <2>3. QED
      BY <2>1, <2>2 DEF Offsets
  <1>5. ASSUME NEW c \in Consumer, SaveRevoked(c) PROVE Offsets(H)'
    <2>1. /\ db' = db \/ db' = cur[c]
          /\ cur' = [cur EXCEPT ![c] = NoOffset]
          /\ UNCHANGED <<committed, offsets, sent>>
      BY <1>5 DEF SaveRevoked
    <2>2. QED
      BY <2>1 DEF Offsets
  <1>6. ASSUME NEW c \in Consumer, Poll(c) PROVE Offsets(H)'
    BY <1>6 DEF Offsets, Poll
  <1>7. ASSUME NEW c \in Consumer, Put(c) PROVE Offsets(H)'
    <2>1. Upto(c) \in H
      BY <1>7 DEF Put
    <2>2. /\ cur' = [cur EXCEPT ![c] = Upto(c)]
          /\ \/ offsets' = offsets
             \/ offsets' = [offsets EXCEPT ![c] = Append(offsets[c], Upto(c))]
          /\ sent' = sent \/ sent' = [sent EXCEPT ![c] = Append(sent[c], Upto(c))]
          /\ UNCHANGED <<db, committed>>
      BY <1>7 DEF Put
    <2>3. \A q \in Seq(H) : Append(q, Upto(c)) \in Seq(H)
      BY <2>1
    <2>4. offsets[c] \in Seq(H) /\ sent[c] \in Seq(H)
      BY DEF Offsets
    <2>5. offsets' \in [Consumer -> Seq(H)]
      BY <2>2, <2>3, <2>4 DEF Offsets
    <2>6. sent' \in [Consumer -> Seq(H)]
      BY <2>2, <2>3, <2>4 DEF Offsets
    <2>7. QED
      BY <2>1, <2>2, <2>5, <2>6 DEF Offsets
  <1>8. ASSUME NEW c \in Consumer, FinalCommit(c) PROVE Offsets(H)'
    <2>1. /\ \/ UNCHANGED <<committed, offsets>>
             \/ /\ cur[c] # NoOffset
                /\ committed' = committed \/ committed' = cur[c]
                /\ offsets' = [offsets EXCEPT ![c] = Append(offsets[c], cur[c])]
          /\ UNCHANGED <<db, cur, sent>>
      BY <1>8 DEF FinalCommit, Committed
    <2>2. CASE UNCHANGED <<committed, offsets>>
      BY <2>1, <2>2 DEF Offsets
    <2>3. CASE /\ cur[c] # NoOffset
               /\ committed' = committed \/ committed' = cur[c]
               /\ offsets' = [offsets EXCEPT ![c] = Append(offsets[c], cur[c])]
      <3>1. cur[c] \in H /\ offsets[c] \in Seq(H)
        BY <2>3 DEF Offsets
      <3>2. Append(offsets[c], cur[c]) \in Seq(H)
        BY <3>1
      <3>3. QED
        BY <2>1, <2>3, <3>1, <3>2 DEF Offsets
    <2>4. QED
      BY <2>1, <2>2, <2>3
  <1>9. ASSUME NEW c \in Consumer, Commit(c) PROVE Offsets(H)'
    <2>1. /\ sent[c] # <<>>
          /\ committed' = committed \/ committed' = Head(sent[c])
          /\ sent' = [sent EXCEPT ![c] = Tail(sent[c])]
          /\ UNCHANGED <<db, cur, offsets>>
      BY <1>9 DEF Commit, Committed
    <2>2. Head(sent[c]) \in H /\ Tail(sent[c]) \in Seq(H)
      <3>1. sent[c] \in Seq(H)
        BY DEF Offsets
      <3>2. QED
        BY <2>1, <3>1
    <2>3. QED
      BY <2>1, <2>2 DEF Offsets
  <1>10. ASSUME NEW c \in Consumer, SaveOffset(c) PROVE Offsets(H)'
    <2>1. /\ offsets[c] # <<>>
          /\ db' = db \/ db' = Head(offsets[c])
          /\ offsets' = [offsets EXCEPT ![c] = Tail(offsets[c])]
          /\ UNCHANGED <<committed, cur, sent>>
      BY <1>10 DEF SaveOffset
    <2>2. Head(offsets[c]) \in H /\ Tail(offsets[c]) \in Seq(H)
      <3>1. offsets[c] \in Seq(H)
        BY DEF Offsets
      <3>2. QED
        BY <2>1, <3>1
    <2>3. QED
      BY <2>1, <2>2 DEF Offsets
  <1>11. ASSUME NEW c \in Consumer, Crash(c) PROVE Offsets(H)'
    BY <1>11 DEF Offsets, Crash
  <1>12. ASSUME NEW m \in Message, Produce(m) PROVE Same
    BY <1>12 DEF Produce
  <1>13. ASSUME NEW c \in Consumer, Stop(c) \/ Assign(c) \/ PollFails(c) \/ Leave(c) PROVE Same
    BY <1>13 DEF Stop, Assign, PollFails, Leave
  <1>14. ASSUME NEW c \in Consumer, Take(c) \/ OnWork(c) \/ Handled(c) \/ Close(c) PROVE Same
    BY <1>14 DEF Take, OnWork, Handled, Close
  <1>15. ASSUME NEW c \in Consumer, SaveConsumed(c) \/ Expel(c) PROVE Same
    BY <1>15 DEF SaveConsumed, Expel
  <1>16. ASSUME UNCHANGED vars PROVE Same
    BY <1>16 DEF vars
  <1> HIDE DEF Same
  <1>17. QED
    BY <1>1, <1>2, <1>3, <1>4, <1>5, <1>6, <1>7, <1>8, <1>9, <1>10, <1>11, <1>12, <1>13,
       <1>14, <1>15, <1>16 DEF Next, Loop

LEMMA WithinStep ==
    ASSUME TypeOK, Within, skipped <= Len(log), [Next]_vars
    PROVE  Within'
  <1> USE DEF groupVars, storeVars, loopVars, batchVars, commitVars, execVars, workVars,
              resetVars, limitVars
  <1> DEFINE Still == UNCHANGED <<pc, next, end>>
             Out(c) == /\ \E p \in Pc \ {"record", "handle", "put"} :
                              pc' = [pc EXCEPT ![c] = p]
                       /\ UNCHANGED <<next, end>>
  <1>1. /\ pc \in [Consumer -> Pc] /\ next \in [Consumer -> Nat] /\ end \in [Consumer -> Nat]
        /\ Len(log) \in Nat /\ log \in Seq(Message)
    BY DEF TypeOK
  <1>2. Len(log)' \in Nat /\ Len(log) <= Len(log)'
    BY <1>1, Grows
  <1>3. ASSUME Still PROVE Within'
    BY <1>1, <1>2, <1>3 DEF Within, Batch
  <1>4. ASSUME NEW c \in Consumer, Out(c) PROVE Within'
    BY <1>1, <1>2, <1>4 DEF Within, Batch
  <1>5. ASSUME NEW c \in Consumer, Assign(c) PROVE Within'
    <2>1. pc[c] = "poll" /\ UNCHANGED <<pc, end>>
      BY <1>5 DEF Assign
    <2>2. \A d \in Consumer : d # c => next'[d] = next[d]
      BY <1>1, <1>5 DEF Assign
    <2>3. ASSUME NEW d \in Consumer, Batch(d)'
          PROVE  d # c /\ Batch(d) /\ next'[d] = next[d] /\ end'[d] = end[d]
      BY <2>1, <2>2, <2>3 DEF Batch
    <2>4. ASSUME NEW d \in Consumer, Batch(d)'
          PROVE  next'[d] < end'[d] /\ end'[d] <= Len(log)'
      BY <1>1, <1>2, <2>3, <2>4 DEF Within
    <2>5. QED
      BY <2>4 DEF Within
  <1>6. ASSUME NEW c \in Consumer, Poll(c) PROVE Within'
    <2>1. PICK e \in 1..MaxPoll :
              /\ next[c] + e <= Len(log)
              /\ end' = [end EXCEPT ![c] = next[c] + e]
              /\ pc' = [pc EXCEPT ![c] = "record"]
              /\ UNCHANGED next
      BY <1>6 DEF Poll
    <2>2. e \in Nat /\ e >= 1
      BY ConsumerConstantsOK
    <2>3. QED
      BY <1>1, <1>2, <2>1, <2>2 DEF Within, Batch
  <1>7. ASSUME NEW c \in Consumer, Take(c) \/ Handled(c) PROVE Within'
    <2>1. /\ Batch(c)
          /\ \E p \in Pc : pc' = [pc EXCEPT ![c] = p]
          /\ UNCHANGED <<next, end>>
      BY <1>7 DEF Take, Handled, Batch, Pc
    <2>2. QED
      BY <1>1, <1>2, <2>1 DEF Within, Batch
  <1>8. ASSUME NEW c \in Consumer, Put(c) PROVE Within'
    <2>1. /\ Batch(c)
          /\ next' = [next EXCEPT ![c] = next[c] + 1]
          /\ pc' = [pc EXCEPT ![c] = IF next[c] + 1 = end[c] THEN "poll" ELSE "record"]
          /\ UNCHANGED end
      BY <1>8 DEF Put, Batch
    <2>2. QED
      BY <1>1, <1>2, <2>1 DEF Within, Batch
  <1>9. ASSUME NEW m \in Message, Produce(m) PROVE Still
    BY <1>9 DEF Produce
  <1>10. ASSUME NEW c \in Consumer, Stop(c) \/ CommitCallback(c) \/ OnWork(c) PROVE Still
    BY <1>10 DEF Stop, CommitCallback, OnWork
  <1>11. ASSUME NEW c \in Consumer, Commit(c) \/ SaveOffset(c) \/ SaveConsumed(c) \/ Expel(c)
         PROVE  Still
    BY <1>11 DEF Commit, SaveOffset, SaveConsumed, Expel
  <1>12. ASSUME UNCHANGED vars PROVE Still
    BY <1>12 DEF vars
  <1>13. ASSUME NEW c \in Consumer, Start(c) \/ PollFails(c) \/ Leave(c) PROVE Out(c)
    BY <1>13 DEF Start, PollFails, Leave, Pc
  <1>14. ASSUME NEW c \in Consumer, FinalCommit(c) \/ Close(c) \/ Crash(c) PROVE Out(c)
    BY <1>14 DEF FinalCommit, Close, Crash, Pc
  <1>15. ASSUME NEW c \in Consumer, Revoke(c) PROVE Out(c)
    BY <1>15 DEF Revoke, GoneTo, Pc
  <1>16. ASSUME NEW c \in Consumer, SaveRevoked(c) PROVE Out(c)
    BY <1>16 DEF SaveRevoked, GoneTo, Pc
  <1> HIDE DEF Still, Out
  <1>17. QED
    BY <1>3, <1>4, <1>5, <1>6, <1>7, <1>8, <1>9, <1>10, <1>11, <1>12, <1>13, <1>14, <1>15,
       <1>16 DEF Next, Loop

(* The offset that Put stores has the records below it reached: those      *)
(* before the position already were, and the one at hand is settled.       *)
LEMMA UptoGood ==
    ASSUME IInv, NEW c \in Consumer, pc[c] = "put"
    PROVE  Upto(c) \in Good /\ This(c) \in Settled
  <1>1. This(c) \in Settled /\ next[c] \in Good
    BY DEF IInv, AtHand, Placed, Batch
  <1>2. /\ next[c] < end[c] /\ end[c] <= Len(log)
        /\ next[c] \in Nat /\ end[c] \in Nat /\ Len(log) \in Nat
    BY DEF IInv, Within, Batch, TypeOK
  <1>3. Upto(c) \in 0..Len(log)
    BY <1>2 DEF Upto
  <1>4. \A i \in 1..Upto(c) : i \in 1..next[c] \/ i = next[c] + 1
    BY <1>2 DEF Upto
  <1>5. \A i \in 1..Upto(c) : Reached(i)
    BY <1>1, <1>4 DEF Good, Reached, This
  <1>6. QED
    BY <1>1, <1>3, <1>5 DEF Good

LEMMA PlacedStep ==
    ASSUME IInv, [Next]_vars
    PROVE  Placed'
  <1> USE DEF groupVars, storeVars, loopVars, batchVars, commitVars, execVars, workVars,
              resetVars, limitVars
  <1> DEFINE Active(c) == Batch(c) \/ (pc[c] = "poll" /\ member[c])
             Still == UNCHANGED <<pc, next, member>>
             Idle(c) == /\ pc'[c] \notin {"off", "record", "handle", "put"}
                        /\ pc'[c] = "poll" => ~member'[c]
                        /\ \A d \in Consumer : d # c => /\ pc'[d] = pc[d]
                                                       /\ member'[d] = member[d]
                        /\ UNCHANGED next
             Off(c) == /\ pc' = [pc EXCEPT ![c] = "off"]
                       /\ \/ member' = [member EXCEPT ![c] = FALSE]
                          \/ ~member[c] /\ UNCHANGED member
                       /\ UNCHANGED next
             Loops(c) == /\ Active(c)
                         /\ \E p \in Pc \ {"off"} : pc' = [pc EXCEPT ![c] = p]
                         /\ UNCHANGED <<next, member>>
  <1>1. /\ TypeOK /\ Placed /\ Offsets(Good) /\ skipped <= Len(log)
        /\ pc \in [Consumer -> Pc] /\ next \in [Consumer -> Nat]
        /\ member \in [Consumer -> BOOLEAN] /\ Len(log) \in Nat
    <2>1. TypeOK /\ Placed /\ Offsets(Good) /\ skipped <= Len(log)
      BY DEF IInv
    <2>2. QED
      BY <2>1 DEF TypeOK
  <1>2. Good \subseteq Good'
    BY <1>1, Monotone
  <1>3. ASSUME Still PROVE Placed'
    BY <1>1, <1>2, <1>3 DEF Placed, Batch
  <1>4. ASSUME NEW c \in Consumer, Idle(c) PROVE Placed'
    BY <1>1, <1>2, <1>4 DEF Placed, Batch
  <1>5. ASSUME NEW c \in Consumer, Off(c) PROVE Placed'
    BY <1>1, <1>2, <1>5 DEF Placed, Batch
  <1>6. ASSUME NEW c \in Consumer, Loops(c) PROVE Placed'
    BY <1>1, <1>2, <1>6 DEF Placed, Batch
  <1>7. ASSUME NEW c \in Consumer, Assign(c) PROVE Placed'
    <2>1. PICK found \in {db, NoOffset} :
              /\ pc[c] = "poll" /\ UNCHANGED <<log, pc>>
              /\ member' = [member EXCEPT ![c] = TRUE]
              /\ next' = [next EXCEPT ![c] = Position(found, committed)]
              /\ found = NoOffset /\ committed = NoOffset => skipped' = Len(log)
      BY <1>7 DEF Assign
    <2>2. CASE found # NoOffset \/ committed # NoOffset
      <3>1. Position(found, committed) \in Good
        BY <1>1, <2>1, <2>2 DEF Offsets, Position
      <3>2. QED
        BY <1>1, <1>2, <2>1, <3>1 DEF Placed, Batch
    <2>3. CASE found = NoOffset /\ committed = NoOffset
      <3>1. Position(found, committed) = Len(log) /\ skipped' = Len(log) /\ log' = log
        BY <2>1, <2>3 DEF Position
      <3>2. Position(found, committed) \in Good'
        BY <1>1, <3>1 DEF Good, Reached
      <3>3. QED
        BY <1>1, <1>2, <2>1, <3>2 DEF Placed, Batch
    <2>4. QED
      BY <2>2, <2>3
  <1>8. ASSUME NEW c \in Consumer, Put(c) PROVE Placed'
    <2>1. /\ pc[c] = "put" /\ UNCHANGED member
          /\ next' = [next EXCEPT ![c] = Upto(c)]
          /\ \E p \in {"poll", "record"} : pc' = [pc EXCEPT ![c] = p]
      BY <1>8 DEF Put, Upto
    <2>2. Upto(c) \in Good
      BY <2>1, UptoGood
    <2>3. QED
      BY <1>1, <1>2, <2>1, <2>2 DEF Placed, Batch
  <1>9. ASSUME NEW m \in Message, Produce(m) PROVE Still
    BY <1>9 DEF Produce
  <1>10. ASSUME NEW c \in Consumer, Stop(c) \/ CommitCallback(c) \/ OnWork(c) PROVE Still
    BY <1>10 DEF Stop, CommitCallback, OnWork
  <1>11. ASSUME NEW c \in Consumer, Commit(c) \/ SaveOffset(c) \/ SaveConsumed(c) \/ Expel(c)
         PROVE  Still
    BY <1>11 DEF Commit, SaveOffset, SaveConsumed, Expel
  <1>12. ASSUME UNCHANGED vars PROVE Still
    BY <1>12 DEF vars
  <1>13. ASSUME NEW c \in Consumer, Start(c) PROVE Idle(c)
    BY <1>1, <1>13 DEF Start, Placed, Pc
  <1>14. ASSUME NEW c \in Consumer, Leave(c) \/ FinalCommit(c) PROVE Idle(c)
    BY <1>1, <1>14 DEF Leave, FinalCommit, Pc
  <1>15. ASSUME NEW c \in Consumer, PollFails(c) PROVE Idle(c)
    BY <1>1, <1>15 DEF PollFails, Pc
  <1>16. ASSUME NEW c \in Consumer, Revoke(c) PROVE Idle(c) \/ Off(c)
    <2>1. pc[c] \in {"poll", "close"} /\ UNCHANGED next
      BY <1>16 DEF Revoke
    <2>2. \/ /\ pc' = [pc EXCEPT ![c] = IF pc[c] = "poll" THEN "revoke" ELSE "leave"]
             /\ UNCHANGED member
          \/ /\ pc' = [pc EXCEPT ![c] = GoneTo(c)]
             /\ member' = [member EXCEPT ![c] = FALSE]
      BY <1>16 DEF Revoke
    <2>3. CASE UNCHANGED member
      BY <1>1, <2>1, <2>2, <2>3 DEF GoneTo, Pc
    <2>4. CASE /\ pc' = [pc EXCEPT ![c] = GoneTo(c)]
               /\ member' = [member EXCEPT ![c] = FALSE]
      BY <1>1, <2>1, <2>4 DEF GoneTo, Pc
    <2>5. QED
      BY <2>2, <2>3, <2>4
  <1>17. ASSUME NEW c \in Consumer, SaveRevoked(c) PROVE Idle(c) \/ Off(c)
    BY <1>1, <1>17 DEF SaveRevoked, GoneTo, Pc
  <1>18. ASSUME NEW c \in Consumer, Close(c) \/ Crash(c) PROVE Off(c)
    BY <1>18 DEF Close, Crash
  <1>19. ASSUME NEW c \in Consumer, Poll(c) \/ Take(c) \/ Handled(c) PROVE Loops(c)
    BY <1>19 DEF Poll, Take, Handled, Batch, Pc
  <1> HIDE DEF Still, Idle, Off, Loops
  <1>20. QED
    BY <1>3, <1>4, <1>5, <1>6, <1>7, <1>8, <1>9, <1>10, <1>11, <1>12, <1>13, <1>14, <1>15,
       <1>16, <1>17, <1>18, <1>19 DEF Next, Loop

LEMMA AtHandStep ==
    ASSUME IInv, [Next]_vars
    PROVE  AtHand'
  <1> USE DEF groupVars, storeVars, loopVars, batchVars, commitVars, execVars, workVars,
              resetVars, limitVars
  <1> DEFINE At(c) == /\ pc[c] = "handle" => This(c) \in work[c] \cup Settled
                      /\ pc[c] = "put" => This(c) \in Settled
             Same(c) == next'[c] = next[c] /\ pc'[c] = pc[c] /\ work[c] \subseteq work'[c]
             Away(c) == pc'[c] \notin {"handle", "put"}
  <1>1. /\ TypeOK /\ AtHand /\ Within /\ skipped <= Len(log)
        /\ pc \in [Consumer -> Pc] /\ next \in [Consumer -> Nat] /\ end \in [Consumer -> Nat]
        /\ work \in [Consumer -> SUBSET Message] /\ Len(log) \in Nat /\ log \in Seq(Message)
    <2>1. TypeOK /\ AtHand /\ Within /\ skipped <= Len(log)
      BY DEF IInv
    <2>2. /\ pc \in [Consumer -> Pc] /\ next \in [Consumer -> Nat] /\ end \in [Consumer -> Nat]
          /\ work \in [Consumer -> SUBSET Message] /\ log \in Seq(Message)
      BY <2>1, Zenon DEF TypeOK
    <2>3. Len(log) \in Nat
      BY <2>2
    <2>4. QED
      BY <2>1, <2>2, <2>3, Zenon
  <1>2. Settled \subseteq Settled'
    BY <1>1, Monotone
  <1>3. ASSUME NEW c \in Consumer, Batch(c), next'[c] = next[c] PROVE This(c)' = This(c)
    <2>1. next[c] + 1 \in 1..Len(log)
      BY <1>1, <1>3 DEF Within
    <2>2. log'[next[c] + 1] = log[next[c] + 1]
      BY <1>1, <2>1, Grows
    <2>3. QED
      BY <1>3, <2>2 DEF This
  <1>4. ASSUME NEW c \in Consumer, Same(c) PROVE At(c)'
    <2>1. At(c)
      BY <1>1 DEF AtHand
    <2>2. CASE pc[c] \in {"handle", "put"}
      <3>1. This(c)' = This(c)
        BY <1>3, <1>4, <2>2 DEF Batch
      <3>2. QED
        BY <1>2, <1>4, <2>1, <3>1
    <2>3. CASE pc[c] \notin {"handle", "put"}
      BY <1>4, <2>3
    <2>4. QED
      BY <2>2, <2>3
  <1>5. ASSUME NEW c \in Consumer, Away(c) PROVE At(c)'
    BY <1>5
  <1>6. ASSUME NEW c \in Consumer, Take(c), NEW d \in Consumer PROVE At(d)'
    <2>1. CASE d # c
      <3>1. Same(d)
        BY <1>1, <1>6, <2>1 DEF Take
      <3>2. QED
        BY <1>4, <3>1
    <2>2. CASE d = c
      <3>1. PICK o \in {"ok", "lost"} :
                LET give == This(c) \notin Broken /\ ~Known(o, This(c)) IN
                /\ pc[c] = "record" /\ UNCHANGED next
                /\ pc' = [pc EXCEPT ![c] = IF give THEN "handle" ELSE "put"]
                /\ work' = IF give THEN [work EXCEPT ![c] = @ \cup {This(c)}] ELSE work
        BY <1>6 DEF Take
      <3>2. This(c)' = This(c)
        BY <1>3, <3>1 DEF Batch
      <3>3. CASE This(c) \notin Broken /\ ~Known(o, This(c))
        BY <1>1, <2>2, <3>1, <3>2, <3>3
      <3>4. CASE ~(This(c) \notin Broken /\ ~Known(o, This(c)))
        <4>1. This(c) \in Settled
          BY <3>4 DEF Known, Settled, IInv, Marks
        <4>2. QED
          BY <1>1, <1>2, <2>2, <3>1, <3>2, <3>4, <4>1
      <3>5. QED
        BY <3>3, <3>4
    <2>3. QED
      BY <2>1, <2>2
  <1>7. ASSUME NEW c \in Consumer, OnWork(c), NEW d \in Consumer PROVE At(d)'
    <2>1. PICK m \in work[c] :
              /\ work' = [work EXCEPT ![c] = @ \ {m}]
              /\ done' = done \cup {m}
              /\ UNCHANGED <<pc, next>>
      BY <1>7 DEF OnWork
    <2>2. \A e \in work[d] : e \in work'[d] \cup Settled'
      BY <1>1, <2>1 DEF Settled
    <2>3. QED
      BY <1>1, <1>2, <1>3, <2>1, <2>2 DEF AtHand, Batch
  <1>8. ASSUME NEW c \in Consumer, Handled(c), NEW d \in Consumer PROVE At(d)'
    <2>1. CASE d # c
      <3>1. Same(d)
        BY <1>1, <1>8, <2>1 DEF Handled
      <3>2. QED
        BY <1>4, <3>1
    <2>2. CASE d = c
      <3>1. /\ pc[c] = "handle" /\ UNCHANGED next
            /\ pc' = [pc EXCEPT ![c] = "put"]
            /\ This(c) \notin work[c] \/ overdue' = overdue \cup {This(c)}
        BY <1>8 DEF Handled
      <3>2. This(c)' = This(c)
        BY <1>3, <3>1 DEF Batch
      <3>3. This(c) \in Settled'
        BY <1>1, <1>2, <3>1 DEF AtHand, Settled
      <3>4. QED
        BY <1>1, <2>2, <3>1, <3>2, <3>3
    <2>3. QED
      BY <2>1, <2>2
  <1>9. ASSUME NEW m \in Message, Produce(m), NEW d \in Consumer PROVE Same(d)
    BY <1>9 DEF Produce
  <1>10. ASSUME NEW c \in Consumer, NEW d \in Consumer,
                Stop(c) \/ CommitCallback(c) \/ Commit(c) \/ SaveOffset(c) \/ SaveConsumed(c)
         PROVE  Same(d)
    BY <1>10 DEF Stop, CommitCallback, Commit, SaveOffset, SaveConsumed
  <1>11. ASSUME NEW c \in Consumer, NEW d \in Consumer, Expel(c) \/ UNCHANGED vars PROVE Same(d)
    BY <1>11 DEF Expel, vars
  <1>12. ASSUME NEW c \in Consumer, NEW d \in Consumer,
                Start(c) \/ PollFails(c) \/ Leave(c) \/ FinalCommit(c) \/ Close(c)
         PROVE  Same(d) \/ Away(d)
    BY <1>1, <1>12 DEF Start, PollFails, Leave, FinalCommit, Close
  <1>13. ASSUME NEW c \in Consumer, NEW d \in Consumer, Assign(c) \/ Poll(c) \/ Put(c)
         PROVE  Same(d) \/ Away(d)
    BY <1>1, <1>13 DEF Assign, Poll, Put
  <1>14. ASSUME NEW c \in Consumer, NEW d \in Consumer, Crash(c)
         PROVE  Same(d) \/ Away(d)
    BY <1>1, <1>14 DEF Crash
  <1>15. ASSUME NEW c \in Consumer, NEW d \in Consumer, Revoke(c)
         PROVE  Same(d) \/ Away(d)
    BY <1>1, <1>15 DEF Revoke, GoneTo
  <1>16. ASSUME NEW c \in Consumer, NEW d \in Consumer, SaveRevoked(c)
         PROVE  Same(d) \/ Away(d)
    BY <1>1, <1>16 DEF SaveRevoked, GoneTo
  <1>17. \A d \in Consumer : At(d)' \/ Same(d) \/ Away(d)
    <2> HIDE DEF At, Same, Away
    <2>1. QED
      BY <1>6, <1>7, <1>8, <1>9, <1>10, <1>11, <1>12, <1>13, <1>14, <1>15, <1>16
         DEF Next, Loop
  <1>18. QED
    BY <1>4, <1>5, <1>17 DEF AtHand

LEMMA MarksStep ==
    ASSUME IInv, [Next]_vars
    PROVE  Marks'
  <1> USE DEF groupVars, storeVars, loopVars, batchVars, commitVars, execVars, workVars,
              resetVars, limitVars
  <1> DEFINE Same == UNCHANGED <<consumed, marks>>
  <1>1. Marks /\ TypeOK /\ skipped <= Len(log)
    BY DEF IInv
  <1>2. marks \in [Consumer -> SUBSET Message]
    BY <1>1 DEF TypeOK
  <1>3. Settled \subseteq Settled'
    BY <1>1, Monotone
  <1>4. ASSUME Same PROVE Marks'
    BY <1>1, <1>3, <1>4 DEF Marks
  <1>5. ASSUME NEW c \in Consumer, Put(c) PROVE Marks'
    <2>1. This(c) \in Settled
      BY <1>5, UptoGood DEF Put
    <2>2. marks' = [marks EXCEPT ![c] = @ \cup ({This(c)} \ Broken)] /\ UNCHANGED consumed
      BY <1>5 DEF Put
    <2>3. QED
      BY <1>1, <1>2, <1>3, <2>1, <2>2 DEF Marks
  <1>6. ASSUME NEW c \in Consumer, SaveConsumed(c) PROVE Marks'
    <2>1. PICK m \in marks[c] :
              /\ marks' = [marks EXCEPT ![c] = @ \ {m}]
              /\ consumed' = consumed \/ consumed' = consumed \cup {m}
      BY <1>6 DEF SaveConsumed
    <2>2. QED
      BY <1>1, <1>2, <1>3, <2>1 DEF Marks
  <1>7. ASSUME NEW c \in Consumer, Crash(c) PROVE Marks'
    BY <1>1, <1>2, <1>3, <1>7 DEF Marks, Crash
  <1>8. ASSUME NEW m \in Message, Produce(m) PROVE Same
    BY <1>8 DEF Produce
  <1>9. ASSUME NEW c \in Consumer, Start(c) \/ Stop(c) \/ Assign(c) \/ PollFails(c) PROVE Same
    BY <1>9 DEF Start, Stop, Assign, PollFails
  <1>10. ASSUME NEW c \in Consumer, CommitCallback(c) \/ Revoke(c) \/ SaveRevoked(c) PROVE Same
    BY <1>10 DEF CommitCallback, Revoke, SaveRevoked
  <1>11. ASSUME NEW c \in Consumer, Poll(c) \/ Leave(c) \/ Take(c) \/ Handled(c) PROVE Same
    BY <1>11 DEF Poll, Leave, Take, Handled
  <1>12. ASSUME NEW c \in Consumer, FinalCommit(c) \/ Close(c) \/ OnWork(c) PROVE Same
    BY <1>12 DEF FinalCommit, Close, OnWork
  <1>13. ASSUME NEW c \in Consumer, Commit(c) \/ SaveOffset(c) \/ Expel(c) PROVE Same
    BY <1>13 DEF Commit, SaveOffset, Expel
  <1>14. ASSUME UNCHANGED vars PROVE Same
    BY <1>14 DEF vars
  <1> HIDE DEF Same
  <1>15. QED
    BY <1>4, <1>5, <1>6, <1>7, <1>8, <1>9, <1>10, <1>11, <1>12, <1>13, <1>14 DEF Next, Loop

-------------------------------------------------------------------------------
(* Theorems.                                                               *)

LEMMA InitInv == Init => IInv
  <1> SUFFICES ASSUME Init PROVE IInv
    OBVIOUS
  <1>1. log = <<>> /\ Len(log) = 0
    BY DEF Init
  <1>2. TypeOK
    <2>1. /\ sent \in [Consumer -> Seq(Nat)] /\ offsets \in [Consumer -> Seq(Nat)]
          /\ log \in Seq(Message)
      BY DEF Init
    <2>2. pc \in [Consumer -> Pc] /\ running \in [Consumer -> BOOLEAN]
          /\ member \in [Consumer -> BOOLEAN]
      BY DEF Init, Pc
    <2>3. QED
      BY <2>1, <2>2 DEF Init, TypeOK, Offset
  <1>3. Within /\ Placed /\ AtHand /\ Marks
    BY DEF Init, Within, Placed, AtHand, Marks, Batch
  <1>4. Offsets(Good)
    BY DEF Init, Offsets
  <1>5. QED
    BY <1>1, <1>2, <1>3, <1>4 DEF Init, IInv

LEMMA NextInv == IInv /\ [Next]_vars => IInv'
  <1> SUFFICES ASSUME IInv, [Next]_vars PROVE IInv'
    OBVIOUS
  <1>1. TypeOK /\ Within /\ skipped <= Len(log) /\ Offsets(Good)
    BY DEF IInv
  <1>2. TypeOK' /\ Within'
    BY <1>1, StepType, WithinStep
  <1>3. skipped' <= Len(log)'
    BY <1>1, Grows
  <1>4. \A c \in Consumer : pc[c] = "put" => Upto(c) \in Good
    BY UptoGood
  <1>5. Good \subseteq Good'
    BY <1>1, Monotone
  <1>6. PICK H : H = Good'
    OBVIOUS
  <1>7. Offsets(Good)'
    <2>1. Offsets(H)
      <3>1. \A q \in Seq(Good) : q \in Seq(H)
        BY <1>5, <1>6
      <3>2. QED
        BY <1>1, <1>5, <1>6, <3>1 DEF Offsets
    <2>2. Offsets(H)'
      BY <1>4, <1>5, <1>6, <2>1, OffsetsStep
    <2>3. QED
      BY <1>6, <2>2 DEF Offsets
  <1>8. Placed' /\ AtHand' /\ Marks'
    BY PlacedStep, AtHandStep, MarksStep
  <1>9. QED
    BY <1>2, <1>3, <1>7, <1>8 DEF IInv

LEMMA Invariance == Spec => []IInv
  BY InitInv, NextInv, PTL DEF Spec

(* Every variable keeps its type, whatever fails or crashes. *)
THEOREM TypeCorrect == Spec => []TypeOK
  BY Invariance, PTL DEF IInv

(* Cached, queued and stored offsets never pass over a record that is not  *)
(* settled: the heart of the consumer's at-least-once delivery.            *)
THEOREM NothingSkipped == Spec => []NoSkip
  <1>1. IInv => NoSkip
    <2> SUFFICES ASSUME IInv,
                        NEW n \in (Stored \cup UNION {Cached(c) : c \in Consumer}) \ {NoOffset}
                 PROVE  Covered(n)
      BY DEF NoSkip
    <2>1. Offsets(Good)
      BY DEF IInv
    <2>2. CASE n \in Stored
      BY <2>1, <2>2 DEF Stored, Offsets, Good, Covered
    <2>3. ASSUME NEW c \in Consumer, n \in Cached(c) PROVE Covered(n)
      <3>1. offsets[c] \in Seq(Good) /\ sent[c] \in Seq(Good) /\ cur[c] \in Good \cup {NoOffset}
        BY <2>1 DEF Offsets
      <3>2. \A q \in Seq(Good) : Elements(q) \subseteq Good
        BY DEF Elements
      <3>3. n \in Good
        BY <2>3, <3>1, <3>2 DEF Cached
      <3>4. QED
        BY <3>3 DEF Good, Covered
    <2>4. QED
      BY <2>2, <2>3
  <1>2. QED
    BY <1>1, Invariance, PTL

(* The consumed log names settled messages only: the lookup in startup     *)
(* turns away no message that was not handled.                             *)
THEOREM OnlyHandledConsumed == Spec => []ConsumedIsHandled
  <1>1. IInv => ConsumedIsHandled
    BY DEF IInv, Marks, ConsumedIsHandled
  <1>2. QED
    BY <1>1, Invariance, PTL

(* A step stores at most one offset, a good one, and then settles nothing. *)
LEMMA Moves ==
    ASSUME IInv, [Next]_vars
    PROVE  \/ /\ UNCHANGED <<db, committed>>
              /\ log' = log \/ \E m \in Message : log' = Append(log, m)
           \/ /\ UNCHANGED <<log, done, overdue, skipped>>
              /\ \E n \in Good \cup {NoOffset} : Stored' \subseteq Stored \cup {n}
  <1> USE DEF groupVars, storeVars, loopVars, batchVars, commitVars, execVars, workVars,
              resetVars, limitVars
  <1> DEFINE Keeps == UNCHANGED <<db, committed>>
             Settles == UNCHANGED <<log, done, overdue, skipped>>
             Stores == \E n \in Good \cup {NoOffset} : Stored' \subseteq Stored \cup {n}
  <1>1. TypeOK /\ skipped <= Len(log) /\ Offsets(Good)
    BY DEF IInv
  <1>2. log' = log \/ \E m \in Message : log' = Append(log, m)
    BY <1>1, Grows
  <1>3. ASSUME NEW c \in Consumer, Revoke(c) PROVE Settles /\ Stores
    <2>1. cur[c] \in Good \cup {NoOffset}
      BY <1>1 DEF Offsets
    <2>2. db' = db /\ (committed' = committed \/ committed' = cur[c])
      BY <1>3 DEF Revoke, Committed
    <2>3. QED
      BY <1>3, <2>1, <2>2 DEF Revoke, Stored
  <1>4. ASSUME NEW c \in Consumer, SaveRevoked(c) PROVE Settles /\ Stores
    <2>1. cur[c] \in Good \cup {NoOffset}
      BY <1>1 DEF Offsets
    <2>2. committed' = committed /\ (db' = db \/ db' = cur[c])
      BY <1>4 DEF SaveRevoked
    <2>3. QED
      BY <1>4, <2>1, <2>2 DEF SaveRevoked, Stored
  <1>5. ASSUME NEW c \in Consumer, FinalCommit(c) PROVE Settles /\ Stores
    <2>1. cur[c] \in Good \cup {NoOffset}
      BY <1>1 DEF Offsets
    <2>2. db' = db /\ (committed' = committed \/ committed' = cur[c])
      BY <1>5 DEF FinalCommit, Committed
    <2>3. QED
      BY <1>5, <2>1, <2>2 DEF FinalCommit, Stored
  <1>6. ASSUME NEW c \in Consumer, Commit(c) PROVE Settles /\ Stores
    <2>1. sent[c] \in Seq(Good) /\ sent[c] # <<>>
      BY <1>1, <1>6 DEF Offsets, Commit
    <2>2. Head(sent[c]) \in Good
      BY <2>1
    <2>3. db' = db /\ (committed' = committed \/ committed' = Head(sent[c]))
      BY <1>6 DEF Commit, Committed
    <2>4. QED
      BY <1>6, <2>2, <2>3 DEF Commit, Stored
  <1>7. ASSUME NEW c \in Consumer, SaveOffset(c) PROVE Settles /\ Stores
    <2>1. offsets[c] \in Seq(Good) /\ offsets[c] # <<>>
      BY <1>1, <1>7 DEF Offsets, SaveOffset
    <2>2. Head(offsets[c]) \in Good
      BY <2>1
    <2>3. committed' = committed /\ (db' = db \/ db' = Head(offsets[c]))
      BY <1>7 DEF SaveOffset
    <2>4. QED
      BY <1>7, <2>2, <2>3 DEF SaveOffset, Stored
  <1>8. ASSUME NEW m \in Message, Produce(m) PROVE Keeps
    BY <1>8 DEF Produce
  <1>9. ASSUME NEW c \in Consumer, Start(c) \/ Stop(c) \/ Assign(c) \/ PollFails(c) PROVE Keeps
    BY <1>9 DEF Start, Stop, Assign, PollFails
  <1>10. ASSUME NEW c \in Consumer, CommitCallback(c) \/ Poll(c) \/ Leave(c) \/ Take(c)
         PROVE  Keeps
    BY <1>10 DEF CommitCallback, Poll, Leave, Take
  <1>11. ASSUME NEW c \in Consumer, Handled(c) \/ Put(c) \/ Close(c) \/ OnWork(c) PROVE Keeps
    BY <1>11 DEF Handled, Put, Close, OnWork
  <1>12. ASSUME NEW c \in Consumer, SaveConsumed(c) \/ Expel(c) \/ Crash(c) PROVE Keeps
    BY <1>12 DEF SaveConsumed, Expel, Crash
  <1>13. ASSUME UNCHANGED vars PROVE Keeps
    BY <1>13 DEF vars
  <1>14. Keeps \/ (Settles /\ Stores)
    <2> HIDE DEF Keeps, Settles, Stores
    <2>1. QED
      BY <1>3, <1>4, <1>5, <1>6, <1>7, <1>8, <1>9, <1>10, <1>11, <1>12, <1>13 DEF Next, Loop
  <1>15. QED
    BY <1>2, <1>14

(* The consumers implement Subscription: a record once reached stays so,   *)
(* and the two places a consumer resumes from only ever move to covered    *)
(* offsets.                                                                *)
THEOREM KeepsPromise == Spec => KeepsUp
  <1> DEFINE R == {i \in 1..Len(log) : Reached(i)}
  <1>1. Init => Promise!Init
    <2> SUFFICES ASSUME Init PROVE Promise!Init
      OBVIOUS
    <2>1. Len(log) = 0
      BY DEF Init
    <2>2. R = {}
      BY <2>1
    <2>3. Stored \ {NoOffset} = {}
      BY DEF Init, Stored
    <2>4. QED
      BY <2>1, <2>2, <2>3 DEF Promise!Init
  <1>2. IInv /\ [Next]_vars => [Promise!Next]_<<Len(log), R, Stored \ {NoOffset}>>
    <2> SUFFICES ASSUME IInv, [Next]_vars
                 PROVE  Promise!Next \/ UNCHANGED <<Len(log), R, Stored \ {NoOffset}>>
      OBVIOUS
    <2>1. /\ TypeOK /\ skipped <= Len(log) /\ log \in Seq(Message) /\ Len(log) \in Nat
      BY DEF IInv, TypeOK
    <2>2. \A i \in 1..Len(log) : Reached(i) => Reached(i)'
      BY <2>1, Monotone
    <2>3. CASE UNCHANGED <<log, db, committed>>
      <3>1. R \subseteq R' /\ Len(log)' = Len(log)
        BY <2>2, <2>3
      <3>2. QED
        BY <2>3, <3>1 DEF Stored, Promise!Next, Promise!Reach
    <2>4. CASE UNCHANGED <<db, committed>> /\ \E m \in Message : log' = Append(log, m)
      <3>1. Len(log)' = Len(log) + 1
        BY <2>1, <2>4
      <3>2. R \subseteq R'
        BY <2>1, <2>2, <3>1
      <3>3. QED
        BY <2>4, <3>1, <3>2 DEF Stored, Promise!Next, Promise!Append
    <2>5. ASSUME UNCHANGED <<log, done, overdue, skipped>>,
                 NEW n \in Good \cup {NoOffset}, Stored' \subseteq Stored \cup {n}
          PROVE  Promise!Next
      <3>1. Len(log)' = Len(log) /\ R' = R
        BY <2>5 DEF Reached, Settled
      <3>2. PICK k \in Good : n # NoOffset => k = n
        <4>1. 0 \in Good
          BY <2>1 DEF Good
        <4>2. QED
          BY <4>1
      <3>3. k \in 0..Len(log) /\ 1..k \subseteq R
        BY <2>1, <3>2 DEF Good
      <3>4. (Stored \ {NoOffset})' \subseteq (Stored \ {NoOffset}) \cup {k}
        BY <2>5, <3>2
      <3>5. QED
        BY <3>1, <3>3, <3>4 DEF Promise!Next, Promise!Store, Promise!Covered
    <2>6. QED
      BY <2>3, <2>4, <2>5, Moves
  <1>3. QED
    BY <1>1, <1>2, Invariance, PTL DEF Spec, KeepsUp, Promise!Spec
===============================================================================
