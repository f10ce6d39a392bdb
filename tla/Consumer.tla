------------------------------- MODULE Consumer -------------------------------
(***************************************************************************)
(* The consumers of one group on one partition: the poll loop of           *)
(* KafkaConsumerManager with its offset cache, the rebalance listener, the *)
(* commit callback and the executors that write the offset log and the     *)
(* consumed log.  Each consumer has a process, and so executors, of its    *)
(* own.                                                                    *)
(*                                                                         *)
(* An offset n stands before record n + 1, records being numbered from 1.  *)
(* It is kept in two places that move independently, the offset log in     *)
(* Mongo and the group's committed offset in Kafka; a consumer that is     *)
(* assigned the partition prefers the first.                               *)
(***************************************************************************)
EXTENDS Naturals, Sequences

CONSTANTS
    Message,         \* message digests
    Broken,          \* those checkKafkaMessage refuses
    Consumer,
    NoOffset, NoOne,
    BatchSize,       \* batchCommitSize
    MaxPoll,         \* max.poll.records
    LogLimit,        \* bound on the records of the partition
    StartLimit,      \* bound on starts of a consumer
    RebalanceLimit,  \* bound on rebalances and expelled consumers
    FaultLimit,      \* bound on failed calls and lost tasks
    CrashLimit       \* bound on crashes

(* validate lets a batchCommitSize of 0 pass, which divides by zero. *)
ASSUME ConsumerConstantsOK ==
    /\ Broken \subseteq Message
    /\ NoOffset \notin Nat /\ NoOne \notin Consumer
    /\ BatchSize \in Nat \ {0} /\ MaxPoll \in Nat \ {0}
    /\ LogLimit \in Nat /\ StartLimit \in Nat /\ RebalanceLimit \in Nat
    /\ FaultLimit \in Nat /\ CrashLimit \in Nat

VARIABLES
    log,        \* the partition
    owner,      \* whom the group coordinator has assigned it to
    committed,  \* the group's committed offset
    db,         \* the offset log
    consumed,   \* the consumed log
    pc, running,
    member,     \* the consumer believes the partition is assigned to it
    next,       \* its position
    end,        \* end of the batch it handles
    cur,        \* its entry in currentOffsets
    count,      \* dataCount
    sent,       \* asynchronous commits on their way
    acked,      \* offsets whose commit callback is due, without error
    offsets,    \* queue of the offset log executor, which has one thread
    marks,      \* tasks of the consumed log executor, which has many
    work,       \* messages the worker executor has and has not finished
    done,       \* history: messages whose onWork has returned or raised
    overdue,    \* history: messages whose worker task timed out
    again,      \* history: messages given to the worker more than once
    skipped,    \* history: end of the log when a position was last reset to it
    starts, rebalances, faults, crashes

groupVars == <<owner, committed>>
storeVars == <<db, consumed>>
batchVars == <<next, end, count>>
loopVars == <<pc, running, member, batchVars, cur>>
commitVars == <<sent, acked>>
execVars == <<offsets, marks>>
workVars == <<work, done, overdue, again>>
resetVars == <<skipped>>
limitVars == <<starts, rebalances, faults, crashes>>
vars == <<log, groupVars, storeVars, loopVars, commitVars, execVars, workVars,
          resetVars, limitVars>>

-------------------------------------------------------------------------------

Pc == {"off", "poll", "record", "handle", "put", "revoke", "final", "close", "leave"}

Offset == Nat \cup {NoOffset}

TypeOK ==
    /\ log \in Seq(Message)
    /\ owner \in Consumer \cup {NoOne}
    /\ committed \in Offset /\ db \in Offset
    /\ consumed \subseteq Message
    /\ pc \in [Consumer -> Pc] /\ running \in [Consumer -> BOOLEAN]
    /\ member \in [Consumer -> BOOLEAN]
    /\ next \in [Consumer -> Nat] /\ end \in [Consumer -> Nat]
    /\ cur \in [Consumer -> Offset] /\ count \in [Consumer -> Nat]
    /\ sent \in [Consumer -> Seq(Nat)] /\ acked \in [Consumer -> SUBSET Nat]
    /\ offsets \in [Consumer -> Seq(Nat)] /\ marks \in [Consumer -> SUBSET Message]
    /\ work \in [Consumer -> SUBSET Message]
    /\ done \subseteq Message /\ overdue \subseteq Message /\ again \subseteq Message
    /\ skipped \in Nat
    /\ starts \in [Consumer -> Nat]
    /\ rebalances \in Nat /\ faults \in Nat /\ crashes \in Nat

Init ==
    /\ log = <<>> /\ owner = NoOne /\ committed = NoOffset /\ db = NoOffset
    /\ consumed = {}
    /\ pc = [c \in Consumer |-> "off"] /\ running = [c \in Consumer |-> FALSE]
    /\ member = [c \in Consumer |-> FALSE]
    /\ next = [c \in Consumer |-> 0] /\ end = [c \in Consumer |-> 0]
    /\ cur = [c \in Consumer |-> NoOffset] /\ count = [c \in Consumer |-> 0]
    /\ sent = [c \in Consumer |-> <<>>] /\ acked = [c \in Consumer |-> {}]
    /\ offsets = [c \in Consumer |-> <<>>] /\ marks = [c \in Consumer |-> {}]
    /\ work = [c \in Consumer |-> {}] /\ done = {} /\ overdue = {} /\ again = {}
    /\ skipped = 0
    /\ starts = [c \in Consumer |-> 0]
    /\ rebalances = 0 /\ faults = 0 /\ crashes = 0

-------------------------------------------------------------------------------
(* A remote call may fail without effect, or only its answer may be lost. *)
Outcome == {"ok", "lost", "unknown"}

Call(o) ==
    /\ o # "ok" => faults < FaultLimit
    /\ faults' = IF o = "ok" THEN faults ELSE faults + 1
    /\ UNCHANGED <<starts, rebalances, crashes>>

Applied(o) == o # "lost"

(* A commit of a consumer the coordinator has expelled always fails. *)
Committed(o, c, n) == IF Applied(o) /\ owner = c THEN n ELSE committed

CommitOk(o, c) == o = "ok" /\ owner = c

(* The messages that need no handling any more. *)
Settled == Broken \cup done \cup overdue

Reached(i) == i <= skipped \/ log[i] \in Settled

-------------------------------------------------------------------------------
(* The partition.                                                          *)

Produce(m) ==
    /\ Len(log) < LogLimit
    /\ log' = Append(log, m)
    /\ UNCHANGED <<groupVars, storeVars, loopVars, commitVars, execVars,
                   workVars, resetVars, limitVars>>

-------------------------------------------------------------------------------
(* Start and stop of a worker.                                             *)

(* releaseExecutor waits for the tasks that are left. *)
Drained(c) == offsets[c] = <<>> /\ marks[c] = {} /\ work[c] = {}

Start(c) ==
    /\ pc[c] = "off" /\ Drained(c) /\ starts[c] < StartLimit
    /\ pc' = [pc EXCEPT ![c] = "poll"] /\ running' = [running EXCEPT ![c] = TRUE]
    /\ cur' = [cur EXCEPT ![c] = NoOffset] /\ acked' = [acked EXCEPT ![c] = {}]
    /\ starts' = [starts EXCEPT ![c] = @ + 1]
    /\ UNCHANGED <<log, groupVars, storeVars, member, batchVars, sent, execVars,
                   workVars, resetVars, rebalances, faults, crashes>>

(* release: the flag is all that ends the loop; nothing wakes a poll up. *)
Stop(c) ==
    /\ running[c]
    /\ running' = [running EXCEPT ![c] = FALSE]
    /\ UNCHANGED <<log, groupVars, storeVars, pc, member, batchVars, cur,
                   commitVars, execVars, workVars, resetVars, limitVars>>

-------------------------------------------------------------------------------
(* Inside poll: rebalances and commit callbacks.                           *)

(* Mutant of Position: the stored offsets are found but not sought. *)
StayAtEnd(found, n) == Len(log)

(* Mutant of Position: no reset when neither offset is known. *)
NoReset(found, n) == IF found # NoOffset THEN found ELSE n

(* onPartitionsAssigned: the offset log, else the committed offset, else   *)
(* auto.offset.reset, which is "latest".                                   *)
Position(found, n) ==
    IF found # NoOffset THEN found
    ELSE IF n # NoOffset THEN n
    ELSE Len(log)

(* A failed query of the offset log is swallowed. *)
Assign(c) == \E o \in {"ok", "lost"} :
    LET found == IF o = "ok" THEN db ELSE NoOffset IN
    /\ pc[c] = "poll" /\ ~member[c] /\ owner = NoOne
    /\ Call(o)
    /\ owner' = c /\ member' = [member EXCEPT ![c] = TRUE]
    /\ next' = [next EXCEPT ![c] = Position(found, committed)]
    /\ skipped' = IF found = NoOffset /\ committed = NoOffset THEN Len(log) ELSE skipped
    /\ UNCHANGED <<log, committed, storeVars, pc, running, end, count, cur,
                   commitVars, execVars, workVars>>

(* Nothing catches an exception of poll itself, nor one of the listener's  *)
(* query for the committed offset, inside the loop: the consumer ends.     *)
PollFails(c) ==
    /\ pc[c] = "poll" /\ faults < FaultLimit
    /\ faults' = faults + 1
    /\ pc' = [pc EXCEPT ![c] = "final"]
    /\ \/ UNCHANGED <<owner, member>>
       \/ /\ ~member[c] /\ owner = NoOne
          /\ owner' = c /\ member' = [member EXCEPT ![c] = TRUE]
    /\ UNCHANGED <<log, committed, storeVars, running, batchVars, cur,
                   commitVars, execVars, workVars, resetVars, starts,
                   rebalances, crashes>>

(* onComplete after a successful commitAsync forgets the offset, unless    *)
(* the loop has moved on.  The client runs it inside a later call of poll, *)
(* commitAsync, commitSync or close.                                       *)
CommitCallback(c) == \E n \in acked[c] :
    /\ \/ pc[c] \in {"poll", "final", "close"}
       \/ pc[c] = "record" /\ count[c] = 0
    /\ acked' = [acked EXCEPT ![c] = @ \ {n}]
    /\ cur' = IF cur[c] = n THEN [cur EXCEPT ![c] = NoOffset] ELSE cur
    /\ UNCHANGED <<log, groupVars, storeVars, pc, running, member, batchVars,
                   sent, execVars, workVars, resetVars, limitVars>>

Left(c) == owner' = IF owner = c THEN NoOne ELSE owner

GoneTo(c) == IF pc[c] \in {"poll", "revoke"} THEN "poll" ELSE "off"

(* onPartitionsRevoked, in a rebalance or out of close: the cached offset  *)
(* is committed, after the commits that are still on their way.            *)
Revoke(c) == \E o \in Outcome :
    /\ pc[c] \in {"poll", "close"} /\ member[c] /\ sent[c] = <<>>
    /\ IF pc[c] = "poll" /\ owner = c
       THEN rebalances < RebalanceLimit /\ rebalances' = rebalances + 1
       ELSE UNCHANGED rebalances
    /\ IF cur[c] = NoOffset
       THEN o = "ok" /\ UNCHANGED <<committed, faults>>
       ELSE /\ o # "ok" => faults < FaultLimit
            /\ faults' = IF o = "ok" THEN faults ELSE faults + 1
            /\ committed' = Committed(o, c, cur[c])
    /\ IF cur[c] # NoOffset /\ CommitOk(o, c)
       THEN /\ pc' = [pc EXCEPT ![c] = IF pc[c] = "poll" THEN "revoke" ELSE "leave"]
            /\ UNCHANGED <<owner, member>>
       ELSE /\ pc' = [pc EXCEPT ![c] = GoneTo(c)]
            /\ member' = [member EXCEPT ![c] = FALSE] /\ Left(c)
    /\ UNCHANGED <<log, storeVars, running, batchVars, cur, commitVars,
                   execVars, workVars, resetVars, starts, crashes>>

(* The offset log is then written at once, not through the executor. *)
SaveRevoked(c) == \E o \in Outcome :
    /\ pc[c] \in {"revoke", "leave"}
    /\ Call(o)
    /\ db' = IF Applied(o) THEN cur[c] ELSE db
    /\ cur' = [cur EXCEPT ![c] = NoOffset]
    /\ pc' = [pc EXCEPT ![c] = GoneTo(c)]
    /\ member' = [member EXCEPT ![c] = FALSE] /\ Left(c)
    /\ UNCHANGED <<log, committed, consumed, running, batchVars, commitVars,
                   execVars, workVars, resetVars>>

-------------------------------------------------------------------------------
(* The loop.                                                               *)

(* poll returns records; the cache is cleared of the last batch. *)
Poll(c) == \E e \in 1..MaxPoll :
    /\ pc[c] = "poll" /\ member[c]
    /\ next[c] + e <= Len(log)
    /\ end' = [end EXCEPT ![c] = next[c] + e]
    /\ cur' = [cur EXCEPT ![c] = NoOffset]
    /\ count' = [count EXCEPT ![c] = 0]
    /\ pc' = [pc EXCEPT ![c] = "record"]
    /\ UNCHANGED <<log, groupVars, storeVars, running, member, next, commitVars,
                   execVars, workVars, resetVars, limitVars>>

(* Out of the loop, at its head or between two records. *)
Leave(c) ==
    /\ pc[c] \in {"poll", "record"} /\ ~running[c]
    /\ pc' = [pc EXCEPT ![c] = "final"]
    /\ UNCHANGED <<log, groupVars, storeVars, running, member, batchVars, cur,
                   commitVars, execVars, workVars, resetVars, limitVars>>

This(c) == log[next[c] + 1]

(* Mutant of Known: a failed lookup counts as found. *)
FailedIsKnown(o, m) == o = "ok" => m \in consumed

(* exists: a failed lookup counts as not found. *)
Known(o, m) == o = "ok" /\ m \in consumed

(* A record that is broken or known is passed over; any other goes to the  *)
(* worker executor.  The notice of a work log that nothing reads is left  *)
(* out.                                                                    *)
Take(c) == \E o \in {"ok", "lost"} :
    LET m == This(c)
        give == m \notin Broken /\ ~Known(o, m) IN
    /\ pc[c] = "record" /\ running[c]
    /\ m \in Broken => o = "ok"
    /\ Call(o)
    /\ pc' = [pc EXCEPT ![c] = IF give THEN "handle" ELSE "put"]
    /\ work' = IF give THEN [work EXCEPT ![c] = @ \cup {m}] ELSE work
    /\ again' = IF give /\ (m \in done \cup overdue \/ \E d \in Consumer : m \in work[d])
                THEN again \cup {m} ELSE again
    /\ UNCHANGED <<log, groupVars, storeVars, running, member, batchVars, cur,
                   commitVars, execVars, done, overdue, resetVars>>

(* The worker's thread. *)
OnWork(c) == \E m \in work[c] :
    /\ work' = [work EXCEPT ![c] = @ \ {m}]
    /\ done' = done \cup {m}
    /\ UNCHANGED <<log, groupVars, storeVars, loopVars, commitVars, execVars,
                   overdue, again, resetVars, limitVars>>

(* Mutant of Handled: the loop does not wait for the worker. *)
NoWait(c) ==
    /\ pc[c] = "handle"
    /\ pc' = [pc EXCEPT ![c] = "put"]
    /\ UNCHANGED <<log, groupVars, storeVars, running, member, batchVars, cur,
                   commitVars, execVars, workVars, resetVars, limitVars>>

(* The wait for the worker ends, with its result or by its timeout. *)
Handled(c) ==
    /\ pc[c] = "handle"
    /\ pc' = [pc EXCEPT ![c] = "put"]
    /\ \/ This(c) \notin work[c] /\ UNCHANGED <<overdue, faults>>
       \/ /\ This(c) \in work[c] /\ faults < FaultLimit
          /\ overdue' = overdue \cup {This(c)} /\ faults' = faults + 1
    /\ UNCHANGED <<log, groupVars, storeVars, running, member, batchVars, cur,
                   commitVars, execVars, work, done, again, resetVars, starts,
                   rebalances, crashes>>

(* Mutant of Upto: the offset of the record after the next. *)
OneTooFar(c) == next[c] + 2

Upto(c) == next[c] + 1

Due(c) == (count[c] + 1) % BatchSize = 0 \/ next[c] + 1 = end[c] \/ ~running[c]

(* The offset is cached and, at the end of a batch or of batchCommitSize   *)
(* records, queued for the offset log and committed; a commitAsync that    *)
(* raises leaves the count as it is.  Then the record is queued for the    *)
(* consumed log.  Nothing looks a broken message up there, so its entry,   *)
(* if it has what one is made of, is left out.                             *)
Put(c) == \E o \in {"ok", "lost"} :
    /\ pc[c] = "put"
    /\ o # "ok" => Due(c)
    /\ Call(o)
    /\ next' = [next EXCEPT ![c] = next[c] + 1]
    /\ cur' = [cur EXCEPT ![c] = Upto(c)]
    /\ offsets' = IF Due(c) THEN [offsets EXCEPT ![c] = Append(offsets[c], Upto(c))]
                            ELSE offsets
    /\ IF Due(c) /\ o = "ok"
       THEN /\ sent' = [sent EXCEPT ![c] = Append(sent[c], Upto(c))]
            /\ count' = [count EXCEPT ![c] = 0]
       ELSE /\ count' = [count EXCEPT ![c] = @ + 1]
            /\ UNCHANGED sent
    /\ marks' = [marks EXCEPT ![c] = @ \cup ({This(c)} \ Broken)]
    /\ pc' = [pc EXCEPT ![c] = IF next[c] + 1 = end[c] THEN "poll" ELSE "record"]
    /\ UNCHANGED <<log, groupVars, storeVars, running, member, end, acked,
                   workVars, resetVars>>

(* Mutant of FinalCommit: the cached offset is dropped. *)
JustClose(c) ==
    /\ pc[c] = "final" /\ sent[c] = <<>>
    /\ pc' = [pc EXCEPT ![c] = "close"]
    /\ cur' = [cur EXCEPT ![c] = NoOffset]
    /\ UNCHANGED <<log, groupVars, storeVars, running, member, batchVars,
                   commitVars, execVars, workVars, resetVars, limitVars>>

(* syncCommitOffest: the cached offset is queued for the offset log even   *)
(* when its commit fails, and stays in the cache.                          *)
FinalCommit(c) == \E o \in Outcome :
    /\ pc[c] = "final" /\ sent[c] = <<>>
    /\ pc' = [pc EXCEPT ![c] = "close"]
    /\ IF cur[c] = NoOffset
       THEN o = "ok" /\ UNCHANGED <<committed, offsets, limitVars>>
       ELSE /\ Call(o)
            /\ committed' = Committed(o, c, cur[c])
            /\ offsets' = [offsets EXCEPT ![c] = Append(offsets[c], cur[c])]
    /\ UNCHANGED <<log, owner, storeVars, running, member, batchVars, cur,
                   commitVars, marks, workVars, resetVars>>

(* close, of a consumer that is not a member; Revoke has the other case. *)
Close(c) ==
    /\ pc[c] = "close" /\ ~member[c]
    /\ pc' = [pc EXCEPT ![c] = "off"]
    /\ UNCHANGED <<log, groupVars, storeVars, running, member, batchVars, cur,
                   commitVars, execVars, workVars, resetVars, limitVars>>

-------------------------------------------------------------------------------
(* The broker and the executors.                                           *)

Commit(c) == \E o \in Outcome :
    LET n == Head(sent[c]) IN
    /\ sent[c] # <<>>
    /\ Call(o)
    /\ sent' = [sent EXCEPT ![c] = Tail(sent[c])]
    /\ committed' = Committed(o, c, n)
    /\ acked' = IF CommitOk(o, c) THEN [acked EXCEPT ![c] = @ \cup {n}] ELSE acked
    /\ UNCHANGED <<log, owner, storeVars, loopVars, execVars, workVars,
                   resetVars>>

SaveOffset(c) == \E o \in Outcome :
    /\ offsets[c] # <<>>
    /\ Call(o)
    /\ offsets' = [offsets EXCEPT ![c] = Tail(offsets[c])]
    /\ db' = IF Applied(o) THEN Head(offsets[c]) ELSE db
    /\ UNCHANGED <<log, groupVars, consumed, loopVars, commitVars, marks,
                   workVars, resetVars>>

SaveConsumed(c) == \E m \in marks[c], o \in Outcome :
    /\ Call(o)
    /\ marks' = [marks EXCEPT ![c] = @ \ {m}]
    /\ consumed' = IF Applied(o) THEN consumed \cup {m} ELSE consumed
    /\ UNCHANGED <<log, groupVars, db, loopVars, commitVars, offsets, workVars,
                   resetVars>>

(* The coordinator expels a consumer that does not poll or beat in time.   *)
(* The consumer does not know.                                             *)
Expel(c) ==
    /\ owner = c /\ rebalances < RebalanceLimit
    /\ owner' = NoOne /\ rebalances' = rebalances + 1
    /\ UNCHANGED <<log, committed, storeVars, loopVars, commitVars, execVars,
                   workVars, resetVars, starts, faults, crashes>>

(* A process stops, or is halted before its executors are done. *)
Crash(c) ==
    /\ pc[c] # "off" \/ ~Drained(c)
    /\ crashes < CrashLimit /\ crashes' = crashes + 1
    /\ pc' = [pc EXCEPT ![c] = "off"] /\ running' = [running EXCEPT ![c] = FALSE]
    /\ member' = [member EXCEPT ![c] = FALSE] /\ Left(c)
    /\ cur' = [cur EXCEPT ![c] = NoOffset]
    /\ sent' = [sent EXCEPT ![c] = <<>>] /\ acked' = [acked EXCEPT ![c] = {}]
    /\ offsets' = [offsets EXCEPT ![c] = <<>>] /\ marks' = [marks EXCEPT ![c] = {}]
    /\ work' = [work EXCEPT ![c] = {}]
    /\ UNCHANGED <<log, committed, storeVars, batchVars, done, overdue, again,
                   resetVars, starts, rebalances, faults>>

Loop(c) ==
    \/ Poll(c) \/ Take(c) \/ Handled(c) \/ Put(c) \/ Leave(c)
    \/ FinalCommit(c) \/ Close(c) \/ SaveRevoked(c)

Next ==
    \/ \E m \in Message : Produce(m)
    \/ \E c \in Consumer :
          \/ Start(c) \/ Stop(c) \/ Assign(c) \/ PollFails(c) \/ CommitCallback(c)
          \/ Revoke(c) \/ Loop(c) \/ OnWork(c)
          \/ Commit(c) \/ SaveOffset(c) \/ SaveConsumed(c) \/ Expel(c) \/ Crash(c)

Spec == Init /\ [][Next]_vars

(* The loop runs on, the coordinator assigns what is free, the broker      *)
(* answers and onWork returns.  Nothing promises that a consumer is        *)
(* started, and the executors of the logs may be as slow as they like.     *)
Fairness == \A c \in Consumer :
    /\ WF_vars(Loop(c))
    /\ WF_vars(Assign(c))
    /\ WF_vars(pc[c] = "close" /\ Revoke(c))
    /\ WF_vars(Commit(c))
    /\ WF_vars(OnWork(c))

FairSpec == Spec /\ Fairness

-------------------------------------------------------------------------------
(* Properties.                                                             *)

Covered(n) == n <= Len(log) /\ \A i \in 1..n : Reached(i)

Elements(s) == {s[k] : k \in DOMAIN s}

Cached(c) == {cur[c]} \cup Elements(offsets[c]) \cup Elements(sent[c])

Stored == {db, committed}

(* No offset that is stored, or cached or queued by any consumer, an       *)
(* expelled one included, has a record below it that was neither settled   *)
(* nor jumped over by a reset: whatever is written last, in whatever       *)
(* order, no record is lost to it (KafkaConsumerManager, the order of      *)
(* handle and put; HandleRebalance, the writes past the executor).         *)
NoSkip == \A n \in (Stored \cup UNION {Cached(c) : c \in Consumer}) \ {NoOffset} :
              Covered(n)

(* Only settled messages become known as consumed, so that exists never    *)
(* turns away a message nobody has handled (KafkaConsumerManager, the      *)
(* consumed log that is written in finally, by another thread).            *)
ConsumedIsHandled ==
    \A m \in consumed \cup UNION {marks[c] : c \in Consumer} : m \in Settled

(* A consumer that stops without faults, rebalances or crashes leaves the  *)
(* offset log where it stopped, also in the middle of a batch, and an      *)
(* empty offset log only when it has handled nothing.  For one consumer    *)
(* (startup's finally block and release).                                  *)
CleanStop ==
    /\ faults = 0 /\ rebalances = 0 /\ crashes = 0
    /\ \A c \in Consumer : pc[c] = "off" /\ Drained(c)
    => IF db = NoOffset THEN done = {} ELSE \A c \in Consumer : db = next[c]

(* While some consumer stays up, every record is reached, whatever was     *)
(* lost or repeated before (the poll loop with its positions).             *)
AllHandled ==
    <>[](\E c \in Consumer : pc[c] # "off")
    => \A i \in 1..LogLimit : (Len(log) >= i) ~> Covered(i)

(* The consumers keep the promise of Subscription: the offset log and the  *)
(* committed offset move, also backwards, only to covered offsets.         *)
Promise == INSTANCE Subscription WITH
    length <- Len(log),
    reached <- {i \in 1..Len(log) : Reached(i)},
    resume <- Stored \ {NoOffset}

KeepsUp == Promise!Spec

(* A message the consumed log knows is ignored, so the worker is given no  *)
(* message twice (KafkaConsumerManager, "repeated, ignored").  The code    *)
(* does not keep this.                                                     *)
HandledOnce == again = {}
===============================================================================
