------------------------------- MODULE MessageId -------------------------------
(***************************************************************************)
(* How the threads of a client process name their messages: the one        *)
(* DistributedIDGenerator of class Message counts in an AtomicInteger that *)
(* is set back in a step of its own.  The process, its machine and the     *)
(* kind of id are the same for all ids of a generator and left out.        *)
(***************************************************************************)
EXTENDS Naturals, FiniteSets

CONSTANTS
    Message,    \* messages that are being created, each by a thread
    Limit,      \* the count past which the generator starts anew (100000)
    Start,      \* where the count may stand by now
    MaxTime     \* bound on the clock, in milliseconds

ASSUME MessageIdConstantsOK ==
    /\ IsFiniteSet(Message) /\ Cardinality(Message) < Limit
    /\ Limit \in Nat /\ MaxTime \in Nat /\ Start \subseteq 0 .. Limit + 1

VARIABLES
    num,        \* the AtomicInteger
    now,        \* the clock
    at,         \* where generatorId stands for a message
    number,     \* the number it took
    id,         \* the id it made: time and number
    era,        \* history: how often it was set back again for one overflow
    of          \* history: the era in which a message took its number

idVars == <<num, now, at, number, id, era, of>>

IdPc == {"look", "reset", "add", "stamp", "made"}

IdTypeOK ==
    /\ num \in Nat /\ now \in Nat /\ era \in Nat /\ of \in [Message -> Nat]
    /\ at \in [Message -> IdPc] /\ number \in [Message -> Nat]
    /\ id \in [Message -> Nat \X Nat]

(* The generator has been counting for some time. *)
IdInit ==
    /\ num \in Start /\ now = 0 /\ era = 0 /\ of = [m \in Message |-> 0]
    /\ at = [m \in Message |-> "look"] /\ number = [m \in Message |-> 0]
    /\ id = [m \in Message |-> <<0, 0>>]

Goto(m, from, to) == at[m] = from /\ at' = [at EXCEPT ![m] = to]

Look(m) ==
    /\ Goto(m, "look", IF num > Limit THEN "reset" ELSE "add")
    /\ UNCHANGED <<num, now, number, id, era, of>>

Reset(m) ==
    /\ Goto(m, "reset", "add")
    /\ num' = 0 /\ era' = IF num > Limit THEN era ELSE era + 1
    /\ UNCHANGED <<now, number, id, of>>

(* Mutant of AddAndGet: the number is read, not counted. *)
GetOnly(m) ==
    /\ Goto(m, "add", "stamp")
    /\ number' = [number EXCEPT ![m] = num + 1] /\ num' \in {num, num + 1}
    /\ of' = [of EXCEPT ![m] = era] /\ UNCHANGED <<now, id, era>>

AddAndGet(m) ==
    /\ Goto(m, "add", "stamp")
    /\ num' = num + 1 /\ number' = [number EXCEPT ![m] = num + 1]
    /\ of' = [of EXCEPT ![m] = era] /\ UNCHANGED <<now, id, era>>

Stamp(m) ==
    /\ Goto(m, "stamp", "made")
    /\ id' = [id EXCEPT ![m] = <<now, number[m]>>]
    /\ UNCHANGED <<num, now, number, era, of>>

Tick == now < MaxTime /\ now' = now + 1 /\ UNCHANGED <<num, at, number, id, era, of>>

GeneratorId(m) == Look(m) \/ Reset(m) \/ AddAndGet(m) \/ Stamp(m)

-------------------------------------------------------------------------------
(* The digest of a message, by which every log tells messages apart, rests *)
(* on its id.  A thread that has seen the overflow may set the counter     *)
(* back after another has done so, and ids are given out again; but each   *)
(* such reset lets an id be given out once more and no oftener: messages   *)
(* that took their numbers between two of them never have the same id.     *)
IdsDiffer ==
    \A m, n \in Message :
        m # n /\ at[m] = "made" /\ at[n] = "made" /\ id[m] = id[n] => of[m] # of[n]
===============================================================================
