------------------------------ MODULE GlobalLock ------------------------------
(***************************************************************************)
(* The redis lock of mq-redis-integration: lock objects cached per JVM and *)
(* key, a local semaphore in each of them, a key in redis that one script  *)
(* sets and another compares and deletes, the value a thread remembers in  *)
(* its one thread-local slot, and the task that throws cached lock objects *)
(* away.  Threads use it as GlobalLockFactory documents it: getLock, lock  *)
(* or tryLock, and unlock in a finally block even when tryLock failed.     *)
(***************************************************************************)
EXTENDS Naturals

CONSTANTS
    Thread, Jvm,
    Home,             \* the JVM a thread runs in
    Key,
    Serial,           \* tells apart the lock values one thread makes up
    NoValue,          \* an absent redis key, an empty slot
    Nested,           \* may a thread take a lock while it holds another
    Alive,            \* aliveMill, in the time unit of Tick
    MillisPerSecond,  \* 1000; a smaller number in small instances
    CleanLimit,       \* bound on cleanings of a lock object
    FaultLimit,       \* bound on failed redis calls and interrupts
    CrashLimit        \* bound on JVM crashes

ASSUME LockConstantsOK ==
    /\ Home \in [Thread -> Jvm]
    /\ NoValue \notin Thread \X Serial
    /\ Nested \in BOOLEAN
    /\ Alive \in Nat \ {0}
    /\ MillisPerSecond \in Nat \ {0}
    /\ CleanLimit \in Nat /\ FaultLimit \in Nat /\ CrashLimit \in Nat

VARIABLES
    store,    \* redis: the value of each key
    ttl,      \* time each key has left
    slot,     \* globalLockValueHolder
    pc, op,   \* where a thread stands in its call, and on which lock object
    held,     \* lock objects whose lock or tryLock returned success
    lapsed,   \* history: keys that expired under their holder
    cached,   \* the locks map: keys a JVM has a lock object for
    gen,      \* how many lock objects of a key the JVM has thrown away
    life,     \* time until CleanLockTask throws the object away
    taken,    \* lock objects whose permit is out
    dropped,  \* those CleanLockTask has removed and is about to unlock
    faults, crashes

redisVars == <<store, ttl, lapsed>>
localVars == <<cached, gen, life, taken, dropped>>
lockVars == <<redisVars, localVars, slot, pc, op, held, faults, crashes>>

Value == Thread \X Serial
Ref == [key : Key, gen : 0..CleanLimit]
Op == [ref : Ref, kind : {"lock", "tryLock"}]
Pc == {"out", "sema", "redis", "wait", "failed", "release"}

(* The scripts pass aliveMill to EXPIRE, which counts in seconds. *)
Ttl == Alive * MillisPerSecond

TypeOK ==
    /\ store \in [Key -> Value \cup {NoValue}]
    /\ ttl \in [Key -> 0..Ttl]
    /\ slot \in [Thread -> Value \cup {NoValue}]
    /\ pc \in [Thread -> Pc]
    /\ op \in [Thread -> Op \cup {NoValue}]
    /\ \A t \in Thread : pc[t] # "out" => op[t] \in Op
    /\ held \in [Thread -> SUBSET Ref]
    /\ lapsed \subseteq Thread \X Key
    /\ cached \in [Jvm -> SUBSET Key]
    /\ gen \in [Jvm -> [Key -> 0..CleanLimit]]
    /\ life \in [Jvm -> [Key -> 0..Alive]]
    /\ taken \in [Jvm -> SUBSET Ref] /\ dropped \in [Jvm -> SUBSET Ref]
    /\ faults \in 0..FaultLimit /\ crashes \in 0..CrashLimit

Init ==
    /\ store = [k \in Key |-> NoValue] /\ ttl = [k \in Key |-> 0] /\ lapsed = {}
    /\ slot = [t \in Thread |-> NoValue]
    /\ pc = [t \in Thread |-> "out"] /\ op = [t \in Thread |-> NoValue]
    /\ held = [t \in Thread |-> {}]
    /\ cached = [j \in Jvm |-> {}]
    /\ gen = [j \in Jvm |-> [k \in Key |-> 0]]
    /\ life = [j \in Jvm |-> [k \in Key |-> 0]]
    /\ taken = [j \in Jvm |-> {}] /\ dropped = [j \in Jvm |-> {}]
    /\ faults = 0 /\ crashes = 0

-------------------------------------------------------------------------------
GoTo(t, where) == pc' = [pc EXCEPT ![t] = where]

Keys(refs) == {r.key : r \in refs}

Fault ==
    /\ faults < FaultLimit /\ faults' = faults + 1
    /\ UNCHANGED crashes

(* A redis call may fail without effect, or only its answer may be lost. *)
Outcome == {"ok", "lost", "unknown"}

Call(o) == IF o = "ok" THEN UNCHANGED <<faults, crashes>> ELSE Fault

Applied(o) == o # "lost"

(* getLock returns the cached lock object or makes one, and with it the    *)
(* task that cleans it up.  Locks are not reentrant.                       *)
GetLock(t, k, kind) == LET j == Home[t] IN
    /\ pc[t] = "out" /\ k \notin Keys(held[t])
    /\ held[t] = {} \/ Nested
    /\ op' = [op EXCEPT ![t] = [ref |-> [key |-> k, gen |-> gen[j][k]], kind |-> kind]]
    /\ GoTo(t, "sema")
    /\ cached' = [cached EXCEPT ![j] = @ \cup {k}]
    /\ life' = IF k \in cached[j] THEN life ELSE [life EXCEPT ![j][k] = Alive]
    /\ UNCHANGED <<redisVars, gen, taken, dropped, slot, held, faults, crashes>>

TakePermit(t) == LET j == Home[t] IN
    /\ pc[t] = "sema" /\ op[t].ref \notin taken[j]
    /\ taken' = [taken EXCEPT ![j] = @ \cup {op[t].ref}]
    /\ GoTo(t, "redis")
    /\ UNCHANGED <<redisVars, cached, gen, life, dropped, slot, op, held, faults, crashes>>

(* tryLock gives up on the semaphore: false, without a permit. *)
SemaTimeout(t) ==
    /\ pc[t] = "sema" /\ op[t].kind = "tryLock"
    /\ GoTo(t, "failed")
    /\ UNCHANGED <<redisVars, localVars, slot, op, held, faults, crashes>>

(* lock swallows the interrupt and goes on without a permit. *)
SemaInterrupted(t) ==
    /\ pc[t] = "sema" /\ op[t].kind = "lock"
    /\ Fault
    /\ GoTo(t, "redis")
    /\ UNCHANGED <<redisVars, localVars, slot, op, held>>

(* A value nothing refers to any more stands for a value never used. *)
NewValue(t) == {v \in {t} \X Serial : /\ \A k \in Key : store[k] # v
                                      /\ \A u \in Thread : slot[u] # v}

(* Mutant of SetNx: an existing key is overwritten. *)
SetAlways(k, v) == store' = [store EXCEPT ![k] = v] /\ ttl' = [ttl EXCEPT ![k] = Ttl]

(* Mutant of SetNx: the time to live is converted to milliseconds again. *)
SetTooLong(k, v) ==
    IF store[k] = NoValue
    THEN /\ store' = [store EXCEPT ![k] = v]
         /\ ttl' = [ttl EXCEPT ![k] = Ttl * MillisPerSecond]
    ELSE UNCHANGED <<store, ttl>>

SetNx(k, v) ==
    IF store[k] = NoValue
    THEN store' = [store EXCEPT ![k] = v] /\ ttl' = [ttl EXCEPT ![k] = Ttl]
    ELSE UNCHANGED <<store, ttl>>

(* acquireLock: an exception counts as "not acquired", whatever redis did. *)
Attempt(t) == \E o \in Outcome, v \in NewValue(t) :
    LET r == op[t].ref
        won == o = "ok" /\ store[r.key] = NoValue IN
    /\ pc[t] = "redis"
    /\ Call(o)
    /\ IF Applied(o) THEN SetNx(r.key, v) ELSE UNCHANGED <<store, ttl>>
    /\ slot' = IF won THEN [slot EXCEPT ![t] = v] ELSE slot
    /\ held' = IF won THEN [held EXCEPT ![t] = @ \cup {r}] ELSE held
    /\ op' = IF won THEN [op EXCEPT ![t] = NoValue] ELSE op
    /\ GoTo(t, IF won THEN "out" ELSE "wait")
    /\ UNCHANGED <<lapsed, localVars>>

(* lock waits on the semaphore, and takes its permit if it is free. *)
Retry(t) == LET j == Home[t] IN
    /\ pc[t] = "wait"
    /\ GoTo(t, "redis")
    /\ taken' = IF op[t].kind = "lock" THEN [taken EXCEPT ![j] = @ \cup {op[t].ref}] ELSE taken
    /\ UNCHANGED <<redisVars, cached, gen, life, dropped, slot, op, held, faults, crashes>>

(* An interrupted wait takes no permit. *)
RetryInterrupted(t) ==
    /\ pc[t] = "wait" /\ op[t].kind = "lock"
    /\ Fault
    /\ GoTo(t, "redis")
    /\ UNCHANGED <<redisVars, localVars, slot, op, held>>

(* tryLock runs out of time, or its sleep is interrupted: the permit stays *)
(* out.                                                                    *)
GiveUp(t) ==
    /\ pc[t] = "wait" /\ op[t].kind = "tryLock"
    /\ GoTo(t, "failed")
    /\ UNCHANGED <<redisVars, localVars, slot, op, held, faults, crashes>>

(* Mutant of CompareAndDelete: the value is not compared. *)
DeleteKey(k, v) == store' = [store EXCEPT ![k] = NoValue] /\ ttl' = [ttl EXCEPT ![k] = 0]

CompareAndDelete(k, v) ==
    IF store[k] = v
    THEN store' = [store EXCEPT ![k] = NoValue] /\ ttl' = [ttl EXCEPT ![k] = 0]
    ELSE UNCHANGED <<store, ttl>>

(* unlock, by a holder or in the finally block after a failed tryLock: the *)
(* script runs with whatever value the slot has.                           *)
Unlock(t, r) == \E o \in Outcome :
    /\ \/ pc[t] = "out" /\ r \in held[t]
       \/ pc[t] = "failed" /\ r = op[t].ref
    /\ IF slot[t] = NoValue
       THEN o = "ok" /\ UNCHANGED <<store, ttl, faults, crashes>>
       ELSE /\ Call(o)
            /\ IF Applied(o) THEN CompareAndDelete(r.key, slot[t]) ELSE UNCHANGED <<store, ttl>>
    /\ held' = [held EXCEPT ![t] = @ \ {r}]
    /\ lapsed' = lapsed \ {<<t, r.key>>}
    /\ op' = [op EXCEPT ![t] = [ref |-> r, kind |-> "tryLock"]]
    /\ GoTo(t, "release")
    /\ UNCHANGED <<localVars, slot>>

(* Mutant of Release: the permit is kept. *)
KeepPermit(t) ==
    /\ pc[t] = "release"
    /\ GoTo(t, "out")
    /\ slot' = [slot EXCEPT ![t] = NoValue] /\ op' = [op EXCEPT ![t] = NoValue]
    /\ UNCHANGED <<redisVars, localVars, held, faults, crashes>>

(* The finally block of unlock: one permit at most is given back, whoever  *)
(* took it, and the slot is emptied.                                       *)
Release(t) == LET j == Home[t] IN
    /\ pc[t] = "release"
    /\ taken' = [taken EXCEPT ![j] = @ \ {op[t].ref}]
    /\ slot' = [slot EXCEPT ![t] = NoValue] /\ op' = [op EXCEPT ![t] = NoValue]
    /\ GoTo(t, "out")
    /\ UNCHANGED <<redisVars, cached, gen, life, dropped, held, faults, crashes>>

(* CleanLockTask removes the lock object from the map... *)
CleanLock(j, k) == LET r == [key |-> k, gen |-> gen[j][k]] IN
    /\ k \in cached[j] /\ life[j][k] = 0
    /\ gen[j][k] < CleanLimit
    /\ cached' = [cached EXCEPT ![j] = @ \ {k}]
    /\ dropped' = [dropped EXCEPT ![j] = @ \cup {r}]
    /\ gen' = [gen EXCEPT ![j][k] = @ + 1]
    /\ UNCHANGED <<redisVars, life, taken, slot, pc, op, held, faults, crashes>>

(* ...and unlocks it: the task's own slot is empty, so redis is left alone, *)
(* but the permit is given back.                                           *)
UnlockDropped(j, r) ==
    /\ r \in dropped[j]
    /\ dropped' = [dropped EXCEPT ![j] = @ \ {r}]
    /\ taken' = [taken EXCEPT ![j] = @ \ {r}]
    /\ UNCHANGED <<redisVars, cached, gen, life, slot, pc, op, held, faults, crashes>>

Less(n) == IF n = 0 THEN 0 ELSE n - 1

(* Time passes: keys expire and lock objects grow old. *)
Tick ==
    /\ \/ \E k \in Key : ttl[k] > 0
       \/ \E j \in Jvm, k \in Key : life[j][k] > 0
    /\ ttl' = [k \in Key |-> Less(ttl[k])]
    /\ store' = [k \in Key |-> IF ttl[k] <= 1 THEN NoValue ELSE store[k]]
    /\ life' = [j \in Jvm |-> [k \in Key |-> Less(life[j][k])]]
    /\ lapsed' = lapsed \cup {x \in Thread \X Key : x[2] \in Keys(held[x[1]]) /\ ttl[x[2]] <= 1}
    /\ UNCHANGED <<cached, gen, taken, dropped, slot, pc, op, held, faults, crashes>>

(* A JVM stops: its keys stay in redis. *)
Crash(j) == LET gone == {t \in Thread : Home[t] = j} IN
    /\ crashes < CrashLimit /\ crashes' = crashes + 1
    /\ slot' = [t \in Thread |-> IF t \in gone THEN NoValue ELSE slot[t]]
    /\ pc' = [t \in Thread |-> IF t \in gone THEN "out" ELSE pc[t]]
    /\ held' = [t \in Thread |-> IF t \in gone THEN {} ELSE held[t]]
    /\ lapsed' = {x \in lapsed : x[1] \notin gone}
    /\ cached' = [cached EXCEPT ![j] = {}]
    /\ taken' = [taken EXCEPT ![j] = {}] /\ dropped' = [dropped EXCEPT ![j] = {}]
    /\ op' = [t \in Thread |-> IF t \in gone THEN NoValue ELSE op[t]]
    /\ life' = [life EXCEPT ![j] = [k \in Key |-> 0]]
    /\ UNCHANGED <<store, ttl, gen, faults>>

Inside(t) == TakePermit(t) \/ Attempt(t) \/ Retry(t) \/ Release(t)

Next ==
    \/ \E t \in Thread :
          \/ \E k \in Key, kind \in {"lock", "tryLock"} : GetLock(t, k, kind)
          \/ Inside(t) \/ SemaTimeout(t) \/ SemaInterrupted(t)
          \/ RetryInterrupted(t) \/ GiveUp(t)
          \/ \E r \in Ref : Unlock(t, r)
    \/ \E j \in Jvm :
          Crash(j) \/ (\E k \in Key : CleanLock(j, k)) \/ \E r \in Ref : UnlockDropped(j, r)
    \/ Tick

Spec == Init /\ [][Next]_lockVars

(* A thread inside lock, tryLock or unlock keeps running and the clock     *)
(* advances.  Nobody has to take a lock, or to let go of it.               *)
FairSpec ==
    /\ Spec
    /\ \A t \in Thread :
          /\ WF_lockVars(Inside(t))
          /\ WF_lockVars(\E r \in Ref : pc[t] = "failed" /\ Unlock(t, r))
    /\ WF_lockVars(Tick)

-------------------------------------------------------------------------------
Holds(t, k) == k \in Keys(held[t]) /\ <<t, k>> \notin lapsed

(* At most one thread of all JVMs holds a key it has not lost to expiry:   *)
(* no other thread's failed tryLock, late unlock or cleaning task takes it *)
(* away.                                                                   *)
MutualExclusion == \A t, u \in Thread, k \in Key : Holds(t, k) /\ Holds(u, k) => t = u

(* The threads and redis keep the contract of a lock whose grants lapse:   *)
(* a key goes from one thread to the next only by way of being free, and   *)
(* no unlock, be it late, after a failed tryLock or with the value of      *)
(* another lock, frees it under a thread that has it (the two scripts, and *)
(* GlobalLockValue, whose one slot a second lock overwrites).              *)
Contract == INSTANCE Lease WITH
    Process <- Thread,
    granted <- {x \in Thread \X Key : store[x[2]] # NoValue /\ store[x[2]][1] = x[1]},
    inside <- {x \in Thread \X Key : Holds(x[1], x[2])}

LeasesKept == Contract!Spec

(* The inductive form: a holder's key is in redis with the holder's value, *)
(* and a slot only has values its own thread made up.                      *)
Owned ==
    /\ \A t \in Thread, k \in Key : Holds(t, k) => store[k] \in {t} \X Serial
    /\ \A t \in Thread : slot[t] # NoValue => slot[t] \in {t} \X Serial
    /\ \A t \in Thread : pc[t] \in {"sema", "redis", "wait", "failed"} =>
                            op[t].ref.key \notin Keys(held[t])
    /\ \A t \in Thread : \A r, s \in held[t] : r.key = s.key => r = s

(* The key k is in redis with the value its holder remembers. *)
Kept(k) == \E t \in Thread : Holds(t, k) /\ store[k] = slot[t]

(* A key is left in redis without a holder who knows its value only by the *)
(* very step that fails: by the call whose answer is lost, the unlock that *)
(* does not reach redis, or the crash of the holder's JVM.  No order of    *)
(* other steps, nor a failure elsewhere or earlier, makes a thread forget  *)
(* a key (GlobalLock.lock, tryLock and unlock).                            *)
NoOrphan == [][\A k \in Key :
    store'[k] # NoValue /\ ~Kept(k)' /\ (store[k] # NoValue => Kept(k))
       => faults' + crashes' > faults + crashes]_lockVars

Claims(t, r) == r \in held[t] \/ (pc[t] # "out" /\ op[t].ref = r)

(* A permit that is out belongs to a call that will give it back: the      *)
(* repeated waiting of lock and the failures of tryLock leak none.         *)
PermitAccounted == \A j \in Jvm : \A r \in taken[j] : \E t \in Thread :
    Home[t] = j /\ Claims(t, r)

(* Whoever waits in lock sees the key change hands: neither the semaphore  *)
(* nor a key left behind by a crash or a failed call blocks it for good.   *)
Progress == \A t \in Thread, k \in Key :
    pc[t] \in {"sema", "redis", "wait"} /\ op[t].kind = "lock" /\ op[t].ref.key = k
       ~> pc[t] = "out" \/ \E u \in Thread : k \in Keys(held[u])

-------------------------------------------------------------------------------
(* What the comments say and the code does not do.                         *)

(* MAX_PERMITS, the local concurrency: one thread of a JVM at a time goes  *)
(* on to compete for the key.                                              *)
LocalLimit == \A t, u \in Thread :
    {pc[t], pc[u]} \subseteq {"redis", "wait"} /\ Home[t] = Home[u] /\ op[t].ref = op[u].ref
       => t = u

(* LOCK_EXPIRED, 15 minutes: a key is gone when aliveMill has passed. *)
GoneInTime == \A k \in Key : ttl[k] <= Alive
===============================================================================
