--------------------------- MODULE GlobalLockProofs ---------------------------
(***************************************************************************)
(* Mutual exclusion of the redis lock, for any number of threads, JVMs and *)
(* keys, nested locks included.  TypeOK and Owned are inductive: a holder  *)
(* that has not lost its key to expiry finds its own value in redis, and   *)
(* nobody else's slot can name that value.                                 *)
(***************************************************************************)
EXTENDS GlobalLock, TLAPS

(* What a step finds when it looks at the constants and at a lock object. *)
LEMMA TtlType == Ttl \in Nat \ {0} /\ Alive \in Nat \ {0}
  BY LockConstantsOK DEF Ttl

LEMMA CallType ==
    ASSUME TypeOK, NEW o \in Outcome, Call(o)
    PROVE  faults' \in 0..FaultLimit /\ crashes' \in 0..CrashLimit
  BY LockConstantsOK DEF TypeOK, Call, Fault

LEMMA NewValueType ==
    ASSUME NEW t \in Thread, NEW v \in NewValue(t)
    PROVE  v \in Value /\ v \in {t} \X Serial /\ v # NoValue
  BY LockConstantsOK DEF NewValue, Value

(* Every variable keeps its type. *)
THEOREM LockTypeCorrect == Spec => []TypeOK
  <1>1. Init => TypeOK
    <2> SUFFICES ASSUME Init PROVE TypeOK
      OBVIOUS
    <2>1. ttl \in [Key -> 0..Ttl] /\ gen \in [Jvm -> [Key -> 0..CleanLimit]]
          /\ life \in [Jvm -> [Key -> 0..Alive]]
      BY LockConstantsOK, TtlType DEF Init
    <2>2. held \in [Thread -> SUBSET Ref] /\ cached \in [Jvm -> SUBSET Key]
          /\ taken \in [Jvm -> SUBSET Ref] /\ dropped \in [Jvm -> SUBSET Ref]
      BY DEF Init
    <2>3. faults \in 0..FaultLimit /\ crashes \in 0..CrashLimit
      BY LockConstantsOK DEF Init
    <2>4. QED
      BY <2>1, <2>2, <2>3 DEF Init, TypeOK, Pc
  <1>2. TypeOK /\ [Next]_lockVars => TypeOK'
    <2> SUFFICES ASSUME TypeOK, [Next]_lockVars
                 PROVE  TypeOK'
      OBVIOUS
    <2> USE DEF GoTo, redisVars, localVars
    <2>1. ASSUME NEW t \in Thread, NEW k \in Key, NEW kind \in {"lock", "tryLock"},
                 GetLock(t, k, kind)
          PROVE  TypeOK'
      <3>1. Home[t] \in Jvm /\ Alive \in 0..Alive
        BY LockConstantsOK
      <3>2. [ref |-> [key |-> k, gen |-> gen[Home[t]][k]], kind |-> kind] \in Op
        BY <3>1 DEF TypeOK, Op, Ref
      <3>3. life' \in [Jvm -> [Key -> 0..Alive]]
        BY <2>1, <3>1 DEF GetLock, TypeOK
      <3>4. QED
        BY <2>1, <3>1, <3>2, <3>3 DEF GetLock, TypeOK, Pc
    <2>2. ASSUME NEW t \in Thread, TakePermit(t) \/ Retry(t) \/ Release(t)
          PROVE  TypeOK'
      <3>1. op[t] \in Op /\ op[t].ref \in Ref /\ Home[t] \in Jvm
        BY <2>2, LockConstantsOK DEF TakePermit, Retry, Release, TypeOK, Op
      <3>2. taken' \in [Jvm -> SUBSET Ref]
        <4>1. taken' = taken
              \/ taken' = [taken EXCEPT ![Home[t]] = @ \cup {op[t].ref}]
              \/ taken' = [taken EXCEPT ![Home[t]] = @ \ {op[t].ref}]
          BY <2>2 DEF TakePermit, Retry, Release
        <4>2. taken \in [Jvm -> SUBSET Ref]
          BY DEF TypeOK
        <4>3. \A S \in SUBSET Ref : [taken EXCEPT ![Home[t]] = S] \in [Jvm -> SUBSET Ref]
          BY <4>2
        <4>4. taken[Home[t]] \cup {op[t].ref} \in SUBSET Ref /\ taken[Home[t]] \ {op[t].ref} \in SUBSET Ref
          BY <3>1, <4>2
        <4>5. QED
          BY <4>1, <4>2, <4>3, <4>4
      <3>3. pc' \in [Thread -> Pc] /\ op' \in [Thread -> Op \cup {NoValue}]
            /\ slot' \in [Thread -> Value \cup {NoValue}]
        BY <2>2, <3>1 DEF TakePermit, Retry, Release, TypeOK, Pc
      <3>4. \A u \in Thread : pc'[u] # "out" => op'[u] \in Op
        BY <2>2, <3>1 DEF TakePermit, Retry, Release, TypeOK
      <3>5. QED
        BY <2>2, <3>2, <3>3, <3>4 DEF TakePermit, Retry, Release, TypeOK
    <2>3. ASSUME NEW t \in Thread,
                 SemaTimeout(t) \/ SemaInterrupted(t) \/ RetryInterrupted(t) \/ GiveUp(t)
          PROVE  TypeOK'
      <3>1. faults' \in 0..FaultLimit /\ crashes' \in 0..CrashLimit
        BY <2>3, LockConstantsOK DEF SemaTimeout, SemaInterrupted, RetryInterrupted, GiveUp, Fault, TypeOK
      <3>2. pc' \in [Thread -> Pc] /\ \A u \in Thread : pc'[u] # "out" => op'[u] \in Op
        BY <2>3 DEF SemaTimeout, SemaInterrupted, RetryInterrupted, GiveUp, TypeOK, Pc
      <3>3. QED
        BY <2>3, <3>1, <3>2 DEF SemaTimeout, SemaInterrupted, RetryInterrupted, GiveUp, TypeOK
    <2>4. ASSUME NEW t \in Thread, Attempt(t)
          PROVE  TypeOK'
      <3>1. PICK o \in Outcome, v \in NewValue(t) : Attempt(t)!(o, v)
        BY <2>4 DEF Attempt
      <3>2. op[t] \in Op /\ op[t].ref \in Ref /\ op[t].ref.key \in Key /\ v \in Value
        <4>1. op[t] \in Op
          BY <3>1 DEF TypeOK
        <4>2. v \in Value
          BY NewValueType
        <4>3. QED
          BY <4>1, <4>2 DEF Op, Ref
      <3>3. store' \in [Key -> Value \cup {NoValue}] /\ ttl' \in [Key -> 0..Ttl]
        <4> DEFINE k == op[t].ref.key
        <4>1. \/ UNCHANGED <<store, ttl>>
              \/ store' = [store EXCEPT ![k] = v] /\ ttl' = [ttl EXCEPT ![k] = Ttl]
          BY <3>1 DEF SetNx
        <4>2. k \in Key /\ v \in Value /\ Ttl \in 0..Ttl
          BY <3>2, TtlType
        <4> HIDE DEF k
        <4>3. QED
          BY <4>1, <4>2 DEF TypeOK
      <3>4. faults' \in 0..FaultLimit /\ crashes' \in 0..CrashLimit
        BY <3>1, CallType
      <3>5. held' \in [Thread -> SUBSET Ref] /\ slot' \in [Thread -> Value \cup {NoValue}]
        BY <3>1, <3>2 DEF TypeOK
      <3>6. op' \in [Thread -> Op \cup {NoValue}] /\ pc' \in [Thread -> Pc]
        BY <3>1, <3>2 DEF TypeOK, Pc
      <3>7. \A u \in Thread : pc'[u] # "out" => op'[u] \in Op
        BY <3>1, <3>2 DEF TypeOK
      <3>8. QED
        BY <3>1, <3>3, <3>4, <3>5, <3>6, <3>7 DEF TypeOK
    <2>5. ASSUME NEW t \in Thread, NEW r \in Ref, Unlock(t, r)
          PROVE  TypeOK'
      <3>1. PICK o \in Outcome : Unlock(t, r)!(o)
        BY <2>5 DEF Unlock
      <3>2. store' \in [Key -> Value \cup {NoValue}] /\ ttl' \in [Key -> 0..Ttl]
        <4>1. 0 \in 0..Ttl
          BY LockConstantsOK DEF Ttl
        <4>2. QED
          BY <3>1, <4>1 DEF CompareAndDelete, TypeOK
      <3>3. faults' \in 0..FaultLimit /\ crashes' \in 0..CrashLimit
        BY <3>1, CallType DEF TypeOK
      <3>4. [ref |-> r, kind |-> "tryLock"] \in Op
        BY DEF Op
      <3>5. QED
        BY <3>1, <3>2, <3>3, <3>4 DEF TypeOK, Pc
    <2>6. ASSUME NEW j \in Jvm, NEW k \in Key, CleanLock(j, k)
          PROVE  TypeOK'
      <3>1. gen' \in [Jvm -> [Key -> 0..CleanLimit]]
        BY <2>6, LockConstantsOK DEF CleanLock, TypeOK
      <3>2. [key |-> k, gen |-> gen[j][k]] \in Ref
        BY DEF Ref, TypeOK
      <3>3. dropped' \in [Jvm -> SUBSET Ref]
        <4> DEFINE S == dropped[j] \cup {[key |-> k, gen |-> gen[j][k]]}
        <4>1. dropped' = [dropped EXCEPT ![j] = S]
          BY <2>6 DEF CleanLock
        <4>2. S \in SUBSET Ref
          BY <3>2 DEF TypeOK
        <4> HIDE DEF S
        <4>3. QED
          BY <4>1, <4>2 DEF TypeOK
      <3>4. cached' \in [Jvm -> SUBSET Key]
        BY <2>6 DEF CleanLock, TypeOK
      <3>5. QED
        BY <2>6, <3>1, <3>3, <3>4 DEF CleanLock, TypeOK
    <2>7. CASE Tick
      <3>1. ttl' \in [Key -> 0..Ttl] /\ life' \in [Jvm -> [Key -> 0..Alive]]
        BY <2>7, TtlType DEF Tick, Less, TypeOK
      <3>2. QED
        BY <2>7, <3>1 DEF Tick, TypeOK
    <2>8. ASSUME NEW j \in Jvm, Crash(j)
          PROVE  TypeOK'
      <3>1. crashes' \in 0..CrashLimit /\ 0 \in 0..Alive
        BY <2>8, LockConstantsOK DEF Crash, TypeOK
      <3>2. QED
        BY <2>8, <3>1 DEF Crash, TypeOK, Pc
    <2>9. ASSUME NEW j \in Jvm, NEW r \in Ref, UnlockDropped(j, r)
          PROVE  TypeOK'
      BY <2>9 DEF UnlockDropped, TypeOK
    <2>10. CASE UNCHANGED lockVars
      BY <2>10 DEF lockVars, TypeOK
    <2>11. QED
      BY <2>1, <2>2, <2>3, <2>4, <2>5, <2>6, <2>7, <2>8, <2>9, <2>10 DEF Next, Inside
  <1>3. QED
    BY <1>1, <1>2, PTL DEF Spec

-------------------------------------------------------------------------------

(* A step that leaves redis, the slots and the holdings alone. *)
LEMMA WaitingStep ==
    ASSUME Owned, UNCHANGED <<store, slot, held, lapsed>>,
           \A u \in Thread : pc'[u] \in {"sema", "redis", "wait", "failed"} =>
              op'[u].ref.key \notin Keys(held[u])
    PROVE  Owned'
  BY DEF Owned, Holds

(* The script sets the key for t, if nobody has it. *)
LEMMA AttemptOwned ==
    ASSUME TypeOK, Owned, NEW t \in Thread, Attempt(t)
    PROVE  Owned'
  <1>1. PICK o \in Outcome, v \in NewValue(t) : Attempt(t)!(o, v)
    BY DEF Attempt
  <1> DEFINE r == op[t].ref
             won == o = "ok" /\ store[r.key] = NoValue
  <1>2. r.key \in Key /\ r.key \notin Keys(held[t]) /\ v \in {t} \X Serial
    BY <1>1, NewValueType DEF TypeOK, Op, Ref, Owned
  <1>3. \A k \in Key : store[k] # NoValue => store'[k] = store[k]
    BY <1>1, <1>2 DEF SetNx, TypeOK
  <1>4. \A u \in Thread : slot'[u] # NoValue => slot'[u] \in {u} \X Serial
    BY <1>1, <1>2 DEF Owned, TypeOK
  <1>5. UNCHANGED lapsed /\ \A u \in Thread : u # t => UNCHANGED <<held[u], pc[u], op[u]>>
    BY <1>1 DEF GoTo, TypeOK
  <1>6. CASE won
    <2>1. held'[t] = held[t] \cup {r} /\ store'[r.key] = v /\ pc'[t] = "out"
      BY <1>1, <1>2, <1>6 DEF SetNx, Applied, GoTo, TypeOK
    <2>2. Keys(held'[t]) = Keys(held[t]) \cup {r.key}
      BY <2>1 DEF Keys
    <2>3. \A u \in Thread, k \in Key : Holds(u, k)' => Holds(u, k) \/ (u = t /\ k = r.key)
      BY <1>5, <2>2 DEF Holds
    <2>4. \A u \in Thread, k \in Key : Holds(u, k) => store'[k] \in {u} \X Serial
      BY <1>3, LockConstantsOK DEF Owned
    <2>5. \A x, y \in held'[t] : x.key = y.key => x = y
      BY <1>2, <2>1 DEF Owned, Keys
    <2>6. \A u \in Thread, k \in Key : Holds(u, k)' => store'[k] \in {u} \X Serial
      BY <1>2, <2>1, <2>3, <2>4
    <2>7. \A u \in Thread : pc'[u] \in {"sema", "redis", "wait", "failed"} =>
             op'[u].ref.key \notin Keys(held'[u])
      BY <1>5, <2>1 DEF Owned
    <2>8. \A u \in Thread : \A x, y \in held'[u] : x.key = y.key => x = y
      BY <1>5, <2>5 DEF Owned
    <2>9. QED
      BY <1>4, <2>6, <2>7, <2>8 DEF Owned
  <1>7. CASE ~won
    <2>1. held' = held /\ op' = op /\ pc' = [pc EXCEPT ![t] = "wait"]
      BY <1>1, <1>7 DEF GoTo
    <2>2. \A u \in Thread, k \in Key : Holds(u, k)' => store'[k] \in {u} \X Serial
      BY <1>3, <1>5, <2>1, LockConstantsOK DEF Owned, Holds
    <2>3. \A u \in Thread : pc'[u] \in {"sema", "redis", "wait", "failed"} =>
             op'[u].ref.key \notin Keys(held'[u])
      BY <1>1, <1>2, <2>1 DEF Owned, TypeOK
    <2>4. QED
      BY <1>4, <2>1, <2>2, <2>3 DEF Owned
  <1>8. QED
    BY <1>6, <1>7

(* The script deletes a value of t's own, so no other holder's. *)
LEMMA UnlockOwned ==
    ASSUME TypeOK, Owned, NEW t \in Thread, NEW r \in Ref, Unlock(t, r)
    PROVE  Owned'
  <1>1. PICK o \in Outcome : Unlock(t, r)!(o)
    BY DEF Unlock
  <1>2. r.key \in Key /\ r.key \notin Keys(held[t] \ {r})
    BY <1>1 DEF Owned, Keys, Ref
  <1>3. /\ held'[t] = held[t] \ {r} /\ UNCHANGED slot /\ pc'[t] = "release"
        /\ \A u \in Thread : u # t => UNCHANGED <<held[u], pc[u], op[u]>>
    BY <1>1 DEF GoTo, TypeOK
  <1>4. \A u \in Thread, k \in Key : Holds(u, k)' => Holds(u, k) /\ <<u, k>> # <<t, r.key>>
    BY <1>1, <1>2, <1>3 DEF Holds, Keys
  <1>5. \A k \in Key : store'[k] = store[k] \/ (k = r.key /\ slot[t] # NoValue /\ store[k] = slot[t])
    BY <1>1, <1>2 DEF CompareAndDelete, TypeOK
  <1>6. \A u \in Thread, k \in Key : Holds(u, k)' => store'[k] \in {u} \X Serial
    BY <1>4, <1>5 DEF Owned
  <1>7. \A u \in Thread : Keys(held'[u]) \subseteq Keys(held[u])
    BY <1>3 DEF Keys
  <1>8. QED
    BY <1>3, <1>6, <1>7 DEF Owned

LEMMA OwnedStep ==
    ASSUME TypeOK, Owned, [Next]_lockVars
    PROVE  Owned'
  <1> USE DEF GoTo, redisVars, localVars
  <1>1. ASSUME NEW t \in Thread, NEW k \in Key, NEW kind \in {"lock", "tryLock"},
               GetLock(t, k, kind)
        PROVE  Owned'
    <2>1. op'[t].ref.key = k /\ \A u \in Thread : u # t => UNCHANGED <<pc[u], op[u]>>
      BY <1>1 DEF GetLock, TypeOK
    <2>2. k \notin Keys(held[t]) /\ UNCHANGED <<store, slot, held, lapsed>>
      BY <1>1 DEF GetLock
    <2>3. QED
      BY <2>1, <2>2, WaitingStep DEF Owned
  <1>2. ASSUME NEW t \in Thread,
               \/ TakePermit(t) \/ Retry(t) \/ RetryInterrupted(t)
               \/ SemaTimeout(t) \/ SemaInterrupted(t) \/ GiveUp(t)
        PROVE  Owned'
    <2>1. /\ UNCHANGED <<store, slot, held, lapsed, op>> /\ pc[t] \in {"sema", "wait"}
          /\ \A u \in Thread : u # t => UNCHANGED pc[u]
      BY <1>2 DEF TakePermit, Retry, RetryInterrupted, SemaTimeout, SemaInterrupted, GiveUp,
                  TypeOK
    <2>2. QED
      BY <2>1, WaitingStep DEF Owned
  <1>3. ASSUME NEW t \in Thread, Release(t)
        PROVE  Owned'
    <2>1. /\ UNCHANGED <<store, held, lapsed>> /\ pc'[t] = "out" /\ slot'[t] = NoValue
          /\ \A u \in Thread : u # t => UNCHANGED <<pc[u], op[u], slot[u]>>
      BY <1>3 DEF Release, TypeOK
    <2>2. QED
      BY <2>1 DEF Owned, Holds
  <1>4. ASSUME NEW j \in Jvm, NEW k \in Key, CleanLock(j, k)
        PROVE  Owned'
    BY <1>4, WaitingStep DEF CleanLock, Owned
  <1>4a. ASSUME NEW j \in Jvm, NEW r \in Ref, UnlockDropped(j, r)
        PROVE  Owned'
    BY <1>4a, WaitingStep DEF UnlockDropped, Owned
  <1>5. CASE Tick
    <2>1. UNCHANGED <<slot, pc, op, held>>
      BY <1>5 DEF Tick
    <2>2. \A u \in Thread, k \in Key : Holds(u, k)' => Holds(u, k) /\ store'[k] = store[k]
      BY <1>5, <2>1 DEF Tick, Holds, TypeOK
    <2>3. QED
      BY <2>1, <2>2 DEF Owned
  <1>6. ASSUME NEW j \in Jvm, Crash(j)
        PROVE  Owned'
    <2>1. UNCHANGED store /\ \A u \in Thread :
             \/ UNCHANGED <<slot[u], pc[u], op[u], held[u]>>
             \/ slot'[u] = NoValue /\ pc'[u] = "out" /\ held'[u] = {}
      BY <1>6 DEF Crash, TypeOK
    <2>2. \A u \in Thread, k \in Key : Holds(u, k)' => Holds(u, k)
      BY <1>6 DEF Crash, Holds, Keys, TypeOK
    <2>3. QED
      BY <2>1, <2>2 DEF Owned
  <1>7. CASE UNCHANGED lockVars
    BY <1>7, WaitingStep DEF lockVars, Owned
  <1>8. QED
    BY <1>1, <1>2, <1>3, <1>4, <1>5, <1>6, <1>7, <1>4a, AttemptOwned, UnlockOwned DEF Next, Inside

(* No two threads hold a key that neither has lost to expiry. *)
THEOREM LockExcludes == Spec => []MutualExclusion
  <1>1. Init => Owned
    BY DEF Init, Owned, Holds, Keys
  <1>2. TypeOK /\ Owned /\ [Next]_lockVars => Owned'
    BY OwnedStep
  <1>3. Owned => MutualExclusion
    BY LockConstantsOK DEF Owned, MutualExclusion
  <1>4. QED
    BY <1>1, <1>2, <1>3, LockTypeCorrect, PTL DEF Spec

-------------------------------------------------------------------------------

(* A thread gives up its claim on a lock object only by giving the permit  *)
(* back, and a permit is only taken with a claim.                          *)
LEMMA ClaimStep ==
    ASSUME TypeOK, [Next]_lockVars, NEW r \in Ref
    PROVE  /\ \A t \in Thread : Claims(t, r) => Claims(t, r)' \/ r \notin taken'[Home[t]]
           /\ \A j \in Jvm : r \in taken'[j] =>
                 r \in taken[j] \/ \E u \in Thread : Home[u] = j /\ Claims(u, r)'
  <1> DEFINE Goal == /\ \A t \in Thread : Claims(t, r) => Claims(t, r)' \/ r \notin taken'[Home[t]]
                     /\ \A j \in Jvm : r \in taken'[j] =>
                           r \in taken[j] \/ \E u \in Thread : Home[u] = j /\ Claims(u, r)'
  <1> USE DEF GoTo, redisVars, localVars, Claims
  <1>1. ASSUME NEW u \in Thread, NEW k \in Key, NEW kind \in {"lock", "tryLock"},
               GetLock(u, k, kind)
        PROVE  Goal
    BY <1>1 DEF GetLock, TypeOK
  <1>2. ASSUME NEW u \in Thread, TakePermit(u) \/ Retry(u)
        PROVE  Goal
    <2>1. /\ UNCHANGED <<held, op>> /\ pc[u] # "out" /\ pc' = [pc EXCEPT ![u] = "redis"]
          /\ \A j \in Jvm : taken'[j] = taken[j] \/ (j = Home[u] /\ taken'[j] = taken[j] \cup {op[u].ref})
      BY <1>2 DEF TakePermit, Retry, TypeOK
    <2>2. \A t \in Thread : pc[t] # "out" => pc'[t] # "out"
      BY <2>1 DEF TypeOK
    <2>3. pc'[u] # "out"
      BY <2>1, <2>2
    <2>4. \A j \in Jvm : r \in taken'[j] => r \in taken[j] \/ (j = Home[u] /\ op'[u].ref = r)
      BY <2>1
    <2>5. QED
      BY <2>1, <2>2, <2>3, <2>4
  <1>3. ASSUME NEW u \in Thread,
               SemaTimeout(u) \/ SemaInterrupted(u) \/ RetryInterrupted(u) \/ GiveUp(u)
        PROVE  Goal
    BY <1>3 DEF SemaTimeout, SemaInterrupted, RetryInterrupted, GiveUp, TypeOK
  <1>4. ASSUME NEW u \in Thread, Attempt(u)
        PROVE  Goal
    <2>1. PICK o \in Outcome, v \in NewValue(u) : Attempt(u)!(o, v)
      BY <1>4 DEF Attempt
    <2>2. UNCHANGED taken /\ \A x \in Thread : x # u => UNCHANGED <<held[x], pc[x], op[x]>>
      BY <2>1 DEF TypeOK
    <2>3. \/ held'[u] = held[u] \cup {op[u].ref}
          \/ UNCHANGED <<held, op>> /\ pc'[u] = "wait"
      BY <2>1 DEF TypeOK
    <2>4. \A t \in Thread : Claims(t, r) => Claims(t, r)'
      <3>1. pc[u] # "out" => op[u].ref \in held'[u] \/ (pc'[u] # "out" /\ op'[u] = op[u])
        BY <2>3
      <3>2. held[u] \subseteq held'[u] /\ pc[u] # "out"
        BY <2>1, <2>3
      <3>3. Claims(u, r) => Claims(u, r)'
        BY <3>1, <3>2
      <3>4. QED
        BY <2>2, <3>3
    <2>5. QED
      BY <2>2, <2>4
  <1>5. ASSUME NEW u \in Thread, NEW s \in Ref, Unlock(u, s)
        PROVE  Goal
    <2>1. PICK o \in Outcome : Unlock(u, s)!(o)
      BY <1>5 DEF Unlock
    <2>2. UNCHANGED taken /\ \A x \in Thread : x # u => UNCHANGED <<held[x], pc[x], op[x]>>
      BY <2>1 DEF TypeOK
    <2>3. held'[u] = held[u] \ {s} /\ pc'[u] = "release" /\ op'[u].ref = s
      BY <2>1 DEF TypeOK
    <2>4. QED
      BY <2>1, <2>2, <2>3
  <1>6. ASSUME NEW u \in Thread, Release(u)
        PROVE  Goal
    <2>1. UNCHANGED held /\ \A x \in Thread : x # u => UNCHANGED <<pc[x], op[x]>>
      BY <1>6 DEF Release, TypeOK
    <2>2. taken' = [taken EXCEPT ![Home[u]] = @ \ {op[u].ref}] /\ Home[u] \in Jvm
      BY <1>6, LockConstantsOK DEF Release
    <2>3. QED
      BY <2>1, <2>2 DEF TypeOK
  <1>7. ASSUME NEW j \in Jvm, NEW k \in Key, CleanLock(j, k)
        PROVE  Goal
    BY <1>7 DEF CleanLock, TypeOK
  <1>7a. ASSUME NEW j \in Jvm, NEW s \in Ref, UnlockDropped(j, s)
        PROVE  Goal
    BY <1>7a DEF UnlockDropped, TypeOK
  <1>8. ASSUME NEW j \in Jvm, Crash(j)
        PROVE  Goal
    BY <1>8 DEF Crash, TypeOK
  <1>9. CASE Tick \/ UNCHANGED lockVars
    BY <1>9 DEF Tick, lockVars
  <1>10. QED
    BY <1>1, <1>2, <1>3, <1>4, <1>5, <1>6, <1>7, <1>8, <1>9, <1>7a DEF Next, Inside

(* No permit is leaked. *)
THEOREM PermitsReturn == Spec => []PermitAccounted
  <1>1. Init => PermitAccounted
    BY DEF Init, PermitAccounted
  <1>2. TypeOK /\ TypeOK' /\ PermitAccounted /\ [Next]_lockVars => PermitAccounted'
    <2> SUFFICES ASSUME TypeOK, TypeOK', PermitAccounted, [Next]_lockVars,
                        NEW j \in Jvm, NEW r \in taken'[j]
                 PROVE  \E t \in Thread : Home[t] = j /\ Claims(t, r)'
      BY DEF PermitAccounted
    <2>1. r \in Ref
      BY DEF TypeOK
    <2>2. CASE r \in taken[j]
      <3>1. PICK t \in Thread : Home[t] = j /\ Claims(t, r)
        BY <2>2 DEF PermitAccounted
      <3>2. QED
        BY <2>1, <3>1, ClaimStep
    <2>3. CASE r \notin taken[j]
      BY <2>1, <2>3, ClaimStep
    <2>4. QED
      BY <2>2, <2>3
  <1>3. QED
    BY <1>1, <1>2, LockTypeCorrect, PTL DEF Spec

-------------------------------------------------------------------------------

(* Where locks are not nested a thread is inside a call or holds one lock, *)
(* and only what it holds can have lapsed.                                 *)
OneAtATime ==
    /\ \A t \in Thread : pc[t] # "out" => held[t] = {}
    /\ \A t \in Thread : \A r, s \in held[t] : r = s
    /\ \A x \in lapsed : x[2] \in Keys(held[x[1]])

LEMMA OneAtATimeStep ==
    ASSUME ~Nested, TypeOK, OneAtATime, [Next]_lockVars
    PROVE  OneAtATime'
  <1> USE DEF GoTo, redisVars, localVars
  <1>1. ASSUME NEW t \in Thread, NEW k \in Key, NEW kind \in {"lock", "tryLock"},
               GetLock(t, k, kind)
        PROVE  OneAtATime'
    BY <1>1 DEF GetLock, OneAtATime, TypeOK
  <1>2. ASSUME NEW t \in Thread,
               \/ TakePermit(t) \/ Retry(t) \/ RetryInterrupted(t) \/ Release(t)
               \/ SemaTimeout(t) \/ SemaInterrupted(t) \/ GiveUp(t)
        PROVE  OneAtATime'
    <2>1. /\ UNCHANGED <<held, lapsed>> /\ pc[t] # "out"
          /\ \A u \in Thread : u # t => UNCHANGED pc[u]
      BY <1>2 DEF TakePermit, Retry, RetryInterrupted, Release, SemaTimeout, SemaInterrupted,
                  GiveUp, TypeOK
    <2>2. QED
      BY <2>1 DEF OneAtATime
  <1>3. ASSUME NEW t \in Thread, Attempt(t)
        PROVE  OneAtATime'
    <2>1. PICK o \in Outcome, v \in NewValue(t) : Attempt(t)!(o, v)
      BY <1>3 DEF Attempt
    <2>2. held[t] = {} /\ UNCHANGED lapsed
      BY <2>1 DEF OneAtATime
    <2>3. \A u \in Thread : u # t => UNCHANGED <<held[u], pc[u]>>
      BY <2>1 DEF TypeOK
    <2>4. \/ held'[t] = {op[t].ref} /\ pc'[t] = "out"
          \/ held'[t] = {}
      BY <2>1, <2>2 DEF TypeOK
    <2>5. \A x \in lapsed' : x[2] \in Keys(held'[x[1]])
      <3> SUFFICES ASSUME NEW x \in lapsed PROVE x[2] \in Keys(held'[x[1]])
        BY <2>2
      <3>1. x[1] \in Thread /\ x[2] \in Keys(held[x[1]])
        BY DEF TypeOK, OneAtATime
      <3>2. x[1] # t
        BY <2>2, <3>1 DEF Keys
      <3>3. QED
        BY <2>3, <3>1, <3>2
    <2>6. QED
      BY <2>3, <2>4, <2>5 DEF OneAtATime
  <1>4. ASSUME NEW t \in Thread, NEW r \in Ref, Unlock(t, r)
        PROVE  OneAtATime'
    <2>1. PICK o \in Outcome : Unlock(t, r)!(o)
      BY <1>4 DEF Unlock
    <2>2. held[t] \subseteq {r} /\ held'[t] = {} /\ lapsed' = lapsed \ {<<t, r.key>>}
      BY <2>1 DEF OneAtATime, TypeOK
    <2>3. \A u \in Thread : u # t => UNCHANGED <<held[u], pc[u]>>
      BY <2>1 DEF TypeOK
    <2>4. \A x \in lapsed' : x[2] \in Keys(held'[x[1]])
      <3> SUFFICES ASSUME NEW x \in lapsed, x # <<t, r.key>>
                   PROVE  x[2] \in Keys(held'[x[1]])
        BY <2>2
      <3>1. x[1] \in Thread /\ x = <<x[1], x[2]>> /\ x[2] \in Keys(held[x[1]])
        BY DEF TypeOK, OneAtATime
      <3>2. x[1] # t
        BY <2>2, <3>1 DEF Keys
      <3>3. QED
        BY <2>3, <3>1, <3>2
    <2>5. QED
      BY <2>2, <2>3, <2>4 DEF OneAtATime
  <1>5. ASSUME NEW j \in Jvm, NEW k \in Key, CleanLock(j, k)
        PROVE  OneAtATime'
    BY <1>5 DEF CleanLock, OneAtATime
  <1>5a. ASSUME NEW j \in Jvm, NEW r \in Ref, UnlockDropped(j, r)
        PROVE  OneAtATime'
    BY <1>5a DEF UnlockDropped, OneAtATime
  <1>6. CASE Tick
    BY <1>6 DEF Tick, OneAtATime, TypeOK
  <1>7. ASSUME NEW j \in Jvm, Crash(j)
        PROVE  OneAtATime'
    <2>1. \A u \in Thread :
             \/ Home[u] # j /\ UNCHANGED <<pc[u], held[u]>>
             \/ Home[u] = j /\ pc'[u] = "out" /\ held'[u] = {}
      BY <1>7 DEF Crash, TypeOK
    <2>2. \A x \in lapsed' : x \in lapsed /\ x[1] \in Thread /\ Home[x[1]] # j
      BY <1>7 DEF Crash, TypeOK
    <2>3. QED
      BY <2>1, <2>2 DEF OneAtATime
  <1>8. CASE UNCHANGED lockVars
    BY <1>8 DEF lockVars, OneAtATime
  <1>9. QED
    BY <1>1, <1>2, <1>3, <1>4, <1>5, <1>6, <1>7, <1>8, <1>5a DEF Next, Inside

(* A step that does not fail itself empties a key or leaves it with a      *)
(* holder, whatever has failed before it.                                  *)
LEMMA KeptStep ==
    ASSUME ~Nested, TypeOK, OneAtATime, [Next]_lockVars,
           ~(faults' + crashes' > faults + crashes),
           NEW k \in Key, store[k] # NoValue => Kept(k), store'[k] # NoValue
    PROVE  Kept(k)'
  <1> USE DEF GoTo, redisVars, localVars
  <1>1. UNCHANGED <<faults, crashes>>
    <2>1. faults \in Nat /\ crashes \in Nat
      BY LockConstantsOK DEF TypeOK
    <2>2. \/ UNCHANGED <<faults, crashes>>
          \/ faults' = faults + 1 /\ crashes' = crashes
          \/ faults' = faults /\ crashes' = crashes + 1
      <3>1. ASSUME NEW t \in Thread, Attempt(t)
            PROVE  UNCHANGED <<faults, crashes>> \/ (faults' = faults + 1 /\ crashes' = crashes)
        BY <3>1 DEF Attempt, Call, Fault
      <3>2. ASSUME NEW t \in Thread, NEW r \in Ref, Unlock(t, r)
            PROVE  UNCHANGED <<faults, crashes>> \/ (faults' = faults + 1 /\ crashes' = crashes)
        BY <3>2 DEF Unlock, Call, Fault
      <3>3. QED
        BY <3>1, <3>2 DEF Next, Inside, GetLock, TakePermit, Retry, Release, SemaTimeout,
                          SemaInterrupted, RetryInterrupted, Fault, GiveUp, CleanLock,
                          UnlockDropped, Tick, Crash, lockVars
    <2> HIDE DEF GoTo, redisVars, localVars
    <2>3. ASSUME NEW a \in Nat, NEW b \in Nat PROVE a + 1 + b > a + b /\ a + (b + 1) > a + b
      OBVIOUS
    <2>4. QED
      BY <2>1, <2>2, <2>3
  <1>2. store[k] # NoValue => Kept(k)
    OBVIOUS
  <1>3. ASSUME UNCHANGED <<store, slot, held, lapsed>>
        PROVE  Kept(k)'
    BY <1>2, <1>3 DEF Kept, Holds
  <1>4. ASSUME NEW t \in Thread, Attempt(t)
        PROVE  Kept(k)'
    <2>1. PICK o \in Outcome, v \in NewValue(t) : Attempt(t)!(o, v)
      BY <1>4 DEF Attempt
    <2>2. o = "ok"
      BY <1>1, <2>1, LockConstantsOK DEF Call, Fault, TypeOK
    <2>3. held[t] = {} /\ op[t].ref.key \in Key /\ UNCHANGED lapsed
      BY <2>1 DEF OneAtATime, TypeOK, Op, Ref
    <2>4. CASE store[op[t].ref.key] # NoValue
      BY <1>3, <2>1, <2>2, <2>4 DEF SetNx, Applied
    <2>5. CASE store[op[t].ref.key] = NoValue /\ k = op[t].ref.key
      <3>1. store'[k] = v /\ slot'[t] = v /\ held'[t] = {op[t].ref}
        BY <2>1, <2>2, <2>3, <2>5 DEF SetNx, Applied, TypeOK
      <3>2. k \in Keys(held'[t])
        BY <2>5, <3>1 DEF Keys
      <3>3. <<t, k>> \notin lapsed'
        BY <2>3 DEF OneAtATime, Keys
      <3>4. QED
        BY <3>1, <3>2, <3>3 DEF Kept, Holds
    <2>6. CASE store[op[t].ref.key] = NoValue /\ k # op[t].ref.key
      <3>1. store'[k] = store[k]
        BY <2>1, <2>2, <2>6 DEF SetNx, Applied, TypeOK
      <3>2. PICK u \in Thread : Holds(u, k) /\ store[k] = slot[u]
        BY <1>2, <3>1 DEF Kept
      <3>3. u # t
        BY <2>3, <3>2 DEF Holds, Keys
      <3>4. held'[u] = held[u] /\ slot'[u] = slot[u]
        BY <2>1, <3>3 DEF TypeOK
      <3>5. QED
        BY <2>3, <3>1, <3>2, <3>4 DEF Kept, Holds
    <2>7. QED
      BY <2>4, <2>5, <2>6
  <1>5. ASSUME NEW t \in Thread, NEW r \in Ref, Unlock(t, r)
        PROVE  Kept(k)'
    <2>1. PICK o \in Outcome : Unlock(t, r)!(o)
      BY <1>5 DEF Unlock
    <2>2. slot[t] # NoValue => o = "ok"
      BY <1>1, <2>1, LockConstantsOK DEF Call, Fault, TypeOK
    <2>3. store'[k] = store[k]
      BY <2>1 DEF CompareAndDelete, TypeOK
    <2>4. PICK u \in Thread : Holds(u, k) /\ store[k] = slot[u]
      BY <1>2, <2>3 DEF Kept
    <2>5. ASSUME u = t PROVE FALSE
      <3>1. k = r.key
        BY <2>1, <2>4, <2>5 DEF Holds, Keys, OneAtATime
      <3>2. slot[t] # NoValue /\ store[r.key] = slot[t]
        BY <2>3, <2>4, <2>5, <3>1
      <3>3. QED
        BY <2>1, <2>2, <3>1, <3>2 DEF CompareAndDelete, Applied, TypeOK
    <2>6. held'[u] = held[u] /\ slot' = slot /\ <<u, k>> \notin lapsed'
      BY <2>1, <2>4, <2>5 DEF Holds, TypeOK
    <2>7. QED
      BY <2>3, <2>4, <2>6 DEF Kept, Holds
  <1>6. ASSUME NEW t \in Thread, Release(t)
        PROVE  Kept(k)'
    <2>1. UNCHANGED <<store, held, lapsed>> /\ held[t] = {}
          /\ \A u \in Thread : u # t => slot'[u] = slot[u]
      BY <1>6 DEF Release, OneAtATime, TypeOK
    <2>2. PICK u \in Thread : Holds(u, k) /\ store[k] = slot[u]
      BY <1>2, <2>1 DEF Kept
    <2>3. u # t
      BY <2>1, <2>2 DEF Holds, Keys
    <2>4. QED
      BY <2>1, <2>2, <2>3 DEF Kept, Holds
  <1>7. CASE Tick
    <2>1. ~(ttl[k] <= 1) /\ store'[k] = store[k] /\ UNCHANGED <<slot, held>>
      BY <1>7 DEF Tick
    <2>2. PICK u \in Thread : Holds(u, k) /\ store[k] = slot[u]
      BY <1>2, <2>1 DEF Kept
    <2>3. <<u, k>> \notin lapsed'
      BY <1>7, <2>1, <2>2 DEF Tick, Holds
    <2>4. QED
      BY <2>1, <2>2, <2>3 DEF Kept, Holds
  <1>8. ASSUME NEW j \in Jvm PROVE ~Crash(j)
    BY <1>1, LockConstantsOK DEF Crash, TypeOK
  <1>9. QED
    BY <1>3, <1>4, <1>5, <1>6, <1>7, <1>8
       DEF Next, Inside, GetLock, TakePermit, Retry, SemaTimeout, SemaInterrupted,
           RetryInterrupted, GiveUp, CleanLock, UnlockDropped, lockVars

(* Where locks are not nested no order of steps makes a thread forget a    *)
(* key: only the call that fails, or the crash of the holder's JVM, leaves *)
(* one behind.                                                             *)
THEOREM NothingForgotten ==
    ASSUME ~Nested
    PROVE  Spec => NoOrphan
  <1>1. Init => OneAtATime
    BY DEF Init, OneAtATime
  <1>2. TypeOK /\ OneAtATime /\ [Next]_lockVars => OneAtATime'
    BY OneAtATimeStep
  <1>3. TypeOK /\ OneAtATime /\ [Next]_lockVars =>
           [\A k \in Key :
              store'[k] # NoValue /\ ~Kept(k)' /\ (store[k] # NoValue => Kept(k))
                 => faults' + crashes' > faults + crashes]_lockVars
    BY KeptStep
  <1>4. QED
    BY <1>1, <1>2, <1>3, LockTypeCorrect, PTL DEF Spec, NoOrphan

-------------------------------------------------------------------------------
(* The contract of Lease: the pairs it is about, and how a step moves them. *)

Granted == {x \in Thread \X Key : store[x[2]] # NoValue /\ store[x[2]][1] = x[1]}

Relied == {x \in Thread \X Key : Holds(x[1], x[2])}

LEMMA PairsOf ==
    ASSUME NEW u \in Thread, NEW k \in Key
    PROVE  /\ <<u, k>> \in Granted <=> store[k] # NoValue /\ store[k][1] = u
           /\ <<u, k>> \in Relied <=> Holds(u, k)
  BY DEF Granted, Relied

(* Neither redis nor a thread's belief changes. *)
LEMMA LeaseIdle ==
    ASSUME UNCHANGED <<store, held, lapsed>>
    PROVE  UNCHANGED <<Granted, Relied>>
  BY DEF Granted, Relied, Holds

LEMMA AttemptLease ==
    ASSUME TypeOK, Owned, NEW t \in Thread, Attempt(t)
    PROVE  Contract!Next \/ UNCHANGED <<Granted, Relied>>
  <1>1. PICK o \in Outcome, v \in NewValue(t) : Attempt(t)!(o, v)
    BY DEF Attempt
  <1> DEFINE r == op[t].ref
  <1>2. r.key \in Key /\ v[1] = t /\ v # NoValue
    BY <1>1, NewValueType, LockConstantsOK DEF TypeOK, Op, Ref
  <1>3. PICK k \in Key : k = r.key
    BY <1>2
  <1>4. CASE store[k] = NoValue /\ Applied(o)
    <2>1. \A l \in Key : store'[l] = IF l = k THEN v ELSE store[l]
      BY <1>1, <1>3, <1>4 DEF SetNx, TypeOK
    <2>2. Granted' = Granted \cup {<<t, k>>}
      BY <1>2, <1>4, <2>1 DEF Granted
    <2>3. \A u \in Thread : <<u, k>> \notin Granted
      BY <1>4 DEF Granted
    <2>4. held' = held \/ held' = [held EXCEPT ![t] = @ \cup {r}]
      BY <1>1
    <2>5. \A u \in Thread : Keys(held'[u]) \subseteq
              Keys(held[u]) \cup IF u = t THEN {k} ELSE {}
      BY <1>3, <2>4 DEF Keys, TypeOK
    <2>6. \A u \in Thread : Keys(held[u]) \subseteq Keys(held'[u])
      BY <2>4 DEF Keys, TypeOK
    <2>7. Relied' \in {Relied, Relied \cup {<<t, k>>}}
      <3>1. UNCHANGED lapsed
        BY <1>1
      <3>2. \A u \in Thread, l \in Key : Holds(u, l) => Holds(u, l)'
        BY <2>6, <3>1 DEF Holds
      <3>3. \A u \in Thread, l \in Key : Holds(u, l)' => Holds(u, l) \/ <<u, l>> = <<t, k>>
        BY <2>5, <3>1 DEF Holds
      <3>4. CASE Holds(t, k)'
        <4>1. Relied' = Relied \cup {<<t, k>>}
          BY <3>2, <3>3, <3>4 DEF Relied
        <4>2. QED
          BY <4>1
      <3>5. CASE ~Holds(t, k)'
        <4>1. Relied' = Relied
          BY <3>2, <3>3, <3>5 DEF Relied
        <4>2. QED
          BY <4>1
      <3>6. QED
        BY <3>4, <3>5
    <2>8. Contract!Grant(t, k)
      BY <2>2, <2>3, <2>7 DEF Contract!Grant, Contract!Free, Granted, Relied
    <2>9. QED
      BY <2>8 DEF Contract!Next
  <1>5. CASE ~(store[k] = NoValue /\ Applied(o))
    <2>1. UNCHANGED <<store, held, lapsed>>
      BY <1>1, <1>3, <1>5 DEF SetNx, Applied
    <2>2. QED
      BY <2>1, LeaseIdle
  <1>6. QED
    BY <1>4, <1>5

LEMMA UnlockLease ==
    ASSUME TypeOK, Owned, NEW t \in Thread, NEW r \in Ref, Unlock(t, r)
    PROVE  Contract!Next
  <1>1. PICK o \in Outcome : Unlock(t, r)!(o)
    BY DEF Unlock
  <1>2. PICK k \in Key : k = r.key
    BY DEF Ref
  <1>3. k \notin Keys(held[t] \ {r})
    BY <1>1, <1>2 DEF Owned, Keys
  <1>4. \/ store' = store
        \/ store[k] = slot[t] /\ slot[t] # NoValue /\ store' = [store EXCEPT ![k] = NoValue]
    BY <1>1, <1>2 DEF CompareAndDelete
  <1>5. Granted' \in {Granted, Granted \ {<<t, k>>}}
    <2>1. CASE store' = store
      BY <2>1 DEF Granted
    <2>2. CASE store[k] = slot[t] /\ slot[t] # NoValue /\ store' = [store EXCEPT ![k] = NoValue]
      <3>1. store[k][1] = t
        BY <2>2 DEF Owned
      <3>2. \A l \in Key : store'[l] = IF l = k THEN NoValue ELSE store[l]
        BY <2>2 DEF TypeOK
      <3>3. QED
        BY <3>1, <3>2 DEF Granted
    <2>3. QED
      BY <1>4, <2>1, <2>2
  <1>6. \A u \in Thread : Keys(held'[u]) = IF u = t THEN Keys(held[u]) \ {k} ELSE Keys(held[u])
    BY <1>1, <1>2, <1>3 DEF Keys, TypeOK
  <1>7. lapsed' = lapsed \ {<<t, k>>}
    BY <1>1, <1>2
  <1>8. Relied' = Relied \ {<<t, k>>}
    <2>1. \A u \in Thread, l \in Key : Holds(u, l)' <=> Holds(u, l) /\ <<u, l>> # <<t, k>>
      BY <1>6, <1>7 DEF Holds
    <2>2. QED
      BY <2>1 DEF Relied
  <1>9. Contract!Leave(t, k)
    BY <1>5, <1>8 DEF Contract!Leave, Granted, Relied
  <1>10. QED
    BY <1>9 DEF Contract!Next

LEMMA TickLease ==
    ASSUME TypeOK, Tick
    PROVE  Contract!Next
  <1>1. PICK K \in SUBSET Key : K = {k \in Key : ttl[k] <= 1}
    OBVIOUS
  <1>2. \A k \in Key : store'[k] = IF k \in K THEN NoValue ELSE store[k]
    BY <1>1 DEF Tick
  <1>3. Granted' = {x \in Granted : x[2] \notin K}
    BY <1>2 DEF Granted
  <1>4. /\ held' = held
        /\ lapsed' = lapsed \cup {x \in Thread \X Key : x[2] \in Keys(held[x[1]]) /\ x[2] \in K}
    BY <1>1 DEF Tick
  <1>5. Relied' = {x \in Relied : x[2] \notin K}
    BY <1>4 DEF Relied, Holds
  <1>6. Contract!Expire(K)
    BY <1>3, <1>5 DEF Contract!Expire, Granted, Relied
  <1>7. QED
    BY <1>6 DEF Contract!Next

LEMMA CrashLease ==
    ASSUME TypeOK, NEW j \in Jvm, Crash(j)
    PROVE  Contract!Next
  <1> DEFINE P == {t \in Thread : Home[t] = j}
  <1>1. /\ \A u \in Thread : held'[u] = IF u \in P THEN {} ELSE held[u]
        /\ lapsed' = {x \in lapsed : x[1] \notin P} /\ store' = store
    BY DEF Crash
  <1>2. Keys({}) = {}
    BY DEF Keys
  <1>3. Relied' = {x \in Relied : x[1] \notin P}
    BY <1>1, <1>2 DEF Relied, Holds
  <1>4. Granted' = Granted
    BY <1>1 DEF Granted
  <1>5. Contract!Crash(P)
    BY <1>3, <1>4 DEF Contract!Crash, Granted, Relied
  <1>6. QED
    BY <1>5 DEF Contract!Next

(* The lock implements Lease: whatever threads, keys, nesting, expiry,     *)
(* cleaning of lock objects, failed calls and crashes there are, a key is  *)
(* granted only when it is free and taken only from a thread that does not *)
(* rely on it any more.                                                    *)
THEOREM ImplementsLease == Spec => LeasesKept
  <1>1. Init => Owned /\ Contract!Init
    BY DEF Init, Owned, Contract!Init, Holds, Keys
  <1>2. TypeOK /\ Owned /\ [Next]_lockVars => Owned'
    BY OwnedStep
  <1>3. TypeOK /\ Owned /\ [Next]_lockVars => [Contract!Next]_<<Granted, Relied>>
    <2> SUFFICES ASSUME TypeOK, Owned, [Next]_lockVars
                 PROVE  Contract!Next \/ UNCHANGED <<Granted, Relied>>
      OBVIOUS
    <2> DEFINE Idle == UNCHANGED <<store, held, lapsed>>
    <2> USE DEF redisVars, localVars
    <2>1. ASSUME NEW t \in Thread, NEW k \in Key, NEW kind \in {"lock", "tryLock"},
                 GetLock(t, k, kind)
          PROVE  Idle
      BY <2>1 DEF GetLock
    <2>2. ASSUME NEW t \in Thread,
                 \/ TakePermit(t) \/ Retry(t) \/ RetryInterrupted(t) \/ Release(t)
                 \/ SemaTimeout(t) \/ SemaInterrupted(t) \/ GiveUp(t)
          PROVE  Idle
      BY <2>2 DEF TakePermit, Retry, RetryInterrupted, SemaTimeout, SemaInterrupted, GiveUp, Release
    <2>3. ASSUME NEW j \in Jvm,
                 (\E k \in Key : CleanLock(j, k)) \/ \E r \in Ref : UnlockDropped(j, r)
          PROVE  Idle
      BY <2>3 DEF CleanLock, UnlockDropped
    <2>4. UNCHANGED lockVars => Idle
      BY DEF lockVars
    <2>5. Idle => UNCHANGED <<Granted, Relied>>
      BY LeaseIdle
    <2> HIDE DEF Idle
    <2>6. QED
      BY <2>1, <2>2, <2>3, <2>4, <2>5, AttemptLease, UnlockLease, TickLease, CrashLease
         DEF Next, Inside
  <1>4. QED
    BY <1>1, <1>2, <1>3, LockTypeCorrect, PTL
       DEF Spec, LeasesKept, Contract!Spec, Contract!vars, Granted, Relied

(* The contract alone, without anything else about the lock, excludes two  *)
(* holders of one key: Lease promises enough.                              *)
THEOREM LeaseExcludes == LeasesKept => []MutualExclusion
  <1> DEFINE Sound == Relied \subseteq Granted
  <1>1. Contract!Init => Sound
    BY DEF Contract!Init, Granted, Relied
  <1>2. Sound /\ [Contract!Next]_<<Granted, Relied>> => Sound'
    BY DEF Contract!Next, Contract!Grant, Contract!Leave, Contract!Expire, Contract!Crash,
           Granted, Relied
  <1>3. Sound => MutualExclusion
    BY PairsOf DEF MutualExclusion
  <1>4. QED
    BY <1>1, <1>2, <1>3, PTL DEF LeasesKept, Contract!Spec, Contract!vars, Granted, Relied
===============================================================================
