----------------------------- MODULE DispatchProofs -----------------------------
(***************************************************************************)
(* Machine-checked proofs about Dispatch, for any messages, producers and  *)
(* bounds of the id counter that the number of messages does not reach.    *)
(***************************************************************************)
EXTENDS Dispatch, FiniteSetTheorems, TLAPS

-------------------------------------------------------------------------------
(* Every action keeps the variables in their sets.                         *)
LEMMA TypeStep == ASSUME TypeOK, [Next]_dispatchVars PROVE TypeOK'
<1> USE DEF TypeOK, IdTypeOK, ProducersTypeOK, IdPc, CallPc, HookPc,
          idVars, producersVars, requestVars, producerVars, taskVars, hookState
<1>1. CASE UNCHANGED dispatchVars
  BY <1>1 DEF dispatchVars
<1>2. ASSUME NEW m \in Message, Look(m), UNCHANGED producersVars PROVE TypeOK'
  BY <1>2 DEF Look, Goto
<1>3. ASSUME NEW m \in Message, Reset(m), UNCHANGED producersVars PROVE TypeOK'
  <2>1. num' \in Nat /\ era' \in Nat
    BY <1>3 DEF Reset
  <2>2. QED
    BY <1>3, <2>1 DEF Reset, Goto
<1>4. ASSUME NEW m \in Message, AddAndGet(m), UNCHANGED producersVars PROVE TypeOK'
  BY <1>4 DEF AddAndGet, Goto
<1>5. ASSUME NEW m \in Message, Stamp(m), UNCHANGED producersVars PROVE TypeOK'
  BY <1>5 DEF Stamp, Goto
<1>6. ASSUME Tick, UNCHANGED producersVars PROVE TypeOK'
  BY <1>6 DEF Tick
<1>7. ASSUME NEW r \in Request, Get(r), UNCHANGED idVars PROVE TypeOK'
  BY <1>7 DEF Get, CallStep
<1>8. ASSUME NEW r \in Request, Send(r), UNCHANGED idVars PROVE TypeOK'
  BY <1>8 DEF Send, CallStep
<1>9. ASSUME NEW r \in Request, Return(r), UNCHANGED idVars PROVE TypeOK'
  BY <1>9 DEF Return, CallStep, SubmitTask
<1>10. ASSUME NEW r \in Request, Timeout(r), UNCHANGED idVars PROVE TypeOK'
  BY <1>10 DEF Timeout, CallStep
<1>11. ASSUME NEW r \in Request, RunTask(r), UNCHANGED idVars PROVE TypeOK'
  BY <1>11 DEF RunTask
<1>12. ASSUME NEW r \in Request, NEW p \in Producer, Complete(p, r), UNCHANGED idVars PROVE TypeOK'
  BY <1>12 DEF Complete, SubmitTask
<1>13. ASSUME Signal, UNCHANGED idVars PROVE TypeOK'
  BY <1>13 DEF Signal, HookStep
<1>14. ASSUME NextProducer, UNCHANGED idVars PROVE TypeOK'
  BY <1>14 DEF NextProducer, HookStep
<1>15. ASSUME Flushed, UNCHANGED idVars PROVE TypeOK'
  BY <1>15 DEF Flushed, HookStep
<1>16. ASSUME Closed, UNCHANGED idVars PROVE TypeOK'
  BY <1>16 DEF Closed, HookStep
<1>17. ASSUME ProducerRaises, UNCHANGED idVars PROVE TypeOK'
  BY <1>17 DEF ProducerRaises, HookStep
<1>18. ASSUME NoneLeft, UNCHANGED idVars PROVE TypeOK'
  BY <1>18 DEF NoneLeft, HookStep
<1>19. ASSUME ShutExecutor, UNCHANGED idVars PROVE TypeOK'
  BY <1>19 DEF ShutExecutor, HookStep
<1>20. ASSUME AwaitTasks, UNCHANGED idVars PROVE TypeOK'
  BY <1>20 DEF AwaitTasks, HookStep
<1>21. ASSUME Halt, UNCHANGED idVars PROVE TypeOK'
  BY <1>21 DEF Halt, HookStep
<1>22. QED
  BY <1>1, <1>2, <1>3, <1>4, <1>5, <1>6, <1>7, <1>8, <1>9, <1>10, <1>11,
     <1>12, <1>13, <1>14, <1>15, <1>16, <1>17, <1>18, <1>19, <1>20, <1>21
     DEF Next, Client, Service, GeneratorId, ServiceStep, RequestThread, HookThread

(* The counter, the requests, the producers and the hook stay in their     *)
(* sets, however clients, producers and the shutdown meet.                 *)
THEOREM DispatchTypeCorrect == Spec => []TypeOK
<1>1. Init => IdTypeOK
  <2> SUFFICES ASSUME Init PROVE IdTypeOK
    OBVIOUS
  <2>1. num \in Nat
    BY MessageIdConstantsOK DEF MessageIdConstantsOK, Init, IdInit
  <2>2. id \in [Message -> Nat \X Nat]
    BY DEF Init, IdInit
  <2>3. QED
    BY <2>1, <2>2 DEF Init, IdInit, IdTypeOK, IdPc
<1>2. Init => ProducersTypeOK
  <2> SUFFICES ASSUME Init PROVE ProducersTypeOK
    OBVIOUS
  <2>1. inFlight \in [Producer -> SUBSET Request]
    BY DEF Init, ProducersInit
  <2>2. tasks \in [Request -> Nat]
    BY DEF Init, ProducersInit
  <2>3. QED
    BY <2>1, <2>2 DEF Init, ProducersInit, ProducersTypeOK, CallPc, HookPc
<1>3. QED
  BY <1>1, <1>2, TypeStep, PTL DEF Spec, TypeOK

-------------------------------------------------------------------------------
(* A record is with the producer its request has chosen, and a request     *)
(* that was accepted has its record, or a task of it, or has been at work, *)
(* unless the executor has turned the task away.                           *)
Placed ==
    /\ \A r \in Request : call[r] \in {"send", "wait", "ok"} => chosen[r] \in Producer
    /\ \A p \in Producer : \A r \in inFlight[p] : Accepted(r) /\ chosen[r] = p

Kept ==
    ~raised => \A r \in Request :
        Accepted(r) => r \in inFlight[chosen[r]] \/ tasks[r] > 0 \/ r \in worked

(* A producer leaves the balancer closed and without records, and the      *)
(* executor is shut after the last one has left.                           *)
Emptied ==
    /\ hook = "close" => closing \in closed
    /\ \A p \in Producer \ targets : p \in closed /\ inFlight[p] = {}
    /\ hook \in {"end", "tasks", "ended", "halted"} /\ ~raised => targets = {}
    /\ ~executor => hook \in {"tasks", "ended", "halted"}

Orderly == Placed /\ Kept /\ Emptied /\ WorkedAtEnd

LEMMA OrderlyStep == ASSUME TypeOK, Orderly, [Next]_dispatchVars PROVE Orderly'
<1> USE DEF Orderly, Placed, Kept, Emptied, WorkedAtEnd, Accepted, TypeOK, ProducersTypeOK, CallPc, HookPc,
          idVars, producersVars, requestVars, producerVars, taskVars, hookState
<1>1. CASE UNCHANGED dispatchVars
  BY <1>1 DEF dispatchVars
<1>2. ASSUME UNCHANGED producersVars PROVE Orderly'
  BY <1>2
<1>3. ASSUME NEW r \in Request, Get(r), UNCHANGED idVars PROVE Orderly'
  BY <1>3 DEF Get, CallStep
<1>4. ASSUME NEW r \in Request, Send(r), UNCHANGED idVars PROVE Orderly'
  BY <1>4 DEF Send, CallStep
<1>5. ASSUME NEW r \in Request, Return(r), UNCHANGED idVars PROVE Orderly'
  BY <1>5 DEF Return, CallStep, SubmitTask
<1>6. ASSUME NEW r \in Request, Timeout(r), UNCHANGED idVars PROVE Orderly'
  BY <1>6 DEF Timeout, CallStep
<1>7. ASSUME NEW r \in Request, RunTask(r), UNCHANGED idVars PROVE Orderly'
  BY <1>7 DEF RunTask
<1>8. ASSUME NEW r \in Request, NEW p \in Producer, Complete(p, r), UNCHANGED idVars PROVE Orderly'
  BY <1>8 DEF Complete, SubmitTask
<1>9. ASSUME Signal, UNCHANGED idVars PROVE Orderly'
  BY <1>9 DEF Signal, HookStep
<1>10. ASSUME NextProducer, UNCHANGED idVars PROVE Orderly'
  BY <1>10 DEF NextProducer, HookStep
<1>11. ASSUME Flushed, UNCHANGED idVars PROVE Orderly'
  BY <1>11 DEF Flushed, HookStep
<1>12. ASSUME Closed, UNCHANGED idVars PROVE Orderly'
  BY <1>12 DEF Closed, HookStep
<1>13. ASSUME ProducerRaises, UNCHANGED idVars PROVE Orderly'
  BY <1>13 DEF ProducerRaises, HookStep
<1>14. ASSUME NoneLeft, UNCHANGED idVars PROVE Orderly'
  BY <1>14 DEF NoneLeft, HookStep
<1>15. ASSUME ShutExecutor, UNCHANGED idVars PROVE Orderly'
  BY <1>15 DEF ShutExecutor, HookStep
<1>16. ASSUME AwaitTasks, UNCHANGED idVars PROVE Orderly'
  BY <1>16 DEF AwaitTasks, HookStep
<1>17. ASSUME Halt, UNCHANGED idVars PROVE Orderly'
  BY <1>17 DEF Halt, HookStep
<1>18. QED
  BY <1>1, <1>2, <1>3, <1>4, <1>5, <1>6, <1>7, <1>8, <1>9, <1>10, <1>11,
     <1>12, <1>13, <1>14, <1>15, <1>16, <1>17
     DEF Next, Client, Service, GeneratorId, ServiceStep, RequestThread, HookThread

-------------------------------------------------------------------------------
(* The messages that have taken their number. *)
Given == {m \in Message : at[m] \in {"stamp", "made"}}

(* Of the current era, numbers up to the counter were taken without a gap  *)
(* since it was last set back; the older ones are further above it than    *)
(* it can still get.  No era has given a number twice.                     *)
Spread ==
    /\ \A m \in Given : of[m] = era /\ number[m] <= num => number[m] + Cardinality(Given) > num
    /\ \A m \in Given :
          of[m] = era /\ number[m] > num => number[m] > num + Cardinality(Message \ Given)
    /\ \A m, n \in Given : m # n /\ of[m] = of[n] => number[m] # number[n]
    /\ \A m \in Message : at[m] = "made" => id[m][2] = number[m]
    /\ \A m \in Given : number[m] > 0 /\ of[m] <= era

LEMMA GivenFinite ==
    /\ IsFiniteSet(Given) /\ Cardinality(Given) \in Nat
    /\ IsFiniteSet(Message \ Given) /\ Cardinality(Message \ Given) \in Nat
    /\ Cardinality(Message) \in Nat
    /\ Cardinality(Given) + Cardinality(Message \ Given) = Cardinality(Message)
<1> USE MessageIdConstantsOK DEF MessageIdConstantsOK
<1>1. Given \subseteq Message /\ Given \cap Message = Given /\ Message \cap Given = Given
  BY DEF Given
<1>2. IsFiniteSet(Given) /\ IsFiniteSet(Message \ Given)
  BY <1>1, FS_Subset, FS_Difference
<1>3. Cardinality(Message \ Given) = Cardinality(Message) - Cardinality(Given)
  <2>1. Cardinality(Message \ Given) = Cardinality(Message) - Cardinality(Message \cap Given)
    BY FS_Difference
  <2>2. QED
    BY <1>1, <2>1
<1>4. /\ Cardinality(Given) \in Nat /\ Cardinality(Message \ Given) \in Nat
      /\ Cardinality(Message) \in Nat
  BY <1>2, FS_CardinalityType
<1>5. QED
  BY <1>2, <1>3, <1>4

(* A message that takes its number. *)
LEMMA OneGiven ==
    ASSUME NEW m \in Message \ Given
    PROVE /\ Cardinality(Given \cup {m}) = Cardinality(Given) + 1
          /\ Cardinality(Message \ (Given \cup {m})) = Cardinality(Message \ Given) - 1
          /\ Cardinality(Message \ Given) > 0
<1>1. Cardinality(Given \cup {m}) = Cardinality(Given) + 1
  BY GivenFinite, FS_AddElement
<1>2. Message \ (Given \cup {m}) = (Message \ Given) \ {m}
  OBVIOUS
<1>3. Cardinality((Message \ Given) \ {m}) = Cardinality(Message \ Given) - 1
  BY GivenFinite, FS_RemoveElement
<1>4. Cardinality(Message \ Given) # 0
  BY GivenFinite, FS_EmptySet
<1>5. Cardinality(Message \ (Given \cup {m})) = Cardinality((Message \ Given) \ {m})
  BY <1>2, Zenon
<1>6. QED
  BY <1>1, <1>3, <1>4, <1>5, GivenFinite

LEMMA SpreadStep == ASSUME TypeOK, Spread, [Next]_dispatchVars PROVE Spread'
<1> USE DEF TypeOK, IdTypeOK, IdPc,
          idVars, producersVars
<1>1. CASE UNCHANGED dispatchVars
  BY <1>1 DEF dispatchVars, Spread, Given
<1>2. ASSUME NEW m \in Message, Look(m), UNCHANGED producersVars PROVE Spread'
  <2>1. Given' = Given
    BY <1>2 DEF Given, Look, Goto
  <2>2. \A k \in Message : at'[k] = "made" => at[k] = "made"
    BY <1>2 DEF Look, Goto
  <2>3. QED
    BY <1>2, <2>1, <2>2 DEF Spread, Look
<1>3. ASSUME NEW m \in Message, Reset(m), UNCHANGED producersVars PROVE Spread'
  <2>1. Given' = Given /\ (\A k \in Message : at'[k] = "made" => at[k] = "made")
    BY <1>3 DEF Given, Reset, Goto
  <2>2. /\ num' = 0 /\ UNCHANGED <<number, id, of>>
        /\ (num > Limit /\ era' = era) \/ era' = era + 1
    BY <1>3 DEF Reset
  <2>3. Cardinality(Message) < Limit /\ Limit \in Nat
    BY MessageIdConstantsOK DEF MessageIdConstantsOK
  <2>4. ASSUME NEW k \in Given PROVE number[k] \in Nat /\ number[k] > 0 /\ of[k] \in Nat /\ of[k] <= era
    BY DEF Spread, Given
  <2>5. ASSUME NEW k \in Given, of[k] = era' PROVE number[k] > Cardinality(Message \ Given)
    <3>1. era' = era /\ num > Limit
      BY <2>2, <2>4, <2>5
    <3>2. CASE number[k] <= num
      BY <2>3, <2>4, <2>5, <3>1, <3>2, GivenFinite DEF Spread
    <3>3. CASE number[k] > num
      BY <2>3, <2>4, <2>5, <3>1, <3>3, GivenFinite DEF Spread
    <3>4. QED
      BY <2>4, <3>2, <3>3
  <2>6. Cardinality(Message \ Given') = Cardinality(Message \ Given)
    BY <2>1, Zenon
  <2>7. ASSUME NEW k \in Given'
        PROVE /\ ~(number'[k] <= num') /\ number'[k] > 0 /\ of'[k] <= era'
              /\ of'[k] = era' => number'[k] > num' + Cardinality(Message \ Given')
    <3>1. k \in Given /\ number'[k] = number[k] /\ of'[k] = of[k] /\ num' = 0
      BY <2>1, <2>2, <2>7
    <3>2. ~(number'[k] <= num') /\ number'[k] > 0 /\ of'[k] <= era'
      BY <2>2, <2>4, <3>1
    <3>3. of'[k] = era' => number'[k] > num' + Cardinality(Message \ Given')
      <4>1. HAVE of'[k] = era'
      <4>2. number[k] > Cardinality(Message \ Given)
        BY <2>5, <3>1, <4>1
      <4>3. QED
        BY <2>4, <2>6, <3>1, <4>2, GivenFinite
    <3>4. QED
      BY <3>2, <3>3
  <2>8. \A k, n \in Given' : k # n /\ of'[k] = of'[n] => number'[k] # number'[n]
    BY <2>1, <2>2 DEF Spread
  <2>9. \A k \in Message : at'[k] = "made" => id'[k][2] = number'[k]
    BY <2>1, <2>2 DEF Spread
  <2>10. QED
    BY <2>7, <2>8, <2>9 DEF Spread
<1>4. ASSUME NEW m \in Message, AddAndGet(m), UNCHANGED producersVars PROVE Spread'
  <2>1. m \in Message \ Given /\ Given' = Given \cup {m}
    BY <1>4 DEF Given, AddAndGet, Goto
  <2>2. /\ Cardinality(Given') = Cardinality(Given) + 1
        /\ Cardinality(Message \ Given') = Cardinality(Message \ Given) - 1
        /\ Cardinality(Message \ Given) > 0
    BY <2>1, OneGiven
  <2>3. /\ num' = num + 1 /\ number'[m] = num + 1 /\ of'[m] = era /\ UNCHANGED <<id, era>>
        /\ \A k \in Given : /\ k # m /\ number'[k] = number[k] /\ number[k] \in Nat
                              /\ of'[k] = of[k] /\ of[k] \in Nat
    BY <1>4, <2>1 DEF AddAndGet, Given
  <2>4. ASSUME NEW k \in Given, of[k] = era PROVE number[k] # num + 1
    BY <2>2, <2>3, <2>4, GivenFinite DEF Spread
  <2>5. ASSUME NEW k \in Given', of'[k] = era', number'[k] <= num'
        PROVE number'[k] + Cardinality(Given') > num'
    BY <2>1, <2>2, <2>3, <2>4, <2>5, GivenFinite DEF Spread
  <2>6. ASSUME NEW k \in Given', of'[k] = era', number'[k] > num'
        PROVE number'[k] > num' + Cardinality(Message \ Given')
    BY <2>1, <2>2, <2>3, <2>6, GivenFinite DEF Spread
  <2>7. ASSUME NEW k \in Given', NEW n \in Given', k # n, of'[k] = of'[n]
        PROVE number'[k] # number'[n]
    BY <2>1, <2>3, <2>4, <2>7 DEF Spread
  <2>8. \A k \in Message : at'[k] = "made" => at[k] = "made" /\ k \in Given
    BY <1>4 DEF AddAndGet, Goto, Given
  <2>9. \A k \in Message : at'[k] = "made" => id'[k][2] = number'[k]
    BY <2>3, <2>8 DEF Spread
  <2>10. ASSUME NEW k \in Given' PROVE number'[k] > 0 /\ of'[k] <= era'
    BY <2>1, <2>3, <2>10 DEF Spread
  <2>11. QED
    BY <2>5, <2>6, <2>7, <2>9, <2>10 DEF Spread
<1>5. ASSUME NEW m \in Message, Stamp(m), UNCHANGED producersVars PROVE Spread'
  <2>1. Given' = Given /\ m \in Given
    BY <1>5 DEF Given, Stamp, Goto
  <2>2. \A k \in Message : at'[k] = "made" => k = m \/ at[k] = "made"
    BY <1>5 DEF Stamp, Goto
  <2>3. \A k \in Message : k # m => id'[k] = id[k]
    BY <1>5 DEF Stamp
  <2>4. id'[m][2] = number[m]
    BY <1>5 DEF Stamp
  <2>5. QED
    BY <1>5, <2>1, <2>2, <2>3, <2>4 DEF Spread, Stamp
<1>6. ASSUME Tick, UNCHANGED producersVars PROVE Spread'
  <2>1. Given' = Given
    BY <1>6 DEF Given, Tick
  <2>2. QED
    BY <1>6, <2>1 DEF Spread, Tick
<1>7. ASSUME UNCHANGED idVars PROVE Spread'
  BY <1>7 DEF Spread, Given
<1>8. QED
  BY <1>1, <1>2, <1>3, <1>4, <1>5, <1>6, <1>7
     DEF Next, Client, Service, GeneratorId, ServiceStep, RequestThread, HookThread

-------------------------------------------------------------------------------
DInv == TypeOK /\ Orderly /\ Spread

LEMMA DInvHolds == Spec => []DInv
<1>1. Init => Orderly /\ Spread
  BY DEF Init, IdInit, ProducersInit, Orderly, Placed, Kept, Emptied, WorkedAtEnd, Accepted, Spread, Given
<1>2. DInv /\ [Next]_dispatchVars => Orderly' /\ Spread'
  BY OrderlyStep, SpreadStep DEF DInv
<1>3. QED
  BY <1>1, <1>2, DispatchTypeCorrect, TypeStep, PTL DEF Spec, DInv

(* Two messages get one id only across a repeated reset of the counter. *)
THEOREM IdsAreUnique == Spec => []IdsDiffer
<1>1. DInv => IdsDiffer
  BY DEF DInv, Spread, Given, IdsDiffer
<1>2. QED
  BY <1>1, DInvHolds, PTL

(* No callback of an accepted record is lost to an orderly shutdown. *)
THEOREM StopLosesNothing == Spec => []WorkedAtEnd
<1>1. DInv => WorkedAtEnd
  BY DEF DInv, Orderly
<1>2. QED
  BY <1>1, DInvHolds, PTL

===============================================================================
