------------------------- MODULE RetryTimingProofs --------------------------
(***************************************************************************)
(* Theorems about RetryTiming, for every list of delays, every timeout and *)
(* every latency.                                                          *)
(***************************************************************************)
EXTENDS RetryTiming, TLAPS

\* The inductive invariant: the three properties carry each other.
TimingInv == TimingTypeOK /\ BackoffSpent /\ AttemptsFit /\ ParkingNeedsTime

(***************************************************************************)
(* The partial sums of the delays are natural numbers, and so is the time  *)
(* at which a Delay is due (the list of delays in send_email and           *)
(* send_callback).                                                         *)
(***************************************************************************)
LEMMA BeforeFacts ==
  /\ Len(Delays) \in Nat \ {0}
  /\ TotalBackoff \in Nat
  /\ \A k \in Attempts :
       /\ Delays[k] \in Nat /\ Before[k] \in Nat /\ Before[k + 1] \in Nat
       /\ Before[k + 1] = Before[k] + Delays[k]
<1>1. Len(Delays) \in Nat \ {0}
  BY TimingAssumption
<1>2. TotalBackoff \in Nat
  BY <1>1, TimingAssumption DEF TotalBackoff
<1>3. ASSUME NEW k \in Attempts
      PROVE  /\ Delays[k] \in Nat /\ Before[k] \in Nat /\ Before[k + 1] \in Nat
             /\ Before[k + 1] = Before[k] + Delays[k]
  BY <1>1, <1>3, TimingAssumption DEF Attempts
<1> QED BY <1>1, <1>2, <1>3

\* A notification that waits satisfies the invariant.
LEMMA TimingInitInv == TimingInit => TimingInv
<1> SUFFICES ASSUME TimingInit PROVE TimingInv
  OBVIOUS
<1>1. 1 \in Attempts
  BY BeforeFacts DEF Attempts
<1>2. TimingTypeOK
  <2>1. rounds \in 0..MaxRounds
    BY TimingAssumption DEF TimingInit
  <2> QED BY <1>1, <2>1 DEF TimingInit, TimingTypeOK, TimingPhases
<1>3. BackoffSpent /\ AttemptsFit /\ ParkingNeedsTime
  BY TimingAssumption
     DEF TimingInit, BackoffSpent, AttemptsFit, ParkingNeedsTime, InHandler
<1> QED BY <1>2, <1>3 DEF TimingInv

\* Every step of a task keeps the invariant.
LEMMA TimingStep == TimingInv /\ [TimingNext]_timingVars => TimingInv'
<1> SUFFICES ASSUME TimingInv, [TimingNext]_timingVars
             PROVE  TimingInv'
  OBVIOUS
<1> USE DEF TimingInv, TimingTypeOK, BackoffSpent, AttemptsFit,
            ParkingNeedsTime, TimingPhases, InHandler
<1>0. /\ limit \in Nat
      /\ Before[n] \in Nat /\ Before[n + 1] \in Nat /\ Delays[n] \in Nat
      /\ Before[n + 1] = Before[n] + Delays[n]
      /\ \A l \in Latency : l \in Nat
  BY BeforeFacts, TimingAssumption
<1>1. CASE RequestOk
  BY <1>0, <1>1 DEF RequestOk, ReadyAt
<1>2. CASE RequestFails
  <2> PICK l \in Latency : ReadyAt(elapsed + l) /\ due' = elapsed + l + Delays[n]
    BY <1>2 DEF RequestFails
  <2> QED BY <1>0, <1>2 DEF RequestFails, ReadyAt
<1>3. CASE NextAttempt
  <2>1. n + 1 \in Attempts
    BY <1>3, BeforeFacts DEF NextAttempt, Attempts
  <2> QED BY <1>0, <1>3, <2>1 DEF NextAttempt, ReadyAt
<1>4. CASE LastDelayOver
  <2>1. due >= TotalBackoff
    BY <1>4 DEF LastDelayOver, TotalBackoff
  <2> QED BY <1>0, <1>4, <2>1 DEF LastDelayOver, ReadyAt
<1>5. CASE Published
  <2> PICK l \in Latency : ReadyAt(elapsed + l)
    BY <1>5 DEF Published
  <2>1. limit >= TotalBackoff
    BY <1>0, <1>5, BeforeFacts DEF Published, ReadyAt
  <2>2. parked' \in BOOLEAN
    BY <1>5 DEF Published
  <2> QED BY <1>0, <1>5, <2>1, <2>2 DEF Published, ReadyAt
<1>6. CASE TimeoutElapses
  BY <1>0, <1>6 DEF TimeoutElapses
<1>7. CASE TimingAck
  BY <1>0, <1>7 DEF TimingAck
<1>8. CASE TimingNack
  BY <1>0, <1>8 DEF TimingNack
<1>9. CASE Delivered
  <2>1. 1 \in Attempts /\ Before[1] = 0
    BY BeforeFacts, TimingAssumption DEF Attempts
  <2>2. rounds + 1 \in 0..MaxRounds
    BY <1>9, TimingAssumption DEF Delivered
  <2> QED BY <1>0, <1>9, <2>1, <2>2 DEF Delivered
<1>10. CASE UNCHANGED timingVars
  BY <1>10 DEF timingVars
<1> QED BY <1>1, <1>2, <1>3, <1>4, <1>5, <1>6, <1>7, <1>8, <1>9, <1>10 DEF TimingNext

\* The invariant of the retry loop inside its Timeout (rabbit.rs, lib.rs).
THEOREM TimingInvariant == TimingSpec => []TimingInv
<1> QED BY TimingInitInv, TimingStep, PTL DEF TimingSpec

\* The state of a task is well typed (lib.rs, services/rabbit.rs).
THEOREM TimingTypeCorrect == TimingSpec => []TimingTypeOK
<1>1. TimingInv => TimingTypeOK
  BY DEF TimingInv
<1> QED BY <1>1, TimingInvariant, PTL

(***************************************************************************)
(* Whatever the delays: no attempt and no publication comes before all the *)
(* delays ahead of it have passed in the same handler (the for_each of     *)
(* send_email and send_callback).                                          *)
(***************************************************************************)
THEOREM BackoffSpentAlways == TimingSpec => []BackoffSpent
<1>1. TimingInv => BackoffSpent
  BY DEF TimingInv
<1> QED BY <1>1, TimingInvariant, PTL

(***************************************************************************)
(* Whatever the delays: an error message is stored only if the timeout of  *)
(* the handler is at least the sum of all delays (lib.rs:124-135 against   *)
(* the lists in services/rabbit.rs).                                       *)
(***************************************************************************)
THEOREM ParkingNeedsTimeAlways == TimingSpec => []ParkingNeedsTime
<1>1. TimingInv => ParkingNeedsTime
  BY DEF TimingInv
<1> QED BY <1>1, TimingInvariant, PTL

(***************************************************************************)
(* Whatever the delays: attempt k is made only if the delays ahead of it   *)
(* fit into the timeout, and no handler outlives the timeout.              *)
(***************************************************************************)
THEOREM AttemptsFitAlways == TimingSpec => []AttemptsFit
<1>1. TimingInv => AttemptsFit
  BY DEF TimingInv
<1> QED BY <1>1, TimingInvariant, PTL

-----------------------------------------------------------------------------
(* The untimed loop.                                                       *)

\* Every step of the clocked task is a step of the loop, or none for it.
LEMMA TimingLoopStep ==
  TimingInv /\ [TimingNext]_timingVars => [Loop!LoopNext]_(Loop!loopVars)
<1> SUFFICES ASSUME TimingInv, [TimingNext]_timingVars
             PROVE  [Loop!LoopNext]_(Loop!loopVars)
  OBVIOUS
<1> USE DEF Resting, Loop!Enter, Loop!loopVars
<1>0. n \in 1..Len(Delays) /\ Len(Delays) \in Nat
  BY BeforeFacts DEF TimingInv, TimingTypeOK, Attempts
<1>1. RequestOk => Loop!HandlerOk
  BY DEF RequestOk, Loop!HandlerOk
<1>2. RequestFails => Loop!DelayNext
  BY DEF RequestFails, Loop!DelayNext
<1>3. NextAttempt \/ LastDelayOver => Loop!AttemptNext
  BY <1>0 DEF NextAttempt, LastDelayOver, Loop!AttemptNext
<1>4. Published => Loop!HandlerOk
  BY DEF Published, Loop!HandlerOk
<1>5. TimeoutElapses => Loop!HandlerDropped
  BY DEF TimeoutElapses, InHandler, Loop!HandlerDropped
<1>6. TimingAck \/ TimingNack => Loop!Leave
  BY DEF TimingAck, TimingNack, Loop!Leave
<1>7. Delivered => Loop!Take
  BY DEF Delivered, Loop!Take
<1>8. UNCHANGED timingVars => UNCHANGED Loop!loopVars
  BY DEF timingVars
<1> QED BY <1>1, <1>2, <1>3, <1>4, <1>5, <1>6, <1>7, <1>8
        DEF TimingNext, Loop!LoopNext

(***************************************************************************)
(* Whatever the delays, the timeout and the latency: the clock adds no step*)
(* to the retry loop of send_email and send_callback.                      *)
(***************************************************************************)
THEOREM TimingRunsTheLoop == TimingSpec => RunsTheLoop
<1>1. TimingInit => Loop!LoopInit
  BY DEF TimingInit, Loop!LoopInit, Resting
<1> QED BY <1>1, TimingInvariant, TimingLoopStep, PTL
        DEF TimingSpec, RunsTheLoop, Loop!LoopSpec
=============================================================================
