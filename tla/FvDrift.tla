------------------------------ MODULE FvDrift -------------------------------
(***************************************************************************)
(* What the jitter check of a synchronised participant is worth.  The      *)
(* participant is FvParticipant, started with a value taken over at time   *)
(* zero.  The server is reduced to its time: a broadcast carries the value *)
(* it has just incremented to (FvServer, CountersInStep) and arrives at    *)
(* once.  The loops of the two ECUs advance independently, so that the     *)
(* participant may be early or late by any amount.                         *)
(***************************************************************************)
EXTENDS FvParticipant

CONSTANT TimeSend  \* SOK_FM_TIME_SEND_MS

ASSUME DriftAssumption ==
  /\ TimeSend \in Nat \ {0}
  /\ TimeSend % TimeIncrementPeriod = 0
  /\ TimeJitterMax < TimeIncrementPeriod

VARIABLE serverMillis

driftVars == <<vars, serverMillis>>

DriftInit ==
  /\ mCurrentFvState = "Idle"
  /\ mIsFvValid = TRUE
  /\ mFV = 0
  /\ mClockCount = 0
  /\ mTimeSinceAuthFvReq = 0
  /\ mActiveFvChallenge \in Challenge
  /\ mUnAuthFv = Empty
  /\ mCrAuthFvAndMac = [first |-> Empty, second |-> Empty]
  /\ pc = "ready"
  /\ genRes = Empty
  /\ challengeSignal = {mActiveFvChallenge}
  /\ serverMillis = 0

ParticipantRuns == mIsFvValid /\ MainFunction /\ UNCHANGED serverMillis

ServerRuns ==
  LET millis == serverMillis + MainFunctionPeriod IN
  /\ millis <= MaxFv * TimeIncrementPeriod
  /\ serverMillis' = millis
  /\ IF millis % TimeSend = 0
       THEN incomingUnAuthFvSignalsCb(millis \div TimeIncrementPeriod)
       ELSE UNCHANGED vars

DriftNext == ParticipantRuns \/ ServerRuns

DriftSpec == DriftInit /\ [][DriftNext]_driftVars

-----------------------------------------------------------------------------
(* A broadcast is judged in the call of MainFunction that processes it:    *)
(* by then the participant's time is one period past what mClockCount says. *)
(* The call goes back to Idle, or else ends the validity first.             *)
Judged ==
  /\ pc = "ready" /\ mCurrentFvState = "ProcessAnauthFV"
  /\ mCurrentFvState' # mCurrentFvState \/ ~mIsFvValid'

Kept == mIsFvValid'

(* How far ahead of the reference value the participant's time is. *)
Ahead ==
  (mFV - mUnAuthFv) * TimeIncrementPeriod + mClockCount + MainFunctionPeriod

(***************************************************************************)
(* No false alarm: a participant whose time deviates from the reference by *)
(* no more than the maximum jitter keeps its value.                        *)
(***************************************************************************)
NoFalseAlarm ==
  [][Judged /\ Abs(Ahead) <= TimeJitterMax => Kept]_driftVars

(***************************************************************************)
(* What the check does guarantee: a value that is kept is late by no more  *)
(* than the maximum jitter, but may be early by up to two increments:      *)
(* equal values are never held against mClockCount, and an early           *)
(* participant's count is subtracted where it had to be added.             *)
(***************************************************************************)
KeptIsBoundedLateAndEarly ==
  [][Judged /\ Kept =>
       /\ -TimeJitterMax <= Ahead
       /\ Ahead <= 2 * TimeIncrementPeriod]_driftVars
=============================================================================
