------------------------ MODULE FvParticipantProofs -------------------------
(***************************************************************************)
(* Proofs about FvParticipant for all periods, challenges and bounds,      *)
(* whatever the signals carry and however callbacks and the main thread    *)
(* interleave; and, at the end, what the jitter check guarantees (FvDrift) *)
(* for all periods, values, drifts and every maximum jitter shorter than   *)
(* one increment.  Only what names the drift rests on that DriftAssumption.*)
(***************************************************************************)
EXTENDS FvDrift, FvParticipantWaiting, FvmClockLemmas

(***************************************************************************)
(* No part is inductive by itself.  The clock of a valid value runs        *)
(* because validity and state change together; they do because a timed-out *)
(* or publishing main thread is not overtaken (MainThreadInStep), which    *)
(* holds because callbacks leave only FVInProgress and Idle.               *)
(***************************************************************************)
IInv ==
  /\ TypeOK
  /\ FvClockNeverStuck
  /\ NothingProcessedIsEmpty
  /\ ValidExactlyWhenIdle
  /\ MainThreadInStep

-----------------------------------------------------------------------------
(* The tail of MainFunction.                                               *)

LEMMA TimersKeepType ==
  ASSUME NEW valid \in BOOLEAN, NEW fv \in Fv, NEW clock \in 0..ClockRest,
         incTimers(valid, fv, clock)
  PROVE  mIsFvValid' \in BOOLEAN /\ mFV' \in Fv /\ mClockCount' \in 0..ClockRest
  BY NextClockType, NextFvType DEF incTimers

LEMMA TimersKeepClock ==
  ASSUME NEW valid \in BOOLEAN, NEW fv \in Fv, NEW clock \in 0..ClockRest,
         incTimers(valid, fv, clock),
         valid => RunningClock(clock)
  PROVE  FvClockNeverStuck'
<1>1. SUFFICES ASSUME mIsFvValid' PROVE RunningClock(mClockCount')
  BY DEF FvClockNeverStuck, RunningClock
<1>2. valid = TRUE
  BY <1>1 DEF incTimers
<1>3. clock \in Nat
  BY ClockAssumption DEF ClockRest
<1> QED BY <1>2, <1>3, ClockKeepsRunning DEF incTimers

-----------------------------------------------------------------------------
LEMMA InitIInv == Init => IInv
<1> SUFFICES ASSUME Init PROVE IInv  OBVIOUS
<1>1. TypeOK
  <2>1. 0 \in Fv /\ 0 \in 0..ClockRest /\ NeverRequested \in Nat
    BY ClockAssumption DEF Fv, ClockRest, NeverRequested
  <2>2. mCrAuthFvAndMac \in [first : Fv \cup {Empty}, second : Mac \cup {Empty}]
    BY DEF Init
  <2> QED BY <2>1, <2>2 DEF Init, TypeOK, FreshnessValueState
<1>2. FvClockNeverStuck /\ NothingProcessedIsEmpty /\ ValidExactlyWhenIdle /\ MainThreadInStep
  BY DEF Init, FvClockNeverStuck, NothingProcessedIsEmpty, ValidExactlyWhenIdle,
         MainThreadInStep
<1> QED BY <1>1, <1>2 DEF IInv

LEMMA StepIInv == IInv /\ [Next]_vars => IInv'
<1> SUFFICES ASSUME IInv, [Next]_vars PROVE IInv'  OBVIOUS
<1> USE DEF IInv
<1> USE ParticipantAssumption, MacAssumption
<1>1. CASE requestFails
  <2>1. TypeOK'
    BY <1>1, TimersKeepType
    DEF requestFails, incTimersOnly, TypeOK, requestVars, mainVars
  <2>2. FvClockNeverStuck'
    BY <1>1, TimersKeepClock DEF requestFails, incTimersOnly, TypeOK, FvClockNeverStuck
  <2>3. mIsFvValid' = mIsFvValid
    BY <1>1 DEF requestFails, incTimersOnly, incTimers
  <2>4. NothingProcessedIsEmpty' /\ ValidExactlyWhenIdle'
        /\ MainThreadInStep'
    BY <1>1, <2>3
    DEF requestFails, requestVars, mainVars, NothingProcessedIsEmpty,
        ValidExactlyWhenIdle, MainThreadInStep
  <2> QED BY <2>1, <2>2, <2>4
<1>2. ASSUME NEW c \in Challenge, requestPublish(c) PROVE IInv'
  BY <1>2
  DEF requestPublish, clockVars, requestVars, TypeOK, FvClockNeverStuck,
      NothingProcessedIsEmpty, ValidExactlyWhenIdle, MainThreadInStep, RunningClock
<1>3. CASE requestStore
  <2>1. pc = "published" /\ mCurrentFvState = "RequestFV" /\ ~mIsFvValid
        /\ genRes \in challengeSignal
    BY <1>3 DEF requestStore, recordRequest, MainThreadInStep, ValidExactlyWhenIdle
  <2>2. TypeOK'
    BY <1>3, TimersKeepType
    DEF requestStore, recordRequest, transiteTo, incTimersOnly, TypeOK, FreshnessValueState
  <2>3. FvClockNeverStuck'
    BY <1>3, TimersKeepClock DEF requestStore, recordRequest, incTimersOnly, TypeOK, FvClockNeverStuck
  <2>4. mIsFvValid' = mIsFvValid
    BY <1>3 DEF requestStore, recordRequest, incTimersOnly, incTimers
  <2>5. NothingProcessedIsEmpty' /\ ValidExactlyWhenIdle'
        /\ MainThreadInStep'
    BY <1>3, <2>1, <2>4
    DEF requestStore, recordRequest, transiteTo, NothingProcessedIsEmpty,
        ValidExactlyWhenIdle, MainThreadInStep
  <2> QED BY <2>2, <2>3, <2>5
<1>4. CASE waitForAnAuthenticFv
  <2> DEFINE elapsed == mTimeSinceAuthFvReq + MainFunctionPeriod
  <2>1. /\ pc = "ready" /\ mCurrentFvState = "FVInProgress"
        /\ mTimeSinceAuthFvReq' = elapsed
        /\ mIsFvValid' = mIsFvValid
        /\ IF elapsed > TimeRequestTimeout THEN pc' = "timedOut" ELSE pc' = pc
        /\ UNCHANGED <<mCurrentFvState, mActiveFvChallenge, mUnAuthFv,
                       mCrAuthFvAndMac, genRes, challengeSignal>>
    BY <1>4 DEF waitForAnAuthenticFv, incTimersOnly, incTimers, clockVars
  <2>2. TypeOK' /\ FvClockNeverStuck'
    <3>1. CASE UNCHANGED clockVars
      BY <2>1, <3>1, ClockAssumption
      DEF TypeOK, clockVars, FvClockNeverStuck, RunningClock
    <3>2. CASE incTimersOnly
      <4>1. FvClockNeverStuck'
        BY <3>2, TimersKeepClock DEF incTimersOnly, TypeOK, FvClockNeverStuck
      <4>2. mIsFvValid' \in BOOLEAN /\ mFV' \in Fv /\ mClockCount' \in 0..ClockRest
        BY <3>2, TimersKeepType DEF incTimersOnly, TypeOK
      <4> QED BY <2>1, <4>1, <4>2, ClockAssumption DEF TypeOK
    <3> QED BY <1>4, <3>1, <3>2 DEF waitForAnAuthenticFv
  <2>3. NothingProcessedIsEmpty' /\ ValidExactlyWhenIdle'
        /\ MainThreadInStep'
    BY <2>1, ClockAssumption
    DEF TypeOK, NothingProcessedIsEmpty, ValidExactlyWhenIdle, MainThreadInStep
  <2> QED BY <2>2, <2>3
<1>5. CASE requestTimeout
  <2>1. ~mIsFvValid
    BY <1>5 DEF requestTimeout, MainThreadInStep, ValidExactlyWhenIdle
  <2>2. TypeOK'
    BY <1>5, TimersKeepType
    DEF requestTimeout, transiteTo, incTimersOnly, TypeOK, FreshnessValueState,
        requestVars
  <2>3. FvClockNeverStuck'
    BY <1>5, TimersKeepClock DEF requestTimeout, incTimersOnly, TypeOK, FvClockNeverStuck
  <2>4. mIsFvValid' = mIsFvValid
    BY <1>5 DEF requestTimeout, incTimersOnly, incTimers
  <2>5. NothingProcessedIsEmpty' /\ ValidExactlyWhenIdle'
        /\ MainThreadInStep'
    BY <1>5, <2>1, <2>4
    DEF requestTimeout, transiteTo, requestVars, NothingProcessedIsEmpty,
        ValidExactlyWhenIdle, MainThreadInStep
  <2> QED BY <2>2, <2>3, <2>5
<1>6a. CASE acceptAuthenticFv
  <2>1. pc = "ready" /\ mCurrentFvState = "ProcessFV" /\ mCrAuthFvAndMac.first \in Fv
    BY <1>6a DEF acceptAuthenticFv, NothingProcessedIsEmpty, TypeOK
  <2>2. /\ mIsFvValid' = TRUE /\ mFV' = mCrAuthFvAndMac.first /\ mClockCount' = 0
        /\ pc' = "takenOver"
        /\ UNCHANGED <<mCurrentFvState, requestVars, mUnAuthFv, mCrAuthFvAndMac,
                       genRes, challengeSignal>>
    BY <1>6a DEF acceptAuthenticFv, takeOver
  <2>3. 0 \in 0..ClockRest
    BY ClockAssumption DEF ClockRest
  <2>4. TypeOK'
    BY <2>1, <2>2, <2>3 DEF TypeOK, requestVars
  <2>5. FvClockNeverStuck'
    BY <2>2, ZeroRuns DEF FvClockNeverStuck
  <2>6. NothingProcessedIsEmpty' /\ ValidExactlyWhenIdle' /\ MainThreadInStep'
    BY <2>1, <2>2
    DEF requestVars, NothingProcessedIsEmpty, ValidExactlyWhenIdle, MainThreadInStep
  <2> QED BY <2>4, <2>5, <2>6
<1>6b. CASE acceptedToIdle
  <2>1. pc = "takenOver" /\ mIsFvValid
    BY <1>6b DEF acceptedToIdle, MainThreadInStep
  <2>2. TypeOK'
    BY <1>6b, TimersKeepType
    DEF acceptedToIdle, clearPair, transiteTo, incTimersOnly, TypeOK,
        FreshnessValueState, requestVars
  <2>3. FvClockNeverStuck'
    BY <1>6b, TimersKeepClock DEF acceptedToIdle, incTimersOnly, TypeOK, FvClockNeverStuck
  <2>4. mIsFvValid' = mIsFvValid
    BY <1>6b DEF acceptedToIdle, incTimersOnly, incTimers
  <2>5. NothingProcessedIsEmpty' /\ ValidExactlyWhenIdle' /\ MainThreadInStep'
    BY <1>6b, <2>1, <2>4
    DEF acceptedToIdle, transiteTo, NothingProcessedIsEmpty, ValidExactlyWhenIdle,
        MainThreadInStep
  <2> QED BY <2>2, <2>3, <2>5
<1>6c. CASE refuseAuthenticFv
  <2>1. pc = "ready" /\ mCurrentFvState = "ProcessFV" /\ ~mIsFvValid
    BY <1>6c DEF refuseAuthenticFv, ValidExactlyWhenIdle
  <2>2. mIsFvValid' = mIsFvValid
    BY <1>6c DEF refuseAuthenticFv, incTimersOnly, incTimers
  <2>3. FvClockNeverStuck'
    BY <1>6c, TimersKeepClock DEF refuseAuthenticFv, incTimersOnly, TypeOK, FvClockNeverStuck
  <2>4. TypeOK'
    BY <1>6c, TimersKeepType
    DEF refuseAuthenticFv, clearPair, transiteTo, incTimersOnly, TypeOK,
        FreshnessValueState, requestVars, mainVars
  <2>5. NothingProcessedIsEmpty' /\ ValidExactlyWhenIdle' /\ MainThreadInStep'
    BY <1>6c, <2>1, <2>2
    DEF refuseAuthenticFv, transiteTo, requestVars, mainVars,
        NothingProcessedIsEmpty, ValidExactlyWhenIdle, MainThreadInStep
  <2> QED BY <2>3, <2>4, <2>5
<1>7a. CASE dropFv
  <2>1. /\ pc = "ready" /\ mCurrentFvState = "ProcessAnauthFV"
        /\ mIsFvValid' = FALSE /\ mUnAuthFv' = Empty /\ pc' = "dropped"
        /\ UNCHANGED <<mCurrentFvState, mFV, mClockCount, requestVars,
                       mCrAuthFvAndMac, genRes, challengeSignal>>
    BY <1>7a DEF dropFv, invalidate
  <2> QED
    BY <2>1
    DEF requestVars, TypeOK, FvClockNeverStuck, NothingProcessedIsEmpty,
        ValidExactlyWhenIdle, MainThreadInStep
<1>7b. CASE droppedToRequest
  <2>1. pc = "dropped" /\ ~mIsFvValid
    BY <1>7b DEF droppedToRequest, MainThreadInStep
  <2>2. TypeOK'
    BY <1>7b, TimersKeepType
    DEF droppedToRequest, transiteTo, incTimersOnly, TypeOK, FreshnessValueState,
        requestVars
  <2>3. FvClockNeverStuck'
    BY <1>7b, TimersKeepClock DEF droppedToRequest, incTimersOnly, TypeOK, FvClockNeverStuck
  <2>4. mIsFvValid' = mIsFvValid
    BY <1>7b DEF droppedToRequest, incTimersOnly, incTimers
  <2>5. NothingProcessedIsEmpty' /\ ValidExactlyWhenIdle' /\ MainThreadInStep'
    BY <1>7b, <2>1, <2>4
    DEF droppedToRequest, transiteTo, requestVars, NothingProcessedIsEmpty,
        ValidExactlyWhenIdle, MainThreadInStep
  <2> QED BY <2>2, <2>3, <2>5
<1>7c. CASE keepFv
  <2>1. pc = "ready" /\ mCurrentFvState = "ProcessAnauthFV" /\ mIsFvValid
    BY <1>7c DEF keepFv, ValidExactlyWhenIdle
  <2>2. TypeOK'
    BY <1>7c, TimersKeepType
    DEF keepFv, transiteTo, incTimersOnly, TypeOK, FreshnessValueState,
        requestVars, mainVars
  <2>3. FvClockNeverStuck'
    BY <1>7c, TimersKeepClock DEF keepFv, incTimersOnly, TypeOK, FvClockNeverStuck
  <2>4. mIsFvValid' = mIsFvValid
    BY <1>7c DEF keepFv, incTimersOnly, incTimers
  <2>5. NothingProcessedIsEmpty' /\ ValidExactlyWhenIdle' /\ MainThreadInStep'
    BY <1>7c, <2>1, <2>4
    DEF keepFv, transiteTo, requestVars, mainVars, NothingProcessedIsEmpty,
        ValidExactlyWhenIdle, MainThreadInStep
  <2> QED BY <2>2, <2>3, <2>5
<1>8. CASE idle
  <2>1. FvClockNeverStuck'
    BY <1>8, TimersKeepClock DEF idle, incTimersOnly, TypeOK, FvClockNeverStuck
  <2>2. TypeOK'
    BY <1>8, TimersKeepType DEF idle, incTimersOnly, TypeOK, requestVars, mainVars
  <2>3. mIsFvValid' = mIsFvValid
    BY <1>8 DEF idle, incTimersOnly, incTimers
  <2>4. NothingProcessedIsEmpty' /\ ValidExactlyWhenIdle'
        /\ MainThreadInStep'
    BY <1>8, <2>3
    DEF idle, requestVars, mainVars, NothingProcessedIsEmpty,
        ValidExactlyWhenIdle, MainThreadInStep
  <2> QED BY <2>1, <2>2, <2>4
<1>9. ASSUME NEW pair \in [first : Fv \cup {Empty}, second : Mac \cup {Empty}],
             receiveAuthentic(pair),
             mCrAuthFvAndMac.first # Empty => pair.first # Empty,
             mCrAuthFvAndMac.second # Empty => pair.second # Empty
      PROVE  IInv'
  BY <1>9
  DEF receiveAuthentic, reactToFVRes, clockVars, requestVars, mainVars, TypeOK,
      FreshnessValueState, FvClockNeverStuck, RunningClock,
      NothingProcessedIsEmpty, ValidExactlyWhenIdle, MainThreadInStep
<1>10. ASSUME NEW fv \in Fv, incomingAuthFvValue(fv) PROVE IInv'
  <2> DEFINE pair == [mCrAuthFvAndMac EXCEPT !.first = fv]
  <2>1. Empty \notin Fv  BY ClockAssumption DEF Fv
  <2>2. /\ pair \in [first : Fv \cup {Empty}, second : Mac \cup {Empty}]
        /\ pair.first # Empty /\ pair.second = mCrAuthFvAndMac.second
    BY <2>1 DEF TypeOK
  <2> QED BY <1>9, <1>10, <2>2 DEF incomingAuthFvValue
<1>11. ASSUME NEW mac \in Mac, incomingAuthFvSignature(mac) PROVE IInv'
  <2> DEFINE pair == [mCrAuthFvAndMac EXCEPT !.second = mac]
  <2>1. /\ pair \in [first : Fv \cup {Empty}, second : Mac \cup {Empty}]
        /\ pair.second # Empty /\ pair.first = mCrAuthFvAndMac.first
    BY DEF TypeOK
  <2> QED BY <1>9, <1>11, <2>1 DEF incomingAuthFvSignature
<1>12. ASSUME NEW fv \in Fv, incomingUnAuthFvSignalsCb(fv) PROVE IInv'
  <2>1. Empty \notin Fv  BY ClockAssumption DEF Fv
  <2> QED
    BY <1>12, <2>1
    DEF incomingUnAuthFvSignalsCb, reactToUnauthenticFVRes, clockVars,
        requestVars, mainVars, TypeOK, FreshnessValueState, FvClockNeverStuck,
        RunningClock, NothingProcessedIsEmpty, ValidExactlyWhenIdle,
        MainThreadInStep
<1>13. CASE UNCHANGED vars
  BY <1>13
  DEF vars, clockVars, requestVars, mainVars, TypeOK, FvClockNeverStuck,
      RunningClock, NothingProcessedIsEmpty, ValidExactlyWhenIdle,
      MainThreadInStep
<1> QED
  BY <1>1, <1>2, <1>3, <1>4, <1>5, <1>6a, <1>6b, <1>6c, <1>7a, <1>7b, <1>7c,
     <1>8, <1>10, <1>11, <1>12, <1>13
  DEF Next, MainFunction, requestAnAuthenticFv, processAnAuthenticFv,
      processAnUnauthenticFv, SignalCallback

LEMMA InductiveInvariant == Spec => []IInv
  BY InitIInv, StepIInv, PTL DEF Spec

-----------------------------------------------------------------------------
(* The variables of the participant always have their types.               *)
THEOREM TypeCorrect == Spec => []TypeOK
<1>1. IInv => TypeOK  BY DEF IInv
<1> QED BY <1>1, InductiveInvariant, PTL

(* incTimers never jumps over the == test that ends an increment.          *)
THEOREM ClockNeverStuck == Spec => []FvClockNeverStuck
<1>1. IInv => FvClockNeverStuck  BY DEF IInv
<1> QED BY <1>1, InductiveInvariant, PTL

(* MainFunction never takes an absent answer or broadcast apart.           *)
THEOREM NothingEmptyIsProcessed == Spec => []NothingProcessedIsEmpty
<1>1. IInv => NothingProcessedIsEmpty  BY DEF IInv
<1> QED BY <1>1, InductiveInvariant, PTL

(* mIsFvValid and the state machine agree in every interleaving, but for   *)
(* the moments between the main thread's writes to the one and the other.  *)
THEOREM ValidityFollowsState == Spec => []ValidExactlyWhenIdle
<1>1. IInv => ValidExactlyWhenIdle  BY DEF IInv
<1> QED BY <1>1, InductiveInvariant, PTL

(* Callbacks between two steps of the main thread never change the state it *)
(* has found in a way its next step does not expect.                        *)
THEOREM MainThreadNotOvertaken == Spec => []MainThreadInStep
<1>1. IInv => MainThreadInStep  BY DEF IInv
<1> QED BY <1>1, InductiveInvariant, PTL

(***************************************************************************)
(* The state machine leaves the arrows of its diagram only where a timed-  *)
(* out main thread drops a late response.                                  *)
(***************************************************************************)
THEOREM DiagramButForLateResponse == Spec => FollowsStateDiagramButForLateResponse
<1> DEFINE Arrows == Diagram \cup {<<"ProcessFV", "RequestFV">>}
<1>1. IInv /\ [Next]_vars => [MovesAlong(Arrows)]_vars
  <2> SUFFICES ASSUME IInv, Next, mCurrentFvState' # mCurrentFvState
               PROVE  <<mCurrentFvState, mCurrentFvState'>> \in Arrows
    BY DEF MovesAlong
  <2>1. CASE requestStore
    BY <2>1 DEF IInv, MainThreadInStep, requestStore, recordRequest, transiteTo, Diagram
  <2>2. CASE requestTimeout
    BY <2>2 DEF IInv, MainThreadInStep, requestTimeout, transiteTo, Diagram
  <2>3. CASE processAnAuthenticFv
    BY <2>3
    DEF IInv, MainThreadInStep, processAnAuthenticFv, acceptAuthenticFv,
        acceptedToIdle, refuseAuthenticFv, transiteTo, Diagram
  <2>4. CASE processAnUnauthenticFv
    BY <2>4
    DEF IInv, MainThreadInStep, processAnUnauthenticFv, dropFv, droppedToRequest,
        keepFv, transiteTo, Diagram
  <2>5. CASE requestFails \/ (\E c \in Challenge : requestPublish(c))
             \/ waitForAnAuthenticFv \/ idle
    BY <2>5 DEF requestFails, requestPublish, waitForAnAuthenticFv, idle
  <2>6. ASSUME NEW pair, receiveAuthentic(pair)
        PROVE  <<mCurrentFvState, mCurrentFvState'>> \in Arrows
    BY <2>6 DEF receiveAuthentic, reactToFVRes, Diagram
  <2>7. ASSUME NEW fv, incomingUnAuthFvSignalsCb(fv)
        PROVE  <<mCurrentFvState, mCurrentFvState'>> \in Arrows
    BY <2>7 DEF incomingUnAuthFvSignalsCb, reactToUnauthenticFVRes, Diagram
  <2>8. CASE SignalCallback
    BY <2>6, <2>7, <2>8
    DEF SignalCallback, incomingAuthFvValue, incomingAuthFvSignature
  <2> QED
    BY <2>1, <2>2, <2>3, <2>4, <2>5, <2>8
    DEF Next, MainFunction, requestAnAuthenticFv
<1> QED
  BY <1>1, InductiveInvariant, PTL
  DEF Spec, FollowsStateDiagramButForLateResponse

-----------------------------------------------------------------------------
(* How long a request is waited for. *)

(* Between two calls the code's timer is what the request has waited.      *)
WaitingInv ==
  /\ IInv
  /\ waited \in Nat
  /\ ~InProgress => waited = 0
  /\ InProgress /\ pc = "ready" => /\ waited = mTimeSinceAuthFvReq
                                   /\ waited <= TimeRequestTimeout

LEMMA WaitingStep == WaitingInv /\ [WaitingMain \/ WaitingCallback]_waitingVars
                       => WaitingInv'
<1> SUFFICES ASSUME WaitingInv, [WaitingMain \/ WaitingCallback]_waitingVars
             PROVE  WaitingInv'
  OBVIOUS
<1> USE ClockAssumption, ParticipantAssumption
<1>1. IInv /\ IInv' /\ TypeOK
  BY StepIInv DEF WaitingInv, IInv, WaitingMain, WaitingCallback, Next, waitingVars, vars
<1>2. waited' \in Nat /\ (~InProgress' => waited' = 0)
  BY DEF WaitingInv, WaitingMain, WaitingCallback, SignalCallback,
         incomingAuthFvValue, incomingAuthFvSignature, receiveAuthentic,
         incomingUnAuthFvSignalsCb, reactToFVRes, reactToUnauthenticFVRes,
         InProgress, waitingVars, vars
<1>3. ASSUME InProgress', pc' = "ready"
      PROVE  waited' = mTimeSinceAuthFvReq' /\ waited' <= TimeRequestTimeout
  <2>1. CASE WaitingCallback
    BY <1>3, <2>1
    DEF WaitingInv, WaitingCallback, SignalCallback,
        incomingAuthFvValue, incomingAuthFvSignature, receiveAuthentic,
        incomingUnAuthFvSignalsCb, reactToFVRes, reactToUnauthenticFVRes,
        InProgress, requestVars, mainVars
  <2>2. CASE UNCHANGED waitingVars
    BY <1>3, <2>2 DEF WaitingInv, InProgress, waitingVars, vars, requestVars, mainVars
  <2>3. CASE requestStore /\ WaitingMain
    BY <1>1, <1>3, <2>3
    DEF IInv, MainThreadInStep, requestStore, recordRequest, WaitingMain, InProgress
  <2>4. CASE waitForAnAuthenticFv /\ WaitingMain
    <3>1. /\ pc = "ready" /\ mCurrentFvState = "FVInProgress"
          /\ mCurrentFvState' = mCurrentFvState
          /\ mTimeSinceAuthFvReq' = mTimeSinceAuthFvReq + MainFunctionPeriod
          /\ mTimeSinceAuthFvReq' <= TimeRequestTimeout
      BY <1>1, <1>3, <2>4 DEF waitForAnAuthenticFv, TypeOK
    <3> QED BY <3>1, <2>4 DEF WaitingMain, WaitingInv, InProgress, Refuses
  <2>5. CASE refuseAuthenticFv /\ WaitingMain
    BY <2>5 DEF refuseAuthenticFv, transiteTo, requestVars, WaitingMain, WaitingInv,
                InProgress, Refuses
  <2>6. CASE requestFails \/ (\E c \in Challenge : requestPublish(c))
             \/ requestTimeout \/ acceptAuthenticFv \/ acceptedToIdle
             \/ processAnUnauthenticFv \/ idle
    BY <1>1, <1>3, <2>6
    DEF IInv, MainThreadInStep, requestFails, requestPublish, requestTimeout,
        acceptAuthenticFv, acceptedToIdle, processAnUnauthenticFv, dropFv,
        droppedToRequest, keepFv, idle, transiteTo, InProgress
  <2> QED
    BY <2>1, <2>2, <2>3, <2>4, <2>5, <2>6
    DEF WaitingMain, MainFunction, requestAnAuthenticFv, processAnAuthenticFv
<1> QED BY <1>1, <1>2, <1>3 DEF WaitingInv

(***************************************************************************)
(* Between two calls of MainFunction no request has been waited for longer *)
(* than the timeout and a call for each pair it refused, whatever signals  *)
(* arrive and when.                                                        *)
(***************************************************************************)
THEOREM RequestsTimeOut == WaitingSpec => []GivenUpAfterTimeout
<1>1. WaitingInit => WaitingInv
  BY InitIInv DEF WaitingInit, WaitingInv, Init, InProgress
<1>2. WaitingInv => GivenUpAfterTimeout
  BY ParticipantAssumption DEF WaitingInv, GivenUpAfterTimeout
<1> QED BY <1>1, <1>2, WaitingStep, PTL DEF WaitingSpec

-----------------------------------------------------------------------------
(* The jitter check. *)

(* The participant's invariant holds from the synchronised start as well.  *)
DriftInv == IInv /\ serverMillis \in Nat

-----------------------------------------------------------------------------
(* Differences of freshness values in milliseconds.                        *)
LEMMA Increments ==
  ASSUME NEW d \in Int
  PROVE  /\ d * TimeIncrementPeriod \in Int
         /\ d <= -1 => d * TimeIncrementPeriod <= -TimeIncrementPeriod
         /\ d = 0 => d * TimeIncrementPeriod = 0
         /\ d = 1 => d * TimeIncrementPeriod = TimeIncrementPeriod
         /\ d >= 1 => d * TimeIncrementPeriod >= TimeIncrementPeriod
         /\ d >= 2 => d * TimeIncrementPeriod >= 2 * TimeIncrementPeriod
  BY ClockAssumption, SMT

(* The first test of the code, and the second where the first is failed.   *)
LEMMA JitterCases ==
  ASSUME NEW fv \in Nat, NEW unauthFv \in Nat, NEW age \in Nat,
         age <= TimeIncrementPeriod,
         NEW jitter, NEW ahead,
         jitter = Jitter(fv, unauthFv, age - MainFunctionPeriod),
         ahead = (fv - unauthFv) * TimeIncrementPeriod + age
  PROVE  /\ Abs(ahead) <= TimeJitterMax => jitter <= TimeJitterMax
         /\ jitter <= TimeJitterMax => -TimeJitterMax <= ahead
         /\ jitter <= TimeJitterMax => ahead <= 2 * TimeIncrementPeriod
<1> USE ClockAssumption, ParticipantAssumption, DriftAssumption
<1> DEFINE d == fv - unauthFv
           millis == d * TimeIncrementPeriod
<1>1. millis \in Int /\ d \in Int
  BY Increments
<1>2. ahead = millis + age
  OBVIOUS
<1>3. jitter = IF Abs(millis) > TimeJitterMax THEN Abs(Abs(millis) - age)
                                              ELSE Abs(millis)
  BY <1>1 DEF Jitter, Abs
<1>4. \/ d <= -1 /\ millis <= -TimeIncrementPeriod
      \/ d = 0 /\ millis = 0
      \/ d = 1 /\ millis = TimeIncrementPeriod
      \/ d >= 2 /\ millis >= 2 * TimeIncrementPeriod
  BY <1>1, Increments
<1> HIDE DEF d, millis
<1> QED BY <1>1, <1>2, <1>3, <1>4 DEF Abs

-----------------------------------------------------------------------------
LEMMA InitDriftInv == DriftInit => DriftInv
<1> SUFFICES ASSUME DriftInit PROVE DriftInv  OBVIOUS
<1> USE ParticipantAssumption
<1>1. 0 \in Fv /\ 0 \in 0..ClockRest
  BY ClockAssumption DEF Fv, ClockRest
<1>2. TypeOK
  <2>1. mCrAuthFvAndMac \in [first : Fv \cup {Empty}, second : Mac \cup {Empty}]
    BY DEF DriftInit
  <2> QED BY <1>1, <2>1 DEF DriftInit, TypeOK, FreshnessValueState
<1>3. FvClockNeverStuck
  BY ZeroRuns DEF DriftInit, FvClockNeverStuck
<1>4. NothingProcessedIsEmpty /\ ValidExactlyWhenIdle
      /\ MainThreadInStep
  BY DEF DriftInit, NothingProcessedIsEmpty, ValidExactlyWhenIdle,
         MainThreadInStep
<1> QED BY <1>2, <1>3, <1>4 DEF DriftInv, IInv, DriftInit

(* A broadcast of the reduced server carries a value within the bound.     *)
LEMMA BroadcastInRange ==
  ASSUME NEW millis \in Nat, millis <= MaxFv * TimeIncrementPeriod
  PROVE  millis \div TimeIncrementPeriod \in Fv
<1> USE ClockAssumption
<1> DEFINE q == millis \div TimeIncrementPeriod
           r == millis % TimeIncrementPeriod
<1>1. q \in Nat /\ r \in Nat /\ millis = TimeIncrementPeriod * q + r
  BY SMT
<1> HIDE DEF q, r
<1>2. TimeIncrementPeriod * q <= TimeIncrementPeriod * MaxFv
  BY <1>1, SMT
<1>3. q <= MaxFv
  <2>1. SUFFICES ASSUME q >= MaxFv + 1 PROVE FALSE
    BY <1>1
  <2>2. TimeIncrementPeriod * q >= TimeIncrementPeriod * (MaxFv + 1)
    BY <1>1, <2>1, SMT
  <2>3. TimeIncrementPeriod * (MaxFv + 1) =
          TimeIncrementPeriod * MaxFv + TimeIncrementPeriod
    BY SMT
  <2> QED BY <1>1, <1>2, <2>2, <2>3, SMT
<1>4. q \in Fv  BY <1>1, <1>3 DEF Fv
<1> QED BY <1>4 DEF q

LEMMA StepDriftInv == DriftInv /\ [DriftNext]_driftVars => DriftInv'
<1> SUFFICES ASSUME DriftInv, [DriftNext]_driftVars PROVE DriftInv'
  OBVIOUS
<1> USE DEF DriftInv
<1>1. CASE ParticipantRuns
  BY <1>1, StepIInv DEF ParticipantRuns, Next
<1>2. CASE ServerRuns
  <2> DEFINE millis == serverMillis + MainFunctionPeriod
  <2>1. millis \in Nat /\ millis <= MaxFv * TimeIncrementPeriod
        /\ serverMillis' = millis
    BY <1>2, ClockAssumption DEF ServerRuns
  <2>2. [Next]_vars
    <3>1. millis \div TimeIncrementPeriod \in Fv
      BY <2>1, BroadcastInRange
    <3> QED BY <1>2, <3>1 DEF ServerRuns, Next, SignalCallback
  <2> QED BY <2>1, <2>2, StepIInv
<1>3. CASE UNCHANGED driftVars
  BY <1>3, StepIInv DEF driftVars
<1> QED BY <1>1, <1>2, <1>3 DEF DriftNext

LEMMA DriftInvariant == DriftSpec => []DriftInv
  BY InitDriftInv, StepDriftInv, PTL DEF DriftSpec

-----------------------------------------------------------------------------
(* Only processAnUnauthenticFv judges a broadcast.                         *)
LEMMA JudgedByJitter ==
  ASSUME DriftInv, DriftNext, Judged
  PROVE  /\ Kept <=> Jitter(mFV, mUnAuthFv, mClockCount) <= TimeJitterMax
         /\ mFV \in Nat /\ mUnAuthFv \in Nat /\ mClockCount \in Nat
         /\ mClockCount + MainFunctionPeriod <= TimeIncrementPeriod
<1> USE DEF DriftInv, IInv, Judged
<1>1. mFV \in Nat /\ mUnAuthFv \in Nat /\ mClockCount \in Nat
  BY ClockAssumption DEF TypeOK, NothingProcessedIsEmpty, Fv, ClockRest
<1>2. mIsFvValid /\ RunningClock(mClockCount)
  BY DEF ValidExactlyWhenIdle, FvClockNeverStuck
<1>3. mClockCount + MainFunctionPeriod <= TimeIncrementPeriod
  BY <1>1, <1>2, ClockAssumption, NextMultipleIsNext DEF RunningClock
<1>4. dropFv \/ keepFv
  BY <1>2 DEF DriftNext, ParticipantRuns, ServerRuns, MainFunction,
         requestAnAuthenticFv, requestFails, requestPublish, requestStore,
         waitForAnAuthenticFv, requestTimeout, processAnAuthenticFv,
         acceptAuthenticFv, acceptedToIdle, refuseAuthenticFv,
         processAnUnauthenticFv, droppedToRequest, idle,
         incomingUnAuthFvSignalsCb, reactToUnauthenticFVRes, vars, clockVars
<1>5. Jitter(mFV, mUnAuthFv, mClockCount) \in Int
  <2>1. (mFV - mUnAuthFv) * TimeIncrementPeriod \in Int
    BY <1>1, Increments
  <2> QED BY <1>1, <2>1, ClockAssumption DEF Jitter, Abs
<1>6. CASE dropFv
  <2>1. mIsFvValid' = FALSE /\ JitterExceeded
    BY <1>6 DEF dropFv, invalidate
  <2> QED BY <1>1, <1>3, <1>5, <2>1, ParticipantAssumption DEF Kept, JitterExceeded
<1>7. CASE keepFv
  <2>1. mIsFvValid' = mIsFvValid /\ ~JitterExceeded
    BY <1>7 DEF keepFv, incTimersOnly, incTimers
  <2> QED BY <1>1, <1>2, <1>3, <1>5, <2>1, ParticipantAssumption DEF Kept, JitterExceeded
<1> QED BY <1>4, <1>6, <1>7

LEMMA JudgedBounds ==
  ASSUME DriftInv, DriftNext, Judged
  PROVE  /\ Abs(Ahead) <= TimeJitterMax => Kept
         /\ Kept => -TimeJitterMax <= Ahead /\ Ahead <= 2 * TimeIncrementPeriod
<1> DEFINE age == mClockCount + MainFunctionPeriod
           jitter == Jitter(mFV, mUnAuthFv, age - MainFunctionPeriod)
<1>1. age \in Nat /\ age <= TimeIncrementPeriod /\ mClockCount \in Nat
      /\ mFV \in Nat /\ mUnAuthFv \in Nat
  BY JudgedByJitter, ClockAssumption
<1>2. age - MainFunctionPeriod = mClockCount
  BY <1>1, ClockAssumption
<1>3. Kept <=> jitter <= TimeJitterMax
  BY <1>2, JudgedByJitter
<1>4. Ahead = (mFV - mUnAuthFv) * TimeIncrementPeriod + age
  <2>1. (mFV - mUnAuthFv) * TimeIncrementPeriod \in Int
    BY <1>1, Increments
  <2> QED BY <1>1, <2>1, ClockAssumption DEF Ahead
<1> HIDE DEF age, jitter
<1>5. /\ Abs(Ahead) <= TimeJitterMax => jitter <= TimeJitterMax
      /\ jitter <= TimeJitterMax => -TimeJitterMax <= Ahead
      /\ jitter <= TimeJitterMax => Ahead <= 2 * TimeIncrementPeriod
  BY <1>1, <1>4, JitterCases DEF jitter
<1> QED BY <1>3, <1>5

(***************************************************************************)
(* A participant within the maximum jitter never loses its value.          *)
(***************************************************************************)
THEOREM JitterCheckNoFalseAlarm == DriftSpec => NoFalseAlarm
<1>1. DriftInv /\ [DriftNext]_driftVars
        => [Judged /\ Abs(Ahead) <= TimeJitterMax => Kept]_driftVars
  BY JudgedBounds
<1> QED BY <1>1, DriftInvariant, PTL DEF DriftSpec, NoFalseAlarm

(***************************************************************************)
(* A value that passes the check is late by no more than the maximum       *)
(* jitter, and early by no more than two increments.                       *)
(***************************************************************************)
THEOREM JitterCheckBounds == DriftSpec => KeptIsBoundedLateAndEarly
<1>1. DriftInv /\ [DriftNext]_driftVars
        => [Judged /\ Kept =>
              /\ -TimeJitterMax <= Ahead
              /\ Ahead <= 2 * TimeIncrementPeriod]_driftVars
  BY JudgedBounds
<1> QED BY <1>1, DriftInvariant, PTL DEF DriftSpec, KeptIsBoundedLateAndEarly
=============================================================================
