--------------------------- MODULE FvServerProofs ---------------------------
(***************************************************************************)
(* Proofs about FvServer for all periods, clients and challenges, whatever *)
(* publications and signatures fail and whenever challenges arrive.        *)
(***************************************************************************)
EXTENDS FvServerWaiting, FvmClockLemmas

(***************************************************************************)
(* Two counters advance by the same step.  One restarts at n, the other at *)
(* m, a multiple of n; modulo n they stay equal.                           *)
(***************************************************************************)
StepsThatFit(n, m, time, p) ==
  /\ n \in Nat \ {0} /\ m \in Nat \ {0} /\ m % n = 0
  /\ time \in 0..(m - 1)
  /\ p \in Nat
  /\ (time % n) + p <= n

AtBound(n, next) == IF next = n THEN 0 ELSE next

LEMMA RestartsInStep ==
  ASSUME NEW n, NEW m, NEW time, NEW p, StepsThatFit(n, m, time, p)
  PROVE  ((time + p) % m) % n = AtBound(n, (time % n) + p)
<1>0. /\ n \in Nat \ {0} /\ m \in Nat \ {0} /\ m % n = 0
      /\ time \in 0..(m - 1)
      /\ p \in Nat
      /\ (time % n) + p <= n
  BY DEF StepsThatFit
<1> DEFINE a == time \div n
           s == m \div n
           next == (time % n) + p
<1>1. a \in Nat /\ next \in Nat /\ time + p = n * a + next /\ n * a <= time
  <2>1. time \in Nat /\ n \in Nat \ {0} /\ p \in Nat
    BY <1>0
  <2>2. a \in Nat /\ (time % n) \in 0..(n - 1) /\ time = n * a + (time % n)
    BY <2>1, Division
  <2>3. n * a \in Nat
    BY <2>1, <2>2, SMT
  <2> HIDE DEF a
  <2> QED BY <2>1, <2>2, <2>3
<1>2. s \in Nat /\ m = n * s
  BY <1>0, Quotient
<1>3. next <= n
  BY <1>0
<1> HIDE DEF a, s, next
<1>4. a < s
  <2>1. n * a < n * s
    BY <1>0, <1>1, <1>2
  <2> QED BY <1>0, <2>1, <1>1, <1>2, SMT
<1>5. n * (a + 1) <= n * s /\ n * (a + 1) = n * a + n
  BY <1>0, <1>1, <1>2, <1>4, SMT
<1>6. CASE next < n
  <2>1. n * a + next \in 0..(m - 1)
    BY <1>0, <1>1, <1>2, <1>5, <1>6
  <2>2. (n * a + next) % m = n * a + next
    BY <1>0, <2>1, SMT
  <2>3. (n * a + next) % n = next
    <3>1. next \in 0..(n - 1)
      BY <1>0, <1>1, <1>6
    <3> QED BY <1>0, <1>1, <3>1, Remainder
  <2>4. ((time + p) % m) % n = next
    BY <1>0, <1>1, <2>2, <2>3
  <2>5. next # n
    BY <1>0, <1>1, <1>6
  <2> QED BY <1>0, <2>4, <2>5 DEF next, AtBound
<1>7. CASE next = n
  <2>1. time + p = n * (a + 1)
    BY <1>0, <1>1, <1>5, <1>7
  <2>2. CASE a + 1 = s
    <3>1. (time + p) % m = 0
      BY <1>0, <1>2, <2>1, <2>2, SMT
    <3>2. 0 % n = 0
      BY <1>0, SMT
    <3> QED BY <1>0, <1>7, <3>1, <3>2 DEF next, AtBound
  <2>3. CASE a + 1 < s
    <3>1. n * (a + 1) \in 0..(m - 1)
      BY <1>0, <1>1, <1>2, <2>3, SMT
    <3>2. (time + p) % m = n * (a + 1)
      BY <1>0, <2>1, <3>1, SMT
    <3>3. (n * (a + 1)) % n = 0
      BY <1>0, <1>1, Multiple
    <3> QED BY <1>0, <1>7, <3>2, <3>3 DEF next, AtBound
  <2>4. a + 1 = s \/ a + 1 < s
    BY <1>0, <1>1, <1>2, <1>4
  <2> QED BY <2>2, <2>3, <2>4
<1>8. next < n \/ next = n
  BY <1>0, <1>1, <1>3
<1> QED BY <1>6, <1>7, <1>8

-----------------------------------------------------------------------------
(***************************************************************************)
(* The invariant.  mTimeSinceInit and mClockCount are in step because both *)
(* advance in incTimers only and the send period is a multiple of the      *)
(* increment; an answer is due only when that call has reset mClockCount.  *)
(***************************************************************************)
ServerInv == TypeOK /\ CountersInStep /\ AnswersOnIncrement

LEMMA InitServerInv == Init => ServerInv
<1> SUFFICES ASSUME Init PROVE ServerInv  OBVIOUS
<1>1. TypeOK
  <2>1. RandomFv \subseteq Fv /\ 0 \in 0..ClockRest /\ 0 \in 0..(TimeSend - 1)
    BY ClockAssumption, ServerAssumption DEF ClockRest
  <2> QED BY <2>1 DEF Init, TypeOK
<1>2. CountersInStep
  <2>1. 0 % TimeIncrementPeriod = 0
    BY ClockAssumption, Multiple, SMT
  <2> QED BY <2>1, ZeroRuns DEF Init, CountersInStep
<1>3. AnswersOnIncrement
  BY DEF Init, AnswersOnIncrement
<1> QED BY <1>1, <1>2, <1>3 DEF ServerInv

(* incTimers, the tail of every call, keeps the timers typed and in step. *)
LEMMA TimersKeepStep ==
  ASSUME TypeOK, CountersInStep, incTimers
  PROVE  /\ mFV' \in Fv
         /\ mClockCount' \in 0..ClockRest
         /\ mTimeSinceInit' \in 0..(TimeSend - 1)
         /\ CountersInStep'
         /\ mFV' # mFV => mClockCount' = 0
<1>1. mFV' \in Fv
  BY NextFvType DEF TypeOK, incTimers
<1>2. mClockCount' \in 0..ClockRest
  BY NextClockType DEF TypeOK, incTimers
<1>3. mTimeSinceInit' \in 0..(TimeSend - 1)
  <2>1. mTimeSinceInit + MainFunctionPeriod \in Nat /\ TimeSend \in Nat \ {0}
    BY ClockAssumption, ServerAssumption DEF TypeOK
  <2> QED BY <2>1, Division DEF incTimers
<1>4. mClockCount \in Nat
  BY ClockAssumption DEF TypeOK, ClockRest
<1>5. RunningClock(mClockCount')
  BY <1>4, ClockKeepsRunning DEF CountersInStep, incTimers
<1>6. mClockCount + MainFunctionPeriod <= TimeIncrementPeriod
  BY <1>4, ClockAssumption, NextMultipleIsNext DEF CountersInStep, RunningClock
<1>7. mClockCount' = AtBound(TimeIncrementPeriod, mClockCount + MainFunctionPeriod)
  BY <1>4, <1>6, ClockAssumption
     DEF incTimers, NextClock, Due, AtLeast, ClockRest, AtBound
<1>8. mTimeSinceInit' % TimeIncrementPeriod = mClockCount'
  <2>1. /\ TimeIncrementPeriod \in Nat \ {0} /\ TimeSend \in Nat \ {0}
        /\ TimeSend % TimeIncrementPeriod = 0 /\ MainFunctionPeriod \in Nat
    BY ClockAssumption, ServerAssumption
  <2>2. /\ mTimeSinceInit \in 0..(TimeSend - 1)
        /\ mTimeSinceInit % TimeIncrementPeriod = mClockCount
    BY DEF TypeOK, CountersInStep
  <2>3. StepsThatFit(TimeIncrementPeriod, TimeSend, mTimeSinceInit,
                     MainFunctionPeriod)
    BY <1>6, <2>1, <2>2 DEF StepsThatFit
  <2>4. ((mTimeSinceInit + MainFunctionPeriod) % TimeSend) % TimeIncrementPeriod
          = AtBound(TimeIncrementPeriod, mClockCount + MainFunctionPeriod)
    <3>1. ((mTimeSinceInit + MainFunctionPeriod) % TimeSend) % TimeIncrementPeriod
            = AtBound(TimeIncrementPeriod,
                (mTimeSinceInit % TimeIncrementPeriod) + MainFunctionPeriod)
      BY <2>3, RestartsInStep
    <3> QED BY <2>2, <3>1
  <2> QED BY <1>7, <2>4 DEF incTimers
<1>9. mFV' # mFV => mClockCount' = 0
  BY DEF incTimers, NextFv, NextClock
<1> QED BY <1>1, <1>2, <1>3, <1>5, <1>8, <1>9 DEF CountersInStep

LEMMA TrimType ==
  ASSUME NEW fv \in Fv
  PROVE  Trim(fv) \in Fv
<1>1. fv \in Nat /\ FvModulus \in Nat \ {0} /\ MaxFv \in Nat
  BY ClockAssumption, ServerAssumption DEF Fv
<1>2. (fv % FvModulus) \in Nat /\ fv % FvModulus <= fv
  BY <1>1, SMT
<1> QED BY <1>1, <1>2 DEF Trim, Fv

LEMMA StepServerInv == ServerInv /\ [Next]_vars => ServerInv'
<1> SUFFICES ASSUME ServerInv, [Next]_vars PROVE ServerInv'
  OBVIOUS
<1> USE DEF ServerInv
<1>1. ASSUME NEW published \in BOOLEAN, NEW full \in SUBSET Pending,
             NEW half \in SUBSET (Pending \ full),
             MainFunction(published, full, half)
      PROVE  ServerInv'
  <2>1. incTimers
    BY <1>1 DEF MainFunction
  <2>2. broadcastSignal' \subseteq Fv
    BY <1>1 DEF MainFunction, unauthenticatedBroadcast, TypeOK
  <2>3. mNeedToBroadcastFv' \in BOOLEAN /\ mNeedToSendAuthFvResponses' \in BOOLEAN
    BY <1>1 DEF MainFunction, AnswersDue
  <2>4. /\ mResponsePendingChallenges' \in [Client -> Challenge \cup {NoChallenge}]
        /\ valueSignal' \in [Client -> SUBSET Fv]
        /\ signatureSignal' \in [Client -> SUBSET [challenge : Challenge, fv : Fv]]
    <3>1. CASE ~mNeedToSendAuthFvResponses
      BY <1>1, <3>1 DEF MainFunction, TypeOK
    <3>2. CASE mNeedToSendAuthFvResponses
      <4>1. sendAuthenticFvResponses(full, half)
        BY <1>1, <3>2 DEF MainFunction
      <4>2. Trim(mFV) \in Fv
        BY TrimType DEF TypeOK
      <4>3. \A client \in full : mResponsePendingChallenges[client] \in Challenge
        BY DEF Pending, TypeOK
      <4>4. mResponsePendingChallenges' \in [Client -> Challenge \cup {NoChallenge}]
        BY <4>1 DEF sendAuthenticFvResponses
      <4>5. valueSignal' \in [Client -> SUBSET Fv]
        BY <4>1, <4>2 DEF sendAuthenticFvResponses, TypeOK
      <4>6. signatureSignal' \in [Client -> SUBSET [challenge : Challenge, fv : Fv]]
        BY <4>1, <4>2, <4>3 DEF sendAuthenticFvResponses, TypeOK
      <4> QED BY <4>4, <4>5, <4>6
    <3> QED BY <3>1, <3>2 DEF TypeOK
  <2>5. TypeOK' /\ CountersInStep'
    BY <2>1, <2>2, <2>3, <2>4, TimersKeepStep DEF TypeOK
  <2>6. AnswersOnIncrement'
    BY <1>1, <2>1, TimersKeepStep DEF MainFunction, AnswersDue, AnswersOnIncrement
  <2> QED BY <2>5, <2>6
<1>2. ASSUME NEW client \in Client, NEW challenge \in Challenge,
             incomingAuthFvChallengeSignalsCb(client, challenge)
      PROVE  ServerInv'
  <2>1. mResponsePendingChallenges' \in [Client -> Challenge \cup {NoChallenge}]
    BY <1>2 DEF incomingAuthFvChallengeSignalsCb, TypeOK
  <2>2. UNCHANGED <<clockVars, flagVars, outVars>>
    BY <1>2 DEF incomingAuthFvChallengeSignalsCb
  <2> QED BY <2>1, <2>2 DEF TypeOK, CountersInStep, AnswersOnIncrement,
                            clockVars, flagVars, outVars
<1>3. CASE UNCHANGED vars
  BY <1>3 DEF vars, clockVars, flagVars, outVars, TypeOK, CountersInStep,
              AnswersOnIncrement
<1> QED BY <1>1, <1>2, <1>3 DEF Next, Main, ChallengeArrives

LEMMA ServerInvariant == Spec => []ServerInv
<1> QED BY InitServerInv, StepServerInv, PTL DEF Spec

(* Every variable keeps its type; no answer carries a value that cannot be. *)
THEOREM TypeCorrect == Spec => []TypeOK
<1>1. ServerInv => TypeOK
  BY DEF ServerInv
<1> QED BY <1>1, ServerInvariant, PTL

(* The server's two timers never drift apart, for any periods that divide. *)
THEOREM TimersInStep == Spec => []CountersInStep
<1>1. ServerInv => CountersInStep
  BY DEF ServerInv
<1> QED BY <1>1, ServerInvariant, PTL

(* Answers to clients leave at an increment and at no other time. *)
THEOREM AnswersAtIncrement == Spec => []AnswersOnIncrement
<1>1. ServerInv => AnswersOnIncrement
  BY DEF ServerInv
<1> QED BY <1>1, ServerInvariant, PTL

(* A due broadcast stays due until the medium has taken a value. *)
THEOREM BroadcastNotForgotten == Spec => BroadcastIsRetried
<1> DEFINE Retried ==
      mNeedToBroadcastFv /\ ~mNeedToBroadcastFv' => mFV \in broadcastSignal'
<1>1. ServerInv /\ [Next]_vars => [Retried]_vars
  <2> SUFFICES ASSUME Next, mNeedToBroadcastFv, ~mNeedToBroadcastFv'
               PROVE  mFV \in broadcastSignal'
    OBVIOUS
  <2>1. ASSUME NEW published \in BOOLEAN, NEW full, NEW half,
               MainFunction(published, full, half)
        PROVE  mFV \in broadcastSignal'
    <3>1. published
      BY <2>1 DEF MainFunction, StillToBroadcast
    <3> QED BY <2>1, <3>1 DEF MainFunction, unauthenticatedBroadcast
  <2>2. ~ChallengeArrives
    BY DEF ChallengeArrives, incomingAuthFvChallengeSignalsCb, flagVars
  <2> QED BY <2>1, <2>2 DEF Next, Main
<1> QED BY <1>1, ServerInvariant, PTL DEF Spec, BroadcastIsRetried
-----------------------------------------------------------------------------
(* How long a challenge waits: the history variable of FvServerWaiting     *)
(* changes nothing of FvServer, whose invariant is used.                   *)

(* A wait is never longer than the increment has been running; when the    *)
(* increment has just ended, the answers are due.                          *)
WaitWithin ==
  /\ waited \in [Client -> Nat]
  /\ \A client \in Client :
       waited[client] <=
         IF mNeedToSendAuthFvResponses THEN TimeIncrementPeriod ELSE mClockCount

WaitingInv == ServerInv /\ WaitWithin

WaitingNext == WaitingMain \/ WaitingArrival

LEMMA InitWaitingInv == WaitingInit => WaitingInv
<1> SUFFICES ASSUME WaitingInit PROVE WaitingInv  OBVIOUS
<1>1. ServerInv
  BY InitServerInv DEF WaitingInit
<1>2. WaitWithin
  BY DEF WaitingInit, Init, WaitWithin
<1> QED BY <1>1, <1>2 DEF WaitingInv

(* One pass of the loop. *)
LEMMA MainKeepsWait ==
  ASSUME WaitingInv, NEW published \in BOOLEAN,
         NEW full, NEW half, MainFunction(published, full, half), Wait
  PROVE  WaitWithin'
<1>1. /\ mClockCount \in Nat /\ MainFunctionPeriod \in Nat
      /\ TimeIncrementPeriod \in Nat /\ RunningClock(mClockCount)
  BY ClockAssumption DEF WaitingInv, ServerInv, TypeOK, CountersInStep, ClockRest
<1>2. mClockCount + MainFunctionPeriod <= TimeIncrementPeriod
  BY <1>1, ClockAssumption, NextMultipleIsNext DEF RunningClock
<1>3. mClockCount' \in Nat /\ mNeedToSendAuthFvResponses' \in BOOLEAN
  BY <1>1, ClockKeepsRunning DEF MainFunction, incTimers, AnswersDue
<1>4. \A client \in Client : waited[client] \in Nat
  BY DEF WaitingInv, WaitWithin
<1>5. waited' \in [Client -> Nat]
  BY <1>1, <1>4 DEF Wait
<1>6. CASE mNeedToSendAuthFvResponses
  <2>1. \A client \in Client : waited'[client] = 0
    BY <1>6 DEF MainFunction, sendAuthenticFvResponses, Wait
  <2> QED BY <1>1, <1>3, <1>5, <2>1 DEF WaitWithin
<1>7. CASE ~mNeedToSendAuthFvResponses
  <2>1. \A client \in Client :
          waited'[client] <= mClockCount + MainFunctionPeriod
    BY <1>1, <1>4, <1>7 DEF Wait, WaitingInv, WaitWithin
  <2>2. \/ mNeedToSendAuthFvResponses'
        \/ mClockCount' = mClockCount + MainFunctionPeriod
    <3>1. CASE mClockCount + MainFunctionPeriod = TimeIncrementPeriod
      <4>1. mFV \in Nat
        BY DEF WaitingInv, ServerInv, TypeOK, Fv
      <4>2. mFV' = mFV + 1
        BY <3>1 DEF MainFunction, incTimers, NextFv, Due
      <4>3. mNeedToSendAuthFvResponses' = (mFV' # mFV)
        BY DEF MainFunction, AnswersDue
      <4>4. mFV' # mFV
        BY <4>1, <4>2
      <4> QED BY <4>3, <4>4, Zenon
    <3>2. CASE mClockCount + MainFunctionPeriod < TimeIncrementPeriod
      BY <1>1, <3>2 DEF MainFunction, incTimers, NextClock, Due, AtLeast, ClockRest
    <3> QED BY <1>1, <1>2, <3>1, <3>2
  <2>3. \A client \in Client : waited'[client] \in Nat
    BY <1>5
  <2> QED BY <1>1, <1>2, <1>3, <1>5, <2>1, <2>2, <2>3 DEF WaitWithin
<1> QED BY <1>6, <1>7

LEMMA StepWaitingInv ==
  WaitingInv /\ [WaitingNext]_<<vars, waited>> => WaitingInv'
<1> SUFFICES ASSUME WaitingInv, [WaitingNext]_<<vars, waited>>
             PROVE  WaitingInv'
  OBVIOUS
<1>1. ServerInv'
  <2>1. [Next]_vars
    BY DEF WaitingNext, WaitingMain, WaitingArrival, Next, ChallengeArrives
  <2> QED BY <2>1, StepServerInv DEF WaitingInv
<1>2. CASE WaitingMain
  <2>1. PICK published \in BOOLEAN : Main(published)
    BY <1>2 DEF WaitingMain
  <2>2. PICK full, half : MainFunction(published, full, half)
    BY <2>1 DEF Main
  <2>3. WaitWithin'
    BY <1>2, <2>2, MainKeepsWait DEF WaitingMain
  <2> QED BY <1>1, <2>3 DEF WaitingInv
<1>3. CASE WaitingArrival
  <2>1. PICK client \in Client :
          /\ waited' = [waited EXCEPT ![client] = 0]
          /\ UNCHANGED <<mClockCount, mNeedToSendAuthFvResponses>>
    BY <1>3 DEF WaitingArrival, incomingAuthFvChallengeSignalsCb, clockVars, flagVars
  <2>2. mClockCount \in Nat /\ TimeIncrementPeriod \in Nat
    BY ClockAssumption DEF WaitingInv, ServerInv, TypeOK, ClockRest
  <2>3. WaitWithin'
    BY <2>1, <2>2 DEF WaitingInv, WaitWithin
  <2> QED BY <1>1, <2>3 DEF WaitingInv
<1>4. CASE UNCHANGED <<vars, waited>>
  <2>1. WaitWithin'
    BY <1>4 DEF WaitingInv, WaitWithin, vars, clockVars, flagVars
  <2> QED BY <1>1, <2>1 DEF WaitingInv
<1> QED BY <1>2, <1>3, <1>4 DEF WaitingNext

(***************************************************************************)
(* A challenge is dealt with within one increment, whenever it arrives and *)
(* for every pair of periods that divide.                                  *)
(***************************************************************************)
THEOREM EveryChallengeIsDealtWith == WaitingSpec => []DealtWithWithinIncrement
<1>1. WaitingInv => DealtWithWithinIncrement
  <2> SUFFICES ASSUME WaitingInv, NEW client \in Client
               PROVE  waited[client] <= TimeIncrementPeriod
    BY DEF DealtWithWithinIncrement
  <2>1. /\ waited[client] \in Nat
        /\ mClockCount \in Nat /\ TimeIncrementPeriod \in Nat
        /\ mClockCount < TimeIncrementPeriod
    BY ClockAssumption
    DEF WaitingInv, WaitWithin, ServerInv, TypeOK, CountersInStep, RunningClock,
        ClockRest
  <2> QED BY <2>1 DEF WaitingInv, WaitWithin
<1> QED
  BY <1>1, InitWaitingInv, StepWaitingInv, PTL DEF WaitingSpec, WaitingNext
=============================================================================
