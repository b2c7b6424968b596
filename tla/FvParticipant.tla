---------------------------- MODULE FvParticipant ---------------------------
(***************************************************************************)
(* One FVM participant ECU: the state machine by which it obtains the      *)
(* authentic freshness value from the server and keeps or drops it when an *)
(* unauthentic broadcast arrives.                                          *)
(*                                                                         *)
(* Threads: the application's loop calls MainFunction; the communication   *)
(* stack calls the incoming-signal callbacks at any time.  A callback runs *)
(* under one of two mutexes, mRecFVMutex for the authentic and             *)
(* mRecUnauthFvMutex for the unauthentic signals, and is a single action.  *)
(* MainFunction is split where another thread may come in between: between *)
(* publishing a challenge and recording it, between finding a request      *)
(* timed out and taking mRecFVMutex, and between writing the validity,     *)
(* which SecOC's threads read without a lock, and changing the state.      *)
(* While it holds one mutex the callbacks under the other still run.  What *)
(* the signals carry is left open here; see FvDistribution for the         *)
(* participant connected to a server.                                      *)
(***************************************************************************)
EXTENDS Integers, FvmClock

CONSTANTS
  TimeJitterMax,       \* SOK_FM_TIME_JITTER_MAX_MS
  TimeRequestTimeout,  \* SOK_FM_TIME_REQUEST_TIMEOUT_MS
  FvModulus,           \* 2^56: a signature is over the lower seven bytes
  Challenge,           \* the random numbers; each is drawn at most once
  Empty                \* an empty byte vector

ASSUME ParticipantAssumption ==
  /\ TimeJitterMax \in Nat
  /\ TimeRequestTimeout \in Nat
  /\ FvModulus \in Nat \ {0}
  /\ Empty \notin Challenge \cup Int

(* A value of eight bytes without the first of them. *)
Trim(fv) == fv % FvModulus

(* A signature is the challenge and the seven bytes it was computed over. *)
Mac == [challenge : Challenge, fv : {Trim(fv) : fv \in Fv}]

ASSUME MacAssumption == Empty \notin Mac

VARIABLES
  mCurrentFvState,      \* FreshnessValueStateManager::mCurrentFvState
  mIsFvValid, mFV, mClockCount,
  mTimeSinceAuthFvReq,
  mActiveFvChallenge,   \* challenge of the request in progress
  mUnAuthFv,            \* last unauthentic value received
  mCrAuthFvAndMac,      \* last authentic value and signature received
  pc,                   \* where the MainFunction thread is
  genRes,               \* its local: the random number just published
  challengeSignal       \* challenges published so far

clockVars == <<mIsFvValid, mFV, mClockCount>>
requestVars == <<mTimeSinceAuthFvReq, mActiveFvChallenge>>
mainVars == <<pc, genRes, challengeSignal>>
vars == <<mCurrentFvState, clockVars, requestVars, mUnAuthFv,
          mCrAuthFvAndMac, mainVars>>

FreshnessValueState ==
  {"RequestFV", "FVInProgress", "ProcessFV", "Idle", "ProcessAnauthFV"}

NeverRequested == 65535  \* initial mTimeSinceAuthFvReq

Init ==
  /\ mCurrentFvState = "RequestFV"
  /\ mIsFvValid = FALSE
  /\ mFV = 0
  /\ mClockCount = 0
  /\ mTimeSinceAuthFvReq = NeverRequested
  /\ mActiveFvChallenge = Empty
  /\ mUnAuthFv = Empty
  /\ mCrAuthFvAndMac = [first |-> Empty, second |-> Empty]
  /\ pc = "ready"
  /\ genRes = Empty
  /\ challengeSignal = {}

-----------------------------------------------------------------------------
(* MainFunction.                                                           *)

transiteTo(state) == mCurrentFvState' = state

incTimers(valid, fv, clock) ==
  /\ WithinBound(valid, clock, fv)
  /\ mIsFvValid' = valid
  /\ mFV' = NextFv(valid, clock, fv)
  /\ mClockCount' = NextClock(valid, clock)

(* The tail of every MainFunction whose action left the clock alone. *)
incTimersOnly == incTimers(mIsFvValid, mFV, mClockCount)

(* No random number, or nobody took the challenge: try again next time. *)
requestFails ==
  /\ pc = "ready" /\ mCurrentFvState = "RequestFV"
  /\ incTimersOnly
  /\ UNCHANGED <<mCurrentFvState, requestVars, mUnAuthFv, mCrAuthFvAndMac,
                 mainVars>>

(* The challenge is on its way before the participant remembers it. *)
requestPublish(c) ==
  /\ pc = "ready" /\ mCurrentFvState = "RequestFV"
  /\ c \notin challengeSignal
  /\ pc' = "published"
  /\ genRes' = c
  /\ challengeSignal' = challengeSignal \cup {c}
  /\ UNCHANGED <<mCurrentFvState, clockVars, requestVars, mUnAuthFv,
                 mCrAuthFvAndMac>>

WrongChallengeKept(challenge) ==
  /\ mActiveFvChallenge' =
       IF mActiveFvChallenge = Empty THEN challenge ELSE mActiveFvChallenge
  /\ mTimeSinceAuthFvReq' = 0

recordRequest(challenge) ==
  /\ mActiveFvChallenge' = challenge
  /\ mTimeSinceAuthFvReq' = 0

requestStore ==
  /\ pc = "published"
  /\ recordRequest(genRes)
  /\ transiteTo("FVInProgress")
  /\ pc' = "ready"
  /\ genRes' = Empty
  /\ incTimersOnly
  /\ UNCHANGED <<mUnAuthFv, mCrAuthFvAndMac, challengeSignal>>

requestAnAuthenticFv ==
  requestFails \/ (\E c \in Challenge : requestPublish(c)) \/ requestStore

waitForAnAuthenticFv ==
  LET elapsed == mTimeSinceAuthFvReq + MainFunctionPeriod IN
  /\ pc = "ready" /\ mCurrentFvState = "FVInProgress"
  /\ mTimeSinceAuthFvReq' = elapsed
  /\ IF elapsed > TimeRequestTimeout
       THEN pc' = "timedOut" /\ UNCHANGED clockVars
       ELSE incTimersOnly /\ UNCHANGED pc
  /\ UNCHANGED <<mCurrentFvState, mActiveFvChallenge, mUnAuthFv,
                 mCrAuthFvAndMac, genRes, challengeSignal>>

(* Whatever arrived before the lock was taken, the request is given up. *)
requestTimeout ==
  /\ pc = "timedOut"
  /\ transiteTo("RequestFV")
  /\ pc' = "ready"
  /\ incTimersOnly
  /\ UNCHANGED <<requestVars, mUnAuthFv, mCrAuthFvAndMac, genRes,
                 challengeSignal>>

WrongMacWithoutChallenge(challenge, fv, mac) == mac.fv = Trim(fv)

MacVerify(challenge, fv, mac) ==
  mac = [challenge |-> challenge, fv |-> Trim(fv)]

WrongClockKept(fv) == mIsFvValid' = TRUE /\ mFV' = fv /\ UNCHANGED mClockCount

takeOver(fv) == mIsFvValid' = TRUE /\ mFV' = fv /\ mClockCount' = 0

clearPair == mCrAuthFvAndMac' = [first |-> Empty, second |-> Empty]

Verified == MacVerify(mActiveFvChallenge, mCrAuthFvAndMac.first,
                      mCrAuthFvAndMac.second)

(* All eight bytes are taken over where seven have been verified. *)
acceptAuthenticFv ==
  /\ pc = "ready" /\ mCurrentFvState = "ProcessFV"
  /\ Verified
  /\ takeOver(mCrAuthFvAndMac.first)
  /\ pc' = "takenOver"
  /\ UNCHANGED <<mCurrentFvState, requestVars, mUnAuthFv, mCrAuthFvAndMac,
                 genRes, challengeSignal>>

acceptedToIdle ==
  /\ pc = "takenOver"
  /\ transiteTo("Idle")
  /\ clearPair
  /\ incTimersOnly
  /\ pc' = "ready"
  /\ UNCHANGED <<requestVars, mUnAuthFv, genRes, challengeSignal>>

WrongTimerRestarted ==
  /\ pc = "ready" /\ mCurrentFvState = "ProcessFV"
  /\ ~Verified
  /\ transiteTo("FVInProgress")
  /\ clearPair
  /\ incTimersOnly
  /\ mTimeSinceAuthFvReq' = 0
  /\ UNCHANGED <<mActiveFvChallenge, mUnAuthFv, mainVars>>

(* A pair that is refused costs the call, but none of the timeout. *)
refuseAuthenticFv ==
  /\ pc = "ready" /\ mCurrentFvState = "ProcessFV"
  /\ ~Verified
  /\ transiteTo("FVInProgress")
  /\ clearPair
  /\ incTimersOnly
  /\ UNCHANGED <<requestVars, mUnAuthFv, mainVars>>

processAnAuthenticFv == acceptAuthenticFv \/ acceptedToIdle \/ refuseAuthenticFv

Abs(n) == IF n < 0 THEN -n ELSE n

WrongJitterWithoutClock(fv, unauthFv, clock) ==
  Abs((fv - unauthFv) * TimeIncrementPeriod)

WrongJitterInIncrements(fv, unauthFv, clock) == Abs(fv - unauthFv)

(* mClockCount is the age of fv, one period less than it is by now. *)
Jitter(fv, unauthFv, clock) ==
  LET jitter == Abs((fv - unauthFv) * TimeIncrementPeriod) IN
  IF jitter > TimeJitterMax
    THEN Abs(jitter - (clock + MainFunctionPeriod))
    ELSE jitter

JitterExceeded == Jitter(mFV, mUnAuthFv, mClockCount) > TimeJitterMax

WrongValueStaysValid == UNCHANGED mIsFvValid

invalidate == mIsFvValid' = FALSE

dropFv ==
  /\ pc = "ready" /\ mCurrentFvState = "ProcessAnauthFV"
  /\ JitterExceeded
  /\ invalidate
  /\ mUnAuthFv' = Empty
  /\ pc' = "dropped"
  /\ UNCHANGED <<mCurrentFvState, mFV, mClockCount, requestVars,
                 mCrAuthFvAndMac, genRes, challengeSignal>>

(* The participant goes on waiting for broadcasts and never asks again. *)
WrongDroppedToIdle ==
  /\ pc = "dropped"
  /\ transiteTo("Idle")
  /\ incTimersOnly
  /\ pc' = "ready"
  /\ UNCHANGED <<requestVars, mUnAuthFv, mCrAuthFvAndMac, genRes,
                 challengeSignal>>

droppedToRequest ==
  /\ pc = "dropped"
  /\ transiteTo("RequestFV")
  /\ incTimersOnly
  /\ pc' = "ready"
  /\ UNCHANGED <<requestVars, mUnAuthFv, mCrAuthFvAndMac, genRes,
                 challengeSignal>>

keepFv ==
  /\ pc = "ready" /\ mCurrentFvState = "ProcessAnauthFV"
  /\ ~JitterExceeded
  /\ transiteTo("Idle")
  /\ incTimersOnly
  /\ UNCHANGED <<requestVars, mUnAuthFv, mCrAuthFvAndMac, mainVars>>

processAnUnauthenticFv == dropFv \/ droppedToRequest \/ keepFv

idle ==
  /\ pc = "ready" /\ mCurrentFvState = "Idle"
  /\ incTimersOnly
  /\ UNCHANGED <<mCurrentFvState, requestVars, mUnAuthFv, mCrAuthFvAndMac,
                 mainVars>>

MainFunction ==
  \/ requestAnAuthenticFv
  \/ waitForAnAuthenticFv
  \/ requestTimeout
  \/ processAnAuthenticFv
  \/ processAnUnauthenticFv
  \/ idle

-----------------------------------------------------------------------------
(* Incoming-signal callbacks.                                              *)

WrongReactUnlessIdle ==
  mCurrentFvState' = IF mCurrentFvState # "Idle" THEN "ProcessFV"
                                                 ELSE mCurrentFvState

reactToFVRes ==
  mCurrentFvState' = IF mCurrentFvState = "FVInProgress" THEN "ProcessFV"
                                                         ELSE mCurrentFvState

WrongReactInEveryState == mCurrentFvState' = "ProcessAnauthFV"

reactToUnauthenticFVRes ==
  mCurrentFvState' = IF mCurrentFvState = "Idle" THEN "ProcessAnauthFV"
                                                 ELSE mCurrentFvState

WrongReceiveEither(pair) ==
  /\ pc # "takenOver"
  /\ mCrAuthFvAndMac' = pair
  /\ IF pair.first # Empty \/ pair.second # Empty
       THEN reactToFVRes
       ELSE UNCHANGED mCurrentFvState
  /\ UNCHANGED <<clockVars, requestVars, mUnAuthFv, mainVars>>

(* The common part of the two authentic signals: pair is what is now held. *)
(* Until the main thread has cleared the one taken over, mRecFVMutex is its. *)
receiveAuthentic(pair) ==
  /\ pc # "takenOver"
  /\ mCrAuthFvAndMac' = pair
  /\ IF pair.first # Empty /\ pair.second # Empty
       THEN reactToFVRes
       ELSE UNCHANGED mCurrentFvState
  /\ UNCHANGED <<clockVars, requestVars, mUnAuthFv, mainVars>>

incomingAuthFvValue(fv) ==
  receiveAuthentic([mCrAuthFvAndMac EXCEPT !.first = fv])

incomingAuthFvSignature(mac) ==
  receiveAuthentic([mCrAuthFvAndMac EXCEPT !.second = mac])

(* mRecUnauthFvMutex is the main thread's while it drops its value. *)
incomingUnAuthFvSignalsCb(fv) ==
  /\ pc # "dropped"
  /\ mUnAuthFv' = fv
  /\ reactToUnauthenticFVRes
  /\ UNCHANGED <<clockVars, requestVars, mCrAuthFvAndMac, mainVars>>

SignalCallback ==
  \/ \E fv \in Fv : incomingAuthFvValue(fv)
  \/ \E mac \in Mac : incomingAuthFvSignature(mac)
  \/ \E fv \in Fv : incomingUnAuthFvSignalsCb(fv)

Next == MainFunction \/ SignalCallback

Spec == Init /\ [][Next]_vars

-----------------------------------------------------------------------------
(* Properties.                                                             *)

TypeOK ==
  /\ mCurrentFvState \in FreshnessValueState
  /\ mIsFvValid \in BOOLEAN
  /\ mFV \in Fv
  /\ mClockCount \in 0..ClockRest
  /\ mTimeSinceAuthFvReq \in Nat
  /\ mActiveFvChallenge \in Challenge \cup {Empty}
  /\ mUnAuthFv \in Fv \cup {Empty}
  /\ mCrAuthFvAndMac \in [first : Fv \cup {Empty}, second : Mac \cup {Empty}]
  /\ pc \in {"ready", "published", "timedOut", "takenOver", "dropped"}
  /\ genRes \in Challenge \cup {Empty}
  /\ challengeSignal \subseteq Challenge

(***************************************************************************)
(* incTimers ends an increment with an == test.  A clock of a valid value  *)
(* must never be at a count from which that test is jumped over, or the    *)
(* freshness value would stand still for good; the count keeps running     *)
(* while the value is invalid, and the value becomes valid at any time.    *)
(***************************************************************************)
FvClockNeverStuck == mIsFvValid => RunningClock(mClockCount)

(***************************************************************************)
(* processAnAuthenticFv takes the pair apart without looking whether it is *)
(* there (first.begin() + 1), and processAnUnauthenticFv converts          *)
(* mUnAuthFv likewise.  Callbacks and timeouts must never bring the state  *)
(* machine there with nothing received.                                    *)
(***************************************************************************)
NothingProcessedIsEmpty ==
  /\ mCurrentFvState = "ProcessFV" =>
       mCrAuthFvAndMac.first # Empty /\ mCrAuthFvAndMac.second # Empty
  /\ mCurrentFvState = "ProcessAnauthFV" /\ pc = "ready" => mUnAuthFv # Empty

(***************************************************************************)
(* mIsFvValid, which decides what SecOC is given, and the state machine    *)
(* are changed by different steps of different threads.  They agree        *)
(* whenever the main thread is not between its writes to the two: the      *)
(* value is valid in exactly the states in which no request is open.       *)
(***************************************************************************)
ValidExactlyWhenIdle ==
  pc \notin {"takenOver", "dropped"} =>
    (mIsFvValid <=> mCurrentFvState \in {"Idle", "ProcessAnauthFV"})

(***************************************************************************)
(* What the main thread decided before it pauses still holds when it goes  *)
(* on, whatever callbacks ran: no request is open while a challenge is     *)
(* being published, a timed-out request has not been completed, and        *)
(* neither a pair taken over nor a broadcast that made it drop its value   *)
(* is processed a second time.  A request in progress belongs to a         *)
(* challenge that was published.                                           *)
(***************************************************************************)
MainThreadInStep ==
  /\ pc = "published" => mCurrentFvState = "RequestFV" /\ genRes \in challengeSignal
  /\ pc = "timedOut" => mCurrentFvState \in {"FVInProgress", "ProcessFV"}
  /\ pc = "takenOver" => mCurrentFvState = "ProcessFV" /\ mIsFvValid
  /\ pc = "dropped" => mCurrentFvState = "ProcessAnauthFV" /\ ~mIsFvValid
  /\ mCurrentFvState \in {"FVInProgress", "ProcessFV"} =>
       mActiveFvChallenge \in challengeSignal

(* The arrows of doc/diagrams/fv_distribution_states_fvm-participant.puml. *)
Diagram ==
  { <<"RequestFV", "FVInProgress">>, <<"FVInProgress", "RequestFV">>,
    <<"FVInProgress", "ProcessFV">>, <<"ProcessFV", "FVInProgress">>,
    <<"ProcessFV", "Idle">>, <<"Idle", "ProcessAnauthFV">>,
    <<"ProcessAnauthFV", "Idle">>, <<"ProcessAnauthFV", "RequestFV">> }

MovesAlong(arrows) ==
  mCurrentFvState' # mCurrentFvState =>
    <<mCurrentFvState, mCurrentFvState'>> \in arrows

(***************************************************************************)
(* Callbacks and main thread together take the state machine along the     *)
(* arrows of the documented diagram and one more: a response that arrives  *)
(* between the timeout test and the lock is dropped with the request.      *)
(***************************************************************************)
FollowsStateDiagramButForLateResponse ==
  [][MovesAlong(Diagram \cup {<<"ProcessFV", "RequestFV">>})]_vars
=============================================================================
