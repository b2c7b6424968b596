------------------------------ MODULE FvServer ------------------------------
(***************************************************************************)
(* The FVM server ECU: it owns the freshness value, broadcasts it without  *)
(* protection every TimeSend milliseconds, and answers the challenges of   *)
(* its clients with the value and a signature over challenge and value.    *)
(*                                                                         *)
(* Threads: the loop calls MainFunction; the communication stack delivers  *)
(* challenges at any time.  A challenge touches nothing but the pending    *)
(* map, under mChallengesMutex, which the answering loop holds throughout; *)
(* MainFunction is therefore one action.                                   *)
(***************************************************************************)
EXTENDS FvmClock, FiniteSets

CONSTANTS
  Client,     \* the configured participants
  Challenge,
  NoChallenge,
  TimeSend,   \* SOK_FM_TIME_SEND_MS
  RandomFv,   \* initial values the random number generator may draw
  FvModulus   \* values a response can carry: 256^FVM_SERVER_NUM_OF_BYTES_INITIAL_FV

ASSUME ServerAssumption ==
  /\ NoChallenge \notin Challenge
  /\ TimeSend \in Nat \ {0}
  /\ TimeSend % TimeIncrementPeriod = 0
  /\ FvModulus \in Nat \ {0}
  /\ RandomFv \subseteq {fv \in Fv : fv < FvModulus}

VARIABLES
  mFV, mClockCount,
  mTimeSinceInit,               \* modulo TimeSend, all that is ever read of it
  mNeedToBroadcastFv,
  mNeedToSendAuthFvResponses,
  mResponsePendingChallenges,
  broadcastSignal,  \* the unprotected values published so far
  valueSignal,      \* per client, the values of the answers published so far
  signatureSignal   \* per client, their signatures

clockVars == <<mFV, mClockCount, mTimeSinceInit>>
flagVars == <<mNeedToBroadcastFv, mNeedToSendAuthFvResponses>>
outVars == <<broadcastSignal, valueSignal, signatureSignal>>
vars == <<clockVars, flagVars, mResponsePendingChallenges, outVars>>

Init ==
  /\ mFV \in RandomFv
  /\ mClockCount = 0
  /\ mTimeSinceInit = 0
  /\ mNeedToBroadcastFv = TRUE
  /\ mNeedToSendAuthFvResponses = FALSE
  /\ mResponsePendingChallenges = [client \in Client |-> NoChallenge]
  /\ broadcastSignal = {}
  /\ valueSignal = [client \in Client |-> {}]
  /\ signatureSignal = [client \in Client |-> {}]

(* UintToByteVectorTrim: the low seven bytes. *)
Trim(fv) == fv % FvModulus

Pending == {client \in Client : mResponsePendingChallenges[client] # NoChallenge}

(* A failed broadcast leaves the flag set, and is tried again. *)
unauthenticatedBroadcast(published) ==
  broadcastSignal' = IF mNeedToBroadcastFv /\ published
                       THEN broadcastSignal \cup {mFV} ELSE broadcastSignal

WrongBroadcastOnce(published) == FALSE

StillToBroadcast(published) == mNeedToBroadcastFv /\ ~published

(***************************************************************************)
(* Answers every pending challenge.  The clients in full get both signals, *)
(* those in half only the value, because their signature was not taken;    *)
(* for the others no signature could be computed or the value was not      *)
(* taken.  No challenge is kept for a second try.                          *)
(***************************************************************************)
sendAuthenticFvResponses(full, half) ==
  /\ valueSignal' = [client \in Client |->
       IF client \in full \cup half
         THEN valueSignal[client] \cup {Trim(mFV)}
         ELSE valueSignal[client]]
  /\ signatureSignal' = [client \in Client |->
       IF client \in full
         THEN signatureSignal[client] \cup
                {[challenge |-> mResponsePendingChallenges[client],
                  fv |-> Trim(mFV)]}
         ELSE signatureSignal[client]]
  /\ mResponsePendingChallenges' = [client \in Client |-> NoChallenge]

incTimers ==
  /\ WithinBound(TRUE, mClockCount, mFV)
  /\ mFV' = NextFv(TRUE, mClockCount, mFV)
  /\ mClockCount' = NextClock(TRUE, mClockCount)
  /\ mTimeSinceInit' = (mTimeSinceInit + MainFunctionPeriod) % TimeSend

WrongAnswersAnyTime == TRUE

WrongAnswersWithBroadcast == mTimeSinceInit' = 0

(* The value has grown in this call. *)
AnswersDue == mFV' # mFV

(***************************************************************************)
(* The timers run last: what a new value or a full send period makes due   *)
(* is done at the start of the next MainFunction.                          *)
(***************************************************************************)
MainFunction(published, full, half) ==
  /\ unauthenticatedBroadcast(published)
  /\ IF mNeedToSendAuthFvResponses
       THEN sendAuthenticFvResponses(full, half)
       ELSE UNCHANGED <<valueSignal, signatureSignal, mResponsePendingChallenges>>
  /\ incTimers
  /\ mNeedToSendAuthFvResponses' = AnswersDue
  /\ mNeedToBroadcastFv' = (StillToBroadcast(published) \/ mTimeSinceInit' = 0)

(* A client's later challenge replaces one that is still pending. *)
incomingAuthFvChallengeSignalsCb(client, challenge) ==
  /\ mResponsePendingChallenges' =
       [mResponsePendingChallenges EXCEPT ![client] = challenge]
  /\ UNCHANGED <<clockVars, flagVars, outVars>>

Main(published) ==
  \E full \in SUBSET Pending : \E half \in SUBSET (Pending \ full) :
    MainFunction(published, full, half)

ChallengeArrives ==
  \E client \in Client, challenge \in Challenge :
    incomingAuthFvChallengeSignalsCb(client, challenge)

Next == (\E published \in BOOLEAN : Main(published)) \/ ChallengeArrives

Spec == Init /\ [][Next]_vars

-----------------------------------------------------------------------------
(* Properties.                                                             *)

TypeOK ==
  /\ mFV \in Fv
  /\ mClockCount \in 0..ClockRest
  /\ mTimeSinceInit \in 0..(TimeSend - 1)
  /\ mNeedToBroadcastFv \in BOOLEAN
  /\ mNeedToSendAuthFvResponses \in BOOLEAN
  /\ mResponsePendingChallenges \in [Client -> Challenge \cup {NoChallenge}]
  /\ broadcastSignal \subseteq Fv
  /\ valueSignal \in [Client -> SUBSET Fv]
  /\ signatureSignal \in [Client -> SUBSET [challenge : Challenge, fv : Fv]]

(***************************************************************************)
(* mTimeSinceInit decides when to broadcast, mClockCount when the value    *)
(* grows; two counters, one of them restarted over and over.  They stay in *)
(* step, so a broadcast falls due just after an increment, which is what   *)
(* the participants' jitter check reads a broadcast as.                    *)
(***************************************************************************)
CountersInStep ==
  /\ RunningClock(mClockCount)
  /\ mTimeSinceInit % TimeIncrementPeriod = mClockCount

(***************************************************************************)
(* Answers are due only right after an increment: a participant restarts   *)
(* its mClockCount at zero when it takes the value over.                   *)
(***************************************************************************)
AnswersOnIncrement == mNeedToSendAuthFvResponses => mClockCount = 0

(***************************************************************************)
(* A broadcast that is due is not forgotten, however often publishing      *)
(* fails and whatever comes between (MainFunction keeps the flag then): it *)
(* stops being due when the value of that time is on the medium.           *)
(***************************************************************************)
BroadcastIsRetried ==
  [][mNeedToBroadcastFv /\ ~mNeedToBroadcastFv' => mFV \in broadcastSignal']_vars
=============================================================================
