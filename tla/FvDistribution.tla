--------------------------- MODULE FvDistribution ---------------------------
(***************************************************************************)
(* Freshness-value distribution: one participant and the server, connected *)
(* by the four signals of doc/diagrams/freshness_value_distribution.puml.  *)
(*                                                                         *)
(* The medium is not the repository's code.  A signal once published stays *)
(* available for ever and may be delivered at any time, any number of      *)
(* times or never: signals are lost, duplicated, delayed and reordered,    *)
(* and value and signature of one answer travel separately.                *)
(*                                                                         *)
(* Both ECUs count time by the calls of MainFunction.  lead is how many    *)
(* more calls the server has had than the participant; MaxLead bounds how  *)
(* far the two loops may drift apart.                                      *)
(***************************************************************************)
EXTENDS Integers, FiniteSets

CONSTANTS
  MainFunctionPeriod, TimeIncrementPeriod, MaxFv, TimeJitterMax,
  TimeRequestTimeout, TimeSend, RandomFv, FvModulus, Challenge, Empty, Ecu,
  MaxLead

ASSUME LeadAssumption == MaxLead \in Nat \ {0}

Fv == 0..MaxFv

(***************************************************************************)
(* What FvParticipant and FvServer assume of the constants they share, and *)
(* that an answer can carry every value the server reaches: seven bytes    *)
(* hold it for 200 million years from a value of 0, though from a random   *)
(* number below 2^56 it is, very improbably, less.                         *)
(***************************************************************************)
ASSUME DistributionAssumption ==
  /\ MainFunctionPeriod \in Nat \ {0}
  /\ TimeIncrementPeriod \in Nat \ {0}
  /\ TimeIncrementPeriod % MainFunctionPeriod = 0
  /\ TimeSend \in Nat \ {0}
  /\ MaxFv \in Nat
  /\ FvModulus \in Nat \ {0} /\ MaxFv < FvModulus
  /\ RandomFv \subseteq Fv
  /\ Empty \notin Fv \cup [challenge : Challenge, fv : Fv]

VARIABLES
  \* participant
  mCurrentFvState, mIsFvValid, mFV, mClockCount, mTimeSinceAuthFvReq,
  mActiveFvChallenge, mUnAuthFv, mCrAuthFvAndMac, pc, genRes,
  \* server
  serverFv, serverClock, serverTime, mNeedToBroadcastFv,
  mNeedToSendAuthFvResponses, mResponsePendingChallenges,
  \* medium
  challengeSignal, valueSignal, signatureSignal, broadcastSignal,
  \* pace and history
  lead,
  issuedAt,  \* server's value when a challenge was published
  taken      \* challenges by which a value has been taken over

Participant == INSTANCE FvParticipant

Server == INSTANCE FvServer WITH
  Client <- {Ecu}, NoChallenge <- Empty,
  mFV <- serverFv, mClockCount <- serverClock, mTimeSinceInit <- serverTime

participantVars ==
  <<mCurrentFvState, mIsFvValid, mFV, mClockCount, mTimeSinceAuthFvReq,
    mActiveFvChallenge, mUnAuthFv, mCrAuthFvAndMac, pc, genRes>>
serverVars ==
  <<serverFv, serverClock, serverTime, mNeedToBroadcastFv,
    mNeedToSendAuthFvResponses, mResponsePendingChallenges>>
answerVars == <<valueSignal, signatureSignal, broadcastSignal>>
historyVars == <<issuedAt, taken>>
vars == <<participantVars, serverVars, challengeSignal, answerVars, lead,
          historyVars>>

Init ==
  /\ Participant!Init
  /\ Server!Init
  /\ lead = 0
  /\ issuedAt = [c \in {} |-> 0]
  /\ taken = {}

-----------------------------------------------------------------------------
TakesOver == ~mIsFvValid /\ mIsFvValid'

(* The participant begins a call of MainFunction, or ends the one begun. *)
ParticipantMain ==
  /\ Participant!MainFunction
  /\ lead' = IF pc = "ready" THEN lead - 1 ELSE lead
  /\ lead' >= -MaxLead
  /\ issuedAt' = [c \in challengeSignal' |->
                    IF c \in challengeSignal THEN issuedAt[c] ELSE serverFv]
  /\ taken' = IF TakesOver THEN taken \cup {mActiveFvChallenge} ELSE taken
  /\ UNCHANGED <<serverVars, answerVars>>

ServerMain ==
  /\ \E published \in BOOLEAN : Server!Main(published)
  /\ lead' = lead + 1
  /\ lead' <= MaxLead
  /\ UNCHANGED <<participantVars, challengeSignal, historyVars>>

DeliverChallenge ==
  /\ \E c \in challengeSignal :
       Server!incomingAuthFvChallengeSignalsCb(Ecu, c)
  /\ UNCHANGED <<participantVars, challengeSignal, answerVars, lead, historyVars>>

DeliverToParticipant ==
  /\ \/ \E fv \in valueSignal[Ecu] : Participant!incomingAuthFvValue(fv)
     \/ \E mac \in signatureSignal[Ecu] : Participant!incomingAuthFvSignature(mac)
     \/ \E fv \in broadcastSignal : Participant!incomingUnAuthFvSignalsCb(fv)
  /\ UNCHANGED <<serverVars, answerVars, lead, historyVars>>

Next == ParticipantMain \/ ServerMain \/ DeliverChallenge \/ DeliverToParticipant

Spec == Init /\ [][Next]_vars

-----------------------------------------------------------------------------
(* Properties.                                                             *)

TypeOK ==
  /\ Participant!TypeOK
  /\ Server!TypeOK
  /\ lead \in -MaxLead..MaxLead
  /\ issuedAt \in [challengeSignal -> Fv]
  /\ taken \subseteq challengeSignal

(***************************************************************************)
(* Freshness.  Whatever the medium loses, repeats, delays or mixes, a      *)
(* value the participant takes over is one the server had after the        *)
(* participant asked: not older than the request, and never one the server *)
(* has not reached.                                                        *)
(***************************************************************************)
TakenValueIsFresh ==
  [][TakesOver =>
       /\ issuedAt[mActiveFvChallenge] <= mCrAuthFvAndMac.first
       /\ mCrAuthFvAndMac.first <= serverFv]_vars

(***************************************************************************)
(* The code keeps a challenge after the answer to it was accepted.  No     *)
(* answer, delivered a second time, is accepted a second time all the same.*)
(***************************************************************************)
ChallengeTakenOnce == [][TakesOver => mActiveFvChallenge \notin taken]_vars

ServerMillis == serverFv * TimeIncrementPeriod + serverClock
ParticipantMillis == mFV * TimeIncrementPeriod + mClockCount

(***************************************************************************)
(* Taking a value over never puts the participant's time ahead of the      *)
(* server's: the server publishes right after an increment, and the        *)
(* participant starts the increment anew.  Ahead it gets only by as many   *)
(* periods as its loop gains on the server's afterwards.                   *)
(***************************************************************************)
NeverAheadButByDrift ==
  mIsFvValid =>
    ParticipantMillis <= ServerMillis + (MaxLead - 1 - lead) * MainFunctionPeriod
=============================================================================
