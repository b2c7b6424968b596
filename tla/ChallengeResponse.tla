------------------------- MODULE ChallengeResponse --------------------------
(***************************************************************************)
(* The challenge-response protocol for one freshness value ID, between the *)
(* ECU that wants a fresh answer (requester, type CrChallenge) and the ECU *)
(* that gives it (responder, type CrResponse).  Both run the code of       *)
(* AFreshnessValueManagerImpl.                                             *)
(*                                                                         *)
(* The requester's applications trigger challenges, each in a thread of    *)
(* its own; the SecOC module verifies each response PDU in a thread of its *)
(* own, between GetRxFreshness and VerificationStatusCallout; MainFunction *)
(* advances the time.  Nothing is locked.  The responder has one thread    *)
(* for the challenge signal and one that signs.  A call that returns an    *)
(* error changes nothing, so that refusals are no steps of their own.      *)
(*                                                                         *)
(* The medium (not the repository's code) may lose, delay, reorder and     *)
(* repeat: what was sent once may arrive at any time and any number of     *)
(* times.  A response PDU is known by the challenge it was signed with.    *)
(***************************************************************************)
EXTENDS Naturals

CONSTANTS
  MainFunctionPeriod,  \* SOK_FM_MAIN_FUNCTION_PERIOD_MS
  ChallengeTimeout,    \* SOK_FM_CHALLENGE_TIMEOUT_MS
  MaxTime,             \* bound: milliseconds either ECU counts up to
  MaxReceived,         \* bound: times the responder takes a challenge up
  Challenge,           \* the random numbers; each is drawn at most once
  Caller,              \* threads that trigger challenges
  Verifier,            \* threads in which SecOC verifies responses
  None

ASSUME CrAssumption ==
  /\ MainFunctionPeriod \in Nat \ {0}
  /\ ChallengeTimeout \in Nat
  /\ MaxTime \in Nat
  /\ MaxReceived \in Nat
  /\ None \notin Challenge

VARIABLES
  \* requester
  requesterTime,              \* its mTimeSinceInit
  mActiveOutgoingChallenges,  \* the entry of this ID: when and what, or None
  trigger,                    \* per caller: the challenge published and not yet
                              \* stored, and the entry it found before, or None
  verifying,                  \* per verifier: the response and the challenge
                              \* GetRxFreshness gave for it, or None
  \* responder
  responderTime,
  mFvIdToNotificationCallback, \* whether this ID has a callback
  mActiveIncomingChallenges,
  \* medium and history
  challengeSignal,  \* challenges published
  received,         \* how often the responder stored each challenge,
  response,         \* how many responses it signed to each,
  accepted          \* and how many of them the requester accepted

requesterVars == <<requesterTime, mActiveOutgoingChallenges, trigger, verifying>>
responderVars ==
  <<responderTime, mFvIdToNotificationCallback, mActiveIncomingChallenges>>
mediumVars == <<challengeSignal, received, response>>
vars == <<requesterVars, responderVars, mediumVars, accepted>>

Entry == [at : 0..MaxTime, challenge : Challenge]

Init ==
  /\ requesterTime = 0
  /\ mActiveOutgoingChallenges = None
  /\ trigger = [t \in Caller |-> None]
  /\ verifying = [v \in Verifier |-> None]
  /\ responderTime = 0
  /\ mFvIdToNotificationCallback = FALSE
  /\ mActiveIncomingChallenges = None
  /\ challengeSignal = {}
  /\ received = [c \in Challenge |-> 0]
  /\ response = [c \in Challenge |-> 0]
  /\ accepted = [c \in Challenge |-> 0]

(* An entry younger than the timeout keeps its place. *)
Undergoing(entry, now) == entry # None /\ now - entry.at < ChallengeTimeout

-----------------------------------------------------------------------------
(* Requester.                                                              *)

(* TriggerCrRequest checks the old challenge and publishes the new one ... *)
TriggerCrRequest(t, c) ==
  /\ trigger[t] = None
  /\ ~Undergoing(mActiveOutgoingChallenges, requesterTime)
  /\ c \notin challengeSignal
  /\ challengeSignal' = challengeSignal \cup {c}
  /\ trigger' = [trigger EXCEPT ![t] =
       [challenge |-> c, found |-> mActiveOutgoingChallenges]]
  /\ UNCHANGED <<requesterTime, mActiveOutgoingChallenges, verifying,
                 responderVars, received, response, accepted>>

WrongPairSwapped(c) ==
  mActiveOutgoingChallenges' = [at |-> c, challenge |-> requesterTime]

store(c) == mActiveOutgoingChallenges' = [at |-> requesterTime, challenge |-> c]

(* ... which is stored, with the time, after Publish has returned; the     *)
(* check is not made again.                                                *)
TriggerStore(t) ==
  /\ trigger[t] # None
  /\ store(trigger[t].challenge)
  /\ trigger' = [trigger EXCEPT ![t] = None]
  /\ UNCHANGED <<requesterTime, verifying, responderVars, mediumVars, accepted>>

(* A response PDU arrives; getChallengeForIncomingResponse has a challenge. *)
GetRxFreshness(v, c) ==
  /\ verifying[v] = None
  /\ response[c] > 0
  /\ mActiveOutgoingChallenges # None
  /\ verifying' = [verifying EXCEPT ![v] =
       [signed |-> c, freshness |-> mActiveOutgoingChallenges.challenge]]
  /\ UNCHANGED <<requesterTime, mActiveOutgoingChallenges, trigger,
                 responderVars, mediumVars, accepted>>

WrongNeverErased(verificationSucceeded) == UNCHANGED mActiveOutgoingChallenges

(* What is erased on success is whatever challenge is active by then. *)
updateVerificationStatusChallenge(verificationSucceeded) ==
  mActiveOutgoingChallenges' =
    IF verificationSucceeded THEN None ELSE mActiveOutgoingChallenges

Verified(v) == verifying[v] # None /\ verifying[v].signed = verifying[v].freshness

VerificationStatusCallout(v) ==
  /\ verifying[v] # None
  /\ updateVerificationStatusChallenge(Verified(v))
  /\ verifying' = [verifying EXCEPT ![v] = None]
  /\ accepted' = IF Verified(v)
                   THEN [accepted EXCEPT ![verifying[v].signed] = @ + 1]
                   ELSE accepted
  /\ UNCHANGED <<requesterTime, trigger, responderVars, mediumVars>>

RequesterTicks ==
  /\ requesterTime + MainFunctionPeriod <= MaxTime
  /\ requesterTime' = requesterTime + MainFunctionPeriod
  /\ UNCHANGED <<mActiveOutgoingChallenges, trigger, verifying, responderVars,
                 mediumVars, accepted>>

-----------------------------------------------------------------------------
(* Responder.                                                              *)

OfferCrRequest ==
  /\ mFvIdToNotificationCallback' = TRUE
  /\ UNCHANGED <<responderTime, mActiveIncomingChallenges, requesterVars,
                 mediumVars, accepted>>

WrongNeverUndergoing == FALSE

IncomingUndergoing == Undergoing(mActiveIncomingChallenges, responderTime)

(* The application's callback, called last, changes nothing of the FVM.    *)
(* A signal that comes once more after its challenge was handed out finds  *)
(* nothing stored, and is stored anew.                                     *)
incomingChallengeSignalCb(c) ==
  /\ c \in challengeSignal
  /\ received[c] < MaxReceived
  /\ mFvIdToNotificationCallback
  /\ ~IncomingUndergoing
  /\ mActiveIncomingChallenges' = [at |-> responderTime, challenge |-> c]
  /\ received' = [received EXCEPT ![c] = @ + 1]
  /\ UNCHANGED <<responderTime, mFvIdToNotificationCallback, requesterVars,
                 challengeSignal, response, accepted>>

WrongKeptWhenHandedOut == UNCHANGED mActiveIncomingChallenges

discard == mActiveIncomingChallenges' = None

(* The stored challenge is handed out, the response PDU signed with it, and *)
(* the challenge discarded for replay protection.                           *)
GetTxFreshness ==
  /\ mActiveIncomingChallenges # None
  /\ response' = [response EXCEPT ![mActiveIncomingChallenges.challenge] = @ + 1]
  /\ discard
  /\ UNCHANGED <<responderTime, mFvIdToNotificationCallback, requesterVars,
                 challengeSignal, received, accepted>>

ResponderTicks ==
  /\ responderTime + MainFunctionPeriod <= MaxTime
  /\ responderTime' = responderTime + MainFunctionPeriod
  /\ UNCHANGED <<mFvIdToNotificationCallback, mActiveIncomingChallenges,
                 requesterVars, mediumVars, accepted>>

-----------------------------------------------------------------------------
Verify(v) ==
  (\E c \in Challenge : GetRxFreshness(v, c)) \/ VerificationStatusCallout(v)

Requester ==
  \/ \E t \in Caller : TriggerStore(t) \/ \E c \in Challenge : TriggerCrRequest(t, c)
  \/ \E v \in Verifier : Verify(v)
  \/ RequesterTicks

Responder ==
  \/ OfferCrRequest
  \/ \E c \in Challenge : incomingChallengeSignalCb(c)
  \/ GetTxFreshness
  \/ ResponderTicks

Next == Requester \/ Responder

Spec == Init /\ [][Next]_vars

-----------------------------------------------------------------------------
(* Properties.                                                             *)

TypeOK ==
  /\ requesterTime \in 0..MaxTime
  /\ mActiveOutgoingChallenges \in Entry \cup {None}
  /\ trigger \in [Caller ->
       [challenge : Challenge, found : Entry \cup {None}] \cup {None}]
  /\ verifying \in [Verifier ->
       [signed : Challenge, freshness : Challenge] \cup {None}]
  /\ responderTime \in 0..MaxTime
  /\ mFvIdToNotificationCallback \in BOOLEAN
  /\ mActiveIncomingChallenges \in Entry \cup {None}
  /\ challengeSignal \subseteq Challenge
  /\ received \in [Challenge -> 0..MaxReceived]
  /\ response \in [Challenge -> Nat]
  /\ accepted \in [Challenge -> Nat]

(***************************************************************************)
(* Replay protection: however often the medium repeats a response, at most *)
(* one response to a challenge is accepted ("second time challenge should  *)
(* have been discarded").  It holds if SecOC verifies one response at a    *)
(* time; with two at a time both obtain the challenge before either        *)
(* reports success, and both are accepted.                                 *)
(***************************************************************************)
AcceptedOnce == \A c \in Challenge : accepted[c] <= 1

(***************************************************************************)
(* A challenge waiting for its response, on either side, is not replaced   *)
(* before its timeout has run off by a call that found it waiting.  On the *)
(* requester's side the check and the assignment are apart: what a call    *)
(* does replace early is only a challenge that another thread stored in    *)
(* between, so that with one calling thread nothing is replaced early.     *)
(***************************************************************************)
StoredInBetween(t) ==
  /\ trigger[t] # None
  /\ trigger[t].found # mActiveOutgoingChallenges
  /\ \E s \in Caller : s # t

NotReplacedEarly ==
  [][/\ Undergoing(mActiveOutgoingChallenges, requesterTime) =>
          \/ mActiveOutgoingChallenges' \in {mActiveOutgoingChallenges, None}
          \/ \E t \in Caller : StoredInBetween(t) /\ TriggerStore(t)
     /\ Undergoing(mActiveIncomingChallenges, responderTime) =>
          mActiveIncomingChallenges' \in {mActiveIncomingChallenges, None}]_vars

(***************************************************************************)
(* An accepted response answers a challenge that the requester published   *)
(* and that has left its hands: it is neither active any more nor will any *)
(* thread store it again, so a replay of it can only be rejected.  Like    *)
(* AcceptedOnce it holds if SecOC verifies one response at a time.         *)
(***************************************************************************)
AcceptedIsSpent ==
  \A c \in Challenge : accepted[c] > 0 =>
    /\ response[c] > 0
    /\ \A t \in Caller : trigger[t] # None => trigger[t].challenge # c
    /\ mActiveOutgoingChallenges # None => mActiveOutgoingChallenges.challenge # c

OneTime == INSTANCE OneTimeChallenge WITH
  issued <- challengeSignal, answered <- response

(***************************************************************************)
(* Timers, retries, replaced challenges, repeated signals and the gaps     *)
(* between check and use never let the two ECUs do anything but issue a    *)
(* challenge once, answer it at most once for each time it was taken up,   *)
(* and accept one of the answers.  A signal that the medium repeats after  *)
(* its answer is taken up, and answered, again; SecOC verifies one         *)
(* response at a time.                                                     *)
(***************************************************************************)
ImplementsOneTimeChallenge == OneTime!Spec
=============================================================================
