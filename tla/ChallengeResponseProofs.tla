---------------------- MODULE ChallengeResponseProofs -----------------------
(***************************************************************************)
(* Challenge-response for every number of challenges and all times.  The   *)
(* protection from replays is proved under the assumption it rests on:     *)
(* SecOC has one thread that verifies responses.                           *)
(***************************************************************************)
EXTENDS ChallengeResponse, TLAPS

-----------------------------------------------------------------------------
(* Types.                                                                  *)

LEMMA InitTypeOK == Init => TypeOK
<1> SUFFICES ASSUME Init PROVE TypeOK  OBVIOUS
<1>1. /\ verifying \in [Verifier ->
           [signed : Challenge, freshness : Challenge] \cup {None}]
      /\ trigger \in [Caller ->
           [challenge : Challenge, found : Entry \cup {None}] \cup {None}]
  BY DEF Init
<1>5. /\ accepted \in [Challenge -> Nat]
      /\ response \in [Challenge -> Nat]
      /\ received \in [Challenge -> 0..MaxReceived]
  BY CrAssumption DEF Init
<1>2. requesterTime \in 0..MaxTime /\ responderTime \in 0..MaxTime
  BY CrAssumption DEF Init
<1>3. /\ mActiveOutgoingChallenges \in Entry \cup {None}
      /\ mActiveIncomingChallenges \in Entry \cup {None}
  BY DEF Init
<1>4. /\ mFvIdToNotificationCallback \in BOOLEAN
      /\ challengeSignal \subseteq Challenge
  BY DEF Init
<1> QED BY <1>1, <1>2, <1>3, <1>4, <1>5 DEF TypeOK

LEMMA StepTypeOK == TypeOK /\ [Next]_vars => TypeOK'
<1> USE CrAssumption
<1> SUFFICES ASSUME TypeOK, [Next]_vars PROVE TypeOK'  OBVIOUS
<1>1. ASSUME NEW t \in Caller, NEW c \in Challenge, TriggerCrRequest(t, c)
      PROVE  TypeOK'
  <2>1. [challenge |-> c, found |-> mActiveOutgoingChallenges]
          \in [challenge : Challenge, found : Entry \cup {None}]
    BY DEF TypeOK
  <2>2. trigger' \in [Caller ->
          [challenge : Challenge, found : Entry \cup {None}] \cup {None}]
    BY <1>1, <2>1 DEF TriggerCrRequest, TypeOK
  <2> QED BY <1>1, <2>2 DEF TriggerCrRequest, responderVars, TypeOK
<1>2. ASSUME NEW t \in Caller, TriggerStore(t) PROVE TypeOK'
  <2>1. trigger[t].challenge \in Challenge
    BY <1>2 DEF TriggerStore, TypeOK
  <2>2. mActiveOutgoingChallenges' \in Entry
    BY <1>2, <2>1 DEF TriggerStore, store, TypeOK, Entry
  <2> QED BY <1>2, <2>2 DEF TriggerStore, responderVars, mediumVars, TypeOK
<1>3. ASSUME NEW v \in Verifier, NEW c \in Challenge, GetRxFreshness(v, c)
      PROVE  TypeOK'
  <2>1. mActiveOutgoingChallenges.challenge \in Challenge
    BY <1>3 DEF GetRxFreshness, TypeOK, Entry
  <2> QED BY <1>3, <2>1 DEF GetRxFreshness, responderVars, mediumVars, TypeOK
<1>4. ASSUME NEW v \in Verifier, VerificationStatusCallout(v) PROVE TypeOK'
  <2>1. mActiveOutgoingChallenges' \in Entry \cup {None}
    BY <1>4 DEF VerificationStatusCallout, updateVerificationStatusChallenge, TypeOK
  <2>2. verifying[v].signed \in Challenge
    BY <1>4 DEF VerificationStatusCallout, TypeOK
  <2>3. accepted' \in [Challenge -> Nat]
    BY <1>4, <2>2 DEF VerificationStatusCallout, TypeOK
  <2> QED
    BY <1>4, <2>1, <2>3
    DEF VerificationStatusCallout, responderVars, mediumVars, TypeOK
<1>5. CASE RequesterTicks \/ ResponderTicks
  BY <1>5
  DEF RequesterTicks, ResponderTicks, requesterVars, responderVars, mediumVars, TypeOK
<1>6. CASE OfferCrRequest
  BY <1>6 DEF OfferCrRequest, requesterVars, mediumVars, TypeOK
<1>7. ASSUME NEW c \in Challenge, incomingChallengeSignalCb(c) PROVE TypeOK'
  <2>1. mActiveIncomingChallenges' \in Entry
    BY <1>7 DEF incomingChallengeSignalCb, TypeOK, Entry
  <2>2. received' \in [Challenge -> 0..MaxReceived]
    BY <1>7 DEF incomingChallengeSignalCb, TypeOK
  <2> QED BY <1>7, <2>1, <2>2 DEF incomingChallengeSignalCb, requesterVars, TypeOK
<1>8. CASE GetTxFreshness
  <2>1. response' \in [Challenge -> Nat]
    BY <1>8 DEF GetTxFreshness, TypeOK, Entry
  <2> QED BY <1>8, <2>1 DEF GetTxFreshness, discard, requesterVars, TypeOK
<1>9. CASE UNCHANGED vars
  BY <1>9 DEF vars, requesterVars, responderVars, mediumVars, TypeOK
<1> QED
  BY <1>1, <1>2, <1>3, <1>4, <1>5, <1>6, <1>7, <1>8, <1>9
  DEF Next, Requester, Responder, Verify

(* Every variable keeps its type, whatever the threads do. *)
THEOREM TypeCorrect == Spec => []TypeOK
<1> QED BY InitTypeOK, StepTypeOK, PTL DEF Spec

-----------------------------------------------------------------------------
(* The challenges a requester works with.                                  *)

(* Each of them was published; none that is being published is active, or  *)
(* is published by another thread, or was there before.                    *)
Published ==
  /\ mActiveOutgoingChallenges # None =>
       mActiveOutgoingChallenges.challenge \in challengeSignal
  /\ \A t \in Caller : trigger[t] # None =>
       /\ trigger[t].challenge \in challengeSignal
       /\ trigger[t].found # None => trigger[t].found.challenge \in challengeSignal
       /\ mActiveOutgoingChallenges # None =>
            mActiveOutgoingChallenges.challenge # trigger[t].challenge
       /\ \A s \in Caller : trigger[s] # None =>
            /\ s # t => trigger[s].challenge # trigger[t].challenge
            /\ trigger[s].found # None =>
                 trigger[s].found.challenge # trigger[t].challenge

LEMMA StepPublished == TypeOK /\ Published /\ [Next]_vars => Published'
<1> SUFFICES ASSUME TypeOK, Published, [Next]_vars PROVE Published'  OBVIOUS
<1>1. ASSUME NEW t \in Caller, NEW c \in Challenge, TriggerCrRequest(t, c)
      PROVE  Published'
  <2>1. /\ trigger' = [trigger EXCEPT ![t] =
             [challenge |-> c, found |-> mActiveOutgoingChallenges]]
        /\ challengeSignal' = challengeSignal \cup {c}
        /\ c \notin challengeSignal
        /\ UNCHANGED mActiveOutgoingChallenges
    BY <1>1 DEF TriggerCrRequest
  <2>2. /\ trigger'[t].challenge = c
        /\ trigger'[t].found = mActiveOutgoingChallenges
        /\ \A s \in Caller : s # t => trigger'[s] = trigger[s]
    BY <2>1 DEF TypeOK
  <2> QED BY <2>1, <2>2 DEF Published
<1>2. ASSUME NEW t \in Caller, TriggerStore(t) PROVE Published'
  <2>1. /\ mActiveOutgoingChallenges' =
             [at |-> requesterTime, challenge |-> trigger[t].challenge]
        /\ UNCHANGED challengeSignal
        /\ trigger[t] # None
    BY <1>2 DEF TriggerStore, store, mediumVars
  <2>2. /\ trigger'[t] = None
        /\ \A s \in Caller : s # t => trigger'[s] = trigger[s]
    BY <1>2 DEF TriggerStore, TypeOK
  <2> QED BY <2>1, <2>2 DEF Published
<1>3. ASSUME NEW v \in Verifier, VerificationStatusCallout(v) PROVE Published'
  BY <1>3
  DEF VerificationStatusCallout, updateVerificationStatusChallenge, mediumVars,
      Published
<1>4. ASSUME \/ RequesterTicks
             \/ \E v \in Verifier, c \in Challenge : GetRxFreshness(v, c)
             \/ Responder
             \/ UNCHANGED vars
      PROVE  Published'
  <2>1. UNCHANGED <<mActiveOutgoingChallenges, trigger, challengeSignal>>
    BY <1>4
    DEF RequesterTicks, GetRxFreshness, Responder, OfferCrRequest,
        incomingChallengeSignalCb, GetTxFreshness, ResponderTicks, vars,
        requesterVars, mediumVars
  <2> QED BY <2>1 DEF Published
<1> QED BY <1>1, <1>2, <1>3, <1>4 DEF Next, Requester, Verify

-----------------------------------------------------------------------------
(* Challenges kept until their timeout: for any callers and verifiers.     *)

(* If a challenge is undergoing while a call publishes another, a thread   *)
(* other than the call's has stored it since the call made its check.      *)
TriggeredWhenFree ==
  \A t \in Caller :
    trigger[t] # None /\ Undergoing(mActiveOutgoingChallenges, requesterTime)
      => StoredInBetween(t)

LEMMA StepTriggeredWhenFree ==
  TypeOK /\ Published /\ TriggeredWhenFree /\ [Next]_vars => TriggeredWhenFree'
<1> USE CrAssumption
<1> SUFFICES ASSUME TypeOK, Published, TriggeredWhenFree, [Next]_vars
             PROVE  TriggeredWhenFree'
  OBVIOUS
<1>1. ASSUME NEW t \in Caller, NEW c \in Challenge, TriggerCrRequest(t, c)
      PROVE  TriggeredWhenFree'
  <2>1. ~Undergoing(mActiveOutgoingChallenges, requesterTime)'
    BY <1>1 DEF TriggerCrRequest, Undergoing
  <2> QED BY <2>1 DEF TriggeredWhenFree
<1>2. ASSUME NEW t \in Caller, TriggerStore(t) PROVE TriggeredWhenFree'
  <2>1. /\ mActiveOutgoingChallenges' =
             [at |-> requesterTime, challenge |-> trigger[t].challenge]
        /\ trigger[t] # None
    BY <1>2 DEF TriggerStore, store
  <2>2. /\ trigger'[t] = None
        /\ \A s \in Caller : s # t => trigger'[s] = trigger[s]
    BY <1>2 DEF TriggerStore, TypeOK
  <2>3. ASSUME NEW s \in Caller, trigger'[s] # None,
               mActiveOutgoingChallenges' # None
        PROVE  StoredInBetween(s)'
    <3>1. s # t /\ trigger'[s] = trigger[s] /\ trigger[s] # None
      BY <2>2, <2>3
    <3>2. trigger[s].found # None => trigger[s].found.challenge # trigger[t].challenge
      BY <2>1, <3>1 DEF Published
    <3>3. trigger[s].found # mActiveOutgoingChallenges'
      BY <2>1, <2>3, <3>2
    <3> QED BY <3>1, <3>3 DEF StoredInBetween
  <2> QED BY <2>3 DEF TriggeredWhenFree, Undergoing
<1>3. CASE RequesterTicks
  <2>1. /\ requesterTime \in Nat /\ requesterTime' = requesterTime + MainFunctionPeriod
        /\ MainFunctionPeriod \in Nat /\ ChallengeTimeout \in Nat
        /\ UNCHANGED <<mActiveOutgoingChallenges, trigger>>
    BY <1>3 DEF RequesterTicks, TypeOK
  <2>2. mActiveOutgoingChallenges # None => mActiveOutgoingChallenges.at \in Nat
    BY DEF TypeOK, Entry
  <2>3. Undergoing(mActiveOutgoingChallenges, requesterTime)'
          => Undergoing(mActiveOutgoingChallenges, requesterTime)
    BY <2>1, <2>2 DEF Undergoing
  <2> QED BY <2>1, <2>3 DEF TriggeredWhenFree, StoredInBetween
<1>4. ASSUME NEW v \in Verifier, VerificationStatusCallout(v)
      PROVE  TriggeredWhenFree'
  BY <1>4
  DEF VerificationStatusCallout, updateVerificationStatusChallenge, Undergoing,
      TriggeredWhenFree, StoredInBetween
<1>5. ASSUME \/ \E v \in Verifier, c \in Challenge : GetRxFreshness(v, c)
             \/ Responder
             \/ UNCHANGED vars
      PROVE  TriggeredWhenFree'
  <2>1. UNCHANGED <<mActiveOutgoingChallenges, trigger, requesterTime>>
    BY <1>5
    DEF GetRxFreshness, Responder, OfferCrRequest, incomingChallengeSignalCb,
        GetTxFreshness, ResponderTicks, vars, requesterVars
  <2> QED BY <2>1 DEF TriggeredWhenFree, StoredInBetween, Undergoing
<1> QED
  BY <1>1, <1>2, <1>3, <1>4, <1>5 DEF Next, Requester, Verify

(***************************************************************************)
(* A waiting challenge gives way to another only after its timeout, on     *)
(* either side and for every interleaving of check and assignment, save    *)
(* that a call of TriggerCrRequest may replace what another thread stored  *)
(* while it was under way.                                                 *)
(***************************************************************************)
THEOREM KeptUntilTimeout == Spec => NotReplacedEarly
<1> DEFINE Kept ==
      /\ Undergoing(mActiveOutgoingChallenges, requesterTime) =>
           \/ mActiveOutgoingChallenges' \in {mActiveOutgoingChallenges, None}
           \/ \E t \in Caller : StoredInBetween(t) /\ TriggerStore(t)
      /\ Undergoing(mActiveIncomingChallenges, responderTime) =>
           mActiveIncomingChallenges' \in {mActiveIncomingChallenges, None}
<1>1. Init => Published /\ TriggeredWhenFree
  BY DEF Init, Published, TriggeredWhenFree
<1>2. TriggeredWhenFree /\ [Next]_vars => [Kept]_vars
  <2> SUFFICES ASSUME TriggeredWhenFree, Next PROVE Kept
    OBVIOUS
  <2>1. ASSUME NEW t \in Caller, TriggerStore(t) PROVE Kept
    <3>1. trigger[t] # None /\ UNCHANGED mActiveIncomingChallenges
      BY <2>1 DEF TriggerStore, responderVars
    <3> QED BY <2>1, <3>1 DEF TriggeredWhenFree
  <2>2. ASSUME NEW v \in Verifier, VerificationStatusCallout(v) PROVE Kept
    BY <2>2 DEF VerificationStatusCallout, updateVerificationStatusChallenge,
                responderVars
  <2>3. ASSUME \/ RequesterTicks
               \/ \E t \in Caller, c \in Challenge : TriggerCrRequest(t, c)
               \/ \E v \in Verifier, c \in Challenge : GetRxFreshness(v, c)
        PROVE  Kept
    BY <2>3 DEF RequesterTicks, TriggerCrRequest, GetRxFreshness, responderVars
  <2>4. CASE Responder
    BY <2>4
    DEF Responder, OfferCrRequest, incomingChallengeSignalCb, IncomingUndergoing,
        GetTxFreshness, discard, ResponderTicks, requesterVars
  <2> QED BY <2>1, <2>2, <2>3, <2>4 DEF Next, Requester, Verify
<1> QED
  BY <1>1, <1>2, InitTypeOK, StepTypeOK, StepPublished, StepTriggeredWhenFree, PTL
  DEF Spec, NotReplacedEarly

-----------------------------------------------------------------------------
(* One-time acceptance, with one verifier.                                 *)

(* What is being verified has not been accepted, nor is it being published. *)
VerifyingIsOpen ==
  \A v \in Verifier : verifying[v] # None =>
    /\ response[verifying[v].signed] > 0
    /\ verifying[v].freshness \in challengeSignal
    /\ \A t \in Caller : trigger[t] # None =>
         trigger[t].challenge # verifying[v].freshness
    /\ accepted[verifying[v].freshness] = 0

(* The responder takes up published challenges only, and answers each as   *)
(* often as it took it up, but for the one it holds.                       *)
AnswersAreOwed ==
  /\ mActiveIncomingChallenges # None =>
       /\ mActiveIncomingChallenges.challenge \in challengeSignal
       /\ response[mActiveIncomingChallenges.challenge]
            < received[mActiveIncomingChallenges.challenge]
  /\ \A c \in Challenge : response[c] <= received[c]
  /\ \A c \in Challenge : c \notin challengeSignal => received[c] = 0

CrInv ==
  /\ TypeOK /\ AcceptedOnce /\ AcceptedIsSpent
  /\ Published /\ VerifyingIsOpen /\ AnswersAreOwed

LEMMA InitCrInv == Init => CrInv
<1> SUFFICES ASSUME Init PROVE CrInv  OBVIOUS
<1>1. TypeOK
  BY InitTypeOK
<1>2. AcceptedOnce /\ AcceptedIsSpent /\ Published /\ VerifyingIsOpen
  BY DEF Init, AcceptedOnce, AcceptedIsSpent, Published, VerifyingIsOpen
<1>3. AnswersAreOwed
  BY DEF Init, AnswersAreOwed
<1> QED BY <1>1, <1>2, <1>3 DEF CrInv

(* The responder's part, which no other property is needed for.            *)
LEMMA StepAnswersAreOwed ==
  TypeOK /\ AnswersAreOwed /\ [Next]_vars => AnswersAreOwed'
<1> SUFFICES ASSUME TypeOK, AnswersAreOwed, [Next]_vars PROVE AnswersAreOwed'
  OBVIOUS
<1>1. ASSUME NEW c \in Challenge, incomingChallengeSignalCb(c)
      PROVE  AnswersAreOwed'
  <2>1. /\ mActiveIncomingChallenges' = [at |-> responderTime, challenge |-> c]
        /\ c \in challengeSignal
        /\ received' = [received EXCEPT ![c] = @ + 1]
        /\ UNCHANGED <<challengeSignal, response>>
    BY <1>1 DEF incomingChallengeSignalCb
  <2>2. /\ received'[c] = received[c] + 1
        /\ \A d \in Challenge : d # c => received'[d] = received[d]
        /\ \A d \in Challenge : received[d] \in Nat /\ response[d] \in Nat
    BY <2>1, CrAssumption DEF TypeOK
  <2> QED BY <2>1, <2>2 DEF AnswersAreOwed
<1>2. CASE GetTxFreshness
  <2> DEFINE c == mActiveIncomingChallenges.challenge
  <2>1. /\ mActiveIncomingChallenges # None
        /\ response' = [response EXCEPT ![c] = @ + 1]
        /\ mActiveIncomingChallenges' = None
        /\ UNCHANGED <<challengeSignal, received>>
    BY <1>2 DEF GetTxFreshness, discard
  <2>2. c \in Challenge
    BY <2>1 DEF TypeOK, Entry
  <2>3. \A d \in Challenge : response'[d] <= received[d]
    <3> TAKE d \in Challenge
    <3>1. received[d] \in Nat /\ response[d] \in Nat
      BY CrAssumption DEF TypeOK
    <3>2. CASE d = c
      BY <2>1, <2>2, <3>1, <3>2 DEF TypeOK, AnswersAreOwed
    <3>3. CASE d # c
      BY <2>1, <2>2, <3>1, <3>3 DEF TypeOK, AnswersAreOwed
    <3> QED BY <3>2, <3>3
  <2> QED BY <2>1, <2>3 DEF AnswersAreOwed
<1>3. ASSUME NEW t \in Caller, NEW c \in Challenge, TriggerCrRequest(t, c)
      PROVE  AnswersAreOwed'
  BY <1>3 DEF TriggerCrRequest, responderVars, AnswersAreOwed
<1>4. ASSUME \/ RequesterTicks \/ OfferCrRequest \/ ResponderTicks
             \/ \E t \in Caller : TriggerStore(t)
             \/ \E v \in Verifier : Verify(v)
             \/ UNCHANGED vars
      PROVE  AnswersAreOwed'
  <2>1. UNCHANGED <<mActiveIncomingChallenges, challengeSignal, received, response>>
    BY <1>4
    DEF RequesterTicks, OfferCrRequest, ResponderTicks, TriggerStore, Verify,
        GetRxFreshness, VerificationStatusCallout, vars, responderVars, mediumVars
  <2> QED BY <2>1 DEF AnswersAreOwed
<1> QED BY <1>1, <1>2, <1>3, <1>4 DEF Next, Requester, Responder

LEMMA StepCrInv ==
  ASSUME NEW theVerifier, Verifier = {theVerifier}
  PROVE  CrInv /\ [Next]_vars => CrInv'
<1> USE DEF CrInv
<1> SUFFICES ASSUME CrInv, [Next]_vars PROVE CrInv'  OBVIOUS
<1>0. TypeOK' /\ Published' /\ AnswersAreOwed'
  BY StepTypeOK, StepPublished, StepAnswersAreOwed
<1>1. ASSUME NEW t \in Caller, NEW c \in Challenge, TriggerCrRequest(t, c)
      PROVE  CrInv'
  <2>1. /\ trigger'[t].challenge = c
        /\ \A s \in Caller : s # t => trigger'[s] = trigger[s]
        /\ c \notin challengeSignal
        /\ challengeSignal' = challengeSignal \cup {c}
        /\ UNCHANGED <<mActiveOutgoingChallenges, verifying, response, accepted>>
    BY <1>1 DEF TriggerCrRequest, TypeOK
  <2>2. AcceptedOnce'
    BY <2>1 DEF AcceptedOnce
  <2>3. VerifyingIsOpen'
    BY <2>1 DEF VerifyingIsOpen
  <2>4. response[c] = 0
    BY <2>1, CrAssumption DEF AnswersAreOwed, TypeOK
  <2>5. AcceptedIsSpent'
    BY <2>1, <2>4 DEF AcceptedIsSpent
  <2> QED BY <1>0, <2>2, <2>3, <2>5
<1>2. ASSUME NEW t \in Caller, TriggerStore(t) PROVE CrInv'
  <2>1. /\ trigger[t] # None /\ trigger'[t] = None
        /\ \A s \in Caller : s # t => trigger'[s] = trigger[s]
        /\ mActiveOutgoingChallenges'.challenge = trigger[t].challenge
        /\ UNCHANGED <<verifying, challengeSignal, response, accepted>>
    BY <1>2 DEF TriggerStore, store, mediumVars, TypeOK
  <2>2. AcceptedOnce' /\ VerifyingIsOpen'
    BY <2>1 DEF AcceptedOnce, VerifyingIsOpen
  <2>3. AcceptedIsSpent'
    BY <2>1 DEF AcceptedIsSpent
  <2> QED BY <1>0, <2>2, <2>3
<1>3. ASSUME NEW v \in Verifier, NEW c \in Challenge, GetRxFreshness(v, c)
      PROVE  CrInv'
  <2> DEFINE active == mActiveOutgoingChallenges.challenge
  <2>1. active \in Challenge
    BY <1>3 DEF GetRxFreshness, TypeOK, Entry
  <2>2. accepted[active] = 0
    BY <1>3, <2>1 DEF GetRxFreshness, AcceptedIsSpent, TypeOK
  <2>4. AcceptedOnce' /\ AcceptedIsSpent'
    BY <1>3 DEF GetRxFreshness, mediumVars, AcceptedOnce, AcceptedIsSpent
  <2>5. VerifyingIsOpen'
    BY <1>3, <2>1, <2>2
    DEF GetRxFreshness, mediumVars, TypeOK, Published, VerifyingIsOpen
  <2> QED BY <1>0, <2>4, <2>5
<1>4. ASSUME NEW v \in Verifier, VerificationStatusCallout(v) PROVE CrInv'
  <2>1. v = theVerifier /\ verifying[v] # None
    BY <1>4 DEF VerificationStatusCallout
  <2> DEFINE c == verifying[v].signed
  <2>2. c \in Challenge
    BY <2>1 DEF TypeOK
  <2>3. VerifyingIsOpen'
    BY <1>4, <2>1 DEF VerificationStatusCallout, TypeOK, VerifyingIsOpen
  <2>4. CASE Verified(v)
    <3>1. /\ mActiveOutgoingChallenges' = None
          /\ accepted' = [accepted EXCEPT ![c] = @ + 1]
          /\ UNCHANGED <<trigger, response>>
      BY <1>4, <2>4
      DEF VerificationStatusCallout, updateVerificationStatusChallenge, mediumVars
    <3>2. /\ accepted[c] = 0 /\ response[c] > 0
          /\ \A t \in Caller : trigger[t] # None => trigger[t].challenge # c
      BY <2>1, <2>4 DEF Verified, VerifyingIsOpen
    <3>4. AcceptedOnce'
      BY <2>2, <3>1, <3>2 DEF AcceptedOnce, TypeOK
    <3>5. AcceptedIsSpent'
      BY <2>2, <3>1, <3>2 DEF AcceptedIsSpent, TypeOK
    <3> QED BY <1>0, <2>3, <3>4, <3>5
  <2>5. CASE ~Verified(v)
    <3>1. UNCHANGED <<mActiveOutgoingChallenges, accepted, trigger, response>>
      BY <1>4, <2>5
      DEF VerificationStatusCallout, updateVerificationStatusChallenge, mediumVars
    <3>3. AcceptedOnce' /\ AcceptedIsSpent'
      BY <3>1 DEF AcceptedOnce, AcceptedIsSpent
    <3> QED BY <1>0, <2>3, <3>3
  <2> QED BY <2>4, <2>5
<1>5. ASSUME \/ RequesterTicks \/ ResponderTicks \/ OfferCrRequest
             \/ \E c \in Challenge : incomingChallengeSignalCb(c)
             \/ UNCHANGED vars
      PROVE  CrInv'
  <2>1. UNCHANGED <<mActiveOutgoingChallenges, trigger, verifying,
                    challengeSignal, response, accepted>>
    BY <1>5
    DEF RequesterTicks, ResponderTicks, OfferCrRequest, incomingChallengeSignalCb,
        vars, requesterVars, mediumVars
  <2>2. AcceptedOnce' /\ AcceptedIsSpent' /\ VerifyingIsOpen'
    BY <2>1 DEF AcceptedOnce, AcceptedIsSpent, VerifyingIsOpen
  <2> QED BY <1>0, <2>2
<1>6. CASE GetTxFreshness
  <2>1. UNCHANGED <<mActiveOutgoingChallenges, trigger, verifying,
                    challengeSignal, accepted>>
    BY <1>6 DEF GetTxFreshness, requesterVars
  <2>2. \A d \in Challenge : response[d] > 0 => response'[d] > 0
    BY <1>6 DEF GetTxFreshness, TypeOK, Entry
  <2>3. AcceptedOnce' /\ AcceptedIsSpent'
    BY <2>1, <2>2 DEF AcceptedOnce, AcceptedIsSpent
  <2>4. VerifyingIsOpen'
    BY <2>1, <2>2 DEF VerifyingIsOpen, TypeOK
  <2> QED BY <1>0, <2>3, <2>4
<1> QED
  BY <1>1, <1>2, <1>3, <1>4, <1>5, <1>6 DEF Next, Requester, Responder, Verify

(***************************************************************************)
(* With responses verified one at a time, at most one response to each     *)
(* challenge is accepted.                                                  *)
(***************************************************************************)
THEOREM SerialReplayProtection ==
  ASSUME NEW theVerifier, Verifier = {theVerifier}
  PROVE  Spec => []AcceptedOnce
<1>1. CrInv /\ [Next]_vars => CrInv'
  BY StepCrInv
<1>2. CrInv => AcceptedOnce
  BY DEF CrInv
<1> QED BY <1>1, <1>2, InitCrInv, PTL DEF Spec

(***************************************************************************)
(* Then, too, a challenge whose response has been accepted was answered    *)
(* and is spent: not active, nor to be stored as active once more.         *)
(***************************************************************************)
THEOREM AcceptedChallengeIsSpent ==
  ASSUME NEW theVerifier, Verifier = {theVerifier}
  PROVE  Spec => []AcceptedIsSpent
<1>1. CrInv /\ [Next]_vars => CrInv'
  BY StepCrInv
<1>2. CrInv => AcceptedIsSpent
  BY DEF CrInv
<1> QED BY <1>1, <1>2, InitCrInv, PTL DEF Spec

(***************************************************************************)
(* What a call hands to the medium or accepts is one step of the abstract  *)
(* protocol, every other call none.                                        *)
(***************************************************************************)
LEMMA StepOneTime ==
  ASSUME NEW theVerifier, Verifier = {theVerifier}, CrInv, [Next]_vars
  PROVE  [OneTime!Next]_<<challengeSignal, received, response, accepted>>
<1> USE DEF OneTime!Next
<1>1. ASSUME NEW t \in Caller, NEW c \in Challenge, TriggerCrRequest(t, c)
      PROVE  OneTime!Issue(c)
  BY <1>1 DEF TriggerCrRequest, OneTime!Issue
<1>2. ASSUME NEW c \in Challenge, incomingChallengeSignalCb(c)
      PROVE  OneTime!Receive(c)
  BY <1>2 DEF incomingChallengeSignalCb, OneTime!Receive
<1>3. ASSUME GetTxFreshness
      PROVE  \E c \in Challenge : OneTime!Answer(c)
  <2> DEFINE c == mActiveIncomingChallenges.challenge
  <2>1. c \in Challenge /\ response[c] < received[c]
    BY <1>3 DEF GetTxFreshness, CrInv, TypeOK, Entry, AnswersAreOwed
  <2>2. OneTime!Answer(c)
    BY <1>3, <2>1 DEF GetTxFreshness, OneTime!Answer
  <2> QED BY <2>1, <2>2
<1>4. ASSUME NEW v \in Verifier, VerificationStatusCallout(v)
      PROVE  \/ UNCHANGED <<challengeSignal, received, response, accepted>>
             \/ \E c \in Challenge : OneTime!Accept(c)
  <2>1. UNCHANGED <<challengeSignal, received, response>> /\ verifying[v] # None
    BY <1>4 DEF VerificationStatusCallout, mediumVars
  <2>2. CASE ~Verified(v)
    BY <1>4, <2>1, <2>2 DEF VerificationStatusCallout
  <2>3. CASE Verified(v)
    <3> DEFINE c == verifying[v].signed
    <3>1. c \in Challenge
      BY <2>1 DEF CrInv, TypeOK
    <3>2. response[c] > 0 /\ accepted[c] = 0
      BY <2>1, <2>3 DEF Verified, CrInv, VerifyingIsOpen
    <3>3. accepted' = [accepted EXCEPT ![c] = 1]
      BY <1>4, <2>3, <3>1, <3>2 DEF VerificationStatusCallout, CrInv, TypeOK
    <3>4. OneTime!Accept(c)
      BY <2>1, <3>2, <3>3 DEF OneTime!Accept
    <3> QED BY <3>1, <3>4
  <2> QED BY <2>2, <2>3
<1>5. ASSUME \/ RequesterTicks \/ OfferCrRequest \/ ResponderTicks
             \/ \E t \in Caller : TriggerStore(t)
             \/ \E v \in Verifier, c \in Challenge : GetRxFreshness(v, c)
             \/ UNCHANGED vars
      PROVE  UNCHANGED <<challengeSignal, received, response, accepted>>
  BY <1>5
  DEF TriggerStore, RequesterTicks, OfferCrRequest, ResponderTicks,
      GetRxFreshness, vars, mediumVars
<1> QED
  BY <1>1, <1>2, <1>3, <1>4, <1>5 DEF Next, Requester, Responder, Verify

(***************************************************************************)
(* With responses verified one at a time, requester and responder          *)
(* implement the one-time challenge, whatever the medium repeats: each     *)
(* challenge is issued once, answered at most once for each time it was    *)
(* taken up, and accepted at most once.                                    *)
(***************************************************************************)
THEOREM SerialImplementsOneTimeChallenge ==
  ASSUME NEW theVerifier, Verifier = {theVerifier}
  PROVE  Spec => ImplementsOneTimeChallenge
<1>1. Init => OneTime!Init
  BY DEF Init, OneTime!Init, OneTime!Never
<1>2. CrInv /\ [Next]_vars => CrInv'
  BY StepCrInv
<1>3. CrInv /\ [Next]_vars
        => [OneTime!Next]_<<challengeSignal, received, response, accepted>>
  BY StepOneTime
<1> QED
  BY <1>1, <1>2, <1>3, InitCrInv, PTL DEF Spec, ImplementsOneTimeChallenge, OneTime!Spec

=============================================================================
