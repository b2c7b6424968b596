---------------------------- MODULE FvFreshness -----------------------------
(***************************************************************************)
(* Authentic broadcast under one freshness value ID: what the FVM of the   *)
(* source ECU gives SecOC for signing a PDU, and the FVM of the sink ECU   *)
(* for verifying it.                                                       *)
(*                                                                         *)
(* Threads: FVM MainFunction advances the time and, as participant, makes  *)
(* mIsFvValid true or false (FvParticipant); SecOC verifies PDUs, each     *)
(* verifier in a thread of its own, one or several attempts each.  Nothing *)
(* is locked: getRxFv is split wherever it reads again what another thread *)
(* may have changed.  SetActive, UpdateEvent, IncSessionCounter and the    *)
(* use of the candidate map are taken as atomic.                           *)
(*                                                                         *)
(* A PDU is what its MAC covers: a freshness value and a session counter   *)
(* (empty for IDs of the plain type); it is known by its place in the      *)
(* sequence of PDUs sent.  The medium, which is not the repository's code, *)
(* may lose, delay, reorder and repeat PDUs.                               *)
(***************************************************************************)
EXTENDS FvmRuntimeAttributes, FiniteSets

CONSTANTS
  TimeIncrementPeriod,  \* SOK_FM_TIME_INCREMENT_PERIOD_MS
  TimeValidTimeout,     \* SOK_FM_TIME_VALID_TIMEOUT_MS
  UpstartTime,          \* SOK_UPSTART_TIME, far above every freshness value
  InvalidTime,          \* SOK_INVALID_TIME, likewise
  FirstFv,              \* values the server may have when the model starts
  FirstTime,            \* values of mTimeSinceInit then, this ID being unused
  Scenario,             \* what SecOC may do, and how far it is followed
  Verifier,             \* threads that may verify PDUs of this ID
  None

ASSUME FreshnessAssumption ==
  /\ TimeIncrementPeriod \in Nat \ {0}
  /\ TimeValidTimeout \in Nat
  /\ UpstartTime \in Nat /\ InvalidTime \in Nat
  /\ FirstFv \subseteq Nat /\ FirstTime \subseteq Nat
  /\ Scenario \subseteq
       [ threads : (SUBSET Verifier) \ {{}},  \* those that do
         maxAttempts : Nat \ {0},    \* verification attempts for one PDU
         alwaysSuccess : BOOLEAN,    \* whether success is reported come what may
         maxTime : Nat,              \* bound: mTimeSinceInit
         maxSent : Nat ]             \* bound: PDUs sent
  /\ \A s \in Scenario, time \in FirstTime : time <= s.maxTime
  /\ IsFiniteSet(Verifier)

Source == "source"
Sink == "sink"
Ecu == {Source, Sink}

VARIABLES
  scenario,
  authenticFv,       \* the server's value
  \* the FVM of each ECU
  mTimeSinceInit, mIsFvValid, mFV,
  mAttrMgr,          \* the runtime attributes of this ID
  \* sink
  mFvRxCandidates,   \* candidates of this ID, or None
  verifying,         \* per verifier: the verification in progress, or None
  dead,              \* whether the process has died
  \* medium and history
  sent,              \* the PDUs sent
  accepted           \* which of them have been accepted

fvmVars == <<scenario, authenticFv, mTimeSinceInit, mIsFvValid, mFV>>
vars == <<fvmVars, mAttrMgr, mFvRxCandidates, verifying, dead, sent, accepted>>

Init ==
  /\ scenario \in Scenario
  /\ authenticFv \in FirstFv
  /\ \E time \in FirstTime :
       mTimeSinceInit = [ecu \in Ecu |-> IF ecu = Sink THEN time ELSE 0]
  /\ mIsFvValid = [ecu \in Ecu |-> FALSE]
  /\ mFV = [ecu \in Ecu |-> 0]
  /\ mAttrMgr = [ecu \in Ecu |-> InitAttributes]
  /\ mFvRxCandidates = None
  /\ verifying = [v \in Verifier |-> None]
  /\ dead = FALSE
  /\ sent = <<>>
  /\ accepted = {}

-----------------------------------------------------------------------------
(* The main loops.                                                         *)

(* The calls of incTimers that make up one increment, on all ECUs. *)
incTimers ==
  /\ \A ecu \in Ecu : mTimeSinceInit[ecu] + TimeIncrementPeriod <= scenario.maxTime
  /\ authenticFv' = authenticFv + 1
  /\ mTimeSinceInit' = [ecu \in Ecu |-> mTimeSinceInit[ecu] + TimeIncrementPeriod]
  /\ mFV' = [ecu \in Ecu |-> IF mIsFvValid[ecu] THEN mFV[ecu] + 1 ELSE mFV[ecu]]
  /\ UNCHANGED <<scenario, mIsFvValid, mAttrMgr, mFvRxCandidates, verifying, dead, sent,
                 accepted>>

(* processAnAuthenticFv and processAnUnauthenticFv, as FvParticipant has them. *)
synchronise(ecu) ==
  /\ ~mIsFvValid[ecu]
  /\ mIsFvValid' = [mIsFvValid EXCEPT ![ecu] = TRUE]
  /\ mFV' = [mFV EXCEPT ![ecu] = authenticFv]
  /\ UNCHANGED <<scenario, authenticFv, mTimeSinceInit, mAttrMgr, mFvRxCandidates,
                 verifying, dead, sent, accepted>>

loseSynchronisation(ecu) ==
  /\ mIsFvValid[ecu]
  /\ mIsFvValid' = [mIsFvValid EXCEPT ![ecu] = FALSE]
  /\ UNCHANGED <<scenario, authenticFv, mTimeSinceInit, mFV, mAttrMgr, mFvRxCandidates,
                 verifying, dead, sent, accepted>>

-----------------------------------------------------------------------------
(* Source.                                                                 *)

WithinValidTimeout(ecu) == mTimeSinceInit[ecu] <= TimeValidTimeout

TxFv ==
  CASE ~mAttrMgr[Source].valueIsActive -> UpstartTime
    [] mAttrMgr[Source].valueIsActive /\ mIsFvValid[Source] -> mFV[Source]
    [] OTHER -> IF WithinValidTimeout(Source) THEN UpstartTime ELSE InvalidTime

WrongActiveSinceFv(attr) ==
  IF ~attr.valueIsActive THEN SetActive(attr, mFV[Source])
  ELSE IF mIsFvValid[Source]
    THEN UpdateEvent(attr, "lastRequestedForSigning", mFV[Source]) ELSE attr

(* The attributes after getTxFv has used them, but for the counter. *)
TxUsed(attr) ==
  IF ~attr.valueIsActive THEN SetActive(attr, mTimeSinceInit[Source])
  ELSE IF mIsFvValid[Source]
    THEN UpdateEvent(attr, "lastRequestedForSigning", mFV[Source]) ELSE attr

(* GetTxFreshness; SecOC signs with what it gets, and the PDU is on its way. *)
getTxFv ==
  LET attr == IncSessionCounter(TxUsed(mAttrMgr[Source])) IN
  /\ mAttrMgr' = [mAttrMgr EXCEPT ![Source] = attr]
  /\ Len(sent) < scenario.maxSent
  /\ sent' = Append(sent, [fv |-> TxFv, counter |-> attr.sessionCounterLastUsed])
  /\ UNCHANGED <<fvmVars, mFvRxCandidates, verifying, dead, accepted>>

SPduTxConfirmation ==
  /\ sent # <<>>
  /\ mAttrMgr' = [mAttrMgr EXCEPT ![Source] =
       UpdateEvent(@, "latestSignedTime", GetEvent(@, "lastRequestedForSigning"))]
  /\ UNCHANGED <<fvmVars, mFvRxCandidates, verifying, dead, sent, accepted>>

-----------------------------------------------------------------------------
(* Sink.  A verification is at one of these points:                        *)
(*   "matched"   getRxFv: no candidates yet, the counter is the next one   *)
(*   "checked"   counter consumed, time or freshness value good            *)
(*   "noDefault" not the default alone; the freshness value is read next   *)
(*   "verify"    GetRxFreshness has returned a freshness value             *)
(*   "refused"   GetRxFreshness has returned an error                      *)
(*   "retry"     verification has failed, another attempt is left          *)

VerifyPoint == {"matched", "checked", "noDefault", "verify", "refused", "retry"}

Verification ==
  [ pdu : Nat, attempt : Nat, at : VerifyPoint, freshness : Int \cup {None},
    first : BOOLEAN ]

ASSUME NoneAssumption == None \notin Verification

Goto(v, at) == verifying' = [verifying EXCEPT ![v].at = at]

Begin(v, pdu, attempt, at, freshness) ==
  verifying' = [verifying EXCEPT ![v] =
    [pdu |-> pdu, attempt |-> attempt, at |-> at, freshness |-> freshness,
     first |-> FALSE]]

WrongCounterUnchecked(pdu) == TRUE

CounterMatches(pdu) == sent[pdu].counter = GetNextSessionCounter(mAttrMgr[Sink])

WrongLastCandidateRefused(attempt) == attempt + 1 >= Len(mFvRxCandidates)

TooManyAttempts(attempt) == attempt >= Len(mFvRxCandidates)

(* The beginning of getRxFv, for a PDU's first attempt or a later one. *)
getRxFv(v, pdu, attempt) ==
  /\ IF mFvRxCandidates # None
       THEN IF TooManyAttempts(attempt)
              THEN Begin(v, pdu, attempt, "refused", None)
              ELSE Begin(v, pdu, attempt, "verify", mFvRxCandidates[attempt + 1])
       ELSE IF attempt = 0 /\ CounterMatches(pdu)
              THEN Begin(v, pdu, attempt, "matched", None)
              ELSE Begin(v, pdu, attempt, "refused", None)
  /\ UNCHANGED <<fvmVars, mAttrMgr, mFvRxCandidates, dead, sent, accepted>>

(* The counter is consumed before it is known whether there is a value. *)
consumeCounter(v) ==
  /\ verifying[v].at = "matched"
  /\ mAttrMgr' = [mAttrMgr EXCEPT ![Sink] = IncSessionCounter(@)]
  /\ IF ~mIsFvValid[Sink] /\ ~WithinValidTimeout(Sink)
       THEN Goto(v, "refused") ELSE Goto(v, "checked")
  /\ UNCHANGED <<fvmVars, mFvRxCandidates, dead, sent, accepted>>

(* The candidates are stored, and the first of them is the result. *)
offerCandidates(v, candidates, attr) ==
  /\ mFvRxCandidates' = candidates
  /\ mAttrMgr' = [mAttrMgr EXCEPT ![Sink] =
       UpdateEvent(attr, "lastRequestedForVerification", mFV[Sink])]
  /\ verifying' = [verifying EXCEPT ![v].at = "verify",
                                    ![v].freshness = candidates[1]]

activate(v) ==
  LET attr == SetActive(mAttrMgr[Sink], mTimeSinceInit[Sink]) IN
  /\ verifying[v].at = "checked"
  /\ IF ~mIsFvValid[Sink] /\ WithinValidTimeout(Sink)
       THEN offerCandidates(v, <<UpstartTime>>, attr)
       ELSE /\ mAttrMgr' = [mAttrMgr EXCEPT ![Sink] = attr]
            /\ verifying' = [verifying EXCEPT ![v].at = "noDefault",
                 ![v].first = ~mAttrMgr[Sink].valueIsActive]
            /\ UNCHANGED mFvRxCandidates
  /\ UNCHANGED <<fvmVars, dead, sent, accepted>>

Around(fv) == <<fv, fv - 1, fv + 1>>

(* An ID in use for a short time only may still receive the default. *)
buildCandidates(v) ==
  LET attr == mAttrMgr[Sink]
      young == mTimeSinceInit[Sink] - attr.firstUsed <= TimeValidTimeout
  IN
  /\ verifying[v].at = "noDefault"
  /\ mIsFvValid[Sink]
  /\ verifying[v].first \/ mFV[Sink] >= attr.firstUsed
  /\ offerCandidates(v, IF verifying[v].first \/ young
                          THEN <<UpstartTime>> \o Around(mFV[Sink])
                          ELSE Around(mFV[Sink]), attr)
  /\ UNCHANGED <<fvmVars, dead, sent, accepted>>

(* A freshness value is held against the time in ms of the first use. *)
refuseOldActivity(v) ==
  /\ verifying[v].at = "noDefault"
  /\ mIsFvValid[Sink]
  /\ ~verifying[v].first
  /\ mFV[Sink] < mAttrMgr[Sink].firstUsed
  /\ Goto(v, "refused")
  /\ UNCHANGED <<fvmVars, mAttrMgr, mFvRxCandidates, dead, sent, accepted>>

(***************************************************************************)
(* The value was lost since it was checked: no candidates are built.  The  *)
(* result is read from what another verification left, or from an empty    *)
(* vector, at address zero.                                                *)
(***************************************************************************)
readUnbuilt(v) ==
  /\ verifying[v].at = "noDefault"
  /\ ~mIsFvValid[Sink]
  /\ IF mFvRxCandidates = None
       THEN dead' = TRUE /\ UNCHANGED <<mFvRxCandidates, mAttrMgr, verifying>>
       ELSE offerCandidates(v, mFvRxCandidates, mAttrMgr[Sink]) /\ UNCHANGED dead
  /\ UNCHANGED <<fvmVars, sent, accepted>>

Verified(v) ==
  /\ verifying[v].at = "verify"
  /\ verifying[v].freshness = sent[verifying[v].pdu].fv

RetryLeft(v) == verifying[v].at = "verify" /\ verifying[v].attempt + 1 < scenario.maxAttempts

Retry(session) ==
  [session EXCEPT !.at = "retry", !.attempt = @ + 1, !.freshness = None]

updateVerificationStatusAuthBroadcast(verificationSucceeded) ==
  IF verificationSucceeded
    THEN /\ mFvRxCandidates' = None
         /\ mAttrMgr' = [mAttrMgr EXCEPT ![Sink] =
              UpdateEvent(@, "latestVerifiedTime",
                          GetEvent(@, "lastRequestedForVerification"))]
    ELSE UNCHANGED <<mFvRxCandidates, mAttrMgr>>

VerificationStatusCallout(v) ==
  /\ verifying[v].at \in {"verify", "refused"}
  /\ updateVerificationStatusAuthBroadcast(Verified(v) \/ scenario.alwaysSuccess)
  /\ accepted' = IF Verified(v) THEN accepted \cup {verifying[v].pdu} ELSE accepted
  /\ verifying' = [verifying EXCEPT ![v] =
       IF ~Verified(v) /\ RetryLeft(v) THEN Retry(@) ELSE None]
  /\ UNCHANGED <<fvmVars, dead, sent>>

VerifyStep(v) ==
  \/ verifying[v].at = "retry" /\ getRxFv(v, verifying[v].pdu, verifying[v].attempt)
  \/ consumeCounter(v)
  \/ activate(v)
  \/ buildCandidates(v)
  \/ refuseOldActivity(v)
  \/ readUnbuilt(v)
  \/ VerificationStatusCallout(v)

Verify(v) ==
  /\ v \in scenario.threads
  /\ ~dead
  /\ IF verifying[v] = None
       THEN \E pdu \in DOMAIN sent : getRxFv(v, pdu, 0)
       ELSE VerifyStep(v)

Sign == getTxFv \/ SPduTxConfirmation

MainLoops ==
  \/ incTimers
  \/ \E ecu \in Ecu : synchronise(ecu) \/ loseSynchronisation(ecu)

Next == MainLoops \/ Sign \/ \E v \in Verifier : Verify(v)

Spec == Init /\ [][Next]_vars

-----------------------------------------------------------------------------
(* Properties.                                                             *)

Session ==
  [ pdu : DOMAIN sent,
    attempt : 0..(scenario.maxAttempts - 1),
    at : VerifyPoint,
    freshness : Int \cup {None},
    first : BOOLEAN ]

TypeOK ==
  /\ mTimeSinceInit \in [Ecu -> 0..scenario.maxTime]
  /\ mIsFvValid \in [Ecu -> BOOLEAN]
  /\ mFV \in [Ecu -> Nat]
  /\ \A ecu \in Ecu :
       /\ mAttrMgr[ecu].sessionCounterLastUsed \in SessionCounter
       /\ mAttrMgr[ecu].firstUsed <= mTimeSinceInit[ecu]
  /\ mFvRxCandidates # None => Len(mFvRxCandidates) \in {1, 3, 4}
  /\ verifying \in [Verifier -> Session \cup {None}]
  /\ accepted \subseteq DOMAIN sent

(* The values a counter takes, from the first one to the end of a round. *)
CounterRound ==
  LET values[n \in Nat] ==
        IF n = 0 THEN << GetSessionCounter(InitAttributes) >>
        ELSE LET before == values[n - 1]
             IN Append(before, incrementByteArray(before[n]))
  IN values[ByteShift[SessionCounterLength]]

(***************************************************************************)
(* The sink's session counter, which it advances before the MAC has been   *)
(* verified, and apart from the test that it is the PDU's, gets ahead of   *)
(* the source's by fewer steps than there are threads that verify: with    *)
(* one thread it is that of a PDU that was sent, whatever is repeated and  *)
(* whatever fails; each further thread may advance it once more for a      *)
(* repeated PDU.  Ahead, it refuses the PDUs to come.                      *)
(***************************************************************************)
CounterNeverAhead ==
  \E k \in 0..(Len(sent) + Cardinality(scenario.threads) - 1) :
    mAttrMgr[Sink].sessionCounterLastUsed =
      CounterRound[(k % ByteShift[SessionCounterLength]) + 1]

(***************************************************************************)
(* A counter of n bytes runs through all its values before any of them is  *)
(* used again: in a round, only the PDU that was sent with a counter has   *)
(* it, although the bytes do not count in the usual order.                 *)
(* (Two PDUs with one counter could replace each other.)                   *)
(***************************************************************************)
NoEarlyRepetition ==
  LET round == ByteShift[SessionCounterLength] IN
  \A i \in DOMAIN sent : \A n \in 1..round :
    CounterRound[n + 1] = sent[i].counter => n % round = i % round

GivesUp(v) ==
  /\ verifying[v] # None /\ verifying'[v] = None
  /\ mFvRxCandidates # None
  /\ ~Verified(v)

(***************************************************************************)
(* If it verifies one PDU of the ID at a time, SecOC gives a PDU up only   *)
(* when none of the candidates fits it: with its four attempts             *)
(* (MAX_VERIFY_ATTEMPTS_FV_TYPE), spread over calls between which time and *)
(* validity change, it is offered every one of them.  (The workaround of   *)
(* the sample makes one attempt.)                                          *)
(***************************************************************************)
OneByOne == \E v \in Verifier : scenario.threads = {v}

CandidatesExhausted ==
  [][\A v \in Verifier : OneByOne /\ ~scenario.alwaysSuccess /\ GivesUp(v) =>
       \A i \in DOMAIN mFvRxCandidates :
         mFvRxCandidates[i] # sent[verifying[v].pdu].fv]_vars

Accepts(v) == verifying[v] # None /\ verifying'[v] = None /\ Verified(v)

(***************************************************************************)
(* Replay protection of IDs with a session counter: PDUs are accepted in   *)
(* the order in which they were sent, each at most once.                   *)
(***************************************************************************)
AcceptedInOrder ==
  [][\A v \in Verifier : Accepts(v) =>
       \A i \in accepted : i < verifying[v].pdu]_vars

(***************************************************************************)
(* It holds if SecOC reports success come what may, so that no candidates  *)
(* outlive their PDU, and verifies one PDU of the ID at a time.  The       *)
(* sample's handleArrivingSignal does the first; it does not ensure the    *)
(* second, as each PDU that arrives is verified in a thread of its own.    *)
(***************************************************************************)
AcceptedInOrderOneByOne ==
  [][\A v \in Verifier : OneByOne /\ scenario.alwaysSuccess /\ Accepts(v) =>
       \A i \in accepted : i < verifying[v].pdu]_vars

(***************************************************************************)
(* GetRxFreshness is documented to return a freshness value "or            *)
(* recoverable error".  It may do neither: if the participant loses its    *)
(* value while candidates are about to be built, none are, and the first   *)
(* of none is read.                                                        *)
(***************************************************************************)
SinkSurvives == ~dead
=============================================================================
