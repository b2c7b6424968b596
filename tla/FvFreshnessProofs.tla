------------------------- MODULE FvFreshnessProofs --------------------------
(***************************************************************************)
(* Session counters and candidates, for counters of any length, any        *)
(* scenario and all times.  How far the sink's counter gets ahead is       *)
(* proved for any number of threads that verify; what SecOC is offered and *)
(* the order of acceptance under the assumption they rest on, that one     *)
(* thread verifies the PDUs of this ID.                                    *)
(***************************************************************************)
EXTENDS FvFreshness, NatLemmas, FiniteSetTheorems

Counter(ecu) == mAttrMgr[ecu].sessionCounterLastUsed

(* A verification that has found the counter to match finds it so still    *)
(* when it consumes it.                                                    *)
StillMatches ==
  \A v \in Verifier : verifying[v] # None =>
    /\ {"pdu", "at"} \subseteq DOMAIN verifying[v]
    /\ verifying[v].pdu \in DOMAIN sent
    /\ verifying[v].at = "matched" =>
         sent[verifying[v].pdu].counter = incrementByteArray(Counter(Sink))

CounterInv ==
  /\ DOMAIN mAttrMgr = Ecu
  /\ \A ecu \in Ecu : "sessionCounterLastUsed" \in DOMAIN mAttrMgr[ecu]
  /\ DOMAIN verifying = Verifier
  /\ \E S : sent \in Seq(S)
  /\ StillMatches

-----------------------------------------------------------------------------
(* Which operations on the attributes touch the counter.                   *)

HasCounter(attr) == "sessionCounterLastUsed" \in DOMAIN attr

LEMMA ActivationKeepsCounter ==
  ASSUME NEW attr, HasCounter(attr), NEW time
  PROVE  /\ HasCounter(SetActive(attr, time))
         /\ SetActive(attr, time).sessionCounterLastUsed = attr.sessionCounterLastUsed
  BY DEF HasCounter, SetActive

LEMMA EventKeepsCounter ==
  ASSUME NEW attr, HasCounter(attr), NEW value, NEW event,
         event # "sessionCounterLastUsed"
  PROVE  /\ HasCounter(UpdateEvent(attr, event, value))
         /\ UpdateEvent(attr, event, value).sessionCounterLastUsed
              = attr.sessionCounterLastUsed
  BY DEF HasCounter, UpdateEvent

LEMMA IncrementSetsCounter ==
  ASSUME NEW attr, HasCounter(attr)
  PROVE  /\ HasCounter(IncSessionCounter(attr))
         /\ IncSessionCounter(attr).sessionCounterLastUsed
              = incrementByteArray(attr.sessionCounterLastUsed)
  BY DEF HasCounter, IncSessionCounter

(* Once the counter is consumed, a verification leaves the counters alone. *)
LEMMA SinkCounterKept ==
  ASSUME HasCounter(mAttrMgr[Sink]), NEW v,
         activate(v) \/ buildCandidates(v) \/ refuseOldActivity(v)
           \/ readUnbuilt(v) \/ VerificationStatusCallout(v)
  PROVE  UNCHANGED mAttrMgr
           \/ \E attr : /\ HasCounter(attr)
                        /\ attr.sessionCounterLastUsed = Counter(Sink)
                        /\ mAttrMgr' = [mAttrMgr EXCEPT ![Sink] = attr]
<1> DEFINE KeepsCounter(attr) ==
      HasCounter(attr) /\ attr.sessionCounterLastUsed = Counter(Sink)
<1>1. KeepsCounter(mAttrMgr[Sink])
  BY DEF Counter
<1>2. \A attr, value :
        KeepsCounter(attr) =>
          /\ KeepsCounter(SetActive(attr, value))
          /\ KeepsCounter(UpdateEvent(attr, "lastRequestedForVerification", value))
          /\ KeepsCounter(UpdateEvent(attr, "latestVerifiedTime", value))
  BY ActivationKeepsCounter, EventKeepsCounter
<1>3. UNCHANGED mAttrMgr
        \/ \E attr : KeepsCounter(attr) /\ mAttrMgr' = [mAttrMgr EXCEPT ![Sink] = attr]
  <2> HIDE DEF KeepsCounter
  <2>1. CASE activate(v)
    BY <1>1, <1>2, <2>1 DEF activate, offerCandidates
  <2>2. CASE buildCandidates(v)
    BY <1>1, <1>2, <2>2 DEF buildCandidates, offerCandidates
  <2>3. CASE readUnbuilt(v)
    BY <1>1, <1>2, <2>3 DEF readUnbuilt, offerCandidates
  <2>4. CASE refuseOldActivity(v)
    BY <2>4 DEF refuseOldActivity
  <2>5. CASE VerificationStatusCallout(v)
    BY <1>1, <1>2, <2>5
    DEF VerificationStatusCallout, updateVerificationStatusAuthBroadcast
  <2> QED BY <2>1, <2>2, <2>3, <2>4, <2>5
<1> QED BY <1>3

-----------------------------------------------------------------------------
LEMMA InitCounterInv == Init => CounterInv
<1> SUFFICES ASSUME Init PROVE CounterInv  OBVIOUS
<1>1. /\ DOMAIN mAttrMgr = Ecu
      /\ \A ecu \in Ecu : "sessionCounterLastUsed" \in DOMAIN mAttrMgr[ecu]
  BY DEF Init, InitAttributes, Ecu
<1>2. sent = <<>> /\ verifying = [v \in Verifier |-> None]
  BY DEF Init
<1>3. sent \in Seq({})
  BY <1>2
<1>4. DOMAIN verifying = Verifier /\ StillMatches
  BY <1>2 DEF StillMatches
<1> QED BY <1>1, <1>3, <1>4 DEF CounterInv

(* A step that leaves the sink's counter and the PDUs alone, and finds no  *)
(* counter to match.                                                       *)
SinkKept ==
  /\ UNCHANGED sent
  /\ DOMAIN mAttrMgr' = Ecu
  /\ \A ecu \in Ecu : "sessionCounterLastUsed" \in DOMAIN mAttrMgr'[ecu]
  /\ mAttrMgr'[Sink].sessionCounterLastUsed = mAttrMgr[Sink].sessionCounterLastUsed
  /\ DOMAIN verifying' = Verifier
  /\ \A v \in Verifier : verifying'[v] = verifying[v] \/ verifying'[v] = None \/
       /\ {"pdu", "at"} \subseteq DOMAIN verifying'[v]
       /\ verifying'[v].pdu \in DOMAIN sent
       /\ verifying'[v].at # "matched"

LEMMA SinkKeptIsEnough == CounterInv /\ SinkKept => CounterInv'
<1> SUFFICES ASSUME CounterInv, SinkKept PROVE CounterInv'  OBVIOUS
<1>1. Counter(Sink)' = Counter(Sink)
  BY DEF SinkKept, Counter
<1>2. StillMatches'
  BY <1>1 DEF CounterInv, SinkKept, StillMatches
<1> QED BY <1>1, <1>2 DEF CounterInv, SinkKept

LEMMA StepCounterInv ==
  ASSUME NEW theVerifier, Verifier = {theVerifier}
  PROVE  CounterInv /\ [Next]_vars => CounterInv'
<1> SUFFICES ASSUME CounterInv, [Next]_vars PROVE CounterInv'  OBVIOUS
<1> DEFINE sinkAttr == mAttrMgr[Sink]
<1>0. /\ DOMAIN mAttrMgr = Ecu /\ Sink \in Ecu /\ Source \in Ecu /\ Sink # Source
      /\ HasCounter(mAttrMgr[Sink]) /\ HasCounter(mAttrMgr[Source])
      /\ \A ecu \in Ecu : ecu = Sink \/ ecu = Source
      /\ DOMAIN verifying = Verifier
  BY DEF CounterInv, HasCounter, Ecu, Sink, Source
<1>1. CASE MainLoops \/ UNCHANGED vars
  <2>1. UNCHANGED <<mAttrMgr, verifying, sent>>
    BY <1>1 DEF MainLoops, incTimers, synchronise, loseSynchronisation, vars
  <2>2. SinkKept
    BY <2>1, <1>0 DEF SinkKept, HasCounter
  <2> QED BY <2>2, SinkKeptIsEnough
<1>2. CASE getTxFv
  <2> DEFINE attr == IncSessionCounter(TxUsed(mAttrMgr[Source]))
  <2>1. HasCounter(attr)
    <3>1. HasCounter(TxUsed(mAttrMgr[Source]))
      BY <1>0, ActivationKeepsCounter, EventKeepsCounter DEF TxUsed
    <3> QED BY <3>1, IncrementSetsCounter
  <2>2. /\ mAttrMgr' = [mAttrMgr EXCEPT ![Source] = attr]
        /\ UNCHANGED verifying
        /\ \E pdu : sent' = Append(sent, pdu)
    BY <1>2 DEF getTxFv
  <2> HIDE DEF attr
  <2>3. /\ DOMAIN mAttrMgr' = Ecu
        /\ mAttrMgr'[Sink] = mAttrMgr[Sink] /\ mAttrMgr'[Source] = attr
    BY <1>0, <2>2
  <2>4. PICK pdu, S : sent \in Seq(S) /\ sent' = Append(sent, pdu)
    BY <2>2 DEF CounterInv
  <2>5. /\ sent' \in Seq(S \cup {pdu})
        /\ DOMAIN sent \subseteq DOMAIN sent'
        /\ \A i \in DOMAIN sent : sent'[i] = sent[i]
    BY <2>4
  <2>7. Counter(Sink)' = Counter(Sink)
    BY <2>3 DEF Counter
  <2>8. StillMatches'
    BY <2>2, <2>5, <2>7 DEF CounterInv, StillMatches
  <2>9. \A ecu \in Ecu : "sessionCounterLastUsed" \in DOMAIN mAttrMgr'[ecu]
    BY <1>0, <2>1, <2>3 DEF HasCounter
  <2> QED
    BY <1>0, <2>2, <2>3, <2>5, <2>7, <2>8, <2>9 DEF CounterInv
<1>3. CASE SPduTxConfirmation
  <2> DEFINE attr == UpdateEvent(mAttrMgr[Source], "latestSignedTime",
                       GetEvent(mAttrMgr[Source], "lastRequestedForSigning"))
  <2>1. HasCounter(attr)
    BY <1>0, EventKeepsCounter
  <2>2. /\ mAttrMgr' = [mAttrMgr EXCEPT ![Source] = attr]
        /\ UNCHANGED <<verifying, sent>>
    BY <1>3 DEF SPduTxConfirmation
  <2> HIDE DEF attr
  <2>3. SinkKept
    BY <1>0, <2>1, <2>2 DEF SinkKept, HasCounter
  <2> QED BY <2>3, SinkKeptIsEnough
<1>4. ASSUME NEW v \in Verifier, verifying[v] # None, consumeCounter(v)
      PROVE  CounterInv'
  <2> DEFINE attr == IncSessionCounter(mAttrMgr[Sink])
             pdu == verifying[v].pdu
  <2>1. /\ mAttrMgr' = [mAttrMgr EXCEPT ![Sink] = attr]
        /\ UNCHANGED sent
        /\ \E at \in {"refused", "checked"} :
             verifying' = [verifying EXCEPT ![v].at = at]
        /\ verifying[v].at = "matched"
    BY <1>4 DEF consumeCounter, Goto
  <2>2. HasCounter(attr)
        /\ attr.sessionCounterLastUsed = incrementByteArray(Counter(Sink))
    BY <1>0, IncrementSetsCounter DEF Counter
  <2> HIDE DEF attr
  <2>3. /\ DOMAIN mAttrMgr' = Ecu
        /\ mAttrMgr'[Sink] = attr /\ mAttrMgr'[Source] = mAttrMgr[Source]
    BY <1>0, <2>1
  <2>5. /\ DOMAIN verifying' = Verifier
        /\ {"pdu", "at"} \subseteq DOMAIN verifying'[v]
        /\ verifying'[v].pdu = pdu /\ verifying'[v].at # "matched"
    BY <1>0, <1>4, <2>1 DEF CounterInv, StillMatches
  <2>6. pdu \in DOMAIN sent'
    BY <1>4, <2>1 DEF CounterInv, StillMatches
  <2>7. StillMatches'
    BY <1>4, <2>5, <2>6 DEF StillMatches
  <2>8. \A ecu \in Ecu : "sessionCounterLastUsed" \in DOMAIN mAttrMgr'[ecu]
    BY <1>0, <2>2, <2>3 DEF HasCounter
  <2> QED BY <2>1, <2>3, <2>5, <2>7, <2>8 DEF CounterInv
<1>5. ASSUME NEW v \in Verifier, NEW pdu \in DOMAIN sent, NEW attempt,
             getRxFv(v, pdu, attempt)
      PROVE  CounterInv'
  <2>1. UNCHANGED <<mAttrMgr, sent>>
    BY <1>5 DEF getRxFv
  <2>2. PICK at, freshness :
          /\ verifying' = [verifying EXCEPT ![v] =
               [pdu |-> pdu, attempt |-> attempt, at |-> at, freshness |-> freshness,
                first |-> FALSE]]
          /\ at = "matched" => CounterMatches(pdu)
    BY <1>5 DEF getRxFv, Begin
  <2>3. Counter(Sink)' = Counter(Sink)
    BY <2>1 DEF Counter
  <2>4. at = "matched" => sent[pdu].counter = incrementByteArray(Counter(Sink))
    BY <2>2 DEF CounterMatches, GetNextSessionCounter, Counter
  <2>5. /\ DOMAIN verifying' = Verifier
        /\ verifying'[v] = [pdu |-> pdu, attempt |-> attempt, at |-> at,
                            freshness |-> freshness, first |-> FALSE]
    BY <1>0, <2>2
  <2>6. StillMatches'
    BY <2>1, <2>3, <2>4, <2>5 DEF StillMatches
  <2> QED BY <2>1, <2>3, <2>5, <2>6 DEF CounterInv
<1>6. ASSUME NEW v \in Verifier, verifying[v] # None,
             activate(v) \/ buildCandidates(v) \/ refuseOldActivity(v)
               \/ readUnbuilt(v) \/ VerificationStatusCallout(v)
      PROVE  CounterInv'
  <2>0. {"pdu", "at"} \subseteq DOMAIN verifying[v] /\ verifying[v].pdu \in DOMAIN sent
    BY <1>6 DEF CounterInv, StillMatches
  <2>1. UNCHANGED sent
    BY <1>6 DEF activate, buildCandidates, refuseOldActivity, readUnbuilt,
                VerificationStatusCallout
  <2>2. UNCHANGED mAttrMgr
          \/ \E attr : /\ HasCounter(attr)
                       /\ attr.sessionCounterLastUsed = Counter(Sink)
                       /\ mAttrMgr' = [mAttrMgr EXCEPT ![Sink] = attr]
    BY <1>0, <1>6, SinkCounterKept
  <2>3. /\ DOMAIN mAttrMgr' = Ecu
        /\ \A ecu \in Ecu : HasCounter(mAttrMgr'[ecu])
        /\ mAttrMgr'[Sink].sessionCounterLastUsed = Counter(Sink)
    BY <1>0, <2>2 DEF Counter
  <2>4. /\ DOMAIN verifying' = Verifier
        /\ \/ verifying'[v] = verifying[v]
           \/ verifying'[v] = None
           \/ /\ {"pdu", "at"} \subseteq DOMAIN verifying'[v]
              /\ verifying'[v].pdu = verifying[v].pdu
              /\ verifying'[v].at # "matched"
    <3>1. CASE activate(v)
      BY <1>0, <1>6, <2>0, <3>1 DEF activate, offerCandidates
    <3>2. CASE buildCandidates(v)
      BY <1>0, <1>6, <2>0, <3>2 DEF buildCandidates, offerCandidates
    <3>3. CASE readUnbuilt(v)
      BY <1>0, <1>6, <2>0, <3>3 DEF readUnbuilt, offerCandidates
    <3>4. CASE refuseOldActivity(v)
      BY <1>0, <1>6, <2>0, <3>4 DEF refuseOldActivity, Goto
    <3>5. CASE VerificationStatusCallout(v)
      BY <1>0, <1>6, <2>0, <3>5 DEF VerificationStatusCallout, Retry
    <3> QED BY <1>6, <3>1, <3>2, <3>3, <3>4, <3>5
  <2>5. SinkKept
    BY <1>6, <2>0, <2>1, <2>3, <2>4 DEF SinkKept, HasCounter, Counter
  <2> QED BY <2>5, SinkKeptIsEnough
<1> QED
  BY <1>1, <1>2, <1>3, <1>4, <1>5, <1>6
  DEF Next, Sign, Verify, VerifyStep, CounterInv, StillMatches

-----------------------------------------------------------------------------
(* Types, for any number of verifiers.                                     *)

Attribute ==
  [ valueIsActive : BOOLEAN,
    firstUsed : Nat,
    lastRequestedForVerification : Nat,
    latestVerifiedTime : Nat,
    lastRequestedForSigning : Nat,
    latestSignedTime : Nat,
    sessionCounterLastUsed : SessionCounter ]

(* Upon first use nothing is yet recorded that is later than now. *)
AttributeInv ==
  /\ mAttrMgr \in [Ecu -> Attribute]
  /\ \A ecu \in Ecu : mAttrMgr[ecu].firstUsed <= mTimeSinceInit[ecu]

CandidateInv ==
  mFvRxCandidates # None =>
    mFvRxCandidates \in Seq(Int) /\ Len(mFvRxCandidates) \in {1, 3, 4}

ClockInv ==
  /\ scenario \in Scenario
  /\ authenticFv \in Nat
  /\ mTimeSinceInit \in [Ecu -> 0..scenario.maxTime]
  /\ mIsFvValid \in [Ecu -> BOOLEAN]
  /\ mFV \in [Ecu -> Nat]

PduInv ==
  /\ sent \in Seq([fv : Nat, counter : SessionCounter])
  /\ accepted \subseteq DOMAIN sent

TypeInv ==
  /\ ClockInv
  /\ AttributeInv
  /\ CandidateInv
  /\ verifying \in [Verifier -> Session \cup {None}]
  /\ PduInv

LEMMA TypeInvTypes == TypeInv => TypeOK
  BY DEF TypeInv, ClockInv, AttributeInv, Attribute, CandidateInv, PduInv, TypeOK

LEMMA IncrementType ==
  ASSUME NEW counter \in SessionCounter
  PROVE  incrementByteArray(counter) \in SessionCounter
<1>1. \A n \in Byte : (n + 1) % ByteModulus \in Byte
  BY WordAssumption DEF Byte
<1> QED BY <1>1 DEF SessionCounter, incrementByteArray

LEMMA FirstCounterType == InitAttributes.sessionCounterLastUsed \in SessionCounter
<1>1. 0 \in Byte
  BY WordAssumption DEF Byte
<1> QED BY <1>1 DEF InitAttributes, SessionCounter

LEMMA InitTypeInv == Init => TypeInv
<1> SUFFICES ASSUME Init PROVE TypeInv  OBVIOUS
<1>1. scenario \in Scenario /\ scenario.maxTime \in Nat
  BY FreshnessAssumption DEF Init
<1>2. ClockInv
  BY <1>1, FreshnessAssumption DEF Init, ClockInv
<1>3. InitAttributes \in Attribute /\ InitAttributes.firstUsed = 0
  BY FirstCounterType DEF InitAttributes, Attribute
<1>4. AttributeInv
  BY <1>2, <1>3 DEF Init, AttributeInv, ClockInv
<1>5. CandidateInv /\ verifying \in [Verifier -> Session \cup {None}] /\ PduInv
  BY DEF Init, CandidateInv, PduInv
<1> QED BY <1>2, <1>4, <1>5 DEF TypeInv

-----------------------------------------------------------------------------
(* What the operations on the attributes do to their types.                *)

LEMMA ActivationType ==
  ASSUME NEW attr \in Attribute, NEW time \in Nat
  PROVE  /\ SetActive(attr, time) \in Attribute
         /\ SetActive(attr, time).firstUsed \in {attr.firstUsed, time}
  BY DEF SetActive, Attribute

LEMMA EventType ==
  ASSUME NEW attr \in Attribute, NEW value \in Nat,
         NEW event \in {"lastRequestedForVerification", "latestVerifiedTime",
                        "lastRequestedForSigning", "latestSignedTime"}
  PROVE  /\ UpdateEvent(attr, event, value) \in Attribute
         /\ UpdateEvent(attr, event, value).firstUsed = attr.firstUsed
         /\ GetEvent(attr, event) \in Nat
  BY DEF UpdateEvent, GetEvent, Attribute

LEMMA CounterType ==
  ASSUME NEW attr \in Attribute
  PROVE  /\ IncSessionCounter(attr) \in Attribute
         /\ IncSessionCounter(attr).firstUsed = attr.firstUsed
<1>1. incrementByteArray(attr.sessionCounterLastUsed) \in SessionCounter
  BY IncrementType DEF Attribute
<1> QED BY <1>1 DEF IncSessionCounter, Attribute

(* An operation on the attributes of one ECU while the clocks stand still. *)
LEMMA AttributeStep ==
  ASSUME TypeInv, UNCHANGED fvmVars,
         NEW ecu \in Ecu, NEW attr \in Attribute,
         attr.firstUsed \in {mAttrMgr[ecu].firstUsed, mTimeSinceInit[ecu]},
         mAttrMgr' = [mAttrMgr EXCEPT ![ecu] = attr]
  PROVE  AttributeInv'
<1>1. UNCHANGED mTimeSinceInit
  BY DEF fvmVars
<1>2. mAttrMgr' \in [Ecu -> Attribute]
  BY DEF TypeInv, AttributeInv
<1>3. mTimeSinceInit[ecu] \in Nat
  BY FreshnessAssumption DEF TypeInv, ClockInv
<1>4. attr.firstUsed <= mTimeSinceInit[ecu]
  BY <1>3 DEF TypeInv, AttributeInv
<1> QED BY <1>1, <1>2, <1>4 DEF TypeInv, AttributeInv

LEMMA MainLoopsType == TypeInv /\ MainLoops => TypeInv'
<1> SUFFICES ASSUME TypeInv, MainLoops PROVE TypeInv'  OBVIOUS
<1> USE FreshnessAssumption
<1>1. CASE incTimers
  <2>1. UNCHANGED <<scenario, mAttrMgr, mFvRxCandidates, verifying, sent, accepted>>
    BY <1>1 DEF incTimers
  <2>2. ClockInv'
    BY <1>1 DEF incTimers, TypeInv, ClockInv
  <2>3. \A ecu \in Ecu : mTimeSinceInit[ecu] <= mTimeSinceInit'[ecu]
    BY <1>1 DEF incTimers, TypeInv, ClockInv
  <2>4. AttributeInv'
    BY <2>1, <2>2, <2>3 DEF TypeInv, ClockInv, AttributeInv, Attribute
  <2> QED
    BY <2>1, <2>2, <2>4 DEF TypeInv, CandidateInv, PduInv, Session
<1>2. ASSUME NEW ecu \in Ecu, synchronise(ecu) \/ loseSynchronisation(ecu)
      PROVE  TypeInv'
  <2>1. UNCHANGED <<scenario, mTimeSinceInit, mAttrMgr, mFvRxCandidates, verifying,
                    sent, accepted>>
    BY <1>2 DEF synchronise, loseSynchronisation
  <2>2. ClockInv'
    BY <1>2 DEF synchronise, loseSynchronisation, TypeInv, ClockInv
  <2> QED
    BY <2>1, <2>2 DEF TypeInv, AttributeInv, CandidateInv, PduInv, Session
<1> QED BY <1>1, <1>2 DEF MainLoops

LEMMA TxUsedType ==
  ASSUME TypeInv
  PROVE  LET attr == TxUsed(mAttrMgr[Source]) IN
         /\ attr \in Attribute
         /\ attr.firstUsed \in {mAttrMgr[Source].firstUsed, mTimeSinceInit[Source]}
<1>1. /\ mAttrMgr[Source] \in Attribute
      /\ mTimeSinceInit[Source] \in Nat /\ mFV[Source] \in Nat
  BY FreshnessAssumption DEF TypeInv, ClockInv, AttributeInv, Ecu
<1> QED BY <1>1, ActivationType, EventType DEF TxUsed

LEMMA SignType == TypeInv /\ Sign => TypeInv'
<1> SUFFICES ASSUME TypeInv, Sign PROVE TypeInv'  OBVIOUS
<1>1. CASE getTxFv
  <2> DEFINE attr == IncSessionCounter(TxUsed(mAttrMgr[Source]))
             pdu == [fv |-> TxFv, counter |-> attr.sessionCounterLastUsed]
  <2>1. /\ attr \in Attribute
        /\ attr.firstUsed \in {mAttrMgr[Source].firstUsed, mTimeSinceInit[Source]}
    BY TxUsedType, CounterType
  <2>2. TxFv \in Nat
    BY FreshnessAssumption DEF TxFv, TypeInv, ClockInv, Ecu
  <2>3. pdu \in [fv : Nat, counter : SessionCounter]
    BY <2>1, <2>2 DEF Attribute
  <2>4. /\ mAttrMgr' = [mAttrMgr EXCEPT ![Source] = attr]
        /\ sent' = Append(sent, pdu)
        /\ UNCHANGED <<fvmVars, mFvRxCandidates, verifying, accepted>>
    BY <1>1 DEF getTxFv
  <2> HIDE DEF attr, pdu
  <2>5. AttributeInv'
    BY <2>1, <2>4, AttributeStep DEF Ecu
  <2>6. PduInv' /\ DOMAIN sent \subseteq DOMAIN sent'
    BY <2>3, <2>4 DEF TypeInv, PduInv
  <2>7. Session \subseteq Session'
    BY <2>4, <2>6 DEF Session, fvmVars
  <2>8. ClockInv' /\ CandidateInv'
    BY <2>4 DEF TypeInv, ClockInv, CandidateInv, fvmVars
  <2> QED BY <2>4, <2>5, <2>6, <2>7, <2>8 DEF TypeInv
<1>2. CASE SPduTxConfirmation
  <2> DEFINE attr == UpdateEvent(mAttrMgr[Source], "latestSignedTime",
                       GetEvent(mAttrMgr[Source], "lastRequestedForSigning"))
  <2>1. mAttrMgr[Source] \in Attribute
    BY DEF TypeInv, AttributeInv, Ecu
  <2>2. attr \in Attribute /\ attr.firstUsed = mAttrMgr[Source].firstUsed
    BY <2>1, EventType
  <2>3. /\ mAttrMgr' = [mAttrMgr EXCEPT ![Source] = attr]
        /\ UNCHANGED <<fvmVars, mFvRxCandidates, verifying, sent, accepted>>
    BY <1>2 DEF SPduTxConfirmation
  <2> HIDE DEF attr
  <2>4. AttributeInv'
    BY <2>2, <2>3, AttributeStep DEF Ecu
  <2> QED
    BY <2>3, <2>4 DEF TypeInv, ClockInv, CandidateInv, PduInv, Session, fvmVars
<1> QED BY <1>1, <1>2 DEF Sign

-----------------------------------------------------------------------------
(* The steps of a verification.  None of them moves a clock or sends a PDU, *)
(* and each leaves the verifications of the other threads alone.            *)

LEMMA SessionMoves ==
  ASSUME TypeInv, UNCHANGED <<fvmVars, sent, accepted>>, AttributeInv', CandidateInv',
         NEW v \in Verifier, NEW session \in Session \cup {None},
         verifying' = [verifying EXCEPT ![v] = session]
  PROVE  TypeInv'
<1>1. verifying' \in [Verifier -> Session \cup {None}]
  BY DEF TypeInv
<1>2. Session' = Session
  BY DEF Session, fvmVars
<1> QED BY <1>1, <1>2 DEF TypeInv, ClockInv, PduInv, fvmVars

LEMMA SessionAt ==
  ASSUME TypeInv, NEW v \in Verifier, verifying[v] # None,
         NEW at \in VerifyPoint, Goto(v, at)
  PROVE  \E session \in Session : verifying' = [verifying EXCEPT ![v] = session]
<1>1. verifying[v] \in Session
  BY DEF TypeInv
<1>2. [verifying[v] EXCEPT !.at = at] \in Session
  BY <1>1 DEF Session
<1>3. verifying' = [verifying EXCEPT ![v] = [verifying[v] EXCEPT !.at = at]]
  BY DEF Goto
<1> QED BY <1>2, <1>3

LEMMA OfferType ==
  ASSUME TypeInv, UNCHANGED <<fvmVars, sent, accepted>>,
         NEW v \in Verifier, verifying[v] # None,
         NEW candidates \in Seq(Int), Len(candidates) \in {1, 3, 4},
         NEW attr \in Attribute,
         attr.firstUsed \in {mAttrMgr[Sink].firstUsed, mTimeSinceInit[Sink]},
         offerCandidates(v, candidates, attr)
  PROVE  TypeInv'
<1> DEFINE offered == UpdateEvent(attr, "lastRequestedForVerification", mFV[Sink])
           session == [verifying[v] EXCEPT !.at = "verify", !.freshness = candidates[1]]
<1>1. mFV[Sink] \in Nat
  BY DEF TypeInv, ClockInv, Ecu
<1>2. offered \in Attribute /\ offered.firstUsed = attr.firstUsed
  BY <1>1, EventType
<1>3. mAttrMgr' = [mAttrMgr EXCEPT ![Sink] = offered]
  BY DEF offerCandidates
<1>4. AttributeInv'
  <2> HIDE DEF offered
  <2> QED BY <1>2, <1>3, AttributeStep DEF Ecu
<1>5. CandidateInv'
  BY DEF offerCandidates, CandidateInv
<1>6. session \in Session
  <2>1. verifying[v] \in Session /\ candidates[1] \in Int
    BY DEF TypeInv
  <2> QED BY <2>1 DEF Session, VerifyPoint
<1>7. verifying' = [verifying EXCEPT ![v] = session]
  BY DEF offerCandidates, TypeInv
<1> HIDE DEF session
<1> QED BY <1>4, <1>5, <1>6, <1>7, SessionMoves

LEMMA GetRxFvType ==
  ASSUME TypeInv, NEW v \in Verifier, NEW pdu \in DOMAIN sent,
         NEW attempt \in 0..(scenario.maxAttempts - 1), getRxFv(v, pdu, attempt)
  PROVE  TypeInv'
<1>1. UNCHANGED <<fvmVars, mAttrMgr, mFvRxCandidates, dead, sent, accepted>>
  BY DEF getRxFv
<1>2. PICK at \in VerifyPoint, freshness \in Int \cup {None} :
        Begin(v, pdu, attempt, at, freshness)
  <2>1. CASE mFvRxCandidates # None /\ ~TooManyAttempts(attempt)
    <3>1. Begin(v, pdu, attempt, "verify", mFvRxCandidates[attempt + 1])
      BY <2>1 DEF getRxFv
    <3>2. attempt \in Nat /\ mFvRxCandidates \in Seq(Int) /\ Len(mFvRxCandidates) \in Nat
      BY <2>1 DEF TypeInv, CandidateInv
    <3>3. attempt + 1 \in 1..Len(mFvRxCandidates)
      BY <2>1, <3>2 DEF TooManyAttempts
    <3>4. mFvRxCandidates[attempt + 1] \in Int
      BY <3>2, <3>3
    <3> QED BY <3>1, <3>4 DEF VerifyPoint
  <2>2. CASE mFvRxCandidates = None \/ TooManyAttempts(attempt)
    BY <2>2 DEF getRxFv, VerifyPoint
  <2> QED BY <2>1, <2>2
<1> DEFINE session == [pdu |-> pdu, attempt |-> attempt, at |-> at,
                       freshness |-> freshness, first |-> FALSE]
<1>3. session \in Session /\ verifying' = [verifying EXCEPT ![v] = session]
  BY <1>2 DEF Session, Begin
<1> HIDE DEF session
<1>4. AttributeInv' /\ CandidateInv'
  BY <1>1 DEF TypeInv, AttributeInv, CandidateInv, fvmVars
<1> QED BY <1>1, <1>3, <1>4, SessionMoves

LEMMA ConsumeCounterType ==
  ASSUME TypeInv, NEW v \in Verifier, verifying[v] # None, consumeCounter(v)
  PROVE  TypeInv'
<1> DEFINE attr == IncSessionCounter(mAttrMgr[Sink])
<1>1. /\ UNCHANGED <<fvmVars, mFvRxCandidates, sent, accepted>>
      /\ mAttrMgr' = [mAttrMgr EXCEPT ![Sink] = attr]
      /\ \E at \in VerifyPoint : Goto(v, at)
  BY DEF consumeCounter, VerifyPoint
<1>2. attr \in Attribute /\ attr.firstUsed = mAttrMgr[Sink].firstUsed
  BY CounterType DEF TypeInv, AttributeInv, Ecu
<1> HIDE DEF attr
<1>3. AttributeInv'
  BY <1>1, <1>2, AttributeStep DEF Ecu
<1>4. CandidateInv'
  BY <1>1 DEF TypeInv, CandidateInv
<1> QED BY <1>1, <1>3, <1>4, SessionAt, SessionMoves

LEMMA ActivateType ==
  ASSUME TypeInv, NEW v \in Verifier, verifying[v] # None, activate(v)
  PROVE  TypeInv'
<1> DEFINE attr == SetActive(mAttrMgr[Sink], mTimeSinceInit[Sink])
<1>1. /\ attr \in Attribute
      /\ attr.firstUsed \in {mAttrMgr[Sink].firstUsed, mTimeSinceInit[Sink]}
  <2>1. mAttrMgr[Sink] \in Attribute /\ mTimeSinceInit[Sink] \in Nat
    BY FreshnessAssumption DEF TypeInv, ClockInv, AttributeInv, Ecu
  <2> QED BY <2>1, ActivationType
<1>2. UNCHANGED <<fvmVars, sent, accepted>>
  BY DEF activate
<1>3. CASE ~mIsFvValid[Sink] /\ WithinValidTimeout(Sink)
  <2>1. offerCandidates(v, <<UpstartTime>>, attr)
    BY <1>3 DEF activate
  <2>2. <<UpstartTime>> \in Seq(Int) /\ Len(<<UpstartTime>>) = 1
    BY FreshnessAssumption
  <2> HIDE DEF attr
  <2> QED BY <1>1, <1>2, <2>1, <2>2, OfferType
<1>4. CASE ~(~mIsFvValid[Sink] /\ WithinValidTimeout(Sink))
  <2> DEFINE session == [verifying[v] EXCEPT !.at = "noDefault",
                           !.first = ~mAttrMgr[Sink].valueIsActive]
  <2>1. /\ mAttrMgr' = [mAttrMgr EXCEPT ![Sink] = attr]
        /\ verifying' = [verifying EXCEPT ![v] = session]
        /\ UNCHANGED mFvRxCandidates
    BY <1>4 DEF activate
  <2>2. session \in Session
    <3>1. verifying[v] \in Session
      BY DEF TypeInv
    <3> QED BY <3>1 DEF Session, VerifyPoint
  <2> HIDE DEF attr, session
  <2>3. AttributeInv'
    BY <1>1, <1>2, <2>1, AttributeStep DEF Ecu
  <2>4. CandidateInv'
    BY <2>1 DEF TypeInv, CandidateInv
  <2> QED BY <1>2, <2>1, <2>2, <2>3, <2>4, SessionMoves
<1> QED BY <1>3, <1>4

LEMMA AroundType ==
  ASSUME NEW fv \in Nat
  PROVE  /\ Around(fv) \in Seq(Int) /\ Len(Around(fv)) = 3
         /\ <<UpstartTime>> \o Around(fv) \in Seq(Int)
         /\ Len(<<UpstartTime>> \o Around(fv)) = 4
  BY FreshnessAssumption DEF Around

LEMMA BuildCandidatesType ==
  ASSUME TypeInv, NEW v \in Verifier, verifying[v] # None, buildCandidates(v)
  PROVE  TypeInv'
<1>1. UNCHANGED <<fvmVars, sent, accepted>>
  BY DEF buildCandidates
<1>2. mAttrMgr[Sink] \in Attribute /\ mFV[Sink] \in Nat
  BY DEF TypeInv, ClockInv, AttributeInv, Ecu
<1>3. PICK candidates \in {Around(mFV[Sink]), <<UpstartTime>> \o Around(mFV[Sink])} :
        offerCandidates(v, candidates, mAttrMgr[Sink])
  BY DEF buildCandidates
<1>4. candidates \in Seq(Int) /\ Len(candidates) \in {1, 3, 4}
  BY <1>2, <1>3, AroundType
<1> QED BY <1>1, <1>2, <1>3, <1>4, OfferType

LEMMA ReadUnbuiltType ==
  ASSUME TypeInv, NEW v \in Verifier, verifying[v] # None, readUnbuilt(v)
  PROVE  TypeInv'
<1>1. UNCHANGED <<fvmVars, sent, accepted>>
  BY DEF readUnbuilt
<1>2. CASE mFvRxCandidates = None
  BY <1>1, <1>2
  DEF readUnbuilt, TypeInv, ClockInv, AttributeInv, CandidateInv, PduInv, Session, fvmVars
<1>3. CASE mFvRxCandidates # None
  <2>1. offerCandidates(v, mFvRxCandidates, mAttrMgr[Sink])
    BY <1>3 DEF readUnbuilt
  <2>2. mAttrMgr[Sink] \in Attribute
    BY DEF TypeInv, AttributeInv, Ecu
  <2> QED BY <1>1, <1>3, <2>1, <2>2, OfferType DEF TypeInv, CandidateInv
<1> QED BY <1>2, <1>3

LEMMA RefuseOldActivityType ==
  ASSUME TypeInv, NEW v \in Verifier, verifying[v] # None, refuseOldActivity(v)
  PROVE  TypeInv'
<1>1. /\ UNCHANGED <<fvmVars, mAttrMgr, mFvRxCandidates, sent, accepted>>
      /\ Goto(v, "refused")
  BY DEF refuseOldActivity
<1>2. AttributeInv' /\ CandidateInv'
  BY <1>1 DEF TypeInv, AttributeInv, CandidateInv, fvmVars
<1>3. "refused" \in VerifyPoint
  BY DEF VerifyPoint
<1> QED BY <1>1, <1>2, <1>3, SessionAt, SessionMoves

LEMMA CalloutType ==
  ASSUME TypeInv, NEW v \in Verifier, verifying[v] # None, VerificationStatusCallout(v)
  PROVE  TypeInv'
<1> DEFINE attr == UpdateEvent(mAttrMgr[Sink], "latestVerifiedTime",
                     GetEvent(mAttrMgr[Sink], "lastRequestedForVerification"))
           session == IF ~Verified(v) /\ RetryLeft(v)
                        THEN Retry(verifying[v]) ELSE None
<1>1. UNCHANGED <<fvmVars, sent>> /\ UNCHANGED scenario
  BY DEF VerificationStatusCallout, fvmVars
<1>2. attr \in Attribute /\ attr.firstUsed = mAttrMgr[Sink].firstUsed
  <2>1. mAttrMgr[Sink] \in Attribute
    BY DEF TypeInv, AttributeInv, Ecu
  <2> QED BY <2>1, EventType
<1>3. AttributeInv' /\ CandidateInv'
  <2>1. CASE mAttrMgr' = [mAttrMgr EXCEPT ![Sink] = attr] /\ mFvRxCandidates' = None
    <3> HIDE DEF attr
    <3> QED BY <1>1, <1>2, <2>1, AttributeStep DEF Ecu, CandidateInv
  <2>2. CASE UNCHANGED <<mAttrMgr, mFvRxCandidates>>
    BY <1>1, <2>2 DEF TypeInv, AttributeInv, CandidateInv, fvmVars
  <2> QED
    BY <2>1, <2>2
    DEF VerificationStatusCallout, updateVerificationStatusAuthBroadcast
<1>4. session \in Session \cup {None}
  <2>1. verifying[v] \in Session /\ scenario.maxAttempts \in Nat
    BY FreshnessAssumption DEF TypeInv, ClockInv
  <2>2. CASE ~Verified(v) /\ RetryLeft(v)
    <3>1. verifying[v].attempt + 1 \in 0..(scenario.maxAttempts - 1)
      BY <2>1, <2>2 DEF RetryLeft, Session
    <3>2. Retry(verifying[v]) \in Session
      BY <2>1, <3>1 DEF Retry, Session, VerifyPoint
    <3> QED BY <2>2, <3>2
  <2>3. CASE ~(~Verified(v) /\ RetryLeft(v))
    BY <2>3
  <2> QED BY <2>2, <2>3
<1>5. verifying' = [verifying EXCEPT ![v] = session]
  BY DEF VerificationStatusCallout
<1>6. accepted' \subseteq DOMAIN sent
  <2>1. verifying[v] \in Session
    BY DEF TypeInv
  <2> QED BY <2>1 DEF VerificationStatusCallout, TypeInv, PduInv, Session
<1> HIDE DEF session, attr
<1>7. verifying' \in [Verifier -> Session \cup {None}]
  BY <1>4, <1>5 DEF TypeInv
<1>8. Session' = Session
  BY <1>1 DEF Session
<1> QED
  BY <1>1, <1>3, <1>6, <1>7, <1>8 DEF TypeInv, ClockInv, PduInv, fvmVars

LEMMA VerifyType ==
  ASSUME TypeInv, NEW v \in Verifier, Verify(v)
  PROVE  TypeInv'
<1>1. CASE verifying[v] = None
  <2>1. 0 \in 0..(scenario.maxAttempts - 1)
    BY FreshnessAssumption DEF TypeInv, ClockInv
  <2> QED BY <1>1, <2>1, GetRxFvType DEF Verify
<1>2. CASE verifying[v] # None
  <2>1. VerifyStep(v)
    BY <1>2 DEF Verify
  <2>2. verifying[v] \in Session
    BY <1>2 DEF TypeInv
  <2>3. CASE getRxFv(v, verifying[v].pdu, verifying[v].attempt)
    <3>1. /\ verifying[v].pdu \in DOMAIN sent
          /\ verifying[v].attempt \in 0..(scenario.maxAttempts - 1)
      BY <2>2 DEF Session
    <3> QED BY <2>3, <3>1, GetRxFvType
  <2> QED
    BY <1>2, <2>1, <2>3, ConsumeCounterType, ActivateType, BuildCandidatesType,
       RefuseOldActivityType, ReadUnbuiltType, CalloutType
    DEF VerifyStep
<1> QED BY <1>1, <1>2

LEMMA StepTypeInv == TypeInv /\ [Next]_vars => TypeInv'
<1> SUFFICES ASSUME TypeInv, [Next]_vars PROVE TypeInv'  OBVIOUS
<1>1. CASE UNCHANGED vars
  BY <1>1
  DEF vars, fvmVars, TypeInv, ClockInv, AttributeInv, CandidateInv, PduInv, Session
<1> QED
  BY <1>1, MainLoopsType, SignType, VerifyType DEF Next

(***************************************************************************)
(* Whatever SecOC and the medium do, with any number of verifying threads  *)
(* and any counter: all variables keep their types, an ID is never first   *)
(* used later than now, and there are one, three or four candidates.       *)
(***************************************************************************)
THEOREM FreshnessTypes == Spec => []TypeOK
<1> QED BY InitTypeInv, StepTypeInv, TypeInvTypes, PTL DEF Spec

-----------------------------------------------------------------------------
(* What SecOC has been offered for a PDU, with one verifier.  Candidates   *)
(* stay until a verification has succeeded, so those for a PDU are either  *)
(* there from the beginning of its verification or built during its first  *)
(* attempt.                                                                *)

Misfit(i, pdu) == mFvRxCandidates[i] # sent[pdu].fv

OfferedAt(session) ==
  /\ session.at \in {"matched", "checked", "noDefault"} =>
       mFvRxCandidates = None /\ session.attempt = 0
  /\ session.at = "verify" =>
       /\ session.attempt + 1 \in DOMAIN mFvRxCandidates
       /\ session.freshness = mFvRxCandidates[session.attempt + 1]
  /\ ~scenario.alwaysSuccess /\ mFvRxCandidates # None =>
       /\ \A i \in DOMAIN mFvRxCandidates : i <= session.attempt => Misfit(i, session.pdu)
       /\ session.at = "refused" =>
            \A i \in DOMAIN mFvRxCandidates : Misfit(i, session.pdu)

OfferInv == \A v \in Verifier : verifying[v] # None => OfferedAt(verifying[v])

(* A step that keeps the candidates and what the session says of them. *)
LEMMA OfferKept ==
  ASSUME TypeInv, OfferInv, UNCHANGED <<scenario, mFvRxCandidates, verifying>>,
         \A i \in DOMAIN sent : i \in DOMAIN sent' /\ sent'[i] = sent[i]
  PROVE  OfferInv'
<1> SUFFICES ASSUME NEW v \in Verifier, verifying[v] # None
             PROVE  OfferedAt(verifying[v])'
  BY DEF OfferInv
<1>1. OfferedAt(verifying[v]) /\ verifying[v].pdu \in DOMAIN sent
  BY DEF OfferInv, TypeInv, Session
<1> QED BY <1>1 DEF OfferedAt, Misfit

(* The only verifier's next session. *)
LEMMA OfferOne ==
  ASSUME TypeInv, NEW v \in Verifier, Verifier = {v},
         NEW session, verifying' = [verifying EXCEPT ![v] = session],
         session # None => OfferedAt(session)'
  PROVE  OfferInv'
<1>1. verifying'[v] = session
  BY DEF TypeInv
<1> QED BY <1>1 DEF OfferInv

LEMMA OfferGetRxFv ==
  ASSUME TypeInv, OfferInv, NEW v \in Verifier, Verifier = {v}, NEW pdu \in DOMAIN sent,
         NEW attempt \in Nat, getRxFv(v, pdu, attempt),
         ~scenario.alwaysSuccess /\ mFvRxCandidates # None =>
           \A i \in DOMAIN mFvRxCandidates : i <= attempt => Misfit(i, pdu)
  PROVE  OfferInv'
<1> DEFINE session(at, freshness) ==
      [pdu |-> pdu, attempt |-> attempt, at |-> at, freshness |-> freshness,
       first |-> FALSE]
<1>1. UNCHANGED <<scenario, mFvRxCandidates, sent>>
  BY DEF getRxFv, fvmVars
<1>2. CASE mFvRxCandidates # None /\ TooManyAttempts(attempt)
  <2>1. verifying' = [verifying EXCEPT ![v] = session("refused", None)]
    BY <1>2 DEF getRxFv, Begin
  <2>2. \A i \in DOMAIN mFvRxCandidates : i \in Nat /\ i <= attempt
    BY <1>2 DEF TooManyAttempts, TypeInv, CandidateInv
  <2>3. OfferedAt(session("refused", None))'
    BY <1>1, <1>2, <2>2 DEF OfferedAt, Misfit
  <2> HIDE DEF session
  <2> QED BY <2>1, <2>3, OfferOne
<1>3. CASE mFvRxCandidates # None /\ ~TooManyAttempts(attempt)
  <2>1. PICK freshness : freshness = mFvRxCandidates[attempt + 1]
    OBVIOUS
  <2> DEFINE next == session("verify", freshness)
  <2>0. verifying' = [verifying EXCEPT ![v] = next]
    BY <1>3, <2>1 DEF getRxFv, Begin
  <2>2. attempt + 1 \in DOMAIN mFvRxCandidates
    BY <1>3 DEF TooManyAttempts, TypeInv, CandidateInv
  <2>3. OfferedAt(next)'
    BY <1>1, <1>3, <2>1, <2>2 DEF OfferedAt, Misfit
  <2> HIDE DEF next
  <2> QED BY <2>0, <2>3, OfferOne
<1>4. CASE mFvRxCandidates = None
  <2>1. \/ verifying' = [verifying EXCEPT ![v] = session("matched", None)]
             /\ attempt = 0
        \/ verifying' = [verifying EXCEPT ![v] = session("refused", None)]
    BY <1>4 DEF getRxFv, Begin
  <2>2. /\ attempt = 0 => OfferedAt(session("matched", None))'
        /\ OfferedAt(session("refused", None))'
    BY <1>1, <1>4 DEF OfferedAt
  <2> HIDE DEF session
  <2> QED BY <2>1, <2>2, OfferOne
<1> QED BY <1>2, <1>3, <1>4

LEMMA OfferCandidates ==
  ASSUME TypeInv, OfferInv, NEW v \in Verifier, Verifier = {v},
         verifying[v] # None, verifying[v].at \in {"checked", "noDefault"},
         UNCHANGED <<scenario, sent>>,
         NEW candidates \in Seq(Int), Len(candidates) \in {1, 3, 4}, NEW attr,
         offerCandidates(v, candidates, attr)
  PROVE  OfferInv'
<1>1. verifying[v] \in Session /\ verifying[v].attempt = 0
  BY DEF TypeInv, OfferInv, OfferedAt
<1>2. PICK session :
        session = [verifying[v] EXCEPT !.at = "verify", !.freshness = candidates[1]]
  OBVIOUS
<1>3. mFvRxCandidates' = candidates /\ verifying' = [verifying EXCEPT ![v] = session]
  BY <1>2 DEF offerCandidates, TypeInv
<1>4. /\ session.at = "verify" /\ session.attempt = 0
      /\ session.freshness = candidates[1]
  BY <1>1, <1>2 DEF Session
<1>5. 1 \in DOMAIN candidates /\ \A i \in DOMAIN candidates : ~(i <= 0)
  OBVIOUS
<1>6. OfferedAt(session)'
  BY <1>3, <1>4, <1>5 DEF OfferedAt, Misfit
<1> QED BY <1>3, <1>6, OfferOne

(* The verification goes on, or is refused, without candidates. *)
LEMMA OfferNone ==
  ASSUME TypeInv, OfferInv, NEW v \in Verifier, Verifier = {v},
         verifying[v] # None, mFvRxCandidates = None, UNCHANGED mFvRxCandidates,
         NEW session, verifying' = [verifying EXCEPT ![v] = session],
         session.at \in {"refused", "checked", "noDefault"},
         session.attempt = 0
  PROVE  OfferInv'
<1>1. OfferedAt(session)'
  BY DEF OfferedAt
<1> QED BY <1>1, OfferOne

LEMMA OfferBeforeCandidates ==
  ASSUME TypeInv, OfferInv, NEW v \in Verifier, Verifier = {v}, verifying[v] # None,
         consumeCounter(v) \/ activate(v) \/ buildCandidates(v)
           \/ refuseOldActivity(v) \/ readUnbuilt(v)
  PROVE  OfferInv' /\ mFvRxCandidates = None
<1>1. /\ verifying[v] \in Session
      /\ mFvRxCandidates = None /\ verifying[v].attempt = 0
      /\ mFV[Sink] \in Nat
  BY DEF consumeCounter, activate, buildCandidates, refuseOldActivity, readUnbuilt,
         TypeInv, ClockInv, Ecu, OfferInv, OfferedAt
<1>2. UNCHANGED <<scenario, sent>>
  BY DEF consumeCounter, activate, buildCandidates, refuseOldActivity, readUnbuilt,
         fvmVars
<1>3. CASE consumeCounter(v) \/ refuseOldActivity(v)
  <2>1. PICK at \in {"refused", "checked"} : Goto(v, at) /\ UNCHANGED mFvRxCandidates
    BY <1>3 DEF consumeCounter, refuseOldActivity
  <2>2. PICK session : session = [verifying[v] EXCEPT !.at = at]
    OBVIOUS
  <2>3. verifying' = [verifying EXCEPT ![v] = session]
    BY <2>1, <2>2 DEF Goto
  <2>4. session.at = at /\ session.attempt = 0
    BY <1>1, <2>2 DEF Session
  <2> QED BY <1>1, <2>1, <2>3, <2>4, OfferNone
<1>4. CASE activate(v)
  <2>1. CASE ~mIsFvValid[Sink] /\ WithinValidTimeout(Sink)
    <3>1. PICK attr : offerCandidates(v, <<UpstartTime>>, attr)
      BY <1>4, <2>1 DEF activate
    <3>2. <<UpstartTime>> \in Seq(Int) /\ Len(<<UpstartTime>>) = 1
      BY FreshnessAssumption
    <3>3. verifying[v].at = "checked"
      BY <1>4 DEF activate
    <3> QED BY <1>1, <1>2, <3>1, <3>2, <3>3, OfferCandidates
  <2>2. CASE ~(~mIsFvValid[Sink] /\ WithinValidTimeout(Sink))
    <3>1. PICK session :
            session = [verifying[v] EXCEPT !.at = "noDefault",
                                           !.first = ~mAttrMgr[Sink].valueIsActive]
      OBVIOUS
    <3>2. /\ verifying' = [verifying EXCEPT ![v] = session]
          /\ UNCHANGED mFvRxCandidates
      BY <1>4, <2>2, <3>1 DEF activate
    <3>3. session.at = "noDefault" /\ session.attempt = 0
      BY <1>1, <3>1 DEF Session
    <3> QED BY <1>1, <3>2, <3>3, OfferNone
  <2> QED BY <2>1, <2>2
<1>5. CASE buildCandidates(v)
  <2>1. PICK candidates \in {Around(mFV[Sink]), <<UpstartTime>> \o Around(mFV[Sink])} :
          offerCandidates(v, candidates, mAttrMgr[Sink])
    BY <1>5 DEF buildCandidates
  <2>2. candidates \in Seq(Int) /\ Len(candidates) \in {1, 3, 4}
    BY <1>1, <2>1, AroundType
  <2>3. verifying[v].at = "noDefault"
    BY <1>5 DEF buildCandidates
  <2> QED BY <1>1, <1>2, <2>1, <2>2, <2>3, OfferCandidates
<1>6. CASE readUnbuilt(v)
  <2>1. UNCHANGED <<scenario, mFvRxCandidates, verifying, sent>>
    BY <1>1, <1>6 DEF readUnbuilt, fvmVars
  <2> QED BY <1>1, <2>1, OfferKept
<1> QED BY <1>1, <1>3, <1>4, <1>5, <1>6

LEMMA OfferCallout ==
  ASSUME TypeInv, OfferInv, NEW v \in Verifier, Verifier = {v}, verifying[v] # None,
         VerificationStatusCallout(v)
  PROVE  OfferInv'
<1>1. UNCHANGED <<scenario, sent>>
  BY DEF VerificationStatusCallout, fvmVars
<1>2. CASE ~Verified(v) /\ RetryLeft(v)
  <2>1. /\ verifying[v] \in Session /\ verifying[v].at = "verify"
        /\ OfferedAt(verifying[v])
    BY <1>2 DEF RetryLeft, TypeInv, OfferInv
  <2>2. PICK session : session = Retry(verifying[v])
    OBVIOUS
  <2>3. /\ session.at = "retry" /\ session.attempt = verifying[v].attempt + 1
        /\ session.pdu = verifying[v].pdu
    BY <2>1, <2>2 DEF Retry, Session
  <2>4. verifying' = [verifying EXCEPT ![v] = session]
    BY <1>2, <2>2 DEF VerificationStatusCallout
  <2>5. ~scenario.alwaysSuccess => UNCHANGED mFvRxCandidates
    BY <1>2 DEF VerificationStatusCallout, updateVerificationStatusAuthBroadcast
  <2>6. ASSUME ~scenario.alwaysSuccess, mFvRxCandidates # None,
               NEW i \in DOMAIN mFvRxCandidates, i <= session.attempt
        PROVE  Misfit(i, session.pdu)
    <3>1. i \in Nat /\ verifying[v].attempt \in Nat
      BY <2>1, <2>6 DEF TypeInv, CandidateInv, Session
    <3>2. CASE i <= verifying[v].attempt
      BY <2>1, <2>3, <2>6, <3>2 DEF OfferedAt
    <3>3. CASE i = verifying[v].attempt + 1
      BY <1>2, <2>1, <2>3, <3>3 DEF Verified, OfferedAt, Misfit
    <3> QED BY <2>3, <2>6, <3>1, <3>2, <3>3
  <2>7. OfferedAt(session)'
    BY <1>1, <2>3, <2>5, <2>6 DEF OfferedAt, Misfit
  <2> QED BY <2>4, <2>7, OfferOne
<1>3. CASE ~(~Verified(v) /\ RetryLeft(v))
  <2>1. verifying' = [verifying EXCEPT ![v] = None]
    BY <1>3 DEF VerificationStatusCallout
  <2> QED BY <2>1, OfferOne
<1> QED BY <1>2, <1>3

LEMMA InitOfferInv == Init => OfferInv
  BY DEF Init, OfferInv

LEMMA StepOfferInv ==
  ASSUME NEW theVerifier, Verifier = {theVerifier}
  PROVE  TypeInv /\ OfferInv /\ [Next]_vars => OfferInv'
<1> SUFFICES ASSUME TypeInv, OfferInv, [Next]_vars PROVE OfferInv'  OBVIOUS
<1>1. CASE MainLoops \/ SPduTxConfirmation \/ UNCHANGED vars
  <2>1. UNCHANGED <<scenario, mFvRxCandidates, verifying, sent>>
    BY <1>1 DEF MainLoops, incTimers, synchronise, loseSynchronisation,
                SPduTxConfirmation, vars, fvmVars
  <2> QED BY <2>1, OfferKept
<1>2. CASE getTxFv
  <2>1. UNCHANGED <<scenario, mFvRxCandidates, verifying>>
        /\ \E pdu : sent' = Append(sent, pdu)
    BY <1>2 DEF getTxFv, fvmVars
  <2>2. \A i \in DOMAIN sent : i \in DOMAIN sent' /\ sent'[i] = sent[i]
    BY <2>1 DEF TypeInv, PduInv
  <2> QED BY <2>1, <2>2, OfferKept
<1>3. ASSUME NEW v \in Verifier, Verify(v)
      PROVE  OfferInv'
  <2>1. Verifier = {v}
    OBVIOUS
  <2>2. CASE verifying[v] = None
    <3>1. PICK pdu \in DOMAIN sent : getRxFv(v, pdu, 0)
      BY <1>3, <2>2 DEF Verify
    <3>2. mFvRxCandidates # None => \A i \in DOMAIN mFvRxCandidates : ~(i <= 0)
      BY DEF TypeInv, CandidateInv
    <3> QED BY <2>1, <3>1, <3>2, OfferGetRxFv
  <2>3. ASSUME verifying[v] # None, getRxFv(v, verifying[v].pdu, verifying[v].attempt)
        PROVE  OfferInv'
    <3>1. PICK pdu, attempt : pdu = verifying[v].pdu /\ attempt = verifying[v].attempt
      OBVIOUS
    <3>2. pdu \in DOMAIN sent /\ attempt \in Nat
      BY <2>3, <3>1 DEF TypeInv, Session
    <3>3. OfferedAt(verifying[v]) /\ getRxFv(v, pdu, attempt)
      BY <2>3, <3>1 DEF OfferInv
    <3> QED BY <2>1, <3>1, <3>2, <3>3, OfferGetRxFv DEF OfferedAt
  <2> QED
    BY <1>3, <2>1, <2>2, <2>3, OfferBeforeCandidates, OfferCallout
    DEF Verify, VerifyStep
<1> QED BY <1>1, <1>2, <1>3 DEF Next, Sign

EnoughAttempts == \A s \in Scenario : ~s.alwaysSuccess => s.maxAttempts >= 4

AllMisfit(v) == \A i \in DOMAIN mFvRxCandidates : Misfit(i, verifying[v].pdu)

LEMMA SessionIsNotNone ==
  ASSUME TypeInv, NEW session \in Session
  PROVE  session # None
<1>1. session \in Verification
  BY FreshnessAssumption DEF TypeInv, ClockInv, PduInv, Session, Verification
<1> QED BY <1>1, NoneAssumption

LEMMA GivenUpIsMisfit ==
  ASSUME NEW v \in Verifier, Verifier = {v}, EnoughAttempts,
         TypeInv, OfferInv, TypeInv', [Next]_vars,
         ~scenario.alwaysSuccess, GivesUp(v)
  PROVE  AllMisfit(v)
<1> DEFINE session == verifying[v]
<1>1. /\ session \in Session /\ OfferedAt(session)
      /\ verifying'[v] = None /\ mFvRxCandidates # None /\ ~Verified(v)
  BY DEF GivesUp, TypeInv, OfferInv
<1>2. session # None /\ verifying'[v] # verifying[v]
  BY DEF GivesUp
<1>3. VerifyStep(v)
  <2>1. ~(MainLoops \/ Sign \/ UNCHANGED vars)
    BY <1>2 DEF MainLoops, incTimers, synchronise, loseSynchronisation, Sign, getTxFv,
                SPduTxConfirmation, vars
  <2> QED BY <1>2, <2>1 DEF Next, Verify
<1>4. ~getRxFv(v, session.pdu, session.attempt)
  <2> SUFFICES ASSUME getRxFv(v, session.pdu, session.attempt) PROVE FALSE  OBVIOUS
  <2>1. UNCHANGED sent
          /\ \E at \in VerifyPoint : \E freshness :
               Begin(v, session.pdu, session.attempt, at, freshness)
    BY DEF getRxFv, VerifyPoint
  <2>2. PICK at \in VerifyPoint : \E freshness :
          verifying'[v] = [pdu |-> session.pdu, attempt |-> session.attempt, at |-> at,
                           freshness |-> freshness, first |-> FALSE]
    BY <2>1 DEF Begin, TypeInv
  <2>3. verifying'[v] \in Session'
    <3>1. CASE mFvRxCandidates # None /\ ~TooManyAttempts(session.attempt)
      <4>1. /\ verifying'[v].freshness = mFvRxCandidates[session.attempt + 1]
        BY <3>1, <1>1 DEF getRxFv, Begin, TypeInv
      <4>2. mFvRxCandidates[session.attempt + 1] \in Int
        BY <3>1, <1>1 DEF TooManyAttempts, TypeInv, CandidateInv, Session
      <4>3. UNCHANGED <<scenario, sent>>
        BY DEF getRxFv, fvmVars
      <4> QED BY <1>1, <2>2, <4>1, <4>2, <4>3 DEF Session
    <3>2. CASE mFvRxCandidates = None \/ TooManyAttempts(session.attempt)
      <4>1. verifying'[v].freshness = None
        BY <3>2, <1>1 DEF getRxFv, Begin, TypeInv
      <4>2. UNCHANGED <<scenario, sent>>
        BY DEF getRxFv, fvmVars
      <4> QED BY <1>1, <2>2, <4>1, <4>2 DEF Session
    <3> QED BY <3>1, <3>2
  <2>4. Session' = Session
    BY <2>1 DEF getRxFv, fvmVars, Session
  <2> QED BY <1>1, <2>3, <2>4, SessionIsNotNone
<1>5. VerificationStatusCallout(v)
  BY <1>1, <1>2, <1>3, <1>4, OfferBeforeCandidates DEF VerifyStep
<1>6. ~RetryLeft(v)
  <2> SUFFICES ASSUME RetryLeft(v) PROVE FALSE  OBVIOUS
  <2>1. verifying'[v] = Retry(session)
    BY <1>1, <1>5 DEF VerificationStatusCallout, TypeInv
  <2>2. session.attempt + 1 \in 0..(scenario.maxAttempts - 1)
    BY <1>1, FreshnessAssumption DEF RetryLeft, Session, TypeInv, ClockInv
  <2>3. Retry(session) \in Session
    BY <1>1, <2>2 DEF Retry, Session, VerifyPoint
  <2> QED BY <1>1, <2>1, <2>3, SessionIsNotNone
<1>7. CASE session.at = "refused"
  BY <1>1, <1>7 DEF OfferedAt, AllMisfit
<1>8. CASE session.at = "verify"
  <2>1. /\ scenario.maxAttempts \in Nat /\ scenario.maxAttempts >= 4
        /\ session.attempt \in Nat
        /\ Len(mFvRxCandidates) <= 4 /\ mFvRxCandidates \in Seq(Int)
    <3>1. scenario \in Scenario
      BY DEF TypeInv, ClockInv
    <3>2. scenario.maxAttempts \in Nat /\ scenario.maxAttempts >= 4
      BY <3>1, FreshnessAssumption DEF EnoughAttempts
    <3>3. session.attempt \in Nat
      BY <1>1 DEF Session
    <3>4. Len(mFvRxCandidates) <= 4 /\ mFvRxCandidates \in Seq(Int)
      <4>1. mFvRxCandidates \in Seq(Int) /\ Len(mFvRxCandidates) \in {1, 3, 4}
        BY <1>1 DEF TypeInv, CandidateInv
      <4>2. Len(mFvRxCandidates) = 1 \/ Len(mFvRxCandidates) = 3
              \/ Len(mFvRxCandidates) = 4
        BY <4>1
      <4>3. 1 <= 4 /\ 3 <= 4 /\ 4 <= 4
        OBVIOUS
      <4> QED BY ONLY <4>1, <4>2, <4>3
    <3> QED BY <3>2, <3>3, <3>4
  <2>2. session.attempt + 1 >= 4
    BY <1>6, <1>8, <2>1 DEF RetryLeft
  <2>3. ASSUME NEW i \in DOMAIN mFvRxCandidates PROVE Misfit(i, session.pdu)
    <3>1. i \in Nat /\ i <= session.attempt + 1
      BY <2>1, <2>2, <2>3
    <3>2. CASE i <= session.attempt
      BY <1>1, <3>2 DEF OfferedAt
    <3>3. CASE i = session.attempt + 1
      BY <1>1, <1>8, <3>3 DEF Verified, OfferedAt, Misfit
    <3> QED BY <2>1, <3>1, <3>2, <3>3
  <2> QED BY <2>3 DEF AllMisfit
<1> QED BY <1>5, <1>7, <1>8 DEF VerificationStatusCallout

(***************************************************************************)
(* With one verifier, and SecOC configured for as many attempts as there   *)
(* may be candidates, a PDU is given up only when none of the candidates   *)
(* fits it, however its attempts are spread over changes of time and of    *)
(* validity.                                                               *)
(***************************************************************************)
THEOREM GivenUpOnlyWhenExhausted ==
  ASSUME NEW theVerifier, Verifier = {theVerifier}, EnoughAttempts
  PROVE  Spec => CandidatesExhausted
<1>1. TypeInv /\ OfferInv /\ TypeInv' /\ [Next]_vars =>
        [\A v \in Verifier : OneByOne /\ ~scenario.alwaysSuccess /\ GivesUp(v) =>
           \A i \in DOMAIN mFvRxCandidates :
             mFvRxCandidates[i] # sent[verifying[v].pdu].fv]_vars
  BY GivenUpIsMisfit DEF AllMisfit, Misfit
<1> QED
  BY <1>1, InitTypeInv, StepTypeInv, InitOfferInv, StepOfferInv, PTL
  DEF Spec, CandidatesExhausted

-----------------------------------------------------------------------------
(* The session counter counts: no two values are followed by the same one. *)

(* The last place in which two counters differ. *)
LEMMA LastDifference ==
  ASSUME NEW a \in SessionCounter, NEW b \in SessionCounter, a # b
  PROVE  \E i \in 1..SessionCounterLength :
           /\ a[i] # b[i]
           /\ \A j \in 1..SessionCounterLength : j > i => a[j] = b[j]
<1> USE CounterAssumption
<1> DEFINE T == {n \in Nat : \E i \in 1..SessionCounterLength :
                               n = SessionCounterLength - i /\ a[i] # b[i]}
<1>1. PICK i \in 1..SessionCounterLength : a[i] # b[i]
  BY DEF SessionCounter
<1>2. SessionCounterLength - i \in T
  BY <1>1
<1>3. T \subseteq Nat /\ T # {}
  BY <1>2
<1>4. PICK n \in T : \A m \in T : n <= m
  <2> HIDE DEF T
  <2> QED BY <1>3, LeastNatural
<1>5. PICK k \in 1..SessionCounterLength : n = SessionCounterLength - k /\ a[k] # b[k]
  OBVIOUS
<1>6. ASSUME NEW j \in 1..SessionCounterLength, j > k PROVE a[j] = b[j]
  <2> SUFFICES ASSUME a[j] # b[j] PROVE FALSE  OBVIOUS
  <2>1. SessionCounterLength - j \in T
    OBVIOUS
  <2> QED BY <1>4, <1>5, <1>6, <2>1
<1> QED BY <1>5, <1>6

LEMMA NextByteInjective ==
  ASSUME NEW x \in Byte, NEW y \in Byte,
         (x + 1) % ByteModulus = (y + 1) % ByteModulus
  PROVE  x = y
<1> USE WordAssumption DEF Byte
<1>1. \A n \in Byte : n + 1 = ByteModulus => (n + 1) % ByteModulus = 0
  OBVIOUS
<1>2. \A n \in Byte : n + 1 # ByteModulus => (n + 1) % ByteModulus = n + 1
  OBVIOUS
<1> QED BY <1>1, <1>2

(***************************************************************************)
(* incrementByteArray, for any number of bytes: the carry that goes on     *)
(* from a byte that was zero loses no information.                         *)
(***************************************************************************)
LEMMA IncrementInjective ==
  ASSUME NEW a \in SessionCounter, NEW b \in SessionCounter,
         incrementByteArray(a) = incrementByteArray(b)
  PROVE  a = b
<1> SUFFICES ASSUME a # b PROVE FALSE  OBVIOUS
<1>1. PICK i \in 1..SessionCounterLength :
        /\ a[i] # b[i]
        /\ \A j \in 1..SessionCounterLength : j > i => a[j] = b[j]
  BY LastDifference
<1>2. DOMAIN a = 1..SessionCounterLength /\ DOMAIN b = 1..SessionCounterLength
      /\ a[i] \in Byte /\ b[i] \in Byte
  BY DEF SessionCounter
<1> DEFINE carry(c) == \A j \in DOMAIN c : j > i => c[j] = 0
<1>3. carry(a) <=> carry(b)
  BY <1>1, <1>2
<1>4. incrementByteArray(a)[i] = incrementByteArray(b)[i]
  OBVIOUS
<1>5. CASE carry(a)
  BY <1>1, <1>2, <1>3, <1>4, <1>5, NextByteInjective DEF incrementByteArray
<1>6. CASE ~carry(a)
  BY <1>1, <1>2, <1>3, <1>4, <1>6 DEF incrementByteArray
<1> QED BY <1>5, <1>6

-----------------------------------------------------------------------------
(* A round of the session counter, for counters of any length.             *)

(* The counter after n increments, for all n. *)
CounterSteps(f) ==
  /\ f \in [Nat -> SessionCounter]
  /\ f[0] = GetSessionCounter(InitAttributes)
  /\ \A n \in Nat : f[n + 1] = incrementByteArray(f[n])

CounterAfter == CHOOSE f : CounterSteps(f)

LEMMA CounterAfterSteps == CounterSteps(CounterAfter)
<1>1. PICK step \in [Nat -> [SessionCounter -> SessionCounter]] :
        \A n \in Nat : \A c \in SessionCounter : step[n][c] = incrementByteArray(c)
  <2> DEFINE s == [n \in Nat |-> [c \in SessionCounter |-> incrementByteArray(c)]]
  <2>1. s \in [Nat -> [SessionCounter -> SessionCounter]]
    BY IncrementType
  <2>2. \A n \in Nat : \A c \in SessionCounter : s[n][c] = incrementByteArray(c)
    OBVIOUS
  <2> HIDE DEF s
  <2> QED BY <2>1, <2>2
<1> DEFINE first == GetSessionCounter(InitAttributes)
<1>2. first \in SessionCounter
  BY FirstCounterType DEF GetSessionCounter
<1> HIDE DEF first
<1>3. PICK f \in [Nat -> SessionCounter] :
        f[0] = first /\ \A n \in Nat : f[n + 1] = step[n][f[n]]
  <2>1. Recursive(SessionCounter)
    BY Recursion
  <2> QED
    BY ONLY <1>2, <2>1, step \in [Nat -> [SessionCounter -> SessionCounter]]
    DEF Recursive
<1>4. \A n \in Nat : f[n + 1] = incrementByteArray(f[n])
  BY <1>1, <1>3
<1>5. CounterSteps(f)
  BY <1>3, <1>4 DEF CounterSteps, first
<1> QED BY <1>5 DEF CounterAfter

LEMMA ByteShifts ==
  /\ ByteShift \in [Nat -> Nat \ {0}]
  /\ ByteShift[0] = 1
  /\ \A n \in Nat : ByteShift[n + 1] = ByteModulus * ByteShift[n]
<1>1. ByteModulus \in Nat \ {0}
  BY WordAssumption
<1>2. ByteShift = PowersOf(ByteModulus)
  BY DEF ByteShift, PowersOf
<1> QED BY <1>1, <1>2, Powers

(* Whether the k last bytes are zero after n increments. *)
LastBytesZero(n, k) ==
  \A j \in 1..SessionCounterLength :
    j > SessionCounterLength - k => CounterAfter[n][j] = 0

(* The byte before the k last ones counts how often these were zero. *)
LEMMA ByteCounts ==
  ASSUME NEW k \in 0..(SessionCounterLength - 1),
         \A n \in Nat : LastBytesZero(n, k) <=> n % ByteShift[k] = 0,
         NEW n \in Nat
  PROVE  CounterAfter[n][SessionCounterLength - k]
           = ((n + ByteShift[k] - 1) \div ByteShift[k]) % ByteModulus
<1> USE WordAssumption, CounterAssumption
<1>1. PICK p \in Nat \ {0} : p = ByteShift[k]
  BY ByteShifts
<1>2. PICK i \in 1..SessionCounterLength : i = SessionCounterLength - k
  OBVIOUS
<1> DEFINE count(a) == (a + p - 1) \div p
           T == {a \in Nat : CounterAfter[a][i] = count(a) % ByteModulus}
<1>3. 0 \in T
  <2>1. CounterAfter[0][i] = 0
    BY CounterAfterSteps DEF CounterSteps, GetSessionCounter, InitAttributes
  <2>2. (p - 1) \div p = 0 /\ 0 % ByteModulus = 0
    BY SmallRemainder, p - 1 \in 0..(p - 1), 0 \in 0..(ByteModulus - 1)
  <2>3. 0 + p - 1 = p - 1
    OBVIOUS
  <2> QED BY <2>1, <2>2, <2>3
<1>4. ASSUME NEW a \in Nat, a \in T PROVE a + 1 \in T
  <2>1. /\ CounterAfter[a] \in SessionCounter
        /\ CounterAfter[a + 1] = incrementByteArray(CounterAfter[a])
    BY CounterAfterSteps DEF CounterSteps
  <2>2. (\A j \in DOMAIN CounterAfter[a] : j > i => CounterAfter[a][j] = 0)
          <=> a % p = 0
    BY <1>1, <1>2, <2>1 DEF LastBytesZero, SessionCounter
  <2>3. DOMAIN CounterAfter[a] = 1..SessionCounterLength
    BY <2>1 DEF SessionCounter
  <2>4. CounterAfter[a + 1][i] = IF a % p = 0 THEN (CounterAfter[a][i] + 1) % ByteModulus
                                              ELSE CounterAfter[a][i]
    BY <2>1, <2>2, <2>3 DEF incrementByteArray
  <2>5. count(a) \in Nat
    BY Division
  <2>6. count(a + 1) = IF a % p = 0 THEN count(a) + 1 ELSE count(a)
    BY CeilingStep
  <2>7. ((count(a) % ByteModulus) + 1) % ByteModulus = (count(a) + 1) % ByteModulus
    BY <2>5, NextRemainder
  <2>8. CounterAfter[a][i] = count(a) % ByteModulus
    BY <1>4
  <2> HIDE DEF count
  <2>9. CounterAfter[a + 1][i] = count(a + 1) % ByteModulus
    BY <2>4, <2>6, <2>7, <2>8
  <2> QED BY <2>9
<1> HIDE DEF T
<1>5. Nat \subseteq T
  BY <1>3, <1>4, SetInduction
<1> QED BY <1>1, <1>2, <1>5 DEF T

(* The k last bytes are zero every 256^k increments. *)
LEMMA LastBytesZeroAfter ==
  \A k \in 0..SessionCounterLength : \A n \in Nat :
    LastBytesZero(n, k) <=> n % ByteShift[k] = 0
<1> USE WordAssumption, CounterAssumption
<1> DEFINE zeroAfter(k) ==
      \A n \in Nat : LastBytesZero(n, k) <=> n % ByteShift[k] = 0
    T == {k \in Nat : k <= SessionCounterLength => zeroAfter(k)}
<1>1. 0 \in T
  <2>1. \A n \in Nat : LastBytesZero(n, 0)
    BY DEF LastBytesZero
  <2>2. \A n \in Nat : n % 1 = 0
    BY SMT
  <2> QED BY <2>1, <2>2, ByteShifts
<1>2. ASSUME NEW k \in Nat, k \in T PROVE k + 1 \in T
  <2> SUFFICES ASSUME k + 1 <= SessionCounterLength, NEW n \in Nat
               PROVE  LastBytesZero(n, k + 1) <=> n % ByteShift[k + 1] = 0
    OBVIOUS
  <2>1. k \in 0..(SessionCounterLength - 1) /\ zeroAfter(k)
    BY <1>2
  <2> HIDE DEF T
  <2>2. PICK p \in Nat \ {0} : p = ByteShift[k]
    BY ByteShifts
  <2>3. ByteShift[k + 1] = p * ByteModulus
    BY <2>2, ByteShifts, SMT
  <2>4. PICK i \in 1..SessionCounterLength : i = SessionCounterLength - k
    BY <2>1
  <2>5. LastBytesZero(n, k + 1) <=> LastBytesZero(n, k) /\ CounterAfter[n][i] = 0
    <3>1. \A j \in 1..SessionCounterLength :
            j > SessionCounterLength - (k + 1) <=> j > SessionCounterLength - k \/ j = i
      BY <2>4
    <3> QED BY <3>1 DEF LastBytesZero
  <2>6. LastBytesZero(n, k) <=> n % p = 0
    BY <2>1, <2>2
  <2>7. PICK q \in Nat, r \in 0..(p - 1) : n \div p = q /\ n % p = r /\ n = p * q + r
    BY Division
  <2>8. n % (p * ByteModulus) = p * (q % ByteModulus) + r
    BY <2>7, RemainderOfProduct
  <2>9. PICK u \in 0..(ByteModulus - 1) : q % ByteModulus = u
    BY Division
  <2>10. p * u + r = 0 <=> u = 0 /\ r = 0
    <3>1. p * u \in Nat /\ (u # 0 => p * u # 0) /\ (u = 0 => p * u = 0)
      BY SMT
    <3> QED BY <3>1
  <2>11. r = 0 => CounterAfter[n][i] = u
    <3> SUFFICES ASSUME r = 0 PROVE CounterAfter[n][i] = u  OBVIOUS
    <3>1. CounterAfter[n][i] = ((n + p - 1) \div p) % ByteModulus
      BY <2>1, <2>2, <2>4, ByteCounts
    <3>2. n + p - 1 = p * q + (p - 1) /\ p - 1 \in 0..(p - 1)
      BY <2>7
    <3>3. (n + p - 1) \div p = q
      BY <3>2, NamedQuotient
    <3> QED BY <2>9, <3>1, <3>3
  <2>12. n % ByteShift[k + 1] = 0 <=> u = 0 /\ r = 0
    BY <2>3, <2>8, <2>9, <2>10
  <2> QED BY <2>5, <2>6, <2>7, <2>11, <2>12
<1> HIDE DEF zeroAfter, T
<1>3. Nat \subseteq T
  BY <1>1, <1>2, SetInduction
<1> QED BY <1>3 DEF T, zeroAfter

(***************************************************************************)
(* incrementByteArray comes back to the first counter after a round of     *)
(* 256^n increments, for n bytes, and not before.                          *)
(***************************************************************************)
LEMMA ReturnsAfterRound ==
  ASSUME NEW n \in Nat
  PROVE  CounterAfter[n] = CounterAfter[0] <=> n % ByteShift[SessionCounterLength] = 0
<1>1. LastBytesZero(n, SessionCounterLength) <=> n % ByteShift[SessionCounterLength] = 0
  BY CounterAssumption, LastBytesZeroAfter
<1>2. /\ CounterAfter[0] = [i \in 1..SessionCounterLength |-> 0]
      /\ CounterAfter[n] \in [1..SessionCounterLength -> Byte]
  BY CounterAfterSteps DEF CounterSteps, GetSessionCounter, InitAttributes, SessionCounter
<1>3. LastBytesZero(n, SessionCounterLength)
        <=> \A j \in 1..SessionCounterLength : CounterAfter[n][j] = 0
  BY CounterAssumption DEF LastBytesZero
<1>4. CounterAfter[n] = CounterAfter[0]
        <=> \A j \in 1..SessionCounterLength : CounterAfter[n][j] = 0
  BY <1>2
<1> QED BY <1>1, <1>3, <1>4

(* The counters after a and b increments are the same if and only if a and *)
(* b are whole rounds apart.                                               *)
LEMMA RoundsApart ==
  ASSUME NEW a \in Nat, NEW b \in Nat
  PROVE  CounterAfter[a] = CounterAfter[b]
           <=> a % ByteShift[SessionCounterLength] = b % ByteShift[SessionCounterLength]
<1>1. PICK round \in Nat \ {0} : round = ByteShift[SessionCounterLength]
  BY ByteShifts, CounterAssumption
<1>2. \A n, d \in Nat :
        CounterAfter[n] = CounterAfter[n + d] <=> CounterAfter[d] = CounterAfter[0]
  <2> DEFINE T == {n \in Nat : \A d \in Nat :
        CounterAfter[n] = CounterAfter[n + d] <=> CounterAfter[d] = CounterAfter[0]}
  <2>1. 0 \in T
    <3>1. \A d \in Nat : 0 + d = d  OBVIOUS
    <3> QED BY <3>1
  <2>2. ASSUME NEW n \in Nat, n \in T PROVE n + 1 \in T
    <3> SUFFICES ASSUME NEW d \in Nat
                 PROVE  CounterAfter[n + 1] = CounterAfter[(n + 1) + d]
                          <=> CounterAfter[d] = CounterAfter[0]
      OBVIOUS
    <3>1. (n + 1) + d = (n + d) + 1 /\ n + d \in Nat
      OBVIOUS
    <3>2. /\ CounterAfter[n + 1] = incrementByteArray(CounterAfter[n])
          /\ CounterAfter[(n + 1) + d] = incrementByteArray(CounterAfter[n + d])
      BY <3>1, CounterAfterSteps DEF CounterSteps
    <3>3. CounterAfter[n] \in SessionCounter /\ CounterAfter[n + d] \in SessionCounter
      BY <3>1, CounterAfterSteps DEF CounterSteps
    <3>4. CounterAfter[n + 1] = CounterAfter[(n + 1) + d]
            <=> CounterAfter[n] = CounterAfter[n + d]
      BY <3>2, <3>3, IncrementInjective
    <3> QED BY <2>2, <3>4
  <2> HIDE DEF T
  <2>3. Nat \subseteq T
    BY <2>1, <2>2, SetInduction
  <2> QED BY <2>3 DEF T
<1>3. ASSUME NEW x \in Nat, NEW y \in Nat, x <= y
      PROVE  CounterAfter[x] = CounterAfter[y] <=> x % round = y % round
  <2>1. PICK d \in Nat : y = x + d
    <3>1. y - x \in Nat /\ y = x + (y - x)  BY <1>3
    <3> QED BY <3>1
  <2>2. CounterAfter[x] = CounterAfter[y] <=> d % round = 0
    BY <1>1, <1>2, <2>1, ReturnsAfterRound
  <2> QED BY <2>1, <2>2, SameRemainder
<1>4. a <= b \/ b <= a
  OBVIOUS
<1> QED BY <1>1, <1>3, <1>4

(* CounterRound begins with the counters after 0, 1, 2, ... increments. *)
LEMMA RoundOfCounters ==
  ASSUME NEW n \in 0..ByteShift[SessionCounterLength]
  PROVE  CounterRound[n + 1] = CounterAfter[n]
<1> DEFINE begun(k) == [i \in 1..(k + 1) |-> CounterAfter[i - 1]]
           IsRound(f) ==
             f = [k \in Nat |->
                    IF k = 0 THEN << GetSessionCounter(InitAttributes) >>
                    ELSE Append(f[k - 1], incrementByteArray(f[k - 1][k]))]
           chosen == CHOOSE f : IsRound(f)
<1>1. begun(0) = << GetSessionCounter(InitAttributes) >>
  BY CounterAfterSteps DEF CounterSteps
<1>2. ASSUME NEW k \in Nat
      PROVE  begun(k + 1) = Append(begun(k), incrementByteArray(begun(k)[k + 1]))
  <2>1. begun(k) \in Seq(SessionCounter) /\ Len(begun(k)) = k + 1
    BY CounterAfterSteps DEF CounterSteps
  <2>2. begun(k)[k + 1] = CounterAfter[k]
    OBVIOUS
  <2>3. incrementByteArray(CounterAfter[k]) = CounterAfter[k + 1]
    BY CounterAfterSteps DEF CounterSteps
  <2>4. Append(begun(k), CounterAfter[k + 1])
          = [i \in 1..(k + 2) |-> IF i = k + 2 THEN CounterAfter[k + 1] ELSE begun(k)[i]]
    <3> HIDE DEF begun
    <3> QED BY <2>1
  <2>5. begun(k + 1)
          = [i \in 1..(k + 2) |-> IF i = k + 2 THEN CounterAfter[k + 1] ELSE begun(k)[i]]
    OBVIOUS
  <2> HIDE DEF begun
  <2> QED BY <2>2, <2>3, <2>4, <2>5
<1>3. IsRound([k \in Nat |-> begun(k)])
  <2> DEFINE f == [k \in Nat |-> begun(k)]
  <2> HIDE DEF begun
  <2>1. ASSUME NEW k \in Nat
        PROVE  f[k] = IF k = 0 THEN << GetSessionCounter(InitAttributes) >>
                      ELSE Append(f[k - 1], incrementByteArray(f[k - 1][k]))
    <3>1. CASE k = 0
      BY <1>1, <3>1
    <3>2. CASE k # 0
      <4>1. k - 1 \in Nat /\ (k - 1) + 1 = k
        BY <3>2
      <4>2. f[k] = begun(k) /\ f[k - 1] = begun(k - 1)
        BY <4>1
      <4>3. begun(k) = Append(begun(k - 1), incrementByteArray(begun(k - 1)[k]))
        BY <1>2, <4>1
      <4> QED BY <3>2, <4>2, <4>3
    <3> QED BY <3>1, <3>2
  <2>2. f = [k \in Nat |-> f[k]]
    OBVIOUS
  <2> HIDE DEF f
  <2>3. IsRound(f)
    BY <2>1, <2>2
  <2> QED BY <2>3 DEF f
<1>4. IsRound(chosen)
  <2> HIDE DEF IsRound
  <2> QED BY <1>3
<1>5. CounterRound = chosen[ByteShift[SessionCounterLength]]
  BY DEF CounterRound
<1> HIDE DEF chosen
<1>6. /\ chosen[0] = << GetSessionCounter(InitAttributes) >>
      /\ \A k \in Nat :
           chosen[k + 1] = Append(chosen[k], incrementByteArray(chosen[k][k + 1]))
  <2>1. \A k \in Nat : chosen[k] =
          IF k = 0 THEN << GetSessionCounter(InitAttributes) >>
          ELSE Append(chosen[k - 1], incrementByteArray(chosen[k - 1][k]))
    BY <1>4
  <2>2. \A k \in Nat : k + 1 \in Nat /\ k + 1 # 0 /\ (k + 1) - 1 = k
    OBVIOUS
  <2> QED BY <2>1, <2>2
<1> DEFINE T == {k \in Nat : chosen[k] = begun(k)}
<1>7. Nat \subseteq T
  <2> HIDE DEF begun
  <2>1. 0 \in T
    BY <1>1, <1>6
  <2>2. ASSUME NEW k \in Nat, k \in T PROVE k + 1 \in T
    <3>1. chosen[k] = begun(k)
      BY <2>2
    <3>2. chosen[k + 1] = Append(begun(k), incrementByteArray(begun(k)[k + 1]))
      BY <1>6, <3>1
    <3>3. chosen[k + 1] = begun(k + 1)
      BY <1>2, <3>2
    <3> QED BY <3>3
  <2> HIDE DEF T
  <2> QED BY <2>1, <2>2, SetInduction
<1>8. PICK round \in Nat : round = ByteShift[SessionCounterLength]
  BY ByteShifts, CounterAssumption
<1>9. CounterRound = begun(round)
  <2> HIDE DEF begun
  <2> QED BY <1>5, <1>7, <1>8
<1>10. n + 1 \in 1..(round + 1) /\ (n + 1) - 1 = n
  BY <1>8
<1> QED BY <1>9, <1>10

-----------------------------------------------------------------------------
(* The counters sent are successive, from the first one on.                *)

CounterOf(k) ==
  IF k = 0 THEN InitAttributes.sessionCounterLastUsed ELSE sent[k].counter

SuccessiveInv ==
  /\ \A i \in 1..Len(sent) : CounterOf(i) = incrementByteArray(CounterOf(i - 1))
  /\ Counter(Source) = CounterOf(Len(sent))

LEMMA CounterOfType ==
  ASSUME TypeInv, NEW k \in 0..Len(sent)
  PROVE  CounterOf(k) \in SessionCounter
<1>1. CASE k = 0
  BY <1>1, FirstCounterType DEF CounterOf
<1>2. CASE k # 0
  <2> DEFINE Pdu == [fv : Nat, counter : SessionCounter]
  <2>1. sent \in Seq(Pdu)
    BY DEF TypeInv, PduInv
  <2> HIDE DEF Pdu
  <2>2. k \in 1..Len(sent) /\ Len(sent) \in Nat
    BY <1>2, <2>1
  <2>3. sent[k] \in Pdu
    BY <2>1, <2>2
  <2>4. sent[k].counter \in SessionCounter
    BY <2>3 DEF Pdu
  <2> QED BY <1>2, <2>4 DEF CounterOf
<1> QED BY <1>1, <1>2

LEMMA InitSuccessive == Init => SuccessiveInv
<1> SUFFICES ASSUME Init PROVE SuccessiveInv  OBVIOUS
<1>1. Len(sent) = 0 /\ mAttrMgr[Source] = InitAttributes
  BY DEF Init, Ecu
<1> QED BY <1>1 DEF SuccessiveInv, CounterOf, Counter

(* A step other than signing leaves the source's counter alone. *)
LEMMA SourceCounterKept ==
  ASSUME TypeInv, [Next]_vars, ~getTxFv
  PROVE  UNCHANGED sent /\ Counter(Source)' = Counter(Source)
<1>0. /\ mAttrMgr \in [Ecu -> Attribute] /\ Source \in Ecu /\ Sink \in Ecu
      /\ Source # Sink /\ HasCounter(mAttrMgr[Source])
  BY DEF TypeInv, AttributeInv, Attribute, Ecu, Source, Sink, HasCounter
<1>1. CASE MainLoops \/ UNCHANGED vars
  BY <1>1 DEF MainLoops, incTimers, synchronise, loseSynchronisation, vars, Counter
<1>2. CASE SPduTxConfirmation
  <2> DEFINE attr == UpdateEvent(mAttrMgr[Source], "latestSignedTime",
                       GetEvent(mAttrMgr[Source], "lastRequestedForSigning"))
  <2>1. attr.sessionCounterLastUsed = Counter(Source)
    BY <1>0, EventKeepsCounter DEF Counter
  <2>2. mAttrMgr' = [mAttrMgr EXCEPT ![Source] = attr] /\ UNCHANGED sent
    BY <1>2 DEF SPduTxConfirmation
  <2> HIDE DEF attr
  <2> QED BY <1>0, <2>1, <2>2 DEF Counter
<1>3. ASSUME NEW v \in Verifier, Verify(v)
      PROVE  UNCHANGED sent /\ Counter(Source)' = Counter(Source)
  <2>1. UNCHANGED sent /\ (UNCHANGED mAttrMgr
                            \/ \E attr : mAttrMgr' = [mAttrMgr EXCEPT ![Sink] = attr])
    BY <1>3
    DEF Verify, VerifyStep, getRxFv, consumeCounter, activate, buildCandidates,
        refuseOldActivity, readUnbuilt, offerCandidates, VerificationStatusCallout,
        updateVerificationStatusAuthBroadcast
  <2> QED BY <1>0, <2>1 DEF Counter
<1> QED BY <1>1, <1>2, <1>3 DEF Next, Sign

LEMMA StepSuccessive == TypeInv /\ SuccessiveInv /\ [Next]_vars => SuccessiveInv'
<1> SUFFICES ASSUME TypeInv, SuccessiveInv, [Next]_vars PROVE SuccessiveInv'  OBVIOUS
<1>1. CASE ~getTxFv
  <2>1. UNCHANGED sent /\ Counter(Source)' = Counter(Source)
    BY <1>1, SourceCounterKept
  <2> QED BY <2>1 DEF SuccessiveInv, CounterOf
<1>2. CASE getTxFv
  <2>0. PICK n : n = Len(sent)
    OBVIOUS
  <2> DEFINE attr == IncSessionCounter(TxUsed(mAttrMgr[Source]))
  <2>1. attr.sessionCounterLastUsed = incrementByteArray(CounterOf(n))
    <3>1. HasCounter(mAttrMgr[Source])
      BY DEF TypeInv, AttributeInv, Attribute, Ecu, HasCounter
    <3>2. /\ HasCounter(TxUsed(mAttrMgr[Source]))
          /\ TxUsed(mAttrMgr[Source]).sessionCounterLastUsed = Counter(Source)
      BY <3>1, ActivationKeepsCounter, EventKeepsCounter DEF TxUsed, Counter
    <3> QED BY <2>0, <3>2, IncrementSetsCounter DEF SuccessiveInv
  <2>2. /\ mAttrMgr' = [mAttrMgr EXCEPT ![Source] = attr]
        /\ sent' = Append(sent, [fv |-> TxFv, counter |-> attr.sessionCounterLastUsed])
    BY <1>2 DEF getTxFv
  <2> HIDE DEF attr
  <2>3. sent \in Seq([fv : Nat, counter : SessionCounter]) /\ n \in Nat
    BY <2>0 DEF TypeInv, PduInv
  <2>4. /\ Len(sent') = n + 1
        /\ \A i \in 1..n : sent'[i] = sent[i]
        /\ sent'[n + 1].counter = attr.sessionCounterLastUsed
    BY <2>0, <2>2, <2>3
  <2>5. \A k \in 0..n : CounterOf(k)' = CounterOf(k)
    BY <2>3, <2>4 DEF CounterOf
  <2>6. CounterOf(n + 1)' = incrementByteArray(CounterOf(n))
    BY <2>1, <2>3, <2>4 DEF CounterOf
  <2>7. Counter(Source)' = CounterOf(n + 1)'
    BY <2>2, <2>3, <2>4 DEF Counter, CounterOf, TypeInv, AttributeInv, Ecu
  <2>8. ASSUME NEW i \in 1..(n + 1)
        PROVE  CounterOf(i)' = incrementByteArray(CounterOf(i - 1)')
    <3>1. CASE i = n + 1
      BY <2>3, <2>5, <2>6, <3>1
    <3>2. CASE i # n + 1
      BY <2>0, <2>3, <2>5, <3>2 DEF SuccessiveInv
    <3> QED BY <3>1, <3>2
  <2> QED BY <2>4, <2>7, <2>8 DEF SuccessiveInv
<1> QED BY <1>1, <1>2

(* The n-th PDU is sent with the counter after n increments. *)
LEMMA SentCounter ==
  ASSUME TypeInv, SuccessiveInv, NEW k \in 0..Len(sent)
  PROVE  CounterOf(k) = CounterAfter[k]
<1>0. Len(sent) \in Nat
  BY DEF TypeInv, PduInv
<1> DEFINE T == {n \in Nat : n <= Len(sent) => CounterOf(n) = CounterAfter[n]}
<1>1. 0 \in T
  BY CounterAfterSteps DEF CounterSteps, CounterOf, GetSessionCounter
<1>2. ASSUME NEW n \in Nat, n \in T PROVE n + 1 \in T
  <2> SUFFICES ASSUME n + 1 <= Len(sent) PROVE CounterOf(n + 1) = CounterAfter[n + 1]
    OBVIOUS
  <2>1. CounterOf(n + 1) = incrementByteArray(CounterOf(n))
    <3>1. n + 1 \in 1..Len(sent) /\ (n + 1) - 1 = n
      BY <1>0
    <3> QED BY <3>1 DEF SuccessiveInv
  <2>2. CounterOf(n) = CounterAfter[n]
    BY <1>0, <1>2
  <2>3. CounterAfter[n + 1] = incrementByteArray(CounterAfter[n])
    BY CounterAfterSteps DEF CounterSteps
  <2> QED BY <2>1, <2>2, <2>3
<1> HIDE DEF T
<1>3. Nat \subseteq T
  BY <1>1, <1>2, SetInduction
<1>4. k \in Nat /\ k <= Len(sent)
  BY <1>0
<1> QED BY <1>3, <1>4 DEF T

LEMMA SentCounterOfPdu ==
  ASSUME TypeInv, SuccessiveInv, NEW i \in DOMAIN sent
  PROVE  sent[i].counter = CounterAfter[i]
<1>1. i \in 0..Len(sent) /\ i # 0
  BY DEF TypeInv, PduInv
<1>2. CounterOf(i) = CounterAfter[i]
  BY <1>1, SentCounter
<1> QED BY <1>1, <1>2 DEF CounterOf

(* Before the counter has gone round, all counters are different. *)
BeforeRoundEnds == Len(sent) < ByteShift[SessionCounterLength]

LEMMA Apart ==
  ASSUME TypeInv, SuccessiveInv, BeforeRoundEnds,
         NEW i \in 0..Len(sent), NEW j \in 0..Len(sent), CounterOf(i) = CounterOf(j)
  PROVE  i = j
<1>0. Len(sent) \in Nat
  BY DEF TypeInv, PduInv
<1>1. PICK round \in Nat \ {0} : round = ByteShift[SessionCounterLength]
  BY ByteShifts, CounterAssumption
<1>2. i \in 0..(round - 1) /\ j \in 0..(round - 1)
  BY <1>0, <1>1 DEF BeforeRoundEnds
<1>3. CounterAfter[i] = CounterAfter[j]
  <2>1. CounterOf(i) = CounterAfter[i] /\ CounterOf(j) = CounterAfter[j]
    BY SentCounter
  <2> QED BY <2>1
<1>4. i % round = j % round
  <2>1. i \in Nat /\ j \in Nat
    BY <1>2
  <2> QED BY <1>1, <1>3, <2>1, RoundsApart
<1> QED BY <1>2, <1>4, SmallRemainder

(* The PDU with the counter that follows another one follows the other one. *)
LEMMA NextCounterIsNext ==
  ASSUME TypeInv, SuccessiveInv, BeforeRoundEnds, NEW k \in 0..Len(sent),
         NEW pdu \in DOMAIN sent, sent[pdu].counter = incrementByteArray(CounterOf(k))
  PROVE  pdu = k + 1
<1>1. Len(sent) \in Nat /\ pdu \in 1..Len(sent)
  BY DEF TypeInv, PduInv
<1>2. CounterOf(pdu) = incrementByteArray(CounterOf(k))
  BY <1>1 DEF CounterOf
<1>3. CounterOf(pdu) = incrementByteArray(CounterOf(pdu - 1)) /\ pdu - 1 \in 0..Len(sent)
  BY <1>1 DEF SuccessiveInv
<1>4. CounterOf(pdu - 1) \in SessionCounter /\ CounterOf(k) \in SessionCounter
  BY <1>3, CounterOfType
<1>5. CounterOf(pdu - 1) = CounterOf(k)
  BY <1>2, <1>3, <1>4, IncrementInjective
<1>6. pdu - 1 = k
  BY <1>3, <1>5, Apart
<1> QED BY <1>1, <1>6

-----------------------------------------------------------------------------
(* The sink's counter, for any number of threads that verify.              *)

(* Those that have found the counter to match and not consumed it yet.     *)
Consuming == {v \in Verifier : verifying[v] # None /\ verifying[v].at = "matched"}

(* Whoever found the counter to match took it for that of a PDU sent; each *)
(* of the others that did may have advanced it meanwhile.                  *)
AheadInv ==
  /\ \A v \in Verifier : verifying[v] # None => v \in scenario.threads
  /\ \E s \in Nat :
       /\ Counter(Sink) = CounterAfter[s]
       /\ s + Cardinality(Consuming) < Len(sent) + Cardinality(scenario.threads)

LEMMA ThreadsAreSome ==
  ASSUME TypeInv
  PROVE  /\ IsFiniteSet(scenario.threads) /\ scenario.threads # {}
         /\ Cardinality(scenario.threads) \in Nat \ {0}
<1>1. scenario.threads \in (SUBSET Verifier) \ {{}} /\ IsFiniteSet(Verifier)
  BY FreshnessAssumption DEF TypeInv, ClockInv
<1>2. IsFiniteSet(scenario.threads)
  BY <1>1, FS_Subset
<1> QED BY <1>1, <1>2, FS_CardinalityType, FS_EmptySet

LEMMA ConsumingIsFinite ==
  IsFiniteSet(Consuming) /\ Cardinality(Consuming) \in Nat
<1>1. Consuming \subseteq Verifier /\ IsFiniteSet(Verifier)
  BY FreshnessAssumption DEF Consuming
<1> QED BY <1>1, FS_Subset, FS_CardinalityType

LEMMA InitAheadInv == Init => AheadInv
<1> SUFFICES ASSUME Init PROVE AheadInv  OBVIOUS
<1>1. TypeInv
  BY InitTypeInv
<1>2. Counter(Sink) = CounterAfter[0]
  BY CounterAfterSteps
  DEF CounterSteps, GetSessionCounter, Init, Counter, Ecu
<1>3. Consuming = {} /\ Len(sent) = 0
  BY DEF Init, Consuming
<1>4. 0 + Cardinality(Consuming) < Len(sent) + Cardinality(scenario.threads)
  BY <1>1, <1>3, ThreadsAreSome, FS_EmptySet
<1>5. \A v \in Verifier : verifying[v] = None
  BY DEF Init
<1> QED BY <1>2, <1>4, <1>5 DEF AheadInv

(* A step after which no more threads are about to consume the counter,    *)
(* and the counter is where it was.                                        *)
LEMMA AheadKept ==
  ASSUME TypeInv, AheadInv, UNCHANGED scenario, Counter(Sink)' = Counter(Sink),
         Consuming' \subseteq Consuming,
         \A v \in Verifier : verifying'[v] # None => v \in scenario.threads,
         UNCHANGED sent \/ \E pdu : sent' = Append(sent, pdu)
  PROVE  AheadInv'
<1>1. PICK s \in Nat :
        /\ Counter(Sink) = CounterAfter[s]
        /\ s + Cardinality(Consuming) < Len(sent) + Cardinality(scenario.threads)
  BY DEF AheadInv
<1>2. /\ Cardinality(Consuming') \in Nat /\ Cardinality(Consuming) \in Nat
      /\ Cardinality(Consuming') <= Cardinality(Consuming)
  BY ConsumingIsFinite, FS_Subset, FS_CardinalityType
<1>3. Len(sent) \in Nat /\ Len(sent') \in Nat /\ Len(sent) <= Len(sent')
  <2>1. PICK S : sent \in Seq(S)
    BY DEF TypeInv, PduInv
  <2> QED BY <2>1
<1>4. Cardinality(scenario.threads) \in Nat
  BY ThreadsAreSome
<1>5. s + Cardinality(Consuming') < Len(sent') + Cardinality(scenario.threads)
  BY <1>1, <1>2, <1>3, <1>4
<1> QED BY <1>1, <1>5 DEF AheadInv

(* A thread that finds the counter to match finds it one before a PDU's.   *)
LEMMA AheadGetRxFv ==
  ASSUME TypeInv, SuccessiveInv, AheadInv, NEW v \in scenario.threads, v \in Verifier,
         NEW pdu \in DOMAIN sent, NEW attempt, getRxFv(v, pdu, attempt)
  PROVE  AheadInv'
<1>1. UNCHANGED <<scenario, mAttrMgr, sent>>
  BY DEF getRxFv, fvmVars
<1>2. PICK at, freshness :
        /\ verifying' = [verifying EXCEPT ![v] =
             [pdu |-> pdu, attempt |-> attempt, at |-> at, freshness |-> freshness,
              first |-> FALSE]]
        /\ at = "matched" => CounterMatches(pdu)
  BY DEF getRxFv, Begin
<1>3. /\ verifying'[v].at = at
      /\ \A w \in Verifier : w # v => verifying'[w] = verifying[w]
  BY <1>2 DEF TypeInv
<1>4. \A w \in Verifier : verifying'[w] # None => w \in scenario.threads
  BY <1>3 DEF AheadInv
<1>5. Counter(Sink)' = Counter(Sink)
  BY <1>1 DEF Counter
<1>6. CASE at # "matched"
  <2>1. Consuming' \subseteq Consuming
    BY <1>3, <1>6 DEF Consuming
  <2> QED BY <1>1, <1>4, <1>5, <2>1, AheadKept
<1>7. CASE at = "matched"
  <2>1. PICK k \in Nat : k = pdu /\ 1 <= k /\ k <= Len(sent)
    BY DEF TypeInv, PduInv
  <2>2. sent[pdu].counter = CounterAfter[k]
    BY <2>1, SentCounterOfPdu
  <2>3. sent[pdu].counter = incrementByteArray(Counter(Sink))
    BY <1>2, <1>7 DEF CounterMatches, GetNextSessionCounter, Counter
  <2>4. /\ k - 1 \in Nat /\ CounterAfter[k - 1] \in SessionCounter
        /\ CounterAfter[k] = incrementByteArray(CounterAfter[k - 1])
    <3>1. k - 1 \in Nat /\ (k - 1) + 1 = k
      BY <2>1
    <3> QED BY <3>1, CounterAfterSteps DEF CounterSteps
  <2>5. Counter(Sink) \in SessionCounter
    BY DEF TypeInv, AttributeInv, Attribute, Counter, Ecu
  <2>6. Counter(Sink) = CounterAfter[k - 1]
    BY <2>2, <2>3, <2>4, <2>5, IncrementInjective
  <2>7. Consuming' \subseteq scenario.threads
    BY <1>4 DEF Consuming
  <2>8. /\ Cardinality(Consuming') \in Nat /\ Cardinality(scenario.threads) \in Nat
        /\ Cardinality(Consuming') <= Cardinality(scenario.threads)
    BY <2>7, ThreadsAreSome, FS_Subset, FS_CardinalityType
  <2>9. Len(sent) \in Nat
    BY DEF TypeInv, PduInv
  <2>10. (k - 1) + Cardinality(Consuming') < Len(sent) + Cardinality(scenario.threads)
    BY <2>1, <2>8, <2>9
  <2> QED BY <1>1, <1>4, <1>5, <2>4, <2>6, <2>10 DEF AheadInv
<1> QED BY <1>6, <1>7

(* A thread that consumes the counter takes its place among those ahead.   *)
LEMMA AheadConsumeCounter ==
  ASSUME TypeInv, AheadInv, NEW v \in Verifier, verifying[v] # None, consumeCounter(v)
  PROVE  AheadInv'
<1>1. /\ UNCHANGED <<scenario, sent>>
      /\ mAttrMgr' = [mAttrMgr EXCEPT ![Sink] = IncSessionCounter(mAttrMgr[Sink])]
      /\ verifying[v].at = "matched"
      /\ \E at \in {"refused", "checked"} :
           verifying' = [verifying EXCEPT ![v].at = at]
  BY DEF consumeCounter, Goto, fvmVars
<1>2. PICK s \in Nat :
        /\ Counter(Sink) = CounterAfter[s]
        /\ s + Cardinality(Consuming) < Len(sent) + Cardinality(scenario.threads)
  BY DEF AheadInv
<1>3. Counter(Sink)' = CounterAfter[s + 1]
  <2>1. mAttrMgr \in [Ecu -> Attribute] /\ Sink \in Ecu /\ HasCounter(mAttrMgr[Sink])
    BY DEF TypeInv, AttributeInv, Attribute, HasCounter, Ecu
  <2>2. Counter(Sink)' = IncSessionCounter(mAttrMgr[Sink]).sessionCounterLastUsed
    BY <1>1, <2>1 DEF Counter
  <2>3. Counter(Sink)' = incrementByteArray(Counter(Sink))
    BY <2>1, <2>2, IncrementSetsCounter DEF Counter
  <2> QED BY <1>2, <2>3, CounterAfterSteps DEF CounterSteps
<1>4. verifying[v] \in Session /\ v \in Consuming
  BY <1>1 DEF TypeInv, Consuming
<1>5. /\ verifying'[v].at # "matched"
      /\ \A w \in Verifier : w # v => verifying'[w] = verifying[w]
  BY <1>1, <1>4 DEF TypeInv, Session
<1>6. Consuming' = Consuming \ {v}
  BY <1>5 DEF Consuming
<1>7. /\ Cardinality(Consuming) \in Nat /\ Cardinality(Consuming') \in Nat
      /\ Cardinality(Consuming') = Cardinality(Consuming) - 1
  BY <1>4, <1>6, ConsumingIsFinite, FS_RemoveElement, FS_CardinalityType
<1>8. Len(sent) \in Nat /\ Cardinality(scenario.threads) \in Nat
  BY ThreadsAreSome DEF TypeInv, PduInv
<1>9. (s + 1) + Cardinality(Consuming') < Len(sent) + Cardinality(scenario.threads)
  BY <1>2, <1>7, <1>8
<1>10. \A w \in Verifier : verifying'[w] # None => w \in scenario.threads
  BY <1>4, <1>5 DEF AheadInv, Consuming
<1> QED BY <1>1, <1>3, <1>9, <1>10 DEF AheadInv

LEMMA AheadVerified ==
  ASSUME TypeInv, AheadInv, NEW v \in Verifier, v \in scenario.threads,
         verifying[v] # None,
         activate(v) \/ buildCandidates(v) \/ refuseOldActivity(v)
           \/ readUnbuilt(v) \/ VerificationStatusCallout(v)
  PROVE  AheadInv'
<1>1. UNCHANGED <<scenario, sent>>
  BY DEF activate, buildCandidates, refuseOldActivity, readUnbuilt,
         VerificationStatusCallout, fvmVars
<1>2. Counter(Sink)' = Counter(Sink)
  <2>1. mAttrMgr \in [Ecu -> Attribute] /\ Sink \in Ecu /\ HasCounter(mAttrMgr[Sink])
    BY DEF TypeInv, AttributeInv, Attribute, HasCounter, Ecu
  <2> QED BY <2>1, SinkCounterKept DEF Counter
<1>3. verifying \in [Verifier -> Session \cup {None}] /\ verifying[v] \in Session
  BY DEF TypeInv
<1>4. /\ \A w \in Verifier : w # v => verifying'[w] = verifying[w]
      /\ \/ verifying'[v] = verifying[v]
         \/ verifying'[v] = None
         \/ verifying'[v].at # "matched"
  <2>1. CASE activate(v)
    BY <1>3, <2>1 DEF activate, offerCandidates, Session
  <2>2. CASE buildCandidates(v)
    BY <1>3, <2>2 DEF buildCandidates, offerCandidates, Session
  <2>3. CASE readUnbuilt(v)
    BY <1>3, <2>3 DEF readUnbuilt, offerCandidates, Session
  <2>4. CASE refuseOldActivity(v)
    BY <1>3, <2>4 DEF refuseOldActivity, Goto, Session
  <2>5. CASE VerificationStatusCallout(v)
    BY <1>3, <2>5 DEF VerificationStatusCallout, Retry, Session
  <2> QED BY <2>1, <2>2, <2>3, <2>4, <2>5
<1>5. Consuming' \subseteq Consuming
  BY <1>4 DEF Consuming
<1>6. \A w \in Verifier : verifying'[w] # None => w \in scenario.threads
  BY <1>4 DEF AheadInv
<1> QED BY <1>1, <1>2, <1>5, <1>6, AheadKept

LEMMA StepAheadInv == TypeInv /\ SuccessiveInv /\ AheadInv /\ [Next]_vars => AheadInv'
<1> SUFFICES ASSUME TypeInv, SuccessiveInv, AheadInv, [Next]_vars PROVE AheadInv'
  OBVIOUS
<1>0. /\ mAttrMgr \in [Ecu -> Attribute] /\ Sink \in Ecu /\ Source \in Ecu
      /\ Sink # Source
  BY DEF TypeInv, AttributeInv, Ecu, Sink, Source
<1>1. CASE MainLoops \/ Sign \/ UNCHANGED vars
  <2>1. UNCHANGED <<scenario, verifying>>
    BY <1>1 DEF MainLoops, incTimers, synchronise, loseSynchronisation, Sign, getTxFv,
                SPduTxConfirmation, vars, fvmVars
  <2>2. UNCHANGED sent \/ \E pdu : sent' = Append(sent, pdu)
    BY <1>1 DEF MainLoops, incTimers, synchronise, loseSynchronisation, Sign, getTxFv,
                SPduTxConfirmation, vars
  <2>3. UNCHANGED mAttrMgr \/ \E attr : mAttrMgr' = [mAttrMgr EXCEPT ![Source] = attr]
    BY <1>1 DEF MainLoops, incTimers, synchronise, loseSynchronisation, Sign, getTxFv,
                SPduTxConfirmation, vars
  <2>4. Counter(Sink)' = Counter(Sink)
    BY <1>0, <2>3 DEF Counter
  <2>5. /\ Consuming' \subseteq Consuming
        /\ \A v \in Verifier : verifying'[v] # None => v \in scenario.threads
    BY <2>1 DEF Consuming, AheadInv
  <2> QED BY <2>1, <2>2, <2>4, <2>5, AheadKept
<1>2. ASSUME NEW v \in Verifier, Verify(v) PROVE AheadInv'
  <2>1. v \in scenario.threads
    BY <1>2 DEF Verify
  <2>2. CASE verifying[v] = None
    BY <1>2, <2>1, <2>2, AheadGetRxFv DEF Verify
  <2>3. CASE verifying[v] # None
    <3>1. verifying[v].pdu \in DOMAIN sent
      BY <2>3 DEF TypeInv, Session
    <3> QED
      BY <1>2, <2>1, <2>3, <3>1, AheadGetRxFv, AheadConsumeCounter, AheadVerified
      DEF Verify, VerifyStep
  <2> QED BY <2>2, <2>3
<1> QED BY <1>1, <1>2 DEF Next

(***************************************************************************)
(* However many threads verify PDUs of one ID at once, whatever the medium *)
(* repeats and whatever fails after the counter was consumed: the sink's   *)
(* counter is ahead of the PDUs sent by fewer steps than there are         *)
(* threads; with one thread, by none.                                      *)
(***************************************************************************)
THEOREM SinkCounterNeverAhead == Spec => []CounterNeverAhead
<1>1. TypeInv /\ AheadInv => CounterNeverAhead
  <2> SUFFICES ASSUME TypeInv, AheadInv PROVE CounterNeverAhead  OBVIOUS
  <2>1. PICK round \in Nat \ {0} : round = ByteShift[SessionCounterLength]
    BY ByteShifts, CounterAssumption
  <2>2. PICK s \in Nat :
          /\ Counter(Sink) = CounterAfter[s]
          /\ s + Cardinality(Consuming) < Len(sent) + Cardinality(scenario.threads)
    BY DEF AheadInv
  <2>3. s \in 0..(Len(sent) + Cardinality(scenario.threads) - 1)
    BY <2>2, ConsumingIsFinite, ThreadsAreSome DEF TypeInv, PduInv
  <2>4. s % round \in 0..round /\ (s % round) % round = s % round
    BY <2>1
  <2>5. CounterAfter[s % round] = CounterAfter[s]
    <3>1. s % round \in Nat
      BY <2>4
    <3> QED BY <2>1, <2>4, <3>1, RoundsApart
  <2>6. CounterRound[(s % round) + 1] = CounterAfter[s % round]
    BY <2>1, <2>4, RoundOfCounters
  <2> QED BY <2>1, <2>2, <2>3, <2>5, <2>6 DEF CounterNeverAhead, Counter
<1> QED
  BY <1>1, InitTypeInv, StepTypeInv, InitSuccessive, StepSuccessive, InitAheadInv,
     StepAheadInv, PTL DEF Spec

-----------------------------------------------------------------------------
(* Acceptance in order, where success is reported come what may.  The sink *)
(* has got as far as PDU k, whose counter it has consumed: it has accepted *)
(* none after k, and k itself only if it is not being verified any more.   *)

SinkIsAt(k) ==
  /\ Counter(Sink) = CounterOf(k)
  /\ accepted \subseteq 1..k

VerifiesAt(k) ==
  \A v \in Verifier :
    /\ mFvRxCandidates # None => verifying[v] # None /\ verifying[v].at = "verify"
    /\ verifying[v] # None /\ verifying[v].at \in {"checked", "noDefault", "verify"} =>
         verifying[v].pdu = k /\ k \notin accepted

OrderInv ==
  scenario.alwaysSuccess => \E k \in 0..Len(sent) : SinkIsAt(k) /\ VerifiesAt(k)

LEMMA InitOrderInv == Init => OrderInv
<1> SUFFICES ASSUME Init PROVE OrderInv  OBVIOUS
<1>1. Len(sent) = 0 /\ mAttrMgr[Sink] = InitAttributes
  BY DEF Init, Ecu
<1>2. SinkIsAt(0) /\ VerifiesAt(0)
  BY <1>1 DEF Init, SinkIsAt, VerifiesAt, CounterOf, Counter
<1> QED BY <1>1, <1>2 DEF OrderInv

(* More PDUs sent leave the counters of the earlier ones as they are. *)
LEMMA SentGrows ==
  ASSUME TypeInv, UNCHANGED sent \/ \E pdu : sent' = Append(sent, pdu)
  PROVE  /\ 0..Len(sent) \subseteq 0..Len(sent')
         /\ \A k \in 0..Len(sent) : CounterOf(k)' = CounterOf(k)
<1> DEFINE Pdu == [fv : Nat, counter : SessionCounter]
<1>1. sent \in Seq(Pdu)
  BY DEF TypeInv, PduInv
<1> HIDE DEF Pdu
<1>2. /\ Len(sent) \in Nat /\ Len(sent') \in {Len(sent), Len(sent) + 1}
      /\ \A k \in 1..Len(sent) : sent'[k] = sent[k]
  BY <1>1
<1> QED BY <1>2 DEF CounterOf

LEMMA OrderKept ==
  ASSUME TypeInv, OrderInv,
         UNCHANGED <<scenario, mFvRxCandidates, verifying, accepted>>,
         Counter(Sink)' = Counter(Sink),
         UNCHANGED sent \/ \E pdu : sent' = Append(sent, pdu)
  PROVE  OrderInv'
<1> SUFFICES ASSUME scenario.alwaysSuccess
             PROVE  \E k \in 0..Len(sent') : SinkIsAt(k)' /\ VerifiesAt(k)'
  BY DEF OrderInv
<1>1. PICK k \in 0..Len(sent) : SinkIsAt(k) /\ VerifiesAt(k)
  BY DEF OrderInv
<1>2. SinkIsAt(k)' /\ VerifiesAt(k)'
  BY <1>1, SentGrows DEF SinkIsAt, VerifiesAt
<1> QED BY <1>2, SentGrows

(* A step of the only verification. *)
LEMMA OrderMoves ==
  ASSUME TypeInv, NEW v \in Verifier, Verifier = {v}, UNCHANGED sent,
         NEW k \in 0..Len(sent), SinkIsAt(k)',
         mFvRxCandidates' # None => verifying'[v] # None /\ verifying'[v].at = "verify",
         verifying'[v] # None /\ verifying'[v].at \in {"checked", "noDefault", "verify"} =>
           verifying'[v].pdu = k /\ k \notin accepted'
  PROVE  OrderInv'
<1>1. VerifiesAt(k)'
  BY DEF VerifiesAt
<1> QED BY <1>1 DEF OrderInv

LEMMA OrderGetRxFv ==
  ASSUME TypeInv, OrderInv, NEW v \in Verifier, Verifier = {v},
         NEW pdu, NEW attempt, getRxFv(v, pdu, attempt),
         verifying[v] = None \/ verifying[v].at = "retry"
  PROVE  OrderInv'
<1> SUFFICES ASSUME scenario.alwaysSuccess PROVE OrderInv'
  BY DEF getRxFv, fvmVars, OrderInv
<1>1. UNCHANGED <<mAttrMgr, mFvRxCandidates, sent, accepted>>
  BY DEF getRxFv
<1>2. PICK k \in 0..Len(sent) : SinkIsAt(k) /\ VerifiesAt(k)
  BY DEF OrderInv
<1>3. mFvRxCandidates = None
  BY <1>2 DEF VerifiesAt
<1>4. verifying'[v].at \in {"matched", "refused"}
  BY <1>3 DEF getRxFv, Begin, TypeInv
<1>5. SinkIsAt(k)'
  BY <1>1, <1>2 DEF SinkIsAt, Counter, CounterOf
<1> QED BY <1>1, <1>3, <1>4, <1>5, OrderMoves

LEMMA OrderConsumeCounter ==
  ASSUME TypeInv, CounterInv, SuccessiveInv, BeforeRoundEnds, OrderInv,
         NEW v \in Verifier, Verifier = {v}, verifying[v] # None, consumeCounter(v)
  PROVE  OrderInv'
<1> SUFFICES ASSUME scenario.alwaysSuccess PROVE OrderInv'
  BY DEF consumeCounter, fvmVars, OrderInv
<1>1. /\ UNCHANGED <<mFvRxCandidates, sent, accepted>>
      /\ mAttrMgr' = [mAttrMgr EXCEPT ![Sink] = IncSessionCounter(mAttrMgr[Sink])]
      /\ verifying[v].at = "matched"
  BY DEF consumeCounter
<1>2. PICK k \in 0..Len(sent) : SinkIsAt(k) /\ VerifiesAt(k)
  BY DEF OrderInv
<1>3. PICK pdu : pdu = verifying[v].pdu
  OBVIOUS
<1>4. pdu \in DOMAIN sent /\ sent[pdu].counter = incrementByteArray(Counter(Sink))
  BY <1>1, <1>3 DEF CounterInv, StillMatches
<1>5. pdu = k + 1
  BY <1>2, <1>4, NextCounterIsNext DEF SinkIsAt
<1>6. Counter(Sink)' = incrementByteArray(Counter(Sink))
  <2>1. mAttrMgr \in [Ecu -> Attribute] /\ Sink \in Ecu /\ HasCounter(mAttrMgr[Sink])
    BY DEF TypeInv, AttributeInv, Attribute, HasCounter, Ecu
  <2>2. Counter(Sink)' = IncSessionCounter(mAttrMgr[Sink]).sessionCounterLastUsed
    BY <1>1, <2>1 DEF Counter
  <2> QED BY <2>1, <2>2, IncrementSetsCounter DEF Counter
<1>7. Len(sent) \in Nat /\ pdu \in 1..Len(sent) /\ pdu # 0
  BY <1>4 DEF TypeInv, PduInv
<1>8. SinkIsAt(pdu)' /\ pdu \notin accepted'
  BY <1>1, <1>2, <1>4, <1>5, <1>6, <1>7 DEF SinkIsAt, CounterOf
<1>9. mFvRxCandidates' = None
  BY <1>1, <1>2 DEF VerifiesAt
<1>10. verifying'[v].pdu = pdu
  BY <1>3 DEF consumeCounter, Goto, TypeInv, Session
<1>11. pdu \in 0..Len(sent)
  BY <1>7
<1> QED BY <1>1, <1>8, <1>9, <1>10, <1>11, OrderMoves

LEMMA OrderBuild ==
  ASSUME TypeInv, TypeInv', OrderInv, NEW v \in Verifier, Verifier = {v}, verifying[v] # None,
         activate(v) \/ buildCandidates(v) \/ refuseOldActivity(v) \/ readUnbuilt(v)
  PROVE  OrderInv'
<1> SUFFICES ASSUME scenario.alwaysSuccess PROVE OrderInv'
  BY DEF activate, buildCandidates, refuseOldActivity, readUnbuilt, fvmVars, OrderInv
<1>1. UNCHANGED <<sent, accepted>> /\ verifying[v].at \in {"checked", "noDefault"}
  BY DEF activate, buildCandidates, refuseOldActivity, readUnbuilt
<1>2. PICK k \in 0..Len(sent) : SinkIsAt(k) /\ VerifiesAt(k)
  BY DEF OrderInv
<1>3. /\ mFvRxCandidates = None
      /\ verifying[v].pdu = k /\ k \notin accepted /\ verifying[v] \in Session
  BY <1>1, <1>2 DEF VerifiesAt, TypeInv
<1>4. Counter(Sink)' = Counter(Sink)
  <2>1. mAttrMgr \in [Ecu -> Attribute] /\ Sink \in Ecu /\ HasCounter(mAttrMgr[Sink])
    BY DEF TypeInv, AttributeInv, Attribute, HasCounter, Ecu
  <2> QED BY <2>1, SinkCounterKept DEF Counter
<1>5. SinkIsAt(k)'
  BY <1>1, <1>2, <1>4 DEF SinkIsAt, CounterOf
<1>6. /\ verifying'[v].pdu = k
      /\ \/ UNCHANGED mFvRxCandidates
         \/ verifying'[v] = [verifying[v] EXCEPT !.at = "verify",
                                                !.freshness = mFvRxCandidates'[1]]
  <2>1. CASE activate(v)
    <3>1. CASE ~mIsFvValid[Sink] /\ WithinValidTimeout(Sink)
      <4>1. PICK attr : offerCandidates(v, <<UpstartTime>>, attr)
        BY <2>1, <3>1 DEF activate
      <4> QED BY <1>3, <4>1 DEF offerCandidates, TypeInv, Session
    <3>2. CASE ~(~mIsFvValid[Sink] /\ WithinValidTimeout(Sink))
      BY <1>3, <2>1, <3>2 DEF activate, TypeInv, Session
    <3> QED BY <3>1, <3>2
  <2>2. CASE buildCandidates(v)
    BY <1>3, <2>2 DEF buildCandidates, offerCandidates, TypeInv, Session
  <2>3. CASE refuseOldActivity(v)
    BY <1>3, <2>3 DEF refuseOldActivity, Goto, TypeInv, Session
  <2>4. CASE readUnbuilt(v)
    BY <1>3, <2>4 DEF readUnbuilt
  <2> QED BY <2>1, <2>2, <2>3, <2>4
<1>7. ASSUME mFvRxCandidates' # None
      PROVE  verifying'[v] # None /\ verifying'[v].at = "verify"
  <2>1. mFvRxCandidates'[1] \in Int
    BY <1>7 DEF TypeInv, CandidateInv
  <2>2. verifying'[v] = [verifying[v] EXCEPT !.at = "verify",
                                            !.freshness = mFvRxCandidates'[1]]
    BY <1>3, <1>6, <1>7
  <2>3. verifying'[v] \in Session /\ verifying'[v].at = "verify"
    BY <1>3, <2>1, <2>2 DEF Session, VerifyPoint
  <2> QED BY <2>3, SessionIsNotNone
<1> QED BY <1>1, <1>3, <1>5, <1>6, <1>7, OrderMoves

LEMMA OrderCallout ==
  ASSUME TypeInv, OrderInv, NEW v \in Verifier, Verifier = {v}, verifying[v] # None,
         VerificationStatusCallout(v)
  PROVE  OrderInv'
<1> SUFFICES ASSUME scenario.alwaysSuccess PROVE OrderInv'
  BY DEF VerificationStatusCallout, fvmVars, OrderInv
<1>1. UNCHANGED sent /\ mFvRxCandidates' = None
  BY DEF VerificationStatusCallout, updateVerificationStatusAuthBroadcast
<1>2. PICK k \in 0..Len(sent) : SinkIsAt(k) /\ VerifiesAt(k)
  BY DEF OrderInv
<1>3. Counter(Sink)' = Counter(Sink)
  <2>1. mAttrMgr \in [Ecu -> Attribute] /\ Sink \in Ecu /\ HasCounter(mAttrMgr[Sink])
    BY DEF TypeInv, AttributeInv, Attribute, HasCounter, Ecu
  <2> QED BY <2>1, SinkCounterKept DEF Counter
<1>4. accepted' \subseteq 1..k
  <2>1. CASE Verified(v)
    <3>1. verifying[v].pdu = k /\ k \in DOMAIN sent
      BY <1>2, <2>1 DEF Verified, VerifiesAt, TypeInv, Session
    <3>2. k \in 1..k
      BY <3>1 DEF TypeInv, PduInv
    <3> QED BY <1>2, <2>1, <3>1, <3>2 DEF VerificationStatusCallout, SinkIsAt
  <2>2. CASE ~Verified(v)
    BY <1>2, <2>2 DEF VerificationStatusCallout, SinkIsAt
  <2> QED BY <2>1, <2>2
<1>5. SinkIsAt(k)'
  BY <1>1, <1>2, <1>3, <1>4 DEF SinkIsAt, CounterOf
<1>6. verifying'[v] = None \/ verifying'[v].at = "retry"
  <2>1. CASE ~Verified(v) /\ RetryLeft(v)
    <3>1. verifying'[v] = Retry(verifying[v]) /\ verifying[v] \in Session
      BY <2>1 DEF VerificationStatusCallout, TypeInv
    <3> QED BY <3>1 DEF Retry, Session
  <2>2. CASE ~(~Verified(v) /\ RetryLeft(v))
    BY <2>2 DEF VerificationStatusCallout, TypeInv
  <2> QED BY <2>1, <2>2
<1> QED BY <1>1, <1>5, <1>6, OrderMoves

LEMMA StepOrderInv ==
  ASSUME NEW theVerifier, Verifier = {theVerifier}
  PROVE  TypeInv /\ TypeInv' /\ CounterInv /\ SuccessiveInv /\ BeforeRoundEnds /\ OrderInv
           /\ [Next]_vars => OrderInv'
<1> SUFFICES ASSUME TypeInv, TypeInv', CounterInv, SuccessiveInv, BeforeRoundEnds, OrderInv,
                    [Next]_vars
             PROVE  OrderInv'
  OBVIOUS
<1>0. /\ mAttrMgr \in [Ecu -> Attribute] /\ Sink \in Ecu /\ Source \in Ecu
      /\ Sink # Source
  BY DEF TypeInv, AttributeInv, Ecu, Sink, Source
<1>1. CASE MainLoops \/ Sign \/ UNCHANGED vars
  <2>1. UNCHANGED <<scenario, mFvRxCandidates, verifying, accepted>>
    BY <1>1 DEF MainLoops, incTimers, synchronise, loseSynchronisation, Sign, getTxFv,
                SPduTxConfirmation, vars, fvmVars
  <2>2. UNCHANGED sent \/ \E pdu : sent' = Append(sent, pdu)
    BY <1>1 DEF MainLoops, incTimers, synchronise, loseSynchronisation, Sign, getTxFv,
                SPduTxConfirmation, vars
  <2>3. UNCHANGED mAttrMgr \/ \E attr : mAttrMgr' = [mAttrMgr EXCEPT ![Source] = attr]
    BY <1>1 DEF MainLoops, incTimers, synchronise, loseSynchronisation, Sign, getTxFv,
                SPduTxConfirmation, vars
  <2>4. Counter(Sink)' = Counter(Sink)
    BY <1>0, <2>3 DEF Counter
  <2> QED BY <2>1, <2>2, <2>4, OrderKept
<1>2. ASSUME NEW v \in Verifier, Verify(v) PROVE OrderInv'
  <2>1. Verifier = {v}
    OBVIOUS
  <2>2. CASE verifying[v] = None
    BY <1>2, <2>1, <2>2, OrderGetRxFv DEF Verify
  <2>3. CASE verifying[v] # None
    BY <1>2, <2>1, <2>3, OrderGetRxFv, OrderConsumeCounter, OrderBuild, OrderCallout
    DEF Verify, VerifyStep
  <2> QED BY <2>2, <2>3
<1> QED BY <1>1, <1>2 DEF Next

LEMMA AcceptedInOrderStep ==
  ASSUME TypeInv, OrderInv, [Next]_vars, NEW v \in Verifier,
         scenario.alwaysSuccess, Accepts(v)
  PROVE  \A i \in accepted : i < verifying[v].pdu
<1>1. PICK k \in 0..Len(sent) : SinkIsAt(k) /\ VerifiesAt(k)
  BY DEF OrderInv
<1>2. verifying[v] # None /\ verifying[v].at = "verify"
  BY DEF Accepts, Verified
<1>3. verifying[v].pdu = k /\ k \notin accepted
  BY <1>1, <1>2 DEF VerifiesAt
<1>4. k \in Nat
  BY DEF TypeInv, PduInv
<1>5. ASSUME NEW i \in accepted PROVE i < k
  BY <1>1, <1>3, <1>4, <1>5 DEF SinkIsAt
<1> QED BY <1>3, <1>5

(***************************************************************************)
(* Two PDUs are sent with the same counter if and only if they are whole   *)
(* rounds of 256^n PDUs apart, n being the bytes of the counter:           *)
(* incrementByteArray wastes none of the values, and repeats none early.   *)
(***************************************************************************)
THEOREM CountersApart ==
  Spec => []( \A i, j \in DOMAIN sent :
                sent[i].counter = sent[j].counter
                  <=> i % ByteShift[SessionCounterLength]
                        = j % ByteShift[SessionCounterLength] )
<1> DEFINE Distinct == \A i, j \in DOMAIN sent :
                sent[i].counter = sent[j].counter
                  <=> i % ByteShift[SessionCounterLength]
                        = j % ByteShift[SessionCounterLength]
<1>1. TypeInv /\ SuccessiveInv => Distinct
  <2> SUFFICES ASSUME TypeInv, SuccessiveInv, NEW i \in DOMAIN sent, NEW j \in DOMAIN sent
               PROVE  sent[i].counter = sent[j].counter
                        <=> i % ByteShift[SessionCounterLength]
                              = j % ByteShift[SessionCounterLength]
    OBVIOUS
  <2>1. PICK a, b \in Nat : a = i /\ b = j
    BY DEF TypeInv, PduInv
  <2>2. sent[i].counter = CounterAfter[a] /\ sent[j].counter = CounterAfter[b]
    BY <2>1, SentCounterOfPdu
  <2> QED BY <2>1, <2>2, RoundsApart
<1> HIDE DEF Distinct
<1>2. Spec => []Distinct
  BY <1>1, InitTypeInv, StepTypeInv, InitSuccessive, StepSuccessive, PTL DEF Spec
<1> QED BY <1>2 DEF Distinct

(***************************************************************************)
(* Compared with the whole round of values that incrementByteArray runs    *)
(* through, each PDU has the counter of its own place in the round, and of *)
(* no other place, whatever the length of the counter.                     *)
(***************************************************************************)
THEOREM CountersGoRound == Spec => []NoEarlyRepetition
<1>1. TypeInv /\ SuccessiveInv => NoEarlyRepetition
  <2>1. PICK round \in Nat \ {0} : round = ByteShift[SessionCounterLength]
    BY ByteShifts, CounterAssumption
  <2> SUFFICES ASSUME TypeInv, SuccessiveInv, NEW i \in DOMAIN sent, NEW n \in 1..round,
                      CounterRound[n + 1] = sent[i].counter
               PROVE  n % round = i % round
    BY <2>1 DEF NoEarlyRepetition
  <2>2. PICK a \in Nat : a = i
    BY DEF TypeInv, PduInv
  <2>3. sent[i].counter = CounterAfter[a]
    BY <2>2, SentCounterOfPdu
  <2>4. CounterRound[n + 1] = CounterAfter[n]
    BY <2>1, RoundOfCounters
  <2> QED BY <2>1, <2>2, <2>3, <2>4, RoundsApart
<1> QED
  BY <1>1, InitTypeInv, StepTypeInv, InitSuccessive, StepSuccessive, PTL DEF Spec

(***************************************************************************)
(* If one thread verifies the PDUs of the ID, if success is reported come  *)
(* what may, and until the counter has gone round, PDUs are accepted in    *)
(* the order in which they were sent and each at most once, whichever of   *)
(* them the medium loses, delays or repeats.  The first assumption is one  *)
(* on the user of SecOC, which the sample does not meet.                   *)
(***************************************************************************)
THEOREM AcceptanceInOrder ==
  ASSUME NEW theVerifier, Verifier = {theVerifier}
  PROVE  Spec /\ []BeforeRoundEnds => AcceptedInOrderOneByOne
<1>1. CounterInv /\ [Next]_vars => CounterInv'
  BY StepCounterInv
<1>2. TypeInv /\ TypeInv' /\ CounterInv /\ SuccessiveInv /\ BeforeRoundEnds /\ OrderInv
        /\ [Next]_vars => OrderInv'
  BY StepOrderInv
<1>3. TypeInv /\ OrderInv /\ [Next]_vars =>
        [\A v \in Verifier : OneByOne /\ scenario.alwaysSuccess /\ Accepts(v) =>
           \A i \in accepted : i < verifying[v].pdu]_vars
  BY AcceptedInOrderStep
<1> QED
  BY <1>1, <1>2, <1>3, InitTypeInv, StepTypeInv, InitCounterInv, InitSuccessive,
     StepSuccessive, InitOrderInv, PTL
  DEF Spec, AcceptedInOrderOneByOne
=============================================================================
