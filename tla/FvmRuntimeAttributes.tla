------------------------ MODULE FvmRuntimeAttributes ------------------------
(***************************************************************************)
(* What FvmRuntimeAttributesManager keeps for one freshness value ID, and  *)
(* its operations, as operators on that record.  Times and freshness       *)
(* values are numbers; an event is named by the field that records it.     *)
(***************************************************************************)
EXTENDS SokUtilities

CONSTANT SessionCounterLength  \* bytes of the session counter, 0: no counter

ASSUME CounterAssumption == SessionCounterLength \in Nat

(* Most significant byte first. *)
SessionCounter == [1..SessionCounterLength -> Byte]

InitAttributes ==
  [ valueIsActive |-> FALSE,
    firstUsed |-> 0,
    lastRequestedForVerification |-> 0,
    latestVerifiedTime |-> 0,
    lastRequestedForSigning |-> 0,
    latestSignedTime |-> 0,
    sessionCounterLastUsed |-> [i \in 1..SessionCounterLength |-> 0] ]

SetActive(attr, activationTime) ==
  IF attr.valueIsActive THEN attr
  ELSE [attr EXCEPT !.valueIsActive = TRUE, !.firstUsed = activationTime]

UpdateEvent(attr, event, value) == [attr EXCEPT ![event] = value]

GetEvent(attr, event) == attr[event]

WrongIncrementWithoutCarry(vec) ==
  [i \in DOMAIN vec |->
     IF i = SessionCounterLength THEN (vec[i] + 1) % ByteModulus ELSE vec[i]]

(* The loop goes on to the next byte if the byte WAS zero before ++. *)
incrementByteArray(vec) ==
  [i \in DOMAIN vec |->
     IF \A j \in DOMAIN vec : j > i => vec[j] = 0
       THEN (vec[i] + 1) % ByteModulus ELSE vec[i]]

IncSessionCounter(attr) ==
  [attr EXCEPT !.sessionCounterLastUsed = incrementByteArray(@)]

GetSessionCounter(attr) == attr.sessionCounterLastUsed

GetNextSessionCounter(attr) == incrementByteArray(attr.sessionCounterLastUsed)
=============================================================================
