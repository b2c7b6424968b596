-------------------------- MODULE SignalManagerSci --------------------------
(***************************************************************************)
(* The FVM's signal manager on top of the SCI library (external): signals  *)
(* live on PDUs, PDUs in frames, and each is created when it is first      *)
(* needed, in either direction.  Frames and PDUs are kept in caches and    *)
(* used again; any creation may fail, and what was created before that     *)
(* stays.  A subscription or publication names the step that fails, or     *)
(* "none".                                                                 *)
(***************************************************************************)
EXTENDS SokUtilities

VARIABLES
  mSignalClient,         \* whether the constructor got an SCI client
  mFramesCache,          \* per direction: the interface by name of the frame
  mPdusCache,            \* per direction: the frame by name of the PDU
  mOutSignals,           \* names of the signals published so far
  mSignalEventHandlers,  \* how many handlers each signal name has
  activated              \* SCI: how often PDUs of a name were activated

signalVars == <<mSignalClient, mFramesCache, mPdusCache, mOutSignals,
                mSignalEventHandlers, activated>>

Direction == {"incoming", "outgoing"}

Failure == {"none", "frame", "pdu", "activate", "signal", "last"}

Nothing == [name \in {} |-> 0]

Count(counts, name) ==
  [n \in DOMAIN counts \cup {name} |->
     IF n \notin DOMAIN counts THEN 1
     ELSE IF n = name THEN counts[n] + 1 ELSE counts[n]]

Stored(map, key, value) ==
  [k \in DOMAIN map \cup {key} |-> IF k = key THEN value ELSE map[k]]

SignalInit ==
  /\ mSignalClient \in BOOLEAN
  /\ mFramesCache = [d \in Direction |-> Nothing]
  /\ mPdusCache = [d \in Direction |-> Nothing]
  /\ mOutSignals = {}
  /\ mSignalEventHandlers = Nothing
  /\ activated = [d \in Direction |-> Nothing]

FrameName(signalConfig) == signalConfig.pduConfig.frameConfig.name

PduName(signalConfig) == signalConfig.pduConfig.name

FrameCached(d, signalConfig) == FrameName(signalConfig) \in DOMAIN mFramesCache[d]

(* The PDU cache is consulted only if the frame has been cached before. *)
PduCached(d, signalConfig) ==
  FrameCached(d, signalConfig) /\ PduName(signalConfig) \in DOMAIN mPdusCache[d]

(* Which step can fail depends on what need not be created any more. *)
Possible(d, signalConfig, failure) ==
  /\ failure = "frame" => ~FrameCached(d, signalConfig)
  /\ failure \in {"pdu", "activate"} => ~PduCached(d, signalConfig)

WrongPduNotCached(d, signalConfig, failure) ==
  IF failure \in {"frame", "pdu", "activate"}
    THEN UNCHANGED <<mPdusCache, activated>>
    ELSE /\ mPdusCache' = mPdusCache
         /\ activated' = [activated EXCEPT ![d] = Count(@, PduName(signalConfig))]

(* createPdu: a PDU that could not be activated is not cached. *)
createPdu(d, signalConfig, failure) ==
  IF failure \in {"frame", "pdu", "activate"} \/ PduCached(d, signalConfig)
    THEN UNCHANGED <<mPdusCache, activated>>
    ELSE /\ mPdusCache' = [mPdusCache EXCEPT ![d] =
              Stored(@, PduName(signalConfig), FrameName(signalConfig))]
         /\ activated' = [activated EXCEPT ![d] = Count(@, PduName(signalConfig))]

(* The common part of createIncomingSignal and createOutgoingSignal. *)
createSignal(d, signalConfig, interface, failure) ==
  /\ Possible(d, signalConfig, failure)
  /\ mFramesCache' =
       IF failure = "frame" \/ FrameCached(d, signalConfig) THEN mFramesCache
       ELSE [mFramesCache EXCEPT ![d] = Stored(@, FrameName(signalConfig), interface)]
  /\ createPdu(d, signalConfig, failure)

createIncomingSignal(signalConfig, interface, failure) ==
  createSignal("incoming", signalConfig, interface, failure)

createOutgoingSignal(signalConfig, interface, failure) ==
  createSignal("outgoing", signalConfig, interface, failure)

(***************************************************************************)
(* Subscribe.  "last" is the registration of the handler.  The map of      *)
(* subscribed signals is looked into and never filled, so that a second    *)
(* subscription adds a second handler.                                     *)
(***************************************************************************)
Subscribe(signalConfig, interface, failure) ==
  /\ mSignalClient
  /\ createIncomingSignal(signalConfig, interface, failure)
  /\ mSignalEventHandlers' =
       IF failure = "none" THEN Count(mSignalEventHandlers, signalConfig.name)
                           ELSE mSignalEventHandlers
  /\ UNCHANGED <<mSignalClient, mOutSignals>>

(* Publish.  "last" is setValue; by then the signal is kept. *)
Publish(signalConfig, interface, failure) ==
  /\ mSignalClient
  /\ IF signalConfig.name \in mOutSignals
       THEN /\ failure \in {"none", "last"}
            /\ UNCHANGED <<mFramesCache, mPdusCache, activated, mOutSignals>>
       ELSE /\ createOutgoingSignal(signalConfig, interface, failure)
            /\ mOutSignals' = IF failure \in {"none", "last"}
                 THEN mOutSignals \cup {signalConfig.name} ELSE mOutSignals
  /\ UNCHANGED <<mSignalClient, mSignalEventHandlers>>

WrongOrderOfBytes(bytes) ==
  IF Len(bytes) > WordLength THEN bytes
  ELSE UintToByteVectorLE(ByteVectorToUint(bytes))

(***************************************************************************)
(* What a subscriber is given of the bytes a publisher sets.  Up to a word *)
(* of bytes is sent as a number and comes back as a whole word; more bytes *)
(* (the SCI library calls such a signal opaque) come back as they are.     *)
(***************************************************************************)
onEvent(bytes) ==
  IF Len(bytes) > WordLength THEN bytes
  ELSE Reverse(UintToByteVectorLE(ByteVectorToUint(bytes)))
=============================================================================
