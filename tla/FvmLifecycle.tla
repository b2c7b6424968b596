---------------------------- MODULE FvmLifecycle ----------------------------
(***************************************************************************)
(* The life of one FVM: configuration, Init, the main loop, Deinit, and    *)
(* what challenge-response may do before, between and after them.  It      *)
(* composes the configuration accessor, the signal manager, the crypto     *)
(* accessor and AFreshnessValueManagerImpl, server or participant by the   *)
(* build; the FVM is one object per process, used by any number of         *)
(* ara::com FVM objects, by the application and by its loop thread.        *)
(* One thread at a time calls Init.                                        *)
(*                                                                         *)
(* Init is split at every signal it subscribes to: signals may arrive from *)
(* then on.  Deinit takes no lock: each of its writes is a step, and so    *)
(* are the look-up and the store of a challenge that arrives.  What other  *)
(* modules model in detail (values, candidates, the state machine, callers *)
(* within challenge-response that overlap) is left out here.               *)
(***************************************************************************)
EXTENDS FvmConfigAccessor, SignalManagerSci, CsmAccessorAraCrypto

CONSTANTS
  MainFunctionPeriod,  \* SOK_FM_MAIN_FUNCTION_PERIOD_MS
  ChallengeTimeout,    \* SOK_FM_CHALLENGE_TIMEOUT_MS
  TimeModulus,         \* values of the uint64_t mTimeSinceInit
  MaxTime,             \* bound: mTimeSinceInit
  File,                \* configuration files Init may find
  FvId                 \* IDs the application and SecOC ask for

ASSUME LifecycleAssumption ==
  /\ MainFunctionPeriod \in Nat \ {0}
  /\ ChallengeTimeout \in Nat
  /\ MaxTime \in Nat /\ TimeModulus \in Nat /\ MaxTime < TimeModulus

(* The arrays of a JSON text are sequences, whatever else it is. *)
ASSUME FileAssumption ==
  \A text \in File : text.is = "object" =>
    \A member \in Arrays \cap DOMAIN text.doc : IsArray(text.doc[member])

VARIABLES
  isServer,                \* whether the build defines SOK_FVM_SERVER
  mFvmConfAccessor,
  mInitialized, mIsFvValid, mTimeSinceInit,
  mAttributesMap,          \* session counter length by ID
  mChallengeSignalToFvId,
  mClientNameToKeyId,
  mActiveOutgoingChallenges,    \* by ID: when it was triggered
  mActiveIncomingChallenges,    \* by ID: when it arrived
  mFvIdToNotificationCallback,  \* IDs that have a callback
  arriving,                     \* IDs whose challenge is looked up, not stored
  pc,                      \* how far Init is: "idle" when it is not running
  todo,                    \* what its loop has left
  allSubscribed,           \* its results so far
  deinit,                  \* what Deinit writes next: "none" when it is not running
  mFvmRunning,             \* sample: whether the loop has been started
  loop,                    \* its thread: "none", "sleep" or within MainFunction
  answering,               \* clients whose signature is about to be published: one or none
  dead,                    \* an assertion has ended the process
  file,                    \* history: last file read
  attempts,                \* history: how many Inits found a text, up to two
  skipped,                 \* history: challenge IDs whose Subscribe failed
  deinitialised            \* history: whether Deinit has begun to have an effect

fvmVars == <<mInitialized, mIsFvValid, mTimeSinceInit, mAttributesMap,
             mChallengeSignalToFvId>>
challengeVars == <<mActiveOutgoingChallenges, mActiveIncomingChallenges,
                   mFvIdToNotificationCallback, arriving>>
initVars == <<pc, todo, allSubscribed>>
deinitVars == <<deinit, deinitialised>>
appVars == <<mFvmRunning, loop, answering, deinitVars>>
configVars == <<mFvmConfAccessor, file, attempts, skipped>>
vars == <<isServer, configVars, fvmVars, mClientNameToKeyId, challengeVars,
          initVars, appVars, dead, signalVars, csmVars>>

NoFile == [is |-> "missing"]

Init ==
  /\ isServer \in BOOLEAN
  /\ SignalInit /\ CsmInit
  /\ mFvmConfAccessor = NewAccessor
  /\ mInitialized = FALSE /\ mIsFvValid = FALSE /\ mTimeSinceInit = 0
  /\ mAttributesMap = NoEntries
  /\ mChallengeSignalToFvId = NoEntries
  /\ mClientNameToKeyId = NoEntries
  /\ mActiveOutgoingChallenges = NoEntries
  /\ mActiveIncomingChallenges = NoEntries
  /\ mFvIdToNotificationCallback = {} /\ arriving = {}
  /\ pc = "idle" /\ todo = <<>> /\ allSubscribed = TRUE
  /\ mFvmRunning = FALSE /\ loop = "none" /\ answering = {}
  /\ dead = FALSE /\ deinit = "none" /\ deinitialised = FALSE
  /\ file = NoFile /\ attempts = 0 /\ skipped = {}

Interface == GetNetworkInterface(mFvmConfAccessor)

(* A signal manager without client refuses; it does not get to any step. *)
subscribe(signalConfig, failure) ==
  IF mSignalClient THEN Subscribe(signalConfig, Interface, failure)
                   ELSE failure = "last" /\ UNCHANGED signalVars

publish(signalConfig, failure) ==
  IF mSignalClient THEN Publish(signalConfig, Interface, failure)
                   ELSE failure = "last" /\ UNCHANGED signalVars

-----------------------------------------------------------------------------
(* Init, by FVM::Initialize or by the application itself.                  *)

(* The configuration.  An accessor that has one does not read the file. *)
InitConfig ==
  /\ pc = "idle" /\ ~mInitialized
  /\ IF mFvmConfAccessor.mInitialized THEN file' = file ELSE file' \in File
  /\ LET result == AccessorInit(mFvmConfAccessor, file') IN
     /\ mFvmConfAccessor' = result.accessor
     /\ pc' = IF result.ok THEN "keys" ELSE "idle"
  /\ attempts' = IF file'.is \in {"missing", "empty"} \/ attempts = 2
                   THEN attempts ELSE attempts + 1
  /\ UNCHANGED <<isServer, fvmVars, mClientNameToKeyId, challengeVars, todo,
                 allSubscribed, skipped, appVars, dead, signalVars, csmVars>>

(* FvmRuntimeAttributesManager::Init, for the IDs the accessor lists. *)
InitAttributes ==
  LET ids == GetAllFreshnessValueIds(mFvmConfAccessor)
      Length(id) ==
        LET entry == GetSokFvConfigInstanceByFvId(mFvmConfAccessor, id) IN
        IF isSucceeded(entry) THEN getObject(entry).sessionCounterLength ELSE 0
  IN mAttributesMap' =
       [id \in DOMAIN mAttributesMap \cup {ids[i] : i \in DOMAIN ids} |-> Length(id)]

(* Each configured key is looked for, then the attributes are made. *)
InitKeys ==
  LET keys == GetSokKeyConfig(mFvmConfAccessor) IN
  /\ pc = "keys"
  /\ IF DOMAIN keys = {}
       THEN pc' = "signals" /\ InitAttributes /\ UNCHANGED csmVars
       ELSE \E id \in DOMAIN keys, found \in BOOLEAN :
              /\ IsKeyExists(keys[id], found)
              /\ pc' = IF found THEN "signals" ELSE "idle"
              /\ IF found THEN InitAttributes ELSE UNCHANGED mAttributesMap
  /\ UNCHANGED <<isServer, configVars, mInitialized, mIsFvValid, mTimeSinceInit,
                 mChallengeSignalToFvId, mClientNameToKeyId, challengeVars, todo,
                 allSubscribed, appVars, dead, signalVars>>

(***************************************************************************)
(* The list of challenge IDs.  Without any the end of the map is read: the *)
(* process dies, or nothing is made of what was read.                      *)
(***************************************************************************)
ListChallengeIds ==
  LET lists == GetAllChallengeFreshnessValueIds(mFvmConfAccessor) IN
  /\ pc = "signals"
  /\ \/ todo' \in lists /\ UNCHANGED dead
     \/ lists = {} /\ todo' = <<>> /\ dead' \in BOOLEAN
  /\ pc' = "register"
  /\ UNCHANGED <<isServer, configVars, fvmVars, mClientNameToKeyId, challengeVars,
                 allSubscribed, appVars, signalVars, csmVars>>

(***************************************************************************)
(* One round of registerToSignals; the entry is used whether found or not, *)
(* and a signal that cannot be subscribed to is skipped.                   *)
(***************************************************************************)
registerToSignals ==
  /\ pc = "register" /\ todo # <<>>
  /\ LET id == Head(todo)
         confRes == GetChallengeConfigInstanceByFvId(mFvmConfAccessor, id)
         config == getObject(confRes)
     IN IF getObjectAsserts(confRes)
          THEN /\ dead' = TRUE
               /\ UNCHANGED <<mChallengeSignalToFvId, skipped, signalVars>>
          ELSE /\ IF config.type = "kVwSokFreshnessCrResponse"
                    THEN \E failure \in Failure :
                           /\ subscribe(config.challengeSignalConfig, failure)
                           /\ mChallengeSignalToFvId' =
                                IF failure = "none"
                                  THEN Stored(mChallengeSignalToFvId,
                                         config.challengeSignalConfig.name, id)
                                  ELSE mChallengeSignalToFvId
                           /\ skipped' = IF failure = "none" THEN skipped
                                                            ELSE skipped \cup {id}
                    ELSE UNCHANGED <<mChallengeSignalToFvId, skipped, signalVars>>
               /\ UNCHANGED dead
  /\ todo' = Tail(todo)
  /\ UNCHANGED <<isServer, mFvmConfAccessor, file, attempts, mInitialized, mIsFvValid, mTimeSinceInit,
                 mAttributesMap, mClientNameToKeyId, challengeVars, pc,
                 allSubscribed, appVars, csmVars>>

(* serverOrParticipantInit of the server begins: the initial value. *)
serverInit ==
  /\ pc = "register" /\ todo = <<>> /\ isServer
  /\ \E generated \in BOOLEAN :
       /\ GenerateRandomBytes(generated)
       /\ mIsFvValid' = (mIsFvValid \/ generated)
       /\ pc' = IF generated THEN "distribution" ELSE "idle"
       /\ todo' \in IF generated
            THEN SetToSeqs(DOMAIN GetClientsConfigMap(mFvmConfAccessor))
            ELSE {<<>>}
  /\ UNCHANGED <<isServer, configVars, mInitialized, mTimeSinceInit,
                 mAttributesMap, mChallengeSignalToFvId, mClientNameToKeyId,
                 challengeVars, allSubscribed, appVars, dead, signalVars, csmVars>>

(* Its loop over the clients, in any order; the first failure ends it. *)
serverSubscribe ==
  /\ pc = "distribution" /\ todo # <<>> /\ isServer
  /\ LET client == GetClientsConfigMap(mFvmConfAccessor)[Head(todo)] IN
     \E found \in BOOLEAN, failure \in Failure :
       /\ IsKeyExists(client.keyId, found)
       /\ IF found THEN subscribe(client.clientChallengeSignal, failure)
                   ELSE UNCHANGED signalVars
       /\ IF found /\ failure = "none"
            THEN /\ mClientNameToKeyId' =
                      Stored(mClientNameToKeyId, Head(todo), client.keyId)
                 /\ todo' = Tail(todo)
                 /\ UNCHANGED pc
            ELSE todo' = <<>> /\ pc' = "idle" /\ UNCHANGED mClientNameToKeyId
  /\ UNCHANGED <<isServer, configVars, fvmVars, challengeVars, allSubscribed,
                 appVars, dead>>

(* serverOrParticipantInit of the participant begins: its key. *)
participantInit ==
  /\ pc = "register" /\ todo = <<>> /\ ~isServer
  /\ \E found \in BOOLEAN :
       /\ IsKeyExists(GetEcuKeyIdForFvDistribution(mFvmConfAccessor), found)
       /\ pc' = IF found THEN "distribution" ELSE "idle"
       /\ todo' = IF ~found THEN <<>> ELSE
            << GetAuthenticatedFvValueSignalConfig(mFvmConfAccessor),
               GetAuthenticatedFvSignatureSignalConfig(mFvmConfAccessor),
               GetUnauthenticatedFvSignalConfig(mFvmConfAccessor) >>
  /\ allSubscribed' = TRUE
  /\ UNCHANGED <<isServer, configVars, fvmVars, mClientNameToKeyId, challengeVars,
                 appVars, dead, signalVars>>

(* Its three subscriptions, all of which are tried. *)
participantSubscribe ==
  /\ pc = "distribution" /\ todo # <<>> /\ ~isServer
  /\ \E failure \in Failure :
       /\ subscribe(Head(todo), failure)
       /\ allSubscribed' = (allSubscribed /\ failure = "none")
  /\ todo' = Tail(todo)
  /\ UNCHANGED <<isServer, configVars, fvmVars, mClientNameToKeyId, challengeVars,
                 pc, appVars, dead, csmVars>>

InitEnd ==
  /\ pc = "distribution" /\ todo = <<>>
  /\ mInitialized' = allSubscribed
  /\ pc' = "idle"
  /\ UNCHANGED <<isServer, configVars, mIsFvValid, mTimeSinceInit, mAttributesMap,
                 mChallengeSignalToFvId, mClientNameToKeyId, challengeVars, todo,
                 allSubscribed, appVars, dead, signalVars, csmVars>>

InitSteps ==
  \/ InitConfig \/ InitKeys \/ ListChallengeIds \/ registerToSignals
  \/ serverInit \/ serverSubscribe \/ participantInit \/ participantSubscribe
  \/ InitEnd

-----------------------------------------------------------------------------
(* Deinit, and what calls it.                                              *)

(* Does nothing to an FVM that is not initialised, so never runs twice. *)
Deinit ==
  IF ~mInitialized THEN UNCHANGED <<mInitialized, deinitVars>>
  ELSE /\ mInitialized' = FALSE
       /\ deinit' = "attributes" /\ deinitialised' = TRUE

(* Its other writes; challenges, callbacks, subscriptions, mConfig stay. *)
DeinitAttributes ==
  /\ deinit = "attributes" /\ deinit' = "validity"
  /\ mAttributesMap' = NoEntries
  /\ UNCHANGED <<mIsFvValid, mTimeSinceInit, mChallengeSignalToFvId>>

DeinitValidity ==
  /\ deinit = "validity" /\ deinit' = "time"
  /\ mIsFvValid' = FALSE
  /\ UNCHANGED <<mAttributesMap, mTimeSinceInit, mChallengeSignalToFvId>>

DeinitTime ==
  /\ deinit = "time" /\ deinit' = "signals"
  /\ mTimeSinceInit' = 0
  /\ UNCHANGED <<mAttributesMap, mIsFvValid, mChallengeSignalToFvId>>

(* Challenge signals go on being attributed after Deinit. *)
WrongSignalsKept ==
  /\ deinit = "signals" /\ deinit' = "none"
  /\ UNCHANGED <<mAttributesMap, mIsFvValid, mTimeSinceInit, mChallengeSignalToFvId>>

DeinitSignals ==
  /\ deinit = "signals" /\ deinit' = "none"
  /\ mChallengeSignalToFvId' = NoEntries
  /\ UNCHANGED <<mAttributesMap, mIsFvValid, mTimeSinceInit>>

DeinitSteps ==
  /\ DeinitAttributes \/ DeinitValidity \/ DeinitTime \/ DeinitSignals
  /\ UNCHANGED <<isServer, configVars, mInitialized, mClientNameToKeyId,
                 challengeVars, initVars, mFvmRunning, loop, answering,
                 deinitialised, dead, signalVars, csmVars>>

(* ~FVM of any FVM object, whether that object was initialised or not. *)
DestroyFVM ==
  /\ Deinit
  /\ UNCHANGED <<isServer, configVars, mIsFvValid, mTimeSinceInit, mAttributesMap,
                 mChallengeSignalToFvId, mClientNameToKeyId, challengeVars, initVars,
                 mFvmRunning, loop, answering, dead, signalVars, csmVars>>

StartFvmLoop ==
  /\ ~mFvmRunning
  /\ mFvmRunning' = TRUE /\ loop' = "sleep"
  /\ UNCHANGED <<isServer, configVars, fvmVars, mClientNameToKeyId, challengeVars,
                 initVars, answering, deinitVars, dead, signalVars, csmVars>>

(* The thread is joined: MainFunction is over by then. *)
StopFvmLoop ==
  /\ mFvmRunning /\ loop \in {"none", "sleep"}
  /\ mFvmRunning' = FALSE /\ loop' = "none"
  /\ Deinit
  /\ UNCHANGED <<isServer, configVars, mIsFvValid, mTimeSinceInit, mAttributesMap,
                 mChallengeSignalToFvId, mClientNameToKeyId, challengeVars, initVars,
                 answering, dead, signalVars, csmVars>>

-----------------------------------------------------------------------------
(* MainFunction, called by the loop until it reports an error.             *)

incTimers ==
  mTimeSinceInit' = IF mInitialized THEN mTimeSinceInit + MainFunctionPeriod
                                    ELSE mTimeSinceInit

Enters == loop = "sleep" /\ mTimeSinceInit + MainFunctionPeriod <= MaxTime

(* A Deinit may begin as soon as MainFunction has looked at mInitialized. *)
MainFunctionEnters ==
  /\ Enters
  /\ loop' = IF mInitialized THEN "entered" ELSE "none"
  /\ UNCHANGED <<isServer, configVars, fvmVars, mClientNameToKeyId, challengeVars,
                 initVars, mFvmRunning, answering, deinitVars, dead,
                 signalVars, csmVars>>

requestAnAuthenticFv ==
  \E generated \in BOOLEAN, failure \in Failure :
    /\ ~mIsFvValid
    /\ GenerateRandomBytes(generated)
    /\ IF generated
         THEN publish(GetAuthenticatedFvChallengeSignalConfig(mFvmConfAccessor), failure)
         ELSE UNCHANGED signalVars
    /\ loop' = IF generated /\ failure = "none" THEN "working" ELSE "failing"
    /\ UNCHANGED <<mIsFvValid, csmVars>>

processAnAuthenticFv ==
  \E verified \in BOOLEAN :
    /\ MacCreate(GetEcuKeyIdForFvDistribution(mFvmConfAccessor), verified)
    /\ mIsFvValid' = (mIsFvValid \/ verified)
    /\ loop' = "working"
    /\ UNCHANGED signalVars

(* Beyond the jitter, or anything else without effect here. *)
dropOrIdle ==
  /\ mIsFvValid' \in {mIsFvValid, FALSE}
  /\ loop' = "working"
  /\ UNCHANGED <<signalVars, csmVars>>

(* The state machine of the participant. *)
participantMainFunction ==
  /\ loop = "entered" /\ ~isServer
  /\ requestAnAuthenticFv \/ processAnAuthenticFv \/ dropOrIdle
  /\ UNCHANGED <<isServer, configVars, mInitialized, mTimeSinceInit, mAttributesMap,
                 mChallengeSignalToFvId, mClientNameToKeyId, challengeVars,
                 initVars, mFvmRunning, answering, deinitVars, dead>>

(* The server broadcasts, if that is due. *)
unauthenticatedBroadcast ==
  /\ loop = "entered" /\ isServer
  /\ \/ loop' = "working" /\ UNCHANGED signalVars
     \/ \E failure \in Failure :
          /\ publish(GetUnauthenticatedFvSignalConfig(mFvmConfAccessor), failure)
          /\ loop' = IF failure = "none" THEN "working" ELSE "failing"
  /\ UNCHANGED <<isServer, configVars, fvmVars, mClientNameToKeyId, challengeVars,
                 initVars, mFvmRunning, answering, deinitVars, dead, csmVars>>

(* Then an answer begins: a client's MAC is made and the value published. *)
answerValue ==
  /\ loop \in {"working", "failing"} /\ answering = {} /\ isServer
  /\ \E client \in DOMAIN mClientNameToKeyId, made \in BOOLEAN, failure \in Failure :
       /\ MacCreate(mClientNameToKeyId[client], made)
       /\ IF made
            THEN publish(GetClientsConfigMap(mFvmConfAccessor)[client].clientResponseValueSignal,
                         failure)
            ELSE UNCHANGED signalVars
       /\ answering' = IF made /\ failure = "none" THEN {client} ELSE {}
  /\ UNCHANGED <<isServer, configVars, fvmVars, mClientNameToKeyId, challengeVars,
                 initVars, mFvmRunning, loop, deinitVars, dead>>

answerSignature ==
  /\ \E client \in answering, failure \in Failure :
       publish(GetClientsConfigMap(mFvmConfAccessor)[client].clientResponseSignatureSignal,
               failure)
  /\ answering' = {}
  /\ UNCHANGED <<isServer, configVars, fvmVars, mClientNameToKeyId, challengeVars,
                 initVars, mFvmRunning, loop, deinitVars, dead, csmVars>>

(* Its end.  Of the server's failures only the broadcast's is reported. *)
MainFunctionEnd ==
  /\ loop \in {"working", "failing"} /\ answering = {}
  /\ incTimers
  /\ loop' = IF loop = "working" THEN "sleep" ELSE "none"
  /\ UNCHANGED <<isServer, configVars, mInitialized, mIsFvValid, mAttributesMap,
                 mChallengeSignalToFvId, mClientNameToKeyId, challengeVars,
                 initVars, mFvmRunning, answering, deinitVars, dead,
                 signalVars, csmVars>>

MainFunction ==
  \/ MainFunctionEnters \/ participantMainFunction
  \/ unauthenticatedBroadcast \/ answerValue \/ answerSignature
  \/ MainFunctionEnd

-----------------------------------------------------------------------------
(* Challenge-response, which asks the configuration, not mInitialized.     *)

HasType(id, type) ==
  LET entry == GetEntryTypeByFvId(mFvmConfAccessor, id) IN
  isSucceeded(entry) /\ getObject(entry) = type

(* The age wraps below zero: the time starts again at 0 with Deinit. *)
Undergoing(challenges, id) ==
  /\ id \in DOMAIN challenges
  /\ (mTimeSinceInit - challenges[id]) % TimeModulus < ChallengeTimeout

challengeUnchanged ==
  UNCHANGED <<isServer, configVars, fvmVars, mClientNameToKeyId, initVars, appVars, dead>>

OfferCrRequest(id) ==
  /\ HasType(id, "kVwSokFreshnessCrResponse")
  /\ mFvIdToNotificationCallback' = mFvIdToNotificationCallback \cup {id}
  /\ UNCHANGED <<mActiveOutgoingChallenges, mActiveIncomingChallenges,
                 arriving, signalVars, csmVars>>
  /\ challengeUnchanged

(* An ID of either type can be triggered. *)
TriggerCrRequest(id) ==
  LET entry == GetChallengeConfigInstanceByFvId(mFvmConfAccessor, id) IN
  /\ ~Undergoing(mActiveOutgoingChallenges, id)
  /\ isSucceeded(entry)
  /\ GenerateRandomBytes(TRUE)
  /\ \E failure \in Failure :
       /\ publish(getObject(entry).challengeSignalConfig, failure)
       /\ mActiveOutgoingChallenges' =
            IF failure = "none"
              THEN Stored(mActiveOutgoingChallenges, id, mTimeSinceInit)
              ELSE mActiveOutgoingChallenges
  /\ UNCHANGED <<mActiveIncomingChallenges, mFvIdToNotificationCallback,
                 arriving, csmVars>>
  /\ challengeUnchanged

(***************************************************************************)
(* A challenge arrives, by the handler of any signal with one; the map     *)
(* tells whose it is.  It is looked up and later stored, one at a time for *)
(* each ID.                                                                *)
(***************************************************************************)
incomingChallengeSignalCb(signal) ==
  LET id == mChallengeSignalToFvId[signal] IN
  /\ signal \in DOMAIN mSignalEventHandlers \cap DOMAIN mChallengeSignalToFvId
  /\ id \in mFvIdToNotificationCallback
  /\ ~Undergoing(mActiveIncomingChallenges, id)
  /\ arriving' = arriving \cup {id}
  /\ UNCHANGED <<mActiveOutgoingChallenges, mActiveIncomingChallenges,
                 mFvIdToNotificationCallback, signalVars, csmVars>>
  /\ challengeUnchanged

(* The time a challenge runs out is stored where its arrival is expected. *)
WrongDeadlineStored(id) ==
  /\ id \in arriving
  /\ mActiveIncomingChallenges' =
       Stored(mActiveIncomingChallenges, id, mTimeSinceInit + ChallengeTimeout)
  /\ arriving' = arriving \ {id}
  /\ UNCHANGED <<mActiveOutgoingChallenges, mFvIdToNotificationCallback,
                 signalVars, csmVars>>
  /\ challengeUnchanged

(* The ID is read once more where the map has it, or had it: any number. *)
storeChallenge(id) ==
  /\ id \in arriving
  /\ \E read \in IF id \in Range(mChallengeSignalToFvId) THEN {id} ELSE FvId :
       mActiveIncomingChallenges' =
         Stored(mActiveIncomingChallenges, read, mTimeSinceInit)
  /\ arriving' = arriving \ {id}
  /\ UNCHANGED <<mActiveOutgoingChallenges, mFvIdToNotificationCallback,
                 signalVars, csmVars>>
  /\ challengeUnchanged

Erased(challenges, id) == [i \in DOMAIN challenges \ {id} |-> challenges[i]]

GetTxFreshness(id) ==
  /\ mInitialized /\ HasType(id, "kVwSokFreshnessCrResponse")
  /\ mActiveIncomingChallenges' = Erased(mActiveIncomingChallenges, id)
  /\ UNCHANGED <<mActiveOutgoingChallenges, mFvIdToNotificationCallback,
                 arriving, signalVars, csmVars>>
  /\ challengeUnchanged

(* SecOC has verified a response. *)
VerificationStatusCallout(id) ==
  /\ HasType(id, "kVwSokFreshnessCrChallenge")
  /\ mActiveOutgoingChallenges' = Erased(mActiveOutgoingChallenges, id)
  /\ UNCHANGED <<mActiveIncomingChallenges, mFvIdToNotificationCallback,
                 arriving, signalVars, csmVars>>
  /\ challengeUnchanged

Challenges ==
  \/ \E id \in FvId : \/ OfferCrRequest(id) \/ TriggerCrRequest(id)
                       \/ storeChallenge(id)
                       \/ GetTxFreshness(id) \/ VerificationStatusCallout(id)
  \/ \E signal \in DOMAIN mChallengeSignalToFvId : incomingChallengeSignalCb(signal)

Next ==
  /\ ~dead
  /\ \/ InitSteps \/ DestroyFVM \/ StartFvmLoop \/ StopFvmLoop
     \/ DeinitSteps \/ MainFunction \/ Challenges

Spec == Init /\ [][Next]_vars

-----------------------------------------------------------------------------
(* Properties                                                              *)

Handlers(signal) ==
  IF signal \in DOMAIN mSignalEventHandlers THEN mSignalEventHandlers[signal] ELSE 0

(* Every part of the life cycle has its type. *)
TypeOK ==
  /\ {mInitialized, mIsFvValid, allSubscribed, mFvmRunning, dead, deinitialised,
      mSignalClient, mProviders} \subseteq BOOLEAN
  /\ mTimeSinceInit \in 0..MaxTime
  /\ \A challenges \in {mActiveOutgoingChallenges, mActiveIncomingChallenges} :
       /\ DOMAIN challenges \subseteq FvId
       /\ \A id \in DOMAIN challenges : challenges[id] \in 0..MaxTime
  /\ mFvIdToNotificationCallback \subseteq FvId
  /\ pc \in {"idle", "keys", "signals", "register", "distribution"}
  /\ pc \in {"idle", "keys", "signals"} => todo = <<>>
  /\ deinit \in {"none", "attributes", "validity", "time", "signals"}
  /\ arriving \subseteq mFvIdToNotificationCallback
  /\ loop \in {"none", "sleep", "entered", "working", "failing"}
  /\ mKeysMap \subseteq {KeyStr}
  /\ attempts \in 0..2

(***************************************************************************)
(* An FVM that says it is initialised has in use what the document it was  *)
(* given asks for: the server serves every client of the document (key,    *)
(* handler), the participant hears all signals of the distribution, every  *)
(* key of the document is there, and the signal of every challenge it has  *)
(* to answer is heard and attributed to its ID, but for those whose        *)
(* Subscribe failed: these are skipped, are neither heard nor attributed,  *)
(* and Init succeeds all the same.  Anything an Init that breaks off       *)
(* early, parses half of the document or lists the wrong IDs might leave   *)
(* out besides.                                                            *)
(***************************************************************************)
ServesClients(doc) ==
  \A i \in DOMAIN doc.clients_signals_config :
    LET client == doc.clients_signals_config[i] IN
    /\ client.client_ecu_name \in DOMAIN mClientNameToKeyId
    /\ mClientNameToKeyId[client.client_ecu_name] = client.key_id
    /\ Handlers(client.challenge_signal.signal_config.name) > 0

Heard == SignalSections \ {"authenticated_fv_value_challenge_config"}

HearsDistribution(doc) ==
  \A member \in Heard :
    Handlers(doc[member].signal_config.name) > 0

HearsChallenges(doc) ==
  \A i \in DOMAIN doc.challenge_response_config :
    LET entry == doc.challenge_response_config[i]
        signal == entry.signal.signal_config.name
        heard == entry.challenge_type = "RESPONSE" /\ entry.fv_id \notin skipped
    IN /\ (Handlers(signal) > 0) <=> heard
       /\ heard => /\ signal \in DOMAIN mChallengeSignalToFvId
                   /\ mChallengeSignalToFvId[signal] = entry.fv_id

InitialisedButForSkipped ==
  mInitialized =>
    /\ file.is = "object"
    /\ file.doc.key_config # <<>> => KeyStr \in mKeysMap
    /\ IF isServer THEN ServesClients(file.doc) ELSE HearsDistribution(file.doc)
    /\ HearsChallenges(file.doc)

(***************************************************************************)
(* What the integrator has to see to and no code checks: in a document,    *)
(* the signals that are subscribed to have names of their own, and so have *)
(* the challenges, and a PDU lies in one frame.  Files that break this are *)
(* parsed and used like any other.                                         *)
(***************************************************************************)
SignalsOf(doc) ==
  {doc[member] : member \in SignalSections}
    \cup {doc.challenge_response_config[i].signal :
             i \in DOMAIN doc.challenge_response_config}
    \cup {doc.clients_signals_config[i][member] :
             i \in DOMAIN doc.clients_signals_config, member \in ClientSignals}

SignalsApart(doc) ==
  LET challenges == doc.challenge_response_config
      clients == doc.clients_signals_config
      challenge(i) == challenges[i].signal.signal_config.name
      client(i) == clients[i].challenge_signal.signal_config.name
      section(member) == doc[member].signal_config.name
  IN /\ \A i, j \in DOMAIN challenges : i # j => challenge(i) # challenge(j)
     /\ \A i, j \in DOMAIN clients : i # j => client(i) # client(j)
     /\ \A m, n \in Heard : m # n => section(m) # section(n)
     /\ \A i \in DOMAIN challenges :
          /\ \A j \in DOMAIN clients : challenge(i) # client(j)
          /\ \A m \in Heard : challenge(i) # section(m)
     /\ \A s, t \in SignalsOf(doc) :
          s.pdu_config.name = t.pdu_config.name
            => s.frame_config.name = t.frame_config.name

(***************************************************************************)
(* No signal is ever handled twice, although the signal manager would add  *)
(* a second handler, and the SCI library activates no PDU twice in one     *)
(* direction, whichever signals share it and whatever failed before: an    *)
(* Init that broke off is not repeated, and no publication or subscription *)
(* takes up what another has done.  (With two handlers one challenge would *)
(* be notified twice.)                                                     *)
(***************************************************************************)
SetUpOnce ==
  /\ \A signal \in DOMAIN mSignalEventHandlers : mSignalEventHandlers[signal] = 1
  /\ \A d \in Direction : \A pdu \in DOMAIN activated[d] : activated[d][pdu] = 1

(***************************************************************************)
(* With one challenge ID in the configuration, whatever its number, Init   *)
(* never ends the process.  (registerToSignals takes the object of every   *)
(* ID listed, and a list that counts on from the first key of a map may    *)
(* name IDs that are not there: with two IDs the process can die.)         *)
(***************************************************************************)
SingleChallengeIdIsSafe ==
  Cardinality(DOMAIN mFvmConfAccessor.mConfig.mChallengesConfig) = 1 => ~dead

(***************************************************************************)
(* The FVM is initialised, if ever, by the first Init that finds a         *)
(* configuration that is not empty, and no Init after it succeeds: not     *)
(* after that one failed at a key or a signal, and not after Deinit.       *)
(***************************************************************************)
OnlyFirstAttemptInitialises ==
  [][~mInitialized /\ mInitialized' => attempts = 1 /\ ~deinitialised]_vars

(***************************************************************************)
(* Once Deinit has come to its end, no challenge is looked up any more:    *)
(* the handlers, the callbacks and the configuration stay, but no signal   *)
(* is attributed, and no Init attributes one again.  What may still be     *)
(* stored are the challenges that were between their look-up and their     *)
(* store by then, each of them once.  (None of them could be answered, and *)
(* none replaced either: the time stands still.)                           *)
(***************************************************************************)
OnlyLateChallengesAfterDeinit ==
  [][deinitialised /\ deinit = "none" =>
       /\ arriving' \subseteq arriving
       /\ mActiveIncomingChallenges' \in
            {mActiveIncomingChallenges} \cup
            {Erased(mActiveIncomingChallenges, id) : id \in FvId} \cup
            IF arriving' = arriving THEN {}
            ELSE {Stored(mActiveIncomingChallenges, id, mTimeSinceInit) : id \in FvId}]_vars

(***************************************************************************)
(* What FreshnessValueManager.hpp:76 says of Deinit, for the one who is    *)
(* challenged: "Challenge-response protocols can still be executed."  A    *)
(* challenge that is heard, of an ID that has a callback, is attributed to *)
(* its ID.  The code clears the map (AFreshnessValueManagerImpl.cpp:344).  *)
(***************************************************************************)
ChallengesGoOnAfterDeinit ==
  deinitialised =>
    \A id \in mFvIdToNotificationCallback \cap DOMAIN mFvmConfAccessor.mConfig.mChallengesConfig :
      LET signal == mFvmConfAccessor.mConfig.mChallengesConfig[id].challengeSignalConfig.name
      IN Handlers(signal) > 0 => signal \in DOMAIN mChallengeSignalToFvId

(***************************************************************************)
(* What the server sends of its value, trimmed to a byte less than a word, *)
(* and the beginning of its MAC that fills a word, reach the computations  *)
(* of a participant that hears them as they left the server's: without its *)
(* first byte, the value received is the one that was signed; the MAC      *)
(* received passes the comparison; the value taken over is the server's,   *)
(* as long as that fits into the bytes sent.                               *)
(***************************************************************************)
ValueArrives ==
  \A fv \in Word :
    LET sent == UintToByteVectorTrim(fv, WordLength - 1)
        received == onEvent(sent)
    IN /\ Tail(received) = sent
       /\ ByteVectorToUint(received) = fv % ByteShift[WordLength - 1]

SignatureArrives ==
  \A mac \in [1..(WordLength + 1) -> Byte] :
    MacVerify(onEvent(SubSeq(mac, 1, WordLength)), mac)

AnswerSurvivesTheWire ==
  LET heard(signalConfig) == Handlers(signalConfig.name) > 0 IN
  ~isServer =>
    /\ heard(GetAuthenticatedFvValueSignalConfig(mFvmConfAccessor)) => ValueArrives
    /\ heard(GetAuthenticatedFvSignatureSignalConfig(mFvmConfAccessor)) => SignatureArrives
=============================================================================
