------------------------- MODULE FvmLifecycleProofs -------------------------
(***************************************************************************)
(* Proofs about FvmLifecycle for all configuration files, periods and      *)
(* bounds, whatever fails and however the threads interleave.              *)
(***************************************************************************)
EXTENDS FvmLifecycle, FiniteSetTheorems, SequenceTheorems, NatLemmas

(* The tuples of FvmLifecycle that UNCHANGED is said of. *)
USE DEF vars, fvmVars, challengeVars, initVars, deinitVars, appVars, configVars,
        signalVars, csmVars, challengeUnchanged

-----------------------------------------------------------------------------
(* Types.                                                                  *)

(***************************************************************************)
(* The time is in range because MainFunction looks at the bound when it    *)
(* begins and adds the period when it ends, and a Deinit in between only   *)
(* sets it back.                                                           *)
(***************************************************************************)
TimeLeft ==
  loop \in {"entered", "working", "failing"} => mTimeSinceInit + MainFunctionPeriod <= MaxTime

TypeInv == TypeOK /\ TimeLeft

(* No call of the signal manager makes or loses its client. *)
LEMMA SignalCalls ==
  ASSUME NEW signalConfig, NEW failure,
         subscribe(signalConfig, failure) \/ publish(signalConfig, failure)
  PROVE  mSignalClient' = mSignalClient
  BY DEF subscribe, publish, Subscribe, Publish

(* Nor does one of the crypto accessor touch more than its cache. *)
LEMMA CsmCalls ==
  ASSUME NEW keyId, NEW result,
         IsKeyExists(keyId, result) \/ MacCreate(keyId, result),
         mKeysMap \subseteq {KeyStr}
  PROVE  /\ mProviders' = mProviders
         /\ mKeysMap' \subseteq {KeyStr}
         /\ mKeysMap \subseteq mKeysMap'
  BY DEF IsKeyExists, MacCreate, GetKeyUuid

(* Less time than there was leaves room for a period, too. *)
LEMMA LessTime ==
  ASSUME NEW time \in Int, NEW less \in Int, NEW period \in Int, NEW max \in Int,
         less <= time, time + period <= max
  PROVE  less + period <= max
  OBVIOUS

LEMMA DeinitTypes ==
  ASSUME TypeInv, DeinitSteps
  PROVE  TypeInv'
<1>1. mTimeSinceInit' \in 0..MaxTime /\ mTimeSinceInit' <= mTimeSinceInit
  <2>1. mTimeSinceInit \in 0..MaxTime
    BY DEF TypeInv, TypeOK
  <2>2. mTimeSinceInit' = mTimeSinceInit \/ mTimeSinceInit' = 0
    BY DEF DeinitSteps, DeinitAttributes, DeinitValidity, DeinitTime, DeinitSignals
  <2> QED BY <2>1, <2>2, LifecycleAssumption
<1>2. mIsFvValid' \in BOOLEAN /\ deinit' \in {"none", "validity", "time", "signals"}
  BY DEF TypeInv, TypeOK, DeinitSteps, DeinitAttributes, DeinitValidity, DeinitTime,
     DeinitSignals
<1>3. TypeOK'
  BY <1>1, <1>2 DEF TypeInv, TypeOK, DeinitSteps
<1>4. TimeLeft'
  <2> SUFFICES ASSUME loop' \in {"entered", "working", "failing"}
               PROVE  mTimeSinceInit' + MainFunctionPeriod <= MaxTime
    BY DEF TimeLeft
  <2>1. mTimeSinceInit + MainFunctionPeriod <= MaxTime
    BY DEF DeinitSteps, TypeInv, TimeLeft
  <2>2. mTimeSinceInit \in Int /\ mTimeSinceInit' \in Int /\ MaxTime \in Int
        /\ MainFunctionPeriod \in Int
    BY <1>1, LifecycleAssumption DEF TypeInv, TypeOK
  <2> QED BY <1>1, <2>1, <2>2, LessTime
<1> QED BY <1>3, <1>4 DEF TypeInv

LEMMA InitTypes == Init => TypeInv
<1> SUFFICES ASSUME Init PROVE TypeInv  OBVIOUS
<1>1. 0 \in 0..MaxTime /\ 0 \in 0..2
  BY LifecycleAssumption
<1>2. {mInitialized, mIsFvValid, allSubscribed, mFvmRunning, dead, deinitialised,
       mSignalClient, mProviders} \subseteq BOOLEAN
  BY DEF Init, SignalInit, CsmInit
<1> QED BY <1>1, <1>2 DEF Init, TypeInv, TypeOK, TimeLeft, CsmInit, NoEntries

(* What Init does to the types: all but the threads and the time. *)
LEMMA InitStepsTypes ==
  ASSUME TypeInv, InitSteps
  PROVE  TypeInv'
<1> USE DEF TypeInv, TypeOK, TimeLeft
<1>1. CASE InitConfig  BY <1>1 DEF InitConfig
<1>2. CASE InitKeys
  BY <1>2, CsmCalls DEF InitKeys
<1>3. CASE ListChallengeIds  BY <1>3 DEF ListChallengeIds
<1>4. CASE registerToSignals
  BY <1>4, SignalCalls DEF registerToSignals
<1>5. CASE serverInit
  BY <1>5 DEF serverInit
<1>6. CASE serverSubscribe
  BY <1>6, CsmCalls, SignalCalls DEF serverSubscribe
<1>7. CASE participantInit
  BY <1>7, CsmCalls DEF participantInit
<1>8. CASE participantSubscribe
  BY <1>8, SignalCalls DEF participantSubscribe
<1>9. CASE InitEnd
  BY <1>9 DEF InitEnd
<1> QED
  BY <1>1, <1>2, <1>3, <1>4, <1>5, <1>6, <1>7, <1>8, <1>9 DEF InitSteps

(* The main loop keeps the time within its bound. *)
LEMMA MainFunctionTypes ==
  ASSUME TypeInv, MainFunction
  PROVE  TypeInv'
<1> USE DEF TypeInv, TypeOK, TimeLeft
<1> USE LifecycleAssumption
<1>1. CASE MainFunctionEnters
  BY <1>1 DEF MainFunctionEnters, Enters
<1>2. CASE participantMainFunction
  <2>1. /\ mIsFvValid' \in BOOLEAN
        /\ loop' \in {"working", "failing"}
        /\ mSignalClient' = mSignalClient /\ mProviders' = mProviders
        /\ mKeysMap' \subseteq {KeyStr}
    BY <1>2, SignalCalls, CsmCalls
    DEF participantMainFunction, requestAnAuthenticFv, processAnAuthenticFv,
        dropOrIdle
  <2> QED BY <1>2, <2>1 DEF participantMainFunction
<1>3. CASE unauthenticatedBroadcast
  <2>1. mSignalClient' = mSignalClient
    BY <1>3, SignalCalls DEF unauthenticatedBroadcast
  <2> QED BY <1>3, <2>1 DEF unauthenticatedBroadcast
<1>4. CASE answerValue
  <2>1. /\ mSignalClient' = mSignalClient /\ mProviders' = mProviders
        /\ mKeysMap' \subseteq {KeyStr}
    BY <1>4, SignalCalls, CsmCalls DEF answerValue
  <2> QED BY <1>4, <2>1 DEF answerValue
<1>5. CASE answerSignature
  <2>1. mSignalClient' = mSignalClient
    BY <1>5, SignalCalls DEF answerSignature
  <2> QED BY <1>5, <2>1 DEF answerSignature
<1>6. CASE MainFunctionEnd
  <2>1. mTimeSinceInit' \in 0..MaxTime
    <3>1. mTimeSinceInit + MainFunctionPeriod <= MaxTime
      BY <1>6 DEF MainFunctionEnd
    <3>2. \/ mTimeSinceInit' = mTimeSinceInit
          \/ mTimeSinceInit' = mTimeSinceInit + MainFunctionPeriod
      BY <1>6 DEF MainFunctionEnd, incTimers
    <3> QED BY <3>1, <3>2
  <2> QED BY <1>6, <2>1 DEF MainFunctionEnd
<1> QED BY <1>1, <1>2, <1>3, <1>4, <1>5, <1>6 DEF MainFunction

(* A challenge is stored with the time it is made at. *)
LEMMA ChallengesTypes ==
  ASSUME TypeInv, Challenges
  PROVE  TypeInv'
<1> USE DEF TypeInv, TypeOK, TimeLeft
<1>1. ASSUME NEW id \in FvId, OfferCrRequest(id) PROVE TypeInv'
  BY <1>1 DEF OfferCrRequest
<1>2. ASSUME NEW id \in FvId, TriggerCrRequest(id) PROVE TypeInv'
  <2>1. mSignalClient' = mSignalClient
    BY <1>2, SignalCalls DEF TriggerCrRequest
  <2> QED BY <1>2, <2>1 DEF TriggerCrRequest, Stored
<1>3. ASSUME NEW id \in FvId, GetTxFreshness(id) PROVE TypeInv'
  BY <1>3 DEF GetTxFreshness, Erased
<1>4. ASSUME NEW id \in FvId, VerificationStatusCallout(id) PROVE TypeInv'
  BY <1>4 DEF VerificationStatusCallout, Erased
<1>5. ASSUME NEW signal, incomingChallengeSignalCb(signal) PROVE TypeInv'
  BY <1>5 DEF incomingChallengeSignalCb
<1>6. ASSUME NEW id \in FvId, storeChallenge(id) PROVE TypeInv'
  BY <1>6 DEF storeChallenge, Stored
<1> QED BY <1>1, <1>2, <1>3, <1>4, <1>5, <1>6 DEF Challenges

LEMMA StepTypes == TypeInv /\ [Next]_vars => TypeInv'
<1> SUFFICES ASSUME TypeInv, [Next]_vars PROVE TypeInv'  OBVIOUS
<1> USE DEF TypeInv, TypeOK, TimeLeft
<1>1. CASE DestroyFVM
  BY <1>1 DEF DestroyFVM, Deinit
<1>2. CASE StartFvmLoop
  BY <1>2 DEF StartFvmLoop
<1>3. CASE StopFvmLoop
  BY <1>3 DEF StopFvmLoop, Deinit
<1>4. CASE UNCHANGED vars
  BY <1>4
<1> QED
  BY <1>1, <1>2, <1>3, <1>4, DeinitTypes, InitStepsTypes, MainFunctionTypes,
     ChallengesTypes
  DEF Next

(***************************************************************************)
(* Whatever is configured and however Init, the loop, Deinit and the       *)
(* callers interleave, every part keeps its type: no challenge has a time  *)
(* that has not come, and nothing is left to do outside Init's loops.      *)
(***************************************************************************)
THEOREM LifecycleTypes == Spec => []TypeOK
<1>1. TypeInv => TypeOK
  BY DEF TypeInv
<1> QED BY <1>1, InitTypes, StepTypes, PTL DEF Spec


-----------------------------------------------------------------------------
(* The accessor and the phases of Init.                                    *)

Configured == mFvmConfAccessor.mInitialized = TRUE

Config == mFvmConfAccessor.mConfig

(***************************************************************************)
(* The parser compiles its schema for the first text that is not empty and *)
(* refuses every text after it.  So there is a configuration only if the   *)
(* first text was good, and it is all of what was fetched from that text.  *)
(***************************************************************************)
AccessorInv ==
  /\ mFvmConfAccessor.mInitialized \in BOOLEAN
  /\ mFvmConfAccessor.mSchema \in BOOLEAN
  /\ ~mFvmConfAccessor.mSchema => Config = SokFmConfig /\ attempts = 0
  /\ mFvmConfAccessor.mSchema => attempts \in 1..2
  /\ Configured =>
       /\ mFvmConfAccessor.mSchema
       /\ file \in File /\ file.is = "object" /\ FVM_CONFIG_SCHEMA(file.doc)
       /\ Fetched(file.doc, SokFmConfig).ok
       /\ Config = Fetched(file.doc, SokFmConfig).config

(***************************************************************************)
(* Init is past its configuration only in the attempt that made it.  A     *)
(* MainFunction under way has found the FVM initialised once, even if a    *)
(* Deinit has begun since.                                                 *)
(***************************************************************************)
PhaseInv ==
  /\ pc # "idle" \/ mInitialized => Configured /\ attempts = 1 /\ ~deinitialised
  /\ mInitialized => pc = "idle"
  /\ deinit # "none" => deinitialised
  /\ deinitialised => Configured /\ pc = "idle"
  /\ loop \in {"entered", "working", "failing"} => Configured
  /\ deinitialised /\ deinit = "none" => DOMAIN mChallengeSignalToFvId = {}

LifeInv == TypeInv /\ AccessorInv /\ PhaseInv

LEMMA InitLife == Init => LifeInv
<1> SUFFICES ASSUME Init PROVE LifeInv  OBVIOUS
<1> QED BY InitTypes
        DEF Init, LifeInv, AccessorInv, PhaseInv, NewAccessor, Configured, Config

(* A chain of fetches succeeds or not. *)
LEMMA FetchedOrNot ==
  ASSUME NEW doc, NEW config
  PROVE  Fetched(doc, config).ok \in BOOLEAN
<1>1. \A c, map, entries : Emplaced(c, map, entries).ok \in BOOLEAN
  BY DEF Emplaced
<1>2. \A c : /\ fetchGeneralConfigurations(doc, c).ok \in BOOLEAN
             /\ fetchAuthenticBroadcastConfigurations(doc, c).ok \in BOOLEAN
             /\ fetchChallengeResponseConfigurations(doc, c).ok \in BOOLEAN
             /\ fetchFvDistributionSignalConfigurations(doc, c).ok \in BOOLEAN
             /\ fetchKeyConfigurations(doc, c).ok \in BOOLEAN
             /\ fetchClientsConfigurations(doc, c).ok \in BOOLEAN
  BY <1>1
  DEF fetchGeneralConfigurations, fetchAuthenticBroadcastConfigurations,
      fetchChallengeResponseConfigurations, fetchFvDistributionSignalConfigurations,
      fetchKeyConfigurations, fetchClientsConfigurations
<1> QED BY <1>2 DEF Fetched

(* What an accessor that is not configured does with a text. *)
LEMMA ConfiguredByFirstText ==
  ASSUME NEW accessor, accessor.mInitialized = FALSE,
         accessor.mSchema \in BOOLEAN, NEW text
  PROVE  LET result == AccessorInit(accessor, text) IN
         /\ result.accessor.mInitialized \in BOOLEAN
         /\ result.ok => result.accessor.mInitialized = TRUE
         /\ text.is \in {"missing", "empty"} =>
              /\ ~result.ok
              /\ result.accessor.mInitialized = FALSE
              /\ result.accessor.mSchema = accessor.mSchema
              /\ result.accessor.mConfig = accessor.mConfig
         /\ text.is \notin {"missing", "empty"} => result.accessor.mSchema = TRUE
         /\ result.accessor.mInitialized =>
              /\ ~accessor.mSchema
              /\ text.is = "object" /\ FVM_CONFIG_SCHEMA(text.doc)
              /\ Fetched(text.doc, accessor.mConfig).ok
              /\ result.accessor.mConfig = Fetched(text.doc, accessor.mConfig).config
<1>1. Fetched(text.doc, accessor.mConfig).ok \in BOOLEAN
  BY FetchedOrNot
<1>2. CASE text.is = "missing"
  BY <1>2 DEF AccessorInit
<1>3. CASE text.is # "missing"
  <2>1. AccessorInit(accessor, text).accessor = Parse(accessor, text)
        /\ AccessorInit(accessor, text).ok = Parse(accessor, text).mInitialized
    BY <1>3 DEF AccessorInit
  <2>2. CASE \/ text.is = "empty" \/ accessor.mSchema \/ text.is # "object"
             \/ ~FVM_CONFIG_SCHEMA(text.doc) \/ text.doc.version # SCHEMA_VERSION
    <3>1. /\ Parse(accessor, text).mInitialized = FALSE
          /\ Parse(accessor, text).mConfig = accessor.mConfig
      BY <2>2 DEF Parse
    <3>2. /\ text.is = "empty" => Parse(accessor, text).mSchema = accessor.mSchema
          /\ text.is # "empty" => Parse(accessor, text).mSchema = TRUE
      BY DEF Parse
    <3> QED BY <1>3, <2>1, <3>1, <3>2
  <2>3. CASE ~(\/ text.is = "empty" \/ accessor.mSchema \/ text.is # "object"
               \/ ~FVM_CONFIG_SCHEMA(text.doc) \/ text.doc.version # SCHEMA_VERSION)
    <3>1. /\ Parse(accessor, text).mInitialized = Fetched(text.doc, accessor.mConfig).ok
          /\ Parse(accessor, text).mConfig = Fetched(text.doc, accessor.mConfig).config
          /\ Parse(accessor, text).mSchema = TRUE
      BY <2>3 DEF Parse
    <3> QED BY <1>1, <2>1, <2>3, <3>1
  <2> QED BY <2>2, <2>3
<1> QED BY <1>2, <1>3

LEMMA InitConfigLife ==
  ASSUME LifeInv, InitConfig
  PROVE  AccessorInv' /\ PhaseInv'
<1> USE DEF Configured, Config
<1>1. /\ pc = "idle" /\ mInitialized = FALSE
      /\ attempts \in 0..2
      /\ UNCHANGED <<mInitialized, deinitVars, loop, mChallengeSignalToFvId>>
  BY DEF InitConfig, LifeInv, TypeInv, TypeOK
<1>2. CASE Configured
  <2>1. /\ file' = file /\ pc' = "idle" /\ mFvmConfAccessor' = mFvmConfAccessor
    BY <1>2 DEF InitConfig, AccessorInit
  <2>2. attempts \in 1..2 /\ attempts' \in 1..2
    BY <1>1, <1>2 DEF InitConfig, LifeInv, AccessorInv
  <2> QED BY <1>1, <1>2, <2>1, <2>2 DEF LifeInv, AccessorInv, PhaseInv
<1>3. CASE ~Configured
  <2> DEFINE result == AccessorInit(mFvmConfAccessor, file')
  <2>1. /\ mFvmConfAccessor.mInitialized = FALSE
        /\ mFvmConfAccessor.mSchema \in BOOLEAN
        /\ ~mFvmConfAccessor.mSchema => Config = SokFmConfig /\ attempts = 0
        /\ mFvmConfAccessor.mSchema => attempts \in 1..2
    BY <1>3 DEF LifeInv, AccessorInv
  <2>2. /\ file' \in File
        /\ mFvmConfAccessor' = result.accessor
        /\ pc' = IF result.ok THEN "keys" ELSE "idle"
        /\ attempts' = IF file'.is \in {"missing", "empty"} \/ attempts = 2
                         THEN attempts ELSE attempts + 1
    BY <2>1 DEF InitConfig
  <2>3. deinitialised = FALSE /\ deinit = "none"
        /\ loop \notin {"entered", "working", "failing"}
    BY <1>3 DEF LifeInv, PhaseInv, TypeInv, TypeOK
  <2>4. /\ result.accessor.mInitialized \in BOOLEAN
        /\ result.ok => result.accessor.mInitialized = TRUE
        /\ file'.is \in {"missing", "empty"} =>
             /\ ~result.ok
             /\ result.accessor.mInitialized = FALSE
             /\ result.accessor.mSchema = mFvmConfAccessor.mSchema
             /\ result.accessor.mConfig = mFvmConfAccessor.mConfig
        /\ file'.is \notin {"missing", "empty"} => result.accessor.mSchema = TRUE
        /\ result.accessor.mInitialized =>
             /\ ~mFvmConfAccessor.mSchema
             /\ file'.is = "object" /\ FVM_CONFIG_SCHEMA(file'.doc)
             /\ Fetched(file'.doc, mFvmConfAccessor.mConfig).ok
             /\ result.accessor.mConfig
                  = Fetched(file'.doc, mFvmConfAccessor.mConfig).config
    BY <2>1, ConfiguredByFirstText
  <2> HIDE DEF result
  <2>5. CASE file'.is \in {"missing", "empty"}
    BY <1>1, <2>1, <2>2, <2>3, <2>4, <2>5 DEF AccessorInv, PhaseInv
  <2>6. CASE file'.is \notin {"missing", "empty"}
    <3>1. attempts' \in 1..2
      BY <1>1, <2>2, <2>6
    <3>2. CASE result.accessor.mInitialized = FALSE
      BY <1>1, <2>2, <2>3, <2>4, <2>6, <3>1, <3>2 DEF AccessorInv, PhaseInv
    <3>3. CASE result.accessor.mInitialized = TRUE
      <4>1. attempts' = 1
        BY <2>1, <2>2, <2>4, <2>6, <3>3
      <4>2. Config = SokFmConfig
        BY <2>1, <2>4, <3>3
      <4> QED
        BY <1>1, <2>2, <2>3, <2>4, <2>6, <3>1, <3>3, <4>1, <4>2
        DEF AccessorInv, PhaseInv
    <3> QED BY <2>4, <3>2, <3>3
  <2> QED BY <2>5, <2>6
<1> QED BY <1>2, <1>3

(* Every other step leaves the accessor alone. *)
LEMMA KeepsConfiguration ==
  ASSUME [Next]_vars, ~InitConfig
  PROVE  UNCHANGED <<mFvmConfAccessor, file, attempts, isServer>>
<1>1. CASE InitSteps
  BY <1>1 DEF InitSteps, InitKeys, ListChallengeIds, registerToSignals, serverInit,
       serverSubscribe, participantInit, participantSubscribe, InitEnd
<1>2. CASE DestroyFVM \/ StartFvmLoop \/ StopFvmLoop \/ DeinitSteps
  BY <1>2 DEF DestroyFVM, StartFvmLoop, StopFvmLoop, DeinitSteps
<1>3. CASE MainFunction
  BY <1>3 DEF MainFunction, MainFunctionEnters, participantMainFunction,
       unauthenticatedBroadcast, answerValue, answerSignature, MainFunctionEnd
<1>4. CASE Challenges
  BY <1>4 DEF Challenges, OfferCrRequest, TriggerCrRequest, GetTxFreshness,
       VerificationStatusCallout, incomingChallengeSignalCb, storeChallenge
<1>5. CASE UNCHANGED vars
  BY <1>5
<1> QED BY <1>1, <1>2, <1>3, <1>4, <1>5 DEF Next

LEMMA StepLife == LifeInv /\ [Next]_vars => LifeInv'
<1> SUFFICES ASSUME LifeInv, [Next]_vars PROVE AccessorInv' /\ PhaseInv'
  BY StepTypes DEF LifeInv
<1>1. CASE InitConfig
  BY <1>1, InitConfigLife
<1>2. CASE ~InitConfig
  <2>1. UNCHANGED <<mFvmConfAccessor, file, attempts, isServer>>
    BY <1>2, KeepsConfiguration
  <2>2. AccessorInv'
    BY <2>1 DEF LifeInv, AccessorInv, Configured, Config
  <2> USE <2>1, <2>2 DEF LifeInv, PhaseInv, Configured
  <2>3. CASE InitKeys
    BY <2>3 DEF InitKeys
  <2>4. CASE ListChallengeIds
    BY <2>4 DEF ListChallengeIds
  <2>5. CASE registerToSignals
    BY <2>5 DEF registerToSignals
  <2>6. CASE serverInit
    BY <2>6 DEF serverInit
  <2>7. CASE serverSubscribe
    BY <2>7 DEF serverSubscribe
  <2>8. CASE participantInit
    BY <2>8 DEF participantInit
  <2>9. CASE participantSubscribe
    BY <2>9 DEF participantSubscribe
  <2>10. CASE InitEnd
    BY <2>10 DEF InitEnd
  <2>11. CASE DestroyFVM
    BY <2>11 DEF DestroyFVM, Deinit
  <2>12. CASE StopFvmLoop
    BY <2>12 DEF StopFvmLoop, Deinit
  <2>13. CASE DeinitSteps
    BY <2>13 DEF DeinitSteps, DeinitAttributes, DeinitValidity, DeinitTime,
       DeinitSignals, NoEntries
  <2>14. CASE StartFvmLoop \/ MainFunction \/ Challenges \/ UNCHANGED vars
    <3>1. UNCHANGED <<pc, mInitialized, deinitVars, mChallengeSignalToFvId>>
      BY <2>14 DEF StartFvmLoop, MainFunction, MainFunctionEnters,
           participantMainFunction, unauthenticatedBroadcast, answerValue,
           answerSignature, MainFunctionEnd, Challenges, OfferCrRequest,
           TriggerCrRequest, GetTxFreshness, VerificationStatusCallout,
           incomingChallengeSignalCb, storeChallenge
    <3>2. loop' \in {"entered", "working", "failing"} =>
            mInitialized \/ loop \in {"entered", "working", "failing"}
      BY <2>14 DEF StartFvmLoop, MainFunction, MainFunctionEnters,
         participantMainFunction, unauthenticatedBroadcast, answerValue,
         answerSignature, MainFunctionEnd, Challenges, OfferCrRequest,
         TriggerCrRequest, GetTxFreshness, VerificationStatusCallout,
         incomingChallengeSignalCb, storeChallenge
    <3> QED BY <3>1, <3>2
  <2> QED
    BY <1>2, <2>2, <2>3, <2>4, <2>5, <2>6, <2>7, <2>8, <2>9, <2>10, <2>11, <2>12,
       <2>13, <2>14
    DEF Next, InitSteps
<1> QED BY <1>1, <1>2

LEMMA LifeInvariant == Spec => []LifeInv
  BY InitLife, StepLife, PTL DEF Spec

(***************************************************************************)
(* When Deinit, one write after another, has come to its end, no challenge *)
(* gets past its look-up, since no Init ever attributes a signal again;    *)
(* only those that were past it can still be stored, whoever else runs     *)
(* between any two of the steps.                                           *)
(***************************************************************************)
THEOREM OnlyLateChallengesArrive == Spec => OnlyLateChallengesAfterDeinit
<1> DEFINE stored == {Stored(mActiveIncomingChallenges, id, mTimeSinceInit) : id \in FvId}
           erased == {Erased(mActiveIncomingChallenges, id) : id \in FvId}
<1>1. ASSUME LifeInv, Next, deinitialised, deinit = "none"
      PROVE  /\ arriving' \subseteq arriving
             /\ mActiveIncomingChallenges' \in
                  {mActiveIncomingChallenges} \cup erased
                    \cup IF arriving' = arriving THEN {} ELSE stored
  <2>1. DOMAIN mChallengeSignalToFvId = {}
    BY <1>1 DEF LifeInv, PhaseInv
  <2>2. ASSUME NEW id \in FvId, storeChallenge(id)
        PROVE  /\ arriving' = arriving \ {id} /\ id \in arriving
               /\ mActiveIncomingChallenges' \in stored
    <3>1. id \notin Range(mChallengeSignalToFvId)
      BY <2>1 DEF Range
    <3> QED BY <2>2, <3>1 DEF storeChallenge
  <2>3. ASSUME NEW id \in FvId, GetTxFreshness(id)
        PROVE  arriving' = arriving /\ mActiveIncomingChallenges' \in erased
    BY <2>3 DEF GetTxFreshness
  <2>4. ASSUME ~\E id \in FvId : storeChallenge(id) \/ GetTxFreshness(id)
        PROVE  UNCHANGED <<arriving, mActiveIncomingChallenges>>
    <3>1. CASE Challenges
      BY <2>1, <2>4, <3>1 DEF Challenges, OfferCrRequest, TriggerCrRequest,
         VerificationStatusCallout
    <3>2. CASE ~Challenges
      BY <1>1, <3>2 DEF Next, InitSteps, InitConfig, InitKeys, ListChallengeIds,
         registerToSignals, serverInit, serverSubscribe, participantInit,
         participantSubscribe, InitEnd, DestroyFVM, StartFvmLoop, StopFvmLoop,
         DeinitSteps, MainFunction, MainFunctionEnters, participantMainFunction,
         unauthenticatedBroadcast, answerValue, answerSignature, MainFunctionEnd
    <3> QED BY <3>1, <3>2
  <2> HIDE DEF stored, erased
  <2> QED BY <2>2, <2>3, <2>4
<1> QED BY <1>1, LifeInvariant, PTL DEF Spec, OnlyLateChallengesAfterDeinit

(***************************************************************************)
(* The FVM is initialised, if ever, by the first Init that found a text,   *)
(* for every file: a second one finds the parser's schema compiled.        *)
(***************************************************************************)
THEOREM InitialisedAtOnceOrNever == Spec => OnlyFirstAttemptInitialises
<1>1. ASSUME LifeInv, Next, ~mInitialized, mInitialized'
      PROVE  attempts = 1 /\ ~deinitialised
  <2>1. CASE InitEnd
    BY <1>1, <2>1 DEF InitEnd, LifeInv, PhaseInv
  <2>2. CASE ~InitEnd
    <3>1. mInitialized' = mInitialized \/ mInitialized' = FALSE
      BY <1>1, <2>2 DEF Next, InitSteps, InitConfig, InitKeys, ListChallengeIds,
           registerToSignals, serverInit, serverSubscribe, participantInit,
           participantSubscribe, DestroyFVM, StartFvmLoop, StopFvmLoop, Deinit,
           DeinitSteps,
           MainFunction, MainFunctionEnters, participantMainFunction,
           unauthenticatedBroadcast, answerValue, answerSignature,
           MainFunctionEnd, Challenges, OfferCrRequest, TriggerCrRequest,
           GetTxFreshness, VerificationStatusCallout, incomingChallengeSignalCb,
           storeChallenge
    <3> QED BY <1>1, <3>1
  <2> QED BY <2>1, <2>2
<1> QED BY <1>1, LifeInvariant, PTL DEF Spec, OnlyFirstAttemptInitialises


-----------------------------------------------------------------------------
(* What a configuration holds of its document.                             *)

IsDocument(doc) ==
  Required \subseteq DOMAIN doc /\ \A member \in Arrays : IsArray(doc[member])

(* The entries of an array, all of them and each under a key of its own,   *)
(* make up a map of a configuration; the rest of it is as before.          *)
Whole(before, map, array, entries, after) ==
  /\ DOMAIN after = DOMAIN before
  /\ \A field \in DOMAIN before \ {map} : after[field] = before[field]
  /\ DOMAIN after[map] = {entries[i].key : i \in DOMAIN array}
  /\ \A i \in DOMAIN array : after[map][entries[i].key] = entries[i].value
  /\ \A i, j \in DOMAIN array : entries[i].key = entries[j].key => i = j

(* Emplace ends at the first duplicate key, but then it has failed. *)
LEMMA EmplacedWhole ==
  ASSUME NEW config, NEW map, map \in DOMAIN config /\ DOMAIN config[map] = {},
         NEW array, IsArray(array), NEW entries, DOMAIN entries = DOMAIN array,
         NEW result, result = Emplaced(config, map, entries) /\ result.ok
  PROVE  Whole(config, map, array, entries, result.config)
<1> DEFINE Duplicate(i) == \/ entries[i].key \in DOMAIN config[map]
                           \/ \E j \in 1..(i - 1) : entries[j].key = entries[i].key
           stored == {i \in DOMAIN entries : \A j \in 1..i : ~Duplicate(j)}
           keys == {entries[i].key : i \in stored}
           At(key) == CHOOSE i \in stored : entries[i].key = key
           n == Len(array)
<1>0. n \in Nat /\ DOMAIN array = 1..n /\ DOMAIN entries = 1..n
  BY DEF IsArray
<1> HIDE DEF n
<1>1. stored = 1..n
  BY <1>0 DEF Emplaced
<1>2. ASSUME NEW i \in 1..n, NEW j \in 1..n, entries[i].key = entries[j].key
      PROVE  i = j
  <2>1. ~Duplicate(i) /\ ~Duplicate(j)
    <3>1. i \in 1..i /\ j \in 1..j
      BY <1>0
    <3>2. i \in stored /\ j \in stored
      BY <1>1
    <3> HIDE DEF Duplicate
    <3> QED BY <3>1, <3>2
  <2>2. j \notin 1..(i - 1) /\ i \notin 1..(j - 1)
    BY <1>2, <2>1
  <2> QED BY <1>0, <2>2
<1>3. \A i \in 1..n : At(entries[i].key) = i
  BY <1>1, <1>2
<1>4. /\ DOMAIN result.config = DOMAIN config
      /\ \A field \in DOMAIN config \ {map} : result.config[field] = config[field]
      /\ result.config[map] = [key \in DOMAIN config[map] \cup keys |->
           IF key \in keys THEN entries[At(key)].value ELSE config[map][key]]
  BY DEF Emplaced
<1>5. keys = {entries[i].key : i \in 1..n}
  BY <1>1
<1> HIDE DEF keys, At, stored
<1>6. \A i \in 1..n : result.config[map][entries[i].key] = entries[i].value
  BY <1>3, <1>4, <1>5
<1> QED BY <1>0, <1>2, <1>4, <1>5, <1>6 DEF Whole

ChallengeEntry(entry) ==
  [ type |-> convertStringFreshnessTypeToEnum(entry.challenge_type),
    challengeSignalConfig |-> fetchSignalConfig(entry.signal) ]

ClientEntry(entry) ==
  [ keyId |-> entry.key_id,
    clientChallengeSignal |-> fetchSignalConfig(entry.challenge_signal),
    clientResponseValueSignal |-> fetchSignalConfig(entry.response_value_signal),
    clientResponseSignatureSignal |->
      fetchSignalConfig(entry.response_signature_signal) ]

(* The signals of the distribution are those of the document. *)
HoldsSignals(config, doc) ==
  /\ config.mUnAuthFvDistributionSignal =
       fetchSignalConfig(doc.unauthenticated_fv_signal_config)
  /\ config.mAuthFvChallengeSignal =
       fetchSignalConfig(doc.authenticated_fv_value_challenge_config)
  /\ config.mAuthFvValueSignal =
       fetchSignalConfig(doc.authenticated_fv_value_signal_config)
  /\ config.mAuthFvSignatureSignal =
       fetchSignalConfig(doc.authenticated_fv_signature_signal_config)

HoldsChallenges(config, array) ==
  LET map == config.mChallengesConfig IN
  /\ DOMAIN map = {array[i].fv_id : i \in DOMAIN array}
  /\ \A i \in DOMAIN array : map[array[i].fv_id] = ChallengeEntry(array[i])
  /\ \A i, j \in DOMAIN array : array[i].fv_id = array[j].fv_id => i = j

HoldsClients(config, array) ==
  LET map == config.mFmServerClientsConfig IN
  /\ DOMAIN map = {array[i].client_ecu_name : i \in DOMAIN array}
  /\ \A i \in DOMAIN array : map[array[i].client_ecu_name] = ClientEntry(array[i])
  /\ \A i, j \in DOMAIN array :
       array[i].client_ecu_name = array[j].client_ecu_name => i = j

Holds(config, doc) ==
  /\ HoldsSignals(config, doc)
  /\ HoldsChallenges(config, doc.challenge_response_config)
  /\ HoldsClients(config, doc.clients_signals_config)
  /\ DOMAIN config.mKeyConfig = {doc.key_config[i].fv_id : i \in DOMAIN doc.key_config}

(***************************************************************************)
(* A configuration whose every fetch succeeded holds the whole document:   *)
(* Emplace ends at the first duplicate key, but then the fetch has failed. *)
(***************************************************************************)
LEMMA FetchedHolds ==
  ASSUME NEW doc, IsDocument(doc), Fetched(doc, SokFmConfig).ok
  PROVE  Holds(Fetched(doc, SokFmConfig).config, doc)
<1> DEFINE c1 == fetchGeneralConfigurations(doc, SokFmConfig).config
           r2 == fetchAuthenticBroadcastConfigurations(doc, c1)
           r3 == fetchChallengeResponseConfigurations(doc, r2.config)
           r4 == fetchFvDistributionSignalConfigurations(doc, r3.config)
           r5 == fetchKeyConfigurations(doc, r4.config)
           r6 == fetchClientsConfigurations(doc, r5.config)
           maps == {"mAuthBroadcastConfig", "mChallengesConfig", "mKeyConfig",
                    "mFmServerClientsConfig"}
           signals == {"mUnAuthFvDistributionSignal", "mAuthFvChallengeSignal",
                       "mAuthFvValueSignal", "mAuthFvSignatureSignal"}
           fields == DOMAIN SokFmConfig
<1>1. /\ r2.ok /\ r3.ok /\ r5.ok /\ r6.ok
      /\ Fetched(doc, SokFmConfig).config = r6.config
  BY DEF Fetched
<1>2. maps \subseteq fields /\ signals \subseteq fields
  BY DEF SokFmConfig
<1>3. DOMAIN c1 = fields /\ \A map \in maps : DOMAIN c1[map] = {}
  <2>1. /\ DOMAIN c1 = fields
        /\ \A field \in fields \ {"mEcuName", "mNetworkInterface",
                                   "mKeyIdForAuthFvDistribution"} :
             c1[field] = SokFmConfig[field]
    BY DEF fetchGeneralConfigurations
  <2>2. /\ SokFmConfig.mAuthBroadcastConfig = NoEntries
        /\ SokFmConfig.mChallengesConfig = NoEntries
        /\ SokFmConfig.mKeyConfig = NoEntries
        /\ SokFmConfig.mFmServerClientsConfig = NoEntries
    BY DEF SokFmConfig
  <2>3. DOMAIN NoEntries = {}
    BY DEF NoEntries
  <2> QED BY <1>2, <2>1, <2>2, <2>3
<1>4. /\ DOMAIN r2.config = fields
      /\ \A map \in maps \ {"mAuthBroadcastConfig"} : DOMAIN r2.config[map] = {}
  <2> DEFINE map == "mAuthBroadcastConfig"
             array == doc.auth_br_config
             entries == [i \in DOMAIN array |->
        [ key |-> array[i].fv_id,
          value |->
            [ type |-> convertStringFreshnessTypeToEnum(array[i].sok_freshness_type),
              sessionCounterLength |-> array[i].session_counter_length_bits % 256 ] ]]
  <2>1. IsArray(array)
    BY DEF IsDocument, Arrays
  <2>2. DOMAIN entries = DOMAIN array
    OBVIOUS
  <2>3. r2 = Emplaced(c1, map, entries) /\ r2.ok
    BY <1>1 DEF fetchAuthenticBroadcastConfigurations
  <2> HIDE DEF entries, array, c1, r2
  <2>4. map \in DOMAIN c1 /\ DOMAIN c1[map] = {}
    BY <1>2, <1>3
  <2>5. Whole(c1, map, array, entries, r2.config)
    BY <2>1, <2>2, <2>3, <2>4, EmplacedWhole
  <2> QED BY <1>2, <1>3, <2>5 DEF Whole
<1>5. /\ DOMAIN r3.config = fields
      /\ DOMAIN r3.config["mKeyConfig"] = {}
      /\ DOMAIN r3.config["mFmServerClientsConfig"] = {}
      /\ HoldsChallenges(r3.config, doc.challenge_response_config)
  <2> DEFINE map == "mChallengesConfig"
             array == doc.challenge_response_config
             entries == [i \in DOMAIN array |->
               [key |-> array[i].fv_id, value |-> ChallengeEntry(array[i])]]
  <2>1. IsArray(array)
    BY DEF IsDocument, Arrays
  <2>2. DOMAIN entries = DOMAIN array
    OBVIOUS
  <2>3. r3 = Emplaced(r2.config, map, entries) /\ r3.ok
    BY <1>1 DEF fetchChallengeResponseConfigurations, ChallengeEntry
  <2>4. \A i \in DOMAIN array :
          entries[i].key = array[i].fv_id /\ entries[i].value = ChallengeEntry(array[i])
    OBVIOUS
  <2> HIDE DEF entries, array, r2, r3
  <2>5. map \in DOMAIN r2.config /\ DOMAIN r2.config[map] = {}
    BY <1>2, <1>4
  <2>6. Whole(r2.config, map, array, entries, r3.config)
    BY <2>1, <2>2, <2>3, <2>5, EmplacedWhole
  <2>7. HoldsChallenges(r3.config, array)
    BY <2>4, <2>6 DEF HoldsChallenges, Whole
  <2> QED BY <1>2, <1>4, <2>6, <2>7 DEF array, Whole
<1>6. /\ DOMAIN r4.config = fields
      /\ DOMAIN r4.config["mKeyConfig"] = {}
      /\ DOMAIN r4.config["mFmServerClientsConfig"] = {}
      /\ HoldsChallenges(r4.config, doc.challenge_response_config)
      /\ HoldsSignals(r4.config, doc)
  <2> HIDE DEF r3
  <2>1. \A field \in fields \ signals : r4.config[field] = r3.config[field]
    BY <1>5 DEF fetchFvDistributionSignalConfigurations
  <2>2. DOMAIN r4.config = fields
    BY <1>5 DEF fetchFvDistributionSignalConfigurations
  <2>3. HoldsSignals(r4.config, doc)
    BY <1>2, <1>5 DEF fetchFvDistributionSignalConfigurations, HoldsSignals
  <2> HIDE DEF r4
  <2> QED BY <1>2, <1>5, <2>1, <2>2, <2>3 DEF HoldsChallenges
<1>7. /\ DOMAIN r5.config = fields
      /\ DOMAIN r5.config["mFmServerClientsConfig"] = {}
      /\ HoldsChallenges(r5.config, doc.challenge_response_config)
      /\ HoldsSignals(r5.config, doc)
      /\ DOMAIN r5.config.mKeyConfig = {doc.key_config[i].fv_id : i \in DOMAIN doc.key_config}
  <2> DEFINE map == "mKeyConfig"
             array == doc.key_config
             entries == [i \in DOMAIN array |->
               [key |-> array[i].fv_id, value |-> array[i].key_id]]
  <2>1. IsArray(array)
    BY DEF IsDocument, Arrays
  <2>2. DOMAIN entries = DOMAIN array
    OBVIOUS
  <2>3. r5 = Emplaced(r4.config, map, entries) /\ r5.ok
    BY <1>1 DEF fetchKeyConfigurations
  <2>4. \A i \in DOMAIN array : entries[i].key = array[i].fv_id
    OBVIOUS
  <2> HIDE DEF entries, array, r4, r5
  <2>5. map \in DOMAIN r4.config /\ DOMAIN r4.config[map] = {}
    BY <1>2, <1>6
  <2>6. Whole(r4.config, map, array, entries, r5.config)
    BY <2>1, <2>2, <2>3, <2>5, EmplacedWhole
  <2>7. DOMAIN r5.config.mKeyConfig = {array[i].fv_id : i \in DOMAIN array}
    BY <2>4, <2>6 DEF Whole
  <2>8. \A field \in fields \ {map} : r5.config[field] = r4.config[field]
    BY <1>6, <2>6 DEF Whole
  <2>9. DOMAIN r5.config = fields
    BY <1>6, <2>6 DEF Whole
  <2>10. HoldsChallenges(r5.config, doc.challenge_response_config)
    BY <1>2, <1>6, <2>8 DEF HoldsChallenges
  <2>11. HoldsSignals(r5.config, doc)
    BY <1>2, <1>6, <2>8 DEF HoldsSignals
  <2> QED BY <1>2, <1>6, <2>7, <2>8, <2>9, <2>10, <2>11 DEF array
<1>8. Holds(r6.config, doc)
  <2> DEFINE map == "mFmServerClientsConfig"
             array == doc.clients_signals_config
             entries == [i \in DOMAIN array |->
               [key |-> array[i].client_ecu_name, value |-> ClientEntry(array[i])]]
  <2>1. IsArray(array)
    BY DEF IsDocument, Arrays
  <2>2. DOMAIN entries = DOMAIN array
    OBVIOUS
  <2>3. r6 = Emplaced(r5.config, map, entries) /\ r6.ok
    BY <1>1 DEF fetchClientsConfigurations, ClientEntry
  <2>4. \A i \in DOMAIN array :
          /\ entries[i].key = array[i].client_ecu_name
          /\ entries[i].value = ClientEntry(array[i])
    OBVIOUS
  <2> HIDE DEF entries, array, r5, r6
  <2>5. map \in DOMAIN r5.config /\ DOMAIN r5.config[map] = {}
    BY <1>2, <1>7
  <2>6. Whole(r5.config, map, array, entries, r6.config)
    BY <2>1, <2>2, <2>3, <2>5, EmplacedWhole
  <2>7. HoldsClients(r6.config, array)
    BY <2>4, <2>6 DEF HoldsClients, Whole
  <2>8. \A field \in fields \ {map} : r6.config[field] = r5.config[field]
    BY <1>7, <2>6 DEF Whole
  <2>9. HoldsChallenges(r6.config, doc.challenge_response_config)
    BY <1>2, <1>7, <2>8 DEF HoldsChallenges
  <2>10. HoldsSignals(r6.config, doc)
    BY <1>2, <1>7, <2>8 DEF HoldsSignals
  <2>11. r6.config.mKeyConfig = r5.config.mKeyConfig
    BY <1>2, <2>8
  <2> QED BY <1>7, <2>7, <2>9, <2>10, <2>11 DEF array, Holds
<1> QED BY <1>1, <1>8


LEMMA ConfigurationHolds ==
  ASSUME LifeInv, Configured
  PROVE  /\ file.is = "object"
         /\ FVM_CONFIG_SCHEMA(file.doc) /\ IsDocument(file.doc)
         /\ Holds(Config, file.doc)
<1>1. /\ file \in File /\ file.is = "object" /\ FVM_CONFIG_SCHEMA(file.doc)
      /\ Fetched(file.doc, SokFmConfig).ok
      /\ Config = Fetched(file.doc, SokFmConfig).config
  BY DEF LifeInv, AccessorInv
<1>2. Required \subseteq DOMAIN file.doc /\ Arrays \subseteq Required
  BY <1>1 DEF FVM_CONFIG_SCHEMA, Required
<1>3. IsDocument(file.doc)
  BY <1>1, <1>2, FileAssumption DEF IsDocument
<1> QED BY <1>1, <1>3, FetchedHolds

(* The IDs of the challenges are finitely many natural numbers. *)
LEMMA ChallengeIds ==
  ASSUME LifeInv, Configured
  PROVE  /\ IsFiniteSet(DOMAIN Config.mChallengesConfig)
         /\ DOMAIN Config.mChallengesConfig \subseteq Nat
<1> DEFINE array == file.doc.challenge_response_config
           ids == DOMAIN Config.mChallengesConfig
           f == [i \in DOMAIN array |-> array[i].fv_id]
<1>1. ids = {array[i].fv_id : i \in DOMAIN array}
  BY ConfigurationHolds DEF Holds, HoldsChallenges
<1>2. ids \subseteq Nat
  BY <1>1, ConfigurationHolds DEF FVM_CONFIG_SCHEMA
<1>3. Len(array) \in Nat /\ DOMAIN array = 1..Len(array)
  BY ConfigurationHolds DEF IsDocument, IsArray, Arrays
<1>4. IsFiniteSet(DOMAIN array)
  BY <1>3, FS_Interval
<1>5. f \in Surjection(DOMAIN array, ids)
  BY <1>1 DEF Surjection
<1> HIDE DEF ids, f, array
<1>6. IsFiniteSet(ids)
  BY <1>4, <1>5, FS_Surjection
<1> QED BY <1>2, <1>6 DEF ids

(***************************************************************************)
(* With one ID, the list that counts on from it is that ID alone, and      *)
(* every object that is taken is there.                                    *)
(***************************************************************************)
SingleInv ==
  LET ids == DOMAIN Config.mChallengesConfig IN
  Cardinality(ids) = 1 =>
    ~dead /\ (pc = "register" => todo = <<>> \/ \E id \in ids : todo = <<id>>)

LEMMA StepSingle ==
  ASSUME LifeInv, SingleInv, [Next]_vars
  PROVE  SingleInv'
<1> DEFINE ids == DOMAIN Config.mChallengesConfig
<1>1. CASE InitConfig
  <2>1. CASE UNCHANGED vars
    BY <2>1 DEF SingleInv, Config
  <2>2. CASE Next
    <3>1. pc' # "register" /\ dead' = dead
      BY <1>1 DEF InitConfig
    <3> QED BY <2>2, <3>1 DEF SingleInv, Next
  <2> QED BY <2>1, <2>2
<1>2. CASE ~InitConfig
  <2> SUFFICES ASSUME Cardinality(ids) = 1
               PROVE  ~dead' /\ (pc' = "register" =>
                                   todo' = <<>> \/ \E id \in ids : todo' = <<id>>)
    BY <1>2, KeepsConfiguration DEF SingleInv, Config
  <2>1. ~dead /\ (pc = "register" => todo = <<>> \/ \E id \in ids : todo = <<id>>)
    BY DEF SingleInv
  <2>2. CASE ListChallengeIds
    <3>1. Configured
      BY <2>2 DEF ListChallengeIds, LifeInv, PhaseInv
    <3>2. PICK one : ids = {one}
      BY <3>1, ChallengeIds, FS_Singleton
    <3>3. one \in Nat
      BY <3>1, <3>2, ChallengeIds
    <3>4. Counted(mFvmConfAccessor, one, 1) = <<one>>
      BY <3>1, <3>3 DEF Counted, Configured
    <3>5. GetAllChallengeFreshnessValueIds(mFvmConfAccessor) = {<<one>>}
      BY <3>1, <3>2, <3>4
      DEF GetAllChallengeFreshnessValueIds, Configured, Config
    <3>6. todo' = <<one>> /\ dead' = dead
      BY <2>2, <3>5 DEF ListChallengeIds
    <3> QED BY <2>1, <3>2, <3>6
  <2>3. CASE registerToSignals
    <3>1. Configured /\ pc = "register" /\ todo # <<>>
      BY <2>3 DEF registerToSignals, LifeInv, PhaseInv
    <3>2. PICK id \in ids : todo = <<id>>
      BY <2>1, <3>1
    <3>3. ~getObjectAsserts(GetChallengeConfigInstanceByFvId(mFvmConfAccessor, Head(todo)))
      BY <3>1, <3>2 DEF GetChallengeConfigInstanceByFvId, Find, ObjectResult,
         getObjectAsserts, Configured, Config
    <3>4. dead' = dead /\ todo' = <<>>
      BY <2>3, <3>2, <3>3 DEF registerToSignals
    <3> QED BY <2>1, <3>4
  <2>4. CASE ~ListChallengeIds /\ ~registerToSignals
    <3>1. dead' = dead /\ (pc' = "register" => pc = "register" /\ todo' = todo)
      BY <1>2, <2>4 DEF Next, InitSteps, InitKeys, serverInit, serverSubscribe,
         participantInit, participantSubscribe, InitEnd, DestroyFVM, StartFvmLoop,
         StopFvmLoop, DeinitSteps, MainFunction, MainFunctionEnters,
         participantMainFunction, unauthenticatedBroadcast, answerValue,
         answerSignature, MainFunctionEnd, Challenges, OfferCrRequest,
         TriggerCrRequest, GetTxFreshness, VerificationStatusCallout,
         incomingChallengeSignalCb, storeChallenge
    <3> QED BY <2>1, <3>1
  <2> QED BY <2>2, <2>3, <2>4
<1> QED BY <1>1, <1>2

(***************************************************************************)
(* No file with one challenge ID, whatever its number, makes Init end the  *)
(* process by an assertion.                                                *)
(***************************************************************************)
THEOREM OneChallengeIdNeverAsserts == Spec => []SingleChallengeIdIsSafe
<1>1. Init => SingleInv
  BY DEF Init, SingleInv
<1>2. SingleInv => SingleChallengeIdIsSafe
  BY DEF SingleInv, SingleChallengeIdIsSafe, Config
<1> QED BY <1>1, <1>2, LifeInvariant, StepSingle, PTL DEF Spec


-----------------------------------------------------------------------------
(* Setting up.                                                             *)

Handled == DOMAIN mSignalEventHandlers

ChallengeSignal(id) == Config.mChallengesConfig[id].challengeSignalConfig.name

ClientSignal(client) == Config.mFmServerClientsConfig[client].clientChallengeSignal.name

Challenged == DOMAIN Config.mChallengesConfig

Clients == DOMAIN Config.mFmServerClientsConfig

(* The files the theorems speak of: see SignalsApart. *)
FilesApart ==
  \A text \in File : text.is = "object" /\ FVM_CONFIG_SCHEMA(text.doc)
    => SignalsApart(text.doc)

ConfiguredSignals == {fetchSignalConfig(s) : s \in SignalsOf(file.doc)}

(***************************************************************************)
(* A PDU is in the cache as soon as it is activated, and by then its frame *)
(* is in its own: the code looks for a PDU only where it knows the frame.  *)
(***************************************************************************)
PduInv ==
  /\ DOMAIN mFramesCache = Direction
  /\ DOMAIN mPdusCache = Direction
  /\ DOMAIN activated = Direction
  /\ \A d \in Direction :
       /\ DOMAIN activated[d] = DOMAIN mPdusCache[d]
       /\ \A pdu \in DOMAIN activated[d] : activated[d][pdu] = 1
       /\ ~Configured => DOMAIN mPdusCache[d] = {}
       /\ Configured => \A signalConfig \in ConfiguredSignals :
            PduName(signalConfig) \in DOMAIN mPdusCache[d]
              => FrameName(signalConfig) \in DOMAIN mFramesCache[d]

(* The server answers clients of its configuration only. *)
ClientInv ==
  /\ ~Configured => DOMAIN mClientNameToKeyId = {} /\ answering = {}
  /\ Configured => /\ DOMAIN mClientNameToKeyId \subseteq Clients
                   /\ answering \subseteq Clients

(***************************************************************************)
(* Each signal is subscribed to once, because what is left to do is not    *)
(* done yet: the challenges' list counts on without repetition, a client   *)
(* comes up once, and the signals' names differ.                           *)
(***************************************************************************)
Value == Config.mAuthFvValueSignal
Signature == Config.mAuthFvSignatureSignal
Time == Config.mUnAuthFvDistributionSignal

Served(client) ==
  /\ client \in DOMAIN mClientNameToKeyId
  /\ mClientNameToKeyId[client] = Config.mFmServerClientsConfig[client].keyId
  /\ ClientSignal(client) \in Handled

HandledInv ==
  /\ \A signal \in Handled : mSignalEventHandlers[signal] = 1
  /\ ~Configured \/ pc \in {"keys", "signals"} =>
       Handled = {} /\ DOMAIN mChallengeSignalToFvId = {}

RegisterInv ==
  pc = "register" =>
    /\ todo \in Seq(Int) /\ IsInjective(todo)
    /\ Handled \subseteq {ChallengeSignal(id) : id \in Challenged}
    /\ \A id \in Range(todo) \cap Challenged : ChallengeSignal(id) \notin Handled

ServerInv ==
  pc = "distribution" /\ isServer =>
    /\ todo \in Seq(Clients) /\ IsInjective(todo)
    /\ \A client \in Range(todo) : ClientSignal(client) \notin Handled
    /\ \A client \in Clients \ Range(todo) : Served(client)

Left(signals, value, signature, time, handled, all) ==
  \/ signals = <<value, signature, time>>
       /\ {value.name, signature.name, time.name} \cap handled = {}
  \/ signals = <<signature, time>>
       /\ {signature.name, time.name} \cap handled = {}
       /\ (all = TRUE => value.name \in handled)
  \/ signals = <<time>>
       /\ time.name \notin handled
       /\ (all = TRUE => {value.name, signature.name} \subseteq handled)
  \/ signals = <<>>
       /\ (all = TRUE => {value.name, signature.name, time.name} \subseteq handled)

ParticipantInv ==
  pc = "distribution" /\ ~isServer =>
    Left(todo, Value, Signature, Time, Handled, allSubscribed)

(* A challenge's signal is heard exactly if it is attributed to its ID. *)
AttributionInv ==
  Configured /\ ~deinitialised =>
    \A id \in Challenged :
      LET signal == ChallengeSignal(id) IN
      (signal \in Handled) <=>
        /\ signal \in DOMAIN mChallengeSignalToFvId
        /\ mChallengeSignalToFvId[signal] = id
        /\ Config.mChallengesConfig[id].type = "kVwSokFreshnessCrResponse"

(* What has been found and subscribed to stays. *)
CompleteInv ==
  /\ pc \in {"signals", "register", "distribution"} \/ mInitialized =>
       (DOMAIN Config.mKeyConfig # {} => KeyStr \in mKeysMap)
  /\ mInitialized =>
       IF isServer THEN \A client \in Clients : Served(client)
                   ELSE {Value.name, Signature.name, Time.name} \subseteq Handled

(***************************************************************************)
(* Each challenge to answer is heard once it has been gone through, or has *)
(* been skipped; of a list that names IDs which are not there, the process *)
(* does not see the end.                                                   *)
(***************************************************************************)
HeardOrSkipped(id) ==
  Config.mChallengesConfig[id].type = "kVwSokFreshnessCrResponse" =>
    ChallengeSignal(id) \in Handled \/ id \in skipped

GoneThrough(done) ==
  /\ Cardinality(done) + Len(todo) = Cardinality(Challenged)
  /\ Range(todo) \cap done = {}
  /\ \A id \in done : HeardOrSkipped(id)

ChallengesInv ==
  /\ ~Configured \/ pc \in {"keys", "signals"} => skipped = {}
  /\ pc = "register" =>
       /\ skipped \cap Range(todo) = {}
       /\ dead = FALSE => \E done \in SUBSET Challenged : GoneThrough(done)
  /\ pc = "distribution" \/ mInitialized => \A id \in Challenged : HeardOrSkipped(id)
  /\ \A id \in skipped \cap Challenged :
       ~ /\ ChallengeSignal(id) \in DOMAIN mChallengeSignalToFvId
         /\ mChallengeSignalToFvId[ChallengeSignal(id)] = id

SetUpInv ==
  /\ HandledInv /\ RegisterInv /\ ServerInv /\ ParticipantInv
  /\ AttributionInv /\ CompleteInv


(* The head of a sequence without repetition does not come again. *)
LEMMA Pop ==
  ASSUME NEW S, NEW s \in Seq(S), s # <<>>, IsInjective(s)
  PROVE  /\ Head(s) \in S /\ Tail(s) \in Seq(S) /\ IsInjective(Tail(s))
         /\ Head(s) \notin Range(Tail(s))
         /\ Range(s) = {Head(s)} \cup Range(Tail(s))
<1>1. /\ Head(s) \in S /\ Tail(s) \in Seq(S)
      /\ Head(s) = s[1] /\ Len(s) \in Nat /\ 1 \in 1..Len(s)
      /\ DOMAIN s = 1..Len(s)
      /\ DOMAIN Tail(s) = 1..(Len(s) - 1)
      /\ \A i \in DOMAIN Tail(s) : Tail(s)[i] = s[i + 1]
  OBVIOUS
<1>2. IsInjective(Tail(s))
  <2> SUFFICES ASSUME NEW i \in DOMAIN Tail(s), NEW j \in DOMAIN Tail(s),
                      Tail(s)[i] = Tail(s)[j]
               PROVE  i = j
    BY DEF IsInjective
  <2>1. i + 1 \in DOMAIN s /\ j + 1 \in DOMAIN s /\ s[i + 1] = s[j + 1]
    BY <1>1
  <2>2. i + 1 = j + 1
    BY <2>1 DEF IsInjective
  <2> QED BY <1>1, <2>2
<1>3. Head(s) \notin Range(Tail(s))
  <2> SUFFICES ASSUME NEW i \in DOMAIN Tail(s), Tail(s)[i] = Head(s) PROVE FALSE
    BY DEF Range
  <2>1. i + 1 \in DOMAIN s /\ 1 \in DOMAIN s /\ s[i + 1] = s[1]
    BY <1>1
  <2>2. i + 1 = 1
    BY <2>1 DEF IsInjective
  <2> QED BY <1>1, <2>2
<1>4. ASSUME NEW i \in DOMAIN s
      PROVE  s[i] \in {Head(s)} \cup Range(Tail(s))
  <2>1. CASE i = 1
    BY <1>1, <2>1
  <2>2. CASE i # 1
    <3>1. i - 1 \in DOMAIN Tail(s) /\ Tail(s)[i - 1] = s[i]
      BY <1>1, <2>2
    <3> QED BY <3>1 DEF Range
  <2> QED BY <2>1, <2>2
<1>5. ASSUME NEW i \in DOMAIN Tail(s)
      PROVE  Tail(s)[i] \in Range(s)
  <2>1. i + 1 \in DOMAIN s /\ Tail(s)[i] = s[i + 1]
    BY <1>1
  <2> QED BY <2>1 DEF Range
<1>6. Head(s) \in Range(s)
  BY <1>1 DEF Range
<1> QED BY <1>1, <1>2, <1>3, <1>4, <1>5, <1>6 DEF Range

LEMMA RangeInSet ==
  ASSUME NEW S, NEW s \in Seq(S)
  PROVE  Range(s) \subseteq S
  BY DEF Range

(* An order of a finite set has each of its elements once. *)
LEMMA OrderOfSet ==
  ASSUME NEW S, IsFiniteSet(S), NEW s \in SetToSeqs(S)
  PROVE  s \in Seq(S) /\ IsInjective(s) /\ Range(s) = S
<1> DEFINE n == Cardinality(S)
<1>1. n \in Nat
  BY FS_CardinalityType
<1>2. s \in [1..n -> S] /\ \A i, j \in 1..n : i # j => s[i] # s[j]
  BY DEF SetToSeqs
<1> HIDE DEF n
<1>3. s \in Seq(S)
  BY <1>1, <1>2
<1>4. IsInjective(s)
  BY <1>2 DEF IsInjective
<1>5. s \in Injection(1..n, S)
  BY <1>2 DEF Injection, IsInjective
<1>6. Cardinality(1..n) = n
  BY <1>1, FS_Interval
<1>7. s \in Surjection(1..n, S)
  BY <1>5, <1>6, FS_Injection DEF n
<1>8. Range(s) = S
  BY <1>2, <1>7 DEF Surjection, Range
<1> QED BY <1>3, <1>4, <1>8

CachesKept == UNCHANGED <<mFramesCache, mPdusCache, activated>>

(* What a call leaves of the handlers and of the caches. *)
LEMMA Subscribes ==
  ASSUME NEW signalConfig, NEW failure, subscribe(signalConfig, failure)
  PROVE  /\ failure = "none" =>
              mSignalEventHandlers' = Count(mSignalEventHandlers, signalConfig.name)
         /\ failure # "none" => mSignalEventHandlers' = mSignalEventHandlers
         /\ \/ CachesKept
            \/ createSignal("incoming", signalConfig, Interface, failure)
  BY DEF subscribe, Subscribe, createIncomingSignal, CachesKept

LEMMA Publishes ==
  ASSUME NEW signalConfig, NEW failure, publish(signalConfig, failure)
  PROVE  /\ mSignalEventHandlers' = mSignalEventHandlers
         /\ \/ CachesKept
            \/ createSignal("outgoing", signalConfig, Interface, failure)
  BY DEF publish, Publish, createOutgoingSignal, CachesKept


(* What SignalsApart says of the configuration. *)
LEMMA Apart ==
  ASSUME LifeInv, Configured, FilesApart
  PROVE  /\ \A i, j \in Challenged : ChallengeSignal(i) = ChallengeSignal(j) => i = j
         /\ \A c, d \in Clients : ClientSignal(c) = ClientSignal(d) => c = d
         /\ Value.name # Signature.name /\ Value.name # Time.name
         /\ Signature.name # Time.name
         /\ \A i \in Challenged :
              /\ ChallengeSignal(i) \notin {Value.name, Signature.name, Time.name}
              /\ \A c \in Clients : ChallengeSignal(i) # ClientSignal(c)
<1> DEFINE doc == file.doc
           challenges == doc.challenge_response_config
           clients == doc.clients_signals_config
           challenge(i) == challenges[i].signal.signal_config.name
           client(i) == clients[i].challenge_signal.signal_config.name
           section(member) == doc[member].signal_config.name
<1>1. /\ Holds(Config, doc)
      /\ SignalsApart(doc)
  BY ConfigurationHolds DEF LifeInv, AccessorInv, FilesApart
<1>2. /\ \A i, j \in DOMAIN challenges : i # j => challenge(i) # challenge(j)
      /\ \A i, j \in DOMAIN clients : i # j => client(i) # client(j)
      /\ \A m, n \in Heard : m # n => section(m) # section(n)
      /\ \A i \in DOMAIN challenges :
           /\ \A j \in DOMAIN clients : challenge(i) # client(j)
           /\ \A m \in Heard : challenge(i) # section(m)
  BY <1>1 DEF SignalsApart
<1>3. ASSUME NEW id \in Challenged
      PROVE  \E i \in DOMAIN challenges :
               challenges[i].fv_id = id /\ ChallengeSignal(id) = challenge(i)
  <2>1. PICK i \in DOMAIN challenges :
          /\ challenges[i].fv_id = id
          /\ Config.mChallengesConfig[id] = ChallengeEntry(challenges[i])
    BY <1>1 DEF Holds, HoldsChallenges, Challenged
  <2>2. ChallengeSignal(id) = challenge(i)
    BY <2>1 DEF ChallengeSignal, ChallengeEntry, fetchSignalConfig, SignalConfig
  <2> QED BY <2>1, <2>2
<1>4. ASSUME NEW name \in Clients
      PROVE  \E i \in DOMAIN clients :
               clients[i].client_ecu_name = name /\ ClientSignal(name) = client(i)
  <2>1. PICK i \in DOMAIN clients :
          /\ clients[i].client_ecu_name = name
          /\ Config.mFmServerClientsConfig[name] = ClientEntry(clients[i])
    BY <1>1 DEF Holds, HoldsClients, Clients
  <2>2. ClientSignal(name) = client(i)
    BY <2>1 DEF ClientSignal, ClientEntry, fetchSignalConfig, SignalConfig
  <2> QED BY <2>1, <2>2
<1>5. /\ Value.name = section("authenticated_fv_value_signal_config")
      /\ Signature.name = section("authenticated_fv_signature_signal_config")
      /\ Time.name = section("unauthenticated_fv_signal_config")
  BY <1>1 DEF Holds, HoldsSignals, Value, Signature, Time, fetchSignalConfig,
     SignalConfig
<1>6. {"authenticated_fv_value_signal_config",
       "authenticated_fv_signature_signal_config",
       "unauthenticated_fv_signal_config"} \subseteq Heard
  BY DEF Heard, SignalSections
<1> HIDE DEF challenge, client, section, challenges, clients, doc
<1>7. \A i, j \in Challenged : ChallengeSignal(i) = ChallengeSignal(j) => i = j
  BY <1>2, <1>3
<1>8. \A c, d \in Clients : ClientSignal(c) = ClientSignal(d) => c = d
  BY <1>2, <1>4
<1>9. Value.name # Signature.name /\ Value.name # Time.name
      /\ Signature.name # Time.name
  BY <1>2, <1>5, <1>6
<1>10. \A i \in Challenged :
         /\ ChallengeSignal(i) \notin {Value.name, Signature.name, Time.name}
         /\ \A c \in Clients : ChallengeSignal(i) # ClientSignal(c)
  BY <1>2, <1>3, <1>4, <1>5, <1>6
<1> QED BY <1>7, <1>8, <1>9, <1>10

(* Whatever is subscribed to or published comes from the document. *)
LEMMA SignalsConfigured ==
  ASSUME LifeInv, Configured
  PROVE  /\ {Value, Signature, Time, Config.mAuthFvChallengeSignal}
              \subseteq ConfiguredSignals
         /\ \A id \in Challenged :
              Config.mChallengesConfig[id].challengeSignalConfig \in ConfiguredSignals
         /\ \A name \in Clients :
              LET client == Config.mFmServerClientsConfig[name] IN
              {client.clientChallengeSignal, client.clientResponseValueSignal,
               client.clientResponseSignatureSignal} \subseteq ConfiguredSignals
<1> DEFINE doc == file.doc
<1>1. Holds(Config, doc)
  BY ConfigurationHolds
<1>2. {Value, Signature, Time, Config.mAuthFvChallengeSignal} \subseteq ConfiguredSignals
  BY <1>1 DEF Holds, HoldsSignals, Value, Signature, Time, ConfiguredSignals,
     SignalsOf, SignalSections
<1>3. ASSUME NEW id \in Challenged
      PROVE  Config.mChallengesConfig[id].challengeSignalConfig \in ConfiguredSignals
  <2>1. PICK i \in DOMAIN doc.challenge_response_config :
          Config.mChallengesConfig[id] = ChallengeEntry(doc.challenge_response_config[i])
    BY <1>1 DEF Holds, HoldsChallenges, Challenged
  <2>2. doc.challenge_response_config[i].signal \in SignalsOf(doc)
    BY DEF SignalsOf
  <2> QED BY <2>1, <2>2 DEF ChallengeEntry, ConfiguredSignals
<1>4. ASSUME NEW name \in Clients
      PROVE  LET client == Config.mFmServerClientsConfig[name] IN
             {client.clientChallengeSignal, client.clientResponseValueSignal,
              client.clientResponseSignatureSignal} \subseteq ConfiguredSignals
  <2>1. PICK i \in DOMAIN doc.clients_signals_config :
          Config.mFmServerClientsConfig[name] = ClientEntry(doc.clients_signals_config[i])
    BY <1>1 DEF Holds, HoldsClients, Clients
  <2>2. \A member \in ClientSignals :
          doc.clients_signals_config[i][member] \in SignalsOf(doc)
    BY DEF SignalsOf
  <2>3. LET client == doc.clients_signals_config[i] IN
        {client.challenge_signal, client.response_value_signal,
         client.response_signature_signal} \subseteq SignalsOf(doc)
    BY <2>2 DEF ClientSignals
  <2> QED BY <2>1, <2>3 DEF ClientEntry, ConfiguredSignals
<1> QED BY <1>2, <1>3, <1>4


-----------------------------------------------------------------------------
(* Each PDU is activated once.                                             *)

(* A signal that is created finds its PDU, or finds it nowhere. *)
LEMMA CreateKeepsPdus ==
  ASSUME LifeInv, FilesApart, PduInv, Configured, Configured',
         NEW d \in Direction, NEW signalConfig \in ConfiguredSignals, NEW interface,
         NEW failure, createSignal(d, signalConfig, interface, failure),
         file' = file
  PROVE  PduInv'
<1> DEFINE frame == FrameName(signalConfig)
           pdu == PduName(signalConfig)
<1>1. ConfiguredSignals' = ConfiguredSignals
  BY DEF ConfiguredSignals
<1>2. /\ DOMAIN mFramesCache' = Direction
      /\ \A e \in Direction : DOMAIN mFramesCache[e] \subseteq DOMAIN mFramesCache'[e]
      /\ failure # "frame" => frame \in DOMAIN mFramesCache'[d]
  BY DEF PduInv, createSignal, FrameCached, Stored
<1>3. \A s, t \in ConfiguredSignals :
        PduName(s) = PduName(t) => FrameName(s) = FrameName(t)
  <2>1. SignalsApart(file.doc)
    BY DEF LifeInv, AccessorInv, FilesApart
  <2> QED BY <2>1 DEF SignalsApart, ConfiguredSignals, PduName, FrameName,
             fetchSignalConfig, SignalConfig
<1>4. CASE UNCHANGED <<mPdusCache, activated>>
  <2>1. \A e \in Direction : \A s \in ConfiguredSignals :
          PduName(s) \in DOMAIN mPdusCache'[e] => FrameName(s) \in DOMAIN mFramesCache'[e]
    BY <1>2, <1>4 DEF PduInv
  <2> QED BY <1>1, <1>2, <1>4, <2>1 DEF PduInv
<1>5. CASE ~UNCHANGED <<mPdusCache, activated>>
  <2>1. /\ failure # "frame" /\ ~PduCached(d, signalConfig)
        /\ mPdusCache' = [mPdusCache EXCEPT ![d] = Stored(@, pdu, frame)]
        /\ activated' = [activated EXCEPT ![d] = Count(@, pdu)]
    BY <1>5 DEF createSignal, createPdu
  <2>2. pdu \notin DOMAIN mPdusCache[d]
    BY <2>1 DEF PduInv, PduCached, FrameCached
  <2>3. /\ DOMAIN mPdusCache' = Direction /\ DOMAIN activated' = Direction
        /\ DOMAIN mPdusCache'[d] = DOMAIN mPdusCache[d] \cup {pdu}
        /\ \A e \in Direction \ {d} : /\ mPdusCache'[e] = mPdusCache[e]
                                      /\ activated'[e] = activated[e]
    BY <2>1 DEF PduInv, Stored
  <2>4. /\ DOMAIN activated'[d] = DOMAIN activated[d] \cup {pdu}
        /\ \A p \in DOMAIN activated'[d] : activated'[d][p] = 1
    BY <2>1, <2>2 DEF PduInv, Count
  <2>5. ASSUME NEW e \in Direction, NEW s \in ConfiguredSignals,
               PduName(s) \in DOMAIN mPdusCache'[e]
        PROVE  FrameName(s) \in DOMAIN mFramesCache'[e]
    <3>1. CASE PduName(s) \in DOMAIN mPdusCache[e]
      BY <1>2, <3>1 DEF PduInv
    <3>2. CASE PduName(s) \notin DOMAIN mPdusCache[e]
      <4>1. e = d /\ PduName(s) = pdu
        BY <2>3, <2>5, <3>2
      <4> QED BY <1>2, <1>3, <2>1, <4>1
    <3> QED BY <3>1, <3>2
  <2> QED BY <1>1, <1>2, <2>3, <2>4, <2>5 DEF PduInv
<1> QED BY <1>4, <1>5

(* The caches change by the creation of a signal of the document. *)
Creates ==
  /\ Configured
  /\ \E d \in Direction, signalConfig \in ConfiguredSignals, failure \in Failure :
       createSignal(d, signalConfig, Interface, failure)


LEMMA CallCreates ==
  ASSUME Configured, NEW signalConfig \in ConfiguredSignals, NEW failure \in Failure,
         subscribe(signalConfig, failure) \/ publish(signalConfig, failure)
  PROVE  CachesKept \/ Creates
  BY Subscribes, Publishes DEF Creates, Direction

LEMMA StepCreates ==
  ASSUME LifeInv, ClientInv, ServerInv, ParticipantInv, [Next]_vars
  PROVE  CachesKept \/ Creates
<1>1. CASE registerToSignals
  <2> DEFINE entry == GetChallengeConfigInstanceByFvId(mFvmConfAccessor, Head(todo))
  <2>1. Configured
    BY <1>1 DEF registerToSignals, LifeInv, PhaseInv
  <2>2. CASE getObjectAsserts(entry)
    BY <1>1, <2>2 DEF registerToSignals, CachesKept
  <2>3. CASE ~getObjectAsserts(entry)
    <3>1. Head(todo) \in Challenged
          /\ getObject(entry) = Config.mChallengesConfig[Head(todo)]
      BY <2>1, <2>3 DEF GetChallengeConfigInstanceByFvId, Find, getObjectAsserts,
         getObject, ErrorResult, ObjectResult, Configured, Challenged, Config
    <3>2. getObject(entry).challengeSignalConfig \in ConfiguredSignals
      BY <2>1, <3>1, SignalsConfigured
    <3>3. \/ UNCHANGED signalVars
          \/ \E failure \in Failure :
               subscribe(getObject(entry).challengeSignalConfig, failure)
      BY <1>1, <2>3 DEF registerToSignals
    <3> QED BY <2>1, <3>2, <3>3, CallCreates DEF CachesKept
  <2> QED BY <2>2, <2>3
<1>2. CASE serverSubscribe
  <2> DEFINE client == Config.mFmServerClientsConfig[Head(todo)]
  <2>1. Configured /\ pc = "distribution" /\ isServer /\ todo # <<>>
    BY <1>2 DEF serverSubscribe, LifeInv, PhaseInv
  <2>2. Head(todo) \in Clients
    BY <2>1 DEF ServerInv
  <2>3. client.clientChallengeSignal \in ConfiguredSignals
    BY <2>1, <2>2, SignalsConfigured
  <2>4. GetClientsConfigMap(mFvmConfAccessor)[Head(todo)] = client
    BY <2>1 DEF GetClientsConfigMap, Get, Configured, Config
  <2>5. \/ UNCHANGED signalVars
        \/ \E failure \in Failure : subscribe(client.clientChallengeSignal, failure)
    BY <1>2, <2>4 DEF serverSubscribe
  <2> QED BY <2>1, <2>3, <2>5, CallCreates DEF CachesKept
<1>3. CASE participantSubscribe
  <2>1. Configured /\ pc = "distribution" /\ ~isServer /\ todo # <<>>
    BY <1>3 DEF participantSubscribe, LifeInv, PhaseInv
  <2>2. Head(todo) \in {Value, Signature, Time}
    BY <2>1 DEF ParticipantInv, Left
  <2>3. Head(todo) \in ConfiguredSignals
    BY <2>1, <2>2, SignalsConfigured
  <2>4. \E failure \in Failure : subscribe(Head(todo), failure)
    BY <1>3 DEF participantSubscribe
  <2> QED BY <2>1, <2>3, <2>4, CallCreates
<1>4. CASE participantMainFunction
  <2>1. Configured
    BY <1>4 DEF participantMainFunction, LifeInv, PhaseInv
  <2>2. GetAuthenticatedFvChallengeSignalConfig(mFvmConfAccessor)
          = Config.mAuthFvChallengeSignal
    BY <2>1 DEF GetAuthenticatedFvChallengeSignalConfig, Get, Configured, Config
  <2>3. \/ UNCHANGED signalVars
        \/ \E failure \in Failure : publish(Config.mAuthFvChallengeSignal, failure)
    BY <1>4, <2>2 DEF participantMainFunction, requestAnAuthenticFv,
       processAnAuthenticFv, dropOrIdle
  <2>4. Config.mAuthFvChallengeSignal \in ConfiguredSignals
    BY <2>1, SignalsConfigured
  <2> QED BY <2>1, <2>3, <2>4, CallCreates DEF CachesKept
<1>5. CASE unauthenticatedBroadcast
  <2>1. Configured
    BY <1>5 DEF unauthenticatedBroadcast, LifeInv, PhaseInv
  <2>2. GetUnauthenticatedFvSignalConfig(mFvmConfAccessor) = Time
    BY <2>1 DEF GetUnauthenticatedFvSignalConfig, Get, Configured, Config, Time
  <2>3. \/ UNCHANGED signalVars
        \/ \E failure \in Failure : publish(Time, failure)
    BY <1>5, <2>2 DEF unauthenticatedBroadcast
  <2>4. Time \in ConfiguredSignals
    BY <2>1, SignalsConfigured
  <2> QED BY <2>1, <2>3, <2>4, CallCreates DEF CachesKept
<1>6. CASE answerValue
  <2>1. PICK client \in DOMAIN mClientNameToKeyId :
          \/ UNCHANGED signalVars
          \/ \E failure \in Failure :
               publish(GetClientsConfigMap(mFvmConfAccessor)[client].clientResponseValueSignal,
                       failure)
    BY <1>6 DEF answerValue
  <2>2. Configured /\ client \in Clients
    BY DEF ClientInv
  <2>3. GetClientsConfigMap(mFvmConfAccessor) = Config.mFmServerClientsConfig
    BY <2>2 DEF GetClientsConfigMap, Get, Configured, Config
  <2>4. Config.mFmServerClientsConfig[client].clientResponseValueSignal
          \in ConfiguredSignals
    BY <2>2, SignalsConfigured
  <2> QED BY <2>1, <2>2, <2>3, <2>4, CallCreates DEF CachesKept
<1>7. CASE answerSignature
  <2>0. PICK client \in answering :
          \E failure \in Failure :
            publish(GetClientsConfigMap(mFvmConfAccessor)[client].clientResponseSignatureSignal,
                    failure)
    BY <1>7 DEF answerSignature
  <2>1. Configured /\ client \in Clients
    BY <2>0 DEF ClientInv
  <2>2. GetClientsConfigMap(mFvmConfAccessor) = Config.mFmServerClientsConfig
    BY <2>1 DEF GetClientsConfigMap, Get, Configured, Config
  <2>3. Config.mFmServerClientsConfig[client].clientResponseSignatureSignal
          \in ConfiguredSignals
    BY <2>1, SignalsConfigured
  <2>4. \E failure \in Failure :
          publish(Config.mFmServerClientsConfig[client].clientResponseSignatureSignal,
                  failure)
    BY <2>0, <2>2
  <2> QED BY <2>1, <2>3, <2>4, CallCreates
<1>8. ASSUME NEW id \in FvId, TriggerCrRequest(id) PROVE CachesKept \/ Creates
  <2> DEFINE entry == GetChallengeConfigInstanceByFvId(mFvmConfAccessor, id)
  <2>1. isSucceeded(entry)
    BY <1>8 DEF TriggerCrRequest
  <2>2. /\ Configured /\ id \in Challenged
        /\ getObject(entry) = Config.mChallengesConfig[id]
    BY <2>1 DEF GetChallengeConfigInstanceByFvId, Find, isSucceeded, getObject,
       ErrorResult, ObjectResult, Configured, Challenged, Config, LifeInv, AccessorInv
  <2>3. Config.mChallengesConfig[id].challengeSignalConfig \in ConfiguredSignals
    BY <2>2, SignalsConfigured
  <2>4. \E failure \in Failure :
          publish(Config.mChallengesConfig[id].challengeSignalConfig, failure)
    BY <1>8, <2>2 DEF TriggerCrRequest
  <2> QED BY <2>2, <2>3, <2>4, CallCreates
<1>9. CASE \/ InitSteps /\ ~registerToSignals /\ ~serverSubscribe /\ ~participantSubscribe
           \/ DestroyFVM \/ StartFvmLoop \/ StopFvmLoop \/ DeinitSteps
           \/ MainFunctionEnters \/ MainFunctionEnd
           \/ UNCHANGED vars
  BY <1>9 DEF InitSteps, InitConfig, InitKeys, ListChallengeIds, serverInit,
     participantInit, InitEnd, DestroyFVM, StartFvmLoop, StopFvmLoop, DeinitSteps,
     MainFunctionEnters, MainFunctionEnd, CachesKept
<1>10. ASSUME Challenges, \A id \in FvId : ~TriggerCrRequest(id) PROVE CachesKept
  BY <1>10 DEF Challenges, OfferCrRequest, GetTxFreshness, VerificationStatusCallout,
     incomingChallengeSignalCb, storeChallenge, CachesKept
<1> QED BY <1>1, <1>2, <1>3, <1>4, <1>5, <1>6, <1>7, <1>8, <1>9, <1>10
        DEF Next, MainFunction

LEMMA StepPdus ==
  ASSUME LifeInv, FilesApart, PduInv, ClientInv, ServerInv, ParticipantInv, [Next]_vars
  PROVE  PduInv'
<1>1. CASE Configured
  <2>1. file' = file /\ Configured' /\ ConfiguredSignals' = ConfiguredSignals
    BY <1>1, KeepsConfiguration DEF InitConfig, AccessorInit, Configured,
       ConfiguredSignals
  <2>2. CASE CachesKept
    BY <1>1, <2>1, <2>2 DEF PduInv, CachesKept
  <2>3. CASE Creates
    BY <1>1, <2>1, <2>3, CreateKeepsPdus DEF Creates
  <2> QED BY <2>2, <2>3, StepCreates
<1>2. CASE ~Configured
  BY <1>2, StepCreates DEF Creates, PduInv, CachesKept
<1> QED BY <1>1, <1>2


(* Clients enter from the list of those of the configuration. *)
LEMMA StepClients ==
  ASSUME LifeInv, ClientInv, ServerInv, [Next]_vars
  PROVE  ClientInv'
<1>1. CASE InitConfig
  <2>1. UNCHANGED <<mClientNameToKeyId, answering>>
    BY <1>1 DEF InitConfig
  <2>2. CASE Configured
    <3>1. mFvmConfAccessor' = mFvmConfAccessor
      BY <1>1, <2>2 DEF InitConfig, AccessorInit, Configured
    <3> QED BY <2>1, <3>1 DEF ClientInv, Configured, Clients, Config
  <2>3. CASE ~Configured
    BY <2>1, <2>3 DEF ClientInv
  <2> QED BY <2>2, <2>3
<1>2. CASE serverSubscribe
  <2>1. Configured /\ pc = "distribution" /\ isServer /\ todo # <<>>
    BY <1>2 DEF serverSubscribe, LifeInv, PhaseInv
  <2>2. Head(todo) \in Clients
    BY <2>1 DEF ServerInv
  <2>3. /\ UNCHANGED <<mFvmConfAccessor, answering>>
        /\ DOMAIN mClientNameToKeyId' \subseteq DOMAIN mClientNameToKeyId \cup {Head(todo)}
    BY <1>2 DEF serverSubscribe, Stored
  <2> QED BY <2>1, <2>2, <2>3 DEF ClientInv, Configured, Clients, Config
<1>3. CASE answerValue
  <2>1. UNCHANGED <<mFvmConfAccessor, mClientNameToKeyId>>
        /\ answering' \subseteq DOMAIN mClientNameToKeyId
    BY <1>3 DEF answerValue
  <2> QED BY <2>1 DEF ClientInv, Configured, Clients, Config
<1>4. CASE answerSignature
  BY <1>4 DEF answerSignature, ClientInv, Configured, Clients, Config
<1>5. CASE ~InitConfig /\ ~serverSubscribe /\ ~answerValue /\ ~answerSignature
  <2>1. UNCHANGED <<mFvmConfAccessor, mClientNameToKeyId, answering>>
    BY <1>5 DEF Next, InitSteps, InitKeys, ListChallengeIds, registerToSignals,
       serverInit, participantInit, participantSubscribe, InitEnd, DestroyFVM,
       StartFvmLoop, StopFvmLoop, DeinitSteps, MainFunction, MainFunctionEnters,
       participantMainFunction, unauthenticatedBroadcast, MainFunctionEnd,
       Challenges, OfferCrRequest, TriggerCrRequest, GetTxFreshness,
       VerificationStatusCallout, incomingChallengeSignalCb, storeChallenge
  <2> QED BY <2>1 DEF ClientInv, Configured, Clients, Config
<1> QED BY <1>1, <1>2, <1>3, <1>4, <1>5

-----------------------------------------------------------------------------
(* Each signal is subscribed to once, and all of them if Init succeeds.    *)

USE DEF SetUpInv, Handled, Challenged, ChallengeSignal, Clients, ClientSignal,
        Value, Signature, Time, Served

(* A step that does not set anything up. *)
LEMMA QuietKeepsSetUp ==
  ASSUME LifeInv, SetUpInv,
         UNCHANGED <<isServer, mFvmConfAccessor, mSignalEventHandlers,
                     mChallengeSignalToFvId, mClientNameToKeyId, pc, todo,
                     allSubscribed, mInitialized, deinitialised>>,
         mKeysMap \subseteq mKeysMap'
  PROVE  SetUpInv'
<1>1. Config' = Config /\ (Configured' <=> Configured)
  BY DEF Config, Configured
<1>2. HandledInv'
  BY <1>1 DEF HandledInv
<1>3. RegisterInv'
  BY <1>1 DEF RegisterInv
<1>4. ServerInv'
  BY <1>1 DEF ServerInv
<1>5. ParticipantInv'
  BY <1>1 DEF ParticipantInv
<1>6. AttributionInv'
  BY <1>1 DEF AttributionInv
<1>7. CompleteInv'
  BY <1>1 DEF CompleteInv
<1> QED BY <1>2, <1>3, <1>4, <1>5, <1>6, <1>7

(* What Deinit does to what was set up: only a new Init could need it. *)
LEMMA DeinitKeepsSetUp ==
  ASSUME LifeInv, SetUpInv,
         (Deinit /\ mChallengeSignalToFvId' = mChallengeSignalToFvId) \/ DeinitSteps,
         UNCHANGED <<isServer, mFvmConfAccessor, mSignalEventHandlers,
                     mClientNameToKeyId, pc, todo, allSubscribed, mKeysMap>>
  PROVE  SetUpInv'
<1>1. CASE UNCHANGED <<mInitialized, mChallengeSignalToFvId, deinitialised>>
  BY <1>1, QuietKeepsSetUp
<1>2. CASE ~UNCHANGED <<mInitialized, mChallengeSignalToFvId, deinitialised>>
  <2>1. Config' = Config /\ (Configured' <=> Configured)
    BY DEF Config, Configured
  <2>2. /\ Configured /\ pc = "idle"
        /\ mInitialized' = FALSE /\ deinitialised' = TRUE
    BY <1>2 DEF LifeInv, PhaseInv, TypeInv, TypeOK, Deinit, DeinitSteps,
       DeinitAttributes, DeinitValidity, DeinitTime, DeinitSignals
  <2>3. HandledInv'
    BY <2>1, <2>2 DEF HandledInv
  <2>4. RegisterInv' /\ ServerInv' /\ ParticipantInv' /\ AttributionInv' /\ CompleteInv'
    BY <2>2 DEF RegisterInv, ServerInv, ParticipantInv, AttributionInv, CompleteInv
  <2> QED BY <2>3, <2>4
<1> QED BY <1>1, <1>2

LEMMA InitConfigKeepsSetUp ==
  ASSUME LifeInv, SetUpInv, InitConfig
  PROVE  SetUpInv'
<1>1. /\ pc = "idle" /\ pc' \in {"idle", "keys"} /\ ~mInitialized
      /\ UNCHANGED <<isServer, mSignalEventHandlers, mChallengeSignalToFvId,
                     mClientNameToKeyId, todo, allSubscribed, mInitialized,
                     deinitialised, mKeysMap>>
  BY DEF InitConfig
<1>2. CASE Configured
  <2>1. mFvmConfAccessor' = mFvmConfAccessor /\ pc' = pc
    BY <1>1, <1>2 DEF InitConfig, AccessorInit, Configured
  <2> QED BY <1>1, <2>1, QuietKeepsSetUp
<1>3. CASE ~Configured
  <2>1. Handled = {} /\ DOMAIN mChallengeSignalToFvId = {}
    BY <1>3 DEF HandledInv
  <2>2. HandledInv' /\ AttributionInv'
    BY <1>1, <2>1 DEF HandledInv, AttributionInv
  <2>3. RegisterInv' /\ ServerInv' /\ ParticipantInv' /\ CompleteInv'
    BY <1>1 DEF RegisterInv, ServerInv, ParticipantInv, CompleteInv
  <2> QED BY <2>2, <2>3
<1> QED BY <1>2, <1>3

LEMMA InitKeysKeepsSetUp ==
  ASSUME LifeInv, SetUpInv, InitKeys
  PROVE  SetUpInv'
<1>1. /\ Configured /\ pc = "keys" /\ pc' \in {"idle", "signals"} /\ ~mInitialized
      /\ UNCHANGED <<isServer, mFvmConfAccessor, mSignalEventHandlers,
                     mChallengeSignalToFvId, mClientNameToKeyId, todo,
                     allSubscribed, mInitialized, deinitialised>>
  BY DEF InitKeys, LifeInv, PhaseInv
<1>2. Config' = Config /\ Configured'
  BY <1>1 DEF Config, Configured
<1>3. pc' = "signals" /\ DOMAIN Config.mKeyConfig # {} => KeyStr \in mKeysMap'
  <2>1. GetSokKeyConfig(mFvmConfAccessor) = Config.mKeyConfig
    BY <1>1 DEF GetSokKeyConfig, Get, Configured, Config
  <2> QED BY <2>1 DEF InitKeys, IsKeyExists, GetKeyUuid
<1>4. Handled = {} /\ DOMAIN mChallengeSignalToFvId = {}
  BY <1>1 DEF HandledInv
<1>5. HandledInv' /\ AttributionInv'
  BY <1>1, <1>2, <1>4 DEF HandledInv, AttributionInv
<1>6. CompleteInv'
  BY <1>1, <1>2, <1>3 DEF CompleteInv
<1>7. RegisterInv' /\ ServerInv' /\ ParticipantInv'
  BY <1>1 DEF RegisterInv, ServerInv, ParticipantInv
<1> QED BY <1>5, <1>6, <1>7


LEMMA ListKeepsSetUp ==
  ASSUME LifeInv, SetUpInv, ListChallengeIds
  PROVE  SetUpInv'
<1>1. /\ Configured /\ pc = "signals" /\ pc' = "register" /\ ~mInitialized
      /\ UNCHANGED <<isServer, mFvmConfAccessor, mSignalEventHandlers, mKeysMap,
                     mChallengeSignalToFvId, mClientNameToKeyId,
                     allSubscribed, mInitialized, deinitialised>>
  BY DEF ListChallengeIds, LifeInv, PhaseInv
<1>2. Config' = Config /\ Configured'
  BY <1>1 DEF Config, Configured
<1>3. todo' \in Seq(Int) /\ IsInjective(todo')
  <2> DEFINE n == Cardinality(Challenged)
  <2>1. n \in Nat /\ Challenged \subseteq Nat
    BY <1>1, ChallengeIds, FS_CardinalityType
  <2>2. \/ todo' = <<>>
        \/ \E first \in Challenged : todo' = [i \in 1..n |-> first + i - 1]
    BY <1>1 DEF ListChallengeIds, GetAllChallengeFreshnessValueIds, Counted,
       Configured, Config
  <2> HIDE DEF n
  <2>3. ASSUME NEW first \in Nat
        PROVE  LET list == [i \in 1..n |-> first + i - 1] IN
               list \in Seq(Int) /\ IsInjective(list)
    BY <2>1 DEF IsInjective
  <2>4. <<>> \in Seq(Int) /\ IsInjective(<<>>)
    BY DEF IsInjective
  <2> QED BY <2>1, <2>2, <2>3, <2>4
<1>4. Handled = {} /\ DOMAIN mChallengeSignalToFvId = {}
  BY <1>1 DEF HandledInv
<1>5. HandledInv' /\ AttributionInv'
  BY <1>1, <1>2, <1>4 DEF HandledInv, AttributionInv
<1>6. CompleteInv'
  BY <1>1, <1>2 DEF CompleteInv
<1>7. RegisterInv'
  BY <1>1, <1>3, <1>4 DEF RegisterInv
<1>8. ServerInv' /\ ParticipantInv'
  BY <1>1 DEF ServerInv, ParticipantInv
<1> QED BY <1>5, <1>6, <1>7, <1>8

(* A signal that had no handler has one, and no other one has another. *)
LEMMA FirstHandler ==
  ASSUME HandledInv, NEW signal, signal \notin Handled,
         mSignalEventHandlers' = Count(mSignalEventHandlers, signal)
  PROVE  Handled' = Handled \cup {signal}
         /\ \A s \in Handled' : mSignalEventHandlers'[s] = 1
  BY DEF HandledInv, Count

LEMMA RegisterKeepsSetUp ==
  ASSUME LifeInv, FilesApart, SetUpInv, registerToSignals
  PROVE  SetUpInv'
<1> DEFINE id == Head(todo)
           signal == ChallengeSignal(id)
           entry == GetChallengeConfigInstanceByFvId(mFvmConfAccessor, id)
<1>1. /\ Configured /\ pc = "register" /\ pc' = pc /\ ~mInitialized /\ ~deinitialised
      /\ todo # <<>> /\ todo' = Tail(todo)
      /\ UNCHANGED <<isServer, mFvmConfAccessor, mKeysMap, mClientNameToKeyId,
                     allSubscribed, mInitialized, deinitialised>>
  BY DEF registerToSignals, LifeInv, PhaseInv
<1>2. Config' = Config /\ Configured'
  BY <1>1 DEF Config, Configured
<1>3. /\ todo \in Seq(Int) /\ IsInjective(todo)
      /\ Handled \subseteq {ChallengeSignal(i) : i \in Challenged}
      /\ \A i \in Range(todo) \cap Challenged : ChallengeSignal(i) \notin Handled
  BY <1>1 DEF RegisterInv
<1>4. /\ todo' \in Seq(Int) /\ IsInjective(todo')
      /\ id \notin Range(todo') /\ Range(todo) = {id} \cup Range(todo')
  BY <1>1, <1>3, Pop
<1>5. ServerInv' /\ ParticipantInv' /\ CompleteInv'
  BY <1>1, <1>2 DEF ServerInv, ParticipantInv, CompleteInv
<1>6. CASE UNCHANGED <<mSignalEventHandlers, mChallengeSignalToFvId>>
  <2>1. HandledInv' /\ AttributionInv'
    BY <1>1, <1>2, <1>6 DEF HandledInv, AttributionInv
  <2>2. RegisterInv'
    BY <1>2, <1>3, <1>4, <1>6 DEF RegisterInv
  <2> QED BY <1>5, <2>1, <2>2
<1>7. CASE ~UNCHANGED <<mSignalEventHandlers, mChallengeSignalToFvId>>
  <2>1. id \in Challenged /\ getObject(entry) = Config.mChallengesConfig[id]
    BY <1>1, <1>7 DEF registerToSignals, GetChallengeConfigInstanceByFvId, Find,
       getObjectAsserts, getObject, ErrorResult, ObjectResult, Configured, Config
  <2>2. Config.mChallengesConfig[id].type = "kVwSokFreshnessCrResponse"
    BY <1>7, <2>1 DEF registerToSignals
  <2>3. /\ mSignalEventHandlers' = Count(mSignalEventHandlers, signal)
        /\ mChallengeSignalToFvId' = Stored(mChallengeSignalToFvId, signal, id)
    BY <1>7, <2>1, Subscribes DEF registerToSignals
  <2>4. signal \notin Handled
    BY <1>3, <1>4, <2>1
  <2>5. Handled' = Handled \cup {signal}
        /\ \A s \in Handled' : mSignalEventHandlers'[s] = 1
    BY <2>3, <2>4, FirstHandler
  <2>6. \A i \in Challenged : ChallengeSignal(i) = signal => i = id
    BY <1>1, <2>1, Apart
  <2>7. /\ DOMAIN mChallengeSignalToFvId' = DOMAIN mChallengeSignalToFvId \cup {signal}
        /\ mChallengeSignalToFvId'[signal] = id
        /\ \A s \in DOMAIN mChallengeSignalToFvId \ {signal} :
             mChallengeSignalToFvId'[s] = mChallengeSignalToFvId[s]
    BY <2>3 DEF Stored
  <2> HIDE DEF signal, id
  <2>8. HandledInv'
    BY <1>1, <1>2, <2>5 DEF HandledInv
  <2>9. RegisterInv'
    <3>1. Handled' \subseteq {ChallengeSignal(i) : i \in Challenged}
      BY <1>3, <2>1, <2>5 DEF signal
    <3>2. ASSUME NEW i \in Range(todo') \cap Challenged
          PROVE  ChallengeSignal(i) \notin Handled'
      BY <1>3, <1>4, <2>5, <2>6
    <3> QED BY <1>2, <1>4, <3>1, <3>2 DEF RegisterInv
  <2>10. AttributionInv'
    <3> SUFFICES ASSUME NEW i \in Challenged
                 PROVE  (ChallengeSignal(i) \in Handled') <=>
                          /\ ChallengeSignal(i) \in DOMAIN mChallengeSignalToFvId'
                          /\ mChallengeSignalToFvId'[ChallengeSignal(i)] = i
                          /\ Config.mChallengesConfig[i].type
                               = "kVwSokFreshnessCrResponse"
      BY <1>2 DEF AttributionInv
    <3>1. CASE i = id
      BY <2>2, <2>5, <2>7, <3>1 DEF signal
    <3>2. CASE i # id
      <4>1. ChallengeSignal(i) # signal
        BY <2>6, <3>2
      <4>2. (ChallengeSignal(i) \in Handled) <=>
              /\ ChallengeSignal(i) \in DOMAIN mChallengeSignalToFvId
              /\ mChallengeSignalToFvId[ChallengeSignal(i)] = i
              /\ Config.mChallengesConfig[i].type = "kVwSokFreshnessCrResponse"
        BY <1>1 DEF AttributionInv
      <4> QED BY <2>5, <2>7, <4>1, <4>2
    <3> QED BY <3>1, <3>2
  <2> QED BY <1>5, <2>8, <2>9, <2>10
<1> QED BY <1>6, <1>7


LEMMA ClientsFinite ==
  ASSUME LifeInv, Configured
  PROVE  IsFiniteSet(Clients)
<1> DEFINE array == file.doc.clients_signals_config
           f == [i \in DOMAIN array |-> array[i].client_ecu_name]
           names == Clients
<1>1. names = {array[i].client_ecu_name : i \in DOMAIN array}
  BY ConfigurationHolds DEF Holds, HoldsClients
<1>2. Len(array) \in Nat /\ DOMAIN array = 1..Len(array)
  BY ConfigurationHolds DEF IsDocument, IsArray, Arrays
<1>3. IsFiniteSet(DOMAIN array)
  BY <1>2, FS_Interval
<1>4. f \in Surjection(DOMAIN array, names)
  BY <1>1 DEF Surjection
<1> HIDE DEF names, f, array
<1>5. IsFiniteSet(names)
  BY <1>3, <1>4, FS_Surjection
<1> QED BY <1>5 DEF names

(* What is left of the challenges when the distribution is set up. *)
LEMMA RegisteredOnly ==
  ASSUME LifeInv, FilesApart, SetUpInv, pc = "register"
  PROVE  /\ \A client \in Clients : ClientSignal(client) \notin Handled
         /\ {Value.name, Signature.name, Time.name} \cap Handled = {}
<1>1. Configured
  BY DEF LifeInv, PhaseInv
<1>2. Handled \subseteq {ChallengeSignal(id) : id \in Challenged}
  BY DEF RegisterInv
<1> QED BY <1>1, <1>2, Apart

LEMMA ServerInitKeepsSetUp ==
  ASSUME LifeInv, FilesApart, SetUpInv, serverInit
  PROVE  SetUpInv'
<1>1. /\ Configured /\ pc = "register" /\ pc' \in {"distribution", "idle"}
      /\ isServer /\ ~mInitialized
      /\ UNCHANGED <<isServer, mFvmConfAccessor, mKeysMap, mSignalEventHandlers,
                     mChallengeSignalToFvId, mClientNameToKeyId,
                     allSubscribed, mInitialized, deinitialised>>
  BY DEF serverInit, LifeInv, PhaseInv
<1>2. Config' = Config /\ Configured'
  BY <1>1 DEF Config, Configured
<1>3. pc' = "distribution" =>
        todo' \in Seq(Clients) /\ IsInjective(todo') /\ Range(todo') = Clients
  <2>1. pc' = "distribution" => todo' \in SetToSeqs(Clients)
    <3>1. GetClientsConfigMap(mFvmConfAccessor) = Config.mFmServerClientsConfig
      BY <1>1 DEF GetClientsConfigMap, Get, Configured, Config
    <3> QED BY <3>1 DEF serverInit
  <2> QED BY <1>1, <2>1, ClientsFinite, OrderOfSet
<1>4. HandledInv' /\ AttributionInv' /\ CompleteInv'
  BY <1>1, <1>2 DEF HandledInv, AttributionInv, CompleteInv
<1>5. RegisterInv' /\ ParticipantInv'
  BY <1>1 DEF RegisterInv, ParticipantInv
<1>6. ServerInv'
  BY <1>1, <1>2, <1>3, RegisteredOnly DEF ServerInv
<1> QED BY <1>4, <1>5, <1>6

LEMMA ServerSubscribeKeepsSetUp ==
  ASSUME LifeInv, FilesApart, SetUpInv, serverSubscribe
  PROVE  SetUpInv'
<1> DEFINE name == Head(todo)
           signal == ClientSignal(name)
<1>1. /\ Configured /\ pc = "distribution" /\ isServer /\ ~mInitialized
      /\ ~deinitialised /\ todo # <<>>
      /\ UNCHANGED <<isServer, mFvmConfAccessor, mChallengeSignalToFvId,
                     allSubscribed, mInitialized, deinitialised>>
      /\ KeyStr \in mKeysMap => KeyStr \in mKeysMap'
  BY DEF serverSubscribe, LifeInv, PhaseInv, IsKeyExists, GetKeyUuid
<1>2. Config' = Config /\ Configured'
  BY <1>1 DEF Config, Configured
<1>3. /\ todo \in Seq(Clients) /\ IsInjective(todo)
      /\ \A client \in Range(todo) : ClientSignal(client) \notin Handled
      /\ \A client \in Clients \ Range(todo) : Served(client)
  BY <1>1 DEF ServerInv
<1>4. /\ name \in Clients
      /\ Tail(todo) \in Seq(Clients) /\ IsInjective(Tail(todo))
      /\ name \notin Range(Tail(todo)) /\ Range(todo) = {name} \cup Range(Tail(todo))
  BY <1>1, <1>3, Pop
<1>5. GetClientsConfigMap(mFvmConfAccessor) = Config.mFmServerClientsConfig
  BY <1>1 DEF GetClientsConfigMap, Get, Configured, Config
<1>6. \/ pc' = "idle" /\ UNCHANGED mSignalEventHandlers
      \/ /\ pc' = pc /\ todo' = Tail(todo)
         /\ mSignalEventHandlers' = Count(mSignalEventHandlers, signal)
         /\ mClientNameToKeyId' =
              Stored(mClientNameToKeyId, name, Config.mFmServerClientsConfig[name].keyId)
  BY <1>5, Subscribes DEF serverSubscribe
<1>7. CASE pc' = "idle" /\ UNCHANGED mSignalEventHandlers
  <2>1. HandledInv' /\ AttributionInv'
    BY <1>1, <1>2, <1>7 DEF HandledInv, AttributionInv
  <2>2. RegisterInv' /\ ServerInv' /\ ParticipantInv' /\ CompleteInv'
    BY <1>1, <1>7 DEF RegisterInv, ServerInv, ParticipantInv, CompleteInv
  <2> QED BY <2>1, <2>2
<1>8. CASE /\ pc' = pc /\ todo' = Tail(todo)
           /\ mSignalEventHandlers' = Count(mSignalEventHandlers, signal)
           /\ mClientNameToKeyId' =
                Stored(mClientNameToKeyId, name, Config.mFmServerClientsConfig[name].keyId)
  <2>1. signal \notin Handled
    BY <1>3, <1>4
  <2>2. Handled' = Handled \cup {signal}
        /\ \A s \in Handled' : mSignalEventHandlers'[s] = 1
    BY <1>8, <2>1, FirstHandler
  <2>3. \A client \in Clients : ClientSignal(client) = signal => client = name
    BY <1>1, <1>4, Apart
  <2>4. \A id \in Challenged : ChallengeSignal(id) # signal
    BY <1>1, <1>4, Apart
  <2>5. /\ DOMAIN mClientNameToKeyId' = DOMAIN mClientNameToKeyId \cup {name}
        /\ mClientNameToKeyId'[name] = Config.mFmServerClientsConfig[name].keyId
        /\ \A c \in DOMAIN mClientNameToKeyId \ {name} :
             mClientNameToKeyId'[c] = mClientNameToKeyId[c]
    BY <1>8 DEF Stored
  <2>6. KeyStr \in mKeysMap' \/ DOMAIN Config.mKeyConfig = {}
    BY <1>1 DEF CompleteInv
  <2> HIDE DEF name, signal
  <2>7. HandledInv'
    BY <1>1, <1>2, <1>8, <2>2 DEF HandledInv
  <2>8. AttributionInv'
    BY <1>1, <1>2, <2>2, <2>4 DEF AttributionInv
  <2>9. ServerInv'
    <3>1. \A client \in Range(Tail(todo)) : ClientSignal(client) \notin Handled'
      BY <1>3, <1>4, <2>2, <2>3, RangeInSet
    <3>2. ASSUME NEW client \in Clients \ Range(Tail(todo)) PROVE Served(client)'
      <4>1. CASE client = name
        BY <1>2, <2>2, <2>5, <4>1 DEF signal
      <4>2. CASE client # name
        BY <1>2, <1>3, <1>4, <2>2, <2>5, <4>2
      <4> QED BY <4>1, <4>2
    <3> QED BY <1>2, <1>4, <1>8, <3>1, <3>2 DEF ServerInv
  <2>10. RegisterInv' /\ ParticipantInv' /\ CompleteInv'
    BY <1>1, <1>2, <1>8, <2>6 DEF RegisterInv, ParticipantInv, CompleteInv
  <2> QED BY <2>7, <2>8, <2>9, <2>10
<1> QED BY <1>6, <1>7, <1>8


LEMMA ParticipantInitKeepsSetUp ==
  ASSUME LifeInv, FilesApart, SetUpInv, participantInit
  PROVE  SetUpInv'
<1>1. /\ Configured /\ pc = "register" /\ pc' \in {"distribution", "idle"}
      /\ ~isServer /\ ~mInitialized
      /\ UNCHANGED <<isServer, mFvmConfAccessor, mSignalEventHandlers,
                     mChallengeSignalToFvId, mClientNameToKeyId,
                     mInitialized, deinitialised>>
      /\ KeyStr \in mKeysMap => KeyStr \in mKeysMap'
  BY DEF participantInit, LifeInv, PhaseInv, IsKeyExists, GetKeyUuid
<1>2. Config' = Config /\ Configured'
  BY <1>1 DEF Config, Configured
<1>3. pc' = "distribution" => todo' = <<Value, Signature, Time>>
  BY <1>1 DEF participantInit, GetAuthenticatedFvValueSignalConfig,
     GetAuthenticatedFvSignatureSignalConfig, GetUnauthenticatedFvSignalConfig,
     Get, Configured, Config
<1>4. HandledInv' /\ AttributionInv' /\ CompleteInv'
  BY <1>1, <1>2 DEF HandledInv, AttributionInv, CompleteInv
<1>5. RegisterInv' /\ ServerInv'
  BY <1>1 DEF RegisterInv, ServerInv
<1>6. ParticipantInv'
  BY <1>1, <1>2, <1>3, RegisteredOnly DEF ParticipantInv, Left
<1> QED BY <1>4, <1>5, <1>6

(* What a participant's subscription leaves to do, whether it fails or not. *)
LEMMA OneSignalLess ==
  ASSUME NEW value, NEW signature, NEW time,
         value.name # signature.name, value.name # time.name,
         signature.name # time.name,
         NEW signals, signals # <<>>, NEW before, NEW after,
         NEW all \in BOOLEAN, NEW still \in BOOLEAN,
         Left(signals, value, signature, time, before, all),
         \/ after = before /\ still = FALSE
         \/ after = before \cup {Head(signals).name} /\ (still = TRUE => all = TRUE)
  PROVE  Left(Tail(signals), value, signature, time, after, still)
<1>1. CASE signals = <<value, signature, time>>
  <2>1. Head(signals) = value /\ Tail(signals) = <<signature, time>>
    BY <1>1
  <2>2. {value.name, signature.name, time.name} \cap before = {}
    BY <1>1 DEF Left
  <2>3. {signature.name, time.name} \cap after = {}
    BY <2>1, <2>2
  <2>4. still = TRUE => value.name \in after
    BY <2>1
  <2> QED BY <2>1, <2>3, <2>4 DEF Left
<1>2. CASE signals = <<signature, time>>
  <2>1. Head(signals) = signature /\ Tail(signals) = <<time>>
    BY <1>2
  <2>2. /\ {signature.name, time.name} \cap before = {}
        /\ all = TRUE => value.name \in before
    BY <1>2 DEF Left
  <2>3. time.name \notin after
    BY <2>1, <2>2
  <2>4. still = TRUE => {value.name, signature.name} \subseteq after
    BY <2>1, <2>2
  <2> QED BY <2>1, <2>3, <2>4 DEF Left
<1>3. CASE signals = <<time>>
  <2>1. Head(signals) = time /\ Tail(signals) = <<>>
    BY <1>3
  <2>2. all = TRUE => {value.name, signature.name} \subseteq before
    BY <1>3 DEF Left
  <2>3. still = TRUE => {value.name, signature.name, time.name} \subseteq after
    BY <2>1, <2>2
  <2> QED BY <2>1, <2>3 DEF Left
<1> QED BY <1>1, <1>2, <1>3 DEF Left

LEMMA ParticipantSubscribeKeepsSetUp ==
  ASSUME LifeInv, FilesApart, SetUpInv, participantSubscribe
  PROVE  SetUpInv'
<1> DEFINE signal == Head(todo).name
           names == {Value.name, Signature.name, Time.name}
<1>1. /\ Configured /\ pc = "distribution" /\ pc' = pc /\ ~isServer /\ ~mInitialized
      /\ ~deinitialised /\ todo # <<>> /\ todo' = Tail(todo)
      /\ UNCHANGED <<isServer, mFvmConfAccessor, mChallengeSignalToFvId, mKeysMap,
                     mClientNameToKeyId, mInitialized, deinitialised>>
  BY DEF participantSubscribe, LifeInv, PhaseInv
<1>2. Config' = Config /\ Configured'
  BY <1>1 DEF Config, Configured
<1>3. signal \in names /\ signal \notin Handled
  BY <1>1 DEF ParticipantInv, Left
<1>4. \/ /\ UNCHANGED mSignalEventHandlers /\ ~allSubscribed'
      \/ /\ mSignalEventHandlers' = Count(mSignalEventHandlers, signal)
         /\ allSubscribed' => allSubscribed
  BY Subscribes DEF participantSubscribe
<1>5. RegisterInv' /\ ServerInv' /\ CompleteInv'
  BY <1>1, <1>2 DEF RegisterInv, ServerInv, CompleteInv
<1>8. ASSUME \/ Handled' = Handled /\ ~allSubscribed'
             \/ Handled' = Handled \cup {signal} /\ (allSubscribed' => allSubscribed)
      PROVE  ParticipantInv'
  <2>1. /\ Value.name # Signature.name /\ Value.name # Time.name
        /\ Signature.name # Time.name
    BY <1>1, Apart
  <2>2. allSubscribed \in BOOLEAN /\ allSubscribed' \in BOOLEAN
    BY InitStepsTypes DEF LifeInv, TypeInv, TypeOK, InitSteps
  <2>3. Left(todo, Value, Signature, Time, Handled, allSubscribed)
    BY <1>1 DEF ParticipantInv
  <2>4. /\ Value' = Value /\ Signature' = Signature /\ Time' = Time
    BY <1>2
  <2> HIDE DEF Value, Signature, Time, Handled
  <2>5. Left(Tail(todo), Value, Signature, Time, Handled', allSubscribed')
    BY <1>1, <1>8, <2>1, <2>2, <2>3, OneSignalLess
  <2> QED BY <1>1, <2>4, <2>5 DEF ParticipantInv
<1>6. CASE UNCHANGED mSignalEventHandlers /\ ~allSubscribed'
  <2>1. HandledInv' /\ AttributionInv'
    BY <1>1, <1>2, <1>6 DEF HandledInv, AttributionInv
  <2>2. ParticipantInv'
    BY <1>8, <1>6
  <2> QED BY <1>5, <2>1, <2>2
<1>7. CASE /\ mSignalEventHandlers' = Count(mSignalEventHandlers, signal)
           /\ allSubscribed' => allSubscribed
  <2>1. Handled' = Handled \cup {signal}
        /\ \A s \in Handled' : mSignalEventHandlers'[s] = 1
    BY <1>3, <1>7, FirstHandler
  <2>2. \A id \in Challenged : ChallengeSignal(id) # signal
    BY <1>1, <1>3, Apart
  <2>3. HandledInv'
    BY <1>1, <1>2, <2>1 DEF HandledInv
  <2>4. AttributionInv'
    BY <1>1, <1>2, <2>1, <2>2 DEF AttributionInv
  <2>5. ParticipantInv'
    BY <1>7, <1>8, <2>1
  <2> QED BY <1>5, <2>3, <2>4, <2>5
<1> QED BY <1>4, <1>6, <1>7

LEMMA InitEndKeepsSetUp ==
  ASSUME LifeInv, SetUpInv, InitEnd
  PROVE  SetUpInv'
<1>1. /\ Configured /\ pc = "distribution" /\ pc' = "idle" /\ todo = <<>>
      /\ mInitialized' = allSubscribed
      /\ UNCHANGED <<isServer, mFvmConfAccessor, mSignalEventHandlers, mKeysMap,
                     mChallengeSignalToFvId, mClientNameToKeyId, deinitialised>>
  BY DEF InitEnd, LifeInv, PhaseInv
<1>2. Config' = Config /\ Configured'
  BY <1>1 DEF Config, Configured
<1>3. HandledInv' /\ AttributionInv'
  BY <1>1, <1>2 DEF HandledInv, AttributionInv
<1>4. RegisterInv' /\ ServerInv' /\ ParticipantInv'
  BY <1>1 DEF RegisterInv, ServerInv, ParticipantInv
<1>5. isServer => \A client \in Clients : Served(client)
  BY <1>1 DEF ServerInv, Range
<1>6. ~isServer /\ allSubscribed =>
        {Value.name, Signature.name, Time.name} \subseteq Handled
  BY <1>1 DEF ParticipantInv, Left
<1>7. CompleteInv'
  BY <1>1, <1>2, <1>5, <1>6 DEF CompleteInv
<1> QED BY <1>3, <1>4, <1>7

LEMMA StepSetUp ==
  ASSUME LifeInv, FilesApart, SetUpInv, [Next]_vars
  PROVE  SetUpInv'
<1>1. CASE InitSteps
  BY <1>1, InitConfigKeepsSetUp, InitKeysKeepsSetUp, ListKeepsSetUp,
     RegisterKeepsSetUp, ServerInitKeepsSetUp, ServerSubscribeKeepsSetUp,
     ParticipantInitKeepsSetUp, ParticipantSubscribeKeepsSetUp, InitEndKeepsSetUp
  DEF InitSteps
<1>2. CASE DestroyFVM
  BY <1>2, DeinitKeepsSetUp DEF DestroyFVM
<1>3. CASE StopFvmLoop
  BY <1>3, DeinitKeepsSetUp DEF StopFvmLoop
<1>5. CASE DeinitSteps
  BY <1>5, DeinitKeepsSetUp DEF DeinitSteps
<1>4. CASE StartFvmLoop \/ MainFunction \/ Challenges \/ UNCHANGED vars
  <2>1. UNCHANGED <<isServer, mFvmConfAccessor, mChallengeSignalToFvId,
                    mClientNameToKeyId, pc, todo, allSubscribed, mInitialized,
                    deinitialised>>
    BY <1>4 DEF StartFvmLoop, MainFunction, MainFunctionEnters,
       participantMainFunction, unauthenticatedBroadcast, answerValue,
       answerSignature, MainFunctionEnd, Challenges, OfferCrRequest,
       TriggerCrRequest, GetTxFreshness, VerificationStatusCallout,
       incomingChallengeSignalCb, storeChallenge
  <2>2. mSignalEventHandlers' = mSignalEventHandlers
    BY <1>4, Publishes DEF StartFvmLoop, MainFunction, MainFunctionEnters,
       participantMainFunction, requestAnAuthenticFv, processAnAuthenticFv,
       dropOrIdle, unauthenticatedBroadcast, answerValue,
       answerSignature, MainFunctionEnd, Challenges, OfferCrRequest,
       TriggerCrRequest, GetTxFreshness, VerificationStatusCallout,
       incomingChallengeSignalCb, storeChallenge
  <2>3. mKeysMap \subseteq mKeysMap'
    BY <1>4, CsmCalls DEF LifeInv, TypeInv, TypeOK, StartFvmLoop, MainFunction,
       MainFunctionEnters, participantMainFunction, requestAnAuthenticFv,
       processAnAuthenticFv, dropOrIdle, unauthenticatedBroadcast, answerValue,
       answerSignature, MainFunctionEnd, Challenges, OfferCrRequest,
       TriggerCrRequest, GetTxFreshness, VerificationStatusCallout,
       incomingChallengeSignalCb, storeChallenge
  <2> QED BY <2>1, <2>2, <2>3, QuietKeepsSetUp
<1> QED BY <1>1, <1>2, <1>3, <1>4, <1>5 DEF Next

-----------------------------------------------------------------------------
(* Every challenge is gone through.                                        *)

USE DEF HeardOrSkipped

(* No step takes a handler away. *)
LEMMA HandlersStay ==
  ASSUME [Next]_vars
  PROVE  Handled \subseteq Handled'
<1>1. ASSUME NEW signal, mSignalEventHandlers' = Count(mSignalEventHandlers, signal)
      PROVE  Handled \subseteq Handled'
  BY <1>1 DEF Count
<1>2. CASE InitSteps
  BY <1>1, <1>2, Subscribes DEF InitSteps, InitConfig, InitKeys, ListChallengeIds,
     registerToSignals, serverInit, serverSubscribe, participantInit,
     participantSubscribe, InitEnd
<1>3. CASE ~InitSteps
  BY <1>3, Publishes DEF Next, DestroyFVM, StartFvmLoop, StopFvmLoop, DeinitSteps,
     MainFunction, MainFunctionEnters, participantMainFunction, requestAnAuthenticFv,
     processAnAuthenticFv, dropOrIdle, unauthenticatedBroadcast, answerValue,
     answerSignature, MainFunctionEnd, Challenges, OfferCrRequest, TriggerCrRequest,
     GetTxFreshness, VerificationStatusCallout, incomingChallengeSignalCb,
     storeChallenge
<1> QED BY <1>2, <1>3

(* A step that has nothing to do with challenges. *)
LEMMA QuietKeepsChallenges ==
  ASSUME LifeInv, ChallengesInv, [Next]_vars,
         UNCHANGED <<mFvmConfAccessor, skipped>>,
         mChallengeSignalToFvId' \in {mChallengeSignalToFvId, NoEntries},
         pc' = "register" => pc = "register" /\ todo' = todo,
         pc' \in {"keys", "signals"} => pc \in {"keys", "signals"},
         pc' = "distribution" => pc = "distribution",
         mInitialized' => mInitialized \/ pc = "distribution"
  PROVE  ChallengesInv'
<1>1. Config' = Config /\ (Configured' <=> Configured)
  BY DEF Config, Configured
<1>2. Handled \subseteq Handled'
  BY HandlersStay
<1>3. dead' = FALSE => dead = FALSE
  BY DEF LifeInv, TypeInv, TypeOK, Next
<1>4. ~Configured' \/ pc' \in {"keys", "signals"} => skipped' = {}
  BY <1>1 DEF ChallengesInv
<1>5. pc' = "register" =>
        /\ skipped' \cap Range(todo') = {}
        /\ dead' = FALSE => \E done \in SUBSET Challenged' : GoneThrough(done)'
  <2> SUFFICES ASSUME pc' = "register"
               PROVE  /\ skipped' \cap Range(todo') = {}
                      /\ dead' = FALSE => \E done \in SUBSET Challenged' :
                                            GoneThrough(done)'
    OBVIOUS
  <2>1. skipped' \cap Range(todo') = {}
    BY DEF ChallengesInv
  <2>2. ASSUME dead' = FALSE
        PROVE  \E done \in SUBSET Challenged' : GoneThrough(done)'
    <3>1. PICK done \in SUBSET Challenged : GoneThrough(done)
      BY <1>3, <2>2 DEF ChallengesInv
    <3>2. GoneThrough(done)'
      BY <1>1, <1>2, <3>1 DEF GoneThrough
    <3> QED BY <1>1, <3>2
  <2> QED BY <2>1, <2>2
<1>6. pc' = "distribution" \/ mInitialized' =>
        \A id \in Challenged' : HeardOrSkipped(id)'
  BY <1>1, <1>2 DEF ChallengesInv
<1>7. \A id \in skipped' \cap Challenged' :
        ~ /\ ChallengeSignal(id)' \in DOMAIN mChallengeSignalToFvId'
          /\ mChallengeSignalToFvId'[ChallengeSignal(id)'] = id
  BY <1>1 DEF ChallengesInv, NoEntries
<1> QED BY <1>4, <1>5, <1>6, <1>7 DEF ChallengesInv

LEMMA InitConfigKeepsChallenges ==
  ASSUME LifeInv, ChallengesInv, InitConfig
  PROVE  ChallengesInv'
<1>1. /\ pc = "idle" /\ pc' \in {"idle", "keys"} /\ ~mInitialized
      /\ UNCHANGED <<skipped, mChallengeSignalToFvId, mSignalEventHandlers, mInitialized>>
  BY DEF InitConfig
<1>2. CASE Configured
  <2>1. mFvmConfAccessor' = mFvmConfAccessor /\ pc' = pc
    BY <1>1, <1>2 DEF InitConfig, AccessorInit, Configured
  <2> QED BY <1>1, <2>1 DEF ChallengesInv, Configured, Config
<1>3. CASE ~Configured
  <2>1. skipped' = {}
    BY <1>1, <1>3 DEF ChallengesInv
  <2> QED BY <1>1, <2>1 DEF ChallengesInv
<1> QED BY <1>2, <1>3

(* The list is as long as there are challenges. *)
LEMMA ListKeepsChallenges ==
  ASSUME LifeInv, ChallengesInv, ListChallengeIds
  PROVE  ChallengesInv'
<1>1. /\ Configured /\ pc = "signals" /\ pc' = "register" /\ ~mInitialized
      /\ UNCHANGED <<mFvmConfAccessor, skipped, mInitialized>>
  BY DEF ListChallengeIds, LifeInv, PhaseInv
<1>2. Config' = Config /\ Configured'
  BY <1>1 DEF Config, Configured
<1>3. skipped' = {}
  BY <1>1 DEF ChallengesInv
<1>4. Len(todo') = Cardinality(Challenged)
  <2> DEFINE n == Cardinality(Challenged)
  <2>1. n \in Nat
    BY <1>1, ChallengeIds, FS_CardinalityType
  <2>2. \/ \E first \in Challenged : todo' = [i \in 1..n |-> first + i - 1]
        \/ Challenged = {} /\ todo' = <<>>
    BY <1>1 DEF ListChallengeIds, GetAllChallengeFreshnessValueIds, Counted,
       Configured, Config
  <2>3. CASE Challenged = {} /\ todo' = <<>>
    BY <2>3, FS_EmptySet
  <2> HIDE DEF n
  <2>4. CASE \E first \in Challenged : todo' = [i \in 1..n |-> first + i - 1]
    BY <2>1, <2>4 DEF n
  <2> QED BY <2>2, <2>3, <2>4
<1>5. GoneThrough({})'
  <2>1. Cardinality({}) = 0 /\ Cardinality(Challenged) \in Nat
    BY <1>1, ChallengeIds, FS_CardinalityType, FS_EmptySet
  <2> QED BY <1>2, <1>4, <2>1 DEF GoneThrough
<1>6. \E done \in SUBSET Challenged' : GoneThrough(done)'
  BY <1>5
<1> QED BY <1>1, <1>3, <1>6 DEF ChallengesInv

(* A round: the ID is heard, skipped or not to be, or the process ends. *)
LEMMA RegisterKeepsChallenges ==
  ASSUME LifeInv, FilesApart, SetUpInv, ChallengesInv, registerToSignals, [Next]_vars
  PROVE  ChallengesInv'
<1> DEFINE entry == GetChallengeConfigInstanceByFvId(mFvmConfAccessor, Head(todo))
<1>0. PICK id : id = Head(todo)
  OBVIOUS
<1>1. /\ Configured /\ pc = "register" /\ pc' = pc /\ mInitialized' = mInitialized
      /\ ~mInitialized /\ todo # <<>> /\ todo' = Tail(todo)
      /\ mFvmConfAccessor' = mFvmConfAccessor
  BY DEF registerToSignals, LifeInv, PhaseInv
<1>2. Config' = Config /\ Configured'
  BY <1>1 DEF Config, Configured
<1>3. /\ todo \in Seq(Int) /\ IsInjective(todo)
      /\ id \notin Range(todo') /\ Range(todo) = {id} \cup Range(todo')
      /\ Len(todo') = Len(todo) - 1 /\ Len(todo) \in Nat
  BY <1>0, <1>1, Pop DEF RegisterInv
<1>4. skipped' \in {skipped, skipped \cup {id}}
  BY <1>0 DEF registerToSignals
<1>5. skipped' \cap Range(todo') = {}
  BY <1>1, <1>3, <1>4 DEF ChallengesInv
<1>6. ASSUME dead' = FALSE
      PROVE  \E done \in SUBSET Challenged : GoneThrough(done)'
  <2>1. id \in Challenged /\ getObject(entry) = Config.mChallengesConfig[id]
    BY <1>0, <1>1, <1>6 DEF registerToSignals, GetChallengeConfigInstanceByFvId, Find,
       getObjectAsserts, getObject, ErrorResult, ObjectResult, Configured, Config
  <2>2. dead = FALSE
    BY <1>6 DEF LifeInv, TypeInv, TypeOK, Next
  <2>3. PICK done \in SUBSET Challenged : GoneThrough(done)
    BY <1>1, <2>2 DEF ChallengesInv
  <2>4. IsFiniteSet(done) /\ Cardinality(done) \in Nat /\ id \notin done
    BY <1>1, <1>3, <2>3, ChallengeIds, FS_Subset, FS_CardinalityType DEF GoneThrough
  <2>5. Cardinality(done \cup {id}) = Cardinality(done) + 1
    BY <2>4, FS_AddElement
  <2>6. HeardOrSkipped(id)'
    <3> SUFFICES ASSUME Config.mChallengesConfig[id].type = "kVwSokFreshnessCrResponse",
                        ~(id \in skipped')
                 PROVE  ChallengeSignal(id) \in Handled'
      BY <1>2 DEF HeardOrSkipped
    <3>1. mSignalEventHandlers' = Count(mSignalEventHandlers, ChallengeSignal(id))
      BY <1>0, <1>6, <2>1, Subscribes DEF registerToSignals
    <3> QED BY <3>1 DEF Count
  <2>7. \A i \in done : HeardOrSkipped(i)'
    BY <1>2, <1>4, <2>3, HandlersStay DEF GoneThrough
  <2> HIDE DEF entry
  <2>8. GoneThrough(done \cup {id})'
    <3>1. Cardinality(done) + Len(todo) = Cardinality(Challenged)
          /\ Range(todo) \cap done = {}
      BY <2>3 DEF GoneThrough
    <3>2. Cardinality(done \cup {id}) + Len(todo') = Cardinality(Challenged')
      BY <1>2, <1>3, <2>4, <2>5, <3>1
    <3>3. Range(todo') \cap (done \cup {id}) = {}
      BY <1>3, <3>1
    <3>4. \A i \in done \cup {id} : HeardOrSkipped(i)'
      BY <2>6, <2>7
    <3> QED BY <3>2, <3>3, <3>4 DEF GoneThrough
  <2> QED BY <2>1, <2>8
<1>7. ASSUME NEW i \in skipped' \cap Challenged,
             ChallengeSignal(i) \in DOMAIN mChallengeSignalToFvId',
             mChallengeSignalToFvId'[ChallengeSignal(i)] = i
      PROVE  FALSE
  <2>1. CASE UNCHANGED mChallengeSignalToFvId
    <3>1. CASE i \in skipped
      BY <1>7, <2>1, <3>1 DEF ChallengesInv
    <3>2. CASE i \notin skipped
      <4>1. i = id
        BY <1>4, <1>7, <3>2
      <4>2. ChallengeSignal(i) \in Handled
        BY <1>0, <1>1, <1>2, <1>7, <2>1, <3>2, <4>1 DEF AttributionInv, LifeInv, PhaseInv,
           registerToSignals, GetChallengeConfigInstanceByFvId, Find,
           getObjectAsserts, getObject, ErrorResult, ObjectResult, Configured, Config
      <4> QED BY <1>1, <1>3, <1>7, <4>1, <4>2 DEF RegisterInv
    <3> QED BY <3>1, <3>2
  <2>2. CASE ~UNCHANGED mChallengeSignalToFvId
    <3>1. id \in Challenged /\ getObject(entry) = Config.mChallengesConfig[id]
      BY <1>0, <1>1, <2>2 DEF registerToSignals, GetChallengeConfigInstanceByFvId, Find,
         getObjectAsserts, getObject, ErrorResult, ObjectResult, Configured, Config
    <3>2. /\ mChallengeSignalToFvId' = Stored(mChallengeSignalToFvId, ChallengeSignal(id), id)
          /\ skipped' = skipped
      BY <1>0, <2>2, <3>1 DEF registerToSignals
    <3>3. i # id
      BY <1>1, <1>3, <1>7, <3>2 DEF ChallengesInv
    <3>4. ChallengeSignal(i) # ChallengeSignal(id)
      BY <1>1, <1>7, <3>1, <3>3, Apart
    <3>5. /\ ChallengeSignal(i) \in DOMAIN mChallengeSignalToFvId
          /\ mChallengeSignalToFvId[ChallengeSignal(i)] = i
      BY <1>7, <3>2, <3>4 DEF Stored
    <3> QED BY <1>7, <3>2, <3>5 DEF ChallengesInv
  <2> QED BY <2>1, <2>2
<1> HIDE DEF entry
<1>8. \A i \in skipped' \cap Challenged' :
        ~ /\ ChallengeSignal(i)' \in DOMAIN mChallengeSignalToFvId'
          /\ mChallengeSignalToFvId'[ChallengeSignal(i)'] = i
  BY <1>2, <1>7
<1> QED BY <1>1, <1>2, <1>5, <1>6, <1>8 DEF ChallengesInv

(* With nothing left to do, all of them have been gone through. *)
LEMMA DistributionKeepsChallenges ==
  ASSUME LifeInv, ChallengesInv, serverInit \/ participantInit, [Next]_vars
  PROVE  ChallengesInv'
<1>1. /\ Configured /\ pc = "register" /\ todo = <<>> /\ ~mInitialized
      /\ pc' \in {"distribution", "idle"}
      /\ UNCHANGED <<mFvmConfAccessor, mSignalEventHandlers, mInitialized, skipped,
                     mChallengeSignalToFvId, dead>>
  BY DEF serverInit, participantInit, LifeInv, PhaseInv
<1>2. Config' = Config /\ Configured'
  BY <1>1 DEF Config, Configured
<1>3. dead = FALSE
  BY <1>1 DEF LifeInv, TypeInv, TypeOK, Next
<1>4. PICK done \in SUBSET Challenged : GoneThrough(done)
  BY <1>1, <1>3 DEF ChallengesInv
<1>5. done = Challenged
  <2>1. IsFiniteSet(Challenged) /\ Cardinality(done) \in Nat
    BY <1>1, ChallengeIds, FS_Subset, FS_CardinalityType
  <2>2. Cardinality(done) = Cardinality(Challenged)
    BY <1>1, <1>4, <2>1 DEF GoneThrough
  <2> QED BY <2>1, <2>2, FS_Subset
<1>6. \A i \in Challenged : HeardOrSkipped(i)
  BY <1>4, <1>5 DEF GoneThrough
<1>7. \A i \in Challenged' : HeardOrSkipped(i)'
  BY <1>1, <1>2, <1>6
<1>8. \A i \in skipped' \cap Challenged' :
        ~ /\ ChallengeSignal(i)' \in DOMAIN mChallengeSignalToFvId'
          /\ mChallengeSignalToFvId'[ChallengeSignal(i)'] = i
  BY <1>1, <1>2 DEF ChallengesInv
<1> QED BY <1>1, <1>2, <1>7, <1>8 DEF ChallengesInv

LEMMA StepChallenges ==
  ASSUME LifeInv, FilesApart, SetUpInv, ChallengesInv, [Next]_vars
  PROVE  ChallengesInv'
<1>1. CASE InitConfig
  BY <1>1, InitConfigKeepsChallenges
<1>2. CASE ListChallengeIds
  BY <1>2, ListKeepsChallenges
<1>3. CASE registerToSignals
  BY <1>3, RegisterKeepsChallenges
<1>4. CASE serverInit \/ participantInit
  BY <1>4, DistributionKeepsChallenges
<1>5. CASE InitKeys \/ serverSubscribe \/ participantSubscribe \/ InitEnd
  <2>1. /\ UNCHANGED <<mFvmConfAccessor, skipped, mChallengeSignalToFvId>>
        /\ pc' # "register"
        /\ pc' \in {"keys", "signals"} => pc \in {"keys", "signals"}
        /\ pc' = "distribution" => pc = "distribution"
        /\ mInitialized' => mInitialized \/ pc = "distribution"
    BY <1>5 DEF InitKeys, serverSubscribe, participantSubscribe, InitEnd
  <2> QED BY <2>1, QuietKeepsChallenges
<1>6. CASE ~InitSteps
  <2> DEFINE Quiet == /\ UNCHANGED <<mFvmConfAccessor, skipped, pc, todo>>
                      /\ mChallengeSignalToFvId' \in {mChallengeSignalToFvId, NoEntries}
                      /\ mInitialized' => mInitialized
  <2>1. ASSUME DestroyFVM \/ StopFvmLoop \/ DeinitSteps
        PROVE  Quiet
    <3>1. UNCHANGED <<mFvmConfAccessor, skipped, pc, todo>>
      BY <2>1 DEF DestroyFVM, StopFvmLoop, DeinitSteps
    <3>2. mInitialized' => mInitialized
      BY <2>1 DEF DestroyFVM, StopFvmLoop, Deinit, DeinitSteps
    <3>3. mChallengeSignalToFvId' \in {mChallengeSignalToFvId, NoEntries}
      BY <2>1 DEF DestroyFVM, StopFvmLoop, DeinitSteps, DeinitAttributes,
         DeinitValidity, DeinitTime, DeinitSignals
    <3> QED BY <3>1, <3>2, <3>3
  <2>2. ASSUME StartFvmLoop \/ MainFunction \/ Challenges \/ UNCHANGED vars
        PROVE  Quiet
    <3>1. UNCHANGED <<mFvmConfAccessor, skipped, pc, todo, mInitialized,
                      mChallengeSignalToFvId>>
      BY <2>2 DEF StartFvmLoop, MainFunction, MainFunctionEnters,
         participantMainFunction, unauthenticatedBroadcast, answerValue,
         answerSignature, MainFunctionEnd, Challenges, OfferCrRequest,
         TriggerCrRequest, GetTxFreshness, VerificationStatusCallout,
         incomingChallengeSignalCb, storeChallenge
    <3> QED BY <3>1
  <2>3. Quiet
    BY <1>6, <2>1, <2>2 DEF Next
  <2> QED BY <1>6, <2>3, QuietKeepsChallenges DEF InitSteps
<1> QED BY <1>1, <1>2, <1>3, <1>4, <1>5, <1>6 DEF InitSteps

LEMMA InitSetUp == Init => PduInv /\ ClientInv /\ SetUpInv /\ ChallengesInv
<1> SUFFICES ASSUME Init PROVE PduInv /\ ClientInv /\ SetUpInv /\ ChallengesInv
  OBVIOUS
<1>1. /\ ~Configured /\ pc = "idle" /\ ~mInitialized /\ answering = {}
      /\ DOMAIN mChallengeSignalToFvId = {} /\ DOMAIN mClientNameToKeyId = {}
      /\ DOMAIN mSignalEventHandlers = {}
  BY DEF Init, SignalInit, NewAccessor, Configured, NoEntries, Nothing
<1>2. PduInv
  BY <1>1 DEF Init, SignalInit, PduInv, Nothing
<1>3. ClientInv
  BY <1>1 DEF ClientInv
<1>4. SetUpInv
  BY <1>1 DEF HandledInv, RegisterInv, ServerInv, ParticipantInv, AttributionInv,
     CompleteInv
<1>5. ChallengesInv
  BY <1>1 DEF ChallengesInv, Init
<1> QED BY <1>2, <1>3, <1>4, <1>5

SetUp == LifeInv /\ PduInv /\ ClientInv /\ SetUpInv /\ ChallengesInv

LEMMA SetUpInvariant ==
  ASSUME FilesApart
  PROVE  Spec => []SetUp
<1>1. Init => SetUp
  BY InitLife, InitSetUp DEF SetUp
<1>2. SetUp /\ [Next]_vars => SetUp'
  <2> SUFFICES ASSUME SetUp, [Next]_vars PROVE SetUp'  OBVIOUS
  <2>1. /\ LifeInv /\ PduInv /\ ClientInv /\ SetUpInv /\ ChallengesInv
        /\ ServerInv /\ ParticipantInv
    BY DEF SetUp
  <2>2. LifeInv'
    BY <2>1, StepLife
  <2>3. PduInv'
    BY <2>1, StepPdus
  <2>4. ClientInv'
    BY <2>1, StepClients
  <2>5. SetUpInv'
    BY <2>1, StepSetUp
  <2>6. ChallengesInv'
    BY <2>1, StepChallenges
  <2> QED BY <2>2, <2>3, <2>4, <2>5, <2>6 DEF SetUp
<1> QED BY <1>1, <1>2, PTL DEF Spec

(***************************************************************************)
(* However the creations fail and wherever an Init breaks off, no signal   *)
(* gets a second handler and no PDU is activated twice in one direction,   *)
(* for all files whose signals are apart.                                  *)
(***************************************************************************)
THEOREM SignalsAreSetUpOnce ==
  ASSUME FilesApart
  PROVE  Spec => []SetUpOnce
<1>1. SetUp => SetUpOnce
  BY DEF SetUp, HandledInv, PduInv, SetUpOnce
<1> QED BY <1>1, SetUpInvariant, PTL

(* An initialised FVM has the document that it was given in use. *)
LEMMA SetUpIsComplete == SetUp => InitialisedButForSkipped
<1> SUFFICES ASSUME SetUp, mInitialized PROVE InitialisedButForSkipped
  BY DEF InitialisedButForSkipped
<1> DEFINE doc == file.doc
<1>1. /\ Configured /\ ~deinitialised /\ LifeInv
      /\ HandledInv /\ AttributionInv /\ CompleteInv /\ ChallengesInv
  BY DEF SetUp, LifeInv, PhaseInv
<1>2. /\ file.is = "object" /\ FVM_CONFIG_SCHEMA(doc) /\ IsDocument(doc)
      /\ Holds(Config, doc)
  BY <1>1, ConfigurationHolds
<1>3. \A signal : (Handlers(signal) > 0) <=> signal \in Handled
  BY <1>1 DEF Handlers, HandledInv
<1>4. doc.key_config # <<>> => KeyStr \in mKeysMap
  <2>1. SUFFICES ASSUME doc.key_config # <<>>
                 PROVE  KeyStr \in mKeysMap
    OBVIOUS
  <2>2. PICK i \in DOMAIN doc.key_config : TRUE
    BY <1>2, <2>1 DEF IsDocument, IsArray, Arrays
  <2>3. DOMAIN Config.mKeyConfig # {}
    BY <1>2, <2>2 DEF Holds
  <2> QED BY <1>1, <2>3 DEF CompleteInv
<1>5. ASSUME isServer PROVE ServesClients(doc)
  <2>1. ASSUME NEW i \in DOMAIN doc.clients_signals_config
        PROVE  LET client == doc.clients_signals_config[i] IN
               /\ client.client_ecu_name \in DOMAIN mClientNameToKeyId
               /\ mClientNameToKeyId[client.client_ecu_name] = client.key_id
               /\ Handlers(client.challenge_signal.signal_config.name) > 0
    <3> DEFINE client == doc.clients_signals_config[i]
               name == client.client_ecu_name
    <3>1. name \in Clients
          /\ Config.mFmServerClientsConfig[name] = ClientEntry(client)
      BY <1>2 DEF Holds, HoldsClients
    <3>2. Served(name)
      BY <1>1, <1>5, <3>1 DEF CompleteInv
    <3>3. ClientSignal(name) = client.challenge_signal.signal_config.name
          /\ Config.mFmServerClientsConfig[name].keyId = client.key_id
      BY <3>1 DEF ClientEntry, fetchSignalConfig, SignalConfig
    <3> QED BY <1>3, <3>2, <3>3
  <2> QED BY <2>1 DEF ServesClients
<1>6. ASSUME ~isServer PROVE HearsDistribution(doc)
  <2>1. {Value.name, Signature.name, Time.name} \subseteq Handled
    BY <1>1, <1>6 DEF CompleteInv
  <2>2. /\ Value.name = doc["authenticated_fv_value_signal_config"].signal_config.name
        /\ Signature.name =
             doc["authenticated_fv_signature_signal_config"].signal_config.name
        /\ Time.name = doc["unauthenticated_fv_signal_config"].signal_config.name
    BY <1>2 DEF Holds, HoldsSignals, fetchSignalConfig, SignalConfig
  <2>3. Heard = {"authenticated_fv_value_signal_config",
                 "authenticated_fv_signature_signal_config",
                 "unauthenticated_fv_signal_config"}
    BY DEF Heard, SignalSections
  <2>4. ASSUME NEW member \in Heard
        PROVE  doc[member].signal_config.name \in Handled
    BY <2>1, <2>2, <2>3
  <2> QED BY <1>3, <2>4 DEF HearsDistribution
<1>7. HearsChallenges(doc)
  <2> SUFFICES ASSUME NEW i \in DOMAIN doc.challenge_response_config
               PROVE  LET entry == doc.challenge_response_config[i]
                          signal == entry.signal.signal_config.name
                          heard == entry.challenge_type = "RESPONSE"
                                     /\ entry.fv_id \notin skipped
                      IN /\ (Handlers(signal) > 0) <=> heard
                         /\ heard => /\ signal \in DOMAIN mChallengeSignalToFvId
                                     /\ mChallengeSignalToFvId[signal] = entry.fv_id
    BY DEF HearsChallenges
  <2> DEFINE entry == doc.challenge_response_config[i]
             signal == entry.signal.signal_config.name
             id == entry.fv_id
  <2>1. id \in Challenged /\ Config.mChallengesConfig[id] = ChallengeEntry(entry)
    BY <1>2 DEF Holds, HoldsChallenges
  <2>2. ChallengeSignal(id) = signal
    BY <2>1 DEF ChallengeEntry, fetchSignalConfig, SignalConfig
  <2>3. Config.mChallengesConfig[id].type = "kVwSokFreshnessCrResponse"
          <=> entry.challenge_type = "RESPONSE"
    <3>1. entry.challenge_type \in {"CHALLENGE", "RESPONSE"}
      BY <1>2 DEF FVM_CONFIG_SCHEMA
    <3> QED BY <2>1, <3>1 DEF ChallengeEntry, convertStringFreshnessTypeToEnum
  <2>4. ChallengeSignal(id) \in Handled <=>
          /\ ChallengeSignal(id) \in DOMAIN mChallengeSignalToFvId
          /\ mChallengeSignalToFvId[ChallengeSignal(id)] = id
          /\ Config.mChallengesConfig[id].type = "kVwSokFreshnessCrResponse"
    BY <1>1, <2>1 DEF AttributionInv
  <2>5. ChallengeSignal(id) \in Handled <=>
          /\ Config.mChallengesConfig[id].type = "kVwSokFreshnessCrResponse"
          /\ id \notin skipped
    BY <1>1, <2>1, <2>4 DEF ChallengesInv
  <2> QED BY <1>3, <2>2, <2>3, <2>4, <2>5
<1>8. IF isServer THEN ServesClients(doc) ELSE HearsDistribution(doc)
  BY <1>5, <1>6
<1> QED BY <1>2, <1>4, <1>7, <1>8 DEF InitialisedButForSkipped

(***************************************************************************)
(* mInitialized tells of half a set-up in one respect only: every client   *)
(* is served or all of the distribution heard, the key found, and each     *)
(* challenge's signal heard and attributed unless its own Subscribe has    *)
(* failed, for all files whose signals are apart.                          *)
(***************************************************************************)
THEOREM InitialisedHasAllButSkipped ==
  ASSUME FilesApart
  PROVE  Spec => []InitialisedButForSkipped
BY SetUpIsComplete, SetUpInvariant, PTL

-----------------------------------------------------------------------------
(* Bytes and numbers, for words of any length.                             *)

LEMMA ByteShifts ==
  /\ ByteShift \in [Nat -> Nat \ {0}]
  /\ ByteShift[0] = 1
  /\ \A n \in Nat : ByteShift[n + 1] = ByteModulus * ByteShift[n]
<1>1. ByteModulus \in Nat \ {0}
  BY WordAssumption
<1>2. ByteShift = PowersOf(ByteModulus)
  BY DEF ByteShift, PowersOf
<1> QED BY <1>1, <1>2, Powers

LEMMA ByteAtType ==
  ASSUME NEW num \in Nat, NEW i \in Nat
  PROVE  ByteAt(num, i) \in Byte
<1>1. PICK shift \in Nat \ {0} : shift = ByteShift[i]
  BY ByteShifts
<1>2. num \div shift \in Nat
  BY Division
<1> QED BY <1>1, <1>2, WordAssumption, Division DEF ByteAt, Byte

(* One more shift divides once more. *)
LEMMA NextShift ==
  ASSUME NEW num \in Nat, NEW i \in Nat
  PROVE  num \div ByteShift[i + 1] = (num \div ByteShift[i]) \div ByteModulus
<1>1. PICK shift \in Nat \ {0} : shift = ByteShift[i]
  BY ByteShifts
<1>2. ByteShift[i + 1] = shift * ByteModulus
  BY <1>1, ByteShifts, WordAssumption, SMT
<1> QED BY <1>1, <1>2, WordAssumption, NestedDivision

(* The loop of ByteVectorToUint: the value of the first bytes. *)
ValuesOf(bytes, f) ==
  /\ f \in [0..Len(bytes) -> Nat]
  /\ f[0] = 0
  /\ \A k \in 1..Len(bytes) : f[k] = ByteModulus * f[k - 1] + bytes[k]

LEMMA ByteVectorValue ==
  ASSUME NEW n \in 0..WordLength, NEW bytes \in [1..n -> Byte]
  PROVE  \E f : ValuesOf(bytes, f) /\ ByteVectorToUint(bytes) = f[n]
<1> USE WordAssumption
<1> DEFINE byte(k) == IF k \in 1..n THEN bytes[k] ELSE 0
           Eqn(f) == f = [k \in 0..n |-> IF k = 0 THEN 0
                                          ELSE ByteModulus * f[k - 1] + bytes[k]]
<1>1. PICK step \in [Nat -> [Nat -> Nat]] :
        \A k \in Nat : \A v \in Nat : step[k][v] = ByteModulus * v + byte(k + 1)
  <2> DEFINE s == [k \in Nat |-> [v \in Nat |-> ByteModulus * v + byte(k + 1)]]
  <2>1. \A k \in Nat : byte(k) \in Nat
    BY DEF Byte
  <2> HIDE DEF byte
  <2>2. ASSUME NEW k \in Nat, NEW v \in Nat PROVE ByteModulus * v + byte(k + 1) \in Nat
    <3>1. PICK b \in Nat : b = byte(k + 1)
      BY <2>1
    <3>2. ByteModulus * v + b \in Nat
      BY SMT
    <3> QED BY <3>1, <3>2
  <2>3. s \in [Nat -> [Nat -> Nat]]
    BY <2>2
  <2>4. \A k \in Nat : \A v \in Nat : s[k][v] = ByteModulus * v + byte(k + 1)
    BY SMT
  <2> HIDE DEF s
  <2> QED BY <2>3, <2>4
<1>2. PICK g \in [Nat -> Nat] : g[0] = 0 /\ \A k \in Nat : g[k + 1] = step[k][g[k]]
  <2>1. Recursive(Nat) /\ 0 \in Nat
    BY Recursion
  <2> QED BY ONLY <2>1, step \in [Nat -> [Nat -> Nat]] DEF Recursive
<1>3. PICK f \in [0..n -> Nat] : \A k \in 0..n : f[k] = g[k]
  <2>1. [k \in 0..n |-> g[k]] \in [0..n -> Nat]
    <3>1. \A k \in 0..n : k \in Nat
      OBVIOUS
    <3> QED BY <3>1, Zenon
  <2>2. \A k \in 0..n : [i \in 0..n |-> g[i]][k] = g[k]
    OBVIOUS
  <2> QED BY <2>1, <2>2
<1>4. /\ f[0] = 0
      /\ \A k \in 1..n : f[k] = ByteModulus * f[k - 1] + bytes[k]
  <2>1. f[0] = 0
    BY <1>2, <1>3, 0 \in 0..n
  <2>2. ASSUME NEW k \in 1..n PROVE f[k] = ByteModulus * f[k - 1] + bytes[k]
    <3>1. k - 1 \in Nat /\ k - 1 \in 0..n /\ k \in 0..n /\ (k - 1) + 1 = k
      OBVIOUS
    <3>2. PICK v \in Nat : v = g[k - 1]
      BY <1>2, <3>1
    <3>3. f[k] = step[k - 1][v] /\ f[k - 1] = v
      BY <1>2, <1>3, <3>1, <3>2
    <3>4. byte(k) = bytes[k]
      OBVIOUS
    <3> HIDE DEF byte
    <3>5. step[k - 1][v] = ByteModulus * v + byte(k)
      BY <1>1, <3>1
    <3> QED BY <3>3, <3>4, <3>5
  <2> QED BY <2>1, <2>2
<1>5. Eqn(f)
  <2>1. \A k \in 0..n : k # 0 => k \in 1..n
    OBVIOUS
  <2>2. f = [k \in 0..n |-> f[k]]
    OBVIOUS
  <2> QED BY <1>4, <2>1, <2>2
<1>6. PICK chosen : chosen = CHOOSE h : Eqn(h)
  OBVIOUS
<1>7. Eqn(chosen)
  <2> HIDE DEF Eqn
  <2> QED BY <1>5, <1>6
<1>8. Len(bytes) = n
  OBVIOUS
<1>9. ByteVectorToUint(bytes) = chosen[n]
  BY <1>6, <1>8 DEF ByteVectorToUint
<1>10. /\ chosen[0] = 0
       /\ \A k \in 1..n : chosen[k] = ByteModulus * chosen[k - 1] + bytes[k]
  <2>1. \A k \in 0..n : chosen[k] = IF k = 0 THEN 0
                                    ELSE ByteModulus * chosen[k - 1] + bytes[k]
    BY <1>7
  <2>2. 0 \in 0..n /\ \A k \in 1..n : k \in 0..n /\ k # 0
    OBVIOUS
  <2> QED BY <2>1, <2>2
<1> HIDE DEF Eqn, byte
<1>11. chosen[n] = f[n]
  <2> DEFINE T == {k \in Nat : k <= n => chosen[k] = f[k]}
  <2>1. 0 \in T
    BY <1>4, <1>10
  <2>2. ASSUME NEW k \in Nat, k \in T PROVE k + 1 \in T
    <3> SUFFICES ASSUME k + 1 <= n PROVE chosen[k + 1] = f[k + 1]  OBVIOUS
    <3>1. k + 1 \in 1..n /\ (k + 1) - 1 = k
      OBVIOUS
    <3>2. chosen[k] = f[k]
      BY <2>2
    <3> QED BY <1>4, <1>10, <3>1, <3>2
  <2> HIDE DEF T
  <2>3. Nat \subseteq T
    BY <2>1, <2>2, SetInduction
  <2>4. n \in T
    BY <2>3
  <2> QED BY <2>4 DEF T
<1>12. ValuesOf(bytes, f)
  BY <1>4, <1>8 DEF ValuesOf
<1> QED BY <1>9, <1>11, <1>12

(* What ByteVectorToUint makes of the bytes of a number: all of the number *)
(* that fits into them.                                                    *)
LEMMA ValueOfBytes ==
  ASSUME NEW n \in 0..WordLength, NEW num \in Nat
  PROVE  ByteVectorToUint([i \in 1..n |-> ByteAt(num, n - i)]) = num % ByteShift[n]
<1> USE WordAssumption
<1> DEFINE bytes == [i \in 1..n |-> ByteAt(num, n - i)]
<1>1. bytes \in [1..n -> Byte] /\ Len(bytes) = n
  BY ByteAtType
<1>2. PICK f : ValuesOf(bytes, f) /\ ByteVectorToUint(bytes) = f[n]
  <2> HIDE DEF bytes
  <2> QED BY <1>1, ByteVectorValue
<1> DEFINE T == {k \in Nat : k <= n => f[k] = (num \div ByteShift[n - k]) % ByteShift[k]}
<1>3. 0 \in T
  <2>1. PICK shift \in Nat \ {0} : shift = ByteShift[n]
    BY ByteShifts
  <2>2. num \div shift \in Nat
    BY Division
  <2>3. (num \div shift) % 1 = 0
    BY <2>2, SMT
  <2>4. f[0] = 0 /\ ByteShift[0] = 1 /\ n - 0 = n
    BY <1>2, ByteShifts DEF ValuesOf
  <2> QED BY <2>1, <2>3, <2>4
<1>4. ASSUME NEW k \in Nat, k \in T PROVE k + 1 \in T
  <2> SUFFICES ASSUME k + 1 <= n
               PROVE  f[k + 1] = (num \div ByteShift[n - (k + 1)]) % ByteShift[k + 1]
    OBVIOUS
  <2>1. PICK j \in Nat : j = n - (k + 1)
    OBVIOUS
  <2>2. n - k = j + 1 /\ k + 1 \in 1..n /\ (k + 1) - 1 = k
    BY <2>1
  <2>3. f[k + 1] = ByteModulus * f[k] + ByteAt(num, j)
    BY <1>1, <1>2, <2>1, <2>2 DEF ValuesOf
  <2>4. PICK p \in Nat \ {0} : p = ByteShift[k]
    BY ByteShifts
  <2>5. PICK a \in Nat : a = num \div ByteShift[j]
    <3>1. PICK shift \in Nat \ {0} : shift = ByteShift[j]
      BY ByteShifts
    <3>2. num \div shift \in Nat
      BY Division
    <3> QED BY <3>1, <3>2
  <2>6. f[k] = (a \div ByteModulus) % p
    <3>1. f[k] = (num \div ByteShift[j + 1]) % p
      BY <1>4, <2>2, <2>4
    <3>2. num \div ByteShift[j + 1] = a \div ByteModulus
      BY <2>5, NextShift
    <3> QED BY <3>1, <3>2
  <2>7. ByteAt(num, j) = a % ByteModulus
    BY <2>5 DEF ByteAt
  <2>8. ByteModulus * ((a \div ByteModulus) % p) + (a % ByteModulus) = a % (ByteModulus * p)
    BY RemainderOfProduct
  <2>9. ByteShift[k + 1] = ByteModulus * p
    BY <2>4, ByteShifts
  <2> QED BY <2>1, <2>3, <2>5, <2>6, <2>7, <2>8, <2>9
<1> HIDE DEF T
<1>5. Nat \subseteq T
  BY <1>3, <1>4, SetInduction
<1>6. PICK v : v = f[n]
  OBVIOUS
<1>7. f[n] = (num \div ByteShift[n - n]) % ByteShift[n]
  BY <1>5 DEF T
<1>8. n - n = 0 /\ ByteShift[0] = 1 /\ num \div 1 = num
  BY ByteShifts, SMT
<1> QED BY <1>2, <1>7, <1>8

(* What shifts find in the value of some bytes: the bytes, and before them *)
(* nothing but zeros.                                                      *)
LEMMA BytesOfValue ==
  ASSUME NEW n \in 0..WordLength, NEW bytes \in [1..n -> Byte],
         NEW num, num = ByteVectorToUint(bytes)
  PROVE  /\ num \in Nat
         /\ num \div ByteShift[n] = 0
         /\ \A j \in 0..(n - 1) : ByteAt(num, j) = bytes[n - j]
<1> USE WordAssumption
<1>1. PICK f : ValuesOf(bytes, f) /\ num = f[n]
  BY ByteVectorValue
<1>2. Len(bytes) = n
  OBVIOUS
<1>3. /\ f \in [0..n -> Nat] /\ f[0] = 0
      /\ \A k \in 1..n : f[k] = ByteModulus * f[k - 1] + bytes[k]
  BY <1>1, <1>2 DEF ValuesOf
<1>4. ASSUME NEW k \in 1..n
      PROVE  f[k] \div ByteModulus = f[k - 1] /\ f[k] % ByteModulus = bytes[k]
  <2>1. PICK a \in Nat : a = f[k - 1]
    <3>1. k - 1 \in 0..n
      OBVIOUS
    <3> QED BY <1>3, <3>1
  <2>2. PICK b \in 0..(ByteModulus - 1) : b = bytes[k]
    BY DEF Byte
  <2>3. f[k] = ByteModulus * a + b
    BY <1>3, <2>1, <2>2
  <2>4. (ByteModulus * a + b) \div ByteModulus = a /\ (ByteModulus * a + b) % ByteModulus = b
    BY NamedQuotient
  <2> QED BY <2>1, <2>2, <2>3, <2>4
<1>5. num \in Nat
  BY <1>1, <1>3, n \in 0..n
<1> DEFINE T == {d \in Nat : d <= n => num \div ByteShift[d] = f[n - d]}
<1>6. 0 \in T
  <2>1. num \div 1 = num /\ n - 0 = n
    BY <1>5
  <2> QED BY <1>1, <2>1, ByteShifts
<1>7. ASSUME NEW d \in Nat, d \in T PROVE d + 1 \in T
  <2> SUFFICES ASSUME d + 1 <= n PROVE num \div ByteShift[d + 1] = f[n - (d + 1)]
    OBVIOUS
  <2>1. n - d \in 1..n /\ (n - d) - 1 = n - (d + 1)
    OBVIOUS
  <2>2. num \div ByteShift[d] = f[n - d]
    BY <1>7
  <2>3. num \div ByteShift[d + 1] = f[n - d] \div ByteModulus
    BY <1>5, <2>2, NextShift
  <2> QED BY <1>4, <2>1, <2>3
<1>8. ASSUME NEW d \in 0..n PROVE num \div ByteShift[d] = f[n - d]
  <2> HIDE DEF T
  <2>1. Nat \subseteq T
    BY <1>6, <1>7, SetInduction
  <2>2. d \in T
    BY <2>1
  <2> QED BY <2>2 DEF T
<1>9. num \div ByteShift[n] = 0
  <2>1. n \in 0..n /\ n - n = 0
    OBVIOUS
  <2> QED BY <1>3, <1>8, <2>1
<1>10. ASSUME NEW j \in 0..(n - 1) PROVE ByteAt(num, j) = bytes[n - j]
  <2>1. j \in 0..n /\ n - j \in 1..n
    OBVIOUS
  <2>2. ByteAt(num, j) = f[n - j] % ByteModulus
    BY <1>8, <2>1 DEF ByteAt
  <2> QED BY <1>4, <2>1, <2>2
<1> QED BY <1>5, <1>9, <1>10

(* A subscriber is given the last bytes of the number that was sent. *)
LEMMA ReceivedBytes ==
  ASSUME NEW n \in 0..WordLength, NEW bytes \in [1..n -> Byte],
         NEW num, num = ByteVectorToUint(bytes)
  PROVE  onEvent(bytes) = [i \in 1..WordLength |-> ByteAt(num, WordLength - i)]
<1> USE WordAssumption
<1>1. Len(bytes) = n
  OBVIOUS
<1>2. onEvent(bytes) = Reverse(UintToByteVectorLE(num))
  BY <1>1 DEF onEvent
<1>3. Reverse(UintToByteVectorLE(num))
        = [i \in 1..WordLength |-> UintToByteVectorLE(num)[(WordLength - i) + 1]]
  <2>1. Len(UintToByteVectorLE(num)) = WordLength
    BY DEF UintToByteVectorLE
  <2> QED BY <2>1 DEF Reverse
<1>4. ASSUME NEW i \in 1..WordLength
      PROVE  UintToByteVectorLE(num)[(WordLength - i) + 1] = ByteAt(num, WordLength - i)
  <2>1. PICK k \in 1..WordLength : k = (WordLength - i) + 1
    OBVIOUS
  <2>2. UintToByteVectorLE(num)[k] = ByteAt(num, k - 1)
    BY DEF UintToByteVectorLE
  <2>3. k - 1 = WordLength - i
    BY <2>1
  <2> QED BY <2>1, <2>2, <2>3
<1> QED BY <1>2, <1>3, <1>4

LEMMA EveryValueArrives == ValueArrives
<1> USE WordAssumption
<1> SUFFICES ASSUME NEW fv \in Word,
                    NEW sent, sent = UintToByteVectorTrim(fv, WordLength - 1)
             PROVE  /\ Tail(onEvent(sent)) = sent
                    /\ ByteVectorToUint(onEvent(sent)) = fv % ByteShift[WordLength - 1]
  BY DEF ValueArrives
<1>1. PICK n \in 0..WordLength : n = WordLength - 1
  OBVIOUS
<1>2. fv \in Nat
  BY ByteShifts DEF Word
<1>3. sent = [i \in 1..n |-> ByteAt(fv, n - i)]
  BY <1>1 DEF UintToByteVectorTrim
<1>4. sent \in [1..n -> Byte]
  BY <1>2, <1>3, ByteAtType
<1>5. PICK num : num = ByteVectorToUint(sent)
  OBVIOUS
<1>6. num = fv % ByteShift[n]
  BY <1>2, <1>3, <1>5, ValueOfBytes
<1>7. /\ num \in Nat /\ num \div ByteShift[n] = 0
      /\ \A j \in 0..(n - 1) : ByteAt(num, j) = sent[n - j]
  BY <1>4, <1>5, BytesOfValue
<1>8. PICK received : received = [i \in 1..WordLength |-> ByteAt(num, WordLength - i)]
  OBVIOUS
<1>9. onEvent(sent) = received
  BY <1>4, <1>5, <1>8, ReceivedBytes
<1>10. Tail(received) = sent
  <2>1. received \in Seq(Byte) /\ Len(received) = n + 1
    BY <1>1, <1>7, <1>8, ByteAtType
  <2>2. /\ Tail(received) \in Seq(Byte) /\ Len(Tail(received)) = n
        /\ \A i \in 1..n : Tail(received)[i] = received[i + 1]
    BY <2>1
  <2>3. ASSUME NEW i \in 1..n PROVE received[i + 1] = sent[i]
    <3>1. i + 1 \in 1..WordLength /\ WordLength - (i + 1) = n - i
      BY <1>1
    <3>2. n - i \in 0..(n - 1) /\ n - (n - i) = i
      OBVIOUS
    <3> QED BY <1>7, <1>8, <3>1, <3>2
  <2>4. sent \in Seq(Byte) /\ Len(sent) = n
    BY <1>4
  <2> QED BY <2>2, <2>3, <2>4, SeqEqual
<1>11. ByteVectorToUint(received) = num
  <2>1. ByteVectorToUint(received) = num % ByteShift[WordLength]
    BY <1>7, <1>8, ValueOfBytes, WordLength \in 0..WordLength
  <2>2. PICK shift \in Nat \ {0} : shift = ByteShift[n]
    BY ByteShifts
  <2>3. num < shift
    <3>1. PICK r \in 0..(shift - 1) : num = shift * (num \div shift) + r
      BY <1>7, Division
    <3>2. shift * (num \div shift) = 0
      BY <1>7, <2>2, SMT
    <3> QED BY <3>1, <3>2
  <2>4. PICK word \in Nat \ {0} : word = ByteModulus * shift
    BY SMT
  <2>5. shift <= word
    BY <2>4, SMT
  <2>6. ByteShift[WordLength] = word
    BY <1>1, <2>2, <2>4, ByteShifts
  <2>7. num \in 0..(word - 1)
    BY <1>7, <2>3, <2>5
  <2> QED BY <2>1, <2>6, <2>7, SmallRemainder
<1> QED BY <1>1, <1>6, <1>9, <1>10, <1>11

LEMMA EverySignatureArrives == SignatureArrives
<1> USE WordAssumption
<1> SUFFICES ASSUME NEW mac \in [1..(WordLength + 1) -> Byte]
             PROVE  MacVerify(onEvent(SubSeq(mac, 1, WordLength)), mac)
  BY DEF SignatureArrives
<1>1. PICK bytes : bytes = SubSeq(mac, 1, WordLength)
  OBVIOUS
<1>2. bytes = [i \in 1..WordLength |-> mac[i]]
  BY <1>1
<1>3. bytes \in [1..WordLength -> Byte]
  BY <1>2
<1>4. PICK num : num = ByteVectorToUint(bytes)
  OBVIOUS
<1>5. \A j \in 0..(WordLength - 1) : ByteAt(num, j) = bytes[WordLength - j]
  BY <1>3, <1>4, BytesOfValue, WordLength \in 0..WordLength
<1>6. onEvent(bytes) = [i \in 1..WordLength |-> ByteAt(num, WordLength - i)]
  BY <1>3, <1>4, ReceivedBytes, WordLength \in 0..WordLength
<1>7. ASSUME NEW i \in 1..WordLength PROVE onEvent(bytes)[i] = mac[i]
  <2>1. WordLength - i \in 0..(WordLength - 1) /\ WordLength - (WordLength - i) = i
    OBVIOUS
  <2> QED BY <1>2, <1>5, <1>6, <2>1
<1>8. DOMAIN onEvent(bytes) = 1..WordLength
  BY <1>6
<1> QED BY <1>1, <1>7, <1>8 DEF MacVerify

(***************************************************************************)
(* What goes through the SCI library as a number, and is turned from bytes *)
(* into a number and back on the way, arrives as it was sent: the value    *)
(* with its computations and the MAC of an answer, whatever the length of  *)
(* a word and whatever the bytes.                                          *)
(***************************************************************************)
THEOREM AnswersArriveAsSent == Spec => []AnswerSurvivesTheWire
<1>1. AnswerSurvivesTheWire
  BY EveryValueArrives, EverySignatureArrives DEF AnswerSurvivesTheWire
<1> QED BY <1>1, PTL
=============================================================================
