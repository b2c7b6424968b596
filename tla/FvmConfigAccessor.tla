------------------------- MODULE FvmConfigAccessor --------------------------
(***************************************************************************)
(* FreshnessValueManagerConfigAccessor, one per process, as operators on   *)
(* its state: whether it has been initialised, its parser's schema and its *)
(* configuration.  Before Init has succeeded the getters give nothing.     *)
(***************************************************************************)
EXTENDS FvmConfig

NewAccessor ==
  [mInitialized |-> FALSE, mSchema |-> FALSE, mConfig |-> SokFmConfig]

(* A plausible repair of a second Init that goes wrong: nothing left to do. *)
WrongInitAgainSucceeds(accessor, file) ==
  IF accessor.mInitialized THEN [ok |-> TRUE, accessor |-> accessor]
  ELSE IF file.is = "missing" THEN [ok |-> FALSE, accessor |-> accessor]
  ELSE LET parsed == Parse(accessor, file) IN
       [ok |-> parsed.mInitialized, accessor |-> parsed]

(* Init, with the configuration file it finds.  It succeeds once. *)
AccessorInit(accessor, file) ==
  IF accessor.mInitialized \/ file.is = "missing"
    THEN [ok |-> FALSE, accessor |-> accessor]
    ELSE LET parsed == Parse(accessor, file) IN
         [ok |-> parsed.mInitialized, accessor |-> parsed]

-----------------------------------------------------------------------------
(* Getters of one entry.                                                   *)

Find(accessor, map, id) ==
  IF ~accessor.mInitialized THEN ErrorResult("kNotInitialized")
  ELSE IF id \notin DOMAIN map THEN ErrorResult("kFVNotAvailable")
  ELSE ObjectResult(map[id])

GetSokFvConfigInstanceByFvId(accessor, id) ==
  Find(accessor, accessor.mConfig.mAuthBroadcastConfig, id)

GetChallengeConfigInstanceByFvId(accessor, id) ==
  Find(accessor, accessor.mConfig.mChallengesConfig, id)

(* An ID that is in both maps is an authentic broadcast. *)
GetEntryTypeByFvId(accessor, id) ==
  LET config == accessor.mConfig IN
  IF ~accessor.mInitialized THEN ErrorResult("kNotInitialized")
  ELSE IF id \in DOMAIN config.mAuthBroadcastConfig
    THEN ObjectResult(config.mAuthBroadcastConfig[id].type)
  ELSE IF id \in DOMAIN config.mChallengesConfig
    THEN ObjectResult(config.mChallengesConfig[id].type)
  ELSE ErrorResult("kFVNotAvailable")

-----------------------------------------------------------------------------
(* Getters of the IDs.  None of them looks at the keys of the maps but for *)
(* one: as many numbers are counted on from there as there are entries.    *)

Counted(accessor, first, count) ==
  IF accessor.mInitialized THEN [i \in 1..count |-> first + i - 1] ELSE <<>>

GetAllFreshnessValueIds(accessor) ==
  Counted(accessor, 0, Cardinality(DOMAIN accessor.mConfig.mAuthBroadcastConfig)
                         + Cardinality(DOMAIN accessor.mConfig.mChallengesConfig))

WrongChallengeIdsFromZero(accessor) ==
  { Counted(accessor, 0, Cardinality(DOMAIN accessor.mConfig.mChallengesConfig)) }

(* Counts on to the last key but one. *)
WrongChallengeIdsShort(accessor) ==
  LET ids == DOMAIN accessor.mConfig.mChallengesConfig IN
  IF ~accessor.mInitialized THEN {<<>>}
  ELSE {Counted(accessor, first, Cardinality(ids) - 1) : first \in ids}

(***************************************************************************)
(* The lists this may return: an unordered map may begin with any of its   *)
(* keys.  None is returned if it is empty: the key is read from its end.   *)
(***************************************************************************)
GetAllChallengeFreshnessValueIds(accessor) ==
  LET ids == DOMAIN accessor.mConfig.mChallengesConfig IN
  IF ~accessor.mInitialized THEN {<<>>}
  ELSE {Counted(accessor, first, Cardinality(ids)) : first \in ids}

-----------------------------------------------------------------------------
(* Getters of the rest.                                                    *)

Get(accessor, field) ==
  IF accessor.mInitialized THEN accessor.mConfig[field] ELSE SokFmConfig[field]

GetClientsConfigMap(accessor) == Get(accessor, "mFmServerClientsConfig")

GetNetworkInterface(accessor) == Get(accessor, "mNetworkInterface")

GetUnauthenticatedFvSignalConfig(accessor) ==
  Get(accessor, "mUnAuthFvDistributionSignal")

GetAuthenticatedFvValueSignalConfig(accessor) == Get(accessor, "mAuthFvValueSignal")

GetAuthenticatedFvSignatureSignalConfig(accessor) ==
  Get(accessor, "mAuthFvSignatureSignal")

GetAuthenticatedFvChallengeSignalConfig(accessor) ==
  Get(accessor, "mAuthFvChallengeSignal")

GetSokKeyConfig(accessor) == Get(accessor, "mKeyConfig")

GetEcuKeyIdForFvDistribution(accessor) == Get(accessor, "mKeyIdForAuthFvDistribution")
=============================================================================
