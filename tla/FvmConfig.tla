------------------------------ MODULE FvmConfig ------------------------------
(***************************************************************************)
(* The configuration of the FVM: what FvmConfigParser makes of the JSON    *)
(* text, and what FreshnessValueManagerConfigAccessor gives out of it.     *)
(*                                                                         *)
(* A text is [is |-> "empty"], "malformed" or "object"; an object comes    *)
(* with the document doc.  A JSON object is a record (a member that is     *)
(* missing is no field of it), an array a sequence (IsArray: a member of   *)
(* another type is refused like a missing one).  Of frames, PDUs and       *)
(* signals only what identifies them and the signal's length is kept.      *)
(* A std::unordered_map is a function on its keys.                         *)
(***************************************************************************)
EXTENDS Integers, Sequences, FiniteSets, ErrorOrObjectResult

NoEntries == [key \in {} |-> 0]

-----------------------------------------------------------------------------
(* The JSON schema.                                                        *)

SCHEMA_VERSION == 1

SignalSections ==
  { "unauthenticated_fv_signal_config", "authenticated_fv_value_signal_config",
    "authenticated_fv_signature_signal_config",
    "authenticated_fv_value_challenge_config" }

Arrays ==
  { "auth_br_config", "challenge_response_config", "key_config",
    "clients_signals_config" }

Required ==
  SignalSections \cup
  Arrays \cup {"version", "network_interface", "ecu_name", "ecu_key_id_auth_fv"}

IsArray(member) == member \in Seq({member[i] : i \in DOMAIN member})

BroadcastMembers ==
  {"fv_id", "sok_freshness_type", "pdu_id", "session_counter_length_bits"}

ChallengeMembers == {"fv_id", "challenge_type", "signal"}

ClientSignals ==
  {"challenge_signal", "response_value_signal", "response_signature_signal"}

ClientMembers == ClientSignals \cup {"client_ecu_name", "key_id"}

IsKeyId(n) == n \in 0..65535

IsSignal(object) == {"frame_config", "pdu_config", "signal_config"} \subseteq DOMAIN object

(* FVM_CONFIG_SCHEMA: only the entries of arrays may have no other members. *)
FVM_CONFIG_SCHEMA(doc) ==
  /\ Required \subseteq DOMAIN doc
  /\ doc.version \in Nat
  /\ IsKeyId(doc.ecu_key_id_auth_fv)
  /\ \A member \in SignalSections : IsSignal(doc[member])
  /\ \A i \in DOMAIN doc.auth_br_config :
       LET entry == doc.auth_br_config[i] IN
       /\ DOMAIN entry = BroadcastMembers
       /\ entry.sok_freshness_type \in
            {"FV", "FV_SESSION_SENDER", "FV_SESSION_RECEIVER"}
       /\ entry.fv_id \in Nat /\ entry.session_counter_length_bits \in Nat
  /\ \A i \in DOMAIN doc.challenge_response_config :
       LET entry == doc.challenge_response_config[i] IN
       /\ DOMAIN entry = ChallengeMembers
       /\ entry.challenge_type \in {"CHALLENGE", "RESPONSE"}
       /\ entry.fv_id \in Nat
       /\ IsSignal(entry.signal)
  /\ \A i \in DOMAIN doc.key_config :
       LET entry == doc.key_config[i] IN
       /\ DOMAIN entry = {"fv_id", "key_id"}
       /\ entry.fv_id \in Nat /\ IsKeyId(entry.key_id)
  /\ \A i \in DOMAIN doc.clients_signals_config :
       LET entry == doc.clients_signals_config[i] IN
       /\ DOMAIN entry = ClientMembers
       /\ IsKeyId(entry.key_id)
       /\ \A member \in ClientSignals : IsSignal(entry[member])

-----------------------------------------------------------------------------
(* FvmConfigParser.  A fetch operator returns whether it succeeded, and    *)
(* the configuration, which what was fetched before a failure stays in.    *)

SignalConfig(name, length, pdu, frame) ==
  [ name |-> name, lengthInBits |-> length,
    pduConfig |-> [name |-> pdu, frameConfig |-> [name |-> frame]] ]

(* A SignalConfig that was default-constructed. *)
NoSignal == SignalConfig("", 0, "", "")

SokFmConfig ==
  [ mNetworkInterface |-> "", mEcuName |-> "",
    mKeyIdForAuthFvDistribution |-> 0,
    mAuthBroadcastConfig |-> NoEntries, mChallengesConfig |-> NoEntries,
    mKeyConfig |-> NoEntries, mFmServerClientsConfig |-> NoEntries,
    mUnAuthFvDistributionSignal |-> NoSignal, mAuthFvChallengeSignal |-> NoSignal,
    mAuthFvValueSignal |-> NoSignal, mAuthFvSignatureSignal |-> NoSignal ]

fetchSignalConfig(object) ==
  SignalConfig(object.signal_config.name, object.signal_config.length_in_bits,
               object.pdu_config.name, object.frame_config.name)

convertStringFreshnessTypeToEnum(freshnessType) ==
  CASE freshnessType = "CHALLENGE" -> "kVwSokFreshnessCrChallenge"
    [] freshnessType = "RESPONSE" -> "kVwSokFreshnessCrResponse"
    [] freshnessType = "FV" -> "kVwSokFreshnessValue"
    [] freshnessType = "FV_SESSION_RECEIVER" -> "kVwSokFreshnessValueSessionReceiver"
    [] freshnessType = "FV_SESSION_SENDER" -> "kVwSokFreshnessValueSessionSender"
    [] OTHER -> "kEndEnum"

(***************************************************************************)
(* The loop that emplaces the key and value of one entry of an array after *)
(* the other into the map of that name and ends at the first key that is   *)
(* there already.                                                          *)
(***************************************************************************)
Emplaced(config, map, entries) ==
  LET Duplicate(i) == \/ entries[i].key \in DOMAIN config[map]
                      \/ \E j \in 1..(i - 1) : entries[j].key = entries[i].key
      stored == {i \in DOMAIN entries : \A j \in 1..i : ~Duplicate(j)}
      keys == {entries[i].key : i \in stored}
      At(key) == CHOOSE i \in stored : entries[i].key = key
  IN [ ok |-> stored = DOMAIN entries,
       config |-> [config EXCEPT ![map] =
         [key \in DOMAIN @ \cup keys |->
            IF key \in keys THEN entries[At(key)].value ELSE @[key]]] ]

fetchGeneralConfigurations(doc, config) ==
  [ ok |-> TRUE,
    config |-> [config EXCEPT
      !.mEcuName = doc.ecu_name,
      !.mNetworkInterface = doc.network_interface,
      !.mKeyIdForAuthFvDistribution = doc.ecu_key_id_auth_fv] ]

(* The length is called bits, cast to eight of them, and used for bytes. *)
fetchAuthenticBroadcastConfigurations(doc, config) ==
  LET Value(entry) ==
        [ type |-> convertStringFreshnessTypeToEnum(entry.sok_freshness_type),
          sessionCounterLength |-> entry.session_counter_length_bits % 256 ]
      array == doc.auth_br_config
  IN Emplaced(config, "mAuthBroadcastConfig",
       [i \in DOMAIN array |-> [key |-> array[i].fv_id, value |-> Value(array[i])]])

fetchChallengeResponseConfigurations(doc, config) ==
  LET Value(entry) ==
        [ type |-> convertStringFreshnessTypeToEnum(entry.challenge_type),
          challengeSignalConfig |-> fetchSignalConfig(entry.signal) ]
      array == doc.challenge_response_config
  IN Emplaced(config, "mChallengesConfig",
       [i \in DOMAIN array |-> [key |-> array[i].fv_id, value |-> Value(array[i])]])

fetchFvDistributionSignalConfigurations(doc, config) ==
  [ ok |-> TRUE,
    config |-> [config EXCEPT
      !.mUnAuthFvDistributionSignal =
         fetchSignalConfig(doc.unauthenticated_fv_signal_config),
      !.mAuthFvChallengeSignal =
         fetchSignalConfig(doc.authenticated_fv_value_challenge_config),
      !.mAuthFvValueSignal =
         fetchSignalConfig(doc.authenticated_fv_value_signal_config),
      !.mAuthFvSignatureSignal =
         fetchSignalConfig(doc.authenticated_fv_signature_signal_config)] ]

fetchKeyConfigurations(doc, config) ==
  LET array == doc.key_config IN
  Emplaced(config, "mKeyConfig",
    [i \in DOMAIN array |-> [key |-> array[i].fv_id, value |-> array[i].key_id]])

fetchClientsConfigurations(doc, config) ==
  LET Value(entry) ==
        [ keyId |-> entry.key_id,
          clientChallengeSignal |-> fetchSignalConfig(entry.challenge_signal),
          clientResponseValueSignal |->
            fetchSignalConfig(entry.response_value_signal),
          clientResponseSignatureSignal |->
            fetchSignalConfig(entry.response_signature_signal) ]
      array == doc.clients_signals_config
  IN Emplaced(config, "mFmServerClientsConfig",
       [i \in DOMAIN array |->
          [key |-> array[i].client_ecu_name, value |-> Value(array[i])]])

(* The chain of fetches, each made only if those before it succeeded. *)
Fetched(doc, config) ==
  LET Then(result, Fetch(_, _)) ==
        IF result.ok THEN Fetch(doc, result.config) ELSE result
  IN Then(Then(Then(Then(Then(
       fetchGeneralConfigurations(doc, config),
       fetchAuthenticBroadcastConfigurations),
       fetchChallengeResponseConfigurations),
       fetchFvDistributionSignalConfigurations),
       fetchKeyConfigurations),
       fetchClientsConfigurations)

(***************************************************************************)
(* One call of Parse.  mSchema tells whether the schema has been compiled. *)
(* It is compiled by the first text that is not empty, and a parser that   *)
(* has it takes the branch of a failed compilation from then on.           *)
(***************************************************************************)
Parse(accessor, json) ==
  LET Failed == [ok |-> FALSE, config |-> accessor.mConfig]
      result ==
        IF \/ json.is = "empty" \/ accessor.mSchema
           \/ json.is # "object"
           \/ ~FVM_CONFIG_SCHEMA(json.doc)
           \/ json.doc.version # SCHEMA_VERSION
          THEN Failed ELSE Fetched(json.doc, accessor.mConfig)
  IN [ mInitialized |-> result.ok,
       mSchema |-> accessor.mSchema \/ json.is # "empty",
       mConfig |-> result.config ]
=============================================================================
