--------------------------- MODULE MCFvmLifecycle ---------------------------
(* Configuration files for FvmLifecycle: the shipped one in small, and     *)
(* those an integrator might get wrong.                                    *)
EXTENDS FvmLifecycle

Signal(name, pdu) ==
  [ frame_config |-> [name |-> "frame"], pdu_config |-> [name |-> pdu],
    signal_config |-> [name |-> name, length_in_bits |-> 64] ]

Client(name, key) ==
  [ client_ecu_name |-> name, key_id |-> key,
    challenge_signal |-> Signal("SOK_Zeit_" \o name \o "_Challenge", "from" \o name),
    response_value_signal |-> Signal("SOK_Zeit_" \o name \o "_Value", "to" \o name),
    response_signature_signal |->
      Signal("SOK_Zeit_" \o name \o "_Signature", "to" \o name) ]

Challenge(id, type) ==
  [ fv_id |-> id, challenge_type |-> type,
    signal |-> Signal("challenge" \o ToString(id), "challenge") ]

Key(id) == [fv_id |-> id, key_id |-> id]

(* What the server configures for its client, the participant mirrors. *)
Doc ==
  [ version |-> 1, network_interface |-> "eth0", ecu_name |-> "SINK",
    ecu_key_id_auth_fv |-> 1,
    unauthenticated_fv_signal_config |-> Signal("SOK_Zeit", "time"),
    authenticated_fv_value_signal_config |-> Signal("SOK_Zeit_SINK_Value", "toSINK"),
    authenticated_fv_signature_signal_config |->
      Signal("SOK_Zeit_SINK_Signature", "toSINK"),
    authenticated_fv_value_challenge_config |->
      Signal("SOK_Zeit_SINK_Challenge", "fromSINK"),
    auth_br_config |->
      << [ fv_id |-> 0, sok_freshness_type |-> "FV_SESSION_SENDER", pdu_id |-> 0,
           session_counter_length_bits |-> 2 ] >>,
    challenge_response_config |-> << Challenge(1, "RESPONSE") >>,
    key_config |-> << Key(0), Key(1) >>,
    clients_signals_config |-> << Client("SINK", 1) >> ]

Text(doc) == [is |-> "object", doc |-> doc]

Without(member) == [m \in DOMAIN Doc \ {member} |-> Doc[m]]

Files ==
  { NoFile, [is |-> "empty"], [is |-> "malformed"],
    Text(Doc),
    Text([Doc EXCEPT !.challenge_response_config =
      << Challenge(1, "RESPONSE"), Challenge(2, "CHALLENGE") >>]),
    Text([Doc EXCEPT !.challenge_response_config = <<>>]),
    Text([Doc EXCEPT !.key_config = << Key(0), Key(0) >>]),
    Text([Doc EXCEPT !.challenge_response_config = << Challenge(2, "RESPONSE") >>,
                     !.clients_signals_config = << Client("SINK", 1), Client("TAIL", 0) >>]),
    Text([Doc EXCEPT !.version = 2]),
    Text(Without("ecu_name")) }

(* The integrator has given every signal its name and every PDU its frame. *)
ASSUME FilesApart ==
  \A text \in Files : text.is = "object" /\ FVM_CONFIG_SCHEMA(text.doc)
    => SignalsApart(text.doc)
=============================================================================
