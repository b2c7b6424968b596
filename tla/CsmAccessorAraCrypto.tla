------------------------ MODULE CsmAccessorAraCrypto ------------------------
(***************************************************************************)
(* The crypto accessor on top of ara::crypto (external), which may lack    *)
(* its providers and may fail in every call.  What a MAC is worth is the   *)
(* business of FvParticipant; here it is whether there is one, and how two *)
(* are compared.                                                           *)
(***************************************************************************)
EXTENDS Integers, Sequences

VARIABLES
  mProviders,  \* whether the constructor loaded both providers
  mKeysMap     \* the identifiers of keys whose UUID has been cached

csmVars == <<mProviders, mKeysMap>>

(* The only key identifier there is so far. *)
KeyStr == "b2adc146-eefa-11e8-8eb2-f2801f1b9fd1"

CsmInit == mProviders \in BOOLEAN /\ mKeysMap = {}

(* found: whether the result is true.  A cached UUID is always found. *)
GetKeyUuid(keyStr, found) ==
  /\ keyStr \in mKeysMap => found
  /\ mKeysMap' = IF found THEN mKeysMap \cup {keyStr} ELSE mKeysMap
  /\ UNCHANGED mProviders

(* The ID asked for plays no part, nor does the key storage. *)
IsKeyExists(keyId, found) == GetKeyUuid(KeyStr, found)

(* Whether the call may succeed, or fail: without providers it fails, and *)
(* with them the random generator may still refuse. *)
GenerateRandomBytes(succeeded) == succeeded => mProviders

(* data's MAC can only be computed by a key whose UUID is found. *)
MacCreate(keyId, succeeded) ==
  IF mProviders
    THEN \E found \in BOOLEAN : (succeeded => found) /\ GetKeyUuid(KeyStr, found)
    ELSE ~succeeded /\ UNCHANGED csmVars

(* mac is compared as far as it goes: a beginning of the MAC is good. *)
MacVerify(mac, macVec) == \A i \in DOMAIN mac : mac[i] = macVec[i]
=============================================================================
