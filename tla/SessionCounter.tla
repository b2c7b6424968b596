--------------------------- MODULE SessionCounter ---------------------------
(***************************************************************************)
(* The session counter of one sender: IncSessionCounter over and over.     *)
(* The carry of incrementByteArray happens when a byte leaves zero instead *)
(* of when it returns to it, so that the bytes do not count 0, 1, 2, ...   *)
(* once there are two of them.                                             *)
(***************************************************************************)
EXTENDS FvmRuntimeAttributes

VARIABLE attributes

Init == attributes = InitAttributes

Next == attributes' = IncSessionCounter(attributes)

Spec == Init /\ [][Next]_attributes

(***************************************************************************)
(* The receiver's expectation (GetNextSessionCounter) is documented as     *)
(* "serialized vector of the counter + 1".  With two bytes or more it is   *)
(* not: 0 is followed by 257.                                              *)
(***************************************************************************)
NextIsPlusOne ==
  [][ByteVectorToUint(GetNextSessionCounter(attributes)) =
       (ByteVectorToUint(GetSessionCounter(attributes)) + 1)
         % ByteShift[SessionCounterLength]]_attributes
=============================================================================
