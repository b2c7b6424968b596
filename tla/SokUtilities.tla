---------------------------- MODULE SokUtilities ----------------------------
(***************************************************************************)
(* The conversions between unsigned integers and byte vectors of           *)
(* include/sok/common/SokUtilities.hpp.  A byte vector is a sequence; the  *)
(* most significant byte comes first unless said otherwise.                *)
(***************************************************************************)
EXTENDS Integers, Sequences, SequencesExt

CONSTANTS
  ByteModulus,  \* values of a byte: 256
  WordLength    \* bytes of a uint64_t: 8

ASSUME WordAssumption ==
  /\ ByteModulus \in Nat \ {0, 1}
  /\ WordLength \in Nat \ {0}

Byte == 0..(ByteModulus - 1)

(* What a shift by n bytes divides by. *)
ByteShift[n \in Nat] == IF n = 0 THEN 1 ELSE ByteModulus * ByteShift[n - 1]

Word == 0..(ByteShift[WordLength] - 1)

(* The byte of num that a shift by i bytes brings to the front. *)
ByteAt(num, i) == (num \div ByteShift[i]) % ByteModulus

UintToByteVectorLE(num) == [i \in 1..WordLength |-> ByteAt(num, i - 1)]

(* The numBytes least significant bytes, or nothing if there are not so many. *)
UintToByteVectorTrim(num, numBytes) ==
  IF numBytes > WordLength THEN <<>>
  ELSE [i \in 1..numBytes |-> ByteAt(num, numBytes - i)]

UintToByteVector(num) == UintToByteVectorTrim(num, WordLength)

(* More bytes than fit say zero. *)
ByteVectorToUint(bytes) ==
  LET result[n \in 0..Len(bytes)] ==
        IF n = 0 THEN 0 ELSE ByteModulus * result[n - 1] + bytes[n]
  IN IF Len(bytes) > WordLength THEN 0 ELSE result[Len(bytes)]
=============================================================================
