----------------------------- MODULE MCFvServer -----------------------------
(* Instance of FvServer, with its history variable or without, for TLC: values in FvServer*.cfg. *)
EXTENDS FvServerWaiting, TLC

(* Neither clients nor random numbers have an order. *)
ServerSymmetry == Permutations(Client) \cup Permutations(Challenge)
=============================================================================
