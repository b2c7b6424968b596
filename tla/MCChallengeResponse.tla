------------------------ MODULE MCChallengeResponse -------------------------
(* Instance of ChallengeResponse for TLC: values in ChallengeResponse*.cfg. *)
EXTENDS ChallengeResponse, TLC

CrSymmetry ==
  Permutations(Challenge) \cup Permutations(Caller) \cup Permutations(Verifier)
=============================================================================
