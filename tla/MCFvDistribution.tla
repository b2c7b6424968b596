-------------------------- MODULE MCFvDistribution --------------------------
(* Instance of FvDistribution for TLC: values in FvDistribution*.cfg. *)
EXTENDS FvDistribution, TLC

ChallengeSymmetry == Permutations(Challenge)
=============================================================================
