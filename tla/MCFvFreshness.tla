--------------------------- MODULE MCFvFreshness ----------------------------
EXTENDS FvFreshness

(* SecOC as its interface documents it: four attempts, true results. *)
AsDocumented ==
  [threads |-> {1}, maxAttempts |-> 4, alwaysSuccess |-> FALSE,
   maxTime |-> 400, maxSent |-> 2]

(* SecOC as the sample user works around it, for PDUs that come apart ... *)
OneByOneInSample ==
  [threads |-> {1}, maxAttempts |-> 1, alwaysSuccess |-> TRUE,
   maxTime |-> 300, maxSent |-> 3]

(* ... and for PDUs, or repetitions of one, that come close together. *)
TogetherInSample ==
  [threads |-> {1, 2}, maxAttempts |-> 1, alwaysSuccess |-> TRUE,
   maxTime |-> 200, maxSent |-> 2]

All == {AsDocumented, OneByOneInSample, TogetherInSample}

OnlyDocumented == {AsDocumented}
=============================================================================
