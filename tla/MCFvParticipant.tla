-------------------------- MODULE MCFvParticipant ---------------------------
(* Instance of FvSynchronisation, and with it of FvParticipant, for TLC:    *)
(* values in FvParticipant*.cfg.  No symmetry, which liveness excludes.     *)
EXTENDS FvSynchronisation
=============================================================================
