------------------------ MODULE FvParticipantWaiting ------------------------
(***************************************************************************)
(* FvParticipant with a history variable: how many milliseconds, counted   *)
(* by calls of MainFunction, the request in progress has been waited for.  *)
(* A call that refuses a pair is left out, as the code's own timer leaves  *)
(* it out: that each such call costs one period more, and not the whole    *)
(* wait so far, is what the property says.                                 *)
(***************************************************************************)
EXTENDS FvParticipant

VARIABLE waited

waitingVars == <<vars, waited>>

InProgress == mCurrentFvState \in {"FVInProgress", "ProcessFV"}

Refuses == mCurrentFvState = "ProcessFV" /\ mCurrentFvState' = "FVInProgress"

WaitingInit == Init /\ waited = 0

WaitingMain ==
  /\ MainFunction
  /\ waited' = IF InProgress /\ InProgress'
                 THEN IF Refuses THEN waited ELSE waited + MainFunctionPeriod
                 ELSE 0

WaitingCallback == SignalCallback /\ UNCHANGED waited

WaitingSpec == WaitingInit /\ [][WaitingMain \/ WaitingCallback]_waitingVars

-----------------------------------------------------------------------------
(***************************************************************************)
(* Between two calls of MainFunction no request has been waited for longer *)
(* than the request timeout and one call for each pair it refused.  There  *)
(* is no bound on the latter: the timer stands still in ProcessFV, and     *)
(* each refusal goes back to waiting with the old timer.                   *)
(***************************************************************************)
GivenUpAfterTimeout == pc = "ready" => waited <= TimeRequestTimeout
=============================================================================
