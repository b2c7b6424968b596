-------------------------- MODULE FvServerWaiting ---------------------------
(***************************************************************************)
(* FvServer with a history variable: how many milliseconds, counted by the *)
(* server's own loop, each pending challenge has been pending.             *)
(***************************************************************************)
EXTENDS FvServer

VARIABLE waited

WaitingInit == Init /\ waited = [client \in Client |-> 0]

Wait ==
  waited' = [client \in Client |->
    IF mResponsePendingChallenges'[client] = NoChallenge
      THEN 0 ELSE waited[client] + MainFunctionPeriod]

WaitingMain == (\E published \in BOOLEAN : Main(published)) /\ Wait

WaitingArrival ==
  \E client \in Client, challenge \in Challenge :
    /\ incomingAuthFvChallengeSignalsCb(client, challenge)
    /\ waited' = [waited EXCEPT ![client] = 0]

WaitingSpec ==
  WaitingInit /\ [][WaitingMain \/ WaitingArrival]_<<vars, waited>>

-----------------------------------------------------------------------------
(***************************************************************************)
(* Whenever a challenge arrives, it is dealt with within one increment of  *)
(* the freshness value: the pass that answers overlooks none, and the wait *)
(* stays far below the participants' request timeout.                      *)
(***************************************************************************)
DealtWithWithinIncrement ==
  \A client \in Client : waited[client] <= TimeIncrementPeriod
=============================================================================
