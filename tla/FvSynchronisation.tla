------------------------- MODULE FvSynchronisation --------------------------
(***************************************************************************)
(* Does a participant without a valid freshness value ever get one?  The   *)
(* participant is FvParticipant; of server and medium, which FvServer and  *)
(* FvDistribution model, only this is left: each request has one answer,   *)
(* whose two halves arrive, each by itself, or are lost.  Beside them      *)
(* signals of every content turn up at any time and in any number, late    *)
(* and repeated answers and broadcasts among them.                         *)
(*                                                                         *)
(* The loop that calls MainFunction may be the sample's, which ends at the *)
(* first error MainFunction returns (SokUserSample.cpp).                   *)
(***************************************************************************)
EXTENDS FvParticipantWaiting

VARIABLES
  coming,  \* halves of the answer to the last request still to come
  stopped  \* whether the loop has ended

syncVars == <<waitingVars, coming, stopped>>

Halves == {"value", "signature"}

SyncInit == WaitingInit /\ coming = {} /\ stopped = FALSE

(* A call of the loop; the error of a failed request may end the loop. *)
LoopRuns ==
  /\ ~stopped
  /\ WaitingMain
  /\ coming' = IF pc' = "published" THEN Halves
               ELSE IF InProgress' THEN coming ELSE {}
  /\ stopped' \in {FALSE, requestFails}

Awaited(half) ==
  mCurrentFvState = "FVInProgress" /\ pc = "ready" /\ half \in coming

(* A half of the answer arrives while the request is waited for. *)
ValueArrives ==
  /\ Awaited("value")
  /\ \E fv \in Fv : incomingAuthFvValue(fv)
  /\ coming' = coming \ {"value"}
  /\ UNCHANGED <<waited, stopped>>

SignatureArrives ==
  /\ Awaited("signature")
  /\ \E mac \in Mac : /\ mac.challenge = mActiveFvChallenge
                      /\ incomingAuthFvSignature(mac)
  /\ coming' = coming \ {"signature"}
  /\ UNCHANGED <<waited, stopped>>

HalfLost ==
  /\ \E half \in Halves : Awaited(half) /\ coming' = coming \ {half}
  /\ UNCHANGED <<waitingVars, stopped>>

(* Any signal at any time. *)
StrayArrives == WaitingCallback /\ UNCHANGED <<coming, stopped>>

(* The name of a challenge that is not in use any more may stand for       *)
(* another random number, of which there is no end.                        *)
Forget ==
  /\ \E c \in challengeSignal \ {mActiveFvChallenge, genRes} :
       challengeSignal' = challengeSignal \ {c}
  /\ UNCHANGED <<mCurrentFvState, clockVars, requestVars, mUnAuthFv,
                 mCrAuthFvAndMac, pc, genRes, waited, coming, stopped>>

SyncNext ==
  \/ LoopRuns
  \/ ValueArrives
  \/ SignatureArrives
  \/ HalfLost
  \/ StrayArrives
  \/ Forget

(***************************************************************************)
(* The loop is a thread of its own, which goes on until it ends.  Random   *)
(* numbers, and with them requests, may fail, but not for ever while the   *)
(* loop runs; of the halves of answers not all but some for ever arrive    *)
(* while the request is waited for, values and signatures independently.   *)
(***************************************************************************)
Fairness ==
  /\ WF_syncVars(LoopRuns)
  /\ SF_syncVars(LoopRuns /\ pc' = "published")
  /\ SF_syncVars(ValueArrives)
  /\ SF_syncVars(SignatureArrives)
  /\ WF_syncVars(Forget)

SyncSpec == SyncInit /\ [][SyncNext]_syncVars /\ Fairness

-----------------------------------------------------------------------------
(***************************************************************************)
(* Three things can keep a participant without a value: its loop has       *)
(* ended, it is handed pairs again and again that it refuses, or none of   *)
(* the halves of answers arrives.  Timeouts that race with arrivals,       *)
(* halves left over from earlier requests, halves that come before the     *)
(* request is recorded, and broadcasts that make it drop its value cannot. *)
(***************************************************************************)
SynchronisedAgainAndAgain ==
  \/ <>[]stopped
  \/ []<><<Refuses>>_syncVars
  \/ []<>mIsFvValid
=============================================================================
