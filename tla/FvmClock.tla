------------------------------ MODULE FvmClock ------------------------------
(***************************************************************************)
(* The freshness-value clock shared by every FVM instance: mClockCount     *)
(* counts milliseconds in steps of one MainFunction period, and mFV grows  *)
(* by one when the count reaches one increment period                      *)
(* (AFreshnessValueManagerImpl::incTimers).  Participant and server keep   *)
(* one such clock each; this module holds the part they have in common.    *)
(***************************************************************************)
EXTENDS Naturals

CONSTANTS
  MainFunctionPeriod,   \* SOK_FM_MAIN_FUNCTION_PERIOD_MS
  TimeIncrementPeriod,  \* SOK_FM_TIME_INCREMENT_PERIOD_MS
  MaxFv                 \* bound: no clock ticks beyond this freshness value

(***************************************************************************)
(* incTimers compares the count with == only, so that it works at all      *)
(* rests on the increment being a multiple of the period (100 and 5).      *)
(***************************************************************************)
ASSUME ClockAssumption ==
  /\ MainFunctionPeriod \in Nat \ {0}
  /\ TimeIncrementPeriod \in Nat \ {0}
  /\ TimeIncrementPeriod % MainFunctionPeriod = 0
  /\ MaxFv \in Nat

Fv == 0..MaxFv

(***************************************************************************)
(* While there is no valid freshness value nothing stops mClockCount; no   *)
(* code reads it in that phase, so the model lets it rest at a value no    *)
(* running clock has.                                                      *)
(***************************************************************************)
ClockRest == TimeIncrementPeriod + MainFunctionPeriod

AtLeast(n, bound) == IF n >= bound THEN bound ELSE n

Due(valid, clock) == valid /\ clock + MainFunctionPeriod = TimeIncrementPeriod

(* Definitions called Wrong... are faults that the code could have had; they *)
(* take the place of the definition after them to see which property fails.  *)
WrongClockResetLate(valid, clock) ==
  IF Due(valid, clock) THEN MainFunctionPeriod
                       ELSE AtLeast(clock + MainFunctionPeriod, ClockRest)

NextClock(valid, clock) ==
  IF Due(valid, clock) THEN 0 ELSE AtLeast(clock + MainFunctionPeriod, ClockRest)

WrongFvEveryCall(valid, clock, fv) == IF valid THEN fv + 1 ELSE fv

NextFv(valid, clock, fv) == IF Due(valid, clock) THEN fv + 1 ELSE fv

(* The bound on mFV: a tick that would pass MaxFv is not taken. *)
WithinBound(valid, clock, fv) == Due(valid, clock) => fv < MaxFv

(* The counts a running clock may show: it never misses the == test. *)
RunningClock(clock) ==
  clock < TimeIncrementPeriod /\ clock % MainFunctionPeriod = 0
=============================================================================
