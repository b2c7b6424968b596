--------------------------- MODULE FvmClockLemmas ---------------------------
(***************************************************************************)
(* The clock of FvmClock, for all periods: a running clock goes on running.*)
(***************************************************************************)
EXTENDS FvmClock, NatLemmas

(* A clock at zero runs. *)
LEMMA ZeroRuns == RunningClock(0)
<1>1. 0 % MainFunctionPeriod = 0
  BY ClockAssumption, Multiple, SMT
<1> QED BY <1>1, ClockAssumption DEF RunningClock

(***************************************************************************)
(* incTimers keeps the clock of a valid value running: the == test is met, *)
(* because the count approaches the increment in steps that divide it.     *)
(***************************************************************************)
LEMMA ClockKeepsRunning ==
  ASSUME NEW clock \in Nat, RunningClock(clock)
  PROVE  /\ NextClock(TRUE, clock) \in Nat
         /\ RunningClock(NextClock(TRUE, clock))
<1> USE ClockAssumption
<1> DEFINE next == clock + MainFunctionPeriod
<1>1. next % MainFunctionPeriod = 0
  BY NextMultiple DEF RunningClock
<1>2. next <= TimeIncrementPeriod
  BY NextMultipleIsNext DEF RunningClock
<1>3. CASE next = TimeIncrementPeriod
  BY <1>3, ZeroRuns DEF NextClock, Due
<1>4. CASE next < TimeIncrementPeriod
  BY <1>1, <1>4 DEF NextClock, Due, RunningClock, AtLeast, ClockRest
<1>5. next = TimeIncrementPeriod \/ next < TimeIncrementPeriod
  BY <1>2
<1> QED BY <1>3, <1>4, <1>5

(* Types of the two results of incTimers, for a clock that runs or rests. *)
LEMMA NextClockType ==
  ASSUME NEW valid \in BOOLEAN, NEW clock \in 0..ClockRest
  PROVE  NextClock(valid, clock) \in 0..ClockRest
  BY ClockAssumption DEF NextClock, Due, AtLeast, ClockRest

LEMMA NextFvType ==
  ASSUME NEW valid \in BOOLEAN, NEW clock, NEW fv \in Fv,
         WithinBound(valid, clock, fv)
  PROVE  NextFv(valid, clock, fv) \in Fv
  BY ClockAssumption DEF NextFv, WithinBound, Fv
=============================================================================
