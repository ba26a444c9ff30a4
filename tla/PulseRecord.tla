------------------------------- MODULE PulseRecord -------------------------------
(* The record of a pulse sequence (struct PulseCapture, src/buddy2/digital.h),     *)
(* which the interrupt fills, a save writes to the card and a load fills again.    *)
EXTENDS Integers, Sequences, FiniteSets

CONSTANTS
  MaxTransitions,   \* MAX_TRANSITIONS
  ClockMod          \* time_us_32() counts modulo this (2^32 on the device)

ASSUME RecordAssumption == MaxTransitions \in Nat \ {0} /\ ClockMod \in Nat \ {0}

VARIABLE transitions    \* the first transition_count entries of capture.transitions

Clocks == 0 .. ClockMod - 1

(* `at` is history: the clock when the handler ran.  The code keeps time and state. *)
Transition == [time : Clocks, state : BOOLEAN, at : Nat]

RecordTypeOK == transitions \in Seq(Transition) /\ Len(transitions) <= MaxTransitions
=============================================================================
