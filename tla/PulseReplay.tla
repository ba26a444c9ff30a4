------------------------------ MODULE PulseReplay ------------------------------
(* replay_pulses (src/buddy2/digital.c): the capture is put out on the output     *)
(* pin, each transition waiting in a polling loop for a time computed from the    *)
(* moment the one before it was put out, modulo the 32-bit clock.                 *)
EXTENDS Integers, Sequences

CONSTANTS
  Captures,         \* the captures that may be replayed
  ClockMod,         \* time_us_32() counts modulo this
  NumTimes,         \* the argument of main's call, replay_pulses(2)
  InitialDelay,     \* the interval before the first transition (1000 us)
  MaxElapsed        \* bound: `elapsed` is counted up to here

ASSUME ReplayAssumption ==
  /\ ClockMod \in Nat \ {0}
  /\ NumTimes \in Nat \ {0}
  /\ InitialDelay \in 0 .. ClockMod - 1
  /\ MaxElapsed \in Nat /\ MaxElapsed >= ClockMod - 1
  /\ Captures \subseteq Seq([time : 0 .. ClockMod - 1, state : BOOLEAN])

VARIABLES
  transitions,      \* the capture; nothing changes it while it is replayed
  pc,               \* "idle", "sleep", "begin", "wait", "stamp"
  replay,           \* the pass that is under way, from 1
  index,            \* the transition that is next, from 1
  last_transition_time,
  output,           \* the output pin
  now,              \* time_us_32()
  elapsed           \* history: microseconds since last_transition_time was read

replayVars == <<transitions, pc, replay, index, last_transition_time, output, now, elapsed>>
control == <<pc, replay, index>>

interval(i) ==
  IF i = 1 THEN InitialDelay
  ELSE (transitions[i].time - transitions[i - 1].time) % ClockMod

target_time == (last_transition_time + interval(index)) % ClockMod

ReplayInit ==
  /\ transitions \in Captures
  /\ pc = "idle" /\ replay = 0 /\ index = 0
  /\ last_transition_time = 0 /\ output = FALSE
  /\ now \in 0 .. ClockMod - 1
  /\ elapsed = 0

Tick ==
  /\ now' = (now + 1) % ClockMod
  /\ elapsed' = IF elapsed < MaxElapsed THEN elapsed + 1 ELSE elapsed
  /\ UNCHANGED <<transitions, control, last_transition_time, output>>

(* The call: nothing to replay, or the sleep before the first pass.              *)
Start ==
  /\ pc = "idle"
  /\ transitions # <<>>
  /\ pc' = "sleep" /\ replay' = 1
  /\ UNCHANGED <<transitions, index, last_transition_time, output, now, elapsed>>

Wake ==
  /\ pc = "sleep"
  /\ pc' = "begin"
  /\ UNCHANGED <<transitions, replay, index, last_transition_time, output, now, elapsed>>

Begin ==
  /\ pc = "begin"
  /\ pc' = "wait"
  /\ index' = 1
  /\ last_transition_time' = now /\ elapsed' = 0
  /\ output' = FALSE
  /\ UNCHANGED <<transitions, replay, now>>

(* The polling loop ends; the clock is read again only after the pin is set.     *)
WaitOverEarly == now + 1 >= target_time
WaitOverAfter == now > target_time
WaitOver == now >= target_time

Put ==
  /\ pc = "wait"
  /\ WaitOver
  /\ pc' = "stamp"
  /\ output' = transitions[index].state
  /\ UNCHANGED <<transitions, replay, index, last_transition_time, now, elapsed>>

ends_as_is == output
ends_low == FALSE

more_to_put_at_end == index <= Len(transitions)
more_to_put == index < Len(transitions)

Stamp ==
  /\ pc = "stamp"
  /\ last_transition_time' = now /\ elapsed' = 0
  /\ IF more_to_put
     THEN pc' = "wait" /\ index' = index + 1 /\ UNCHANGED <<replay, output>>
     ELSE IF replay < NumTimes
     THEN pc' = "sleep" /\ replay' = replay + 1 /\ UNCHANGED <<index, output>>
     ELSE pc' = "idle" /\ replay' = 0 /\ index' = 0 /\ output' = ends_low
  /\ UNCHANGED <<transitions, now>>

ReplaySteps == Wake \/ Begin \/ Stamp

ReplayNext == Tick \/ Start \/ ReplaySteps \/ Put

ReplaySpec == ReplayInit /\ [][ReplayNext]_replayVars

(* The timer runs, the main thread runs, and the polling loop samples the timer  *)
(* more often than it ticks: a target that comes round again and again is not    *)
(* missed every time.                                                             *)
ReplayFairSpec ==
  ReplaySpec /\ WF_replayVars(Tick) /\ WF_replayVars(ReplaySteps) /\ SF_replayVars(Put)

-----------------------------------------------------------------------------
(* Properties.                                                                 *)

(* Every variable keeps its type; the index stays within the capture.           *)
ReplayTypeOK ==
  /\ transitions \in Captures
  /\ pc \in {"idle", "sleep", "begin", "wait", "stamp"}
  /\ replay \in 0 .. NumTimes
  /\ index \in 0 .. Len(transitions)
  /\ pc \in {"wait", "stamp"} => index \in 1 .. Len(transitions)
  /\ last_transition_time \in 0 .. ClockMod - 1
  /\ now \in 0 .. ClockMod - 1
  /\ output \in BOOLEAN
  /\ elapsed \in 0 .. MaxElapsed

CapturedGap(i) ==
  IF i = 1 THEN InitialDelay ELSE (transitions[i].time - transitions[i - 1].time) % ClockMod

Puts == pc = "wait" /\ pc' = "stamp"

(* No transition is put out before its captured gap has passed since the one     *)
(* before it, as long as the target did not wrap; in particular not when the     *)
(* clock itself wraps during the wait (digital.c:118-121).                       *)
NotEarlyUnlessWrapped ==
  [][Puts /\ last_transition_time + CapturedGap(index) < ClockMod
       => elapsed >= CapturedGap(index)]_replayVars

(* Between replays the output is low, whatever the capture ended with            *)
(* (digital.c:145 "Ensure we end in a low state").                               *)
IdleIsLow == pc = "idle" => ~output

(* A replay that is begun comes to its end: no target is waited for for ever.    *)
ReplayEnds == pc = "sleep" ~> pc = "idle"
=============================================================================
