-------------------------------- MODULE PulseLog --------------------------------
(* What saving and replaying a pulse sequence promises ("Loading and replaying    *)
(* most recent pulse sequence", main.c:88): a log of pulse trains, a train being  *)
(* the levels and the gaps between them, and a train at hand that is captured,    *)
(* appended to the log, or taken back from the end of the log.                    *)
EXTENDS Sequences

CONSTANT Train      \* the pulse trains that can be captured

VARIABLES
  log,              \* the trains saved so far, oldest first
  ram               \* the train in memory, <<>> if none

logVars == <<log, ram>>

LogInit == log = <<>> /\ ram = <<>>

Capture == ram' \in Train /\ UNCHANGED log
Save == ram # <<>> /\ log' = Append(log, ram) /\ UNCHANGED ram
Load == ram' = (IF log = <<>> THEN <<>> ELSE log[Len(log)]) /\ UNCHANGED log

LogNext == Capture \/ Save \/ Load

LogSpec == LogInit /\ [][LogNext]_logVars
=============================================================================
