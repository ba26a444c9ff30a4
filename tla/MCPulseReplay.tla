----------------------------- MODULE MCPulseReplay -----------------------------
(* Instances of PulseReplay for TLC: every capture of up to three transitions     *)
(* that alternates, from a HIGH or (raced) from a LOW.                            *)
EXTENDS PulseReplay

MCCaptures ==
  {[i \in 1 .. n |-> [time |-> times[i], state |-> (i % 2 = 1) = first]] :
     n \in 0 .. 3, times \in [1 .. 3 -> 0 .. ClockMod - 1], first \in BOOLEAN}
=============================================================================
