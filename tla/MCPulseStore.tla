------------------------------ MODULE MCPulseStore ------------------------------
(* Instances of PulseStore for TLC.                                              *)
EXTENDS PulseStore

Reg(faults, crashCount, gap, drift) ==
  [faults |-> faults, crashes |-> crashCount, gap |-> gap, drift |-> drift]

(* No faults; power cuts; failing calls with captures apart; and everything at    *)
(* once, captures in the same second and a clock that steps back included.       *)
MCRegimes == {Reg({}, 0, 1, 0), Reg({}, 2, 1, 0), Reg({"open", "write", "read"}, 1, 1, 0),
              Reg({"write", "read"}, 1, 0, 1), Reg({"open", "write", "read"}, 1, 0, 1)}
=============================================================================
