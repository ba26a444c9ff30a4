------------------------------- MODULE MCStation1 -------------------------------
(* Instances of Station1 for TLC.                                                *)
EXTENDS Station1

MCOrders == {SourceOrder}

Reg(faults, crashCount) == [faults |-> faults, crashes |-> crashCount, gap |-> 0, drift |-> 0]
MCRegimes == {Reg({}, 1), Reg({"write"}, 0)}
MCReliable == {Reg({}, 0)}
=============================================================================
