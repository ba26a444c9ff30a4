----------------------------- MODULE MCPulseCapture -----------------------------
(* Instances of PulseCapture for TLC: the stores in source order, or in any.     *)
EXTENDS PulseCapture

MCOrders == {SourceOrder, {}}
=============================================================================
