------------------------------ MODULE MCDhcpServer ------------------------------
(* An instance of DhcpServer for TLC: the devices are interchangeable.           *)
EXTENDS DhcpServer, TLC

MCFirstTicks == {5}
MCSymmetry == Permutations(Devices)
=============================================================================
