------------------------------- MODULE MCNtpClock -------------------------------
(* Instances of NtpClock for TLC.                                                *)
EXTENDS NtpClock

MCBootTimes == 5 .. 8
=============================================================================
