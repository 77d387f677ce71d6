----------------------------- MODULE MCEdgeDevice -----------------------------
(* Instances of EdgeDevice for TLC.                                        *)
EXTENDS EdgeDevice

OnTime == {0}
LateOrEarly == {-1, 2}
=============================================================================
