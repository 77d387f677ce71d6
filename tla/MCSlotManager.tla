---------------------------- MODULE MCSlotManager ----------------------------
(* Instance of SlotManager for TLC: two versions and two images, so that a *)
(* slot can hold the firmware wanted, another one, or a mix of the two.    *)
EXTENDS SlotManager
=============================================================================
