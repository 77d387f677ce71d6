---------------------------- MODULE FirmwareStore ----------------------------
(***************************************************************************)
(* What the A/B slot scheme of internal/agent/slot.go promises, without    *)
(* slots, markers or files: the device has one installed firmware, at most *)
(* one firmware on trial, and the trial either replaces the installed one  *)
(* in a single step or leaves no trace.  A crash, at whatever instant, is  *)
(* not visible here at all.                                                *)
(***************************************************************************)

CONSTANTS
  Versions,   \* firmware versions a device can be asked to run
  Images,     \* firmware images; an image stands for its SHA256 digest too
  Factory,    \* the version the device shipped with
  Absent,     \* no file
  Garbage     \* bytes that hash to no image: torn, partial or rotten

VARIABLES
  installed,  \* the firmware a boot falls back on: the last one confirmed
  trial       \* the firmware booted but not confirmed yet, or NoFirmware

storeVars == <<installed, trial>>

FactoryFirmware == [version |-> Factory, image |-> Absent]
NoFirmware      == [version |-> Absent, image |-> Absent]

Init ==
  /\ installed = FactoryFirmware
  /\ trial = NoFirmware

(* A complete image whose version is known is put on trial.                *)
Try(fw) ==
  /\ trial = NoFirmware
  /\ trial' = fw
  /\ UNCHANGED installed

(* The bits of the firmware on trial rot before it is confirmed.           *)
Spoil ==
  /\ trial # NoFirmware
  /\ trial' = [trial EXCEPT !.image = Garbage]
  /\ UNCHANGED installed

(* An intact trial becomes the installed firmware.                         *)
Commit ==
  /\ trial # NoFirmware
  /\ trial.image \in Images
  /\ installed' = trial
  /\ trial' = NoFirmware

(* The trial is given up; the installed firmware runs again.               *)
Revert ==
  /\ trial # NoFirmware
  /\ trial' = NoFirmware
  /\ UNCHANGED installed

Next ==
  \/ \E fw \in [version : Versions, image : Images] : Try(fw)
  \/ Spoil
  \/ Commit
  \/ Revert

Spec == Init /\ [][Next]_storeVars

=============================================================================
