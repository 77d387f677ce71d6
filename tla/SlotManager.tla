----------------------------- MODULE SlotManager -----------------------------
(***************************************************************************)
(* The A/B slots of the edge agent (internal/agent/slot.go) driven by the  *)
(* two callers they have: bootSequence when the process starts and         *)
(* runUpgrade while it runs (internal/agent/agent.go).                     *)
(*                                                                         *)
(* Every system call that changes the data directory is a step of its own, *)
(* and the process can be killed between any two of them, so a behaviour   *)
(* contains every file-system state a restart can find.  os.WriteFile and  *)
(* os.Create truncate before they write: a file that is being rewritten    *)
(* holds Garbage from the truncation to the end of the write.  The markers *)
(* need no such state: .confirmed is empty anyway, and an empty .pending   *)
(* parses as zero attempts (slot.go:203 drops the error of Atoi).          *)
(*                                                                         *)
(* The upgrade starts here with an image that VerifySHA256 accepted;       *)
(* downloading and verifying it happen before and touch no slot.           *)
(***************************************************************************)
EXTENDS Integers

CONSTANTS
  Versions,    \* firmware versions a Spec can ask for
  Images,      \* firmware images; an image stands for its SHA256 digest too
  Factory,     \* the version the device ships with
  Absent,      \* no such file, or no target
  Garbage,     \* bytes that hash to no image
  Corruption,  \* may flash writes and trial images go bad (slot.go:139)
  WriteErrors, \* may calls that write, create, rename or remove fail
  MaxCrashes   \* bound: how often the process is killed

ASSUME ConstantsAssumption ==
  /\ Absent \notin Images \cup Versions \cup {Factory, Garbage, "A", "B"}
  /\ Garbage \notin Images \cup Versions \cup {Factory}
  /\ Factory \notin Versions
  /\ Corruption \in BOOLEAN
  /\ WriteErrors \in BOOLEAN
  /\ MaxCrashes \in Nat

VARIABLES
  current,    \* target of the `current` symlink; Absent before factory set-up
  firmware,   \* per slot: contents of firmware.bin
  version,    \* per slot: contents of the version file
  checksum,   \* per slot: contents of the checksum file
  confirmed,  \* per slot: the .confirmed marker exists
  pending,    \* per slot: attempts recorded in .pending, or NoMarker
  pc,         \* the next system call of the process, "off" when it is dead
  caller,     \* who called the slot manager: bootSequence or runUpgrade
  target,     \* version and checksum of the upgrade in flight, or NoTarget
  crashes,    \* kills so far, up to MaxCrashes
  granted     \* auxiliary: trial boots a slot was granted since its .pending
              \* was written by PromoteStaged

disk == <<current, firmware, version, checksum, confirmed, pending>>
files == <<firmware, version, checksum>>
markers == <<confirmed, pending>>
vars == <<disk, pc, caller, target, crashes, granted>>

Slots == {"A", "B"}
NoMarker == -1
Targets == [version : Versions, checksum : Images]
NoTarget == [version |-> Absent, checksum |-> Absent]

BootCalls ==
  {"factoryVersion", "factoryConfirm", "factorySwitch", "bootCheck",
   "spendAttempt", "selfCheck", "confirmWrite", "confirmRemove",
   "rollbackRemove", "rollbackSwitch"}
StageCalls ==
  {"stageUnconfirm", "stageUnpend", "stageCreate", "stageCopy",
   "stageOpenVersion", "stageVersion", "stageOpenChecksum", "stageChecksum",
   "verifyStaged", "promotePending", "promoteSwitch"}

TypeOK ==
  /\ current \in Slots \cup {Absent}
  /\ firmware \in [Slots -> Images \cup {Absent, Garbage}]
  /\ version \in [Slots -> Versions \cup {Factory, Absent, Garbage}]
  /\ checksum \in [Slots -> Images \cup {Absent, Garbage}]
  /\ confirmed \in [Slots -> BOOLEAN]
  /\ pending \in [Slots -> {NoMarker, 0, 1}]
  /\ pc \in BootCalls \cup StageCalls \cup {"off", "ready"}
  /\ caller \in {"bootSequence", "runUpgrade"}
  /\ target \in Targets \cup {NoTarget}
  /\ crashes \in 0..MaxCrashes
  /\ granted \in [Slots -> Nat]

other(slot) == IF slot = "A" THEN "B" ELSE "A"

-----------------------------------------------------------------------------
(* What the code reads off a slot.                                         *)

(* VerifySHA256 of firmware.bin against the slot's own checksum file, as   *)
(* VerifyStaged and SelfCheck call it.                                     *)
HashMatches(slot) ==
  /\ firmware[slot] \in Images
  /\ checksum[slot] = firmware[slot]

(* Mutation: the attempt counter is compared with > instead of >=.         *)
AttemptSpentOffByOne(slot) == pending[slot] > 1

(* The trial boot of the slot is used up: tries >= 1.                      *)
AttemptSpent(slot) == pending[slot] >= 1

(* BootCheck finds the slot neither confirmed nor with an attempt left.    *)
MustRollBack(slot) ==
  /\ ~confirmed[slot]
  /\ pending[slot] = NoMarker \/ AttemptSpent(slot)

(* Mutation: Stage forgets other() and writes into the active slot.        *)
StagedSlotIsActive == current

(* The slot that Stage, VerifyStaged and PromoteStaged work on.            *)
StagedSlot == other(current)

-----------------------------------------------------------------------------
Init ==
  /\ current = Absent
  /\ firmware = [s \in Slots |-> Absent]
  /\ version = [s \in Slots |-> Absent]
  /\ checksum = [s \in Slots |-> Absent]
  /\ confirmed = [s \in Slots |-> FALSE]
  /\ pending = [s \in Slots |-> NoMarker]
  /\ pc = "off"
  /\ caller = "bootSequence"
  /\ target = NoTarget
  /\ crashes = 0
  /\ granted = [s \in Slots |-> 0]

(* The process executes the call at `from` and stands before the one at to.*)
Step(from, to) == pc = from /\ pc' = to

-----------------------------------------------------------------------------
(* Start of the process: NewSlotManager, then bootSequence.                *)

PowerOn ==
  /\ Step("off", IF current = Absent THEN "factoryVersion" ELSE "bootCheck")
  /\ caller' = "bootSequence"
  /\ UNCHANGED <<disk, target, crashes, granted>>

FactoryVersion ==
  /\ Step("factoryVersion", "factoryConfirm")
  /\ version' = [version EXCEPT !["A"] = Factory]
  /\ UNCHANGED <<current, firmware, checksum, markers, caller, target,
                 crashes, granted>>

FactoryConfirm ==
  /\ Step("factoryConfirm", "factorySwitch")
  /\ confirmed' = [confirmed EXCEPT !["A"] = TRUE]
  /\ UNCHANGED <<current, files, pending, caller, target, crashes, granted>>

(* switchTo: the rename over `current` is the one step others can see.     *)
switchTo(slot) ==
  /\ current' = slot
  /\ UNCHANGED <<files, markers>>

FactorySwitch ==
  /\ Step("factorySwitch", "bootCheck")
  /\ switchTo("A")
  /\ UNCHANGED <<caller, target, crashes, granted>>

(* BootCheck, the reads: a confirmed slot boots normally (which runUpgrade *)
(* reports as a failure, but nothing on disk changes), a slot without      *)
(* attempt rolls back, and a slot with one goes on to spend it.            *)
BootCheck ==
  /\ pc = "bootCheck"
  /\ \/ confirmed[current] /\ pc' = "ready"
     \/ MustRollBack(current) /\ pc' = "rollbackRemove"
     \/ ~confirmed[current] /\ ~MustRollBack(current) /\ pc' = "spendAttempt"
  /\ UNCHANGED <<disk, caller, target, crashes, granted>>

(* BootCheck, the write that makes the next boot of this slot a rollback;  *)
(* only after it does BootCheck answer BootTrial.                          *)
SpendAttempt ==
  /\ Step("spendAttempt", "selfCheck")
  /\ pending' = [pending EXCEPT ![current] = @ + 1]
  /\ granted' = [granted EXCEPT ![current] = @ + 1]
  /\ UNCHANGED <<current, files, confirmed, caller, target, crashes>>

(* Mutation: the trial boot is confirmed without re-hashing the image.     *)
SelfCheckSkipped ==
  /\ Step("selfCheck", "confirmWrite")
  /\ UNCHANGED <<disk, caller, target, crashes, granted>>

SelfCheck ==
  /\ Step("selfCheck",
          IF HashMatches(current) THEN "confirmWrite" ELSE "rollbackRemove")
  /\ UNCHANGED <<disk, caller, target, crashes, granted>>

(* Confirm: first the seal, then the removal of .pending.                  *)
ConfirmWrite ==
  /\ Step("confirmWrite", "confirmRemove")
  /\ confirmed' = [confirmed EXCEPT ![current] = TRUE]
  /\ UNCHANGED <<current, files, pending, caller, target, crashes, granted>>

ConfirmRemove ==
  /\ Step("confirmRemove", "ready")
  /\ pending' = [pending EXCEPT ![current] = NoMarker]
  /\ UNCHANGED <<current, files, confirmed, caller, target, crashes, granted>>

(* rollback: drop .pending of the bad slot, then point back at the other.  *)
RollbackRemove ==
  /\ Step("rollbackRemove", "rollbackSwitch")
  /\ pending' = [pending EXCEPT ![current] = NoMarker]
  /\ UNCHANGED <<current, files, confirmed, caller, target, crashes, granted>>

(* Mutation: rollback drops the marker and forgets the flip.               *)
RollbackSwitchForgotten ==
  /\ Step("rollbackSwitch", "ready")
  /\ UNCHANGED <<disk, caller, target, crashes, granted>>

RollbackSwitch ==
  /\ Step("rollbackSwitch", "ready")
  /\ switchTo(other(current))
  /\ UNCHANGED <<caller, target, crashes, granted>>

-----------------------------------------------------------------------------
(* runUpgrade, from Flashing on.                                           *)

(* A verified download is about to be staged.  The version may be the one  *)
(* already active: evaluate compares them before it takes the lock.        *)
BeginFlashing(t) ==
  /\ Step("ready", "stageUnconfirm")
  /\ caller' = "runUpgrade"
  /\ target' = t
  /\ UNCHANGED <<disk, crashes, granted>>

(* Mutation: Stage leaves the old .confirmed marker of the slot in place.  *)
StageUnconfirmForgotten ==
  /\ Step("stageUnconfirm", "stageUnpend")
  /\ UNCHANGED <<disk, caller, target, crashes, granted>>

StageUnconfirm ==
  /\ Step("stageUnconfirm", "stageUnpend")
  /\ confirmed' = [confirmed EXCEPT ![StagedSlot] = FALSE]
  /\ UNCHANGED <<current, files, pending, caller, target, crashes, granted>>

StageUnpend ==
  /\ Step("stageUnpend", "stageCreate")
  /\ pending' = [pending EXCEPT ![StagedSlot] = NoMarker]
  /\ UNCHANGED <<current, files, confirmed, caller, target, crashes, granted>>

StageCreate ==
  /\ Step("stageCreate", "stageCopy")
  /\ firmware' = [firmware EXCEPT ![StagedSlot] = Garbage]
  /\ UNCHANGED <<current, version, checksum, markers, caller, target,
                 crashes, granted>>

(* The copy lands intact, or corrupted by worn flash or a power dip.       *)
StageCopy ==
  /\ Step("stageCopy", "stageOpenVersion")
  /\ \/ firmware' = [firmware EXCEPT ![StagedSlot] = target.checksum]
     \/ Corruption /\ UNCHANGED firmware
  /\ UNCHANGED <<current, version, checksum, markers, caller, target,
                 crashes, granted>>

StageOpenVersion ==
  /\ Step("stageOpenVersion", "stageVersion")
  /\ version' = [version EXCEPT ![StagedSlot] = Garbage]
  /\ UNCHANGED <<current, firmware, checksum, markers, caller, target,
                 crashes, granted>>

StageVersion ==
  /\ Step("stageVersion", "stageOpenChecksum")
  /\ version' = [version EXCEPT ![StagedSlot] = target.version]
  /\ UNCHANGED <<current, firmware, checksum, markers, caller, target,
                 crashes, granted>>

StageOpenChecksum ==
  /\ Step("stageOpenChecksum", "stageChecksum")
  /\ checksum' = [checksum EXCEPT ![StagedSlot] = Garbage]
  /\ UNCHANGED <<current, firmware, version, markers, caller, target,
                 crashes, granted>>

StageChecksum ==
  /\ Step("stageChecksum", "verifyStaged")
  /\ checksum' = [checksum EXCEPT ![StagedSlot] = target.checksum]
  /\ UNCHANGED <<current, firmware, version, markers, caller, target,
                 crashes, granted>>

(* A staged image that does not hash to its checksum ends the transaction. *)
VerifyStaged ==
  /\ Step("verifyStaged",
          IF HashMatches(StagedSlot) THEN "promotePending" ELSE "ready")
  /\ UNCHANGED <<disk, caller, target, crashes, granted>>

(* PromoteStaged: the try-once marker first, then the flip.                *)
PromotePending ==
  /\ Step("promotePending", "promoteSwitch")
  /\ pending' = [pending EXCEPT ![StagedSlot] = 0]
  /\ granted' = [granted EXCEPT ![StagedSlot] = 0]
  /\ UNCHANGED <<current, files, confirmed, caller, target, crashes>>

(* The flip is followed by the simulated reboot: BootCheck, SelfCheck and  *)
(* Confirm or Rollback, the same calls as in bootSequence.                 *)
PromoteSwitch ==
  /\ Step("promoteSwitch", "bootCheck")
  /\ switchTo(StagedSlot)
  /\ UNCHANGED <<caller, target, crashes, granted>>

-----------------------------------------------------------------------------
(* What the environment does to the process and to the flash.              *)

(* Bits of the booted but unconfirmed slot rot before the self-check.      *)
TrialDecays ==
  /\ Corruption
  /\ current # Absent
  /\ ~confirmed[current]
  /\ pc \in {"off", "bootCheck", "spendAttempt", "selfCheck"}
  /\ firmware' = [firmware EXCEPT ![current] = Garbage]
  /\ UNCHANGED <<current, version, checksum, markers, pc, caller, target,
                 crashes, granted>>

Crash ==
  /\ pc # "off"
  /\ crashes < MaxCrashes
  /\ pc' = "off"
  /\ target' = NoTarget
  /\ crashes' = crashes + 1
  /\ UNCHANGED <<disk, caller, granted>>

(* A write, create, symlink or rename fails.  In runUpgrade the error ends *)
(* the transaction and the agent runs on, whatever slot is current; in     *)
(* NewSlotManager and bootSequence it ends the process.                    *)
WriteFails ==
  /\ WriteErrors
  /\ pc \in {"factoryVersion", "factoryConfirm", "factorySwitch",
             "spendAttempt", "confirmWrite", "confirmRemove",
             "rollbackSwitch", "stageCreate", "stageCopy", "stageOpenVersion",
             "stageVersion", "stageOpenChecksum", "stageChecksum",
             "promotePending", "promoteSwitch"}
  /\ pc' = IF caller = "runUpgrade" THEN "ready" ELSE "off"
  /\ UNCHANGED <<disk, caller, target, crashes, granted>>

(* The removals whose error the code ignores: the marker stays.            *)
RemoveFails ==
  /\ WriteErrors
  /\ \/ Step("stageUnconfirm", "stageUnpend")
     \/ Step("stageUnpend", "stageCreate")
     \/ Step("rollbackRemove", "rollbackSwitch")
  /\ UNCHANGED <<disk, caller, target, crashes, granted>>

-----------------------------------------------------------------------------
Boot ==
  \/ PowerOn \/ FactoryVersion \/ FactoryConfirm \/ FactorySwitch
  \/ BootCheck \/ SpendAttempt \/ SelfCheck
  \/ ConfirmWrite \/ ConfirmRemove \/ RollbackRemove \/ RollbackSwitch

Flash ==
  \/ StageUnconfirm \/ StageUnpend \/ StageCreate \/ StageCopy
  \/ StageOpenVersion \/ StageVersion \/ StageOpenChecksum \/ StageChecksum
  \/ VerifyStaged \/ PromotePending \/ PromoteSwitch

Environment == TrialDecays \/ Crash \/ WriteFails \/ RemoveFails

Next ==
  \/ Boot
  \/ \E t \in Targets : BeginFlashing(t)
  \/ Flash
  \/ Environment

Spec == Init /\ [][Next]_vars

(* The process keeps executing its calls, and a dead one is started again. *)
Fairness == WF_vars(Boot \/ Flash)
FairSpec == Spec /\ Fairness

-----------------------------------------------------------------------------
(* Properties.                                                             *)

(* A slot holding a whole firmware: what it shipped with, or an image that *)
(* hashes to the checksum stored beside it under a version name.           *)
Complete(slot) ==
  \/ version[slot] = Factory /\ firmware[slot] = Absent
  \/ version[slot] \in Versions /\ HashMatches(slot)

(* A slot BootCheck boots without asking, and rightly so.                  *)
Trusted(slot) == confirmed[slot] /\ Complete(slot)

(* Un-brickable (slot.go:104, "that invariant ... is what makes the update *)
(* un-brickable"): at every instant, mid-stage, mid-flip and mid-rollback  *)
(* included, either the slot a boot would start is confirmed and whole, or *)
(* it is unconfirmed and the slot a rollback would return to is.           *)
Unbrickable ==
  current # Absent =>
    \/ Trusted(current)
    \/ ~confirmed[current] /\ Trusted(other(current))

(* slot.go:25, "a crash at any point leaves `current` pointing at a        *)
(* complete slot, never at garbage": whenever the agent is up and running, *)
(* idle or staging, the slot it runs from is a whole firmware.             *)
RunsCompleteSlot ==
  pc \in StageCalls \cup {"ready"} => Complete(current)

(* Try-once (slot.go:182): a promoted slot gets one trial boot; when the   *)
(* process dies before Confirm the next boot does not grant another.       *)
TryOnce == \A s \in Slots : granted[s] <= 1

(* slot.go:104, "the running slot is never touched": no step of boot,      *)
(* staging, promotion or rollback rewrites a file of the confirmed slot    *)
(* that `current` points at, or takes its marker away.                     *)
RunningSlotUntouched ==
  [][current # Absent /\ confirmed[current]
      => /\ firmware'[current] = firmware[current]
         /\ version'[current] = version[current]
         /\ checksum'[current] = checksum[current]
         /\ confirmed'[current]]_vars

(* slot.go:232, "Confirm seals a successful trial boot": a slot gains its  *)
(* .confirmed marker only while its image hashes to the checksum beside it *)
(* (or at the factory), whatever rotted and whichever writes failed.       *)
SealsOnlyVerified ==
  [][\A s \in Slots : confirmed'[s] /\ ~confirmed[s]
                        => current = Absent \/ HashMatches(s)]_vars

(* The firmware store behind the slots: what a boot falls back on, and     *)
(* what is booted but not confirmed yet.                                   *)
Content(slot) == [version |-> version[slot], image |-> firmware[slot]]

Settled == current = Absent \/ confirmed[current]

Installed ==
  IF current = Absent THEN [version |-> Factory, image |-> Absent]
  ELSE IF confirmed[current] THEN Content(current)
  ELSE Content(other(current))

OnTrial ==
  IF Settled THEN [version |-> Absent, image |-> Absent] ELSE Content(current)

Store == INSTANCE FirmwareStore WITH installed <- Installed, trial <- OnTrial

(* slot.go:170, "Readers see the old slot or the new slot": the slots      *)
(* implement the atomic firmware store.  What a boot falls back on changes *)
(* in the one step that seals an intact trial and in no other, however the *)
(* process is killed in between.                                           *)
ImplementsStore == Store!Spec

(* A device that was switched on, and is not killed for ever, comes to run *)
(* from a confirmed slot again, however its trial boots were interrupted   *)
(* (agent.go:100, "what a real device does after power loss").             *)
Recovers == []<>(pc = "ready" /\ Trusted(current))

=============================================================================
