--------------------------- MODULE SlotManagerProofs ---------------------------
(***************************************************************************)
(* Proofs about SlotManager for every set of versions and images and any   *)
(* number of crashes.  BaseInv is inductive whatever fails and carries the *)
(* properties that survive write errors; SafeInv adds what is needed for   *)
(* un-brickability and for the refinement of FirmwareStore, and is         *)
(* inductive as long as the file system accepts writes.                    *)
(***************************************************************************)
EXTENDS SlotManager, TLAPS

FactoryCalls == {"factoryVersion", "factoryConfirm", "factorySwitch"}

(* `current` exists once the factory set-up is over, and an error during   *)
(* the set-up ends the process.                                            *)
CurrentInv ==
  /\ pc \in FactoryCalls => current = Absent
  /\ current = Absent =>
       pc = "off" \/ (pc \in FactoryCalls /\ caller = "bootSequence")

(* An unspent attempt was never granted, and only such a one is spent.     *)
AttemptInv ==
  /\ \A s \in Slots : /\ granted[s] \in {0, 1}
                      /\ pending[s] = 0 => granted[s] = 0
  /\ pc = "spendAttempt" => pending[current] = 0

(* Confirm is only called after SelfCheck accepted the slot.               *)
CheckedInv == pc = "confirmWrite" => HashMatches(current)

BaseInv == TypeOK /\ CurrentInv /\ AttemptInv /\ CheckedInv

-----------------------------------------------------------------------------
(* Slot A during the factory set-up.                                       *)
FactoryInv ==
  /\ current = Absent => firmware["A"] = Absent
  /\ pc \in {"factoryConfirm", "factorySwitch"} =>
       version["A"] = Factory
  /\ pc = "factorySwitch" => confirmed["A"]

(* A marker tells the truth, and a trial has a confirmed slot behind it.   *)
MarkerInv ==
  /\ \A s \in Slots : confirmed[s] => Complete(s)
  /\ current # Absent /\ ~confirmed[current] =>
       confirmed[other(current)] /\ version[current] \in Versions

(* The agent runs, and stages, from a confirmed slot only.                 *)
RunInv ==
  /\ pc \in StageCalls \cup {"ready", "confirmRemove"} => confirmed[current]
  /\ pc \in {"spendAttempt", "selfCheck", "confirmWrite", "rollbackRemove",
             "rollbackSwitch"} => ~confirmed[current]

(* The slot being staged is marked dirty, and what a finished stage left   *)
(* in it is what the flip needs.                                           *)
StageInv ==
  /\ pc \in StageCalls => target \in Targets
  /\ pc \in StageCalls \ {"stageUnconfirm"} => ~confirmed[other(current)]
  /\ pc \in {"stageOpenChecksum", "stageChecksum", "verifyStaged",
             "promotePending", "promoteSwitch"} =>
       version[other(current)] \in Versions
  /\ pc \in {"promotePending", "promoteSwitch"} =>
       HashMatches(other(current))

SafeInv == BaseInv /\ FactoryInv /\ MarkerInv /\ RunInv /\ StageInv

-----------------------------------------------------------------------------
LEMMA BaseInit == Init => BaseInv
BY ConstantsAssumption
   DEF Init, BaseInv, TypeOK, CurrentInv, AttemptInv, CheckedInv, Slots,
       NoMarker, FactoryCalls

LEMMA BaseStep == BaseInv /\ [Next]_vars => BaseInv'
<1> SUFFICES ASSUME BaseInv, [Next]_vars PROVE BaseInv'
  OBVIOUS
<1> USE ConstantsAssumption
    DEF BaseInv, TypeOK, CurrentInv, AttemptInv, CheckedInv, FactoryCalls,
        Slots, NoMarker, BootCalls, StageCalls, Step, HashMatches, other,
        StagedSlot, switchTo, disk, files, markers
<1>1. CASE PowerOn
  BY <1>1 DEF PowerOn
<1>2. CASE FactoryVersion
  BY <1>2 DEF FactoryVersion
<1>3. CASE FactoryConfirm
  BY <1>3 DEF FactoryConfirm
<1>4. CASE FactorySwitch
  BY <1>4 DEF FactorySwitch
<1>5. CASE BootCheck
  BY <1>5 DEF BootCheck, MustRollBack, AttemptSpent
<1>6. CASE SpendAttempt
  BY <1>6 DEF SpendAttempt
<1>7. CASE SelfCheck
  BY <1>7 DEF SelfCheck
<1>8. CASE ConfirmWrite
  BY <1>8 DEF ConfirmWrite
<1>9. CASE ConfirmRemove
  BY <1>9 DEF ConfirmRemove
<1>10. CASE RollbackRemove
  BY <1>10 DEF RollbackRemove
<1>11. CASE RollbackSwitch
  BY <1>11 DEF RollbackSwitch
<1>12. CASE \E t \in Targets : BeginFlashing(t)
  BY <1>12 DEF BeginFlashing
<1>13. CASE StageUnconfirm
  BY <1>13 DEF StageUnconfirm
<1>14. CASE StageUnpend
  BY <1>14 DEF StageUnpend
<1>15. CASE StageCreate
  BY <1>15 DEF StageCreate
<1>16. CASE StageCopy
  BY <1>16 DEF StageCopy, Targets, NoTarget
<1>17. CASE StageOpenVersion
  BY <1>17 DEF StageOpenVersion
<1>18. CASE StageVersion
  BY <1>18 DEF StageVersion, Targets, NoTarget
<1>19. CASE StageOpenChecksum
  BY <1>19 DEF StageOpenChecksum
<1>20. CASE StageChecksum
  BY <1>20 DEF StageChecksum, Targets, NoTarget
<1>21. CASE VerifyStaged
  BY <1>21 DEF VerifyStaged
<1>22. CASE PromotePending
  BY <1>22 DEF PromotePending
<1>23. CASE PromoteSwitch
  BY <1>23 DEF PromoteSwitch
<1>24. CASE TrialDecays
  BY <1>24 DEF TrialDecays
<1>25. CASE Crash
  BY <1>25 DEF Crash
<1>26. CASE WriteFails
  BY <1>26 DEF WriteFails
<1>27. CASE RemoveFails
  BY <1>27 DEF RemoveFails
<1>28. CASE UNCHANGED vars
  BY <1>28 DEF vars
<1> QED
  BY <1>1, <1>2, <1>3, <1>4, <1>5, <1>6, <1>7, <1>8, <1>9, <1>10, <1>11,
     <1>12, <1>13, <1>14, <1>15, <1>16, <1>17, <1>18, <1>19, <1>20, <1>21,
     <1>22, <1>23, <1>24, <1>25, <1>26, <1>27, <1>28
  DEF Next, Boot, Flash, Environment

LEMMA BaseInvariant == Spec => []BaseInv
BY BaseInit, BaseStep, PTL DEF Spec

(* Every variable of the slot manager keeps its type, the attempt counter  *)
(* of .pending its three values included: BootCheck never counts past 1.   *)
THEOREM TypeCorrect == Spec => []TypeOK
<1>1. BaseInv => TypeOK
  BY DEF BaseInv
<1> QED
  BY <1>1, BaseInvariant, PTL

(* BootCheck grants a promoted slot at most one trial boot, whatever       *)
(* crashes, rots or fails to be written.                                   *)
THEOREM TryOnceHolds == Spec => []TryOnce
<1>1. BaseInv => TryOnce
  BY DEF BaseInv, AttemptInv, TryOnce
<1> QED
  BY <1>1, BaseInvariant, PTL

(* Confirm only ever seals a slot whose image hashes to its checksum,      *)
(* whatever crashes, rots or fails to be written.                          *)
THEOREM SealsVerified == Spec => SealsOnlyVerified
<1> DEFINE Seals == \A s \in Slots : confirmed'[s] /\ ~confirmed[s]
                                     => current = Absent \/ HashMatches(s)
<1>1. BaseInv /\ [Next]_vars => Seals \/ UNCHANGED vars
  <2> SUFFICES ASSUME BaseInv, Next, NEW s \in Slots,
                      confirmed'[s], ~confirmed[s], current # Absent
               PROVE  HashMatches(s)
    BY DEF vars
  <2> USE DEF disk, files, markers, Step, switchTo
  <2>1. CASE ConfirmWrite
    BY <2>1 DEF ConfirmWrite, BaseInv, TypeOK, CheckedInv
  <2>2. CASE FactoryConfirm
    BY <2>2 DEF FactoryConfirm, BaseInv, CurrentInv, FactoryCalls
  <2>3. CASE StageUnconfirm
    BY <2>3 DEF StageUnconfirm, StagedSlot, BaseInv, TypeOK
  <2> QED
    BY <2>1, <2>2, <2>3
    DEF Next, Boot, Flash, Environment, PowerOn, FactoryVersion,
        FactorySwitch, BootCheck, SpendAttempt, SelfCheck, ConfirmRemove,
        RollbackRemove, RollbackSwitch, BeginFlashing, StageUnpend,
        StageCreate, StageCopy, StageOpenVersion, StageVersion,
        StageOpenChecksum, StageChecksum, VerifyStaged, PromotePending,
        PromoteSwitch, TrialDecays, Crash, WriteFails, RemoveFails
<1> QED
  BY <1>1, BaseInvariant, PTL DEF Spec, SealsOnlyVerified

(* Staging, promotion, boot and rollback leave files and marker of the     *)
(* confirmed slot under `current` alone, whatever crashes, rots or fails   *)
(* to be written.                                                          *)
THEOREM RunningSlotStaysUntouched == Spec => RunningSlotUntouched
<1> DEFINE Untouched ==
      current # Absent /\ confirmed[current]
        => /\ firmware'[current] = firmware[current]
           /\ version'[current] = version[current]
           /\ checksum'[current] = checksum[current]
           /\ confirmed'[current]
<1>1. BaseInv /\ [Next]_vars => Untouched \/ UNCHANGED vars
  <2> SUFFICES ASSUME BaseInv, Next, current # Absent, confirmed[current]
               PROVE  /\ firmware'[current] = firmware[current]
                      /\ version'[current] = version[current]
                      /\ checksum'[current] = checksum[current]
                      /\ confirmed'[current]
    BY DEF vars
  <2>1. current \in Slots /\ other(current) # current
    BY DEF BaseInv, TypeOK, Slots, other
  <2>2. pc \notin FactoryCalls
    BY DEF BaseInv, CurrentInv
  <2> USE DEF disk, files, markers, Step, switchTo
  <2>3. CASE Boot
    BY <2>1, <2>2, <2>3
    DEF Boot, BaseInv, TypeOK, FactoryCalls, PowerOn, FactoryVersion,
        FactoryConfirm, FactorySwitch, BootCheck, SpendAttempt, SelfCheck,
        ConfirmWrite, ConfirmRemove, RollbackRemove, RollbackSwitch
  <2>4. CASE Flash
    BY <2>1, <2>4
    DEF Flash, BaseInv, TypeOK, StagedSlot, StageUnconfirm, StageUnpend,
        StageCreate, StageCopy, StageOpenVersion, StageVersion,
        StageOpenChecksum, StageChecksum, VerifyStaged, PromotePending,
        PromoteSwitch
  <2>5. CASE Environment
    BY <2>5 DEF Environment, TrialDecays, Crash, WriteFails, RemoveFails
  <2>6. CASE \E t \in Targets : BeginFlashing(t)
    BY <2>6 DEF BeginFlashing
  <2> QED
    BY <2>3, <2>4, <2>5, <2>6 DEF Next
<1> QED
  BY <1>1, BaseInvariant, PTL DEF Spec, RunningSlotUntouched

-----------------------------------------------------------------------------
LEMMA SafeInit == Init => SafeInv
BY BaseInit, ConstantsAssumption
   DEF Init, SafeInv, FactoryInv, MarkerInv, RunInv, StageInv, StageCalls,
       Slots

LEMMA SafeStep ==
  ASSUME ~WriteErrors
  PROVE  SafeInv /\ [Next]_vars => SafeInv'
<1> SUFFICES ASSUME SafeInv, [Next]_vars
             PROVE  (FactoryInv /\ MarkerInv /\ RunInv /\ StageInv)'
  BY BaseStep DEF SafeInv
<1> USE ConstantsAssumption
    DEF SafeInv, BaseInv, TypeOK, CurrentInv, CheckedInv, FactoryCalls,
        FactoryInv, MarkerInv, RunInv, StageInv, Complete, HashMatches,
        Slots, BootCalls, StageCalls, Step, other, StagedSlot, switchTo,
        disk, files, markers
<1>1. CASE PowerOn
  BY <1>1 DEF PowerOn
<1>2. CASE FactoryVersion
  BY <1>2 DEF FactoryVersion
<1>3. CASE FactoryConfirm
  BY <1>3 DEF FactoryConfirm
<1>4. CASE FactorySwitch
  BY <1>4 DEF FactorySwitch
<1>5. CASE BootCheck
  BY <1>5 DEF BootCheck, MustRollBack, AttemptSpent
<1>6. CASE SpendAttempt
  BY <1>6 DEF SpendAttempt
<1>7. CASE SelfCheck
  BY <1>7 DEF SelfCheck
<1>8. CASE ConfirmWrite
  BY <1>8 DEF ConfirmWrite
<1>9. CASE ConfirmRemove
  BY <1>9 DEF ConfirmRemove
<1>10. CASE RollbackRemove
  BY <1>10 DEF RollbackRemove
<1>11. CASE RollbackSwitch
  BY <1>11 DEF RollbackSwitch
<1>12. CASE \E t \in Targets : BeginFlashing(t)
  BY <1>12 DEF BeginFlashing
<1>13. CASE StageUnconfirm
  BY <1>13 DEF StageUnconfirm
<1>14. CASE StageUnpend
  BY <1>14 DEF StageUnpend
<1>15. CASE StageCreate
  BY <1>15 DEF StageCreate
<1>16. CASE StageCopy
  BY <1>16 DEF StageCopy, Targets
<1>17. CASE StageOpenVersion
  BY <1>17 DEF StageOpenVersion
<1>18. CASE StageVersion
  BY <1>18 DEF StageVersion, Targets
<1>19. CASE StageOpenChecksum
  BY <1>19 DEF StageOpenChecksum
<1>20. CASE StageChecksum
  BY <1>20 DEF StageChecksum, Targets
<1>21. CASE VerifyStaged
  BY <1>21 DEF VerifyStaged
<1>22. CASE PromotePending
  BY <1>22 DEF PromotePending
<1>23. CASE PromoteSwitch
  BY <1>23 DEF PromoteSwitch
<1>24. CASE TrialDecays
  BY <1>24 DEF TrialDecays
<1>25. CASE Crash
  BY <1>25 DEF Crash
<1>26. CASE UNCHANGED vars
  BY <1>26 DEF vars
<1> QED
  BY <1>1, <1>2, <1>3, <1>4, <1>5, <1>6, <1>7, <1>8, <1>9, <1>10, <1>11,
     <1>12, <1>13, <1>14, <1>15, <1>16, <1>17, <1>18, <1>19, <1>20, <1>21,
     <1>22, <1>23, <1>24, <1>25, <1>26
  DEF Next, Boot, Flash, Environment, WriteFails, RemoveFails

LEMMA SafeInvariant ==
  ASSUME ~WriteErrors
  PROVE  Spec => []SafeInv
BY SafeInit, SafeStep, PTL DEF Spec

(* The device cannot be bricked: at every instant of boot, staging, flip   *)
(* and rollback, under any number of crashes and any corruption of what is *)
(* not confirmed yet, a confirmed and whole slot is booted or one boot     *)
(* away, provided the file system accepts writes.                          *)
THEOREM UnbrickableHolds ==
  ASSUME ~WriteErrors
  PROVE  Spec => []Unbrickable
<1>1. SafeInv => Unbrickable
  BY DEF SafeInv, BaseInv, TypeOK, MarkerInv, Unbrickable, Trusted, Slots,
         other
<1> QED
  BY <1>1, SafeInvariant, PTL

(* The agent is up only on a slot that holds a whole firmware.             *)
THEOREM RunsComplete ==
  ASSUME ~WriteErrors
  PROVE  Spec => []RunsCompleteSlot
<1>1. SafeInv => RunsCompleteSlot
  BY DEF SafeInv, BaseInv, TypeOK, CurrentInv, FactoryCalls, MarkerInv,
         RunInv, RunsCompleteSlot, StageCalls
<1> QED
  BY <1>1, SafeInvariant, PTL

-----------------------------------------------------------------------------
LEMMA StoreInit == Init => Store!Init
BY DEF Init, Store!Init, Store!FactoryFirmware, Store!NoFirmware, Installed,
       OnTrial, Settled

LEMMA StoreStep ==
  ASSUME ~WriteErrors
  PROVE  SafeInv /\ [Next]_vars => [Store!Next]_(Store!storeVars)
<1> SUFFICES ASSUME SafeInv, [Next]_vars
             PROVE  Store!Next \/ UNCHANGED <<Installed, OnTrial>>
  BY DEF Store!storeVars
<1> USE DEF disk, files, markers, Step, switchTo
<1>1. CASE FactoryVersion
  BY <1>1 DEF FactoryVersion, SafeInv, BaseInv, CurrentInv, FactoryCalls,
              Installed, OnTrial, Settled
<1>2. CASE FactoryConfirm
  BY <1>2 DEF FactoryConfirm, SafeInv, BaseInv, CurrentInv, FactoryCalls,
              Installed, OnTrial, Settled
(* The factory firmware of slot A is what the store started with.          *)
<1>3. CASE FactorySwitch
  BY <1>3, ConstantsAssumption
     DEF FactorySwitch, SafeInv, BaseInv, CurrentInv, FactoryCalls,
         FactoryInv, Installed, OnTrial, Settled, Content
(* The flip puts a verified image on trial.                                *)
<1>4. CASE PromoteSwitch
  <2> DEFINE fw == Content(other(current))
  <2>1. current \in Slots /\ confirmed[current] /\ ~confirmed[other(current)]
    BY <1>4 DEF PromoteSwitch, SafeInv, BaseInv, TypeOK, CurrentInv,
                FactoryCalls, RunInv, StageInv, StageCalls
  <2>2. fw \in [version : Versions, image : Images]
    BY <1>4 DEF PromoteSwitch, SafeInv, StageInv, HashMatches, Content
  <2>3. Store!Try(fw)
    BY <1>4, <2>1, ConstantsAssumption
       DEF PromoteSwitch, StagedSlot, Store!Try, Store!NoFirmware, Installed,
           OnTrial, Settled, Content, other, Slots
  <2> QED
    BY <2>2, <2>3 DEF Store!Next
(* The seal installs the trial.                                            *)
<1>5. CASE ConfirmWrite
  <2>1. current \in Slots /\ ~confirmed[current] /\ HashMatches(current)
    BY <1>5 DEF ConfirmWrite, SafeInv, BaseInv, TypeOK, CurrentInv,
                FactoryCalls, RunInv, CheckedInv
  <2>2. version[current] \in Versions
    BY <2>1, ConstantsAssumption DEF SafeInv, MarkerInv, Slots
  <2>3. Store!Commit
    BY <1>5, <2>1, <2>2, ConstantsAssumption
       DEF ConfirmWrite, SafeInv, BaseInv, TypeOK, HashMatches, Store!Commit,
           Store!NoFirmware, Installed, OnTrial, Settled, Content, Slots
  <2> QED
    BY <2>3 DEF Store!Next
(* Pointing back at the confirmed slot gives the trial up.                 *)
<1>6. CASE RollbackSwitch
  <2>1. current \in Slots /\ ~confirmed[current]
    BY <1>6 DEF RollbackSwitch, SafeInv, BaseInv, TypeOK, CurrentInv,
                FactoryCalls, RunInv
  <2>2. confirmed[other(current)] /\ version[current] \in Versions
    BY <2>1, ConstantsAssumption DEF SafeInv, MarkerInv, Slots
  <2>3. Store!Revert
    BY <1>6, <2>1, <2>2, ConstantsAssumption
       DEF RollbackSwitch, Store!Revert, Store!NoFirmware, Installed,
           OnTrial, Settled, Content, other, Slots
  <2> QED
    BY <2>3 DEF Store!Next
<1>7. CASE TrialDecays
  <2>1. current \in Slots /\ ~confirmed[current]
    BY <1>7 DEF TrialDecays, SafeInv, BaseInv, TypeOK
  <2>2. version[current] \in Versions
    BY <2>1, ConstantsAssumption DEF SafeInv, MarkerInv, Slots
  <2>3. Store!Spoil
    BY <1>7, <2>1, <2>2, ConstantsAssumption
       DEF TrialDecays, SafeInv, BaseInv, TypeOK, Store!Spoil,
           Store!NoFirmware, Installed, OnTrial, Settled, Content, other,
           Slots
  <2> QED
    BY <2>3 DEF Store!Next
(* Staging happens beside a confirmed current slot.                        *)
<1>8. CASE Flash /\ ~PromoteSwitch
  <2>1. current \in Slots /\ confirmed[current]
    BY <1>8 DEF Flash, StageUnconfirm, StageUnpend, StageCreate, StageCopy,
                StageOpenVersion, StageVersion, StageOpenChecksum,
                StageChecksum, VerifyStaged, PromotePending, PromoteSwitch,
                SafeInv, BaseInv, TypeOK, CurrentInv, FactoryCalls, RunInv,
                StageCalls
  <2>2. /\ current' = current
        /\ confirmed'[current] = confirmed[current]
        /\ firmware'[current] = firmware[current]
        /\ version'[current] = version[current]
    BY <1>8, <2>1
       DEF Flash, StageUnconfirm, StageUnpend, StageCreate, StageCopy,
           StageOpenVersion, StageVersion, StageOpenChecksum, StageChecksum,
           VerifyStaged, PromotePending, StagedSlot, other, SafeInv, BaseInv,
           TypeOK, Slots
  <2> QED
    BY <2>1, <2>2 DEF Installed, OnTrial, Settled, Content
<1>9. CASE UNCHANGED <<current, firmware, version, confirmed>>
  BY <1>9 DEF Installed, OnTrial, Settled, Content
<1> QED
  BY <1>1, <1>2, <1>3, <1>4, <1>5, <1>6, <1>7, <1>8, <1>9
  DEF Next, Boot, Environment, vars, PowerOn, BootCheck, SpendAttempt,
      SelfCheck, ConfirmRemove, RollbackRemove, BeginFlashing, Crash,
      WriteFails, RemoveFails

(* The slots implement the atomic firmware store: the firmware a boot      *)
(* falls back on is replaced in one step, by an intact trial, or not at    *)
(* all.                                                                    *)
THEOREM SlotsImplementStore ==
  ASSUME ~WriteErrors
  PROVE  Spec => ImplementsStore
BY StoreInit, StoreStep, SafeInvariant, PTL
   DEF Spec, ImplementsStore, Store!Spec
=============================================================================
