# edge-fleet-operator in TLA+

TLA+ specifications of the edge-fleet operator and of the edge agent, kept beside
the code. The modules follow the source (`src/internal/agent`,
`src/internal/controller`, `src/api/v1alpha1`); `PROJECT.json` maps every
definition to the lines it models.

## 1. The system

A Kubernetes operator keeps an inventory of edge devices as `EdgeDevice` objects.
An agent on each device polls its object, installs the firmware the Spec asks for
in an A/B slot scheme, and reports into the Status. A second controller rolls a
version out to a group of devices in batches and stops when too many fail.

| Component | State | Operations | Talks to |
|---|---|---|---|
| A/B slot manager, `slot.go` | per slot `firmware.bin`, `version`, `checksum`, `.confirmed`, `.pending`; the `current` link | `NewSlotManager`, `Stage`, `VerifyStaged`, `PromoteStaged`, `BootCheck`, `SelfCheck`, `Confirm`, `Rollback` | called by the agent at boot and in an upgrade |
| Agent, `agent.go` | `upgrading`, `lastFailedKey`, `lastSeenGen` (memory only) | `bootSequence`, `evaluate`, `syncSteadyStatus`, `startUpgrade`, `runUpgrade`, `heartbeatLoop`, `reportStatus` | slots, download, FSM, API server |
| Upgrade FSM, `fsm.go` | one `State` | `To` | driven by `runUpgrade` |
| API client, `kube.go` | none | `Get`, `PutStatus`, `UpdateStatus` (five rounds of GET and PUT) | API server |
| Download, `download.go` | a staging file per checksum, left behind by failures and kills | `DownloadWithResume`, `VerifySHA256` | firmware server |
| EdgeDevice controller | none of its own; writes phase, `Healthy`, finalizer, credential Secret | `Reconcile`, `projectStatus`, `ensureCredentialSecret`, `revokeCredential` | API server, through a cache |
| FleetRollout controller | none of its own; writes device Specs and the rollout status | `Reconcile`, `deviceFailed` | API server, through a cache |
| API types | the two objects | validation markers | everybody |
| Binaries, firmware server, generated code | - | start-up | - |

What is hard here, and hard to test:

* The agent can be killed between any two system calls of a flash, a trial boot or
  a rollback, and again while it recovers. Individual calls can fail, and some
  errors are ignored.
* Poll loop, heartbeat loop and upgrade goroutine share memory under a mutex they
  take several times in one decision, and they share the Status with the operator
  under optimistic concurrency.
* A report is a read, a change and a conditional write; it can be refused five
  times, lost, or stamped with something that changed since.
* The rollout controller keeps no state: batches, capacity and breaker are
  recomputed from a cache that may not have seen its own last writes.
* A pass of a controller is a series of writes, any of which can be refused.
* The device controller reads device and Secret from two caches, each late in its own
  way, and must keep an order between finalizer and credential over several passes,
  devices of the same name and restarts. It learns of an expired heartbeat only
  through a timer it sets itself.
* A download is put together from the answers to several requests, over several
  transactions and processes.

The properties that make each part correct:

* Slots: there is always a whole, confirmed slot to boot or to fall back to; the
  running slot is not written to; one trial boot per promotion; only a verified
  image is sealed; an update takes effect in one step or not at all.
* Agent: one transaction at a time; nobody's status fields are overwritten; the
  device ends on the latest Spec or has it on record as failed; how a transaction
  ended is reported.
* Rollout: never more than `maxUnavailable` devices mid-upgrade; devices a person
  froze stay as they are; the breaker trips for enough failures, freezes everybody and
  un-trips for a reason only; a healthy rollout completes.
* EdgeDevice controller: no device without a finalizer has a credential, no
  credential outlives its device, a successor never keeps its predecessor's token;
  deletion ends; the phase follows reports and time, and what others wrote is kept.
* Download: no chunk is misplaced; from honest URLs what it returns is the image;
  leftovers cannot starve a target; every transaction ends.

## 2. Modules

| Module | What it is |
|---|---|
| `FirmwareStore` | abstract: one installed firmware and at most one on trial, with `Try`, `Spoil`, `Commit`, `Revert` |
| `SlotManager` | `slot.go` with its two callers, one step per system call; implements `FirmwareStore` |
| `Agent` | `agent.go`, `fsm.go`, `kube.go`; its flash is a `FirmwareStore` plus the slot name |
| `FleetRollout` | `fleetrollout_controller.go` over the devices as the controller sees them |
| `Download` | `download.go` and the life of the staging file in `runUpgrade` |
| `EdgeDevice` | `edgedevice_controller.go` for one device name |
| `SlotManagerProofs`, `AgentProofs`, `FleetRolloutProofs`, `DownloadProofs`, `EdgeDeviceProofs` | theorems about the modules they extend |
| `MCSlotManager`, `MCAgent`, `MCFleetRollout`, `MCDownload`, `MCEdgeDevice` | instances for TLC |

Definitions whose comment begins with "Mutation" are faulty variants used to see
that the properties notice; no specification uses them.

### SlotManager

The variables are the files. `pc` names the next system call of the process. `Boot`
is `NewSlotManager` followed by `bootSequence`; `Flash` is the `Stage` /
`VerifyStaged` / `PromoteStaged` part of `runUpgrade`, after which control runs into
the same `BootCheck` / `SelfCheck` / `Confirm` / `Rollback` steps as a boot, with
`caller` deciding what an error does. A file being rewritten holds `Garbage` between
truncation and the end of the write. `Crash` kills the process at any point.
`TrialDecays` is flash that goes bad before confirmation, the case that `SelfCheck`
exists for. Decay in the moment between `SelfCheck` and the seal, which no check of the code
could notice, is left out. `WriteFails` and `RemoveFails` let single calls fail, with what the code
then does: return, exit, or go on where it ignores the error.

An image stands for its own digest, so `VerifySHA256` is equality and nothing but
the image itself hashes to it. A digest collision is not in the model.

### Agent

`poll`, `job[g]` and `call[c]` are the program counters of the poll loop, of each
upgrade goroutine and of each `UpdateStatus` in progress. A step is what happens
between two points where another goroutine or the API server can act: a request, or
a stretch under the mutex. `evaluate` is therefore `Evaluate`, `CheckFailed` and
`StartUpgrade`. A resourceVersion is reduced to whether the object changed since the
copy was read. The operator's part of the status is a toggle, `phase`, that nobody
else should change. The URL is data of the Spec: `Serves` says which image a URL
yields, so a wrong URL can be corrected. `counts.dropped` remembers that an
`UpdateStatus` lost a call or gave up after `MaxAttempts` conflicts; the goroutine goes
on as `reportStatus` does, which only logs the error.

`DownloadWithResume` either succeeds or fails; module `Download` is its inside. Errors of the slot files in the
flashing state are failures before the flip; I/O errors after it are in
`SlotManager` only. A reply that is lost after the server applied the write is
`PutStatus`, because the code does with it what it does after success: go on.

### FleetRollout

`dev` is what the API server has, `events` the writes the cache has not seen,
`cache` what the controller lists. `List` is the whole arithmetic of a pass; `Freeze`
and `Push` are one `Update` each; `Conflict` and `Abort` end a pass early;
`WriteStatus` ends it. `Update` is accepted only for a device whose listed copy is
still the current one. `Announce`, `Succeed` and `Fail` are the reports of the
agents and `LoseReport` an announcement or a failure that never arrives (a success is
reported by `syncSteadyStatus` in the end). `GoDark` is a device whose heartbeat
expires, `ComeBack` one whose heartbeats return or whose agent is restarted and tries
the failed target again; `SetPaused` is a person, whose pauses and resumes are counted
apart. `resumed`, `blamed` and `recovered` are history variables for the properties:
somebody resumed a device, these devices failed the target or went dark, a device that
counted as failed no longer does. The phase `Degraded` is folded into `deviceFailed`:
the EdgeDevice controller derives it from the same two facts, `dark` and the condition.

Two simplifications: a failing device never has the target as its current version, which
by finding 2 of section 4 it can have and then counts as a success; and "unavailable" is
what the controller computes, so a targeted device that is dark counts as failed, where
`fleetrollout_types.go:65` names it among the unavailable.

### Download

A staging file is a sequence of chunks, each tagged with the image and the place it
was copied from. `PartialContent`, `FullContent` and `RangeNotSatisfiable` are the
206, 200 and 416 answers; the server may always ignore the range. `CopyChunk` is
`io.Copy`, which `Interrupted`, `Stall` or `Crash` can end after any chunk. `Replace`
puts another image behind a URL. `Flash` stands for the rest of the transaction,
which removes the file if it succeeds. `honest` and `calm` are history variables:
every URL asked for served what was asked for, and nothing went wrong since the call
began. The file is named after the whole checksum, where `agent.go:229` takes its first
twelve hex digits: two images that agree in those are as little in the model as a digest
collision. How long a backoff lasts has no effect here. `os.Remove` after a 416 and after
a mismatch is taken to succeed; the code ignores its error.

### EdgeDevice

`dev` and `secret` are what the API server has; `events`, `secretEvents` the versions
the caches have not seen; `cache`, `secretCache` what the controller reads. A pass is
`Start` and then one step per request, `pc` naming the next: `revokeCredential` and
`Release`, or `AddFinalizer`, or `ensureCredentialSecret` and then `SkipStatus` or
`UpdateStatus`. A resourceVersion is again reduced to `fresh`. The workqueue is
`queued` and `timer`: events of the device queue it, as `SetupWithManager` asks for,
events of the Secret do not, and `RequeueAfter` keeps the earlier of two times.
`Return` ends a pass; `Retry` is an error, which the workqueue repeats. A token is
named after the device it was generated for.

Time is in ticks, two to the second in the runs, and passes only when the controller
has nothing to do: a pass, the delivery of an event and the first rounds of backoff
are taken to be shorter than a tick. `Heartbeat` writes the agent's clock, `Skews` off
the operator's, truncated to the second as RFC 3339 in `agent.go` does.

`ForceDelete` and `DeleteSecret` are people working around the controller.
`CredentialHeld` promises nothing after that; `CredentialRotates` and `DeletionEnds`
still do. An operator that restarts lists the newest state of both kinds. A list
served from an old API-server cache, two operators at a time, and requests of a dead
operator that arrive late are left out.

## 3. Runs

| Run | Expected | Shows |
|---|---|---|
| `slot_manager` | pass | `Unbrickable`, `RunsCompleteSlot`, `TryOnce`, `RunningSlotUntouched`; the slots implement `FirmwareStore`; after interruptions the device runs from a confirmed slot again (`Recovers`) |
| `slot_faulty` | pass | what is left when writes and removals fail: `TryOnce`, `SealsOnlyVerified` |
| `slot_write_errors` | violation | `RunsCompleteSlot` with one failed write and one crash |
| `agent_safety` | pass | `FsmNeverRefuses`, `NoLostUpdate`, `ObservedNeverRegresses` |
| `agent_liveness` | pass | `LatestWins`, `ReportsOutcome` |
| `agent_trial_report` | violation | `ReportsRunning` |
| `download` | pass | `Gapless`, `ResumeIsExact`, `LeftoverCostsOneAttempt`, `Ends` |
| `edge_lifecycle` | pass | `CredentialHeld`, `CredentialRotates`, `DeletionEnds`, `OthersFieldsKept`, `PhaseIsCurrent` after edits and reports |
| `edge_heartbeat` | pass | `PhaseIsCurrent` as time passes, `NoFalseAlarm` |
| `rollout_safety` | pass | `BlastRadius`, `TripsForCause`, `RespectsFreeze`, `UntripsForCause` |
| `rollout_liveness` | pass | `BreakerFreezesAll`, `Completes` |
| `rollout_untrips` | violation | `BreakerStays` once a dark device comes back |

### Bounds

* Slots: there are two slots in the code too. Two versions and two images make a
  slot able to hold the old firmware, the new one or a mix of both. Three crashes
  allow one in the flash, one in the trial boot and one in the recovery from it. The
  theorems of section 5 need none of these bounds. `slot_faulty` has one version and
  two crashes, because every call can fail as well.
* Agent: two Spec generations are an update overtaken by another. Two goroutine identities are one more than the guard allows, so a
  second transaction could start if it let it. `UpdateStatus` has two rounds instead of
  the code's five, so that giving up is reached: in `agent_safety` by a foreign write and
  a heartbeat, in `agent_liveness` by two foreign writes, which also has a lost call
  and a crash. The goroutines are interchangeable and no temporal property
  is checked under that symmetry except action properties.
* Download: images of two and of three chunks give partial, complete and, for the
  shorter image behind the same URL, overlong leftovers. Two URLs and three targets
  contain a target with a wrong URL and two targets that share an image. The five
  attempts are the code's. Transactions, kills and replacements are not bounded.
* EdgeDevice: `edge_lifecycle` has two devices after each other under the name, so the
  second can meet what the first left behind; two interventions (strip the finalizer,
  delete a Secret), one fault, one edit, one heartbeat; caches up to two events late.
  Its clock stands still and timers fire at any time. `edge_heartbeat` has one device,
  two heartbeats half a second late or a second early, one firmware report, one fault,
  a timeout of two seconds and twelve ticks: enough for a heartbeat to expire, be
  noticed, be followed by another and expire again.
* Rollout: three devices with `maxUnavailable` 2 leave one device outside the first
  batch. With a threshold of 67, two failures of three devices are just short of it
  (66.7%) and two of two trip. `rollout_safety` has one pause or resume, one aborted pass
  and one restarted agent that tries the failed target again, so that devices recover;
  outages are in the other two runs. The liveness run has two devices, with or without an
  old failure, `maxUnavailable` 1, threshold 50 and one each of outage, return, lost report
  and human intervention. The cache is up to two events late (one in the liveness
  run), so it can miss the controller's own last write. `rollout_untrips` has two
  devices, one outage and one return, and nobody who resumes anything.

### Fairness

* `SlotManager`: the process makes its next call, and a dead one is started again
  (a supervisor's job; `agent.go:100` counts on it). New upgrades are not assumed.
* `Agent`: every goroutine runs on, requests are answered or fail, a dead agent is
  restarted. The poll loop ticks for ever (`agent.go`, `Run`). Heartbeats, Spec
  changes and faults are never forced.
* `Download`: a running transaction goes on: a request is answered, refused, or runs
  into the deadline every attempt has. Nothing makes an answer the good one.
* `EdgeDevice`: the worker, the watches, the timer and the clock go on. Faults, people
  and the agent are never forced, and are bounded, so the temporal properties are
  about what remains when they stop.
* `FleetRollout`: `Reconcile` is run again and again, which the device watch and the
  30 s requeue provide; the watch delivers; the agent of a device that is not dark polls
  and ends what it started. Nothing is asked of the agent of a dark device, and whether an
  upgrade succeeds, fails or fails without its report arriving is left open, the last up
  to `MaxLosses` times.

Deadlock is checked in every run but the two of `EdgeDevice`: when the last device is
gone and the bounds are used up, there is nothing to do.

## 4. Where code and documents disagree

Each of these is a run whose counterexample shows the behaviour.

1. `slot_write_errors`. When `BootCheck` or `Confirm` fails on I/O after the flip,
   `runUpgrade` returns and leaves the device on an unconfirmed slot. The next
   `Stage` drops the marker of the only confirmed slot; killed in mid-stage, the
   device rolls back to the half-written slot. `slot.go:25` promises a complete slot
   after a crash at any point.
2. `agent_trial_report`. A poll during the trial boot reports the version on trial
   as current. If the trial is rolled back, the status keeps that version, which a
   rollout counts as success.
3. `rollout_untrips`. A pushed device goes dark, the breaker trips, everybody is frozen and
   the rollout is `Paused`. The device's heartbeats return. The next pass recomputes the
   breaker from the devices as they are now (`fleetrollout_controller.go:97`), finds
   none failed and writes `Progressing`, although nobody resumed anything. The devices stay
   frozen. `src/README.md:133` says the breaker "never un-trips itself",
   `fleetrollout_types.go:31` that "a controller that un-trips its own breaker has no breaker at
   all", `hack/demo-rollout.sh:64` that "the breaker never self-resets", and
   `fleetrollout_controller_test.go:181` that "further reconciles stay Paused", which it
   tests with devices that stay failed.

One more disagreement can be seen with `INVARIANT CapsUnavailable` on two devices with
`MaxUnavailable = 1`, `MaxHuman = 2`, `MaxLag = 2` and all other bounds 0. A person has paused the first
device, a pass has pushed the second, and the person resumes the first. The next pass
lists from a cache that has the resume and not yet the push, finds room in the batch and
pushes the first as well: two devices are in flight, although `fleetrollout_types.go:64`
says the number is capped. Without the resume the stale list does no harm: the devices
it does not know to be pushed are the first by name, and the update of the first of
them is refused. `BlastRadius` is what remains.

Three more follow from `Agent` and can be seen by adding the property to a run:

* Reports are stamped with the generation last polled (`agent.go:318`), not with the
  one the transaction was started for, so "synced" can be claimed for a Spec nobody
  has acted on (`status.synced = "True"` with `syncedGen = gen` and another version).
* A failed target is remembered by version and checksum (`agent.go:144`); a Spec in
  which only the URL was corrected is not tried until the agent restarts.
* A failure followed by a Spec that goes back to the running version leaves
  `FirmwareSynced=False` for ever: the drift check (`agent.go:159`) does not look at it.

The passing runs also have conditions that say something about the code:

* `BlastRadius` is `CapsUnavailable` until somebody resumes a device or one that counted as
  failed recovers. The place of a failed or dark device in the batch is given away; when
  it recovers there can be more devices in flight than `maxUnavailable`.
* `UntripsForCause` is stronger than it may look: a person who resumes devices does not end
  `Paused` either, only the recovery of a device does.
* `Completes` excludes a device whose agent has given up on the target. If it failed and the
  report was lost, the device stays `UpgradeInProgress`: the controller counts it as in
  flight, neither failed nor done, and has no timeout for it. With `maxUnavailable` such
  devices the rollout stands still in `Progressing` for ever; without the conjunct
  `tried[d] # Target` TLC shows it.
* `TripsForCause` holds only when no device carries the failure of an earlier target
  into the rollout; `deviceFailed` does not compare generations.
* `ObservedNeverRegresses` holds until the agent is killed. After a restart a heartbeat
  sent before the first poll writes 0.
* `ReportsOutcome` names the two ways to "eternal progress". `UpdateStatus` gives up
  after five conflicts (`kube.go:178`, `197`) or on the first other error, and
  `reportStatus` logs that (`agent.go:322`). If it was the report of a failure, the key on
  record as failed keeps the agent from trying again, so nobody corrects
  `UpgradeInProgress`. The same is left behind by a transaction whose report was dropped, or
  that was killed with the agent, when the Spec then asks for the version that runs
  and is reported already: the drift check does not look at the condition. A lost report of a
  success is made up for.
* `PhaseIsCurrent` holds with the second of lag that `edgedevice_controller.go:222`
  allows itself. Without the added second a timer that fires exactly at the deadline
  would find the heartbeat not yet expired and sleep for another full timeout.
* `CredentialRotates` needs the periodic requeue: a Create that meets a Secret the
  cache does not show counts as success, and no watch on Secrets brings the pass back.
* `ensureCredentialSecret` writes into the annotations of an existing Secret; for one
  without any it would panic. Only the controller creates the Secret in the model.
* A transaction that fails between the two critical sections of `evaluate` and
  `startUpgrade` is started once more for the target just recorded as failed.

## 5. Proofs

`SlotManagerProofs` holds for every set of versions and images, every number of
crashes, with and without corruption, from `ConstantsAssumption` (the distinguished
values are distinct). All of it is checked by TLAPS.

| Theorem | States | Assumes |
|---|---|---|
| `TypeCorrect` | `Spec => []TypeOK` | - |
| `TryOnceHolds` | `Spec => []TryOnce` | - |
| `SealsVerified` | `Spec => SealsOnlyVerified` | - |
| `RunningSlotStaysUntouched` | `Spec => RunningSlotUntouched` | - |
| `UnbrickableHolds` | `Spec => []Unbrickable` | `~WriteErrors` |
| `RunsComplete` | `Spec => []RunsCompleteSlot` | `~WriteErrors` |
| `SlotsImplementStore` | `Spec => ImplementsStore` | `~WriteErrors` |

The argument has two layers. `BaseInv` is inductive whatever fails: `current` exists
once the factory set-up is over, an attempt that is still unspent was never granted,
and `Confirm` is only reached with a matching hash. The first four theorems follow
from it.

`SafeInv` adds what only holds while the file system accepts writes: a `.confirmed`
marker tells the truth; an unconfirmed current slot has a confirmed one behind it;
the agent stages only from a confirmed slot; the slot being staged has lost its
marker before its first byte changes; and at the flip it holds a known version and a
matching image. None of these is inductive alone. `Unbrickable` says nothing of a
slot under construction, so the step that seals or flips needs the facts about what
staging left behind. `slot_write_errors` shows that the assumption `~WriteErrors`
cannot be dropped.

For the refinement, `Installed` is the content of the current slot if that is
confirmed and of the other one if not, and `OnTrial` the content of an unconfirmed
current slot. The flip is `Try`, the writing of `.confirmed` is `Commit`, the flip
back is `Revert`, decay is `Spoil`; all other steps, crashes included, stutter.

`DownloadProofs` holds for all images, lengths, URLs, targets and numbers of attempts,
from `DownloadAssumption` (no image is empty, at least one attempt is made).

| Theorem | States |
|---|---|
| `TypeCorrect` | `Spec => []TypeOK` |
| `FilesAreGapless` | `Spec => []Gapless` |
| `ResumesExactly` | `Spec => []ResumeIsExact` |
| `LeftoversAreCheap` | `Spec => []LeftoverCostsOneAttempt` |

`Gapless` needs `InStep`: the answer being copied goes on where the file ends, because
a range request starts there, a 200 truncates and every chunk moves both. `ResumeIsExact`
speaks of the end of one call only; `Honest` carries it over calls and kills: while the
URLs are honest every staging file, of the current target or not, is a prefix of the
image it is named after. `Calm` says that the one attempt which may fail without a
fault, the 416, leaves no file for the next to meet.

`EdgeDeviceProofs` holds for any number of devices of the name, edits, reports, faults,
any lag of both caches and any skew of the agent's clock, from `EdgeDeviceAssumption`
and `NoneAssumption` (the absent value is no object, reason or phase).

| Theorem | States |
|---|---|
| `CredentialIsHeld` | `Spec => []CredentialHeld` |
| `FieldsAreKept` | `Spec => []OthersFieldsKept` |
| `NoAlarmIsFalse` | `Spec => NoFalseAlarm` |
| `PhaseIsKept` | `Spec => []PhaseIsCurrent` |
| `TypeCorrect` | `Spec => []TypeOK` |

`Views` says what a pass can know: the cache and the events after it run through the
versions of the device, the last of which is the device, and a view that is still fresh
equals it. So a request that the API server accepts is computed from the current
object, which gives `FieldsAreKept` and `NoAlarmIsFalse`. `CredentialHeld` needs `Order`, since the
Secret is not covered by the resourceVersion of the device: a version with finalizer
and not in deletion that cache or events still hold is one of the device that exists
now, with its finalizer, so a pass that creates a Secret from a stale view creates it
for a device that is held; and between revocation and release there is no Secret,
because the pass that releases is the only one running.

`PhaseIsCurrent` needs `Watched`. A pass with nothing queued behind it works on the
newest version the cache has, and on the device itself if no event is pending; so when
the controller comes to rest its last pass has seen the device as it is. A device it
rests on (`Kept`) has the status it should have and, while its heartbeat is fresh, a
timer no later than a second after the deadline; or it expired within the last second
and that timer is still set. The clock does not pass a timer that is due, which is
where the second comes from. `TypeOK` adds `Marks`: only a pass that has seen the
finalizer reaches the status.

`AgentProofs` holds for any number of goroutines, versions, images, Specs, conflicts,
heartbeats, foreign writes, lost calls and crashes, from `AgentAssumption`.

| Theorem | States | Assumes |
|---|---|---|
| `TypeCorrect` | `Spec => []TypeOK` | - |
| `FsmIsFollowed` | `Spec => []FsmNeverRefuses` | - |
| `NoUpdateIsLost` | `Spec => NoLostUpdate` | - |
| `ObservedMovesForward` | `Spec => ObservedNeverRegresses` | - |

`FsmNeverRefuses` looks at one transaction; it needs `SingleFlight` (at most one
goroutine has a transaction, and then the flag is up) and `Machine` (the FSM's state is
a function of where that transaction is, and between transactions it rests in `Idle` or
`Failed`). `NoLostUpdate` rests on `Copies`: a PUT the API server would accept carries the
operator's part as it is now. For `ObservedNeverRegresses`, `Stamps` orders the
generations a value passes through, from the object over the poll and the memory to a
PUT, and `Forward` says that no PUT that would be accepted is older than the status.
The property, and with it `Forward`, ends with the first kill because the code forgets
`lastSeenGen`; section 4 has what happens then.

`FleetRolloutProofs` holds for every finite fleet, batch size, threshold and lag of the
cache, and any number of human pauses and resumes, outages, comebacks, lost reports and
aborted passes, from
`RolloutAssumption` and `ObjectsAssumption`. `SoundFleet` says that the rollout starts
with devices in step with their Specs and not failed.

| Theorem | States | Assumes |
|---|---|---|
| `TypeCorrect` | `Spec => []TypeOK` | - |
| `FreezeIsRespected` | `Spec => RespectsFreeze` | - |
| `TripsHaveCause` | `Spec => []TripsForCause` | `SoundFleet` |
| `BreakerHolds` | `Spec => UntripsForCause` | `SoundFleet` |
| `BlastRadiusHolds` | `Spec => []BlastRadius` | `SoundFleet` |

The argument has four layers, each using the ones before.

* `Base`: the types, `Replay` (a device without a pending event is the same in the cache,
  the last pending event of a device carries the device, and a listed copy that is still
  fresh is the device) and `Plan` (what a pass has left of its batch or freeze, and what it
  has done). `RespectsFreeze` follows: an accepted update was computed from the device
  as it is.
* `Blame`: in a sound fleet agents only ever install the target, so every device that looks
  failed, in the API server, in the cache or in an event, has been blamed. A breaker
  that trips has therefore `Enough` blamed devices for the number it saw targeted, and
  blame is never taken back.
* `Steady`, until a device recovers: a device goes from open to in flight to done or
  lost and never back (`Later`), along the versions from listed copy over cache and
  events to the device (`InOrder`); an open device that the cache shows frozen has not
  been pushed (`Unpushed`); and after the trip nobody is pushed, so that the rate, as any
  later pass computes it, does not fall (`Stuck`). This is where it is seen that resumes
  do not matter: only a recovery, which `recovered` records, lets the rate fall.
* `FirstByName`: the pushes that the cache does not show are the first it would push
  again. So a pass either knows of all pushes or is refused on its first update, before
  it pushes beyond the cap. This is the layer a resume breaks, as section 4 describes; it
  was the failed proof of the unconditional bound that led to that behaviour.

`SoundFleet` and the condition `~recovered` cannot be dropped: section 4 has the behaviours.
Each inductive invariant was model-checked on the instances of section 3 before it was
proved.

Only model-checked: all liveness (`Recovers`, `LatestWins`, `ReportsOutcome`, `Ends`,
`DeletionEnds`, `CredentialRotates`, `BreakerFreezesAll`, `Completes`), because TLAPS does
not do fairness here. Every other property of a passing run has a theorem.

## 6. Not modelled

* The page cache. Nothing is fsynced, so after a power cut a rename may be on disk
  and the data not; the model has what a killed process leaves behind.
* How the delay of the EdgeDevice controller's projection looks to a rollout: in
  `FleetRollout` the phase changes together with the facts it is derived from.
* Two rollouts that select the same device, edits of a rollout's Spec or of its
  selection while it runs, and deletion of devices during a rollout.
* A stale cached copy of the rollout object itself: its status is compared with what
  the cache has, so a status can stay unwritten until the next event or requeue.
* URL building, JSON, kubeconfig, flags, logging, TLS, leader election; generated
  code; the static file server.

## 7. Plan

1. `Fleet`: `FleetRollout` with the phase written by `EdgeDevice` instead of `dark`, and
   with a target that can be edited; the theorems of `FleetRolloutProofs` then need
   `InOrder` per target.
2. A bound on the overshoot: with `r` resumes at most `maxUnavailable + r` devices in
   flight, to be model-checked before anything is proved.
