-------------------------------- MODULE Agent --------------------------------
(***************************************************************************)
(* The edge agent (internal/agent/agent.go, fsm.go and the API client of   *)
(* kube.go) against one EdgeDevice object.  Three kinds of goroutine share *)
(* its memory: the poll loop, the heartbeat loop and the upgrade           *)
(* transactions started behind the single-flight guard.  Each of them      *)
(* writes status through UpdateStatus, a GET followed by a PUT that the    *)
(* API server refuses when the object changed in between.                  *)
(*                                                                         *)
(* The A/B slots are the FirmwareStore that SlotManager implements, plus   *)
(* the name of the booted slot, which the agent reports.  I/O errors of    *)
(* the slot files after the flip are left to SlotManager.                  *)
(*                                                                         *)
(* A resourceVersion is modelled by what it decides: every write of the    *)
(* object makes the copies others hold stale.                              *)
(***************************************************************************)
EXTENDS Integers, FiniteSets

CONSTANTS
  Versions,     \* firmware versions a Spec can ask for
  Images,       \* images; an image stands for its SHA256 digest
  Urls,         \* where firmware can be fetched
  Serves,       \* external: the image behind each URL
  Specs,        \* the firmware part of the Specs users write
  Factory,      \* the version the device ships with
  Absent,       \* nothing: no image, no reported version, no key
  Garbage,      \* bytes that hash to no image
  Goroutines,   \* identities for upgrade goroutines
  MaxAttempts,  \* GET-PUT rounds of UpdateStatus; 5 in the code
  Faults,       \* which of "download", "flash", "network" can fail
  MaxGen,       \* bound: generation of the last Spec written
  MaxForeign,   \* bound: status writes of the operator
  MaxBeats,     \* bound: heartbeats
  MaxLosses,    \* bound: API calls lost by the network
  MaxCrashes    \* bound: kills of the agent process

ASSUME AgentAssumption ==
  /\ Absent \notin Images \cup Versions \cup {Factory}
  /\ Garbage \notin Images
  /\ Factory \notin Versions
  /\ Serves \in [Urls -> Images]
  /\ Specs \subseteq [version : Versions, checksum : Images, url : Urls]
  /\ Goroutines \cap {"poll", "heartbeat"} = {}
  /\ Faults \subseteq {"download", "flash", "network"}
  /\ MaxAttempts \in Nat \ {0}
  /\ MaxGen \in Nat \ {0}
  /\ {MaxForeign, MaxBeats, MaxLosses, MaxCrashes} \subseteq Nat

VARIABLES
  \* The EdgeDevice object on the API server.
  spec,           \* version, checksum, url and paused
  gen,            \* metadata.generation
  status,         \* the agent's part: current, slot, synced, syncedGen, observed
  phase,          \* the operator's part of status, abstracted to a toggle
  \* The flash of the device.
  installed, trial, slot,
  \* The memory of the agent process.
  up,             \* the process runs
  poll,           \* the poll loop: pc and the Device of its last GET
  job,            \* per goroutine: pc and spec of its transaction
  fsm,            \* State of the FSM
  upgrading,      \* the single-flight flag
  lastFailedKey,  \* version and checksum of the last failed target
  lastSeenGen,    \* generation of the last Device evaluated
  call,           \* per goroutine: its UpdateStatus in progress
  counts          \* beats, foreign writes, losses and crashes so far, and
                  \* auxiliary: 1 once the report of a failure was dropped

object == <<spec, gen, status, phase>>
flash == <<installed, trial, slot>>
memory == <<fsm, upgrading, lastFailedKey, lastSeenGen>>
vars == <<object, flash, up, poll, job, memory, call, counts>>

Store == INSTANCE FirmwareStore

Clients == {"poll", "heartbeat"} \cup Goroutines
SpecType == [version : Versions, checksum : Images, url : Urls,
             paused : BOOLEAN]
Keys == [version : Versions, checksum : Images]
NoKey == [version |-> Absent, checksum |-> Absent]
Synced == {"Unset", "True", "UpgradeInProgress", "Failed"}

(* What a reporter changes: "keep" leaves FirmwareSynced alone.            *)
Writes == [synced : (Synced \ {"Unset"}) \cup {"keep"},
           current : Versions \cup {Factory, Absent},
           slot : {"A", "B", Absent}]

Other(s) == IF s = "A" THEN "B" ELSE "A"

-----------------------------------------------------------------------------
(* fsm.go *)

validTransitions ==
  [Idle        |-> {"Downloading"},
   Downloading |-> {"Verifying", "Failed"},
   Verifying   |-> {"Flashing", "Failed"},
   Flashing    |-> {"Confirming", "Failed"},
   Confirming  |-> {"Idle", "Failed"},
   Failed      |-> {"Downloading"}]

To(from, next) == next \in validTransitions[from]

-----------------------------------------------------------------------------
(* kube.go: UpdateStatus, one step per request.                            *)

NoCall == [pc |-> "none"]
Quiet(c) == call[c] = NoCall

(* reportStatus hands UpdateStatus the change to make.                     *)
Report(c, w) ==
  call' = [call EXCEPT ![c] = [pc |-> "get", write |-> w, tries |-> 0]]

NoChange == [synced |-> "keep", current |-> Absent, slot |-> Absent]
Progress == [NoChange EXCEPT !.synced = "UpgradeInProgress"]
Failure == [NoChange EXCEPT !.synced = "Failed"]
InSync(v, s) == [synced |-> "True", current |-> v, slot |-> s]

(* mutate, then SetCondition and ObservedGeneration with the same gen.     *)
Mutate(st, w, g) ==
  [current   |-> IF w.current = Absent THEN st.current ELSE w.current,
   slot      |-> IF w.slot = Absent THEN st.slot ELSE w.slot,
   synced    |-> IF w.synced = "keep" THEN st.synced ELSE w.synced,
   syncedGen |-> IF w.synced = "keep" THEN st.syncedGen ELSE g,
   observed  |-> g]

(* A write of the object makes every copy of it stale.                     *)
Stale(cs) ==
  [c \in Clients |-> IF cs[c].pc = "put" THEN [cs[c] EXCEPT !.fresh = FALSE]
                     ELSE cs[c]]

(* Get and mutate.  A poll that stores lastSeenGen between the two saw the *)
(* object later than this GET; both orders are one here, since a change of *)
(* the object in between makes the PUT conflict anyway.                    *)
UpdateGet(c) ==
  /\ call[c].pc = "get"
  /\ call' = [call EXCEPT ![c] =
       [pc |-> "put", write |-> @.write, tries |-> @.tries, fresh |-> TRUE,
        phase |-> phase, status |-> Mutate(status, @.write, lastSeenGen)]]
  /\ UNCHANGED <<object, flash, up, poll, job, memory, counts>>

(* Mutation: the PUT carries no resourceVersion, so it is never refused.   *)
AcceptsUnconditionally(c) == TRUE

(* PutStatus carries the resourceVersion of its GET; the API server takes  *)
(* the write only if the object is still that one.                         *)
Accepts(c) == call[c].fresh

(* PutStatus sends the whole status object back, the phase included.       *)
PutStatus(c) ==
  /\ call[c].pc = "put"
  /\ Accepts(c)
  /\ status' = call[c].status
  /\ phase' = call[c].phase
  /\ call' = [Stale(call) EXCEPT ![c] = NoCall]
  /\ UNCHANGED <<spec, gen, flash, up, poll, job, memory, counts>>

(* Mutation: the loop of UpdateStatus runs one round too many.             *)
TriesLeftOffByOne(c) == call[c].tries <= MaxAttempts

(* Mutation: a 409 ends UpdateStatus instead of starting a new round.      *)
TriesLeftNever(c) == FALSE

TriesLeft(c) == call[c].tries + 1 < MaxAttempts

(* reportStatus logs the error and goes on: the report is dropped.         *)
OrDropped(c, n) == IF call[c].write.synced = "Failed" THEN 1 ELSE n

(* A 409: the view is thrown away and read again, or the report given up   *)
(* after MaxAttempts rounds.                                               *)
PutConflict(c) ==
  /\ call[c].pc = "put"
  /\ ~Accepts(c)
  /\ call' = [call EXCEPT ![c] =
       IF TriesLeft(c)
       THEN [pc |-> "get", write |-> @.write, tries |-> @.tries + 1]
       ELSE NoCall]
  /\ counts' = IF call[c].tries + 1 < MaxAttempts THEN counts
               ELSE [counts EXCEPT !.dropped = OrDropped(c, @)]
  /\ UNCHANGED <<object, flash, up, poll, job, memory>>

(* Any other error ends UpdateStatus; the report is lost.                  *)
CallLost(c) ==
  /\ "network" \in Faults
  /\ counts.losses < MaxLosses
  /\ ~Quiet(c)
  /\ call' = [call EXCEPT ![c] = NoCall]
  /\ counts' = [counts EXCEPT !.losses = @ + 1, !.dropped = OrDropped(c, @)]
  /\ UNCHANGED <<object, flash, up, poll, job, memory>>

UpdateStatus(c) ==
  UpdateGet(c) \/ PutStatus(c) \/ PutConflict(c) \/ CallLost(c)

-----------------------------------------------------------------------------
(* The poll loop: Run, evaluate, syncSteadyStatus, startUpgrade.           *)

ActiveVersion ==
  IF trial = Store!NoFirmware THEN installed.version ELSE trial.version

(* What evaluate is given of the Device, and what it remembers.            *)
PollIdle == [pc |-> "idle"]

PollGet ==
  /\ up /\ poll.pc = "idle" /\ Quiet("poll")
  /\ poll' = [pc |-> "evaluate", spec |-> spec, gen |-> gen,
              current |-> status.current, slot |-> status.slot]
  /\ UNCHANGED <<object, flash, up, job, memory, call, counts>>

Key(s) == [version |-> s.version, checksum |-> s.checksum]

(* evaluate up to its first lock: compare desired with the active version, *)
(* respect the pause, or go on to the checks that need the mutex.          *)
Evaluate ==
  /\ poll.pc = "evaluate"
  /\ lastSeenGen' = poll.gen
  /\ \/ /\ poll.spec.version = ActiveVersion
        /\ poll' = [poll EXCEPT !.pc = "steady"]
     \/ /\ poll.spec.version # ActiveVersion
        /\ poll.spec.paused
        /\ poll' = PollIdle
     \/ /\ poll.spec.version # ActiveVersion
        /\ ~poll.spec.paused
        /\ poll' = [poll EXCEPT !.pc = "checkFailed"]
  /\ UNCHANGED <<object, flash, up, job, fsm, upgrading, lastFailedKey, call,
                 counts>>

(* The slot is read after the version: a flip can come in between.         *)
SyncSteadyStatus ==
  /\ poll.pc = "steady"
  /\ IF poll.current = poll.spec.version /\ poll.slot = slot
     THEN UNCHANGED call
     ELSE Report("poll", InSync(poll.spec.version, slot))
  /\ poll' = PollIdle
  /\ UNCHANGED <<object, flash, up, job, memory, counts>>

CheckFailed ==
  /\ poll.pc = "checkFailed"
  /\ poll' = IF lastFailedKey = Key(poll.spec) THEN PollIdle
             ELSE [poll EXCEPT !.pc = "startUpgrade"]
  /\ UNCHANGED <<object, flash, up, job, memory, call, counts>>

NoJob == [pc |-> "none"]
Idle(g) == job[g] = NoJob

Spawn(g) ==
  /\ Idle(g)
  /\ upgrading' = TRUE
  /\ job' = [job EXCEPT ![g] = [pc |-> "announce", spec |-> poll.spec]]

(* Mutation: startUpgrade does not look at the flag.                       *)
StartUpgradeUnguarded ==
  /\ poll.pc = "startUpgrade"
  /\ \E g \in Goroutines : Spawn(g)
  /\ poll' = PollIdle
  /\ UNCHANGED <<object, flash, up, fsm, lastFailedKey, lastSeenGen, call,
                 counts>>

StartUpgrade ==
  /\ poll.pc = "startUpgrade"
  /\ \/ upgrading /\ UNCHANGED <<upgrading, job>>
     \/ ~upgrading /\ \E g \in Goroutines : Spawn(g)
  /\ poll' = PollIdle
  /\ UNCHANGED <<object, flash, up, fsm, lastFailedKey, lastSeenGen, call,
                 counts>>

Poll ==
  PollGet \/ Evaluate \/ SyncSteadyStatus \/ CheckFailed \/ StartUpgrade

-----------------------------------------------------------------------------
(* runUpgrade.  Each step enters the next State of the FSM and does the    *)
(* work of that state; a transition the table refuses would end the        *)
(* transaction silently, and FsmNeverRefuses shows that none does.         *)

At(g, pc) == job[g].pc = pc /\ Quiet(g)
Goto(g, pc) == job' = [job EXCEPT ![g].pc = pc]

Announce(g) ==
  /\ At(g, "announce")
  /\ Report(g, Progress)
  /\ Goto(g, "download")
  /\ UNCHANGED <<object, flash, up, poll, memory, counts>>

(* fail: from the State just entered to Failed, remember the key, report.  *)
Fail(g, state) ==
  /\ To(fsm, state) /\ To(state, "Failed")
  /\ fsm' = "Failed"
  /\ lastFailedKey' = Key(job[g].spec)
  /\ Report(g, Failure)
  /\ Goto(g, "exit")
  /\ UNCHANGED <<object, up, poll, upgrading, lastSeenGen, counts>>

Enter(g, state, pc) ==
  /\ To(fsm, state)
  /\ fsm' = state
  /\ Goto(g, pc)
  /\ UNCHANGED <<object, up, poll, upgrading, lastFailedKey, lastSeenGen, call,
                 counts>>

(* DownloadWithResume, which gives up after its attempts.                  *)
Download(g) ==
  /\ At(g, "download")
  /\ \/ Enter(g, "Downloading", "verify")
     \/ "download" \in Faults /\ Fail(g, "Downloading")
  /\ UNCHANGED flash

Verify(g) ==
  /\ At(g, "verify")
  /\ IF Serves[job[g].spec.url] = job[g].spec.checksum
     THEN Enter(g, "Verifying", "flash")
     ELSE Fail(g, "Verifying")
  /\ UNCHANGED flash

(* Stage, VerifyStaged and PromoteStaged: the flip puts the image on trial.*)
Flash(g) ==
  /\ At(g, "flash")
  /\ \/ /\ Store!Try([version |-> job[g].spec.version,
                      image |-> job[g].spec.checksum])
        /\ slot' = Other(slot)
        /\ Enter(g, "Flashing", "confirm")
     \/ /\ "flash" \in Faults
        /\ Fail(g, "Flashing")
        /\ UNCHANGED flash

(* BootCheck, SelfCheck, then Confirm or Rollback.                         *)
Confirm(g) ==
  /\ At(g, "confirm")
  /\ IF trial.image \in Images
     THEN /\ Store!Commit
          /\ To(fsm, "Confirming") /\ To("Confirming", "Idle")
          /\ fsm' = "Idle"
          /\ Report(g, InSync(job[g].spec.version, slot))
          /\ Goto(g, "exit")
          /\ UNCHANGED <<object, slot, up, poll, upgrading, lastFailedKey,
                         lastSeenGen, counts>>
     ELSE /\ Store!Revert
          /\ slot' = Other(slot)
          /\ Fail(g, "Confirming")

(* Mutation: the flag is not cleared when the goroutine ends.              *)
FinishForgetsFlag(g) ==
  /\ At(g, "exit")
  /\ job' = [job EXCEPT ![g] = NoJob]
  /\ UNCHANGED <<object, flash, up, poll, memory, call, counts>>

(* The deferred unlock, after the last report of the transaction.          *)
Finish(g) ==
  /\ At(g, "exit")
  /\ job' = [job EXCEPT ![g] = NoJob]
  /\ upgrading' = FALSE
  /\ UNCHANGED <<object, flash, up, poll, fsm, lastFailedKey, lastSeenGen,
                 call, counts>>

RunUpgrade(g) ==
  \/ Announce(g) \/ Download(g) \/ Verify(g) \/ Flash(g) \/ Confirm(g)
  \/ Finish(g)

-----------------------------------------------------------------------------
(* heartbeatLoop *)
Heartbeat ==
  /\ up /\ Quiet("heartbeat")
  /\ counts.beats < MaxBeats
  /\ Report("heartbeat", NoChange)
  /\ counts' = [counts EXCEPT !.beats = @ + 1]
  /\ UNCHANGED <<object, flash, up, poll, job, memory>>

-----------------------------------------------------------------------------
(* Everyone else.                                                          *)

(* external: a user or the rollout controller writes the Spec.             *)
SetSpec(s, paused) ==
  /\ gen < MaxGen
  /\ spec' = [version |-> s.version, checksum |-> s.checksum, url |-> s.url,
              paused |-> paused]
  /\ spec' # spec
  /\ gen' = gen + 1
  /\ call' = Stale(call)
  /\ UNCHANGED <<status, phase, flash, up, poll, job, memory, counts>>

(* The operator projects a new phase into the status.                      *)
OperatorWrites ==
  /\ counts.foreign < MaxForeign
  /\ phase' = ~phase
  /\ counts' = [counts EXCEPT !.foreign = @ + 1]
  /\ call' = Stale(call)
  /\ UNCHANGED <<spec, gen, status, flash, up, poll, job, memory>>

(* The image on trial goes bad before the self-check reads it.             *)
TrialDecays ==
  /\ "flash" \in Faults
  /\ Store!Spoil
  /\ UNCHANGED <<object, slot, up, poll, job, memory, call, counts>>

Crash ==
  /\ up
  /\ counts.crashes < MaxCrashes
  /\ up' = FALSE
  /\ counts' = [counts EXCEPT !.crashes = @ + 1]
  /\ poll' = PollIdle
  /\ job' = [g \in Goroutines |-> NoJob]
  /\ call' = [c \in Clients |-> NoCall]
  /\ fsm' = "Idle"
  /\ upgrading' = FALSE
  /\ lastFailedKey' = NoKey
  /\ lastSeenGen' = 0
  /\ UNCHANGED <<object, flash>>

(* bootSequence: a trial is finished if its attempt is unspent and its     *)
(* image intact, and rolled back otherwise.                                *)
Boot ==
  /\ ~up
  /\ up' = TRUE
  /\ \/ trial = Store!NoFirmware /\ UNCHANGED flash
     \/ Store!Commit /\ UNCHANGED slot
     \/ Store!Revert /\ slot' = Other(slot)
  /\ UNCHANGED <<object, poll, job, memory, call, counts>>

-----------------------------------------------------------------------------
Init ==
  /\ \E s \in Specs, paused \in BOOLEAN :
       spec = [version |-> s.version, checksum |-> s.checksum, url |-> s.url,
               paused |-> paused]
  /\ gen = 1
  /\ status = [current |-> Absent, slot |-> Absent, synced |-> "Unset",
               syncedGen |-> 0, observed |-> 0]
  /\ phase = FALSE
  /\ Store!Init
  /\ slot = "A"
  /\ up = TRUE
  /\ poll = PollIdle
  /\ job = [g \in Goroutines |-> NoJob]
  /\ fsm = "Idle"
  /\ upgrading = FALSE
  /\ lastFailedKey = NoKey
  /\ lastSeenGen = 0
  /\ call = [c \in Clients |-> NoCall]
  /\ counts = [beats |-> 0, foreign |-> 0, losses |-> 0, crashes |-> 0,
               dropped |-> 0]

Next ==
  \/ Poll
  \/ Heartbeat
  \/ \E g \in Goroutines : RunUpgrade(g)
  \/ \E c \in Clients : UpdateStatus(c)
  \/ \E s \in Specs, paused \in BOOLEAN : SetSpec(s, paused)
  \/ OperatorWrites
  \/ TrialDecays
  \/ Crash
  \/ Boot

Spec == Init /\ [][Next]_vars

(* The Go scheduler runs every goroutine, requests are answered, and a     *)
(* dead agent is started again.                                            *)
Fairness ==
  /\ WF_vars(Poll)
  /\ \A g \in Goroutines : WF_vars(RunUpgrade(g))
  /\ \A c \in Clients : WF_vars(UpdateStatus(c))
  /\ WF_vars(Boot)

FairSpec == Spec /\ Fairness
-----------------------------------------------------------------------------
(* Properties.                                                             *)

JobCalls == {"announce", "download", "verify", "flash", "confirm", "exit"}
PollCalls == {"evaluate", "steady", "checkFailed", "startUpgrade"}

StatusType ==
  [current : Versions \cup {Factory, Absent}, slot : {"A", "B", Absent},
   synced : Synced, syncedGen : 0..MaxGen, observed : 0..MaxGen]

TypeOK ==
  /\ spec \in SpecType
  /\ gen \in 1..MaxGen
  /\ status \in StatusType
  /\ phase \in BOOLEAN
  /\ installed \in [version : Versions \cup {Factory},
                    image : Images \cup {Absent}]
  /\ trial \in [version : Versions \cup {Absent},
                image : Images \cup {Absent, Garbage}]
  /\ slot \in {"A", "B"}
  /\ up \in BOOLEAN
  /\ \/ poll = PollIdle
     \/ poll \in [pc : PollCalls, spec : SpecType, gen : 1..MaxGen,
                  current : Versions \cup {Factory, Absent},
                  slot : {"A", "B", Absent}]
  /\ \A g \in Goroutines :
       job[g] = NoJob \/ job[g] \in [pc : JobCalls, spec : SpecType]
  /\ fsm \in DOMAIN validTransitions
  /\ upgrading \in BOOLEAN
  /\ lastFailedKey \in Keys \cup {NoKey}
  /\ lastSeenGen \in 0..MaxGen
  /\ \A c \in Clients :
       \/ call[c] = NoCall
       \/ call[c] \in [pc : {"get"}, write : Writes,
                       tries : 0..(MaxAttempts - 1)]
       \/ call[c] \in [pc : {"put"}, write : Writes, phase : BOOLEAN,
                       tries : 0..(MaxAttempts - 1), fresh : BOOLEAN,
                       status : StatusType]
  /\ counts \in [beats : 0..MaxBeats, foreign : 0..MaxForeign,
                 losses : 0..MaxLosses, crashes : 0..MaxCrashes,
                 dropped : 0..1]

(* fsm.go:34, "the single-flight guard in Agent guarantees exactly one     *)
(* upgrade transaction drives it at a time": whatever polls, failures and  *)
(* restarts come in between, a transaction never asks the FSM for a        *)
(* transition the table refuses, which would end it without a report.      *)
NextState == [download |-> "Downloading", verify |-> "Verifying",
              flash |-> "Flashing", confirm |-> "Confirming"]
FsmNeverRefuses ==
  \A g \in Goroutines :
    job[g].pc \in DOMAIN NextState => To(fsm, NextState[job[g].pc])

(* kube.go:175, "Retrying the old payload would silently overwrite their   *)
(* write": the agent sends the operator's part of the status back with     *)
(* every PUT, and yet only the operator changes it.                        *)
NoLostUpdate == [][phase' # phase => OperatorWrites]_vars

(* edgedevice_types.go:121, "observedGeneration is the metadata.generation *)
(* the agent last acted on": three goroutines stamp it, each with the      *)
(* value it loaded before its PUT, and it never goes back until the agent  *)
(* is killed (a restart begins again at 0).                                *)
ObservedNeverRegresses ==
  [][counts.crashes = 0 => status'.observed >= status.observed]_vars

(* agent.go:171, "latest-wins": once the Spec is left alone and unpaused,  *)
(* the device ends up running what it asks for, or has that target on      *)
(* record as failed, however many older targets were in flight.            *)
LatestWins ==
  (<>[]~spec.paused) =>
    <>[](ActiveVersion = spec.version \/ lastFailedKey = Key(spec))

(* edgedevice_controller.go:210, "surfaces it instead of showing eternal   *)
(* progress": how an announced transaction ended gets into the status.     *)
(* Once the Spec is not paused, progress is shown for ever only            *)
(*  - of a target on record as failed, when the one report of a failure    *)
(*    was lost or refused MaxAttempts times (that of a success is made up  *)
(*    for by syncSteadyStatus); or                                         *)
(*  - of a transaction whose report was dropped so, or that was killed     *)
(*    with the agent, when the Spec asks again for what was running all    *)
(*    the time, so that no drift is seen.                                  *)
ShowsProgress == status.synced = "UpgradeInProgress"
Unreported ==
  \/ counts.dropped > 0 /\ lastFailedKey = Key(spec)
  \/ counts.dropped + counts.crashes > 0 /\ status.current = spec.version
ReportsOutcome ==
  (<>[]~spec.paused) /\ (<>[]ShowsProgress) => <>[]Unreported

(* edgedevice_types.go:108, "currentFirmwareVersion is what the device is  *)
(* actually running": a version that is reported and not running does not  *)
(* stay in the status.                                                     *)
ReportsRunning == []<>(status.current \in {Absent, ActiveVersion})
=============================================================================
