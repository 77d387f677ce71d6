------------------------------ MODULE EdgeDevice ------------------------------
(***************************************************************************)
(* The device controller (internal/controller/edgedevice_controller.go):   *)
(* finalizer, credential Secret and status projection of one device name.  *)
(*                                                                         *)
(* A reconcile pass reads the device and the Secret from informer caches   *)
(* that may lag behind, and makes its requests one after the other; one    *)
(* worker handles a name at a time.  In between the agent reports, people  *)
(* create, edit and delete the device, requests fail and the operator      *)
(* restarts.  A pass is started by a watch event of the device, by the     *)
(* retry of a failed pass or by the timer of RequeueAfter; events of the   *)
(* Secret start none.                                                      *)
(*                                                                         *)
(* Time is counted in ticks shorter than the second a heartbeat's stamp is *)
(* truncated to.  It passes only while no pass is running or queued, so a  *)
(* pass takes less than a tick.  Past MaxTime clocks stand still and a     *)
(* timer may fire at any time.                                             *)
(***************************************************************************)
EXTENDS Integers, Sequences, FiniteSets, FiniteSetsExt

CONSTANTS
  None,
  Versions,    \* firmware versions
  Timeout,     \* HeartbeatTimeout, in ticks
  Second,      \* time.Second, in ticks
  Skews,       \* the agent's clock and the way to the server, in ticks
  MaxTime,     \* bound: ticks
  MaxDevices,  \* bound: devices created under the name
  MaxEdits,    \* bound: edits of a Spec
  MaxBeats,    \* bound: heartbeats
  MaxReports,  \* bound: reports about the firmware
  MaxForced,   \* bound: interventions around the controller
  MaxFaults,   \* bound: failed requests and restarts
  MaxLag       \* bound: watch events a cache is behind

ASSUME EdgeDeviceAssumption ==
  /\ Timeout \in Nat \ {0} /\ Second \in Nat \ {0}
  /\ Skews \subseteq Int
  /\ {MaxTime, MaxDevices, MaxEdits, MaxBeats, MaxReports, MaxForced,
      MaxFaults, MaxLag} \subseteq Nat
  /\ None \notin Int

VARIABLES
  \* API server and caches.
  dev,           \* the EdgeDevice, or None
  events,        \* versions of it the cache has not seen, oldest first
  cache,         \* the version in the informer cache
  secret,        \* the credential Secret, or None
  secretEvents, secretCache,
  \* The controller.
  queued,        \* the name is in the workqueue
  timer,         \* when it will be added to it: at most one time
  pc,            \* where the pass is
  view,          \* the device it has read
  fresh,         \* the device was not written since that version of it
  \* The rest.
  now,
  facts,         \* auxiliary: what people and the agent last wrote
  counts

device == <<dev, events, fresh>>
credential == <<secret, secretEvents>>
caches == <<cache, secretCache>>
work == <<queued, timer, pc, view>>
vars == <<device, credential, caches, work, now, facts, counts>>

Phases == {"Provisioning", "Ready", "Upgrading", "Degraded"}
Reasons == {"AwaitingFirstHeartbeat", "HeartbeatTimeout", "HeartbeatFresh"}

(* A device: what people, the agent and the operator write of it.          *)
(* failed: FirmwareSynced is False and not because of UpgradeInProgress.   *)
(* healthy, healthyGen: reason and generation of the Healthy condition.    *)
Device ==
  [uid : 1..MaxDevices, finalizer : BOOLEAN, deleting : BOOLEAN,
   gen : Nat, desired : Versions,
   lastHeartbeat : Int \cup {None}, running : Versions \cup {None},
   failed : BOOLEAN,
   phase : Phases \cup {None}, healthy : Reasons \cup {None},
   healthyGen : Nat]

ASSUME NoneAssumption ==
  None \notin Device /\ None \notin Reasons /\ None \notin Phases

Secret == [uid : 1..MaxDevices, token : 1..MaxDevices]

Facts(d) == [uid |-> d.uid, desired |-> d.desired, running |-> d.running,
             failed |-> d.failed, lastHeartbeat |-> d.lastHeartbeat]

-----------------------------------------------------------------------------
(* external: API server and watch.                                         *)

Write(object) ==
  /\ Len(events) < MaxLag
  /\ dev' = object
  /\ events' = Append(events, object)
  /\ fresh' = FALSE

WriteSecret(object) ==
  /\ Len(secretEvents) < MaxLag
  /\ secret' = object
  /\ secretEvents' = Append(secretEvents, object)

Count(what) == counts' = [counts EXCEPT ![what] = @ + 1]

(* Every event of a device enqueues its name.                              *)
CacheCatchesUp ==
  /\ events # << >>
  /\ cache' = Head(events)
  /\ events' = Tail(events)
  /\ queued' = TRUE
  /\ UNCHANGED <<dev, fresh, credential, secretCache, timer, pc, view, now,
                 facts, counts>>

SecretCacheCatchesUp ==
  /\ secretEvents # << >>
  /\ secretCache' = Head(secretEvents)
  /\ secretEvents' = Tail(secretEvents)
  /\ UNCHANGED <<device, secret, cache, work, now, facts, counts>>

-----------------------------------------------------------------------------
(* The pass.                                                               *)

(* The pass is over; what it has read is forgotten.                        *)
Return == pc' = "idle" /\ view' = None /\ fresh' = FALSE
Done == Return /\ UNCHANGED <<queued, timer>>
Retry == Return /\ queued' = TRUE /\ UNCHANGED timer

(* Where the branches of Reconcile lead for the device that was read.      *)
FirstStep(d) ==
  IF d = None THEN "idle"
  ELSE IF d.deleting THEN IF d.finalizer THEN "revoke" ELSE "idle"
  ELSE IF ~d.finalizer THEN "finalize"
  ELSE "secret"

Start ==
  /\ pc = "idle" /\ queued
  /\ queued' = FALSE
  /\ view' = cache
  /\ fresh' = (events = << >>)
  /\ pc' = FirstStep(cache)
  /\ UNCHANGED <<dev, events, credential, caches, timer, now, facts, counts>>

(* Mutation: updates are sent without a resourceVersion.                   *)
AcceptsUnconditionally == dev # None

(* Updates of the device carry the resourceVersion of the version read.    *)
Accepts == fresh

Conflict ==
  /\ pc \in {"release", "finalize", "status"}
  /\ ~Accepts
  /\ Retry
  /\ UNCHANGED <<dev, events, credential, caches, now, facts, counts>>

(* Mutation: the device is released without its credential being revoked   *)
(* when the cache does not know of one.                                    *)
revokeCredentialIfCached ==
  /\ pc = "revoke"
  /\ IF secretCache = None THEN UNCHANGED credential ELSE WriteSecret(None)
  /\ pc' = "release"
  /\ UNCHANGED <<device, caches, queued, timer, view, now, facts, counts>>

(* Mutation: a Secret that is gone already is an error.                    *)
revokeCredentialStrictly ==
  /\ pc = "revoke"
  /\ \/ /\ secret # None
        /\ WriteSecret(None)
        /\ pc' = "release" /\ UNCHANGED <<queued, timer, view, fresh>>
     \/ secret = None /\ Retry /\ UNCHANGED credential
  /\ UNCHANGED <<dev, events, caches, now, facts, counts>>

revokeCredential ==
  /\ pc = "revoke"
  /\ IF secret = None THEN UNCHANGED credential ELSE WriteSecret(None)
  /\ pc' = "release"
  /\ UNCHANGED <<device, caches, queued, timer, view, now, facts, counts>>

(* The finalizer is removed, and the API server removes the device.        *)
Release ==
  /\ pc = "release" /\ Accepts
  /\ Write(None)
  /\ Done
  /\ UNCHANGED <<credential, caches, now, facts, counts>>

AddFinalizer ==
  /\ pc = "finalize" /\ Accepts
  /\ Write([dev EXCEPT !.finalizer = TRUE, !.desired = view.desired])
  /\ Done
  /\ UNCHANGED <<credential, caches, now, facts, counts>>

(* Mutation: any Secret will do.                                           *)
OursByName(s) == TRUE

(* The fingerprint of the Secret is the device's.                          *)
Ours(s) == s.uid = view.uid

(* ensureCredentialSecret: the Secret is read from the cache; the Update   *)
(* of a stale one is refused, a Create that finds one is taken as success. *)
ensureCredentialSecret ==
  LET new == [uid |-> view.uid, token |-> view.uid]
      Go == pc' = "status" /\ UNCHANGED <<queued, timer, view, fresh>>
  IN  /\ pc = "secret"
      /\ \/ /\ secretCache # None /\ Ours(secretCache)
            /\ Go /\ UNCHANGED credential
         \/ /\ secretCache # None /\ ~Ours(secretCache)
            /\ IF secretEvents = << >>
               THEN Go /\ WriteSecret(new)
               ELSE Retry /\ UNCHANGED credential
         \/ /\ secretCache = None
            /\ Go
            /\ IF secret = None THEN WriteSecret(new)
                                ELSE UNCHANGED credential
      /\ UNCHANGED <<dev, events, caches, now, facts, counts>>

TimedOut(d) == now - d.lastHeartbeat > Timeout

Health(d) ==
  IF d.lastHeartbeat = None THEN "AwaitingFirstHeartbeat"
  ELSE IF TimedOut(d) THEN "HeartbeatTimeout" ELSE "HeartbeatFresh"

PhaseOf(d) ==
  CASE Health(d) = "AwaitingFirstHeartbeat" -> "Provisioning"
    [] Health(d) = "HeartbeatTimeout" -> "Degraded"
    [] OTHER -> IF d.failed THEN "Degraded"
                ELSE IF d.running # d.desired THEN "Upgrading" ELSE "Ready"

(* Mutation: wake up at the deadline, not after it.                        *)
RequeueAtDeadline(d) ==
  IF Health(d) = "HeartbeatFresh" /\ Timeout - (now - d.lastHeartbeat) > 0
  THEN Timeout - (now - d.lastHeartbeat) ELSE Timeout

(* RequeueAfter.                                                           *)
Requeue(d) ==
  IF Health(d) = "HeartbeatFresh"
  THEN Timeout - (now - d.lastHeartbeat) + Second ELSE Timeout

(* projectStatus: the operator's part of the status.                       *)
projectStatus(d) ==
  [d EXCEPT !.phase = PhaseOf(d), !.healthy = Health(d), !.healthyGen = d.gen]

(* Mutation: the generation of the condition is not compared.              *)
statusEqualButGeneration(a, b) == a.phase = b.phase /\ a.healthy = b.healthy

statusEqual(a, b) ==
  a.phase = b.phase /\ a.healthy = b.healthy /\ a.healthyGen = b.healthyGen

(* The workqueue keeps the earlier of two times.                           *)
AddAfter(delay) == timer' = {Min(timer \cup {now + delay})}

Projected ==
  /\ Return
  /\ AddAfter(Requeue(view))
  /\ UNCHANGED <<queued, credential, caches, now, facts, counts>>

SkipStatus ==
  /\ pc = "status"
  /\ statusEqual(view, projectStatus(view))
  /\ Projected
  /\ UNCHANGED <<dev, events>>

(* Mutation: the phase is not copied into the object that is sent.         *)
UpdateStatusNoPhase ==
  /\ pc = "status" /\ Accepts
  /\ ~statusEqual(view, projectStatus(view))
  /\ Write([projectStatus(view) EXCEPT !.phase = view.phase])
  /\ Projected

(* Status().Update sends the whole status that was read, the agent's       *)
(* fields included, and leaves Spec and metadata alone.                    *)
UpdateStatus ==
  /\ pc = "status" /\ Accepts
  /\ ~statusEqual(view, projectStatus(view))
  /\ Write([projectStatus(view) EXCEPT
              !.uid = dev.uid, !.finalizer = dev.finalizer,
              !.deleting = dev.deleting, !.gen = dev.gen,
              !.desired = dev.desired])
  /\ Projected

(* A request fails; the workqueue runs the pass again.                     *)
RequestFails ==
  /\ pc # "idle" /\ counts.faults < MaxFaults
  /\ Retry
  /\ Count("faults")
  /\ UNCHANGED <<dev, events, credential, caches, now, facts>>

(* The operator restarts with a fresh list of both kinds of objects.       *)
Restart ==
  /\ counts.faults < MaxFaults
  /\ Return
  /\ queued' = TRUE /\ timer' = {}
  /\ cache' = dev /\ secretCache' = secret
  /\ events' = << >> /\ secretEvents' = << >>
  /\ Count("faults")
  /\ UNCHANGED <<dev, secret, now, facts>>

Due == timer # {} /\ (Min(timer) <= now \/ now = MaxTime)

Wake ==
  /\ Due
  /\ timer' = {} /\ queued' = TRUE
  /\ UNCHANGED <<device, credential, caches, pc, view, now, facts, counts>>

-----------------------------------------------------------------------------
(* The agent, people and time.                                             *)

Live == dev # None /\ ~dev.deleting

(* A write of people or the agent is a fact the operator must keep.        *)
WriteFact(object) ==
  /\ Write(object)
  /\ facts' = Facts(object)
  /\ UNCHANGED <<credential, caches, work, now>>

(* heartbeatLoop: the time, truncated to seconds.                          *)
Heartbeat(skew) ==
  /\ dev # None /\ counts.beats < MaxBeats
  /\ WriteFact([dev EXCEPT
                  !.lastHeartbeat = ((now + skew) \div Second) * Second])
  /\ Count("beats")

(* The reports of runUpgrade and syncSteadyStatus: progress, a failure, or *)
(* the version that is running now.                                        *)
ReportFirmware(version, fails) ==
  /\ dev # None /\ counts.reports < MaxReports
  /\ version # dev.running => version # None /\ ~fails
  /\ WriteFact([dev EXCEPT !.running = version, !.failed = fails])
  /\ Count("reports")

Create(version) ==
  /\ dev = None /\ counts.devices < MaxDevices
  /\ WriteFact(
       [uid |-> counts.devices + 1, finalizer |-> FALSE, deleting |-> FALSE,
        gen |-> 1, desired |-> version,
        lastHeartbeat |-> None, running |-> None, failed |-> FALSE,
        phase |-> None, healthy |-> None, healthyGen |-> 0])
  /\ Count("devices")

EditSpec(version) ==
  /\ Live /\ dev.desired # version /\ counts.edits < MaxEdits
  /\ WriteFact([dev EXCEPT !.desired = version, !.gen = @ + 1])
  /\ Count("edits")

(* The API server waits for the finalizer if there is one.                 *)
Delete ==
  /\ Live
  /\ Write(IF dev.finalizer THEN [dev EXCEPT !.deleting = TRUE] ELSE None)
  /\ UNCHANGED <<credential, caches, work, now, facts, counts>>

(* Somebody strips the finalizer of a device that is being deleted.        *)
ForceDelete ==
  /\ dev # None /\ dev.deleting /\ counts.forced < MaxForced
  /\ Write(None)
  /\ Count("forced")
  /\ UNCHANGED <<credential, caches, work, now, facts>>

(* Somebody deletes the Secret.                                            *)
DeleteSecret ==
  /\ secret # None /\ counts.forced < MaxForced
  /\ WriteSecret(None)
  /\ Count("forced")
  /\ UNCHANGED <<device, caches, work, now, facts>>

Settled == pc = "idle" /\ ~queued /\ events = << >>

Tick ==
  /\ Settled /\ ~Due
  /\ now < MaxTime
  /\ now' = now + 1
  /\ UNCHANGED <<device, credential, caches, work, facts, counts>>

-----------------------------------------------------------------------------
Init ==
  /\ dev = None /\ events = << >> /\ cache = None
  /\ secret = None /\ secretEvents = << >> /\ secretCache = None
  /\ queued = FALSE /\ timer = {}
  /\ pc = "idle" /\ view = None /\ fresh = FALSE
  /\ now = 0
  /\ facts = None
  /\ counts = [devices |-> 0, edits |-> 0, beats |-> 0, reports |-> 0,
               forced |-> 0, faults |-> 0]

Reconcile ==
  \/ Start \/ Conflict
  \/ revokeCredential \/ Release \/ AddFinalizer
  \/ ensureCredentialSecret \/ SkipStatus \/ UpdateStatus

People ==
  \/ \E v \in Versions : Create(v) \/ EditSpec(v)
  \/ Delete \/ ForceDelete \/ DeleteSecret

Next ==
  \/ Reconcile
  \/ CacheCatchesUp \/ SecretCacheCatchesUp
  \/ Wake
  \/ RequestFails \/ Restart
  \/ \E skew \in Skews : Heartbeat(skew)
  \/ \E v \in Versions \cup {None}, fails \in BOOLEAN :
       ReportFirmware(v, fails)
  \/ People
  \/ Tick

Spec == Init /\ [][Next]_vars

(* Workers, caches, timers and time go on; nothing is asked of people, of  *)
(* the agent or of faults.                                                 *)
FairSpec ==
  /\ Spec
  /\ WF_vars(Reconcile)
  /\ WF_vars(CacheCatchesUp) /\ WF_vars(SecretCacheCatchesUp)
  /\ WF_vars(Wake) /\ WF_vars(Tick)

-----------------------------------------------------------------------------
(* Properties.                                                             *)

(* The Healthy condition comes with a phase, and never before the          *)
(* finalizer.                                                              *)
TypeOK ==
  /\ dev \in Device \cup {None}
  /\ cache \in Device \cup {None}
  /\ events \in Seq(Device \cup {None})
  /\ secret \in Secret \cup {None}
  /\ secretCache \in Secret \cup {None}
  /\ secretEvents \in Seq(Secret \cup {None})
  /\ queued \in BOOLEAN /\ fresh \in BOOLEAN
  /\ timer \subseteq Int /\ Cardinality(timer) <= 1
  /\ pc \in {"idle", "revoke", "release", "finalize", "secret", "status"}
  /\ view \in Device \cup {None}
  /\ now \in 0..MaxTime
  /\ dev # None => /\ (dev.phase = None) = (dev.healthy = None)
                   /\ dev.phase # None => dev.finalizer

(* edgedevice_controller.go:112, "so there is no window where a credential *)
(* exists but deletion could skip cleanup", and :96, "credential           *)
(* revocation must be ordered before the device disappears": while nobody  *)
(* works around the controller, a Secret exists only for the device that   *)
(* exists now and is held by its finalizer.                                *)
CredentialHeld ==
  counts.forced = 0 /\ secret # None =>
    dev # None /\ dev.finalizer /\ secret.uid = dev.uid

(* edgedevice_controller.go:169, "Two writers never fight over one field,  *)
(* and optimistic concurrency handles the races": what people last asked   *)
(* for and the agent last reported is what the object says, although the   *)
(* operator sends whole objects read from a cache.                         *)
OthersFieldsKept == dev # None => Facts(dev) = facts

(* edgedevice_controller.go:221, "Degraded detection lags the deadline by  *)
(* ~1s": when the controller rests, phase and Healthy condition of a live  *)
(* device are what its object and the time imply, or its heartbeat expired *)
(* no longer than a second ago.                                            *)
PhaseIsCurrent ==
  Settled /\ Live =>
    \/ dev = projectStatus(dev)
    \/ dev.lastHeartbeat # None /\ now - dev.lastHeartbeat \in
         (Timeout + 1)..(Timeout + Second)

(* A heartbeat that arrives while the timeout is being acted on wins       *)
(* (:146, "our snapshot is stale"): the operator declares a timeout only   *)
(* of the heartbeat that is in the object at that moment.                  *)
NoFalseAlarm ==
  [][/\ dev' # None /\ dev'.healthy = "HeartbeatTimeout"
     /\ dev = None \/ dev.healthy # "HeartbeatTimeout"
     => TimedOut(dev)]_vars

(* edgedevice_controller.go:296, "cleanup must be idempotent because the   *)
(* deletion path also reruns on error": whatever fails and restarts, no    *)
(* device stays in deletion.                                               *)
DeletionEnds == <>[](dev # None => ~dev.deleting)

(* edgedevice_controller.go:45, "the stale secret is detected and rotated  *)
(* instead of reused": a live device ends up with a Secret that carries    *)
(* its fingerprint and a token made for it, whatever predecessor or        *)
(* deleted Secret the controller met through which caches.                 *)
CredentialRotates ==
  <>[](Live => secret = [uid |-> dev.uid, token |-> dev.uid])
=============================================================================
