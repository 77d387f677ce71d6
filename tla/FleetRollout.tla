----------------------------- MODULE FleetRollout -----------------------------
(***************************************************************************)
(* The rollout controller (internal/controller/fleetrollout_controller.go) *)
(* driving a group of devices to one target version in batches, with its   *)
(* circuit breaker.                                                        *)
(*                                                                         *)
(* A reconcile pass lists the devices from the informer cache, counts, and *)
(* then writes one device after the other.  The cache replays the writes   *)
(* of all devices in the order they happened, but late; an Update of a     *)
(* device that changed since the copy in the list was made is refused      *)
(* (409) and ends the pass.  Between any two requests agents report,       *)
(* heartbeats expire and people pause and resume devices.                  *)
(*                                                                         *)
(* The agents are what the controller sees of them: Agent is their model.  *)
(***************************************************************************)
EXTENDS Integers, Sequences, FiniteSets, FiniteSetsExt

CONSTANTS
  Devices,        \* the selected devices; numbers stand for sorted names
  Target,         \* Spec.TargetVersion of the rollout
  InitialDevices, \* what the EdgeDevice objects can be when it is created
  MaxUnavailable,
  FailureThresholdPercent,
  MaxComebacks,   \* bound: devices coming back after a failure or outage
  MaxLag,         \* bound: watch events the cache is behind
  MaxHuman,       \* bound: pauses and resumptions by people
  MaxOutages,     \* bound: heartbeat timeouts
  MaxLosses,      \* bound: reports of agents that are lost
  MaxAborts       \* bound: passes cut short by an error or a restart

ASSUME RolloutAssumption ==
  /\ Devices \subseteq Nat /\ IsFiniteSet(Devices)
  /\ MaxUnavailable \in Nat \ {0}
  /\ FailureThresholdPercent \in 1..100
  /\ {MaxComebacks, MaxLag, MaxHuman, MaxOutages, MaxLosses, MaxAborts}
       \subseteq Nat

VARIABLES
  \* API server and cache.
  dev,      \* per device: desired, paused, current, synced, dark
  events,   \* writes the cache has not seen yet, oldest first
  cache,    \* per device: the object in the informer cache
  ro,       \* status of the FleetRollout
  \* The reconcile pass.
  pc,       \* "idle", "freeze" or "push"
  view,     \* the devices of this pass's List
  fresh,    \* per device: it was not written since the copy in view
  todo,     \* devices this pass still has to update
  tally,    \* targeted, succeeded, failed
  \* Agents and people.
  job,      \* per device: the version its agent is installing, or None
  tried,    \* per device: the version its agent knows to have failed, or None
  resumed,  \* auxiliary: a person resumed a device since the breaker tripped
  blamed,   \* auxiliary: devices that reported to have failed Target or went
            \* dark
  recovered,\* auxiliary: a device that counted as failed no longer does
  counts    \* pauses, resumptions, outages, comebacks, losses and aborts so far

pass == <<pc, view, todo, tally>>
agents == <<job, tried>>
history == <<resumed, blamed, recovered>>
vars == <<dev, events, cache, ro, pass, fresh, agents, history, counts>>

None == "none"

Versions == {o.desired : o \in InitialDevices} \cup
            {o.current : o \in InitialDevices} \cup {Target}
Objects == [desired : Versions, paused : BOOLEAN, current : Versions,
            synced : {"True", "UpgradeInProgress", "Failed"}, dark : BOOLEAN]

ASSUME ObjectsAssumption == InitialDevices \subseteq Objects

-----------------------------------------------------------------------------
(* Fleet arithmetic over a list of devices.                                *)

(* Mutation: a device the breaker already froze no longer counts.          *)
deviceFailedUnlessPaused(d) == ~d.paused /\ (d.dark \/ d.synced = "Failed")

(* deviceFailed: the operator's phase is Degraded, because the device is   *)
(* dark or because of the condition, or the condition says so itself.      *)
deviceFailed(d) == d.dark \/ d.synced = "Failed"

Reached(devs) == {d \in Devices : devs[d].current = Target}
Untargeted(devs) ==
  {d \in Devices \ Reached(devs) : devs[d].desired # Target}
Pending(devs) == Devices \ (Reached(devs) \cup Untargeted(devs))
Failed(devs) == {d \in Pending(devs) : deviceFailed(devs[d])}
InFlight(devs) == Pending(devs) \ Failed(devs)

Tally(devs) ==
  [targeted  |-> Cardinality(Reached(devs)) + Cardinality(Pending(devs)),
   succeeded |-> Cardinality(Reached(devs)),
   failed    |-> Cardinality(Failed(devs))]

(* Mutation: the rate is rounded to a whole percentage.                    *)
TripsRounded(t) ==
  /\ t.targeted > 0
  /\ (t.failed * 100 + t.targeted \div 2) \div t.targeted
       >= FailureThresholdPercent

Trips(t) ==
  t.targeted > 0 /\ t.failed * 100 >= FailureThresholdPercent * t.targeted

(* Mutation: devices that already succeeded still take up capacity.        *)
CapacityCountsSucceeded(devs) ==
  MaxUnavailable - Cardinality(Reached(devs) \cup InFlight(devs))

Capacity(devs) == MaxUnavailable - Cardinality(InFlight(devs))

(* Mutation: the slice is one device too long.                             *)
BatchOneTooMany(devs) ==
  LET open == {d \in Untargeted(devs) : ~devs[d].paused}
  IN  {d \in open : Cardinality({e \in open : e < d}) <= Capacity(devs)}

(* Mutation: devices that are targeted already are pushed again.           *)
BatchRepeatsPending(devs) ==
  LET open == {d \in Devices \ Reached(devs) : ~devs[d].paused}
  IN  {d \in open : Cardinality({e \in open : e < d}) < Capacity(devs)}

(* The next slice: the first untargeted devices by name that nobody froze, *)
(* as many as there is capacity for.                                       *)
Batch(devs) ==
  LET open == {d \in Untargeted(devs) : ~devs[d].paused}
  IN  {d \in open : Cardinality({e \in open : e < d}) < Capacity(devs)}

-----------------------------------------------------------------------------
(* external: API server and watch.  A write of a device is queued for the  *)
(* cache and makes the copy a pass may hold stale.                         *)
Write(d, object) ==
  /\ Len(events) < MaxLag
  /\ dev' = [dev EXCEPT ![d] = object]
  /\ events' = Append(events, [name |-> d, object |-> object])
  /\ fresh' = [fresh EXCEPT ![d] = FALSE]

CacheCatchesUp ==
  /\ events # << >>
  /\ cache' = [cache EXCEPT ![Head(events).name] = Head(events).object]
  /\ events' = Tail(events)
  /\ UNCHANGED <<dev, ro, pass, fresh, agents, history, counts>>

-----------------------------------------------------------------------------
(* Reconcile.                                                              *)

(* Get, List and the arithmetic, all from the cache; then the breaker      *)
(* freezes everyone, or the next batch is pushed.                          *)
List ==
  /\ pc = "idle"
  /\ view' = cache
  /\ fresh' = [d \in Devices |->
                 \A i \in 1..Len(events) : events[i].name # d]
  /\ tally' = Tally(cache)
  /\ IF Trips(Tally(cache))
     THEN /\ pc' = "freeze"
          /\ todo' = {d \in Devices : ~cache[d].paused}
     ELSE /\ pc' = "push"
          /\ todo' = Batch(cache)
  /\ UNCHANGED <<dev, events, cache, ro, agents, history, counts>>

(* Mutation: Update is sent without a resourceVersion.                     *)
AcceptsUnconditionally(d) == TRUE

(* r.Update carries the resourceVersion of the listed copy.                *)
Accepts(d) == fresh[d]

(* The pass ends with an error; the workqueue runs a new one later.        *)
EndPass == pc' = "idle" /\ todo' = {} /\ UNCHANGED <<view, tally>>

Conflict ==
  /\ pc # "idle" /\ todo # {}
  /\ ~Accepts(Min(todo))
  /\ EndPass
  /\ UNCHANGED <<dev, events, cache, ro, fresh, agents, history, counts>>

Freeze ==
  /\ pc = "freeze" /\ todo # {}
  /\ Accepts(Min(todo))
  /\ Write(Min(todo), [view[Min(todo)] EXCEPT !.paused = TRUE])
  /\ todo' = todo \ {Min(todo)}
  /\ UNCHANGED <<cache, ro, pc, view, tally, agents, history, counts>>

Push ==
  /\ pc = "push" /\ todo # {}
  /\ Accepts(Min(todo))
  /\ Write(Min(todo), [view[Min(todo)] EXCEPT !.desired = Target])
  /\ todo' = todo \ {Min(todo)}
  /\ tally' = [tally EXCEPT !.targeted = @ + 1]
  /\ UNCHANGED <<cache, ro, pc, view, agents, history, counts>>

Phase ==
  IF pc = "freeze" THEN "Paused"
  ELSE IF Devices # {} /\ tally.succeeded = Cardinality(Devices)
  THEN "Complete" ELSE "Progressing"

(* Mutation: the status is only written when the rollout progresses.       *)
WriteStatusUnlessTripped ==
  /\ pc # "idle" /\ todo = {}
  /\ ro' = IF pc = "freeze" THEN ro ELSE [phase |-> Phase, tally |-> tally]
  /\ resumed' = FALSE
  /\ EndPass
  /\ UNCHANGED <<dev, events, cache, fresh, agents, blamed, recovered, counts>>

(* The status is a function of the pass; an equal one is not written.      *)
WriteStatus ==
  /\ pc # "idle" /\ todo = {}
  /\ ro' = [phase |-> Phase, tally |-> tally]
  /\ resumed' = (resumed /\ Phase # "Paused")
  /\ EndPass
  /\ UNCHANGED <<dev, events, cache, fresh, agents, blamed, recovered, counts>>

(* A request fails, or the controller is restarted.                        *)
Abort ==
  /\ pc # "idle"
  /\ counts.aborts < MaxAborts
  /\ counts' = [counts EXCEPT !.aborts = @ + 1]
  /\ EndPass
  /\ UNCHANGED <<dev, events, cache, ro, fresh, agents, history>>

Reconcile == List \/ Conflict \/ Freeze \/ Push \/ WriteStatus

-----------------------------------------------------------------------------
(* Agents, heartbeats, people.                                             *)

(* A targeted device that burns breaker budget.                            *)
Lost(o) == o.desired = Target /\ o.current # Target /\ deviceFailed(o)

(* A write of the agent, or of the operator about its heartbeat.           *)
Report(d, object) ==
  /\ Write(d, object)
  /\ recovered' = (recovered \/ (Lost(dev[d]) /\ ~Lost(object)))

(* evaluate starts a transaction.                                          *)
StartsUpgrade(d) ==
  /\ job[d] = None
  /\ dev[d].desired # dev[d].current
  /\ ~dev[d].paused
  /\ tried[d] # dev[d].desired
  /\ job' = [job EXCEPT ![d] = dev[d].desired]
  /\ UNCHANGED tried

(* fail remembers the target.                                              *)
FailsUpgrade(d) ==
  /\ job[d] # None
  /\ job' = [job EXCEPT ![d] = None]
  /\ tried' = [tried EXCEPT ![d] = job[d]]

Announce(d) ==
  /\ StartsUpgrade(d)
  /\ Report(d, [dev[d] EXCEPT !.synced = "UpgradeInProgress"])
  /\ UNCHANGED <<cache, ro, pass, resumed, blamed, counts>>

(* The report at the end of the transaction or, if that was lost, of       *)
(* syncSteadyStatus.                                                       *)
Succeed(d) ==
  /\ job[d] # None
  /\ job' = [job EXCEPT ![d] = None]
  /\ Report(d, [dev[d] EXCEPT !.synced = "True", !.current = job[d]])
  /\ UNCHANGED <<cache, ro, pass, tried, resumed, blamed, counts>>

Fail(d) ==
  /\ FailsUpgrade(d)
  /\ Report(d, [dev[d] EXCEPT !.synced = "Failed"])
  /\ blamed' = IF job[d] = Target THEN blamed \cup {d} ELSE blamed
  /\ UNCHANGED <<cache, ro, pass, resumed, counts>>

(* The announcement or the report of a failure is lost, or refused five    *)
(* times; the agent does not repeat it.                                    *)
LoseReport(d) ==
  /\ counts.losses < MaxLosses
  /\ counts' = [counts EXCEPT !.losses = @ + 1]
  /\ StartsUpgrade(d) \/ FailsUpgrade(d)
  /\ UNCHANGED <<dev, events, cache, ro, pass, fresh, history>>

(* The operator finds the heartbeat of a device expired.                   *)
GoDark(d) ==
  /\ counts.outages < MaxOutages
  /\ ~dev[d].dark
  /\ counts' = [counts EXCEPT !.outages = @ + 1]
  /\ Report(d, [dev[d] EXCEPT !.dark = TRUE])
  /\ blamed' = blamed \cup {d}
  /\ UNCHANGED <<cache, ro, pass, agents, resumed>>

(* Heartbeats arrive again, or the agent is restarted and, having lost     *)
(* lastFailedKey, tries again.                                             *)
ComeBack(d) ==
  /\ counts.comebacks < MaxComebacks
  /\ counts' = [counts EXCEPT !.comebacks = @ + 1]
  /\ \/ /\ dev[d].dark
        /\ Report(d, [dev[d] EXCEPT !.dark = FALSE])
        /\ UNCHANGED agents
     \/ /\ tried[d] # None
        /\ tried' = [tried EXCEPT ![d] = None]
        /\ UNCHANGED <<dev, events, fresh, job, recovered>>
  /\ UNCHANGED <<cache, ro, pass, resumed, blamed>>

SetPaused(d, paused) ==
  /\ counts.pauses + counts.resumes < MaxHuman
  /\ dev[d].paused # paused
  /\ counts' = IF paused THEN [counts EXCEPT !.pauses = @ + 1]
               ELSE [counts EXCEPT !.resumes = @ + 1]
  /\ Write(d, [dev[d] EXCEPT !.paused = paused])
  /\ resumed' = (resumed \/ ~paused)
  /\ UNCHANGED <<cache, ro, pass, agents, blamed, recovered>>

-----------------------------------------------------------------------------
Init ==
  /\ dev \in [Devices -> InitialDevices]
  /\ events = << >>
  /\ cache = dev
  /\ ro = [phase |-> "", tally |-> [targeted |-> 0, succeeded |-> 0,
                                    failed |-> 0]]
  /\ pc = "idle"
  /\ view = dev
  /\ fresh = [d \in Devices |-> FALSE]
  /\ todo = {}
  /\ tally = ro.tally
  /\ job = [d \in Devices |-> None]
  /\ tried = [d \in Devices |->
                IF dev[d].synced = "Failed" THEN dev[d].desired ELSE None]
  /\ resumed = FALSE
  /\ blamed = {}
  /\ recovered = FALSE
  /\ counts = [pauses |-> 0, resumes |-> 0, outages |-> 0,
               comebacks |-> 0, losses |-> 0, aborts |-> 0]

Next ==
  \/ Reconcile
  \/ Abort
  \/ CacheCatchesUp
  \/ \E d \in Devices :
       \/ Announce(d) \/ Succeed(d) \/ Fail(d) \/ LoseReport(d)
       \/ GoDark(d) \/ ComeBack(d)
       \/ \E paused \in BOOLEAN : SetPaused(d, paused)

Spec == Init /\ [][Next]_vars

(* Every device event requeues the rollout and a pass requeues itself, the *)
(* watch delivers, and a live agent polls and finishes what it started.    *)
(* Nothing is asked of the agent of a device that is dark.                 *)
Fairness ==
  /\ WF_vars(Reconcile)
  /\ WF_vars(CacheCatchesUp)
  /\ \A d \in Devices :
       /\ WF_vars(~dev[d].dark /\ Announce(d))
       /\ WF_vars(~dev[d].dark /\ (Succeed(d) \/ Fail(d)))

FairSpec == Spec /\ Fairness

-----------------------------------------------------------------------------
(* Properties.                                                             *)

Tallies == [targeted : 0..Cardinality(Devices),
            succeeded : 0..Cardinality(Devices),
            failed : 0..Cardinality(Devices)]

TypeOK ==
  /\ dev \in [Devices -> Objects]
  /\ events \in Seq([name : Devices, object : Objects])
  /\ Len(events) <= MaxLag
  /\ cache \in [Devices -> Objects]
  /\ ro \in [phase : {"", "Progressing", "Paused", "Complete"},
             tally : Tallies]
  /\ pc \in {"idle", "freeze", "push"}
  /\ view \in [Devices -> Objects]
  /\ fresh \in [Devices -> BOOLEAN]
  /\ todo \subseteq Devices
  /\ tally \in Tallies
  /\ job \in [Devices -> Versions \cup {None}]
  /\ tried \in [Devices -> Versions \cup {None}]
  /\ resumed \in BOOLEAN
  /\ blamed \subseteq Devices
  /\ recovered \in BOOLEAN
  /\ counts \in [pauses : 0..MaxHuman, resumes : 0..MaxHuman,
                 outages : 0..MaxOutages, comebacks : 0..MaxComebacks,
                 losses : 0..MaxLosses, aborts : 0..MaxAborts]

(* fleetrollout_types.go:64, "maxUnavailable caps how many devices may be  *)
(* mid-upgrade at once": the devices that are really targeted and have     *)
(* reported neither success nor failure, however late the cache the        *)
(* controller counted them in.                                             *)
CapsUnavailable == Cardinality(InFlight(dev)) <= MaxUnavailable

(* fleetrollout_controller.go:123, "keep at most maxUnavailable devices in *)
(* flight": the list may not have the controller's own last pushes, which  *)
(* would be given a second batch; they are the first by name, so the next  *)
(* pass runs into a conflict on them before it pushes anyone.  It holds    *)
(* until somebody resumes a device, which then comes before them, or a     *)
(* failed device recovers and finds its place given away.                  *)
BlastRadius == counts.resumes = 0 /\ ~recovered => CapsUnavailable

(* fleetrollout_controller.go:132, "a human explicitly froze this device;  *)
(* not ours to thaw": a frozen device is neither retargeted nor unfrozen   *)
(* by the controller, even if it was frozen after the pass listed it.      *)
RespectsFreeze ==
  [][\A d \in Devices : dev[d].paused =>
       /\ dev'[d].desired = dev[d].desired
       /\ dev'[d].paused \/ counts'.resumes > counts.resumes]_vars

(* fleetrollout_controller.go:177, "either its upgrade transaction         *)
(* reported a terminal failure, or the device itself went dark             *)
(* mid-rollout": the breaker only trips once enough devices for the        *)
(* threshold have failed the target of this rollout or gone dark, however  *)
(* mixed the versions are in which a list shows them.  It takes that no    *)
(* device starts with the failure of an earlier target, which deviceFailed *)
(* does not tell apart.                                                    *)
TripsForCause ==
  ro.phase = "Paused" =>
    /\ blamed # {}
    /\ Cardinality(blamed) * 100 >=
         FailureThresholdPercent * ro.tally.targeted

(* fleetrollout_types.go:31, "a controller that un-trips its own breaker   *)
(* has no breaker at all": a rollout leaves Paused only after a person     *)
(* resumed a device.                                                       *)
BreakerStays ==
  [][ro.phase = "Paused" /\ ro'.phase # "Paused" => resumed]_vars

(* fleetrollout_controller.go:97: what the breaker is, recomputed in every *)
(* pass from a list that may be late.  Neither that nor a freeze cut short *)
(* un-trips it, and not even a person who resumes devices does: a rollout  *)
(* leaves Paused only once a device that counted as failed has recovered.  *)
UntripsForCause ==
  [][ro.phase = "Paused" /\ ro'.phase # "Paused" => recovered]_vars

(* fleetrollout_types.go:71, "the rollout pauses itself and sets           *)
(* rolloutPaused on every selected device": a failure rate that stays      *)
(* above the threshold ends with every device frozen and the status saying *)
(* so, whichever updates of the freeze conflicted or failed before.        *)
BreakerFreezesAll ==
  (<>[]Trips(Tally(dev))) =>
    <>[](ro.phase = "Paused" /\ \A d \in Devices : dev[d].paused)

(* README.md:128, "every reconcile ... tops up in-flight devices": batches *)
(* are nowhere stored, and still a rollout reaches every device, unless    *)
(* one stays failed or frozen or its agent has given up on the target.     *)
(* The last is more than that it failed: when the report of the failure    *)
(* was lost, the device counts as in flight, and holds its place, for ever.*)
Completes ==
  (<>[](\A d \in Devices :
          ~dev[d].paused /\ ~deviceFailed(dev[d]) /\ tried[d] # Target)) =>
    <>[](ro.phase = "Complete")
=============================================================================
