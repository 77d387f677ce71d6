--------------------------- MODULE EdgeDeviceProofs ---------------------------
(***************************************************************************)
(* Theorems about EdgeDevice, for every number of devices, edits, reports, *)
(* faults and watch events the caches are behind.                          *)
(***************************************************************************)
EXTENDS EdgeDevice, FiniteSetTheorems, TLAPS

Versioned == Device \cup {None}

Counters == [devices : Nat, edits : Nat, beats : Nat, reports : Nat,
             forced : Nat, faults : Nat]

LastVersion == IF events = << >> THEN cache ELSE events[Len(events)]
Seen == {cache} \cup {events[i] : i \in 1..Len(events)}
Held(o) == o # None /\ o.finalizer /\ ~o.deleting

Types ==
  /\ dev \in Versioned /\ cache \in Versioned /\ view \in Versioned
  /\ events \in Seq(Versioned)
  /\ pc \in {"idle", "revoke", "release", "finalize", "secret", "status"}
  /\ now \in Nat
  /\ counts \in Counters

(* What a pass knows: the cache runs through the versions of the device in *)
(* order, and a view that is still fresh is the device.                    *)
Views ==
  /\ dev = LastVersion
  /\ pc # "idle" => view # None
  /\ pc # "idle" /\ fresh => events = << >> /\ cache = dev /\ view = dev

(* How finalizer and credential hang together.                             *)
Order ==
  /\ pc \in {"revoke", "release"} => view.deleting
  /\ pc = "release" => secret = None
  /\ counts.forced = 0 =>
       /\ \A o \in Seen : Held(o) =>
            dev # None /\ dev.finalizer /\ dev.uid = o.uid
       /\ pc = "secret" => dev # None /\ dev.finalizer /\ dev.uid = view.uid
       /\ secret # None => dev # None /\ dev.finalizer /\ secret.uid = dev.uid

Inv == Types /\ Views /\ Order

(* What the controller watches.  A pass that nothing was queued behind     *)
(* works on the newest version the cache has; a device the controller      *)
(* rests on has the status it should have, and a timer that fires within a *)
(* second of the moment when it no longer has.                             *)
OneTimer == timer = {} \/ \E t \in Int : timer = {t}
Alarmed == \E t \in timer : t <= dev.lastHeartbeat + Timeout + Second
Kept ==
  \/ /\ statusEqual(dev, projectStatus(dev))
     /\ Health(dev) = "HeartbeatFresh" => Alarmed
  \/ /\ dev.lastHeartbeat # None /\ Alarmed
     /\ now - dev.lastHeartbeat \in (Timeout + 1)..(Timeout + Second)
Watched ==
  /\ OneTimer
  /\ pc # "idle" /\ ~queued => view = cache /\ (events = << >> => fresh)
  /\ Settled /\ Live => Kept

-----------------------------------------------------------------------------
(* Writes and deliveries.                                                  *)

(* A write appends a version the cache has not seen.                       *)
LEMMA WriteAppends ==
  ASSUME Types, NEW object \in Versioned, Write(object), cache' = cache
  PROVE  /\ dev' = object /\ dev' \in Versioned /\ ~fresh'
         /\ events' \in Seq(Versioned)
         /\ dev' = LastVersion'
         /\ Seen' = Seen \cup {object}
<1>1. events \in Seq(Versioned)  BY DEF Types
<1>2. dev' = object /\ events' = Append(events, object) /\ fresh' = FALSE
  BY DEF Write
<1>3. /\ events' \in Seq(Versioned) /\ Len(events') = Len(events) + 1
      /\ events'[Len(events')] = object /\ events' # << >>
      /\ \A i \in 1..Len(events) : events'[i] = events[i]
  BY <1>1, <1>2
<1>4. dev' = LastVersion'  BY <1>2, <1>3 DEF LastVersion
<1>5. Seen' = Seen \cup {object}
  <2>1. ASSUME NEW o \in Seen' PROVE o \in Seen \cup {object}
    <3>1. CASE o = cache'  BY <3>1 DEF Seen
    <3>2. CASE \E i \in 1..Len(events') : o = events'[i]
      <4>1. PICK i \in 1..Len(events') : o = events'[i]  BY <3>2
      <4>2. CASE i = Len(events')  BY <4>1, <4>2, <1>3
      <4>3. CASE i # Len(events')
        <5>1. i \in 1..Len(events)  BY <4>3, <1>1, <1>3
        <5> QED  BY <4>1, <5>1, <1>3 DEF Seen
      <4> QED  BY <4>2, <4>3
    <3> QED  BY <2>1, <3>1, <3>2 DEF Seen
  <2>2. ASSUME NEW o \in Seen \cup {object} PROVE o \in Seen'
    <3>1. CASE o = cache  BY <3>1 DEF Seen
    <3>2. CASE o = object
      <4>1. Len(events') \in 1..Len(events')  BY <1>1, <1>3
      <4> QED  BY <3>2, <4>1, <1>3 DEF Seen
    <3>3. CASE \E i \in 1..Len(events) : o = events[i]
      <4>1. PICK i \in 1..Len(events) : o = events[i]  BY <3>3
      <4>2. i \in 1..Len(events') /\ events'[i] = o  BY <4>1, <1>1, <1>3
      <4> QED  BY <4>2 DEF Seen
    <3> QED  BY <2>2, <3>1, <3>2, <3>3 DEF Seen
  <2> QED  BY <2>1, <2>2
<1> QED  BY <1>2, <1>3, <1>4, <1>5

(* A delivery moves the cache along without adding a version.              *)
LEMMA DeliveryShifts ==
  ASSUME Types, dev = LastVersion, CacheCatchesUp
  PROVE  /\ cache' \in Versioned /\ events' \in Seq(Versioned)
         /\ dev' = LastVersion'
         /\ Seen' \subseteq Seen
<1>1. /\ events \in Seq(Versioned) /\ events # << >>
      /\ cache' = Head(events) /\ events' = Tail(events) /\ dev' = dev
  BY DEF Types, CacheCatchesUp
<1>2. /\ Len(events) \in Nat \ {0} /\ Head(events) = events[1]
      /\ events' \in Seq(Versioned) /\ Len(events') = Len(events) - 1
      /\ \A i \in 1..Len(events') : events'[i] = events[i + 1]
  BY <1>1
<1>3. cache' \in Versioned  BY <1>1, <1>2
<1>4. dev' = LastVersion'
  <2>1. CASE Len(events) = 1
    <3>1. events' = << >>  BY <2>1, <1>2
    <3> QED  BY <2>1, <3>1, <1>1, <1>2 DEF LastVersion
  <2>2. CASE Len(events) # 1
    <3>1. Len(events') \in 1..Len(events') /\ events' # << >>
      BY <2>2, <1>2
    <3>2. events'[Len(events')] = events[Len(events)]  BY <3>1, <1>2
    <3> QED  BY <3>1, <3>2, <1>1 DEF LastVersion
  <2> QED  BY <2>1, <2>2
<1>5. ASSUME NEW o \in Seen' PROVE o \in Seen
  <2>1. CASE o = cache'
    <3>1. 1 \in 1..Len(events) /\ o = events[1]  BY <2>1, <1>1, <1>2
    <3> QED  BY <3>1 DEF Seen
  <2>2. CASE \E i \in 1..Len(events') : o = events'[i]
    <3>1. PICK i \in 1..Len(events') : o = events'[i]  BY <2>2
    <3>2. i + 1 \in 1..Len(events) /\ o = events[i + 1]  BY <3>1, <1>2
    <3> QED  BY <3>2 DEF Seen
  <2> QED  BY <1>5, <2>1, <2>2 DEF Seen
<1> QED  BY <1>2, <1>3, <1>4, <1>5

(* A write that changes neither the uid nor takes the finalizer away, by   *)
(* the pass at its end or by somebody else.                                *)
LEMMA WriteKeepsInv ==
  ASSUME Inv, dev # None, NEW object \in Device, object # None,
         object.uid = dev.uid, dev.finalizer => object.finalizer,
         Write(object), UNCHANGED <<cache, secret, now>>,
         UNCHANGED <<pc, view>> \/ (pc' = "idle" /\ view' = None),
         counts' \in Counters, counts'.forced = counts.forced
  PROVE  Inv'
<1>1. /\ dev' = object /\ dev' \in Versioned /\ ~fresh'
      /\ events' \in Seq(Versioned)
      /\ dev' = LastVersion'
      /\ Seen' = Seen \cup {object}
  BY WriteAppends DEF Inv, Versioned
<1>2. Types'  BY <1>1 DEF Inv, Types, Versioned
<1>3. Views'  BY <1>1 DEF Inv, Views
<1>4. Order'  BY <1>1 DEF Inv, Order, Held
<1> QED  BY <1>2, <1>3, <1>4 DEF Inv

(* Steps that touch neither the device nor its cache.                      *)
LEMMA StillSeen ==
  ASSUME UNCHANGED <<dev, events, cache>>
  PROVE  Seen' = Seen /\ LastVersion' = LastVersion
BY DEF Seen, LastVersion

(* What the operator sends as status is a device.                          *)
LEMMA ProjectedType ==
  ASSUME NEW d \in Device
  PROVE  /\ projectStatus(d) \in Device
         /\ Facts(projectStatus(d)) = Facts(d)
<1>1. Health(d) \in Reasons  BY DEF Health, Reasons
<1>2. PhaseOf(d) \in Phases  BY DEF PhaseOf, Phases
<1> QED  BY <1>1, <1>2 DEF projectStatus, Device, Facts

-----------------------------------------------------------------------------
LEMMA InitInv == Init => Inv
<1> SUFFICES ASSUME Init PROVE Inv  OBVIOUS
<1> USE DEF Init
<1>1. Types  BY DEF Types, Versioned, Counters
<1>2. Views  BY DEF Views, LastVersion
<1>3. Order  BY DEF Order, Seen, Held
<1> QED  BY <1>1, <1>2, <1>3 DEF Inv

(* The steps of a pass.                                                    *)
LEMMA ReconcileInv ==
  ASSUME Inv, Reconcile
  PROVE  Inv'
<1> USE DEF Inv
<1>1. CASE Start
  <2>1. /\ pc = "idle" /\ view' = cache /\ fresh' = (events = << >>)
        /\ pc' = FirstStep(cache)
        /\ UNCHANGED <<dev, events, cache, secret, now, counts>>
    BY <1>1 DEF Start, credential, caches
  <2>2. Seen' = Seen /\ LastVersion' = LastVersion  BY <2>1, StillSeen
  <2>3. /\ pc' \in {"idle", "revoke", "finalize", "secret"}
        /\ pc' # "idle" => cache # None
        /\ pc' = "revoke" => cache.deleting
        /\ pc' = "secret" => Held(cache)
    BY <2>1 DEF FirstStep, Held
  <2>4. cache \in Seen  BY DEF Seen
  <2>5. Types'  BY <2>1, <2>3 DEF Types
  <2>6. Views'  BY <2>1, <2>2, <2>3 DEF Views, LastVersion
  <2>7. Order'  BY <2>1, <2>2, <2>3, <2>4 DEF Order
  <2> QED  BY <2>5, <2>6, <2>7
<1>2. CASE Conflict
  <2>1. /\ pc' = "idle" /\ view' = None
        /\ UNCHANGED <<dev, events, cache, secret, now, counts>>
    BY <1>2 DEF Conflict, Retry, Return, credential, caches
  <2>2. Seen' = Seen /\ LastVersion' = LastVersion  BY <2>1, StillSeen
  <2> QED  BY <2>1, <2>2 DEF Types, Views, Order, Versioned
<1>3. CASE revokeCredential
  <2>1. /\ pc = "revoke" /\ pc' = "release" /\ secret' = None
        /\ UNCHANGED <<dev, events, fresh, cache, view, now, counts>>
    BY <1>3 DEF revokeCredential, WriteSecret, credential, device, caches
  <2>2. Seen' = Seen /\ LastVersion' = LastVersion  BY <2>1, StillSeen
  <2> QED  BY <2>1, <2>2 DEF Types, Views, Order
<1>4. CASE Release
  <2>1. /\ pc = "release" /\ fresh /\ Write(None)
        /\ pc' = "idle" /\ view' = None
        /\ UNCHANGED <<cache, secret, now, counts>>
    BY <1>4 DEF Release, Accepts, Done, Return, credential, caches
  <2>2. /\ dev' = None /\ events' \in Seq(Versioned)
        /\ dev' = LastVersion' /\ Seen' = Seen \cup {None}
    BY <2>1, WriteAppends DEF Versioned
  <2>3. \A o \in Seen' : ~Held(o)
    <3>1. Seen = {cache} /\ cache = view /\ view.deleting
      BY <2>1 DEF Views, Order, Seen
    <3> QED  BY <2>2, <3>1 DEF Held
  <2>4. secret' = None  BY <2>1 DEF Order
  <2>5. Types'  BY <2>1, <2>2 DEF Types, Versioned
  <2>6. Views'  BY <2>1, <2>2 DEF Views
  <2>7. Order'  BY <2>1, <2>3, <2>4 DEF Order
  <2> QED  BY <2>5, <2>6, <2>7
<1>5. CASE AddFinalizer
  <2> DEFINE object == [dev EXCEPT !.finalizer = TRUE,
                                   !.desired = view.desired]
  <2>1. /\ pc = "finalize" /\ fresh /\ Write(object)
        /\ pc' = "idle" /\ view' = None
        /\ UNCHANGED <<cache, secret, now, counts>>
    BY <1>5 DEF AddFinalizer, Accepts, Done, Return, credential, caches
  <2>2. dev = view /\ view # None /\ dev \in Device
    BY <2>1 DEF Views, Types, Versioned
  <2>3. object \in Device /\ object.uid = dev.uid /\ object.finalizer
    BY <2>2 DEF Device
  <2>4. object # None  BY <2>3, NoneAssumption
  <2> QED  BY <2>1, <2>2, <2>3, <2>4, WriteKeepsInv DEF Types
<1>6. CASE ensureCredentialSecret
  <2>1. /\ pc = "secret"
        /\ UNCHANGED <<dev, events, cache, now, counts>>
        /\ \/ pc' = "status" /\ UNCHANGED <<view, fresh>>
           \/ pc' = "idle" /\ view' = None
        /\ \/ secret' = secret
           \/ secret' = [uid |-> view.uid, token |-> view.uid]
    BY <1>6 DEF ensureCredentialSecret, WriteSecret, Retry, Return,
                credential, caches
  <2>2. Seen' = Seen /\ LastVersion' = LastVersion  BY <2>1, StillSeen
  <2>3. Types'  BY <2>1 DEF Types, Versioned
  <2>4. Views'  BY <2>1, <2>2 DEF Views
  <2>5. Order'  BY <2>1, <2>2 DEF Order
  <2> QED  BY <2>3, <2>4, <2>5
<1>7. CASE SkipStatus
  <2>1. /\ pc' = "idle" /\ view' = None
        /\ UNCHANGED <<dev, events, cache, secret, now, counts>>
    BY <1>7 DEF SkipStatus, Projected, Return, credential, caches
  <2>2. Seen' = Seen /\ LastVersion' = LastVersion  BY <2>1, StillSeen
  <2> QED  BY <2>1, <2>2 DEF Types, Views, Order, Versioned
<1>8. CASE UpdateStatus
  <2> DEFINE object == [projectStatus(view) EXCEPT
                          !.uid = dev.uid, !.finalizer = dev.finalizer,
                          !.deleting = dev.deleting, !.gen = dev.gen,
                          !.desired = dev.desired]
  <2>1. /\ pc = "status" /\ fresh /\ Write(object)
        /\ pc' = "idle" /\ view' = None
        /\ UNCHANGED <<cache, secret, now, counts>>
    BY <1>8 DEF UpdateStatus, Accepts, Projected, Return, credential, caches
  <2>2. dev = view /\ view # None /\ dev \in Device
    BY <2>1 DEF Views, Types, Versioned
  <2>3. projectStatus(view) \in Device  BY <2>2, ProjectedType
  <2>4. /\ object \in Device /\ object.uid = dev.uid
        /\ object.finalizer = dev.finalizer
    BY <2>2, <2>3 DEF Device
  <2>5. object # None  BY <2>4, NoneAssumption
  <2> QED  BY <2>1, <2>2, <2>4, <2>5, WriteKeepsInv DEF Types
<1> QED  BY <1>1, <1>2, <1>3, <1>4, <1>5, <1>6, <1>7, <1>8 DEF Reconcile

(* The steps of the API server, the workqueue, agents, people and clocks.  *)
LEMMA EnvironmentInv ==
  ASSUME Inv, Next, ~Reconcile
  PROVE  Inv'
<1> USE DEF Inv
<1>1. CASE CacheCatchesUp
  <2>1. UNCHANGED <<dev, fresh, secret, pc, view, now, counts>>
    BY <1>1 DEF CacheCatchesUp, credential
  <2>2. events # << >>  BY <1>1 DEF CacheCatchesUp
  <2>3. /\ cache' \in Versioned /\ events' \in Seq(Versioned)
        /\ dev' = LastVersion' /\ Seen' \subseteq Seen
    BY <1>1, DeliveryShifts DEF Views
  <2>4. Types'  BY <2>1, <2>3 DEF Types
  <2>5. Views'  BY <2>1, <2>2, <2>3 DEF Views
  <2>6. Order'  BY <2>1, <2>3 DEF Order
  <2> QED  BY <2>4, <2>5, <2>6
<1>2. CASE SecretCacheCatchesUp \/ Wake \/ Tick
  <2>1. /\ UNCHANGED <<dev, events, fresh, cache, secret, pc, view, counts>>
        /\ now' \in Nat
    BY <1>2 DEF SecretCacheCatchesUp, Wake, Tick, device, credential, caches,
                work, Types
  <2>2. Seen' = Seen /\ LastVersion' = LastVersion  BY <2>1, StillSeen
  <2> QED  BY <2>1, <2>2 DEF Types, Views, Order
<1>3. CASE RequestFails
  <2>1. /\ pc' = "idle" /\ view' = None
        /\ counts' = [counts EXCEPT !.faults = @ + 1]
        /\ UNCHANGED <<dev, events, cache, secret, now>>
    BY <1>3 DEF RequestFails, Retry, Return, Count, credential, caches
  <2>2. Seen' = Seen /\ LastVersion' = LastVersion  BY <2>1, StillSeen
  <2> QED  BY <2>1, <2>2 DEF Types, Views, Order, Versioned, Counters
<1>4. CASE Restart
  <2>1. /\ pc' = "idle" /\ view' = None
        /\ counts' = [counts EXCEPT !.faults = @ + 1]
        /\ cache' = dev /\ events' = << >>
        /\ UNCHANGED <<dev, secret, now>>
    BY <1>4 DEF Restart, Return, Count
  <2>2. Seen' = {dev} /\ LastVersion' = dev
    BY <2>1 DEF Seen, LastVersion
  <2> QED
    BY <2>1, <2>2 DEF Types, Views, Order, Versioned, Held, Counters
<1>5. CASE \E skew \in Skews : Heartbeat(skew)
  <2>1. PICK skew \in Skews : Heartbeat(skew)  BY <1>5
  <2> DEFINE beat == ((now + skew) \div Second) * Second
             object == [dev EXCEPT !.lastHeartbeat = beat]
  <2>2. /\ dev # None /\ Write(object)
        /\ counts' = [counts EXCEPT !.beats = @ + 1]
        /\ UNCHANGED <<cache, secret, now, pc, view>>
    BY <2>1 DEF Heartbeat, WriteFact, Count, credential, caches, work
  <2>3. beat \in Int  BY EdgeDeviceAssumption DEF Types
  <2>4. dev \in Device  BY <2>2 DEF Types, Versioned
  <2>5. /\ object \in Device /\ object.uid = dev.uid
        /\ object.finalizer = dev.finalizer
    BY <2>3, <2>4 DEF Device
  <2>6. object # None  BY <2>5, NoneAssumption
  <2>7. counts' \in Counters /\ counts'.forced = counts.forced
    BY <2>2 DEF Types, Counters
  <2> HIDE DEF object
  <2> QED  BY <2>2, <2>5, <2>6, <2>7, WriteKeepsInv
<1>6. CASE \E v \in Versions \cup {None}, fails \in BOOLEAN :
              ReportFirmware(v, fails)
  <2>1. PICK v \in Versions \cup {None}, fails \in BOOLEAN :
               ReportFirmware(v, fails)
    BY <1>6
  <2> DEFINE object == [dev EXCEPT !.running = v, !.failed = fails]
  <2>2. /\ dev # None /\ Write(object)
        /\ counts' = [counts EXCEPT !.reports = @ + 1]
        /\ UNCHANGED <<cache, secret, now, pc, view>>
    BY <2>1 DEF ReportFirmware, WriteFact, Count, credential, caches, work
  <2>3. dev \in Device  BY <2>2 DEF Types, Versioned
  <2>4. /\ object \in Device /\ object.uid = dev.uid
        /\ object.finalizer = dev.finalizer
    BY <2>3 DEF Device
  <2>5. object # None  BY <2>4, NoneAssumption
  <2>6. counts' \in Counters /\ counts'.forced = counts.forced
    BY <2>2 DEF Types, Counters
  <2> HIDE DEF object
  <2> QED  BY <2>2, <2>4, <2>5, <2>6, WriteKeepsInv
<1>7. CASE \E v \in Versions : Create(v)
  <2>1. PICK v \in Versions : Create(v)  BY <1>7
  <2> DEFINE object ==
        [uid |-> counts.devices + 1, finalizer |-> FALSE, deleting |-> FALSE,
         gen |-> 1, desired |-> v,
         lastHeartbeat |-> None, running |-> None, failed |-> FALSE,
         phase |-> None, healthy |-> None, healthyGen |-> 0]
  <2>2. /\ dev = None /\ counts.devices < MaxDevices /\ Write(object)
        /\ counts' = [counts EXCEPT !.devices = @ + 1]
        /\ UNCHANGED <<cache, secret, now, pc, view>>
    BY <2>1 DEF Create, WriteFact, Count, credential, caches, work
  <2>3. counts.devices + 1 \in 1..MaxDevices
    <3>1. MaxDevices \in Nat  BY EdgeDeviceAssumption
    <3>2. counts.devices \in Nat  BY DEF Types, Counters
    <3> QED  BY <2>2, <3>1, <3>2
  <2>4. object \in Device /\ ~object.finalizer  BY <2>3 DEF Device
  <2> HIDE DEF object
  <2>5. /\ dev' = object /\ dev' \in Versioned /\ ~fresh'
        /\ events' \in Seq(Versioned)
        /\ dev' = LastVersion' /\ Seen' = Seen \cup {object}
    BY <2>2, <2>4, WriteAppends DEF Versioned
  <2>6. Types'  BY <2>2, <2>5 DEF Types, Counters
  <2>7. Views'  BY <2>2, <2>5 DEF Views
  <2>8. Order'
    <3>1. pc' # "secret" \/ counts'.forced # 0
      BY <2>2 DEF Order, Types, Counters
    <3>2. counts'.forced = counts.forced  BY <2>2 DEF Types, Counters
    <3>3. counts.forced = 0 => \A o \in Seen' : ~Held(o)
      BY <2>2, <2>4, <2>5 DEF Order, Held
    <3> QED  BY <2>2, <3>1, <3>2, <3>3 DEF Order
  <2> QED  BY <2>6, <2>7, <2>8
<1>8. CASE \E v \in Versions : EditSpec(v)
  <2>1. PICK v \in Versions : EditSpec(v)  BY <1>8
  <2> DEFINE object == [dev EXCEPT !.desired = v, !.gen = @ + 1]
  <2>2. /\ dev # None /\ Write(object)
        /\ counts' = [counts EXCEPT !.edits = @ + 1]
        /\ UNCHANGED <<cache, secret, now, pc, view>>
    BY <2>1 DEF EditSpec, Live, WriteFact, Count, credential, caches, work
  <2>3. dev \in Device /\ dev.gen + 1 \in Nat
    BY <2>2 DEF Types, Versioned, Device
  <2>4. /\ object \in Device /\ object.uid = dev.uid
        /\ object.finalizer = dev.finalizer
    BY <2>3 DEF Device
  <2>5. object # None  BY <2>4, NoneAssumption
  <2>6. counts' \in Counters /\ counts'.forced = counts.forced
    BY <2>2 DEF Types, Counters
  <2> HIDE DEF object
  <2> QED  BY <2>2, <2>4, <2>5, <2>6, WriteKeepsInv
<1>9. CASE Delete
  <2>1. /\ dev # None
        /\ Write(IF dev.finalizer THEN [dev EXCEPT !.deleting = TRUE]
                                  ELSE None)
        /\ UNCHANGED <<cache, secret, now, pc, view, counts>>
    BY <1>9 DEF Delete, Live, credential, caches, work
  <2>2. dev \in Device  BY <2>1 DEF Types, Versioned
  <2>3. CASE dev.finalizer
    <3> DEFINE object == [dev EXCEPT !.deleting = TRUE]
    <3>1. /\ object \in Device /\ object.uid = dev.uid
          /\ object.finalizer = dev.finalizer
      BY <2>2 DEF Device
    <3>2. object # None  BY <3>1, NoneAssumption
    <3> QED  BY <2>1, <2>3, <3>1, <3>2, WriteKeepsInv DEF Types
  <2>4. CASE ~dev.finalizer
    <3>1. /\ dev' = None /\ ~fresh' /\ events' \in Seq(Versioned)
          /\ dev' = LastVersion' /\ Seen' = Seen \cup {None}
      BY <2>1, <2>4, WriteAppends DEF Versioned
    <3>2. Types'  BY <2>1, <3>1 DEF Types, Versioned
    <3>3. Views'  BY <2>1, <3>1 DEF Views
    <3>4. Order'  BY <2>1, <2>4, <3>1 DEF Order, Held
    <3> QED  BY <3>2, <3>3, <3>4
  <2> QED  BY <2>3, <2>4
<1>10. CASE ForceDelete
  <2>1. /\ Write(None) /\ counts' = [counts EXCEPT !.forced = @ + 1]
        /\ UNCHANGED <<cache, secret, now, pc, view>>
    BY <1>10 DEF ForceDelete, Count, credential, caches, work
  <2>2. /\ dev' = None /\ ~fresh' /\ events' \in Seq(Versioned)
        /\ dev' = LastVersion'
    BY <2>1, WriteAppends DEF Versioned
  <2>3. Types' /\ counts'.forced # 0
    BY <2>1, <2>2 DEF Types, Versioned, Counters
  <2>4. Views'  BY <2>1, <2>2 DEF Views
  <2>5. Order'  BY <2>1, <2>3 DEF Order
  <2> QED  BY <2>3, <2>4, <2>5
<1>11. CASE DeleteSecret
  <2>1. /\ secret' = None /\ counts' = [counts EXCEPT !.forced = @ + 1]
        /\ UNCHANGED <<dev, events, fresh, cache, now, pc, view>>
    BY <1>11 DEF DeleteSecret, WriteSecret, Count, device, caches, work
  <2>2. Seen' = Seen /\ LastVersion' = LastVersion  BY <2>1, StillSeen
  <2>3. Types' /\ counts'.forced # 0  BY <2>1 DEF Types, Counters
  <2>4. Views'  BY <2>1, <2>2 DEF Views
  <2>5. Order'  BY <2>1, <2>3 DEF Order
  <2> QED  BY <2>3, <2>4, <2>5
<1> QED
  BY <1>1, <1>2, <1>3, <1>4, <1>5, <1>6, <1>7, <1>8, <1>9, <1>10, <1>11
  DEF Next, People

LEMMA StepInv == Inv /\ [Next]_vars => Inv'
<1> SUFFICES ASSUME Inv, [Next]_vars PROVE Inv'  OBVIOUS
<1>1. CASE Next  BY <1>1, ReconcileInv, EnvironmentInv
<1>2. CASE UNCHANGED vars
  <2>1. UNCHANGED <<dev, events, fresh, cache, secret, pc, view, now, counts>>
    BY <1>2 DEF vars, device, credential, caches, work
  <2>2. Seen' = Seen /\ LastVersion' = LastVersion  BY <2>1, StillSeen
  <2> QED  BY <2>1, <2>2 DEF Inv, Types, Views, Order
<1> QED  BY <1>1, <1>2

LEMMA InvHolds == Spec => []Inv
<1> QED  BY InitInv, StepInv, PTL DEF Spec

-----------------------------------------------------------------------------
(* edgedevice_controller.go:112 and :96: as long as nobody works around    *)
(* the controller, a credential exists only for the device that exists now *)
(* and is held by its finalizer, however late the caches are and whatever  *)
(* fails or restarts.                                                      *)
THEOREM CredentialIsHeld == Spec => []CredentialHeld
<1>1. Inv => CredentialHeld  BY DEF Inv, Order, CredentialHeld
<1> QED  BY <1>1, InvHolds, PTL

(* edgedevice_controller.go:169: no request of the operator takes back     *)
(* what people asked for or the agent reported.                            *)
THEOREM FieldsAreKept == Spec => []OthersFieldsKept
<1>1. Init => OthersFieldsKept  BY DEF Init, OthersFieldsKept
<1>2. Inv /\ OthersFieldsKept /\ [Next]_vars => OthersFieldsKept'
  <2> SUFFICES ASSUME Inv, OthersFieldsKept, [Next]_vars
               PROVE  OthersFieldsKept'
    OBVIOUS
  <2> USE DEF OthersFieldsKept
  <2>1. CASE UNCHANGED <<dev, facts>>  BY <2>1 DEF Facts
  <2>2. CASE dev' = None  BY <2>2
  <2>3. CASE dev' # None /\ facts' = Facts(dev')  BY <2>3
  <2>4. CASE AddFinalizer
    <3>1. /\ pc = "finalize" /\ fresh /\ facts' = facts
          /\ dev' = [dev EXCEPT !.finalizer = TRUE,
                                !.desired = view.desired]
      BY <2>4 DEF AddFinalizer, Accepts, Write
    <3>2. dev = view /\ view # None /\ dev \in Device
      BY <3>1 DEF Inv, Views, Types, Versioned
    <3>3. Facts(dev') = Facts(dev)  BY <3>1, <3>2 DEF Facts, Device
    <3> QED  BY <3>1, <3>2, <3>3
  <2>5. CASE UpdateStatus
    <3>1. /\ pc = "status" /\ fresh /\ facts' = facts
          /\ dev' = [projectStatus(view) EXCEPT
                       !.uid = dev.uid, !.finalizer = dev.finalizer,
                       !.deleting = dev.deleting, !.gen = dev.gen,
                       !.desired = dev.desired]
      BY <2>5 DEF UpdateStatus, Accepts, Write, Projected
    <3>2. dev = view /\ view # None /\ dev \in Device
      BY <3>1 DEF Inv, Views, Types, Versioned
    <3>3. Facts(dev') = Facts(dev)
      BY <3>1, <3>2, ProjectedType DEF Facts, Device, projectStatus
    <3> QED  BY <3>1, <3>2, <3>3
  <2>6. CASE Delete /\ dev' # None
    <3>1. /\ dev \in Device /\ dev # None /\ facts' = facts
          /\ dev' = [dev EXCEPT !.deleting = TRUE]
      BY <2>6 DEF Delete, Live, Write, Inv, Types, Versioned
    <3>2. Facts(dev') = Facts(dev)  BY <3>1 DEF Facts, Device
    <3> QED  BY <3>1, <3>2
  <2>7. \/ UNCHANGED <<dev, facts>> \/ dev' = None
        \/ dev' # None /\ facts' = Facts(dev')
        \/ AddFinalizer \/ UpdateStatus \/ Delete
    BY DEF Next, Reconcile, People, Start, Conflict, revokeCredential,
       Release, ensureCredentialSecret, SkipStatus, Projected, CacheCatchesUp,
       SecretCacheCatchesUp, Wake, RequestFails, Restart, Heartbeat,
       ReportFirmware, Create, EditSpec, ForceDelete, DeleteSecret, Tick,
       WriteFact, Write, vars, device
  <2> QED  BY <2>1, <2>2, <2>3, <2>4, <2>5, <2>6, <2>7
<1> QED  BY <1>1, <1>2, InvHolds, PTL DEF Spec

(* edgedevice_controller.go:146: a timeout is only declared of the         *)
(* heartbeat that is in the object when the status is written.             *)
THEOREM NoAlarmIsFalse == Spec => NoFalseAlarm
<1> DEFINE Alarm == /\ dev' # None /\ dev'.healthy = "HeartbeatTimeout"
                    /\ dev = None \/ dev.healthy # "HeartbeatTimeout"
<1>1. Inv /\ [Next]_vars => [Alarm => TimedOut(dev)]_vars
  <2> SUFFICES ASSUME Inv, Next, Alarm PROVE TimedOut(dev)  OBVIOUS
  <2>1. CASE UpdateStatus
    <3>1. /\ pc = "status" /\ fresh
          /\ dev' = [projectStatus(view) EXCEPT
                       !.uid = dev.uid, !.finalizer = dev.finalizer,
                       !.deleting = dev.deleting, !.gen = dev.gen,
                       !.desired = dev.desired]
      BY <2>1 DEF UpdateStatus, Accepts, Write
    <3>2. dev = view /\ dev \in Device
      BY <3>1 DEF Inv, Views, Types, Versioned
    <3>3. dev'.healthy = Health(dev)
      BY <3>1, <3>2 DEF projectStatus, Device
    <3> QED  BY <3>3 DEF Health
  <2>2. CASE ~UpdateStatus
    <3>1. \/ dev' = dev \/ dev' = None
          \/ dev \in Device /\ dev # None /\ dev'.healthy = dev.healthy
          \/ dev'.healthy = None
      <4>1. dev = None \/ dev \in Device  BY DEF Inv, Types, Versioned
      <4>2. CASE AddFinalizer
        <5>1. dev = view /\ view # None
          BY <4>2 DEF AddFinalizer, Accepts, Inv, Views
        <5> QED  BY <4>1, <4>2, <5>1 DEF AddFinalizer, Write, Device
      <4>3. CASE \E v \in Versions : Create(v)
        BY <4>3 DEF Create, WriteFact, Write
      <4>4. CASE Delete
        BY <4>1, <4>4 DEF Delete, Write, Live, Device
      <4>5. CASE \E v \in Versions : EditSpec(v)
        <5>1. PICK v \in Versions : EditSpec(v)  BY <4>5
        <5>2. /\ dev # None /\ dev \in Device
              /\ dev' = [dev EXCEPT !.desired = v, !.gen = dev.gen + 1]
          BY <4>1, <5>1 DEF EditSpec, WriteFact, Write, Live
        <5>3. dev'.healthy = dev.healthy  BY <5>2 DEF Device
        <5> QED  BY <5>2, <5>3
      <4>6. CASE \/ \E skew \in Skews : Heartbeat(skew)
                 \/ \E v \in Versions \cup {None}, fails \in BOOLEAN :
                      ReportFirmware(v, fails)
        BY <4>1, <4>6 DEF Heartbeat, ReportFirmware, WriteFact, Write, Device
      <4> QED
        BY <2>2, <4>2, <4>3, <4>4, <4>5, <4>6
        DEF Next, Reconcile, People, Start, Conflict, revokeCredential,
            Release, ensureCredentialSecret, SkipStatus, CacheCatchesUp,
            SecretCacheCatchesUp, Wake, RequestFails, Restart, ForceDelete,
            DeleteSecret, Tick, Write, device
    <3>2. None # "HeartbeatTimeout"  BY NoneAssumption DEF Reasons
    <3> QED  BY <3>1, <3>2
  <2> QED  BY <2>1, <2>2
<1> QED  BY <1>1, InvHolds, PTL DEF Spec, NoFalseAlarm

-----------------------------------------------------------------------------
(* Status and time.                                                        *)

(* The workqueue's timer is never later than the time asked for.           *)
LEMMA TimerOf ==
  ASSUME OneTimer, NEW x \in Int, timer' = {Min(timer \cup {x})}
  PROVE  OneTimer' /\ \E t \in timer' : t <= x
<1> DEFINE S == timer \cup {x}
<1>1. \E m \in S : \A y \in S : m <= y
  <2>1. CASE timer = {}
    <3>1. S = {x} /\ x <= x  BY <2>1
    <3> QED  BY <3>1
  <2>2. ASSUME NEW t \in Int, timer = {t}
        PROVE  \E m \in S : \A y \in S : m <= y
    <3>1. S = {t, x}  BY <2>2
    <3>2. CASE t <= x
      <4>1. t \in S /\ \A y \in S : t <= y  BY <3>1, <3>2
      <4> QED  BY <4>1
    <3>3. CASE ~(t <= x)
      <4>1. x \in S /\ \A y \in S : x <= y  BY <3>1, <3>3
      <4> QED  BY <4>1
    <3> QED  BY <3>2, <3>3
  <2> QED  BY <2>1, <2>2 DEF OneTimer
<1>2. x \in S /\ \A y \in S : y \in Int  BY DEF OneTimer
<1> HIDE DEF S
<1>3. Min(S) \in S /\ \A y \in S : Min(S) <= y  BY <1>1 DEF Min
<1>4. Min(S) \in Int /\ Min(S) <= x  BY <1>2, <1>3
<1>5. timer' = {Min(S)}  BY DEF S
<1> QED  BY <1>4, <1>5 DEF OneTimer

LEMMA WriteLeavesEvent ==
  ASSUME Types, Types', NEW object, Write(object)
  PROVE  events' # << >> /\ dev' = object
<1>1. /\ events' = Append(events, object) /\ dev' = object
      /\ events \in Seq(Versioned) /\ object \in Versioned
  BY DEF Write, Types
<1> QED  BY <1>1

(* What a step leaves of the pass and of the queue.                        *)
LEMMA WatchSteps ==
  ASSUME Inv, [Next]_vars
  PROVE  \/ queued' = TRUE /\ timer' \in {timer, {}}
         \/ /\ events' # << >> /\ cache' = cache /\ queued' = queued
            /\ UNCHANGED <<pc, view, timer>> \/ pc' = "idle"
            /\ timer' = timer \/ UpdateStatus
         \/ Start
         \/ /\ pc # "idle" /\ pc' # "idle"
            /\ UNCHANGED <<dev, events, cache, queued, timer, view, fresh>>
         \/ SkipStatus
         \/ Tick
         \/ UNCHANGED <<dev, events, fresh, cache, work, now>>
<1>0. Types /\ Types'  BY StepInv DEF Inv
<1>1. CASE CacheCatchesUp \/ Wake \/ Conflict \/ RequestFails \/ Restart
  BY <1>1 DEF CacheCatchesUp, Wake, Conflict, RequestFails, Restart, Retry
<1>2. CASE Release \/ AddFinalizer
  <2>1. /\ \E object : Write(object)
        /\ pc' = "idle" /\ UNCHANGED <<cache, queued, timer>>
    BY <1>2 DEF Release, AddFinalizer, Done, Return, caches
  <2> QED  BY <1>0, <2>1, WriteLeavesEvent
<1>3. CASE UpdateStatus
  <2>1. /\ \E object : Write(object)
        /\ pc' = "idle" /\ UNCHANGED <<cache, queued>>
    BY <1>3 DEF UpdateStatus, Projected, Return, caches
  <2> QED  BY <1>0, <1>3, <2>1, WriteLeavesEvent
<1>4. CASE revokeCredential
  BY <1>4 DEF revokeCredential, device, caches
<1>5. CASE ensureCredentialSecret
  BY <1>5 DEF ensureCredentialSecret, Retry, Return, caches
<1>6. CASE \/ Delete \/ ForceDelete
           \/ \E v \in Versions : Create(v) \/ EditSpec(v)
           \/ \E skew \in Skews : Heartbeat(skew)
           \/ \E v \in Versions \cup {None}, fails \in BOOLEAN :
                ReportFirmware(v, fails)
  <2>1. (\E object : Write(object)) /\ UNCHANGED <<cache, work>>
    BY <1>6 DEF Delete, ForceDelete, Create, EditSpec, Heartbeat,
                ReportFirmware, WriteFact, caches
  <2> QED  BY <1>0, <2>1, WriteLeavesEvent DEF work
<1>7. CASE SecretCacheCatchesUp \/ DeleteSecret \/ UNCHANGED vars
  BY <1>7 DEF SecretCacheCatchesUp, DeleteSecret, vars, device, caches
<1> QED
  BY <1>1, <1>2, <1>3, <1>4, <1>5, <1>6, <1>7 DEF Next, Reconcile, People

(* The time at which a device that was read is to be looked at again.      *)
LEMMA RequeueTime ==
  ASSUME NEW d \in Device, now \in Nat
  PROVE  /\ now + Requeue(d) \in Int
         /\ Health(d) = "HeartbeatFresh" =>
              /\ d.lastHeartbeat \in Int
              /\ now + Requeue(d) = d.lastHeartbeat + Timeout + Second
<1>1. Timeout \in Nat /\ Second \in Nat  BY EdgeDeviceAssumption
<1>2. CASE Health(d) = "HeartbeatFresh"
  <2>1. d.lastHeartbeat \in Int  BY <1>2 DEF Health, Device
  <2>2. Requeue(d) = Timeout - (now - d.lastHeartbeat) + Second
    BY <1>2 DEF Requeue
  <2> QED  BY <1>1, <2>1, <2>2
<1>3. CASE Health(d) # "HeartbeatFresh"
  <2>1. Requeue(d) = Timeout  BY <1>3 DEF Requeue
  <2> QED  BY <1>1, <1>3, <2>1
<1> QED  BY <1>2, <1>3

(* Every step but the clock's.                                             *)
LEMMA WatchedAtWork ==
  ASSUME Inv, Watched, [Next]_vars, ~Tick
  PROVE  Watched'
<1>0. Inv'  BY StepInv
<1>1. CASE queued' = TRUE /\ timer' \in {timer, {}}
  BY <1>1 DEF Watched, OneTimer, Settled
<1>2. CASE /\ events' # << >> /\ cache' = cache /\ queued' = queued
           /\ UNCHANGED <<pc, view, timer>> \/ pc' = "idle"
           /\ timer' = timer \/ UpdateStatus
  <2>1. OneTimer'
    <3>1. CASE timer' = timer  BY <3>1 DEF Watched, OneTimer
    <3>2. CASE UpdateStatus
      <4>1. /\ timer' = {Min(timer \cup {now + Requeue(view)})}
            /\ pc = "status"
        BY <3>2 DEF UpdateStatus, Projected, AddAfter
      <4>2. view \in Device /\ now \in Nat
        BY <4>1 DEF Inv, Views, Types, Versioned
      <4>3. now + Requeue(view) \in Int  BY <4>2, RequeueTime
      <4> QED  BY <4>1, <4>3, TimerOf DEF Watched
    <3> QED  BY <1>2, <3>1, <3>2
  <2>2. pc' # "idle" /\ ~queued' => view' = cache'
    BY <1>2 DEF Watched
  <2> QED  BY <1>2, <2>1, <2>2 DEF Watched, Settled
<1>3. CASE Start
  <2>1. /\ view' = cache /\ fresh' = (events = << >>)
        /\ pc' = FirstStep(cache)
        /\ UNCHANGED <<dev, events, cache, timer>>
    BY <1>3 DEF Start, caches
  <2>2. OneTimer'  BY <2>1 DEF Watched, OneTimer
  <2>3. ~(Settled /\ Live)'
    <3>1. SUFFICES ASSUME pc' = "idle", events = << >> PROVE ~Live'
      BY <2>1 DEF Settled
    <3>2. dev' = cache  BY <2>1, <3>1 DEF Inv, Views, LastVersion
    <3>3. cache = None \/ cache.deleting
      BY <2>1, <3>1 DEF FirstStep
    <3> QED  BY <3>2, <3>3 DEF Live
  <2> QED  BY <2>1, <2>2, <2>3 DEF Watched
<1>4. CASE /\ pc # "idle" /\ pc' # "idle"
           /\ UNCHANGED <<dev, events, cache, queued, timer, view, fresh>>
  BY <1>4 DEF Watched, OneTimer, Settled
<1>5. CASE SkipStatus
  <2>1. /\ pc = "status" /\ pc' = "idle"
        /\ statusEqual(view, projectStatus(view))
        /\ timer' = {Min(timer \cup {now + Requeue(view)})}
        /\ UNCHANGED <<dev, events, queued, now>>
    BY <1>5 DEF SkipStatus, Projected, Return, AddAfter
  <2>2. view \in Device /\ now \in Nat
    BY <2>1 DEF Inv, Views, Types, Versioned
  <2>3. now + Requeue(view) \in Int  BY <2>2, RequeueTime
  <2>4. OneTimer' /\ \E t \in timer' : t <= now + Requeue(view)
    BY <2>1, <2>3, TimerOf DEF Watched
  <2>5. ASSUME Settled', Live' PROVE Kept'
    <3>1. ~queued /\ events = << >>  BY <2>1, <2>5 DEF Settled
    <3>2. fresh  BY <2>1, <3>1 DEF Watched
    <3>3. view = dev  BY <2>1, <3>2 DEF Inv, Views
    <3>4. /\ Health(dev)' = Health(dev)
          /\ projectStatus(dev)' = projectStatus(dev)
      BY <2>1 DEF Health, TimedOut, projectStatus, PhaseOf
    <3>5. statusEqual(dev, projectStatus(dev))'
      BY <2>1, <3>3, <3>4 DEF statusEqual
    <3>6. Health(dev) = "HeartbeatFresh" => Alarmed'
      <4> SUFFICES ASSUME Health(dev) = "HeartbeatFresh" PROVE Alarmed'
        OBVIOUS
      <4>1. now + Requeue(view) = dev'.lastHeartbeat + Timeout + Second
        BY <2>1, <2>2, <3>3, RequeueTime
      <4> QED  BY <2>4, <4>1 DEF Alarmed
    <3> QED  BY <3>4, <3>5, <3>6 DEF Kept
  <2> QED  BY <2>1, <2>4, <2>5 DEF Watched
<1>6. CASE UNCHANGED <<dev, events, fresh, cache, work, now>>
  <2>1. /\ Kept' = Kept /\ OneTimer' = OneTimer
        /\ Settled' = Settled /\ Live' = Live
    BY <1>6 DEF Kept, statusEqual, projectStatus, PhaseOf, Health, TimedOut,
                Alarmed, OneTimer, Settled, Live, work
  <2> QED  BY <1>6, <2>1 DEF Watched, work
<1> QED  BY <1>1, <1>2, <1>3, <1>4, <1>5, <1>6, WatchSteps

(* The clock's step.  It is the timer that keeps an expired heartbeat from *)
(* going unnoticed for more than a second.                                 *)
LEMMA WatchedInTime ==
  ASSUME Inv, Watched, Tick
  PROVE  Watched'
<1>1. /\ Settled /\ ~Due /\ now' = now + 1
      /\ UNCHANGED <<dev, events, fresh, cache, queued, timer, pc, view>>
  BY DEF Tick, device, caches, work
<1>2. now \in Nat /\ Timeout \in Nat /\ Second \in Nat \ {0}
  BY EdgeDeviceAssumption DEF Inv, Types
<1>3. /\ OneTimer' /\ pc' = "idle"
      /\ (Settled /\ Live)' = (Settled /\ Live)
  BY <1>1 DEF Watched, OneTimer, Settled, Live
<1>4. ASSUME Live PROVE Kept'
  <2>1. Kept  BY <1>1, <1>4 DEF Watched
  <2>2. dev \in Device  BY <1>4 DEF Live, Inv, Types, Versioned
  <2>3. ASSUME Alarmed, dev.lastHeartbeat \in Int
        PROVE  now' - dev.lastHeartbeat <= Timeout + Second /\ Alarmed'
    <3>1. PICK t \in timer : t <= dev.lastHeartbeat + Timeout + Second
      BY <2>3 DEF Alarmed
    <3>2. timer = {t} /\ t \in Int  BY <3>1 DEF Watched, OneTimer
    <3>3. Min(timer) = t  BY <3>2 DEF Min
    <3>4. now < t  BY <1>1, <1>2, <3>2, <3>3 DEF Due
    <3>5. Alarmed'  BY <1>1, <3>1 DEF Alarmed
    <3> QED  BY <1>1, <1>2, <2>3, <3>1, <3>2, <3>4, <3>5
  <2>4. CASE /\ dev.lastHeartbeat # None /\ Alarmed
             /\ now - dev.lastHeartbeat \in (Timeout + 1)..(Timeout + Second)
    <3>1. dev.lastHeartbeat \in Int  BY <2>2, <2>4 DEF Device
    <3>2. now' - dev.lastHeartbeat <= Timeout + Second /\ Alarmed'
      BY <2>3, <2>4, <3>1
    <3> QED  BY <1>1, <1>2, <2>4, <3>1, <3>2 DEF Kept
  <2>5. CASE /\ statusEqual(dev, projectStatus(dev))
             /\ Health(dev) = "HeartbeatFresh" => Alarmed
    <3>1. CASE Health(dev)' = Health(dev)
      <4>1. projectStatus(dev)' = projectStatus(dev)
        BY <1>1, <3>1 DEF projectStatus, PhaseOf
      <4>2. statusEqual(dev, projectStatus(dev))'
        BY <1>1, <2>5, <4>1 DEF statusEqual
      <4>3. Alarmed' = Alarmed  BY <1>1 DEF Alarmed
      <4> QED  BY <2>5, <3>1, <4>2, <4>3 DEF Kept
    <3>2. CASE Health(dev)' # Health(dev)
      <4>1. dev.lastHeartbeat \in Int
        BY <1>1, <2>2, <3>2 DEF Health, Device
      <4>2. /\ Health(dev) = "HeartbeatFresh"
            /\ now' - dev.lastHeartbeat > Timeout
        BY <1>1, <1>2, <3>2, <4>1, EdgeDeviceAssumption DEF Health, TimedOut
      <4>3. now' - dev.lastHeartbeat <= Timeout + Second /\ Alarmed'
        BY <2>3, <2>5, <4>1, <4>2
      <4>4. dev'.lastHeartbeat # None
        BY <1>1, <4>1, EdgeDeviceAssumption
      <4> QED  BY <1>1, <1>2, <4>1, <4>2, <4>3, <4>4 DEF Kept
    <3> QED  BY <3>1, <3>2
  <2> QED  BY <2>1, <2>4, <2>5 DEF Kept
<1> QED  BY <1>3, <1>4 DEF Watched

LEMMA WatchedHolds == Spec => [](Inv /\ Watched)
<1>1. Init => Watched
  BY DEF Init, Watched, OneTimer, Settled, Live
<1>2. Inv /\ Watched /\ [Next]_vars => Watched'
  BY WatchedAtWork, WatchedInTime
<1> QED  BY <1>1, <1>2, InvHolds, PTL DEF Spec

(* edgedevice_controller.go:221, "Degraded detection lags the deadline by  *)
(* ~1s": whenever the controller rests, phase and Healthy condition of a   *)
(* live device are what its object and the time imply, or its heartbeat    *)
(* expired no longer than a second ago; whatever the timeout, the clocks'  *)
(* skew and the lag of the caches.                                         *)
THEOREM PhaseIsKept == Spec => []PhaseIsCurrent
<1>1. Inv /\ Watched => PhaseIsCurrent
  <2> SUFFICES ASSUME Inv, Watched, Settled, Live
               PROVE  \/ dev = projectStatus(dev)
                      \/ /\ dev.lastHeartbeat # None
                         /\ now - dev.lastHeartbeat \in
                              (Timeout + 1)..(Timeout + Second)
    BY DEF PhaseIsCurrent
  <2>1. dev \in Device  BY DEF Live, Inv, Types, Versioned
  <2>2. ASSUME statusEqual(dev, projectStatus(dev))
        PROVE  dev = projectStatus(dev)
    BY <2>1, <2>2 DEF statusEqual, projectStatus, Device
  <2> QED  BY <2>2 DEF Watched, Kept
<1> QED  BY <1>1, WatchedHolds, PTL

-----------------------------------------------------------------------------
(* Types of the rest, and what a status presupposes.                       *)

Secrets == Secret \cup {None}

Credentials ==
  /\ secret \in Secrets /\ secretCache \in Secrets
  /\ secretEvents \in Seq(Secrets)
Flags == queued \in BOOLEAN /\ fresh \in BOOLEAN /\ now \in 0..MaxTime

(* A status is written at the end of a pass that has seen the finalizer.   *)
Marked(d) == /\ (d.phase = None) = (d.healthy = None)
             /\ d.phase # None => d.finalizer
Marks ==
  /\ dev # None => Marked(dev)
  /\ pc \in {"secret", "status"} => view.finalizer

LEMMA SecretWriteTyped ==
  ASSUME Credentials, NEW object \in Secrets, WriteSecret(object),
         secretCache' = secretCache
  PROVE  Credentials'
<1>1. secret' = object /\ secretEvents' = Append(secretEvents, object)
  BY DEF WriteSecret
<1>2. secretEvents' \in Seq(Secrets)  BY <1>1 DEF Credentials
<1> QED  BY <1>1, <1>2 DEF Credentials

LEMMA CredentialsStep ==
  ASSUME Inv, Credentials, [Next]_vars
  PROVE  Credentials'
<1>1. CASE UNCHANGED <<secret, secretEvents, secretCache>>
  BY <1>1 DEF Credentials
<1>2. CASE (revokeCredential \/ DeleteSecret) /\ WriteSecret(None)
  <2>1. None \in Secrets /\ secretCache' = secretCache
    BY <1>2 DEF Secrets, revokeCredential, DeleteSecret, caches
  <2> QED  BY <1>2, <2>1, SecretWriteTyped
<1>3. CASE ensureCredentialSecret
  <2> DEFINE new == [uid |-> view.uid, token |-> view.uid]
  <2>1. /\ pc = "secret" /\ secretCache' = secretCache
        /\ UNCHANGED <<secret, secretEvents>> \/ WriteSecret(new)
    BY <1>3 DEF ensureCredentialSecret, credential, caches
  <2>2. view \in Device  BY <2>1 DEF Inv, Views, Types, Versioned
  <2>3. new \in Secrets  BY <2>2 DEF Secrets, Secret, Device
  <2> HIDE DEF new
  <2> QED  BY <1>1, <2>1, <2>3, SecretWriteTyped
<1>4. CASE SecretCacheCatchesUp
  <2>1. /\ secretEvents # << >> /\ secretCache' = Head(secretEvents)
        /\ secretEvents' = Tail(secretEvents) /\ secret' = secret
    BY <1>4 DEF SecretCacheCatchesUp
  <2>2. secretEvents \in Seq(Secrets)  BY DEF Credentials
  <2>3. Head(secretEvents) \in Secrets /\ Tail(secretEvents) \in Seq(Secrets)
    BY <2>1, <2>2
  <2> QED  BY <2>1, <2>3 DEF Credentials
<1>5. CASE Restart
  <2>1. secretCache' = secret /\ secret' = secret /\ secretEvents' = << >>
    BY <1>5 DEF Restart
  <2> QED  BY <2>1 DEF Credentials
<1>6. \/ UNCHANGED <<secret, secretEvents, secretCache>>
      \/ (revokeCredential \/ DeleteSecret) /\ WriteSecret(None)
      \/ ensureCredentialSecret \/ SecretCacheCatchesUp \/ Restart
  BY DEF Next, Reconcile, People, Start, Conflict, revokeCredential,
     Release, AddFinalizer, SkipStatus, UpdateStatus, Projected,
     CacheCatchesUp, Wake, RequestFails, Heartbeat, ReportFirmware, Create,
     EditSpec, Delete, ForceDelete, DeleteSecret, Tick, WriteFact, vars,
     credential, caches
<1> QED  BY <1>1, <1>2, <1>3, <1>4, <1>5, <1>6

LEMMA FlagsStep ==
  ASSUME Inv, Flags, [Next]_vars
  PROVE  Flags'
<1>1. queued' \in {queued, TRUE, FALSE}
  BY DEF Next, Reconcile, People, Start, Conflict, revokeCredential,
     Release, AddFinalizer, ensureCredentialSecret, SkipStatus, UpdateStatus,
     Projected, Done, Retry, CacheCatchesUp, SecretCacheCatchesUp, Wake,
     RequestFails, Restart, Heartbeat, ReportFirmware, Create, EditSpec,
     Delete, ForceDelete, DeleteSecret, Tick, WriteFact, vars, work
<1>2. fresh' \in {fresh, FALSE, events = << >>}
  BY DEF Next, Reconcile, People, Start, Conflict, revokeCredential,
     Release, AddFinalizer, ensureCredentialSecret, SkipStatus, UpdateStatus,
     Projected, Done, Retry, Return, CacheCatchesUp, SecretCacheCatchesUp,
     Wake, RequestFails, Restart, Heartbeat, ReportFirmware, Create,
     EditSpec, Delete, ForceDelete, DeleteSecret, Tick, WriteFact, Write,
     vars, device
<1>3. now' = now \/ (now < MaxTime /\ now' = now + 1)
  BY DEF Next, Reconcile, People, Start, Conflict, revokeCredential,
     Release, AddFinalizer, ensureCredentialSecret, SkipStatus, UpdateStatus,
     Projected, CacheCatchesUp, SecretCacheCatchesUp, Wake, RequestFails,
     Restart, Heartbeat, ReportFirmware, Create, EditSpec, Delete,
     ForceDelete, DeleteSecret, Tick, WriteFact, vars
<1>4. now' \in 0..MaxTime  BY <1>3, EdgeDeviceAssumption DEF Flags
<1> QED  BY <1>1, <1>2, <1>4 DEF Flags

(* Every write leaves a marked device.                                     *)
LEMMA WritesMark ==
  ASSUME Inv, Marks, Next, dev' # None
  PROVE  Marked(dev')
<1>1. dev = None \/ dev \in Device  BY DEF Inv, Types, Versioned
<1>2. CASE AddFinalizer
  <2>1. /\ dev' = [dev EXCEPT !.finalizer = TRUE, !.desired = view.desired]
        /\ dev \in Device /\ dev # None
    BY <1>1, <1>2 DEF AddFinalizer, Accepts, Write, Inv, Views
  <2>2. /\ dev'.phase = dev.phase /\ dev'.healthy = dev.healthy
        /\ dev'.finalizer = TRUE
    BY <2>1 DEF Device
  <2> QED  BY <2>1, <2>2 DEF Marks, Marked
<1>3. CASE UpdateStatus
  <2>1. /\ pc = "status" /\ fresh
        /\ dev' = [projectStatus(view) EXCEPT
                     !.uid = dev.uid, !.finalizer = dev.finalizer,
                     !.deleting = dev.deleting, !.gen = dev.gen,
                     !.desired = dev.desired]
    BY <1>3 DEF UpdateStatus, Accepts, Write
  <2>2. dev = view /\ view # None /\ dev \in Device
    BY <2>1 DEF Inv, Views, Types, Versioned
  <2>3. /\ dev'.phase = PhaseOf(dev) /\ dev'.healthy = Health(dev)
        /\ dev'.finalizer = dev.finalizer
    BY <2>1, <2>2 DEF projectStatus, Device
  <2>4. PhaseOf(dev) # None  BY NoneAssumption DEF PhaseOf, Phases
  <2>5. Health(dev) # None  BY NoneAssumption DEF Health, Reasons
  <2>6. dev.finalizer  BY <2>1, <2>2 DEF Marks
  <2> QED  BY <2>3, <2>4, <2>5, <2>6 DEF Marked
<1>4. CASE \E v \in Versions : Create(v)
  BY <1>4 DEF Create, WriteFact, Write, Marked
<1>5. CASE \/ dev' = dev
           \/ /\ dev # None /\ dev'.finalizer = dev.finalizer
              /\ dev'.phase = dev.phase /\ dev'.healthy = dev.healthy
  BY <1>5 DEF Marks, Marked
<1>6. CASE Delete
  BY <1>1, <1>5, <1>6 DEF Delete, Write, Live, Device
<1>7. CASE \E v \in Versions : EditSpec(v)
  <2>1. PICK v \in Versions : EditSpec(v)  BY <1>7
  <2>2. /\ dev # None /\ dev \in Device
        /\ dev' = [dev EXCEPT !.desired = v, !.gen = dev.gen + 1]
    BY <1>1, <2>1 DEF EditSpec, WriteFact, Write, Live
  <2>3. /\ dev'.finalizer = dev.finalizer
        /\ dev'.phase = dev.phase /\ dev'.healthy = dev.healthy
    BY <2>2 DEF Device
  <2> QED  BY <1>5, <2>2, <2>3
<1>8. CASE \E skew \in Skews : Heartbeat(skew)
  <2>1. PICK skew \in Skews : Heartbeat(skew)  BY <1>8
  <2> DEFINE beat == ((now + skew) \div Second) * Second
  <2>2. /\ dev # None /\ dev \in Device
        /\ dev' = [dev EXCEPT !.lastHeartbeat = beat]
    BY <1>1, <2>1 DEF Heartbeat, WriteFact, Write
  <2> HIDE DEF beat
  <2>3. /\ dev'.finalizer = dev.finalizer
        /\ dev'.phase = dev.phase /\ dev'.healthy = dev.healthy
    BY <2>2 DEF Device
  <2> QED  BY <1>5, <2>2, <2>3
<1>9. CASE \E v \in Versions \cup {None}, fails \in BOOLEAN :
             ReportFirmware(v, fails)
  BY <1>1, <1>5, <1>9 DEF ReportFirmware, WriteFact, Write, Device
<1> QED
  BY <1>2, <1>3, <1>4, <1>5, <1>6, <1>7, <1>8, <1>9
  DEF Next, Reconcile, People, Start, Conflict, revokeCredential, Release,
      ensureCredentialSecret, SkipStatus, CacheCatchesUp,
      SecretCacheCatchesUp, Wake, RequestFails, Restart, ForceDelete,
      DeleteSecret, Tick, Write, device

LEMMA MarksStep ==
  ASSUME Inv, Marks, [Next]_vars
  PROVE  Marks'
<1>1. dev' # None => Marked(dev')
  <2>1. CASE Next  BY <2>1, WritesMark
  <2>2. CASE UNCHANGED vars  BY <2>2 DEF vars, device, Marks, Marked
  <2> QED  BY <2>1, <2>2
<1>2. ASSUME pc' \in {"secret", "status"} PROVE view'.finalizer
  <2>1. CASE Start
    BY <1>2, <2>1 DEF Start, FirstStep
  <2>2. CASE ensureCredentialSecret
    BY <1>2, <2>2 DEF ensureCredentialSecret, Retry, Return, Marks
  <2>3. CASE ~Start /\ ~ensureCredentialSecret
    <3>1. UNCHANGED <<pc, view>>
      BY <1>2, <2>3
      DEF Next, Reconcile, People, Conflict, revokeCredential, Release,
          AddFinalizer, SkipStatus, UpdateStatus, Projected, Done, Retry,
          Return, CacheCatchesUp, SecretCacheCatchesUp, Wake, RequestFails,
          Restart, Heartbeat, ReportFirmware, Create, EditSpec, Delete,
          ForceDelete, DeleteSecret, Tick, WriteFact, vars, work
    <3> QED  BY <1>2, <3>1 DEF Marks
  <2> QED  BY <2>1, <2>2, <2>3
<1> QED  BY <1>1, <1>2 DEF Marks

(* What the controller keeps is well typed, the workqueue holds at most    *)
(* one time for the name, and no device has a phase without the Healthy    *)
(* condition, or either before its finalizer.                              *)
THEOREM TypeCorrect == Spec => []TypeOK
<1> DEFINE Rest == Credentials /\ Flags /\ Marks
<1>1. Init => Rest
  <2> SUFFICES ASSUME Init PROVE Rest  OBVIOUS
  <2>1. 0 \in 0..MaxTime  BY EdgeDeviceAssumption
  <2>2. Credentials  BY DEF Init, Credentials, Secrets
  <2>3. Flags  BY <2>1 DEF Init, Flags
  <2>4. Marks  BY DEF Init, Marks
  <2> QED  BY <2>2, <2>3, <2>4
<1>2. Inv /\ Rest /\ [Next]_vars => Rest'
  BY CredentialsStep, FlagsStep, MarksStep
<1>3. Inv /\ Watched /\ Rest => TypeOK
  <2> SUFFICES ASSUME Inv, Watched, Rest PROVE TypeOK  OBVIOUS
  <2>1. timer \subseteq Int /\ Cardinality(timer) <= 1
    <3>1. CASE timer = {}  BY <3>1, FS_EmptySet
    <3>2. ASSUME NEW t \in Int, timer = {t}
          PROVE  timer \subseteq Int /\ Cardinality(timer) <= 1
      <4>1. Cardinality({t}) = 1  BY FS_Singleton
      <4> QED  BY <3>2, <4>1
    <3> QED  BY <3>1, <3>2 DEF Watched, OneTimer
  <2> QED
    BY <2>1 DEF TypeOK, Inv, Types, Versioned, Credentials, Secrets, Flags,
                Marks, Marked
<1> QED  BY <1>1, <1>2, <1>3, WatchedHolds, PTL DEF Spec
=============================================================================
