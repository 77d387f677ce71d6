-------------------------- MODULE FleetRolloutProofs --------------------------
(***************************************************************************)
(* Theorems about FleetRollout, for any number of devices, any batch size  *)
(* and threshold, and any lag of the cache.                                *)
(***************************************************************************)
EXTENDS FleetRollout, FiniteSetTheorems, WellFoundedInduction, TLAPS

(* The fleet a rollout begins with: every device in step with its Spec,    *)
(* none failed and none dark.                                              *)
SoundFleet ==
  \A o \in InitialDevices : o.desired = o.current /\ ~deviceFailed(o)

(* The classes of the fleet arithmetic, of a single object; the fourth is  *)
(* Lost.                                                                   *)
Done(o) == o.current = Target
Open(o) == o.current # Target /\ o.desired # Target
Busy(o) == o.current # Target /\ o.desired = Target /\ ~deviceFailed(o)

Counters == [pauses : 0..MaxHuman, resumes : 0..MaxHuman,
             outages : 0..MaxOutages, comebacks : 0..MaxComebacks,
             losses : 0..MaxLosses, aborts : 0..MaxAborts]

Indexes == 1..Len(events)
Silent(d) == \A i \in Indexes : events[i].name # d

(* What a pass knows.  The last pending event of a device carries the      *)
(* device, and a copy that is still fresh is the device.                   *)
Replay ==
  /\ \A d \in Devices : Silent(d) => cache[d] = dev[d]
  /\ \A i \in Indexes :
       (\A j \in Indexes : j > i => events[j].name # events[i].name)
         => events[i].object = dev[events[i].name]
  /\ pc # "idle" => \A d \in Devices :
       fresh[d] => Silent(d) /\ view[d] = dev[d]

(* What a pass has left to do, and what it has done.                       *)
Plan ==
  /\ pc = "push" =>
       /\ todo \subseteq Batch(view)
       /\ \A d \in Batch(view) \ todo : dev[d].desired = Target
       /\ tally.targeted + Cardinality(todo) <= Cardinality(Devices)
  /\ pc = "freeze" =>
       /\ Trips(Tally(view))
       /\ todo \subseteq {d \in Devices : ~view[d].paused}

Base == TypeOK /\ Replay /\ Plan

(* Enough devices are to blame for a breaker that saw so many targeted.    *)
Enough(who, targeted) ==
  /\ who # {}
  /\ Cardinality(who) * 100 >= FailureThresholdPercent * targeted

(* In a sound fleet agents only ever install the target, and whoever looks *)
(* failed has failed that or gone dark.                                    *)
Blame ==
  /\ \A d \in Devices :
       /\ dev[d].desired # dev[d].current => dev[d].desired = Target
       /\ job[d] # None => job[d] = Target /\ dev[d].desired = Target
       /\ deviceFailed(dev[d]) \/ deviceFailed(cache[d]) => d \in blamed
  /\ \A i \in Indexes :
       deviceFailed(events[i].object) => events[i].name \in blamed
  /\ pc = "freeze" => Enough(blamed, tally.targeted)
  /\ ro.phase = "Paused" => Enough(blamed, ro.tally.targeted)

(* How a device develops while nobody recovers: it is targeted once, and   *)
(* ends as done or as lost.  A pause lasts until somebody ends it.         *)
Later(resumes, a, b) ==
  /\ Open(b) => Open(a)
  /\ Done(a) => Done(b)
  /\ Lost(a) => Lost(b)
  /\ resumes = 0 => (a.paused => b.paused)

InOrder ==
  /\ \A d \in Devices : Later(counts.resumes, cache[d], dev[d])
  /\ pc # "idle" =>
       \A d \in Devices : Later(counts.resumes, view[d], cache[d])
  /\ \A i \in Indexes :
       /\ Later(counts.resumes, cache[events[i].name], events[i].object)
       /\ Later(counts.resumes, events[i].object, dev[events[i].name])
       /\ \A j \in Indexes : i < j /\ events[i].name = events[j].name =>
            Later(counts.resumes, events[i].object, events[j].object)

(* An open device that a pass finds frozen was not pushed behind its back. *)
Unpushed ==
  /\ \A d \in Devices :
       Open(cache[d]) /\ cache[d].paused => Open(dev[d])
  /\ \A i \in Indexes :
       Open(events[i].object) /\ events[i].object.paused =>
         Open(dev[events[i].name])
  /\ pc = "freeze" =>
       \A d \in Devices \ todo : Open(view[d]) => Open(dev[d])

(* Once the breaker has tripped nobody is pushed any more, so its rate can *)
(* only rise.                                                              *)
Stuck ==
  ro.phase = "Paused" =>
    /\ Trips(Tally(cache))
    /\ \A d \in Devices : Open(cache[d]) => Open(dev[d])
    /\ pc # "push"

(* The pushes the cache has not seen are the first it would push again; a  *)
(* pass that does not know of all of them conflicts on its first device.   *)
FirstByName ==
  counts.resumes = 0 =>
    /\ \A d, e \in Devices :
         d < e /\ Open(cache[e]) /\ ~Open(dev[e]) /\ Open(cache[d])
         /\ ~cache[d].paused => ~Open(dev[d])
    /\ pc = "push" /\ todo # {} =>
         \/ ~fresh[Min(todo)]
         \/ \A d \in Devices : Open(view[d]) /\ ~Open(dev[d]) =>
              d \in Batch(view) \ todo

Steady == InOrder /\ Unpushed /\ Stuck

-----------------------------------------------------------------------------
(* Lemmas about the fleet arithmetic.                                      *)

LEMMA MinOf ==
  ASSUME NEW S \in SUBSET Nat, S # {}
  PROVE  Min(S) \in S /\ \A y \in S : Min(S) <= y
<1> DEFINE R == {ss \in Nat \X Nat : ss[1] < ss[2]}
<1>1. IsWellFoundedOn(R, Nat)  BY NatLessThanWellFounded DEF OpToRel
<1>2. \A y, x \in S : y < x => <<y, x>> \in R  OBVIOUS
<1> HIDE DEF R
<1>3. PICK x \in S : \A y \in S : ~(<<y, x>> \in R)  BY <1>1, WFMin
<1>4. ASSUME NEW y \in S PROVE x <= y
  <2>1. x \in Nat /\ y \in Nat /\ ~(y < x)  BY <1>2, <1>3
  <2> QED  BY <2>1
<1> QED  BY <1>3, <1>4 DEF Min

LEMMA Classes ==
  ASSUME NEW devs
  PROVE  /\ Reached(devs) = {d \in Devices : Done(devs[d])}
         /\ Untargeted(devs) = {d \in Devices : Open(devs[d])}
         /\ Failed(devs) = {d \in Devices : Lost(devs[d])}
         /\ InFlight(devs) = {d \in Devices : Busy(devs[d])}
         /\ Pending(devs) =
              {d \in Devices : ~Done(devs[d]) /\ ~Open(devs[d])}
BY DEF Reached, Untargeted, Failed, InFlight, Pending, Done, Open, Lost, Busy

LEMMA Finite ==
  ASSUME NEW S \in SUBSET Devices
  PROVE  /\ IsFiniteSet(S) /\ Cardinality(S) \in Nat
         /\ Cardinality(S) <= Cardinality(Devices)
<1>1. IsFiniteSet(Devices)  BY RolloutAssumption
<1>2. IsFiniteSet(S) /\ Cardinality(S) <= Cardinality(Devices)
  BY <1>1, FS_Subset
<1> QED  BY <1>2, FS_CardinalityType

LEMMA Grows ==
  ASSUME NEW T \in SUBSET Devices, NEW S \in SUBSET T
  PROVE  Cardinality(S) <= Cardinality(T)
BY Finite, FS_Subset

(* Targeted are all that are not open.                                     *)
LEMMA TallyOf ==
  ASSUME NEW devs
  PROVE  /\ Tally(devs).targeted =
              Cardinality({d \in Devices : ~Open(devs[d])})
         /\ Tally(devs).succeeded =
              Cardinality({d \in Devices : Done(devs[d])})
         /\ Tally(devs).failed =
              Cardinality({d \in Devices : Lost(devs[d])})
         /\ Tally(devs) \in Tallies
         /\ Tally(devs).targeted \in Nat /\ Tally(devs).failed \in Nat
<1> DEFINE R == {d \in Devices : Done(devs[d])}
           P == {d \in Devices : ~Done(devs[d]) /\ ~Open(devs[d])}
           T == {d \in Devices : ~Open(devs[d])}
           L == {d \in Devices : Lost(devs[d])}
<1>1. /\ Cardinality(R) \in 0..Cardinality(Devices)
      /\ Cardinality(P) \in 0..Cardinality(Devices)
      /\ Cardinality(T) \in 0..Cardinality(Devices)
      /\ Cardinality(L) \in 0..Cardinality(Devices)
      /\ IsFiniteSet(R) /\ IsFiniteSet(P)
  <2>1. R \in SUBSET Devices /\ P \in SUBSET Devices
        /\ T \in SUBSET Devices /\ L \in SUBSET Devices
    OBVIOUS
  <2> HIDE DEF R, P, T, L
  <2>2. Cardinality(Devices) \in Nat  BY Finite
  <2> QED  BY <2>1, <2>2, Finite
<1>2. T = R \cup P /\ R \cap P = {}  BY DEF Done, Open
<1>3. Cardinality(T) = Cardinality(R) + Cardinality(P)
  <2> HIDE DEF R, P, T, L
  <2>1. Cardinality(R \cup P) =
          Cardinality(R) + Cardinality(P) - Cardinality(R \cap P)
    BY <1>1, FS_Union
  <2>2. Cardinality(R \cap P) = 0  BY <1>2, FS_EmptySet
  <2> QED  BY <1>1, <1>2, <2>1, <2>2
<1>4. Tally(devs) = [targeted |-> Cardinality(R) + Cardinality(P),
                     succeeded |-> Cardinality(R), failed |-> Cardinality(L)]
  BY Classes DEF Tally
<1> HIDE DEF R, P, T, L
<1>5. Tally(devs) \in Tallies  BY <1>1, <1>3, <1>4 DEF Tallies
<1>6. Tally(devs).targeted \in Nat /\ Tally(devs).failed \in Nat
  BY <1>1, <1>3, <1>4
<1> QED  BY <1>1, <1>3, <1>4, <1>5, <1>6 DEF R, P, T, L

(* A breaker that trips has somebody to blame.                             *)
LEMMA TripsLost ==
  ASSUME NEW devs, Trips(Tally(devs))
  PROVE  \E d \in Devices : Lost(devs[d])
<1> DEFINE L == {d \in Devices : Lost(devs[d])}
<1>1. SUFFICES ASSUME L = {} PROVE FALSE  OBVIOUS
<1>2. Cardinality(L) = 0  BY <1>1, FS_EmptySet
<1> HIDE DEF L
<1>3. /\ Tally(devs).failed = 0
      /\ Tally(devs).targeted \in Nat
  BY <1>2, TallyOf DEF L
<1> QED  BY <1>3, RolloutAssumption DEF Trips

(* With the same devices targeted, the rate rises with the failures.       *)
LEMMA TripsStill ==
  ASSUME NEW a, NEW b, Trips(Tally(a)),
         \A d \in Devices : Open(a[d]) <=> Open(b[d]),
         \A d \in Devices : Lost(a[d]) => Lost(b[d])
  PROVE  Trips(Tally(b))
<1>1. Tally(a).targeted = Tally(b).targeted
  <2>1. {d \in Devices : ~Open(a[d])} = {d \in Devices : ~Open(b[d])}
    OBVIOUS
  <2> QED  BY <2>1, TallyOf
<1>2. Tally(a).failed <= Tally(b).failed
  <2> DEFINE A == {d \in Devices : Lost(a[d])}
             B == {d \in Devices : Lost(b[d])}
  <2>1. B \in SUBSET Devices /\ A \in SUBSET B  OBVIOUS
  <2> HIDE DEF A, B
  <2>2. Cardinality(A) <= Cardinality(B)  BY <2>1, Grows
  <2> QED  BY <2>2, TallyOf DEF A, B
<1>3. /\ Tally(a).failed \in Nat /\ Tally(b).failed \in Nat
      /\ Tally(a).targeted \in Nat
  BY TallyOf
<1> QED  BY <1>1, <1>2, <1>3, RolloutAssumption DEF Trips

(* The batch: open devices nobody froze, the first of them by name, no     *)
(* more than there is capacity for.                                        *)
LEMMA BatchOf ==
  ASSUME NEW devs
  PROVE  /\ Batch(devs) \subseteq Devices
         /\ \A d \in Batch(devs) : Open(devs[d]) /\ ~devs[d].paused
         /\ \A d, e \in Devices :
              e \in Batch(devs) /\ d <= e /\ Open(devs[d]) /\ ~devs[d].paused
                => d \in Batch(devs)
         /\ Batch(devs) # {} =>
              Cardinality(Batch(devs)) + Cardinality(InFlight(devs))
                <= MaxUnavailable
<1> DEFINE S == {d \in Untargeted(devs) : ~devs[d].paused}
           Before(d) == {e \in S : e < d}
           k == Capacity(devs)
<1>1. /\ S \in SUBSET Devices
      /\ \A d \in Devices : d \in S <=> Open(devs[d]) /\ ~devs[d].paused
  BY Classes
<1>2. Batch(devs) = {d \in S : Cardinality(Before(d)) < k}
  BY DEF Batch
<1>3. /\ MaxUnavailable \in Nat /\ Cardinality(InFlight(devs)) \in Nat
      /\ k = MaxUnavailable - Cardinality(InFlight(devs))
  <2>1. InFlight(devs) \in SUBSET Devices  BY Classes
  <2>2. Cardinality(InFlight(devs)) \in Nat  BY <2>1, Finite
  <2> QED  BY <2>2, RolloutAssumption DEF Capacity
<1>4. \A d \in Devices : d \in Nat  BY RolloutAssumption
<1> HIDE DEF S, k
<1>5. ASSUME NEW d \in Devices
      PROVE  /\ Before(d) \in SUBSET S /\ Before(d) \in SUBSET Devices
             /\ IsFiniteSet(Before(d)) /\ Cardinality(Before(d)) \in Nat
  <2>1. Before(d) \in SUBSET S /\ Before(d) \in SUBSET Devices  BY <1>1
  <2> HIDE DEF Before
  <2> QED  BY <2>1, Finite
<1>6. ASSUME NEW d \in S, NEW e \in S, d < e
      PROVE  Cardinality(Before(d)) < Cardinality(Before(e))
  <2>1. Before(d) \in SUBSET Before(e) /\ d \in Before(e) /\ d \notin Before(d)
    BY <1>1, <1>4, <1>6
  <2>2. /\ IsFiniteSet(Before(e)) /\ Cardinality(Before(d)) \in Nat
        /\ Cardinality(Before(e)) \in Nat
    BY <1>1, <1>5
  <2> HIDE DEF Before
  <2>3. /\ Cardinality(Before(d)) <= Cardinality(Before(e))
        /\ Cardinality(Before(d)) # Cardinality(Before(e))
    BY <2>1, <2>2, FS_Subset
  <2> QED  BY <2>2, <2>3
<1>7. ASSUME NEW d \in Devices, NEW e \in Devices, e \in Batch(devs), d <= e,
             Open(devs[d]), ~devs[d].paused
      PROVE  d \in Batch(devs)
  <2>1. d \in S /\ e \in S /\ Cardinality(Before(e)) < k
    BY <1>1, <1>2, <1>7
  <2>2. CASE d = e  BY <2>2, <1>7
  <2>3. CASE d < e
    <3>1. Cardinality(Before(d)) < Cardinality(Before(e))
      BY <1>6, <2>1, <2>3
    <3>2. /\ Cardinality(Before(d)) \in Nat /\ Cardinality(Before(e)) \in Nat
          /\ k \in Int
      BY <1>3, <1>5
    <3> HIDE DEF Before
    <3>3. Cardinality(Before(d)) < k  BY <2>1, <3>1, <3>2
    <3> QED  BY <1>2, <2>1, <3>3
  <2> QED  BY <2>2, <2>3, <1>4, <1>7
<1>8. ASSUME Batch(devs) # {}
      PROVE  Cardinality(Batch(devs)) <= k
  <2> DEFINE B == Batch(devs)
             place == [d \in B |-> Cardinality(Before(d))]
  <2>1. \A d \in B : /\ d \in S /\ d \in Devices
                     /\ Cardinality(Before(d)) \in Nat
                     /\ Cardinality(Before(d)) < k
    BY <1>1, <1>2, <1>5
  <2>2. PICK d0 \in B : TRUE  BY <1>8
  <2>3. k \in Nat \ {0}
    <3>1. Cardinality(Before(d0)) \in Nat /\ Cardinality(Before(d0)) < k
      BY <2>1, <2>2
    <3>2. k \in Int  BY <1>3
    <3> HIDE DEF Before
    <3> QED  BY <3>1, <3>2
  <2>4. \A d \in B : Cardinality(Before(d)) \in 0..(k - 1)  BY <2>1, <2>3
  <2>5. \A d, e \in B : d # e =>
          Cardinality(Before(d)) # Cardinality(Before(e))
    <3> SUFFICES ASSUME NEW d \in B, NEW e \in B, d # e
                 PROVE  Cardinality(Before(d)) # Cardinality(Before(e))
      OBVIOUS
    <3>1. d \in S /\ e \in S /\ d \in Nat /\ e \in Nat
          /\ Cardinality(Before(d)) \in Nat /\ Cardinality(Before(e)) \in Nat
      BY <2>1, <1>4
    <3>2. CASE d < e
      <4>1. Cardinality(Before(d)) < Cardinality(Before(e))
        BY <1>6, <3>1, <3>2
      <4> HIDE DEF Before
      <4> QED  BY <3>1, <4>1
    <3>3. CASE e < d
      <4>1. Cardinality(Before(e)) < Cardinality(Before(d))
        BY <1>6, <3>1, <3>3
      <4> HIDE DEF Before
      <4> QED  BY <3>1, <4>1
    <3> QED  BY <3>1, <3>2, <3>3
  <2>6. place \in Injection(B, 0..(k - 1))
    <3> HIDE DEF Before, B
    <3> QED  BY <2>4, <2>5 DEF Injection, IsInjective
  <2>7. IsFiniteSet(0..(k - 1)) /\ Cardinality(0..(k - 1)) = k
    <3>1. Cardinality(0..(k - 1)) =
            IF 0 > k - 1 THEN 0 ELSE (k - 1) - 0 + 1
      BY <2>3, FS_Interval
    <3>2. IsFiniteSet(0..(k - 1))  BY <2>3, FS_Interval
    <3> QED  BY <2>3, <3>1, <3>2
  <2> HIDE DEF place, B
  <2>8. Cardinality(B) <= Cardinality(0..(k - 1))
    BY <2>6, <2>7, FS_Injection
  <2> QED  BY <2>7, <2>8 DEF B
<1>9. /\ Batch(devs) \subseteq Devices
      /\ \A d \in Batch(devs) : Open(devs[d]) /\ ~devs[d].paused
  BY <1>1, <1>2
<1>10. Cardinality(Batch(devs)) \in Nat  BY <1>9, Finite
<1>11. Batch(devs) # {} =>
         Cardinality(Batch(devs)) + Cardinality(InFlight(devs))
           <= MaxUnavailable
  BY <1>3, <1>8, <1>10
<1> QED  BY <1>7, <1>9, <1>11

-----------------------------------------------------------------------------
(* Writes.                                                                 *)

LEMMA EventType ==
  ASSUME TypeOK, NEW i \in Indexes
  PROVE  events[i].name \in Devices /\ events[i].object \in Objects
<1> DEFINE E == [name : Devices, object : Objects]
<1>1. events \in Seq(E)  BY DEF TypeOK
<1> HIDE DEF E
<1>2. events[i] \in E  BY <1>1 DEF Indexes
<1> QED  BY <1>2 DEF E

Wrote(d, o) == Write(d, o) /\ UNCHANGED <<cache, ro, pc, view>>

LEMMA WriteOf ==
  ASSUME TypeOK, NEW d \in Devices, NEW o \in Objects, Write(d, o)
  PROVE  /\ dev' \in [Devices -> Objects]
         /\ dev'[d] = o /\ \A e \in Devices : e # d => dev'[e] = dev[e]
         /\ fresh' \in [Devices -> BOOLEAN]
         /\ ~fresh'[d] /\ \A e \in Devices : e # d => fresh'[e] = fresh[e]
         /\ events' \in Seq([name : Devices, object : Objects])
         /\ Len(events) \in Nat /\ Len(events') = Len(events) + 1
         /\ Len(events') <= MaxLag
         /\ events'[Len(events) + 1] = [name |-> d, object |-> o]
         /\ \A i \in Indexes : i \in Indexes' /\ events'[i] = events[i]
         /\ \A i \in Indexes' : i \in Indexes \/ i = Len(events) + 1
<1> DEFINE E == [name : Devices, object : Objects]
           e0 == [name |-> d, object |-> o]
<1>1. /\ e0 \in E /\ events \in Seq(E) /\ events' = Append(events, e0)
      /\ Len(events) < MaxLag /\ MaxLag \in Nat
  BY RolloutAssumption DEF TypeOK, Write
<1> HIDE DEF E, e0
<1>2. /\ events' \in Seq(E) /\ Len(events) \in Nat
      /\ Len(events') = Len(events) + 1
      /\ events'[Len(events) + 1] = e0
      /\ \A i \in 1..Len(events) : events'[i] = events[i]
  BY <1>1
<1>3. Len(events') <= MaxLag  BY <1>1, <1>2
<1>4. /\ \A i \in Indexes : i \in Indexes' /\ events'[i] = events[i]
      /\ \A i \in Indexes' : i \in Indexes \/ i = Len(events) + 1
  BY <1>2 DEF Indexes
<1>5. /\ dev' \in [Devices -> Objects]
      /\ dev'[d] = o /\ \A e \in Devices : e # d => dev'[e] = dev[e]
      /\ fresh' \in [Devices -> BOOLEAN]
      /\ ~fresh'[d] /\ \A e \in Devices : e # d => fresh'[e] = fresh[e]
  BY DEF TypeOK, Write
<1> QED  BY <1>2, <1>3, <1>4, <1>5 DEF E, e0

LEMMA WroteReplay ==
  ASSUME TypeOK, Replay, NEW d \in Devices, NEW o \in Objects, Wrote(d, o)
  PROVE  Replay'
<1> DEFINE n == Len(events) + 1
<1>1. /\ dev'[d] = o /\ \A e \in Devices : e # d => dev'[e] = dev[e]
      /\ ~fresh'[d] /\ \A e \in Devices : e # d => fresh'[e] = fresh[e]
      /\ n \in Indexes' /\ events'[n] = [name |-> d, object |-> o]
      /\ \A i \in Indexes : i \in Indexes' /\ events'[i] = events[i] /\ i < n
      /\ \A i \in Indexes' : i \in Indexes \/ i = n
      /\ cache' = cache /\ view' = view /\ pc' = pc
  <2>1. Write(d, o) /\ cache' = cache /\ view' = view /\ pc' = pc
    BY DEF Wrote
  <2>2. Len(events) \in Nat /\ Len(events') = Len(events) + 1
    BY <2>1, WriteOf
  <2> QED  BY <2>1, <2>2, WriteOf DEF Indexes
<1> HIDE DEF n
<1>2. \A i \in Indexes : events[i].name \in Devices  BY EventType
<1>3. ASSUME NEW e \in Devices, Silent(e)' PROVE e # d /\ Silent(e)
  BY <1>1, <1>3 DEF Silent
<1>4. \A e \in Devices : Silent(e)' => cache'[e] = dev'[e]
  BY <1>1, <1>3 DEF Replay
<1>5. ASSUME NEW i \in Indexes',
             \A j \in Indexes' : j > i => events'[j].name # events'[i].name
      PROVE  events'[i].object = dev'[events'[i].name]
  <2>1. CASE i = n  BY <2>1, <1>1
  <2>2. CASE i \in Indexes
    <3>1. events[i].name # d  BY <1>1, <1>5, <2>2
    <3>2. \A j \in Indexes : j > i => events[j].name # events[i].name
      BY <1>1, <1>5, <2>2
    <3>3. events[i].object = dev[events[i].name]
      BY <2>2, <3>2 DEF Replay
    <3> QED  BY <1>1, <1>2, <2>2, <3>1, <3>3
  <2> QED  BY <1>1, <2>1, <2>2
<1>6. ASSUME pc' # "idle", NEW e \in Devices, fresh'[e]
      PROVE  Silent(e)' /\ view'[e] = dev'[e]
  <2>1. e # d /\ fresh[e] /\ pc # "idle"  BY <1>1, <1>6
  <2>2. Silent(e) /\ view[e] = dev[e]  BY <2>1 DEF Replay
  <2>3. Silent(e)'  BY <1>1, <2>1, <2>2 DEF Silent
  <2> QED  BY <1>1, <2>1, <2>2, <2>3
<1> QED  BY <1>4, <1>5, <1>6 DEF Replay

(* The cache takes the oldest event; what it then lacks is the rest.       *)
LEMMA CatchUpOf ==
  ASSUME TypeOK, CacheCatchesUp
  PROVE  /\ 1 \in Indexes /\ events[1].name \in Devices
         /\ events[1].object \in Objects
         /\ cache' \in [Devices -> Objects]
         /\ cache'[events[1].name] = events[1].object
         /\ \A d \in Devices : d # events[1].name => cache'[d] = cache[d]
         /\ events' \in Seq([name : Devices, object : Objects])
         /\ Len(events') <= MaxLag
         /\ \A i \in Indexes' : i + 1 \in Indexes /\ i + 1 > 1
                                /\ events'[i] = events[i + 1]
         /\ \A i \in Indexes : i = 1 \/ i - 1 \in Indexes'
<1> DEFINE E == [name : Devices, object : Objects]
<1>1. events \in Seq(E) /\ events # << >> /\ events' = Tail(events)
      /\ Len(events) <= MaxLag /\ MaxLag \in Nat
  BY RolloutAssumption DEF TypeOK, CacheCatchesUp
<1> HIDE DEF E
<1>2. /\ Len(events) \in Nat \ {0} /\ Head(events) = events[1]
      /\ events' \in Seq(E) /\ Len(events') = Len(events) - 1
      /\ \A i \in 1..(Len(events) - 1) : events'[i] = events[i + 1]
      /\ events[1] \in E
  BY <1>1
<1>3. Len(events') <= MaxLag  BY <1>1, <1>2
<1>4. /\ 1 \in Indexes
      /\ \A i \in Indexes' : i + 1 \in Indexes /\ i + 1 > 1
                             /\ events'[i] = events[i + 1]
      /\ \A i \in Indexes : i = 1 \/ i - 1 \in Indexes'
  BY <1>2 DEF Indexes
<1>5. cache' = [cache EXCEPT ![events[1].name] = events[1].object]
  BY <1>2 DEF CacheCatchesUp
<1>6. events[1].name \in Devices /\ events[1].object \in Objects
  BY <1>2 DEF E
<1>7. /\ cache' \in [Devices -> Objects]
      /\ cache'[events[1].name] = events[1].object
      /\ \A d \in Devices : d # events[1].name => cache'[d] = cache[d]
  BY <1>5, <1>6 DEF TypeOK
<1> QED  BY <1>2, <1>3, <1>4, <1>6, <1>7 DEF E

LEMMA CatchUpReplay ==
  ASSUME TypeOK, Replay, CacheCatchesUp
  PROVE  Replay'
<1> DEFINE d0 == events[1].name
<1>1. /\ 1 \in Indexes /\ d0 \in Devices
      /\ cache'[d0] = events[1].object
      /\ \A d \in Devices : d # d0 => cache'[d] = cache[d]
      /\ \A i \in Indexes' : i + 1 \in Indexes /\ i + 1 > 1
                             /\ events'[i] = events[i + 1]
      /\ \A i \in Indexes : i = 1 \/ i - 1 \in Indexes'
  BY CatchUpOf
<1>2. dev' = dev /\ pc' = pc /\ view' = view /\ fresh' = fresh
  BY DEF CacheCatchesUp, pass
<1>3. Indexes \in SUBSET Nat /\ Indexes' \in SUBSET Nat
  BY DEF Indexes
<1> HIDE DEF d0
<1>4. ASSUME NEW i \in Indexes, i # 1
      PROVE  i - 1 \in Indexes' /\ events'[i - 1] = events[i]
  <2>1. i - 1 \in Indexes'  BY <1>1, <1>4
  <2>2. events'[i - 1] = events[(i - 1) + 1]  BY <1>1, <2>1
  <2>3. (i - 1) + 1 = i  BY <1>3
  <2> QED  BY <2>1, <2>2, <2>3
<1>5. ASSUME NEW d \in Devices, Silent(d)'
      PROVE  cache'[d] = dev'[d]
  <2>1. \A i \in Indexes : i # 1 => events[i].name # d
    BY <1>4, <1>5 DEF Silent
  <2>2. CASE d = d0
    <3>1. \A j \in Indexes : j > 1 => events[j].name # events[1].name
      BY <2>1, <2>2 DEF d0
    <3>2. events[1].object = dev[d0]  BY <1>1, <3>1 DEF Replay, d0
    <3> QED  BY <1>1, <1>2, <2>2, <3>2
  <2>3. CASE d # d0
    <3>1. Silent(d)  BY <2>1, <2>3 DEF Silent, d0
    <3> QED  BY <1>1, <1>2, <2>3, <3>1 DEF Replay
  <2> QED  BY <2>2, <2>3
<1>6. ASSUME NEW i \in Indexes',
             \A j \in Indexes' : j > i => events'[j].name # events'[i].name
      PROVE  events'[i].object = dev'[events'[i].name]
  <2>1. i + 1 \in Indexes /\ events'[i] = events[i + 1]  BY <1>1
  <2>2. ASSUME NEW j \in Indexes, j > i + 1
        PROVE  events[j].name # events[i + 1].name
    <3>1. j # 1 /\ j - 1 > i  BY <1>3, <2>2
    <3>2. j - 1 \in Indexes' /\ events'[j - 1] = events[j]
      BY <1>4, <3>1
    <3> QED  BY <1>6, <2>1, <3>1, <3>2
  <2>3. events[i + 1].object = dev[events[i + 1].name]
    BY <2>1, <2>2 DEF Replay
  <2> QED  BY <1>2, <2>1, <2>3
<1>7. ASSUME pc' # "idle", NEW d \in Devices, fresh'[d]
      PROVE  Silent(d)' /\ view'[d] = dev'[d]
  <2>1. Silent(d) /\ view[d] = dev[d]  BY <1>2, <1>7 DEF Replay
  <2>2. Silent(d)'  BY <1>1, <2>1 DEF Silent
  <2> QED  BY <1>2, <2>1, <2>2
<1> QED  BY <1>5, <1>6, <1>7 DEF Replay

-----------------------------------------------------------------------------
(* The steps of a pass.                                                    *)

LEMMA ListOf ==
  ASSUME TypeOK, Replay, List
  PROVE  /\ view' = cache /\ pc' \in {"freeze", "push"}
         /\ pc' = "freeze" => /\ Trips(Tally(cache))
                              /\ todo' = {d \in Devices : ~cache[d].paused}
         /\ pc' = "push" => /\ ~Trips(Tally(cache))
                            /\ todo' = Batch(cache)
         /\ tally' = Tally(cache)
         /\ fresh' \in [Devices -> BOOLEAN]
         /\ \A d \in Devices : fresh'[d] <=> Silent(d)
         /\ UNCHANGED <<dev, events, cache, ro, agents, history, counts>>
<1>1. /\ view' = cache /\ tally' = Tally(cache)
      /\ UNCHANGED <<dev, events, cache, ro, agents, history, counts>>
      /\ fresh' = [d \in Devices |-> Silent(d)]
  BY DEF List, Silent, Indexes
<1>2. \/ /\ pc' = "freeze" /\ Trips(Tally(cache))
         /\ todo' = {d \in Devices : ~cache[d].paused}
      \/ /\ pc' = "push" /\ ~Trips(Tally(cache)) /\ todo' = Batch(cache)
  BY DEF List
<1>3. \A d \in Devices : Silent(d) \in BOOLEAN  BY DEF Silent
<1> HIDE DEF Silent
<1>4. fresh' \in [Devices -> BOOLEAN]
      /\ \A d \in Devices : fresh'[d] <=> Silent(d)
  BY <1>1, <1>3
<1> QED  BY <1>1, <1>2, <1>4

LEMMA Next1 ==
  ASSUME TypeOK, todo # {}
  PROVE  /\ Min(todo) \in todo /\ Min(todo) \in Devices
         /\ \A d \in todo : Min(todo) <= d
<1>1. todo \in SUBSET Nat /\ todo \in SUBSET Devices
  BY RolloutAssumption DEF TypeOK
<1>2. Min(todo) \in todo /\ \A d \in todo : Min(todo) <= d
  BY <1>1, MinOf
<1> QED  BY <1>1, <1>2

LEMMA PushOf ==
  ASSUME Base, Push
  PROVE  \E d \in todo :
           /\ d \in Devices /\ d = Min(todo) /\ \A e \in todo : d <= e
           /\ pc = "push" /\ d \in Batch(view)
           /\ fresh[d] /\ Silent(d) /\ view[d] = dev[d] /\ cache[d] = dev[d]
           /\ Open(dev[d]) /\ ~dev[d].paused
           /\ [dev[d] EXCEPT !.desired = Target] \in Objects
           /\ Wrote(d, [dev[d] EXCEPT !.desired = Target])
           /\ todo' = todo \ {d}
           /\ tally' = [tally EXCEPT !.targeted = @ + 1]
           /\ UNCHANGED <<agents, history, counts>>
<1> USE DEF Base
<1> DEFINE d == Min(todo)
<1>1. pc = "push" /\ todo # {} /\ fresh[d]  BY DEF Push, Accepts
<1>2. d \in todo /\ d \in Devices /\ \A e \in todo : d <= e
  BY <1>1, Next1
<1>3. /\ Write(d, [view[d] EXCEPT !.desired = Target])
      /\ todo' = todo \ {d}
      /\ tally' = [tally EXCEPT !.targeted = @ + 1]
      /\ UNCHANGED <<cache, ro, pc, view, agents, history, counts>>
  BY DEF Push
<1> HIDE DEF d
<1>4. Silent(d) /\ view[d] = dev[d] /\ cache[d] = dev[d]
  BY <1>1, <1>2 DEF Replay
<1>5. d \in Batch(view)  BY <1>1, <1>2 DEF Plan
<1>6. Open(dev[d]) /\ ~dev[d].paused  BY <1>4, <1>5, BatchOf
<1>7. [dev[d] EXCEPT !.desired = Target] \in Objects
  <2>1. dev[d] \in Objects  BY <1>2 DEF TypeOK
  <2>2. Target \in Versions  BY DEF Versions
  <2> QED  BY <2>1, <2>2 DEF Objects
<1>8. Wrote(d, [dev[d] EXCEPT !.desired = Target])
  BY <1>3, <1>4 DEF Wrote
<1> QED  BY <1>1, <1>2, <1>3, <1>4, <1>5, <1>6, <1>7, <1>8 DEF d

LEMMA FreezeOf ==
  ASSUME Base, Freeze
  PROVE  \E d \in todo :
           /\ d \in Devices /\ pc = "freeze"
           /\ fresh[d] /\ view[d] = dev[d] /\ cache[d] = dev[d]
           /\ [dev[d] EXCEPT !.paused = TRUE] \in Objects
           /\ Wrote(d, [dev[d] EXCEPT !.paused = TRUE])
           /\ todo' = todo \ {d}
           /\ UNCHANGED <<tally, agents, history, counts>>
<1> USE DEF Base
<1> DEFINE d == Min(todo)
<1>1. pc = "freeze" /\ todo # {} /\ fresh[d]  BY DEF Freeze, Accepts
<1>2. d \in todo /\ d \in Devices  BY <1>1, Next1
<1>3. /\ Write(d, [view[d] EXCEPT !.paused = TRUE])
      /\ todo' = todo \ {d}
      /\ UNCHANGED <<cache, ro, pc, view, tally, agents, history, counts>>
  BY DEF Freeze
<1> HIDE DEF d
<1>4. Silent(d) /\ view[d] = dev[d] /\ cache[d] = dev[d]
  BY <1>1, <1>2 DEF Replay
<1>5. [dev[d] EXCEPT !.paused = TRUE] \in Objects
  <2>1. dev[d] \in Objects  BY <1>2 DEF TypeOK
  <2> QED  BY <2>1 DEF Objects
<1>6. Wrote(d, [dev[d] EXCEPT !.paused = TRUE])
  BY <1>3, <1>4 DEF Wrote
<1> QED  BY <1>1, <1>2, <1>3, <1>4, <1>5, <1>6

(* What the rest of the world writes of a device leaves its Spec's target  *)
(* and the pass alone.                                                     *)
Outside(d) ==
  \/ Announce(d) \/ Succeed(d) \/ Fail(d) \/ GoDark(d)
  \/ ComeBack(d) /\ Report(d, [dev[d] EXCEPT !.dark = FALSE])
       /\ UNCHANGED agents
  \/ \E paused \in BOOLEAN : SetPaused(d, paused)

LEMMA OutsideOf ==
  ASSUME TypeOK, NEW d \in Devices, Outside(d)
  PROVE  \E o \in Objects :
           /\ Wrote(d, o) /\ o.desired = dev[d].desired
           /\ UNCHANGED <<todo, tally>>
<1>1. dev[d] \in Objects /\ job[d] \in Versions \cup {None}
  BY DEF TypeOK
<1>2. CASE Announce(d)
  <2> DEFINE o == [dev[d] EXCEPT !.synced = "UpgradeInProgress"]
  <2>1. o \in Objects /\ o.desired = dev[d].desired  BY <1>1 DEF Objects
  <2>2. Wrote(d, o) /\ UNCHANGED <<todo, tally>>
    BY <1>2 DEF Announce, Report, Wrote, pass
  <2> QED  BY <2>1, <2>2
<1>3. CASE Succeed(d)
  <2> DEFINE o == [dev[d] EXCEPT !.synced = "True", !.current = job[d]]
  <2>1. job[d] \in Versions  BY <1>1, <1>3 DEF Succeed
  <2>2. o \in Objects /\ o.desired = dev[d].desired
    BY <1>1, <2>1 DEF Objects
  <2>3. Wrote(d, o) /\ UNCHANGED <<todo, tally>>
    BY <1>3 DEF Succeed, Report, Wrote, pass
  <2> QED  BY <2>2, <2>3
<1>4. CASE Fail(d)
  <2> DEFINE o == [dev[d] EXCEPT !.synced = "Failed"]
  <2>1. o \in Objects /\ o.desired = dev[d].desired  BY <1>1 DEF Objects
  <2>2. Wrote(d, o) /\ UNCHANGED <<todo, tally>>
    BY <1>4 DEF Fail, Report, Wrote, pass
  <2> QED  BY <2>1, <2>2
<1>5. CASE GoDark(d)
  <2> DEFINE o == [dev[d] EXCEPT !.dark = TRUE]
  <2>1. o \in Objects /\ o.desired = dev[d].desired  BY <1>1 DEF Objects
  <2>2. Wrote(d, o) /\ UNCHANGED <<todo, tally>>
    BY <1>5 DEF GoDark, Report, Wrote, pass
  <2> QED  BY <2>1, <2>2
<1>6. CASE ComeBack(d) /\ Report(d, [dev[d] EXCEPT !.dark = FALSE])
  <2> DEFINE o == [dev[d] EXCEPT !.dark = FALSE]
  <2>1. o \in Objects /\ o.desired = dev[d].desired  BY <1>1 DEF Objects
  <2>2. Wrote(d, o) /\ UNCHANGED <<todo, tally>>
    BY <1>6 DEF ComeBack, Report, Wrote, pass
  <2> QED  BY <2>1, <2>2
<1>7. CASE \E paused \in BOOLEAN : SetPaused(d, paused)
  <2>1. PICK paused \in BOOLEAN : SetPaused(d, paused)  BY <1>7
  <2> DEFINE o == [dev[d] EXCEPT !.paused = paused]
  <2>2. o \in Objects /\ o.desired = dev[d].desired  BY <1>1 DEF Objects
  <2>3. Wrote(d, o) /\ UNCHANGED <<todo, tally>>
    BY <2>1 DEF SetPaused, Wrote, pass
  <2> QED  BY <2>2, <2>3
<1> QED  BY <1>2, <1>3, <1>4, <1>5, <1>6, <1>7 DEF Outside

(* An agent is restarted and forgets what it failed, or nobody hears that  *)
(* it started or failed.                                                   *)
Unheard(d) ==
  \/ LoseReport(d)
  \/ /\ ComeBack(d)
     /\ tried' = [tried EXCEPT ![d] = None]
     /\ UNCHANGED <<dev, events, fresh, job, recovered>>

LEMMA UnheardOf ==
  ASSUME TypeOK, NEW d \in Devices, Unheard(d)
  PROVE  /\ UNCHANGED <<dev, events, cache, ro, pass, fresh, history>>
         /\ job' \in [Devices -> Versions \cup {None}]
         /\ tried' \in [Devices -> Versions \cup {None}]
         /\ counts' \in Counters /\ counts'.resumes = counts.resumes
         /\ \A e \in Devices : e # d => job'[e] = job[e]
         /\ job'[d] # None /\ job'[d] # job[d] =>
              job'[d] = dev[d].desired /\ dev[d].desired # dev[d].current
<1>0. /\ job \in [Devices -> Versions \cup {None}]
      /\ tried \in [Devices -> Versions \cup {None}]
      /\ counts \in Counters /\ dev[d].desired \in Versions
      /\ MaxComebacks \in Nat /\ MaxLosses \in Nat
  BY RolloutAssumption DEF TypeOK, Counters, Objects
<1>1. CASE LoseReport(d)
  <2>1. /\ counts.losses < MaxLosses
        /\ counts' = [counts EXCEPT !.losses = @ + 1]
        /\ StartsUpgrade(d) \/ FailsUpgrade(d)
        /\ UNCHANGED <<dev, events, cache, ro, pass, fresh, history>>
    BY <1>1 DEF LoseReport
  <2>2. counts' \in Counters /\ counts'.resumes = counts.resumes
    BY <1>0, <2>1 DEF Counters
  <2>3. CASE StartsUpgrade(d)
    <3>1. /\ job' = [job EXCEPT ![d] = dev[d].desired] /\ tried' = tried
          /\ dev[d].desired # dev[d].current
      BY <2>3 DEF StartsUpgrade
    <3> QED  BY <1>0, <2>1, <2>2, <3>1
  <2>4. CASE FailsUpgrade(d)
    <3>1. /\ job' = [job EXCEPT ![d] = None]
          /\ tried' = [tried EXCEPT ![d] = job[d]]
      BY <2>4 DEF FailsUpgrade
    <3> QED  BY <1>0, <2>1, <2>2, <3>1
  <2> QED  BY <2>1, <2>3, <2>4
<1>2. CASE /\ ComeBack(d)
           /\ tried' = [tried EXCEPT ![d] = None]
           /\ UNCHANGED <<dev, events, fresh, job, recovered>>
  <2>1. /\ counts.comebacks < MaxComebacks
        /\ counts' = [counts EXCEPT !.comebacks = @ + 1]
        /\ UNCHANGED <<cache, ro, pass, resumed, blamed>>
    BY <1>2 DEF ComeBack
  <2>2. counts' \in Counters /\ counts'.resumes = counts.resumes
    BY <1>0, <2>1 DEF Counters
  <2> QED  BY <1>0, <1>2, <2>1, <2>2 DEF history
<1> QED  BY <1>1, <1>2 DEF Unheard

LEMMA Steps ==
  ASSUME Next
  PROVE  \/ List \/ Push \/ Freeze \/ Conflict \/ WriteStatus \/ Abort
         \/ CacheCatchesUp
         \/ \E d \in Devices : Outside(d) \/ Unheard(d)
<1>1. ASSUME NEW d \in Devices, ComeBack(d)
      PROVE  Outside(d) \/ Unheard(d)
  BY <1>1 DEF ComeBack, Outside, Unheard
<1> QED  BY <1>1 DEF Next, Reconcile, Outside, Unheard

-----------------------------------------------------------------------------
(* Base is inductive, whatever the fleet.                                  *)

LEMMA BaseInit == Init => Base
<1> SUFFICES ASSUME Init PROVE Base  OBVIOUS
<1>1. dev \in [Devices -> Objects]  BY ObjectsAssumption DEF Init
<1>2. events \in Seq([name : Devices, object : Objects]) /\ Len(events) = 0
  <2> DEFINE E == [name : Devices, object : Objects]
  <2>1. events = << >>  BY DEF Init
  <2> HIDE DEF E
  <2>2. events \in Seq(E) /\ Len(events) = 0  BY <2>1
  <2> QED  BY <2>2 DEF E
<1>3. Cardinality(Devices) \in Nat  BY Finite
<1>4. ro.tally \in Tallies /\ ro.phase = ""
      /\ ro \in [phase : {"", "Progressing", "Paused", "Complete"},
                 tally : Tallies]
  <2>1. /\ ro = [phase |-> "", tally |-> [targeted |-> 0, succeeded |-> 0,
                                         failed |-> 0]]
    BY DEF Init
  <2>2. 0 \in 0..Cardinality(Devices)  BY <1>3
  <2>3. [targeted |-> 0, succeeded |-> 0, failed |-> 0] \in Tallies
    BY <2>2 DEF Tallies
  <2> QED  BY <2>1, <2>3
<1>5. tried \in [Devices -> Versions \cup {None}]
  <2>1. \A d \in Devices : dev[d].desired \in Versions
    BY <1>1 DEF Objects
  <2> QED  BY <2>1 DEF Init
<1>6. counts \in Counters
  <2>1. /\ MaxHuman \in Nat /\ MaxOutages \in Nat /\ MaxComebacks \in Nat
        /\ MaxLosses \in Nat /\ MaxAborts \in Nat
    BY RolloutAssumption
  <2>2. /\ 0 \in 0..MaxHuman /\ 0 \in 0..MaxOutages /\ 0 \in 0..MaxLosses
        /\ 0 \in 0..MaxComebacks /\ 0 \in 0..MaxAborts
    BY <2>1
  <2>3. counts = [pauses |-> 0, resumes |-> 0, outages |-> 0,
                  comebacks |-> 0, losses |-> 0, aborts |-> 0]
    BY DEF Init
  <2> QED  BY <2>2, <2>3 DEF Counters
<1>7. MaxLag \in Nat  BY RolloutAssumption
<1>8. TypeOK
  <2>1. /\ cache = dev /\ view = dev /\ pc = "idle" /\ todo = {}
        /\ fresh \in [Devices -> BOOLEAN] /\ tally = ro.tally
        /\ job \in [Devices -> Versions \cup {None}]
        /\ resumed = FALSE /\ blamed = {} /\ recovered = FALSE
    BY DEF Init
  <2>2. Len(events) <= MaxLag  BY <1>2, <1>7
  <2> QED  BY <1>1, <1>2, <1>4, <1>5, <1>6, <2>1, <2>2 DEF TypeOK, Counters
<1>9. Replay
  <2>1. Indexes = {}  BY <1>2 DEF Indexes
  <2> QED  BY <2>1 DEF Init, Replay
<1>10. Plan  BY DEF Init, Plan
<1> QED  BY <1>8, <1>9, <1>10 DEF Base

LEMMA TypeStep == Base /\ [Next]_vars => TypeOK'
<1> SUFFICES ASSUME Base, [Next]_vars PROVE TypeOK'  OBVIOUS
<1>0. TypeOK /\ Replay /\ Plan  BY DEF Base
<1>1. CASE List
  <2>1. {d \in Devices : ~cache[d].paused} \subseteq Devices
        /\ Batch(cache) \subseteq Devices /\ Tally(cache) \in Tallies
    BY BatchOf, TallyOf
  <2>2. /\ view' = cache /\ pc' \in {"freeze", "push"} /\ todo' \subseteq Devices
        /\ tally' \in Tallies /\ fresh' \in [Devices -> BOOLEAN]
        /\ UNCHANGED <<dev, events, cache, ro, agents, history, counts>>
    BY <1>0, <1>1, <2>1, ListOf
  <2> QED  BY <1>0, <2>2 DEF TypeOK, agents, history
<1>2. CASE Push
  <2>1. PICK d \in todo :
          /\ d \in Devices /\ pc = "push"
          /\ [dev[d] EXCEPT !.desired = Target] \in Objects
          /\ Wrote(d, [dev[d] EXCEPT !.desired = Target])
          /\ todo' = todo \ {d}
          /\ tally' = [tally EXCEPT !.targeted = @ + 1]
          /\ UNCHANGED <<agents, history, counts>>
    BY <1>2, PushOf
  <2>2. tally' \in Tallies
    <3>1. /\ tally.targeted + Cardinality(todo) <= Cardinality(Devices)
          /\ todo \in SUBSET Devices /\ tally \in Tallies
      BY <1>0, <2>1 DEF Plan, TypeOK
    <3>2. Cardinality(todo) \in Nat /\ Cardinality(todo) # 0
          /\ Cardinality(Devices) \in Nat
      BY <2>1, <3>1, Finite, FS_EmptySet
    <3>3. /\ tally.targeted \in 0..Cardinality(Devices)
          /\ tally.targeted + 1 \in 0..Cardinality(Devices)
      <4>1. tally.targeted \in 0..Cardinality(Devices)
        BY <3>1 DEF Tallies
      <4> QED  BY <3>1, <3>2, <4>1
    <3> QED  BY <2>1, <3>1, <3>3 DEF Tallies
  <2>3. Write(d, [dev[d] EXCEPT !.desired = Target])
        /\ UNCHANGED <<cache, ro, pc, view>>
    BY <2>1 DEF Wrote
  <2> DEFINE o == [dev[d] EXCEPT !.desired = Target]
  <2>4. o \in Objects /\ Write(d, o)  BY <2>1, <2>3
  <2> HIDE DEF o
  <2>5. /\ dev' \in [Devices -> Objects] /\ fresh' \in [Devices -> BOOLEAN]
        /\ events' \in Seq([name : Devices, object : Objects])
        /\ Len(events') <= MaxLag
    BY <1>0, <2>1, <2>4, WriteOf
  <2> QED  BY <1>0, <2>1, <2>2, <2>3, <2>5 DEF TypeOK, agents, history
<1>3. CASE Freeze
  <2>1. PICK d \in todo :
          /\ d \in Devices
          /\ [dev[d] EXCEPT !.paused = TRUE] \in Objects
          /\ Wrote(d, [dev[d] EXCEPT !.paused = TRUE])
          /\ todo' = todo \ {d}
          /\ UNCHANGED <<tally, agents, history, counts>>
    BY <1>3, FreezeOf
  <2> DEFINE o == [dev[d] EXCEPT !.paused = TRUE]
  <2>2. o \in Objects /\ Write(d, o) /\ UNCHANGED <<cache, ro, pc, view>>
    BY <2>1 DEF Wrote
  <2> HIDE DEF o
  <2>3. /\ dev' \in [Devices -> Objects] /\ fresh' \in [Devices -> BOOLEAN]
        /\ events' \in Seq([name : Devices, object : Objects])
        /\ Len(events') <= MaxLag
    BY <1>0, <2>1, <2>2, WriteOf
  <2> QED  BY <1>0, <2>1, <2>2, <2>3 DEF TypeOK, agents, history
<1>4. CASE Conflict
  BY <1>0, <1>4 DEF Conflict, EndPass, TypeOK, agents, history
<1>5. CASE WriteStatus
  <2>1. /\ ro' = [phase |-> Phase, tally |-> tally] /\ resumed' \in BOOLEAN
        /\ pc' = "idle" /\ todo' = {} /\ UNCHANGED <<view, tally>>
        /\ UNCHANGED <<dev, events, cache, fresh, agents, blamed, recovered,
                       counts>>
    BY <1>5 DEF WriteStatus, EndPass
  <2>2. Phase \in {"", "Progressing", "Paused", "Complete"}  BY DEF Phase
  <2> QED  BY <1>0, <2>1, <2>2 DEF TypeOK, agents
<1>6. CASE Abort
  <2>1. /\ counts.aborts < MaxAborts /\ MaxAborts \in Nat
        /\ counts' = [counts EXCEPT !.aborts = @ + 1]
        /\ pc' = "idle" /\ todo' = {} /\ UNCHANGED <<view, tally>>
        /\ UNCHANGED <<dev, events, cache, ro, fresh, agents, history>>
    BY <1>6, RolloutAssumption DEF Abort, EndPass
  <2>2. counts' \in Counters
    <3>1. counts \in Counters  BY <1>0 DEF TypeOK, Counters
    <3> QED  BY <2>1, <3>1 DEF Counters
  <2> QED  BY <1>0, <2>1, <2>2 DEF TypeOK, agents, history, Counters
<1>7. CASE CacheCatchesUp
  <2>1. /\ cache' \in [Devices -> Objects]
        /\ events' \in Seq([name : Devices, object : Objects])
        /\ Len(events') <= MaxLag
    BY <1>0, <1>7, CatchUpOf
  <2>2. UNCHANGED <<dev, ro, pass, fresh, agents, history, counts>>
    BY <1>7 DEF CacheCatchesUp
  <2> QED  BY <1>0, <2>1, <2>2 DEF TypeOK, pass, agents, history
<1>8. ASSUME NEW d \in Devices, Outside(d) PROVE TypeOK'
  <2>1. PICK o \in Objects : Wrote(d, o) /\ UNCHANGED <<todo, tally>>
    BY <1>0, <1>8, OutsideOf
  <2>2. Write(d, o) /\ UNCHANGED <<cache, ro, pc, view, todo, tally>>
    BY <2>1 DEF Wrote
  <2>3. /\ dev' \in [Devices -> Objects] /\ fresh' \in [Devices -> BOOLEAN]
        /\ events' \in Seq([name : Devices, object : Objects])
        /\ Len(events') <= MaxLag
    BY <1>0, <2>2, WriteOf
  <2>4. /\ job' \in [Devices -> Versions \cup {None}]
        /\ tried' \in [Devices -> Versions \cup {None}]
    <3>1. dev[d].desired \in Versions  BY <1>0 DEF TypeOK, Objects
    <3> QED
      BY <1>0, <1>8, <3>1
      DEF TypeOK, Outside, Announce, Succeed, Fail, GoDark, ComeBack,
          StartsUpgrade, FailsUpgrade, SetPaused, agents
  <2>5. resumed' \in BOOLEAN /\ blamed' \subseteq Devices
    BY <1>0, <1>8
    DEF TypeOK, Outside, Announce, Succeed, Fail, GoDark, ComeBack, SetPaused
  <2>6. recovered' \in BOOLEAN
    BY <1>0, <1>8
    DEF TypeOK, Outside, Announce, Succeed, Fail, GoDark, SetPaused, Report
  <2>7. counts' \in Counters
    <3>1. /\ MaxHuman \in Nat /\ MaxOutages \in Nat /\ MaxComebacks \in Nat
      BY RolloutAssumption
    <3>2. counts \in Counters  BY <1>0 DEF TypeOK, Counters
    <3>3. CASE UNCHANGED counts  BY <3>2, <3>3
    <3>4. CASE GoDark(d)  BY <3>1, <3>2, <3>4 DEF GoDark, Counters
    <3>5. CASE ComeBack(d)  BY <3>1, <3>2, <3>5 DEF ComeBack, Counters
    <3>6. CASE \E paused \in BOOLEAN : SetPaused(d, paused)
      BY <3>1, <3>2, <3>6 DEF SetPaused, Counters
    <3> QED
      BY <1>8, <3>3, <3>4, <3>5, <3>6 DEF Outside, Announce, Succeed, Fail
  <2> QED
    BY <1>0, <2>2, <2>3, <2>4, <2>5, <2>6, <2>7 DEF TypeOK, Counters
<1>9. ASSUME NEW d \in Devices, Unheard(d) PROVE TypeOK'
  BY <1>0, <1>9, UnheardOf DEF TypeOK, pass, history, Counters
<1>10. CASE UNCHANGED vars
  BY <1>0, <1>10 DEF TypeOK, vars, pass, agents, history
<1> QED
  BY <1>1, <1>2, <1>3, <1>4, <1>5, <1>6, <1>7, <1>8, <1>9, <1>10, Steps

LEMMA ReplayStep == Base /\ [Next]_vars => Replay'
<1> SUFFICES ASSUME Base, [Next]_vars PROVE Replay'  OBVIOUS
<1>0. TypeOK /\ Replay  BY DEF Base
<1>1. CASE List
  <2>1. /\ view' = cache /\ \A d \in Devices : fresh'[d] <=> Silent(d)
        /\ UNCHANGED <<dev, events, cache>>
    BY <1>0, <1>1, ListOf
  <2> QED  BY <1>0, <2>1 DEF Replay, Silent, Indexes
<1>2. CASE Push
  <2>1. PICK d \in todo :
          /\ d \in Devices /\ [dev[d] EXCEPT !.desired = Target] \in Objects
          /\ Wrote(d, [dev[d] EXCEPT !.desired = Target])
    BY <1>2, PushOf
  <2> QED  BY <1>0, <2>1, WroteReplay
<1>3. CASE Freeze
  <2>1. PICK d \in todo :
          /\ d \in Devices /\ [dev[d] EXCEPT !.paused = TRUE] \in Objects
          /\ Wrote(d, [dev[d] EXCEPT !.paused = TRUE])
    BY <1>3, FreezeOf
  <2> QED  BY <1>0, <2>1, WroteReplay
<1>4. CASE Conflict \/ WriteStatus \/ Abort
  <2>1. pc' = "idle" /\ UNCHANGED <<dev, events, cache>>
    BY <1>4 DEF Conflict, WriteStatus, Abort, EndPass
  <2> QED  BY <1>0, <2>1 DEF Replay, Silent, Indexes
<1>5. CASE CacheCatchesUp  BY <1>0, <1>5, CatchUpReplay
<1>6. ASSUME NEW d \in Devices, Outside(d) PROVE Replay'
  BY <1>0, <1>6, OutsideOf, WroteReplay
<1>7. ASSUME NEW d \in Devices, Unheard(d) PROVE Replay'
  <2>1. UNCHANGED <<dev, events, fresh, cache, pc, view>>
    BY <1>0, <1>7, UnheardOf DEF pass
  <2> QED  BY <1>0, <2>1 DEF Replay, Silent, Indexes
<1>8. CASE UNCHANGED vars
  BY <1>0, <1>8 DEF Replay, Silent, Indexes, vars, pass
<1> QED
  BY <1>1, <1>2, <1>3, <1>4, <1>5, <1>6, <1>7, <1>8, Steps

LEMMA PlanStep == Base /\ [Next]_vars => Plan'
<1> SUFFICES ASSUME Base, [Next]_vars PROVE Plan'  OBVIOUS
<1>0. TypeOK /\ Replay /\ Plan  BY DEF Base
<1>1. CASE List
  <2>1. /\ view' = cache /\ tally' = Tally(cache)
        /\ pc' = "freeze" => /\ Trips(Tally(cache))
                             /\ todo' = {d \in Devices : ~cache[d].paused}
        /\ pc' = "push" => todo' = Batch(cache)
    BY <1>0, <1>1, ListOf
  <2>2. Tally(cache).targeted + Cardinality(Batch(cache))
          <= Cardinality(Devices)
    <3> DEFINE T == {d \in Devices : ~Open(cache[d])}
               B == Batch(cache)
    <3>1. T \in SUBSET Devices /\ B \in SUBSET Devices /\ T \cap B = {}
      BY BatchOf
    <3>2. Tally(cache).targeted = Cardinality(T)  BY TallyOf
    <3> HIDE DEF T, B
    <3>3. /\ IsFiniteSet(T) /\ IsFiniteSet(B)
          /\ Cardinality(T) \in Nat /\ Cardinality(B) \in Nat
          /\ T \cup B \in SUBSET Devices
      BY <3>1, Finite
    <3>4. Cardinality(T \cup B) =
            Cardinality(T) + Cardinality(B) - Cardinality(T \cap B)
      BY <3>3, FS_Union
    <3>5. Cardinality(T \cap B) = 0  BY <3>1, FS_EmptySet
    <3>6. Cardinality(T \cup B) <= Cardinality(Devices)  BY <3>3, Finite
    <3>7. Cardinality(T) + Cardinality(B) <= Cardinality(Devices)
      BY <3>3, <3>4, <3>5, <3>6
    <3> QED  BY <3>2, <3>7 DEF B
  <2>3. ASSUME pc' = "push"
        PROVE  /\ todo' = Batch(view')
               /\ tally'.targeted + Cardinality(todo') <= Cardinality(Devices)
    BY <2>1, <2>2, <2>3
  <2>4. Batch(view)' = Batch(view') /\ Tally(view)' = Tally(view')
    BY DEF Batch, Tally, Untargeted, Capacity, InFlight, Failed, Pending,
           Reached
  <2> QED  BY <2>1, <2>3, <2>4 DEF Plan, Trips
<1>2. CASE Push
  <2>1. PICK d \in todo :
          /\ d \in Devices /\ pc = "push"
          /\ [dev[d] EXCEPT !.desired = Target] \in Objects
          /\ Wrote(d, [dev[d] EXCEPT !.desired = Target])
          /\ todo' = todo \ {d}
          /\ tally' = [tally EXCEPT !.targeted = @ + 1]
    BY <1>2, PushOf
  <2> DEFINE o == [dev[d] EXCEPT !.desired = Target]
  <2>2. o \in Objects /\ o.desired = Target /\ Write(d, o)
        /\ pc' = pc /\ view' = view
    BY <2>1 DEF Wrote, Objects
  <2> HIDE DEF o
  <2>3. dev'[d] = o /\ \A e \in Devices : e # d => dev'[e] = dev[e]
    BY <1>0, <2>1, <2>2, WriteOf
  <2>4. /\ todo \subseteq Batch(view) /\ todo \in SUBSET Devices
        /\ \A e \in Batch(view) \ todo : dev[e].desired = Target
        /\ tally.targeted + Cardinality(todo) <= Cardinality(Devices)
        /\ tally \in Tallies
    BY <1>0, <2>1 DEF Plan, TypeOK
  <2>5. \A e \in Batch(view) : e \in Devices  BY BatchOf
  <2>6. \A e \in Batch(view) \ todo' : dev'[e].desired = Target
    BY <2>1, <2>2, <2>3, <2>4, <2>5
  <2>7. tally'.targeted + Cardinality(todo') <= Cardinality(Devices)
    <3>1. /\ IsFiniteSet(todo) /\ Cardinality(todo) \in Nat
          /\ Cardinality(Devices) \in Nat
      BY <2>4, Finite
    <3>2. Cardinality(todo') = Cardinality(todo) - 1
      BY <2>1, <3>1, FS_RemoveElement
    <3>3. tally.targeted \in Nat /\ tally'.targeted = tally.targeted + 1
      <4>1. tally.targeted \in 0..Cardinality(Devices)
        BY <2>4 DEF Tallies
      <4>2. tally'.targeted = tally.targeted + 1
        BY <2>1, <2>4 DEF Tallies
      <4> QED  BY <3>1, <4>1, <4>2
    <3> QED  BY <2>4, <3>1, <3>2, <3>3
  <2>8. Batch(view)' = Batch(view)
    BY <2>2 DEF Batch, Untargeted, Capacity, InFlight, Failed, Pending, Reached
  <2> QED  BY <2>1, <2>2, <2>4, <2>6, <2>7, <2>8 DEF Plan
<1>3. CASE Freeze
  <2>1. pc = "freeze" /\ pc' = pc /\ view' = view /\ todo' \subseteq todo
    BY <1>3 DEF Freeze
  <2>2. Trips(Tally(view))' = Trips(Tally(view))
    BY <2>1 DEF Trips, Tally, Failed, Pending, Untargeted, Reached
  <2> QED  BY <1>0, <2>1, <2>2 DEF Plan
<1>4. CASE Conflict \/ WriteStatus \/ Abort
  <2>1. pc' = "idle"  BY <1>4 DEF Conflict, WriteStatus, Abort, EndPass
  <2> QED  BY <2>1 DEF Plan
<1>5. ASSUME UNCHANGED <<pc, view, todo, tally>>,
             \A d \in Devices : dev[d].desired = Target =>
               dev'[d].desired = Target
      PROVE  Plan'
  <2>1. /\ Trips(Tally(view))' = Trips(Tally(view))
        /\ Batch(view)' = Batch(view)
    BY <1>5 DEF Trips, Tally, Batch, Untargeted, Capacity, InFlight, Failed,
                Pending, Reached
  <2>2. \A e \in Batch(view) : e \in Devices  BY BatchOf
  <2> QED  BY <1>0, <1>5, <2>1, <2>2 DEF Plan
<1>6. CASE CacheCatchesUp  BY <1>5, <1>6 DEF CacheCatchesUp, pass
<1>7. ASSUME NEW d \in Devices, Outside(d) PROVE Plan'
  <2>1. PICK o \in Objects : /\ Wrote(d, o) /\ o.desired = dev[d].desired
                             /\ UNCHANGED <<todo, tally>>
    BY <1>0, <1>7, OutsideOf
  <2>2. Write(d, o) /\ UNCHANGED <<pc, view>>  BY <2>1 DEF Wrote
  <2>3. dev'[d] = o /\ \A e \in Devices : e # d => dev'[e] = dev[e]
    BY <1>0, <2>2, WriteOf
  <2> QED  BY <1>5, <2>1, <2>2, <2>3
<1>8. ASSUME NEW d \in Devices, Unheard(d) PROVE Plan'
  BY <1>0, <1>5, <1>8, UnheardOf DEF pass
<1>9. CASE UNCHANGED vars  BY <1>5, <1>9 DEF vars, pass
<1> QED
  BY <1>1, <1>2, <1>3, <1>4, <1>6, <1>7, <1>8, <1>9, Steps

LEMMA BaseStep == Base /\ [Next]_vars => Base'
BY TypeStep, ReplayStep, PlanStep DEF Base

LEMMA BaseHolds == Spec => []Base
<1> QED  BY BaseInit, BaseStep, PTL DEF Spec

(* Type correctness; the counts of a pass never exceed the fleet.          *)
THEOREM TypeCorrect == Spec => []TypeOK
<1>1. Base => TypeOK  BY DEF Base
<1> QED  BY <1>1, BaseHolds, PTL

(* fleetrollout_controller.go:132: a device that is frozen when the update *)
(* arrives is not retargeted, and only a person thaws it.                  *)
THEOREM FreezeIsRespected == Spec => RespectsFreeze
<1> DEFINE Kept ==
      \A d \in Devices : dev[d].paused =>
        /\ dev'[d].desired = dev[d].desired
        /\ dev'[d].paused \/ counts'.resumes > counts.resumes
<1>1. Base /\ [Next]_vars => [Kept]_vars
  <2> SUFFICES ASSUME Base, Next PROVE Kept  OBVIOUS
  <2>0. TypeOK /\ Replay /\ Plan  BY DEF Base
  <2>1. CASE Push
    <3>1. PICK d \in todo :
            /\ d \in Devices /\ ~dev[d].paused
            /\ [dev[d] EXCEPT !.desired = Target] \in Objects
            /\ Wrote(d, [dev[d] EXCEPT !.desired = Target])
      BY <2>1, PushOf
    <3>2. \A e \in Devices : e # d => dev'[e] = dev[e]
      BY <2>0, <3>1, WriteOf DEF Wrote
    <3> QED  BY <3>1, <3>2
  <2>2. CASE Freeze
    <3>1. PICK d \in todo :
            /\ d \in Devices
            /\ [dev[d] EXCEPT !.paused = TRUE] \in Objects
            /\ Wrote(d, [dev[d] EXCEPT !.paused = TRUE])
      BY <2>2, FreezeOf
    <3>2. /\ dev'[d] = [dev[d] EXCEPT !.paused = TRUE]
          /\ \A e \in Devices : e # d => dev'[e] = dev[e]
      BY <2>0, <3>1, WriteOf DEF Wrote
    <3>3. dev[d] \in Objects  BY <2>0, <3>1 DEF TypeOK
    <3>4. dev'[d].desired = dev[d].desired /\ dev'[d].paused
      BY <3>2, <3>3 DEF Objects
    <3> QED  BY <3>2, <3>4
  <2>3. ASSUME UNCHANGED dev PROVE Kept  BY <2>3
  <2>4. CASE List \/ Conflict \/ WriteStatus \/ Abort \/ CacheCatchesUp
    BY <2>3, <2>4 DEF List, Conflict, WriteStatus, Abort, CacheCatchesUp
  <2>5. ASSUME NEW d \in Devices, Unheard(d) PROVE Kept
    BY <2>0, <2>3, <2>5, UnheardOf
  <2>6. ASSUME NEW d \in Devices, Outside(d) PROVE Kept
    <3>1. PICK o \in Objects : Wrote(d, o) /\ o.desired = dev[d].desired
      BY <2>0, <2>6, OutsideOf
    <3>2. dev'[d] = o /\ \A e \in Devices : e # d => dev'[e] = dev[e]
      BY <2>0, <3>1, WriteOf DEF Wrote
    <3>3. dev[d] \in Objects /\ counts.resumes \in Nat
          /\ counts \in Counters
      <4>1. dev[d] \in Objects /\ counts \in Counters
        BY <2>0 DEF TypeOK, Counters
      <4>2. counts.resumes \in 0..MaxHuman  BY <4>1 DEF Counters
      <4> QED  BY <4>1, <4>2, RolloutAssumption
    <3>4. dev'[d].paused \/ ~dev[d].paused
          \/ counts'.resumes > counts.resumes
      <4>1. CASE \E paused \in BOOLEAN : SetPaused(d, paused)
        <5>1. CASE SetPaused(d, TRUE)
          <6>1. dev' = [dev EXCEPT ![d] = [dev[d] EXCEPT !.paused = TRUE]]
            BY <5>1 DEF SetPaused, Write
          <6> QED  BY <2>0, <3>3, <6>1 DEF TypeOK, Objects
        <5>2. CASE SetPaused(d, FALSE)
          <6>1. counts' = [counts EXCEPT !.resumes = @ + 1]
            BY <5>2 DEF SetPaused
          <6>2. counts'.resumes = counts.resumes + 1
            BY <3>3, <6>1 DEF Counters
          <6> QED  BY <3>3, <6>2
        <5> QED  BY <4>1, <5>1, <5>2
      <4>2. CASE ~ \E paused \in BOOLEAN : SetPaused(d, paused)
        <5>1. \/ Announce(d) \/ Succeed(d) \/ Fail(d) \/ GoDark(d)
              \/ Report(d, [dev[d] EXCEPT !.dark = FALSE])
          BY <2>6, <4>2 DEF Outside
        <5>2. dev \in [Devices -> Objects]  BY <2>0 DEF TypeOK
        <5>3. CASE Announce(d)
          BY <3>3, <5>2, <5>3 DEF Announce, Report, Write, Objects
        <5>4. CASE Succeed(d)
          BY <3>3, <5>2, <5>4 DEF Succeed, Report, Write, Objects
        <5>5. CASE Fail(d)  BY <3>3, <5>2, <5>5 DEF Fail, Report, Write, Objects
        <5>6. CASE GoDark(d)  BY <3>3, <5>2, <5>6 DEF GoDark, Report, Write, Objects
        <5>7. CASE Report(d, [dev[d] EXCEPT !.dark = FALSE])
          BY <3>3, <5>2, <5>7 DEF Report, Write, Objects
        <5> QED  BY <5>1, <5>3, <5>4, <5>5, <5>6, <5>7
      <4> QED  BY <4>1, <4>2
    <3> QED  BY <3>1, <3>2, <3>4
  <2> QED  BY <2>1, <2>2, <2>4, <2>5, <2>6, Steps
<1>2. [][Kept]_vars => RespectsFreeze
  BY PTL DEF RespectsFreeze
<1> QED  BY <1>1, <1>2, BaseHolds, PTL DEF Spec

-----------------------------------------------------------------------------
(* The breaker trips for cause.                                            *)

LEMMA BlameInit ==
  ASSUME SoundFleet
  PROVE  Init => Blame
<1> SUFFICES ASSUME Init PROVE Blame  OBVIOUS
<1>1. /\ \A d \in Devices : dev[d] \in InitialDevices
      /\ cache = dev /\ pc = "idle" /\ ro.phase = ""
      /\ \A d \in Devices : job[d] = None
      /\ events = << >>
  BY DEF Init
<1>2. Indexes = {}
  <2>1. Len(events) = 0  BY <1>1
  <2> QED  BY <2>1 DEF Indexes
<1> QED  BY <1>1, <1>2 DEF Blame, SoundFleet

(* Blame is never taken back.                                              *)
LEMMA EnoughGrows ==
  ASSUME NEW T \in SUBSET Devices, NEW S \in SUBSET T, NEW n \in Nat,
         Enough(S, n)
  PROVE  Enough(T, n)
<1>1. Cardinality(S) <= Cardinality(T)  BY Grows
<1>2. Cardinality(S) \in Nat /\ Cardinality(T) \in Nat  BY Finite
<1> DEFINE t == FailureThresholdPercent * n
<1>3. t \in Nat /\ Cardinality(S) * 100 >= t
  BY RolloutAssumption DEF Enough
<1> HIDE DEF t
<1>4. Cardinality(T) * 100 >= t  BY <1>1, <1>2, <1>3
<1>5. T # {}  BY DEF Enough
<1> QED  BY <1>4, <1>5 DEF Enough, t

(* A breaker that trips on a list of devices, each of which looks failed   *)
(* only if it is to blame, has enough of them.                             *)
LEMMA TripsEnough ==
  ASSUME NEW devs, Trips(Tally(devs)), blamed \subseteq Devices,
         \A d \in Devices : deviceFailed(devs[d]) => d \in blamed
  PROVE  Enough(blamed, Tally(devs).targeted)
<1> DEFINE L == {d \in Devices : Lost(devs[d])}
<1>1. L \in SUBSET blamed  BY DEF Lost
<1>2. Tally(devs).failed = Cardinality(L)  BY TallyOf
<1>3. L # {}  BY TripsLost
<1> HIDE DEF L
<1>4. Cardinality(L) <= Cardinality(blamed)  BY <1>1, Grows
<1>5. /\ Cardinality(L) \in Nat /\ Cardinality(blamed) \in Nat
  <2>1. L \in SUBSET Devices  BY <1>1
  <2> QED  BY <2>1, Finite
<1> DEFINE t == FailureThresholdPercent * Tally(devs).targeted
<1>6. t \in Nat /\ Cardinality(L) * 100 >= t
  <2>1. Tally(devs).targeted \in Nat  BY TallyOf
  <2> QED  BY <1>2, <2>1, RolloutAssumption DEF Trips
<1> HIDE DEF t
<1>7. Cardinality(blamed) * 100 >= t  BY <1>4, <1>5, <1>6
<1> QED  BY <1>1, <1>3, <1>7 DEF Enough, t

(* The counts of a pass and of the status are numbers.                     *)
LEMMA Counted ==
  ASSUME TypeOK
  PROVE  tally.targeted \in Nat /\ ro.tally.targeted \in Nat
<1>1. /\ tally.targeted \in 0..Cardinality(Devices)
      /\ ro.tally.targeted \in 0..Cardinality(Devices)
  BY DEF TypeOK, Tallies
<1>2. Cardinality(Devices) \in Nat  BY Finite
<1> QED  BY <1>1, <1>2

LEMMA WroteBlame ==
  ASSUME TypeOK, Blame, NEW d \in Devices, NEW o \in Objects, Wrote(d, o),
         blamed \subseteq blamed', blamed' \subseteq Devices,
         deviceFailed(o) => d \in blamed',
         o.desired # o.current => o.desired = Target,
         job'[d] # None => job'[d] = Target /\ o.desired = Target,
         \A e \in Devices : e # d => job'[e] = job[e],
         pc = "freeze" => tally' = tally
  PROVE  Blame'
<1> DEFINE n == Len(events) + 1
<1>1. Write(d, o) /\ UNCHANGED <<cache, ro, pc, view>>  BY DEF Wrote
<1>2. /\ dev'[d] = o /\ \A e \in Devices : e # d => dev'[e] = dev[e]
      /\ events'[n] = [name |-> d, object |-> o]
      /\ \A i \in Indexes : events'[i] = events[i]
      /\ \A i \in Indexes' : i \in Indexes \/ i = n
  BY <1>1, WriteOf
<1> HIDE DEF n
<1>3. \A e \in Devices :
        /\ dev'[e].desired # dev'[e].current => dev'[e].desired = Target
        /\ job'[e] # None => job'[e] = Target /\ dev'[e].desired = Target
        /\ deviceFailed(dev'[e]) \/ deviceFailed(cache'[e]) => e \in blamed'
  BY <1>1, <1>2 DEF Blame
<1>4. \A i \in Indexes' :
        deviceFailed(events'[i].object) => events'[i].name \in blamed'
  BY <1>2 DEF Blame
<1>5. /\ pc' = "freeze" => Enough(blamed', tally'.targeted)
      /\ ro'.phase = "Paused" => Enough(blamed', ro'.tally.targeted)
  BY <1>1, Counted, EnoughGrows DEF Blame
<1>6. /\ \A e \in Devices : /\ deviceFailed(dev[e])' = deviceFailed(dev'[e])
                            /\ deviceFailed(cache[e])' = deviceFailed(cache'[e])
      /\ \A i \in Indexes' :
           deviceFailed(events[i].object)' = deviceFailed(events'[i].object)
  BY DEF deviceFailed
<1> QED  BY <1>3, <1>4, <1>5, <1>6 DEF Blame, Enough

LEMMA BlameStep == Base /\ Blame /\ [Next]_vars => Blame'
<1> SUFFICES ASSUME Base, Blame, [Next]_vars PROVE Blame'  OBVIOUS
<1>0. TypeOK /\ Replay /\ Plan /\ blamed \subseteq Devices
  BY DEF Base, TypeOK
<1>1. CASE List
  <2>1. /\ pc' = "freeze" => Trips(Tally(cache))
        /\ tally' = Tally(cache)
        /\ UNCHANGED <<dev, events, cache, ro, agents, history, counts>>
    BY <1>0, <1>1, ListOf
  <2>2. ASSUME pc' = "freeze" PROVE Enough(blamed, tally'.targeted)
    <3>1. blamed \subseteq Devices  BY <1>0 DEF TypeOK
    <3> QED  BY <2>1, <2>2, <3>1, TripsEnough DEF Blame
  <2> QED
    BY <2>1, <2>2 DEF Blame, Enough, Indexes, agents, history, deviceFailed
<1>2. CASE Push
  <2>1. PICK d \in todo :
          /\ d \in Devices /\ pc = "push" /\ Open(dev[d])
          /\ [dev[d] EXCEPT !.desired = Target] \in Objects
          /\ Wrote(d, [dev[d] EXCEPT !.desired = Target])
          /\ UNCHANGED <<agents, history, counts>>
    BY <1>2, PushOf
  <2> DEFINE o == [dev[d] EXCEPT !.desired = Target]
  <2>2. dev[d] \in Objects  BY <1>0, <2>1 DEF TypeOK
  <2>3. /\ o \in Objects /\ Wrote(d, o) /\ o.desired = Target
        /\ o.dark = dev[d].dark /\ o.synced = dev[d].synced
    BY <2>1, <2>2 DEF Objects
  <2> HIDE DEF o
  <2>4. deviceFailed(o) => d \in blamed
    BY <2>1, <2>3 DEF Blame, deviceFailed
  <2>5. UNCHANGED <<blamed, job>>  BY <2>1 DEF agents, history
  <2>6. job'[d] # None => job'[d] = Target
    BY <2>1, <2>5 DEF Blame
  <2> QED  BY <1>0, <2>1, <2>3, <2>4, <2>5, <2>6, WroteBlame
<1>3. CASE Freeze
  <2>1. PICK d \in todo :
          /\ d \in Devices
          /\ [dev[d] EXCEPT !.paused = TRUE] \in Objects
          /\ Wrote(d, [dev[d] EXCEPT !.paused = TRUE])
          /\ UNCHANGED <<tally, agents, history, counts>>
    BY <1>3, FreezeOf
  <2> DEFINE o == [dev[d] EXCEPT !.paused = TRUE]
  <2>2. dev[d] \in Objects  BY <1>0, <2>1 DEF TypeOK
  <2>3. /\ o \in Objects /\ Wrote(d, o)
        /\ o.desired = dev[d].desired /\ o.current = dev[d].current
        /\ o.dark = dev[d].dark /\ o.synced = dev[d].synced
    BY <2>1, <2>2 DEF Objects
  <2> HIDE DEF o
  <2>4. deviceFailed(o) => d \in blamed
    BY <2>1, <2>3 DEF Blame, deviceFailed
  <2>5. UNCHANGED <<blamed, job>>  BY <2>1 DEF agents, history
  <2>6. /\ job'[d] # None => job'[d] = Target /\ o.desired = Target
        /\ o.desired # o.current => o.desired = Target
    BY <2>1, <2>3, <2>5 DEF Blame
  <2> QED  BY <1>0, <2>1, <2>3, <2>4, <2>5, <2>6, WroteBlame
<1>4. CASE Conflict \/ Abort
  <2>1. pc' = "idle" /\ UNCHANGED <<dev, events, cache, ro, job, blamed>>
    BY <1>4 DEF Conflict, Abort, EndPass, agents, history
  <2> QED  BY <2>1 DEF Blame, Enough, Indexes, deviceFailed
<1>5. CASE WriteStatus
  <2>1. /\ pc' = "idle" /\ UNCHANGED <<dev, events, cache, job, blamed>>
        /\ ro'.phase = Phase /\ ro'.tally = tally
    BY <1>5 DEF WriteStatus, EndPass, agents
  <2>2. ro'.phase = "Paused" => Enough(blamed, ro'.tally.targeted)
    BY <2>1 DEF Phase, Blame
  <2> QED  BY <2>1, <2>2 DEF Blame, Enough, Indexes, deviceFailed
<1>6. CASE CacheCatchesUp
  <2>1. UNCHANGED <<dev, ro, pc, tally, job, blamed>>
    BY <1>6 DEF CacheCatchesUp, pass, agents, history
  <2>2. /\ 1 \in Indexes /\ events[1].name \in Devices
        /\ cache'[events[1].name] = events[1].object
        /\ \A d \in Devices : d # events[1].name => cache'[d] = cache[d]
        /\ \A i \in Indexes' : i + 1 \in Indexes /\ events'[i] = events[i + 1]
    BY <1>0, <1>6, CatchUpOf
  <2>3. \A d \in Devices : deviceFailed(cache'[d]) => d \in blamed
    BY <2>2 DEF Blame
  <2>4. \A i \in Indexes' :
          deviceFailed(events'[i].object) => events'[i].name \in blamed
    BY <2>2 DEF Blame
  <2>5. /\ \A e \in Devices :
             /\ deviceFailed(dev[e])' = deviceFailed(dev'[e])
             /\ deviceFailed(cache[e])' = deviceFailed(cache'[e])
        /\ \A i \in Indexes' :
             deviceFailed(events[i].object)' = deviceFailed(events'[i].object)
    BY DEF deviceFailed
  <2> QED  BY <2>1, <2>3, <2>4, <2>5 DEF Blame, Enough
<1>7. ASSUME NEW d \in Devices, Outside(d) PROVE Blame'
  <2>0. /\ dev[d] \in Objects /\ dev \in [Devices -> Objects]
        /\ job \in [Devices -> Versions \cup {None}]
    BY <1>0 DEF TypeOK
  <2>1. PICK o \in Objects : Wrote(d, o) /\ tally' = tally
    BY <1>0, <1>7, OutsideOf
  <2>2. dev' = [dev EXCEPT ![d] = o]  BY <2>1 DEF Wrote, Write
  <2>3. o = dev'[d]  BY <2>0, <2>2
  <2>4. CASE Announce(d)
    <3>1. /\ o = [dev[d] EXCEPT !.synced = "UpgradeInProgress"]
          /\ job' = [job EXCEPT ![d] = dev[d].desired]
          /\ dev[d].desired # dev[d].current /\ blamed' = blamed
      BY <2>0, <2>3, <2>4 DEF Announce, StartsUpgrade, Report, Write
    <3>2. /\ o.desired = Target /\ job'[d] = Target
          /\ \A e \in Devices : e # d => job'[e] = job[e]
          /\ deviceFailed(o) => deviceFailed(dev[d])
      BY <2>0, <3>1 DEF Blame, Objects, deviceFailed
    <3> QED  BY <1>0, <2>1, <3>1, <3>2, WroteBlame DEF Blame
  <2>5. CASE Succeed(d)
    <3>1. /\ o = [dev[d] EXCEPT !.synced = "True", !.current = job[d]]
          /\ job' = [job EXCEPT ![d] = None]
          /\ job[d] # None /\ blamed' = blamed
      BY <2>0, <2>3, <2>5 DEF Succeed, Report, Write
    <3>2. /\ o.desired = Target /\ job'[d] = None
          /\ \A e \in Devices : e # d => job'[e] = job[e]
          /\ deviceFailed(o) => deviceFailed(dev[d])
      BY <2>0, <3>1 DEF Blame, Objects, deviceFailed
    <3> QED  BY <1>0, <2>1, <3>1, <3>2, WroteBlame DEF Blame
  <2>6. CASE Fail(d)
    <3>1. /\ o = [dev[d] EXCEPT !.synced = "Failed"]
          /\ job' = [job EXCEPT ![d] = None] /\ job[d] # None
          /\ blamed' = IF job[d] = Target THEN blamed \cup {d} ELSE blamed
      BY <2>0, <2>3, <2>6 DEF Fail, FailsUpgrade, Report, Write
    <3>2. /\ o.desired = Target /\ job'[d] = None /\ blamed' = blamed \cup {d}
          /\ \A e \in Devices : e # d => job'[e] = job[e]
      BY <2>0, <3>1 DEF Blame, Objects
    <3> QED  BY <1>0, <2>1, <3>1, <3>2, WroteBlame
  <2>7. CASE GoDark(d)
    <3>1. /\ o = [dev[d] EXCEPT !.dark = TRUE]
          /\ blamed' = blamed \cup {d} /\ job' = job
      BY <2>0, <2>3, <2>7 DEF GoDark, Report, Write, agents
    <3>2. o.desired = dev[d].desired /\ o.current = dev[d].current
      BY <2>0, <3>1 DEF Objects
    <3>3. /\ job'[d] # None => job'[d] = Target /\ o.desired = Target
          /\ o.desired # o.current => o.desired = Target
      BY <3>1, <3>2 DEF Blame
    <3> QED  BY <1>0, <2>1, <3>1, <3>2, <3>3, WroteBlame
  <2>8. ASSUME UNCHANGED <<job, blamed>>, o.desired = dev[d].desired,
               o.current = dev[d].current,
               deviceFailed(o) => deviceFailed(dev[d])
        PROVE  Blame'
    <3>1. /\ job'[d] # None => job'[d] = Target /\ o.desired = Target
          /\ o.desired # o.current => o.desired = Target
          /\ deviceFailed(o) => d \in blamed
      BY <2>8 DEF Blame
    <3> QED  BY <1>0, <2>1, <2>8, <3>1, WroteBlame
  <2>9. CASE ComeBack(d) /\ Report(d, [dev[d] EXCEPT !.dark = FALSE])
               /\ UNCHANGED agents
    <3>1. /\ o = [dev[d] EXCEPT !.dark = FALSE] /\ UNCHANGED <<job, blamed>>
      BY <2>0, <2>3, <2>9 DEF ComeBack, Report, Write, agents
    <3> QED  BY <2>0, <2>8, <3>1 DEF Objects, deviceFailed
  <2>10. CASE \E paused \in BOOLEAN : SetPaused(d, paused)
    <3>1. PICK paused \in BOOLEAN : SetPaused(d, paused)  BY <2>10
    <3>2. o = [dev[d] EXCEPT !.paused = paused] /\ UNCHANGED <<job, blamed>>
      BY <2>0, <2>3, <3>1 DEF SetPaused, Write, agents
    <3> QED  BY <2>0, <2>8, <3>2 DEF Objects, deviceFailed
  <2> QED  BY <1>7, <2>4, <2>5, <2>6, <2>7, <2>9, <2>10 DEF Outside
<1>8. ASSUME NEW d \in Devices, Unheard(d) PROVE Blame'
  <2>1. UNCHANGED <<dev, events, cache, ro, pc, tally, blamed>>
    BY <1>0, <1>8, UnheardOf DEF pass, history
  <2>2. \A e \in Devices : job'[e] # None =>
          job'[e] = Target /\ dev[e].desired = Target
    BY <1>0, <1>8, UnheardOf DEF Blame
  <2> QED  BY <2>1, <2>2 DEF Blame, Enough, Indexes, deviceFailed
<1>9. CASE UNCHANGED vars
  BY <1>9 DEF Blame, Enough, Indexes, deviceFailed, vars, pass, agents,
              history
<1> QED
  BY <1>1, <1>2, <1>3, <1>4, <1>5, <1>6, <1>7, <1>8, <1>9, Steps

LEMMA BlameHolds ==
  ASSUME SoundFleet
  PROVE  Spec => [](Base /\ Blame)
BY BaseInit, BaseStep, BlameInit, BlameStep, PTL DEF Spec

(* fleetrollout_controller.go:177: in a fleet that was sound when the      *)
(* rollout began, the breaker trips only once as many devices as the       *)
(* threshold asks for have failed the target or gone dark; no lag of the   *)
(* cache, mixing old and new in one list, makes it trip for less.  Devices *)
(* may come back, reports be lost and people resume devices.               *)
THEOREM TripsHaveCause ==
  ASSUME SoundFleet
  PROVE  Spec => []TripsForCause
<1>1. Blame => TripsForCause  BY DEF Blame, Enough, TripsForCause
<1> QED  BY <1>1, BlameHolds, PTL

-----------------------------------------------------------------------------
(* While nobody recovers, devices only move forward.                       *)

LEMMA RecoveredStays == recovered /\ [Next]_vars => recovered'
<1> SUFFICES ASSUME recovered, [Next]_vars PROVE recovered'  OBVIOUS
<1>1. CASE UNCHANGED recovered  BY <1>1
<1>2. ASSUME NEW d, NEW o, Report(d, o) PROVE recovered'  BY <1>2 DEF Report
<1>3. CASE Reconcile \/ Abort \/ CacheCatchesUp \/ UNCHANGED vars
  BY <1>1, <1>3
  DEF Reconcile, List, Conflict, Freeze, Push, WriteStatus, Abort,
      CacheCatchesUp, history, vars
<1>4. ASSUME NEW d \in Devices,
             \/ Announce(d) \/ Succeed(d) \/ Fail(d) \/ LoseReport(d)
             \/ GoDark(d) \/ ComeBack(d)
             \/ \E paused \in BOOLEAN : SetPaused(d, paused)
      PROVE  recovered'
  BY <1>1, <1>2, <1>4
  DEF Announce, Succeed, Fail, LoseReport, GoDark, ComeBack, SetPaused,
      history
<1> QED  BY <1>3, <1>4 DEF Next

(* As long as nobody recovered, a lost device stays lost.                  *)
LEMMA ReportOf ==
  ASSUME NEW d, NEW o, Report(d, o), ~recovered', Lost(dev[d])
  PROVE  Lost(o)
BY DEF Report

LEMMA LaterTrans ==
  ASSUME NEW n, NEW a, NEW b, NEW c, Later(n, a, b), Later(n, b, c)
  PROVE  Later(n, a, c)
BY DEF Later

LEMMA LaterSame == ASSUME NEW n, NEW a PROVE Later(n, a, a)
BY DEF Later

LEMMA LaterWeaken ==
  ASSUME NEW n, NEW m, m = 0 => n = 0, NEW a, NEW b, Later(n, a, b)
  PROVE  Later(m, a, b)
BY DEF Later

(* What a device becomes by the hand of others than the controller.        *)
LEMMA OutsideLater ==
  ASSUME ~recovered', TypeOK, Blame, NEW d \in Devices, Outside(d)
  PROVE  \E o \in Objects :
           /\ Wrote(d, o) /\ UNCHANGED <<todo, tally>>
           /\ Open(o) <=> Open(dev[d])
           /\ Later(counts'.resumes, dev[d], o)
           /\ counts'.resumes = 0 => counts.resumes = 0
<1>0. /\ dev[d] \in Objects /\ dev \in [Devices -> Objects]
      /\ counts \in Counters
  BY DEF TypeOK, Counters
<1>1. PICK o \in Objects :
        Wrote(d, o) /\ o.desired = dev[d].desired /\ UNCHANGED <<todo, tally>>
  BY OutsideOf
<1>2. dev' = [dev EXCEPT ![d] = o]  BY <1>1 DEF Wrote, Write
<1>3. o = dev'[d] /\ \A e \in Devices : e # d => dev'[e] = dev[e]
  BY <1>0, <1>2
<1>4. SUFFICES /\ Open(o) <=> Open(dev[d])
               /\ Later(counts'.resumes, dev[d], o)
               /\ counts'.resumes = 0 => counts.resumes = 0
  BY <1>1
<1>5. ASSUME NEW r \in Objects, Report(d, r), r.paused = dev[d].paused,
             r.current \in {dev[d].current, Target},
             r.current # dev[d].current => dev[d].desired = Target,
             counts'.resumes = counts.resumes
      PROVE  /\ Open(o) <=> Open(dev[d])
             /\ Later(counts'.resumes, dev[d], o)
             /\ counts'.resumes = 0 => counts.resumes = 0
  <2>1. o = r
    <3>1. dev' = [dev EXCEPT ![d] = r]  BY <1>5 DEF Report, Write
    <3> QED  BY <1>0, <1>3, <3>1
  <2>2. Lost(dev[d]) => Lost(o)  BY <1>5, <2>1, ReportOf
  <2>3. Open(o) <=> Open(dev[d])  BY <1>1, <1>5, <2>1 DEF Open
  <2>4. Done(dev[d]) => Done(o)  BY <1>5, <2>1 DEF Done
  <2> QED  BY <1>5, <2>1, <2>2, <2>3, <2>4 DEF Later
<1>6. CASE Announce(d)
  <2> DEFINE r == [dev[d] EXCEPT !.synced = "UpgradeInProgress"]
  <2>1. /\ r \in Objects /\ r.current = dev[d].current
        /\ r.paused = dev[d].paused
    BY <1>0 DEF Objects
  <2>2. Report(d, r) /\ counts' = counts  BY <1>6 DEF Announce
  <2> QED  BY <1>5, <2>1, <2>2
<1>7. CASE Succeed(d)
  <2> DEFINE r == [dev[d] EXCEPT !.synced = "True", !.current = job[d]]
  <2>1. Report(d, r) /\ counts' = counts /\ job[d] # None
    BY <1>7 DEF Succeed
  <2>2. dev[d].desired = Target /\ job[d] = Target  BY <2>1 DEF Blame
  <2>3. Target \in Versions  BY DEF Versions
  <2>4. r \in Objects /\ r.current = Target /\ r.paused = dev[d].paused
    BY <1>0, <2>2, <2>3 DEF Objects
  <2> QED  BY <1>5, <2>1, <2>2, <2>4
<1>8. CASE Fail(d)
  <2> DEFINE r == [dev[d] EXCEPT !.synced = "Failed"]
  <2>1. /\ r \in Objects /\ r.current = dev[d].current
        /\ r.paused = dev[d].paused
    BY <1>0 DEF Objects
  <2>2. Report(d, r) /\ counts' = counts  BY <1>8 DEF Fail
  <2> QED  BY <1>5, <2>1, <2>2
<1>9. CASE GoDark(d)
  <2> DEFINE r == [dev[d] EXCEPT !.dark = TRUE]
  <2>1. /\ r \in Objects /\ r.current = dev[d].current
        /\ r.paused = dev[d].paused
    BY <1>0 DEF Objects
  <2>2. Report(d, r) /\ counts' = [counts EXCEPT !.outages = @ + 1]
    BY <1>9 DEF GoDark
  <2>3. counts'.resumes = counts.resumes  BY <1>0, <2>2 DEF Counters
  <2> QED  BY <1>5, <2>1, <2>2, <2>3
<1>10. CASE ComeBack(d) /\ Report(d, [dev[d] EXCEPT !.dark = FALSE])
  <2> DEFINE r == [dev[d] EXCEPT !.dark = FALSE]
  <2>1. /\ r \in Objects /\ r.current = dev[d].current
        /\ r.paused = dev[d].paused
    BY <1>0 DEF Objects
  <2>2. Report(d, r) /\ counts' = [counts EXCEPT !.comebacks = @ + 1]
    BY <1>10 DEF ComeBack
  <2>3. counts'.resumes = counts.resumes  BY <1>0, <2>2 DEF Counters
  <2> QED  BY <1>5, <2>1, <2>2, <2>3
<1>11. CASE \E paused \in BOOLEAN : SetPaused(d, paused)
  <2>1. PICK paused \in BOOLEAN : SetPaused(d, paused)  BY <1>11
  <2>2. /\ o = [dev[d] EXCEPT !.paused = paused]
        /\ counts' = IF paused THEN [counts EXCEPT !.pauses = @ + 1]
                     ELSE [counts EXCEPT !.resumes = @ + 1]
    BY <1>0, <1>3, <2>1 DEF SetPaused, Write
  <2>3. /\ o.synced = dev[d].synced /\ o.current = dev[d].current
        /\ o.paused = paused /\ o.dark = dev[d].dark
    BY <1>0, <2>2 DEF Objects
  <2>4. counts'.resumes = 0 => paused /\ counts.resumes = 0
    <3>1. counts.resumes \in Nat
      <4>1. counts.resumes \in 0..MaxHuman  BY <1>0 DEF Counters
      <4> QED  BY <4>1, RolloutAssumption
    <3>2. CASE paused
      <4>1. counts'.resumes = counts.resumes
        BY <1>0, <2>2, <3>2 DEF Counters
      <4> QED  BY <3>2, <4>1
    <3>3. CASE ~paused
      <4>1. counts'.resumes = counts.resumes + 1
        BY <1>0, <2>2, <3>3 DEF Counters
      <4> QED  BY <3>1, <4>1
    <3> QED  BY <3>2, <3>3
  <2>5. Later(counts'.resumes, dev[d], o) /\ (Open(o) <=> Open(dev[d]))
    BY <1>1, <2>3, <2>4 DEF Later, Open, Done, Lost, deviceFailed
  <2> QED  BY <2>4, <2>5
<1> QED  BY <1>6, <1>7, <1>8, <1>9, <1>10, <1>11 DEF Outside

LEMMA WroteInOrder ==
  ASSUME TypeOK, InOrder, NEW d \in Devices, NEW o \in Objects, Wrote(d, o),
         Later(counts'.resumes, dev[d], o),
         counts'.resumes = 0 => counts.resumes = 0
  PROVE  InOrder'
<1> DEFINE n == Len(events) + 1
           L(a, b) == Later(counts'.resumes, a, b)
<1>1. Write(d, o) /\ UNCHANGED <<cache, ro, pc, view>>  BY DEF Wrote
<1>2. /\ dev'[d] = o /\ \A e \in Devices : e # d => dev'[e] = dev[e]
      /\ events'[n] = [name |-> d, object |-> o]
      /\ \A i \in Indexes : events'[i] = events[i] /\ i < n
      /\ \A i \in Indexes' : i \in Indexes \/ i = n
  <2>1. Len(events) \in Nat  BY <1>1, WriteOf
  <2> QED  BY <1>1, <2>1, WriteOf DEF Indexes
<1> HIDE DEF n
<1>3. \A i \in Indexes : events[i].name \in Devices  BY EventType
<1>4. /\ \A e \in Devices : L(cache[e], dev[e])
      /\ pc # "idle" => \A e \in Devices : L(view[e], cache[e])
      /\ \A i \in Indexes :
           /\ L(cache[events[i].name], events[i].object)
           /\ L(events[i].object, dev[events[i].name])
           /\ \A j \in Indexes : i < j /\ events[i].name = events[j].name =>
                L(events[i].object, events[j].object)
  BY LaterWeaken DEF InOrder
<1>5. L(o, o) /\ L(dev[d], o)  BY LaterSame
<1>6. ASSUME NEW e \in Devices PROVE L(dev[e], dev'[e])
  BY <1>2, <1>5, LaterSame
<1>7. \A e \in Devices : L(cache'[e], dev'[e])
  BY <1>1, <1>4, <1>6, LaterTrans
<1>8. pc' # "idle" => \A e \in Devices : L(view'[e], cache'[e])
  BY <1>1, <1>4
<1>9. ASSUME NEW i \in Indexes'
      PROVE  /\ L(cache'[events'[i].name], events'[i].object)
             /\ L(events'[i].object, dev'[events'[i].name])
             /\ \A j \in Indexes' :
                  i < j /\ events'[i].name = events'[j].name =>
                    L(events'[i].object, events'[j].object)
  <2>1. CASE i = n
    <3>1. events'[i].name = d /\ events'[i].object = o  BY <1>2, <2>1
    <3>2. \A j \in Indexes' : ~(i < j)  BY <1>2, <2>1 DEF Indexes
    <3> QED  BY <1>2, <1>5, <1>7, <3>1, <3>2
  <2>2. CASE i \in Indexes
    <3>1. events'[i] = events[i] /\ events[i].name \in Devices
      BY <1>2, <1>3, <2>2
    <3>2. L(cache'[events'[i].name], events'[i].object)
      BY <1>1, <1>4, <2>2, <3>1
    <3>3. L(events'[i].object, dev'[events'[i].name])
      BY <1>4, <1>6, <2>2, <3>1, LaterTrans
    <3>4. ASSUME NEW j \in Indexes', i < j, events'[i].name = events'[j].name
          PROVE  L(events'[i].object, events'[j].object)
      <4>1. CASE j = n
        <5>1. events'[j].name = d /\ events'[j].object = o  BY <1>2, <4>1
        <5> QED  BY <1>2, <3>3, <3>4, <5>1
      <4>2. CASE j \in Indexes  BY <1>2, <1>4, <2>2, <3>1, <3>4, <4>2
      <4> QED  BY <1>2, <4>1, <4>2
    <3> QED  BY <3>2, <3>3, <3>4
  <2> QED  BY <1>2, <2>1, <2>2
<1> QED  BY <1>7, <1>8, <1>9 DEF InOrder, Later, Open, Done, Lost, deviceFailed

LEMMA CatchUpInOrder ==
  ASSUME TypeOK, InOrder, CacheCatchesUp
  PROVE  InOrder'
<1> DEFINE d0 == events[1].name
           L(a, b) == Later(counts.resumes, a, b)
<1>1. /\ 1 \in Indexes /\ d0 \in Devices
      /\ cache'[d0] = events[1].object
      /\ \A d \in Devices : d # d0 => cache'[d] = cache[d]
      /\ \A i \in Indexes' : i + 1 \in Indexes /\ i + 1 > 1
                             /\ events'[i] = events[i + 1]
  BY CatchUpOf
<1>2. UNCHANGED <<dev, pc, view, counts>>  BY DEF CacheCatchesUp, pass
<1>3. Indexes \in SUBSET Nat /\ Indexes' \in SUBSET Nat  BY DEF Indexes
<1>4. /\ \A d \in Devices : L(cache[d], dev[d])
      /\ pc # "idle" => \A d \in Devices : L(view[d], cache[d])
      /\ \A i \in Indexes :
           /\ L(cache[events[i].name], events[i].object)
           /\ L(events[i].object, dev[events[i].name])
           /\ \A j \in Indexes : i < j /\ events[i].name = events[j].name =>
                L(events[i].object, events[j].object)
  BY DEF InOrder
<1>5. \A i \in Indexes : events[i].name \in Devices  BY EventType
<1> HIDE DEF L
<1>6. \A d \in Devices : L(cache'[d], dev'[d])
  BY <1>1, <1>2, <1>4
<1>7. ASSUME pc' # "idle", NEW d \in Devices PROVE L(view'[d], cache'[d])
  <2>1. CASE d = d0
    <3>1. L(view[d0], cache[d0]) /\ L(cache[d0], events[1].object)
      BY <1>1, <1>2, <1>4, <1>7
    <3> QED  BY <1>1, <1>2, <2>1, <3>1, LaterTrans DEF L
  <2> QED  BY <1>1, <1>2, <1>4, <1>7, <2>1
<1>8. ASSUME NEW i \in Indexes'
      PROVE  /\ L(cache'[events'[i].name], events'[i].object)
             /\ L(events'[i].object, dev'[events'[i].name])
             /\ \A j \in Indexes' :
                  i < j /\ events'[i].name = events'[j].name =>
                    L(events'[i].object, events'[j].object)
  <2>1. i + 1 \in Indexes /\ 1 < i + 1 /\ events'[i] = events[i + 1]
    BY <1>1, <1>3
  <2>2. L(cache'[events'[i].name], events'[i].object)
    <3>1. CASE events[i + 1].name = d0  BY <1>1, <1>4, <2>1, <3>1
    <3>2. CASE events[i + 1].name # d0  BY <1>1, <1>4, <1>5, <2>1, <3>2
    <3> QED  BY <3>1, <3>2
  <2>3. L(events'[i].object, dev'[events'[i].name])  BY <1>2, <1>4, <2>1
  <2>4. ASSUME NEW j \in Indexes', i < j, events'[i].name = events'[j].name
        PROVE  L(events'[i].object, events'[j].object)
    <3>1. j + 1 \in Indexes /\ i + 1 < j + 1 /\ events'[j] = events[j + 1]
      BY <1>1, <1>3, <2>4
    <3> QED  BY <1>4, <2>1, <2>4, <3>1
  <2> QED  BY <2>2, <2>3, <2>4
<1> QED
  BY <1>2, <1>6, <1>7, <1>8
  DEF InOrder, L, Later, Open, Done, Lost, deviceFailed

(* The steps of the system while nobody recovers.                          *)
Ends ==
  /\ pc' = "idle" /\ UNCHANGED <<dev, events, cache>>
  /\ counts'.resumes = counts.resumes
  /\ \/ ro' = ro
     \/ /\ pc # "idle" /\ todo = {}
        /\ ro'.phase = "Paused" <=> pc = "freeze"

Writes(d, o) ==
  /\ Wrote(d, o) /\ Later(counts'.resumes, dev[d], o)
  /\ counts'.resumes = 0 => counts.resumes = 0
  /\ \/ /\ Open(o) <=> Open(dev[d])
        /\ \A e \in todo \ todo' : view[e] = dev[e]
        /\ pc = "push" => todo' = todo
     \/ Push

Rests ==
  /\ UNCHANGED <<dev, events, cache, ro, pass, fresh>>
  /\ counts'.resumes = counts.resumes

LEMMA SteadySteps ==
  ASSUME ~recovered', Base, Blame, [Next]_vars
  PROVE  \/ List
         \/ \E d \in Devices : \E o \in Objects : Writes(d, o)
         \/ CacheCatchesUp
         \/ Ends
         \/ Rests
<1>0. TypeOK /\ Replay /\ Plan  BY DEF Base
<1>1. CASE Push
  <2>1. PICK d \in todo :
          /\ d \in Devices /\ Open(dev[d])
          /\ [dev[d] EXCEPT !.desired = Target] \in Objects
          /\ Wrote(d, [dev[d] EXCEPT !.desired = Target])
          /\ UNCHANGED <<agents, history, counts>>
    BY <1>1, PushOf
  <2> DEFINE o == [dev[d] EXCEPT !.desired = Target]
  <2>2. dev[d] \in Objects  BY <1>0, <2>1 DEF TypeOK
  <2>3. /\ o \in Objects /\ Wrote(d, o) /\ o.desired = Target
        /\ o.dark = dev[d].dark /\ o.synced = dev[d].synced
        /\ o.current = dev[d].current /\ o.paused = dev[d].paused
    BY <2>1, <2>2 DEF Objects
  <2> HIDE DEF o
  <2>4. Later(counts'.resumes, dev[d], o)
    BY <2>1, <2>3 DEF Later, Open, Done, Lost
  <2> QED  BY <1>1, <2>1, <2>3, <2>4 DEF Writes
<1>2. CASE Freeze
  <2>1. PICK d \in todo :
          /\ d \in Devices /\ pc = "freeze"
          /\ view[d] = dev[d] /\ todo' = todo \ {d}
          /\ [dev[d] EXCEPT !.paused = TRUE] \in Objects
          /\ Wrote(d, [dev[d] EXCEPT !.paused = TRUE])
          /\ UNCHANGED <<tally, agents, history, counts>>
    BY <1>2, FreezeOf
  <2> DEFINE o == [dev[d] EXCEPT !.paused = TRUE]
  <2>2. dev[d] \in Objects  BY <1>0, <2>1 DEF TypeOK
  <2>3. /\ o \in Objects /\ Wrote(d, o) /\ o.desired = dev[d].desired
        /\ o.dark = dev[d].dark /\ o.synced = dev[d].synced
        /\ o.current = dev[d].current /\ o.paused
    BY <2>1, <2>2 DEF Objects
  <2> HIDE DEF o
  <2>4. Later(counts'.resumes, dev[d], o) /\ (Open(o) <=> Open(dev[d]))
    BY <2>1, <2>3 DEF Later, Open, Done, Lost, deviceFailed
  <2> QED  BY <2>1, <2>3, <2>4 DEF Writes
<1>3. CASE Conflict  BY <1>3 DEF Conflict, EndPass, Ends
<1>4. CASE WriteStatus
  <2>1. ro'.phase = "Paused" <=> pc = "freeze"
    BY <1>4 DEF WriteStatus, Phase
  <2> QED  BY <1>4, <2>1 DEF WriteStatus, EndPass, Ends
<1>5. CASE Abort
  <2>1. counts \in Counters  BY <1>0 DEF TypeOK, Counters
  <2>2. counts' = [counts EXCEPT !.aborts = @ + 1]  BY <1>5 DEF Abort
  <2>3. counts'.resumes = counts.resumes  BY <2>1, <2>2 DEF Counters
  <2> QED  BY <1>5, <2>3 DEF Abort, EndPass, Ends
<1>6. ASSUME NEW d \in Devices, Outside(d)
      PROVE  \E o \in Objects : Writes(d, o)
  BY <1>0, <1>6, OutsideLater DEF Writes
<1>7. ASSUME NEW d \in Devices, Unheard(d) PROVE Rests
  BY <1>0, <1>7, UnheardOf DEF Rests
<1>8. CASE UNCHANGED vars  BY <1>8 DEF Rests, vars
<1> QED  BY <1>1, <1>2, <1>3, <1>4, <1>5, <1>6, <1>7, <1>8, Steps

LEMMA InOrderStep ==
  ASSUME ~recovered', Base, Blame, InOrder, [Next]_vars
  PROVE  InOrder'
<1>0. TypeOK /\ Replay  BY DEF Base
<1>1. CASE List
  <2>1. view' = cache /\ UNCHANGED <<dev, events, cache, counts>>
    BY <1>0, <1>1, ListOf
  <2>2. \A d \in Devices : Later(counts'.resumes, view'[d], cache'[d])
    BY <2>1, LaterSame
  <2> QED
    BY <2>1, <2>2
    DEF InOrder, Indexes, Later, Open, Done, Lost, deviceFailed
<1>2. CASE Ends
  BY <1>2 DEF Ends, InOrder, Indexes, Later, Open, Done, Lost, deviceFailed
<1>3. CASE Rests
  BY <1>3 DEF Rests, pass, InOrder, Indexes, Later, Open, Done, Lost,
              deviceFailed
<1>4. ASSUME NEW d \in Devices, NEW o \in Objects, Writes(d, o)
      PROVE  InOrder'
  BY <1>0, <1>4, WroteInOrder DEF Writes
<1> QED  BY <1>0, <1>1, <1>2, <1>3, <1>4, SteadySteps, CatchUpInOrder

LEMMA UnpushedStep ==
  ASSUME ~recovered', Base, Blame, Unpushed, [Next]_vars
  PROVE  Unpushed'
<1>0. TypeOK /\ Replay  BY DEF Base
<1>1. CASE List
  <2>1. /\ view' = cache /\ UNCHANGED <<dev, events, cache>>
        /\ pc' = "freeze" => todo' = {d \in Devices : ~cache[d].paused}
    BY <1>0, <1>1, ListOf
  <2>2. ASSUME pc' = "freeze", NEW d \in Devices \ todo', Open(view'[d])
        PROVE  Open(dev'[d])
    BY <2>1, <2>2 DEF Unpushed
  <2> QED  BY <2>1, <2>2 DEF Unpushed, Indexes, Open
<1>2. CASE Ends  BY <1>2 DEF Ends, Unpushed, Indexes, Open
<1>3. CASE Rests  BY <1>3 DEF Rests, pass, Unpushed, Indexes, Open
<1>4. CASE CacheCatchesUp
  <2>1. /\ 1 \in Indexes /\ events[1].name \in Devices
        /\ cache'[events[1].name] = events[1].object
        /\ \A d \in Devices : d # events[1].name => cache'[d] = cache[d]
        /\ \A i \in Indexes' : i + 1 \in Indexes
                               /\ events'[i] = events[i + 1]
    BY <1>0, <1>4, CatchUpOf
  <2>2. UNCHANGED <<dev, pc, view, todo>>  BY <1>4 DEF CacheCatchesUp, pass
  <2>3. \A d \in Devices :
          Open(cache'[d]) /\ cache'[d].paused => Open(dev[d])
    BY <2>1 DEF Unpushed
  <2>4. \A i \in Indexes' :
          Open(events'[i].object) /\ events'[i].object.paused =>
            Open(dev[events'[i].name])
    BY <2>1 DEF Unpushed
  <2> QED  BY <2>2, <2>3, <2>4 DEF Unpushed, Open
<1>5. ASSUME NEW d \in Devices, NEW o \in Objects, Writes(d, o)
      PROVE  Unpushed'
  <2>1. Write(d, o) /\ UNCHANGED <<cache, ro, pc, view>>
    BY <1>5 DEF Writes, Wrote
  <2>2. /\ dev'[d] = o /\ \A e \in Devices : e # d => dev'[e] = dev[e]
        /\ events'[Len(events) + 1] = [name |-> d, object |-> o]
        /\ \A i \in Indexes : events'[i] = events[i]
        /\ \A i \in Indexes' : i \in Indexes \/ i = Len(events) + 1
    BY <1>0, <2>1, WriteOf
  <2>3. \A i \in Indexes : events[i].name \in Devices  BY <1>0, EventType
  <2>4. SUFFICES
          /\ \A e \in Devices :
               Open(cache[e]) /\ cache[e].paused => Open(dev'[e])
          /\ \A i \in Indexes :
               Open(events[i].object) /\ events[i].object.paused =>
                 Open(dev'[events[i].name])
          /\ pc = "freeze" =>
               \A e \in Devices \ todo' : Open(view[e]) => Open(dev'[e])
    <3>1. ASSUME NEW i \in Indexes', Open(events'[i].object),
                 events'[i].object.paused
          PROVE  Open(dev'[events'[i].name])
      BY <2>2, <2>3, <2>4, <3>1
    <3> QED  BY <2>1, <2>4, <3>1 DEF Unpushed, Open
  <2>5. CASE /\ Open(o) <=> Open(dev[d])
             /\ \A e \in todo \ todo' : view[e] = dev[e]
    <3>1. \A e \in Devices : Open(dev'[e]) <=> Open(dev[e])  BY <2>2, <2>5
    <3> QED  BY <2>3, <2>5, <3>1 DEF Unpushed
  <2>6. CASE Push
    <3>1. PICK d1 \in todo :
            /\ d1 \in Devices /\ pc = "push" /\ Silent(d1)
            /\ cache[d1] = dev[d1] /\ ~dev[d1].paused
            /\ [dev[d1] EXCEPT !.desired = Target] \in Objects
            /\ Wrote(d1, [dev[d1] EXCEPT !.desired = Target])
      BY <2>6, PushOf
    <3>2. \A e \in Devices : e # d1 => dev'[e] = dev[e]
      BY <1>0, <3>1, WriteOf DEF Wrote
    <3>3. \A i \in Indexes : events[i].name # d1  BY <3>1 DEF Silent
    <3> QED  BY <2>3, <3>1, <3>2, <3>3 DEF Unpushed
  <2> QED  BY <1>5, <2>5, <2>6 DEF Writes
<1> QED  BY <1>1, <1>2, <1>3, <1>4, <1>5, SteadySteps

(* A cache that has all pushes and none too many trips like the list did.  *)
LEMMA StuckStep ==
  ASSUME ~recovered', Base, Blame, Steady, [Next]_vars
  PROVE  Stuck'
<1>0. TypeOK /\ Replay /\ Plan /\ InOrder /\ Unpushed /\ Stuck
  BY DEF Base, Steady
<1> SUFFICES ASSUME ro'.phase = "Paused"
             PROVE  /\ Trips(Tally(cache'))
                    /\ \A d \in Devices : Open(cache'[d]) => Open(dev'[d])
                    /\ pc' # "push"
  <2>1. Tally(cache)' = Tally(cache')
    BY DEF Tally, Untargeted, Failed, Pending, Reached, deviceFailed
  <2> QED  BY <2>1 DEF Stuck, Trips, Open
<1>1. CASE List
  <2>1. /\ pc' \in {"freeze", "push"}
        /\ pc' = "push" => ~Trips(Tally(cache))
        /\ UNCHANGED <<dev, cache, ro>>
    BY <1>0, <1>1, ListOf
  <2> QED  BY <1>0, <2>1 DEF Stuck
<1>2. CASE Ends
  <2>1. pc' # "push" /\ UNCHANGED <<dev, cache>>  BY <1>2 DEF Ends
  <2>2. CASE ro' = ro  BY <1>0, <2>1, <2>2 DEF Stuck
  <2>3. CASE pc = "freeze" /\ todo = {}
    <3>1. Trips(Tally(view))  BY <1>0, <2>3 DEF Plan
    <3>2. \A d \in Devices : Open(view[d]) => Open(dev[d])
      BY <1>0, <2>3 DEF Unpushed
    <3>3. \A d \in Devices :
            /\ Open(dev[d]) => Open(cache[d])
            /\ Open(cache[d]) => Open(view[d])
            /\ Lost(view[d]) => Lost(cache[d])
      BY <1>0, <2>3 DEF InOrder, Later
    <3>4. Trips(Tally(cache))  BY <3>1, <3>2, <3>3, TripsStill
    <3> QED  BY <2>1, <3>2, <3>3, <3>4
  <2> QED  BY <1>2, <2>2, <2>3 DEF Ends
<1>3. CASE Rests  BY <1>0, <1>3 DEF Rests, pass, Stuck
<1>4. CASE CacheCatchesUp
  <2>1. /\ 1 \in Indexes /\ events[1].name \in Devices
        /\ cache'[events[1].name] = events[1].object
        /\ \A d \in Devices : d # events[1].name => cache'[d] = cache[d]
    BY <1>0, <1>4, CatchUpOf
  <2>2. UNCHANGED <<dev, ro, pc>>  BY <1>4 DEF CacheCatchesUp, pass
  <2>3. /\ Trips(Tally(cache)) /\ pc # "push"
        /\ \A d \in Devices : Open(cache[d]) => Open(dev[d])
    BY <1>0, <2>2 DEF Stuck
  <2>4. ASSUME NEW d \in Devices
        PROVE  /\ Open(cache'[d]) <=> Open(cache[d])
               /\ Lost(cache[d]) => Lost(cache'[d])
    <3>1. CASE d = events[1].name
      <4>1. /\ Open(events[1].object) => Open(cache[d])
            /\ Lost(cache[d]) => Lost(events[1].object)
            /\ Open(dev[d]) => Open(events[1].object)
        BY <1>0, <2>1, <3>1 DEF InOrder, Later
      <4> QED  BY <2>1, <2>3, <3>1, <4>1
    <3> QED  BY <2>1, <3>1
  <2>5. Trips(Tally(cache'))  BY <2>3, <2>4, TripsStill
  <2> QED  BY <2>2, <2>3, <2>4, <2>5
<1>5. ASSUME NEW d \in Devices, NEW o \in Objects, Writes(d, o)
      PROVE  /\ Trips(Tally(cache'))
             /\ \A e \in Devices : Open(cache'[e]) => Open(dev'[e])
             /\ pc' # "push"
  <2>1. Write(d, o) /\ UNCHANGED <<cache, ro, pc, view>>
    BY <1>5 DEF Writes, Wrote
  <2>2. /\ Trips(Tally(cache)) /\ pc # "push"
        /\ \A e \in Devices : Open(cache[e]) => Open(dev[e])
    BY <1>0, <2>1 DEF Stuck
  <2>3. Open(o) <=> Open(dev[d])  BY <1>5, <2>2 DEF Writes, Push
  <2>4. dev'[d] = o /\ \A e \in Devices : e # d => dev'[e] = dev[e]
    BY <1>0, <2>1, WriteOf
  <2> QED  BY <2>1, <2>2, <2>3, <2>4
<1> QED  BY <1>0, <1>1, <1>2, <1>3, <1>4, <1>5, SteadySteps

LEMMA SteadyInit ==
  ASSUME Init
  PROVE  Steady
<1>1. /\ dev \in [Devices -> InitialDevices] /\ cache = dev /\ events = << >>
      /\ pc = "idle" /\ ro.phase = ""
  BY DEF Init
<1>2. Indexes = {}
  <2>1. Len(events) = 0  BY <1>1
  <2> QED  BY <2>1 DEF Indexes
<1>3. \A d \in Devices : Later(counts.resumes, cache[d], dev[d])
  BY <1>1, LaterSame
<1> QED
  BY <1>1, <1>2, <1>3 DEF Steady, InOrder, Unpushed, Stuck

LEMMA SteadyHolds ==
  ASSUME SoundFleet
  PROVE  Spec => [](Base /\ Blame /\ (~recovered => Steady))
<1> DEFINE Inv == ~recovered => Steady
<1>1. Base /\ Blame /\ Inv /\ [Next]_vars => Inv'
  <2> SUFFICES ASSUME Base, Blame, Inv, [Next]_vars, ~recovered'
               PROVE  Steady'
    OBVIOUS
  <2>1. Steady  BY RecoveredStays
  <2> QED  BY <2>1, InOrderStep, UnpushedStep, StuckStep DEF Steady
<1>2. Init => Inv  BY SteadyInit
<1> QED
  BY <1>1, <1>2, BaseInit, BaseStep, BlameInit, BlameStep, PTL DEF Spec

(* fleetrollout_controller.go:97: the breaker is recomputed in every pass, *)
(* and still a rollout leaves Paused only after a device that counted as   *)
(* failed has recovered: no lag of the cache, no freeze cut short, no lost *)
(* report and no person resuming devices un-trips it.                      *)
THEOREM BreakerHolds ==
  ASSUME SoundFleet
  PROVE  Spec => UntripsForCause
<1>1. ASSUME Base, Steady, [Next]_vars, ro.phase = "Paused"
      PROVE  ro'.phase = "Paused"
  <2>1. pc # "push" /\ pc \in {"idle", "freeze", "push"}
    BY <1>1 DEF Base, TypeOK, Steady, Stuck
  <2>2. CASE WriteStatus
    <3>1. pc = "freeze" /\ ro'.phase = Phase
      BY <2>1, <2>2 DEF WriteStatus
    <3> QED  BY <3>1 DEF Phase
  <2>3. CASE UNCHANGED ro  BY <1>1, <2>3
  <2> QED
    BY <1>1, <2>2, <2>3
    DEF Next, Reconcile, List, Conflict, Freeze, Push, Abort, CacheCatchesUp,
        Announce, Succeed, Fail, LoseReport, GoDark, ComeBack, SetPaused, vars
<1>2. Base /\ (~recovered => Steady) /\ [Next]_vars =>
        [ro.phase = "Paused" /\ ro'.phase # "Paused" => recovered]_vars
  BY <1>1
<1> QED  BY <1>2, SteadyHolds, PTL DEF Spec, UntripsForCause

-----------------------------------------------------------------------------
(* The blast radius.                                                       *)

LEMMA FirstByNameStep ==
  ASSUME ~recovered', Base, Blame, Steady, FirstByName, [Next]_vars
  PROVE  FirstByName'
<1>0. TypeOK /\ Replay /\ Plan /\ InOrder /\ Unpushed
  BY DEF Base, Steady
<1> DEFINE Missed(e) == Open(cache[e]) /\ ~Open(dev[e])
           Missed1(e) == Open(cache'[e]) /\ ~Open(dev'[e])
           Known == \A e \in Devices : Open(view[e]) /\ ~Open(dev[e]) =>
                      e \in Batch(view) \ todo
           Known1 == \A e \in Devices : Open(view'[e]) /\ ~Open(dev'[e]) =>
                       e \in Batch(view') \ todo'
<1> SUFFICES
      ASSUME counts'.resumes = 0
      PROVE  /\ \A d, e \in Devices :
                  d < e /\ Missed1(e) /\ Open(cache'[d]) /\ ~cache'[d].paused
                    => ~Open(dev'[d])
             /\ pc' = "push" /\ todo' # {} => ~fresh'[Min(todo')] \/ Known1
  <2>1. Batch(view)' = Batch(view') /\ Min(todo)' = Min(todo')
    BY DEF Batch, Untargeted, Capacity, InFlight, Failed, Pending, Reached,
           deviceFailed, Min
  <2> QED  BY <2>1 DEF FirstByName, Open
<1>1. Devices \subseteq Nat  BY RolloutAssumption
<1>2. counts.resumes = 0 =>
        /\ \A d, e \in Devices :
             d < e /\ Missed(e) /\ Open(cache[d]) /\ ~cache[d].paused
               => ~Open(dev[d])
        /\ pc = "push" /\ todo # {} => ~fresh[Min(todo)] \/ Known
  BY DEF FirstByName
<1>3. CASE List
  <2>1. /\ view' = cache /\ UNCHANGED <<dev, events, cache, counts>>
        /\ pc' = "push" => todo' = Batch(cache)
        /\ \A d \in Devices : fresh'[d] <=> Silent(d)
    BY <1>0, <1>3, ListOf
  <2>2. ASSUME pc' = "push", todo' # {}, fresh'[Min(todo')],
               NEW e \in Devices, Missed(e)
        PROVE  FALSE
    <3> DEFINE m == Min(todo')
    <3>1. todo' = Batch(cache) /\ todo' \in SUBSET Devices
      BY <2>1, <2>2, BatchOf
    <3>2. m \in todo' /\ \A y \in todo' : m <= y
      <4>1. todo' \in SUBSET Nat  BY <1>1, <3>1
      <4> QED  BY <2>2, <4>1, MinOf
    <3>3. fresh'[m]  BY <2>2
    <3> HIDE DEF m
    <3>4. m \in Devices /\ Silent(m) /\ Open(cache[m]) /\ ~cache[m].paused
      BY <2>1, <3>1, <3>2, <3>3, BatchOf
    <3>5. Open(dev[m])  BY <1>0, <3>4 DEF Replay
    <3>6. ~(m < e)  BY <1>2, <2>1, <2>2, <3>4, <3>5
    <3>7. m # e  BY <2>2, <3>5
    <3>8. ~cache[e].paused  BY <1>0, <2>2 DEF Unpushed
    <3>9. m \in Nat /\ e \in Nat  BY <1>1, <3>4
    <3>10. e <= m /\ ~(m <= e)  BY <3>6, <3>7, <3>9
    <3>11. e \in Batch(cache)
      BY <2>2, <3>1, <3>2, <3>4, <3>8, <3>10, BatchOf
    <3> QED  BY <3>1, <3>2, <3>10, <3>11
  <2> QED  BY <1>2, <2>1, <2>2
<1>4. CASE CacheCatchesUp
  <2>1. /\ 1 \in Indexes /\ events[1].name \in Devices
        /\ cache'[events[1].name] = events[1].object
        /\ \A d \in Devices : d # events[1].name => cache'[d] = cache[d]
    BY <1>0, <1>4, CatchUpOf
  <2>2. UNCHANGED <<dev, pc, view, todo, fresh, counts>>
    BY <1>4 DEF CacheCatchesUp, pass
  <2>3. \A d \in Devices : /\ Open(cache'[d]) => Open(cache[d])
                           /\ cache[d].paused => cache'[d].paused
    BY <1>0, <2>1, <2>2 DEF InOrder, Later
  <2> QED  BY <1>2, <2>2, <2>3
<1>5. CASE Ends  BY <1>2, <1>5 DEF Ends
<1>6. CASE Rests  BY <1>2, <1>6 DEF Rests, pass
<1>7. CASE Push
  <2>1. PICK m \in todo :
          /\ m \in Devices /\ m = Min(todo) /\ \A y \in todo : m <= y
          /\ pc = "push" /\ m \in Batch(view) /\ fresh[m]
          /\ [dev[m] EXCEPT !.desired = Target] \in Objects
          /\ Wrote(m, [dev[m] EXCEPT !.desired = Target])
          /\ todo' = todo \ {m} /\ UNCHANGED <<agents, history, counts>>
    BY <1>7, PushOf
  <2>2. /\ dev'[m] = [dev[m] EXCEPT !.desired = Target]
        /\ \A e \in Devices : e # m => dev'[e] = dev[e]
        /\ UNCHANGED <<cache, pc, view>>
    BY <1>0, <2>1, WriteOf DEF Wrote
  <2>3. ~Open(dev'[m])
    <3>1. dev[m] \in Objects  BY <1>0, <2>1 DEF TypeOK
    <3>2. dev'[m].desired = Target  BY <2>2, <3>1 DEF Objects
    <3> QED  BY <3>2 DEF Open
  <2>4. counts.resumes = 0  BY <2>1
  <2>5. ASSUME NEW d \in Devices, d < m, Open(cache[d]), ~cache[d].paused
        PROVE  ~Open(dev[d])
    <3>1. Open(view[d]) /\ ~view[d].paused
      BY <1>0, <2>1, <2>4, <2>5 DEF InOrder, Later
    <3>2. d \in Nat /\ m \in Nat  BY <1>1, <2>1
    <3>3. d <= m /\ ~(m <= d)  BY <2>5, <3>2
    <3>4. d \in Batch(view)  BY <2>1, <3>1, <3>3, BatchOf
    <3>5. dev[d].desired = Target  BY <1>0, <2>1, <3>3, <3>4 DEF Plan
    <3> QED  BY <3>5 DEF Open
  <2>6. ASSUME NEW d \in Devices, NEW e \in Devices, d < e, Missed1(e),
               Open(cache'[d]), ~cache'[d].paused
        PROVE  ~Open(dev'[d])
    <3>1. CASE d = m  BY <2>3, <3>1
    <3>2. CASE d # m /\ e = m  BY <2>2, <2>5, <2>6, <3>2
    <3>3. CASE d # m /\ e # m  BY <1>2, <2>2, <2>4, <2>6, <3>3
    <3> QED  BY <3>1, <3>2, <3>3
  <2>7. Known  BY <1>2, <2>1, <2>4
  <2>8. Known1  BY <2>1, <2>2, <2>7
  <2> QED  BY <2>6, <2>8
<1>8. ASSUME NEW d \in Devices, NEW o \in Objects, Writes(d, o), ~Push
      PROVE  /\ \A a, e \in Devices :
                  a < e /\ Missed1(e) /\ Open(cache'[a]) /\ ~cache'[a].paused
                    => ~Open(dev'[a])
             /\ pc' = "push" /\ todo' # {} => ~fresh'[Min(todo')] \/ Known1
  <2>1. /\ Write(d, o) /\ UNCHANGED <<cache, pc, view>>
        /\ Open(o) <=> Open(dev[d])
        /\ pc = "push" => todo' = todo
        /\ counts.resumes = 0
    BY <1>8 DEF Writes, Wrote
  <2>2. /\ dev'[d] = o /\ \A e \in Devices : e # d => dev'[e] = dev[e]
        /\ ~fresh'[d] /\ \A e \in Devices : e # d => fresh'[e] = fresh[e]
    BY <1>0, <2>1, WriteOf
  <2>3. \A e \in Devices : Open(dev'[e]) <=> Open(dev[e])  BY <2>1, <2>2
  <2>4. \A a, e \in Devices :
          a < e /\ Missed1(e) /\ Open(cache'[a]) /\ ~cache'[a].paused
            => ~Open(dev'[a])
    BY <1>2, <2>1, <2>3
  <2>5. ASSUME pc' = "push", todo' # {}, fresh'[Min(todo')]
        PROVE  Known1
    <3>1. pc = "push" /\ todo' = todo /\ todo # {}  BY <2>1, <2>5
    <3>2. Min(todo) \in Devices  BY <1>0, <3>1, Next1
    <3>3. fresh[Min(todo)]  BY <2>2, <2>5, <3>1, <3>2
    <3>4. Known  BY <1>2, <2>1, <3>1, <3>3
    <3> QED  BY <2>1, <2>3, <3>1, <3>4
  <2> QED  BY <2>4, <2>5
<1> QED
  BY <1>0, <1>3, <1>4, <1>5, <1>6, <1>7, <1>8, SteadySteps

LEMMA BlastRadiusStep ==
  ASSUME ~recovered', Base, Blame, Steady, FirstByName, BlastRadius,
         ~recovered, [Next]_vars
  PROVE  BlastRadius'
<1>0. TypeOK /\ Replay /\ Plan /\ InOrder /\ Unpushed
  BY DEF Base, Steady
<1> SUFFICES ASSUME counts'.resumes = 0
             PROVE  Cardinality(InFlight(dev')) <= MaxUnavailable
  <2>1. InFlight(dev)' = InFlight(dev')
    BY DEF InFlight, Failed, Pending, Reached, Untargeted, deviceFailed
  <2> QED  BY <2>1 DEF BlastRadius, CapsUnavailable
<1>1. counts.resumes = 0 => Cardinality(InFlight(dev)) <= MaxUnavailable
  BY DEF BlastRadius, CapsUnavailable
<1>2. ASSUME UNCHANGED <<dev, counts>> PROVE
        Cardinality(InFlight(dev')) <= MaxUnavailable
  BY <1>1, <1>2
<1>3. CASE List  BY <1>2, <1>3 DEF List
<1>4. CASE CacheCatchesUp  BY <1>2, <1>4 DEF CacheCatchesUp
<1>5. CASE Ends  BY <1>1, <1>5 DEF Ends
<1>6. CASE Rests  BY <1>1, <1>6 DEF Rests
<1>7. CASE Push
  <2>1. PICK m \in todo :
          /\ m \in Devices /\ m = Min(todo) /\ todo # {}
          /\ pc = "push" /\ m \in Batch(view) /\ fresh[m]
          /\ [dev[m] EXCEPT !.desired = Target] \in Objects
          /\ Wrote(m, [dev[m] EXCEPT !.desired = Target])
          /\ UNCHANGED <<agents, history, counts>>
    BY <1>7, PushOf
  <2>2. \A e \in Devices : e # m => dev'[e] = dev[e]
    BY <1>0, <2>1, WriteOf DEF Wrote
  <2>3. \A e \in Devices :
          Open(view[e]) /\ ~Open(dev[e]) => e \in Batch(view)
    BY <2>1 DEF FirstByName
  <2>4. ASSUME NEW e \in Devices, Busy(dev'[e]), e \notin Batch(view)
        PROVE  Busy(view[e])
    <3>1. Busy(dev[e]) /\ ~Open(view[e])
      BY <2>1, <2>2, <2>3, <2>4 DEF Busy, Open
    <3>2. /\ Done(view[e]) => Done(dev[e])
          /\ Lost(view[e]) => Lost(dev[e])
      BY <1>0, <2>1 DEF InOrder, Later
    <3> QED  BY <3>1, <3>2 DEF Busy, Open, Done, Lost
  <2> DEFINE F == InFlight(view)
             B == Batch(view)
             N == InFlight(dev')
  <2>5. /\ F \in SUBSET Devices /\ B \in SUBSET Devices
        /\ N \in SUBSET (F \cup B)
    BY <2>4, Classes, BatchOf
  <2>6. Cardinality(B) + Cardinality(F) <= MaxUnavailable
    BY <2>1, BatchOf
  <2> HIDE DEF F, B, N
  <2>7. /\ IsFiniteSet(F) /\ IsFiniteSet(B)
        /\ Cardinality(F) \in Nat /\ Cardinality(B) \in Nat
        /\ F \cup B \in SUBSET Devices /\ F \cap B \in SUBSET Devices
    BY <2>5, Finite
  <2>8. Cardinality(F \cup B) =
          Cardinality(F) + Cardinality(B) - Cardinality(F \cap B)
    BY <2>7, FS_Union
  <2>9. /\ Cardinality(F \cap B) \in Nat /\ Cardinality(N) \in Nat
        /\ Cardinality(N) <= Cardinality(F \cup B)
    <3>1. N \in SUBSET Devices  BY <2>5, <2>7
    <3> QED  BY <2>5, <2>7, <3>1, Finite, Grows
  <2>10. MaxUnavailable \in Nat  BY RolloutAssumption
  <2>11. Cardinality(N) <= MaxUnavailable
    BY <2>6, <2>7, <2>8, <2>9, <2>10
  <2> QED  BY <2>11 DEF N
<1>8. ASSUME NEW d \in Devices, NEW o \in Objects, Writes(d, o), ~Push
      PROVE  Cardinality(InFlight(dev')) <= MaxUnavailable
  <2>1. /\ Write(d, o) /\ counts.resumes = 0
        /\ Open(o) <=> Open(dev[d])
        /\ Later(counts'.resumes, dev[d], o)
    BY <1>8 DEF Writes, Wrote
  <2>2. dev'[d] = o /\ \A e \in Devices : e # d => dev'[e] = dev[e]
    BY <1>0, <2>1, WriteOf
  <2>3. Busy(o) => Busy(dev[d])
    BY <2>1 DEF Later, Busy, Open, Done, Lost
  <2> DEFINE F == InFlight(dev)
             N == InFlight(dev')
  <2>4. F \in SUBSET Devices /\ N \in SUBSET F  BY <2>2, <2>3, Classes
  <2>5. Cardinality(F) <= MaxUnavailable  BY <1>1, <2>1
  <2> HIDE DEF F, N
  <2>6. /\ Cardinality(N) <= Cardinality(F) /\ N \in SUBSET Devices
    BY <2>4, Grows
  <2>7. Cardinality(N) \in Nat /\ Cardinality(F) \in Nat
    BY <2>4, <2>6, Finite
  <2>8. MaxUnavailable \in Nat  BY RolloutAssumption
  <2>9. Cardinality(N) <= MaxUnavailable  BY <2>5, <2>6, <2>7, <2>8
  <2> QED  BY <2>9 DEF N
<1> QED
  BY <1>0, <1>3, <1>4, <1>5, <1>6, <1>7, <1>8, SteadySteps

LEMMA BlastRadiusInit ==
  ASSUME SoundFleet, Init
  PROVE  FirstByName /\ BlastRadius
<1>1. /\ dev \in [Devices -> InitialDevices] /\ cache = dev /\ pc = "idle"
  BY DEF Init
<1>2. FirstByName  BY <1>1 DEF FirstByName
<1>3. InFlight(dev) = {}
  <2>1. \A d \in Devices : ~Busy(dev[d])  BY <1>1 DEF SoundFleet, Busy
  <2> QED  BY <2>1, Classes
<1>4. Cardinality(InFlight(dev)) = 0  BY <1>3, FS_EmptySet
<1>5. MaxUnavailable \in Nat  BY RolloutAssumption
<1> QED  BY <1>2, <1>4, <1>5 DEF BlastRadius, CapsUnavailable

(* fleetrollout_types.go:64, "maxUnavailable caps how many devices may be  *)
(* mid-upgrade at once": until somebody resumes a device or a failed one   *)
(* recovers, the devices really in flight never exceed the cap, in any     *)
(* fleet, with any lag of the cache, any failures and lost reports and any *)
(* restarts of the controller.                                             *)
THEOREM BlastRadiusHolds ==
  ASSUME SoundFleet
  PROVE  Spec => []BlastRadius
<1> DEFINE Inv == Base /\ Blame /\ (~recovered => Steady)
           Cap == ~recovered => FirstByName /\ BlastRadius
<1>1. Spec => []Inv  BY SteadyHolds
<1>2. Init => Cap  BY BlastRadiusInit
<1>3. Inv /\ Cap /\ [Next]_vars => Cap'
  <2> SUFFICES ASSUME Inv, Cap, [Next]_vars, ~recovered'
               PROVE  (FirstByName /\ BlastRadius)'
    OBVIOUS
  <2>1. ~recovered /\ Steady /\ FirstByName /\ BlastRadius
    BY RecoveredStays
  <2> QED  BY <2>1, FirstByNameStep, BlastRadiusStep
<1>4. Cap => BlastRadius  BY DEF BlastRadius
<1> QED  BY <1>1, <1>2, <1>3, <1>4, PTL DEF Spec
=============================================================================
