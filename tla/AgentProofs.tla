------------------------------ MODULE AgentProofs ------------------------------
(***************************************************************************)
(* Theorems about Agent, for any number of goroutines, versions, images    *)
(* and conflicts, and any bounds on the rest of the world.                 *)
(***************************************************************************)
EXTENDS Agent, TLAPS

(* The types of TypeOK as sets, and what it does not say: a trial that is  *)
(* there has a version.                                                    *)
PollType == {PollIdle} \cup
  [pc : PollCalls, spec : SpecType, gen : 1..MaxGen,
   current : Versions \cup {Factory, Absent}, slot : {"A", "B", Absent}]
JobType == {NoJob} \cup [pc : JobCalls, spec : SpecType]
GetType == [pc : {"get"}, write : Writes, tries : 0..(MaxAttempts - 1)]
PutType == [pc : {"put"}, write : Writes, phase : BOOLEAN,
            tries : 0..(MaxAttempts - 1), fresh : BOOLEAN,
            status : StatusType]
CallType == {NoCall} \cup GetType \cup PutType
TrialType == {Store!NoFirmware} \cup
  [version : Versions, image : Images \cup {Garbage}]
InstalledType == [version : Versions \cup {Factory},
                  image : Images \cup {Absent}]
CountType == [beats : 0..MaxBeats, foreign : 0..MaxForeign,
              losses : 0..MaxLosses, crashes : 0..MaxCrashes,
              dropped : 0..1]
States == {"Idle", "Downloading", "Verifying", "Flashing", "Confirming",
           "Failed"}

TypedObject ==
  /\ spec \in SpecType /\ gen \in 1..MaxGen
  /\ status \in StatusType /\ phase \in BOOLEAN
TypedFlash ==
  installed \in InstalledType /\ trial \in TrialType /\ slot \in {"A", "B"}
TypedMemory ==
  /\ fsm \in States /\ upgrading \in BOOLEAN
  /\ lastFailedKey \in Keys \cup {NoKey} /\ lastSeenGen \in 0..MaxGen
Typed ==
  /\ TypedObject /\ TypedFlash /\ TypedMemory
  /\ up \in BOOLEAN /\ poll \in PollType
  /\ job \in [Goroutines -> JobType] /\ call \in [Clients -> CallType]
  /\ counts \in CountType

(* The single-flight guard: at most one transaction, and the flag is up    *)
(* while there is one.                                                     *)
SingleFlight ==
  \A g \in Goroutines : job[g] # NoJob =>
    upgrading /\ \A h \in Goroutines : h # g => job[h] = NoJob

(* Where the FSM is follows from where the transaction is.                 *)
Resting == {"Idle", "Failed"}
Machine ==
  /\ (\A g \in Goroutines : job[g] = NoJob) => fsm \in Resting
  /\ \A g \in Goroutines :
       /\ job[g].pc \in {"announce", "download", "exit"} => fsm \in Resting
       /\ job[g].pc = "verify" => fsm = "Downloading"
       /\ job[g].pc = "flash" => fsm = "Verifying"
       /\ job[g].pc = "confirm" => fsm = "Flashing"

(* A PUT the API server would take carries the operator's part unchanged.  *)
Copies ==
  \A c \in Clients : call[c].pc = "put" /\ call[c].fresh =>
    call[c].phase = phase

(* Generations: what a poll saw, what was evaluated, what is being stamped.*)
Stamps ==
  /\ lastSeenGen <= gen
  /\ poll.pc = "evaluate" => lastSeenGen <= poll.gen
  /\ poll # PollIdle => poll.gen <= gen
  /\ \A c \in Clients : call[c].pc = "put" =>
       call[c].status.observed <= lastSeenGen

(* While the agent has not been killed, no stamp is older than the status. *)
Forward ==
  /\ status.observed <= lastSeenGen
  /\ \A c \in Clients : call[c].pc = "put" /\ call[c].fresh =>
       status.observed <= call[c].status.observed

-----------------------------------------------------------------------------
(* Types.                                                                  *)

LEMMA TypedMeaning == Typed => TypeOK
<1> SUFFICES ASSUME Typed PROVE TypeOK  OBVIOUS
<1>1. /\ spec \in SpecType /\ gen \in 1..MaxGen
      /\ status \in StatusType /\ phase \in BOOLEAN
      /\ slot \in {"A", "B"} /\ up \in BOOLEAN /\ upgrading \in BOOLEAN
      /\ lastFailedKey \in Keys \cup {NoKey} /\ lastSeenGen \in 0..MaxGen
  BY DEF Typed, TypedObject, TypedFlash, TypedMemory
<1>2. /\ installed \in [version : Versions \cup {Factory},
                        image : Images \cup {Absent}]
      /\ trial \in [version : Versions \cup {Absent},
                    image : Images \cup {Absent, Garbage}]
  <2>1. installed \in InstalledType /\ trial \in TrialType
    BY DEF Typed, TypedFlash
  <2> QED  BY <2>1 DEF InstalledType, TrialType, Store!NoFirmware
<1>3. \/ poll = PollIdle
      \/ poll \in [pc : PollCalls, spec : SpecType, gen : 1..MaxGen,
                   current : Versions \cup {Factory, Absent},
                   slot : {"A", "B", Absent}]
  BY DEF Typed, PollType
<1>4. \A g \in Goroutines :
        job[g] = NoJob \/ job[g] \in [pc : JobCalls, spec : SpecType]
  <2>1. \A g \in Goroutines : job[g] \in JobType  BY DEF Typed
  <2> QED  BY <2>1 DEF JobType
<1>5. fsm \in DOMAIN validTransitions
  <2>1. fsm \in States  BY DEF Typed, TypedMemory
  <2> QED  BY <2>1 DEF States, validTransitions
<1>6. \A c \in Clients :
        call[c] = NoCall \/ call[c] \in GetType \/ call[c] \in PutType
  <2>1. \A c \in Clients : call[c] \in CallType  BY DEF Typed
  <2> QED  BY <2>1 DEF CallType
<1>7. counts \in CountType  BY DEF Typed
<1> QED
  BY <1>1, <1>2, <1>3, <1>4, <1>5, <1>6, <1>7
  DEF TypeOK, GetType, PutType, CountType

LEMMA CallKinds ==
  ASSUME Typed, NEW c \in Clients
  PROVE  /\ call[c].pc = "get" => call[c] \in GetType
         /\ call[c].pc = "put" => call[c] \in PutType
<1>1. call[c] \in CallType  BY DEF Typed
<1> QED  BY <1>1 DEF CallType, GetType, PutType, NoCall

(* Writing the object leaves the calls as they are, except for freshness.  *)
LEMMA StaleOf ==
  ASSUME Typed
  PROVE  /\ Stale(call) \in [Clients -> CallType]
         /\ \A c \in Clients :
              /\ Stale(call)[c].pc = "put" =>
                   /\ call[c].pc = "put" /\ ~Stale(call)[c].fresh
                   /\ Stale(call)[c].status = call[c].status
<1> DEFINE S == Stale(call)
<1>1. S = [c \in Clients |->
             IF call[c].pc = "put" THEN [call[c] EXCEPT !.fresh = FALSE]
             ELSE call[c]]
  BY DEF Stale
<1> HIDE DEF S
<1>2. ASSUME NEW c \in Clients
      PROVE  /\ S[c] \in CallType
             /\ S[c].pc = "put" => /\ call[c].pc = "put" /\ ~S[c].fresh
                                   /\ S[c].status = call[c].status
  <2>1. CASE call[c].pc = "put"
    <3>1. call[c] \in PutType  BY <2>1, CallKinds
    <3>2. S[c] = [call[c] EXCEPT !.fresh = FALSE]  BY <1>1, <2>1
    <3>3. S[c] \in PutType /\ ~S[c].fresh /\ S[c].status = call[c].status
      BY <3>1, <3>2 DEF PutType
    <3> QED  BY <2>1, <3>3 DEF CallType
  <2>2. CASE call[c].pc # "put"
    <3>1. S[c] = call[c]  BY <1>1, <2>2
    <3>2. call[c] \in CallType  BY DEF Typed
    <3> QED  BY <2>2, <3>1, <3>2
  <2> QED  BY <2>1, <2>2
<1> QED  BY <1>1, <1>2 DEF S

LEMMA ReportTypes ==
  /\ NoChange \in Writes /\ Progress \in Writes /\ Failure \in Writes
  /\ \A v \in Versions, s \in {"A", "B"} : InSync(v, s) \in Writes
BY DEF NoChange, Progress, Failure, InSync, Writes, Synced

LEMMA MutateOf ==
  ASSUME NEW st \in StatusType, NEW w \in Writes, NEW g \in 0..MaxGen
  PROVE  Mutate(st, w, g) \in StatusType /\ Mutate(st, w, g).observed = g
<1>1. /\ (IF w.current = Absent THEN st.current ELSE w.current)
           \in Versions \cup {Factory, Absent}
      /\ (IF w.slot = Absent THEN st.slot ELSE w.slot) \in {"A", "B", Absent}
      /\ (IF w.synced = "keep" THEN st.synced ELSE w.synced) \in Synced
      /\ (IF w.synced = "keep" THEN st.syncedGen ELSE g) \in 0..MaxGen
  BY DEF StatusType, Writes
<1> QED  BY <1>1 DEF Mutate, StatusType

(* UpdateStatus moves by one of these.  A call that is about to PUT is     *)
(* there already, has just read the object, or has become stale.           *)
Keeps ==
  /\ UNCHANGED <<status, phase>>
  /\ \A c \in Clients : call'[c].pc = "put" => call'[c] = call[c]
Outdates ==
  \A c \in Clients : call'[c].pc = "put" =>
    /\ call[c].pc = "put" /\ ~call'[c].fresh
    /\ call'[c].status = call[c].status

LEMMA ReportOf ==
  ASSUME Typed, NEW c \in Clients, NEW w \in Writes, Report(c, w),
         UNCHANGED <<status, phase>>
  PROVE  call' \in [Clients -> CallType] /\ Keeps
<1> DEFINE x == [pc |-> "get", write |-> w, tries |-> 0]
<1>1. x \in CallType /\ x.pc = "get"
  <2>1. 0 \in 0..(MaxAttempts - 1)  BY AgentAssumption
  <2> QED  BY <2>1 DEF CallType, GetType
<1>2. call' = [call EXCEPT ![c] = x]  BY DEF Report
<1> HIDE DEF x
<1>3. call \in [Clients -> CallType]  BY DEF Typed
<1> QED  BY <1>1, <1>2, <1>3 DEF Keeps

LEMMA DropOf ==
  ASSUME Typed, NEW c \in Clients, call' = [call EXCEPT ![c] = NoCall],
         UNCHANGED <<status, phase>>
  PROVE  call' \in [Clients -> CallType] /\ Keeps
<1>1. NoCall \in CallType /\ NoCall.pc = "none"  BY DEF CallType, NoCall
<1>2. call \in [Clients -> CallType]  BY DEF Typed
<1> QED  BY <1>1, <1>2 DEF Keeps

LEMMA GetOf ==
  ASSUME Typed, NEW c \in Clients, UpdateGet(c)
  PROVE  /\ call' \in [Clients -> CallType]
         /\ UNCHANGED <<status, phase, lastSeenGen>>
         /\ call'[c].phase = phase /\ call'[c].status.observed = lastSeenGen
         /\ \A e \in Clients : e # c => call'[e] = call[e]
<1> DEFINE m == Mutate(status, call[c].write, lastSeenGen)
           x == [pc |-> "put", write |-> call[c].write,
                 tries |-> call[c].tries, fresh |-> TRUE,
                 phase |-> phase, status |-> m]
<1>1. call[c] \in GetType  BY CallKinds DEF UpdateGet
<1>2. /\ call[c].write \in Writes /\ call[c].tries \in 0..(MaxAttempts - 1)
  BY <1>1 DEF GetType
<1>3. m \in StatusType /\ m.observed = lastSeenGen
  BY <1>2, MutateOf DEF Typed, TypedObject, TypedMemory
<1>4. call' = [call EXCEPT ![c] = x]  BY DEF UpdateGet
<1> HIDE DEF m
<1>5. /\ x \in PutType /\ x.phase = phase
      /\ x.status.observed = lastSeenGen
  BY <1>2, <1>3 DEF PutType, Typed, TypedObject
<1> HIDE DEF x
<1>6. call \in [Clients -> CallType] /\ x \in CallType
  BY <1>5 DEF Typed, CallType
<1>7. UNCHANGED <<status, phase, lastSeenGen>>
  BY DEF UpdateGet, object, memory
<1> QED  BY <1>4, <1>5, <1>6, <1>7

LEMMA PutOf ==
  ASSUME Typed, NEW c \in Clients, PutStatus(c)
  PROVE  /\ call' \in [Clients -> CallType] /\ Outdates
         /\ call[c] \in PutType /\ call[c].fresh
         /\ status' = call[c].status /\ phase' = call[c].phase
<1>1. /\ call[c].pc = "put" /\ call[c].fresh
      /\ status' = call[c].status /\ phase' = call[c].phase
      /\ call' = [Stale(call) EXCEPT ![c] = NoCall]
  BY DEF PutStatus, Accepts
<1>2. call[c] \in PutType  BY <1>1, CallKinds
<1>3. NoCall \in CallType /\ NoCall.pc = "none"  BY DEF CallType, NoCall
<1> DEFINE S == Stale(call)
<1>4. /\ S \in [Clients -> CallType]
      /\ \A e \in Clients : S[e].pc = "put" =>
           /\ call[e].pc = "put" /\ ~S[e].fresh
           /\ S[e].status = call[e].status
  BY StaleOf
<1>5. call' = [S EXCEPT ![c] = NoCall]  BY <1>1
<1> HIDE DEF S
<1>6. call' \in [Clients -> CallType]  BY <1>3, <1>4, <1>5
<1>7. Outdates  BY <1>3, <1>4, <1>5 DEF Outdates
<1> QED  BY <1>1, <1>2, <1>6, <1>7

LEMMA ConflictOf ==
  ASSUME Typed, NEW c \in Clients, PutConflict(c)
  PROVE  call' \in [Clients -> CallType] /\ Keeps
<1>1. UNCHANGED <<status, phase>>  BY DEF PutConflict, object
<1>2. CASE TriesLeft(c)
  <2> DEFINE x == [pc |-> "get", write |-> call[c].write,
                   tries |-> call[c].tries + 1]
  <2>1. call[c] \in PutType  BY CallKinds DEF PutConflict
  <2>2. call[c].write \in Writes /\ call[c].tries + 1 \in 0..(MaxAttempts - 1)
    <3>1. call[c].write \in Writes /\ call[c].tries \in 0..(MaxAttempts - 1)
      BY <2>1 DEF PutType
    <3> QED  BY <1>2, <3>1, AgentAssumption DEF TriesLeft
  <2>3. x \in CallType /\ x.pc = "get"  BY <2>2 DEF CallType, GetType
  <2>4. call' = [call EXCEPT ![c] = x]  BY <1>2 DEF PutConflict
  <2> HIDE DEF x
  <2>5. call \in [Clients -> CallType]  BY DEF Typed
  <2> QED  BY <1>1, <2>3, <2>4, <2>5 DEF Keeps
<1>3. CASE ~TriesLeft(c)
  <2>1. call' = [call EXCEPT ![c] = NoCall]  BY <1>3 DEF PutConflict
  <2> QED  BY <1>1, <2>1, DropOf
<1> QED  BY <1>2, <1>3

LEMMA CallMoves ==
  ASSUME Typed, [Next]_vars
  PROVE  /\ call' \in [Clients -> CallType]
         /\ \/ Keeps
            \/ \E c \in Clients : UpdateGet(c)
            \/ Outdates /\ \E c \in Clients : PutStatus(c)
            \/ Outdates /\ UNCHANGED status
                 /\ (UNCHANGED phase \/ OperatorWrites)
<1>1. ASSUME UNCHANGED <<call, status, phase>>
      PROVE  call' \in [Clients -> CallType] /\ Keeps
  BY <1>1 DEF Typed, Keeps
<1>2. /\ "poll" \in Clients /\ "heartbeat" \in Clients
      /\ \A g \in Goroutines : g \in Clients
  BY DEF Clients
<1>3. ASSUME call' = Stale(call)
      PROVE  call' \in [Clients -> CallType] /\ Outdates
  BY <1>3, StaleOf DEF Outdates
<1>4. CASE PollGet \/ Evaluate \/ CheckFailed \/ StartUpgrade
  BY <1>1, <1>4 DEF PollGet, Evaluate, CheckFailed, StartUpgrade, object
<1>5. CASE SyncSteadyStatus
  <2>1. UNCHANGED <<status, phase>>  BY <1>5 DEF SyncSteadyStatus, object
  <2>2. poll.spec.version \in Versions /\ slot \in {"A", "B"}
    <3>1. poll \in PollType /\ poll.pc = "steady"
      BY <1>5 DEF Typed, SyncSteadyStatus
    <3>2. poll.spec \in SpecType  BY <3>1 DEF PollType, PollIdle
    <3> QED  BY <3>2 DEF SpecType, Typed, TypedFlash
  <2>3. InSync(poll.spec.version, slot) \in Writes
    BY <2>2, ReportTypes
  <2>4. call' = call \/ Report("poll", InSync(poll.spec.version, slot))
    BY <1>5 DEF SyncSteadyStatus
  <2> QED  BY <1>1, <1>2, <2>1, <2>3, <2>4, ReportOf
<1>6. CASE Heartbeat
  <2>1. UNCHANGED <<status, phase>> /\ Report("heartbeat", NoChange)
    BY <1>6 DEF Heartbeat, object
  <2> QED  BY <1>2, <2>1, ReportTypes, ReportOf
<1>7. ASSUME NEW g \in Goroutines, RunUpgrade(g)
      PROVE  call' \in [Clients -> CallType] /\ Keeps
  <2>1. UNCHANGED <<status, phase>>
    BY <1>7 DEF RunUpgrade, Announce, Download, Verify, Flash, Confirm,
                Finish, Enter, Fail, object
  <2>2. \/ call' = call \/ Report(g, Progress) \/ Report(g, Failure)
        \/ Confirm(g) /\ Report(g, InSync(job[g].spec.version, slot))
    BY <1>7 DEF RunUpgrade, Announce, Download, Verify, Flash, Confirm,
                Finish, Enter, Fail
  <2>3. ASSUME Confirm(g) PROVE InSync(job[g].spec.version, slot) \in Writes
    <3>1. job[g] \in JobType /\ job[g].pc = "confirm"
      BY <2>3 DEF Typed, Confirm, At
    <3>2. job[g].spec \in SpecType  BY <3>1 DEF JobType, NoJob
    <3>3. job[g].spec.version \in Versions /\ slot \in {"A", "B"}
      BY <3>2 DEF SpecType, Typed, TypedFlash
    <3> QED  BY <3>3, ReportTypes
  <2> QED  BY <1>1, <1>2, <2>1, <2>2, <2>3, ReportTypes, ReportOf
<1>8. ASSUME NEW c \in Clients, CallLost(c)
      PROVE  call' \in [Clients -> CallType] /\ Keeps
  <2>1. call' = [call EXCEPT ![c] = NoCall] /\ UNCHANGED <<status, phase>>
    BY <1>8 DEF CallLost, object
  <2> QED  BY <2>1, DropOf
<1>9. ASSUME NEW s \in Specs, NEW paused \in BOOLEAN, SetSpec(s, paused)
      PROVE  /\ call' \in [Clients -> CallType] /\ Outdates
             /\ UNCHANGED <<status, phase>>
  BY <1>3, <1>9 DEF SetSpec
<1>10. CASE OperatorWrites
  BY <1>3, <1>10 DEF OperatorWrites
<1>11. CASE TrialDecays \/ Boot
  BY <1>1, <1>11 DEF TrialDecays, Boot, object
<1>12. CASE Crash
  <2>1. call' = [c \in Clients |-> NoCall] /\ UNCHANGED <<status, phase>>
    BY <1>12 DEF Crash, object
  <2>2. NoCall \in CallType /\ NoCall.pc = "none"  BY DEF CallType, NoCall
  <2> QED  BY <2>1, <2>2 DEF Keeps
<1>13. CASE UNCHANGED vars  BY <1>1, <1>13 DEF vars, object
<1> QED
  BY <1>4, <1>5, <1>6, <1>7, <1>8, <1>9, <1>10, <1>11, <1>12, <1>13,
     GetOf, PutOf, ConflictOf
  DEF Next, Poll, UpdateStatus

(* A transaction moves by one of these; the FSM moves with it.             *)
Advances(g, pc) ==
  /\ job[g].pc \in JobCalls /\ Goto(g, pc) /\ upgrading' = upgrading
  /\ \/ job[g].pc = "announce" /\ pc = "download" /\ fsm' = fsm
     \/ pc = "verify" /\ fsm' = "Downloading"
     \/ pc = "flash" /\ fsm' = "Verifying"
     \/ pc = "confirm" /\ fsm' = "Flashing"
     \/ pc = "exit" /\ fsm' \in Resting
Starts(g) == ~upgrading /\ poll.pc = "startUpgrade" /\ Spawn(g) /\ fsm' = fsm
Ends(g) ==
  /\ job[g].pc = "exit" /\ job' = [job EXCEPT ![g] = NoJob]
  /\ upgrading' = FALSE /\ fsm' = fsm
Dies ==
  /\ job' = [g \in Goroutines |-> NoJob] /\ upgrading' = FALSE
  /\ fsm' = "Idle"

LEMMA JobMoves ==
  ASSUME [Next]_vars
  PROVE  \/ UNCHANGED <<job, fsm, upgrading>>
         \/ \E g \in Goroutines : Starts(g) \/ Ends(g)
         \/ \E g \in Goroutines : \E pc \in JobCalls : Advances(g, pc)
         \/ Dies
<1> USE DEF object, flash, memory
<1>1. CASE StartUpgrade  BY <1>1 DEF StartUpgrade, Starts
<1>2. CASE PollGet \/ Evaluate \/ SyncSteadyStatus \/ CheckFailed
  BY <1>2 DEF PollGet, Evaluate, SyncSteadyStatus, CheckFailed
<1>3. CASE Heartbeat  BY <1>3 DEF Heartbeat
<1>4. ASSUME NEW g \in Goroutines, RunUpgrade(g)
      PROVE  Ends(g) \/ \E pc \in JobCalls : Advances(g, pc)
  <2> USE DEF At, JobCalls
  <2>1. ASSUME NEW s, NEW pc \in JobCalls, job[g].pc = pc, Fail(g, s)
        PROVE  Advances(g, "exit")
    BY <2>1 DEF Fail, Advances, Resting
  <2>2. CASE Announce(g)
    <3>1. Advances(g, "download")  BY <2>2 DEF Announce, Advances
    <3> QED  BY <3>1
  <2>3. CASE Download(g)
    <3>1. Advances(g, "verify") \/ Advances(g, "exit")
      BY <2>1, <2>3 DEF Download, Enter, Advances
    <3> QED  BY <3>1
  <2>4. CASE Verify(g)
    <3>1. Advances(g, "flash") \/ Advances(g, "exit")
      BY <2>1, <2>4 DEF Verify, Enter, Advances
    <3> QED  BY <3>1
  <2>5. CASE Flash(g)
    <3>1. Advances(g, "confirm") \/ Advances(g, "exit")
      BY <2>1, <2>5 DEF Flash, Enter, Advances
    <3> QED  BY <3>1
  <2>6. CASE Confirm(g)
    <3>1. Advances(g, "exit")
      BY <2>1, <2>6 DEF Confirm, Advances, Resting
    <3> QED  BY <3>1
  <2>7. CASE Finish(g)  BY <2>7 DEF Finish, Ends
  <2> QED  BY <1>4, <2>2, <2>3, <2>4, <2>5, <2>6, <2>7 DEF RunUpgrade
<1>5. ASSUME NEW c \in Clients, UpdateStatus(c)
      PROVE  UNCHANGED <<job, fsm, upgrading>>
  BY <1>5 DEF UpdateStatus, UpdateGet, PutStatus, PutConflict, CallLost
<1>6. ASSUME NEW s \in Specs, NEW paused \in BOOLEAN, SetSpec(s, paused)
      PROVE  UNCHANGED <<job, fsm, upgrading>>
  BY <1>6 DEF SetSpec
<1>7. CASE OperatorWrites \/ TrialDecays \/ Boot
  BY <1>7 DEF OperatorWrites, TrialDecays, Boot
<1>8. CASE Crash  BY <1>8 DEF Crash, Dies
<1>9. CASE UNCHANGED vars  BY <1>9 DEF vars
<1> QED
  BY <1>1, <1>2, <1>3, <1>4, <1>5, <1>6, <1>7, <1>8, <1>9 DEF Next, Poll

(* What a poll or a transaction holds is a Spec.                           *)
LEMMA SpecOf ==
  ASSUME Typed
  PROVE  /\ poll.pc \in PollCalls =>
              /\ poll \in [pc : PollCalls, spec : SpecType, gen : 1..MaxGen,
                           current : Versions \cup {Factory, Absent},
                           slot : {"A", "B", Absent}]
              /\ poll.spec \in SpecType /\ poll.gen \in 1..MaxGen
         /\ \A g \in Goroutines : job[g].pc \in JobCalls =>
              /\ job[g] \in [pc : JobCalls, spec : SpecType]
              /\ job[g].spec \in SpecType
<1>1. poll \in PollType /\ \A g \in Goroutines : job[g] \in JobType
  BY DEF Typed
<1> QED  BY <1>1 DEF PollType, PollIdle, PollCalls, JobType, NoJob, JobCalls

LEMMA JobStep ==
  ASSUME Typed, [Next]_vars
  PROVE  /\ job' \in [Goroutines -> JobType]
         /\ fsm' \in States /\ upgrading' \in BOOLEAN
<1>0. /\ job \in [Goroutines -> JobType]
      /\ fsm \in States /\ upgrading \in BOOLEAN
  BY DEF Typed, TypedMemory
<1>1. CASE UNCHANGED <<job, fsm, upgrading>>  BY <1>0, <1>1
<1>2. ASSUME NEW g \in Goroutines, Starts(g)
      PROVE  /\ job' \in [Goroutines -> JobType] /\ fsm' = fsm
             /\ upgrading' = TRUE
  <2>1. poll.spec \in SpecType  BY <1>2, SpecOf DEF Starts, PollCalls
  <2>2. [pc |-> "announce", spec |-> poll.spec] \in JobType
    BY <2>1 DEF JobType, JobCalls
  <2> QED  BY <1>0, <1>2, <2>2 DEF Starts, Spawn
<1>3. ASSUME NEW g \in Goroutines, Ends(g)
      PROVE  /\ job' \in [Goroutines -> JobType] /\ fsm' = fsm
             /\ upgrading' = FALSE
  <2>1. NoJob \in JobType  BY DEF JobType
  <2> QED  BY <1>0, <1>3, <2>1 DEF Ends
<1>4. ASSUME NEW g \in Goroutines, NEW pc \in JobCalls, Advances(g, pc)
      PROVE  /\ job' \in [Goroutines -> JobType]
             /\ fsm' \in States /\ upgrading' = upgrading
  <2>1. job[g] \in [pc : JobCalls, spec : SpecType]
    BY <1>4, SpecOf DEF Advances
  <2>2. [job[g] EXCEPT !.pc = pc] \in JobType  BY <2>1 DEF JobType
  <2>3. job' = [job EXCEPT ![g] = [job[g] EXCEPT !.pc = pc]]
    BY <1>4 DEF Advances, Goto
  <2> QED  BY <1>0, <1>4, <2>2, <2>3 DEF Advances, Resting, States
<1>5. CASE Dies
  <2>1. NoJob \in JobType  BY DEF JobType
  <2> QED  BY <1>5, <2>1 DEF Dies, States
<1>6. upgrading' \in BOOLEAN
  BY <1>0, <1>1, <1>2, <1>3, <1>4, <1>5, JobMoves DEF Dies
<1> QED  BY <1>0, <1>1, <1>2, <1>3, <1>4, <1>5, <1>6, JobMoves

LEMMA PollStep ==
  ASSUME Typed, [Next]_vars
  PROVE  poll' \in PollType
<1>0. poll \in PollType /\ PollIdle \in PollType  BY DEF Typed, PollType
<1>1. CASE PollGet
  <2>1. /\ spec \in SpecType /\ gen \in 1..MaxGen
        /\ status.current \in Versions \cup {Factory, Absent}
        /\ status.slot \in {"A", "B", Absent}
    BY DEF Typed, TypedObject, StatusType
  <2> QED  BY <1>1, <2>1 DEF PollGet, PollType, PollCalls
<1>2. ASSUME NEW pc \in PollCalls, poll.pc \in PollCalls,
             poll' = [poll EXCEPT !.pc = pc]
      PROVE  poll' \in PollType
  BY <1>2, SpecOf DEF PollType
<1>3. CASE Evaluate  BY <1>0, <1>2, <1>3 DEF Evaluate, PollCalls
<1>4. CASE CheckFailed  BY <1>0, <1>2, <1>4 DEF CheckFailed, PollCalls
<1>5. CASE SyncSteadyStatus \/ StartUpgrade \/ Crash
  BY <1>0, <1>5 DEF SyncSteadyStatus, StartUpgrade, Crash
<1>6. ASSUME NEW g \in Goroutines, RunUpgrade(g) PROVE UNCHANGED poll
  BY <1>6 DEF RunUpgrade, Announce, Download, Verify, Flash, Confirm, Finish,
              Enter, Fail
<1>7. ASSUME NEW c \in Clients, UpdateStatus(c) PROVE UNCHANGED poll
  BY <1>7 DEF UpdateStatus, UpdateGet, PutStatus, PutConflict, CallLost
<1>8. ASSUME NEW s \in Specs, NEW paused \in BOOLEAN, SetSpec(s, paused)
      PROVE  UNCHANGED poll
  BY <1>8 DEF SetSpec
<1>9. CASE Heartbeat \/ OperatorWrites \/ TrialDecays \/ Boot \/ UNCHANGED vars
  BY <1>0, <1>9 DEF Heartbeat, OperatorWrites, TrialDecays, Boot, vars
<1> QED
  BY <1>0, <1>1, <1>3, <1>4, <1>5, <1>6, <1>7, <1>8, <1>9 DEF Next, Poll

LEMMA ObjectStep ==
  ASSUME Typed, [Next]_vars
  PROVE  /\ TypedObject'
         /\ gen' \in 1..MaxGen /\ gen <= gen'
<1>0. /\ TypedObject /\ gen \in 1..MaxGen /\ gen <= gen
  BY DEF Typed, TypedObject
<1>1. ASSUME UNCHANGED object PROVE TypedObject' /\ gen' = gen
  BY <1>0, <1>1 DEF TypedObject, object
<1>2. ASSUME NEW s \in Specs, NEW paused \in BOOLEAN, SetSpec(s, paused)
      PROVE  TypedObject' /\ gen' \in 1..MaxGen /\ gen <= gen'
  <2>1. s \in [version : Versions, checksum : Images, url : Urls]
    BY AgentAssumption
  <2>2. spec' \in SpecType  BY <1>2, <2>1 DEF SetSpec, SpecType
  <2>3. gen' \in 1..MaxGen /\ gen <= gen'
    BY <1>0, <1>2, AgentAssumption DEF SetSpec
  <2> QED  BY <1>0, <1>2, <2>2, <2>3 DEF SetSpec, TypedObject
<1>3. ASSUME NEW c \in Clients, PutStatus(c)
      PROVE  TypedObject' /\ gen' = gen
  <2>1. /\ call[c] \in PutType
        /\ status' = call[c].status /\ phase' = call[c].phase
    BY <1>3, PutOf
  <2>2. status' \in StatusType /\ phase' \in BOOLEAN  BY <2>1 DEF PutType
  <2> QED  BY <1>0, <1>3, <2>2 DEF PutStatus, TypedObject
<1>4. CASE OperatorWrites
  <2>1. phase' \in BOOLEAN /\ UNCHANGED <<spec, gen, status>>
    BY <1>4 DEF OperatorWrites
  <2> QED  BY <1>0, <2>1 DEF TypedObject
<1>5. CASE Poll \/ Heartbeat \/ TrialDecays \/ Crash \/ Boot \/ UNCHANGED vars
  <2>1. UNCHANGED object
    BY <1>5 DEF Poll, PollGet, Evaluate, SyncSteadyStatus, CheckFailed,
                StartUpgrade, Heartbeat, TrialDecays, Crash, Boot, vars
  <2> QED  BY <1>0, <1>1, <2>1
<1>6. ASSUME NEW g \in Goroutines, RunUpgrade(g) PROVE UNCHANGED object
  BY <1>6 DEF RunUpgrade, Announce, Download, Verify, Flash, Confirm, Finish,
              Enter, Fail
<1>7. ASSUME NEW c \in Clients, UpdateStatus(c), ~PutStatus(c)
      PROVE  UNCHANGED object
  BY <1>7 DEF UpdateStatus, UpdateGet, PutConflict, CallLost
<1> QED
  BY <1>0, <1>1, <1>2, <1>3, <1>4, <1>5, <1>6, <1>7 DEF Next

LEMMA FlashStep ==
  ASSUME Typed, [Next]_vars
  PROVE  TypedFlash'
<1>0. /\ installed \in InstalledType /\ trial \in TrialType
      /\ slot \in {"A", "B"}
  BY DEF Typed, TypedFlash
<1>1. Store!NoFirmware \in TrialType  BY DEF TrialType
<1>2. Other(slot) \in {"A", "B"}  BY <1>0 DEF Other
<1>3. ASSUME Store!Commit
      PROVE  installed' \in InstalledType /\ trial' \in TrialType
  <2>1. trial \in [version : Versions, image : Images]
    <3>1. trial \in [version : Versions, image : Images \cup {Garbage}]
          /\ trial.image \in Images
      BY <1>0, <1>3 DEF TrialType, Store!Commit
    <3> QED  BY <3>1
  <2>2. installed' = trial /\ trial' = Store!NoFirmware
    BY <1>3 DEF Store!Commit
  <2> QED  BY <1>1, <2>1, <2>2 DEF InstalledType
<1>4. ASSUME Store!Revert
      PROVE  installed' \in InstalledType /\ trial' \in TrialType
  BY <1>0, <1>1, <1>4 DEF Store!Revert
<1>5. CASE UNCHANGED flash  BY <1>0, <1>5 DEF flash, TypedFlash
<1>6. ASSUME NEW g \in Goroutines, Flash(g), ~UNCHANGED flash
      PROVE  TypedFlash'
  <2> DEFINE fw == [version |-> job[g].spec.version,
                    image |-> job[g].spec.checksum]
  <2>1. Store!Try(fw) /\ slot' = Other(slot)  BY <1>6 DEF Flash
  <2>2. job[g].spec \in SpecType
    BY <1>6, SpecOf DEF Flash, At, JobCalls
  <2>3. fw \in TrialType  BY <2>2 DEF SpecType, TrialType
  <2> HIDE DEF fw
  <2> QED  BY <1>0, <1>2, <2>1, <2>3 DEF TypedFlash, Store!Try
<1>7. ASSUME NEW g \in Goroutines, Confirm(g) PROVE TypedFlash'
  <2>1. \/ Store!Commit /\ slot' = slot
        \/ Store!Revert /\ slot' = Other(slot)
    BY <1>7 DEF Confirm
  <2> QED  BY <1>0, <1>2, <1>3, <1>4, <2>1 DEF TypedFlash
<1>8. CASE TrialDecays
  <2>1. /\ trial # Store!NoFirmware /\ UNCHANGED <<installed, slot>>
        /\ trial' = [trial EXCEPT !.image = Garbage]
    BY <1>8 DEF TrialDecays, Store!Spoil
  <2>2. trial \in [version : Versions, image : Images \cup {Garbage}]
    BY <1>0, <2>1 DEF TrialType
  <2>3. trial' \in TrialType  BY <2>1, <2>2 DEF TrialType
  <2> QED  BY <1>0, <2>1, <2>3 DEF TypedFlash
<1>9. CASE Boot
  <2>1. \/ UNCHANGED flash
        \/ Store!Commit /\ slot' = slot
        \/ Store!Revert /\ slot' = Other(slot)
    BY <1>9 DEF Boot
  <2> QED  BY <1>0, <1>2, <1>3, <1>4, <1>5, <2>1 DEF TypedFlash
<1>10. CASE Poll \/ Heartbeat \/ OperatorWrites \/ Crash \/ UNCHANGED vars
  <2>1. UNCHANGED flash
    BY <1>10 DEF Poll, PollGet, Evaluate, SyncSteadyStatus, CheckFailed,
                 StartUpgrade, Heartbeat, OperatorWrites, Crash, vars
  <2> QED  BY <1>5, <2>1
<1>11. ASSUME NEW g \in Goroutines, RunUpgrade(g), ~Flash(g), ~Confirm(g)
       PROVE  UNCHANGED flash
  BY <1>11 DEF RunUpgrade, Announce, Download, Verify, Finish
<1>12. ASSUME NEW c \in Clients, UpdateStatus(c) PROVE UNCHANGED flash
  BY <1>12 DEF UpdateStatus, UpdateGet, PutStatus, PutConflict, CallLost
<1>13. ASSUME NEW s \in Specs, NEW paused \in BOOLEAN, SetSpec(s, paused)
       PROVE  UNCHANGED flash
  BY <1>13 DEF SetSpec
<1> QED
  BY <1>5, <1>6, <1>7, <1>8, <1>9, <1>10, <1>11, <1>12, <1>13 DEF Next

LEMMA KeyStep ==
  ASSUME Typed, [Next]_vars
  PROVE  /\ lastFailedKey' \in Keys \cup {NoKey}
         /\ lastSeenGen' \in 0..MaxGen
         /\ lastSeenGen' = lastSeenGen \/ Evaluate \/ Crash
<1>0. /\ lastFailedKey \in Keys \cup {NoKey} /\ lastSeenGen \in 0..MaxGen
  BY DEF Typed, TypedMemory
<1>1. ASSUME NEW g \in Goroutines, RunUpgrade(g)
      PROVE  /\ lastFailedKey' \in Keys \cup {NoKey}
             /\ lastSeenGen' = lastSeenGen
  <2>1. /\ lastSeenGen' = lastSeenGen
        /\ \/ lastFailedKey' = lastFailedKey
           \/ lastFailedKey' = Key(job[g].spec) /\ job[g].pc \in JobCalls
    BY <1>1 DEF RunUpgrade, Announce, Download, Verify, Flash, Confirm,
                Finish, Enter, Fail, At, JobCalls, memory
  <2>2. ASSUME job[g].pc \in JobCalls PROVE Key(job[g].spec) \in Keys
    <3>1. job[g].spec \in SpecType  BY <2>2, SpecOf
    <3> QED  BY <3>1 DEF SpecType, Key, Keys
  <2> QED  BY <1>0, <2>1, <2>2
<1>2. CASE Evaluate
  <2>1. lastSeenGen' = poll.gen /\ UNCHANGED lastFailedKey
    BY <1>2 DEF Evaluate
  <2>2. poll.gen \in 1..MaxGen
    BY <1>2, SpecOf DEF Evaluate, PollCalls
  <2>3. poll.gen \in 0..MaxGen  BY <2>2, AgentAssumption
  <2> QED  BY <1>0, <1>2, <2>1, <2>3
<1>3. CASE Crash
  <2>1. 0 \in 0..MaxGen  BY AgentAssumption
  <2> QED  BY <1>3, <2>1 DEF Crash
<1>4. CASE \/ PollGet \/ SyncSteadyStatus \/ CheckFailed \/ StartUpgrade
           \/ Heartbeat \/ OperatorWrites \/ TrialDecays \/ Boot
           \/ UNCHANGED vars
  BY <1>0, <1>4 DEF PollGet, SyncSteadyStatus, CheckFailed, StartUpgrade,
    Heartbeat, OperatorWrites, TrialDecays, Boot, vars, memory
<1>5. ASSUME NEW c \in Clients, UpdateStatus(c)
      PROVE  UNCHANGED <<lastFailedKey, lastSeenGen>>
  BY <1>5 DEF UpdateStatus, UpdateGet, PutStatus, PutConflict, CallLost,
              memory
<1>6. ASSUME NEW s \in Specs, NEW paused \in BOOLEAN, SetSpec(s, paused)
      PROVE  UNCHANGED <<lastFailedKey, lastSeenGen>>
  BY <1>6 DEF SetSpec, memory
<1> QED
  BY <1>0, <1>1, <1>2, <1>3, <1>4, <1>5, <1>6 DEF Next, Poll

LEMMA CountStep ==
  ASSUME Typed, [Next]_vars
  PROVE  counts' \in CountType /\ up' \in BOOLEAN
<1>0. counts \in CountType /\ up \in BOOLEAN  BY DEF Typed
<1>1. /\ MaxBeats \in Nat /\ MaxForeign \in Nat /\ MaxLosses \in Nat
      /\ MaxCrashes \in Nat
  BY AgentAssumption
<1>2. CASE Heartbeat  BY <1>0, <1>1, <1>2 DEF Heartbeat, CountType
<1>3. CASE OperatorWrites  BY <1>0, <1>1, <1>3 DEF OperatorWrites, CountType
<1>4. CASE Crash
  <2>1. /\ counts.crashes < MaxCrashes /\ up' = FALSE
        /\ counts' = [counts EXCEPT !.crashes = @ + 1]
    BY <1>4 DEF Crash
  <2>2. counts' \in CountType  BY <1>0, <1>1, <2>1 DEF CountType
  <2> QED  BY <2>1, <2>2
<1>5. ASSUME NEW c \in Clients, CallLost(c)
      PROVE  counts' \in CountType /\ up' = up
  <2> DEFINE n == OrDropped(c, counts.dropped)
  <2>1. n \in 0..1  BY <1>0 DEF OrDropped, CountType
  <2>2. /\ counts.losses < MaxLosses /\ up' = up
        /\ counts' = [counts EXCEPT !.losses = counts.losses + 1,
                                   !.dropped = n]
    BY <1>5 DEF CallLost
  <2> DEFINE more == [counts EXCEPT !.losses = counts.losses + 1]
  <2>3. more \in CountType  BY <1>0, <1>1, <2>2 DEF CountType
  <2>4. counts' = [more EXCEPT !.dropped = n]  BY <2>2
  <2> HIDE DEF n, more
  <2>5. counts' \in CountType  BY <2>1, <2>3, <2>4 DEF CountType
  <2> QED  BY <2>2, <2>5
<1>6. ASSUME NEW g \in Goroutines, RunUpgrade(g) PROVE UNCHANGED <<counts, up>>
  BY <1>6 DEF RunUpgrade, Announce, Download, Verify, Flash, Confirm, Finish,
              Enter, Fail
<1>7. ASSUME NEW c \in Clients, UpdateStatus(c), ~CallLost(c)
      PROVE  counts' \in CountType /\ up' = up
  <2>1. CASE UpdateGet(c) \/ PutStatus(c)
    BY <1>0, <2>1 DEF UpdateGet, PutStatus
  <2>2. CASE PutConflict(c)
    <3>1. OrDropped(c, counts.dropped) \in 0..1
      BY <1>0 DEF OrDropped, CountType
    <3>2. /\ up' = up
          /\ \/ counts' = counts
             \/ counts' = [counts EXCEPT !.dropped = OrDropped(c, @)]
      BY <2>2 DEF PutConflict
    <3>3. counts' \in CountType  BY <1>0, <3>1, <3>2 DEF CountType
    <3> QED  BY <3>2, <3>3
  <2> QED  BY <1>7, <2>1, <2>2 DEF UpdateStatus
<1>8. ASSUME NEW s \in Specs, NEW paused \in BOOLEAN, SetSpec(s, paused)
      PROVE  UNCHANGED <<counts, up>>
  BY <1>8 DEF SetSpec
<1>9. CASE Poll \/ TrialDecays \/ UNCHANGED vars
  BY <1>0, <1>9 DEF Poll, PollGet, Evaluate, SyncSteadyStatus, CheckFailed,
    StartUpgrade, TrialDecays, vars
<1>10. CASE Boot  BY <1>0, <1>10 DEF Boot
<1> QED
  BY <1>0, <1>2, <1>3, <1>4, <1>5, <1>6, <1>7, <1>8, <1>9, <1>10 DEF Next

LEMMA TypedInit == Init => Typed
<1> SUFFICES ASSUME Init PROVE Typed  OBVIOUS
<1>1. TypedObject
  <2>1. PICK s \in Specs, paused \in BOOLEAN :
          spec = [version |-> s.version, checksum |-> s.checksum,
                  url |-> s.url, paused |-> paused]
    BY DEF Init
  <2>2. s \in [version : Versions, checksum : Images, url : Urls]
    BY AgentAssumption
  <2>3. spec \in SpecType  BY <2>1, <2>2 DEF SpecType
  <2>4. 1 \in 1..MaxGen /\ 0 \in 0..MaxGen  BY AgentAssumption
  <2>5. status \in StatusType  BY <2>4 DEF Init, StatusType, Synced
  <2> QED  BY <2>3, <2>4, <2>5 DEF Init, TypedObject
<1>2. TypedFlash
  BY DEF Init, Store!Init, Store!FactoryFirmware, TypedFlash, InstalledType,
         TrialType
<1>3. TypedMemory
  <2>1. 0 \in 0..MaxGen  BY AgentAssumption
  <2> QED  BY <2>1 DEF Init, TypedMemory, States
<1>4. counts \in CountType
  <2>1. /\ 0 \in 0..MaxBeats /\ 0 \in 0..MaxForeign
        /\ 0 \in 0..MaxLosses /\ 0 \in 0..MaxCrashes /\ 0 \in 0..1
    <3>1. /\ MaxBeats \in Nat /\ MaxForeign \in Nat /\ MaxLosses \in Nat
          /\ MaxCrashes \in Nat
      BY AgentAssumption
    <3> QED  BY <3>1
  <2> QED  BY <2>1 DEF Init, CountType
<1>5. /\ poll \in PollType /\ up \in BOOLEAN
      /\ job \in [Goroutines -> JobType] /\ call \in [Clients -> CallType]
  BY DEF Init, PollType, JobType, CallType
<1> QED  BY <1>1, <1>2, <1>3, <1>4, <1>5 DEF Typed

LEMMA TypedStep == Typed /\ [Next]_vars => Typed'
<1> SUFFICES ASSUME Typed, [Next]_vars PROVE Typed'  OBVIOUS
<1>1. TypedMemory'  BY JobStep, KeyStep DEF TypedMemory
<1>2. /\ TypedObject' /\ TypedFlash' /\ poll' \in PollType
      /\ job' \in [Goroutines -> JobType] /\ call' \in [Clients -> CallType]
      /\ counts' \in CountType /\ up' \in BOOLEAN
  BY ObjectStep, FlashStep, PollStep, JobStep, CallMoves, CountStep
<1> QED  BY <1>1, <1>2 DEF Typed

(* Every variable of the agent, of the object and of the flash keeps its   *)
(* type: an UpdateStatus makes at most MaxAttempts rounds (kube.go:178)    *)
(* and stamps no generation the Spec has not had, and what is confirmed    *)
(* has a version and an image.                                             *)
THEOREM TypeCorrect == Spec => []TypeOK
BY TypedInit, TypedStep, TypedMeaning, PTL DEF Spec

-----------------------------------------------------------------------------
(* Single flight and the FSM.                                              *)

LEMMA SingleFlightStep ==
  ASSUME Typed, SingleFlight, [Next]_vars
  PROVE  SingleFlight'
<1>0. job \in [Goroutines -> JobType]  BY DEF Typed
<1>1. CASE UNCHANGED <<job, fsm, upgrading>>  BY <1>1 DEF SingleFlight
<1>2. ASSUME NEW g \in Goroutines, Starts(g) PROVE SingleFlight'
  <2>1. \A h \in Goroutines : job[h] = NoJob
    BY <1>2 DEF Starts, SingleFlight
  <2> QED  BY <1>0, <1>2, <2>1 DEF Starts, Spawn, SingleFlight
<1>3. ASSUME NEW g \in Goroutines, Ends(g) PROVE SingleFlight'
  <2>1. job[g] # NoJob  BY <1>3 DEF Ends, NoJob
  <2> QED  BY <1>0, <1>3, <2>1 DEF Ends, SingleFlight
<1>4. ASSUME NEW g \in Goroutines, NEW pc \in JobCalls, Advances(g, pc)
      PROVE  SingleFlight'
  <2>1. job[g] # NoJob  BY <1>4 DEF Advances, NoJob, JobCalls
  <2>2. \A h \in Goroutines : h # g => job'[h] = job[h]
    BY <1>0, <1>4 DEF Advances, Goto
  <2> QED  BY <1>4, <2>1, <2>2 DEF SingleFlight, Advances
<1>5. CASE Dies  BY <1>5 DEF Dies, SingleFlight
<1> QED  BY <1>1, <1>2, <1>3, <1>4, <1>5, JobMoves

LEMMA MachineStep ==
  ASSUME Typed, SingleFlight, Machine, [Next]_vars
  PROVE  Machine'
<1>0. job \in [Goroutines -> JobType] /\ NoJob.pc = "none"
  BY DEF Typed, NoJob
<1>1. CASE UNCHANGED <<job, fsm, upgrading>>  BY <1>1 DEF Machine
<1>2. ASSUME NEW g \in Goroutines, Starts(g) PROVE Machine'
  <2>1. \A h \in Goroutines : job[h] = NoJob
    BY <1>2 DEF Starts, SingleFlight
  <2>2. fsm' \in Resting  BY <1>2, <2>1 DEF Starts, Machine
  <2>3. /\ job'[g].pc = "announce"
        /\ \A h \in Goroutines : h # g => job'[h].pc = "none"
    BY <1>0, <1>2, <2>1 DEF Starts, Spawn
  <2> QED  BY <2>2, <2>3 DEF Machine
<1>3. ASSUME NEW g \in Goroutines, Ends(g) PROVE Machine'
  <2>1. job[g] # NoJob  BY <1>3 DEF Ends, NoJob
  <2>2. \A h \in Goroutines : job'[h] = NoJob
    BY <1>0, <1>3, <2>1 DEF Ends, SingleFlight
  <2>3. fsm' \in Resting  BY <1>3 DEF Ends, Machine
  <2> QED  BY <1>0, <2>2, <2>3 DEF Machine
<1>4. ASSUME NEW g \in Goroutines, NEW pc \in JobCalls, Advances(g, pc)
      PROVE  Machine'
  <2>1. job[g] # NoJob  BY <1>4 DEF Advances, NoJob, JobCalls
  <2>2. job[g] \in [pc : JobCalls, spec : SpecType]
    BY <1>4, SpecOf DEF Advances
  <2>3. job'[g].pc = pc  BY <1>0, <1>4, <2>2 DEF Advances, Goto
  <2>4. \A h \in Goroutines : h # g => job'[h].pc = "none"
    BY <1>0, <1>4, <2>1 DEF Advances, Goto, SingleFlight
  <2>5. job'[g] # NoJob  BY <1>0, <2>3 DEF JobCalls
  <2>6. job[g].pc = "announce" => fsm \in Resting  BY DEF Machine
  <2> QED  BY <1>4, <2>3, <2>4, <2>5, <2>6 DEF Machine, Advances
<1>5. CASE Dies
  <2>1. \A g \in Goroutines : job'[g].pc = "none"  BY <1>0, <1>5 DEF Dies
  <2> QED  BY <1>5, <2>1 DEF Dies, Machine, Resting
<1> QED  BY <1>1, <1>2, <1>3, <1>4, <1>5, JobMoves

LEMMA MachineHolds == Spec => [](Typed /\ SingleFlight /\ Machine)
<1>1. Init => SingleFlight /\ Machine
  <2> SUFFICES ASSUME Init PROVE SingleFlight /\ Machine  OBVIOUS
  <2>1. (\A g \in Goroutines : job[g] = NoJob) /\ fsm = "Idle"
    BY DEF Init
  <2> QED  BY <2>1 DEF SingleFlight, Machine, Resting, NoJob
<1> QED
  BY <1>1, TypedInit, TypedStep, SingleFlightStep, MachineStep, PTL DEF Spec

(* fsm.go:34: with any number of polls, failures and restarts the flag     *)
(* lets one transaction run at a time, and that transaction never asks the *)
(* FSM for a transition the table refuses, which would end it without a    *)
(* report.                                                                 *)
THEOREM FsmIsFollowed == Spec => []FsmNeverRefuses
<1>1. Machine => FsmNeverRefuses
  <2> SUFFICES ASSUME Machine, NEW g \in Goroutines,
                      job[g].pc \in DOMAIN NextState
               PROVE  To(fsm, NextState[job[g].pc])
    BY DEF FsmNeverRefuses
  <2>1. job[g].pc \in {"download", "verify", "flash", "confirm"}
    BY DEF NextState
  <2>2. CASE job[g].pc = "download"
    <3>1. fsm \in Resting  BY <2>2 DEF Machine
    <3> QED  BY <2>2, <3>1 DEF Resting, To, validTransitions, NextState
  <2>3. CASE job[g].pc = "verify"
    <3>1. fsm = "Downloading"  BY <2>3 DEF Machine
    <3> QED  BY <2>3, <3>1 DEF To, validTransitions, NextState
  <2>4. CASE job[g].pc = "flash"
    <3>1. fsm = "Verifying"  BY <2>4 DEF Machine
    <3> QED  BY <2>4, <3>1 DEF To, validTransitions, NextState
  <2>5. CASE job[g].pc = "confirm"
    <3>1. fsm = "Flashing"  BY <2>5 DEF Machine
    <3> QED  BY <2>5, <3>1 DEF To, validTransitions, NextState
  <2> QED  BY <2>1, <2>2, <2>3, <2>4, <2>5
<1> QED  BY <1>1, MachineHolds, PTL

-----------------------------------------------------------------------------
(* Optimistic concurrency.                                                 *)

LEMMA CopiesStep ==
  ASSUME Typed, Copies, [Next]_vars
  PROVE  Copies'
<1>1. CASE Keeps  BY <1>1 DEF Keeps, Copies
<1>2. ASSUME NEW c \in Clients, UpdateGet(c) PROVE Copies'
  <2>1. /\ phase' = phase /\ call'[c].phase = phase
        /\ \A e \in Clients : e # c => call'[e] = call[e]
    BY <1>2, GetOf
  <2> QED  BY <2>1 DEF Copies
<1>3. CASE Outdates  BY <1>3 DEF Outdates, Copies
<1> QED  BY <1>1, <1>2, <1>3, CallMoves

(* kube.go:175, "Retrying the old payload would silently overwrite their   *)
(* write": although every PUT of the agent carries the operator's part of  *)
(* the status, no PUT of any goroutine ever changes it, however many of    *)
(* them race and however often they are refused, lost or cut short.        *)
THEOREM NoUpdateIsLost == Spec => NoLostUpdate
<1>1. Init => Copies  BY DEF Init, Copies, NoCall
<1>2. ASSUME Typed, Copies, [Next]_vars
      PROVE  phase' # phase => OperatorWrites
  <2>1. ASSUME NEW c \in Clients, PutStatus(c) PROVE phase' = phase
    <3>1. /\ call[c].fresh /\ phase' = call[c].phase /\ call[c].pc = "put"
      BY <1>2, <2>1, PutOf DEF PutStatus
    <3> QED  BY <1>2, <3>1 DEF Copies
  <2>2. ASSUME NEW c \in Clients, UpdateGet(c) PROVE phase' = phase
    BY <1>2, <2>2, GetOf
  <2> QED  BY <1>2, <2>1, <2>2, CallMoves DEF Keeps
<1>3. Typed /\ Copies /\ [Next]_vars => [phase' # phase => OperatorWrites]_vars
  BY <1>2
<1> QED
  BY <1>1, <1>3, TypedInit, TypedStep, CopiesStep, PTL DEF Spec, NoLostUpdate

-----------------------------------------------------------------------------
(* Generations.                                                            *)

(* Numbers of a typed state.                                               *)
LEMMA Numbers ==
  ASSUME Typed
  PROVE  /\ gen \in Nat /\ lastSeenGen \in Nat /\ status.observed \in Nat
         /\ poll.pc \in PollCalls => poll.gen \in Nat
         /\ poll # PollIdle => poll.pc \in PollCalls
         /\ \A c \in Clients : call[c].pc = "put" =>
              call[c].status.observed \in Nat
<1>1. /\ gen \in 1..MaxGen /\ lastSeenGen \in 0..MaxGen
      /\ status.observed \in 0..MaxGen
  BY DEF Typed, TypedObject, TypedMemory, StatusType
<1>2. poll.pc \in PollCalls => poll.gen \in 1..MaxGen  BY SpecOf
<1>3. poll # PollIdle => poll.pc \in PollCalls  BY DEF Typed, PollType
<1>4. \A c \in Clients : call[c].pc = "put" =>
        call[c].status.observed \in 0..MaxGen
  BY CallKinds DEF PutType, StatusType
<1> QED  BY <1>1, <1>2, <1>3, <1>4, AgentAssumption

(* The poll loop holds a Device only from a PollGet on.                    *)
LEMMA PollMoves ==
  ASSUME [Next]_vars
  PROVE  \/ PollGet \/ Evaluate \/ CheckFailed
         \/ UNCHANGED poll \/ poll' = PollIdle
<1>1. CASE Poll
  BY <1>1 DEF Poll, SyncSteadyStatus, StartUpgrade
<1>2. ASSUME NEW g \in Goroutines, RunUpgrade(g) PROVE UNCHANGED poll
  BY <1>2 DEF RunUpgrade, Announce, Download, Verify, Flash, Confirm, Finish,
              Enter, Fail
<1>3. ASSUME NEW c \in Clients, UpdateStatus(c) PROVE UNCHANGED poll
  BY <1>3 DEF UpdateStatus, UpdateGet, PutStatus, PutConflict, CallLost
<1>4. ASSUME NEW s \in Specs, NEW paused \in BOOLEAN, SetSpec(s, paused)
      PROVE  UNCHANGED poll
  BY <1>4 DEF SetSpec
<1>5. CASE Heartbeat \/ OperatorWrites \/ TrialDecays \/ Boot \/ UNCHANGED vars
  BY <1>5 DEF Heartbeat, OperatorWrites, TrialDecays, Boot, vars
<1>6. CASE Crash  BY <1>6 DEF Crash
<1> QED  BY <1>1, <1>2, <1>3, <1>4, <1>5, <1>6 DEF Next

LEMMA StampsStep ==
  ASSUME Typed, Stamps, [Next]_vars
  PROVE  Stamps'
<1>0. Typed' /\ gen <= gen' /\ PollIdle.pc = "idle"
  BY TypedStep, ObjectStep DEF PollIdle
<1>1. /\ gen \in Nat /\ lastSeenGen \in Nat
      /\ poll # PollIdle => poll.pc \in PollCalls
      /\ poll.pc \in PollCalls => poll # PollIdle /\ poll.gen \in Nat
  BY <1>0, Numbers DEF PollCalls
<1>2. gen' \in Nat /\ lastSeenGen' \in Nat  BY <1>0, ObjectStep, KeyStep
<1>3. /\ lastSeenGen <= gen
      /\ poll.pc = "evaluate" => lastSeenGen <= poll.gen
      /\ poll # PollIdle => poll.gen <= gen
      /\ \A c \in Clients : call[c].pc = "put" =>
           call[c].status.observed <= lastSeenGen
  BY DEF Stamps
<1>4. CASE Crash
  <2>1. /\ lastSeenGen' = 0 /\ poll' = PollIdle
        /\ \A c \in Clients : call'[c].pc = "none"
    BY <1>4 DEF Crash, NoCall
  <2> QED  BY <1>0, <1>2, <2>1 DEF Stamps
<1>5. CASE ~Crash
  <2>1. lastSeenGen' = lastSeenGen \/ Evaluate  BY <1>5, KeyStep
  <2>2. Evaluate => /\ lastSeenGen' = poll.gen /\ lastSeenGen <= poll.gen
                    /\ poll.gen <= gen /\ poll.gen \in Nat
                    /\ poll'.pc # "evaluate"
    <3> SUFFICES ASSUME Evaluate
                 PROVE  /\ lastSeenGen' = poll.gen /\ lastSeenGen <= poll.gen
                        /\ poll.gen <= gen /\ poll.gen \in Nat
                        /\ poll'.pc # "evaluate"
      OBVIOUS
    <3>1. poll.pc = "evaluate" /\ lastSeenGen' = poll.gen
      BY DEF Evaluate
    <3>2. poll \in [pc : PollCalls, spec : SpecType, gen : 1..MaxGen,
                    current : Versions \cup {Factory, Absent},
                    slot : {"A", "B", Absent}]
      BY <3>1, SpecOf DEF PollCalls
    <3>3. poll'.pc # "evaluate"  BY <1>0, <3>2 DEF Evaluate
    <3> QED  BY <1>1, <1>3, <3>1, <3>3 DEF PollCalls
  <2>3. lastSeenGen <= lastSeenGen' /\ lastSeenGen' <= gen'
    BY <1>0, <1>1, <1>2, <1>3, <2>1, <2>2
  <2>4. /\ poll'.pc = "evaluate" => lastSeenGen' <= poll'.gen
        /\ poll' # PollIdle => poll'.gen <= gen'
    <3>1. CASE PollGet
      <4>1. poll'.gen = gen /\ UNCHANGED <<lastSeenGen, gen>>
        BY <3>1 DEF PollGet, memory, object
      <4> QED  BY <1>1, <1>3, <4>1
    <3>2. CASE Evaluate \/ CheckFailed
      <4>1. poll \in [pc : PollCalls, spec : SpecType, gen : 1..MaxGen,
                      current : Versions \cup {Factory, Absent},
                      slot : {"A", "B", Absent}]
        BY <3>2, SpecOf DEF Evaluate, CheckFailed, PollCalls
      <4>2. /\ poll' # PollIdle => poll'.gen = poll.gen
            /\ poll'.pc # "evaluate"
        BY <1>0, <3>2, <4>1 DEF Evaluate, CheckFailed
      <4>3. poll.gen \in Nat /\ poll.gen <= gen
        BY <1>1, <1>3, <4>1
      <4> QED  BY <1>0, <1>1, <1>2, <4>2, <4>3
    <3>3. CASE UNCHANGED poll /\ ~Evaluate
      BY <1>0, <1>1, <1>2, <1>3, <2>1, <3>3 DEF PollCalls
    <3>4. CASE poll' = PollIdle  BY <1>0, <3>4
    <3> QED  BY <3>1, <3>2, <3>3, <3>4, PollMoves
  <2>5. ASSUME NEW c \in Clients, call'[c].pc = "put"
        PROVE  call'[c].status.observed <= lastSeenGen'
    <3>1. ASSUME call[c].pc = "put", call'[c].status = call[c].status
          PROVE  call'[c].status.observed <= lastSeenGen'
      <4>1. call[c].status.observed \in Nat  BY <3>1, Numbers
      <4> QED  BY <1>1, <1>2, <1>3, <2>3, <3>1, <4>1
    <3>2. CASE Keeps  BY <2>5, <3>1, <3>2 DEF Keeps
    <3>3. CASE Outdates  BY <2>5, <3>1, <3>3 DEF Outdates
    <3>4. ASSUME NEW e \in Clients, UpdateGet(e)
          PROVE  call'[c].status.observed <= lastSeenGen'
      <4>1. /\ call'[e].status.observed = lastSeenGen
            /\ \A x \in Clients : x # e => call'[x] = call[x]
        BY <3>4, GetOf
      <4> QED  BY <2>3, <2>5, <3>1, <4>1
    <3> QED  BY <3>2, <3>3, <3>4, CallMoves
  <2> QED  BY <2>3, <2>4, <2>5 DEF Stamps
<1> QED  BY <1>4, <1>5

(* What a step does to the stamp in the status.                            *)
LEMMA ForwardStep ==
  ASSUME Typed, Stamps, Forward, [Next]_vars, ~Crash
  PROVE  Forward' /\ status.observed <= status'.observed
<1>0. /\ lastSeenGen \in Nat /\ status.observed \in Nat
      /\ lastSeenGen' \in Nat /\ status'.observed \in Nat
      /\ \A c \in Clients : call[c].pc = "put" =>
           call[c].status.observed \in Nat
  <2>1. Typed'  BY TypedStep
  <2>2. status' \in StatusType /\ lastSeenGen' \in 0..MaxGen
    BY <2>1 DEF Typed, TypedObject, TypedMemory
  <2>3. status'.observed \in 0..MaxGen  BY <2>2 DEF StatusType
  <2> QED  BY <2>2, <2>3, Numbers, AgentAssumption
<1>2. lastSeenGen <= lastSeenGen'
  <2>1. CASE Evaluate
    <3>1. poll.pc = "evaluate" /\ lastSeenGen' = poll.gen
      BY <2>1 DEF Evaluate
    <3> QED  BY <3>1 DEF Stamps
  <2> QED  BY <1>0, <2>1, KeyStep
<1>3. /\ status.observed <= lastSeenGen
      /\ \A c \in Clients : call[c].pc = "put" =>
           /\ call[c].status.observed <= lastSeenGen
           /\ call[c].fresh => status.observed <= call[c].status.observed
  BY DEF Forward, Stamps
<1>4. ASSUME UNCHANGED status
      PROVE  /\ status'.observed <= lastSeenGen'
             /\ status.observed <= status'.observed
  BY <1>0, <1>2, <1>3, <1>4
<1>5. CASE Keeps
  BY <1>3, <1>4, <1>5 DEF Keeps, Forward
<1>6. ASSUME NEW c \in Clients, UpdateGet(c)
      PROVE  Forward' /\ status.observed <= status'.observed
  <2>1. /\ call'[c].status.observed = lastSeenGen /\ UNCHANGED status
        /\ \A e \in Clients : e # c => call'[e] = call[e]
    BY <1>6, GetOf
  <2> QED  BY <1>3, <1>4, <2>1 DEF Forward
<1>7. CASE Outdates /\ UNCHANGED status
  BY <1>4, <1>7 DEF Outdates, Forward
<1>8. ASSUME NEW c \in Clients, PutStatus(c), Outdates
      PROVE  Forward' /\ status.observed <= status'.observed
  <2>1. call[c].pc = "put" /\ call[c].fresh /\ status' = call[c].status
    BY <1>8, PutOf DEF PutStatus
  <2>2. /\ status.observed <= status'.observed
        /\ status'.observed <= lastSeenGen'
    BY <1>0, <1>2, <1>3, <2>1
  <2> QED  BY <1>8, <2>2 DEF Outdates, Forward
<1> QED  BY <1>5, <1>6, <1>7, <1>8, CallMoves

(* Kills are counted and never forgotten.                                  *)
LEMMA CrashCounted ==
  ASSUME Typed, [Next]_vars, counts'.crashes = 0
  PROVE  counts.crashes = 0 /\ ~Crash
<1>0. counts \in CountType  BY DEF Typed
<1>1. counts.crashes \in Nat  BY <1>0, AgentAssumption DEF CountType
<1>2. counts'.crashes = counts.crashes \/ Crash
  <2>1. CASE Heartbeat  BY <1>0, <2>1 DEF Heartbeat, CountType
  <2>2. CASE OperatorWrites  BY <1>0, <2>2 DEF OperatorWrites, CountType
  <2>3. ASSUME NEW c \in Clients, UpdateStatus(c)
        PROVE  counts'.crashes = counts.crashes
    BY <1>0, <2>3 DEF UpdateStatus, UpdateGet, PutStatus, PutConflict,
                      CallLost, CountType
  <2>4. ASSUME NEW g \in Goroutines, RunUpgrade(g) PROVE UNCHANGED counts
    BY <2>4 DEF RunUpgrade, Announce, Download, Verify, Flash, Confirm,
                Finish, Enter, Fail
  <2>5. ASSUME NEW s \in Specs, NEW paused \in BOOLEAN, SetSpec(s, paused)
        PROVE  UNCHANGED counts
    BY <2>5 DEF SetSpec
  <2>6. CASE Poll \/ TrialDecays \/ Boot \/ UNCHANGED vars
    BY <2>6 DEF Poll, PollGet, Evaluate, SyncSteadyStatus, CheckFailed,
      StartUpgrade, TrialDecays, Boot, vars
  <2> QED  BY <2>1, <2>2, <2>3, <2>4, <2>5, <2>6 DEF Next
<1>3. ASSUME Crash PROVE FALSE
  <2>1. counts' = [counts EXCEPT !.crashes = @ + 1]  BY <1>3 DEF Crash
  <2>2. counts'.crashes = counts.crashes + 1  BY <1>0, <2>1 DEF CountType
  <2> QED  BY <1>1, <2>2
<1> QED  BY <1>2, <1>3

(* edgedevice_types.go:121, "observedGeneration is the metadata.generation *)
(* the agent last acted on": until the agent is killed for the first time, *)
(* no PUT of any of its goroutines takes observedGeneration back, although *)
(* each stamps what it loaded before its request and the requests overtake *)
(* each other.                                                             *)
THEOREM ObservedMovesForward == Spec => ObservedNeverRegresses
<1> DEFINE Inv == Typed /\ Stamps /\ (counts.crashes = 0 => Forward)
<1>1. Init => Stamps /\ Forward
  <2> SUFFICES ASSUME Init PROVE Stamps /\ Forward  OBVIOUS
  <2>1. /\ gen = 1 /\ lastSeenGen = 0 /\ status.observed = 0
        /\ poll = PollIdle /\ \A c \in Clients : call[c] = NoCall
    BY DEF Init
  <2> QED  BY <2>1 DEF Stamps, Forward, PollIdle, NoCall
<1>2. Inv /\ [Next]_vars => Inv'
  <2> SUFFICES ASSUME Inv, [Next]_vars PROVE Inv'  OBVIOUS
  <2>1. ASSUME counts'.crashes = 0 PROVE Forward'
    BY <2>1, CrashCounted, ForwardStep
  <2> QED  BY <2>1, TypedStep, StampsStep
<1>3. Inv /\ [Next]_vars =>
        [counts.crashes = 0 => status'.observed >= status.observed]_vars
  <2> SUFFICES ASSUME Inv, [Next]_vars, counts.crashes = 0
               PROVE  status'.observed >= status.observed
    OBVIOUS
  <2>1. status.observed <= status'.observed
    <3>1. CASE Crash  BY <3>1, Numbers DEF Crash, object
    <3> QED  BY <3>1, ForwardStep
  <2>2. status.observed \in Nat /\ status'.observed \in Nat
    <3>1. Typed'  BY TypedStep
    <3>2. status'.observed \in 0..MaxGen
      BY <3>1 DEF Typed, TypedObject, StatusType
    <3> QED  BY <3>2, Numbers, AgentAssumption
  <2> QED  BY <2>1, <2>2
<1> QED
  BY <1>1, <1>2, <1>3, TypedInit, PTL DEF Spec, ObservedNeverRegresses
================================================================================
