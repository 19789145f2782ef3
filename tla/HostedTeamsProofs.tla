-------------------------- MODULE HostedTeamsProofs --------------------------
(***************************************************************************)
(* Theorems about the hosted life of Teams for every number of Teams, Apps *)
(* and faults and for all limits.                                          *)
(*                                                                         *)
(* No property of a run is inductive: each depends on where the operation  *)
(* of the Team is.  The inductive invariant says, for each Team,           *)
(*   RequestInv      which labels an operation of each kind can reach,     *)
(*   ReadingInv      that an admission decides on a reading,               *)
(*   RecordInv       between which steps there is a cleanup record,        *)
(*   BrainInv        whose Brain an operation that strips it is about,     *)
(*   ChatInv         who holds the chat lock while private data goes,      *)
(*   ResidueInv      what each step of a teardown has already removed,     *)
(*   EgressInv       that a policy goes before its App does,               *)
(*   PgInv           what pg-driver has of a Team until its record goes,   *)
(*   RegisteredInv   that a Team without record has no App registered, and *)
(*   ReservationInv  that a fresh reading covers what the host holds.      *)
(* Steps of one Team leave the parts of the others; the effects of its own *)
(* steps are stated once (the Effects lemmas), then field by field (the    *)
(* Changes lemmas), and each part of the invariant follows from those.     *)
(***************************************************************************)
EXTENDS HostedTeams, FiniteSetTheorems, TLAPS

\* Whatever a Team does, alone or through its operation.
TeamStep(t) ==
  \/ AuthorizeDestroy(t) \/ TakesLock(t) \/ OperationStep(t) \/ InventoryFails(t)
  \/ StartCreate(t) \/ RepeatCreate(t) \/ StopTeam(t) \/ StartTeam(t) \/ PutFile(t)
  \/ BeginTurn(t) \/ TurnStores(t) \/ EndTurn(t) \/ Contaminate(t) \/ Evict(t)
  \/ \E a \in App : AuthorizeApp(t, a) \/ ReplaceSecrets(t, a)

\* The labels at which each kind of operation can be.
Creating == AdmissionLabels \cup CreateBody
LabelsOf(kind) ==
  CASE kind = "none" -> {"idle"}
    [] kind = "create" -> Creating \cup TeardownLabels \cup {"finish"}
    [] kind = "destroy" -> DestroyLabels \cup TeardownLabels \cup {"finish"}
    [] kind = "install" -> (AdmissionLabels \ {"count"}) \cup InstallBody
                             \cup {"revoke", "policy", "app", "appDrop", "finish"}
    [] kind = "uninstall" -> RemovalLabels \cup {"finish"}

\* An App is named by the requests and the operations that are about one, and by
\* no other; a request for one holds the chat lock while it waits.
OfApp(kind) == kind \in {"install", "uninstall"}

RequestInv(t) ==
  /\ pc[t] \in LabelsOf(op[t].kind)
  /\ OfApp(op[t].kind) => op[t].app \in App
  /\ queued[t] # NoRequest /\ OfApp(queued[t].kind) => queued[t].app \in App /\ chat[t] = "queued"
  /\ chat[t] = "queued" => queued[t] # NoRequest /\ OfApp(queued[t].kind)

\* An admission has a reading of the reservations.
ReadingInv(t) == pc[t] \in {"count", "measure", "commit"} => reading[t] # NoReading

\* A cleanup record is there from the begin of a teardown to its end, and before
\* that of a destroy; an install or uninstall never sees one.
RecordInv(t) ==
  LET w == world[t]
  IN  /\ OfApp(op[t].kind) => w.record = NoRecord
      /\ op[t].kind = "create" /\ pc[t] \in Creating \cup {"check", "begin"} => w.record = NoRecord
      /\ op[t].kind = "destroy" /\ pc[t] \notin {"anchor", "finish"} => w.record # NoRecord
      /\ pc[t] \in TeardownLabels \ {"check", "begin"} => w.record # NoRecord

-----------------------------------------------------------------------------
\* A fault is counted.
LEMMA FaultCounted ==
  ASSUME TypeOK, NEW t \in Team, Fault(t)
  PROVE  faults' \in 0..MaxFaults
BY HostedAssumption DEF TypeOK, Fault

\* A failure goes to a label.
LEMMA OnErrorTyped ==
  ASSUME NEW t \in Team
  PROVE  OnError(t) \in {"check", "policy", "finish"}
BY DEF OnError

\* A move of one Team keeps the types, if what it stores has them.
LEMMA MoveTyped ==
  ASSUME TypeOK, NEW t \in Team, NEW w \in World, NEW label \in Labels,
         world' = [world EXCEPT ![t] = w], Goto(t, label)
  PROVE  world' \in [Team -> World] /\ pc' \in [Team -> Labels]
BY DEF TypeOK, Goto

\* So does a step that may fail.
LEMMA StepTyped ==
  ASSUME TypeOK, NEW t \in Team, NEW w \in World, NEW label \in Labels,
         NEW outcomes \in SUBSET World, StepOr(t, w, label, outcomes)
  PROVE  TypeOK'
<1>1. UNCHANGED <<op, queued, chat, admission>>
  BY DEF StepOr
<1>2. CASE world' = [world EXCEPT ![t] = w] /\ Goto(t, label) /\ UNCHANGED faults
  BY <1>1, <1>2, MoveTyped DEF TypeOK, admission
<1>3. CASE /\ Fault(t)
           /\ \E failed \in outcomes : world' = [world EXCEPT ![t] = failed]
           /\ Goto(t, OnError(t))
  <2>1. PICK failed \in outcomes : world' = [world EXCEPT ![t] = failed]
    BY <1>3
  <2>2. OnError(t) \in Labels
    BY OnErrorTyped DEF Labels, TeardownLabels, RemovalLabels
  <2>3. world' \in [Team -> World] /\ pc' \in [Team -> Labels]
    BY <1>3, <2>1, <2>2, MoveTyped
  <2>4. QED
    BY <1>1, <1>3, <2>3, FaultCounted DEF TypeOK, admission
<1>4. QED
  BY <1>2, <1>3 DEF StepOr

\* And one that may fail before or after its effect, or refuse.
LEMMA PlainStepTyped ==
  ASSUME TypeOK, NEW t \in Team, NEW w \in World, NEW label \in Labels, Step(t, w, label)
  PROVE  TypeOK'
<1>1. {world[t], w} \in SUBSET World
  BY DEF TypeOK
<1>2. QED
  BY <1>1, StepTyped DEF Step

\* A refusal, and a step that only decides.
LEMMA ProceedTyped ==
  ASSUME TypeOK, NEW t \in Team,
         Refuse(t) \/ \E label \in Labels : Proceed(t, label)
  PROVE  TypeOK'
<1>1. OnError(t) \in Labels
  BY OnErrorTyped DEF Labels, TeardownLabels, RemovalLabels
<1>2. pc' \in [Team -> Labels]
  BY <1>1 DEF TypeOK, Refuse, Proceed, Goto
<1>3. QED
  BY <1>2 DEF TypeOK, Refuse, Proceed, admission

USE DEF Labels, AdmissionLabels, CreateBody, InstallBody, DestroyLabels, TeardownLabels, RemovalLabels

\* The databases of a Team, whatever is done to them.
LEMMA RegistryTyped ==
  ASSUME NEW r \in Pg!Registry
  PROVE  /\ Pg!Provision(r) \in Pg!Registry /\ Pg!ProvisionOutcomes(r) \subseteq Pg!Registry
         /\ Pg!DropTeam(r) \in Pg!Registry /\ Pg!DropTeamOutcomes(r) \subseteq Pg!Registry
         /\ Pg!Finalize(r) \in Pg!Registry
         /\ \A a \in App : /\ Pg!CreateApp(r, a) \in Pg!Registry /\ Pg!CreateAppOutcomes(r, a) \subseteq Pg!Registry
                           /\ Pg!DropApp(r, a) \in Pg!Registry /\ Pg!DropAppOutcomes(r, a) \subseteq Pg!Registry
<1>1. ASSUME NEW q \in Pg!Registry, NEW d \in Pg!Database
      PROVE  Pg!CreateDatabase(q, d) \in Pg!Registry /\ Pg!AddDatabase(q, d) \in Pg!Registry
  BY DEF Pg!Registry, Pg!CreateDatabase, Pg!AddDatabase
<1>2. ASSUME NEW q \in Pg!Registry, NEW gone, NEW lost
      PROVE  /\ Pg!DropDatabases(q, gone) \in Pg!Registry
             /\ Pg!RemoveDatabases(Pg!DropDatabases(q, gone), lost) \in Pg!Registry
  BY DEF Pg!Registry, Pg!DropDatabases, Pg!RemoveDatabases
<1>3. ASSUME NEW q \in Pg!Registry
      PROVE  Pg!Register(q) \in Pg!Registry
  BY DEF Pg!Registry, Pg!Register, Pg!Database
<1>4. "team" \in Pg!Database /\ App \subseteq Pg!Database
  BY DEF Pg!Database
<1>5. Pg!Provision(r) \in Pg!Registry /\ Pg!ProvisionOutcomes(r) \subseteq Pg!Registry
  BY <1>1, <1>3, <1>4 DEF Pg!Provision, Pg!ProvisionOutcomes
<1>6. Pg!DropTeam(r) \in Pg!Registry
  BY DEF Pg!Registry, Pg!Database, Pg!DropTeam, Pg!RemoveDatabases, Pg!DropDatabases
<1>7. Pg!DropTeamOutcomes(r) \subseteq Pg!Registry
  <2>1. SUFFICES ASSUME NEW q \in Pg!DropTeamOutcomes(r)
                 PROVE  q \in Pg!Registry
    OBVIOUS
  <2>2. CASE q \in {r, Pg!DropTeam(r)}
    BY <1>6, <2>2
  <2>3. CASE q \notin {r, Pg!DropTeam(r)}
    <3>1. \E gone, lost : q = Pg!RemoveDatabases(Pg!DropDatabases(r, gone), lost)
      BY <2>1, <2>3, Zenon DEF Pg!DropTeamOutcomes
    <3>2. QED
      BY <1>2, <3>1
  <2>4. QED
    BY <2>2, <2>3
<1>8. Pg!Finalize(r) \in Pg!Registry
  BY DEF Pg!Registry, Pg!Database, Pg!Finalize
<1>9. ASSUME NEW a \in App
      PROVE  Pg!CreateApp(r, a) \in Pg!Registry /\ Pg!CreateAppOutcomes(r, a) \subseteq Pg!Registry
  BY <1>1, <1>4 DEF Pg!CreateApp, Pg!CreateAppOutcomes
<1>10. ASSUME NEW a \in App
       PROVE  Pg!DropApp(r, a) \in Pg!Registry /\ Pg!DropAppOutcomes(r, a) \subseteq Pg!Registry
  BY <1>2 DEF Pg!DropApp, Pg!DropAppOutcomes
<1>11. QED
  BY <1>5, <1>6, <1>7, <1>8, <1>9, <1>10

\* A Team with another value in a field is typed if the value is.
LEMMA FieldsTyped ==
  ASSUME NEW w \in World
  PROVE  /\ \A x \in Brain \cup {NoBrain} : [w EXCEPT !.brain = x] \in World
         /\ \A x \in BOOLEAN : [w EXCEPT !.up = x] \in World /\ [w EXCEPT !.token = x] \in World
         /\ \A x \in SUBSET App : [w EXCEPT !.apps = x] \in World
         /\ \A x \in SUBSET {"network", "postgres", "egress", "foreign"} : [w EXCEPT !.net = x] \in World
         /\ \A x \in SUBSET ({"token", "hosts"} \X App) : [w EXCEPT !.policy = x] \in World
         /\ \A x \in SUBSET {"journal", "file", "inference"} : [w EXCEPT !.data = x] \in World
         /\ \A x \in SUBSET AppData : [w EXCEPT !.kept = x] \in World
         /\ \A x \in Pg!Registry : [w EXCEPT !.pg = x] \in World
         /\ \A x \in {NoRecord} \cup CleanupRecord : [w EXCEPT !.record = x] \in World
<1>1. \A x \in Brain \cup {NoBrain} : [w EXCEPT !.brain = x] \in World
  BY DEF World
<1>2. \A x \in BOOLEAN : [w EXCEPT !.up = x] \in World /\ [w EXCEPT !.token = x] \in World
  BY DEF World
<1>3. \A x \in SUBSET App : [w EXCEPT !.apps = x] \in World
  BY DEF World
<1>4. \A x \in SUBSET {"network", "postgres", "egress", "foreign"} : [w EXCEPT !.net = x] \in World
  BY DEF World
<1>5. \A x \in SUBSET ({"token", "hosts"} \X App) : [w EXCEPT !.policy = x] \in World
  BY DEF World
<1>6. \A x \in SUBSET {"journal", "file", "inference"} : [w EXCEPT !.data = x] \in World
  BY DEF World
<1>7. \A x \in SUBSET AppData : [w EXCEPT !.kept = x] \in World
  BY DEF World
<1>8. \A x \in Pg!Registry : [w EXCEPT !.pg = x] \in World
  BY DEF World
<1>9. \A x \in {NoRecord} \cup CleanupRecord : [w EXCEPT !.record = x] \in World
  BY DEF World
<1>10. QED
  BY <1>1, <1>2, <1>3, <1>4, <1>5, <1>6, <1>7, <1>8, <1>9

\* The types of the fields.
LEMMA WorldFields ==
  ASSUME NEW w \in World
  PROVE  /\ w.brain \in Brain \cup {NoBrain} /\ w.up \in BOOLEAN /\ w.token \in BOOLEAN
         /\ w.apps \in SUBSET App /\ w.net \in SUBSET {"network", "postgres", "egress", "foreign"}
         /\ w.policy \in SUBSET ({"token", "hosts"} \X App)
         /\ w.data \in SUBSET {"journal", "file", "inference"} /\ w.kept \in SUBSET AppData
         /\ w.pg \in Pg!Registry /\ w.record \in {NoRecord} \cup CleanupRecord
BY DEF World

\* Removing Apps and their policies keeps the type.
LEMMA WithoutTyped ==
  ASSUME NEW w \in World, NEW gone, NEW kind
  PROVE  /\ \A more : WithoutApps(w, gone, more) \in World
         /\ WithoutData(w, gone) \in World /\ WithoutKept(w, kind, gone) \in World
<1>1. \A more : WithoutApps(w, gone, more) \in World
  BY DEF WithoutApps, World
<1>2. WithoutData(w, gone) \in World
  BY DEF WithoutData, World
<1>3. WithoutKept(w, kind, gone) \in World
  BY DEF WithoutKept, World
<1>4. QED
  BY <1>1, <1>2, <1>3

\* The id of a new Brain is an id, and not the one a request waits for.
LEMMA NewBrainTyped ==
  ASSUME TypeOK, NEW t \in Team
  PROVE  /\ NewBrain(t) \in Brain
         /\ queued[t] # NoRequest => queued[t].lease.brain # NewBrain(t)
<1>1. \E b \in Brain : queued[t] = NoRequest \/ queued[t].lease.brain # b
  <2>1. CASE queued[t] = NoRequest
    BY <2>1, HostedAssumption
  <2>2. CASE queued[t] # NoRequest
    <3>1. queued[t].lease.brain \in Brain \cup {NoBrain}
      BY <2>2 DEF TypeOK, QueuedRequest
    <3>2. QED
      BY <3>1, HostedAssumption
  <2>3. QED
    BY <2>1, <2>2
<1>2. QED
  BY <1>1 DEF NewBrain

\* What an operation reserves is a key.
LEMMA KeyTyped ==
  ASSUME TypeOK, NEW t \in Team, RequestInv(t), pc[t] \in AdmissionLabels \cup CreateBody \cup InstallBody
  PROVE  KeyOf(t) \in Key
<1>1. op[t].kind \in {"create", "install"}
  BY DEF TypeOK, RequestInv, LabelsOf, Creating
<1>2. CASE op[t].kind = "create"
  BY <1>2 DEF KeyOf, Key, Workload
<1>3. CASE op[t].kind = "install"
  BY <1>3 DEF RequestInv, OfApp, KeyOf, Key, Workload
<1>4. QED
  BY <1>1, <1>2, <1>3

\* Containers are counted by their keys.
LEMMA ContainersTyped ==
  Containers \in SUBSET Key
BY DEF Containers

\* Admission keeps the types.
LEMMA AdmissionTyped ==
  ASSUME TypeOK, NEW t \in Team, RequestInv(t), ReadingInv(t), AdmissionStep(t) \/ InventoryFails(t)
  PROVE  TypeOK'
<1>2. CASE ReadReservations(t)
  BY <1>2 DEF TypeOK, ReadReservations, Goto, Reading, admission
<1>3. CASE CountTeams(t)
  <2>1. reading[t] \in Reading
    BY <1>3 DEF TypeOK, ReadingInv, CountTeams
  <2>2. Ledger!Brains(Containers) \ reading[t].reserved \in SUBSET Key
    BY ContainersTyped DEF Ledger!Brains
  <2>3. reading' \in [Team -> {NoReading} \cup Reading]
    BY <1>3, <2>1, <2>2 DEF TypeOK, CountTeams, Reading
  <2>4. QED
    BY <1>3, <2>3 DEF TypeOK, CountTeams, Goto
<1>4. CASE MeasureMemory(t)
  <2>1. reading[t] \in Reading
    BY <1>4 DEF TypeOK, ReadingInv, MeasureMemory
  <2>2. Containers \ reading[t].reserved \in SUBSET Key
    BY ContainersTyped
  <2>3. reading' \in [Team -> {NoReading} \cup Reading]
    BY <1>4, <2>1, <2>2 DEF TypeOK, MeasureMemory, Reading
  <2>4. QED
    BY <1>4, <2>3 DEF TypeOK, MeasureMemory, Goto
<1>5. CASE Admit(t)
  <2>1. KeyOf(t) \in Key
    BY <1>5, KeyTyped DEF Admit
  <2>2. QED
    BY <1>5, <2>1 DEF TypeOK, Admit, Reserve, Goto
<1>6. CASE CheckRuntime(t)
  BY <1>6, PlainStepTyped DEF TypeOK, CheckRuntime
<1>7. CASE InventoryFails(t)
  BY <1>7, FaultCounted DEF TypeOK, InventoryFails, Goto, admission
<1>8. QED
  BY <1>2, <1>3, <1>4, <1>5, <1>6, <1>7 DEF AdmissionStep

\* So do the steps of a create.
LEMMA CreateTyped ==
  ASSUME TypeOK, NEW t \in Team, CreateStep(t)
  PROVE  TypeOK'
<1>1. world[t] \in World
  BY DEF TypeOK
<1>2. CASE ProvisionTeam(t)
  <2> DEFINE w == [world[t] EXCEPT !.token = TRUE]
  <2>1. w \in World
    BY <1>1, FieldsTyped
  <2>2. w.pg \in Pg!Registry
    BY <2>1, WorldFields
  <2>3. [w EXCEPT !.pg = Pg!Provision(@)] \in World
    BY <2>1, <2>2, FieldsTyped, RegistryTyped
  <2>4. {[w EXCEPT !.pg = r] : r \in Pg!ProvisionOutcomes(w.pg)} \in SUBSET World
    BY <2>1, <2>2, FieldsTyped, RegistryTyped
  <2>5. CASE Pg!MayProvision(w.pg)
    BY <1>2, <2>3, <2>4, <2>5, StepTyped DEF ProvisionTeam
  <2>6. CASE ~Pg!MayProvision(w.pg)
    BY <1>2, <2>1, <2>6, MoveTyped DEF TypeOK, ProvisionTeam, admission
  <2>7. QED
    BY <2>5, <2>6
<1>3. CASE CreateNetwork(t)
  <2>1. EnsureNetwork(world[t]) \in World
    BY <1>1, FieldsTyped, WorldFields DEF EnsureNetwork
  <2>2. QED
    BY <1>3, <2>1, PlainStepTyped, ProceedTyped DEF CreateNetwork
<1>4. CASE WireDependencies(t)
  <2>1. [world[t] EXCEPT !.net = @ \cup {"postgres"}] \in World
    BY <1>1, FieldsTyped, WorldFields
  <2>2. QED
    <3>1. CASE Refuse(t)
      BY <3>1, ProceedTyped
    <3>2. CASE Step(t, [world[t] EXCEPT !.net = @ \cup {"postgres"}], "container")
      BY <2>1, <3>2, PlainStepTyped
    <3>3. QED
      BY <1>4, <3>1, <3>2 DEF WireDependencies
<1>5. CASE CreateBrain(t)
  <2> DEFINE w == [world[t] EXCEPT !.brain = NewBrain(t)]
  <2>1. w \in World
    BY <1>1, NewBrainTyped, FieldsTyped
  <2>2. w.brain \in Brain
    BY <1>1, NewBrainTyped DEF World
  <2>3. CASE /\ world' = [world EXCEPT ![t] = w]
             /\ op' = [op EXCEPT ![t].brain = w.brain]
             /\ Goto(t, "start") /\ UNCHANGED faults
    <3> DEFINE Operation == [kind : {"none", "create", "destroy", "install", "uninstall"},
                             app : App \cup {NoApp}, brain : Brain \cup {NoBrain}]
    <3>1. op' \in [Team -> Operation]
      <4>1. op \in [Team -> Operation]
        BY DEF TypeOK
      <4>2. [op[t] EXCEPT !.brain = w.brain] \in Operation
        BY <2>2, <4>1
      <4>3. op' = [op EXCEPT ![t] = [op[t] EXCEPT !.brain = w.brain]]
        BY <2>3
      <4> HIDE DEF Operation, w
      <4>4. QED
        BY <4>1, <4>2, <4>3
    <3>2. world' \in [Team -> World] /\ pc' \in [Team -> Labels]
      BY <2>1, <2>3, MoveTyped
    <3>3. QED
      BY <1>5, <2>3, <3>1, <3>2 DEF TypeOK, CreateBrain, admission
  <2>4. CASE /\ Fault(t)
             /\ \E failed \in {world[t], w} : world' = [world EXCEPT ![t] = failed]
             /\ Goto(t, "check") /\ UNCHANGED op
    <3>1. PICK failed \in {world[t], w} : world' = [world EXCEPT ![t] = failed]
      BY <2>4
    <3>2. world' \in [Team -> World] /\ pc' \in [Team -> Labels]
      BY <1>1, <2>1, <2>4, <3>1, MoveTyped
    <3>3. QED
      BY <1>5, <2>4, <3>2, FaultCounted DEF TypeOK, CreateBrain, admission
  <2>5. QED
    BY <1>5, <2>3, <2>4 DEF CreateBrain
<1>6. CASE StartBrain(t)
  <2>1. [world[t] EXCEPT !.up = TRUE] \in World
    BY <1>1, FieldsTyped
  <2>2. QED
    <3>1. CASE Refuse(t)
      BY <3>1, ProceedTyped
    <3>2. CASE Step(t, [world[t] EXCEPT !.up = TRUE], "inference")
      BY <2>1, <3>2, PlainStepTyped
    <3>3. QED
      BY <1>6, <3>1, <3>2 DEF StartBrain
<1>7. CASE SaveInference(t)
  <2>1. [world[t] EXCEPT !.data = @ \cup {"inference"}] \in World
    BY <1>1, FieldsTyped, WorldFields
  <2>2. QED
    BY <1>7, <2>1, PlainStepTyped DEF SaveInference
<1>8. QED
  BY <1>2, <1>3, <1>4, <1>5, <1>6, <1>7 DEF CreateStep

\* So does the begin of a cleanup record.
LEMMA BeginTyped ==
  ASSUME TypeOK, NEW t \in Team, NEW label \in Labels, BeginRecord(t, label)
  PROVE  TypeOK'
<1> DEFINE begun == [world[t] EXCEPT !.record = [brain |-> op[t].brain, dropped |-> FALSE]]
<1>1. begun \in World
  <2>1. [brain |-> op[t].brain, dropped |-> FALSE] \in CleanupRecord
    BY DEF TypeOK, CleanupRecord
  <2>2. world[t] \in World
    BY DEF TypeOK
  <2>3. QED
    BY <2>1, <2>2, FieldsTyped
<1>2. Step(t, begun, label) \/ Proceed(t, label) \/ Refuse(t)
  BY DEF BeginRecord
<1> HIDE DEF begun
<1>3. QED
  BY <1>1, <1>2, PlainStepTyped, ProceedTyped

\* So does a stop.
LEMMA StopTyped ==
  ASSUME NEW w \in World
  PROVE  StopBrain(w) \in World
BY FieldsTyped DEF StopBrain

\* So do the steps of a destroy before its teardown.
LEMMA DestroyTyped ==
  ASSUME TypeOK, NEW t \in Team, DestroyStep(t)
  PROVE  TypeOK'
<1>1. world[t] \in World
  BY DEF TypeOK
<1>2. CASE AnchorDestroy(t)
  BY <1>2, BeginTyped DEF AnchorDestroy
<1>3. CASE FailStop(t)
  BY <1>1, <1>3, StopTyped, PlainStepTyped DEF FailStop
<1>4. CASE TakeChatLock(t)
  BY <1>4 DEF TypeOK, TakeChatLock, Goto, admission
<1>5. CASE ChatLockTimesOut(t)
  BY <1>5, ProceedTyped DEF ChatLockTimesOut
<1>6. CASE DeleteThread(t)
  BY <1>1, <1>6, PlainStepTyped, ProceedTyped DEF DeleteThread
<1>7. CASE PurgeJournal(t)
  <2>1. [world[t] EXCEPT !.data = @ \ {"journal"}] \in World
    BY <1>1, FieldsTyped, WorldFields
  <2>2. QED
    BY <1>7, <2>1, PlainStepTyped DEF PurgeJournal
<1>8. QED
  BY <1>2, <1>3, <1>4, <1>5, <1>6, <1>7 DEF DestroyStep

\* So do the steps of a teardown.
LEMMA TeardownTyped ==
  ASSUME TypeOK, NEW t \in Team, RecordInv(t), TeardownStep(t)
  PROVE  TypeOK'
<1>1. world[t] \in World
  BY DEF TypeOK
<1>2. CASE CheckBrain(t)
  BY <1>1, <1>2, PlainStepTyped, ProceedTyped DEF CheckBrain
<1>3. CASE BeginTeardown(t)
  BY <1>3, BeginTyped DEF BeginTeardown
<1>4. CASE StopTeardownBrain(t)
  BY <1>1, <1>4, StopTyped, PlainStepTyped DEF StopTeardownBrain
<1>5. CASE TeardownApps(t)
  <2> DEFINE w == world[t]
             outcomes == {WithoutApps(w, p[1], p[2]) :
               p \in {p \in PolicyRemovals(w.apps) \X (SUBSET w.apps) : PoliciesOf(p[2]) \subseteq p[1]}}
             left == WithoutApps(w, PoliciesOf(w.apps), w.apps)
  <2>1. left \in World /\ outcomes \in SUBSET World
    BY <1>1, WithoutTyped
  <2>2. StepOr(t, left, "storage", outcomes)
    BY <1>5 DEF TeardownApps
  <2> HIDE DEF left, outcomes
  <2>3. QED
    BY <2>1, <2>2, StepTyped
<1>6. CASE TeardownStorage(t) \/ TeardownInference(t)
  BY <1>1, <1>6, WithoutTyped, PlainStepTyped DEF TeardownStorage, TeardownInference
<1>7. CASE TeardownSecrets(t) \/ TeardownAccounts(t) \/ TeardownGrants(t)
  BY <1>1, <1>7, WithoutTyped, PlainStepTyped DEF TeardownSecrets, TeardownAccounts, TeardownGrants
<1>8. CASE TeardownNetwork(t)
  <2> DEFINE w == world[t]
             outcomes == {[w EXCEPT !.net = @ \ gone] : gone \in SUBSET {"postgres", "egress"}} \cup {[w EXCEPT !.net = {}]}
             emptied == [w EXCEPT !.net = @ \ {"postgres", "egress"}]
             removed == [w EXCEPT !.net = {}]
  <2>1. removed \in World /\ \A gone : [w EXCEPT !.net = @ \ gone] \in World
    BY <1>1, FieldsTyped, WorldFields
  <2>2. emptied \in World /\ outcomes \in SUBSET World
    BY <2>1
  <2>3. \/ /\ world' = [world EXCEPT ![t] = emptied] /\ Goto(t, "finish")
           /\ UNCHANGED <<op, queued, chat, admission, faults>>
        \/ StepOr(t, removed, "brain", outcomes)
    BY <1>8 DEF TeardownNetwork
  <2>4. CASE /\ world' = [world EXCEPT ![t] = emptied] /\ Goto(t, "finish")
             /\ UNCHANGED <<op, queued, chat, admission, faults>>
    BY <2>2, <2>4, MoveTyped DEF TypeOK, admission
  <2> HIDE DEF emptied, removed, outcomes
  <2>5. CASE StepOr(t, removed, "brain", outcomes)
    BY <2>1, <2>2, <2>5, StepTyped DEF removed
  <2>6. QED
    BY <2>3, <2>4, <2>5
<1>9. CASE RemoveBrain(t)
  <2>1. [StopBrain(world[t]) EXCEPT !.brain = NoBrain] \in World
    BY <1>1, StopTyped, FieldsTyped
  <2>2. QED
    BY <1>9, <2>1, PlainStepTyped DEF RemoveBrain
<1>10. CASE DropDatabases(t)
  <2> DEFINE w == world[t]
             dropped == [w EXCEPT !.pg = Pg!DropTeam(@)]
             outcomes == {[w EXCEPT !.pg = r] : r \in Pg!DropTeamOutcomes(w.pg)}
  <2>1. w.pg \in Pg!Registry
    BY <1>1, WorldFields
  <2>2. dropped \in World
    BY <1>1, <2>1, FieldsTyped, RegistryTyped
  <2>3. outcomes \in SUBSET World
    BY <1>1, <2>1, FieldsTyped, RegistryTyped
  <2>4. Proceed(t, "finalize") \/ Refuse(t) \/ StepOr(t, dropped, "mark", outcomes)
    BY <1>10 DEF DropDatabases
  <2> HIDE DEF dropped, outcomes
  <2>5. QED
    BY <2>2, <2>3, <2>4, StepTyped, ProceedTyped
<1>11. CASE MarkDropped(t)
  <2> DEFINE w == world[t]  marked == [w EXCEPT !.record.dropped = TRUE]
  <2>1. w.record \in CleanupRecord
    BY <1>1, <1>11, WorldFields DEF RecordInv, MarkDropped
  <2>2. [w.record EXCEPT !.dropped = TRUE] \in CleanupRecord
    BY <2>1 DEF CleanupRecord
  <2>3. marked \in World
    BY <1>1, <2>2, FieldsTyped
  <2>4. Step(t, marked, "finalize")
    BY <1>11 DEF MarkDropped
  <2> HIDE DEF marked
  <2>5. QED
    BY <2>3, <2>4, PlainStepTyped
<1>12. CASE FinalizeDrop(t)
  <2> DEFINE w == [world[t] EXCEPT !.pg = Pg!Finalize(@)]
             gone == [w EXCEPT !.token = FALSE]
  <2>1. w \in World
    BY <1>1, WorldFields, RegistryTyped, FieldsTyped
  <2>2. gone \in World
    BY <2>1, FieldsTyped
  <2>3. StepOr(t, gone, "finishRecord", {world[t], w}) \/ Refuse(t)
    BY <1>12 DEF FinalizeDrop
  <2> HIDE DEF gone, w
  <2>4. QED
    BY <1>1, <2>1, <2>2, <2>3, StepTyped, ProceedTyped
<1>13. CASE FinishRecord(t)
  <2>1. [world[t] EXCEPT !.record = NoRecord] \in World
    BY <1>1, FieldsTyped
  <2>2. QED
    BY <1>13, <2>1, PlainStepTyped DEF FinishRecord
<1>14. QED
  BY <1>2, <1>3, <1>4, <1>5, <1>6, <1>7, <1>8, <1>9, <1>10, <1>11, <1>12, <1>13 DEF TeardownStep

\* So do the steps of an install.
LEMMA InstallTyped ==
  ASSUME TypeOK, NEW t \in Team, RequestInv(t), InstallStep(t)
  PROVE  TypeOK'
<1> DEFINE w == world[t]  a == op[t].app
<1>1. w \in World
  BY DEF TypeOK
<1>2. op[t].kind = "install" /\ a \in App
  BY DEF TypeOK, RequestInv, LabelsOf, Creating, OfApp, InstallStep, RevokeGrants, CreateAppDatabase, ReserveEgress,
         CreateAppContainer, AdmitContract, ActivateEgress, StartApp, CommitInstall
<1>3. \A v \in World : EnsureNetwork(v) \in World
  BY FieldsTyped, WorldFields DEF EnsureNetwork
<1>4. CASE RevokeGrants(t)
  BY <1>1, <1>4, WithoutTyped, PlainStepTyped DEF RevokeGrants
<1>5. CASE CreateAppDatabase(t)
  <2> DEFINE made == EnsureNetwork([w EXCEPT !.pg = Pg!CreateApp(@, a)])
             outcomes == {[w EXCEPT !.pg = r] : r \in Pg!CreateAppOutcomes(w.pg, a)}
  <2>1. w.pg \in Pg!Registry
    BY <1>1, WorldFields
  <2>2. made \in World
    BY <1>1, <1>2, <1>3, <2>1, FieldsTyped, RegistryTyped
  <2>3. outcomes \in SUBSET World
    BY <1>1, <1>2, <2>1, FieldsTyped, RegistryTyped
  <2>4. Step(t, EnsureNetwork(w), "appToken") \/ Refuse(t) \/ StepOr(t, made, "appToken", outcomes)
    BY <1>5 DEF CreateAppDatabase
  <2>5. EnsureNetwork(w) \in World
    BY <1>1, <1>3
  <2> HIDE DEF made, outcomes
  <2>6. QED
    BY <2>2, <2>3, <2>4, <2>5, StepTyped, PlainStepTyped, ProceedTyped
<1>6. CASE ReserveEgress(t)
  <2> DEFINE tokened == [w EXCEPT !.policy = @ \cup {<<"token", a>>}]
  <2>1. tokened \in World
    BY <1>1, <1>2, FieldsTyped, WorldFields
  <2>2. Step(t, tokened, "appContainer") \/ Refuse(t)
    BY <1>6 DEF ReserveEgress
  <2> HIDE DEF tokened
  <2>3. QED
    BY <2>1, <2>2, PlainStepTyped, ProceedTyped
<1>7. CASE CreateAppContainer(t)
  <2> DEFINE made == [w EXCEPT !.apps = @ \cup {a}]
  <2>1. made \in World
    BY <1>1, <1>2, FieldsTyped, WorldFields
  <2>2. Step(t, made, "appAdmit")
    BY <1>7 DEF CreateAppContainer
  <2> HIDE DEF made
  <2>3. QED
    BY <2>1, <2>2, PlainStepTyped
<1>8. CASE AdmitContract(t) \/ StartApp(t) \/ CommitInstall(t)
  BY <1>1, <1>8, PlainStepTyped, ProceedTyped DEF AdmitContract, StartApp, CommitInstall
<1>9. CASE ActivateEgress(t)
  <2> DEFINE written == [w EXCEPT !.policy = @ \cup {<<"hosts", a>>}]
             connected == [written EXCEPT !.net = @ \cup {"egress"}]
  <2>1. written \in World
    BY <1>1, <1>2, FieldsTyped, WorldFields
  <2>2. connected \in World
    BY <2>1, FieldsTyped, WorldFields
  <2>3. StepOr(t, connected, "appStart", {w, written, connected})
    BY <1>9 DEF ActivateEgress
  <2> HIDE DEF written, connected
  <2>4. QED
    BY <1>1, <2>1, <2>2, <2>3, StepTyped
<1>10. QED
  BY <1>4, <1>5, <1>6, <1>7, <1>8, <1>9 DEF InstallStep

\* So do those of an uninstall.
LEMMA RemovalTyped ==
  ASSUME TypeOK, NEW t \in Team, RequestInv(t), RemovalStep(t)
  PROVE  TypeOK'
<1> DEFINE w == world[t]  a == op[t].app
<1>1. w \in World
  BY DEF TypeOK
<1>2. op[t].kind \in {"install", "uninstall"} /\ a \in App
  BY DEF TypeOK, RequestInv, LabelsOf, Creating, OfApp, RemovalStep, RemovePolicy, RemoveApp, DropAppDatabase,
         DeleteSecrets, DeleteAccounts, DeleteGrants
<1>3. CASE RemovePolicy(t)
  <2> DEFINE outcomes == {WithoutApps(w, ps, {}) : ps \in PolicyRemovals({a})}
  <2>1. outcomes \in SUBSET World
    BY <1>1, WithoutTyped
  <2>2. StepOr(t, WithoutApps(w, PoliciesOf({a}), {}), "app", outcomes)
    BY <1>3 DEF RemovePolicy
  <2> HIDE DEF outcomes
  <2>3. QED
    BY <1>1, <2>1, <2>2, WithoutTyped, StepTyped
<1>4. CASE RemoveApp(t)
  BY <1>1, <1>4, WithoutTyped, PlainStepTyped DEF RemoveApp
<1>5. CASE DropAppDatabase(t)
  <2> DEFINE dropped == [w EXCEPT !.pg = Pg!DropApp(@, a)]
             outcomes == {[w EXCEPT !.pg = r] : r \in Pg!DropAppOutcomes(w.pg, a)}
             label == IF op[t].kind = "install" THEN "finish" ELSE "appSecrets"
  <2>1. w.pg \in Pg!Registry
    BY <1>1, WorldFields
  <2>2. dropped \in World
    BY <1>1, <1>2, <2>1, FieldsTyped, RegistryTyped
  <2>3. outcomes \in SUBSET World
    BY <1>1, <1>2, <2>1, FieldsTyped, RegistryTyped
  <2>4. Proceed(t, label) \/ Refuse(t) \/ StepOr(t, dropped, label, outcomes)
    BY <1>5 DEF DropAppDatabase
  <2>5. label \in Labels
    OBVIOUS
  <2> HIDE DEF dropped, outcomes, label
  <2>6. QED
    BY <2>2, <2>3, <2>4, <2>5, StepTyped, ProceedTyped
<1>6. CASE DeleteSecrets(t) \/ DeleteAccounts(t) \/ DeleteGrants(t)
  BY <1>1, <1>6, WithoutTyped, PlainStepTyped DEF DeleteSecrets, DeleteAccounts, DeleteGrants
<1>7. QED
  BY <1>3, <1>4, <1>5, <1>6 DEF RemovalStep

\* So do the steps that take and give back the locks.
LEMMA LocksTyped ==
  ASSUME TypeOK, NEW t \in Team,
         \/ AuthorizeDestroy(t) \/ TakesLock(t) \/ Finish(t) \/ BeginTurn(t) \/ EndTurn(t)
         \/ \E a \in App : AuthorizeApp(t, a)
  PROVE  TypeOK'
<1> DEFINE Operation == [kind : {"none", "create", "destroy", "install", "uninstall"},
                         app : App \cup {NoApp}, brain : Brain \cup {NoBrain}]
<1>1. CASE AuthorizeDestroy(t)
  <2>1. world[t].brain \in Brain \cup {NoBrain} /\ world[t].record \in {NoRecord} \cup CleanupRecord
    BY DEF TypeOK, World
  <2>2. \A b \in Brain \cup {NoBrain}, c \in BOOLEAN : Request("destroy", NoApp, Lease(b, c)) \in QueuedRequest
    BY DEF Request, Lease, QueuedRequest
  <2>3. queued' \in [Team -> {NoRequest} \cup QueuedRequest]
    BY <1>1, <2>1, <2>2 DEF TypeOK, AuthorizeDestroy, CleanupRecord
  <2>4. QED
    BY <1>1, <2>3 DEF TypeOK, AuthorizeDestroy, admission
<1>2. CASE \E a \in App : AuthorizeApp(t, a)
  <2>1. PICK a \in App : AuthorizeApp(t, a)
    BY <1>2
  <2>2. \A k \in {"install", "uninstall"} : Request(k, a, Lease(world[t].brain, FALSE)) \in QueuedRequest
    BY DEF TypeOK, World, Request, Lease, QueuedRequest
  <2>3. queued' \in [Team -> {NoRequest} \cup QueuedRequest]
    <3>1. PICK k \in {"install", "uninstall"} :
            queued' = [queued EXCEPT ![t] = Request(k, a, Lease(world[t].brain, FALSE))]
      BY <2>1 DEF AuthorizeApp
    <3>2. QED
      BY <2>2, <3>1 DEF TypeOK
  <2>4. QED
    BY <2>1, <2>3 DEF TypeOK, AuthorizeApp, admission
<1>3. CASE TakesLock(t)
  <2>1. UNCHANGED <<world, admission, faults>> /\ Serve(t)
    BY <1>3 DEF TakesLock, DestroyTakesLock, InstallTakesLock, UninstallTakesLock
  <2>2. (\E label \in Labels : Admitted(t, label)) \/ Refused(t)
    BY <1>3, Zenon DEF TakesLock, DestroyTakesLock, InstallTakesLock, UninstallTakesLock
  <2>3. queued[t] \in QueuedRequest
    BY <2>1 DEF TypeOK, Serve
  <2>4. queued' \in [Team -> {NoRequest} \cup QueuedRequest]
    BY <2>1 DEF TypeOK, Serve
  <2>5. CASE Refused(t)
    BY <2>1, <2>4, <2>5 DEF TypeOK, Refused, admission
  <2>6. CASE \E label \in Labels : Admitted(t, label)
    <3>1. [kind |-> queued[t].kind, app |-> queued[t].app, brain |-> queued[t].lease.brain] \in Operation
      BY <2>3 DEF QueuedRequest
    <3>2. op' \in [Team -> Operation]
      BY <2>6, <3>1 DEF TypeOK, Admitted
    <3>3. pc' \in [Team -> Labels] /\ chat' \in [Team -> {"free", "turn", "queued", "op"}]
      BY <2>6 DEF TypeOK, Admitted, Goto
    <3>4. QED
      BY <2>1, <2>4, <3>2, <3>3 DEF TypeOK, admission
  <2>7. QED
    BY <2>2, <2>5, <2>6
<1>4. CASE Finish(t)
  <2>1. NoOp \in Operation
    BY DEF NoOp
  <2>2. op' \in [Team -> Operation]
    BY <1>4, <2>1 DEF TypeOK, Finish
  <2>3. QED
    BY <1>4, <2>2 DEF TypeOK, Finish, Goto
<1>5. CASE BeginTurn(t) \/ EndTurn(t)
  BY <1>5 DEF TypeOK, BeginTurn, EndTurn, admission
<1>6. QED
  BY <1>1, <1>2, <1>3, <1>4, <1>5

\* So do the short operations, turns and the surroundings.
LEMMA ShortTyped ==
  ASSUME TypeOK, NEW t \in Team,
         \/ StartCreate(t) \/ RepeatCreate(t) \/ StopTeam(t) \/ StartTeam(t) \/ PutFile(t)
         \/ TurnStores(t) \/ Contaminate(t) \/ Evict(t)
         \/ \E a \in App : ReplaceSecrets(t, a)
  PROVE  TypeOK'
<1> DEFINE w == world[t]
<1>1. w \in World
  BY DEF TypeOK
<1>2. ASSUME NEW v \in World, world' = [world EXCEPT ![t] = v],
             UNCHANGED <<op, pc, queued, chat, admission>>, faults' \in 0..MaxFaults
      PROVE  TypeOK'
  BY <1>2 DEF TypeOK, admission
<1>3. faults \in 0..MaxFaults
  BY DEF TypeOK
<1>4. ASSUME NEW kinds \in SUBSET {"journal", "file", "inference"}
      PROVE  [w EXCEPT !.data = kinds] \in World
  BY <1>1, FieldsTyped
<1>5. CASE StartCreate(t)
  <2>1. [w EXCEPT !.data = @ \ {"file"}] \in World
    BY <1>1, <1>4, WorldFields
  <2>2. world' \in [Team -> World]
    BY <1>5, <2>1 DEF TypeOK, StartCreate
  <2>3. QED
    BY <1>5, <2>2 DEF TypeOK, StartCreate, Goto, admission
<1>6. CASE RepeatCreate(t)
  <2>1. [w EXCEPT !.data = @ \cup {"inference"}] \in World
    BY <1>1, <1>4, WorldFields
  <2>2. QED
    BY <1>2, <1>3, <1>6, <2>1 DEF RepeatCreate
<1>7. CASE StopTeam(t)
  BY <1>1, <1>2, <1>3, <1>7, StopTyped DEF StopTeam
<1>8. CASE StartTeam(t)
  <2>1. [w EXCEPT !.up = TRUE] \in World
    BY <1>1, FieldsTyped
  <2>2. QED
    BY <1>2, <1>3, <1>8, <2>1 DEF StartTeam
<1>9. CASE PutFile(t)
  <2>1. [w EXCEPT !.data = @ \cup {"file"}] \in World
    BY <1>1, <1>4, WorldFields
  <2>2. QED
    BY <1>2, <1>3, <1>9, <2>1 DEF PutFile
<1>10. CASE TurnStores(t)
  <2>1. [w EXCEPT !.data = @ \cup {"journal"}] \in World
    BY <1>1, <1>4, WorldFields
  <2>2. \A thing \in {"account", "grant"} \X w.apps : [w EXCEPT !.kept = @ \cup {thing}] \in World
    BY <1>1, FieldsTyped, WorldFields DEF AppData
  <2>3. \E v \in World : world' = [world EXCEPT ![t] = v]
    BY <1>10, <2>1, <2>2 DEF TurnStores
  <2>4. QED
    BY <1>2, <1>3, <1>10, <2>3 DEF TurnStores
<1>11. CASE Contaminate(t)
  <2>1. [w EXCEPT !.net = @ \cup {"foreign"}] \in World
    BY <1>1, FieldsTyped, WorldFields
  <2>2. QED
    BY <1>2, <1>11, <2>1, FaultCounted DEF Contaminate
<1>12. CASE Evict(t)
  <2>1. [w EXCEPT !.net = @ \ {"foreign"}] \in World
    BY <1>1, FieldsTyped, WorldFields
  <2>2. QED
    BY <1>2, <1>3, <1>12, <2>1 DEF Evict
<1>13. CASE \E a \in App : ReplaceSecrets(t, a)
  <2>1. PICK a \in App : ReplaceSecrets(t, a)
    BY <1>13
  <2>2. [w EXCEPT !.kept = @ \cup {<<"secret", a>>}] \in World
    BY <1>1, FieldsTyped, WorldFields DEF AppData
  <2>3. QED
    BY <1>2, <1>3, <2>1, <2>2 DEF ReplaceSecrets
<1>14. QED
  BY <1>5, <1>6, <1>7, <1>8, <1>9, <1>10, <1>11, <1>12, <1>13

\* A crash does.
LEMMA CrashTyped ==
  ASSUME TypeOK, Crash
  PROVE  TypeOK'
<1>1. faults' \in 0..MaxFaults
  BY FaultCounted DEF Crash
<1>2. NoOp \in [kind : {"none", "create", "destroy", "install", "uninstall"},
                app : App \cup {NoApp}, brain : Brain \cup {NoBrain}]
  BY DEF NoOp
<1>3. QED
  BY <1>1, <1>2 DEF TypeOK, Crash

-----------------------------------------------------------------------------
\* A step of one Team leaves the others as they are.
Same(u) ==
  /\ world'[u] = world[u] /\ op'[u] = op[u] /\ pc'[u] = pc[u]
  /\ queued'[u] = queued[u] /\ chat'[u] = chat[u]

\* A step that may fail leaves the other Teams as they are.
LEMMA OnlyStep ==
  ASSUME TypeOK, NEW t \in Team, NEW u \in Team \ {t},
         \/ \E w, label, outcomes : StepOr(t, w, label, outcomes)
         \/ \E w, label : Step(t, w, label)
         \/ \E label : Proceed(t, label)
         \/ Refuse(t)
  PROVE  Same(u)
BY DEF TypeOK, StepOr, Step, Goto, Proceed, Refuse, Same, admission

\* A step of one Team leaves every other Team as it is, whatever its kind.
LEMMA OnlyTeam ==
  ASSUME TypeOK, NEW t \in Team, NEW u \in Team \ {t}, TeamStep(t)
  PROVE  Same(u)
<1>1. CASE AdmissionStep(t) \/ InventoryFails(t)
  <2>1. CASE CheckRuntime(t)
    BY <2>1, OnlyStep DEF CheckRuntime
  <2>2. CASE ~CheckRuntime(t)
    BY <1>1, <2>2 DEF TypeOK, AdmissionStep, InventoryFails, ReadReservations, CountTeams, MeasureMemory, Admit,
                      Reserve, Goto, Same, admission
  <2>3. QED
    BY <2>1, <2>2
<1>2. CASE CreateStep(t)
  <2>1. CASE ProvisionTeam(t)
    <3>1. CASE \E w, outcomes : StepOr(t, w, "network", outcomes)
      BY <3>1, OnlyStep
    <3>2. CASE \E w : world' = [world EXCEPT ![t] = w] /\ Goto(t, "check") /\ UNCHANGED <<op, queued, chat>>
      BY <3>2 DEF TypeOK, Goto, Same
    <3>3. QED
      BY <2>1, <3>1, <3>2, Zenon DEF ProvisionTeam
  <2>2. CASE CreateNetwork(t) \/ WireDependencies(t)
    BY <2>2, OnlyStep DEF CreateNetwork, WireDependencies
  <2>3. CASE CreateBrain(t)
    BY <2>3 DEF TypeOK, CreateBrain, Goto, Same
  <2>4. CASE StartBrain(t) \/ SaveInference(t)
    BY <2>4, OnlyStep DEF StartBrain, SaveInference
  <2>5. QED
    BY <1>2, <2>1, <2>2, <2>3, <2>4 DEF CreateStep
<1>3. ASSUME NEW label, BeginRecord(t, label) PROVE Same(u)
  BY <1>3, OnlyStep DEF BeginRecord
<1>4. CASE DestroyStep(t)
  <2>1. CASE TakeChatLock(t)
    BY <2>1 DEF TypeOK, TakeChatLock, Goto, Same
  <2>2. CASE ~TakeChatLock(t)
    BY <1>3, <1>4, <2>2, OnlyStep DEF DestroyStep, AnchorDestroy, FailStop, ChatLockTimesOut, DeleteThread, PurgeJournal
  <2>3. QED
    BY <2>1, <2>2
<1>5. CASE TeardownStep(t)
  <2>1. CASE CheckBrain(t) \/ BeginTeardown(t) \/ StopTeardownBrain(t) \/ TeardownApps(t) \/ TeardownStorage(t)
    BY <1>3, <2>1, OnlyStep DEF CheckBrain, BeginTeardown, StopTeardownBrain, TeardownApps, TeardownStorage
  <2>2. CASE TeardownInference(t) \/ TeardownSecrets(t) \/ TeardownAccounts(t) \/ TeardownGrants(t) \/ RemoveBrain(t)
    BY <2>2, OnlyStep DEF TeardownInference, TeardownSecrets, TeardownAccounts, TeardownGrants, RemoveBrain
  <2>3. CASE TeardownNetwork(t)
    <3>1. CASE \E w, outcomes : StepOr(t, w, "brain", outcomes)
      BY <3>1, OnlyStep
    <3>2. CASE \E w : world' = [world EXCEPT ![t] = w] /\ Goto(t, "finish") /\ UNCHANGED <<op, queued, chat>>
      BY <3>2 DEF TypeOK, Goto, Same
    <3>3. QED
      BY <2>3, <3>1, <3>2, Zenon DEF TeardownNetwork
  <2>4. CASE DropDatabases(t) \/ MarkDropped(t) \/ FinalizeDrop(t) \/ FinishRecord(t)
    BY <2>4, OnlyStep DEF DropDatabases, MarkDropped, FinalizeDrop, FinishRecord
  <2>5. QED
    BY <1>5, <2>1, <2>2, <2>3, <2>4 DEF TeardownStep
<1>6. CASE InstallStep(t)
  <2>1. CASE RevokeGrants(t) \/ CreateAppDatabase(t) \/ ReserveEgress(t) \/ CreateAppContainer(t)
    BY <2>1, OnlyStep DEF RevokeGrants, CreateAppDatabase, ReserveEgress, CreateAppContainer
  <2>2. CASE AdmitContract(t) \/ ActivateEgress(t) \/ StartApp(t) \/ CommitInstall(t)
    BY <2>2, OnlyStep DEF AdmitContract, ActivateEgress, StartApp, CommitInstall
  <2>3. QED
    BY <1>6, <2>1, <2>2 DEF InstallStep
<1>7. CASE RemovalStep(t)
  BY <1>7, OnlyStep DEF RemovalStep, RemovePolicy, RemoveApp, DropAppDatabase, DeleteSecrets, DeleteAccounts, DeleteGrants
<1>8. CASE TakesLock(t)
  <2>1. UNCHANGED <<world, admission, faults>> /\ Serve(t)
    BY <1>8 DEF TakesLock, DestroyTakesLock, InstallTakesLock, UninstallTakesLock
  <2>2. (\E label \in Labels : Admitted(t, label)) \/ Refused(t)
    BY <1>8, Zenon DEF TakesLock, DestroyTakesLock, InstallTakesLock, UninstallTakesLock
  <2>3. QED
    BY <2>1, <2>2 DEF TypeOK, Serve, Admitted, Refused, Goto, Same
<1>9. CASE AuthorizeDestroy(t) \/ Finish(t) \/ BeginTurn(t) \/ EndTurn(t) \/ \E a \in App : AuthorizeApp(t, a)
  BY <1>9 DEF TypeOK, AuthorizeDestroy, AuthorizeApp, Finish, BeginTurn, EndTurn, Goto, Same
<1>10. CASE \/ StartCreate(t) \/ RepeatCreate(t) \/ StopTeam(t) \/ StartTeam(t) \/ PutFile(t)
            \/ TurnStores(t) \/ Contaminate(t) \/ Evict(t)
            \/ \E a \in App : ReplaceSecrets(t, a)
  BY <1>10 DEF TypeOK, StartCreate, RepeatCreate, StopTeam, StartTeam, PutFile, TurnStores, Contaminate, Evict,
               ReplaceSecrets, Goto, Same
<1>11. QED
  BY <1>1, <1>2, <1>4, <1>5, <1>6, <1>7, <1>8, <1>9, <1>10 DEF TeamStep, OperationStep

\* A step that may fail, refuse or only decide, and goes on to a label.
Tries(t, label) ==
  \/ \E w, outcomes : StepOr(t, w, label, outcomes)
  \/ \E w : Step(t, w, label)
  \/ Proceed(t, label)
  \/ Refuse(t)

\* It goes on or to what follows a failure, and does no more.
LEMMA StepMoves ==
  ASSUME TypeOK, NEW t \in Team, NEW label, Tries(t, label)
  PROVE  /\ pc'[t] \in {label, OnError(t)}
         /\ op'[t] = op[t] /\ queued'[t] = queued[t] /\ chat'[t] = chat[t]
         /\ reserved' = reserved /\ reading' = reading /\ fresh' = fresh
BY DEF TypeOK, Tries, StepOr, Step, Goto, Proceed, Refuse, admission

\* Where an operation goes from each label.
Follows(t) ==
  \/ pc[t] = "admit" /\ pc'[t] = IF op[t].kind = "create" THEN "count" ELSE "measure"
  \/ pc[t] = "count" /\ pc'[t] \in {"measure", "finish"}
  \/ pc[t] = "measure" /\ pc'[t] \in {"commit", "finish"}
  \/ pc[t] = "commit" /\ pc'[t] \in {"admit", "runtime", "finish"}
  \/ pc[t] = "runtime" /\ pc'[t] \in {IF op[t].kind = "create" THEN "provision" ELSE "appDatabase", "finish"}
  \/ pc[t] = "provision" /\ pc'[t] \in {"network", "check"}
  \/ pc[t] = "network" /\ pc'[t] \in {"wire", "check"}
  \/ pc[t] = "wire" /\ pc'[t] \in {"container", "check"}
  \/ pc[t] = "container" /\ pc'[t] \in {"start", "check"}
  \/ pc[t] = "start" /\ pc'[t] \in {"inference", "check"}
  \/ pc[t] = "inference" /\ pc'[t] \in {"finish", "check"}
  \/ pc[t] = "anchor" /\ pc'[t] \in {"failStop", "finish"}
  \/ pc[t] = "failStop" /\ pc'[t] \in {"chatLock", "finish"}
  \/ pc[t] = "chatLock" /\ pc'[t] \in {"thread", "finish"}
  \/ pc[t] = "thread" /\ pc'[t] \in {"purge", "finish"}
  \/ pc[t] = "purge" /\ pc'[t] \in {"check", "finish"}
  \/ pc[t] = "check" /\ pc'[t] \in {"begin", "finish"}
  \/ pc[t] = "begin" /\ pc'[t] \in {"stop", "finish"}
  \/ pc[t] = "stop" /\ pc'[t] \in {"apps", "finish"}
  \/ pc[t] = "apps" /\ pc'[t] \in {"storage", "finish"}
  \/ pc[t] = "storage" /\ pc'[t] \in {"forgetInference", "finish"}
  \/ pc[t] = "forgetInference" /\ pc'[t] \in {"secrets", "finish"}
  \/ pc[t] = "secrets" /\ pc'[t] \in {"accounts", "finish"}
  \/ pc[t] = "accounts" /\ pc'[t] \in {"grants", "finish"}
  \/ pc[t] = "grants" /\ pc'[t] \in {"networks", "finish"}
  \/ pc[t] = "networks" /\ pc'[t] \in {"brain", "finish"}
  \/ pc[t] = "brain" /\ pc'[t] \in {"drop", "finish"}
  \/ pc[t] = "drop" /\ pc'[t] \in {"mark", "finalize", "finish"}
  \/ pc[t] = "mark" /\ pc'[t] \in {"finalize", "finish"}
  \/ pc[t] = "finalize" /\ pc'[t] \in {"finishRecord", "finish"}
  \/ pc[t] = "finishRecord" /\ pc'[t] \in {"finish"}
  \/ pc[t] = "revoke" /\ pc'[t] \in {"admit", "finish"}
  \/ pc[t] = "appDatabase" /\ pc'[t] \in {"appToken", "policy"}
  \/ pc[t] = "appToken" /\ pc'[t] \in {"appContainer", "policy"}
  \/ pc[t] = "appContainer" /\ pc'[t] \in {"appAdmit", "policy"}
  \/ pc[t] = "appAdmit" /\ pc'[t] \in {"appEgress", "policy"}
  \/ pc[t] = "appEgress" /\ pc'[t] \in {"appStart", "policy"}
  \/ pc[t] = "appStart" /\ pc'[t] \in {"appReady", "policy"}
  \/ pc[t] = "appReady" /\ pc'[t] \in {"finish", "policy"}
  \/ pc[t] = "policy" /\ pc'[t] \in {"app", "finish"}
  \/ pc[t] = "app" /\ pc'[t] \in {"appDrop", "finish"}
  \/ pc[t] = "appDrop" /\ pc'[t] \in {IF op[t].kind = "install" THEN "finish" ELSE "appSecrets", "finish"}
  \/ pc[t] = "appSecrets" /\ pc'[t] \in {"appAccounts", "finish"}
  \/ pc[t] = "appAccounts" /\ pc'[t] \in {"appGrants", "finish"}
  \/ pc[t] = "appGrants" /\ pc'[t] \in {"finish"}

\* The steps of an operation but its answer.
Working(t) ==
  AdmissionStep(t) \/ InventoryFails(t) \/ CreateStep(t) \/ DestroyStep(t) \/ TeardownStep(t) \/ InstallStep(t)
  \/ RemovalStep(t)

\* An operation goes on as the table says, whoever else acts.
LEMMA WorkingFollows ==
  ASSUME TypeOK, NEW t \in Team, Working(t)
  PROVE  /\ Follows(t)
         /\ queued'[t] = queued[t]
         /\ op'[t].kind = op[t].kind /\ op'[t].app = op[t].app
         /\ pc[t] # "container" => op'[t] = op[t]
         /\ pc[t] # "chatLock" => chat'[t] = chat[t]
         /\ pc[t] # "commit" => reserved' = reserved
         /\ pc[t] \notin AdmissionLabels => reading' = reading /\ fresh' = fresh
<1>1. CASE AdmissionStep(t) \/ InventoryFails(t)
  <2>1. CASE CheckRuntime(t)
    <3>1. pc[t] = "runtime" /\ Tries(t, IF op[t].kind = "create" THEN "provision" ELSE "appDatabase")
      BY <2>1, Zenon DEF Tries, CheckRuntime
    <3>2. QED
      BY <3>1, StepMoves DEF Follows, OnError
  <2>2. CASE ReadReservations(t) \/ CountTeams(t)
    BY <2>2 DEF TypeOK, ReadReservations, CountTeams, Goto, Follows, admission
  <2>3. CASE MeasureMemory(t) \/ InventoryFails(t)
    BY <2>3 DEF TypeOK, MeasureMemory, InventoryFails, Goto, Follows, admission
  <2>4. CASE Admit(t)
    BY <2>4 DEF TypeOK, Admit, Reserve, Goto, Follows, admission
  <2>5. QED
    BY <1>1, <2>1, <2>2, <2>3, <2>4 DEF AdmissionStep
<1>2. CASE CreateStep(t)
  <2>1. CASE ProvisionTeam(t)
    <3>1. \/ pc[t] = "provision" /\ Tries(t, "network")
          \/ pc[t] = "provision" /\ Goto(t, "check") /\ UNCHANGED <<op, queued, chat, admission>>
      BY <2>1, Zenon DEF Tries, ProvisionTeam
    <3>2. CASE pc[t] = "provision" /\ Tries(t, "network")
      BY <3>2, StepMoves DEF Follows, OnError
    <3>3. CASE pc[t] = "provision" /\ Goto(t, "check") /\ UNCHANGED <<op, queued, chat, admission>>
      BY <3>3 DEF TypeOK, Goto, Follows, admission
    <3>4. QED
      BY <3>1, <3>2, <3>3
  <2>2. CASE CreateNetwork(t) \/ WireDependencies(t)
    <3>1. \/ pc[t] = "network" /\ Tries(t, "wire")
          \/ pc[t] = "wire" /\ Tries(t, "container")
      BY <2>2, Zenon DEF Tries, CreateNetwork, WireDependencies
    <3>2. QED
      BY <3>1, StepMoves DEF Follows, OnError
  <2>3. CASE CreateBrain(t)
    BY <2>3 DEF TypeOK, CreateBrain, Goto, Follows, admission
  <2>4. CASE StartBrain(t) \/ SaveInference(t)
    <3>1. \/ pc[t] = "start" /\ Tries(t, "inference")
          \/ pc[t] = "inference" /\ Tries(t, "finish")
      BY <2>4, Zenon DEF Tries, StartBrain, SaveInference
    <3>2. QED
      BY <3>1, StepMoves DEF Follows, OnError
  <2>5. QED
    BY <1>2, <2>1, <2>2, <2>3, <2>4 DEF CreateStep
<1>3. ASSUME NEW label, BeginRecord(t, label) PROVE Tries(t, label)
  BY <1>3, Zenon DEF BeginRecord, Tries
<1>4. CASE DestroyStep(t)
  <2>1. CASE TakeChatLock(t)
    BY <2>1 DEF TypeOK, TakeChatLock, Goto, Follows, admission
  <2>2. CASE AnchorDestroy(t)
    <3>1. pc[t] = "anchor" /\ Tries(t, "failStop")
      BY <2>2, <1>3, Zenon DEF Tries, AnchorDestroy
    <3>2. QED
      BY <3>1, StepMoves DEF Follows, OnError
  <2>3. CASE FailStop(t) \/ ChatLockTimesOut(t) \/ DeleteThread(t) \/ PurgeJournal(t)
    <3>1. \/ pc[t] = "failStop" /\ Tries(t, "chatLock")
          \/ pc[t] = "chatLock" /\ Tries(t, "finish")
          \/ pc[t] = "thread" /\ Tries(t, "purge")
          \/ pc[t] = "purge" /\ Tries(t, "check")
      BY <2>3, Zenon DEF Tries, FailStop, ChatLockTimesOut, DeleteThread, PurgeJournal
    <3>2. QED
      BY <3>1, StepMoves DEF Follows, OnError
  <2>4. QED
    BY <1>4, <2>1, <2>2, <2>3 DEF DestroyStep
<1>5. CASE TeardownStep(t)
  <2>1. CASE BeginTeardown(t)
    <3>1. pc[t] = "begin" /\ Tries(t, "stop")
      BY <2>1, <1>3, Zenon DEF Tries, BeginTeardown
    <3>2. QED
      BY <3>1, StepMoves DEF Follows, OnError
  <2>2. CASE CheckBrain(t) \/ StopTeardownBrain(t) \/ TeardownApps(t) \/ TeardownStorage(t)
    <3>1. \/ pc[t] = "check" /\ Tries(t, "begin")
          \/ pc[t] = "stop" /\ Tries(t, "apps")
          \/ pc[t] = "apps" /\ Tries(t, "storage")
          \/ pc[t] = "storage" /\ Tries(t, "forgetInference")
      BY <2>2, Zenon DEF Tries, CheckBrain, StopTeardownBrain, TeardownApps, TeardownStorage
    <3>2. QED
      BY <3>1, StepMoves DEF Follows, OnError
  <2>3. CASE TeardownInference(t) \/ TeardownSecrets(t) \/ TeardownAccounts(t) \/ TeardownGrants(t) \/ RemoveBrain(t)
    <3>1. \/ pc[t] = "forgetInference" /\ Tries(t, "secrets")
          \/ pc[t] = "secrets" /\ Tries(t, "accounts")
          \/ pc[t] = "accounts" /\ Tries(t, "grants")
          \/ pc[t] = "grants" /\ Tries(t, "networks")
          \/ pc[t] = "brain" /\ Tries(t, "drop")
      BY <2>3, Zenon DEF Tries, TeardownInference, TeardownSecrets, TeardownAccounts, TeardownGrants, RemoveBrain
    <3>2. QED
      BY <3>1, StepMoves DEF Follows, OnError
  <2>4. CASE TeardownNetwork(t)
    <3>1. \/ pc[t] = "networks" /\ Tries(t, "brain")
          \/ pc[t] = "networks" /\ Goto(t, "finish") /\ UNCHANGED <<op, queued, chat, admission>>
      BY <2>4, Zenon DEF Tries, TeardownNetwork
    <3>2. CASE pc[t] = "networks" /\ Tries(t, "brain")
      BY <3>2, StepMoves DEF Follows, OnError
    <3>3. CASE pc[t] = "networks" /\ Goto(t, "finish") /\ UNCHANGED <<op, queued, chat, admission>>
      BY <3>3 DEF TypeOK, Goto, Follows, admission
    <3>4. QED
      BY <3>1, <3>2, <3>3
  <2>5. CASE DropDatabases(t)
    <3>1. \/ pc[t] = "drop" /\ Tries(t, "mark")
          \/ pc[t] = "drop" /\ Tries(t, "finalize")
      BY <2>5, Zenon DEF Tries, DropDatabases
    <3>2. QED
      BY <3>1, StepMoves DEF Follows, OnError
  <2>6. CASE MarkDropped(t) \/ FinalizeDrop(t) \/ FinishRecord(t)
    <3>1. \/ pc[t] = "mark" /\ Tries(t, "finalize")
          \/ pc[t] = "finalize" /\ Tries(t, "finishRecord")
          \/ pc[t] = "finishRecord" /\ Tries(t, "finish")
      BY <2>6, Zenon DEF Tries, MarkDropped, FinalizeDrop, FinishRecord
    <3>2. QED
      BY <3>1, StepMoves DEF Follows, OnError
  <2>7. QED
    BY <1>5, <2>1, <2>2, <2>3, <2>4, <2>5, <2>6 DEF TeardownStep
<1>6. CASE InstallStep(t)
  <2>1. CASE RevokeGrants(t) \/ CreateAppDatabase(t) \/ ReserveEgress(t) \/ CreateAppContainer(t)
    <3>1. \/ pc[t] = "revoke" /\ Tries(t, "admit")
          \/ pc[t] = "revoke" /\ Tries(t, "finish")
          \/ pc[t] = "appDatabase" /\ Tries(t, "appToken")
          \/ pc[t] = "appToken" /\ Tries(t, "appContainer")
          \/ pc[t] = "appContainer" /\ Tries(t, "appAdmit")
      BY <2>1, Zenon DEF Tries, RevokeGrants, CreateAppDatabase, ReserveEgress, CreateAppContainer
    <3>2. QED
      BY <3>1, StepMoves DEF Follows, OnError
  <2>2. CASE AdmitContract(t) \/ ActivateEgress(t) \/ StartApp(t) \/ CommitInstall(t)
    <3>1. \/ pc[t] = "appAdmit" /\ Tries(t, "appEgress")
          \/ pc[t] = "appEgress" /\ Tries(t, "appStart")
          \/ pc[t] = "appStart" /\ Tries(t, "appReady")
          \/ pc[t] = "appReady" /\ Tries(t, "finish")
      BY <2>2, Zenon DEF Tries, AdmitContract, ActivateEgress, StartApp, CommitInstall
    <3>2. QED
      BY <3>1, StepMoves DEF Follows, OnError
  <2>3. QED
    BY <1>6, <2>1, <2>2 DEF InstallStep
<1>7. CASE RemovalStep(t)
  <2>1. CASE RemovePolicy(t) \/ RemoveApp(t) \/ DropAppDatabase(t)
    <3>1. \/ pc[t] = "policy" /\ Tries(t, "app")
          \/ pc[t] = "app" /\ Tries(t, "appDrop")
          \/ pc[t] = "appDrop" /\ Tries(t, IF op[t].kind = "install" THEN "finish" ELSE "appSecrets")
      BY <2>1, Zenon DEF Tries, RemovePolicy, RemoveApp, DropAppDatabase
    <3>2. QED
      BY <3>1, StepMoves DEF Follows, OnError
  <2>2. CASE DeleteSecrets(t) \/ DeleteAccounts(t) \/ DeleteGrants(t)
    <3>1. \/ pc[t] = "appSecrets" /\ Tries(t, "appAccounts")
          \/ pc[t] = "appAccounts" /\ Tries(t, "appGrants")
          \/ pc[t] = "appGrants" /\ Tries(t, "finish")
      BY <2>2, Zenon DEF Tries, DeleteSecrets, DeleteAccounts, DeleteGrants
    <3>2. QED
      BY <3>1, StepMoves DEF Follows, OnError
  <2>3. QED
    BY <1>7, <2>1, <2>2 DEF RemovalStep
<1>8. QED
  BY <1>1, <1>2, <1>4, <1>5, <1>6, <1>7 DEF Working

\* The chat lock is taken when it is free, or the operation answers without it.
LEMMA ChatLockMoves ==
  ASSUME TypeOK, NEW t \in Team, Working(t), pc[t] = "chatLock"
  PROVE  /\ op'[t] = op[t] /\ world' = world
         /\ \/ pc'[t] = "thread" /\ chat[t] = "free" /\ chat'[t] = "op"
            \/ pc'[t] = "finish" /\ chat'[t] = chat[t]
<1>1. TakeChatLock(t) \/ ChatLockTimesOut(t)
  <2>1. ~AdmissionStep(t) /\ ~InventoryFails(t) /\ ~CreateStep(t)
    BY DEF AdmissionStep, InventoryFails, CreateStep, ReadReservations, CountTeams, MeasureMemory, Admit, CheckRuntime,
           ProvisionTeam, CreateNetwork, WireDependencies, CreateBrain, StartBrain, SaveInference
  <2>2. ~TeardownStep(t)
    BY DEF TeardownStep, CheckBrain, BeginTeardown, StopTeardownBrain, TeardownApps, TeardownStorage, TeardownInference,
           TeardownSecrets, TeardownAccounts, TeardownGrants, TeardownNetwork, RemoveBrain, DropDatabases, MarkDropped,
           FinalizeDrop, FinishRecord
  <2>3. ~InstallStep(t) /\ ~RemovalStep(t)
    BY DEF InstallStep, RemovalStep, RevokeGrants, CreateAppDatabase, ReserveEgress, CreateAppContainer, AdmitContract,
           ActivateEgress, StartApp, CommitInstall, RemovePolicy, RemoveApp, DropAppDatabase, DeleteSecrets,
           DeleteAccounts, DeleteGrants
  <2>4. QED
    BY <2>1, <2>2, <2>3 DEF Working, DestroyStep, AnchorDestroy, FailStop, DeleteThread, PurgeJournal
<1>2. QED
  BY <1>1 DEF TypeOK, TakeChatLock, ChatLockTimesOut, Proceed, Goto

\* What says that there is no record, request or reading is none.
LEMMA NoneAreNone ==
  NoRecord \notin CleanupRecord /\ NoRequest \notin QueuedRequest /\ NoReading \notin Reading
BY HostedAssumption

\* An authorized destroy waits for the lock of the Team.
LEMMA AuthorizedDestroy ==
  ASSUME TypeOK, NEW t \in Team, AuthorizeDestroy(t)
  PROVE  /\ queued[t] = NoRequest /\ queued'[t] # NoRequest /\ queued'[t].kind = "destroy"
         /\ chat' = chat /\ world' = world
<1>1. \E lease \in [brain : Brain \cup {NoBrain}, cleanup : BOOLEAN] :
        queued' = [queued EXCEPT ![t] = Request("destroy", NoApp, lease)]
  <2>1. world[t].brain \in Brain \cup {NoBrain} /\ world[t].record \in {NoRecord} \cup CleanupRecord
    BY DEF TypeOK, World
  <2>2. Lease(world[t].brain, FALSE) \in [brain : Brain \cup {NoBrain}, cleanup : BOOLEAN]
    BY <2>1 DEF Lease
  <2>3. world[t].record # NoRecord
          => Lease(world[t].record.brain, TRUE) \in [brain : Brain \cup {NoBrain}, cleanup : BOOLEAN]
    BY <2>1 DEF Lease, CleanupRecord
  <2>4. QED
    BY <2>2, <2>3 DEF AuthorizeDestroy
<1>2. PICK lease \in [brain : Brain \cup {NoBrain}, cleanup : BOOLEAN] :
        queued' = [queued EXCEPT ![t] = Request("destroy", NoApp, lease)]
  BY <1>1
<1>3. Request("destroy", NoApp, lease) \in QueuedRequest
  BY DEF Request, QueuedRequest
<1>4. queued'[t] = Request("destroy", NoApp, lease)
  BY <1>2 DEF TypeOK
<1>5. QED
  <2>1. queued[t] = NoRequest /\ chat' = chat /\ world' = world
    BY DEF AuthorizeDestroy
  <2>2. queued'[t] # NoRequest
    BY <1>3, <1>4, NoneAreNone
  <2>3. queued'[t].kind = "destroy"
    BY <1>4 DEF Request
  <2>4. QED
    BY <2>1, <2>2, <2>3

\* An authorized request for an App waits with the chat lock.
LEMMA AuthorizedApp ==
  ASSUME TypeOK, NEW t \in Team, NEW a \in App, AuthorizeApp(t, a)
  PROVE  /\ queued[t] = NoRequest /\ queued'[t] # NoRequest
         /\ queued'[t].kind \in {"install", "uninstall"} /\ queued'[t].app = a
         /\ chat[t] = "free" /\ chat'[t] = "queued" /\ world' = world
<1>1. PICK k \in {"install", "uninstall"} :
        queued' = [queued EXCEPT ![t] = Request(k, a, Lease(world[t].brain, FALSE))]
  BY DEF AuthorizeApp
<1>2. Request(k, a, Lease(world[t].brain, FALSE)) \in QueuedRequest
  BY DEF TypeOK, World, Request, Lease, QueuedRequest
<1>3. queued'[t] = Request(k, a, Lease(world[t].brain, FALSE))
  BY <1>1 DEF TypeOK
<1>4. chat[t] = "free" /\ chat'[t] = "queued" /\ world' = world /\ queued[t] = NoRequest
  BY DEF TypeOK, AuthorizeApp
<1>5. QED
  <2>1. queued'[t] # NoRequest
    BY <1>2, <1>3, NoneAreNone
  <2>2. queued'[t].kind \in {"install", "uninstall"} /\ queued'[t].app = a
    BY <1>3 DEF Request
  <2>3. QED
    BY <1>4, <2>1, <2>2

\* Finish is the answer of an operation.
LEMMA FinishMoves ==
  ASSUME TypeOK, NEW t \in Team, Finish(t)
  PROVE  /\ pc[t] = "finish" /\ pc'[t] = "idle" /\ op'[t] = NoOp
         /\ queued'[t] = queued[t] /\ world' = world /\ reading' = reading
         /\ chat'[t] = IF chat[t] = "op" THEN "free" ELSE chat[t]
BY DEF TypeOK, Finish, Goto

\* Where a request begins when it gets the lock, and on what lease.
BeginsAt(t, label) ==
  \/ /\ queued[t].kind = "destroy" /\ label = "chatLock"
     /\ CleanupLease(world[t], queued[t].lease)
  \/ /\ queued[t].kind = "destroy" /\ label = "anchor"
     /\ CurrentLease(world[t], queued[t].lease)
  \/ /\ queued[t].kind = "install" /\ label \in {"finish", "revoke"}
     /\ CurrentLease(world[t], queued[t].lease) /\ world[t].record = NoRecord
  \/ /\ queued[t].kind = "uninstall" /\ label = "policy"
     /\ CurrentLease(world[t], queued[t].lease) /\ world[t].record = NoRecord

\* A request that gets the lock becomes the operation, at one of its first labels.
LEMMA AdmittedMoves ==
  ASSUME TypeOK, NEW t \in Team, TakesLock(t)
  PROVE  /\ pc[t] = "idle" /\ queued[t] \in QueuedRequest /\ queued'[t] = NoRequest
         /\ world' = world /\ reading' = reading /\ reserved' = reserved /\ fresh' = fresh
         /\ \/ /\ pc'[t] = "idle" /\ op'[t] = op[t]
               /\ chat'[t] = IF chat[t] = "queued" THEN "free" ELSE chat[t]
            \/ /\ op'[t] = [kind |-> queued[t].kind, app |-> queued[t].app, brain |-> queued[t].lease.brain]
               /\ chat'[t] = IF chat[t] = "queued" THEN "op" ELSE chat[t]
               /\ BeginsAt(t, pc'[t])
<1>1. Serve(t) /\ UNCHANGED <<world, admission, faults>>
  BY DEF TakesLock, DestroyTakesLock, InstallTakesLock, UninstallTakesLock
<1>2. queued[t] \in QueuedRequest
  BY <1>1 DEF TypeOK, Serve
<1>3. CASE Refused(t)
  BY <1>1, <1>2, <1>3 DEF TypeOK, Serve, Refused, admission
<1>4. ASSUME NEW label, Admitted(t, label)
      PROVE  /\ op'[t] = [kind |-> queued[t].kind, app |-> queued[t].app, brain |-> queued[t].lease.brain]
             /\ chat'[t] = IF chat[t] = "queued" THEN "op" ELSE chat[t]
             /\ pc'[t] = label
  BY <1>4 DEF TypeOK, Admitted, Goto
<1>5. CASE DestroyTakesLock(t)
  <2>1. \/ Refused(t)
        \/ Admitted(t, "chatLock") /\ CleanupLease(world[t], queued[t].lease)
        \/ Admitted(t, "anchor") /\ CurrentLease(world[t], queued[t].lease)
    BY <1>5 DEF DestroyTakesLock
  <2>2. queued[t].kind = "destroy"
    BY <1>5 DEF DestroyTakesLock
  <2>3. QED
    BY <1>1, <1>2, <1>3, <1>4, <2>1, <2>2 DEF TypeOK, Serve, admission, BeginsAt
<1>6. CASE InstallTakesLock(t)
  <2>1. \/ Refused(t)
        \/ /\ \E label \in {"finish", "revoke"} : Admitted(t, label)
           /\ CurrentLease(world[t], queued[t].lease) /\ world[t].record = NoRecord
    BY <1>6 DEF InstallTakesLock
  <2>2. queued[t].kind = "install"
    BY <1>6 DEF InstallTakesLock
  <2>3. QED
    BY <1>1, <1>2, <1>3, <1>4, <2>1, <2>2 DEF TypeOK, Serve, admission, BeginsAt
<1>7. CASE UninstallTakesLock(t)
  <2>1. \/ Refused(t)
        \/ /\ Admitted(t, "policy")
           /\ CurrentLease(world[t], queued[t].lease) /\ world[t].record = NoRecord
    BY <1>7 DEF UninstallTakesLock
  <2>2. queued[t].kind = "uninstall"
    BY <1>7 DEF UninstallTakesLock
  <2>3. QED
    BY <1>1, <1>2, <1>3, <1>4, <2>1, <2>2 DEF TypeOK, Serve, admission, BeginsAt
<1>8. QED
  BY <1>5, <1>6, <1>7 DEF TakesLock

\* What a Team does without having or taking its lock, or at once.
Brief(t) ==
  \/ AuthorizeDestroy(t) \/ StartCreate(t) \/ RepeatCreate(t) \/ StopTeam(t) \/ StartTeam(t) \/ PutFile(t)
  \/ BeginTurn(t) \/ TurnStores(t) \/ EndTurn(t) \/ Contaminate(t) \/ Evict(t)
  \/ \E a \in App : AuthorizeApp(t, a) \/ ReplaceSecrets(t, a)

\* Of these only a create begins an operation.
LEMMA BriefMoves ==
  ASSUME TypeOK, NEW t \in Team, Brief(t)
  PROVE  /\ UNCHANGED admission
         /\ ~StartCreate(t) => pc' = pc /\ op' = op
         /\ StartCreate(t) => /\ pc[t] = "idle" /\ pc'[t] = "admit" /\ chat' = chat /\ queued' = queued
                              /\ op'[t] = [kind |-> "create", app |-> NoApp, brain |-> NoBrain]
BY DEF TypeOK, Brief, AuthorizeDestroy, StartCreate, RepeatCreate, StopTeam, StartTeam, PutFile, BeginTurn,
       TurnStores, EndTurn, Contaminate, Evict, AuthorizeApp, ReplaceSecrets, Goto

\* The kinds of a Team's steps.
LEMMA StepKinds ==
  ASSUME NEW t \in Team, TeamStep(t)
  PROVE  Working(t) \/ Finish(t) \/ TakesLock(t) \/ Brief(t)
BY DEF TeamStep, OperationStep, Working, Brief

\* Every step of a Team keeps what is said of its requests and operations.
LEMMA RequestStep ==
  ASSUME TypeOK, NEW t \in Team, RequestInv(t), TeamStep(t)
  PROVE  RequestInv(t)'
<1>1. op[t].kind \in {"none", "create", "destroy", "install", "uninstall"}
  BY DEF TypeOK
<1>2. CASE Working(t)
  <2>1. pc'[t] \in LabelsOf(op[t].kind)
    <3>1. Follows(t) /\ pc[t] \in LabelsOf(op[t].kind)
      BY <1>2, WorkingFollows DEF RequestInv
    <3>2. CASE op[t].kind = "create"
      BY <3>1, <3>2 DEF LabelsOf, Creating, Follows
    <3>3. CASE op[t].kind = "destroy"
      BY <3>1, <3>3 DEF LabelsOf, Follows
    <3>4. CASE op[t].kind = "install"
      BY <3>1, <3>4 DEF LabelsOf, Follows
    <3>5. CASE op[t].kind = "uninstall"
      BY <3>1, <3>5 DEF LabelsOf, Follows
    <3>6. CASE op[t].kind = "none"
      <4>1. pc[t] = "idle"
        BY <3>1, <3>6 DEF LabelsOf
      <4>2. QED
        BY <3>1, <4>1 DEF Follows
    <3>7. QED
      BY <1>1, <3>2, <3>3, <3>4, <3>5, <3>6
  <2>2. QED
    BY <1>2, <2>1, WorkingFollows, ChatLockMoves DEF RequestInv, OfApp
<1>3. CASE Finish(t)
  BY <1>3, FinishMoves DEF RequestInv, LabelsOf, NoOp, OfApp
<1>4. CASE TakesLock(t)
  <2>1. queued[t].kind \in {"destroy", "install", "uninstall"}
    BY <1>4, AdmittedMoves DEF QueuedRequest
  <2>2. QED
    <3>1. queued'[t] = NoRequest /\ chat'[t] # "queued"
      BY <1>4, AdmittedMoves
    <3>2. CASE pc'[t] = "idle" /\ op'[t] = op[t]
      BY <1>4, <3>1, <3>2, AdmittedMoves DEF RequestInv
    <3>3. CASE ~(pc'[t] = "idle" /\ op'[t] = op[t])
      <4>1. op'[t].kind = queued[t].kind /\ op'[t].app = queued[t].app
        <5>1. op'[t] = [kind |-> queued[t].kind, app |-> queued[t].app, brain |-> queued[t].lease.brain]
          BY <1>4, <3>3, AdmittedMoves
        <5>2. QED
          BY <5>1
      <4>7. \/ queued[t].kind = "destroy" /\ pc'[t] \in {"chatLock", "anchor"}
            \/ queued[t].kind = "install" /\ pc'[t] \in {"finish", "revoke"}
            \/ queued[t].kind = "uninstall" /\ pc'[t] = "policy"
        <5>1. BeginsAt(t, pc'[t])
          BY <1>4, <3>3, AdmittedMoves
        <5>2. QED
          BY <5>1 DEF BeginsAt
      <4>2. OfApp(op'[t].kind) => op'[t].app \in App
        BY <1>4, <4>1, AdmittedMoves, NoneAreNone DEF RequestInv
      <4>3. CASE queued[t].kind = "destroy"
        <5>1. pc'[t] \in {"chatLock", "anchor"}
          BY <4>3, <4>7
        <5>2. QED
          BY <3>1, <4>1, <4>2, <4>3, <5>1 DEF RequestInv, LabelsOf
      <4>4. CASE queued[t].kind = "install"
        <5>1. pc'[t] \in {"finish", "revoke"}
          BY <4>4, <4>7
        <5>2. QED
          BY <3>1, <4>1, <4>2, <4>4, <5>1 DEF RequestInv, LabelsOf
      <4>5. CASE queued[t].kind = "uninstall"
        <5>1. pc'[t] = "policy"
          BY <4>5, <4>7
        <5>2. QED
          BY <3>1, <4>1, <4>2, <4>5, <5>1 DEF RequestInv, LabelsOf
      <4>6. QED
        BY <2>1, <4>3, <4>4, <4>5
    <3>4. QED
      BY <3>2, <3>3
<1>5. CASE Brief(t)
  <2>1. CASE StartCreate(t)
    BY <1>5, <2>1, BriefMoves DEF RequestInv, LabelsOf, Creating, OfApp
  <2>2. CASE ~StartCreate(t)
    <3>1. pc' = pc /\ op' = op
      BY <1>5, <2>2, BriefMoves
    <3>2. CASE UNCHANGED <<queued, chat>>
      BY <3>1, <3>2 DEF RequestInv
    <3>3. CASE AuthorizeDestroy(t)
      BY <3>1, <3>3, AuthorizedDestroy DEF RequestInv, OfApp
    <3>6. CASE \E a \in App : AuthorizeApp(t, a)
      BY <3>1, <3>6, AuthorizedApp DEF RequestInv, OfApp
    <3>4. CASE BeginTurn(t) \/ EndTurn(t)
      BY <3>1, <3>4 DEF TypeOK, RequestInv, BeginTurn, EndTurn
    <3>5. QED
      BY <1>5, <2>2, <3>2, <3>3, <3>4, <3>6
         DEF Brief, RepeatCreate, StopTeam, StartTeam, PutFile, TurnStores, Contaminate, Evict, ReplaceSecrets
  <2>3. QED
    BY <2>1, <2>2
<1>6. QED
  BY <1>2, <1>3, <1>4, <1>5, StepKinds

-----------------------------------------------------------------------------
(* What the steps of an operation do to the Team.                          *)

\* A step that may fail leaves what it brings about or one of its failures.
LEMMA StepEffect ==
  ASSUME TypeOK, NEW t \in Team, NEW w, NEW label, NEW outcomes, StepOr(t, w, label, outcomes)
  PROVE  \/ world'[t] = w /\ pc'[t] = label
         \/ world'[t] \in outcomes /\ pc'[t] = OnError(t)
BY DEF TypeOK, StepOr, Goto

\* The same of a step that fails before its effect or after it.
LEMMA PlainStepEffect ==
  ASSUME TypeOK, NEW t \in Team, NEW w, NEW label, Step(t, w, label)
  PROVE  \/ world'[t] = w /\ pc'[t] = label
         \/ world'[t] \in {world[t], w} /\ pc'[t] = OnError(t)
BY StepEffect DEF Step

\* A step that only decides changes no Team.
LEMMA ProceedEffect ==
  ASSUME TypeOK, NEW t \in Team, NEW label, Proceed(t, label)
  PROVE  world' = world /\ pc'[t] = label
BY DEF TypeOK, Proceed, Goto

\* A refusal goes where failures go.
LEMMA RefuseEffect ==
  ASSUME TypeOK, NEW t \in Team, Refuse(t)
  PROVE  world' = world /\ pc'[t] = OnError(t)
BY DEF TypeOK, Refuse, Goto

\* Admission leaves the Team as it is.
LEMMA AdmissionEffect ==
  ASSUME TypeOK, NEW t \in Team, AdmissionStep(t) \/ InventoryFails(t)
  PROVE  pc[t] \in AdmissionLabels /\ world'[t] = world[t]
<1>1. CASE CheckRuntime(t)
  <2>1. \E label : Step(t, world[t], label) /\ pc[t] = "runtime"
    BY <1>1, Zenon DEF CheckRuntime
  <2>2. QED
    BY <2>1, PlainStepEffect
<1>2. CASE ~CheckRuntime(t)
  BY <1>2 DEF AdmissionStep, InventoryFails, ReadReservations, CountTeams, MeasureMemory, Admit
<1>3. QED
  BY <1>1, <1>2

\* What a create does at each of its labels.
CreateEffect(t) ==
  LET o == world[t]  n == world'[t]
  IN  \/ /\ pc[t] = "provision" /\ n = [o EXCEPT !.token = TRUE, !.pg = n.pg]
         /\ n.pg \in Pg!ProvisionOutcomes(o.pg)
         /\ pc'[t] = "network" => n.pg = Pg!Provision(o.pg)
      \/ /\ pc[t] = "network" /\ n \in {o, EnsureNetwork(o)}
      \/ /\ pc[t] = "wire" /\ n \in {o, [o EXCEPT !.net = @ \cup {"postgres"}]}
      \/ /\ pc[t] = "container" /\ n \in {o, [o EXCEPT !.brain = NewBrain(t)]}
         /\ pc'[t] = "start" => n = [o EXCEPT !.brain = NewBrain(t)] /\ op'[t].brain = NewBrain(t)
         /\ pc'[t] = "check" => op'[t] = op[t]
      \/ /\ pc[t] = "start" /\ n \in {o, [o EXCEPT !.up = TRUE]}
         /\ n # o => o.brain # NoBrain
      \/ pc[t] = "inference" /\ n \in {o, [o EXCEPT !.data = @ \cup {"inference"}]}

\* Every step of a create does this, whether it fails or not.
LEMMA CreateEffects ==
  ASSUME TypeOK, NEW t \in Team, CreateStep(t)
  PROVE  CreateEffect(t)
<1> DEFINE o == world[t]  n == world'[t]
<1>1. CASE ProvisionTeam(t)
  <2> DEFINE w == [o EXCEPT !.token = TRUE]
             failures == {[w EXCEPT !.pg = r] : r \in Pg!ProvisionOutcomes(w.pg)}
  <2>1. o \in World /\ w.pg = o.pg
    BY DEF TypeOK, World
  <2>2. Pg!Provision(o.pg) \in Pg!ProvisionOutcomes(o.pg) \/ ~Pg!MayProvision(w.pg)
    BY <2>1 DEF Pg!ProvisionOutcomes
  <2>3. o.pg \in Pg!ProvisionOutcomes(o.pg)
    BY DEF Pg!ProvisionOutcomes
  <2>4. \/ StepOr(t, [w EXCEPT !.pg = Pg!Provision(@)], "network", failures) /\ Pg!MayProvision(w.pg)
        \/ world' = [world EXCEPT ![t] = w] /\ Goto(t, "check")
    BY <1>1 DEF ProvisionTeam
  <2>5. \/ n = [w EXCEPT !.pg = Pg!Provision(@)] /\ pc'[t] = "network" /\ Pg!MayProvision(w.pg)
        \/ n \in failures /\ pc'[t] = "check"
        \/ n = w /\ pc'[t] = "check"
    <3>1. OnError(t) = "check" /\ pc[t] = "provision"
      BY <1>1 DEF ProvisionTeam, OnError
    <3> HIDE DEF w, failures
    <3>2. QED
      BY <2>4, <3>1, StepEffect DEF TypeOK, Goto
  <2>6. \E r \in Pg!ProvisionOutcomes(o.pg) :
          n = [w EXCEPT !.pg = r] /\ (pc'[t] = "network" => r = Pg!Provision(o.pg))
    <3>1. CASE n = w /\ pc'[t] = "check"
      <4>1. w = [w EXCEPT !.pg = o.pg]
        BY <2>1 DEF World
      <4>2. QED
        BY <2>3, <3>1, <4>1
    <3>2. CASE ~(n = w /\ pc'[t] = "check")
      BY <2>1, <2>2, <2>5, <3>2
    <3>3. QED
      BY <3>1, <3>2
  <2>7. pc[t] = "provision"
    BY <1>1 DEF ProvisionTeam
  <2>8. PICK r \in Pg!ProvisionOutcomes(o.pg) :
          n = [w EXCEPT !.pg = r] /\ (pc'[t] = "network" => r = Pg!Provision(o.pg))
    BY <2>6
  <2>9. n.pg = r /\ n = [o EXCEPT !.token = TRUE, !.pg = n.pg]
    BY <2>1, <2>8 DEF World
  <2>10. QED
    BY <2>7, <2>8, <2>9 DEF CreateEffect
<1>2. CASE CreateNetwork(t)
  <2>1. pc[t] = "network" /\ (Step(t, EnsureNetwork(o), "wire") \/ Refuse(t))
    BY <1>2 DEF CreateNetwork
  <2>2. QED
    BY <2>1, PlainStepEffect, RefuseEffect DEF CreateEffect
<1>3. CASE WireDependencies(t)
  <2> DEFINE w == [o EXCEPT !.net = @ \cup {"postgres"}]
  <2>1. pc[t] = "wire" /\ (Step(t, w, "container") \/ Refuse(t))
    BY <1>3 DEF WireDependencies
  <2>2. n \in {o, w}
    BY <2>1, PlainStepEffect, RefuseEffect
  <2>3. QED
    BY <2>1, <2>2 DEF CreateEffect
<1>4. CASE CreateBrain(t)
  <2> DEFINE w == [o EXCEPT !.brain = NewBrain(t)]
  <2>1. pc[t] = "container" /\ w.brain = NewBrain(t)
    BY <1>4 DEF CreateBrain, TypeOK, World
  <2>2. n \in {o, w} /\ (pc'[t] = "start" => n = w /\ op'[t].brain = w.brain) /\ (pc'[t] = "check" => op'[t] = op[t])
    <3>1. CASE world' = [world EXCEPT ![t] = w] /\ op' = [op EXCEPT ![t].brain = w.brain] /\ Goto(t, "start")
      BY <3>1 DEF TypeOK, Goto
    <3>2. CASE (\E failed \in {world[t], w} : world' = [world EXCEPT ![t] = failed]) /\ Goto(t, "check") /\ UNCHANGED op
      BY <3>2 DEF TypeOK, Goto
    <3>3. QED
      BY <1>4, <3>1, <3>2 DEF CreateBrain
  <2>3. QED
    BY <2>1, <2>2 DEF CreateEffect
<1>5. CASE StartBrain(t)
  <2> DEFINE w == [o EXCEPT !.up = TRUE]
  <2>1. pc[t] = "start" /\ ((Step(t, w, "inference") /\ o.brain # NoBrain) \/ Refuse(t))
    BY <1>5 DEF StartBrain, Isolated
  <2>2. n = o \/ (n = w /\ o.brain # NoBrain)
    <3> HIDE DEF w
    <3>1. CASE Step(t, w, "inference") /\ o.brain # NoBrain
      BY <3>1, PlainStepEffect
    <3>2. CASE Refuse(t)
      BY <3>2, RefuseEffect
    <3>3. QED
      BY <2>1, <3>1, <3>2
  <2>3. QED
    BY <2>1, <2>2 DEF CreateEffect
<1>6. CASE SaveInference(t)
  <2> DEFINE w == [o EXCEPT !.data = @ \cup {"inference"}]
  <2>1. pc[t] = "inference" /\ Step(t, w, "finish")
    BY <1>6 DEF SaveInference
  <2>2. n \in {o, w}
    <3> HIDE DEF w
    <3>1. QED
      BY <2>1, PlainStepEffect
  <2>3. QED
    BY <2>1, <2>2 DEF CreateEffect
<1>7. QED
  BY <1>1, <1>2, <1>3, <1>4, <1>5, <1>6 DEF CreateStep

\* The begin of a record leaves one, of this operation's Brain if it is new.
Begins(t, label) ==
  LET o == world[t]  n == world'[t]
  IN  /\ n \in {o, [o EXCEPT !.record = [brain |-> op[t].brain, dropped |-> FALSE]]}
      /\ n # o => o.record = NoRecord
      /\ pc'[t] = label => n.record # NoRecord

\* Where a teardown begins, it leaves a record, unless it refuses or fails before.
LEMMA BeginEffect ==
  ASSUME TypeOK, NEW t \in Team, NEW label, label # "finish", pc[t] \in {"anchor", "begin"}, BeginRecord(t, label)
  PROVE  Begins(t, label)
<1> DEFINE o == world[t]  n == world'[t]
           begun == [o EXCEPT !.record = [brain |-> op[t].brain, dropped |-> FALSE]]
<1>1. begun.record \in CleanupRecord
  BY DEF TypeOK, World, CleanupRecord
<1>2. begun.record # NoRecord
  BY <1>1, NoneAreNone
<1>3. OnError(t) = "finish"
  BY DEF OnError
<1>4. \/ o.record = NoRecord /\ Step(t, begun, label)
      \/ o.record # NoRecord /\ Proceed(t, label)
      \/ Refuse(t)
  BY DEF BeginRecord
<1>5. \/ o.record = NoRecord /\ n = begun
      \/ o.record # NoRecord /\ n = o
      \/ n = o /\ pc'[t] = "finish"
  <2> HIDE DEF begun
  <2>1. CASE o.record = NoRecord /\ Step(t, begun, label)
    BY <1>3, <2>1, PlainStepEffect
  <2>2. CASE o.record # NoRecord /\ Proceed(t, label)
    BY <2>2, ProceedEffect
  <2>3. CASE Refuse(t)
    BY <1>3, <2>3, RefuseEffect
  <2>4. QED
    BY <1>4, <2>1, <2>2, <2>3
<1>6. QED
  BY <1>2, <1>5 DEF Begins

\* What a destroy does before its teardown.
DestroyEffect(t) ==
  LET o == world[t]  n == world'[t]
  IN  \/ pc[t] = "anchor" /\ Begins(t, "failStop")
      \/ pc[t] = "failStop" /\ n \in {o, StopBrain(o)}
      \/ pc[t] \in {"chatLock", "thread"} /\ n = o
      \/ /\ pc[t] = "purge" /\ n \in {o, WithoutData(o, {"journal"})}
         /\ pc'[t] = "check" => n = WithoutData(o, {"journal"})

\* Every step of a destroy before its teardown does this.
LEMMA DestroyEffects ==
  ASSUME TypeOK, NEW t \in Team, DestroyStep(t)
  PROVE  DestroyEffect(t)
<1> DEFINE o == world[t]  n == world'[t]
<1>1. CASE AnchorDestroy(t)
  BY <1>1, BeginEffect DEF AnchorDestroy, DestroyEffect
<1>2. CASE FailStop(t)
  BY <1>2, PlainStepEffect DEF FailStop, DestroyEffect
<1>3. CASE TakeChatLock(t)
  BY <1>3 DEF TakeChatLock, DestroyEffect
<1>4. CASE ChatLockTimesOut(t)
  BY <1>4 DEF ChatLockTimesOut, Proceed, DestroyEffect
<1>5. CASE DeleteThread(t)
  <2>1. pc[t] = "thread" /\ (Refuse(t) \/ Step(t, o, "purge"))
    BY <1>5 DEF DeleteThread
  <2>2. n = o
    BY <2>1, PlainStepEffect, RefuseEffect
  <2>3. QED
    BY <2>1, <2>2 DEF DestroyEffect
<1>6. CASE PurgeJournal(t)
  <2>1. pc[t] = "purge" /\ Step(t, WithoutData(o, {"journal"}), "check")
    BY <1>6 DEF PurgeJournal, WithoutData
  <2>2. OnError(t) = "finish"
    BY <2>1 DEF OnError
  <2>3. QED
    BY <2>1, <2>2, PlainStepEffect DEF DestroyEffect
<1>7. QED
  BY <1>1, <1>2, <1>3, <1>4, <1>5, <1>6 DEF DestroyStep

\* What a teardown does at each of its labels.
TeardownEffect(t) ==
  LET o == world[t]  n == world'[t]
      Does(label, w, next) == pc[t] = label /\ n \in {o, w} /\ (pc'[t] = next => n = w)
  IN  \/ pc[t] = "check" /\ n = o /\ (pc'[t] = "begin" => o.brain \in {NoBrain, op[t].brain})
      \/ pc[t] = "begin" /\ Begins(t, "stop")
      \/ Does("stop", StopBrain(o), "apps")
      \/ /\ pc[t] = "apps"
         /\ \E policies, gone :
              /\ n = WithoutApps(o, policies, gone) /\ PoliciesOf(gone) \subseteq policies
              /\ pc'[t] = "storage" => gone = o.apps
      \/ Does("storage", WithoutData(o, {"file"}), "forgetInference")
      \/ Does("forgetInference", WithoutData(o, {"inference"}), "secrets")
      \/ Does("secrets", WithoutKept(o, "secret", App), "accounts")
      \/ Does("accounts", WithoutKept(o, "account", App), "grants")
      \/ Does("grants", WithoutKept(o, "grant", App), "networks")
      \/ /\ pc[t] = "networks" /\ n = [o EXCEPT !.net = n.net]
         /\ pc'[t] = "brain" => n.net = {}
      \/ Does("brain", [StopBrain(o) EXCEPT !.brain = NoBrain], "drop")
      \/ pc[t] = "drop" /\ n = o /\ o.record.dropped /\ pc'[t] = "finalize"
      \/ /\ pc[t] = "drop" /\ n = [o EXCEPT !.pg = n.pg] /\ pc'[t] \in {"mark", "finish"}
         /\ n.pg \in Pg!DropTeamOutcomes(o.pg)
         /\ pc'[t] = "mark" => n.pg = Pg!DropTeam(o.pg) /\ Pg!MayDropTeam(o.pg)
      \/ Does("mark", [o EXCEPT !.record.dropped = TRUE], "finalize")
      \/ /\ pc[t] = "finalize" /\ n = [o EXCEPT !.pg = n.pg, !.token = n.token]
         /\ n.pg \in {o.pg, Pg!Finalize(o.pg)}
         /\ n.pg # o.pg => Pg!MayFinalize(o.pg)
         /\ pc'[t] = "finishRecord" => n.pg = Pg!Finalize(o.pg) /\ ~n.token
      \/ Does("finishRecord", [o EXCEPT !.record = NoRecord], "idle")

\* Every step of a teardown does this.
LEMMA TeardownEffects ==
  ASSUME TypeOK, NEW t \in Team, TeardownStep(t)
  PROVE  TeardownEffect(t)
<1> DEFINE o == world[t]  n == world'[t]
<1>1. pc[t] \in TeardownLabels => OnError(t) = "finish"
  BY DEF OnError
<1>2. ASSUME NEW w, NEW label, Step(t, w, label), pc[t] \in TeardownLabels
      PROVE  /\ n \in {o, w} /\ pc'[t] \in {label, "finish"}
             /\ pc'[t] # "finish" => n = w
  BY <1>1, <1>2, PlainStepEffect
<1>3. CASE CheckBrain(t)
  <2>1. /\ pc[t] = "check"
        /\ \/ o.brain \in {NoBrain, op[t].brain} /\ Step(t, o, "begin")
           \/ Refuse(t)
    BY <1>3 DEF CheckBrain
  <2>2. CASE o.brain \in {NoBrain, op[t].brain} /\ Step(t, o, "begin")
    BY <1>2, <2>1, <2>2 DEF TeardownEffect
  <2>3. CASE Refuse(t)
    BY <1>1, <2>1, <2>3, RefuseEffect DEF TeardownEffect
  <2>4. QED
    BY <2>1, <2>2, <2>3
<1>4. CASE BeginTeardown(t)
  BY <1>4, BeginEffect DEF BeginTeardown, TeardownEffect
<1>5. CASE StopTeardownBrain(t)
  BY <1>2, <1>5 DEF StopTeardownBrain, TeardownEffect
<1>6. CASE TeardownApps(t)
  <2> DEFINE left == WithoutApps(o, PoliciesOf(o.apps), o.apps)
             outcomes == {WithoutApps(o, p[1], p[2]) :
               p \in {p \in PolicyRemovals(o.apps) \X (SUBSET o.apps) : PoliciesOf(p[2]) \subseteq p[1]}}
  <2>1. pc[t] = "apps" /\ StepOr(t, left, "storage", outcomes)
    BY <1>6 DEF TeardownApps
  <2>2. (n = left /\ pc'[t] = "storage") \/ (n \in outcomes /\ pc'[t] = "finish")
    <3> HIDE DEF left, outcomes
    <3>1. QED
      BY <1>1, <2>1, StepEffect
  <2>3. CASE n = left /\ pc'[t] = "storage"
    BY <2>1, <2>3 DEF TeardownEffect
  <2>4. CASE n \in outcomes /\ pc'[t] = "finish"
    <3>1. PICK p \in PolicyRemovals(o.apps) \X (SUBSET o.apps) :
            n = WithoutApps(o, p[1], p[2]) /\ PoliciesOf(p[2]) \subseteq p[1]
      BY <2>4
    <3>2. QED
      BY <2>1, <2>4, <3>1 DEF TeardownEffect
  <2>5. QED
    BY <2>2, <2>3, <2>4
<1>7. CASE TeardownStorage(t) \/ TeardownInference(t)
  BY <1>2, <1>7 DEF TeardownStorage, TeardownInference, TeardownEffect
<1>8. CASE TeardownSecrets(t) \/ TeardownAccounts(t) \/ TeardownGrants(t)
  BY <1>2, <1>8 DEF TeardownSecrets, TeardownAccounts, TeardownGrants, TeardownEffect
<1>9. CASE TeardownNetwork(t)
  <2> DEFINE outcomes == {[o EXCEPT !.net = @ \ gone] : gone \in SUBSET {"postgres", "egress"}} \cup {[o EXCEPT !.net = {}]}
             emptied == [o EXCEPT !.net = @ \ {"postgres", "egress"}]
             removed == [o EXCEPT !.net = {}]
  <2>1. /\ pc[t] = "networks"
        /\ \/ world' = [world EXCEPT ![t] = emptied] /\ Goto(t, "finish")
           \/ StepOr(t, removed, "brain", outcomes)
    BY <1>9 DEF TeardownNetwork
  <2>2. \/ n = emptied /\ pc'[t] = "finish"
        \/ n = removed /\ pc'[t] = "brain"
        \/ n \in outcomes /\ pc'[t] = "finish"
    <3> HIDE DEF emptied, removed, outcomes
    <3>1. CASE world' = [world EXCEPT ![t] = emptied] /\ Goto(t, "finish")
      BY <3>1 DEF TypeOK, Goto
    <3>2. CASE StepOr(t, removed, "brain", outcomes)
      BY <1>1, <2>1, <3>2, StepEffect
    <3>3. QED
      BY <2>1, <3>1, <3>2
  <2>3. o \in World
    BY DEF TypeOK
  <2>4. \E net : n = [o EXCEPT !.net = net] /\ (pc'[t] = "brain" => net = {})
    BY <2>2
  <2>5. PICK net : n = [o EXCEPT !.net = net] /\ (pc'[t] = "brain" => net = {})
    BY <2>4
  <2>6. n.net = net
    BY <2>3, <2>5 DEF World
  <2>7. QED
    BY <2>1, <2>5, <2>6 DEF TeardownEffect
<1>10. CASE RemoveBrain(t)
  <2> DEFINE w == [StopBrain(o) EXCEPT !.brain = NoBrain]
  <2>1. pc[t] = "brain" /\ Step(t, w, "drop")
    BY <1>10 DEF RemoveBrain
  <2>2. n \in {o, w} /\ (pc'[t] = "drop" => n = w)
    <3> HIDE DEF w
    <3>1. QED
      BY <1>2, <2>1
  <2>3. QED
    BY <2>1, <2>2 DEF TeardownEffect
<1>11. CASE DropDatabases(t)
  <2> DEFINE dropped == [o EXCEPT !.pg = Pg!DropTeam(@)]
             outcomes == {[o EXCEPT !.pg = r] : r \in Pg!DropTeamOutcomes(o.pg)}
  <2>1. o \in World
    BY DEF TypeOK
  <2>2. /\ pc[t] = "drop"
        /\ \/ o.record.dropped /\ Proceed(t, "finalize")
           \/ Refuse(t)
           \/ Pg!MayDropTeam(o.pg) /\ StepOr(t, dropped, "mark", outcomes)
    BY <1>11 DEF DropDatabases
  <2>3. \/ o.record.dropped /\ n = o /\ pc'[t] = "finalize"
        \/ n = o /\ pc'[t] = "finish"
        \/ Pg!MayDropTeam(o.pg) /\ n = dropped /\ pc'[t] = "mark"
        \/ n \in outcomes /\ pc'[t] = "finish"
    <3> HIDE DEF dropped, outcomes
    <3>1. CASE o.record.dropped /\ Proceed(t, "finalize")
      BY <3>1, ProceedEffect
    <3>2. CASE Refuse(t)
      BY <1>1, <2>2, <3>2, RefuseEffect
    <3>3. CASE Pg!MayDropTeam(o.pg) /\ StepOr(t, dropped, "mark", outcomes)
      BY <1>1, <2>2, <3>3, StepEffect
    <3>4. QED
      BY <2>2, <3>1, <3>2, <3>3
  <2>4. o.pg \in Pg!DropTeamOutcomes(o.pg) /\ o = [o EXCEPT !.pg = o.pg]
    BY <2>1 DEF Pg!DropTeamOutcomes, World
  <2>5. Pg!MayDropTeam(o.pg) => Pg!DropTeam(o.pg) \in Pg!DropTeamOutcomes(o.pg)
    BY DEF Pg!DropTeamOutcomes
  <2>6. \A r : [o EXCEPT !.pg = r].pg = r
    BY <2>1 DEF World
  <2>7. CASE o.record.dropped /\ n = o /\ pc'[t] = "finalize"
    BY <2>2, <2>7 DEF TeardownEffect
  <2>8. CASE n = o /\ pc'[t] = "finish"
    BY <2>2, <2>4, <2>8 DEF TeardownEffect
  <2>9. CASE Pg!MayDropTeam(o.pg) /\ n = dropped /\ pc'[t] = "mark"
    <3>1. n.pg = Pg!DropTeam(o.pg)
      BY <2>6, <2>9
    <3>2. QED
      BY <2>2, <2>5, <2>9, <3>1 DEF TeardownEffect
  <2>10. CASE n \in outcomes /\ pc'[t] = "finish"
    <3>1. PICK r \in Pg!DropTeamOutcomes(o.pg) : n = [o EXCEPT !.pg = r]
      BY <2>10
    <3>2. n.pg = r
      BY <2>6, <3>1
    <3>3. QED
      BY <2>2, <2>10, <3>1, <3>2 DEF TeardownEffect
  <2>11. QED
    BY <2>3, <2>7, <2>8, <2>9, <2>10
<1>12. CASE MarkDropped(t)
  <2> DEFINE w == [o EXCEPT !.record.dropped = TRUE]
  <2>1. pc[t] = "mark" /\ Step(t, w, "finalize")
    BY <1>12 DEF MarkDropped
  <2>2. n \in {o, w} /\ (pc'[t] = "finalize" => n = w)
    <3> HIDE DEF w
    <3>1. QED
      BY <1>2, <2>1
  <2>3. QED
    BY <2>1, <2>2 DEF TeardownEffect
<1>13. CASE FinalizeDrop(t)
  <2> DEFINE w == [o EXCEPT !.pg = Pg!Finalize(@)]
             gone == [w EXCEPT !.token = FALSE]
  <2>1. o \in World
    BY DEF TypeOK
  <2>2. /\ pc[t] = "finalize"
        /\ \/ Pg!MayFinalize(o.pg) /\ StepOr(t, gone, "finishRecord", {o, w})
           \/ Refuse(t)
    BY <1>13 DEF FinalizeDrop
  <2>3. \/ n = o /\ pc'[t] = "finish"
        \/ Pg!MayFinalize(o.pg) /\ n = gone
        \/ Pg!MayFinalize(o.pg) /\ n = w /\ pc'[t] = "finish"
    <3> HIDE DEF gone, w
    <3>1. CASE Pg!MayFinalize(o.pg) /\ StepOr(t, gone, "finishRecord", {o, w})
      BY <1>1, <2>2, <3>1, StepEffect
    <3>2. CASE Refuse(t)
      BY <1>1, <2>2, <3>2, RefuseEffect
    <3>3. QED
      BY <2>2, <3>1, <3>2
  <2>4. CASE n = o /\ pc'[t] = "finish"
    <3>1. o = [o EXCEPT !.pg = o.pg, !.token = o.token]
      BY <2>1 DEF World
    <3>2. QED
      BY <2>2, <2>4, <3>1 DEF TeardownEffect
  <2>5. CASE Pg!MayFinalize(o.pg) /\ n = gone
    <3>1. n.pg = Pg!Finalize(o.pg) /\ ~n.token /\ n = [o EXCEPT !.pg = n.pg, !.token = n.token]
      BY <2>1, <2>5 DEF World
    <3>2. QED
      BY <2>2, <2>5, <3>1 DEF TeardownEffect
  <2>6. CASE Pg!MayFinalize(o.pg) /\ n = w /\ pc'[t] = "finish"
    <3>1. n.pg = Pg!Finalize(o.pg) /\ n = [o EXCEPT !.pg = n.pg, !.token = n.token]
      BY <2>1, <2>6 DEF World
    <3>2. QED
      BY <2>2, <2>6, <3>1 DEF TeardownEffect
  <2>7. QED
    BY <2>3, <2>4, <2>5, <2>6
<1>14. CASE FinishRecord(t)
  <2> DEFINE w == [o EXCEPT !.record = NoRecord]
  <2>1. pc[t] = "finishRecord" /\ Step(t, w, "finish")
    BY <1>14 DEF FinishRecord
  <2>2. n \in {o, w} /\ pc'[t] = "finish"
    <3> HIDE DEF w
    <3>1. QED
      BY <1>2, <2>1
  <2>3. QED
    BY <2>1, <2>2 DEF TeardownEffect
<1>15. QED
  BY <1>3, <1>4, <1>5, <1>6, <1>7, <1>8, <1>9, <1>10, <1>11, <1>12, <1>13, <1>14 DEF TeardownStep

\* What an install does at each of its labels.
InstallEffect(t) ==
  LET o == world[t]  n == world'[t]  a == op[t].app
  IN  \/ pc[t] = "revoke" /\ n \in {o, WithoutKept(o, "grant", {a})}
      \/ pc[t] = "appDatabase" /\ n = [o EXCEPT !.pg = n.pg, !.net = n.net] /\ n.pg \in Pg!CreateAppOutcomes(o.pg, a)
      \/ pc[t] = "appToken" /\ n \in {o, [o EXCEPT !.policy = @ \cup {<<"token", a>>}]}
      \/ /\ pc[t] = "appContainer" /\ n \in {o, [o EXCEPT !.apps = @ \cup {a}]}
         /\ pc'[t] = "appAdmit" => n = [o EXCEPT !.apps = @ \cup {a}]
      \/ pc[t] \in {"appAdmit", "appStart", "appReady"} /\ n = o
      \/ /\ pc[t] = "appEgress" /\ n = [o EXCEPT !.policy = n.policy, !.net = n.net]
         /\ n.policy \in {o.policy, o.policy \cup {<<"hosts", a>>}}

\* Every step of an install, up to its commit or its failure, does this.
LEMMA InstallEffects ==
  ASSUME TypeOK, NEW t \in Team, InstallStep(t)
  PROVE  InstallEffect(t)
<1> DEFINE o == world[t]  n == world'[t]  a == op[t].app
<1>1. o \in World
  BY DEF TypeOK
<1>2. ASSUME NEW w, NEW label, Step(t, w, label), label # "policy", pc[t] \in InstallBody
      PROVE  n \in {o, w} /\ (pc'[t] = label => n = w)
  <2>1. OnError(t) = "policy"
    BY <1>2 DEF OnError
  <2>2. QED
    BY <1>2, <2>1, PlainStepEffect
<1>3. CASE RevokeGrants(t)
  <2>1. pc[t] = "revoke" /\ \E label : Step(t, WithoutKept(o, "grant", {a}), label)
    BY <1>3 DEF RevokeGrants
  <2>2. QED
    BY <2>1, PlainStepEffect DEF InstallEffect
<1>4. CASE CreateAppDatabase(t)
  <2> DEFINE made == EnsureNetwork([o EXCEPT !.pg = Pg!CreateApp(@, a)])
             outcomes == {[o EXCEPT !.pg = r] : r \in Pg!CreateAppOutcomes(o.pg, a)}
  <2>1. /\ pc[t] = "appDatabase"
        /\ \/ Step(t, EnsureNetwork(o), "appToken")
           \/ Refuse(t)
           \/ Pg!MayCreateApp(o.pg, a) /\ StepOr(t, made, "appToken", outcomes)
    BY <1>4 DEF CreateAppDatabase
  <2>2. \/ n \in {o, EnsureNetwork(o)}
        \/ Pg!MayCreateApp(o.pg, a) /\ n = made
        \/ n \in outcomes
    <3> HIDE DEF made, outcomes
    <3>1. CASE Step(t, EnsureNetwork(o), "appToken")
      BY <3>1, PlainStepEffect
    <3>2. CASE Refuse(t)
      BY <3>2, RefuseEffect
    <3>3. CASE Pg!MayCreateApp(o.pg, a) /\ StepOr(t, made, "appToken", outcomes)
      BY <3>3, StepEffect
    <3>4. QED
      BY <2>1, <3>1, <3>2, <3>3
  <2>3. ASSUME NEW r, NEW net, r \in Pg!CreateAppOutcomes(o.pg, a), n = [o EXCEPT !.pg = r, !.net = net]
        PROVE  InstallEffect(t)
    <3>1. n.pg = r /\ n.net = net
      BY <1>1, <2>3 DEF World
    <3>2. QED
      BY <2>1, <2>3, <3>1 DEF InstallEffect
  <2>4. o.pg \in Pg!CreateAppOutcomes(o.pg, a)
    BY DEF Pg!CreateAppOutcomes
  <2>5. CASE n = o
    <3>1. n = [o EXCEPT !.pg = o.pg, !.net = o.net]
      BY <1>1, <2>5 DEF World
    <3>2. QED
      BY <2>3, <2>4, <3>1
  <2>6. CASE n = EnsureNetwork(o)
    <3>1. n = [o EXCEPT !.pg = o.pg, !.net = o.net \cup {"network"}]
      BY <1>1, <2>6 DEF World, EnsureNetwork
    <3>2. QED
      BY <2>3, <2>4, <3>1
  <2>7. CASE Pg!MayCreateApp(o.pg, a) /\ n = made
    <3>1. n = [o EXCEPT !.pg = Pg!CreateApp(o.pg, a), !.net = o.net \cup {"network"}]
      BY <1>1, <2>7 DEF World, EnsureNetwork
    <3>2. Pg!CreateApp(o.pg, a) \in Pg!CreateAppOutcomes(o.pg, a)
      BY <2>7 DEF Pg!CreateAppOutcomes
    <3>3. QED
      BY <2>3, <3>1, <3>2
  <2>8. CASE n \in outcomes
    <3>1. PICK r \in Pg!CreateAppOutcomes(o.pg, a) : n = [o EXCEPT !.pg = r]
      BY <2>8
    <3>2. n = [o EXCEPT !.pg = r, !.net = o.net]
      BY <1>1, <3>1 DEF World
    <3>3. QED
      BY <2>3, <3>2
  <2>9. QED
    BY <2>2, <2>5, <2>6, <2>7, <2>8
<1>5. CASE ReserveEgress(t)
  <2> DEFINE w == [o EXCEPT !.policy = @ \cup {<<"token", a>>}]
  <2>1. pc[t] = "appToken" /\ (Step(t, w, "appContainer") \/ Refuse(t))
    BY <1>5 DEF ReserveEgress
  <2>2. n \in {o, w}
    <3> HIDE DEF w
    <3>1. QED
      BY <2>1, PlainStepEffect, RefuseEffect
  <2>3. QED
    BY <2>1, <2>2 DEF InstallEffect
<1>6. CASE CreateAppContainer(t)
  <2> DEFINE w == [o EXCEPT !.apps = @ \cup {a}]
  <2>1. pc[t] = "appContainer" /\ Step(t, w, "appAdmit")
    BY <1>6 DEF CreateAppContainer
  <2>2. n \in {o, w} /\ (pc'[t] = "appAdmit" => n = w)
    <3> HIDE DEF w
    <3>1. QED
      BY <1>2, <2>1
  <2>3. QED
    BY <2>1, <2>2 DEF InstallEffect
<1>7. CASE AdmitContract(t) \/ StartApp(t) \/ CommitInstall(t)
  <2>1. pc[t] \in {"appAdmit", "appStart", "appReady"} /\ (Refuse(t) \/ \E label : Step(t, o, label))
    BY <1>7 DEF AdmitContract, StartApp, CommitInstall
  <2>2. n = o
    BY <2>1, PlainStepEffect, RefuseEffect
  <2>3. QED
    BY <2>1, <2>2 DEF InstallEffect
<1>8. CASE ActivateEgress(t)
  <2> DEFINE written == [o EXCEPT !.policy = @ \cup {<<"hosts", a>>}]
             connected == [written EXCEPT !.net = @ \cup {"egress"}]
  <2>1. pc[t] = "appEgress" /\ StepOr(t, connected, "appStart", {o, written, connected})
    BY <1>8 DEF ActivateEgress
  <2>2. n \in {o, written, connected}
    <3> HIDE DEF written, connected
    <3>1. QED
      BY <2>1, StepEffect
  <2>3. n = [o EXCEPT !.policy = n.policy, !.net = n.net] /\ n.policy \in {o.policy, o.policy \cup {<<"hosts", a>>}}
    <3>1. CASE n = o
      BY <1>1, <3>1 DEF World
    <3>2. CASE n = written
      BY <1>1, <3>2 DEF World
    <3>3. CASE n = connected
      BY <1>1, <3>3 DEF World
    <3>4. QED
      BY <2>2, <3>1, <3>2, <3>3
  <2>4. QED
    BY <2>1, <2>3 DEF InstallEffect
<1>9. QED
  BY <1>3, <1>4, <1>5, <1>6, <1>7, <1>8 DEF InstallStep

\* What the removal of an App does at each of its labels.
RemovalEffect(t) ==
  LET o == world[t]  n == world'[t]  a == op[t].app
  IN  \/ /\ pc[t] = "policy" /\ \E policies : n = WithoutApps(o, policies, {})
         /\ pc'[t] = "app" => <<"hosts", a>> \notin n.policy
      \/ pc[t] = "app" /\ n \in {o, WithoutApps(o, {}, {a})}
      \/ pc[t] = "appDrop" /\ n = [o EXCEPT !.pg = n.pg] /\ n.pg \in Pg!DropAppOutcomes(o.pg, a)
      \/ pc[t] = "appSecrets" /\ n \in {o, WithoutKept(o, "secret", {a})}
      \/ pc[t] = "appAccounts" /\ n \in {o, WithoutKept(o, "account", {a})}
      \/ pc[t] = "appGrants" /\ n \in {o, WithoutKept(o, "grant", {a})}

\* Every step of an uninstall, or of the rollback of an install, does this.
LEMMA RemovalEffects ==
  ASSUME TypeOK, NEW t \in Team, RemovalStep(t)
  PROVE  RemovalEffect(t)
<1> DEFINE o == world[t]  n == world'[t]  a == op[t].app
<1>1. o \in World
  BY DEF TypeOK
<1>2. CASE RemovePolicy(t)
  <2> DEFINE removed == WithoutApps(o, PoliciesOf({a}), {})
             outcomes == {WithoutApps(o, ps, {}) : ps \in PolicyRemovals({a})}
  <2>1. pc[t] = "policy" /\ StepOr(t, removed, "app", outcomes)
    BY <1>2 DEF RemovePolicy
  <2>2. OnError(t) = "finish"
    BY <2>1 DEF OnError
  <2>3. (n = removed /\ pc'[t] = "app") \/ (n \in outcomes /\ pc'[t] = "finish")
    <3> HIDE DEF removed, outcomes
    <3>1. QED
      BY <2>1, <2>2, StepEffect
  <2>4. CASE n = removed /\ pc'[t] = "app"
    <3>1. <<"hosts", a>> \notin n.policy
      BY <1>1, <2>4 DEF WithoutApps, PoliciesOf, World
    <3>2. QED
      BY <2>1, <2>4, <3>1 DEF RemovalEffect
  <2>5. CASE n \in outcomes /\ pc'[t] = "finish"
    BY <2>1, <2>5 DEF RemovalEffect
  <2>6. QED
    BY <2>3, <2>4, <2>5
<1>3. CASE RemoveApp(t)
  BY <1>3, PlainStepEffect DEF RemoveApp, RemovalEffect
<1>4. CASE DropAppDatabase(t)
  <2> DEFINE dropped == [o EXCEPT !.pg = Pg!DropApp(@, a)]
             outcomes == {[o EXCEPT !.pg = r] : r \in Pg!DropAppOutcomes(o.pg, a)}
  <2>1. /\ pc[t] = "appDrop"
        /\ \/ \E label : Proceed(t, label)
           \/ Refuse(t)
           \/ Pg!MayDropApp(o.pg, a) /\ \E label : StepOr(t, dropped, label, outcomes)
    BY <1>4 DEF DropAppDatabase
  <2>2. \/ n = o
        \/ Pg!MayDropApp(o.pg, a) /\ n = dropped
        \/ n \in outcomes
    <3> HIDE DEF dropped, outcomes
    <3>1. CASE \E label : Proceed(t, label)
      BY <3>1, ProceedEffect
    <3>2. CASE Refuse(t)
      BY <3>2, RefuseEffect
    <3>3. CASE Pg!MayDropApp(o.pg, a) /\ \E label : StepOr(t, dropped, label, outcomes)
      BY <3>3, StepEffect
    <3>4. QED
      BY <2>1, <3>1, <3>2, <3>3
  <2>3. o.pg \in Pg!DropAppOutcomes(o.pg, a) /\ o = [o EXCEPT !.pg = o.pg]
    BY <1>1 DEF Pg!DropAppOutcomes, World
  <2>4. Pg!MayDropApp(o.pg, a) => Pg!DropApp(o.pg, a) \in Pg!DropAppOutcomes(o.pg, a)
    BY DEF Pg!DropAppOutcomes
  <2>5. \E r \in Pg!DropAppOutcomes(o.pg, a) : n = [o EXCEPT !.pg = r]
    BY <2>2, <2>3, <2>4
  <2>6. PICK r \in Pg!DropAppOutcomes(o.pg, a) : n = [o EXCEPT !.pg = r]
    BY <2>5
  <2>7. n.pg = r
    BY <1>1, <2>6 DEF World
  <2>8. QED
    BY <2>1, <2>6, <2>7 DEF RemovalEffect
<1>5. CASE DeleteSecrets(t) \/ DeleteAccounts(t) \/ DeleteGrants(t)
  BY <1>5, PlainStepEffect DEF DeleteSecrets, DeleteAccounts, DeleteGrants, RemovalEffect
<1>6. QED
  BY <1>2, <1>3, <1>4, <1>5 DEF RemovalStep

\* What a Team's short operations, its turns and its surroundings do.
BriefEffect(t) ==
  LET o == world[t]  n == world'[t]
  IN  /\ n.brain = o.brain /\ n.apps = o.apps /\ n.policy = o.policy
      /\ n.pg = o.pg /\ n.token = o.token /\ n.record = o.record
      /\ n.up => o.up \/ o.brain # NoBrain
      /\ o.net = {} => n.net = {}
      /\ \/ n.data \subseteq o.data /\ n.kept \subseteq o.kept
         \/ pc[t] = "idle" /\ o.brain # NoBrain
         \/ chat[t] = "turn" /\ o.apps # {}
      /\ pc[t] # "idle" => n.up = o.up /\ o.data \subseteq n.data
      /\ o.kept \subseteq n.kept
      /\ chat'[t] # chat[t] =>
           \/ chat[t] = "free" /\ chat'[t] = "queued"
           \/ chat[t] = "turn" /\ chat'[t] = "free"
           \/ chat[t] = "free" /\ chat'[t] = "turn" /\ o.brain # NoBrain

\* The short operations, turns and surroundings do this.
LEMMA BriefEffects ==
  ASSUME TypeOK, NEW t \in Team, Brief(t)
  PROVE  BriefEffect(t)
<1> DEFINE o == world[t]  n == world'[t]
           Frame == /\ n.brain = o.brain /\ n.apps = o.apps /\ n.policy = o.policy
                    /\ n.pg = o.pg /\ n.token = o.token /\ n.record = o.record
<1>1. o \in World
  BY DEF TypeOK
<1>2. CASE AuthorizeDestroy(t) \/ EndTurn(t) \/ \E a \in App : AuthorizeApp(t, a)
  <2>1. /\ n = o
        /\ \/ chat'[t] = chat[t]
           \/ chat[t] = "free" /\ chat'[t] = "queued"
           \/ chat[t] = "turn" /\ chat'[t] = "free"
    BY <1>2 DEF TypeOK, AuthorizeDestroy, EndTurn, AuthorizeApp
  <2>2. QED
    BY <1>1, <2>1 DEF BriefEffect
<1>3. CASE BeginTurn(t)
  <2>1. n = o /\ chat[t] = "free" /\ chat'[t] = "turn" /\ o.brain # NoBrain
    BY <1>3 DEF TypeOK, BeginTurn, Isolated
  <2>2. QED
    BY <1>1, <2>1 DEF BriefEffect
<1>4. CASE StartCreate(t)
  <2>1. n = [o EXCEPT !.data = @ \ {"file"}] /\ chat' = chat /\ pc[t] = "idle"
    BY <1>4 DEF TypeOK, StartCreate
  <2>2. /\ Frame
        /\ n.up = o.up /\ n.net = o.net /\ n.data \subseteq o.data /\ n.kept = o.kept
    BY <1>1, <2>1 DEF World
  <2>3. QED
    BY <2>1, <2>2 DEF BriefEffect
<1>5. CASE RepeatCreate(t) \/ PutFile(t)
  <2>1. /\ \E kinds : n = [o EXCEPT !.data = @ \cup kinds]
        /\ chat' = chat /\ pc[t] = "idle" /\ o.brain # NoBrain
    BY <1>5 DEF TypeOK, RepeatCreate, PutFile, Isolated
  <2>2. /\ Frame
        /\ n.up = o.up /\ n.net = o.net /\ n.kept = o.kept /\ o.data \subseteq n.data
    BY <1>1, <2>1 DEF World
  <2>3. QED
    BY <2>1, <2>2 DEF BriefEffect
<1>6. CASE StopTeam(t) \/ StartTeam(t)
  <2>1. /\ \E up : n = [o EXCEPT !.up = up]
        /\ chat' = chat /\ pc[t] = "idle" /\ o.brain # NoBrain
    BY <1>6 DEF TypeOK, StopTeam, StartTeam, StopBrain, Isolated
  <2>2. Frame
        /\ n.data = o.data /\ n.net = o.net /\ n.kept = o.kept
    BY <1>1, <2>1 DEF World
  <2>3. QED
    BY <2>1, <2>2 DEF BriefEffect
<1>7. CASE TurnStores(t)
  <2>1. /\ \E kinds, things : n \in {[o EXCEPT !.data = @ \cup kinds], [o EXCEPT !.kept = @ \cup things]}
        /\ chat' = chat /\ chat[t] = "turn" /\ o.apps # {}
    <3>1. CASE world' = [world EXCEPT ![t].data = @ \cup {"journal"}]
      <4>1. n = [o EXCEPT !.data = @ \cup {"journal"}]
        BY <3>1 DEF TypeOK
      <4>2. QED
        BY <1>7, <4>1 DEF TurnStores
    <3>2. ASSUME NEW thing, world' = [world EXCEPT ![t].kept = @ \cup {thing}]
          PROVE  n = [o EXCEPT !.kept = @ \cup {thing}]
      BY <3>2 DEF TypeOK
    <3>3. QED
      BY <1>7, <3>1, <3>2, Zenon DEF TurnStores
  <2>2. PICK kinds, things : n \in {[o EXCEPT !.data = @ \cup kinds], [o EXCEPT !.kept = @ \cup things]}
    BY <2>1
  <2>3. /\ Frame
        /\ n.up = o.up /\ o.data \subseteq n.data /\ n.net = o.net /\ o.kept \subseteq n.kept
    <3>1. CASE n = [o EXCEPT !.data = @ \cup kinds]
      BY <1>1, <3>1 DEF World
    <3>2. CASE n = [o EXCEPT !.kept = @ \cup things]
      BY <1>1, <3>2 DEF World
    <3>3. QED
      BY <2>2, <3>1, <3>2
  <2>4. QED
    BY <2>1, <2>3 DEF BriefEffect
<1>8. CASE Contaminate(t) \/ Evict(t)
  <2>1. /\ \E net : n = [o EXCEPT !.net = net] /\ (o.net = {} => net = {})
        /\ chat' = chat
    BY <1>8 DEF TypeOK, Contaminate, Evict
  <2>2. /\ Frame
        /\ n.up = o.up /\ n.data = o.data /\ n.kept = o.kept /\ (o.net = {} => n.net = {})
    BY <1>1, <2>1 DEF World
  <2>3. QED
    BY <2>1, <2>2 DEF BriefEffect
<1>9. CASE \E a \in App : ReplaceSecrets(t, a)
  <2>1. /\ \E things : n = [o EXCEPT !.kept = @ \cup things]
        /\ chat' = chat /\ pc[t] = "idle" /\ o.brain # NoBrain
    BY <1>9 DEF TypeOK, ReplaceSecrets
  <2>2. /\ Frame
        /\ n.up = o.up /\ n.data = o.data /\ n.net = o.net /\ o.kept \subseteq n.kept
    BY <1>1, <2>1 DEF World
  <2>3. QED
    BY <2>1, <2>2 DEF BriefEffect
<1>10. QED
  BY <1>2, <1>3, <1>4, <1>5, <1>6, <1>7, <1>8, <1>9 DEF Brief

\* The effects of the steps of an operation, together.
LEMMA WorkingEffects ==
  ASSUME TypeOK, NEW t \in Team, Working(t)
  PROVE  \/ pc[t] \in AdmissionLabels /\ world'[t] = world[t]
         \/ CreateEffect(t) \/ DestroyEffect(t) \/ TeardownEffect(t) \/ InstallEffect(t) \/ RemovalEffect(t)
BY AdmissionEffect, CreateEffects, DestroyEffects, TeardownEffects, InstallEffects, RemovalEffects DEF Working

-----------------------------------------------------------------------------
(* The same by what is changed, for all the labels together.               *)

\* A Brain comes with one step of a create and goes with one of a teardown.
BrainChanges(t) ==
  LET o == world[t]  n == world'[t]
  IN  /\ \/ n.brain = o.brain
         \/ pc[t] = "container" /\ n.brain = NewBrain(t)
         \/ pc[t] = "brain" /\ n.brain = NoBrain /\ ~n.up
      /\ pc[t] = "container" /\ pc'[t] = "start" => n.brain = NewBrain(t)
      /\ pc[t] = "brain" /\ pc'[t] = "drop" => n.brain = NoBrain
      /\ pc[t] = "check" /\ pc'[t] = "begin" => o.brain \in {NoBrain, op[t].brain}
      /\ n.up => o.up \/ (pc[t] = "start" /\ o.brain # NoBrain)
      /\ o.up => n.up \/ pc[t] \in {"failStop", "stop", "brain"}

\* A record comes with two steps, is marked by one and goes with one.
RecordChanges(t) ==
  LET o == world[t]  n == world'[t]
  IN  /\ \/ n.record = o.record
         \/ pc[t] \in {"anchor", "begin"} /\ o.record = NoRecord
            /\ n.record = [brain |-> op[t].brain, dropped |-> FALSE]
         \/ pc[t] = "mark" /\ n.record = [o.record EXCEPT !.dropped = TRUE]
         \/ pc[t] = "finishRecord" /\ n.record = NoRecord
      /\ pc[t] = "anchor" /\ pc'[t] = "failStop" => n.record # NoRecord
      /\ pc[t] = "begin" /\ pc'[t] = "stop" => n.record # NoRecord

\* Data is added by the last step of a create only.
DataChanges(t) ==
  LET o == world[t]  n == world'[t]
      Gone(from, to, kind) == pc[t] = from /\ pc'[t] = to => \A a \in App : <<kind, a>> \notin n.kept
  IN  /\ n.data \subseteq o.data \/ (pc[t] = "inference" /\ n.data \subseteq o.data \cup {"inference"})
      /\ o.data \subseteq n.data \/ pc[t] \in {"purge", "storage", "forgetInference"}
      /\ n.kept \subseteq o.kept
      /\ o.kept \subseteq n.kept
           \/ pc[t] \in {"secrets", "accounts", "grants", "revoke", "appSecrets", "appAccounts", "appGrants"}
      /\ pc[t] = "purge" /\ pc'[t] = "check" => "journal" \notin n.data
      /\ pc[t] = "storage" /\ pc'[t] = "forgetInference" => "file" \notin n.data
      /\ pc[t] = "forgetInference" /\ pc'[t] = "secrets" => "inference" \notin n.data
      /\ Gone("secrets", "accounts", "secret") /\ Gone("accounts", "grants", "account")
      /\ Gone("grants", "networks", "grant")

\* An App's policy goes no later than its container and comes no sooner.
AppChanges(t) ==
  LET o == world[t]  n == world'[t]  a == op[t].app
  IN  /\ n.apps \subseteq o.apps \/ (pc[t] = "appContainer" /\ n.apps = o.apps \cup {a})
      /\ o.apps \subseteq n.apps \/ pc[t] \in {"apps", "app"}
      /\ pc[t] = "apps" => \A b \in o.apps \ n.apps : <<"hosts", b>> \notin n.policy
      /\ pc[t] = "apps" /\ pc'[t] = "storage" => n.apps = {}
      /\ pc[t] = "app" => n.policy = o.policy /\ o.apps \ {a} \subseteq n.apps
      /\ pc[t] = "appContainer" /\ pc'[t] = "appAdmit" => a \in n.apps
      /\ \A b \in App : <<"hosts", b>> \in n.policy \ o.policy => b = a /\ pc[t] = "appEgress"
      /\ pc[t] = "policy" /\ pc'[t] = "app" => <<"hosts", a>> \notin n.policy

\* The network goes as a whole, and a teardown adds nothing to it.
NetChanges(t) ==
  LET o == world[t]  n == world'[t]
  IN  /\ pc[t] \in TeardownLabels \ {"networks"} => n.net = o.net
      /\ pc[t] = "networks" /\ pc'[t] = "brain" => n.net = {}

\* What is asked of pg-driver, and when the token goes.
PgChanges(t) ==
  LET o == world[t]  n == world'[t]  a == op[t].app
  IN  /\ \/ n.pg = o.pg
         \/ pc[t] = "provision" /\ n.pg \in Pg!ProvisionOutcomes(o.pg)
         \/ pc[t] = "drop" /\ n.pg \in Pg!DropTeamOutcomes(o.pg)
         \/ pc[t] = "finalize" /\ n.pg = Pg!Finalize(o.pg) /\ Pg!MayFinalize(o.pg)
         \/ pc[t] = "appDatabase" /\ n.pg \in Pg!CreateAppOutcomes(o.pg, a)
         \/ pc[t] = "appDrop" /\ n.pg \in Pg!DropAppOutcomes(o.pg, a)
      /\ pc[t] = "drop" /\ pc'[t] = "mark" => n.pg = Pg!DropTeam(o.pg) /\ Pg!MayDropTeam(o.pg)
      /\ pc[t] = "drop" /\ pc'[t] = "finalize" => n.pg = o.pg /\ o.record.dropped
      /\ pc[t] = "finalize" /\ pc'[t] = "finishRecord" => n.pg = Pg!Finalize(o.pg) /\ ~n.token
      /\ pc[t] = "finishRecord" => n.token = o.token

Changes(t) ==
  BrainChanges(t) /\ RecordChanges(t) /\ DataChanges(t) /\ AppChanges(t) /\ NetChanges(t) /\ PgChanges(t)

\* A step that leaves the Team as it is changes nothing, at most labels.
LEMMA NothingChanges ==
  ASSUME NEW t \in Team, world'[t] = world[t],
         pc[t] \notin {"container", "brain", "check", "anchor", "begin", "purge", "storage", "forgetInference",
                       "secrets", "accounts", "grants", "apps", "policy", "appContainer", "networks", "drop", "finalize"}
  PROVE  Changes(t)
BY DEF Changes, BrainChanges, RecordChanges, DataChanges, AppChanges, NetChanges, PgChanges

\* What a create does to each part of a Team.
LEMMA CreateChanges ==
  ASSUME TypeOK, NEW t \in Team, CreateEffect(t)
  PROVE  Changes(t)
<1> DEFINE o == world[t]  n == world'[t]
<1>1. o \in World
  BY DEF TypeOK
<1>2. CASE pc[t] = "provision" /\ n = [o EXCEPT !.token = TRUE, !.pg = n.pg] /\ n.pg \in Pg!ProvisionOutcomes(o.pg)
  <2>1. /\ n.brain = o.brain /\ n.up = o.up /\ n.apps = o.apps /\ n.net = o.net /\ n.policy = o.policy
        /\ n.data = o.data /\ n.kept = o.kept /\ n.record = o.record
    BY <1>1, <1>2 DEF World
  <2>2. QED
    BY <1>2, <2>1 DEF Changes, BrainChanges, RecordChanges, DataChanges, AppChanges, NetChanges, PgChanges
<1>3. CASE pc[t] = "network" /\ n \in {o, EnsureNetwork(o)}
  <2>1. /\ n.brain = o.brain /\ n.up = o.up /\ n.apps = o.apps /\ n.policy = o.policy /\ n.data = o.data
        /\ n.kept = o.kept /\ n.record = o.record /\ n.pg = o.pg /\ n.token = o.token
    BY <1>1, <1>3 DEF World, EnsureNetwork
  <2>2. QED
    BY <1>3, <2>1 DEF Changes, BrainChanges, RecordChanges, DataChanges, AppChanges, NetChanges, PgChanges
<1>4. CASE pc[t] = "wire" /\ n \in {o, [o EXCEPT !.net = @ \cup {"postgres"}]}
  <2>1. /\ n.brain = o.brain /\ n.up = o.up /\ n.apps = o.apps /\ n.policy = o.policy /\ n.data = o.data
        /\ n.kept = o.kept /\ n.record = o.record /\ n.pg = o.pg /\ n.token = o.token
    BY <1>1, <1>4 DEF World
  <2>2. QED
    BY <1>4, <2>1 DEF Changes, BrainChanges, RecordChanges, DataChanges, AppChanges, NetChanges, PgChanges
<1>5. CASE /\ pc[t] = "container" /\ n \in {o, [o EXCEPT !.brain = NewBrain(t)]}
           /\ pc'[t] = "start" => n = [o EXCEPT !.brain = NewBrain(t)]
  <2>1. /\ n.up = o.up /\ n.apps = o.apps /\ n.net = o.net /\ n.policy = o.policy /\ n.data = o.data
        /\ n.kept = o.kept /\ n.record = o.record /\ n.pg = o.pg /\ n.token = o.token
    BY <1>1, <1>5 DEF World
  <2>2. n.brain \in {o.brain, NewBrain(t)} /\ (pc'[t] = "start" => n.brain = NewBrain(t))
    BY <1>1, <1>5 DEF World
  <2>3. QED
    BY <1>5, <2>1, <2>2 DEF Changes, BrainChanges, RecordChanges, DataChanges, AppChanges, NetChanges, PgChanges
<1>6. CASE pc[t] = "start" /\ n \in {o, [o EXCEPT !.up = TRUE]} /\ (n # o => o.brain # NoBrain)
  <2>1. /\ n.brain = o.brain /\ n.apps = o.apps /\ n.net = o.net /\ n.policy = o.policy /\ n.data = o.data
        /\ n.kept = o.kept /\ n.record = o.record /\ n.pg = o.pg /\ n.token = o.token
    BY <1>1, <1>6 DEF World
  <2>2. (n.up => o.up \/ o.brain # NoBrain) /\ (o.up => n.up)
    BY <1>1, <1>6 DEF World
  <2>3. QED
    BY <1>6, <2>1, <2>2 DEF Changes, BrainChanges, RecordChanges, DataChanges, AppChanges, NetChanges, PgChanges
<1>7. CASE pc[t] = "inference" /\ n \in {o, [o EXCEPT !.data = @ \cup {"inference"}]}
  <2>1. /\ n.brain = o.brain /\ n.up = o.up /\ n.apps = o.apps /\ n.net = o.net /\ n.policy = o.policy
        /\ n.kept = o.kept /\ n.record = o.record /\ n.pg = o.pg /\ n.token = o.token
    BY <1>1, <1>7 DEF World
  <2>2. o.data \subseteq n.data /\ n.data \subseteq o.data \cup {"inference"}
    BY <1>1, <1>7 DEF World
  <2>3. QED
    BY <1>7, <2>1, <2>2 DEF Changes, BrainChanges, RecordChanges, DataChanges, AppChanges, NetChanges, PgChanges
<1>8. QED
  BY <1>2, <1>3, <1>4, <1>5, <1>6, <1>7 DEF CreateEffect

\* The begin of a record changes nothing else.
LEMMA BeginChanges ==
  ASSUME TypeOK, NEW t \in Team, NEW label, Begins(t, label),
         \/ pc[t] = "anchor" /\ label = "failStop"
         \/ pc[t] = "begin" /\ label = "stop"
  PROVE  Changes(t)
<1> DEFINE o == world[t]  n == world'[t]
           begun == [brain |-> op[t].brain, dropped |-> FALSE]
<1>1. o \in World
  BY DEF TypeOK
<1>2. /\ n \in {o, [o EXCEPT !.record = begun]} /\ (n # o => o.record = NoRecord)
      /\ pc'[t] = label => n.record # NoRecord
  BY DEF Begins
<1> HIDE DEF begun
<1>3. /\ n.brain = o.brain /\ n.up = o.up /\ n.apps = o.apps /\ n.net = o.net /\ n.policy = o.policy
      /\ n.data = o.data /\ n.kept = o.kept /\ n.pg = o.pg /\ n.token = o.token
  BY <1>1, <1>2 DEF World
<1>4. n.record = o.record \/ (o.record = NoRecord /\ n.record = begun)
  BY <1>1, <1>2 DEF World
<1>5. BrainChanges(t) /\ DataChanges(t) /\ AppChanges(t) /\ NetChanges(t) /\ PgChanges(t)
  BY <1>3 DEF BrainChanges, DataChanges, AppChanges, NetChanges, PgChanges
<1>6. RecordChanges(t)
  BY <1>2, <1>4 DEF RecordChanges, begun
<1>7. QED
  BY <1>5, <1>6 DEF Changes

\* What a destroy does to each part of a Team before its teardown.
LEMMA DestroyChanges ==
  ASSUME TypeOK, NEW t \in Team, DestroyEffect(t)
  PROVE  Changes(t)
<1> DEFINE o == world[t]  n == world'[t]
<1>1. o \in World
  BY DEF TypeOK
<1>2. CASE pc[t] = "anchor" /\ Begins(t, "failStop")
  BY <1>2, BeginChanges
<1>3. CASE pc[t] = "failStop" /\ n \in {o, StopBrain(o)}
  <2>1. /\ n.brain = o.brain /\ n.apps = o.apps /\ n.net = o.net /\ n.policy = o.policy /\ n.data = o.data
        /\ n.kept = o.kept /\ n.record = o.record /\ n.pg = o.pg /\ n.token = o.token
    BY <1>1, <1>3 DEF World, StopBrain
  <2>2. n.up => o.up
    BY <1>1, <1>3 DEF World, StopBrain
  <2>3. QED
    BY <1>3, <2>1, <2>2 DEF Changes, BrainChanges, RecordChanges, DataChanges, AppChanges, NetChanges, PgChanges
<1>4. CASE pc[t] \in {"chatLock", "thread"} /\ n = o
  BY <1>4, NothingChanges
<1>5. CASE /\ pc[t] = "purge" /\ n \in {o, WithoutData(o, {"journal"})}
           /\ pc'[t] = "check" => n = WithoutData(o, {"journal"})
  <2>1. /\ n.brain = o.brain /\ n.up = o.up /\ n.apps = o.apps /\ n.net = o.net /\ n.policy = o.policy
        /\ n.kept = o.kept /\ n.record = o.record /\ n.pg = o.pg /\ n.token = o.token
    BY <1>1, <1>5 DEF World, WithoutData
  <2>2. n.data \subseteq o.data /\ (pc'[t] = "check" => "journal" \notin n.data)
    BY <1>1, <1>5 DEF World, WithoutData
  <2>3. QED
    BY <1>5, <2>1, <2>2 DEF Changes, BrainChanges, RecordChanges, DataChanges, AppChanges, NetChanges, PgChanges
<1>6. QED
  BY <1>2, <1>3, <1>4, <1>5 DEF DestroyEffect

\* What a teardown does to each part of a Team.
LEMMA TeardownChanges ==
  ASSUME TypeOK, NEW t \in Team, RecordInv(t), TeardownEffect(t)
  PROVE  Changes(t)
<1> DEFINE o == world[t]  n == world'[t]
<1>1. o \in World
  BY DEF TypeOK
<1>2. CASE pc[t] = "check" /\ n = o /\ (pc'[t] = "begin" => o.brain \in {NoBrain, op[t].brain})
  BY <1>2 DEF Changes, BrainChanges, RecordChanges, DataChanges, AppChanges, NetChanges, PgChanges
<1>3. CASE pc[t] = "begin" /\ Begins(t, "stop")
  BY <1>3, BeginChanges
<1>4. CASE /\ pc[t] = "stop" /\ n \in {o, StopBrain(o)}
           /\ pc'[t] = "apps" => n = StopBrain(o)
  <2>1. /\ n.brain = o.brain /\ n.apps = o.apps /\ n.net = o.net /\ n.policy = o.policy /\ n.data = o.data
        /\ n.kept = o.kept /\ n.record = o.record /\ n.pg = o.pg /\ n.token = o.token
    BY <1>1, <1>4 DEF World, StopBrain
  <2>2. n.up => o.up
    BY <1>1, <1>4 DEF World, StopBrain
  <2>3. QED
    BY <1>4, <2>1, <2>2 DEF Changes, BrainChanges, RecordChanges, DataChanges, AppChanges, NetChanges, PgChanges
<1>5. CASE /\ pc[t] = "apps"
           /\ \E policies, gone :
                /\ n = WithoutApps(o, policies, gone) /\ PoliciesOf(gone) \subseteq policies
                /\ pc'[t] = "storage" => gone = o.apps
  <2>1. PICK policies, gone : /\ n = WithoutApps(o, policies, gone) /\ PoliciesOf(gone) \subseteq policies
                              /\ pc'[t] = "storage" => gone = o.apps
    BY <1>5
  <2>2. /\ n.brain = o.brain /\ n.up = o.up /\ n.net = o.net /\ n.data = o.data /\ n.kept = o.kept
        /\ n.record = o.record /\ n.pg = o.pg /\ n.token = o.token
        /\ n.apps = o.apps \ gone /\ n.policy = o.policy \ policies
    BY <1>1, <2>1 DEF World, WithoutApps
  <2>3. \A b \in gone : <<"hosts", b>> \in policies
    BY <2>1 DEF PoliciesOf
  <2>4. AppChanges(t)
    BY <1>5, <2>1, <2>2, <2>3 DEF AppChanges
  <2>5. QED
    BY <1>5, <2>2, <2>4 DEF Changes, BrainChanges, RecordChanges, DataChanges, NetChanges, PgChanges
<1>6. CASE /\ pc[t] = "storage" /\ n \in {o, WithoutData(o, {"file"})}
           /\ pc'[t] = "forgetInference" => n = WithoutData(o, {"file"})
  <2>1. /\ n.brain = o.brain /\ n.up = o.up /\ n.apps = o.apps /\ n.net = o.net /\ n.policy = o.policy
        /\ n.kept = o.kept /\ n.record = o.record /\ n.pg = o.pg /\ n.token = o.token
    BY <1>1, <1>6 DEF World, WithoutData
  <2>2. n.data \subseteq o.data /\ (pc'[t] = "forgetInference" => "file" \notin n.data)
    BY <1>1, <1>6 DEF World, WithoutData
  <2>3. QED
    BY <1>6, <2>1, <2>2 DEF Changes, BrainChanges, RecordChanges, DataChanges, AppChanges, NetChanges, PgChanges
<1>7. CASE /\ pc[t] = "forgetInference" /\ n \in {o, WithoutData(o, {"inference"})}
           /\ pc'[t] = "secrets" => n = WithoutData(o, {"inference"})
  <2>1. /\ n.brain = o.brain /\ n.up = o.up /\ n.apps = o.apps /\ n.net = o.net /\ n.policy = o.policy
        /\ n.kept = o.kept /\ n.record = o.record /\ n.pg = o.pg /\ n.token = o.token
    BY <1>1, <1>7 DEF World, WithoutData
  <2>2. n.data \subseteq o.data /\ (pc'[t] = "secrets" => "inference" \notin n.data)
    BY <1>1, <1>7 DEF World, WithoutData
  <2>3. QED
    BY <1>7, <2>1, <2>2 DEF Changes, BrainChanges, RecordChanges, DataChanges, AppChanges, NetChanges, PgChanges
<1>8. CASE /\ pc[t] = "secrets" /\ n \in {o, WithoutKept(o, "secret", App)}
           /\ pc'[t] = "accounts" => n = WithoutKept(o, "secret", App)
  <2>1. /\ n.brain = o.brain /\ n.up = o.up /\ n.apps = o.apps /\ n.net = o.net /\ n.policy = o.policy
        /\ n.data = o.data /\ n.record = o.record /\ n.pg = o.pg /\ n.token = o.token
    BY <1>1, <1>8 DEF World, WithoutKept
  <2>2. n.kept \subseteq o.kept /\ (pc'[t] = "accounts" => \A a \in App : <<"secret", a>> \notin n.kept)
    BY <1>1, <1>8 DEF World, WithoutKept
  <2>3. QED
    BY <1>8, <2>1, <2>2 DEF Changes, BrainChanges, RecordChanges, DataChanges, AppChanges, NetChanges, PgChanges
<1>9. CASE /\ pc[t] = "accounts" /\ n \in {o, WithoutKept(o, "account", App)}
           /\ pc'[t] = "grants" => n = WithoutKept(o, "account", App)
  <2>1. /\ n.brain = o.brain /\ n.up = o.up /\ n.apps = o.apps /\ n.net = o.net /\ n.policy = o.policy
        /\ n.data = o.data /\ n.record = o.record /\ n.pg = o.pg /\ n.token = o.token
    BY <1>1, <1>9 DEF World, WithoutKept
  <2>2. n.kept \subseteq o.kept /\ (pc'[t] = "grants" => \A a \in App : <<"account", a>> \notin n.kept)
    BY <1>1, <1>9 DEF World, WithoutKept
  <2>3. QED
    BY <1>9, <2>1, <2>2 DEF Changes, BrainChanges, RecordChanges, DataChanges, AppChanges, NetChanges, PgChanges
<1>10. CASE /\ pc[t] = "grants" /\ n \in {o, WithoutKept(o, "grant", App)}
            /\ pc'[t] = "networks" => n = WithoutKept(o, "grant", App)
  <2>1. /\ n.brain = o.brain /\ n.up = o.up /\ n.apps = o.apps /\ n.net = o.net /\ n.policy = o.policy
        /\ n.data = o.data /\ n.record = o.record /\ n.pg = o.pg /\ n.token = o.token
    BY <1>1, <1>10 DEF World, WithoutKept
  <2>2. n.kept \subseteq o.kept /\ (pc'[t] = "networks" => \A a \in App : <<"grant", a>> \notin n.kept)
    BY <1>1, <1>10 DEF World, WithoutKept
  <2>3. QED
    BY <1>10, <2>1, <2>2 DEF Changes, BrainChanges, RecordChanges, DataChanges, AppChanges, NetChanges, PgChanges
<1>11. CASE /\ pc[t] = "networks" /\ n = [o EXCEPT !.net = n.net]
            /\ pc'[t] = "brain" => n.net = {}
  <2>1. /\ n.brain = o.brain /\ n.up = o.up /\ n.apps = o.apps /\ n.policy = o.policy /\ n.data = o.data
        /\ n.kept = o.kept /\ n.record = o.record /\ n.pg = o.pg /\ n.token = o.token
    BY <1>1, <1>11 DEF World
  <2>3. QED
    BY <1>11, <2>1 DEF Changes, BrainChanges, RecordChanges, DataChanges, AppChanges, NetChanges, PgChanges
<1>12. CASE /\ pc[t] = "brain" /\ n \in {o, [StopBrain(o) EXCEPT !.brain = NoBrain]}
            /\ pc'[t] = "drop" => n = [StopBrain(o) EXCEPT !.brain = NoBrain]
  <2>1. /\ n.apps = o.apps /\ n.net = o.net /\ n.policy = o.policy /\ n.data = o.data /\ n.kept = o.kept
        /\ n.record = o.record /\ n.pg = o.pg /\ n.token = o.token
    BY <1>1, <1>12 DEF World, StopBrain
  <2>2. /\ (n.brain = o.brain /\ n.up = o.up) \/ (n.brain = NoBrain /\ ~n.up)
        /\ pc'[t] = "drop" => n.brain = NoBrain
    BY <1>1, <1>12 DEF World, StopBrain
  <2>3. QED
    BY <1>12, <2>1, <2>2 DEF Changes, BrainChanges, RecordChanges, DataChanges, AppChanges, NetChanges, PgChanges
<1>13. CASE pc[t] = "drop" /\ n = o /\ o.record.dropped /\ pc'[t] = "finalize"
  BY <1>13 DEF Changes, BrainChanges, RecordChanges, DataChanges, AppChanges, NetChanges, PgChanges
<1>14. CASE /\ pc[t] = "drop" /\ n = [o EXCEPT !.pg = n.pg] /\ pc'[t] \in {"mark", "finish"}
            /\ n.pg \in Pg!DropTeamOutcomes(o.pg)
            /\ pc'[t] = "mark" => n.pg = Pg!DropTeam(o.pg) /\ Pg!MayDropTeam(o.pg)
  <2>1. /\ n.brain = o.brain /\ n.up = o.up /\ n.apps = o.apps /\ n.net = o.net /\ n.policy = o.policy
        /\ n.data = o.data /\ n.kept = o.kept /\ n.record = o.record /\ n.token = o.token
    BY <1>1, <1>14 DEF World
  <2>3. QED
    BY <1>14, <2>1 DEF Changes, BrainChanges, RecordChanges, DataChanges, AppChanges, NetChanges, PgChanges
<1>15. CASE /\ pc[t] = "mark" /\ n \in {o, [o EXCEPT !.record.dropped = TRUE]}
            /\ pc'[t] = "finalize" => n = [o EXCEPT !.record.dropped = TRUE]
  <2>1. /\ n.brain = o.brain /\ n.up = o.up /\ n.apps = o.apps /\ n.net = o.net /\ n.policy = o.policy
        /\ n.data = o.data /\ n.kept = o.kept /\ n.pg = o.pg /\ n.token = o.token
    BY <1>1, <1>15 DEF World
  <2>2. n.record \in {o.record, [o.record EXCEPT !.dropped = TRUE]}
    BY <1>1, <1>15 DEF World
  <2>3. QED
    BY <1>15, <2>1, <2>2 DEF Changes, BrainChanges, RecordChanges, DataChanges, AppChanges, NetChanges, PgChanges
<1>16. CASE /\ pc[t] = "finalize" /\ n = [o EXCEPT !.pg = n.pg, !.token = n.token]
            /\ n.pg \in {o.pg, Pg!Finalize(o.pg)}
            /\ n.pg # o.pg => Pg!MayFinalize(o.pg)
            /\ pc'[t] = "finishRecord" => n.pg = Pg!Finalize(o.pg) /\ ~n.token
  <2>1. /\ n.brain = o.brain /\ n.up = o.up /\ n.apps = o.apps /\ n.net = o.net /\ n.policy = o.policy
        /\ n.data = o.data /\ n.kept = o.kept /\ n.record = o.record
    BY <1>1, <1>16 DEF World
  <2>3. QED
    BY <1>16, <2>1 DEF Changes, BrainChanges, RecordChanges, DataChanges, AppChanges, NetChanges, PgChanges
<1>17. CASE /\ pc[t] = "finishRecord" /\ n \in {o, [o EXCEPT !.record = NoRecord]}
            /\ pc'[t] = "idle" => n = [o EXCEPT !.record = NoRecord]
  <2>1. /\ n.brain = o.brain /\ n.up = o.up /\ n.apps = o.apps /\ n.net = o.net /\ n.policy = o.policy
        /\ n.data = o.data /\ n.kept = o.kept /\ n.pg = o.pg /\ n.token = o.token
    BY <1>1, <1>17 DEF World
  <2>2. n.record \in {o.record, NoRecord}
    BY <1>1, <1>17 DEF World
  <2>3. QED
    BY <1>17, <2>1, <2>2 DEF Changes, BrainChanges, RecordChanges, DataChanges, AppChanges, NetChanges, PgChanges
<1>18. QED
  BY <1>2, <1>3, <1>4, <1>5, <1>6, <1>7, <1>8, <1>9, <1>10, <1>11, <1>12, <1>13, <1>14, <1>15, <1>16, <1>17 DEF TeardownEffect

\* What an install does to each part of a Team.
LEMMA InstallChanges ==
  ASSUME TypeOK, NEW t \in Team, InstallEffect(t)
  PROVE  Changes(t)
<1> DEFINE o == world[t]  n == world'[t]  a == op[t].app
<1>1. o \in World
  BY DEF TypeOK
<1>2. CASE pc[t] = "revoke" /\ n \in {o, WithoutKept(o, "grant", {a})}
  <2>1. /\ n.brain = o.brain /\ n.up = o.up /\ n.apps = o.apps /\ n.net = o.net /\ n.policy = o.policy
        /\ n.data = o.data /\ n.record = o.record /\ n.pg = o.pg /\ n.token = o.token
    BY <1>1, <1>2 DEF World, WithoutKept
  <2>2. n.kept \subseteq o.kept
    BY <1>1, <1>2 DEF World, WithoutKept
  <2>3. QED
    BY <1>2, <2>1, <2>2 DEF Changes, BrainChanges, RecordChanges, DataChanges, AppChanges, NetChanges, PgChanges
<1>3. CASE /\ pc[t] = "appDatabase" /\ n = [o EXCEPT !.pg = n.pg, !.net = n.net]
           /\ n.pg \in Pg!CreateAppOutcomes(o.pg, a)
  <2>1. /\ n.brain = o.brain /\ n.up = o.up /\ n.apps = o.apps /\ n.policy = o.policy /\ n.data = o.data
        /\ n.kept = o.kept /\ n.record = o.record /\ n.token = o.token
    BY <1>1, <1>3 DEF World
  <2>3. QED
    BY <1>3, <2>1 DEF Changes, BrainChanges, RecordChanges, DataChanges, AppChanges, NetChanges, PgChanges
<1>4. CASE pc[t] = "appToken" /\ n \in {o, [o EXCEPT !.policy = @ \cup {<<"token", a>>}]}
  <2>1. /\ n.brain = o.brain /\ n.up = o.up /\ n.apps = o.apps /\ n.net = o.net /\ n.data = o.data
        /\ n.kept = o.kept /\ n.record = o.record /\ n.pg = o.pg /\ n.token = o.token
    BY <1>1, <1>4 DEF World
  <2>2. \A b : <<"hosts", b>> \in n.policy => <<"hosts", b>> \in o.policy
    BY <1>1, <1>4 DEF World
  <2>3. QED
    BY <1>4, <2>1, <2>2 DEF Changes, BrainChanges, RecordChanges, DataChanges, AppChanges, NetChanges, PgChanges
<1>5. CASE /\ pc[t] = "appContainer" /\ n \in {o, [o EXCEPT !.apps = @ \cup {a}]}
           /\ pc'[t] = "appAdmit" => n = [o EXCEPT !.apps = @ \cup {a}]
  <2>1. /\ n.brain = o.brain /\ n.up = o.up /\ n.net = o.net /\ n.policy = o.policy /\ n.data = o.data
        /\ n.kept = o.kept /\ n.record = o.record /\ n.pg = o.pg /\ n.token = o.token
    BY <1>1, <1>5 DEF World
  <2>2. /\ n.apps \in {o.apps, o.apps \cup {a}}
        /\ pc'[t] = "appAdmit" => a \in n.apps
    BY <1>1, <1>5 DEF World
  <2>3. QED
    BY <1>5, <2>1, <2>2 DEF Changes, BrainChanges, RecordChanges, DataChanges, AppChanges, NetChanges, PgChanges
<1>6. CASE pc[t] \in {"appAdmit", "appStart", "appReady"} /\ n = o
  BY <1>6, NothingChanges
<1>7. CASE /\ pc[t] = "appEgress" /\ n = [o EXCEPT !.policy = n.policy, !.net = n.net]
           /\ n.policy \in {o.policy, o.policy \cup {<<"hosts", a>>}}
  <2>1. /\ n.brain = o.brain /\ n.up = o.up /\ n.apps = o.apps /\ n.data = o.data /\ n.kept = o.kept
        /\ n.record = o.record /\ n.pg = o.pg /\ n.token = o.token
    BY <1>1, <1>7 DEF World
  <2>2. \A b : <<"hosts", b>> \in n.policy \ o.policy => b = a
    BY <1>1, <1>7 DEF World
  <2>3. QED
    BY <1>7, <2>1, <2>2 DEF Changes, BrainChanges, RecordChanges, DataChanges, AppChanges, NetChanges, PgChanges
<1>8. QED
  BY <1>2, <1>3, <1>4, <1>5, <1>6, <1>7 DEF InstallEffect

\* What an uninstall or a rollback does to each part of a Team.
LEMMA RemovalChanges ==
  ASSUME TypeOK, NEW t \in Team, RemovalEffect(t)
  PROVE  Changes(t)
<1> DEFINE o == world[t]  n == world'[t]  a == op[t].app
<1>1. o \in World
  BY DEF TypeOK
<1>2. CASE /\ pc[t] = "policy" /\ \E policies : n = WithoutApps(o, policies, {})
           /\ pc'[t] = "app" => <<"hosts", a>> \notin n.policy
  <2>1. PICK policies : n = WithoutApps(o, policies, {})
    BY <1>2
  <2>2. /\ n.brain = o.brain /\ n.up = o.up /\ n.apps = o.apps /\ n.net = o.net /\ n.data = o.data
        /\ n.kept = o.kept /\ n.record = o.record /\ n.pg = o.pg /\ n.token = o.token
        /\ n.policy \subseteq o.policy
    BY <1>1, <2>1 DEF World, WithoutApps
  <2>3. QED
    BY <1>2, <2>2 DEF Changes, BrainChanges, RecordChanges, DataChanges, AppChanges, NetChanges, PgChanges
<1>3. CASE pc[t] = "app" /\ n \in {o, WithoutApps(o, {}, {a})}
  <2> DEFINE m == WithoutApps(o, {}, {a})
  <2>1. /\ m.brain = o.brain /\ m.up = o.up /\ m.net = o.net /\ m.data = o.data /\ m.kept = o.kept
        /\ m.record = o.record /\ m.pg = o.pg /\ m.token = o.token
        /\ m.policy = o.policy \ {} /\ m.apps = o.apps \ {a}
    BY <1>1 DEF World, WithoutApps
  <2>2. o.policy \ {} = o.policy
    OBVIOUS
  <2> HIDE DEF m
  <2>3. /\ n.brain = o.brain /\ n.up = o.up /\ n.net = o.net /\ n.data = o.data /\ n.kept = o.kept
        /\ n.record = o.record /\ n.pg = o.pg /\ n.token = o.token
        /\ n.policy = o.policy /\ n.apps \in {o.apps, o.apps \ {a}}
    <3>1. n \in {o, m}
      BY <1>3 DEF m
    <3>2. QED
      BY <2>1, <2>2, <3>1
  <2>4. QED
    BY <1>3, <2>3 DEF Changes, BrainChanges, RecordChanges, DataChanges, AppChanges, NetChanges, PgChanges
<1>4. CASE pc[t] = "appDrop" /\ n = [o EXCEPT !.pg = n.pg] /\ n.pg \in Pg!DropAppOutcomes(o.pg, a)
  <2>1. /\ n.brain = o.brain /\ n.up = o.up /\ n.apps = o.apps /\ n.net = o.net /\ n.policy = o.policy
        /\ n.data = o.data /\ n.kept = o.kept /\ n.record = o.record /\ n.token = o.token
    BY <1>1, <1>4 DEF World
  <2>3. QED
    BY <1>4, <2>1 DEF Changes, BrainChanges, RecordChanges, DataChanges, AppChanges, NetChanges, PgChanges
<1>5. CASE pc[t] = "appSecrets" /\ n \in {o, WithoutKept(o, "secret", {a})}
  <2>1. /\ n.brain = o.brain /\ n.up = o.up /\ n.apps = o.apps /\ n.net = o.net /\ n.policy = o.policy
        /\ n.data = o.data /\ n.record = o.record /\ n.pg = o.pg /\ n.token = o.token
    BY <1>1, <1>5 DEF World, WithoutKept
  <2>2. n.kept \subseteq o.kept
    BY <1>1, <1>5 DEF World, WithoutKept
  <2>3. QED
    BY <1>5, <2>1, <2>2 DEF Changes, BrainChanges, RecordChanges, DataChanges, AppChanges, NetChanges, PgChanges
<1>6. CASE pc[t] = "appAccounts" /\ n \in {o, WithoutKept(o, "account", {a})}
  <2>1. /\ n.brain = o.brain /\ n.up = o.up /\ n.apps = o.apps /\ n.net = o.net /\ n.policy = o.policy
        /\ n.data = o.data /\ n.record = o.record /\ n.pg = o.pg /\ n.token = o.token
    BY <1>1, <1>6 DEF World, WithoutKept
  <2>2. n.kept \subseteq o.kept
    BY <1>1, <1>6 DEF World, WithoutKept
  <2>3. QED
    BY <1>6, <2>1, <2>2 DEF Changes, BrainChanges, RecordChanges, DataChanges, AppChanges, NetChanges, PgChanges
<1>7. CASE pc[t] = "appGrants" /\ n \in {o, WithoutKept(o, "grant", {a})}
  <2>1. /\ n.brain = o.brain /\ n.up = o.up /\ n.apps = o.apps /\ n.net = o.net /\ n.policy = o.policy
        /\ n.data = o.data /\ n.record = o.record /\ n.pg = o.pg /\ n.token = o.token
    BY <1>1, <1>7 DEF World, WithoutKept
  <2>2. n.kept \subseteq o.kept
    BY <1>1, <1>7 DEF World, WithoutKept
  <2>3. QED
    BY <1>7, <2>1, <2>2 DEF Changes, BrainChanges, RecordChanges, DataChanges, AppChanges, NetChanges, PgChanges
<1>8. QED
  BY <1>2, <1>3, <1>4, <1>5, <1>6, <1>7 DEF RemovalEffect

\* Every step of an operation but its answer changes the Team as these say.
LEMMA WorkingChanges ==
  ASSUME TypeOK, NEW t \in Team, RecordInv(t), Working(t)
  PROVE  Changes(t)
<1>1. CASE pc[t] \in AdmissionLabels /\ world'[t] = world[t]
  BY <1>1, NothingChanges
<1>2. QED
  BY <1>1, WorkingEffects, CreateChanges, DestroyChanges, TeardownChanges, InstallChanges, RemovalChanges

-----------------------------------------------------------------------------
(* The invariants.                                                         *)

\* A create begins where there is neither a Brain nor a record.
LEMMA CreateBegins ==
  ASSUME TypeOK, NEW t \in Team, StartCreate(t)
  PROVE  world[t].brain = NoBrain /\ world[t].record = NoRecord
BY DEF StartCreate

\* A record that is begun or marked is one.
LEMMA RecordsAreRecords ==
  ASSUME TypeOK, NEW t \in Team
  PROVE  /\ [brain |-> op[t].brain, dropped |-> FALSE] # NoRecord
         /\ world[t].record # NoRecord
              => [world[t].record EXCEPT !.dropped = TRUE] # NoRecord /\ [world[t].record EXCEPT !.dropped = TRUE].dropped
<1>1. [brain |-> op[t].brain, dropped |-> FALSE] \in CleanupRecord
  BY DEF TypeOK, CleanupRecord
<1>2. ASSUME world[t].record # NoRecord
      PROVE  [world[t].record EXCEPT !.dropped = TRUE] \in CleanupRecord /\ [world[t].record EXCEPT !.dropped = TRUE].dropped
  <2>1. world[t].record \in CleanupRecord
    BY <1>2 DEF TypeOK, World
  <2>2. QED
    BY <2>1 DEF CleanupRecord
<1>3. QED
  BY <1>1, <1>2, NoneAreNone

\* Every step of a Team keeps what is said of its record.
LEMMA RecordStep ==
  ASSUME TypeOK, NEW t \in Team, RequestInv(t), RecordInv(t), TeamStep(t)
  PROVE  RecordInv(t)'
<1>1. op[t].kind \in {"none", "create", "destroy", "install", "uninstall"} /\ pc[t] \in LabelsOf(op[t].kind)
  BY DEF TypeOK, RequestInv
<1>2. CASE Working(t)
  <2>1. Follows(t) /\ op'[t].kind = op[t].kind /\ RecordChanges(t)
    BY <1>2, WorkingFollows, WorkingChanges DEF Changes
  <2> DEFINE begun == [brain |-> op[t].brain, dropped |-> FALSE]
             marked == [world[t].record EXCEPT !.dropped = TRUE]
  <2>2. /\ \/ world'[t].record = world[t].record
           \/ pc[t] \in {"anchor", "begin"} /\ world'[t].record = begun
           \/ pc[t] = "mark" /\ world'[t].record = marked
           \/ pc[t] = "finishRecord" /\ world'[t].record = NoRecord
        /\ pc[t] = "anchor" /\ pc'[t] = "failStop" => world'[t].record # NoRecord
        /\ pc[t] = "begin" /\ pc'[t] = "stop" => world'[t].record # NoRecord
    BY <2>1, Zenon DEF RecordChanges
  <2>3. begun # NoRecord /\ (world[t].record # NoRecord => marked # NoRecord)
    BY RecordsAreRecords
  <2> HIDE DEF begun, marked
  <2>4. CASE op[t].kind = "none"
    BY <1>1, <2>1, <2>4 DEF LabelsOf, Follows
  <2>5. CASE op[t].kind = "create"
    BY <1>1, <2>1, <2>2, <2>3, <2>5 DEF LabelsOf, Creating, Follows, RecordInv, OfApp
  <2>6. CASE op[t].kind = "destroy"
    BY <1>1, <2>1, <2>2, <2>3, <2>6 DEF LabelsOf, Follows, RecordInv, OfApp
  <2>7. CASE op[t].kind = "install"
    BY <1>1, <2>1, <2>2, <2>3, <2>7 DEF LabelsOf, Follows, RecordInv, OfApp
  <2>8. CASE op[t].kind = "uninstall"
    BY <1>1, <2>1, <2>2, <2>3, <2>8 DEF LabelsOf, Follows, RecordInv, OfApp
  <2>9. QED
    BY <1>1, <2>4, <2>5, <2>6, <2>7, <2>8
<1>3. CASE Finish(t)
  BY <1>3, FinishMoves DEF RecordInv, NoOp, OfApp, Creating
<1>4. CASE TakesLock(t)
  <2>1. CASE pc'[t] = "idle" /\ op'[t] = op[t] /\ pc[t] = "idle" /\ world' = world
    BY <2>1 DEF RecordInv
  <2>2. CASE /\ op'[t] = [kind |-> queued[t].kind, app |-> queued[t].app, brain |-> queued[t].lease.brain]
             /\ BeginsAt(t, pc'[t]) /\ world' = world
    <3>1. op'[t].kind = queued[t].kind
      BY <2>2
    <3>2. QED
      BY <2>2, <3>1 DEF RecordInv, BeginsAt, OfApp, Creating, CleanupLease
  <2>3. QED
    BY <1>4, <2>1, <2>2, AdmittedMoves
<1>5. CASE Brief(t)
  <2>1. world'[t].record = world[t].record
    BY <1>5, BriefEffects DEF BriefEffect
  <2>2. CASE StartCreate(t)
    BY <1>5, <2>1, <2>2, BriefMoves, CreateBegins DEF RecordInv, OfApp
  <2>3. CASE ~StartCreate(t)
    BY <1>5, <2>1, <2>3, BriefMoves DEF RecordInv
  <2>4. QED
    BY <2>2, <2>3
<1>6. QED
  BY <1>2, <1>3, <1>4, <1>5, StepKinds

\* A Team's Brain while an operation has its lock: that of its request, if it
\* has one, but for what a create finds when it makes one.
Unborn == AdmissionLabels \cup {"provision", "network", "wire", "container"}
BrainInv(t) ==
  LET w == world[t]
  IN  /\ w.up => w.brain # NoBrain
      /\ OfApp(op[t].kind) => w.brain # NoBrain /\ w.brain = op[t].brain
      /\ op[t].kind = "destroy" => w.brain \in {NoBrain, op[t].brain}
      /\ op[t].kind = "create" =>
           /\ pc[t] \in Unborn => w.brain = NoBrain
           /\ pc[t] \in {"start", "inference"} => w.brain # NoBrain
           /\ pc[t] \in TeardownLabels \ {"check"} => w.brain \in {NoBrain, op[t].brain}
      /\ pc[t] \in {"drop", "mark", "finalize", "finishRecord"} => w.brain = NoBrain

\* A new Brain is one.
LEMMA NewBrainIsOne ==
  ASSUME TypeOK, NEW t \in Team
  PROVE  NewBrain(t) # NoBrain
BY NewBrainTyped, HostedAssumption

\* Every step of a Team keeps what is said of its Brain.
LEMMA BrainStep ==
  ASSUME TypeOK, NEW t \in Team, RequestInv(t), RecordInv(t), BrainInv(t), TeamStep(t)
  PROVE  BrainInv(t)'
<1>1. op[t].kind \in {"none", "create", "destroy", "install", "uninstall"} /\ pc[t] \in LabelsOf(op[t].kind)
  BY DEF TypeOK, RequestInv
<1>2. CASE Working(t)
  <2>1. /\ Follows(t) /\ op'[t].kind = op[t].kind /\ (pc[t] # "container" => op'[t].brain = op[t].brain)
        /\ BrainChanges(t)
    BY <1>2, WorkingFollows, WorkingChanges DEF Changes
  <2>2. NewBrain(t) # NoBrain
    BY NewBrainIsOne
  <2>3. world'[t].up => world'[t].brain # NoBrain
    BY <2>1, <2>2 DEF BrainChanges, BrainInv
  <2>4. CASE op[t].kind = "none"
    BY <1>1, <2>1, <2>4 DEF LabelsOf, Follows
  <2>5. CASE op[t].kind = "create"
    BY <1>1, <2>1, <2>2, <2>3, <2>5 DEF LabelsOf, Creating, Follows, BrainChanges, BrainInv, Unborn, OfApp
  <2>6. CASE op[t].kind = "destroy"
    BY <1>1, <2>1, <2>3, <2>6 DEF LabelsOf, Follows, BrainChanges, BrainInv, OfApp
  <2>7. CASE op[t].kind = "install"
    BY <1>1, <2>1, <2>3, <2>7 DEF LabelsOf, Follows, BrainChanges, BrainInv, OfApp
  <2>8. CASE op[t].kind = "uninstall"
    BY <1>1, <2>1, <2>3, <2>8 DEF LabelsOf, Follows, BrainChanges, BrainInv, OfApp
  <2>9. QED
    BY <1>1, <2>4, <2>5, <2>6, <2>7, <2>8
<1>3. CASE Finish(t)
  BY <1>3, FinishMoves DEF BrainInv, NoOp, OfApp, Unborn
<1>4. CASE TakesLock(t)
  <2>1. CASE pc'[t] = "idle" /\ op'[t] = op[t] /\ pc[t] = "idle" /\ world' = world
    BY <2>1 DEF BrainInv
  <2>2. CASE /\ op'[t] = [kind |-> queued[t].kind, app |-> queued[t].app, brain |-> queued[t].lease.brain]
             /\ BeginsAt(t, pc'[t]) /\ world' = world
    <3>1. op'[t].kind = queued[t].kind /\ op'[t].brain = queued[t].lease.brain
      BY <2>2
    <3>2. QED
      BY <2>2, <3>1 DEF BrainInv, BeginsAt, OfApp, CleanupLease, CurrentLease
  <2>3. QED
    BY <1>4, <2>1, <2>2, AdmittedMoves
<1>5. CASE Brief(t)
  <2>1. world'[t].brain = world[t].brain /\ (world'[t].up => world[t].up \/ world[t].brain # NoBrain)
    BY <1>5, BriefEffects DEF BriefEffect
  <2>2. CASE StartCreate(t)
    BY <1>5, <2>1, <2>2, BriefMoves, CreateBegins DEF BrainInv, OfApp
  <2>3. CASE ~StartCreate(t)
    BY <1>5, <2>1, <2>3, BriefMoves DEF BrainInv
  <2>4. QED
    BY <2>2, <2>3
<1>6. QED
  BY <1>2, <1>3, <1>4, <1>5, StepKinds

\* A Team loses Brain and record together only with the end of a teardown.
LEMMA LostBefore ==
  ASSUME TypeOK, NEW t \in Team, RecordInv(t), BrainInv(t), Working(t), pc[t] # "finishRecord",
         world'[t].brain = NoBrain, world'[t].record = NoRecord
  PROVE  world[t].brain = NoBrain /\ world[t].record = NoRecord
<1> DEFINE o == world[t]  n == world'[t]
<1>1. BrainChanges(t) /\ RecordChanges(t)
  BY WorkingChanges DEF Changes
<1>2. o.record = NoRecord
  <2>1. [brain |-> op[t].brain, dropped |-> FALSE] # NoRecord
    BY RecordsAreRecords
  <2>2. pc[t] = "mark" => o.record # NoRecord
    BY DEF RecordInv
  <2>3. pc[t] = "mark" => [o.record EXCEPT !.dropped = TRUE] # NoRecord
    BY <2>2, RecordsAreRecords
  <2>4. QED
    BY <1>1, <2>1, <2>3, Zenon DEF RecordChanges
<1>3. pc[t] # "brain"
  BY <1>2 DEF RecordInv
<1>4. NewBrain(t) # NoBrain
  BY NewBrainIsOne
<1>5. QED
  BY <1>1, <1>2, <1>3, <1>4 DEF BrainChanges

\* The chat lock: an install or uninstall has it throughout, a destroy from
\* where it deletes what a turn may store.  A turn runs beside neither, and where
\* it runs beside a create, or after one that was rolled back, there is no App.
TurnLabels == {"idle", "finish", "anchor", "failStop", "chatLock"}
ChatInv(t) ==
  /\ OfApp(op[t].kind) => chat[t] = "op"
  /\ op[t].kind = "destroy" /\ pc[t] \in {"thread", "purge"} \cup TeardownLabels => chat[t] = "op"
  /\ chat[t] = "turn" => /\ op[t].kind = "create" \/ pc[t] \in TurnLabels
                         /\ world[t].apps = {} \/ (world[t].brain # NoBrain /\ op[t].kind # "create")

\* What is private of a Team, and the labels of a teardown from one on.
Clean(w) == w.data = {} /\ w.kept = {} /\ w.apps = {}
Kept(w, kind) == \E a \in App : <<kind, a>> \in w.kept
FromBrain == {"brain", "drop", "mark", "finalize", "finishRecord"}
FromNetworks == {"networks"} \cup FromBrain
FromGrants == {"grants"} \cup FromNetworks
FromAccounts == {"accounts"} \cup FromGrants
FromSecrets == {"secrets"} \cup FromAccounts
FromInference == {"forgetInference"} \cup FromSecrets
FromStorage == {"storage"} \cup FromInference

\* A Team without Brain and record has nothing private, one that is being created
\* at most its configuration; what a teardown has passed is gone and stays so.
ResidueInv(t) ==
  LET w == world[t]
  IN  /\ w.brain = NoBrain /\ w.record = NoRecord => Clean(w)
      /\ op[t].kind = "create" => w.data \subseteq {"inference"} /\ w.kept = {} /\ w.apps = {}
      /\ pc[t] \in TeardownLabels => "journal" \notin w.data
      /\ pc[t] \in FromStorage => w.apps = {}
      /\ pc[t] \in FromInference => "file" \notin w.data
      /\ pc[t] \in FromSecrets => "inference" \notin w.data
      /\ pc[t] \in FromAccounts => ~Kept(w, "secret")
      /\ pc[t] \in FromGrants => ~Kept(w, "account")
      /\ pc[t] \in FromNetworks => ~Kept(w, "grant")
      /\ pc[t] \in FromBrain => w.net = {}

\* Every step of a Team keeps what is said of its chat lock.
LEMMA ChatStep ==
  ASSUME TypeOK, NEW t \in Team, RequestInv(t), RecordInv(t), BrainInv(t), ChatInv(t), ResidueInv(t), TeamStep(t)
  PROVE  ChatInv(t)'
<1>1. op[t].kind \in {"none", "create", "destroy", "install", "uninstall"} /\ pc[t] \in LabelsOf(op[t].kind)
  BY DEF TypeOK, RequestInv
<1>2. CASE Working(t)
  <2>1. /\ Follows(t) /\ op'[t].kind = op[t].kind /\ (pc[t] # "chatLock" => chat'[t] = chat[t])
        /\ BrainChanges(t) /\ AppChanges(t)
    BY <1>2, WorkingFollows, WorkingChanges DEF Changes
  <2>2. CASE pc[t] = "chatLock"
    <3>1. op[t].kind = "destroy" /\ world'[t].brain = world[t].brain
      BY <1>1, <2>1, <2>2 DEF LabelsOf, Creating, BrainChanges
    <3>2. world[t].apps = {} => world'[t].apps = {}
      BY <2>1, <2>2 DEF AppChanges
    <3>3. QED
      BY <1>2, <2>1, <2>2, <3>1, <3>2, ChatLockMoves DEF ChatInv, TurnLabels, OfApp
  <2>3. CASE pc[t] # "chatLock"
    <3>1. OfApp(op[t].kind) => chat[t] = "op"
      BY DEF ChatInv
    <3>2. op[t].kind = "destroy" /\ pc'[t] \in {"thread", "purge"} \cup TeardownLabels => chat[t] = "op"
      <4>1. op[t].kind = "destroy" /\ pc'[t] \in {"thread", "purge"} \cup TeardownLabels
              => pc[t] \in {"thread", "purge"} \cup TeardownLabels
        BY <1>1, <2>1, <2>3 DEF Follows, LabelsOf
      <4>2. QED
        BY <4>1 DEF ChatInv
    <3>3. chat[t] = "turn" /\ op[t].kind # "create" => /\ world'[t].brain = world[t].brain
                                                      /\ pc'[t] \in TurnLabels
      <4>1. chat[t] = "turn" /\ op[t].kind # "create" => pc[t] \in {"anchor", "failStop"} \cup {"idle", "finish"}
        BY <2>3 DEF ChatInv, TurnLabels
      <4>2. QED
        BY <2>1, <4>1 DEF Follows, BrainChanges, TurnLabels
    <3>4. chat[t] = "turn" /\ world[t].apps = {} => world'[t].apps = {}
      <4>1. pc[t] = "appContainer" => OfApp(op[t].kind)
        BY <1>1 DEF LabelsOf, Creating, OfApp
      <4>2. QED
        BY <2>1, <3>1, <4>1 DEF AppChanges
    <3>5. QED
      BY <2>1, <2>3, <3>1, <3>2, <3>3, <3>4 DEF ChatInv
  <2>4. QED
    BY <2>2, <2>3
<1>3. CASE Finish(t)
  BY <1>3, FinishMoves DEF ChatInv, NoOp, OfApp, TurnLabels
<1>4. CASE TakesLock(t)
  <2>1. queued[t] # NoRequest /\ pc[t] = "idle" /\ world' = world
    BY <1>4, AdmittedMoves, NoneAreNone
  <2>2. CASE /\ pc'[t] = "idle" /\ op'[t] = op[t]
             /\ chat'[t] = IF chat[t] = "queued" THEN "free" ELSE chat[t]
    BY <1>1, <2>1, <2>2 DEF ChatInv, OfApp, LabelsOf, Creating
  <2>3. CASE /\ op'[t] = [kind |-> queued[t].kind, app |-> queued[t].app, brain |-> queued[t].lease.brain]
             /\ chat'[t] = IF chat[t] = "queued" THEN "op" ELSE chat[t]
             /\ BeginsAt(t, pc'[t])
    <3>1. op'[t].kind = queued[t].kind
      BY <2>3
    <3>2. OfApp(queued[t].kind) => chat[t] = "queued"
      BY <2>1 DEF RequestInv
    <3>3. queued[t].kind = "destroy" => pc'[t] \in {"anchor", "chatLock"}
      BY <2>3 DEF BeginsAt
    <3>4. OfApp(queued[t].kind) \/ queued[t].kind = "destroy"
      BY <2>3 DEF BeginsAt, OfApp
    <3>5. QED
      BY <2>1, <2>3, <3>1, <3>2, <3>3, <3>4 DEF ChatInv, OfApp, TurnLabels
  <2>4. QED
    BY <1>4, <2>2, <2>3, AdmittedMoves
<1>5. CASE Brief(t)
  <2>1. /\ world'[t].brain = world[t].brain /\ world'[t].apps = world[t].apps
        /\ \/ chat'[t] = chat[t]
           \/ chat[t] = "free" /\ chat'[t] = "queued"
           \/ chat[t] = "turn" /\ chat'[t] = "free"
           \/ chat[t] = "free" /\ chat'[t] = "turn" /\ world[t].brain # NoBrain
    BY <1>5, BriefEffects, Zenon DEF BriefEffect
  <2>2. CASE StartCreate(t)
    <3>1. world[t].apps = {}
      BY <2>2, CreateBegins DEF ResidueInv, Clean
    <3>2. QED
      BY <1>5, <2>1, <2>2, <3>1, BriefMoves DEF ChatInv, OfApp
  <2>3. CASE ~StartCreate(t) /\ chat'[t] # "turn"
    BY <1>1, <1>5, <2>1, <2>3, BriefMoves DEF ChatInv, OfApp
  <2>4. CASE ~StartCreate(t) /\ chat[t] = "turn"
    BY <1>5, <2>1, <2>4, BriefMoves DEF ChatInv
  <2>5. CASE ~StartCreate(t) /\ chat'[t] = "turn" /\ chat[t] = "free" /\ world[t].brain # NoBrain
    <3>1. op[t].kind = "create" => world[t].apps = {}
      BY DEF ResidueInv
    <3>2. op[t].kind = "create" \/ pc[t] \in TurnLabels
      BY <1>1, <2>5 DEF ChatInv, OfApp, LabelsOf, TurnLabels
    <3>3. QED
      BY <1>5, <2>1, <2>5, <3>1, <3>2, BriefMoves DEF ChatInv, OfApp
  <2>6. QED
    BY <2>1, <2>2, <2>3, <2>4, <2>5
<1>6. QED
  BY <1>2, <1>3, <1>4, <1>5, StepKinds

\* Every step of a Team keeps what is said of what it has of its owner.
LEMMA ResidueStep ==
  ASSUME TypeOK, NEW t \in Team, RequestInv(t), RecordInv(t), BrainInv(t), ChatInv(t), ResidueInv(t), TeamStep(t)
  PROVE  ResidueInv(t)'
<1> DEFINE o == world[t]  n == world'[t]
<1>1. op[t].kind \in {"none", "create", "destroy", "install", "uninstall"} /\ pc[t] \in LabelsOf(op[t].kind)
  BY DEF TypeOK, RequestInv
<1>2. CASE Working(t)
  <2>1. Follows(t) /\ op'[t].kind = op[t].kind
    BY <1>2, WorkingFollows
  <2>2. BrainChanges(t) /\ RecordChanges(t) /\ DataChanges(t) /\ AppChanges(t) /\ NetChanges(t)
    BY <1>2, WorkingChanges DEF Changes
  <2>3. pc[t] \notin {"inference", "appContainer"} => n.data \subseteq o.data /\ n.kept \subseteq o.kept /\ n.apps \subseteq o.apps
    BY <2>2 DEF DataChanges, AppChanges
  <2>4. n.kept \subseteq o.kept
    BY <2>2 DEF DataChanges
  <2>5. pc[t] \notin {"inference", "appContainer"} /\ Clean(o) => Clean(n)
    BY <2>3 DEF Clean
  <2>6. pc[t] = "appContainer" => OfApp(op[t].kind)
    BY <1>1 DEF LabelsOf, Creating, OfApp
  <2>7. pc[t] = "inference" => op[t].kind = "create"
    BY <1>1 DEF LabelsOf
  <2>8. n.brain = NoBrain /\ n.record = NoRecord => Clean(n)
    <3>1. SUFFICES ASSUME n.brain = NoBrain, n.record = NoRecord
                   PROVE  Clean(n)
      OBVIOUS
    <3>2. CASE pc[t] = "finishRecord"
      <4>1. o.data = {} /\ o.apps = {}
        <5>1. o.data \subseteq {"journal", "file", "inference"}
          BY DEF TypeOK, World
        <5>2. QED
          BY <3>2, <5>1 DEF ResidueInv, FromStorage, FromInference, FromSecrets, FromAccounts, FromGrants, FromNetworks,
                            FromBrain
      <4>2. o.kept = {}
        <5>1. o.kept \subseteq {"secret", "account", "grant"} \X App
          BY DEF TypeOK, World, AppData
        <5>2. ~Kept(o, "secret") /\ ~Kept(o, "account") /\ ~Kept(o, "grant")
          BY <3>2 DEF ResidueInv, FromAccounts, FromGrants, FromNetworks, FromBrain
        <5>3. QED
          BY <5>1, <5>2 DEF Kept
      <4>3. QED
        BY <2>5, <3>2, <4>1, <4>2 DEF Clean
    <3>3. CASE pc[t] # "finishRecord"
      <4>1. o.brain = NoBrain /\ o.record = NoRecord
        BY <1>2, <3>1, <3>3, LostBefore
      <4>2. pc[t] \notin {"inference", "appContainer"}
        BY <2>6, <2>7, <4>1 DEF BrainInv
      <4>3. QED
        BY <2>5, <4>1, <4>2 DEF ResidueInv
    <3>4. QED
      BY <3>2, <3>3
  <2>9. op'[t].kind = "create" => n.data \subseteq {"inference"} /\ n.kept = {} /\ n.apps = {}
    <3>1. op[t].kind = "create" => pc[t] # "appContainer"
      BY <2>6 DEF OfApp
    <3>2. n.data \subseteq o.data \cup {"inference"} /\ (pc[t] # "appContainer" => n.apps \subseteq o.apps)
      BY <2>2 DEF DataChanges, AppChanges
    <3>3. QED
      BY <2>1, <2>4, <3>1, <3>2 DEF ResidueInv
  <2>10. pc[t] \in TeardownLabels => n.data \subseteq o.data /\ n.apps \subseteq o.apps
    BY <2>3
  <2>11. pc'[t] \in TeardownLabels => "journal" \notin n.data
    <3>1. CASE op[t].kind = "create"
      BY <2>1, <2>9, <3>1
    <3>2. CASE op[t].kind = "destroy"
      <4>1. pc'[t] \in TeardownLabels => pc[t] \in TeardownLabels \/ (pc[t] = "purge" /\ pc'[t] = "check")
        BY <1>1, <2>1, <3>2 DEF LabelsOf, Follows
      <4>2. pc[t] = "purge" /\ pc'[t] = "check" => "journal" \notin n.data
        BY <2>2 DEF DataChanges
      <4>3. QED
        BY <2>10, <4>1, <4>2 DEF ResidueInv
    <3>3. CASE op[t].kind \in {"none", "install", "uninstall"}
      BY <1>1, <2>1, <3>3 DEF LabelsOf, Follows
    <3>4. QED
      BY <1>1, <3>1, <3>2, <3>3
  <2>12. pc'[t] \in FromStorage => n.apps = {}
    <3>1. pc'[t] \in FromStorage => pc[t] \in FromStorage \/ (pc[t] = "apps" /\ pc'[t] = "storage")
      BY <2>1 DEF Follows, FromStorage, FromInference, FromSecrets, FromAccounts, FromGrants, FromNetworks, FromBrain
    <3>2. pc[t] \in FromStorage => n.apps = {}
      BY <2>10 DEF ResidueInv, FromStorage, FromInference, FromSecrets, FromAccounts, FromGrants, FromNetworks, FromBrain
    <3>3. QED
      BY <2>2, <3>1, <3>2 DEF AppChanges
  <2>13. pc'[t] \in FromInference => "file" \notin n.data
    <3>1. pc'[t] \in FromInference => pc[t] \in FromInference \/ (pc[t] = "storage" /\ pc'[t] = "forgetInference")
      BY <2>1 DEF Follows, FromInference, FromSecrets, FromAccounts, FromGrants, FromNetworks, FromBrain
    <3>2. pc[t] \in FromInference => "file" \notin n.data
      BY <2>10 DEF ResidueInv, FromInference, FromSecrets, FromAccounts, FromGrants, FromNetworks, FromBrain
    <3>3. QED
      BY <2>2, <3>1, <3>2 DEF DataChanges
  <2>14. pc'[t] \in FromSecrets => "inference" \notin n.data
    <3>1. pc'[t] \in FromSecrets => pc[t] \in FromSecrets \/ (pc[t] = "forgetInference" /\ pc'[t] = "secrets")
      BY <2>1 DEF Follows, FromSecrets, FromAccounts, FromGrants, FromNetworks, FromBrain
    <3>2. pc[t] \in FromSecrets => "inference" \notin n.data
      BY <2>10 DEF ResidueInv, FromSecrets, FromAccounts, FromGrants, FromNetworks, FromBrain
    <3>3. QED
      BY <2>2, <3>1, <3>2 DEF DataChanges
  <2>15. pc'[t] \in FromAccounts => ~Kept(n, "secret")
    <3>1. pc'[t] \in FromAccounts => pc[t] \in FromAccounts \/ (pc[t] = "secrets" /\ pc'[t] = "accounts")
      BY <2>1 DEF Follows, FromAccounts, FromGrants, FromNetworks, FromBrain
    <3>2. pc[t] \in FromAccounts => ~Kept(n, "secret")
      BY <2>4 DEF ResidueInv, Kept
    <3>3. QED
      BY <2>2, <3>1, <3>2 DEF DataChanges, Kept
  <2>16. pc'[t] \in FromGrants => ~Kept(n, "account")
    <3>1. pc'[t] \in FromGrants => pc[t] \in FromGrants \/ (pc[t] = "accounts" /\ pc'[t] = "grants")
      BY <2>1 DEF Follows, FromGrants, FromNetworks, FromBrain
    <3>2. pc[t] \in FromGrants => ~Kept(n, "account")
      BY <2>4 DEF ResidueInv, Kept
    <3>3. QED
      BY <2>2, <3>1, <3>2 DEF DataChanges, Kept
  <2>17. pc'[t] \in FromNetworks => ~Kept(n, "grant")
    <3>1. pc'[t] \in FromNetworks => pc[t] \in FromNetworks \/ (pc[t] = "grants" /\ pc'[t] = "networks")
      BY <2>1 DEF Follows, FromNetworks, FromBrain
    <3>2. pc[t] \in FromNetworks => ~Kept(n, "grant")
      BY <2>4 DEF ResidueInv, Kept
    <3>3. QED
      BY <2>2, <3>1, <3>2 DEF DataChanges, Kept
  <2>18. pc'[t] \in FromBrain => n.net = {}
    <3>1. pc'[t] \in FromBrain => pc[t] \in FromBrain \/ (pc[t] = "networks" /\ pc'[t] = "brain")
      BY <2>1 DEF Follows, FromBrain
    <3>2. pc[t] \in FromBrain => n.net = {}
      BY <2>2 DEF ResidueInv, NetChanges, FromBrain
    <3>3. QED
      BY <2>2, <3>1, <3>2 DEF NetChanges
  <2>19. QED
    BY <2>8, <2>9, <2>11, <2>12, <2>13, <2>14, <2>15, <2>16, <2>17, <2>18 DEF ResidueInv
<1>3. CASE pc'[t] \notin TeardownLabels /\ world' = world /\ (op'[t].kind = "create" => FALSE)
  BY <1>3 DEF ResidueInv, FromStorage, FromInference, FromSecrets, FromAccounts, FromGrants, FromNetworks, FromBrain
<1>4. CASE Finish(t)
  BY <1>3, <1>4, FinishMoves DEF NoOp
<1>5. CASE TakesLock(t)
  <2>1. CASE pc[t] = "idle" /\ pc'[t] = "idle" /\ op'[t] = op[t] /\ world' = world
    BY <2>1 DEF ResidueInv
  <2>2. CASE /\ op'[t] = [kind |-> queued[t].kind, app |-> queued[t].app, brain |-> queued[t].lease.brain]
             /\ BeginsAt(t, pc'[t]) /\ world' = world
    <3>1. op'[t].kind = queued[t].kind
      BY <2>2
    <3>2. QED
      BY <1>3, <2>2, <3>1 DEF BeginsAt
  <2>3. QED
    BY <1>5, <2>1, <2>2, AdmittedMoves
<1>6. CASE Brief(t)
  <2>1. /\ n.brain = o.brain /\ n.apps = o.apps /\ n.record = o.record
        /\ o.net = {} => n.net = {}
        /\ \/ n.data \subseteq o.data /\ n.kept \subseteq o.kept
           \/ pc[t] = "idle" /\ o.brain # NoBrain
           \/ chat[t] = "turn" /\ o.apps # {}
    BY <1>6, BriefEffects, Zenon DEF BriefEffect
  <2>2. CASE StartCreate(t)
    <3>1. o.brain = NoBrain /\ o.record = NoRecord
      BY <2>2, CreateBegins
    <3>2. Clean(n)
      <4>1. Clean(o)
        BY <3>1 DEF ResidueInv
      <4>2. n.data \subseteq o.data /\ n.kept \subseteq o.kept
        BY <2>1, <3>1, <4>1 DEF Clean
      <4>3. QED
        BY <2>1, <4>1, <4>2 DEF Clean
    <3>3. pc'[t] = "admit"
      BY <1>6, <2>2, BriefMoves
    <3>4. QED
      BY <3>2, <3>3 DEF ResidueInv, FromStorage, FromInference, FromSecrets, FromAccounts, FromGrants, FromNetworks,
                        FromBrain, Clean
  <2>3. CASE ~StartCreate(t)
    <3>1. pc'[t] = pc[t] /\ op'[t] = op[t]
      BY <1>6, <2>3, BriefMoves
    <3>2. CASE n.data \subseteq o.data /\ n.kept \subseteq o.kept
      BY <2>1, <3>1, <3>2 DEF ResidueInv, Clean, Kept
    <3>3. CASE (pc[t] = "idle" /\ o.brain # NoBrain) \/ (chat[t] = "turn" /\ o.apps # {})
      <4>1. pc[t] = "idle" => op[t].kind # "create"
        BY <1>1 DEF LabelsOf, Creating
      <4>2. o.brain # NoBrain /\ pc[t] \in TurnLabels /\ op[t].kind # "create"
        BY <3>3, <4>1 DEF ChatInv, TurnLabels
      <4>3. QED
        BY <2>1, <3>1, <4>2 DEF ResidueInv, FromStorage, FromInference, FromSecrets, FromAccounts, FromGrants,
                                FromNetworks, FromBrain, TurnLabels
    <3>4. QED
      BY <2>1, <3>2, <3>3
  <2>4. QED
    BY <2>2, <2>3
<1>7. QED
  BY <1>2, <1>4, <1>5, <1>6, StepKinds

\* An egress policy is there only with the container of its App.
EgressInv(t) ==
  LET w == world[t]
  IN  /\ \A a \in App : <<"hosts", a>> \in w.policy => a \in w.apps
      /\ pc[t] \in {"appAdmit", "appEgress"} => op[t].app \in w.apps
      /\ pc[t] = "app" => <<"hosts", op[t].app>> \notin w.policy

\* Every step of a Team keeps what is said of its egress policies.
LEMMA EgressStep ==
  ASSUME TypeOK, NEW t \in Team, RequestInv(t), RecordInv(t), EgressInv(t), TeamStep(t)
  PROVE  EgressInv(t)'
<1> DEFINE o == world[t]  n == world'[t]
<1>1. CASE Working(t)
  <2>1. Follows(t) /\ op'[t].app = op[t].app /\ AppChanges(t)
    BY <1>1, WorkingFollows, WorkingChanges DEF Changes
  <2>2. ASSUME NEW a \in App, <<"hosts", a>> \in n.policy
        PROVE  a \in n.apps
    <3>1. CASE <<"hosts", a>> \in o.policy
      <4>1. a \in o.apps
        BY <3>1 DEF EgressInv
      <4>2. CASE pc[t] = "apps"
        BY <2>1, <2>2, <4>1, <4>2 DEF AppChanges
      <4>3. CASE pc[t] = "app"
        BY <2>1, <2>2, <3>1, <4>1, <4>3 DEF AppChanges, EgressInv
      <4>4. CASE pc[t] \notin {"apps", "app"}
        BY <2>1, <4>1, <4>4 DEF AppChanges
      <4>5. QED
        BY <4>2, <4>3, <4>4
    <3>2. CASE <<"hosts", a>> \notin o.policy
      BY <2>1, <2>2, <3>2 DEF AppChanges, EgressInv
    <3>3. QED
      BY <3>1, <3>2
  <2>3. pc'[t] \in {"appAdmit", "appEgress"} => op[t].app \in n.apps
    <3>1. pc'[t] \in {"appAdmit", "appEgress"} => (pc[t] = "appContainer" /\ pc'[t] = "appAdmit") \/ pc[t] = "appAdmit"
      BY <2>1 DEF Follows
    <3>2. QED
      BY <2>1, <3>1 DEF AppChanges, EgressInv
  <2>4. pc'[t] = "app" => <<"hosts", op[t].app>> \notin n.policy
    <3>1. pc'[t] = "app" => pc[t] = "policy"
      BY <2>1 DEF Follows
    <3>2. QED
      BY <2>1, <3>1 DEF AppChanges
  <2>5. QED
    BY <2>1, <2>2, <2>3, <2>4 DEF EgressInv
<1>2. CASE pc'[t] \notin {"appAdmit", "appEgress", "app"} /\ n.policy = o.policy /\ n.apps = o.apps
  BY <1>2 DEF EgressInv
<1>3. CASE Finish(t)
  BY <1>2, <1>3, FinishMoves
<1>4. CASE TakesLock(t)
  <2>1. world' = world /\ (pc'[t] = "idle" \/ BeginsAt(t, pc'[t]))
    BY <1>4, AdmittedMoves
  <2>2. QED
    BY <1>2, <2>1 DEF BeginsAt
<1>5. CASE Brief(t)
  <2>1. n.policy = o.policy /\ n.apps = o.apps
    BY <1>5, BriefEffects DEF BriefEffect
  <2>2. CASE StartCreate(t)
    BY <1>2, <1>5, <2>1, <2>2, BriefMoves
  <2>3. CASE ~StartCreate(t)
    BY <1>5, <2>1, <2>3, BriefMoves DEF EgressInv
  <2>4. QED
    BY <2>2, <2>3
<1>6. QED
  BY <1>1, <1>3, <1>4, <1>5, StepKinds

\* What pg-driver has of a Team, by its cleanup record and where a teardown is.
PgInv(t) ==
  LET w == world[t]  r == w.pg
  IN  /\ w.record = NoRecord => r.principal = "none" \/ (r.principal = "active" /\ "team" \in r.registered)
      /\ "team" \in r.existing \ r.registered => r.principal = "none"
      /\ (w.record # NoRecord /\ w.record.dropped) \/ pc[t] \in {"mark", "finalize", "finishRecord"}
           => r.principal # "active" /\ r.registered = {} /\ "team" \notin r.existing
      /\ pc[t] = "finishRecord" => r.principal = "none" /\ ~w.token

\* The requests of pg-driver, field by field.
LEMMA RegistryMoves ==
  ASSUME NEW r \in Pg!Registry, NEW n
  PROVE  /\ n \in Pg!ProvisionOutcomes(r) =>
              \/ n = r
              \/ /\ "team" \in r.existing <=> "team" \in r.registered
                 /\ n.principal = r.principal /\ n.registered = r.registered
              \/ n.principal = "active" /\ n.registered = {"team"}
         /\ n \in Pg!DropTeamOutcomes(r) =>
              /\ n.existing \subseteq r.existing /\ n.registered \subseteq r.registered
              /\ n # r => r.principal # "none"
              /\ n.principal \in {r.principal, "retired"}
              /\ "team" \in n.existing \ n.registered => "team" \in r.existing \ r.registered
         /\ n = Pg!DropTeam(r) =>
              n.principal = "retired" /\ n.registered = {} /\ n.existing = r.existing \ r.registered
         /\ n = Pg!Finalize(r) =>
              n.principal = "none" /\ n.registered = r.registered /\ n.existing = r.existing \cap {"team"}
         /\ \A a \in App :
              /\ n \in Pg!CreateAppOutcomes(r, a) =>
                   /\ n.principal = r.principal /\ ("team" \in n.registered <=> "team" \in r.registered)
                   /\ "team" \in n.existing <=> "team" \in r.existing
              /\ n \in Pg!DropAppOutcomes(r, a) =>
                   /\ n.principal = r.principal /\ ("team" \in n.registered <=> "team" \in r.registered)
                   /\ "team" \in n.existing => "team" \in r.existing
<1>1. /\ r = [principal |-> r.principal, registered |-> r.registered, existing |-> r.existing, orphaned |-> r.orphaned]
      /\ r.existing \subseteq App \cup {"team"} /\ r.registered \subseteq App \cup {"team"}
  BY DEF Pg!Registry, Pg!Database
<1>2. "team" \notin App
  BY HostedAssumption
<1>3. n = Pg!DropTeam(r) =>
        n.principal = "retired" /\ n.registered = {} /\ n.existing = r.existing \ r.registered
  BY DEF Pg!Registry, Pg!DropTeam, Pg!RemoveDatabases, Pg!DropDatabases
<1>4. n = Pg!Finalize(r) =>
        n.principal = "none" /\ n.registered = r.registered /\ n.existing = r.existing \cap {"team"}
  BY DEF Pg!Registry, Pg!Finalize
<1>5. ASSUME n \in Pg!ProvisionOutcomes(r)
      PROVE  \/ n = r
             \/ /\ "team" \in r.existing <=> "team" \in r.registered
                /\ n.principal = r.principal /\ n.registered = r.registered
             \/ n.principal = "active" /\ n.registered = {"team"}
  <2>1. \/ n = r
        \/ Pg!MayProvision(r) /\ n = Pg!CreateDatabase(r, "team")
        \/ n = Pg!Provision(r)
    BY <1>5 DEF Pg!ProvisionOutcomes
  <2>2. CASE Pg!MayProvision(r) /\ n = Pg!CreateDatabase(r, "team")
    BY <2>2 DEF Pg!Registry, Pg!MayProvision, Pg!Creatable, Pg!CreateDatabase
  <2>3. CASE n = Pg!Provision(r)
    BY <2>3 DEF Pg!Registry, Pg!Provision, Pg!Register, Pg!CreateDatabase
  <2>4. QED
    BY <2>1, <2>2, <2>3
<1>6. ASSUME n \in Pg!DropTeamOutcomes(r)
      PROVE  /\ n.existing \subseteq r.existing /\ n.registered \subseteq r.registered
             /\ n # r => r.principal # "none"
             /\ n.principal \in {r.principal, "retired"}
             /\ "team" \in n.existing \ n.registered => "team" \in r.existing \ r.registered
  <2>1. \/ n = r
        \/ Pg!MayDropTeam(r) /\ n = Pg!DropTeam(r)
        \/ /\ Pg!MayDropTeam(r)
           /\ \E p \in (SUBSET r.registered) \X (SUBSET r.registered) :
                n = Pg!RemoveDatabases(Pg!DropDatabases(r, p[1] \cup p[2]), p[1])
    BY <1>6 DEF Pg!DropTeamOutcomes
  <2>2. CASE n = r
    BY <2>2
  <2>3. CASE Pg!MayDropTeam(r) /\ n = Pg!DropTeam(r)
    BY <1>3, <2>3 DEF Pg!MayDropTeam
  <2>4. CASE /\ Pg!MayDropTeam(r)
             /\ \E p \in (SUBSET r.registered) \X (SUBSET r.registered) :
                  n = Pg!RemoveDatabases(Pg!DropDatabases(r, p[1] \cup p[2]), p[1])
    <3>1. PICK p \in (SUBSET r.registered) \X (SUBSET r.registered) :
            n = Pg!RemoveDatabases(Pg!DropDatabases(r, p[1] \cup p[2]), p[1])
      BY <2>4
    <3>2. p[1] \subseteq r.registered /\ p[2] \subseteq r.registered
      OBVIOUS
    <3>3. /\ n.principal = r.principal /\ n.registered = r.registered \ p[1]
          /\ n.existing = r.existing \ (p[1] \cup p[2])
      BY <3>1 DEF Pg!Registry, Pg!RemoveDatabases, Pg!DropDatabases
    <3>4. QED
      BY <2>4, <3>2, <3>3 DEF Pg!MayDropTeam
  <2>5. QED
    BY <2>1, <2>2, <2>3, <2>4
<1>7. ASSUME NEW a \in App, n \in Pg!CreateAppOutcomes(r, a)
      PROVE  /\ n.principal = r.principal /\ ("team" \in n.registered <=> "team" \in r.registered)
             /\ "team" \in n.existing <=> "team" \in r.existing
  <2>1. n = r \/ n = Pg!CreateDatabase(r, a) \/ n = Pg!CreateApp(r, a)
    BY <1>7 DEF Pg!CreateAppOutcomes
  <2>2. CASE n = Pg!CreateDatabase(r, a)
    BY <1>2, <2>2 DEF Pg!Registry, Pg!CreateDatabase
  <2>3. CASE n = Pg!CreateApp(r, a)
    BY <1>2, <2>3 DEF Pg!Registry, Pg!CreateApp, Pg!CreateDatabase, Pg!AddDatabase
  <2>4. QED
    BY <2>1, <2>2, <2>3
<1>8. ASSUME NEW a \in App, n \in Pg!DropAppOutcomes(r, a)
      PROVE  /\ n.principal = r.principal /\ ("team" \in n.registered <=> "team" \in r.registered)
             /\ "team" \in n.existing => "team" \in r.existing
  <2>1. n = r \/ n = Pg!DropDatabases(r, {a} \cap r.registered) \/ n = Pg!DropApp(r, a)
    BY <1>8 DEF Pg!DropAppOutcomes
  <2>2. CASE n = Pg!DropDatabases(r, {a} \cap r.registered)
    BY <2>2 DEF Pg!Registry, Pg!DropDatabases
  <2>3. CASE n = Pg!DropApp(r, a)
    BY <1>2, <2>3 DEF Pg!Registry, Pg!DropApp, Pg!DropDatabases, Pg!RemoveDatabases
  <2>4. QED
    BY <2>1, <2>2, <2>3
<1>9. QED
  BY <1>3, <1>4, <1>5, <1>6, <1>7, <1>8

\* Every step of a Team keeps what is said of its databases.
LEMMA PgStep ==
  ASSUME TypeOK, NEW t \in Team, RequestInv(t), RecordInv(t), PgInv(t), TeamStep(t)
  PROVE  PgInv(t)'
<1> DEFINE o == world[t]  n == world'[t]  r == world[t].pg  s == world'[t].pg
<1>1. op[t].kind \in {"none", "create", "destroy", "install", "uninstall"} /\ pc[t] \in LabelsOf(op[t].kind)
  BY DEF TypeOK, RequestInv
<1>2. r \in Pg!Registry
  BY DEF TypeOK, World
<1>3. CASE Working(t)
  <2>1. Follows(t) /\ op'[t].kind = op[t].kind /\ RecordChanges(t) /\ PgChanges(t)
    BY <1>3, WorkingFollows, WorkingChanges DEF Changes
  <2> DEFINE begun == [brain |-> op[t].brain, dropped |-> FALSE]
             marked == [o.record EXCEPT !.dropped = TRUE]
  <2>2. \/ n.record = o.record
        \/ pc[t] \in {"anchor", "begin"} /\ o.record = NoRecord /\ n.record # NoRecord /\ ~n.record.dropped
        \/ pc[t] = "mark" /\ n.record # NoRecord /\ n.record.dropped
        \/ pc[t] = "finishRecord" /\ n.record = NoRecord
    <3>1. /\ begun # NoRecord /\ ~begun.dropped
          /\ o.record # NoRecord => marked # NoRecord /\ marked.dropped
      BY RecordsAreRecords
    <3>2. pc[t] = "mark" => o.record # NoRecord
      BY DEF RecordInv
    <3>3. \/ n.record = o.record
          \/ pc[t] \in {"anchor", "begin"} /\ o.record = NoRecord /\ n.record = begun
          \/ pc[t] = "mark" /\ n.record = marked
          \/ pc[t] = "finishRecord" /\ n.record = NoRecord
      BY <2>1, Zenon DEF RecordChanges
    <3> HIDE DEF begun, marked
    <3>4. QED
      BY <3>1, <3>2, <3>3
  <2> HIDE DEF begun, marked
  <2>3. pc'[t] = "mark" => pc[t] = "drop"
    BY <2>1 DEF Follows
  <2>4. pc'[t] = "finalize" => pc[t] \in {"drop", "mark"}
    BY <2>1 DEF Follows
  <2>5. pc'[t] = "finishRecord" => pc[t] = "finalize"
    BY <2>1 DEF Follows
  <2>6. CASE pc[t] = "provision"
    <3>1. o.record = NoRecord
      BY <1>1, <2>6 DEF LabelsOf, RecordInv, Creating
    <3>2. n.record = o.record /\ pc'[t] \notin {"mark", "finalize", "finishRecord"}
      BY <2>2, <2>3, <2>4, <2>5, <2>6
    <3>3. \/ s = r
          \/ /\ "team" \in r.existing <=> "team" \in r.registered
             /\ s.principal = r.principal /\ s.registered = r.registered
          \/ s.principal = "active" /\ s.registered = {"team"}
      BY <1>2, <2>1, <2>6, RegistryMoves DEF PgChanges
    <3>4. QED
      BY <3>1, <3>2, <3>3 DEF PgInv
  <2>7. CASE pc[t] = "drop"
    <3>1. n.record = o.record /\ o.record # NoRecord
      BY <2>2, <2>7 DEF RecordInv
    <3>2. /\ s.existing \subseteq r.existing /\ s.registered \subseteq r.registered
          /\ s # r => r.principal # "none"
          /\ s.principal \in {r.principal, "retired"}
          /\ "team" \in s.existing \ s.registered => "team" \in r.existing \ r.registered
      BY <1>2, <2>1, <2>7, RegistryMoves DEF PgChanges
    <3>3. pc'[t] = "mark" => s.principal = "retired" /\ s.registered = {} /\ s.existing = r.existing \ r.registered
                             /\ r.principal # "none"
      BY <1>2, <2>1, <2>7, RegistryMoves DEF PgChanges, Pg!MayDropTeam
    <3>4. pc'[t] = "finalize" => s = r /\ o.record.dropped
      BY <2>1, <2>7 DEF PgChanges
    <3>5. "team" \in s.existing \ s.registered => s.principal = "none"
      BY <3>2 DEF PgInv
    <3>6. (n.record # NoRecord /\ n.record.dropped) \/ pc'[t] \in {"mark", "finalize", "finishRecord"}
            => s.principal # "active" /\ s.registered = {} /\ "team" \notin s.existing
      <4>1. CASE o.record.dropped
        BY <3>1, <3>2, <4>1 DEF PgInv
      <4>2. CASE pc'[t] = "mark"
        BY <3>3, <4>2 DEF PgInv
      <4>3. QED
        BY <2>5, <2>7, <3>1, <3>4, <4>1, <4>2
    <3>7. QED
      BY <2>5, <2>7, <3>1, <3>5, <3>6 DEF PgInv
  <2>8. CASE pc[t] = "finalize"
    <3>1. n.record = o.record /\ o.record # NoRecord
      BY <2>2, <2>8 DEF RecordInv
    <3>2. s = r \/ (s.principal = "none" /\ s.registered = r.registered /\ s.existing = r.existing \cap {"team"})
      BY <1>2, <2>1, <2>8, RegistryMoves DEF PgChanges
    <3>3. pc'[t] = "finishRecord" => s.principal = "none" /\ ~n.token
      BY <1>2, <2>1, <2>8, RegistryMoves DEF PgChanges
    <3>4. r.principal # "active" /\ r.registered = {} /\ "team" \notin r.existing
      BY <2>8 DEF PgInv
    <3>5. QED
      BY <3>1, <3>2, <3>3, <3>4 DEF PgInv
  <2>9. CASE pc[t] \in {"appDatabase", "appDrop"}
    <3>1. OfApp(op[t].kind) /\ op[t].app \in App
      BY <1>1, <2>9 DEF LabelsOf, Creating, RequestInv, OfApp
    <3>2. o.record = NoRecord /\ n.record = o.record
      BY <2>2, <2>9, <3>1 DEF RecordInv
    <3>3. /\ s.principal = r.principal /\ ("team" \in s.registered <=> "team" \in r.registered)
          /\ "team" \in s.existing => "team" \in r.existing
      BY <1>2, <2>1, <2>9, <3>1, RegistryMoves DEF PgChanges
    <3>4. pc'[t] \notin {"mark", "finalize", "finishRecord"}
      BY <2>3, <2>4, <2>5, <2>9
    <3>5. QED
      BY <3>2, <3>3, <3>4 DEF PgInv
  <2>10. CASE pc[t] = "finishRecord"
    <3>1. s = r /\ n.token = o.token
      BY <2>1, <2>10 DEF PgChanges
    <3>2. pc'[t] = "finish"
      BY <2>1, <2>10 DEF Follows
    <3>3. QED
      BY <2>2, <2>10, <3>1, <3>2 DEF PgInv
  <2>11. CASE pc[t] \notin {"provision", "drop", "finalize", "appDatabase", "appDrop", "finishRecord"}
    <3>1. s = r
      BY <2>1, <2>11 DEF PgChanges
    <3>2. pc'[t] \in {"mark", "finishRecord"} => FALSE
      BY <2>3, <2>5, <2>11
    <3>3. pc'[t] = "finalize" => pc[t] = "mark"
      BY <2>4, <2>11
    <3>4. QED
      BY <2>2, <2>11, <3>1, <3>2, <3>3 DEF PgInv
  <2>12. QED
    BY <2>6, <2>7, <2>8, <2>9, <2>10, <2>11
<1>4. CASE /\ pc'[t] \notin {"mark", "finalize", "finishRecord"}
           /\ s = r /\ n.record = o.record
  BY <1>4 DEF PgInv
<1>5. CASE Finish(t)
  BY <1>4, <1>5, FinishMoves
<1>6. CASE TakesLock(t)
  <2>1. world' = world /\ (pc'[t] = "idle" \/ BeginsAt(t, pc'[t]))
    BY <1>6, AdmittedMoves
  <2>2. QED
    BY <1>4, <2>1 DEF BeginsAt
<1>7. CASE Brief(t)
  <2>1. s = r /\ n.record = o.record /\ n.token = o.token
    BY <1>7, BriefEffects DEF BriefEffect
  <2>2. CASE StartCreate(t)
    BY <1>4, <1>7, <2>1, <2>2, BriefMoves
  <2>3. CASE ~StartCreate(t)
    BY <1>7, <2>1, <2>3, BriefMoves DEF PgInv
  <2>4. QED
    BY <2>2, <2>3
<1>8. QED
  BY <1>3, <1>5, <1>6, <1>7, StepKinds

\* Pg-driver forgets databases only in drops, and these it has dropped.
LEMMA RegistryForgets ==
  ASSUME NEW r \in Pg!Registry, NEW n
  PROVE  /\ n \in Pg!ProvisionOutcomes(r) => n.registered \in {r.registered, {"team"}}
         /\ n \in Pg!DropTeamOutcomes(r) =>
              (r.registered \ n.registered) \cap n.existing = {} /\ n.orphaned = r.orphaned
         /\ n = Pg!Finalize(r) => n.registered = r.registered
         /\ \A a \in App :
              /\ n \in Pg!CreateAppOutcomes(r, a) => r.registered \subseteq n.registered
              /\ n \in Pg!DropAppOutcomes(r, a) =>
                   (r.registered \ n.registered) \cap n.existing = {} /\ n.orphaned = r.orphaned
<1>1. n \in Pg!ProvisionOutcomes(r) => n.registered \in {r.registered, {"team"}}
  <2>1. n \in Pg!ProvisionOutcomes(r) => n \in {r, Pg!CreateDatabase(r, "team"), Pg!Provision(r)}
    BY DEF Pg!ProvisionOutcomes
  <2>2. /\ Pg!CreateDatabase(r, "team").registered = r.registered
        /\ Pg!Provision(r).registered = {"team"}
    BY DEF Pg!Registry, Pg!Provision, Pg!Register, Pg!CreateDatabase
  <2>3. QED
    BY <2>1, <2>2
<1>2. ASSUME n \in Pg!DropTeamOutcomes(r)
      PROVE  (r.registered \ n.registered) \cap n.existing = {} /\ n.orphaned = r.orphaned
  <2>1. \/ n = r
        \/ n = Pg!DropTeam(r)
        \/ \E p \in (SUBSET r.registered) \X (SUBSET r.registered) :
             n = Pg!RemoveDatabases(Pg!DropDatabases(r, p[1] \cup p[2]), p[1])
    BY <1>2 DEF Pg!DropTeamOutcomes
  <2>2. CASE n = r
    BY <2>2
  <2>3. CASE n = Pg!DropTeam(r)
    <3>1. n.existing = r.existing \ r.registered /\ n.orphaned = r.orphaned
      BY <2>3 DEF Pg!Registry, Pg!DropTeam, Pg!RemoveDatabases, Pg!DropDatabases
    <3>2. QED
      BY <3>1
  <2>4. CASE \E p \in (SUBSET r.registered) \X (SUBSET r.registered) :
               n = Pg!RemoveDatabases(Pg!DropDatabases(r, p[1] \cup p[2]), p[1])
    <3>1. PICK p \in (SUBSET r.registered) \X (SUBSET r.registered) :
            n = Pg!RemoveDatabases(Pg!DropDatabases(r, p[1] \cup p[2]), p[1])
      BY <2>4
    <3>2. /\ n.registered = r.registered \ p[1] /\ n.orphaned = r.orphaned
          /\ n.existing = r.existing \ (p[1] \cup p[2])
      BY <3>1 DEF Pg!Registry, Pg!RemoveDatabases, Pg!DropDatabases
    <3>3. QED
      BY <3>2
  <2>5. QED
    BY <2>1, <2>2, <2>3, <2>4
<1>3. n = Pg!Finalize(r) => n.registered = r.registered
  BY DEF Pg!Registry, Pg!Finalize
<1>4. ASSUME NEW a \in App, n \in Pg!CreateAppOutcomes(r, a)
      PROVE  r.registered \subseteq n.registered
  <2>1. n = r \/ n = Pg!CreateDatabase(r, a) \/ n = Pg!CreateApp(r, a)
    BY <1>4 DEF Pg!CreateAppOutcomes
  <2>2. QED
    BY <2>1 DEF Pg!Registry, Pg!CreateApp, Pg!CreateDatabase, Pg!AddDatabase
<1>5. ASSUME NEW a \in App, n \in Pg!DropAppOutcomes(r, a)
      PROVE  (r.registered \ n.registered) \cap n.existing = {} /\ n.orphaned = r.orphaned
  <2>1. n = r \/ n = Pg!DropDatabases(r, {a} \cap r.registered) \/ n = Pg!DropApp(r, a)
    BY <1>5 DEF Pg!DropAppOutcomes
  <2>2. CASE n = Pg!DropDatabases(r, {a} \cap r.registered)
    BY <2>2 DEF Pg!Registry, Pg!DropDatabases
  <2>3. CASE n = Pg!DropApp(r, a)
    <3>1. /\ n.registered = r.registered \ {a} /\ n.existing = r.existing \ {a}
          /\ n.orphaned = r.orphaned
      BY <2>3 DEF Pg!Registry, Pg!DropApp, Pg!DropDatabases, Pg!RemoveDatabases
    <3>2. QED
      BY <3>1
  <2>4. QED
    BY <2>1, <2>2, <2>3
<1>6. QED
  BY <1>1, <1>2, <1>3, <1>4, <1>5

\* A Team without Brain and record has at most its own database registered: the
\* list that a provisioning replaces has no other.
RegisteredInv(t) ==
  LET w == world[t] IN w.brain = NoBrain /\ w.record = NoRecord => w.pg.registered \subseteq {"team"}

\* Every step of a Team keeps what is said of the registered databases.
LEMMA RegisteredStep ==
  ASSUME TypeOK, NEW t \in Team, RequestInv(t), RecordInv(t), BrainInv(t), PgInv(t), RegisteredInv(t), TeamStep(t)
  PROVE  RegisteredInv(t)'
<1> DEFINE o == world[t]  n == world'[t]
<1>1. op[t].kind \in {"none", "create", "destroy", "install", "uninstall"} /\ pc[t] \in LabelsOf(op[t].kind)
  BY DEF TypeOK, RequestInv
<1>2. CASE Working(t)
  <2>1. SUFFICES ASSUME n.brain = NoBrain, n.record = NoRecord
                 PROVE  n.pg.registered \subseteq {"team"}
    BY DEF RegisteredInv
  <2>2. PgChanges(t)
    BY <1>2, WorkingChanges DEF Changes
  <2>3. CASE pc[t] = "finishRecord"
    BY <2>2, <2>3 DEF PgChanges, PgInv
  <2>4. CASE pc[t] # "finishRecord"
    <3>1. o.brain = NoBrain /\ o.record = NoRecord
      BY <1>2, <2>1, <2>4, LostBefore
    <3>2. o.pg.registered \subseteq {"team"} /\ ~OfApp(op[t].kind)
      BY <3>1 DEF RegisteredInv, BrainInv
    <3>3. pc[t] \notin {"drop", "finalize", "appDatabase", "appDrop"}
      BY <1>1, <3>1, <3>2 DEF RecordInv, LabelsOf, Creating, OfApp
    <3>4. n.pg = o.pg \/ n.pg \in Pg!ProvisionOutcomes(o.pg)
      BY <2>2, <3>3 DEF PgChanges
    <3>5. o.pg \in Pg!Registry
      BY DEF TypeOK, World
    <3>6. QED
      BY <3>2, <3>4, <3>5, RegistryForgets
  <2>5. QED
    BY <2>3, <2>4
<1>3. CASE n.brain = o.brain /\ n.record = o.record /\ n.pg = o.pg
  BY <1>3 DEF RegisteredInv
<1>4. CASE Finish(t) \/ TakesLock(t)
  BY <1>3, <1>4, FinishMoves, AdmittedMoves
<1>5. CASE Brief(t)
  BY <1>3, <1>5, BriefEffects DEF BriefEffect
<1>6. QED
  BY <1>2, <1>4, <1>5, StepKinds

-----------------------------------------------------------------------------
(* Admission.                                                              *)

\* What a Team that adds memory to the host reads, reserves and forgets.
Admits(t) ==
  LET r == reading[t]  s == reading'[t]
  IN  \/ /\ pc[t] = "admit" /\ s = [reserved |-> reserved, teams |-> {}, used |-> {}]
         /\ fresh' = fresh \cup {t} /\ reserved' = reserved
      \/ /\ pc[t] = "count" /\ pc'[t] = "measure"
         /\ s = [r EXCEPT !.teams = Ledger!Brains(Containers) \ r.reserved]
         /\ fresh' = fresh /\ reserved' = reserved
      \/ /\ pc[t] = "measure" /\ pc'[t] = "commit"
         /\ s = [r EXCEPT !.used = Containers \ r.reserved]
         /\ fresh' = fresh /\ reserved' = reserved
      \/ /\ pc[t] = "commit" /\ pc'[t] \in {"admit", "finish"}
         /\ fresh' = fresh /\ reserved' = reserved
      \/ /\ pc[t] = "commit" /\ pc'[t] = "runtime" /\ t \in fresh
         /\ CapacityValid(KeyOf(t), r)
         /\ reserved' = reserved \cup {KeyOf(t)} /\ fresh' = {}
      \/ /\ pc[t] \in {"count", "measure", "runtime"}
         /\ pc'[t] \in {"finish", "provision", "appDatabase"}
         /\ s = r /\ fresh' = fresh /\ reserved' = reserved

\* It reads for itself.
LEMMA AdmissionMoves ==
  ASSUME TypeOK, NEW t \in Team, AdmissionStep(t) \/ InventoryFails(t)
  PROVE  Admits(t) /\ world'[t] = world[t] /\ (\A u \in Team \ {t} : reading'[u] = reading[u])
<1>1. world'[t] = world[t]
  BY AdmissionEffect
<1>2. CASE ReadReservations(t)
  BY <1>1, <1>2 DEF TypeOK, ReadReservations, Goto, Admits
<1>3. CASE CountTeams(t)
  BY <1>1, <1>3 DEF TypeOK, CountTeams, Goto, Admits
<1>4. CASE MeasureMemory(t)
  BY <1>1, <1>4 DEF TypeOK, MeasureMemory, Goto, Admits
<1>5. CASE Admit(t)
  <2>1. /\ pc[t] = "commit" /\ (\A u \in Team \ {t} : reading'[u] = reading[u])
        /\ \/ pc'[t] \in {"admit", "finish"} /\ fresh' = fresh /\ reserved' = reserved
           \/ /\ pc'[t] = "runtime" /\ t \in fresh /\ CapacityValid(KeyOf(t), reading[t])
              /\ reserved' = reserved \cup {KeyOf(t)} /\ fresh' = {}
    <3> HIDE DEF KeyOf, CapacityValid
    <3>1. QED
      BY <1>5 DEF TypeOK, Admit, Reserve, Goto
  <2>2. QED
    BY <1>1, <2>1 DEF Admits
<1>6. CASE CheckRuntime(t)
  <2>1. pc[t] = "runtime" /\ Tries(t, IF op[t].kind = "create" THEN "provision" ELSE "appDatabase")
    BY <1>6, Zenon DEF Tries, CheckRuntime
  <2>2. OnError(t) = "finish"
    BY <2>1 DEF OnError
  <2>3. QED
    BY <1>1, <2>1, <2>2, StepMoves DEF Admits
<1>7. CASE InventoryFails(t)
  BY <1>1, <1>7 DEF TypeOK, InventoryFails, Goto, admission, Admits
<1>8. QED
  BY <1>2, <1>3, <1>4, <1>5, <1>6, <1>7 DEF AdmissionStep

\* Only these steps read.
LEMMA OthersDoNotRead ==
  ASSUME TypeOK, NEW t \in Team, TeamStep(t), ~(AdmissionStep(t) \/ InventoryFails(t))
  PROVE  /\ reading' = reading /\ (~Finish(t) => reserved' = reserved /\ fresh' = fresh)
         /\ Working(t) => pc[t] \notin AdmissionLabels
<1>1. Working(t) => pc[t] \notin AdmissionLabels
  BY DEF Working, CreateStep, ProvisionTeam, CreateNetwork, WireDependencies, CreateBrain, StartBrain, SaveInference,
         DestroyStep, AnchorDestroy, FailStop, TakeChatLock, ChatLockTimesOut, DeleteThread, PurgeJournal,
         TeardownStep, CheckBrain, BeginTeardown, StopTeardownBrain, TeardownApps, TeardownStorage, TeardownInference,
         TeardownSecrets, TeardownAccounts, TeardownGrants, TeardownNetwork, RemoveBrain, DropDatabases, MarkDropped,
         FinalizeDrop, FinishRecord, InstallStep, RevokeGrants, CreateAppDatabase, ReserveEgress, CreateAppContainer,
         AdmitContract, ActivateEgress, StartApp, CommitInstall, RemovalStep, RemovePolicy, RemoveApp,
         DropAppDatabase, DeleteSecrets, DeleteAccounts, DeleteGrants
<1>2. CASE Working(t)
  BY <1>1, <1>2, WorkingFollows
<1>3. CASE Finish(t)
  BY <1>1, <1>3, FinishMoves
<1>4. CASE TakesLock(t)
  BY <1>1, <1>4, AdmittedMoves
<1>5. CASE Brief(t)
  BY <1>1, <1>5, BriefMoves DEF admission
<1>6. QED
  BY <1>2, <1>3, <1>4, <1>5, StepKinds

\* Every step of a Team keeps that there is a reading where it is used.
LEMMA ReadingStep ==
  ASSUME TypeOK, NEW t \in Team, ReadingInv(t), TeamStep(t)
  PROVE  ReadingInv(t)'
<1>1. CASE AdmissionStep(t) \/ InventoryFails(t)
  <2>1. Admits(t)
    BY <1>1, AdmissionMoves
  <2>2. pc[t] = "admit" => reading'[t] # NoReading
    <3>1. [reserved |-> reserved, teams |-> {}, used |-> {}] \in Reading
      BY DEF TypeOK, Reading
    <3>2. QED
      BY <2>1, <3>1, NoneAreNone DEF Admits
  <2>3. pc[t] \in {"count", "measure"} /\ pc'[t] \in {"measure", "commit"} => reading'[t] # NoReading
    <3>1. pc[t] \in {"count", "measure"} => reading[t] \in Reading
      BY DEF TypeOK, ReadingInv
    <3>2. Containers \subseteq Key
      BY ContainersTyped
    <3>3. ASSUME pc[t] = "count"
          PROVE  [reading[t] EXCEPT !.teams = Ledger!Brains(Containers) \ reading[t].reserved] \in Reading
      BY <3>1, <3>2, <3>3 DEF Reading, Ledger!Brains
    <3>4. ASSUME pc[t] = "measure"
          PROVE  [reading[t] EXCEPT !.used = Containers \ reading[t].reserved] \in Reading
      BY <3>1, <3>2, <3>4 DEF Reading
    <3>5. QED
      BY <2>1, <3>3, <3>4, NoneAreNone DEF Admits
  <2>4. QED
    BY <2>1, <2>2, <2>3 DEF ReadingInv, Admits
<1>2. CASE ~(AdmissionStep(t) \/ InventoryFails(t))
  <2>1. reading' = reading
    BY <1>2, OthersDoNotRead
  <2>2. pc'[t] \in {"count", "measure", "commit"} => pc[t] \in {"count", "measure", "commit"}
    <3>1. CASE Working(t)
      BY <1>2, <3>1, WorkingFollows, OthersDoNotRead DEF Follows
    <3>2. CASE Finish(t)
      BY <3>2, FinishMoves
    <3>3. CASE TakesLock(t)
      <4>1. pc'[t] = "idle" \/ BeginsAt(t, pc'[t])
        BY <3>3, AdmittedMoves
      <4>2. QED
        BY <4>1 DEF BeginsAt
    <3>4. CASE Brief(t)
      BY <3>4, BriefMoves
    <3>5. QED
      BY <3>1, <3>2, <3>3, <3>4, StepKinds
  <2>3. QED
    BY <2>1, <2>2 DEF ReadingInv
<1>3. QED
  BY <1>1, <1>2

\* Every step of a Team keeps the types.
LEMMA TeamTyped ==
  ASSUME TypeOK, NEW t \in Team, RequestInv(t), ReadingInv(t), RecordInv(t), TeamStep(t)
  PROVE  TypeOK'
<1>1. CASE AdmissionStep(t) \/ InventoryFails(t)
  BY <1>1, AdmissionTyped
<1>2. CASE CreateStep(t) \/ DestroyStep(t)
  BY <1>2, CreateTyped, DestroyTyped
<1>3. CASE TeardownStep(t) \/ InstallStep(t) \/ RemovalStep(t)
  BY <1>3, TeardownTyped, InstallTyped, RemovalTyped
<1>4. CASE \/ AuthorizeDestroy(t) \/ TakesLock(t) \/ Finish(t) \/ BeginTurn(t) \/ EndTurn(t)
           \/ \E a \in App : AuthorizeApp(t, a)
  BY <1>4, LocksTyped
<1>5. CASE \/ StartCreate(t) \/ RepeatCreate(t) \/ StopTeam(t) \/ StartTeam(t) \/ PutFile(t)
           \/ TurnStores(t) \/ Contaminate(t) \/ Evict(t)
           \/ \E a \in App : ReplaceSecrets(t, a)
  BY <1>5, ShortTyped
<1>6. QED
  BY <1>1, <1>2, <1>3, <1>4, <1>5 DEF TeamStep, OperationStep

-----------------------------------------------------------------------------
(* The inductive invariant, and the theorems that follow from it.          *)

TeamInv(t) ==
  /\ RequestInv(t) /\ ReadingInv(t) /\ RecordInv(t) /\ BrainInv(t)
  /\ ChatInv(t) /\ ResidueInv(t) /\ EgressInv(t) /\ PgInv(t) /\ RegisteredInv(t)

IInv == TypeOK /\ \A t \in Team : TeamInv(t)

\* A step is one of a Team, or the crash of the controller.
LEMMA NextSteps ==
  ASSUME Next
  PROVE  (\E t \in Team : TeamStep(t)) \/ Crash
BY DEF Next, TeamStep

\* Every step of a Team keeps its part of the invariant.
LEMMA OwnInv ==
  ASSUME TypeOK, NEW t \in Team, TeamInv(t), TeamStep(t)
  PROVE  TeamInv(t)'
BY RequestStep, ReadingStep, RecordStep, BrainStep, ChatStep, ResidueStep, EgressStep, PgStep, RegisteredStep
   DEF TeamInv

\* A step of another Team leaves it.
LEMMA OtherInv ==
  ASSUME TypeOK, NEW t \in Team, NEW u \in Team \ {t}, TeamInv(u), TeamStep(t)
  PROVE  TeamInv(u)'
<1>1. Same(u)
  BY OnlyTeam
<1>2. reading'[u] = reading[u]
  <2>1. CASE AdmissionStep(t) \/ InventoryFails(t)
    BY <2>1, AdmissionMoves
  <2>2. CASE ~(AdmissionStep(t) \/ InventoryFails(t))
    BY <2>2, OthersDoNotRead
  <2>3. QED
    BY <2>1, <2>2
<1>3. RequestInv(u)' /\ ReadingInv(u)' /\ RecordInv(u)' /\ BrainInv(u)'
  BY <1>1, <1>2 DEF TeamInv, Same, RequestInv, ReadingInv, RecordInv, BrainInv
<1>4. ChatInv(u)' /\ ResidueInv(u)' /\ EgressInv(u)' /\ PgInv(u)' /\ RegisteredInv(u)'
  BY <1>1 DEF TeamInv, Same, ChatInv, ResidueInv, EgressInv, PgInv, RegisteredInv
<1>5. QED
  BY <1>3, <1>4 DEF TeamInv

\* A controller that starts again has the Teams as they were, and no operation.
LEMMA CrashInv ==
  ASSUME TypeOK, NEW t \in Team, TeamInv(t), Crash
  PROVE  TeamInv(t)'
<1>1. /\ world' = world /\ op'[t] = NoOp /\ pc'[t] = "idle" /\ queued'[t] = NoRequest /\ chat'[t] = "free"
  BY DEF Crash
<1>2. NoOp.kind = "none"
  BY DEF NoOp
<1>3. RequestInv(t)' /\ ReadingInv(t)' /\ RecordInv(t)' /\ BrainInv(t)'
  BY <1>1, <1>2 DEF TeamInv, RequestInv, LabelsOf, OfApp, ReadingInv, RecordInv, Creating, BrainInv, Unborn
<1>4. ChatInv(t)' /\ EgressInv(t)' /\ PgInv(t)' /\ RegisteredInv(t)'
  BY <1>1, <1>2 DEF TeamInv, ChatInv, OfApp, EgressInv, PgInv, RegisteredInv
<1>5. ResidueInv(t)'
  BY <1>1, <1>2 DEF TeamInv, ResidueInv, FromStorage, FromInference, FromSecrets, FromAccounts, FromGrants,
                    FromNetworks, FromBrain
<1>6. QED
  BY <1>3, <1>4, <1>5 DEF TeamInv

\* The invariant holds at the start.
LEMMA InitInv == Init => IInv
<1> SUFFICES ASSUME Init PROVE IInv
  OBVIOUS
<1>1. EmptyWorld \in World
  BY DEF EmptyWorld, World, Pg!Unprovisioned, Pg!Registry, Pg!Database
<1>2. NoOp \in [kind : {"none", "create", "destroy", "install", "uninstall"},
                app : App \cup {NoApp}, brain : Brain \cup {NoBrain}]
  BY DEF NoOp
<1>3. TypeOK
  BY <1>1, <1>2, HostedAssumption DEF Init, TypeOK
<1>4. ASSUME NEW t \in Team PROVE TeamInv(t)
  <2>1. /\ world[t] = EmptyWorld /\ op[t] = NoOp /\ pc[t] = "idle" /\ queued[t] = NoRequest /\ chat[t] = "free"
    BY DEF Init
  <2>2. /\ NoOp.kind = "none" /\ ~EmptyWorld.up /\ EmptyWorld.data = {} /\ EmptyWorld.kept = {} /\ EmptyWorld.apps = {}
        /\ EmptyWorld.policy = {} /\ EmptyWorld.record = NoRecord
        /\ EmptyWorld.pg.principal = "none" /\ EmptyWorld.pg.registered = {}
    BY DEF NoOp, EmptyWorld, Pg!Unprovisioned
  <2>3. RequestInv(t) /\ ReadingInv(t) /\ RecordInv(t) /\ BrainInv(t)
    BY <2>1, <2>2 DEF RequestInv, LabelsOf, OfApp, ReadingInv, RecordInv, Creating, BrainInv, Unborn
  <2>4. ChatInv(t) /\ EgressInv(t) /\ PgInv(t) /\ RegisteredInv(t)
    BY <2>1, <2>2 DEF ChatInv, OfApp, EgressInv, PgInv, RegisteredInv
  <2>5. ResidueInv(t)
    BY <2>1, <2>2 DEF ResidueInv, Clean, FromStorage, FromInference, FromSecrets, FromAccounts, FromGrants,
                      FromNetworks, FromBrain
  <2>6. QED
    BY <2>3, <2>4, <2>5 DEF TeamInv
<1>5. QED
  BY <1>3, <1>4 DEF IInv

\* Every step keeps it.
LEMMA StepInv == IInv /\ [Next]_vars => IInv'
<1> SUFFICES ASSUME IInv, [Next]_vars
             PROVE  IInv'
  OBVIOUS
<1>1. ASSUME NEW t \in Team, TeamStep(t)
      PROVE  IInv'
  <2>1. TypeOK /\ \A u \in Team : TeamInv(u)
    BY DEF IInv
  <2>2. TypeOK'
    BY <1>1, <2>1, TeamTyped DEF TeamInv
  <2>3. ASSUME NEW u \in Team PROVE TeamInv(u)'
    <3>1. CASE u = t
      BY <1>1, <2>1, <3>1, OwnInv
    <3>2. CASE u # t
      BY <1>1, <2>1, <3>2, OtherInv
    <3>3. QED
      BY <3>1, <3>2
  <2>4. QED
    BY <2>2, <2>3 DEF IInv
<1>2. CASE Crash
  <2>1. TypeOK'
    BY <1>2, CrashTyped DEF IInv
  <2>2. \A u \in Team : TeamInv(u)'
    BY <1>2, CrashInv DEF IInv
  <2>3. QED
    BY <2>1, <2>2 DEF IInv
<1>3. CASE UNCHANGED vars
  <2>1. TypeOK'
    BY <1>3 DEF IInv, TypeOK, vars
  <2>2. ASSUME NEW u \in Team PROVE TeamInv(u)'
    <3>1. TeamInv(u)
      BY DEF IInv
    <3>2. RequestInv(u)' /\ ReadingInv(u)' /\ RecordInv(u)' /\ BrainInv(u)'
      BY <1>3, <3>1 DEF vars, TeamInv, RequestInv, ReadingInv, RecordInv, BrainInv
    <3>3. ChatInv(u)' /\ ResidueInv(u)' /\ EgressInv(u)' /\ PgInv(u)' /\ RegisteredInv(u)'
      BY <1>3, <3>1 DEF vars, TeamInv, ChatInv, ResidueInv, EgressInv, PgInv, RegisteredInv
    <3>4. QED
      BY <3>2, <3>3 DEF TeamInv
  <2>3. QED
    BY <2>1, <2>2 DEF IInv
<1>4. QED
  BY <1>1, <1>2, <1>3, NextSteps

\* Whatever the Teams do and wherever an operation fails or the controller dies,
\* the invariant holds.
THEOREM Invariance == Spec => []IInv
BY InitInv, StepInv, PTL DEF Spec

\* The types of the state.
THEOREM TypeCorrect == Spec => []TypeOK
<1>1. IInv => TypeOK
  BY DEF IInv
<1>2. QED
  BY <1>1, Invariance, PTL

\* A Team that its owner can no longer reach has nothing private left, however
\* its create, its destroys and their retries ended.
THEOREM NothingRemains == Spec => []NoBrainNoResidue
<1>1. IInv => NoBrainNoResidue
  <2> SUFFICES ASSUME IInv, NEW t \in Team, world[t].brain = NoBrain, world[t].record = NoRecord
               PROVE  /\ world[t].data = {} /\ world[t].kept = {} /\ world[t].apps = {}
                      /\ \A a \in App : <<"hosts", a>> \notin world[t].policy
    BY DEF NoBrainNoResidue
  <2>1. Clean(world[t])
    BY DEF IInv, TeamInv, ResidueInv
  <2>2. \A a \in App : <<"hosts", a>> \in world[t].policy => a \in world[t].apps
    BY DEF IInv, TeamInv, EgressInv
  <2>3. QED
    BY <2>1, <2>2 DEF Clean
<1>2. QED
  BY <1>1, Invariance, PTL

\* The proxy lets no App out that is not installed.
THEOREM EgressFollowsApps == Spec => []EgressOnlyWhileInstalled
<1>1. IInv => EgressOnlyWhileInstalled
  BY DEF IInv, TeamInv, EgressInv, EgressOnlyWhileInstalled
<1>2. QED
  BY <1>1, Invariance, PTL

\* No turn runs while a destroy or an uninstall deletes what it may store, and
\* where one runs beside the rollback of a create there is no App for it.
THEOREM TurnsAreExcluded == Spec => []TeardownExcludesTurns
<1>1. IInv => TeardownExcludesTurns
  <2> SUFFICES ASSUME IInv, NEW t \in Team, chat[t] = "turn",
                      pc[t] \in TeardownLabels \cup RemovalLabels \cup {"thread", "purge"}
               PROVE  op[t].kind = "create" /\ world[t].apps = {}
    BY DEF TeardownExcludesTurns
  <2>1. op[t].kind = "create" \/ pc[t] \in TurnLabels
    BY DEF IInv, TeamInv, ChatInv
  <2>2. pc[t] \notin TurnLabels
    BY DEF TurnLabels, TeardownLabels, RemovalLabels
  <2>3. QED
    BY <2>1, <2>2 DEF IInv, TeamInv, ChatInv
<1>2. QED
  BY <1>1, Invariance, PTL

\* What a step of a Team strips from its Brain, its operation is about.
LEMMA OwnStrips ==
  ASSUME TypeOK, NEW t \in Team, TeamInv(t), TeamStep(t), pc[t] # "idle", world[t].brain # NoBrain,
         Strips(world[t], world'[t])
  PROVE  op[t].brain = world[t].brain
<1> DEFINE o == world[t]  n == world'[t]
<1>1. op[t].kind \in {"none", "create", "destroy", "install", "uninstall"} /\ pc[t] \in LabelsOf(op[t].kind)
  BY DEF TypeOK, TeamInv, RequestInv
<1>2. CASE n = o
  BY <1>2 DEF Strips
<1>3. CASE Working(t)
  <2>1. BrainChanges(t) /\ DataChanges(t) /\ AppChanges(t) /\ PgChanges(t)
    BY <1>3, WorkingChanges DEF TeamInv, Changes
  <2>2. CASE op[t].kind = "create"
    <3>1. pc[t] \in Unborn => FALSE
      BY <2>2 DEF TeamInv, BrainInv
    <3>2. CASE pc[t] \in {"start", "inference", "check", "finish"}
      BY <2>1, <3>2 DEF BrainChanges, DataChanges, AppChanges, PgChanges, Strips
    <3>3. pc[t] \in TeardownLabels \ {"check"} => op[t].brain = o.brain
      BY <2>2 DEF TeamInv, BrainInv
    <3>4. QED
      BY <1>1, <2>2, <3>1, <3>2, <3>3 DEF LabelsOf, Creating, Unborn
  <2>3. CASE op[t].kind \in {"destroy", "install", "uninstall"}
    BY <2>3 DEF TeamInv, BrainInv, OfApp
  <2>4. CASE op[t].kind = "none"
    BY <1>1, <2>4 DEF LabelsOf
  <2>5. QED
    BY <1>1, <2>2, <2>3, <2>4
<1>4. CASE Finish(t)
  BY <1>2, <1>4, FinishMoves
<1>5. CASE TakesLock(t)
  BY <1>2, <1>5, AdmittedMoves
<1>6. CASE Brief(t)
  <2>1. /\ n.brain = o.brain /\ n.up = o.up /\ n.apps = o.apps /\ n.pg = o.pg
        /\ o.data \subseteq n.data /\ o.kept \subseteq n.kept
    BY <1>6, BriefEffects DEF BriefEffect
  <2>2. QED
    BY <2>1 DEF Strips
<1>7. QED
  BY <1>3, <1>4, <1>5, <1>6, StepKinds

\* An operation that waited does not touch a Team created anew meanwhile: what it
\* stops, strips or removes is what its request was about.
THEOREM OnlyItsOwnBrain == Spec => DestroysItsOwnBrain
<1> DEFINE A == \A t \in Team : pc[t] # "idle" /\ world[t].brain # NoBrain /\ Strips(world[t], world'[t])
                  => op[t].brain = world[t].brain
<1>1. IInv /\ [Next]_vars => [A]_vars
  <2> SUFFICES ASSUME IInv, Next, NEW u \in Team, pc[u] # "idle", world[u].brain # NoBrain,
                      Strips(world[u], world'[u])
               PROVE  op[u].brain = world[u].brain
    BY DEF A
  <2>1. world'[u] # world[u]
    BY DEF Strips
  <2>2. ~Crash
    BY <2>1 DEF Crash
  <2>3. PICK t \in Team : TeamStep(t)
    BY <2>2, NextSteps
  <2>4. t = u
    BY <2>1, <2>3, OnlyTeam DEF IInv, Same
  <2>5. QED
    BY <2>3, <2>4, OwnStrips DEF IInv
<1>2. QED
  BY <1>1, Invariance, PTL DEF Spec, DestroysItsOwnBrain

\* The record of a teardown goes with its last step.
LEMMA OwnRecordEnds ==
  ASSUME TypeOK, NEW t \in Team, TeamInv(t), TeamStep(t), world[t].record # NoRecord, world'[t].record = NoRecord
  PROVE  pc[t] = "finishRecord" /\ Working(t)
<1>1. CASE Working(t)
  <2>1. RecordChanges(t)
    BY <1>1, WorkingChanges DEF TeamInv, Changes
  <2>2. [world[t].record EXCEPT !.dropped = TRUE] # NoRecord
    BY RecordsAreRecords
  <2>3. QED
    BY <1>1, <2>1, <2>2, Zenon DEF RecordChanges
<1>2. CASE Finish(t)
  BY <1>2, FinishMoves
<1>3. CASE TakesLock(t)
  BY <1>3, AdmittedMoves
<1>4. CASE Brief(t)
  BY <1>4, BriefEffects DEF BriefEffect
<1>5. QED
  BY <1>1, <1>2, <1>3, <1>4, StepKinds

\* A cleanup record goes only when nothing of the Team is left on the host, and
\* nothing of it in Postgres that the registry had.
THEOREM RecordsOutliveTeams == Spec => RecordUntilGone
<1> DEFINE A == \A t \in Team : world[t].record # NoRecord /\ world'[t].record = NoRecord
                  => LET w == world'[t]
                     IN  /\ w.brain = NoBrain /\ w.apps = {} /\ w.net = {} /\ w.data = {} /\ w.kept = {}
                         /\ w.pg.principal = "none" /\ w.pg.registered = {} /\ "team" \notin w.pg.existing
                         /\ ~w.token
<1>1. IInv /\ [Next]_vars => [A]_vars
  <2> SUFFICES ASSUME IInv, Next, NEW u \in Team, world[u].record # NoRecord, world'[u].record = NoRecord
               PROVE  LET w == world'[u]
                      IN  /\ w.brain = NoBrain /\ w.apps = {} /\ w.net = {} /\ w.data = {} /\ w.kept = {}
                          /\ w.pg.principal = "none" /\ w.pg.registered = {} /\ "team" \notin w.pg.existing
                          /\ ~w.token
    BY DEF A
  <2> DEFINE o == world[u]  n == world'[u]
  <2>1. ~Crash
    BY DEF Crash
  <2>2. PICK t \in Team : TeamStep(t)
    BY <2>1, NextSteps
  <2>3. t = u
    BY <2>2, OnlyTeam DEF IInv, Same
  <2>4. TypeOK /\ TeamInv(u) /\ TeamStep(u)
    BY <2>2, <2>3 DEF IInv
  <2>5. pc[u] = "finishRecord" /\ Working(u)
    BY <2>4, OwnRecordEnds
  <2>6. BrainChanges(u) /\ DataChanges(u) /\ AppChanges(u) /\ NetChanges(u) /\ PgChanges(u)
    BY <2>4, <2>5, WorkingChanges DEF TeamInv, Changes
  <2>7. ResidueInv(u)' /\ PgInv(u) /\ BrainInv(u) /\ ResidueInv(u)
    BY <2>4, OwnInv DEF TeamInv
  <2>8. n.brain = NoBrain /\ n.net = {}
    BY <2>5, <2>6, <2>7 DEF BrainChanges, BrainInv, NetChanges, ResidueInv, FromBrain
  <2>9. n.data = {} /\ n.kept = {} /\ n.apps = {}
    BY <2>7, <2>8 DEF ResidueInv, Clean
  <2>10. n.pg.principal = "none" /\ n.pg.registered = {} /\ "team" \notin n.pg.existing /\ ~n.token
    BY <2>5, <2>6, <2>7 DEF PgChanges, PgInv
  <2>11. QED
    BY <2>8, <2>9, <2>10
<1>2. QED
  BY <1>1, Invariance, PTL DEF Spec, RecordUntilGone

\* What a step of a Team makes pg-driver forget is gone from Postgres.
LEMMA OwnForgotten ==
  ASSUME TypeOK, NEW t \in Team, TeamInv(t), TeamStep(t),
         NEW d \in world[t].pg.registered \ world'[t].pg.registered
  PROVE  d \notin world'[t].pg.existing \cup (world'[t].pg.orphaned \ world[t].pg.orphaned)
<1> DEFINE r == world[t].pg  s == world'[t].pg
<1>1. r \in Pg!Registry /\ s # r
  BY DEF TypeOK, World
<1>2. Working(t)
  <2>1. ~Finish(t) /\ ~TakesLock(t)
    BY <1>1, FinishMoves, AdmittedMoves
  <2>2. ~Brief(t)
    BY <1>1, BriefEffects DEF BriefEffect
  <2>3. QED
    BY <2>1, <2>2, StepKinds
<1>3. PgChanges(t)
  BY <1>2, WorkingChanges DEF TeamInv, Changes
<1>4. pc[t] \in LabelsOf(op[t].kind) /\ op[t].kind \in {"none", "create", "destroy", "install", "uninstall"}
  BY DEF TypeOK, TeamInv, RequestInv
<1>5. CASE pc[t] = "provision" /\ s \in Pg!ProvisionOutcomes(r)
  <2>1. op[t].kind = "create"
    BY <1>4, <1>5 DEF LabelsOf
  <2>2. world[t].brain = NoBrain /\ world[t].record = NoRecord
    BY <1>5, <2>1 DEF TeamInv, BrainInv, Unborn, RecordInv, Creating
  <2>3. r.registered \subseteq {"team"}
    BY <2>2 DEF TeamInv, RegisteredInv
  <2>4. QED
    BY <1>1, <1>5, <2>3, RegistryForgets
<1>6. CASE s \in Pg!DropTeamOutcomes(r) \/ s = Pg!Finalize(r)
  BY <1>1, <1>6, RegistryForgets
<1>7. CASE pc[t] \in {"appDatabase", "appDrop"}
           /\ s \in Pg!CreateAppOutcomes(r, op[t].app) \cup Pg!DropAppOutcomes(r, op[t].app)
  <2>1. op[t].app \in App
    BY <1>4, <1>7 DEF LabelsOf, Creating, TeamInv, RequestInv, OfApp
  <2>2. QED
    BY <1>1, <1>7, <2>1, RegistryForgets
<1>8. QED
  BY <1>1, <1>3, <1>5, <1>6, <1>7 DEF PgChanges

\* Whichever drop fails half-way, the registry loses no database that exists: what
\* a Team leaves in Postgres is what its registry did not have.
THEOREM ForgottenOnlyWhenGone == Spec => ForgottenWhenGone
<1> DEFINE A == \A t \in Team : \A d \in world[t].pg.registered \ world'[t].pg.registered :
                  d \notin world'[t].pg.existing \cup (world'[t].pg.orphaned \ world[t].pg.orphaned)
<1>1. IInv /\ [Next]_vars => [A]_vars
  <2> SUFFICES ASSUME IInv, Next, NEW u \in Team, NEW d \in world[u].pg.registered \ world'[u].pg.registered
               PROVE  d \notin world'[u].pg.existing \cup (world'[u].pg.orphaned \ world[u].pg.orphaned)
    BY DEF A
  <2>1. world'[u] # world[u]
    OBVIOUS
  <2>2. ~Crash
    BY <2>1 DEF Crash
  <2>3. PICK t \in Team : TeamStep(t)
    BY <2>2, NextSteps
  <2>4. t = u
    BY <2>1, <2>3, OnlyTeam DEF IInv, Same
  <2>5. QED
    BY <2>3, <2>4, OwnForgotten DEF IInv
<1>2. QED
  BY <1>1, Invariance, PTL DEF Spec, ForgottenWhenGone

-----------------------------------------------------------------------------
(* The memory of the host: sizes and weights of sets of keys.              *)

\* There are finitely many keys.
LEMMA KeysAreFinite == IsFiniteSet(Key)
<1>1. IsFiniteSet({"brain"} \cup App)
  BY HostedAssumption, FS_Singleton, FS_Union
<1>2. QED
  BY <1>1, HostedAssumption, FS_Product DEF Key, Workload

\* The ledger counts as this module does.
LEMMA CountsAgree ==
  ASSUME NEW S
  PROVE  Ledger!Cardinality(S) = Cardinality(S)
BY DEF Cardinality, Ledger!Cardinality

\* What the ledger asks of a set of keys.
LEMMA FitsMeans ==
  ASSUME NEW S
  PROVE  Ledger!Fits(S) <=>
           /\ Cardinality(Ledger!Brains(S)) <= TeamLimit
           /\ Ledger!MemoryOf(S) <= Memory
           /\ \A o \in Owner : /\ Cardinality(Ledger!Brains(Ledger!OwnedBy(o, S))) <= OwnerTeamLimit
                               /\ Ledger!MemoryOf(Ledger!OwnedBy(o, S)) <= OwnerMemory
BY CountsAgree DEF Ledger!Fits

\* The size of a set of keys, of a part of it and of a cover.
LEMMA Sizes ==
  ASSUME NEW S \in SUBSET Key
  PROVE  /\ IsFiniteSet(S) /\ Cardinality(S) \in Nat
         /\ \A T \in SUBSET S : Cardinality(T) <= Cardinality(S)
         /\ \A T \in SUBSET Key : Cardinality(S \cup T) <= Cardinality(S) + Cardinality(T)
<1>1. ASSUME NEW T \in SUBSET Key PROVE IsFiniteSet(T) /\ Cardinality(T) \in Nat
  BY KeysAreFinite, FS_Subset, FS_CardinalityType
<1>2. ASSUME NEW T \in SUBSET S PROVE Cardinality(T) <= Cardinality(S)
  BY <1>1, FS_Subset
<1>3. ASSUME NEW T \in SUBSET Key PROVE Cardinality(S \cup T) <= Cardinality(S) + Cardinality(T)
  <2>1. Cardinality(S \cup T) = Cardinality(S) + Cardinality(T) - Cardinality(S \cap T)
    BY <1>1, FS_Union
  <2>2. Cardinality(S) \in Nat /\ Cardinality(T) \in Nat /\ Cardinality(S \cap T) \in Nat
    BY <1>1
  <2>3. QED
    BY <2>1, <2>2
<1>4. QED
  BY <1>1, <1>2, <1>3

\* Multiplication by a size of container keeps order and sums.
LEMMA Multiples ==
  ASSUME NEW m \in Nat, NEW x \in Nat, NEW y \in Nat, NEW z \in Nat
  PROVE  /\ m * x \in Nat
         /\ x <= y => m * x <= m * y
         /\ x <= y + z => m * x <= m * y + m * z
<1>1. \A a, b \in Nat : m * a \in Nat /\ m * (a + b) = m * a + m * b
  OBVIOUS
<1>2. ASSUME NEW a \in Nat, NEW b \in Nat, a <= b PROVE m * a <= m * b
  <2>1. b - a \in Nat /\ b = a + (b - a)
    BY <1>2
  <2>2. m * b = m * a + m * (b - a) /\ m * (b - a) \in Nat
    BY <1>1, <2>1
  <2>3. QED
    BY <1>1, <2>2
<1>3. QED
  BY <1>1, <1>2

\* The limits are numbers.
LEMMA Limits ==
  /\ TeamLimit \in Nat /\ OwnerTeamLimit \in Nat /\ BrainMemory \in Nat /\ AppMemory \in Nat
  /\ Memory \in Nat /\ OwnerMemory \in Nat
BY HostedAssumption

\* The memory of a set of keys, of a part of it and of a cover.
LEMMA Weights ==
  ASSUME NEW S \in SUBSET Key
  PROVE  /\ Ledger!MemoryOf(S) \in Nat
         /\ \A T \in SUBSET S : Ledger!MemoryOf(T) <= Ledger!MemoryOf(S)
         /\ \A T \in SUBSET Key : Ledger!MemoryOf(S \cup T) <= Ledger!MemoryOf(S) + Ledger!MemoryOf(T)
<1> DEFINE B(T) == Ledger!Brains(T)  A(T) == T \ Ledger!Brains(T)
<1>1. ASSUME NEW T \in SUBSET Key PROVE B(T) \in SUBSET Key /\ A(T) \in SUBSET Key
  BY DEF Ledger!Brains
<1>2. ASSUME NEW T \in SUBSET Key
      PROVE  /\ Cardinality(B(T)) \in Nat /\ Cardinality(A(T)) \in Nat
             /\ Ledger!MemoryOf(T) = BrainMemory * Cardinality(B(T)) + AppMemory * Cardinality(A(T))
             /\ BrainMemory * Cardinality(B(T)) \in Nat /\ AppMemory * Cardinality(A(T)) \in Nat
  <2>1. Cardinality(B(T)) \in Nat /\ Cardinality(A(T)) \in Nat
    BY <1>1, Sizes
  <2>2. BrainMemory * Cardinality(B(T)) \in Nat /\ AppMemory * Cardinality(A(T)) \in Nat
    BY <2>1, Limits, Multiples
  <2>3. QED
    BY <2>1, <2>2, CountsAgree DEF Ledger!MemoryOf
<1>3. ASSUME NEW T \in SUBSET S
      PROVE  Ledger!MemoryOf(T) <= Ledger!MemoryOf(S)
  <2>1. B(T) \in SUBSET B(S) /\ A(T) \in SUBSET A(S)
    BY DEF Ledger!Brains
  <2>2. Cardinality(B(T)) <= Cardinality(B(S)) /\ Cardinality(A(T)) <= Cardinality(A(S))
    BY <1>1, <2>1, Sizes
  <2>3. /\ BrainMemory * Cardinality(B(T)) <= BrainMemory * Cardinality(B(S))
        /\ AppMemory * Cardinality(A(T)) <= AppMemory * Cardinality(A(S))
    <3>1. T \in SUBSET Key
      OBVIOUS
    <3>2. QED
      BY <1>2, <2>2, <3>1, Limits, Multiples
  <2>4. QED
    <3>1. T \in SUBSET Key
      OBVIOUS
    <3> HIDE DEF B, A
    <3>2. QED
      BY <1>2, <2>3, <3>1
<1>4. ASSUME NEW T \in SUBSET Key
      PROVE  Ledger!MemoryOf(S \cup T) <= Ledger!MemoryOf(S) + Ledger!MemoryOf(T)
  <2>1. B(S \cup T) = B(S) \cup B(T) /\ A(S \cup T) = A(S) \cup A(T)
    BY DEF Ledger!Brains
  <2>2. /\ Cardinality(B(S \cup T)) <= Cardinality(B(S)) + Cardinality(B(T))
        /\ Cardinality(A(S \cup T)) <= Cardinality(A(S)) + Cardinality(A(T))
    BY <1>1, <2>1, Sizes
  <2>3. S \cup T \in SUBSET Key
    OBVIOUS
  <2>4. /\ BrainMemory * Cardinality(B(S \cup T))
             <= BrainMemory * Cardinality(B(S)) + BrainMemory * Cardinality(B(T))
        /\ AppMemory * Cardinality(A(S \cup T))
             <= AppMemory * Cardinality(A(S)) + AppMemory * Cardinality(A(T))
    BY <1>2, <2>2, <2>3, Limits, Multiples
  <2> HIDE DEF B, A
  <2>5. QED
    BY <1>2, <2>3, <2>4
<1>5. Ledger!MemoryOf(S) \in Nat
  <2>1. S \in SUBSET Key
    OBVIOUS
  <2> HIDE DEF B, A
  <2>2. QED
    BY <1>2, <2>1
<1>6. QED
  BY <1>3, <1>4, <1>5

\* Fewer containers fit where more did.
LEMMA FewerFit ==
  ASSUME NEW S \in SUBSET Key, NEW T \in SUBSET S, Ledger!Fits(S)
  PROVE  Ledger!Fits(T)
<1>1. Cardinality(Ledger!Brains(T)) <= TeamLimit
  <2>1. Ledger!Brains(S) \in SUBSET Key /\ Ledger!Brains(T) \in SUBSET Ledger!Brains(S)
    BY DEF Ledger!Brains
  <2>2. Cardinality(Ledger!Brains(T)) <= Cardinality(Ledger!Brains(S)) /\ Cardinality(Ledger!Brains(S)) \in Nat
        /\ Cardinality(Ledger!Brains(T)) \in Nat
    BY <2>1, Sizes
  <2>3. QED
    BY <2>2, Limits, FitsMeans
<1>2. Ledger!MemoryOf(T) <= Memory
  <2>1. /\ Ledger!MemoryOf(T) <= Ledger!MemoryOf(S) /\ Ledger!MemoryOf(S) \in Nat
        /\ Ledger!MemoryOf(T) \in Nat
    BY Weights
  <2>2. QED
    BY <2>1, Limits, FitsMeans
<1>3. ASSUME NEW o \in Owner
      PROVE  /\ Cardinality(Ledger!Brains(Ledger!OwnedBy(o, T))) <= OwnerTeamLimit
             /\ Ledger!MemoryOf(Ledger!OwnedBy(o, T)) <= OwnerMemory
  <2> DEFINE P == Ledger!OwnedBy(o, S)  Q == Ledger!OwnedBy(o, T)
  <2>1. /\ P \in SUBSET Key /\ Q \in SUBSET P
        /\ Ledger!Brains(P) \in SUBSET Key /\ Ledger!Brains(Q) \in SUBSET Ledger!Brains(P)
    BY DEF Ledger!OwnedBy, Ledger!Brains
  <2>2. Cardinality(Ledger!Brains(P)) <= OwnerTeamLimit /\ Ledger!MemoryOf(P) <= OwnerMemory
    BY FitsMeans
  <2> HIDE DEF P, Q
  <2>3. /\ Cardinality(Ledger!Brains(Q)) <= Cardinality(Ledger!Brains(P))
        /\ Cardinality(Ledger!Brains(P)) \in Nat /\ Cardinality(Ledger!Brains(Q)) \in Nat
    BY <2>1, Sizes
  <2>4. /\ Ledger!MemoryOf(Q) <= Ledger!MemoryOf(P) /\ Ledger!MemoryOf(P) \in Nat
        /\ Ledger!MemoryOf(Q) \in Nat
    BY <2>1, Weights
  <2>5. Cardinality(Ledger!Brains(Q)) <= OwnerTeamLimit /\ Ledger!MemoryOf(Q) <= OwnerMemory
    BY <2>2, <2>3, <2>4, Limits
  <2>6. QED
    BY <2>5 DEF Q
<1>4. QED
  BY <1>1, <1>2, <1>3, FitsMeans

\* Where a key is admitted by a reading that covers what is held, all still fits.
LEMMA AdmittedFits ==
  ASSUME NEW H \in SUBSET Key, NEW r \in Reading, NEW k \in Key, Ledger!Fits(H), CapacityValid(k, r),
         H \subseteq r.used \cup r.reserved,
         k[2] = "brain" => Ledger!Brains(H) \subseteq r.teams \cup Ledger!Brains(r.reserved)
  PROVE  Ledger!Fits(H \cup {k})
<1> DEFINE own == OwnerOf[k[1]]  K == {k}
           B(S) == Ledger!Brains(S)
           O(o, S) == Ledger!OwnedBy(o, S)
           M(S) == Ledger!MemoryOf(S)
           N(S) == Cardinality(S)
<1>1. /\ r.used \in SUBSET Key /\ r.reserved \in SUBSET Key /\ r.teams \in SUBSET Key /\ K \in SUBSET Key
  BY DEF Reading
<1>2. ASSUME NEW S \in SUBSET Key
      PROVE  B(S) \in SUBSET Key /\ \A o : O(o, S) \in SUBSET Key /\ B(O(o, S)) \in SUBSET Key
  BY DEF Ledger!Brains, Ledger!OwnedBy
<1>3. H \cup K \in SUBSET Key
  BY <1>1
<1>4. /\ k[2] = "brain" => /\ N(r.teams) + N(B(r.reserved)) < TeamLimit
                           /\ N(O(own, r.teams)) + N(B(O(own, r.reserved))) < OwnerTeamLimit
      /\ M(r.used) + M(r.reserved) + M(K) <= Memory
      /\ M(O(own, r.used)) + M(O(own, r.reserved)) + M(K) <= OwnerMemory
  BY DEF CapacityValid
<1>5. /\ N(B(H)) <= TeamLimit /\ M(H) <= Memory
      /\ \A o \in Owner : N(B(O(o, H))) <= OwnerTeamLimit /\ M(O(o, H)) <= OwnerMemory
  BY FitsMeans
<1>6. N(K) = 1
  BY FS_Singleton
<1>7. \A S, T \in SUBSET Key : N(S \cup T) <= N(S) + N(T) /\ N(S) \in Nat /\ N(T) \in Nat
  BY Sizes
<1>8. \A S, T \in SUBSET Key : M(S \cup T) <= M(S) + M(T) /\ M(S) \in Nat /\ M(T) \in Nat
  BY Weights
<1>9. ASSUME NEW S \in SUBSET Key, NEW T \in SUBSET S PROVE N(T) <= N(S) /\ M(T) <= M(S)
  BY Sizes, Weights
<1>10. N(B(H \cup K)) <= TeamLimit
  <2>1. CASE k[2] # "brain"
    <3>1. B(H \cup K) = B(H)
      BY <2>1 DEF Ledger!Brains
    <3>2. QED
      BY <1>5, <3>1
  <2>2. CASE k[2] = "brain"
    <3> DEFINE U == r.teams \cup B(r.reserved)
    <3>1. B(H \cup K) \subseteq U \cup K /\ U \in SUBSET Key
      BY <1>1, <2>2 DEF Ledger!Brains
    <3>2. N(B(H \cup K)) <= N(U \cup K) /\ N(U \cup K) <= N(U) + 1 /\ N(U) <= N(r.teams) + N(B(r.reserved))
      <4>1. U \cup K \in SUBSET Key
        BY <1>1, <3>1
      <4>2. B(r.reserved) \in SUBSET Key
        BY <1>1, <1>2
      <4> HIDE DEF B, N, K
      <4>3. N(B(H \cup K)) <= N(U \cup K)
        BY <1>9, <3>1, <4>1
      <4>4. N(U \cup K) <= N(U) + 1
        BY <1>1, <1>6, <1>7, <3>1
      <4>5. N(U) <= N(r.teams) + N(B(r.reserved))
        BY <1>1, <1>7, <4>2
      <4>6. QED
        BY <4>3, <4>4, <4>5
    <3>3. /\ N(B(H \cup K)) \in Nat /\ N(U \cup K) \in Nat /\ N(U) \in Nat
          /\ N(r.teams) \in Nat /\ N(B(r.reserved)) \in Nat
      <4>1. B(H \cup K) \in SUBSET Key /\ U \cup K \in SUBSET Key /\ B(r.reserved) \in SUBSET Key
        BY <1>1, <1>2, <1>3, <3>1
      <4> HIDE DEF B, N, K
      <4>2. QED
        BY <1>1, <1>7, <3>1, <4>1
    <3> HIDE DEF B, N, U, K
    <3>4. QED
      BY <1>4, <2>2, <3>2, <3>3, Limits
  <2>3. QED
    BY <2>1, <2>2
<1>11. M(H \cup K) <= Memory
  <2>1. H \cup K \subseteq (r.used \cup r.reserved) \cup K
    OBVIOUS
  <2>2. r.used \cup r.reserved \in SUBSET Key /\ (r.used \cup r.reserved) \cup K \in SUBSET Key
    BY <1>1
  <2> DEFINE U == r.used \cup r.reserved
  <2> HIDE DEF M, K
  <2>3. M(H \cup K) <= M(U \cup K) /\ M(U \cup K) <= M(U) + M(K) /\ M(U) <= M(r.used) + M(r.reserved)
    BY <1>1, <1>8, <1>9, <2>1, <2>2
  <2>4. /\ M(H \cup K) \in Nat /\ M(U \cup K) \in Nat /\ M(U) \in Nat /\ M(K) \in Nat
        /\ M(r.used) \in Nat /\ M(r.reserved) \in Nat
    BY <1>1, <1>3, <1>8, <2>2
  <2> HIDE DEF U
  <2>5. QED
    BY <1>4, <2>3, <2>4, Limits
<1>12. ASSUME NEW o \in Owner, o # own
       PROVE  N(B(O(o, H \cup K))) <= OwnerTeamLimit /\ M(O(o, H \cup K)) <= OwnerMemory
  <2>1. O(o, H \cup K) = O(o, H)
    BY <1>12 DEF Ledger!OwnedBy
  <2>2. QED
    BY <1>5, <2>1
<1>13. N(B(O(own, H \cup K))) <= OwnerTeamLimit
  <2>1. CASE k[2] # "brain"
    <3>1. B(O(own, H \cup K)) = B(O(own, H))
      BY <2>1 DEF Ledger!Brains, Ledger!OwnedBy
    <3>2. own \in Owner
      BY HostedAssumption DEF Key
    <3>3. QED
      BY <1>5, <3>1, <3>2
  <2>2. CASE k[2] = "brain"
    <3> DEFINE P == O(own, r.teams)  Q == B(O(own, r.reserved))  U == P \cup Q
    <3>1. B(O(own, H \cup K)) \subseteq U \cup K /\ P \in SUBSET Key /\ Q \in SUBSET Key
      BY <1>1, <2>2 DEF Ledger!Brains, Ledger!OwnedBy
    <3>2. B(O(own, H \cup K)) \in SUBSET Key
      BY <1>2, <1>3
    <3> DEFINE X == B(O(own, H \cup K))
    <3>3. N(P) + N(Q) < OwnerTeamLimit
      BY <1>4, <2>2
    <3> HIDE DEF P, Q, X, N, K
    <3>4. X \subseteq U \cup K /\ X \in SUBSET Key /\ U \in SUBSET Key /\ U \cup K \in SUBSET Key
      BY <1>1, <3>1, <3>2 DEF X
    <3>5. N(X) <= N(U \cup K) /\ N(U \cup K) <= N(U) + 1 /\ N(U) <= N(P) + N(Q)
      BY <1>1, <1>6, <1>7, <1>9, <3>1, <3>4
    <3>6. N(X) \in Nat /\ N(U \cup K) \in Nat /\ N(U) \in Nat /\ N(P) \in Nat /\ N(Q) \in Nat
      BY <1>7, <3>1, <3>4
    <3> HIDE DEF U
    <3>7. N(X) <= OwnerTeamLimit
      BY <3>3, <3>5, <3>6, Limits
    <3>8. QED
      BY <3>7 DEF X
  <2>3. QED
    BY <2>1, <2>2
<1>14. M(O(own, H \cup K)) <= OwnerMemory
  <2> DEFINE P == O(own, r.used)  Q == O(own, r.reserved)  U == P \cup Q  X == O(own, H \cup K)
  <2>1. X \subseteq U \cup K /\ P \in SUBSET Key /\ Q \in SUBSET Key
    BY <1>1 DEF Ledger!OwnedBy
  <2>2. X \in SUBSET Key
    BY <1>2, <1>3
  <2>3. M(P) + M(Q) + M(K) <= OwnerMemory
    BY <1>4
  <2> HIDE DEF P, Q, X, M, K
  <2>4. U \in SUBSET Key /\ U \cup K \in SUBSET Key
    BY <1>1, <2>1
  <2>5. M(X) <= M(U \cup K) /\ M(U \cup K) <= M(U) + M(K) /\ M(U) <= M(P) + M(Q)
    BY <1>1, <1>8, <1>9, <2>1, <2>2, <2>4
  <2>6. M(X) \in Nat /\ M(U \cup K) \in Nat /\ M(U) \in Nat /\ M(P) \in Nat /\ M(Q) \in Nat /\ M(K) \in Nat
    BY <1>1, <1>8, <2>1, <2>2, <2>4
  <2> HIDE DEF U
  <2>7. M(X) <= OwnerMemory
    BY <2>3, <2>5, <2>6, Limits
  <2>8. QED
    BY <2>7 DEF X
<1>15. QED
  BY <1>10, <1>11, <1>12, <1>13, <1>14, FitsMeans

-----------------------------------------------------------------------------
(* Admission implements the ledger.                                        *)

\* What is made is reserved first, and a fresh reading knows of all that is held.
ReservationInv(t) ==
  LET r == reading[t]
  IN  /\ pc[t] \in {"runtime"} \cup CreateBody \cup InstallBody => KeyOf(t) \in reserved
      /\ t \in fresh =>
           /\ pc[t] \in {"count", "measure", "commit"} => r.reserved = reserved
           /\ op[t].kind = "create" /\ pc[t] \in {"measure", "commit"}
                => Ledger!Brains(Containers) \ reserved \subseteq r.teams
           /\ pc[t] = "commit" => Containers \ reserved \subseteq r.used

\* The containers of the host before and after a step of a Team.
LEMMA ContainersMove ==
  ASSUME TypeOK, NEW t \in Team, RequestInv(t), RecordInv(t), ReservationInv(t), TeamStep(t)
  PROVE  /\ Containers' \subseteq Containers \cup reserved
         /\ ~Working(t) => Containers' = Containers
         /\ world'[t] = world[t] => Containers' = Containers
<1>1. \A u \in Team \ {t} : world'[u] = world[u]
  BY OnlyTeam DEF Same
<1>2. ASSUME world'[t].brain = world[t].brain, world'[t].apps = world[t].apps
      PROVE  Containers' = Containers
  <2>1. ASSUME NEW k \in Key
        PROVE  world'[k[1]].brain = world[k[1]].brain /\ world'[k[1]].apps = world[k[1]].apps
    <3>1. k[1] \in Team
      BY DEF Key
    <3>2. QED
      BY <1>1, <1>2, <3>1
  <2>2. QED
    BY <2>1 DEF Containers
<1>3. ~Working(t) => world'[t].brain = world[t].brain /\ world'[t].apps = world[t].apps
  BY StepKinds, FinishMoves, AdmittedMoves, BriefEffects DEF BriefEffect
<1>4. ASSUME Working(t)
      PROVE  Containers' \subseteq Containers \cup reserved
  <2>1. BrainChanges(t) /\ AppChanges(t)
    BY <1>4, WorkingChanges DEF Changes
  <2>2. op[t].kind \in {"none", "create", "destroy", "install", "uninstall"} /\ pc[t] \in LabelsOf(op[t].kind)
    BY DEF TypeOK, RequestInv
  <2>3. pc[t] = "container" => <<t, "brain">> \in reserved
    <3>1. pc[t] = "container" => op[t].kind = "create"
      BY <2>2 DEF LabelsOf
    <3>2. QED
      BY <3>1 DEF ReservationInv, KeyOf
  <2>4. pc[t] = "appContainer" => <<t, op[t].app>> \in reserved
    <3>1. pc[t] = "appContainer" => op[t].kind = "install"
      BY <2>2 DEF LabelsOf, Creating
    <3>2. QED
      BY <3>1 DEF ReservationInv, KeyOf
  <2>5. ASSUME NEW k \in Containers', k[1] # t
        PROVE  k \in Containers
    <3>1. k \in Key /\ k[1] \in Team
      BY DEF Containers, Key
    <3>2. QED
      BY <1>1, <2>5, <3>1 DEF Containers
  <2>6. ASSUME NEW k \in Containers', k[1] = t
        PROVE  k \in Containers \cup reserved
    <3>1. k \in Key /\ k = <<t, k[2]>>
      BY <2>6 DEF Containers, Key
    <3>2. CASE k[2] = "brain"
      <4>1. world'[t].brain # NoBrain
        BY <2>6, <3>2 DEF Containers
      <4>2. world[t].brain # NoBrain \/ pc[t] = "container"
        BY <2>1, <4>1 DEF BrainChanges
      <4>3. QED
        BY <2>3, <2>6, <3>1, <3>2, <4>2 DEF Containers
    <3>3. CASE k[2] # "brain"
      <4>1. k[2] \in world'[t].apps
        BY <2>6, <3>3 DEF Containers
      <4>2. k[2] \in world[t].apps \/ (pc[t] = "appContainer" /\ k[2] = op[t].app)
        BY <2>1, <4>1 DEF AppChanges
      <4>3. QED
        BY <2>4, <2>6, <3>1, <3>3, <4>2 DEF Containers
    <3>4. QED
      BY <3>2, <3>3
  <2>7. QED
    BY <2>5, <2>6
<1>5. QED
  BY <1>2, <1>3, <1>4

\* The reservations before and after a step of a Team: none changes but by the
\* answer of an operation or by an admission, after which no reading is fresh.
LEMMA ReservationsMove ==
  ASSUME TypeOK, NEW t \in Team, RequestInv(t), RecordInv(t), ReservationInv(t), TeamStep(t)
  PROVE  \/ /\ reserved' = reserved /\ fresh' \subseteq fresh \cup {t}
            /\ t \in fresh' => t \in fresh \/ pc[t] = "admit"
            /\ Containers' \subseteq Containers \cup reserved
         \/ /\ pc[t] = "finish" /\ pc'[t] = "idle" /\ Containers' = Containers
            /\ reserved' = reserved \ {KeyOf(t)} /\ fresh' = {}
         \/ /\ pc[t] = "commit" /\ pc'[t] = "runtime" /\ Containers' = Containers
            /\ t \in fresh /\ CapacityValid(KeyOf(t), reading[t])
            /\ reserved' = reserved \cup {KeyOf(t)} /\ fresh' = {}
            /\ op'[t] = op[t]
<1>1. CASE AdmissionStep(t) \/ InventoryFails(t)
  <2>1. Admits(t) /\ Containers' = Containers
    BY <1>1, AdmissionMoves, ContainersMove
  <2>2. pc[t] \in AdmissionLabels /\ op'[t] = op[t]
    BY <1>1, AdmissionEffect, WorkingFollows DEF Working
  <2>3. QED
    BY <2>1, <2>2 DEF Admits
<1>2. CASE Finish(t)
  <2>1. world' = world /\ pc[t] = "finish" /\ pc'[t] = "idle"
    BY <1>2, FinishMoves
  <2>2. Containers' = Containers
    BY <2>1, ContainersMove
  <2>3. \/ reserved' = reserved \ {KeyOf(t)} /\ fresh' = {}
        \/ reserved' = reserved /\ fresh' = fresh
    BY <1>2 DEF Finish
  <2>4. QED
    BY <2>1, <2>2, <2>3
<1>3. CASE ~(AdmissionStep(t) \/ InventoryFails(t)) /\ ~Finish(t)
  BY <1>3, OthersDoNotRead, ContainersMove
<1>4. QED
  BY <1>1, <1>2, <1>3

\* What stays of a Team that stays where it is.
LEMMA ReservationStays ==
  ASSUME NEW u \in Team, ReservationInv(u),
         pc'[u] = pc[u], op'[u].kind = op[u].kind, op'[u].app = op[u].app, reading'[u] = reading[u],
         KeyOf(u) \in reserved => KeyOf(u) \in reserved',
         u \in fresh' => u \in fresh /\ reserved' = reserved /\ Containers' \subseteq Containers \cup reserved
  PROVE  ReservationInv(u)'
<1>1. KeyOf(u)' = KeyOf(u)
  BY DEF KeyOf
<1>2. pc'[u] \in {"runtime"} \cup CreateBody \cup InstallBody => KeyOf(u)' \in reserved'
  BY <1>1 DEF ReservationInv
<1>3. ASSUME u \in fresh'
      PROVE  /\ pc'[u] \in {"count", "measure", "commit"} => reading'[u].reserved = reserved'
             /\ op'[u].kind = "create" /\ pc'[u] \in {"measure", "commit"}
                  => (Ledger!Brains(Containers))' \ reserved' \subseteq reading'[u].teams
             /\ pc'[u] = "commit" => Containers' \ reserved' \subseteq reading'[u].used
  <2>1. (Ledger!Brains(Containers))' \ reserved' \subseteq Ledger!Brains(Containers) \ reserved
    BY <1>3 DEF Ledger!Brains
  <2>2. Containers' \ reserved' \subseteq Containers \ reserved
    BY <1>3
  <2>3. QED
    BY <1>3, <2>1, <2>2 DEF ReservationInv
<1>4. QED
  BY <1>2, <1>3 DEF ReservationInv

\* A step of a Team keeps what is said of another's reservation.
LEMMA OtherReservation ==
  ASSUME TypeOK, NEW t \in Team, NEW u \in Team \ {t}, RequestInv(t), RecordInv(t),
         ReservationInv(t), ReservationInv(u), TeamStep(t)
  PROVE  ReservationInv(u)'
<1>1. pc'[u] = pc[u] /\ op'[u] = op[u]
  BY OnlyTeam DEF Same
<1>2. reading'[u] = reading[u]
  <2>1. CASE AdmissionStep(t) \/ InventoryFails(t)
    BY <2>1, AdmissionMoves
  <2>2. CASE ~(AdmissionStep(t) \/ InventoryFails(t))
    BY <2>2, OthersDoNotRead
  <2>3. QED
    BY <2>1, <2>2
<1>3. KeyOf(u) # KeyOf(t)
  BY DEF KeyOf
<1>4. /\ KeyOf(u) \in reserved => KeyOf(u) \in reserved'
      /\ u \in fresh' => u \in fresh /\ reserved' = reserved /\ Containers' \subseteq Containers \cup reserved
  <2> HIDE DEF KeyOf
  <2>1. QED
    BY <1>3, ReservationsMove
<1>5. QED
  BY <1>1, <1>2, <1>4, ReservationStays

\* And of its own.
LEMMA OwnReservation ==
  ASSUME TypeOK, NEW t \in Team, RequestInv(t), ReadingInv(t), RecordInv(t), ReservationInv(t), TeamStep(t)
  PROVE  ReservationInv(t)'
<1>1. CASE pc'[t] \notin {"count", "measure", "commit", "runtime"} \cup CreateBody \cup InstallBody
  BY <1>1 DEF ReservationInv
<1>2. CASE AdmissionStep(t) \/ InventoryFails(t)
  <2>1. Admits(t) /\ Containers' = Containers
    BY <1>2, AdmissionMoves, ContainersMove
  <2>2. Follows(t) /\ pc[t] \in AdmissionLabels /\ op'[t] = op[t]
    BY <1>2, WorkingFollows, AdmissionEffect DEF Working
  <2>3. KeyOf(t)' = KeyOf(t)
    BY <2>2 DEF KeyOf
  <2>4. pc'[t] \in {"runtime"} \cup CreateBody \cup InstallBody => KeyOf(t)' \in reserved'
    <3> HIDE DEF KeyOf
    <3>1. QED
      BY <2>1, <2>2, <2>3 DEF Follows, Admits, ReservationInv
  <2>5. pc[t] \in {"count", "measure", "commit"} => reading[t] \in Reading
    BY DEF TypeOK, ReadingInv
  <2>6. ASSUME t \in fresh'
        PROVE  /\ pc'[t] \in {"count", "measure", "commit"} => reading'[t].reserved = reserved'
               /\ op'[t].kind = "create" /\ pc'[t] \in {"measure", "commit"}
                    => Ledger!Brains(Containers) \ reserved \subseteq reading'[t].teams
               /\ pc'[t] = "commit" => Containers \ reserved \subseteq reading'[t].used
    <3>1. CASE pc[t] = "admit"
      BY <2>1, <2>2, <3>1 DEF Admits, Follows
    <3>2. CASE pc[t] = "count"
      <4>1. t \in fresh /\ reserved' = reserved /\ reading[t].reserved = reserved
        BY <2>1, <2>6, <3>2 DEF Admits, ReservationInv
      <4>2. CASE pc'[t] = "measure"
        BY <2>1, <2>5, <3>2, <4>1, <4>2 DEF Admits, Reading
      <4>3. QED
        BY <2>2, <3>2, <4>2 DEF Follows
    <3>3. CASE pc[t] = "measure"
      <4>1. /\ t \in fresh /\ reserved' = reserved /\ reading[t].reserved = reserved
            /\ op[t].kind = "create" => Ledger!Brains(Containers) \ reserved \subseteq reading[t].teams
        BY <2>1, <2>6, <3>3 DEF Admits, ReservationInv
      <4>2. CASE pc'[t] = "commit"
        <5>1. reading'[t] = [reading[t] EXCEPT !.used = Containers \ reading[t].reserved]
          BY <2>1, <3>3, <4>2 DEF Admits
        <5>2. /\ reading'[t].reserved = reading[t].reserved /\ reading'[t].teams = reading[t].teams
              /\ reading'[t].used = Containers \ reading[t].reserved
          BY <2>5, <3>3, <5>1 DEF Reading
        <5>3. QED
          BY <2>2, <4>1, <4>2, <5>2
      <4>3. QED
        BY <2>2, <3>3, <4>2 DEF Follows
    <3>4. CASE pc[t] \in {"commit", "runtime"}
      BY <2>2, <3>4 DEF Follows
    <3>5. QED
      BY <2>2, <3>1, <3>2, <3>3, <3>4
  <2>7. (Ledger!Brains(Containers))' \ reserved' \subseteq Ledger!Brains(Containers) \ reserved'
    BY <2>1 DEF Ledger!Brains
  <2>8. ASSUME t \in fresh' PROVE reserved' = reserved
    BY <2>1, <2>8 DEF Admits
  <2>9. QED
    BY <2>1, <2>4, <2>6, <2>7, <2>8 DEF ReservationInv
<1>3. CASE Working(t) /\ ~(AdmissionStep(t) \/ InventoryFails(t))
  <2>1. /\ Follows(t) /\ pc[t] \notin AdmissionLabels
        /\ op'[t].kind = op[t].kind /\ op'[t].app = op[t].app /\ reserved' = reserved
    BY <1>3, WorkingFollows, OthersDoNotRead
  <2>2. KeyOf(t)' = KeyOf(t)
    BY <2>1 DEF KeyOf
  <2>3. pc'[t] \in CreateBody \cup InstallBody => pc[t] \in CreateBody \cup InstallBody
    BY <2>1 DEF Follows
  <2>4. pc'[t] \notin {"count", "measure", "commit", "runtime"}
    BY <2>1 DEF Follows
  <2>5. QED
    <3> HIDE DEF KeyOf
    <3>1. QED
      BY <2>1, <2>2, <2>3, <2>4 DEF ReservationInv
<1>4. CASE Finish(t)
  BY <1>1, <1>4, FinishMoves
<1>5. CASE TakesLock(t)
  <2>1. pc'[t] = "idle" \/ BeginsAt(t, pc'[t])
    BY <1>5, AdmittedMoves
  <2>2. QED
    BY <1>1, <2>1 DEF BeginsAt
<1>6. CASE Brief(t)
  <2>1. CASE StartCreate(t)
    BY <1>1, <1>6, <2>1, BriefMoves
  <2>2. CASE ~StartCreate(t)
    <3>1. /\ pc'[t] = pc[t] /\ op'[t] = op[t] /\ reserved' = reserved /\ fresh' = fresh /\ reading' = reading
      BY <1>6, <2>2, BriefMoves DEF admission
    <3>2. Containers' \subseteq Containers \cup reserved
      BY ContainersMove
    <3>3. QED
      BY <3>1, <3>2, ReservationStays
  <2>3. QED
    BY <2>1, <2>2
<1>7. QED
  BY <1>2, <1>3, <1>4, <1>5, <1>6, StepKinds

\* What the host holds fits the limits, and the ledger's invariant with what is
\* said of the reservations.
LedgerInv == IInv /\ (\A t \in Team : ReservationInv(t)) /\ Ledger!Fits(Held)

\* What is held are keys.
LEMMA HeldTyped ==
  ASSUME TypeOK
  PROVE  Held \in SUBSET Key
BY ContainersTyped DEF TypeOK, Held

\* Nothing fits.
LEMMA NothingFits == Ledger!Fits({})
<1>1. Cardinality({}) = 0
  BY FS_EmptySet
<1>2. Ledger!Brains({}) = {} /\ \A o \in Owner : Ledger!OwnedBy(o, {}) = {}
  BY DEF Ledger!Brains, Ledger!OwnedBy
<1>3. Ledger!MemoryOf({}) = 0
  <2>1. Ledger!MemoryOf({}) = BrainMemory * 0 + AppMemory * 0
    BY <1>1, <1>2, CountsAgree DEF Ledger!MemoryOf
  <2>2. \A m \in Nat : m * 0 = 0
    OBVIOUS
  <2>3. QED
    BY <2>1, <2>2, Limits
<1>4. QED
  BY <1>1, <1>2, <1>3, FitsMeans, Limits

\* What is given back is a step of the ledger, or none, and what stays fits.
LEMMA GivesBack ==
  ASSUME TypeOK, Ledger!Fits(Held), Held' \subseteq Held
  PROVE  Ledger!Give /\ Ledger!Fits(Held')
<1>1. Held' = Held \ (Held \ Held')
  OBVIOUS
<1>2. Ledger!Give
  BY <1>1 DEF Ledger!Give
<1>3. Ledger!Fits(Held')
  <2>1. Held \in SUBSET Key /\ Held' \in SUBSET Held
    BY HeldTyped
  <2> HIDE DEF Held
  <2>2. QED
    BY <2>1, FewerFit
<1>4. QED
  BY <1>2, <1>3

\* The key that an admission commits fits with all that is held, because its
\* reading is fresh.
LEMMA CommittedFits ==
  ASSUME TypeOK, NEW t \in Team, RequestInv(t), ReadingInv(t), ReservationInv(t), Ledger!Fits(Held),
         pc[t] = "commit", t \in fresh, CapacityValid(KeyOf(t), reading[t])
  PROVE  KeyOf(t) \in Key /\ Ledger!Fits(Held \cup {KeyOf(t)})
<1> DEFINE k == KeyOf(t)  r == reading[t]
<1>1. k \in Key
  BY KeyTyped DEF AdmissionLabels
<1>2. r \in Reading
  BY DEF TypeOK, ReadingInv
<1>3. r.reserved = reserved /\ Containers \ reserved \subseteq r.used
  BY DEF ReservationInv
<1>4. Held \in SUBSET Key /\ Held \subseteq r.used \cup r.reserved
  BY <1>3, HeldTyped DEF Held
<1>5. k[2] = "brain" => Ledger!Brains(Held) \subseteq r.teams \cup Ledger!Brains(r.reserved)
  <2>1. k[2] = "brain" => op[t].kind = "create"
    <3>1. k[2] = IF op[t].kind = "create" THEN "brain" ELSE op[t].app
      BY DEF KeyOf
    <3>2. op[t].kind # "create" => op[t].kind = "install"
      BY DEF TypeOK, RequestInv, LabelsOf, Creating, DestroyLabels, TeardownLabels, RemovalLabels
    <3>3. op[t].kind = "install" => op[t].app \in App
      BY DEF RequestInv, OfApp
    <3>4. QED
      BY <3>1, <3>2, <3>3, HostedAssumption
  <2>2. op[t].kind = "create" => Ledger!Brains(Containers) \ reserved \subseteq r.teams
    BY DEF ReservationInv
  <2>3. Ledger!Brains(Held) \subseteq (Ledger!Brains(Containers) \ reserved) \cup Ledger!Brains(reserved)
    BY DEF Ledger!Brains, Held
  <2> HIDE DEF k, r
  <2>4. QED
    BY <1>3, <2>1, <2>2, <2>3
<1>6. CapacityValid(k, r)
  OBVIOUS
<1> HIDE DEF k, r, Held
<1>7. Ledger!Fits(Held \cup {k})
  BY <1>1, <1>2, <1>4, <1>5, <1>6, AdmittedFits
<1>8. QED
  BY <1>1, <1>7 DEF k

\* A step of a Team is one of the ledger, or changes nothing that is held.
LEMMA TeamKeepsLedger ==
  ASSUME TypeOK, NEW t \in Team, TeamInv(t), ReservationInv(t), Ledger!Fits(Held), TeamStep(t)
  PROVE  [Ledger!Next]_Held /\ Ledger!Fits(Held')
<1>1. RequestInv(t) /\ ReadingInv(t) /\ RecordInv(t)
  BY DEF TeamInv
<1>2. CASE Held' \subseteq Held
  BY <1>2, GivesBack DEF Ledger!Next
<1>3. CASE ~(Held' \subseteq Held)
  <2>1. /\ pc[t] = "commit" /\ t \in fresh /\ CapacityValid(KeyOf(t), reading[t])
        /\ Held' = Held \cup {KeyOf(t)}
    <3>1. CASE reserved' = reserved /\ Containers' \subseteq Containers \cup reserved
      BY <1>3, <3>1 DEF Held
    <3>2. CASE reserved' = reserved \ {KeyOf(t)} /\ Containers' = Containers
      BY <1>3, <3>2 DEF Held
    <3>3. CASE /\ pc[t] = "commit" /\ t \in fresh /\ CapacityValid(KeyOf(t), reading[t])
               /\ reserved' = reserved \cup {KeyOf(t)} /\ Containers' = Containers
      BY <3>3 DEF Held
    <3>4. QED
      BY <1>1, <3>1, <3>2, <3>3, ReservationsMove
  <2> HIDE DEF Held, KeyOf, CapacityValid
  <2>2. KeyOf(t) \in Key /\ Ledger!Fits(Held \cup {KeyOf(t)})
    BY <1>1, <2>1, CommittedFits
  <2>3. KeyOf(t) \in Ledger!Key \ Held
    BY <1>3, <2>1, <2>2 DEF Key, Workload, Ledger!Key, Ledger!Workload
  <2>4. Ledger!Take
    BY <2>1, <2>2, <2>3 DEF Ledger!Take
  <2>5. QED
    BY <2>1, <2>2, <2>4 DEF Ledger!Next
<1>4. QED
  BY <1>2, <1>3

\* At the start nothing is held.
LEMMA InitLedger == Init => LedgerInv /\ Held = {}
<1> SUFFICES ASSUME Init PROVE LedgerInv /\ Held = {}
  OBVIOUS
<1>1. Containers = {}
  <2>1. ASSUME NEW k \in Key
        PROVE  world[k[1]].brain = NoBrain /\ world[k[1]].apps = {}
    <3>1. k[1] \in Team
      BY DEF Key
    <3>2. QED
      BY <3>1 DEF Init, EmptyWorld
  <2>2. QED
    BY <2>1 DEF Containers
<1>2. Held = {}
  BY <1>1 DEF Init, Held
<1>3. \A t \in Team : ReservationInv(t)
  BY DEF Init, ReservationInv, CreateBody, InstallBody
<1>4. Ledger!Fits(Held)
  BY <1>2, NothingFits
<1>5. QED
  BY <1>2, <1>3, <1>4, InitInv DEF LedgerInv

\* A controller that starts again has forgotten the reservations, and sees the
\* containers as they are.
LEMMA CrashLedger ==
  ASSUME Crash
  PROVE  Held' \subseteq Held /\ \A t \in Team : ReservationInv(t)'
<1>1. Held' \subseteq Held
  BY DEF Crash, Held, Containers
<1>2. \A t \in Team : pc'[t] = "idle" /\ t \notin fresh'
  BY DEF Crash
<1>3. QED
  BY <1>1, <1>2 DEF ReservationInv, CreateBody, InstallBody

\* Every step keeps the invariant and the ledger.
LEMMA StepLedger == LedgerInv /\ [Next]_vars => LedgerInv' /\ [Ledger!Next]_Held
<1> SUFFICES ASSUME LedgerInv, [Next]_vars
             PROVE  LedgerInv' /\ [Ledger!Next]_Held
  OBVIOUS
<1>1. TypeOK /\ IInv /\ IInv' /\ Ledger!Fits(Held) /\ \A t \in Team : TeamInv(t) /\ ReservationInv(t)
  BY StepInv DEF LedgerInv, IInv
<1>2. ASSUME NEW t \in Team, TeamStep(t)
      PROVE  LedgerInv' /\ [Ledger!Next]_Held
  <2>1. [Ledger!Next]_Held /\ Ledger!Fits(Held')
    BY <1>1, <1>2, TeamKeepsLedger
  <2>2. ASSUME NEW u \in Team PROVE ReservationInv(u)'
    <3>1. RequestInv(t) /\ ReadingInv(t) /\ RecordInv(t)
      BY <1>1 DEF TeamInv
    <3>2. CASE u = t
      BY <1>1, <1>2, <3>1, <3>2, OwnReservation
    <3>3. CASE u # t
      BY <1>1, <1>2, <3>1, <3>3, OtherReservation
    <3>4. QED
      BY <3>2, <3>3
  <2>3. Ledger!Fits(Held)'
    BY <2>1 DEF Ledger!Fits, Ledger!Brains, Ledger!OwnedBy, Ledger!MemoryOf
  <2>4. QED
    BY <1>1, <2>1, <2>2, <2>3 DEF LedgerInv
<1>3. CASE Crash
  <2>1. Held' \subseteq Held /\ \A t \in Team : ReservationInv(t)'
    BY <1>3, CrashLedger
  <2>2. Ledger!Give /\ Ledger!Fits(Held')
    BY <1>1, <2>1, GivesBack
  <2>3. QED
    BY <1>1, <2>1, <2>2 DEF LedgerInv, Ledger!Next
<1>4. CASE UNCHANGED vars
  <2>1. Held' = Held
    BY <1>4 DEF vars, admission, Held, Containers
  <2>2. \A t \in Team : ReservationInv(t)'
    BY <1>1, <1>4 DEF vars, admission, ReservationInv, Containers, KeyOf, Ledger!Brains
  <2>3. QED
    BY <1>1, <2>1, <2>2 DEF LedgerInv
<1>5. QED
  BY <1>2, <1>3, <1>4, NextSteps

\* The limits of the host hold after every step: what is made or still being
\* made, of all owners and of each, fits.
THEOREM NeverOvercommitted == Spec => []Ledger!Fits(Held)
<1>1. LedgerInv => Ledger!Fits(Held)
  BY DEF LedgerInv
<1>2. QED
  BY <1>1, InitLedger, StepLedger, PTL DEF Spec

\* Admission implements the ledger: what the host holds changes by one key that
\* fits with all the others, or by keys given back, in whatever order the Teams
\* read, reserve, create, fail and crash.
THEOREM AdmissionKeepsLedger == Spec => LedgerKept
<1>1. Init => Ledger!Init
  BY InitLedger DEF Ledger!Init
<1>2. QED
  BY <1>1, InitLedger, StepLedger, PTL DEF Spec, LedgerKept, Ledger!Spec
=============================================================================
