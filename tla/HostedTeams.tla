----------------------------- MODULE HostedTeams -----------------------------
(***************************************************************************)
(* The hosted controller's life of Teams and of the Apps in them: create,  *)
(* install, uninstall and destroy (hosted_lifecycle.py, hosted_apps.py),   *)
(* the admission of new containers to the memory of the host               *)
(* (hosted_resources.py), the isolation policy of a Team's network         *)
(* (network.py), the databases in pg-driver (PgRegistry), the durable      *)
(* record of an incomplete teardown (cleanup_state.py), and the private    *)
(* data that a Team leaves behind unless a teardown removes it.            *)
(*                                                                         *)
(* Each step of an operation may fail, with or without its effect, and the *)
(* controller may crash between two steps; "faults" bounds how often.      *)
(***************************************************************************)
EXTENDS Naturals, FiniteSets

CONSTANTS
  Team, App, Owner, OwnerOf,
  TeamLimit, OwnerTeamLimit, BrainMemory, AppMemory, Memory, OwnerMemory,
  AppLimit,            \* MAX_APPS_PER_TEAM
  RecordLimit,         \* MAX_RECORDS of the cleanup store
  WithDatabase,        \* the Apps whose specification declares a database
  Busy,                \* bound: the Teams that are used; the others are created and
                       \* destroyed, one request at a time, and compete for memory
  StoreLimit,          \* bound on the private data stored at a time in a Team
  Brain, NoBrain,      \* ids of Brain containers
  NoApp, NoRecord, NoRequest, NoReading,
  MaxFaults,           \* bound on failures, crashes and drift
  FaultsAlone          \* bound: no Team begins or is in an operation while a fault
                       \* of another is being dealt with

Workload == {"brain"} \cup App
Key == Team \X Workload

CleanupRecord == [brain : Brain \cup {NoBrain}, dropped : BOOLEAN]
QueuedRequest == [kind : {"destroy", "install", "uninstall"}, app : App \cup {NoApp},
                  lease : [brain : Brain \cup {NoBrain}, cleanup : BOOLEAN]]
Reading == [reserved : SUBSET Key, teams : SUBSET Key, used : SUBSET Key]

ASSUME HostedAssumption ==
  /\ OwnerOf \in [Team -> Owner] /\ WithDatabase \subseteq App
  /\ Busy \subseteq Team /\ FaultsAlone \in BOOLEAN
  /\ "brain" \notin App /\ "team" \notin App /\ NoApp \notin App /\ NoBrain \notin Brain
  \* Names are short, and Docker gives no container an id in use.
  /\ IsFiniteSet(Team) /\ IsFiniteSet(App)
  /\ \A b \in Brain \cup {NoBrain} : \E c \in Brain : c # b
  /\ NoRecord \notin CleanupRecord /\ NoRequest \notin QueuedRequest /\ NoReading \notin Reading
  /\ {TeamLimit, OwnerTeamLimit, BrainMemory, AppMemory, Memory, OwnerMemory,
      AppLimit, RecordLimit, StoreLimit, MaxFaults} \subseteq Nat

VARIABLES
  \* durable, of each Team: its containers and which run, its network, its
  \* egress tokens and policies, its private data, its databases, its
  \* principal's token file and its cleanup record
  world,
  \* the operation that has the lock of a Team, and where it is
  op, pc,
  \* a request that was authorized and waits for the lock of the Team
  queued,
  \* the chat lock of a Team: free, a chat turn's, a queued request's or op's
  chat,
  \* admission: the reservations, what each admission read of the inventory,
  \* and the Teams that read since the last change of a reservation
  reserved, reading, fresh,
  faults

admission == <<reserved, reading, fresh>>
vars == <<world, op, pc, queued, chat, reserved, reading, fresh, faults>>

Pg == INSTANCE PgRegistry

AppData == {"secret", "account", "grant"} \X App

-----------------------------------------------------------------------------
(* The containers of the host, and what admission counts.                  *)

Containers == {k \in Key : IF k[2] = "brain" THEN world[k[1]].brain # NoBrain ELSE k[2] \in world[k[1]].apps}
Held == Containers \cup reserved

Ledger == INSTANCE CapacityLedger WITH held <- Held

\* The resource that the operation on t adds.
KeyOf(t) == <<t, IF op[t].kind = "create" THEN "brain" ELSE op[t].app>>

(* The network of a Team.                                                  *)

\* network_members_valid: no foreign member, and the members that must be there.
MembersValid(w, requireBrain, requireDependencies) ==
  /\ "network" \in w.net /\ "foreign" \notin w.net
  /\ requireBrain => w.up
  /\ requireDependencies => "postgres" \in w.net

\* _require_team_isolation: a running Brain must be a live member besides.
Isolated(w) == w.brain # NoBrain /\ MembersValid(w, w.up, TRUE)

(* Requests.                                                               *)

NoOp == [kind |-> "none", app |-> NoApp, brain |-> NoBrain]
Lease(b, cleanup) == [brain |-> b, cleanup |-> cleanup]
Request(k, a, lease) == [kind |-> k, app |-> a, lease |-> lease]

\* Mutant of CurrentLease: any Brain of the Team will do.
AnyBrainLease(w, lease) == ~lease.cleanup /\ w.brain # NoBrain

\* _require_current_authorization: the Brain that was authorized, with nothing pending.
CurrentLease(w, lease) == ~lease.cleanup /\ w.brain # NoBrain /\ w.brain = lease.brain

\* _require_cleanup_authorization: the very record that was authorized, with no Brain.
CleanupLease(w, lease) == /\ lease.cleanup /\ w.brain = NoBrain
                          /\ w.record # NoRecord /\ w.record.brain = lease.brain

\* The id of a new container is one that nothing refers to.
NewBrain(t) == CHOOSE b \in Brain : queued[t] = NoRequest \/ queued[t].lease.brain # b

(* The bounds.                                                             *)

OthersAtRest(t) == \A u \in Team \ {t} : pc[u] = "idle" /\ queued[u] = NoRequest
MayBegin(t) == /\ FaultsAlone /\ faults > 0 => OthersAtRest(t)
               /\ t \in Busy \/ pc[t] = "idle"
Fault(t) == /\ faults < MaxFaults /\ faults' = faults + 1
            /\ FaultsAlone => OthersAtRest(t)

Stored(w) == Cardinality(w.data \ {"inference"}) + Cardinality(w.kept)
MayStore(t) == t \in Busy /\ Stored(world[t]) < StoreLimit

-----------------------------------------------------------------------------
(* The steps of an operation.                                              *)

CreateBody == {"provision", "network", "wire", "container", "start", "inference"}
InstallBody == {"appDatabase", "appToken", "appContainer", "appAdmit", "appEgress", "appStart", "appReady"}

\* What follows a failure: a create and an install roll back, the rest answers.
OnError(t) == CASE pc[t] \in CreateBody -> "check"
                [] pc[t] \in InstallBody -> "policy"
                [] OTHER -> "finish"

Goto(t, label) == pc' = [pc EXCEPT ![t] = label]

\* The step succeeds and leaves w, or fails in one of the given ways.
StepOr(t, w, label, outcomes) ==
  /\ \/ world' = [world EXCEPT ![t] = w] /\ Goto(t, label) /\ UNCHANGED faults
     \/ /\ Fault(t)
        /\ \E failed \in outcomes : world' = [world EXCEPT ![t] = failed]
        /\ Goto(t, OnError(t))
  /\ UNCHANGED <<op, queued, chat, admission>>

\* A failure of most steps comes before the effect or after it.
Step(t, w, label) == StepOr(t, w, label, {world[t], w})

\* The step refuses, whatever else happens.
Refuse(t) == Goto(t, OnError(t)) /\ UNCHANGED <<world, op, queued, chat, admission, faults>>

\* A step that only decides.
Proceed(t, label) == Goto(t, label) /\ UNCHANGED <<world, op, queued, chat, admission, faults>>

EmptyWorld == [brain |-> NoBrain, up |-> FALSE, apps |-> {}, net |-> {}, policy |-> {}, data |-> {}, kept |-> {},
               pg |-> Pg!Unprovisioned, token |-> FALSE, record |-> NoRecord]

Init ==
  /\ world = [t \in Team |-> EmptyWorld]
  /\ op = [t \in Team |-> NoOp] /\ pc = [t \in Team |-> "idle"]
  /\ queued = [t \in Team |-> NoRequest] /\ chat = [t \in Team |-> "free"]
  /\ reserved = {} /\ reading = [t \in Team |-> NoReading] /\ fresh = {}
  /\ faults = 0

-----------------------------------------------------------------------------
(* Authorization, before any lock.                                         *)

AuthorizeDestroy(t) ==
  /\ MayBegin(t) /\ queued[t] = NoRequest
  /\ LET w == world[t]
     IN  /\ w.brain # NoBrain \/ w.record # NoRecord
         /\ queued' = [queued EXCEPT ![t] = Request("destroy", NoApp,
              IF w.brain # NoBrain THEN Lease(w.brain, FALSE) ELSE Lease(w.record.brain, TRUE))]
  /\ UNCHANGED <<world, op, pc, chat, admission, faults>>

\* _serialize_against_team_chat: the chat lock is taken before the lock of the Team.
AuthorizeApp(t, a) ==
  /\ MayBegin(t) /\ t \in Busy /\ queued[t] = NoRequest /\ chat[t] = "free"
  /\ world[t].brain # NoBrain
  /\ \E k \in {"install", "uninstall"} :
       queued' = [queued EXCEPT ![t] = Request(k, a, Lease(world[t].brain, FALSE))]
  /\ chat' = [chat EXCEPT ![t] = "queued"]
  /\ UNCHANGED <<world, op, pc, admission, faults>>

\* The request gets the lock; its lease is checked again.
Admitted(t, label) ==
  /\ op' = [op EXCEPT ![t] = [kind |-> queued[t].kind, app |-> queued[t].app, brain |-> queued[t].lease.brain]]
  /\ Goto(t, label)
  /\ chat' = IF chat[t] = "queued" THEN [chat EXCEPT ![t] = "op"] ELSE chat
Refused(t) ==
  /\ UNCHANGED <<op, pc>>
  /\ chat' = IF chat[t] = "queued" THEN [chat EXCEPT ![t] = "free"] ELSE chat

Serve(t) == pc[t] = "idle" /\ queued[t] # NoRequest /\ queued' = [queued EXCEPT ![t] = NoRequest]

DestroyTakesLock(t) ==
  /\ Serve(t) /\ queued[t].kind = "destroy"
  /\ LET w == world[t]  lease == queued[t].lease
     IN  CASE CleanupLease(w, lease) -> Admitted(t, "chatLock")
           [] CurrentLease(w, lease) -> Admitted(t, "anchor")
           [] OTHER -> Refused(t)
  /\ UNCHANGED <<world, admission, faults>>

InstallTakesLock(t) ==
  /\ Serve(t) /\ queued[t].kind = "install"
  /\ LET w == world[t]
     IN  IF CurrentLease(w, queued[t].lease) /\ w.record = NoRecord /\ Isolated(w)
         THEN Admitted(t, IF queued[t].app \in w.apps THEN "finish" ELSE "revoke")
         ELSE Refused(t)
  /\ UNCHANGED <<world, admission, faults>>

UninstallTakesLock(t) ==
  /\ Serve(t) /\ queued[t].kind = "uninstall"
  /\ IF CurrentLease(world[t], queued[t].lease) /\ world[t].record = NoRecord
     THEN Admitted(t, "policy")
     ELSE Refused(t)
  /\ UNCHANGED <<world, admission, faults>>

\* An operation answers: its reservation goes, the generation of reservations
\* with it, and the chat lock if it had it.
Finish(t) ==
  /\ pc[t] = "finish"
  /\ Goto(t, "idle")
  /\ IF KeyOf(t) \in reserved
     THEN reserved' = reserved \ {KeyOf(t)} /\ fresh' = {}
     ELSE UNCHANGED <<reserved, fresh>>
  /\ op' = [op EXCEPT ![t] = NoOp]
  /\ chat' = IF chat[t] = "op" THEN [chat EXCEPT ![t] = "free"] ELSE chat
  /\ UNCHANGED <<world, queued, reading, faults>>

-----------------------------------------------------------------------------
(* Admission to the host: the reservations and their generation are read   *)
(* under a lock, the inventory of Docker outside it, and the decision is   *)
(* taken under the lock again.                                             *)

ReadReservations(t) ==
  /\ pc[t] = "admit"
  /\ reading' = [reading EXCEPT ![t] = [reserved |-> reserved, teams |-> {}, used |-> {}]]
  /\ fresh' = fresh \cup {t}
  /\ Goto(t, IF op[t].kind = "create" THEN "count" ELSE "measure")
  /\ UNCHANGED <<world, op, queued, chat, reserved, faults>>

CountTeams(t) ==
  /\ pc[t] = "count"
  /\ reading' = [reading EXCEPT ![t].teams = Ledger!Brains(Containers) \ reading[t].reserved]
  /\ Goto(t, "measure")
  /\ UNCHANGED <<world, op, queued, chat, reserved, fresh, faults>>

MeasureMemory(t) ==
  /\ pc[t] = "measure"
  /\ reading' = [reading EXCEPT ![t].used = Containers \ reading[t].reserved]
  /\ Goto(t, "commit")
  /\ UNCHANGED <<world, op, queued, chat, reserved, fresh, faults>>

InventoryFails(t) ==
  /\ pc[t] \in {"count", "measure"}
  /\ Fault(t)
  /\ Goto(t, "finish")
  /\ UNCHANGED <<world, op, queued, chat, admission>>

\* _validate_capacity: containers and reservations, each counted once.
CapacityValid(k, r) ==
  LET o == OwnerOf[k[1]]
      teams == Cardinality(r.teams) + Cardinality(Ledger!Brains(r.reserved))
      ownTeams == Cardinality(Ledger!OwnedBy(o, r.teams)) + Cardinality(Ledger!Brains(Ledger!OwnedBy(o, r.reserved)))
      weight == Ledger!MemoryOf({k})
  IN  /\ k[2] = "brain" => teams < TeamLimit /\ ownTeams < OwnerTeamLimit
      /\ Ledger!MemoryOf(r.used) + Ledger!MemoryOf(r.reserved) + weight <= Memory
      /\ Ledger!MemoryOf(Ledger!OwnedBy(o, r.used)) + Ledger!MemoryOf(Ledger!OwnedBy(o, r.reserved)) + weight <= OwnerMemory

Reserve(t) ==
  /\ reserved' = reserved \cup {KeyOf(t)} /\ fresh' = {}
  /\ Goto(t, "runtime")

\* Mutant of Admit: the reading is trusted although reservations changed since.
AdmitStale(t) ==
  /\ pc[t] = "commit"
  /\ IF CapacityValid(KeyOf(t), reading[t]) THEN Reserve(t)
     ELSE Goto(t, "finish") /\ UNCHANGED <<reserved, fresh>>
  /\ reading' = [reading EXCEPT ![t] = NoReading]
  /\ UNCHANGED <<world, op, queued, chat, faults>>

Admit(t) ==
  /\ pc[t] = "commit"
  /\ IF t \notin fresh THEN Goto(t, "admit") /\ UNCHANGED <<reserved, fresh>>
     ELSE IF CapacityValid(KeyOf(t), reading[t]) THEN Reserve(t)
     ELSE Goto(t, "finish") /\ UNCHANGED <<reserved, fresh>>
  /\ reading' = [reading EXCEPT ![t] = NoReading]
  /\ UNCHANGED <<world, op, queued, chat, faults>>

\* _require_team_runtime, with the reservation but before the rollback applies.
CheckRuntime(t) ==
  /\ pc[t] = "runtime"
  /\ Step(t, world[t], IF op[t].kind = "create" THEN "provision" ELSE "appDatabase")

-----------------------------------------------------------------------------
(* Create.                                                                 *)

\* A Team without Brain and record starts to be created, its stale storage first.
StartCreate(t) ==
  /\ MayBegin(t) /\ pc[t] = "idle"
  /\ world[t].record = NoRecord /\ world[t].brain = NoBrain
  /\ world' = [world EXCEPT ![t].data = @ \ {"file"}]
  /\ op' = [op EXCEPT ![t] = [kind |-> "create", app |-> NoApp, brain |-> NoBrain]]
  /\ Goto(t, "admit")
  /\ UNCHANGED <<queued, chat, admission, faults>>

\* A Team that exists is only given its inference configuration.
RepeatCreate(t) ==
  /\ pc[t] = "idle"
  /\ world[t].record = NoRecord /\ Isolated(world[t])
  /\ world' = [world EXCEPT ![t].data = @ \cup {"inference"}]
  /\ UNCHANGED <<op, pc, queued, chat, admission, faults>>

ProvisionTeam(t) ==
  /\ pc[t] = "provision"
  /\ LET w == [world[t] EXCEPT !.token = TRUE]
         failures == {[w EXCEPT !.pg = r] : r \in Pg!ProvisionOutcomes(w.pg)}
     IN  IF Pg!MayProvision(w.pg)
         THEN StepOr(t, [w EXCEPT !.pg = Pg!Provision(@)], "network", failures)
         ELSE /\ world' = [world EXCEPT ![t] = w] /\ Goto(t, "check")
              /\ UNCHANGED <<op, queued, chat, admission, faults>>

\* _ensure_team_network_kind: the network is created unless it exists, then validated.
EnsureNetwork(w) == [w EXCEPT !.net = @ \cup {"network"}]

CreateNetwork(t) ==
  /\ pc[t] = "network"
  /\ LET w == EnsureNetwork(world[t])
     IN  IF MembersValid(w, FALSE, FALSE) THEN Step(t, w, "wire") ELSE Refuse(t)

WireDependencies(t) ==
  /\ pc[t] = "wire"
  /\ LET w == [world[t] EXCEPT !.net = @ \cup {"postgres"}]
     IN  IF MembersValid(w, FALSE, TRUE) THEN Step(t, w, "container") ELSE Refuse(t)

\* When the answer of Docker is lost the container exists and its id is unknown.
CreateBrain(t) ==
  /\ pc[t] = "container"
  /\ LET w == [world[t] EXCEPT !.brain = NewBrain(t)]
     IN  \/ /\ world' = [world EXCEPT ![t] = w]
            /\ op' = [op EXCEPT ![t].brain = w.brain]
            /\ Goto(t, "start") /\ UNCHANGED faults
         \/ /\ Fault(t)
            /\ \E failed \in {world[t], w} : world' = [world EXCEPT ![t] = failed]
            /\ Goto(t, "check") /\ UNCHANGED op
  /\ UNCHANGED <<queued, chat, admission>>

\* _start_team_with_isolation: validated stopped, started, validated running;
\* a failure leaves the workload stopped unless the stop cannot be proved.
StartBrain(t) ==
  /\ pc[t] = "start"
  /\ IF Isolated(world[t]) THEN Step(t, [world[t] EXCEPT !.up = TRUE], "inference") ELSE Refuse(t)

\* The last step that can fail, before the rename of the file or after it.  In the
\* latter case the Brain runs and has its configuration: until the rollback, which
\* does not take the chat lock, has begun its record, a turn may begin.
SaveInference(t) ==
  /\ pc[t] = "inference"
  /\ Step(t, [world[t] EXCEPT !.data = @ \cup {"inference"}], "finish")

-----------------------------------------------------------------------------
(* Destroy, and the rollback of a create: both end in the teardown.        *)

Records == {t \in Team : world[t].record # NoRecord}

\* begin: the record of this Brain is created, or found.
BeginRecord(t, label) ==
  LET w == world[t]
      begun == [w EXCEPT !.record = [brain |-> op[t].brain, dropped |-> FALSE]]
  IN  CASE w.record = NoRecord /\ Cardinality(Records) < RecordLimit -> Step(t, begun, label)
        [] w.record # NoRecord /\ w.record.brain = op[t].brain -> Proceed(t, label)
        [] OTHER -> Refuse(t)

AnchorDestroy(t) == pc[t] = "anchor" /\ BeginRecord(t, "failStop")

\* _fail_stop_team
StopBrain(w) == [w EXCEPT !.up = FALSE]
\* Mutant of FailStop: a stopped Brain is thought to have ended its turn.
FailStopOnly(t) == pc[t] = "failStop" /\ Step(t, StopBrain(world[t]), "thread")

FailStop(t) == pc[t] = "failStop" /\ Step(t, StopBrain(world[t]), "chatLock")

TakeChatLock(t) ==
  /\ pc[t] = "chatLock"
  /\ chat[t] = "free"
  /\ chat' = [chat EXCEPT ![t] = "op"]
  /\ Goto(t, "thread")
  /\ UNCHANGED <<world, op, queued, admission, faults>>

\* Mutant of ChatLockTimesOut: only a running turn is waited for with a bound.
TurnTimesOut(t) ==
  /\ pc[t] = "chatLock" /\ chat[t] = "turn"
  /\ Proceed(t, "finish")

\* The wait for the chat lock is bounded.
ChatLockTimesOut(t) ==
  /\ pc[t] = "chatLock" /\ chat[t] # "free"
  /\ Proceed(t, "finish")

\* _brain_thread_id accepts no empty id.
DeleteThread(t) ==
  /\ pc[t] = "thread"
  /\ IF op[t].brain = NoBrain THEN Refuse(t) ELSE Step(t, world[t], "purge")

PurgeJournal(t) == pc[t] = "purge" /\ Step(t, [world[t] EXCEPT !.data = @ \ {"journal"}], "check")

\* _owned_teardown_brain: no Brain, or the Brain that this operation is about.
CheckBrain(t) ==
  /\ pc[t] = "check"
  /\ IF world[t].brain \in {NoBrain, op[t].brain} THEN Step(t, world[t], "begin") ELSE Refuse(t)

BeginTeardown(t) == pc[t] = "begin" /\ BeginRecord(t, "stop")
StopTeardownBrain(t) == pc[t] = "stop" /\ Step(t, StopBrain(world[t]), "apps")

\* _teardown_apps tries every App; the policy of an App goes before its container.
WithoutApps(w, policies, gone) == [w EXCEPT !.policy = @ \ policies, !.apps = @ \ gone]
PoliciesOf(as) == {"token", "hosts"} \X as

\* EgressPolicyStore.remove: the policy, then the token.
PolicyRemovals(as) == {ps \in SUBSET PoliciesOf(as) : \A a \in as : <<"token", a>> \in ps => <<"hosts", a>> \in ps}

TeardownApps(t) ==
  /\ pc[t] = "apps"
  /\ LET w == world[t]
     IN  StepOr(t, WithoutApps(w, PoliciesOf(w.apps), w.apps), "storage",
           {WithoutApps(w, p[1], p[2]) :
              p \in {p \in PolicyRemovals(w.apps) \X (SUBSET w.apps) : PoliciesOf(p[2]) \subseteq p[1]}})

WithoutData(w, kinds) == [w EXCEPT !.data = @ \ kinds]
WithoutKept(w, kind, as) == [w EXCEPT !.kept = @ \ ({kind} \X as)]

TeardownStorage(t) == pc[t] = "storage" /\ Step(t, WithoutData(world[t], {"file"}), "forgetInference")
TeardownInference(t) == pc[t] = "forgetInference" /\ Step(t, WithoutData(world[t], {"inference"}), "secrets")

\* Mutant of TeardownSecrets: the Apps to clear are those still installed.
TeardownInstalledSecrets(t) ==
  pc[t] = "secrets" /\ Step(t, WithoutKept(world[t], "secret", world[t].apps), "accounts")

TeardownSecrets(t) == pc[t] = "secrets" /\ Step(t, WithoutKept(world[t], "secret", App), "accounts")
TeardownAccounts(t) == pc[t] = "accounts" /\ Step(t, WithoutKept(world[t], "account", App), "grants")
TeardownGrants(t) == pc[t] = "grants" /\ Step(t, WithoutKept(world[t], "grant", App), "networks")

\* Mutant of TeardownNetwork: a network that cannot be removed is passed over.
TeardownNetworkAnyway(t) ==
  /\ pc[t] = "networks"
  /\ Step(t, [world[t] EXCEPT !.net = @ \cap {"foreign"}], "brain")

\* Members that are not ours stay, and the network with them.
TeardownNetwork(t) ==
  /\ pc[t] = "networks"
  /\ LET w == world[t]
         emptied == [w EXCEPT !.net = @ \ {"postgres", "egress"}]
     IN  IF "foreign" \in w.net
         THEN /\ world' = [world EXCEPT ![t] = emptied] /\ Goto(t, "finish")
              /\ UNCHANGED <<op, queued, chat, admission, faults>>
         ELSE StepOr(t, [w EXCEPT !.net = {}], "brain",
                {[w EXCEPT !.net = @ \ gone] : gone \in SUBSET {"postgres", "egress"}} \cup {[w EXCEPT !.net = {}]})

RemoveBrain(t) ==
  /\ pc[t] = "brain"
  /\ Step(t, [StopBrain(world[t]) EXCEPT !.brain = NoBrain], "drop")

DropDatabases(t) ==
  /\ pc[t] = "drop"
  /\ LET w == world[t]
     IN  CASE w.record.dropped -> Proceed(t, "finalize")
           [] ~w.record.dropped /\ ~(w.token /\ Pg!MayDropTeam(w.pg)) -> Refuse(t)
           [] OTHER -> StepOr(t, [w EXCEPT !.pg = Pg!DropTeam(@)], "mark",
                         {[w EXCEPT !.pg = r] : r \in Pg!DropTeamOutcomes(w.pg)})

\* Mutant of MarkDropped: the record is written anew, without its Brain.
MarkDroppedAnew(t) == pc[t] = "mark" /\ Step(t, [world[t] EXCEPT !.record = [dropped |-> TRUE]], "finalize")

MarkDropped(t) == pc[t] = "mark" /\ Step(t, [world[t] EXCEPT !.record.dropped = TRUE], "finalize")

\* finalize_team_drop: the principal at pg-driver, then the token file here.
FinalizeDrop(t) ==
  /\ pc[t] = "finalize"
  /\ LET w == [world[t] EXCEPT !.pg = Pg!Finalize(@)]
     IN  IF Pg!MayFinalize(world[t].pg)
         THEN StepOr(t, [w EXCEPT !.token = FALSE], "finishRecord", {world[t], w})
         ELSE Refuse(t)

FinishRecord(t) == pc[t] = "finishRecord" /\ Step(t, [world[t] EXCEPT !.record = NoRecord], "finish")

-----------------------------------------------------------------------------
(* Install and uninstall of an App, which may be an Assistant.             *)

\* A new installation starts without the grants of an earlier one.
RevokeGrants(t) ==
  /\ pc[t] = "revoke"
  /\ IF Cardinality(world[t].apps) < AppLimit
     THEN Step(t, WithoutKept(world[t], "grant", {op[t].app}), "admit")
     ELSE Step(t, WithoutKept(world[t], "grant", {op[t].app}), "finish")

CreateAppDatabase(t) ==
  /\ pc[t] = "appDatabase"
  /\ LET w == world[t]  a == op[t].app
     IN  CASE a \notin WithDatabase -> Step(t, EnsureNetwork(w), "appToken")
           [] a \in WithDatabase /\ ~(w.token /\ Pg!MayCreateApp(w.pg, a)) -> Refuse(t)
           [] OTHER -> StepOr(t, EnsureNetwork([w EXCEPT !.pg = Pg!CreateApp(@, a)]), "appToken",
                         {[w EXCEPT !.pg = r] : r \in Pg!CreateAppOutcomes(w.pg, a)})

\* The token is reserved, and goes into the environment of the container.
ReserveEgress(t) ==
  /\ pc[t] = "appToken"
  /\ IF MembersValid(world[t], FALSE, FALSE)
     THEN Step(t, [world[t] EXCEPT !.policy = @ \cup {<<"token", op[t].app>>}], "appContainer")
     ELSE Refuse(t)

CreateAppContainer(t) ==
  /\ pc[t] = "appContainer"
  /\ Step(t, [world[t] EXCEPT !.apps = @ \cup {op[t].app}], "appAdmit")

\* The manifest, the machine contract and the proxy environment of the image.
AdmitContract(t) == pc[t] = "appAdmit" /\ Step(t, world[t], "appEgress")

ActivateEgress(t) ==
  /\ pc[t] = "appEgress"
  /\ LET written == [world[t] EXCEPT !.policy = @ \cup {<<"hosts", op[t].app>>}]
         connected == [written EXCEPT !.net = @ \cup {"egress"}]
     IN  StepOr(t, connected, "appStart", {world[t], written, connected})

StartApp(t) ==
  /\ pc[t] = "appStart"
  /\ IF Isolated(world[t]) THEN Step(t, world[t], "appReady") ELSE Refuse(t)

\* Health, isolation again, readiness, and the private state of the release.
CommitInstall(t) ==
  /\ pc[t] = "appReady"
  /\ IF Isolated(world[t]) THEN Step(t, world[t], "finish") ELSE Refuse(t)

\* Mutant of RemovePolicy: the container is removed first.
RemoveAppFirst(t) ==
  /\ pc[t] = "policy"
  /\ Step(t, WithoutApps(world[t], {}, {op[t].app}), "app")

RemovePolicy(t) ==
  /\ pc[t] = "policy"
  /\ LET w == world[t]
     IN  StepOr(t, WithoutApps(w, PoliciesOf({op[t].app}), {}), "app",
           {WithoutApps(w, ps, {}) : ps \in PolicyRemovals({op[t].app})})

RemoveApp(t) ==
  /\ pc[t] = "app"
  /\ Step(t, WithoutApps(world[t], {}, {op[t].app}), "appDrop")

\* An App without a label that says otherwise is taken to have a database.
DropAppDatabase(t) ==
  /\ pc[t] = "appDrop"
  /\ LET w == world[t]  a == op[t].app
         label == IF op[t].kind = "install" THEN "finish" ELSE "appSecrets"
     IN  CASE a \notin WithDatabase -> Proceed(t, label)
           [] a \in WithDatabase /\ ~(w.token /\ Pg!MayDropApp(w.pg, a)) -> Refuse(t)
           [] OTHER -> StepOr(t, [w EXCEPT !.pg = Pg!DropApp(@, a)], label,
                         {[w EXCEPT !.pg = r] : r \in Pg!DropAppOutcomes(w.pg, a)})

DeleteSecrets(t) == pc[t] = "appSecrets" /\ Step(t, WithoutKept(world[t], "secret", {op[t].app}), "appAccounts")
DeleteAccounts(t) == pc[t] = "appAccounts" /\ Step(t, WithoutKept(world[t], "account", {op[t].app}), "appGrants")
DeleteGrants(t) == pc[t] = "appGrants" /\ Step(t, WithoutKept(world[t], "grant", {op[t].app}), "finish")

-----------------------------------------------------------------------------
(* The short operations: they check their lease and act under the lock of  *)
(* the Team, or in a chat turn.                                            *)

StopTeam(t) ==
  /\ t \in Busy /\ pc[t] = "idle" /\ chat[t] = "free"
  /\ world[t].brain # NoBrain /\ world[t].record = NoRecord
  /\ world' = [world EXCEPT ![t] = StopBrain(@)]
  /\ UNCHANGED <<op, pc, queued, chat, admission, faults>>

StartTeam(t) ==
  /\ t \in Busy /\ pc[t] = "idle" /\ chat[t] = "free"
  /\ Isolated(world[t]) /\ world[t].record = NoRecord
  /\ world' = [world EXCEPT ![t].up = TRUE]
  /\ UNCHANGED <<op, pc, queued, chat, admission, faults>>

PutFile(t) ==
  /\ pc[t] = "idle" /\ MayStore(t)
  /\ world[t].brain # NoBrain /\ world[t].record = NoRecord
  /\ world' = [world EXCEPT ![t].data = @ \cup {"file"}]
  /\ UNCHANGED <<op, pc, queued, chat, admission, faults>>

ReplaceSecrets(t, a) ==
  /\ pc[t] = "idle" /\ chat[t] = "free" /\ MayStore(t)
  /\ world[t].brain # NoBrain /\ world[t].record = NoRecord /\ a \in world[t].apps
  /\ world' = [world EXCEPT ![t].kept = @ \cup {<<"secret", a>>}]
  /\ UNCHANGED <<op, pc, queued, chat, admission, faults>>

\* _exclusive_chat_turn takes the chat lock and no other.
BeginTurn(t) ==
  /\ t \in Busy /\ chat[t] = "free"
  /\ world[t].up /\ Isolated(world[t]) /\ world[t].record = NoRecord
  /\ "inference" \in world[t].data
  /\ chat' = [chat EXCEPT ![t] = "turn"]
  /\ UNCHANGED <<world, op, pc, queued, admission, faults>>

\* A turn leaves its journal rows, and what its Assistants are granted and given.
\* The Brain may ask only for Powers of Assistants that are there (_validate_batch).
TurnStores(t) ==
  /\ chat[t] = "turn"
  /\ MayStore(t) /\ world[t].apps # {}
  /\ \/ world' = [world EXCEPT ![t].data = @ \cup {"journal"}]
     \/ \E thing \in {"account", "grant"} \X world[t].apps :
          world' = [world EXCEPT ![t].kept = @ \cup {thing}]
  /\ UNCHANGED <<op, pc, queued, chat, admission, faults>>

EndTurn(t) ==
  /\ chat[t] = "turn"
  /\ chat' = [chat EXCEPT ![t] = "free"]
  /\ UNCHANGED <<world, op, pc, queued, admission, faults>>

-----------------------------------------------------------------------------
(* The surroundings.                                                       *)

\* Something else joins the network of the Team; an operator takes it out.
Contaminate(t) ==
  /\ Fault(t)
  /\ "network" \in world[t].net
  /\ world' = [world EXCEPT ![t].net = @ \cup {"foreign"}]
  /\ UNCHANGED <<op, pc, queued, chat, admission>>

Evict(t) ==
  /\ "foreign" \in world[t].net
  /\ world' = [world EXCEPT ![t].net = @ \ {"foreign"}]
  /\ UNCHANGED <<op, pc, queued, chat, admission, faults>>

\* The controller dies; containers, files and databases stay as they are.
Crash ==
  /\ \E t \in Team : Fault(t)
  /\ op' = [t \in Team |-> NoOp] /\ pc' = [t \in Team |-> "idle"]
  /\ queued' = [t \in Team |-> NoRequest] /\ chat' = [t \in Team |-> "free"]
  /\ reserved' = {} /\ reading' = [t \in Team |-> NoReading] /\ fresh' = {}
  /\ UNCHANGED world

-----------------------------------------------------------------------------
AdmissionStep(t) ==
  \/ ReadReservations(t) \/ CountTeams(t) \/ MeasureMemory(t) \/ Admit(t) \/ CheckRuntime(t)

CreateStep(t) ==
  \/ ProvisionTeam(t) \/ CreateNetwork(t) \/ WireDependencies(t) \/ CreateBrain(t) \/ StartBrain(t)
  \/ SaveInference(t)

DestroyStep(t) ==
  \/ AnchorDestroy(t) \/ FailStop(t) \/ TakeChatLock(t) \/ ChatLockTimesOut(t) \/ DeleteThread(t)
  \/ PurgeJournal(t)

TeardownStep(t) ==
  \/ CheckBrain(t) \/ BeginTeardown(t) \/ StopTeardownBrain(t) \/ TeardownApps(t) \/ TeardownStorage(t)
  \/ TeardownInference(t) \/ TeardownSecrets(t) \/ TeardownAccounts(t) \/ TeardownGrants(t)
  \/ TeardownNetwork(t) \/ RemoveBrain(t) \/ DropDatabases(t) \/ MarkDropped(t) \/ FinalizeDrop(t)
  \/ FinishRecord(t)

InstallStep(t) ==
  \/ RevokeGrants(t) \/ CreateAppDatabase(t) \/ ReserveEgress(t) \/ CreateAppContainer(t)
  \/ AdmitContract(t) \/ ActivateEgress(t) \/ StartApp(t) \/ CommitInstall(t)

RemovalStep(t) ==
  \/ RemovePolicy(t) \/ RemoveApp(t) \/ DropAppDatabase(t)
  \/ DeleteSecrets(t) \/ DeleteAccounts(t) \/ DeleteGrants(t)

TakesLock(t) == DestroyTakesLock(t) \/ InstallTakesLock(t) \/ UninstallTakesLock(t)

OperationStep(t) ==
  \/ AdmissionStep(t) \/ CreateStep(t) \/ DestroyStep(t) \/ TeardownStep(t) \/ InstallStep(t)
  \/ RemovalStep(t) \/ Finish(t)

Next ==
  \/ \E t \in Team :
       \/ AuthorizeDestroy(t) \/ TakesLock(t) \/ OperationStep(t) \/ InventoryFails(t)
       \/ StartCreate(t) \/ RepeatCreate(t) \/ StopTeam(t) \/ StartTeam(t) \/ PutFile(t)
       \/ BeginTurn(t) \/ TurnStores(t) \/ EndTurn(t) \/ Contaminate(t) \/ Evict(t)
       \/ \E a \in App : AuthorizeApp(t, a) \/ ReplaceSecrets(t, a)
  \/ Crash

Spec == Init /\ [][Next]_vars

\* A thread that has the lock of a Team goes on: every call it makes is bounded.
FairSpec == Spec /\ \A t \in Team : WF_vars(OperationStep(t))

-----------------------------------------------------------------------------
AdmissionLabels == {"admit", "count", "measure", "commit", "runtime"}
DestroyLabels == {"anchor", "failStop", "chatLock", "thread", "purge"}
TeardownLabels ==
  {"check", "begin", "stop", "apps", "storage", "forgetInference", "secrets", "accounts", "grants",
   "networks", "brain", "drop", "mark", "finalize", "finishRecord"}
RemovalLabels == {"policy", "app", "appDrop", "appSecrets", "appAccounts", "appGrants"}
Labels == {"idle", "finish", "revoke"} \cup AdmissionLabels \cup CreateBody \cup InstallBody \cup DestroyLabels
            \cup TeardownLabels \cup RemovalLabels

World ==
  [brain : Brain \cup {NoBrain}, up : BOOLEAN, apps : SUBSET App,
   net : SUBSET {"network", "postgres", "egress", "foreign"},
   policy : SUBSET ({"token", "hosts"} \X App),
   data : SUBSET {"journal", "file", "inference"}, kept : SUBSET AppData,
   pg : Pg!Registry, token : BOOLEAN,
   record : {NoRecord} \cup CleanupRecord]

TypeOK ==
  /\ world \in [Team -> World]
  /\ op \in [Team -> [kind : {"none", "create", "destroy", "install", "uninstall"},
                      app : App \cup {NoApp}, brain : Brain \cup {NoBrain}]]
  /\ pc \in [Team -> Labels]
  /\ queued \in [Team -> {NoRequest} \cup QueuedRequest]
  /\ chat \in [Team -> {"free", "turn", "queued", "op"}]
  /\ reserved \in SUBSET Key /\ fresh \in SUBSET Team
  /\ reading \in [Team -> {NoReading} \cup Reading]
  /\ faults \in 0..MaxFaults

\* Admission implements the ledger: whatever the order in which Teams read the
\* inventory, reserve, create, fail, crash and are destroyed, what the host
\* holds changes by one key that fits, or by keys given back.
LedgerKept == Ledger!Spec

\* A Team that no operation has, with no Brain and no cleanup record, through
\* which its owner could still reach it, has left nothing private: no data, no
\* App, and no egress policy that would let one out.
NoBrainNoResidue ==
  \A t \in Team :
    pc[t] = "idle" /\ world[t].brain = NoBrain /\ world[t].record = NoRecord
      => /\ world[t].data = {} /\ world[t].kept = {} /\ world[t].apps = {}
         /\ \A a \in App : <<"hosts", a>> \notin world[t].policy

\* The proxy lets an App out only as long as its container is there: a policy
\* never outlives it, whichever step of an install, uninstall or teardown fails.
EgressOnlyWhileInstalled ==
  \A t \in Team, a \in App : <<"hosts", a>> \in world[t].policy => a \in world[t].apps

\* No chat turn runs while a destroy or an uninstall deletes what it may store.
\* The rollback of a create takes no chat lock, so that a turn may run beside it
\* (see SaveInference): it meets no App, hence no Power that could store anything.
TeardownExcludesTurns ==
  \A t \in Team : chat[t] = "turn" /\ pc[t] \in TeardownLabels \cup RemovalLabels \cup {"thread", "purge"}
                  => op[t].kind = "create" /\ world[t].apps = {}

\* An operation stops, strips or removes a Brain only if its request was about
\* that Brain: one that waited while the Team was destroyed and created again
\* does not touch the new Team.
Strips(old, new) ==
  \/ new.brain # old.brain
  \/ old.up /\ ~new.up
  \/ ~(old.apps \subseteq new.apps /\ old.kept \subseteq new.kept /\ old.data \subseteq new.data)
  \/ ~(old.pg.existing \subseteq new.pg.existing)
DestroysItsOwnBrain ==
  [][\A t \in Team : pc[t] # "idle" /\ world[t].brain # NoBrain /\ Strips(world[t], world'[t])
       => op[t].brain = world[t].brain]_vars

\* The cleanup record, the owner's only way back to a Team without Brain, goes
\* only when nothing of the Team is left on the host, and in Postgres neither its
\* database nor a database, a principal or a token that would lead to one.  What
\* pg-driver created and never registered is excepted: a destroy drops what is
\* registered, and the database of an App that is not stays behind, whatever _teardown
\* says of itself (hosted_lifecycle.py:230, "Remove every Team artifact").
RecordUntilGone ==
  [][\A t \in Team : world[t].record # NoRecord /\ world'[t].record = NoRecord
       => LET w == world'[t]
          IN  /\ w.brain = NoBrain /\ w.apps = {} /\ w.net = {} /\ w.data = {} /\ w.kept = {}
              /\ w.pg.principal = "none" /\ w.pg.registered = {} /\ "team" \notin w.pg.existing
              /\ ~w.token]_vars

\* The registry forgets a database only when Postgres has dropped it: no failed
\* drop, no retirement, and no later provisioning, which replaces the list of a
\* Team by its one database, loses one that exists.
ForgottenWhenGone ==
  [][\A t \in Team : \A d \in world[t].pg.registered \ world'[t].pg.registered :
       d \notin world'[t].pg.existing \cup (world'[t].pg.orphaned \ world[t].pg.orphaned)]_vars

\* An operation that is past its admission answers: no lock it waits for is held by one
\* that waits for it, although an install takes the chat lock and then that of
\* the Team, and a destroy the other way round.
OperationsEnd ==
  \A t \in Team : pc[t] \notin {"idle", "revoke", "admit", "count", "measure", "commit"} ~> pc[t] = "idle"

\* An owner asks again and again for the destroy of a Team with a cleanup record,
\* and for nothing else: a request for an App takes the chat lock, for which a
\* destroy waits.  The requests are served, turns end, and an operator takes foreign
\* containers out.
OwnerRetries(t) ==
  /\ []<>(world[t].record = NoRecord \/ queued[t] # NoRequest)
  /\ <>[](queued[t] = NoRequest \/ queued[t].kind = "destroy")
  /\ []<>(queued[t] = NoRequest) /\ []<>(chat[t] # "turn") /\ []<>("foreign" \notin world[t].net)

\* A cleanup record authorizes the retry of a destroy (cleanup_state.py): wherever
\* the attempts before broke off, in the host, in the record or in pg-driver, an
\* owner who retries gets the Team to its end, if it ever had a Brain.
RetriesEnd ==
  \A t \in Team : OwnerRetries(t) =>
    []<>(world[t].record = NoRecord \/ world[t].record.brain = NoBrain)
=============================================================================
