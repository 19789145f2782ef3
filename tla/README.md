# Verification of the Shimpz drivers

TLA+ models of the Shimpz drivers (`team/`, `pg/`, `apps/`, `egress/`,
`app-egress/`), the TLC configurations that check them, and TLAPS proofs about
them. `PROJECT.json` maps every definition to the lines it stands for; this file
says what the parts are, what is modelled, what the runs and the proofs show, and
what is left.

Tools: `tlc -workers 2 -config X.cfg M` for a run, `tlapm MProofs.tla` for the
proofs.

## 1. The system

### Components, their state and their operations

| Component | State | Operations | Correct when |
| --- | --- | --- | --- |
| Power journal (`team/power_journal.py`) | SQLite tables `batches`, `operations` | `prepare_batch`, `begin`, `complete`, `suspend`, `delivered`, `purge` | an operation has one outstanding execute decision, results are final, a pending batch is not replaced, capacity holds |
| Power batch and RPC (`team/power_execution.py`, `local_support/assistant_rpc.py`) | handle of a batch, RPC socket | prepare, invoke, deliver, `rpc_exchange`, fail-stop | a side effect happens only after its durable mark; an unknown outcome stays unknown |
| Chat orchestrator (`chat_orchestrator.py`, `chat_turn_engine.py`) | continuation: turn, seen interrupts, round | `_drive`: check, pause, prepare, invoke, resume, deliver | each interrupt runs once in a turn, each result reaches its interrupt, every turn ends |
| Local chat turns (`local_support/chat_*.py`) | chat lock, active tokens, challenges, continuations on disk | chat, submit, resume, Stop, restore | Stop leaves nothing to resume; a restart restores only what is pending |
| Hosted chat turns (`assistant_human/hosted_*.py`) | the same without a copy on disk | the same | the same |
| Challenge stores (`challenge_store.py` and its users) | pending challenges with a lifetime | create, claim, cancel, expire | claimed once, by its Team; one of a Team at a time |
| Local continuations (`local_chat_continuations.py`, `local_chat_continuation_store.py`) | encrypted copy of each paused turn | encode, put, decode, restore, delete | what a pause writes a restart reads, for the release it was paused in |
| Team and Assistant lifecycle (`local_support/team_lifecycle.py`, `container_policy/hosted_lifecycle.py`, `hosted_apps.py`, `cleanup_state.py`) | containers, networks, egress policies, private data, cleanup records | create, destroy, reset, install, uninstall | a destroyed Team leaves nothing behind, a failed destroy can be repeated and touches its own Team only |
| Network policy (`container_policy/network.py`) | none: it judges what the Engine says | admit a network, a member, a teardown | names mean what they say, and what is accepted can be taken down |
| OAuth accounts (`oauth_*.py`) | encrypted records with a generation, PKCE challenges, refresh flights | connect, refresh, disconnect, revoke | one flight for an account, a late refresh restores nothing, a consent is used once |
| Capacity (`container_policy/hosted_resources.py`) | reservations, generation counter | reserve, commit, release | the sum of all grants stays under the limits |
| Team storage (`team_storage.py`) | SQLite with a quota | put, get, delete, list | the quota holds |
| Postgres driver (`pg/`) | registry of principals, databases, roles | provision, create, drop, retire | registry and databases agree |
| Apps deployer (`apps/app.py`) | containers, network and volume of an app, a lock per app | deploy, stop, start, restart, remove, reconcile loop | an app that serves keeps serving, a name is never in the way |
| Egress proxies (`egress/`, `app-egress/`) | connection slots, in total and per source | CONNECT | slots are neither lost nor doubled |
| Assistant secrets and approval grants (`assistant_secret_store.py`, `approval_grants.py`) | encrypted values, standing grants | replace, answer, grant, revoke | no answer writes over a rotation, no grant outlives its installation |
| HTTP boundary, manifests, marketplace, routes, inference configuration | none, or files read at start | parsing, validation, construction of arguments | outside of what a model checker adds to a unit test |

### Interactions

A chat turn holds the Team's chat lock, asks the **Brain runtime** over HTTP for
the next step and gets a batch of Power requests or a final reply. The batch is
written to the **journal**, each request is marked as executing there, sent as an
RPC into the **Assistant container**, and its result stored; the results go back to
the Brain together, and only then the row is deleted. A request that needs an OAuth
account, an input or an approval **pauses** the turn: a challenge is created, the
continuation kept (in memory, and by the local Controller on disk too) and the lock
released. Submitting the challenge claims it and runs the same batch again with one
more answer. **Stop**, **destroy**, **uninstall** and **reset** run beside the turn
and reach it through its cancellation token, the challenge stores and the container.
Create, install, uninstall and destroy hold the **lock of the Team**; install and
uninstall take the chat lock before it, destroy after it. Containers of all Teams share
the memory of the host, which **admission** reserves under a lock of its own. Databases
are made and dropped by the **Postgres driver**, which keeps a registry. What a destroy
could not finish is in a **cleanup record**, which authorizes the retry once the Brain,
through which a Team is owned, is gone. **OAuth** callbacks, refreshes by turns and
disconnects meet in the record of an account. The Apps deployer is a service of its own;
its requests meet only in the lock of the app and in Docker.

### What is hard

* *Crashes.* The mark, the side effect, the result and the delivery are four places
  at which the Controller can die, and the container goes on without it.
* *Lost replies.* An RPC may time out while the Power runs on; the Brain may accept
  results and its reply get lost; Docker may do what it was asked and the answer be
  lost.
* *Interleaving.* Stop has two halves and destroy three, all beside the turn; a
  removal of an app looks its container up before it waits for the lock.
* *Stale state.* Fingerprints name account generations that a refresh advances;
  journal handles outlive the rows they name; a pause outlives its container.
* *Partial failure.* A destroy, an install or a cut-over stops half-way and is repeated;
  a database exists that its registry does not know.
* *Two lock orders.* Install and destroy take the same two locks the other way round.
* *Names.* A container is known by labels and names that its owner may choose in part.

`PROJECT.json` lists these as hazards at their lines, with the properties that cover
them or the reason why none does yet.

## 2. The modules

### JournalRow and PowerJournal: the journal under any client

`JournalRow` holds the state of one generation's row and the guards and updates of
each method, as operators without state, since both models below use them. The two
SQL tables are one sequence of entries. `PowerJournal` is the whole table under
arbitrary callers: any generation, any handle, at any time, also a stale handle from
before a restart, a delivery or a purge. Each method is one transaction under one
mutex, so each is one action; a method that raises rolls back and is a stutter. The
variable `granted` is a history: it counts the execute decisions of an entry that
were not taken back by a suspension.

### PowerTurn: one Team generation and its turns

| Variables | Code |
| --- | --- |
| `row`, `ran` | the journal row; `ran` is history: the results of the runs behind each entry |
| `brain`, `issued` | the suspension the Brain waits on (external), the interrupts it used |
| `pc`, `request`, `handle`, `results`, `seen`, `round`, `answers`, `cancelled` | locals of `_drive` and `PowerBatch`, the chat token |
| `parked`, `saved` | the pending challenge with its continuation; the copy on disk |
| `container`, `status`, `rpcs`, `blocked` | the Assistant container, the processes in it, `_blocked_power_workloads` |
| `account`, `generation` | the OAuth record: status and generation |
| `live`, `canceller` | the Team's anchor, and the Stop or destroy in progress |
| `produced`, `told`, `turnAnswered` | history for the properties |

The actions follow the loop: `RoundAdmitted` is the head of `_drive`,
`ParkForAccount`, `PrepareBatch`, `BeginPower`, `UseStoredResult`, `DispatchPower`,
`ReplyCompletes`, `ReplySuspends`, `ReplyFails`, `RpcTimesOut`, `ParkForAnswer`,
`ResumeTurn` and `DeliverBatch` are its steps in order, `AbortTurn` any failing check
or call between two of them. A step is as large as the code between two points at
which something else can be seen: a durable write, a call out of the process, or a
lock. `Local` chooses the Controller: the hosted one keeps no copy of a continuation,
writes a cleanup record before it destroys a Team and cancels every challenge under
the chat lock; the local one cancels before it has the lock, and cancels no account
challenge on destroy, uninstall and reset. One Assistant with one account stands for
all; a Power is its interrupt id.

A Power that asks a person does so before any side effect of its own (`Interacted`):
this is what the replay protocol asks of a Power and no Controller can check it.

### PowerContract: what a Team promises

The abstract specification, without a journal, turns or crashes: a requested Power
runs at most once, and the Brain is told the result of that one run. `PowerTurn`
maps its history variables to it (`Contract == INSTANCE PowerContract WITH ...`), and
`ImplementsContract` is the refinement.

### BlueGreenDeploy: the Apps deployer

One app, any number of request threads, one step per Docker call: defensive cleanup,
network, candidate, health check, the two renames of the cut-over, its rollback, the
removal of the old container; stop, start and restart; removal with the teardown of
the network; the reconcile loop. `named` is Docker's table of names, so a handle keeps
naming its container through renames, as in the code. `FailUncaught` ends a thread at
any point: a refusal without a handler, or a connection to the daemon that breaks,
which is no `APIError` and reaches no handler. `CrashDriver` ends all of them. The
history `stranded` has the containers whose cut-over broke off between its renames.
The data volume, egress tokens and policies do not influence any other step and are
left out.

### OAuthAccounts: the accounts of one Assistant

| Variables | Code |
| --- | --- |
| `records`, `stale`, `declared` | the encrypted store, which tokens are due for a refresh, and what the installed Assistant declares |
| `pending`, `states` | `OAuthPKCEChallengeStore` |
| `table`, `users`, `holder` | `_account_flight`: the table of flights, who counts on one, who has its lock |
| `chat` | the chat lock of the Team |
| `pc`, `acct`, `claimed`, `flight`, `read`, `received` | locals of the threads |
| `revoked`, `exchanged`, `overtaken` | history for the properties |

`hosted` chooses the Controller for a whole behaviour. A callback claims its challenge,
is checked against the installed Assistant, exchanges its code (or claims at the broker)
and writes; a resolution enters the flight, waits for its lock, reads, refreshes without
the lock of the store, and writes if the generation is still the one it read; a
disconnect revokes upstream in between. Uninstall, update and reset delete records
without a flight, in the order of the code. Each call to the provider is a step of its
own, refused, answered, or answered without the answer arriving (`FlightFails`,
`CallbackFails`). `Crash` keeps the records and nothing else. Encryption keeps a record or
loses it whole and is not modelled.

### ChallengeStore and HostedChat: the requests around a hosted turn

`ChallengeStore` has the operations of one store as operators over a set of challenges.
`HostedChat` instantiates it for the four kinds and puts the threads of the Controller
around it: a message or an answer reads a challenge outside of the chat lock, tries the
lock, checks the Team, claims, stores what was answered (`ClaimSecret`, `GrantOnce`), runs
Powers one at a time, pauses or replies; every step between two locks is an action. Stop
empties the stores one after the other, marks the token, and kills the Power it had read.
The owner replaces secrets and credentials, the Assistant is removed (and its removal may
fail half-way) and installed again, under the same id and with the same image. `pending`
is the four stores; `slot` the chat lock; `active`, `cancelled`, `power`, `blocked` what
`_active_chat_guard` guards; `req` and `stop` the locals of the threads; `grants`,
`secret`, `generation` what is stored. The histories `turns`, `replied`, `stopped`,
`installed` and `rotation` are for the properties only. The journal is left to `PowerTurn`.

### PgRegistry, CapacityLedger and HostedTeams: the life of hosted Teams

`PgRegistry` is one Team in `pg/`: the state of its principal, the databases that exist
and those that are registered. Each request is an operator for its success and one for
every state a failure or a crash may leave (`ProvisionOutcomes`, ...). `Finalize` deletes the
record of the principal, as `principal_store.finalize` does, and drops nothing: a database of an
App that exists by then was never registered and goes on existing under a namespace that no
record names (`orphaned`). `CapacityLedger` is an
abstract specification: keys are taken alone and only if everything held still fits the
limits, and given back in any number.

`HostedTeams` has the lock of each Team and its operation (`op`, `pc`), a request that was
authorized and waits for it (`queued`, with the lease it was given), the chat lock, the state
of the host for each Team (`world`: Brain, Apps, network, egress policies, private data, the
database through `PgRegistry`, the cleanup record), and the admission (`reserved`, what each
admission `reading`, and `fresh`, which stands for the generation counter: who read since the
last change). Each step of create, install, uninstall, destroy and of the teardown is an
action in the order of the code; `StepOr` lets it fail before its effect, after it, or in a
partial state of its own, and `Crash` ends all operations. Steps that only read are merged
with the next one that writes. A turn stores private data while it runs (`TurnStores`): its
journal rows and what its Assistants are given, hence nothing while there is no App, since a
request for a Power of an absent Assistant is refused (`_validate_batch`). The last step of a
create may fail after its effect (`SaveInference`: `save` raises once the file is renamed); the
Brain then runs, a turn may begin, and the rollback, which takes no chat lock, tears the Team
down beside it.
`Ledger` maps containers and reservations to `CapacityLedger`, and `LedgerKept` is the
refinement.

### NetworkPolicy: who may be in a network

Pure operators: the role a container proves by its name and labels together, the names
and aliases it may have, the binding of its endpoint, the judgement of a whole network and
what a teardown takes out. Derived names are tuples, since their derivation is injective.
`HostedTeams` uses an abstraction of `MembersValid`; `MCHostedTeams` makes the containers as
the Controllers do and has TLC evaluate that both agree on every network of the run
(`PolicyIsAbstracted`).

### ContinuationCodec: the copy of a pause

Pure operators again: what the producers of requests accept (`Produced`), what `encode`
writes, what the store keeps, what `decode` accepts, and what a start restores. A text is a
record of what the validators ask of it: its size, whether it is trimmed, has control
characters, is printable. `MCContinuationCodec` has pauses of every kind as values; its
assumptions are evaluated with the runs of `MCPowerTurn`.

## 3. The runs

| Run | Configuration | Question | Outcome |
| --- | --- | --- | --- |
| `journal` | 3 generations, 2 rows, batches of 1 or 2 of 4 operations (2 interrupts with 2 fingerprints each) | is the journal right whatever its callers do? | holds, 10 585 states |
| `hosted_turn` | hosted, 3 interrupts, batches of 2, 2 rounds, 1 answer, 2 containers | does a whole hosted turn keep the contract? | holds, 765 000 states |
| `local_turn` | local, 2 interrupts, batches of 2, 1 round, 2 containers | does an operation in the journal run once with pauses on disk? | holds, 2.7 million states |
| `repeating_brain` | hosted, a Brain that repeats interrupts, 3 rounds, fairness | is a repeat noticed after a pause, and does every turn end? | holds, 170 000 states |
| `local_lifetime` | local, 1 interrupt | does a Power run at most once over the life of a Team? | violated, finding 1 |
| `replay_after_refresh` | local, 1 interrupt, 2 generations of the account | can a suspended batch always be replayed? | violated, finding 2 |
| `stop_during_pause` | local, 1 interrupt | does Stop leave nothing to resume? | violated, finding 3 |
| `blue_green` | 3 containers, 2 threads, fairness of the loop | do names, service and reachability survive failures? | holds, 324 000 states |
| `cut_over_crash` | 3 containers, 1 thread | is the previous container never lost? | violated, finding 4 |
| `oauth_accounts` | both Controllers, 1 account, 2 threads, 2 sessions, 2 flights, 3 grants, fairness | are refreshes, disconnects and callbacks safe beside each other? | holds, 859 000 states |
| `hosted_teams` | 2 Teams of one owner, 1 App with a database, 2 Brain ids, 1 fault, fairness | does a hosted Team leave nothing behind, is memory promised once, and does a retried destroy end? | holds, 409 000 states (depth 154) |
| `hosted_chat` | 2 requests and a Stop, 2 turns, 2 challenges, 1 answer, 1 change of secret, credential or installation | do answers, Stop, rotation and reinstallation respect each other? | holds, 4.7 million states |

### Properties

* Journal: `TypeOK`, `NoDuplicateGrant`, `WithinCapacity`,
  `BatchIsNeverReplaced`; `StoredResultsAreFinal` is proved and has no run.
* Turn: `JournalTellsTheTruth` (a prepared operation has not run, a completed one ran
  once and its result is the stored one), `AtMostOncePerEntry`, `RunsAtMostOnce` (over
  the life of the Team), `OneSideEffectAtATime`, `UncertainStaysUncertain` (no error
  path clears an outcome nobody can report), `NoRepeatInTurn`,
  `DestroyedLeavesNothing`, `TurnEnds`, `ImplementsContract`.
* Deployer: `NamesAreFree`, `ServesUnlessCutOver`, `DeployedIsReachable`, `CaddyHeals`.
* OAuth: `TypeOK`, `SingleFlight` (one thread refreshes or revokes an account, although flight
  objects come and go), `RefreshReplacesWhatItRead`, `RevokedBeforeDeleted`, `ExchangedOnce`,
  `FlightsDrain`. The second and the third except a thread whose record an uninstall deleted
  and a new consent put back under the same generation (`overtaken`, section 4).
* Hosted Teams: `TypeOK`, `NoBrainNoResidue` (no private data, App or policy without an owner who
  can reach it), `EgressOnlyWhileInstalled`, `TeardownExcludesTurns` (no turn runs while a destroy
  or an uninstall deletes what it may store; the rollback of a create is excepted, and a turn
  beside it meets no App), `LedgerKept` (admission
  implements `CapacityLedger`), `DestroysItsOwnBrain` (a late destroy does not touch the Team
  that was created meanwhile), `RecordUntilGone` (the cleanup record goes last: nothing is left on
  the host, and in Postgres neither the Team's database nor anything registered; what was created
  and never registered is excepted, see section 4), `ForgottenWhenGone` (the registry forgets a
  database only when Postgres has dropped it), `OperationsEnd`, `RetriesEnd` (a Team with a cleanup record
  that names its Brain is destroyed in the end by an owner who retries, wherever earlier attempts
  broke off: in the host, in the record, in pg-driver with its principal retired).
* Hosted chat: `TypeOK` (with the capacity and uniqueness of the stores), `OnePending` (over the
  four stores together), `StoppedStaysStopped`, `RotationSurvives`, `GrantedForThisInstallation`.

Four assumptions are evaluated by TLC before a run starts: `PolicyIsAbstracted` and
`HostnamesOfBrains` with `hosted_teams`; `EveryKindRoundTrips` and `UnreadablePauses` with the
runs of `MCPowerTurn`. They compare pure operators over small sets of inputs and have no states.

Each property of a passing run has a mutant: a definition of the model changed the way
a plausible bug in the code would change it, with which TLC finds the property violated.

### Bounds and why they are enough

* Two operations in a batch are the least with an order: one completed and one
  uncertain, suspended or not begun. Three interrupts leave one for the next round.
* Two rounds are the least with a row that follows a delivered one; a pause between two
  deliveries, which `repeating_brain` needs, takes three.
* One answer (`MaxAnswers`) is one replay with a longer log and one refusal at the limit.
* Two results tell a result from another one; where no property compares results, one.
* Two containers let an old pause meet a new workload, two account generations let a
  refresh meet a prepared batch. `MaxGeneration` bounds an unbounded counter: accounts
  stop ageing there.
* `MaxRuns` = 2 bounds the runs of one interrupt that are followed; a second one is
  already the violation.
* Three generations compete for two rows; the capacity is met and exceeded.
* Three containers are an old one, one that was retired and a candidate. Identities are
  not used again, so the runs end with the last one: the deployer is checked over every
  history with three created containers, and proved for any number of them.
* Symmetry is used for generations, interrupts and results, which the code compares only
  with each other, and not in the runs with liveness.

* `oauth_accounts`: two threads are the least that race, two sessions and two states the least
  for a callback that is late for its challenge; `PerSession` is 1 and `Capacity` 2, so that both
  limits are met. Three grants are a consent, its refresh and the consent after a disconnect.
  Two flight objects are one in the table and one that its last user still holds.
* `hosted_teams`: `Busy` says which Team runs all operations; the other one is created and
  destroyed and competes for memory, of which there is enough for one Team and its App or for
  both Brains, not for all. Two Brain ids are an old Brain and the one of the Team created again
  under a late destroy. `MaxFaults` = 1 with `FaultsAlone` lets one step fail, or one crash or
  foreign container happen, anywhere in an operation, and the operations that follow deal with
  what it left. Two faults in one history are not explored. `StoreLimit` is one private datum at
  a time: no step depends on two of them.
* `hosted_chat`: two requests race for one challenge, a third thread stops. Two turns and two
  challenges let an old answer meet the challenge of a newer turn. `MaxChanges` = 1 is one
  replacement of the secret or the credential or one new installation, at any point. `Shared` has the one store
  that another Team may fill, at capacity 1.

Deadlock is not checked where the bounds let a system stop: a Team that is destroyed and
used up interrupts or containers, or a deployer, a host or an account store that used up the
identities, faults or grants of its run.

### Fairness

`repeating_brain` assumes `WF_vars(TurnStep)`: the thread of a turn goes on. Every call
it makes is bounded: the RPC by its deadline (`rpc_exchange`), the request to the Brain
by its socket timeout, the journal and the stores by local transactions. Nothing is
assumed of users, of time, of the Power or of the Brain: a Power that never ends is ended
by `RpcTimesOut`, a Brain that repeats itself by the round limit. `blue_green` assumes
`WF_vars(ReconcileCaddy)`: the loop runs every 30 seconds and the daemon answers it at some
time. `LoopDies` is part of the model, and `CaddyHeals` says nothing after it: the loop
catches `DockerException`, and a connection that breaks below that library is none.
`oauth_accounts` assumes `WF_vars(FlightStep(t))`: a thread inside a flight goes on, since
each request to the provider or the broker has a timeout. It is assumed to end, not to
succeed. `hosted_teams` assumes `WF_vars(OperationStep(t))`: the thread that has the lock of
a Team goes on; Docker, pg-driver and the proxy are called with timeouts, and the wait for
the chat lock is bounded (`ChatLockTimesOut`). No fairness is given to turns, to queued
requests, to faults or to users. `RetriesEnd` says what an owner can achieve and has its assumptions
in the property (`OwnerRetries`): the owner asks again and again for the destroy and for nothing
else (each request for an App takes the chat lock, even if it is refused), requests are served,
turns end, and an operator takes foreign containers out. Admission is left out of `OperationsEnd`, since its loop has
no bound: it starts again whenever another Team changed a reservation.

## 4. Findings

1. `local_lifetime`: the local Controller keeps the copy of a claimed pause on disk until
   the turn completes. A crash after the batch was delivered restores it, and its Powers
   run again. The hosted Controller has no copy, and `hosted_turn` shows `RunsAtMostOnce`
   for it.
2. `replay_after_refresh`: the preflight of a replay may refresh a token, which changes the
   fingerprint of the batch; the journal then refuses a batch in which nothing ran, and the
   row stays.
3. `stop_during_pause`: a turn may pause between the two halves of Stop; its challenge and
   its continuation survive.
4. `cut_over_crash`: a deploy that breaks off between the two renames leaves the container
   that served under the retiring name, and the next deploy removes it before its own
   candidate is healthy.

Seen while modelling and without a run of its own:

* One failure of pg-driver between `create_db_and_role` and `add_database` (`pg/app.py:75-77`)
  leaves the database of an App unregistered. The rollback of the install may not drop it (98-102),
  the destroy drops what is registered (112-118), retires and finalizes, and its cleanup record goes
  although `_teardown` promises to "Remove every Team artifact" (`hosted_lifecycle.py:230`): the
  database stays, and no record leads to it. The model keeps it in `orphaned`, `RecordUntilGone`
  excepts it (without the exception TLC finds this history), and `ForgottenWhenGone` shows that this
  is the only way: what was registered is dropped.
* A removal of an app that found no container tears down the network of one deployed meanwhile;
  the local `reset_space` keeps journal rows of Teams that no longer exist; local destroy and
  uninstall leave account challenges pending.
* A record that was disconnected and connected again starts at generation 1, so that a refresh
  of the first one may replace the second. `OAuthAccounts` keeps the two grants apart in
  `overtaken`. An OAuth callback that is late for an uninstall leaves an account that no
  installed Assistant declares.
* A create that fails at pg-driver rolls back with an empty Brain id (`hosted_lifecycle.py:350`).
  The rollback writes a cleanup record, but pg-driver refuses to drop a Team whose principal it
  never registered, and the record stays. A retried destroy computes a thread id from the empty id
  and is refused (`DeleteThread`); a create is refused because of the record. One failure makes the
  id of the Team unusable. `RetriesEnd` excepts records without a Brain for this reason: without
  the exception TLC finds this history. With a `DeleteThread` that accepts the empty id, pg-driver
  still refuses the retries; both have to change.
* The rollback of a create takes no chat lock (`hosted_lifecycle.py:347`) and deletes no thread of
  the Brain service. A turn that began between a configuration in place and the rollback, because
  `save` raised after its rename, loses its Team and leaves its thread in that service. It leaves
  nothing in the Team (`NoBrainNoResidue`), which has no App yet.
* An approval is claimed before its grant is written; if the write fails, the answer is lost
  (`GrantFails`).
* Stop reads the container of the active Power and kills it later; a new turn may run its Power
  there by then. A challenge created in a store that Stop has already emptied stays.
* A Brain's hostname is the id of its Team. `postgres` and the proxy are refused as names, the id
  of an App is not: Brain and App then answer to one name (`HostnamesOfBrains`).
* The reader of a stored pause asks for more than its writers: printable texts, trimmed options,
  at most 64 answered interrupts. A joined emoji in the name of a Team is enough for a pause that
  is written and cannot be read, and a Controller that restarts within the lifetime of that pause,
  300 seconds, does not start (`UnreadablePauses`).

They are hazards in `PROJECT.json` with their lines, where a hazard is not already covered.

## 5. Proofs

TLAPS checks the following for every value of the constants, under the named assumptions
only (`JournalAssumption`, `TurnAssumption`, `DeployAssumption`, `OAuthAssumption`,
`ChatAssumption`, `HostedAssumption`: bounds are naturals, the null values are no members of
the sets they are null for; for the hosted Teams also that there are finitely many names, as
they are short, and that Docker always has an id that a given request does not name).
Every safety and action property of a passing run, and both refinements, are theorems. The
bounds on faults, on who is busy and on what is stored are constants like the others: the
theorems hold whatever their values.

* **PowerJournalProofs**: all five properties of the journal. The invariant is `TypeOK` with
  `GrantsMatchStates`: an entry is prepared exactly when no decision is outstanding, so that
  `begin`, which asks for prepared, never grants a second. The capacity uses the cardinality
  theorems of the library; the two action properties follow from how a step may update a row.
* **PowerTurnProofs**: `TypeCorrect`, `JournalIsTrue`, `EntryRunsAtMostOnce` and
  `UncertaintyStays`, for both Controllers. `JournalTellsTheTruth` is not inductive: a result
  is stored by the turn but produced in the container. The invariant `IInv` adds
  `RpcsMatchRow` (an RPC of an entry exists only while the entry is executing, has the
  interrupt of that entry, and whatever it has produced is what `ran` has for it, so that a
  suspension finds nothing and a completion finds one run), the relation of the turn to its
  row (`TurnInv`: from prepare to delivery the row is the one of the handle, since only the
  holder of the chat lock prepares, delivers or purges; an operation that was granted and not
  yet sent is executing, has not run and has no RPC), and the types of everything around the
  turn (`TeamInv`). It is proved part by part, with one step per action.

  The second half is about the hosted Controller (`~Local`): `OneAtATime`, `NothingIsLeft` and
  `NoRepetition`, from `HostedInv`: the entries of a batch are begun in order, and none before
  the one before it is completed (`Ordered`); what a turn sends to the Brain is what the row
  has (`Answering`); a destroy has its record before it takes the chat lock, and removes the
  thread, the row and the containers in this order (`Destroying`); there is one RPC, and one
  whose row was purged belongs to a Team that admits nothing (`Running`); what the Brain was
  given in a turn is among the interrupts seen, in the turn or in its pause (`Answered`).
  `RunsOnce` and `TurnsImplementContract` assume besides that the Brain asks for each interrupt
  once (`~BrainRepeats`; with a Brain that repeats itself in another turn the code does run the
  Power again) and add two parts about the whole history: the turn, or its pause, asks for what
  the Brain waits on (`Asked`), and what was issued but never begun has produced nothing, what is in the row has
  produced what ran for its entry, and what is no longer in the row is no longer asked for
  (`Produced`). With it a run is `Run` of `PowerContract` and a resume is `Tell`: each result
  that goes to the Brain is the only one its Power produced; all other steps, crashes
  included, stutter. Both hypotheses are needed: `local_lifetime` violates `RunsAtMostOnce`
  without the first.
* **BlueGreenDeployProofs**: `TypeCorrect`, `NamesStayFree`, `ServiceHolds`,
  `DeploysAreReachable`. The invariant adds mutual exclusion under the lock of the app,
  uniqueness of names and identities, and what each thread relies on at each step: the
  candidate has its name until the cut-over, the retired container has the retiring name
  until it is removed, what was cleaned up stays so, and the candidate runs on the network
  from its start on.

* **NetworkPolicyProofs**: for any network, any containers and any hostnames, a network that is
  accepted is one that a teardown empties (`AcceptedNetworksEmpty`), its service names belong to
  the services alone (`ServiceNamesAreUnique`, if no App has an alias of a service, which the
  grammar of App ids and `RESERVED_SERVICE_ALIASES` say), a workload belongs to one Team
  (`WorkloadsBelongToOneTeam`), and only a stopped one may have no network (`LiveEndpointsAreBound`).
* **ContinuationCodecProofs**: `RoundTrips`, `DecodedBelongsToItsRelease`, `StartsAgain` and
  `PersistKeepsOthers`. Round trips hold for a `PlainPause` that `Fits` the limits of JSON:
  printable and trimmed texts, and no more answered interrupts than a record may have. These
  hypotheses are the difference between what is written and what is read; `UnreadablePauses`
  shows that each of them is needed.
* **OAuthAccountsProofs**: all safety properties of the accounts, for any number of accounts, sessions,
  threads and flights. `SingleFlight` is not inductive, because a flight object is dropped when
  its last user leaves and another is made: `Flights` adds that the table has the flight on
  which a thread is counted, so that two threads inside one account have one lock. From it and
  from generations that only grow while a record is there (`Reads`) follow
  `RefreshReplacesWhatItRead` and, with `Revocations`, `RevokedBeforeDeleted`. For
  `ExchangedOnce`, `Consents` says that a state is in one place: pending, claimed by one thread,
  or exchanged.
* **HostedChatProofs**: `TypeCorrect`, `WaitsForOne`, `RotationsSurvive`,
  `GrantsAreForThisInstallation` and `StopsAreFinal`. `OnePending` is not inductive: `Locks` adds
  that one thread has the chat lock, and that the token and the Power are its; `Waiting`, that
  nothing is pending while a turn works, so that a pause finds every store empty. `Rotations`
  and `Installs` say what a pending secret and a thread about to grant have compared under the
  lock. For the Stop, `Alive` collects what may still act for a turn (a message not yet begun, a
  working thread, an answer whose challenge is still there), `Fresh` says that nobody knows the
  turn of a new message, and `Over` that what is alive for a stopped turn is a thread whose token
  is marked. `Frames` says once for each part of the state which steps change it, and `Moves`
  how a step moves the requests, so that the other lemmas split on few cases.

* **HostedTeamsProofs**: `TypeCorrect`, `NothingRemains`, `EgressFollowsApps`, `TurnsAreExcluded`,
  `OnlyItsOwnBrain`, `RecordsOutliveTeams`, `ForgottenOnlyWhenGone`, `NeverOvercommitted` and `AdmissionKeepsLedger`. The
  run has two Teams of one owner, one of them busy, and one fault; the theorems hold for any
  number of each and for faults of several Teams at a time (`FaultsAlone = FALSE`).

  None of the properties is inductive, since each depends on how far the operation of a Team
  has come. `TeamInv` says of each Team: `RequestInv`, which labels an operation of each kind can
  reach, and that one about an App names it; `ReadingInv`, that an admission decides on a reading;
  `RecordInv`, between which steps there is a cleanup record; `BrainInv`, that a Brain an
  operation may strip is the one of its request, or was made by the create that rolls back;
  `ChatInv`, that a destroy, install or uninstall that deletes what a turn may store holds the chat
  lock, and that a turn beside a create or after its rollback has no App; `ResidueInv`, what
  a teardown has removed so far and that a create has at most its configuration, which with the
  record explains why a Team without Brain and record is clean; `EgressInv`, that a policy is written after its container is there and goes
  before it; `PgInv`, what pg-driver knows at each step, so that a record that says `dropped` is
  true and the record goes only after the principal; `RegisteredInv`, that a Team without Brain and
  record has no App registered, so that a provisioning, which replaces the list of databases,
  forgets none. The steps of a Team leave the parts of the
  others (`OnlyTeam`); what its own steps do is stated once per group of actions (`...Effects`),
  then once per field of the Team (`...Changes`: Brain, record, data, Apps, network, databases),
  so that each part of the invariant is proved from the fields it is about and not from 60
  actions. `OwnInv`, `OtherInv` and `CrashInv` are the cases of the step.

  For the ledger, `ReservationInv` adds that what is being made is reserved, and that the reading of
  a Team in `fresh` has the reservations as they are and every container that is not reserved:
  containers appear only under a reservation, and each change of the reservations empties `fresh`.
  Hence an admission that commits on a fresh reading counts every key that is held, some of
  them twice, and `AdmittedFits` shows that the sum the code compares bounds the ledger's.
  Sizes and memory are counted with the cardinality theorems of the library (`Sizes`, `Weights`,
  `FewerFit`). A commit is `Take`, a removal, an answer and a crash are `Give`; a container that is
  made under its reservation changes nothing that is held.

Only model-checked: liveness (`TurnEnds`, `CaddyHeals`, `FlightsDrain`, `OperationsEnd`, `RetriesEnd`),
which needs fairness and `ENABLED` and is out of the prover's reach. The assumptions that TLC
evaluates over small inputs (`PolicyIsAbstracted`, `HostnamesOfBrains`, `EveryKindRoundTrips`,
`UnreadablePauses`) are evaluated only. Of the local Controller, `RunsAtMostOnce` does not hold
(finding 1), and `OneSideEffectAtATime`, `NoRepeatInTurn`, `DestroyedLeavesNothing` and the contract are
neither checked nor proved; `AtMostOncePerEntry` is what it keeps, and is a theorem for both.

## 6. Not modelled, and why

* HTTP parsing and routing, the validation of manifests, marketplace entries and images, the
  security posture of a container, Caddy sites: pure functions that unit tests cover. What an
  authorization leaves behind, the lease, is in `HostedTeams` and `HostedChat`.
* Encryption, file modes, key rotation and JSON canonicalisation, abstracted to what they decide.
* The secret challenge of the local Controller, documented as dormant.
* Transport of the Brain client and of the proxies: its failures are in the models
  (`StartIsLost`, `ResumeIsLost`, `FailUncaught`, `FlightFails`, `StepOr`). The slots of a proxy are
  a semaphore and a counter, taken in one place and released in two that exclude each other: where
  the thread of a connection cannot be started, and at the end of that thread. The threads of the
  Brain service are not in `HostedTeams`; that a destroy deletes them is in `PowerTurn`.
* The quota of Team storage: one SQLite transaction for each operation. That a Team has files, and
  that a teardown removes them, is in `HostedTeams`.
* The rate limiter of `runtime_state.py`: one method under one lock.
* Local Teams are modelled as far as the turn, its challenges, the journal, the container and the
  accounts go; their networks and egress files are not.

## 7. Plan

1. Proofs: which of the hosted theorems about the turn hold for the local Controller, first
   `NoRepeatInTurn`, whose run uses the hosted one.
2. Proofs: `PolicyIsAbstracted` for every network, and that the registry of `PgRegistry` lets a
   retried destroy go on from every state the invariant allows, which is the safety part of
   `RetriesEnd`.
3. The destroy of `PowerTurn` shown to be an abstraction of that of `HostedTeams`.
4. `ProxyAdmission` and the quota of Team storage.
