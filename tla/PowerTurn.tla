------------------------------ MODULE PowerTurn ------------------------------
(***************************************************************************)
(* One Team generation and the chat turns that run Assistant Powers in it: *)
(* the orchestrator loop (chat_orchestrator.py, chat_turn_engine.py), the  *)
(* durable batch (power_execution.py over JournalRow), the Power RPC into  *)
(* the Assistant container, pauses for a person, Stop, Controller crashes  *)
(* and the destruction of the Team.                                        *)
(*                                                                         *)
(* Both Controllers drive the same loop.  Local says which one this is:    *)
(* the local Controller also keeps a paused turn on disk and restores it   *)
(* after a restart (local_chat_continuation_store.py); the hosted one      *)
(* keeps it in process memory only.                                        *)
(*                                                                         *)
(* One Assistant with one OAuth account stands for all of a Team; a Power  *)
(* request is its interrupt id, and its fingerprint is the container and   *)
(* the account generation it was prepared with.                            *)
(***************************************************************************)
EXTENDS JournalRow, Integers, FiniteSets

CONSTANTS
  Local,            \* TRUE for the local Controller, FALSE for the hosted one
  Interrupt,        \* ids of Brain suspensions
  Result,           \* canonical Power results
  NoPark,           \* no turn is paused
  BrainRepeats,     \* whether the Brain may request an interrupt again
  MaxOperations,    \* MAX_POWER_REQUESTS: the longest batch
  MaxRounds,        \* MAX_POWER_ROUNDS
  MaxAnswers,       \* MAX_ORDINAL + 1: human answers for one Power request
  MaxGeneration,    \* bound on the generation of the account record
  MaxContainers,    \* bound on installations of the Assistant
  MaxRuns           \* bound on the runs of one interrupt that are followed

ASSUME TurnAssumption ==
  /\ Local \in BOOLEAN /\ BrainRepeats \in BOOLEAN
  /\ NoResult \notin Result
  /\ MaxOperations \in Nat \ {0} /\ MaxRounds \in Nat \ {0}
  /\ MaxAnswers \in Nat /\ MaxGeneration \in Nat /\ MaxContainers \in Nat \ {0}
  /\ MaxRuns \in Nat

VARIABLES
  \* the durable journal row of this generation, and the runs behind its entries
  row, ran,
  \* the Brain: the suspension it waits on, the interrupts it has used
  brain, issued,
  \* the turn that holds the Team's chat lock
  pc, request, handle, results, seen, round, answers, cancelled,
  \* the paused turn: the pending challenge, and its copy on disk
  parked, saved,
  \* the Assistant container: which one, its status, the Power RPCs running in
  \* it, and whether the Controller refuses to use it
  container, status, rpcs, blocked,
  \* the OAuth account record: its status and its generation, 0 when missing
  account, generation,
  \* whether the Team generation still exists, and the request that is
  \* cancelling its work
  live, canceller,
  \* history: the results every interrupt produced, the result the Brain was
  \* told last for it, and the interrupts answered in the present turn
  produced, told, turnAnswered

journal == <<row, ran>>
brainVars == <<brain, issued>>
turn == <<pc, request, handle, results, seen, round, answers, cancelled>>
waiting == <<parked, saved>>
workload == <<container, status, rpcs, blocked>>
credential == <<account, generation>>
team == <<live, canceller>>
history == <<produced, told, turnAnswered>>
vars == <<journal, brainVars, turn, waiting, workload, credential, team, history>>

-----------------------------------------------------------------------------
\* A batch the parser and _validate_batch accept: bounded, no interrupt twice.
Batch == UNION {{b \in [1..n -> Interrupt] : IsInjective(b)} : n \in 1..MaxOperations}

\* What the Brain may answer: the turn is complete, a new suspension, the one
\* it still waits on, or, when it misbehaves, interrupts of an earlier one.
BrainReply ==
  {<< >>, brain} \cup {b \in Batch : BrainRepeats \/ Range(b) \cap issued = {}}

BrainAnswers(next) ==
  /\ brain' = next
  /\ issued' = issued \cup Range(next)

\* The Team exists; the hosted Controller admits nothing but a retry once the
\* cleanup record of a destroy exists.
Admitted == live /\ (~Local => canceller # "destroy")

\* _validate_chat_context: the Team and the running container of the turn.
Context == Admitted /\ status = "running" /\ ~blocked

\* An account whose token is inside the refresh window is still connected.
Connected == account \in {"connected", "near"}

\* resolve: a token inside the refresh window is replaced, and put advances
\* the generation of the record.
Resolved == IF account = "near" THEN generation + 1 ELSE generation
ResolveAccount ==
  /\ Connected
  /\ account' = "connected"
  /\ generation' = Resolved

\* power_operation: the request with the identities its fingerprint commits to.
OperationOf(i, gen) == [interrupt |-> i, container |-> container, generation |-> gen]
Operations(batch, gen) == [k \in DOMAIN batch |-> OperationOf(batch[k], gen)]

NothingRan == [k \in 1..MaxOperations |-> << >>]
NoAnswers == [i \in Interrupt |-> 0]

\* The ordinal of the Power the turn works on.
Ordinal == Len(results) + 1

\* Mutant of OneMoreAnswer: an answer is not appended to the log.
AnswerIsDropped == answers

\* The answers once the person the Power waits for has answered.
OneMoreAnswer == [answers EXCEPT ![request[Ordinal]] = @ + 1]

\* The turn releases the chat lock; only what others keep of it remains.
TurnOver ==
  /\ pc' = "idle"
  /\ request' = << >> /\ handle' = << >> /\ results' = << >>
  /\ seen' = {} /\ round' = 0 /\ answers' = NoAnswers /\ cancelled' = FALSE

-----------------------------------------------------------------------------
Init ==
  /\ row = NoRow /\ ran = NothingRan
  /\ brain = << >> /\ issued = {}
  /\ pc = "idle" /\ request = << >> /\ handle = << >> /\ results = << >>
  /\ seen = {} /\ round = 0 /\ answers = NoAnswers /\ cancelled = FALSE
  /\ parked = NoPark /\ saved = NoPark
  /\ container = 1 /\ status = "running" /\ rpcs = {} /\ blocked = FALSE
  /\ account = "missing" /\ generation = 0
  /\ live = TRUE /\ canceller = "none"
  /\ produced = [i \in Interrupt |-> << >>]
  /\ told = [i \in Interrupt |-> NoResult]
  /\ turnAnswered = {}

\* chat: take the chat lock and send the message.  A pending challenge is
\* returned instead of starting a second turn.
MayStart == pc = "idle" /\ parked = NoPark /\ Context

StartTurn ==
  /\ MayStart
  /\ \E next \in BrainReply :
       /\ BrainAnswers(next)
       /\ request' = next
  /\ pc' = "round"
  /\ turnAnswered' = {}
  /\ UNCHANGED <<journal, handle, results, seen, round, answers, cancelled, waiting,
                 workload, credential, team, produced, told>>

\* The Brain has the message, its answer is lost and the turn fails.
StartIsLost ==
  /\ MayStart
  /\ \E next \in BrainReply : BrainAnswers(next)
  /\ UNCHANGED <<journal, turn, waiting, workload, credential, team, history>>

\* A terminal reply: the continuation on disk is deleted, the token committed.
CompleteTurn ==
  /\ pc = "round" /\ request = << >>
  /\ ~cancelled /\ Context
  /\ TurnOver
  /\ saved' = NoPark
  /\ UNCHANGED <<journal, brainVars, parked, workload, credential, team, history>>

-----------------------------------------------------------------------------
\* The Brain must not request an interrupt of an earlier round again.
FreshForTurn(batch) == Range(batch) \cap seen = {}

\* Mutant of RoundAdmitted: the round limit is not compared.
RoundAdmittedForever ==
  /\ pc = "round" /\ request # << >>
  /\ ~cancelled /\ Context
  /\ FreshForTurn(request)

\* The checks of the loop head before a batch may be paused or prepared.
RoundAdmitted ==
  /\ pc = "round" /\ request # << >>
  /\ ~cancelled /\ Context
  /\ round < MaxRounds
  /\ FreshForTurn(request)

\* Mutant of ParkedTurn: the continuation forgets the interrupts it has seen.
ParkedTurnForgets(kind, given) ==
  [kind |-> kind, request |-> request, seen |-> {}, round |-> round,
   answers |-> given, container |-> container]

\* The continuation, with the answers its next segment will have.
ParkedTurn(kind, given) ==
  [kind |-> kind, request |-> request, seen |-> seen, round |-> round,
   answers |-> given, container |-> container]

\* A challenge is created, copied to disk by the local Controller, and the
\* turn is committed as paused unless Stop came first.
Park(kind, given) ==
  /\ ~cancelled
  /\ parked' = ParkedTurn(kind, given)
  /\ saved' = IF Local THEN ParkedTurn(kind, given) ELSE NoPark
  /\ TurnOver

\* An account the batch needs is not connected: pause before the journal is
\* touched.  An expired token counts as not connected.
ParkForAccount ==
  /\ RoundAdmitted
  /\ ~Connected
  /\ Park("account", answers)
  /\ UNCHANGED <<journal, brainVars, workload, credential, team, history>>

\* PowerBatch.prepare: a preflight may refresh the token, then the batch is
\* inserted, or found unchanged in the journal.
PrepareBatch ==
  /\ RoundAdmitted
  /\ ResolveAccount
  /\ handle' = Operations(request, Resolved)
  /\ \/ row = NoRow /\ row' = Inserted(handle') /\ ran' = NothingRan
     \/ Current(row, handle') /\ UNCHANGED journal
  /\ pc' = "invoke"
  /\ UNCHANGED <<brainVars, request, results, seen, round, answers, cancelled, waiting,
                 workload, team, history>>

\* The journal refuses: another batch is pending, or its capacity is reached.
PrepareIsRefused ==
  /\ RoundAdmitted
  /\ ResolveAccount
  /\ ~Current(row, Operations(request, Resolved))
  /\ TurnOver
  /\ UNCHANGED <<journal, brainVars, waiting, workload, team, history>>

-----------------------------------------------------------------------------
\* PowerBatch.invoke recomputes the fingerprint, and so may refresh the token
\* again, before it asks the journal; _load_batch checks the handle.
InvocationCurrent ==
  /\ pc = "invoke" /\ Ordinal <= Len(handle)
  /\ ~cancelled /\ Context
  /\ Current(row, handle)
  /\ ResolveAccount
  /\ handle[Ordinal] = OperationOf(request[Ordinal], Resolved)

\* begin: a prepared operation becomes executing before anything is sent.
BeginPower ==
  /\ InvocationCurrent
  /\ MayExecute(row, Ordinal)
  /\ row' = Begun(row, Ordinal)
  /\ pc' = "granted"
  /\ UNCHANGED <<ran, brainVars, request, handle, results, seen, round, answers, cancelled,
                 waiting, workload, team, history>>

\* begin: a completed operation is answered from the journal.
UseStoredResult ==
  /\ InvocationCurrent
  /\ row[Ordinal].state = "completed"
  /\ results' = Append(results, row[Ordinal].result)
  /\ UNCHANGED <<journal, brainVars, pc, request, handle, seen, round, answers, cancelled,
                 waiting, workload, team, history>>

\* The operation is uncertain, or the credentials are no longer the prepared
\* ones: the turn fails and the row stays as it is.
InvokeIsRefused ==
  /\ pc = "invoke" /\ Ordinal <= Len(handle)
  /\ ~cancelled /\ Context
  /\ ResolveAccount
  /\ \/ handle[Ordinal] # OperationOf(request[Ordinal], Resolved)
     \/ row[Ordinal].state = "executing"
  /\ TurnOver
  /\ UNCHANGED <<journal, brainVars, waiting, workload, team, history>>

\* _invoke_chat_power and invoke: the guard is checked after begin, so a Stop
\* here leaves the operation executing although nothing was sent (AbortTurn);
\* the token is resolved once more, then the RPC starts.
DispatchPower ==
  /\ pc = "granted"
  /\ ~cancelled /\ Context
  /\ ResolveAccount
  /\ rpcs' = rpcs \cup {[entry |-> Ordinal, interrupt |-> request[Ordinal], out |-> NoResult]}
  /\ pc' = "running"
  /\ UNCHANGED <<journal, brainVars, request, handle, results, seen, round, answers, cancelled,
                 waiting, container, status, blocked, team, history>>

\* The side effect: the Power runs to its result inside the container, whether
\* or not a Controller still waits for it.
PowerRuns(r) ==
  /\ r.out = NoResult
  /\ Len(produced[r.interrupt]) < MaxRuns
  /\ \E v \in Result :
       /\ rpcs' = (rpcs \ {r}) \cup {[r EXCEPT !.out = v]}
       /\ produced' = [produced EXCEPT ![r.interrupt] = Append(@, v)]
       /\ ran' = IF r.entry = 0 THEN ran ELSE [ran EXCEPT ![r.entry] = Append(@, v)]
  /\ UNCHANGED <<row, brainVars, turn, waiting, container, status, blocked, credential, team,
                 told, turnAnswered>>

\* A Power nobody waits for comes to its end.
OrphanExits(r) ==
  /\ ~(pc = "running" /\ r.entry = Ordinal)
  /\ rpcs' = rpcs \ {r}
  /\ UNCHANGED <<journal, brainVars, turn, waiting, container, status, blocked, credential,
                 team, history>>

\* The result arrives, is projected and stored: complete.
ReplyCompletes(r) ==
  /\ pc = "running" /\ r.entry = Ordinal
  /\ r.out # NoResult
  /\ ~cancelled
  /\ MayComplete(row, Ordinal)
  /\ row' = Completed(row, Ordinal, r.out)
  /\ results' = Append(results, r.out)
  /\ rpcs' = rpcs \ {r}
  /\ pc' = "invoke"
  /\ UNCHANGED <<ran, brainVars, request, handle, seen, round, answers, cancelled, waiting,
                 container, status, blocked, credential, team, history>>

\* Mutant of Interacted: a suspension is taken for a result already there.
InteractedAnyway(r) == TRUE

\* The Power ended by asking a person, before any side effect of its own.
Interacted(r) == r.out = NoResult

\* The Power asks for an input or an approval: suspend makes the operation
\* replayable and the orchestrator returns the same turn and round.  A call
\* site beyond the last ordinal fails the turn.
ReplySuspends(r) ==
  /\ pc = "running" /\ r.entry = Ordinal
  /\ Interacted(r)
  /\ ~cancelled
  /\ MaySuspend(row, Ordinal)
  /\ row' = Suspended(row, Ordinal)
  /\ rpcs' = rpcs \ {r}
  /\ \/ /\ answers[request[Ordinal]] < MaxAnswers
        /\ pc' = "pause"
        /\ UNCHANGED <<request, handle, results, seen, round, answers, cancelled>>
     \/ /\ answers[request[Ordinal]] >= MaxAnswers
        /\ TurnOver
  /\ UNCHANGED <<ran, brainVars, waiting, container, status, blocked, credential, team, history>>

\* The RPC ends without a usable reply: a non-zero exit, a result that fails
\* its contract, a reply that comes after Stop, or a result that cannot be
\* stored.  The operation stays executing.
ReplyFails ==
  /\ pc = "running"
  /\ rpcs' = {r \in rpcs : r.entry # Ordinal}
  /\ TurnOver
  /\ UNCHANGED <<journal, brainVars, waiting, container, status, blocked, credential, team,
                 history>>

\* _fail_stop_power: the container is stopped, which ends every RPC in it, or
\* its end cannot be proved and the Controller refuses to use it.
FailStop ==
  \/ status' = "stopped" /\ rpcs' = {} /\ UNCHANGED <<container, blocked>>
  \/ blocked' = TRUE /\ UNCHANGED <<container, status, rpcs>>

\* The RPC times out or its transport breaks.
RpcTimesOut ==
  /\ pc = "running"
  /\ FailStop
  /\ TurnOver
  /\ UNCHANGED <<journal, brainVars, waiting, credential, team, history>>

-----------------------------------------------------------------------------
\* The Power waits for a person: the challenge is created and the turn parked.
ParkForAnswer ==
  /\ pc = "pause"
  /\ Park("answer", OneMoreAnswer)
  /\ UNCHANGED <<journal, brainVars, workload, credential, team, history>>

\* An approval granted once for all answers itself: the segment runs again
\* with one more answer and a new handle.
GrantReplays ==
  /\ pc = "pause"
  /\ Context
  /\ pc' = "round" /\ handle' = << >> /\ results' = << >>
  /\ answers' = OneMoreAnswer
  /\ UNCHANGED <<journal, brainVars, request, seen, round, cancelled, waiting, workload,
                 credential, team, history>>

\* A submission claims the challenge once, in the same workload; an account
\* challenge only when its account is connected.  The copy on disk stays.
ClaimParked ==
  /\ pc = "idle" /\ parked # NoPark
  /\ Context /\ parked.container = container
  /\ parked.kind = "account" => Connected
  /\ pc' = "round"
  /\ request' = parked.request /\ seen' = parked.seen /\ round' = parked.round
  /\ answers' = parked.answers
  /\ parked' = NoPark
  /\ UNCHANGED <<journal, brainVars, handle, results, cancelled, saved, workload, credential,
                 team, history>>

\* The workload changed: the challenge is cancelled.
ClaimIsRefused ==
  /\ pc = "idle" /\ parked # NoPark
  /\ Context /\ parked.container # container
  /\ parked' = NoPark
  /\ UNCHANGED <<journal, brainVars, turn, saved, workload, credential, team, history>>

\* The lifetime of the challenge and of its copy ends; both have one deadline.
ChallengeExpires ==
  /\ parked # NoPark \/ saved # NoPark
  /\ parked' = NoPark /\ saved' = NoPark
  /\ UNCHANGED <<journal, brainVars, turn, workload, credential, team, history>>

-----------------------------------------------------------------------------
\* Mutant of ResultsToSend: the results are sent in the opposite order.
ResultsReversed == [k \in DOMAIN results |-> results[Len(results) + 1 - k]]

\* The results of the batch as they are sent to the Brain.
ResultsToSend == results

\* Every operation of the batch has its result and the context still holds.
MayResume ==
  /\ pc = "invoke" /\ handle # << >>
  /\ Len(results) = Len(handle)
  /\ Context

\* The Brain takes the results of exactly the suspension it waits on.
BrainAccepts ==
  /\ brain = request
  /\ told' = [i \in Interrupt |->
       IF i \in Range(request)
         THEN ResultsToSend[CHOOSE k \in DOMAIN request : request[k] = i]
         ELSE told[i]]
  /\ turnAnswered' = turnAnswered \cup Range(request)

\* resume returns the next turn, which repeats no interrupt of this one.
ResumeTurn ==
  /\ MayResume /\ BrainAccepts
  /\ seen' = seen \cup Range(request)
  /\ \E next \in BrainReply \ {request} :
       /\ BrainAnswers(next)
       /\ Range(next) \cap seen' = {}
       /\ request' = next
  /\ pc' = "deliver"
  /\ UNCHANGED <<journal, handle, results, round, answers, cancelled, waiting, workload,
                 credential, team, produced>>

\* resume was accepted, but its reply is lost or repeats an interrupt: the
\* turn fails before the batch is marked delivered.
ResumeIsLost ==
  /\ MayResume /\ BrainAccepts
  /\ \E next \in BrainReply : BrainAnswers(next)
  /\ TurnOver
  /\ UNCHANGED <<journal, waiting, workload, credential, team, produced>>

\* batch_delivered: the row is deleted after the Brain has the results.
DeliverBatch ==
  /\ pc = "deliver"
  /\ Current(row, handle) => Deliverable(row)
  /\ row' = NoRow /\ ran' = NothingRan
  /\ pc' = "round"
  /\ handle' = << >> /\ results' = << >>
  /\ round' = round + 1
  /\ UNCHANGED <<brainVars, request, seen, answers, cancelled, waiting, workload, credential, team,
                 history>>

\* Mutant of AbortTurn: a failing turn clears the operation it had begun.
AbortCleansUp ==
  /\ pc \in {"round", "invoke", "granted", "pause", "deliver"}
  /\ TurnOver
  /\ row' = IF pc = "granted" THEN Suspended(row, Ordinal) ELSE row
  /\ UNCHANGED <<ran, brainVars, waiting, workload, credential, team, history>>

\* Any check of the loop, call to the Brain or journal transaction may fail:
\* the turn ends with an error and what is durable stays as it is.
AbortTurn ==
  /\ pc \in {"round", "invoke", "granted", "pause", "deliver"}
  /\ TurnOver
  /\ UNCHANGED <<journal, brainVars, waiting, workload, credential, team, history>>

-----------------------------------------------------------------------------
TurnActive == pc \notin {"idle", "deleting", "purging", "removing"}

\* stop_chat, first half: the pending challenges and the copy on disk are
\* deleted.  The turn may still pause before the second half.
StopChat ==
  /\ Admitted /\ canceller = "none"
  /\ parked' = NoPark /\ saved' = NoPark
  /\ canceller' = IF TurnActive THEN "stopTurn" ELSE "stop"
  /\ UNCHANGED <<journal, brainVars, turn, workload, credential, live, history>>

\* The token of an active turn is cancelled and its Power is fail-stopped.
CancelTurn ==
  /\ cancelled' = TurnActive
  /\ IF pc = "running" THEN FailStop ELSE UNCHANGED workload

\* stop_chat, second half, under the guard of the active turns.
StopMarksTurn ==
  /\ canceller \in {"stop", "stopTurn"}
  /\ CancelTurn
  /\ canceller' = "none"
  /\ UNCHANGED <<journal, brainVars, pc, request, handle, results, seen, round, answers,
                 waiting, credential, live, history>>

\* What a restarted Controller knows of a paused turn.
RestoredTurn == IF Local THEN saved ELSE NoPark

\* The Controller process dies and starts again: the turn, the challenges and
\* the refusal of a container are gone; the journal, the copy on disk, the
\* cleanup record and the processes in the container are not.
CrashController ==
  /\ TurnOver
  /\ parked' = RestoredTurn
  /\ blocked' = FALSE
  /\ canceller' = IF ~Local /\ canceller = "destroy" THEN "destroy" ELSE "none"
  /\ UNCHANGED <<journal, brainVars, saved, container, status, rpcs, credential, live, history>>

-----------------------------------------------------------------------------
\* The OAuth callback stores a new token set: put advances the generation of
\* an existing record and starts a missing one at 1.
ConnectAccount ==
  /\ live /\ generation < MaxGeneration
  /\ account' = "connected" /\ generation' = generation + 1
  /\ UNCHANGED <<journal, brainVars, turn, waiting, workload, team, history>>

\* disconnect: revoke_then_delete removes the record.
DisconnectAccount ==
  /\ account # "missing"
  /\ account' = "missing" /\ generation' = 0
  /\ UNCHANGED <<journal, brainVars, turn, waiting, workload, team, history>>

\* Time passes: the token enters its refresh window, and later expires.
TokenAges ==
  /\ \/ account = "connected" /\ generation < MaxGeneration /\ account' = "near"
     \/ account = "near" /\ account' = "expired"
  /\ UNCHANGED <<journal, brainVars, turn, waiting, workload, generation, team, history>>

\* A direct invocation of a Power resolves the account beside the turn.
DirectInvocation ==
  /\ Context /\ account = "near"
  /\ ResolveAccount
  /\ UNCHANGED <<journal, brainVars, turn, waiting, workload, team, history>>

\* The container ends by itself; its restart policy is "no".
ContainerExits ==
  /\ status = "running"
  /\ status' = "stopped" /\ rpcs' = {}
  /\ UNCHANGED <<journal, brainVars, turn, waiting, container, blocked, credential, team,
                 history>>

\* What is left of a paused turn when its challenges are cancelled: the local
\* Controller does not cancel the account challenge here.
LeftPending == IF Local /\ parked # NoPark /\ parked.kind = "account" THEN parked ELSE NoPark

\* install_assistant, serialized against the turn: a new container, or in the
\* local Controller the stopped one again.
InstallAssistant ==
  /\ Admitted /\ pc = "idle"
  /\ \/ Local /\ status = "stopped" /\ UNCHANGED container
     \/ status = "absent" /\ container < MaxContainers /\ container' = container + 1
  /\ status' = "running"
  /\ UNCHANGED <<journal, brainVars, turn, waiting, rpcs, blocked, credential, team, history>>

\* uninstall_assistant, serialized against the turn: the container and the
\* private state of the Assistant are removed.
UninstallAssistant ==
  /\ Admitted /\ pc = "idle" /\ status # "absent"
  /\ parked' = LeftPending /\ saved' = NoPark
  /\ status' = "absent" /\ rpcs' = {} /\ blocked' = FALSE
  /\ account' = "missing" /\ generation' = 0
  /\ UNCHANGED <<journal, brainVars, turn, container, team, history>>

-----------------------------------------------------------------------------
\* destroy_team of the local Controller, before it has the chat lock: pending
\* challenges are cancelled first and the active turn second.
DestroyTeam ==
  /\ Local /\ live /\ canceller = "none"
  /\ parked' = LeftPending /\ saved' = NoPark
  /\ canceller' = "cancel"
  /\ UNCHANGED <<journal, brainVars, turn, workload, credential, live, history>>

DestroyMarksTurn ==
  /\ canceller = "cancel"
  /\ CancelTurn
  /\ canceller' = "destroy"
  /\ UNCHANGED <<journal, brainVars, pc, request, handle, results, seen, round, answers,
                 waiting, credential, live, history>>

\* _destroy of the hosted Controller writes its cleanup record first.
DestroyHostedTeam ==
  /\ ~Local /\ live /\ canceller = "none"
  /\ canceller' = "destroy"
  /\ UNCHANGED <<journal, brainVars, turn, waiting, workload, credential, live, history>>

\* The chat lock is taken: no turn is active until it is released.
DestroyBegins ==
  /\ live /\ pc = "idle" /\ canceller = "destroy"
  /\ pc' = "deleting"
  /\ UNCHANGED <<journal, brainVars, request, handle, results, seen, round, answers, cancelled,
                 waiting, workload, credential, team, history>>

\* delete_thread: the Brain forgets the conversation.
DestroyDeletesThread ==
  /\ pc = "deleting"
  /\ pc' = "purging" /\ brain' = << >>
  /\ UNCHANGED <<journal, issued, request, handle, results, seen, round, answers, cancelled,
                 waiting, workload, credential, team, history>>

\* purge deletes the row.  An RPC that still runs is no longer one of the row.
DestroyPurges ==
  /\ pc = "purging"
  /\ pc' = "removing"
  /\ row' = NoRow /\ ran' = NothingRan
  /\ rpcs' = {[r EXCEPT !.entry = 0] : r \in rpcs}
  /\ UNCHANGED <<brainVars, request, handle, results, seen, round, answers, cancelled, waiting,
                 container, status, blocked, credential, team, history>>

ContainersGone == status' = "absent" /\ rpcs' = {} /\ blocked' = FALSE

\* A step fails, the last one before or after the containers were removed.
\* What is done stays done; only the hosted cleanup record survives.
DestroyFails ==
  /\ pc \in {"deleting", "purging", "removing"}
  /\ pc' = "idle"
  /\ canceller' = IF Local THEN "none" ELSE "destroy"
  /\ \/ UNCHANGED <<status, rpcs, blocked>>
     \/ pc = "removing" /\ ContainersGone
  /\ UNCHANGED <<journal, brainVars, request, handle, results, seen, round, answers, cancelled,
                 waiting, container, credential, live, history>>

\* The local Controller does not get the chat lock in time.
DestroyGivesUp ==
  /\ Local /\ canceller = "destroy" /\ TurnActive
  /\ canceller' = "none"
  /\ UNCHANGED <<journal, brainVars, turn, waiting, workload, credential, live, history>>

TeamIsGone ==
  /\ live' = FALSE /\ canceller' = "none"
  /\ ContainersGone
  /\ account' = "missing" /\ generation' = 0
  /\ UNCHANGED container

\* Mutant of LeftByTeardown: the pause outlives the Team.
PauseLeftByTeardown == parked

\* The hosted teardown cancels every challenge while it holds the chat lock;
\* the local one did so before it had the lock.
LeftByTeardown == IF Local THEN parked ELSE NoPark

DestroyFinishes ==
  /\ pc = "removing"
  /\ pc' = "idle"
  /\ TeamIsGone
  /\ parked' = LeftByTeardown
  /\ UNCHANGED <<journal, brainVars, request, handle, results, seen, round, answers, cancelled,
                 saved, history>>

\* reset_space of the local Controller: every Team lock but no chat lock, and
\* neither the conversation nor the journal row.
ResetSpace ==
  /\ Local /\ live /\ pc \notin {"deleting", "purging", "removing"}
  /\ parked' = LeftPending /\ saved' = NoPark
  /\ TeamIsGone
  /\ UNCHANGED <<journal, brainVars, turn, history>>

-----------------------------------------------------------------------------
\* The steps of the turn itself, which its thread takes without help.
TurnStep ==
  \/ CompleteTurn \/ ParkForAccount \/ PrepareBatch \/ PrepareIsRefused
  \/ BeginPower \/ UseStoredResult \/ InvokeIsRefused
  \/ DispatchPower
  \/ \E r \in rpcs : ReplyCompletes(r) \/ ReplySuspends(r)
  \/ ReplyFails \/ RpcTimesOut
  \/ ParkForAnswer \/ GrantReplays
  \/ ResumeTurn \/ ResumeIsLost \/ DeliverBatch \/ AbortTurn

\* What users, operators, time and failures do beside it.
Surroundings ==
  \/ StartTurn \/ StartIsLost \/ ClaimParked \/ ClaimIsRefused \/ ChallengeExpires
  \/ StopChat \/ StopMarksTurn \/ CrashController
  \/ \E r \in rpcs : PowerRuns(r) \/ OrphanExits(r)
  \/ ConnectAccount \/ DisconnectAccount \/ TokenAges \/ DirectInvocation
  \/ ContainerExits \/ InstallAssistant \/ UninstallAssistant
  \/ DestroyTeam \/ DestroyMarksTurn \/ DestroyHostedTeam
  \/ DestroyBegins \/ DestroyDeletesThread \/ DestroyPurges
  \/ DestroyFails \/ DestroyGivesUp \/ DestroyFinishes \/ ResetSpace

Next == TurnStep \/ Surroundings

Spec == Init /\ [][Next]_vars

\* The thread of a turn keeps running: every call it makes is bounded, the
\* Power RPC by its deadline and the Brain request by its socket timeout.
FairSpec == Spec /\ WF_vars(TurnStep)

-----------------------------------------------------------------------------
Operation == [interrupt : Interrupt, container : Nat, generation : Nat]
Entry == [op : Operation, state : EntryState, result : Result \cup {NoResult}]
Rpc == [entry : 0..MaxOperations, interrupt : Interrupt, out : Result \cup {NoResult}]
Request == {<< >>} \cup Batch
Pause == [kind : {"account", "answer"}, request : Request, seen : SUBSET Interrupt,
          round : 0..MaxRounds, answers : [Interrupt -> 0..MaxAnswers], container : 1..MaxContainers]

\* The type invariant of the turn and everything around it.
TypeOK ==
  /\ row \in Seq(Entry) /\ Len(row) <= MaxOperations
  /\ ran \in [1..MaxOperations -> Seq(Result)]
  /\ brain \in Request /\ issued \in SUBSET Interrupt
  /\ pc \in {"idle", "round", "invoke", "granted", "running", "pause", "deliver",
            "deleting", "purging", "removing"}
  /\ request \in Request /\ handle \in Seq(Operation) /\ results \in Seq(Result)
  /\ seen \in SUBSET Interrupt /\ round \in 0..MaxRounds /\ answers \in [Interrupt -> 0..MaxAnswers]
  /\ cancelled \in BOOLEAN
  /\ parked \in Pause \cup {NoPark} /\ saved \in Pause \cup {NoPark}
  /\ container \in 1..MaxContainers /\ status \in {"running", "stopped", "absent"}
  /\ rpcs \in SUBSET Rpc /\ blocked \in BOOLEAN
  /\ account \in {"missing", "connected", "near", "expired"} /\ generation \in 0..MaxGeneration
  /\ live \in BOOLEAN
  /\ canceller \in {"none", "stop", "stopTurn", "cancel", "destroy"}
  /\ produced \in [Interrupt -> Seq(Result)]
  /\ told \in [Interrupt -> Result \cup {NoResult}]
  /\ turnAnswered \in SUBSET Interrupt

\* While a batch is in the journal no operation of it runs twice, whatever is
\* stopped, lost, repeated or restarted (power_journal.py: "finding it there
\* again is intentionally an uncertain outcome").
AtMostOncePerEntry == \A k \in DOMAIN row : Len(ran[k]) <= 1

\* What the journal says of an operation is what happened: a prepared one has
\* not run, a completed one ran once and its result is the stored one.
JournalTellsTheTruth ==
  \A k \in DOMAIN row :
    /\ row[k].state = "prepared" => ran[k] = << >>
    /\ row[k].state = "completed" => ran[k] = <<row[k].result>>

\* No Power of the Team runs twice for one request of the Brain, over the
\* whole life of the Team (LOCAL_CONTROLLER.md: "durable journal state
\* prevents ambiguous retries from silently executing a non-idempotent Power
\* twice").
RunsAtMostOnce == \A i \in Interrupt : Len(produced[i]) <= 1

\* Two Powers of chat turns never run at the same time, also when an earlier
\* Controller left one running.
OneSideEffectAtATime == Cardinality(rpcs) <= 1

\* An operation whose outcome nobody can report any more stays uncertain for
\* as long as its row exists: no error path makes it runnable again.
UncertainStaysUncertain ==
  [][\A k \in DOMAIN row :
       (row[k].state = "executing" /\ ~(\E r \in rpcs : r.entry = k) /\ row' # NoRow)
         => row'[k].state = "executing"]_vars

\* Within one turn, and over all of its pauses, no interrupt runs again after
\* the Brain was given its result.
NoRepeatInTurn ==
  [][\A i \in turnAnswered : produced'[i] = produced[i]]_vars

\* A destroyed Team generation leaves nothing behind that could be resumed,
\* and no row that would use journal capacity for ever.
DestroyedLeavesNothing ==
  ~live => row = NoRow /\ parked = NoPark /\ saved = NoPark

\* When Stop has finished, nothing of the work it was asked to cancel can be
\* resumed (chat_resume.py: "Stop can now always cancel either the pending
\* challenge or this exact continuation; no unowned gap exists").
StopLeavesNoGap ==
  [][canceller = "stopTurn" /\ StopMarksTurn => cancelled' \/ (parked = NoPark /\ saved = NoPark)]_vars

\* A turn that resumes with a person's answer can replay its batch: what is in
\* the journal is not refused because the preflight of the replay refreshed a
\* token (power_journal.py: a suspension returns an operation to ``prepared``
\* "for deterministic replay").
SuspendedBatchIsReplayable ==
  [][PrepareIsRefused /\ answers # NoAnswers
       => ~Current(row, Operations(request, generation))]_vars

\* Every turn ends: the Team's chat lock is released again.
TurnEnds == pc \in {"round", "invoke", "granted", "running", "pause", "deliver"} ~> pc = "idle"

\* The turn, its journal and its crashes implement the contract of a Power:
\* one side effect for a request, and the Brain is told the result of it.
Contract == INSTANCE PowerContract WITH Interrupt <- Interrupt, Result <- Result, NoResult <- NoResult,
                                       produced <- produced, told <- told
ImplementsContract == Contract!Spec
=============================================================================
