--------------------------- MODULE BlueGreenDeploy ---------------------------
(***************************************************************************)
(* The Apps deployer (src/apps/app.py) for one app: the blue-green deploy, *)
(* stop, start and restart, removal, and the loop that keeps shimpz-caddy  *)
(* on the app's network.  Requests run in threads of their own and share   *)
(* the lock of the app; every Docker call is a step of its own, since the  *)
(* driver may die, and the daemon may fail, between any two of them.       *)
(*                                                                         *)
(* Docker is modelled as the code uses it: container names are unique, a   *)
(* handle names a container whatever it is called now, and a call on a     *)
(* container that is gone fails.                                           *)
(***************************************************************************)
EXTENDS FiniteSets, Functions

CONSTANTS
  Container,     \* identities of containers, each used once
  Request,       \* threads of the HTTP server
  NoContainer,   \* no container of that name
  NoRequest      \* the lock of the app is free

ASSUME DeployAssumption == NoContainer \notin Container /\ NoRequest \notin Request

VARIABLES
  \* Docker: the container of each name, those that run, those on the network
  \* of the app, and whether that network exists
  named, running, attached, network,
  \* shimpz-caddy is on the app's network, and the loop that puts it there lives
  caddy, looping,
  \* the threads: where each is, the container it looked up, its candidate
  pc, found, candidate, lock,
  \* history: the identities used, the container promoted last and not removed
  \* since, and those whose cut-over broke off between its renames
  used, serving, stranded

docker == <<named, running, attached, network>>
loop == <<caddy, looping>>
threads == <<pc, found, candidate, lock>>
history == <<used, serving, stranded>>
vars == <<docker, loop, threads, history>>

-----------------------------------------------------------------------------
Name == {"final", "candidate", "retiring"}

Exists(c) == c \in Range(named) \ {NoContainer}

\* rename keeps the container and changes what has its name.
Renamed(c, name) ==
  [n \in Name |-> IF n = name THEN c ELSE IF named[n] = c THEN NoContainer ELSE named[n]]

\* remove(force=True): the container is stopped and gone.
Remove(c) ==
  /\ named' = [n \in Name |-> IF named[n] = c THEN NoContainer ELSE named[n]]
  /\ running' = running \ {c} /\ attached' = attached \ {c}
  /\ UNCHANGED network

Goto(r, label) == pc' = [pc EXCEPT ![r] = label]

\* The thread goes on with what it holds.
Continue(r, label) == Goto(r, label) /\ UNCHANGED <<found, candidate, lock>>

\* The steps a thread takes while it holds the lock of the app.
Locked == {"staleCandidate", "staleRetiring", "prepare", "create", "start", "health", "unhealthy",
           "retire", "promote", "restore", "discard", "removeOld",
           "remove", "disconnect", "removeNetwork"}

Free(r) == pc[r] \in {"done", "failed"}

\* The handler answers: the lock is released and its handles are forgotten.
Answer(r, outcome) ==
  /\ Goto(r, outcome)
  /\ lock' = IF lock = r THEN NoRequest ELSE lock
  /\ found' = [found EXCEPT ![r] = NoContainer]
  /\ candidate' = [candidate EXCEPT ![r] = NoContainer]

\* Between the two renames of a cut-over no container has the final name.
BetweenRenames(r) == pc[r] \in {"promote", "restore"} /\ found[r] # NoContainer

Init ==
  /\ named = [n \in Name |-> NoContainer]
  /\ running = {} /\ attached = {} /\ network = FALSE
  /\ caddy = FALSE /\ looping = TRUE
  /\ pc = [r \in Request |-> "done"]
  /\ found = [r \in Request |-> NoContainer] /\ candidate = [r \in Request |-> NoContainer]
  /\ lock = NoRequest
  /\ used = {} /\ serving = NoContainer /\ stranded = {}

-----------------------------------------------------------------------------
\* _deploy takes the lock.
DeployLocks(r) ==
  /\ Free(r) /\ lock = NoRequest
  /\ lock' = r
  /\ Goto(r, "staleCandidate")
  /\ UNCHANGED <<docker, loop, found, candidate, history>>

\* Defensive cleanup of what an earlier deploy left under its two names.
RemoveStaleCandidate(r) ==
  /\ pc[r] = "staleCandidate"
  /\ Remove(named["candidate"])
  /\ Continue(r, "staleRetiring")
  /\ UNCHANGED <<loop, history>>

\* Mutant of RemoveStaleRetiring: only a stale candidate is cleaned up.
RetiringIsForgotten(r) ==
  /\ pc[r] = "staleRetiring"
  /\ Continue(r, "prepare")
  /\ UNCHANGED <<docker, loop, history>>

RemoveStaleRetiring(r) ==
  /\ pc[r] = "staleRetiring"
  /\ Remove(named["retiring"])
  /\ Continue(r, "prepare")
  /\ UNCHANGED <<loop, history>>

\* The network with shimpz-caddy on it is there before the candidate; so is the
\* data volume, which nothing below depends on.
Prepare(r) ==
  /\ pc[r] = "prepare"
  /\ network' = TRUE /\ caddy' = TRUE
  /\ Continue(r, "create")
  /\ UNCHANGED <<named, running, attached, looping, history>>

\* Any of the calls fails, and what the earlier ones created stays.
PrepareFails(r) ==
  /\ pc[r] = "prepare"
  /\ network' \in {network, TRUE}
  /\ Answer(r, "failed")
  /\ UNCHANGED <<named, running, attached, loop, history>>

\* The candidate is created on the app's network, under its own name; if that
\* is refused there is nothing to discard (FailUncaught).
CreateCandidate(r) ==
  /\ pc[r] = "create"
  /\ named["candidate"] = NoContainer
  /\ \E c \in Container \ used :
       /\ named' = [named EXCEPT !["candidate"] = c]
       /\ attached' = attached \cup {c}
       /\ candidate' = [candidate EXCEPT ![r] = c]
       /\ used' = used \cup {c}
  /\ Goto(r, "start")
  /\ UNCHANGED <<running, network, loop, found, lock, serving, stranded>>

StartCandidate(r) ==
  /\ pc[r] = "start"
  /\ running' = running \cup {candidate[r]}
  /\ Continue(r, "health")
  /\ UNCHANGED <<named, attached, network, loop, history>>

\* start is refused, and the half-created candidate discarded.
StartIsRefused(r) ==
  /\ pc[r] = "start"
  /\ Continue(r, "discard")
  /\ UNCHANGED <<docker, loop, history>>

\* The health check ends one way or the other after at most HEALTH_RETRIES.
HealthCheckEnds(r) ==
  /\ pc[r] = "health"
  /\ Continue(r, "retire") \/ Continue(r, "unhealthy")
  /\ UNCHANGED <<docker, loop, history>>

RemoveUnhealthy(r) ==
  /\ pc[r] = "unhealthy"
  /\ Remove(candidate[r])
  /\ Answer(r, "failed")
  /\ UNCHANGED <<loop, history>>

-----------------------------------------------------------------------------
\* _cutover_candidate looks up the container that serves and renames it; on a
\* refusal it still has its name, and only the candidate is discarded.
RetireOld(r) ==
  /\ pc[r] = "retire"
  /\ found' = [found EXCEPT ![r] = named["final"]]
  /\ \/ /\ named["final"] # NoContainer
        /\ named["retiring"] = NoContainer
        /\ named' = Renamed(named["final"], "retiring")
        /\ Goto(r, "promote")
     \/ /\ named["final"] = NoContainer
        /\ Goto(r, "promote") /\ UNCHANGED named
     \/ /\ named["final"] # NoContainer
        /\ Goto(r, "discard") /\ UNCHANGED named
  /\ UNCHANGED <<running, attached, network, loop, candidate, lock, history>>

\* The candidate takes the final name and serves from now on.
PromoteCandidate(r) ==
  /\ pc[r] = "promote"
  /\ named["final"] = NoContainer
  /\ named' = Renamed(candidate[r], "final")
  /\ serving' = candidate[r]
  /\ Continue(r, "removeOld")
  /\ UNCHANGED <<running, attached, network, loop, used, stranded>>

\* Mutant of PromoteIsRefused: the rollback does not ask whether there was one.
RollbackWithoutOld(r) ==
  /\ pc[r] = "promote"
  /\ Continue(r, "restore")
  /\ UNCHANGED <<docker, loop, history>>

PromoteIsRefused(r) ==
  /\ pc[r] = "promote"
  /\ Continue(r, IF found[r] = NoContainer THEN "discard" ELSE "restore")
  /\ UNCHANGED <<docker, loop, history>>

\* Mutant of RestoreOld: the rollback forgets to rename the old container.
OldIsNotRestored(r) ==
  /\ pc[r] = "restore"
  /\ Continue(r, "discard")
  /\ UNCHANGED <<docker, loop, history>>

\* Rollback: the old container gets its name back, or the daemon refuses that
\* too and the refusal is suppressed.
RestoreOld(r) ==
  /\ pc[r] = "restore"
  /\ Continue(r, "discard")
  /\ \/ /\ named' = Renamed(found[r], "final")
        /\ UNCHANGED stranded
     \/ /\ stranded' = stranded \cup {found[r]}
        /\ UNCHANGED named
  /\ UNCHANGED <<running, attached, network, loop, used, serving>>

\* The candidate is removed, if the daemon lets it, and the deploy fails.
DiscardCandidate(r) ==
  /\ pc[r] = "discard"
  /\ \/ Remove(candidate[r])
     \/ UNCHANGED docker
  /\ Answer(r, "failed")
  /\ UNCHANGED <<loop, history>>

RemoveOld(r) ==
  /\ pc[r] = "removeOld"
  /\ Remove(found[r])
  /\ Answer(r, "done")
  /\ UNCHANGED <<loop, history>>

-----------------------------------------------------------------------------
\* stop, start and restart look the container up before they wait for the lock.
LifecycleFinds(r) ==
  /\ Free(r) /\ named["final"] # NoContainer
  /\ found' = [found EXCEPT ![r] = named["final"]]
  /\ Goto(r, "lifecycle")
  /\ UNCHANGED <<docker, loop, candidate, lock, history>>

LifecycleRuns(r) ==
  /\ pc[r] = "lifecycle" /\ lock = NoRequest
  /\ Exists(found[r])
  /\ running' \in {running \cup {found[r]}, running \ {found[r]}}
  /\ Answer(r, "done")
  /\ UNCHANGED <<named, attached, network, loop, history>>

\* So does _remove, which goes on if there was none.
RemoveFinds(r) ==
  /\ Free(r)
  /\ found' = [found EXCEPT ![r] = named["final"]]
  /\ Goto(r, "removeWaits")
  /\ UNCHANGED <<docker, loop, candidate, lock, history>>

\* Mutant of RemoveLocks: a removal does not wait for the lock.
RemoveDoesNotWait(r) ==
  /\ pc[r] = "removeWaits"
  /\ Continue(r, "remove")
  /\ UNCHANGED <<docker, loop, history>>

RemoveLocks(r) ==
  /\ pc[r] = "removeWaits" /\ lock = NoRequest
  /\ lock' = r
  /\ Goto(r, "remove")
  /\ UNCHANGED <<docker, loop, found, candidate, history>>

RemoveContainer(r) ==
  /\ pc[r] = "remove"
  /\ \/ Exists(found[r]) /\ Remove(found[r])
     \/ found[r] = NoContainer /\ UNCHANGED docker
  /\ serving' = IF found[r] = serving THEN NoContainer ELSE serving
  /\ Continue(r, "disconnect")
  /\ UNCHANGED <<loop, used, stranded>>

\* _teardown_app_network disconnects whatever is on the network, one refusal
\* or another being suppressed, ...
Disconnect(r) ==
  /\ pc[r] = "disconnect"
  /\ attached' \in SUBSET attached
  /\ caddy' \in {FALSE, caddy}
  /\ Continue(r, "removeNetwork")
  /\ UNCHANGED <<named, running, network, looping, history>>

\* ... and removes the network, unless somebody is on it again.
RemoveNetwork(r) ==
  /\ pc[r] = "removeNetwork"
  /\ \/ ~caddy /\ attached = {} /\ network' = FALSE
     \/ UNCHANGED network
  /\ Answer(r, "done")
  /\ UNCHANGED <<named, running, attached, loop, history>>

-----------------------------------------------------------------------------
\* What a thread that ends at this point leaves behind.
Strands(r) == IF BetweenRenames(r) THEN {found[r]} ELSE {}

\* A call fails and no handler catches it: the daemon refuses where the code
\* expects no refusal, the container is gone, or the connection to the daemon
\* breaks, before or after the call had its effect.
FailUncaught(r) ==
  /\ ~Free(r)
  /\ Answer(r, "failed")
  /\ stranded' = stranded \cup Strands(r)
  /\ UNCHANGED <<docker, loop, used, serving>>

\* The driver dies with all its threads and is started again, which puts
\* shimpz-caddy back on the network before the first request.
CrashDriver ==
  /\ pc' = [r \in Request |-> "failed"]
  /\ found' = [r \in Request |-> NoContainer] /\ candidate' = [r \in Request |-> NoContainer]
  /\ lock' = NoRequest
  /\ stranded' = stranded \cup UNION {Strands(r) : r \in Request}
  /\ looping' = TRUE /\ caddy' \in {network, caddy}
  /\ UNCHANGED <<docker, used, serving>>

\* shimpz-caddy is recreated without any app network.
CaddyRecreated ==
  /\ caddy' = FALSE
  /\ UNCHANGED <<docker, looping, threads, history>>

\* Mutant of ReconcileCaddy: the loop skips a network without a container.
ReconcileUsedNetworks ==
  /\ looping /\ network /\ attached # {}
  /\ caddy' = TRUE
  /\ UNCHANGED <<docker, looping, threads, history>>

\* One pass of the loop connects shimpz-caddy to the network if there is one;
\* a network that went since it was listed only makes the pass fail.
ReconcileCaddy ==
  /\ looping /\ network
  /\ caddy' = TRUE
  /\ UNCHANGED <<docker, looping, threads, history>>

\* The loop survives what the daemon answers, but not a connection to the
\* daemon that breaks: that is no DockerException.
LoopDies ==
  /\ looping' = FALSE
  /\ UNCHANGED <<docker, caddy, threads, history>>

-----------------------------------------------------------------------------
Deploy(r) ==
  \/ DeployLocks(r) \/ RemoveStaleCandidate(r) \/ RemoveStaleRetiring(r)
  \/ Prepare(r) \/ PrepareFails(r)
  \/ CreateCandidate(r) \/ StartCandidate(r) \/ StartIsRefused(r)
  \/ HealthCheckEnds(r) \/ RemoveUnhealthy(r)
  \/ RetireOld(r) \/ PromoteCandidate(r) \/ PromoteIsRefused(r)
  \/ RestoreOld(r) \/ DiscardCandidate(r) \/ RemoveOld(r)

Removal(r) ==
  \/ RemoveFinds(r) \/ RemoveLocks(r) \/ RemoveContainer(r)
  \/ Disconnect(r) \/ RemoveNetwork(r)

Next ==
  \/ \E r \in Request :
       \/ Deploy(r) \/ Removal(r)
       \/ LifecycleFinds(r) \/ LifecycleRuns(r)
       \/ FailUncaught(r)
  \/ CrashDriver \/ CaddyRecreated \/ ReconcileCaddy \/ LoopDies

Spec == Init /\ [][Next]_vars

\* The loop runs every CADDY_RECONCILE_SECONDS whatever the threads do.
FairSpec == Spec /\ WF_vars(ReconcileCaddy)

-----------------------------------------------------------------------------
Label == Locked \cup {"done", "failed", "lifecycle", "removeWaits"}

\* The type invariant of Docker, the threads and the history.
TypeOK ==
  /\ named \in [Name -> Container \cup {NoContainer}]
  /\ running \in SUBSET Container /\ attached \in SUBSET Container
  /\ network \in BOOLEAN /\ caddy \in BOOLEAN /\ looping \in BOOLEAN
  /\ pc \in [Request -> Label]
  /\ found \in [Request -> Container \cup {NoContainer}]
  /\ candidate \in [Request -> Container \cup {NoContainer}]
  /\ lock \in Request \cup {NoRequest}
  /\ used \in SUBSET Container /\ stranded \in SUBSET Container
  /\ serving \in Container \cup {NoContainer}

\* A deploy is never refused because a name is taken, whatever an earlier
\* attempt left behind (app.py: "a leftover candidate/retiring container from a
\* previous crashed attempt must never block this one").
NamesAreFree ==
  \A r \in Request :
    /\ pc[r] = "create" => named["candidate"] = NoContainer
    /\ pc[r] = "retire" => named["retiring"] = NoContainer
    /\ pc[r] = "promote" => named["final"] = NoContainer

\* The container that was promoted last keeps the final name until a removal
\* takes it away, however many deploys fail, except between the two renames of
\* a cut-over and after one that broke off there.
ServesUnlessCutOver ==
  serving # NoContainer =>
    \/ named["final"] = serving
    \/ serving \in stranded
    \/ \E r \in Request : BetweenRenames(r) /\ found[r] = serving /\ named["retiring"] = serving

\* A deploy that answers "deployed" has put a container in service that runs,
\* on the network of the app: the lock keeps removals and other deploys out.
DeployedIsReachable ==
  [][\A r \in Request : pc[r] = "removeOld" /\ pc'[r] = "done" =>
       /\ named'["final"] = candidate[r]
       /\ candidate[r] \in running' \cap attached' /\ network']_vars

\* shimpz-caddy comes back on the network of the app while the loop lives
\* (app.py: "a bare caddy self-heals within one interval").
CaddyHeals == (network /\ ~caddy) ~> (caddy \/ ~network \/ ~looping)

\* The container that serves is not lost to a deploy that fails (app.py:
\* "On any failure ... the previous container (if any) is left running,
\* untouched, still serving").
PreviousIsNeverLost == serving # NoContainer => Exists(serving)
=============================================================================
