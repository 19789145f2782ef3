------------------------ MODULE BlueGreenDeployProofs ------------------------
(***************************************************************************)
(* Proofs about the Apps deployer: types, the names a deploy needs are     *)
(* free, and what serves keeps serving outside a cut-over, for any number  *)
(* of containers and threads.                                              *)
(***************************************************************************)
EXTENDS BlueGreenDeploy, TLAPS

\* A thread takes the steps under the lock only while it holds the lock.
Mutex == \A r \in Request : pc[r] \in Locked => lock = r

\* Docker keeps names unique and gives an identity once.
NamesUnique ==
  /\ \A n, m \in Name : named[n] = named[m] /\ named[n] # NoContainer => n = m
  /\ \A n \in Name : named[n] \in used \cup {NoContainer}

\* The candidate of a deploy keeps its name until the cut-over.
CandidateNamed(r) ==
  pc[r] \in {"start", "health", "unhealthy", "retire", "promote", "restore", "discard"} =>
    named["candidate"] = candidate[r] /\ candidate[r] # NoContainer

\* What was cleaned up stays so until the deploy needs the name.
NamesCleared(r) ==
  /\ pc[r] \in {"staleRetiring", "prepare", "create"} => named["candidate"] = NoContainer
  /\ pc[r] \in {"prepare", "create", "start", "health", "unhealthy", "retire"} =>
       named["retiring"] = NoContainer
  /\ pc[r] \in {"promote", "restore"} => named["final"] = NoContainer

\* The container a deploy has retired has the retiring name.
OldRetired(r) ==
  /\ pc[r] \in {"promote", "restore", "removeOld"} => named["retiring"] = found[r]
  /\ pc[r] = "restore" => found[r] # NoContainer

\* From create on the candidate is on the network, and from start on it runs.
CandidateReady(r) ==
  /\ pc[r] = "create" => network
  /\ pc[r] \in {"start", "health", "retire", "promote", "removeOld"} =>
       candidate[r] \in attached /\ network
  /\ pc[r] \in {"health", "retire", "promote", "removeOld"} => candidate[r] \in running
  /\ pc[r] = "removeOld" => named["final"] = candidate[r] /\ candidate[r] # NoContainer

\* A stop, start or restart has found a container.
LifecycleFound(r) == pc[r] = "lifecycle" => found[r] # NoContainer

Threads ==
  \A r \in Request :
    /\ CandidateNamed(r) /\ NamesCleared(r) /\ OldRetired(r) /\ CandidateReady(r)
    /\ LifecycleFound(r)

\* The inductive invariant.
IInv == TypeOK /\ Mutex /\ NamesUnique /\ Threads /\ ServesUnlessCutOver

-----------------------------------------------------------------------------
USE DeployAssumption

\* Every step keeps the types.
LEMMA TypeStep == IInv /\ [Next]_vars => TypeOK'
<1> SUFFICES ASSUME IInv, [Next]_vars PROVE TypeOK'
  OBVIOUS
<1> USE DEF IInv, TypeOK, docker, loop, threads, history, Label, Locked, Name
<1>1. ASSUME NEW r \in Request, DeployLocks(r) PROVE TypeOK'
  BY <1>1 DEF DeployLocks, Goto, Free
<1>2. ASSUME NEW r \in Request, RemoveStaleCandidate(r) PROVE TypeOK'
  BY <1>2 DEF RemoveStaleCandidate, Continue, Goto, Remove
<1>3. ASSUME NEW r \in Request, RemoveStaleRetiring(r) PROVE TypeOK'
  BY <1>3 DEF RemoveStaleRetiring, Continue, Goto, Remove
<1>4. ASSUME NEW r \in Request, Prepare(r) PROVE TypeOK'
  BY <1>4 DEF Prepare, Continue, Goto
<1>5. ASSUME NEW r \in Request, PrepareFails(r) PROVE TypeOK'
  BY <1>5 DEF PrepareFails, Answer, Goto
<1>6. ASSUME NEW r \in Request, CreateCandidate(r) PROVE TypeOK'
  BY <1>6 DEF CreateCandidate, Goto
<1>7. ASSUME NEW r \in Request, StartCandidate(r) PROVE TypeOK'
  BY <1>7 DEF StartCandidate, Continue, Goto, Threads, CandidateNamed
<1>8. ASSUME NEW r \in Request, StartIsRefused(r) PROVE TypeOK'
  BY <1>8 DEF StartIsRefused, Continue, Goto
<1>9. ASSUME NEW r \in Request, HealthCheckEnds(r) PROVE TypeOK'
  BY <1>9 DEF HealthCheckEnds, Continue, Goto
<1>10. ASSUME NEW r \in Request, RemoveUnhealthy(r) PROVE TypeOK'
  BY <1>10 DEF RemoveUnhealthy, Answer, Goto, Remove
<1>11. ASSUME NEW r \in Request, RetireOld(r) PROVE TypeOK'
  BY <1>11 DEF RetireOld, Goto, Renamed
<1>12. ASSUME NEW r \in Request, PromoteCandidate(r) PROVE TypeOK'
  BY <1>12 DEF PromoteCandidate, Continue, Goto, Renamed
<1>13. ASSUME NEW r \in Request, PromoteIsRefused(r) PROVE TypeOK'
  BY <1>13 DEF PromoteIsRefused, Continue, Goto
<1>14. ASSUME NEW r \in Request, RestoreOld(r) PROVE TypeOK'
  BY <1>14 DEF RestoreOld, Continue, Goto, Renamed, Threads, OldRetired
<1>15. ASSUME NEW r \in Request, DiscardCandidate(r) PROVE TypeOK'
  BY <1>15 DEF DiscardCandidate, Answer, Goto, Remove
<1>16. ASSUME NEW r \in Request, RemoveOld(r) PROVE TypeOK'
  BY <1>16 DEF RemoveOld, Answer, Goto, Remove
<1>17. ASSUME NEW r \in Request, RemoveFinds(r) PROVE TypeOK'
  BY <1>17 DEF RemoveFinds, Goto, Free
<1>18. ASSUME NEW r \in Request, RemoveLocks(r) PROVE TypeOK'
  BY <1>18 DEF RemoveLocks, Goto
<1>19. ASSUME NEW r \in Request, RemoveContainer(r) PROVE TypeOK'
  BY <1>19 DEF RemoveContainer, Continue, Goto, Remove, Exists
<1>20. ASSUME NEW r \in Request, Disconnect(r) PROVE TypeOK'
  BY <1>20 DEF Disconnect, Continue, Goto
<1>21. ASSUME NEW r \in Request, RemoveNetwork(r) PROVE TypeOK'
  BY <1>21 DEF RemoveNetwork, Answer, Goto
<1>22. ASSUME NEW r \in Request, LifecycleFinds(r) PROVE TypeOK'
  BY <1>22 DEF LifecycleFinds, Goto, Free
<1>23. ASSUME NEW r \in Request, LifecycleRuns(r) PROVE TypeOK'
  BY <1>23 DEF LifecycleRuns, Answer, Goto, Exists, Threads, LifecycleFound
<1>24. ASSUME NEW r \in Request, FailUncaught(r) PROVE TypeOK'
  BY <1>24 DEF FailUncaught, Answer, Goto, Strands, BetweenRenames, Free
<1>25. CASE CrashDriver
  BY <1>25 DEF CrashDriver, Strands, BetweenRenames
<1>26. CASE CaddyRecreated
  BY <1>26 DEF CaddyRecreated
<1>27. CASE ReconcileCaddy
  BY <1>27 DEF ReconcileCaddy
<1>28. CASE LoopDies
  BY <1>28 DEF LoopDies
<1>29. CASE UNCHANGED vars
  BY <1>29 DEF vars
<1>30. QED
  BY <1>1, <1>2, <1>3, <1>4, <1>5, <1>6, <1>7, <1>8, <1>9, <1>10, <1>11, <1>12, <1>13, <1>14,
     <1>15, <1>16, <1>17, <1>18, <1>19, <1>20, <1>21, <1>22, <1>23, <1>24, <1>25, <1>26, <1>27, <1>28, <1>29 DEF Next, Deploy, Removal

\* Every step keeps the lock exclusive.
LEMMA MutexStep == IInv /\ [Next]_vars => Mutex'
<1> SUFFICES ASSUME IInv, [Next]_vars PROVE Mutex'
  OBVIOUS
<1> USE DEF IInv, TypeOK, docker, loop, threads, history, Mutex, Locked
<1>1. ASSUME NEW r \in Request, DeployLocks(r) PROVE Mutex'
  BY <1>1 DEF DeployLocks, Goto, Free
<1>2. ASSUME NEW r \in Request, RemoveStaleCandidate(r) PROVE Mutex'
  BY <1>2 DEF RemoveStaleCandidate, Continue, Goto, Remove
<1>3. ASSUME NEW r \in Request, RemoveStaleRetiring(r) PROVE Mutex'
  BY <1>3 DEF RemoveStaleRetiring, Continue, Goto, Remove
<1>4. ASSUME NEW r \in Request, Prepare(r) PROVE Mutex'
  BY <1>4 DEF Prepare, Continue, Goto
<1>5. ASSUME NEW r \in Request, PrepareFails(r) PROVE Mutex'
  BY <1>5 DEF PrepareFails, Answer, Goto
<1>6. ASSUME NEW r \in Request, CreateCandidate(r) PROVE Mutex'
  BY <1>6 DEF CreateCandidate, Goto
<1>7. ASSUME NEW r \in Request, StartCandidate(r) PROVE Mutex'
  BY <1>7 DEF StartCandidate, Continue, Goto
<1>8. ASSUME NEW r \in Request, StartIsRefused(r) PROVE Mutex'
  BY <1>8 DEF StartIsRefused, Continue, Goto
<1>9. ASSUME NEW r \in Request, HealthCheckEnds(r) PROVE Mutex'
  BY <1>9 DEF HealthCheckEnds, Continue, Goto
<1>10. ASSUME NEW r \in Request, RemoveUnhealthy(r) PROVE Mutex'
  BY <1>10 DEF RemoveUnhealthy, Answer, Goto, Remove
<1>11. ASSUME NEW r \in Request, RetireOld(r) PROVE Mutex'
  BY <1>11 DEF RetireOld, Goto, Renamed
<1>12. ASSUME NEW r \in Request, PromoteCandidate(r) PROVE Mutex'
  BY <1>12 DEF PromoteCandidate, Continue, Goto, Renamed
<1>13. ASSUME NEW r \in Request, PromoteIsRefused(r) PROVE Mutex'
  BY <1>13 DEF PromoteIsRefused, Continue, Goto
<1>14. ASSUME NEW r \in Request, RestoreOld(r) PROVE Mutex'
  BY <1>14 DEF RestoreOld, Continue, Goto, Renamed
<1>15. ASSUME NEW r \in Request, DiscardCandidate(r) PROVE Mutex'
  BY <1>15 DEF DiscardCandidate, Answer, Goto, Remove
<1>16. ASSUME NEW r \in Request, RemoveOld(r) PROVE Mutex'
  BY <1>16 DEF RemoveOld, Answer, Goto, Remove
<1>17. ASSUME NEW r \in Request, RemoveFinds(r) PROVE Mutex'
  BY <1>17 DEF RemoveFinds, Goto, Free
<1>18. ASSUME NEW r \in Request, RemoveLocks(r) PROVE Mutex'
  BY <1>18 DEF RemoveLocks, Goto
<1>19. ASSUME NEW r \in Request, RemoveContainer(r) PROVE Mutex'
  BY <1>19 DEF RemoveContainer, Continue, Goto, Remove, Exists
<1>20. ASSUME NEW r \in Request, Disconnect(r) PROVE Mutex'
  BY <1>20 DEF Disconnect, Continue, Goto
<1>21. ASSUME NEW r \in Request, RemoveNetwork(r) PROVE Mutex'
  BY <1>21 DEF RemoveNetwork, Answer, Goto
<1>22. ASSUME NEW r \in Request, LifecycleFinds(r) PROVE Mutex'
  BY <1>22 DEF LifecycleFinds, Goto, Free
<1>23. ASSUME NEW r \in Request, LifecycleRuns(r) PROVE Mutex'
  BY <1>23 DEF LifecycleRuns, Answer, Goto, Exists
<1>24. ASSUME NEW r \in Request, FailUncaught(r) PROVE Mutex'
  BY <1>24 DEF FailUncaught, Answer, Goto, Strands, BetweenRenames, Free
<1>25. CASE CrashDriver
  BY <1>25 DEF CrashDriver, Strands, BetweenRenames
<1>26. CASE CaddyRecreated
  BY <1>26 DEF CaddyRecreated
<1>27. CASE ReconcileCaddy
  BY <1>27 DEF ReconcileCaddy
<1>28. CASE LoopDies
  BY <1>28 DEF LoopDies
<1>29. CASE UNCHANGED vars
  BY <1>29 DEF vars
<1>30. QED
  BY <1>1, <1>2, <1>3, <1>4, <1>5, <1>6, <1>7, <1>8, <1>9, <1>10, <1>11, <1>12, <1>13, <1>14,
     <1>15, <1>16, <1>17, <1>18, <1>19, <1>20, <1>21, <1>22, <1>23, <1>24, <1>25, <1>26, <1>27, <1>28, <1>29 DEF Next, Deploy, Removal

\* Names stay unique, and identities are used once.
LEMMA NamesStep == IInv /\ [Next]_vars => NamesUnique'
<1> SUFFICES ASSUME IInv, [Next]_vars PROVE NamesUnique'
  OBVIOUS
<1> USE DEF IInv, TypeOK, docker, loop, threads, history, Mutex, NamesUnique, Name
<1>1. ASSUME NEW r \in Request, DeployLocks(r) PROVE NamesUnique'
  BY <1>1 DEF DeployLocks, Goto, Free
<1>2. ASSUME NEW r \in Request, RemoveStaleCandidate(r) PROVE NamesUnique'
  BY <1>2 DEF RemoveStaleCandidate, Continue, Goto, Remove
<1>3. ASSUME NEW r \in Request, RemoveStaleRetiring(r) PROVE NamesUnique'
  BY <1>3 DEF RemoveStaleRetiring, Continue, Goto, Remove
<1>4. ASSUME NEW r \in Request, Prepare(r) PROVE NamesUnique'
  BY <1>4 DEF Prepare, Continue, Goto
<1>5. ASSUME NEW r \in Request, PrepareFails(r) PROVE NamesUnique'
  BY <1>5 DEF PrepareFails, Answer, Goto
<1>6. ASSUME NEW r \in Request, CreateCandidate(r) PROVE NamesUnique'
  BY <1>6 DEF CreateCandidate, Goto
<1>7. ASSUME NEW r \in Request, StartCandidate(r) PROVE NamesUnique'
  BY <1>7 DEF StartCandidate, Continue, Goto
<1>8. ASSUME NEW r \in Request, StartIsRefused(r) PROVE NamesUnique'
  BY <1>8 DEF StartIsRefused, Continue, Goto
<1>9. ASSUME NEW r \in Request, HealthCheckEnds(r) PROVE NamesUnique'
  BY <1>9 DEF HealthCheckEnds, Continue, Goto
<1>10. ASSUME NEW r \in Request, RemoveUnhealthy(r) PROVE NamesUnique'
  BY <1>10 DEF RemoveUnhealthy, Answer, Goto, Remove
<1>11. ASSUME NEW r \in Request, RetireOld(r) PROVE NamesUnique'
  BY <1>11 DEF RetireOld, Goto, Renamed, Threads, CandidateNamed, NamesCleared, OldRetired, Locked
<1>12. ASSUME NEW r \in Request, PromoteCandidate(r) PROVE NamesUnique'
  BY <1>12 DEF PromoteCandidate, Continue, Goto, Renamed, Threads, CandidateNamed, NamesCleared, OldRetired, Locked
<1>13. ASSUME NEW r \in Request, PromoteIsRefused(r) PROVE NamesUnique'
  BY <1>13 DEF PromoteIsRefused, Continue, Goto
<1>14. ASSUME NEW r \in Request, RestoreOld(r) PROVE NamesUnique'
  BY <1>14 DEF RestoreOld, Continue, Goto, Renamed, Threads, CandidateNamed, NamesCleared, OldRetired, Locked
<1>15. ASSUME NEW r \in Request, DiscardCandidate(r) PROVE NamesUnique'
  BY <1>15 DEF DiscardCandidate, Answer, Goto, Remove
<1>16. ASSUME NEW r \in Request, RemoveOld(r) PROVE NamesUnique'
  BY <1>16 DEF RemoveOld, Answer, Goto, Remove
<1>17. ASSUME NEW r \in Request, RemoveFinds(r) PROVE NamesUnique'
  BY <1>17 DEF RemoveFinds, Goto, Free
<1>18. ASSUME NEW r \in Request, RemoveLocks(r) PROVE NamesUnique'
  BY <1>18 DEF RemoveLocks, Goto
<1>19. ASSUME NEW r \in Request, RemoveContainer(r) PROVE NamesUnique'
  BY <1>19 DEF RemoveContainer, Continue, Goto, Remove, Exists
<1>20. ASSUME NEW r \in Request, Disconnect(r) PROVE NamesUnique'
  BY <1>20 DEF Disconnect, Continue, Goto
<1>21. ASSUME NEW r \in Request, RemoveNetwork(r) PROVE NamesUnique'
  BY <1>21 DEF RemoveNetwork, Answer, Goto
<1>22. ASSUME NEW r \in Request, LifecycleFinds(r) PROVE NamesUnique'
  BY <1>22 DEF LifecycleFinds, Goto, Free
<1>23. ASSUME NEW r \in Request, LifecycleRuns(r) PROVE NamesUnique'
  BY <1>23 DEF LifecycleRuns, Answer, Goto, Exists
<1>24. ASSUME NEW r \in Request, FailUncaught(r) PROVE NamesUnique'
  BY <1>24 DEF FailUncaught, Answer, Goto, Strands, BetweenRenames, Free
<1>25. CASE CrashDriver
  BY <1>25 DEF CrashDriver, Strands, BetweenRenames
<1>26. CASE CaddyRecreated
  BY <1>26 DEF CaddyRecreated
<1>27. CASE ReconcileCaddy
  BY <1>27 DEF ReconcileCaddy
<1>28. CASE LoopDies
  BY <1>28 DEF LoopDies
<1>29. CASE UNCHANGED vars
  BY <1>29 DEF vars
<1>30. QED
  BY <1>1, <1>2, <1>3, <1>4, <1>5, <1>6, <1>7, <1>8, <1>9, <1>10, <1>11, <1>12, <1>13, <1>14,
     <1>15, <1>16, <1>17, <1>18, <1>19, <1>20, <1>21, <1>22, <1>23, <1>24, <1>25, <1>26, <1>27, <1>28, <1>29 DEF Next, Deploy, Removal

\* Every step keeps what the threads rely on.
LEMMA ThreadsStep == IInv /\ [Next]_vars => Threads'
<1> SUFFICES ASSUME IInv, [Next]_vars PROVE Threads'
  OBVIOUS
<1> USE DEF IInv, TypeOK, docker, loop, threads, history, Mutex, NamesUnique, Threads, CandidateNamed, NamesCleared, OldRetired,
                CandidateReady, LifecycleFound, Locked, Name
<1>1. ASSUME NEW r \in Request, DeployLocks(r) PROVE Threads'
  BY <1>1 DEF DeployLocks, Goto, Free
<1>2. ASSUME NEW r \in Request, RemoveStaleCandidate(r) PROVE Threads'
  BY <1>2 DEF RemoveStaleCandidate, Continue, Goto, Remove
<1>3. ASSUME NEW r \in Request, RemoveStaleRetiring(r) PROVE Threads'
  BY <1>3 DEF RemoveStaleRetiring, Continue, Goto, Remove
<1>4. ASSUME NEW r \in Request, Prepare(r) PROVE Threads'
  BY <1>4 DEF Prepare, Continue, Goto
<1>5. ASSUME NEW r \in Request, PrepareFails(r) PROVE Threads'
  BY <1>5 DEF PrepareFails, Answer, Goto
<1>6. ASSUME NEW r \in Request, CreateCandidate(r) PROVE Threads'
  BY <1>6 DEF CreateCandidate, Goto
<1>7. ASSUME NEW r \in Request, StartCandidate(r) PROVE Threads'
  BY <1>7 DEF StartCandidate, Continue, Goto
<1>8. ASSUME NEW r \in Request, StartIsRefused(r) PROVE Threads'
  BY <1>8 DEF StartIsRefused, Continue, Goto
<1>9. ASSUME NEW r \in Request, HealthCheckEnds(r) PROVE Threads'
  BY <1>9 DEF HealthCheckEnds, Continue, Goto
<1>10. ASSUME NEW r \in Request, RemoveUnhealthy(r) PROVE Threads'
  BY <1>10 DEF RemoveUnhealthy, Answer, Goto, Remove
<1>11. ASSUME NEW r \in Request, RetireOld(r) PROVE Threads'
  BY <1>11 DEF RetireOld, Goto, Renamed
<1>12. ASSUME NEW r \in Request, PromoteCandidate(r) PROVE Threads'
  BY <1>12 DEF PromoteCandidate, Continue, Goto, Renamed
<1>13. ASSUME NEW r \in Request, PromoteIsRefused(r) PROVE Threads'
  BY <1>13 DEF PromoteIsRefused, Continue, Goto
<1>14. ASSUME NEW r \in Request, RestoreOld(r) PROVE Threads'
  BY <1>14 DEF RestoreOld, Continue, Goto, Renamed
<1>15. ASSUME NEW r \in Request, DiscardCandidate(r) PROVE Threads'
  BY <1>15 DEF DiscardCandidate, Answer, Goto, Remove
<1>16. ASSUME NEW r \in Request, RemoveOld(r) PROVE Threads'
  BY <1>16 DEF RemoveOld, Answer, Goto, Remove
<1>17. ASSUME NEW r \in Request, RemoveFinds(r) PROVE Threads'
  BY <1>17 DEF RemoveFinds, Goto, Free
<1>18. ASSUME NEW r \in Request, RemoveLocks(r) PROVE Threads'
  BY <1>18 DEF RemoveLocks, Goto
<1>19. ASSUME NEW r \in Request, RemoveContainer(r) PROVE Threads'
  BY <1>19 DEF RemoveContainer, Continue, Goto, Remove, Exists
<1>20. ASSUME NEW r \in Request, Disconnect(r) PROVE Threads'
  BY <1>20 DEF Disconnect, Continue, Goto
<1>21. ASSUME NEW r \in Request, RemoveNetwork(r) PROVE Threads'
  BY <1>21 DEF RemoveNetwork, Answer, Goto
<1>22. ASSUME NEW r \in Request, LifecycleFinds(r) PROVE Threads'
  BY <1>22 DEF LifecycleFinds, Goto, Free
<1>23. ASSUME NEW r \in Request, LifecycleRuns(r) PROVE Threads'
  BY <1>23 DEF LifecycleRuns, Answer, Goto, Exists
<1>24. ASSUME NEW r \in Request, FailUncaught(r) PROVE Threads'
  BY <1>24 DEF FailUncaught, Answer, Goto, Strands, BetweenRenames, Free
<1>25. CASE CrashDriver
  BY <1>25 DEF CrashDriver, Strands, BetweenRenames
<1>26. CASE CaddyRecreated
  BY <1>26 DEF CaddyRecreated
<1>27. CASE ReconcileCaddy
  BY <1>27 DEF ReconcileCaddy
<1>28. CASE LoopDies
  BY <1>28 DEF LoopDies
<1>29. CASE UNCHANGED vars
  BY <1>29 DEF vars
<1>30. QED
  BY <1>1, <1>2, <1>3, <1>4, <1>5, <1>6, <1>7, <1>8, <1>9, <1>10, <1>11, <1>12, <1>13, <1>14,
     <1>15, <1>16, <1>17, <1>18, <1>19, <1>20, <1>21, <1>22, <1>23, <1>24, <1>25, <1>26, <1>27, <1>28, <1>29 DEF Next, Deploy, Removal

\* What serves keeps its name.
LEMMA ServesStep == IInv /\ [Next]_vars => ServesUnlessCutOver'
<1> SUFFICES ASSUME IInv, [Next]_vars PROVE ServesUnlessCutOver'
  OBVIOUS
<1> USE DEF IInv, TypeOK, docker, loop, threads, history, Mutex, NamesUnique, Threads, CandidateNamed, NamesCleared, OldRetired,
                ServesUnlessCutOver, BetweenRenames, Locked, Name
<1>1. ASSUME NEW r \in Request, DeployLocks(r) PROVE ServesUnlessCutOver'
  BY <1>1 DEF DeployLocks, Goto, Free
<1>2. ASSUME NEW r \in Request, RemoveStaleCandidate(r) PROVE ServesUnlessCutOver'
  BY <1>2 DEF RemoveStaleCandidate, Continue, Goto, Remove
<1>3. ASSUME NEW r \in Request, RemoveStaleRetiring(r) PROVE ServesUnlessCutOver'
  BY <1>3 DEF RemoveStaleRetiring, Continue, Goto, Remove
<1>4. ASSUME NEW r \in Request, Prepare(r) PROVE ServesUnlessCutOver'
  BY <1>4 DEF Prepare, Continue, Goto
<1>5. ASSUME NEW r \in Request, PrepareFails(r) PROVE ServesUnlessCutOver'
  BY <1>5 DEF PrepareFails, Answer, Goto
<1>6. ASSUME NEW r \in Request, CreateCandidate(r) PROVE ServesUnlessCutOver'
  BY <1>6 DEF CreateCandidate, Goto
<1>7. ASSUME NEW r \in Request, StartCandidate(r) PROVE ServesUnlessCutOver'
  BY <1>7 DEF StartCandidate, Continue, Goto
<1>8. ASSUME NEW r \in Request, StartIsRefused(r) PROVE ServesUnlessCutOver'
  BY <1>8 DEF StartIsRefused, Continue, Goto
<1>9. ASSUME NEW r \in Request, HealthCheckEnds(r) PROVE ServesUnlessCutOver'
  BY <1>9 DEF HealthCheckEnds, Continue, Goto
<1>10. ASSUME NEW r \in Request, RemoveUnhealthy(r) PROVE ServesUnlessCutOver'
  BY <1>10 DEF RemoveUnhealthy, Answer, Goto, Remove
<1>11. ASSUME NEW r \in Request, RetireOld(r) PROVE ServesUnlessCutOver'
  BY <1>11 DEF RetireOld, Goto, Renamed
<1>12. ASSUME NEW r \in Request, PromoteCandidate(r) PROVE ServesUnlessCutOver'
  BY <1>12 DEF PromoteCandidate, Continue, Goto, Renamed
<1>13. ASSUME NEW r \in Request, PromoteIsRefused(r) PROVE ServesUnlessCutOver'
  BY <1>13 DEF PromoteIsRefused, Continue, Goto
<1>14. ASSUME NEW r \in Request, RestoreOld(r) PROVE ServesUnlessCutOver'
  BY <1>14 DEF RestoreOld, Continue, Goto, Renamed
<1>15. ASSUME NEW r \in Request, DiscardCandidate(r) PROVE ServesUnlessCutOver'
  BY <1>15 DEF DiscardCandidate, Answer, Goto, Remove
<1>16. ASSUME NEW r \in Request, RemoveOld(r) PROVE ServesUnlessCutOver'
  BY <1>16 DEF RemoveOld, Answer, Goto, Remove
<1>17. ASSUME NEW r \in Request, RemoveFinds(r) PROVE ServesUnlessCutOver'
  BY <1>17 DEF RemoveFinds, Goto, Free
<1>18. ASSUME NEW r \in Request, RemoveLocks(r) PROVE ServesUnlessCutOver'
  BY <1>18 DEF RemoveLocks, Goto
<1>19. ASSUME NEW r \in Request, RemoveContainer(r) PROVE ServesUnlessCutOver'
  BY <1>19 DEF RemoveContainer, Continue, Goto, Remove, Exists
<1>20. ASSUME NEW r \in Request, Disconnect(r) PROVE ServesUnlessCutOver'
  BY <1>20 DEF Disconnect, Continue, Goto
<1>21. ASSUME NEW r \in Request, RemoveNetwork(r) PROVE ServesUnlessCutOver'
  BY <1>21 DEF RemoveNetwork, Answer, Goto
<1>22. ASSUME NEW r \in Request, LifecycleFinds(r) PROVE ServesUnlessCutOver'
  BY <1>22 DEF LifecycleFinds, Goto, Free
<1>23. ASSUME NEW r \in Request, LifecycleRuns(r) PROVE ServesUnlessCutOver'
  BY <1>23 DEF LifecycleRuns, Answer, Goto, Exists
<1>24. ASSUME NEW r \in Request, FailUncaught(r) PROVE ServesUnlessCutOver'
  BY <1>24 DEF FailUncaught, Answer, Goto, Strands, BetweenRenames, Free
<1>25. CASE CrashDriver
  BY <1>25 DEF CrashDriver, Strands, BetweenRenames
<1>26. CASE CaddyRecreated
  BY <1>26 DEF CaddyRecreated
<1>27. CASE ReconcileCaddy
  BY <1>27 DEF ReconcileCaddy
<1>28. CASE LoopDies
  BY <1>28 DEF LoopDies
<1>29. CASE UNCHANGED vars
  BY <1>29 DEF vars
<1>30. QED
  BY <1>1, <1>2, <1>3, <1>4, <1>5, <1>6, <1>7, <1>8, <1>9, <1>10, <1>11, <1>12, <1>13, <1>14,
     <1>15, <1>16, <1>17, <1>18, <1>19, <1>20, <1>21, <1>22, <1>23, <1>24, <1>25, <1>26, <1>27, <1>28, <1>29 DEF Next, Deploy, Removal

-----------------------------------------------------------------------------
\* At the start nothing is deployed, and the invariant holds.
LEMMA InitIInv == Init => IInv
  BY DEF Init, IInv, TypeOK, Mutex, NamesUnique, Threads, CandidateNamed, NamesCleared, OldRetired,
         CandidateReady, LifecycleFound, ServesUnlessCutOver, Label, Locked, Name

\* The invariant of the deployer holds throughout.
LEMMA Inductive == Spec => []IInv
<1>1. IInv /\ [Next]_vars => IInv'
  <2> SUFFICES ASSUME IInv, [Next]_vars PROVE IInv'
    OBVIOUS
  <2>1. QED
    BY TypeStep, MutexStep, NamesStep, ThreadsStep, ServesStep DEF IInv
<1>2. QED
  BY InitIInv, <1>1, PTL DEF Spec

\* All variables keep their type, for any number of containers and threads.
THEOREM TypeCorrect == Spec => []TypeOK
<1>1. IInv => TypeOK
  BY DEF IInv
<1>2. QED
  BY Inductive, <1>1, PTL

\* No deploy is refused because one of its names is taken, whatever crashed,
\* failed or was left behind before.
THEOREM NamesStayFree == Spec => []NamesAreFree
<1>1. IInv => NamesAreFree
  BY DEF IInv, Threads, NamesCleared, NamesAreFree
<1>2. QED
  BY Inductive, <1>1, PTL

\* What serves keeps the final name, except between the two renames of a
\* cut-over and after one that broke off there.
THEOREM ServiceHolds == Spec => []ServesUnlessCutOver
<1>1. IInv => ServesUnlessCutOver
  BY DEF IInv
<1>2. QED
  BY Inductive, <1>1, PTL

\* A deploy that answers has put a running container on the network in service:
\* neither a removal nor another deploy comes between.
THEOREM DeploysAreReachable == Spec => DeployedIsReachable
<1>1. IInv /\ [Next]_vars => [\A r \in Request : pc[r] = "removeOld" /\ pc'[r] = "done" =>
                                /\ named'["final"] = candidate[r]
                                /\ candidate[r] \in running' \cap attached' /\ network']_vars
  <2> SUFFICES ASSUME IInv, Next, NEW q \in Request, pc[q] = "removeOld", pc'[q] = "done"
               PROVE  /\ named'["final"] = candidate[q]
                      /\ candidate[q] \in running' \cap attached' /\ network'
    OBVIOUS
  <2> USE DEF IInv, TypeOK, Mutex, Locked
  <2>1. lock = q /\ \A r \in Request : r # q => pc[r] \notin Locked
    OBVIOUS
  <2>2. RemoveOld(q)
    <3>1. ~CrashDriver /\ ~CaddyRecreated /\ ~ReconcileCaddy /\ ~LoopDies
      BY DEF CrashDriver, CaddyRecreated, ReconcileCaddy, LoopDies, threads
    <3>2. PICK r \in Request : Deploy(r) \/ Removal(r) \/ LifecycleFinds(r) \/ LifecycleRuns(r)
                                \/ FailUncaught(r)
      BY <3>1 DEF Next
    <3>3. r = q
      BY <2>1, <3>2 DEF Deploy, Removal, DeployLocks, RemoveStaleCandidate, RemoveStaleRetiring,
         Prepare, PrepareFails, CreateCandidate, StartCandidate, StartIsRefused, HealthCheckEnds,
         RemoveUnhealthy, RetireOld, PromoteCandidate, PromoteIsRefused, RestoreOld,
         DiscardCandidate, RemoveOld, RemoveFinds, RemoveLocks, RemoveContainer, Disconnect,
         RemoveNetwork, LifecycleFinds, LifecycleRuns, FailUncaught, Continue, Answer, Goto
    <3>4. QED
      BY <3>2, <3>3 DEF Deploy, Removal, DeployLocks, RemoveStaleCandidate, RemoveStaleRetiring,
         Prepare, PrepareFails, CreateCandidate, StartCandidate, StartIsRefused, HealthCheckEnds,
         RemoveUnhealthy, RetireOld, PromoteCandidate, PromoteIsRefused, RestoreOld,
         DiscardCandidate, RemoveFinds, RemoveLocks, RemoveContainer, Disconnect,
         RemoveNetwork, LifecycleFinds, LifecycleRuns, FailUncaught, Free, Answer, Goto
  <2>3. /\ named["retiring"] = found[q] /\ named["final"] = candidate[q]
        /\ candidate[q] \in running \cap attached /\ network /\ candidate[q] # NoContainer
    BY DEF Threads, OldRetired, CandidateReady
  <2>4. candidate[q] # found[q]
    BY <2>3 DEF NamesUnique, Name
  <2>5. QED
    BY <2>2, <2>3, <2>4 DEF RemoveOld, Remove, Name
<1>2. QED
  BY Inductive, <1>1, PTL DEF Spec, DeployedIsReachable
=============================================================================
