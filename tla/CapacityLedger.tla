---------------------------- MODULE CapacityLedger ----------------------------
(***************************************************************************)
(* What capacity admission promises the host: the Teams and Apps that hold *)
(* memory, counting those still being provisioned, fit the limits after    *)
(* every step.  A key is taken alone and only if it fits; any number may   *)
(* be given back at once.  A key is a Team and the workload it names: the  *)
(* Brain or an App.                                                        *)
(***************************************************************************)
EXTENDS Naturals, FiniteSets

CONSTANTS
  Team, App, Owner, OwnerOf,
  TeamLimit, OwnerTeamLimit,       \* MAX_TEAMS and MAX_TEAMS_PER_OWNER
  BrainMemory, AppMemory,          \* hard limits of the two kinds of container
  Memory, OwnerMemory              \* what the host and one owner may commit

VARIABLE held

Workload == {"brain"} \cup App
Key == Team \X Workload

Brains(keys) == {k \in keys : k[2] = "brain"}
OwnedBy(o, keys) == {k \in keys : OwnerOf[k[1]] = o}
MemoryOf(keys) == BrainMemory * Cardinality(Brains(keys)) + AppMemory * Cardinality(keys \ Brains(keys))

Fits(keys) ==
  /\ Cardinality(Brains(keys)) <= TeamLimit
  /\ MemoryOf(keys) <= Memory
  /\ \A o \in Owner : /\ Cardinality(Brains(OwnedBy(o, keys))) <= OwnerTeamLimit
                      /\ MemoryOf(OwnedBy(o, keys)) <= OwnerMemory

Init == held = {}

Take == \E k \in Key \ held : Fits(held \cup {k}) /\ held' = held \cup {k}
Give == \E gone \in SUBSET held : held' = held \ gone

Next == Take \/ Give

Spec == Init /\ [][Next]_held
===============================================================================
