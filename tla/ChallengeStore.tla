---------------------------- MODULE ChallengeStore ----------------------------
(***************************************************************************)
(* One store of pending challenges (challenge_store.py): the four kinds of *)
(* challenge of the hosted controller are four such stores.  A store holds *)
(* at most one challenge of a Team and at most Capacity challenges of all  *)
(* Teams; a challenge is consumed once, by the id the Team was given.      *)
(*                                                                         *)
(* A store is the set of its challenges, each a record with at least the   *)
(* fields team and id.                                                     *)
(***************************************************************************)
EXTENDS Naturals, FiniteSets

CONSTANT Capacity      \* MAX_PENDING_CHALLENGES

\* _by_team: the challenge of a Team.
Of(store, team) == {c \in store : c.team = team}

\* Mutant of MayCreate: the capacity is compared too late.
MayCreateOneMore(store, team) == Of(store, team) = {} /\ Cardinality(store) <= Capacity

\* create: refused when the Team has one already, or when the store is full.
MayCreate(store, team) == Of(store, team) = {} /\ Cardinality(store) < Capacity
Created(store, c) == store \cup {c}

\* get, and the first half of claim_after.  Ids are never used again, so a
\* challenge that is still in the store is the one the caller read.
Available(store, c) == c \in store

\* claim_after, once its commit has returned.
Claimed(store, c) == store \ {c}

\* cancel_team.
Cancelled(store, team) == store \ Of(store, team)

\* The properties of a store: capacity, one challenge of a Team, ids used once.
WellFormed(store) ==
  /\ Cardinality(store) <= Capacity
  /\ \A c, d \in store : c.team = d.team \/ c.id = d.id => c = d
=============================================================================
