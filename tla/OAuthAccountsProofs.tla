------------------------- MODULE OAuthAccountsProofs -------------------------
(***************************************************************************)
(* The safety properties of OAuthAccounts, for any number of accounts,     *)
(* sessions, threads and flights.  A single flight follows from what the   *)
(* table of flights has while a thread is counted; that a late refresh or  *)
(* disconnect finds what it read follows from the single flight and from   *)
(* generations that only grow while the record is there.                   *)
(***************************************************************************)
EXTENDS OAuthAccounts, TLAPS

(***************************************************************************)
(* The inductive invariant.                                                *)
(***************************************************************************)

\* A thread that counts on a flight, before, in and after its lock.
Inside == InFlight \cup {"resolveWaits", "revokeWaits", "leave"}

\* The steps at which a thread relies on the record it read.
Reading == {"refresh", "store", "revoke", "revokeAccess", "delete"}

\* What the locals of a thread are at each step.
Locals ==
  \A t \in Thread :
    /\ pc[t] \notin TeamLocked \cup {"idle"} => acct[t] \in Account
    /\ pc[t] \in {"declare", "exchange"} => claimed[t] \in Challenge
    /\ pc[t] \in {"put", "store"} => received[t] \in Grant
    /\ pc[t] \in Reading => read[t] \in Record

TypeInv == TypeOK /\ Locals

\* A thread inside is counted by the flight of its account, which is the one in
\* the table; a thread in a flight has its lock.
Flights ==
  \A t \in Thread :
    /\ pc[t] \in Inside => /\ flight[t] \in Flight /\ t \in users[flight[t]]
                           /\ table[acct[t]] = flight[t]
    /\ pc[t] \in InFlight => holder[flight[t]] = t

\* A state that was given out is in one place: pending, claimed or exchanged.
Claims(t) == pc[t] \in {"declare", "exchange"}
Consents ==
  /\ \A c \in pending : c.state <= states /\ c.state \notin exchanged
  /\ \A c, d \in pending : c.state = d.state => c = d
  /\ \A t \in Thread : Claims(t) => /\ claimed[t].state <= states
                                    /\ claimed[t].state \notin exchanged
                                    /\ \A c \in pending : c.state # claimed[t].state
  /\ \A t, u \in Thread : Claims(t) /\ Claims(u) /\ claimed[t].state = claimed[u].state => t = u
  /\ \A s \in exchanged : s <= states

\* Unless it was overtaken, the record of the account is the one a thread read,
\* or a later one of a higher generation.
Reads ==
  \A t \in Thread : pc[t] \in Reading /\ t \notin overtaken =>
    /\ records[acct[t]] # NoRecord
    /\ records[acct[t]].generation >= read[t].generation
    /\ records[acct[t]].generation = read[t].generation => records[acct[t]].grant = read[t].grant

\* What a disconnect has revoked when it comes to delete.
Revocations ==
  \A t \in Thread :
    /\ pc[t] \in {"revokeAccess", "delete"} => <<"refresh", read[t].grant>> \in revoked
    /\ pc[t] = "delete" /\ hosted => <<"access", read[t].grant>> \in revoked
    /\ pc[t] = "revokeAccess" => hosted

IInv == TypeInv /\ Flights /\ Consents /\ Reads /\ Revocations

-----------------------------------------------------------------------------
(* Types, and what the locals are at each step.                            *)

\* put gives an account a record.
LEMMA PutTypes ==
  ASSUME TypeOK, NEW a \in Account, NEW g \in Grant, Put(a, g)
  PROVE  /\ records' \in [Account -> Record \cup {NoRecord}]
         /\ stale' \in SUBSET Account /\ declared' \in SUBSET Account
<1>1. records[a] \in Record \/ records[a] = NoRecord
  BY DEF TypeOK
<1>2. IF records[a] = NoRecord THEN 1 \in Nat \ {0} ELSE records[a].generation + 1 \in Nat \ {0}
  BY <1>1 DEF Record
<1>3. [grant |-> g, generation |-> IF records[a] = NoRecord THEN 1 ELSE records[a].generation + 1] \in Record
  BY <1>2 DEF Record
<1>4. records' \in [Account -> Record \cup {NoRecord}]
  BY <1>3 DEF Put, TypeOK
<1>5. stale' \in SUBSET Account /\ declared' \in SUBSET Account
  BY DEF Put, TypeOK
<1> QED BY <1>4, <1>5

\* An exchange receives a grant for a state.
LEMMA ExchangedTypes ==
  ASSUME TypeInv, NEW t \in Thread, NEW g \in Grant, Exchanged(t, g)
  PROVE  TypeInv'
<1> USE OAuthAssumption DEF Goto, TypeInv, TypeOK, Locals, Label, InFlight, TeamLocked, Reading,
                            store, challenges, flights, locals, history
<1>1. claimed[t].state \in State
  BY DEF Exchanged, Challenge
<1>2. exchanged' \in SUBSET State
  BY <1>1 DEF Exchanged
<1>3. received' \in [Thread -> Grant \cup {0}] /\ grants' \in Nat
  BY DEF Exchanged, Issue, Grant
<1>4. pc' \in [Thread -> Label]
  BY DEF Exchanged
<1>5. Locals'
  BY DEF Exchanged
<1> QED BY <1>2, <1>3, <1>4, <1>5 DEF Exchanged

\* Every step keeps the types and the locals.
LEMMA TypeStep ==
  ASSUME TypeInv, Next
  PROVE  TypeInv'
<1> USE OAuthAssumption DEF Goto, TypeInv, TypeOK, Locals, store, challenges,
                            flights, locals, history, InFlight, TeamLocked,
                            Reading, Label, Challenge, Record, Token, State,
                            Grant
<1>1. ASSUME NEW t \in Thread, NEW a \in Account, SelectMissing(t, a) PROVE TypeInv'
  BY <1>1 DEF SelectMissing
<1>2. ASSUME NEW t \in Thread, CreateChallenge(t) PROVE TypeInv'
  BY <1>2 DEF CreateChallenge, MayChallenge, Answer
<1>3. ASSUME NEW t \in Thread, ChallengeIsRefused(t) PROVE TypeInv'
  BY <1>3 DEF ChallengeIsRefused, Answer
<1>4. ASSUME NEW t \in Thread, NEW c \in pending, ClaimCallback(t, c) PROVE TypeInv'
  BY <1>4 DEF ClaimCallback
<1>5. ASSUME NEW t \in Thread, RevalidateHosted(t) PROVE TypeInv'
  BY <1>5 DEF RevalidateHosted
<1>6. ASSUME NEW t \in Thread, RevalidateLocal(t) PROVE TypeInv'
  BY <1>6 DEF RevalidateLocal
<1>7. ASSUME NEW t \in Thread, NEW g \in Grant, ExchangeCode(t, g) PROVE TypeInv'
  BY <1>7, ExchangedTypes DEF ExchangeCode
<1>8. ASSUME NEW t \in Thread, NEW g \in Grant, ClaimAtBroker(t, g) PROVE TypeInv'
  BY <1>8, ExchangedTypes DEF ClaimAtBroker
<1>9. ASSUME NEW t \in Thread, CallbackFails(t) PROVE TypeInv'
  <2>1. pc[t] = "exchange" => claimed[t].state \in State
    BY <1>9
  <2>2. exchanged' \in SUBSET State
    BY <1>9, <2>1 DEF CallbackFails
  <2> QED BY <1>9, <2>2 DEF CallbackFails, Answer
<1>10. ASSUME NEW t \in Thread, PutExchanged(t) PROVE TypeInv'
  <2>1. acct[t] \in Account /\ received[t] \in Grant
    BY <1>10 DEF PutExchanged
  <2>2. /\ records' \in [Account -> Record \cup {NoRecord}]
        /\ stale' \in SUBSET Account /\ declared' \in SUBSET Account
    BY <1>10, <2>1, PutTypes DEF PutExchanged
  <2>3. CASE hosted
    BY <1>10, <2>2, <2>3 DEF PutExchanged
  <2>4. CASE ~hosted
    <3>1. Answer(t) /\ UNCHANGED <<hosted, challenges, grants, flights, history>>
      BY <1>10, <2>4 DEF PutExchanged
    <3> QED BY <2>2, <3>1 DEF Answer
  <2> QED BY <2>3, <2>4
<1>11. ASSUME NEW t \in Thread, CallbackAuthorized(t) PROVE TypeInv'
  BY <1>11 DEF CallbackAuthorized, Answer
<1>12. ASSUME NEW t \in Thread, CallbackUnauthorized(t) PROVE TypeInv'
  BY <1>12 DEF CallbackUnauthorized
<1>13. ASSUME NEW t \in Thread, UninstallStarts(t) PROVE TypeInv'
  BY <1>13 DEF UninstallStarts
<1>14. ASSUME NEW t \in Thread, RemoveContainer(t) PROVE TypeInv'
  BY <1>14 DEF RemoveContainer
<1>15. ASSUME NEW t \in Thread, DeleteAccounts(t) PROVE TypeInv'
  BY <1>15 DEF DeleteAccounts, Discard, Answer
<1>16. ASSUME NEW t \in Thread, ResetStarts(t) PROVE TypeInv'
  BY <1>16 DEF ResetStarts
<1>17. ASSUME NEW t \in Thread, ResetDeletesAccounts(t) PROVE TypeInv'
  BY <1>17 DEF ResetDeletesAccounts, Discard
<1>18. ASSUME NEW t \in Thread, ResetRemovesContainers(t) PROVE TypeInv'
  BY <1>18 DEF ResetRemovesContainers, Answer
<1>19. ASSUME NEW t \in Thread, RemovalFails(t) PROVE TypeInv'
  BY <1>19 DEF RemovalFails, Answer
<1>20. ASSUME NEW t \in Thread, NEW a \in Account, ResolveStarts(t, a) PROVE TypeInv'
  BY <1>20 DEF ResolveStarts
<1>21. ASSUME NEW t \in Thread, NEW a \in Account, DisconnectLocal(t, a) PROVE TypeInv'
  BY <1>21 DEF DisconnectLocal
<1>22. ASSUME NEW t \in Thread, NEW a \in Account, DisconnectHosted(t, a) PROVE TypeInv'
  BY <1>22 DEF DisconnectHosted
<1>23. ASSUME NEW t \in Thread, EnterFlight(t) PROVE TypeInv'
  BY <1>23 DEF EnterFlight, FreeFlight
<1>24. ASSUME NEW t \in Thread, AcquireFlight(t) PROVE TypeInv'
  BY <1>24 DEF AcquireFlight
<1>25. ASSUME NEW t \in Thread, ResolveReads(t) PROVE TypeInv'
  <2>1. CASE acct[t] \in stale
    BY <1>25, <2>1 DEF ResolveReads
  <2>2. CASE acct[t] \notin stale
    <3>1. /\ pc[t] = "resolveReads" /\ EndFlight(t)
          /\ UNCHANGED <<hosted, store, challenges, grants, chat, revoked, exchanged>>
      BY <1>25, <2>2 DEF ResolveReads
    <3> QED BY <3>1 DEF EndFlight
  <2> QED BY <2>1, <2>2
<1>26. ASSUME NEW t \in Thread, NEW g \in Grant, RefreshAtProvider(t, g) PROVE TypeInv'
  BY <1>26 DEF RefreshAtProvider, Refreshed, Issue
<1>27. ASSUME NEW t \in Thread, NEW g \in Grant, RefreshAtBroker(t, g) PROVE TypeInv'
  BY <1>27 DEF RefreshAtBroker, Refreshed, Issue
<1>28. ASSUME NEW t \in Thread, StoreRefreshed(t) PROVE TypeInv'
  <2>1. acct[t] \in Account /\ received[t] \in Grant
    BY <1>28 DEF StoreRefreshed
  <2>2. /\ records' \in [Account -> Record \cup {NoRecord}]
        /\ stale' \in SUBSET Account /\ declared' \in SUBSET Account
    BY <1>28, <2>1, PutTypes DEF StoreRefreshed
  <2> QED BY <1>28, <2>2 DEF StoreRefreshed, EndFlight
<1>29. ASSUME NEW t \in Thread, RevokeReads(t) PROVE TypeInv'
  BY <1>29 DEF RevokeReads
<1>30. ASSUME NEW t \in Thread, RevokeAtBroker(t) PROVE TypeInv'
  BY <1>30 DEF RevokeAtBroker
<1>31. ASSUME NEW t \in Thread, RevokeRefreshToken(t) PROVE TypeInv'
  BY <1>31 DEF RevokeRefreshToken
<1>32. ASSUME NEW t \in Thread, RevokeAccessToken(t) PROVE TypeInv'
  BY <1>32 DEF RevokeAccessToken
<1>33. ASSUME NEW t \in Thread, DeleteRevoked(t) PROVE TypeInv'
  BY <1>33 DEF DeleteRevoked, EndFlight
<1>34. ASSUME NEW t \in Thread, FlightFails(t) PROVE TypeInv'
  BY <1>34 DEF FlightFails, EndFlight
<1>35. ASSUME NEW t \in Thread, LeaveFlight(t) PROVE TypeInv'
  BY <1>35 DEF LeaveFlight, Answer
<1>36. ASSUME NEW d \in SUBSET Account, InstallAssistant(d) PROVE TypeInv'
  <2>1. /\ records' \in [Account -> Record \cup {NoRecord}] /\ stale' \in SUBSET Account
        /\ overtaken' \in SUBSET Thread /\ UNCHANGED <<revoked, exchanged>>
    BY <1>36 DEF InstallAssistant, Discard
  <2> QED BY <1>36, <2>1 DEF InstallAssistant
<1>37. ASSUME NEW c \in pending, ChallengeExpires(c) PROVE TypeInv'
  BY <1>37 DEF ChallengeExpires
<1>38. ASSUME StopCancelsChallenges PROVE TypeInv'
  BY <1>38 DEF StopCancelsChallenges
<1>39. ASSUME NEW a \in Account, TokenAges(a) PROVE TypeInv'
  BY <1>39 DEF TokenAges
<1>40. ASSUME Crash PROVE TypeInv'
  BY <1>40 DEF Crash
<1> QED
  BY <1>1, <1>2, <1>3, <1>4, <1>5, <1>6, <1>7, <1>8, <1>9, <1>10, <1>11,
     <1>12, <1>13, <1>14, <1>15, <1>16, <1>17, <1>18, <1>19, <1>20, <1>21,
     <1>22, <1>23, <1>24, <1>25, <1>26, <1>27, <1>28, <1>29, <1>30, <1>31,
     <1>32, <1>33, <1>34, <1>35, <1>36, <1>37, <1>38, <1>39, <1>40
  DEF Next, ConsentStep, RemovalStep, FlightStep

-----------------------------------------------------------------------------
(* The flights: only EnterFlight and LeaveFlight change who counts on one, *)
(* and only a thread that has its lock lets go of it.                      *)

\* Every step keeps the users, the table and the locks together.
LEMMA FlightsStep ==
  ASSUME TypeInv, Flights, Next
  PROVE  Flights'
<1> USE OAuthAssumption DEF Goto, TypeInv, TypeOK, Locals, store, challenges,
                            flights, locals, history, InFlight, TeamLocked,
                            Reading, Flights, Inside, Label
<1>1. ASSUME NEW t \in Thread, NEW a \in Account, SelectMissing(t, a) PROVE Flights'
  BY <1>1 DEF SelectMissing
<1>2. ASSUME NEW t \in Thread, CreateChallenge(t) PROVE Flights'
  BY <1>2 DEF CreateChallenge, MayChallenge, Answer
<1>3. ASSUME NEW t \in Thread, ChallengeIsRefused(t) PROVE Flights'
  BY <1>3 DEF ChallengeIsRefused, Answer
<1>4. ASSUME NEW t \in Thread, NEW c \in pending, ClaimCallback(t, c) PROVE Flights'
  BY <1>4 DEF ClaimCallback
<1>5. ASSUME NEW t \in Thread, RevalidateHosted(t) PROVE Flights'
  BY <1>5 DEF RevalidateHosted
<1>6. ASSUME NEW t \in Thread, RevalidateLocal(t) PROVE Flights'
  BY <1>6 DEF RevalidateLocal
<1>7. ASSUME NEW t \in Thread, NEW g \in Grant, ExchangeCode(t, g) PROVE Flights'
  BY <1>7 DEF ExchangeCode, Exchanged, Issue
<1>8. ASSUME NEW t \in Thread, NEW g \in Grant, ClaimAtBroker(t, g) PROVE Flights'
  BY <1>8 DEF ClaimAtBroker, Exchanged, Issue
<1>9. ASSUME NEW t \in Thread, CallbackFails(t) PROVE Flights'
  BY <1>9 DEF CallbackFails, Answer
<1>10. ASSUME NEW t \in Thread, PutExchanged(t) PROVE Flights'
  BY <1>10 DEF PutExchanged, Put, Answer
<1>11. ASSUME NEW t \in Thread, CallbackAuthorized(t) PROVE Flights'
  BY <1>11 DEF CallbackAuthorized, Answer
<1>12. ASSUME NEW t \in Thread, CallbackUnauthorized(t) PROVE Flights'
  BY <1>12 DEF CallbackUnauthorized
<1>13. ASSUME NEW t \in Thread, UninstallStarts(t) PROVE Flights'
  BY <1>13 DEF UninstallStarts
<1>14. ASSUME NEW t \in Thread, RemoveContainer(t) PROVE Flights'
  BY <1>14 DEF RemoveContainer
<1>15. ASSUME NEW t \in Thread, DeleteAccounts(t) PROVE Flights'
  BY <1>15 DEF DeleteAccounts, Discard, Answer
<1>16. ASSUME NEW t \in Thread, ResetStarts(t) PROVE Flights'
  BY <1>16 DEF ResetStarts
<1>17. ASSUME NEW t \in Thread, ResetDeletesAccounts(t) PROVE Flights'
  BY <1>17 DEF ResetDeletesAccounts, Discard
<1>18. ASSUME NEW t \in Thread, ResetRemovesContainers(t) PROVE Flights'
  BY <1>18 DEF ResetRemovesContainers, Answer
<1>19. ASSUME NEW t \in Thread, RemovalFails(t) PROVE Flights'
  BY <1>19 DEF RemovalFails, Answer
<1>20. ASSUME NEW t \in Thread, NEW a \in Account, ResolveStarts(t, a) PROVE Flights'
  BY <1>20 DEF ResolveStarts
<1>21. ASSUME NEW t \in Thread, NEW a \in Account, DisconnectLocal(t, a) PROVE Flights'
  BY <1>21 DEF DisconnectLocal
<1>22. ASSUME NEW t \in Thread, NEW a \in Account, DisconnectHosted(t, a) PROVE Flights'
  BY <1>22 DEF DisconnectHosted
<1>23. ASSUME NEW t \in Thread, EnterFlight(t) PROVE Flights'
  BY <1>23 DEF EnterFlight, FreeFlight
<1>24. ASSUME NEW t \in Thread, AcquireFlight(t) PROVE Flights'
  BY <1>24 DEF AcquireFlight
<1>25. ASSUME NEW t \in Thread, ResolveReads(t) PROVE Flights'
  BY <1>25 DEF ResolveReads, EndFlight
<1>26. ASSUME NEW t \in Thread, NEW g \in Grant, RefreshAtProvider(t, g) PROVE Flights'
  BY <1>26 DEF RefreshAtProvider, Refreshed, Issue
<1>27. ASSUME NEW t \in Thread, NEW g \in Grant, RefreshAtBroker(t, g) PROVE Flights'
  BY <1>27 DEF RefreshAtBroker, Refreshed, Issue
<1>28. ASSUME NEW t \in Thread, StoreRefreshed(t) PROVE Flights'
  BY <1>28 DEF StoreRefreshed, Put, EndFlight
<1>29. ASSUME NEW t \in Thread, RevokeReads(t) PROVE Flights'
  BY <1>29 DEF RevokeReads
<1>30. ASSUME NEW t \in Thread, RevokeAtBroker(t) PROVE Flights'
  BY <1>30 DEF RevokeAtBroker
<1>31. ASSUME NEW t \in Thread, RevokeRefreshToken(t) PROVE Flights'
  BY <1>31 DEF RevokeRefreshToken
<1>32. ASSUME NEW t \in Thread, RevokeAccessToken(t) PROVE Flights'
  BY <1>32 DEF RevokeAccessToken
<1>33. ASSUME NEW t \in Thread, DeleteRevoked(t) PROVE Flights'
  BY <1>33 DEF DeleteRevoked, EndFlight
<1>34. ASSUME NEW t \in Thread, FlightFails(t) PROVE Flights'
  BY <1>34 DEF FlightFails, EndFlight
<1>35. ASSUME NEW t \in Thread, LeaveFlight(t) PROVE Flights'
  BY <1>35 DEF LeaveFlight, Answer
<1>36. ASSUME NEW d \in SUBSET Account, InstallAssistant(d) PROVE Flights'
  BY <1>36 DEF InstallAssistant, Discard
<1>37. ASSUME NEW c \in pending, ChallengeExpires(c) PROVE Flights'
  BY <1>37 DEF ChallengeExpires
<1>38. ASSUME StopCancelsChallenges PROVE Flights'
  BY <1>38 DEF StopCancelsChallenges
<1>39. ASSUME NEW a \in Account, TokenAges(a) PROVE Flights'
  BY <1>39 DEF TokenAges
<1>40. ASSUME Crash PROVE Flights'
  BY <1>40 DEF Crash
<1> QED
  BY <1>1, <1>2, <1>3, <1>4, <1>5, <1>6, <1>7, <1>8, <1>9, <1>10, <1>11,
     <1>12, <1>13, <1>14, <1>15, <1>16, <1>17, <1>18, <1>19, <1>20, <1>21,
     <1>22, <1>23, <1>24, <1>25, <1>26, <1>27, <1>28, <1>29, <1>30, <1>31,
     <1>32, <1>33, <1>34, <1>35, <1>36, <1>37, <1>38, <1>39, <1>40
  DEF Next, ConsentStep, RemovalStep, FlightStep

\* One lock for one account: what the table has for it.
LEMMA OneInFlight ==
  ASSUME TypeInv, Flights
  PROVE  SingleFlight
BY OAuthAssumption DEF SingleFlight, TypeInv, TypeOK, Locals, Flights, Inside

-----------------------------------------------------------------------------
(* The states of consents.                                                 *)

\* Every step keeps a state in one place.
LEMMA ConsentsStep ==
  ASSUME TypeInv, Consents, Next
  PROVE  Consents'
<1> USE OAuthAssumption DEF Goto, TypeInv, TypeOK, Locals, store, challenges,
                            flights, locals, history, InFlight, TeamLocked,
                            Reading, Consents, Claims, Challenge, State
<1>1. ASSUME NEW t \in Thread, NEW a \in Account, SelectMissing(t, a) PROVE Consents'
  BY <1>1 DEF SelectMissing
<1>2. ASSUME NEW t \in Thread, CreateChallenge(t) PROVE Consents'
  BY <1>2 DEF CreateChallenge, MayChallenge, Answer
<1>3. ASSUME NEW t \in Thread, ChallengeIsRefused(t) PROVE Consents'
  BY <1>3 DEF ChallengeIsRefused, Answer
<1>4. ASSUME NEW t \in Thread, NEW c \in pending, ClaimCallback(t, c) PROVE Consents'
  BY <1>4 DEF ClaimCallback
<1>5. ASSUME NEW t \in Thread, RevalidateHosted(t) PROVE Consents'
  BY <1>5 DEF RevalidateHosted
<1>6. ASSUME NEW t \in Thread, RevalidateLocal(t) PROVE Consents'
  BY <1>6 DEF RevalidateLocal
<1>7. ASSUME NEW t \in Thread, NEW g \in Grant, ExchangeCode(t, g) PROVE Consents'
  BY <1>7 DEF ExchangeCode, Exchanged, Issue
<1>8. ASSUME NEW t \in Thread, NEW g \in Grant, ClaimAtBroker(t, g) PROVE Consents'
  BY <1>8 DEF ClaimAtBroker, Exchanged, Issue
<1>9. ASSUME NEW t \in Thread, CallbackFails(t) PROVE Consents'
  BY <1>9 DEF CallbackFails, Answer
<1>10. ASSUME NEW t \in Thread, PutExchanged(t) PROVE Consents'
  <2>1. /\ UNCHANGED <<pending, states, exchanged>>
        /\ \A u \in Thread : Claims(u)' => Claims(u) /\ claimed'[u] = claimed[u]
    <3>1. CASE hosted
      BY <1>10, <3>1 DEF PutExchanged
    <3>2. CASE ~hosted
      BY <1>10, <3>2 DEF PutExchanged, Answer
    <3> QED BY <3>1, <3>2
  <2> QED BY <2>1
<1>11. ASSUME NEW t \in Thread, CallbackAuthorized(t) PROVE Consents'
  BY <1>11 DEF CallbackAuthorized, Answer
<1>12. ASSUME NEW t \in Thread, CallbackUnauthorized(t) PROVE Consents'
  BY <1>12 DEF CallbackUnauthorized
<1>13. ASSUME NEW t \in Thread, UninstallStarts(t) PROVE Consents'
  BY <1>13 DEF UninstallStarts
<1>14. ASSUME NEW t \in Thread, RemoveContainer(t) PROVE Consents'
  BY <1>14 DEF RemoveContainer
<1>15. ASSUME NEW t \in Thread, DeleteAccounts(t) PROVE Consents'
  BY <1>15 DEF DeleteAccounts, Discard, Answer
<1>16. ASSUME NEW t \in Thread, ResetStarts(t) PROVE Consents'
  BY <1>16 DEF ResetStarts
<1>17. ASSUME NEW t \in Thread, ResetDeletesAccounts(t) PROVE Consents'
  BY <1>17 DEF ResetDeletesAccounts, Discard
<1>18. ASSUME NEW t \in Thread, ResetRemovesContainers(t) PROVE Consents'
  BY <1>18 DEF ResetRemovesContainers, Answer
<1>19. ASSUME NEW t \in Thread, RemovalFails(t) PROVE Consents'
  BY <1>19 DEF RemovalFails, Answer
<1>20. ASSUME NEW t \in Thread, NEW a \in Account, ResolveStarts(t, a) PROVE Consents'
  BY <1>20 DEF ResolveStarts
<1>21. ASSUME NEW t \in Thread, NEW a \in Account, DisconnectLocal(t, a) PROVE Consents'
  BY <1>21 DEF DisconnectLocal
<1>22. ASSUME NEW t \in Thread, NEW a \in Account, DisconnectHosted(t, a) PROVE Consents'
  BY <1>22 DEF DisconnectHosted
<1>23. ASSUME NEW t \in Thread, EnterFlight(t) PROVE Consents'
  BY <1>23 DEF EnterFlight, FreeFlight
<1>24. ASSUME NEW t \in Thread, AcquireFlight(t) PROVE Consents'
  BY <1>24 DEF AcquireFlight
<1>25. ASSUME NEW t \in Thread, ResolveReads(t) PROVE Consents'
  BY <1>25 DEF ResolveReads, EndFlight
<1>26. ASSUME NEW t \in Thread, NEW g \in Grant, RefreshAtProvider(t, g) PROVE Consents'
  BY <1>26 DEF RefreshAtProvider, Refreshed, Issue
<1>27. ASSUME NEW t \in Thread, NEW g \in Grant, RefreshAtBroker(t, g) PROVE Consents'
  BY <1>27 DEF RefreshAtBroker, Refreshed, Issue
<1>28. ASSUME NEW t \in Thread, StoreRefreshed(t) PROVE Consents'
  BY <1>28 DEF StoreRefreshed, Put, EndFlight
<1>29. ASSUME NEW t \in Thread, RevokeReads(t) PROVE Consents'
  BY <1>29 DEF RevokeReads
<1>30. ASSUME NEW t \in Thread, RevokeAtBroker(t) PROVE Consents'
  BY <1>30 DEF RevokeAtBroker
<1>31. ASSUME NEW t \in Thread, RevokeRefreshToken(t) PROVE Consents'
  BY <1>31 DEF RevokeRefreshToken
<1>32. ASSUME NEW t \in Thread, RevokeAccessToken(t) PROVE Consents'
  BY <1>32 DEF RevokeAccessToken
<1>33. ASSUME NEW t \in Thread, DeleteRevoked(t) PROVE Consents'
  BY <1>33 DEF DeleteRevoked, EndFlight
<1>34. ASSUME NEW t \in Thread, FlightFails(t) PROVE Consents'
  BY <1>34 DEF FlightFails, EndFlight
<1>35. ASSUME NEW t \in Thread, LeaveFlight(t) PROVE Consents'
  BY <1>35 DEF LeaveFlight, Answer
<1>36. ASSUME NEW d \in SUBSET Account, InstallAssistant(d) PROVE Consents'
  BY <1>36 DEF InstallAssistant, Discard
<1>37. ASSUME NEW c \in pending, ChallengeExpires(c) PROVE Consents'
  BY <1>37 DEF ChallengeExpires
<1>38. ASSUME StopCancelsChallenges PROVE Consents'
  BY <1>38 DEF StopCancelsChallenges
<1>39. ASSUME NEW a \in Account, TokenAges(a) PROVE Consents'
  BY <1>39 DEF TokenAges
<1>40. ASSUME Crash PROVE Consents'
  BY <1>40 DEF Crash
<1> QED
  BY <1>1, <1>2, <1>3, <1>4, <1>5, <1>6, <1>7, <1>8, <1>9, <1>10, <1>11,
     <1>12, <1>13, <1>14, <1>15, <1>16, <1>17, <1>18, <1>19, <1>20, <1>21,
     <1>22, <1>23, <1>24, <1>25, <1>26, <1>27, <1>28, <1>29, <1>30, <1>31,
     <1>32, <1>33, <1>34, <1>35, <1>36, <1>37, <1>38, <1>39, <1>40
  DEF Next, ConsentStep, RemovalStep, FlightStep

-----------------------------------------------------------------------------
(* What a thread read, and what it revoked.                                *)

\* Every step keeps the record that was read, or a later generation of it.
LEMMA ReadsStep ==
  ASSUME TypeInv, Flights, Reads, Next
  PROVE  Reads'
<1> USE OAuthAssumption DEF Goto, TypeInv, TypeOK, Locals, store, challenges,
                            flights, locals, history, InFlight, TeamLocked,
                            Reading, Reads, Record, Grant
<1>1. ASSUME NEW t \in Thread, NEW a \in Account, SelectMissing(t, a) PROVE Reads'
  BY <1>1 DEF SelectMissing
<1>2. ASSUME NEW t \in Thread, CreateChallenge(t) PROVE Reads'
  BY <1>2 DEF CreateChallenge, MayChallenge, Answer
<1>3. ASSUME NEW t \in Thread, ChallengeIsRefused(t) PROVE Reads'
  BY <1>3 DEF ChallengeIsRefused, Answer
<1>4. ASSUME NEW t \in Thread, NEW c \in pending, ClaimCallback(t, c) PROVE Reads'
  BY <1>4 DEF ClaimCallback
<1>5. ASSUME NEW t \in Thread, RevalidateHosted(t) PROVE Reads'
  BY <1>5 DEF RevalidateHosted
<1>6. ASSUME NEW t \in Thread, RevalidateLocal(t) PROVE Reads'
  BY <1>6 DEF RevalidateLocal
<1>7. ASSUME NEW t \in Thread, NEW g \in Grant, ExchangeCode(t, g) PROVE Reads'
  BY <1>7 DEF ExchangeCode, Exchanged, Issue
<1>8. ASSUME NEW t \in Thread, NEW g \in Grant, ClaimAtBroker(t, g) PROVE Reads'
  BY <1>8 DEF ClaimAtBroker, Exchanged, Issue
<1>9. ASSUME NEW t \in Thread, CallbackFails(t) PROVE Reads'
  BY <1>9 DEF CallbackFails, Answer
<1>10. ASSUME NEW t \in Thread, PutExchanged(t) PROVE Reads'
  BY <1>10 DEF PutExchanged, Put, Answer
<1>11. ASSUME NEW t \in Thread, CallbackAuthorized(t) PROVE Reads'
  BY <1>11 DEF CallbackAuthorized, Answer
<1>12. ASSUME NEW t \in Thread, CallbackUnauthorized(t) PROVE Reads'
  BY <1>12 DEF CallbackUnauthorized
<1>13. ASSUME NEW t \in Thread, UninstallStarts(t) PROVE Reads'
  BY <1>13 DEF UninstallStarts
<1>14. ASSUME NEW t \in Thread, RemoveContainer(t) PROVE Reads'
  BY <1>14 DEF RemoveContainer
<1>15. ASSUME NEW t \in Thread, DeleteAccounts(t) PROVE Reads'
  BY <1>15 DEF DeleteAccounts, Discard, Answer
<1>16. ASSUME NEW t \in Thread, ResetStarts(t) PROVE Reads'
  BY <1>16 DEF ResetStarts
<1>17. ASSUME NEW t \in Thread, ResetDeletesAccounts(t) PROVE Reads'
  BY <1>17 DEF ResetDeletesAccounts, Discard
<1>18. ASSUME NEW t \in Thread, ResetRemovesContainers(t) PROVE Reads'
  BY <1>18 DEF ResetRemovesContainers, Answer
<1>19. ASSUME NEW t \in Thread, RemovalFails(t) PROVE Reads'
  BY <1>19 DEF RemovalFails, Answer
<1>20. ASSUME NEW t \in Thread, NEW a \in Account, ResolveStarts(t, a) PROVE Reads'
  BY <1>20 DEF ResolveStarts
<1>21. ASSUME NEW t \in Thread, NEW a \in Account, DisconnectLocal(t, a) PROVE Reads'
  BY <1>21 DEF DisconnectLocal
<1>22. ASSUME NEW t \in Thread, NEW a \in Account, DisconnectHosted(t, a) PROVE Reads'
  BY <1>22 DEF DisconnectHosted
<1>23. ASSUME NEW t \in Thread, EnterFlight(t) PROVE Reads'
  BY <1>23 DEF EnterFlight, FreeFlight
<1>24. ASSUME NEW t \in Thread, AcquireFlight(t) PROVE Reads'
  BY <1>24 DEF AcquireFlight
<1>25. ASSUME NEW t \in Thread, ResolveReads(t) PROVE Reads'
  BY <1>25 DEF ResolveReads, EndFlight
<1>26. ASSUME NEW t \in Thread, NEW g \in Grant, RefreshAtProvider(t, g) PROVE Reads'
  BY <1>26 DEF RefreshAtProvider, Refreshed, Issue
<1>27. ASSUME NEW t \in Thread, NEW g \in Grant, RefreshAtBroker(t, g) PROVE Reads'
  BY <1>27 DEF RefreshAtBroker, Refreshed, Issue
<1>28. ASSUME NEW t \in Thread, StoreRefreshed(t) PROVE Reads'
  BY <1>28 DEF StoreRefreshed, Put, EndFlight
<1>29. ASSUME NEW t \in Thread, RevokeReads(t) PROVE Reads'
  BY <1>29 DEF RevokeReads
<1>30. ASSUME NEW t \in Thread, RevokeAtBroker(t) PROVE Reads'
  BY <1>30 DEF RevokeAtBroker
<1>31. ASSUME NEW t \in Thread, RevokeRefreshToken(t) PROVE Reads'
  BY <1>31 DEF RevokeRefreshToken
<1>32. ASSUME NEW t \in Thread, RevokeAccessToken(t) PROVE Reads'
  BY <1>32 DEF RevokeAccessToken
<1>33. ASSUME NEW t \in Thread, DeleteRevoked(t) PROVE Reads'
  <2> SUFFICES ASSUME NEW u \in Thread, (pc[u] \in Reading)', u \notin overtaken'
               PROVE  /\ records'[acct'[u]] # NoRecord
                      /\ records'[acct'[u]].generation >= read'[u].generation
                      /\ records'[acct'[u]].generation = read'[u].generation
                           => records'[acct'[u]].grant = read'[u].grant
    BY DEF Reads
  <2>1. u # t
    BY <1>33 DEF DeleteRevoked, EndFlight
  <2>2. pc[u] \in Reading /\ u \notin overtaken /\ acct'[u] = acct[u] /\ read'[u] = read[u]
    BY <1>33, <2>1 DEF DeleteRevoked, EndFlight
  <2>3. acct[u] # acct[t]
    BY <1>33, <2>1, <2>2 DEF DeleteRevoked, Flights, Inside
  <2>4. records'[acct[u]] = records[acct[u]]
    BY <1>33, <2>2, <2>3 DEF DeleteRevoked
  <2> QED BY <2>2, <2>4 DEF Reads
<1>34. ASSUME NEW t \in Thread, FlightFails(t) PROVE Reads'
  BY <1>34 DEF FlightFails, EndFlight
<1>35. ASSUME NEW t \in Thread, LeaveFlight(t) PROVE Reads'
  BY <1>35 DEF LeaveFlight, Answer
<1>36. ASSUME NEW d \in SUBSET Account, InstallAssistant(d) PROVE Reads'
  BY <1>36 DEF InstallAssistant, Discard
<1>37. ASSUME NEW c \in pending, ChallengeExpires(c) PROVE Reads'
  BY <1>37 DEF ChallengeExpires
<1>38. ASSUME StopCancelsChallenges PROVE Reads'
  BY <1>38 DEF StopCancelsChallenges
<1>39. ASSUME NEW a \in Account, TokenAges(a) PROVE Reads'
  BY <1>39 DEF TokenAges
<1>40. ASSUME Crash PROVE Reads'
  BY <1>40 DEF Crash
<1> QED
  BY <1>1, <1>2, <1>3, <1>4, <1>5, <1>6, <1>7, <1>8, <1>9, <1>10, <1>11,
     <1>12, <1>13, <1>14, <1>15, <1>16, <1>17, <1>18, <1>19, <1>20, <1>21,
     <1>22, <1>23, <1>24, <1>25, <1>26, <1>27, <1>28, <1>29, <1>30, <1>31,
     <1>32, <1>33, <1>34, <1>35, <1>36, <1>37, <1>38, <1>39, <1>40
  DEF Next, ConsentStep, RemovalStep, FlightStep

\* Every step keeps what was revoked for the record that was read.
LEMMA RevocationsStep ==
  ASSUME TypeInv, Revocations, Next
  PROVE  Revocations'
<1> USE OAuthAssumption DEF Goto, TypeInv, TypeOK, Locals, store, challenges,
                            flights, locals, history, InFlight, TeamLocked,
                            Reading, Revocations
<1>1. ASSUME NEW t \in Thread, NEW a \in Account, SelectMissing(t, a) PROVE Revocations'
  BY <1>1 DEF SelectMissing
<1>2. ASSUME NEW t \in Thread, CreateChallenge(t) PROVE Revocations'
  BY <1>2 DEF CreateChallenge, MayChallenge, Answer
<1>3. ASSUME NEW t \in Thread, ChallengeIsRefused(t) PROVE Revocations'
  BY <1>3 DEF ChallengeIsRefused, Answer
<1>4. ASSUME NEW t \in Thread, NEW c \in pending, ClaimCallback(t, c) PROVE Revocations'
  BY <1>4 DEF ClaimCallback
<1>5. ASSUME NEW t \in Thread, RevalidateHosted(t) PROVE Revocations'
  BY <1>5 DEF RevalidateHosted
<1>6. ASSUME NEW t \in Thread, RevalidateLocal(t) PROVE Revocations'
  BY <1>6 DEF RevalidateLocal
<1>7. ASSUME NEW t \in Thread, NEW g \in Grant, ExchangeCode(t, g) PROVE Revocations'
  BY <1>7 DEF ExchangeCode, Exchanged, Issue
<1>8. ASSUME NEW t \in Thread, NEW g \in Grant, ClaimAtBroker(t, g) PROVE Revocations'
  BY <1>8 DEF ClaimAtBroker, Exchanged, Issue
<1>9. ASSUME NEW t \in Thread, CallbackFails(t) PROVE Revocations'
  BY <1>9 DEF CallbackFails, Answer
<1>10. ASSUME NEW t \in Thread, PutExchanged(t) PROVE Revocations'
  BY <1>10 DEF PutExchanged, Put, Answer
<1>11. ASSUME NEW t \in Thread, CallbackAuthorized(t) PROVE Revocations'
  BY <1>11 DEF CallbackAuthorized, Answer
<1>12. ASSUME NEW t \in Thread, CallbackUnauthorized(t) PROVE Revocations'
  BY <1>12 DEF CallbackUnauthorized
<1>13. ASSUME NEW t \in Thread, UninstallStarts(t) PROVE Revocations'
  BY <1>13 DEF UninstallStarts
<1>14. ASSUME NEW t \in Thread, RemoveContainer(t) PROVE Revocations'
  BY <1>14 DEF RemoveContainer
<1>15. ASSUME NEW t \in Thread, DeleteAccounts(t) PROVE Revocations'
  BY <1>15 DEF DeleteAccounts, Discard, Answer
<1>16. ASSUME NEW t \in Thread, ResetStarts(t) PROVE Revocations'
  BY <1>16 DEF ResetStarts
<1>17. ASSUME NEW t \in Thread, ResetDeletesAccounts(t) PROVE Revocations'
  BY <1>17 DEF ResetDeletesAccounts, Discard
<1>18. ASSUME NEW t \in Thread, ResetRemovesContainers(t) PROVE Revocations'
  BY <1>18 DEF ResetRemovesContainers, Answer
<1>19. ASSUME NEW t \in Thread, RemovalFails(t) PROVE Revocations'
  BY <1>19 DEF RemovalFails, Answer
<1>20. ASSUME NEW t \in Thread, NEW a \in Account, ResolveStarts(t, a) PROVE Revocations'
  BY <1>20 DEF ResolveStarts
<1>21. ASSUME NEW t \in Thread, NEW a \in Account, DisconnectLocal(t, a) PROVE Revocations'
  BY <1>21 DEF DisconnectLocal
<1>22. ASSUME NEW t \in Thread, NEW a \in Account, DisconnectHosted(t, a) PROVE Revocations'
  BY <1>22 DEF DisconnectHosted
<1>23. ASSUME NEW t \in Thread, EnterFlight(t) PROVE Revocations'
  BY <1>23 DEF EnterFlight, FreeFlight
<1>24. ASSUME NEW t \in Thread, AcquireFlight(t) PROVE Revocations'
  BY <1>24 DEF AcquireFlight
<1>25. ASSUME NEW t \in Thread, ResolveReads(t) PROVE Revocations'
  BY <1>25 DEF ResolveReads, EndFlight
<1>26. ASSUME NEW t \in Thread, NEW g \in Grant, RefreshAtProvider(t, g) PROVE Revocations'
  BY <1>26 DEF RefreshAtProvider, Refreshed, Issue
<1>27. ASSUME NEW t \in Thread, NEW g \in Grant, RefreshAtBroker(t, g) PROVE Revocations'
  BY <1>27 DEF RefreshAtBroker, Refreshed, Issue
<1>28. ASSUME NEW t \in Thread, StoreRefreshed(t) PROVE Revocations'
  BY <1>28 DEF StoreRefreshed, Put, EndFlight
<1>29. ASSUME NEW t \in Thread, RevokeReads(t) PROVE Revocations'
  BY <1>29 DEF RevokeReads
<1>30. ASSUME NEW t \in Thread, RevokeAtBroker(t) PROVE Revocations'
  BY <1>30 DEF RevokeAtBroker
<1>31. ASSUME NEW t \in Thread, RevokeRefreshToken(t) PROVE Revocations'
  BY <1>31 DEF RevokeRefreshToken
<1>32. ASSUME NEW t \in Thread, RevokeAccessToken(t) PROVE Revocations'
  BY <1>32 DEF RevokeAccessToken
<1>33. ASSUME NEW t \in Thread, DeleteRevoked(t) PROVE Revocations'
  BY <1>33 DEF DeleteRevoked, EndFlight
<1>34. ASSUME NEW t \in Thread, FlightFails(t) PROVE Revocations'
  BY <1>34 DEF FlightFails, EndFlight
<1>35. ASSUME NEW t \in Thread, LeaveFlight(t) PROVE Revocations'
  BY <1>35 DEF LeaveFlight, Answer
<1>36. ASSUME NEW d \in SUBSET Account, InstallAssistant(d) PROVE Revocations'
  BY <1>36 DEF InstallAssistant, Discard
<1>37. ASSUME NEW c \in pending, ChallengeExpires(c) PROVE Revocations'
  BY <1>37 DEF ChallengeExpires
<1>38. ASSUME StopCancelsChallenges PROVE Revocations'
  BY <1>38 DEF StopCancelsChallenges
<1>39. ASSUME NEW a \in Account, TokenAges(a) PROVE Revocations'
  BY <1>39 DEF TokenAges
<1>40. ASSUME Crash PROVE Revocations'
  BY <1>40 DEF Crash
<1> QED
  BY <1>1, <1>2, <1>3, <1>4, <1>5, <1>6, <1>7, <1>8, <1>9, <1>10, <1>11,
     <1>12, <1>13, <1>14, <1>15, <1>16, <1>17, <1>18, <1>19, <1>20, <1>21,
     <1>22, <1>23, <1>24, <1>25, <1>26, <1>27, <1>28, <1>29, <1>30, <1>31,
     <1>32, <1>33, <1>34, <1>35, <1>36, <1>37, <1>38, <1>39, <1>40
  DEF Next, ConsentStep, RemovalStep, FlightStep

-----------------------------------------------------------------------------
(* The invariant.                                                          *)

\* Without accounts, consents and flights the invariant holds.
LEMMA InitInv ==
  ASSUME Init
  PROVE  IInv
<1>1. TypeInv
  BY OAuthAssumption DEF Init, TypeInv, TypeOK, Locals, Label, TeamLocked, Reading, Grant
<1>2. Flights /\ Reads /\ Revocations
  BY DEF Init, Flights, Reads, Revocations, Inside, InFlight, Reading
<1>3. Consents
  BY DEF Init, Consents, Claims
<1> QED BY <1>1, <1>2, <1>3 DEF IInv

\* Every step of a thread, a callback, an expiry or a crash keeps it.
LEMMA NextInv ==
  ASSUME IInv, [Next]_vars
  PROVE  IInv'
<1>1. CASE Next
  BY <1>1, TypeStep, FlightsStep, ConsentsStep, ReadsStep, RevocationsStep DEF IInv
<1>2. CASE UNCHANGED vars
  <2> USE <1>2 DEF vars, store, challenges, flights, locals, history
  <2>1. TypeInv'
    BY DEF IInv, TypeInv, TypeOK, Locals
  <2>2. Flights' /\ Consents'
    BY DEF IInv, Flights, Consents, Claims
  <2>3. Reads' /\ Revocations'
    BY DEF IInv, Reads, Revocations
  <2> QED BY <2>1, <2>2, <2>3 DEF IInv
<1> QED BY <1>1, <1>2

\* The invariant of the accounts holds throughout.
LEMMA Invariance == Spec => []IInv
<1>1. Init => IInv
  BY InitInv
<1>2. IInv /\ [Next]_vars => IInv'
  BY NextInv
<1> QED BY <1>1, <1>2, PTL DEF Spec

\* The types of the accounts, the flights and the threads, for any number of
\* accounts, sessions and threads (oauth_account_store.py, oauth_pkce_challenges.py).
THEOREM TypeCorrect == Spec => []TypeOK
<1>1. IInv => TypeOK
  BY DEF IInv, TypeInv
<1> QED BY <1>1, Invariance, PTL

\* However threads enter and leave the flight of an account, and whatever fails
\* inside, one of them at a time refreshes or revokes it (_account_flight).
THEOREM OneFlightAtATime == Spec => []SingleFlight
<1>1. IInv => SingleFlight
  BY OneInFlight DEF IInv
<1> QED BY <1>1, Invariance, PTL

-----------------------------------------------------------------------------
(* The action properties.                                                  *)

\* What may happen to a thread that is about to store or to delete.
Outcome(t) ==
  \/ pc[t] = "store" /\ StoreRefreshed(t)
  \/ pc[t] = "delete" /\ DeleteRevoked(t)
  \/ pc'[t] = "leave" => UNCHANGED records

\* Whatever another thread does, it does not move this one.
LEMMA Outcomes ==
  ASSUME TypeInv, Next, NEW t \in Thread, pc[t] \in {"store", "delete"}
  PROVE  Outcome(t)
<1> USE OAuthAssumption DEF Outcome, Goto, TypeInv, TypeOK, InFlight, TeamLocked, store, locals
<1>1. ASSUME NEW u \in Thread, NEW a \in Account, SelectMissing(u, a) PROVE Outcome(t)
  BY <1>1 DEF SelectMissing
<1>2. ASSUME NEW u \in Thread, CreateChallenge(u) PROVE Outcome(t)
  BY <1>2 DEF CreateChallenge, MayChallenge, Answer
<1>3. ASSUME NEW u \in Thread, ChallengeIsRefused(u) PROVE Outcome(t)
  BY <1>3 DEF ChallengeIsRefused, Answer
<1>4. ASSUME NEW u \in Thread, NEW c \in pending, ClaimCallback(u, c) PROVE Outcome(t)
  BY <1>4 DEF ClaimCallback
<1>5. ASSUME NEW u \in Thread, RevalidateHosted(u) PROVE Outcome(t)
  BY <1>5 DEF RevalidateHosted
<1>6. ASSUME NEW u \in Thread, RevalidateLocal(u) PROVE Outcome(t)
  BY <1>6 DEF RevalidateLocal
<1>7. ASSUME NEW u \in Thread, NEW g \in Grant, ExchangeCode(u, g) PROVE Outcome(t)
  BY <1>7 DEF ExchangeCode, Exchanged, Issue
<1>8. ASSUME NEW u \in Thread, NEW g \in Grant, ClaimAtBroker(u, g) PROVE Outcome(t)
  BY <1>8 DEF ClaimAtBroker, Exchanged, Issue
<1>9. ASSUME NEW u \in Thread, CallbackFails(u) PROVE Outcome(t)
  BY <1>9 DEF CallbackFails, Answer
<1>10. ASSUME NEW u \in Thread, PutExchanged(u) PROVE Outcome(t)
  BY <1>10 DEF PutExchanged, Put, Answer
<1>11. ASSUME NEW u \in Thread, CallbackAuthorized(u) PROVE Outcome(t)
  BY <1>11 DEF CallbackAuthorized, Answer
<1>12. ASSUME NEW u \in Thread, CallbackUnauthorized(u) PROVE Outcome(t)
  BY <1>12 DEF CallbackUnauthorized
<1>13. ASSUME NEW u \in Thread, UninstallStarts(u) PROVE Outcome(t)
  BY <1>13 DEF UninstallStarts
<1>14. ASSUME NEW u \in Thread, RemoveContainer(u) PROVE Outcome(t)
  BY <1>14 DEF RemoveContainer
<1>15. ASSUME NEW u \in Thread, DeleteAccounts(u) PROVE Outcome(t)
  BY <1>15 DEF DeleteAccounts, Discard, Answer
<1>16. ASSUME NEW u \in Thread, ResetStarts(u) PROVE Outcome(t)
  BY <1>16 DEF ResetStarts
<1>17. ASSUME NEW u \in Thread, ResetDeletesAccounts(u) PROVE Outcome(t)
  BY <1>17 DEF ResetDeletesAccounts, Discard
<1>18. ASSUME NEW u \in Thread, ResetRemovesContainers(u) PROVE Outcome(t)
  BY <1>18 DEF ResetRemovesContainers, Answer
<1>19. ASSUME NEW u \in Thread, RemovalFails(u) PROVE Outcome(t)
  BY <1>19 DEF RemovalFails, Answer
<1>20. ASSUME NEW u \in Thread, NEW a \in Account, ResolveStarts(u, a) PROVE Outcome(t)
  BY <1>20 DEF ResolveStarts
<1>21. ASSUME NEW u \in Thread, NEW a \in Account, DisconnectLocal(u, a) PROVE Outcome(t)
  BY <1>21 DEF DisconnectLocal
<1>22. ASSUME NEW u \in Thread, NEW a \in Account, DisconnectHosted(u, a) PROVE Outcome(t)
  BY <1>22 DEF DisconnectHosted
<1>23. ASSUME NEW u \in Thread, EnterFlight(u) PROVE Outcome(t)
  BY <1>23 DEF EnterFlight, FreeFlight
<1>24. ASSUME NEW u \in Thread, AcquireFlight(u) PROVE Outcome(t)
  BY <1>24 DEF AcquireFlight
<1>25. ASSUME NEW u \in Thread, ResolveReads(u) PROVE Outcome(t)
  BY <1>25 DEF ResolveReads, EndFlight
<1>26. ASSUME NEW u \in Thread, NEW g \in Grant, RefreshAtProvider(u, g) PROVE Outcome(t)
  BY <1>26 DEF RefreshAtProvider, Refreshed, Issue
<1>27. ASSUME NEW u \in Thread, NEW g \in Grant, RefreshAtBroker(u, g) PROVE Outcome(t)
  BY <1>27 DEF RefreshAtBroker, Refreshed, Issue
<1>28. ASSUME NEW u \in Thread, StoreRefreshed(u) PROVE Outcome(t)
  BY <1>28 DEF StoreRefreshed, Put, EndFlight
<1>29. ASSUME NEW u \in Thread, RevokeReads(u) PROVE Outcome(t)
  BY <1>29 DEF RevokeReads
<1>30. ASSUME NEW u \in Thread, RevokeAtBroker(u) PROVE Outcome(t)
  BY <1>30 DEF RevokeAtBroker
<1>31. ASSUME NEW u \in Thread, RevokeRefreshToken(u) PROVE Outcome(t)
  BY <1>31 DEF RevokeRefreshToken
<1>32. ASSUME NEW u \in Thread, RevokeAccessToken(u) PROVE Outcome(t)
  BY <1>32 DEF RevokeAccessToken
<1>33. ASSUME NEW u \in Thread, DeleteRevoked(u) PROVE Outcome(t)
  BY <1>33 DEF DeleteRevoked, EndFlight
<1>34. ASSUME NEW u \in Thread, FlightFails(u) PROVE Outcome(t)
  BY <1>34 DEF FlightFails, EndFlight
<1>35. ASSUME NEW u \in Thread, LeaveFlight(u) PROVE Outcome(t)
  BY <1>35 DEF LeaveFlight, Answer
<1>36. ASSUME NEW d \in SUBSET Account, InstallAssistant(d) PROVE Outcome(t)
  BY <1>36 DEF InstallAssistant, Discard
<1>37. ASSUME NEW c \in pending, ChallengeExpires(c) PROVE Outcome(t)
  BY <1>37 DEF ChallengeExpires
<1>38. ASSUME StopCancelsChallenges PROVE Outcome(t)
  BY <1>38 DEF StopCancelsChallenges
<1>39. ASSUME NEW a \in Account, TokenAges(a) PROVE Outcome(t)
  BY <1>39 DEF TokenAges
<1>40. ASSUME Crash PROVE Outcome(t)
  BY <1>40 DEF Crash
<1> QED
  BY <1>1, <1>2, <1>3, <1>4, <1>5, <1>6, <1>7, <1>8, <1>9, <1>10, <1>11,
     <1>12, <1>13, <1>14, <1>15, <1>16, <1>17, <1>18, <1>19, <1>20, <1>21,
     <1>22, <1>23, <1>24, <1>25, <1>26, <1>27, <1>28, <1>29, <1>30, <1>31,
     <1>32, <1>33, <1>34, <1>35, <1>36, <1>37, <1>38, <1>39, <1>40
  DEF Next, ConsentStep, RemovalStep, FlightStep

\* A refresh that is late replaces the record it read, for any number of turns,
\* disconnects and callbacks beside it (resolve, oauth_account_store.py:605).
THEOREM LateRefreshes == Spec => RefreshReplacesWhatItRead
<1>1. ASSUME IInv, [Next]_vars, NEW t \in Thread, pc[t] = "store", records' # records, pc'[t] = "leave"
      PROVE  /\ records[acct[t]] # NoRecord
             /\ t \in overtaken \/ records[acct[t]].grant = read[t].grant
  <2>1. Next
    BY <1>1 DEF vars, store
  <2>2. StoreRefreshed(t)
    BY <1>1, <2>1, Outcomes DEF IInv, Outcome
  <2>3. records[acct[t]] # NoRecord /\ records[acct[t]].generation = read[t].generation
    BY <2>2 DEF StoreRefreshed
  <2>4. t \in overtaken \/ records[acct[t]].grant = read[t].grant
    BY <1>1, <2>3 DEF IInv, Reads, Reading
  <2> QED BY <2>3, <2>4
<1>2. IInv /\ [Next]_vars =>
        \A t \in Thread : pc[t] = "store" /\ records' # records /\ pc'[t] = "leave" =>
          /\ records[acct[t]] # NoRecord
          /\ t \in overtaken \/ records[acct[t]].grant = read[t].grant
  BY <1>1
<1> QED BY <1>2, Invariance, PTL DEF Spec, RefreshReplacesWhatItRead

\* No disconnect deletes a record whose tokens it did not revoke, however the
\* account changed while it did (revoke_then_delete, oauth_account_store.py:758).
THEOREM DisconnectsRevoke == Spec => RevokedBeforeDeleted
<1>1. ASSUME IInv, [Next]_vars, NEW t \in Thread, pc[t] = "delete", records' # records, pc'[t] = "leave",
             t \notin overtaken
      PROVE  /\ <<"refresh", records[acct[t]].grant>> \in revoked
             /\ hosted => <<"access", records[acct[t]].grant>> \in revoked
  <2>1. Next
    BY <1>1 DEF vars, store
  <2>2. DeleteRevoked(t)
    BY <1>1, <2>1, Outcomes DEF IInv, Outcome
  <2>3. records[acct[t]].generation = read[t].generation
    BY <2>2 DEF DeleteRevoked
  <2>4. records[acct[t]].grant = read[t].grant
    BY <1>1, <2>3 DEF IInv, Reads, Reading
  <2> QED BY <1>1, <2>4 DEF IInv, Revocations
<1>2. IInv /\ [Next]_vars =>
        \A t \in Thread : pc[t] = "delete" /\ records' # records /\ pc'[t] = "leave" =>
          \/ t \in overtaken
          \/ /\ <<"refresh", records[acct[t]].grant>> \in revoked
             /\ hosted => <<"access", records[acct[t]].grant>> \in revoked
  BY <1>1
<1> QED BY <1>2, Invariance, PTL DEF Spec, RevokedBeforeDeleted

\* The state of a consent is exchanged once, whoever delivers its callback again
\* (claim_callback, oauth_pkce_challenges.py:253).
THEOREM ConsentsAreUsedOnce == Spec => ExchangedOnce
<1>1. IInv /\ [Next]_vars =>
        \A t \in Thread : pc[t] = "exchange" /\ pc'[t] = "put" => claimed[t].state \notin exchanged
  BY DEF IInv, Consents, Claims
<1> QED BY <1>1, Invariance, PTL DEF Spec, ExchangedOnce
=============================================================================
