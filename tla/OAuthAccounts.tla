---------------------------- MODULE OAuthAccounts ----------------------------
(***************************************************************************)
(* The OAuth accounts of one Assistant of one Team: the consent that a     *)
(* browser starts and its callback completes (oauth_pkce_challenges.py,    *)
(* oauth_account_service.py), the encrypted records and the single flight  *)
(* per account (oauth_account_store.py), the tokens a chat turn resolves,  *)
(* and the disconnect, uninstall, update and reset that delete accounts.   *)
(*                                                                         *)
(* A grant is the token set of one consent or of one refresh.  The         *)
(* provider, reached directly when hosted and through the broker of        *)
(* shimpz.com otherwise, may refuse any call, and its answer may be lost   *)
(* or invalid.  Records survive a crash; challenges, flights and threads   *)
(* do not.                                                                 *)
(***************************************************************************)
EXTENDS Naturals, FiniteSets

CONSTANTS
  Account,       \* accounts the Assistant may declare
  Session,       \* browser sessions
  Thread,        \* threads of the HTTP server
  Flight,        \* flight objects
  NoAccount, NoRecord, NoFlight, NoThread, NoChallenge,
  Capacity, PerSession,      \* limits of the challenge store
  MaxStates, MaxGrants       \* bounds on consents started and grants issued

ASSUME OAuthAssumption ==
  /\ NoAccount \notin Account /\ NoFlight \notin Flight /\ NoThread \notin Thread
  /\ NoRecord \notin [grant : Nat, generation : Nat]
  /\ MaxStates \in Nat /\ MaxGrants \in Nat /\ Capacity \in Nat /\ PerSession \in Nat

VARIABLES
  \* which controller runs: hosted_controller, or else local_app
  hosted,
  \* the encrypted store, the records near or past their expiry, and the
  \* accounts the installed Assistant declares
  records, stale, declared,
  \* the challenge store; how many states and grants were given out
  pending, states, grants,
  \* flights: the entry of each account, who counts on one, who has its lock
  table, users, holder,
  \* the chat lock of the Team
  chat,
  \* threads: where each is, its account, the challenge it claimed, the flight
  \* it entered, the record it read and the grant it received
  pc, acct, claimed, flight, read, received,
  \* history: tokens revoked upstream, states whose code was exchanged, and
  \* threads whose record an uninstall deleted since they read it
  revoked, exchanged, overtaken

store == <<records, stale, declared>>
challenges == <<pending, states>>
flights == <<table, users, holder>>
locals == <<acct, claimed, flight, read, received>>
history == <<revoked, exchanged, overtaken>>
vars == <<hosted, store, challenges, grants, flights, chat, pc, locals, history>>

-----------------------------------------------------------------------------
State == 1..MaxStates
Grant == 1..MaxGrants
Record == [grant : Grant, generation : Nat \ {0}]
Challenge == [state : State, session : Session, account : Account]
Token == {"refresh", "access"} \X Grant

\* The steps of an uninstall or a reset, inside the lock of the Team.
TeamLocked == {"undeclare", "prune", "resetPrune", "resetUndeclare"}

\* The steps inside a flight, whose lock the thread then has.
InFlight == {"resolveReads", "refresh", "store", "revokeReads", "revoke", "revokeAccess", "delete"}

Goto(t, label) == pc' = [pc EXCEPT ![t] = label]

\* The handler answers and forgets its locals; a chat lock it has is released.
Answer(t) ==
  /\ Goto(t, "idle")
  /\ chat' = IF chat = t THEN NoThread ELSE chat
  /\ acct' = [acct EXCEPT ![t] = NoAccount]
  /\ claimed' = [claimed EXCEPT ![t] = NoChallenge]
  /\ flight' = [flight EXCEPT ![t] = NoFlight]
  /\ read' = [read EXCEPT ![t] = NoRecord]
  /\ received' = [received EXCEPT ![t] = 0]

\* Out of the flight, after an answer and after an error alike.
EndFlight(t) ==
  /\ holder' = [holder EXCEPT ![flight[t]] = NoThread]
  /\ Goto(t, "leave")
  /\ read' = [read EXCEPT ![t] = NoRecord]
  /\ received' = [received EXCEPT ![t] = 0]
  /\ overtaken' = overtaken \ {t}
  /\ UNCHANGED <<table, users, acct, claimed, flight>>

\* Mutant of Put: the generation of a new record is that of a missing one.
PutFromZero(a, g) ==
  /\ records' = [records EXCEPT ![a] =
       [grant |-> g, generation |-> IF records[a] = NoRecord THEN 0 ELSE records[a].generation + 1]]
  /\ stale' = stale \ {a}
  /\ UNCHANGED declared

\* put: the account gets its next generation, in one write of the whole store.
Put(a, g) ==
  /\ records' = [records EXCEPT ![a] =
       [grant |-> g, generation |-> IF records[a] = NoRecord THEN 1 ELSE records[a].generation + 1]]
  /\ stale' = stale \ {a}
  /\ UNCHANGED declared

\* Uninstall, update and reset delete records in one write, without a flight.
Discard(gone) ==
  /\ records' = [a \in Account |-> IF a \in gone THEN NoRecord ELSE records[a]]
  /\ stale' = stale \ gone
  /\ overtaken' = overtaken \cup {t \in Thread : read[t] # NoRecord /\ acct[t] \in gone}
  /\ UNCHANGED <<revoked, exchanged>>

\* The provider issues a fresh token set.
Issue(g) == g = grants + 1 /\ g \in Grant /\ grants' = g

Init ==
  /\ hosted \in BOOLEAN
  /\ records = [a \in Account |-> NoRecord] /\ stale = {} /\ declared = Account
  /\ pending = {} /\ states = 0 /\ grants = 0
  /\ table = [a \in Account |-> NoFlight]
  /\ users = [f \in Flight |-> {}] /\ holder = [f \in Flight |-> NoThread]
  /\ chat = NoThread
  /\ pc = [t \in Thread |-> "idle"]
  /\ acct = [t \in Thread |-> NoAccount] /\ claimed = [t \in Thread |-> NoChallenge]
  /\ flight = [t \in Thread |-> NoFlight]
  /\ read = [t \in Thread |-> NoRecord] /\ received = [t \in Thread |-> 0]
  /\ revoked = {} /\ exchanged = {} /\ overtaken = {}

-----------------------------------------------------------------------------
\* A consent starts for an account whose metadata calls for one.
SelectMissing(t, a) ==
  /\ pc[t] = "idle"
  /\ a \in declared
  /\ records[a] = NoRecord \/ a \in stale
  /\ Goto(t, "challenge")
  /\ acct' = [acct EXCEPT ![t] = a]
  /\ UNCHANGED <<hosted, store, challenges, grants, flights, chat, claimed, flight, read, received, history>>

\* create: one challenge per session and account, within the limits.
MayChallenge(s, a) ==
  /\ \A c \in pending : ~(c.session = s /\ c.account = a)
  /\ Cardinality(pending) < Capacity
  /\ Cardinality({c \in pending : c.session = s}) < PerSession

CreateChallenge(t) ==
  /\ pc[t] = "challenge"
  /\ \E s \in Session :
       /\ MayChallenge(s, acct[t]) /\ states < MaxStates
       /\ states' = states + 1
       /\ pending' = pending \cup {[state |-> states + 1, session |-> s, account |-> acct[t]]}
  /\ Answer(t)
  /\ UNCHANGED <<hosted, store, grants, flights, history>>

ChallengeIsRefused(t) ==
  /\ pc[t] = "challenge"
  /\ Answer(t)
  /\ UNCHANGED <<hosted, store, challenges, grants, flights, history>>

\* Mutant of ClaimCallback: the challenge stays claimable until it expires.
ClaimKeepsChallenge(t, c) ==
  /\ pc[t] = "idle"
  /\ c \in pending
  /\ claimed' = [claimed EXCEPT ![t] = c]
  /\ acct' = [acct EXCEPT ![t] = c.account]
  /\ Goto(t, "declare")
  /\ UNCHANGED <<hosted, store, challenges, grants, flights, chat, flight, read, received, history>>

\* claim_callback: the state and the cookie of the session claim the challenge,
\* which names the account.  Any other callback finds nothing and changes nothing.
ClaimCallback(t, c) ==
  /\ pc[t] = "idle"
  /\ c \in pending
  /\ pending' = pending \ {c}
  /\ claimed' = [claimed EXCEPT ![t] = c]
  /\ acct' = [acct EXCEPT ![t] = c.account]
  /\ Goto(t, "declare")
  /\ UNCHANGED <<hosted, store, states, grants, flights, chat, flight, read, received, history>>

\* The installed Assistant must still declare the account; when local the
\* resolver waits for the lock of the Team.
RevalidateHosted(t) ==
  /\ pc[t] = "declare" /\ hosted
  /\ acct[t] \in declared
  /\ Goto(t, "exchange")
  /\ UNCHANGED <<hosted, store, challenges, grants, flights, chat, locals, history>>

RevalidateLocal(t) ==
  /\ pc[t] = "declare" /\ ~hosted
  /\ \A u \in Thread : pc[u] \notin TeamLocked
  /\ acct[t] \in declared
  /\ Goto(t, "exchange")
  /\ UNCHANGED <<hosted, store, challenges, grants, flights, chat, locals, history>>

\* The code of the callback, or the claim at the broker, buys a token set.
Exchanged(t, g) ==
  /\ pc[t] = "exchange"
  /\ Issue(g)
  /\ received' = [received EXCEPT ![t] = g]
  /\ exchanged' = exchanged \cup {claimed[t].state}
  /\ Goto(t, "put")
  /\ UNCHANGED <<hosted, store, challenges, flights, chat, acct, claimed, flight, read, revoked, overtaken>>

ExchangeCode(t, g) == hosted /\ Exchanged(t, g)
ClaimAtBroker(t, g) == ~hosted /\ Exchanged(t, g)

\* The declaration went, the provider refuses, its answer is lost or invalid,
\* or the store cannot be written: the callback fails and its state is spent.
CallbackFails(t) ==
  /\ pc[t] \in {"declare", "exchange", "put"}
  /\ Answer(t)
  /\ exchanged' = IF pc[t] = "exchange" THEN exchanged \cup {claimed[t].state} ELSE exchanged
  /\ UNCHANGED <<hosted, store, challenges, grants, flights, revoked, overtaken>>

\* The callback connects the account, whatever flight is on; a hosted callback
\* has its Team still to authorize.
PutExchanged(t) ==
  /\ pc[t] = "put"
  /\ Put(acct[t], received[t])
  /\ IF hosted THEN Goto(t, "authorize") /\ UNCHANGED <<chat, locals>> ELSE Answer(t)
  /\ UNCHANGED <<hosted, challenges, grants, flights, history>>

CallbackAuthorized(t) ==
  /\ pc[t] = "authorize"
  /\ Answer(t)
  /\ UNCHANGED <<hosted, store, challenges, grants, flights, history>>

\* The Team is not the caller's, or cannot be read: the account is disconnected.
CallbackUnauthorized(t) ==
  /\ pc[t] = "authorize"
  /\ Goto(t, "revokeEnters")
  /\ UNCHANGED <<hosted, store, challenges, grants, flights, chat, locals, history>>

-----------------------------------------------------------------------------
\* A turn, which has the chat lock, resolves the token of an account.
ResolveStarts(t, a) ==
  /\ pc[t] = "idle" /\ chat = NoThread
  /\ a \in declared
  /\ chat' = t
  /\ acct' = [acct EXCEPT ![t] = a]
  /\ Goto(t, "resolveEnters")
  /\ UNCHANGED <<hosted, store, challenges, grants, flights, claimed, flight, read, received, history>>

\* A disconnect, when hosted in the chat lock and for a declared account only.
DisconnectLocal(t, a) ==
  /\ pc[t] = "idle" /\ ~hosted
  /\ acct' = [acct EXCEPT ![t] = a]
  /\ Goto(t, "revokeEnters")
  /\ UNCHANGED <<hosted, store, challenges, grants, flights, chat, claimed, flight, read, received, history>>

DisconnectHosted(t, a) ==
  /\ pc[t] = "idle" /\ hosted /\ chat = NoThread
  /\ a \in declared
  /\ chat' = t
  /\ acct' = [acct EXCEPT ![t] = a]
  /\ Goto(t, "revokeEnters")
  /\ UNCHANGED <<hosted, store, challenges, grants, flights, claimed, flight, read, received, history>>

\* Flight objects that are nobody's; they are all alike.
FreeFlight == {f \in Flight : users[f] = {} /\ \A a \in Account : table[a] # f}

\* _account_flight: the entry of the account, or a new one, counts one more user.
EnterFlight(t) ==
  /\ pc[t] \in {"resolveEnters", "revokeEnters"}
  /\ \E f \in Flight :
       /\ IF table[acct[t]] = NoFlight
            THEN f \in FreeFlight /\ f = CHOOSE free \in FreeFlight : TRUE
            ELSE f = table[acct[t]]
       /\ table' = [table EXCEPT ![acct[t]] = f]
       /\ users' = [users EXCEPT ![f] = @ \cup {t}]
       /\ flight' = [flight EXCEPT ![t] = f]
  /\ Goto(t, IF pc[t] = "resolveEnters" THEN "resolveWaits" ELSE "revokeWaits")
  /\ UNCHANGED <<hosted, store, challenges, grants, holder, chat, acct, claimed, read, received, history>>

AcquireFlight(t) ==
  /\ pc[t] \in {"resolveWaits", "revokeWaits"}
  /\ holder[flight[t]] = NoThread
  /\ holder' = [holder EXCEPT ![flight[t]] = t]
  /\ Goto(t, IF pc[t] = "resolveWaits" THEN "resolveReads" ELSE "revokeReads")
  /\ UNCHANGED <<hosted, store, challenges, grants, table, users, chat, locals, history>>

\* Mutant of LeaveFlight: the first to leave drops the entry.
FirstLeaverDropsFlight(t) ==
  /\ pc[t] = "leave"
  /\ users' = [users EXCEPT ![flight[t]] = @ \ {t}]
  /\ table' = [table EXCEPT ![acct[t]] = NoFlight]
  /\ Answer(t)
  /\ UNCHANGED <<hosted, store, challenges, grants, holder, history>>

\* The last user drops the entry, if it is still that of the account.
LeaveFlight(t) ==
  /\ pc[t] = "leave"
  /\ users' = [users EXCEPT ![flight[t]] = @ \ {t}]
  /\ table' = IF users[flight[t]] = {t} /\ table[acct[t]] = flight[t]
                THEN [table EXCEPT ![acct[t]] = NoFlight] ELSE table
  /\ Answer(t)
  /\ UNCHANGED <<hosted, store, challenges, grants, holder, history>>

\* resolve: a fresh token is the answer, a stale one is refreshed.
ResolveReads(t) ==
  /\ pc[t] = "resolveReads"
  /\ records[acct[t]] # NoRecord
  /\ IF acct[t] \in stale
       THEN /\ read' = [read EXCEPT ![t] = records[acct[t]]]
            /\ Goto(t, "refresh")
            /\ UNCHANGED <<flights, acct, claimed, flight, received, overtaken>>
       ELSE EndFlight(t)
  /\ UNCHANGED <<hosted, store, challenges, grants, chat, revoked, exchanged>>

\* The provider takes the refresh token, unless it was revoked.
Refreshed(t, g) ==
  /\ pc[t] = "refresh"
  /\ <<"refresh", read[t].grant>> \notin revoked
  /\ Issue(g)
  /\ received' = [received EXCEPT ![t] = g]
  /\ Goto(t, "store")
  /\ UNCHANGED <<hosted, store, challenges, flights, chat, acct, claimed, flight, read, history>>

RefreshAtProvider(t, g) == hosted /\ Refreshed(t, g)
RefreshAtBroker(t, g) == ~hosted /\ Refreshed(t, g)

\* Mutant of StoreRefreshed: what it finds is not compared with what it read.
StoreWithoutComparing(t) ==
  /\ pc[t] = "store"
  /\ records[acct[t]] # NoRecord
  /\ Put(acct[t], received[t])
  /\ EndFlight(t)
  /\ UNCHANGED <<hosted, challenges, grants, chat, revoked, exchanged>>

\* The refreshed set is stored only over the generation it was read from.
StoreRefreshed(t) ==
  /\ pc[t] = "store"
  /\ records[acct[t]] # NoRecord
  /\ records[acct[t]].generation = read[t].generation
  /\ Put(acct[t], received[t])
  /\ EndFlight(t)
  /\ UNCHANGED <<hosted, challenges, grants, chat, revoked, exchanged>>

\* Mutant of FlightFails: the error path leaves the lock of the flight taken.
FlightFailsHeld(t) ==
  /\ pc[t] \in InFlight
  /\ Goto(t, "leave")
  /\ overtaken' = overtaken \ {t}
  /\ UNCHANGED <<hosted, store, challenges, grants, flights, chat, locals, revoked, exchanged>>

\* No record, a generation that changed, a provider that refuses, an answer
\* that is lost or invalid, a store that cannot be read or written.
FlightFails(t) ==
  /\ pc[t] \in InFlight
  /\ EndFlight(t)
  /\ UNCHANGED <<hosted, store, challenges, grants, chat, revoked, exchanged>>

-----------------------------------------------------------------------------
\* revoke_then_delete: read, revoke upstream, delete.
RevokeReads(t) ==
  /\ pc[t] = "revokeReads"
  /\ records[acct[t]] # NoRecord
  /\ read' = [read EXCEPT ![t] = records[acct[t]]]
  /\ Goto(t, "revoke")
  /\ UNCHANGED <<hosted, store, challenges, grants, flights, chat, acct, claimed, flight, received, history>>

\* The broker is given the refresh token only, ...
RevokeAtBroker(t) ==
  /\ pc[t] = "revoke" /\ ~hosted
  /\ revoked' = revoked \cup {<<"refresh", read[t].grant>>}
  /\ Goto(t, "delete")
  /\ UNCHANGED <<hosted, store, challenges, grants, flights, chat, locals, exchanged, overtaken>>

\* ... the provider the refresh token first and the access token then.
RevokeRefreshToken(t) ==
  /\ pc[t] = "revoke" /\ hosted
  /\ revoked' = revoked \cup {<<"refresh", read[t].grant>>}
  /\ Goto(t, "revokeAccess")
  /\ UNCHANGED <<hosted, store, challenges, grants, flights, chat, locals, exchanged, overtaken>>

RevokeAccessToken(t) ==
  /\ pc[t] = "revokeAccess"
  /\ revoked' = revoked \cup {<<"access", read[t].grant>>}
  /\ Goto(t, "delete")
  /\ UNCHANGED <<hosted, store, challenges, grants, flights, chat, locals, exchanged, overtaken>>

\* Mutant of DeleteRevoked: whatever the account holds by now is deleted.
DeleteWithoutComparing(t) ==
  /\ pc[t] = "delete"
  /\ records[acct[t]] # NoRecord
  /\ records' = [records EXCEPT ![acct[t]] = NoRecord]
  /\ stale' = stale \ {acct[t]}
  /\ EndFlight(t)
  /\ UNCHANGED <<hosted, declared, challenges, grants, chat, revoked, exchanged>>

\* The record is deleted if it still has the generation that was revoked.
DeleteRevoked(t) ==
  /\ pc[t] = "delete"
  /\ records[acct[t]] # NoRecord
  /\ records[acct[t]].generation = read[t].generation
  /\ records' = [records EXCEPT ![acct[t]] = NoRecord]
  /\ stale' = stale \ {acct[t]}
  /\ EndFlight(t)
  /\ UNCHANGED <<hosted, declared, challenges, grants, chat, revoked, exchanged>>

-----------------------------------------------------------------------------
\* Uninstalling the Assistant, or destroying the Team, takes the chat lock and
\* the lock of the Team; the container goes first and the records follow.
UninstallStarts(t) ==
  /\ pc[t] = "idle" /\ chat = NoThread
  /\ \A u \in Thread : pc[u] \notin TeamLocked
  /\ chat' = t
  /\ Goto(t, "undeclare")
  /\ UNCHANGED <<hosted, store, challenges, grants, flights, locals, history>>

RemoveContainer(t) ==
  /\ pc[t] = "undeclare"
  /\ declared' = {}
  /\ Goto(t, "prune")
  /\ UNCHANGED <<hosted, records, stale, challenges, grants, flights, chat, locals, history>>

DeleteAccounts(t) ==
  /\ pc[t] = "prune"
  /\ Discard(Account)
  /\ Answer(t)
  /\ UNCHANGED <<hosted, declared, challenges, grants, flights>>

\* reset_space has the locks of the Teams but no chat lock, and deletes the
\* accounts of the whole Space before the containers.
ResetStarts(t) ==
  /\ pc[t] = "idle" /\ ~hosted
  /\ \A u \in Thread : pc[u] \notin TeamLocked
  /\ Goto(t, "resetPrune")
  /\ UNCHANGED <<hosted, store, challenges, grants, flights, chat, locals, history>>

ResetDeletesAccounts(t) ==
  /\ pc[t] = "resetPrune"
  /\ Discard(Account)
  /\ Goto(t, "resetUndeclare")
  /\ UNCHANGED <<hosted, declared, challenges, grants, flights, chat, locals>>

ResetRemovesContainers(t) ==
  /\ pc[t] = "resetUndeclare"
  /\ declared' = {}
  /\ Answer(t)
  /\ UNCHANGED <<hosted, records, stale, challenges, grants, flights, history>>

\* Docker or the store refuses, and what was done stays done.
RemovalFails(t) ==
  /\ pc[t] \in TeamLocked
  /\ Answer(t)
  /\ UNCHANGED <<hosted, store, challenges, grants, flights, history>>

\* Installing or updating the Assistant, under both locks: accounts that the
\* contract declares no more are pruned, except by a fresh local install.
InstallAssistant(d) ==
  /\ chat = NoThread
  /\ \A u \in Thread : pc[u] \notin TeamLocked
  /\ declared' = d
  /\ IF hosted \/ declared # {}
       THEN Discard(Account \ d)
       ELSE UNCHANGED <<records, stale, history>>
  /\ UNCHANGED <<hosted, challenges, grants, flights, chat, pc, locals>>

-----------------------------------------------------------------------------
\* A challenge expires after its time to live.
ChallengeExpires(c) ==
  /\ c \in pending
  /\ pending' = pending \ {c}
  /\ UNCHANGED <<hosted, store, states, grants, flights, chat, pc, locals, history>>

\* A local Stop cancels every challenge of the Team.
StopCancelsChallenges ==
  /\ ~hosted /\ pending # {}
  /\ pending' = {}
  /\ UNCHANGED <<hosted, store, states, grants, flights, chat, pc, locals, history>>

\* The token of a record comes within REFRESH_WINDOW_SECONDS of its expiry.
TokenAges(a) ==
  /\ records[a] # NoRecord /\ a \notin stale
  /\ stale' = stale \cup {a}
  /\ UNCHANGED <<hosted, records, declared, challenges, grants, flights, chat, pc, locals, history>>

\* The controller dies and is started again on the store it wrote.
Crash ==
  /\ pending' = {}
  /\ table' = [a \in Account |-> NoFlight]
  /\ users' = [f \in Flight |-> {}] /\ holder' = [f \in Flight |-> NoThread]
  /\ chat' = NoThread
  /\ pc' = [t \in Thread |-> "idle"]
  /\ acct' = [t \in Thread |-> NoAccount] /\ claimed' = [t \in Thread |-> NoChallenge]
  /\ flight' = [t \in Thread |-> NoFlight]
  /\ read' = [t \in Thread |-> NoRecord] /\ received' = [t \in Thread |-> 0]
  /\ overtaken' = {}
  /\ UNCHANGED <<hosted, store, states, grants, revoked, exchanged>>

-----------------------------------------------------------------------------
\* The steps of a thread that is in a flight, or leaves one.
FlightStep(t) ==
  \/ ResolveReads(t) \/ \E g \in Grant : RefreshAtProvider(t, g) \/ RefreshAtBroker(t, g)
  \/ StoreRefreshed(t)
  \/ RevokeReads(t) \/ RevokeAtBroker(t) \/ RevokeRefreshToken(t) \/ RevokeAccessToken(t)
  \/ DeleteRevoked(t)
  \/ FlightFails(t) \/ LeaveFlight(t)

ConsentStep(t) ==
  \/ \E a \in Account : SelectMissing(t, a)
  \/ CreateChallenge(t) \/ ChallengeIsRefused(t)
  \/ \E c \in pending : ClaimCallback(t, c)
  \/ RevalidateHosted(t) \/ RevalidateLocal(t)
  \/ \E g \in Grant : ExchangeCode(t, g) \/ ClaimAtBroker(t, g)
  \/ CallbackFails(t) \/ PutExchanged(t)
  \/ CallbackAuthorized(t) \/ CallbackUnauthorized(t)

RemovalStep(t) ==
  \/ UninstallStarts(t) \/ RemoveContainer(t) \/ DeleteAccounts(t)
  \/ ResetStarts(t) \/ ResetDeletesAccounts(t) \/ ResetRemovesContainers(t)
  \/ RemovalFails(t)

Next ==
  \/ \E t \in Thread :
       \/ ConsentStep(t) \/ RemovalStep(t)
       \/ \E a \in Account : ResolveStarts(t, a) \/ DisconnectLocal(t, a) \/ DisconnectHosted(t, a)
       \/ EnterFlight(t) \/ AcquireFlight(t) \/ FlightStep(t)
  \/ \E d \in SUBSET Account : InstallAssistant(d)
  \/ \E c \in pending : ChallengeExpires(c)
  \/ StopCancelsChallenges
  \/ \E a \in Account : TokenAges(a)
  \/ Crash

Spec == Init /\ [][Next]_vars

\* Inside a flight a thread waits for nobody but the provider, and every request
\* to the provider has a timeout.
FairSpec == Spec /\ \A t \in Thread : WF_vars(FlightStep(t))

-----------------------------------------------------------------------------
Label == TeamLocked \cup InFlight \cup
  {"idle", "challenge", "declare", "exchange", "put", "authorize",
   "resolveEnters", "resolveWaits", "revokeEnters", "revokeWaits", "leave"}

\* The type invariant of the store, the flights, the threads and the history.
TypeOK ==
  /\ hosted \in BOOLEAN
  /\ records \in [Account -> Record \cup {NoRecord}]
  /\ stale \in SUBSET Account /\ declared \in SUBSET Account
  /\ pending \in SUBSET Challenge /\ states \in Nat /\ grants \in Nat
  /\ table \in [Account -> Flight \cup {NoFlight}]
  /\ users \in [Flight -> SUBSET Thread] /\ holder \in [Flight -> Thread \cup {NoThread}]
  /\ chat \in Thread \cup {NoThread}
  /\ pc \in [Thread -> Label]
  /\ acct \in [Thread -> Account \cup {NoAccount}]
  /\ claimed \in [Thread -> Challenge \cup {NoChallenge}]
  /\ flight \in [Thread -> Flight \cup {NoFlight}]
  /\ read \in [Thread -> Record \cup {NoRecord}]
  /\ received \in [Thread -> Grant \cup {0}]
  /\ revoked \in SUBSET Token /\ exchanged \in SUBSET State /\ overtaken \in SUBSET Thread

\* A flight is single although its object comes and goes with its users
\* (oauth_account_store.py: "refreshing once under a single-flight lock"): no two
\* threads refresh or revoke one account at a time.
SingleFlight ==
  \A t, u \in Thread :
    pc[t] \in InFlight /\ pc[u] \in InFlight /\ acct[t] = acct[u] => t = u

\* A refresh that ends late neither revives an account that was disconnected
\* nor replaces the consent of a callback: it replaces the record it read.  Only
\* when an uninstall or a reset deleted that record meanwhile may it meet
\* another of the same generation.
RefreshReplacesWhatItRead ==
  [][\A t \in Thread : pc[t] = "store" /\ records' # records /\ pc'[t] = "leave" =>
       /\ records[acct[t]] # NoRecord
       /\ t \in overtaken \/ records[acct[t]].grant = read[t].grant]_vars

\* A disconnect deletes a record only after its own tokens were revoked upstream
\* (oauth_account_store.py: "only after its authenticated tokens are revoked
\* upstream"), with the same exception.
RevokedBeforeDeleted ==
  [][\A t \in Thread : pc[t] = "delete" /\ records' # records /\ pc'[t] = "leave" =>
       \/ t \in overtaken
       \/ /\ <<"refresh", records[acct[t]].grant>> \in revoked
          /\ hosted => <<"access", records[acct[t]].grant>> \in revoked]_vars

\* A consent buys one token set at most: a callback that is delivered twice, or
\* after its challenge was replaced, exchanges nothing.
ExchangedOnce ==
  [][\A t \in Thread : pc[t] = "exchange" /\ pc'[t] = "put" => claimed[t].state \notin exchanged]_vars

\* No failure keeps the lock of a flight: a thread that has it lets go.
FlightsDrain == \A t \in Thread : (pc[t] \in InFlight) ~> (\A f \in Flight : holder[f] # t)
=============================================================================
