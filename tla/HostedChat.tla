------------------------------ MODULE HostedChat ------------------------------
(***************************************************************************)
(* The requests that work on the chat of one hosted Team: messages, the    *)
(* answers to the four kinds of challenge, Stop, the replacement of        *)
(* secrets, and the removal and installation of the Assistant              *)
(* (hosted_chat_api.py, hosted_chat_segment.py, hosted_assistants.py).     *)
(*                                                                         *)
(* Every request is a thread of the controller.  A chat or an answer holds *)
(* the Team's chat lock for its whole segment of the turn ("slot"); Stop   *)
(* does not take it, and the stores of challenges have locks of their own. *)
(* The Powers of a segment and their journal are the subject of PowerTurn; *)
(* here a segment runs one Power at a time and pauses or ends.             *)
(***************************************************************************)
EXTENDS Naturals, Sequences, FiniteSets

CONSTANTS
  Request,             \* threads that send messages and answers
  NoRequest, NoChallenge, NoPower, NoSecret,
  Image,               \* releases of the Assistant
  ThisTeam, OtherTeam, \* the others share the capacity of the stores
  Capacity,
  Shared,              \* bound: the stores that the other Teams use
  MaxTurns, MaxChallenges,  \* bounds
  MaxAnswers,          \* bound on MAX_ORDINAL + 1, the call sites of a Power
  MaxChanges,          \* bound on installations, and on replacements of the secret
                       \* and of the model credential, together
  MaxStops             \* bound on requests to stop

ASSUME ChatAssumption ==
  /\ NoRequest \notin Request /\ ThisTeam # OtherTeam /\ NoSecret \notin Nat
  /\ Capacity \in Nat \ {0}
  /\ {MaxTurns, MaxChallenges, MaxAnswers, MaxChanges, MaxStops} \subseteq Nat

Store == INSTANCE ChallengeStore WITH Capacity <- Capacity

Kind == {"account", "secret", "input", "approval"}

VARIABLES
  \* the four stores of challenges, and how many ids were used
  pending, issued,
  \* the requests, and the one that has the chat lock
  req, slot,
  \* _active_chat_guard: the active token, the cancelled ones, the Power that
  \* is registered, and the containers whose Power could not be proved dead
  active, cancelled, power, blocked,
  \* the installed Assistant, its account and its secret; the human approvals
  \* of a Power "once"; the generation of the model credential
  assistant, connected, secret, grants, generation,
  \* the request to stop, and how many there were
  stop, stops,
  \* history: turns begun, replied, and stopped with an answer that says so;
  \* installations so far, and replacements of the secret
  turns, replied, stopped, installed, rotation

guard == <<active, cancelled, power, blocked>>
data == <<assistant, connected, secret, grants, generation>>
stopVars == <<stop, stops>>
history == <<turns, replied, stopped, installed, rotation>>
vars == <<pending, issued, req, slot, guard, data, stopVars, history>>

-----------------------------------------------------------------------------
\* What a continuation is bound to: container and credential generation.
Identity == <<assistant.container, generation>>

\* _installed_assistant: there, running, and not blocked.
Usable == assistant.container # 0 /\ assistant.up /\ assistant.container \notin blocked

\* requirements_for_batch of the accounts and of the secrets: what a Power needs.
AccountMissing == ~connected
SecretMissing == secret = NoSecret

Changes == (installed - 1) + rotation + (generation - 1)

NoAnswer == [kind |-> "none", once |-> FALSE]
Idle == [kind |-> "none", pc |-> "idle", turn |-> 0, challenge |-> NoChallenge,
         identity |-> << >>, image |-> "none", answers |-> 0, asks |-> NoAnswer]
NoStop == [pc |-> "idle", todo |-> << >>, covers |-> {}, token |-> NoRequest, container |-> 0]

\* The order in which Stop empties the stores.
StopOrder == <<"secret", "account", "input", "approval">>

Mine(k) == Store!Of(pending[k], ThisTeam)
NonePending == \A k \in Kind : Mine(k) = {}

\* cancel_team on some of the stores.
WithoutMine(kinds) == [k \in Kind |-> IF k \in kinds THEN Store!Cancelled(pending[k], ThisTeam) ELSE pending[k]]

To(r, label) == req' = [req EXCEPT ![r].pc = label]
Forget(r) == req' = [req EXCEPT ![r] = Idle]

Init ==
  /\ pending = [k \in Kind |-> {}] /\ issued = 0
  /\ req = [r \in Request |-> Idle] /\ slot = NoRequest
  /\ active = NoRequest /\ cancelled = {} /\ power = NoPower /\ blocked = {}
  /\ assistant \in [container : {1}, image : Image, up : {TRUE}]
  /\ connected \in BOOLEAN /\ secret = NoSecret /\ grants = {} /\ generation = 1
  /\ stop = NoStop /\ stops = 0
  /\ turns = 0 /\ replied = {} /\ stopped = {} /\ installed = 1 /\ rotation = 0

-----------------------------------------------------------------------------
(* The begin of a request.                                                 *)

\* _chat: nothing was pending.  (A pending challenge is returned at once.)
ChatArrives(r) ==
  /\ req[r].pc = "idle" /\ turns < MaxTurns
  /\ NonePending
  /\ turns' = turns + 1
  /\ req' = [req EXCEPT ![r] = [Idle EXCEPT !.kind = "chat", !.pc = "enter", !.turn = turns']]
  /\ UNCHANGED <<pending, issued, slot, guard, data, stopVars, replied, stopped, installed, rotation>>

\* The answer to a challenge.  _submit_* reads the challenge outside the chat
\* lock; _resume_chat_accounts only has the id of it.
AnswerArrives(r, k) ==
  /\ req[r].pc = "idle"
  /\ \E c \in Mine(k) :
       req' = [req EXCEPT ![r] = [Idle EXCEPT !.kind = k, !.pc = "enter", !.challenge = c, !.turn = c.turn,
                                              !.identity = c.identity, !.image = c.image, !.answers = c.answers]]
  /\ UNCHANGED <<pending, issued, slot, guard, data, stopVars, history>>

\* _exclusive_chat_turn: the lock is tried, not awaited.
EnterSlot(r) ==
  /\ req[r].pc = "enter" /\ slot = NoRequest
  /\ slot' = r
  /\ To(r, "begin")
  /\ UNCHANGED <<pending, issued, guard, data, stopVars, history>>

SlotIsTaken(r) ==
  /\ req[r].pc = "enter" /\ slot # NoRequest
  /\ Forget(r)
  /\ UNCHANGED <<pending, issued, slot, guard, data, stopVars, history>>

\* The Team is authorized and runs.
TakeToken(r) ==
  /\ req[r].pc = "begin"
  /\ active' = r
  /\ To(r, "check")
  /\ UNCHANGED <<pending, issued, slot, cancelled, power, blocked, data, stopVars, history>>

\* It is not, or cannot be inspected.
TeamIsRefused(r) ==
  /\ req[r].pc = "begin"
  /\ slot' = NoRequest
  /\ Forget(r)
  /\ UNCHANGED <<pending, issued, guard, data, stopVars, history>>

\* The end of _exclusive_chat_turn.
Release(r) ==
  /\ req[r].pc = "end"
  /\ active' = NoRequest /\ cancelled' = cancelled \ {r} /\ power' = NoPower
  /\ slot' = NoRequest
  /\ Forget(r)
  /\ UNCHANGED <<pending, issued, blocked, data, stopVars, history>>

\* Mutant of PendingAgain: what was seen before the lock is relied on.
PendingBefore == FALSE

\* _pending_hosted_chat once more, with the lock.
PendingAgain == ~NonePending

CheckChat(r) ==
  /\ req[r].pc = "check" /\ req[r].kind = "chat"
  /\ To(r, IF PendingAgain THEN "end" ELSE "prepare")
  /\ UNCHANGED <<pending, issued, slot, guard, data, stopVars, history>>

\* The Assistant cannot be used: the answer fails and the challenge is kept.
CheckFails(r) ==
  /\ req[r].pc = "check" /\ req[r].kind # "chat"
  /\ \/ ~Usable
     \/ req[r].kind = "account" /\ ~Store!Available(pending["account"], req[r].challenge)
     \/ req[r].kind = "account" /\ Identity = req[r].identity /\ AccountMissing
  /\ To(r, "end")
  /\ UNCHANGED <<pending, issued, slot, guard, data, stopVars, history>>

\* The Team is no longer what the turn was paused in.  The store is emptied of
\* whatever challenge the Team has in it now, not only of the one answered.
CheckRefuses(r) ==
  /\ req[r].pc = "check" /\ req[r].kind # "chat" /\ Usable
  /\ req[r].kind = "account" => Store!Available(pending["account"], req[r].challenge)
  /\ Identity # req[r].identity
  /\ pending' = WithoutMine({req[r].kind})
  /\ To(r, "end")
  /\ UNCHANGED <<issued, slot, guard, data, stopVars, history>>

CheckPasses(r) ==
  /\ req[r].pc = "check" /\ req[r].kind # "chat" /\ Usable
  /\ req[r].kind = "account" => Store!Available(pending["account"], req[r].challenge) /\ ~AccountMissing
  /\ Identity = req[r].identity
  /\ To(r, "claim")
  /\ UNCHANGED <<pending, issued, slot, guard, data, stopVars, history>>

-----------------------------------------------------------------------------
(* The challenge is consumed.                                              *)

MayClaim(r) == req[r].pc = "claim" /\ Store!Available(pending[req[r].kind], req[r].challenge)
Consume(r) == pending' = [pending EXCEPT ![req[r].kind] = Store!Claimed(@, req[r].challenge)]

ClaimIsRefused(r) ==
  /\ req[r].pc = "claim" /\ ~Store!Available(pending[req[r].kind], req[r].challenge)
  /\ To(r, "end")
  /\ UNCHANGED <<pending, issued, slot, guard, data, stopVars, history>>

ClaimAccount(r) ==
  /\ MayClaim(r) /\ req[r].kind = "account"
  /\ Consume(r) /\ To(r, "prepare")
  /\ UNCHANGED <<issued, slot, guard, data, stopVars, history>>

\* The values are stored under the lock of the store, before the challenge is
\* consumed.  The value carries the replacements its challenge had seen.
ClaimSecret(r) ==
  /\ MayClaim(r) /\ req[r].kind = "secret"
  /\ secret' = req[r].challenge.rotation
  /\ Consume(r) /\ To(r, "prepare")
  /\ UNCHANGED <<issued, slot, guard, assistant, connected, grants, generation, stopVars, history>>

\* put_for_assistants fails: the challenge is kept.
SecretIsNotStored(r) ==
  /\ MayClaim(r) /\ req[r].kind = "secret"
  /\ To(r, "end")
  /\ UNCHANGED <<pending, issued, slot, guard, data, stopVars, history>>

ClaimAnswer(r) ==
  /\ MayClaim(r) /\ req[r].kind \in {"input", "approval"}
  /\ Consume(r)
  /\ req' = [req EXCEPT ![r].pc = IF req[r].challenge.once THEN "grant" ELSE "prepare",
                        ![r].answers = IF req[r].challenge.once THEN @ ELSE @ + 1]
  /\ UNCHANGED <<issued, slot, guard, data, stopVars, history>>

\* What a grant is for.  The container is history: the code keeps the image.
Grant(image, ordinal, container) == [image |-> image, ordinal |-> ordinal, container |-> container]

\* grant_many, after the challenge is gone.
GrantOnce(r) ==
  /\ req[r].pc = "grant"
  /\ grants' = grants \cup {Grant(req[r].image, req[r].answers, req[r].identity[1])}
  /\ req' = [req EXCEPT ![r].pc = "prepare", ![r].answers = @ + 1]
  /\ UNCHANGED <<pending, issued, slot, guard, assistant, connected, secret, generation, stopVars, history>>

\* The grant is not stored: the answer and the challenge are lost.
GrantFails(r) ==
  /\ req[r].pc = "grant"
  /\ To(r, "end")
  /\ UNCHANGED <<pending, issued, slot, guard, data, stopVars, history>>

-----------------------------------------------------------------------------
(* The segment of the turn.                                                *)

\* prepare, and run_segment: a continuation needs the identity it was paused in.
Prepare(r) ==
  /\ req[r].pc = "prepare" /\ Usable
  /\ req[r].identity \in {<< >>, Identity}
  /\ req' = [req EXCEPT ![r].pc = "segment", ![r].identity = Identity, ![r].image = assistant.image]
  /\ UNCHANGED <<pending, issued, slot, guard, data, stopVars, history>>

PrepareFails(r) ==
  /\ req[r].pc = "prepare"
  /\ ~Usable \/ req[r].identity \notin {<< >>, Identity}
  /\ To(r, "end")
  /\ UNCHANGED <<pending, issued, slot, guard, data, stopVars, history>>

\* cancelled and validate_context, before everything the segment does.
InContext(r) == req[r].pc = "segment" /\ r \notin cancelled /\ Usable /\ req[r].identity = Identity

\* The Brain or the Power fails, or the segment finds itself cancelled or its
\* context changed.
SegmentFails(r) ==
  /\ req[r].pc \in {"segment", "suspended"}
  /\ To(r, "end")
  /\ UNCHANGED <<pending, issued, slot, guard, data, stopVars, history>>

\* pause_for_private_inputs: an account first, then a secret.
NeedsPrivateInput(r) ==
  /\ InContext(r)
  /\ AccountMissing \/ SecretMissing
  /\ req' = [req EXCEPT ![r].pc = "pause",
                        ![r].asks = [kind |-> IF AccountMissing THEN "account" ELSE "secret", once |-> FALSE]]
  /\ UNCHANGED <<pending, issued, slot, guard, data, stopVars, history>>

\* A Power passes its checks; its RPC registers only later.
AdmitPower(r) ==
  /\ InContext(r) /\ ~AccountMissing /\ ~SecretMissing
  /\ To(r, "power")
  /\ UNCHANGED <<pending, issued, slot, guard, data, stopVars, history>>

\* _register_active_power.
MayRegister(r) == active = r /\ r \notin cancelled /\ power = NoPower

RegisterPower(r) ==
  /\ req[r].pc = "power"
  /\ IF MayRegister(r)
       THEN /\ power' = [token |-> r, container |-> req[r].identity[1], turn |-> req[r].turn]
            /\ To(r, "running")
       ELSE UNCHANGED power /\ To(r, "end")
  /\ UNCHANGED <<pending, issued, slot, active, cancelled, blocked, data, stopVars, history>>

\* The Power returns a result, or asks for an input or an approval at the call
\* site after those already answered.
PowerReturns(r) ==
  /\ req[r].pc = "running" /\ assistant.up
  /\ power' = NoPower
  /\ \/ To(r, "segment")
     \/ /\ req[r].answers < MaxAnswers
        /\ \E k \in {"input", "approval"}, once \in BOOLEAN :
             /\ once => k = "approval"
             /\ req' = [req EXCEPT ![r].pc = "suspended", ![r].asks = [kind |-> k, once |-> once]]
  /\ UNCHANGED <<pending, issued, slot, active, cancelled, blocked, data, stopVars, history>>

\* _fail_stop_power: the container is dead, or its Power may still run and the
\* container is not used again.
FailStop(c) ==
  \/ /\ assistant' = IF assistant.container = c THEN [assistant EXCEPT !.up = FALSE] ELSE assistant
     /\ UNCHANGED blocked
  \/ /\ assistant.container = c /\ assistant.up
     /\ blocked' = blocked \cup {c}
     /\ UNCHANGED assistant

\* A timeout or a broken transport: the Power is stopped before it is released.
PowerFails(r) ==
  /\ req[r].pc = "running"
  /\ FailStop(req[r].identity[1])
  /\ power' = NoPower
  /\ To(r, "end")
  /\ UNCHANGED <<pending, issued, slot, active, cancelled, connected, secret, grants, generation,
                 stopVars, history>>

\* is_granted: this release, at this call site.
Granted(r) == req[r].asks.once /\ \E g \in grants : g.image = req[r].image /\ g.ordinal = req[r].answers

\* require_current_credential; an approval that was given once for the call
\* site is answered by the controller, and the segment goes on.
Suspend(r) ==
  /\ req[r].pc = "suspended" /\ req[r].identity[2] = generation
  /\ IF Granted(r)
       THEN req' = [req EXCEPT ![r].pc = "prepare", ![r].answers = @ + 1, ![r].asks = NoAnswer]
       ELSE To(r, "pause")
  /\ UNCHANGED <<pending, issued, slot, guard, data, stopVars, history>>

-----------------------------------------------------------------------------
(* The end of the segment.                                                 *)

\* The terminal reply of the Brain.
BrainReplies(r) ==
  /\ InContext(r)
  /\ To(r, "reply")
  /\ UNCHANGED <<pending, issued, slot, guard, data, stopVars, history>>

ChallengeOf(r) ==
  [team |-> ThisTeam, id |-> issued + 1, turn |-> req[r].turn, identity |-> req[r].identity,
   image |-> req[r].image, answers |-> req[r].answers, once |-> req[r].asks.once, rotation |-> rotation]

\* _pause_hosted_*: the challenge is in its store before the turn commits.
CreateChallenge(r) ==
  /\ req[r].pc = "pause" /\ issued < MaxChallenges
  /\ Store!MayCreate(pending[req[r].asks.kind], ThisTeam)
  /\ pending' = [pending EXCEPT ![req[r].asks.kind] = Store!Created(@, ChallengeOf(r))]
  /\ issued' = issued + 1
  /\ To(r, "commit")
  /\ UNCHANGED <<slot, guard, data, stopVars, history>>

ChallengeIsRefused(r) ==
  /\ req[r].pc = "pause"
  /\ ~Store!MayCreate(pending[req[r].asks.kind], ThisTeam)
  /\ To(r, "end")
  /\ UNCHANGED <<pending, issued, slot, guard, data, stopVars, history>>

\* Mutant of MayCommit: the turn ends although it was stopped.
CommitAnyway(r) == TRUE

\* _commit_chat_terminal: a Stop that came first has the token.
MayCommit(r) == r \notin cancelled
PopToken(r) == active' = IF active = r THEN NoRequest ELSE active

\* commit_suspension: the challenge stays, or is taken back.
CommitPause(r) ==
  /\ req[r].pc = "commit"
  /\ IF MayCommit(r)
       THEN PopToken(r) /\ UNCHANGED pending
       ELSE pending' = WithoutMine({req[r].asks.kind}) /\ UNCHANGED active
  /\ To(r, "end")
  /\ UNCHANGED <<issued, slot, cancelled, power, blocked, data, stopVars, history>>

CommitReply(r) ==
  /\ req[r].pc = "reply"
  /\ IF MayCommit(r)
       THEN PopToken(r) /\ replied' = replied \cup {req[r].turn}
       ELSE UNCHANGED <<active, replied>>
  /\ To(r, "end")
  /\ UNCHANGED <<pending, issued, slot, cancelled, power, blocked, data, stopVars,
                 turns, stopped, installed, rotation>>

-----------------------------------------------------------------------------
(* Stop: the stores one by one, then the token, then the Power.            *)

StopArrives ==
  /\ stop.pc = "idle" /\ stops < MaxStops
  /\ stop' = [NoStop EXCEPT !.pc = "stores", !.todo = StopOrder]
  /\ stops' = stops + 1
  /\ UNCHANGED <<pending, issued, req, slot, guard, data, history>>

StopCancels ==
  /\ stop.pc = "stores" /\ stop.todo # << >>
  /\ LET k == Head(stop.todo) IN
       /\ pending' = WithoutMine({k})
       /\ stop' = [stop EXCEPT !.todo = Tail(@), !.covers = @ \cup {c.turn : c \in Mine(k)}]
  /\ UNCHANGED <<issued, req, slot, guard, data, stops, history>>

\* History: the turn whose token is marked, unless a challenge of it, created
\* after Stop emptied that store, is still there to be answered another time.
TurnOf(token) ==
  IF token = NoRequest \/ \E k \in Kind : \E c \in Mine(k) : c.turn = req[token].turn
    THEN {} ELSE {req[token].turn}

\* The token is marked under the guard; the answer is accepted when there was
\* a token or a challenge.
StopMarks ==
  /\ stop.pc = "stores" /\ stop.todo = << >>
  /\ LET token == active
         turn == TurnOf(token) IN
       /\ cancelled' = IF token = NoRequest THEN cancelled ELSE cancelled \cup {token}
       /\ stopped' = stopped \cup stop.covers \cup turn
       /\ stop' = IF token = NoRequest THEN NoStop ELSE [stop EXCEPT !.pc = "power", !.token = token]
  /\ UNCHANGED <<pending, issued, req, slot, active, power, blocked, data, stops,
                 turns, replied, installed, rotation>>

\* The Team does not run or cannot be inspected: the challenges are gone, and
\* the turn goes on.
StopIsRefused ==
  /\ stop.pc = "stores" /\ stop.todo = << >>
  /\ stop' = NoStop
  /\ UNCHANGED <<pending, issued, req, slot, guard, data, stops, history>>

\* _stop_active_power: the guard is taken again to find the Power.
StopFindsPower ==
  /\ stop.pc = "power"
  /\ stop' = IF power # NoPower /\ power.token = stop.token
               THEN [stop EXCEPT !.pc = "kill", !.container = power.container]
               ELSE NoStop
  /\ UNCHANGED <<pending, issued, req, slot, guard, data, stops, history>>

StopKills ==
  /\ stop.pc = "kill"
  /\ FailStop(stop.container) \/ UNCHANGED <<assistant, blocked>>
  /\ stop' = NoStop
  /\ UNCHANGED <<pending, issued, req, slot, active, cancelled, power, connected, secret, grants,
                 generation, stops, history>>

-----------------------------------------------------------------------------
(* What changes what a turn is bound to.  The first three have the chat    *)
(* lock and the Team lock throughout.                                      *)

\* Mutant of CancelledByRotation: the paused turn keeps its challenge.
CancelledByNothing == {}

\* The stores that _replace_assistant_secrets empties.
CancelledByRotation == {"secret", "input", "approval"}

\* _replace_assistant_secrets; put_many may fail.
ReplaceSecret ==
  /\ slot = NoRequest /\ stop.pc \notin {"power", "kill"} /\ Usable /\ Changes < MaxChanges
  /\ pending' = WithoutMine(CancelledByRotation)
  /\ \/ rotation' = rotation + 1 /\ secret' = rotation'
     \/ UNCHANGED <<rotation, secret>>
  /\ UNCHANGED <<issued, req, slot, guard, assistant, connected, grants, generation, stopVars,
                 turns, replied, stopped, installed>>

\* _uninstall_app: all four stores, the container, then the private state, of
\* which each part may fail and leave the rest.
Uninstall ==
  /\ slot = NoRequest /\ stop.pc \notin {"power", "kill"} /\ assistant.container # 0
  /\ pending' = WithoutMine(Kind)
  /\ assistant' = [assistant EXCEPT !.container = 0, !.up = FALSE]
  /\ \/ UNCHANGED <<secret, connected, grants>>
     \/ secret' = NoSecret /\ UNCHANGED <<connected, grants>>
     \/ secret' = NoSecret /\ connected' = FALSE /\ UNCHANGED grants
     \/ secret' = NoSecret /\ connected' = FALSE /\ grants' = {}
  /\ UNCHANGED <<issued, req, slot, guard, generation, stopVars, history>>

\* Mutant of GrantsAtInstall: approvals outlive the installation.
GrantsStay == grants

\* _provision_app begins by revoking the approvals of the Assistant.
GrantsAtInstall == {}

Install ==
  /\ slot = NoRequest /\ stop.pc \notin {"power", "kill"} /\ assistant.container = 0 /\ Changes < MaxChanges
  /\ grants' = GrantsAtInstall
  /\ installed' = installed + 1
  /\ \E image \in Image : assistant' = [container |-> installed', image |-> image, up |-> TRUE]
  /\ UNCHANGED <<pending, issued, req, slot, guard, connected, secret, generation, stopVars,
                 turns, replied, stopped, rotation>>

\* The owner connects or disconnects the account.
AccountChanges ==
  /\ connected' = ~connected
  /\ UNCHANGED <<pending, issued, req, slot, guard, assistant, secret, grants, generation, stopVars, history>>

\* The owner replaces the model credential.
CredentialChanges ==
  /\ Changes < MaxChanges
  /\ generation' = generation + 1
  /\ UNCHANGED <<pending, issued, req, slot, guard, assistant, connected, secret, grants, stopVars, history>>

\* _expire.
ChallengeExpires(k) ==
  /\ Mine(k) # {}
  /\ pending' = WithoutMine({k})
  /\ UNCHANGED <<issued, req, slot, guard, data, stopVars, history>>

\* Another Team pauses, or its challenge is consumed.
OtherPauses(k) ==
  /\ k \in Shared /\ Store!MayCreate(pending[k], OtherTeam)
  /\ pending' = [pending EXCEPT ![k] = Store!Created(@, [team |-> OtherTeam, id |-> 0])]
  /\ UNCHANGED <<issued, req, slot, guard, data, stopVars, history>>
OtherResumes(k) ==
  /\ Store!Of(pending[k], OtherTeam) # {}
  /\ pending' = [pending EXCEPT ![k] = Store!Cancelled(@, OtherTeam)]
  /\ UNCHANGED <<issued, req, slot, guard, data, stopVars, history>>

-----------------------------------------------------------------------------
Enter(r) == ChatArrives(r) \/ (\E k \in Kind : AnswerArrives(r, k)) \/ EnterSlot(r) \/ SlotIsTaken(r)
            \/ TakeToken(r) \/ TeamIsRefused(r)
Check(r) == CheckChat(r) \/ CheckFails(r) \/ CheckRefuses(r) \/ CheckPasses(r)
Claim(r) == \/ ClaimIsRefused(r) \/ ClaimAccount(r) \/ ClaimSecret(r) \/ SecretIsNotStored(r)
            \/ ClaimAnswer(r) \/ GrantOnce(r) \/ GrantFails(r)
Segment(r) == \/ Prepare(r) \/ PrepareFails(r) \/ SegmentFails(r) \/ NeedsPrivateInput(r)
              \/ AdmitPower(r) \/ RegisterPower(r) \/ PowerReturns(r) \/ PowerFails(r) \/ Suspend(r)
Finish(r) == \/ BrainReplies(r) \/ CreateChallenge(r) \/ ChallengeIsRefused(r)
             \/ CommitPause(r) \/ CommitReply(r) \/ Release(r)
Stop == StopArrives \/ StopCancels \/ StopMarks \/ StopIsRefused \/ StopFindsPower \/ StopKills
Owner == ReplaceSecret \/ Uninstall \/ Install \/ AccountChanges \/ CredentialChanges

Next ==
  \/ \E r \in Request : Enter(r) \/ Check(r) \/ Claim(r) \/ Segment(r) \/ Finish(r)
  \/ Stop \/ Owner
  \/ \E k \in Kind : ChallengeExpires(k) \/ OtherPauses(k) \/ OtherResumes(k)

Spec == Init /\ [][Next]_vars

-----------------------------------------------------------------------------
(* Properties.                                                             *)

Challenge == [team : {ThisTeam}, id : 1..MaxChallenges, turn : 1..MaxTurns,
              identity : (1..(MaxChanges + 1)) \X (1..(MaxChanges + 1)), image : Image,
              answers : 0..MaxAnswers, once : BOOLEAN, rotation : 0..MaxChanges]
OtherChallenge == [team : {OtherTeam}, id : {0}]
Label == {"idle", "enter", "begin", "check", "claim", "grant", "prepare", "segment", "power",
          "running", "suspended", "pause", "commit", "reply", "end"}

\* Types, of which one is not plain: every store keeps to its capacity, to one
\* challenge of a Team and to ids used once, whichever of its operations come
\* between the two halves of another (challenge_store.py).
TypeOK ==
  /\ \A k \in Kind : pending[k] \subseteq Challenge \cup OtherChallenge /\ Store!WellFormed(pending[k])
  /\ DOMAIN pending = Kind /\ issued \in 0..MaxChallenges
  /\ req \in [Request -> [kind : Kind \cup {"none", "chat"}, pc : Label, turn : 0..MaxTurns,
                         challenge : Challenge \cup {NoChallenge},
                         identity : {<< >>} \cup (1..(MaxChanges + 1)) \X (1..(MaxChanges + 1)),
                         image : Image \cup {"none"}, answers : 0..(MaxAnswers + 1),
                         asks : [kind : Kind \cup {"none"}, once : BOOLEAN]]]
  /\ slot \in Request \cup {NoRequest} /\ active \in {slot, NoRequest} /\ cancelled \subseteq {slot}
  /\ power = NoPower \/ power.token = slot
  /\ blocked \subseteq 1..(MaxChanges + 1)
  /\ assistant \in [container : 0..(MaxChanges + 1), image : Image, up : BOOLEAN]
  /\ connected \in BOOLEAN /\ secret \in {NoSecret} \cup 0..MaxChanges
  /\ grants \subseteq [image : Image, ordinal : 0..MaxAnswers, container : 1..(MaxChanges + 1)]
  /\ generation \in 1..(MaxChanges + 1)

\* A Team never waits for two challenges at once: each of the four stores only
\* knows its own, and with two of them every later message of the Team is
\* answered 503 (_pending_hosted_chat).
OnePending == \A k, l \in Kind : Mine(k) # {} /\ Mine(l) # {} => k = l

\* Once a Stop is accepted, the turn that it found, running or paused, is over:
\* it does not reply, it starts no Power, and no challenge of it is left when
\* the chat lock is free again, whatever the turn was doing between the six
\* steps of the Stop (_stop_chat, _commit_chat_terminal).  The exception is TurnOf.
StoppedStaysStopped ==
  [][\A turn \in stopped :
       /\ turn \notin replied' \ replied
       /\ power' # power /\ power' # NoPower => power'.turn # turn
       /\ slot' = NoRequest => \A k \in Kind : \A c \in Mine(k)' : c.turn # turn]_vars

\* A secret that the owner replaced is never overwritten by the answer to a
\* challenge that was shown before ("it must never overwrite this rotation
\* later", _replace_assistant_secrets).
RotationSurvives == secret # NoSecret => secret = rotation

\* The approvals that are answered by the controller were all given to the
\* installation that is there now, and not to one before it, though the removal
\* of the one before failed half way (_revoke_assistant_approval_grants).
GrantedForThisInstallation ==
  assistant.container # 0 => \A g \in grants : g.container = assistant.container
=============================================================================
