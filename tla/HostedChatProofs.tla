------------------------ MODULE HostedChatProofs ------------------------
(***************************************************************************)
(* The safety properties of HostedChat, for any number of threads, turns,  *)
(* challenges and changes.  The chat lock makes one thread at a time work  *)
(* on a turn (Locks); that nothing is pending while it does (Waiting) is   *)
(* what OnePending needs, and why the answer to an old challenge is        *)
(* refused.  StoppedStaysStopped rests on what may still act for a turn    *)
(* (Alive): after a Stop only a thread whose token is marked.              *)
(***************************************************************************)
EXTENDS HostedChat, FiniteSetTheorems, TLAPS

\* What a continuation is bound to: a container and a credential generation.
Site == (1..(MaxChanges + 1)) \X (1..(MaxChanges + 1))

\* The steps that have the chat lock.
Locked == Label \ {"idle", "enter"}
Has(r) == req[r].pc \in Locked

\* The steps of a turn between the consumption of its challenge and its end.
Working == {"grant", "prepare", "segment", "power", "running", "suspended", "pause", "reply"}
\* A request that answers a challenge, and the answers a human gives.
Answers(r) == req[r].kind \in Kind
Human == {"input", "approval"}

\* The sets of the types.
Challenges == Challenge \cup OtherChallenge
Identities == {<< >>} \cup Site
SomeChallenge == Challenge \cup {NoChallenge}
SomeImage == Image \cup {"none"}
Asking == [kind : Kind \cup {"none"}, once : BOOLEAN]
RequestKind == Kind \cup {"none", "chat"}
RequestRecord == [kind : RequestKind, pc : Label, turn : 0..MaxTurns, challenge : SomeChallenge,
                  identity : Identities, image : SomeImage, answers : 0..MaxAnswers, asks : Asking]
GrantRecord == [image : Image, ordinal : 0..MaxAnswers, container : 1..(MaxChanges + 1)]
StopRecord == [pc : {"idle", "stores", "power", "kill"}, todo : Seq(Kind), covers : SUBSET (1..MaxTurns),
               token : Request \cup {NoRequest}, container : 0..(MaxChanges + 1)]

\* The types: of the requests, of the stores, of the data and of the stop.
Requests == req \in [Request -> RequestRecord] /\ turns \in 0..MaxTurns
StoreTypes == pending \in [Kind -> SUBSET Challenges] /\ issued \in 0..MaxChallenges
Data ==
  /\ assistant \in [container : 0..(MaxChanges + 1), image : Image, up : BOOLEAN]
  /\ connected \in BOOLEAN /\ secret \in {NoSecret} \cup 0..MaxChanges
  /\ grants \subseteq GrantRecord
  /\ blocked \subseteq 1..(MaxChanges + 1)
StopTypes == stop \in StopRecord /\ stop.covers \subseteq 1..turns /\ stopped \subseteq 1..turns

\* The changes counted against their bound.
Counts ==
  /\ installed \in 1..(MaxChanges + 1) /\ rotation \in 0..MaxChanges /\ generation \in 1..(MaxChanges + 1)
  /\ Changes <= MaxChanges
  /\ assistant.up => assistant.container # 0

\* What the locals of a request are at each step.
Locals ==
  \A r \in Request :
    /\ req[r].turn <= turns
    /\ req[r].pc # "idle" => req[r].kind # "none" /\ req[r].turn >= 1
    /\ Answers(r) => /\ req[r].challenge \in Challenge /\ req[r].turn = req[r].challenge.turn
                     /\ req[r].identity \in Site /\ req[r].image \in Image
    /\ req[r].pc \in {"segment", "power", "running", "suspended", "pause", "commit", "reply"}
         => req[r].identity \in Site /\ req[r].image \in Image
    /\ req[r].pc \in {"suspended", "pause", "commit"} => req[r].asks.kind \in Kind
    /\ req[r].pc \in {"claim", "grant"} => Answers(r)
    /\ req[r].pc = "grant" => req[r].kind \in Human
    /\ req[r].pc \in {"enter", "begin", "check", "claim", "grant"} /\ req[r].kind \in Human
         => req[r].answers < MaxAnswers
    /\ req[r].pc \in {"suspended", "pause"} /\ req[r].asks.kind \in Human => req[r].answers < MaxAnswers

\* One thread has the chat lock; the token and the Power are its.
Locks ==
  /\ slot \in Request \cup {NoRequest}
  /\ \A r \in Request : Has(r) <=> slot = r
  /\ active \in {slot, NoRequest} /\ cancelled \subseteq {slot} \cap Request
  /\ \A r \in Request : req[r].pc = "begin" => active = NoRequest /\ cancelled = {}
  /\ power # NoPower => /\ power \in [token : {slot}, container : 1..(MaxChanges + 1), turn : 1..MaxTurns]
                        /\ \E r \in Request : slot = r /\ req[r].pc = "running"

\* The stores: capacity, one challenge of a Team, ids used once.
Stores ==
  \A k \in Kind : /\ IsFiniteSet(pending[k]) /\ Store!WellFormed(pending[k])
                  /\ \A c \in Mine(k) : /\ c.id <= issued /\ c.turn <= turns
                                        /\ k \in Human => c.answers < MaxAnswers

\* While a turn works nothing waits; a turn that has paused waits for one thing.
Waiting ==
  /\ \A r \in Request : req[r].pc \in Working => NonePending
  /\ OnePending

\* What waits for a secret was shown after the last rotation.
Rotations == RotationSurvives /\ \A c \in Mine("secret") : c.rotation = rotation

\* A request that may grant has compared its installation under the lock.
Installs ==
  /\ GrantedForThisInstallation
  /\ \A r \in Request : req[r].pc \in {"claim", "grant"} =>
       assistant.container # 0 /\ req[r].identity[1] = assistant.container

\* A message whose turn has not begun to work: nobody else knows of it.
New(r) == req[r].kind = "chat" /\ req[r].pc \in {"enter", "begin", "check"}
Fresh ==
  \A r \in Request : New(r) =>
    /\ \A u \in Request : u # r => req[u].turn # req[r].turn
    /\ \A k \in Kind : \A c \in Mine(k) : c.turn # req[r].turn
    /\ req[r].turn \notin stop.covers
    /\ req[r].pc = "enter" => req[r].turn \notin stopped

\* What can still act for its turn.
Alive(r) ==
  \/ New(r) \/ req[r].pc \in Working
  \/ Answers(r) /\ req[r].pc \in {"begin", "check", "claim"} /\ req[r].challenge \in Mine(req[r].kind)

\* After a Stop: a thread whose token is marked, or a challenge that it is about
\* to take back.
Over ==
  /\ \A r \in Request : Has(r) /\ Alive(r) =>
       /\ req[r].turn \in stopped => r \in cancelled
       /\ req[r].turn \notin stop.covers
  /\ \A k \in Kind : \A c \in Mine(k) :
       /\ c.turn \notin stop.covers
       /\ c.turn \in stopped => \E r \in cancelled : req[r].pc = "commit" /\ req[r].asks.kind = k

\* The inductive invariant.
IInv == /\ Requests /\ StoreTypes /\ Data /\ StopTypes
        /\ Counts /\ Locals
        /\ Locks /\ Stores /\ Waiting
        /\ Rotations /\ Installs
        /\ Fresh /\ Over

-----------------------------------------------------------------------------
(* What a step may change.  The steps of the other lemmas are those of     *)
(* Frames, and not all of Next.                                            *)

\* What the proofs use of the constants.
LEMMA Bounds ==
  /\ MaxTurns \in Nat /\ MaxChallenges \in Nat /\ MaxAnswers \in Nat /\ MaxChanges \in Nat
  /\ Capacity \in Nat /\ NoRequest \notin Request /\ ThisTeam # OtherTeam
BY ChatAssumption

\* Steps of the threads that send messages and answers.
RequestStep == \E r \in Request : Enter(r) \/ Check(r) \/ Claim(r) \/ Segment(r) \/ Finish(r)

\* Challenges are consumed, cancelled or expire.
Shrinks == pending' \in [Kind -> SUBSET Challenges] /\ \A k \in Kind : pending'[k] \subseteq pending[k]

\* For each part of the state, the steps that may change it.
Frames ==
  /\ \/ Shrinks /\ issued' = issued
     \/ (\E r \in Request : CreateChallenge(r)) \/ (\E k \in Kind : OtherPauses(k))
  /\ \/ UNCHANGED <<assistant, secret, grants, generation, blocked, installed, rotation>>
     \/ \E r \in Request : ClaimSecret(r) \/ GrantOnce(r) \/ PowerFails(r)
     \/ StopKills \/ Owner
  /\ connected' \in BOOLEAN
  /\ UNCHANGED <<stop, stopped>> \/ Stop
  /\ UNCHANGED turns \/ \E r \in Request : ChatArrives(r)
  /\ UNCHANGED replied \/ \E r \in Request : CommitReply(r)
  /\ power' \in {power, NoPower} \/ \E r \in Request : RegisterPower(r)
  /\ \/ UNCHANGED <<req, slot, active, cancelled, power>>
     \/ StopMarks /\ UNCHANGED <<req, slot, active, power>>
     \/ RequestStep /\ UNCHANGED <<stop, stopped>>

\* Every step is one of these.
LEMMA WhoChangesWhat ==
  ASSUME StoreTypes, Data, Next
  PROVE  Frames
<1> USE ChatAssumption DEF guard, data, stopVars, history, StoreTypes, Data,
                           Frames, Shrinks, RequestStep, Stop, Owner,
                           WithoutMine, Store!Cancelled, Store!Claimed
<1>1. ASSUME NEW r \in Request, ChatArrives(r) PROVE Frames
  BY <1>1 DEF ChatArrives, Enter
<1>2. ASSUME NEW r \in Request, NEW k \in Kind, AnswerArrives(r, k) PROVE Frames
  BY <1>2 DEF AnswerArrives, Enter
<1>3. ASSUME NEW r \in Request, EnterSlot(r) PROVE Frames
  BY <1>3 DEF EnterSlot, Enter
<1>4. ASSUME NEW r \in Request, SlotIsTaken(r) PROVE Frames
  BY <1>4 DEF SlotIsTaken, Enter
<1>5. ASSUME NEW r \in Request, TakeToken(r) PROVE Frames
  BY <1>5 DEF TakeToken, Enter
<1>6. ASSUME NEW r \in Request, TeamIsRefused(r) PROVE Frames
  BY <1>6 DEF TeamIsRefused, Enter
<1>7. ASSUME NEW r \in Request, CheckChat(r) PROVE Frames
  BY <1>7 DEF CheckChat, Check
<1>8. ASSUME NEW r \in Request, CheckFails(r) PROVE Frames
  BY <1>8 DEF CheckFails, Check
<1>9. ASSUME NEW r \in Request, CheckRefuses(r) PROVE Frames
  BY <1>9 DEF CheckRefuses, Check
<1>10. ASSUME NEW r \in Request, CheckPasses(r) PROVE Frames
  BY <1>10 DEF CheckPasses, Check
<1>11. ASSUME NEW r \in Request, ClaimIsRefused(r) PROVE Frames
  BY <1>11 DEF ClaimIsRefused, Claim
<1>12. ASSUME NEW r \in Request, ClaimAccount(r) PROVE Frames
  BY <1>12 DEF ClaimAccount, Consume, Claim
<1>13. ASSUME NEW r \in Request, ClaimSecret(r) PROVE Frames
  BY <1>13 DEF ClaimSecret, Consume, Claim
<1>14. ASSUME NEW r \in Request, SecretIsNotStored(r) PROVE Frames
  BY <1>14 DEF SecretIsNotStored, Claim
<1>15. ASSUME NEW r \in Request, ClaimAnswer(r) PROVE Frames
  BY <1>15 DEF ClaimAnswer, Consume, Claim
<1>16. ASSUME NEW r \in Request, GrantOnce(r) PROVE Frames
  BY <1>16 DEF GrantOnce, Claim
<1>17. ASSUME NEW r \in Request, GrantFails(r) PROVE Frames
  BY <1>17 DEF GrantFails, Claim
<1>18. ASSUME NEW r \in Request, Prepare(r) PROVE Frames
  BY <1>18 DEF Prepare, Segment
<1>19. ASSUME NEW r \in Request, PrepareFails(r) PROVE Frames
  BY <1>19 DEF PrepareFails, Segment
<1>20. ASSUME NEW r \in Request, SegmentFails(r) PROVE Frames
  BY <1>20 DEF SegmentFails, Segment
<1>21. ASSUME NEW r \in Request, NeedsPrivateInput(r) PROVE Frames
  BY <1>21 DEF NeedsPrivateInput, Segment
<1>22. ASSUME NEW r \in Request, AdmitPower(r) PROVE Frames
  BY <1>22 DEF AdmitPower, Segment
<1>23. ASSUME NEW r \in Request, RegisterPower(r) PROVE Frames
  BY <1>23 DEF RegisterPower, Segment
<1>24. ASSUME NEW r \in Request, PowerReturns(r) PROVE Frames
  BY <1>24 DEF PowerReturns, Segment
<1>25. ASSUME NEW r \in Request, PowerFails(r) PROVE Frames
  BY <1>25 DEF PowerFails, Segment
<1>26. ASSUME NEW r \in Request, Suspend(r) PROVE Frames
  BY <1>26 DEF Suspend, Segment
<1>27. ASSUME NEW r \in Request, BrainReplies(r) PROVE Frames
  BY <1>27 DEF BrainReplies, Finish
<1>28. ASSUME NEW r \in Request, CreateChallenge(r) PROVE Frames
  BY <1>28 DEF CreateChallenge, Finish
<1>29. ASSUME NEW r \in Request, ChallengeIsRefused(r) PROVE Frames
  BY <1>29 DEF ChallengeIsRefused, Finish
<1>30. ASSUME NEW r \in Request, CommitPause(r) PROVE Frames
  BY <1>30 DEF CommitPause, PopToken, Finish
<1>31. ASSUME NEW r \in Request, CommitReply(r) PROVE Frames
  BY <1>31 DEF CommitReply, PopToken, Finish
<1>32. ASSUME NEW r \in Request, Release(r) PROVE Frames
  BY <1>32 DEF Release, Finish
<1>33. ASSUME StopArrives PROVE Frames
  BY <1>33 DEF StopArrives
<1>34. ASSUME StopCancels PROVE Frames
  BY <1>34 DEF StopCancels
<1>35. ASSUME StopMarks PROVE Frames
  BY <1>35 DEF StopMarks
<1>36. ASSUME StopIsRefused PROVE Frames
  BY <1>36 DEF StopIsRefused
<1>37. ASSUME StopFindsPower PROVE Frames
  BY <1>37 DEF StopFindsPower
<1>38. ASSUME StopKills PROVE Frames
  BY <1>38 DEF StopKills
<1>39. ASSUME ReplaceSecret PROVE Frames
  BY <1>39 DEF ReplaceSecret
<1>40. ASSUME Uninstall PROVE Frames
  BY <1>40 DEF Uninstall
<1>41. ASSUME Install PROVE Frames
  BY <1>41 DEF Install
<1>42. ASSUME AccountChanges PROVE Frames
  BY <1>42 DEF AccountChanges
<1>43. ASSUME CredentialChanges PROVE Frames
  BY <1>43 DEF CredentialChanges
<1>44. ASSUME NEW k \in Kind, ChallengeExpires(k) PROVE Frames
  BY <1>44 DEF ChallengeExpires
<1>45. ASSUME NEW k \in Kind, OtherPauses(k) PROVE Frames
  BY <1>45 DEF OtherPauses
<1>46. ASSUME NEW k \in Kind, OtherResumes(k) PROVE Frames
  BY <1>46 DEF OtherResumes
<1> QED
  BY <1>1, <1>2, <1>3, <1>4, <1>5, <1>6, <1>7, <1>8, <1>9, <1>10, <1>11,
     <1>12, <1>13, <1>14, <1>15, <1>16, <1>17, <1>18, <1>19, <1>20, <1>21,
     <1>22, <1>23, <1>24, <1>25, <1>26, <1>27, <1>28, <1>29, <1>30, <1>31,
     <1>32, <1>33, <1>34, <1>35, <1>36, <1>37, <1>38, <1>39, <1>40, <1>41,
     <1>42, <1>43, <1>44, <1>45, <1>46
  DEF Next, Enter, Check, Claim, Segment, Finish, Stop, Owner

-----------------------------------------------------------------------------
(* Types of the requests, and what their locals are at each step.          *)

\* What a request is before it begins.
LEMMA IdleTypes == Idle \in RequestRecord /\ NoAnswer \in Asking
<1>1. "idle" \in Label /\ NoAnswer \in Asking
  BY DEF Label, NoAnswer, Asking
<1>2. << >> \in Identities /\ NoChallenge \in SomeChallenge /\ "none" \in SomeImage /\ "none" \in RequestKind
      /\ 0 \in 0..MaxTurns /\ 0 \in 0..MaxAnswers
  BY Bounds DEF Identities, SomeChallenge, SomeImage, RequestKind
<1> QED BY <1>1, <1>2 DEF Idle, RequestRecord

\* A challenge that waits in this Team.
LEMMA PendingInThisTeam ==
  ASSUME StoreTypes, NEW k \in Kind, NEW c \in Mine(k)
  PROVE  c \in Challenge /\ c \in pending[k]
BY ChatAssumption DEF StoreTypes, Mine, Store!Of, Challenges, OtherChallenge

\* What the claim of an answer changes of its request.
LEMMA AnswerMoves ==
  ASSUME Requests, NEW r \in Request, ClaimAnswer(r)
  PROVE  /\ \A u \in Request : u # r => req'[u] = req[u]
         /\ req'[r].pc \in {"grant", "prepare"} /\ req'[r].kind = req[r].kind
         /\ req'[r].challenge = req[r].challenge /\ req'[r].turn = req[r].turn
         /\ req'[r].identity = req[r].identity /\ req'[r].image = req[r].image
         /\ req'[r].pc = "grant" => req'[r].answers = req[r].answers
<1>1. CASE req[r].challenge.once
  <2>1. req' = [req EXCEPT ![r] = [req[r] EXCEPT !.pc = "grant", !.answers = req[r].answers]]
    BY <1>1 DEF ClaimAnswer
  <2> QED BY <2>1 DEF Requests, RequestRecord
<1>2. CASE ~req[r].challenge.once
  <2>1. req' = [req EXCEPT ![r] = [req[r] EXCEPT !.pc = "prepare", !.answers = req[r].answers + 1]]
    BY <1>2 DEF ClaimAnswer
  <2> QED BY <2>1 DEF Requests, RequestRecord
<1> QED BY <1>1, <1>2

\* Every step keeps the type of the requests.
LEMMA RequestsStep ==
  ASSUME Requests, StoreTypes, Data, Counts, Locals, Stores, Frames
  PROVE  req' \in [Request -> RequestRecord]
<1> USE Bounds DEF To, Forget, RequestRecord, Label, history, Requests
<1>1. ASSUME NEW r \in Request, ChatArrives(r) PROVE req' \in [Request -> RequestRecord]
  <2> DEFINE x == [Idle EXCEPT !.kind = "chat", !.pc = "enter", !.turn = turns']
  <2>1. turns' \in 0..MaxTurns /\ "chat" \in RequestKind
    BY <1>1 DEF ChatArrives, RequestKind
  <2>2. x \in RequestRecord
    BY <2>1, IdleTypes
  <2> QED BY <1>1, <2>2 DEF ChatArrives
<1>2. ASSUME NEW r \in Request, NEW k \in Kind, AnswerArrives(r, k) PROVE req' \in [Request -> RequestRecord]
  <2>1. PICK c \in Mine(k) :
          req' = [req EXCEPT ![r] = [Idle EXCEPT !.kind = k, !.pc = "enter", !.challenge = c, !.turn = c.turn,
                                                 !.identity = c.identity, !.image = c.image, !.answers = c.answers]]
    BY <1>2 DEF AnswerArrives
  <2> DEFINE x == [Idle EXCEPT !.kind = k, !.pc = "enter", !.challenge = c, !.turn = c.turn,
                               !.identity = c.identity, !.image = c.image, !.answers = c.answers]
  <2>2. c \in Challenge
    BY <2>1, PendingInThisTeam
  <2>3. c.turn \in 0..MaxTurns /\ c.identity \in Site /\ c.image \in Image /\ c.answers \in 0..MaxAnswers
    BY <2>2 DEF Challenge, Site
  <2>4. c \in SomeChallenge /\ c.identity \in Identities /\ c.image \in SomeImage /\ k \in RequestKind
    BY <2>2, <2>3 DEF SomeChallenge, Identities, SomeImage, RequestKind
  <2>5. x \in RequestRecord
    BY <2>3, <2>4, IdleTypes
  <2> QED BY <2>1, <2>5
<1>3. ASSUME NEW r \in Request, EnterSlot(r) PROVE req' \in [Request -> RequestRecord]
  BY <1>3 DEF EnterSlot
<1>4. ASSUME NEW r \in Request, SlotIsTaken(r) PROVE req' \in [Request -> RequestRecord]
  BY <1>4, IdleTypes DEF SlotIsTaken
<1>5. ASSUME NEW r \in Request, TakeToken(r) PROVE req' \in [Request -> RequestRecord]
  BY <1>5 DEF TakeToken
<1>6. ASSUME NEW r \in Request, TeamIsRefused(r) PROVE req' \in [Request -> RequestRecord]
  BY <1>6, IdleTypes DEF TeamIsRefused
<1>7. ASSUME NEW r \in Request, CheckChat(r) PROVE req' \in [Request -> RequestRecord]
  BY <1>7 DEF CheckChat, PendingAgain
<1>8. ASSUME NEW r \in Request, CheckFails(r) PROVE req' \in [Request -> RequestRecord]
  BY <1>8 DEF CheckFails
<1>9. ASSUME NEW r \in Request, CheckRefuses(r) PROVE req' \in [Request -> RequestRecord]
  BY <1>9 DEF CheckRefuses
<1>10. ASSUME NEW r \in Request, CheckPasses(r) PROVE req' \in [Request -> RequestRecord]
  BY <1>10 DEF CheckPasses
<1>11. ASSUME NEW r \in Request, ClaimIsRefused(r) PROVE req' \in [Request -> RequestRecord]
  BY <1>11 DEF ClaimIsRefused
<1>12. ASSUME NEW r \in Request, ClaimAccount(r) PROVE req' \in [Request -> RequestRecord]
  BY <1>12 DEF ClaimAccount, MayClaim, Consume
<1>13. ASSUME NEW r \in Request, ClaimSecret(r) PROVE req' \in [Request -> RequestRecord]
  BY <1>13 DEF ClaimSecret, MayClaim, Consume
<1>14. ASSUME NEW r \in Request, SecretIsNotStored(r) PROVE req' \in [Request -> RequestRecord]
  BY <1>14 DEF SecretIsNotStored, MayClaim
<1>15. ASSUME NEW r \in Request, ClaimAnswer(r) PROVE req' \in [Request -> RequestRecord]
  <2>1. req[r].answers \in 0..MaxAnswers /\ req[r].answers < MaxAnswers
    BY <1>15 DEF ClaimAnswer, MayClaim, Locals, Human
  <2>2. req[r].answers + 1 \in 0..MaxAnswers
    BY <2>1
  <2>3. CASE req[r].challenge.once
    <3>1. [req[r] EXCEPT !.pc = "grant", !.answers = req[r].answers] \in RequestRecord
      BY <2>1
    <3> QED BY <1>15, <2>3, <3>1 DEF ClaimAnswer
  <2>4. CASE ~req[r].challenge.once
    <3>1. [req[r] EXCEPT !.pc = "prepare", !.answers = req[r].answers + 1] \in RequestRecord
      BY <2>2
    <3>2. req' = [req EXCEPT ![r] = [req[r] EXCEPT !.pc = "prepare", !.answers = req[r].answers + 1]]
      BY <1>15, <2>4 DEF ClaimAnswer
    <3> QED BY <3>1, <3>2
  <2> QED BY <2>3, <2>4
<1>16. ASSUME NEW r \in Request, GrantOnce(r) PROVE req' \in [Request -> RequestRecord]
  BY <1>16 DEF GrantOnce, Grant
<1>17. ASSUME NEW r \in Request, GrantFails(r) PROVE req' \in [Request -> RequestRecord]
  BY <1>17 DEF GrantFails
<1>18. ASSUME NEW r \in Request, Prepare(r) PROVE req' \in [Request -> RequestRecord]
  <2>1. assistant.container \in 1..(MaxChanges + 1) /\ generation \in 1..(MaxChanges + 1) /\ assistant.image \in Image
    BY <1>18 DEF Prepare, Usable, Data, Counts
  <2>2. Identity \in Identities /\ assistant.image \in SomeImage
    BY <2>1 DEF Identity, Identities, Site, SomeImage
  <2>3. [req[r] EXCEPT !.pc = "segment", !.identity = Identity, !.image = assistant.image] \in RequestRecord
    BY <2>2
  <2> QED BY <1>18, <2>3 DEF Prepare
<1>19. ASSUME NEW r \in Request, PrepareFails(r) PROVE req' \in [Request -> RequestRecord]
  <2>1. To(r, "end") /\ [req[r] EXCEPT !.pc = "end"] \in RequestRecord
    BY <1>19 DEF PrepareFails
  <2> QED BY <2>1
<1>20. ASSUME NEW r \in Request, SegmentFails(r) PROVE req' \in [Request -> RequestRecord]
  BY <1>20 DEF SegmentFails
<1>21. ASSUME NEW r \in Request, NeedsPrivateInput(r) PROVE req' \in [Request -> RequestRecord]
  <2>1. [kind |-> IF AccountMissing THEN "account" ELSE "secret", once |-> FALSE] \in Asking
    BY DEF Asking, Kind
  <2>2. \A x \in Asking : [req[r] EXCEPT !.pc = "pause", !.asks = x] \in RequestRecord
    OBVIOUS
  <2> QED BY <1>21, <2>1, <2>2 DEF NeedsPrivateInput, InContext
<1>22. ASSUME NEW r \in Request, AdmitPower(r) PROVE req' \in [Request -> RequestRecord]
  BY <1>22 DEF AdmitPower, InContext
<1>23. ASSUME NEW r \in Request, RegisterPower(r) PROVE req' \in [Request -> RequestRecord]
  BY <1>23 DEF RegisterPower, MayRegister
<1>24. ASSUME NEW r \in Request, PowerReturns(r) PROVE req' \in [Request -> RequestRecord]
  BY <1>24 DEF PowerReturns
<1>25. ASSUME NEW r \in Request, PowerFails(r) PROVE req' \in [Request -> RequestRecord]
  BY <1>25 DEF PowerFails, FailStop
<1>26. ASSUME NEW r \in Request, Suspend(r) PROVE req' \in [Request -> RequestRecord]
  BY <1>26 DEF Suspend, Granted, NoAnswer
<1>27. ASSUME NEW r \in Request, BrainReplies(r) PROVE req' \in [Request -> RequestRecord]
  BY <1>27 DEF BrainReplies, InContext
<1>28. ASSUME NEW r \in Request, CreateChallenge(r) PROVE req' \in [Request -> RequestRecord]
  BY <1>28 DEF CreateChallenge, ChallengeOf
<1>29. ASSUME NEW r \in Request, ChallengeIsRefused(r) PROVE req' \in [Request -> RequestRecord]
  BY <1>29 DEF ChallengeIsRefused
<1>30. ASSUME NEW r \in Request, CommitPause(r) PROVE req' \in [Request -> RequestRecord]
  BY <1>30 DEF CommitPause, MayCommit, PopToken
<1>31. ASSUME NEW r \in Request, CommitReply(r) PROVE req' \in [Request -> RequestRecord]
  BY <1>31 DEF CommitReply, MayCommit, PopToken
<1>32. ASSUME NEW r \in Request, Release(r) PROVE req' \in [Request -> RequestRecord]
  BY <1>32, IdleTypes DEF Release
<1>33. CASE ~RequestStep
  BY <1>33 DEF Frames, StopMarks
<1> QED
  BY <1>1, <1>2, <1>3, <1>4, <1>5, <1>6, <1>7, <1>8, <1>9, <1>10, <1>11,
     <1>12, <1>13, <1>14, <1>15, <1>16, <1>17, <1>18, <1>19, <1>20, <1>21,
     <1>22, <1>23, <1>24, <1>25, <1>26, <1>27, <1>28, <1>29, <1>30, <1>31,
     <1>32, <1>33
  DEF RequestStep, Enter, Check, Claim, Segment, Finish

\* Turns are only counted up.
LEMMA TurnsGrow ==
  ASSUME Requests, Frames
  PROVE  turns' >= turns /\ turns' \in 0..MaxTurns
BY Bounds DEF Requests, Frames, ChatArrives

\* Every step keeps what a request relies on.
LEMMA LocalsStep ==
  ASSUME Requests, StoreTypes, Data, Counts, Locals, Stores, Frames,
         req' \in [Request -> RequestRecord], turns' >= turns, turns' \in 0..MaxTurns
  PROVE  Locals'
<1> USE Bounds DEF To, Forget, Requests, RequestRecord, Locals, Answers, Human,
                  history
<1>1. ASSUME NEW r \in Request, ChatArrives(r) PROVE Locals'
  <2>1. req'[r].turn = turns' /\ turns' >= 1 /\ req'[r].kind = "chat" /\ req'[r].pc = "enter"
    BY <1>1 DEF ChatArrives, Idle
  <2>2. \A u \in Request : u # r => req'[u] = req[u]
    BY <1>1 DEF ChatArrives
  <2>3. "chat" \notin Kind
    BY DEF Kind
  <2> QED BY <2>1, <2>2, <2>3
<1>2. ASSUME NEW r \in Request, NEW k \in Kind, AnswerArrives(r, k) PROVE Locals'
  <2>1. PICK c \in Mine(k) :
          req' = [req EXCEPT ![r] = [Idle EXCEPT !.kind = k, !.pc = "enter", !.challenge = c, !.turn = c.turn,
                                                 !.identity = c.identity, !.image = c.image, !.answers = c.answers]]
    BY <1>2 DEF AnswerArrives
  <2>2. c \in Challenge /\ c.turn \in 1..MaxTurns /\ c.turn <= turns /\ (k \in Human => c.answers < MaxAnswers)
    BY <2>1, PendingInThisTeam DEF Challenge, Stores
  <2>3. c.identity \in Site /\ c.image \in Image
    BY <2>2 DEF Challenge, Site
  <2>4. /\ req'[r].kind = k /\ req'[r].pc = "enter" /\ req'[r].challenge = c /\ req'[r].turn = c.turn
        /\ req'[r].identity = c.identity /\ req'[r].image = c.image /\ req'[r].answers = c.answers
    BY <2>1 DEF Idle
  <2>5. \A u \in Request : u # r => req'[u] = req[u]
    BY <2>1
  <2>6. k # "none"
    BY DEF Kind
  <2> QED BY <2>2, <2>3, <2>4, <2>5, <2>6
<1>3. ASSUME NEW r \in Request, EnterSlot(r) PROVE Locals'
  BY <1>3 DEF EnterSlot
<1>4. ASSUME NEW r \in Request, SlotIsTaken(r) PROVE Locals'
  BY <1>4 DEF SlotIsTaken, Idle, Kind
<1>5. ASSUME NEW r \in Request, TakeToken(r) PROVE Locals'
  BY <1>5 DEF TakeToken
<1>6. ASSUME NEW r \in Request, TeamIsRefused(r) PROVE Locals'
  BY <1>6 DEF TeamIsRefused, Idle, Kind
<1>7. ASSUME NEW r \in Request, CheckChat(r) PROVE Locals'
  BY <1>7 DEF CheckChat, PendingAgain
<1>8. ASSUME NEW r \in Request, CheckFails(r) PROVE Locals'
  BY <1>8 DEF CheckFails
<1>9. ASSUME NEW r \in Request, CheckRefuses(r) PROVE Locals'
  BY <1>9 DEF CheckRefuses
<1>10. ASSUME NEW r \in Request, CheckPasses(r) PROVE Locals'
  <2>1. req[r].kind \in Kind
    BY <1>10 DEF CheckPasses, RequestKind
  <2> QED BY <1>10, <2>1 DEF CheckPasses
<1>11. ASSUME NEW r \in Request, ClaimIsRefused(r) PROVE Locals'
  BY <1>11 DEF ClaimIsRefused
<1>12. ASSUME NEW r \in Request, ClaimAccount(r) PROVE Locals'
  BY <1>12 DEF ClaimAccount, MayClaim, Consume
<1>13. ASSUME NEW r \in Request, ClaimSecret(r) PROVE Locals'
  BY <1>13 DEF ClaimSecret, MayClaim, Consume
<1>14. ASSUME NEW r \in Request, SecretIsNotStored(r) PROVE Locals'
  BY <1>14 DEF SecretIsNotStored, MayClaim
<1>15. ASSUME NEW r \in Request, ClaimAnswer(r) PROVE Locals'
  <2>1. req[r].pc = "claim" /\ req[r].kind \in Human
    BY <1>15 DEF ClaimAnswer, MayClaim
  <2> QED BY <1>15, <2>1, AnswerMoves
<1>16. ASSUME NEW r \in Request, GrantOnce(r) PROVE Locals'
  BY <1>16 DEF GrantOnce, Grant
<1>17. ASSUME NEW r \in Request, GrantFails(r) PROVE Locals'
  BY <1>17 DEF GrantFails
<1>18. ASSUME NEW r \in Request, Prepare(r) PROVE Locals'
  <2>1. assistant.container \in 1..(MaxChanges + 1) /\ generation \in 1..(MaxChanges + 1) /\ assistant.image \in Image
    BY <1>18 DEF Prepare, Usable, Data, Counts
  <2>2. Identity \in Site
    BY <2>1 DEF Identity, Site
  <2>3. req'[r] = [req[r] EXCEPT !.pc = "segment", !.identity = Identity, !.image = assistant.image]
    BY <1>18 DEF Prepare
  <2>4. \A u \in Request : u # r => req'[u] = req[u]
    BY <1>18 DEF Prepare
  <2>5. /\ req'[r].pc = "segment" /\ req'[r].identity \in Site /\ req'[r].image \in Image
        /\ req'[r].kind = req[r].kind /\ req'[r].challenge = req[r].challenge /\ req'[r].turn = req[r].turn
    BY <2>1, <2>2, <2>3
  <2>6. req[r].pc = "prepare"
    BY <1>18 DEF Prepare
  <2> QED BY <2>4, <2>5, <2>6
<1>19. ASSUME NEW r \in Request, PrepareFails(r) PROVE Locals'
  BY <1>19 DEF PrepareFails
<1>20. ASSUME NEW r \in Request, SegmentFails(r) PROVE Locals'
  BY <1>20 DEF SegmentFails
<1>21. ASSUME NEW r \in Request, NeedsPrivateInput(r) PROVE Locals'
  <2>1. req'[r].asks.kind \in Kind \ Human /\ req'[r].pc = "pause"
    BY <1>21 DEF NeedsPrivateInput, Kind
  <2>2. /\ \A u \in Request : u # r => req'[u] = req[u]
        /\ req'[r] = [req[r] EXCEPT !.pc = "pause", !.asks = req'[r].asks]
    BY <1>21 DEF NeedsPrivateInput
  <2> QED BY <1>21, <2>1, <2>2 DEF NeedsPrivateInput, InContext
<1>22. ASSUME NEW r \in Request, AdmitPower(r) PROVE Locals'
  BY <1>22 DEF AdmitPower, InContext
<1>23. ASSUME NEW r \in Request, RegisterPower(r) PROVE Locals'
  BY <1>23 DEF RegisterPower, MayRegister
<1>24. ASSUME NEW r \in Request, PowerReturns(r) PROVE Locals'
  <2>1. CASE To(r, "segment")
    BY <1>24, <2>1 DEF PowerReturns
  <2>2. ASSUME req[r].answers < MaxAnswers, NEW k \in {"input", "approval"}, NEW once \in BOOLEAN,
               req' = [req EXCEPT ![r].pc = "suspended", ![r].asks = [kind |-> k, once |-> once]]
        PROVE  Locals'
    <3>1. /\ \A u \in Request : u # r => req'[u] = req[u]
          /\ req'[r] = [req[r] EXCEPT !.pc = "suspended", !.asks = [kind |-> k, once |-> once]]
      BY <2>2
    <3>2. req'[r].asks.kind \in Kind /\ req'[r].pc = "suspended"
      BY <3>1 DEF Kind
    <3>3. /\ req'[r].kind = req[r].kind /\ req'[r].turn = req[r].turn /\ req'[r].challenge = req[r].challenge
          /\ req'[r].identity = req[r].identity /\ req'[r].image = req[r].image
          /\ req'[r].answers = req[r].answers
      BY <3>1
    <3>4. req[r].pc = "running"
      BY <1>24 DEF PowerReturns
    <3> QED BY <2>2, <3>1, <3>2, <3>3, <3>4
  <2> QED BY <1>24, <2>1, <2>2 DEF PowerReturns
<1>25. ASSUME NEW r \in Request, PowerFails(r) PROVE Locals'
  BY <1>25 DEF PowerFails, FailStop
<1>26. ASSUME NEW r \in Request, Suspend(r) PROVE Locals'
  BY <1>26 DEF Suspend, Granted, NoAnswer
<1>27. ASSUME NEW r \in Request, BrainReplies(r) PROVE Locals'
  BY <1>27 DEF BrainReplies, InContext
<1>28. ASSUME NEW r \in Request, CreateChallenge(r) PROVE Locals'
  BY <1>28 DEF CreateChallenge, ChallengeOf
<1>29. ASSUME NEW r \in Request, ChallengeIsRefused(r) PROVE Locals'
  BY <1>29 DEF ChallengeIsRefused
<1>30. ASSUME NEW r \in Request, CommitPause(r) PROVE Locals'
  BY <1>30 DEF CommitPause, MayCommit, PopToken
<1>31. ASSUME NEW r \in Request, CommitReply(r) PROVE Locals'
  BY <1>31 DEF CommitReply, MayCommit, PopToken
<1>32. ASSUME NEW r \in Request, Release(r) PROVE Locals'
  BY <1>32 DEF Release, Idle, Kind
<1>33. CASE ~RequestStep
  BY <1>33 DEF Frames, StopMarks
<1> QED
  BY <1>1, <1>2, <1>3, <1>4, <1>5, <1>6, <1>7, <1>8, <1>9, <1>10, <1>11,
     <1>12, <1>13, <1>14, <1>15, <1>16, <1>17, <1>18, <1>19, <1>20, <1>21,
     <1>22, <1>23, <1>24, <1>25, <1>26, <1>27, <1>28, <1>29, <1>30, <1>31,
     <1>32, <1>33
  DEF RequestStep, Enter, Check, Claim, Segment, Finish

-----------------------------------------------------------------------------
(* The chat lock.                                                          *)

\* Every step keeps the token and the Power with the request that has the lock.
LEMMA LocksStep ==
  ASSUME Requests, Data, Counts, Locals, Locks, Frames, req' \in [Request -> RequestRecord]
  PROVE  Locks'
<1> USE Bounds DEF To, Forget, Requests, RequestRecord, Label, Has, Locked,
                  Locks, guard, history
<1>1. ASSUME NEW r \in Request, ChatArrives(r) PROVE Locks'
  BY <1>1 DEF ChatArrives
<1>2. ASSUME NEW r \in Request, NEW k \in Kind, AnswerArrives(r, k) PROVE Locks'
  BY <1>2 DEF AnswerArrives
<1>3. ASSUME NEW r \in Request, EnterSlot(r) PROVE Locks'
  BY <1>3 DEF EnterSlot
<1>4. ASSUME NEW r \in Request, SlotIsTaken(r) PROVE Locks'
  BY <1>4 DEF SlotIsTaken, Idle
<1>5. ASSUME NEW r \in Request, TakeToken(r) PROVE Locks'
  BY <1>5 DEF TakeToken
<1>6. ASSUME NEW r \in Request, TeamIsRefused(r) PROVE Locks'
  <2>1. slot = r /\ active = NoRequest /\ cancelled = {} /\ power = NoPower
    BY <1>6 DEF TeamIsRefused
  <2> QED BY <1>6, <2>1 DEF TeamIsRefused, Idle
<1>7. ASSUME NEW r \in Request, CheckChat(r) PROVE Locks'
  BY <1>7 DEF CheckChat, PendingAgain
<1>8. ASSUME NEW r \in Request, CheckFails(r) PROVE Locks'
  BY <1>8 DEF CheckFails
<1>9. ASSUME NEW r \in Request, CheckRefuses(r) PROVE Locks'
  BY <1>9 DEF CheckRefuses
<1>10. ASSUME NEW r \in Request, CheckPasses(r) PROVE Locks'
  BY <1>10 DEF CheckPasses
<1>11. ASSUME NEW r \in Request, ClaimIsRefused(r) PROVE Locks'
  BY <1>11 DEF ClaimIsRefused
<1>12. ASSUME NEW r \in Request, ClaimAccount(r) PROVE Locks'
  BY <1>12 DEF ClaimAccount, MayClaim, Consume
<1>13. ASSUME NEW r \in Request, ClaimSecret(r) PROVE Locks'
  BY <1>13 DEF ClaimSecret, MayClaim, Consume
<1>14. ASSUME NEW r \in Request, SecretIsNotStored(r) PROVE Locks'
  BY <1>14 DEF SecretIsNotStored, MayClaim
<1>15. ASSUME NEW r \in Request, ClaimAnswer(r) PROVE Locks'
  <2>1. req[r].pc = "claim" /\ UNCHANGED <<slot, active, cancelled, power>>
    BY <1>15 DEF ClaimAnswer, MayClaim
  <2> QED BY <1>15, <2>1, AnswerMoves
<1>16. ASSUME NEW r \in Request, GrantOnce(r) PROVE Locks'
  BY <1>16 DEF GrantOnce, Grant
<1>17. ASSUME NEW r \in Request, GrantFails(r) PROVE Locks'
  BY <1>17 DEF GrantFails
<1>18. ASSUME NEW r \in Request, Prepare(r) PROVE Locks'
  BY <1>18 DEF Prepare
<1>19. ASSUME NEW r \in Request, PrepareFails(r) PROVE Locks'
  BY <1>19 DEF PrepareFails
<1>20. ASSUME NEW r \in Request, SegmentFails(r) PROVE Locks'
  BY <1>20 DEF SegmentFails
<1>21. ASSUME NEW r \in Request, NeedsPrivateInput(r) PROVE Locks'
  BY <1>21 DEF NeedsPrivateInput, InContext
<1>22. ASSUME NEW r \in Request, AdmitPower(r) PROVE Locks'
  BY <1>22 DEF AdmitPower, InContext
<1>23. ASSUME NEW r \in Request, RegisterPower(r) PROVE Locks'
  <2>1. req[r].identity[1] \in 1..(MaxChanges + 1) /\ req[r].turn \in 1..MaxTurns
    BY <1>23 DEF RegisterPower, Locals, Site
  <2>2. slot = r
    BY <1>23 DEF RegisterPower
  <2>3. CASE MayRegister(r)
    BY <1>23, <2>1, <2>2, <2>3 DEF RegisterPower
  <2>4. CASE ~MayRegister(r)
    BY <1>23, <2>2, <2>4 DEF RegisterPower
  <2> QED BY <2>3, <2>4
<1>24. ASSUME NEW r \in Request, PowerReturns(r) PROVE Locks'
  BY <1>24 DEF PowerReturns
<1>25. ASSUME NEW r \in Request, PowerFails(r) PROVE Locks'
  BY <1>25 DEF PowerFails, FailStop
<1>26. ASSUME NEW r \in Request, Suspend(r) PROVE Locks'
  BY <1>26 DEF Suspend, Granted, NoAnswer
<1>27. ASSUME NEW r \in Request, BrainReplies(r) PROVE Locks'
  BY <1>27 DEF BrainReplies, InContext
<1>28. ASSUME NEW r \in Request, CreateChallenge(r) PROVE Locks'
  BY <1>28 DEF CreateChallenge, ChallengeOf
<1>29. ASSUME NEW r \in Request, ChallengeIsRefused(r) PROVE Locks'
  BY <1>29 DEF ChallengeIsRefused
<1>30. ASSUME NEW r \in Request, CommitPause(r) PROVE Locks'
  BY <1>30 DEF CommitPause, MayCommit, PopToken
<1>31. ASSUME NEW r \in Request, CommitReply(r) PROVE Locks'
  BY <1>31 DEF CommitReply, MayCommit, PopToken
<1>32. ASSUME NEW r \in Request, Release(r) PROVE Locks'
  BY <1>32 DEF Release, Idle
<1>33. CASE ~RequestStep
  BY <1>33 DEF Frames, StopMarks
<1> QED
  BY <1>1, <1>2, <1>3, <1>4, <1>5, <1>6, <1>7, <1>8, <1>9, <1>10, <1>11,
     <1>12, <1>13, <1>14, <1>15, <1>16, <1>17, <1>18, <1>19, <1>20, <1>21,
     <1>22, <1>23, <1>24, <1>25, <1>26, <1>27, <1>28, <1>29, <1>30, <1>31,
     <1>32, <1>33
  DEF RequestStep, Enter, Check, Claim, Segment, Finish

-----------------------------------------------------------------------------
(* The installation, the account, the secret and the approvals.            *)

\* Every step keeps their types, and the counts within their bound.
LEMMA DataStep ==
  ASSUME Requests, StoreTypes, Data, Counts, Locals, Frames
  PROVE  Data' /\ Counts'
<1> USE ChatAssumption DEF Data, Counts, Changes, guard, history
<1>1. CASE UNCHANGED <<assistant, secret, grants, generation, blocked, installed, rotation>>
  BY <1>1 DEF Frames
<1>2. ASSUME NEW r \in Request, ClaimSecret(r) PROVE Data' /\ Counts'
  <2>1. req[r].challenge \in Challenge
    BY <1>2 DEF ClaimSecret, MayClaim, Locals, Answers, Kind
  <2>2. req[r].challenge.rotation \in 0..MaxChanges
    BY <2>1 DEF Challenge
  <2> QED BY <1>2, <2>2 DEF ClaimSecret
<1>3. ASSUME NEW r \in Request, GrantOnce(r) PROVE Data' /\ Counts'
  <2>1. req[r].image \in Image /\ req[r].identity \in Site /\ req[r].answers \in 0..MaxAnswers
    BY <1>3 DEF GrantOnce, Locals, Requests, RequestRecord
  <2>2. Grant(req[r].image, req[r].answers, req[r].identity[1]) \in GrantRecord
    BY <2>1 DEF Grant, GrantRecord, Site
  <2> QED BY <1>3, <2>2 DEF GrantOnce
<1>4. ASSUME NEW c, FailStop(c), UNCHANGED <<connected, secret, grants, generation, installed, rotation>>
      PROVE  Data' /\ Counts'
  <2>1. [assistant EXCEPT !.up = FALSE] \in [container : 0..(MaxChanges + 1), image : Image, up : BOOLEAN]
        /\ [assistant EXCEPT !.up = FALSE].up = FALSE
    OBVIOUS
  <2>2. CASE UNCHANGED blocked /\ connected' = connected
    BY <1>4, <2>1, <2>2 DEF FailStop
  <2>3. CASE assistant.container = c /\ assistant.up /\ blocked' = blocked \cup {c} /\ UNCHANGED assistant
    <3>1. c \in 1..(MaxChanges + 1)
      BY <2>3
    <3>2. blocked' \subseteq 1..(MaxChanges + 1)
      BY <2>3, <3>1
    <3> QED BY <1>4, <2>3, <3>2
  <2> QED BY <1>4, <2>2, <2>3 DEF FailStop
<1>5. ASSUME NEW r \in Request, PowerFails(r) PROVE Data' /\ Counts'
  BY <1>4, <1>5 DEF PowerFails
<1>6. CASE StopKills
  <2>1. CASE FailStop(stop.container)
    BY <1>4, <1>6, <2>1 DEF StopKills
  <2>2. CASE UNCHANGED <<assistant, blocked>>
    BY <1>6, <2>2 DEF StopKills
  <2> QED BY <1>6, <2>1, <2>2 DEF StopKills
<1>7. CASE ReplaceSecret
  BY <1>7 DEF ReplaceSecret
<1>8. CASE Uninstall
  <2>1. assistant' \in [container : {0}, image : Image, up : {FALSE}]
    BY <1>8 DEF Uninstall
  <2>2. secret' \in {secret, NoSecret} /\ connected' \in BOOLEAN /\ grants' \subseteq grants
    BY <1>8 DEF Uninstall
  <2>3. Data'
    <3>1. assistant' \in [container : 0..(MaxChanges + 1), image : Image, up : BOOLEAN]
      <4>1. 0 \in 0..(MaxChanges + 1)
        BY Bounds
      <4> QED BY <2>1, <4>1
    <3>2. secret' \in {NoSecret} \cup 0..MaxChanges /\ grants' \subseteq GrantRecord
      BY <2>2
    <3> QED BY <1>8, <2>2, <3>1, <3>2 DEF Uninstall
  <2>4. Counts'
    BY <1>8, <2>1 DEF Uninstall
  <2> QED BY <2>3, <2>4
<1>9. CASE Install
  <2>1. installed' = installed + 1 /\ installed + 1 \in 1..(MaxChanges + 1)
    BY <1>9 DEF Install
  <2>2. assistant' \in [container : 1..(MaxChanges + 1), image : Image, up : {TRUE}]
    BY <1>9, <2>1 DEF Install
  <2> QED BY <1>9, <2>1, <2>2 DEF Install, GrantsAtInstall
<1>10. CASE AccountChanges
  BY <1>10 DEF AccountChanges
<1>11. CASE CredentialChanges
  BY <1>11 DEF CredentialChanges
<1> QED
  BY <1>1, <1>2, <1>3, <1>5, <1>6, <1>7, <1>8, <1>9, <1>10, <1>11 DEF Frames, Owner

-----------------------------------------------------------------------------
(* The stores of challenges.                                               *)

\* The stores count with an instance of FiniteSets of their own.
LEMMA SameCardinality == \A S : Store!Cardinality(S) = Cardinality(S)
BY DEF Store!Cardinality, Cardinality

\* A store from which challenges are taken is well formed.
LEMMA FewerStillFormed ==
  ASSUME NEW S, IsFiniteSet(S), Store!WellFormed(S), NEW R, R \subseteq S
  PROVE  IsFiniteSet(R) /\ Store!WellFormed(R)
<1>1. IsFiniteSet(R) /\ Cardinality(R) <= Cardinality(S)
  BY FS_Subset
<1>2. Cardinality(R) \in Nat /\ Cardinality(S) \in Nat
  BY <1>1, FS_CardinalityType
<1> QED BY <1>1, <1>2, Bounds, SameCardinality DEF Store!WellFormed

\* So is one that gets a challenge of a Team that has none, with a new id.
LEMMA OneMoreFormed ==
  ASSUME NEW S, IsFiniteSet(S), Store!WellFormed(S), NEW d, Cardinality(S) < Capacity,
         \A c \in S : c.team # d.team /\ c.id # d.id
  PROVE  IsFiniteSet(S \cup {d}) /\ Store!WellFormed(S \cup {d})
<1>1. IsFiniteSet(S \cup {d}) /\ Cardinality(S \cup {d}) <= Cardinality(S) + 1
  BY FS_AddElement, FS_CardinalityType
<1>2. Cardinality(S) \in Nat /\ Cardinality(S \cup {d}) \in Nat
  BY <1>1, FS_CardinalityType
<1> QED BY <1>1, <1>2, Bounds, SameCardinality DEF Store!WellFormed

\* What waits in this Team after a step.
LEMMA MineAfter ==
  ASSUME StoreTypes, NEW k \in Kind, pending'[k] \subseteq pending[k]
  PROVE  Mine(k)' \subseteq Mine(k)
BY DEF Mine, Store!Of

\* The challenge that a pause creates.
LEMMA ChallengeTypes ==
  ASSUME Requests, StoreTypes, Counts, Locals, NEW r \in Request, CreateChallenge(r)
  PROVE  /\ ChallengeOf(r) \in Challenge /\ ChallengeOf(r).id = issued + 1 /\ ChallengeOf(r).turn = req[r].turn
         /\ ChallengeOf(r).answers = req[r].answers /\ ChallengeOf(r).rotation = rotation
         /\ req[r].asks.kind \in Kind /\ req[r].turn \in 1..turns
<1>1. req[r].turn \in 1..turns /\ req[r].asks.kind \in Kind /\ req[r].identity \in Site /\ req[r].image \in Image
  BY DEF CreateChallenge, Locals, Requests, RequestRecord
<1>2. req[r].asks.once \in BOOLEAN /\ req[r].answers \in 0..MaxAnswers /\ req[r].turn \in 1..MaxTurns
  BY <1>1 DEF Requests, RequestRecord, Asking
<1>3. issued + 1 \in 1..MaxChallenges
  BY ChatAssumption DEF CreateChallenge, StoreTypes
<1> QED BY <1>1, <1>2, <1>3 DEF ChallengeOf, Challenge, Counts, Site

\* Every step keeps the stores well formed.
LEMMA PendingStep ==
  ASSUME Requests, StoreTypes, StopTypes, Counts, Locals, Stores, Frames, turns' >= turns, turns' \in 0..MaxTurns
  PROVE  StoreTypes' /\ Stores'
<1> USE Bounds
<1>1. CASE Shrinks /\ issued' = issued
  <2>1. pending' \in [Kind -> SUBSET Challenges] /\ issued' \in 0..MaxChallenges
    BY <1>1 DEF StoreTypes, Shrinks
  <2>2. Stores'
    BY <1>1, FewerStillFormed, MineAfter, PendingInThisTeam DEF Stores, StoreTypes, Challenge, Requests, Shrinks
  <2> QED BY <2>1, <2>2 DEF StoreTypes
<1>2. ASSUME NEW r \in Request, CreateChallenge(r) PROVE StoreTypes' /\ Stores'
  <2> DEFINE k == req[r].asks.kind
             d == ChallengeOf(r)
  <2>1. k \in Kind /\ d \in Challenge /\ d.id = issued + 1 /\ d.turn = req[r].turn
        /\ req[r].turn \in 1..turns /\ d.answers = req[r].answers
    BY <1>2, ChallengeTypes
  <2> HIDE DEF k, d
  <2>2. pending' = [pending EXCEPT ![k] = @ \cup {d}] /\ issued' = issued + 1 /\ issued + 1 \in 0..MaxChallenges
    BY <1>2 DEF CreateChallenge, Store!Created, k, d, StoreTypes
  <2>3. Mine(k) = {} /\ Cardinality(pending[k]) < Capacity
    BY <1>2, SameCardinality DEF CreateChallenge, Store!MayCreate, Mine, k
  <2>4. \A c \in pending[k] : c.team # d.team /\ c.id # d.id
    <3> SUFFICES ASSUME NEW c \in pending[k] PROVE c.team # d.team /\ c.id # d.id
      OBVIOUS
    <3>1. c \notin Mine(k) /\ c \in Challenges
      BY <2>1, <2>3 DEF StoreTypes
    <3>2. c.team # ThisTeam
      BY <3>1 DEF Mine, Store!Of
    <3>3. c \in OtherChallenge
      BY <3>1, <3>2 DEF Challenges, Challenge
    <3> QED BY <2>1, <3>3 DEF OtherChallenge, Challenge, StoreTypes
  <2>5. IsFiniteSet(pending'[k]) /\ Store!WellFormed(pending'[k])
    BY <2>1, <2>2, <2>3, <2>4, OneMoreFormed DEF Stores, StoreTypes
  <2>6. k \in Human => d.answers < MaxAnswers
    BY <1>2, <2>1 DEF CreateChallenge, Locals, k
  <2>7. StoreTypes'
    BY <2>1, <2>2 DEF StoreTypes, Challenges
  <2>8. \A l \in Kind : \A c \in Mine(l)' : c \in Mine(l) \/ (l = k /\ c = d)
    BY <2>1, <2>2 DEF Mine, Store!Of, StoreTypes
  <2>9. \A l \in Kind : \A c \in Mine(l) : c \in Challenge
    BY PendingInThisTeam
  <2>10. \A l \in Kind : \A c \in Mine(l)' :
            c.id <= issued' /\ c.turn <= turns' /\ (l \in Human => c.answers < MaxAnswers)
    BY <2>1, <2>2, <2>6, <2>8, <2>9 DEF Stores, Challenge, StoreTypes, Requests
  <2>11. \A l \in Kind : l # k => pending'[l] = pending[l]
    BY <2>2 DEF StoreTypes
  <2> QED BY <2>5, <2>7, <2>10, <2>11 DEF Stores
<1>3. ASSUME NEW k \in Kind, OtherPauses(k) PROVE StoreTypes' /\ Stores'
  <2> DEFINE d == [team |-> OtherTeam, id |-> 0]
  <2>1. d.team = OtherTeam /\ d.id = 0 /\ d \in OtherChallenge
    BY DEF OtherChallenge
  <2>2. pending' = [pending EXCEPT ![k] = @ \cup {d}] /\ issued' = issued
    BY <1>3 DEF OtherPauses, Store!Created
  <2> HIDE DEF d
  <2>3. Store!Of(pending[k], OtherTeam) = {} /\ Cardinality(pending[k]) < Capacity
    BY <1>3, SameCardinality DEF OtherPauses, Store!MayCreate
  <2>4. \A c \in pending[k] : c.team # d.team /\ c.id # d.id
    <3> SUFFICES ASSUME NEW c \in pending[k] PROVE c.team # d.team /\ c.id # d.id
      OBVIOUS
    <3>1. c.team # OtherTeam /\ c \in Challenges
      BY <2>3 DEF StoreTypes, Store!Of
    <3> QED BY <2>1, <3>1 DEF Challenges, Challenge, OtherChallenge
  <2>5. IsFiniteSet(pending'[k]) /\ Store!WellFormed(pending'[k])
    BY <2>2, <2>3, <2>4, OneMoreFormed DEF Stores, StoreTypes
  <2>6. StoreTypes'
    BY <2>1, <2>2 DEF StoreTypes, Challenges
  <2>7. \A l \in Kind : Mine(l)' = Mine(l)
    BY <2>1, <2>2 DEF Mine, Store!Of, StoreTypes
  <2>8. \A l \in Kind : l # k => pending'[l] = pending[l]
    BY <2>2 DEF StoreTypes
  <2>9. \A l \in Kind : \A c \in Mine(l) : c \in Challenge
    BY PendingInThisTeam
  <2>10. \A l \in Kind : \A c \in Mine(l)' :
            c.id <= issued' /\ c.turn <= turns' /\ (l \in Human => c.answers < MaxAnswers)
    BY <2>2, <2>7, <2>9 DEF Stores, Challenge, Requests
  <2> QED BY <2>5, <2>6, <2>8, <2>10 DEF Stores
<1> QED BY <1>1, <1>2, <1>3 DEF Frames

-----------------------------------------------------------------------------
(* The request to stop.                                                    *)

\* What it is before it begins.
LEMMA NoStopTypes == NoStop \in StopRecord /\ NoStop.covers = {}
<1>1. << >> \in Seq(Kind)
  OBVIOUS
<1> QED BY <1>1, ChatAssumption DEF NoStop, StopRecord

\* The stores it empties.
LEMMA StopOrderTypes == StopOrder \in Seq(Kind)
BY DEF StopOrder, Kind

\* Every step keeps its type, and what it covers among the turns.
LEMMA StopStep ==
  ASSUME Requests, StoreTypes, StopTypes, Locals, Locks, Stores, Frames, turns' >= turns, turns' \in 0..MaxTurns
  PROVE  StopTypes'
<1> USE ChatAssumption DEF StopTypes, Requests, history
<1>0. stop.covers' \in SUBSET (1..MaxTurns) /\ UNCHANGED stopped => stopped' \subseteq 1..turns'
  OBVIOUS
<1>1. CASE UNCHANGED <<stop, stopped>>
  BY <1>1
<1>2. CASE StopArrives
  <2>1. stop' = [NoStop EXCEPT !.pc = "stores", !.todo = StopOrder]
    BY <1>2 DEF StopArrives
  <2>2. stop' \in StopRecord /\ stop'.covers = {}
    BY <2>1, NoStopTypes, StopOrderTypes DEF StopRecord
  <2> QED BY <1>2, <2>2 DEF StopArrives
<1>3. CASE StopCancels
  <2>1. Head(stop.todo) \in Kind /\ Tail(stop.todo) \in Seq(Kind)
    BY <1>3 DEF StopCancels, StopRecord
  <2>2. \A c \in Mine(Head(stop.todo)) : c.turn \in 1..turns
    BY <2>1, PendingInThisTeam DEF Stores, Challenge
  <2>3. stop' = [stop EXCEPT !.todo = Tail(@), !.covers = @ \cup {c.turn : c \in Mine(Head(stop.todo))}]
    BY <1>3 DEF StopCancels
  <2>4. stop'.covers = stop.covers \cup {c.turn : c \in Mine(Head(stop.todo))}
    BY <2>3 DEF StopRecord
  <2>5. stop'.covers \subseteq 1..turns
    BY <2>2, <2>4
  <2>6. stop'.covers \in SUBSET (1..MaxTurns)
    BY <2>5
  <2>7. stop' \in StopRecord
    BY <2>1, <2>3, <2>4, <2>6 DEF StopRecord
  <2> QED BY <1>3, <2>5, <2>7 DEF StopCancels
<1>4. CASE StopMarks
  <2>1. active \in Request \cup {NoRequest}
    BY DEF Locks
  <2>2. active # NoRequest => req[active].turn \in 1..turns
    BY <2>1 DEF Locks, Locals, Has, Locked, Label, RequestRecord
  <2>3. TurnOf(active) \subseteq 1..turns
    BY <2>2 DEF TurnOf
  <2>4. stop' \in StopRecord /\ stop'.covers \subseteq stop.covers
    <3>1. CASE active = NoRequest
      BY <1>4, <3>1, NoStopTypes DEF StopMarks
    <3>2. CASE active # NoRequest
      <4>1. stop' = [stop EXCEPT !.pc = "power", !.token = active]
        BY <1>4, <3>2 DEF StopMarks
      <4> QED BY <4>1, <2>1 DEF StopRecord
    <3> QED BY <3>1, <3>2
  <2>5. stopped' \subseteq 1..turns
    BY <1>4, <2>3 DEF StopMarks
  <2> QED BY <2>4, <2>5
<1>5. CASE StopIsRefused
  BY <1>5, NoStopTypes DEF StopIsRefused
<1>6. CASE StopFindsPower
  <2>1. power # NoPower => power.container \in 0..(MaxChanges + 1)
    <3>1. power # NoPower => power.container \in 1..(MaxChanges + 1)
      BY DEF Locks
    <3> QED BY <3>1
  <2>2. CASE power # NoPower /\ power.token = stop.token
    <3>1. stop' = [stop EXCEPT !.pc = "kill", !.container = power.container]
      BY <1>6, <2>2 DEF StopFindsPower
    <3>2. stop' \in StopRecord /\ stop'.covers = stop.covers
      BY <3>1, <2>1, <2>2 DEF StopRecord
    <3> QED BY <1>6, <3>2 DEF StopFindsPower
  <2>3. CASE ~(power # NoPower /\ power.token = stop.token)
    BY <1>6, <2>3, NoStopTypes DEF StopFindsPower
  <2> QED BY <2>2, <2>3
<1>7. CASE StopKills
  BY <1>7, NoStopTypes DEF StopKills
<1> QED BY <1>1, <1>2, <1>3, <1>4, <1>5, <1>6, <1>7 DEF Frames, Stop

-----------------------------------------------------------------------------
(* What waits, the secret and the approvals.                               *)

\* What a step of the data leaves alone.
LEMMA DataFrames ==
  ASSUME Data, Frames
  PROVE  /\ UNCHANGED rotation \/ ReplaceSecret
         /\ secret' \in {secret, NoSecret} \/ (\E r \in Request : ClaimSecret(r)) \/ ReplaceSecret
         /\ assistant'.container = assistant.container \/ Uninstall \/ Install
         /\ UNCHANGED grants \/ (\E r \in Request : GrantOnce(r)) \/ Uninstall \/ Install
<1> DEFINE Goal == /\ UNCHANGED rotation \/ ReplaceSecret
                   /\ secret' \in {secret, NoSecret} \/ (\E r \in Request : ClaimSecret(r)) \/ ReplaceSecret
                   /\ assistant'.container = assistant.container \/ Uninstall \/ Install
                   /\ UNCHANGED grants \/ (\E r \in Request : GrantOnce(r)) \/ Uninstall \/ Install
<1> USE DEF guard, history, Data
<1>1. CASE UNCHANGED <<assistant, secret, grants, generation, blocked, installed, rotation>>
  BY <1>1
<1>2. ASSUME NEW r \in Request, ClaimSecret(r) PROVE Goal
  BY <1>2 DEF ClaimSecret
<1>3. ASSUME NEW r \in Request, GrantOnce(r) PROVE Goal
  BY <1>3 DEF GrantOnce
<1>4. ASSUME NEW c, FailStop(c) PROVE assistant'.container = assistant.container
  BY <1>4 DEF FailStop
<1>5. ASSUME NEW r \in Request, PowerFails(r) PROVE Goal
  BY <1>4, <1>5 DEF PowerFails
<1>6. CASE StopKills
  BY <1>4, <1>6 DEF StopKills
<1>7. CASE Owner
  BY <1>7 DEF Owner, ReplaceSecret, Uninstall, Install, AccountChanges, CredentialChanges
<1> QED BY <1>1, <1>2, <1>3, <1>5, <1>6, <1>7 DEF Frames

\* Only a pause makes the Team wait.
LEMMA MineFrames ==
  ASSUME StoreTypes, Frames
  PROVE  (\A k \in Kind : Mine(k)' \subseteq Mine(k)) \/ \E r \in Request : CreateChallenge(r)
<1>1. CASE Shrinks
  BY <1>1, MineAfter DEF Shrinks
<1>2. ASSUME NEW k \in Kind, OtherPauses(k), NEW l \in Kind
      PROVE  Mine(l)' \subseteq Mine(l)
  BY <1>2, Bounds DEF OtherPauses, Store!Created, Mine, Store!Of, StoreTypes
<1> QED BY <1>1, <1>2 DEF Frames

\* The one challenge of the Team is consumed.
LEMMA Consumed ==
  ASSUME StoreTypes, Stores, OnePending, Locals, NEW r \in Request, MayClaim(r), Consume(r)
  PROVE  NonePending'
<1> DEFINE k == req[r].kind
           d == req[r].challenge
<1>1. k \in Kind /\ d \in pending[k] /\ d \in Challenge
  BY DEF MayClaim, Store!Available, Locals, Answers
<1>2. d \in Mine(k)
  BY <1>1 DEF Mine, Store!Of, Challenge
<1>3. pending' = [pending EXCEPT ![k] = @ \ {d}]
  BY DEF Consume, Store!Claimed
<1> HIDE DEF k, d
<1>4. \A l \in Kind : l # k => Mine(l)' = {}
  BY <1>1, <1>2, <1>3 DEF OnePending, Mine, Store!Of, StoreTypes
<1>5. \A c \in Mine(k) : c = d
  BY <1>1, <1>2 DEF Mine, Store!Of, Stores, Store!WellFormed
<1>6. \A l \in Kind : l = k => Mine(l)' = {}
  BY <1>3, <1>5 DEF Mine, Store!Of, StoreTypes
<1> QED BY <1>4, <1>6 DEF NonePending

\* A turn begins or goes on to work when nothing waits.
StartsAlone ==
  \A u \in Request :
     req'[u].pc \in Working => req[u].pc \in Working \/ NonePending'

\* A turn begins or goes on to work when nothing waits.
LEMMA WorkingStep ==
  ASSUME Requests, StoreTypes, Locals, Stores, Waiting, Frames
  PROVE  StartsAlone
<1> USE Bounds DEF StartsAlone, To, Forget, Requests, RequestRecord, Working, Waiting, guard,
                  history
<1>1. ASSUME NEW r \in Request, ChatArrives(r) PROVE StartsAlone
  BY <1>1 DEF ChatArrives, Idle
<1>2. ASSUME NEW r \in Request, NEW k \in Kind, AnswerArrives(r, k) PROVE StartsAlone
  BY <1>2 DEF AnswerArrives, Idle
<1>3. ASSUME NEW r \in Request, EnterSlot(r) PROVE StartsAlone
  BY <1>3 DEF EnterSlot
<1>4. ASSUME NEW r \in Request, SlotIsTaken(r) PROVE StartsAlone
  BY <1>4 DEF SlotIsTaken, Idle
<1>5. ASSUME NEW r \in Request, TakeToken(r) PROVE StartsAlone
  BY <1>5 DEF TakeToken
<1>6. ASSUME NEW r \in Request, TeamIsRefused(r) PROVE StartsAlone
  BY <1>6 DEF TeamIsRefused, Idle
<1>7. ASSUME NEW r \in Request, CheckChat(r) PROVE StartsAlone
  BY <1>7 DEF CheckChat, PendingAgain, NonePending, Mine
<1>8. ASSUME NEW r \in Request, CheckFails(r) PROVE StartsAlone
  BY <1>8 DEF CheckFails
<1>9. ASSUME NEW r \in Request, CheckRefuses(r) PROVE StartsAlone
  BY <1>9 DEF CheckRefuses
<1>10. ASSUME NEW r \in Request, CheckPasses(r) PROVE StartsAlone
  BY <1>10 DEF CheckPasses
<1>11. ASSUME NEW r \in Request, ClaimIsRefused(r) PROVE StartsAlone
  BY <1>11 DEF ClaimIsRefused
<1>12. ASSUME NEW r \in Request, ClaimAccount(r) PROVE StartsAlone
  BY <1>12, Consumed DEF ClaimAccount
<1>13. ASSUME NEW r \in Request, ClaimSecret(r) PROVE StartsAlone
  BY <1>13, Consumed DEF ClaimSecret
<1>14. ASSUME NEW r \in Request, SecretIsNotStored(r) PROVE StartsAlone
  BY <1>14 DEF SecretIsNotStored, MayClaim
<1>15. ASSUME NEW r \in Request, ClaimAnswer(r) PROVE StartsAlone
  BY <1>15, Consumed DEF ClaimAnswer
<1>16. ASSUME NEW r \in Request, GrantOnce(r) PROVE StartsAlone
  BY <1>16 DEF GrantOnce, Grant
<1>17. ASSUME NEW r \in Request, GrantFails(r) PROVE StartsAlone
  BY <1>17 DEF GrantFails
<1>18. ASSUME NEW r \in Request, Prepare(r) PROVE StartsAlone
  BY <1>18 DEF Prepare
<1>19. ASSUME NEW r \in Request, PrepareFails(r) PROVE StartsAlone
  BY <1>19 DEF PrepareFails
<1>20. ASSUME NEW r \in Request, SegmentFails(r) PROVE StartsAlone
  BY <1>20 DEF SegmentFails
<1>21. ASSUME NEW r \in Request, NeedsPrivateInput(r) PROVE StartsAlone
  BY <1>21 DEF NeedsPrivateInput, InContext
<1>22. ASSUME NEW r \in Request, AdmitPower(r) PROVE StartsAlone
  BY <1>22 DEF AdmitPower, InContext
<1>23. ASSUME NEW r \in Request, RegisterPower(r) PROVE StartsAlone
  BY <1>23 DEF RegisterPower, MayRegister
<1>24. ASSUME NEW r \in Request, PowerReturns(r) PROVE StartsAlone
  BY <1>24 DEF PowerReturns
<1>25. ASSUME NEW r \in Request, PowerFails(r) PROVE StartsAlone
  BY <1>25 DEF PowerFails, FailStop
<1>26. ASSUME NEW r \in Request, Suspend(r) PROVE StartsAlone
  BY <1>26 DEF Suspend, Granted, NoAnswer
<1>27. ASSUME NEW r \in Request, BrainReplies(r) PROVE StartsAlone
  BY <1>27 DEF BrainReplies, InContext
<1>28. ASSUME NEW r \in Request, CreateChallenge(r) PROVE StartsAlone
  BY <1>28 DEF CreateChallenge, ChallengeOf
<1>29. ASSUME NEW r \in Request, ChallengeIsRefused(r) PROVE StartsAlone
  BY <1>29 DEF ChallengeIsRefused
<1>30. ASSUME NEW r \in Request, CommitPause(r) PROVE StartsAlone
  BY <1>30 DEF CommitPause, MayCommit, PopToken
<1>31. ASSUME NEW r \in Request, CommitReply(r) PROVE StartsAlone
  BY <1>31 DEF CommitReply, MayCommit, PopToken
<1>32. ASSUME NEW r \in Request, Release(r) PROVE StartsAlone
  BY <1>32 DEF Release, Idle
<1>33. CASE ~RequestStep
  BY <1>33 DEF Frames, StopMarks
<1> QED
  BY <1>1, <1>2, <1>3, <1>4, <1>5, <1>6, <1>7, <1>8, <1>9, <1>10, <1>11,
     <1>12, <1>13, <1>14, <1>15, <1>16, <1>17, <1>18, <1>19, <1>20, <1>21,
     <1>22, <1>23, <1>24, <1>25, <1>26, <1>27, <1>28, <1>29, <1>30, <1>31,
     <1>32, <1>33
  DEF RequestStep, Enter, Check, Claim, Segment, Finish

\* Every step keeps to one challenge, and to none while a turn works.
LEMMA WaitingStep ==
  ASSUME Requests, StoreTypes, Counts, Locals, Locks, Stores, Waiting, Frames
  PROVE  Waiting'
<1>1. CASE \A k \in Kind : Mine(k)' \subseteq Mine(k)
  <2>1. OnePending'
    BY <1>1 DEF Waiting, OnePending
  <2>2. NonePending => NonePending'
    BY <1>1 DEF NonePending
  <2> QED BY <2>1, <2>2, WorkingStep DEF Waiting, StartsAlone
<1>2. ASSUME NEW r \in Request, CreateChallenge(r) PROVE Waiting'
  <2>1. NonePending /\ slot = r
    BY <1>2 DEF CreateChallenge, Waiting, Working, Locks, Has, Locked, Label
  <2>2. \A u \in Request : req'[u].pc \notin Working
    BY <1>2, <2>1 DEF CreateChallenge, To, Locks, Has, Locked, Working, Requests, RequestRecord, Label
  <2>3. \A l \in Kind : l # req[r].asks.kind => Mine(l)' = {}
    BY <1>2, <2>1, ChallengeTypes DEF CreateChallenge, Store!Created, StoreTypes, NonePending, Mine, Store!Of
  <2> QED BY <2>2, <2>3 DEF Waiting, OnePending
<1> QED BY <1>1, <1>2, MineFrames

\* Every step keeps the secret, and what waits for one, to the last rotation.
LEMMA RotationsStep ==
  ASSUME Requests, StoreTypes, Data, Counts, Locals, Rotations, Frames
  PROVE  Rotations'
<1>1. CASE ReplaceSecret
  <2>1. Mine("secret")' = {}
    BY <1>1 DEF ReplaceSecret, CancelledByRotation, WithoutMine, Mine, Store!Of, Store!Cancelled, Kind
  <2> QED BY <1>1, <2>1 DEF ReplaceSecret, Rotations, RotationSurvives
<1>2. CASE UNCHANGED rotation /\ ~ReplaceSecret
  <2>1. \A c \in Mine("secret")' : c.rotation = rotation'
    <3>1. CASE \A k \in Kind : Mine(k)' \subseteq Mine(k)
      BY <1>2, <3>1 DEF Rotations, Kind
    <3>2. ASSUME NEW r \in Request, CreateChallenge(r) PROVE \A c \in Mine("secret")' : c.rotation = rotation'
      BY <1>2, <3>2, ChallengeTypes
         DEF CreateChallenge, Store!Created, StoreTypes, Mine, Store!Of, Rotations, Kind
    <3> QED BY <3>1, <3>2, MineFrames
  <2>2. RotationSurvives'
    <3>1. CASE secret' \in {secret, NoSecret}
      BY <1>2, <3>1 DEF Rotations, RotationSurvives
    <3>2. ASSUME NEW r \in Request, ClaimSecret(r) PROVE RotationSurvives'
      <4>1. req[r].challenge \in pending["secret"] /\ req[r].challenge \in Challenge
        BY <3>2 DEF ClaimSecret, MayClaim, Store!Available, Locals, Answers, Kind
      <4>2. req[r].challenge.rotation = rotation
        BY <4>1 DEF Rotations, Mine, Store!Of, Challenge
      <4> QED BY <1>2, <3>2, <4>2 DEF ClaimSecret, RotationSurvives
    <3> QED BY <1>2, <3>1, <3>2, DataFrames
  <2> QED BY <2>1, <2>2 DEF Rotations
<1> QED BY <1>1, <1>2, DataFrames

\* A request that may grant has compared its installation.
ComparedNow ==
  \A u \in Request : req'[u].pc \in {"claim", "grant"} =>
     assistant.container # 0 /\ req'[u].identity[1] = assistant.container

\* A request that may grant has compared its installation.
LEMMA GrantingStep ==
  ASSUME Requests, Installs, Frames
  PROVE  ComparedNow
<1> USE Bounds DEF ComparedNow, To, Forget, Requests, RequestRecord, Installs
<1>1. ASSUME NEW r \in Request, ChatArrives(r) PROVE ComparedNow
  BY <1>1 DEF ChatArrives, Idle
<1>2. ASSUME NEW r \in Request, NEW k \in Kind, AnswerArrives(r, k) PROVE ComparedNow
  BY <1>2 DEF AnswerArrives, Idle
<1>3. ASSUME NEW r \in Request, EnterSlot(r) PROVE ComparedNow
  BY <1>3 DEF EnterSlot
<1>4. ASSUME NEW r \in Request, SlotIsTaken(r) PROVE ComparedNow
  BY <1>4 DEF SlotIsTaken, Idle
<1>5. ASSUME NEW r \in Request, TakeToken(r) PROVE ComparedNow
  BY <1>5 DEF TakeToken
<1>6. ASSUME NEW r \in Request, TeamIsRefused(r) PROVE ComparedNow
  BY <1>6 DEF TeamIsRefused, Idle
<1>7. ASSUME NEW r \in Request, CheckChat(r) PROVE ComparedNow
  BY <1>7 DEF CheckChat, PendingAgain
<1>8. ASSUME NEW r \in Request, CheckFails(r) PROVE ComparedNow
  BY <1>8 DEF CheckFails
<1>9. ASSUME NEW r \in Request, CheckRefuses(r) PROVE ComparedNow
  BY <1>9 DEF CheckRefuses
<1>10. ASSUME NEW r \in Request, CheckPasses(r) PROVE ComparedNow
  BY <1>10 DEF CheckPasses, Usable, Identity
<1>11. ASSUME NEW r \in Request, ClaimIsRefused(r) PROVE ComparedNow
  BY <1>11 DEF ClaimIsRefused
<1>12. ASSUME NEW r \in Request, ClaimAccount(r) PROVE ComparedNow
  BY <1>12 DEF ClaimAccount, MayClaim, Consume
<1>13. ASSUME NEW r \in Request, ClaimSecret(r) PROVE ComparedNow
  BY <1>13 DEF ClaimSecret, MayClaim, Consume
<1>14. ASSUME NEW r \in Request, SecretIsNotStored(r) PROVE ComparedNow
  BY <1>14 DEF SecretIsNotStored, MayClaim
<1>15. ASSUME NEW r \in Request, ClaimAnswer(r) PROVE ComparedNow
  BY <1>15 DEF ClaimAnswer, MayClaim, Consume
<1>16. ASSUME NEW r \in Request, GrantOnce(r) PROVE ComparedNow
  BY <1>16 DEF GrantOnce, Grant
<1>17. ASSUME NEW r \in Request, GrantFails(r) PROVE ComparedNow
  BY <1>17 DEF GrantFails
<1>18. ASSUME NEW r \in Request, Prepare(r) PROVE ComparedNow
  BY <1>18 DEF Prepare
<1>19. ASSUME NEW r \in Request, PrepareFails(r) PROVE ComparedNow
  BY <1>19 DEF PrepareFails
<1>20. ASSUME NEW r \in Request, SegmentFails(r) PROVE ComparedNow
  BY <1>20 DEF SegmentFails
<1>21. ASSUME NEW r \in Request, NeedsPrivateInput(r) PROVE ComparedNow
  BY <1>21 DEF NeedsPrivateInput, InContext
<1>22. ASSUME NEW r \in Request, AdmitPower(r) PROVE ComparedNow
  BY <1>22 DEF AdmitPower, InContext
<1>23. ASSUME NEW r \in Request, RegisterPower(r) PROVE ComparedNow
  BY <1>23 DEF RegisterPower, MayRegister
<1>24. ASSUME NEW r \in Request, PowerReturns(r) PROVE ComparedNow
  BY <1>24 DEF PowerReturns
<1>25. ASSUME NEW r \in Request, PowerFails(r) PROVE ComparedNow
  BY <1>25 DEF PowerFails, FailStop
<1>26. ASSUME NEW r \in Request, Suspend(r) PROVE ComparedNow
  BY <1>26 DEF Suspend, Granted, NoAnswer
<1>27. ASSUME NEW r \in Request, BrainReplies(r) PROVE ComparedNow
  BY <1>27 DEF BrainReplies, InContext
<1>28. ASSUME NEW r \in Request, CreateChallenge(r) PROVE ComparedNow
  BY <1>28 DEF CreateChallenge, ChallengeOf
<1>29. ASSUME NEW r \in Request, ChallengeIsRefused(r) PROVE ComparedNow
  BY <1>29 DEF ChallengeIsRefused
<1>30. ASSUME NEW r \in Request, CommitPause(r) PROVE ComparedNow
  BY <1>30 DEF CommitPause, MayCommit, PopToken
<1>31. ASSUME NEW r \in Request, CommitReply(r) PROVE ComparedNow
  BY <1>31 DEF CommitReply, MayCommit, PopToken
<1>32. ASSUME NEW r \in Request, Release(r) PROVE ComparedNow
  BY <1>32 DEF Release, Idle
<1>33. CASE ~RequestStep
  BY <1>33 DEF Frames, StopMarks
<1> QED
  BY <1>1, <1>2, <1>3, <1>4, <1>5, <1>6, <1>7, <1>8, <1>9, <1>10, <1>11,
     <1>12, <1>13, <1>14, <1>15, <1>16, <1>17, <1>18, <1>19, <1>20, <1>21,
     <1>22, <1>23, <1>24, <1>25, <1>26, <1>27, <1>28, <1>29, <1>30, <1>31,
     <1>32, <1>33
  DEF RequestStep, Enter, Check, Claim, Segment, Finish

\* Every step keeps the approvals to the installation that is there.
LEMMA InstallsStep ==
  ASSUME Requests, Data, Counts, Locals, Locks, Installs, Frames
  PROVE  Installs'
<1>1. CASE assistant'.container = assistant.container
  <2>1. GrantedForThisInstallation'
    <3>1. CASE UNCHANGED grants
      BY <1>1, <3>1 DEF Installs, GrantedForThisInstallation
    <3>2. ASSUME NEW r \in Request, GrantOnce(r) PROVE GrantedForThisInstallation'
      BY <1>1, <3>2 DEF GrantOnce, Grant, Installs, GrantedForThisInstallation
    <3>3. CASE Uninstall \/ Install
      BY <3>3 DEF Uninstall, Install, GrantsAtInstall, GrantedForThisInstallation, Data
    <3> QED BY <3>1, <3>2, <3>3, DataFrames
  <2> QED BY <1>1, <2>1, GrantingStep DEF Installs, ComparedNow
<1>2. CASE Uninstall \/ Install
  <2>1. GrantedForThisInstallation'
    BY <1>2 DEF Uninstall, Install, GrantsAtInstall, GrantedForThisInstallation, Data
  <2>2. \A r \in Request : req'[r].pc \notin {"claim", "grant"}
    BY <1>2, Bounds DEF Uninstall, Install, Locks, Has, Locked, Label
  <2> QED BY <2>1, <2>2 DEF Installs
<1> QED BY <1>1, <1>2, DataFrames

-----------------------------------------------------------------------------
(* What a request knows of its turn.                                       *)

\* The turn of a message that begins is new.
Begins(u) == /\ req'[u].turn = turns + 1 /\ UNCHANGED <<pending, stop, stopped>>
             /\ \A v \in Request : v # u => req'[v] = req[v]

\* How a step moves the requests: which are new, what their turns are, which
\* can act for them, and that a marked pause is taken back.
Moves ==
  /\ \A u \in Request : New(u)' =>
       \/ Begins(u)
       \/ New(u) /\ req'[u].turn = req[u].turn /\ (req'[u].pc = "enter" => req[u].pc = "enter")
  /\ \A u \in Request :
       \/ Begins(u) \/ req'[u].turn \in {req[u].turn, 0}
       \/ \E k \in Kind : \E c \in Mine(k) : req'[u].turn = c.turn
  /\ \A u \in Request : Has(u)' /\ Alive(u)' =>
       /\ req'[u].turn = req[u].turn
       /\ \/ Has(u) /\ Alive(u) /\ (u \in cancelled => u \in cancelled')
          \/ req[u].pc = "enter" /\ slot = NoRequest
              /\ (New(u) \/ (Answers(u) /\ req[u].challenge \in Mine(req[u].kind)))
  /\ \A u \in cancelled : req[u].pc = "commit" =>
       \/ u \in cancelled' /\ req'[u] = req[u]
       \/ \A k \in Kind : k = req[u].asks.kind => Mine(k)' = {}

\* A challenge that may be claimed is there.
LEMMA ClaimedWasPending ==
  ASSUME Locals, NEW r \in Request, MayClaim(r)
  PROVE  Answers(r) /\ req[r].challenge \in Mine(req[r].kind)
BY DEF MayClaim, Locals, Store!Available, Mine, Store!Of, Challenge

\* Every step moves the requests so.
LEMMA MovesStep ==
  ASSUME Requests, StoreTypes, Locals, Locks, Locks', Frames
  PROVE  Moves
<1> USE Bounds DEF To, Forget, Requests, RequestRecord, Moves, Begins, New, Has,
                  Locked, Alive, Answers, Working, Locks, guard, history
<1>1. ASSUME NEW r \in Request, ChatArrives(r) PROVE Moves
  <2>1. \A k \in Kind : Mine(k)' = Mine(k)
    BY <1>1 DEF ChatArrives, Mine, Store!Of
  <2>2. /\ \A u \in Request : u # r => req'[u] = req[u]
        /\ req'[r].pc = "enter" /\ req[r].pc = "idle" /\ UNCHANGED <<slot, cancelled>>
    BY <1>1 DEF ChatArrives, Idle
  <2>3. \A u \in Request : u # r => (Alive(u)' => Alive(u)) /\ (New(u)' => New(u)) /\ (Has(u)' => Has(u))
    BY <2>1, <2>2
  <2>4. ~Has(r)'
    BY <2>2
  <2>5. Begins(r)
    BY <1>1, <2>2 DEF ChatArrives, Idle, stopVars
  <2> HIDE DEF Alive, Has, New, Begins
  <2> QED BY <2>2, <2>3, <2>4, <2>5
<1>2. ASSUME NEW r \in Request, NEW k \in Kind, AnswerArrives(r, k) PROVE Moves
  <2>1. PICK c \in Mine(k) :
          req' = [req EXCEPT ![r] = [Idle EXCEPT !.kind = k, !.pc = "enter", !.challenge = c, !.turn = c.turn,
                                                 !.identity = c.identity, !.image = c.image, !.answers = c.answers]]
    BY <1>2 DEF AnswerArrives
  <2>2. /\ \A u \in Request : u # r => req'[u] = req[u]
        /\ req'[r].pc = "enter" /\ req'[r].kind = k /\ req'[r].turn = c.turn
    BY <2>1 DEF Idle
  <2>3. k # "chat"
    BY DEF Kind
  <2>4. UNCHANGED <<pending, slot, cancelled>>
    BY <1>2 DEF AnswerArrives
  <2>7. req[r].pc = "idle"
    BY <1>2 DEF AnswerArrives
  <2>5. \A u \in Request : u # r => (Alive(u)' => Alive(u)) /\ (New(u)' => New(u)) /\ (Has(u)' => Has(u))
    BY <2>2, <2>4 DEF Mine, Store!Of
  <2>6. ~Has(r)' /\ ~New(r)'
    BY <2>2, <2>3
  <2> HIDE DEF Alive, Has, New, Begins
  <2> QED BY <2>1, <2>2, <2>4, <2>5, <2>6, <2>7
<1>3. ASSUME NEW r \in Request, EnterSlot(r) PROVE Moves
  <2>1. UNCHANGED pending
    BY <1>3 DEF EnterSlot
  <2>2. /\ \A u \in Request : u # r => req'[u] = req[u]
        /\ req'[r] = [req[r] EXCEPT !.pc = "begin"] /\ req[r].pc = "enter"
        /\ slot' = r /\ slot = NoRequest /\ UNCHANGED cancelled
    BY <1>3 DEF EnterSlot
  <2>3. \A u \in Request : u # r => ~Has(u)'
    BY <2>2
  <2>4. /\ req'[r].kind = req[r].kind /\ req'[r].turn = req[r].turn /\ req'[r].challenge = req[r].challenge
        /\ req'[r].pc = "begin"
    BY <2>2
  <2>5. Alive(r)' => New(r) \/ (Answers(r) /\ req[r].challenge \in Mine(req[r].kind))
    <3>1. New(r)' => New(r)
      BY <2>2, <2>4
    <3>2. Answers(r)' => Answers(r)
      BY <2>4
    <3>3. (req[r].challenge \in Mine(req[r].kind))' => req[r].challenge \in Mine(req[r].kind)
      BY <2>1, <2>4 DEF Mine, Store!Of
    <3>4. req'[r].pc \notin Working
      BY <2>4
    <3>5. Alive(r)' => New(r)' \/ (Answers(r)' /\ (req[r].challenge \in Mine(req[r].kind))')
      <4> HIDE DEF New, Answers, Working, Locks, Requests, Moves
      <4> QED BY <3>4
    <3> HIDE DEF Alive, New, Answers
    <3> QED BY <3>1, <3>2, <3>3, <3>5
  <2>6. cancelled = {}
    BY <2>2
  <2> QED BY <1>3, <2>2, <2>3, <2>4, <2>5, <2>6
<1>4. ASSUME NEW r \in Request, SlotIsTaken(r) PROVE Moves
  BY <1>4 DEF SlotIsTaken, Forget, Idle, Mine, Store!Of
<1>5. ASSUME NEW r \in Request, TakeToken(r) PROVE Moves
  BY <1>5 DEF TakeToken, Mine, Store!Of
<1>6. ASSUME NEW r \in Request, TeamIsRefused(r) PROVE Moves
  BY <1>6 DEF TeamIsRefused, Forget, Idle, Mine, Store!Of
<1>7. ASSUME NEW r \in Request, CheckChat(r) PROVE Moves
  BY <1>7 DEF CheckChat, PendingAgain
<1>8. ASSUME NEW r \in Request, CheckFails(r) PROVE Moves
  BY <1>8 DEF CheckFails
<1>9. ASSUME NEW r \in Request, CheckRefuses(r) PROVE Moves
  BY <1>9 DEF CheckRefuses
<1>10. ASSUME NEW r \in Request, CheckPasses(r) PROVE Moves
  BY <1>10 DEF CheckPasses, Mine, Store!Of
<1>11. ASSUME NEW r \in Request, ClaimIsRefused(r) PROVE Moves
  BY <1>11 DEF ClaimIsRefused
<1>12. ASSUME NEW r \in Request, ClaimAccount(r) PROVE Moves
  <2>1. Answers(r) /\ req[r].challenge \in Mine(req[r].kind) /\ req[r].pc = "claim"
    BY <1>12, ClaimedWasPending DEF ClaimAccount, MayClaim
  <2>2. req'[r].turn = req[r].turn /\ req'[r].pc \in {"prepare", "grant"} /\ req'[r].kind = req[r].kind
    BY <1>12 DEF ClaimAccount
  <2>3. /\ \A u \in Request : u # r => req'[u] = req[u]
        /\ slot = r /\ slot' = r /\ UNCHANGED cancelled
    BY <1>12, <2>1 DEF ClaimAccount
  <2> HIDE DEF Answers
  <2> QED BY <2>1, <2>2, <2>3
<1>13. ASSUME NEW r \in Request, ClaimSecret(r) PROVE Moves
  <2>1. Answers(r) /\ req[r].challenge \in Mine(req[r].kind) /\ req[r].pc = "claim"
    BY <1>13, ClaimedWasPending DEF ClaimSecret, MayClaim
  <2>2. req'[r].turn = req[r].turn /\ req'[r].pc \in {"prepare", "grant"} /\ req'[r].kind = req[r].kind
    BY <1>13 DEF ClaimSecret
  <2>3. /\ \A u \in Request : u # r => req'[u] = req[u]
        /\ slot = r /\ slot' = r /\ UNCHANGED cancelled
    BY <1>13, <2>1 DEF ClaimSecret
  <2> HIDE DEF Answers
  <2> QED BY <2>1, <2>2, <2>3
<1>14. ASSUME NEW r \in Request, SecretIsNotStored(r) PROVE Moves
  BY <1>14 DEF SecretIsNotStored, MayClaim
<1>15. ASSUME NEW r \in Request, ClaimAnswer(r) PROVE Moves
  <2>1. Answers(r) /\ req[r].challenge \in Mine(req[r].kind) /\ req[r].pc = "claim"
    BY <1>15, ClaimedWasPending DEF ClaimAnswer, MayClaim
  <2>2. /\ req'[r].turn = req[r].turn /\ req'[r].pc \in {"prepare", "grant"} /\ req'[r].kind = req[r].kind
        /\ \A u \in Request : u # r => req'[u] = req[u]
    BY <1>15, AnswerMoves
  <2>3. slot = r /\ slot' = r /\ UNCHANGED cancelled
    BY <1>15, <2>1 DEF ClaimAnswer
  <2> HIDE DEF Answers
  <2> QED BY <2>1, <2>2, <2>3
<1>16. ASSUME NEW r \in Request, GrantOnce(r) PROVE Moves
  <2>1. \A u \in Request : u # r => req'[u] = req[u]
    BY <1>16 DEF GrantOnce
  <2>2. req[r].pc = "grant" /\ req'[r].pc = "prepare" /\ req'[r].turn = req[r].turn /\ req'[r].kind = req[r].kind
    BY <1>16 DEF GrantOnce
  <2>3. UNCHANGED <<slot, cancelled>>
    BY <1>16 DEF GrantOnce
  <2> QED BY <2>1, <2>2, <2>3
<1>17. ASSUME NEW r \in Request, GrantFails(r) PROVE Moves
  BY <1>17 DEF GrantFails
<1>18. ASSUME NEW r \in Request, Prepare(r) PROVE Moves
  <2>1. \A u \in Request : u # r => req'[u] = req[u]
    BY <1>18 DEF Prepare
  <2>2. req[r].pc = "prepare" /\ req'[r].pc = "segment" /\ req'[r].turn = req[r].turn /\ req'[r].kind = req[r].kind
    BY <1>18 DEF Prepare
  <2>3. UNCHANGED <<slot, cancelled>>
    BY <1>18 DEF Prepare
  <2> QED BY <2>1, <2>2, <2>3
<1>19. ASSUME NEW r \in Request, PrepareFails(r) PROVE Moves
  BY <1>19 DEF PrepareFails
<1>20. ASSUME NEW r \in Request, SegmentFails(r) PROVE Moves
  BY <1>20 DEF SegmentFails
<1>21. ASSUME NEW r \in Request, NeedsPrivateInput(r) PROVE Moves
  BY <1>21 DEF NeedsPrivateInput, InContext
<1>22. ASSUME NEW r \in Request, AdmitPower(r) PROVE Moves
  BY <1>22 DEF AdmitPower, InContext
<1>23. ASSUME NEW r \in Request, RegisterPower(r) PROVE Moves
  BY <1>23 DEF RegisterPower, MayRegister
<1>24. ASSUME NEW r \in Request, PowerReturns(r) PROVE Moves
  BY <1>24 DEF PowerReturns
<1>25. ASSUME NEW r \in Request, PowerFails(r) PROVE Moves
  BY <1>25 DEF PowerFails, FailStop
<1>26. ASSUME NEW r \in Request, Suspend(r) PROVE Moves
  BY <1>26 DEF Suspend, Granted, NoAnswer
<1>27. ASSUME NEW r \in Request, BrainReplies(r) PROVE Moves
  BY <1>27 DEF BrainReplies, InContext
<1>28. ASSUME NEW r \in Request, CreateChallenge(r) PROVE Moves
  BY <1>28 DEF CreateChallenge, ChallengeOf
<1>29. ASSUME NEW r \in Request, ChallengeIsRefused(r) PROVE Moves
  BY <1>29 DEF ChallengeIsRefused
<1>30. ASSUME NEW r \in Request, CommitPause(r) PROVE Moves
  <2>1. /\ \A u \in Request : u # r => req'[u] = req[u]
        /\ req'[r] = [req[r] EXCEPT !.pc = "end"] /\ req[r].pc = "commit"
        /\ slot = r /\ slot' = r /\ UNCHANGED cancelled
    BY <1>30 DEF CommitPause
  <2>2. r \in cancelled => \A k \in Kind : k = req[r].asks.kind => Mine(k)' = {}
    BY <1>30 DEF CommitPause, MayCommit, WithoutMine, Mine, Store!Of, Store!Cancelled
  <2>3. \A u \in Request : u # r => ~Has(u)'
    BY <2>1
  <2>4. ~Alive(r)' /\ ~New(r)' /\ req'[r].turn = req[r].turn
    BY <2>1
  <2>5. cancelled \subseteq {r}
    BY <2>1
  <2> QED BY <2>1, <2>2, <2>3, <2>4, <2>5
<1>31. ASSUME NEW r \in Request, CommitReply(r) PROVE Moves
  BY <1>31 DEF CommitReply, MayCommit, PopToken
<1>32. ASSUME NEW r \in Request, Release(r) PROVE Moves
  BY <1>32 DEF Release, Forget, Idle, Mine, Store!Of
<1>33. CASE ~RequestStep
  <2>1. UNCHANGED <<req, slot>> /\ cancelled \subseteq cancelled'
    BY <1>33 DEF Frames, StopMarks
  <2>2. \A r \in Request : ~CreateChallenge(r)
    BY <2>1 DEF CreateChallenge
  <2>3. \A k \in Kind : Mine(k)' \subseteq Mine(k)
    BY <2>2, MineFrames
  <2>4. \A u \in Request : (Alive(u)' => Alive(u)) /\ (New(u)' => New(u)) /\ (Has(u)' => Has(u))
    BY <2>1, <2>3
  <2> HIDE DEF Alive, Has, New
  <2> QED BY <2>1, <2>4
<1> QED
  BY <1>1, <1>2, <1>3, <1>4, <1>5, <1>6, <1>7, <1>8, <1>9, <1>10, <1>11,
     <1>12, <1>13, <1>14, <1>15, <1>16, <1>17, <1>18, <1>19, <1>20, <1>21,
     <1>22, <1>23, <1>24, <1>25, <1>26, <1>27, <1>28, <1>29, <1>30, <1>31,
     <1>32, <1>33
  DEF RequestStep, Enter, Check, Claim, Segment, Finish

\* A marked pause stays as it is while its challenge waits.
LEMMA MarkedStays ==
  ASSUME Moves, NEW q \in cancelled, req[q].pc = "commit", NEW k \in Kind, req[q].asks.kind = k, Mine(k)' # {}
  PROVE  q \in cancelled' /\ req'[q] = req[q]
BY DEF Moves

-----------------------------------------------------------------------------
(* What is over after a Stop.                                              *)

\* Only the emptying of a store adds to the turns that a Stop covers.
LEMMA OtherStops ==
  ASSUME StopTypes, Stop, ~StopCancels
  PROVE  stop'.covers \subseteq stop.covers
<1> USE NoStopTypes DEF StopTypes
<1>1. CASE StopArrives
  BY <1>1 DEF StopArrives, StopRecord
<1>2. CASE StopMarks
  BY <1>2 DEF StopMarks, StopRecord
<1>3. CASE StopFindsPower
  BY <1>3 DEF StopFindsPower, StopRecord
<1> QED BY <1>1, <1>2, <1>3 DEF Stop, StopIsRefused, StopKills

\* Every step keeps the turn of a message to itself until it works.
LEMMA FreshStep ==
  ASSUME Requests, Requests', StoreTypes, StopTypes, Counts, Locals, Locals', Locks, Stores, Fresh, Moves, Frames
  PROVE  Fresh'
<1> SUFFICES ASSUME NEW r \in Request, New(r)'
             PROVE  /\ \A u \in Request : u # r => req'[u].turn # req'[r].turn
                    /\ \A k \in Kind : \A c \in Mine(k)' : c.turn # req'[r].turn
                    /\ req'[r].turn \notin stop'.covers
                    /\ req'[r].pc = "enter" => req'[r].turn \notin stopped'
  BY DEF Fresh
<1>1. CASE Begins(r)
  <2>1. req'[r].turn = turns + 1
    BY <1>1 DEF Begins
  <2>2. \A u \in Request : u # r => req'[u].turn <= turns
    BY <1>1 DEF Begins, Locals
  <2>3. \A k \in Kind : Mine(k)' = Mine(k)
    BY <1>1 DEF Begins, Mine, Store!Of
  <2>4. \A k \in Kind : \A c \in Mine(k) : c.turn <= turns
    BY DEF Stores
  <2>5. stop'.covers \subseteq 1..turns /\ stopped' \subseteq 1..turns
    BY <1>1 DEF Begins, StopTypes
  <2>6. turns \in Nat /\ \A u \in Request : req'[u].turn \in Nat
    BY Bounds DEF Requests, RequestRecord
  <2>7. \A k \in Kind : \A c \in Mine(k) : c.turn \in Nat
    BY PendingInThisTeam DEF Challenge
  <2> QED BY <2>1, <2>2, <2>3, <2>4, <2>5, <2>6, <2>7
<1>2. CASE ~Begins(r)
  <2>1. New(r) /\ req'[r].turn = req[r].turn /\ (req'[r].pc = "enter" => req[r].pc = "enter")
    BY <1>2 DEF Moves, New, Begins
  <2>2. req[r].turn \in 1..turns
    BY <2>1 DEF Locals, New, Requests, RequestRecord
  <2>3. \A u \in Request : u # r => req'[u].turn # req'[r].turn
    <3> SUFFICES ASSUME NEW u \in Request, u # r PROVE req'[u].turn # req[r].turn
      BY <2>1
    <3>1. CASE Begins(u)
      BY <2>2, <3>1 DEF Begins, Requests
    <3>2. CASE ~Begins(u)
      <4>1. req[u].turn # req[r].turn /\ req[r].turn # 0
        BY <2>1, <2>2 DEF Fresh
      <4>2. \A k \in Kind : \A c \in Mine(k) : c.turn # req[r].turn
        BY <2>1 DEF Fresh
      <4> QED BY <3>2, <4>1, <4>2 DEF Moves, Begins
    <3> QED BY <3>1, <3>2
  <2>4. \A k \in Kind : \A c \in Mine(k)' : c.turn # req'[r].turn
    <3>1. CASE \A k \in Kind : Mine(k)' \subseteq Mine(k)
      BY <2>1, <3>1 DEF Fresh
    <3>2. ASSUME NEW q \in Request, CreateChallenge(q) PROVE \A k \in Kind : \A c \in Mine(k)' : c.turn # req'[r].turn
      <4>1. q # r
        BY <2>1, <3>2 DEF CreateChallenge, New
      <4>2. \A k \in Kind : \A c \in Mine(k)' : c \in Mine(k) \/ c.turn = req[q].turn
        BY <3>2, ChallengeTypes DEF CreateChallenge, Store!Created, StoreTypes, Mine, Store!Of
      <4> QED BY <2>1, <4>1, <4>2 DEF Fresh
    <3> QED BY <3>1, <3>2, MineFrames
  <2>5. req'[r].turn \notin stop'.covers
    <3>1. CASE stop' = stop
      BY <2>1, <3>1 DEF Fresh
    <3>2. CASE StopCancels
      <4>1. Head(stop.todo) \in Kind
        BY <3>2 DEF StopCancels, StopTypes, StopRecord
      <4>2. stop'.covers = stop.covers \cup {c.turn : c \in Mine(Head(stop.todo))}
        BY <3>2 DEF StopCancels, StopTypes, StopRecord
      <4> QED BY <2>1, <4>1, <4>2 DEF Fresh
    <3>3. CASE Stop /\ ~StopCancels
      <4>1. stop'.covers \subseteq stop.covers
        BY <3>3, OtherStops
      <4> QED BY <2>1, <4>1 DEF Fresh
    <3> QED BY <3>1, <3>2, <3>3 DEF Frames
  <2>6. req'[r].pc = "enter" => req'[r].turn \notin stopped'
    <3>1. CASE stopped' = stopped
      BY <2>1, <3>1 DEF Fresh
    <3>2. CASE StopMarks
      <4>1. active # r \/ req[r].pc # "enter"
        BY Bounds DEF Locks, Has, Locked
      <4>2. req[r].pc = "enter" => req[r].turn \notin TurnOf(active)
        BY <2>1, <4>1, Bounds DEF TurnOf, Fresh, Locks
      <4> QED BY <2>1, <3>2, <4>2 DEF StopMarks, Fresh
    <3> QED BY <3>1, <3>2 DEF Frames, Stop, StopArrives, StopCancels, StopIsRefused, StopFindsPower, StopKills, history
  <2> QED BY <2>3, <2>4, <2>5, <2>6
<1> QED BY <1>1, <1>2

\* Every step keeps what can act for a stopped turn to a thread that is marked.
LEMMA OverStep ==
  ASSUME Requests, Requests', StoreTypes, StopTypes, Counts, Locals, Locks, Locks', Stores, Waiting, Fresh, Over,
         Moves, Frames
  PROVE  Over'
<1>1. CASE RequestStep /\ UNCHANGED <<stop, stopped>>
  <2>1. ASSUME NEW u \in Request, Has(u)', Alive(u)'
        PROVE  (req'[u].turn \in stopped' => u \in cancelled') /\ req'[u].turn \notin stop'.covers
    <3>1. req'[u].turn = req[u].turn
      BY <2>1 DEF Moves
    <3>2. CASE Has(u) /\ Alive(u) /\ (u \in cancelled => u \in cancelled')
      BY <1>1, <3>1, <3>2 DEF Over
    <3>3. CASE req[u].pc = "enter" /\ slot = NoRequest /\ New(u)
      BY <1>1, <3>1, <3>3 DEF Fresh
    <3>4. CASE slot = NoRequest /\ Answers(u) /\ req[u].challenge \in Mine(req[u].kind)
      <4>1. req[u].kind \in Kind /\ req[u].challenge.turn = req[u].turn
        BY <3>4 DEF Answers, Locals
      <4>2. cancelled = {}
        BY <3>4, Bounds DEF Locks
      <4> QED BY <1>1, <3>1, <3>4, <4>1, <4>2 DEF Over
    <3> QED BY <2>1, <3>2, <3>3, <3>4 DEF Moves
  <2>2. ASSUME NEW k \in Kind, NEW c \in Mine(k), c \in Mine(k)'
        PROVE  /\ c.turn \notin stop'.covers
               /\ c.turn \in stopped' => \E q \in cancelled' : req'[q].pc = "commit" /\ req'[q].asks.kind = k
    <3>1. c.turn \notin stop'.covers
      BY <1>1 DEF Over
    <3>2. ASSUME c.turn \in stopped'
          PROVE  \E q \in cancelled' : req'[q].pc = "commit" /\ req'[q].asks.kind = k
      <4>1. PICK q \in cancelled : req[q].pc = "commit" /\ req[q].asks.kind = k
        BY <1>1, <3>2 DEF Over
      <4>2. Mine(k)' # {}
        BY <2>2
      <4>3. q \in cancelled' /\ req'[q] = req[q]
        BY <4>1, <4>2, MarkedStays
      <4> QED BY <4>1, <4>3
    <3> QED BY <3>1, <3>2
  <2>3. ASSUME NEW r \in Request, CreateChallenge(r), NEW k \in Kind, NEW c \in Mine(k)', c \notin Mine(k)
        PROVE  /\ c.turn \notin stop'.covers
               /\ c.turn \in stopped' => \E q \in cancelled' : req'[q].pc = "commit" /\ req'[q].asks.kind = k
    <3>1. c.turn = req[r].turn /\ k = req[r].asks.kind
      BY <2>3, ChallengeTypes DEF CreateChallenge, Store!Created, StoreTypes, Mine, Store!Of
    <3>2. Has(r) /\ Alive(r)
      BY <2>3 DEF CreateChallenge, Has, Locked, Label, Alive, Working
    <3>3. req'[r].pc = "commit" /\ req'[r].asks.kind = req[r].asks.kind /\ UNCHANGED cancelled
      BY <2>3 DEF CreateChallenge, To, guard, Requests, RequestRecord
    <3> QED BY <1>1, <3>1, <3>2, <3>3 DEF Over
  <2>4. \A k \in Kind : \A c \in Mine(k)' :
          /\ c.turn \notin stop'.covers
          /\ c.turn \in stopped' => \E q \in cancelled' : req'[q].pc = "commit" /\ req'[q].asks.kind = k
    <3>1. CASE \A k \in Kind : Mine(k)' \subseteq Mine(k)
      BY <2>2, <3>1
    <3>2. ASSUME NEW r \in Request, CreateChallenge(r), NEW k \in Kind, NEW c \in Mine(k)'
          PROVE  /\ c.turn \notin stop'.covers
                 /\ c.turn \in stopped' => \E q \in cancelled' : req'[q].pc = "commit" /\ req'[q].asks.kind = k
      BY <2>2, <2>3, <3>2
    <3> QED BY <3>1, <3>2, MineFrames
  <2> QED BY <2>1, <2>4 DEF Over
<1>2. CASE UNCHANGED <<req, slot>> /\ cancelled \subseteq cancelled'
  <2> USE <1>2
  <2>1. \A k \in Kind : Mine(k)' \subseteq Mine(k)
    <3>1. \A r \in Request : ~CreateChallenge(r)
      BY DEF CreateChallenge, To, Requests, RequestRecord
    <3> QED BY <3>1, MineFrames
  <2>2. ASSUME NEW u \in Request, Has(u)', Alive(u)'
        PROVE  Has(u) /\ Alive(u)
    BY <2>1, <2>2 DEF Has, Alive, New, Answers
  <2>3. CASE stop'.covers \subseteq stop.covers /\ UNCHANGED stopped
    BY <2>1, <2>2, <2>3 DEF Over
  <2>4. CASE StopCancels
    <3> DEFINE k == Head(stop.todo)
    <3>1. k \in Kind
      BY <2>4 DEF StopCancels, StopTypes, StopRecord
    <3>2. stop'.covers = stop.covers \cup {c.turn : c \in Mine(k)} /\ UNCHANGED stopped
      BY <2>4 DEF StopCancels, StopTypes, StopRecord, history
    <3>3. \A l \in Kind : l = Head(stop.todo) => Mine(l)' = {}
      BY <2>4 DEF StopCancels, WithoutMine, Mine, Store!Of, Store!Cancelled
    <3>4. \A l \in Kind : Mine(l) # {} => l = k \/ Mine(k) = {}
      BY <3>1 DEF Waiting, OnePending
    <3>5. ASSUME NEW u \in Request, Has(u)', Alive(u)', NEW c \in Mine(k)
          PROVE  c.turn # req[u].turn
      <4>1. CASE New(u)
        BY <3>1, <4>1 DEF Fresh
      <4>2. CASE req[u].pc \in Working
        BY <3>1, <4>2 DEF Waiting, NonePending
      <4>3. CASE req[u].kind \in Kind /\ req'[u].challenge \in Mine(req[u].kind)'
        BY <2>1, <3>1, <3>3, <3>4, <4>3
      <4> QED BY <3>5, <4>1, <4>2, <4>3 DEF Alive, New, Answers
    <3> HIDE DEF k
    <3>6. \A u \in Request : Has(u)' /\ Alive(u)' =>
            (req'[u].turn \in stopped' => u \in cancelled') /\ req'[u].turn \notin stop'.covers
      BY <2>2, <3>2, <3>5 DEF Over
    <3>7. \A l \in Kind : \A c \in Mine(l)' :
            /\ c.turn \notin stop'.covers
            /\ c.turn \in stopped' => \E q \in cancelled' : req'[q].pc = "commit" /\ req'[q].asks.kind = l
      <4> SUFFICES ASSUME NEW l \in Kind, NEW c \in Mine(l)'
                   PROVE  /\ c.turn \notin stop'.covers
                          /\ c.turn \in stopped' => \E q \in cancelled' : req'[q].pc = "commit" /\ req'[q].asks.kind = l
        OBVIOUS
      <4>1. c \in Mine(l) /\ Mine(k) = {}
        BY <2>1, <3>3, <3>4 DEF k
      <4> QED BY <3>2, <4>1 DEF Over
    <3> QED BY <3>6, <3>7 DEF Over
  <2>5. CASE StopMarks
    <3>1. /\ stopped' = stopped \cup stop.covers \cup TurnOf(active)
          /\ cancelled' = IF active = NoRequest THEN cancelled ELSE cancelled \cup {active}
      BY <2>5 DEF StopMarks
    <3>2. stop'.covers \subseteq stop.covers
      BY <2>5, OtherStops DEF StopMarks, StopCancels, Stop
    <3>3. ASSUME NEW u \in Request, Has(u)', Alive(u)'
          PROVE  (req'[u].turn \in stopped' => u \in cancelled') /\ req'[u].turn \notin stop'.covers
      <4>1. Has(u) /\ Alive(u) /\ slot = u
        BY <2>2, <3>3 DEF Locks
      <4>2. req[u].turn \in TurnOf(active) => u \in cancelled'
        BY <3>1, <4>1 DEF TurnOf, Locks
      <4> QED BY <3>1, <3>2, <4>1, <4>2 DEF Over
    <3>4. ASSUME NEW k \in Kind, NEW c \in Mine(k)'
          PROVE  /\ c.turn \notin stop'.covers
                 /\ c.turn \in stopped' => \E q \in cancelled' : req'[q].pc = "commit" /\ req'[q].asks.kind = k
      <4>1. c \in Mine(k)
        BY <2>1
      <4>2. c.turn \notin TurnOf(active)
        BY <4>1 DEF TurnOf
      <4> QED BY <3>1, <3>2, <4>1, <4>2 DEF Over
    <3> QED BY <3>3, <3>4 DEF Over
  <2>6. CASE Stop /\ ~StopCancels /\ ~StopMarks
    <3>1. UNCHANGED stopped
      BY <2>6 DEF Stop, StopArrives, StopIsRefused, StopFindsPower, StopKills, history
    <3> QED BY <2>3, <2>6, <3>1, OtherStops
  <2> QED BY <2>3, <2>4, <2>5, <2>6 DEF Frames
<1>3. CASE StopMarks /\ UNCHANGED <<req, slot>>
  BY <1>2, <1>3 DEF StopMarks
<1> QED BY <1>1, <1>2, <1>3 DEF Frames

-----------------------------------------------------------------------------
(* The invariant.                                                          *)

\* Nothing waits, works or is stopped at first.
LEMMA InvInit ==
  ASSUME Init
  PROVE  IInv
<1> USE Bounds DEF Init
<1>1. \A r \in Request : req[r] = Idle
  OBVIOUS
<1>2. \A r \in Request : ~Has(r) /\ ~New(r) /\ ~Answers(r) /\ req[r].pc = "idle" /\ req[r].turn = 0
  BY <1>1 DEF Idle, Has, Locked, New, Answers, Kind
<1>3. \A k \in Kind : pending[k] = {} /\ Mine(k) = {}
  BY DEF Mine, Store!Of
<1>4. Requests /\ StoreTypes
  BY IdleTypes DEF Requests, StoreTypes
<1>5. Data /\ Counts
  <2>1. 1 \in 1..(MaxChanges + 1) /\ 0 \in 0..MaxChanges /\ 1 \in 0..(MaxChanges + 1)
    OBVIOUS
  <2>2. Data
    BY <2>1 DEF Data
  <2>3. Counts
    BY <2>1 DEF Counts, Changes
  <2> QED BY <2>2, <2>3
<1>6. StopTypes
  BY NoStopTypes DEF StopTypes
<1>7. Locals
  BY <1>2, <1>4 DEF Locals
<1>8. Locks
  BY <1>2 DEF Locks
<1>9. Stores
  <2>1. IsFiniteSet({}) /\ Cardinality({}) = 0
    BY FS_EmptySet
  <2>2. Store!WellFormed({})
    BY <2>1, SameCardinality DEF Store!WellFormed
  <2> QED BY <1>3, <2>1, <2>2 DEF Stores
<1>10. Waiting
  BY <1>2, <1>3 DEF Waiting, Working, OnePending
<1>11. Rotations
  BY <1>3 DEF Rotations, RotationSurvives, Kind
<1>12. Installs
  BY <1>2 DEF Installs, GrantedForThisInstallation
<1>13. Fresh
  BY <1>2 DEF Fresh
<1>14. Over
  BY <1>2, <1>3 DEF Over
<1> QED BY <1>4, <1>5, <1>6, <1>7, <1>8, <1>9, <1>10, <1>11, <1>12, <1>13, <1>14 DEF IInv

\* Every step keeps the invariant, and what it changes is in Frames.
LEMMA InvStep ==
  ASSUME IInv, [Next]_vars
  PROVE  IInv' /\ Frames
<1> USE DEF IInv
<1>1. Frames
  <2>1. CASE Next
    BY <2>1, WhoChangesWhat
  <2>2. CASE UNCHANGED vars
    BY <2>2 DEF vars, guard, data, stopVars, history, Frames, Shrinks, StoreTypes, Data
  <2> QED BY <2>1, <2>2
<1>2. turns' >= turns /\ turns' \in 0..MaxTurns
  BY <1>1, TurnsGrow
<1>3. Data' /\ Counts'
  BY <1>1, DataStep
<1>4. StopTypes'
  BY <1>1, <1>2, StopStep
<1>5. StoreTypes' /\ Stores'
  BY <1>1, <1>2, PendingStep
<1>6. req' \in [Request -> RequestRecord]
  BY <1>1, RequestsStep
<1>7. Requests'
  BY <1>2, <1>6 DEF Requests
<1>8. Locals'
  BY <1>1, <1>2, <1>6, LocalsStep
<1>9. Locks'
  BY <1>1, <1>6, LocksStep
<1>10. Waiting' /\ Rotations' /\ Installs'
  BY <1>1, WaitingStep, RotationsStep, InstallsStep
<1>11. Moves
  BY <1>1, <1>9, MovesStep
<1>12. Fresh'
  BY <1>1, <1>7, <1>8, <1>11, FreshStep
<1>13. Over'
  BY <1>1, <1>7, <1>9, <1>11, OverStep
<1> QED BY <1>1, <1>3, <1>4, <1>5, <1>7, <1>8, <1>9, <1>10, <1>12, <1>13

\* The invariant holds in every state that can be reached.
THEOREM Invariance == Spec => []IInv
<1>1. Init => IInv
  BY InvInit
<1>2. IInv /\ [Next]_vars => IInv'
  BY InvStep
<1> QED BY <1>1, <1>2, PTL DEF Spec

-----------------------------------------------------------------------------
(* The properties.                                                         *)

\* The types; above all, every store keeps to its capacity, to one challenge of
\* a Team and to ids used once (challenge_store.py).
THEOREM TypeCorrect == Spec => []TypeOK
<1>1. IInv => TypeOK
  <2> SUFFICES ASSUME IInv PROVE TypeOK
    OBVIOUS
  <2> USE Bounds DEF IInv
  <2>1. \A k \in Kind : pending[k] \subseteq Challenge \cup OtherChallenge /\ Store!WellFormed(pending[k])
    BY DEF StoreTypes, Stores, Challenges
  <2>2. DOMAIN pending = Kind /\ issued \in 0..MaxChallenges
    BY DEF StoreTypes
  <2>3. req \in [Request -> [kind : Kind \cup {"none", "chat"}, pc : Label, turn : 0..MaxTurns,
                           challenge : Challenge \cup {NoChallenge},
                           identity : {<< >>} \cup (1..(MaxChanges + 1)) \X (1..(MaxChanges + 1)),
                           image : Image \cup {"none"}, answers : 0..(MaxAnswers + 1),
                           asks : [kind : Kind \cup {"none"}, once : BOOLEAN]]]
    <3>1. 0..MaxAnswers \subseteq 0..(MaxAnswers + 1)
      OBVIOUS
    <3>2. req \in [Request -> [kind : RequestKind, pc : Label, turn : 0..MaxTurns, challenge : SomeChallenge,
                             identity : Identities, image : SomeImage, answers : 0..(MaxAnswers + 1),
                             asks : Asking]]
      BY <3>1 DEF Requests, RequestRecord
    <3> QED BY <3>2 DEF RequestKind, SomeChallenge, Identities, Site, SomeImage, Asking
  <2>4. /\ slot \in Request \cup {NoRequest} /\ active \in {slot, NoRequest} /\ cancelled \subseteq {slot}
        /\ power = NoPower \/ power.token = slot
    BY DEF Locks
  <2>5. /\ blocked \subseteq 1..(MaxChanges + 1)
        /\ assistant \in [container : 0..(MaxChanges + 1), image : Image, up : BOOLEAN]
        /\ connected \in BOOLEAN /\ secret \in {NoSecret} \cup 0..MaxChanges
        /\ grants \subseteq [image : Image, ordinal : 0..MaxAnswers, container : 1..(MaxChanges + 1)]
    BY DEF Data, GrantRecord
  <2>6. generation \in 1..(MaxChanges + 1)
    BY DEF Counts
  <2> QED BY <2>1, <2>2, <2>3, <2>4, <2>5, <2>6 DEF TypeOK
<1> QED BY <1>1, Invariance, PTL

\* A Team never waits for two challenges at once (_pending_hosted_chat).
THEOREM WaitsForOne == Spec => []OnePending
<1>1. IInv => OnePending
  BY DEF IInv, Waiting
<1> QED BY <1>1, Invariance, PTL

\* An answer to an old challenge does not overwrite a secret that the owner has
\* replaced since (_replace_assistant_secrets).
THEOREM RotationsSurvive == Spec => []RotationSurvives
<1>1. IInv => RotationSurvives
  BY DEF IInv, Rotations
<1> QED BY <1>1, Invariance, PTL

\* Approvals given once were given to the installation that is there now
\* (_revoke_assistant_approval_grants).
THEOREM GrantsAreForThisInstallation == Spec => []GrantedForThisInstallation
<1>1. IInv => GrantedForThisInstallation
  BY DEF IInv, Installs
<1> QED BY <1>1, Invariance, PTL

\* A turn that was stopped with an answer that says so neither replies nor
\* starts a Power, and leaves no challenge behind (_stop_chat).
THEOREM StopsAreFinal == Spec => StoppedStaysStopped
<1>1. IInv /\ [Next]_vars =>
     \A turn \in stopped :
       /\ turn \notin replied' \ replied
       /\ power' # power /\ power' # NoPower => power'.turn # turn
       /\ slot' = NoRequest => \A k \in Kind : \A c \in Mine(k)' : c.turn # turn
  <2> SUFFICES ASSUME IInv, [Next]_vars, NEW turn \in stopped
               PROVE  /\ turn \notin replied' \ replied
                      /\ power' # power /\ power' # NoPower => power'.turn # turn
                      /\ slot' = NoRequest => \A k \in Kind : \A c \in Mine(k)' : c.turn # turn
    OBVIOUS
  <2>1. IInv' /\ Frames
    BY InvStep
  <2>2. ASSUME NEW r \in Request, CommitReply(r) PROVE turn \notin replied' \ replied
    <3>1. Has(r) /\ Alive(r)
      BY <2>2 DEF CommitReply, Has, Locked, Label, Alive, Working
    <3>2. turn = req[r].turn => r \in cancelled
      BY <3>1 DEF IInv, Over
    <3> QED BY <2>2, <3>2 DEF CommitReply, MayCommit
  <2>3. ASSUME NEW r \in Request, RegisterPower(r), power' # power PROVE power'.turn # turn
    <3>1. Has(r) /\ Alive(r)
      BY <2>3 DEF RegisterPower, Has, Locked, Label, Alive, Working
    <3>2. turn = req[r].turn => r \in cancelled
      BY <3>1 DEF IInv, Over
    <3>3. MayRegister(r)
      BY <2>3 DEF RegisterPower
    <3>4. power'.turn = req[r].turn
      BY <2>3, <3>3 DEF RegisterPower
    <3> QED BY <3>2, <3>3, <3>4 DEF MayRegister
  <2>4. ASSUME slot' = NoRequest, NEW k \in Kind, NEW c \in Mine(k)' PROVE c.turn # turn
    <3>1. turn \in stopped'
      BY <2>1 DEF Frames, Stop, StopArrives, StopCancels, StopMarks, StopIsRefused, StopFindsPower, StopKills,
                  history
    <3>2. cancelled' = {}
      BY <2>1, <2>4, Bounds DEF IInv, Locks
    <3> QED BY <2>1, <2>4, <3>1, <3>2 DEF IInv, Over
  <2> QED BY <2>1, <2>2, <2>3, <2>4 DEF Frames
<1> QED BY <1>1, Invariance, PTL DEF Spec, StoppedStaysStopped
=============================================================================
