-------------------------- MODULE ContinuationCodec --------------------------
(***************************************************************************)
(* The copy of a paused local turn on disk: what the Controller may pause, *)
(* how it is written (local_chat_continuations.encode), kept               *)
(* (EncryptedContinuationStore), read (decode) and made a challenge again  *)
(* when the Controller starts (chat_state.py, challenge_store.restore).    *)
(*                                                                         *)
(* Encryption keeps a record or loses it whole, and JSON writes and reads  *)
(* each field one to one, so a payload is the record it was made of.       *)
(* Sorted tuples without repetition are sets.  A text is a record:         *)
(*   value, size, trimmed, and control, printable: whether it has a        *)
(*   control character, and whether str.isprintable holds.                 *)
(* Interrupts, ids and images have the same grammar on both sides.         *)
(***************************************************************************)
EXTENDS Naturals, Sequences, FiniteSets

CONSTANTS Interrupt, NoText, NoChallenge,
          Refused,             \* an operation raised
          Fits(_, _, _)        \* the JSON of a pause is within its limits of size and depth

MaxAnswerLogs == 64            \* MAX_ANSWER_LOGS
MaxAnswersPerPower == 64       \* MAX_ANSWERS_PER_POWER
MaxPowerRequests == 64         \* MAX_POWER_REQUESTS
MaxPowerRounds == 8            \* MAX_POWER_ROUNDS
MaxAssistants == 16
MaxFiles == 8
MaxOrdinal == 63
MaxBindings == 64
MaxContinuations == 32         \* also MAX_PENDING_CHALLENGES
Ttl == 300                     \* DEFAULT_TTL_SECONDS of the challenge stores
MaxTtl == 900                  \* MAX_TTL_SECONDS of the continuation store

Elements(s) == {s[i] : i \in DOMAIN s}
Distinct(s) == \A i, j \in DOMAIN s : s[i] = s[j] => i = j

\* What the producers of titles, summaries and names accept, and what _text accepts.
Presented(text, max) == text.size \in 1..max /\ text.trimmed /\ ~text.control
Readable(text, max) == text.size \in 1..max /\ text.trimmed /\ text.printable

-----------------------------------------------------------------------------
(* What the Controller pauses.  A pause is [kind, requirements, pending];  *)
(* pending is [requests, seen, invoked, round, assistants, files,          *)
(* provider, identity, logs], and its identity [name, releases, files,     *)
(* provider]: the images of its Assistants and the names of its files.     *)

Choices == {"choice", "choices"}
InputType == {"str", "int", "float", "bool"} \cup Choices

\* input_flow.requirement: an option is any text that is not empty.
InputProduced(r) ==
  /\ r.type \in InputType /\ (r.type \in Choices) = (r.options # <<>>)
  /\ Len(r.options) <= 64 /\ Distinct(r.options)
  /\ \A o \in Elements(r.options) : o.size \in 1..200
  /\ Presented(r.title, 80) /\ Presented(r.summary, 240)
  /\ r.docs # NoText => Presented(r.docs, 2048)

ApprovalProduced(r) ==
  /\ Presented(r.name, 80) /\ Presented(r.title, 80) /\ Presented(r.summary, 240)
  /\ r.docs # NoText => Presented(r.docs, 2048)
  /\ r.runs \in {"always", "once"}

\* An interaction is bound to its call site: the ordinal is the number of answers.
Bound(r, p) ==
  /\ r.assistant \in DOMAIN p.identity.releases
  /\ r.image = p.identity.releases[r.assistant] /\ r.ordinal \in 0..MaxOrdinal

\* requirements_for_batch of accounts and secrets.
PrivateProduced(r, p, max) ==
  /\ r.assistant \in DOMAIN p.identity.releases
  /\ Presented(r.name, 80)
  /\ r.powers # {} /\ Cardinality(r.powers) \in 1..MaxPowerRequests
  /\ Len(r.wanted) \in 1..max

SecretsProduced(r) == \A s \in Elements(r.wanted) : Presented(s.name, 80) /\ Presented(s.summary, 160)

RequirementProduced(kind, r, p) ==
  CASE kind = "input" -> Bound(r, p) /\ InputProduced(r)
    [] kind = "approval" -> Bound(r, p) /\ ApprovalProduced(r)
    [] kind = "accounts" -> PrivateProduced(r, p, 1)
    [] OTHER -> PrivateProduced(r, p, 64) /\ SecretsProduced(r)

RequirementsProduced(kind, rs, p) ==
  /\ kind \in {"accounts", "secrets", "input", "approval"}
  /\ Len(rs) \in (IF kind \in {"input", "approval"} THEN {1} ELSE 1..64)
  /\ \A r \in Elements(rs) : RequirementProduced(kind, r, p)

\* _drive suspends before a batch of its round is delivered.
TurnProduced(p) ==
  /\ Len(p.requests) \in 1..MaxPowerRequests /\ p.round \in 0..(MaxPowerRounds - 1)
  /\ Cardinality(p.seen) \in 0..(MaxPowerRequests * p.round) /\ Len(p.invoked) \in 0..(MaxPowerRequests * p.round)

\* The answers of a turn: each was given at an ordinal up to the last.
LogsProduced(p) == DOMAIN p.logs \subseteq Interrupt /\ \A i \in DOMAIN p.logs : Len(p.logs[i]) \in 1..MaxAnswersPerPower

\* _chat_setup, with the names that validate_team_name and _filename accept.
IdentityProduced(p) ==
  /\ Presented(p.identity.name, 80) /\ p.identity.provider = p.provider
  /\ DOMAIN p.identity.releases = p.assistants /\ Cardinality(p.assistants) <= MaxAssistants
  /\ DOMAIN p.identity.files = p.files /\ Cardinality(p.files) <= MaxFiles
  /\ \A f \in p.files : Presented(p.identity.files[f], 255)

Produced(kind, rs, p) ==
  RequirementsProduced(kind, rs, p) /\ TurnProduced(p) /\ LogsProduced(p) /\ IdentityProduced(p)

-----------------------------------------------------------------------------
(* encode.                                                                 *)

BindingsValid(kind, rs, p) ==
  \A r \in Elements(rs) : IF kind \in {"input", "approval"} THEN Bound(r, p) ELSE r.assistant \in DOMAIN p.identity.releases

Bindings(kind, rs, p) ==
  IF kind \in {"input", "approval"}
  THEN {<<r.assistant, r.power, r.image, r.ordinal>> : r \in Elements(rs)}
  ELSE UNION {{<<r.assistant, q, p.identity.releases[r.assistant]>> : q \in r.powers} : r \in Elements(rs)}

Pause(kind, rs, p) == [kind |-> kind, requirements |-> rs, pending |-> p]

Encode(kind, rs, p) ==
  IF rs # <<>> /\ Fits(kind, rs, p) /\ BindingsValid(kind, rs, p)
  THEN [bindings |-> Bindings(kind, rs, p), payload |-> Pause(kind, rs, p)]
  ELSE Refused

-----------------------------------------------------------------------------
(* decode.                                                                 *)

InputReadable(r) ==
  /\ r.ordinal \in 0..MaxOrdinal /\ r.type \in InputType
  /\ Len(r.options) <= 64 /\ Distinct(r.options) /\ (r.type \in Choices) = (r.options # <<>>)
  /\ \A o \in Elements(r.options) : Readable(o, 200)
  /\ Readable(r.title, 80) /\ Readable(r.summary, 240)
  /\ r.docs # NoText => Readable(r.docs, 2048)

ApprovalReadable(r) ==
  /\ r.ordinal \in 0..MaxOrdinal /\ r.runs \in {"always", "once"}
  /\ Readable(r.name, 80) /\ Readable(r.title, 80) /\ Readable(r.summary, 240)
  /\ r.docs # NoText => Readable(r.docs, 2048)

PrivateReadable(r, max) ==
  /\ Readable(r.name, 80) /\ r.powers # {} /\ Cardinality(r.powers) <= 128
  /\ Len(r.wanted) \in 1..max

SecretsReadable(r) == \A s \in Elements(r.wanted) : Readable(s.name, 80) /\ Readable(s.summary, 160)

RequirementReadable(kind, r) ==
  CASE kind = "input" -> InputReadable(r)
    [] kind = "approval" -> ApprovalReadable(r)
    [] kind = "accounts" -> PrivateReadable(r, 16)
    [] OTHER -> PrivateReadable(r, 64) /\ SecretsReadable(r)

TurnReadable(p) ==
  /\ Len(p.requests) \in 1..MaxPowerRequests /\ p.round \in 0..(MaxPowerRounds - 1)
  /\ Cardinality(p.seen) <= MaxPowerRequests * 8 /\ Len(p.invoked) <= 512

LogsReadable(p) ==
  /\ Cardinality(DOMAIN p.logs) <= MaxAnswerLogs
  /\ \A i \in DOMAIN p.logs : Len(p.logs[i]) <= MaxAnswersPerPower

IdentityReadable(p) ==
  /\ Readable(p.identity.name, 80) /\ p.identity.provider = p.provider
  /\ Cardinality(DOMAIN p.identity.releases) <= MaxAssistants
  /\ Cardinality(DOMAIN p.identity.files) <= MaxFiles
  /\ \A f \in DOMAIN p.identity.files : Readable(p.identity.files[f], 255)

PendingReadable(p) ==
  /\ Cardinality(p.assistants) <= MaxAssistants /\ Cardinality(p.files) <= MaxFiles
  /\ TurnReadable(p) /\ LogsReadable(p) /\ IdentityReadable(p)

\* A record of the store carries the kind and the bindings it was sealed with.
Decode(record) ==
  LET kind == record.payload.kind  rs == record.payload.requirements  p == record.payload.pending
  IN  IF /\ record.kind = kind /\ Len(rs) \in 1..64
         /\ \A r \in Elements(rs) : RequirementReadable(kind, r)
         /\ PendingReadable(p) /\ BindingsValid(kind, rs, p)
         /\ record.bindings = Bindings(kind, rs, p)
      THEN record.payload ELSE Refused

-----------------------------------------------------------------------------
(* The store: at most one record for each Team.  It is a function from the *)
(* Teams that have one; a time is a second.                                *)

Put(store, t, challenge, expires, now, kind, encoded) ==
  IF /\ expires \in (now + 1)..(now + MaxTtl) /\ Cardinality(encoded.bindings) \in 1..MaxBindings
     /\ t \in DOMAIN store \/ Cardinality(DOMAIN store) < MaxContinuations
  THEN [u \in DOMAIN store \cup {t} |->
          IF u # t THEN store[u]
          ELSE [kind |-> kind, challenge |-> challenge, expires |-> expires,
                generation |-> IF t \in DOMAIN store THEN store[t].generation + 1 ELSE 1,
                bindings |-> encoded.bindings, payload |-> encoded.payload]]
  ELSE Refused

Active(store, now) == [t \in {u \in DOMAIN store : store[u].expires > now} |-> store[t]]

\* A pause that was claimed may only delete the record of its own challenge.
Delete(store, t, challenge) ==
  CASE t \notin DOMAIN store -> store
    [] t \in DOMAIN store /\ challenge \notin {NoChallenge, store[t].challenge} -> Refused
    [] OTHER -> [u \in DOMAIN store \ {t} |-> store[u]]

\* _persist_chat_continuation, of a challenge with so many seconds left.
Persist(store, t, challenge, left, now, kind, rs, p) ==
  IF left \notin 1..MaxTtl \/ Encode(kind, rs, p) = Refused THEN Refused
  ELSE Put(store, t, challenge, now + left, now, kind, Encode(kind, rs, p))

\* _restore_chat_continuation: the challenge store of the kind takes it back.
Restorable(record, now) ==
  LET paused == Decode(record)
  IN  /\ paused # Refused
      /\ record.kind = "input" => Len(paused.requirements) = 1
      /\ record.expires - now \in 1..Ttl

\* LocalController.__init__ restores every record, or does not start.
Starts(store, now) == \A t \in DOMAIN Active(store, now) : Restorable(store[t], now)

Restored(store, now) == [t \in DOMAIN Active(store, now) |-> Decode(store[t])]
=============================================================================
