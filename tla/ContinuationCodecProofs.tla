----------------------- MODULE ContinuationCodecProofs -----------------------
(***************************************************************************)
(* What a local pause survives: a pause whose texts are printable is read  *)
(* back as it was, so that the Controller starts again; what is read back  *)
(* belongs to the release it was sealed with.                              *)
(***************************************************************************)
EXTENDS ContinuationCodec, FiniteSetTheorems, TLAPS

Plain(text) == text.trimmed /\ text.printable

TextsOf(kind, r) ==
  CASE kind = "input" -> Elements(r.options) \cup {r.title, r.summary} \cup {d \in {r.docs} : d # NoText}
    [] kind = "approval" -> {r.name, r.title, r.summary} \cup {d \in {r.docs} : d # NoText}
    [] kind = "accounts" -> {r.name}
    [] OTHER -> {r.name} \cup {s.name : s \in Elements(r.wanted)} \cup {s.summary : s \in Elements(r.wanted)}

\* What decode asks beyond what the producers give.
PlainPause(kind, rs, p) ==
  /\ \A r \in Elements(rs) : \A text \in TextsOf(kind, r) : Plain(text)
  /\ Plain(p.identity.name) /\ \A f \in p.files : Plain(p.identity.files[f])
  /\ Cardinality(DOMAIN p.logs) <= MaxAnswerLogs

\* The bounds of a length, where its sequence has no type.
LEMMA Within64 == \A c : c \in 1..64 => c <= 64 /\ c # 0
OBVIOUS

\* A plain text that was presented is readable.
LEMMA PresentedIsReadable ==
  ASSUME NEW text, NEW max, Presented(text, max), Plain(text)
  PROVE  Readable(text, max)
BY DEF Presented, Readable, Plain

\* A request for input with plain texts is read as it was written.
LEMMA InputRoundTrips ==
  ASSUME NEW r, NEW p, Bound(r, p), InputProduced(r), \A text \in TextsOf("input", r) : Plain(text)
  PROVE  InputReadable(r)
<1>1. TextsOf("input", r) = Elements(r.options) \cup {r.title, r.summary} \cup {d \in {r.docs} : d # NoText}
  BY DEF TextsOf
<1>2. \A o \in Elements(r.options) : Readable(o, 200)
  BY <1>1 DEF InputProduced, Readable, Plain
<1>3. Readable(r.title, 80) /\ Readable(r.summary, 240)
  BY <1>1, PresentedIsReadable DEF InputProduced
<1>4. r.docs # NoText => Readable(r.docs, 2048)
  BY <1>1, PresentedIsReadable DEF InputProduced
<1> QED BY <1>2, <1>3, <1>4 DEF InputReadable, InputProduced, Bound

\* A request for an approval likewise.
LEMMA ApprovalRoundTrips ==
  ASSUME NEW r, NEW p, Bound(r, p), ApprovalProduced(r), \A text \in TextsOf("approval", r) : Plain(text)
  PROVE  ApprovalReadable(r)
<1>1. TextsOf("approval", r) = {r.name, r.title, r.summary} \cup {d \in {r.docs} : d # NoText}
  BY DEF TextsOf
<1>2. Readable(r.name, 80) /\ Readable(r.title, 80) /\ Readable(r.summary, 240)
  BY <1>1, PresentedIsReadable DEF ApprovalProduced
<1>3. r.docs # NoText => Readable(r.docs, 2048)
  BY <1>1, PresentedIsReadable DEF ApprovalProduced
<1> QED BY <1>2, <1>3 DEF ApprovalReadable, ApprovalProduced, Bound

\* The private part of a requirement is read where the limit is not less than that of its producer.
LEMMA PrivateRoundTrips ==
  ASSUME NEW r, NEW p, NEW m \in Nat, NEW n \in Nat, m <= n, PrivateProduced(r, p, m), Plain(r.name)
  PROVE  PrivateReadable(r, n)
<1>1. Readable(r.name, 80)
  BY PresentedIsReadable DEF PrivateProduced
<1>2. Cardinality(r.powers) <= 128
  <2>1. Cardinality(r.powers) \in 1..64
    BY DEF PrivateProduced, MaxPowerRequests
  <2> QED BY <2>1
<1>3. Len(r.wanted) \in 1..n
  BY DEF PrivateProduced
<1> QED BY <1>1, <1>2, <1>3 DEF PrivateReadable, PrivateProduced

\* A request for secrets with plain names and summaries is read as it was written.
LEMMA SecretsRoundTrip ==
  ASSUME NEW r, SecretsProduced(r), \A text \in TextsOf("secrets", r) : Plain(text)
  PROVE  SecretsReadable(r)
<1>1. TextsOf("secrets", r) = {r.name} \cup {s.name : s \in Elements(r.wanted)} \cup {s.summary : s \in Elements(r.wanted)}
  BY DEF TextsOf
<1> SUFFICES ASSUME NEW s \in Elements(r.wanted)
             PROVE  Readable(s.name, 80) /\ Readable(s.summary, 160)
  BY DEF SecretsReadable
<1>2. Plain(s.name) /\ Plain(s.summary)
  BY <1>1
<1> QED BY <1>2, PresentedIsReadable DEF SecretsProduced

\* So is a requirement of each kind.
LEMMA RequirementRoundTrips ==
  ASSUME NEW kind \in {"accounts", "secrets", "input", "approval"}, NEW r, NEW p,
         RequirementProduced(kind, r, p), \A text \in TextsOf(kind, r) : Plain(text)
  PROVE  RequirementReadable(kind, r)
<1>1. CASE kind = "input"
  BY <1>1, InputRoundTrips DEF RequirementProduced, RequirementReadable
<1>2. CASE kind = "approval"
  BY <1>2, ApprovalRoundTrips DEF RequirementProduced, RequirementReadable
<1>3. CASE kind = "accounts"
  <2>1. PrivateProduced(r, p, 1)
    BY <1>3 DEF RequirementProduced
  <2>2. Plain(r.name)
    BY <1>3 DEF TextsOf
  <2> QED BY <1>3, <2>1, <2>2, PrivateRoundTrips DEF RequirementReadable
<1>4. CASE kind = "secrets"
  <2>1. PrivateProduced(r, p, 64) /\ SecretsProduced(r)
    BY <1>4 DEF RequirementProduced
  <2>2. Plain(r.name)
    BY <1>4 DEF TextsOf
  <2>3. PrivateReadable(r, 64)
    BY <2>1, <2>2, PrivateRoundTrips
  <2>4. SecretsReadable(r)
    BY <1>4, <2>1, SecretsRoundTrip
  <2> QED BY <1>4, <2>3, <2>4 DEF RequirementReadable
<1> QED BY <1>1, <1>2, <1>3, <1>4

\* A pause with plain texts that its producer made is one that its reader takes.
LEMMA PendingRoundTrips ==
  ASSUME NEW kind, NEW rs, NEW p, Produced(kind, rs, p), PlainPause(kind, rs, p)
  PROVE  PendingReadable(p)
<1>1. TurnReadable(p)
  <2>1. p.round \in 0..7 /\ Cardinality(p.seen) \in 0..(64 * p.round) /\ Len(p.invoked) \in 0..(64 * p.round)
    BY DEF Produced, TurnProduced, MaxPowerRequests, MaxPowerRounds
  <2>2. Cardinality(p.seen) <= 512 /\ Len(p.invoked) <= 512
    BY <2>1
  <2> QED BY <2>2 DEF Produced, TurnProduced, TurnReadable, MaxPowerRequests
<1>2. LogsReadable(p)
  <2>1. \A i \in DOMAIN p.logs : Len(p.logs[i]) \in 1..MaxAnswersPerPower
    BY DEF Produced, LogsProduced
  <2>2. \A i \in DOMAIN p.logs : Len(p.logs[i]) <= MaxAnswersPerPower
    <3> SUFFICES ASSUME NEW i \in DOMAIN p.logs PROVE Len(p.logs[i]) <= 64
      BY DEF MaxAnswersPerPower
    <3>1. Len(p.logs[i]) \in 1..64
      BY <2>1 DEF MaxAnswersPerPower
    <3> QED BY <3>1, Within64, Zenon
  <2> QED BY <2>2 DEF LogsReadable, PlainPause
<1>3. IdentityReadable(p)
  BY PresentedIsReadable DEF Produced, IdentityProduced, IdentityReadable, PlainPause
<1> QED BY <1>1, <1>2, <1>3 DEF PendingReadable, Produced, IdentityProduced

\* What is produced is bound to the releases of the pause.
LEMMA ProducedIsBound ==
  ASSUME NEW kind, NEW rs, NEW p, Produced(kind, rs, p)
  PROVE  BindingsValid(kind, rs, p)
<1> SUFFICES ASSUME NEW r \in Elements(rs)
             PROVE  IF kind \in {"input", "approval"} THEN Bound(r, p) ELSE r.assistant \in DOMAIN p.identity.releases
  BY DEF BindingsValid
<1>1. RequirementProduced(kind, r, p) /\ kind \in {"accounts", "secrets", "input", "approval"}
  BY DEF Produced, RequirementsProduced
<1> QED BY <1>1 DEF RequirementProduced, PrivateProduced

\* test_local_chat_continuations.py:80: a pause is read back as it was encoded, for
\* every kind of suspension, if its texts are printable and trimmed and it has at
\* most MAX_ANSWER_LOGS answered interrupts.  The producers promise neither.
THEOREM RoundTrips ==
  ASSUME NEW kind, NEW rs, NEW p, NEW record,
         Produced(kind, rs, p), PlainPause(kind, rs, p), Fits(kind, rs, p),
         record.kind = kind, record.bindings = Encode(kind, rs, p).bindings,
         record.payload = Encode(kind, rs, p).payload
  PROVE  Decode(record) = Pause(kind, rs, p)
<1>1. Len(rs) \in 1..64 /\ rs # <<>>
  <2>1. Len(rs) \in IF kind \in {"input", "approval"} THEN {1} ELSE 1..64
    BY DEF Produced, RequirementsProduced
  <2>2. {1} \subseteq 1..64 /\ Len(<<>>) = 0
    OBVIOUS
  <2>3. Len(rs) \in 1..64
    BY <2>1, <2>2, Zenon
  <2>4. Len(rs) # 0
    BY <2>3, Within64, Zenon
  <2> QED BY <2>2, <2>3, <2>4, Zenon
<1>2. BindingsValid(kind, rs, p)
  BY ProducedIsBound
<1>3. record.payload = Pause(kind, rs, p) /\ record.bindings = Bindings(kind, rs, p)
  BY <1>1, <1>2 DEF Encode
<1>4. /\ record.payload.kind = kind /\ record.payload.requirements = rs /\ record.payload.pending = p
  BY <1>3 DEF Pause
<1>5. \A r \in Elements(rs) : RequirementReadable(kind, r)
  BY RequirementRoundTrips DEF Produced, RequirementsProduced, PlainPause
<1>6. PendingReadable(p)
  BY PendingRoundTrips
<1> QED BY <1>1, <1>2, <1>3, <1>4, <1>5, <1>6 DEF Decode

\* A stored continuation is never resumed with another release: an interaction
\* that is read back names the image its Assistant has in the same payload, and
\* the bindings the record was sealed with, whatever happened to the payload.
THEOREM DecodedBelongsToItsRelease ==
  ASSUME NEW record, Decode(record) # Refused
  PROVE  LET p == Decode(record).pending
             rs == Decode(record).requirements
         IN  /\ record.bindings = Bindings(record.kind, rs, p)
             /\ record.kind \in {"input", "approval"}
                  => \A r \in Elements(rs) : r.image = p.identity.releases[r.assistant]
<1> DEFINE rs == record.payload.requirements
           p == record.payload.pending
<1>1. /\ Decode(record) = record.payload /\ record.kind = record.payload.kind
      /\ BindingsValid(record.kind, rs, p) /\ record.bindings = Bindings(record.kind, rs, p)
  BY DEF Decode
<1>2. ASSUME record.kind \in {"input", "approval"}, NEW r \in Elements(rs)
      PROVE  r.image = p.identity.releases[r.assistant]
  BY <1>1, <1>2 DEF BindingsValid, Bound
<1> QED BY <1>1, <1>2

\* A record that _persist_chat_continuation wrote at some time for a plain pause,
\* of a challenge that had no more than its lifetime left.
Sealed(record, now) ==
  \E kind, rs, p :
    /\ Produced(kind, rs, p) /\ PlainPause(kind, rs, p) /\ Fits(kind, rs, p) /\ Pause(kind, rs, p) # Refused
    /\ record.kind = kind /\ record.bindings = Encode(kind, rs, p).bindings
    /\ record.payload = Encode(kind, rs, p).payload
    /\ record.expires \in Nat /\ record.expires <= now + Ttl

\* A Controller whose pauses were all plain starts again after any crash, at any
\* time, and every pause that has not expired is there again.
THEOREM StartsAgain ==
  ASSUME NEW store, NEW now \in Nat, \A t \in DOMAIN store : Sealed(store[t], now)
  PROVE  Starts(store, now)
<1> SUFFICES ASSUME NEW t \in DOMAIN store, store[t].expires > now
             PROVE  Restorable(store[t], now)
  BY DEF Starts, Active
<1>1. PICK kind, rs, p :
        /\ Produced(kind, rs, p) /\ PlainPause(kind, rs, p) /\ Fits(kind, rs, p) /\ Pause(kind, rs, p) # Refused
        /\ store[t].kind = kind /\ store[t].bindings = Encode(kind, rs, p).bindings
        /\ store[t].payload = Encode(kind, rs, p).payload
        /\ store[t].expires \in Nat /\ store[t].expires <= now + Ttl
  BY DEF Sealed
<1>2. Decode(store[t]) = Pause(kind, rs, p)
  BY <1>1, RoundTrips
<1>3. kind = "input" => Len(Decode(store[t]).requirements) = 1
  BY <1>1, <1>2 DEF Produced, RequirementsProduced, Pause
<1>4. store[t].expires - now \in 1..Ttl
  BY <1>1 DEF Ttl
<1> QED BY <1>1, <1>2, <1>3, <1>4 DEF Restorable

\* A pause of one Team leaves the records of the others as they are, and the store
\* within its capacity.
THEOREM PersistKeepsOthers ==
  ASSUME NEW store, NEW t, NEW challenge, NEW left, NEW now, NEW kind, NEW rs, NEW p,
         IsFiniteSet(DOMAIN store), Cardinality(DOMAIN store) <= MaxContinuations,
         Persist(store, t, challenge, left, now, kind, rs, p) # Refused
  PROVE  LET after == Persist(store, t, challenge, left, now, kind, rs, p)
         IN  /\ Cardinality(DOMAIN after) <= MaxContinuations
             /\ DOMAIN after = DOMAIN store \cup {t}
             /\ \A u \in DOMAIN store \ {t} : after[u] = store[u]
<1> DEFINE after == Persist(store, t, challenge, left, now, kind, rs, p)
<1>1. /\ t \in DOMAIN store \/ Cardinality(DOMAIN store) < MaxContinuations
      /\ DOMAIN after = DOMAIN store \cup {t}
      /\ \A u \in DOMAIN store \ {t} : after[u] = store[u]
  BY DEF Persist, Put
<1>2. CASE t \in DOMAIN store
  <2>1. DOMAIN store \cup {t} = DOMAIN store
    BY <1>2
  <2> QED BY <1>1, <2>1
<1>3. CASE t \notin DOMAIN store
  <2>1. Cardinality(DOMAIN store \cup {t}) = Cardinality(DOMAIN store) + 1 /\ Cardinality(DOMAIN store) \in Nat
    BY <1>3, FS_AddElement, FS_CardinalityType
  <2> QED BY <1>1, <1>3, <2>1 DEF MaxContinuations
<1> QED BY <1>1, <1>2, <1>3
=============================================================================
