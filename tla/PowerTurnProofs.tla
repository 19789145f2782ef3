--------------------------- MODULE PowerTurnProofs ---------------------------
(***************************************************************************)
(* Theorems about a Team's turns for both Controllers and for every number *)
(* of interrupts, results, rounds, answers, containers and crashes.        *)
(*                                                                         *)
(* AtMostOncePerEntry is not inductive.  IInv adds what the code relies on *)
(* without saying it: a Power RPC belongs to an entry that is executing,   *)
(* an entry has one RPC, and between begin and the RPC nothing has run.    *)
(*                                                                         *)
(* The second half is about the hosted Controller alone: HostedInv says    *)
(* that a batch runs in order and that a Team that is being destroyed      *)
(* admits nothing, OnceInv what the Brain, the journal and the runs know   *)
(* of each other; it ends with the refinement of PowerContract.            *)
(***************************************************************************)
EXTENDS PowerTurn, FiniteSetTheorems, TLAPS

USE DEF EntryState

\* The control states in which the turn holds a prepared batch.
MidBatch == {"invoke", "granted", "running", "pause", "deliver"}

\* A Power RPC that belongs to an entry is the only one of it, and the entry
\* is executing; what it brought about is what the RPC will report.
RpcsMatchRow ==
  \A r \in rpcs : r.entry # 0 =>
    /\ r.entry \in DOMAIN row
    /\ row[r.entry].state = "executing"
    /\ ran[r.entry] = IF r.out = NoResult THEN << >> ELSE <<r.out>>
    /\ \A s \in rpcs : s.entry = r.entry => s = r

\* The journal, what ran behind it, and what is running.
JournalInv ==
  /\ row \in Seq(Entry) /\ Len(row) <= MaxOperations
  /\ ran \in [1..MaxOperations -> Seq(Result)]
  /\ rpcs \in SUBSET Rpc
  /\ JournalTellsTheTruth
  /\ AtMostOncePerEntry
  /\ RpcsMatchRow

\* The turn that holds the chat lock.
TurnInv ==
  /\ pc \in {"idle", "round", "deleting", "purging", "removing"} \cup MidBatch
  /\ request \in Request /\ handle \in Seq(Operation) /\ results \in Seq(Result)
  /\ seen \in SUBSET Interrupt /\ round \in 0..MaxRounds
  /\ answers \in [Interrupt -> 0..MaxAnswers] /\ cancelled \in BOOLEAN
  /\ pc \in MidBatch =>
       /\ round < MaxRounds
       /\ Current(row, handle)
       /\ pc # "deliver" => DOMAIN handle = DOMAIN request
  /\ pc \in {"granted", "running", "pause"} => Ordinal \in DOMAIN request
  /\ pc = "granted" =>
       /\ row[Ordinal].state = "executing"
       /\ ran[Ordinal] = << >>
       /\ \A r \in rpcs : r.entry # Ordinal
  /\ pc = "pause" => answers[request[Ordinal]] < MaxAnswers

\* The surroundings of the turn.
TeamInv ==
  /\ brain \in Request /\ issued \in SUBSET Interrupt
  /\ parked \in Pause \cup {NoPark} /\ saved \in Pause \cup {NoPark}
  /\ container \in 1..MaxContainers /\ status \in {"running", "stopped", "absent"}
  /\ blocked \in BOOLEAN
  /\ account \in {"missing", "connected", "near", "expired"} /\ generation \in 0..MaxGeneration
  /\ account = "near" => generation < MaxGeneration
  /\ live \in BOOLEAN
  /\ canceller \in {"none", "stop", "stopTurn", "cancel", "destroy"}
  /\ produced \in [Interrupt -> Seq(Result)]
  /\ told \in [Interrupt -> Result \cup {NoResult}]
  /\ turnAnswered \in SUBSET Interrupt

IInv == JournalInv /\ TurnInv /\ TeamInv

-----------------------------------------------------------------------------
\* A request of the Brain is a bounded sequence of interrupts.
LEMMA RequestTyped ==
  ASSUME NEW b \in Request
  PROVE  b \in Seq(Interrupt) /\ Len(b) <= MaxOperations
<1>1. CASE b = << >>
  BY <1>1, TurnAssumption
<1>2. CASE b \in Batch
  <2>1. PICK n \in 1..MaxOperations : b \in [1..n -> Interrupt]
    BY <1>2 DEF Batch
  <2>2. QED
    BY <2>1, TurnAssumption
<1>3. QED
  BY <1>1, <1>2 DEF Request

\* What the Brain may answer is such a request.
LEMMA ReplyTyped ==
  ASSUME TeamInv, NEW next \in BrainReply
  PROVE  next \in Request /\ Range(next) \in SUBSET Interrupt
<1>1. next \in Request
  BY DEF BrainReply, TeamInv, Request
<1>2. next \in Seq(Interrupt)
  BY <1>1, RequestTyped
<1>3. QED
  BY <1>1, <1>2 DEF Range

\* The operations of a request are well typed, one for each interrupt.
LEMMA OperationsTyped ==
  ASSUME NEW b \in Request, NEW gen \in Nat, container \in Nat
  PROVE  /\ Operations(b, gen) \in Seq(Operation)
         /\ DOMAIN Operations(b, gen) = DOMAIN b
         /\ Len(Operations(b, gen)) <= MaxOperations
<1>1. b \in Seq(Interrupt) /\ Len(b) <= MaxOperations
  BY RequestTyped
<1>2. PICK n \in Nat : b \in [1..n -> Interrupt] /\ n <= MaxOperations
  BY <1>1
<1>3. Operations(b, gen) \in [1..n -> Operation]
  BY <1>2 DEF Operations, OperationOf, Operation
<1>4. QED
  BY <1>2, <1>3

\* A freshly inserted row is well typed, and all of it is prepared.
LEMMA InsertedTyped ==
  ASSUME NEW ops \in Seq(Operation)
  PROVE  /\ Inserted(ops) \in Seq(Entry)
         /\ Len(Inserted(ops)) = Len(ops)
         /\ DOMAIN Inserted(ops) = DOMAIN ops
         /\ \A k \in DOMAIN ops : Inserted(ops)[k].state = "prepared"
         /\ Fingerprint(Inserted(ops)) = ops
<1>1. PICK n \in Nat : ops \in [1..n -> Operation]
  OBVIOUS
<1>2. Inserted(ops) \in [1..n -> Entry]
  BY <1>1 DEF Inserted, Entry
<1>3. QED
  BY <1>1, <1>2 DEF Inserted, Fingerprint

\* An update of an entry: begin, complete and suspend.
Updates(r, k) ==
  {Begun(r, k), Suspended(r, k)} \cup {Completed(r, k, result) : result \in Result}

\* An update keeps the type of the row, its operations and its other entries.
LEMMA UpdateTyped ==
  ASSUME row \in Seq(Entry), NEW k \in DOMAIN row, NEW new \in Updates(row, k)
  PROVE  /\ new \in Seq(Entry)
         /\ Len(new) = Len(row)
         /\ DOMAIN new = DOMAIN row
         /\ Fingerprint(new) = Fingerprint(row)
         /\ \A j \in DOMAIN row : j # k => new[j] = row[j]
<1>1. PICK n \in Nat : row \in [1..n -> Entry]
  OBVIOUS
<1> DEFINE Good(r) == /\ r \in [1..n -> Entry]
                      /\ \A j \in 1..n : j # k => r[j] = row[j]
                      /\ r[k].op = row[k].op
<1>2. k \in 1..n /\ row[k] \in Entry
  BY <1>1
<1>3. Good(Begun(row, k)) /\ Good(Suspended(row, k))
  BY <1>1, <1>2 DEF Begun, Suspended, Entry
<1>4. ASSUME NEW result \in Result
      PROVE  Good(Completed(row, k, result))
  BY <1>1, <1>2 DEF Completed, Entry
<1>5. Good(new)
  BY <1>3, <1>4 DEF Updates
<1>6. Len(new) = Len(row) /\ DOMAIN new = DOMAIN row
  BY <1>1, <1>5
<1>7. QED
  BY <1>1, <1>5, <1>6 DEF Fingerprint

\* What an update leaves in its own entry.
LEMMA UpdatedEntry ==
  ASSUME row \in Seq(Entry), NEW k \in DOMAIN row
  PROVE  /\ Begun(row, k)[k].state = "executing"
         /\ Suspended(row, k)[k].state = "prepared"
         /\ \A result \in Result : /\ Completed(row, k, result)[k].state = "completed"
                                  /\ Completed(row, k, result)[k].result = result
<1>1. PICK n \in Nat : row \in [1..n -> Entry]
  OBVIOUS
<1>2. k \in 1..n /\ row[k] \in Entry
  BY <1>1
<1>3. Begun(row, k)[k].state = "executing" /\ Suspended(row, k)[k].state = "prepared"
  BY <1>1, <1>2 DEF Begun, Suspended, Entry
<1>4. ASSUME NEW result \in Result
      PROVE  /\ Completed(row, k, result)[k].state = "completed"
             /\ Completed(row, k, result)[k].result = result
  BY <1>1, <1>2 DEF Completed, Entry
<1>5. QED
  BY <1>3, <1>4

-----------------------------------------------------------------------------
\* RPCs end while the journal stays as it is.
LEMMA FewerRpcs ==
  ASSUME JournalInv, UNCHANGED journal, rpcs' \subseteq rpcs
  PROVE  JournalInv'
  BY DEF JournalInv, journal, JournalTellsTheTruth, AtMostOncePerEntry, RpcsMatchRow

\* A row disappears when no RPC is one of it.
LEMMA RowGone ==
  ASSUME JournalInv, row' = NoRow, ran' = NothingRan, rpcs' \in SUBSET Rpc,
         \A r \in rpcs' : r.entry = 0
  PROVE  JournalInv'
<1>1. row' \in Seq(Entry) /\ Len(row') <= MaxOperations /\ DOMAIN row' = {}
  BY TurnAssumption DEF NoRow
<1>2. ran' \in [1..MaxOperations -> Seq(Result)]
  BY DEF NothingRan
<1>3. QED
  BY <1>1, <1>2 DEF JournalInv, JournalTellsTheTruth, AtMostOncePerEntry, RpcsMatchRow

\* An RPC is one of an existing row.
LEMMA NoRowNoRpc ==
  ASSUME JournalInv, Deliverable(row)
  PROVE  \A r \in rpcs : r.entry = 0
  BY DEF JournalInv, RpcsMatchRow, Deliverable

\* prepare_batch finds its batch or inserts one of which nothing ran.
LEMMA PrepareKeepsJournal ==
  ASSUME IInv, PrepareBatch
  PROVE  JournalInv' /\ Current(row, handle)' /\ DOMAIN handle' = DOMAIN request
         /\ handle' \in Seq(Operation)
<1>1. container \in Nat /\ Resolved \in Nat
  BY TurnAssumption DEF IInv, TeamInv, Resolved
<1>2. /\ handle' \in Seq(Operation) /\ DOMAIN handle' = DOMAIN request
      /\ Len(handle') <= MaxOperations /\ rpcs' = rpcs
      /\ request # << >>
  BY <1>1, OperationsTyped DEF PrepareBatch, IInv, TurnInv, workload, ResolveAccount, RoundAdmitted
<1>3. CASE row = NoRow /\ row' = Inserted(handle') /\ ran' = NothingRan
  <2>1. /\ row' \in Seq(Entry) /\ Len(row') <= MaxOperations
        /\ DOMAIN row' = DOMAIN handle' /\ Fingerprint(row') = handle'
        /\ \A k \in DOMAIN row' : row'[k].state = "prepared"
    BY <1>2, <1>3, InsertedTyped
  <2>2. \A r \in rpcs' : r.entry = 0
    BY <1>2, <1>3 DEF IInv, JournalInv, RpcsMatchRow, NoRow
  <2>3. DOMAIN row' \subseteq 1..MaxOperations
    BY <2>1, TurnAssumption
  <2>4. /\ ran' \in [1..MaxOperations -> Seq(Result)]
        /\ \A k \in DOMAIN row' : ran'[k] = << >>
    BY <1>3, <2>3 DEF NothingRan
  <2>5. JournalInv'
    BY <1>2, <2>1, <2>2, <2>4
       DEF IInv, JournalInv, JournalTellsTheTruth, AtMostOncePerEntry, RpcsMatchRow
  <2>6. row' # NoRow
    <3>1. request \in Seq(Interrupt)
      BY RequestTyped DEF IInv, TurnInv
    <3>2. DOMAIN row' # {}
      BY <1>2, <2>1, <3>1
    <3>3. QED
      BY <3>2 DEF NoRow
  <2>7. QED
    BY <1>2, <2>1, <2>5, <2>6 DEF Current
<1>4. CASE Current(row, handle') /\ UNCHANGED journal
  <2>1. JournalInv'
    BY <1>2, <1>4, FewerRpcs DEF IInv
  <2>2. QED
    BY <1>2, <1>4, <2>1 DEF Current, journal
<1>5. QED
  BY <1>3, <1>4 DEF PrepareBatch

\* An entry of the row the turn works on.
LEMMA CurrentDomain ==
  ASSUME NEW r, NEW ops, Current(r, ops)
  PROVE  DOMAIN ops = DOMAIN r
  BY DEF Current, Fingerprint

\* One entry is updated so that it says what happened, and no RPC of it is
\* left unless it is executing.
LEMMA UpdateKeepsJournal ==
  ASSUME JournalInv, NEW k \in DOMAIN row, row' \in Updates(row, k),
         ran' = ran, rpcs' \subseteq rpcs,
         row'[k].state = "prepared" => ran[k] = << >>,
         row'[k].state = "completed" => ran[k] = <<row'[k].result>>,
         \A r \in rpcs' : r.entry = k => row'[k].state = "executing"
  PROVE  /\ JournalInv'
         /\ DOMAIN row' = DOMAIN row
         /\ \A ops : Current(row, ops) => Current(row', ops)
<1>1. row \in Seq(Entry)
  BY DEF JournalInv
<1>2. /\ row' \in Seq(Entry) /\ Len(row') = Len(row) /\ DOMAIN row' = DOMAIN row
      /\ Fingerprint(row') = Fingerprint(row)
      /\ \A j \in DOMAIN row : j # k => row'[j] = row[j]
  BY <1>1, UpdateTyped
<1>3. /\ row' \in Seq(Entry) /\ Len(row') <= MaxOperations
      /\ ran' \in [1..MaxOperations -> Seq(Result)]
      /\ rpcs' \in SUBSET Rpc
  BY <1>2 DEF JournalInv
<1>4. JournalTellsTheTruth'
  BY <1>2 DEF JournalInv, JournalTellsTheTruth
<1>5. AtMostOncePerEntry'
  BY <1>2 DEF JournalInv, AtMostOncePerEntry
<1>6. RpcsMatchRow'
  BY <1>2 DEF JournalInv, RpcsMatchRow
<1>7. row' # NoRow
  BY <1>2 DEF NoRow
<1>8. \A ops : Current(row, ops) => Current(row', ops)
  BY <1>2, <1>7 DEF Current
<1>9. QED
  BY <1>2, <1>3, <1>4, <1>5, <1>6, <1>8 DEF JournalInv

\* Nothing runs for an entry that is not executing.
LEMMA OnlyExecutingRuns ==
  ASSUME JournalInv, NEW k \in 1..MaxOperations, row[k].state # "executing"
  PROVE  \A r \in rpcs : r.entry # k
<1> SUFFICES ASSUME NEW r \in rpcs, r.entry = k
             PROVE  FALSE
  OBVIOUS
<1>1. k # 0
  BY TurnAssumption
<1>2. QED
  BY <1>1 DEF JournalInv, RpcsMatchRow

\* The operation the turn works on is an entry of its row.
LEMMA OrdinalInRow ==
  ASSUME IInv, pc \in {"invoke", "granted", "running", "pause"},
         pc = "invoke" => Ordinal <= Len(handle)
  PROVE  /\ Ordinal \in DOMAIN request /\ Ordinal \in DOMAIN handle
         /\ Ordinal \in DOMAIN row /\ Ordinal \in 1..MaxOperations
         /\ row[Ordinal] \in Entry
         /\ Current(row, handle)
<1>1. /\ row \in Seq(Entry) /\ Len(row) <= MaxOperations
      /\ results \in Seq(Result) /\ handle \in Seq(Operation)
      /\ DOMAIN handle = DOMAIN request /\ Current(row, handle)
  BY DEF IInv, JournalInv, TurnInv, MidBatch
<1>2. Ordinal \in DOMAIN handle
  <2>1. CASE pc = "invoke"
    BY <1>1, <2>1 DEF Ordinal
  <2>2. CASE pc # "invoke"
    BY <1>1, <2>2 DEF IInv, TurnInv
  <2>3. QED
    BY <2>1, <2>2
<1>3. DOMAIN handle = DOMAIN row
  BY <1>1, CurrentDomain
<1>4. Ordinal \in 1..MaxOperations /\ row[Ordinal] \in Entry
  BY <1>1, <1>2, <1>3, TurnAssumption
<1>5. QED
  BY <1>1, <1>2, <1>3, <1>4

\* begin marks a prepared entry, of which nothing ran and nothing runs.
LEMMA BeginKeepsJournal ==
  ASSUME IInv, BeginPower
  PROVE  /\ JournalInv'
         /\ Current(row, handle)'
         /\ Ordinal \in DOMAIN request
         /\ row'[Ordinal].state = "executing"
         /\ ran'[Ordinal] = << >>
         /\ \A r \in rpcs' : r.entry # Ordinal
<1>1. pc = "invoke" /\ Ordinal <= Len(handle)
  BY DEF BeginPower, InvocationCurrent
<1>2. /\ Ordinal \in DOMAIN request /\ Ordinal \in DOMAIN row /\ Ordinal \in 1..MaxOperations
      /\ row \in Seq(Entry) /\ Current(row, handle)
  BY <1>1, OrdinalInRow DEF IInv, JournalInv
<1>3. /\ row[Ordinal].state = "prepared" /\ row' = Begun(row, Ordinal)
      /\ ran' = ran /\ rpcs' = rpcs /\ handle' = handle
  BY DEF BeginPower, MayExecute, workload
<1>4. row' \in Updates(row, Ordinal) /\ row'[Ordinal].state = "executing"
  BY <1>2, <1>3, UpdatedEntry DEF Updates
<1>5. ran[Ordinal] = << >>
  BY <1>2, <1>3 DEF IInv, JournalInv, JournalTellsTheTruth
<1>6. \A r \in rpcs : r.entry # Ordinal
  BY <1>2, <1>3, OnlyExecutingRuns DEF IInv
<1>7. JournalInv /\ rpcs' \subseteq rpcs
  BY <1>3 DEF IInv
<1>8. JournalInv' /\ \A ops : Current(row, ops) => Current(row', ops)
  BY <1>2, <1>3, <1>4, <1>7, UpdateKeepsJournal
<1>9. QED
  BY <1>2, <1>3, <1>4, <1>5, <1>6, <1>8

\* An RPC starts for an entry that nothing runs for.
LEMMA DispatchKeepsJournal ==
  ASSUME IInv, DispatchPower
  PROVE  JournalInv'
<1> DEFINE new == [entry |-> Ordinal, interrupt |-> request[Ordinal], out |-> NoResult]
<1>1. pc = "granted" /\ UNCHANGED journal /\ rpcs' = rpcs \cup {new}
  BY DEF DispatchPower
<1>2. /\ Ordinal \in DOMAIN request /\ Ordinal \in DOMAIN row /\ Ordinal \in 1..MaxOperations
  BY <1>1, OrdinalInRow
<1>3. /\ row[Ordinal].state = "executing" /\ ran[Ordinal] = << >>
      /\ \A r \in rpcs : r.entry # Ordinal
  BY <1>1 DEF IInv, TurnInv
<1>4. request \in Seq(Interrupt)
  BY RequestTyped DEF IInv, TurnInv
<1>5. new \in Rpc /\ new.entry = Ordinal /\ new.out = NoResult
  BY <1>2, <1>4, TurnAssumption DEF Rpc
<1>6. RpcsMatchRow'
  <2> SUFFICES ASSUME NEW r \in rpcs', r.entry # 0
               PROVE  /\ r.entry \in DOMAIN row
                      /\ row[r.entry].state = "executing"
                      /\ ran[r.entry] = IF r.out = NoResult THEN << >> ELSE <<r.out>>
                      /\ \A s \in rpcs' : s.entry = r.entry => s = r
    BY <1>1 DEF RpcsMatchRow, journal
  <2>1. CASE r = new
    BY <1>1, <1>2, <1>3, <1>5, <2>1
  <2>2. CASE r \in rpcs
    BY <1>1, <1>3, <1>5, <2>2 DEF IInv, JournalInv, RpcsMatchRow
  <2>3. QED
    BY <1>1, <2>1, <2>2
<1>7. QED
  BY <1>1, <1>5, <1>6 DEF IInv, JournalInv, JournalTellsTheTruth, AtMostOncePerEntry, journal

\* A side effect happens: the entry it belongs to has run once.
LEMMA PowerRunsKeepsJournal ==
  ASSUME IInv, NEW r \in rpcs, PowerRuns(r)
  PROVE  /\ JournalInv' /\ UNCHANGED row
         /\ \A k \in 1..MaxOperations :
              (\A s \in rpcs : s.entry # k) =>
                ran'[k] = ran[k] /\ \A s \in rpcs' : s.entry # k
<1>1. PICK v \in Result :
        /\ rpcs' = (rpcs \ {r}) \cup {[r EXCEPT !.out = v]}
        /\ ran' = IF r.entry = 0 THEN ran ELSE [ran EXCEPT ![r.entry] = Append(@, v)]
  BY DEF PowerRuns
<1> DEFINE new == [r EXCEPT !.out = v]
<1>2. r.out = NoResult /\ row' = row
  BY DEF PowerRuns
<1>3. r \in Rpc /\ new \in Rpc /\ new.entry = r.entry /\ new.out = v /\ v # NoResult
  BY TurnAssumption DEF IInv, JournalInv, Rpc
<1>4. /\ row \in Seq(Entry) /\ Len(row) <= MaxOperations
      /\ ran \in [1..MaxOperations -> Seq(Result)]
  BY DEF IInv, JournalInv
<1>5. DOMAIN row \subseteq 1..MaxOperations
  BY <1>4, TurnAssumption
<1>6. r.entry # 0 => /\ r.entry \in DOMAIN row /\ row[r.entry].state = "executing"
                     /\ ran[r.entry] = << >>
                     /\ \A s \in rpcs : s.entry = r.entry => s = r
  BY <1>2 DEF IInv, JournalInv, RpcsMatchRow
<1>7. r.entry # 0 => ran' = [ran EXCEPT ![r.entry] = <<v>>] /\ ran'[r.entry] = <<v>>
  <2> SUFFICES ASSUME r.entry # 0
               PROVE  ran' = [ran EXCEPT ![r.entry] = <<v>>] /\ ran'[r.entry] = <<v>>
    OBVIOUS
  <2>1. ran[r.entry] = << >> /\ r.entry \in 1..MaxOperations
    BY <1>5, <1>6
  <2>2. ran' = [ran EXCEPT ![r.entry] = Append(ran[r.entry], v)]
    BY <1>1
  <2>3. Append(<< >>, v) = <<v>>
    OBVIOUS
  <2>4. ran' = [ran EXCEPT ![r.entry] = <<v>>]
    BY <2>1, <2>2, <2>3, Zenon
  <2>5. QED
    BY <1>4, <2>1, <2>4
<1>8. \A k \in 1..MaxOperations : k # r.entry => ran'[k] = ran[k]
  BY <1>1, <1>4
<1>9. ran' \in [1..MaxOperations -> Seq(Result)]
  <2>1. CASE r.entry = 0
    BY <1>1, <1>4, <2>1
  <2>2. CASE r.entry # 0
    <3>1. <<v>> \in Seq(Result)
      OBVIOUS
    <3>2. QED
      BY <1>4, <1>7, <2>2, <3>1
  <2>3. QED
    BY <2>1, <2>2
<1>10. JournalTellsTheTruth'
  BY <1>2, <1>5, <1>6, <1>8 DEF IInv, JournalInv, JournalTellsTheTruth
<1>11. AtMostOncePerEntry'
  <2> SUFFICES ASSUME NEW k \in DOMAIN row PROVE Len(ran'[k]) <= 1
    BY <1>2 DEF AtMostOncePerEntry
  <2>1. CASE k = r.entry
    <3>1. k # 0
      BY <1>5, TurnAssumption
    <3>2. Len(<<v>>) = 1
      OBVIOUS
    <3>3. ran'[k] = <<v>>
      BY <1>7, <2>1, <3>1
    <3>4. QED
      BY <3>2, <3>3
  <2>2. CASE k # r.entry
    BY <1>5, <1>8, <2>2 DEF IInv, JournalInv, AtMostOncePerEntry
  <2>3. QED
    BY <2>1, <2>2
<1>12. RpcsMatchRow'
  <2> SUFFICES ASSUME NEW s \in rpcs', s.entry # 0
               PROVE  /\ s.entry \in DOMAIN row
                      /\ row[s.entry].state = "executing"
                      /\ ran'[s.entry] = IF s.out = NoResult THEN << >> ELSE <<s.out>>
                      /\ \A t \in rpcs' : t.entry = s.entry => t = s
    BY <1>2 DEF RpcsMatchRow
  <2>1. CASE s = new
    BY <1>1, <1>3, <1>6, <1>7, <2>1
  <2>2. CASE s \in rpcs \ {r}
    <3>1. s.entry # r.entry
      BY <1>6, <2>2
    <3>2. s.entry \in DOMAIN row /\ ran'[s.entry] = ran[s.entry]
      BY <1>5, <1>8, <2>2, <3>1 DEF IInv, JournalInv, RpcsMatchRow
    <3>3. QED
      BY <1>1, <1>3, <2>2, <3>1, <3>2 DEF IInv, JournalInv, RpcsMatchRow
  <2>3. QED
    BY <1>1, <2>1, <2>2
<1>13. \A k \in 1..MaxOperations :
         (\A s \in rpcs : s.entry # k) => ran'[k] = ran[k] /\ \A s \in rpcs' : s.entry # k
  BY <1>1, <1>3, <1>8
<1>14. QED
  BY <1>1, <1>2, <1>3, <1>4, <1>9, <1>10, <1>11, <1>12, <1>13 DEF IInv, JournalInv

\* The result of the one run is stored with its entry.
LEMMA CompleteKeepsJournal ==
  ASSUME IInv, NEW r \in rpcs, ReplyCompletes(r)
  PROVE  JournalInv' /\ Current(row, handle)' /\ r.out \in Result
<1>1. /\ pc = "running" /\ r.entry = Ordinal /\ r.out # NoResult
      /\ row' = Completed(row, Ordinal, r.out) /\ ran' = ran
      /\ rpcs' = rpcs \ {r} /\ handle' = handle
  BY DEF ReplyCompletes
<1>2. /\ Ordinal \in DOMAIN row /\ Ordinal \in 1..MaxOperations /\ Current(row, handle)
      /\ row \in Seq(Entry) /\ Ordinal # 0
  BY <1>1, OrdinalInRow, TurnAssumption DEF IInv, JournalInv
<1>3. r.out \in Result
  BY <1>1 DEF IInv, JournalInv, Rpc
<1>4. row' \in Updates(row, Ordinal)
  BY <1>1, <1>3 DEF Updates
<1>5. row'[Ordinal].state = "completed" /\ row'[Ordinal].result = r.out
  BY <1>1, <1>2, <1>3, UpdatedEntry
<1>6. ran[Ordinal] = <<r.out>> /\ \A s \in rpcs : s.entry = Ordinal => s = r
  BY <1>1, <1>2 DEF IInv, JournalInv, RpcsMatchRow
<1>7. JournalInv /\ rpcs' \subseteq rpcs /\ \A s \in rpcs' : s.entry # Ordinal
  BY <1>1, <1>6 DEF IInv
<1>8. JournalInv' /\ \A ops : Current(row, ops) => Current(row', ops)
  BY <1>1, <1>2, <1>4, <1>5, <1>6, <1>7, UpdateKeepsJournal
<1>9. QED
  BY <1>1, <1>2, <1>3, <1>8

\* A Power that asked a person has not run: its entry may be prepared again.
LEMMA SuspendKeepsJournal ==
  ASSUME IInv, NEW r \in rpcs, ReplySuspends(r)
  PROVE  JournalInv' /\ Current(row', handle)
<1>1. /\ pc = "running" /\ r.entry = Ordinal /\ r.out = NoResult
      /\ row' = Suspended(row, Ordinal) /\ ran' = ran /\ rpcs' = rpcs \ {r}
  BY DEF ReplySuspends, Interacted
<1>2. /\ Ordinal \in DOMAIN row /\ Ordinal \in 1..MaxOperations /\ Current(row, handle)
      /\ row \in Seq(Entry) /\ Ordinal # 0
  BY <1>1, OrdinalInRow, TurnAssumption DEF IInv, JournalInv
<1>3. row' \in Updates(row, Ordinal) /\ row'[Ordinal].state = "prepared"
  BY <1>1, <1>2, UpdatedEntry DEF Updates
<1>4. ran[Ordinal] = << >> /\ \A s \in rpcs : s.entry = Ordinal => s = r
  BY <1>1, <1>2 DEF IInv, JournalInv, RpcsMatchRow
<1>5. JournalInv /\ rpcs' \subseteq rpcs /\ \A s \in rpcs' : s.entry # Ordinal
  BY <1>1, <1>4 DEF IInv
<1>6. JournalInv' /\ \A ops : Current(row, ops) => Current(row', ops)
  BY <1>1, <1>2, <1>3, <1>4, <1>5, UpdateKeepsJournal
<1>7. QED
  BY <1>2, <1>6

\* delivered deletes a row of which every operation is complete.
LEMMA DeliverKeepsJournal ==
  ASSUME IInv, DeliverBatch
  PROVE  JournalInv'
<1>1. /\ pc = "deliver" /\ row' = NoRow /\ ran' = NothingRan /\ rpcs' = rpcs
      /\ Current(row, handle) => Deliverable(row)
  BY DEF DeliverBatch, workload
<1>2. Current(row, handle)
  BY <1>1 DEF IInv, TurnInv, MidBatch
<1>3. \A r \in rpcs : r.entry = 0
  BY <1>1, <1>2, NoRowNoRpc DEF IInv
<1>4. JournalInv /\ rpcs' \in SUBSET Rpc
  BY <1>1 DEF IInv, JournalInv
<1>5. QED
  BY <1>1, <1>3, <1>4, RowGone

\* purge deletes any row; what still runs is no longer one of it.
LEMMA PurgeKeepsJournal ==
  ASSUME IInv, DestroyPurges
  PROVE  JournalInv'
<1>1. /\ row' = NoRow /\ ran' = NothingRan
      /\ rpcs' = {[r EXCEPT !.entry = 0] : r \in rpcs}
  BY DEF DestroyPurges
<1>2. JournalInv
  BY DEF IInv
<1>3. ASSUME NEW r \in rpcs
      PROVE  [r EXCEPT !.entry = 0] \in Rpc /\ [r EXCEPT !.entry = 0].entry = 0
  <2>1. r \in Rpc /\ 0 \in 0..MaxOperations
    BY <1>2, TurnAssumption DEF JournalInv
  <2>2. QED
    BY <2>1 DEF Rpc
<1>4. rpcs' \in SUBSET Rpc /\ \A r \in rpcs' : r.entry = 0
  BY <1>1, <1>3
<1>5. QED
  BY <1>1, <1>2, <1>4, RowGone

-----------------------------------------------------------------------------
\* The steps that touch neither the row nor what ran; some end RPCs.
Frame == UNCHANGED journal /\ rpcs' \subseteq rpcs

\* Such a step keeps what is said of the journal.
LEMMA FrameKeepsJournal ==
  ASSUME IInv, Frame
  PROVE  JournalInv'
BY FewerRpcs DEF Frame, IInv

\* The steps of the turn's thread that are such frame steps.
LEMMA TurnFrame ==
  ASSUME CompleteTurn \/ ParkForAccount \/ PrepareIsRefused \/ UseStoredResult
         \/ InvokeIsRefused \/ ReplyFails \/ RpcTimesOut \/ ParkForAnswer \/ GrantReplays
         \/ ResumeTurn \/ ResumeIsLost \/ AbortTurn
  PROVE  Frame
<1>1. CASE CompleteTurn \/ ParkForAccount \/ PrepareIsRefused \/ UseStoredResult \/ InvokeIsRefused
  BY <1>1 DEF Frame, workload, CompleteTurn, ParkForAccount, PrepareIsRefused, UseStoredResult,
              InvokeIsRefused
<1>2. CASE ReplyFails \/ RpcTimesOut
  BY <1>2 DEF Frame, ReplyFails, RpcTimesOut, FailStop
<1>3. CASE ParkForAnswer \/ GrantReplays \/ ResumeTurn \/ ResumeIsLost \/ AbortTurn
  BY <1>3 DEF Frame, workload, ParkForAnswer, GrantReplays, ResumeTurn, ResumeIsLost, AbortTurn
<1>4. QED
  BY <1>1, <1>2, <1>3

\* What happens around the turn is a frame step too, but for a Power that
\* runs and for the purge.
LEMMA SurroundingsFrame ==
  ASSUME Surroundings, ~(\E r \in rpcs : PowerRuns(r)), ~DestroyPurges
  PROVE  Frame
<1>1. CASE StartTurn \/ StartIsLost \/ ClaimParked \/ ClaimIsRefused \/ ChallengeExpires \/ StopChat
  BY <1>1 DEF Frame, workload, StartTurn, StartIsLost, ClaimParked, ClaimIsRefused,
              ChallengeExpires, StopChat
<1>2. CASE StopMarksTurn \/ CrashController \/ DestroyMarksTurn
  BY <1>2 DEF Frame, workload, StopMarksTurn, CrashController, DestroyMarksTurn, CancelTurn, FailStop
<1>3. CASE \E r \in rpcs : OrphanExits(r)
  BY <1>3 DEF Frame, OrphanExits
<1>4. CASE ConnectAccount \/ DisconnectAccount \/ TokenAges \/ DirectInvocation
  BY <1>4 DEF Frame, workload, ConnectAccount, DisconnectAccount, TokenAges, DirectInvocation
<1>5. CASE ContainerExits \/ InstallAssistant \/ UninstallAssistant
  BY <1>5 DEF Frame, ContainerExits, InstallAssistant, UninstallAssistant
<1>6. CASE DestroyTeam \/ DestroyHostedTeam \/ DestroyBegins \/ DestroyDeletesThread \/ DestroyGivesUp
  BY <1>6 DEF Frame, workload, DestroyTeam, DestroyHostedTeam, DestroyBegins,
              DestroyDeletesThread, DestroyGivesUp
<1>7. CASE DestroyFails \/ DestroyFinishes \/ ResetSpace
  BY <1>7 DEF Frame, DestroyFails, DestroyFinishes, ResetSpace, TeamIsGone, ContainersGone
<1>8. QED
  BY <1>1, <1>2, <1>3, <1>4, <1>5, <1>6, <1>7 DEF Surroundings

\* No step of the system makes the journal say what did not happen.
LEMMA JournalStep ==
  ASSUME IInv, Next
  PROVE  JournalInv'
<1>1. CASE TurnStep
  <2>1. CASE PrepareBatch
    BY <2>1, PrepareKeepsJournal
  <2>2. CASE BeginPower
    BY <2>2, BeginKeepsJournal
  <2>3. CASE DispatchPower
    BY <2>3, DispatchKeepsJournal
  <2>4. CASE \E r \in rpcs : ReplyCompletes(r)
    BY <2>4, CompleteKeepsJournal
  <2>5. CASE \E r \in rpcs : ReplySuspends(r)
    BY <2>5, SuspendKeepsJournal
  <2>6. CASE DeliverBatch
    BY <2>6, DeliverKeepsJournal
  <2>7. QED
    BY <1>1, <2>1, <2>2, <2>3, <2>4, <2>5, <2>6, TurnFrame, FrameKeepsJournal DEF TurnStep
<1>2. CASE Surroundings
  <2>1. CASE \E r \in rpcs : PowerRuns(r)
    BY <2>1, PowerRunsKeepsJournal
  <2>2. CASE DestroyPurges
    BY <2>2, PurgeKeepsJournal
  <2>3. QED
    BY <1>2, <2>1, <2>2, SurroundingsFrame, FrameKeepsJournal
<1>3. QED
  BY <1>1, <1>2 DEF Next

-----------------------------------------------------------------------------
\* The turn is over: nothing of it is left.
LEMMA TurnOverKeepsTurn ==
  ASSUME TurnOver
  PROVE  TurnInv'
<1>1. NoAnswers \in [Interrupt -> 0..MaxAnswers]
  BY TurnAssumption DEF NoAnswers
<1>2. /\ request' \in Request /\ handle' \in Seq(Operation) /\ results' \in Seq(Result)
      /\ seen' \in SUBSET Interrupt /\ answers' \in [Interrupt -> 0..MaxAnswers]
  BY <1>1 DEF TurnOver, Request
<1>3. 0 \in 0..MaxRounds
  BY TurnAssumption
<1>4. round' \in 0..MaxRounds
  BY <1>3, Zenon DEF TurnOver
<1>5. cancelled' \in BOOLEAN
  BY Zenon DEF TurnOver
<1>6. pc' = "idle"
  BY DEF TurnOver
<1>7. QED
  BY <1>2, <1>4, <1>5, <1>6 DEF TurnInv, MidBatch

\* The turn, but for its cancellation, is left alone by a frame step.
LEMMA FrameKeepsTurn ==
  ASSUME IInv, Frame, cancelled' \in BOOLEAN,
         UNCHANGED <<pc, request, handle, results, seen, round, answers>>
  PROVE  TurnInv'
BY DEF IInv, TurnInv, Frame, journal, Ordinal, Current, MidBatch

\* The chat lock is held by a destroy, or by nobody.
LEMMA OutsideTurn ==
  ASSUME IInv, pc' \in {"idle", "deleting", "purging", "removing"},
         UNCHANGED <<request, handle, results, seen, round, answers, cancelled>>
  PROVE  TurnInv'
BY DEF IInv, TurnInv, MidBatch

\* One more answer is still within the ordinals.
LEMMA AnswerTyped ==
  ASSUME IInv, pc = "pause"
  PROVE  OneMoreAnswer \in [Interrupt -> 0..MaxAnswers]
<1>1. request \in Seq(Interrupt) /\ Ordinal \in DOMAIN request
  BY RequestTyped DEF IInv, TurnInv
<1>2. request[Ordinal] \in Interrupt
  BY <1>1
<1>3. answers[request[Ordinal]] \in 0..MaxAnswers /\ answers[request[Ordinal]] < MaxAnswers
      /\ answers \in [Interrupt -> 0..MaxAnswers]
  BY <1>2 DEF IInv, TurnInv
<1>4. answers[request[Ordinal]] + 1 \in 0..MaxAnswers
  BY <1>3, TurnAssumption
<1>5. QED
  BY <1>3, <1>4 DEF OneMoreAnswer

\* A step of the turn's own thread keeps the control state of the turn.
LEMMA TurnStepKeepsTurn ==
  ASSUME IInv, TurnStep
  PROVE  TurnInv'
<1>1. CASE CompleteTurn \/ ParkForAccount \/ PrepareIsRefused \/ InvokeIsRefused \/ ReplyFails
           \/ RpcTimesOut \/ ParkForAnswer \/ ResumeIsLost \/ AbortTurn
  <2>1. TurnOver
    BY <1>1 DEF CompleteTurn, ParkForAccount, PrepareIsRefused, InvokeIsRefused,
       ReplyFails, RpcTimesOut, ParkForAnswer, ResumeIsLost, AbortTurn, Park
  <2>2. QED
    BY <2>1, TurnOverKeepsTurn
<1>2. CASE PrepareBatch
  <2>1. /\ pc' = "invoke" /\ round < MaxRounds
        /\ UNCHANGED <<request, results, seen, round, answers, cancelled>>
    BY <1>2 DEF PrepareBatch, RoundAdmitted
  <2>2. Current(row, handle)' /\ DOMAIN handle' = DOMAIN request /\ handle' \in Seq(Operation)
    BY <1>2, PrepareKeepsJournal
  <2>3. QED
    BY <2>1, <2>2 DEF IInv, TurnInv, MidBatch
<1>3. CASE BeginPower
  <2>1. /\ pc = "invoke" /\ pc' = "granted" /\ UNCHANGED results
        /\ UNCHANGED <<request, handle, seen, round, answers, cancelled>>
    BY <1>3 DEF BeginPower, InvocationCurrent
  <2>2. Ordinal' = Ordinal
    BY <2>1 DEF Ordinal
  <2>3. /\ Current(row, handle)' /\ Ordinal \in DOMAIN request
        /\ row'[Ordinal].state = "executing" /\ ran'[Ordinal] = << >>
        /\ \A r \in rpcs' : r.entry # Ordinal
    BY <1>3, BeginKeepsJournal
  <2>4. QED
    BY <2>1, <2>2, <2>3 DEF IInv, TurnInv, MidBatch
<1>4. CASE UseStoredResult
  <2>1. /\ pc = "invoke" /\ pc' = pc /\ UNCHANGED journal /\ Ordinal <= Len(handle)
        /\ results' = Append(results, row[Ordinal].result)
        /\ row[Ordinal].state = "completed"
        /\ UNCHANGED <<request, handle, seen, round, answers, cancelled>>
    BY <1>4 DEF UseStoredResult, InvocationCurrent
  <2>2. Ordinal \in DOMAIN row
    BY <2>1, OrdinalInRow
  <2>3. ran[Ordinal] = <<row[Ordinal].result>> /\ ran[Ordinal] \in Seq(Result)
    BY <2>1, <2>2, TurnAssumption DEF IInv, JournalInv, JournalTellsTheTruth
  <2>4. row[Ordinal].result \in Result
    <3>1. Len(ran[Ordinal]) = 1 /\ ran[Ordinal][1] = row[Ordinal].result
      BY <2>3
    <3>2. QED
      BY <2>3, <3>1
  <2>5. results' \in Seq(Result)
    BY <2>1, <2>4 DEF IInv, TurnInv
  <2>6. QED
    BY <2>1, <2>5 DEF IInv, TurnInv, MidBatch, journal, Current
<1>5. CASE DispatchPower
  <2>1. /\ pc = "granted" /\ pc' = "running" /\ UNCHANGED journal
        /\ UNCHANGED <<request, handle, results, seen, round, answers, cancelled>>
    BY <1>5 DEF DispatchPower
  <2>2. QED
    BY <2>1 DEF IInv, TurnInv, MidBatch, journal, Current, Ordinal
<1>6. CASE \E r \in rpcs : ReplyCompletes(r)
  <2>1. PICK r \in rpcs : ReplyCompletes(r)
    BY <1>6
  <2>2. /\ pc = "running" /\ pc' = "invoke" /\ results' = Append(results, r.out)
        /\ UNCHANGED <<request, handle, seen, round, answers, cancelled>>
    BY <2>1 DEF ReplyCompletes
  <2>3. Current(row, handle)' /\ r.out \in Result
    BY <2>1, CompleteKeepsJournal
  <2>4. results' \in Seq(Result)
    BY <2>2, <2>3 DEF IInv, TurnInv
  <2>5. QED
    BY <2>2, <2>3, <2>4 DEF IInv, TurnInv, MidBatch
<1>7. CASE \E r \in rpcs : ReplySuspends(r)
  <2>1. PICK r \in rpcs : ReplySuspends(r)
    BY <1>7
  <2>2. pc = "running" /\ Current(row', handle)
    BY <2>1, SuspendKeepsJournal DEF ReplySuspends
  <2>3. CASE TurnOver
    BY <2>3, TurnOverKeepsTurn
  <2>4. CASE /\ answers[request[Ordinal]] < MaxAnswers /\ pc' = "pause"
             /\ UNCHANGED <<request, handle, results, seen, round, answers, cancelled>>
    BY <2>2, <2>4 DEF IInv, TurnInv, MidBatch, Ordinal
  <2>5. QED
    BY <2>1, <2>3, <2>4 DEF ReplySuspends
<1>8. CASE GrantReplays
  <2>1. /\ pc = "pause" /\ pc' = "round" /\ handle' = << >> /\ results' = << >>
        /\ answers' = OneMoreAnswer /\ UNCHANGED <<request, seen, round, cancelled>>
    BY <1>8 DEF GrantReplays
  <2>2. QED
    BY <2>1, AnswerTyped DEF IInv, TurnInv, MidBatch
<1>9. CASE ResumeTurn
  <2>1. PICK next \in BrainReply \ {request} :
          BrainAnswers(next) /\ request' = next
    BY <1>9 DEF ResumeTurn
  <2>2. /\ pc = "invoke" /\ pc' = "deliver" /\ seen' = seen \cup Range(request)
        /\ UNCHANGED <<row, handle, results, round, answers, cancelled>>
    BY <1>9 DEF ResumeTurn, MayResume, journal
  <2>3. next \in Request
    BY <2>1, ReplyTyped DEF IInv
  <2>4. request \in Seq(Interrupt)
    BY RequestTyped DEF IInv, TurnInv
  <2>5. seen' \in SUBSET Interrupt
    BY <2>2, <2>4 DEF IInv, TurnInv, Range
  <2>6. QED
    BY <2>1, <2>2, <2>3, <2>5 DEF IInv, TurnInv, MidBatch, Current
<1>10. CASE DeliverBatch
  <2>1. /\ pc = "deliver" /\ pc' = "round" /\ handle' = << >> /\ results' = << >>
        /\ round' = round + 1 /\ UNCHANGED <<request, seen, answers, cancelled>>
    BY <1>10 DEF DeliverBatch
  <2>2. round' \in 0..MaxRounds
    BY <2>1, TurnAssumption DEF IInv, TurnInv, MidBatch
  <2>3. QED
    BY <2>1, <2>2 DEF IInv, TurnInv, MidBatch
<1>11. QED
  BY <1>1, <1>2, <1>3, <1>4, <1>5, <1>6, <1>7, <1>8, <1>9, <1>10 DEF TurnStep

\* What happens around the turn keeps it, ends it or starts it well typed.
LEMMA SurroundingsKeepTurn ==
  ASSUME IInv, Surroundings
  PROVE  TurnInv'
<1>1. CASE StartTurn
  <2>1. PICK next \in BrainReply : request' = next
    BY <1>1 DEF StartTurn
  <2>2. /\ pc' = "round" /\ next \in Request
        /\ UNCHANGED <<handle, results, seen, round, answers, cancelled>>
    BY <1>1, <2>1, ReplyTyped DEF StartTurn, IInv
  <2>3. QED
    BY <2>1, <2>2 DEF IInv, TurnInv, MidBatch
<1>2. CASE ClaimParked
  <2>1. /\ pc' = "round" /\ parked # NoPark
        /\ request' = parked.request /\ seen' = parked.seen /\ round' = parked.round
        /\ answers' = parked.answers /\ UNCHANGED <<handle, results, cancelled>>
    BY <1>2 DEF ClaimParked
  <2>2. parked \in Pause
    BY <2>1 DEF IInv, TeamInv
  <2>3. QED
    BY <2>1, <2>2 DEF IInv, TurnInv, MidBatch, Pause
<1>3. CASE CrashController
  BY <1>3, TurnOverKeepsTurn DEF CrashController
<1>4. CASE \E r \in rpcs : PowerRuns(r)
  <2>1. PICK r \in rpcs : PowerRuns(r)
    BY <1>4
  <2>2. UNCHANGED row /\ UNCHANGED turn
    BY <2>1 DEF PowerRuns
  <2>3. pc = "granted" => ran'[Ordinal] = << >> /\ \A s \in rpcs' : s.entry # Ordinal
    <3> SUFFICES ASSUME pc = "granted"
                 PROVE  ran'[Ordinal] = << >> /\ \A s \in rpcs' : s.entry # Ordinal
      OBVIOUS
    <3>1. Ordinal \in 1..MaxOperations
      BY OrdinalInRow
    <3>2. ran[Ordinal] = << >> /\ \A s \in rpcs : s.entry # Ordinal
      BY DEF IInv, TurnInv
    <3>3. QED
      BY <2>1, <3>1, <3>2, PowerRunsKeepsJournal
  <2>4. QED
    BY <2>2, <2>3 DEF IInv, TurnInv, turn, Ordinal, Current, MidBatch
<1>5. CASE DestroyBegins \/ DestroyDeletesThread \/ DestroyPurges \/ DestroyFails \/ DestroyFinishes
  <2>1. /\ pc' \in {"idle", "deleting", "purging", "removing"}
        /\ UNCHANGED <<request, handle, results, seen, round, answers, cancelled>>
    BY <1>5 DEF DestroyBegins, DestroyDeletesThread, DestroyPurges, DestroyFails, DestroyFinishes
  <2>2. QED
    BY <2>1, OutsideTurn
<1>6. CASE StopMarksTurn \/ DestroyMarksTurn
  <2>1. /\ cancelled' \in BOOLEAN
        /\ UNCHANGED <<pc, request, handle, results, seen, round, answers>>
    BY <1>6 DEF StopMarksTurn, DestroyMarksTurn, CancelTurn, TurnActive
  <2>2. Frame
    BY <1>6 DEF Frame, workload, StopMarksTurn, DestroyMarksTurn, CancelTurn, FailStop
  <2>3. QED
    BY <2>1, <2>2, FrameKeepsTurn
<1>7. CASE \/ StartIsLost \/ ClaimIsRefused \/ ChallengeExpires \/ StopChat
           \/ (\E r \in rpcs : OrphanExits(r))
           \/ ConnectAccount \/ DisconnectAccount \/ TokenAges \/ DirectInvocation
           \/ ContainerExits \/ InstallAssistant \/ UninstallAssistant
           \/ DestroyTeam \/ DestroyHostedTeam \/ DestroyGivesUp \/ ResetSpace
  <2>1. UNCHANGED turn
    BY <1>7 DEF StartIsLost, ClaimIsRefused, ChallengeExpires, StopChat, OrphanExits,
       ConnectAccount, DisconnectAccount, TokenAges, DirectInvocation, ContainerExits,
       InstallAssistant, UninstallAssistant, DestroyTeam, DestroyHostedTeam, DestroyGivesUp,
       ResetSpace
  <2>2. Frame
    <3>1. CASE \E r \in rpcs : OrphanExits(r)
      BY <3>1 DEF Frame, OrphanExits
    <3>2. QED
      BY <1>7, <3>1 DEF Frame, workload, StartIsLost, ClaimIsRefused, ChallengeExpires, StopChat,
         ConnectAccount, DisconnectAccount, TokenAges, DirectInvocation, ContainerExits,
         InstallAssistant, UninstallAssistant, DestroyTeam, DestroyHostedTeam, DestroyGivesUp,
         ResetSpace, TeamIsGone, ContainersGone
  <2>3. cancelled' \in BOOLEAN
    BY <2>1 DEF turn, IInv, TurnInv
  <2>4. QED
    BY <2>1, <2>2, <2>3, FrameKeepsTurn DEF turn
<1>8. QED
  BY <1>1, <1>2, <1>3, <1>4, <1>5, <1>6, <1>7 DEF Surroundings

-----------------------------------------------------------------------------
\* The surroundings of the turn, as tuples that a step leaves alone.
machine == <<container, status, blocked>>
teamVars == <<brainVars, waiting, machine, credential, team, history>>

\* A step that leaves all of these keeps the types around the turn.
LEMMA TeamFrame ==
  ASSUME TeamInv, UNCHANGED teamVars
  PROVE  TeamInv'
BY DEF TeamInv, teamVars, brainVars, waiting, machine, credential, team, history

\* The generation stays within its bound when a token is refreshed.
LEMMA ResolveTyped ==
  ASSUME TeamInv, ResolveAccount
  PROVE  account' = "connected" /\ generation' \in 0..MaxGeneration
<1>1. account = "near" => generation + 1 \in 0..MaxGeneration
  BY TurnAssumption DEF TeamInv
<1>2. QED
  BY <1>1 DEF TeamInv, ResolveAccount, Resolved

\* A continuation of the present turn is well typed.
LEMMA ParkedTyped ==
  ASSUME IInv, NEW kind \in {"account", "answer"},
         NEW given \in [Interrupt -> 0..MaxAnswers]
  PROVE  ParkedTurn(kind, given) \in Pause
BY DEF ParkedTurn, Pause, IInv, TurnInv, TeamInv

\* What is saved or cancelled of a paused turn is a paused turn or none.
LEMMA WaitingTyped ==
  ASSUME TeamInv
  PROVE  /\ LeftPending \in Pause \cup {NoPark}
         /\ LeftByTeardown \in Pause \cup {NoPark}
         /\ RestoredTurn \in Pause \cup {NoPark}
BY DEF TeamInv, LeftPending, LeftByTeardown, RestoredTurn

\* The Brain answers with a request, which it has then used.
LEMMA BrainTyped ==
  ASSUME TeamInv, NEW next \in BrainReply, BrainAnswers(next)
  PROVE  brain' \in Request /\ issued' \in SUBSET Interrupt
BY ReplyTyped DEF BrainAnswers, TeamInv

\* What the Brain is told are results of the batch.
LEMMA ToldTyped ==
  ASSUME IInv, MayResume, BrainAccepts
  PROVE  told' \in [Interrupt -> Result \cup {NoResult}] /\ turnAnswered' \in SUBSET Interrupt
<1>1. /\ pc = "invoke" /\ Len(results) = Len(handle) /\ results \in Seq(Result)
      /\ handle \in Seq(Operation) /\ DOMAIN handle = DOMAIN request
  BY DEF MayResume, IInv, TurnInv, MidBatch
<1>2. request \in Seq(Interrupt) /\ DOMAIN results = DOMAIN request
  BY <1>1, RequestTyped DEF IInv, TurnInv
<1> DEFINE At(i) == CHOOSE k \in DOMAIN request : request[k] = i
<1>3. ASSUME NEW i \in Range(request)
      PROVE  results[At(i)] \in Result
  <2>1. \E k \in DOMAIN request : request[k] = i
    BY DEF Range
  <2>2. At(i) \in DOMAIN results
    BY <1>2, <2>1
  <2>3. QED
    BY <1>1, <2>2
<1>4. told' = [i \in Interrupt |-> IF i \in Range(request) THEN results[At(i)] ELSE told[i]]
  BY DEF BrainAccepts, ResultsToSend
<1>5. told \in [Interrupt -> Result \cup {NoResult}]
  BY DEF IInv, TeamInv
<1>6. told' \in [Interrupt -> Result \cup {NoResult}]
  BY <1>3, <1>4, <1>5
<1>7. turnAnswered' \in SUBSET Interrupt
  BY <1>2 DEF BrainAccepts, IInv, TeamInv, Range
<1>8. QED
  BY <1>6, <1>7

\* A step of the turn's own thread keeps its surroundings well typed.
LEMMA TurnStepKeepsTeam ==
  ASSUME IInv, TurnStep
  PROVE  TeamInv'
<1> USE DEF IInv
<1>1. CASE CompleteTurn
  BY <1>1 DEF CompleteTurn, TeamInv, brainVars, workload, credential, team, history
<1>2. CASE ParkForAccount \/ ParkForAnswer
  <2>1. PICK kind \in {"account", "answer"}, given \in [Interrupt -> 0..MaxAnswers] :
          Park(kind, given) /\ UNCHANGED <<brainVars, workload, credential, team, history>>
    <3>1. CASE ParkForAccount
      BY <3>1 DEF ParkForAccount, TurnInv
    <3>2. CASE ParkForAnswer
      BY <3>2, AnswerTyped DEF ParkForAnswer
    <3>3. QED
      BY <1>2, <3>1, <3>2
  <2>2. parked' \in Pause \cup {NoPark} /\ saved' \in Pause \cup {NoPark}
    BY <2>1, ParkedTyped DEF Park
  <2>3. QED
    BY <2>1, <2>2 DEF TeamInv, brainVars, workload, credential, team, history
<1>3. CASE PrepareBatch \/ PrepareIsRefused \/ BeginPower \/ UseStoredResult \/ InvokeIsRefused
           \/ DispatchPower
  <2>1. ResolveAccount /\ UNCHANGED <<brainVars, waiting, machine, team, history>>
    BY <1>3 DEF PrepareBatch, PrepareIsRefused, BeginPower, UseStoredResult, InvokeIsRefused,
       DispatchPower, InvocationCurrent, workload, machine
  <2>2. QED
    BY <2>1, ResolveTyped DEF TeamInv, brainVars, waiting, machine, team, history
<1>4. CASE \/ (\E r \in rpcs : ReplyCompletes(r) \/ ReplySuspends(r))
           \/ ReplyFails \/ GrantReplays \/ DeliverBatch \/ AbortTurn
  <2>1. UNCHANGED teamVars
    BY <1>4 DEF teamVars, machine, workload, ReplyCompletes, ReplySuspends, ReplyFails,
       GrantReplays, DeliverBatch, AbortTurn
  <2>2. QED
    BY <2>1, TeamFrame
<1>5. CASE RpcTimesOut
  <2>1. UNCHANGED <<brainVars, waiting, credential, team, history>>
    BY <1>5 DEF RpcTimesOut
  <2>2. /\ container' = container /\ status' \in {"running", "stopped", "absent"}
        /\ blocked' \in BOOLEAN
    BY <1>5 DEF RpcTimesOut, FailStop, TeamInv
  <2>3. QED
    BY <2>1, <2>2 DEF TeamInv, brainVars, waiting, credential, team, history
<1>6. CASE ResumeTurn \/ ResumeIsLost
  <2>1. /\ MayResume /\ BrainAccepts
        /\ \E next \in BrainReply : BrainAnswers(next)
        /\ UNCHANGED <<waiting, workload, credential, team, produced>>
    BY <1>6 DEF ResumeTurn, ResumeIsLost
  <2>2. brain' \in Request /\ issued' \in SUBSET Interrupt
    BY <2>1, BrainTyped
  <2>3. told' \in [Interrupt -> Result \cup {NoResult}] /\ turnAnswered' \in SUBSET Interrupt
    BY <2>1, ToldTyped
  <2>4. QED
    BY <2>1, <2>2, <2>3 DEF TeamInv, waiting, workload, credential, team
<1>7. QED
  BY <1>1, <1>2, <1>3, <1>4, <1>5, <1>6 DEF TurnStep

\* So does what happens around it.
LEMMA SurroundingsKeepTeam ==
  ASSUME IInv, Surroundings
  PROVE  TeamInv'
<1> USE DEF IInv
<1>1. CASE StartTurn \/ StartIsLost
  <2>1. /\ \E next \in BrainReply : BrainAnswers(next)
        /\ UNCHANGED <<waiting, workload, credential, team, produced, told>>
        /\ turnAnswered' \in {{}, turnAnswered}
    BY <1>1 DEF StartTurn, StartIsLost, history
  <2>2. brain' \in Request /\ issued' \in SUBSET Interrupt
    BY <2>1, BrainTyped
  <2>3. QED
    BY <2>1, <2>2 DEF TeamInv, waiting, workload, credential, team
<1>2. CASE ClaimParked \/ ClaimIsRefused \/ ChallengeExpires
  BY <1>2 DEF ClaimParked, ClaimIsRefused, ChallengeExpires, TeamInv, brainVars, workload,
              credential, team, history
<1>3. CASE StopChat
  BY <1>3 DEF StopChat, TeamInv, brainVars, workload, credential, history
<1>4. CASE StopMarksTurn \/ DestroyMarksTurn
  BY <1>4 DEF StopMarksTurn, DestroyMarksTurn, CancelTurn, FailStop, TeamInv, brainVars,
              waiting, workload, credential, history
<1>5. CASE CrashController
  BY <1>5, WaitingTyped DEF CrashController, TeamInv, brainVars, credential, history
<1>6. CASE \E r \in rpcs : PowerRuns(r)
  <2>1. PICK r \in rpcs, v \in Result :
          produced' = [produced EXCEPT ![r.interrupt] = Append(@, v)]
    BY <1>6 DEF PowerRuns
  <2>2. produced \in [Interrupt -> Seq(Result)] /\ r.interrupt \in Interrupt
    BY DEF TeamInv, JournalInv, Rpc
  <2>3. produced' \in [Interrupt -> Seq(Result)]
    BY <2>1, <2>2
  <2>4. UNCHANGED <<brainVars, waiting, machine, credential, team, told, turnAnswered>>
    BY <1>6 DEF PowerRuns, machine
  <2>5. QED
    BY <2>3, <2>4 DEF TeamInv, brainVars, waiting, machine, credential, team
<1>7. CASE (\E r \in rpcs : OrphanExits(r)) \/ DestroyBegins \/ DestroyPurges
  <2>1. UNCHANGED teamVars
    BY <1>7 DEF teamVars, machine, workload, OrphanExits, DestroyBegins, DestroyPurges
  <2>2. QED
    BY <2>1, TeamFrame
<1>8. CASE ConnectAccount
  <2>1. generation' \in 0..MaxGeneration /\ account' = "connected"
    BY <1>8, TurnAssumption DEF ConnectAccount, TeamInv
  <2>2. QED
    BY <1>8, <2>1 DEF ConnectAccount, TeamInv, brainVars, waiting, workload, team, history
<1>9. CASE DisconnectAccount
  <2>1. generation' \in 0..MaxGeneration /\ account' = "missing"
    BY <1>9, TurnAssumption DEF DisconnectAccount
  <2>2. QED
    BY <1>9, <2>1 DEF DisconnectAccount, TeamInv, brainVars, waiting, workload, team, history
<1>10. CASE TokenAges
  BY <1>10 DEF TokenAges, TeamInv, brainVars, waiting, workload, team, history
<1>11. CASE DirectInvocation
  <2>1. account' = "connected" /\ generation' \in 0..MaxGeneration
    BY <1>11, ResolveTyped DEF DirectInvocation
  <2>2. QED
    BY <1>11, <2>1 DEF DirectInvocation, TeamInv, brainVars, waiting, workload, team, history
<1>12. CASE ContainerExits
  BY <1>12 DEF ContainerExits, TeamInv, brainVars, waiting, credential, team, history
<1>13. CASE InstallAssistant
  <2>1. container' \in 1..MaxContainers
    BY <1>13, TurnAssumption DEF InstallAssistant, TeamInv
  <2>2. QED
    BY <1>13, <2>1 DEF InstallAssistant, TeamInv, brainVars, waiting, credential, team, history
<1>14. CASE UninstallAssistant
  <2>1. 0 \in 0..MaxGeneration
    BY TurnAssumption
  <2>2. QED
    BY <1>14, <2>1, WaitingTyped DEF UninstallAssistant, TeamInv, brainVars, team, history
<1>15. CASE DestroyTeam \/ DestroyHostedTeam \/ DestroyGivesUp
  BY <1>15, WaitingTyped DEF DestroyTeam, DestroyHostedTeam, DestroyGivesUp, TeamInv, brainVars,
     waiting, workload, credential, history
<1>16. CASE DestroyDeletesThread
  BY <1>16 DEF DestroyDeletesThread, TeamInv, Request, waiting, workload, credential, team, history
<1>17. CASE DestroyFails
  BY <1>17 DEF DestroyFails, ContainersGone, TeamInv, brainVars, waiting, credential, history
<1>18. CASE DestroyFinishes \/ ResetSpace
  <2>1. 0 \in 0..MaxGeneration
    BY TurnAssumption
  <2>2. TeamIsGone /\ UNCHANGED <<brainVars, history>>
        /\ parked' \in Pause \cup {NoPark} /\ saved' \in Pause \cup {NoPark}
    BY <1>18, WaitingTyped DEF DestroyFinishes, ResetSpace, TeamInv
  <2>3. QED
    BY <2>1, <2>2 DEF TeamIsGone, ContainersGone, TeamInv, brainVars, history
<1>19. QED
  BY <1>1, <1>2, <1>3, <1>4, <1>5, <1>6, <1>7, <1>8, <1>9, <1>10, <1>11, <1>12, <1>13, <1>14,
     <1>15, <1>16, <1>17, <1>18 DEF Surroundings

-----------------------------------------------------------------------------
\* A new Team generation satisfies the invariant.
LEMMA InitIInv == Init => IInv
<1> SUFFICES ASSUME Init PROVE IInv
  OBVIOUS
<1>1. JournalInv
  <2>1. row \in Seq(Entry) /\ Len(row) <= MaxOperations /\ DOMAIN row = {} /\ rpcs = {}
    BY TurnAssumption DEF Init, NoRow
  <2>2. ran \in [1..MaxOperations -> Seq(Result)]
    BY DEF Init, NothingRan
  <2>3. QED
    BY <2>1, <2>2 DEF JournalInv, JournalTellsTheTruth, AtMostOncePerEntry, RpcsMatchRow
<1>2. TurnInv
  <2>1. answers \in [Interrupt -> 0..MaxAnswers] /\ round \in 0..MaxRounds
    BY TurnAssumption DEF Init, NoAnswers
  <2>2. request \in Request /\ handle \in Seq(Operation) /\ results \in Seq(Result)
    BY DEF Init, Request
  <2>3. cancelled \in BOOLEAN
    BY Zenon DEF Init
  <2>4. QED
    BY <2>1, <2>2, <2>3 DEF Init, TurnInv, MidBatch
<1>3. TeamInv
  <2>1. container \in 1..MaxContainers /\ generation \in 0..MaxGeneration
    BY TurnAssumption DEF Init
  <2>2. brain \in Request /\ produced \in [Interrupt -> Seq(Result)]
        /\ told \in [Interrupt -> Result \cup {NoResult}]
    BY DEF Init, Request
  <2>3. blocked \in BOOLEAN /\ live \in BOOLEAN
    BY Zenon DEF Init
  <2>4. QED
    BY <2>1, <2>2, <2>3 DEF Init, TeamInv
<1>4. QED
  BY <1>1, <1>2, <1>3 DEF IInv

\* Every step keeps it.
LEMMA StepIInv == IInv /\ [Next]_vars => IInv'
<1> SUFFICES ASSUME IInv, [Next]_vars PROVE IInv'
  OBVIOUS
<1>1. CASE Next
  <2>1. TurnInv'
    BY <1>1, TurnStepKeepsTurn, SurroundingsKeepTurn DEF Next
  <2>2. TeamInv'
    BY <1>1, TurnStepKeepsTeam, SurroundingsKeepTeam DEF Next
  <2>3. QED
    BY <1>1, <2>1, <2>2, JournalStep DEF IInv
<1>2. CASE UNCHANGED vars
  <2>1. Frame /\ UNCHANGED turn /\ UNCHANGED teamVars
    BY <1>2 DEF vars, Frame, workload, machine, teamVars
  <2>2. cancelled' \in BOOLEAN
    BY <2>1 DEF IInv, TurnInv, turn
  <2>3. QED
    BY <2>1, <2>2, FrameKeepsJournal, FrameKeepsTurn, TeamFrame DEF IInv, turn
<1>3. QED
  BY <1>1, <1>2

\* IInv holds in every reachable state of either Controller.
LEMMA Invariance == Spec => []IInv
  BY InitIInv, StepIInv, PTL DEF Spec

\* Every variable of a turn and its surroundings keeps its type.
THEOREM TypeCorrect == Spec => []TypeOK
<1>1. IInv => TypeOK
  BY DEF IInv, JournalInv, TurnInv, TeamInv, TypeOK, MidBatch
<1>2. QED
  BY <1>1, Invariance, PTL

\* What the journal says of an operation is what happened to it, through
\* every pause, Stop, crash, refresh and reinstallation.
THEOREM JournalIsTrue == Spec => []JournalTellsTheTruth
<1>1. IInv => JournalTellsTheTruth
  BY DEF IInv, JournalInv
<1>2. QED
  BY <1>1, Invariance, PTL

\* As long as a batch is in the journal none of its operations runs twice.
THEOREM EntryRunsAtMostOnce == Spec => []AtMostOncePerEntry
<1>1. IInv => AtMostOncePerEntry
  BY DEF IInv, JournalInv
<1>2. QED
  BY <1>1, Invariance, PTL

-----------------------------------------------------------------------------
\* An update of an entry does not touch one nobody reports on any more.
LEMMA UncertainStep ==
  ASSUME IInv, [Next]_vars, NEW k \in DOMAIN row, row[k].state = "executing",
         ~(\E r \in rpcs : r.entry = k), row' # NoRow
  PROVE  row'[k].state = "executing"
<1>1. row \in Seq(Entry) /\ k \in DOMAIN row
  BY DEF IInv, JournalInv
<1>2. CASE PrepareBatch
  <2>1. row # NoRow
    BY DEF NoRow
  <2>2. QED
    BY <1>2, <2>1 DEF PrepareBatch, journal
<1>3. CASE BeginPower
  <2>1. row' = Begun(row, Ordinal) /\ row[Ordinal].state = "prepared" /\ pc = "invoke"
        /\ Ordinal <= Len(handle)
    BY <1>3 DEF BeginPower, InvocationCurrent, MayExecute
  <2>2. Ordinal \in DOMAIN row /\ k # Ordinal
    BY <2>1, OrdinalInRow
  <2>3. row' \in Updates(row, Ordinal)
    BY <2>1 DEF Updates
  <2>4. row'[k] = row[k]
    BY <1>1, <2>2, <2>3, UpdateTyped
  <2>5. QED
    BY <2>4
<1>4. CASE \E r \in rpcs : ReplyCompletes(r) \/ ReplySuspends(r)
  <2>1. PICK r \in rpcs : ReplyCompletes(r) \/ ReplySuspends(r)
    BY <1>4
  <2>2. r.entry = Ordinal /\ pc = "running"
    BY <2>1 DEF ReplyCompletes, ReplySuspends
  <2>3. Ordinal \in DOMAIN row /\ k # Ordinal
    BY <2>2, OrdinalInRow
  <2>4. row' \in Updates(row, Ordinal)
    <3>1. CASE ReplyCompletes(r)
      BY <3>1, CompleteKeepsJournal DEF ReplyCompletes, Updates
    <3>2. CASE ReplySuspends(r)
      BY <3>2 DEF ReplySuspends, Updates
    <3>3. QED
      BY <2>1, <3>1, <3>2
  <2>5. row'[k] = row[k]
    BY <1>1, <2>3, <2>4, UpdateTyped
  <2>6. QED
    BY <2>5
<1>5. CASE DispatchPower \/ \E r \in rpcs : PowerRuns(r)
  BY <1>5 DEF DispatchPower, PowerRuns, journal
<1>6. CASE DeliverBatch \/ DestroyPurges
  BY <1>6 DEF DeliverBatch, DestroyPurges
<1>7. Frame => row'[k].state = "executing"
  BY DEF Frame, journal
<1>8. CASE UNCHANGED vars
  BY <1>8 DEF vars, journal
<1>9. CASE TurnStep
  BY <1>2, <1>3, <1>4, <1>5, <1>6, <1>7, <1>9, TurnFrame DEF TurnStep
<1>10. CASE Surroundings
  BY <1>5, <1>6, <1>7, <1>10, SurroundingsFrame
<1>11. QED
  BY <1>8, <1>9, <1>10 DEF Next

\* No error path makes an operation runnable again whose outcome is unknown.
THEOREM UncertaintyStays == Spec => UncertainStaysUncertain
<1>1. IInv /\ [Next]_vars =>
        [\A k \in DOMAIN row :
           (row[k].state = "executing" /\ ~(\E r \in rpcs : r.entry = k) /\ row' # NoRow)
             => row'[k].state = "executing"]_vars
  BY UncertainStep
<1>2. QED
  BY <1>1, Invariance, PTL DEF Spec, UncertainStaysUncertain

-----------------------------------------------------------------------------
\* What follows is about the hosted Controller, which serializes the
\* destruction of a Team with its turns.  The local one does not, and
\* RunsAtMostOnce and DestroyedLeavesNothing are false of it.

\* The batch runs in order: before an entry that was begun all are complete.
Ordered ==
  \A j, k \in DOMAIN row : j < k /\ row[k].state # "prepared" => row[j].state = "completed"

\* The batch is the one of the request, the results the turn holds are those
\* of its first entries, and the Brain was given results of none of it.
Answering ==
  /\ pc \notin MidBatch => results = << >>
  /\ pc \in MidBatch \ {"deliver"} =>
       /\ \A k \in DOMAIN request : handle[k].interrupt = request[k]
       /\ \A k \in DOMAIN results :
            k \in DOMAIN row /\ row[k].state = "completed" /\ row[k].result = results[k]
  /\ pc \in MidBatch => Range(request) \cap seen = {}
  /\ pc = "deliver" => \A k \in DOMAIN row : row[k].op.interrupt \in seen

\* A destroy has left its cleanup record before it takes the chat lock, and
\* removes the Team last.
Destroying ==
  /\ saved = NoPark
  /\ pc \in {"deleting", "purging", "removing"} => canceller = "destroy"
  /\ pc \in {"purging", "removing"} => brain = << >>
  /\ pc = "removing" => row = NoRow
  /\ ~live => pc = "idle" /\ row = NoRow /\ parked = NoPark

\* There is at most one RPC; one whose row was purged belongs to a Team that
\* admits nothing any more.
Running ==
  /\ \A r, s \in rpcs : r = s
  /\ \A r \in rpcs :
       IF r.entry = 0 THEN ~Admitted /\ row = NoRow /\ brain = << >>
                      ELSE r.interrupt = row[r.entry].op.interrupt

\* What the Brain was given in this turn, over its pauses, is in seen, and no
\* Power runs for it.
Answered ==
  /\ TurnActive => turnAnswered \subseteq seen /\ parked = NoPark
  /\ parked # NoPark => turnAnswered \subseteq parked.seen
  /\ \A r \in rpcs : r.out = NoResult => r.interrupt \notin turnAnswered

HostedInv == Ordered /\ Answering /\ Destroying /\ Running /\ Answered

\* A request has no interrupt twice.
LEMMA RequestInjective ==
  ASSUME NEW b \in Request
  PROVE  \A j, k \in DOMAIN b : b[j] = b[k] => j = k
<1>1. CASE b = << >>
  BY <1>1
<1>2. CASE b \in Batch
  BY <1>2 DEF Batch, IsInjective
<1>3. QED
  BY <1>1, <1>2 DEF Request

\* The operations of a current batch are those of its handle.
LEMMA CurrentOps ==
  ASSUME NEW r, NEW ops, Current(r, ops)
  PROVE  DOMAIN ops = DOMAIN r /\ \A k \in DOMAIN r : r[k].op = ops[k]
BY DEF Current, Fingerprint

\* begin, complete and suspend move one entry that is not complete, and none
\* of the earlier ones is left behind.
Moves == BeginPower \/ \E r \in rpcs : ReplyCompletes(r) \/ ReplySuspends(r)

\* What begins or answers is the entry of the turn, and no other entry changes.
LEMMA EntryMoves ==
  ASSUME IInv, Ordered, Answering, Moves
  PROVE  /\ Ordinal \in DOMAIN row /\ DOMAIN row' = DOMAIN row
         /\ row[Ordinal].state # "completed"
         /\ \A j \in DOMAIN row : j # Ordinal => row'[j] = row[j]
         /\ \A j \in DOMAIN row : row'[j].op = row[j].op
         /\ \A j \in DOMAIN row : j < Ordinal => row[j].state = "completed"
         /\ ran' = ran /\ rpcs' \subseteq rpcs
<1>1. /\ pc \in {"invoke", "running"} /\ (pc = "invoke" => Ordinal <= Len(handle))
      /\ ran' = ran /\ rpcs' \subseteq rpcs
  BY DEF Moves, BeginPower, InvocationCurrent, ReplyCompletes, ReplySuspends, workload
<1>2. /\ Ordinal \in DOMAIN row /\ row \in Seq(Entry) /\ row[Ordinal] \in Entry
      /\ results \in Seq(Result)
  BY <1>1, OrdinalInRow DEF IInv, JournalInv, TurnInv
<1>3. row' \in Updates(row, Ordinal) /\ row[Ordinal].state # "completed"
  <2>1. CASE BeginPower
    BY <2>1 DEF BeginPower, MayExecute, Updates
  <2>2. ASSUME NEW r \in rpcs, ReplyCompletes(r)
        PROVE  row' \in Updates(row, Ordinal) /\ row[Ordinal].state # "completed"
    BY <2>2, CompleteKeepsJournal DEF ReplyCompletes, MayComplete, Updates
  <2>3. ASSUME NEW r \in rpcs, ReplySuspends(r)
        PROVE  row' \in Updates(row, Ordinal) /\ row[Ordinal].state # "completed"
    BY <2>3 DEF ReplySuspends, MaySuspend, Updates
  <2>4. QED
    BY <2>1, <2>2, <2>3 DEF Moves
<1>4. /\ DOMAIN row' = DOMAIN row /\ Fingerprint(row') = Fingerprint(row)
      /\ \A j \in DOMAIN row : j # Ordinal => row'[j] = row[j]
  BY <1>2, <1>3, UpdateTyped
<1>5. \A j \in DOMAIN row : row'[j].op = row[j].op
  BY <1>4 DEF Fingerprint
<1>6. \A j \in DOMAIN row : j < Ordinal => row[j].state = "completed"
  <2> SUFFICES ASSUME NEW j \in DOMAIN row, j < Ordinal
               PROVE  row[j].state = "completed"
    OBVIOUS
  <2>1. j \in DOMAIN results
    BY <1>2 DEF Ordinal
  <2>2. QED
    BY <1>1, <2>1 DEF Answering, MidBatch
<1>7. QED
  BY <1>1, <1>2, <1>3, <1>4, <1>5, <1>6

\* The batch stays in order.
LEMMA OrderedStep ==
  ASSUME IInv, HostedInv, Next
  PROVE  Ordered'
<1>1. CASE PrepareBatch
  <2>1. CASE row' = Inserted(handle')
    <3>1. \A k \in DOMAIN row' : row'[k].state = "prepared"
      BY <1>1, <2>1, PrepareKeepsJournal, InsertedTyped
    <3>2. QED
      BY <3>1 DEF Ordered
  <2>2. CASE UNCHANGED row
    BY <2>2 DEF HostedInv, Ordered
  <2>3. QED
    BY <1>1, <2>1, <2>2 DEF PrepareBatch, journal
<1>2. CASE Moves
  <2>1. /\ Ordinal \in DOMAIN row /\ DOMAIN row' = DOMAIN row
        /\ row[Ordinal].state # "completed"
        /\ \A j \in DOMAIN row : j # Ordinal => row'[j] = row[j]
        /\ \A j \in DOMAIN row : j < Ordinal => row[j].state = "completed"
    BY <1>2, EntryMoves DEF HostedInv
  <2>2. DOMAIN row \subseteq Nat /\ Ordered
    BY DEF IInv, JournalInv, HostedInv
  <2> SUFFICES ASSUME NEW j \in DOMAIN row, NEW k \in DOMAIN row, j < k,
                      row'[k].state # "prepared"
               PROVE  row'[j].state = "completed"
    BY <2>1 DEF Ordered
  <2>3. CASE k < Ordinal
    BY <2>1, <2>2, <2>3
  <2>4. CASE k = Ordinal
    BY <2>1, <2>2, <2>4
  <2>5. CASE Ordinal < k
    BY <2>1, <2>2, <2>5 DEF Ordered
  <2>6. QED
    BY <2>1, <2>2, <2>3, <2>4, <2>5
<1>3. CASE DeliverBatch \/ DestroyPurges
  BY <1>3 DEF DeliverBatch, DestroyPurges, Ordered, NoRow
<1>4. (UNCHANGED row) => Ordered'
  BY DEF HostedInv, Ordered
<1>5. DispatchPower \/ (\E r \in rpcs : PowerRuns(r)) \/ Frame => UNCHANGED row
  BY DEF DispatchPower, PowerRuns, Frame, journal
<1>6. CASE TurnStep
  BY <1>1, <1>2, <1>3, <1>4, <1>5, <1>6, TurnFrame DEF TurnStep, Moves
<1>7. CASE Surroundings
  BY <1>3, <1>4, <1>5, <1>7, SurroundingsFrame
<1>8. QED
  BY <1>6, <1>7 DEF Next

\* The handle, the results and what the turn has seen keep saying so.
LEMMA AnsweringStep ==
  ASSUME IInv, HostedInv, Next
  PROVE  Answering'
<1>1. TurnOver => Answering'
  BY DEF TurnOver, Answering, MidBatch
<1>2. CASE StartTurn
  BY <1>2 DEF StartTurn, MayStart, HostedInv, Answering, MidBatch
<1>3. CASE ClaimParked
  BY <1>3 DEF ClaimParked, HostedInv, Answering, MidBatch
<1>4. CASE PrepareBatch
  <2>1. /\ pc = "round" /\ pc' = "invoke" /\ handle' = Operations(request, Resolved)
        /\ request' = request /\ results' = results /\ seen' = seen
        /\ Range(request) \cap seen = {}
    BY <1>4 DEF PrepareBatch, RoundAdmitted, FreshForTurn
  <2>2. results = << >>
    BY <2>1 DEF HostedInv, Answering, MidBatch
  <2>3. \A k \in DOMAIN request : handle'[k].interrupt = request[k]
    BY <2>1 DEF Operations, OperationOf
  <2>4. QED
    BY <2>1, <2>2, <2>3 DEF Answering, MidBatch
<1>5. CASE BeginPower
  <2>1. /\ pc = "invoke" /\ pc' = "granted" /\ UNCHANGED <<handle, request, results, seen>>
    BY <1>5 DEF BeginPower, InvocationCurrent
  <2>2. /\ DOMAIN row' = DOMAIN row /\ row[Ordinal].state # "completed"
        /\ \A j \in DOMAIN row : j # Ordinal => row'[j] = row[j]
    BY <1>5, EntryMoves DEF HostedInv, Moves
  <2>3. QED
    BY <2>1, <2>2 DEF HostedInv, Answering, MidBatch
<1>6. CASE UseStoredResult
  <2>1. /\ pc = "invoke" /\ pc' = pc /\ UNCHANGED <<handle, request, seen, row>>
        /\ results' = Append(results, row[Ordinal].result)
        /\ row[Ordinal].state = "completed" /\ Ordinal <= Len(handle)
    BY <1>6 DEF UseStoredResult, InvocationCurrent, journal
  <2>2. Ordinal \in DOMAIN row /\ results \in Seq(Result)
    BY <2>1, OrdinalInRow DEF IInv, TurnInv
  <2>3. \A k \in DOMAIN results' :
          k \in DOMAIN row /\ row[k].state = "completed" /\ row[k].result = results'[k]
    <3> SUFFICES ASSUME NEW k \in DOMAIN results'
                 PROVE  k \in DOMAIN row /\ row[k].state = "completed" /\ row[k].result = results'[k]
      OBVIOUS
    <3>1. CASE k = Ordinal
      BY <2>1, <2>2, <3>1 DEF Ordinal
    <3>2. CASE k # Ordinal
      <4>1. k \in DOMAIN results /\ results'[k] = results[k]
        BY <2>1, <2>2, <3>2 DEF Ordinal
      <4>2. QED
        BY <2>1, <4>1 DEF HostedInv, Answering, MidBatch
    <3>3. QED
      BY <3>1, <3>2
  <2>4. QED
    BY <2>1, <2>3 DEF HostedInv, Answering, MidBatch
<1>7. CASE DispatchPower
  BY <1>7 DEF DispatchPower, journal, HostedInv, Answering, MidBatch
<1>8. ASSUME NEW r \in rpcs, ReplyCompletes(r)
      PROVE  Answering'
  <2>1. /\ pc = "running" /\ pc' = "invoke" /\ UNCHANGED <<handle, request, seen>>
        /\ results' = Append(results, r.out) /\ row' = Completed(row, Ordinal, r.out)
    BY <1>8 DEF ReplyCompletes
  <2>2. /\ Ordinal \in DOMAIN row /\ DOMAIN row' = DOMAIN row /\ row[Ordinal].state # "completed"
        /\ \A j \in DOMAIN row : j # Ordinal => row'[j] = row[j]
    BY <1>8, EntryMoves DEF HostedInv, Moves
  <2>3. r.out \in Result /\ results \in Seq(Result) /\ row \in Seq(Entry)
    BY <1>8, CompleteKeepsJournal DEF IInv, TurnInv, JournalInv
  <2>4. row'[Ordinal].state = "completed" /\ row'[Ordinal].result = r.out
    BY <2>1, <2>2, <2>3, UpdatedEntry
  <2>5. \A k \in DOMAIN results' :
          k \in DOMAIN row' /\ row'[k].state = "completed" /\ row'[k].result = results'[k]
    <3> SUFFICES ASSUME NEW k \in DOMAIN results'
                 PROVE  k \in DOMAIN row /\ row'[k].state = "completed" /\ row'[k].result = results'[k]
      BY <2>2
    <3>1. CASE k = Ordinal
      BY <2>1, <2>2, <2>3, <2>4, <3>1 DEF Ordinal
    <3>2. CASE k # Ordinal
      <4>1. k \in DOMAIN results /\ results'[k] = results[k]
        BY <2>1, <2>3, <3>2 DEF Ordinal
      <4>2. QED
        BY <2>1, <2>2, <3>2, <4>1 DEF HostedInv, Answering, MidBatch
    <3>3. QED
      BY <3>1, <3>2
  <2>6. QED
    BY <2>1, <2>5 DEF HostedInv, Answering, MidBatch
<1>9. ASSUME NEW r \in rpcs, ReplySuspends(r)
      PROVE  Answering'
  <2>1. CASE /\ pc = "running" /\ pc' = "pause"
             /\ UNCHANGED <<request, handle, results, seen>>
    <3>1. /\ DOMAIN row' = DOMAIN row /\ row[Ordinal].state # "completed"
          /\ \A j \in DOMAIN row : j # Ordinal => row'[j] = row[j]
      BY <1>9, EntryMoves DEF HostedInv, Moves
    <3>2. QED
      BY <2>1, <3>1 DEF HostedInv, Answering, MidBatch
  <2>2. QED
    BY <1>1, <1>9, <2>1 DEF ReplySuspends
<1>10. CASE GrantReplays
  BY <1>10 DEF GrantReplays, Answering, MidBatch
<1>11. CASE ResumeTurn
  <2>1. /\ pc = "invoke" /\ pc' = "deliver" /\ UNCHANGED row
        /\ seen' = seen \cup Range(request) /\ Range(request') \cap seen' = {}
    BY <1>11 DEF ResumeTurn, MayResume, journal
  <2>2. Current(row, handle) /\ DOMAIN handle = DOMAIN request
    BY <2>1 DEF IInv, TurnInv, MidBatch
  <2>3. \A k \in DOMAIN row : k \in DOMAIN request /\ row[k].op.interrupt = request[k]
    BY <2>1, <2>2, CurrentOps DEF HostedInv, Answering, MidBatch
  <2>4. \A k \in DOMAIN row : row[k].op.interrupt \in seen'
    BY <2>1, <2>3 DEF Range
  <2>5. QED
    BY <2>1, <2>4 DEF Answering, MidBatch
<1>12. CASE DeliverBatch
  BY <1>12 DEF DeliverBatch, Answering, MidBatch
<1>13. CASE CompleteTurn \/ ParkForAccount \/ PrepareIsRefused \/ InvokeIsRefused \/ ReplyFails
            \/ RpcTimesOut \/ ParkForAnswer \/ ResumeIsLost \/ AbortTurn \/ CrashController
  <2>1. TurnOver
    BY <1>13 DEF CompleteTurn, ParkForAccount, PrepareIsRefused, InvokeIsRefused,
       ReplyFails, RpcTimesOut, ParkForAnswer, ResumeIsLost, AbortTurn, CrashController, Park
  <2>2. QED
    BY <1>1, <2>1
<1>14. CASE DestroyBegins \/ DestroyDeletesThread \/ DestroyPurges \/ DestroyFails \/ DestroyFinishes
  <2>1. /\ pc \notin MidBatch /\ pc' \notin MidBatch /\ results' = results
    BY <1>14 DEF DestroyBegins, DestroyDeletesThread, DestroyPurges, DestroyFails, DestroyFinishes,
       MidBatch
  <2>2. QED
    BY <2>1 DEF HostedInv, Answering, MidBatch
<1>15. CASE UNCHANGED <<row, pc, request, handle, results, seen>>
  BY <1>15 DEF HostedInv, Answering, MidBatch, Range
<1>16. CASE \E r \in rpcs : PowerRuns(r) \/ OrphanExits(r)
  BY <1>15, <1>16 DEF PowerRuns, OrphanExits, journal, turn
<1>17. CASE \/ StartIsLost \/ ClaimIsRefused \/ ChallengeExpires \/ StopChat
            \/ ConnectAccount \/ DisconnectAccount \/ TokenAges \/ DirectInvocation
            \/ ContainerExits \/ InstallAssistant \/ UninstallAssistant
            \/ DestroyTeam \/ DestroyHostedTeam \/ DestroyGivesUp \/ ResetSpace
  BY <1>15, <1>17 DEF journal, turn, StartIsLost, ClaimIsRefused, ChallengeExpires, StopChat,
     ConnectAccount, DisconnectAccount, TokenAges, DirectInvocation, ContainerExits,
     InstallAssistant, UninstallAssistant, DestroyTeam, DestroyHostedTeam, DestroyGivesUp,
     ResetSpace
<1>18. CASE StopMarksTurn \/ DestroyMarksTurn
  BY <1>15, <1>18 DEF journal, StopMarksTurn, DestroyMarksTurn
<1>19. CASE TurnStep
  BY <1>4, <1>5, <1>6, <1>7, <1>8, <1>9, <1>10, <1>11, <1>12, <1>13, <1>19 DEF TurnStep
<1>20. CASE Surroundings
  BY <1>2, <1>3, <1>13, <1>14, <1>16, <1>17, <1>18, <1>20 DEF Surroundings
<1>21. QED
  BY <1>19, <1>20 DEF Next

\* A destroy is announced before it holds the chat lock, and ends what it
\* announced.
LEMMA DestroyingStep ==
  ASSUME ~Local, IInv, HostedInv, Next
  PROVE  Destroying'
<1> DEFINE Held == {"deleting", "purging", "removing"}
<1>1. ASSUME UNCHANGED <<pc, row, brain, live, canceller>>, saved' = NoPark,
             parked' \in {parked, NoPark}
      PROVE  Destroying'
  BY <1>1 DEF HostedInv, Destroying
<1>2. CASE TurnStep
  <2>1. /\ pc \notin Held /\ pc # "idle" /\ pc' \notin Held /\ UNCHANGED <<live, canceller>>
    <3>1. CASE ~(\E r \in rpcs : ReplyCompletes(r) \/ ReplySuspends(r))
      BY <1>2, <3>1 DEF TurnStep, CompleteTurn, ParkForAccount, PrepareBatch,
         PrepareIsRefused, BeginPower, UseStoredResult, InvokeIsRefused, DispatchPower, ReplyFails,
         RpcTimesOut, ParkForAnswer, GrantReplays, ResumeTurn, ResumeIsLost, DeliverBatch, AbortTurn,
         RoundAdmitted, InvocationCurrent, MayResume, Park, TurnOver, team
    <3>2. ASSUME NEW r \in rpcs, ReplyCompletes(r) \/ ReplySuspends(r)
          PROVE  /\ pc \notin Held /\ pc # "idle" /\ pc' \notin Held /\ UNCHANGED <<live, canceller>>
      BY <3>2 DEF ReplyCompletes, ReplySuspends, TurnOver, team
    <3>3. QED
      BY <3>1, <3>2
  <2>2. saved' = NoPark
    <3>1. UNCHANGED saved \/ saved' = NoPark
      BY <1>2 DEF TurnStep, CompleteTurn, ParkForAccount, PrepareBatch,
         PrepareIsRefused, BeginPower, UseStoredResult, InvokeIsRefused, DispatchPower, ReplyFails,
         RpcTimesOut, ParkForAnswer, GrantReplays, ResumeTurn, ResumeIsLost, DeliverBatch, AbortTurn,
         ReplyCompletes, ReplySuspends, Park, waiting
    <3>2. QED
      BY <3>1 DEF HostedInv, Destroying
  <2>3. live
    BY <2>1 DEF HostedInv, Destroying
  <2>4. QED
    BY <2>1, <2>2, <2>3 DEF Destroying
<1>3. CASE StartTurn \/ StartIsLost \/ ClaimParked
  <2>1. /\ pc = "idle" /\ pc' \notin Held /\ live /\ live' = live /\ saved' = saved
    BY <1>3 DEF StartTurn, StartIsLost, ClaimParked, MayStart, Context, Admitted, team, waiting, turn
  <2>2. QED
    BY <2>1 DEF HostedInv, Destroying
<1>4. CASE ClaimIsRefused \/ ChallengeExpires \/ ConnectAccount \/ DisconnectAccount \/ TokenAges
           \/ DirectInvocation \/ ContainerExits \/ InstallAssistant \/ UninstallAssistant
           \/ \E r \in rpcs : PowerRuns(r) \/ OrphanExits(r)
  <2>1. UNCHANGED <<pc, row, brain, live, canceller>> /\ (saved' = saved \/ saved' = NoPark)
    BY <1>4 DEF ClaimIsRefused, ChallengeExpires, ConnectAccount, DisconnectAccount, TokenAges,
       DirectInvocation, ContainerExits, InstallAssistant, UninstallAssistant, PowerRuns, OrphanExits,
       journal, brainVars, turn, waiting, team
  <2>2. parked' \in {parked, NoPark}
    BY <1>4 DEF ClaimIsRefused, ChallengeExpires, ConnectAccount, DisconnectAccount, TokenAges,
       DirectInvocation, ContainerExits, InstallAssistant, UninstallAssistant, PowerRuns, OrphanExits,
       waiting, LeftPending
  <2>3. QED
    BY <1>1, <2>1, <2>2 DEF HostedInv, Destroying
<1>5. CASE StopChat \/ StopMarksTurn \/ DestroyMarksTurn \/ DestroyHostedTeam
  <2>1. /\ UNCHANGED <<pc, row, brain, live>> /\ canceller # "destroy"
        /\ saved' \in {saved, NoPark} /\ parked' \in {parked, NoPark}
    BY <1>5 DEF StopChat, StopMarksTurn, DestroyMarksTurn, DestroyHostedTeam, Admitted,
       journal, brainVars, turn, waiting
  <2>2. QED
    BY <2>1 DEF HostedInv, Destroying
<1>6. CASE CrashController
  BY <1>6 DEF CrashController, TurnOver, RestoredTurn, journal, brainVars, HostedInv, Destroying
<1>7. CASE DestroyBegins \/ DestroyDeletesThread \/ DestroyPurges \/ DestroyFails
  BY <1>7 DEF DestroyBegins, DestroyDeletesThread, DestroyPurges, DestroyFails, journal, brainVars,
     waiting, team, HostedInv, Destroying
<1>8. CASE DestroyFinishes
  BY <1>8 DEF DestroyFinishes, TeamIsGone, LeftByTeardown, journal, HostedInv, Destroying
<1>9. ~DestroyTeam /\ ~DestroyGivesUp /\ ~ResetSpace
  BY DEF DestroyTeam, DestroyGivesUp, ResetSpace
<1>10. QED
  BY <1>2, <1>3, <1>4, <1>5, <1>6, <1>7, <1>8, <1>9 DEF Next, Surroundings

\* Once the hosted Controller admits nothing it never admits anything again.
LEMMA NeverAdmittedAgain ==
  ASSUME ~Local, Next, Admitted'
  PROVE  Admitted
<1>1. CASE TurnStep
  <2>1. UNCHANGED team
    BY <1>1 DEF TurnStep, CompleteTurn, ParkForAccount, PrepareBatch, PrepareIsRefused, BeginPower,
       UseStoredResult, InvokeIsRefused, DispatchPower, ReplyCompletes, ReplySuspends, ReplyFails,
       RpcTimesOut, ParkForAnswer, GrantReplays, ResumeTurn, ResumeIsLost, DeliverBatch, AbortTurn
  <2>2. QED
    BY <2>1 DEF team, Admitted
<1>2. CASE StopChat \/ StopMarksTurn \/ CrashController \/ DestroyTeam \/ DestroyMarksTurn
           \/ DestroyHostedTeam
  BY <1>2 DEF StopChat, StopMarksTurn, CrashController, DestroyTeam, DestroyMarksTurn,
     DestroyHostedTeam, Admitted
<1>3. CASE DestroyFails \/ DestroyGivesUp \/ DestroyFinishes \/ ResetSpace
  BY <1>3 DEF DestroyFails, DestroyGivesUp, DestroyFinishes, ResetSpace, TeamIsGone, Admitted
<1>4. UNCHANGED team => Admitted' = Admitted
  BY DEF team, Admitted
<1>5. QED
  BY <1>1, <1>2, <1>3, <1>4 DEF Next, Surroundings, StartTurn, StartIsLost, ClaimParked,
     ClaimIsRefused, ChallengeExpires, PowerRuns, OrphanExits, ConnectAccount, DisconnectAccount,
     TokenAges, DirectInvocation, ContainerExits, InstallAssistant, UninstallAssistant,
     DestroyBegins, DestroyDeletesThread, DestroyPurges

\* It then asks nothing of the Brain and inserts no row.
LEMMA NothingAfterPurge ==
  ASSUME ~Local, IInv, Next, ~Admitted, row = NoRow, brain = << >>, Ordered, Answering
  PROVE  ~Admitted' /\ row' = NoRow /\ brain' = << >>
<1>1. ~Moves
  BY EntryMoves DEF NoRow
<1>2. CASE TurnStep
  <2>1. ~PrepareBatch /\ ~DispatchPower /\ ~ResumeTurn /\ ~ResumeIsLost
    BY DEF PrepareBatch, RoundAdmitted, DispatchPower, Context, ResumeTurn, ResumeIsLost, MayResume
  <2>2. row' = NoRow
    BY <1>1, <1>2, <2>1, TurnFrame DEF TurnStep, Moves, DeliverBatch, Frame, journal
  <2>3. brain' = << >>
    BY <1>1, <1>2, <2>1 DEF TurnStep, Moves, CompleteTurn, ParkForAccount, PrepareIsRefused,
       UseStoredResult, InvokeIsRefused, ReplyFails, RpcTimesOut, ParkForAnswer, GrantReplays,
       DeliverBatch, AbortTurn, brainVars
  <2>4. QED
    BY <2>2, <2>3, NeverAdmittedAgain
<1>3. CASE Surroundings
  <2>1. ~StartTurn /\ ~StartIsLost
    BY DEF StartTurn, StartIsLost, MayStart, Context
  <2>2. row' = NoRow
    BY <1>3, SurroundingsFrame DEF Frame, journal, PowerRuns, DestroyPurges
  <2>3. brain' = << >>
    BY <1>3, <2>1 DEF Surroundings, brainVars, ClaimParked, ClaimIsRefused, ChallengeExpires, StopChat,
       StopMarksTurn, CrashController, PowerRuns, OrphanExits, ConnectAccount, DisconnectAccount,
       TokenAges, DirectInvocation, ContainerExits, InstallAssistant, UninstallAssistant, DestroyTeam,
       DestroyMarksTurn, DestroyHostedTeam, DestroyBegins, DestroyDeletesThread, DestroyPurges,
       DestroyFails, DestroyGivesUp, DestroyFinishes, ResetSpace
  <2>4. QED
    BY <2>2, <2>3, NeverAdmittedAgain
<1>4. QED
  BY <1>2, <1>3 DEF Next

\* While the Team admits requests every RPC is one of the executing entry.
LEMMA RpcIsOfRow ==
  ASSUME IInv, HostedInv, Admitted
  PROVE  \A r \in rpcs : /\ r.entry \in DOMAIN row /\ row[r.entry].state = "executing"
                        /\ r.interrupt = row[r.entry].op.interrupt
BY DEF IInv, JournalInv, RpcsMatchRow, HostedInv, Running

\* Nothing runs when an operation is granted, nor when a batch is complete.
LEMMA NothingRuns ==
  ASSUME IInv, HostedInv, Admitted
  PROVE  /\ pc = "granted" => rpcs = {}
         /\ row = NoRow \/ Deliverable(row) => rpcs = {}
<1> SUFFICES ASSUME NEW r \in rpcs
             PROVE  pc # "granted" /\ row # NoRow /\ ~Deliverable(row)
  OBVIOUS
<1>1. r.entry \in DOMAIN row /\ row[r.entry].state = "executing"
  BY RpcIsOfRow
<1>2. row # NoRow /\ ~Deliverable(row)
  BY <1>1 DEF NoRow, Deliverable
<1>3. ASSUME pc = "granted" PROVE FALSE
  <2>1. /\ Ordinal \in DOMAIN row /\ row[Ordinal].state = "executing" /\ r.entry # Ordinal
        /\ DOMAIN row \subseteq Nat
    BY <1>3, OrdinalInRow DEF IInv, TurnInv, JournalInv
  <2>2. CASE r.entry < Ordinal
    BY <1>1, <2>1, <2>2 DEF HostedInv, Ordered
  <2>3. CASE Ordinal < r.entry
    BY <1>1, <2>1, <2>3 DEF HostedInv, Ordered
  <2>4. QED
    BY <1>1, <2>1, <2>2, <2>3
<1>4. QED
  BY <1>2, <1>3

\* When the turn may resume, all of its batch is complete: the results it
\* holds are those of its entries.
LEMMA BatchIsComplete ==
  ASSUME IInv, HostedInv, MayResume
  PROVE  /\ Current(row, handle) /\ Deliverable(row)
         /\ DOMAIN results = DOMAIN row /\ DOMAIN request = DOMAIN row
         /\ \A k \in DOMAIN row : /\ row[k].op.interrupt = request[k]
                                 /\ row[k].result = results[k]
<1>1. /\ pc = "invoke" /\ Len(results) = Len(handle) /\ Current(row, handle)
      /\ DOMAIN handle = DOMAIN request /\ results \in Seq(Result) /\ handle \in Seq(Operation)
  BY DEF MayResume, IInv, TurnInv, MidBatch
<1>2. DOMAIN results = DOMAIN row /\ DOMAIN request = DOMAIN row
      /\ \A k \in DOMAIN row : row[k].op = handle[k]
  BY <1>1, CurrentOps
<1>3. \A k \in DOMAIN row : /\ row[k].op.interrupt = request[k]
                            /\ row[k].state = "completed" /\ row[k].result = results[k]
  BY <1>1, <1>2 DEF HostedInv, Answering, MidBatch
<1>4. QED
  BY <1>1, <1>2, <1>3 DEF Deliverable

\* There stays at most one RPC, and it runs the Power its entry asks for.
LEMMA RunningStep ==
  ASSUME ~Local, IInv, HostedInv, Next
  PROVE  Running'
<1> DEFINE Fine(r) == IF r.entry = 0 THEN ~Admitted /\ row = NoRow /\ brain = << >>
                                     ELSE r.interrupt = row[r.entry].op.interrupt
<1>1. /\ \A r, s \in rpcs : r = s
      /\ \A r \in rpcs : Fine(r)
      /\ \A r \in rpcs : r.entry # 0 => r.entry \in DOMAIN row
  BY DEF HostedInv, Running, IInv, JournalInv, RpcsMatchRow
<1>2. ASSUME NEW r \in rpcs, r.entry = 0
      PROVE  Fine(r)'
  BY <1>1, <1>2, NothingAfterPurge DEF HostedInv
<1>3. ASSUME rpcs' \subseteq rpcs,
             \A k \in DOMAIN row : row'[k].op = row[k].op
      PROVE  Running'
  BY <1>1, <1>2, <1>3 DEF Running
<1>4. CASE Frame \/ Moves
  <2>1. rpcs' \subseteq rpcs /\ \A k \in DOMAIN row : row'[k].op = row[k].op
    BY <1>4, EntryMoves DEF Frame, journal, HostedInv
  <2>2. QED
    BY <1>3, <2>1
<1>5. CASE PrepareBatch
  <2>1. CASE row = NoRow
    <3>1. rpcs' = {}
      BY <1>5, <2>1, NothingRuns DEF PrepareBatch, RoundAdmitted, Context, workload
    <3>2. QED
      BY <3>1 DEF Running
  <2>2. CASE UNCHANGED journal
    BY <1>3, <1>5, <2>2 DEF PrepareBatch, workload, journal
  <2>3. QED
    BY <1>5, <2>1, <2>2 DEF PrepareBatch
<1>6. CASE DispatchPower
  <2>1. /\ pc = "granted" /\ Admitted /\ UNCHANGED row
        /\ rpcs' = rpcs \cup {[entry |-> Ordinal, interrupt |-> request[Ordinal], out |-> NoResult]}
    BY <1>6 DEF DispatchPower, Context, journal
  <2>2. rpcs = {}
    BY <2>1, NothingRuns
  <2>3. /\ Ordinal \in DOMAIN request /\ Ordinal \in DOMAIN row /\ Ordinal \in 1..MaxOperations
        /\ Current(row, handle)
    BY <2>1, OrdinalInRow
  <2>4. request[Ordinal] = row[Ordinal].op.interrupt /\ Ordinal # 0
    BY <2>1, <2>3, CurrentOps, TurnAssumption DEF HostedInv, Answering, MidBatch
  <2>5. QED
    BY <2>1, <2>2, <2>4 DEF Running
<1>7. CASE DeliverBatch
  <2>1. Current(row, handle) /\ Deliverable(row) /\ rpcs' = rpcs
    BY <1>7 DEF DeliverBatch, IInv, TurnInv, MidBatch, workload
  <2>2. \A r \in rpcs : r.entry = 0
    BY <2>1, NoRowNoRpc DEF IInv
  <2>3. QED
    BY <1>1, <1>2, <2>1, <2>2 DEF Running
<1>8. ASSUME NEW r \in rpcs, PowerRuns(r)
      PROVE  Running'
  <2>1. PICK v \in Result : rpcs' = (rpcs \ {r}) \cup {[r EXCEPT !.out = v]}
    BY <1>8 DEF PowerRuns
  <2> DEFINE new == [r EXCEPT !.out = v]
  <2>2. r \in Rpc
    BY DEF IInv, JournalInv
  <2>3. new.entry = r.entry /\ new.interrupt = r.interrupt
    BY <2>2 DEF Rpc
  <2>4. rpcs' = {new} /\ row' = row
    BY <1>1, <1>8, <2>1 DEF PowerRuns
  <2>5. Fine(new)'
    BY <1>1, <1>2, <2>3, <2>4
  <2>6. QED
    BY <2>4, <2>5 DEF Running
<1>9. CASE DestroyPurges
  <2>1. /\ pc = "purging" /\ row' = NoRow /\ rpcs' = {[r EXCEPT !.entry = 0] : r \in rpcs}
        /\ UNCHANGED <<brain, live, canceller>>
    BY <1>9 DEF DestroyPurges, brainVars, team
  <2>2. brain = << >> /\ ~Admitted
    BY <2>1 DEF HostedInv, Destroying, Admitted
  <2>3. \A r \in rpcs : [r EXCEPT !.entry = 0].entry = 0
    BY DEF IInv, JournalInv, Rpc
  <2>4. \A r \in rpcs' : r.entry = 0
    BY <2>1, <2>3
  <2>5. \A r, s \in rpcs' : r = s
    BY <1>1, <2>1
  <2>6. ~Admitted' /\ brain' = << >>
    BY <2>1, <2>2 DEF Admitted
  <2>7. QED
    BY <2>1, <2>4, <2>5, <2>6 DEF Running
<1>10. CASE TurnStep
  BY <1>4, <1>5, <1>6, <1>7, <1>10, TurnFrame DEF TurnStep, Moves
<1>11. CASE Surroundings
  BY <1>4, <1>8, <1>9, <1>11, SurroundingsFrame
<1>12. QED
  BY <1>10, <1>11 DEF Next

\* What the Brain was given in this turn stays in seen, through every pause.
LEMMA AnsweredStep ==
  ASSUME ~Local, IInv, HostedInv, Next
  PROVE  Answered'
<1> DEFINE Kept == /\ TurnActive => turnAnswered \subseteq seen /\ parked = NoPark
                   /\ parked # NoPark => turnAnswered \subseteq parked.seen
           Idle == \A r \in rpcs : r.out = NoResult => r.interrupt \notin turnAnswered
<1>1. Kept /\ Idle
  BY DEF HostedInv, Answered
<1>2. Kept'
  <2>1. CASE UNCHANGED <<pc, seen, turnAnswered>> /\ parked' \in {parked, NoPark}
    BY <1>1, <2>1 DEF TurnActive
  <2>2. CASE ParkForAccount \/ ParkForAnswer
    <3>1. /\ TurnActive /\ ~TurnActive' /\ parked'.seen = seen /\ turnAnswered' = turnAnswered
      BY <2>2 DEF ParkForAccount, ParkForAnswer, RoundAdmitted, Park, ParkedTurn, TurnOver, TurnActive,
         history
    <3>2. QED
      BY <1>1, <3>1
  <2>3. CASE CompleteTurn \/ PrepareIsRefused \/ InvokeIsRefused \/ ReplyFails
             \/ RpcTimesOut \/ ResumeIsLost \/ AbortTurn
    <3>1. TurnActive /\ ~TurnActive' /\ parked' = parked
      BY <2>3 DEF CompleteTurn, PrepareIsRefused, InvokeIsRefused, ReplyFails, RpcTimesOut,
         ResumeIsLost, AbortTurn, RoundAdmitted, MayResume, TurnOver, TurnActive, waiting
    <3>2. QED
      BY <1>1, <3>1
  <2>4. CASE PrepareBatch \/ BeginPower \/ UseStoredResult \/ DispatchPower \/ GrantReplays
             \/ DeliverBatch
    <3>1. TurnActive /\ UNCHANGED <<seen, parked, turnAnswered>>
      BY <2>4 DEF PrepareBatch, BeginPower, UseStoredResult, DispatchPower, GrantReplays, DeliverBatch,
         RoundAdmitted, InvocationCurrent, TurnActive, waiting, history
    <3>2. QED
      BY <1>1, <3>1
  <2>5. ASSUME NEW r \in rpcs, ReplyCompletes(r) \/ ReplySuspends(r)
        PROVE  Kept'
    <3>1. /\ TurnActive /\ UNCHANGED <<parked, turnAnswered>>
          /\ UNCHANGED seen \/ ~TurnActive'
      BY <2>5 DEF ReplyCompletes, ReplySuspends, TurnOver, TurnActive, waiting, history
    <3>2. QED
      BY <1>1, <3>1
  <2>6. CASE ResumeTurn
    <3>1. /\ TurnActive /\ UNCHANGED parked /\ seen' = seen \cup Range(request)
          /\ turnAnswered' = turnAnswered \cup Range(request)
      BY <2>6 DEF ResumeTurn, MayResume, BrainAccepts, TurnActive, waiting
    <3>2. QED
      BY <1>1, <3>1
  <2>7. CASE StartTurn
    BY <2>7 DEF StartTurn, MayStart, waiting
  <2>8. CASE ClaimParked
    BY <1>1, <2>8 DEF ClaimParked, history
  <2>9. CASE CrashController
    BY <2>9 DEF CrashController, TurnOver, RestoredTurn, TurnActive
  <2>10. CASE DestroyBegins \/ DestroyDeletesThread \/ DestroyPurges \/ DestroyFails \/ DestroyFinishes
    <3>1. ~TurnActive' /\ parked' \in {parked, NoPark} /\ turnAnswered' = turnAnswered
      BY <2>10 DEF DestroyBegins, DestroyDeletesThread, DestroyPurges, DestroyFails, DestroyFinishes,
         LeftByTeardown, TurnActive, waiting, history
    <3>2. QED
      BY <1>1, <3>1
  <2>11. CASE \/ StartIsLost \/ ClaimIsRefused \/ ChallengeExpires \/ StopChat \/ StopMarksTurn
              \/ (\E r \in rpcs : PowerRuns(r) \/ OrphanExits(r))
              \/ ConnectAccount \/ DisconnectAccount \/ TokenAges \/ DirectInvocation
              \/ ContainerExits \/ InstallAssistant \/ UninstallAssistant
              \/ DestroyMarksTurn \/ DestroyHostedTeam
    <3>1. UNCHANGED <<pc, seen, turnAnswered>>
      BY <2>11 DEF StartIsLost, ClaimIsRefused, ChallengeExpires, StopChat, StopMarksTurn, PowerRuns,
         OrphanExits, ConnectAccount, DisconnectAccount, TokenAges, DirectInvocation, ContainerExits,
         InstallAssistant, UninstallAssistant, DestroyMarksTurn, DestroyHostedTeam, turn, history
    <3>2. parked' \in {parked, NoPark}
      BY <2>11 DEF StartIsLost, ClaimIsRefused, ChallengeExpires, StopChat, StopMarksTurn, PowerRuns,
         OrphanExits, ConnectAccount, DisconnectAccount, TokenAges, DirectInvocation, ContainerExits,
         InstallAssistant, UninstallAssistant, DestroyMarksTurn, DestroyHostedTeam, LeftPending, waiting
    <3>3. QED
      BY <2>1, <3>1, <3>2
  <2>12. ~DestroyTeam /\ ~DestroyGivesUp /\ ~ResetSpace
    BY DEF DestroyTeam, DestroyGivesUp, ResetSpace
  <2>13. CASE TurnStep
    BY <2>2, <2>3, <2>4, <2>5, <2>6, <2>13 DEF TurnStep
  <2>14. CASE Surroundings
    BY <2>7, <2>8, <2>9, <2>10, <2>11, <2>12, <2>14 DEF Surroundings
  <2>15. QED
    BY <2>13, <2>14 DEF Next
<1>3. Idle'
  <2>1. CASE rpcs' \subseteq rpcs /\ turnAnswered' \in {{}, turnAnswered}
    BY <1>1, <2>1
  <2>2. CASE DispatchPower
    <3>1. /\ pc = "granted" /\ UNCHANGED turnAnswered
          /\ rpcs' = rpcs \cup {[entry |-> Ordinal, interrupt |-> request[Ordinal], out |-> NoResult]}
      BY <2>2 DEF DispatchPower, history
    <3>2. request[Ordinal] \in Range(request)
      BY <3>1, OrdinalInRow DEF Range
    <3>3. request[Ordinal] \notin turnAnswered
      BY <1>1, <3>1, <3>2 DEF HostedInv, Answering, MidBatch, TurnActive
    <3>4. QED
      BY <1>1, <3>1, <3>3
  <2>3. CASE ResumeTurn \/ ResumeIsLost
    <3>1. MayResume /\ Admitted /\ rpcs' = rpcs
      BY <2>3 DEF ResumeTurn, ResumeIsLost, MayResume, Context, workload
    <3>2. rpcs = {}
      BY <3>1, BatchIsComplete, NothingRuns
    <3>3. QED
      BY <3>1, <3>2
  <2>4. ASSUME NEW r \in rpcs, PowerRuns(r)
        PROVE  Idle'
    <3>1. PICK v \in Result : rpcs' = (rpcs \ {r}) \cup {[r EXCEPT !.out = v]}
      BY <2>4 DEF PowerRuns
    <3>2. [r EXCEPT !.out = v].out # NoResult /\ turnAnswered' = turnAnswered
      BY <2>4, TurnAssumption DEF PowerRuns, IInv, JournalInv, Rpc
    <3>3. QED
      BY <1>1, <3>1, <3>2
  <2>5. CASE DestroyPurges
    <3>1. rpcs' = {[r EXCEPT !.entry = 0] : r \in rpcs} /\ turnAnswered' = turnAnswered
      BY <2>5 DEF DestroyPurges, history
    <3>2. ASSUME NEW r \in rpcs
          PROVE  [r EXCEPT !.entry = 0].out = r.out /\ [r EXCEPT !.entry = 0].interrupt = r.interrupt
      BY DEF IInv, JournalInv, Rpc
    <3>3. ASSUME NEW s \in rpcs', s.out = NoResult
          PROVE  s.interrupt \notin turnAnswered'
      <4>1. PICK r \in rpcs : s = [r EXCEPT !.entry = 0]
        BY <3>1
      <4>2. s.out = r.out /\ s.interrupt = r.interrupt
        BY <3>2, <4>1
      <4>3. QED
        BY <1>1, <3>1, <3>3, <4>2
    <3>4. QED
      BY <3>3
  <2>6. CASE TurnStep
    <3>1. CASE DispatchPower \/ ResumeTurn \/ ResumeIsLost
      BY <2>2, <2>3, <3>1
    <3>2. CASE ~(DispatchPower \/ ResumeTurn \/ ResumeIsLost)
      <4>1. rpcs' \subseteq rpcs
        BY <2>6, <3>2, TurnFrame, EntryMoves
           DEF TurnStep, Moves, PrepareBatch, DeliverBatch, workload, Frame, HostedInv
      <4>2. turnAnswered' = turnAnswered
        BY <2>6, <3>2 DEF TurnStep, CompleteTurn, ParkForAccount, PrepareBatch, PrepareIsRefused,
           BeginPower, UseStoredResult, InvokeIsRefused, ReplyCompletes, ReplySuspends, ReplyFails,
           RpcTimesOut, ParkForAnswer, GrantReplays, DeliverBatch, AbortTurn, history
      <4>3. QED
        BY <2>1, <4>1, <4>2
    <3>3. QED
      BY <3>1, <3>2
  <2>7. CASE Surroundings
    <3>1. CASE Frame
      <4>1. turnAnswered' \in {{}, turnAnswered}
        BY <2>7 DEF Surroundings, StartTurn, StartIsLost, ClaimParked, ClaimIsRefused, ChallengeExpires,
           StopChat, StopMarksTurn, CrashController, PowerRuns, OrphanExits, ConnectAccount,
           DisconnectAccount, TokenAges, DirectInvocation, ContainerExits, InstallAssistant,
           UninstallAssistant, DestroyTeam, DestroyMarksTurn, DestroyHostedTeam, DestroyBegins,
           DestroyDeletesThread, DestroyPurges, DestroyFails, DestroyGivesUp, DestroyFinishes,
           ResetSpace, history
      <4>2. QED
        BY <2>1, <3>1, <4>1 DEF Frame
    <3>2. QED
      BY <2>4, <2>5, <2>7, <3>1, SurroundingsFrame
  <2>8. QED
    BY <2>6, <2>7 DEF Next
<1>4. QED
  BY <1>2, <1>3 DEF Answered

-----------------------------------------------------------------------------
\* A new Team generation satisfies the invariant.
LEMMA InitHosted == Init => HostedInv
BY DEF Init, HostedInv, Ordered, Answering, Destroying, Running, Answered, MidBatch, TurnActive, NoRow

\* A step that changes nothing keeps what is said of a state.
LEMMA HostedStutters ==
  ASSUME HostedInv, UNCHANGED vars
  PROVE  HostedInv'
BY DEF vars, journal, brainVars, turn, waiting, workload, credential, team, history, HostedInv,
   Ordered, Answering, Destroying, Running, Answered, Admitted, MidBatch, TurnActive, Range

\* Every step of a hosted Team keeps it.
LEMMA StepHosted ==
  ASSUME ~Local
  PROVE  IInv /\ HostedInv /\ [Next]_vars => HostedInv'
<1> SUFFICES ASSUME IInv, HostedInv, [Next]_vars PROVE HostedInv'
  OBVIOUS
<1>1. CASE Next
  BY <1>1, OrderedStep, AnsweringStep, DestroyingStep, RunningStep, AnsweredStep DEF HostedInv
<1>2. CASE UNCHANGED vars
  BY <1>2, HostedStutters
<1>3. QED
  BY <1>1, <1>2

\* HostedInv holds in every reachable state of a hosted Team.
LEMMA HostedInvariance ==
  ASSUME ~Local
  PROVE  Spec => [](IInv /\ HostedInv)
<1>1. IInv /\ HostedInv /\ [Next]_vars => IInv' /\ HostedInv'
  BY StepHosted, StepIInv
<1>2. QED
  BY <1>1, InitIInv, InitHosted, PTL DEF Spec

\* Two Powers of a hosted Team never run at the same time, also when a
\* Controller that crashed left one running.
THEOREM OneAtATime ==
  ASSUME ~Local
  PROVE  Spec => []OneSideEffectAtATime
<1>1. HostedInv => OneSideEffectAtATime
  <2> SUFFICES ASSUME HostedInv PROVE Cardinality(rpcs) <= 1
    BY DEF OneSideEffectAtATime
  <2>1. CASE rpcs = {}
    BY <2>1, FS_EmptySet
  <2>2. CASE rpcs # {}
    <3>1. PICK r \in rpcs : TRUE
      BY <2>2
    <3>2. rpcs = {r}
      BY <3>1 DEF HostedInv, Running
    <3>3. Cardinality({r}) = 1
      BY FS_Singleton
    <3>4. QED
      BY <3>2, <3>3
  <2>3. QED
    BY <2>1, <2>2
<1>2. QED
  BY <1>1, HostedInvariance, PTL

\* A destroyed hosted Team leaves neither a row nor a paused turn.
THEOREM NothingIsLeft ==
  ASSUME ~Local
  PROVE  Spec => []DestroyedLeavesNothing
<1>1. HostedInv => DestroyedLeavesNothing
  BY DEF HostedInv, Destroying, DestroyedLeavesNothing
<1>2. QED
  BY <1>1, HostedInvariance, PTL

\* Only a Power that runs produces a result; only a resume tells the Brain
\* one; only these and the destruction of the Team change what the Brain asks.
LEMMA WhoChangesWhat ==
  ASSUME Next
  PROVE  /\ (\E r \in rpcs : PowerRuns(r)) \/ produced' = produced
         /\ ResumeTurn \/ ResumeIsLost \/ told' = told
         /\ StartTurn \/ StartIsLost \/ ResumeTurn \/ ResumeIsLost \/ DestroyDeletesThread
              \/ UNCHANGED brainVars
<1>1. CASE TurnStep
  BY <1>1 DEF TurnStep, brainVars, history, CompleteTurn, ParkForAccount, PrepareBatch, PrepareIsRefused, BeginPower,
     UseStoredResult, InvokeIsRefused, DispatchPower, ReplyCompletes, ReplySuspends, ReplyFails,
     RpcTimesOut, ParkForAnswer, GrantReplays, ResumeTurn, ResumeIsLost, DeliverBatch, AbortTurn
<1>2. CASE \E r \in rpcs : PowerRuns(r)
  BY <1>2 DEF PowerRuns, brainVars
<1>3. CASE Surroundings /\ ~(\E r \in rpcs : PowerRuns(r))
  BY <1>3 DEF Surroundings, brainVars, history, StartTurn, StartIsLost, ClaimParked, ClaimIsRefused, ChallengeExpires, StopChat,
     StopMarksTurn, CrashController, OrphanExits, ConnectAccount, DisconnectAccount, TokenAges,
     DirectInvocation, ContainerExits, InstallAssistant, UninstallAssistant, DestroyTeam,
     DestroyMarksTurn, DestroyHostedTeam, DestroyBegins, DestroyDeletesThread, DestroyPurges,
     DestroyFails, DestroyGivesUp, DestroyFinishes, ResetSpace
<1>4. QED
  BY <1>1, <1>2, <1>3 DEF Next

\* Within one turn of a hosted Team, over all of its pauses, no Power runs
\* again after the Brain was given its result.
THEOREM NoRepetition ==
  ASSUME ~Local
  PROVE  Spec => NoRepeatInTurn
<1>1. IInv /\ HostedInv /\ [Next]_vars => [\A i \in turnAnswered : produced'[i] = produced[i]]_vars
  <2> SUFFICES ASSUME IInv, HostedInv, Next, NEW i \in turnAnswered
               PROVE  produced'[i] = produced[i]
    OBVIOUS
  <2>1. ASSUME NEW r \in rpcs, PowerRuns(r)
        PROVE  produced'[i] = produced[i]
    <3>1. PICK v \in Result : produced' = [produced EXCEPT ![r.interrupt] = Append(@, v)]
      BY <2>1 DEF PowerRuns
    <3>2. r.interrupt # i
      BY <2>1 DEF PowerRuns, HostedInv, Answered
    <3>3. i \in Interrupt /\ produced \in [Interrupt -> Seq(Result)]
      BY DEF IInv, TeamInv
    <3>4. QED
      BY <3>1, <3>2, <3>3
  <2>2. QED
    BY <2>1, WhoChangesWhat
<1>2. QED
  BY <1>1, HostedInvariance, PTL DEF Spec, NoRepeatInTurn

-----------------------------------------------------------------------------
\* A Brain that names every suspension once.  The turn asks for what the
\* Brain waits on, and a paused one for what it will be asked again.
Asked ==
  /\ TurnActive => request = brain
  /\ parked # NoPark /\ Admitted => parked.request = brain
  /\ Range(brain) \subseteq issued

\* A Power that has run is one of the row, or the Brain has its result and
\* will not ask for it again.
Produced ==
  /\ \A i \in Interrupt \ issued : produced[i] = << >>
  /\ \A k \in DOMAIN row : /\ row[k].op.interrupt \in issued
                          /\ produced[row[k].op.interrupt] = ran[k]
  /\ \A j, k \in DOMAIN row : row[j].op.interrupt = row[k].op.interrupt => j = k
  /\ \A r \in rpcs : r.interrupt \in issued /\ (r.out = NoResult => produced[r.interrupt] = << >>)
  /\ \A i \in Range(brain) : produced[i] # << >> => \E k \in DOMAIN row : row[k].op.interrupt = i
  /\ RunsAtMostOnce

OnceInv == IInv /\ HostedInv /\ Asked /\ Produced

\* The turn, and a paused one, keep asking for what the Brain waits on.
LEMMA AskedStep ==
  ASSUME ~Local, IInv, HostedInv, Asked, Next
  PROVE  Asked'
<1>1. Range(brain') \subseteq issued'
  <2>1. CASE \E next \in BrainReply : BrainAnswers(next)
    BY <2>1 DEF BrainAnswers
  <2>2. CASE DestroyDeletesThread
    BY <2>2 DEF DestroyDeletesThread, Range
  <2>3. CASE UNCHANGED brainVars
    BY <2>3 DEF brainVars, Asked
  <2>4. QED
    BY <2>1, <2>2, <2>3, WhoChangesWhat DEF StartTurn, StartIsLost, ResumeTurn, ResumeIsLost
<1>2. (TurnActive => request = brain)'
  <2>1. CASE TurnOver
    BY <2>1 DEF TurnOver, TurnActive
  <2>2. CASE UNCHANGED <<pc, request, brain>>
    BY <2>2 DEF Asked, TurnActive
  <2>3. CASE StartTurn \/ ResumeTurn
    BY <2>3 DEF StartTurn, ResumeTurn, BrainAnswers
  <2>4. CASE ClaimParked
    BY <2>4 DEF ClaimParked, Context, Asked, brainVars
  <2>5. CASE DestroyBegins \/ DestroyDeletesThread \/ DestroyPurges \/ DestroyFails \/ DestroyFinishes
    BY <2>5 DEF DestroyBegins, DestroyDeletesThread, DestroyPurges, DestroyFails, DestroyFinishes,
       TurnActive
  <2>6. CASE TurnStep
    <3>1. CASE TurnOver \/ ResumeTurn
      BY <2>1, <2>3, <3>1
    <3>2. CASE ~TurnOver /\ ~ResumeTurn
      <4>1. TurnActive /\ UNCHANGED <<request, brain>>
        BY <2>6, <3>2 DEF TurnStep, TurnActive, brainVars, CompleteTurn, ParkForAccount, Park,
           PrepareBatch, RoundAdmitted, PrepareIsRefused, BeginPower, InvocationCurrent,
           UseStoredResult, InvokeIsRefused, DispatchPower, ReplyCompletes, ReplySuspends, ReplyFails,
           RpcTimesOut, ParkForAnswer, GrantReplays, ResumeIsLost, DeliverBatch, AbortTurn
      <4>2. QED
        BY <4>1 DEF Asked
    <3>3. QED
      BY <3>1, <3>2
  <2>7. CASE StartIsLost
    BY <2>7 DEF StartIsLost, MayStart, TurnActive, turn
  <2>8. CASE CrashController
    BY <2>1, <2>8 DEF CrashController
  <2>9. CASE ClaimIsRefused \/ ChallengeExpires \/ StopChat \/ StopMarksTurn
             \/ (\E r \in rpcs : PowerRuns(r) \/ OrphanExits(r))
             \/ ConnectAccount \/ DisconnectAccount \/ TokenAges \/ DirectInvocation
             \/ ContainerExits \/ InstallAssistant \/ UninstallAssistant
             \/ DestroyTeam \/ DestroyMarksTurn \/ DestroyHostedTeam \/ DestroyGivesUp \/ ResetSpace
    BY <2>2, <2>9 DEF ClaimIsRefused, ChallengeExpires, StopChat, StopMarksTurn, PowerRuns,
       OrphanExits, ConnectAccount, DisconnectAccount, TokenAges, DirectInvocation, ContainerExits,
       InstallAssistant, UninstallAssistant, DestroyTeam, DestroyMarksTurn, DestroyHostedTeam,
       DestroyGivesUp, ResetSpace, turn, brainVars
  <2>10. CASE Surroundings
    BY <2>3, <2>4, <2>5, <2>7, <2>8, <2>9, <2>10 DEF Surroundings
  <2>11. QED
    BY <2>6, <2>10 DEF Next
<1>3. (parked # NoPark /\ Admitted => parked.request = brain)'
  <2>1. CASE UNCHANGED brain /\ (Admitted' => Admitted) /\ parked' \in {parked, NoPark}
    BY <2>1 DEF Asked
  <2>2. CASE ParkForAccount \/ ParkForAnswer
    <3>1. TurnActive /\ parked'.request = request /\ brain' = brain
      BY <2>2 DEF ParkForAccount, ParkForAnswer, RoundAdmitted, Park, ParkedTurn, TurnActive, brainVars
    <3>2. QED
      BY <3>1 DEF Asked
  <2>3. CASE StartTurn \/ StartIsLost \/ ResumeTurn \/ ResumeIsLost
    <3>1. parked' = NoPark
      BY <2>3 DEF StartTurn, StartIsLost, MayStart, ResumeTurn, ResumeIsLost, MayResume, TurnActive,
         waiting, HostedInv, Answered
    <3>2. QED
      BY <3>1
  <2>4. CASE DestroyDeletesThread
    BY <2>4 DEF DestroyDeletesThread, HostedInv, Destroying, Admitted, team
  <2>5. Admitted' => Admitted
    BY NeverAdmittedAgain
  <2>6. ParkForAccount \/ ParkForAnswer \/ parked' \in {parked, NoPark}
    <3>1. CASE TurnStep
      BY <3>1 DEF TurnStep, waiting, CompleteTurn, PrepareBatch, PrepareIsRefused, BeginPower,
         UseStoredResult, InvokeIsRefused, DispatchPower, ReplyCompletes, ReplySuspends, ReplyFails,
         RpcTimesOut, GrantReplays, ResumeTurn, ResumeIsLost, DeliverBatch, AbortTurn
    <3>2. CASE Surroundings
      BY <3>2 DEF Surroundings, waiting, LeftPending, LeftByTeardown, RestoredTurn, PowerRuns, StartTurn, StartIsLost, ClaimParked, ClaimIsRefused, ChallengeExpires, StopChat,
         StopMarksTurn, CrashController, OrphanExits, ConnectAccount, DisconnectAccount, TokenAges,
         DirectInvocation, ContainerExits, InstallAssistant, UninstallAssistant, DestroyTeam,
         DestroyMarksTurn, DestroyHostedTeam, DestroyBegins, DestroyDeletesThread, DestroyPurges,
         DestroyFails, DestroyGivesUp, DestroyFinishes, ResetSpace
    <3>3. QED
      BY <3>1, <3>2 DEF Next
  <2>7. QED
    BY <2>1, <2>2, <2>3, <2>4, <2>5, <2>6, WhoChangesWhat DEF brainVars
<1>4. QED
  BY <1>1, <1>2, <1>3 DEF Asked

\* A Power that runs is the first to run for its interrupt.
LEMMA FirstRun ==
  ASSUME OnceInv, NEW r \in rpcs, PowerRuns(r)
  PROVE  /\ r.interrupt \in Interrupt /\ produced[r.interrupt] = << >>
         /\ \E v \in Result :
              /\ produced' = [produced EXCEPT ![r.interrupt] = <<v>>]
              /\ rpcs' = {[r EXCEPT !.out = v]}
              /\ r.entry # 0 => ran' = [ran EXCEPT ![r.entry] = <<v>>]
              /\ r.entry = 0 => ran' = ran
<1>1. PICK v \in Result :
        /\ rpcs' = (rpcs \ {r}) \cup {[r EXCEPT !.out = v]}
        /\ produced' = [produced EXCEPT ![r.interrupt] = Append(@, v)]
        /\ ran' = IF r.entry = 0 THEN ran ELSE [ran EXCEPT ![r.entry] = Append(@, v)]
  BY DEF PowerRuns
<1>2. r.out = NoResult /\ r \in Rpc
  BY DEF PowerRuns, OnceInv, IInv, JournalInv
<1>3. r.interrupt \in Interrupt /\ produced[r.interrupt] = << >>
  BY <1>2 DEF Rpc, OnceInv, Produced
<1>4. Append(<< >>, v) = <<v>>
  OBVIOUS
<1>5. produced' = [produced EXCEPT ![r.interrupt] = Append(produced[r.interrupt], v)]
  BY <1>1
<1>6. produced' = [produced EXCEPT ![r.interrupt] = <<v>>]
  BY <1>3, <1>4, <1>5, Zenon
<1>7. rpcs' = {[r EXCEPT !.out = v]}
  BY <1>1 DEF OnceInv, HostedInv, Running
<1>8. r.entry # 0 => ran' = [ran EXCEPT ![r.entry] = <<v>>]
  <2> SUFFICES ASSUME r.entry # 0
               PROVE  ran' = [ran EXCEPT ![r.entry] = <<v>>]
    OBVIOUS
  <2>1. ran[r.entry] = << >>
    BY <1>2 DEF OnceInv, IInv, JournalInv, RpcsMatchRow
  <2>2. ran' = [ran EXCEPT ![r.entry] = Append(ran[r.entry], v)]
    BY <1>1
  <2>3. QED
    BY <1>4, <2>1, <2>2, Zenon
<1>9. QED
  BY <1>1, <1>3, <1>6, <1>7, <1>8

\* Where the Brain may take its next suspension from: it names a fresh one,
\* repeats the one it waits on, or ends the conversation.
LEMMA NextIsFresh ==
  ASSUME ~BrainRepeats, Produced, NEW next \in BrainReply, NEW i \in Range(next), i \in Interrupt
  PROVE  i \in Range(brain) \/ produced[i] = << >>
<1>1. CASE next \in {<< >>, brain}
  BY <1>1 DEF Range
<1>2. CASE Range(next) \cap issued = {}
  BY <1>2 DEF Produced
<1>3. QED
  BY <1>1, <1>2 DEF BrainReply

\* No step lets a Power run twice.
LEMMA ProducedStep ==
  ASSUME ~Local, ~BrainRepeats, OnceInv, Next
  PROVE  Produced'
<1> USE DEF OnceInv
<1>1. /\ row \in Seq(Entry) /\ DOMAIN row \subseteq 1..MaxOperations
      /\ ran \in [1..MaxOperations -> Seq(Result)]
      /\ produced \in [Interrupt -> Seq(Result)] /\ rpcs \in SUBSET Rpc
      /\ issued \in SUBSET Interrupt
  BY TurnAssumption DEF IInv, JournalInv, TeamInv
<1>2. \A k \in DOMAIN row : row[k].op.interrupt \in Interrupt
  <2>1. \A k \in DOMAIN row : row[k] \in Entry
    BY <1>1
  <2>2. QED
    BY <2>1 DEF Entry, Operation
\* A step under which no Power runs keeps what its runs are related to.
<1>3. ASSUME UNCHANGED <<produced, ran>>, issued \subseteq issued', rpcs' \subseteq rpcs,
             DOMAIN row' = DOMAIN row, \A k \in DOMAIN row : row'[k].op = row[k].op,
             \A i \in Range(brain') : i \in Range(brain) \/ produced[i] = << >>
      PROVE  Produced'
  BY <1>3 DEF Produced, RunsAtMostOnce
<1>4. CASE ~(\E r \in rpcs : PowerRuns(r)) /\ (Frame \/ Moves)
  <2>1. /\ produced' = produced /\ ran' = ran /\ rpcs' \subseteq rpcs
        /\ DOMAIN row' = DOMAIN row /\ \A k \in DOMAIN row : row'[k].op = row[k].op
    BY <1>4, WhoChangesWhat, EntryMoves DEF Frame, journal, HostedInv
  <2>2. issued \subseteq issued' /\ \A i \in Range(brain') : i \in Range(brain) \/ produced[i] = << >>
    <3>1. ASSUME NEW next \in BrainReply, BrainAnswers(next)
          PROVE  issued \subseteq issued' /\ \A i \in Range(brain') : i \in Range(brain) \/ produced[i] = << >>
      <4>1. Range(next) \in SUBSET Interrupt
        BY ReplyTyped DEF IInv
      <4>2. QED
        BY <3>1, <4>1, NextIsFresh DEF BrainAnswers
    <3>2. CASE DestroyDeletesThread
      BY <3>2 DEF DestroyDeletesThread, Range
    <3>3. CASE UNCHANGED brainVars
      BY <3>3 DEF brainVars
    <3>4. QED
      BY <3>1, <3>2, <3>3, WhoChangesWhat DEF StartTurn, StartIsLost, ResumeTurn, ResumeIsLost
  <2>3. QED
    BY <1>3, <2>1, <2>2
<1>5. CASE PrepareBatch
  <2>1. /\ rpcs' = rpcs /\ UNCHANGED <<brain, issued, produced>>
    BY <1>5 DEF PrepareBatch, workload, brainVars, history
  <2>2. CASE row = NoRow /\ row' = Inserted(handle') /\ ran' = NothingRan
    <3>1. /\ pc = "round" /\ Context /\ handle' = Operations(request, Resolved)
          /\ container \in Nat /\ Resolved \in Nat
      BY <1>5, TurnAssumption DEF PrepareBatch, RoundAdmitted, IInv, TeamInv, Resolved
    <3>2. request \in Request /\ brain = request
      BY <3>1 DEF IInv, TurnInv, Asked, TurnActive
    <3>3. /\ handle' \in Seq(Operation) /\ DOMAIN handle' = DOMAIN request
          /\ Len(handle') <= MaxOperations
      BY <3>1, <3>2, OperationsTyped
    <3>4. DOMAIN row' = DOMAIN request /\ DOMAIN row' \subseteq 1..MaxOperations
      BY <2>2, <3>3, InsertedTyped, TurnAssumption
    <3>5. \A k \in DOMAIN row' : row'[k].op.interrupt = request[k]
      BY <2>2, <3>1, <3>4 DEF Inserted, Operations, OperationOf
    <3>6. rpcs' = {}
      BY <2>1, <2>2, <3>1, NothingRuns DEF Context
    <3>7. \A i \in Range(brain) : produced[i] = << >>
      BY <2>2 DEF Produced, NoRow
    <3>8. \A k \in DOMAIN row' : request[k] \in Range(brain) /\ request[k] \in issued
      BY <3>2, <3>4 DEF Range, Asked
    <3>9. \A k \in DOMAIN row' : ran'[k] = << >>
      BY <2>2, <3>4 DEF NothingRan
    <3>10. \A j, k \in DOMAIN row' : row'[j].op.interrupt = row'[k].op.interrupt => j = k
      BY <3>2, <3>4, <3>5, RequestInjective
    <3>11. QED
      BY <2>1, <3>5, <3>6, <3>7, <3>8, <3>9, <3>10 DEF Produced, RunsAtMostOnce
  <2>3. CASE UNCHANGED journal
    BY <1>3, <2>1, <2>3 DEF journal
  <2>4. QED
    BY <1>5, <2>2, <2>3 DEF PrepareBatch
<1>6. CASE DispatchPower
  <2>1. /\ pc = "granted" /\ UNCHANGED <<row, ran, brain, issued, produced>>
        /\ rpcs' = rpcs \cup {[entry |-> Ordinal, interrupt |-> request[Ordinal], out |-> NoResult]}
    BY <1>6 DEF DispatchPower, journal, brainVars, history
  <2>2. Ordinal \in DOMAIN request /\ Ordinal \in DOMAIN row /\ Current(row, handle)
        /\ ran[Ordinal] = << >>
    BY <2>1, OrdinalInRow DEF IInv, TurnInv
  <2>3. request[Ordinal] = row[Ordinal].op.interrupt
    BY <2>1, <2>2, CurrentOps DEF HostedInv, Answering, MidBatch
  <2>4. request[Ordinal] \in issued /\ produced[request[Ordinal]] = << >>
    BY <2>2, <2>3 DEF Produced
  <2>5. QED
    BY <2>1, <2>4 DEF Produced, RunsAtMostOnce
<1>7. CASE DeliverBatch
  <2>1. /\ pc = "deliver" /\ row' = NoRow /\ UNCHANGED <<rpcs, brain, issued, produced>>
    BY <1>7 DEF DeliverBatch, workload, brainVars, history
  <2>2. \A i \in Range(brain) : produced[i] = << >>
    <3>1. /\ brain = request /\ Range(request) \cap seen = {}
          /\ \A k \in DOMAIN row : row[k].op.interrupt \in seen
      BY <2>1 DEF Asked, TurnActive, HostedInv, Answering, MidBatch
    <3>2. QED
      BY <3>1 DEF Produced
  <2>3. QED
    BY <2>1, <2>2 DEF Produced, RunsAtMostOnce, NoRow
<1>8. CASE DestroyPurges
  <2>1. /\ pc = "purging" /\ row' = NoRow /\ UNCHANGED <<brain, issued, produced>>
        /\ rpcs' = {[r EXCEPT !.entry = 0] : r \in rpcs}
    BY <1>8 DEF DestroyPurges, brainVars, history
  <2>2. \A r \in rpcs : /\ [r EXCEPT !.entry = 0].interrupt = r.interrupt
                        /\ [r EXCEPT !.entry = 0].out = r.out
    BY <1>1 DEF Rpc
  <2>3. ASSUME NEW s \in rpcs'
        PROVE  s.interrupt \in issued /\ (s.out = NoResult => produced[s.interrupt] = << >>)
    <3>1. PICK r \in rpcs : s = [r EXCEPT !.entry = 0]
      BY <2>1
    <3>2. s.interrupt = r.interrupt /\ s.out = r.out
      BY <2>2, <3>1
    <3>3. QED
      BY <3>2 DEF Produced
  <2>4. Range(brain) = {}
    BY <2>1 DEF HostedInv, Destroying, Range
  <2>5. QED
    BY <2>1, <2>3, <2>4 DEF Produced, RunsAtMostOnce, NoRow
<1>9. ASSUME NEW r \in rpcs, PowerRuns(r)
      PROVE  Produced'
  <2>1. r.interrupt \in Interrupt /\ produced[r.interrupt] = << >> /\ r \in Rpc
        /\ UNCHANGED <<row, brain, issued>>
    BY <1>1, <1>9, FirstRun DEF PowerRuns, brainVars
  <2>2. PICK v \in Result :
          /\ produced' = [produced EXCEPT ![r.interrupt] = <<v>>]
          /\ rpcs' = {[r EXCEPT !.out = v]}
          /\ r.entry # 0 => ran' = [ran EXCEPT ![r.entry] = <<v>>]
          /\ r.entry = 0 => ran' = ran
    BY <1>9, FirstRun
  <2>3. /\ produced'[r.interrupt] = <<v>>
        /\ \A i \in Interrupt : i # r.interrupt => produced'[i] = produced[i]
    BY <1>1, <2>1, <2>2
  <2>4. /\ [r EXCEPT !.out = v].interrupt = r.interrupt
        /\ [r EXCEPT !.out = v].out # NoResult
    BY <2>1, TurnAssumption DEF Rpc
  <2>5. r.interrupt \in issued /\ Len(<<v>>) <= 1
    BY DEF Produced
  <2>6. CASE r.entry # 0
    <3>1. r.entry \in DOMAIN row /\ row[r.entry].op.interrupt = r.interrupt
      BY <2>6 DEF HostedInv, Running, IInv, JournalInv, RpcsMatchRow
    <3>2. ran'[r.entry] = <<v>> /\ \A k \in DOMAIN row : k # r.entry => ran'[k] = ran[k]
      BY <1>1, <2>2, <2>6, <3>1
    <3>3. \A k \in DOMAIN row : produced'[row[k].op.interrupt] = ran'[k]
      BY <1>2, <2>3, <3>1, <3>2 DEF Produced
    <3>4. \A i \in Range(brain) : produced'[i] # << >> => \E k \in DOMAIN row : row[k].op.interrupt = i
      <4>1. Range(brain) \subseteq Interrupt
        BY <1>1 DEF Asked
      <4>2. QED
        BY <2>3, <3>1, <4>1 DEF Produced
    <3>5. \A i \in Interrupt : Len(produced'[i]) <= 1
      BY <2>3, <2>5 DEF Produced, RunsAtMostOnce
    <3>6. QED
      BY <1>1, <2>1, <2>2, <2>3, <2>4, <2>5, <3>3, <3>4, <3>5 DEF Produced, RunsAtMostOnce
  <2>7. CASE r.entry = 0
    <3>1. row = NoRow /\ brain = << >>
      BY <2>7 DEF HostedInv, Running
    <3>2. \A i \in Interrupt : Len(produced'[i]) <= 1
      BY <2>3, <2>5 DEF Produced, RunsAtMostOnce
    <3>3. QED
      BY <1>1, <2>1, <2>2, <2>3, <2>4, <2>5, <3>1, <3>2 DEF Produced, RunsAtMostOnce, NoRow, Range
  <2>8. QED
    BY <2>6, <2>7
<1>10. CASE TurnStep
  <2>1. CASE PrepareBatch \/ DispatchPower \/ DeliverBatch
    BY <1>5, <1>6, <1>7, <2>1
  <2>2. CASE ~(PrepareBatch \/ DispatchPower \/ DeliverBatch)
    <3>1. Frame \/ Moves
      BY <1>10, <2>2, TurnFrame DEF TurnStep, Moves
    <3>2. QED
      BY <1>4, <1>9, <3>1
  <2>3. QED
    BY <2>1, <2>2
<1>11. CASE Surroundings
  BY <1>4, <1>8, <1>9, <1>11, SurroundingsFrame
<1>12. QED
  BY <1>10, <1>11 DEF Next

\* A new Team generation satisfies it too.
LEMMA InitOnce == Init => OnceInv
<1> SUFFICES ASSUME Init PROVE OnceInv
  OBVIOUS
<1>1. IInv /\ HostedInv
  BY InitIInv, InitHosted
<1>2. Asked
  BY DEF Init, Asked, TurnActive, Range
<1>3. Produced
  BY DEF Init, Produced, RunsAtMostOnce, NoRow, Range
<1>4. QED
  BY <1>1, <1>2, <1>3 DEF OnceInv

\* OnceInv holds in every reachable state of a hosted Team whose Brain names
\* every suspension once.
LEMMA OnceInvariance ==
  ASSUME ~Local, ~BrainRepeats
  PROVE  Spec => []OnceInv
<1>1. OnceInv /\ [Next]_vars => OnceInv'
  <2> SUFFICES ASSUME OnceInv, [Next]_vars PROVE OnceInv'
    OBVIOUS
  <2>1. IInv' /\ HostedInv'
    BY StepIInv, StepHosted DEF OnceInv
  <2>2. CASE Next
    BY <2>1, <2>2, AskedStep, ProducedStep DEF OnceInv
  <2>3. CASE UNCHANGED vars
    BY <2>1, <2>3 DEF OnceInv, Asked, Produced, RunsAtMostOnce, Admitted, TurnActive, Range, vars,
       journal, brainVars, turn, waiting, workload, credential, team, history
  <2>4. QED
    BY <2>2, <2>3
<1>2. QED
  BY <1>1, InitOnce, PTL DEF Spec

\* No Power of a hosted Team runs twice for one request of the Brain, over
\* the whole life of the Team and whatever is stopped, lost or restarted.
THEOREM RunsOnce ==
  ASSUME ~Local, ~BrainRepeats
  PROVE  Spec => []RunsAtMostOnce
<1>1. OnceInv => RunsAtMostOnce
  BY DEF OnceInv, Produced
<1>2. QED
  BY <1>1, OnceInvariance, PTL

-----------------------------------------------------------------------------
\* A Power that runs is a step of the contract.
LEMMA RunsByContract ==
  ASSUME OnceInv, NEW r \in rpcs, PowerRuns(r)
  PROVE  \E i \in Interrupt, result \in Result : Contract!Run(i, result)
BY FirstRun DEF PowerRuns, Contract!Run

\* The Brain is told of every request what the one run of it produced.
LEMMA TellsByContract ==
  ASSUME OnceInv, MayResume, BrainAccepts, produced' = produced
  PROVE  \E batch \in SUBSET Interrupt : Contract!Tell(batch)
<1>1. /\ Deliverable(row) /\ DOMAIN results = DOMAIN row /\ DOMAIN request = DOMAIN row
      /\ \A k \in DOMAIN row : row[k].op.interrupt = request[k] /\ row[k].result = results[k]
  BY BatchIsComplete DEF OnceInv
<1>2. ASSUME NEW k \in DOMAIN request
      PROVE  produced[request[k]] = <<results[k]>>
  BY <1>1 DEF OnceInv, IInv, JournalInv, JournalTellsTheTruth, Produced, Deliverable
<1>3. Range(request) \in SUBSET Interrupt
  BY RequestTyped DEF Range, OnceInv, IInv, TurnInv
<1> DEFINE At(i) == CHOOSE k \in DOMAIN request : request[k] = i
<1>4. ASSUME NEW i \in Range(request)
      PROVE  produced[i] # << >> /\ results[At(i)] = produced[i][1]
  <2>1. \E k \in DOMAIN request : request[k] = i
    BY DEF Range
  <2>2. At(i) \in DOMAIN request /\ request[At(i)] = i
    BY <2>1
  <2>3. produced[i] = <<results[At(i)]>>
    BY <1>2, <2>2
  <2>4. QED
    BY <2>3
<1>5. told' = [i \in Interrupt |-> IF i \in Range(request) THEN results[At(i)] ELSE told[i]]
  BY DEF BrainAccepts, ResultsToSend
<1>6. told' = [i \in Interrupt |-> IF i \in Range(request) THEN produced[i][1] ELSE told[i]]
  BY <1>4, <1>5
<1>7. Contract!Tell(Range(request))
  BY <1>4, <1>6 DEF Contract!Tell
<1>8. QED
  BY <1>3, <1>7

\* A hosted Team implements the contract of its Powers: the turn, the journal,
\* every pause, Stop and crash are steps of it or stutter.
THEOREM TurnsImplementContract ==
  ASSUME ~Local, ~BrainRepeats
  PROVE  Spec => ImplementsContract
<1>1. Init => Contract!Init
  BY DEF Init, Contract!Init
<1>2. OnceInv /\ [Next]_vars => [Contract!Next]_(Contract!vars)
  <2> SUFFICES ASSUME OnceInv, [Next]_vars
               PROVE  Contract!Next \/ UNCHANGED Contract!vars
    OBVIOUS
  <2>1. CASE \E r \in rpcs : PowerRuns(r)
    BY <2>1, RunsByContract DEF Contract!Next
  <2>2. CASE ResumeTurn \/ ResumeIsLost
    BY <2>2, TellsByContract DEF ResumeTurn, ResumeIsLost, Contract!Next
  <2>3. CASE UNCHANGED vars
    BY <2>3 DEF vars, history, Contract!vars
  <2>4. QED
    BY <2>1, <2>2, <2>3, WhoChangesWhat DEF Contract!vars
<1>3. QED
  BY <1>1, <1>2, OnceInvariance, PTL DEF Spec, ImplementsContract, Contract!Spec
=============================================================================
