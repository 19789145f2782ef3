------------------------- MODULE PowerJournalProofs -------------------------
(***************************************************************************)
(* Theorems about the Power journal for every number of generations,       *)
(* operations, results and rows.  The invariant GrantsMatchStates carries  *)
(* the argument: a decision to execute is outstanding exactly while its    *)
(* entry is not prepared, and only a prepared entry is granted.            *)
(***************************************************************************)
EXTENDS PowerJournal, FiniteSetTheorems, TLAPS

USE DEF EntryState

\* Every batch is a non-empty sequence of operations.
LEMMA BatchTyped ==
  ASSUME NEW ops \in Batch
  PROVE  ops \in Seq(Operation) /\ ops # << >>
  BY DEF Batch

\* A row whose fingerprint is a batch has an entry for each operation of it.
LEMMA CurrentDomain ==
  ASSUME NEW row, NEW ops, Current(row, ops)
  PROVE  DOMAIN ops = DOMAIN row
  BY DEF Current, Fingerprint

\* A freshly inserted row is well typed, and all of it is prepared.
LEMMA InsertedTyped ==
  ASSUME NEW ops \in Seq(Operation)
  PROVE  /\ Inserted(ops) \in Seq(Entry)
         /\ DOMAIN Inserted(ops) = DOMAIN ops
         /\ \A k \in DOMAIN ops : Inserted(ops)[k].state = "prepared"
<1>1. PICK n \in Nat : ops \in [1..n -> Operation]
  OBVIOUS
<1>2. Inserted(ops) \in [1..n -> Entry]
  BY <1>1 DEF Inserted, Entry
<1>3. QED
  BY <1>1, <1>2 DEF Inserted

\* The three updates of an entry.
Updates(row, k) ==
  {Begun(row, k), Suspended(row, k)} \cup {Completed(row, k, result) : result \in Result}

\* An update keeps the type of the row, its domain and its
\* other entries.
LEMMA UpdateTyped ==
  ASSUME NEW row \in Seq(Entry), NEW k \in DOMAIN row, NEW new \in Updates(row, k)
  PROVE  /\ new \in Seq(Entry)
         /\ DOMAIN new = DOMAIN row
         /\ \A j \in DOMAIN row \ {k} : new[j] = row[j]
<1>1. PICK n \in Nat : row \in [1..n -> Entry]
  OBVIOUS
<1> DEFINE Good(r) == r \in [1..n -> Entry] /\ \A j \in 1..n : j # k => r[j] = row[j]
<1>2. k \in 1..n /\ row[k] \in Entry
  BY <1>1
<1>3. Good(Begun(row, k)) /\ Good(Suspended(row, k))
  BY <1>1, <1>2 DEF Begun, Suspended, Entry
<1>4. ASSUME NEW result \in Result
      PROVE  Good(Completed(row, k, result))
  BY <1>1, <1>2 DEF Completed, Entry
<1>5. Good(new)
  BY <1>3, <1>4 DEF Updates
<1>6. QED
  BY <1>1, <1>5

-----------------------------------------------------------------------------
\* A step touches the row and the decisions of one generation only.
LEMMA TypeOneGeneration ==
  ASSUME TypeOK, NEW g \in Generation, NEW row \in Seq(Entry), NEW grants \in Seq(Nat),
         DOMAIN grants = DOMAIN row,
         rows' = [rows EXCEPT ![g] = row], granted' = [granted EXCEPT ![g] = grants]
  PROVE  TypeOK'
  BY DEF TypeOK

\* The decisions of a generation after one of them changed.
LEMMA GrantsTyped ==
  ASSUME NEW grants \in Seq(Nat), NEW k \in DOMAIN grants, NEW n \in Nat
  PROVE  /\ [grants EXCEPT ![k] = n] \in Seq(Nat)
         /\ DOMAIN [grants EXCEPT ![k] = n] = DOMAIN grants
<1>1. PICK m \in Nat : grants \in [1..m -> Nat]
  OBVIOUS
<1>2. [grants EXCEPT ![k] = n] \in [1..m -> Nat]
  BY <1>1
<1>3. QED
  BY <1>1, <1>2

IInv == TypeOK /\ GrantsMatchStates

\* An empty journal satisfies the invariant.
LEMMA InitIInv == Init => IInv
  BY DEF Init, IInv, TypeOK, GrantsMatchStates, NoRow

\* prepare_batch inserts prepared entries without a decision.
LEMMA PrepareKeepsIInv ==
  ASSUME IInv, NEW g \in Generation, NEW ops \in Batch, PrepareBatch(g, ops)
  PROVE  IInv'
<1>1. ops \in Seq(Operation)
  BY BatchTyped
<1>2. /\ Inserted(ops) \in Seq(Entry)
      /\ DOMAIN Inserted(ops) = DOMAIN ops
      /\ \A k \in DOMAIN ops : Inserted(ops)[k].state = "prepared"
  BY <1>1, InsertedTyped
<1>3. [k \in DOMAIN ops |-> 0] \in Seq(Nat)
  <2>1. PICK n \in Nat : ops \in [1..n -> Operation]
    BY <1>1
  <2>2. [k \in DOMAIN ops |-> 0] \in [1..n -> Nat]
    BY <2>1
  <2>3. QED
    BY <2>2
<1>4. /\ rows' = [rows EXCEPT ![g] = Inserted(ops)]
      /\ granted' = [granted EXCEPT ![g] = [k \in DOMAIN ops |-> 0]]
  BY DEF PrepareBatch
<1>5. TypeOK'
  BY <1>2, <1>3, <1>4, TypeOneGeneration DEF IInv
<1>6. GrantsMatchStates'
  BY <1>2, <1>4 DEF IInv, TypeOK, GrantsMatchStates
<1>7. QED
  BY <1>5, <1>6 DEF IInv

\* The decision and the state of one entry change together.
LEMMA EntryKeepsIInv ==
  ASSUME IInv, NEW g \in Generation, NEW k \in DOMAIN rows[g],
         NEW new \in Updates(rows[g], k),
         rows' = [rows EXCEPT ![g] = new],
         granted' = [granted EXCEPT ![g][k] = IF new[k].state = "prepared" THEN 0 ELSE 1]
  PROVE  IInv'
<1> DEFINE n == IF new[k].state = "prepared" THEN 0 ELSE 1
<1>1. rows[g] \in Seq(Entry) /\ granted[g] \in Seq(Nat) /\ DOMAIN granted[g] = DOMAIN rows[g]
  BY DEF IInv, TypeOK
<1>2. /\ new \in Seq(Entry)
      /\ DOMAIN new = DOMAIN rows[g]
      /\ \A j \in DOMAIN rows[g] \ {k} : new[j] = rows[g][j]
  BY <1>1, UpdateTyped
<1>3. n \in Nat
  OBVIOUS
<1>4. granted' = [granted EXCEPT ![g] = [granted[g] EXCEPT ![k] = n]]
  BY DEF IInv, TypeOK
<1> HIDE DEF n
<1>5. /\ [granted[g] EXCEPT ![k] = n] \in Seq(Nat)
      /\ DOMAIN [granted[g] EXCEPT ![k] = n] = DOMAIN granted[g]
  BY <1>1, <1>3, GrantsTyped
<1>6. TypeOK'
  <2> DEFINE grants == [granted[g] EXCEPT ![k] = n]
  <2>1. grants \in Seq(Nat) /\ DOMAIN grants = DOMAIN new /\ granted' = [granted EXCEPT ![g] = grants]
    BY <1>1, <1>2, <1>4, <1>5
  <2>2. TypeOK /\ new \in Seq(Entry) /\ rows' = [rows EXCEPT ![g] = new]
    BY <1>2 DEF IInv
  <2> HIDE DEF grants
  <2>3. QED
    BY <2>1, <2>2, TypeOneGeneration
<1>7. GrantsMatchStates'
  <2> SUFFICES ASSUME NEW h \in Generation, NEW j \in DOMAIN rows'[h]
               PROVE  granted'[h][j] = IF rows'[h][j].state = "prepared" THEN 0 ELSE 1
    BY DEF GrantsMatchStates
  <2>1. CASE h # g
    BY <1>4, <2>1 DEF IInv, TypeOK, GrantsMatchStates
  <2>2. CASE h = g /\ j # k
    BY <1>1, <1>2, <1>4, <2>2 DEF IInv, TypeOK, GrantsMatchStates
  <2>3. CASE h = g /\ j = k
    <3>1. granted'[h][j] = n
      BY <1>1, <1>4, <2>3 DEF IInv, TypeOK
    <3>2. rows'[h] = new
      BY <2>3 DEF IInv, TypeOK
    <3>3. QED
      BY <2>3, <3>1, <3>2 DEF n
  <2>4. QED
    BY <2>1, <2>2, <2>3
<1>8. QED
  BY <1>6, <1>7 DEF IInv

\* delivered and purge forget a row together with its decisions.
LEMMA ForgetKeepsIInv ==
  ASSUME IInv, NEW g \in Generation, Forget(g)
  PROVE  IInv'
<1>1. NoRow \in Seq(Entry) /\ << >> \in Seq(Nat) /\ DOMAIN NoRow = {}
  BY DEF NoRow
<1>2. TypeOK'
  BY <1>1, TypeOneGeneration DEF IInv, Forget, NoRow
<1>3. GrantsMatchStates'
  BY <1>1 DEF IInv, TypeOK, GrantsMatchStates, Forget
<1>4. QED
  BY <1>2, <1>3 DEF IInv

\* Every step of a client keeps the invariant.
LEMMA StepKeepsIInv == IInv /\ [Next]_vars => IInv'
<1> SUFFICES ASSUME IInv, [Next]_vars
             PROVE  IInv'
  OBVIOUS
<1>1. CASE UNCHANGED vars
  BY <1>1 DEF vars, IInv, TypeOK, GrantsMatchStates
<1>2. ASSUME NEW g \in Generation, NEW ops \in Batch, PrepareBatch(g, ops)
      PROVE  IInv'
  BY <1>2, PrepareKeepsIInv
<1>3. ASSUME NEW g \in Generation, NEW ops \in Batch, Current(rows[g], ops),
             NEW k \in DOMAIN ops
      PROVE  /\ k \in DOMAIN rows[g] /\ rows[g] \in Seq(Entry) /\ granted \in [Generation -> Seq(Nat)]
             /\ granted[g][k] = IF rows[g][k].state = "prepared" THEN 0 ELSE 1
             /\ rows[g][k] \in Entry
  <2>1. k \in DOMAIN rows[g] /\ rows[g] \in Seq(Entry)
    BY <1>3, CurrentDomain DEF IInv, TypeOK
  <2>2. QED
    BY <2>1 DEF IInv, TypeOK, GrantsMatchStates
<1>4. ASSUME NEW g \in Generation, NEW ops \in Batch, NEW k \in DOMAIN ops, Begin(g, ops, k)
      PROVE  IInv'
  <2>1. Current(rows[g], ops)
    BY <1>4 DEF Begin
  <2>2. k \in DOMAIN rows[g] /\ rows[g] \in Seq(Entry) /\ granted[g][k] = 0
    BY <1>3, <1>4, <2>1 DEF Begin, MayExecute
  <2>3. Begun(rows[g], k) \in Updates(rows[g], k) /\ Begun(rows[g], k)[k].state = "executing"
    BY <2>2 DEF Updates, Begun, Entry
  <2>4. /\ rows' = [rows EXCEPT ![g] = Begun(rows[g], k)]
        /\ granted' = [granted EXCEPT ![g][k] = 1]
    BY <1>4, <2>2 DEF Begin
  <2>5. QED
    BY <2>2, <2>3, <2>4, EntryKeepsIInv
<1>5. ASSUME NEW g \in Generation, NEW ops \in Batch, NEW k \in DOMAIN ops, Suspend(g, ops, k)
      PROVE  IInv'
  <2>1. Current(rows[g], ops)
    BY <1>5 DEF Suspend
  <2>2. /\ k \in DOMAIN rows[g] /\ rows[g] \in Seq(Entry)
        /\ granted[g][k] = IF rows[g][k].state = "prepared" THEN 0 ELSE 1
        /\ rows[g][k].state \in {"executing", "prepared"}
    BY <1>3, <1>5, <2>1 DEF Suspend, MaySuspend
  <2>3. Suspended(rows[g], k) \in Updates(rows[g], k) /\ Suspended(rows[g], k)[k].state = "prepared"
    BY <2>2 DEF Updates, Suspended, Entry
  <2>4. (IF rows[g][k].state = "executing" THEN granted[g][k] - 1 ELSE granted[g][k]) = 0
    BY <2>2
  <2>5. /\ rows' = [rows EXCEPT ![g] = Suspended(rows[g], k)]
        /\ granted' = [granted EXCEPT ![g][k] = 0]
    BY <1>5, <2>4 DEF Suspend
  <2>6. QED
    BY <2>2, <2>3, <2>5, EntryKeepsIInv
<1>6. ASSUME NEW g \in Generation, NEW ops \in Batch, NEW k \in DOMAIN ops,
             NEW result \in Result, Complete(g, ops, k, result)
      PROVE  IInv'
  <2>1. Current(rows[g], ops)
    BY <1>6 DEF Complete
  <2>2. /\ k \in DOMAIN rows[g] /\ rows[g] \in Seq(Entry) /\ rows[g][k] \in Entry
        /\ granted \in [Generation -> Seq(Nat)] /\ granted[g][k] = 1
    BY <1>3, <1>6, <2>1 DEF Complete, MayComplete
  <2>3. /\ Completed(rows[g], k, result) \in Updates(rows[g], k)
        /\ Completed(rows[g], k, result)[k].state = "completed"
    BY <2>2 DEF Updates, Completed, Entry
  <2>4. /\ rows' = [rows EXCEPT ![g] = Completed(rows[g], k, result)]
        /\ granted' = [granted EXCEPT ![g][k] = 1]
    BY <1>6, <2>2 DEF Complete
  <2>5. QED
    BY <2>2, <2>3, <2>4, EntryKeepsIInv
<1>7. ASSUME NEW g \in Generation, Forget(g)
      PROVE  IInv'
  BY <1>7, ForgetKeepsIInv
<1>8. QED
  BY <1>1, <1>2, <1>4, <1>5, <1>6, <1>7 DEF Next, Delivered, Purge

\* The journal tables keep their types, whatever its clients call.
THEOREM TypeCorrect == Spec => []TypeOK
<1>1. Spec => []IInv
  BY InitIInv, StepKeepsIInv, PTL DEF Spec
<1>2. IInv => TypeOK
  BY DEF IInv
<1>3. QED
  BY <1>1, <1>2, PTL

\* A decision to execute is outstanding exactly for the entries that are not
\* prepared.
THEOREM GrantsMatch == Spec => []GrantsMatchStates
<1>1. Spec => []IInv
  BY InitIInv, StepKeepsIInv, PTL DEF Spec
<1>2. IInv => GrantsMatchStates
  BY DEF IInv
<1>3. QED
  BY <1>1, <1>2, PTL

\* begin never grants one operation twice without a suspension in between,
\* for any number of Teams, handles and callers.
THEOREM NoDuplicate == Spec => []NoDuplicateGrant
<1>1. IInv => NoDuplicateGrant
  <2> SUFFICES ASSUME IInv, NEW g \in Generation, NEW k \in DOMAIN granted[g]
               PROVE  granted[g][k] <= 1
    BY DEF NoDuplicateGrant
  <2>1. granted[g][k] = IF rows[g][k].state = "prepared" THEN 0 ELSE 1
    BY DEF IInv, TypeOK, GrantsMatchStates
  <2>2. QED
    BY <2>1
<1>2. Spec => []IInv
  BY InitIInv, StepKeepsIInv, PTL DEF Spec
<1>3. QED
  BY <1>1, <1>2, PTL

\* prepare_batch adds at most the one row it inserts.
LEMMA PrepareWithinCapacity ==
  ASSUME TypeOK, WithinCapacity, NEW g \in Generation, NEW ops \in Batch, PrepareBatch(g, ops)
  PROVE  WithinCapacity'
<1>1. IsFiniteSet(Pending) /\ g \notin Pending
  BY JournalAssumption, FS_Subset DEF Pending, PrepareBatch
<1>2. Cardinality(Pending \cup {g}) = Cardinality(Pending) + 1
  BY <1>1, FS_AddElement
<1>3. Cardinality(Pending) < MaxGenerations
  BY DEF PrepareBatch
<1>4. Pending' \subseteq Pending \cup {g}
  BY DEF Pending, PrepareBatch, TypeOK
<1>5. IsFiniteSet(Pending \cup {g}) /\ Cardinality(Pending') <= Cardinality(Pending \cup {g})
  BY <1>1, <1>4, FS_AddElement, FS_Subset
<1>6. Cardinality(Pending) \in Nat /\ Cardinality(Pending') \in Nat
  BY <1>1, <1>4, <1>5, FS_CardinalityType, FS_Subset
<1>7. QED
  BY <1>2, <1>3, <1>5, <1>6, JournalAssumption DEF WithinCapacity

\* No other step makes a row pending.
LEMMA OthersWithinCapacity ==
  ASSUME WithinCapacity, Pending' \subseteq Pending
  PROVE  WithinCapacity'
<1>1. IsFiniteSet(Pending)
  BY JournalAssumption, FS_Subset DEF Pending
<1>2. Cardinality(Pending') <= Cardinality(Pending)
  BY <1>1, FS_Subset
<1>3. Cardinality(Pending) \in Nat /\ Cardinality(Pending') \in Nat
  BY <1>1, FS_CardinalityType, FS_Subset
<1>4. QED
  BY <1>2, <1>3, JournalAssumption DEF WithinCapacity

\* The table never holds more generations than its capacity, for every
\* capacity and every set of generations.
THEOREM CapacityHolds == Spec => []WithinCapacity
<1>1. Init => WithinCapacity
  <2> SUFFICES ASSUME Init
               PROVE  WithinCapacity
    OBVIOUS
  <2>1. Pending = {}
    BY DEF Init, Pending
  <2>2. QED
    BY <2>1, FS_EmptySet, JournalAssumption DEF WithinCapacity
<1>2. TypeOK /\ WithinCapacity /\ [Next]_vars => WithinCapacity'
  <2> SUFFICES ASSUME TypeOK, WithinCapacity, [Next]_vars
               PROVE  WithinCapacity'
    OBVIOUS
  <2>1. ASSUME NEW g \in Generation, NEW ops \in Batch, PrepareBatch(g, ops)
        PROVE  WithinCapacity'
    BY <2>1, PrepareWithinCapacity
  <2>2. ASSUME NEW g \in Generation, NEW new, rows[g] # NoRow, rows' = [rows EXCEPT ![g] = new]
        PROVE  Pending' \subseteq Pending
    BY <2>2 DEF TypeOK, Pending
  <2>3. ASSUME NEW g \in Generation, NEW ops \in Batch, NEW k \in DOMAIN ops,
               \/ Begin(g, ops, k)
               \/ Suspend(g, ops, k)
               \/ \E result \in Result : Complete(g, ops, k, result)
        PROVE  Pending' \subseteq Pending
    BY <2>2, <2>3 DEF Begin, Suspend, Complete, Current
  <2>4. ASSUME NEW g \in Generation, Purge(g) \/ \E ops \in Batch : Delivered(g, ops)
        PROVE  Pending' \subseteq Pending
    BY <2>2, <2>4 DEF Purge, Delivered, Forget, Current
  <2>5. UNCHANGED vars => Pending' \subseteq Pending
    BY DEF vars, Pending
  <2>6. ASSUME Pending' \subseteq Pending
        PROVE  WithinCapacity'
    BY <2>6, OthersWithinCapacity
  <2>7. QED
    BY <2>1, <2>3, <2>4, <2>5, <2>6 DEF Next
<1>3. QED
  BY <1>1, <1>2, TypeCorrect, PTL DEF Spec

\* The entries of a row stay as they are, but for the one that is updated.
LEMMA UpdateKeepsOps ==
  ASSUME TypeOK, NEW g \in Generation, NEW k \in DOMAIN rows[g],
         NEW new \in Updates(rows[g], k), rows' = [rows EXCEPT ![g] = new]
  PROVE  /\ \A h \in Generation : Fingerprint(rows'[h]) = Fingerprint(rows[h])
         /\ \A h \in Generation : \A j \in DOMAIN rows[h] :
              ~(h = g /\ j = k) => rows'[h][j] = rows[h][j]
<1>1. rows[g] \in Seq(Entry)
  BY DEF TypeOK
<1>2. /\ DOMAIN new = DOMAIN rows[g]
      /\ \A j \in DOMAIN rows[g] \ {k} : new[j] = rows[g][j]
  BY <1>1, UpdateTyped
<1>3. new[k].op = rows[g][k].op
  <2>1. rows[g][k] \in Entry
    BY <1>1
  <2>2. Begun(rows[g], k)[k].op = rows[g][k].op /\ Suspended(rows[g], k)[k].op = rows[g][k].op
    BY <1>1, <2>1 DEF Begun, Suspended, Entry
  <2>3. \A result \in Result : Completed(rows[g], k, result)[k].op = rows[g][k].op
    BY <1>1, <2>1 DEF Completed, Entry
  <2>4. QED
    BY <2>2, <2>3 DEF Updates
<1>4. rows'[g] = new /\ \A h \in Generation \ {g} : rows'[h] = rows[h]
  BY DEF TypeOK
<1>5. Fingerprint(new) = Fingerprint(rows[g])
  BY <1>2, <1>3 DEF Fingerprint
<1>6. QED
  BY <1>2, <1>4, <1>5

\* A step replaces no pending batch and changes no stored result.
LEMMA StepKeepsBatches ==
  ASSUME TypeOK, Next
  PROVE  \A h \in Generation : rows[h] # NoRow =>
           /\ rows'[h] = NoRow \/ Fingerprint(rows'[h]) = Fingerprint(rows[h])
           /\ \A j \in DOMAIN rows[h] :
                rows[h][j].state = "completed" /\ rows'[h] # NoRow => rows'[h][j] = rows[h][j]
<1> DEFINE Goal == \A h \in Generation : rows[h] # NoRow =>
           /\ rows'[h] = NoRow \/ Fingerprint(rows'[h]) = Fingerprint(rows[h])
           /\ \A j \in DOMAIN rows[h] :
                rows[h][j].state = "completed" /\ rows'[h] # NoRow => rows'[h][j] = rows[h][j]
<1>1. ASSUME NEW g \in Generation, NEW ops \in Batch, PrepareBatch(g, ops)
      PROVE  Goal
  BY <1>1 DEF PrepareBatch, TypeOK
<1>2. ASSUME NEW g \in Generation, NEW k \in DOMAIN rows[g], NEW new \in Updates(rows[g], k),
             rows' = [rows EXCEPT ![g] = new], rows[g][k].state # "completed"
      PROVE  Goal
  BY <1>2, UpdateKeepsOps
<1>3. ASSUME NEW g \in Generation, NEW ops \in Batch, NEW k \in DOMAIN ops,
             \/ Begin(g, ops, k)
             \/ Suspend(g, ops, k)
             \/ \E result \in Result : Complete(g, ops, k, result)
      PROVE  Goal
  <2>1. Current(rows[g], ops)
    BY <1>3 DEF Begin, Suspend, Complete
  <2>2. k \in DOMAIN rows[g]
    BY <1>3, <2>1, CurrentDomain
  <2>3. rows[g][k].state # "completed"
    BY <1>3 DEF Begin, Suspend, Complete, MayExecute, MaySuspend, MayComplete
  <2>4. \E new \in Updates(rows[g], k) : rows' = [rows EXCEPT ![g] = new]
    BY <1>3 DEF Begin, Suspend, Complete, Updates
  <2>5. QED
    BY <1>2, <2>2, <2>3, <2>4
<1>4. ASSUME NEW g \in Generation, Purge(g) \/ \E ops \in Batch : Delivered(g, ops)
      PROVE  Goal
  BY <1>4 DEF Purge, Delivered, Forget, TypeOK
<1>5. QED
  BY <1>1, <1>3, <1>4 DEF Next

\* A pending batch is never exchanged for another one.
THEOREM BatchesStay == Spec => BatchIsNeverReplaced
<1>1. TypeOK /\ [Next]_vars => [\A g \in Generation : rows[g] # NoRow =>
                                 rows'[g] = NoRow \/ Fingerprint(rows'[g]) = Fingerprint(rows[g])]_vars
  <2> SUFFICES ASSUME TypeOK, Next, NEW g \in Generation, rows[g] # NoRow
               PROVE  rows'[g] = NoRow \/ Fingerprint(rows'[g]) = Fingerprint(rows[g])
    OBVIOUS
  <2>1. QED
    BY StepKeepsBatches
<1>2. QED
  BY <1>1, TypeCorrect, PTL DEF Spec, BatchIsNeverReplaced

\* While its row exists, a stored result is final.
THEOREM ResultsStay == Spec => StoredResultsAreFinal
<1>1. TypeOK /\ [Next]_vars => [\A g \in Generation : \A k \in DOMAIN rows[g] :
                                 rows[g][k].state = "completed" /\ rows'[g] # NoRow
                                   => rows'[g][k] = rows[g][k]]_vars
  <2> SUFFICES ASSUME TypeOK, Next, NEW g \in Generation, NEW k \in DOMAIN rows[g],
                      rows[g][k].state = "completed", rows'[g] # NoRow
               PROVE  rows'[g][k] = rows[g][k]
    OBVIOUS
  <2>1. rows[g] # NoRow
    BY DEF NoRow
  <2>2. QED
    BY <2>1, StepKeepsBatches
<1>2. QED
  BY <1>1, TypeCorrect, PTL DEF Spec, StoredResultsAreFinal
=============================================================================
