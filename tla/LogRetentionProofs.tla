------------------------- MODULE LogRetentionProofs -------------------------
(***************************************************************************)
(* Proofs about LogRetention for every retention, cap and batch, however   *)
(* much is logged and however often the task fails.                        *)
(***************************************************************************)
EXTENDS LogRetention, FiniteSetTheorems, TLAPS

USE LogAssumption

-----------------------------------------------------------------------------
(* The rows TOP (TRIM_BATCH_SIZE) ... ORDER BY created_at picks.            *)

Below(S, i) == {j \in S : j < i}

\* The rows below a row can be counted, and there are more below a later one.
LEMMA BelowGrows ==
    ASSUME NEW S \in SUBSET Nat, IsFiniteSet(S), NEW i \in S, NEW k \in S, i < k
    PROVE  /\ Cardinality(Below(S, i)) \in Nat /\ Cardinality(Below(S, k)) \in Nat
           /\ Cardinality(Below(S, i)) < Cardinality(Below(S, k))
  <1>1. IsFiniteSet(Below(S, i)) /\ IsFiniteSet(Below(S, k))
    BY FS_Subset DEF Below
  <1>2. Below(S, i) \subseteq Below(S, k) /\ Below(S, i) # Below(S, k)
    <2>1. i \in Below(S, k) /\ i \notin Below(S, i)
      BY DEF Below
    <2>2. \A j \in Below(S, i) : j \in Below(S, k)
      BY S \subseteq Nat DEF Below
    <2> QED
      BY <2>1, <2>2
  <1>3. /\ Cardinality(Below(S, i)) <= Cardinality(Below(S, k))
        /\ Cardinality(Below(S, i)) # Cardinality(Below(S, k))
    BY <1>1, <1>2, FS_Subset
  <1>4. Cardinality(Below(S, i)) \in Nat /\ Cardinality(Below(S, k)) \in Nat
    BY <1>1, FS_CardinalityType
  <1> QED
    BY <1>3, <1>4

\* The batch is part of the table, is no larger than TRIM_BATCH_SIZE, and
\* leaves nothing that is older than one of its rows.
LEMMA OldestAreFew ==
    ASSUME NEW S \in SUBSET Nat, IsFiniteSet(S)
    PROVE  /\ Oldest(S) \subseteq S
           /\ Cardinality(Oldest(S)) <= TRIM_BATCH_SIZE
           /\ \A i \in Oldest(S), j \in S \ Oldest(S) : i < j
  <1> DEFINE rank == [i \in Oldest(S) |-> Cardinality(Below(S, i)) + 1]
  <1>1. Oldest(S) \subseteq S
    BY DEF Oldest
  <1>2. \A i \in Oldest(S) : rank[i] \in 1..TRIM_BATCH_SIZE
    <2> TAKE i \in Oldest(S)
    <2>1. IsFiniteSet(Below(S, i))
      BY FS_Subset DEF Below
    <2>2. Cardinality(Below(S, i)) \in Nat
      BY <2>1, FS_CardinalityType
    <2>3. Cardinality(Below(S, i)) < TRIM_BATCH_SIZE
      BY DEF Oldest, Below
    <2> QED
      BY <2>2, <2>3
  <1>3. \A i, k \in Oldest(S) : rank[i] = rank[k] => i = k
    <2>1. ASSUME NEW i \in Oldest(S), NEW k \in Oldest(S), i < k
          PROVE  rank[i] # rank[k]
      <3>1. i \in S /\ k \in S
        BY <1>1
      <3>2. /\ Cardinality(Below(S, i)) \in Nat /\ Cardinality(Below(S, k)) \in Nat
            /\ Cardinality(Below(S, i)) < Cardinality(Below(S, k))
        BY <2>1, <3>1, BelowGrows
      <3>3. rank[i] = Cardinality(Below(S, i)) + 1 /\ rank[k] = Cardinality(Below(S, k)) + 1
        OBVIOUS
      <3> HIDE DEF rank
      <3> QED
        BY <3>2, <3>3
    <2>2. \A i, k \in Oldest(S) : i = k \/ i < k \/ k < i
      <3>1. \A x \in Oldest(S) : x \in Nat
        BY <1>1
      <3> QED
        BY <3>1
    <2> QED
      BY <2>1, <2>2
  <1>4. rank \in Injection(Oldest(S), 1..TRIM_BATCH_SIZE)
    BY <1>2, <1>3, Zenon DEF Injection, IsInjective
  <1>5. IsFiniteSet(1..TRIM_BATCH_SIZE) /\ Cardinality(1..TRIM_BATCH_SIZE) = TRIM_BATCH_SIZE
    BY FS_Interval
  <1>6. Cardinality(Oldest(S)) <= TRIM_BATCH_SIZE
    BY <1>4, <1>5, FS_Injection
  <1>7. ASSUME NEW i \in Oldest(S), NEW j \in S \ Oldest(S) PROVE i < j
    <2>0. i \in Nat /\ j \in Nat /\ i # j
      BY <1>1
    <2> SUFFICES ASSUME j < i PROVE FALSE
      BY <2>0
    <2>1. /\ Cardinality(Below(S, j)) \in Nat /\ Cardinality(Below(S, i)) \in Nat
          /\ Cardinality(Below(S, j)) < Cardinality(Below(S, i))
      BY <1>1, BelowGrows
    <2>2. Cardinality(Below(S, i)) < TRIM_BATCH_SIZE
      BY DEF Oldest, Below
    <2> QED
      BY <2>1, <2>2 DEF Oldest, Below
  <1> QED
    BY <1>1, <1>6, <1>7

-----------------------------------------------------------------------------
(* The inductive invariant                                                  *)

\* What a run is about to delete over the cap, it may: the count it read is
\* not undone by what is logged meanwhile, and the batch it chose is the
\* oldest part of whatever the table holds when it commits.
TrimIsDue ==
    /\ step = "trim" => Cardinality(rows \ expired) > MAX_ROWS
    /\ trimmed # {} =>
          /\ Cardinality(rows \ expired) > MAX_ROWS
          /\ Cardinality(trimmed) <= TRIM_BATCH_SIZE
          /\ trimmed \subseteq rows \ expired
          /\ \A i \in trimmed, j \in (rows \ expired) \ trimmed : i < j

\* The rows are finitely many, by the IDENTITY.
LEMMA RowsAreFinite ==
    ASSUME RetentionTypeOK
    PROVE  rows \in SUBSET Nat /\ \A S \in SUBSET rows : IsFiniteSet(S)
  <1>1. nextId - 1 \in Int /\ rows \subseteq 1..(nextId - 1)
    BY DEF RetentionTypeOK
  <1>2. IsFiniteSet(1..(nextId - 1))
    BY <1>1, FS_Interval
  <1>3. IsFiniteSet(rows)
    BY <1>1, <1>2, FS_Subset
  <1>4. \A i \in rows : i \in Nat
    BY <1>1
  <1> QED
    BY <1>3, <1>4, FS_Subset

\* A row that is logged while a run is under way disturbs none of its rows.
LEMMA LoggingKeepsTrim ==
    ASSUME RetentionTypeOK, RetentionTypeOK', TrimIsDue, LogPipelineEvent
    PROVE  TrimIsDue'
  <1> USE DEF LogPipelineEvent, txn
  <1>1. nextId \notin expired /\ nextId \notin trimmed /\ \A i \in rows : i < nextId
    BY DEF RetentionTypeOK
  <1>2. Cardinality(rows \ expired) <= Cardinality(rows' \ expired)
    <2>1. IsFiniteSet(rows' \ expired) /\ (rows \ expired) \subseteq (rows' \ expired)
      <3>1. \A S \in SUBSET rows' : IsFiniteSet(S)
        <4>1. IsFiniteSet(1..(nextId' - 1)) /\ rows' \subseteq 1..(nextId' - 1)
          BY FS_Interval DEF RetentionTypeOK
        <4> QED
          BY <4>1, FS_Subset
      <3> QED
        BY <3>1
    <2> QED
      BY <2>1, FS_Subset
  <1>3. Cardinality(rows \ expired) \in Nat /\ Cardinality(rows' \ expired) \in Nat
    <2>1. IsFiniteSet(rows \ expired) /\ IsFiniteSet(rows \cup {nextId})
      BY RowsAreFinite, FS_AddElement
    <2>2. IsFiniteSet(rows' \ expired)
      BY <2>1, FS_Subset
    <2> QED
      BY <2>1, <2>2, FS_CardinalityType
  <1>4. (rows' \ expired) \ trimmed = ((rows \ expired) \ trimmed) \cup {nextId}
    BY <1>1
  <1>5. \A i \in trimmed : i < nextId
    BY <1>1 DEF RetentionTypeOK
  <1>6. expired' = expired /\ trimmed' = trimmed /\ step' = step
    OBVIOUS
  <1>7. (Cardinality(rows \ expired) > MAX_ROWS) => (Cardinality(rows' \ expired) > MAX_ROWS)
    BY <1>2, <1>3
  <1>8. rows \subseteq rows'
    OBVIOUS
  <1> QED
    BY <1>4, <1>5, <1>6, <1>7, <1>8 DEF TrimIsDue

\* Types are kept by every step.
LEMMA RetentionTypesStep == RetentionTypeOK /\ [Next]_vars => RetentionTypeOK'
  <1> SUFFICES ASSUME RetentionTypeOK, [Next]_vars PROVE RetentionTypeOK'
    OBVIOUS
  <1> USE DEF RetentionTypeOK, log, txn, LogId, Age, Retries
  <1>1. CASE LogPipelineEvent
    BY <1>1 DEF LogPipelineEvent
  <1>2. CASE HourPasses
    <2>1. age' \in [LogId -> Age] /\ \A i \in rows : age[i] > RETENTION => age'[i] > RETENTION
      BY <1>2 DEF HourPasses
    <2> QED
      BY <1>2, <2>1 DEF HourPasses
  <1>3. CASE StartRun
    <2>1. expired = {} /\ trimmed = {}
      BY <1>3 DEF StartRun
    <2>2. due' \in BOOLEAN
      BY <1>3, Zenon DEF StartRun
    <2>3. attempt' \in 0..Retries /\ step' = "delete"
      BY <1>3 DEF StartRun
    <2>4. UNCHANGED <<nextId, age, rows, expired, trimmed, failures>>
      BY <1>3 DEF StartRun
    <2> QED
      BY <2>1, <2>2, <2>3, <2>4
  <1>4. CASE DeleteExpired
    BY <1>4 DEF DeleteExpired
  <1>5. CASE CountRows
    BY <1>5 DEF CountRows
  <1>6. CASE TrimOldest
    BY <1>6 DEF TrimOldest, Oldest
  <1>7. CASE Commit
    BY <1>7 DEF Commit
  <1>8. CASE AttemptFails
    BY <1>8 DEF AttemptFails
  <1>9. CASE UNCHANGED vars
    BY <1>9 DEF vars
  <1> QED
    BY <1>1, <1>2, <1>3, <1>4, <1>5, <1>6, <1>7, <1>8, <1>9 DEF Next, Enforce

\* What a run is about to trim stays due with every step.
LEMMA TrimStep ==
    RetentionTypeOK /\ RetentionTypeOK' /\ TrimIsDue /\ [Next]_vars => TrimIsDue'
  <1> SUFFICES ASSUME RetentionTypeOK, RetentionTypeOK', TrimIsDue, [Next]_vars
               PROVE  TrimIsDue'
    OBVIOUS
  <1> USE DEF TrimIsDue, log, txn
  <1>1. CASE LogPipelineEvent
    BY <1>1, LoggingKeepsTrim
  <1>2. CASE HourPasses
    BY <1>2 DEF HourPasses
  <1>3. CASE StartRun
    BY <1>3 DEF StartRun, RetentionTypeOK
  <1>4. CASE DeleteExpired
    BY <1>4 DEF DeleteExpired, RetentionTypeOK
  <1>5. CASE CountRows
    BY <1>5 DEF CountRows, RetentionTypeOK
  <1>6. CASE TrimOldest
    <2>1. IsFiniteSet(rows \ expired) /\ rows \ expired \in SUBSET Nat
      BY RowsAreFinite
    <2> QED
      BY <1>6, <2>1, OldestAreFew DEF TrimOldest
  <1>7. CASE Commit
    BY <1>7 DEF Commit
  <1>8. CASE AttemptFails
    BY <1>8 DEF AttemptFails
  <1>9. CASE UNCHANGED vars
    BY <1>9 DEF vars
  <1> QED
    BY <1>1, <1>2, <1>3, <1>4, <1>5, <1>6, <1>7, <1>8, <1>9 DEF Next, Enforce

\* The invariant holds at first and is kept.
LEMMA RetentionInvariant == Spec => [](RetentionTypeOK /\ TrimIsDue)
  <1>1. ASSUME LogInit PROVE RetentionTypeOK /\ TrimIsDue
    <2>1. nextId \in 1..(MaxLogs + 1) /\ failures \in 0..MaxFailures
      BY <1>1 DEF LogInit
    <2>2. age \in [LogId -> Age]
      BY <1>1 DEF LogInit, LogId, Age
    <2>3. expired \subseteq {i \in rows : age[i] > RETENTION} /\ rows \subseteq 1..(nextId - 1)
      BY <1>1 DEF LogInit
    <2>4. attempt \in 0..Retries /\ trimmed \subseteq rows
      BY <1>1 DEF LogInit, Retries
    <2>5. step = "idle" /\ expired = {} /\ trimmed = {} /\ due \in BOOLEAN
      BY <1>1, Zenon DEF LogInit
    <2>6. step # "trim"
      BY <2>5
    <2> QED
      BY <2>1, <2>2, <2>3, <2>4, <2>5, <2>6, Zenon DEF RetentionTypeOK, TrimIsDue
  <1>2. (RetentionTypeOK /\ TrimIsDue) /\ [Next]_vars => (RetentionTypeOK /\ TrimIsDue)'
    BY RetentionTypesStep, TrimStep
  <1> QED
    BY <1>1, <1>2, PTL DEF Spec

-----------------------------------------------------------------------------
\* RetentionTypeOK, for every retention, cap and batch.
THEOREM RetentionTypes == Spec => []RetentionTypeOK
  BY RetentionInvariant, PTL

\* What a run of the DAG may remove: only a commit removes a row, and what it
\* removes beyond the expired ones is the oldest batch of a table over its cap.
THEOREM RunsRemoveByTheRules == Spec => RemovesByTheRules
  <1> DEFINE Rules ==
        LET young == rows \ expired
            gone  == young \ rows'
        IN  gone # {} =>
               /\ Cardinality(young) > MAX_ROWS
               /\ Cardinality(gone) <= TRIM_BATCH_SIZE
               /\ \A i \in gone, j \in rows' : i < j
  <1>1. (RetentionTypeOK /\ TrimIsDue) /\ [Next]_vars => [Rules]_vars
    <2> SUFFICES ASSUME TrimIsDue, [Next]_vars, (rows \ expired) \ rows' # {}
                 PROVE  Rules
      OBVIOUS
    <2>1. Commit
      BY DEF Next, Enforce, vars, log, txn, LogPipelineEvent, HourPasses, StartRun,
             DeleteExpired, CountRows, TrimOldest, AttemptFails
    <2>2. rows' = (rows \ expired) \ trimmed
      BY <2>1 DEF Commit
    <2>3. trimmed # {}
      BY <2>2
    <2>4. (rows \ expired) \ rows' = trimmed
      BY <2>2, <2>3 DEF TrimIsDue
    <2> QED
      BY <2>2, <2>3, <2>4 DEF TrimIsDue
  <1> QED
    BY <1>1, RetentionInvariant, PTL DEF Spec, RemovesByTheRules
=============================================================================
