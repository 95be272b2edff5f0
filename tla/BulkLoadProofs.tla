--------------------------- MODULE BulkLoadProofs ---------------------------
(***************************************************************************)
(* Proofs about BulkLoad for any number of runs, any size of the load and  *)
(* of its batches, and any failures.                                       *)
(***************************************************************************)
EXTENDS BulkLoad, FiniteSetTheorems, TLAPS

USE BulkAssumption

\* What SuccessIsWhole says of the table, and where the rows may come from
\* while it is loaded.
WholeLoad ==
    /\ {<<r.load_batch_id, r.seq>> : r \in table} = {run} \X (0..(Asked - 1))
    /\ Cardinality(table) = Asked

OfTheRun(bound) == \A r \in table : r.load_batch_id = run /\ r.seq < bound

\* The two sizes a run is configured with.
LEMMA Sizes ==
    ASSUME BulkTypeOK
    PROVE  /\ conf.total_rows \in Int /\ conf.batch_size \in Int
           /\ Asked \in Nat /\ conf.total_rows <= Asked
           /\ Asked > 0 => Asked = conf.total_rows
  <1>1. conf \in Conf
    BY DEF BulkTypeOK
  <1>2. conf.total_rows \in TotalRows /\ conf.batch_size \in BatchSize
    BY <1>1 DEF Conf
  <1>3. conf.total_rows \in Int /\ conf.batch_size \in Int
    BY <1>2
  <1> QED
    BY <1>3 DEF Asked

\* A table without duplicates whose rows lie in the snapshot is finite and no
\* larger than the snapshot; when it is as large, nothing is missing.
LEMMA EnoughIsAll ==
    ASSUME BulkTypeOK, NoOrderTwice, OfTheRun(Asked)
    PROVE  Counted >= conf.total_rows => WholeLoad
  <1> DEFINE N == Asked
             f == [r \in table |-> r.seq]
  <1>1. N \in Nat
    BY Sizes
  <1>2. \A r \in table : r.seq \in 0..(N - 1)
    BY <1>1 DEF OfTheRun, BulkTypeOK, Row
  <1>3. f \in Injection(table, 0..(N - 1))
    <2>1. f \in [table -> 0..(N - 1)]
      BY <1>2
    <2>2. \A r, q \in table : f[r] = f[q] => r = q
      BY DEF NoOrderTwice
    <2> HIDE DEF f
    <2> QED
      BY <2>1, <2>2, Zenon DEF Injection, IsInjective
  <1>4. IsFiniteSet(0..(N - 1)) /\ Cardinality(0..(N - 1)) = N
    BY <1>1, FS_Interval
  <1>5. /\ IsFiniteSet(table) /\ Cardinality(table) <= N
        /\ Cardinality(table) = N => f \in Surjection(table, 0..(N - 1))
    BY <1>3, <1>4, FS_Injection
  <1>6. Cardinality(table) \in Nat
    BY <1>5, FS_CardinalityType
  <1>7. Counted = Cardinality(table)
    <2>1. {r \in table : r.load_batch_id = run} = table
      BY DEF OfTheRun
    <2> QED
      BY <2>1 DEF Counted
  <1> SUFFICES ASSUME Counted >= conf.total_rows PROVE WholeLoad
    OBVIOUS
  <1>11. Cardinality(table) >= N
    BY <1>6, <1>7, Sizes
  <1>8. Cardinality(table) = N
    BY <1>1, <1>5, <1>6, <1>11
  <1>9. \A n \in 0..(N - 1) : \E r \in table : r.seq = n
    BY <1>5, <1>8 DEF Surjection
  <1>10. {<<r.load_batch_id, r.seq>> : r \in table} = {run} \X (0..(N - 1))
    <2>1. \A r \in table : <<r.load_batch_id, r.seq>> \in {run} \X (0..(N - 1))
      BY <1>2 DEF OfTheRun
    <2>2. \A n \in 0..(N - 1) : \E r \in table : <<r.load_batch_id, r.seq>> = <<run, n>>
      BY <1>9 DEF OfTheRun
    <2> HIDE DEF N
    <2> QED
      BY <2>1, <2>2
  <1> QED
    BY <1>8, <1>10 DEF WholeLoad

-----------------------------------------------------------------------------
(* Types                                                                    *)

\* A run that is under way has been triggered.
Triggered == step # "idle" => run \in Run

\* Where a task starts again, and which task a step belongs to.
LEMMA Retries2 ==
    /\ FirstStep[TaskOf["ensure"]] = "ensure"
    /\ \A s \in {"reset", "generate", "bcp", "push"} : FirstStep[TaskOf[s]] = "reset"
    /\ FirstStep[TaskOf["validate"]] = "validate"
    /\ FirstStep[TaskOf["index"]] = "index"
    /\ \A s \in {"idle", "record", "telegram"} :
          FirstStep[TaskOf[s]] = "record" /\ TaskOf[s] = "notify_completion"
    /\ \A s \in Step \ {"idle", "record", "telegram"} : TaskOf[s] # "notify_completion"
    /\ \A s \in Step : TaskOf[s] \in Task
  BY DEF Step, Task, TaskOf, FirstStep

\* A failed attempt ends in the first step of its task, or gives the task up.
LEMMA FailureEnds ==
    ASSUME BulkTypeOK, Triggered, step # "idle", AttemptFails, files' \subseteq files
    PROVE  /\ BulkTypeOK' /\ Triggered'
           /\ \/ step' = FirstStep[TaskOf[step]] /\ failed' = failed
              \/ step' \in {"idle", "record"} /\ failed' # {}
           /\ step \in {"record", "telegram"} => step' \in {"idle", "record"}
           /\ step' = "idle" => step \in {"record", "telegram"}
  <1> USE DEF BulkTypeOK, AttemptFails
  <1>1. step \in Step
    OBVIOUS
  <1>2. TaskOf[step] \in Task /\ FirstStep[TaskOf[step]] \in Step \ {"idle"}
    BY <1>1, Retries2 DEF Step
  <1>3. CASE Retry
    <2>1. attempt' \in 0..Retries /\ step' = FirstStep[TaskOf[step]] /\ failed' = failed
      BY <1>3 DEF Retry, Retries
    <2>2. UNCHANGED <<run, conf, written, loaded, skipped, rowsWritten,
                      created, table, indexes, history, messages>> /\ statement' = 1
      BY DEF database, reports
    <2>3. files' \subseteq Run
      OBVIOUS
    <2>4. step \in {"record", "telegram"} => step' = "record"
      BY <2>1, Retries2
    <2>5. created' \in BOOLEAN
      BY <2>2
    <2> QED
      BY <1>2, <2>1, <2>2, <2>3, <2>4, <2>5 DEF Triggered
  <1>4. CASE GiveUp
    <2>1. attempt' \in 0..Retries /\ step' \in {"idle", "record"}
          /\ failed' \subseteq Task /\ failed' # {}
      BY <1>2, <1>4 DEF GiveUp, Retries
    <2>2. UNCHANGED <<run, conf, written, loaded, skipped, rowsWritten,
                      created, table, indexes, history, messages>> /\ statement' = 1
      BY DEF database, reports
    <2>3. step' \in Step
      BY <2>1 DEF Step
    <2>4. step' = "idle" => step \in {"record", "telegram"}
      BY <1>1, <1>4, Retries2 DEF GiveUp
    <2>5. created' \in BOOLEAN
      BY <2>2
    <2> QED
      BY <2>1, <2>2, <2>3, <2>4, <2>5 DEF Triggered
  <1> QED
    BY <1>3, <1>4

\* Types are kept by a step of bcp, whose rows are those it is through with.
LEMMA BcpTypes ==
    ASSUME BulkTypeOK, Triggered, BcpBatch,
           step = "bcp" => /\ written <= Asked /\ loaded <= written
                           /\ written > 0 => conf.batch_size > 0
    PROVE  /\ BulkTypeOK' /\ Triggered'
           /\ loaded <= loaded' /\ loaded' <= written
           /\ \A r \in table' \ table :
                 r.load_batch_id = run /\ loaded <= r.seq /\ r.seq < loaded'
           /\ \A r, q \in table' \ table : r.seq = q.seq => r = q
  <1> USE DEF BcpBatch
  <1>1. /\ loaded' = AtMost(loaded + conf.batch_size, written)
        /\ loaded' \in Nat /\ loaded <= loaded' /\ loaded' <= written
    <2>1. loaded \in Nat /\ written \in Nat /\ loaded < written
      BY DEF BulkTypeOK
    <2>2. conf.batch_size \in Int /\ conf.batch_size > 0
      BY <2>1, Sizes
    <2>3. loaded' = AtMost(loaded + conf.batch_size, written)
      OBVIOUS
    <2> DEFINE size == conf.batch_size
    <2>4. size \in Int /\ size > 0 /\ loaded' = AtMost(loaded + size, written)
      BY <2>2, <2>3
    <2> HIDE DEF size
    <2>5. loaded' \in Nat /\ loaded <= loaded' /\ loaded' <= written
      BY <2>1, <2>4 DEF AtMost
    <2> QED
      BY <2>3, <2>5
  <1>2. PICK bad \in SUBSET (loaded..(loaded' - 1)) :
          /\ skipped + Cardinality(bad) <= MaxSkipped
          /\ skipped' = skipped + Cardinality(bad)
          /\ table' = table \cup
                {[load_batch_id |-> run, seq |-> n, attempt |-> attempt] :
                    n \in (loaded..(loaded' - 1)) \ bad}
    OBVIOUS
  <1>3. Cardinality(bad) \in Nat
    <2>1. IsFiniteSet(loaded..(loaded' - 1))
      <3>1. loaded \in Int /\ loaded' - 1 \in Int
        BY <1>1 DEF BulkTypeOK
      <3> HIDE DEF BcpBatch
      <3> QED
        BY <3>1, FS_Interval
    <2>2. IsFiniteSet(bad)
      BY <2>1, FS_Subset
    <2> QED
      BY <2>2, FS_CardinalityType
  <1>4. skipped' \in 0..MaxSkipped
    BY <1>2, <1>3 DEF BulkTypeOK
  <1>5. \A r \in table' \ table :
           \E n \in loaded..(loaded' - 1) :
              r = [load_batch_id |-> run, seq |-> n, attempt |-> attempt]
    BY <1>2
  <1>6. \A n \in loaded..(loaded' - 1) :
           [load_batch_id |-> run, seq |-> n, attempt |-> attempt] \in Row
    BY <1>1 DEF Row, BulkTypeOK, Triggered
  <1>7. table' \subseteq Row
    BY <1>5, <1>6 DEF BulkTypeOK
  <1>8. UNCHANGED <<run, conf, step, attempt, failed, written, statement,
                    rowsWritten, created, indexes, files, history, messages>>
    BY DEF scheduler, reports
  <1>9. created' \in BOOLEAN /\ BulkTypeOK' /\ Triggered'
    BY <1>1, <1>4, <1>7, <1>8 DEF BulkTypeOK, Triggered
  <1>10. \A r \in table' \ table :
            r.load_batch_id = run /\ loaded <= r.seq /\ r.seq < loaded'
    BY <1>1, <1>5 DEF BulkTypeOK
  <1>11. \A r, q \in table' \ table : r.seq = q.seq => r = q
    BY <1>5
  <1> QED
    BY <1>1, <1>9, <1>10, <1>11

\* Types are kept by every other step.
LEMMA OtherTypes ==
    ASSUME BulkTypeOK, Triggered, Next, ~BcpBatch
    PROVE  BulkTypeOK' /\ Triggered'
  <1> USE DEF scheduler, progress, database, reports, NextTask, NextStep
  <1>1. CASE Trigger
    <2>1. run' \in Run /\ run' \in 0..MaxRuns
      BY <1>1 DEF Trigger, BulkTypeOK, Run
    <2>2. failed' \subseteq Task /\ step' \in Step /\ attempt' \in 0..Retries /\ rowsWritten' \in Nat
      BY <1>1 DEF Trigger, Step, Retries
    <2>3. created' \in BOOLEAN
      BY <1>1, Zenon DEF Trigger, BulkTypeOK
    <2> QED
      BY <1>1, <2>1, <2>2, <2>3 DEF Trigger, BulkTypeOK, Triggered
  <1>2. CASE EnsureTableExists
    <2>1. created' \in BOOLEAN
      BY <1>2, Zenon DEF EnsureTableExists
    <2>2. UNCHANGED <<run, conf, failed, table, indexes, written, loaded, skipped, statement,
                      rowsWritten, files, history, messages>>
      BY <1>2 DEF EnsureTableExists
    <2>3. step # "idle" /\ step' = "reset" /\ attempt' = 0
      BY <1>2 DEF EnsureTableExists
    <2> QED
      BY <2>1, <2>2, <2>3 DEF BulkTypeOK, Triggered, Step, Retries
  <1>3. CASE ResetTable
    BY <1>3 DEF ResetTable, BulkTypeOK, Triggered, Step
  <1>4. CASE GenerateRows
    <2>1. written' \in Nat
      BY <1>4, Sizes DEF GenerateRows, BulkTypeOK, AtMost
    <2> QED
      BY <1>4, <2>1 DEF GenerateRows, BulkTypeOK, Triggered
  <1>5. CASE StartBcp
    BY <1>5 DEF StartBcp, BulkTypeOK, Triggered, Step
  <1>6. CASE BcpExits
    BY <1>6 DEF BcpExits, BulkTypeOK, Triggered, Step
  <1>7. CASE PushXComs
    BY <1>7 DEF PushXComs, BulkTypeOK, Triggered, Step, Retries
  <1>8. CASE ValidateRowCount
    BY <1>8 DEF ValidateRowCount, BulkTypeOK, Triggered, Step, Retries
  <1>9. CASE CreateIndex
    <2>1. indexes' \subseteq Index /\ statement' \in 1..4
      BY <1>9 DEF CreateIndex, Index, BulkTypeOK
    <2> QED
      BY <1>9, <2>1 DEF CreateIndex, BulkTypeOK, Triggered
  <1>10. CASE UpdateStatistics
    BY <1>10 DEF UpdateStatistics, BulkTypeOK, Triggered, Step, Retries
  <1>11. CASE RecordRun
    <2>1. [run |-> run, status |-> IF failed = {} THEN "success" ELSE "failed",
           rows |-> IF failed = {} THEN rowsWritten ELSE 0] \in Line
      BY <1>11 DEF RecordRun, Line, BulkTypeOK, Triggered
    <2>2. history' \in Seq(Line)
      BY <1>11, <2>1 DEF RecordRun, BulkTypeOK
    <2> QED
      BY <1>11, <2>2 DEF RecordRun, BulkTypeOK, Triggered, Step
  <1>12. CASE SendTelegramMessage
    BY <1>12 DEF SendTelegramMessage, BulkTypeOK, Triggered, Step
  <1>13. CASE ZeroBatch \/ TooFewRows \/ BcpTimeout \/ StepRaises \/ Killed
    <2>1. step # "idle" /\ AttemptFails /\ files' \subseteq files
      BY <1>13 DEF ZeroBatch, TooFewRows, BcpTimeout, StepRaises, Killed, Raise
    <2> QED
      BY <2>1, FailureEnds
  <1> QED
    BY <1>1, <1>2, <1>3, <1>4, <1>5, <1>6, <1>7, <1>8, <1>9, <1>10, <1>11, <1>12, <1>13
    DEF Next, Proceed

-----------------------------------------------------------------------------
(* The inductive invariant                                                  *)

USE DEF Asked

\* How far the load of the run has come: the table is empty until bcp starts,
\* then holds lines that bcp is through with, and from there on only lines of
\* the file of this run.
LoadInv ==
    /\ step = "generate" => table = {} /\ loaded = 0 /\ written <= Asked
    /\ step = "bcp" => written = Asked /\ loaded <= written /\ OfTheRun(loaded)
    /\ step \in {"generate", "bcp"} => indexes = {}
    /\ step \in {"generate", "bcp"} /\ written > 0 => conf.batch_size > 0
    /\ step = "push" => written = Asked
    /\ step \in {"push", "validate"} => OfTheRun(Asked)
    /\ step \in {"validate", "index"} => rowsWritten = Asked

\* The load is whole once it is validated, and every index is there once the
\* run has nothing left but to report.
IndexInv ==
    /\ step = "index" =>
          WholeLoad /\ \A k \in 1..(statement - 1) : PostLoadIndexes[k] \in indexes
    /\ step \in {"record", "telegram"} /\ failed = {} =>
          WholeLoad /\ indexes = Index /\ rowsWritten = Asked

\* The history tells of no run before it ends.
HistoryInv ==
    \A k \in DOMAIN history :
        /\ history[k].run <= run
        /\ history[k].run = run => step \in {"idle", "record", "telegram"}

BulkInv ==
    BulkTypeOK /\ Triggered /\ NoOrderTwice /\ LoadInv /\ IndexInv /\ HistoryInv
    /\ SuccessIsWhole

\* What a successful line of the history claims.
LEMMA SuccessSays ==
    /\ SuccessIsWhole <=>
          \A k \in DOMAIN history :
             history[k].run = run /\ history[k].status = "success" =>
                WholeLoad /\ history[k].rows = Asked /\ indexes = Index
    /\ SuccessIsWhole' <=>
          \A k \in DOMAIN history' :
             history'[k].run = run' /\ history'[k].status = "success" =>
                WholeLoad' /\ history'[k].rows = Asked' /\ indexes' = Index
  BY DEF SuccessIsWhole, WholeLoad, Asked

\* A step that leaves run, configuration and table leaves what is said of them.
LEMMA SameLoad ==
    ASSUME UNCHANGED <<run, conf, table>>
    PROVE  /\ WholeLoad' <=> WholeLoad
           /\ NoOrderTwice' <=> NoOrderTwice
           /\ OfTheRun(Asked)' <=> OfTheRun(Asked)
           /\ loaded' = loaded => (OfTheRun(loaded)' <=> OfTheRun(loaded))
  BY DEF WholeLoad, NoOrderTwice, OfTheRun, Asked

\* A step before the end of a run has nothing to answer for in the history.
LEMMA NotYetInHistory ==
    ASSUME HistoryInv, step \notin {"idle", "record", "telegram"},
           UNCHANGED <<run, history>>
    PROVE  HistoryInv' /\ SuccessIsWhole'
  <1>1. \A k \in DOMAIN history : history[k].run # run
    BY DEF HistoryInv
  <1> QED
    BY <1>1, SuccessSays DEF HistoryInv

-----------------------------------------------------------------------------
(* The steps                                                                *)

\* The runs the history tells of are numbers.
LEMMA HistoryRuns ==
    ASSUME BulkTypeOK
    PROVE  run \in Nat /\ \A k \in DOMAIN history : history[k].run \in Nat
  <1>1. history \in Seq(Line) /\ run \in 0..MaxRuns
    BY DEF BulkTypeOK
  <1>2. \A k \in DOMAIN history : history[k] \in Line
    BY <1>1
  <1>3. \A h \in Line : h.run \in Nat
    BY DEF Line, Run
  <1> QED
    BY <1>1, <1>2, <1>3

\* A new run has no line in the history, whose runs are all earlier.
LEMMA TriggerStep ==
    ASSUME BulkInv, BulkTypeOK', Trigger
    PROVE  NoOrderTwice' /\ LoadInv' /\ IndexInv' /\ HistoryInv' /\ SuccessIsWhole'
  <1> USE DEF BulkInv, Trigger, database, reports
  <1>1. NoOrderTwice'
    BY DEF NoOrderTwice
  <1>2. LoadInv' /\ IndexInv'
    BY DEF LoadInv, IndexInv
  <1>3. \A k \in DOMAIN history : history[k].run < run'
    BY HistoryRuns DEF HistoryInv
  <1>4. run' \in Nat /\ \A k \in DOMAIN history : history[k].run \in Nat
    BY HistoryRuns
  <1> QED
    BY <1>1, <1>2, <1>3, <1>4, SuccessSays DEF HistoryInv

\* An attempt that fails leaves the table; it is retried from its first step,
\* or its task has failed.
LEMMA FailureStep ==
    ASSUME BulkInv, step # "idle", AttemptFails, files' \subseteq files
    PROVE  NoOrderTwice' /\ LoadInv' /\ IndexInv' /\ HistoryInv' /\ SuccessIsWhole'
  <1> USE DEF BulkInv
  <1>1. /\ UNCHANGED <<run, conf, written, loaded, rowsWritten, table, indexes, history>>
        /\ statement' = 1
    BY DEF AttemptFails, database, reports
  <1>2. /\ \/ step' = FirstStep[TaskOf[step]] /\ failed' = failed
           \/ step' \in {"idle", "record"} /\ failed' # {}
        /\ step \in {"record", "telegram"} => step' \in {"idle", "record"}
        /\ step' = "idle" => step \in {"record", "telegram"}
    BY FailureEnds
  <1>3. step \in Step
    BY DEF BulkTypeOK
  <1>4. \/ step = "ensure" /\ step' = "ensure"
        \/ step' = "reset"
        \/ step = "validate" /\ step' = "validate"
        \/ step = "index" /\ step' = "index"
        \/ step' \in {"idle", "record"} /\ failed' # {}
        \/ step \in {"record", "telegram"} /\ step' = "record" /\ failed' = failed
    BY <1>2, <1>3, Retries2 DEF Step
  <1>5. NoOrderTwice'
    BY <1>1, SameLoad
  <1>6. LoadInv'
    BY <1>1, <1>4, SameLoad DEF LoadInv
  <1>7. IndexInv'
    BY <1>1, <1>4, SameLoad DEF IndexInv
  <1>8. HistoryInv' /\ SuccessIsWhole'
    <2>1. CASE step \in {"record", "telegram"}
      BY <1>1, <1>2, <2>1, SameLoad, SuccessSays DEF HistoryInv
    <2>2. CASE step \notin {"record", "telegram"}
      BY <1>1, <2>2, NotYetInHistory
    <2> QED
      BY <2>1, <2>2
  <1> QED
    BY <1>5, <1>6, <1>7, <1>8

\* bcp adds lines that are not in the table yet.
LEMMA BcpStep ==
    ASSUME BulkInv, BcpBatch
    PROVE  NoOrderTwice' /\ LoadInv' /\ IndexInv' /\ HistoryInv' /\ SuccessIsWhole'
  <1> USE DEF BulkInv
  <1>1. /\ step = "bcp" /\ table \subseteq table'
        /\ UNCHANGED <<run, conf, step, written, indexes, history>>
    BY DEF BcpBatch, scheduler, reports
  <1>2. written = Asked /\ loaded <= written /\ OfTheRun(loaded) /\ indexes = {}
    BY <1>1 DEF LoadInv
  <1>3. written <= Asked /\ (written > 0 => conf.batch_size > 0)
    BY <1>1, <1>2, Sizes DEF LoadInv
  <1>4. /\ loaded <= loaded' /\ loaded' <= written /\ BulkTypeOK'
        /\ \A r \in table' \ table :
              r.load_batch_id = run /\ loaded <= r.seq /\ r.seq < loaded'
        /\ \A r, q \in table' \ table : r.seq = q.seq => r = q
    BY <1>2, <1>3, BcpTypes
  <1>5. \A r \in table' : r.seq \in Nat
    BY <1>4 DEF BulkTypeOK, Row
  <1>6. loaded \in Nat /\ loaded' \in Nat
    BY <1>4 DEF BulkTypeOK
  <1>7. \A r \in table : r.load_batch_id = run /\ r.seq < loaded
    BY <1>2 DEF OfTheRun
  <1>8. NoOrderTwice'
    BY <1>1, <1>4, <1>5, <1>6, <1>7 DEF NoOrderTwice
  <1>9. OfTheRun(loaded)'
    BY <1>1, <1>4, <1>5, <1>6, <1>7 DEF OfTheRun
  <1>10. LoadInv' /\ IndexInv'
    BY <1>1, <1>2, <1>4, <1>9 DEF LoadInv, IndexInv
  <1> QED
    BY <1>1, <1>8, <1>10, NotYetInHistory

\* The steps of generate_and_load before and after bcp.
LEMMA LoadStep ==
    ASSUME BulkInv, BulkTypeOK',
           EnsureTableExists \/ ResetTable \/ GenerateRows \/ StartBcp \/ BcpExits \/ PushXComs
    PROVE  NoOrderTwice' /\ LoadInv' /\ IndexInv' /\ HistoryInv' /\ SuccessIsWhole'
  <1> USE DEF BulkInv, scheduler, progress, database, reports, NextTask, NextStep
  <1>1. CASE EnsureTableExists
    BY <1>1, SameLoad, NotYetInHistory DEF EnsureTableExists, LoadInv, IndexInv
  <1>2. CASE ResetTable
    <2>1. table' = {} /\ indexes' = {} /\ written' = 0 /\ loaded' = 0 /\ step' = "generate"
          /\ UNCHANGED <<run, conf, history>> /\ step = "reset"
      BY <1>2 DEF ResetTable
    <2>2. NoOrderTwice'
      BY <2>1 DEF NoOrderTwice
    <2>3. LoadInv' /\ IndexInv'
      BY <2>1, Sizes DEF LoadInv, IndexInv
    <2> QED
      BY <2>1, <2>2, <2>3, NotYetInHistory
  <1>3. CASE GenerateRows
    <2>1. written' <= Asked
      BY <1>3, Sizes DEF GenerateRows, AtMost, BulkTypeOK
    <2> QED
      BY <1>3, <2>1, SameLoad, NotYetInHistory DEF GenerateRows, LoadInv, IndexInv
  <1>4. CASE StartBcp
    <2>1. step = "generate" /\ step' = "bcp" /\ written >= conf.total_rows
          /\ UNCHANGED <<run, conf, table, indexes, written, loaded, history>>
      BY <1>4 DEF StartBcp
    <2>5. written = Asked
      BY <2>1, Sizes DEF LoadInv, BulkTypeOK
    <2>2. table = {} /\ loaded = 0 /\ indexes = {}
      BY <2>1 DEF LoadInv
    <2>3. OfTheRun(loaded)'
      BY <2>1, <2>2 DEF OfTheRun
    <2>4. LoadInv' /\ IndexInv'
      BY <2>1, <2>2, <2>3, <2>5, Sizes DEF LoadInv, IndexInv
    <2> QED
      BY <2>1, <2>4, SameLoad, NotYetInHistory
  <1>5. CASE BcpExits
    <2>1. step = "bcp" /\ step' = "push" /\ loaded = written
          /\ UNCHANGED <<run, conf, table, indexes, written, loaded, history>>
      BY <1>5 DEF BcpExits
    <2>2. written = Asked /\ OfTheRun(Asked)
      BY <2>1 DEF LoadInv
    <2>3. LoadInv' /\ IndexInv'
      BY <2>1, <2>2, SameLoad DEF LoadInv, IndexInv
    <2> QED
      BY <2>1, <2>3, SameLoad, NotYetInHistory
  <1>6. CASE PushXComs
    <2>1. step = "push" /\ step' = "validate" /\ rowsWritten' = written
          /\ UNCHANGED <<run, conf, table, indexes, written, loaded, history>>
      BY <1>6 DEF PushXComs
    <2>2. written = Asked /\ OfTheRun(Asked)
      BY <2>1 DEF LoadInv
    <2>3. LoadInv' /\ IndexInv'
      BY <2>1, <2>2, SameLoad DEF LoadInv, IndexInv
    <2> QED
      BY <2>1, <2>3, SameLoad, NotYetInHistory
  <1> QED
    BY <1>1, <1>2, <1>3, <1>4, <1>5, <1>6

\* validate_row_count and the statements behind it: the counted load is whole,
\* and the index of a statement is there when the next one is executed.
LEMMA IndexStep ==
    ASSUME BulkInv, BulkTypeOK', ValidateRowCount \/ CreateIndex \/ UpdateStatistics
    PROVE  NoOrderTwice' /\ LoadInv' /\ IndexInv' /\ HistoryInv' /\ SuccessIsWhole'
  <1> USE DEF BulkInv, scheduler, progress, database, reports, NextTask, NextStep
  <1>1. CASE ValidateRowCount
    <2>1. step = "validate" /\ step' = "index" /\ statement' = 1 /\ rowsWritten' = rowsWritten
          /\ UNCHANGED <<run, conf, table, indexes, history>> /\ Counted >= conf.total_rows
      BY <1>1 DEF ValidateRowCount
    <2>2. WholeLoad /\ rowsWritten = Asked
      BY <2>1, EnoughIsAll DEF LoadInv
    <2>3. LoadInv' /\ IndexInv'
      BY <2>1, <2>2, SameLoad DEF LoadInv, IndexInv
    <2> QED
      BY <2>1, <2>3, SameLoad, NotYetInHistory
  <1>2. CASE CreateIndex
    <2>1. step = "index" /\ step' = "index" /\ statement' = statement + 1
          /\ indexes' = indexes \cup {PostLoadIndexes[statement]} /\ statement \in 1..3
          /\ rowsWritten' = rowsWritten /\ UNCHANGED <<run, conf, table, history>>
      BY <1>2 DEF CreateIndex
    <2>2. WholeLoad /\ \A k \in 1..(statement - 1) : PostLoadIndexes[k] \in indexes
      BY <2>1 DEF IndexInv
    <2>3. \A k \in 1..(statement' - 1) : PostLoadIndexes[k] \in indexes'
      <3>1. \A k \in 1..(statement' - 1) : k \in 1..(statement - 1) \/ k = statement
        BY <2>1
      <3> QED
        BY <2>1, <2>2, <3>1
    <2>4. LoadInv' /\ IndexInv'
      BY <2>1, <2>2, <2>3, SameLoad DEF LoadInv, IndexInv
    <2> QED
      BY <2>1, <2>4, SameLoad, NotYetInHistory
  <1>3. CASE UpdateStatistics
    <2>1. step = "index" /\ step' = "record" /\ statement = 4 /\ rowsWritten' = rowsWritten
          /\ UNCHANGED <<run, conf, table, indexes, history>>
      BY <1>3 DEF UpdateStatistics
    <2>2. /\ WholeLoad /\ rowsWritten = Asked
          /\ \A k \in 1..3 : PostLoadIndexes[k] \in indexes
      BY <2>1 DEF IndexInv, LoadInv
    <2>3. indexes = Index
      BY <2>2 DEF BulkTypeOK, Index
    <2>4. LoadInv' /\ IndexInv'
      BY <2>1, <2>2, <2>3, SameLoad DEF LoadInv, IndexInv
    <2> QED
      BY <2>1, <2>4, SameLoad, NotYetInHistory
  <1> QED
    BY <1>1, <1>2, <1>3

\* The line of the history says success only when no task has failed.
LEMMA ReportStep ==
    ASSUME BulkInv, BulkTypeOK', RecordRun \/ SendTelegramMessage
    PROVE  NoOrderTwice' /\ LoadInv' /\ IndexInv' /\ HistoryInv' /\ SuccessIsWhole'
  <1> USE DEF BulkInv, scheduler, progress, database, reports, NextStep
  <1>1. CASE RecordRun
    <2> DEFINE line == [run    |-> run,
                        status |-> IF failed = {} THEN "success" ELSE "failed",
                        rows   |-> IF failed = {} THEN rowsWritten ELSE 0]
    <2>1. step = "record" /\ step' = "telegram" /\ history' = Append(history, line)
          /\ UNCHANGED <<run, conf, failed, table, indexes, rowsWritten>>
      BY <1>1 DEF RecordRun
    <2>2. failed = {} => WholeLoad /\ indexes = Index /\ rowsWritten = Asked
      BY <2>1 DEF IndexInv
    <2>3. LoadInv' /\ IndexInv' /\ NoOrderTwice'
      BY <2>1, <2>2, SameLoad DEF LoadInv, IndexInv
    <2>4. \A k \in DOMAIN history' :
             \/ k \in DOMAIN history /\ history'[k] = history[k]
             \/ history'[k] = line
      <3>1. history \in Seq(Line)
        BY DEF BulkTypeOK
      <3> HIDE DEF line
      <3> QED
        BY <2>1, <3>1
    <2>5. HistoryInv'
      BY <2>1, <2>4, HistoryRuns DEF HistoryInv
    <2>6. line.status = "success" =>
             WholeLoad /\ line.rows = Asked /\ indexes = Index
      BY <2>2
    <2>7. SuccessIsWhole'
      <3> HIDE DEF line
      <3> QED
        BY <2>1, <2>4, <2>6, SameLoad, SuccessSays
    <2> QED
      BY <2>3, <2>5, <2>7
  <1>2. CASE SendTelegramMessage
    <2>1. step = "telegram" /\ step' = "idle"
          /\ UNCHANGED <<run, conf, table, indexes, history>>
      BY <1>2 DEF SendTelegramMessage
    <2>2. LoadInv' /\ IndexInv' /\ NoOrderTwice' /\ HistoryInv'
      BY <2>1, SameLoad DEF LoadInv, IndexInv, HistoryInv
    <2>3. SuccessIsWhole'
      BY <2>1, SameLoad, SuccessSays
    <2> QED
      BY <2>2, <2>3
  <1> QED
    BY <1>1, <1>2

\* The invariant holds at first and is kept by every step.
LEMMA BulkInvariant == Spec => []BulkInv
  <1>1. BulkInit => BulkInv
    <2> SUFFICES ASSUME BulkInit PROVE BulkInv
      OBVIOUS
    <2>1. step = "idle" /\ history = << >> /\ table = {}
      BY DEF BulkInit
    <2>2. created \in BOOLEAN
      BY Zenon DEF BulkInit
    <2>3. BulkTypeOK
      BY <2>2 DEF BulkInit, BulkTypeOK, Step, Retries
    <2>4. NoOrderTwice /\ LoadInv /\ IndexInv /\ Triggered
      BY <2>1 DEF NoOrderTwice, LoadInv, IndexInv, Triggered
    <2>5. HistoryInv /\ SuccessIsWhole
      BY <2>1 DEF HistoryInv, SuccessIsWhole
    <2> QED
      BY <2>3, <2>4, <2>5 DEF BulkInv
  <1>2. BulkInv /\ [Next]_vars => BulkInv'
    <2> SUFFICES ASSUME BulkInv, [Next]_vars PROVE BulkInv'
      OBVIOUS
    <2>1. CASE BcpBatch
      <3>1. step = "bcp" => /\ written <= Asked /\ loaded <= written
                            /\ written > 0 => conf.batch_size > 0
        BY Sizes DEF BulkInv, LoadInv
      <3> QED
        BY <2>1, <3>1, BcpTypes, BcpStep DEF BulkInv
    <2>2. CASE Next /\ ~BcpBatch
      <3>1. BulkTypeOK' /\ Triggered'
        BY <2>2, OtherTypes DEF BulkInv
      <3>2. CASE Trigger
        BY <3>1, <3>2, TriggerStep DEF BulkInv
      <3>3. CASE EnsureTableExists \/ ResetTable \/ GenerateRows \/ StartBcp \/ BcpExits \/ PushXComs
        BY <3>1, <3>3, LoadStep DEF BulkInv
      <3>4. CASE ValidateRowCount \/ CreateIndex \/ UpdateStatistics
        BY <3>1, <3>4, IndexStep DEF BulkInv
      <3>5. CASE RecordRun \/ SendTelegramMessage
        BY <3>1, <3>5, ReportStep DEF BulkInv
      <3>6. CASE ZeroBatch \/ TooFewRows \/ BcpTimeout \/ StepRaises \/ Killed
        <4>1. step # "idle" /\ AttemptFails /\ files' \subseteq files
          BY <3>6 DEF ZeroBatch, TooFewRows, BcpTimeout, StepRaises, Killed, Raise
        <4> QED
          BY <3>1, <4>1, FailureStep DEF BulkInv
      <3> QED
        BY <2>2, <3>2, <3>3, <3>4, <3>5, <3>6 DEF Next, Proceed
    <2>3. CASE UNCHANGED vars
      <3> USE DEF vars, scheduler, progress, database, reports, BulkInv
      <3>1. BulkTypeOK' /\ Triggered'
        BY <2>3 DEF BulkTypeOK, Triggered
      <3>2. LoadInv' /\ IndexInv' /\ NoOrderTwice'
        BY <2>3, SameLoad DEF LoadInv, IndexInv
      <3>3. HistoryInv' /\ SuccessIsWhole'
        BY <2>3, SameLoad, SuccessSays DEF HistoryInv
      <3> QED
        BY <3>1, <3>2, <3>3
    <2> QED
      BY <2>1, <2>2, <2>3
  <1> QED
    BY <1>1, <1>2, PTL DEF Spec

-----------------------------------------------------------------------------
\* BulkTypeOK: no task of the DAG is tried more often than its retries allow.
THEOREM BulkTypes == Spec => []BulkTypeOK
  <1>1. BulkInv => BulkTypeOK
    BY DEF BulkInv
  <1> QED
    BY <1>1, BulkInvariant, PTL

\* No retry and no later run adds to what a broken load left in the table.
THEOREM RetriesLeaveNoDuplicates == Spec => []NoOrderTwice
  <1>1. BulkInv => NoOrderTwice
    BY DEF BulkInv
  <1> QED
    BY <1>1, BulkInvariant, PTL

\* No attempt of bcp meets an index that an earlier run or attempt built.
THEOREM BcpLoadsUnindexed == Spec => []LoadsUnindexed
  <1>1. BulkInv => LoadsUnindexed
    BY DEF BulkInv, LoadInv, LoadsUnindexed
  <1> QED
    BY <1>1, BulkInvariant, PTL

\* A run that the history calls a success left the whole snapshot.
THEOREM ReportedSuccessIsWhole == Spec => []SuccessIsWhole
  <1>1. BulkInv => SuccessIsWhole
    BY DEF BulkInv
  <1> QED
    BY <1>1, BulkInvariant, PTL
=============================================================================
