---------------------------- MODULE LogRetention ----------------------------
(***************************************************************************)
(* The Airflow DAG pipeline_log_retention (src/airflow/dags/               *)
(* pipeline_log_retention.py) and the table it keeps bounded.  Every hour  *)
(* one transaction deletes the rows of pipeline_log that are older than    *)
(* the retention, counts what is left and, when that is more than          *)
(* MAX_ROWS, deletes the TRIM_BATCH_SIZE oldest rows.  It runs at READ     *)
(* COMMITTED SNAPSHOT next to the consumers that go on logging: each       *)
(* statement sees what was committed when it began, less what its own      *)
(* transaction has deleted.  A failed attempt is rolled back and retried   *)
(* once.                                                                   *)
(*                                                                         *)
(* A row is its log_id, which follows the order of created_at.  Time is    *)
(* the age of the rows in hours, and a row past the retention ages no      *)
(* further: every such row is alike to the code.                           *)
(***************************************************************************)
EXTENDS Naturals, FiniteSets

CONSTANTS
    RETENTION,         \* RETENTION_DAYS, in hours
    MAX_ROWS,
    TRIM_BATCH_SIZE,
    MaxLogs,           \* bound: rows ever logged
    MaxFailures        \* bound: attempts of the task that fail

ASSUME LogAssumption ==
    /\ RETENTION \in Nat /\ MAX_ROWS \in Nat /\ TRIM_BATCH_SIZE \in Nat
    /\ MaxLogs \in Nat /\ MaxFailures \in Nat

Retries == 1
LogId   == 1..MaxLogs
Age     == 0..(RETENTION + 1)

VARIABLES
    nextId,     \* the IDENTITY of pipeline_log
    age,        \* hours since created_at
    rows,       \* the committed rows of pipeline_log
    due,        \* is a scheduled run waiting to start?
    step,       \* what the transaction does next; "idle" outside a run
    attempt,
    expired,    \* rows it has deleted for their age and not committed
    trimmed,    \* rows it has deleted over the cap and not committed
    failures    \* failed attempts so far

log  == <<nextId, age>>
txn  == <<step, attempt, expired, trimmed, failures>>
vars == <<log, rows, due, txn>>

LogInit ==
    /\ nextId = 1 /\ age = [i \in LogId |-> 0]
    /\ rows = {}
    /\ due = FALSE /\ step = "idle" /\ attempt = 0
    /\ expired = {} /\ trimmed = {}
    /\ failures = 0

-----------------------------------------------------------------------------
\* log_pipeline_event of a consumer, on a connection of its own.
LogPipelineEvent ==
    /\ nextId <= MaxLogs
    /\ rows' = rows \cup {nextId}
    /\ nextId' = nextId + 1
    /\ UNCHANGED <<age, due, txn>>

\* An hour passes, perhaps in the middle of a run: max_active_runs=1 and
\* catchup=False make that one run that is due after it.
HourPasses ==
    /\ age' = [i \in LogId |->
                  IF i < nextId /\ age[i] <= RETENTION THEN age[i] + 1 ELSE age[i]]
    /\ due' = TRUE
    /\ UNCHANGED <<nextId, rows, txn>>

StartRun ==
    /\ step = "idle" /\ due
    /\ due' = FALSE
    /\ step' = "delete" /\ attempt' = 0
    /\ UNCHANGED <<log, rows, expired, trimmed, failures>>

\* DELETE ... WHERE created_at < DATEADD(day, -RETENTION_DAYS, ...)
DeleteExpired ==
    /\ step = "delete"
    /\ expired' = {i \in rows : age[i] > RETENTION}
    /\ step' = "count"
    /\ UNCHANGED <<log, rows, due, attempt, trimmed, failures>>

\* Mutant: the rows are counted before the expired ones are deleted.
CountAllRows ==
    /\ step = "count"
    /\ step' = IF Cardinality(rows) > MAX_ROWS THEN "trim" ELSE "commit"
    /\ UNCHANGED <<log, rows, due, attempt, expired, trimmed, failures>>

CountRows ==
    /\ step = "count"
    /\ step' = IF Cardinality(rows \ expired) > MAX_ROWS THEN "trim" ELSE "commit"
    /\ UNCHANGED <<log, rows, due, attempt, expired, trimmed, failures>>

\* SELECT TOP (TRIM_BATCH_SIZE) ... ORDER BY created_at ASC
Oldest(visible) ==
    {i \in visible : Cardinality({j \in visible : j < i}) < TRIM_BATCH_SIZE}

TrimOldest ==
    /\ step = "trim"
    /\ trimmed' = Oldest(rows \ expired)
    /\ step' = "commit"
    /\ UNCHANGED <<log, rows, due, attempt, expired, failures>>

\* Mutant: no conn.commit(): closing the connection undoes the deletes.
CloseOnly ==
    /\ step = "commit"
    /\ expired' = {} /\ trimmed' = {}
    /\ step' = "idle"
    /\ UNCHANGED <<log, rows, due, attempt, failures>>

Commit ==
    /\ step = "commit"
    /\ rows' = (rows \ expired) \ trimmed
    /\ expired' = {} /\ trimmed' = {}
    /\ step' = "idle"
    /\ UNCHANGED <<log, due, attempt, failures>>

\* Mutant: the connection is kept, and with it the transaction.
FailsHalfDone ==
    /\ step # "idle" /\ failures < MaxFailures
    /\ failures' = failures + 1
    /\ \/ attempt < Retries /\ attempt' = attempt + 1 /\ step' = "delete"
       \/ attempt >= Retries /\ step' = "idle" /\ UNCHANGED attempt
    /\ UNCHANGED <<log, rows, due, expired, trimmed>>

\* An error or a crash: the connection is closed, which undoes the
\* transaction; the task is retried once, then left to the next hour.
AttemptFails ==
    /\ step # "idle" /\ failures < MaxFailures
    /\ failures' = failures + 1
    /\ expired' = {} /\ trimmed' = {}
    /\ \/ attempt < Retries /\ attempt' = attempt + 1 /\ step' = "delete"
       \/ attempt >= Retries /\ step' = "idle" /\ UNCHANGED attempt
    /\ UNCHANGED <<log, rows, due>>

Enforce == StartRun \/ DeleteExpired \/ CountRows \/ TrimOldest \/ Commit

Next == LogPipelineEvent \/ HourPasses \/ Enforce \/ AttemptFails

Spec == LogInit /\ [][Next]_vars

\* Time passes and the scheduler runs what is due; nothing need be logged and
\* no attempt need fail.
FairSpec == Spec /\ WF_vars(Enforce) /\ WF_vars(HourPasses)

-----------------------------------------------------------------------------
(***************************************************************************)
(* Properties                                                              *)
(***************************************************************************)

\* Every variable keeps its type; what is deleted for its age is past the
\* retention, and nothing stays deleted from one attempt to the next.
RetentionTypeOK ==
    /\ nextId \in 1..(MaxLogs + 1)
    /\ age \in [LogId -> Age]
    /\ rows \subseteq 1..(nextId - 1)
    /\ due \in BOOLEAN /\ attempt \in 0..Retries
    /\ step \in {"idle", "delete", "count", "trim", "commit"}
    /\ expired \subseteq {i \in rows : age[i] > RETENTION}
    /\ trimmed \subseteq rows
    /\ step \in {"idle", "delete"} => expired = {}
    /\ step # "commit" => trimmed = {}
    /\ failures \in 0..MaxFailures

\* The two rules of the log (README, "Log operacional"), on what a run really
\* removes, however much is logged and whatever ages while its transaction
\* runs: a row of the retention goes only when the table held more than
\* MAX_ROWS of those, no more than TRIM_BATCH_SIZE of them go, and none that
\* stays is older.
RemovesByTheRules ==
    [][LET young == rows \ expired
           gone  == young \ rows'
       IN  gone # {} =>
              /\ Cardinality(young) > MAX_ROWS
              /\ Cardinality(gone) <= TRIM_BATCH_SIZE
              /\ \A i \in gone, j \in rows' : i < j]_vars

\* No row stays in the log for ever, though attempts fail and the hours go by
\* while a run is late.
RowsLeave == \A i \in LogId : i \in rows ~> i \notin rows
=============================================================================
