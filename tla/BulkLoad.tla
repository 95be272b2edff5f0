------------------------------ MODULE BulkLoad ------------------------------
(***************************************************************************)
(* The Airflow DAG bulk_load_dimensions (src/airflow/dags/                 *)
(* bulk_load_dimensions.py with its scripts data_generator, run_history    *)
(* and notify): five tasks in a line that replace order_history_fact by    *)
(* one freshly generated snapshot.  One run is active at a time            *)
(* (max_active_runs=1) and every task is tried twice (retries=1).  An      *)
(* attempt may raise, or its process may be killed, between any two steps; *)
(* bcp commits batch by batch, so that a failed load leaves a prefix.      *)
(*                                                                         *)
(* A row is named by the position of its order (HIST-0000000000, ...), the *)
(* batch it belongs to (load_batch_id is a digest of run_id: here the run  *)
(* itself) and the attempt that loaded it, which stands for its IDENTITY.  *)
(***************************************************************************)
EXTENDS Integers, FiniteSets, Sequences

CONSTANTS
    MaxRuns,     \* bound: how often the DAG is triggered
    TotalRows,   \* the values of conf["total_rows"]
    BatchSize,   \* the values of conf["batch_size"]
    MaxSkipped   \* bad lines that bcp skips before it gives up

ASSUME BulkAssumption ==
    /\ MaxRuns \in Nat /\ MaxSkipped \in Nat
    /\ TotalRows \subseteq Int /\ BatchSize \subseteq Int

Run     == 1..MaxRuns
Retries == 1
Conf    == [total_rows : TotalRows, batch_size : BatchSize]
Row     == [load_batch_id : Run, seq : Nat, attempt : 0..Retries]

\* The statements of POST_LOAD_INDEXES_SQL that build an index; the fourth
\* refreshes the statistics.
PostLoadIndexes ==
    <<"ix_ohf_order_date", "ix_ohf_region_channel", "ix_ohf_load_batch">>
Index == {PostLoadIndexes[k] : k \in 1..3}

(***************************************************************************)
(* The steps of a run, by task: generate_and_load and notify_completion    *)
(* have several.                                                           *)
(***************************************************************************)
Task == {"ensure_table_exists", "generate_and_load", "validate_row_count",
         "create_post_load_indexes", "notify_completion"}
Step == {"idle", "ensure", "reset", "generate", "bcp", "push",
         "validate", "index", "record", "telegram"}
TaskOf ==
    [s \in Step |->
        CASE s = "ensure"                                 -> "ensure_table_exists"
          [] s \in {"reset", "generate", "bcp", "push"}   -> "generate_and_load"
          [] s = "validate"                               -> "validate_row_count"
          [] s = "index"                                  -> "create_post_load_indexes"
          [] OTHER                                        -> "notify_completion"]
FirstStep ==
    [t \in Task |->
        CASE t = "ensure_table_exists"      -> "ensure"
          [] t = "generate_and_load"        -> "reset"
          [] t = "validate_row_count"       -> "validate"
          [] t = "create_post_load_indexes" -> "index"
          [] OTHER                          -> "record"]

VARIABLES
    run, conf,          \* the active (or last) run and its configuration
    step, attempt,      \* where it is, and the attempt of that task
    written, loaded,    \* lines in the data file; lines bcp is through with
    skipped,            \* lines of them that bcp skipped
    statement,          \* the next statement of create_post_load_indexes
    rowsWritten,        \* XCom rows_written; 0 as long as there is none
    failed,             \* tasks of the run in state failed
    created, table, indexes,   \* order_history_fact
    files,              \* runs whose data or error file is in /tmp
    history,            \* the run-history file
    messages            \* runs that a Telegram message told of

scheduler == <<run, conf, step, attempt, failed>>
progress  == <<written, loaded, skipped, statement>>
database  == <<created, table, indexes>>
reports   == <<history, messages>>
vars      == <<scheduler, progress, rowsWritten, database, files, reports>>

Line == [run : Run, status : {"success", "failed"}, rows : Nat]

BulkInit ==
    /\ run = 0 /\ conf \in Conf
    /\ step = "idle" /\ attempt = 0 /\ failed = {}
    /\ written = 0 /\ loaded = 0 /\ skipped = 0 /\ statement = 1
    /\ rowsWritten = 0
    /\ created \in BOOLEAN /\ table = {} /\ indexes = {}
    /\ files = {}
    /\ history = << >> /\ messages = {}

-----------------------------------------------------------------------------
(***************************************************************************)
(* The scheduler                                                           *)
(***************************************************************************)
Trigger ==
    /\ step = "idle" /\ run < MaxRuns
    /\ run' = run + 1 /\ conf' \in Conf
    /\ step' = "ensure" /\ attempt' = 0 /\ failed' = {}
    /\ rowsWritten' = 0
    /\ UNCHANGED <<progress, database, files, reports>>

\* The task is through: the next one starts with its first attempt.
NextTask(s) ==
    step' = s /\ attempt' = 0 /\ UNCHANGED <<run, conf, failed>>

NextStep(s) ==
    step' = s /\ UNCHANGED <<run, conf, attempt, failed>>

\* Mutant: one attempt more than the retries allow.
RetryOnceMore ==
    /\ attempt <= Retries
    /\ attempt' = attempt + 1
    /\ step' = FirstStep[TaskOf[step]]
    /\ UNCHANGED failed

\* The attempt ends in an error.  It is retried from the start of the task;
\* a second failure fails the task, the tasks behind it are skipped as
\* upstream_failed and only notify_completion (all_done) still runs.
Retry ==
    /\ attempt < Retries
    /\ attempt' = attempt + 1
    /\ step' = FirstStep[TaskOf[step]]
    /\ UNCHANGED failed

\* Mutant: notify_completion without its trigger rule all_done.
GiveUpUnannounced ==
    /\ attempt >= Retries
    /\ attempt' = 0
    /\ failed' = failed \cup {TaskOf[step]}
    /\ step' = "idle"

GiveUp ==
    /\ attempt >= Retries
    /\ attempt' = 0
    /\ failed' = failed \cup {TaskOf[step]}
    /\ step' = IF TaskOf[step] = "notify_completion" THEN "idle" ELSE "record"

AttemptFails ==
    /\ Retry \/ GiveUp
    /\ statement' = 1
    /\ UNCHANGED <<run, conf, written, loaded, skipped, rowsWritten,
                   database, reports>>

\* An exception: from the data file on, the finally clause removes the files.
Raise ==
    /\ AttemptFails
    /\ files' = IF step \in {"generate", "bcp"} THEN files \ {run} ELSE files

-----------------------------------------------------------------------------
(***************************************************************************)
(* ensure_table_exists                                                     *)
(***************************************************************************)
EnsureTableExists ==
    /\ step = "ensure"
    /\ created' = TRUE
    /\ NextTask("reset")
    /\ UNCHANGED <<table, indexes, progress, rowsWritten, files, reports>>

(***************************************************************************)
(* generate_and_load: one transaction drops the secondary indexes and      *)
(* truncates the table, the data file is opened and filled batch by batch, *)
(* bcp commits it batch by batch, the XComs are pushed at the very end.    *)
(***************************************************************************)
\* Mutant: the DELETE by batch that the TRUNCATE replaced.
ResetBatch ==
    /\ step = "reset" /\ created
    /\ indexes' = {} /\ table' = {r \in table : r.load_batch_id # run}
    /\ files' = files \cup {run}
    /\ written' = 0 /\ loaded' = 0 /\ skipped' = 0
    /\ NextStep("generate")
    /\ UNCHANGED <<created, statement, rowsWritten, reports>>

\* Mutant: the reset forgets an index of the earlier run.
ResetKeepsAnIndex ==
    /\ step = "reset" /\ created
    /\ indexes' = indexes \cap {"ix_ohf_load_batch"} /\ table' = {}
    /\ files' = files \cup {run}
    /\ written' = 0 /\ loaded' = 0 /\ skipped' = 0
    /\ NextStep("generate")
    /\ UNCHANGED <<created, statement, rowsWritten, reports>>

ResetTable ==
    /\ step = "reset" /\ created
    /\ indexes' = {} /\ table' = {}
    /\ files' = files \cup {run}
    /\ written' = 0 /\ loaded' = 0 /\ skipped' = 0
    /\ NextStep("generate")
    /\ UNCHANGED <<created, statement, rowsWritten, reports>>

AtMost(n, bound) == IF n < bound THEN n ELSE bound

\* A negative batch_size yields empty batches for ever: only a failure or a
\* kill ends the attempt.
GenerateRows ==
    /\ step = "generate" /\ written < conf.total_rows /\ conf.batch_size > 0
    /\ written' = AtMost(written + conf.batch_size, conf.total_rows)
    /\ UNCHANGED <<scheduler, loaded, skipped, statement, rowsWritten,
                   database, files, reports>>

\* The progress line computes written % (batch_size * 10).
ZeroBatch ==
    /\ step = "generate" /\ written < conf.total_rows /\ conf.batch_size = 0
    /\ Raise

StartBcp ==
    /\ step = "generate" /\ written >= conf.total_rows
    /\ NextStep("bcp")
    /\ UNCHANGED <<progress, rowsWritten, database, files, reports>>

BcpBatch ==
    /\ step = "bcp" /\ loaded < written
    /\ loaded' = AtMost(loaded + conf.batch_size, written)
    /\ \E bad \in SUBSET (loaded..(loaded' - 1)) :
          /\ skipped + Cardinality(bad) <= MaxSkipped
          /\ skipped' = skipped + Cardinality(bad)
          /\ table' = table \cup
                {[load_batch_id |-> run, seq |-> n, attempt |-> attempt] :
                    n \in (loaded..(loaded' - 1)) \ bad}
    /\ UNCHANGED <<scheduler, written, statement, rowsWritten, created, indexes,
                   files, reports>>

BcpExits ==
    /\ step = "bcp" /\ loaded = written
    /\ files' = files \ {run}
    /\ NextStep("push")
    /\ UNCHANGED <<progress, rowsWritten, database, reports>>

\* subprocess.run kills a bcp that takes longer than BCP_TIMEOUT_SECONDS.
BcpTimeout ==
    /\ step = "bcp"
    /\ Raise

PushXComs ==
    /\ step = "push"
    /\ rowsWritten' = written
    /\ NextTask("validate")
    /\ UNCHANGED <<progress, database, files, reports>>

(***************************************************************************)
(* validate_row_count                                                      *)
(***************************************************************************)
Counted == Cardinality({r \in table : r.load_batch_id = run})

\* Mutant: the check passes one row short of the total.
ValidateOneShort ==
    /\ step = "validate" /\ Counted + 1 >= conf.total_rows
    /\ NextTask("index")
    /\ statement' = 1
    /\ UNCHANGED <<written, loaded, skipped, rowsWritten, database, files, reports>>

ValidateRowCount ==
    /\ step = "validate" /\ Counted >= conf.total_rows
    /\ NextTask("index")
    /\ statement' = 1
    /\ UNCHANGED <<written, loaded, skipped, rowsWritten, database, files, reports>>

TooFewRows ==
    /\ step = "validate" /\ Counted < conf.total_rows
    /\ Raise

(***************************************************************************)
(* create_post_load_indexes commits each statement by itself.              *)
(***************************************************************************)
CreateIndex ==
    /\ step = "index" /\ statement \in 1..3
    /\ indexes' = indexes \cup {PostLoadIndexes[statement]}
    /\ statement' = statement + 1
    /\ UNCHANGED <<scheduler, written, loaded, skipped, rowsWritten, created, table,
                   files, reports>>

UpdateStatistics ==
    /\ step = "index" /\ statement = 4
    /\ NextTask("record")
    /\ UNCHANGED <<progress, rowsWritten, database, files, reports>>

(***************************************************************************)
(* notify_completion: the line of the history, then the message, whose     *)
(* failure is swallowed.                                                   *)
(***************************************************************************)
RecordRun ==
    /\ step = "record"
    /\ history' = Append(history,
          [run    |-> run,
           status |-> IF failed = {} THEN "success" ELSE "failed",
           rows   |-> IF failed = {} THEN rowsWritten ELSE 0])
    /\ NextStep("telegram")
    /\ UNCHANGED <<progress, rowsWritten, database, files, messages>>

SendTelegramMessage ==
    /\ step = "telegram"
    /\ \/ messages' = messages \cup {run}
       \/ UNCHANGED messages
    /\ step' = "idle"
    /\ UNCHANGED <<run, conf, attempt, failed, progress, rowsWritten, database,
                   files, history>>

-----------------------------------------------------------------------------
\* An exception anywhere but in send_telegram_message, which raises none.
StepRaises ==
    /\ step \notin {"idle", "telegram"}
    /\ Raise

\* The process of the task is killed, and bcp with it: nothing cleans up.
Killed ==
    /\ step # "idle"
    /\ AttemptFails
    /\ UNCHANGED files

Proceed ==
    \/ EnsureTableExists \/ ResetTable
    \/ GenerateRows \/ ZeroBatch \/ StartBcp \/ PushXComs
    \/ ValidateRowCount \/ TooFewRows
    \/ CreateIndex \/ UpdateStatistics
    \/ RecordRun \/ SendTelegramMessage

Next ==
    \/ Trigger
    \/ Proceed
    \/ BcpBatch \/ BcpExits \/ BcpTimeout
    \/ StepRaises \/ Killed

Spec == BulkInit /\ [][Next]_vars

\* The scheduler carries on with what it started: statements give up on a
\* lock after ten seconds (LOCK_TIMEOUT) and the file is written locally.  bcp
\* itself may hang for ever; its timeout does not.
FairSpec == Spec /\ WF_vars(Proceed) /\ WF_vars(BcpTimeout)

-----------------------------------------------------------------------------
(***************************************************************************)
(* Properties                                                              *)
(***************************************************************************)

\* Every variable keeps its type; no task is tried more than twice.
BulkTypeOK ==
    /\ run \in 0..MaxRuns /\ conf \in Conf
    /\ step \in Step /\ attempt \in 0..Retries /\ failed \subseteq Task
    /\ written \in Nat /\ loaded \in Nat /\ skipped \in 0..MaxSkipped
    /\ statement \in 1..4
    /\ rowsWritten \in Nat
    /\ created \in BOOLEAN /\ table \subseteq Row /\ indexes \subseteq Index
    /\ files \subseteq Run
    /\ history \in Seq(Line) /\ messages \subseteq Run

\* order_history_fact never holds an order twice: neither a retry after a
\* load that broke off half way nor another run adds to what is there (the
\* TRUNCATE of generate_and_load, and why it replaced a DELETE by batch).
NoOrderTwice ==
    \A r, q \in table : r.seq = q.seq => r = q

\* bcp never loads into a table with a secondary index, which would make
\* the load fully logged, whichever attempt of whichever run built it
\* (PRE_LOAD_DROP_INDEXES_SQL).
LoadsUnindexed ==
    step = "bcp" => indexes = {}

\* The rows that a run asks for: none, if total_rows is not positive.
Asked == IF conf.total_rows > 0 THEN conf.total_rows ELSE 0

\* A run that the history reports as a success has left exactly the rows it
\* asked for, each once and all of its own batch, and every index: no
\* failed, killed or retried attempt and no line that bcp skipped is passed
\* off as a complete load.
SuccessIsWhole ==
    \A k \in DOMAIN history :
        history[k].run = run /\ history[k].status = "success" =>
            /\ {<<r.load_batch_id, r.seq>> : r \in table}
                  = {run} \X (0..(Asked - 1))
            /\ Cardinality(table) = Asked
            /\ history[k].rows = Asked
            /\ indexes = Index

\* Every run that starts ends up in the history, whatever fails and however
\* long bcp hangs (the docstring of notify_completion, "so there's always a
\* message"), unless notify_completion itself fails twice, or rows are asked
\* for in batches of a negative size, which generate_rows never leaves off.
NeverGenerated == conf.total_rows > 0 /\ conf.batch_size < 0
RunsAreReported ==
    \A r \in Run :
        (run = r /\ step # "idle") ~>
            \/ \E k \in DOMAIN history : history[k].run = r
            \/ run = r /\ "notify_completion" \in failed
            \/ run = r /\ NeverGenerated
=============================================================================
