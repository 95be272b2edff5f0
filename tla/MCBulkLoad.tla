----------------------------- MODULE MCBulkLoad -----------------------------
(***************************************************************************)
(* Two runs of the DAG.  Three rows in batches of two give a full and a    *)
(* partial batch, so a load can break off after nothing, half and all; a   *)
(* batch size of three gives the load of one batch, one of zero the        *)
(* division by zero, a negative one the loop that does not end; a negative *)
(* number of rows gives an empty file.  One line may be skipped by bcp.    *)
(***************************************************************************)
EXTENDS BulkLoad

MCTotalRows == {-1, 2, 3}
MCBatchSize == {-1, 0, 2, 3}
=============================================================================
