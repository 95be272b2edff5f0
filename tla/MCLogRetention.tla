--------------------------- MODULE MCLogRetention ---------------------------
(***************************************************************************)
(* A cap of two rows, a batch of two and a retention of two hours: six     *)
(* rows are more than the cap and a batch, so a burst outlives a run, and  *)
(* rows expire before, while and after they are trimmed.  Three failures   *)
(* are a run whose two attempts fail and one more.                         *)
(***************************************************************************)
EXTENDS LogRetention
=============================================================================
