------------------------------ MODULE MCMtDebug ------------------------------
(* Instances of MtDebug for TLC: the programs of the tests.                *)
EXTENDS MtDebug, TLC

CONSTANTS t1, t2, t3

Makes(n, end) == [accesses |-> n, writer |-> NULL, sees |-> "writer_done", end |-> end]

Reads(n, w, sees) == [accesses |-> n, writer |-> w, sees |-> sees, end |-> "return"]

(* mt_insert: every thread inserts.  mt_insert_scan and mt_insert_succ: a  *)
(* thread iterates until the writer has set writer_done.                   *)
InsertTests ==
  {t1 :> Makes(1, "ct_mtdbg_thread_done") @@ t2 :> Makes(2, "ct_mtdbg_thread_done")
   @@ t3 :> Makes(1, "ct_mtdbg_thread_done"),
   t1 :> Makes(3, "ct_mtdbg_thread_done") @@ t2 :> Reads(0, t1, "writer_done")}

(* mt_insert_lookup: the reader looks for the last key, then for all keys. *)
LookupTest == {t1 :> Makes(2, "ct_mtdbg_set_enabled") @@ t2 :> Reads(1, t1, "last_key")}

AllTests == InsertTests \cup LookupTest
=============================================================================
