----------------------------- MODULE MCTaskStore -----------------------------
(* One task, created, cancelled twice and read at once.  The creation and    *)
(* the first cancellation may meet any fault; every session commits first.   *)
EXTENDS TaskStore

CONSTANTS t1, c1, c2, g1, known, fresh

MCRequest == {t1, c1, c2, g1}
MCTarget == [r \in {c1, c2, g1} |-> t1]
=============================================================================
