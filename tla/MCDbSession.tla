----------------------------- MODULE MCDbSession -----------------------------
(* Two independent requests: one that commits before it answers, in its own  *)
(* handler, and one that answers before it commits.  Both may meet faults.   *)
EXTENDS DbSession

CONSTANTS r1, r2

MCRequest == {r1, r2}
MCEarlyCommit == {r1}
MCOwnCommit == {r1}
MCFaulty == {r1, r2}
=============================================================================
