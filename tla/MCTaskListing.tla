---------------------------- MODULE MCTaskListing ----------------------------
(* Pages of two over four tasks, which may all have a created_at of their    *)
(* own, or share it, and commit in any order.                                *)
EXTENDS TaskListing, TLC

CONSTANTS t1, t2, t3, t4

Symmetry == Permutations(Task)
=============================================================================
