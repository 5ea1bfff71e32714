----------------------------- MODULE MCApiProcess -----------------------------
(* Two requests and /ready compete for a pool of one connection.             *)
EXTENDS ApiProcess

CONSTANTS r1, r2
=============================================================================
