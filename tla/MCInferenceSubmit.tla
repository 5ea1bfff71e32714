-------------------------- MODULE MCInferenceSubmit --------------------------
(* Two submissions: r1 may meet any fault, r2 none.  The owner id that is    *)
(* drawn is that of a user (known) or of nobody (fresh).                     *)
EXTENDS InferenceSubmit

CONSTANTS r1, r2, known, fresh
=============================================================================
