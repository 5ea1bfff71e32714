---------------------------- MODULE MCCeleryWorker ----------------------------
(* A RetryTask and the plain health_check task, each in its queue, and two   *)
(* pool processes, which the plain task may kill any number of times.        *)
EXTENDS CeleryWorker

CONSTANTS infer, check, inference, default, w1, w2

MCRoute == [t \in {infer, check} |-> IF t = infer THEN inference ELSE default]
=============================================================================
