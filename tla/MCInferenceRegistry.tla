------------------------- MODULE MCInferenceRegistry -------------------------
(* Two processes, the two models of the catalogue with the limits it shows,  *)
(* and one more model.                                                       *)
EXTENDS InferenceRegistry

CONSTANTS classifier, analyzer, other, p1, p2

MCCatalogue == [m \in {classifier, analyzer} |-> IF m = classifier THEN 32 ELSE 64]
=============================================================================
