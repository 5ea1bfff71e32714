---------------------------- MODULE MCUserAccounts ----------------------------
(* Three requests for one email: one through api-service and two through     *)
(* auth-service, one of which typed a password with outer whitespace.        *)
EXTENDS UserAccounts

CONSTANTS u1, a1, a2, mail, plain, padded

MCRequest == {u1, a1, a2}
MCEmail == [r \in MCRequest |-> mail]
MCPassword == [r \in MCRequest |-> IF r = a2 THEN padded ELSE plain]
MCActive == [r \in MCRequest |-> r # a1]
MCStrip == [p \in {plain, padded} |-> plain]
=============================================================================
