---------------------------- MODULE RequestOutcome ----------------------------
(***************************************************************************)
(* What a request to the API promises its client, with no session in view. *)
(* Its effect on the database is decided once, and so is its answer.  They *)
(* are related by the status class: a success of an early-committing       *)
(* request has been kept, a refusal has been dropped, and an unhandled     *)
(* error (500) promises nothing: its effect may even appear later.         *)
(***************************************************************************)
CONSTANTS Request, EarlyCommit, Success, Refusal, Status, NoReply

VARIABLES effect, reply

vars == <<effect, reply>>

Init ==
    /\ effect = [r \in Request |-> "undecided"]
    /\ reply = [r \in Request |-> NoReply]

(* The effect of r is decided; not against what its client has been told. *)
Keep(r) ==
    /\ effect[r] = "undecided"
    /\ reply[r] \notin Refusal
    /\ effect' = [effect EXCEPT ![r] = "kept"]
    /\ UNCHANGED reply

Drop(r) ==
    /\ effect[r] = "undecided"
    /\ r \in EarlyCommit => reply[r] \notin Success
    /\ effect' = [effect EXCEPT ![r] = "dropped"]
    /\ UNCHANGED reply

(* The client of r is told c. *)
Tell(r, c) ==
    /\ reply[r] = NoReply
    /\ c \in Success /\ r \in EarlyCommit => effect[r] = "kept"
    /\ c \in Refusal => effect[r] = "dropped"
    /\ reply' = [reply EXCEPT ![r] = c]
    /\ UNCHANGED effect

Next == \E r \in Request :
    Keep(r) \/ Drop(r) \/ \E c \in Status : Tell(r, c)

Spec == Init /\ [][Next]_vars
=============================================================================
