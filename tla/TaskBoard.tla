------------------------------ MODULE TaskBoard ------------------------------
(***************************************************************************)
(* What the task endpoints promise, with no session, lock or flush in      *)
(* view: a board of tasks.  A task is posted once, and from then on can    *)
(* only be struck out, by cancellations that saw it open, the last of      *)
(* which leaves its mark.  Every reader looks once, at the board as it     *)
(* then is, and is answered from what it saw; a request that was refused   *)
(* has written nothing and never will; one answered 500 may have, and may  *)
(* do so after its answer.                                                 *)
(***************************************************************************)
CONSTANTS
    Create, Cancel, Get, Target,  \* the requests, and the task each names
    EarlyCommit,                  \* those that commit before they answer
    Refusal, NoReply, None

VARIABLES
    row,     \* row[t]: the task on the board, and who struck it out last
    seen,    \* seen[r]: the status r has looked at
    struck,  \* the cancellations whose strike is on the board
    told     \* told[r]: the answer r was given

vars == <<row, seen, struck, told>>

Init ==
    /\ row = [t \in Create |-> [status |-> "absent", completed |-> None]]
    /\ seen = [r \in Cancel \cup Get |-> "unread"]
    /\ struck = {}
    /\ told = [r \in Create \cup Cancel \cup Get |-> NoReply]

Post(t) ==
    /\ row[t].status = "absent"
    /\ told[t] \notin Refusal
    /\ row' = [row EXCEPT ![t] = [status |-> "pending", completed |-> None]]
    /\ UNCHANGED <<seen, struck, told>>

Look(r) ==
    /\ seen[r] = "unread"
    /\ told[r] = NoReply
    /\ seen' = [seen EXCEPT ![r] = row[Target[r]].status]
    /\ UNCHANGED <<row, struck, told>>

Strike(r) ==
    /\ seen[r] = "pending"
    /\ r \notin struck
    /\ told[r] \notin Refusal
    /\ row' = [row EXCEPT ![Target[r]] = [status |-> "cancelled", completed |-> r]]
    /\ struck' = struck \cup {r}
    /\ UNCHANGED <<seen, told>>

(* What r may be told, and when: an early answer comes after the write.    *)
MayTell(r, c) ==
    \/ c = 500
    \/ /\ r \in Create /\ c = 201
       /\ r \in EarlyCommit => row[r].status # "absent"
    \/ /\ r \in Cancel \cup Get /\ c = 404
       /\ seen[r] = "absent"
    \/ /\ r \in Get /\ c = 200
       /\ seen[r] \in {"pending", "cancelled"}
    \/ /\ r \in Cancel /\ c = 204
       /\ seen[r] \in {"pending", "cancelled"}
       /\ r \in EarlyCommit /\ seen[r] = "pending" => r \in struck

Tell(r, c) ==
    /\ told[r] = NoReply
    /\ MayTell(r, c)
    /\ told' = [told EXCEPT ![r] = c]
    /\ UNCHANGED <<row, seen, struck>>

Next ==
    \/ \E t \in Create : Post(t)
    \/ \E r \in Cancel \cup Get : Look(r)
    \/ \E r \in Cancel : Strike(r)
    \/ \E r \in Create \cup Cancel \cup Get, c \in {200, 201, 204, 404, 500} : Tell(r, c)

Spec == Init /\ [][Next]_vars
=============================================================================
