----------------------------- MODULE AccountBook -----------------------------
(***************************************************************************)
(* What the sign-up endpoints promise, with no session, no check and no    *)
(* index in view.  An account is entered in one step, if its email is      *)
(* free, and stays as it was entered.  A client is answered once, and the  *)
(* answer is true when given: 201 from a request that commits first means  *)
(* that its account is in the book, 409 that another has the email.  Every *)
(* other answer promises nothing, and the account may appear after it.     *)
(***************************************************************************)
CONSTANTS
    Request, EarlyCommit,  \* the requests, and those that commit first
    Account,               \* Account[r]: the account that r asks for
    Status, NoReply

VARIABLES book, told

vars == <<book, told>>

Init ==
    /\ book = {}
    /\ told = [r \in Request |-> NoReply]

EmailInUse(r) == \E a \in book : a.email = Account[r].email

Enter(r) ==
    /\ ~ EmailInUse(r)
    /\ book' = book \cup {Account[r]}
    /\ UNCHANGED told

Tell(r, c) ==
    /\ told[r] = NoReply
    /\ c = 201 /\ r \in EarlyCommit => Account[r] \in book
    /\ c = 409 => EmailInUse(r) /\ Account[r] \notin book
    /\ told' = [told EXCEPT ![r] = c]
    /\ UNCHANGED book

Next == \E r \in Request : Enter(r) \/ \E c \in Status : Tell(r, c)

Spec == Init /\ [][Next]_vars
=============================================================================
