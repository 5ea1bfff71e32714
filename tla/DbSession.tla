------------------------------ MODULE DbSession ------------------------------
(***************************************************************************)
(* One HTTP request that owns a PostgreSQL session.                        *)
(*                                                                         *)
(* api-service gives a handler its session through the dependency          *)
(* get_db_session: the code before the yield opens it, the code after the  *)
(* yield commits it or, on an exception, rolls it back and re-raises.      *)
(* auth-service opens the session in the handler itself and calls commit   *)
(* there.  The module models the control of such a request, for every      *)
(* request at once: what the handler decided, what became of its           *)
(* transaction, and what the client was told.  The modules of the          *)
(* components extend it and say what each handler reads and writes.        *)
(*                                                                         *)
(* When the code after a yield runs is decided by the FastAPI release, and *)
(* the requirement fastapi>=0.115,<1.0 admits both: before the response is *)
(* sent (up to 0.117) or after it (from 0.118).  EarlyCommit is the set of *)
(* requests served in the first way.                                       *)
(***************************************************************************)
EXTENDS Integers

CONSTANTS
    Request,      \* the requests of a run
    EarlyCommit,  \* those whose transaction ends before the response is sent
    OwnCommit,    \* those of auth-service: commit and read-back in the handler
    Faulty        \* those during which a store, the network or the process may fail

ASSUME SessionAssumption ==
    /\ EarlyCommit \subseteq Request
    /\ OwnCommit \subseteq EarlyCommit
    /\ Faulty \subseteq Request

VARIABLES
    pc,     \* pc[r]: how far request r is
    tx,     \* tx[r]: its transaction, as PostgreSQL sees it
    code,   \* code[r]: the status the service is going to answer
    reply   \* reply[r]: the status it has sent, NoReply before

svars == <<pc, tx, code, reply>>

NoReply == 0
Success == {200, 201, 202, 204}
Refusal == {404, 409}                 \* a BaseServiceError raised by a handler
Unhandled == 500                      \* every other exception
Status == Success \cup Refusal \cup {Unhandled}

(* "open" has read only, "writing" holds row or index locks, and "indoubt"  *)
(* is a COMMIT sent over a connection that broke before its answer came.   *)
Unresolved == {"open", "writing", "indoubt"}

SInit ==
    /\ pc = [r \in Request |-> "idle"]
    /\ tx = [r \in Request |-> "none"]
    /\ code = [r \in Request |-> NoReply]
    /\ reply = [r \in Request |-> NoReply]

-----------------------------------------------------------------------------
(* The request is routed and its handler starts. *)
Begin(r) ==
    /\ pc[r] = "idle"
    /\ pc' = [pc EXCEPT ![r] = "running"]
    /\ UNCHANGED <<tx, code, reply>>

(* The first statement takes a connection from the pool and sends BEGIN. *)
Connect(r) ==
    /\ pc[r] = "running"
    /\ tx[r] = "none"
    /\ tx' = [tx EXCEPT ![r] = "open"]
    /\ UNCHANGED <<pc, code, reply>>

(* The point at which the session is committed: the handler has returned   *)
(* and, in a late-committing request, the response is out.                 *)
AtCommit(r) ==
    /\ pc[r] = "returned"
    /\ r \in EarlyCommit \/ reply[r] # NoReply

(* An INSERT or UPDATE, sent by a flush of the handler or of the commit. *)
Write(r) ==
    /\ pc[r] = "running" \/ AtCommit(r)
    /\ tx[r] = "open"
    /\ tx' = [tx EXCEPT ![r] = "writing"]
    /\ UNCHANGED <<pc, code, reply>>

(* The handler returns with status c. *)
Return(r, c) ==
    /\ pc[r] = "running"
    /\ tx[r] # "none"
    /\ pc' = [pc EXCEPT ![r] = "returned"]
    /\ code' = [code EXCEPT ![r] = c]
    /\ UNCHANGED <<tx, reply>>

(* The handler raises.  A refusal is decided on what the session has read. *)
Raise(r, c) ==
    /\ pc[r] = "running"
    /\ c \in Refusal => tx[r] # "none"
    /\ pc' = [pc EXCEPT ![r] = "raised"]
    /\ code' = [code EXCEPT ![r] = c]
    /\ UNCHANGED <<tx, reply>>

(* Variant: the response is sent before the commit in every build. *)
AnswerAtReturn(r) ==
    /\ reply[r] = NoReply
    /\ pc[r] = "returned"
    /\ reply' = [reply EXCEPT ![r] = code[r]]
    /\ UNCHANGED <<pc, tx, code>>

(* The response of a request whose handler returned. *)
Answer(r) ==
    /\ reply[r] = NoReply
    /\ \/ /\ pc[r] = "committed"
          /\ pc' = [pc EXCEPT ![r] = "done"]
       \/ /\ pc[r] = "returned" /\ r \notin EarlyCommit
          /\ pc' = pc
    /\ reply' = [reply EXCEPT ![r] = code[r]]
    /\ UNCHANGED <<tx, code>>

(* COMMIT succeeds and says so. *)
CommitOk(r) ==
    /\ AtCommit(r)
    /\ tx[r] \in {"open", "writing"}
    /\ tx' = [tx EXCEPT ![r] = "committed"]
    /\ pc' = [pc EXCEPT ![r] = IF reply[r] = NoReply THEN "committed" ELSE "done"]
    /\ UNCHANGED <<code, reply>>

(* Variant: a database error is answered as a DatabaseError (503). *)
CommitFailsAs503(r) ==
    /\ AtCommit(r)
    /\ pc' = [pc EXCEPT ![r] = "raised"]
    /\ code' = [code EXCEPT ![r] = 503]
    /\ UNCHANGED <<tx, reply>>

(* The flush or the COMMIT raises and has had no effect. *)
CommitFails(r) ==
    /\ AtCommit(r)
    /\ tx[r] \notin {"indoubt", "committed"}
    /\ pc' = [pc EXCEPT ![r] = "raised"]
    /\ code' = [code EXCEPT ![r] = Unhandled]
    /\ UNCHANGED <<tx, reply>>

(* Variant: commit() waits for the answer without a limit of time. *)
CommitLostUnnoticed(r) ==
    /\ r \in Faulty
    /\ AtCommit(r)
    /\ tx[r] \in {"open", "writing"}
    /\ tx' = [tx EXCEPT ![r] = "indoubt"]
    /\ UNCHANGED <<pc, code, reply>>

(* The connection breaks while COMMIT is under way: commit() raises, and   *)
(* PostgreSQL may still apply it, now or later (Resolve).                  *)
CommitLost(r) ==
    /\ r \in Faulty
    /\ AtCommit(r)
    /\ tx[r] \in {"open", "writing"}
    /\ tx' = [tx EXCEPT ![r] = "indoubt"]
    /\ pc' = [pc EXCEPT ![r] = "raised"]
    /\ code' = [code EXCEPT ![r] = Unhandled]
    /\ UNCHANGED reply

(* auth-service reads the row back after its commit; that may fail. *)
ReadBackFails(r) ==
    /\ r \in Faulty \cap OwnCommit
    /\ pc[r] = "committed"
    /\ pc' = [pc EXCEPT ![r] = "raised"]
    /\ code' = [code EXCEPT ![r] = Unhandled]
    /\ UNCHANGED <<tx, reply>>

(* Exception path of the dependency: rollback, then re-raise.  Once the    *)
(* response is out nothing more can be sent.                               *)
AfterRollback(r) == IF reply[r] = NoReply THEN "failing" ELSE "done"

(* Variant: the dependency re-raises without rolling back, and leaves the  *)
(* session open.                                                           *)
ReraiseOnly(r) ==
    /\ pc[r] = "raised"
    /\ pc' = [pc EXCEPT ![r] = AfterRollback(r)]
    /\ UNCHANGED <<tx, code, reply>>

Rollback(r) ==
    /\ pc[r] = "raised"
    /\ tx' = [tx EXCEPT ![r] = IF @ \in {"open", "writing"} THEN "aborted" ELSE @]
    /\ pc' = [pc EXCEPT ![r] = AfterRollback(r)]
    /\ UNCHANGED <<code, reply>>

(* The rollback raises in its turn and its exception replaces the first;   *)
(* the transaction is left to PostgreSQL.                                  *)
RollbackFails(r) ==
    /\ r \in Faulty
    /\ pc[r] = "raised"
    /\ pc' = [pc EXCEPT ![r] = AfterRollback(r)]
    /\ code' = [code EXCEPT ![r] = Unhandled]
    /\ UNCHANGED <<tx, reply>>

(* Variant: the error is answered before the rollback. *)
AnswerErrorFirst(r) ==
    /\ pc[r] \in {"raised", "failing"} /\ reply[r] = NoReply
    /\ reply' = [reply EXCEPT ![r] = code[r]]
    /\ pc' = [pc EXCEPT ![r] = IF pc[r] = "failing" THEN "done" ELSE @]
    /\ UNCHANGED <<tx, code>>

(* The exception handlers turn the exception into a response; where no     *)
(* handler maps it, as in auth-service, Starlette answers 500 itself.      *)
AnswerError(r) ==
    /\ pc[r] = "failing"
    /\ reply' = [reply EXCEPT ![r] = code[r]]
    /\ pc' = [pc EXCEPT ![r] = "done"]
    /\ UNCHANGED <<tx, code>>

(* The process serving r is killed. *)
Crash(r) ==
    /\ r \in Faulty
    /\ pc[r] \notin {"idle", "done", "dead"}
    /\ pc' = [pc EXCEPT ![r] = "dead"]
    /\ UNCHANGED <<tx, code, reply>>

(* Variant: no time limit ends the transaction of an abandoned session. *)
ReapDrivenOnly(r) ==
    /\ r \in Faulty
    /\ pc[r] \notin {"done", "dead"}
    /\ tx[r] \in {"open", "writing"}
    /\ tx' = [tx EXCEPT ![r] = "aborted"]
    /\ UNCHANGED <<pc, code, reply>>

(* PostgreSQL ends a transaction on its own: the connection is gone, the   *)
(* session sat idle in its transaction too long, or the server failed over. *)
Reap(r) ==
    /\ r \in Faulty
    /\ tx[r] \in {"open", "writing"}
    /\ tx' = [tx EXCEPT ![r] = "aborted"]
    /\ UNCHANGED <<pc, code, reply>>

(* The fate of a COMMIT whose answer was lost. *)
Resolve(r) ==
    /\ tx[r] = "indoubt"
    /\ \E fate \in {"committed", "aborted"} : tx' = [tx EXCEPT ![r] = fate]
    /\ UNCHANGED <<pc, code, reply>>

-----------------------------------------------------------------------------
(* What every handler goes through once it has decided. *)
Finish(r) ==
    \/ Answer(r) \/ CommitOk(r) \/ CommitFails(r) \/ CommitLost(r)
    \/ ReadBackFails(r) \/ Rollback(r) \/ RollbackFails(r) \/ AnswerError(r)

Handle(r) ==
    \/ Connect(r)
    \/ Write(r)
    \/ \E c \in Success : Return(r, c)
    \/ \E c \in Refusal \cup {Unhandled} : Raise(r, c)

Database(r) == Reap(r) \/ Resolve(r)

SNext == \E r \in Request :
    Begin(r) \/ Handle(r) \/ Finish(r) \/ Crash(r) \/ Database(r)

(* The event loop runs every request it has started; PostgreSQL ends the   *)
(* transaction of a session that nobody drives any more.                   *)
Abandoned(r) == pc[r] \in {"done", "dead"}

SFairness == \A r \in Request :
    /\ WF_svars(Handle(r) \/ Finish(r))
    /\ WF_svars(Abandoned(r) /\ Reap(r))
    /\ WF_svars(Resolve(r))

SessionSafe == SInit /\ [][SNext]_svars
SessionSpec == SessionSafe /\ SFairness

-----------------------------------------------------------------------------
(* Every variable keeps its type. *)
SessionTypeOK ==
    /\ pc \in [Request -> {"idle", "running", "returned", "committed",
                           "raised", "failing", "done", "dead"}]
    /\ tx \in [Request -> {"none", "committed", "aborted"} \cup Unresolved]
    /\ code \in [Request -> Status \cup {NoReply}]
    /\ reply \in [Request -> Status \cup {NoReply}]

(* What a client is told can be relied on: a success answered by an        *)
(* early-committing request is in the database (get_db_session commits     *)
(* before the response), and a request answered with a refusal has left    *)
(* nothing there and never will (it was rolled back first).                *)
ReplyIsTruthful == \A r \in Request :
    /\ r \in EarlyCommit /\ reply[r] \in Success => tx[r] = "committed"
    /\ reply[r] \in Refusal => tx[r] = "aborted"

(* Only a request that can meet a fault may end with its transaction still *)
(* unresolved, and then either its process died or its client was not told *)
(* of a refusal: the locks of every other request are gone with it.        *)
EndsResolved == \A r \in Request :
    pc[r] = "done" /\ tx[r] \in Unresolved =>
        r \in Faulty /\ reply[r] \notin Refusal

(* Every request that is started comes to an end, by a response or by the  *)
(* death of its process, whatever breaks: no statement, COMMIT or rollback *)
(* is awaited for ever (postgres.py:64-70).                                *)
EveryRequestEnds == \A r \in Request :
    pc[r] = "running" ~> pc[r] \in {"done", "dead"}

(* No transaction, and so no lock, outlives its request for ever, not even *)
(* when the process died or the connection broke at the worst moment.      *)
LocksAreReleased == \A r \in Request :
    tx[r] \in Unresolved ~> tx[r] \notin Unresolved

-----------------------------------------------------------------------------
(* What the session promises, without its steps. *)
Effect == [r \in Request |->
    CASE tx[r] = "committed" -> "kept"
      [] tx[r] = "aborted" -> "dropped"
      [] OTHER -> "undecided"]

Outcome == INSTANCE RequestOutcome WITH effect <- Effect
OutcomeSpec == Outcome!Spec
=============================================================================
