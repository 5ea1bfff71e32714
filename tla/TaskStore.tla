------------------------------ MODULE TaskStore ------------------------------
(***************************************************************************)
(* create_task, get_task and cancel_task of api-service over the tasks     *)
(* table.                                                                  *)
(*                                                                         *)
(* A cancellation reads the task when its handler runs and writes it only  *)
(* when its session ends: the assignments to the ORM object are flushed by *)
(* the commit of get_db_session, as an UPDATE by primary key that waits    *)
(* for the row lock of any other writer and does not look at the status    *)
(* again.  A task is named after the request that creates it, and a        *)
(* completion time after the request that stamped it.                      *)
(***************************************************************************)
EXTENDS DbSession

CONSTANTS
    Create, Cancel, Get,  \* the requests, by endpoint
    Target,               \* Target[r]: the task a cancellation or a get names
    OwnerId, Users,       \* placeholder owners that may be drawn; rows of users
    None                  \* completed_at before it is set

ASSUME TaskStoreAssumption ==
    /\ Request = Create \cup Cancel \cup Get
    /\ Create \cap Cancel = {} /\ Create \cap Get = {} /\ Cancel \cap Get = {}
    /\ Target \in [Cancel \cup Get -> Create]
    /\ OwnCommit = {}
    /\ None \notin Request

VARIABLES
    row,  \* row[t]: the committed row of task t
    saw   \* saw[r]: the status a cancellation or a get has read

vars == <<svars, row, saw>>

Cancellable == {"pending", "processing"}
TaskStatus == Cancellable \cup {"completed", "failed", "cancelled"}

NoRow == [status |-> "absent", completed |-> None]

Init ==
    /\ SInit
    /\ row = [t \in Create |-> NoRow]
    /\ saw = [r \in Cancel \cup Get |-> "unread"]

-----------------------------------------------------------------------------
Receive(r) ==
    /\ Begin(r) \/ Connect(r)
    /\ UNCHANGED <<row, saw>>

(* create_task: db.add, flush, refresh.  The owner must be a row of users. *)
InsertTask(r) ==
    /\ r \in Create
    /\ pc[r] = "running"
    /\ \E owner \in OwnerId : owner \in Users
    /\ Write(r)
    /\ UNCHANGED <<row, saw>>

OwnerUnknown(r) ==
    /\ r \in Create
    /\ tx[r] = "open"
    /\ \E owner \in OwnerId : owner \notin Users
    /\ Raise(r, Unhandled)
    /\ UNCHANGED <<row, saw>>

Created(r) ==
    /\ r \in Create
    /\ tx[r] = "writing"
    /\ Return(r, 201)
    /\ UNCHANGED <<row, saw>>

(* Variants: a terminal task is reported as missing; the task is served    *)
(* from a copy made when it was created.                                   *)
ReadLiveTask(r) ==
    /\ r \in Cancel \cup Get
    /\ tx[r] = "open"
    /\ saw' = [saw EXCEPT ![r] = row[Target[r]].status]
    /\ IF saw'[r] \notin Cancellable
         THEN Raise(r, 404)
         ELSE Return(r, IF r \in Cancel THEN 204 ELSE 200)
    /\ UNCHANGED row

ReadCopy(r) ==
    /\ r \in Cancel \cup Get
    /\ tx[r] = "open"
    /\ row[Target[r]].status # "absent"
    /\ saw' = [saw EXCEPT ![r] = "pending"]
    /\ Return(r, IF r \in Cancel THEN 204 ELSE 200)
    /\ UNCHANGED row

(* The SELECT that get_task and cancel_task start with, and the handler up *)
(* to its end: 404, or the status of the row it has read.                  *)
ReadTask(r) ==
    /\ r \in Cancel \cup Get
    /\ tx[r] = "open"
    /\ saw' = [saw EXCEPT ![r] = row[Target[r]].status]
    /\ IF saw'[r] = "absent"
         THEN Raise(r, 404)
         ELSE Return(r, IF r \in Cancel THEN 204 ELSE 200)
    /\ UNCHANGED row

StatementFails(r) ==
    /\ r \in Faulty
    /\ Raise(r, Unhandled)
    /\ UNCHANGED <<row, saw>>

-----------------------------------------------------------------------------
(* Variants: only a task that has been picked up is cancelled; a terminal  *)
(* one is cancelled again.                                                 *)
IsProcessing(r) == r \in Cancel /\ saw[r] = "processing"

IsFound(r) == r \in Cancel /\ saw[r] \in TaskStatus

(* The handler of r has assigned status and completed_at. *)
IsDirty(r) == r \in Cancel /\ saw[r] \in Cancellable

LockedByOther(r) == \E q \in Cancel \ {r} :
    Target[q] = Target[r] /\ tx[q] \in {"writing", "indoubt"}

(* The flush that precedes COMMIT. *)
FlushCancel(r) ==
    /\ IsDirty(r)
    /\ ~ LockedByOther(r)
    /\ AtCommit(r)
    /\ Write(r)
    /\ UNCHANGED <<row, saw>>

(* The UPDATE of r waits for a row that another cancellation has written.  *)
WaitsForRow(r) ==
    /\ IsDirty(r)
    /\ LockedByOther(r)
    /\ AtCommit(r)
    /\ tx[r] = "open"

(* lock_timeout: it gives up. *)
LockTimeout(r) ==
    /\ WaitsForRow(r)
    /\ CommitFails(r)
    /\ UNCHANGED <<row, saw>>

Flushed(r) == IsDirty(r) => tx[r] # "open"

(* Variant: a status outside the enumeration. *)
PublishMisspelt(r) ==
    row' = IF tx'[r] = "committed" /\ IsDirty(r)
           THEN [row EXCEPT ![Target[r]] = [status |-> "canceled", completed |-> r]]
           ELSE IF tx'[r] = "committed" /\ r \in Create
           THEN [row EXCEPT ![r] = [status |-> "pending", completed |-> None]]
           ELSE row

(* What the transaction of r does to the table when it is committed. *)
Publish(r) ==
    IF tx'[r] # "committed" THEN UNCHANGED row
    ELSE \/ /\ r \in Create
            /\ row' = [row EXCEPT ![r] = [status |-> "pending", completed |-> None]]
         \/ /\ IsDirty(r)
            /\ row' = [row EXCEPT ![Target[r]] = [status |-> "cancelled", completed |-> r]]
         \/ r \notin Create /\ ~ IsDirty(r) /\ UNCHANGED row

Commit(r) ==
    /\ Flushed(r)
    /\ CommitOk(r) \/ CommitLost(r)
    /\ Publish(r)
    /\ UNCHANGED saw

CommitLate(r) ==
    /\ Resolve(r)
    /\ Publish(r)
    /\ UNCHANGED saw

EndSession(r) ==
    /\ \/ Answer(r) \/ (r \in Faulty /\ CommitFails(r))
       \/ Rollback(r) \/ RollbackFails(r) \/ AnswerError(r)
    /\ UNCHANGED <<row, saw>>

Fault(r) ==
    /\ Crash(r) \/ Reap(r)
    /\ UNCHANGED <<row, saw>>

-----------------------------------------------------------------------------
Step(r) ==
    \/ Receive(r) \/ InsertTask(r) \/ OwnerUnknown(r) \/ Created(r)
    \/ ReadTask(r) \/ StatementFails(r)
    \/ FlushCancel(r) \/ LockTimeout(r) \/ Commit(r) \/ EndSession(r)

Next == \E r \in Request : Step(r) \/ CommitLate(r) \/ Fault(r)

(* Requests are driven by the event loop, abandoned transactions are ended *)
(* by PostgreSQL.  Nothing relies on LockTimeout: a request that waits for *)
(* a row has no step that must happen.                                     *)
Fairness == \A r \in Request :
    /\ WF_vars(pc[r] # "idle" /\ ~ WaitsForRow(r) /\ Step(r))
    /\ WF_vars(CommitLate(r))
    /\ WF_vars(Abandoned(r) /\ Fault(r))

Safe == Init /\ [][Next]_vars
Spec == Safe /\ Fairness

-----------------------------------------------------------------------------
TypeOK ==
    /\ SessionTypeOK
    /\ row \in [Create -> [status : TaskStatus \cup {"absent"},
                           completed : Cancel \cup {None}]]
    /\ saw \in [Cancel \cup Get -> TaskStatus \cup {"absent", "unread"}]

(* A client that was answered 204 by a session that commits first finds    *)
(* its task cancelled, however many cancellations ran beside it and        *)
(* whichever of them failed.                                               *)
NoContentMeansCancelled == \A r \in Cancel \cap EarlyCommit :
    reply[r] = 204 => row[Target[r]].status = "cancelled"

(* A cancelled task is touched by one thing only: a second cancellation    *)
(* that had read it as pending, before the first was committed, and is     *)
(* committed after it.  That one stamps it anew; a cancellation that reads *)
(* later finds the task terminal (tasks.py:164) and leaves it alone, and   *)
(* no late COMMIT takes the task back to pending.                          *)
StampMovesByStaleReader == [][\A t \in Create :
    row[t].status = "cancelled" /\ row'[t] # row[t] =>
        \E c \in Cancel :
            /\ Target[c] = t /\ saw[c] = "pending"
            /\ c # row[t].completed
            /\ row'[t] = [status |-> "cancelled", completed |-> c]]_vars

(* Nobody is told 404 about a task whose creation was already answered     *)
(* 201 by a session that commits first.                                    *)
CreatedIsFound == [][\A r \in Cancel \cup Get :
    code[r] # 404 /\ code'[r] = 404 =>
        ~ (Target[r] \in EarlyCommit /\ reply[Target[r]] = 201)]_vars

(* A request that meets no fault of its own is answered, even behind a row *)
(* lock whose holder died: not because it gives up (LockTimeout is not     *)
(* fair), but because PostgreSQL ends the transaction of the dead holder   *)
(* (init-postgres.sh:42) or decides its COMMIT.                            *)
FaultFreeIsAnswered == \A r \in Request \ Faulty :
    pc[r] = "running" ~> pc[r] = "done" /\ reply[r] # NoReply

(* tasks.py:165, "Already terminal": a terminal task is left as it is.     *)
CompletedAtWrittenOnce == [][\A t \in Create :
    row[t].status = "cancelled" => row'[t] = row[t]]_vars

-----------------------------------------------------------------------------
(* The cancellations whose UPDATE is in the table. *)
Struck == {r \in Cancel : IsDirty(r) /\ tx[r] = "committed"}

(* The endpoints together keep a board of tasks (TaskBoard): although each *)
(* cancellation reads in one step and writes in another, with others in    *)
(* between, a task only ever goes from absent to pending to cancelled, and *)
(* every client is answered from one look at the board.                    *)
Board == INSTANCE TaskBoard WITH seen <- saw, struck <- Struck, told <- reply

BoardSpec == Board!Spec
=============================================================================
