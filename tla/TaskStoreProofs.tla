--------------------------- MODULE TaskStoreProofs ---------------------------
(***************************************************************************)
(* Proofs about TaskStore, for any number of tasks, cancellations and      *)
(* reads.  The invariant relates a row to the requests that have read it   *)
(* or written it; a row only ever moves from absent to pending to          *)
(* cancelled, although a cancellation writes on the strength of a status   *)
(* that may be out of date by then.                                        *)
(***************************************************************************)
EXTENDS TaskStore, DbSessionProofs

StoreStep(q) == Step(q) \/ CommitLate(q) \/ Fault(q)

(* Every action on the tasks table is a step of DbSession. *)
LEMMA StoreSessionStep ==
    ASSUME NEW q \in Request, StoreStep(q)
    PROVE  StepOf(q)
<1>. USE StatusFacts DEF StepOf, Handle, Finish, Database
<1>1. CASE Receive(q)
  BY <1>1 DEF Receive
<1>2. CASE InsertTask(q) \/ FlushCancel(q)
  BY <1>2 DEF InsertTask, FlushCancel
<1>3. CASE OwnerUnknown(q) \/ StatementFails(q)
  BY <1>3 DEF OwnerUnknown, StatementFails
<1>4. CASE Created(q) \/ ReadTask(q)
  <2>1. {200, 201, 204} \subseteq Success /\ 404 \in Refusal
    BY DEF Success, Refusal
  <2>. QED
    BY <1>4, <2>1 DEF Created, ReadTask
<1>5. CASE LockTimeout(q) \/ EndSession(q)
  BY <1>5 DEF LockTimeout, EndSession
<1>6. CASE Commit(q) \/ CommitLate(q)
  BY <1>6 DEF Commit, CommitLate
<1>7. CASE Fault(q)
  BY <1>7 DEF Fault
<1>. QED
  BY <1>1, <1>2, <1>3, <1>4, <1>5, <1>6, <1>7 DEF StoreStep, Step

(* Every endpoint of the tasks goes through the steps of get_db_session.   *)
THEOREM TaskRequestIsASession == Safe => SessionSafe
<1>1. Init => SInit
  BY DEF Init
<1>2. [Next]_vars => [SNext]_svars
  BY StoreSessionStep DEF Next, StoreStep, SNext, StepOf, vars, svars
<1>. QED
  BY <1>1, <1>2, PTL DEF Safe, SessionSafe

(* So the invariant of the session holds of every task request. *)
THEOREM TaskSessionInvariant == Safe => []SessionInv
BY TaskRequestIsASession, SessionInvariant, PTL

(* A request about a task shows the promise of a request and nothing else: *)
(* its effect and its answer are decided once, and agree.                  *)
THEOREM TaskRequestImplementsOutcome == Safe => OutcomeSpec
BY TaskRequestIsASession, SessionImplementsOutcome, PTL

-----------------------------------------------------------------------------
OwnTypeOK ==
    /\ row \in [Create -> [status : {"absent", "pending", "cancelled"},
                           completed : Cancel \cup {None}]]
    /\ saw \in [Cancel \cup Get -> {"unread", "absent", "pending", "cancelled"}]

(* A row is there once its creation is committed, and it carries the       *)
(* completion time of a committed cancellation once it is cancelled.       *)
RowInv(t) ==
    /\ row[t].status # "absent" <=> tx[t] = "committed"
    /\ row[t].completed # None =>
         Target[row[t].completed] = t /\ tx[row[t].completed] = "committed"
    /\ row[t].completed = None <=> row[t].status # "cancelled"

HasRead(r) == saw[r] \in {"pending", "cancelled"}

(* What a request has read is not undone, and what a cancellation has      *)
(* committed is in the row.                                                *)
SawInv(r) ==
    /\ pc[r] = "returned" \/ tx[r] \in {"indoubt", "committed"} => HasRead(r)
    /\ HasRead(r) => row[Target[r]].status # "absent"
    /\ saw[r] = "cancelled" => row[Target[r]].status = "cancelled"
    /\ r \in Cancel /\ tx[r] = "committed" => row[Target[r]].status = "cancelled"

StoreInv ==
    /\ OwnTypeOK
    /\ \A t \in Create : RowInv(t)
    /\ \A r \in Cancel \cup Get : SawInv(r)

(* Over the empty table the invariant holds. *)
LEMMA StoreInit == Init => StoreInv
BY TaskStoreAssumption DEF Init, SInit, NoRow, StoreInv, OwnTypeOK, RowInv, SawInv, HasRead

(* A request becomes committed in one of two actions only; every other one *)
(* leaves the rows alone.                                                  *)
LEMMA QuietStep ==
    ASSUME SessionInv, NEW q \in Request, StoreStep(q),
           tx'[q] = "committed" => tx[q] = "committed"
    PROVE  /\ row' = row
           /\ \A r \in Request : tx'[r] = "committed" <=> tx[r] = "committed"
<1>. USE DEF SessionInv, SessionTypeOK
<1>1. tx[q] = "committed" => tx'[q] = "committed" /\ ~ Commit(q) /\ ~ CommitLate(q)
  BY StoreSessionStep DEF StepOf, Handle, Finish, Database, Begin, Connect, Write, Return,
     Raise, Answer, AnswerError, CommitOk, CommitFails, CommitLost, ReadBackFails,
     Rollback, RollbackFails, Crash, Reap, Resolve, Commit, CommitLate
<1>2. \A r \in Request : tx'[r] = "committed" <=> tx[r] = "committed"
  BY <1>1, StoreSessionStep, OthersUnchanged
<1>3. CASE Commit(q) \/ CommitLate(q)
  BY <1>1, <1>2, <1>3 DEF Commit, CommitLate, Publish
<1>4. CASE ~ Commit(q) /\ ~ CommitLate(q)
  <2>1. row' = row
    BY <1>4 DEF StoreStep, Step, Receive, InsertTask, OwnerUnknown, Created, ReadTask,
       StatementFails, FlushCancel, LockTimeout, EndSession, Fault
  <2>. QED
    BY <1>2, <2>1
<1>. QED
  BY <1>3, <1>4

(* What the mover has read is what the row says, or what it read before.   *)
LEMMA SawStep ==
    ASSUME SessionInv, OwnTypeOK, NEW q \in Request, StoreStep(q)
    PROVE  \/ saw' = saw
           \/ /\ q \in Cancel \cup Get
              /\ saw' = [saw EXCEPT ![q] = row[Target[q]].status]
              /\ saw'[q] = "absent" => pc'[q] = "raised"
              /\ tx[q] = "open" /\ UNCHANGED tx
<1>1. CASE ReadTask(q)
  BY <1>1 DEF SessionInv, SessionTypeOK, OwnTypeOK, ReadTask, Raise, Return
<1>2. CASE ~ ReadTask(q)
  BY <1>2 DEF StoreStep, Step, Receive, InsertTask, OwnerUnknown, Created, StatementFails,
     FlushCancel, LockTimeout, EndSession, Fault, Commit, CommitLate
<1>. QED
  BY <1>1, <1>2

(* The mover returns, and so comes to commit, only after it has read. *)
LEMMA ReturnsRead ==
    ASSUME SessionInv, OwnTypeOK, NEW q \in Cancel \cup Get, StoreStep(q), SawInv(q)
    PROVE  pc'[q] = "returned" \/ tx'[q] \in {"indoubt", "committed"} => HasRead(q)'
<1>. USE TaskStoreAssumption DEF SessionInv, SessionTypeOK, OwnTypeOK, SawInv, HasRead
<1>0. q \in Request /\ RequestInv(q)
  OBVIOUS
<1>1. CASE ReadTask(q)
  BY <1>0, <1>1 DEF ReadTask, Raise, Return
<1>2. CASE Receive(q)
  BY <1>2 DEF Receive, Begin, Connect
<1>3. CASE InsertTask(q) \/ OwnerUnknown(q) \/ Created(q)
  BY <1>3 DEF InsertTask, OwnerUnknown, Created
<1>4. CASE StatementFails(q)
  BY <1>4 DEF StatementFails, Raise
<1>5. CASE FlushCancel(q) \/ LockTimeout(q)
  BY <1>5 DEF FlushCancel, LockTimeout, Write, CommitFails
<1>6. CASE Commit(q) \/ CommitLate(q)
  BY <1>0, <1>6 DEF Commit, CommitLate, CommitOk, CommitLost, AtCommit, Resolve
<1>7. CASE EndSession(q)
  BY <1>7 DEF EndSession, Answer, CommitFails, Rollback, RollbackFails, AfterRollback,
     AnswerError
<1>8. CASE Fault(q)
  BY <1>8 DEF Fault, Crash, Reap
<1>. QED
  BY <1>1, <1>2, <1>3, <1>4, <1>5, <1>6, <1>7, <1>8 DEF StoreStep, Step

(* A step that does not commit preserves the invariant. *)
LEMMA QuietInv ==
    ASSUME SessionInv, StoreInv, NEW q \in Request, StoreStep(q),
           tx'[q] = "committed" => tx[q] = "committed"
    PROVE  StoreInv'
<1>. USE TaskStoreAssumption
<1>1. /\ row' = row
      /\ \A r \in Request : tx'[r] = "committed" <=> tx[r] = "committed"
  BY QuietStep
<1>2. OwnTypeOK'
  BY <1>1, SawStep DEF StoreInv, OwnTypeOK
<1>3. ASSUME NEW t \in Create PROVE RowInv(t)'
  BY <1>1 DEF StoreInv, OwnTypeOK, RowInv
<1>4. ASSUME NEW r \in Cancel \cup Get PROVE SawInv(r)'
  <2>1. SawInv(r) /\ r \in Request /\ Target[r] \in Create
    BY DEF StoreInv
  <2>2. CASE r = q
    <3>1. pc'[r] = "returned" \/ tx'[r] \in {"indoubt", "committed"} => HasRead(r)'
      BY <2>1, <2>2, ReturnsRead DEF StoreInv
    <3>. QED
      BY <1>1, <2>1, <2>2, <3>1, SawStep DEF StoreInv, OwnTypeOK, SawInv, HasRead
  <2>3. CASE r # q
    <3>1. pc'[r] = pc[r] /\ tx'[r] = tx[r]
      BY <2>1, <2>3, StoreSessionStep, OthersUnchanged DEF SessionInv
    <3>2. saw'[r] = saw[r]
      BY <2>3, SawStep DEF StoreInv, OwnTypeOK
    <3>. QED
      BY <1>1, <2>1, <3>1, <3>2 DEF SawInv, HasRead
  <2>. QED
    BY <2>2, <2>3
<1>. QED
  BY <1>2, <1>3, <1>4 DEF StoreInv

(* A COMMIT, acknowledged or late, preserves the invariant: its UPDATE     *)
(* held the row lock.                                                      *)
LEMMA PublishInv ==
    ASSUME SessionInv, StoreInv, NEW q \in Request, StoreStep(q),
           tx'[q] = "committed", tx[q] # "committed"
    PROVE  StoreInv'
<1>. USE TaskStoreAssumption
<1>0. SessionTypeOK /\ RequestInv(q)
  BY DEF SessionInv
<1>1. Publish(q) /\ saw' = saw
  BY <1>0 DEF SessionTypeOK, StoreStep, Step, Receive, InsertTask, OwnerUnknown, Created,
     ReadTask, StatementFails, FlushCancel, LockTimeout, EndSession, Fault, Commit,
     CommitLate, Begin, Connect, Write, Return, Raise, Answer, AnswerError, CommitFails,
     Rollback, RollbackFails, Crash, Reap
<1>2. pc[q] = "returned" \/ tx[q] = "indoubt"
  BY <1>0, StoreSessionStep DEF SessionTypeOK, StepOf, Handle, Finish, Database, Begin,
     Connect, Write, Return, Raise, Answer, AnswerError, CommitOk, CommitFails, CommitLost,
     ReadBackFails, Rollback, RollbackFails, Crash, Reap, Resolve, AtCommit
<1>3. \A r \in Request \ {q} : pc'[r] = pc[r] /\ tx'[r] = tx[r]
  BY <1>0, StoreSessionStep, OthersUnchanged
<1>4. q \in Cancel \cup Get => HasRead(q)
  BY <1>2 DEF StoreInv, SawInv
<1>5. CASE q \in Create
  <2>1. row' = [row EXCEPT ![q] = [status |-> "pending", completed |-> None]]
    BY <1>1, <1>5, TaskStoreAssumption DEF Publish, IsDirty
  <2>2. row[q].status = "absent"
    BY <1>5 DEF StoreInv, RowInv
  <2>3. OwnTypeOK'
    BY <1>1, <1>5, <2>1 DEF StoreInv, OwnTypeOK
  <2>4. ASSUME NEW t \in Create PROVE RowInv(t)'
    <3>1. CASE t = q
      BY <1>5, <2>1, <3>1 DEF StoreInv, OwnTypeOK, RowInv
    <3>2. CASE t # q
      <4>1. row'[t] = row[t] /\ tx'[t] = tx[t]
        BY <1>3, <2>1, <3>2 DEF StoreInv, OwnTypeOK
      <4>2. row[t].completed # None => tx'[row[t].completed] = tx[row[t].completed]
        BY <1>3, <1>5 DEF StoreInv, OwnTypeOK
      <4>. QED
        BY <4>1, <4>2 DEF StoreInv, RowInv
    <3>. QED
      BY <3>1, <3>2
  <2>5. ASSUME NEW r \in Cancel \cup Get PROVE SawInv(r)'
    <3>1. pc'[r] = pc[r] /\ tx'[r] = tx[r]
      BY <1>3, <1>5
    <3>2. CASE Target[r] # q
      <4>1. row'[Target[r]] = row[Target[r]]
        BY <2>1, <3>2 DEF StoreInv, OwnTypeOK
      <4>. QED
        BY <1>1, <3>1, <4>1 DEF StoreInv, SawInv, HasRead
    <3>3. CASE Target[r] = q
      <4>1. ~ HasRead(r)
        BY <2>2, <3>3 DEF StoreInv, SawInv
      <4>. QED
        BY <1>1, <3>1, <4>1 DEF StoreInv, SawInv, HasRead
    <3>. QED
      BY <3>2, <3>3
  <2>. QED
    BY <2>3, <2>4, <2>5 DEF StoreInv
<1>6. CASE q \in Cancel \cup Get
  <2>. DEFINE s == Target[q]
  <2>0. s \in Create /\ q \notin Create /\ row[s].status # "absent" /\ SawInv(q)
    BY <1>4, <1>6 DEF StoreInv, SawInv
  <2>1. CASE q \in Cancel /\ saw[q] = "pending"
    <3>1. row' = [row EXCEPT ![s] = [status |-> "cancelled", completed |-> q]]
      BY <1>1, <2>0, <2>1 DEF Publish, IsDirty, Cancellable
    <3>2. OwnTypeOK'
      BY <1>1, <2>0, <2>1, <3>1 DEF StoreInv, OwnTypeOK
    <3>3. ASSUME NEW t \in Create PROVE RowInv(t)'
      <4>0. tx'[t] = tx[t]
        BY <1>3, <2>0
      <4>1. CASE t = s
        BY <2>0, <2>1, <3>1, <4>0, <4>1 DEF StoreInv, OwnTypeOK, RowInv
      <4>2. CASE t # s
        <5>1. row'[t] = row[t]
          BY <3>1, <4>2 DEF StoreInv, OwnTypeOK
        <5>2. row[t].completed # None => tx'[row[t].completed] = "committed"
          BY <1>3 DEF StoreInv, OwnTypeOK, RowInv
        <5>. QED
          BY <4>0, <5>1, <5>2 DEF StoreInv, RowInv
      <4>. QED
        BY <4>1, <4>2
    <3>4. ASSUME NEW r \in Cancel \cup Get PROVE SawInv(r)'
      <4>1. row'[Target[r]] = row[Target[r]] \/ row'[Target[r]].status = "cancelled"
        BY <2>0, <3>1 DEF StoreInv, OwnTypeOK
      <4>2. CASE r = q
        BY <1>1, <1>4, <1>6, <2>0, <3>1, <4>2 DEF StoreInv, OwnTypeOK, SawInv, HasRead
      <4>3. CASE r # q
        BY <1>1, <1>3, <4>1, <4>3 DEF StoreInv, SawInv, HasRead
      <4>. QED
        BY <4>2, <4>3
    <3>. QED
      BY <3>2, <3>3, <3>4 DEF StoreInv
  <2>2. CASE ~ (q \in Cancel /\ saw[q] = "pending")
    <3>0. q \in Cancel => row[s].status = "cancelled"
      BY <1>4, <1>6, <2>0, <2>2 DEF SawInv, HasRead
    <3>1. row' = row
      BY <1>1, <1>4, <1>6, <2>0, <2>2 DEF Publish, IsDirty, Cancellable, HasRead
    <3>2. OwnTypeOK'
      BY <1>1, <3>1 DEF StoreInv, OwnTypeOK
    <3>3. ASSUME NEW t \in Create PROVE RowInv(t)'
      <4>1. tx'[t] = tx[t]
        BY <1>3, <2>0
      <4>2. row[t].completed # None => tx'[row[t].completed] = "committed"
        BY <1>3 DEF StoreInv, OwnTypeOK, RowInv
      <4>. QED
        BY <3>1, <4>1, <4>2 DEF StoreInv, RowInv
    <3>4. ASSUME NEW r \in Cancel \cup Get PROVE SawInv(r)'
      <4>1. CASE r = q
        BY <1>1, <1>4, <1>6, <2>0, <3>0, <3>1, <4>1 DEF SawInv, HasRead
      <4>2. CASE r # q
        BY <1>1, <1>3, <3>1, <4>2 DEF StoreInv, SawInv, HasRead
      <4>. QED
        BY <4>1, <4>2
    <3>. QED
      BY <3>2, <3>3, <3>4 DEF StoreInv
  <2>. QED
    BY <2>1, <2>2
<1>. QED
  BY <1>5, <1>6

(* StoreInv holds throughout: rows only come from committed creations and  *)
(* cancellations.                                                          *)
THEOREM StoreInvariant == Safe => []StoreInv
<1>1. SessionInv /\ StoreInv /\ [Next]_vars => StoreInv'
  <2>. SUFFICES ASSUME SessionInv, StoreInv, [Next]_vars
                PROVE  StoreInv'
    OBVIOUS
  <2>1. CASE UNCHANGED vars
    BY <2>1 DEF vars, svars, StoreInv, OwnTypeOK, RowInv, SawInv, HasRead
  <2>2. CASE Next
    <3>1. PICK q \in Request : StoreStep(q)
      BY <2>2 DEF Next, StoreStep
    <3>. QED
      BY <3>1, QuietInv, PublishInv
  <2>. QED
    BY <2>1, <2>2
<1>. QED
  BY <1>1, StoreInit, TaskSessionInvariant, PTL DEF Safe

-----------------------------------------------------------------------------
(* The types of all variables of the task store. *)
THEOREM StoreTypeCorrect == Safe => []TypeOK
<1>1. SessionInv /\ StoreInv => TypeOK
  BY DEF SessionInv, StoreInv, OwnTypeOK, TypeOK, TaskStatus, Cancellable
<1>. QED
  BY <1>1, TaskSessionInvariant, StoreInvariant, PTL

(* Whoever was answered 204 by a session that commits first finds the task *)
(* cancelled, for any number of concurrent cancellations.                  *)
THEOREM CancelledWhenAnswered == Safe => []NoContentMeansCancelled
<1>1. SessionInv /\ StoreInv => NoContentMeansCancelled
  BY TaskStoreAssumption DEF SessionInv, RequestInv, ReplyInv, Success, StoreInv, SawInv,
     NoContentMeansCancelled
<1>. QED
  BY <1>1, TaskSessionInvariant, StoreInvariant, PTL

(* A task whose creation was answered 201 by a session that commits first  *)
(* is not reported missing.                                                *)
THEOREM CreatedTasksAreFound == Safe => CreatedIsFound
<1> DEFINE Fine(r) == code[r] # 404 /\ code'[r] = 404 =>
             ~ (Target[r] \in EarlyCommit /\ reply[Target[r]] = 201)
<1>1. SessionInv /\ StoreInv /\ [Next]_vars => [\A r \in Cancel \cup Get : Fine(r)]_vars
  <2>. SUFFICES ASSUME SessionInv, StoreInv, Next, NEW r \in Cancel \cup Get,
                       code[r] # 404, code'[r] = 404
                PROVE  ~ (Target[r] \in EarlyCommit /\ reply[Target[r]] = 201)
    OBVIOUS
  <2>0. r \in Request /\ Target[r] \in Create /\ Target[r] \in Request
    BY TaskStoreAssumption
  <2>1. PICK q \in Request : StoreStep(q)
    BY DEF Next, StoreStep
  <2>2. q = r
    BY <2>0, <2>1, StoreSessionStep, OthersUnchanged DEF SessionInv
  <2>3. row[Target[r]].status = "absent"
    BY <2>0, <2>1, <2>2, TaskStoreAssumption
    DEF SessionInv, SessionTypeOK, StoreInv, OwnTypeOK, StoreStep, Step, Receive,
        InsertTask, OwnerUnknown, Created, ReadTask, StatementFails, FlushCancel,
        LockTimeout, EndSession, Fault, Commit, CommitLate, Begin, Connect, Write, Return,
        Raise, Answer, AnswerError, CommitOk, CommitFails, CommitLost, Rollback,
        RollbackFails, Crash, Reap, Resolve, Unhandled
  <2>4. tx[Target[r]] # "committed"
    BY <2>0, <2>3 DEF StoreInv, RowInv
  <2>. QED
    BY <2>0, <2>4 DEF SessionInv, RequestInv, ReplyInv, Success
<1>. QED
  BY <1>1, TaskSessionInvariant, StoreInvariant, PTL DEF Safe, CreatedIsFound

(* A task that was cancelled once is never seen pending again by a request *)
(* that reads later.                                                       *)
CancelledIsSeen == [][\A r \in Cancel \cup Get, c \in Cancel \cap EarlyCommit :
    saw[r] = "unread" /\ saw'[r] \in Cancellable /\ Target[c] = Target[r]
        => reply[c] # 204]_vars

(* A task that somebody was told is cancelled is not read as pending.      *)
THEOREM CancelledTasksAreSeen == Safe => CancelledIsSeen
<1> DEFINE Fine(r, c) == saw[r] = "unread" /\ saw'[r] \in Cancellable
                           /\ Target[c] = Target[r] => reply[c] # 204
<1>1. SessionInv /\ StoreInv /\ [Next]_vars =>
        [\A r \in Cancel \cup Get, c \in Cancel \cap EarlyCommit : Fine(r, c)]_vars
  <2>. SUFFICES ASSUME SessionInv, StoreInv, Next, NEW r \in Cancel \cup Get,
                       NEW c \in Cancel \cap EarlyCommit, saw[r] = "unread",
                       saw'[r] \in Cancellable, Target[c] = Target[r]
                PROVE  reply[c] # 204
    OBVIOUS
  <2>1. PICK q \in Request : StoreStep(q)
    BY DEF Next, StoreStep
  <2>2. row[Target[r]].status \in Cancellable
    BY <2>1, SawStep DEF StoreInv, OwnTypeOK, Cancellable
  <2>3. row[Target[c]].status # "cancelled"
    BY <2>2 DEF Cancellable
  <2>4. tx[c] # "committed"
    BY <2>3 DEF StoreInv, SawInv
  <2>5. c \in Request
    BY TaskStoreAssumption
  <2>. QED
    BY <2>4, <2>5 DEF SessionInv, RequestInv, ReplyInv, Success
<1>. QED
  BY <1>1, TaskSessionInvariant, StoreInvariant, PTL DEF Safe, CancelledIsSeen

-----------------------------------------------------------------------------
(* A request reads once, and its status code is one of its endpoint's and  *)
(* agrees with what it has read.                                           *)
CodeInv(r) ==
    /\ r \in Create => code[r] \in {NoReply, 201, 500}
    /\ r \in Cancel => code[r] \in {NoReply, 204, 404, 500}
    /\ r \in Get => code[r] \in {NoReply, 200, 404, 500}
    /\ r \in Cancel \cup Get =>
         /\ pc[r] \in {"idle", "running"} => saw[r] = "unread"
         /\ code[r] = 404 => saw[r] = "absent"
         /\ code[r] \in {200, 204} => HasRead(r)

CodesInv == \A r \in Request : CodeInv(r)

(* A step of a handler keeps its code in agreement with what it has read.  *)
LEMMA CodeStep ==
    ASSUME SessionInv, OwnTypeOK, NEW q \in Request, StoreStep(q), CodeInv(q)
    PROVE  CodeInv(q)'
<1>. USE TaskStoreAssumption
     DEF SessionInv, SessionTypeOK, OwnTypeOK, CodeInv, HasRead, Unhandled, NoReply
<1>1. CASE Receive(q)
  BY <1>1 DEF Receive, Begin, Connect
<1>2. CASE InsertTask(q) \/ FlushCancel(q)
  BY <1>2 DEF InsertTask, FlushCancel, Write
<1>3. CASE OwnerUnknown(q) \/ StatementFails(q)
  BY <1>3 DEF OwnerUnknown, StatementFails, Raise
<1>4. CASE Created(q)
  BY <1>4 DEF Created, Return
<1>5. CASE ReadTask(q)
  BY <1>5 DEF ReadTask, Raise, Return
<1>6. CASE LockTimeout(q)
  BY <1>6 DEF LockTimeout, CommitFails, AtCommit
<1>7. CASE Commit(q)
  BY <1>7 DEF Commit, CommitOk, CommitLost, AtCommit
<1>8. CASE CommitLate(q)
  BY <1>8 DEF CommitLate, Resolve
<1>9. CASE EndSession(q)
  BY <1>9 DEF EndSession, Answer, CommitFails, AtCommit, Rollback, RollbackFails,
     AfterRollback, AnswerError
<1>10. CASE Fault(q)
  BY <1>10 DEF Fault, Crash, Reap
<1>. QED
  BY <1>1, <1>2, <1>3, <1>4, <1>5, <1>6, <1>7, <1>8, <1>9, <1>10 DEF StoreStep, Step

(* The codes agree with the readings throughout. *)
LEMMA CodesInvariant == Safe => []CodesInv
<1>1. Init => CodesInv
  BY TaskStoreAssumption DEF Init, SInit, CodesInv, CodeInv, HasRead, NoReply
<1>2. SessionInv /\ StoreInv /\ CodesInv /\ [Next]_vars => CodesInv'
  <2>. SUFFICES ASSUME SessionInv, StoreInv, CodesInv, [Next]_vars, NEW r \in Request
                PROVE  CodeInv(r)'
    BY DEF CodesInv
  <2>1. CASE UNCHANGED vars
    BY <2>1 DEF vars, svars, CodesInv, CodeInv, HasRead
  <2>2. CASE Next
    <3>1. PICK q \in Request : StoreStep(q)
      BY <2>2 DEF Next, StoreStep
    <3>2. CASE r = q
      BY <3>1, <3>2, CodeStep DEF StoreInv, CodesInv
    <3>3. CASE r # q
      <4>1. pc'[r] = pc[r] /\ code'[r] = code[r]
        BY <3>1, <3>3, StoreSessionStep, OthersUnchanged DEF SessionInv
      <4>2. r \in Cancel \cup Get => saw'[r] = saw[r]
        BY <3>1, <3>3, SawStep DEF StoreInv, OwnTypeOK
      <4>. QED
        BY <4>1, <4>2 DEF CodesInv, CodeInv, HasRead
    <3>. QED
      BY <3>2, <3>3
  <2>. QED
    BY <2>1, <2>2
<1>. QED
  BY <1>1, <1>2, TaskSessionInvariant, StoreInvariant, PTL DEF Safe

-----------------------------------------------------------------------------
(* A COMMIT posts a task, strikes one out, or leaves the board as it is.   *)
LEMMA CommitOnBoard ==
    ASSUME SessionInv, StoreInv, NEW q \in Request, StoreStep(q),
           tx'[q] = "committed", tx[q] # "committed"
    PROVE  Board!Next \/ UNCHANGED Board!vars
<1>. USE TaskStoreAssumption
<1>0. SessionTypeOK /\ RequestInv(q) /\ reply[q] \notin Refusal
  <2>1. SessionTypeOK /\ RequestInv(q)
    BY DEF SessionInv
  <2>2. tx[q] # "aborted"
    BY <2>1, StoreSessionStep DEF SessionTypeOK, StepOf, Handle, Finish, Database, Begin,
       Connect, Write, Return, Raise, Answer, AnswerError, CommitOk, CommitFails,
       CommitLost, ReadBackFails, Rollback, RollbackFails, Crash, Reap, Resolve
  <2>. QED
    BY <2>1, <2>2 DEF RequestInv, ReplyInv
<1>1. Publish(q) /\ saw' = saw /\ reply' = reply
  BY <1>0 DEF SessionTypeOK, StoreStep, Step, Receive, InsertTask, OwnerUnknown, Created,
     ReadTask, StatementFails, FlushCancel, LockTimeout, EndSession, Fault, Commit,
     CommitLate, Begin, Connect, Write, Return, Raise, Answer, AnswerError, CommitFails,
     Rollback, RollbackFails, Crash, Reap, CommitOk, CommitLost, Resolve
<1>2. \A r \in Request \ {q} : tx'[r] = tx[r]
  BY <1>0, StoreSessionStep, OthersUnchanged
<1>3. \A r \in Cancel : r # q => (r \in Struck' <=> r \in Struck)
  BY <1>1, <1>2 DEF Struck, IsDirty
<1>4. CASE q \in Create
  <2>1. row' = [row EXCEPT ![q] = [status |-> "pending", completed |-> None]]
    BY <1>1, <1>4 DEF Publish, IsDirty
  <2>2. row[q].status = "absent"
    BY <1>4 DEF StoreInv, RowInv
  <2>3. Struck' = Struck
    BY <1>3, <1>4 DEF Struck
  <2>4. Board!Post(q)
    BY <1>0, <1>1, <2>1, <2>2, <2>3 DEF Board!Post
  <2>. QED
    BY <1>4, <2>4 DEF Board!Next
<1>5. CASE IsDirty(q)
  <2>1. q \in Cancel /\ saw[q] = "pending"
    BY <1>5 DEF IsDirty, Cancellable, StoreInv, OwnTypeOK
  <2>2. row' = [row EXCEPT ![Target[q]] = [status |-> "cancelled", completed |-> q]]
    BY <1>1, <1>5, <2>1 DEF Publish
  <2>3. q \notin Struck /\ q \in Struck'
    BY <1>1, <1>5, <2>1 DEF Struck, IsDirty
  <2>4. Struck' = Struck \cup {q}
    BY <1>3, <2>1, <2>3 DEF Struck
  <2>5. Board!Strike(q)
    BY <1>0, <1>1, <2>1, <2>2, <2>3, <2>4 DEF Board!Strike
  <2>. QED
    BY <2>1, <2>5 DEF Board!Next
<1>6. CASE q \notin Create /\ ~ IsDirty(q)
  <2>1. row' = row
    BY <1>1, <1>6 DEF Publish
  <2>2. q \notin Struck /\ q \notin Struck'
    BY <1>1, <1>6 DEF Struck, IsDirty
  <2>3. Struck' = Struck
    BY <1>3, <2>2 DEF Struck
  <2>. QED
    BY <1>1, <2>1, <2>3 DEF Board!vars
<1>. QED
  BY <1>4, <1>5, <1>6

(* An answer is one that the endpoint may give after what it saw. *)
LEMMA AnswerFromBoard ==
    ASSUME SessionInv, StoreInv, NEW q \in Request, CodeInv(q),
           EndSession(q), Answer(q) \/ AnswerError(q)
    PROVE  Board!Next
<1>1. /\ reply[q] = NoReply /\ reply' = [reply EXCEPT ![q] = code[q]] /\ tx' = tx
      /\ code[q] \in Status
      /\ code[q] \in Success /\ q \in EarlyCommit => tx[q] = "committed"
  BY StatusFacts DEF SessionInv, SessionTypeOK, Answer, AnswerError, RequestInv, PhaseInv
<1>2. row' = row /\ saw' = saw /\ Struck' = Struck
  BY <1>1 DEF EndSession, Struck, IsDirty
<1>3. code[q] \in {200, 201, 204, 404, 500} /\ code[q] # NoReply
  BY <1>1, StatusFacts, TaskStoreAssumption DEF CodeInv
<1>4. Board!MayTell(q, code[q])
  <2>1. CASE q \in Create
    <3>1. code[q] = 201 /\ q \in EarlyCommit => row[q].status # "absent"
      BY <1>1, <2>1 DEF Success, StoreInv, RowInv
    <3>. QED
      BY <1>3, <2>1, <3>1 DEF Board!MayTell, CodeInv
  <2>2. CASE q \in Get
    BY <1>3, <2>2 DEF Board!MayTell, CodeInv, HasRead
  <2>3. CASE q \in Cancel
    <3>1. code[q] = 204 /\ q \in EarlyCommit /\ saw[q] = "pending" => q \in Struck
      BY <1>1, <2>3 DEF Success, Struck, IsDirty, Cancellable
    <3>. QED
      BY <1>3, <2>3, <3>1 DEF Board!MayTell, CodeInv, HasRead
  <2>. QED
    BY <2>1, <2>2, <2>3, TaskStoreAssumption
<1>5. Board!Tell(q, code[q])
  BY <1>1, <1>2, <1>4 DEF Board!Tell
<1>. QED
  BY <1>3, <1>5, TaskStoreAssumption DEF Board!Next

(* Every step of a task request is one of the board's, or none. *)
LEMMA BoardStep ==
    ASSUME SessionInv, StoreInv, NEW q \in Request, CodeInv(q), StoreStep(q)
    PROVE  Board!Next \/ UNCHANGED Board!vars
<1>1. CASE tx'[q] = "committed" /\ tx[q] # "committed"
  BY <1>1, CommitOnBoard
<1>2. CASE tx'[q] = "committed" => tx[q] = "committed"
  <2>1. row' = row /\ \A r \in Request : tx'[r] = "committed" <=> tx[r] = "committed"
    BY <1>2, QuietStep
  <2>2. CASE EndSession(q) /\ (Answer(q) \/ AnswerError(q))
    BY <2>2, AnswerFromBoard
  <2>3. CASE ReadTask(q)
    <3>1. /\ q \in Cancel \cup Get /\ tx' = tx /\ reply' = reply
          /\ tx[q] = "open" /\ pc[q] = "running"
          /\ saw' = [saw EXCEPT ![q] = row[Target[q]].status]
      BY <2>3 DEF ReadTask, Raise, Return
    <3>2. saw[q] = "unread" /\ reply[q] = NoReply
      BY <3>1 DEF CodeInv, SessionInv, RequestInv, PhaseInv
    <3>3. \A r \in Cancel : r # q => saw'[r] = saw[r]
      BY <3>1
    <3>4. Struck' = Struck
      BY <3>1, <3>3 DEF Struck, IsDirty
    <3>5. Board!Look(q)
      BY <2>1, <3>1, <3>2, <3>4 DEF Board!Look
    <3>. QED
      BY <3>1, <3>5 DEF Board!Next
  <2>4. CASE ~ ReadTask(q) /\ ~ (EndSession(q) /\ (Answer(q) \/ AnswerError(q)))
    <3>1. saw' = saw /\ reply' = reply
      BY <2>4 DEF StoreStep, Step, Receive, InsertTask, OwnerUnknown, Created,
         StatementFails, FlushCancel, LockTimeout, EndSession, Fault, Commit, CommitLate,
         Begin, Connect, Write, Return, Raise, CommitOk, CommitFails, CommitLost, Rollback,
         RollbackFails, Crash, Reap, Resolve
    <3>2. Struck' = Struck
      BY <2>1, <3>1, TaskStoreAssumption DEF Struck, IsDirty
    <3>. QED
      BY <2>1, <3>1, <3>2 DEF Board!vars
  <2>. QED
    BY <2>2, <2>3, <2>4
<1>. QED
  BY <1>1, <1>2

(* create_task, get_task and cancel_task together implement the board of   *)
(* tasks, for any number of them and whatever fails.                       *)
THEOREM TasksImplementBoard == Safe => BoardSpec
<1>1. Init => Board!Init
  BY TaskStoreAssumption DEF Init, SInit, NoRow, Board!Init, Struck
<1>2. SessionInv /\ StoreInv /\ CodesInv /\ [Next]_vars => [Board!Next]_(Board!vars)
  <2>. SUFFICES ASSUME SessionInv, StoreInv, CodesInv, [Next]_vars
                PROVE  Board!Next \/ UNCHANGED Board!vars
    OBVIOUS
  <2>1. CASE UNCHANGED vars
    BY <2>1 DEF vars, svars, Board!vars, Struck, IsDirty
  <2>2. CASE Next
    BY <2>2, BoardStep DEF Next, StoreStep, CodesInv
  <2>. QED
    BY <2>1, <2>2
<1>. QED
  BY <1>1, <1>2, TaskSessionInvariant, StoreInvariant, CodesInvariant, PTL
     DEF Safe, BoardSpec, Board!Spec

-----------------------------------------------------------------------------
(* The row of t changes, from or to cancelled. *)
Moves(t) ==
    /\ row'[t] # row[t]
    /\ row[t].status = "cancelled" \/ row'[t].status = "cancelled"

(* What moves a stamp: the decision of a transaction that is still open.   *)
LEMMA RowMoves ==
    ASSUME SessionInv, StoreInv, NEW q \in Request, StoreStep(q),
           NEW t \in Create, Moves(t)
    PROVE  /\ q \in Cancel /\ saw[q] = "pending" /\ Target[q] = t
           /\ tx[q] \in Unresolved /\ tx'[q] = "committed" /\ saw' = saw
           /\ row'[t] = [status |-> "cancelled", completed |-> q]
<1>0. row' # row
  BY DEF Moves
<1>1. tx'[q] = "committed" /\ tx[q] # "committed"
  BY <1>0, QuietStep
<1>2. Commit(q) \/ CommitLate(q)
  BY <1>1 DEF SessionInv, SessionTypeOK, StoreStep, Step, Receive, InsertTask,
     OwnerUnknown, Created, ReadTask, StatementFails, FlushCancel, LockTimeout,
     EndSession, Fault, Begin, Connect, Write, Return, Raise, Answer,
     AnswerError, CommitFails, Rollback, RollbackFails, Crash, Reap
<1>3. Publish(q) /\ saw' = saw /\ tx[q] \in Unresolved
  BY <1>1, <1>2 DEF Commit, CommitLate, CommitOk, CommitLost, Resolve, Unresolved
<1>4. \A u \in Create : u = q => row[u].status = "absent"
  BY <1>1 DEF StoreInv, RowInv
<1>5. IsDirty(q) /\ row' = [row EXCEPT ![Target[q]] = [status |-> "cancelled", completed |-> q]]
  BY <1>1, <1>3, <1>4 DEF Moves, Publish, StoreInv, OwnTypeOK
<1>6. q \in Cancel /\ saw[q] = "pending" /\ Target[q] = t
  BY <1>5 DEF Moves, IsDirty, Cancellable, StoreInv, OwnTypeOK
<1>. QED
  BY <1>1, <1>3, <1>5, <1>6 DEF Moves, StoreInv, OwnTypeOK

(* A cancelled task stays cancelled, and its completion time is moved only *)
(* by another cancellation that had read the task as pending.              *)
THEOREM StampsMoveByStaleReaders == Safe => StampMovesByStaleReader
<1>. DEFINE By(t, c) == /\ Target[c] = t /\ saw[c] = "pending"
                        /\ c # row[t].completed
                        /\ row'[t] = [status |-> "cancelled", completed |-> c]
<1>1. SessionInv /\ StoreInv /\ [Next]_vars =>
        [\A t \in Create : row[t].status = "cancelled" /\ row'[t] # row[t] =>
            \E c \in Cancel : By(t, c)]_vars
  <2>. SUFFICES ASSUME SessionInv, StoreInv, Next, NEW t \in Create,
                       row[t].status = "cancelled", row'[t] # row[t]
                PROVE  \E c \in Cancel : By(t, c)
    OBVIOUS
  <2>0. Moves(t)
    BY DEF Moves
  <2>1. PICK q \in Request : StoreStep(q)
    BY DEF Next, StoreStep
  <2>2. /\ q \in Cancel /\ saw[q] = "pending" /\ Target[q] = t
        /\ tx[q] \in Unresolved
        /\ row'[t] = [status |-> "cancelled", completed |-> q]
    BY <2>0, <2>1, RowMoves
  <2>3. row[t].completed # None /\ tx[row[t].completed] = "committed"
    BY DEF StoreInv, RowInv
  <2>4. By(t, q)
    BY <2>2, <2>3 DEF Unresolved
  <2>. QED
    BY <2>2, <2>4
<1>. QED
  BY <1>1, TaskSessionInvariant, StoreInvariant, PTL DEF Safe, StampMovesByStaleReader

-----------------------------------------------------------------------------
(* A cancellation is in flight from its arrival until it is over and its   *)
(* transaction decided.                                                    *)
InFlight(r) == pc[r] \notin {"idle", "done", "dead"} \/ tx[r] \in Unresolved

OneAtATime == \A c, d \in Cancel :
    Target[c] = Target[d] /\ InFlight(c) /\ InFlight(d) => c = d

(* Then nobody who has read a task as pending is left to write it once it  *)
(* is cancelled.                                                           *)
StaleInv == \A c \in Cancel : saw[c] = "pending" =>
    /\ pc[c] \notin {"idle", "running"} /\ tx[c] # "none"
    /\ row[Target[c]].status = "cancelled" => tx[c] \notin Unresolved

LEMMA StaleStep ==
    ASSUME SessionInv, StoreInv, OneAtATime, StaleInv, NEW q \in Request, StoreStep(q),
           NEW c \in Cancel, saw'[c] = "pending"
    PROVE  /\ pc'[c] \notin {"idle", "running"} /\ tx'[c] # "none"
           /\ row'[Target[c]].status = "cancelled" => tx'[c] \notin Unresolved
<1>. DEFINE t == Target[c]
<1>0. c \in Request /\ t \in Create
  BY TaskStoreAssumption
<1>1. CASE saw[c] # "pending"
  <2>1. /\ q = c /\ row[t].status = "pending" /\ row' = row
        /\ pc'[c] = "returned" /\ tx'[c] = "open"
    BY <1>0, <1>1, TaskStoreAssumption
    DEF SessionInv, SessionTypeOK, StoreInv, OwnTypeOK, StoreStep, Step, Receive,
        InsertTask, OwnerUnknown, Created, ReadTask, StatementFails, FlushCancel,
        LockTimeout, EndSession, Fault, Commit, CommitLate, Return, Raise
  <2>. QED
    BY <2>1
<1>2. CASE saw[c] = "pending"
  <2>1. pc'[c] \notin {"idle", "running"} /\ tx'[c] # "none"
        /\ (tx[c] \notin Unresolved => tx'[c] \notin Unresolved)
    <3>1. StepOf(q)
      BY StoreSessionStep
    <3>2. CASE q = c
      BY <1>0, <1>2, <3>1, <3>2
      DEF StaleInv, SessionInv, SessionTypeOK, StepOf, Handle, Finish, Database, Begin,
          Connect, Write, Return, Raise, Answer, AnswerError, CommitOk, CommitFails,
          CommitLost, ReadBackFails, Rollback, RollbackFails, AfterRollback, Crash, Reap,
          Resolve, Unresolved
    <3>3. CASE q # c
      BY <1>0, <1>2, <3>1, <3>3, OthersUnchanged DEF StaleInv, SessionInv
    <3>. QED
      BY <3>2, <3>3
  <2>2. CASE row[t].status = "cancelled"
    BY <1>2, <2>1, <2>2 DEF StaleInv
  <2>3. CASE row[t].status # "cancelled" /\ row'[t].status = "cancelled"
    <3>1. /\ q \in Cancel /\ Target[q] = t
          /\ tx[q] \in Unresolved /\ tx'[q] = "committed"
      <4>1. PICK u \in Create : u = t
        BY <1>0
      <4>2. Moves(u)
        BY <2>3, <4>1 DEF Moves
      <4>3. /\ q \in Cancel /\ Target[q] = u
            /\ tx[q] \in Unresolved /\ tx'[q] = "committed"
        BY <4>2, RowMoves
      <4>. QED
        BY <4>1, <4>3
    <3>2. CASE q = c
      BY <2>1, <3>1, <3>2 DEF Unresolved
    <3>3. CASE q # c
      BY <2>1, <3>1, <3>3 DEF OneAtATime, InFlight
    <3>. QED
      BY <3>2, <3>3
  <2>. QED
    BY <2>1, <2>2, <2>3
<1>. QED
  BY <1>1, <1>2

(* Cancellations of a task that follow one another, as many as there are   *)
(* and whatever fails, stamp it once: only those that overlap write        *)
(* completed_at twice (tasks.py:164-168).                                  *)
THEOREM SequentialCancellationsStampOnce ==
    Safe /\ []OneAtATime => CompletedAtWrittenOnce
<1>. DEFINE Kept == \A t \in Create : row[t].status = "cancelled" => row'[t] = row[t]
<1>1. Init => StaleInv
  BY DEF Init, StaleInv
<1>2. SessionInv /\ StoreInv /\ OneAtATime /\ StaleInv /\ [Next]_vars => StaleInv'
  <2>. SUFFICES ASSUME SessionInv, StoreInv, OneAtATime, StaleInv, [Next]_vars
                PROVE  StaleInv'
    OBVIOUS
  <2>1. CASE UNCHANGED vars
    BY <2>1 DEF vars, svars, StaleInv
  <2>2. CASE Next
    <3>1. PICK q \in Request : StoreStep(q)
      BY <2>2 DEF Next, StoreStep
    <3>. QED
      BY <3>1, StaleStep DEF StaleInv
  <2>. QED
    BY <2>1, <2>2
<1>3. SessionInv /\ StoreInv /\ StaleInv /\ [Next]_vars => [Kept]_vars
  <2>. SUFFICES ASSUME SessionInv, StoreInv, StaleInv, Next, NEW t \in Create,
                       row[t].status = "cancelled", row'[t] # row[t]
                PROVE  FALSE
    OBVIOUS
  <2>0. Moves(t)
    BY DEF Moves
  <2>1. PICK q \in Request : StoreStep(q)
    BY DEF Next, StoreStep
  <2>2. q \in Cancel /\ saw[q] = "pending" /\ Target[q] = t /\ tx[q] \in Unresolved
    BY <2>0, <2>1, RowMoves
  <2>. QED
    BY <2>2 DEF StaleInv
<1>. QED
  BY <1>1, <1>2, <1>3, TaskSessionInvariant, StoreInvariant, PTL
     DEF Safe, CompletedAtWrittenOnce
=============================================================================
