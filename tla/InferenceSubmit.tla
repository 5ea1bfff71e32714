--------------------------- MODULE InferenceSubmit ---------------------------
(***************************************************************************)
(* POST /inference/predict and GET /inference/status of api-service.       *)
(*                                                                         *)
(* A submission writes to two stores that share no transaction: it flushes *)
(* an InferenceJob row to PostgreSQL, inserts a log document in MongoDB,   *)
(* and commits the row when its session ends (DbSession).  Each request    *)
(* draws its own request_id, so a request names its job and its log: the   *)
(* row of r is visible to others when tx[r] is "committed".                *)
(***************************************************************************)
EXTENDS DbSession

CONSTANTS
    OwnerId,  \* the ids a handler may draw as the placeholder owner of a job
    Users     \* the ids of the rows of the users table

VARIABLES
    at,     \* at[r]: the statement the handler of r has come to
    log,    \* log[r]: the document of r in inference_logs
    found   \* found[r]: what the last status query for r answered

vars == <<svars, at, log, found>>

Init ==
    /\ SInit
    /\ at = [r \in Request |-> "job"]
    /\ log = [r \in Request |-> "absent"]
    /\ found = [r \in Request |-> NoReply]

-----------------------------------------------------------------------------
(* submit_inference *)

Receive(r) ==
    /\ Begin(r) \/ Connect(r)
    /\ UNCHANGED <<at, log, found>>

(* db.add(job); await db.flush(): the owner must be a row of users. *)
InsertJob(r) ==
    /\ at[r] = "job"
    /\ \E owner \in OwnerId : owner \in Users
    /\ pc[r] = "running"
    /\ Write(r)
    /\ at' = [at EXCEPT ![r] = "log"]
    /\ UNCHANGED <<log, found>>

(* The foreign key inference_jobs.owner_id refuses any other owner. *)
OwnerUnknown(r) ==
    /\ at[r] = "job"
    /\ tx[r] = "open"
    /\ \E owner \in OwnerId : owner \notin Users
    /\ Raise(r, Unhandled)
    /\ UNCHANGED <<at, log, found>>

(* Variant: the log is written before the job. *)
InsertLogFirst(r) ==
    /\ at[r] \in {"job", "log"}
    /\ pc[r] = "running"
    /\ log' = [log EXCEPT ![r] = "present"]
    /\ at' = [at EXCEPT ![r] = IF @ = "log" THEN "return" ELSE @]
    /\ UNCHANGED <<svars, found>>

(* await inference_logs.insert_one(...), whatever became of the session's *)
(* transaction meanwhile. *)
InsertLog(r) ==
    /\ at[r] = "log"
    /\ pc[r] = "running"
    /\ log' = [log EXCEPT ![r] = "present"]
    /\ at' = [at EXCEPT ![r] = "return"]
    /\ UNCHANGED <<svars, found>>

(* Variant: a failure of the log is ignored. *)
IgnoreLogFailure(r) ==
    /\ r \in Faulty
    /\ at[r] = "log"
    /\ pc[r] = "running"
    /\ at' = [at EXCEPT ![r] = "return"]
    /\ UNCHANGED <<svars, log, found>>

(* insert_one raises; the document may have been inserted all the same. *)
InsertLogFails(r) ==
    /\ r \in Faulty
    /\ at[r] = "log"
    /\ Raise(r, Unhandled)
    /\ \E doc \in {"absent", "present"} : log' = [log EXCEPT ![r] = doc]
    /\ UNCHANGED <<at, found>>

(* A statement of the handler fails: no connection, or a broken one. *)
StatementFails(r) ==
    /\ r \in Faulty
    /\ at[r] = "job"
    /\ Raise(r, Unhandled)
    /\ UNCHANGED <<at, log, found>>

Accept(r) ==
    /\ at[r] = "return"
    /\ Return(r, 202)
    /\ UNCHANGED <<at, log, found>>

(* Variant: an exception of the commit is swallowed. *)
EndSessionSwallowing(r) ==
    /\ \/ Answer(r) \/ CommitOk(r)
       \/ /\ r \in Faulty /\ AtCommit(r)
          /\ pc' = [pc EXCEPT ![r] = "committed"]
          /\ UNCHANGED <<tx, code, reply>>
       \/ Rollback(r) \/ RollbackFails(r) \/ AnswerError(r)
    /\ UNCHANGED <<at, log, found>>

(* The end of the session.  Its COMMIT fails for a fault only: everything  *)
(* was flushed before.                                                     *)
EndSession(r) ==
    /\ \/ Answer(r) \/ CommitOk(r) \/ CommitLost(r)
       \/ (r \in Faulty /\ CommitFails(r))
       \/ Rollback(r) \/ RollbackFails(r) \/ AnswerError(r)
    /\ UNCHANGED <<at, log, found>>

Fault(r) ==
    /\ Crash(r) \/ Reap(r) \/ Resolve(r)
    /\ UNCHANGED <<at, log, found>>

-----------------------------------------------------------------------------
(* Variant: the status is that of the submission. *)
PollCode(r) ==
    /\ reply[r] = 202
    /\ found' = [found EXCEPT ![r] = IF tx[r] = "committed" THEN code[r] ELSE 404]
    /\ UNCHANGED <<svars, at, log>>

(* get_inference_status, asked by a client that was given the request_id. *)
Poll(r) ==
    /\ reply[r] = 202
    /\ found' = [found EXCEPT ![r] = IF tx[r] = "committed" THEN 200 ELSE 404]
    /\ UNCHANGED <<svars, at, log>>

(* The TTL index of inference_logs; rows of inference_jobs never expire. *)
ExpireLog(r) ==
    /\ log[r] = "present"
    /\ Abandoned(r)
    /\ log' = [log EXCEPT ![r] = "expired"]
    /\ UNCHANGED <<svars, at, found>>

-----------------------------------------------------------------------------
Submit(r) ==
    \/ Receive(r) \/ InsertJob(r) \/ OwnerUnknown(r) \/ StatementFails(r)
    \/ InsertLog(r) \/ InsertLogFails(r) \/ Accept(r) \/ EndSession(r)

Next == \E r \in Request : Submit(r) \/ Fault(r) \/ Poll(r) \/ ExpireLog(r)

Fairness == \A r \in Request :
    /\ WF_vars(pc[r] # "idle" /\ Submit(r))
    /\ WF_vars(Abandoned(r) /\ Fault(r))

Safe == Init /\ [][Next]_vars
Spec == Safe /\ Fairness

-----------------------------------------------------------------------------
TypeOK ==
    /\ SessionTypeOK
    /\ at \in [Request -> {"job", "log", "return"}]
    /\ log \in [Request -> {"absent", "present", "expired"}]
    /\ found \in [Request -> {NoReply, 200, 404}]

(* A job that is, or may yet turn out to be, in PostgreSQL was logged in   *)
(* MongoDB first: the handler commits only after insert_one has returned.  *)
JobWasLogged == \A r \in Request :
    tx[r] \in {"indoubt", "committed"} => log[r] # "absent"

(* Without faults the two stores agree on every finished submission, the   *)
(* refused ones included: the foreign key speaks before MongoDB is written.*)
StoresAgree == \A r \in Request \ Faulty :
    pc[r] = "done" => (log[r] # "absent" <=> tx[r] = "committed")

(* A request answered 202 by a session that commits first is never         *)
(* unknown to the status endpoint.                                         *)
AcceptedIsFound == \A r \in EarlyCommit : found[r] # 404

(* A job that the status endpoint has shown does not disappear.            *)
FoundStaysFound == [][\A r \in Request :
    found[r] = 200 => found'[r] = 200]_vars

(* A document without a job is the trace of a submission that was not      *)
(* accepted, whatever failed and in whichever order.                       *)
OrphanWasNotAccepted == \A r \in EarlyCommit :
    log[r] # "absent" /\ tx[r] = "aborted" => reply[r] # 202

(* inference.py:34 and :40: the endpoint submits the request and answers   *)
(* 202; with every store up, it has nothing else to answer.                *)
SubmissionIsAccepted == \A r \in Request \ Faulty :
    reply[r] \in {NoReply, 202}
=============================================================================
