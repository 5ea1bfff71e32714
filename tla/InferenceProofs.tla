---------------------------- MODULE InferenceProofs ----------------------------
(***************************************************************************)
(* Proofs about the two sides of inference.                                *)
(*                                                                         *)
(* InferenceSubmit, for any set of requests and any owners: every step of  *)
(* a submission is a step of its session or leaves the session alone, so   *)
(* what is proved of the session holds here; what the two stores have to   *)
(* do with each other is a second inductive invariant.                     *)
(*                                                                         *)
(* InferenceRegistry, for any number of processes, any models and any      *)
(* limits on a batch: a process that is up has the default models.         *)
(***************************************************************************)
EXTENDS InferenceSubmit, InferenceRegistry, DbSessionProofs

(* Every action of submit_inference and of its polls is a step of          *)
(* DbSession or leaves the session alone.                                  *)
LEMMA SessionStep ==
    ASSUME NEW q \in Request, Submit(q) \/ Fault(q) \/ Poll(q) \/ ExpireLog(q)
    PROVE  StepOf(q) \/ UNCHANGED svars
<1>. USE StatusFacts DEF StepOf, Handle, Finish, Database
<1>1. CASE Receive(q)
  BY <1>1 DEF Receive
<1>2. CASE InsertJob(q)
  BY <1>2 DEF InsertJob
<1>3. CASE OwnerUnknown(q) \/ InsertLogFails(q) \/ StatementFails(q)
  BY <1>3 DEF OwnerUnknown, InsertLogFails, StatementFails
<1>4. CASE Accept(q)
  <2>1. 202 \in Success
    BY DEF Success
  <2>. QED
    BY <1>4, <2>1 DEF Accept
<1>5. CASE EndSession(q)
  BY <1>5 DEF EndSession
<1>6. CASE Fault(q)
  BY <1>6 DEF Fault
<1>7. CASE InsertLog(q) \/ Poll(q) \/ ExpireLog(q)
  BY <1>7 DEF InsertLog, Poll, ExpireLog, svars
<1>. QED
  BY <1>1, <1>2, <1>3, <1>4, <1>5, <1>6, <1>7 DEF Submit

(* A submission goes through the steps of get_db_session and no others.    *)
THEOREM SubmissionIsASession == Safe => SessionSafe
<1>1. Init => SInit
  BY DEF Init
<1>2. [Next]_vars => [SNext]_svars
  BY SessionStep DEF Next, SNext, StepOf, vars, svars
<1>. QED
  BY <1>1, <1>2, PTL DEF Safe, SessionSafe

(* So the invariant of the session holds of every submission. *)
THEOREM SubmissionInvariant == Safe => []SessionInv
BY SubmissionIsASession, SessionInvariant, PTL

-----------------------------------------------------------------------------
OwnTypeOK ==
    /\ at \in [Request -> {"job", "log", "return"}]
    /\ log \in [Request -> {"absent", "present", "expired"}]
    /\ found \in [Request -> {NoReply, 200, 404}]

(* A handler that has returned has logged; whatever may be committed was   *)
(* returned; what was found is committed.                                  *)
LogInv(r) ==
    /\ pc[r] \in {"returned", "committed"} => at[r] = "return"
    /\ at[r] = "return" => log[r] # "absent"
    /\ tx[r] \in {"indoubt", "committed"} => log[r] # "absent"
    /\ found[r] = 200 => tx[r] = "committed"
    /\ found[r] = 404 => r \notin EarlyCommit

(* Without faults a log is only written once the row has been accepted,    *)
(* and then nothing stops the commit.                                      *)
AgreeInv(r) == r \notin Faulty =>
    /\ at[r] # "job" <=> tx[r] \in {"writing", "committed"}
    /\ log[r] = "absent" <=> at[r] # "return"
    /\ at[r] # "job" =>
         pc[r] \in {"running", "returned", "committed", "done"}
    /\ pc[r] = "done" => (at[r] = "return" => tx[r] = "committed")

SubmitInv == OwnTypeOK /\ \A r \in Request : LogInv(r) /\ AgreeInv(r)

(* Before any submission the invariant holds. *)
LEMMA SubmitInit == Init => SubmitInv
BY StatusFacts DEF Init, SInit, SubmitInv, OwnTypeOK, LogInv, AgreeInv, NoReply

(* A step keeps the handler's position, the log and the poll answers well  *)
(* typed.                                                                  *)
LEMMA SubmitType ==
    ASSUME OwnTypeOK, NEW q \in Request,
           Submit(q) \/ Fault(q) \/ Poll(q) \/ ExpireLog(q)
    PROVE  OwnTypeOK'
BY DEF OwnTypeOK, Submit, Receive, InsertJob, OwnerUnknown, StatementFails, InsertLog,
   InsertLogFails, Accept, EndSession, Fault, Poll, ExpireLog

(* A step of one submission leaves the log and position of the others      *)
(* alone.                                                                  *)
LEMMA SubmitOthers ==
    ASSUME SessionTypeOK, OwnTypeOK, NEW q \in Request,
           Submit(q) \/ Fault(q) \/ Poll(q) \/ ExpireLog(q),
           NEW r \in Request, r # q
    PROVE  /\ at'[r] = at[r] /\ log'[r] = log[r] /\ found'[r] = found[r]
           /\ pc'[r] = pc[r] /\ tx'[r] = tx[r]
           /\ code'[r] = code[r] /\ reply'[r] = reply[r]
<1>1. at'[r] = at[r] /\ log'[r] = log[r] /\ found'[r] = found[r]
  BY DEF OwnTypeOK, Submit, Receive, InsertJob, OwnerUnknown, StatementFails, InsertLog,
     InsertLogFails, Accept, EndSession, Fault, Poll, ExpireLog
<1>2. /\ pc'[r] = pc[r] /\ tx'[r] = tx[r]
      /\ code'[r] = code[r] /\ reply'[r] = reply[r]
  BY SessionStep, OthersUnchanged DEF svars
<1>. QED
  BY <1>1, <1>2

(* A step of submit_inference preserves the invariant for the request that *)
(* moves.                                                                  *)
LEMMA SubmitMover ==
    ASSUME SessionInv, OwnTypeOK, NEW q \in Request, LogInv(q), AgreeInv(q),
           Submit(q) \/ Fault(q) \/ Poll(q) \/ ExpireLog(q)
    PROVE  LogInv(q)' /\ AgreeInv(q)'
<1>0. SessionTypeOK /\ RequestInv(q)
  BY DEF SessionInv
<1>. USE <1>0, StatusFacts
     DEF SessionTypeOK, OwnTypeOK, RequestInv, PhaseInv, FaultInv, ReplyInv, LogInv, AgreeInv
<1>1. CASE Receive(q)
  BY <1>1 DEF Receive, Begin, Connect
<1>2. CASE InsertJob(q)
  BY <1>2 DEF InsertJob, Write
<1>3. CASE OwnerUnknown(q) \/ StatementFails(q)
  BY <1>3 DEF OwnerUnknown, StatementFails, Raise
<1>4. CASE InsertLog(q)
  BY <1>4 DEF InsertLog, svars
<1>5. CASE InsertLogFails(q)
  BY <1>5 DEF InsertLogFails, Raise
<1>6. CASE Accept(q)
  BY <1>6 DEF Accept, Return
<1>7. CASE EndSession(q)
  <2>1. at' = at /\ log' = log /\ found' = found
    BY <1>7 DEF EndSession
  <2>2. CASE Answer(q)
    BY <2>1, <2>2 DEF Answer
  <2>3. CASE CommitOk(q)
    BY <2>1, <2>3 DEF CommitOk, AtCommit
  <2>4. CASE CommitLost(q)
    BY <2>1, <2>4 DEF CommitLost, AtCommit
  <2>5. CASE q \in Faulty /\ CommitFails(q)
    BY <2>1, <2>5 DEF CommitFails, AtCommit
  <2>6. CASE Rollback(q)
    BY <2>1, <2>6 DEF Rollback, AfterRollback
  <2>7. CASE RollbackFails(q)
    BY <2>1, <2>7 DEF RollbackFails, AfterRollback
  <2>8. CASE AnswerError(q)
    BY <2>1, <2>8 DEF AnswerError
  <2>. QED
    BY <1>7, <2>2, <2>3, <2>4, <2>5, <2>6, <2>7, <2>8 DEF EndSession
<1>8. CASE Fault(q)
  BY <1>8 DEF Fault, Crash, Reap, Resolve
<1>9. CASE Poll(q)
  <2>1. 202 \in Success /\ NoReply # 200 /\ NoReply # 404
    BY DEF Success, NoReply
  <2>. QED
    BY <1>9, <2>1 DEF Poll, svars
<1>10. CASE ExpireLog(q)
  BY <1>10 DEF ExpireLog, Abandoned, svars
<1>. QED
  BY <1>1, <1>2, <1>3, <1>4, <1>5, <1>6, <1>7, <1>8, <1>9, <1>10 DEF Submit

(* Every step of the system preserves the invariant. *)
LEMMA SubmitNext == SessionInv /\ SubmitInv /\ [Next]_vars => SubmitInv'
<1>. SUFFICES ASSUME SessionInv, SubmitInv, [Next]_vars
              PROVE  SubmitInv'
  OBVIOUS
<1>1. CASE UNCHANGED vars
  BY <1>1 DEF vars, svars, SubmitInv, OwnTypeOK, LogInv, AgreeInv
<1>2. CASE Next
  <2>1. PICK q \in Request : Submit(q) \/ Fault(q) \/ Poll(q) \/ ExpireLog(q)
    BY <1>2 DEF Next
  <2>2. OwnTypeOK'
    BY <2>1, SubmitType DEF SubmitInv
  <2>3. ASSUME NEW r \in Request PROVE LogInv(r)' /\ AgreeInv(r)'
    <3>1. CASE r = q
      BY <2>1, <3>1, SubmitMover DEF SubmitInv
    <3>2. CASE r # q
      <4>1. /\ at'[r] = at[r] /\ log'[r] = log[r] /\ found'[r] = found[r]
            /\ pc'[r] = pc[r] /\ tx'[r] = tx[r]
            /\ code'[r] = code[r] /\ reply'[r] = reply[r]
        BY <2>1, <3>2, SubmitOthers DEF SessionInv, SubmitInv
      <4>. QED
        BY <4>1 DEF SubmitInv, LogInv, AgreeInv
    <3>. QED
      BY <3>1, <3>2
  <2>. QED
    BY <2>2, <2>3 DEF SubmitInv
<1>. QED
  BY <1>1, <1>2

(* SubmitInv holds throughout: submit_inference logs before it commits. *)
THEOREM SubmitInvariant == Safe => []SubmitInv
BY SubmitInit, SubmitNext, SubmissionInvariant, PTL DEF Safe

-----------------------------------------------------------------------------
(* The types of all variables of a submission. *)
THEOREM SubmitTypeCorrect == Safe => []TypeOK
<1>1. SessionInv /\ SubmitInv => TypeOK
  BY DEF SessionInv, SubmitInv, OwnTypeOK, TypeOK
<1>. QED
  BY <1>1, SubmissionInvariant, SubmitInvariant, PTL

(* No job is or can come to be in PostgreSQL that MongoDB never logged.    *)
THEOREM JobsWereLogged == Safe => []JobWasLogged
<1>1. SubmitInv => JobWasLogged
  BY DEF SubmitInv, LogInv, JobWasLogged
<1>. QED
  BY <1>1, SubmitInvariant, PTL

(* In the absence of faults the two stores agree on finished submissions.  *)
THEOREM FaultFreeStoresAgree == Safe => []StoresAgree
<1>1. SessionInv /\ SubmitInv => StoresAgree
  BY DEF SessionInv, SubmitInv, AgreeInv, LogInv, StoresAgree
<1>. QED
  BY <1>1, SubmissionInvariant, SubmitInvariant, PTL

(* A submission answered 202 by a session that commits first is always     *)
(* known to the status endpoint.                                           *)
THEOREM AcceptedAreFound == Safe => []AcceptedIsFound
<1>1. SubmitInv => AcceptedIsFound
  BY EarlyInRequest DEF SubmitInv, LogInv, AcceptedIsFound
<1>. QED
  BY <1>1, SubmitInvariant, PTL

(* A log without a job never belongs to an accepted submission.            *)
THEOREM OrphansWereNotAccepted == Safe => []OrphanWasNotAccepted
<1>1. SessionInv => OrphanWasNotAccepted
  BY EarlyInRequest DEF SessionInv, RequestInv, ReplyInv, OrphanWasNotAccepted, Success
<1>. QED
  BY <1>1, SubmissionInvariant, PTL

(* A job once found stays found. *)
THEOREM FoundJobsStayFound == Safe => FoundStaysFound
<1>1. SessionInv /\ SubmitInv /\ [Next]_vars =>
        [\A r \in Request : found[r] = 200 => found'[r] = 200]_vars
  <2>. SUFFICES ASSUME SessionInv, SubmitInv, Next, NEW r \in Request, found[r] = 200
                PROVE  found'[r] = 200
    OBVIOUS
  <2>1. PICK q \in Request : Submit(q) \/ Fault(q) \/ Poll(q) \/ ExpireLog(q)
    BY DEF Next
  <2>2. CASE r # q
    BY <2>1, <2>2, SubmitOthers DEF SessionInv, SubmitInv
  <2>3. CASE r = q /\ Poll(q)
    BY <2>3 DEF Poll, SubmitInv, LogInv, OwnTypeOK
  <2>4. CASE r = q /\ ~ Poll(q)
    BY <2>1, <2>4 DEF Submit, Receive, InsertJob, OwnerUnknown, StatementFails, InsertLog,
       InsertLogFails, Accept, EndSession, Fault, ExpireLog
  <2>. QED
    BY <2>2, <2>3, <2>4
<1>. QED
  BY <1>1, SubmissionInvariant, SubmitInvariant, PTL DEF Safe, FoundStaysFound

(* What a client may rely on is decided once and for all: a submission     *)
(* shows the promise of a request and nothing else.                        *)
THEOREM SubmissionImplementsOutcome == Safe => OutcomeSpec
BY SubmissionIsASession, SessionImplementsOutcome, PTL

-----------------------------------------------------------------------------
(* Nothing is raised in a submission that meets no fault. *)
AcceptInv(r) == r \notin Faulty =>
    /\ pc[r] \notin {"raised", "failing"}
    /\ code[r] \in {NoReply, 202} /\ reply[r] \in {NoReply, 202}

(* With every owner known, only a fault makes a submission raise. *)
LEMMA AcceptStep ==
    ASSUME OwnerId \subseteq Users, SessionInv, NEW q \in Request, AcceptInv(q),
           Submit(q) \/ Fault(q) \/ Poll(q) \/ ExpireLog(q)
    PROVE  AcceptInv(q)'
<1>. USE DEF SessionInv, SessionTypeOK, AcceptInv
<1>1. CASE Receive(q)
  BY <1>1 DEF Receive, Begin, Connect
<1>2. CASE InsertJob(q)
  BY <1>2 DEF InsertJob, Write
<1>3. CASE OwnerUnknown(q)
  BY <1>3 DEF OwnerUnknown
<1>4. CASE InsertLog(q) \/ Poll(q) \/ ExpireLog(q)
  BY <1>4 DEF InsertLog, Poll, ExpireLog, svars
<1>5. CASE InsertLogFails(q) \/ StatementFails(q)
  BY <1>5 DEF InsertLogFails, StatementFails
<1>6. CASE Accept(q)
  BY <1>6 DEF Accept, Return
<1>7. CASE EndSession(q)
  BY <1>7 DEF EndSession, Answer, CommitOk, CommitLost, CommitFails, AtCommit, Rollback,
     RollbackFails, AnswerError
<1>8. CASE Fault(q)
  BY <1>8 DEF Fault, Crash, Reap, Resolve
<1>. QED
  BY <1>1, <1>2, <1>3, <1>4, <1>5, <1>6, <1>7, <1>8 DEF Submit

(* What inference.py:34 and :40 say holds once the owner a handler draws   *)
(* is always a row of users: nothing but the placeholder owner refuses a   *)
(* submission that meets no fault.                                         *)
THEOREM KnownOwnersAreAccepted ==
    ASSUME OwnerId \subseteq Users
    PROVE  Safe => []SubmissionIsAccepted
<1>. DEFINE Inv == \A r \in Request : AcceptInv(r)
<1>1. Init => Inv
  BY DEF Init, SInit, AcceptInv
<1>2. SessionInv /\ OwnTypeOK /\ Inv /\ [Next]_vars => Inv'
  <2>. SUFFICES ASSUME SessionInv, OwnTypeOK, Inv, [Next]_vars, NEW r \in Request
                PROVE  AcceptInv(r)'
    OBVIOUS
  <2>1. CASE UNCHANGED vars
    BY <2>1 DEF vars, svars, AcceptInv
  <2>2. CASE Next
    <3>1. PICK q \in Request : Submit(q) \/ Fault(q) \/ Poll(q) \/ ExpireLog(q)
      BY <2>2 DEF Next
    <3>2. CASE r = q
      BY <3>1, <3>2, AcceptStep
    <3>3. CASE r # q
      <4>1. pc'[r] = pc[r] /\ code'[r] = code[r] /\ reply'[r] = reply[r]
        BY <3>1, <3>3, SubmitOthers DEF SessionInv
      <4>. QED
        BY <4>1 DEF AcceptInv
    <3>. QED
      BY <3>2, <3>3
  <2>. QED
    BY <2>1, <2>2
<1>3. Inv => SubmissionIsAccepted
  BY DEF AcceptInv, SubmissionIsAccepted
<1>4. SubmitInv => OwnTypeOK
  BY DEF SubmitInv
<1>. HIDE DEF Inv
<1>. QED
  BY <1>1, <1>2, <1>3, <1>4, SubmissionInvariant, SubmitInvariant, PTL DEF Safe

-----------------------------------------------------------------------------
(* A process that is up has at least the default models. *)
ModelsInv(p) == state[p] # "down" => Default \subseteq models[p]

RegistryInv == RegistryTypeOK /\ \A p \in Process : ModelsInv(p)

(* One action of one process preserves the invariant.                      *)
LEMMA RegistryStep ==
    ASSUME RegistryAssumption, RegistryInv, NEW q \in Process,
           \/ Import(q) \/ StartUp(q) \/ Stop(q)
           \/ \E m \in Model : Load(q, m)
    PROVE  RegistryInv'
<1>. USE DEF RegistryAssumption, RegistryInv, RegistryTypeOK, ModelsInv
<1>1. CASE Import(q)
  BY <1>1 DEF Import
<1>2. CASE StartUp(q)
  BY <1>2 DEF StartUp
<1>3. CASE Stop(q)
  BY <1>3 DEF Stop
<1>4. ASSUME NEW m \in Model, Load(q, m)
      PROVE  RegistryInv'
  BY <1>4 DEF Load
<1>. QED
  BY <1>1, <1>2, <1>3, <1>4

(* However processes start, load and restart, one that is up has the       *)
(* default models and its registry holds models only.                      *)
THEOREM RegistryInvariant ==
    ASSUME RegistryAssumption
    PROVE  RegistrySpec => []RegistryInv
<1>1. RegistryInit => RegistryInv
  BY DEF RegistryInit, RegistryInv, RegistryTypeOK, ModelsInv
<1>2. RegistryInv /\ [RegistryNext]_rvars => RegistryInv'
  <2>. SUFFICES ASSUME RegistryInv, [RegistryNext]_rvars
                PROVE  RegistryInv'
    OBVIOUS
  <2>1. CASE UNCHANGED rvars
    BY <2>1 DEF rvars, RegistryInv, RegistryTypeOK, ModelsInv
  <2>2. CASE RegistryNext
    BY <2>2, RegistryStep DEF RegistryNext
  <2>. QED
    BY <2>1, <2>2
<1>. QED
  BY <1>1, <1>2, PTL DEF RegistrySpec

(* In a state with the invariant, a listed model is served to the size it  *)
(* is listed with exactly when that is within the enforced limit.          *)
LEMMA ServedToTheLimit ==
    ASSUME RegistryAssumption, RegistryInv, NEW p \in Process,
           state[p] = "serving", NEW m \in DOMAIN Catalogue
    PROVE  /\ PredictCode(p, m) = 200
           /\ (\A n \in 0..Catalogue[m] : BatchCode(p, m, n) = 200)
                <=> Catalogue[m] <= MaxBatchSize
<1>1. m \in models[p] /\ Catalogue[m] \in Nat /\ MaxBatchSize \in Nat
  BY DEF RegistryAssumption, RegistryInv, ModelsInv
<1>2. PredictCode(p, m) = 200
  BY <1>1 DEF PredictCode
<1>3. \A n \in Nat : BatchCode(p, m, n) = 200 <=> n <= MaxBatchSize
  BY <1>1, <1>2 DEF BatchCode
<1>4. ASSUME Catalogue[m] <= MaxBatchSize, NEW n \in 0..Catalogue[m]
      PROVE  BatchCode(p, m, n) = 200
  BY <1>1, <1>3, <1>4
<1>5. ASSUME \A n \in 0..Catalogue[m] : BatchCode(p, m, n) = 200
      PROVE  Catalogue[m] <= MaxBatchSize
  BY <1>1, <1>3, <1>5
<1>. QED
  BY <1>2, <1>4, <1>5

(* The listed limits alone decide whether the catalogue is honoured: where *)
(* none is above the enforced one, no start, load or restart of a process  *)
(* makes it refuse what is listed; where one is, every serving process     *)
(* refuses a listed batch.                                                 *)
THEOREM CatalogueServedWithinLimit ==
    ASSUME RegistryAssumption
    PROVE  RegistrySpec => [](
             IF \A m \in DOMAIN Catalogue : Catalogue[m] <= MaxBatchSize
               THEN CatalogueIsServed
               ELSE CatalogueIsServed => \A p \in Process : state[p] # "serving")
<1>. DEFINE Within == \A m \in DOMAIN Catalogue : Catalogue[m] <= MaxBatchSize
<1>1. ASSUME RegistryInv, Within PROVE CatalogueIsServed
  BY <1>1, ServedToTheLimit DEF CatalogueIsServed
<1>2. ASSUME RegistryInv, ~ Within, CatalogueIsServed, NEW p \in Process
      PROVE  state[p] # "serving"
  <2>1. PICK m \in DOMAIN Catalogue : ~ (Catalogue[m] <= MaxBatchSize)
    BY <1>2
  <2>. SUFFICES ASSUME state[p] = "serving" PROVE FALSE
    OBVIOUS
  <2>2. \A n \in 0..Catalogue[m] : BatchCode(p, m, n) = 200
    BY <1>2 DEF CatalogueIsServed
  <2>. QED
    BY <1>2, <2>1, <2>2, ServedToTheLimit
<1>3. RegistryInv => IF Within
                       THEN CatalogueIsServed
                       ELSE CatalogueIsServed => \A p \in Process : state[p] # "serving"
  BY <1>1, <1>2
<1>. QED
  BY <1>3, RegistryInvariant, PTL
=============================================================================
