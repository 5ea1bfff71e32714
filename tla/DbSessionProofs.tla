--------------------------- MODULE DbSessionProofs ---------------------------
(***************************************************************************)
(* Proofs about DbSession, for any set of requests, whichever of them      *)
(* commit late and whichever of them meet faults.  The safety properties   *)
(* of the session follow from one inductive invariant, which says for each *)
(* control state what the transaction and the two status codes may be.     *)
(***************************************************************************)
EXTENDS DbSession, TLAPS

(* What each control state says of the rest of the request. *)
PhaseInv(r) ==
    /\ pc[r] = "idle" =>
         tx[r] = "none" /\ reply[r] = NoReply
    /\ pc[r] = "running" =>
         tx[r] \in {"none", "open", "writing", "aborted"} /\ reply[r] = NoReply
    /\ pc[r] = "returned" =>
         /\ tx[r] \in {"open", "writing", "aborted"}
         /\ code[r] \in Success
         /\ reply[r] = NoReply \/ (r \notin EarlyCommit /\ reply[r] \in Success)
    /\ pc[r] = "committed" =>
         tx[r] = "committed" /\ code[r] \in Success /\ reply[r] = NoReply
    /\ pc[r] = "raised" =>
         /\ code[r] \in Refusal \cup {Unhandled}
         /\ code[r] \in Refusal =>
              tx[r] \in {"open", "writing", "aborted"} /\ reply[r] = NoReply
         /\ reply[r] = NoReply \/ (r \notin EarlyCommit /\ reply[r] \in Success)
    /\ pc[r] = "failing" =>
         /\ code[r] \in Refusal \cup {Unhandled}
         /\ code[r] \in Refusal => tx[r] = "aborted"
         /\ reply[r] = NoReply

(* Who may be left with an unresolved transaction. *)
FaultInv(r) ==
    /\ tx[r] = "indoubt" => r \in Faulty
    /\ pc[r] \in {"failing", "done"} /\ tx[r] \in Unresolved => r \in Faulty

(* What the reply says of the transaction. *)
ReplyInv(r) ==
    /\ r \in EarlyCommit /\ reply[r] \in Success => tx[r] = "committed"
    /\ reply[r] \in Refusal => tx[r] = "aborted"

RequestInv(r) == PhaseInv(r) /\ FaultInv(r) /\ ReplyInv(r)

SessionInv == SessionTypeOK /\ \A r \in Request : RequestInv(r)

(* The statuses are five different kinds of number. *)
LEMMA StatusFacts ==
    /\ NoReply \notin Status
    /\ Success \cap Refusal = {} /\ Unhandled \notin Success \cup Refusal
    /\ Success \subseteq Status /\ Refusal \subseteq Status /\ Unhandled \in Status
BY DEF NoReply, Status, Success, Refusal, Unhandled

(* EarlyCommit and the other sets of requests contain requests only. *)
LEMMA EarlyInRequest == EarlyCommit \subseteq Request
BY SessionAssumption

-----------------------------------------------------------------------------
(* Before any request the invariant holds. *)
LEMMA InitInv == SInit => SessionInv
BY StatusFacts DEF SInit, SessionInv, SessionTypeOK, RequestInv, PhaseInv, FaultInv,
   ReplyInv, Unresolved

(* A step of one request leaves every other request as it is. *)
StepOf(q) == Begin(q) \/ Handle(q) \/ Finish(q) \/ Crash(q) \/ Database(q)

(* A step of a request (routing, handler, get_db_session, fault) keeps     *)
(* every variable well typed.                                              *)
LEMMA TypeStep ==
    ASSUME SessionTypeOK, NEW q \in Request, StepOf(q)
    PROVE  SessionTypeOK'
<1>. USE StatusFacts DEF SessionTypeOK
<1>1. CASE Begin(q) \/ Connect(q) \/ Write(q)
  BY <1>1 DEF Begin, Connect, Write, Unresolved
<1>2. CASE \E c \in Success : Return(q, c)
  BY <1>2 DEF Return
<1>3. CASE \E c \in Refusal \cup {Unhandled} : Raise(q, c)
  BY <1>3 DEF Raise
<1>4. CASE Answer(q) \/ AnswerError(q)
  BY <1>4 DEF Answer, AnswerError
<1>5. CASE CommitOk(q)
  BY <1>5 DEF CommitOk
<1>6. CASE CommitFails(q) \/ CommitLost(q) \/ ReadBackFails(q)
  BY <1>6 DEF CommitFails, CommitLost, ReadBackFails, Unresolved
<1>7. CASE Rollback(q) \/ RollbackFails(q)
  BY <1>7 DEF Rollback, RollbackFails, AfterRollback
<1>8. CASE Crash(q)
  BY <1>8 DEF Crash
<1>9. CASE Reap(q) \/ Resolve(q)
  BY <1>9 DEF Reap, Resolve
<1>. QED
  BY <1>1, <1>2, <1>3, <1>4, <1>5, <1>6, <1>7, <1>8, <1>9
  DEF StepOf, Handle, Finish, Database

(* A step of one request leaves every other request as it is: sessions are *)
(* not shared.                                                             *)
LEMMA OthersUnchanged ==
    ASSUME SessionTypeOK, NEW q \in Request, StepOf(q),
           NEW r \in Request, r # q
    PROVE  /\ pc'[r] = pc[r] /\ tx'[r] = tx[r]
           /\ code'[r] = code[r] /\ reply'[r] = reply[r]
BY DEF SessionTypeOK, StepOf, Handle, Finish, Database, Begin, Connect, Write, Return,
   Raise, Answer, AnswerError, CommitOk, CommitFails, CommitLost, ReadBackFails,
   Rollback, RollbackFails, Crash, Reap, Resolve

(* The request that moves keeps the invariant: one step per action. *)
LEMMA MoverInv ==
    ASSUME SessionTypeOK, NEW q \in Request, RequestInv(q), StepOf(q)
    PROVE  RequestInv(q)'
<1>. USE StatusFacts
     DEF SessionTypeOK, RequestInv, PhaseInv, FaultInv, ReplyInv, Unresolved
<1>1. CASE Begin(q)
  BY <1>1 DEF Begin
<1>2. CASE Connect(q)
  BY <1>2 DEF Connect
<1>3. CASE Write(q)
  BY <1>3 DEF Write, AtCommit
<1>4. CASE \E c \in Success : Return(q, c)
  BY <1>4 DEF Return
<1>5. CASE \E c \in Refusal \cup {Unhandled} : Raise(q, c)
  BY <1>5 DEF Raise
<1>6. CASE Answer(q)
  BY <1>6 DEF Answer
<1>7. CASE CommitOk(q)
  BY <1>7 DEF CommitOk, AtCommit
<1>8. CASE CommitFails(q)
  BY <1>8 DEF CommitFails, AtCommit
<1>9. CASE CommitLost(q)
  BY <1>9 DEF CommitLost, AtCommit
<1>10. CASE ReadBackFails(q)
  BY <1>10 DEF ReadBackFails
<1>11. CASE Rollback(q)
  BY <1>11 DEF Rollback, AfterRollback
<1>12. CASE RollbackFails(q)
  BY <1>12 DEF RollbackFails, AfterRollback
<1>13. CASE AnswerError(q)
  BY <1>13 DEF AnswerError
<1>14. CASE Crash(q)
  BY <1>14 DEF Crash
<1>15. CASE Reap(q)
  BY <1>15 DEF Reap
<1>16. CASE Resolve(q)
  BY <1>16 DEF Resolve
<1>. QED
  BY <1>1, <1>2, <1>3, <1>4, <1>5, <1>6, <1>7, <1>8, <1>9, <1>10, <1>11, <1>12,
     <1>13, <1>14, <1>15, <1>16
  DEF StepOf, Handle, Finish, Database

(* Every step of the system preserves the invariant. *)
LEMMA NextInv == SessionInv /\ [SNext]_svars => SessionInv'
<1>. SUFFICES ASSUME SessionInv, [SNext]_svars
              PROVE  SessionInv'
  OBVIOUS
<1>1. CASE UNCHANGED svars
  BY <1>1 DEF svars, SessionInv, SessionTypeOK, RequestInv, PhaseInv, FaultInv, ReplyInv
<1>2. CASE SNext
  <2>1. PICK q \in Request : StepOf(q)
    BY <1>2 DEF SNext, StepOf
  <2>2. SessionTypeOK'
    BY <2>1, TypeStep DEF SessionInv
  <2>3. ASSUME NEW r \in Request PROVE RequestInv(r)'
    <3>1. CASE r = q
      BY <2>1, <3>1, MoverInv DEF SessionInv
    <3>2. CASE r # q
      <4>1. /\ pc'[r] = pc[r] /\ tx'[r] = tx[r]
            /\ code'[r] = code[r] /\ reply'[r] = reply[r]
        BY <2>1, <3>2, OthersUnchanged DEF SessionInv
      <4>. QED
        BY <4>1 DEF SessionInv, RequestInv, PhaseInv, FaultInv, ReplyInv
    <3>. QED
      BY <3>1, <3>2
  <2>. QED
    BY <2>2, <2>3 DEF SessionInv
<1>. QED
  BY <1>1, <1>2

(* Every reachable state of the session satisfies the invariant. *)
THEOREM SessionInvariant == SessionSafe => []SessionInv
<1>1. SInit => SessionInv
  BY InitInv
<1>2. SessionInv /\ [SNext]_svars => SessionInv'
  BY NextInv
<1>. QED
  BY <1>1, <1>2, PTL DEF SessionSafe

-----------------------------------------------------------------------------
(* The variables of the session keep their types. *)
THEOREM TypeCorrect == SessionSafe => []SessionTypeOK
BY SessionInvariant, PTL DEF SessionInv

(* What a client is told is true of the database: successes of requests    *)
(* that commit first are kept, refusals have left nothing.                 *)
THEOREM RepliesAreTruthful == SessionSafe => []ReplyIsTruthful
<1>1. SessionInv => ReplyIsTruthful
  BY DEF SessionInv, RequestInv, ReplyInv, ReplyIsTruthful
<1>. QED
  BY <1>1, SessionInvariant, PTL

(* Only a faulty request, and not one that was refused, ends with its      *)
(* transaction still open in PostgreSQL.                                   *)
THEOREM EndsAreResolved == SessionSafe => []EndsResolved
<1>1. SessionInv => EndsResolved
  BY DEF SessionInv, RequestInv, ReplyInv, FaultInv, EndsResolved, Unresolved
<1>. QED
  BY <1>1, SessionInvariant, PTL

(* A response, once sent, and a transaction, once ended, never change: in  *)
(* particular the rollback that follows a failed read-back or a lost       *)
(* COMMIT does not take back what PostgreSQL has committed.                *)
OutcomeIsFinal == [][\A r \in Request :
    /\ reply[r] # NoReply => reply'[r] = reply[r]
    /\ tx[r] \in {"committed", "aborted"} => tx'[r] = tx[r]]_svars

(* Replies and ended transactions never change. *)
THEOREM OutcomesAreFinal == SessionSafe => OutcomeIsFinal
<1> DEFINE Final(r) ==
      /\ reply[r] # NoReply => reply'[r] = reply[r]
      /\ tx[r] \in {"committed", "aborted"} => tx'[r] = tx[r]
<1>1. SessionInv /\ [SNext]_svars => [\A r \in Request : Final(r)]_svars
  <2>. SUFFICES ASSUME SessionInv, SNext, NEW r \in Request
                PROVE  Final(r)
    OBVIOUS
  <2>1. PICK q \in Request : StepOf(q)
    BY DEF SNext, StepOf
  <2>2. CASE r # q
    BY <2>1, <2>2, OthersUnchanged DEF SessionInv
  <2>3. CASE r = q
    <3>. USE <2>1, <2>3 DEF SessionInv, SessionTypeOK
    <3>1. reply[r] # NoReply => reply'[r] = reply[r]
      BY DEF RequestInv, PhaseInv, StepOf, Handle, Finish, Database, Begin, Connect,
         Write, Return, Raise, Answer, AnswerError, CommitOk, CommitFails, CommitLost,
         ReadBackFails, Rollback, RollbackFails, Crash, Reap, Resolve
    <3>2. tx[r] \in {"committed", "aborted"} => tx'[r] = tx[r]
      BY DEF StepOf, Handle, Finish, Database, Begin, Connect,
         Write, Return, Raise, Answer, AnswerError, CommitOk, CommitFails, CommitLost,
         ReadBackFails, Rollback, RollbackFails, Crash, Reap, Resolve
    <3>. QED
      BY <3>1, <3>2
  <2>. QED
    BY <2>2, <2>3
<1>. QED
  BY <1>1, SessionInvariant, PTL DEF SessionSafe, OutcomeIsFinal

-----------------------------------------------------------------------------
(* The transaction of the mover determines the effect of its step. *)
LEMMA EffectOf ==
    ASSUME NEW r \in Request
    PROVE  /\ tx[r] = "committed" => Effect[r] = "kept"
           /\ tx[r] = "aborted" => Effect[r] = "dropped"
           /\ tx[r] \notin {"committed", "aborted"} => Effect[r] = "undecided"
BY DEF Effect

(* A step that ends no transaction leaves the effects as they are, one     *)
(* that ends that of q decides the effect of q and of no other request.    *)
LEMMA EffectUnchanged ==
    ASSUME NEW q \in Request,
           \A r \in Request \ {q} : tx'[r] = tx[r],
           \/ tx'[q] = tx[q]
           \/ tx[q] \notin {"committed", "aborted"}
              /\ tx'[q] \notin {"committed", "aborted"}
    PROVE  Effect' = Effect
BY DEF Effect

(* What the decision of one transaction does to Effect. *)
LEMMA EffectDecided ==
    ASSUME NEW q \in Request, NEW e \in {"kept", "dropped"},
           \A r \in Request \ {q} : tx'[r] = tx[r],
           tx'[q] = IF e = "kept" THEN "committed" ELSE "aborted"
    PROVE  Effect' = [Effect EXCEPT ![q] = e]
BY DEF Effect

(* Every step of the session is a step of its promise, or none. *)
LEMMA OutcomeStep ==
    ASSUME SessionInv, NEW q \in Request, StepOf(q)
    PROVE  Outcome!Next \/ UNCHANGED Outcome!vars
<1>. DEFINE Undecided == tx[q] \notin {"committed", "aborted"}
            Quiet == tx'[q] = tx[q] \/ (Undecided /\ tx'[q] \notin {"committed", "aborted"})
<1>. USE StatusFacts DEF SessionInv, SessionTypeOK
<1>0. \A r \in Request \ {q} : tx'[r] = tx[r]
  BY OthersUnchanged
<1>a. RequestInv(q)
  OBVIOUS
<1>1. CASE \/ Begin(q) \/ Handle(q) \/ CommitFails(q) \/ CommitLost(q)
           \/ ReadBackFails(q) \/ RollbackFails(q) \/ Crash(q)
  <2>1. reply' = reply /\ Quiet
    BY <1>1 DEF Begin, Handle, Connect, Write, Return, Raise, CommitFails, CommitLost,
       ReadBackFails, RollbackFails, Crash
  <2>2. Effect' = Effect
    BY <1>0, <2>1, EffectUnchanged
  <2>. QED
    BY <2>1, <2>2 DEF Outcome!vars
<1>2. ASSUME reply' = reply, Undecided, tx'[q] = "committed", reply[q] \notin Refusal
      PROVE  Outcome!Next
  <2>1. Effect' = [Effect EXCEPT ![q] = "kept"] /\ Effect[q] = "undecided"
    BY <1>0, <1>2, EffectDecided, EffectOf
  <2>. QED
    BY <1>2, <2>1 DEF Outcome!Next, Outcome!Keep
<1>3. ASSUME reply' = reply, Undecided, tx'[q] = "aborted",
             q \in EarlyCommit => reply[q] \notin Success
      PROVE  Outcome!Next
  <2>1. Effect' = [Effect EXCEPT ![q] = "dropped"] /\ Effect[q] = "undecided"
    BY <1>0, <1>3, EffectDecided, EffectOf
  <2>. QED
    BY <1>3, <2>1 DEF Outcome!Next, Outcome!Drop
<1>b. Undecided => /\ reply[q] \notin Refusal
                   /\ q \in EarlyCommit => reply[q] \notin Success
  BY <1>a DEF RequestInv, ReplyInv
<1>4. CASE CommitOk(q)
  <2>1. reply' = reply /\ Undecided /\ tx'[q] = "committed"
    BY <1>4 DEF CommitOk
  <2>. QED
    BY <2>1, <1>2, <1>b
<1>5. CASE Rollback(q)
  <2>1. reply' = reply /\ (Quiet \/ (Undecided /\ tx'[q] = "aborted"))
    BY <1>5 DEF Rollback
  <2>2. CASE Quiet
    <3>1. Effect' = Effect
      BY <1>0, <2>2, EffectUnchanged
    <3>. QED
      BY <2>1, <3>1 DEF Outcome!vars
  <2>. QED
    BY <2>1, <2>2, <1>3, <1>b
<1>6. CASE Database(q)
  <2>1. reply' = reply /\ Undecided /\ tx'[q] \in {"committed", "aborted"}
    BY <1>6 DEF Database, Reap, Resolve
  <2>. QED
    BY <2>1, <1>2, <1>3, <1>b
<1>7. CASE Answer(q) \/ AnswerError(q)
  <2>1. /\ tx' = tx /\ reply[q] = NoReply
        /\ reply' = [reply EXCEPT ![q] = code[q]] /\ code[q] \in Status
        /\ code[q] \in Success /\ q \in EarlyCommit => tx[q] = "committed"
        /\ code[q] \in Refusal => tx[q] = "aborted"
    BY <1>7, <1>a DEF Answer, AnswerError, RequestInv, PhaseInv
  <2>2. Effect' = Effect
    BY <2>1, EffectUnchanged
  <2>3. Outcome!Tell(q, code[q])
    BY <2>1, <2>2, EffectOf DEF Outcome!Tell
  <2>. QED
    BY <2>1, <2>3 DEF Outcome!Next
<1>. QED
  BY <1>1, <1>4, <1>5, <1>6, <1>7 DEF StepOf, Finish

(* The session implements its promise: a success that commits first is     *)
(* kept, a refusal is dropped, both once and for all.                      *)
THEOREM SessionImplementsOutcome == SessionSafe => OutcomeSpec
<1>1. SInit => Outcome!Init
  BY EffectOf DEF SInit, Outcome!Init, Effect
<1>2. SessionInv /\ [SNext]_svars => [Outcome!Next]_(Outcome!vars)
  <2>. SUFFICES ASSUME SessionInv, [SNext]_svars
                PROVE  Outcome!Next \/ UNCHANGED Outcome!vars
    OBVIOUS
  <2>1. CASE SNext
    BY <2>1, OutcomeStep DEF SNext, StepOf
  <2>2. CASE UNCHANGED svars
    BY <2>2 DEF svars, Outcome!vars, Effect
  <2>. QED
    BY <2>1, <2>2
<1>. QED
  BY <1>1, <1>2, SessionInvariant, PTL DEF SessionSafe, OutcomeSpec, Outcome!Spec

-----------------------------------------------------------------------------
(* How far a request and its transaction are from their end: the phase of  *)
(* the request counts most, then its transaction, then its answer.         *)
PhaseRank(r) ==
    CASE pc[r] = "idle" -> 60
      [] pc[r] = "running" -> 50
      [] pc[r] = "returned" -> 40
      [] pc[r] = "committed" -> 30
      [] pc[r] = "raised" -> 20
      [] pc[r] = "failing" -> 10
      [] OTHER -> 0

TxRank(r) ==
    CASE tx[r] = "none" -> 8
      [] tx[r] = "open" -> 6
      [] tx[r] = "writing" -> 4
      [] tx[r] = "indoubt" -> 2
      [] OTHER -> 0

Rank(r) == PhaseRank(r) + TxRank(r) + IF reply[r] = NoReply THEN 1 ELSE 0

(* Whatever happens in a session, faults included, takes its request or    *)
(* its transaction nearer to the end.                                      *)
LEMMA StepLowersRank ==
    ASSUME SessionInv, NEW q \in Request, StepOf(q)
    PROVE  Rank(q)' < Rank(q)
<1>. USE StatusFacts DEF SessionInv, SessionTypeOK, RequestInv, PhaseInv, Rank, PhaseRank,
         TxRank, Unresolved
<1>1. CASE Begin(q)
  BY <1>1 DEF Begin
<1>2. CASE Connect(q)
  BY <1>2 DEF Connect
<1>3. CASE Write(q)
  BY <1>3 DEF Write, AtCommit
<1>4. CASE (\E c \in Success : Return(q, c)) \/ (\E c \in Refusal \cup {Unhandled} : Raise(q, c))
  BY <1>4 DEF Return, Raise
<1>5. CASE Answer(q)
  BY <1>5 DEF Answer
<1>6. CASE CommitOk(q) \/ CommitFails(q) \/ CommitLost(q)
  BY <1>6 DEF CommitOk, CommitFails, CommitLost, AtCommit
<1>7. CASE ReadBackFails(q)
  BY <1>7 DEF ReadBackFails
<1>8. CASE Rollback(q) \/ RollbackFails(q)
  BY <1>8 DEF Rollback, RollbackFails, AfterRollback
<1>9. CASE AnswerError(q)
  BY <1>9 DEF AnswerError
<1>10. CASE Crash(q)
  BY <1>10 DEF Crash
<1>11. CASE Reap(q) \/ Resolve(q)
  BY <1>11 DEF Reap, Resolve
<1>. QED
  BY <1>1, <1>2, <1>3, <1>4, <1>5, <1>6, <1>7, <1>8, <1>9, <1>10, <1>11
     DEF StepOf, Handle, Finish, Database

(* Every step is progress of one request and no loss to any other, so that *)
(* a request makes at most 69 steps: what EveryRequestEnds leaves to the   *)
(* fairness is that a step that can be made is made.                       *)
StepsAreProgress == [][
    /\ \E q \in Request : Rank(q)' < Rank(q)
    /\ \A r \in Request : Rank(r) \in 0..69 /\ Rank(r)' <= Rank(r)]_svars

(* So no request steps for ever, whatever fails. *)
THEOREM SessionsProgress == SessionSafe => StepsAreProgress
<1>1. SessionInv /\ [SNext]_svars =>
        [ /\ \E q \in Request : Rank(q)' < Rank(q)
          /\ \A r \in Request : Rank(r) \in 0..69 /\ Rank(r)' <= Rank(r)]_svars
  <2>. SUFFICES ASSUME SessionInv, SNext
                PROVE  /\ \E q \in Request : Rank(q)' < Rank(q)
                       /\ \A r \in Request : Rank(r) \in 0..69 /\ Rank(r)' <= Rank(r)
    OBVIOUS
  <2>1. PICK q \in Request : StepOf(q)
    BY DEF SNext, StepOf
  <2>2. Rank(q)' < Rank(q)
    BY <2>1, StepLowersRank
  <2>3. ASSUME NEW r \in Request PROVE Rank(r) \in 0..69 /\ Rank(r)' <= Rank(r)
    <3>1. Rank(r) \in 0..69
      BY DEF Rank, PhaseRank, TxRank
    <3>2. CASE r = q
      BY <2>2, <3>1, <3>2 DEF Rank, PhaseRank, TxRank
    <3>3. CASE r # q
      <4>1. pc'[r] = pc[r] /\ tx'[r] = tx[r] /\ reply'[r] = reply[r]
        BY <2>1, <3>3, OthersUnchanged DEF SessionInv
      <4>. QED
        BY <3>1, <4>1 DEF Rank, PhaseRank, TxRank
    <3>. QED
      BY <3>1, <3>2, <3>3
  <2>. QED
    BY <2>2, <2>3
<1>. QED
  BY <1>1, SessionInvariant, PTL DEF SessionSafe, StepsAreProgress
=============================================================================
