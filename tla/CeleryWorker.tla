----------------------------- MODULE CeleryWorker -----------------------------
(***************************************************************************)
(* The Celery workers of worker-service, their queues in Redis and the     *)
(* result backend.                                                         *)
(*                                                                         *)
(* A task is sent once; a message for it waits in the queue it is routed   *)
(* to.  Because of task_acks_late a message stays unacknowledged while a   *)
(* pool process runs the task, and it is delivered again when the process  *)
(* is lost (task_reject_on_worker_lost, visibility timeout) or the         *)
(* connection to the broker is.  An exception, the soft time limit         *)
(* included, makes a RetryTask publish a new message with one retry more;  *)
(* the hard limit kills the process and fails the task.  Backoff is        *)
(* abstracted to a message that waits.  The intermediate states STARTED    *)
(* and RETRY of the backend are left out, and so is the expiry of results. *)
(***************************************************************************)
EXTENDS Integers, FiniteSets

CONSTANTS
    Task,        \* the tasks that are sent
    RetryTask,   \* those whose base class is RetryTask
    Queue,       \* the queues; Redis keeps each under one key
    Route,       \* Route[t]: the queue of t
    Worker,      \* the pool processes of all workers
    MaxRetries,  \* max_retries of RetryTask
    MaxLosses,   \* bound: deliveries of one task that may be lost
    Poison,      \* the tasks that may kill their process however often they run
    Idle         \* no message

ASSUME CeleryAssumption ==
    /\ RetryTask \subseteq Task
    /\ Route \in [Task -> Queue]
    /\ MaxRetries \in Nat /\ MaxLosses \in Nat
    /\ Poison \subseteq Task
    /\ Poison # {} => MaxLosses > 0  \* or their losses would not be counted

VARIABLES
    waiting,  \* waiting[t, k]: how many messages for the k-th retry of t wait
    held,     \* held[w]: the message process w has taken and not acknowledged
    result,   \* result[t]: what the backend says of t
    lost,     \* lost[t]: deliveries of t that were lost, up to MaxLosses
    raised    \* raised[t]: runs of t that raised, up to MaxRetries + 1

vars == <<waiting, held, result, lost, raised>>

Tries == 0..MaxRetries

(* ours: the broker still counts the message as delivered to this process. *)
Message == [task : Task, tries : Tries, stage : {"running", "settled"}, ours : BOOLEAN]

ASSUME IdleAssumption == Idle \notin Message

Init ==
    /\ waiting = [m \in Task \X Tries |-> 0]
    /\ held = [w \in Worker |-> Idle]
    /\ result = [t \in Task |-> "unsent"]
    /\ lost = [t \in Task |-> 0]
    /\ raised = [t \in Task |-> 0]

Publish(t, k) == waiting' = [waiting EXCEPT ![<<t, k>>] = @ + 1]

Running(w) == held[w] # Idle /\ held[w].stage = "running"

Settle(w) == held' = [held EXCEPT ![w].stage = "settled"]

(* The backend does not replace a success. *)
Store(t, s) == result' = IF result[t] = "success" THEN result
                                                  ELSE [result EXCEPT ![t] = s]

-----------------------------------------------------------------------------
(* A client sends t: send_task or delay. *)
Send(t) ==
    /\ result[t] = "unsent"
    /\ result' = [result EXCEPT ![t] = "pending"]
    /\ Publish(t, 0)
    /\ UNCHANGED <<held, lost, raised>>

(* Variant: a message that another process has taken already is taken. *)
TakeBlindly(w) ==
    /\ held[w] = Idle
    /\ \E t \in Task, k \in Tries :
        /\ waiting' = [waiting EXCEPT ![<<t, k>>] = @ - 1]
        /\ held' = [held EXCEPT ![w] =
                      [task |-> t, tries |-> k, stage |-> "running", ours |-> TRUE]]
    /\ UNCHANGED <<result, lost, raised>>

(* Variant: without task_acks_late. *)
TakeAndAcknowledge(w) ==
    /\ held[w] = Idle
    /\ \E t \in Task, k \in Tries :
        /\ waiting[<<t, k>>] > 0
        /\ waiting' = [waiting EXCEPT ![<<t, k>>] = @ - 1]
        /\ held' = [held EXCEPT ![w] =
                      [task |-> t, tries |-> k, stage |-> "running", ours |-> FALSE]]
    /\ UNCHANGED <<result, lost, raised>>

Take(w) ==
    /\ held[w] = Idle
    /\ \E t \in Task, k \in Tries :
        /\ waiting[<<t, k>>] > 0
        /\ waiting' = [waiting EXCEPT ![<<t, k>>] = @ - 1]
        /\ held' = [held EXCEPT ![w] =
                      [task |-> t, tries |-> k, stage |-> "running", ours |-> TRUE]]
    /\ UNCHANGED <<result, lost, raised>>

(* The task returns. *)
Succeed(w) ==
    /\ Running(w)
    /\ Store(held[w].task, "success")
    /\ Settle(w)
    /\ UNCHANGED <<waiting, lost, raised>>

(* Variant: the last retry is not made. *)
MayRetryOnceLess(t, k) == t \in RetryTask /\ k + 1 < MaxRetries

MayRetry(t, k) == t \in RetryTask /\ k < MaxRetries

(* Variant: retries are not counted. *)
FailAgain(w) ==
    /\ Running(w)
    /\ LET t == held[w].task IN
        /\ raised' = [raised EXCEPT ![t] = IF @ <= MaxRetries THEN @ + 1 ELSE @]
        /\ Publish(t, held[w].tries)
    /\ Settle(w)
    /\ UNCHANGED <<result, lost>>

(* Variant: the retry is published and the run goes on. *)
FailAndGoOn(w) ==
    /\ Running(w)
    /\ LET t == held[w].task
           k == held[w].tries IN
        /\ raised' = [raised EXCEPT ![t] = IF @ <= MaxRetries THEN @ + 1 ELSE @]
        /\ MayRetry(t, k)
        /\ Publish(t, k + 1)
    /\ UNCHANGED <<held, result, lost>>

(* Variant: the failure is stored although the task is retried. *)
FailAtOnce(w) ==
    /\ Running(w)
    /\ LET t == held[w].task
           k == held[w].tries IN
        /\ raised' = [raised EXCEPT ![t] = IF @ <= MaxRetries THEN @ + 1 ELSE @]
        /\ Store(t, "failure")
        /\ IF MayRetry(t, k) THEN Publish(t, k + 1) ELSE UNCHANGED waiting
    /\ Settle(w)
    /\ UNCHANGED lost

(* The task raises. *)
Fail(w) ==
    /\ Running(w)
    /\ LET t == held[w].task
           k == held[w].tries IN
        /\ raised' = [raised EXCEPT ![t] = IF @ <= MaxRetries THEN @ + 1 ELSE @]
        /\ \/ MayRetry(t, k) /\ Publish(t, k + 1) /\ UNCHANGED result
           \/ ~ MayRetry(t, k) /\ Store(t, "failure") /\ UNCHANGED waiting
    /\ Settle(w)
    /\ UNCHANGED lost

(* task_time_limit: the pool kills the process and the task has failed. *)
Overrun(w) ==
    /\ Running(w)
    /\ Store(held[w].task, "timeout")
    /\ Settle(w)
    /\ UNCHANGED <<waiting, lost, raised>>

(* The acknowledgement, after the run (task_acks_late). *)
Acknowledge(w) ==
    /\ held[w] # Idle
    /\ held[w].stage = "settled"
    /\ held' = [held EXCEPT ![w] = Idle]
    /\ UNCHANGED <<waiting, result, lost, raised>>

-----------------------------------------------------------------------------
Lose(t) == lost' = [lost EXCEPT ![t] = IF @ < MaxLosses THEN @ + 1 ELSE @]

(* The pool process, or the whole worker, is killed: the message goes back. *)
ProcessLost(w) ==
    /\ held[w] # Idle
    /\ LET t == held[w].task IN
        /\ lost[t] < MaxLosses \/ t \in Poison
        /\ Lose(t)
        /\ IF held[w].ours THEN Publish(t, held[w].tries) ELSE UNCHANGED waiting
    /\ held' = [held EXCEPT ![w] = Idle]
    /\ UNCHANGED <<result, raised>>

(* The connection to the broker is lost: the message is delivered again    *)
(* while the process goes on.                                              *)
Redeliver(w) ==
    /\ held[w] # Idle
    /\ held[w].ours
    /\ lost[held[w].task] < MaxLosses
    /\ Lose(held[w].task)
    /\ Publish(held[w].task, held[w].tries)
    /\ held' = [held EXCEPT ![w].ours = FALSE]
    /\ UNCHANGED <<result, raised>>

-----------------------------------------------------------------------------
Work(w) == Take(w) \/ Succeed(w) \/ Fail(w) \/ Overrun(w) \/ Acknowledge(w)

Next ==
    \/ \E t \in Task : Send(t)
    \/ \E w \in Worker : Work(w) \/ ProcessLost(w) \/ Redeliver(w)

TakeFrom(q) == \E w \in Worker : Take(w) /\ Route[held'[w].task] = q

(* The pool replaces its processes and each of them works; the messages    *)
(* are fetched from the queues in turn.                                    *)
Fairness ==
    /\ \A w \in Worker : WF_vars(Work(w))
    /\ \A q \in Queue : SF_vars(TakeFrom(q))

Safe == Init /\ [][Next]_vars
Spec == Safe /\ Fairness

-----------------------------------------------------------------------------
TypeOK ==
    /\ waiting \in [Task \X Tries -> Nat]
    /\ held \in [Worker -> Message \cup {Idle}]
    /\ result \in [Task -> {"unsent", "pending", "success", "failure", "timeout"}]
    /\ lost \in [Task -> 0..MaxLosses]
    /\ raised \in [Task -> 0..(MaxRetries + 1)]

Runs(w, t) == Running(w) /\ held[w].task = t

RunsOurs(w, t) == Runs(w, t) /\ held[w].ours

(* The copies of t: the messages that wait, numbered for each retry, and   *)
(* the processes that run one.                                             *)
Messages(t) == UNION {{k} \X (1..waiting[<<t, k>>]) : k \in Tries}

Runners(t) == {w \in Worker : Runs(w, t)}

Final == {"success", "failure", "timeout"}

(* At least once: a task without a final result has a message that waits,  *)
(* or that would wait again if the process running it were lost.           *)
NoTaskLost == \A t \in Task : result[t] = "pending" =>
    \/ \E k \in Tries : waiting[<<t, k>>] > 0
    \/ \E w \in Worker : RunsOurs(w, t)

(* A task is reported as failed only after all of its retries have raised, *)
(* whichever deliveries were repeated in between.                          *)
FailureIsEarned == \A t \in Task : result[t] = "failure" =>
    raised[t] > IF t \in RetryTask THEN MaxRetries ELSE 0

(* Neither a retry nor a late acknowledgement multiplies a task: it has    *)
(* one copy while its result is awaited and none when there is a result,   *)
(* and one more for each delivery that was lost, as long as these are      *)
(* counted (those of a poison task are up to the bound).                   *)
CopiesAreCounted == \A t \in Task :
    t \notin Poison \/ lost[t] < MaxLosses =>
        Cardinality(Messages(t)) + Cardinality(Runners(t))
            <= lost[t] + IF result[t] = "pending" THEN 1 ELSE 0

(* A result that a client has read changes only after a delivery was lost, *)
(* to another final result, and a success never does.                      *)
ResultStays == [][\A t \in Task :
    result[t] \in Final /\ result'[t] # result[t] =>
        lost[t] > 0 /\ result[t] # "success" /\ result'[t] \in Final]_vars

(* Every task that is sent, and does not kill its process for ever, ends   *)
(* with a result, even beside one that does, and is queued again each time *)
(* (task_reject_on_worker_lost knows no limit).                            *)
EveryTaskEnds == \A t \in Task \ Poison :
    result[t] = "pending" ~> result[t] # "pending"
=============================================================================
