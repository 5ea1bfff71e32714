-------------------------- MODULE CeleryWorkerProofs --------------------------
(***************************************************************************)
(* Proofs about CeleryWorker, for any tasks, queues and processes.         *)
(***************************************************************************)
EXTENDS CeleryWorker, FiniteSetTheorems, TLAPS

USE CeleryAssumption DEF Tries

(* What a process holds is a message (worker.py:56), so its parts have the *)
(* types of a message.                                                     *)
LEMMA HeldMessage ==
    ASSUME TypeOK, NEW w \in Worker, held[w] # Idle
    PROVE  /\ held[w] \in Message
           /\ held[w].task \in Task /\ held[w].tries \in Tries
           /\ held[w].stage \in {"running", "settled"}
           /\ held[w].ours \in BOOLEAN
<1>1. held[w] \in Message
  BY DEF TypeOK
<1>. QED  BY <1>1 DEF Message

(* The messages and counters keep their types in every step of the worker  *)
(* (worker.py:48-178).                                                     *)
LEMMA TypeStep == TypeOK /\ [Next]_vars => TypeOK'
<1>. SUFFICES ASSUME TypeOK, [Next]_vars PROVE TypeOK'
  OBVIOUS
<1>1. ASSUME NEW t \in Task, Send(t) PROVE TypeOK'
  BY <1>1 DEF Send, Publish, TypeOK
<1>2. ASSUME NEW w \in Worker, Take(w) PROVE TypeOK'
  <2>1. PICK t \in Task, k \in Tries :
          /\ waiting[<<t, k>>] > 0
          /\ waiting' = [waiting EXCEPT ![<<t, k>>] = @ - 1]
          /\ held' = [held EXCEPT ![w] =
                  [task |-> t, tries |-> k, stage |-> "running", ours |-> TRUE]]
    BY <1>2 DEF Take
  <2>2. waiting' \in [Task \X Tries -> Nat]
    <3>1. waiting[<<t, k>>] - 1 \in Nat
      BY <2>1 DEF TypeOK
    <3>. QED  BY <2>1, <3>1 DEF TypeOK
  <2>3. held' \in [Worker -> Message \cup {Idle}]
    BY <2>1 DEF TypeOK, Message
  <2>. QED  BY <1>2, <2>2, <2>3 DEF Take, TypeOK
<1>3. ASSUME NEW w \in Worker, Running(w), Settle(w)
      PROVE  held' \in [Worker -> Message \cup {Idle}]
  BY <1>3, HeldMessage DEF Running, Settle, TypeOK, Message
<1>4. ASSUME NEW w \in Worker, Succeed(w) PROVE TypeOK'
  BY <1>3, <1>4 DEF Succeed, Store, TypeOK
<1>5. ASSUME NEW w \in Worker, Overrun(w) PROVE TypeOK'
  BY <1>3, <1>5 DEF Overrun, Store, TypeOK
<1>6. ASSUME NEW w \in Worker, Fail(w) PROVE TypeOK'
  <2>1. held[w].task \in Task /\ held[w].tries \in Tries
    BY <1>6, HeldMessage DEF Fail, Running
  <2>2. held' \in [Worker -> Message \cup {Idle}]
    BY <1>3, <1>6 DEF Fail
  <2>3. waiting' \in [Task \X Tries -> Nat]
    BY <1>6, <2>1 DEF Fail, MayRetry, Publish, TypeOK
  <2>4. result' \in [Task -> {"unsent", "pending", "success", "failure", "timeout"}]
    BY <1>6 DEF Fail, Store, TypeOK
  <2>5. raised' \in [Task -> 0..(MaxRetries + 1)]
    BY <1>6, <2>1 DEF Fail, TypeOK
  <2>. QED  BY <1>6, <2>2, <2>3, <2>4, <2>5 DEF Fail, TypeOK
<1>7. ASSUME NEW w \in Worker, Acknowledge(w) PROVE TypeOK'
  BY <1>7 DEF Acknowledge, TypeOK
<1>8. ASSUME NEW w \in Worker, ProcessLost(w) PROVE TypeOK'
  <2>1. held[w].task \in Task /\ held[w].tries \in Tries
    BY <1>8, HeldMessage DEF ProcessLost
  <2>. QED  BY <1>8, <2>1 DEF ProcessLost, Lose, Publish, TypeOK
<1>9. ASSUME NEW w \in Worker, Redeliver(w) PROVE TypeOK'
  <2>1. held[w].task \in Task /\ held[w].tries \in Tries
    BY <1>9, HeldMessage DEF Redeliver
  <2>2. held' \in [Worker -> Message \cup {Idle}]
    BY <1>9, HeldMessage DEF Redeliver, TypeOK, Message
  <2>. QED  BY <1>9, <2>1, <2>2 DEF Redeliver, Lose, Publish, TypeOK
<1>10. CASE UNCHANGED vars
  BY <1>10 DEF vars, TypeOK
<1>. QED
  BY <1>1, <1>2, <1>4, <1>5, <1>6, <1>7, <1>8, <1>9, <1>10 DEF Next, Work

(* Messages, results and counters always have their types.                 *)
THEOREM TypeCorrect == Safe => []TypeOK
<1>1. Init => TypeOK
  BY DEF Init, TypeOK
<1>. QED  BY <1>1, TypeStep, PTL DEF Safe

-----------------------------------------------------------------------------
(* A step of process w leaves what the other processes hold alone          *)
(* (worker.py:74).                                                         *)
LEMMA OthersHold ==
    ASSUME TypeOK, NEW w \in Worker,
           Work(w) \/ ProcessLost(w) \/ Redeliver(w),
           NEW v \in Worker, v # w
    PROVE  held'[v] = held[v]
  BY DEF Work, Take, Succeed, Fail, Overrun, Settle, Acknowledge, ProcessLost,
         Redeliver, TypeOK

(* A run that has ended keeps its message until it is acknowledged         *)
(* (worker.py:56).                                                         *)
LEMMA SettledMessage ==
    ASSUME TypeOK, NEW w \in Worker, Running(w), Settle(w)
    PROVE  /\ held'[w] = [held[w] EXCEPT !.stage = "settled"]
           /\ held'[w].task = held[w].task /\ held'[w].tries = held[w].tries
           /\ held'[w].stage = "settled" /\ held'[w].ours = held[w].ours
<1>1. held'[w] = [held[w] EXCEPT !.stage = "settled"]
  BY DEF Settle, TypeOK
<1>2. held[w] \in Message
  BY HeldMessage DEF Running
<1>. QED  BY <1>1, <1>2 DEF Message

(* A message that is delivered again is no longer that of the process      *)
(* which runs it (worker.py:56).                                           *)
LEMMA RedeliveredMessage ==
    ASSUME TypeOK, NEW w \in Worker, Redeliver(w)
    PROVE  /\ held'[w].task = held[w].task /\ held'[w].tries = held[w].tries
           /\ held'[w].stage = held[w].stage /\ ~ held'[w].ours
<1>1. held'[w] = [held[w] EXCEPT !.ours = FALSE]
  BY DEF Redeliver, TypeOK
<1>2. held[w] \in Message
  BY HeldMessage DEF Redeliver
<1>. QED  BY <1>1, <1>2 DEF Message

(* A message that is taken was waiting, and is run by the process that     *)
(* took it (worker.py:56-57).                                              *)
LEMMA TakenMessage ==
    ASSUME TypeOK, NEW w \in Worker, Take(w)
    PROVE  \E t \in Task, k \in Tries :
             /\ waiting[<<t, k>>] > 0
             /\ waiting' = [waiting EXCEPT ![<<t, k>>] = @ - 1]
             /\ held'[w] # Idle
             /\ held'[w].task = t /\ held'[w].tries = k
             /\ held'[w].stage = "running" /\ held'[w].ours = TRUE
<1>1. PICK t \in Task, k \in Tries :
        /\ waiting[<<t, k>>] > 0
        /\ waiting' = [waiting EXCEPT ![<<t, k>>] = @ - 1]
        /\ held' = [held EXCEPT ![w] =
                [task |-> t, tries |-> k, stage |-> "running", ours |-> TRUE]]
  BY DEF Take
<1>2. held'[w] = [task |-> t, tries |-> k, stage |-> "running", ours |-> TRUE]
  BY <1>1 DEF TypeOK
<1>3. held'[w] \in Message
  BY <1>2 DEF Message
<1>4. held'[w] # Idle
  BY <1>3, IdleAssumption
<1>5. /\ held'[w].task = t /\ held'[w].tries = k
      /\ held'[w].stage = "running" /\ held'[w].ours = TRUE
  BY <1>2
<1>. QED  BY <1>1, <1>4, <1>5

(* A message that is published waits, and those that waited still do.      *)
LEMMA PublishedMessage ==
    ASSUME TypeOK, NEW t \in Task, NEW k \in Tries, Publish(t, k)
    PROVE  /\ waiting'[<<t, k>>] = waiting[<<t, k>>] + 1
           /\ waiting'[<<t, k>>] > 0
           /\ \A u \in Task, j \in Tries :
                <<u, j>> # <<t, k>> => waiting'[<<u, j>>] = waiting[<<u, j>>]
           /\ \A u \in Task, j \in Tries :
                waiting[<<u, j>>] > 0 => waiting'[<<u, j>>] > 0
<1>1. /\ waiting'[<<t, k>>] = waiting[<<t, k>>] + 1
      /\ \A u \in Task, j \in Tries :
           <<u, j>> # <<t, k>> => waiting'[<<u, j>>] = waiting[<<u, j>>]
  BY DEF Publish, TypeOK
<1>2. \A u \in Task, j \in Tries : waiting[<<u, j>>] \in Nat
  BY DEF TypeOK
<1>3. waiting'[<<t, k>>] > 0
  BY <1>1, <1>2
<1>4. ASSUME NEW u \in Task, NEW j \in Tries, waiting[<<u, j>>] > 0
      PROVE  waiting'[<<u, j>>] > 0
  <2>1. CASE <<u, j>> = <<t, k>>
    BY <1>3, <2>1
  <2>2. CASE <<u, j>> # <<t, k>>
    BY <1>1, <1>4, <2>2
  <2>. QED  BY <2>1, <2>2
<1>. QED  BY <1>1, <1>3, <1>4

-----------------------------------------------------------------------------
(* No step loses a task: a message leaves the queue into a process that    *)
(* still owes its acknowledgement, and comes back when that process goes   *)
(* (worker.py:56-58).                                                      *)
LEMMA NoTaskLostStep == TypeOK /\ NoTaskLost /\ [Next]_vars => NoTaskLost'
<1>. DEFINE Waits(t) == \E k \in Tries : waiting[<<t, k>>] > 0
            Kept(t) == Waits(t) \/ \E w \in Worker : RunsOurs(w, t)
<1>. SUFFICES ASSUME TypeOK, NoTaskLost, [Next]_vars,
                     NEW t \in Task, result'[t] = "pending"
              PROVE  Kept(t)'
  BY DEF NoTaskLost
<1>1. result[t] = "pending" => Kept(t)
  BY DEF NoTaskLost
<1>2. ASSUME NEW u \in Task, Send(u) PROVE Kept(t)'
  <2>1. CASE t = u
    <3>1. 0 \in Tries
      OBVIOUS
    <3>. QED  BY <1>2, <2>1, <3>1, PublishedMessage DEF Send
  <2>2. CASE t # u
    <3>1. result[t] = "pending"
      BY <1>2, <2>2 DEF Send, TypeOK
    <3>. QED  BY <1>1, <1>2, <3>1, PublishedMessage DEF Send, RunsOurs, Runs, Running
  <2>. QED  BY <2>1, <2>2
<1>3. ASSUME NEW w \in Worker, Take(w) PROVE Kept(t)'
  <2>1. PICK u \in Task, k \in Tries :
          /\ waiting[<<u, k>>] > 0
          /\ waiting' = [waiting EXCEPT ![<<u, k>>] = @ - 1]
          /\ held'[w] # Idle
          /\ held'[w].task = u /\ held'[w].tries = k
          /\ held'[w].stage = "running" /\ held'[w].ours = TRUE
    BY <1>3, TakenMessage
  <2>2. CASE u = t
    BY <2>1, <2>2 DEF RunsOurs, Runs, Running
  <2>3. CASE u # t
    <3>1. \A j \in Tries : waiting'[<<t, j>>] = waiting[<<t, j>>]
      BY <2>1, <2>3 DEF TypeOK
    <3>2. result[t] = "pending"
      BY <1>3 DEF Take
    <3>3. ASSUME NEW v \in Worker, RunsOurs(v, t) PROVE RunsOurs(v, t)'
      <4>1. v # w
        BY <1>3, <3>3 DEF Take, RunsOurs, Runs, Running
      <4>2. held'[v] = held[v]
        BY <1>3, <4>1, OthersHold DEF Work
      <4>. QED  BY <3>3, <4>2 DEF RunsOurs, Runs, Running
    <3>. QED  BY <1>1, <3>1, <3>2, <3>3
  <2>. QED  BY <2>2, <2>3
<1>4. ASSUME NEW w \in Worker, Work(w) \/ ProcessLost(w) \/ Redeliver(w),
             result[t] = "pending",
             Waits(t) => Waits(t)',
             RunsOurs(w, t) => Waits(t)'
      PROVE  Kept(t)'
  <2>1. ASSUME NEW v \in Worker, v # w, RunsOurs(v, t) PROVE RunsOurs(v, t)'
    <3>1. held'[v] = held[v]
      BY <1>4, <2>1, OthersHold
    <3>. QED  BY <2>1, <3>1 DEF RunsOurs, Runs, Running
  <2>. QED  BY <1>1, <1>4, <2>1
<1>5. ASSUME NEW w \in Worker, Running(w),
             NEW s \in {"success", "failure", "timeout"}, Store(held[w].task, s)
      PROVE  result[t] = "pending" /\ held[w].task # t
  <2>1. held[w].task \in Task
    BY <1>5, HeldMessage DEF Running
  <2>. QED  BY <1>5, <2>1 DEF Store, TypeOK
<1>6. ASSUME NEW w \in Worker, Succeed(w) PROVE Kept(t)'
  <2>1. result[t] = "pending" /\ held[w].task # t
    BY <1>5, <1>6 DEF Succeed
  <2>. QED  BY <1>4, <1>6, <2>1 DEF Work, Succeed, RunsOurs, Runs
<1>7. ASSUME NEW w \in Worker, Overrun(w) PROVE Kept(t)'
  <2>1. result[t] = "pending" /\ held[w].task # t
    BY <1>5, <1>7 DEF Overrun
  <2>. QED  BY <1>4, <1>7, <2>1 DEF Work, Overrun, RunsOurs, Runs
<1>8. ASSUME NEW w \in Worker, Fail(w) PROVE Kept(t)'
  <2>. DEFINE u == held[w].task
              k == held[w].tries
  <2>1. u \in Task /\ k \in Tries /\ Running(w)
    BY <1>8, HeldMessage DEF Fail, Running
  <2>2. CASE MayRetry(u, k) /\ Publish(u, k + 1) /\ UNCHANGED result
    <3>1. k + 1 \in Tries
      BY <2>1, <2>2 DEF MayRetry
    <3>2. Waits(t) => Waits(t)'
      BY <2>1, <2>2, <3>1, PublishedMessage
    <3>3. RunsOurs(w, t) => Waits(t)'
      BY <2>1, <2>2, <3>1, PublishedMessage DEF RunsOurs, Runs
    <3>. QED  BY <1>4, <1>8, <2>2, <3>2, <3>3 DEF Work
  <2>3. CASE ~ MayRetry(u, k) /\ Store(u, "failure") /\ UNCHANGED waiting
    <3>1. result[t] = "pending" /\ u # t
      BY <1>5, <2>1, <2>3
    <3>. QED  BY <1>4, <1>8, <2>3, <3>1 DEF Work, RunsOurs, Runs
  <2>. QED  BY <1>8, <2>2, <2>3 DEF Fail
<1>9. ASSUME NEW w \in Worker, Acknowledge(w) PROVE Kept(t)'
  BY <1>4, <1>9 DEF Work, Acknowledge, RunsOurs, Runs, Running
<1>10. ASSUME NEW w \in Worker, ProcessLost(w) PROVE Kept(t)'
  <2>1. held[w].task \in Task /\ held[w].tries \in Tries
    BY <1>10, HeldMessage DEF ProcessLost
  <2>2. Waits(t) => Waits(t)'
    BY <1>10, <2>1, PublishedMessage DEF ProcessLost
  <2>3. RunsOurs(w, t) => Waits(t)'
    BY <1>10, <2>1, PublishedMessage DEF ProcessLost, RunsOurs, Runs
  <2>. QED  BY <1>4, <1>10, <2>2, <2>3 DEF ProcessLost
<1>11. ASSUME NEW w \in Worker, Redeliver(w) PROVE Kept(t)'
  <2>1. held[w].task \in Task /\ held[w].tries \in Tries
    BY <1>11, HeldMessage DEF Redeliver
  <2>2. Waits(t) => Waits(t)'
    BY <1>11, <2>1, PublishedMessage DEF Redeliver
  <2>3. RunsOurs(w, t) => Waits(t)'
    BY <1>11, <2>1, PublishedMessage DEF Redeliver, RunsOurs, Runs
  <2>. QED  BY <1>4, <1>11, <2>2, <2>3 DEF Redeliver
<1>12. CASE UNCHANGED vars
  BY <1>1, <1>12 DEF vars, RunsOurs, Runs, Running
<1>. QED
  BY <1>2, <1>3, <1>6, <1>7, <1>8, <1>9, <1>10, <1>11, <1>12 DEF Next, Work

(* No task is lost, however many processes and connections are             *)
(* (worker.py:56-58).                                                      *)
THEOREM TasksAreKept == Safe => []NoTaskLost
<1>1. Init => NoTaskLost
  BY DEF Init, NoTaskLost
<1>. QED  BY <1>1, NoTaskLostStep, TypeCorrect, PTL DEF Safe

-----------------------------------------------------------------------------
(* A message for the k-th retry exists only when k runs have raised: every *)
(* copy of a message that is delivered again keeps its number.             *)
RetriesRaised ==
    /\ \A t \in Task, k \in Tries : waiting[<<t, k>>] > 0 => raised[t] >= k
    /\ \A w \in Worker : held[w] # Idle => raised[held[w].task] >= held[w].tries
    /\ FailureIsEarned

(* No step makes a retry, or a failure, that was not raised                *)
(* (worker.py:95-102).                                                     *)
LEMMA RetriesRaisedStep ==
    TypeOK /\ RetriesRaised /\ [Next]_vars => RetriesRaised'
<1>. SUFFICES ASSUME TypeOK, RetriesRaised, [Next]_vars PROVE RetriesRaised'
  OBVIOUS
<1>. DEFINE WaitingRaised ==
              \A t \in Task, k \in Tries : waiting[<<t, k>>] > 0 => raised[t] >= k
            HeldRaised(w) ==
              held[w] # Idle => raised[held[w].task] >= held[w].tries
<1>1. ASSUME NEW t \in Task, Send(t) PROVE RetriesRaised'
  <2>1. 0 \in Tries
    OBVIOUS
  <2>2. WaitingRaised'
    <3>1. ASSUME NEW u \in Task, NEW k \in Tries, waiting'[<<u, k>>] > 0
          PROVE  raised[u] >= k
      <4>1. CASE <<u, k>> = <<t, 0>>
        BY <4>1 DEF TypeOK
      <4>2. CASE <<u, k>> # <<t, 0>>
        BY <1>1, <2>1, <3>1, <4>2, PublishedMessage DEF Send, RetriesRaised
      <4>. QED  BY <4>1, <4>2
    <3>. QED  BY <1>1, <3>1 DEF Send
  <2>3. FailureIsEarned'
    BY <1>1 DEF Send, RetriesRaised, FailureIsEarned, TypeOK
  <2>. QED  BY <1>1, <2>2, <2>3 DEF Send, RetriesRaised
<1>2. ASSUME NEW w \in Worker, Work(w) \/ ProcessLost(w) \/ Redeliver(w),
             UNCHANGED raised, WaitingRaised', HeldRaised(w)', FailureIsEarned'
      PROVE  RetriesRaised'
  <2>1. ASSUME NEW v \in Worker, v # w PROVE HeldRaised(v)'
    BY <1>2, <2>1, OthersHold DEF RetriesRaised
  <2>. QED  BY <1>2, <2>1 DEF RetriesRaised
<1>3. ASSUME NEW w \in Worker, Take(w) PROVE RetriesRaised'
  <2>1. PICK t \in Task, k \in Tries :
          /\ waiting[<<t, k>>] > 0
          /\ waiting' = [waiting EXCEPT ![<<t, k>>] = @ - 1]
          /\ held'[w].task = t /\ held'[w].tries = k
    BY <1>3, TakenMessage
  <2>2. HeldRaised(w)'
    BY <1>3, <2>1 DEF Take, RetriesRaised
  <2>3. WaitingRaised'
    <3>1. ASSUME NEW u \in Task, NEW j \in Tries, waiting'[<<u, j>>] > 0
          PROVE  waiting[<<u, j>>] > 0
      BY <2>1, <3>1 DEF TypeOK
    <3>. QED  BY <1>3, <3>1 DEF Take, RetriesRaised
  <2>4. FailureIsEarned'
    BY <1>3 DEF Take, RetriesRaised, FailureIsEarned
  <2>. QED  BY <1>2, <1>3, <2>2, <2>3, <2>4 DEF Work, Take
<1>4. ASSUME NEW w \in Worker, Running(w), Settle(w), UNCHANGED raised
      PROVE  HeldRaised(w)'
  BY <1>4, SettledMessage DEF Running, RetriesRaised
<1>5. ASSUME NEW w \in Worker, NEW s \in {"success", "timeout"},
             Store(held[w].task, s), UNCHANGED raised
      PROVE  FailureIsEarned'
  BY <1>5 DEF Store, RetriesRaised, FailureIsEarned, TypeOK
<1>6. ASSUME NEW w \in Worker, Succeed(w) PROVE RetriesRaised'
  BY <1>2, <1>4, <1>5, <1>6 DEF Work, Succeed, RetriesRaised
<1>7. ASSUME NEW w \in Worker, Overrun(w) PROVE RetriesRaised'
  BY <1>2, <1>4, <1>5, <1>7 DEF Work, Overrun, RetriesRaised
<1>8. ASSUME NEW w \in Worker, Fail(w) PROVE RetriesRaised'
  <2>. DEFINE t == held[w].task
              k == held[w].tries
  <2>1. t \in Task /\ k \in Tries /\ Running(w)
    BY <1>8, HeldMessage DEF Fail, Running
  <2>2. raised[t] \in 0..(MaxRetries + 1) /\ raised[t] >= k
    BY <2>1 DEF TypeOK, RetriesRaised, Running
  <2>3. raised'[t] = IF raised[t] <= MaxRetries THEN raised[t] + 1 ELSE raised[t]
    BY <1>8, <2>1 DEF Fail, TypeOK
  <2>4. raised'[t] >= k + 1
    BY <2>1, <2>2, <2>3
  <2>5. \A u \in Task : raised'[u] >= raised[u]
    <3>1. \A u \in Task : u # t => raised'[u] = raised[u]
      BY <1>8 DEF Fail, TypeOK
    <3>2. \A u \in Task : raised[u] \in 0..(MaxRetries + 1)
      BY DEF TypeOK
    <3>. QED  BY <2>1, <2>3, <3>1, <3>2
  <2>6. \A u \in Task : raised[u] \in Int /\ raised'[u] \in Int
    BY <1>8, TypeStep DEF TypeOK
  <2>7. ASSUME NEW v \in Worker, held'[v] # Idle
        PROVE  raised'[held'[v].task] >= held'[v].tries
    <3>1. held[v] # Idle /\ held'[v].task = held[v].task
                        /\ held'[v].tries = held[v].tries
      <4>1. CASE v = w
        BY <1>8, <2>1, <4>1, SettledMessage DEF Fail, Running
      <4>2. CASE v # w
        BY <1>8, <2>7, <4>2, OthersHold DEF Work
      <4>. QED  BY <4>1, <4>2
    <3>2. held[v].task \in Task /\ held[v].tries \in Tries
      BY <3>1, HeldMessage
    <3>3. raised[held[v].task] >= held[v].tries
      BY <3>1 DEF RetriesRaised
    <3>. QED  BY <2>5, <2>6, <3>1, <3>2, <3>3
  <2>8. CASE MayRetry(t, k) /\ Publish(t, k + 1) /\ UNCHANGED result
    <3>1. k + 1 \in Tries
      BY <2>1, <2>8 DEF MayRetry
    <3>1a. \A u \in Task, j \in Tries :
            <<u, j>> # <<t, k + 1>> => waiting'[<<u, j>>] = waiting[<<u, j>>]
      BY <2>1, <2>8, <3>1, PublishedMessage
    <3>2. ASSUME NEW u \in Task, NEW j \in Tries, waiting'[<<u, j>>] > 0
          PROVE  raised'[u] >= j
      <4>1. CASE <<u, j>> = <<t, k + 1>>
        BY <2>4, <4>1
      <4>2. CASE <<u, j>> # <<t, k + 1>>
        <5>1. waiting'[<<u, j>>] = waiting[<<u, j>>]
          BY <3>1a, <4>2
        <5>2. raised[u] >= j
          BY <3>2, <5>1 DEF RetriesRaised
        <5>. QED  BY <2>5, <2>6, <5>2
      <4>. QED  BY <4>1, <4>2
    <3>3. FailureIsEarned'
      BY <2>5, <2>6, <2>8 DEF RetriesRaised, FailureIsEarned
    <3>. QED  BY <2>7, <3>2, <3>3 DEF RetriesRaised
  <2>9. CASE ~ MayRetry(t, k) /\ Store(t, "failure") /\ UNCHANGED waiting
    <3>1. ASSUME NEW u \in Task, NEW j \in Tries, waiting'[<<u, j>>] > 0
          PROVE  raised'[u] >= j
      <4>1. raised[u] >= j
        BY <2>9, <3>1 DEF RetriesRaised
      <4>. QED  BY <2>5, <2>6, <4>1
    <3>2. raised'[t] > IF t \in RetryTask THEN MaxRetries ELSE 0
      BY <2>1, <2>2, <2>3, <2>4, <2>9 DEF MayRetry
    <3>3. ASSUME NEW u \in Task, result'[u] = "failure", u # t
          PROVE  raised'[u] > IF u \in RetryTask THEN MaxRetries ELSE 0
      <4>1. result[u] = "failure"
        BY <2>9, <3>3 DEF Store, TypeOK
      <4>. QED  BY <2>5, <2>6, <4>1 DEF RetriesRaised, FailureIsEarned
    <3>. QED  BY <2>7, <3>1, <3>2, <3>3 DEF RetriesRaised, FailureIsEarned
  <2>. QED  BY <1>8, <2>8, <2>9 DEF Fail
<1>9. ASSUME NEW w \in Worker, Acknowledge(w) PROVE RetriesRaised'
  <2>1. held'[w] = Idle
    BY <1>9 DEF Acknowledge, TypeOK
  <2>. QED  BY <1>2, <1>9, <2>1 DEF Work, Acknowledge, RetriesRaised, FailureIsEarned
<1>10. ASSUME NEW t \in Task, NEW k \in Tries, Publish(t, k), raised[t] >= k,
              UNCHANGED raised
       PROVE  WaitingRaised'
  <2>1. ASSUME NEW u \in Task, NEW j \in Tries, waiting'[<<u, j>>] > 0
        PROVE  raised[u] >= j
    <3>1. CASE <<u, j>> = <<t, k>>
      <4>1. u = t /\ j = k
        BY <3>1
      <4>. QED  BY <1>10, <4>1
    <3>2. CASE <<u, j>> # <<t, k>>
      BY <1>10, <2>1, <3>2, PublishedMessage DEF RetriesRaised
    <3>. QED  BY <3>1, <3>2
  <2>. QED  BY <1>10, <2>1
<1>11. ASSUME NEW w \in Worker, ProcessLost(w) PROVE RetriesRaised'
  <2>1. held'[w] = Idle /\ held[w] # Idle
    BY <1>11 DEF ProcessLost, TypeOK
  <2>2. /\ held[w].task \in Task /\ held[w].tries \in Tries
        /\ raised[held[w].task] >= held[w].tries
    BY <2>1, HeldMessage DEF RetriesRaised
  <2>3. WaitingRaised'
    BY <1>10, <1>11, <2>2 DEF ProcessLost, RetriesRaised
  <2>. QED
    BY <1>2, <1>11, <2>1, <2>3 DEF ProcessLost, RetriesRaised, FailureIsEarned
<1>12. ASSUME NEW w \in Worker, Redeliver(w) PROVE RetriesRaised'
  <2>1. /\ held[w].task \in Task /\ held[w].tries \in Tries
        /\ raised[held[w].task] >= held[w].tries
    BY <1>12, HeldMessage DEF Redeliver, RetriesRaised
  <2>2. WaitingRaised'
    BY <1>10, <1>12, <2>1 DEF Redeliver
  <2>3. HeldRaised(w)'
    BY <1>12, <2>1, RedeliveredMessage DEF Redeliver
  <2>. QED
    BY <1>2, <1>12, <2>2, <2>3 DEF Redeliver, RetriesRaised, FailureIsEarned
<1>13. CASE UNCHANGED vars
  BY <1>13 DEF vars, RetriesRaised, FailureIsEarned
<1>. QED
  BY <1>1, <1>3, <1>6, <1>7, <1>8, <1>9, <1>11, <1>12, <1>13 DEF Next, Work

(* Deliveries that are repeated never use up the retries of a task         *)
(* (worker.py:99).                                                         *)
THEOREM FailuresAreEarned == Safe => []FailureIsEarned
<1>1. Init => RetriesRaised
  BY DEF Init, RetriesRaised, FailureIsEarned
<1>2. RetriesRaised => FailureIsEarned
  BY DEF RetriesRaised
<1>. QED  BY <1>1, <1>2, RetriesRaisedStep, TypeCorrect, PTL DEF Safe

-----------------------------------------------------------------------------
(* Adding or removing one element changes the size of a finite set by one. *)
LEMMA OneMore ==
    ASSUME NEW S, IsFiniteSet(S), NEW x, x \notin S
    PROVE  IsFiniteSet(S \cup {x}) /\ Cardinality(S \cup {x}) = Cardinality(S) + 1
BY FS_AddElement

LEMMA OneLess ==
    ASSUME NEW S, IsFiniteSet(S), NEW x, x \in S
    PROVE  IsFiniteSet(S \ {x}) /\ Cardinality(S \ {x}) = Cardinality(S) - 1
BY FS_RemoveElement

(* The messages that wait, as many of each retry as c says.                *)
Heap(c) == UNION {{k} \X (1..c[k]) : k \in Tries}

(* A message more makes the heap one element larger.                       *)
LEMMA HeapGrows ==
    ASSUME NEW c \in [Tries -> Nat], NEW d, NEW k \in Tries,
           d[k] = c[k] + 1, \A j \in Tries \ {k} : d[j] = c[j],
           IsFiniteSet(Heap(c)) \/ IsFiniteSet(Heap(d))
    PROVE  /\ IsFiniteSet(Heap(c)) /\ IsFiniteSet(Heap(d))
           /\ Cardinality(Heap(d)) = Cardinality(Heap(c)) + 1
<1>. DEFINE n == c[k]
            new == <<k, n + 1>>
<1>0. n \in Nat
  OBVIOUS
<1>1. \A m : m \in Heap(c) <=> \E j \in Tries : m \in {j} \X (1..c[j])
  BY DEF Heap
<1>2. \A m : m \in Heap(d) <=> \E j \in Tries : m \in {j} \X (1..d[j])
  BY DEF Heap
<1>3. \A j \in Tries \ {k} : {j} \X (1..d[j]) = {j} \X (1..c[j])
  OBVIOUS
<1>4. {k} \X (1..d[k]) = ({k} \X (1..n)) \cup {new}
  OBVIOUS
<1>5. \A m : m \in Heap(d) <=> m \in Heap(c) \/ m = new
  <2>. TAKE m
  <2>1. m \in {k} \X (1..d[k]) <=> m \in {k} \X (1..c[k]) \/ m = new
    BY <1>4
  <2>. HIDE DEF n, new
  <2>. QED  BY <1>1, <1>2, <1>3, <2>1
<1>6. new \notin Heap(c)
  <2>1. ASSUME NEW j \in Tries, new \in {j} \X (1..c[j]) PROVE FALSE
    <3>1. j = k /\ n + 1 \in 1..c[j]
      BY <2>1
    <3>. QED  BY <1>0, <3>1
  <2>. QED  BY <1>1, <2>1
<1>. HIDE DEF n, new
<1>7. Heap(d) = Heap(c) \cup {new}
  BY <1>5
<1>8. IsFiniteSet(Heap(c))
  BY <1>7, FS_Subset
<1>. QED  BY <1>6, <1>7, <1>8, FS_AddElement

(* The messages for t are the heap of what waits for t.                    *)
LEMMA MessagesAreHeap ==
    ASSUME TypeOK, NEW t \in Task
    PROVE  LET c == [k \in Tries |-> waiting[<<t, k>>]] IN
             c \in [Tries -> Nat] /\ Messages(t) = Heap(c)
BY DEF TypeOK, Messages, Heap

-----------------------------------------------------------------------------
(* The copies of t can be counted and, while the losses of t are, there    *)
(* are no more than one for a result to come and one for each loss.        *)
Allowed(t) == lost[t] + IF result[t] = "pending" THEN 1 ELSE 0

LossesCounted(t) == t \notin Poison \/ lost[t] < MaxLosses

CopyInv(t) ==
    /\ IsFiniteSet(Messages(t)) /\ IsFiniteSet(Runners(t))
    /\ LossesCounted(t) =>
         Cardinality(Messages(t)) + Cardinality(Runners(t)) <= Allowed(t)

CopiesInv == \A t \in Task : CopyInv(t)

(* Publishing a message for one task adds one to its messages and leaves   *)
(* those of the others alone.                                              *)
LEMMA PublishCounts ==
    ASSUME TypeOK, TypeOK', NEW t \in Task, NEW k \in Tries, Publish(t, k),
           NEW u \in Task, IsFiniteSet(Messages(u))
    PROVE  /\ IsFiniteSet(Messages(u)')
           /\ Cardinality(Messages(u)') =
                Cardinality(Messages(u)) + IF u = t THEN 1 ELSE 0
<1>. DEFINE c == [j \in Tries |-> waiting[<<u, j>>]]
            d == [j \in Tries |-> waiting'[<<u, j>>]]
<1>1. c \in [Tries -> Nat] /\ Messages(u) = Heap(c)
  BY MessagesAreHeap
<1>2. Messages(u)' = Heap(d)
  BY MessagesAreHeap DEF TypeOK, Messages, Heap
<1>3. /\ waiting'[<<t, k>>] = waiting[<<t, k>>] + 1
      /\ \A x \in Task, j \in Tries :
           <<x, j>> # <<t, k>> => waiting'[<<x, j>>] = waiting[<<x, j>>]
  BY PublishedMessage
<1>4. CASE u = t
  <2>1. d[k] = c[k] + 1 /\ \A j \in Tries \ {k} : d[j] = c[j]
    BY <1>3, <1>4
  <2>. HIDE DEF c, d
  <2>2. c \in [Tries -> Nat] /\ IsFiniteSet(Heap(c))
    BY <1>1
  <2>3. /\ IsFiniteSet(Heap(d))
        /\ Cardinality(Heap(d)) = Cardinality(Heap(c)) + 1
    BY <2>1, <2>2, HeapGrows
  <2>. QED  BY <1>1, <1>2, <1>4, <2>3
<1>5. CASE u # t
  <2>1. c = d
    BY <1>3, <1>5
  <2>2. Cardinality(Messages(u)) \in Nat
    BY FS_CardinalityType
  <2>. HIDE DEF c, d
  <2>. QED  BY <1>1, <1>2, <1>5, <2>1, <2>2
<1>. QED  BY <1>4, <1>5

(* A message that is taken is gone from the heap of its task.              *)
LEMMA TakeCounts ==
    ASSUME TypeOK, TypeOK', NEW t \in Task, NEW k \in Tries,
           waiting[<<t, k>>] > 0, waiting' = [waiting EXCEPT ![<<t, k>>] = @ - 1],
           NEW u \in Task, IsFiniteSet(Messages(u))
    PROVE  /\ IsFiniteSet(Messages(u)')
           /\ Cardinality(Messages(u)) =
                Cardinality(Messages(u)') + IF u = t THEN 1 ELSE 0
<1>. DEFINE c == [j \in Tries |-> waiting[<<u, j>>]]
            d == [j \in Tries |-> waiting'[<<u, j>>]]
<1>1. c \in [Tries -> Nat] /\ Messages(u) = Heap(c)
  BY MessagesAreHeap
<1>2. d \in [Tries -> Nat] /\ Messages(u)' = Heap(d)
  BY MessagesAreHeap DEF TypeOK, Messages, Heap
<1>3. /\ waiting[<<t, k>>] = waiting'[<<t, k>>] + 1
      /\ \A x \in Task, j \in Tries :
           <<x, j>> # <<t, k>> => waiting'[<<x, j>>] = waiting[<<x, j>>]
  BY DEF TypeOK
<1>4. CASE u = t
  <2>1. c[k] = d[k] + 1 /\ \A j \in Tries \ {k} : c[j] = d[j]
    BY <1>3, <1>4
  <2>. HIDE DEF c, d
  <2>. QED  BY <1>1, <1>2, <1>4, <2>1, HeapGrows
<1>5. CASE u # t
  <2>1. c = d
    BY <1>3, <1>5
  <2>2. Cardinality(Messages(u)) \in Nat
    BY FS_CardinalityType
  <2>. HIDE DEF c, d
  <2>. QED  BY <1>1, <1>2, <1>5, <2>1, <2>2
<1>. QED  BY <1>4, <1>5

(* 1 when w runs t. *)
Run(w, t) == IF Runs(w, t) THEN 1 ELSE 0

(* A step of process w changes the number of runs of t by its own.         *)
LEMMA RunsCount ==
    ASSUME TypeOK, NEW w \in Worker, Work(w) \/ ProcessLost(w) \/ Redeliver(w),
           NEW t \in Task, IsFiniteSet(Runners(t))
    PROVE  /\ IsFiniteSet(Runners(t)')
           /\ Cardinality(Runners(t)') = Cardinality(Runners(t)) - Run(w, t) + Run(w, t)'
<1>1. \A v \in Worker \ {w} : v \in Runners(t)' <=> v \in Runners(t)
  <2>. TAKE v \in Worker \ {w}
  <2>1. held'[v] = held[v]
    BY OthersHold
  <2>. QED  BY <2>1 DEF Runners, Runs, Running
<1>2. /\ Runners(t) \subseteq Worker /\ Runners(t)' \subseteq Worker
      /\ w \in Runners(t) <=> Runs(w, t)
      /\ w \in Runners(t)' <=> Runs(w, t)'
  BY DEF Runners
<1>3. Cardinality(Runners(t)) \in Nat
  BY FS_CardinalityType
<1>4. CASE Runs(w, t) <=> Runs(w, t)'
  <2>1. Runners(t)' = Runners(t)
    BY <1>1, <1>2, <1>4
  <2>. QED  BY <1>3, <1>4, <2>1 DEF Run
<1>5. CASE Runs(w, t) /\ ~ Runs(w, t)'
  <2>1. Runners(t)' = Runners(t) \ {w}
    BY <1>1, <1>2, <1>5
  <2>. QED  BY <1>2, <1>3, <1>5, <2>1, OneLess DEF Run
<1>6. CASE ~ Runs(w, t) /\ Runs(w, t)'
  <2>1. Runners(t)' = Runners(t) \cup {w}
    BY <1>1, <1>2, <1>6
  <2>. QED  BY <1>2, <1>3, <1>6, <2>1, OneMore DEF Run
<1>. QED  BY <1>4, <1>5, <1>6

(* A counted loss of one task is one more for that task; a loss beyond the *)
(* bound leaves its losses uncounted.                                      *)
LEMMA LoseCounts ==
    ASSUME TypeOK, NEW u \in Task, Lose(u), lost[u] < MaxLosses \/ u \in Poison,
           NEW t \in Task, LossesCounted(t)'
    PROVE  LossesCounted(t) /\ lost'[t] = lost[t] + IF u = t THEN 1 ELSE 0
BY DEF TypeOK, Lose, LossesCounted

(* A final result is stored by a run, and ends the wait for a result of    *)
(* its own task only.                                                      *)
LEMMA StoreCounts ==
    ASSUME TypeOK, NEW w \in Worker, Running(w), NEW s \in Final,
           Store(held[w].task, s), UNCHANGED lost, NEW t \in Task
    PROVE  Allowed(t)' >= Allowed(t) - Run(w, t)
<1>1. held[w].task # t => result'[t] = result[t]
  BY DEF Store, TypeOK
<1>2. lost[t] \in Nat
  BY DEF TypeOK
<1>. QED  BY <1>1, <1>2 DEF Allowed, Run, Runs

(* No step makes more copies of a task than its losses account for.        *)
LEMMA CopiesStep == TypeOK /\ CopiesInv /\ [Next]_vars => CopiesInv'
<1>. SUFFICES ASSUME TypeOK, CopiesInv, [Next]_vars, NEW t \in Task
              PROVE  CopyInv(t)'
  BY DEF CopiesInv
<1>. DEFINE M == Cardinality(Messages(t))
            R == Cardinality(Runners(t))
            One(u) == IF u = t THEN 1 ELSE 0
<1>0. TypeOK' /\ CopyInv(t) /\ IsFiniteSet(Messages(t)) /\ IsFiniteSet(Runners(t))
  BY TypeStep DEF CopiesInv, CopyInv
<1>1. M \in Nat /\ R \in Nat /\ Allowed(t) \in Nat /\ Allowed(t)' \in Nat
  <2>1. lost[t] \in Nat /\ lost'[t] \in Nat
    BY <1>0 DEF TypeOK
  <2>. QED  BY <1>0, <2>1, FS_CardinalityType DEF Allowed
<1>2. ASSUME IsFiniteSet(Messages(t)'), IsFiniteSet(Runners(t)'),
             LossesCounted(t)' => /\ LossesCounted(t)
                                  /\ M' + R' - Allowed(t)' <= M + R - Allowed(t)
      PROVE  CopyInv(t)'
  <2>1. M' \in Nat /\ R' \in Nat
    BY <1>2, FS_CardinalityType
  <2>. QED  BY <1>0, <1>1, <1>2, <2>1 DEF CopyInv
<1>3. ASSUME UNCHANGED lost PROVE LossesCounted(t)' <=> LossesCounted(t)
  BY <1>3 DEF LossesCounted
<1>4. ASSUME UNCHANGED waiting PROVE Messages(t)' = Messages(t)
  BY <1>4 DEF Messages
<1>5. ASSUME NEW w \in Worker, Work(w) \/ ProcessLost(w) \/ Redeliver(w)
      PROVE  IsFiniteSet(Runners(t)') /\ R' = R - Run(w, t) + Run(w, t)'
  BY <1>0, <1>5, RunsCount
<1>6. ASSUME NEW w \in Worker, Running(w), Settle(w)
      PROVE  Run(w, t) = One(held[w].task) /\ Run(w, t)' = 0
  BY <1>6, SettledMessage DEF Run, Runs, Running
<1>7. ASSUME NEW u \in Task, Send(u) PROVE CopyInv(t)'
  <2>1. IsFiniteSet(Messages(t)') /\ M' = M + One(u)
    BY <1>0, <1>7, PublishCounts DEF Send
  <2>2. Runners(t)' = Runners(t)
    BY <1>7 DEF Send, Runners, Runs, Running
  <2>3. Allowed(t)' = Allowed(t) + One(u)
    <3>1. lost[t] \in Nat
      BY DEF TypeOK
    <3>. QED  BY <1>7, <3>1 DEF Send, Allowed, TypeOK
  <2>. QED  BY <1>0, <1>1, <1>2, <1>3, <1>7, <2>1, <2>2, <2>3 DEF Send
<1>8. ASSUME NEW w \in Worker, Take(w) PROVE CopyInv(t)'
  <2>1. PICK u \in Task, k \in Tries :
          /\ waiting[<<u, k>>] > 0
          /\ waiting' = [waiting EXCEPT ![<<u, k>>] = @ - 1]
          /\ held'[w] # Idle
          /\ held'[w].task = u /\ held'[w].stage = "running"
    BY <1>8, TakenMessage
  <2>2. IsFiniteSet(Messages(t)') /\ M = M' + One(u)
    BY <1>0, <2>1, TakeCounts
  <2>3. Run(w, t) = 0 /\ Run(w, t)' = One(u)
    BY <1>8, <2>1 DEF Take, Run, Runs, Running
  <2>4. Allowed(t)' = Allowed(t) /\ UNCHANGED lost
    BY <1>8 DEF Take, Allowed
  <2>5. M' \in Nat
    BY <2>2, FS_CardinalityType
  <2>. QED  BY <1>1, <1>2, <1>3, <1>5, <1>8, <2>2, <2>3, <2>4, <2>5 DEF Work
<1>9. ASSUME NEW w \in Worker, Work(w), Running(w), NEW s \in Final,
             Store(held[w].task, s), Settle(w), UNCHANGED <<waiting, lost>>
      PROVE  CopyInv(t)'
  <2>1. Allowed(t)' >= Allowed(t) - One(held[w].task)
    BY <1>6, <1>9, StoreCounts
  <2>. QED  BY <1>0, <1>1, <1>2, <1>3, <1>4, <1>5, <1>6, <1>9, <2>1
<1>10. ASSUME NEW w \in Worker, Succeed(w) PROVE CopyInv(t)'
  BY <1>9, <1>10 DEF Work, Succeed, Final
<1>11. ASSUME NEW w \in Worker, Overrun(w) PROVE CopyInv(t)'
  BY <1>9, <1>11 DEF Work, Overrun, Final
<1>12. ASSUME NEW w \in Worker, Fail(w) PROVE CopyInv(t)'
  <2>. DEFINE u == held[w].task
              k == held[w].tries
  <2>1. u \in Task /\ k \in Tries /\ Running(w) /\ Settle(w) /\ UNCHANGED lost
    BY <1>12, HeldMessage DEF Fail, Running
  <2>2. CASE MayRetry(u, k) /\ Publish(u, k + 1) /\ UNCHANGED result
    <3>1. k + 1 \in Tries
      BY <2>1, <2>2 DEF MayRetry
    <3>2. IsFiniteSet(Messages(t)') /\ M' = M + One(u)
      BY <1>0, <2>1, <2>2, <3>1, PublishCounts
    <3>3. Allowed(t)' = Allowed(t)
      BY <2>1, <2>2 DEF Allowed
    <3>. QED  BY <1>1, <1>2, <1>3, <1>5, <1>6, <1>12, <2>1, <3>2, <3>3 DEF Work
  <2>3. CASE ~ MayRetry(u, k) /\ Store(u, "failure") /\ UNCHANGED waiting
    BY <1>9, <1>12, <2>1, <2>3 DEF Work, Final
  <2>. QED  BY <1>12, <2>2, <2>3 DEF Fail
<1>13. ASSUME NEW w \in Worker, Acknowledge(w) PROVE CopyInv(t)'
  <2>1. Run(w, t) = 0 /\ Run(w, t)' = 0
    BY <1>13 DEF Acknowledge, Run, Runs, Running, TypeOK
  <2>2. Allowed(t)' = Allowed(t) /\ UNCHANGED <<waiting, lost>>
    BY <1>13 DEF Acknowledge, Allowed
  <2>. QED  BY <1>0, <1>1, <1>2, <1>3, <1>4, <1>5, <1>13, <2>1, <2>2 DEF Work
<1>14. ASSUME NEW u \in Task, Lose(u), lost[u] < MaxLosses \/ u \in Poison,
              UNCHANGED result, LossesCounted(t)'
       PROVE  LossesCounted(t) /\ Allowed(t)' = Allowed(t) + One(u)
  <2>1. lost[t] \in Nat
    BY DEF TypeOK
  <2>. QED  BY <1>14, <2>1, LoseCounts DEF Allowed
<1>15. ASSUME NEW w \in Worker, ProcessLost(w) PROVE CopyInv(t)'
  <2>. DEFINE u == held[w].task
  <2>1. u \in Task /\ held[w].tries \in Tries
    BY <1>15, HeldMessage DEF ProcessLost
  <2>2. IsFiniteSet(Messages(t)') /\ M' <= M + One(u)
    <3>1. CASE held[w].ours
      BY <1>0, <1>1, <1>15, <2>1, <3>1, PublishCounts DEF ProcessLost
    <3>2. CASE ~ held[w].ours
      BY <1>0, <1>1, <1>4, <1>15, <3>2 DEF ProcessLost
    <3>. QED  BY <3>1, <3>2
  <2>3. Run(w, t)' = 0 /\ Run(w, t) \in {0, 1}
    BY <1>15 DEF ProcessLost, Run, Runs, Running, TypeOK
  <2>4. LossesCounted(t)' => LossesCounted(t) /\ Allowed(t)' = Allowed(t) + One(u)
    BY <1>14, <1>15, <2>1 DEF ProcessLost
  <2>5. M' \in Nat
    BY <2>2, FS_CardinalityType
  <2>. QED  BY <1>1, <1>2, <1>5, <1>15, <2>2, <2>3, <2>4, <2>5
<1>16. ASSUME NEW w \in Worker, Redeliver(w) PROVE CopyInv(t)'
  <2>. DEFINE u == held[w].task
  <2>1. u \in Task /\ held[w].tries \in Tries
    BY <1>16, HeldMessage DEF Redeliver
  <2>2. IsFiniteSet(Messages(t)') /\ M' = M + One(u)
    BY <1>0, <1>16, <2>1, PublishCounts DEF Redeliver
  <2>3. Run(w, t)' = Run(w, t) /\ Run(w, t) \in {0, 1}
    <3>1. held[w] # Idle /\ held'[w] # Idle
      <4>1. held'[w] = [held[w] EXCEPT !.ours = FALSE]
        BY <1>16 DEF Redeliver, TypeOK
      <4>2. held[w] \in Message /\ held[w] # Idle
        BY <1>16, HeldMessage DEF Redeliver
      <4>3. held'[w] \in Message
        BY <4>1, <4>2 DEF Message
      <4>. QED  BY <4>2, <4>3, IdleAssumption
    <3>. QED  BY <1>16, <3>1, RedeliveredMessage DEF Run, Runs, Running
  <2>4. LossesCounted(t)' => LossesCounted(t) /\ Allowed(t)' = Allowed(t) + One(u)
    BY <1>14, <1>16, <2>1 DEF Redeliver
  <2>. QED  BY <1>1, <1>2, <1>5, <1>16, <2>2, <2>3, <2>4
<1>17. CASE UNCHANGED vars
  BY <1>0, <1>17 DEF vars, CopyInv, LossesCounted, Allowed, Messages, Runners, Runs, Running
<1>. QED
  BY <1>7, <1>8, <1>10, <1>11, <1>12, <1>13, <1>15, <1>16, <1>17 DEF Next, Work

(* At every moment the copies of a task can be counted, and are bounded.   *)
THEOREM CopiesInvariant == Safe => []CopiesInv
<1>1. Init => CopiesInv
  <2>. SUFFICES ASSUME Init, NEW t \in Task PROVE CopyInv(t)
    BY DEF CopiesInv
  <2>1. Messages(t) = {} /\ Runners(t) = {}
    <3>1. \A k \in Tries : waiting[<<t, k>>] = 0
      BY DEF Init
    <3>2. \A k \in Tries : {k} \X (1..waiting[<<t, k>>]) = {}
      BY <3>1
    <3>3. Messages(t) = {}
      BY <3>2 DEF Messages
    <3>4. Runners(t) = {}
      BY DEF Init, Runners, Runs, Running
    <3>. QED  BY <3>3, <3>4
  <2>2. Allowed(t) = 0
    BY DEF Init, Allowed
  <2>. QED  BY <2>1, <2>2, FS_EmptySet DEF CopyInv
<1>. QED  BY <1>1, CopiesStep, TypeCorrect, PTL DEF Safe

(* Retries and late acknowledgements make no second copy of a task: only   *)
(* lost deliveries do, each at most one (worker.py:56-58, 95-102).         *)
THEOREM CopiesCounted == Safe => []CopiesAreCounted
<1>1. CopiesInv => CopiesAreCounted
  BY DEF CopiesInv, CopyInv, CopiesAreCounted, LossesCounted, Allowed
<1>. QED  BY <1>1, CopiesInvariant, PTL

(* A task of which no delivery was lost has at most one run, and none once *)
(* its result is stored.                                                   *)
LEMMA RunsOfUnlost ==
    ASSUME TypeOK, CopiesInv, NEW t \in Task, lost[t] = 0,
           NEW v \in Worker, Runs(v, t)
    PROVE  result[t] = "pending" /\ \A w \in Worker : Runs(w, t) => w = v
<1>1. LossesCounted(t)
  BY DEF LossesCounted
<1>2. /\ IsFiniteSet(Messages(t)) /\ IsFiniteSet(Runners(t))
      /\ Cardinality(Messages(t)) + Cardinality(Runners(t)) <= Allowed(t)
  BY <1>1 DEF CopiesInv, CopyInv
<1>3. Cardinality(Messages(t)) \in Nat /\ Cardinality(Runners(t)) \in Nat
  BY <1>2, FS_CardinalityType
<1>4. v \in Runners(t)
  BY DEF Runners
<1>5. Cardinality(Runners(t)) # 0
  BY <1>2, <1>4, FS_EmptySet
<1>6. result[t] = "pending" /\ Cardinality(Runners(t)) = 1
  BY <1>2, <1>3, <1>5 DEF Allowed
<1>7. PICK x : Runners(t) = {x}
  BY <1>2, <1>6, FS_Singleton
<1>. QED  BY <1>4, <1>6, <1>7 DEF Runners

(* Two processes run one task at once only after a delivery of it was lost. *)
OneRunAtATime == \A v, w \in Worker :
    v # w /\ Running(v) /\ Running(w) /\ held[v].task = held[w].task
        => lost[held[v].task] > 0

(* A task runs in two processes at once only after one of its deliveries   *)
(* was lost (worker.py:56-58).                                             *)
THEOREM RunsOneAtATime == Safe => []OneRunAtATime
<1>1. TypeOK /\ CopiesInv => OneRunAtATime
  <2>1. ASSUME TypeOK, CopiesInv, NEW v \in Worker, NEW w \in Worker, v # w,
               Running(v), Running(w), held[v].task = held[w].task
        PROVE  lost[held[v].task] > 0
    <3>1. held[v].task \in Task
      BY <2>1, HeldMessage DEF Running
    <3>2. lost[held[v].task] # 0
      BY <2>1, <3>1, RunsOfUnlost DEF Runs
    <3>. QED  BY <2>1, <3>1, <3>2 DEF TypeOK
  <2>. QED  BY <2>1 DEF OneRunAtATime
<1>. QED  BY <1>1, CopiesInvariant, TypeCorrect, PTL

(* A result that was read stays, unless a delivery of its task was lost:   *)
(* then a later run may replace a failure, but no success.                 *)
THEOREM ResultsStay == Safe => ResultStays
<1>1. TypeOK /\ CopiesInv /\ [Next]_vars =>
        [\A t \in Task : result[t] \in Final /\ result'[t] # result[t] =>
           lost[t] > 0 /\ result[t] # "success" /\ result'[t] \in Final]_vars
  <2>. SUFFICES ASSUME TypeOK, CopiesInv, Next, NEW t \in Task,
                       result[t] \in Final, result'[t] # result[t]
                PROVE  lost[t] > 0 /\ result[t] # "success" /\ result'[t] \in Final
    OBVIOUS
  <2>1. PICK w \in Worker, s \in Final : Running(w) /\ Store(held[w].task, s)
    <3>1. \A u \in Task : ~ Send(u)
      BY DEF Send, TypeOK, Final
    <3>2. PICK w \in Worker : Work(w) \/ ProcessLost(w) \/ Redeliver(w)
      BY <3>1 DEF Next
    <3>3. Succeed(w) \/ Fail(w) \/ Overrun(w)
      BY <3>2 DEF Work, Take, Acknowledge, ProcessLost, Redeliver
    <3>. QED  BY <3>3 DEF Succeed, Fail, Overrun, Final
  <2>2. held[w].task = t /\ result[t] # "success" /\ result'[t] = s
    BY <2>1 DEF Store, TypeOK
  <2>3. lost[t] # 0
    BY <2>1, <2>2, RunsOfUnlost DEF Runs, Final
  <2>. QED  BY <2>2, <2>3 DEF TypeOK
<1>. QED  BY <1>1, CopiesInvariant, TypeCorrect, PTL DEF Safe, ResultStays
=============================================================================
