# A verification project for Scalable AI Production Infrastructure

TLA+ models of the platform's services, checked with TLC and proved about with
TLAPS. Every definition is translated from the Python source (and from the few
deployment settings that decide what it does); `PROJECT.json` maps each one to
its lines. Paths below are relative to the repository.

## 1. Inventory

| Component | State | Operations | Talks to | Correct when | Module |
|---|---|---|---|---|---|
| **Request sessions**: `get_db_session` (`services/api-service/app/db/postgres.py:62`), exception handlers and middleware (`app/main.py:129-195`), the sessions auth-service opens itself | an SQLAlchemy session, its PostgreSQL transaction, the response | open, commit, rollback and re-raise, answer | PostgreSQL, client | the answer tells the truth about the transaction; outcomes are final; requests end; locks go | `DbSession` |
| **Inference submission** (`api/v1/inference.py`) | rows of `inference_jobs`, documents of `inference_logs` | submit, status | PostgreSQL, MongoDB, (worker: not wired) | no job unlogged, no orphan accepted, an accepted job is found | `InferenceSubmit` |
| **Task store** (`api/v1/tasks.py`) | rows of `tasks` | create, get, cancel | PostgreSQL | an answered creation is visible, an answered cancellation holds, a cancelled task is touched only by a stale reader | `TaskStore` |
| **Lists** (`list_tasks`, `list_users`) | the client's walk over a changing table | count, page | PostgreSQL | a walk misses nothing that was there; count and page agree | `TaskListing` |
| **User accounts** (`api/v1/users.py`, `services/auth-service/app/main.py:182-260`) | rows of `users`, written by two services | create, register, login | PostgreSQL | one account per email; 201 and 409 mean what they say; only a registered password logs in | `UserAccounts` |
| **Tokens** (`auth-service/app/main.py:87-116, 263-309`) | none (stateless JWT) | issue, verify, refresh, me | `users`, clocks | expiry is kept; a role that was taken away stays away once its tokens have lapsed | `AuthTokens` |
| **Workers** (`worker-service/app/worker.py`) | Celery queues in Redis, retries, results | run, acknowledge, retry, requeue, time out | Redis | every queued task ends, at-least-once, bounded retries | `CeleryWorker` |
| **Inference service** (`inference-service/app/main.py`) | `_loaded_models`, one dict per process | load, list, predict, batch | client | every process serves what the catalogue lists (it does not: section 5) | `InferenceRegistry` |
| **Lifespan and health** (`api-service/app/main.py:53-105, 214-240`, `db/*.py`) | engine, Mongo client, Redis client (module globals) | start, stop, `/ready` | all stores | nobody meets a closed client; readiness tells the truth | `ApiProcess` |
| **Connection pool** (`postgres.py:35-43`, `config.py:39-42`) | connections checked out | take, give back, overflow, time out | PostgreSQL | no request waits for ever; no leak | `ApiProcess` |
| **Metrics middleware** (`main.py:129-161`) | counters per process | count | Prometheus | every request is counted (it is not: section 6) | (section 7) |
| **Gateway, compose, Kubernetes, Argo CD, Terraform** | configuration | | | | (section 7) |
| **Dashboard, benchmarks, CI and chaos scripts** | | | | | (section 7) |

Interaction: the gateway forwards to api-service and auth-service; both open
sessions on one PostgreSQL, and share the `users` table without sharing code.
api-service logs inferences to MongoDB inside the PostgreSQL session. Nothing
dispatches to Celery yet (`inference.py:72`), and neither api-service nor the
worker calls inference-service; api-service only advertises, as a constant, the
models that inference-service loads.

What is hard here: the commit lies outside the handler (after a `yield`), so a
handler's success is provisional; whether it lies before or after the *response*
depends on the FastAPI release that the requirement `fastapi>=0.115,<1.0`
happens to install; check-then-act sequences across two services; read-modify-write
without locks, where the write is flushed by the commit; two stores without a
common transaction; COMMITs whose answer is lost; locks that outlive their
process; lists cut from a table that changes between two statements; tokens that
outlive what they say; stores that fail while a process starts, serves or drains.
The hazards, each at its line, are in `PROJECT.json`.

## 2. Modules

| Module | What it is |
|---|---|
| `DbSession` | one request that owns a PostgreSQL session; the base that the next three modules extend |
| `RequestOutcome` | the abstract promise of a request: an effect that is decided once, an answer that agrees with it |
| `TaskBoard` | the abstract promise of the task endpoints together: a board on which a task is posted once and then only struck out |
| `AccountBook` | the abstract promise of the two sign-up endpoints together: a book in which an email is entered once |
| `InferenceSubmit` | `submit_inference`, `get_inference_status`, the MongoDB log and its TTL |
| `TaskStore` | `create_task`, `get_task`, `cancel_task` over rows with locks |
| `UserAccounts` | `create_user`, `register`, `login` over the shared table |
| `TaskListing` | `list_tasks` (and `list_users`), asked page after page |
| `AuthTokens` | `create_token`, `verify_token`, `login`, `refresh_token`, `get_current_user` over clocks that differ |
| `CeleryWorker` | the queues, pool processes and results of worker-service |
| `InferenceRegistry` | the processes of inference-service and the catalogue of api-service |
| `ApiProcess` | one process of api-service: lifespan, pool, `/ready`, drain |
| `MC*` | instances for TLC: small sets of requests |
| `*Proofs` | the theorems about the module of that name; `InferenceProofs` is about `InferenceSubmit` and `InferenceRegistry` |

### How the model corresponds to the code

**`DbSession`** has four variables, each a function of the request. `pc` is how far
the request is: `running` is the handler, `returned` and `raised` its two
endings, `committed` the return of `commit()`, `failing` the re-raised
exception on its way to the exception handlers, `done` the end, `dead` a killed
process. `tx` is the transaction as PostgreSQL sees it; `indoubt` is a COMMIT
that was sent over a connection that broke. `code` is the status decided by the
handler or by an exception, `reply` the one sent.

| Action | Code |
|---|---|
| `Begin`, `Connect` | routing; the first `await db.execute/flush` checks a connection out |
| `Write` | the flush of an INSERT or UPDATE, by the handler or by `commit()` |
| `Return`, `Raise` | the endings of a handler |
| `CommitOk`, `CommitFails`, `CommitLost` | `await session.commit()` (`postgres.py:67`, `auth-service main.py:203`) |
| `Rollback`, `RollbackFails` | the `except` branch (`postgres.py:68-70`), and the exit of `async with` in auth-service |
| `ReadBackFails` | `await session.refresh(user)` after register's own commit |
| `Answer`, `AnswerError` | the response; `service_error_handler`, `unhandled_exception_handler` |
| `Reap`, `Resolve`, `Crash` | PostgreSQL ends a transaction; the fate of a lost COMMIT; SIGKILL |

`EarlyCommit` is the set of requests whose dependency exits before the response
is sent. FastAPI does that up to 0.117 and exits it after the response from
0.118; the models treat both, and auth-service (`OwnCommit`), which commits in
its handlers, is always early. `Faulty` is the set of requests that may meet a
fault, so that one run can hold faulty requests next to requests of which it is
claimed that they are answered.

The modules over `DbSession` say at which point each handler reads, writes, refuses
and returns, and what its commit publishes. A job, a task or a row is named
after the request that makes it (the code draws a fresh uuid); payloads, names,
timestamps and log lines are left out, except the completion time of a task,
which is named after the cancellation that stamped it. `tasks` rows are
published by the commit of their transaction (READ COMMITTED); an UPDATE waits
for the row lock of another writer (`LockedByOther`) or gives up
(`LockTimeout`), and an INSERT waits for a concurrent one with the same unique
key (`BeingInserted`). `WaitsForRow` and `WaitsForIndex` are these two waits. A
stored hash is the pair of its prefix and the password as `UserCreate` has stripped it.

**`TaskListing`** is the table as `list_tasks` sees it (`row`, and `created`, the
clock at which the inserting transaction began) and one client. `CountTasks` and
`ReadPage` are the two statements of a request (`tasks.py:85-95`), which see two
states of the table. `PagesOf` is what `ORDER BY created_at DESC OFFSET ... LIMIT
...` may return: rows of equal `created_at` come in any order, another one each
time. `Pages` is the page arithmetic of the answer. The clock moves on, or does not, when
a transaction begins, since times are only compared. A task leaves a filtered list
by a cancellation, and any list when it is deleted: no endpoint does that, but
`tasks.owner_id` cascades from a user who is (`database.py:90`). `left` remembers,
for the properties, that a task left during the walk.

**`AuthTokens`** names a token by what it carries (`sub`, `role`, `iat`, `exp`),
its lifetime, and the real time it was made (`born`), which only the properties
read. A replica's clock is within `MaxSkew` of the real time (`Clock`); the two
tokens of a pair are made by two reads of it. `ChangeAccount` disables, demotes
or deletes a row of `users`; the repository has no endpoint for that. The
signature is taken as unforgeable, so a token that is presented was issued.

**`InferenceRegistry`** has a dict of models for each process, filled by the
import of the module and again by the lifespan; a load goes to one process, and is lost
when that restarts. No handler of the service awaits anything between
reading and writing the dict, so each is one step; `PredictCode` and `BatchCode`
are the answers of `predict` and `batch_predict`. `Catalogue` is the constant
that api-service's `list_models` returns.

**`ApiProcess`** is one process over three stores that may answer or not:

| Action | Code |
|---|---|
| `Start`, `OpenStore`, `OpenFails` | the lifespan: `init_db`, `init_mongo`, `init_redis` in turn; an exception ends the process |
| `Arrive`, `Checkout`, `PoolTimeout` | the pool with `pool_size + max_overflow`, `pool_pre_ping`, `pool_timeout` |
| `CheckPostgres`, `CheckStore` | `/ready`: the SELECT of `check_db_health` on a connection of the same pool (`Checkout`, and back by `CloseSession`), then `check_mongo_health`, `check_redis_health` |
| `Handle`, `CloseSession`, `Respond` | the handler, the exit of `async with`, the response |
| `Sigterm`, `CloseStore`, `Kill` | uvicorn's drain, the end of the lifespan, SIGKILL |

`Remember` keeps two sets that only `VerdictIsHonest` reads: which stores have
answered, and which have not, since `/ready` began to ask; PostgreSQL also has not
while the other requests hold the whole pool. What a session does with its
transaction is in `DbSession`; here a request has a connection or not.

**`CeleryWorker`** keeps, for each task and retry number, how many messages wait
(`waiting`), the message each pool process has not acknowledged (`held`), what
the result backend says (`result`), and two counts that only the properties
read (`lost`, `raised`). The behaviour of Celery and Redis is external; which of
it happens is decided by the settings of `worker.py:48-75` and by `RetryTask`:

| Action | Code |
|---|---|
| `Take`, `Acknowledge` | `task_acks_late`: the acknowledgement comes after the run |
| `Succeed` | the task bodies return |
| `Fail` | an exception, `SoftTimeLimitExceeded` included: `autoretry_for`, `max_retries` |
| `Overrun` | `task_time_limit`: the process is killed, the task has failed |
| `ProcessLost` | the process or the whole worker dies: `task_reject_on_worker_lost`, or the broker delivers again what nobody acknowledged |
| `Redeliver` | the broker connection is lost while the process works on |

`Poison` is the set of tasks that may kill their process again and again.
A message that a worker has prefetched but not started counts as waiting, since
it goes back when the worker does. Backoff and jitter only delay. A hard time
limit leaves the result `timeout` where Celery writes a FAILURE with
`TimeLimitExceeded`, to tell it from exhausted retries.

Three abstract specifications say what is promised, each with a refinement
mapping in the module that implements it. `RequestOutcome` speaks of one request
(`OutcomeSpec` in `DbSession`); its effect is what PostgreSQL did with the
transaction. `TaskBoard` and `AccountBook` speak of all requests to the task
and to the sign-up endpoints together, with no session, lock, check or index
(`BoardSpec` in `TaskStore`, `BookSpec` in `UserAccounts`): the rows are the
committed rows, and an entry, a strike or a post is the step in which a
transaction is committed, which may be long after the handler that decided on it.

Operators preceded by a comment that begins "Variant" are plausible mistakes in
the definition that follows them. No specification uses them; each is
substituted for that definition to see that a property notices.

## 3. Runs

| Run | Instance | Result |
|---|---|---|
| `sessions` | 2 requests, one early with its own commit, one late, both faulty | 13 005 states |
| `inference` | 2 submissions: early and faulty; late and fault-free; owner known or not | 1 462 states |
| `tasks` | 1 creation (faulty), 2 cancellations (1 faulty), 1 read | about 89 000 states |
| `accounts` | `create_user` (faulty) and 2 `register` (1 faulty) for one email; 2 passwords | about 89 000 states |
| `listing` | 4 tasks, pages of 2, 4 moments, filtered or not (symmetry over the tasks) | about 2.08 million states |
| `tokens` | 1 account, 2 roles, 2 pairs, lifetimes 1 and 5, skew 1, time up to 6 | about 745 000 states |
| `process` | 2 requests and `/ready`, a pool of 1, PostgreSQL and Redis fail and return | about 41 600 states |
| `worker` | 1 `RetryTask` with 3 retries, 1 plain task that may kill its process for ever, 2 pool processes, 1 lost delivery | 141 522 states |
| `inference_owner` | no faults | violated: `SubmissionIsAccepted` |
| `task_twice` | no faults | violated: `CompletedAtWrittenOnce` |
| `user_login` | no faults | violated: `OwnerLogsIn` |
| `catalogue` | 2 processes, the 2 models of the catalogue and 1 other, limit 32 | violated: `CatalogueIsServed` |

`sessions` checks that a success answered after the commit is in the database
and that a refusal has left nothing there (`ReplyIsTruthful`), that only a
request that may meet a fault can end with an open transaction (`EndsResolved`),
that every request ends and every lock is released, and that `DbSession`
implements `RequestOutcome` (`OutcomeSpec`): an effect and an answer are decided
once and agree.

`inference` checks the two
stores against each other (`JobWasLogged`, `StoresAgree`), against what the client
was told (`OrphanWasNotAccepted`) and against what a
polling client sees (`AcceptedIsFound`). `tasks` checks what 201 and 204 promise
to later readers, that nothing touches a cancelled task but the commit of another
cancellation that had read it as pending (`StampMovesByStaleReader`; finding 2 is
that this one does), and that the three endpoints
together implement `TaskBoard`: no task ever returns from cancelled, and every
answer is from one look at the board. `accounts` checks uniqueness, who may log
in, and that the two services together implement `AccountBook`: a 201 names an
account that is in the book, a 409 one that somebody else entered. The last two also check
that a fault-free request is answered even when another
one died holding a lock it needs (`FaultFreeIsAnswered`). No lock_timeout is
relied upon there: it is PostgreSQL ending the dead one's transaction that lets the
waiting one go on, and without it the property fails.

`listing` shows which tasks a client that walks the pages up to a short one may
miss: none that was listed when the walk began, whatever is created or committed
late meanwhile, but for those that share their `created_at` with another, and
those that moved up when a task left the list, cancelled under a filter or deleted
with its owner (`WalkFindsAll`). It also shows
that, as long as none leaves, the two statements of an answer cannot be played
against each other: no announced page is empty, and the last page reaches the total
(`PageMeetsTotal`). That `pages` announces a page too few, when a row is committed
between the statements, happens and is not excluded.

`tokens` shows what stateless tokens still guarantee: expiry within two skews
(`VerdictIsTimely`), and that a role which an account has lost, because the role was
changed or the account disabled or deleted, is out for good once the tokens
with that role have lapsed (`LapsedStaysOut`). Before that it can be renewed without
an end; see section 6.

`catalogue` takes the limits that api-service lists and the one inference-service
enforces, and finds a listed batch that is refused (`CatalogueIsServed`); that the limits are
the only cause is a theorem.

`process` checks that no request meets a closed client, neither after a start-up
that failed half-way nor in a drain (`ClientsOutliveRequests`), that each verdict
of `/ready` was true of some moment of its asking (`VerdictIsHonest`), and that neither
requests nor the drain hang although one connection serves all (`NothingHangs`).

`worker` checks at-least-once delivery (`NoTaskLost`), that repeated deliveries
do not use up retries (`FailureIsEarned`), that a task has one copy and one more for each
lost delivery (`CopiesAreCounted`), that a result which a client has read changes
only after a loss, and a success never (`ResultStays`), and that a task ends
(`EveryTaskEnds`) even beside one that kills its process for ever.

### Bounds

There are no counters in the request modules: each request runs once, so the
runs are finite without a constraint. `CHECK_DEADLOCK FALSE` is there because the
system may stop when every request has ended, the walk is done and no task is left
to begin, or the tokens have reached `MaxTime`.
Sessions do not interact in `DbSession`; two of them are
one of each kind. A task row needs two cancellations to conflict and one reader
to notice; a third cancellation would wait for the same lock. An email needs
three sign-ups for a winner, a loser that waits, and a loser that comes late;
each service is among them, and a padded password next to a plain one.

In `TaskListing`, four tasks over pages of two make a full page, a second page
that shifts, and rows that arrive in the middle; `MaxTime` lets each have a
moment of its own. In `AuthTokens`, `MaxPairs` 2 is a login and a renewal, `MaxTime`
exceeds `RefreshLife`, so that pairs lapse, and `AccessLife` is shorter than two
skews, the worst case. In `ApiProcess`, one connection for three contenders makes
the pool the bottleneck; `Flaky` leaves MongoDB out, whose check and opening are
those of Redis, one place earlier.
In `CeleryWorker`, `MaxLosses` bounds the lost deliveries of one task (a
poisonous task may be lost beyond it, uncounted) and `MaxRetries` is the 3 of
the code: one loss is enough for two copies of a message in two processes, and
a loss is possible at each of the four tries. Each task is sent once; a second
copy of a task comes from a loss. The
theorems carry the safety properties to any instance.

### Fairness

Weak fairness of a request once its handler has started: the event loop runs
every ready coroutine, and PostgreSQL answers a statement that need not wait. A
request that waits for a row lock or for the unique index (`WaitsForRow`,
`WaitsForIndex`) has no step that must happen: `lock_timeout` and
`statement_timeout` (`docker/scripts/init-postgres.sh:40-41`) may end it and are not
relied upon. Arrival (`Begin`) is not fair. Weak fairness of the end of a transaction that
nobody drives any more: `idle_in_transaction_session_timeout` (line 42) or the
closing of the connection. Weak fairness of the decision of a COMMIT: PostgreSQL
finishes or, after recovery, has not.

In `ApiProcess`, weak fairness of what a request does next and of the probe, by
the event loop and the time limits of the drivers, and of the lifespan once it is
under way. `PoolTimeout` is not fair: requests are served because connections
come back, not because they give up. Arrival, SIGTERM, SIGKILL and the stores
themselves are not fair either.

In `CeleryWorker`, weak fairness of the work of a pool
process: the pool replaces processes that die, an idle one fetches what waits,
and a run ends by itself or by its time limits. Strong fairness of the fetch from
each queue (`TakeFrom`): the consumer asks its queues in turn, so that a
queue in which something waits again and again is served, however often a
poisonous task of another queue comes back. It says nothing of two tasks of one
queue. Faults are never fair. `TaskListing`, `AuthTokens` and
`InferenceRegistry` have no liveness properties and no fairness: what happens
there is up to clients.

## 4. What is proved

For any sets of requests, tasks, users and processes, any sizes and bounds, and from the
named assumptions on the constants only (`SessionAssumption`, `TaskStoreAssumption`,
`UserAccountsAssumption`, `CeleryAssumption`, `IdleAssumption`, `ListingAssumption`,
`TokenAssumption`, `ProcessAssumption`; `RegistryAssumption` is a hypothesis of the two
theorems about the registry). Every invariant, every
action property and every refinement that a passing run checks is also a theorem.

* **`DbSessionProofs`**. The safety properties are not inductive: that a refusal
  has left nothing depends on which transaction states go with a request that is
  about to answer. `SessionInv` gives, for each control point, the possible
  transaction states, codes and replies (`PhaseInv`), who may be left with an
  open transaction (`FaultInv`) and what replies imply (`ReplyInv`). A step moves
  one request (`OthersUnchanged`) and preserves the invariant for it
  (`MoverInv`, one step per action). From it: `TypeCorrect`,
  `RepliesAreTruthful`, `EndsAreResolved`, `OutcomesAreFinal`, and
  `SessionImplementsOutcome`, by the refinement mapping `Effect`.
  `SessionsProgress` is the safety half of `EveryRequestEnds`: each step lowers
  the `Rank` of its request, which is at most 69, and raises no other, so a request
  takes finitely many steps whatever fails.
* **`InferenceProofs`**. A submission is a session
  (`SubmissionIsASession`), so `SessionInv` holds of it; `SubmitInv` adds where the
  handler is, what is logged, and, for a fault-free request, that a logged row
  will be committed. From it the invariants of the run, and that a job once shown
  stays visible (`FoundJobsStayFound`). For the registry, `RegistryInv` says that a
  process that is up has the default models, whatever it loaded and whenever it restarted;
  `CatalogueServedWithinLimit` follows.
* **`TaskStoreProofs`**. `StoreInv` says that a row exists when its creation is
  committed, that a completion time is that of a committed cancellation, and
  that what a request has read is not undone. From it `CancelledWhenAnswered`,
  `CreatedTasksAreFound`, `CancelledTasksAreSeen`, `StampsMoveByStaleReaders`.
  For `TasksImplementBoard`, `CodesInv` ties the code a request carries to what it
  has read, so that its answer, given steps later, is one the board allows
  (`AnswerFromBoard`); a commit is a post, a strike or nothing (`CommitOnBoard`),
  a SELECT is a look, and every other step leaves the board alone.
* **`UserAccountsProofs`**. `AccountInv`: at most one request *holds* an email
  (has an INSERT that was not rolled back), and the table is the rows of the
  committed requests. The check for an existing email plays no part in
  `EmailsAreUnique`; the unique index does it all. Also `RepliesMatchTable`,
  `LoginsAreRegistered` and `AccountsTypeCorrect`. `AccountsImplementBook` follows: a
  commit enters an account whose email is free because its holder is the only one
  (`CommitEnters`), and a 201 or 409 is true when it is given (`AnswerTells`).
* **`CeleryWorkerProofs`**. For any tasks, processes, retries and losses.
  `NoTaskLost` is inductive with the types: a message leaves its queue into a
  process that still owes the acknowledgement (`TasksAreKept`). For
  `FailuresAreEarned`, `RetriesRaised` says that a message for the k-th retry,
  waiting or held, exists only after k runs raised. For `CopiesCounted`, the
  messages of a task are a finite heap that one publication makes one larger and
  one fetch one smaller (`PublishCounts`, `TakeCounts`), its runners a set that
  gains or loses a process at a time (`RunsCount`); every action then keeps the
  sum within what is allowed (`CopyInv`). So a task of which no delivery was
  lost runs once at a time (`RunsOneAtATime`), and no run is left
  to change a result that is final (`ResultsStay`).
* **`TaskListingProofs`**. A walk owes a task to those *above* it: `WalkInv` says
  that above a task that is due and was not shown there are at least as many rows
  as the walk has passed. Creations and late commits only add to them, and a page that
  begins no lower than the task shows it or is full and ends above it
  (`PageFindsOrPasses`, from facts about the cardinality of the first rows of a list). So a
  short page cannot come before the task: `WalksFindAll`. `CountInv` bounds the
  total by the rows and gives `PagesMeetTotals`.
* **`AuthTokensProofs`**. `TimesInv` places `iat` of each token within one skew of
  its birth and `exp` one lifetime after it; with the skew of the clock that verifies it,
  `JudgedInTime` gives `VerdictsAreTimely`. `LapsedAccountsStayOut` needs that a
  token which no clock accepts renews nothing, that a renewal keeps the role, and that a
  login takes the one in the table.
* **`ApiProcessProofs`**. `ProcessInv` says where a request can be
  (`RequestInv`), that a process which has requests has all its clients
  (`PhaseInv`), and which verdicts `/ready` has honestly found by each of its
  stages (`ProbeInv`), with a connection of its own only during the first. From it
  `ClientsOutlive` and `VerdictsAreHonest`; that the pool never lends more than it has is part of
  `ProcessTypeCorrect`.
  `NoCircularWait` and `RequestsProgress` are the safety half of `NothingHangs`:
  `PlaceInv` says that a request without a status waits or has a connection, and
  that nobody does both, so that whoever cannot go on waits for somebody who can;
  and each step of a request lowers its `Rank`, at most 9, and raises no other.

The refinement of `RequestOutcome` carries over to the three modules that extend
the session (`SubmissionImplementsOutcome`, `TaskRequestImplementsOutcome`,
`SignUpImplementsOutcome`).

Each finding of section 5 is also delimited by a theorem, which says what else would
have to be so. `KnownOwnersAreAccepted`: if the owner ids that are drawn were users, a
submission that meets no fault would be answered 202.
`SequentialCancellationsStampOnce`: while no two cancellations of a task are under way at
once (`OneAtATime`), however many follow one another and whatever fails, its completion
time is written once; and `StampsMoveByStaleReaders` says, of overlapping ones too,
that whoever moves it had read the task as pending. `LoginsAreDecided` says
exactly which login is answered 200: the service that made the account and the typed
password decide. `CatalogueServedWithinLimit`: if no listed limit is above the
enforced one, every process serves the catalogue whatever is loaded or
restarted, and if one is, every serving process refuses a listed batch. The hypotheses
of these are not claims about the code: they are what it lacks.

Only model-checked: the liveness properties (`EveryRequestEnds`,
`LocksAreReleased`, `EveryTaskEnds`, `NothingHangs`, the two
`FaultFreeIsAnswered`), which need fairness and ENABLED, out of the provers'
reach. The runs leave no safety property without a theorem.

## 5. Findings

1. `inference_owner`: `submit_inference` (and `create_task`) draws a random
   owner id, which the foreign key on `users.id` refuses. The tests mock the
   session. The other runs let the drawn id be a user or not.
2. `task_twice`: two concurrent cancellations both stamp `completed_at`.
3. `user_login`: accounts that `create_user` makes cannot log in. It stores
   `"hashed_"` and the password (`users.py:50`), `login` compares with
   `"argon2hash_"` (`auth-service main.py:236`). The property speaks of the
   active accounts of api-service and of passwords without outer whitespace, typed exactly; in
   the trace, `u1` is created through api-service and then refused.
4. `catalogue`: `list_models` lists batches of 64 for sentiment-analyzer-v2
   (`inference.py:137`), and `batch_predict` refuses more than 32
   (`inference-service main.py:44, 218`), from the first request on. The runbook
   lowers the limit to 16 under memory pressure (`docs/runbook.md:153`), which leaves the
   other model's 32 behind as well.

## 6. Divergences without a run

Behaviour that the models take as the code has it, where a document or a reader
may expect something else; the properties above are stated accordingly.

* With FastAPI 0.118 or later a 201, 202 or 204 of api-service is sent before the
  commit, which may then fail. Properties that need the commit first speak of
  `EarlyCommit` only.
* The loser of two concurrent sign-ups for one email is answered 500, not 409:
  nothing maps the IntegrityError of the unique index.
* A task that kills its process is queued again without a limit
  (`worker.py:58`); the dead letter handling that `docs/architecture.md:33` lists
  does not exist. `EveryTaskEnds` leaves such tasks out, and shows that others are not starved.
* Redis runs with `maxmemory-policy allkeys-lru` (`docker/compose.yaml:362`): a full
  one evicts the broker's queues, where `scripts/chaos-drill.sh:80` counts on them
  to drop nothing. `NoTaskLost` assumes that Redis keeps its keys.
* A job accepted by api-service is never dispatched (`inference.py:72`), and
  `run_inference` does not write to the row its docstring names
  (`worker.py:112`): jobs stay `pending`.
* A crash, or a commit that fails after `insert_one` succeeded, leaves a document in
  MongoDB without a job. Nothing looks for it; it stays until its TTL.
  `OrphanWasNotAccepted` says that nobody was told 202 about it, and no more.
* With FastAPI 0.118 or later a poll just after the 202 may be answered 404
  (`inference.py:101`); `AcceptedIsFound` speaks of the releases that commit first.
* A model that is loaded by request is in one process of several, and is lost
  with it: the next `predict` may be answered 500. Nothing promises more.
* In development every process runs `create_all` as it starts
  (`postgres.py:93-94`), and `docker/.env.example:8` sets that environment for an image
  with four processes. Two that create one table at the same time race inside
  PostgreSQL; the loser's start-up fails, and it is started again (`OpenFails`).
* `/ready` answers 200 whatever it found, so a probe that looks at the status
  never takes a pod out of service.
* `request_middleware` says "Add correlation ID, timing, and metrics to every request."
  (`main.py:131`), but an unhandled exception leaves it through `call_next`, on the way to the
  outermost middleware of Starlette, which runs `unhandled_exception_handler`: that 500
  is not counted and has no `X-Request-ID`. The
  alert `HighErrorRate` (`monitoring/prometheus/alerts.yml:15`) and the SLO query of
  `docs/interview-qa.md:23` divide counted 5xx by counted requests, and miss it.
  The program never reads its counters, so this is said here and not by a property.
* `TokenPayload.jti` is commented "for revocation" (`shared/common/schemas.py:168`),
  and nothing revokes: `refresh_token` copies the role and never reads the user
  (`auth-service main.py:268-277`), so a demoted, disabled or deleted account keeps its old role
  for as long as it renews in time. `LapsedStaysOut` begins where it does not.
* `/metrics` is answered by one of several processes, each with its own counters.

## 7. Not modelled, and what comes next

Not modelled: the declarative deployment files (their values enter the models as
constants and faults), nginx (its rate limits are its own code; that a request
reaches any process is in `ApiProcess` and `InferenceRegistry`), the dashboard
page, benchmarks and scripts; the counters and latencies of the middleware; the
validation of single values in the schemas and the
format of log lines; `get_user`, which reads one row. In `CeleryWorker`: the
states STARTED and RETRY and the expiry of
results, the second of appends that `appendfsync everysec` may lose when Redis
itself crashes, and revocation.

Worth doing once the code is there: `CeleryWorker` composed with
`InferenceSubmit`, when a job is dispatched and its row completed. Until then
there is no step that joins them.
