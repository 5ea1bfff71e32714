------------------------------ MODULE ApiProcess ------------------------------
(***************************************************************************)
(* One uvicorn process of api-service, from its start to its end.          *)
(*                                                                         *)
(* The lifespan opens PostgreSQL, MongoDB and Redis one after the other    *)
(* and lets the first failure end the process, which is then started       *)
(* again.  A process that serves lends the connections of its pool to      *)
(* requests, which wait for one in no certain order; /ready is such a      *)
(* request, and asks the three stores in turn.  On SIGTERM uvicorn takes   *)
(* no more requests, waits for those under way, and has the lifespan close *)
(* the stores.  What a session does is in DbSession; here a request holds  *)
(* a connection from its first statement until its session is closed,      *)
(* before or after its response, and /ready for one SELECT.                *)
(***************************************************************************)
EXTENDS Integers, FiniteSets

CONSTANTS
    Request,  \* the requests for endpoints with a session, in one life
    Ready,    \* the request of the kubelet for /ready
    Capacity, \* pool_size + max_overflow
    Flaky     \* the stores that fail and come back; the others stay as they are

Stores == {"postgres", "mongodb", "redis"}

ASSUME ProcessAssumption ==
    /\ Flaky \subseteq Stores
    /\ IsFiniteSet(Request)
    /\ Ready \notin Request
    /\ Capacity \in Nat \ {0}

VARIABLES
    up,        \* the stores that answer
    phase,     \* of the process: see TypeOK
    opened,    \* the stores this process has a client of, one that has answered
    progress,  \* progress[r]: "none", "running" or "done"
    code,      \* code[r]: the status r is going to be answered with, 0 before
    waiting,   \* who waits for a connection
    holders,   \* who has one
    check,     \* the store /ready is asking, "answered" after the last one,
               \* "none" while there is no such request
    verdict,   \* verdict[s]: whether /ready has found s healthy
    wasUp,     \* the stores that answered at some time since /ready began
    wasDown    \* those that did not, or whose pool requests had exhausted

life == <<phase, opened>>
serving == <<progress, code, waiting, holders, check, verdict>>
vars == <<up, life, serving, wasUp, wasDown>>

All == Request \cup {Ready}

(* The order of the lifespan, and of /ready. *)
Before == [postgres |-> {}, mongodb |-> {"postgres"}, redis |-> {"postgres", "mongodb"}]
After == [postgres |-> "mongodb", mongodb |-> "redis", redis |-> "answered"]

Unhandled == 500
Fresh ==
    [progress |-> [r \in All |-> "none"], code |-> [r \in All |-> 0],
     verdict |-> [s \in Stores |-> FALSE]]

Init ==
    /\ up \in SUBSET Stores
    /\ phase = "down" /\ opened = {}
    /\ progress = Fresh.progress /\ code = Fresh.code
    /\ waiting = {} /\ holders = {}
    /\ check = "none" /\ verdict = Fresh.verdict
    /\ wasUp = up /\ wasDown = Stores \ up

-----------------------------------------------------------------------------
(* The stores fail and come back. *)
Change(s) ==
    /\ s \in Flaky
    /\ up' = IF s \in up THEN up \ {s} ELSE up \cup {s}
    /\ UNCHANGED <<life, serving>>

Exit ==
    /\ phase' = "down" /\ opened' = {}
    /\ progress' = Fresh.progress /\ code' = Fresh.code
    /\ waiting' = {} /\ holders' = {}
    /\ check' = "none" /\ verdict' = Fresh.verdict
    /\ UNCHANGED up

(* The supervisor or the kubelet starts the process. *)
Start ==
    /\ phase = "down"
    /\ phase' = "opening"
    /\ UNCHANGED <<up, opened, serving>>

(* init_db, init_mongo, init_redis: a statement or a ping is answered. *)
OpenStore(s) ==
    /\ phase = "opening" /\ opened = Before[s]
    /\ s \in up
    /\ opened' = opened \cup {s}
    /\ phase' = IF s = "redis" THEN "serving" ELSE phase
    /\ UNCHANGED <<up, serving>>

(* The exception is raised again; nothing closes what was opened but the   *)
(* end of the process.  In development create_all may raise as well, when  *)
(* another process creates the same tables.                                *)
OpenFails(s) ==
    /\ phase = "opening" /\ opened = Before[s]
    /\ s \notin up \/ s = "postgres"
    /\ Exit

-----------------------------------------------------------------------------
(* A request is routed, and its first statement asks the pool. *)
Arrive(r) ==
    /\ phase = "serving"
    /\ progress[r] = "none"
    /\ progress' = [progress EXCEPT ![r] = "running"]
    /\ waiting' = waiting \cup {r}
    /\ check' = IF r = Ready THEN "postgres" ELSE check
    /\ UNCHANGED <<up, life, code, holders, verdict>>

(* Variant: the pool grows with the demand. *)
MayTakeAnyway(r) == r \in waiting

MayTake(r) == r \in waiting /\ Cardinality(holders) < Capacity

(* An exception of the pool, which check_db_health takes for a failure of  *)
(* PostgreSQL and nothing else handles.                                    *)
NoConnection(r) ==
    IF r = Ready
      THEN check' = After["postgres"] /\ UNCHANGED code
      ELSE code' = [code EXCEPT ![r] = Unhandled] /\ UNCHANGED check

(* The connection that is checked out is tested first (pool_pre_ping), and *)
(* replaced if need be: that fails while PostgreSQL is down.               *)
Checkout(r) ==
    /\ MayTake(r)
    /\ waiting' = waiting \ {r}
    /\ IF "postgres" \in up
         THEN holders' = holders \cup {r} /\ UNCHANGED <<code, check>>
         ELSE NoConnection(r) /\ UNCHANGED holders
    /\ UNCHANGED <<up, life, progress, verdict>>

(* pool_timeout: a TimeoutError. *)
PoolTimeout(r) ==
    /\ r \in waiting
    /\ Cardinality(holders) = Capacity
    /\ waiting' = waiting \ {r}
    /\ NoConnection(r)
    /\ UNCHANGED <<up, life, progress, holders, verdict>>

(* The SELECT of check_db_health; its connection goes back in a step of    *)
(* its own, before the next store is asked.                                *)
CheckPostgres ==
    /\ Ready \in holders /\ check = "postgres"
    /\ verdict' = [verdict EXCEPT !["postgres"] = "postgres" \in up]
    /\ check' = After["postgres"]
    /\ UNCHANGED <<up, life, progress, code, waiting, holders>>

(* Variant: a client that exists is taken for healthy. *)
CheckClient(s) ==
    /\ check = s /\ s # "postgres" /\ Ready \notin holders
    /\ verdict' = [verdict EXCEPT ![s] = s \in opened]
    /\ check' = After[s]
    /\ code' = IF s = "redis" THEN [code EXCEPT ![Ready] = 200] ELSE code
    /\ UNCHANGED <<up, life, progress, waiting, holders>>

(* check_mongo_health, check_redis_health: a ping, which any exception     *)
(* makes unhealthy.  The answer is 200 whatever was found.                 *)
CheckStore(s) ==
    /\ check = s /\ s # "postgres" /\ Ready \notin holders
    /\ verdict' = [verdict EXCEPT ![s] = s \in up]
    /\ check' = After[s]
    /\ code' = IF s = "redis" THEN [code EXCEPT ![Ready] = 200] ELSE code
    /\ UNCHANGED <<up, life, progress, waiting, holders>>

(* The handler ends: a result, an error of the service, or an exception. *)
Handle(r) ==
    /\ r \in holders \ {Ready} /\ code[r] = 0
    /\ \E c \in {200, 404, Unhandled} : code' = [code EXCEPT ![r] = c]
    /\ UNCHANGED <<up, life, progress, waiting, holders, check, verdict>>

(* Whether r has done with its connection. *)
Finished(r) == IF r = Ready THEN check # "postgres" ELSE code[r] # 0

(* Variant: the session is not closed when the handler raised. *)
CloseOnSuccess(r) ==
    /\ r \in holders /\ Finished(r) /\ code[r] # Unhandled
    /\ holders' = holders \ {r}
    /\ UNCHANGED <<up, life, progress, code, waiting, check, verdict>>

(* async with async_session_factory(), or engine.connect(): the connection *)
(* goes back.                                                              *)
CloseSession(r) ==
    /\ r \in holders /\ Finished(r)
    /\ holders' = holders \ {r}
    /\ UNCHANGED <<up, life, progress, code, waiting, check, verdict>>

(* The response.  It follows the session if the handler raised; else the   *)
(* release of FastAPI decides.                                             *)
Respond(r) ==
    /\ progress[r] = "running" /\ code[r] # 0
    /\ code[r] # 200 => r \notin holders
    /\ progress' = [progress EXCEPT ![r] = "done"]
    /\ IF r = Ready THEN check' = "none" /\ verdict' = Fresh.verdict
                    ELSE UNCHANGED <<check, verdict>>
    /\ UNCHANGED <<up, life, code, waiting, holders>>

-----------------------------------------------------------------------------
Sigterm ==
    /\ phase = "serving"
    /\ phase' = "draining"
    /\ UNCHANGED <<up, opened, serving>>

UnderWay(r) == progress[r] = "running" \/ r \in holders

(* Variant: uvicorn does not wait. *)
DrainedAtOnce == TRUE

Drained == \A r \in All : ~ UnderWay(r)

(* close_db, close_mongo, close_redis.  If one raises, the others are left *)
(* to the end of the process.                                              *)
CloseStore(s) ==
    /\ phase = "draining" /\ Drained
    /\ opened = Stores \ Before[s]
    /\ \/ s # "redis" /\ opened' = opened \ {s} /\ UNCHANGED <<up, phase, serving>>
       \/ Exit

(* SIGKILL: a crash, or the end of the grace period. *)
Kill == phase # "down" /\ Exit

-----------------------------------------------------------------------------
(* What has been seen since /ready began. *)
Remember ==
    LET off == (Stores \ up')
            \cup IF Cardinality(holders' \ {Ready}) = Capacity THEN {"postgres"} ELSE {} IN
    IF check' = "none" THEN wasUp' = up' /\ wasDown' = off
    ELSE IF check = "answered" THEN UNCHANGED <<wasUp, wasDown>>
    ELSE wasUp' = wasUp \cup up' /\ wasDown' = wasDown \cup off

Serve(r) == Checkout(r) \/ Handle(r) \/ CloseSession(r) \/ Respond(r)

Probe == CheckPostgres \/ \E s \in Stores : CheckStore(s)

Live(s) == OpenStore(s) \/ OpenFails(s) \/ CloseStore(s)

Step ==
    \/ \E s \in Stores : Change(s) \/ Live(s)
    \/ \E r \in All : Arrive(r) \/ Serve(r) \/ PoolTimeout(r)
    \/ Probe
    \/ Start \/ Sigterm \/ Kill

Next == Step /\ Remember

(* The event loop runs what is ready; a handler ends, since the statements *)
(* and calls it awaits have time limits.  Nothing relies on PoolTimeout.   *)
Fairness ==
    /\ \A r \in All : WF_vars(Serve(r) /\ Remember)
    /\ WF_vars(Probe /\ Remember)
    /\ WF_vars((Start \/ \E s \in Stores : Live(s)) /\ Remember)

Safe == Init /\ [][Next]_vars
Spec == Safe /\ Fairness

-----------------------------------------------------------------------------
TypeOK ==
    /\ up \subseteq Stores /\ wasUp \subseteq Stores /\ wasDown \subseteq Stores
    /\ phase \in {"down", "opening", "serving", "draining"}
    /\ opened \subseteq Stores
    /\ progress \in [All -> {"none", "running", "done"}]
    /\ code \in [All -> {0, 200, 404, Unhandled}]
    /\ waiting \subseteq All
    /\ holders \subseteq All /\ Cardinality(holders) <= Capacity
    /\ check \in Stores \cup {"none", "answered"}
    /\ verdict \in [Stores -> BOOLEAN]

(* A request, from its arrival until its session is closed, finds every    *)
(* store opened: none is served by a process whose start-up met a store    *)
(* that did not answer, or whose shutdown has begun to close the clients.  *)
ClientsOutliveRequests == \A r \in All : UnderWay(r) => opened = Stores

(* What /ready says of a store was so at some time while it was asking:    *)
(* a healthy store answered, an unhealthy one did not, or, in the case of  *)
(* PostgreSQL, the other requests had taken the whole pool.                *)
VerdictIsHonest == check = "answered" => \A s \in Stores :
    s \in IF verdict[s] THEN wasUp ELSE wasDown

(* Every request is answered, or ended with its process, without anyone    *)
(* having to give up waiting for a connection, and a process that was told *)
(* to stop comes to its end.                                               *)
NothingHangs ==
    /\ \A r \in All : progress[r] = "running" ~> progress[r] # "running"
    /\ phase = "draining" ~> phase = "down"
=============================================================================
