----------------------------- MODULE TaskListing -----------------------------
(***************************************************************************)
(* list_tasks of api-service, asked page after page by one client, over a  *)
(* tasks table that changes meanwhile.  list_users is the same over users, *)
(* without a filter.                                                       *)
(*                                                                         *)
(* An answer comes from two SELECTs of a READ COMMITTED transaction: the   *)
(* count, then the page.  Pages are cut from the rows in descending order  *)
(* of created_at and nothing else, so rows of equal created_at may come in *)
(* any order, another one each time.  created_at is the time at which the  *)
(* inserting transaction began; the row is visible when it has committed,  *)
(* possibly after rows that were stamped later.  No endpoint deletes a     *)
(* row, but the row of a user who is deleted takes the user's tasks along. *)
(*                                                                         *)
(* The client asks for page 1, 2, ... up to a page with fewer than         *)
(* page_size items: a walk.                                                *)
(***************************************************************************)
EXTENDS Integers, FiniteSets

CONSTANTS
    Task,      \* the tasks that may be created
    PageSize,  \* page_size of the client
    MaxTime    \* bound on the clock of PostgreSQL

ASSUME ListingAssumption ==
    /\ IsFiniteSet(Task)
    /\ PageSize \in Nat \ {0}
    /\ MaxTime \in Nat

VARIABLES
    now,      \* the clock of PostgreSQL, when a task was last begun
    created,  \* created[t]: created_at, 0 before the transaction has begun
    row,      \* row[t]: "absent", "pending", "cancelled" or "deleted" as committed
    filter,   \* the client asks for ?status=pending
    stage,    \* of the walk: "idle", then "count" and "page" in turn, "done"
    page,     \* the page that is asked for
    total,    \* what the last count statement returned
    length,   \* the number of items of the last page
    seen,     \* the tasks the client was given so far
    due,      \* the tasks that were listed when the walk began
    left      \* whether a task has left the list during the walk

table == <<now, created, row>>
walk == <<stage, page, total, length, seen, due>>
vars == <<table, filter, walk, left>>

Init ==
    /\ now = 1
    /\ created = [t \in Task |-> 0]
    /\ row = [t \in Task |-> "absent"]
    /\ filter \in BOOLEAN
    /\ stage = "idle"
    /\ page = 1
    /\ total = 0
    /\ length = 0
    /\ seen = {}
    /\ due = {}
    /\ left = FALSE

-----------------------------------------------------------------------------
(* create_task: its transaction begins, and is committed or never is.      *)
(* Times are only compared, so that all that matters of the clock is       *)
(* whether it has moved on since the last transaction began.               *)
BeginTask(t) ==
    /\ created[t] = 0
    /\ \E time \in {now, now + 1} \cap 1..MaxTime :
        /\ now' = time
        /\ created' = [created EXCEPT ![t] = time]
    /\ UNCHANGED <<row, filter, walk, left>>

CommitTask(t) ==
    /\ created[t] # 0
    /\ row[t] = "absent"
    /\ row' = [row EXCEPT ![t] = "pending"]
    /\ UNCHANGED <<now, created, filter, walk, left>>

(* cancel_task is committed: the task leaves the list of pending tasks. *)
CancelTask(t) ==
    /\ row[t] = "pending"
    /\ row' = [row EXCEPT ![t] = "cancelled"]
    /\ left' = (left \/ (filter /\ stage # "idle"))
    /\ UNCHANGED <<now, created, filter, walk>>

(* A task goes with its owner: ON DELETE CASCADE. *)
DeleteTask(t) ==
    /\ row[t] \in {"pending", "cancelled"}
    /\ row' = [row EXCEPT ![t] = "deleted"]
    /\ left' = (left \/ stage # "idle")
    /\ UNCHANGED <<now, created, filter, walk>>

-----------------------------------------------------------------------------
(* The rows of the query. *)
Listed == {t \in Task : row[t] = "pending" \/ (~ filter /\ row[t] = "cancelled")}

(* X can be the first rows of V in descending order of created_at. *)
IsTop(X, V) == X \subseteq V /\ \A x \in X, y \in V \ X : created[x] >= created[y]

(* The number of the first n rows of V that there are. *)
UpTo(n, V) == IF n < Cardinality(V) THEN n ELSE Cardinality(V)

(* Variants: without ORDER BY; without LIMIT. *)
UnorderedPages(V, offset, limit) ==
    {S \in SUBSET V : Cardinality(S) = UpTo(offset + limit, V) - UpTo(offset, V)}

UnlimitedPages(V, offset, limit) ==
    {S \in SUBSET V : IsTop(V \ S, V) /\ Cardinality(V \ S) = UpTo(offset, V)}

(* What OFFSET offset LIMIT limit may return: the rows that follow the     *)
(* first offset ones, with ties resolved anyhow.                           *)
PagesOf(V, offset, limit) ==
    {S \in SUBSET V : \E P \in SUBSET (V \ S) :
        /\ IsTop(P, V) /\ Cardinality(P) = UpTo(offset, V)
        /\ IsTop(P \cup S, V) /\ Cardinality(P \cup S) = UpTo(offset + limit, V)}

Offset(p) == (p - 1) * PageSize

(* Variant: one page more than is full. *)
FullPagesAndOne(n) == n \div PageSize + 1

(* pages, as the answer gives it. *)
Pages(n) ==
    LET p == (n + PageSize - 1) \div PageSize IN IF p > 1 THEN p ELSE 1

StartWalk ==
    /\ stage = "idle"
    /\ stage' = "count"
    /\ due' = Listed
    /\ UNCHANGED <<table, filter, page, total, length, seen, left>>

(* The first statement: SELECT count. *)
CountTasks ==
    /\ stage = "count"
    /\ total' = Cardinality(Listed)
    /\ stage' = "page"
    /\ UNCHANGED <<table, filter, page, length, seen, due, left>>

(* The second statement, the answer, and the next request of the client if *)
(* the page was full.                                                      *)
ReadPage ==
    /\ stage = "page"
    /\ \E S \in PagesOf(Listed, Offset(page), PageSize) :
        /\ seen' = seen \cup S
        /\ length' = Cardinality(S)
        /\ IF Cardinality(S) < PageSize
             THEN stage' = "done" /\ UNCHANGED page
             ELSE stage' = "count" /\ page' = page + 1
    /\ UNCHANGED <<table, filter, total, due, left>>

Next ==
    \/ \E t \in Task : BeginTask(t) \/ CommitTask(t) \/ CancelTask(t) \/ DeleteTask(t)
    \/ StartWalk \/ CountTasks \/ ReadPage

Spec == Init /\ [][Next]_vars

-----------------------------------------------------------------------------
TypeOK ==
    /\ now \in Nat
    /\ created \in [Task -> Nat]
    /\ row \in [Task -> {"absent", "pending", "cancelled", "deleted"}]
    /\ filter \in BOOLEAN
    /\ stage \in {"idle", "count", "page", "done"}
    /\ page \in Nat \ {0}
    /\ total \in Nat
    /\ length \in 0..PageSize
    /\ seen \subseteq Task
    /\ due \subseteq Task
    /\ left \in BOOLEAN

Untied(t) == \A u \in Task \ {t} : created[u] # created[t]

(* A walk to the first short page misses no task that was listed when it   *)
(* began, however many are created, or become visible late, between its    *)
(* pages: insertions only move a row to a later page.  It may miss one     *)
(* that shares its created_at with another, and one that moved to an       *)
(* earlier page when another task left the list: by a cancellation, in a   *)
(* filtered walk, or by a deletion.                                        *)
WalkFindsAll == stage = "done" /\ ~ left =>
    \A t \in due : Untied(t) => t \in seen

(* As long as no task leaves the list, the two statements of an answer     *)
(* agree although they read different states of the table: the page is     *)
(* never shorter than the total announced with it, and every page up to    *)
(* the announced number of pages has an item, if any row is there.         *)
PageMeetsTotal == stage = "done" /\ ~ left =>
    /\ Offset(page) + length >= total
    /\ total > 0 /\ page <= Pages(total) => length > 0
=============================================================================
