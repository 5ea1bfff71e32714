----------------------------- MODULE UserAccounts -----------------------------
(***************************************************************************)
(* The users table, which two services write: create_user of api-service   *)
(* and register of auth-service; login of auth-service reads it.           *)
(*                                                                         *)
(* Both writers look for the email first and insert the row later, so that *)
(* the unique index on users.email decides between two that passed the     *)
(* check: an INSERT waits for a concurrent one of the same email and fails *)
(* if that one commits.  create_user flushes its INSERT in the handler,    *)
(* register by its own commit.  A stored hash is the pair of the scheme    *)
(* and the password that the schema validation has stripped of whitespace. *)
(***************************************************************************)
EXTENDS DbSession

CONSTANTS
    CreateUser, Register,  \* the requests, by endpoint
    Email,                 \* Email[r]: the email of r, as validated
    Password,              \* Password[r]: the password of r, as typed
    Active,                \* Active[r]: the is_active of r
    Text, Strip,           \* passwords; Strip[p] is p without outer whitespace
    None                   \* no account

ASSUME UserAccountsAssumption ==
    /\ Request = CreateUser \cup Register
    /\ CreateUser \cap Register = {}
    /\ OwnCommit = Register
    /\ Password \in [Request -> Text]
    /\ Strip \in [Text -> Text]
    /\ \A p \in Text : Strip[Strip[p]] = Strip[p]
    /\ Active \in [Request -> BOOLEAN]
    /\ None \notin Request

VARIABLES
    users,    \* the committed rows, each named by the request that made it
    checked,  \* the requests whose email check found no row
    login     \* the last login: what was typed, whose row it met, the outcome

vars == <<svars, users, checked, login>>

Init ==
    /\ SInit
    /\ users = {}
    /\ checked = {}
    /\ login = None

(* The row a request makes: register ignores the is_active it was sent.    *)
Row(r) == [
    by |-> r,
    email |-> Email[r],
    hash |-> <<IF r \in Register THEN "argon2hash" ELSE "hashed",
               Strip[Password[r]]>>,
    active |-> r \in Register \/ Active[r]]

Taken(r) == \E u \in users : u.email = Email[r]

BeingInserted(r) == \E q \in Request \ {r} :
    Email[q] = Email[r] /\ tx[q] \in {"writing", "indoubt"}

-----------------------------------------------------------------------------
Receive(r) ==
    /\ Begin(r) \/ Connect(r)
    /\ UNCHANGED <<users, checked, login>>

(* SELECT by email; a row found raises ConflictError. *)
CheckEmail(r) ==
    /\ pc[r] = "running"
    /\ tx[r] = "open"
    /\ r \notin checked
    /\ IF Taken(r)
         THEN Raise(r, 409) /\ UNCHANGED checked
         ELSE checked' = checked \cup {r} /\ UNCHANGED svars
    /\ UNCHANGED <<users, login>>

(* Where a request sends its INSERT: create_user in its handler, register  *)
(* within its commit.                                                      *)
AtInsert(r) ==
    /\ r \in checked
    /\ tx[r] = "open"
    /\ IF r \in Register THEN AtCommit(r) ELSE pc[r] = "running"

(* Variant: no unique index. *)
InsertUnchecked(r) ==
    /\ AtInsert(r)
    /\ Write(r)
    /\ UNCHANGED <<users, checked, login>>

InsertUser(r) ==
    /\ AtInsert(r)
    /\ ~ BeingInserted(r)
    /\ ~ Taken(r)
    /\ Write(r)
    /\ UNCHANGED <<users, checked, login>>

(* Variant: every failure of the INSERT is taken for a conflict. *)
InsertConflicts(r) ==
    /\ AtInsert(r)
    /\ Taken(r) \/ BeingInserted(r)
    /\ Raise(r, 409) \/ CommitFails(r)
    /\ UNCHANGED <<users, checked, login>>

(* The INSERT of r waits for another of the same email, undecided yet. *)
WaitsForIndex(r) == AtInsert(r) /\ ~ Taken(r) /\ BeingInserted(r)

(* The unique index refuses the row, or lock_timeout ends the wait for the *)
(* other INSERT: an IntegrityError or a DBAPIError, which no handler maps. *)
InsertFails(r) ==
    /\ AtInsert(r)
    /\ Taken(r) \/ BeingInserted(r)
    /\ Raise(r, Unhandled) \/ CommitFails(r)
    /\ UNCHANGED <<users, checked, login>>

StatementFails(r) ==
    /\ r \in Faulty
    /\ Raise(r, Unhandled)
    /\ UNCHANGED <<users, checked, login>>

(* create_user returns once its row is flushed, register once it has one.  *)
Built(r) ==
    /\ r \in checked
    /\ r \in CreateUser => tx[r] = "writing"
    /\ Return(r, 201)
    /\ UNCHANGED <<users, checked, login>>

Publish(r) ==
    users' = IF tx'[r] = "committed" THEN users \cup {Row(r)} ELSE users

Commit(r) ==
    /\ tx[r] = "writing"
    /\ CommitOk(r) \/ CommitLost(r)
    /\ Publish(r)
    /\ UNCHANGED <<checked, login>>

CommitLate(r) ==
    /\ Resolve(r)
    /\ Publish(r)
    /\ UNCHANGED <<checked, login>>

EndSession(r) ==
    /\ \/ Answer(r) \/ (r \in Faulty /\ CommitFails(r)) \/ ReadBackFails(r)
       \/ Rollback(r) \/ RollbackFails(r) \/ AnswerError(r)
    /\ UNCHANGED <<users, checked, login>>

Fault(r) ==
    /\ Crash(r) \/ Reap(r)
    /\ UNCHANGED <<users, checked, login>>

-----------------------------------------------------------------------------
(* Variant: the scheme of the hash is not compared. *)
MatchesPassword(u, p) == u.hash[2] = p /\ u.active

(* login: one SELECT by email, then the comparison of the stored hash with *)
(* "argon2hash_" and the password as typed; the form is not stripped.      *)
MayLogin(u, p) == u.hash = <<"argon2hash", p>> /\ u.active

LoginAnswer(e, p, by, ok) == [email |-> e, password |-> p, by |-> by, ok |-> ok]

(* Variant: an account is named by its email. *)
LoginByEmail(e, p) ==
    /\ \E u \in users :
        u.email = e /\ login' = LoginAnswer(e, p, u.email, MayLogin(u, p))
    /\ UNCHANGED <<svars, users, checked>>

Login(e, p) ==
    /\ \/ \E u \in users :
            u.email = e /\ login' = LoginAnswer(e, p, u.by, MayLogin(u, p))
       \/ /\ ~ \E u \in users : u.email = e
          /\ login' = LoginAnswer(e, p, None, FALSE)
    /\ UNCHANGED <<svars, users, checked>>

-----------------------------------------------------------------------------
Step(r) ==
    \/ Receive(r) \/ CheckEmail(r) \/ InsertUser(r) \/ InsertFails(r)
    \/ StatementFails(r) \/ Built(r) \/ Commit(r) \/ EndSession(r)

Next ==
    \/ \E r \in Request : Step(r) \/ CommitLate(r) \/ Fault(r)
    \/ \E e \in {Email[r] : r \in Request}, p \in Text : Login(e, p)

(* As in TaskStore, a request that waits has no step that must happen:     *)
(* lock_timeout is not relied upon.                                        *)
Fairness == \A r \in Request :
    /\ WF_vars(pc[r] # "idle" /\ ~ WaitsForIndex(r) /\ Step(r))
    /\ WF_vars(CommitLate(r))
    /\ WF_vars(Abandoned(r) /\ Fault(r))

Safe == Init /\ [][Next]_vars
Spec == Safe /\ Fairness

-----------------------------------------------------------------------------
TypeOK ==
    /\ SessionTypeOK
    /\ users \subseteq {Row(r) : r \in Request}
    /\ checked \subseteq Request
    /\ login \in [email : {Email[r] : r \in Request}, password : Text,
                  by : Request \cup {None}, ok : BOOLEAN] \cup {None}

(* However the two services interleave, fail and retry, an email has at    *)
(* most one account.                                                       *)
OneAccountPerEmail == \A u, v \in users : u.email = v.email => u = v

(* Whoever logs in typed, with no outer whitespace, the password that was  *)
(* registered with auth-service for the account holding that email.        *)
LoginIsRegistered == login # None /\ login.ok =>
    /\ login.by \in Register
    /\ login.password = Strip[Password[login.by]]
    /\ Row(login.by) \in users

(* A sign-up is not held up for ever by the INSERT of a dead or undecided  *)
(* one for the same email: every request without a fault of its own is     *)
(* answered, because PostgreSQL ends or decides the other transaction, and *)
(* not because the wait is given up.                                       *)
FaultFreeIsAnswered == \A r \in Request \ Faulty :
    pc[r] = "running" ~> pc[r] = "done" /\ reply[r] # NoReply

(* auth-service/app/main.py:223, "Authenticate user and issue JWT tokens.":*)
(* the owner of an active account that api-service created, whose password *)
(* has no outer whitespace and was typed as it was registered, logs in.    *)
OwnerLogsIn == login # None => \A r \in CreateUser :
    /\ login.by = r
    /\ Strip[Password[r]] = Password[r]
    /\ login.password = Password[r]
    /\ Active[r]
    => login.ok

-----------------------------------------------------------------------------
(* Both services together keep one book of accounts (AccountBook), which   *)
(* no interleaving, fault or retry makes them leave.                       *)
Book == INSTANCE AccountBook WITH
    book <- users, told <- reply, Account <- [r \in Request |-> Row(r)]

BookSpec == Book!Spec
=============================================================================
