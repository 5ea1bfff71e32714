-------------------------- MODULE UserAccountsProofs --------------------------
(***************************************************************************)
(* Proofs about UserAccounts, for any requests, emails and passwords.  An  *)
(* email has one account because at any time at most one request holds it: *)
(* has its row inserted and not rolled back.  The check for an existing    *)
(* email plays no part in that argument; the unique index does it all.     *)
(***************************************************************************)
EXTENDS UserAccounts, DbSessionProofs

AccountStep(q) == Step(q) \/ CommitLate(q) \/ Fault(q)

Emails == {Email[r] : r \in Request}

(* Every action of create_user and register is a step of DbSession. *)
LEMMA AccountSessionStep ==
    ASSUME NEW q \in Request, AccountStep(q)
    PROVE  StepOf(q) \/ UNCHANGED svars
<1>. USE StatusFacts DEF StepOf, Handle, Finish, Database
<1>0. 201 \in Success /\ 409 \in Refusal
  BY DEF Success, Refusal
<1>1. CASE Receive(q) \/ InsertUser(q)
  BY <1>1 DEF Receive, InsertUser
<1>2. CASE CheckEmail(q)
  BY <1>0, <1>2 DEF CheckEmail
<1>3. CASE InsertFails(q) \/ StatementFails(q)
  BY <1>3 DEF InsertFails, StatementFails
<1>4. CASE Built(q)
  BY <1>0, <1>4 DEF Built
<1>5. CASE Commit(q) \/ CommitLate(q)
  BY <1>5 DEF Commit, CommitLate
<1>6. CASE EndSession(q) \/ Fault(q)
  BY <1>6 DEF EndSession, Fault
<1>. QED
  BY <1>1, <1>2, <1>3, <1>4, <1>5, <1>6 DEF AccountStep, Step

(* Both ways to create an account go through the steps of a session.       *)
THEOREM AccountRequestIsASession == Safe => SessionSafe
<1>1. Init => SInit
  BY DEF Init
<1>2. [Next]_vars => [SNext]_svars
  <2>. SUFFICES ASSUME [Next]_vars PROVE [SNext]_svars
    OBVIOUS
  <2>1. CASE \E q \in Request : AccountStep(q)
    BY <2>1, AccountSessionStep DEF SNext, StepOf
  <2>2. CASE \E e \in Emails, p \in Text : Login(e, p)
    BY <2>2 DEF Login
  <2>3. CASE UNCHANGED vars
    BY <2>3 DEF vars
  <2>. QED
    BY <2>1, <2>2, <2>3 DEF Next, AccountStep, Emails
<1>. QED
  BY <1>1, <1>2, PTL DEF Safe, SessionSafe

(* So the invariant of the session holds of every sign-up. *)
THEOREM AccountSessionInvariant == Safe => []SessionInv
BY AccountRequestIsASession, SessionInvariant, PTL

-----------------------------------------------------------------------------
(* r has a row inserted that was not rolled back: the unique index counts  *)
(* it, visible or not.                                                     *)
Holds(r) == tx[r] \in {"writing", "indoubt", "committed"}

Committed == {r \in Request : tx[r] = "committed"}

TakenByOther(r) == \E q \in Request \ {r} : tx[q] = "committed" /\ Email[q] = Email[r]

LoginInv ==
    login # None /\ login.ok =>
        /\ login.by \in Register /\ tx[login.by] = "committed"
        /\ login.password = Strip[Password[login.by]]

AccountInv ==
    /\ checked \subseteq Request
    /\ users = {Row(r) : r \in Committed}
    /\ \A q, r \in Request :
         q # r /\ Email[q] = Email[r] => ~ (Holds(q) /\ Holds(r))
    /\ \A r \in Request :
         code[r] = 409 \/ reply[r] = 409 => TakenByOther(r)
    /\ LoginInv

(* Over the empty table the invariant holds. *)
LEMMA AccountInit == Init => AccountInv
<1>. SUFFICES ASSUME Init PROVE AccountInv
  OBVIOUS
<1>1. \A r \in Request : tx[r] = "none" /\ code[r] = NoReply /\ reply[r] = NoReply
  BY DEF Init, SInit
<1>2. Committed = {}
  BY <1>1 DEF Committed
<1>3. checked \subseteq Request /\ users = {Row(r) : r \in Committed}
  BY <1>2 DEF Init
<1>4. \A r \in Request : ~ Holds(r)
  BY <1>1 DEF Holds
<1>5. \A r \in Request : code[r] # 409 /\ reply[r] # 409
  <2>1. NoReply # 409
    BY DEF NoReply
  <2>2. TAKE r \in Request
  <2>3. code[r] = NoReply /\ reply[r] = NoReply
    BY <1>1
  <2>. QED
    BY <2>1, <2>3
<1>6. LoginInv
  BY DEF Init, LoginInv
<1>. QED
  BY <1>3, <1>4, <1>5, <1>6 DEF AccountInv

(* An email is taken when a committed request made a row for it. *)
LEMMA TakenFact ==
    ASSUME AccountInv, NEW r \in Request
    PROVE  Taken(r) <=> \E q \in Request : tx[q] = "committed" /\ Email[q] = Email[r]
<1>1. \A q : Row(q).email = Email[q]
  BY DEF Row
<1>2. users = {Row(q) : q \in Committed}
  BY DEF AccountInv
<1>3. Taken(r) <=> \E q \in Committed : Row(q).email = Email[r]
  BY <1>2 DEF Taken
<1>. QED
  BY <1>1, <1>3 DEF Committed

(* Committed requests stay committed, and the table follows them. *)
LEMMA TableStep ==
    ASSUME SessionInv, AccountInv, NEW q \in Request, AccountStep(q)
    PROVE  /\ \A r \in Request \ {q} : tx'[r] = tx[r]
           /\ tx[q] = "committed" => tx'[q] = "committed"
           /\ users' = {Row(r) : r \in Committed'}
<1>. USE DEF SessionInv, SessionTypeOK
<1>1. \A r \in Request \ {q} : tx'[r] = tx[r]
  BY AccountSessionStep, OthersUnchanged DEF svars
<1>2. tx[q] = "committed" => tx'[q] = "committed"
  BY AccountSessionStep DEF svars, StepOf, Handle, Finish, Database, Begin, Connect,
     Write, Return, Raise, Answer, AnswerError, CommitOk, CommitFails, CommitLost,
     ReadBackFails, Rollback, RollbackFails, Crash, Reap, Resolve
<1>3. CASE Commit(q) \/ CommitLate(q)
  <2>1. Publish(q)
    BY <1>3 DEF Commit, CommitLate
  <2>2. CASE tx'[q] = "committed"
    <3>1. users' = users \cup {Row(q)}
      BY <2>1, <2>2 DEF Publish
    <3>2. Committed' = Committed \cup {q}
      BY <1>1, <2>2 DEF Committed
    <3>. QED
      BY <1>1, <1>2, <3>1, <3>2 DEF AccountInv
  <2>3. CASE tx'[q] # "committed"
    <3>1. users' = users
      BY <2>1, <2>3 DEF Publish
    <3>2. Committed' = Committed
      BY <1>1, <1>2, <2>3 DEF Committed
    <3>. QED
      BY <1>1, <1>2, <3>1, <3>2 DEF AccountInv
  <2>. QED
    BY <2>2, <2>3
<1>4. CASE ~ Commit(q) /\ ~ CommitLate(q)
  <2>1. users' = users
    BY <1>4 DEF AccountStep, Step, Receive, CheckEmail, InsertUser, InsertFails,
       StatementFails, Built, EndSession, Fault
  <2>2. tx'[q] = "committed" => tx[q] = "committed"
    BY <1>4 DEF AccountStep, Step, Receive, CheckEmail, InsertUser, InsertFails,
       StatementFails, Built, EndSession, Fault, svars, Begin, Connect, Write, Return,
       Raise, Answer, CommitFails, ReadBackFails, Rollback, RollbackFails, AnswerError,
       Crash, Reap
  <2>3. Committed' = Committed
    BY <1>1, <1>2, <2>2 DEF Committed
  <2>. QED
    BY <1>1, <1>2, <2>1, <2>3 DEF AccountInv
<1>. QED
  BY <1>3, <1>4

(* Only an INSERT that met nobody else's begins to hold an email.          *)
LEMMA HoldStep ==
    ASSUME SessionInv, AccountInv, NEW q \in Request, AccountStep(q), Holds(q)', ~ Holds(q)
    PROVE  ~ \E r \in Request \ {q} : Email[r] = Email[q] /\ Holds(r)
<1>. USE DEF SessionInv, SessionTypeOK, Holds
<1>1. InsertUser(q)
  BY DEF AccountStep, Step, Receive, CheckEmail, InsertFails, StatementFails, Built,
     Commit, CommitLate, EndSession, Fault, svars, Begin, Connect, Return, Raise, Answer,
     CommitOk, CommitLost, CommitFails, ReadBackFails, Rollback, RollbackFails,
     AnswerError, Crash, Reap, Resolve
<1>. QED
  BY <1>1, TakenFact DEF InsertUser, BeingInserted

(* A conflict is answered only when another account is there. *)
LEMMA ConflictStep ==
    ASSUME SessionInv, AccountInv, NEW q \in Request, AccountStep(q),
           code'[q] = 409 \/ reply'[q] = 409
    PROVE  TakenByOther(q)
<1>. USE DEF SessionInv, SessionTypeOK
<1>1. CASE code[q] = 409 \/ reply[q] = 409
  BY <1>1 DEF AccountInv
<1>2. CASE code[q] # 409 /\ reply[q] # 409
  <2>1. CheckEmail(q) /\ Raise(q, 409) /\ Taken(q)
    BY <1>2 DEF AccountStep, Step, Receive, CheckEmail, InsertUser, InsertFails,
       StatementFails, Built, Commit, CommitLate, EndSession, Fault, svars, Begin, Connect,
       Write, Return, Raise, Answer, CommitOk, CommitLost, CommitFails, ReadBackFails,
       Rollback, RollbackFails, AnswerError, Crash, Reap, Resolve, Unhandled
  <2>2. tx[q] = "open"
    BY <2>1 DEF CheckEmail
  <2>. QED
    BY <2>1, <2>2, TakenFact DEF TakenByOther
<1>. QED
  BY <1>1, <1>2

(* A step of a sign-up preserves the invariant. *)
LEMMA AccountNext ==
    ASSUME SessionInv, AccountInv, NEW q \in Request, AccountStep(q)
    PROVE  AccountInv'
<1>1. /\ \A r \in Request \ {q} : tx'[r] = tx[r]
      /\ tx[q] = "committed" => tx'[q] = "committed"
      /\ users' = {Row(r) : r \in Committed'}
  BY TableStep
<1>2. checked' \subseteq Request
  BY DEF AccountInv, AccountStep, Step, Receive, CheckEmail, InsertUser, InsertFails,
     StatementFails, Built, Commit, CommitLate, EndSession, Fault
<1>3. ASSUME NEW p \in Request, NEW r \in Request, p # r, Email[p] = Email[r]
      PROVE  ~ (Holds(p)' /\ Holds(r)')
  <2>1. CASE p # q /\ r # q
    BY <1>1, <1>3, <2>1 DEF AccountInv, Holds
  <2>2. CASE p = q
    BY <1>1, <1>3, <2>2, HoldStep DEF AccountInv, Holds
  <2>3. CASE r = q
    BY <1>1, <1>3, <2>3, HoldStep DEF AccountInv, Holds
  <2>. QED
    BY <2>1, <2>2, <2>3
<1>4. ASSUME NEW r \in Request, code'[r] = 409 \/ reply'[r] = 409
      PROVE  TakenByOther(r)'
  <2>1. TakenByOther(r)
    <3>1. CASE r = q
      BY <1>4, <3>1, ConflictStep
    <3>2. CASE r # q
      <4>1. code'[r] = code[r] /\ reply'[r] = reply[r]
        BY <3>2, AccountSessionStep, OthersUnchanged DEF SessionInv, svars
      <4>. QED
        BY <1>4, <4>1 DEF AccountInv
    <3>. QED
      BY <3>1, <3>2
  <2>. QED
    BY <1>1, <2>1 DEF TakenByOther
<1>5. LoginInv'
  <2>1. login' = login
    BY DEF AccountStep, Step, Receive, CheckEmail, InsertUser, InsertFails,
       StatementFails, Built, Commit, CommitLate, EndSession, Fault
  <2>2. Register \subseteq Request
    BY UserAccountsAssumption
  <2>. QED
    BY <1>1, <2>1, <2>2 DEF AccountInv, LoginInv
<1>. QED
  BY <1>1, <1>2, <1>3, <1>4, <1>5 DEF AccountInv

(* A login preserves the invariant: it reads one row. *)
LEMMA LoginNext ==
    ASSUME AccountInv, NEW e \in Emails, NEW p \in Text, Login(e, p)
    PROVE  AccountInv'
<1>1. LoginInv'
  <2>1. CASE login' = LoginAnswer(e, p, None, FALSE)
    BY <2>1 DEF LoginInv, LoginAnswer
  <2>2. ASSUME NEW u \in users, login' = LoginAnswer(e, p, u.by, MayLogin(u, p))
        PROVE  LoginInv'
    <3>1. PICK r \in Committed : u = Row(r)
      BY DEF AccountInv
    <3>2. tx' = tx /\ u.by = r /\ tx[r] = "committed" /\ r \in Request
      BY <3>1 DEF Login, svars, Row, Committed
    <3>3. MayLogin(u, p) => r \in Register /\ p = Strip[Password[r]]
      BY <3>1 DEF MayLogin, Row
    <3>. QED
      BY <2>2, <3>2, <3>3 DEF LoginInv, LoginAnswer
  <2>. QED
    BY <2>1, <2>2 DEF Login
<1>. QED
  BY <1>1 DEF Login, AccountInv, svars, Committed, Holds, TakenByOther

(* AccountInv holds throughout: the unique index lets one request hold an  *)
(* email.                                                                  *)
THEOREM AccountInvariant == Safe => []AccountInv
<1>1. SessionInv /\ AccountInv /\ [Next]_vars => AccountInv'
  <2>. SUFFICES ASSUME SessionInv, AccountInv, [Next]_vars
                PROVE  AccountInv'
    OBVIOUS
  <2>1. CASE \E q \in Request : AccountStep(q)
    BY <2>1, AccountNext
  <2>2. CASE \E e \in Emails, p \in Text : Login(e, p)
    BY <2>2, LoginNext
  <2>3. CASE UNCHANGED vars
    BY <2>3 DEF vars, svars, AccountInv, Committed, Holds, TakenByOther, LoginInv
  <2>. QED
    BY <2>1, <2>2, <2>3 DEF Next, AccountStep, Emails
<1>. QED
  BY <1>1, AccountInit, AccountSessionInvariant, PTL DEF Safe

-----------------------------------------------------------------------------
(* A login answers for the request whose row it read, or for nobody.       *)
LEMMA LoginTyped ==
    ASSUME AccountInv, NEW e \in Emails, NEW p \in Text, Login(e, p)
    PROVE  login' \in [email : Emails, password : Text,
                       by : Request \cup {None}, ok : BOOLEAN]
<1>1. CASE login' = LoginAnswer(e, p, None, FALSE)
  BY <1>1 DEF LoginAnswer
<1>2. ASSUME NEW u \in users, login' = LoginAnswer(e, p, u.by, MayLogin(u, p))
      PROVE  login' \in [email : Emails, password : Text,
                         by : Request \cup {None}, ok : BOOLEAN]
  <2>1. u.by \in Request
    BY DEF AccountInv, Committed, Row
  <2>2. PICK r \in Committed : u = Row(r)
    BY DEF AccountInv
  <2>3. r \in Request /\ u.active = (r \in Register \/ Active[r])
    BY <2>2 DEF Row, Committed
  <2>4. MayLogin(u, p) \in BOOLEAN
    BY <2>3 DEF MayLogin
  <2>. QED
    BY <1>2, <2>1, <2>4 DEF LoginAnswer
<1>. QED
  BY <1>1, <1>2 DEF Login

LoginType == login \in [email : Emails, password : Text,
                        by : Request \cup {None}, ok : BOOLEAN] \cup {None}

(* Sessions, table and logins keep their types in every reachable state.   *)
THEOREM AccountsTypeCorrect == Safe => []TypeOK
<1>1. Init => LoginType
  BY DEF Init, LoginType
<1>2. AccountInv /\ LoginType /\ [Next]_vars => LoginType'
  <2>. SUFFICES ASSUME AccountInv, LoginType, [Next]_vars
                PROVE  LoginType'
    OBVIOUS
  <2>1. CASE \E q \in Request : AccountStep(q)
    <3>1. login' = login
      BY <2>1 DEF AccountStep, Step, Receive, CheckEmail, InsertUser, InsertFails,
         StatementFails, Built, Commit, CommitLate, EndSession, Fault
    <3>. QED
      BY <3>1 DEF LoginType, Emails
  <2>2. CASE \E e \in Emails, p \in Text : Login(e, p)
    BY <2>2, LoginTyped DEF LoginType, Emails
  <2>3. CASE UNCHANGED vars
    BY <2>3 DEF vars, LoginType, Emails
  <2>. QED
    BY <2>1, <2>2, <2>3 DEF Next, AccountStep, Emails
<1>3. SessionInv /\ AccountInv /\ LoginType => TypeOK
  BY DEF SessionInv, AccountInv, LoginType, TypeOK, Emails, Committed
<1>. QED
  BY <1>1, <1>2, <1>3, AccountSessionInvariant, AccountInvariant, PTL DEF Safe

(* However the two services interleave and whatever fails, an email has at *)
(* most one account.                                                       *)
THEOREM EmailsAreUnique == Safe => []OneAccountPerEmail
<1>1. AccountInv => OneAccountPerEmail
  <2>. SUFFICES ASSUME AccountInv, NEW u \in users, NEW v \in users, u.email = v.email
                PROVE  u = v
    BY DEF OneAccountPerEmail
  <2>1. PICK q \in Committed : u = Row(q)
    BY DEF AccountInv
  <2>2. PICK r \in Committed : v = Row(r)
    BY DEF AccountInv
  <2>3. q = r
    BY <2>1, <2>2 DEF AccountInv, Committed, Holds, Row
  <2>. QED
    BY <2>1, <2>2, <2>3
<1>. QED
  BY <1>1, AccountInvariant, PTL

(* 201 from a session that commits first means that the account of this    *)
(* very request exists; 409 means that somebody else's does.               *)
ReplyMatchesTable == \A r \in Request :
    /\ r \in EarlyCommit /\ reply[r] = 201 => Row(r) \in users
    /\ reply[r] = 409 => \E u \in users : u.email = Email[r] /\ u.by # r

(* 201 and 409 say what the table holds. *)
THEOREM RepliesMatchTable == Safe => []ReplyMatchesTable
<1>1. SessionInv /\ AccountInv => ReplyMatchesTable
  <2>. SUFFICES ASSUME SessionInv, AccountInv, NEW r \in Request
                PROVE  /\ r \in EarlyCommit /\ reply[r] = 201 => Row(r) \in users
                       /\ reply[r] = 409 => \E u \in users : u.email = Email[r] /\ u.by # r
    BY DEF ReplyMatchesTable
  <2>1. r \in EarlyCommit /\ reply[r] = 201 => Row(r) \in users
    BY DEF SessionInv, RequestInv, ReplyInv, Success, AccountInv, Committed
  <2>2. ASSUME reply[r] = 409 PROVE \E u \in users : u.email = Email[r] /\ u.by # r
    <3>1. PICK q \in Request \ {r} : tx[q] = "committed" /\ Email[q] = Email[r]
      BY <2>2 DEF AccountInv, TakenByOther
    <3>2. Row(q) \in users /\ Row(q).email = Email[r] /\ Row(q).by # r
      BY <3>1 DEF AccountInv, Committed, Row
    <3>. QED
      BY <3>2
  <2>. QED
    BY <2>1, <2>2
<1>. QED
  BY <1>1, AccountSessionInvariant, AccountInvariant, PTL

(* Whoever logs in knows the password registered with auth-service for the *)
(* account that holds the email.                                           *)
THEOREM LoginsAreRegistered == Safe => []LoginIsRegistered
<1>1. AccountInv => LoginIsRegistered
  BY UserAccountsAssumption DEF AccountInv, LoginInv, LoginIsRegistered, Committed
<1>. QED
  BY <1>1, AccountInvariant, PTL

-----------------------------------------------------------------------------
(* What decides a login on an account, whichever service made it: the      *)
(* account is of auth-service and the password typed is the one registered *)
(* for it without its outer whitespace.                                    *)
LoginDecided == login # None /\ login.by # None =>
    /\ login.by \in Request
    /\ login.ok <=> /\ login.by \in Register
                    /\ login.password = Strip[Password[login.by]]

LEMMA LoginDecides ==
    ASSUME AccountInv, NEW e \in Emails, NEW p \in Text, Login(e, p)
    PROVE  LoginDecided'
<1>1. CASE login' = LoginAnswer(e, p, None, FALSE)
  BY <1>1 DEF LoginDecided, LoginAnswer
<1>2. ASSUME NEW u \in users, login' = LoginAnswer(e, p, u.by, MayLogin(u, p))
      PROVE  LoginDecided'
  <2>1. PICK r \in Committed : u = Row(r)
    BY DEF AccountInv
  <2>2. r \in Request /\ u.by = r
    BY <2>1 DEF Committed, Row
  <2>3. MayLogin(u, p) <=> r \in Register /\ p = Strip[Password[r]]
    BY <2>1 DEF MayLogin, Row
  <2>4. /\ login'.by = r /\ login'.password = p
        /\ login'.ok = MayLogin(u, p)
    BY <1>2, <2>2 DEF LoginAnswer
  <2>. QED
    BY <2>2, <2>3, <2>4 DEF LoginDecided
<1>. QED
  BY <1>1, <1>2 DEF Login

(* An account holder is let in with the registered password, stripped, if  *)
(* the account was made by auth-service, and never otherwise: an owner who *)
(* cannot log in (OwnerLogsIn) has an account of api-service or typed the  *)
(* outer whitespace.                                                       *)
THEOREM LoginsAreDecided == Safe => []LoginDecided
<1>1. Init => LoginDecided
  BY DEF Init, LoginDecided
<1>2. AccountInv /\ LoginDecided /\ [Next]_vars => LoginDecided'
  <2>. SUFFICES ASSUME AccountInv, LoginDecided, [Next]_vars
                PROVE  LoginDecided'
    OBVIOUS
  <2>1. CASE \E q \in Request : AccountStep(q)
    <3>1. login' = login
      BY <2>1 DEF AccountStep, Step, Receive, CheckEmail, InsertUser, InsertFails,
         StatementFails, Built, Commit, CommitLate, EndSession, Fault
    <3>. QED
      BY <3>1 DEF LoginDecided
  <2>2. CASE \E e \in Emails, p \in Text : Login(e, p)
    BY <2>2, LoginDecides
  <2>3. CASE UNCHANGED vars
    BY <2>3 DEF vars, LoginDecided
  <2>. QED
    BY <2>1, <2>2, <2>3 DEF Next, AccountStep, Emails
<1>. QED
  BY <1>1, <1>2, AccountInvariant, PTL DEF Safe

-----------------------------------------------------------------------------
(* A sign-up shows the promise of a request and nothing else: what became  *)
(* of its account and what it was answered are decided once.               *)
THEOREM SignUpImplementsOutcome == Safe => OutcomeSpec
BY AccountRequestIsASession, SessionImplementsOutcome, PTL

(* An email is in the book when a committed request made an account of it. *)
LEMMA BookFacts ==
    ASSUME AccountInv, NEW r \in Request
    PROVE  /\ Book!EmailInUse(r) <=>
                \E q \in Request : tx[q] = "committed" /\ Email[q] = Email[r]
           /\ Row(r) \in users <=> tx[r] = "committed"
<1>1. \A q : Row(q).email = Email[q] /\ Row(q).by = q
  BY DEF Row
<1>2. users = {Row(q) : q \in Committed}
  BY DEF AccountInv
<1>3. [q \in Request |-> Row(q)][r].email = Email[r]
  BY <1>1
<1>4. Book!EmailInUse(r) <=> \E q \in Committed : Row(q).email = Email[r]
  BY <1>2, <1>3 DEF Book!EmailInUse
<1>5. Row(r) \in users <=> r \in Committed
  <2>1. ASSUME Row(r) \in users PROVE r \in Committed
    <3>1. PICK q \in Committed : Row(r) = Row(q)
      BY <1>2, <2>1
    <3>2. q = r
      BY <1>1, <3>1
    <3>. QED
      BY <3>1, <3>2
  <2>. QED
    BY <1>2, <2>1
<1>. QED
  BY <1>1, <1>4, <1>5 DEF Committed

(* The step that commits a row, at once or when a lost COMMIT turns out to *)
(* have succeeded, enters an account whose email is free.                  *)
LEMMA CommitEnters ==
    ASSUME SessionInv, AccountInv, NEW q \in Request,
           Commit(q) \/ CommitLate(q), tx'[q] = "committed"
    PROVE  Book!Enter(q)
<1>1. reply' = reply /\ Holds(q) /\ tx[q] # "committed"
  BY DEF Commit, CommitLate, CommitOk, CommitLost, Resolve, Holds
<1>2. ~ Book!EmailInUse(q)
  BY <1>1, BookFacts DEF AccountInv, Holds
<1>3. users' = users \cup {Row(q)}
  BY DEF Commit, CommitLate, Publish
<1>. QED
  BY <1>1, <1>2, <1>3 DEF Book!Enter

(* An answer is true when it is given: 201 of an account in the table, 409 *)
(* of an email that another request's account holds.                       *)
LEMMA AnswerTells ==
    ASSUME SessionInv, AccountInv, NEW q \in Request,
           EndSession(q), Answer(q) \/ AnswerError(q)
    PROVE  Book!Tell(q, code[q]) /\ code[q] \in Status
<1>. USE DEF SessionInv, SessionTypeOK
<1>1. /\ reply[q] = NoReply /\ reply' = [reply EXCEPT ![q] = code[q]]
      /\ code[q] \in Status
      /\ code[q] \in Success /\ q \in EarlyCommit => tx[q] = "committed"
      /\ code[q] \in Refusal => tx[q] = "aborted"
  BY StatusFacts DEF Answer, AnswerError, RequestInv, PhaseInv
<1>2. 201 \in Success /\ 409 \in Refusal
  BY DEF Success, Refusal
<1>3. code[q] = 201 /\ q \in EarlyCommit => Row(q) \in users
  BY <1>1, <1>2, BookFacts
<1>4. code[q] = 409 => Book!EmailInUse(q) /\ Row(q) \notin users
  <2>. SUFFICES ASSUME code[q] = 409 PROVE Book!EmailInUse(q) /\ Row(q) \notin users
    OBVIOUS
  <2>1. TakenByOther(q) /\ tx[q] = "aborted"
    BY <1>1, <1>2 DEF AccountInv
  <2>. QED
    BY <2>1, BookFacts DEF TakenByOther
<1>5. users' = users
  BY DEF EndSession
<1>. QED
  BY <1>1, <1>3, <1>4, <1>5 DEF Book!Tell

(* Every step of a sign-up enters an account, answers a client or leaves   *)
(* the book as it is.                                                      *)
LEMMA BookStep ==
    ASSUME SessionInv, AccountInv, NEW q \in Request, AccountStep(q)
    PROVE  Book!Next \/ UNCHANGED Book!vars
<1>1. CASE (Commit(q) \/ CommitLate(q)) /\ tx'[q] = "committed"
  BY <1>1, CommitEnters DEF Book!Next
<1>2. CASE (Commit(q) \/ CommitLate(q)) /\ tx'[q] # "committed"
  BY <1>2 DEF Commit, CommitLate, CommitOk, CommitLost, Resolve, Publish, Book!vars
<1>3. CASE EndSession(q) /\ (Answer(q) \/ AnswerError(q))
  BY <1>3, AnswerTells DEF Book!Next
<1>4. CASE \/ EndSession(q) /\ ~ Answer(q) /\ ~ AnswerError(q)
           \/ Receive(q) \/ CheckEmail(q) \/ InsertUser(q) \/ InsertFails(q)
           \/ StatementFails(q) \/ Built(q) \/ Fault(q)
  BY <1>4 DEF EndSession, Receive, CheckEmail, InsertUser, InsertFails, StatementFails,
     Built, Fault, svars, Begin, Connect, Write, Return, Raise, CommitFails,
     ReadBackFails, Rollback, RollbackFails, Crash, Reap, Book!vars
<1>. QED
  BY <1>1, <1>2, <1>3, <1>4 DEF AccountStep, Step

(* create_user and register together implement the book of accounts: one   *)
(* account for an email, entered once and kept, and true answers.          *)
THEOREM AccountsImplementBook == Safe => BookSpec
<1>1. Init => Book!Init
  BY DEF Init, SInit, Book!Init
<1>2. SessionInv /\ AccountInv /\ [Next]_vars => [Book!Next]_(Book!vars)
  <2>. SUFFICES ASSUME SessionInv, AccountInv, [Next]_vars
                PROVE  Book!Next \/ UNCHANGED Book!vars
    OBVIOUS
  <2>1. CASE \E q \in Request : AccountStep(q)
    BY <2>1, BookStep
  <2>2. CASE (\E e \in Emails, p \in Text : Login(e, p)) \/ UNCHANGED vars
    BY <2>2 DEF Login, vars, svars, Book!vars
  <2>. QED
    BY <2>1, <2>2 DEF Next, AccountStep, Emails
<1>. QED
  BY <1>1, <1>2, AccountSessionInvariant, AccountInvariant, PTL
     DEF Safe, BookSpec, Book!Spec
=============================================================================
