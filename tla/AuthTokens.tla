------------------------------ MODULE AuthTokens ------------------------------
(***************************************************************************)
(* The tokens of auth-service: login issues a pair of them, refresh        *)
(* renews it, and whoever verifies one looks at the token only.            *)
(*                                                                         *)
(* Nothing about tokens is stored.  A token carries the subject, the role, *)
(* and the times iat and exp in whole seconds, read from the clock of the  *)
(* replica that made it; the replica that verifies it compares them with   *)
(* its own clock, which may differ from the real time by up to MaxSkew.    *)
(* refresh copies subject and role from the token it is given and does not *)
(* look at the users table.  Changes of an account have no endpoint; they  *)
(* are made in the table.                                                  *)
(***************************************************************************)
EXTENDS Integers, FiniteSets

CONSTANTS
    User, Role,
    Gone,         \* the row of a user who was deleted
    NoAnswer,     \* before the first verification
    AccessLife,   \* jwt_access_token_expire_minutes
    RefreshLife,  \* jwt_refresh_token_expire_days
    MaxSkew,      \* how far the clock of a replica may be off
    MaxTime,      \* bound on the real time
    MaxPairs      \* bound on the pairs of tokens that are issued

Row == [role : Role, active : BOOLEAN]

ASSUME TokenAssumption ==
    /\ AccessLife \in Nat \ {0} /\ RefreshLife \in Nat \ {0}
    /\ AccessLife <= RefreshLife
    /\ MaxSkew \in Nat /\ MaxTime \in Nat /\ MaxPairs \in Nat
    /\ Gone \notin Row

VARIABLES
    now,     \* the real time
    users,   \* users[u]: the row of u
    issued,  \* the tokens that clients hold
    pairs,   \* the number of pairs issued
    answer   \* the last verification: the token, when, and its outcome

vars == <<now, users, issued, pairs, answer>>

(* born is the real time of issue, which the token does not carry. *)
Token == [sub : User, role : Role, life : {AccessLife, RefreshLife},
          iat : Int, exp : Int, born : Nat]

Init ==
    /\ now = 0
    /\ users \in [User -> {row \in Row : row.active}]
    /\ issued = {}
    /\ pairs = 0
    /\ answer = NoAnswer

(* What the clock of some replica may show. *)
Clock == (now - MaxSkew)..(now + MaxSkew)

-----------------------------------------------------------------------------
Tick ==
    /\ now < MaxTime
    /\ now' = now + 1
    /\ UNCHANGED <<users, issued, pairs, answer>>

(* An account is disabled or enabled, given another role, or deleted. *)
ChangeAccount(u) ==
    /\ users[u] # Gone
    /\ \E row \in Row \cup {Gone} : users' = [users EXCEPT ![u] = row]
    /\ UNCHANGED <<now, issued, pairs, answer>>

-----------------------------------------------------------------------------
(* create_token, by a replica whose clock shows t. *)
NewToken(u, role, life, t) ==
    [sub |-> u, role |-> role, life |-> life, iat |-> t, exp |-> t + life, born |-> now]

(* The two calls of create_token; the second reads the clock again. *)
IssuePair(u, role, t) ==
    /\ pairs < MaxPairs
    /\ pairs' = pairs + 1
    /\ \E later \in {t, t + 1} \cap Clock :
        issued' = issued \cup {NewToken(u, role, AccessLife, t),
                               NewToken(u, role, RefreshLife, later)}

(* login, with the right password. *)
Login(u, t) ==
    /\ users[u] # Gone
    /\ users[u].active
    /\ IssuePair(u, users[u].role, t)
    /\ UNCHANGED <<now, users, answer>>

(* Variant: exp is not looked at. *)
AcceptsExpired(k, t) == k.iat <= t

(* verify_token: exp must lie ahead, iat must not (PyJWT, no leeway). *)
Accepts(k, t) == k.iat <= t /\ t < k.exp

(* Variant: refresh decodes the token without looking at its times. *)
RefreshExpired(k, t) ==
    /\ IssuePair(k.sub, k.role, t)
    /\ UNCHANGED <<now, users, answer>>

(* refresh_token: any token that is accepted is renewed. *)
Refresh(k, t) ==
    /\ Accepts(k, t)
    /\ IssuePair(k.sub, k.role, t)
    /\ UNCHANGED <<now, users, answer>>

(* Variant: a subject without a row is answered 404. *)
MeNotFound(k, t) ==
    /\ answer' = [token |-> k, at |-> now,
                  code |-> IF ~ Accepts(k, t) THEN 401 ELSE
                           IF users[k.sub] = Gone THEN 404 ELSE 200]
    /\ UNCHANGED <<now, users, issued, pairs>>

(* get_current_user: 401 for a token that is not accepted, or whose subject *)
(* has no row any more.                                                     *)
Me(k, t) ==
    /\ answer' = [token |-> k, at |-> now,
                  code |-> IF Accepts(k, t) /\ users[k.sub] # Gone THEN 200 ELSE 401]
    /\ UNCHANGED <<now, users, issued, pairs>>

Next ==
    \/ Tick
    \/ \E u \in User : ChangeAccount(u)
    \/ \E t \in Clock :
        \/ \E u \in User : Login(u, t)
        \/ \E k \in issued : Refresh(k, t) \/ Me(k, t)

Spec == Init /\ [][Next]_vars

-----------------------------------------------------------------------------
Answer == [token : Token, at : Nat, code : {200, 401}]

TypeOK ==
    /\ now \in Nat
    /\ users \in [User -> Row \cup {Gone}]
    /\ issued \subseteq Token
    /\ pairs \in 0..MaxPairs
    /\ answer \in Answer \cup {NoAnswer}

(* Whatever the clocks of the replicas say, a token is taken nowhere after *)
(* its lifetime by more than both skews, and is refused to an existing     *)
(* account only within two skews of its first or its last moment.          *)
VerdictIsTimely == answer # NoAnswer =>
    LET k == answer.token
        age == answer.at - k.born IN
    /\ answer.code = 200 => age < k.life + 2 * MaxSkew
    /\ answer.code = 401 /\ users[k.sub] # Gone =>
           age < 2 * MaxSkew \/ age >= k.life - 2 * MaxSkew

(* No clock of a replica takes any token of u in this role any more. *)
Lapsed(u, role) == \A k \in issued :
    k.sub = u /\ k.role = role => k.exp + MaxSkew <= now

MayActAs(u, role) == users[u] # Gone /\ users[u].active /\ users[u].role = role

(* A role that is taken from an account, by a change of the role, or by    *)
(* disabling or deleting the account, is out for good once the tokens that *)
(* carry it have lapsed: only a login with that role in the table starts a *)
(* new chain of renewals, and no renewal changes the role.  (Before that,  *)
(* the chain can be renewed without an end.)                               *)
LapsedStaysOut == [][\A u \in User, role \in Role :
    Lapsed(u, role) /\ ~ MayActAs(u, role) =>
        \A k \in issued' \ issued : ~ (k.sub = u /\ k.role = role)]_vars
=============================================================================
