--------------------------- MODULE AuthTokensProofs ---------------------------
(***************************************************************************)
(* Proofs about AuthTokens, for any users, roles, lifetimes and skews.     *)
(* Every argument goes through the times a token carries: iat is off from  *)
(* the real time of issue by at most MaxSkew, exp is iat plus the          *)
(* lifetime, and the clock that judges them is off by at most MaxSkew.     *)
(***************************************************************************)
EXTENDS AuthTokens, TLAPS

(* What a token that is issued now carries. *)
IsNew(k, u, role) ==
    /\ k \in Token
    /\ k.sub = u /\ k.role = role /\ k.born = now
    /\ k.iat \in Clock /\ k.exp = k.iat + k.life

LEMMA ClockIsInt == TypeOK => Clock \subseteq Int
BY TokenAssumption DEF TypeOK, Clock

LEMMA NewTokenIsNew ==
    ASSUME TypeOK, NEW u \in User, NEW role \in Role,
           NEW life \in {AccessLife, RefreshLife}, NEW t \in Clock
    PROVE  IsNew(NewToken(u, role, life, t), u, role)
<1>1. t \in Int /\ life \in Nat /\ now \in Nat
  BY ClockIsInt, TokenAssumption DEF TypeOK
<1>. QED
  BY <1>1 DEF IsNew, NewToken, Token

(* The two tokens of a pair. *)
LEMMA PairIsNew ==
    ASSUME TypeOK, NEW u \in User, NEW role \in Role, NEW t \in Clock,
           IssuePair(u, role, t)
    PROVE  /\ issued \subseteq issued'
           /\ \A k \in issued' \ issued : IsNew(k, u, role)
           /\ pairs' \in 0..MaxPairs
<1>1. PICK later \in {t, t + 1} \cap Clock :
        issued' = issued \cup {NewToken(u, role, AccessLife, t),
                               NewToken(u, role, RefreshLife, later)}
  BY DEF IssuePair
<1>2. /\ IsNew(NewToken(u, role, AccessLife, t), u, role)
      /\ IsNew(NewToken(u, role, RefreshLife, later), u, role)
  BY NewTokenIsNew
<1>3. pairs' \in 0..MaxPairs
  BY TokenAssumption DEF IssuePair, TypeOK
<1>. QED
  BY <1>1, <1>2, <1>3

(* The arguments of a step that issues or judges tokens. *)
LEMMA TokenFields ==
    ASSUME TypeOK, NEW k \in issued
    PROVE  /\ k \in Token /\ k.sub \in User /\ k.role \in Role
           /\ k.life \in Nat /\ k.iat \in Int /\ k.exp \in Int /\ k.born \in Nat
BY TokenAssumption DEF TypeOK, Token

LEMMA RowFields ==
    ASSUME TypeOK, NEW u \in User, users[u] # Gone
    PROVE  users[u].role \in Role /\ users[u].active \in BOOLEAN
BY DEF TypeOK, Row

-----------------------------------------------------------------------------
(* Every reachable state of the tokens is well typed. *)
THEOREM TokensTypeCorrect == Spec => []TypeOK
<1>1. Init => TypeOK
  BY TokenAssumption DEF Init, TypeOK
<1>2. TypeOK /\ [Next]_vars => TypeOK'
  <2>. SUFFICES ASSUME TypeOK, [Next]_vars PROVE TypeOK'
    OBVIOUS
  <2>1. CASE Tick
    BY <2>1 DEF Tick, TypeOK, Answer
  <2>2. ASSUME NEW u \in User, ChangeAccount(u)
        PROVE  TypeOK'
    BY <2>2 DEF ChangeAccount, TypeOK, Answer
  <2>3. ASSUME NEW t \in Clock, NEW u \in User, Login(u, t)
        PROVE  TypeOK'
    <3>1. users[u].role \in Role /\ IssuePair(u, users[u].role, t)
      BY <2>3, RowFields DEF Login
    <3>2. issued' \subseteq Token /\ pairs' \in 0..MaxPairs
      BY <3>1, PairIsNew DEF TypeOK, IsNew
    <3>. QED
      BY <2>3, <3>1, <3>2 DEF Login, TypeOK, Answer
  <2>4. ASSUME NEW t \in Clock, NEW k \in issued, Refresh(k, t)
        PROVE  TypeOK'
    <3>1. k.sub \in User /\ k.role \in Role /\ IssuePair(k.sub, k.role, t)
      BY <2>4, TokenFields DEF Refresh
    <3>2. issued' \subseteq Token /\ pairs' \in 0..MaxPairs
      BY <3>1, PairIsNew DEF TypeOK, IsNew
    <3>. QED
      BY <2>4, <3>2 DEF Refresh, TypeOK, Answer
  <2>5. ASSUME NEW t \in Clock, NEW k \in issued, Me(k, t)
        PROVE  TypeOK'
    <3>1. answer' \in Answer
      BY <2>5, TokenFields DEF Me, Answer, TypeOK
    <3>. QED
      BY <2>5, <3>1 DEF Me, TypeOK, Answer
  <2>6. CASE UNCHANGED vars
    BY <2>6 DEF vars, TypeOK, Answer
  <2>. QED
    BY <2>1, <2>2, <2>3, <2>4, <2>5, <2>6 DEF Next
<1>. QED
  BY <1>1, <1>2, PTL DEF Spec

-----------------------------------------------------------------------------
(* The times of the tokens that were issued. *)
TimesInv == \A k \in issued :
    /\ k.exp = k.iat + k.life
    /\ k.iat \in (k.born - MaxSkew)..(k.born + MaxSkew)
    /\ k.born <= now

TokenInv == TypeOK /\ TimesInv /\ VerdictIsTimely

(* A pair that is issued now. *)
LEMMA PairKeeps ==
    ASSUME TokenInv, NEW u \in User, NEW role \in Role, NEW t \in Clock,
           IssuePair(u, role, t),
           UNCHANGED <<now, users, answer>>
    PROVE  TimesInv' /\ VerdictIsTimely'
<1>. USE DEF TokenInv
<1>1. issued \subseteq issued' /\ \A k \in issued' \ issued : IsNew(k, u, role)
  BY PairIsNew
<1>2. TimesInv'
  BY <1>1 DEF TimesInv, IsNew, Clock, TypeOK
<1>3. VerdictIsTimely'
  BY DEF VerdictIsTimely
<1>. QED
  BY <1>2, <1>3

(* What the clock of the judge can make of a token. *)
LEMMA JudgedInTime ==
    ASSUME TypeOK, TimesInv, NEW k \in issued, NEW t \in Clock
    PROVE  /\ Accepts(k, t) => now - k.born < k.life + 2 * MaxSkew
           /\ ~ Accepts(k, t) => \/ now - k.born < 2 * MaxSkew
                                 \/ now - k.born >= k.life - 2 * MaxSkew
<1>1. /\ k.life \in Nat /\ k.iat \in Int /\ k.born \in Nat /\ now \in Nat
      /\ MaxSkew \in Nat /\ t \in Int
  BY TokenFields, TokenAssumption, ClockIsInt DEF TypeOK
<1>2. /\ k.exp = k.iat + k.life
      /\ k.iat >= k.born - MaxSkew /\ k.iat <= k.born + MaxSkew
  BY <1>1 DEF TimesInv
<1>3. t >= now - MaxSkew /\ t <= now + MaxSkew
  BY <1>1 DEF Clock
<1>. QED
  BY <1>1, <1>2, <1>3 DEF Accepts

(* The inductive invariant of the tokens.                                  *)
THEOREM TokenInvariant == Spec => []TokenInv
<1>1. Init => TokenInv
  BY TokenAssumption DEF Init, TokenInv, TypeOK, TimesInv, VerdictIsTimely
<1>2. TypeOK' /\ TokenInv /\ [Next]_vars => TokenInv'
  <2>. SUFFICES ASSUME TokenInv, [Next]_vars
                PROVE  TimesInv' /\ VerdictIsTimely'
    BY DEF TokenInv
  <2>. USE DEF TokenInv
  <2>1. CASE Tick
    <3>1. now \in Nat /\ now' = now + 1
          /\ UNCHANGED <<users, issued, pairs, answer>>
      BY <2>1 DEF Tick, TypeOK
    <3>2. \A k \in issued : k.born \in Nat
      BY TokenFields
    <3>. QED
      BY <3>1, <3>2 DEF TimesInv, VerdictIsTimely
  <2>2. ASSUME NEW u \in User, ChangeAccount(u)
        PROVE  TimesInv' /\ VerdictIsTimely'
    <3>1. \A v \in User : users'[v] # Gone => users[v] # Gone
      BY <2>2 DEF ChangeAccount, TypeOK
    <3>2. answer # NoAnswer => answer.token.sub \in User
      BY DEF TypeOK, Answer, Token
    <3>. QED
      BY <2>2, <3>1, <3>2 DEF ChangeAccount, TimesInv, VerdictIsTimely
  <2>3. ASSUME NEW t \in Clock, NEW u \in User, Login(u, t)
        PROVE  TimesInv' /\ VerdictIsTimely'
    <3>1. users[u].role \in Role /\ IssuePair(u, users[u].role, t)
      BY <2>3, RowFields DEF Login
    <3>. QED
      BY <2>3, <3>1, PairKeeps DEF Login
  <2>4. ASSUME NEW t \in Clock, NEW k \in issued, Refresh(k, t)
        PROVE  TimesInv' /\ VerdictIsTimely'
    <3>1. k.sub \in User /\ k.role \in Role /\ IssuePair(k.sub, k.role, t)
      BY <2>4, TokenFields DEF Refresh
    <3>. QED
      BY <2>4, <3>1, PairKeeps DEF Refresh
  <2>5. ASSUME NEW t \in Clock, NEW k \in issued, Me(k, t)
        PROVE  TimesInv' /\ VerdictIsTimely'
    <3>1. /\ answer'.token = k /\ answer'.at = now
          /\ answer'.code = 200 => Accepts(k, t)
          /\ answer'.code = 401 /\ users[k.sub] # Gone => ~ Accepts(k, t)
          /\ UNCHANGED <<now, users, issued>>
      BY <2>5 DEF Me
    <3>2. VerdictIsTimely'
      BY <3>1, JudgedInTime DEF VerdictIsTimely
    <3>. QED
      BY <3>1, <3>2 DEF TimesInv
  <2>6. CASE UNCHANGED vars
    BY <2>6 DEF vars, TimesInv, VerdictIsTimely
  <2>. QED
    BY <2>1, <2>2, <2>3, <2>4, <2>5, <2>6 DEF Next
<1>. QED
  BY <1>1, <1>2, TokensTypeCorrect, PTL DEF Spec

-----------------------------------------------------------------------------
(* A token is taken only within its lifetime, and refused to an existing   *)
(* account only near its first or after its last moment, up to two skews.  *)
THEOREM VerdictsAreTimely == Spec => []VerdictIsTimely
BY TokenInvariant, PTL DEF TokenInv

(* Once the tokens that carry a role have lapsed on every clock, no other  *)
(* carries it, unless its subject still has the role in the table.         *)
THEOREM LapsedAccountsStayOut == Spec => LapsedStaysOut
<1>. DEFINE Stays == \A u \in User, role \in Role :
        Lapsed(u, role) /\ ~ MayActAs(u, role) =>
            \A k \in issued' \ issued : ~ (k.sub = u /\ k.role = role)
<1>1. TypeOK /\ [Next]_vars => [Stays]_vars
  <2>. SUFFICES ASSUME TypeOK, Next, NEW u \in User, NEW role \in Role,
                       Lapsed(u, role), ~ MayActAs(u, role),
                       NEW n \in issued' \ issued, n.sub = u, n.role = role
                PROVE  FALSE
    OBVIOUS
  <2>1. ASSUME NEW t \in Clock, NEW v \in User, Login(v, t)
        PROVE  FALSE
    <3>1. users[v].role \in Role /\ IssuePair(v, users[v].role, t)
      BY <2>1, RowFields DEF Login
    <3>2. v = u /\ users[v].role = role
      BY <3>1, PairIsNew DEF IsNew
    <3>. QED
      BY <2>1, <3>2 DEF Login, MayActAs
  <2>2. ASSUME NEW t \in Clock, NEW k \in issued, Refresh(k, t)
        PROVE  FALSE
    <3>1. k.sub \in User /\ k.role \in Role /\ IssuePair(k.sub, k.role, t)
      BY <2>2, TokenFields DEF Refresh
    <3>2. k.sub = u /\ k.role = role
      BY <3>1, PairIsNew DEF IsNew
    <3>3. k.exp + MaxSkew <= now /\ t < k.exp
      BY <2>2, <3>2 DEF Lapsed, Refresh, Accepts
    <3>4. t \in Int /\ k.exp \in Int /\ MaxSkew \in Nat /\ now \in Nat /\ t >= now - MaxSkew
      BY ClockIsInt, TokenFields, TokenAssumption DEF TypeOK, Clock
    <3>. QED
      BY <3>3, <3>4
  <2>. QED
    BY <2>1, <2>2 DEF Next, Tick, ChangeAccount, Me
<1>. QED
  BY <1>1, TokensTypeCorrect, PTL DEF Spec, LapsedStaysOut
=============================================================================
