-------------------------- MODULE TaskListingProofs --------------------------
(***************************************************************************)
(* Proofs about TaskListing, for any tasks, page sizes and times.  A walk  *)
(* finds a task because of the rows above it: a task that the pages so far *)
(* have not shown has at least as many newer rows as they have items, and  *)
(* as long as no row leaves the list there are never fewer of them.        *)
(***************************************************************************)
EXTENDS TaskListing, FiniteSetTheorems, TLAPS

(* The rows of V that are newer than t. *)
Above(t, V) == {x \in V : created[x] > created[t]}

LEMMA ListedIsFinite == IsFiniteSet(Listed) /\ Cardinality(Listed) \in Nat
BY ListingAssumption, FS_Subset, FS_CardinalityType DEF Listed

LEMMA AboveIsFinite ==
    ASSUME NEW V, IsFiniteSet(V), NEW t
    PROVE  /\ IsFiniteSet(Above(t, V))
           /\ Cardinality(Above(t, V)) \in Nat
           /\ Cardinality(Above(t, V)) <= Cardinality(V)
BY FS_Subset, FS_CardinalityType DEF Above

(* The rows before a page and the rows of the page are the first ones of   *)
(* the list, and are as many as OFFSET and LIMIT say.                      *)
LEMMA PageSizes ==
    ASSUME NEW V, IsFiniteSet(V), NEW o \in Nat, NEW l \in Nat,
           NEW S \in PagesOf(V, o, l)
    PROVE  /\ S \subseteq V
           /\ Cardinality(S) = UpTo(o + l, V) - UpTo(o, V)
           /\ Cardinality(S) \in 0..l
<1>1. PICK P \in SUBSET (V \ S) : Cardinality(P) = UpTo(o, V)
                              /\ Cardinality(P \cup S) = UpTo(o + l, V)
  BY DEF PagesOf
<1>2. S \subseteq V /\ IsFiniteSet(S) /\ IsFiniteSet(P) /\ P \cap S = {}
  BY FS_Subset DEF PagesOf
<1>3. Cardinality(V) \in Nat /\ Cardinality(S) \in Nat /\ Cardinality(P) \in Nat
  BY <1>2, FS_CardinalityType
<1>4. Cardinality(P \cup S) = Cardinality(P) + Cardinality(S)
  <2>1. Cardinality(P \cap S) = 0
    BY <1>2, FS_EmptySet
  <2>2. Cardinality(P \cup S) = Cardinality(P) + Cardinality(S) - Cardinality(P \cap S)
    BY <1>2, FS_Union
  <2>. QED
    BY <1>3, <2>1, <2>2
<1>. QED
  BY <1>1, <1>2, <1>3, <1>4 DEF UpTo

(* The first rows of a list that hold t hold everything above it; if they  *)
(* do not hold t, and nothing has the created_at of t, they are above it.  *)
LEMMA TopRows ==
    ASSUME created \in [Task -> Nat], NEW V \in SUBSET Task, NEW X, IsTop(X, V),
           NEW t \in V, Untied(t)
    PROVE  /\ t \in X => Above(t, V) \subseteq X
           /\ t \notin X => X \subseteq Above(t, V)
<1>1. ASSUME t \in X, NEW a \in Above(t, V), a \notin X
      PROVE  FALSE
  BY <1>1 DEF IsTop, Above
<1>2. ASSUME t \notin X, NEW x \in X
      PROVE  x \in Above(t, V)
  BY <1>2 DEF IsTop, Above, Untied
<1>. QED
  BY <1>1, <1>2

(* A page that begins at most as many rows down as there are above t shows *)
(* t, or is full and ends above t.                                         *)
LEMMA PageFindsOrPasses ==
    ASSUME created \in [Task -> Nat], NEW V \in SUBSET Task, IsFiniteSet(V),
           NEW t \in V, Untied(t), NEW o \in Nat, NEW l \in Nat,
           Cardinality(Above(t, V)) >= o, NEW S \in PagesOf(V, o, l), t \notin S
    PROVE  Cardinality(Above(t, V)) >= o + l /\ Cardinality(S) = l
<1>. DEFINE A == Above(t, V)
<1>1. IsFiniteSet(A) /\ Cardinality(A) \in Nat /\ Cardinality(V) \in Nat
  BY AboveIsFinite, FS_CardinalityType
<1>2. Cardinality(A \cup {t}) = Cardinality(A) + 1 /\ Cardinality(A) < Cardinality(V)
  <2>1. t \notin A /\ A \cup {t} \subseteq V
    BY DEF Above
  <2>2. Cardinality(A \cup {t}) = Cardinality(A) + 1
    BY <1>1, <2>1, FS_AddElement
  <2>. QED
    BY <1>1, <2>1, <2>2, FS_Subset
<1>3. PICK P \in SUBSET (V \ S) :
        /\ IsTop(P, V) /\ Cardinality(P) = UpTo(o, V)
        /\ IsTop(P \cup S, V) /\ Cardinality(P \cup S) = UpTo(o + l, V)
  BY DEF PagesOf
<1>4. Cardinality(P) = o
  BY <1>1, <1>2, <1>3 DEF UpTo
<1>5. t \notin P
  <2>1. SUFFICES ASSUME t \in P PROVE FALSE
    OBVIOUS
  <2>2. A \cup {t} \subseteq P
    BY <1>3, <2>1, TopRows
  <2>3. IsFiniteSet(P)
    BY FS_Subset
  <2>4. Cardinality(A) + 1 <= Cardinality(P)
    BY <1>2, <2>2, <2>3, FS_Subset
  <2>. QED
    BY <1>1, <1>4, <2>4
<1>6. P \cup S \subseteq A
  BY <1>3, <1>5, TopRows
<1>7. UpTo(o + l, V) <= Cardinality(A)
  BY <1>1, <1>3, <1>6, FS_Subset
<1>8. UpTo(o + l, V) = o + l
  BY <1>1, <1>2, <1>7 DEF UpTo
<1>9. Cardinality(S) = l
  <2>1. Cardinality(S) = UpTo(o + l, V) - UpTo(o, V)
    BY PageSizes
  <2>2. UpTo(o, V) = o
    BY <1>3, <1>4
  <2>. QED
    BY <1>8, <2>1, <2>2
<1>. QED
  BY <1>1, <1>7, <1>8, <1>9

-----------------------------------------------------------------------------
LEMMA OffsetFacts ==
    ASSUME NEW p \in Nat \ {0}
    PROVE  Offset(p) \in Nat /\ Offset(p + 1) = Offset(p) + PageSize /\ Offset(1) = 0
<1>1. PageSize \in Nat \ {0} /\ p - 1 \in Nat
  BY ListingAssumption
<1>2. (p - 1) * PageSize \in Nat
  BY <1>1
<1>3. ((p + 1) - 1) * PageSize = (p - 1) * PageSize + PageSize
  BY <1>1
<1>4. (1 - 1) * PageSize = 0
  BY <1>1
<1>. QED
  BY <1>2, <1>3, <1>4 DEF Offset

(* A page up to the announced number of pages begins before the last row. *)
LEMMA PagesBegin ==
    ASSUME NEW n \in Nat \ {0}, NEW p \in Nat \ {0}, p <= Pages(n)
    PROVE  Offset(p) < n
<1>. DEFINE q == (n + PageSize - 1) \div PageSize
<1>1. PageSize \in Nat \ {0}
  BY ListingAssumption
<1>2. q \in Int /\ PageSize * q <= n + PageSize - 1
  BY <1>1
<1>3. CASE q > 1
  <2>1. p <= q
    BY <1>3 DEF Pages
  <2>2. (p - 1) * PageSize <= (q - 1) * PageSize
    BY <1>1, <1>2, <2>1
  <2>3. (q - 1) * PageSize = PageSize * q - PageSize
    BY <1>1, <1>2
  <2>. QED
    BY <1>1, <1>2, <2>2, <2>3 DEF Offset
<1>4. CASE ~ (q > 1)
  <2>1. p = 1
    BY <1>4 DEF Pages
  <2>. QED
    BY <2>1, OffsetFacts
<1>. QED
  BY <1>3, <1>4

-----------------------------------------------------------------------------
(* The steps that change the table; the others are the client's. *)
TableStep == \E t \in Task :
    BeginTask(t) \/ CommitTask(t) \/ CancelTask(t) \/ DeleteTask(t)

LEMMA ListingTypeInit == Init => TypeOK
<1>. USE ListingAssumption DEF TypeOK
<1>. SUFFICES ASSUME Init PROVE TypeOK
  OBVIOUS
<1>1. created \in [Task -> Nat] /\ row \in [Task -> {"absent", "pending", "cancelled", "deleted"}]
  BY DEF Init
<1>2. now \in Nat /\ page \in Nat \ {0} /\ total \in Nat /\ length \in 0..PageSize
  BY DEF Init
<1>. QED
  BY <1>1, <1>2 DEF Init

(* Every reachable state of the listing is well typed. *)
THEOREM ListingTypeCorrect == Spec => []TypeOK
<1>. USE ListingAssumption DEF TypeOK
<1>1. Init => TypeOK
  BY ListingTypeInit
<1>2. TypeOK /\ [Next]_vars => TypeOK'
  <2>. SUFFICES ASSUME TypeOK, [Next]_vars PROVE TypeOK'
    OBVIOUS
  <2>1. CASE TableStep
    <3>1. CASE \E t \in Task : BeginTask(t)
      <4>1. PICK t \in Task, time \in {now, now + 1} :
              now' = time /\ created' = [created EXCEPT ![t] = time]
        BY <3>1 DEF BeginTask
      <4>2. now' \in Nat /\ created' \in [Task -> Nat]
        BY <4>1
      <4>. QED
        BY <3>1, <4>2 DEF BeginTask, walk
    <3>2. CASE \E t \in Task : CommitTask(t) \/ CancelTask(t) \/ DeleteTask(t)
      BY <3>2 DEF CommitTask, CancelTask, DeleteTask, walk
    <3>. QED
      BY <2>1, <3>1, <3>2 DEF TableStep
  <2>2. CASE StartWalk
    BY <2>2 DEF StartWalk, Listed, table
  <2>3. CASE CountTasks
    BY <2>3, ListedIsFinite DEF CountTasks, table
  <2>4. CASE ReadPage
    <3>1. PICK S \in PagesOf(Listed, Offset(page), PageSize) :
            /\ seen' = seen \cup S
            /\ length' = Cardinality(S)
            /\ \/ stage' = "done" /\ page' = page
               \/ stage' = "count" /\ page' = page + 1
      BY <2>4 DEF ReadPage
    <3>2. S \subseteq Listed /\ Cardinality(S) \in 0..PageSize
      BY ListedIsFinite, OffsetFacts, PageSizes
    <3>3. S \subseteq Task
      BY <3>2 DEF Listed
    <3>. QED
      BY <2>4, <3>1, <3>2, <3>3 DEF ReadPage, table
  <2>5. CASE UNCHANGED vars
    BY <2>5 DEF vars, table, walk
  <2>. QED
    BY <2>1, <2>2, <2>3, <2>4, <2>5 DEF Next, TableStep
<1>. QED
  BY <1>1, <1>2, PTL DEF Spec

-----------------------------------------------------------------------------
(* A row has a time of creation. *)
RowInv == now # 0 /\ \A t \in Task : row[t] # "absent" => created[t] # 0

(* Above a task of a walk that was not shown yet there are at least as     *)
(* many rows as the client has passed.                                     *)
WalkInv ==
    /\ stage = "idle" => due = {} /\ page = 1 /\ ~ left
    /\ ~ left => due \subseteq Listed
    /\ ~ left => \A t \in due : Untied(t) =>
        \/ t \in seen
        \/ stage # "done" /\ Cardinality(Above(t, Listed)) >= Offset(page)

(* While nothing has left the list, the number that was counted is not     *)
(* above the number of rows.                                               *)
CountInv ==
    /\ stage = "page" /\ ~ left => total <= Cardinality(Listed)
    /\ PageMeetsTotal

ListingInv == TypeOK /\ RowInv /\ WalkInv /\ CountInv

(* Whatever happens to the table, rows keep their times, and leave the     *)
(* list only by a cancellation under a filter, or by a deletion, which     *)
(* left records.                                                           *)
LEMMA TableKeeps ==
    ASSUME TypeOK, RowInv, TableStep
    PROVE  /\ RowInv'
           /\ UNCHANGED <<filter, walk>>
           /\ \A t \in Task : created[t] # 0 => created'[t] = created[t]
           /\ stage = "idle" => left' = left
           /\ stage # "idle" /\ ~ left' => ~ left /\ Listed \subseteq Listed'
<1>. USE DEF TypeOK, RowInv, Listed, walk
<1>1. CASE \E t \in Task : BeginTask(t)
  BY <1>1 DEF BeginTask
<1>2. CASE \E t \in Task : CommitTask(t)
  BY <1>2 DEF CommitTask
<1>3. CASE \E t \in Task : CancelTask(t)
  BY <1>3 DEF CancelTask
<1>4. CASE \E t \in Task : DeleteTask(t)
  BY <1>4 DEF DeleteTask
<1>. QED
  BY <1>1, <1>2, <1>3, <1>4 DEF TableStep

(* So a task that is listed keeps the rows above it. *)
LEMMA AboveKeeps ==
    ASSUME TypeOK, RowInv, TableStep, Listed \subseteq Listed', NEW t \in Listed,
           Untied(t)'
    PROVE  Untied(t) /\ Cardinality(Above(t, Listed)) <= Cardinality(Above(t, Listed)')
<1>1. /\ t \in Task /\ created[t] # 0 /\ created'[t] = created[t]
      /\ \A x \in Listed : x \in Task /\ created'[x] = created[x]
  <2>1. \A x \in Listed : x \in Task /\ row[x] # "absent"
    BY DEF Listed
  <2>. QED
    BY <2>1, TableKeeps DEF RowInv
<1>2. Untied(t)
  <2>1. SUFFICES ASSUME NEW u \in Task \ {t}, created[u] = created[t] PROVE FALSE
    BY DEF Untied
  <2>2. created'[u] = created[u]
    BY <1>1, <2>1, TableKeeps
  <2>. QED
    BY <1>1, <2>1, <2>2 DEF Untied
<1>3. Above(t, Listed) \subseteq Above(t, Listed)'
  BY <1>1 DEF Above
<1>4. IsFiniteSet(Above(t, Listed)')
  <2>1. Above(t, Listed)' \subseteq Task
    BY DEF Above, Listed
  <2>. QED
    BY <2>1, ListingAssumption, FS_Subset
<1>5. Cardinality(Above(t, Listed)) <= Cardinality(Above(t, Listed)')
  BY <1>3, <1>4, FS_Subset
<1>. QED
  BY <1>2, <1>5

-----------------------------------------------------------------------------
LEMMA InitListing == Init => ListingInv
<1>. SUFFICES ASSUME Init PROVE RowInv /\ WalkInv /\ CountInv /\ TypeOK
  BY DEF ListingInv
<1>1. TypeOK
  BY ListingTypeInit
<1>. QED
  BY <1>1 DEF Init, RowInv, WalkInv, CountInv, PageMeetsTotal

(* A step on the table. *)
LEMMA TableStepInv ==
    ASSUME ListingInv, TableStep
    PROVE  RowInv' /\ WalkInv' /\ CountInv'
<1>. USE DEF ListingInv
<1>1. RowInv' /\ UNCHANGED <<filter, walk>>
  BY TableKeeps
<1>2. WalkInv'
  <2>1. CASE stage = "idle"
    BY <1>1, <2>1, TableKeeps DEF WalkInv, walk
  <2>2. CASE stage # "idle"
    <3>1. SUFFICES ASSUME ~ left'
                   PROVE  /\ due \subseteq Listed'
                          /\ \A t \in due : Untied(t)' =>
                              \/ t \in seen
                              \/ /\ stage # "done"
                                 /\ Cardinality(Above(t, Listed)') >= Offset(page)
      BY <1>1, <2>2 DEF WalkInv, walk, Offset
    <3>2. ~ left /\ Listed \subseteq Listed' /\ due \subseteq Listed
      BY <2>2, <3>1, TableKeeps DEF WalkInv
    <3>3. ASSUME NEW t \in due, Untied(t)', t \notin seen
          PROVE  stage # "done" /\ Cardinality(Above(t, Listed)') >= Offset(page)
      <4>1. Untied(t) /\ Cardinality(Above(t, Listed)) <= Cardinality(Above(t, Listed)')
        BY <3>2, <3>3, AboveKeeps
      <4>2. stage # "done" /\ Cardinality(Above(t, Listed)) >= Offset(page)
        BY <3>2, <3>3, <4>1 DEF WalkInv
      <4>3. Cardinality(Above(t, Listed)) \in Nat
        BY ListedIsFinite, AboveIsFinite
      <4>4. Cardinality(Above(t, Listed)') \in Nat
        <5>1. Above(t, Listed)' \subseteq Task
          BY DEF Above, Listed
        <5>. QED
          BY <5>1, ListingAssumption, FS_Subset, FS_CardinalityType
      <4>5. Offset(page) \in Nat
        BY OffsetFacts DEF TypeOK
      <4>. QED
        BY <4>1, <4>2, <4>3, <4>4, <4>5
    <3>. QED
      BY <3>2, <3>3
  <2>. QED
    BY <2>1, <2>2
<1>3. CountInv'
  <2>1. ASSUME stage = "page", ~ left'
        PROVE  total <= Cardinality(Listed')
    <3>1. ~ left /\ Listed \subseteq Listed' /\ Listed' \subseteq Task
      BY <2>1, TableKeeps DEF Listed
    <3>2. IsFiniteSet(Listed') /\ Cardinality(Listed') \in Nat
      BY <3>1, ListingAssumption, FS_Subset, FS_CardinalityType
    <3>3. Cardinality(Listed) <= Cardinality(Listed')
      BY <3>1, <3>2, FS_Subset
    <3>4. total <= Cardinality(Listed) /\ total \in Nat
      BY <2>1, <3>1 DEF CountInv, TypeOK
    <3>. QED
      BY <3>2, <3>3, <3>4, ListedIsFinite
  <2>2. stage = "done" /\ ~ left' => ~ left
    BY TableKeeps
  <2>. QED
    BY <1>1, <2>1, <2>2 DEF CountInv, PageMeetsTotal, walk, Offset, Pages
<1>. QED
  BY <1>1, <1>2, <1>3

(* A step of the client that is not an answer. *)
LEMMA AskStepInv ==
    ASSUME ListingInv, StartWalk \/ CountTasks
    PROVE  RowInv' /\ WalkInv' /\ CountInv'
<1>. USE DEF ListingInv
<1>1. /\ UNCHANGED <<table, filter, left, page, length, seen>>
      /\ Listed' = Listed /\ stage' # "idle" /\ stage' # "done"
      /\ \A t : Above(t, Listed)' = Above(t, Listed)
  BY DEF StartWalk, CountTasks, table, Listed, Above
<1>2. RowInv'
  BY <1>1 DEF RowInv, table
<1>3. WalkInv'
  <2>1. CASE StartWalk
    <3>1. page = 1 /\ due' = Listed
      BY <2>1 DEF StartWalk, WalkInv
    <3>2. \A t : Cardinality(Above(t, Listed)) >= Offset(page)
      BY <3>1, ListedIsFinite, AboveIsFinite, OffsetFacts
    <3>. QED
      BY <1>1, <3>1, <3>2 DEF WalkInv, Offset
  <2>2. CASE CountTasks
    <3>1. due' = due /\ stage = "count"
      BY <2>2 DEF CountTasks
    <3>. QED
      BY <1>1, <3>1 DEF WalkInv, Untied, table, Offset
  <2>. QED
    BY <2>1, <2>2
<1>4. CountInv'
  BY <1>1, ListedIsFinite DEF CountInv, PageMeetsTotal, StartWalk, CountTasks
<1>. QED
  BY <1>2, <1>3, <1>4

(* An answer. *)
LEMMA PageStepInv ==
    ASSUME ListingInv, ReadPage
    PROVE  RowInv' /\ WalkInv' /\ CountInv'
<1>. USE DEF ListingInv
<1>. DEFINE n == Cardinality(Listed)  o == Offset(page)
<1>1. /\ UNCHANGED <<table, filter, left, total, due>>
      /\ Listed' = Listed /\ stage = "page"
      /\ \A t : Above(t, Listed)' = Above(t, Listed) /\ Untied(t)' = Untied(t)
  BY DEF ReadPage, table, Listed, Above, Untied
<1>2. PICK S \in PagesOf(Listed, o, PageSize) :
        /\ seen' = seen \cup S
        /\ length' = Cardinality(S)
        /\ \/ Cardinality(S) < PageSize /\ stage' = "done" /\ page' = page
           \/ ~ (Cardinality(S) < PageSize) /\ stage' = "count" /\ page' = page + 1
  BY DEF ReadPage
<1>3. /\ PageSize \in Nat \ {0} /\ o \in Nat /\ n \in Nat /\ total \in Nat
      /\ page \in Nat \ {0} /\ Offset(page + 1) = o + PageSize
  BY ListingAssumption, ListedIsFinite, OffsetFacts DEF TypeOK
<1>4. /\ Cardinality(S) \in 0..PageSize
      /\ Cardinality(S) = UpTo(o + PageSize, Listed) - UpTo(o, Listed)
  BY <1>3, ListedIsFinite, PageSizes
<1>5. RowInv'
  BY <1>1 DEF RowInv, table
<1>6. WalkInv'
  <2>1. SUFFICES ASSUME ~ left, NEW t \in due, Untied(t), t \notin seen, t \notin S
                 PROVE  stage' # "done" /\ Cardinality(Above(t, Listed)) >= Offset(page')
    BY <1>1, <1>2 DEF WalkInv, Offset
  <2>2. t \in Listed /\ Cardinality(Above(t, Listed)) >= o
    BY <1>1, <2>1 DEF WalkInv
  <2>3. Cardinality(Above(t, Listed)) >= o + PageSize /\ Cardinality(S) = PageSize
    <3>1. Listed \in SUBSET Task /\ created \in [Task -> Nat] /\ PageSize \in Nat
      BY <1>3 DEF Listed, TypeOK
    <3>. QED
      BY <1>3, <2>1, <2>2, <3>1, ListedIsFinite, PageFindsOrPasses
  <2>4. stage' = "count" /\ page' = page + 1
    BY <1>2, <1>3, <2>3
  <2>. QED
    BY <1>3, <2>3, <2>4
<1>7. CountInv'
  <2>1. SUFFICES ASSUME stage' = "done", ~ left
                 PROVE  /\ o + Cardinality(S) >= total
                        /\ total > 0 /\ page <= Pages(total) => Cardinality(S) > 0
    BY <1>1, <1>2 DEF CountInv, PageMeetsTotal, Offset, Pages
  <2>2. Cardinality(S) < PageSize /\ total <= n
    BY <1>1, <1>2, <2>1 DEF CountInv
  <2>3. o < n => o + Cardinality(S) = n
    BY <1>3, <1>4, <2>2 DEF UpTo
  <2>4. total > 0 /\ page <= Pages(total) => o < total
    BY <1>3, PagesBegin
  <2>. QED
    BY <1>3, <1>4, <2>2, <2>3, <2>4
<1>. QED
  BY <1>5, <1>6, <1>7

(* The inductive invariant of a walk over a changing table.                *)
THEOREM ListingInvariant == Spec => []ListingInv
<1>1. Init => ListingInv
  BY InitListing
<1>2. TypeOK' /\ ListingInv /\ [Next]_vars => ListingInv'
  <2>. SUFFICES ASSUME ListingInv, [Next]_vars PROVE RowInv' /\ WalkInv' /\ CountInv'
    BY DEF ListingInv
  <2>1. CASE TableStep
    BY <2>1, TableStepInv
  <2>2. CASE StartWalk \/ CountTasks
    BY <2>2, AskStepInv
  <2>3. CASE ReadPage
    BY <2>3, PageStepInv
  <2>4. CASE UNCHANGED vars
    BY <2>4 DEF ListingInv, RowInv, WalkInv, CountInv, PageMeetsTotal, vars, table, walk,
                Listed, Above, Untied, Offset, Pages
  <2>. QED
    BY <2>1, <2>2, <2>3, <2>4 DEF Next, TableStep
<1>. QED
  BY <1>1, <1>2, ListingTypeCorrect, PTL DEF Spec

(* A walk to the first short page shows every task that was listed when it *)
(* began and shares its created_at with no other, if no task left the      *)
(* list meanwhile: for any number of tasks, pages and insertions.          *)
THEOREM WalksFindAll == Spec => []WalkFindsAll
<1>1. ListingInv => WalkFindsAll
  BY DEF ListingInv, WalkInv, WalkFindsAll
<1>. QED
  BY <1>1, ListingInvariant, PTL

(* While no task leaves the list, a page is never shorter than the total   *)
(* that was announced with it, and no announced page is empty.             *)
THEOREM PagesMeetTotals == Spec => []PageMeetsTotal
<1>1. ListingInv => PageMeetsTotal
  BY DEF ListingInv, CountInv
<1>. QED
  BY <1>1, ListingInvariant, PTL
=============================================================================
