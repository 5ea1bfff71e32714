--------------------------- MODULE ApiProcessProofs ---------------------------
(***************************************************************************)
(* Proofs about ApiProcess, for any requests, any capacity of the pool and *)
(* any stores that fail.  They rest on where a request can be: it waits    *)
(* only while it is running and has no status, holds a connection only     *)
(* after its arrival, and nobody arrives but in a process that has opened  *)
(* every store; so the process that closes one has nobody left.            *)
(***************************************************************************)
EXTENDS ApiProcess, FiniteSetTheorems, TLAPS

(* The order in which the stores are opened, closed and asked. *)
LEMMA StoreOrder ==
    /\ Before["postgres"] = {} /\ Before["mongodb"] = {"postgres"}
    /\ Before["redis"] = {"postgres", "mongodb"}
    /\ After["postgres"] = "mongodb" /\ After["mongodb"] = "redis"
    /\ After["redis"] = "answered"
    /\ Stores = {"postgres", "mongodb", "redis"}
BY DEF Before, After, Stores

LEMMA HoldersAreFinite ==
    TypeOK => IsFiniteSet(holders) /\ Cardinality(holders) \in Nat
<1>1. IsFiniteSet(All)
  BY ProcessAssumption, FS_AddElement DEF All
<1>. QED
  BY <1>1, FS_Subset, FS_CardinalityType DEF TypeOK

LEMMA ExitTypeOK ==
    ASSUME TypeOK, Exit
    PROVE  /\ phase' \in {"down", "opening", "serving", "draining"}
           /\ opened' \subseteq Stores
           /\ progress' \in [All -> {"none", "running", "done"}]
           /\ code' \in [All -> {0, 200, 404, Unhandled}]
           /\ waiting' = {} /\ holders' = {} /\ Cardinality(holders') <= Capacity
           /\ check' = "none"
           /\ verdict' \in [Stores -> BOOLEAN] /\ up' = up
<1>1. Cardinality({}) = 0 /\ Capacity \in Nat
  BY FS_EmptySet, ProcessAssumption
<1>. QED
  BY <1>1 DEF Exit, Fresh

LEMMA RememberTypeOK ==
    ASSUME up' \subseteq Stores, TypeOK, Remember
    PROVE  wasUp' \subseteq Stores /\ wasDown' \subseteq Stores
<1>. DEFINE off == (Stores \ up')
            \cup IF Cardinality(holders' \ {Ready}) = Capacity THEN {"postgres"} ELSE {}
<1>1. off \subseteq Stores
  BY StoreOrder
<1>2. \/ wasUp' = up' /\ wasDown' = off
      \/ UNCHANGED <<wasUp, wasDown>>
      \/ wasUp' = wasUp \cup up' /\ wasDown' = wasDown \cup off
  BY DEF Remember
<1>. QED
  BY <1>1, <1>2 DEF TypeOK

(* The part of TypeOK that a step decides. *)
Typed ==
    /\ up \subseteq Stores
    /\ phase \in {"down", "opening", "serving", "draining"}
    /\ opened \subseteq Stores
    /\ progress \in [All -> {"none", "running", "done"}]
    /\ code \in [All -> {0, 200, 404, Unhandled}]
    /\ waiting \subseteq All
    /\ holders \subseteq All /\ Cardinality(holders) <= Capacity
    /\ check \in Stores \cup {"none", "answered"}
    /\ verdict \in [Stores -> BOOLEAN]

LEMMA ServeTyped ==
    ASSUME TypeOK, NEW r \in All, Arrive(r) \/ Serve(r) \/ PoolTimeout(r)
    PROVE  Typed'
<1>. USE DEF TypeOK, Typed, life
<1>1. CASE Arrive(r)
  BY <1>1, StoreOrder DEF Arrive
<1>2. CASE Checkout(r)
  <2>1. Cardinality(holders') <= Capacity /\ holders' \subseteq All
    <3>2. CASE holders' = holders
      BY <3>2
    <3>3. CASE holders' = holders \cup {r}
      <4>1. Cardinality(holders) < Capacity
        BY <1>2 DEF Checkout, MayTake
      <4>2. /\ Cardinality(holders \cup {r}) =
                 IF r \in holders THEN Cardinality(holders) ELSE Cardinality(holders) + 1
            /\ Cardinality(holders) \in Nat
        BY HoldersAreFinite, FS_AddElement
      <4>. QED
        BY <3>3, <4>1, <4>2, ProcessAssumption
    <3>. QED
      BY <1>2, <3>2, <3>3 DEF Checkout
  <2>2. code' \in [All -> {0, 200, 404, Unhandled}] /\ check' \in Stores \cup {"none", "answered"}
    BY <1>2, StoreOrder DEF Checkout, NoConnection
  <2>. QED
    BY <1>2, <2>1, <2>2 DEF Checkout
<1>3. CASE Handle(r)
  BY <1>3 DEF Handle
<1>4. CASE CloseSession(r)
  <2>1. Cardinality(holders') <= Capacity
    <3>1. holders' \subseteq holders /\ IsFiniteSet(holders') /\ Cardinality(holders') \in Nat
      BY <1>4, HoldersAreFinite, FS_Subset, FS_CardinalityType DEF CloseSession
    <3>2. Cardinality(holders') <= Cardinality(holders)
      BY <3>1, HoldersAreFinite, FS_Subset
    <3>. QED
      BY <3>1, <3>2, HoldersAreFinite, ProcessAssumption
  <2>. QED
    BY <1>4, <2>1 DEF CloseSession
<1>5. CASE Respond(r)
  <2>1. progress' \in [All -> {"none", "running", "done"}]
    BY <1>5 DEF Respond
  <2>2. verdict' \in [Stores -> BOOLEAN]
    <3>1. Fresh.verdict \in [Stores -> BOOLEAN]
      BY DEF Fresh
    <3>. QED
      BY <1>5, <3>1 DEF Respond
  <2>. QED
    BY <1>5, <2>1, <2>2 DEF Respond
<1>6. CASE PoolTimeout(r)
  BY <1>6, StoreOrder DEF PoolTimeout, NoConnection
<1>. QED
  BY <1>1, <1>2, <1>3, <1>4, <1>5, <1>6 DEF Serve

LEMMA ProbeTyped ==
    ASSUME TypeOK, Probe
    PROVE  Typed'
<1>. USE DEF TypeOK, Typed, life
<1>1. CASE CheckPostgres
  BY <1>1, StoreOrder DEF CheckPostgres
<1>2. ASSUME NEW s \in Stores, CheckStore(s)
      PROVE  Typed'
  <2>1. After[s] \in Stores \cup {"answered"}
    BY StoreOrder
  <2>2. verdict' \in [Stores -> BOOLEAN]
    BY <1>2 DEF CheckStore
  <2>3. code' \in [All -> {0, 200, 404, Unhandled}]
    BY <1>2 DEF CheckStore
  <2>. QED
    BY <1>2, <2>1, <2>2, <2>3 DEF CheckStore
<1>. QED
  BY <1>1, <1>2 DEF Probe

LEMMA LifeTyped ==
    ASSUME TypeOK,
           (\E s \in Stores : Change(s) \/ Live(s)) \/ Start \/ Sigterm \/ Kill
    PROVE  Typed'
<1>. USE DEF TypeOK, Typed, life, serving
<1>1. CASE \E s \in Stores : Change(s)
  BY <1>1 DEF Change
<1>2. CASE \E s \in Stores : OpenStore(s)
  BY <1>2 DEF OpenStore
<1>3. CASE Exit
  BY <1>3, ExitTypeOK
<1>4. CASE \E s \in Stores : CloseStore(s)
  BY <1>3, <1>4 DEF CloseStore
<1>5. CASE Start \/ Sigterm
  BY <1>5 DEF Start, Sigterm
<1>. QED
  BY <1>1, <1>2, <1>3, <1>4, <1>5 DEF Live, OpenFails, Kill

(* Every reachable state of the process is well typed: above all, never    *)
(* are more connections lent than the pool may have.                       *)
THEOREM ProcessTypeCorrect == Safe => []TypeOK
<1>1. Init => TypeOK
  <2>1. Cardinality({}) = 0 /\ Capacity \in Nat
    BY FS_EmptySet, ProcessAssumption
  <2>. QED
    BY <2>1 DEF Init, TypeOK, Fresh
<1>2. TypeOK /\ [Next]_vars => TypeOK'
  <2>. SUFFICES ASSUME TypeOK, [Next]_vars PROVE TypeOK'
    OBVIOUS
  <2>1. CASE Next
    <3>1. Typed'
      BY <2>1, ServeTyped, ProbeTyped, LifeTyped DEF Next, Step
    <3>2. wasUp' \subseteq Stores /\ wasDown' \subseteq Stores
      BY <2>1, <3>1, RememberTypeOK DEF Next, Typed
    <3>. QED
      BY <3>1, <3>2 DEF Typed, TypeOK
  <2>2. CASE UNCHANGED vars
    BY <2>2 DEF vars, life, serving, TypeOK
  <2>. QED
    BY <2>1, <2>2
<1>. QED
  BY <1>1, <1>2, PTL DEF Safe

-----------------------------------------------------------------------------
(* Where a request can be. *)
RequestInv == \A r \in All :
    /\ progress[r] = "none" => code[r] = 0 /\ r \notin waiting /\ r \notin holders
    /\ r \in waiting => progress[r] = "running" /\ code[r] = 0 /\ r \notin holders
    /\ progress[r] = "done" => code[r] # 0
    /\ r = Ready /\ r \in holders => code[r] = 0

(* When a process has requests, and when it has all of its clients. *)
PhaseInv ==
    /\ phase \in {"down", "opening"} => \A r \in All : progress[r] = "none"
    /\ phase = "serving" => opened = Stores

(* How far /ready is, and what it may have found by then. *)
Honest(s) == s \in IF verdict[s] THEN wasUp ELSE wasDown

ProbeInv ==
    /\ check # "none" => progress[Ready] = "running"
    /\ Ready \in waiting => check = "postgres"
    /\ Ready \in holders => check \in {"postgres", "mongodb"}
    /\ check \in {"none", "postgres"} => ~ verdict["postgres"]
    /\ check \in {"mongodb", "redis", "answered"} => Honest("postgres")
    /\ check \in {"redis", "answered"} => Honest("mongodb")
    /\ check = "answered" => Honest("redis")

OrderInv == PhaseInv /\ ClientsOutliveRequests

(* A step of a request keeps the requests where they can be. *)
LEMMA RequestStepRequests ==
    ASSUME TypeOK, RequestInv, NEW q \in All, Arrive(q) \/ Serve(q) \/ PoolTimeout(q)
    PROVE  RequestInv'
<1>. USE DEF TypeOK, life
<1>1. CASE Arrive(q)
  BY <1>1 DEF Arrive, RequestInv
<1>2. CASE Checkout(q)
  BY <1>2 DEF Checkout, MayTake, NoConnection, RequestInv, Unhandled
<1>3. CASE Handle(q)
  BY <1>3 DEF Handle, RequestInv, Unhandled
<1>4. CASE CloseSession(q)
  BY <1>4 DEF CloseSession, RequestInv
<1>5. CASE Respond(q)
  BY <1>5 DEF Respond, RequestInv
<1>6. CASE PoolTimeout(q)
  BY <1>6 DEF PoolTimeout, NoConnection, RequestInv, Unhandled
<1>. QED
  BY <1>1, <1>2, <1>3, <1>4, <1>5, <1>6 DEF Serve

LEMMA ProbeStepRequests ==
    ASSUME TypeOK, RequestInv, ProbeInv, Probe
    PROVE  RequestInv'
<1>. USE DEF TypeOK, life
<1>1. CASE CheckPostgres
  BY <1>1 DEF CheckPostgres, RequestInv
<1>2. ASSUME NEW s \in Stores, CheckStore(s)
      PROVE  RequestInv'
  <2>1. /\ Ready \in All /\ Ready \notin waiting /\ Ready \notin holders
        /\ progress[Ready] = "running"
    BY <1>2, StoreOrder DEF CheckStore, ProbeInv, All
  <2>2. /\ UNCHANGED <<progress, waiting, holders>>
        /\ \A r \in All \ {Ready} : code'[r] = code[r]
    BY <1>2 DEF CheckStore
  <2>. QED
    BY <2>1, <2>2 DEF RequestInv
<1>. QED
  BY <1>1, <1>2 DEF Probe

LEMMA LifeStepRequests ==
    ASSUME TypeOK, RequestInv,
           (\E s \in Stores : Change(s) \/ Live(s)) \/ Start \/ Sigterm \/ Kill
    PROVE  RequestInv'
<1>1. CASE Exit
  BY <1>1 DEF Exit, Fresh, RequestInv
<1>2. CASE UNCHANGED serving
  BY <1>2 DEF serving, RequestInv
<1>. QED
  BY <1>1, <1>2 DEF Change, Live, OpenStore, OpenFails, CloseStore, Start, Sigterm, Kill

-----------------------------------------------------------------------------
(* Requests arrive in a process that serves, and none comes back. *)
LEMMA RequestStepOrder ==
    ASSUME TypeOK, RequestInv, OrderInv, NEW q \in All,
           Arrive(q) \/ Serve(q) \/ PoolTimeout(q)
    PROVE  OrderInv'
<1>. USE DEF OrderInv, RequestInv, PhaseInv, ClientsOutliveRequests, UnderWay, TypeOK, life
<1>1. CASE Arrive(q)
  BY <1>1 DEF Arrive
<1>2. CASE Checkout(q)
  BY <1>2 DEF Checkout, MayTake
<1>3. CASE Handle(q)
  BY <1>3 DEF Handle
<1>4. CASE CloseSession(q)
  BY <1>4 DEF CloseSession
<1>5. CASE Respond(q)
  BY <1>5 DEF Respond
<1>6. CASE PoolTimeout(q)
  BY <1>6 DEF PoolTimeout
<1>. QED
  BY <1>1, <1>2, <1>3, <1>4, <1>5, <1>6 DEF Serve

LEMMA ProbeStepOrder ==
    ASSUME OrderInv, Probe
    PROVE  OrderInv'
<1>1. UNCHANGED <<life, progress, holders>>
  BY DEF Probe, CheckPostgres, CheckStore
<1>. QED
  BY <1>1 DEF OrderInv, PhaseInv, ClientsOutliveRequests, UnderWay, life

LEMMA LifeStepOrder ==
    ASSUME TypeOK, RequestInv, OrderInv,
           (\E s \in Stores : Change(s) \/ Live(s)) \/ Start \/ Sigterm \/ Kill
    PROVE  OrderInv'
<1>. USE DEF OrderInv, PhaseInv, ClientsOutliveRequests, UnderWay, life, serving
<1>1. CASE \E s \in Stores : Change(s)
  BY <1>1 DEF Change
<1>2. ASSUME NEW s \in Stores, OpenStore(s)
      PROVE  OrderInv'
  <2>1. \A r \in All : progress[r] = "none" /\ r \notin holders
    BY <1>2 DEF OpenStore, RequestInv
  <2>2. s = "redis" => opened' = Stores
    BY <1>2, StoreOrder DEF OpenStore
  <2>. QED
    BY <1>2, <2>1, <2>2 DEF OpenStore
<1>3. CASE Exit
  BY <1>3 DEF Exit, Fresh
<1>4. ASSUME NEW s \in Stores, CloseStore(s)
      PROVE  OrderInv'
  BY <1>3, <1>4 DEF CloseStore, Drained
<1>5. CASE Start \/ Sigterm
  BY <1>5 DEF Start, Sigterm
<1>. QED
  BY <1>1, <1>2, <1>3, <1>4, <1>5 DEF Live, OpenFails, Kill

-----------------------------------------------------------------------------
(* While /ready is asking, everything that is seen is remembered; nothing  *)
(* is forgotten before its response.                                       *)
LEMMA Remembered ==
    ASSUME Remember, check' # "none"
    PROVE  /\ check # "none" => wasUp \subseteq wasUp' /\ wasDown \subseteq wasDown'
           /\ check # "answered" =>
                 /\ up' \subseteq wasUp' /\ Stores \ up' \subseteq wasDown'
                 /\ Cardinality(holders' \ {Ready}) = Capacity => "postgres" \in wasDown'
<1>. DEFINE off == (Stores \ up')
            \cup IF Cardinality(holders' \ {Ready}) = Capacity THEN {"postgres"} ELSE {}
<1>1. \/ check = "answered" /\ UNCHANGED <<wasUp, wasDown>>
      \/ check # "answered" /\ wasUp' = wasUp \cup up' /\ wasDown' = wasDown \cup off
  BY DEF Remember
<1>2. Stores \ up' \subseteq off /\ (Cardinality(holders' \ {Ready}) = Capacity => "postgres" \in off)
  OBVIOUS
<1>. QED
  BY <1>1, <1>2

(* A step that leaves /ready where it is. *)
LEMMA ProbeStays ==
    ASSUME TypeOK, ProbeInv, Remember, UNCHANGED <<check, verdict>>,
           progress[Ready] = "running" => progress'[Ready] = "running",
           Ready \in waiting' => Ready \in waiting,
           Ready \in holders' => Ready \in holders
    PROVE  ProbeInv'
<1>1. CASE check = "none"
  BY <1>1 DEF ProbeInv
<1>2. CASE check # "none"
  <2>1. wasUp \subseteq wasUp' /\ wasDown \subseteq wasDown'
    BY <1>2, Remembered
  <2>2. \A s : Honest(s) => Honest(s)'
    BY <2>1 DEF Honest
  <2>. QED
    BY <2>2 DEF ProbeInv
<1>. QED
  BY <1>1, <1>2

LEMMA RequestStepProbe ==
    ASSUME TypeOK, RequestInv, ProbeInv, Remember, NEW q \in All,
           Arrive(q) \/ Serve(q) \/ PoolTimeout(q)
    PROVE  ProbeInv'
<1>. USE DEF TypeOK
<1>0. Ready \in All
  BY DEF All
<1>1. CASE Arrive(q)
  <2>1. CASE q = Ready
    <3>1. check = "none" /\ check' = "postgres" /\ progress'[Ready] = "running"
      BY <1>0, <1>1, <2>1 DEF Arrive, ProbeInv
    <3>. QED
      BY <1>1, <3>1 DEF Arrive, ProbeInv
  <2>2. CASE q # Ready
    BY <1>0, <1>1, <2>2, ProbeStays DEF Arrive
  <2>. QED
    BY <2>1, <2>2
<1>2. CASE Checkout(q)
  <2>1. CASE q = Ready /\ "postgres" \notin up
    <3>1. /\ check = "postgres" /\ check' = "mongodb" /\ ~ verdict'["postgres"]
          /\ Ready \notin waiting' /\ Ready \notin holders'
          /\ progress'[Ready] = "running" /\ "postgres" \in Stores \ up'
      BY <1>0, <1>2, <2>1, StoreOrder
         DEF Checkout, MayTake, NoConnection, ProbeInv, RequestInv
    <3>2. "postgres" \in wasDown'
      BY <3>1, Remembered
    <3>. QED
      BY <3>1, <3>2 DEF ProbeInv, Honest
  <2>2. CASE q = Ready /\ "postgres" \in up
    <3>1. check = "postgres" /\ check' = "postgres" /\ verdict' = verdict /\ progress' = progress
      BY <1>2, <2>2 DEF Checkout, MayTake, ProbeInv
    <3>2. progress'[Ready] = "running"
      BY <3>1 DEF ProbeInv
    <3>3. check \in {"none", "postgres"}
      BY <3>1
    <3>4. ~ verdict'["postgres"]
      BY <3>1, <3>3 DEF ProbeInv
    <3>. QED
      BY <3>1, <3>2, <3>4 DEF ProbeInv
  <2>3. CASE q # Ready
    BY <1>2, <2>3, ProbeStays DEF Checkout, NoConnection
  <2>. QED
    BY <2>1, <2>2, <2>3
<1>5. CASE Handle(q) \/ CloseSession(q)
  BY <1>5, ProbeStays DEF Handle, CloseSession
<1>3. CASE Respond(q)
  <2>1. CASE q = Ready
    <3>0. Ready \notin holders
      BY <1>0, <1>3, <2>1 DEF Respond, RequestInv
    <3>1. /\ check' = "none" /\ Ready \notin waiting' /\ ~ verdict'["postgres"]
          /\ Ready \notin holders'
      BY <1>0, <1>3, <2>1, <3>0, StoreOrder DEF Respond, RequestInv, Fresh
    <3>. QED
      BY <3>1, StoreOrder DEF ProbeInv
  <2>2. CASE q # Ready
    BY <1>0, <1>3, <2>2, ProbeStays DEF Respond
  <2>. QED
    BY <2>1, <2>2
<1>4. CASE PoolTimeout(q)
  <2>1. CASE q = Ready
    <3>1. /\ check = "postgres" /\ check' = "mongodb" /\ ~ verdict'["postgres"]
          /\ Ready \notin waiting' /\ progress'[Ready] = "running"
          /\ Cardinality(holders' \ {Ready}) = Capacity
      <4>1. /\ check = "postgres" /\ check' = "mongodb"
            /\ UNCHANGED <<verdict, progress, holders>>
            /\ waiting' = waiting \ {Ready} /\ Cardinality(holders) = Capacity
        BY <1>4, <2>1, StoreOrder DEF PoolTimeout, NoConnection, ProbeInv
      <4>2. Ready \notin holders /\ progress[Ready] = "running"
        BY <1>0, <1>4, <2>1 DEF PoolTimeout, RequestInv
      <4>3. holders' \ {Ready} = holders
        BY <4>1, <4>2
      <4>. QED
        BY <4>1, <4>2, <4>3 DEF ProbeInv
    <3>2. "postgres" \in wasDown'
      BY <3>1, Remembered
    <3>. QED
      BY <3>1, <3>2 DEF ProbeInv, Honest
  <2>2. CASE q # Ready
    BY <1>0, <1>4, <2>2, ProbeStays DEF PoolTimeout, NoConnection
  <2>. QED
    BY <2>1, <2>2
<1>. QED
  BY <1>1, <1>2, <1>3, <1>4, <1>5 DEF Serve

LEMMA ProbeStepProbe ==
    ASSUME TypeOK, RequestInv, ProbeInv, Remember, Probe
    PROVE  ProbeInv'
<1>. USE DEF TypeOK
<1>1. CASE CheckPostgres
  <2>1. /\ check = "postgres" /\ check' = "mongodb"
        /\ verdict'["postgres"] = ("postgres" \in up') /\ "postgres" \in Stores
        /\ Ready \notin waiting' /\ progress'[Ready] = "running"
    BY <1>1, StoreOrder DEF CheckPostgres, ProbeInv, RequestInv, All
  <2>2. Honest("postgres")'
    BY <2>1, Remembered DEF Honest
  <2>. QED
    BY <2>1, <2>2 DEF ProbeInv
<1>2. ASSUME NEW s \in Stores, CheckStore(s)
      PROVE  ProbeInv'
  <2>1. /\ check = s /\ s \in {"mongodb", "redis"} /\ check' = After[s]
        /\ verdict'[s] = (s \in up')
        /\ \A z \in Stores \ {s} : verdict'[z] = verdict[z]
        /\ UNCHANGED <<waiting, holders, progress>> /\ Ready \notin holders
    BY <1>2, StoreOrder DEF CheckStore
  <2>2. check' \in {"redis", "answered"} /\ check \notin {"none", "answered"}
    BY <2>1, StoreOrder
  <2>3. Honest(s)'
    BY <2>1, <2>2, Remembered DEF Honest
  <2>4. \A z \in Stores \ {s} : Honest(z) => Honest(z)'
    BY <2>1, <2>2, Remembered DEF Honest
  <2>. QED
    BY <2>1, <2>2, <2>3, <2>4, StoreOrder DEF ProbeInv
<1>. QED
  BY <1>1, <1>2 DEF Probe

LEMMA LifeStepProbe ==
    ASSUME TypeOK, ProbeInv, Remember,
           (\E s \in Stores : Change(s) \/ Live(s)) \/ Start \/ Sigterm \/ Kill
    PROVE  ProbeInv'
<1>1. CASE Exit
  BY <1>1, StoreOrder DEF Exit, Fresh, ProbeInv
<1>2. CASE UNCHANGED serving
  BY <1>2, ProbeStays DEF serving
<1>. QED
  BY <1>1, <1>2 DEF Change, Live, OpenStore, OpenFails, CloseStore, Start, Sigterm, Kill

-----------------------------------------------------------------------------
ProcessInv == TypeOK /\ RequestInv /\ OrderInv /\ ProbeInv

(* The inductive invariant of a process and the requests it serves.        *)
THEOREM ProcessInvariant == Safe => []ProcessInv
<1>1. Init /\ TypeOK => ProcessInv
  <2>1. Init => ~ verdict["postgres"]
    BY StoreOrder DEF Init, Fresh
  <2>. QED
    BY <2>1 DEF Init, Fresh, ProcessInv, RequestInv, OrderInv,
                PhaseInv, ClientsOutliveRequests, UnderWay, ProbeInv
<1>2. TypeOK' /\ ProcessInv /\ [Next]_vars => ProcessInv'
  <2>. SUFFICES ASSUME ProcessInv, [Next]_vars PROVE RequestInv' /\ OrderInv' /\ ProbeInv'
    BY DEF ProcessInv
  <2>. USE DEF ProcessInv
  <2>1. ASSUME Remember, NEW q \in All, Arrive(q) \/ Serve(q) \/ PoolTimeout(q)
        PROVE  RequestInv' /\ OrderInv' /\ ProbeInv'
    BY <2>1, RequestStepRequests, RequestStepOrder, RequestStepProbe
  <2>2. CASE Remember /\ Probe
    BY <2>2, ProbeStepRequests, ProbeStepOrder, ProbeStepProbe
  <2>3. CASE /\ Remember
             /\ (\E s \in Stores : Change(s) \/ Live(s)) \/ Start \/ Sigterm \/ Kill
    BY <2>3, LifeStepRequests, LifeStepOrder, LifeStepProbe
  <2>4. CASE UNCHANGED vars
    BY <2>4 DEF vars, life, serving, RequestInv, OrderInv, PhaseInv,
                ClientsOutliveRequests, UnderWay, ProbeInv, Honest
  <2>. QED
    BY <2>1, <2>2, <2>3, <2>4 DEF Next, Step
<1>. QED
  BY <1>1, <1>2, ProcessTypeCorrect, PTL DEF Safe

(* No request meets a client that is not opened yet or closed already,     *)
(* whichever stores fail and whenever the process is told to stop.         *)
THEOREM ClientsOutlive == Safe => []ClientsOutliveRequests
BY ProcessInvariant, PTL DEF ProcessInv, OrderInv

(* Each verdict of /ready was true at some time while it was asking.       *)
THEOREM VerdictsAreHonest == Safe => []VerdictIsHonest
<1>1. ProcessInv => VerdictIsHonest
  BY StoreOrder DEF ProcessInv, ProbeInv, Honest, VerdictIsHonest
<1>. QED
  BY <1>1, ProcessInvariant, PTL
-----------------------------------------------------------------------------
(* A request under way has a next step of its own, without giving up: it   *)
(* may take a connection, its handler or its session may end, it may be    *)
(* answered, or, in the case of /ready, the next store may be asked.       *)
MayGoOn(r) ==
    \/ MayTake(r)
    \/ r \in holders
    \/ progress[r] = "running" /\ code[r] # 0
    \/ r = Ready /\ check \in {"mongodb", "redis"}

(* Nobody waits in a circle: whoever cannot go on waits for a connection   *)
(* that somebody else has who can, since nobody who has one waits.         *)
NobodyIsStuck == \A r \in All : UnderWay(r) =>
    \/ MayGoOn(r)
    \/ r \in waiting /\ \E h \in holders : h # r /\ h \notin waiting /\ MayGoOn(h)

(* Where a request without a status is, and where /ready is. *)
PlaceInv ==
    /\ \A r \in Request : progress[r] = "running" /\ code[r] = 0 =>
          r \in waiting \/ r \in holders
    /\ progress[Ready] = "running" =>
          \/ check = "postgres" /\ (Ready \in waiting \/ Ready \in holders)
          \/ check \in {"mongodb", "redis"}
          \/ check = "answered" /\ code[Ready] # 0

(* How much a request has yet to do. *)
ProgressRank(r) ==
    CASE progress[r] = "none" -> 8 [] progress[r] = "running" -> 1 [] OTHER -> 0

PoolRank(r) == IF r \in waiting THEN 2 ELSE IF r \in holders THEN 1 ELSE 0

CheckRank(r) ==
    IF r # Ready THEN 0 ELSE
    CASE check = "postgres" -> 3 [] check = "mongodb" -> 2 [] check = "redis" -> 1
      [] OTHER -> 0

Rank(r) == ProgressRank(r) + PoolRank(r) + CheckRank(r) + IF code[r] = 0 THEN 1 ELSE 0

(* Until the process ends, each step of its requests brings one of them    *)
(* nearer to its end and no other further from it.                         *)
ServingIsProgress == [][
    \/ phase' = "down"
    \/ UNCHANGED serving
    \/ /\ \E q \in All : Rank(q)' < Rank(q)
       /\ \A r \in All : Rank(r) \in 0..9 /\ Rank(r)' <= Rank(r)]_vars

-----------------------------------------------------------------------------
(* No step but the end of the process misplaces anybody. *)
LEMMA RequestStepPlaces ==
    ASSUME TypeOK, RequestInv, ProbeInv, PlaceInv, NEW q \in All,
           Arrive(q) \/ Serve(q) \/ PoolTimeout(q)
    PROVE  PlaceInv'
<1>. USE ProcessAssumption DEF TypeOK, PlaceInv, RequestInv, ProbeInv, All, life
<1>1. CASE Arrive(q)
  BY <1>1 DEF Arrive
<1>2. CASE Checkout(q)
  BY <1>2, StoreOrder DEF Checkout, MayTake, NoConnection, Unhandled
<1>3. CASE Handle(q)
  BY <1>3 DEF Handle, Unhandled
<1>4. CASE CloseSession(q)
  BY <1>4, StoreOrder DEF CloseSession, Finished
<1>5. CASE Respond(q)
  BY <1>5 DEF Respond
<1>6. CASE PoolTimeout(q)
  BY <1>6, StoreOrder DEF PoolTimeout, NoConnection, Unhandled
<1>. QED
  BY <1>1, <1>2, <1>3, <1>4, <1>5, <1>6 DEF Serve

LEMMA ProbeStepPlaces ==
    ASSUME TypeOK, RequestInv, ProbeInv, PlaceInv, Probe
    PROVE  PlaceInv'
<1>. USE ProcessAssumption, StoreOrder DEF TypeOK, PlaceInv, RequestInv, ProbeInv, All, life
<1>1. CASE CheckPostgres
  BY <1>1 DEF CheckPostgres
<1>2. ASSUME NEW s \in Stores, CheckStore(s)
      PROVE  PlaceInv'
  BY <1>2 DEF CheckStore
<1>. QED
  BY <1>1, <1>2 DEF Probe

LEMMA LifeStepPlaces ==
    ASSUME PlaceInv,
           (\E s \in Stores : Change(s) \/ Live(s)) \/ Start \/ Sigterm \/ Kill
    PROVE  PlaceInv'
<1>1. CASE Exit
  BY <1>1 DEF Exit, Fresh, PlaceInv, All
<1>2. CASE UNCHANGED serving
  BY <1>2 DEF serving, PlaceInv
<1>. QED
  BY <1>1, <1>2 DEF Change, Live, OpenStore, OpenFails, CloseStore, Start, Sigterm, Kill

LEMMA PlaceInvariant == Safe => []PlaceInv
<1>1. Init => PlaceInv
  BY DEF Init, Fresh, PlaceInv, All
<1>2. ProcessInv /\ PlaceInv /\ [Next]_vars => PlaceInv'
  <2>. SUFFICES ASSUME ProcessInv, PlaceInv, [Next]_vars PROVE PlaceInv'
    OBVIOUS
  <2>1. CASE UNCHANGED vars
    BY <2>1 DEF vars, serving, PlaceInv
  <2>2. CASE Next
    BY <2>2, RequestStepPlaces, ProbeStepPlaces, LifeStepPlaces
       DEF Next, Step, ProcessInv
  <2>. QED
    BY <2>1, <2>2
<1>. QED
  BY <1>1, <1>2, ProcessInvariant, PTL DEF Safe

(* Requests and /ready never wait for each other in a circle, whatever the *)
(* capacity of the pool (postgres.py:35-43) and whichever stores are down. *)
THEOREM NoCircularWait == Safe => []NobodyIsStuck
<1>1. ProcessInv /\ PlaceInv => NobodyIsStuck
  <2>. SUFFICES ASSUME ProcessInv, PlaceInv, NEW r \in All, UnderWay(r), ~ MayGoOn(r)
                PROVE  r \in waiting /\ \E h \in holders :
                          h # r /\ h \notin waiting /\ MayGoOn(h)
    BY DEF NobodyIsStuck
  <2>. USE DEF ProcessInv
  <2>1. progress[r] = "running" /\ code[r] = 0 /\ r \notin holders
    BY DEF UnderWay, MayGoOn
  <2>2. r \in waiting
    BY <2>1 DEF PlaceInv, MayGoOn, All
  <2>3. ~ (Cardinality(holders) < Capacity)
    BY <2>2 DEF MayGoOn, MayTake
  <2>4. holders # {}
    BY <2>3, FS_EmptySet, ProcessAssumption
  <2>5. PICK h \in holders : TRUE
    BY <2>4
  <2>6. h \in All /\ h \notin waiting
    BY <2>5 DEF TypeOK, All, RequestInv
  <2>. QED
    BY <2>1, <2>2, <2>5, <2>6 DEF MayGoOn
<1>. QED
  BY <1>1, ProcessInvariant, PlaceInvariant, PTL

-----------------------------------------------------------------------------
(* A step of a request, or of /ready, brings it nearer to its end.         *)
LEMMA RanksAreBounded ==
    ASSUME TypeOK, RequestInv, ProbeInv, NEW r \in All
    PROVE  Rank(r) \in 0..9
<1>. USE DEF TypeOK
<1>1. CASE progress[r] = "none"
  <2>1. ProgressRank(r) = 8 /\ PoolRank(r) = 0 /\ CheckRank(r) = 0
    BY <1>1 DEF RequestInv, ProbeInv, ProgressRank, PoolRank, CheckRank
  <2>. QED
    BY <2>1 DEF Rank
<1>2. CASE progress[r] # "none"
  <2>1. ProgressRank(r) \in 0..1 /\ PoolRank(r) \in 0..2 /\ CheckRank(r) \in 0..3
    BY <1>2 DEF ProgressRank, PoolRank, CheckRank
  <2>. QED
    BY <2>1 DEF Rank
<1>. QED
  BY <1>1, <1>2

LEMMA RequestStepRank ==
    ASSUME TypeOK, RequestInv, ProbeInv, NEW q \in All,
           Arrive(q) \/ Serve(q) \/ PoolTimeout(q)
    PROVE  /\ Rank(q)' < Rank(q)
           /\ \A r \in All : r # q => Rank(r)' = Rank(r)
<1>. USE ProcessAssumption
     DEF TypeOK, RequestInv, ProbeInv, All, life, Rank, ProgressRank, PoolRank, CheckRank
<1>1. CASE Arrive(q)
  BY <1>1 DEF Arrive
<1>2. CASE Checkout(q)
  BY <1>2 DEF Checkout, MayTake, NoConnection, Unhandled
<1>3. CASE Handle(q)
  BY <1>3 DEF Handle, Unhandled
<1>4. CASE CloseSession(q)
  BY <1>4 DEF CloseSession
<1>5. CASE Respond(q)
  BY <1>5 DEF Respond
<1>6. CASE PoolTimeout(q)
  BY <1>6, StoreOrder DEF PoolTimeout, NoConnection, Unhandled
<1>. QED
  BY <1>1, <1>2, <1>3, <1>4, <1>5, <1>6 DEF Serve

LEMMA ProbeStepRank ==
    ASSUME TypeOK, RequestInv, ProbeInv, Probe
    PROVE  /\ Rank(Ready)' < Rank(Ready)
           /\ \A r \in All : r # Ready => Rank(r)' = Rank(r)
<1>. USE ProcessAssumption, StoreOrder
     DEF TypeOK, RequestInv, ProbeInv, All, life, Rank, ProgressRank, PoolRank, CheckRank
<1>1. CASE CheckPostgres
  BY <1>1 DEF CheckPostgres
<1>2. ASSUME NEW s \in Stores, CheckStore(s)
      PROVE  /\ Rank(Ready)' < Rank(Ready)
             /\ \A r \in All : r # Ready => Rank(r)' = Rank(r)
  BY <1>2 DEF CheckStore
<1>. QED
  BY <1>1, <1>2 DEF Probe

(* So a request makes at most 9 steps in the life of a process; what      *)
(* NothingHangs leaves to the fairness is that steps that can be made are. *)
THEOREM RequestsProgress == Safe => ServingIsProgress
<1>. DEFINE Nearer == /\ \E q \in All : Rank(q)' < Rank(q)
                      /\ \A r \in All : Rank(r) \in 0..9 /\ Rank(r)' <= Rank(r)
<1>1. TypeOK' /\ ProcessInv /\ [Next]_vars =>
        [phase' = "down" \/ UNCHANGED serving \/ Nearer]_vars
  <2>. SUFFICES ASSUME TypeOK', ProcessInv, Next
                PROVE  phase' = "down" \/ UNCHANGED serving \/ Nearer
    OBVIOUS
  <2>. USE DEF ProcessInv
  <2>0. \A r \in All : Rank(r) \in 0..9 /\ Rank(r)' \in Int
    BY RanksAreBounded DEF Rank, ProgressRank, PoolRank, CheckRank
  <2>1. ASSUME NEW q \in All, Arrive(q) \/ Serve(q) \/ PoolTimeout(q)
        PROVE  Nearer
    BY <2>0, <2>1, RequestStepRank
  <2>2. CASE Probe
    <3>1. Ready \in All
      BY DEF All
    <3>. QED
      BY <2>0, <2>2, <3>1, ProbeStepRank
  <2>3. CASE (\E s \in Stores : Change(s) \/ Live(s)) \/ Start \/ Sigterm \/ Kill
    BY <2>3 DEF Change, Live, OpenStore, OpenFails, CloseStore, Start, Sigterm, Kill, Exit
  <2>. QED
    BY <2>1, <2>2, <2>3 DEF Next, Step
<1>. QED
  BY <1>1, ProcessInvariant, ProcessTypeCorrect, PTL DEF Safe, ServingIsProgress
=============================================================================
