-------------------------- MODULE InputStoreProofs --------------------------
(* Proofs about InputStore, for every value of its constants. *)
EXTENDS InputStore, FiniteSetTheorems, TLAPS

(* An upload owns no payload before it has reserved its bytes. *)
NothingBeforeReserve ==
    \A u \in Uploads : adding[u] \in {"new", "swept", "loaded"} => refs[u] = {}

(* Between the reservation and the insertion the handler owns the payload. *)
HandlerHolds ==
    \A u \in Uploads : adding[u] = "reserved" => Handler \in refs[u]

IInv == TypeOK /\ BudgetExact /\ WithinCapacity /\ NothingBeforeReserve /\ HandlerHolds

\* Any set of uploads has finitely many bytes.
LEMMA BytesFinite ==
    ASSUME NEW P \in SUBSET Uploads
    PROVE  IsFiniteSet(BytesOf(P)) /\ Cardinality(BytesOf(P)) \in Nat
<1>1. BytesOf(P) \in SUBSET UNION {Bytes[u] : u \in Uploads}
  BY DEF BytesOf
<1>2. IsFiniteSet(BytesOf(P))
  BY <1>1, UploadsAssumption, FS_Subset
<1>. QED  BY <1>2, FS_CardinalityType

\* The bytes of two disjoint sets of uploads add up.
LEMMA BytesAdd ==
    ASSUME NEW P \in SUBSET Uploads, NEW Q \in SUBSET Uploads, P \cap Q = {}
    PROVE  Cardinality(BytesOf(P \cup Q))
             = Cardinality(BytesOf(P)) + Cardinality(BytesOf(Q))
<1>1. IsFiniteSet(BytesOf(P)) /\ IsFiniteSet(BytesOf(Q))
  BY BytesFinite
<1>2. BytesOf(P \cup Q) = BytesOf(P) \cup BytesOf(Q)
  BY DEF BytesOf
<1>3. BytesOf(P) \cap BytesOf(Q) = {}
  BY UploadsAssumption DEF BytesOf
<1>4. Cardinality(BytesOf(P)) \in Nat /\ Cardinality(BytesOf(Q)) \in Nat
  BY BytesFinite
<1>5. Cardinality(BytesOf(P) \cup BytesOf(Q))
        = Cardinality(BytesOf(P)) + Cardinality(BytesOf(Q)) - Cardinality({})
  BY <1>1, <1>3, FS_Union
<1>6. Cardinality(BytesOf(P) \cup BytesOf(Q))
        = Cardinality(BytesOf(P)) + Cardinality(BytesOf(Q)) - 0
  <2>1. Cardinality({}) = 0
    BY FS_EmptySet
  <2>. QED  BY <2>1, <1>5
<1>7. Cardinality(BytesOf(P)) + Cardinality(BytesOf(Q)) - 0
        = Cardinality(BytesOf(P)) + Cardinality(BytesOf(Q))
  BY <1>4
<1>. QED  BY <1>2, <1>6, <1>7

\* Owners that leave take exactly the bytes of the payloads nobody keeps.
LEMMA SetRefsKeepsBudget ==
    ASSUME TypeOK, BudgetExact, WithinCapacity,
           NEW new \in [Uploads -> SUBSET Owners], SetRefs(new),
           \A u \in Uploads : refs[u] = {} => new[u] = {}
    PROVE  /\ refs' \in [Uploads -> SUBSET Owners]
           /\ resident' \in Nat
           /\ BudgetExact' /\ WithinCapacity'
<1> DEFINE gone == Freed(new)
           left == {u \in Uploads : new[u] # {}}
<1>1. Alive = left \cup gone /\ left \cap gone = {}
  BY DEF Alive, Freed
<1>2. Cardinality(BytesOf(Alive)) = Cardinality(BytesOf(left)) + Cardinality(BytesOf(gone))
  <2>1. left \in SUBSET Uploads /\ gone \in SUBSET Uploads
    BY DEF Freed, Alive
  <2>. QED  BY <1>1, <2>1, BytesAdd
<1>3. Cardinality(BytesOf(left)) \in Nat /\ Cardinality(BytesOf(gone)) \in Nat
  BY BytesFinite DEF Freed, Alive
<1>4. refs' = new /\ resident' = resident - Cardinality(BytesOf(gone))
  BY DEF SetRefs
<1>5. Alive' = left
  BY <1>4 DEF Alive
<1>6. BytesOf(Alive)' = BytesOf(left)
  BY <1>5 DEF BytesOf
<1> HIDE DEF left, gone
<1>7. resident' = Cardinality(BytesOf(left))
  BY <1>2, <1>3, <1>4 DEF BudgetExact
<1>8. Cardinality(BytesOf(left)) <= Capacity
  BY <1>2, <1>3, BoundsAssumption DEF WithinCapacity
<1>. QED  BY <1>3, <1>4, <1>6, <1>7, <1>8 DEF BudgetExact, WithinCapacity

\* A sweep takes the store's share of some payloads and nothing else.
LEMMA SweepRefs ==
    ASSUME TypeOK, NEW time
    PROVE  /\ WithoutExpired(time) \in [Uploads -> SUBSET Owners]
           /\ \A u \in Uploads : WithoutExpired(time)[u] \subseteq refs[u]
           /\ \A u \in Uploads : Handler \in refs[u] => Handler \in WithoutExpired(time)[u]
BY OwnersAssumption DEF TypeOK, WithoutExpired

\* Initially nothing is stored.
LEMMA IInvInit == Init => IInv
<1>. SUFFICES ASSUME Init PROVE IInv
  OBVIOUS
<1>1. TypeOK
  BY BoundsAssumption DEF Init, TypeOK, Requests, AddSteps
<1>2. Alive = {} /\ BytesOf(Alive) = {}
  BY DEF Init, Alive, BytesOf
<1>3. BudgetExact /\ WithinCapacity
  BY <1>2, BoundsAssumption, FS_EmptySet DEF BudgetExact, WithinCapacity, Init
<1>. QED  BY <1>1, <1>3 DEF IInv, NothingBeforeReserve, HandlerHolds, Init

\* A reservation adds the bytes of one new payload, within the capacity.
LEMMA ReserveKeepsIInv ==
    ASSUME IInv, NEW u \in Uploads, Reserve(u)
    PROVE  IInv'
<1>1. refs[u] = {} /\ u \notin Alive /\ Alive \in SUBSET Uploads
  BY DEF IInv, NothingBeforeReserve, Reserve, Alive
<1>2. refs' = [refs EXCEPT ![u] = {Handler}]
  BY DEF Reserve
<1>3. Alive' = Alive \cup {u}
  BY <1>2 DEF Alive, IInv, TypeOK
<1>4. BytesOf(Alive)' = BytesOf(Alive \cup {u})
  BY <1>3 DEF BytesOf
<1>5. BytesOf({u}) = Bytes[u]
  BY DEF BytesOf
<1>6. Cardinality(BytesOf(Alive \cup {u})) = Cardinality(BytesOf(Alive)) + Size(u)
  BY <1>1, <1>5, BytesAdd DEF Size
<1>7. Size(u) \in Nat /\ resident \in Nat
  BY <1>5, BytesFinite DEF Size, IInv, TypeOK
<1>8. resident' = resident + Size(u) /\ resident + Size(u) <= Capacity
  BY <1>7, BoundsAssumption DEF Reserve, Fits, Exchange
<1>9. BudgetExact' /\ WithinCapacity'
  BY <1>4, <1>6, <1>8 DEF BudgetExact, WithinCapacity, IInv
<1>10. TypeOK'
  <2>1. expires' = [expires EXCEPT ![u] = now + Lifetime] /\ now + Lifetime \in Nat
    BY BoundsAssumption DEF Reserve, IInv, TypeOK
  <2>2. expires' \in [Uploads -> Nat]
    BY <2>1 DEF IInv, TypeOK
  <2>3. refs' \in [Uploads -> SUBSET Owners]
    BY <1>2 DEF IInv, TypeOK, Owners
  <2>4. adding' \in [Uploads -> AddSteps] /\ UNCHANGED <<now, observed, request>>
    BY DEF Reserve, At, IInv, TypeOK, AddSteps
  <2>. QED  BY <2>2, <2>3, <2>4, <1>7, <1>8 DEF IInv, TypeOK
<1>11. NothingBeforeReserve'
  BY <1>2 DEF NothingBeforeReserve, IInv, Reserve, At, TypeOK
<1>12. HandlerHolds'
  BY <1>2 DEF HandlerHolds, IInv, Reserve, At, TypeOK
<1>. QED  BY <1>9, <1>10, <1>11, <1>12 DEF IInv

\* Giving up owners keeps NothingBeforeReserve, whoever they were.
LEMMA SetRefsKeepsIInv ==
    ASSUME IInv, NEW new \in [Uploads -> SUBSET Owners], SetRefs(new),
           \A u \in Uploads : refs[u] = {} => new[u] = {}
    PROVE  /\ refs' \in [Uploads -> SUBSET Owners]
           /\ resident' \in Nat
           /\ BudgetExact' /\ WithinCapacity'
           /\ \A u \in Uploads : refs[u] = {} => refs'[u] = {}
           /\ refs' = new
BY SetRefsKeepsBudget DEF IInv, SetRefs

\* A second owner of a reserved payload costs nothing.
LEMMA InsertKeepsIInv ==
    ASSUME IInv, NEW u \in Uploads, adding[u] = "reserved",
           refs' = [refs EXCEPT ![u] = refs[u] \cup {Store}],
           adding' = [adding EXCEPT ![u] = "stored"],
           UNCHANGED <<now, resident, expires, observed, request>>
    PROVE  IInv'
<1>1. refs[u] # {}
  BY DEF IInv, HandlerHolds
<1>2. Alive' = Alive
  BY <1>1 DEF Alive, IInv, TypeOK
<1>3. BudgetExact' /\ WithinCapacity'
  BY <1>2 DEF IInv, BudgetExact, WithinCapacity, BytesOf
<1>4. TypeOK'
  BY DEF IInv, TypeOK, Owners, AddSteps
<1>5. NothingBeforeReserve'
  BY DEF IInv, NothingBeforeReserve, TypeOK
<1>6. HandlerHolds'
  BY DEF IInv, HandlerHolds, TypeOK
<1>. QED  BY <1>3, <1>4, <1>5, <1>6 DEF IInv

\* Every step of an upload preserves the invariant.
LEMMA AddKeepsIInv ==
    ASSUME IInv, NEW u \in Uploads, Add(u)
    PROVE  IInv'
<1>. USE DEF At
<1>1. CASE Sweep(u)
  <2> DEFINE new == WithoutExpired(now)
  <2>1. /\ new \in [Uploads -> SUBSET Owners] /\ \A v \in Uploads : refs[v] = {} => new[v] = {}
        /\ \A v \in Uploads : Handler \in refs[v] => Handler \in new[v]
    BY SweepRefs DEF IInv
  <2>2. SetRefs(new)
    BY <1>1 DEF Sweep
  <2> HIDE DEF new
  <2>3. /\ refs' \in [Uploads -> SUBSET Owners] /\ resident' \in Nat
        /\ BudgetExact' /\ WithinCapacity'
        /\ \A v \in Uploads : refs[v] = {} => refs'[v] = {}
        /\ \A v \in Uploads : Handler \in refs[v] => Handler \in refs'[v]
    BY <2>1, <2>2, SetRefsKeepsIInv
  <2>4. adding[u] = "new" /\ adding' = [adding EXCEPT ![u] = "swept"]
        /\ UNCHANGED <<now, expires, observed, request>>
    BY <1>1 DEF Sweep
  <2>5. TypeOK'
    BY <2>3, <2>4 DEF IInv, TypeOK, AddSteps
  <2>6. NothingBeforeReserve'
    BY <2>3, <2>4 DEF IInv, TypeOK, NothingBeforeReserve
  <2>7. HandlerHolds'
    BY <2>3, <2>4 DEF IInv, TypeOK, HandlerHolds
  <2>. QED  BY <2>3, <2>5, <2>6, <2>7 DEF IInv
<1>2. CASE Load(u) \/ Refuse(u) \/ Reload(u)
  <2>1. /\ UNCHANGED <<now, resident, refs, expires, request>>
        /\ adding' \in [Uploads -> AddSteps] /\ observed' \in [Uploads -> Nat]
    BY <1>2 DEF Load, Refuse, Reload, IInv, TypeOK, AddSteps
  <2>2. BudgetExact' /\ WithinCapacity'
    BY <2>1 DEF IInv, BudgetExact, WithinCapacity, Alive, BytesOf
  <2>3. NothingBeforeReserve'
    BY <1>2, <2>1 DEF Load, Refuse, Reload, IInv, TypeOK, NothingBeforeReserve
  <2>4. HandlerHolds'
    BY <1>2, <2>1 DEF Load, Refuse, Reload, IInv, TypeOK, HandlerHolds
  <2>. QED  BY <2>1, <2>2, <2>3, <2>4 DEF IInv, TypeOK
<1>3. CASE Reserve(u)
  BY <1>3, ReserveKeepsIInv
<1>4. CASE Insert(u)
  <2>1. refs' = [refs EXCEPT ![u] = refs[u] \cup {Store}]
        /\ adding[u] = "reserved" /\ adding' = [adding EXCEPT ![u] = "stored"]
        /\ UNCHANGED <<now, resident, expires, observed, request>>
    BY <1>4 DEF Insert
  <2>. QED  BY <2>1, InsertKeepsIInv
<1>5. CASE NoIdentifier(u) \/ Answer(u)
  <2> DEFINE new == [refs EXCEPT ![u] = @ \ {Handler}]
  <2>1. /\ new \in [Uploads -> SUBSET Owners] /\ \A v \in Uploads : refs[v] = {} => new[v] = {}
        /\ \A v \in Uploads \ {u} : new[v] = refs[v]
    BY DEF IInv, TypeOK
  <2>2. SetRefs(new)
    BY <1>5 DEF NoIdentifier, Answer
  <2> HIDE DEF new
  <2>3. /\ refs' \in [Uploads -> SUBSET Owners] /\ resident' \in Nat
        /\ BudgetExact' /\ WithinCapacity'
        /\ \A v \in Uploads : refs[v] = {} => refs'[v] = {}
        /\ \A v \in Uploads \ {u} : refs'[v] = refs[v]
    BY <2>1, <2>2, SetRefsKeepsIInv
  <2>4. \/ adding' = [adding EXCEPT ![u] = "refused"]
        \/ adding' = [adding EXCEPT ![u] = "done"]
    BY <1>5 DEF NoIdentifier, Answer
  <2>5. UNCHANGED <<now, expires, observed, request>>
    BY <1>5 DEF NoIdentifier, Answer
  <2>6. TypeOK'
    BY <2>3, <2>4, <2>5 DEF IInv, TypeOK, AddSteps
  <2>7. NothingBeforeReserve'
    BY <2>3, <2>4 DEF IInv, TypeOK, NothingBeforeReserve
  <2>8. HandlerHolds'
    BY <2>3, <2>4 DEF IInv, TypeOK, HandlerHolds
  <2>. QED  BY <2>3, <2>6, <2>7, <2>8 DEF IInv
<1>. QED  BY <1>1, <1>2, <1>3, <1>4, <1>5 DEF Add

\* A job's resolution shares stored payloads; nothing is stored twice.
LEMMA RequestsKeepIInv ==
    ASSUME IInv, NEW j \in Jobs, Resolve(j) \/ Reject(j) \/ EndJob(j)
    PROVE  IInv'
<1> DEFINE swept == WithoutExpired(ResolvedAsOf(j))
           shared == [u \in Uploads |-> IF u \in request[j].ids
                                        THEN refs[u] \cup {j} ELSE swept[u]]
           ended == [u \in Uploads |-> refs[u] \ {j}]
<1>1. /\ swept \in [Uploads -> SUBSET Owners] /\ \A u \in Uploads : swept[u] \subseteq refs[u]
      /\ \A u \in Uploads : Handler \in refs[u] => Handler \in swept[u]
  BY SweepRefs DEF IInv
<1>2. PICK new \in [Uploads -> SUBSET Owners] :
          /\ SetRefs(new)
          /\ \A u \in Uploads : refs[u] = {} => new[u] = {}
          /\ \A u \in Uploads : Handler \in refs[u] => Handler \in new[u]
  <2>1. CASE Resolve(j)
    <3>1. SetRefs(shared) /\ Resolvable(j)
      BY <2>1 DEF Resolve
    <3>2. \A u \in request[j].ids : u \in Uploads /\ refs[u] # {}
      BY <3>1 DEF Resolvable, Entries
    <3>3. shared \in [Uploads -> SUBSET Owners]
      <4> HIDE DEF swept
      <4>. QED  BY <1>1 DEF IInv, TypeOK, Owners
    <3>4. \A u \in Uploads : refs[u] = {} => shared[u] = {}
      <4> HIDE DEF swept
      <4>. QED  BY <1>1, <3>2
    <3>5. \A u \in Uploads : Handler \in refs[u] => Handler \in shared[u]
      <4> HIDE DEF swept
      <4>. QED  BY <1>1
    <3>. QED  BY <3>1, <3>3, <3>4, <3>5
  <2>2. CASE Reject(j)
    <3>1. SetRefs(swept)
      BY <2>2 DEF Reject
    <3>. QED  BY <1>1, <3>1
  <2>3. CASE EndJob(j)
    <3>1. SetRefs(ended)
      BY <2>3 DEF EndJob
    <3>2. ended \in [Uploads -> SUBSET Owners]
      BY DEF IInv, TypeOK
    <3>3. /\ \A u \in Uploads : refs[u] = {} => ended[u] = {}
          /\ \A u \in Uploads : Handler \in refs[u] => Handler \in ended[u]
      BY OwnersAssumption
    <3> HIDE DEF ended
    <3>. QED  BY <3>1, <3>2, <3>3
  <2>. QED  BY <2>1, <2>2, <2>3
<1> HIDE DEF swept, shared, ended
<1>3. /\ refs' \in [Uploads -> SUBSET Owners] /\ resident' \in Nat
      /\ BudgetExact' /\ WithinCapacity'
      /\ \A u \in Uploads : refs[u] = {} => refs'[u] = {}
      /\ \A u \in Uploads : Handler \in refs[u] => Handler \in refs'[u]
  BY <1>2, SetRefsKeepsIInv
<1>4. UNCHANGED <<now, expires, adding, observed>>
  BY DEF Resolve, Reject, EndJob
<1>5. request' \in [Jobs -> Requests]
  <2>1. request[j].ids \in SUBSET Uploads /\ request[j].asOf \in 0..MaxTime
    BY DEF IInv, TypeOK, Requests
  <2>2. \E state \in {"holding", "rejected", "ended"} :
          request' = [request EXCEPT ![j] = [ids |-> request[j].ids, asOf |-> request[j].asOf,
                                             state |-> state]]
    BY DEF Resolve, Reject, EndJob, RequestAt
  <2>. QED  BY <2>1, <2>2 DEF IInv, TypeOK, Requests
<1>6. TypeOK'
  BY <1>3, <1>4, <1>5 DEF IInv, TypeOK
<1>7. NothingBeforeReserve'
  BY <1>3, <1>4 DEF IInv, NothingBeforeReserve
<1>8. HandlerHolds'
  BY <1>3, <1>4 DEF IInv, HandlerHolds
<1>. QED  BY <1>3, <1>6, <1>7, <1>8 DEF IInv

\* Deleting an id takes the store's share only.
LEMMA EraseKeepsIInv ==
    ASSUME IInv, NEW u \in Uploads, Erase(u)
    PROVE  IInv'
<1> DEFINE swept == WithoutExpired(now)
           new == [v \in Uploads |-> IF v = u THEN refs[v] \ {Store} ELSE swept[v]]
<1>1. /\ swept \in [Uploads -> SUBSET Owners] /\ \A v \in Uploads : swept[v] \subseteq refs[v]
      /\ \A v \in Uploads : Handler \in refs[v] => Handler \in swept[v]
  BY SweepRefs DEF IInv
<1>2. SetRefs(new) /\ UNCHANGED <<now, expires, adding, observed, request>>
  BY DEF Erase
<1> HIDE DEF swept
<1>3. /\ new \in [Uploads -> SUBSET Owners] /\ \A v \in Uploads : refs[v] = {} => new[v] = {}
      /\ \A v \in Uploads : Handler \in refs[v] => Handler \in new[v]
  BY <1>1, OwnersAssumption DEF IInv, TypeOK
<1> HIDE DEF new
<1>4. /\ refs' \in [Uploads -> SUBSET Owners] /\ resident' \in Nat
      /\ BudgetExact' /\ WithinCapacity'
      /\ \A v \in Uploads : refs[v] = {} => refs'[v] = {}
      /\ \A v \in Uploads : Handler \in refs[v] => Handler \in refs'[v]
  BY <1>2, <1>3, SetRefsKeepsIInv
<1>5. TypeOK'
  BY <1>2, <1>4 DEF IInv, TypeOK
<1>. QED  BY <1>2, <1>4, <1>5 DEF IInv, NothingBeforeReserve, HandlerHolds

\* The invariant is inductive.
LEMMA IInvStep == IInv /\ [Next]_vars => IInv'
<1>. SUFFICES ASSUME IInv, [Next]_vars PROVE IInv'
  OBVIOUS
<1>1. ASSUME NEW u \in Uploads, Add(u) PROVE IInv'
  BY <1>1, AddKeepsIInv
<1>2. ASSUME NEW u \in Uploads, Erase(u) PROVE IInv'
  BY <1>2, EraseKeepsIInv
<1>3. ASSUME NEW j \in Jobs, Resolve(j) \/ Reject(j) \/ EndJob(j) PROVE IInv'
  BY <1>3, RequestsKeepIInv
<1>4. ASSUME NEW j \in Jobs, NEW ids \in SUBSET Uploads, AskResolve(j, ids) PROVE IInv'
  <2>1. request' \in [Jobs -> Requests] /\ UNCHANGED <<now, resident, refs, expires, adding, observed>>
    BY <1>4 DEF AskResolve, IInv, TypeOK, Requests
  <2>. QED  BY <2>1 DEF IInv, TypeOK, BudgetExact, WithinCapacity, NothingBeforeReserve,
                        HandlerHolds, Alive, BytesOf
<1>5. CASE Tick
  <2>1. now' \in 0..MaxTime /\ UNCHANGED <<resident, refs, expires, adding, observed, request>>
    BY <1>5, BoundsAssumption DEF Tick, IInv, TypeOK
  <2>. QED  BY <2>1 DEF IInv, TypeOK, BudgetExact, WithinCapacity, NothingBeforeReserve,
                        HandlerHolds, Alive, BytesOf
<1>6. CASE UNCHANGED vars
  BY <1>6 DEF vars, IInv, TypeOK, BudgetExact, WithinCapacity, NothingBeforeReserve,
              HandlerHolds, Alive, BytesOf
<1>. QED  BY <1>1, <1>2, <1>3, <1>4, <1>5, <1>6 DEF Next

\* The invariant holds in every reachable state.
LEMMA Invariance == Spec => []IInv
BY IInvInit, IInvStep, PTL DEF Spec

\* Every variable of the stores keeps its type; the budget never underflows.
THEOREM TypeCorrect == Spec => []TypeOK
<1>1. IInv => TypeOK
  BY DEF IInv
<1>. QED  BY <1>1, Invariance, PTL

\* The budget is exactly the bytes of the payloads that still have an owner.
LEMMA BudgetIsExact == Spec => []BudgetExact
<1>1. IInv => BudgetExact
  BY DEF IInv
<1>. QED  BY <1>1, Invariance, PTL

\* Concurrent reservations never exceed the configured capacity.
LEMMA CapacityIsKept == Spec => []WithinCapacity
<1>1. IInv => WithinCapacity
  BY DEF IInv
<1>. QED  BY <1>1, Invariance, PTL

\* Both: what add checks against the budget is what the stores, the handlers and
\* the jobs really hold, and it stays within the capacity.
THEOREM BudgetIsKept == Spec => []BytesWithinBudget
BY BudgetIsExact, CapacityIsKept, PTL DEF BytesWithinBudget

\* Erasing, expiring and answering never touch what a job owns.
LEMMA JobsOwnStep ==
    ASSUME IInv, JobsOwnWhatTheyResolved, [Next]_vars
    PROVE  JobsOwnWhatTheyResolved'
<1> DEFINE owned(j) == {u \in Uploads : j \in refs[u]}
<1>0. TypeOK
  BY DEF IInv
<1>1. ASSUME UNCHANGED request,
             \A u \in Uploads : \A j \in Jobs : j \in refs'[u] <=> j \in refs[u]
      PROVE  JobsOwnWhatTheyResolved'
  BY <1>1 DEF JobsOwnWhatTheyResolved
<1>2. ASSUME NEW time, NEW u \in Uploads, NEW j \in Jobs
      PROVE  j \in WithoutExpired(time)[u] <=> j \in refs[u]
  BY OwnersAssumption DEF WithoutExpired
<1>3. ASSUME NEW u \in Uploads, Add(u) PROVE JobsOwnWhatTheyResolved'
  <2>1. UNCHANGED request
    BY <1>3 DEF Add, Sweep, Load, Refuse, Reserve, Reload, Insert, NoIdentifier, Answer
  <2>2. CASE Sweep(u)
    <3>1. refs' = WithoutExpired(now)
      BY <2>2 DEF Sweep, SetRefs
    <3>. QED  BY <3>1, <2>1, <1>1, <1>2
  <2>3. CASE Load(u) \/ Refuse(u) \/ Reload(u)
    BY <2>3, <2>1, <1>1 DEF Load, Refuse, Reload
  <2>4. CASE Reserve(u)
    <3>1. refs[u] = {} /\ refs' = [refs EXCEPT ![u] = {Handler}]
      BY <2>4 DEF IInv, NothingBeforeReserve, Reserve
    <3>. QED  BY <3>1, <2>1, <1>0, <1>1, OwnersAssumption DEF TypeOK
  <2>5. CASE Insert(u) \/ NoIdentifier(u) \/ Answer(u)
    <3>1. \/ refs' = [refs EXCEPT ![u] = refs[u] \cup {Store}]
          \/ refs' = [refs EXCEPT ![u] = refs[u] \ {Handler}]
      BY <2>5 DEF Insert, NoIdentifier, Answer, SetRefs
    <3>. QED  BY <3>1, <2>1, <1>0, <1>1, OwnersAssumption DEF TypeOK
  <2>. QED  BY <1>3, <2>2, <2>3, <2>4, <2>5 DEF Add
<1>4. ASSUME NEW u \in Uploads, Erase(u) PROVE JobsOwnWhatTheyResolved'
  <2>1. refs' = [v \in Uploads |-> IF v = u THEN refs[v] \ {Store} ELSE WithoutExpired(now)[v]]
        /\ UNCHANGED request
    BY <1>4 DEF Erase, SetRefs
  <2>. QED  BY <2>1, <1>1, <1>2, OwnersAssumption
<1>5. ASSUME NEW j \in Jobs, Resolve(j) PROVE JobsOwnWhatTheyResolved'
  <2> DEFINE swept == WithoutExpired(ResolvedAsOf(j))
  <2>1. /\ request[j].state = "waiting"
        /\ refs' = [u \in Uploads |-> IF u \in request[j].ids THEN refs[u] \cup {j} ELSE swept[u]]
        /\ request' = [request EXCEPT ![j] = [ids |-> request[j].ids, asOf |-> request[j].asOf,
                                             state |-> "holding"]]
        /\ request[j].ids \subseteq Uploads
    BY <1>5 DEF Resolve, SetRefs, RequestAt, Resolvable, Entries
  <2>2. \A u \in Uploads : \A k \in Jobs : k \in swept[u] <=> k \in refs[u]
    BY <1>2
  <2> HIDE DEF swept
  <2>3. \A k \in Jobs \ {j} : owned(k)' = owned(k) /\ request'[k] = request[k]
    BY <2>1, <2>2, <1>0 DEF TypeOK
  <2>4. owned(j) = {}
    BY <2>1 DEF JobsOwnWhatTheyResolved
  <2>5. owned(j)' = request[j].ids
    BY <2>1, <2>2, <2>4
  <2>6. request'[j].ids = request[j].ids /\ request'[j].state = "holding"
    BY <2>1, <1>0 DEF TypeOK
  <2>. QED  BY <2>3, <2>5, <2>6 DEF JobsOwnWhatTheyResolved
<1>6. ASSUME NEW j \in Jobs, Reject(j) PROVE JobsOwnWhatTheyResolved'
  <2>1. /\ request[j].state = "waiting"
        /\ refs' = WithoutExpired(ResolvedAsOf(j))
        /\ request' = [request EXCEPT ![j] = [ids |-> request[j].ids, asOf |-> request[j].asOf,
                                             state |-> "rejected"]]
    BY <1>6 DEF Reject, SetRefs, RequestAt
  <2>2. \A k \in Jobs : owned(k)' = owned(k)
    BY <2>1, <1>2
  <2>3. \A k \in Jobs \ {j} : request'[k] = request[k]
    BY <2>1, <1>0 DEF TypeOK
  <2>4. request'[j].state = "rejected"
    BY <2>1, <1>0 DEF TypeOK
  <2>5. owned(j) = {}
    BY <2>1 DEF JobsOwnWhatTheyResolved
  <2>. QED  BY <2>2, <2>3, <2>4, <2>5 DEF JobsOwnWhatTheyResolved
<1>7. ASSUME NEW j \in Jobs, EndJob(j) PROVE JobsOwnWhatTheyResolved'
  <2>1. /\ refs' = [u \in Uploads |-> refs[u] \ {j}]
        /\ request' = [request EXCEPT ![j] = [ids |-> request[j].ids, asOf |-> request[j].asOf,
                                             state |-> "ended"]]
    BY <1>7 DEF EndJob, SetRefs, RequestAt
  <2>2. \A k \in Jobs \ {j} : owned(k)' = owned(k) /\ request'[k] = request[k]
    BY <2>1, <1>0 DEF TypeOK
  <2>3. owned(j)' = {} /\ request'[j].state = "ended"
    BY <2>1, <1>0 DEF TypeOK
  <2>. QED  BY <2>2, <2>3 DEF JobsOwnWhatTheyResolved
<1>8. ASSUME NEW j \in Jobs, NEW ids \in SUBSET Uploads, AskResolve(j, ids)
      PROVE  JobsOwnWhatTheyResolved'
  <2>1. /\ request[j].state = "idle" /\ UNCHANGED refs
        /\ request' = [request EXCEPT ![j] = [ids |-> ids, asOf |-> now, state |-> "waiting"]]
    BY <1>8 DEF AskResolve
  <2>2. \A k \in Jobs : owned(k)' = owned(k)
    BY <2>1
  <2>3. \A k \in Jobs \ {j} : request'[k] = request[k]
    BY <2>1, <1>0 DEF TypeOK
  <2>4. request'[j].state = "waiting" /\ owned(j) = {}
    BY <2>1, <1>0 DEF TypeOK, JobsOwnWhatTheyResolved
  <2>. QED  BY <2>2, <2>3, <2>4 DEF JobsOwnWhatTheyResolved
<1>9. CASE Tick \/ UNCHANGED vars
  BY <1>9, <1>1 DEF Tick, vars
<1>. QED  BY <1>3, <1>4, <1>5, <1>6, <1>7, <1>8, <1>9 DEF Next

\* A job owns what it resolved until it ends, and nothing before or after.
THEOREM JobsKeepTheirInputs == Spec => []JobsOwnWhatTheyResolved
<1>1. Init => JobsOwnWhatTheyResolved
  BY DEF Init, JobsOwnWhatTheyResolved
<1>2. IInv /\ JobsOwnWhatTheyResolved /\ [Next]_vars => JobsOwnWhatTheyResolved'
  BY JobsOwnStep
<1>. QED  BY <1>1, <1>2, Invariance, PTL DEF Spec

\* A store that resolves under its lock never hands out what has expired.
THEOREM ExpiredAreRejected == OneLock /\ Spec => ExpiredRejected
<1>1. ASSUME OneLock, TypeOK, NEW j \in Jobs, Next,
             request[j].state = "waiting", request'[j].state = "holding"
      PROVE  \A u \in request[j].ids : expires[u] > now
  <2>1. Resolve(j)
    <3>1. ~UNCHANGED request
      BY <1>1
    <3>2. \A u \in Uploads : ~Add(u) /\ ~Erase(u)
      BY <3>1 DEF Add, Sweep, Load, Refuse, Reserve, Reload, Insert, NoIdentifier, Answer, Erase
    <3>3. \A k \in Jobs : Reject(k) \/ EndJob(k) => request'[j].state # "holding"
      BY <1>1 DEF Reject, EndJob, RequestAt, TypeOK
    <3>4. \A k \in Jobs : \A ids \in SUBSET Uploads : AskResolve(k, ids) => request'[j].state # "holding"
      BY <1>1 DEF AskResolve, TypeOK
    <3>5. \A k \in Jobs : Resolve(k) => k = j
      BY <1>1 DEF Resolve, RequestAt, TypeOK
    <3>6. ~Tick
      BY <3>1 DEF Tick
    <3>. QED  BY <1>1, <3>2, <3>3, <3>4, <3>5, <3>6 DEF Next
  <2>2. \A u \in request[j].ids : u \in Entries /\ u \notin Expired(now)
    BY <2>1, <1>1 DEF Resolve, Resolvable, ResolvedAsOf
  <2>3. \A u \in request[j].ids : expires[u] \in Nat /\ now \in Nat
    BY <2>2, <1>1, BoundsAssumption DEF Entries, TypeOK
  <2>. QED  BY <2>2, <2>3 DEF Expired
<1>2. OneLock /\ TypeOK /\ [Next]_vars =>
        [\A j \in Jobs : request[j].state = "waiting" /\ request'[j].state = "holding"
           => \A u \in request[j].ids : expires[u] > now]_vars
  BY <1>1
<1>3. ASSUME OneLock PROVE Spec => ExpiredRejected
  <2>1. OneLock
    BY <1>3
  <2>2. TypeOK /\ [Next]_vars =>
        [\A j \in Jobs : request[j].state = "waiting" /\ request'[j].state = "holding"
           => \A u \in request[j].ids : expires[u] > now]_vars
    BY <1>2, <2>1
  <2>. QED  BY <2>2, TypeCorrect, PTL DEF Spec, ExpiredRejected
<1>. QED  BY <1>3
=============================================================================
