----------------------------- MODULE InputStore -----------------------------
(***************************************************************************)
(* The temporary upload stores of the server: ImageInputStore,             *)
(* ChatInputStore and VideoInputStore (server/*_input_store.cpp).          *)
(*                                                                         *)
(* A payload is a shared_ptr whose deleter gives its bytes back to the     *)
(* store's budget, so bytes stay counted while any owner is left: the      *)
(* handler that uploads it, the store's entry, or a job that resolved it.  *)
(* A payload is the set of its bytes (Bytes), an id stands for its upload. *)
(*                                                                         *)
(* The image and chat stores hold mutex_ for the sweep and again for the   *)
(* insertion and reserve the bytes in between, with a compare-and-swap on  *)
(* the budget; the video store holds mutex_ from the sweep to the end, so  *)
(* only one of its uploads is between Sweep and Insert at a time.          *)
(***************************************************************************)
EXTENDS Integers, FiniteSets

CONSTANTS Uploads, Jobs,
    Store, Handler,   \* owners other than jobs
    Bytes,            \* [Uploads -> finite sets], disjoint
    Capacity,         \* budget_->capacity
    JobLimit,         \* Limits::image_job_upload_bytes
    Lifetime,         \* lifetime_
    OneLock,          \* TRUE: VideoInputStore
    MaxTime           \* bound of the clock

ASSUME UploadsAssumption ==
    /\ IsFiniteSet(UNION {Bytes[u] : u \in Uploads})
    /\ \A u, v \in Uploads : u # v => Bytes[u] \cap Bytes[v] = {}
ASSUME BoundsAssumption ==
    /\ Capacity \in Nat /\ JobLimit \in Nat /\ MaxTime \in Nat
    /\ Lifetime \in Nat \ {0}
ASSUME OwnersAssumption ==
    Store # Handler /\ Store \notin Jobs /\ Handler \notin Jobs

VARIABLES
    now,       \* system_clock
    resident,  \* budget_->resident
    refs,      \* [Uploads -> owners of the payload]
    expires,   \* [Uploads -> expires_at of the entry]
    adding,    \* [Uploads -> where add() is]
    observed,  \* [Uploads -> the local `observed`]
    request    \* [Jobs -> the request a job is made from]

vars == <<now, resident, refs, expires, adding, observed, request>>

Owners == {Store, Handler} \cup Jobs
AddSteps == {"new", "swept", "loaded", "reserved", "stored", "done", "refused"}
Requests == [ids : SUBSET Uploads, asOf : 0..MaxTime,
             state : {"idle", "waiting", "holding", "ended", "rejected"}]

BytesOf(payloads) == UNION {Bytes[u] : u \in payloads}
Size(u) == Cardinality(Bytes[u])
Alive == {u \in Uploads : refs[u] # {}}
Entries == {u \in Uploads : Store \in refs[u]}

Init ==
    /\ now = 0
    /\ resident = 0
    /\ refs = [u \in Uploads |-> {}]
    /\ expires = [u \in Uploads |-> 0]
    /\ adding = [u \in Uploads |-> "new"]
    /\ observed = [u \in Uploads |-> 0]
    /\ request = [j \in Jobs |-> [ids |-> {}, asOf |-> 0, state |-> "idle"]]

-----------------------------------------------------------------------------
(* Owners come and go; the deleter runs with the last one. *)

\* Mutant of Freed: every owner that goes returns the bytes.
FreedByEveryOwner(new) == {u \in Alive : new[u] # refs[u]}

Freed(new) == {u \in Alive : new[u] = {}}

SetRefs(new) ==
    /\ refs' = new
    /\ resident' = resident - Cardinality(BytesOf(Freed(new)))

Expired(time) == {u \in Entries : expires[u] <= time}

\* Mutant of WithoutExpired: the sweep destroys the payload, whoever uses it.
WithoutExpiredForAll(time) ==
    [u \in Uploads |-> IF u \in Expired(time) THEN {} ELSE refs[u]]

(* erase_expired_locked: the entries that are over give up their payloads. *)
WithoutExpired(time) ==
    [u \in Uploads |-> IF u \in Expired(time) THEN refs[u] \ {Store} ELSE refs[u]]

-----------------------------------------------------------------------------
(* add(), by the connection worker that received upload u *)

LockFree == OneLock => \A v \in Uploads : adding[v] \notin {"swept", "loaded", "reserved"}

At(u, step) == adding' = [adding EXCEPT ![u] = step]

Sweep(u) ==
    /\ adding[u] = "new"
    /\ LockFree
    /\ SetRefs(WithoutExpired(now))
    /\ At(u, "swept")
    /\ UNCHANGED <<now, expires, observed, request>>

Load(u) ==
    /\ adding[u] = "swept"
    /\ observed' = [observed EXCEPT ![u] = resident]
    /\ At(u, "loaded")
    /\ UNCHANGED <<now, resident, refs, expires, request>>

Fits(u) == observed[u] <= Capacity /\ Size(u) <= Capacity - observed[u]

Refuse(u) ==
    /\ adding[u] = "loaded"
    /\ ~Fits(u)
    /\ At(u, "refused")
    /\ UNCHANGED <<now, resident, refs, expires, observed, request>>

\* Mutant of Exchange: an addition to the value read before.
ExchangeAlways(u) == TRUE

(* The exchange succeeds only on the value that was checked. *)
Exchange(u) == resident = observed[u]

Reserve(u) ==
    /\ adding[u] = "loaded"
    /\ Fits(u)
    /\ Exchange(u)
    /\ resident' = observed[u] + Size(u)
    /\ refs' = [refs EXCEPT ![u] = {Handler}]
    /\ expires' = [expires EXCEPT ![u] = now + Lifetime]
    /\ At(u, "reserved")
    /\ UNCHANGED <<now, observed, request>>

\* Mutant of Reload: the loop keeps the value it has lost.
ReloadStale(u) ==
    /\ adding[u] = "loaded"
    /\ Fits(u)
    /\ resident # observed[u]
    /\ UNCHANGED vars

Reload(u) ==
    /\ adding[u] = "loaded"
    /\ Fits(u)
    /\ resident # observed[u]
    /\ observed' = [observed EXCEPT ![u] = resident]
    /\ UNCHANGED <<now, resident, refs, expires, adding, request>>

Insert(u) ==
    /\ adding[u] = "reserved"
    /\ refs' = [refs EXCEPT ![u] = @ \cup {Store}]
    /\ At(u, "stored")
    /\ UNCHANGED <<now, resident, expires, observed, request>>

(* No random bytes, or eight ids that are all taken: the payload is dropped. *)
NoIdentifier(u) ==
    /\ adding[u] = "reserved"
    /\ SetRefs([refs EXCEPT ![u] = @ \ {Handler}])
    /\ At(u, "refused")
    /\ UNCHANGED <<now, expires, observed, request>>

(* The handler has answered and drops its StoredImageInput. *)
Answer(u) ==
    /\ adding[u] = "stored"
    /\ SetRefs([refs EXCEPT ![u] = @ \ {Handler}])
    /\ At(u, "done")
    /\ UNCHANGED <<now, expires, observed, request>>

Add(u) ==
    \/ Sweep(u) \/ Load(u) \/ Refuse(u) \/ Reserve(u) \/ Reload(u)
    \/ Insert(u) \/ NoIdentifier(u) \/ Answer(u)

-----------------------------------------------------------------------------
(* resolve(), erase() and the end of a job *)

(* The image and chat stores read the clock before they take mutex_. *)
AskResolve(j, ids) ==
    /\ request[j].state = "idle"
    /\ request' = [request EXCEPT ![j] = [ids |-> ids, asOf |-> now, state |-> "waiting"]]
    /\ UNCHANGED <<now, resident, refs, expires, adding, observed>>

ResolvedAsOf(j) == IF OneLock THEN now ELSE request[j].asOf

Resolvable(j) ==
    /\ request[j].ids \subseteq Entries \ Expired(ResolvedAsOf(j))
    /\ Cardinality(BytesOf(request[j].ids)) <= JobLimit

RequestAt(j, state) ==
    request' = [request EXCEPT ![j] = [ids |-> @.ids, asOf |-> @.asOf, state |-> state]]

Resolve(j) ==
    /\ request[j].state = "waiting"
    /\ LockFree
    /\ Resolvable(j)
    /\ SetRefs([u \in Uploads |-> IF u \in request[j].ids
                                  THEN refs[u] \cup {j}
                                  ELSE WithoutExpired(ResolvedAsOf(j))[u]])
    /\ RequestAt(j, "holding")
    /\ UNCHANGED <<now, expires, adding, observed>>

(* All or nothing: what was copied before the first bad id is dropped. *)
Reject(j) ==
    /\ request[j].state = "waiting"
    /\ LockFree
    /\ ~Resolvable(j)
    /\ SetRefs(WithoutExpired(ResolvedAsOf(j)))
    /\ RequestAt(j, "rejected")
    /\ UNCHANGED <<now, expires, adding, observed>>

(* run_image_job returns and its request is destroyed. *)
EndJob(j) ==
    /\ request[j].state = "holding"
    /\ SetRefs([u \in Uploads |-> refs[u] \ {j}])
    /\ RequestAt(j, "ended")
    /\ UNCHANGED <<now, expires, adding, observed>>

Erase(u) ==
    /\ adding[u] \in {"stored", "done"}
    /\ LockFree
    /\ SetRefs([v \in Uploads |-> IF v = u THEN refs[v] \ {Store}
                                  ELSE WithoutExpired(now)[v]])
    /\ UNCHANGED <<now, expires, adding, observed, request>>

Tick ==
    /\ now < MaxTime
    /\ now' = now + 1
    /\ UNCHANGED <<resident, refs, expires, adding, observed, request>>

Next ==
    \/ \E u \in Uploads : Add(u) \/ Erase(u)
    \/ \E j \in Jobs : Resolve(j) \/ Reject(j) \/ EndJob(j)
                       \/ \E ids \in SUBSET Uploads : AskResolve(j, ids)
    \/ Tick

Spec == Init /\ [][Next]_vars

(* A worker that runs add() is scheduled until it answers. *)
FairSpec == Spec /\ \A u \in Uploads : WF_vars(Add(u))

-----------------------------------------------------------------------------
TypeOK ==
    /\ now \in 0..MaxTime
    /\ resident \in Nat
    /\ refs \in [Uploads -> SUBSET Owners]
    /\ expires \in [Uploads -> Nat]
    /\ adding \in [Uploads -> AddSteps]
    /\ observed \in [Uploads -> Nat]
    /\ request \in [Jobs -> Requests]

(* The budget counts exactly the payloads somebody still owns: no byte is   *)
(* lost when an upload fails, an entry is erased while a job uses it, or    *)
(* two handlers reserve at once, and none is given back twice.              *)
BudgetExact == resident = Cardinality(BytesOf(Alive))

(* Uploads held by the store, by handlers and by jobs never pass the        *)
(* configured capacity together, however their reservations interleave.     *)
WithinCapacity == Cardinality(BytesOf(Alive)) <= Capacity

(* Both: what add checks against the budget is what is really held.          *)
BytesWithinBudget == BudgetExact /\ WithinCapacity

(* A job keeps the bytes it resolved until it ends, whatever is erased or   *)
(* expires meanwhile; and a job that was rejected or has ended keeps none.  *)
JobsOwnWhatTheyResolved ==
    \A j \in Jobs : {u \in Uploads : j \in refs[u]}
                    = IF request[j].state = "holding" THEN request[j].ids ELSE {}

(* A request that names an input already over is rejected, even if it was   *)
(* not yet over when the request came in and had to wait for mutex_.        *)
ExpiredRejected ==
    [][\A j \in Jobs : request[j].state = "waiting" /\ request'[j].state = "holding"
          => \A u \in request[j].ids : expires[u] > now]_vars

(* Every upload is answered: the exchange loop does not spin for ever on a  *)
(* value it has already lost.                                               *)
UploadsAnswered ==
    \A u \in Uploads : adding[u] = "swept" ~> adding[u] \in {"done", "refused"}

=============================================================================
