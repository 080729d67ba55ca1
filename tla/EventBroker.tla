----------------------------- MODULE EventBroker -----------------------------
(***************************************************************************)
(* The bounded replay log of a job or session (server/event_broker), as    *)
(* operators on a record: the deque of retained events, their bytes, the   *)
(* next id and the closed flag.  An event is its id and its encoded size.  *)
(* Every method holds the broker's mutex, so the modules that use it take  *)
(* each call as one step.                                                  *)
(***************************************************************************)
EXTENDS Naturals, SequencesExt

CONSTANTS
    MaxEvents,  \* events_per_job
    MaxBytes    \* event_bytes_per_job

ASSUME BrokerAssumption == MaxEvents \in Nat \ {0} /\ MaxBytes \in Nat \ {0}

NewBroker == [events |-> <<>>, bytes |-> 0, next_id |-> 1, closed |-> FALSE]

Latest(b) == b.next_id - 1

SizeOf(events) ==
    LET upTo[k \in 0..Len(events)] == IF k = 0 THEN 0 ELSE upTo[k - 1] + events[k].size
    IN upTo[Len(events)]

\* The rest of the log once its k oldest events are gone.
Without(events, k) == SubSeq(events, k + 1, Len(events))

\* The log is still too full for the new event when k are gone.
Crowded(b, k, size) ==
    \/ Len(b.events) - k >= MaxEvents
    \/ SizeOf(Without(b.events, k)) + size > MaxBytes

\* How many times publish's loop pops the front.
Evicted(b, size) ==
    Cardinality({k \in 0..(Len(b.events) - 1) : \A l \in 0..k : Crowded(b, l, size)})

\* publish, which never looks at the closed flag.
Logged(b, size) ==
    LET gone == Evicted(b, size)
    IN [events  |-> Append(Without(b.events, gone), [id |-> b.next_id, size |-> size]),
        bytes   |-> b.bytes - SizeOf(SubSeq(b.events, 1, gone)) + size,
        next_id |-> b.next_id + 1,
        closed  |-> b.closed]

\* Mutants of Oversized: the log is left as it is; its bytes stay on the account.
OversizedKeepsLog(b) ==
    [events |-> b.events, bytes |-> b.bytes, next_id |-> b.next_id + 1, closed |-> b.closed]
OversizedKeepsBytes(b) ==
    [events |-> <<>>, bytes |-> b.bytes, next_id |-> b.next_id + 1, closed |-> b.closed]

\* An event that exceeds the byte bound on its own takes an id and clears the
\* log, but is not kept.
Oversized(b) == [events |-> <<>>, bytes |-> 0, next_id |-> b.next_id + 1, closed |-> b.closed]

Published(b, size) == IF size <= MaxBytes THEN Logged(b, size) ELSE Oversized(b)

Closed(b) ==
    [events |-> b.events, bytes |-> b.bytes, next_id |-> b.next_id, closed |-> TRUE]

\* Mutant of Overtaken: a gap of one event is let pass.
OvertakenByTwo(b, id) ==
    b.events # <<>> /\ id # 0 /\ id < Head(b.events).id /\ Head(b.events).id - id > 2

\* replay_locked: retention has passed the reader by.  Id 0 asks for whatever
\* is retained.
Overtaken(b, id) ==
    b.events # <<>> /\ id # 0 /\ id < Head(b.events).id /\ Head(b.events).id - id > 1

\* The retained events with a greater id.  Ids only grow along the log, so the
\* filter of the loop is a cut.
After(b, id) ==
    Without(b.events, Cardinality({i \in DOMAIN b.events : b.events[i].id <= id}))

ReplayAfter(b, id) ==
    [expired |-> Overtaken(b, id),
     closed  |-> b.closed,
     events  |-> IF Overtaken(b, id) THEN <<>> ELSE After(b, id)]

\* What wait_after waits for; it also comes back when its second is over.
Awaited(b, id) == b.closed \/ (b.events # <<>> /\ Last(b.events).id > id)

=============================================================================
