------------------------------- MODULE SseFeed -------------------------------
(***************************************************************************)
(* The event stream of one job: its worker publishes to the bounded broker *)
(* and closes it after the terminal event, while the connections of GET    *)
(* .../events (server/router) read it, each at its own pace.               *)
(***************************************************************************)
EXTENDS EventBroker

CONSTANTS
    Readers,     \* connections
    Starts,      \* ids a client may send as Last-Event-ID; 0 stands for no header
    Sizes,       \* encoded sizes of the operation events
    MaxPublish   \* bound: operation events of the job

ASSUME FeedAssumption ==
    /\ Starts \subseteq Nat
    /\ Sizes \subseteq Nat \ {0}
    /\ MaxPublish \in Nat

VARIABLES
    broker,   \* job->events
    ended,    \* the worker has published the terminal event
    status,   \* reader -> "away", "reading", "expired", "complete" or "dropped"
    cursor,   \* reader -> the handler's cursor
    batch     \* reader -> what is still to be written of the last wait_after

vars == <<broker, ended, status, cursor, batch>>

Init ==
    /\ broker = NewBroker
    /\ ended = FALSE
    /\ status = [r \in Readers |-> "away"]
    /\ cursor = [r \in Readers |-> 0]
    /\ batch = [r \in Readers |-> <<>>]

-----------------------------------------------------------------------------
(* The worker *)

PublishProgress ==
    /\ ~ended /\ Latest(broker) < MaxPublish
    /\ \E size \in Sizes : broker' = Published(broker, size)
    /\ UNCHANGED <<ended, status, cursor, batch>>

\* The terminal event is a few bytes long, whatever became of the job.
PublishTerminal ==
    /\ ~ended
    /\ broker' = Published(broker, 1)
    /\ ended' = TRUE
    /\ UNCHANGED <<status, cursor, batch>>

CloseEvents ==
    /\ ended /\ ~broker.closed
    /\ broker' = Closed(broker)
    /\ UNCHANGED <<ended, status, cursor, batch>>

-----------------------------------------------------------------------------
(* A connection *)

\* The request: 410 when the cursor has been overtaken, a stream otherwise.
Connect(r) ==
    /\ status[r] = "away"
    /\ \E id \in Starts :
        LET initial == ReplayAfter(broker, id) IN
        /\ cursor' = [cursor EXCEPT ![r] = id]
        /\ status' = [status EXCEPT ![r] = IF initial.expired THEN "expired" ELSE "reading"]
    /\ UNCHANGED <<broker, ended, batch>>

\* Mutant of Wake: wait_after waits for events alone.
WakeForEvents(r) == broker.events # <<>> /\ Last(broker.events).id > cursor[r]

Wake(r) == Awaited(broker, cursor[r])

\* wait_after returns with something: the expiry, events, or the end.
Fetch(r) ==
    /\ status[r] = "reading" /\ batch[r] = <<>>
    /\ Wake(r)
    /\ LET got == ReplayAfter(broker, cursor[r]) IN
        /\ batch' = [batch EXCEPT ![r] = got.events]
        /\ status' = [status EXCEPT ![r] =
                         IF got.expired THEN "expired"
                         ELSE IF got.closed /\ got.events = <<>> THEN "complete" ELSE @]
    /\ UNCHANGED <<broker, ended, cursor>>

\* One record of the batch is written, and the cursor follows it.
Write(r) ==
    /\ status[r] = "reading" /\ batch[r] # <<>>
    /\ cursor' = [cursor EXCEPT ![r] = Head(batch[r]).id]
    /\ batch' = [batch EXCEPT ![r] = Tail(@)]
    /\ UNCHANGED <<broker, ended, status>>

\* A send fails or runs into its timeout; between batches it is a heartbeat's.
SendFails(r) ==
    /\ status[r] = "reading"
    /\ status' = [status EXCEPT ![r] = "dropped"]
    /\ batch' = [batch EXCEPT ![r] = <<>>]
    /\ UNCHANGED <<broker, ended, cursor>>

-----------------------------------------------------------------------------

Next ==
    \/ PublishProgress \/ PublishTerminal \/ CloseEvents
    \/ \E r \in Readers : Connect(r) \/ Fetch(r) \/ Write(r) \/ SendFails(r)

\* A connection thread that is not waiting runs, and a send that does not go
\* through fails in the end; nobody has to connect, and a job may run for ever.
Fairness ==
    \A r \in Readers : WF_vars(Fetch(r)) /\ WF_vars(Write(r) \/ (batch[r] # <<>> /\ SendFails(r)))

Spec == Init /\ [][Next]_vars /\ Fairness

-----------------------------------------------------------------------------
(* Properties *)

Events == [id : Nat \ {0}, size : Nat \ {0}]

\* The type of every variable; the log keeps to the event bound.
Types ==
    /\ broker.events \in Seq(Events) /\ Len(broker.events) <= MaxEvents
    /\ broker.next_id \in Nat \ {0}
    /\ broker.closed \in BOOLEAN
    /\ ended \in BOOLEAN
    /\ status \in [Readers -> {"away", "reading", "expired", "complete", "dropped"}]
    /\ cursor \in [Readers -> Nat]
    /\ batch \in [Readers -> Seq(Events)]

\* Types, and the bounds of the log: the running total of the bytes is that of
\* the retained events, whatever was evicted or cleared on the way, and within
\* its bound.
TypeOK ==
    /\ Types
    /\ broker.bytes = SizeOf(broker.events)
    /\ broker.bytes <= MaxBytes

Consecutive(events) == \A i \in DOMAIN events : events[i].id = events[1].id + (i - 1)

\* The log is the unbroken tail of what was published, or empty: the one
\* comparison of replay_locked with the front is enough to find a gap.
LogIsTail ==
    /\ Consecutive(broker.events)
    /\ broker.events # <<>> => Last(broker.events).id = Latest(broker)

\* publish pops no event it has room for: the last one that left when another
\* was logged would have exceeded the one bound or the other.
EvictsOnlyForRoom ==
    [][LET gone == Len(broker.events) + 1 - Len(broker'.events) IN
       broker'.next_id # broker.next_id /\ broker'.events # <<>> /\ gone > 0 =>
           \/ Len(broker'.events) + 1 > MaxEvents
           \/ broker'.bytes + broker.events[gone].size > MaxBytes]_vars

\* A batch in flight is a reader's, and continues its cursor.
BatchesContinue ==
    \A r \in Readers : batch[r] # <<>> =>
        /\ status[r] = "reading"
        /\ Consecutive(batch[r])
        /\ Last(batch[r]).id <= Latest(broker)
        /\ cursor[r] # 0 => Head(batch[r]).id = cursor[r] + 1

\* The close comes after a terminal event that is still retained.
EndRetained ==
    /\ broker.closed => ended
    /\ ended => broker.events # <<>>

\* The inductive invariant behind ImplementsFeed.
IInv == Types /\ LogIsTail /\ BatchesContinue /\ EndRetained

\* Every reader is given consecutive events, none twice, and learns of the
\* first one it cannot have; a stream that ends by itself is complete.
Feed == INSTANCE EventFeed WITH published <- Latest(broker), over <- broker.closed, at <- cursor
ImplementsFeed == Feed!Spec

\* Once the job has ended, no connection stays: each is completed, told of the
\* loss, or dropped.
StreamsEnd == \A r \in Readers : broker.closed /\ status[r] = "reading" ~> status[r] # "reading"

=============================================================================
