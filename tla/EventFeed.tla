------------------------------ MODULE EventFeed ------------------------------
(***************************************************************************)
(* What the event streams of the server promise a subscriber               *)
(* (docs/api.md "ordered retained events are replayed", docs/decisions.md  *)
(* "detects cursors overtaken by eviction ... close after the terminal     *)
(* event"): events are handed over in order, none twice and none left out  *)
(* silently; the reader is told when one was lost; and a stream that ends  *)
(* by itself has delivered everything.                                     *)
(***************************************************************************)
EXTENDS Integers

CONSTANT Readers

VARIABLES
    published,  \* events the producer has published: ids 1..published
    over,       \* the producer has closed the stream
    at,         \* reader -> id of the last event it has, 0 for none
    status      \* reader -> where its subscription is

vars == <<published, over, at, status>>

Statuses == {"away", "reading", "expired", "complete", "dropped"}

Init ==
    /\ published = 0
    /\ over = FALSE
    /\ at = [r \in Readers |-> 0]
    /\ status = [r \in Readers |-> "away"]

Publish ==
    /\ ~over
    /\ published' = published + 1
    /\ UNCHANGED <<over, at, status>>

Close ==
    /\ ~over
    /\ over' = TRUE
    /\ UNCHANGED <<published, at, status>>

\* A reader says which event it has seen last; 0 asks for what is retained.
Join(r) ==
    /\ status[r] = "away"
    /\ at'[r] \in Nat
    /\ at' = [at EXCEPT ![r] = at'[r]]
    /\ status' = [status EXCEPT ![r] = "reading"]
    /\ UNCHANGED <<published, over>>

\* The next event, or for a reader that named none, any one to begin with.
Deliver(r) ==
    /\ status[r] = "reading"
    /\ \E id \in 1..published :
        /\ id = at[r] + 1 \/ at[r] = 0
        /\ at' = [at EXCEPT ![r] = id]
    /\ UNCHANGED <<published, over, status>>

\* The reader is told that the event it needs next is lost.
Expire(r) ==
    /\ status[r] \in {"away", "reading"}
    /\ status[r] = "reading" => at' = at
    /\ at'[r] \in 1..(published - 1)
    /\ at' = [at EXCEPT ![r] = at'[r]]
    /\ status' = [status EXCEPT ![r] = "expired"]
    /\ UNCHANGED <<published, over>>

Finish(r) ==
    /\ status[r] = "reading"
    /\ over /\ at[r] >= published
    /\ status' = [status EXCEPT ![r] = "complete"]
    /\ UNCHANGED <<published, over, at>>

\* The connection breaks.
Drop(r) ==
    /\ status[r] = "reading"
    /\ status' = [status EXCEPT ![r] = "dropped"]
    /\ UNCHANGED <<published, over, at>>

Next ==
    \/ Publish \/ Close
    \/ \E r \in Readers : Join(r) \/ Deliver(r) \/ Expire(r) \/ Finish(r) \/ Drop(r)

Spec == Init /\ [][Next]_vars

=============================================================================
