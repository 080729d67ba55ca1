----------------------------- MODULE ChatService -----------------------------
(***************************************************************************)
(* The chat threads of the control API (server/chat_service.cpp), as one   *)
(* browser uses them.  The browser knows of a thread the revision of the   *)
(* last answer it got; the server compares it with the store's under the   *)
(* transaction that writes.                                                *)
(***************************************************************************)
EXTENDS ThreadStore

CONSTANTS
    MaxRequests   \* bound: requests of the browser

VARIABLES
    web_revision, \* [ThreadIds -> revision the browser holds, 0 for none]
    web_seen,     \* history: [ThreadIds -> turns the browser was shown]
    web_wrote,    \* history: [ThreadIds -> revision of its last write, or 0]
    requests,     \* number of requests so far
    cleaning      \* ids cleanup_empty selected and has yet to delete

webVars == <<web_revision, web_seen, web_wrote, requests, cleaning>>

\* The browser's own texts count downwards: none is of a turn of a terminal.
WebTurn == -(requests + 1)

TurnsOf(messages) == {messages[i].turn : i \in DOMAIN messages}

\* The browser has opened every thread the store holds.
WebInit ==
    /\ web_revision = [t \in ThreadIds |-> threads[t].revision]
    /\ web_seen = [t \in ThreadIds |-> TurnsOf(threads[t].messages)]
    /\ web_wrote = [t \in ThreadIds |-> 0]
    /\ requests = 0
    /\ cleaning = {}

\* ChatService::mutex_ is held for the whole of a request.
Served == cleaning = {}

\* Every answer to a write carries the new revision.
Wrote(t) ==
    /\ web_revision' = [web_revision EXCEPT ![t] = threads'[t].revision]
    /\ web_wrote' = [web_wrote EXCEPT ![t] = threads'[t].revision]

\* load: the browser opens a thread or reloads it after a conflict.
WebLoad(t) ==
    /\ Served /\ Live(t)
    /\ web_revision' = [web_revision EXCEPT ![t] = threads[t].revision]
    /\ web_seen' = [web_seen EXCEPT ![t] = @ \cup TurnsOf(threads[t].messages)]
    /\ UNCHANGED <<threads, web_wrote, cleaning>>

\* create: a row without messages, for no conversation of a terminal.
WebCreate ==
    /\ Served /\ CanSave(Fresh(0))
    /\ threads' = SaveSession(Fresh(0))
    /\ Wrote(NewId)
    /\ UNCHANGED <<web_seen, cleaning>>

\* append: refused without an effect unless the revision is the store's.
WebAppend(t) ==
    /\ Served /\ CurrentFor(t, web_revision[t])
    /\ threads' = AppendMessages(t, <<[role |-> "user", turn |-> WebTurn, by |-> {WebTurn}]>>)
    /\ web_seen' = [web_seen EXCEPT ![t] = @ \cup {WebTurn}]
    /\ Wrote(t)
    /\ UNCHANGED cleaning

\* The requests below load the session and save it again.  Both compare the
\* revision, so a writer between the two makes the request fail.
Rewrite(t, messages) ==
    threads' = SaveSession([thread |-> t, revision |-> web_revision[t],
                            conv |-> threads[t].conv, read_only |-> FALSE,
                            messages |-> messages])

\* edit_message: the text of an answer is replaced.
WebEdit(t) ==
    /\ Served /\ CurrentFor(t, web_revision[t])
    /\ \E i \in DOMAIN threads[t].messages :
        /\ threads[t].messages[i].role = "assistant"
        /\ Rewrite(t, [threads[t].messages EXCEPT ![i].turn = WebTurn, ![i].by = {WebTurn}])
    /\ web_seen' = [web_seen EXCEPT ![t] = @ \cup {WebTurn}]
    /\ Wrote(t)
    /\ UNCHANGED cleaning

\* delete_message and rewind_last_answer: the last messages are erased.
WebRewind(t) ==
    /\ Served /\ CurrentFor(t, web_revision[t])
    /\ \E n \in 0..(Len(threads[t].messages) - 1) :
        Rewrite(t, SubSeq(threads[t].messages, 1, n))
    /\ Wrote(t)
    /\ UNCHANGED <<web_seen, cleaning>>

\* remove, and abandon of a thread without messages.
WebRemove(t) ==
    /\ Served /\ CurrentFor(t, web_revision[t])
    /\ threads' = SoftDelete(t)
    /\ UNCHANGED <<web_revision, web_seen, web_wrote, cleaning>>

\* cleanup_empty: the ids are selected, then deleted one after the other.
WebCleanup(keep) ==
    /\ Served
    /\ cleaning' = EmptyThreads \ {keep}
    /\ UNCHANGED <<threads, web_revision, web_seen, web_wrote>>

CleanupDelete ==
    /\ cleaning # {}
    /\ \E t \in cleaning :
        /\ threads' = SoftDelete(t)
        /\ cleaning' = cleaning \ {t}
    /\ UNCHANGED <<web_revision, web_seen, web_wrote>>

Request ==
    \/ \E t \in ThreadIds :
        WebLoad(t) \/ WebAppend(t) \/ WebEdit(t) \/ WebRewind(t) \/ WebRemove(t)
    \/ WebCreate
    \/ \E keep \in ThreadIds \cup {NoThread} : WebCleanup(keep)

WebNext ==
    \/ Request /\ requests < MaxRequests /\ requests' = requests + 1
    \/ CleanupDelete /\ UNCHANGED requests
=============================================================================
