----------------------------- MODULE ThreadStore -----------------------------
(***************************************************************************)
(* The chat threads of ~/.ainiux/ainiux.db (chat/sqlite_store.cpp), which  *)
(* terminals and servers open at the same time, each by connections of its *)
(* own.                                                                    *)
(*                                                                         *)
(* A transaction (BEGIN IMMEDIATE ... COMMIT, or one statement) is one     *)
(* step: here it is the value of `threads` after it.  What a program does  *)
(* in several transactions is several steps of the modules that use this   *)
(* one.  A transcript is a sequence of messages; names, models, settings   *)
(* and usage change with it and decide nothing.                            *)
(***************************************************************************)
EXTENDS Integers, SequencesExt

CONSTANTS
    MaxThreads,   \* bound: rows of the table threads
    ReadOnly      \* threads that media expiration has locked

ThreadIds == 1..MaxThreads
NoThread  == 0

ASSUME StoreAssumption == MaxThreads \in Nat /\ ReadOnly \subseteq ThreadIds

VARIABLE
    threads   \* [ThreadIds -> rows]; revision 0 is a row not yet inserted

\* conv is no column: it names the conversation the row was inserted for.
Absent == [revision |-> 0, deleted |-> FALSE, conv |-> 0, messages |-> <<>>]

\* What a client holds of a thread: chat::Session.
Fresh(conv) ==
    [thread |-> NoThread, revision |-> 0, conv |-> conv, read_only |-> FALSE, messages |-> <<>>]

\* Mutant of Live: a row that is not there counts as not deleted.
LiveUnlessDeleted(t) == t \in ThreadIds /\ ~threads[t].deleted

Live(t)     == t \in ThreadIds /\ threads[t].revision > 0 /\ ~threads[t].deleted
Writable(t) == Live(t) /\ t \notin ReadOnly
FreeIds     == {t \in ThreadIds : threads[t].revision = 0}
NewId       == CHOOSE t \in FreeIds : \A u \in FreeIds : t <= u

IsChat(m)         == m.role \in {"user", "assistant"}
HasChat(messages) == \E i \in DOMAIN messages : IsChat(messages[i])

-----------------------------------------------------------------------------
(* save_session *)

\* Mutant of CanSave: an existing thread is saved whatever its revision is.
CanSaveStale(s) == IF s.thread = NoThread THEN FreeIds # {} ELSE Writable(s.thread)

CanSave(s) ==
    IF s.thread = NoThread THEN FreeIds # {}
    ELSE /\ Writable(s.thread)
         /\ s.revision = threads[s.thread].revision

InRow(s, t, revision) == [s EXCEPT !.thread = t, !.revision = revision]

\* The session as save_session gives it back: with its id and revision.
Stored(s) ==
    IF s.thread = NoThread THEN InRow(s, NewId, 1)
    ELSE InRow(s, s.thread, threads[s.thread].revision + 1)

SaveSession(s) ==
    [threads EXCEPT ![Stored(s).thread] =
        [revision |-> Stored(s).revision,
         deleted  |-> FALSE,
         conv     |-> IF s.thread = NoThread THEN s.conv ELSE @.conv,
         messages |-> s.messages]]

-----------------------------------------------------------------------------
(* append_messages, remove_thread, abandon_empty_thread, soft_delete_thread *)

CurrentFor(t, revision) == Writable(t) /\ threads[t].revision = revision

AppendMessages(t, messages) ==
    [threads EXCEPT ![t].messages = @ \o messages, ![t].revision = @ + 1]

\* remove_thread and abandon_empty_thread ask for CurrentFor; a deletion
\* leaves revision and rows of the messages as they are.
SoftDelete(t) == [threads EXCEPT ![t].deleted = TRUE]

-----------------------------------------------------------------------------
(* load_session, soft_delete_empty_threads: statements without a transaction *)

\* The row of the thread is read first ...
LoadRow(t) == [thread |-> t, revision |-> threads[t].revision,
               conv |-> threads[t].conv, read_only |-> t \in ReadOnly, messages |-> <<>>]

\* ... and its messages by another statement.
LoadMessages(s) == [s EXCEPT !.messages = threads[s.thread].messages]

\* The ids soft_delete_empty_threads selects.  Its updates, one by one, ask
\* only that the thread is not deleted yet.
EmptyThreads == {t \in ThreadIds : Writable(t) /\ ~HasChat(threads[t].messages)}

=============================================================================
