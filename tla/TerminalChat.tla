---------------------------- MODULE TerminalChat ----------------------------
(***************************************************************************)
(* The chat of the terminal (tui/run.cpp, without --agent): one event loop *)
(* that edits the session, one model job and one file job with threads of  *)
(* their own, and the queue they report to.                                *)
(*                                                                         *)
(* The loop handles one event, or one key, at a time; a key may find       *)
(* events waiting that came after the loop had last looked.  A message is  *)
(* its role, the turn it was written in and, as `by`, the turns whose text *)
(* it holds: a prompt that is sent again is a message of a new turn.       *)
(* Positions in the session count from 1 and 0 stands for size_t(-1).      *)
(***************************************************************************)
EXTENDS ThreadStore

CONSTANTS
    MaxKeys       \* bound: keys and commands of the terminal's user, Quit apart

VARIABLES
    session,      \* the open session
    pending,      \* pending_user, pending_assistant, pending_user_added_for_job
    active_job,   \* TRUE: ActiveJob::Chat
    regenerate_after_cancel,
    model_job,    \* its turn, whether its thread runs, its token, what it pushed
    file_job,     \* joinable from its start until its event is handled
    deferred_store_save,
    events,
    ui,           \* the loop, and the steps of leaving it
    history_edit, \* history_edit_index, and the turns of the text in the input line
    \* numbers the turns and conversations, and counts the keys
    next_turn, next_conv, keys,
    \* history
    asked,        \* number of the newest autosave asked for
    stored,       \* number of the newest autosave the store took
    failed,       \* number of the newest one it refused or that was cancelled
    seen          \* turns whose messages the terminal has shown

jobVars   == <<model_job, file_job, deferred_store_save, events>>
turnVars  == <<pending, active_job, regenerate_after_cancel, next_turn>>
saveVars  == <<asked, stored, failed>>
chatVars  == <<session, turnVars, jobVars, ui, history_edit, next_conv, keys, saveVars, seen>>

NoPending == [user |-> 0, assistant |-> 0, added |-> FALSE]
NoFile    == [kind |-> "none"]
NoSave    == [save |-> 0]
NoEdit    == [index |-> 0]
NoModel   == [turn |-> 0, running |-> FALSE, token |-> FALSE, said |-> FALSE]

Prompt(n) == [role |-> "user", turn |-> n, by |-> {n}]
Answer(n) == [role |-> "assistant", turn |-> n, by |-> {}]

ShownTurns(messages) == {messages[i].turn : i \in DOMAIN messages}

\* The library opens with a new session; conversation 1 is in the store.
ChatInit ==
    /\ session = Fresh(2)
    /\ pending = NoPending
    /\ active_job = FALSE
    /\ regenerate_after_cancel = FALSE
    /\ model_job = NoModel
    /\ file_job = NoFile
    /\ deferred_store_save = NoSave
    /\ events = <<>>
    /\ ui = "open"
    /\ history_edit = NoEdit
    /\ next_turn = 1
    /\ next_conv = 3
    /\ keys = 0
    /\ asked = 0 /\ stored = 0 /\ failed = 0
    /\ seen = {}

-----------------------------------------------------------------------------
(* Autosave *)

Joinable(job) == job.kind # "none"
Deferred      == deferred_store_save # NoSave
SaveJob(s, n) == [kind |-> "save", token |-> FALSE, pushed |-> FALSE, session |-> s, save |-> n]

\* Mutant of StoreSave: a save asked for while a file job runs is dropped, as
\* TuiFileJobs::start_store_save alone would do.
StoreSaveUnlessBusy(s, job, later) ==
    IF s.read_only THEN file_job' = job /\ deferred_store_save' = later /\ UNCHANGED asked
    ELSE /\ asked' = asked + 1
         /\ file_job' = IF Joinable(job) THEN job ELSE SaveJob(s, asked + 1)
         /\ deferred_store_save' = NoSave

\* start_store_save: the session as it is now, at once or when the file job
\* has ended.  `job` and `later` are the file job and the deferred save by then.
StoreSave(s, job, later) ==
    IF s.read_only THEN file_job' = job /\ deferred_store_save' = later /\ UNCHANGED asked
    ELSE /\ asked' = asked + 1
         /\ IF Joinable(job)
            THEN file_job' = job /\ deferred_store_save' = [session |-> s, save |-> asked + 1]
            ELSE file_job' = SaveJob(s, asked + 1) /\ deferred_store_save' = NoSave

\* resume_deferred_store_save, when a file job has been joined.
Resume(later) ==
    IF later = NoSave THEN file_job' = NoFile /\ deferred_store_save' = NoSave
    ELSE file_job' = SaveJob(later.session, later.save) /\ deferred_store_save' = NoSave

\* apply_store_save_result: what the store gave back goes to the session ...
Adopts(s, saved) == s.thread \in {NoThread, saved.thread}

AfterSave(s, saved) ==
    IF Adopts(s, saved) THEN InRow(s, saved.thread, saved.revision) ELSE s

\* Mutant of Patched: the deferred save keeps the revision it was taken with.
PatchedNot(later, s, saved) == later

\* ... and to the deferred save, unless the session is of another thread.
Patched(later, s, saved) ==
    IF later = NoSave \/ ~Adopts(s, saved) \/ ~Adopts(later.session, saved) THEN later
    ELSE [later EXCEPT !.session = InRow(@, saved.thread, saved.revision)]

-----------------------------------------------------------------------------
(* Turns *)

Open    == ui = "open"
Locked  == session.read_only

\* start_turn_with_payload and start_assistant_response: the prompt and an
\* empty answer go to the end of `messages`, and the model job starts.
StartTurn(messages) ==
    /\ session' = [session EXCEPT !.messages = messages \o <<Prompt(next_turn), Answer(next_turn)>>]
    /\ pending' = [user |-> Len(messages) + 1, assistant |-> Len(messages) + 2, added |-> TRUE]
    /\ active_job' = TRUE
    /\ model_job' = [turn |-> next_turn, running |-> TRUE, token |-> FALSE, said |-> FALSE]
    /\ next_turn' = next_turn + 1
    /\ seen' = seen \cup {next_turn}

Send ==
    /\ Open /\ history_edit = NoEdit /\ ~active_job /\ ~Locked
    /\ StartTurn(session.messages)
    /\ UNCHANGED <<threads, regenerate_after_cancel, file_job, deferred_store_save, events, ui,
                   history_edit, next_conv, saveVars>>

LastOf(messages, role) ==
    LET at == {i \in DOMAIN messages : messages[i].role = role}
    IN IF at = {} THEN 0 ELSE Max(at)

\* /response: start_response_to_unanswered_user.
Respond ==
    LET user == LastOf(session.messages, "user")
    IN /\ Open /\ history_edit = NoEdit /\ ~active_job /\ ~Locked
       /\ user > LastOf(session.messages, "assistant")
       /\ session' = [session EXCEPT !.messages = Append(@, Answer(next_turn))]
       /\ pending' = [user |-> user, assistant |-> Len(session.messages) + 1, added |-> FALSE]
       /\ active_job' = TRUE
       /\ model_job' = [turn |-> next_turn, running |-> TRUE, token |-> FALSE, said |-> FALSE]
       /\ next_turn' = next_turn + 1
       /\ seen' = seen \cup {next_turn}
       /\ UNCHANGED <<threads, regenerate_after_cancel, file_job, deferred_store_save, events, ui,
                      history_edit, next_conv, saveVars>>

\* Ctrl+R, no turn under way: the last prompt is sent again.
Regenerate ==
    LET user == LastOf(session.messages, "user")
    IN /\ Open /\ history_edit = NoEdit /\ ~active_job /\ ~Locked /\ user > 0
       /\ StartTurn(SubSeq(session.messages, 1, user - 1))
       /\ UNCHANGED <<threads, regenerate_after_cancel, file_job, deferred_store_save, events, ui,
                      history_edit, next_conv, saveVars>>

\* Ctrl+R, a turn under way: it is cancelled, and the prompt waits for its end.
RegenerateActive ==
    /\ Open /\ history_edit = NoEdit /\ active_job /\ ~Locked
    /\ LastOf(session.messages, "user") > 0
    /\ regenerate_after_cancel' = TRUE
    /\ model_job' = [model_job EXCEPT !.token = TRUE]
    /\ UNCHANGED <<threads, session, pending, active_job, next_turn, file_job, deferred_store_save,
                   events, ui, history_edit, next_conv, saveVars, seen>>

\* Esc: cancel_active_request, or the file job while it runs.
Escape ==
    /\ Open /\ history_edit = NoEdit
    /\ IF active_job
       THEN /\ regenerate_after_cancel' = FALSE
            /\ model_job' = [model_job EXCEPT !.token = TRUE]
            /\ UNCHANGED file_job
       ELSE /\ Joinable(file_job) /\ ~file_job.pushed
            /\ file_job' = [file_job EXCEPT !.token = TRUE]
            /\ UNCHANGED <<regenerate_after_cancel, model_job>>
    /\ UNCHANGED <<threads, session, pending, active_job, next_turn, deferred_store_save, events, ui,
                   history_edit, next_conv, saveVars, seen>>

-----------------------------------------------------------------------------
(* The model job *)

ModelDelta ==
    /\ model_job.running /\ ~model_job.said
    /\ events' = Append(events, [type |-> "delta", turn |-> model_job.turn])
    /\ model_job' = [model_job EXCEPT !.said = TRUE]
    /\ UNCHANGED <<threads, session, turnVars, file_job, deferred_store_save, ui, history_edit,
                   next_conv, saveVars, seen>>

\* One Done or one Error: Cancelled only under a cancelled token, which an
\* answer that is complete already does not look at.
ModelEnd ==
    /\ model_job.running
    /\ \E type \in {"done", "error"} \cup (IF model_job.token THEN {"cancelled"} ELSE {}) :
        events' = Append(events, [type |-> type, turn |-> model_job.turn])
    /\ model_job' = [model_job EXCEPT !.running = FALSE]
    /\ UNCHANGED <<threads, session, turnVars, file_job, deferred_store_save, ui, history_edit,
                   next_conv, saveVars, seen>>

-----------------------------------------------------------------------------
(* The end of a turn *)

HasEvent(types) == Open /\ events # <<>> /\ Head(events).type \in types
Handled == events' = Tail(events)

AnswerHere == pending.assistant \in DOMAIN session.messages

\* Delta: the text goes to the message at pending_assistant.
HandleDelta ==
    /\ HasEvent({"delta"}) /\ Handled
    /\ session' = IF AnswerHere
                  THEN [session EXCEPT !.messages[pending.assistant].by = @ \cup {Head(events).turn}]
                  ELSE session
    /\ UNCHANGED <<threads, turnVars, model_job, file_job, deferred_store_save, ui, history_edit,
                   next_conv, saveVars, seen>>

Answered(messages, n) ==
    IF AnswerHere THEN [messages EXCEPT ![pending.assistant].by = {n}] ELSE messages

\* rollback_pending_turn: the answer is erased, then the prompt this turn added.
Erase(messages, i) == IF i \in DOMAIN messages THEN RemoveAt(messages, i) ELSE messages

\* Mutant of RolledBack: the prompt is erased first, and moves the answer.
RolledBackPromptFirst(messages) ==
    Erase(IF pending.added THEN Erase(messages, pending.user) ELSE messages, pending.assistant)

RolledBack(messages) ==
    LET rest == Erase(messages, pending.assistant)
    IN IF pending.added THEN Erase(rest, pending.user) ELSE rest

\* keep_cancelled_turn: an answer without text is erased.
KeptCancelled(messages) ==
    IF AnswerHere /\ messages[pending.assistant].by = {} THEN Erase(messages, pending.assistant)
    ELSE messages

Ended ==
    /\ pending' = NoPending
    /\ active_job' = FALSE
    /\ regenerate_after_cancel' = FALSE

\* Mutant of QueuedTurn: the turn that is regenerated stays active as well.
QueuedTurnOnly(messages, from) ==
    /\ regenerate_after_cancel' = FALSE
    /\ session' = [session EXCEPT !.messages = messages]
    /\ UNCHANGED <<pending, active_job, model_job, next_turn, seen>>

\* start_queued_regeneration: everything from `from` on is erased and the
\* prompt sent again, unless the session has become read-only.
QueuedTurn(messages, from) ==
    LET kept == IF from \in DOMAIN messages THEN SubSeq(messages, 1, from - 1) ELSE messages
    IN /\ regenerate_after_cancel' = FALSE
       /\ IF Locked
          THEN /\ session' = [session EXCEPT !.messages = kept]
               /\ pending' = NoPending /\ active_job' = FALSE
               /\ UNCHANGED <<model_job, next_turn, seen>>
          ELSE StartTurn(kept)

HandleDone ==
    LET messages == Answered(session.messages, Head(events).turn)
    IN /\ HasEvent({"done"}) /\ Handled
       /\ IF regenerate_after_cancel
          THEN /\ QueuedTurn(messages, pending.user)
               /\ UNCHANGED <<file_job, deferred_store_save, asked>>
          ELSE /\ Ended
               /\ session' = [session EXCEPT !.messages = messages]
               /\ StoreSave(session', file_job, deferred_store_save)
               /\ UNCHANGED <<model_job, next_turn, seen>>
       /\ UNCHANGED <<threads, ui, history_edit, next_conv, stored, failed>>

HandleCancelled ==
    /\ HasEvent({"cancelled"}) /\ Handled
    /\ IF regenerate_after_cancel
       THEN /\ QueuedTurn(RolledBack(session.messages), IF pending.added THEN 0 ELSE pending.user)
            /\ UNCHANGED <<file_job, deferred_store_save, asked>>
       ELSE /\ Ended
            /\ session' = [session EXCEPT !.messages = KeptCancelled(@)]
            /\ StoreSave(session', file_job, deferred_store_save)
            /\ UNCHANGED <<model_job, next_turn, seen>>
    /\ UNCHANGED <<threads, ui, history_edit, next_conv, stored, failed>>

\* Any other error: the turn is rolled back and nothing is saved.
HandleError ==
    /\ HasEvent({"error"}) /\ Handled /\ Ended
    /\ session' = [session EXCEPT !.messages = RolledBack(@)]
    /\ UNCHANGED <<threads, model_job, next_turn, file_job, deferred_store_save, ui, history_edit,
                   next_conv, saveVars, seen>>

-----------------------------------------------------------------------------
(* The file job *)

\* SQLite may refuse any transaction; the store is then as it was.
SaveFails ==
    /\ events' = Append(events, [type |-> "saved", ok |-> FALSE])
    /\ failed' = file_job.save
    /\ UNCHANGED <<threads, stored>>

SaveWorks ==
    /\ ~file_job.token /\ CanSave(file_job.session)
    /\ threads' = SaveSession(file_job.session)
    /\ events' = Append(events, [type |-> "saved", ok |-> TRUE, session |-> Stored(file_job.session)])
    /\ stored' = file_job.save
    /\ UNCHANGED failed

StoreSaveRuns ==
    /\ file_job.kind = "save" /\ ~file_job.pushed
    /\ SaveWorks \/ SaveFails
    /\ file_job' = [file_job EXCEPT !.pushed = TRUE]
    /\ UNCHANGED <<session, turnVars, model_job, deferred_store_save, ui, history_edit, next_conv,
                   asked, seen>>

LoadBegins ==
    /\ file_job.kind = "load" /\ ~file_job.pushed /\ ~file_job.token
    /\ file_job.session.revision = 0 /\ Live(file_job.thread)
    /\ file_job' = [file_job EXCEPT !.session = LoadRow(file_job.thread)]
    /\ UNCHANGED <<threads, session, turnVars, model_job, deferred_store_save, events, ui,
                   history_edit, next_conv, saveVars, seen>>

LoadEnds ==
    /\ file_job.kind = "load" /\ ~file_job.pushed
    /\ \/ /\ file_job.session.revision > 0
          /\ events' = Append(events, [type |-> "loaded", ok |-> TRUE,
                                       session |-> LoadMessages(file_job.session)])
       \/ events' = Append(events, [type |-> "loaded", ok |-> FALSE])
    /\ file_job' = [file_job EXCEPT !.pushed = TRUE]
    /\ UNCHANGED <<threads, session, turnVars, model_job, deferred_store_save, ui, history_edit,
                   next_conv, saveVars, seen>>

\* StoreSaveDone.
HandleSaved ==
    /\ HasEvent({"saved"}) /\ Handled
    /\ LET e == Head(events)
           later == IF e.ok THEN Patched(deferred_store_save, session, e.session)
                    ELSE deferred_store_save
       IN /\ session' = IF e.ok THEN AfterSave(session, e.session) ELSE session
          /\ Resume(later)
    /\ UNCHANGED <<threads, turnVars, model_job, ui, history_edit, next_conv, saveVars, seen>>

\* StoreLoadDone: the session is replaced, whatever has been begun meanwhile.
HandleLoaded ==
    /\ HasEvent({"loaded"}) /\ Handled
    /\ LET e == Head(events) IN
        /\ session' = IF e.ok THEN e.session ELSE session
        /\ seen' = IF e.ok THEN seen \cup ShownTurns(e.session.messages) ELSE seen
    /\ Resume(deferred_store_save)
    /\ UNCHANGED <<threads, turnVars, model_job, ui, history_edit, next_conv, saveVars>>

-----------------------------------------------------------------------------
(* Threads and transcripts *)

\* A thread is chosen from the list, which opens only while no turn runs.
LoadThread(t) ==
    /\ Open /\ history_edit = NoEdit /\ ~active_job /\ ~Joinable(file_job) /\ Live(t)
    /\ file_job' = [kind |-> "load", token |-> FALSE, pushed |-> FALSE, thread |-> t,
                    session |-> Fresh(0)]
    /\ UNCHANGED <<threads, session, turnVars, model_job, deferred_store_save, events, ui,
                   history_edit, next_conv, saveVars, seen>>

\* start_new_chat_thread: an empty session, saved at once.
NewThread ==
    /\ Open /\ history_edit = NoEdit /\ ~active_job /\ ~Joinable(file_job)
    /\ session' = Fresh(next_conv)
    /\ next_conv' = next_conv + 1
    /\ StoreSave(session', file_job, deferred_store_save)
    /\ UNCHANGED <<threads, turnVars, model_job, events, ui, history_edit, stored, failed, seen>>

\* /clone: the same messages as a thread of its own.
Clone ==
    /\ Open /\ history_edit = NoEdit /\ ~active_job /\ ~Locked
    /\ session' = [session EXCEPT !.thread = NoThread, !.revision = 0, !.conv = next_conv]
    /\ next_conv' = next_conv + 1
    /\ StoreSave(session', file_job, deferred_store_save)
    /\ UNCHANGED <<threads, turnVars, model_job, events, ui, history_edit, stored, failed, seen>>

\* /remove, even while a turn runs, and the deletion from the list:
\* soft_delete_thread and, if it was the open thread, a new session that is
\* not saved yet.
RemoveThread(t) ==
    /\ Open /\ history_edit = NoEdit /\ Live(t)
    /\ t = session.thread \/ ~active_job
    /\ threads' = SoftDelete(t)
    /\ IF t = session.thread THEN session' = Fresh(next_conv) /\ next_conv' = next_conv + 1
       ELSE UNCHANGED <<session, next_conv>>
    /\ UNCHANGED <<turnVars, jobVars, ui, history_edit, saveVars, seen>>

\* /pop: the last message is erased and the session saved.
Pop ==
    /\ Open /\ history_edit = NoEdit /\ ~active_job /\ ~Locked /\ session.messages # <<>>
    /\ session' = [session EXCEPT !.messages = Front(@)]
    /\ StoreSave(session', file_job, deferred_store_save)
    /\ UNCHANGED <<threads, turnVars, model_job, events, ui, history_edit, next_conv, stored, failed,
                   seen>>

\* /clear, even while a turn runs; nothing is saved.
Clear ==
    /\ Open /\ history_edit = NoEdit /\ ~Locked
    /\ session' = [session EXCEPT !.messages = <<>>]
    /\ UNCHANGED <<threads, turnVars, jobVars, ui, history_edit, next_conv, saveVars, seen>>

\* A setting is changed: the session is saved, in the middle of a turn too.
ChangeSetting ==
    /\ Open /\ history_edit = NoEdit /\ ~Locked
    /\ StoreSave(session, file_job, deferred_store_save)
    /\ UNCHANGED <<threads, session, turnVars, model_job, events, ui, history_edit, next_conv, stored,
                   failed, seen>>

\* /edit opens the last message ...
StartHistoryEdit ==
    /\ Open /\ history_edit = NoEdit /\ ~active_job /\ ~Locked /\ session.messages # <<>>
    /\ history_edit' = [index |-> Len(session.messages), by |-> Last(session.messages).by]
    /\ UNCHANGED <<threads, session, turnVars, jobVars, ui, next_conv, saveVars, seen>>

\* ... and Enter writes the text back to its position.
FinishHistoryEdit ==
    /\ Open /\ history_edit # NoEdit
    /\ history_edit' = NoEdit
    /\ IF history_edit.index \in DOMAIN session.messages
       THEN /\ session' = [session EXCEPT !.messages[history_edit.index].by = history_edit.by]
            /\ StoreSave(session', file_job, deferred_store_save)
       ELSE UNCHANGED <<session, file_job, deferred_store_save, asked>>
    /\ UNCHANGED <<threads, turnVars, model_job, events, ui, next_conv, stored, failed, seen>>

\* ... and Esc leaves it as it was.
CancelHistoryEdit ==
    /\ Open /\ history_edit # NoEdit
    /\ history_edit' = NoEdit
    /\ UNCHANGED <<threads, session, turnVars, jobVars, ui, next_conv, saveVars, seen>>

-----------------------------------------------------------------------------
(* Leaving *)

\* The loop ends; model_job is cancelled, and joined ...
Quit ==
    /\ Open
    /\ ui' = "leaving"
    /\ model_job' = [model_job EXCEPT !.token = TRUE]
    /\ UNCHANGED <<threads, session, turnVars, file_job, deferred_store_save, events, history_edit,
                   next_conv, saveVars, seen>>

\* ... then file_job is cancelled, and joined ...
CancelFileJob ==
    /\ ui = "leaving" /\ ~model_job.running
    /\ file_job' = IF Joinable(file_job) THEN [file_job EXCEPT !.token = TRUE] ELSE file_job
    /\ ui' = "closing"
    /\ UNCHANGED <<threads, session, turnVars, model_job, deferred_store_save, events, history_edit,
                   next_conv, saveVars, seen>>

\* What the store said before the terminal left: there is at most one answer.
SavedEvents == {e \in Range(events) : e.type = "saved" /\ e.ok}

\* Mutant of AtExit: the save that was waiting for the file job is forgotten.
AtExitForgets(s, later) ==
    /\ session' = s
    /\ UNCHANGED <<threads, stored, failed>>

\* The deferred save is made by the loop's own thread.
AtExit(s, later) ==
    IF later = NoSave THEN session' = s /\ UNCHANGED <<threads, stored, failed>>
    ELSE \/ /\ CanSave(later.session)
            /\ threads' = SaveSession(later.session)
            /\ session' = InRow(s, Stored(later.session).thread, Stored(later.session).revision)
            /\ stored' = later.save
            /\ UNCHANGED failed
         \/ failed' = later.save /\ session' = s /\ UNCHANGED <<threads, stored>>

\* ... the last events are taken for what they say of saves, and the deferred
\* save is made.
SaveAtExit ==
    /\ ui = "closing"
    /\ Joinable(file_job) => file_job.pushed
    /\ \/ SavedEvents = {} /\ AtExit(session, deferred_store_save)
       \/ \E e \in SavedEvents :
            AtExit(AfterSave(session, e.session), Patched(deferred_store_save, session, e.session))
    /\ file_job' = NoFile /\ deferred_store_save' = NoSave /\ events' = <<>>
    /\ ui' = "saved"
    /\ UNCHANGED <<turnVars, model_job, history_edit, next_conv, asked, seen>>

\* remove_empty_thread_on_exit.
RemoveEmptyThread ==
    /\ ui = "saved"
    /\ threads' = IF session.thread # NoThread /\ ~HasChat(session.messages)
                  THEN SoftDelete(session.thread) ELSE threads
    /\ ui' = "left"
    /\ UNCHANGED <<session, turnVars, jobVars, history_edit, next_conv, saveVars, seen>>

-----------------------------------------------------------------------------
Keys ==
    \/ Send \/ Respond \/ Regenerate \/ RegenerateActive \/ Escape \/ NewThread \/ Clone
    \/ Pop \/ Clear \/ ChangeSetting \/ StartHistoryEdit
    \/ FinishHistoryEdit \/ CancelHistoryEdit
    \/ \E t \in ThreadIds : LoadThread(t) \/ RemoveThread(t)

Model   == ModelDelta \/ ModelEnd
File    == StoreSaveRuns \/ LoadBegins \/ LoadEnds
Handle  == HandleDelta \/ HandleDone \/ HandleCancelled \/ HandleError \/ HandleSaved \/ HandleLoaded
Leave   == CancelFileJob \/ SaveAtExit \/ RemoveEmptyThread

ChatNext ==
    \/ Keys /\ keys < MaxKeys /\ keys' = keys + 1
    \/ (Quit \/ Model \/ File \/ Handle \/ Leave) /\ UNCHANGED keys
=============================================================================
