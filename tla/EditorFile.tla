------------------------------ MODULE EditorFile ------------------------------
(***************************************************************************)
(* One file, its autosave backup, and the editor processes that have it in *)
(* a buffer (editor/editor_state, terminal_ui, autosave, run_editor), on   *)
(* top of its lock.  Each call of the editor that reads or changes a file  *)
(* is one action, for the file may be written from outside at any moment.  *)
(*                                                                         *)
(* No version of the file comes back, so all there is to say of a          *)
(* fingerprint, and of what a user has seen, is whether it is still that   *)
(* of the file: whoever writes the file makes all of them stale.           *)
(***************************************************************************)
EXTENDS EditorLock

VARIABLES
    backup,    \* whose autosave FILE's backup is, or Nobody without one
    newer,     \* the backup is newer than the file
    ui,        \* what the process does with the file
    order,     \* "session", "text": which comes first when the file is opened;
               \* "as": another buffer is saved under the file's path
    read_only,
    kept,      \* who has unsaved text and has autosaved it
    fp,        \* whose disk_fingerprint is that of the file
    observed,  \* whose PendingSaveRequest::observed_disk is
    \* history
    knows      \* how a user came by the file's version: "shown" it, or asked about it,
               \* not at all ("stale"); "late", "missed": it came in a blind moment

docVars == <<backup, newer>>
bufVars == <<order, read_only, kept, fp, observed, knows>>
vars == <<lockVars, docVars, ui, bufVars>>

Init ==
    /\ LockInit
    /\ backup = Nobody /\ newer = FALSE
    /\ ui = [e \in Editors |-> "down"]
    /\ order = [e \in Editors |-> "session"]
    /\ read_only = {} /\ kept = {} /\ fp = {} /\ observed = {}
    /\ knows = [e \in Editors |-> "stale"]

Show(e, what) == ui' = [ui EXCEPT ![e] = what]
Know(e, how)  == knows' = [knows EXCEPT ![e] = how]

-----------------------------------------------------------------------------
(* starting, opening, closing, quitting *)

\* A process starts on the file, or on something else.
Start(e, what) ==
    /\ ui[e] = "down"
    /\ Boot(e)
    /\ what \in {"begin", "blank"}
    /\ Show(e, what)
    /\ UNCHANGED <<docVars, bufVars>>

\* request_open_buffer_from_path: the text is loaded before the session begins.
Open(e) ==
    /\ ui[e] = "blank"
    /\ order' = [order EXCEPT ![e] = "text"]
    /\ Show(e, "offer")
    /\ UNCHANGED <<lockVars, docVars, read_only, kept, fp, observed, knows>>

\* check_autosave_recovery_offer; the user, who learns of the file's age, takes
\* the backup or the file.
Offer(e) ==
    /\ ui[e] = "offer"
    /\ \/ Show(e, "load") /\ UNCHANGED knows
       \/ newer /\ Show(e, "recover") /\ Know(e, "shown")
    /\ UNCHANGED <<lockVars, docVars, order, read_only, kept, fp, observed>>

Loaded(e) == Show(e, IF order[e] = "session" THEN "editing" ELSE "begin")

Load(e) ==
    /\ ui[e] = "load"
    /\ Know(e, "shown") /\ Loaded(e)
    /\ UNCHANGED <<lockVars, docVars, order, read_only, kept, fp, observed>>

Recover(e) ==
    /\ ui[e] = "recover" /\ backup # Nobody
    /\ Loaded(e)
    /\ UNCHANGED <<lockVars, docVars, bufVars>>

\* begin_file_session takes the fingerprint, then the lock ...
Fingerprint(e) ==
    /\ ui[e] = "begin"
    /\ fp' = fp \cup {e}
    /\ IF order[e] = "text" /\ knows[e] = "stale" THEN Know(e, "missed") ELSE UNCHANGED knows
    /\ Ask(e)
    /\ Show(e, "lock")
    /\ UNCHANGED <<docVars, order, read_only, kept, observed>>

\* The answer to an acquisition, read by whoever asked for it.
Answered(e) ==
    \/ at[e] = "held" /\ UNCHANGED lockVars
    \/ Settle(e)

\* Mutant of LeavesReadOnly: a buffer without the lock is writable.
LeavesWritable(e) == FALSE

LeavesReadOnly(e) == at[e] # "held"

\* ... and leaves the buffer read-only without it.
Begun(e) ==
    /\ ui[e] = "lock"
    /\ Answered(e)
    /\ read_only' = IF LeavesReadOnly(e) THEN read_only \cup {e} ELSE read_only \ {e}
    /\ Show(e, IF order[e] = "session" THEN "offer" ELSE "editing")
    /\ order' = [order EXCEPT ![e] = "session"]
    /\ UNCHANGED <<docVars, kept, fp, observed, knows>>

\* A holder gives the lock back first; whoever has none goes on.
LetGo(e) == IF at[e] = "held" THEN Release(e) ELSE UNCHANGED lockVars

\* The backup has gone meanwhile: at start the editor quits, later nothing is opened.
RecoverFails(e) ==
    /\ ui[e] = "recover" /\ backup = Nobody
    /\ LetGo(e)
    /\ Show(e, IF order[e] = "session" THEN "quit" ELSE "close")
    /\ UNCHANGED <<docVars, bufVars>>

\* perform_buffer_close, or a Save As that retargets the buffer: the backup stays.
Close(e) ==
    /\ ui[e] = "editing"
    /\ LetGo(e)
    /\ Show(e, "close")
    /\ UNCHANGED <<docVars, bufVars>>

\* What goes with the buffer.
Forget(e) ==
    /\ order' = [order EXCEPT ![e] = "session"]
    /\ read_only' = read_only \ {e} /\ kept' = kept \ {e}
    /\ fp' = fp \ {e} /\ observed' = observed \ {e}
    /\ Know(e, "stale")

Closed(e) ==
    /\ ui[e] = "close" /\ at[e] = "out"
    /\ Forget(e) /\ Show(e, "blank")
    /\ UNCHANGED <<lockVars, docVars>>

\* Quitting closes the buffers first: their destructors give the lock back.
Quit(e) ==
    /\ ui[e] = "blank"
    /\ Show(e, "quit")
    /\ UNCHANGED <<lockVars, docVars, bufVars>>

Ended(e) ==
    /\ ui[e] = "quit"
    /\ Exit(e)
    /\ Forget(e) /\ Show(e, "down")
    /\ UNCHANGED docVars

Die(e) ==
    /\ Crash(e)
    /\ Forget(e) /\ Show(e, "down")
    /\ UNCHANGED docVars

-----------------------------------------------------------------------------
(* editing: mutation_allowed of a writable buffer changes nothing here *)

\* An edit of a read-only buffer tries the lock again (retry_file_lock) ...
Retry(e) ==
    /\ ui[e] = "editing" /\ e \in read_only
    /\ Ask(e)
    /\ Show(e, "retry")
    /\ UNCHANGED <<docVars, bufVars>>

Retried(e) ==
    /\ ui[e] = "retry"
    /\ Answered(e)
    /\ Show(e, IF at[e] = "held" THEN "compare" ELSE "editing")
    /\ UNCHANGED <<docVars, bufVars>>

\* Mutant of Changed: nothing is ever seen to have changed.
ChangedNot(e) == FALSE

Changed(e) == e \notin fp

\* ... and looks whether the file is still the one it shows.
Compare(e) ==
    /\ ui[e] = "compare"
    /\ read_only' = IF Changed(e) THEN read_only ELSE read_only \ {e}
    /\ Show(e, IF Changed(e) THEN "stale" ELSE "editing")
    /\ UNCHANGED <<lockVars, docVars, order, kept, fp, observed, knows>>

\* ConfirmReloadAfterLock, yes: the fingerprint comes before the text.
Agree(e) ==
    /\ ui[e] = "stale"
    /\ fp' = fp \cup {e}
    /\ Show(e, "reload")
    /\ UNCHANGED <<lockVars, docVars, order, read_only, kept, observed, knows>>

Reload(e) ==
    /\ ui[e] = "reload"
    /\ Know(e, "shown")
    /\ read_only' = read_only \ {e}
    /\ Show(e, "editing")
    /\ UNCHANGED <<lockVars, docVars, order, kept, fp, observed>>

\* Mutant of Decline: the lock is kept for a buffer that stays read-only.
DeclineKeepsLock(e) ==
    /\ ui[e] = "stale"
    /\ Show(e, "editing")
    /\ UNCHANGED <<lockVars, docVars, bufVars>>

\* No: the buffer stays read-only and gives the lock back.
Decline(e) ==
    /\ ui[e] = "stale"
    /\ Release(e)
    /\ Show(e, "drop")
    /\ UNCHANGED <<docVars, bufVars>>

Dropped(e) ==
    /\ ui[e] = "drop" /\ at[e] = "out"
    /\ Show(e, "editing")
    /\ UNCHANGED <<lockVars, docVars, bufVars>>

\* perform_autosave, of a buffer with edits that no autosave has.
Autosave(e) ==
    /\ ui[e] = "editing" /\ e \notin read_only
    /\ backup' = e /\ newer' = TRUE
    /\ kept' = kept \cup {e}
    /\ UNCHANGED <<lockVars, ui, order, read_only, fp, observed, knows>>

-----------------------------------------------------------------------------
(* saving *)

\* request_save_editor_to_path, of the file's own buffer ...
Save(e) ==
    /\ ui[e] = "editing" /\ e \notin read_only
    /\ observed' = observed \cup {e}
    /\ Show(e, IF Changed(e) THEN "confirm" ELSE "check")
    /\ UNCHANGED <<lockVars, docVars, order, read_only, kept, fp, knows>>

\* ... or of another buffer: the file's lock comes first ...
SaveAs(e) ==
    /\ ui[e] = "blank"
    /\ Ask(e)
    /\ order' = [order EXCEPT ![e] = "as"]
    /\ Show(e, "saveas")
    /\ UNCHANGED <<docVars, read_only, kept, fp, observed, knows>>

SaveAsAnswered(e) ==
    /\ ui[e] = "saveas"
    /\ Answered(e)
    /\ Show(e, IF at[e] = "held" THEN "inspect" ELSE "close")
    /\ UNCHANGED <<docVars, bufVars>>

\* ... and the file exists, so the user is asked.
SaveAsInspect(e) ==
    /\ ui[e] = "inspect"
    /\ observed' = observed \cup {e}
    /\ Show(e, "confirm")
    /\ UNCHANGED <<lockVars, docVars, order, read_only, kept, fp, knows>>

\* ConfirmOverwrite asks about the version that was observed.
Confirm(e) ==
    /\ ui[e] = "confirm"
    /\ IF e \in observed THEN Know(e, "shown") ELSE UNCHANGED knows
    /\ Show(e, "check")
    /\ UNCHANGED <<lockVars, docVars, order, read_only, kept, fp, observed>>

\* A save given up or failed.  The lock of a Save As goes with its request.
Back(e) ==
    /\ observed' = observed \ {e}
    /\ IF order[e] = "as" THEN LetGo(e) /\ Show(e, "close")
                          ELSE UNCHANGED lockVars /\ Show(e, "editing")

Refuse(e) ==
    /\ ui[e] = "confirm"
    /\ Back(e)
    /\ UNCHANGED <<docVars, order, read_only, kept, fp, knows>>

\* save_editor_to_path looks again, and asks again if the file has changed ...
Check(e) ==
    /\ ui[e] = "check"
    /\ IF e \in observed THEN observed' = observed \ {e} /\ Show(e, "write")
                         ELSE observed' = observed \cup {e} /\ Show(e, "confirm")
    /\ UNCHANGED <<lockVars, docVars, order, read_only, kept, fp, knows>>

\* Whoever writes the file makes what is known of it stale.
Supersede(known) ==
    /\ newer' = FALSE /\ fp' = {} /\ observed' = {}
    /\ knows' = known

\* ... before it replaces the file in one step,
Replace(e) ==
    /\ ui[e] = "write"
    /\ Supersede([f \in Editors |-> IF f = e THEN "shown" ELSE "stale"])
    /\ Show(e, "tidy")
    /\ UNCHANGED <<lockVars, backup, order, read_only, kept>>

SaveFails(e) ==
    /\ ui[e] = "write"
    /\ Back(e)
    /\ UNCHANGED <<docVars, order, read_only, kept, fp, knows>>

\* removes the backup (remove_autosave_file),
Tidy(e) ==
    /\ ui[e] = "tidy"
    /\ backup' = Nobody /\ newer' = FALSE
    /\ kept' = kept \ {e}
    /\ order' = [order EXCEPT ![e] = "session"]
    /\ read_only' = read_only \ {e}
    /\ Show(e, "refresh")
    /\ UNCHANGED <<lockVars, fp, observed, knows>>

\* and takes the new fingerprint (refresh_disk_fingerprint).
Refresh(e) ==
    /\ ui[e] = "refresh"
    /\ fp' = fp \cup {e}
    /\ Show(e, "editing")
    /\ UNCHANGED <<lockVars, docVars, order, read_only, kept, observed, knows>>

-----------------------------------------------------------------------------

\* The moments of a save between its last look and its new fingerprint.
Blind(e) == ui[e] \in {"write", "tidy", "refresh"}

\* A program that does not know of the lock writes, replaces or deletes the file.
Outside ==
    /\ Supersede([e \in Editors |-> IF Blind(e) THEN "late" ELSE "stale"])
    /\ UNCHANGED <<lockVars, backup, ui, order, read_only, kept>>

LockWork ==
    /\ \/ \E e \in Editors : Call(e)
       \/ PutForeign
    /\ UNCHANGED <<docVars, ui, bufVars>>

Opening(e) ==
    \/ \E what \in {"begin", "blank"} : Start(e, what)
    \/ Open(e) \/ Offer(e) \/ Load(e) \/ Recover(e) \/ RecoverFails(e) \/ Fingerprint(e) \/ Begun(e)

Editing(e) ==
    \/ Retry(e) \/ Retried(e) \/ Compare(e) \/ Agree(e) \/ Reload(e)
    \/ Decline(e) \/ Dropped(e) \/ Autosave(e)

Saving(e) ==
    \/ Save(e) \/ SaveAs(e) \/ SaveAsAnswered(e) \/ SaveAsInspect(e) \/ Confirm(e) \/ Refuse(e)
    \/ Check(e) \/ Replace(e) \/ SaveFails(e) \/ Tidy(e) \/ Refresh(e)

Leaving(e) == Close(e) \/ Closed(e) \/ Quit(e) \/ Ended(e) \/ Die(e)

Next ==
    \/ \E e \in Editors : Opening(e) \/ Editing(e) \/ Saving(e) \/ Leaving(e)
    \/ LockWork
    \/ Outside

Spec == Init /\ [][Next]_vars

-----------------------------------------------------------------------------
(* Properties *)

Shows == {"down", "blank", "begin", "lock", "offer", "load", "recover", "editing", "retry",
          "compare", "stale", "reload", "drop", "saveas", "inspect", "confirm", "check",
          "write", "tidy", "refresh", "close", "quit"}

FileTypes ==
    /\ backup \in Editors \cup {Nobody} /\ newer \in BOOLEAN
    /\ ui \in [Editors -> Shows]
    /\ order \in [Editors -> {"session", "text", "as"}]
    /\ read_only \subseteq Editors /\ kept \subseteq Editors
    /\ fp \subseteq Editors /\ observed \subseteq Editors
    /\ knows \in [Editors -> {"stale", "shown", "late", "missed"}]

\* Where a process is bound to have the lock of the file.
Holds(e) ==
    \/ ui[e] \in {"compare", "stale", "reload", "inspect", "confirm", "check", "write", "tidy",
                  "refresh"}
    \/ ui[e] = "editing" /\ e \notin read_only

\* The type of every variable; and the lock and the buffer agree, through
\* retries, declined reloads, saves and failures: a buffer that may be changed
\* has the lock, and one that is only shown does not keep others from it.
TypeOK ==
    /\ LockTypes /\ FileTypes
    /\ \A e \in Editors :
        /\ Holds(e) => at[e] = "held"
        /\ ui[e] = "editing" /\ e \in read_only => at[e] = "out"
        /\ ui[e] \in {"down", "blank"} => at[e] = "out"
        /\ life[e] = "up" <=> ui[e] # "down"

\* A save replaces no version of the file that its user has neither been shown
\* nor been asked about, whoever wrote it and whatever was under way; only what
\* comes from outside between the last look and the next fingerprint is lost,
\* and what came between an opened text and its fingerprint (VersionsAreSeen).
SavesAreInformed ==
    [][\A e \in Editors : ui[e] = "write" /\ ui'[e] = "tidy" =>
           stolen \/ knows[e] \in {"shown", "late", "missed"}]_vars

\* While a buffer is not saved its autosave stays, whatever other processes
\* open, recover, save or close.
AutosaveKept ==
    ~stolen => \A e \in Editors : Holds(e) /\ e \in kept => backup = e

-----------------------------------------------------------------------------
(* A claim that the code does not keep *)

\* docs/security.md "fingerprints make those changes visible before editing a
\* formerly read-only buffer or saving".
VersionsAreSeen ==
    [][\A e \in Editors : ui[e] = "write" /\ ui'[e] = "tidy" =>
           stolen \/ knows[e] \in {"shown", "late"}]_vars

-----------------------------------------------------------------------------
(* The inductive invariant *)

\* Where a process stands with the lock, and how the file came into its buffer.
Stands(e) ==
    /\ ui[e] \in {"down", "blank", "begin"} => at[e] = "out"
    /\ ui[e] \in {"lock", "retry", "saveas"} => at[e] # "out" /\ goal[e] # "release"
    /\ ui[e] \in {"offer", "load", "recover"} =>
           at[e] = IF order[e] = "session" /\ e \notin read_only THEN "held" ELSE "out"
    /\ ui[e] \in {"drop", "close", "quit"} => at[e] = "out" \/ goal[e] = "release"
    /\ ui[e] = "editing" => at[e] = IF e \in read_only THEN "out" ELSE "held"
    /\ Holds(e) => at[e] = "held"
    /\ ui[e] \in {"retry", "compare", "stale", "reload", "drop"} => e \in read_only
    /\ ui[e] \in {"confirm", "check", "write"} => order[e] = "as" \/ e \notin read_only
    /\ ui[e] = "refresh" => e \notin read_only
    /\ ui[e] \in {"saveas", "inspect"} => order[e] = "as"
    /\ ui[e] = "down" => order[e] = "session"
    /\ ui[e] \in {"begin", "lock", "offer", "load", "recover"} => order[e] \in {"session", "text"}
    /\ life[e] = "up" <=> ui[e] # "down"

\* The fingerprint is taken, and what it is of is still to be shown.
Unread(e) ==
    \/ ui[e] \in {"begin", "offer", "load", "reload"}
    \/ ui[e] = "lock" /\ order[e] = "session"

\* A fingerprint, or an observation that was answered, that is still that of
\* the file goes with a version that the user knows.
Informed(e) ==
    /\ e \in fp /\ ~Unread(e) => knows[e] # "stale"
    /\ e \in observed /\ ui[e] = "check" => knows[e] # "stale"
    /\ Blind(e) => knows[e] # "stale"

\* Only a writable buffer has an autosave to lose.
Backed(e) ==
    e \in kept => /\ e \notin read_only
                  /\ ui[e] \in {"editing", "confirm", "check", "write", "tidy", "close"}

FileInv ==
    /\ TypeOK
    /\ \A e \in Editors : Stands(e) /\ Backed(e)
    /\ ~stolen => \A e \in Editors : Informed(e)
    /\ AutosaveKept

=============================================================================
