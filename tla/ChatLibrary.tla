----------------------------- MODULE ChatLibrary -----------------------------
(***************************************************************************)
(* A terminal and a browser at work on one chat library: TerminalChat and  *)
(* ChatService share nothing but the threads of the store, which each of   *)
(* them protects by revisions.                                             *)
(***************************************************************************)
EXTENDS TerminalChat, ChatService

vars == <<threads, chatVars, webVars>>

\* The store holds a conversation of two messages, written earlier.
Written(n) == <<Prompt(n), [Answer(n) EXCEPT !.by = {n}]>>

Init ==
    /\ threads = [t \in ThreadIds |->
                    IF t = 1 \/ t \in ReadOnly
                    THEN [revision |-> 1, deleted |-> FALSE, conv |-> 1, messages |-> Written(0)]
                    ELSE Absent]
    /\ ChatInit
    /\ WebInit

Next ==
    \/ ChatNext /\ UNCHANGED webVars
    \/ WebNext /\ UNCHANGED chatVars

Spec == Init /\ [][Next]_vars

-----------------------------------------------------------------------------
Messages == [role : {"user", "assistant"}, turn : Int, by : SUBSET Int]
Sessions == [thread : ThreadIds \cup {NoThread}, revision : Nat, conv : Nat,
             read_only : BOOLEAN, messages : Seq(Messages)]

\* Rows, jobs and the session have their types; an id not yet used has no row.
TypeOK ==
    /\ threads \in [ThreadIds -> [revision : Nat, deleted : BOOLEAN, conv : Nat,
                                  messages : Seq(Messages)]]
    /\ \A t \in ThreadIds : threads[t].revision = 0 => threads[t] = Absent
    /\ session \in Sessions
    /\ file_job \in [kind : {"none"}]
          \cup [kind : {"save"}, token : BOOLEAN, pushed : BOOLEAN, session : Sessions, save : Nat]
          \cup [kind : {"load"}, token : BOOLEAN, pushed : BOOLEAN, session : Sessions,
                thread : ThreadIds]
    /\ ui \in {"open", "leaving", "closing", "saved", "left"}
    /\ cleaning \subseteq ThreadIds

(***************************************************************************)
(* No lost update: a message leaves a thread only by a writer that has     *)
(* shown it to its user.  An answer or a prompt that the other surface has *)
(* added or edited meanwhile is never overwritten by a stale snapshot,     *)
(* neither by an autosave, at once or deferred or made while leaving, nor  *)
(* by a request of the browser.                                            *)
(***************************************************************************)
Lost(t) == TurnsOf(threads[t].messages) \ TurnsOf(threads'[t].messages)

NothingUnseenOverwritten ==
    [][\A t \in ThreadIds :
          Lost(t) \subseteq (IF web_wrote' # web_wrote THEN web_seen[t] ELSE seen)]_vars

(***************************************************************************)
(* The terminal never conflicts with itself: when the store refuses an     *)
(* autosave of a thread that may be written, a browser has written to the  *)
(* thread since.  A save that waited for the one before it goes on from    *)
(* that one's revision.                                                    *)
(***************************************************************************)
ConflictsAreOfOthers ==
    file_job.kind = "save" /\ ~file_job.pushed =>
        LET s == file_job.session
        IN Writable(s.thread) /\ s.revision # threads[s.thread].revision
              => web_wrote[s.thread] > s.revision

(***************************************************************************)
(* A conversation of the terminal is one thread of the library, however    *)
(* many autosaves were asked for before the first had given it its id.     *)
(***************************************************************************)
OneThreadPerConversation ==
    \A t, u \in ThreadIds :
        threads[t].conv = threads[u].conv /\ threads[t].conv > 1 => t = u

(***************************************************************************)
(* The two together: what one terminal saves of one conversation agrees    *)
(* with itself, in the thread and in its revision.                         *)
(***************************************************************************)
OwnSavesAgree == ConflictsAreOfOthers /\ OneThreadPerConversation

(***************************************************************************)
(* The newest autosave asked for is under way, or waits for the file job,  *)
(* or has been stored, or was refused: none is forgotten, and an older one *)
(* is never made after it.  One that waits never waits for nothing:        *)
(* whatever the file job was, a load or a save that failed, its end starts *)
(* the save.                                                               *)
(***************************************************************************)
NewestAutosaveKept ==
    /\ Deferred => Joinable(file_job)
    /\ asked \in {0, stored, failed}
                 \cup {j.save : j \in {k \in {file_job} : k.kind = "save"}}
                 \cup {deferred_store_save.save}

(***************************************************************************)
(* A turn that fails leaves no message behind: the prompt it added and its *)
(* answer, both found by their positions, are those erased, whatever was   *)
(* said, saved or cleared meanwhile.                                       *)
(***************************************************************************)
FailedTurnLeavesNothing ==
    [][active_job /\ ~active_job' /\ HasEvent({"error"}) /\ pending.added
          => Head(events).turn \notin TurnsOf(session'.messages)]_vars

(***************************************************************************)
(* While a turn is active somebody will end it, once: its model job runs,  *)
(* or its Done or Error waits in the queue, and not both.  An end is never *)
(* taken for the end of another turn, however turns are cancelled and sent *)
(* again, and no end is left over when no turn is active.                  *)
(***************************************************************************)
Ends == {i \in DOMAIN events : events[i].type \in {"done", "error", "cancelled"}}

TurnHasItsEnd ==
    ui # "saved" /\ ui # "left" =>
        IF active_job
        THEN \/ model_job.running /\ Ends = {}
             \/ ~model_job.running /\ \E i \in Ends : Ends = {i} /\ events[i].turn = model_job.turn
        ELSE ~model_job.running /\ Ends = {}

(***************************************************************************)
(* What the session shows and saves as a thread is that thread's own       *)
(* conversation, and the text of a message is of one turn.                 *)
(***************************************************************************)
TranscriptsStayApart ==
    /\ session.thread # NoThread => session.conv = threads[session.thread].conv
    /\ \A i \in DOMAIN session.messages : session.messages[i].by \subseteq {session.messages[i].turn}
=============================================================================
