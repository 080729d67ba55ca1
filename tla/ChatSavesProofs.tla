--------------------------- MODULE ChatSavesProofs ----------------------------
(***************************************************************************)
(* Two more theorems of ChatLibrary, on top of the invariant IInv of       *)
(* ChatLibraryProofs.                                                      *)
(*                                                                         *)
(* The terminal's saves agree with each other.  OwnInv says of everyone in *)
(* the terminal who holds a thread that the revision is the thread's, or   *)
(* the browser has written the thread since (Own); and of everyone who     *)
(* holds none yet that no row is of its conversation (New).  One autosave  *)
(* breaks this for the session and the deferred save, until its event is   *)
(* handled: meanwhile they follow it (Follows).                            *)
(*                                                                         *)
(* A failed turn leaves nothing.  PlaceInv says of the turn under way that *)
(* its messages are at the two positions the loop remembers or nowhere in  *)
(* the session (Placed).  A load may replace the session meanwhile; what   *)
(* it brings is older than the turn (Ages), or read before the turn could  *)
(* be stored (Unheard).                                                    *)
(***************************************************************************)
EXTENDS ChatLibraryProofs

\* The results of file jobs that wait in a queue.
ToldIn(q) == {q[i] : i \in {k \in DOMAIN q : q[k].type \in Reporting}}

IsSave(e) == e.type = "saved" /\ e.ok

\* s has the revision of its thread, unless the browser has written it since.
Own(rows, wrote, s) ==
    s.thread # NoThread =>
        s.revision = rows[s.thread].revision \/ wrote[s.thread] > s.revision

\* s has no thread yet, and no thread is of its conversation.
New(rows, next, s) ==
    s.thread = NoThread => s.conv \in 2..(next - 1) /\ \A t \in ThreadIds : rows[t].conv # s.conv

Settled(rows, wrote, next, s) == Own(rows, wrote, s) /\ New(rows, next, s)

\* s takes over what has been saved, or is of another thread.
Follows(rows, wrote, saved, s) == s.thread \in {NoThread, saved.thread} \/ Own(rows, wrote, s)

Sound(rows, wrote, next, told, s) ==
    /\ (\A e \in told : ~IsSave(e)) => Settled(rows, wrote, next, s)
    /\ \A e \in told : IsSave(e) => Follows(rows, wrote, e.session, s)

\* The save that waits is of the session's thread, unless the session has none.
WaitSound(rows, wrote, next, told, s, later) ==
    later # NoSave => /\ s.thread \in {NoThread, later.session.thread}
                      /\ Sound(rows, wrote, next, told, later.session)

JobSound(rows, wrote, next, job) ==
    /\ job.kind = "save" /\ ~job.pushed => Settled(rows, wrote, next, job.session)
    /\ job.kind = "load" /\ job.session.revision > 0 => Own(rows, wrote, job.session)

ToldSound(rows, wrote, told) ==
    \A e \in told : e.ok => e.session.thread # NoThread /\ Own(rows, wrote, e.session)

\* All who hold a thread in the terminal: session, deferred save, job, queue.
Holders(rows, wrote, next, told, s, later, job) ==
    /\ Sound(rows, wrote, next, told, s)
    /\ WaitSound(rows, wrote, next, told, s, later)
    /\ JobSound(rows, wrote, next, job)
    /\ ToldSound(rows, wrote, told)

\* Conversations are numbered, and each is of one thread.
ConvOK(rows, next) ==
    /\ next > 2
    /\ \A t \in ThreadIds : rows[t].conv < next
    /\ \A t, u \in ThreadIds : rows[t].conv = rows[u].conv /\ rows[t].conv > 1 => t = u

OwnInv ==
    /\ ConvOK(threads, next_conv)
    /\ Holders(threads, web_wrote, next_conv, ToldIn(events), session, deferred_store_save,
               file_job)

-----------------------------------------------------------------------------
(* The queue *)

LEMMA ToldQueued ==
    ASSUME TermTypes, NEW e \in Events, events' = Append(events, e)
    PROVE  ToldIn(events') = ToldIn(events) \cup (IF e.type \in Reporting THEN {e} ELSE {})
<1>1. /\ DOMAIN events' = DOMAIN events \cup {Len(events) + 1}
      /\ events'[Len(events) + 1] = e /\ \A i \in DOMAIN events : events'[i] = events[i]
  BY EventQueued
<1>. QED  BY <1>1 DEF ToldIn

LEMMA ToldTaken ==
    ASSUME IInv, events # <<>>, Handled
    PROVE  /\ Head(events).type \notin Reporting => ToldIn(events') = ToldIn(events)
           /\ Head(events).type \in Reporting =>
                /\ ToldIn(events) = {Head(events)} /\ ToldIn(events') = {}
                /\ Head(events) \in Events
<1>1. /\ Head(events) = events[1] /\ Head(events) \in Events /\ 1 \in DOMAIN events
      /\ \A i \in DOMAIN events' : i + 1 \in DOMAIN events /\ events'[i] = events[i + 1]
      /\ \A i \in DOMAIN events : i # 1 => i - 1 \in DOMAIN events' /\ i - 1 + 1 = i
  BY EventTaken DEF IInv, Types
<1>2. ASSUME Head(events).type \notin Reporting
      PROVE  ToldIn(events') = ToldIn(events)
  <2>1. ToldIn(events') \subseteq ToldIn(events)
    BY <1>1 DEF ToldIn
  <2>2. ASSUME NEW i \in DOMAIN events, events[i].type \in Reporting
        PROVE  events[i] \in ToldIn(events')
    <3>1. i # 1
      BY <1>1, <1>2, <2>2
    <3>2. i - 1 \in DOMAIN events' /\ events'[i - 1] = events[i]
      BY <1>1, <3>1
    <3>. QED  BY <2>2, <3>2 DEF ToldIn
  <2>. QED  BY <2>1, <2>2 DEF ToldIn
<1>3. ASSUME Head(events).type \in Reporting
      PROVE  ToldIn(events) = {Head(events)} /\ ToldIn(events') = {}
  <2>1. Reports' = {}
    BY <1>3, ReportsTaken DEF IInv, Types
  <2>2. \A i \in Reports : i = 1
    BY <1>1, <1>3 DEF IInv, ReportInv, Reports
  <2>. QED  BY <1>1, <1>3, <2>1, <2>2 DEF ToldIn, Reports
<1>. QED  BY <1>1, <1>2, <1>3

LEMMA NoneTold ==
    ASSUME IInv, ~Joinable(file_job) \/ ~file_job.pushed
    PROVE  ToldIn(events) = {}
<1>1. Reports = {}
  BY DEF IInv, ReportInv
<1>. QED  BY <1>1 DEF ToldIn, Reports

-----------------------------------------------------------------------------
(* What becomes of holders when rows change *)

\* Who held a thread rightly, or waited for one, still does.
Carries ==
    \A s \in Sessions : Held(threads, s) =>
        /\ Own(threads, web_wrote, s) => Own(threads', web_wrote', s)
        /\ New(threads, next_conv, s) => New(threads', next_conv', s)

LEMMA CarriedSound ==
    ASSUME Carries, NEW s \in Sessions, Held(threads, s), NEW told
    PROVE  Sound(threads, web_wrote, next_conv, told, s)
             => Sound(threads', web_wrote', next_conv', told, s)
BY DEF Carries, Sound, Settled, Follows

LEMMA HoldersCarried ==
    ASSUME IInv, OwnInv, Carries
    PROVE  Holders(threads', web_wrote', next_conv', ToldIn(events), session,
                   deferred_store_save, file_job)
<1>. DEFINE told == ToldIn(events)
<1>1. session \in Sessions /\ Held(threads, session)
  BY Session DEF Shown, Known
<1>2. Sound(threads', web_wrote', next_conv', told, session)
  BY <1>1, CarriedSound DEF OwnInv, Holders
<1>3. WaitSound(threads', web_wrote', next_conv', told, session, deferred_store_save)
  <2>1. CASE Deferred
    <3>1. deferred_store_save.session \in Sessions /\ Held(threads, deferred_store_save.session)
      BY <2>1, Waiting DEF IInv, SeenInv, Shown, Known
    <3>. QED  BY <3>1, CarriedSound DEF OwnInv, Holders, WaitSound
  <2>2. CASE ~Deferred
    BY <2>2 DEF WaitSound, Deferred
  <2>. QED  BY <2>1, <2>2
<1>4. JobSound(threads', web_wrote', next_conv', file_job)
  <2>1. CASE Joinable(file_job)
    <3>1. file_job.session \in Sessions
      BY <2>1, JobFields DEF IInv, Types, TermTypes
    <3>2. (file_job.kind = "save" /\ ~file_job.pushed) \/ file_job.kind = "load"
            => Held(threads, file_job.session)
      BY DEF IInv, SeenInv, JobKnows, Shown, Known
    <3>. QED  BY <3>1, <3>2 DEF OwnInv, Holders, JobSound, Settled, Carries
  <2>2. CASE ~Joinable(file_job)
    BY <2>2 DEF JobSound, Joinable
  <2>. QED  BY <2>1, <2>2
<1>5. ToldSound(threads', web_wrote', told)
  <2>1. ASSUME NEW i \in DOMAIN events, events[i].type \in Reporting, events[i].ok
        PROVE  events[i].session \in Sessions /\ Held(threads, events[i].session)
    <3>1. events[i] \in Events
      BY <2>1, ElementOfSeq, LenProperties DEF IInv, Types, TermTypes
    <3>2. Reported(threads, seen, events[i])
      BY <2>1 DEF IInv, SeenInv
    <3>. QED  BY <2>1, <3>1, <3>2, EventTypes DEF Reported, Reporting, Known, Loaded
  <2>2. ASSUME NEW e \in told, e.ok
        PROVE  e.session.thread # NoThread /\ Own(threads', web_wrote', e.session)
    <3>1. e.session.thread # NoThread /\ Own(threads, web_wrote, e.session)
      BY <2>2 DEF OwnInv, Holders, ToldSound
    <3>2. e.session \in Sessions /\ Held(threads, e.session)
      BY <2>1, <2>2 DEF ToldIn
    <3>. QED  BY <3>1, <3>2 DEF Carries
  <2>. QED  BY <2>2 DEF ToldSound
<1>. QED  BY <1>2, <1>3, <1>4, <1>5 DEF Holders

-----------------------------------------------------------------------------
(* What steps do to rows *)

\* A row stays of its conversation, and only the browser raises its revision.
Moved(t) ==
    /\ threads'[t].conv = threads[t].conv
    /\ \/ threads'[t].revision = threads[t].revision /\ web_wrote'[t] = web_wrote[t]
       \/ threads'[t].revision > threads[t].revision /\ web_wrote'[t] = threads'[t].revision

LEMMA MovesCarry ==
    ASSUME IInv, OwnInv, threads' \in [ThreadIds -> Rows], \A t \in ThreadIds : Moved(t),
           next_conv' \in {next_conv, next_conv + 1}
    PROVE  Carries /\ ConvOK(threads', next_conv')
<1>1. next_conv \in Nat /\ threads \in [ThreadIds -> Rows]
  BY Session, RowTypes DEF IInv
<1>2. ASSUME NEW t \in ThreadIds
      PROVE  /\ threads[t].revision \in Nat /\ threads'[t].revision \in Nat
             /\ threads[t].conv \in Nat /\ threads'[t].conv = threads[t].conv
             /\ \/ threads'[t].revision = threads[t].revision /\ web_wrote'[t] = web_wrote[t]
                \/ threads'[t].revision > threads[t].revision /\ web_wrote'[t] = threads'[t].revision
  BY <1>1 DEF Rows, Moved
<1>3. ASSUME NEW s \in Sessions, Held(threads, s), Own(threads, web_wrote, s)
      PROVE  Own(threads', web_wrote', s)
  <2>1. CASE s.thread = NoThread
    BY <2>1 DEF Own
  <2>2. CASE s.thread # NoThread
    <3>. DEFINE t == s.thread
    <3>1. t \in ThreadIds /\ s.revision \in 1..threads[t].revision
      BY <1>3, <2>2 DEF Sessions, Held
    <3>2. s.revision = threads[t].revision \/ web_wrote[t] > s.revision
      BY <1>3, <2>2 DEF Own
    <3>. HIDE DEF t
    <3>3. s.revision = threads'[t].revision \/ web_wrote'[t] > s.revision
      BY <1>2, <3>1, <3>2
    <3>. QED  BY <3>3 DEF Own, t
  <2>. QED  BY <2>1, <2>2
<1>4. ASSUME NEW s \in Sessions, New(threads, next_conv, s)
      PROVE  New(threads', next_conv', s)
  BY <1>1, <1>2, <1>4 DEF New, Sessions
<1>5. Carries
  BY <1>3, <1>4 DEF Carries
<1>6. ConvOK(threads', next_conv')
  BY <1>1, <1>2 DEF OwnInv, ConvOK
<1>. QED  BY <1>5, <1>6

LEMMA StaysMoved ==
    ASSUME UNCHANGED <<threads, web_wrote>>
    PROVE  \A t \in ThreadIds : Moved(t)
BY DEF Moved

LEMMA DeletedMoved ==
    ASSUME IInv, NEW t \in ThreadIds, threads' = SoftDelete(t), web_wrote' = web_wrote
    PROVE  threads' \in [ThreadIds -> Rows] /\ \A u \in ThreadIds : Moved(u)
<1>. DEFINE r == [threads[t] EXCEPT !.deleted = TRUE]
<1>1. threads \in [ThreadIds -> Rows] /\ threads[t] \in Rows
  BY RowTypes DEF IInv
<1>2. r \in Rows /\ r.revision = threads[t].revision /\ r.conv = threads[t].conv
  BY <1>1 DEF Rows
<1>3. threads' = [threads EXCEPT ![t] = r]
  BY DEF SoftDelete
<1>. HIDE DEF r
<1>4. /\ threads' \in [ThreadIds -> Rows] /\ threads'[t] = r
      /\ \A u \in ThreadIds \ {t} : threads'[u] = threads[u]
  BY <1>1, <1>2, <1>3
<1>. QED  BY <1>2, <1>4 DEF Moved

\* The row of a saved session is of the session's conversation.
LEMMA SavedConv ==
    ASSUME Types, NEW s \in Sessions, CanSave(s)
    PROVE  SaveSession(s)[Stored(s).thread].conv =
              IF s.thread = NoThread THEN s.conv ELSE threads[Stored(s).thread].conv
<1>. DEFINE t == Stored(s).thread
<1>1. t \in ThreadIds /\ threads \in [ThreadIds -> Rows]
  BY Saved, RowTypes
<1>2. SaveSession(s) = [threads EXCEPT ![t] =
        [revision |-> Stored(s).revision, deleted |-> FALSE,
         conv |-> IF s.thread = NoThread THEN s.conv ELSE threads[t].conv,
         messages |-> s.messages]]
  BY DEF SaveSession
<1>. HIDE DEF t
<1>3. SaveSession(s)[t].conv = IF s.thread = NoThread THEN s.conv ELSE threads[t].conv
  BY <1>1, <1>2
<1>. QED  BY <1>3 DEF t

\* A save by someone who is settled: others that are follow it.
LEMMA SaveSound ==
    ASSUME IInv, NEW next \in Nat, ConvOK(threads, next), NEW s \in Sessions, CanSave(s),
           NEW wrote, Settled(threads, wrote, next, s)
    PROVE  /\ ConvOK(SaveSession(s), next)
           /\ Stored(s) \in Sessions /\ Stored(s).thread \in ThreadIds /\ Stored(s).thread # NoThread
           /\ Stored(s).revision = SaveSession(s)[Stored(s).thread].revision
           /\ \A h \in Sessions : Settled(threads, wrote, next, h)
                                    => Follows(SaveSession(s), wrote, Stored(s), h)
<1>. DEFINE r == Stored(s)
            t == r.thread
            new == SaveSession(s)
<1>1. /\ r \in Sessions /\ t \in ThreadIds /\ t # NoThread
      /\ new[t].revision = r.revision
      /\ (IF s.thread = NoThread THEN threads[t] = Absent ELSE t = s.thread)
      /\ \A u \in ThreadIds \ {t} : new[u] = threads[u]
  BY Saved, RowTypes DEF IInv
<1>2. new[t].conv = IF s.thread = NoThread THEN s.conv ELSE threads[t].conv
  BY SavedConv DEF IInv
<1>3. \A u \in ThreadIds : threads[u].conv \in Nat
  BY RowTypes DEF IInv, Rows
<1>. HIDE DEF t, new
<1>4. ConvOK(new, next)
  <2>1. CASE s.thread = NoThread
    <3>1. s.conv \in 2..(next - 1) /\ \A u \in ThreadIds : threads[u].conv # s.conv
      BY <2>1 DEF Settled, New
    <3>2. \A u \in ThreadIds : new[u].conv = IF u = t THEN s.conv ELSE threads[u].conv
      BY <1>1, <1>2, <2>1
    <3>3. \A u \in ThreadIds : new[u].conv < next
      BY <3>1, <3>2 DEF ConvOK
    <3>4. ASSUME NEW u \in ThreadIds, NEW v \in ThreadIds, new[u].conv = new[v].conv, new[u].conv > 1
          PROVE  u = v
      BY <3>1, <3>2, <3>4 DEF ConvOK
    <3>. QED  BY <3>3, <3>4 DEF ConvOK
  <2>2. CASE s.thread # NoThread
    <3>1. \A u \in ThreadIds : new[u].conv = threads[u].conv
      BY <1>1, <1>2, <2>2
    <3>. QED  BY <3>1 DEF ConvOK
  <2>. QED  BY <2>1, <2>2
<1>5. ASSUME NEW h \in Sessions, Settled(threads, wrote, next, h)
      PROVE  Follows(new, wrote, r, h)
  <2>1. CASE h.thread \in {NoThread, t}
    BY <2>1 DEF Follows, t
  <2>2. CASE h.thread \notin {NoThread, t}
    <3>1. h.thread \in ThreadIds \ {t}
      BY <2>2 DEF Sessions
    <3>2. new[h.thread] = threads[h.thread]
      BY <1>1, <3>1
    <3>. QED  BY <1>5, <3>2 DEF Settled, Own, Follows
  <2>. QED  BY <2>1, <2>2
<1>6. /\ ConvOK(new, next) /\ r \in Sessions /\ t \in ThreadIds /\ t # NoThread
      /\ r.revision = new[t].revision
      /\ \A h \in Sessions : Settled(threads, wrote, next, h) => Follows(new, wrote, r, h)
  BY <1>1, <1>4, <1>5
<1>. QED  BY <1>6 DEF t, new

-----------------------------------------------------------------------------
(* Steps of the terminal that leave the rows alone *)

\* Two values of the session that differ in their messages only.
Alike(s, x) == x.thread = s.thread /\ x.revision = s.revision /\ x.conv = s.conv

LEMMA AlikeSound ==
    ASSUME NEW s, NEW x, Alike(s, x), NEW rows, NEW wrote, NEW next, NEW told
    PROVE  Sound(rows, wrote, next, told, s) => Sound(rows, wrote, next, told, x)
BY DEF Alike, Sound, Settled, Own, New, Follows

LEMMA MessagesAlike ==
    ASSUME NEW s \in Sessions, NEW m
    PROVE  Alike(s, [s EXCEPT !.messages = m])
BY DEF Alike, Sessions

LEMMA StillOwn ==
    ASSUME IInv, OwnInv, UNCHANGED <<threads, web_wrote>>, next_conv' \in {next_conv, next_conv + 1}
    PROVE  /\ ConvOK(threads, next_conv')
           /\ Holders(threads, web_wrote, next_conv', ToldIn(events), session,
                      deferred_store_save, file_job)
<1>1. threads' \in [ThreadIds -> Rows] /\ \A t \in ThreadIds : Moved(t)
  BY RowTypes, StaysMoved DEF IInv
<1>2. /\ Carries /\ ConvOK(threads', next_conv')
      /\ threads' = threads /\ web_wrote' = web_wrote
  BY <1>1, MovesCarry
<1>3. Holders(threads', web_wrote', next_conv', ToldIn(events), session, deferred_store_save, file_job)
  BY <1>2, HoldersCarried
<1>. QED  BY <1>2, <1>3

\* Messages are written and events come and go, no thread is concerned.
LEMMA QuietOwn ==
    ASSUME IInv, OwnInv, UNCHANGED <<threads, web_wrote, next_conv, deferred_store_save>>,
           ToldIn(events') = ToldIn(events), Alike(session, session'),
           JobSound(threads, web_wrote, next_conv, file_job')
    PROVE  OwnInv'
<1>. DEFINE told == ToldIn(events)
<1>1. Sound(threads, web_wrote, next_conv, told, session')
  BY AlikeSound DEF OwnInv, Holders
<1>2. WaitSound(threads, web_wrote, next_conv, told, session', deferred_store_save)
  BY DEF OwnInv, Holders, WaitSound, Alike
<1>3. Holders(threads', web_wrote', next_conv', ToldIn(events'), session', deferred_store_save',
              file_job')
  BY <1>1, <1>2 DEF OwnInv, Holders
<1>. QED  BY <1>3 DEF OwnInv

LEMMA JobSoundNow ==
    ASSUME OwnInv
    PROVE  JobSound(threads, web_wrote, next_conv, file_job)
BY DEF OwnInv, Holders

\* A job that is cancelled or reports holds what it held.
LEMMA JobSameSound ==
    ASSUME NEW rows, NEW wrote, NEW next, NEW job, NEW other, other.kind = job.kind,
           other.session = job.session, ~other.pushed => ~job.pushed, JobSound(rows, wrote, next, job)
    PROVE  JobSound(rows, wrote, next, other)
BY DEF JobSound

\* An autosave of a session that may have begun a conversation.
LEMMA AutosaveOwn ==
    ASSUME IInv, OwnInv, UNCHANGED <<threads, web_wrote>>, next_conv' \in {next_conv, next_conv + 1},
           ToldIn(events') = ToldIn(events), session'.thread \in {NoThread, session.thread},
           Sound(threads, web_wrote, next_conv', ToldIn(events), session'),
           session' \in Sessions,
           StoreSave(session', file_job, deferred_store_save)
    PROVE  OwnInv'
<1>. DEFINE told == ToldIn(events)
            s == session'
<1>1. /\ ConvOK(threads, next_conv')
      /\ WaitSound(threads, web_wrote, next_conv', told, session, deferred_store_save)
      /\ JobSound(threads, web_wrote, next_conv', file_job)
      /\ ToldSound(threads, web_wrote, told)
  BY StillOwn DEF Holders
<1>2. /\ WaitSound(threads, web_wrote, next_conv', told, s, deferred_store_save')
      /\ JobSound(threads, web_wrote, next_conv', file_job')
  <2>1. CASE s.read_only
    <3>1. UNCHANGED <<file_job, deferred_store_save>>
      BY <2>1 DEF StoreSave
    <3>. QED  BY <1>1, <3>1 DEF WaitSound
  <2>2. CASE ~s.read_only /\ Joinable(file_job)
    <3>1. file_job' = file_job /\ deferred_store_save' = [session |-> s, save |-> asked + 1]
      BY <2>2 DEF StoreSave
    <3>. QED  BY <1>1, <3>1 DEF WaitSound
  <2>3. CASE ~s.read_only /\ ~Joinable(file_job)
    <3>1. file_job' = SaveJob(s, asked + 1) /\ deferred_store_save' = NoSave
      BY <2>3 DEF StoreSave
    <3>2. told = {}
      BY <2>3, NoneTold
    <3>3. Settled(threads, web_wrote, next_conv', s)
      BY <3>2 DEF Sound
    <3>. QED  BY <3>1, <3>3 DEF WaitSound, JobSound, SaveJob
  <2>. QED  BY <2>1, <2>2, <2>3
<1>3. Holders(threads', web_wrote', next_conv', ToldIn(events'), session', deferred_store_save',
              file_job')
  BY <1>1, <1>2 DEF Holders
<1>. QED  BY <1>1, <1>3 DEF OwnInv

LEMMA AutosaveAlikeOwn ==
    ASSUME IInv, OwnInv, UNCHANGED <<threads, web_wrote, next_conv>>,
           ToldIn(events') = ToldIn(events), session' \in Sessions, Alike(session, session'),
           StoreSave(session', file_job, deferred_store_save)
    PROVE  OwnInv'
<1>1. Sound(threads, web_wrote, next_conv', ToldIn(events), session')
  BY AlikeSound DEF OwnInv, Holders
<1>. QED  BY <1>1, AutosaveOwn DEF Alike

\* A conversation that begins: no row is of it.
LEMMA BeginsOwn ==
    ASSUME IInv, OwnInv, next_conv' = next_conv + 1, NEW s, s.thread = NoThread, s.conv = next_conv,
           NEW told
    PROVE  Sound(threads, web_wrote, next_conv', told, s)
<1>1. next_conv \in Nat /\ \A t \in ThreadIds : threads[t].conv \in Nat
  BY Session, RowTypes DEF IInv, Rows
<1>2. next_conv > 2 /\ \A t \in ThreadIds : threads[t].conv < next_conv
  BY DEF OwnInv, ConvOK
<1>. QED  BY <1>1, <1>2 DEF Sound, Settled, Own, New, Follows

-----------------------------------------------------------------------------
(* The keys *)

LEMMA TurnAlike ==
    ASSUME IInv, NEW m, StartTurn(m)
    PROVE  Alike(session, session')
<1>1. session' = [session EXCEPT !.messages = m \o <<Prompt(next_turn), Answer(next_turn)>>]
  BY DEF StartTurn
<1>. QED  BY <1>1, Session, MessagesAlike

LEMMA TurnKeysOwn ==
    ASSUME IInv, OwnInv, UNCHANGED webVars,
           Send \/ Respond \/ Regenerate \/ RegenerateActive \/ Escape
    PROVE  OwnInv'
<1>1. UNCHANGED <<threads, web_wrote, next_conv, deferred_store_save, events>>
  BY DEF webVars, Send, Respond, Regenerate, RegenerateActive, Escape
<1>2. Alike(session, session')
  <2>1. CASE Send
    BY <2>1, TurnAlike DEF Send
  <2>2. CASE Respond
    <3>1. session' = [session EXCEPT !.messages = Append(session.messages, Answer(next_turn))]
      BY <2>2 DEF Respond
    <3>. QED  BY <3>1, Session, MessagesAlike
  <2>3. CASE Regenerate
    BY <2>3, TurnAlike DEF Regenerate
  <2>4. CASE RegenerateActive \/ Escape
    BY <2>4 DEF RegenerateActive, Escape, Alike
  <2>. QED  BY <2>1, <2>2, <2>3, <2>4
<1>3. JobSound(threads, web_wrote, next_conv, file_job')
  <2>1. CASE file_job' = file_job
    BY <2>1, JobSoundNow
  <2>2. CASE Escape /\ ~active_job
    <3>1. Joinable(file_job) /\ file_job' = [file_job EXCEPT !.token = TRUE]
      BY <2>2 DEF Escape
    <3>2. /\ file_job'.kind = file_job.kind /\ file_job'.pushed = file_job.pushed
          /\ file_job'.session = file_job.session
      BY <3>1, JobCancelled DEF IInv, Types, TermTypes
    <3>. QED  BY <3>2, JobSoundNow, JobSameSound
  <2>. QED  BY <2>1, <2>2 DEF Send, Respond, Regenerate, RegenerateActive, Escape
<1>. QED  BY <1>1, <1>2, <1>3, QuietOwn

LEMMA NewThreadOwn ==
    ASSUME IInv, OwnInv, UNCHANGED webVars, NewThread
    PROVE  OwnInv'
<1>1. /\ session' = Fresh(next_conv) /\ next_conv' = next_conv + 1
      /\ UNCHANGED <<threads, web_wrote, events>>
      /\ StoreSave(session', file_job, deferred_store_save)
  BY DEF NewThread, webVars
<1>2. session' \in Sessions /\ session'.thread = NoThread /\ session'.conv = next_conv
  BY <1>1, Session, FreshSession DEF Fresh
<1>3. Sound(threads, web_wrote, next_conv', ToldIn(events), session')
  BY <1>1, <1>2, BeginsOwn
<1>. QED  BY <1>1, <1>2, <1>3, AutosaveOwn

LEMMA CloneOwn ==
    ASSUME IInv, OwnInv, UNCHANGED webVars, Clone
    PROVE  OwnInv'
<1>. DEFINE q == InRow(session, NoThread, 0)
<1>1. /\ session' = [q EXCEPT !.conv = next_conv] /\ next_conv' = next_conv + 1
      /\ UNCHANGED <<threads, web_wrote, events>>
      /\ StoreSave(session', file_job, deferred_store_save)
  BY DEF Clone, InRow, webVars
<1>2. q \in Sessions /\ q.thread = NoThread
  BY Session, WithRow
<1>. HIDE DEF q
<1>3. session' \in Sessions /\ session'.thread = NoThread /\ session'.conv = next_conv
  BY <1>1, <1>2, Session DEF Sessions
<1>4. Sound(threads, web_wrote, next_conv', ToldIn(events), session')
  BY <1>1, <1>3, BeginsOwn
<1>. QED  BY <1>1, <1>3, <1>4, AutosaveOwn

LEMMA PopOwn ==
    ASSUME IInv, IInv', OwnInv, UNCHANGED webVars, Pop \/ ChangeSetting
    PROVE  OwnInv'
<1>1. /\ UNCHANGED <<threads, web_wrote, next_conv, events>>
      /\ StoreSave(session', file_job, deferred_store_save)
  BY DEF Pop, ChangeSetting, webVars
<1>2. Alike(session, session')
  <2>1. CASE Pop
    <3>1. session' = [session EXCEPT !.messages = Front(session.messages)]
      BY <2>1 DEF Pop
    <3>. QED  BY <3>1, Session, MessagesAlike
  <2>2. CASE ChangeSetting
    BY <2>2 DEF ChangeSetting, Alike
  <2>. QED  BY <2>1, <2>2
<1>3. session' \in Sessions
  BY DEF IInv, Types, TermTypes
<1>. QED  BY <1>1, <1>2, <1>3, AutosaveAlikeOwn

LEMMA EditOwn ==
    ASSUME IInv, IInv', OwnInv, UNCHANGED webVars,
           Clear \/ StartHistoryEdit \/ FinishHistoryEdit \/ CancelHistoryEdit
    PROVE  OwnInv'
<1>1. UNCHANGED <<threads, web_wrote, next_conv, events>>
  BY DEF webVars, Clear, StartHistoryEdit, FinishHistoryEdit, CancelHistoryEdit, jobVars
<1>2. session' \in Sessions
  BY DEF IInv, Types, TermTypes
<1>3. Alike(session, session')
  <2>1. CASE Clear
    <3>1. session' = [session EXCEPT !.messages = <<>>]
      BY <2>1 DEF Clear
    <3>. QED  BY <3>1, Session, MessagesAlike
  <2>2. CASE UNCHANGED session
    BY <2>2 DEF Alike
  <2>3. CASE FinishHistoryEdit /\ history_edit.index \in DOMAIN session.messages
    <3>1. session' = [session EXCEPT !.messages[history_edit.index].by = history_edit.by]
      BY <2>3 DEF FinishHistoryEdit
    <3>2. session' = [session EXCEPT !.messages =
                        [session.messages EXCEPT ![history_edit.index].by = history_edit.by]]
      BY <3>1
    <3>. QED  BY <3>2, Session, MessagesAlike
  <2>. QED  BY <2>1, <2>2, <2>3 DEF Clear, StartHistoryEdit, FinishHistoryEdit, CancelHistoryEdit
<1>4. CASE StoreSave(session', file_job, deferred_store_save)
  BY <1>1, <1>2, <1>3, <1>4, AutosaveAlikeOwn
<1>5. CASE UNCHANGED <<file_job, deferred_store_save>>
  BY <1>1, <1>3, <1>5, JobSoundNow, QuietOwn
<1>. QED  BY <1>4, <1>5 DEF Clear, StartHistoryEdit, FinishHistoryEdit, CancelHistoryEdit, jobVars

LEMMA LoadThreadOwn ==
    ASSUME IInv, OwnInv, UNCHANGED webVars, NEW t \in ThreadIds, LoadThread(t)
    PROVE  OwnInv'
<1>1. /\ UNCHANGED <<threads, web_wrote, next_conv, deferred_store_save, events, session>>
      /\ file_job'.kind = "load" /\ file_job'.session = Fresh(0)
  BY DEF webVars, LoadThread
<1>2. JobSound(threads, web_wrote, next_conv, file_job')
  BY <1>1 DEF JobSound, Fresh
<1>. QED  BY <1>1, <1>2, QuietOwn DEF Alike

\* /remove of the open thread begins a conversation.
LEMMA RemoveThreadOwn ==
    ASSUME IInv, OwnInv, UNCHANGED webVars, NEW t \in ThreadIds, RemoveThread(t)
    PROVE  OwnInv'
<1>. DEFINE told == ToldIn(events)
<1>1. /\ threads' = SoftDelete(t) /\ UNCHANGED <<web_wrote, deferred_store_save, file_job, events>>
      /\ IF t = session.thread THEN session' = Fresh(next_conv) /\ next_conv' = next_conv + 1
         ELSE UNCHANGED <<session, next_conv>>
  BY DEF RemoveThread, jobVars, webVars
<1>2. threads' \in [ThreadIds -> Rows] /\ \A u \in ThreadIds : Moved(u)
  BY <1>1, DeletedMoved
<1>3. next_conv' \in {next_conv, next_conv + 1}
  BY <1>1
<1>4. Carries /\ ConvOK(threads', next_conv')
  BY <1>2, <1>3, MovesCarry
<1>5. Holders(threads', web_wrote', next_conv', told, session, deferred_store_save, file_job)
  BY <1>4, HoldersCarried
<1>6. CASE t # session.thread
  BY <1>1, <1>4, <1>5, <1>6 DEF OwnInv
<1>7. CASE t = session.thread
  <2>1. session'.thread = NoThread /\ session'.conv = next_conv
    BY <1>1, <1>7 DEF Fresh
  <2>2. next_conv \in Nat /\ next_conv > 2 /\ next_conv' = next_conv + 1
    BY <1>1, <1>7, Session DEF OwnInv, ConvOK
  <2>3. \A u \in ThreadIds : threads'[u].conv # next_conv
    <3>1. ASSUME NEW u \in ThreadIds
          PROVE  threads'[u].conv = threads[u].conv /\ threads[u].conv < next_conv
                 /\ threads[u].conv \in Nat
      BY <1>2, RowTypes DEF Moved, OwnInv, ConvOK, IInv, Rows
    <3>. QED  BY <2>2, <3>1
  <2>4. Sound(threads', web_wrote', next_conv', told, session')
    BY <2>1, <2>2, <2>3 DEF Sound, Settled, Own, New, Follows
  <2>5. WaitSound(threads', web_wrote', next_conv', told, session', deferred_store_save)
    BY <1>5, <2>1 DEF Holders, WaitSound
  <2>. QED  BY <1>1, <1>4, <1>5, <2>4, <2>5 DEF OwnInv, Holders
<1>. QED  BY <1>6, <1>7

LEMMA KeysOwn ==
    ASSUME IInv, IInv', OwnInv, UNCHANGED webVars, Keys
    PROVE  OwnInv'
BY TurnKeysOwn, NewThreadOwn, CloneOwn, PopOwn, EditOwn, LoadThreadOwn, RemoveThreadOwn DEF Keys

-----------------------------------------------------------------------------
(* The jobs and their events *)

\* The model job reports no file job.
LEMMA ModelTells ==
    ASSUME IInv, Model
    PROVE  ToldIn(events') = ToldIn(events)
<1>1. TermTypes
  BY DEF IInv, Types
<1>2. PICK e : events' = Append(events, e) /\ e.type \in {"delta"} \cup Ending /\ e \in Events
  <2>1. model_job.turn \in Nat
    BY DEF IInv, Types, TermTypes
  <2>2. CASE ModelDelta
    <3>1. events' = Append(events, [type |-> "delta", turn |-> model_job.turn])
      BY <2>2 DEF ModelDelta
    <3>. QED  BY <2>1, <3>1, Told
  <2>3. CASE ModelEnd
    <3>1. PICK type \in Ending : events' = Append(events, [type |-> type, turn |-> model_job.turn])
      BY <2>3 DEF ModelEnd, Ending
    <3>. QED  BY <2>1, <3>1, Told
  <2>. QED  BY <2>2, <2>3 DEF Model
<1>. QED  BY <1>1, <1>2, ToldQueued DEF Ending, Reporting

LEMMA ModelOwn ==
    ASSUME IInv, OwnInv, UNCHANGED webVars, Model
    PROVE  OwnInv'
<1>1. UNCHANGED <<threads, web_wrote, next_conv, deferred_store_save, session, file_job>>
  BY DEF Model, ModelDelta, ModelEnd, webVars
<1>. QED  BY <1>1, ModelTells, JobSoundNow, QuietOwn DEF Alike

LEMMA StoreSaveRunsOwn ==
    ASSUME IInv, OwnInv, UNCHANGED webVars, StoreSaveRuns
    PROVE  OwnInv'
<1>. DEFINE s == file_job.session
<1>1. /\ file_job.kind = "save" /\ ~file_job.pushed /\ Joinable(file_job)
      /\ file_job' = [file_job EXCEPT !.pushed = TRUE]
      /\ UNCHANGED <<session, deferred_store_save, next_conv, web_wrote>>
      /\ SaveWorks \/ SaveFails
  BY DEF StoreSaveRuns, Joinable, webVars
<1>2. /\ TermTypes /\ s \in Sessions /\ Settled(threads, web_wrote, next_conv, s)
      /\ file_job'.pushed /\ file_job'.kind = "save" /\ next_conv \in Nat
      /\ ToldIn(events) = {}
  BY <1>1, JobFields, JobPushed, NoneTold DEF IInv, Types, TermTypes, OwnInv, Holders, JobSound
<1>3. \A rows : JobSound(rows, web_wrote, next_conv, file_job')
  BY <1>2 DEF JobSound
<1>4. CASE SaveFails
  <2>. DEFINE e == [type |-> "saved", ok |-> FALSE]
  <2>1. events' = Append(events, e) /\ UNCHANGED threads
    BY <1>4 DEF SaveFails
  <2>2. e \in Events /\ e.type \in Reporting /\ ~e.ok
    BY DEF Events, Reporting
  <2>. HIDE DEF e
  <2>3. ToldIn(events') = {e}
    BY <1>2, <2>1, <2>2, ToldQueued
  <2>4. Holders(threads, web_wrote, next_conv, {e}, session, deferred_store_save, file_job')
    BY <1>2, <1>3, <2>2 DEF OwnInv, Holders, Sound, WaitSound, ToldSound, IsSave
  <2>5. Holders(threads', web_wrote', next_conv', ToldIn(events'), session', deferred_store_save',
                file_job')
    BY <1>1, <2>1, <2>3, <2>4
  <2>. QED  BY <1>1, <2>1, <2>5 DEF OwnInv
<1>5. CASE SaveWorks
  <2>. DEFINE r == Stored(s)
              e == [type |-> "saved", ok |-> TRUE, session |-> r]
  <2>1. /\ CanSave(s) /\ threads' = SaveSession(s) /\ events' = Append(events, e)
    BY <1>5 DEF SaveWorks
  <2>2. /\ ConvOK(threads', next_conv)
        /\ r \in Sessions /\ r.thread \in ThreadIds /\ r.thread # NoThread
        /\ r.revision = threads'[r.thread].revision
        /\ \A h \in Sessions : Settled(threads, web_wrote, next_conv, h)
                                 => Follows(threads', web_wrote, r, h)
    BY <1>2, <2>1, SaveSound DEF OwnInv
  <2>. HIDE DEF r
  <2>3. e \in Events /\ e.type \in Reporting /\ IsSave(e) /\ e.session = r
    BY <2>2, Told DEF Reporting, IsSave
  <2>. HIDE DEF e
  <2>4. ToldIn(events') = {e}
    BY <1>2, <2>1, <2>3, ToldQueued
  <2>5. Sound(threads', web_wrote, next_conv, {e}, session)
    <3>1. session \in Sessions /\ Settled(threads, web_wrote, next_conv, session)
      BY <1>2, Session DEF OwnInv, Holders, Sound
    <3>. QED  BY <2>2, <2>3, <3>1 DEF Sound
  <2>6. WaitSound(threads', web_wrote, next_conv, {e}, session, deferred_store_save)
    <3>1. ASSUME Deferred
          PROVE  /\ session.thread \in {NoThread, deferred_store_save.session.thread}
                 /\ deferred_store_save.session \in Sessions
                 /\ Settled(threads, web_wrote, next_conv, deferred_store_save.session)
      BY <1>2, <3>1, Waiting DEF IInv, OwnInv, Holders, WaitSound, Sound, Deferred
    <3>. QED  BY <2>2, <2>3, <3>1 DEF WaitSound, Sound, Deferred
  <2>7. ToldSound(threads', web_wrote, {e})
    BY <2>2, <2>3 DEF ToldSound, Own
  <2>8. Holders(threads', web_wrote', next_conv', ToldIn(events'), session', deferred_store_save',
                file_job')
    BY <1>1, <1>3, <2>4, <2>5, <2>6, <2>7 DEF Holders
  <2>. QED  BY <1>1, <2>2, <2>8 DEF OwnInv
<1>. QED  BY <1>1, <1>4, <1>5

LEMMA LoadBeginsOwn ==
    ASSUME IInv, OwnInv, UNCHANGED webVars, LoadBegins
    PROVE  OwnInv'
<1>1. /\ file_job.kind = "load" /\ file_job \in FileJobs
      /\ file_job' = [file_job EXCEPT !.session = LoadRow(file_job.thread)]
      /\ UNCHANGED <<threads, web_wrote, next_conv, deferred_store_save, session, events>>
  BY DEF LoadBegins, webVars, IInv, Types, TermTypes
<1>2. file_job'.kind = "load" /\ file_job'.session = LoadRow(file_job.thread)
  BY <1>1 DEF FileJobs
<1>3. JobSound(threads, web_wrote, next_conv, file_job')
  BY <1>2 DEF JobSound, LoadRow, Own
<1>. QED  BY <1>1, <1>3, QuietOwn DEF Alike

LEMMA LoadEndsOwn ==
    ASSUME IInv, OwnInv, UNCHANGED webVars, LoadEnds
    PROVE  OwnInv'
<1>1. /\ file_job.kind = "load" /\ ~file_job.pushed /\ Joinable(file_job)
      /\ file_job' = [file_job EXCEPT !.pushed = TRUE]
      /\ UNCHANGED <<threads, web_wrote, next_conv, deferred_store_save, session>>
  BY DEF LoadEnds, Joinable, webVars
<1>2. TermTypes /\ ToldIn(events) = {} /\ file_job \in FileJobs
  BY <1>1, NoneTold DEF IInv, Types, TermTypes
<1>3. JobSound(threads, web_wrote, next_conv, file_job')
  <2>1. file_job'.kind = file_job.kind /\ file_job'.pushed /\ file_job'.session = file_job.session
    BY <1>1, <1>2, JobPushed
  <2>. QED  BY <2>1, JobSoundNow, JobSameSound
<1>4. PICK e \in Events :
          /\ events' = Append(events, e) /\ e.type = "loaded"
          /\ e.ok => e.session.thread # NoThread /\ Own(threads, web_wrote, e.session)
  <2>1. CASE events' = Append(events, [type |-> "loaded", ok |-> FALSE])
    BY <2>1, Told DEF Reporting
  <2>2. CASE /\ file_job.session.revision > 0
             /\ events' = Append(events, [type |-> "loaded", ok |-> TRUE,
                                          session |-> LoadMessages(file_job.session)])
    <3>. DEFINE s == file_job.session
                l == LoadMessages(s)
    <3>1. /\ s \in Sessions /\ s.thread # NoThread /\ Own(threads, web_wrote, s)
      BY <1>1, <1>2, <2>2, JobFields DEF IInv, SeenInv, JobKnows, OwnInv, Holders, JobSound
    <3>2. threads[s.thread].messages \in Seq(Messages)
      BY <3>1, RowTypes DEF IInv, Sessions, Rows
    <3>3. l \in Sessions /\ l.thread = s.thread /\ l.revision = s.revision
      BY <3>1, <3>2, WithMessages DEF LoadMessages
    <3>. HIDE DEF l, s
    <3>4. l.thread # NoThread /\ Own(threads, web_wrote, l)
      BY <3>1, <3>3 DEF Own
    <3>5. [type |-> "loaded", ok |-> TRUE, session |-> l] \in Events
      BY <3>3, Told DEF Reporting
    <3>. QED  BY <2>2, <3>4, <3>5 DEF l, s
  <2>. QED  BY <2>1, <2>2 DEF LoadEnds
<1>5. ToldIn(events') = {e}
  BY <1>2, <1>4, ToldQueued DEF Reporting
<1>6. ~IsSave(e)
  BY <1>4 DEF IsSave
<1>7. Holders(threads, web_wrote, next_conv, {e}, session, deferred_store_save, file_job')
  BY <1>2, <1>3, <1>4, <1>6 DEF OwnInv, Holders, Sound, WaitSound, ToldSound
<1>8. Holders(threads', web_wrote', next_conv', ToldIn(events'), session', deferred_store_save',
              file_job')
  BY <1>1, <1>5, <1>7
<1>. QED  BY <1>1, <1>8 DEF OwnInv

\* The end of a turn, and what the model says, concern no thread.
LEMMA TurnEventsOwn ==
    ASSUME IInv, IInv', OwnInv, UNCHANGED webVars,
           HandleDelta \/ HandleDone \/ HandleCancelled \/ HandleError
    PROVE  OwnInv'
<1>1. /\ UNCHANGED <<threads, web_wrote, next_conv>> /\ events # <<>> /\ Handled
      /\ Head(events).type \in {"delta"} \cup Ending
  BY DEF webVars, HandleDelta, HandleDone, HandleCancelled, HandleError, HasEvent, Ending
<1>2. ToldIn(events') = ToldIn(events)
  BY <1>1, ToldTaken DEF Ending, Reporting
<1>3. \A m : Alike(session, [session EXCEPT !.messages = m])
  BY Session, MessagesAlike
<1>4. Alike(session, session')
  <2>1. ASSUME NEW m, NEW from, QueuedTurn(m, from)
        PROVE  Alike(session, session')
    <3>. DEFINE kept == IF from \in DOMAIN m THEN SubSeq(m, 1, from - 1) ELSE m
    <3>1. session' = [session EXCEPT !.messages = kept] \/ StartTurn(kept)
      BY <2>1 DEF QueuedTurn
    <3>. HIDE DEF kept
    <3>. QED  BY <1>3, <3>1, TurnAlike
  <2>2. CASE HandleDelta
    <3>1. CASE AnswerHere
      <4>. DEFINE m == [session.messages EXCEPT ![pending.assistant].by = @ \cup {Head(events).turn}]
      <4>1. session' = [session EXCEPT !.messages = m]
        BY <2>2, <3>1 DEF HandleDelta
      <4>. QED  BY <1>3, <4>1
    <3>2. CASE ~AnswerHere
      BY <2>2, <3>2 DEF HandleDelta, Alike
    <3>. QED  BY <3>1, <3>2
  <2>3. CASE HandleDone
    <3>1. \/ session' = [session EXCEPT !.messages = Answered(session.messages, Head(events).turn)]
          \/ QueuedTurn(Answered(session.messages, Head(events).turn), pending.user)
      BY <2>3 DEF HandleDone
    <3>. QED  BY <1>3, <2>1, <3>1
  <2>4. CASE HandleCancelled
    <3>1. \/ session' = [session EXCEPT !.messages = KeptCancelled(session.messages)]
          \/ QueuedTurn(RolledBack(session.messages), IF pending.added THEN 0 ELSE pending.user)
      BY <2>4 DEF HandleCancelled
    <3>. QED  BY <1>3, <2>1, <3>1
  <2>5. CASE HandleError
    <3>1. session' = [session EXCEPT !.messages = RolledBack(session.messages)]
      BY <2>5 DEF HandleError
    <3>. QED  BY <1>3, <3>1
  <2>. QED  BY <2>2, <2>3, <2>4, <2>5
<1>5. session' \in Sessions
  BY DEF IInv, Types, TermTypes
<1>6. CASE StoreSave(session', file_job, deferred_store_save)
  BY <1>1, <1>2, <1>4, <1>5, <1>6, AutosaveAlikeOwn
<1>7. CASE UNCHANGED <<file_job, deferred_store_save>>
  BY <1>1, <1>2, <1>4, <1>7, JobSoundNow, QuietOwn
<1>. QED  BY <1>6, <1>7 DEF HandleDelta, HandleDone, HandleCancelled, HandleError

\* Whoever followed a save is settled once its result was taken over.
LEMMA AdoptedSound ==
    ASSUME NEW s \in Sessions, NEW saved \in Sessions, NEW rows, NEW wrote, NEW next,
           saved.thread # NoThread, Own(rows, wrote, saved), Follows(rows, wrote, saved, s)
    PROVE  Settled(rows, wrote, next, AfterSave(s, saved))
<1>1. CASE Adopts(s, saved)
  <2>1. saved.thread \in ThreadIds \cup {NoThread} /\ saved.revision \in Nat
    BY DEF Sessions
  <2>2. AfterSave(s, saved) = InRow(s, saved.thread, saved.revision)
    BY <1>1 DEF AfterSave
  <2>3. /\ AfterSave(s, saved).thread = saved.thread
        /\ AfterSave(s, saved).revision = saved.revision
    BY <2>1, <2>2, WithRow
  <2>. QED  BY <2>3 DEF Settled, Own, New
<1>2. CASE ~Adopts(s, saved)
  BY <1>2 DEF AfterSave, Adopts, Follows, Settled, New
<1>. QED  BY <1>1, <1>2

LEMMA PatchedSound ==
    ASSUME NEW later \in Saves, later # NoSave, NEW s \in Sessions, NEW saved \in Sessions,
           NEW rows, NEW wrote, NEW next, saved.thread # NoThread, Own(rows, wrote, saved),
           Follows(rows, wrote, saved, s), Follows(rows, wrote, saved, later.session),
           s.thread \in {NoThread, later.session.thread}
    PROVE  Settled(rows, wrote, next, Patched(later, s, saved).session)
<1>1. later \in [session : Sessions, save : Nat] /\ later.session \in Sessions
  BY DEF Saves
<1>2. CASE ~Adopts(s, saved)
  <2>1. later.session.thread \notin {NoThread, saved.thread}
    BY <1>2 DEF Adopts
  <2>. QED  BY <1>2, <2>1 DEF Patched, Follows, Settled, New
<1>3. CASE Adopts(s, saved) /\ ~Adopts(later.session, saved)
  <2>1. later.session.thread \notin {NoThread, saved.thread}
    BY <1>3 DEF Adopts
  <2>. QED  BY <1>3, <2>1 DEF Patched, Follows, Settled, New
<1>4. CASE Adopts(s, saved) /\ Adopts(later.session, saved)
  <2>. DEFINE r == InRow(later.session, saved.thread, saved.revision)
  <2>1. Patched(later, s, saved) = [later EXCEPT !.session = r]
    BY <1>4 DEF Patched
  <2>2. r = AfterSave(later.session, saved)
    BY <1>4 DEF AfterSave
  <2>. HIDE DEF r
  <2>3. Patched(later, s, saved).session = r
    BY <1>1, <2>1
  <2>. QED  BY <1>1, <2>2, <2>3, AdoptedSound
<1>. QED  BY <1>2, <1>3, <1>4

\* The file job that is resumed is settled.
LEMMA ResumedSound ==
    ASSUME NEW later \in Saves, Resume(later), NEW rows, NEW wrote, NEW next,
           later # NoSave => Settled(rows, wrote, next, later.session)
    PROVE  JobSound(rows, wrote, next, file_job') /\ deferred_store_save' = NoSave
<1>1. CASE later = NoSave
  BY <1>1, NoFileJob DEF Resume, JobSound
<1>2. CASE later # NoSave
  <2>1. file_job' = SaveJob(later.session, later.save) /\ deferred_store_save' = NoSave
    BY <1>2 DEF Resume
  <2>. QED  BY <1>2, <2>1 DEF SaveJob, JobSound
<1>. QED  BY <1>1, <1>2

\* What the result of a save leaves behind: for the loop, and at exit.
LEMMA ResultSound ==
    ASSUME IInv, OwnInv, NEW e \in ToldIn(events)
    PROVE  /\ e \in Events
           /\ IsSave(e) =>
                /\ e.session \in Sessions
                /\ Settled(threads, web_wrote, next_conv, AfterSave(session, e.session))
                /\ Deferred => Settled(threads, web_wrote, next_conv,
                                       Patched(deferred_store_save, session, e.session).session)
<1>1. e \in Events /\ e.type \in Reporting
  BY ElementOfSeq, LenProperties DEF ToldIn, IInv, Types, TermTypes
<1>2. ASSUME IsSave(e)
      PROVE  /\ e.session \in Sessions
             /\ Settled(threads, web_wrote, next_conv, AfterSave(session, e.session))
             /\ Deferred => Settled(threads, web_wrote, next_conv,
                                    Patched(deferred_store_save, session, e.session).session)
  <2>1. e.session \in Sessions /\ e.session.thread # NoThread /\ Own(threads, web_wrote, e.session)
    BY <1>1, <1>2, EventTypes DEF IsSave, OwnInv, Holders, ToldSound
  <2>2. session \in Sessions /\ Follows(threads, web_wrote, e.session, session)
    BY <1>2, Session DEF OwnInv, Holders, Sound
  <2>3. Settled(threads, web_wrote, next_conv, AfterSave(session, e.session))
    BY <2>1, <2>2, AdoptedSound
  <2>4. ASSUME Deferred
        PROVE  Settled(threads, web_wrote, next_conv,
                       Patched(deferred_store_save, session, e.session).session)
    <3>1. deferred_store_save \in Saves /\ deferred_store_save # NoSave
      BY <2>4 DEF Deferred, IInv, Types, TermTypes
    <3>2. /\ session.thread \in {NoThread, deferred_store_save.session.thread}
          /\ Follows(threads, web_wrote, e.session, deferred_store_save.session)
      BY <1>2, <3>1 DEF OwnInv, Holders, WaitSound, Sound
    <3>. QED  BY <2>1, <2>2, <3>1, <3>2, PatchedSound
  <2>. QED  BY <2>1, <2>3, <2>4
<1>. QED  BY <1>1, <1>2

LEMMA HandleSavedOwn ==
    ASSUME IInv, OwnInv, UNCHANGED webVars, HandleSaved
    PROVE  OwnInv'
<1>. DEFINE e == Head(events)
            later == IF e.ok THEN Patched(deferred_store_save, session, e.session)
                     ELSE deferred_store_save
<1>1. /\ events # <<>> /\ Handled /\ e.type = "saved"
      /\ session' = (IF e.ok THEN AfterSave(session, e.session) ELSE session)
      /\ Resume(later) /\ UNCHANGED <<threads, web_wrote, next_conv>>
  BY DEF HandleSaved, HasEvent, webVars
<1>2. ToldIn(events) = {e} /\ ToldIn(events') = {} /\ e \in Events
  BY <1>1, ToldTaken DEF Reporting
<1>3. deferred_store_save \in Saves /\ session \in Sessions
  BY DEF IInv, Types, TermTypes
<1>4. /\ Settled(threads, web_wrote, next_conv, session')
      /\ later \in Saves
      /\ later # NoSave => Settled(threads, web_wrote, next_conv, later.session)
  <2>1. CASE e.ok
    <3>1. IsSave(e) /\ e \in ToldIn(events)
      BY <1>1, <1>2, <2>1 DEF IsSave
    <3>2. /\ e.session \in Sessions
          /\ Settled(threads, web_wrote, next_conv, AfterSave(session, e.session))
          /\ Deferred => Settled(threads, web_wrote, next_conv,
                                 Patched(deferred_store_save, session, e.session).session)
      BY <3>1, ResultSound
    <3>. DEFINE p == Patched(deferred_store_save, session, e.session)
    <3>3. p \in Saves /\ (p = NoSave <=> deferred_store_save = NoSave)
      BY <1>3, <3>2, PatchedSave
    <3>4. later = p /\ session' = AfterSave(session, e.session)
      BY <1>1, <2>1
    <3>. HIDE DEF later
    <3>. QED  BY <3>2, <3>3, <3>4 DEF Deferred
  <2>2. CASE ~e.ok
    <3>1. \A x \in ToldIn(events) : ~IsSave(x)
      BY <1>2, <2>2 DEF IsSave
    <3>2. /\ Settled(threads, web_wrote, next_conv, session)
          /\ deferred_store_save # NoSave
               => Settled(threads, web_wrote, next_conv, deferred_store_save.session)
      BY <3>1 DEF OwnInv, Holders, Sound, WaitSound
    <3>3. later = deferred_store_save /\ session' = session
      BY <1>1, <2>2
    <3>. HIDE DEF later
    <3>. QED  BY <1>3, <3>2, <3>3
  <2>. QED  BY <2>1, <2>2
<1>. HIDE DEF later
<1>5. JobSound(threads, web_wrote, next_conv, file_job') /\ deferred_store_save' = NoSave
  BY <1>1, <1>4, ResumedSound
<1>6. Holders(threads, web_wrote, next_conv, {}, session', deferred_store_save', file_job')
  BY <1>4, <1>5 DEF Holders, Sound, WaitSound, ToldSound
<1>7. Holders(threads', web_wrote', next_conv', ToldIn(events'), session', deferred_store_save',
              file_job')
  BY <1>1, <1>2, <1>6
<1>. QED  BY <1>1, <1>7 DEF OwnInv

LEMMA HandleLoadedOwn ==
    ASSUME IInv, OwnInv, UNCHANGED webVars, HandleLoaded
    PROVE  OwnInv'
<1>. DEFINE e == Head(events)
<1>1. /\ events # <<>> /\ Handled /\ e.type = "loaded"
      /\ session' = (IF e.ok THEN e.session ELSE session)
      /\ Resume(deferred_store_save) /\ UNCHANGED <<threads, web_wrote, next_conv>>
  BY DEF HandleLoaded, HasEvent, webVars
<1>2. ToldIn(events) = {e} /\ ToldIn(events') = {} /\ ~IsSave(e)
  BY <1>1, ToldTaken DEF Reporting, IsSave
<1>3. /\ Settled(threads, web_wrote, next_conv, session)
      /\ deferred_store_save # NoSave
           => Settled(threads, web_wrote, next_conv, deferred_store_save.session)
  BY <1>2 DEF OwnInv, Holders, Sound, WaitSound
<1>4. e.ok => e.session.thread # NoThread /\ Own(threads, web_wrote, e.session)
  BY <1>2 DEF OwnInv, Holders, ToldSound
<1>5. Settled(threads, web_wrote, next_conv, session')
  BY <1>1, <1>3, <1>4 DEF Settled, New
<1>6. deferred_store_save \in Saves
  BY DEF IInv, Types, TermTypes
<1>7. JobSound(threads, web_wrote, next_conv, file_job') /\ deferred_store_save' = NoSave
  BY <1>1, <1>3, <1>6, ResumedSound
<1>8. Holders(threads, web_wrote, next_conv, {}, session', deferred_store_save', file_job')
  BY <1>5, <1>7 DEF Holders, Sound, WaitSound, ToldSound
<1>9. Holders(threads', web_wrote', next_conv', ToldIn(events'), session', deferred_store_save',
              file_job')
  BY <1>1, <1>2, <1>8
<1>. QED  BY <1>1, <1>9 DEF OwnInv

-----------------------------------------------------------------------------
(* Leaving *)

LEMMA QuitOwn ==
    ASSUME IInv, OwnInv, UNCHANGED webVars, Quit \/ CancelFileJob
    PROVE  OwnInv'
<1>1. UNCHANGED <<threads, web_wrote, next_conv, deferred_store_save, session, events>>
  BY DEF Quit, CancelFileJob, webVars
<1>2. JobSound(threads, web_wrote, next_conv, file_job')
  <2>1. CASE file_job' = file_job
    BY <2>1, JobSoundNow
  <2>2. CASE Joinable(file_job) /\ file_job' = [file_job EXCEPT !.token = TRUE]
    <3>1. /\ file_job'.kind = file_job.kind /\ file_job'.pushed = file_job.pushed
          /\ file_job'.session = file_job.session
      BY <2>2, JobCancelled DEF IInv, Types, TermTypes
    <3>. QED  BY <3>1, JobSoundNow, JobSameSound
  <2>. QED  BY <2>1, <2>2 DEF Quit, CancelFileJob
<1>. QED  BY <1>1, <1>2, QuietOwn DEF Alike

LEMMA AtExitOwn ==
    ASSUME IInv, OwnInv, UNCHANGED webVars, SaveAtExit,
           NEW s \in Sessions, Settled(threads, web_wrote, next_conv, s),
           NEW later \in Saves, AtExit(s, later),
           later # NoSave => Settled(threads, web_wrote, next_conv, later.session)
    PROVE  OwnInv'
<1>1. /\ file_job' = NoFile /\ deferred_store_save' = NoSave /\ events' = <<>>
      /\ UNCHANGED <<next_conv, web_wrote>> /\ next_conv \in Nat
  BY Session DEF SaveAtExit, webVars
<1>2. ToldIn(events') = {}
  BY <1>1 DEF ToldIn
<1>3. ConvOK(threads', next_conv) /\ Settled(threads', web_wrote, next_conv, session')
  <2>1. CASE session' = s /\ UNCHANGED threads
    BY <2>1 DEF OwnInv
  <2>2. CASE /\ later # NoSave /\ CanSave(later.session) /\ threads' = SaveSession(later.session)
             /\ session' = InRow(s, Stored(later.session).thread, Stored(later.session).revision)
    <3>. DEFINE r == Stored(later.session)
    <3>1. later.session \in Sessions /\ Settled(threads, web_wrote, next_conv, later.session)
      BY <2>2 DEF Saves
    <3>2. /\ ConvOK(threads', next_conv)
          /\ r \in Sessions /\ r.thread \in ThreadIds /\ r.thread # NoThread
          /\ r.revision = threads'[r.thread].revision
      BY <1>1, <2>2, <3>1, SaveSound DEF OwnInv
    <3>3. session' = InRow(s, r.thread, r.revision)
      BY <2>2
    <3>. HIDE DEF r
    <3>4. r.thread \in ThreadIds \cup {NoThread} /\ r.revision \in Nat
      BY <3>2 DEF Sessions
    <3>5. session'.thread = r.thread /\ session'.revision = r.revision
      BY <3>3, <3>4, WithRow
    <3>. QED  BY <3>2, <3>5 DEF Settled, Own, New
  <2>. QED  BY <2>1, <2>2 DEF AtExit
<1>4. Holders(threads', web_wrote, next_conv, {}, session', NoSave, NoFile)
  BY <1>3, NoFileJob DEF Holders, Sound, WaitSound, ToldSound, JobSound
<1>5. Holders(threads', web_wrote', next_conv', ToldIn(events'), session', deferred_store_save',
              file_job')
  BY <1>1, <1>2, <1>4
<1>. QED  BY <1>1, <1>3, <1>5 DEF OwnInv

LEMMA SaveAtExitOwn ==
    ASSUME IInv, OwnInv, UNCHANGED webVars, SaveAtExit
    PROVE  OwnInv'
<1>1. /\ events \in Seq(Events) /\ deferred_store_save \in Saves /\ session \in Sessions
  BY DEF IInv, Types, TermTypes
<1>2. CASE SavedEvents = {} /\ AtExit(session, deferred_store_save)
  <2>1. \A e \in ToldIn(events) : ~IsSave(e)
    BY <1>2 DEF SavedEvents, Range, ToldIn, IsSave
  <2>2. /\ Settled(threads, web_wrote, next_conv, session)
        /\ deferred_store_save # NoSave
             => Settled(threads, web_wrote, next_conv, deferred_store_save.session)
    BY <2>1 DEF OwnInv, Holders, Sound, WaitSound
  <2>. QED  BY <1>1, <1>2, <2>2, AtExitOwn
<1>3. ASSUME NEW e \in SavedEvents,
             AtExit(AfterSave(session, e.session), Patched(deferred_store_save, session, e.session))
      PROVE  OwnInv'
  <2>. DEFINE s == AfterSave(session, e.session)
              p == Patched(deferred_store_save, session, e.session)
  <2>1. e \in ToldIn(events) /\ IsSave(e)
    BY <1>3 DEF SavedEvents, Range, ToldIn, IsSave, Reporting
  <2>2. /\ e.session \in Sessions
        /\ Settled(threads, web_wrote, next_conv, s)
        /\ Deferred => Settled(threads, web_wrote, next_conv, p.session)
    BY <2>1, ResultSound
  <2>3. s \in Sessions
    BY <1>1, <2>2, Adopted
  <2>4. p \in Saves /\ (p = NoSave <=> deferred_store_save = NoSave)
    BY <1>1, <2>2, PatchedSave
  <2>5. AtExit(s, p)
    BY <1>3
  <2>. HIDE DEF s, p
  <2>. QED  BY <2>2, <2>3, <2>4, <2>5, AtExitOwn DEF Deferred
<1>. QED  BY <1>2, <1>3 DEF SaveAtExit

\* Rows that move while nothing else changes in the terminal.
LEMMA RowsOwn ==
    ASSUME IInv, OwnInv, threads' \in [ThreadIds -> Rows], \A t \in ThreadIds : Moved(t),
           UNCHANGED <<next_conv, events, session, deferred_store_save, file_job>>
    PROVE  OwnInv'
<1>1. Carries /\ ConvOK(threads', next_conv')
  BY MovesCarry
<1>2. Holders(threads', web_wrote', next_conv', ToldIn(events), session, deferred_store_save, file_job)
  BY <1>1, HoldersCarried
<1>. QED  BY <1>1, <1>2 DEF OwnInv

LEMMA RemoveEmptyThreadOwn ==
    ASSUME IInv, OwnInv, UNCHANGED webVars, RemoveEmptyThread
    PROVE  OwnInv'
<1>1. UNCHANGED <<next_conv, events, session, deferred_store_save, file_job, web_wrote>>
  BY DEF RemoveEmptyThread, jobVars, webVars
<1>2. threads' \in [ThreadIds -> Rows] /\ \A t \in ThreadIds : Moved(t)
  <2>1. CASE threads' = threads
    BY <1>1, <2>1, RowTypes, StaysMoved DEF IInv
  <2>2. CASE session.thread # NoThread /\ threads' = SoftDelete(session.thread)
    <3>1. session.thread \in ThreadIds
      BY <2>2, Session DEF Sessions
    <3>. QED  BY <1>1, <2>2, <3>1, DeletedMoved
  <2>. QED  BY <2>1, <2>2 DEF RemoveEmptyThread
<1>. QED  BY <1>1, <1>2, RowsOwn

LEMMA TerminalOwn ==
    ASSUME IInv, IInv', OwnInv, UNCHANGED webVars, ChatNext
    PROVE  OwnInv'
<1>1. CASE Keys
  BY <1>1, KeysOwn
<1>2. CASE Model \/ File
  BY <1>2, ModelOwn, StoreSaveRunsOwn, LoadBeginsOwn, LoadEndsOwn DEF File
<1>3. CASE Handle
  BY <1>3, TurnEventsOwn, HandleSavedOwn, HandleLoadedOwn DEF Handle
<1>4. CASE Quit \/ Leave
  BY <1>4, QuitOwn, SaveAtExitOwn, RemoveEmptyThreadOwn DEF Leave
<1>. QED  BY <1>1, <1>2, <1>3, <1>4 DEF ChatNext

-----------------------------------------------------------------------------
(* The browser *)

LEMMA WritesMoved ==
    ASSUME IInv, NEW t \in ThreadIds, Wrote(t), threads' \in [ThreadIds -> Rows],
           threads'[t].revision = threads[t].revision + 1, threads'[t].conv = threads[t].conv,
           \A u \in ThreadIds \ {t} : threads'[u] = threads[u]
    PROVE  \A u \in ThreadIds : Moved(u)
<1>1. threads[t].revision \in Nat /\ web_wrote \in [ThreadIds -> Nat]
  BY RowTypes DEF IInv, Types, LibTypes, Rows
<1>2. web_wrote' = [web_wrote EXCEPT ![t] = threads'[t].revision]
  BY DEF Wrote
<1>. QED  BY <1>1, <1>2 DEF Moved

LEMMA RewriteMoved ==
    ASSUME IInv, NEW t \in ThreadIds, NEW m \in Seq(Messages), Rewrite(t, m), Wrote(t),
           CurrentFor(t, web_revision[t])
    PROVE  threads' \in [ThreadIds -> Rows] /\ \A u \in ThreadIds : Moved(u)
<1>. DEFINE s == [thread |-> t, revision |-> web_revision[t], conv |-> threads[t].conv,
                  read_only |-> FALSE, messages |-> m]
<1>1. /\ threads' \in [ThreadIds -> Rows] /\ threads'[t].revision = threads[t].revision + 1
      /\ \A u \in ThreadIds \ {t} : threads'[u] = threads[u]
  BY RewriteSaves
<1>2. threads' = SaveSession(s) /\ threads \in [ThreadIds -> Rows] /\ t # NoThread
  BY RowTypes DEF Rewrite, IInv
<1>3. s \in Sessions /\ s.thread = t
  <2>1. /\ threads[t].conv \in Nat /\ web_revision[t] \in Nat /\ FALSE \in BOOLEAN
        /\ t \in ThreadIds \cup {NoThread}
    BY <1>2 DEF Rows, IInv, Types, LibTypes
  <2>. QED  BY <2>1 DEF Sessions
<1>. HIDE DEF s
<1>4. Stored(s).thread = t
  <2>1. Stored(s) = InRow(s, t, threads[t].revision + 1)
    BY <1>2, <1>3 DEF Stored
  <2>2. t \in ThreadIds \cup {NoThread} /\ threads[t].revision + 1 \in Nat
    BY <1>2 DEF Rows
  <2>. QED  BY <1>3, <2>1, <2>2, WithRow
<1>5. threads'[t].conv = threads[t].conv
  <2>1. threads' = [threads EXCEPT ![t] =
          [revision |-> Stored(s).revision, deleted |-> FALSE, conv |-> threads[t].conv,
           messages |-> s.messages]]
    BY <1>2, <1>3, <1>4 DEF SaveSession
  <2>. QED  BY <1>2, <2>1
<1>. QED  BY <1>1, <1>5, WritesMoved

LEMMA AppendMoved ==
    ASSUME IInv, NEW t \in ThreadIds, WebAppend(t)
    PROVE  threads' \in [ThreadIds -> Rows] /\ \A u \in ThreadIds : Moved(u)
<1>. DEFINE x == <<[role |-> "user", turn |-> WebTurn, by |-> {WebTurn}]>>
<1>1. /\ threads' \in [ThreadIds -> Rows] /\ threads'[t].revision = threads[t].revision + 1
      /\ \A u \in ThreadIds \ {t} : threads'[u] = threads[u]
  BY AppendSaves
<1>2. threads' = AppendMessages(t, x) /\ Wrote(t) /\ threads \in [ThreadIds -> Rows]
  BY RowTypes DEF WebAppend, IInv
<1>. HIDE DEF x
<1>3. threads'[t].conv = threads[t].conv
  <2>. DEFINE q == [threads EXCEPT ![t].messages = @ \o x]
  <2>1. threads' = [q EXCEPT ![t].revision = @ + 1]
    BY <1>2 DEF AppendMessages
  <2>2. q[t] = [threads[t] EXCEPT !.messages = @ \o x] /\ t \in DOMAIN q
    BY <1>2
  <2>3. threads[t] \in Rows
    BY <1>2
  <2>4. q[t].conv = threads[t].conv
    BY <2>2, <2>3 DEF Rows
  <2>. HIDE DEF q
  <2>5. threads'[t] = [q[t] EXCEPT !.revision = @ + 1]
    BY <2>1, <2>2
  <2>. QED  BY <2>4, <2>5
<1>. QED  BY <1>1, <1>2, <1>3, WritesMoved

LEMMA CreateMoved ==
    ASSUME IInv, WebCreate
    PROVE  threads' \in [ThreadIds -> Rows] /\ \A u \in ThreadIds : Moved(u)
<1>. DEFINE s == Fresh(0)
            t == Stored(s).thread
<1>1. CanSave(s) /\ threads' = SaveSession(s) /\ Wrote(NewId)
  BY DEF WebCreate
<1>2. s \in Sessions /\ s.thread = NoThread /\ s.conv = 0
  BY FreshSession DEF Fresh
<1>. HIDE DEF s
<1>3. t = NewId
  <2>1. Stored(s) = InRow(s, NewId, 1) /\ FreeIds # {}
    BY <1>1, <1>2 DEF Stored, CanSave
  <2>2. NewId \in ThreadIds \cup {NoThread} /\ 1 \in Nat
    BY <2>1, NewIds DEF IInv
  <2>3. InRow(s, NewId, 1).thread = NewId
    BY <1>2, <2>2, WithRow
  <2>. QED  BY <2>1, <2>3
<1>4. /\ t \in ThreadIds /\ threads[t] = Absent /\ threads' \in [ThreadIds -> Rows]
      /\ threads'[t].revision = threads[t].revision + 1
      /\ \A u \in ThreadIds \ {t} : threads'[u] = threads[u]
  <2>1. Types
    BY DEF IInv
  <2>2. Stored(s).revision = SaveSession(s)[t].revision /\ Stored(s).revision = threads[t].revision + 1
    BY <1>1, <1>2, <2>1, Saved
  <2>. QED  BY <1>1, <1>2, <2>1, <2>2, Saved
<1>5. threads'[t].conv = threads[t].conv
  <2>1. SaveSession(s)[Stored(s).thread].conv = s.conv
    BY <1>1, <1>2, SavedConv DEF IInv
  <2>. QED  BY <1>1, <1>2, <1>4, <2>1 DEF Absent
<1>. HIDE DEF t
<1>. QED  BY <1>1, <1>3, <1>4, <1>5, WritesMoved

LEMMA BrowserOwn ==
    ASSUME IInv, OwnInv, UNCHANGED chatVars, WebNext
    PROVE  OwnInv'
<1>1. UNCHANGED <<next_conv, events, session, deferred_store_save, file_job>>
  BY DEF chatVars, jobVars
<1>. DEFINE M == threads' \in [ThreadIds -> Rows] /\ \A u \in ThreadIds : Moved(u)
<1>2. ASSUME NEW t \in ThreadIds, WebEdit(t)
      PROVE  M
  <2>1. CurrentFor(t, web_revision[t]) /\ Wrote(t)
    BY <1>2 DEF WebEdit
  <2>2. PICK i \in DOMAIN threads[t].messages :
            Rewrite(t, [threads[t].messages EXCEPT ![i].turn = WebTurn, ![i].by = {WebTurn}])
    BY <1>2 DEF WebEdit
  <2>3. threads[t].messages \in Seq(Messages) /\ WebTurn \in Int
    BY <2>1, WebKnows DEF WebTurn
  <2>4. [threads[t].messages EXCEPT ![i].turn = WebTurn, ![i].by = {WebTurn}] \in Seq(Messages)
    BY <2>2, <2>3, Retold
  <2>. QED  BY <2>1, <2>2, <2>4, RewriteMoved
<1>3. ASSUME NEW t \in ThreadIds, WebRewind(t)
      PROVE  M
  <2>1. CurrentFor(t, web_revision[t]) /\ Wrote(t)
    BY <1>3 DEF WebRewind
  <2>2. PICK n \in 0..(Len(threads[t].messages) - 1) :
            Rewrite(t, SubSeq(threads[t].messages, 1, n))
    BY <1>3 DEF WebRewind
  <2>3. threads[t].messages \in Seq(Messages)
    BY <2>1, WebKnows
  <2>4. n \in Int /\ n <= Len(threads[t].messages)
    BY <2>2, <2>3, LenProperties
  <2>5. SubSeq(threads[t].messages, 1, n) \in Seq(Messages)
    BY <2>3, <2>4, Cut
  <2>. QED  BY <2>1, <2>2, <2>5, RewriteMoved
<1>4. ASSUME NEW t \in ThreadIds, WebRemove(t)
      PROVE  M
  BY <1>4, DeletedMoved DEF WebRemove
<1>5. ASSUME CleanupDelete
      PROVE  M
  <2>1. PICK t \in cleaning : threads' = SoftDelete(t)
    BY <1>5 DEF CleanupDelete
  <2>2. t \in ThreadIds /\ web_wrote' = web_wrote
    BY <1>5 DEF CleanupDelete, IInv, Types, LibTypes
  <2>. QED  BY <2>1, <2>2, DeletedMoved
<1>6. ASSUME NEW t, WebLoad(t) \/ WebCleanup(t)
      PROVE  M
  <2>1. UNCHANGED <<threads, web_wrote>>
    BY <1>6 DEF WebLoad, WebCleanup
  <2>. QED  BY <2>1, RowTypes, StaysMoved DEF IInv
<1>7. M
  BY <1>2, <1>3, <1>4, <1>5, <1>6, AppendMoved, CreateMoved DEF WebNext, Request
<1>. QED  BY <1>1, <1>7, RowsOwn

LEMMA OwnInit == Init => OwnInv
<1>. SUFFICES ASSUME Init PROVE OwnInv
  OBVIOUS
<1>1. /\ \A t \in ThreadIds : threads[t].conv \in {0, 1}
      /\ session = Fresh(2) /\ file_job = NoFile /\ deferred_store_save = NoSave
      /\ events = <<>> /\ next_conv = 3
  BY DEF Init, ChatInit, Absent
<1>2. ConvOK(threads, next_conv)
  BY <1>1 DEF ConvOK
<1>3. ToldIn(events) = {}
  BY <1>1 DEF ToldIn
<1>4. Settled(threads, web_wrote, 3, Fresh(2))
  BY <1>1 DEF Settled, Own, New, Fresh
<1>5. Holders(threads, web_wrote, 3, {}, Fresh(2), NoSave, NoFile)
  BY <1>4, NoFileJob DEF Holders, Sound, WaitSound, JobSound, ToldSound
<1>. QED  BY <1>1, <1>2, <1>3, <1>5 DEF OwnInv

LEMMA OwnStep == IInv /\ IInv' /\ OwnInv /\ [Next]_vars => OwnInv'
<1>. SUFFICES ASSUME IInv, IInv', OwnInv, [Next]_vars PROVE OwnInv'
  OBVIOUS
<1>1. CASE ChatNext /\ UNCHANGED webVars
  BY <1>1, TerminalOwn
<1>2. CASE WebNext /\ UNCHANGED chatVars
  BY <1>2, BrowserOwn
<1>3. CASE UNCHANGED vars
  <2>1. UNCHANGED <<threads, web_wrote, next_conv, events, session, deferred_store_save, file_job>>
    BY <1>3 DEF vars, chatVars, webVars, jobVars
  <2>. QED  BY <2>1, RowTypes, StaysMoved, RowsOwn DEF IInv
<1>. QED  BY <1>1, <1>2, <1>3 DEF Next

(***************************************************************************)
(* The terminal never conflicts with itself: an autosave the store refuses *)
(* for its revision is of a thread the browser has written since; and a    *)
(* conversation of the terminal becomes one thread, however many autosaves *)
(* were asked for before the first had given it its id.                    *)
(***************************************************************************)
THEOREM OwnSavesNeverConflict == Spec => []OwnSavesAgree
<1>1. IInv /\ OwnInv => OwnSavesAgree
  <2>. SUFFICES ASSUME IInv, OwnInv PROVE OwnSavesAgree
    OBVIOUS
  <2>1. OneThreadPerConversation
    BY DEF OwnInv, ConvOK, OneThreadPerConversation
  <2>2. ConflictsAreOfOthers
    <3>1. ASSUME file_job.kind = "save", ~file_job.pushed, Writable(file_job.session.thread)
          PROVE  Own(threads, web_wrote, file_job.session) /\ file_job.session.thread # NoThread
      BY <3>1, RowTypes DEF OwnInv, Holders, JobSound, Settled, Writable, Live, IInv
    <3>. QED  BY <3>1 DEF ConflictsAreOfOthers, Own
  <2>. QED  BY <2>1, <2>2 DEF OwnSavesAgree
<1>2. Init => OwnInv
  BY OwnInit
<1>3. IInv /\ IInv' /\ OwnInv /\ [Next]_vars => OwnInv'
  BY OwnStep
<1>. QED  BY <1>1, <1>2, <1>3, Invariance, PTL DEF Spec

-----------------------------------------------------------------------------
(* Turns that fail.                                                        *)

\* The turns of the stored transcripts, and of those the loop is yet to take.
RowTurns(rows) == UNION {TurnsOf(rows[t].messages) : t \in ThreadIds}

LoadedTurns(told) ==
    UNION {TurnsOf(e.session.messages) : e \in {x \in told : x.type = "loaded" /\ x.ok}}

\* The next turn is newer than all that is shown, stored or loaded.
Ages(rows, shown, told, next) ==
    /\ next > 0
    /\ \A x \in shown \cup RowTurns(rows) \cup LoadedTurns(told) : x < next

\* The messages of turn n are at the positions p remembers.
Placed(m, n, p) == \A i \in DOMAIN m : m[i].turn = n => i \in {p.user, p.assistant}

\* No transcript brings messages of turn n along.
Unheard(n, rows, told, job) ==
    /\ n \notin LoadedTurns(told)
    /\ job.kind = "load" => n \notin RowTurns(rows)

PlaceInv ==
    /\ Ages(threads, seen, ToldIn(events), next_turn)
    /\ active_job /\ pending.added =>
        /\ pending.assistant = pending.user + 1
        /\ Placed(session.messages, model_job.turn, pending)
        /\ Unheard(model_job.turn, threads, ToldIn(events), file_job)

\* x has messages where m has them, of the same turns.
SamePlaces(m, x) == \A i \in DOMAIN x : i \in DOMAIN m /\ x[i].turn = m[i].turn

\* Texts the browser has written itself.
Negative == {x \in Int : x < 0}

\* Every row has the turns it had, and those of S.
RowsFrom(S) ==
    \A t \in ThreadIds : TurnsOf(threads'[t].messages) \subseteq TurnsOf(threads[t].messages) \cup S

LEMMA RowTurnsFrom ==
    ASSUME NEW S, RowsFrom(S)
    PROVE  RowTurns(threads') \subseteq RowTurns(threads) \cup S
BY DEF RowsFrom, RowTurns

LEMMA LoadedFewer ==
    ASSUME NEW a, NEW b, b \subseteq a
    PROVE  LoadedTurns(b) \subseteq LoadedTurns(a)
BY DEF LoadedTurns

LEMMA TurnTypes ==
    ASSUME IInv
    PROVE  /\ seen \subseteq Int /\ next_turn \in Nat /\ model_job.turn \in Nat
           /\ session \in Sessions /\ session.messages \in Seq(Messages)
           /\ TurnsOf(session.messages) \subseteq seen
BY Session DEF IInv, Types, TermTypes, Shown

LEMMA PlacedStays ==
    ASSUME NEW m, NEW x, NEW n, NEW p, SamePlaces(m, x), Placed(m, n, p)
    PROVE  Placed(x, n, p)
BY DEF SamePlaces, Placed

\* A step that begins no turn.
LEMMA PlacesKept ==
    ASSUME IInv, PlaceInv, RowsFrom(seen \cup Negative),
           LoadedTurns(ToldIn(events')) \subseteq LoadedTurns(ToldIn(events)) \cup RowTurns(threads),
           next_turn' = next_turn, seen' \subseteq seen \cup LoadedTurns(ToldIn(events)),
           active_job' =>
             /\ UNCHANGED <<active_job, pending>> /\ model_job'.turn = model_job.turn
             /\ pending.added => Placed(session'.messages, model_job.turn, pending)
             /\ \/ file_job.kind = "load"
                \/ LoadedTurns(ToldIn(events')) \subseteq LoadedTurns(ToldIn(events))
             /\ file_job'.kind = "load" => file_job.kind = "load" /\ RowsFrom(Negative)
    PROVE  PlaceInv'
<1>. DEFINE told == ToldIn(events)
            later == ToldIn(events')
<1>1. next_turn > 0 /\ \A x \in seen \cup RowTurns(threads) \cup LoadedTurns(told) : x < next_turn
  BY DEF PlaceInv, Ages
<1>2. RowTurns(threads') \subseteq RowTurns(threads) \cup (seen \cup Negative)
  BY RowTurnsFrom
<1>3. \A x \in Negative : x < next_turn
  BY <1>1, TurnTypes DEF Negative
<1>4. Ages(threads', seen', later, next_turn')
  <2>. HIDE DEF told, later
  <2>1. LoadedTurns(later) \subseteq LoadedTurns(told) \cup RowTurns(threads)
        /\ seen' \subseteq seen \cup LoadedTurns(told)
    BY DEF told, later
  <2>2. seen' \cup RowTurns(threads') \cup LoadedTurns(later)
          \subseteq seen \cup RowTurns(threads) \cup LoadedTurns(told) \cup Negative
    BY <1>2, <2>1
  <2>. QED  BY <1>1, <1>3, <2>2 DEF Ages
<1>5. ASSUME active_job', pending'.added
      PROVE  /\ pending'.assistant = pending'.user + 1
             /\ Placed(session'.messages, model_job'.turn, pending')
             /\ Unheard(model_job'.turn, threads', later, file_job')
  <2>1. /\ active_job /\ pending.added /\ pending' = pending /\ model_job'.turn = model_job.turn
        /\ Placed(session'.messages, model_job.turn, pending)
    BY <1>5
  <2>2. /\ pending.assistant = pending.user + 1
        /\ Unheard(model_job.turn, threads, told, file_job)
    BY <2>1 DEF PlaceInv
  <2>3. model_job.turn \notin LoadedTurns(later)
    <3>1. CASE file_job.kind = "load"
      BY <2>2, <3>1 DEF Unheard
    <3>2. CASE LoadedTurns(later) \subseteq LoadedTurns(told)
      BY <2>2, <3>2 DEF Unheard
    <3>. QED  BY <1>5, <3>1, <3>2
  <2>4. ASSUME file_job'.kind = "load"
        PROVE  model_job.turn \notin RowTurns(threads')
    <3>1. RowTurns(threads') \subseteq RowTurns(threads) \cup Negative
      BY <1>5, <2>4, RowTurnsFrom
    <3>2. model_job.turn \notin Negative
      BY TurnTypes DEF Negative
    <3>3. model_job.turn \notin RowTurns(threads)
      BY <1>5, <2>2, <2>4 DEF Unheard
    <3>. QED  BY <3>1, <3>2, <3>3
  <2>. QED  BY <2>1, <2>2, <2>3, <2>4 DEF Unheard
<1>. QED  BY <1>4, <1>5 DEF PlaceInv

\* A step in which, at most, messages change in their places.
LEMMA QuietPlaces ==
    ASSUME IInv, PlaceInv, UNCHANGED <<threads, seen, next_turn>>,
           ToldIn(events') \subseteq ToldIn(events),
           active_job' =>
             /\ UNCHANGED <<active_job, pending>> /\ model_job'.turn = model_job.turn
             /\ SamePlaces(session.messages, session'.messages)
             /\ file_job'.kind = "load" => file_job.kind = "load"
    PROVE  PlaceInv'
<1>1. LoadedTurns(ToldIn(events')) \subseteq LoadedTurns(ToldIn(events))
  BY LoadedFewer
<1>2. RowsFrom(seen \cup Negative) /\ RowsFrom(Negative)
  BY DEF RowsFrom
<1>3. ASSUME active_job', pending.added
      PROVE  Placed(session'.messages, model_job.turn, pending)
  <2>1. Placed(session.messages, model_job.turn, pending)
    BY <1>3 DEF PlaceInv
  <2>. QED  BY <1>3, <2>1, PlacedStays
<1>. QED  BY <1>1, <1>2, <1>3, PlacesKept

LEMMA TurnsAreInts ==
    ASSUME NEW m \in Seq(Messages)
    PROVE  TurnsOf(m) \subseteq Int
<1>1. \A i \in DOMAIN m : m[i] \in Messages
  BY LenProperties, ElementOfSeq
<1>. QED  BY <1>1 DEF TurnsOf, Messages

\* A new turn is the youngest.
LEMMA AgesGrow ==
    ASSUME IInv, PlaceInv, UNCHANGED threads, ToldIn(events') \subseteq ToldIn(events),
           next_turn' = next_turn + 1, seen' = seen \cup {next_turn}
    PROVE  /\ Ages(threads', seen', ToldIn(events'), next_turn')
           /\ next_turn \notin seen \cup RowTurns(threads) \cup LoadedTurns(ToldIn(events))
<1>. DEFINE told == ToldIn(events)
            later == ToldIn(events')
<1>1. next_turn > 0 /\ \A x \in seen \cup RowTurns(threads) \cup LoadedTurns(told) : x < next_turn
  BY DEF PlaceInv, Ages
<1>2. LoadedTurns(later) \subseteq LoadedTurns(told) /\ next_turn \in Nat
  BY LoadedFewer, TurnTypes
<1>. HIDE DEF told, later
<1>3. \A x : x \in seen \cup RowTurns(threads) \cup LoadedTurns(told) => x \in Int
  <2>1. \A t \in ThreadIds : TurnsOf(threads[t].messages) \subseteq Int
    <3>. TAKE t \in ThreadIds
    <3>1. threads[t].messages \in Seq(Messages)
      BY RowTypes DEF IInv, Rows
    <3>. QED  BY <3>1, TurnsAreInts
  <2>2. RowTurns(threads) \subseteq Int
    BY <2>1 DEF RowTurns
  <2>3. LoadedTurns(told) \subseteq Int
    <3>1. ASSUME NEW e \in told, e.type = "loaded", e.ok
          PROVE  TurnsOf(e.session.messages) \subseteq Int
      <4>1. e \in Events /\ e.type \in Reporting
        BY <3>1, ElementOfSeq, LenProperties DEF told, ToldIn, IInv, Types, TermTypes
      <4>2. e.session.messages \in Seq(Messages)
        BY <3>1, <4>1, EventTypes DEF Sessions
      <4>. QED  BY <4>2, TurnsAreInts
    <3>. QED  BY <3>1 DEF LoadedTurns
  <2>. QED  BY <2>2, <2>3, TurnTypes
<1>4. \A x \in seen \cup RowTurns(threads) \cup LoadedTurns(told) : x < next_turn + 1 /\ x # next_turn
  BY <1>1, <1>2, <1>3
<1>5. seen' \cup RowTurns(threads') \cup LoadedTurns(later)
        \subseteq seen \cup RowTurns(threads) \cup LoadedTurns(told) \cup {next_turn}
  BY <1>2
<1>6. next_turn' > 0 /\ \A x \in seen' \cup RowTurns(threads') \cup LoadedTurns(later) : x < next_turn'
  BY <1>2, <1>4, <1>5
<1>. QED  BY <1>4, <1>6 DEF Ages, later, told

\* The two messages of a new turn are the last ones.
LEMMA BegunAt ==
    ASSUME NEW m \in Seq(Messages), NEW n \in Nat, n \notin TurnsOf(m), NEW p,
           p.user = Len(m) + 1, p.assistant = Len(m) + 2
    PROVE  Placed(m \o <<Prompt(n), Answer(n)>>, n, p)
<1>. DEFINE two == <<Prompt(n), Answer(n)>>
<1>1. two \in Seq(Messages) /\ Len(two) = 2
  BY Prompts
<1>. HIDE DEF two
<1>2. /\ m \o two \in Seq(Messages) /\ Len(m \o two) = Len(m) + Len(two)
      /\ \A i \in 1..(Len(m) + Len(two)) : (m \o two)[i] = IF i <= Len(m) THEN m[i] ELSE two[i - Len(m)]
  BY <1>1, ConcatProperties
<1>3. Len(m) \in Nat /\ DOMAIN m = 1..Len(m) /\ DOMAIN (m \o two) = 1..(Len(m) + 2)
  BY <1>1, <1>2, LenProperties
<1>4. ASSUME NEW i \in DOMAIN (m \o two), (m \o two)[i].turn = n
      PROVE  i \in {p.user, p.assistant}
  <2>1. CASE i <= Len(m)
    <3>1. i \in DOMAIN m /\ (m \o two)[i] = m[i]
      BY <1>1, <1>2, <1>3, <2>1
    <3>. QED  BY <1>4, <3>1 DEF TurnsOf
  <2>2. CASE ~(i <= Len(m))
    BY <1>3, <2>2
  <2>. QED  BY <2>1, <2>2
<1>. QED  BY <1>4 DEF Placed, two

LEMMA BeginsPlaces ==
    ASSUME IInv, PlaceInv, NEW m \in Seq(Messages), TurnsOf(m) \subseteq TurnsOf(session.messages),
           StartTurn(m), UNCHANGED threads, ToldIn(events') \subseteq ToldIn(events)
    PROVE  PlaceInv'
<1>. DEFINE x == m \o <<Prompt(next_turn), Answer(next_turn)>>
<1>1. /\ session' = [session EXCEPT !.messages = x]
      /\ next_turn' = next_turn + 1 /\ seen' = seen \cup {next_turn}
  BY DEF StartTurn
<1>2. /\ Ages(threads', seen', ToldIn(events'), next_turn')
      /\ next_turn \notin seen \cup RowTurns(threads) \cup LoadedTurns(ToldIn(events))
  BY <1>1, AgesGrow
<1>3. /\ pending' = [user |-> Len(m) + 1, assistant |-> Len(m) + 2, added |-> TRUE]
      /\ model_job' = [turn |-> next_turn, running |-> TRUE, token |-> FALSE, said |-> FALSE]
  BY DEF StartTurn
<1>4. /\ pending'.user = Len(m) + 1 /\ pending'.assistant = Len(m) + 2
      /\ model_job'.turn = next_turn /\ next_turn \in Nat
  BY <1>3, TurnTypes
<1>5. next_turn \notin TurnsOf(m)
  BY <1>2, TurnTypes
<1>6. Placed(x, next_turn, pending')
  <2>. DEFINE p == pending'
  <2>1. p.user = Len(m) + 1 /\ p.assistant = Len(m) + 2
    BY <1>4
  <2>. HIDE DEF p
  <2>2. Placed(x, next_turn, p)
    BY <1>4, <1>5, <2>1, BegunAt
  <2>. QED  BY <2>2 DEF p
<1>7. session'.messages = x
  <2>1. x \in Seq(Messages)
    BY <1>4, Begun
  <2>. QED  BY <1>1, <2>1, TurnTypes, WithMessages
<1>. HIDE DEF x
<1>8. Unheard(next_turn, threads', ToldIn(events'), file_job')
  BY <1>2, LoadedFewer DEF Unheard
<1>9. pending'.assistant = pending'.user + 1
  BY <1>4, LenProperties
<1>. QED  BY <1>2, <1>4, <1>6, <1>7, <1>8, <1>9 DEF PlaceInv

-----------------------------------------------------------------------------
(* The keys *)

LEMMA SamePlacesNow ==
    ASSUME NEW m
    PROVE  SamePlaces(m, m)
BY DEF SamePlaces

LEMMA RespondPlaces ==
    ASSUME IInv, PlaceInv, Respond
    PROVE  PlaceInv'
<1>1. /\ UNCHANGED <<threads, events>> /\ ~pending'.added
      /\ next_turn' = next_turn + 1 /\ seen' = seen \cup {next_turn}
  BY DEF Respond
<1>. QED  BY <1>1, AgesGrow DEF PlaceInv

LEMMA RegeneratePlaces ==
    ASSUME IInv, PlaceInv, Regenerate
    PROVE  PlaceInv'
<1>. DEFINE user == LastOf(session.messages, "user")
            m == SubSeq(session.messages, 1, user - 1)
<1>0. session.messages \in Seq(Messages)
  BY Session
<1>1. user \in 0..Len(session.messages) /\ Len(session.messages) \in Nat
  BY <1>0, LastOfRole, LenProperties
<1>2. user - 1 \in Int /\ user - 1 <= Len(session.messages)
  BY <1>1
<1>3. StartTurn(m) /\ UNCHANGED <<threads, events>>
  BY DEF Regenerate
<1>4. m \in Seq(Messages) /\ TurnsOf(m) \subseteq TurnsOf(session.messages)
  BY <1>0, <1>2, Cut
<1>. HIDE DEF m
<1>. QED  BY <1>3, <1>4, BeginsPlaces

\* An autosave leaves a file job that loads, and begins none.
LEMMA SaveNoLoad ==
    ASSUME NEW s, StoreSave(s, file_job, deferred_store_save)
    PROVE  file_job'.kind = "load" => file_job.kind = "load"
BY DEF StoreSave, SaveJob

\* What changes a text, or takes all messages away, moves no message.
LEMMA TextPlaces ==
    ASSUME NEW m \in Seq(Messages), NEW i \in DOMAIN m, NEW texts \in SUBSET Int
    PROVE  SamePlaces(m, [m EXCEPT ![i].by = texts])
<1>. DEFINE x == [m[i] EXCEPT !.by = texts]
            r == [m EXCEPT ![i] = x]
<1>1. m[i] \in Messages
  BY LenProperties, ElementOfSeq
<1>2. x.turn = m[i].turn
  BY <1>1 DEF Messages
<1>3. r = [m EXCEPT ![i].by = texts]
  OBVIOUS
<1>. HIDE DEF x
<1>4. DOMAIN r = DOMAIN m /\ \A j \in DOMAIN m : r[j] = IF j = i THEN x ELSE m[j]
  OBVIOUS
<1>. HIDE DEF r
<1>5. SamePlaces(m, r)
  BY <1>2, <1>4 DEF SamePlaces
<1>. QED  BY <1>3, <1>5

LEMMA NonePlaced ==
    ASSUME NEW m
    PROVE  SamePlaces(m, <<>>)
BY EmptySeq DEF SamePlaces

LEMMA ModelTurn ==
    ASSUME IInv, model_job' = [model_job EXCEPT !.token = TRUE]
    PROVE  model_job'.turn = model_job.turn
BY DEF IInv, Types, TermTypes

\* The keys that move no message of a turn under way.
LEMMA IdleKeysPlaces ==
    ASSUME IInv, PlaceInv, NewThread \/ Clone \/ Pop \/ StartHistoryEdit \/ CancelHistoryEdit
    PROVE  PlaceInv'
<1>1. UNCHANGED <<threads, seen, next_turn, active_job, pending, model_job, events>>
  BY DEF NewThread, Clone, Pop, StartHistoryEdit, CancelHistoryEdit, turnVars, jobVars
<1>2. active_job =>
        /\ SamePlaces(session.messages, session'.messages)
        /\ file_job'.kind = "load" => file_job.kind = "load"
  BY SamePlacesNow DEF NewThread, Clone, Pop, StartHistoryEdit, CancelHistoryEdit, jobVars
<1>. QED  BY <1>1, <1>2, QuietPlaces

LEMMA CancellingPlaces ==
    ASSUME IInv, PlaceInv, RegenerateActive \/ Escape
    PROVE  PlaceInv'
<1>1. /\ UNCHANGED <<threads, seen, next_turn, active_job, pending, events, session>>
      /\ active_job => UNCHANGED file_job /\ model_job' = [model_job EXCEPT !.token = TRUE]
  BY DEF RegenerateActive, Escape
<1>2. active_job => model_job'.turn = model_job.turn
  BY <1>1, ModelTurn
<1>. QED  BY <1>1, <1>2, SamePlacesNow, QuietPlaces

LEMMA ClearPlaces ==
    ASSUME IInv, PlaceInv, Clear \/ ChangeSetting
    PROVE  PlaceInv'
<1>1. UNCHANGED <<threads, seen, next_turn, active_job, pending, model_job, events>>
  BY DEF Clear, ChangeSetting, turnVars, jobVars
<1>2. file_job'.kind = "load" => file_job.kind = "load"
  BY SaveNoLoad DEF Clear, ChangeSetting, jobVars
<1>3. SamePlaces(session.messages, session'.messages)
  <2>1. CASE Clear
    <3>1. session' = [session EXCEPT !.messages = <<>>] /\ <<>> \in Seq(Messages)
      BY <2>1, EmptySeq DEF Clear
    <3>2. session'.messages = <<>>
      BY <3>1, TurnTypes, WithMessages
    <3>. QED  BY <3>2, NonePlaced
  <2>2. CASE ChangeSetting
    BY <2>2, SamePlacesNow DEF ChangeSetting
  <2>. QED  BY <2>1, <2>2
<1>. QED  BY <1>1, <1>2, <1>3, QuietPlaces

LEMMA FinishHistoryEditPlaces ==
    ASSUME IInv, PlaceInv, FinishHistoryEdit
    PROVE  PlaceInv'
<1>1. UNCHANGED <<threads, seen, next_turn, active_job, pending, model_job, events>>
  BY DEF FinishHistoryEdit, turnVars
<1>2. file_job'.kind = "load" => file_job.kind = "load"
  BY SaveNoLoad DEF FinishHistoryEdit
<1>3. SamePlaces(session.messages, session'.messages)
  <2>1. CASE history_edit.index \in DOMAIN session.messages
    <3>. DEFINE m == [session.messages EXCEPT ![history_edit.index].by = history_edit.by]
    <3>1. history_edit.by \in SUBSET Int
      BY Session DEF FinishHistoryEdit
    <3>2. m \in Seq(Messages) /\ SamePlaces(session.messages, m)
      BY <2>1, <3>1, TurnTypes, Rewritten, TextPlaces
    <3>3. session' = [session EXCEPT !.messages = m]
      BY <2>1 DEF FinishHistoryEdit
    <3>. HIDE DEF m
    <3>4. session'.messages = m
      BY <3>2, <3>3, TurnTypes, WithMessages
    <3>. QED  BY <3>2, <3>4
  <2>2. CASE history_edit.index \notin DOMAIN session.messages
    BY <2>2, SamePlacesNow DEF FinishHistoryEdit
  <2>. QED  BY <2>1, <2>2
<1>. QED  BY <1>1, <1>2, <1>3, QuietPlaces

LEMMA LoadThreadPlaces ==
    ASSUME IInv, PlaceInv, NEW t, LoadThread(t)
    PROVE  PlaceInv'
<1>1. /\ UNCHANGED <<threads, seen, next_turn, active_job, events>> /\ ~active_job
  BY DEF LoadThread, turnVars
<1>. QED  BY <1>1, QuietPlaces

\* Rows whose messages stay as they are.
LEMMA SameRows ==
    ASSUME \A u \in ThreadIds : threads'[u].messages = threads[u].messages, NEW S
    PROVE  RowsFrom(S)
BY DEF RowsFrom

LEMMA RemoveThreadPlaces ==
    ASSUME IInv, PlaceInv, NEW t \in ThreadIds, RemoveThread(t)
    PROVE  PlaceInv'
<1>1. /\ threads' = SoftDelete(t) /\ threads[t].revision > 0
      /\ UNCHANGED <<seen, next_turn, active_job, pending, model_job, events, file_job>>
  BY DEF RemoveThread, Live, turnVars, jobVars
<1>2. \A u \in ThreadIds : threads'[u].messages = threads[u].messages
  BY <1>1, SoftDeleted DEF IInv
<1>3. RowsFrom(seen \cup Negative) /\ RowsFrom(Negative)
  BY <1>2, SameRows
<1>4. SamePlaces(session.messages, session'.messages)
  <2>1. CASE session' = Fresh(next_conv)
    BY <2>1, NonePlaced DEF Fresh
  <2>2. CASE session' = session
    BY <2>2, SamePlacesNow
  <2>. QED  BY <2>1, <2>2 DEF RemoveThread
<1>5. active_job /\ pending.added => Placed(session'.messages, model_job.turn, pending)
  BY <1>4, PlacedStays DEF PlaceInv
<1>. QED  BY <1>1, <1>3, <1>5, PlacesKept

LEMMA KeysPlaces ==
    ASSUME IInv, PlaceInv, Keys
    PROVE  PlaceInv'
<1>1. CASE Send
  <2>1. StartTurn(session.messages) /\ UNCHANGED <<threads, events>>
    BY <1>1 DEF Send
  <2>. QED  BY <2>1, TurnTypes, BeginsPlaces
<1>. QED
  BY <1>1, RespondPlaces, RegeneratePlaces, CancellingPlaces, IdleKeysPlaces, ClearPlaces,
     FinishHistoryEditPlaces, LoadThreadPlaces, RemoveThreadPlaces DEF Keys


-----------------------------------------------------------------------------
(* The jobs *)

LEMMA ModelPlaces ==
    ASSUME IInv, PlaceInv, Model
    PROVE  PlaceInv'
<1>1. UNCHANGED <<threads, seen, next_turn, active_job, pending, session, file_job>>
  BY DEF Model, ModelDelta, ModelEnd, turnVars
<1>2. model_job'.turn = model_job.turn
  BY DEF Model, ModelDelta, ModelEnd, IInv, Types, TermTypes
<1>. QED  BY <1>1, <1>2, ModelTells, SamePlacesNow, QuietPlaces

\* A save writes messages the terminal has shown.
LEMMA SavedRows ==
    ASSUME IInv, NEW s \in Sessions, CanSave(s), threads' = SaveSession(s),
           Shown(threads, seen, s)
    PROVE  RowsFrom(seen \cup Negative)
<1>. DEFINE r == Stored(s)
<1>1. /\ r.thread \in ThreadIds /\ threads'[r.thread].messages = s.messages
      /\ \A t \in ThreadIds \ {r.thread} : threads'[t] = threads[t]
  BY Saved DEF IInv
<1>. HIDE DEF r
<1>2. TurnsOf(s.messages) \subseteq seen
  BY DEF Shown
<1>. QED  BY <1>1, <1>2 DEF RowsFrom

LEMMA StoreSaveRunsPlaces ==
    ASSUME IInv, PlaceInv, StoreSaveRuns
    PROVE  PlaceInv'
<1>. DEFINE s == file_job.session
<1>1. /\ file_job.kind = "save" /\ ~file_job.pushed /\ Joinable(file_job)
      /\ file_job' = [file_job EXCEPT !.pushed = TRUE]
      /\ UNCHANGED <<seen, next_turn, active_job, pending, session, model_job>>
      /\ SaveWorks \/ SaveFails
  BY DEF StoreSaveRuns, Joinable, turnVars
<1>2. file_job'.kind = "save" /\ s \in Sessions /\ Shown(threads, seen, s) /\ TermTypes
  BY <1>1, JobFields, JobPushed DEF IInv, Types, TermTypes, SeenInv, JobKnows
<1>3. PICK e \in Events : events' = Append(events, e) /\ e.type = "saved"
  <2>1. CASE SaveWorks
    <3>1. Stored(s) \in Sessions
      BY <1>2, <2>1, Saved DEF SaveWorks, IInv
    <3>. QED  BY <2>1, <3>1, Told DEF SaveWorks, Reporting
  <2>2. CASE SaveFails
    BY <2>2, Told DEF SaveFails, Reporting
  <2>. QED  BY <1>1, <2>1, <2>2
<1>4. LoadedTurns(ToldIn(events')) \subseteq LoadedTurns(ToldIn(events))
  <2>1. ToldIn(events') = ToldIn(events) \cup {e}
    BY <1>2, <1>3, ToldQueued DEF Reporting
  <2>. QED  BY <1>3, <2>1 DEF LoadedTurns
<1>5. RowsFrom(seen \cup Negative)
  <2>1. CASE SaveWorks
    BY <1>2, <2>1, SavedRows DEF SaveWorks
  <2>2. CASE SaveFails
    BY <2>2 DEF SaveFails, RowsFrom
  <2>. QED  BY <1>1, <2>1, <2>2
<1>. QED  BY <1>1, <1>2, <1>4, <1>5, PlacesKept DEF PlaceInv

LEMMA LoadBeginsPlaces ==
    ASSUME IInv, PlaceInv, LoadBegins
    PROVE  PlaceInv'
<1>1. /\ file_job.kind = "load"
      /\ UNCHANGED <<threads, seen, next_turn, active_job, pending, session, model_job, events>>
  BY DEF LoadBegins, turnVars
<1>. QED  BY <1>1, SamePlacesNow, QuietPlaces

\* What is loaded is of the rows.
LEMMA LoadEndsPlaces ==
    ASSUME IInv, PlaceInv, LoadEnds
    PROVE  PlaceInv'
<1>1. /\ file_job.kind = "load" /\ Joinable(file_job)
      /\ UNCHANGED <<threads, seen, next_turn, active_job, pending, session, model_job>>
  BY DEF LoadEnds, Joinable, turnVars
<1>2. TermTypes /\ file_job.session \in Sessions
  BY <1>1, JobFields DEF IInv, Types, TermTypes
<1>3. PICK e \in Events :
          /\ events' = Append(events, e) /\ e.type = "loaded"
          /\ e.ok => TurnsOf(e.session.messages) \subseteq RowTurns(threads)
  <2>1. CASE events' = Append(events, [type |-> "loaded", ok |-> FALSE])
    BY <2>1, Told DEF Reporting
  <2>2. CASE /\ file_job.session.revision > 0
             /\ events' = Append(events, [type |-> "loaded", ok |-> TRUE,
                                          session |-> LoadMessages(file_job.session)])
    <3>. DEFINE s == file_job.session
                l == LoadMessages(s)
    <3>1. s \in Sessions /\ s.thread \in ThreadIds
      BY <1>1, <1>2, <2>2 DEF IInv, SeenInv, JobKnows, Sessions
    <3>2. threads[s.thread].messages \in Seq(Messages)
      BY <3>1, RowTypes DEF IInv, Rows
    <3>3. l \in Sessions /\ l.messages = threads[s.thread].messages
      BY <3>1, <3>2, WithMessages DEF LoadMessages
    <3>. HIDE DEF l, s
    <3>4. TurnsOf(l.messages) \subseteq RowTurns(threads)
      BY <3>1, <3>3 DEF RowTurns
    <3>5. [type |-> "loaded", ok |-> TRUE, session |-> l] \in Events
      BY <3>3, Told DEF Reporting
    <3>. QED  BY <2>2, <3>4, <3>5 DEF l, s
  <2>. QED  BY <2>1, <2>2 DEF LoadEnds
<1>4. LoadedTurns(ToldIn(events')) \subseteq LoadedTurns(ToldIn(events)) \cup RowTurns(threads)
  <2>1. ToldIn(events') = ToldIn(events) \cup {e}
    BY <1>2, <1>3, ToldQueued DEF Reporting
  <2>. QED  BY <1>3, <2>1 DEF LoadedTurns
<1>5. RowsFrom(seen \cup Negative) /\ RowsFrom(Negative)
  BY <1>1, SameRows
<1>6. active_job /\ pending.added => Placed(session.messages, model_job.turn, pending)
  BY DEF PlaceInv
<1>. QED  BY <1>1, <1>4, <1>5, <1>6, PlacesKept


-----------------------------------------------------------------------------
(* The events *)

LEMMA HandleDeltaPlaces ==
    ASSUME IInv, PlaceInv, HandleDelta
    PROVE  PlaceInv'
<1>1. /\ UNCHANGED <<threads, seen, next_turn, active_job, pending, model_job, file_job>>
      /\ events # <<>> /\ Handled /\ Head(events).type = "delta"
  BY DEF HandleDelta, HasEvent, turnVars
<1>2. ToldIn(events') = ToldIn(events)
  BY <1>1, ToldTaken DEF Reporting
<1>3. SamePlaces(session.messages, session'.messages)
  <2>1. CASE AnswerHere
    <3>. DEFINE i == pending.assistant
                texts == session.messages[i].by \cup {Head(events).turn}
                m == [session.messages EXCEPT ![i].by = texts]
    <3>1. i \in DOMAIN session.messages /\ session.messages[i] \in Messages
      BY <2>1, TurnTypes, LenProperties, ElementOfSeq DEF AnswerHere
    <3>2. Head(events).turn \in Nat
      BY <1>1, EventTaken, EventTypes DEF IInv, Types
    <3>3. texts \in SUBSET Int
      BY <3>1, <3>2 DEF Messages
    <3>4. session' = [session EXCEPT !.messages = m]
      BY <2>1 DEF HandleDelta
    <3>. HIDE DEF texts, i
    <3>5. m \in Seq(Messages) /\ SamePlaces(session.messages, m)
      BY <3>1, <3>3, TurnTypes, Rewritten, TextPlaces
    <3>. HIDE DEF m
    <3>6. session'.messages = m
      BY <3>4, <3>5, TurnTypes, WithMessages
    <3>. QED  BY <3>5, <3>6
  <2>2. CASE ~AnswerHere
    BY <2>2, SamePlacesNow DEF HandleDelta
  <2>. QED  BY <2>1, <2>2
<1>. QED  BY <1>1, <1>2, <1>3, QuietPlaces

\* The end of a turn that is sent again.
LEMMA TurnAgainPlaces ==
    ASSUME IInv, PlaceInv, UNCHANGED threads, ToldIn(events') \subseteq ToldIn(events),
           NEW m \in Seq(Messages), TurnsOf(m) \subseteq TurnsOf(session.messages),
           NEW from \in Nat, QueuedTurn(m, from)
    PROVE  PlaceInv'
<1>. DEFINE kept == IF from \in DOMAIN m THEN SubSeq(m, 1, from - 1) ELSE m
<1>1. kept \in Seq(Messages) /\ TurnsOf(kept) \subseteq TurnsOf(session.messages)
  <2>1. CASE from \in DOMAIN m
    <3>1. from - 1 \in Int /\ from - 1 <= Len(m)
      BY <2>1, LenProperties
    <3>. QED  BY <2>1, <3>1, Cut
  <2>2. CASE from \notin DOMAIN m
    BY <2>2
  <2>. QED  BY <2>1, <2>2
<1>2. IF Locked THEN active_job' = FALSE /\ UNCHANGED <<next_turn, seen>> ELSE StartTurn(kept)
  BY DEF QueuedTurn
<1>. HIDE DEF kept
<1>3. CASE Locked
  BY <1>2, <1>3, QuietPlaces
<1>4. CASE ~Locked
  BY <1>1, <1>2, <1>4, BeginsPlaces
<1>. QED  BY <1>3, <1>4

LEMMA TurnEndsPlaces ==
    ASSUME IInv, PlaceInv, HandleDone \/ HandleCancelled \/ HandleError
    PROVE  PlaceInv'
<1>1. /\ UNCHANGED threads /\ events # <<>> /\ Handled /\ Head(events).type \in Ending
  BY DEF HandleDone, HandleCancelled, HandleError, HasEvent, Ending
<1>2. ToldIn(events') = ToldIn(events)
  BY <1>1, ToldTaken DEF Ending, Reporting
<1>3. session.messages \in Seq(Messages) /\ pending.user \in Nat
  BY TurnTypes DEF IInv, Types, TermTypes
<1>4. CASE Ended /\ UNCHANGED <<seen, next_turn>>
  BY <1>1, <1>2, <1>4, QuietPlaces DEF Ended
<1>5. CASE HandleDone /\ regenerate_after_cancel
  <2>. DEFINE m == Answered(session.messages, Head(events).turn)
  <2>1. QueuedTurn(m, pending.user)
    BY <1>5 DEF HandleDone
  <2>2. {Head(events).turn} \in SUBSET Int
    BY <1>1, EventTaken, EventTypes DEF IInv, Types
  <2>3. m \in Seq(Messages) /\ TurnsOf(m) \subseteq TurnsOf(session.messages)
    BY <1>3, <2>2, Rewritten DEF Answered, AnswerHere
  <2>. HIDE DEF m
  <2>. QED  BY <1>1, <1>2, <1>3, <2>1, <2>3, TurnAgainPlaces
<1>6. CASE HandleCancelled /\ regenerate_after_cancel
  <2>. DEFINE m == RolledBack(session.messages)
              from == IF pending.added THEN 0 ELSE pending.user
  <2>1. QueuedTurn(m, from)
    BY <1>6 DEF HandleCancelled
  <2>2. m \in Seq(Messages) /\ TurnsOf(m) \subseteq TurnsOf(session.messages) /\ from \in Nat
    BY <1>3, RolledBackTurn
  <2>. HIDE DEF m, from
  <2>. QED  BY <1>1, <1>2, <2>1, <2>2, TurnAgainPlaces
<1>. QED  BY <1>4, <1>5, <1>6 DEF HandleDone, HandleCancelled, HandleError

LEMMA ResumeNoLoad ==
    ASSUME NEW later, Resume(later)
    PROVE  file_job'.kind # "load"
BY DEF Resume, NoFile, SaveJob

LEMMA HandleSavedPlaces ==
    ASSUME IInv, PlaceInv, HandleSaved
    PROVE  PlaceInv'
<1>. DEFINE e == Head(events)
<1>1. /\ UNCHANGED <<threads, seen, next_turn, active_job, pending, model_job>>
      /\ events # <<>> /\ Handled /\ e.type = "saved"
      /\ session' = IF e.ok THEN AfterSave(session, e.session) ELSE session
  BY DEF HandleSaved, HasEvent, turnVars, saveVars
<1>2. ToldIn(events') = {} /\ e \in Events
  BY <1>1, ToldTaken DEF Reporting
<1>3. file_job'.kind # "load"
  BY ResumeNoLoad DEF HandleSaved
<1>4. session'.messages = session.messages
  BY <1>1, <1>2, EventTypes, TurnTypes, Adopted DEF Reporting
<1>. HIDE DEF e
<1>. QED  BY <1>1, <1>2, <1>3, <1>4, SamePlacesNow, QuietPlaces

\* The session that takes the place of the turn's has no message of it.
LEMMA HandleLoadedPlaces ==
    ASSUME IInv, PlaceInv, HandleLoaded
    PROVE  PlaceInv'
<1>. DEFINE e == Head(events)
            told == ToldIn(events)
<1>1. /\ UNCHANGED <<threads, next_turn, active_job, pending, model_job>>
      /\ events # <<>> /\ Handled /\ e.type = "loaded"
      /\ session' = (IF e.ok THEN e.session ELSE session)
      /\ seen' = (IF e.ok THEN seen \cup ShownTurns(e.session.messages) ELSE seen)
  BY DEF HandleLoaded, HasEvent, turnVars, saveVars
<1>2. told = {e} /\ ToldIn(events') = {}
  BY <1>1, ToldTaken DEF Reporting
<1>3. file_job'.kind # "load"
  BY ResumeNoLoad DEF HandleLoaded
<1>. HIDE DEF e, told
<1>4. e.ok => TurnsOf(e.session.messages) = LoadedTurns(told)
  BY <1>1, <1>2 DEF LoadedTurns
<1>5. seen' \subseteq seen \cup LoadedTurns(told)
  BY <1>1, <1>4 DEF ShownTurns, TurnsOf
<1>6. LoadedTurns(ToldIn(events')) \subseteq LoadedTurns(told)
  BY <1>2, LoadedFewer
<1>7. ASSUME active_job, pending.added
      PROVE  Placed(session'.messages, model_job.turn, pending)
  <2>1. /\ Placed(session.messages, model_job.turn, pending)
        /\ model_job.turn \notin LoadedTurns(told)
    BY <1>7 DEF PlaceInv, Unheard, told
  <2>2. CASE e.ok
    BY <1>1, <1>4, <2>1, <2>2 DEF Placed, TurnsOf
  <2>. QED  BY <1>1, <2>1, <2>2
<1>8. RowsFrom(seen \cup Negative)
  BY <1>1, SameRows
<1>. QED  BY <1>1, <1>3, <1>5, <1>6, <1>7, <1>8, PlacesKept DEF told

-----------------------------------------------------------------------------
(* Leaving *)

LEMMA QuitPlaces ==
    ASSUME IInv, PlaceInv, Quit \/ CancelFileJob
    PROVE  PlaceInv'
<1>1. UNCHANGED <<threads, seen, next_turn, active_job, pending, session, events>>
  BY DEF Quit, CancelFileJob, turnVars
<1>2. model_job'.turn = model_job.turn
  BY ModelTurn DEF Quit, CancelFileJob
<1>3. file_job'.kind = "load" => file_job.kind = "load"
  <2>1. CASE Joinable(file_job) /\ file_job' = [file_job EXCEPT !.token = TRUE]
    BY <2>1, JobCancelled DEF IInv, Types, TermTypes
  <2>. QED  BY <2>1 DEF Quit, CancelFileJob
<1>. QED  BY <1>1, <1>2, <1>3, SamePlacesNow, QuietPlaces

\* The saves made while leaving change no message of the session.
LEMMA ExitSameMessages ==
    ASSUME IInv, SaveAtExit
    PROVE  session'.messages = session.messages
<1>1. /\ events \in Seq(Events) /\ deferred_store_save \in Saves /\ session \in Sessions
  BY DEF IInv, Types, TermTypes
<1>2. ASSUME NEW s \in Sessions, NEW later \in Saves, AtExit(s, later)
      PROVE  session'.messages = s.messages
  <2>1. CASE session' = s
    BY <2>1
  <2>2. CASE /\ later # NoSave /\ CanSave(later.session)
             /\ session' = InRow(s, Stored(later.session).thread, Stored(later.session).revision)
    <3>. DEFINE r == Stored(later.session)
    <3>1. later.session \in Sessions
      BY <2>2 DEF Saves
    <3>2. r \in Sessions
      BY <2>2, <3>1, Saved DEF IInv
    <3>. HIDE DEF r
    <3>3. r.thread \in ThreadIds \cup {NoThread} /\ r.revision \in Nat
      BY <3>2 DEF Sessions
    <3>4. session' = InRow(s, r.thread, r.revision)
      BY <2>2 DEF r
    <3>. QED  BY <3>3, <3>4, WithRow
  <2>. QED  BY <1>2, <2>1, <2>2 DEF AtExit
<1>3. CASE AtExit(session, deferred_store_save)
  BY <1>1, <1>2, <1>3
<1>4. ASSUME NEW e \in SavedEvents,
             AtExit(AfterSave(session, e.session), Patched(deferred_store_save, session, e.session))
      PROVE  session'.messages = session.messages
  <2>. DEFINE s == AfterSave(session, e.session)
              p == Patched(deferred_store_save, session, e.session)
  <2>1. e \in Events /\ e.type = "saved" /\ e.ok
    BY <1>1, <1>4, LenProperties, ElementOfSeq DEF SavedEvents, Range
  <2>2. e.session \in Sessions
    BY <2>1, EventTypes DEF Reporting
  <2>3. s \in Sessions /\ s.messages = session.messages
    BY <1>1, <2>2, Adopted
  <2>4. p \in Saves
    BY <1>1, <2>2, PatchedSave
  <2>5. AtExit(s, p)
    BY <1>4
  <2>. HIDE DEF s, p
  <2>. QED  BY <1>2, <2>3, <2>4, <2>5
<1>. QED  BY <1>3, <1>4 DEF SaveAtExit

LEMMA SaveAtExitPlaces ==
    ASSUME IInv, PlaceInv, SaveAtExit
    PROVE  PlaceInv'
<1>1. /\ file_job' = NoFile /\ events' = <<>>
      /\ UNCHANGED <<seen, next_turn, active_job, pending, model_job>>
  BY DEF SaveAtExit, turnVars
<1>2. ToldIn(events') = {}
  BY <1>1 DEF ToldIn
<1>3. LoadedTurns(ToldIn(events')) \subseteq LoadedTurns(ToldIn(events))
  BY <1>2, LoadedFewer
<1>4. RowsFrom(seen \cup Negative)
  <2>1. PICK s \in Sessions, later \in Saves :
            /\ later # NoSave => Shown(threads, seen, later.session)
            /\ AtExit(s, later)
    BY ExitKnows
  <2>2. CASE later # NoSave /\ CanSave(later.session) /\ threads' = SaveSession(later.session)
    <3>1. later.session \in Sessions
      BY <2>2 DEF Saves
    <3>. QED  BY <2>1, <2>2, <3>1, SavedRows
  <2>3. CASE UNCHANGED threads
    BY <2>3, SameRows
  <2>. QED  BY <2>1, <2>2, <2>3 DEF AtExit
<1>5. active_job /\ pending.added => Placed(session'.messages, model_job.turn, pending)
  BY ExitSameMessages DEF PlaceInv, Placed
<1>. QED  BY <1>1, <1>3, <1>4, <1>5, NoFileJob, PlacesKept


LEMMA RemoveEmptyThreadPlaces ==
    ASSUME IInv, PlaceInv, RemoveEmptyThread
    PROVE  PlaceInv'
<1>1. UNCHANGED <<seen, next_turn, active_job, pending, session, model_job, events, file_job>>
  BY DEF RemoveEmptyThread, turnVars, jobVars
<1>2. \A u \in ThreadIds : threads'[u].messages = threads[u].messages
  <2>1. CASE threads' = threads
    BY <2>1
  <2>2. CASE session.thread # NoThread /\ threads' = SoftDelete(session.thread)
    <3>1. session.thread \in ThreadIds /\ session.revision \in 1..threads[session.thread].revision
      BY <2>2, Session DEF Sessions, Shown, Known, Held
    <3>2. threads[session.thread].revision > 0
      BY <3>1 DEF IInv, Types, LibTypes, Rows
    <3>. QED  BY <2>2, <3>1, <3>2, SoftDeleted DEF IInv
  <2>. QED  BY <2>1, <2>2 DEF RemoveEmptyThread
<1>3. RowsFrom(seen \cup Negative) /\ RowsFrom(Negative)
  BY <1>2, SameRows
<1>4. active_job /\ pending.added => Placed(session'.messages, model_job.turn, pending)
  BY <1>1 DEF PlaceInv
<1>. QED  BY <1>1, <1>3, <1>4, PlacesKept

LEMMA TerminalPlaces ==
    ASSUME IInv, PlaceInv, ChatNext
    PROVE  PlaceInv'
<1>1. CASE Keys
  BY <1>1, KeysPlaces
<1>2. CASE Model \/ File
  BY <1>2, ModelPlaces, StoreSaveRunsPlaces, LoadBeginsPlaces, LoadEndsPlaces DEF File
<1>3. CASE Handle
  BY <1>3, HandleDeltaPlaces, TurnEndsPlaces, HandleSavedPlaces, HandleLoadedPlaces DEF Handle
<1>4. CASE Quit \/ Leave
  BY <1>4, QuitPlaces, SaveAtExitPlaces, RemoveEmptyThreadPlaces DEF Leave
<1>. QED  BY <1>1, <1>2, <1>3, <1>4 DEF ChatNext

-----------------------------------------------------------------------------
(* The browser *)

\* A thread that is rewritten keeps messages, or gets one of the browser's.
LEMMA OneRow ==
    ASSUME NEW t \in ThreadIds, NEW S,
           TurnsOf(threads'[t].messages) \subseteq TurnsOf(threads[t].messages) \cup S,
           \A u \in ThreadIds \ {t} : threads'[u] = threads[u]
    PROVE  RowsFrom(S)
BY DEF RowsFrom

LEMMA BrowserRows ==
    ASSUME IInv, WebNext
    PROVE  RowsFrom(Negative)
<1>1. WebTurn \in Negative /\ WebTurn \in Int
  BY DEF WebTurn, Negative, IInv, Types, LibTypes
<1>2. ASSUME NEW t \in ThreadIds, WebAppend(t)
      PROVE  RowsFrom(Negative)
  <2>1. /\ TurnsOf(threads'[t].messages) \subseteq TurnsOf(threads[t].messages) \cup {WebTurn}
        /\ \A u \in ThreadIds \ {t} : threads'[u] = threads[u]
    BY <1>2, AppendSaves
  <2>. QED  BY <1>1, <2>1, OneRow
<1>3. ASSUME NEW t \in ThreadIds, WebEdit(t)
      PROVE  RowsFrom(Negative)
  <2>1. PICK i \in DOMAIN threads[t].messages :
            Rewrite(t, [threads[t].messages EXCEPT ![i].turn = WebTurn, ![i].by = {WebTurn}])
    BY <1>3 DEF WebEdit
  <2>. DEFINE m == [threads[t].messages EXCEPT ![i].turn = WebTurn, ![i].by = {WebTurn}]
  <2>2. CurrentFor(t, web_revision[t])
    BY <1>3 DEF WebEdit
  <2>3. threads[t].messages \in Seq(Messages)
    BY <2>2, WebKnows
  <2>4. m \in Seq(Messages) /\ TurnsOf(m) \subseteq TurnsOf(threads[t].messages) \cup {WebTurn}
    BY <1>1, <2>1, <2>3, Retold
  <2>5. Rewrite(t, m)
    BY <2>1
  <2>. HIDE DEF m
  <2>6. threads'[t].messages = m /\ \A u \in ThreadIds \ {t} : threads'[u] = threads[u]
    BY <2>2, <2>4, <2>5, RewriteSaves
  <2>. QED  BY <1>1, <2>4, <2>6, OneRow
<1>4. ASSUME NEW t \in ThreadIds, WebRewind(t)
      PROVE  RowsFrom(Negative)
  <2>1. PICK n \in 0..(Len(threads[t].messages) - 1) :
            Rewrite(t, SubSeq(threads[t].messages, 1, n))
    BY <1>4 DEF WebRewind
  <2>. DEFINE m == SubSeq(threads[t].messages, 1, n)
  <2>2. CurrentFor(t, web_revision[t])
    BY <1>4 DEF WebRewind
  <2>3. threads[t].messages \in Seq(Messages)
    BY <2>2, WebKnows
  <2>4. n \in Int /\ n <= Len(threads[t].messages)
    BY <2>1, <2>3, LenProperties
  <2>5. m \in Seq(Messages) /\ TurnsOf(m) \subseteq TurnsOf(threads[t].messages)
    BY <2>3, <2>4, Cut
  <2>6. Rewrite(t, m)
    BY <2>1
  <2>. HIDE DEF m
  <2>7. threads'[t].messages = m /\ \A u \in ThreadIds \ {t} : threads'[u] = threads[u]
    BY <2>2, <2>5, <2>6, RewriteSaves
  <2>. QED  BY <2>5, <2>7, OneRow
<1>5. ASSUME NEW t \in ThreadIds, threads[t].revision > 0, threads' = SoftDelete(t)
      PROVE  RowsFrom(Negative)
  <2>1. \A u \in ThreadIds : threads'[u].messages = threads[u].messages
    BY <1>5, SoftDeleted DEF IInv
  <2>. QED  BY <2>1, SameRows
<1>6. ASSUME NEW t \in ThreadIds, WebRemove(t)
      PROVE  RowsFrom(Negative)
  <2>1. CurrentFor(t, web_revision[t]) /\ threads' = SoftDelete(t)
    BY <1>6 DEF WebRemove
  <2>. QED  BY <1>5, <2>1, WebKnows
<1>7. CASE CleanupDelete
  <2>1. PICK t \in cleaning : threads' = SoftDelete(t)
    BY <1>7 DEF CleanupDelete
  <2>2. t \in ThreadIds /\ threads[t].revision > 0
    BY DEF IInv, Types, LibTypes, WebInv
  <2>. QED  BY <1>5, <2>1, <2>2
<1>8. CASE WebCreate
  <2>. DEFINE s == Fresh(0)
              r == Stored(s)
  <2>1. CanSave(s) /\ threads' = SaveSession(s)
    BY <1>8 DEF WebCreate
  <2>2. s \in Sessions /\ TurnsOf(s.messages) = {}
    BY FreshSession
  <2>. HIDE DEF s
  <2>3. /\ r.thread \in ThreadIds /\ threads'[r.thread].messages = s.messages
        /\ \A u \in ThreadIds \ {r.thread} : threads'[u] = threads[u]
    BY <2>1, <2>2, Saved DEF IInv
  <2>. HIDE DEF r
  <2>. QED  BY <2>2, <2>3, OneRow
<1>9. ASSUME NEW t, WebLoad(t) \/ WebCleanup(t)
      PROVE  RowsFrom(Negative)
  BY <1>9, SameRows DEF WebLoad, WebCleanup
<1>. QED  BY <1>2, <1>3, <1>4, <1>6, <1>7, <1>8, <1>9 DEF WebNext, Request

LEMMA BrowserPlaces ==
    ASSUME IInv, PlaceInv, UNCHANGED chatVars, WebNext
    PROVE  PlaceInv'
<1>1. UNCHANGED <<seen, next_turn, active_job, pending, session, model_job, events, file_job>>
  BY DEF chatVars, turnVars, jobVars
<1>2. RowsFrom(Negative) /\ RowsFrom(seen \cup Negative)
  BY BrowserRows DEF RowsFrom
<1>3. active_job /\ pending.added => Placed(session'.messages, model_job.turn, pending)
  BY <1>1 DEF PlaceInv
<1>. QED  BY <1>1, <1>2, <1>3, PlacesKept


LEMMA PlaceInit == Init => PlaceInv
<1>. SUFFICES ASSUME Init PROVE PlaceInv
  OBVIOUS
<1>1. /\ events = <<>> /\ next_turn = 1 /\ seen = {} /\ active_job = FALSE
      /\ \A t \in ThreadIds : threads[t].messages = Written(0) \/ threads[t].messages = <<>>
  BY DEF Init, ChatInit, Absent
<1>2. TurnsOf(Written(0)) \subseteq {0} /\ TurnsOf(<<>>) = {}
  <2>1. /\ DOMAIN Written(0) = 1..2 /\ Written(0)[1].turn = 0 /\ Written(0)[2].turn = 0
    BY DEF Written, Prompt, Answer
  <2>2. \A i \in DOMAIN Written(0) : Written(0)[i].turn = 0
    BY <2>1
  <2>. QED  BY <2>2, EmptySeq DEF TurnsOf
<1>3. RowTurns(threads) \subseteq {0}
  BY <1>1, <1>2 DEF RowTurns
<1>4. LoadedTurns(ToldIn(events)) = {}
  BY <1>1 DEF ToldIn, LoadedTurns
<1>5. Ages(threads, seen, ToldIn(events), next_turn)
  BY <1>1, <1>3, <1>4 DEF Ages
<1>. QED  BY <1>1, <1>5 DEF PlaceInv

LEMMA PlaceStep == IInv /\ PlaceInv /\ [Next]_vars => PlaceInv'
<1>. SUFFICES ASSUME IInv, PlaceInv, [Next]_vars PROVE PlaceInv'
  OBVIOUS
<1>1. CASE ChatNext
  BY <1>1, TerminalPlaces
<1>2. CASE WebNext /\ UNCHANGED chatVars
  BY <1>2, BrowserPlaces
<1>3. CASE UNCHANGED vars
  <2>1. UNCHANGED <<threads, seen, next_turn, active_job, pending, session, model_job, events,
                    file_job>>
    BY <1>3 DEF vars, chatVars, turnVars, jobVars
  <2>. QED  BY <2>1, SamePlacesNow, QuietPlaces
<1>. QED  BY <1>1, <1>2, <1>3 DEF Next

\* What is left when a message is erased.
LEMMA ErasedAt ==
    ASSUME NEW m \in Seq(Messages), NEW i \in Nat, NEW j \in DOMAIN Erase(m, i)
    PROVE  LET k == IF i \in DOMAIN m /\ j >= i THEN j + 1 ELSE j
           IN  k \in DOMAIN m /\ k # i /\ Erase(m, i)[j] = m[k]
<1>1. DOMAIN m = 1..Len(m) /\ Len(m) \in Nat
  BY LenProperties
<1>2. CASE i \notin DOMAIN m
  BY <1>2 DEF Erase
<1>3. CASE i \in DOMAIN m
  <2>1. j \in 1..(Len(m) - 1) /\ Erase(m, i)[j] = IF j <= i - 1 THEN m[j] ELSE m[j + 1]
    BY <1>3, ErasedOne
  <2>. QED  BY <1>1, <1>3, <2>1
<1>. QED  BY <1>2, <1>3

\* The answer first, then the prompt before it: neither is left.
LEMMA RolledBackAt ==
    ASSUME NEW m \in Seq(Messages), NEW n, Placed(m, n, pending), pending.added,
           pending.user \in Nat, pending.assistant = pending.user + 1
    PROVE  n \notin TurnsOf(RolledBack(m))
<1>1. PICK u \in Nat : u = pending.user /\ u + 1 = pending.assistant /\ u + 1 \in Nat
  OBVIOUS
<1>. DEFINE rest == Erase(m, u + 1)
            left == Erase(rest, u)
<1>2. RolledBack(m) = left
  BY <1>1 DEF RolledBack
<1>3. rest \in Seq(Messages)
  BY Erased
<1>4. ASSUME NEW j \in DOMAIN left
      PROVE  left[j].turn # n
  <2>. DEFINE k == IF u \in DOMAIN rest /\ j >= u THEN j + 1 ELSE j
              l == IF u + 1 \in DOMAIN m /\ k >= u + 1 THEN k + 1 ELSE k
  <2>. HIDE DEF rest
  <2>1. k \in DOMAIN rest /\ k # u /\ left[j] = rest[k]
    BY <1>3, <1>4, ErasedAt
  <2>2. k \in Nat
    BY <1>3, <2>1, LenProperties
  <2>. HIDE DEF k, left
  <2>3. l \in DOMAIN m /\ l # u + 1 /\ rest[k] = m[l]
    BY <1>1, <2>1, ErasedAt DEF rest
  <2>4. l # u
    BY <2>1, <2>2
  <2>. HIDE DEF l
  <2>. QED  BY <1>1, <2>1, <2>3, <2>4 DEF Placed
<1>. HIDE DEF left
<1>. QED  BY <1>2, <1>4 DEF TurnsOf

\* With an error at the head of the queue only its handling ends a turn.
LEMMA EndsByItsEvent ==
    ASSUME IInv, Next, active_job, ~active_job', HasEvent({"error"})
    PROVE  HandleError
<1>1. Head(events).type = "error" /\ active_job' # active_job
  BY DEF HasEvent
<1>2. ChatNext
  BY <1>1 DEF Next, chatVars, turnVars
<1>3. ~Keys
  <2>1. ~(Send \/ Respond \/ Regenerate \/ RegenerateActive \/ Escape \/ NewThread \/ Clone \/ Pop)
    BY <1>1 DEF Send, Respond, Regenerate, RegenerateActive, Escape, NewThread, Clone, Pop, turnVars
  <2>2. ~(Clear \/ ChangeSetting \/ StartHistoryEdit \/ FinishHistoryEdit \/ CancelHistoryEdit)
    BY <1>1 DEF Clear, ChangeSetting, StartHistoryEdit, FinishHistoryEdit, CancelHistoryEdit, turnVars
  <2>3. \A t \in ThreadIds : ~LoadThread(t) /\ ~RemoveThread(t)
    BY <1>1 DEF LoadThread, RemoveThread, turnVars
  <2>. QED  BY <2>1, <2>2, <2>3 DEF Keys
<1>4. ~(Quit \/ Model \/ File \/ Leave)
  BY <1>1 DEF Quit, Model, ModelDelta, ModelEnd, File, StoreSaveRuns, LoadBegins, LoadEnds, Leave,
              CancelFileJob, SaveAtExit, RemoveEmptyThread, turnVars
<1>5. ~(HandleDelta \/ HandleDone \/ HandleCancelled \/ HandleSaved \/ HandleLoaded)
  BY <1>1 DEF HandleDelta, HandleDone, HandleCancelled, HandleSaved, HandleLoaded, HasEvent
<1>. QED  BY <1>2, <1>3, <1>4, <1>5 DEF ChatNext, Handle

(***************************************************************************)
(* A turn that fails takes its messages along: once the messages at the    *)
(* two remembered positions are erased, the answer first, no message of    *)
(* the turn is left (HandleError, RolledBack), though the session may have *)
(* been cleared, edited or replaced by another thread's since the turn     *)
(* began.  What is erased need not be of the turn in the last case.        *)
(***************************************************************************)
THEOREM FailedTurnIsErased == Spec => FailedTurnLeavesNothing
<1>. DEFINE A == active_job /\ ~active_job' /\ HasEvent({"error"}) /\ pending.added
                   => Head(events).turn \notin TurnsOf(session'.messages)
<1>1. IInv /\ PlaceInv /\ [Next]_vars => [A]_vars
  <2>. SUFFICES ASSUME IInv, PlaceInv, Next, active_job, ~active_job', HasEvent({"error"}),
                       pending.added
                PROVE  Head(events).turn \notin TurnsOf(session'.messages)
    OBVIOUS
  <2>1. HandleError
    BY EndsByItsEvent
  <2>2. /\ session' = [session EXCEPT !.messages = RolledBack(session.messages)]
        /\ Open /\ events # <<>> /\ Handled /\ Head(events).type \in Ending
    BY <2>1 DEF HandleError, HasEvent, Ending
  <2>3. Head(events).turn = model_job.turn
    BY <2>2, TurnTaken DEF IInv, Types
  <2>4. /\ pending.assistant = pending.user + 1 /\ pending.user \in Nat
        /\ Placed(session.messages, model_job.turn, pending)
    BY DEF PlaceInv, IInv, Types, TermTypes
  <2>5. model_job.turn \notin TurnsOf(RolledBack(session.messages))
    BY <2>4, TurnTypes, RolledBackAt
  <2>6. session'.messages = RolledBack(session.messages)
    BY <2>2, TurnTypes, RolledBackTurn, WithMessages
  <2>. QED  BY <2>3, <2>5, <2>6
<1>2. Init => PlaceInv
  BY PlaceInit
<1>3. IInv /\ PlaceInv /\ [Next]_vars => PlaceInv'
  BY PlaceStep
<1>. QED  BY <1>1, <1>2, <1>3, Invariance, PTL DEF Spec, FailedTurnLeavesNothing
=============================================================================
