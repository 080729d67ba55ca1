-------------------------- MODULE ChatLibraryProofs ---------------------------
(***************************************************************************)
(* The theorems of ChatLibrary, for every number of threads, keys and      *)
(* requests and every set of threads that are read-only.                   *)
(*                                                                         *)
(* The inductive invariant IInv says, besides the types, where the newest  *)
(* autosave is (SaveInv), that the file job reports once (ReportInv), that *)
(* a turn has one end to come (TurnInv), and what the writers know.        *)
(* SeenInv is why no update is lost: whoever in the terminal holds a       *)
(* revision of a thread, the session, the file job, the deferred save or   *)
(* an event, has it from the store; if it is the thread's revision still,  *)
(* the terminal has shown every message of the thread, because messages    *)
(* only ever change with the revision (Grown).  WebInv says the same of    *)
(* the browser.                                                            *)
(***************************************************************************)
EXTENDS ChatLibrary, SequenceTheorems, WellFoundedInduction, TLAPS

\* The types of events, rows and jobs.
Ending    == {"done", "error", "cancelled"}
Reporting == {"saved", "loaded"}

Events ==
    [type : {"delta"} \cup Ending, turn : Nat]
      \cup [type : Reporting, ok : {FALSE}]
      \cup [type : Reporting, ok : {TRUE}, session : Sessions]

Rows == [revision : Nat, deleted : BOOLEAN, conv : Nat, messages : Seq(Messages)]

FileJobs ==
    [kind : {"none"}]
      \cup [kind : {"save"}, token : BOOLEAN, pushed : BOOLEAN, session : Sessions, save : Nat]
      \cup [kind : {"load"}, token : BOOLEAN, pushed : BOOLEAN, session : Sessions,
            thread : ThreadIds]

Saves == {NoSave} \cup [session : Sessions, save : Nat]

LibTypes ==
    /\ threads \in [ThreadIds -> Rows]
    /\ \A t \in ThreadIds : threads[t].revision = 0 => threads[t] = Absent
    /\ cleaning \subseteq ThreadIds
    /\ web_revision \in [ThreadIds -> Nat]
    /\ web_seen \in [ThreadIds -> SUBSET Int]
    /\ web_wrote \in [ThreadIds -> Nat]
    /\ requests \in Nat

TermTypes ==
    /\ session \in Sessions
    /\ file_job \in FileJobs
    /\ ui \in {"open", "leaving", "closing", "saved", "left"}
    /\ pending \in [user : Nat, assistant : Nat, added : BOOLEAN]
    /\ active_job \in BOOLEAN
    /\ regenerate_after_cancel \in BOOLEAN
    /\ model_job \in [turn : Nat, running : BOOLEAN, token : BOOLEAN, said : BOOLEAN]
    /\ deferred_store_save \in Saves
    /\ events \in Seq(Events)
    /\ history_edit \in {NoEdit} \cup [index : Nat, by : SUBSET Int]
    /\ next_turn \in Nat /\ next_conv \in Nat
    /\ asked \in Nat /\ stored \in Nat /\ failed \in Nat
    /\ seen \subseteq Int

Types == LibTypes /\ TermTypes

\* The results of file jobs that wait to be handled.
Reports == {i \in DOMAIN events : events[i].type \in Reporting}

\* The newest autosave is the one under way, or the one that waits.
SaveInv ==
    /\ Deferred => Joinable(file_job) /\ deferred_store_save.save = asked
    /\ ~Deferred => IF file_job.kind = "save" /\ ~file_job.pushed THEN file_job.save = asked
                    ELSE asked \in {0, stored, failed}

\* Only the file job reports, and once.
ReportInv ==
    /\ \A i, j \in Reports : i = j
    /\ Reports # {} => Joinable(file_job) /\ file_job.pushed

\* A turn has one end to come; the model job is joined before the file job.
TurnInv ==
    /\ TurnHasItsEnd
    /\ ui \in {"closing", "saved", "left"} => ~model_job.running

\* What a holder s of a thread knows of it, `rows` being the threads and
\* `shown` the turns the terminal has shown.
Held(rows, s) == s.thread # NoThread => s.revision \in 1..rows[s.thread].revision

\* s has the thread's own revision.
Current(rows, s) == s.thread # NoThread /\ s.revision = rows[s.thread].revision

\* ... then all of the thread's messages have been shown ...
Known(rows, shown, s) ==
    /\ Held(rows, s)
    /\ Current(rows, s) => TurnsOf(rows[s.thread].messages) \subseteq shown

\* ... as have those s would write in their place.
Shown(rows, shown, s) == Known(rows, shown, s) /\ TurnsOf(s.messages) \subseteq shown

\* What is loaded brings the thread's messages along.
Loaded(rows, s) ==
    /\ Held(rows, s)
    /\ Current(rows, s) => TurnsOf(rows[s.thread].messages) \subseteq TurnsOf(s.messages)

Reported(rows, shown, e) ==
    /\ e.type = "saved" /\ e.ok => e.session.thread # NoThread /\ Known(rows, shown, e.session)
    /\ e.type = "loaded" /\ e.ok => Loaded(rows, e.session)

JobKnows(rows, shown, job) ==
    /\ job.kind = "save" /\ ~job.pushed => Shown(rows, shown, job.session)
    /\ job.kind = "load" =>
        Held(rows, job.session) /\ (job.session.revision > 0 => job.session.thread # NoThread)

\* Everything in the terminal that holds a thread knows it.
SeenInv ==
    /\ Shown(threads, seen, session)
    /\ Deferred => Shown(threads, seen, deferred_store_save.session)
    /\ JobKnows(threads, seen, file_job)
    /\ \A i \in DOMAIN events : Reported(threads, seen, events[i])

\* So does the browser; an id to be cleaned up is of a row.
WebInv ==
    \A t \in ThreadIds :
        /\ web_revision[t] <= threads[t].revision
        /\ web_wrote[t] <= threads[t].revision
        /\ web_revision[t] = threads[t].revision
             => TurnsOf(threads[t].messages) \subseteq web_seen[t]
        /\ t \in cleaning => threads[t].revision > 0

IInv == Types /\ SaveInv /\ ReportInv /\ TurnInv /\ SeenInv /\ WebInv

-----------------------------------------------------------------------------
(* Messages, sessions and rows *)

LEMMA TypesSuffice == Types => TypeOK
BY DEF Types, LibTypes, TermTypes, TypeOK, Rows, FileJobs

LEMMA Prompts ==
    ASSUME NEW n \in Nat
    PROVE  /\ Prompt(n) \in Messages /\ Prompt(n).turn = n
           /\ Answer(n) \in Messages /\ Answer(n).turn = n
BY DEF Prompt, Answer, Messages

LEMMA ErasedOne ==
    ASSUME NEW m \in Seq(Messages), NEW i \in DOMAIN m
    PROVE  /\ Erase(m, i) \in Seq(Messages) /\ DOMAIN Erase(m, i) = 1..(Len(m) - 1)
           /\ \A j \in 1..(Len(m) - 1) : Erase(m, i)[j] = IF j <= i - 1 THEN m[j] ELSE m[j + 1]
<1>. DEFINE a == SubSeq(m, 1, i - 1)
            b == SubSeq(m, i + 1, Len(m))
<1>1. i \in 1..Len(m) /\ Len(m) \in Nat /\ (\A j \in 1..Len(m) : m[j] \in Messages)
  BY LenProperties, ElementOfSeq
<1>2. /\ a \in Seq(Messages) /\ Len(a) = i - 1 /\ \A j \in 1..(i - 1) : a[j] = m[j]
  BY <1>1, SubSeqProperties
<1>3. /\ b \in Seq(Messages) /\ Len(b) = Len(m) - i
      /\ \A j \in 1..(Len(m) - i) : b[j] = m[j + i]
  <2>1. \A j \in (i + 1)..Len(m) : m[j] \in Messages
    BY <1>1
  <2>2. /\ b \in Seq(Messages)
        /\ Len(b) = IF i + 1 <= Len(m) THEN Len(m) - (i + 1) + 1 ELSE 0
        /\ \A j \in 1..(Len(m) - (i + 1) + 1) : b[j] = m[(i + 1) + j - 1]
    BY <2>1, <1>1, SubSeqProperties
  <2>. QED  BY <2>2, <1>1
<1>. HIDE DEF a, b
<1>4. /\ a \o b \in Seq(Messages) /\ Len(a \o b) = Len(m) - 1
      /\ \A j \in 1..(Len(m) - 1) : (a \o b)[j] = IF j <= i - 1 THEN a[j] ELSE b[j - (i - 1)]
  <2>1. /\ a \o b \in Seq(Messages) /\ Len(a \o b) = Len(a) + Len(b)
        /\ \A j \in 1..(Len(a) + Len(b)) :
              (a \o b)[j] = IF j <= Len(a) THEN a[j] ELSE b[j - Len(a)]
    BY <1>2, <1>3, ConcatProperties
  <2>2. Len(a) = i - 1 /\ Len(a) + Len(b) = Len(m) - 1
    BY <1>1, <1>2, <1>3
  <2>. QED  BY <2>1, <2>2
<1>5. DOMAIN (a \o b) = 1..(Len(m) - 1)
  BY <1>4, LenProperties
<1>6. ASSUME NEW j \in 1..(Len(m) - 1)
      PROVE  (a \o b)[j] = IF j <= i - 1 THEN m[j] ELSE m[j + 1]
  <2>1. CASE j <= i - 1
    BY <1>1, <1>2, <1>4, <2>1
  <2>2. CASE ~(j <= i - 1)
    <3>1. j - (i - 1) \in 1..(Len(m) - i) /\ (j - (i - 1)) + i = j + 1
      BY <1>1, <2>2
    <3>2. b[j - (i - 1)] = m[j + 1]
      BY <1>3, <3>1
    <3>. QED  BY <1>4, <2>2, <3>2
  <2>. QED  BY <2>1, <2>2
<1>7. Erase(m, i) = a \o b
  BY DEF Erase, RemoveAt, a, b
<1>. QED  BY <1>4, <1>5, <1>6, <1>7

LEMMA Erased ==
    ASSUME NEW m \in Seq(Messages), NEW i
    PROVE  Erase(m, i) \in Seq(Messages) /\ TurnsOf(Erase(m, i)) \subseteq TurnsOf(m)
<1>1. CASE i \notin DOMAIN m
  BY <1>1 DEF Erase
<1>2. CASE i \in DOMAIN m
  <2>. DEFINE x == Erase(m, i)
  <2>1. /\ x \in Seq(Messages) /\ DOMAIN x = 1..(Len(m) - 1)
        /\ \A j \in 1..(Len(m) - 1) : x[j] = IF j <= i - 1 THEN m[j] ELSE m[j + 1]
    BY <1>2, ErasedOne
  <2>2. DOMAIN m = 1..Len(m) /\ Len(m) \in Nat
    BY LenProperties
  <2>. HIDE DEF x
  <2>3. \A j \in DOMAIN x : \E k \in DOMAIN m : x[j] = m[k]
    <3>1. \A j \in 1..(Len(m) - 1) : j \in DOMAIN m /\ j + 1 \in DOMAIN m
      BY <2>2
    <3>. QED  BY <2>1, <3>1
  <2>4. x \in Seq(Messages) /\ TurnsOf(x) \subseteq TurnsOf(m)
    BY <2>1, <2>3 DEF TurnsOf
  <2>. QED  BY <2>4 DEF x
<1>. QED  BY <1>1, <1>2

LEMMA Cut ==
    ASSUME NEW m \in Seq(Messages), NEW n \in Int, n <= Len(m)
    PROVE  SubSeq(m, 1, n) \in Seq(Messages) /\ TurnsOf(SubSeq(m, 1, n)) \subseteq TurnsOf(m)
<1>1. Len(m) \in Nat /\ DOMAIN m = 1..Len(m) /\ \A j \in 1..n : m[j] \in Messages
  BY LenProperties, ElementOfSeq
<1>2. /\ SubSeq(m, 1, n) \in Seq(Messages)
      /\ Len(SubSeq(m, 1, n)) = IF 1 <= n THEN n ELSE 0
      /\ \A j \in 1..n : SubSeq(m, 1, n)[j] = m[j]
  BY <1>1, SubSeqProperties
<1>3. DOMAIN SubSeq(m, 1, n) = 1..(IF 1 <= n THEN n ELSE 0)
  BY <1>2, LenProperties
<1>4. \A j \in DOMAIN SubSeq(m, 1, n) : \E k \in DOMAIN m : SubSeq(m, 1, n)[j] = m[k]
  BY <1>1, <1>2, <1>3
<1>. QED  BY <1>2, <1>4 DEF TurnsOf

LEMMA Longer ==
    ASSUME NEW m \in Seq(Messages), NEW x \in Messages
    PROVE  /\ Append(m, x) \in Seq(Messages)
           /\ TurnsOf(Append(m, x)) = TurnsOf(m) \cup {x.turn}
<1>1. /\ Append(m, x) \in Seq(Messages) /\ Len(Append(m, x)) = Len(m) + 1
      /\ (\A i \in 1..Len(m) : Append(m, x)[i] = m[i])
      /\ Append(m, x)[Len(m) + 1] = x
  BY AppendProperties
<1>2. Len(m) \in Nat /\ DOMAIN m = 1..Len(m) /\ DOMAIN Append(m, x) = 1..(Len(m) + 1)
  BY <1>1, LenProperties
<1>3. DOMAIN Append(m, x) = DOMAIN m \cup {Len(m) + 1}
  BY <1>2
<1>. QED  BY <1>1, <1>2, <1>3 DEF TurnsOf

LEMMA Joined ==
    ASSUME NEW m \in Seq(Messages), NEW n \in Seq(Messages)
    PROVE  m \o n \in Seq(Messages) /\ TurnsOf(m \o n) \subseteq TurnsOf(m) \cup TurnsOf(n)
                                    /\ TurnsOf(m) \subseteq TurnsOf(m \o n)
<1>1. /\ m \o n \in Seq(Messages) /\ Len(m \o n) = Len(m) + Len(n)
      /\ \A i \in 1..(Len(m) + Len(n)) : (m \o n)[i] = IF i <= Len(m) THEN m[i] ELSE n[i - Len(m)]
  BY ConcatProperties
<1>2. /\ Len(m) \in Nat /\ DOMAIN m = 1..Len(m)
      /\ Len(n) \in Nat /\ DOMAIN n = 1..Len(n)
      /\ DOMAIN (m \o n) = 1..(Len(m) + Len(n))
  BY <1>1, LenProperties
<1>3. \A i \in DOMAIN (m \o n) : (m \o n)[i].turn \in TurnsOf(m) \cup TurnsOf(n)
  <2>. TAKE i \in DOMAIN (m \o n)
  <2>1. CASE i <= Len(m)
    BY <1>1, <1>2, <2>1 DEF TurnsOf
  <2>2. CASE ~(i <= Len(m))
    <3>1. i - Len(m) \in DOMAIN n /\ (m \o n)[i] = n[i - Len(m)]
      BY <1>1, <1>2, <2>2
    <3>. QED  BY <3>1 DEF TurnsOf
  <2>. QED  BY <2>1, <2>2
<1>4. \A i \in DOMAIN m : i \in DOMAIN (m \o n) /\ (m \o n)[i] = m[i]
  BY <1>1, <1>2
<1>. QED  BY <1>1, <1>3, <1>4 DEF TurnsOf

LEMMA Begun ==
    ASSUME NEW m \in Seq(Messages), NEW n \in Nat
    PROVE  /\ m \o <<Prompt(n), Answer(n)>> \in Seq(Messages)
           /\ TurnsOf(m \o <<Prompt(n), Answer(n)>>) \subseteq TurnsOf(m) \cup {n}
<1>. DEFINE two == <<Prompt(n), Answer(n)>>
<1>1. two \in Seq(Messages) /\ DOMAIN two = 1..2 /\ two[1] = Prompt(n) /\ two[2] = Answer(n)
  BY Prompts
<1>2. \A i \in DOMAIN two : two[i].turn = n
  BY <1>1, Prompts
<1>. HIDE DEF two
<1>3. TurnsOf(two) \subseteq {n}
  BY <1>2 DEF TurnsOf
<1>4. m \o two \in Seq(Messages) /\ TurnsOf(m \o two) \subseteq TurnsOf(m) \cup {n}
  BY <1>1, <1>3, Joined
<1>. QED  BY <1>4 DEF two

\* A message whose text changes stays of its turn.
LEMMA Rewritten ==
    ASSUME NEW m \in Seq(Messages), NEW i \in DOMAIN m, NEW texts \in SUBSET Int
    PROVE  /\ [m EXCEPT ![i].by = texts] \in Seq(Messages)
           /\ TurnsOf([m EXCEPT ![i].by = texts]) \subseteq TurnsOf(m)
<1>. DEFINE x == [m[i] EXCEPT !.by = texts]
            r == [m EXCEPT ![i] = x]
<1>1. i \in 1..Len(m) /\ m[i] \in Messages /\ DOMAIN m = 1..Len(m)
  BY LenProperties, ElementOfSeq
<1>2. x \in Messages /\ x.turn = m[i].turn
  BY <1>1 DEF Messages
<1>3. r = [m EXCEPT ![i].by = texts]
  OBVIOUS
<1>. HIDE DEF x
<1>4. r \in Seq(Messages) /\ Len(r) = Len(m) /\ \A j \in 1..Len(m) : r[j] = IF j = i THEN x ELSE m[j]
  BY <1>1, <1>2, ExceptSeq
<1>5. DOMAIN r = DOMAIN m
  OBVIOUS
<1>. HIDE DEF r
<1>6. \A j \in DOMAIN r : r[j].turn = m[j].turn
  BY <1>1, <1>2, <1>4, <1>5
<1>. QED  BY <1>3, <1>4, <1>5, <1>6 DEF TurnsOf

LEMMA WithMessages ==
    ASSUME NEW s \in Sessions, NEW m \in Seq(Messages)
    PROVE  /\ [s EXCEPT !.messages = m] \in Sessions
           /\ [s EXCEPT !.messages = m].thread = s.thread
           /\ [s EXCEPT !.messages = m].revision = s.revision
           /\ [s EXCEPT !.messages = m].messages = m
BY DEF Sessions

LEMMA WithRow ==
    ASSUME NEW s \in Sessions, NEW t \in ThreadIds \cup {NoThread}, NEW n \in Nat
    PROVE  /\ InRow(s, t, n) \in Sessions /\ InRow(s, t, n).messages = s.messages
           /\ InRow(s, t, n).thread = t /\ InRow(s, t, n).revision = n
<1>. DEFINE q == [s EXCEPT !.thread = t]
<1>1. q \in Sessions /\ q.thread = t /\ q.messages = s.messages
  BY DEF Sessions
<1>2. InRow(s, t, n) = [q EXCEPT !.revision = n]
  BY DEF InRow
<1>. HIDE DEF q
<1>3. /\ [q EXCEPT !.revision = n] \in Sessions
      /\ [q EXCEPT !.revision = n].thread = t
      /\ [q EXCEPT !.revision = n].revision = n
      /\ [q EXCEPT !.revision = n].messages = s.messages
  BY <1>1 DEF Sessions
<1>. QED  BY <1>2, <1>3

LEMMA FreshSession ==
    ASSUME NEW n \in Nat
    PROVE  /\ Fresh(n) \in Sessions /\ Fresh(n).thread = NoThread
           /\ Fresh(n).messages = <<>> /\ TurnsOf(Fresh(n).messages) = {}
<1>1. <<>> \in Seq(Messages) /\ TurnsOf(<<>>) = {}
  BY EmptySeq DEF TurnsOf
<1>. QED  BY <1>1 DEF Fresh, Sessions

LEMMA NotNothing ==
    ASSUME NEW s \in Sessions, NEW n \in Nat
    PROVE  [session |-> s, save |-> n] # NoSave
BY DEF NoSave

LEMMA Waiting ==
    ASSUME Types, Deferred
    PROVE  /\ deferred_store_save \in [session : Sessions, save : Nat]
           /\ deferred_store_save.session \in Sessions /\ deferred_store_save.save \in Nat
BY DEF Types, TermTypes, Saves, Deferred

LEMMA Smallest ==
    ASSUME NEW T \in SUBSET Nat, T # {}
    PROVE  \E n \in T : \A m \in T : n <= m
<1>. DEFINE R == {ss \in Nat \X Nat : ss[1] < ss[2]}
<1>1. IsWellFoundedOn(R, Nat)
  BY NatLessThanWellFounded, Zenon DEF OpToRel
<1>2. PICK n \in T : \A m \in T : <<m, n>> \notin R
  <2>. HIDE DEF R
  <2>. QED  BY <1>1, WFMin
<1>3. \A m \in T : ~(m < n)
  BY <1>2
<1>. QED  BY <1>3

LEMMA Largest ==
    ASSUME NEW k \in Nat, NEW T \in SUBSET (1..k), T # {}
    PROVE  Max(T) \in T
<1>. DEFINE U == {k - t : t \in T}
<1>1. \A t \in T : t \in Nat /\ k - t \in Nat
  OBVIOUS
<1>2. U \in SUBSET Nat /\ U # {}
  BY <1>1
<1>3. PICK n \in U : \A m \in U : n <= m
  BY <1>2, Smallest
<1>4. PICK x \in T : n = k - x
  OBVIOUS
<1>5. \A y \in T : k - x <= k - y
  BY <1>3, <1>4
<1>6. \A y \in T : x >= y
  BY <1>1, <1>5
<1>. QED  BY <1>6 DEF Max

LEMMA NewIds ==
    ASSUME Types, FreeIds # {}
    PROVE  NewId \in ThreadIds /\ threads[NewId] = Absent
<1>1. FreeIds \in SUBSET Nat
  BY DEF FreeIds, ThreadIds
<1>2. \E t \in FreeIds : \A u \in FreeIds : t <= u
  BY <1>1, Smallest
<1>3. NewId \in FreeIds
  BY <1>2 DEF NewId
<1>. QED  BY <1>3 DEF FreeIds, Types, LibTypes

LEMMA RowTypes ==
    ASSUME Types
    PROVE  threads \in [ThreadIds -> Rows] /\ 0 \notin ThreadIds /\ NoThread = 0
BY StoreAssumption DEF Types, LibTypes, ThreadIds, NoThread

\* What save_session makes of a session.
LEMMA Saved ==
    ASSUME Types, NEW s \in Sessions, CanSave(s)
    PROVE  LET r == Stored(s) IN
           /\ r \in Sessions /\ r.thread \in ThreadIds /\ r.messages = s.messages
           /\ r.revision = threads[r.thread].revision + 1
           /\ IF s.thread = NoThread THEN threads[r.thread] = Absent
              ELSE r.thread = s.thread /\ Current(threads, s)
           /\ SaveSession(s) \in [ThreadIds -> Rows]
           /\ SaveSession(s)[r.thread].revision = r.revision
           /\ SaveSession(s)[r.thread].messages = s.messages
           /\ \A t \in ThreadIds \ {r.thread} : SaveSession(s)[t] = threads[t]
<1>. DEFINE r == Stored(s)
<1>0. threads \in [ThreadIds -> Rows] /\ 0 \notin ThreadIds /\ NoThread = 0
  BY RowTypes
<1>3. /\ r \in Sessions /\ r.thread \in ThreadIds /\ r.messages = s.messages
      /\ r.revision = threads[r.thread].revision + 1
      /\ IF s.thread = NoThread THEN threads[r.thread] = Absent
         ELSE r.thread = s.thread /\ Current(threads, s)
  <2>1. CASE s.thread = NoThread
    <3>1. NewId \in ThreadIds /\ threads[NewId] = Absent
      BY <2>1, NewIds DEF CanSave
    <3>2. r \in Sessions /\ r.thread = NewId /\ r.revision = 1 /\ r.messages = s.messages
      BY <2>1, <3>1, WithRow DEF Stored
    <3>. QED  BY <2>1, <3>1, <3>2 DEF Absent
  <2>2. CASE s.thread # NoThread
    <3>1. s.thread \in ThreadIds /\ s.revision = threads[s.thread].revision
      BY <2>2 DEF CanSave, Sessions
    <3>2. threads[s.thread].revision + 1 \in Nat
      BY <1>0, <3>1 DEF Rows
    <3>3. /\ r \in Sessions /\ r.thread = s.thread /\ r.messages = s.messages
          /\ r.revision = threads[s.thread].revision + 1
      BY <2>2, <3>1, <3>2, WithRow DEF Stored
    <3>. QED  BY <2>2, <3>1, <3>3 DEF Current
  <2>. QED  BY <2>1, <2>2
<1>4. PICK n \in Nat : SaveSession(s) = [threads EXCEPT ![r.thread] =
        [revision |-> r.revision, deleted |-> FALSE, conv |-> n, messages |-> s.messages]]
  <2>1. s.conv \in Nat /\ threads[r.thread].conv \in Nat
    BY <1>0, <1>3 DEF Sessions, Rows
  <2>2. CASE s.thread = NoThread
    BY <2>1, <2>2 DEF SaveSession
  <2>3. CASE s.thread # NoThread
    BY <2>1, <2>3 DEF SaveSession
  <2>. QED  BY <2>2, <2>3
<1>. HIDE DEF r
<1>5. s.messages \in Seq(Messages) /\ r.revision \in Nat
  BY <1>3 DEF Sessions
<1>6. [revision |-> r.revision, deleted |-> FALSE, conv |-> n, messages |-> s.messages] \in Rows
  BY <1>5 DEF Rows
<1>7. SaveSession(s) \in [ThreadIds -> Rows]
  BY <1>0, <1>3, <1>4, <1>6
<1>8. /\ SaveSession(s)[r.thread].revision = r.revision
      /\ SaveSession(s)[r.thread].messages = s.messages
      /\ \A t \in ThreadIds \ {r.thread} : SaveSession(s)[t] = threads[t]
  BY <1>0, <1>3, <1>4
<1>9. /\ r \in Sessions /\ r.thread \in ThreadIds /\ r.messages = s.messages
      /\ r.revision = threads[r.thread].revision + 1
      /\ (IF s.thread = NoThread THEN threads[r.thread] = Absent
          ELSE r.thread = s.thread /\ Current(threads, s))
      /\ SaveSession(s) \in [ThreadIds -> Rows]
      /\ SaveSession(s)[r.thread].revision = r.revision
      /\ SaveSession(s)[r.thread].messages = s.messages
      /\ \A t \in ThreadIds \ {r.thread} : SaveSession(s)[t] = threads[t]
  BY <1>3, <1>7, <1>8
<1>. QED  BY <1>9 DEF r

-----------------------------------------------------------------------------
(* What holders know stays true *)

\* A thread changes its messages only with its revision.
Grown(old, new) ==
    \A t \in ThreadIds :
        \/ new[t].revision > old[t].revision
        \/ new[t].revision = old[t].revision /\ new[t].messages = old[t].messages

LEMMA Unchanged ==
    ASSUME NEW old \in [ThreadIds -> Rows]
    PROVE  Grown(old, old)
BY DEF Grown

LEMMA HeldKept ==
    ASSUME NEW old \in [ThreadIds -> Rows], NEW new \in [ThreadIds -> Rows], Grown(old, new),
           NEW s \in Sessions, Held(old, s)
    PROVE  Held(new, s) /\ (Current(new, s) => Current(old, s) /\
                              (s.thread # NoThread => new[s.thread].messages = old[s.thread].messages))
<1>1. CASE s.thread = NoThread
  BY <1>1 DEF Held, Current
<1>2. CASE s.thread # NoThread
  <2>. DEFINE t == s.thread
  <2>1. t \in ThreadIds /\ s.revision \in Nat
    BY <1>2 DEF Sessions
  <2>2. old[t].revision \in Nat /\ new[t].revision \in Nat
    BY <2>1 DEF Rows
  <2>3. s.revision \in 1..old[t].revision
    BY <1>2 DEF Held
  <2>4. \/ new[t].revision > old[t].revision
        \/ new[t].revision = old[t].revision /\ new[t].messages = old[t].messages
    BY <2>1 DEF Grown
  <2>. HIDE DEF t
  <2>5. s.revision \in 1..new[t].revision
    BY <2>1, <2>2, <2>3, <2>4
  <2>6. s.revision = new[t].revision
          => s.revision = old[t].revision /\ new[t].messages = old[t].messages
    BY <2>1, <2>2, <2>3, <2>4
  <2>. QED  BY <1>2, <2>5, <2>6 DEF Held, Current, t
<1>. QED  BY <1>1, <1>2

LEMMA KnowingKept ==
    ASSUME NEW old \in [ThreadIds -> Rows], NEW new \in [ThreadIds -> Rows], Grown(old, new),
           NEW A, NEW B, A \subseteq B, NEW s \in Sessions
    PROVE  /\ Known(old, A, s) => Known(new, B, s)
           /\ Shown(old, A, s) => Shown(new, B, s)
           /\ Loaded(old, s) => Loaded(new, s)
<1>1. ASSUME Held(old, s)
      PROVE  /\ Held(new, s)
             /\ Current(new, s) => Current(old, s) /\ new[s.thread].messages = old[s.thread].messages
  BY <1>1, HeldKept DEF Current
<1>2. Known(old, A, s) => Known(new, B, s)
  BY <1>1 DEF Known
<1>3. Loaded(old, s) => Loaded(new, s)
  BY <1>1 DEF Loaded
<1>. QED  BY <1>2, <1>3 DEF Shown

-----------------------------------------------------------------------------
(* The queue *)

LEMMA Queued ==
    ASSUME NEW q \in Seq(Events), NEW e \in Events
    PROVE  LET r == Append(q, e) IN
           /\ r \in Seq(Events)
           /\ DOMAIN r = DOMAIN q \cup {Len(q) + 1} /\ Len(q) + 1 \notin DOMAIN q
           /\ r[Len(q) + 1] = e /\ \A i \in DOMAIN q : r[i] = q[i]
<1>. DEFINE r == Append(q, e)
<1>1. /\ r \in Seq(Events) /\ Len(r) = Len(q) + 1 /\ r[Len(q) + 1] = e
      /\ \A i \in 1..Len(q) : r[i] = q[i]
  BY AppendProperties
<1>2. DOMAIN q = 1..Len(q) /\ Len(q) \in Nat /\ DOMAIN r = 1..Len(r)
  BY <1>1, LenProperties
<1>. HIDE DEF r
<1>3. /\ r \in Seq(Events)
      /\ DOMAIN r = DOMAIN q \cup {Len(q) + 1} /\ Len(q) + 1 \notin DOMAIN q
      /\ r[Len(q) + 1] = e /\ \A i \in DOMAIN q : r[i] = q[i]
  BY <1>1, <1>2
<1>. QED  BY <1>3 DEF r

LEMMA Taken ==
    ASSUME NEW q \in Seq(Events), q # <<>>
    PROVE  /\ Tail(q) \in Seq(Events)
           /\ 1 \in DOMAIN q /\ Head(q) = q[1] /\ Head(q) \in Events
           /\ \A i \in DOMAIN Tail(q) : i + 1 \in DOMAIN q /\ Tail(q)[i] = q[i + 1] /\ i >= 1
           /\ \A i \in DOMAIN q : i # 1 => i - 1 \in DOMAIN Tail(q) /\ i - 1 + 1 = i
<1>. DEFINE r == Tail(q)
<1>1. /\ Head(q) \in Events /\ r \in Seq(Events) /\ Len(r) = Len(q) - 1
      /\ \A i \in 1..Len(r) : r[i] = q[i + 1]
  BY HeadTailProperties
<1>2. /\ DOMAIN q = 1..Len(q) /\ Len(q) \in Nat /\ Len(q) # 0
      /\ DOMAIN r = 1..Len(r)
  BY <1>1, LenProperties, EmptySeq
<1>3. Head(q) = q[1]
  OBVIOUS
<1>. HIDE DEF r
<1>4. /\ \A i \in DOMAIN r : i + 1 \in DOMAIN q /\ r[i] = q[i + 1] /\ i >= 1
      /\ \A i \in DOMAIN q : i # 1 => i - 1 \in DOMAIN r /\ i - 1 + 1 = i
      /\ 1 \in DOMAIN q
  BY <1>1, <1>2
<1>. QED  BY <1>1, <1>3, <1>4 DEF r

LEMMA EventTypes ==
    ASSUME NEW e \in Events
    PROVE  /\ e.type \in {"delta"} \cup Ending \cup Reporting
           /\ e.type \in {"delta"} \cup Ending => e.turn \in Nat
           /\ e.type \in Reporting => e.ok \in BOOLEAN /\ (e.ok => e.session \in Sessions)
BY DEF Events, Ending, Reporting

LEMMA Told ==
    /\ \A type \in {"delta"} \cup Ending, n \in Nat : [type |-> type, turn |-> n] \in Events
    /\ \A type \in Reporting : [type |-> type, ok |-> FALSE] \in Events
    /\ \A type \in Reporting, s \in Sessions : [type |-> type, ok |-> TRUE, session |-> s] \in Events
BY DEF Events

-----------------------------------------------------------------------------
(* The file job *)

LEMMA JobFields ==
    ASSUME NEW j \in FileJobs, Joinable(j)
    PROVE  /\ j.kind \in {"save", "load"} /\ j.token \in BOOLEAN /\ j.pushed \in BOOLEAN
           /\ j.session \in Sessions
           /\ j.kind = "save" => j.save \in Nat
           /\ j.kind = "load" => j.thread \in ThreadIds
BY DEF FileJobs, Joinable

LEMMA JobCancelled ==
    ASSUME NEW j \in FileJobs, Joinable(j)
    PROVE  LET k == [j EXCEPT !.token = TRUE] IN
           /\ k \in FileJobs /\ k.kind = j.kind /\ k.pushed = j.pushed /\ k.session = j.session
           /\ k.kind = "save" => k.save = j.save
<1>1. CASE j.kind = "save"
  BY <1>1 DEF FileJobs
<1>2. CASE j.kind = "load"
  BY <1>2 DEF FileJobs
<1>. QED  BY <1>1, <1>2, JobFields

LEMMA JobPushed ==
    ASSUME NEW j \in FileJobs, Joinable(j)
    PROVE  LET k == [j EXCEPT !.pushed = TRUE] IN
           /\ k \in FileJobs /\ k.kind = j.kind /\ k.pushed /\ k.session = j.session
<1>1. CASE j.kind = "save"
  BY <1>1 DEF FileJobs
<1>2. CASE j.kind = "load"
  BY <1>2 DEF FileJobs
<1>. QED  BY <1>1, <1>2, JobFields

LEMMA JobReads ==
    ASSUME NEW j \in FileJobs, j.kind = "load", NEW s \in Sessions
    PROVE  LET k == [j EXCEPT !.session = s] IN
           k \in FileJobs /\ k.kind = "load" /\ k.pushed = j.pushed /\ k.session = s
BY DEF FileJobs

LEMMA NewSave ==
    ASSUME NEW s \in Sessions, NEW n \in Nat
    PROVE  LET j == SaveJob(s, n) IN
           /\ j \in FileJobs /\ Joinable(j) /\ j.kind = "save" /\ ~j.pushed
           /\ j.session = s /\ j.save = n
BY DEF SaveJob, FileJobs, Joinable

LEMMA NoFileJob == NoFile \in FileJobs /\ NoFile.kind = "none" /\ ~Joinable(NoFile)
BY DEF NoFile, FileJobs, Joinable

\* An autosave that is asked for is under way, or waits for the file job.
LEMMA SaveAsked ==
    ASSUME Types, NEW s \in Sessions, StoreSave(s, file_job, deferred_store_save)
    PROVE  /\ file_job' \in FileJobs /\ deferred_store_save' \in Saves /\ asked' \in Nat
           /\ SaveInv /\ UNCHANGED <<stored, failed>> => SaveInv'
           /\ Joinable(file_job) => file_job' = file_job
           /\ \A rows, shown :
                /\ Shown(rows, shown, s) /\ JobKnows(rows, shown, file_job)
                /\ Deferred => Shown(rows, shown, deferred_store_save.session)
                => /\ JobKnows(rows, shown, file_job')
                   /\ Deferred' => Shown(rows, shown, deferred_store_save'.session)
<1>1. asked \in Nat /\ file_job \in FileJobs /\ deferred_store_save \in Saves
  BY DEF Types, TermTypes
<1>2. CASE s.read_only
  <2>1. UNCHANGED <<file_job, deferred_store_save, asked>>
    BY <1>2 DEF StoreSave
  <2>. QED  BY <1>1, <2>1 DEF SaveInv, Deferred
<1>3. CASE ~s.read_only /\ Joinable(file_job)
  <2>1. /\ asked' = asked + 1 /\ file_job' = file_job
        /\ deferred_store_save' = [session |-> s, save |-> asked + 1]
    BY <1>3 DEF StoreSave
  <2>2. Deferred' /\ deferred_store_save' \in Saves
    BY <1>1, <2>1, NotNothing DEF Deferred, Saves
  <2>3. SaveInv /\ UNCHANGED <<stored, failed>> => SaveInv'
    BY <1>3, <2>1, <2>2 DEF SaveInv
  <2>. QED  BY <1>1, <2>1, <2>2, <2>3
<1>4. CASE ~s.read_only /\ ~Joinable(file_job)
  <2>1. /\ asked' = asked + 1 /\ file_job' = SaveJob(s, asked + 1)
        /\ deferred_store_save' = NoSave
    BY <1>4 DEF StoreSave
  <2>2. ~Deferred' /\ deferred_store_save' \in Saves
    BY <2>1 DEF Deferred, Saves
  <2>3. /\ file_job' \in FileJobs /\ Joinable(file_job') /\ file_job'.kind = "save"
        /\ ~file_job'.pushed /\ file_job'.session = s /\ file_job'.save = asked'
    BY <1>1, <2>1, NewSave
  <2>4. SaveInv /\ UNCHANGED <<stored, failed>> => SaveInv'
    BY <1>4, <2>2, <2>3 DEF SaveInv
  <2>. QED  BY <1>1, <1>4, <2>1, <2>2, <2>3, <2>4 DEF JobKnows
<1>. QED  BY <1>2, <1>3, <1>4

LEMMA Resumed ==
    ASSUME NEW later \in Saves, Resume(later)
    PROVE  /\ file_job' \in FileJobs /\ deferred_store_save' \in Saves /\ ~Deferred'
           /\ later = NoSave => ~Joinable(file_job)'
           /\ later # NoSave => /\ file_job'.kind = "save" /\ ~file_job'.pushed
                                /\ file_job'.save = later.save
           /\ \A rows, shown : (later # NoSave => Shown(rows, shown, later.session))
                               => JobKnows(rows, shown, file_job')
<1>1. CASE later = NoSave
  <2>1. file_job' = NoFile /\ deferred_store_save' = NoSave
    BY <1>1 DEF Resume
  <2>. QED  BY <1>1, <2>1, NoFileJob DEF JobKnows, Deferred, Saves
<1>2. CASE later # NoSave
  <2>1. later.session \in Sessions /\ later.save \in Nat
    BY <1>2 DEF Saves
  <2>2. file_job' = SaveJob(later.session, later.save) /\ deferred_store_save' = NoSave
    BY <1>2 DEF Resume
  <2>3. /\ file_job' \in FileJobs /\ file_job'.kind = "save" /\ ~file_job'.pushed
        /\ file_job'.session = later.session /\ file_job'.save = later.save
    BY <2>1, <2>2, NewSave
  <2>. QED  BY <1>2, <2>2, <2>3 DEF JobKnows, Deferred, Saves
<1>. QED  BY <1>1, <1>2

LEMMA Adopted ==
    ASSUME NEW s \in Sessions, NEW saved \in Sessions
    PROVE  /\ AfterSave(s, saved) \in Sessions
           /\ AfterSave(s, saved).messages = s.messages
           /\ \A rows, shown : Shown(rows, shown, s) /\ Known(rows, shown, saved)
                               => Shown(rows, shown, AfterSave(s, saved))
<1>1. CASE Adopts(s, saved)
  <2>1. AfterSave(s, saved) = InRow(s, saved.thread, saved.revision)
    BY <1>1 DEF AfterSave
  <2>2. saved.thread \in ThreadIds \cup {NoThread} /\ saved.revision \in Nat
    BY DEF Sessions
  <2>3. LET a == AfterSave(s, saved) IN
        /\ a \in Sessions /\ a.messages = s.messages
        /\ a.thread = saved.thread /\ a.revision = saved.revision
    BY <2>1, <2>2, WithRow
  <2>. QED  BY <2>3 DEF Shown, Known, Held, Current
<1>2. CASE ~Adopts(s, saved)
  BY <1>2 DEF AfterSave
<1>. QED  BY <1>1, <1>2

LEMMA PatchedSave ==
    ASSUME NEW later \in Saves, NEW s \in Sessions, NEW saved \in Sessions
    PROVE  LET p == Patched(later, s, saved) IN
           /\ p \in Saves /\ (p = NoSave <=> later = NoSave)
           /\ p # NoSave => p.save = later.save
           /\ \A rows, shown :
                /\ Known(rows, shown, saved)
                /\ later # NoSave => Shown(rows, shown, later.session)
                => (p # NoSave => Shown(rows, shown, p.session))
<1>1. CASE later = NoSave \/ ~Adopts(s, saved) \/ ~Adopts(later.session, saved)
  BY <1>1 DEF Patched
<1>2. CASE ~(later = NoSave \/ ~Adopts(s, saved) \/ ~Adopts(later.session, saved))
  <2>. DEFINE p == Patched(later, s, saved)
              r == InRow(later.session, saved.thread, saved.revision)
  <2>1. later.session \in Sessions /\ later.save \in Nat /\ later \in [session : Sessions, save : Nat]
    BY <1>2 DEF Saves
  <2>2. r = AfterSave(later.session, saved)
    BY <1>2 DEF AfterSave
  <2>3. r \in Sessions
    BY <2>1, <2>2, Adopted
  <2>4. p = [later EXCEPT !.session = r]
    BY <1>2 DEF Patched
  <2>. HIDE DEF p, r
  <2>5. p = [session |-> r, save |-> later.save]
    BY <2>1, <2>4
  <2>6. p \in Saves /\ p # NoSave /\ p.save = later.save /\ p.session = r
    BY <2>1, <2>3, <2>5, NotNothing DEF Saves
  <2>7. ASSUME NEW rows, NEW shown, Known(rows, shown, saved),
               later # NoSave => Shown(rows, shown, later.session)
        PROVE  Shown(rows, shown, p.session)
    BY <1>2, <2>1, <2>2, <2>6, <2>7, Adopted
  <2>. QED  BY <1>2, <2>6, <2>7 DEF p
<1>. QED  BY <1>1, <1>2

LEMMA TurnBegins ==
    ASSUME Types, NEW m \in Seq(Messages), TurnsOf(m) \subseteq TurnsOf(session.messages),
           StartTurn(m)
    PROVE  /\ session' \in Sessions /\ session'.thread = session.thread
           /\ session'.revision = session.revision
           /\ TurnsOf(session'.messages) \subseteq TurnsOf(session.messages) \cup seen'
           /\ pending' \in [user : Nat, assistant : Nat, added : BOOLEAN]
           /\ model_job' \in [turn : Nat, running : BOOLEAN, token : BOOLEAN, said : BOOLEAN]
           /\ model_job'.running /\ active_job' = TRUE
           /\ next_turn' \in Nat /\ seen' \subseteq Int /\ seen \subseteq seen'
<1>1. session \in Sessions /\ next_turn \in Nat /\ seen \subseteq Int /\ Len(m) \in Nat
  BY LenProperties DEF Types, TermTypes
<1>. DEFINE n == m \o <<Prompt(next_turn), Answer(next_turn)>>
<1>2. n \in Seq(Messages) /\ TurnsOf(n) \subseteq TurnsOf(m) \cup {next_turn}
  BY <1>1, Begun
<1>3. session' = [session EXCEPT !.messages = n]
  BY DEF StartTurn
<1>. HIDE DEF n
<1>4. /\ session' \in Sessions /\ session'.thread = session.thread
      /\ session'.revision = session.revision /\ session'.messages = n
  BY <1>1, <1>2, <1>3, WithMessages
<1>5. seen' = seen \cup {next_turn} /\ next_turn' = next_turn + 1
  BY DEF StartTurn
<1>6. /\ pending' \in [user : Nat, assistant : Nat, added : BOOLEAN]
      /\ model_job' \in [turn : Nat, running : BOOLEAN, token : BOOLEAN, said : BOOLEAN]
      /\ model_job'.running /\ active_job' = TRUE
  BY <1>1 DEF StartTurn
<1>. QED  BY <1>1, <1>2, <1>4, <1>5, <1>6

-----------------------------------------------------------------------------
(* What leaves a part of the invariant alone *)

LEMMA LibrarySame ==
    ASSUME LibTypes, WebInv, UNCHANGED threads, UNCHANGED webVars
    PROVE  LibTypes' /\ WebInv'
BY DEF LibTypes, WebInv, webVars

LEMMA SavesSame ==
    ASSUME SaveInv, UNCHANGED <<file_job, deferred_store_save>>, UNCHANGED saveVars
    PROVE  SaveInv'
BY DEF SaveInv, Deferred, saveVars

LEMMA TurnSame ==
    ASSUME TurnInv, UNCHANGED <<ui, active_job, model_job, events>>
    PROVE  TurnInv'
BY DEF TurnInv, TurnHasItsEnd, Ends

LEMMA ReportsSame ==
    ASSUME ReportInv, UNCHANGED events, Joinable(file_job) => file_job' = file_job
    PROVE  ReportInv'
BY DEF ReportInv, Reports

\* An event goes to the end of the queue ...
LEMMA EventQueued ==
    ASSUME TermTypes, NEW e \in Events, events' = Append(events, e)
    PROVE  /\ events' \in Seq(Events)
           /\ e.type \in Ending => Ends' = Ends \cup {Len(events) + 1}
           /\ e.type \notin Ending => Ends' = Ends
           /\ e.type \in Reporting => Reports' = Reports \cup {Len(events) + 1}
           /\ e.type \notin Reporting => Reports' = Reports
           /\ events'[Len(events) + 1] = e /\ \A i \in DOMAIN events : events'[i] = events[i]
           /\ DOMAIN events' = DOMAIN events \cup {Len(events) + 1}
<1>1. /\ events' \in Seq(Events)
      /\ DOMAIN events' = DOMAIN events \cup {Len(events) + 1}
      /\ events'[Len(events) + 1] = e /\ \A i \in DOMAIN events : events'[i] = events[i]
  BY Queued DEF TermTypes
<1>. QED  BY <1>1 DEF Ends, Reports, Ending

\* ... and is taken from its head.
LEMMA EventTaken ==
    ASSUME TermTypes, events # <<>>, Handled
    PROVE  /\ events' \in Seq(Events) /\ Head(events) = events[1] /\ Head(events) \in Events
           /\ 1 \in DOMAIN events
           /\ 1 \in Ends <=> Head(events).type \in Ending
           /\ 1 \in Reports <=> Head(events).type \in Reporting
           /\ \A i \in DOMAIN events' : /\ i + 1 \in DOMAIN events /\ i + 1 # 1
                                        /\ events'[i] = events[i + 1]
           /\ \A i \in DOMAIN events : i # 1 => i - 1 \in DOMAIN events' /\ i - 1 + 1 = i
<1>1. /\ events' \in Seq(Events) /\ Head(events) = events[1] /\ Head(events) \in Events
      /\ 1 \in DOMAIN events
      /\ \A i \in DOMAIN events' : i + 1 \in DOMAIN events /\ events'[i] = events[i + 1] /\ i >= 1
      /\ \A i \in DOMAIN events : i # 1 => i - 1 \in DOMAIN events' /\ i - 1 + 1 = i
  BY Taken DEF TermTypes, Handled
<1>2. DOMAIN events' \subseteq Nat
  BY <1>1, LenProperties
<1>3. \A i \in DOMAIN events' : i + 1 # 1
  BY <1>1, <1>2
<1>. QED  BY <1>1, <1>3 DEF Ends, Reports, Ending

LEMMA ReportsTaken ==
    ASSUME TermTypes, ReportInv, events # <<>>, Handled
    PROVE  /\ Head(events).type \in Reporting =>
                  Reports' = {} /\ Joinable(file_job) /\ file_job.pushed
           /\ (Joinable(file_job) => file_job' = file_job) => ReportInv'
<1>1. \A i \in Reports' : i + 1 \in Reports /\ i + 1 # 1 /\ i \in Nat
  <2>1. DOMAIN events' \subseteq Nat
    BY EventTaken, LenProperties
  <2>. QED  BY <2>1, EventTaken DEF Reports
<1>2. \A i, j \in Reports' : i = j
  BY <1>1 DEF ReportInv
<1>3. ASSUME Head(events).type \in Reporting
      PROVE  Reports' = {} /\ Joinable(file_job) /\ file_job.pushed
  <2>1. 1 \in Reports
    BY <1>3, EventTaken
  <2>. QED  BY <1>1, <2>1 DEF ReportInv
<1>. QED  BY <1>1, <1>2, <1>3 DEF ReportInv

LEMMA TurnTaken ==
    ASSUME TermTypes, TurnInv, events # <<>>, Handled, Open
    PROVE  /\ Head(events).type \in Ending =>
                  Ends' = {} /\ active_job /\ ~model_job.running /\ Head(events).turn = model_job.turn
           /\ Head(events).type \notin Ending /\ UNCHANGED <<ui, active_job, model_job>> => TurnInv'
<1>1. ui = "open"
  BY DEF Open
<1>2. \A i \in Ends' : i + 1 \in Ends /\ i + 1 # 1 /\ i \in Nat /\ events'[i] = events[i + 1]
  <2>1. DOMAIN events' \subseteq Nat
    BY EventTaken, LenProperties
  <2>. QED  BY <2>1, EventTaken DEF Ends
<1>3. \A i \in Ends : i # 1 => i - 1 \in Ends' /\ events'[i - 1] = events[i]
  BY EventTaken DEF Ends
<1>4. ASSUME Head(events).type \in Ending
      PROVE  /\ Ends' = {} /\ active_job /\ ~model_job.running
             /\ Head(events).turn = model_job.turn
  <2>1. 1 \in Ends /\ Head(events) = events[1]
    BY <1>4, EventTaken
  <2>2. active_job /\ ~model_job.running
        /\ \E i \in Ends : Ends = {i} /\ events[i].turn = model_job.turn
    BY <1>1, <2>1 DEF TurnInv, TurnHasItsEnd
  <2>3. Ends = {1} /\ events[1].turn = model_job.turn
    BY <2>1, <2>2
  <2>. QED  BY <1>2, <2>1, <2>2, <2>3
<1>5. ASSUME Head(events).type \notin Ending, UNCHANGED <<ui, active_job, model_job>>
      PROVE  TurnInv'
  <2>1. 1 \notin Ends
    BY <1>5, EventTaken
  <2>2. Ends = {} => Ends' = {}
    BY <1>2
  <2>3. ASSUME NEW i \in Ends, Ends = {i}, events[i].turn = model_job.turn
        PROVE  i - 1 \in Ends' /\ Ends' = {i - 1} /\ events'[i - 1].turn = model_job.turn
    <3>1. i # 1 /\ i \in DOMAIN events
      BY <2>1, <2>3 DEF Ends
    <3>2. i - 1 \in Ends' /\ events'[i - 1] = events[i]
      BY <1>3, <3>1
    <3>3. \A j \in Ends' : j = i - 1
      BY <1>2, <2>3
    <3>. QED  BY <2>3, <3>2, <3>3
  <2>4. CASE active_job /\ model_job.running
    BY <1>1, <1>5, <2>2, <2>4 DEF TurnInv, TurnHasItsEnd
  <2>5. CASE active_job /\ ~model_job.running
    <3>1. PICK i \in Ends : Ends = {i} /\ events[i].turn = model_job.turn
      BY <1>1, <2>5 DEF TurnInv, TurnHasItsEnd
    <3>2. i - 1 \in Ends' /\ Ends' = {i - 1} /\ events'[i - 1].turn = model_job.turn
      BY <2>3, <3>1
    <3>. QED  BY <1>1, <1>5, <2>5, <3>2 DEF TurnInv, TurnHasItsEnd
  <2>6. CASE ~active_job
    BY <1>1, <1>5, <2>2, <2>6 DEF TurnInv, TurnHasItsEnd
  <2>. QED  BY <2>4, <2>5, <2>6
<1>. QED  BY <1>4, <1>5

\* Whatever a holder knew it knows in the next state.
LEMMA SeenKept ==
    ASSUME Types, SeenInv, threads' \in [ThreadIds -> Rows], Grown(threads, threads'),
           seen \subseteq seen'
    PROVE  /\ Shown(threads', seen', session)
           /\ Deferred => Shown(threads', seen', deferred_store_save.session)
           /\ JobKnows(threads', seen', file_job)
           /\ \A i \in DOMAIN events : Reported(threads', seen', events[i])
<1>1. threads \in [ThreadIds -> Rows] /\ session \in Sessions
  BY DEF Types, LibTypes, TermTypes
<1>2. Shown(threads', seen', session)
  BY <1>1, KnowingKept DEF SeenInv
<1>3. Deferred => Shown(threads', seen', deferred_store_save.session)
  BY <1>1, Waiting, KnowingKept DEF SeenInv
<1>4. JobKnows(threads', seen', file_job)
  <2>1. CASE Joinable(file_job)
    <3>1. file_job.session \in Sessions
      BY <2>1, JobFields DEF Types, TermTypes
    <3>. QED  BY <1>1, <3>1, KnowingKept, HeldKept DEF SeenInv, JobKnows
  <2>2. CASE ~Joinable(file_job)
    BY <2>2 DEF JobKnows, Joinable
  <2>. QED  BY <2>1, <2>2
<1>5. ASSUME NEW i \in DOMAIN events
      PROVE  Reported(threads', seen', events[i])
  <2>1. events[i] \in Events
    BY <1>5, ElementOfSeq, LenProperties DEF Types, TermTypes
  <2>2. Reported(threads, seen, events[i])
    BY <1>5 DEF SeenInv
  <2>. QED  BY <1>1, <2>1, <2>2, EventTypes, KnowingKept DEF Reported, Reporting
<1>. QED  BY <1>2, <1>3, <1>4, <1>5

LEMMA SeenSame ==
    ASSUME Types, SeenInv, UNCHANGED threads, seen \subseteq seen'
    PROVE  /\ Shown(threads', seen', session)
           /\ Deferred => Shown(threads', seen', deferred_store_save.session)
           /\ JobKnows(threads', seen', file_job)
           /\ \A i \in DOMAIN events : Reported(threads', seen', events[i])
<1>1. threads' \in [ThreadIds -> Rows] /\ Grown(threads, threads')
  BY Unchanged DEF Types, LibTypes
<1>. QED  BY <1>1, SeenKept

-----------------------------------------------------------------------------
(* The keys *)

\* A turn that begins, of any of the three keys that begin one.
LEMMA TurnStarts ==
    ASSUME IInv, NEW m \in Seq(Messages), TurnsOf(m) \subseteq TurnsOf(session.messages),
           StartTurn(m), Ends' = {}, ui = "open", UNCHANGED <<ui, threads>>
    PROVE  /\ TurnInv' /\ Shown(threads', seen', session')
<1>1. /\ session' \in Sessions /\ session'.thread = session.thread
      /\ session'.revision = session.revision /\ seen \subseteq seen'
      /\ TurnsOf(session'.messages) \subseteq TurnsOf(session.messages) \cup seen'
      /\ model_job'.running /\ active_job' = TRUE
  BY TurnBegins DEF IInv
<1>2. TurnInv'
  BY <1>1 DEF TurnInv, TurnHasItsEnd
<1>3. Shown(threads', seen', session)
  BY <1>1, SeenSame DEF IInv
<1>4. Shown(threads', seen', session')
  BY <1>1, <1>3 DEF Shown, Known, Held, Current
<1>. QED  BY <1>2, <1>4

LEMMA SendStep ==
    ASSUME IInv, Send, UNCHANGED webVars
    PROVE  IInv'
<1>1. session.messages \in Seq(Messages) /\ StartTurn(session.messages)
  BY DEF Send, IInv, Types, TermTypes, Sessions
<1>2. Ends' = {} /\ ui = "open" /\ UNCHANGED <<ui, threads, events>>
  BY DEF Send, Open, IInv, TurnInv, TurnHasItsEnd, Ends
<1>3. TermTypes'
  BY <1>1, TurnBegins DEF Send, IInv, Types, TermTypes, saveVars
<1>4. SaveInv' /\ ReportInv'
  BY SavesSame, ReportsSame DEF Send, IInv
<1>5. TurnInv' /\ Shown(threads', seen', session')
  BY <1>1, <1>2, TurnStarts
<1>6. SeenInv'
  <2>1. seen \subseteq seen'
    BY <1>1, TurnBegins DEF IInv
  <2>. QED  BY <1>2, <1>5, <2>1, SeenSame DEF Send, IInv, SeenInv, Deferred
<1>7. LibTypes' /\ WebInv'
  BY <1>2, LibrarySame DEF IInv, Types
<1>. QED  BY <1>3, <1>4, <1>5, <1>6, <1>7 DEF IInv, Types

LEMMA LastOfRole ==
    ASSUME NEW m \in Seq(Messages), NEW role
    PROVE  LastOf(m, role) \in 0..Len(m)
<1>. DEFINE at == {i \in DOMAIN m : m[i].role = role}
<1>1. Len(m) \in Nat /\ at \in SUBSET (1..Len(m))
  BY LenProperties
<1>. HIDE DEF at
<1>2. at # {} => Max(at) \in at
  BY <1>1, Largest
<1>3. LastOf(m, role) = IF at = {} THEN 0 ELSE Max(at)
  BY DEF LastOf, at
<1>4. at # {} => Max(at) \in 1..Len(m)
  BY <1>1, <1>2
<1>. QED  BY <1>1, <1>3, <1>4

LEMMA RegenerateStep ==
    ASSUME IInv, Regenerate, UNCHANGED webVars
    PROVE  IInv'
<1>. DEFINE user == LastOf(session.messages, "user")
            m == SubSeq(session.messages, 1, user - 1)
<1>0. session.messages \in Seq(Messages)
  BY DEF IInv, Types, TermTypes, Sessions
<1>1. m \in Seq(Messages) /\ TurnsOf(m) \subseteq TurnsOf(session.messages) /\ StartTurn(m)
  <2>1. user \in 0..Len(session.messages) /\ Len(session.messages) \in Nat
    BY <1>0, LastOfRole, LenProperties
  <2>2. user - 1 \in Int /\ user - 1 <= Len(session.messages)
    BY <2>1
  <2>3. StartTurn(m)
    BY DEF Regenerate
  <2>. QED  BY <1>0, <2>2, <2>3, Cut
<1>. HIDE DEF m
<1>2. Ends' = {} /\ ui = "open" /\ UNCHANGED <<ui, threads, events>>
  BY DEF Regenerate, Open, IInv, TurnInv, TurnHasItsEnd, Ends
<1>3. TermTypes'
  BY <1>1, TurnBegins DEF Regenerate, IInv, Types, TermTypes, saveVars
<1>4. SaveInv' /\ ReportInv'
  BY SavesSame, ReportsSame DEF Regenerate, IInv
<1>5. TurnInv' /\ Shown(threads', seen', session')
  BY <1>1, <1>2, TurnStarts
<1>6. SeenInv'
  <2>1. seen \subseteq seen'
    BY <1>1, TurnBegins DEF IInv
  <2>. QED  BY <1>2, <1>5, <2>1, SeenSame DEF Regenerate, IInv, SeenInv, Deferred
<1>7. LibTypes' /\ WebInv'
  BY <1>2, LibrarySame DEF IInv, Types
<1>. QED  BY <1>3, <1>4, <1>5, <1>6, <1>7 DEF IInv, Types

LEMMA RespondStep ==
    ASSUME IInv, Respond, UNCHANGED webVars
    PROVE  IInv'
<1>. DEFINE m == Append(session.messages, Answer(next_turn))
<1>1. /\ session \in Sessions /\ session.messages \in Seq(Messages)
      /\ next_turn \in Nat /\ seen \subseteq Int
  BY DEF IInv, Types, TermTypes, Sessions
<1>2. m \in Seq(Messages) /\ TurnsOf(m) = TurnsOf(session.messages) \cup {next_turn}
  BY <1>1, Longer, Prompts
<1>3. session' = [session EXCEPT !.messages = m]
  BY DEF Respond
<1>. HIDE DEF m
<1>4. /\ session' \in Sessions /\ session'.thread = session.thread
      /\ session'.revision = session.revision /\ session'.messages = m
  BY <1>1, <1>2, <1>3, WithMessages
<1>5. /\ seen' = seen \cup {next_turn} /\ next_turn' = next_turn + 1
      /\ UNCHANGED <<ui, threads, events>> /\ ui = "open" /\ ~active_job
  BY DEF Respond, Open
<1>6. LastOf(session.messages, "user") \in Nat /\ Len(session.messages) + 1 \in Nat
  BY <1>1, LastOfRole, LenProperties
<1>7. /\ pending' \in [user : Nat, assistant : Nat, added : BOOLEAN]
      /\ model_job' \in [turn : Nat, running : BOOLEAN, token : BOOLEAN, said : BOOLEAN]
      /\ model_job'.running /\ active_job' = TRUE
  BY <1>1, <1>6 DEF Respond
<1>8. TermTypes'
  <2>1. /\ UNCHANGED <<regenerate_after_cancel, file_job, deferred_store_save, events, ui,
                        history_edit, next_conv, asked, stored, failed>>
    BY DEF Respond, saveVars
  <2>2. TermTypes /\ next_turn' \in Nat /\ seen' \subseteq Int /\ active_job' \in BOOLEAN
    BY <1>1, <1>5, <1>7 DEF IInv, Types
  <2>. QED  BY <1>4, <1>7, <2>1, <2>2 DEF TermTypes
<1>9. SaveInv' /\ ReportInv'
  BY SavesSame, ReportsSame DEF Respond, IInv
<1>10. TurnInv'
  BY <1>5, <1>7 DEF IInv, TurnInv, TurnHasItsEnd, Ends
<1>11. SeenInv'
  <2>1. Shown(threads', seen', session)
    BY <1>5, SeenSame DEF IInv
  <2>2. Shown(threads', seen', session')
    BY <1>2, <1>4, <1>5, <2>1 DEF Shown, Known, Held, Current
  <2>. QED  BY <1>5, <2>2, SeenSame DEF Respond, IInv, SeenInv, Deferred
<1>12. LibTypes' /\ WebInv'
  BY <1>5, LibrarySame DEF IInv, Types
<1>. QED  BY <1>8, <1>9, <1>10, <1>11, <1>12 DEF IInv, Types

\* What neither jobs nor queue nor store take part in.
LEMMA QuietStep ==
    ASSUME IInv, UNCHANGED <<webVars, threads, jobVars, saveVars, seen, ui, active_job>>,
           session' \in Sessions, Shown(threads, seen, session'),
           UNCHANGED <<pending, regenerate_after_cancel, next_turn>>,
           history_edit' \in {NoEdit} \cup [index : Nat, by : SUBSET Int], next_conv' \in Nat
    PROVE  IInv'
<1>1. UNCHANGED <<model_job, file_job, deferred_store_save, events, asked, stored, failed>>
  BY DEF jobVars, saveVars
<1>2. TermTypes'
  BY <1>1 DEF IInv, Types, TermTypes
<1>3. SaveInv' /\ ReportInv' /\ TurnInv'
  BY <1>1, SavesSame, ReportsSame, TurnSame DEF IInv
<1>4. SeenInv'
  BY <1>1, SeenSame DEF IInv, SeenInv, Deferred
<1>5. LibTypes' /\ WebInv'
  BY LibrarySame DEF IInv, Types
<1>. QED  BY <1>2, <1>3, <1>4, <1>5 DEF IInv, Types

\* What the session is saved after.
LEMMA AutosaveStep ==
    ASSUME IInv, UNCHANGED <<webVars, threads, model_job, events, stored, failed, seen, ui,
                             active_job>>,
           session' \in Sessions, Shown(threads, seen, session'),
           StoreSave(session', file_job, deferred_store_save),
           UNCHANGED <<pending, regenerate_after_cancel, next_turn>>,
           history_edit' \in {NoEdit} \cup [index : Nat, by : SUBSET Int], next_conv' \in Nat
    PROVE  IInv'
<1>1. /\ file_job' \in FileJobs /\ deferred_store_save' \in Saves /\ asked' \in Nat
      /\ SaveInv' /\ (Joinable(file_job) => file_job' = file_job)
  BY SaveAsked DEF IInv
<1>2. TermTypes'
  BY <1>1 DEF IInv, Types, TermTypes
<1>3. ReportInv' /\ TurnInv'
  BY <1>1, ReportsSame, TurnSame DEF IInv
<1>4. SeenInv'
  <2>1. /\ JobKnows(threads, seen, file_job')
        /\ Deferred' => Shown(threads, seen, deferred_store_save'.session)
    BY SaveAsked DEF IInv, SeenInv
  <2>. QED  BY <2>1, SeenSame DEF IInv, SeenInv
<1>5. LibTypes' /\ WebInv'
  BY LibrarySame DEF IInv, Types
<1>. QED  BY <1>1, <1>2, <1>3, <1>4, <1>5 DEF IInv, Types

LEMMA Session ==
    ASSUME IInv
    PROVE  /\ session \in Sessions /\ session.messages \in Seq(Messages)
           /\ Shown(threads, seen, session) /\ next_conv \in Nat
           /\ history_edit \in {NoEdit} \cup [index : Nat, by : SUBSET Int]
BY DEF IInv, Types, TermTypes, Sessions, SeenInv

\* Messages of turns that were shown may take the place of the session's.
LEMMA NewMessages ==
    ASSUME IInv, NEW m \in Seq(Messages), TurnsOf(m) \subseteq TurnsOf(session.messages)
    PROVE  /\ [session EXCEPT !.messages = m] \in Sessions
           /\ Shown(threads, seen, [session EXCEPT !.messages = m])
<1>. DEFINE s == [session EXCEPT !.messages = m]
<1>1. /\ s \in Sessions /\ s.thread = session.thread /\ s.revision = session.revision
      /\ s.messages = m
  BY Session, WithMessages
<1>. HIDE DEF s
<1>2. Shown(threads, seen, s)
  BY <1>1, Session DEF Shown, Known, Held, Current
<1>. QED  BY <1>1, <1>2 DEF s

LEMMA FreshShown ==
    ASSUME NEW n \in Nat, NEW rows, NEW shown
    PROVE  Shown(rows, shown, Fresh(n))
BY FreshSession DEF Shown, Known, Held, Current

LEMMA NewThreadStep ==
    ASSUME IInv, NewThread, UNCHANGED webVars
    PROVE  IInv'
<1>1. session' = Fresh(next_conv) /\ next_conv' = next_conv + 1
  BY DEF NewThread
<1>2. session' \in Sessions /\ Shown(threads, seen, session') /\ next_conv' \in Nat
  BY <1>1, Session, FreshSession, FreshShown
<1>. QED  BY <1>2, Session, AutosaveStep DEF NewThread, turnVars

LEMMA CloneStep ==
    ASSUME IInv, Clone, UNCHANGED webVars
    PROVE  IInv'
<1>. DEFINE q == InRow(session, NoThread, 0)
<1>1. session' = [q EXCEPT !.conv = next_conv]
  BY DEF Clone, InRow
<1>2. session \in Sessions /\ NoThread \in ThreadIds \cup {NoThread} /\ 0 \in Nat
  BY Session
<1>3. q \in Sessions /\ q.messages = session.messages /\ q.thread = NoThread
  BY <1>2, WithRow
<1>. HIDE DEF q
<1>4. session' \in Sessions /\ session'.messages = session.messages /\ session'.thread = NoThread
  BY <1>1, <1>3, Session DEF Sessions
<1>5. Shown(threads, seen, session')
  BY <1>4, Session DEF Shown, Known, Held, Current
<1>6. next_conv' \in Nat
  BY Session DEF Clone
<1>. QED  BY <1>4, <1>5, <1>6, Session, AutosaveStep DEF Clone, turnVars

LEMMA PopStep ==
    ASSUME IInv, Pop, UNCHANGED webVars
    PROVE  IInv'
<1>. DEFINE m == SubSeq(session.messages, 1, Len(session.messages) - 1)
<1>1. m \in Seq(Messages) /\ TurnsOf(m) \subseteq TurnsOf(session.messages)
  <2>1. Len(session.messages) - 1 \in Int /\ Len(session.messages) - 1 <= Len(session.messages)
    BY Session, LenProperties
  <2>. QED  BY <2>1, Session, Cut
<1>2. session' = [session EXCEPT !.messages = m]
  BY DEF Pop, Front
<1>. HIDE DEF m
<1>3. session' \in Sessions /\ Shown(threads, seen, session')
  BY <1>1, <1>2, NewMessages
<1>. QED  BY <1>3, Session, AutosaveStep DEF Pop, turnVars

LEMMA ChangeSettingStep ==
    ASSUME IInv, ChangeSetting, UNCHANGED webVars
    PROVE  IInv'
<1>1. session' \in Sessions /\ Shown(threads, seen, session')
  BY Session DEF ChangeSetting
<1>2. StoreSave(session', file_job, deferred_store_save)
  BY DEF ChangeSetting
<1>. QED  BY <1>1, <1>2, Session, AutosaveStep DEF ChangeSetting, turnVars

LEMMA ClearStep ==
    ASSUME IInv, Clear, UNCHANGED webVars
    PROVE  IInv'
<1>1. <<>> \in Seq(Messages) /\ TurnsOf(<<>>) \subseteq TurnsOf(session.messages)
  BY EmptySeq DEF TurnsOf
<1>2. session' \in Sessions /\ Shown(threads, seen, session')
  BY <1>1, NewMessages DEF Clear
<1>. QED  BY <1>2, Session, QuietStep DEF Clear, turnVars

LEMMA StartHistoryEditStep ==
    ASSUME IInv, StartHistoryEdit, UNCHANGED webVars
    PROVE  IInv'
<1>1. Len(session.messages) \in Nat /\ Last(session.messages) \in Messages
  <2>1. session.messages # <<>>
    BY DEF StartHistoryEdit
  <2>. QED  BY <2>1, Session, LenProperties, EmptySeq, ElementOfSeq DEF Last
<1>2. history_edit' \in [index : Nat, by : SUBSET Int]
  BY <1>1 DEF StartHistoryEdit, Messages
<1>3. session' \in Sessions /\ Shown(threads, seen, session')
  BY Session DEF StartHistoryEdit
<1>. QED  BY <1>2, <1>3, Session, QuietStep DEF StartHistoryEdit, turnVars

LEMMA CancelHistoryEditStep ==
    ASSUME IInv, CancelHistoryEdit, UNCHANGED webVars
    PROVE  IInv'
<1>1. session' \in Sessions /\ Shown(threads, seen, session')
  BY Session DEF CancelHistoryEdit
<1>. QED  BY <1>1, Session, QuietStep DEF CancelHistoryEdit, turnVars

LEMMA FinishHistoryEditStep ==
    ASSUME IInv, FinishHistoryEdit, UNCHANGED webVars
    PROVE  IInv'
<1>1. CASE history_edit.index \in DOMAIN session.messages
  <2>. DEFINE m == [session.messages EXCEPT ![history_edit.index].by = history_edit.by]
  <2>1. history_edit.by \in SUBSET Int
    BY Session DEF FinishHistoryEdit
  <2>2. m \in Seq(Messages) /\ TurnsOf(m) \subseteq TurnsOf(session.messages)
    BY <1>1, <2>1, Session, Rewritten
  <2>3. session' = [session EXCEPT !.messages = m]
    BY <1>1 DEF FinishHistoryEdit
  <2>. HIDE DEF m
  <2>4. session' \in Sessions /\ Shown(threads, seen, session')
    BY <2>2, <2>3, NewMessages
  <2>5. StoreSave(session', file_job, deferred_store_save)
    BY <1>1 DEF FinishHistoryEdit
  <2>. QED  BY <2>4, <2>5, Session, AutosaveStep DEF FinishHistoryEdit, turnVars
<1>2. CASE history_edit.index \notin DOMAIN session.messages
  <2>1. session' \in Sessions /\ Shown(threads, seen, session')
    BY <1>2, Session DEF FinishHistoryEdit
  <2>2. UNCHANGED <<jobVars, saveVars>>
    BY <1>2 DEF FinishHistoryEdit, jobVars, saveVars
  <2>. QED  BY <2>1, <2>2, Session, QuietStep DEF FinishHistoryEdit, turnVars
<1>. QED  BY <1>1, <1>2

LEMMA RegenerateActiveStep ==
    ASSUME IInv, RegenerateActive, UNCHANGED webVars
    PROVE  IInv'
<1>1. /\ model_job' \in [turn : Nat, running : BOOLEAN, token : BOOLEAN, said : BOOLEAN]
      /\ model_job'.running = model_job.running /\ model_job'.turn = model_job.turn
  BY DEF RegenerateActive, IInv, Types, TermTypes
<1>2. TermTypes'
  BY <1>1 DEF RegenerateActive, IInv, Types, TermTypes, saveVars
<1>3. SaveInv' /\ ReportInv'
  BY SavesSame, ReportsSame DEF RegenerateActive, IInv
<1>4. TurnInv'
  BY <1>1 DEF RegenerateActive, IInv, TurnInv, TurnHasItsEnd, Ends
<1>5. SeenInv'
  BY SeenSame DEF RegenerateActive, IInv, SeenInv, Deferred
<1>6. LibTypes' /\ WebInv'
  BY LibrarySame DEF RegenerateActive, IInv, Types
<1>. QED  BY <1>2, <1>3, <1>4, <1>5, <1>6 DEF IInv, Types

LEMMA EscapeStep ==
    ASSUME IInv, Escape, UNCHANGED webVars
    PROVE  IInv'
<1>0. UNCHANGED <<threads, deferred_store_save, events, seen, ui, active_job, session>>
      /\ UNCHANGED <<asked, stored, failed>>
  BY DEF Escape, saveVars
<1>1. CASE active_job
  <2>1. /\ model_job' \in [turn : Nat, running : BOOLEAN, token : BOOLEAN, said : BOOLEAN]
        /\ model_job'.running = model_job.running /\ model_job'.turn = model_job.turn
        /\ file_job' = file_job
    BY <1>1 DEF Escape, IInv, Types, TermTypes
  <2>2. TermTypes'
    BY <1>1, <2>1 DEF Escape, IInv, Types, TermTypes, saveVars
  <2>3. SaveInv' /\ ReportInv'
    BY <1>0, <2>1, SavesSame, ReportsSame DEF IInv, saveVars
  <2>4. TurnInv'
    BY <1>0, <2>1 DEF IInv, TurnInv, TurnHasItsEnd, Ends
  <2>5. SeenInv'
    BY <1>0, <2>1, SeenSame DEF IInv, SeenInv, Deferred
  <2>. QED  BY <1>0, <2>2, <2>3, <2>4, <2>5, LibrarySame DEF IInv, Types
<1>2. CASE ~active_job
  <2>1. /\ file_job' = [file_job EXCEPT !.token = TRUE] /\ Joinable(file_job)
        /\ ~file_job.pushed /\ UNCHANGED <<model_job, regenerate_after_cancel>>
    BY <1>2 DEF Escape
  <2>2. /\ file_job' \in FileJobs /\ file_job'.kind = file_job.kind
        /\ file_job'.pushed = file_job.pushed /\ file_job'.session = file_job.session
        /\ file_job'.kind = "save" => file_job'.save = file_job.save
    BY <2>1, JobCancelled DEF IInv, Types, TermTypes
  <2>3. TermTypes'
    BY <2>1, <2>2 DEF Escape, IInv, Types, TermTypes, saveVars
  <2>4. SaveInv' /\ ReportInv'
    BY <1>0, <2>1, <2>2 DEF IInv, SaveInv, ReportInv, Reports, Deferred, Joinable
  <2>5. TurnInv'
    BY <1>0, <2>1, TurnSame DEF IInv
  <2>6. SeenInv'
    BY <1>0, <2>2, SeenSame DEF IInv, SeenInv, Deferred, JobKnows
  <2>. QED  BY <1>0, <2>3, <2>4, <2>5, <2>6, LibrarySame DEF IInv, Types
<1>. QED  BY <1>1, <1>2

LEMMA LoadThreadStep ==
    ASSUME IInv, NEW t \in ThreadIds, LoadThread(t), UNCHANGED webVars
    PROVE  IInv'
<1>0. /\ UNCHANGED <<threads, deferred_store_save, events, seen, ui, active_job, session, model_job>>
      /\ UNCHANGED saveVars /\ ~Joinable(file_job)
  BY DEF LoadThread, turnVars
<1>1. /\ file_job' \in FileJobs /\ file_job'.kind = "load" /\ ~file_job'.pushed
      /\ file_job'.session.thread = NoThread /\ file_job'.session.revision = 0
  BY FreshSession DEF LoadThread, FileJobs, Fresh
<1>2. TermTypes'
  BY <1>0, <1>1 DEF LoadThread, IInv, Types, TermTypes, turnVars, saveVars
<1>3. SaveInv' /\ ReportInv'
  BY <1>0, <1>1 DEF IInv, SaveInv, ReportInv, Reports, Deferred, Joinable, saveVars
<1>4. TurnInv'
  BY <1>0, TurnSame DEF IInv
<1>5. JobKnows(threads', seen', file_job')
  BY <1>1 DEF JobKnows, Held
<1>6. SeenInv'
  BY <1>0, <1>5, SeenSame DEF IInv, SeenInv, Deferred
<1>. QED  BY <1>0, <1>2, <1>3, <1>4, <1>6, LibrarySame DEF IInv, Types

-----------------------------------------------------------------------------
(* The jobs *)

LEMMA ModelDeltaStep ==
    ASSUME IInv, ModelDelta, UNCHANGED webVars
    PROVE  IInv'
<1>. DEFINE e == [type |-> "delta", turn |-> model_job.turn]
<1>1. TermTypes /\ e \in Events /\ e.type \notin Ending /\ e.type \notin Reporting
  BY DEF IInv, Types, TermTypes, Events, Ending, Reporting
<1>2. events' = Append(events, e)
  BY DEF ModelDelta
<1>3. e.type \notin Reporting
  BY <1>1
<1>. HIDE DEF e
<1>4. /\ events' \in Seq(Events) /\ Ends' = Ends /\ Reports' = Reports
      /\ events'[Len(events) + 1] = e /\ \A i \in DOMAIN events : events'[i] = events[i]
      /\ DOMAIN events' = DOMAIN events \cup {Len(events) + 1}
  BY <1>1, <1>2, EventQueued
<1>5. /\ model_job' \in [turn : Nat, running : BOOLEAN, token : BOOLEAN, said : BOOLEAN]
      /\ model_job.running /\ model_job'.running /\ model_job'.turn = model_job.turn
  BY <1>1 DEF ModelDelta, TermTypes
<1>6. TermTypes'
  BY <1>1, <1>4, <1>5 DEF ModelDelta, TermTypes, turnVars, saveVars
<1>7. SaveInv'
  BY SavesSame DEF ModelDelta, IInv
<1>8. ReportInv'
  BY <1>4 DEF ModelDelta, IInv, ReportInv
<1>9. TurnInv'
  BY <1>4, <1>5 DEF ModelDelta, IInv, TurnInv, TurnHasItsEnd, turnVars
<1>10. SeenInv'
  <2>1. Reported(threads', seen', e)
    BY <1>1 DEF Reported, Reporting
  <2>. QED  BY <1>4, <2>1, SeenSame DEF ModelDelta, IInv, SeenInv, Deferred
<1>11. LibTypes' /\ WebInv'
  BY LibrarySame DEF ModelDelta, IInv, Types
<1>. QED  BY <1>6, <1>7, <1>8, <1>9, <1>10, <1>11 DEF IInv, Types

LEMMA ModelEndStep ==
    ASSUME IInv, ModelEnd, UNCHANGED webVars
    PROVE  IInv'
<1>1. PICK type \in Ending : events' = Append(events, [type |-> type, turn |-> model_job.turn])
  BY DEF ModelEnd, Ending
<1>. DEFINE e == [type |-> type, turn |-> model_job.turn]
<1>2. /\ TermTypes /\ e \in Events /\ e.type \in Ending /\ e.type \notin Reporting
      /\ e.turn = model_job.turn
  BY DEF IInv, Types, TermTypes, Events, Ending, Reporting
<1>. HIDE DEF e
<1>4. /\ events' \in Seq(Events) /\ Ends' = Ends \cup {Len(events) + 1} /\ Reports' = Reports
      /\ events'[Len(events) + 1] = e /\ \A i \in DOMAIN events : events'[i] = events[i]
      /\ DOMAIN events' = DOMAIN events \cup {Len(events) + 1}
  BY <1>1, <1>2, EventQueued DEF e
<1>5. /\ model_job' \in [turn : Nat, running : BOOLEAN, token : BOOLEAN, said : BOOLEAN]
      /\ model_job.running /\ ~model_job'.running /\ model_job'.turn = model_job.turn
      /\ UNCHANGED <<threads, turnVars, file_job, deferred_store_save, ui, saveVars, seen, session>>
  BY <1>2 DEF ModelEnd, TermTypes
<1>6. TermTypes'
  BY <1>2, <1>4, <1>5 DEF ModelEnd, TermTypes, turnVars, saveVars
<1>7. SaveInv'
  BY <1>5, SavesSame DEF IInv
<1>8. ReportInv'
  BY <1>4, <1>5 DEF IInv, ReportInv
<1>9. TurnInv'
  <2>1. ui \notin {"closing", "saved", "left"}
    BY <1>5 DEF IInv, TurnInv
  <2>2. active_job /\ Ends = {}
    BY <1>5, <2>1 DEF IInv, TurnInv, TurnHasItsEnd
  <2>. DEFINE n == Len(events) + 1
  <2>3. Ends' = {n} /\ events'[n].turn = model_job'.turn
    BY <1>2, <1>4, <1>5, <2>2
  <2>. HIDE DEF n
  <2>4. \E i \in Ends' : Ends' = {i} /\ events'[i].turn = model_job'.turn
    BY <2>3
  <2>. QED  BY <1>5, <2>2, <2>4 DEF TurnInv, TurnHasItsEnd, turnVars
<1>10. SeenInv'
  <2>1. Reported(threads', seen', e)
    BY <1>2 DEF Reported, Reporting
  <2>. QED  BY <1>4, <1>5, <2>1, SeenSame DEF IInv, SeenInv, Deferred
<1>11. LibTypes' /\ WebInv'
  BY <1>5, LibrarySame DEF IInv, Types
<1>. QED  BY <1>6, <1>7, <1>8, <1>9, <1>10, <1>11 DEF IInv, Types

\* The file job that reports is one that has not yet.
LEMMA JobReports ==
    ASSUME IInv, NEW e \in Events, e.type \in Reporting, events' = Append(events, e),
           Joinable(file_job), ~file_job.pushed, file_job' = [file_job EXCEPT !.pushed = TRUE],
           UNCHANGED <<ui, active_job, model_job>>
    PROVE  /\ events' \in Seq(Events) /\ ReportInv' /\ TurnInv'
           /\ file_job' \in FileJobs /\ file_job'.kind = file_job.kind /\ file_job'.pushed
           /\ file_job'.session = file_job.session
           /\ \A i \in DOMAIN events' :
                 events'[i] = e \/ (i \in DOMAIN events /\ events'[i] = events[i])
<1>1. TermTypes /\ e.type \notin Ending
  BY DEF IInv, Types, Ending, Reporting
<1>2. /\ events' \in Seq(Events) /\ Ends' = Ends /\ Reports' = Reports \cup {Len(events) + 1}
      /\ events'[Len(events) + 1] = e /\ \A i \in DOMAIN events : events'[i] = events[i]
      /\ DOMAIN events' = DOMAIN events \cup {Len(events) + 1}
  BY <1>1, EventQueued
<1>3. /\ file_job' \in FileJobs /\ file_job'.kind = file_job.kind /\ file_job'.pushed
      /\ file_job'.session = file_job.session
  BY <1>1, JobPushed DEF TermTypes
<1>4. Reports = {}
  BY DEF IInv, ReportInv
<1>5. ReportInv'
  BY <1>2, <1>3, <1>4 DEF ReportInv, Joinable
<1>6. \A i \in Ends : events'[i] = events[i]
  BY <1>2 DEF Ends
<1>7. TurnInv'
  BY <1>2, <1>6 DEF IInv, TurnInv, TurnHasItsEnd
<1>8. \A i \in DOMAIN events' :
      events'[i] = e \/ (i \in DOMAIN events /\ events'[i] = events[i])
  BY <1>2
<1>. QED  BY <1>2, <1>3, <1>5, <1>7, <1>8

\* A save changes its own thread and raises its revision.
LEMMA SaveGrows ==
    ASSUME Types, NEW s \in Sessions, CanSave(s)
    PROVE  /\ Grown(threads, SaveSession(s)) /\ SaveSession(s) \in [ThreadIds -> Rows]
           /\ \A t \in ThreadIds : SaveSession(s)[t].revision = 0 => SaveSession(s)[t] = Absent
           /\ \A t \in ThreadIds : SaveSession(s)[t].revision >= threads[t].revision
<1>. DEFINE r == Stored(s)
<1>1. threads \in [ThreadIds -> Rows]
  BY RowTypes
<1>2. /\ r.thread \in ThreadIds /\ SaveSession(s) \in [ThreadIds -> Rows]
      /\ SaveSession(s)[r.thread].revision = threads[r.thread].revision + 1
      /\ \A t \in ThreadIds \ {r.thread} : SaveSession(s)[t] = threads[t]
  BY Saved
<1>. HIDE DEF r
<1>3. \A t \in ThreadIds : threads[t].revision \in Nat
  BY <1>1 DEF Rows
<1>4. Grown(threads, SaveSession(s))
  BY <1>2, <1>3 DEF Grown
<1>5. \A t \in ThreadIds : SaveSession(s)[t].revision = 0 => SaveSession(s)[t] = Absent
  BY <1>2, <1>3 DEF Types, LibTypes
<1>6. \A t \in ThreadIds : SaveSession(s)[t].revision >= threads[t].revision
  BY <1>2, <1>3
<1>. QED  BY <1>2, <1>4, <1>5, <1>6

\* What is given back of a save is known: all of its thread was shown.
LEMMA SaveShown ==
    ASSUME Types, NEW s \in Sessions, CanSave(s), NEW shown, Shown(threads, shown, s)
    PROVE  /\ Stored(s) \in Sessions /\ Stored(s).thread # NoThread
           /\ Known(SaveSession(s), shown, Stored(s))
<1>. DEFINE r == Stored(s)
            new == SaveSession(s)
<1>1. threads \in [ThreadIds -> Rows] /\ 0 \notin ThreadIds /\ NoThread = 0
  BY RowTypes
<1>2. /\ r \in Sessions /\ r.thread \in ThreadIds /\ r.revision = threads[r.thread].revision + 1
      /\ new[r.thread].revision = r.revision /\ new[r.thread].messages = s.messages
  BY Saved
<1>. HIDE DEF r, new
<1>3. threads[r.thread].revision \in Nat
  BY <1>1, <1>2 DEF Rows
<1>4. r.revision \in 1..new[r.thread].revision
  BY <1>2, <1>3
<1>5. TurnsOf(new[r.thread].messages) \subseteq shown
  BY <1>2 DEF Shown
<1>6. r \in Sessions /\ r.thread # NoThread /\ Known(new, shown, r)
  BY <1>1, <1>2, <1>4, <1>5 DEF Known, Held
<1>. QED  BY <1>6 DEF r, new

\* The browser's knowledge, too, stands when the terminal writes a thread.
LEMMA LibraryGrows ==
    ASSUME LibTypes, WebInv, UNCHANGED webVars, Grown(threads, threads'),
           threads' \in [ThreadIds -> Rows],
           \A t \in ThreadIds : threads'[t].revision = 0 => threads'[t] = Absent
    PROVE  LibTypes' /\ WebInv'
<1>1. LibTypes'
  BY DEF LibTypes, webVars
<1>2. ASSUME NEW t \in ThreadIds
      PROVE  /\ web_revision[t] <= threads'[t].revision
             /\ web_wrote[t] <= threads'[t].revision
             /\ web_revision[t] = threads'[t].revision
                  => TurnsOf(threads'[t].messages) \subseteq web_seen[t]
             /\ t \in cleaning => threads'[t].revision > 0
  <2>1. /\ threads[t].revision \in Nat /\ threads'[t].revision \in Nat
        /\ web_revision[t] \in Nat /\ web_wrote[t] \in Nat
    BY DEF LibTypes, Rows
  <2>2. \/ threads'[t].revision > threads[t].revision
        \/ threads'[t].revision = threads[t].revision /\ threads'[t].messages = threads[t].messages
    BY DEF Grown
  <2>3. /\ web_revision[t] <= threads[t].revision
        /\ web_wrote[t] <= threads[t].revision
        /\ web_revision[t] = threads[t].revision
             => TurnsOf(threads[t].messages) \subseteq web_seen[t]
        /\ t \in cleaning => threads[t].revision > 0
    BY DEF WebInv
  <2>4. CASE threads'[t].revision > threads[t].revision
    BY <2>1, <2>3, <2>4
  <2>5. CASE threads'[t].revision = threads[t].revision /\ threads'[t].messages = threads[t].messages
    BY <2>3, <2>5
  <2>. QED  BY <2>2, <2>4, <2>5
<1>. QED  BY <1>1, <1>2 DEF WebInv, webVars

LEMMA StoreSaveRunsStep ==
    ASSUME IInv, StoreSaveRuns, UNCHANGED webVars
    PROVE  IInv'
<1>0. /\ file_job.kind = "save" /\ ~file_job.pushed /\ Joinable(file_job)
      /\ file_job' = [file_job EXCEPT !.pushed = TRUE]
      /\ UNCHANGED <<session, turnVars, model_job, deferred_store_save, ui, history_edit, next_conv,
                     asked, seen>>
  BY DEF StoreSaveRuns, Joinable
<1>1. /\ Types /\ TermTypes /\ file_job.session \in Sessions /\ file_job.save \in Nat
      /\ Shown(threads, seen, file_job.session)
  BY <1>0, JobFields DEF IInv, Types, TermTypes, SeenInv, JobKnows
<1>2. UNCHANGED <<ui, active_job, model_job>>
  BY <1>0 DEF turnVars
<1>3. CASE SaveWorks
  <2>. DEFINE s == file_job.session
              e == [type |-> "saved", ok |-> TRUE, session |-> Stored(s)]
  <2>1. /\ CanSave(s) /\ threads' = SaveSession(s) /\ events' = Append(events, e)
        /\ stored' = file_job.save /\ failed' = failed
    BY <1>3 DEF SaveWorks
  <2>2. /\ Stored(s) \in Sessions /\ Stored(s).thread # NoThread
        /\ Known(threads', seen, Stored(s))
    BY <1>1, <2>1, SaveShown
  <2>3. e \in Events /\ e.type \in Reporting /\ Reported(threads', seen', e)
    BY <1>0, <2>2 DEF Events, Reporting, Reported
  <2>4. /\ Grown(threads, threads') /\ threads' \in [ThreadIds -> Rows]
        /\ \A t \in ThreadIds : threads'[t].revision = 0 => threads'[t] = Absent
    BY <1>1, <2>1, SaveGrows
  <2>. HIDE DEF e, s
  <2>5. /\ events' \in Seq(Events) /\ ReportInv' /\ TurnInv'
        /\ file_job' \in FileJobs /\ file_job'.kind = file_job.kind /\ file_job'.pushed
        /\ \A i \in DOMAIN events' :
              events'[i] = e \/ (i \in DOMAIN events /\ events'[i] = events[i])
    BY <1>0, <1>2, <2>1, <2>3, JobReports
  <2>6. TermTypes'
    BY <1>0, <1>1, <2>1, <2>5 DEF TermTypes, turnVars
  <2>7. SaveInv'
    BY <1>0, <2>1, <2>5 DEF IInv, SaveInv, Deferred, Joinable
  <2>8. SeenInv'
    <3>1. /\ Shown(threads', seen', session)
          /\ Deferred => Shown(threads', seen', deferred_store_save.session)
          /\ \A i \in DOMAIN events : Reported(threads', seen', events[i])
      BY <1>0, <2>4, SeenKept DEF IInv
    <3>2. JobKnows(threads', seen', file_job')
      BY <1>0, <2>5 DEF JobKnows
    <3>. QED  BY <1>0, <2>3, <2>5, <3>1, <3>2 DEF SeenInv, Deferred
  <2>9. LibTypes' /\ WebInv'
    BY <2>4, LibraryGrows DEF IInv, Types
  <2>. QED  BY <2>5, <2>6, <2>7, <2>8, <2>9 DEF IInv, Types
<1>4. CASE SaveFails
  <2>. DEFINE e == [type |-> "saved", ok |-> FALSE]
  <2>1. events' = Append(events, e) /\ failed' = file_job.save /\ UNCHANGED <<threads, stored>>
    BY <1>4 DEF SaveFails
  <2>2. e \in Events /\ e.type \in Reporting /\ Reported(threads', seen', e)
    BY DEF Events, Reporting, Reported
  <2>. HIDE DEF e
  <2>3. /\ events' \in Seq(Events) /\ ReportInv' /\ TurnInv'
        /\ file_job' \in FileJobs /\ file_job'.kind = file_job.kind /\ file_job'.pushed
        /\ \A i \in DOMAIN events' :
              events'[i] = e \/ (i \in DOMAIN events /\ events'[i] = events[i])
    BY <1>0, <1>2, <2>1, <2>2, JobReports
  <2>4. TermTypes'
    BY <1>0, <1>1, <2>1, <2>3 DEF TermTypes, turnVars
  <2>5. SaveInv'
    BY <1>0, <2>1, <2>3 DEF IInv, SaveInv, Deferred, Joinable
  <2>6. SeenInv'
    <3>1. JobKnows(threads', seen', file_job')
      BY <1>0, <2>3 DEF JobKnows
    <3>. QED  BY <1>0, <2>1, <2>2, <2>3, <3>1, SeenSame DEF IInv, SeenInv, Deferred
  <2>. QED  BY <2>1, <2>3, <2>4, <2>5, <2>6, LibrarySame DEF IInv, Types
<1>. QED  BY <1>3, <1>4 DEF StoreSaveRuns

LEMMA LoadBeginsStep ==
    ASSUME IInv, LoadBegins, UNCHANGED webVars
    PROVE  IInv'
<1>0. /\ file_job.kind = "load" /\ ~file_job.pushed /\ Joinable(file_job) /\ Live(file_job.thread)
      /\ file_job' = [file_job EXCEPT !.session = LoadRow(file_job.thread)]
      /\ UNCHANGED <<threads, session, turnVars, model_job, deferred_store_save, events, ui,
                     history_edit, next_conv, saveVars, seen>>
  BY DEF LoadBegins, Joinable
<1>. DEFINE t == file_job.thread
            s == LoadRow(t)
<1>1. /\ Types /\ t \in ThreadIds /\ threads[t] \in Rows /\ threads[t].revision > 0
      /\ file_job \in FileJobs
  BY <1>0, JobFields, RowTypes DEF IInv, Types, TermTypes, Live
<1>2. threads[t].revision \in Nat /\ threads[t].conv \in Nat
  BY <1>1 DEF Rows
<1>3. <<>> \in Seq(Messages)
  BY EmptySeq
<1>4. s \in Sessions /\ s.thread = t /\ s.revision = threads[t].revision
  BY <1>1, <1>2, <1>3 DEF LoadRow, Sessions
<1>5. Held(threads, s) /\ s.thread # NoThread
  BY <1>1, <1>2, <1>4, RowTypes DEF Held
<1>. HIDE DEF s
<1>6. /\ file_job' \in FileJobs /\ file_job'.kind = "load" /\ ~file_job'.pushed
      /\ file_job'.session = s
  <2>. DEFINE k == [file_job EXCEPT !.session = s]
  <2>1. k \in FileJobs /\ k.kind = "load" /\ k.pushed = file_job.pushed /\ k.session = s
    BY <1>0, <1>1, <1>4, JobReads
  <2>2. file_job' = k
    BY <1>0 DEF s
  <2>. HIDE DEF k
  <2>. QED  BY <1>0, <2>1, <2>2
<1>7. TermTypes'
  BY <1>0, <1>6 DEF IInv, Types, TermTypes, turnVars, saveVars
<1>8. SaveInv'
  BY <1>0, <1>6 DEF IInv, SaveInv, Deferred, Joinable, saveVars
<1>9. ReportInv' /\ TurnInv'
  BY <1>0, TurnSame DEF IInv, ReportInv, Reports, turnVars
<1>10. JobKnows(threads', seen', file_job')
  BY <1>0, <1>5, <1>6 DEF JobKnows
<1>11. SeenInv'
  BY <1>0, <1>10, SeenSame DEF IInv, SeenInv, Deferred
<1>. QED  BY <1>0, <1>7, <1>8, <1>9, <1>11, LibrarySame DEF IInv, Types

LEMMA LoadEndsStep ==
    ASSUME IInv, LoadEnds, UNCHANGED webVars
    PROVE  IInv'
<1>0. /\ file_job.kind = "load" /\ ~file_job.pushed /\ Joinable(file_job)
      /\ file_job' = [file_job EXCEPT !.pushed = TRUE]
      /\ UNCHANGED <<threads, session, turnVars, model_job, deferred_store_save, ui, history_edit,
                     next_conv, saveVars, seen>>
  BY DEF LoadEnds, Joinable
<1>1. PICK e \in Events :
          /\ events' = Append(events, e) /\ e.type = "loaded"
          /\ e.ok => Loaded(threads, e.session)
  <2>1. CASE events' = Append(events, [type |-> "loaded", ok |-> FALSE])
    <3>1. [type |-> "loaded", ok |-> FALSE] \in Events
      BY DEF Events, Reporting
    <3>. QED  BY <2>1, <3>1
  <2>2. CASE /\ file_job.session.revision > 0
             /\ events' = Append(events, [type |-> "loaded", ok |-> TRUE,
                                          session |-> LoadMessages(file_job.session)])
    <3>. DEFINE s == file_job.session
                l == LoadMessages(s)
    <3>1. s \in Sessions /\ Held(threads, s) /\ s.thread # NoThread
      BY <1>0, <2>2, JobFields DEF IInv, Types, TermTypes, SeenInv, JobKnows
    <3>2. threads[s.thread].messages \in Seq(Messages)
      BY <3>1, RowTypes DEF IInv, Sessions, Rows
    <3>3. /\ l \in Sessions /\ l.thread = s.thread /\ l.revision = s.revision
          /\ l.messages = threads[s.thread].messages
      BY <3>1, <3>2, WithMessages DEF LoadMessages
    <3>. HIDE DEF l
    <3>4. Loaded(threads, l)
      BY <3>1, <3>3 DEF Loaded, Held
    <3>5. [type |-> "loaded", ok |-> TRUE, session |-> l] \in Events
      BY <3>3 DEF Events, Reporting
    <3>. QED  BY <2>2, <3>4, <3>5 DEF l
  <2>. QED  BY <2>1, <2>2 DEF LoadEnds
<1>2. e.type \in Reporting /\ Reported(threads', seen', e)
  BY <1>0, <1>1 DEF Reporting, Reported
<1>3. /\ events' \in Seq(Events) /\ ReportInv' /\ TurnInv'
      /\ file_job' \in FileJobs /\ file_job'.kind = file_job.kind /\ file_job'.pushed
      /\ file_job'.session = file_job.session
      /\ \A i \in DOMAIN events' :
            events'[i] = e \/ (i \in DOMAIN events /\ events'[i] = events[i])
  BY <1>0, <1>1, <1>2, JobReports DEF turnVars
<1>4. TermTypes'
  BY <1>0, <1>3 DEF IInv, Types, TermTypes, turnVars, saveVars
<1>5. SaveInv'
  BY <1>0, <1>3 DEF IInv, SaveInv, Deferred, Joinable, saveVars
<1>6. SeenInv'
  <2>1. JobKnows(threads', seen', file_job')
    BY <1>0, <1>3 DEF IInv, SeenInv, JobKnows
  <2>. QED  BY <1>0, <1>2, <1>3, <2>1, SeenSame DEF IInv, SeenInv, Deferred
<1>. QED  BY <1>0, <1>3, <1>4, <1>5, <1>6, LibrarySame DEF IInv, Types

-----------------------------------------------------------------------------
(* Events *)

\* What the queue's head leaves to its tail.
LEMMA TailReported ==
    ASSUME IInv, events # <<>>, Handled, UNCHANGED threads, seen \subseteq seen'
    PROVE  \A i \in DOMAIN events' : Reported(threads', seen', events'[i])
<1>1. \A i \in DOMAIN events : Reported(threads', seen', events[i])
  BY SeenSame DEF IInv
<1>. QED  BY <1>1, EventTaken DEF IInv, Types

LEMMA HandleDeltaStep ==
    ASSUME IInv, HandleDelta, UNCHANGED webVars
    PROVE  IInv'
<1>0. /\ Open /\ events # <<>> /\ Head(events).type = "delta" /\ Handled
      /\ UNCHANGED <<threads, turnVars, model_job, file_job, deferred_store_save, ui, history_edit,
                     next_conv, saveVars, seen>>
  BY DEF HandleDelta, HasEvent
<1>1. TermTypes /\ events' \in Seq(Events) /\ Head(events) \in Events
      /\ Head(events).type \notin Ending /\ Head(events).type \notin Reporting
  BY <1>0, EventTaken DEF IInv, Types, Ending, Reporting
<1>2. session' \in Sessions /\ Shown(threads, seen, session')
  <2>1. CASE AnswerHere
    <3>. DEFINE texts == session.messages[pending.assistant].by \cup {Head(events).turn}
                m == [session.messages EXCEPT ![pending.assistant].by = texts]
    <3>1. pending.assistant \in DOMAIN session.messages
      BY <2>1 DEF AnswerHere
    <3>2. session.messages[pending.assistant] \in Messages /\ Head(events).turn \in Nat
      BY <1>0, <1>1, <3>1, Session, LenProperties, ElementOfSeq, EventTypes
    <3>3. texts \in SUBSET Int
      BY <3>2 DEF Messages
    <3>4. session' = [session EXCEPT !.messages = m]
      BY <2>1 DEF HandleDelta
    <3>. HIDE DEF texts
    <3>5. m \in Seq(Messages) /\ TurnsOf(m) \subseteq TurnsOf(session.messages)
      BY <3>1, <3>3, Session, Rewritten
    <3>. HIDE DEF m
    <3>. QED  BY <3>4, <3>5, NewMessages
  <2>2. CASE ~AnswerHere
    BY <2>2, Session DEF HandleDelta
  <2>. QED  BY <2>1, <2>2
<1>3. TermTypes'
  BY <1>0, <1>1, <1>2 DEF TermTypes, turnVars, saveVars
<1>4. SaveInv' /\ ReportInv' /\ TurnInv'
  BY <1>0, <1>1, SavesSame, ReportsTaken, TurnTaken DEF IInv, turnVars
<1>5. SeenInv'
  BY <1>0, <1>2, SeenSame, TailReported DEF IInv, SeenInv, Deferred
<1>. QED  BY <1>0, <1>3, <1>4, <1>5, LibrarySame DEF IInv, Types

\* A turn that is over, its session saved or not.
LEMMA TurnEnds ==
    ASSUME IInv, UNCHANGED <<webVars, threads, ui, history_edit, next_conv, stored, failed,
                             model_job, next_turn, seen>>,
           Open, events # <<>>, Head(events).type \in Ending, Handled, Ended,
           session' \in Sessions, Shown(threads, seen, session'),
           \/ StoreSave(session', file_job, deferred_store_save)
           \/ UNCHANGED <<file_job, deferred_store_save, asked>>
    PROVE  IInv'
<1>1. TermTypes /\ events' \in Seq(Events) /\ Head(events).type \notin Reporting
  BY EventTaken DEF IInv, Types, Ending, Reporting
<1>2. /\ file_job' \in FileJobs /\ deferred_store_save' \in Saves /\ asked' \in Nat
      /\ SaveInv' /\ (Joinable(file_job) => file_job' = file_job)
      /\ JobKnows(threads, seen, file_job')
      /\ Deferred' => Shown(threads, seen, deferred_store_save'.session)
  <2>1. CASE StoreSave(session', file_job, deferred_store_save)
    BY <2>1, SaveAsked DEF IInv, SeenInv
  <2>2. CASE UNCHANGED <<file_job, deferred_store_save, asked>>
    BY <1>1, <2>2, SavesSame DEF IInv, SeenInv, TermTypes, Deferred, saveVars
  <2>. QED  BY <2>1, <2>2
<1>3. TermTypes'
  BY <1>1, <1>2 DEF TermTypes, Ended, NoPending
<1>4. ReportInv'
  BY <1>1, <1>2, ReportsTaken DEF IInv
<1>5. TurnInv'
  <2>1. Ends' = {} /\ ~model_job.running
    BY <1>1, TurnTaken DEF IInv
  <2>. QED  BY <2>1 DEF TurnInv, TurnHasItsEnd, Ended, Open
<1>6. SeenInv'
  BY <1>2, TailReported DEF SeenInv
<1>. QED  BY <1>2, <1>3, <1>4, <1>5, <1>6, LibrarySame DEF IInv, Types

LEMMA TurnAgain ==
    ASSUME IInv, UNCHANGED <<webVars, threads, ui, history_edit, next_conv, stored, failed,
                             file_job, deferred_store_save, asked>>,
           Open, events # <<>>, Head(events).type \in Ending, Handled,
           NEW m \in Seq(Messages), TurnsOf(m) \subseteq TurnsOf(session.messages),
           NEW from \in Nat, QueuedTurn(m, from)
    PROVE  IInv'
<1>. DEFINE kept == IF from \in DOMAIN m THEN SubSeq(m, 1, from - 1) ELSE m
<1>1. TermTypes /\ events' \in Seq(Events) /\ Head(events).type \notin Reporting
  BY EventTaken DEF IInv, Types, Ending, Reporting
<1>2. Ends' = {} /\ ~model_job.running /\ ui = "open"
  BY <1>1, TurnTaken DEF IInv, Open
<1>3. kept \in Seq(Messages) /\ TurnsOf(kept) \subseteq TurnsOf(session.messages)
  <2>1. CASE from \in DOMAIN m
    <3>1. from - 1 \in Int /\ from - 1 <= Len(m)
      BY <2>1, LenProperties
    <3>. QED  BY <2>1, <3>1, Cut
  <2>2. CASE from \notin DOMAIN m
    BY <2>2
  <2>. QED  BY <2>1, <2>2
<1>4. /\ regenerate_after_cancel' = FALSE
      /\ IF Locked
         THEN /\ session' = [session EXCEPT !.messages = kept]
              /\ pending' = NoPending /\ active_job' = FALSE
              /\ UNCHANGED <<model_job, next_turn, seen>>
         ELSE StartTurn(kept)
  BY DEF QueuedTurn
<1>. HIDE DEF kept
<1>5. SaveInv' /\ ReportInv'
  BY <1>1, SavesSame, ReportsTaken DEF IInv, saveVars
<1>6. CASE Locked
  <2>1. session' \in Sessions /\ Shown(threads, seen, session')
    BY <1>3, <1>4, <1>6, NewMessages
  <2>2. /\ pending' = NoPending /\ active_job' = FALSE /\ regenerate_after_cancel' = FALSE
        /\ UNCHANGED <<model_job, next_turn, seen>>
    BY <1>4, <1>6
  <2>3. TermTypes'
    BY <1>1, <2>1, <2>2 DEF TermTypes, NoPending
  <2>4. TurnInv'
    BY <1>2, <2>2 DEF TurnInv, TurnHasItsEnd
  <2>5. SeenInv'
    BY <2>2, <2>1, SeenSame, TailReported DEF IInv, SeenInv, Deferred
  <2>. QED  BY <1>5, <2>3, <2>4, <2>5, LibrarySame DEF IInv, Types
<1>7. CASE ~Locked
  <2>1. StartTurn(kept)
    BY <1>4, <1>7
  <2>2. TurnInv' /\ Shown(threads', seen', session')
    BY <1>2, <1>3, <2>1, TurnStarts
  <2>3. seen \subseteq seen'
    BY <1>3, <2>1, TurnBegins DEF IInv
  <2>4. TermTypes'
    BY <1>1, <1>3, <1>4, <2>1, TurnBegins DEF IInv, TermTypes
  <2>5. SeenInv'
    BY <2>2, <2>3, SeenSame, TailReported DEF IInv, SeenInv, Deferred
  <2>. QED  BY <1>5, <2>2, <2>4, <2>5, LibrarySame DEF IInv, Types
<1>. QED  BY <1>6, <1>7

LEMMA HandleDoneStep ==
    ASSUME IInv, HandleDone, UNCHANGED webVars
    PROVE  IInv'
<1>. DEFINE m == Answered(session.messages, Head(events).turn)
<1>0. /\ Open /\ events # <<>> /\ Head(events).type = "done" /\ Handled
      /\ Head(events).type \in Ending
      /\ UNCHANGED <<threads, ui, history_edit, next_conv, stored, failed>>
  BY DEF HandleDone, HasEvent, Ending
<1>1. m \in Seq(Messages) /\ TurnsOf(m) \subseteq TurnsOf(session.messages)
  <2>1. Head(events) \in Events
    BY <1>0, EventTaken DEF IInv, Types
  <2>2. {Head(events).turn} \in SUBSET Int
    BY <1>0, <2>1, EventTypes
  <2>. QED  BY <2>2, Session, Rewritten DEF Answered, AnswerHere
<1>2. CASE regenerate_after_cancel
  <2>1. QueuedTurn(m, pending.user) /\ UNCHANGED <<file_job, deferred_store_save, asked>>
    BY <1>2 DEF HandleDone
  <2>2. pending.user \in Nat
    BY DEF IInv, Types, TermTypes
  <2>. HIDE DEF m
  <2>. QED  BY <1>0, <1>1, <2>1, <2>2, TurnAgain
<1>3. CASE ~regenerate_after_cancel
  <2>1. /\ Ended /\ session' = [session EXCEPT !.messages = m]
        /\ StoreSave(session', file_job, deferred_store_save)
        /\ UNCHANGED <<model_job, next_turn, seen>>
    BY <1>3 DEF HandleDone
  <2>. HIDE DEF m
  <2>2. session' \in Sessions /\ Shown(threads, seen, session')
    BY <1>1, <2>1, NewMessages
  <2>. QED  BY <1>0, <2>1, <2>2, TurnEnds
<1>. QED  BY <1>2, <1>3

LEMMA RolledBackTurn ==
    ASSUME NEW m \in Seq(Messages)
    PROVE  /\ RolledBack(m) \in Seq(Messages) /\ TurnsOf(RolledBack(m)) \subseteq TurnsOf(m)
           /\ KeptCancelled(m) \in Seq(Messages) /\ TurnsOf(KeptCancelled(m)) \subseteq TurnsOf(m)
<1>1. /\ Erase(m, pending.assistant) \in Seq(Messages)
      /\ TurnsOf(Erase(m, pending.assistant)) \subseteq TurnsOf(m)
  BY Erased
<1>2. /\ Erase(Erase(m, pending.assistant), pending.user) \in Seq(Messages)
      /\ TurnsOf(Erase(Erase(m, pending.assistant), pending.user)) \subseteq TurnsOf(m)
  BY <1>1, Erased
<1>. QED  BY <1>1, <1>2 DEF RolledBack, KeptCancelled

LEMMA HandleCancelledStep ==
    ASSUME IInv, HandleCancelled, UNCHANGED webVars
    PROVE  IInv'
<1>0. /\ Open /\ events # <<>> /\ Head(events).type \in Ending /\ Handled
      /\ UNCHANGED <<threads, ui, history_edit, next_conv, stored, failed>>
  BY DEF HandleCancelled, HasEvent, Ending
<1>1. /\ session.messages \in Seq(Messages) /\ pending.user \in Nat
  BY DEF IInv, Types, TermTypes, Sessions
<1>2. CASE regenerate_after_cancel
  <2>. DEFINE m == RolledBack(session.messages)
              from == IF pending.added THEN 0 ELSE pending.user
  <2>1. QueuedTurn(m, from) /\ UNCHANGED <<file_job, deferred_store_save, asked>>
    BY <1>2 DEF HandleCancelled
  <2>2. m \in Seq(Messages) /\ TurnsOf(m) \subseteq TurnsOf(session.messages) /\ from \in Nat
    BY <1>1, RolledBackTurn
  <2>. HIDE DEF m, from
  <2>. QED  BY <1>0, <2>1, <2>2, TurnAgain
<1>3. CASE ~regenerate_after_cancel
  <2>. DEFINE m == KeptCancelled(session.messages)
  <2>1. /\ Ended /\ session' = [session EXCEPT !.messages = m]
        /\ StoreSave(session', file_job, deferred_store_save)
        /\ UNCHANGED <<model_job, next_turn, seen>>
    BY <1>3 DEF HandleCancelled
  <2>2. m \in Seq(Messages) /\ TurnsOf(m) \subseteq TurnsOf(session.messages)
    BY <1>1, RolledBackTurn
  <2>. HIDE DEF m
  <2>3. session' \in Sessions /\ Shown(threads, seen, session')
    BY <2>1, <2>2, NewMessages
  <2>. QED  BY <1>0, <2>1, <2>3, TurnEnds
<1>. QED  BY <1>2, <1>3

LEMMA HandleErrorStep ==
    ASSUME IInv, HandleError, UNCHANGED webVars
    PROVE  IInv'
<1>. DEFINE m == RolledBack(session.messages)
<1>0. /\ Open /\ events # <<>> /\ Head(events).type \in Ending /\ Handled /\ Ended
      /\ session' = [session EXCEPT !.messages = m]
      /\ UNCHANGED <<threads, model_job, next_turn, file_job, deferred_store_save, ui, history_edit,
                     next_conv, asked, stored, failed, seen>>
  BY DEF HandleError, HasEvent, Ending, saveVars
<1>1. m \in Seq(Messages) /\ TurnsOf(m) \subseteq TurnsOf(session.messages)
  BY Session, RolledBackTurn
<1>. HIDE DEF m
<1>2. session' \in Sessions /\ Shown(threads, seen, session')
  BY <1>0, <1>1, NewMessages
<1>. QED  BY <1>0, <1>2, TurnEnds

\* A deferred save takes the place of the file job that has ended.
LEMMA SaveResumed ==
    ASSUME IInv, NEW later \in Saves, later = NoSave <=> ~Deferred,
           later # NoSave => later.save = deferred_store_save.save,
           Resume(later), Joinable(file_job), file_job.pushed, UNCHANGED saveVars
    PROVE  SaveInv'
<1>1. ~Deferred' /\ UNCHANGED <<asked, stored, failed>>
  BY Resumed DEF saveVars
<1>2. CASE later = NoSave
  <2>1. ~Joinable(file_job)' /\ asked \in {0, stored, failed}
    BY <1>2, Resumed DEF IInv, SaveInv
  <2>. QED  BY <1>1, <2>1 DEF SaveInv, Joinable
<1>3. CASE later # NoSave
  <2>1. file_job'.kind = "save" /\ ~file_job'.pushed /\ file_job'.save = asked
    BY <1>3, Resumed DEF IInv, SaveInv
  <2>. QED  BY <1>1, <2>1 DEF SaveInv
<1>. QED  BY <1>2, <1>3

LEMMA HandleSavedStep ==
    ASSUME IInv, HandleSaved, UNCHANGED webVars
    PROVE  IInv'
<1>. DEFINE e == Head(events)
            later == IF e.ok THEN Patched(deferred_store_save, session, e.session)
                     ELSE deferred_store_save
<1>0. /\ Open /\ events # <<>> /\ Head(events).type = "saved" /\ Handled
      /\ session' = (IF e.ok THEN AfterSave(session, e.session) ELSE session)
      /\ Resume(later)
      /\ UNCHANGED <<threads, turnVars, model_job, ui, history_edit, next_conv, saveVars, seen>>
  BY DEF HandleSaved, HasEvent
<1>1. /\ TermTypes /\ deferred_store_save \in Saves /\ events' \in Seq(Events) /\ e \in Events
      /\ e.type \in Reporting /\ e.type \notin Ending /\ Reported(threads, seen, e)
  BY <1>0, EventTaken DEF IInv, Types, TermTypes, Ending, Reporting, SeenInv
<1>2. Reports' = {} /\ Joinable(file_job) /\ file_job.pushed
  BY <1>0, <1>1, ReportsTaken DEF IInv
<1>3. e.ok => e.session \in Sessions /\ Known(threads, seen, e.session)
  BY <1>0, <1>1, EventTypes DEF Reported
<1>4. session' \in Sessions /\ Shown(threads, seen, session')
  <2>1. CASE e.ok
    BY <1>0, <1>3, <2>1, Session, Adopted
  <2>2. CASE ~e.ok
    BY <1>0, <2>2, Session
  <2>. QED  BY <2>1, <2>2
<1>5. /\ later \in Saves /\ (later = NoSave <=> ~Deferred)
      /\ later # NoSave => /\ later.save = deferred_store_save.save
                           /\ Shown(threads, seen, later.session)
  <2>1. Deferred => Shown(threads, seen, deferred_store_save.session)
    BY DEF IInv, SeenInv
  <2>2. CASE e.ok
    <3>. DEFINE p == Patched(deferred_store_save, session, e.session)
    <3>1. /\ p \in Saves /\ (p = NoSave <=> deferred_store_save = NoSave)
          /\ p # NoSave => p.save = deferred_store_save.save
          /\ p # NoSave => Shown(threads, seen, p.session)
      BY <1>1, <1>3, <2>1, <2>2, Session, PatchedSave DEF Deferred
    <3>2. later = p
      BY <2>2
    <3>. HIDE DEF p, later
    <3>. QED  BY <3>1, <3>2 DEF Deferred
  <2>3. CASE ~e.ok
    BY <1>1, <2>1, <2>3 DEF Deferred
  <2>. QED  BY <2>2, <2>3
<1>. HIDE DEF later
<1>6. /\ file_job' \in FileJobs /\ deferred_store_save' \in Saves /\ ~Deferred'
      /\ JobKnows(threads, seen, file_job')
  BY <1>0, <1>5, Resumed
<1>7. TermTypes'
  BY <1>0, <1>1, <1>4, <1>6 DEF TermTypes, turnVars, saveVars
<1>8. SaveInv'
  BY <1>0, <1>2, <1>5, SaveResumed
<1>9. ReportInv' /\ TurnInv'
  BY <1>0, <1>1, <1>2, TurnTaken DEF IInv, ReportInv, turnVars
<1>10. SeenInv'
  BY <1>0, <1>4, <1>6, TailReported DEF SeenInv
<1>. QED  BY <1>0, <1>7, <1>8, <1>9, <1>10, LibrarySame DEF IInv, Types

LEMMA HandleLoadedStep ==
    ASSUME IInv, HandleLoaded, UNCHANGED webVars
    PROVE  IInv'
<1>. DEFINE e == Head(events)
<1>0. /\ Open /\ events # <<>> /\ e.type = "loaded" /\ Handled
      /\ session' = (IF e.ok THEN e.session ELSE session)
      /\ seen' = (IF e.ok THEN seen \cup ShownTurns(e.session.messages) ELSE seen)
      /\ Resume(deferred_store_save)
      /\ UNCHANGED <<threads, turnVars, model_job, ui, history_edit, next_conv, saveVars>>
  BY DEF HandleLoaded, HasEvent
<1>1. /\ TermTypes /\ deferred_store_save \in Saves /\ events' \in Seq(Events) /\ e \in Events
      /\ e.type \in Reporting /\ e.type \notin Ending /\ Reported(threads, seen, e)
  BY <1>0, EventTaken DEF IInv, Types, TermTypes, Ending, Reporting, SeenInv
<1>2. Reports' = {} /\ Joinable(file_job) /\ file_job.pushed
  BY <1>0, <1>1, ReportsTaken DEF IInv
<1>3. /\ seen \subseteq seen' /\ seen' \subseteq Int
      /\ session' \in Sessions /\ Shown(threads, seen', session')
  <2>1. CASE e.ok
    <3>1. e.session \in Sessions /\ Loaded(threads, e.session) /\ session' = e.session
      BY <1>0, <1>1, <2>1, EventTypes DEF Reported
    <3>2. seen' = seen \cup TurnsOf(e.session.messages)
      BY <1>0, <2>1 DEF ShownTurns, TurnsOf
    <3>3. TurnsOf(e.session.messages) \subseteq Int
      <4>1. e.session.messages \in Seq(Messages)
        BY <3>1 DEF Sessions
      <4>2. \A i \in DOMAIN e.session.messages : e.session.messages[i] \in Messages
        BY <4>1, LenProperties, ElementOfSeq
      <4>. QED  BY <4>2 DEF TurnsOf, Messages
    <3>4. seen \subseteq Int
      BY <1>1 DEF TermTypes
    <3>. HIDE DEF e
    <3>. QED  BY <3>1, <3>2, <3>3, <3>4 DEF Loaded, Shown, Known
  <2>2. CASE ~e.ok
    BY <1>0, <1>1, <2>2, Session DEF TermTypes
  <2>. QED  BY <2>1, <2>2
<1>4. Deferred => Shown(threads, seen', deferred_store_save.session)
  BY <1>0, <1>3, SeenSame DEF IInv
<1>5. /\ file_job' \in FileJobs /\ deferred_store_save' \in Saves /\ ~Deferred'
      /\ JobKnows(threads, seen', file_job')
  BY <1>0, <1>1, <1>4, Resumed DEF Deferred
<1>6. TermTypes'
  BY <1>0, <1>1, <1>3, <1>5 DEF TermTypes, turnVars, saveVars
<1>7. SaveInv'
  BY <1>0, <1>1, <1>2, SaveResumed DEF Deferred
<1>8. ReportInv' /\ TurnInv'
  BY <1>0, <1>1, <1>2, TurnTaken DEF IInv, ReportInv, turnVars
<1>9. SeenInv'
  BY <1>0, <1>3, <1>5, TailReported DEF SeenInv
<1>. QED  BY <1>0, <1>6, <1>7, <1>8, <1>9, LibrarySame DEF IInv, Types

-----------------------------------------------------------------------------
(* Threads and leaving *)

\* A deletion leaves revision and messages as they are.
LEMMA SoftDeleted ==
    ASSUME Types, NEW t \in ThreadIds, threads[t].revision > 0
    PROVE  LET new == SoftDelete(t) IN
           /\ new \in [ThreadIds -> Rows] /\ Grown(threads, new)
           /\ \A u \in ThreadIds : new[u].revision = 0 => new[u] = Absent
           /\ \A u \in ThreadIds : new[u].messages = threads[u].messages
<1>. DEFINE new == SoftDelete(t)
            r == [threads[t] EXCEPT !.deleted = TRUE]
<1>1. threads \in [ThreadIds -> Rows] /\ threads[t] \in Rows
  BY RowTypes
<1>2. r \in Rows /\ r.revision = threads[t].revision /\ r.messages = threads[t].messages
  BY <1>1 DEF Rows
<1>3. new = [threads EXCEPT ![t] = r]
  BY DEF SoftDelete
<1>. HIDE DEF r, new
<1>4. /\ new \in [ThreadIds -> Rows] /\ new[t] = r
      /\ \A u \in ThreadIds \ {t} : new[u] = threads[u]
  BY <1>1, <1>2, <1>3
<1>5. \A u \in ThreadIds :
         new[u].revision = threads[u].revision /\ new[u].messages = threads[u].messages
  BY <1>2, <1>4
<1>6. \A u \in ThreadIds : new[u].revision = 0 => new[u] = Absent
  BY <1>2, <1>4 DEF Types, LibTypes
<1>. QED  BY <1>4, <1>5, <1>6 DEF Grown, new

\* A step of the terminal that writes threads by itself.
LEMMA ThreadsStep ==
    ASSUME IInv, UNCHANGED <<webVars, turnVars, model_job, history_edit, asked, seen>>,
           threads' \in [ThreadIds -> Rows], Grown(threads, threads'),
           \A u \in ThreadIds : threads'[u].revision = 0 => threads'[u] = Absent,
           session' \in Sessions, Shown(threads', seen, session'), next_conv' \in Nat,
           ui' \in {"open", "leaving", "closing", "saved", "left"},
           file_job' \in FileJobs, deferred_store_save' \in Saves, events' \in Seq(Events),
           stored' \in Nat, failed' \in Nat,
           SaveInv', ReportInv', TurnInv',
           file_job' \in {file_job, NoFile}, deferred_store_save' \in {deferred_store_save, NoSave},
           events' \in {events, <<>>}
    PROVE  IInv'
<1>1. TermTypes'
  BY DEF IInv, Types, TermTypes, turnVars
<1>2. LibTypes' /\ WebInv'
  BY LibraryGrows DEF IInv, Types
<1>3. SeenInv'
  <2>1. /\ Deferred => Shown(threads', seen', deferred_store_save.session)
        /\ JobKnows(threads', seen', file_job)
        /\ \A i \in DOMAIN events : Reported(threads', seen', events[i])
    BY SeenKept DEF IInv
  <2>2. JobKnows(threads', seen', file_job')
    BY <2>1, NoFileJob DEF JobKnows
  <2>3. Deferred' => Shown(threads', seen', deferred_store_save'.session)
    BY <2>1 DEF Deferred
  <2>4. \A i \in DOMAIN events' : Reported(threads', seen', events'[i])
    <3>1. CASE events' = events
      BY <2>1, <3>1
    <3>2. CASE events' = <<>>
      <4>1. DOMAIN events' = {}
        BY <3>2, EmptySeq
      <4>. QED  BY <4>1
    <3>. QED  BY <3>1, <3>2
  <2>. QED  BY <2>2, <2>3, <2>4 DEF SeenInv
<1>. QED  BY <1>1, <1>2, <1>3 DEF IInv, Types

LEMMA RemoveThreadStep ==
    ASSUME IInv, NEW t \in ThreadIds, RemoveThread(t), UNCHANGED webVars
    PROVE  IInv'
<1>1. /\ threads[t].revision > 0 /\ threads' = SoftDelete(t)
      /\ UNCHANGED <<turnVars, model_job, file_job, deferred_store_save, events, ui, history_edit,
                     asked, stored, failed, seen>>
  BY DEF RemoveThread, Live, jobVars, saveVars
<1>2. /\ threads' \in [ThreadIds -> Rows] /\ Grown(threads, threads')
      /\ \A u \in ThreadIds : threads'[u].revision = 0 => threads'[u] = Absent
  BY <1>1, SoftDeleted DEF IInv
<1>3. session' \in Sessions /\ Shown(threads', seen, session') /\ next_conv' \in Nat
  <2>1. CASE t = session.thread
    <3>1. session' = Fresh(next_conv) /\ next_conv' = next_conv + 1
      BY <2>1 DEF RemoveThread
    <3>. QED  BY <3>1, Session, FreshSession, FreshShown
  <2>2. CASE t # session.thread
    <3>1. session' = session /\ next_conv' = next_conv
      BY <2>2 DEF RemoveThread
    <3>. QED  BY <1>1, <1>2, <3>1, Session, SeenKept DEF IInv
  <2>. QED  BY <2>1, <2>2
<1>4. SaveInv' /\ ReportInv' /\ TurnInv'
  BY <1>1, SavesSame, ReportsSame, TurnSame DEF IInv, saveVars, turnVars
<1>5. /\ ui' \in {"open", "leaving", "closing", "saved", "left"}
      /\ file_job' \in FileJobs /\ deferred_store_save' \in Saves /\ events' \in Seq(Events)
      /\ stored' \in Nat /\ failed' \in Nat
  BY <1>1 DEF IInv, Types, TermTypes
<1>. QED  BY <1>1, <1>2, <1>3, <1>4, <1>5, ThreadsStep

LEMMA QuitStep ==
    ASSUME IInv, Quit, UNCHANGED webVars
    PROVE  IInv'
<1>0. /\ ui = "open" /\ ui' = "leaving" /\ model_job' = [model_job EXCEPT !.token = TRUE]
      /\ UNCHANGED <<threads, session, turnVars, file_job, deferred_store_save, events,
                     history_edit, next_conv, saveVars, seen>>
  BY DEF Quit, Open
<1>1. TermTypes
  BY DEF IInv, Types
<1>2. /\ model_job' \in [turn : Nat, running : BOOLEAN, token : BOOLEAN, said : BOOLEAN]
      /\ model_job'.running = model_job.running /\ model_job'.turn = model_job.turn
  BY <1>0, <1>1 DEF TermTypes
<1>3. TermTypes'
  BY <1>0, <1>1, <1>2 DEF TermTypes, turnVars, saveVars
<1>4. SaveInv' /\ ReportInv'
  BY <1>0, SavesSame, ReportsSame DEF IInv
<1>5. TurnInv'
  BY <1>0, <1>2 DEF IInv, TurnInv, TurnHasItsEnd, Ends, turnVars
<1>6. SeenInv'
  BY <1>0, SeenSame DEF IInv, SeenInv, Deferred
<1>. QED  BY <1>0, <1>3, <1>4, <1>5, <1>6, LibrarySame DEF IInv, Types

LEMMA CancelFileJobStep ==
    ASSUME IInv, CancelFileJob, UNCHANGED webVars
    PROVE  IInv'
<1>0. /\ ui = "leaving" /\ ~model_job.running /\ ui' = "closing"
      /\ file_job' = IF Joinable(file_job) THEN [file_job EXCEPT !.token = TRUE] ELSE file_job
      /\ UNCHANGED <<threads, session, turnVars, model_job, deferred_store_save, events,
                     history_edit, next_conv, saveVars, seen>>
  BY DEF CancelFileJob
<1>1. TermTypes /\ file_job \in FileJobs
  BY DEF IInv, Types, TermTypes
<1>2. /\ file_job' \in FileJobs /\ file_job'.kind = file_job.kind
      /\ Joinable(file_job) => /\ file_job'.pushed = file_job.pushed
                               /\ file_job'.session = file_job.session
                               /\ file_job'.kind = "save" => file_job'.save = file_job.save
  <2>1. CASE Joinable(file_job)
    BY <1>0, <1>1, <2>1, JobCancelled
  <2>2. CASE ~Joinable(file_job)
    BY <1>0, <1>1, <2>2
  <2>. QED  BY <2>1, <2>2
<1>3. TermTypes'
  BY <1>0, <1>1, <1>2 DEF TermTypes, turnVars, saveVars
<1>4. SaveInv'
  BY <1>0, <1>2 DEF IInv, SaveInv, Deferred, Joinable, saveVars
<1>5. ReportInv'
  BY <1>0, <1>2 DEF IInv, ReportInv, Reports, Joinable
<1>6. TurnInv'
  BY <1>0 DEF IInv, TurnInv, TurnHasItsEnd, Ends, turnVars
<1>7. SeenInv'
  <2>1. JobKnows(threads', seen', file_job')
    BY <1>0, <1>2 DEF IInv, SeenInv, JobKnows, Joinable
  <2>. QED  BY <1>0, <2>1, SeenSame DEF IInv, SeenInv, Deferred
<1>. QED  BY <1>0, <1>3, <1>4, <1>6, <1>5, <1>7, LibrarySame DEF IInv, Types

\* The save that waited is made, or refused, while the terminal leaves.
LEMMA ExitSaves ==
    ASSUME IInv, SaveAtExit, UNCHANGED webVars,
           NEW s \in Sessions, Shown(threads, seen, s),
           NEW later \in Saves, later = NoSave <=> ~Deferred,
           later # NoSave => /\ later.save = deferred_store_save.save
                             /\ Shown(threads, seen, later.session),
           AtExit(s, later)
    PROVE  IInv'
<1>0. /\ ui = "closing" /\ (Joinable(file_job) => file_job.pushed)
      /\ file_job' = NoFile /\ deferred_store_save' = NoSave /\ events' = <<>> /\ ui' = "saved"
      /\ UNCHANGED <<turnVars, model_job, history_edit, next_conv, asked, seen>>
  BY DEF SaveAtExit
<1>1. /\ Types /\ threads \in [ThreadIds -> Rows] /\ next_conv' \in Nat
      /\ stored \in Nat /\ failed \in Nat
  BY <1>0 DEF IInv, Types, TermTypes, LibTypes
<1>2. Deferred => later.save = asked /\ later.save \in Nat
  BY DEF IInv, SaveInv, Saves
<1>3. ~Deferred => asked \in {0, stored, failed}
  BY <1>0 DEF IInv, SaveInv, Joinable
<1>4. /\ threads' \in [ThreadIds -> Rows] /\ Grown(threads, threads')
      /\ \A u \in ThreadIds : threads'[u].revision = 0 => threads'[u] = Absent
      /\ session' \in Sessions /\ Shown(threads', seen, session')
      /\ stored' \in Nat /\ failed' \in Nat /\ asked \in {0, stored', failed'}
  <2>1. CASE later = NoSave \/ UNCHANGED threads
    <3>1. /\ session' = s /\ UNCHANGED threads /\ stored' \in Nat /\ failed' \in Nat
          /\ asked \in {0, stored', failed'}
      <4>1. CASE later = NoSave
        BY <1>1, <1>3, <4>1 DEF AtExit
      <4>2. CASE later # NoSave /\ failed' = later.save /\ session' = s /\ UNCHANGED <<threads, stored>>
        BY <1>1, <1>2, <4>2
      <4>3. CASE later # NoSave /\ CanSave(later.session) /\ threads' = SaveSession(later.session)
        <5>1. later.session \in Sessions
          BY <4>3 DEF Saves
        <5>2. SaveSession(later.session) # threads
          <6>. DEFINE r == Stored(later.session)
          <6>1. /\ r.thread \in ThreadIds
                /\ SaveSession(later.session)[r.thread].revision = threads[r.thread].revision + 1
            BY <1>1, <4>3, <5>1, Saved
          <6>. HIDE DEF r
          <6>2. threads[r.thread].revision \in Nat
            BY <1>1, <6>1 DEF Rows
          <6>. QED  BY <6>1, <6>2
        <5>. QED  BY <2>1, <4>3, <5>2
      <4>. QED  BY <4>1, <4>2, <4>3 DEF AtExit
    <3>2. \A u \in ThreadIds : threads'[u].revision = 0 => threads'[u] = Absent
      BY <1>1, <3>1 DEF Types, LibTypes
    <3>. QED  BY <1>1, <3>1, <3>2, Unchanged
  <2>2. CASE /\ later # NoSave /\ CanSave(later.session) /\ threads' = SaveSession(later.session)
             /\ session' = InRow(s, Stored(later.session).thread, Stored(later.session).revision)
             /\ stored' = later.save /\ UNCHANGED failed
    <3>. DEFINE r == Stored(later.session)
    <3>1. later.session \in Sessions /\ Shown(threads, seen, later.session)
      BY <2>2 DEF Saves
    <3>2. r \in Sessions /\ r.thread # NoThread /\ Known(threads', seen, r)
      BY <1>1, <2>2, <3>1, SaveShown
    <3>3. /\ Grown(threads, threads') /\ threads' \in [ThreadIds -> Rows]
          /\ \A u \in ThreadIds : threads'[u].revision = 0 => threads'[u] = Absent
      BY <1>1, <2>2, <3>1, SaveGrows
    <3>4. session' = InRow(s, r.thread, r.revision)
      BY <2>2
    <3>. HIDE DEF r
    <3>5. r.thread \in ThreadIds \cup {NoThread} /\ r.revision \in Nat
      BY <3>2 DEF Sessions
    <3>6. /\ session' \in Sessions /\ session'.messages = s.messages
          /\ session'.thread = r.thread /\ session'.revision = r.revision
      BY <3>4, <3>5, WithRow
    <3>7. Shown(threads', seen, session')
      BY <3>2, <3>6 DEF Shown, Known, Held, Current
    <3>. QED  BY <1>1, <1>2, <2>2, <3>3, <3>6, <3>7 DEF Deferred
  <2>. QED  BY <2>1, <2>2 DEF AtExit
<1>5. SaveInv'
  BY <1>0, <1>4, NoFileJob DEF SaveInv, Deferred
<1>6. ReportInv'
  <2>1. DOMAIN events' = {}
    BY <1>0, EmptySeq
  <2>. QED  BY <2>1 DEF ReportInv, Reports
<1>7. TurnInv'
  BY <1>0 DEF IInv, TurnInv, TurnHasItsEnd
<1>8. /\ ui' \in {"open", "leaving", "closing", "saved", "left"}
      /\ file_job' \in FileJobs /\ deferred_store_save' \in Saves /\ events' \in Seq(Events)
  BY <1>0, NoFileJob, EmptySeq DEF Saves
<1>. QED  BY <1>0, <1>1, <1>4, <1>5, <1>6, <1>7, <1>8, ThreadsStep

\* What the last events say of a save is known, and the save that waited is
\* of the thread they name.
LEMMA ExitKnows ==
    ASSUME IInv, SaveAtExit
    PROVE  \E s \in Sessions, later \in Saves :
              /\ Shown(threads, seen, s)
              /\ later = NoSave <=> ~Deferred
              /\ later # NoSave => /\ later.save = deferred_store_save.save
                                   /\ Shown(threads, seen, later.session)
              /\ AtExit(s, later)
<1>1. /\ deferred_store_save \in Saves /\ events \in Seq(Events)
      /\ Deferred => Shown(threads, seen, deferred_store_save.session)
  BY DEF IInv, Types, TermTypes, SeenInv
<1>2. CASE AtExit(session, deferred_store_save)
  BY <1>1, <1>2, Session DEF Deferred
<1>3. ASSUME NEW e \in SavedEvents,
             AtExit(AfterSave(session, e.session), Patched(deferred_store_save, session, e.session))
      PROVE  \E s \in Sessions, later \in Saves :
                /\ Shown(threads, seen, s)
                /\ later = NoSave <=> ~Deferred
                /\ later # NoSave => /\ later.save = deferred_store_save.save
                                     /\ Shown(threads, seen, later.session)
                /\ AtExit(s, later)
  <2>. DEFINE s == AfterSave(session, e.session)
              p == Patched(deferred_store_save, session, e.session)
  <2>1. PICK i \in DOMAIN events : e = events[i]
    BY <1>1 DEF SavedEvents, Range
  <2>2. e \in Events /\ Reported(threads, seen, e) /\ e.type = "saved" /\ e.ok
    BY <1>1, <2>1, LenProperties, ElementOfSeq DEF SavedEvents, IInv, SeenInv
  <2>3. e.session \in Sessions /\ Known(threads, seen, e.session)
    BY <2>2, EventTypes DEF Reported, Reporting
  <2>4. s \in Sessions /\ Shown(threads, seen, s)
    BY <2>3, Session, Adopted
  <2>5. /\ p \in Saves /\ (p = NoSave <=> deferred_store_save = NoSave)
        /\ p # NoSave => p.save = deferred_store_save.save
        /\ p # NoSave => Shown(threads, seen, p.session)
    BY <1>1, <2>3, Session, PatchedSave DEF Deferred
  <2>6. AtExit(s, p)
    BY <1>3
  <2>. HIDE DEF s, p
  <2>. QED  BY <2>4, <2>5, <2>6 DEF Deferred
<1>. QED  BY <1>2, <1>3 DEF SaveAtExit

LEMMA SaveAtExitStep ==
    ASSUME IInv, SaveAtExit, UNCHANGED webVars
    PROVE  IInv'
BY ExitKnows, ExitSaves

LEMMA RemoveEmptyThreadStep ==
    ASSUME IInv, RemoveEmptyThread, UNCHANGED webVars
    PROVE  IInv'
<1>1. /\ ui = "saved" /\ ui' = "left"
      /\ UNCHANGED <<session, turnVars, jobVars, model_job, file_job, deferred_store_save, events,
                     history_edit, next_conv, saveVars, asked, stored, failed, seen>>
  BY DEF RemoveEmptyThread, jobVars, saveVars
<1>2. /\ threads' \in [ThreadIds -> Rows] /\ Grown(threads, threads')
      /\ \A u \in ThreadIds : threads'[u].revision = 0 => threads'[u] = Absent
  <2>1. CASE threads' = threads
    BY <2>1, Unchanged DEF IInv, Types, LibTypes
  <2>2. CASE session.thread # NoThread /\ threads' = SoftDelete(session.thread)
    <3>1. session.thread \in ThreadIds /\ session.revision \in 1..threads[session.thread].revision
      BY <2>2, Session DEF Sessions, Shown, Known, Held
    <3>2. threads[session.thread].revision \in Nat
      BY <3>1 DEF IInv, Types, LibTypes, Rows
    <3>3. threads[session.thread].revision > 0
      BY <3>1, <3>2
    <3>. QED  BY <2>2, <3>1, <3>3, SoftDeleted DEF IInv
  <2>. QED  BY <2>1, <2>2 DEF RemoveEmptyThread
<1>3. session' \in Sessions /\ Shown(threads', seen, session') /\ next_conv' \in Nat
  BY <1>1, <1>2, Session, SeenKept DEF IInv
<1>4. SaveInv' /\ ReportInv'
  BY <1>1, SavesSame, ReportsSame DEF IInv
<1>5. TurnInv'
  BY <1>1 DEF IInv, TurnInv, TurnHasItsEnd
<1>6. /\ ui' \in {"open", "leaving", "closing", "saved", "left"}
      /\ file_job' \in FileJobs /\ deferred_store_save' \in Saves /\ events' \in Seq(Events)
      /\ stored' \in Nat /\ failed' \in Nat
  BY <1>1 DEF IInv, Types, TermTypes
<1>. QED  BY <1>1, <1>2, <1>3, <1>4, <1>5, <1>6, ThreadsStep

-----------------------------------------------------------------------------
(* The browser *)

\* What the browser does to the threads leaves the terminal's part alone.
LEMMA WebStep ==
    ASSUME IInv, UNCHANGED chatVars,
           threads' \in [ThreadIds -> Rows], Grown(threads, threads'), LibTypes', WebInv'
    PROVE  IInv'
<1>1. UNCHANGED <<session, pending, active_job, regenerate_after_cancel, next_turn, model_job,
                  file_job, deferred_store_save, events, ui, history_edit, next_conv, asked,
                  stored, failed, seen>>
  BY DEF chatVars, turnVars, jobVars, saveVars
<1>2. TermTypes'
  BY <1>1 DEF IInv, Types, TermTypes
<1>3. SaveInv' /\ ReportInv' /\ TurnInv'
  BY <1>1, SavesSame, ReportsSame, TurnSame DEF IInv, saveVars
<1>4. SeenInv'
  BY <1>1, SeenKept DEF IInv, SeenInv, Deferred
<1>. QED  BY <1>2, <1>3, <1>4 DEF IInv, Types

\* A thread changes, its revision is raised by one, and the browser, which was
\* shown what it wrote, gets the revision.
LEMMA WebWrites ==
    ASSUME IInv, UNCHANGED chatVars, NEW t \in ThreadIds,
           threads' \in [ThreadIds -> Rows],
           threads'[t].revision = threads[t].revision + 1,
           \A u \in ThreadIds \ {t} : threads'[u] = threads[u],
           web_seen' \in [ThreadIds -> SUBSET Int],
           \A u \in ThreadIds : web_seen[u] \subseteq web_seen'[u],
           TurnsOf(threads'[t].messages) \subseteq web_seen'[t],
           Served, Wrote(t), cleaning' = cleaning, requests' \in Nat
    PROVE  IInv'
<1>1. \A u \in ThreadIds : threads[u].revision \in Nat /\ threads'[u].revision \in Nat
  BY DEF IInv, Types, LibTypes, Rows
<1>2. /\ web_revision' = [web_revision EXCEPT ![t] = threads'[t].revision]
      /\ web_wrote' = [web_wrote EXCEPT ![t] = threads'[t].revision]
      /\ web_revision \in [ThreadIds -> Nat] /\ web_wrote \in [ThreadIds -> Nat]
  BY DEF Wrote, IInv, Types, LibTypes
<1>3. /\ web_revision' \in [ThreadIds -> Nat] /\ web_wrote' \in [ThreadIds -> Nat]
      /\ web_revision'[t] = threads'[t].revision /\ web_wrote'[t] = threads'[t].revision
      /\ \A u \in ThreadIds \ {t} : web_revision'[u] = web_revision[u] /\ web_wrote'[u] = web_wrote[u]
  BY <1>1, <1>2
<1>4. Grown(threads, threads')
  BY <1>1 DEF Grown
<1>5. \A u \in ThreadIds : threads'[u].revision = 0 => threads'[u] = Absent
  BY <1>1 DEF IInv, Types, LibTypes
<1>6. LibTypes'
  BY <1>3, <1>5 DEF IInv, Types, LibTypes
<1>7. cleaning' = {}
  BY DEF Served
<1>8. ASSUME NEW u \in ThreadIds
      PROVE  /\ web_revision'[u] <= threads'[u].revision
             /\ web_wrote'[u] <= threads'[u].revision
             /\ web_revision'[u] = threads'[u].revision
                  => TurnsOf(threads'[u].messages) \subseteq web_seen'[u]
  <2>1. CASE u = t
    BY <1>1, <1>3, <2>1
  <2>2. CASE u # t
    <3>1. threads'[u] = threads[u] /\ web_revision'[u] = web_revision[u]
          /\ web_wrote'[u] = web_wrote[u] /\ web_seen[u] \subseteq web_seen'[u]
      BY <1>3, <2>2
    <3>2. /\ web_revision[u] <= threads[u].revision
          /\ web_wrote[u] <= threads[u].revision
          /\ web_revision[u] = threads[u].revision
               => TurnsOf(threads[u].messages) \subseteq web_seen[u]
      BY DEF IInv, WebInv
    <3>. QED  BY <3>1, <3>2
  <2>. QED  BY <2>1, <2>2
<1>9. WebInv'
  BY <1>7, <1>8 DEF WebInv
<1>. QED  BY <1>4, <1>6, <1>9, WebStep

LEMMA WebLoadStep ==
    ASSUME IInv, NEW t \in ThreadIds, WebLoad(t), requests' \in Nat, UNCHANGED chatVars
    PROVE  IInv'
<1>1. /\ UNCHANGED <<threads, web_wrote, cleaning>>
      /\ web_revision' = [web_revision EXCEPT ![t] = threads[t].revision]
      /\ web_seen' = [web_seen EXCEPT ![t] = @ \cup TurnsOf(threads[t].messages)]
  BY DEF WebLoad
<1>2. LibTypes /\ threads[t] \in Rows
  BY DEF IInv, Types, LibTypes
<1>3. threads[t].revision \in Nat /\ TurnsOf(threads[t].messages) \subseteq Int
  <2>1. threads[t].messages \in Seq(Messages)
    BY <1>2 DEF Rows
  <2>2. \A i \in DOMAIN threads[t].messages : threads[t].messages[i] \in Messages
    BY <2>1, LenProperties, ElementOfSeq
  <2>. QED  BY <1>2, <2>2 DEF TurnsOf, Messages, Rows
<1>4. /\ web_revision' \in [ThreadIds -> Nat] /\ web_seen' \in [ThreadIds -> SUBSET Int]
      /\ web_revision'[t] = threads[t].revision
      /\ TurnsOf(threads[t].messages) \subseteq web_seen'[t]
      /\ \A u \in ThreadIds \ {t} : web_revision'[u] = web_revision[u] /\ web_seen'[u] = web_seen[u]
  BY <1>1, <1>2, <1>3 DEF LibTypes
<1>5. LibTypes'
  BY <1>1, <1>2, <1>4 DEF LibTypes
<1>6. WebInv'
  BY <1>1, <1>3, <1>4 DEF IInv, WebInv
<1>. QED  BY <1>1, <1>2, <1>5, <1>6, Unchanged, WebStep DEF LibTypes

\* A message whose text the browser replaces is of the browser's turn.
LEMMA Retold ==
    ASSUME NEW m \in Seq(Messages), NEW i \in DOMAIN m, NEW n \in Int
    PROVE  LET r == [m EXCEPT ![i].turn = n, ![i].by = {n}]
           IN  r \in Seq(Messages) /\ TurnsOf(r) \subseteq TurnsOf(m) \cup {n}
<1>. DEFINE x == [[m[i] EXCEPT !.turn = n] EXCEPT !.by = {n}]
            r == [m EXCEPT ![i] = x]
<1>1. i \in 1..Len(m) /\ m[i] \in Messages /\ DOMAIN m = 1..Len(m)
  BY LenProperties, ElementOfSeq
<1>2. x \in Messages /\ x.turn = n
  BY <1>1 DEF Messages
<1>3. r = [m EXCEPT ![i].turn = n, ![i].by = {n}]
  <2>. DEFINE q == [m EXCEPT ![i].turn = n]
  <2>1. q[i] = [m[i] EXCEPT !.turn = n]
    OBVIOUS
  <2>2. [m EXCEPT ![i].turn = n, ![i].by = {n}] = [q EXCEPT ![i].by = {n}]
    OBVIOUS
  <2>. QED  BY <2>1, <2>2
<1>. HIDE DEF x
<1>4. r \in Seq(Messages) /\ Len(r) = Len(m) /\ \A j \in 1..Len(m) : r[j] = IF j = i THEN x ELSE m[j]
  BY <1>1, <1>2, ExceptSeq
<1>5. DOMAIN r = DOMAIN m
  OBVIOUS
<1>. HIDE DEF r
<1>6. \A j \in DOMAIN r : r[j].turn \in {m[j].turn, n}
  BY <1>1, <1>2, <1>4, <1>5
<1>. QED  BY <1>3, <1>4, <1>5, <1>6 DEF TurnsOf

\* What append_messages makes of a row.
LEMMA Appended ==
    ASSUME threads \in [ThreadIds -> Rows], NEW t \in ThreadIds, NEW x,
           threads[t].messages \o x \in Seq(Messages)
    PROVE  LET new == AppendMessages(t, x) IN
           /\ new \in [ThreadIds -> Rows]
           /\ new[t].revision = threads[t].revision + 1
           /\ new[t].messages = threads[t].messages \o x
           /\ \A u \in ThreadIds \ {t} : new[u] = threads[u]
<1>. DEFINE row == [[threads[t] EXCEPT !.messages = @ \o x] EXCEPT !.revision = @ + 1]
            new == [threads EXCEPT ![t] = row]
<1>1. threads[t] \in Rows /\ threads[t].revision \in Nat
  BY DEF Rows
<1>2. /\ row \in Rows /\ row.revision = threads[t].revision + 1
      /\ row.messages = threads[t].messages \o x
  <2>. DEFINE y == threads[t].messages \o x
              q == [threads[t] EXCEPT !.messages = y]
  <2>. HIDE DEF y
  <2>1. q \in Rows /\ q.revision = threads[t].revision /\ q.messages = y
    BY <1>1 DEF Rows, y
  <2>. HIDE DEF q
  <2>. DEFINE n == threads[t].revision + 1
              p == [q EXCEPT !.revision = n]
  <2>2. n \in Nat
    BY <1>1
  <2>. HIDE DEF n
  <2>3. p \in Rows /\ p.revision = n /\ p.messages = y
    BY <2>1, <2>2 DEF Rows
  <2>4. p = [q EXCEPT !.revision = @ + 1]
    BY <2>1 DEF n
  <2>. HIDE DEF p
  <2>5. row = p
    BY <2>4 DEF q, y
  <2>. QED  BY <2>3, <2>5 DEF n, y
<1>3. AppendMessages(t, x) = new
  <2>. DEFINE q == [threads EXCEPT ![t].messages = @ \o x]
  <2>1. q[t] = [threads[t] EXCEPT !.messages = @ \o x]
    OBVIOUS
  <2>2. AppendMessages(t, x) = [q EXCEPT ![t].revision = @ + 1]
    BY DEF AppendMessages
  <2>. QED  BY <2>1, <2>2
<1>. HIDE DEF row
<1>. QED  BY <1>2, <1>3

\* A row that the browser may write is in the table, and the browser was
\* shown its messages.
LEMMA WebKnows ==
    ASSUME IInv, NEW t \in ThreadIds, CurrentFor(t, web_revision[t])
    PROVE  /\ threads[t] \in Rows /\ threads[t].revision > 0 /\ threads[t].messages \in Seq(Messages)
           /\ Writable(t) /\ web_revision[t] = threads[t].revision
           /\ TurnsOf(threads[t].messages) \subseteq web_seen[t]
           /\ -(requests + 1) \in Int /\ web_seen \in [ThreadIds -> SUBSET Int]
<1>1. threads[t] \in Rows /\ requests \in Nat /\ web_seen \in [ThreadIds -> SUBSET Int]
  BY DEF IInv, Types, LibTypes
<1>2. /\ threads[t].revision > 0 /\ Writable(t) /\ web_revision[t] = threads[t].revision
      /\ TurnsOf(threads[t].messages) \subseteq web_seen[t]
  BY DEF CurrentFor, Writable, Live, IInv, WebInv
<1>. QED  BY <1>1, <1>2 DEF Rows

\* What a request writes by save_session.
LEMMA WebSaves ==
    ASSUME IInv, UNCHANGED chatVars, NEW s \in Sessions, CanSave(s), NEW t, t = Stored(s).thread,
           threads' = SaveSession(s),
           web_seen' \in [ThreadIds -> SUBSET Int],
           \A u \in ThreadIds : web_seen[u] \subseteq web_seen'[u],
           TurnsOf(s.messages) \subseteq web_seen'[t],
           Served, Wrote(t), cleaning' = cleaning, requests' \in Nat
    PROVE  IInv'
<1>. DEFINE r == Stored(s)
<1>1. /\ r.thread \in ThreadIds /\ threads' \in [ThreadIds -> Rows]
      /\ threads'[r.thread].revision = threads[r.thread].revision + 1
      /\ threads'[r.thread].messages = s.messages
      /\ \A u \in ThreadIds \ {r.thread} : threads'[u] = threads[u]
  BY Saved DEF IInv
<1>2. r.thread = t
  OBVIOUS
<1>. HIDE DEF r
<1>. QED  BY <1>1, <1>2, WebWrites

LEMMA WebCreateStep ==
    ASSUME IInv, WebCreate, requests' \in Nat, UNCHANGED chatVars
    PROVE  IInv'
<1>. DEFINE s == Fresh(0)
<1>1. /\ Served /\ CanSave(s) /\ threads' = SaveSession(s) /\ Wrote(NewId)
      /\ UNCHANGED <<web_seen, cleaning>>
  BY DEF WebCreate
<1>2. s \in Sessions /\ s.thread = NoThread /\ TurnsOf(s.messages) = {}
  BY FreshSession
<1>. HIDE DEF s
<1>3. Stored(s).thread = NewId
  <2>1. Stored(s) = InRow(s, NewId, 1) /\ FreeIds # {}
    BY <1>1, <1>2 DEF Stored, CanSave
  <2>2. NewId \in ThreadIds \cup {NoThread}
    BY <2>1, NewIds DEF IInv
  <2>. QED  BY <1>2, <2>1, <2>2, WithRow
<1>4. web_seen' \in [ThreadIds -> SUBSET Int] /\ \A u \in ThreadIds : web_seen[u] \subseteq web_seen'[u]
  BY <1>1 DEF IInv, Types, LibTypes
<1>. QED  BY <1>1, <1>2, <1>3, <1>4, WebSaves

\* delete_message, rewind_last_answer and edit_message save a thread ...
LEMMA RewriteSaves ==
    ASSUME IInv, NEW t \in ThreadIds, NEW m \in Seq(Messages), Rewrite(t, m),
           CurrentFor(t, web_revision[t])
    PROVE  /\ threads' \in [ThreadIds -> Rows]
           /\ threads'[t].revision = threads[t].revision + 1 /\ threads'[t].messages = m
           /\ \A u \in ThreadIds \ {t} : threads'[u] = threads[u]
<1>. DEFINE s == [thread |-> t, revision |-> web_revision[t], conv |-> threads[t].conv,
                  read_only |-> FALSE, messages |-> m]
<1>1. threads[t] \in Rows /\ Writable(t) /\ web_revision[t] = threads[t].revision
  BY WebKnows
<1>2. 0 \notin ThreadIds /\ NoThread = 0
  BY RowTypes DEF IInv
<1>3. threads[t].conv \in Nat /\ threads[t].revision \in Nat
  BY <1>1 DEF Rows
<1>4. /\ s \in Sessions /\ s.thread = t /\ s.thread # NoThread /\ s.messages = m
      /\ s.revision = threads[t].revision
  BY <1>1, <1>2, <1>3 DEF Sessions
<1>5. threads' = SaveSession(s)
  BY DEF Rewrite
<1>. HIDE DEF s
<1>6. CanSave(s)
  BY <1>1, <1>4 DEF CanSave
<1>7. Stored(s).thread = t
  <2>1. Stored(s) = InRow(s, t, threads[t].revision + 1)
    BY <1>4 DEF Stored
  <2>2. t \in ThreadIds \cup {NoThread} /\ threads[t].revision + 1 \in Nat
    BY <1>3
  <2>. QED  BY <1>4, <2>1, <2>2, WithRow
<1>. DEFINE r == Stored(s)
<1>8. /\ threads' \in [ThreadIds -> Rows]
      /\ threads'[r.thread].revision = threads[r.thread].revision + 1
      /\ threads'[r.thread].messages = s.messages
      /\ \A u \in ThreadIds \ {r.thread} : threads'[u] = threads[u]
  BY <1>4, <1>5, <1>6, Saved DEF IInv
<1>9. r.thread = t
  BY <1>7
<1>. HIDE DEF r
<1>. QED  BY <1>4, <1>8, <1>9

\* ... of messages the browser was shown.
LEMMA RewriteStep ==
    ASSUME IInv, UNCHANGED chatVars, NEW t \in ThreadIds, NEW m \in Seq(Messages), Rewrite(t, m),
           CurrentFor(t, web_revision[t]),
           web_seen' \in [ThreadIds -> SUBSET Int],
           \A u \in ThreadIds : web_seen[u] \subseteq web_seen'[u],
           TurnsOf(m) \subseteq web_seen'[t],
           Served, Wrote(t), cleaning' = cleaning, requests' \in Nat
    PROVE  IInv'
BY RewriteSaves, WebWrites

LEMMA WebRewindStep ==
    ASSUME IInv, NEW t \in ThreadIds, WebRewind(t), requests' \in Nat, UNCHANGED chatVars
    PROVE  IInv'
<1>1. /\ Served /\ CurrentFor(t, web_revision[t]) /\ Wrote(t)
      /\ UNCHANGED <<web_seen, cleaning>>
  BY DEF WebRewind
<1>2. PICK n \in 0..(Len(threads[t].messages) - 1) :
          Rewrite(t, SubSeq(threads[t].messages, 1, n))
  BY DEF WebRewind
<1>3. /\ threads[t].messages \in Seq(Messages) /\ web_seen \in [ThreadIds -> SUBSET Int]
      /\ TurnsOf(threads[t].messages) \subseteq web_seen[t]
  BY <1>1, WebKnows
<1>. DEFINE m == SubSeq(threads[t].messages, 1, n)
<1>4. m \in Seq(Messages) /\ TurnsOf(m) \subseteq web_seen[t]
  <2>1. n \in Int /\ n <= Len(threads[t].messages)
    BY <1>2, <1>3, LenProperties
  <2>. QED  BY <1>3, <2>1, Cut
<1>5. Rewrite(t, m)
  BY <1>2
<1>. HIDE DEF m
<1>. QED  BY <1>1, <1>3, <1>4, <1>5, RewriteStep

LEMMA WebEditStep ==
    ASSUME IInv, NEW t \in ThreadIds, WebEdit(t), requests' \in Nat, UNCHANGED chatVars
    PROVE  IInv'
<1>1. /\ Served /\ CurrentFor(t, web_revision[t]) /\ Wrote(t) /\ cleaning' = cleaning
      /\ web_seen' = [web_seen EXCEPT ![t] = @ \cup {WebTurn}]
  BY DEF WebEdit
<1>2. PICK i \in DOMAIN threads[t].messages :
          Rewrite(t, [threads[t].messages EXCEPT ![i].turn = WebTurn, ![i].by = {WebTurn}])
  BY DEF WebEdit
<1>3. /\ threads[t].messages \in Seq(Messages) /\ web_seen \in [ThreadIds -> SUBSET Int]
      /\ TurnsOf(threads[t].messages) \subseteq web_seen[t] /\ WebTurn \in Int
  BY <1>1, WebKnows DEF WebTurn
<1>. DEFINE m == [threads[t].messages EXCEPT ![i].turn = WebTurn, ![i].by = {WebTurn}]
<1>4. m \in Seq(Messages) /\ TurnsOf(m) \subseteq TurnsOf(threads[t].messages) \cup {WebTurn}
  BY <1>2, <1>3, Retold
<1>5. /\ web_seen' \in [ThreadIds -> SUBSET Int]
      /\ \A u \in ThreadIds : web_seen[u] \subseteq web_seen'[u]
      /\ web_seen'[t] = web_seen[t] \cup {WebTurn}
  BY <1>1, <1>3
<1>6. Rewrite(t, m)
  BY <1>2
<1>. HIDE DEF m
<1>. QED  BY <1>1, <1>3, <1>4, <1>5, <1>6, RewriteStep

LEMMA AppendSaves ==
    ASSUME IInv, NEW t \in ThreadIds, WebAppend(t)
    PROVE  /\ threads' \in [ThreadIds -> Rows]
           /\ threads'[t].revision = threads[t].revision + 1
           /\ TurnsOf(threads'[t].messages) \subseteq TurnsOf(threads[t].messages) \cup {WebTurn}
           /\ \A u \in ThreadIds \ {t} : threads'[u] = threads[u]
<1>. DEFINE x == [role |-> "user", turn |-> WebTurn, by |-> {WebTurn}]
            m == threads[t].messages \o <<x>>
            new == AppendMessages(t, <<x>>)
<1>1. CurrentFor(t, web_revision[t]) /\ threads' = new
  BY DEF WebAppend
<1>2. threads[t].messages \in Seq(Messages) /\ WebTurn \in Int
  BY <1>1, WebKnows DEF WebTurn
<1>3. <<x>> \in Seq(Messages) /\ TurnsOf(<<x>>) = {WebTurn}
  <2>1. x \in Messages /\ x.turn = WebTurn
    BY <1>2 DEF Messages
  <2>. HIDE DEF x
  <2>2. <<x>> \in Seq(Messages) /\ DOMAIN <<x>> = {1} /\ <<x>>[1] = x
    BY <2>1
  <2>. QED  BY <2>1, <2>2 DEF TurnsOf
<1>. HIDE DEF x
<1>4. m \in Seq(Messages) /\ TurnsOf(m) \subseteq TurnsOf(threads[t].messages) \cup {WebTurn}
  BY <1>2, <1>3, Joined
<1>5. threads \in [ThreadIds -> Rows]
  BY RowTypes DEF IInv
<1>6. /\ new \in [ThreadIds -> Rows]
      /\ new[t].revision = threads[t].revision + 1 /\ new[t].messages = m
      /\ \A u \in ThreadIds \ {t} : new[u] = threads[u]
  BY <1>4, <1>5, Appended
<1>. HIDE DEF m, new
<1>. QED  BY <1>1, <1>4, <1>6

LEMMA WebAppendStep ==
    ASSUME IInv, NEW t \in ThreadIds, WebAppend(t), requests' \in Nat, UNCHANGED chatVars
    PROVE  IInv'
<1>1. /\ Served /\ CurrentFor(t, web_revision[t]) /\ Wrote(t) /\ cleaning' = cleaning
      /\ web_seen' = [web_seen EXCEPT ![t] = @ \cup {WebTurn}]
  BY DEF WebAppend
<1>2. /\ web_seen \in [ThreadIds -> SUBSET Int] /\ WebTurn \in Int
      /\ TurnsOf(threads[t].messages) \subseteq web_seen[t]
  BY <1>1, WebKnows DEF WebTurn
<1>3. /\ web_seen' \in [ThreadIds -> SUBSET Int]
      /\ \A u \in ThreadIds : web_seen[u] \subseteq web_seen'[u]
      /\ web_seen'[t] = web_seen[t] \cup {WebTurn}
  BY <1>1, <1>2
<1>. QED  BY <1>1, <1>2, <1>3, AppendSaves, WebWrites

\* remove, abandon and one deletion of cleanup_empty.
LEMMA WebDeletes ==
    ASSUME IInv, UNCHANGED chatVars, NEW t \in ThreadIds, threads[t].revision > 0,
           threads' = SoftDelete(t), UNCHANGED <<web_revision, web_seen, web_wrote>>,
           cleaning' \subseteq cleaning, requests' \in Nat
    PROVE  IInv'
<1>1. /\ threads' \in [ThreadIds -> Rows] /\ Grown(threads, threads')
      /\ \A u \in ThreadIds : threads'[u].revision = 0 => threads'[u] = Absent
      /\ \A u \in ThreadIds : threads'[u].messages = threads[u].messages
  BY SoftDeleted DEF IInv
<1>2. LibTypes'
  BY <1>1 DEF IInv, Types, LibTypes
<1>3. WebInv'
  <2>1. \A u \in ThreadIds : threads[u].revision \in Nat /\ threads'[u].revision \in Nat
                             /\ web_revision[u] \in Nat /\ web_wrote[u] \in Nat
    BY <1>1 DEF IInv, Types, LibTypes, Rows
  <2>2. \A u \in ThreadIds :
          \/ threads'[u].revision > threads[u].revision
          \/ threads'[u].revision = threads[u].revision
    BY <1>1 DEF Grown
  <2>3. ASSUME NEW u \in ThreadIds
        PROVE  /\ web_revision[u] <= threads'[u].revision
               /\ web_wrote[u] <= threads'[u].revision
               /\ web_revision[u] = threads'[u].revision
                    => TurnsOf(threads'[u].messages) \subseteq web_seen[u]
               /\ u \in cleaning' => threads'[u].revision > 0
    <3>1. /\ web_revision[u] <= threads[u].revision
          /\ web_wrote[u] <= threads[u].revision
          /\ web_revision[u] = threads[u].revision
               => TurnsOf(threads[u].messages) \subseteq web_seen[u]
          /\ u \in cleaning => threads[u].revision > 0
      BY DEF IInv, WebInv
    <3>2. threads'[u].messages = threads[u].messages
      BY <1>1
    <3>3. threads'[u].revision >= threads[u].revision
      BY <2>1, <2>2
    <3>4. web_revision[u] = threads'[u].revision => web_revision[u] = threads[u].revision
      BY <2>1, <3>1, <3>3
    <3>. QED  BY <2>1, <3>1, <3>2, <3>3, <3>4
  <2>. QED  BY <2>3 DEF WebInv
<1>. QED  BY <1>1, <1>2, <1>3, WebStep

LEMMA WebRemoveStep ==
    ASSUME IInv, NEW t \in ThreadIds, WebRemove(t), requests' \in Nat, UNCHANGED chatVars
    PROVE  IInv'
<1>1. /\ CurrentFor(t, web_revision[t]) /\ threads' = SoftDelete(t)
      /\ UNCHANGED <<web_revision, web_seen, web_wrote, cleaning>>
  BY DEF WebRemove
<1>2. threads[t].revision > 0
  BY <1>1, WebKnows
<1>. QED  BY <1>1, <1>2, WebDeletes

LEMMA CleanupDeleteStep ==
    ASSUME IInv, CleanupDelete, requests' \in Nat, UNCHANGED chatVars
    PROVE  IInv'
<1>1. PICK t \in cleaning : threads' = SoftDelete(t) /\ cleaning' = cleaning \ {t}
  BY DEF CleanupDelete
<1>2. t \in ThreadIds /\ threads[t].revision > 0
  BY DEF IInv, Types, LibTypes, WebInv
<1>. QED  BY <1>1, <1>2, WebDeletes DEF CleanupDelete

LEMMA WebCleanupStep ==
    ASSUME IInv, NEW keep, WebCleanup(keep), requests' \in Nat, UNCHANGED chatVars
    PROVE  IInv'
<1>1. /\ cleaning' = EmptyThreads \ {keep}
      /\ UNCHANGED <<threads, web_revision, web_seen, web_wrote>>
  BY DEF WebCleanup
<1>2. /\ cleaning' \subseteq ThreadIds
      /\ \A t \in cleaning' : threads[t].revision > 0
  BY <1>1 DEF EmptyThreads, Writable, Live
<1>3. LibTypes' /\ WebInv'
  BY <1>1, <1>2 DEF IInv, Types, LibTypes, WebInv
<1>4. threads' \in [ThreadIds -> Rows] /\ Grown(threads, threads')
  BY <1>1, Unchanged DEF IInv, Types, LibTypes
<1>. QED  BY <1>3, <1>4, WebStep

-----------------------------------------------------------------------------
(* The invariant *)

LEMMA InitStep == Init => IInv
<1>. SUFFICES ASSUME Init PROVE IInv
  OBVIOUS
<1>. DEFINE w == Written(0)
            row == [revision |-> 1, deleted |-> FALSE, conv |-> 1, messages |-> w]
<1>1. /\ threads = [t \in ThreadIds |-> IF t = 1 \/ t \in ReadOnly THEN row ELSE Absent]
      /\ ChatInit /\ WebInit
  BY DEF Init
<1>2. w \in Seq(Messages)
  <2>. DEFINE x == Prompt(0)
              y == [Answer(0) EXCEPT !.by = {0}]
  <2>1. x \in Messages /\ y \in Messages
    BY DEF Prompt, Answer, Messages
  <2>2. w = <<x, y>>
    BY DEF Written
  <2>. HIDE DEF x, y, w
  <2>. QED  BY <2>1, <2>2
<1>3. <<>> \in Seq(Messages) /\ DOMAIN <<>> = {} /\ <<>> \in Seq(Events)
  BY EmptySeq
<1>. HIDE DEF w
<1>4. row \in Rows /\ Absent \in Rows /\ row.revision = 1 /\ Absent.revision = 0
  BY <1>2, <1>3 DEF Rows, Absent
<1>. HIDE DEF row
<1>5. /\ threads \in [ThreadIds -> Rows]
      /\ \A t \in ThreadIds : threads[t] \in {row, Absent}
  BY <1>1, <1>4
<1>6. \A t \in ThreadIds : threads[t].revision = 0 => threads[t] = Absent
  BY <1>4, <1>5
<1>7. \A t \in ThreadIds : threads[t].revision \in Nat /\ TurnsOf(threads[t].messages) \subseteq Int
  <2>. TAKE t \in ThreadIds
  <2>1. threads[t].messages \in Seq(Messages) /\ threads[t].revision \in Nat
    BY <1>5 DEF Rows
  <2>2. \A i \in DOMAIN threads[t].messages : threads[t].messages[i] \in Messages
    BY <2>1, LenProperties, ElementOfSeq
  <2>. QED  BY <2>1, <2>2 DEF TurnsOf, Messages
<1>8. /\ web_revision = [t \in ThreadIds |-> threads[t].revision]
      /\ web_seen = [t \in ThreadIds |-> TurnsOf(threads[t].messages)]
      /\ web_wrote = [t \in ThreadIds |-> 0]
      /\ requests = 0 /\ cleaning = {}
  BY <1>1 DEF WebInit
<1>9. LibTypes
  BY <1>5, <1>6, <1>7, <1>8 DEF LibTypes
<1>10. WebInv
  BY <1>7, <1>8 DEF WebInv
<1>11. /\ session = Fresh(2) /\ pending = NoPending /\ active_job = FALSE
       /\ regenerate_after_cancel = FALSE /\ model_job = NoModel /\ file_job = NoFile
       /\ deferred_store_save = NoSave /\ events = <<>> /\ ui = "open" /\ history_edit = NoEdit
       /\ next_turn = 1 /\ next_conv = 3 /\ asked = 0 /\ stored = 0 /\ failed = 0 /\ seen = {}
  BY <1>1 DEF ChatInit
<1>12. session \in Sessions /\ Shown(threads, seen, session)
  BY <1>11, FreshSession, FreshShown
<1>13. TermTypes
  BY <1>3, <1>11, <1>12, NoFileJob DEF TermTypes, NoPending, NoModel, Saves
<1>14. SaveInv
  BY <1>11, NoFileJob DEF SaveInv, Deferred
<1>15. ReportInv /\ TurnInv
  BY <1>3, <1>11 DEF ReportInv, Reports, TurnInv, TurnHasItsEnd, Ends, NoModel
<1>16. SeenInv
  BY <1>3, <1>11, <1>12, NoFileJob DEF SeenInv, Deferred, JobKnows
<1>. QED  BY <1>9, <1>10, <1>13, <1>14, <1>15, <1>16 DEF IInv, Types

LEMMA KeysStep ==
    ASSUME IInv, Keys, UNCHANGED webVars
    PROVE  IInv'
BY SendStep, RespondStep, RegenerateStep, RegenerateActiveStep, EscapeStep, NewThreadStep, CloneStep,
   PopStep, ClearStep, ChangeSettingStep, StartHistoryEditStep, FinishHistoryEditStep,
   CancelHistoryEditStep, LoadThreadStep, RemoveThreadStep DEF Keys

LEMMA JobsStep ==
    ASSUME IInv, Quit \/ Model \/ File \/ Handle \/ Leave, UNCHANGED webVars
    PROVE  IInv'
BY QuitStep, ModelDeltaStep, ModelEndStep, StoreSaveRunsStep, LoadBeginsStep, LoadEndsStep,
   HandleDeltaStep, HandleDoneStep, HandleCancelledStep, HandleErrorStep, HandleSavedStep,
   HandleLoadedStep, CancelFileJobStep, SaveAtExitStep, RemoveEmptyThreadStep
   DEF Model, File, Handle, Leave

LEMMA BrowserStep ==
    ASSUME IInv, WebNext, UNCHANGED chatVars
    PROVE  IInv'
<1>1. requests' \in Nat
  BY DEF WebNext, IInv, Types, LibTypes
<1>2. CASE Request
  BY <1>1, <1>2, WebLoadStep, WebAppendStep, WebEditStep, WebRewindStep, WebRemoveStep,
     WebCreateStep, WebCleanupStep DEF Request
<1>3. CASE CleanupDelete
  BY <1>1, <1>3, CleanupDeleteStep
<1>. QED  BY <1>2, <1>3 DEF WebNext

LEMMA StutterStep ==
    ASSUME IInv, UNCHANGED vars
    PROVE  IInv'
<1>1. UNCHANGED <<threads, webVars, chatVars>>
  BY DEF vars
<1>2. threads' \in [ThreadIds -> Rows] /\ Grown(threads, threads')
  BY <1>1, Unchanged DEF IInv, Types, LibTypes
<1>. QED  BY <1>1, <1>2, LibrarySame, WebStep DEF IInv, Types

LEMMA NextStep == IInv /\ [Next]_vars => IInv'
<1>. SUFFICES ASSUME IInv, [Next]_vars PROVE IInv'
  OBVIOUS
<1>1. CASE ChatNext /\ UNCHANGED webVars
  BY <1>1, KeysStep, JobsStep DEF ChatNext
<1>2. CASE WebNext /\ UNCHANGED chatVars
  BY <1>2, BrowserStep
<1>3. CASE UNCHANGED vars
  BY <1>3, StutterStep
<1>. QED  BY <1>1, <1>2, <1>3 DEF Next

LEMMA Invariance == Spec => []IInv
<1>1. Init => IInv
  BY InitStep
<1>2. IInv /\ [Next]_vars => IInv'
  BY NextStep
<1>. QED  BY <1>1, <1>2, PTL DEF Spec

(***************************************************************************)
(* Rows, jobs, events and sessions keep their types, whatever the number   *)
(* of threads, keys and requests.                                          *)
(***************************************************************************)
THEOREM LibraryTypes == Spec => []TypeOK
<1>1. IInv => TypeOK
  BY TypesSuffice DEF IInv
<1>. QED  BY <1>1, Invariance, PTL

(***************************************************************************)
(* The newest autosave is under way, waits for a file job that will end,   *)
(* has been stored or was refused.                                         *)
(***************************************************************************)
THEOREM AutosaveKept == Spec => []NewestAutosaveKept
<1>1. IInv => NewestAutosaveKept
  <2>. SUFFICES ASSUME IInv PROVE NewestAutosaveKept
    OBVIOUS
  <2>1. CASE Deferred
    BY <2>1 DEF IInv, SaveInv, NewestAutosaveKept
  <2>2. CASE ~Deferred /\ file_job.kind = "save" /\ ~file_job.pushed
    <3>1. asked = file_job.save
      BY <2>2 DEF IInv, SaveInv
    <3>2. file_job.save \in {j.save : j \in {k \in {file_job} : k.kind = "save"}}
      BY <2>2
    <3>. QED  BY <2>2, <3>1, <3>2 DEF NewestAutosaveKept
  <2>3. CASE ~Deferred /\ ~(file_job.kind = "save" /\ ~file_job.pushed)
    BY <2>3 DEF IInv, SaveInv, NewestAutosaveKept
  <2>. QED  BY <2>1, <2>2, <2>3
<1>. QED  BY <1>1, Invariance, PTL

(***************************************************************************)
(* An active turn has one end to come, and no end is left without a turn.  *)
(***************************************************************************)
THEOREM TurnsEndOnce == Spec => []TurnHasItsEnd
<1>1. IInv => TurnHasItsEnd
  BY DEF IInv, TurnInv
<1>. QED  BY <1>1, Invariance, PTL

-----------------------------------------------------------------------------
(* No lost update *)

\* What a save takes from a thread, its writer was shown.
LEMMA SaveLosesSeen ==
    ASSUME Types, NEW s \in Sessions, CanSave(s), NEW shown, Shown(threads, shown, s),
           threads' = SaveSession(s)
    PROVE  \A t \in ThreadIds : Lost(t) \subseteq shown
<1>. DEFINE r == Stored(s)
<1>1. /\ r.thread \in ThreadIds
      /\ IF s.thread = NoThread THEN threads[r.thread] = Absent
         ELSE r.thread = s.thread /\ Current(threads, s)
      /\ \A t \in ThreadIds \ {r.thread} : threads'[t] = threads[t]
  BY Saved
<1>. HIDE DEF r
<1>2. TurnsOf(threads[r.thread].messages) \subseteq shown
  <2>1. CASE s.thread = NoThread
    <3>1. TurnsOf(Absent.messages) = {}
      BY EmptySeq DEF TurnsOf, Absent
    <3>. QED  BY <1>1, <2>1, <3>1
  <2>2. CASE s.thread # NoThread
    BY <1>1, <2>2 DEF Shown, Known
  <2>. QED  BY <2>1, <2>2
<1>3. \A t \in ThreadIds : t # r.thread => Lost(t) = {}
  BY <1>1 DEF Lost
<1>. QED  BY <1>2, <1>3 DEF Lost

LEMMA NothingLost ==
    ASSUME \A t \in ThreadIds : threads'[t].messages = threads[t].messages
    PROVE  \A t \in ThreadIds : Lost(t) = {}
BY DEF Lost

\* The terminal writes what it has shown ...
LEMMA TerminalLosesSeen ==
    ASSUME IInv, ChatNext
    PROVE  \A t \in ThreadIds : Lost(t) \subseteq seen
<1>1. CASE UNCHANGED threads
  BY <1>1, NothingLost
<1>2. ASSUME NEW t \in ThreadIds, RemoveThread(t)
      PROVE  \A u \in ThreadIds : threads'[u].messages = threads[u].messages
  <2>1. threads[t].revision > 0 /\ threads' = SoftDelete(t)
    BY <1>2 DEF RemoveThread, Live
  <2>. QED  BY <2>1, SoftDeleted DEF IInv
<1>3. CASE StoreSaveRuns
  <2>1. CASE SaveWorks
    <3>1. /\ CanSave(file_job.session) /\ threads' = SaveSession(file_job.session)
          /\ file_job.kind = "save" /\ ~file_job.pushed /\ Joinable(file_job)
      BY <1>3, <2>1 DEF SaveWorks, StoreSaveRuns, Joinable
    <3>2. file_job.session \in Sessions /\ Shown(threads, seen, file_job.session)
      BY <3>1, JobFields DEF IInv, Types, TermTypes, SeenInv, JobKnows
    <3>. QED  BY <3>1, <3>2, SaveLosesSeen DEF IInv
  <2>2. CASE SaveFails
    BY <1>1, <2>2 DEF SaveFails
  <2>. QED  BY <1>3, <2>1, <2>2 DEF StoreSaveRuns
<1>4. CASE SaveAtExit
  <2>1. PICK s \in Sessions, later \in Saves :
            /\ later # NoSave => Shown(threads, seen, later.session)
            /\ AtExit(s, later)
    BY <1>4, ExitKnows
  <2>2. CASE later # NoSave /\ CanSave(later.session) /\ threads' = SaveSession(later.session)
    <3>1. later.session \in Sessions
      BY <2>2 DEF Saves
    <3>. QED  BY <2>1, <2>2, <3>1, SaveLosesSeen DEF IInv
  <2>. QED  BY <1>1, <2>1, <2>2 DEF AtExit
<1>5. CASE RemoveEmptyThread
  <2>1. CASE session.thread # NoThread /\ threads' = SoftDelete(session.thread)
    <3>1. session.thread \in ThreadIds /\ session.revision \in 1..threads[session.thread].revision
      BY <2>1, Session DEF Sessions, Shown, Known, Held
    <3>2. threads[session.thread].revision \in Nat
      BY <3>1 DEF IInv, Types, LibTypes, Rows
    <3>3. threads[session.thread].revision > 0
      BY <3>1, <3>2
    <3>. QED  BY <2>1, <3>1, <3>3, SoftDeleted, NothingLost DEF IInv
  <2>. QED  BY <1>1, <1>5, <2>1 DEF RemoveEmptyThread
<1>6. CASE Keys
  <2>1. CASE \E t \in ThreadIds : RemoveThread(t)
    BY <1>2, <2>1, NothingLost
  <2>2. CASE UNCHANGED threads
    BY <1>1, <2>2
  <2>3. ASSUME NEW t \in ThreadIds, LoadThread(t)
        PROVE  UNCHANGED threads
    BY <2>3 DEF LoadThread
  <2>4. Send \/ Respond \/ Regenerate \/ RegenerateActive \/ Escape \/ NewThread \/ Clone
          => UNCHANGED threads
    BY DEF Send, Respond, Regenerate, RegenerateActive, Escape, NewThread, Clone
  <2>5. Pop \/ Clear \/ ChangeSetting \/ StartHistoryEdit \/ FinishHistoryEdit \/ CancelHistoryEdit
          => UNCHANGED threads
    BY DEF Pop, Clear, ChangeSetting, StartHistoryEdit, FinishHistoryEdit, CancelHistoryEdit
  <2>. QED  BY <1>6, <2>1, <2>2, <2>3, <2>4, <2>5 DEF Keys
<1>7. CASE Quit \/ Model \/ LoadBegins \/ LoadEnds \/ Handle \/ CancelFileJob
  <2>1. UNCHANGED threads
    BY <1>7 DEF Quit, Model, ModelDelta, ModelEnd, LoadBegins, LoadEnds, Handle, HandleDelta,
                HandleDone, HandleCancelled, HandleError, HandleSaved, HandleLoaded, CancelFileJob
  <2>. QED  BY <1>1, <2>1
<1>. QED  BY <1>3, <1>4, <1>5, <1>6, <1>7 DEF ChatNext, File, Leave

\* ... and so does the browser: a request that takes messages from a thread
\* has raised its revision.
LEMMA BrowserLosesSeen ==
    ASSUME IInv, WebNext
    PROVE  \A t \in ThreadIds :
              Lost(t) \subseteq (IF web_wrote' # web_wrote THEN web_seen[t] ELSE seen)
<1>1. CASE UNCHANGED threads
  BY <1>1, NothingLost
<1>2. ASSUME NEW t \in ThreadIds, threads[t].revision > 0, threads' = SoftDelete(t)
      PROVE  \A u \in ThreadIds : Lost(u) = {}
  BY <1>2, SoftDeleted, NothingLost DEF IInv
<1>3. ASSUME NEW t \in ThreadIds, CurrentFor(t, web_revision[t]), Wrote(t),
             threads'[t].revision = threads[t].revision + 1,
             \A u \in ThreadIds \ {t} : threads'[u] = threads[u]
      PROVE  \A u \in ThreadIds :
                Lost(u) \subseteq (IF web_wrote' # web_wrote THEN web_seen[u] ELSE seen)
  <2>1. threads[t] \in Rows /\ TurnsOf(threads[t].messages) \subseteq web_seen[t]
    BY <1>3, WebKnows
  <2>2. /\ threads[t].revision \in Nat /\ web_wrote[t] \in Nat /\ web_wrote[t] <= threads[t].revision
        /\ web_wrote \in [ThreadIds -> Nat]
    BY <2>1 DEF Rows, IInv, Types, LibTypes, WebInv
  <2>3. web_wrote' # web_wrote
    <3>1. web_wrote'[t] = threads'[t].revision
      BY <1>3, <2>2 DEF Wrote
    <3>. QED  BY <1>3, <2>2, <3>1
  <2>4. \A u \in ThreadIds : u # t => Lost(u) = {}
    BY <1>3 DEF Lost
  <2>. QED  BY <2>1, <2>3, <2>4 DEF Lost
<1>4. ASSUME NEW t \in ThreadIds, NEW m \in Seq(Messages), Rewrite(t, m),
             CurrentFor(t, web_revision[t]), Wrote(t)
      PROVE  \A u \in ThreadIds :
                Lost(u) \subseteq (IF web_wrote' # web_wrote THEN web_seen[u] ELSE seen)
  <2>1. /\ threads'[t].revision = threads[t].revision + 1
        /\ \A u \in ThreadIds \ {t} : threads'[u] = threads[u]
    BY <1>4, RewriteSaves
  <2>. QED  BY <1>3, <1>4, <2>1
<1>5. ASSUME NEW t \in ThreadIds, WebAppend(t)
      PROVE  \A u \in ThreadIds :
                Lost(u) \subseteq (IF web_wrote' # web_wrote THEN web_seen[u] ELSE seen)
  <2>1. CurrentFor(t, web_revision[t]) /\ Wrote(t)
    BY <1>5 DEF WebAppend
  <2>2. /\ threads'[t].revision = threads[t].revision + 1
        /\ \A u \in ThreadIds \ {t} : threads'[u] = threads[u]
    BY <1>5, AppendSaves
  <2>. QED  BY <1>3, <2>1, <2>2
<1>6. ASSUME NEW t \in ThreadIds, WebEdit(t)
      PROVE  \A u \in ThreadIds :
                Lost(u) \subseteq (IF web_wrote' # web_wrote THEN web_seen[u] ELSE seen)
  <2>1. PICK i \in DOMAIN threads[t].messages :
            Rewrite(t, [threads[t].messages EXCEPT ![i].turn = WebTurn, ![i].by = {WebTurn}])
    BY <1>6 DEF WebEdit
  <2>2. CurrentFor(t, web_revision[t]) /\ Wrote(t)
    BY <1>6 DEF WebEdit
  <2>3. threads[t].messages \in Seq(Messages) /\ WebTurn \in Int
    BY <2>2, WebKnows DEF WebTurn
  <2>4. [threads[t].messages EXCEPT ![i].turn = WebTurn, ![i].by = {WebTurn}] \in Seq(Messages)
    BY <2>1, <2>3, Retold
  <2>. QED  BY <1>4, <2>1, <2>2, <2>4
<1>7. ASSUME NEW t \in ThreadIds, WebRewind(t)
      PROVE  \A u \in ThreadIds :
                Lost(u) \subseteq (IF web_wrote' # web_wrote THEN web_seen[u] ELSE seen)
  <2>1. PICK n \in 0..(Len(threads[t].messages) - 1) :
            Rewrite(t, SubSeq(threads[t].messages, 1, n))
    BY <1>7 DEF WebRewind
  <2>2. CurrentFor(t, web_revision[t]) /\ Wrote(t)
    BY <1>7 DEF WebRewind
  <2>3. threads[t].messages \in Seq(Messages)
    BY <2>2, WebKnows
  <2>4. n \in Int /\ n <= Len(threads[t].messages)
    BY <2>1, <2>3, LenProperties
  <2>5. SubSeq(threads[t].messages, 1, n) \in Seq(Messages)
    BY <2>3, <2>4, Cut
  <2>. QED  BY <1>4, <2>1, <2>2, <2>5
<1>8. ASSUME NEW t \in ThreadIds, WebRemove(t)
      PROVE  \A u \in ThreadIds : Lost(u) = {}
  <2>1. CurrentFor(t, web_revision[t]) /\ threads' = SoftDelete(t)
    BY <1>8 DEF WebRemove
  <2>. QED  BY <1>2, <2>1, WebKnows
<1>9. CASE CleanupDelete
  <2>1. PICK t \in cleaning : threads' = SoftDelete(t)
    BY <1>9 DEF CleanupDelete
  <2>2. t \in ThreadIds /\ threads[t].revision > 0
    BY DEF IInv, Types, LibTypes, WebInv
  <2>. QED  BY <1>2, <2>1, <2>2
<1>10. CASE WebCreate
  <2>. DEFINE s == Fresh(0)
  <2>1. CanSave(s) /\ threads' = SaveSession(s)
    BY <1>10 DEF WebCreate
  <2>2. s \in Sessions /\ Shown(threads, {}, s)
    BY FreshSession, FreshShown
  <2>. HIDE DEF s
  <2>3. \A t \in ThreadIds : Lost(t) \subseteq {}
    BY <2>1, <2>2, SaveLosesSeen DEF IInv
  <2>. QED  BY <2>3
<1>11. ASSUME NEW t, WebLoad(t) \/ WebCleanup(t)
       PROVE  UNCHANGED threads
  BY <1>11 DEF WebLoad, WebCleanup
<1>. QED  BY <1>1, <1>5, <1>6, <1>7, <1>8, <1>9, <1>10, <1>11 DEF WebNext, Request

(***************************************************************************)
(* A message leaves a thread only by a writer that has shown it: neither   *)
(* an autosave, at once or deferred or made while leaving, nor a request   *)
(* of the browser overwrites what it did not know.                         *)
(***************************************************************************)
THEOREM NoLostUpdate == Spec => NothingUnseenOverwritten
<1>. DEFINE A == \A t \in ThreadIds :
                   Lost(t) \subseteq (IF web_wrote' # web_wrote THEN web_seen[t] ELSE seen)
<1>1. IInv /\ [Next]_vars => [A]_vars
  <2>. SUFFICES ASSUME IInv, Next PROVE A
    OBVIOUS
  <2>1. CASE ChatNext /\ UNCHANGED webVars
    BY <2>1, TerminalLosesSeen DEF webVars
  <2>2. CASE WebNext
    BY <2>2, BrowserLosesSeen
  <2>. QED  BY <2>1, <2>2 DEF Next
<1>. QED  BY <1>1, Invariance, PTL DEF Spec, NothingUnseenOverwritten
=============================================================================
