------------------------------ MODULE EditorLock ------------------------------
(***************************************************************************)
(* The advisory lock of a file that editors open (editor/file_session):    *)
(* a directory FILE.LOCK, made by mkdir, with one file that names its      *)
(* owner.  Every call on the file system is one action, for other editor   *)
(* processes run between any two of them, and a process may die between    *)
(* any two.  There is one file; its canonical path is the same for all.    *)
(*                                                                         *)
(* A process acquires one lock at a time for the file, so the process that *)
(* wrote an owner file stands for the pid and the token in it.             *)
(***************************************************************************)
EXTENDS Naturals, FiniteSets

CONSTANTS
    Editors,         \* the processes, each of which runs once; no pid is used again
    Hosts,           \* the machines that share the file system
    MaxUp,           \* bound: processes that run at once
    ForeignEntries   \* whether something else may put a file into FILE.LOCK

Nobody == "nobody"

ASSUME LockAssumption ==
    /\ IsFiniteSet(Editors) /\ Nobody \notin Editors
    /\ MaxUp \in Nat
    /\ ForeignEntries \in BOOLEAN

VARIABLES
    \* on disk
    dir,       \* FILE.LOCK exists
    owner,     \* who its owner file names, or Nobody without the file
    whole,     \* the owner file has been written
    foreign,   \* FILE.LOCK holds an entry of somebody else
    \* the processes
    host,
    life,      \* "new", "up", "gone"
    at,        \* the next call of acquire_canonical or safe_remove_lock
    goal,      \* acquire_canonical(.., true), the same "again" with false, "release"
    expected,  \* whose lock safe_remove_lock is to remove
    \* history
    stolen,    \* an owner file was unlinked that was not the one read before
    torn       \* a process died with FILE.LOCK half made or half removed

diskVars    == <<dir, owner, whole, foreign>>
processVars == <<host, life>>
historyVars == <<stolen, torn>>
lockVars == <<diskVars, processVars, at, goal, expected, historyVars>>

LockInit ==
    /\ dir = FALSE /\ owner = Nobody /\ whole = FALSE /\ foreign = FALSE
    /\ host \in [Editors -> Hosts]
    /\ life = [e \in Editors |-> "new"]
    /\ at = [e \in Editors |-> "out"]
    /\ goal = [e \in Editors |-> "acquire"]
    /\ expected = [e \in Editors |-> e]
    /\ stolen = FALSE /\ torn = FALSE

Goto(e, label) == at' = [at EXCEPT ![e] = label]
Aim(e, g)      == goal' = [goal EXCEPT ![e] = g]
Expect(e, who) == expected' = [expected EXCEPT ![e] = who]

-----------------------------------------------------------------------------
(* acquire_canonical *)

Ask(e) ==
    /\ life[e] = "up" /\ at[e] = "out"
    /\ Goto(e, "mkdir")
    /\ UNCHANGED <<diskVars, processVars, goal, expected, historyVars>>

Mkdir(e) ==
    /\ at[e] = "mkdir"
    /\ dir' = TRUE
    /\ Goto(e, IF dir THEN "inspect" ELSE "create")
    /\ UNCHANGED <<owner, whole, foreign, processVars, goal, expected, historyVars>>

\* The owner file is created, which fails if there is one ...
Create(e) ==
    /\ at[e] = "create"
    /\ dir /\ owner = Nobody
    /\ owner' = e /\ whole' = FALSE
    /\ Goto(e, "write")
    /\ UNCHANGED <<dir, foreign, processVars, goal, expected, historyVars>>

CreateFails(e) ==
    /\ at[e] = "create"
    /\ Goto(e, "unmade")
    /\ UNCHANGED <<diskVars, processVars, goal, expected, historyVars>>

\* ... and is written, synced and closed.  Whoever reads it before finds it malformed.
Write(e) ==
    /\ at[e] = "write"
    /\ whole' = (whole \/ owner = e)
    /\ Expect(e, e)
    /\ Goto(e, "held")
    /\ UNCHANGED <<dir, owner, foreign, processVars, goal, historyVars>>

\* Mutant of WriteFails: the half-written lock stays.
WriteFailsLeaves(e) ==
    /\ at[e] = "write"
    /\ Goto(e, "refused")
    /\ UNCHANGED <<diskVars, processVars, goal, expected, historyVars>>

WriteFails(e) ==
    /\ at[e] = "write"
    /\ Goto(e, "unmake")
    /\ UNCHANGED <<diskVars, processVars, goal, expected, historyVars>>

\* Nothing is read before this unlink.
Unmake(e) ==
    /\ at[e] = "unmake"
    /\ owner' = Nobody /\ whole' = FALSE
    /\ stolen' = (stolen \/ owner \notin {Nobody, e})
    /\ Goto(e, "unmade")
    /\ UNCHANGED <<dir, foreign, processVars, goal, expected, torn>>

\* rmdir removes an empty directory only.
Removable == dir /\ owner = Nobody /\ ~foreign

Unmade(e) ==
    /\ at[e] = "unmade"
    /\ dir' = (dir /\ ~Removable)
    /\ Goto(e, "refused")
    /\ UNCHANGED <<owner, whole, foreign, processVars, goal, expected, historyVars>>

\* Mutant of Recoverable: nobody asks whether the owner is still there.
RecoverableAnyway(e) ==
    /\ owner # Nobody /\ whole
    /\ goal[e] = "acquire"
    /\ host[owner] = host[e]

\* The owner file is well formed, and kill(pid, 0) on the owner's own host says
\* that there is no such process.
Recoverable(e) ==
    /\ owner # Nobody /\ whole
    /\ goal[e] = "acquire"
    /\ host[owner] = host[e]
    /\ life[owner] = "gone"

Inspect(e) ==
    /\ at[e] = "inspect"
    /\ IF Recoverable(e) THEN Expect(e, owner) /\ Goto(e, "reread")
                         ELSE UNCHANGED expected /\ Goto(e, "refused")
    /\ UNCHANGED <<diskVars, processVars, goal, historyVars>>

\* An acquisition or a release is over, and nothing of it is kept.
Rest(e) == Goto(e, "out") /\ Aim(e, "acquire") /\ Expect(e, e)

\* The caller has read the error.
Settle(e) ==
    /\ at[e] = "refused"
    /\ Rest(e)
    /\ UNCHANGED <<diskVars, processVars, historyVars>>

-----------------------------------------------------------------------------
(* safe_remove_lock, for a lock of one's own or of a process that is gone *)

\* EditorFileLock::release
Release(e) ==
    /\ at[e] = "held"
    /\ Goto(e, "reread") /\ Aim(e, "release")
    /\ UNCHANGED <<diskVars, processVars, expected, historyVars>>

\* A recovered lock is taken with a new mkdir; a second recovery is not tried.
Removed(e) ==
    IF goal[e] = "release"
    THEN Rest(e)
    ELSE Goto(e, "mkdir") /\ Aim(e, "again") /\ UNCHANGED expected

NotRemoved(e) ==
    IF goal[e] = "release"
    THEN Rest(e)
    ELSE Goto(e, "refused") /\ UNCHANGED <<goal, expected>>

On(e, label) == Goto(e, label) /\ UNCHANGED <<goal, expected>>

Reread(e) ==
    /\ at[e] = "reread"
    /\ IF owner = expected[e] /\ whole THEN On(e, "unlink") ELSE NotRemoved(e)
    /\ UNCHANGED <<diskVars, processVars, historyVars>>

\* The unlink takes whatever owner file is there by now.
Unlink(e) ==
    /\ at[e] = "unlink"
    /\ IF owner = Nobody
       THEN NotRemoved(e) /\ UNCHANGED <<owner, whole, stolen>>
       ELSE /\ owner' = Nobody /\ whole' = FALSE
            /\ stolen' = (stolen \/ owner # expected[e])
            /\ On(e, "rmdir")
    /\ UNCHANGED <<dir, foreign, processVars, torn>>

Rmdir(e) ==
    /\ at[e] = "rmdir"
    /\ dir' = (dir /\ ~Removable)
    /\ IF Removable THEN Removed(e) ELSE On(e, "restore")
    /\ UNCHANGED <<owner, whole, foreign, processVars, historyVars>>

\* The owner file comes back when something else is in the directory.
Restore(e) ==
    /\ at[e] = "restore"
    /\ IF dir /\ owner = Nobody THEN owner' = expected[e] /\ whole' = TRUE
                                ELSE UNCHANGED <<owner, whole>>
    /\ NotRemoved(e)
    /\ UNCHANGED <<dir, foreign, processVars, historyVars>>

-----------------------------------------------------------------------------
(* processes, and what else happens to the directory *)

Boot(e) ==
    /\ life[e] = "new"
    /\ Cardinality({f \in Editors : life[f] = "up"}) < MaxUp
    /\ life' = [life EXCEPT ![e] = "up"]
    /\ UNCHANGED <<diskVars, host, at, goal, expected, historyVars>>

Exit(e) ==
    /\ life[e] = "up" /\ at[e] = "out"
    /\ life' = [life EXCEPT ![e] = "gone"]
    /\ UNCHANGED <<diskVars, host, at, goal, expected, historyVars>>

HalfDone == {"create", "write", "unmake", "unmade", "rmdir", "restore"}

Crash(e) ==
    /\ life[e] = "up"
    /\ life' = [life EXCEPT ![e] = "gone"]
    /\ torn' = (torn \/ at[e] \in HalfDone)
    /\ Rest(e)
    /\ UNCHANGED <<diskVars, host, stolen>>

\* Only an rmdir can tell whether such an entry is there, so it comes just before one.
PutForeign ==
    /\ ForeignEntries /\ dir /\ ~foreign
    /\ \E e \in Editors : at[e] \in {"unmade", "rmdir"}
    /\ foreign' = TRUE
    /\ UNCHANGED <<dir, owner, whole, processVars, at, goal, expected, historyVars>>

\* The next call of an acquisition or a release under way.
Call(e) ==
    \/ Mkdir(e) \/ Create(e) \/ CreateFails(e) \/ Write(e) \/ WriteFails(e)
    \/ Unmake(e) \/ Unmade(e) \/ Inspect(e)
    \/ Reread(e) \/ Unlink(e) \/ Rmdir(e) \/ Restore(e)

LockNext ==
    \/ \E e \in Editors : \/ Ask(e) \/ Call(e) \/ Settle(e) \/ Release(e)
                          \/ Boot(e) \/ Exit(e) \/ Crash(e)
    \/ PutForeign

LockSpec == LockInit /\ [][LockNext]_lockVars

-----------------------------------------------------------------------------
(* Properties *)

Calls == {"out", "mkdir", "create", "write", "unmake", "unmade", "inspect", "refused",
          "held", "reread", "unlink", "rmdir", "restore"}

LockTypes ==
    /\ dir \in BOOLEAN /\ whole \in BOOLEAN /\ foreign \in BOOLEAN
    /\ stolen \in BOOLEAN /\ torn \in BOOLEAN
    /\ owner \in Editors \cup {Nobody}
    /\ host \in [Editors -> Hosts]
    /\ life \in [Editors -> {"new", "up", "gone"}]
    /\ at \in [Editors -> Calls]
    /\ goal \in [Editors -> {"acquire", "again", "release"}]
    /\ expected \in [Editors -> Editors]

\* From its mkdir, or its unlink of a dead owner's file, to its rmdir the
\* directory is one process's business.
Inside(e) ==
    \/ at[e] \in HalfDone \cup {"held"}
    \/ goal[e] = "release" /\ at[e] \in {"reread", "unlink"}

\* Two processes never have the lock, or FILE.LOCK, at once, and what a holder
\* believes to hold is what is on disk: neither a recovery of a dead lock, by
\* several at once, nor a failed or interrupted acquisition takes it away.  Only
\* one that unlinks another file than it has read does (safe_remove_lock reads
\* and unlinks in two calls): then nothing is claimed any more.
LockIsOne ==
    ~stolen => \A e \in Editors :
        /\ Inside(e) => dir /\ \A f \in Editors : Inside(f) => f = e
        /\ at[e] = "held" => owner = e /\ whole

\* Failures and releases on the way leave no lock behind: what lies there while
\* nobody is at it belongs to a process that is gone, and says so.  Only a death
\* with the directory half made, or an entry of somebody else, spoils that.
NoLockLeaks ==
    dir /\ ~stolen /\ ~torn /\ ~foreign /\ (\A e \in Editors : ~Inside(e)) =>
        owner # Nobody /\ whole /\ life[owner] = "gone"

-----------------------------------------------------------------------------
(* The inductive invariant *)

\* What a process inside finds on disk.
Fits(e) ==
    /\ at[e] \in {"create", "unmade", "rmdir", "restore"} => dir /\ owner = Nobody
    /\ at[e] \in {"write", "unmake"} => dir /\ owner = e
    /\ at[e] = "held" \/ (goal[e] = "release" /\ at[e] \in {"reread", "unlink"}) =>
           dir /\ owner = e /\ whole /\ expected[e] = e
    /\ at[e] = "restore" => foreign

\* What each process knows by itself, whatever happens on disk.
Sound(e) ==
    /\ at[e] # "out" => life[e] = "up"
    /\ goal[e] = "release" => at[e] \in {"reread", "unlink", "rmdir", "restore"}
    /\ at[e] \in {"reread", "unlink"} /\ goal[e] # "release" => life[expected[e]] = "gone"

Alone == \A e, f \in Editors : Inside(e) /\ Inside(f) => e = f

LockInv ==
    /\ LockTypes
    /\ owner # Nobody => dir
    /\ \A e \in Editors : Sound(e)
    /\ ~stolen => Alone /\ \A e \in Editors : Fits(e)
    /\ NoLockLeaks

=============================================================================
