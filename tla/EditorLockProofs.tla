---------------------------- MODULE EditorLockProofs --------------------------
(***************************************************************************)
(* Proofs about EditorLock.  The invariant says what a process inside the  *)
(* directory finds there, so that nobody else can be inside (Alone), and   *)
(* that a process to recover a lock has seen its owner gone for good: an   *)
(* owner that is gone is not inside, and an unlink of its file takes       *)
(* nothing from anybody.  There is one lemma per call.                     *)
(***************************************************************************)
EXTENDS EditorLock, TLAPS

LEMMA LockStart == LockInit => LockInv
<1>. SUFFICES ASSUME LockInit PROVE LockInv
  OBVIOUS
<1>1. LockTypes
  BY DEF LockInit, LockTypes, Calls
<1>2. \A e \in Editors : at[e] = "out" /\ goal[e] = "acquire" /\ ~Inside(e)
  BY DEF LockInit, Inside, HalfDone
<1>3. /\ \A e \in Editors : Sound(e) /\ Fits(e)
      /\ Alone
  BY <1>2 DEF Sound, Fits, Alone
<1>. QED  BY <1>1, <1>3 DEF LockInit, LockInv, NoLockLeaks

-----------------------------------------------------------------------------
(* The calls and the processes *)

LEMMA AskStep ==
    ASSUME LockInv, NEW e \in Editors, Ask(e)
    PROVE  LockInv'
<1>. /\ LockTypes /\ NoLockLeaks /\ (owner # Nobody => dir)
     /\ (\A f \in Editors : Sound(f)) /\ (~stolen => Alone /\ \A f \in Editors : Fits(f))
  BY DEF LockInv
<1>1. LockTypes'
  BY DEF Ask, Goto, diskVars, processVars, historyVars, LockTypes, Calls
<1>2. owner' # Nobody => dir'
  BY DEF Ask, Goto, diskVars, processVars, historyVars
<1>3. \A f \in Editors : Sound(f)'
  BY DEF Ask, Goto, diskVars, processVars, historyVars, LockTypes, Sound
<1>4. ~stolen' => Alone'
  BY DEF Ask, Goto, diskVars, processVars, historyVars, LockTypes, Alone, Inside, HalfDone,
         Fits, Sound
<1>5. ~stolen' => \A f \in Editors : Fits(f)'
  BY DEF Ask, Goto, diskVars, processVars, historyVars, LockTypes, Alone, Inside, HalfDone,
         Fits, Sound
<1>6. NoLockLeaks'
  BY DEF Ask, Goto, diskVars, processVars, historyVars, LockTypes, Alone, Inside, HalfDone,
         Fits, Sound, NoLockLeaks
<1>. QED  BY <1>1, <1>2, <1>3, <1>4, <1>5, <1>6 DEF LockInv

LEMMA MkdirStep ==
    ASSUME LockInv, NEW e \in Editors, Mkdir(e)
    PROVE  LockInv'
<1>. /\ LockTypes /\ NoLockLeaks /\ (owner # Nobody => dir)
     /\ (\A f \in Editors : Sound(f)) /\ (~stolen => Alone /\ \A f \in Editors : Fits(f))
  BY DEF LockInv
<1>1. LockTypes'
  BY LockAssumption DEF Mkdir, Goto, processVars, historyVars, LockTypes, Calls
<1>2. owner' # Nobody => dir'
  BY LockAssumption DEF Mkdir, Goto, processVars, historyVars
<1>3. \A f \in Editors : Sound(f)'
  BY LockAssumption DEF Mkdir, Goto, processVars, historyVars, LockTypes, Sound
<1>4. ~stolen' => Alone'
  BY LockAssumption DEF Mkdir, Goto, processVars, historyVars, LockTypes, Alone, Inside,
         HalfDone, Fits, Sound
<1>5. ~stolen' => \A f \in Editors : Fits(f)'
  BY LockAssumption DEF Mkdir, Goto, processVars, historyVars, LockTypes, Alone, Inside,
         HalfDone, Fits, Sound
<1>6. NoLockLeaks'
  BY LockAssumption DEF Mkdir, Goto, processVars, historyVars, LockTypes, Alone, Inside,
         HalfDone, Fits, Sound, NoLockLeaks
<1>. QED  BY <1>1, <1>2, <1>3, <1>4, <1>5, <1>6 DEF LockInv

LEMMA CreateStep ==
    ASSUME LockInv, NEW e \in Editors, Create(e)
    PROVE  LockInv'
<1>. /\ LockTypes /\ NoLockLeaks /\ (owner # Nobody => dir)
     /\ (\A f \in Editors : Sound(f)) /\ (~stolen => Alone /\ \A f \in Editors : Fits(f))
  BY DEF LockInv
<1>1. LockTypes'
  BY LockAssumption DEF Create, Goto, processVars, historyVars, LockTypes, Calls
<1>2. owner' # Nobody => dir'
  BY LockAssumption DEF Create, Goto, processVars, historyVars
<1>3. \A f \in Editors : Sound(f)'
  BY LockAssumption DEF Create, Goto, processVars, historyVars, LockTypes, Sound
<1>4. ~stolen' => Alone'
  BY LockAssumption DEF Create, Goto, processVars, historyVars, LockTypes, Alone, Inside,
         HalfDone, Fits, Sound
<1>5. ~stolen' => \A f \in Editors : Fits(f)'
  BY LockAssumption DEF Create, Goto, processVars, historyVars, LockTypes, Alone, Inside,
         HalfDone, Fits, Sound
<1>6. NoLockLeaks'
  BY LockAssumption DEF Create, Goto, processVars, historyVars, LockTypes, Alone, Inside,
         HalfDone, Fits, Sound, NoLockLeaks
<1>. QED  BY <1>1, <1>2, <1>3, <1>4, <1>5, <1>6 DEF LockInv

LEMMA CreateFailsStep ==
    ASSUME LockInv, NEW e \in Editors, CreateFails(e)
    PROVE  LockInv'
<1>. /\ LockTypes /\ NoLockLeaks /\ (owner # Nobody => dir)
     /\ (\A f \in Editors : Sound(f)) /\ (~stolen => Alone /\ \A f \in Editors : Fits(f))
  BY DEF LockInv
<1>1. LockTypes'
  BY DEF CreateFails, Goto, diskVars, processVars, historyVars, LockTypes, Calls
<1>2. owner' # Nobody => dir'
  BY DEF CreateFails, Goto, diskVars, processVars, historyVars
<1>3. \A f \in Editors : Sound(f)'
  BY DEF CreateFails, Goto, diskVars, processVars, historyVars, LockTypes, Sound
<1>4. ~stolen' => Alone'
  BY DEF CreateFails, Goto, diskVars, processVars, historyVars, LockTypes, Alone, Inside,
         HalfDone, Fits, Sound
<1>5. ~stolen' => \A f \in Editors : Fits(f)'
  BY DEF CreateFails, Goto, diskVars, processVars, historyVars, LockTypes, Alone, Inside,
         HalfDone, Fits, Sound
<1>6. NoLockLeaks'
  BY DEF CreateFails, Goto, diskVars, processVars, historyVars, LockTypes, Alone, Inside,
         HalfDone, Fits, Sound, NoLockLeaks
<1>. QED  BY <1>1, <1>2, <1>3, <1>4, <1>5, <1>6 DEF LockInv

LEMMA WriteStep ==
    ASSUME LockInv, NEW e \in Editors, Write(e)
    PROVE  LockInv'
<1>. /\ LockTypes /\ NoLockLeaks /\ (owner # Nobody => dir)
     /\ (\A f \in Editors : Sound(f)) /\ (~stolen => Alone /\ \A f \in Editors : Fits(f))
  BY DEF LockInv
<1>1. LockTypes'
  BY LockAssumption DEF Write, Goto, Expect, processVars, historyVars, LockTypes, Calls
<1>2. owner' # Nobody => dir'
  BY LockAssumption DEF Write, Goto, Expect, processVars, historyVars
<1>3. \A f \in Editors : Sound(f)'
  BY LockAssumption DEF Write, Goto, Expect, processVars, historyVars, LockTypes, Sound
<1>4. ~stolen' => Alone'
  BY LockAssumption DEF Write, Goto, Expect, processVars, historyVars, LockTypes, Alone,
         Inside, HalfDone, Fits, Sound
<1>5. ~stolen' => \A f \in Editors : Fits(f)'
  BY LockAssumption DEF Write, Goto, Expect, processVars, historyVars, LockTypes, Alone,
         Inside, HalfDone, Fits, Sound
<1>6. NoLockLeaks'
  BY LockAssumption DEF Write, Goto, Expect, processVars, historyVars, LockTypes, Alone,
         Inside, HalfDone, Fits, Sound, NoLockLeaks
<1>. QED  BY <1>1, <1>2, <1>3, <1>4, <1>5, <1>6 DEF LockInv

LEMMA WriteFailsStep ==
    ASSUME LockInv, NEW e \in Editors, WriteFails(e)
    PROVE  LockInv'
<1>. /\ LockTypes /\ NoLockLeaks /\ (owner # Nobody => dir)
     /\ (\A f \in Editors : Sound(f)) /\ (~stolen => Alone /\ \A f \in Editors : Fits(f))
  BY DEF LockInv
<1>1. LockTypes'
  BY DEF WriteFails, Goto, diskVars, processVars, historyVars, LockTypes, Calls
<1>2. owner' # Nobody => dir'
  BY DEF WriteFails, Goto, diskVars, processVars, historyVars
<1>3. \A f \in Editors : Sound(f)'
  BY DEF WriteFails, Goto, diskVars, processVars, historyVars, LockTypes, Sound
<1>4. ~stolen' => Alone'
  BY DEF WriteFails, Goto, diskVars, processVars, historyVars, LockTypes, Alone, Inside,
         HalfDone, Fits, Sound
<1>5. ~stolen' => \A f \in Editors : Fits(f)'
  BY DEF WriteFails, Goto, diskVars, processVars, historyVars, LockTypes, Alone, Inside,
         HalfDone, Fits, Sound
<1>6. NoLockLeaks'
  BY DEF WriteFails, Goto, diskVars, processVars, historyVars, LockTypes, Alone, Inside,
         HalfDone, Fits, Sound, NoLockLeaks
<1>. QED  BY <1>1, <1>2, <1>3, <1>4, <1>5, <1>6 DEF LockInv

LEMMA UnmakeStep ==
    ASSUME LockInv, NEW e \in Editors, Unmake(e)
    PROVE  LockInv'
<1>. /\ LockTypes /\ NoLockLeaks /\ (owner # Nobody => dir)
     /\ (\A f \in Editors : Sound(f)) /\ (~stolen => Alone /\ \A f \in Editors : Fits(f))
  BY DEF LockInv
<1>1. LockTypes'
  BY LockAssumption DEF Unmake, Goto, processVars, LockTypes, Calls
<1>2. owner' # Nobody => dir'
  BY LockAssumption DEF Unmake, Goto, processVars
<1>3. \A f \in Editors : Sound(f)'
  BY LockAssumption DEF Unmake, Goto, processVars, LockTypes, Sound
<1>4. ~stolen' => Alone'
  BY LockAssumption DEF Unmake, Goto, processVars, LockTypes, Alone, Inside, HalfDone, Fits,
         Sound
<1>5. ~stolen' => \A f \in Editors : Fits(f)'
  BY LockAssumption DEF Unmake, Goto, processVars, LockTypes, Alone, Inside, HalfDone, Fits,
         Sound
<1>6. NoLockLeaks'
  BY LockAssumption DEF Unmake, Goto, processVars, LockTypes, Alone, Inside, HalfDone, Fits,
         Sound, NoLockLeaks
<1>. QED  BY <1>1, <1>2, <1>3, <1>4, <1>5, <1>6 DEF LockInv

LEMMA UnmadeStep ==
    ASSUME LockInv, NEW e \in Editors, Unmade(e)
    PROVE  LockInv'
<1>. /\ LockTypes /\ NoLockLeaks /\ (owner # Nobody => dir)
     /\ (\A f \in Editors : Sound(f)) /\ (~stolen => Alone /\ \A f \in Editors : Fits(f))
  BY DEF LockInv
<1>1. LockTypes'
  BY DEF Unmade, Goto, Removable, processVars, historyVars, LockTypes, Calls
<1>2. owner' # Nobody => dir'
  BY DEF Unmade, Goto, Removable, processVars, historyVars
<1>3. \A f \in Editors : Sound(f)'
  BY DEF Unmade, Goto, Removable, processVars, historyVars, LockTypes, Sound
<1>4. ~stolen' => Alone'
  BY DEF Unmade, Goto, Removable, processVars, historyVars, LockTypes, Alone, Inside, HalfDone,
         Fits, Sound
<1>5. ~stolen' => \A f \in Editors : Fits(f)'
  BY DEF Unmade, Goto, Removable, processVars, historyVars, LockTypes, Alone, Inside, HalfDone,
         Fits, Sound
<1>6. NoLockLeaks'
  BY DEF Unmade, Goto, Removable, processVars, historyVars, LockTypes, Alone, Inside, HalfDone,
         Fits, Sound, NoLockLeaks
<1>. QED  BY <1>1, <1>2, <1>3, <1>4, <1>5, <1>6 DEF LockInv

LEMMA InspectStep ==
    ASSUME LockInv, NEW e \in Editors, Inspect(e)
    PROVE  LockInv'
<1>. /\ LockTypes /\ NoLockLeaks /\ (owner # Nobody => dir)
     /\ (\A f \in Editors : Sound(f)) /\ (~stolen => Alone /\ \A f \in Editors : Fits(f))
  BY DEF LockInv
<1>1. LockTypes'
  BY LockAssumption DEF Inspect, Goto, Recoverable, Expect, diskVars, processVars, historyVars,
         LockTypes, Calls
<1>2. owner' # Nobody => dir'
  BY LockAssumption DEF Inspect, Goto, Recoverable, Expect, diskVars, processVars, historyVars
<1>3. \A f \in Editors : Sound(f)'
  BY LockAssumption DEF Inspect, Goto, Recoverable, Expect, diskVars, processVars, historyVars,
         LockTypes, Sound
<1>4. ~stolen' => Alone'
  BY LockAssumption DEF Inspect, Goto, Recoverable, Expect, diskVars, processVars, historyVars,
         LockTypes, Alone, Inside, HalfDone, Fits, Sound
<1>5. ~stolen' => \A f \in Editors : Fits(f)'
  BY LockAssumption DEF Inspect, Goto, Recoverable, Expect, diskVars, processVars, historyVars,
         LockTypes, Alone, Inside, HalfDone, Fits, Sound
<1>6. NoLockLeaks'
  BY LockAssumption DEF Inspect, Goto, Recoverable, Expect, diskVars, processVars, historyVars,
         LockTypes, Alone, Inside, HalfDone, Fits, Sound, NoLockLeaks
<1>. QED  BY <1>1, <1>2, <1>3, <1>4, <1>5, <1>6 DEF LockInv

LEMMA SettleStep ==
    ASSUME LockInv, NEW e \in Editors, Settle(e)
    PROVE  LockInv'
<1>. /\ LockTypes /\ NoLockLeaks /\ (owner # Nobody => dir)
     /\ (\A f \in Editors : Sound(f)) /\ (~stolen => Alone /\ \A f \in Editors : Fits(f))
  BY DEF LockInv
<1>1. LockTypes'
  BY DEF Settle, Goto, Rest, Aim, Expect, diskVars, processVars, historyVars, LockTypes, Calls
<1>2. owner' # Nobody => dir'
  BY DEF Settle, Goto, Rest, Aim, Expect, diskVars, processVars, historyVars
<1>3. \A f \in Editors : Sound(f)'
  BY DEF Settle, Goto, Rest, Aim, Expect, diskVars, processVars, historyVars, LockTypes, Sound
<1>4. ~stolen' => Alone'
  BY DEF Settle, Goto, Rest, Aim, Expect, diskVars, processVars, historyVars, LockTypes, Alone,
         Inside, HalfDone, Fits, Sound
<1>5. ~stolen' => \A f \in Editors : Fits(f)'
  BY DEF Settle, Goto, Rest, Aim, Expect, diskVars, processVars, historyVars, LockTypes, Alone,
         Inside, HalfDone, Fits, Sound
<1>6. NoLockLeaks'
  BY DEF Settle, Goto, Rest, Aim, Expect, diskVars, processVars, historyVars, LockTypes, Alone,
         Inside, HalfDone, Fits, Sound, NoLockLeaks
<1>. QED  BY <1>1, <1>2, <1>3, <1>4, <1>5, <1>6 DEF LockInv

LEMMA ReleaseStep ==
    ASSUME LockInv, NEW e \in Editors, Release(e)
    PROVE  LockInv'
<1>. /\ LockTypes /\ NoLockLeaks /\ (owner # Nobody => dir)
     /\ (\A f \in Editors : Sound(f)) /\ (~stolen => Alone /\ \A f \in Editors : Fits(f))
  BY DEF LockInv
<1>1. LockTypes'
  BY DEF Release, Goto, Aim, diskVars, processVars, historyVars, LockTypes, Calls
<1>2. owner' # Nobody => dir'
  BY DEF Release, Goto, Aim, diskVars, processVars, historyVars
<1>3. \A f \in Editors : Sound(f)'
  BY DEF Release, Goto, Aim, diskVars, processVars, historyVars, LockTypes, Sound
<1>4. ~stolen' => Alone'
  BY DEF Release, Goto, Aim, diskVars, processVars, historyVars, LockTypes, Alone, Inside,
         HalfDone, Fits, Sound
<1>5. ~stolen' => \A f \in Editors : Fits(f)'
  BY DEF Release, Goto, Aim, diskVars, processVars, historyVars, LockTypes, Alone, Inside,
         HalfDone, Fits, Sound
<1>6. NoLockLeaks'
  BY DEF Release, Goto, Aim, diskVars, processVars, historyVars, LockTypes, Alone, Inside,
         HalfDone, Fits, Sound, NoLockLeaks
<1>. QED  BY <1>1, <1>2, <1>3, <1>4, <1>5, <1>6 DEF LockInv

LEMMA RereadStep ==
    ASSUME LockInv, NEW e \in Editors, Reread(e)
    PROVE  LockInv'
<1>. /\ LockTypes /\ NoLockLeaks /\ (owner # Nobody => dir)
     /\ (\A f \in Editors : Sound(f)) /\ (~stolen => Alone /\ \A f \in Editors : Fits(f))
  BY DEF LockInv
<1>1. LockTypes'
  BY DEF Reread, Goto, On, NotRemoved, Rest, Aim, Expect, diskVars, processVars, historyVars,
         LockTypes, Calls
<1>2. owner' # Nobody => dir'
  BY DEF Reread, Goto, On, NotRemoved, Rest, Aim, Expect, diskVars, processVars, historyVars
<1>3. \A f \in Editors : Sound(f)'
  BY DEF Reread, Goto, On, NotRemoved, Rest, Aim, Expect, diskVars, processVars, historyVars,
         LockTypes, Sound
<1>4. ~stolen' => Alone'
  BY DEF Reread, Goto, On, NotRemoved, Rest, Aim, Expect, diskVars, processVars, historyVars,
         LockTypes, Alone, Inside, HalfDone, Fits, Sound
<1>5. ~stolen' => \A f \in Editors : Fits(f)'
  BY DEF Reread, Goto, On, NotRemoved, Rest, Aim, Expect, diskVars, processVars, historyVars,
         LockTypes, Alone, Inside, HalfDone, Fits, Sound
<1>6. NoLockLeaks'
  BY DEF Reread, Goto, On, NotRemoved, Rest, Aim, Expect, diskVars, processVars, historyVars,
         LockTypes, Alone, Inside, HalfDone, Fits, Sound, NoLockLeaks
<1>. QED  BY <1>1, <1>2, <1>3, <1>4, <1>5, <1>6 DEF LockInv

LEMMA UnlinkStep ==
    ASSUME LockInv, NEW e \in Editors, Unlink(e)
    PROVE  LockInv'
<1>. /\ LockTypes /\ NoLockLeaks /\ (owner # Nobody => dir)
     /\ (\A f \in Editors : Sound(f)) /\ (~stolen => Alone /\ \A f \in Editors : Fits(f))
  BY DEF LockInv
<1>1. LockTypes'
  <2>1. /\ at' \in [Editors -> Calls] /\ goal' \in [Editors -> {"acquire", "again", "release"}]
        /\ expected' \in [Editors -> Editors]
    BY DEF Unlink, Goto, On, NotRemoved, Rest, Aim, Expect, processVars, LockTypes, Calls
  <2>2. owner' \in Editors \cup {Nobody} /\ whole' \in BOOLEAN
    BY DEF Unlink, LockTypes
  <2>. QED  BY <2>1, <2>2 DEF Unlink, processVars, LockTypes
<1>2. owner' # Nobody => dir'
  BY LockAssumption DEF Unlink, Goto, On, NotRemoved, Rest, Aim, Expect, processVars
<1>3. \A f \in Editors : Sound(f)'
  BY LockAssumption DEF Unlink, Goto, On, NotRemoved, Rest, Aim, Expect, processVars,
         LockTypes, Sound
<1>4. ~stolen' => Alone'
  BY LockAssumption DEF Unlink, Goto, On, NotRemoved, Rest, Aim, Expect, processVars,
         LockTypes, Alone, Inside, HalfDone, Fits, Sound
<1>5. ~stolen' => \A f \in Editors : Fits(f)'
  <2>. SUFFICES ASSUME ~stolen', NEW f \in Editors
                PROVE  Fits(f)'
    OBVIOUS
  <2>1. CASE owner = Nobody
    BY <2>1 DEF Unlink, Goto, On, NotRemoved, Rest, Aim, Expect, processVars, LockTypes, Fits
  <2>2. CASE owner # Nobody /\ f = e
    BY <2>2 DEF Unlink, Goto, On, NotRemoved, Rest, Aim, Expect, processVars, LockTypes, Fits
  <2>3. CASE owner # Nobody /\ f # e
    <3>1. owner = expected[e] /\ ~stolen
      BY <2>3 DEF Unlink, LockTypes
    <3>2. ~Inside(f)
      <4>1. CASE goal[e] = "release"
        BY <2>3, <3>1, <4>1 DEF Unlink, Alone, Inside
      <4>2. CASE goal[e] # "release"
        <5>1. life[owner] = "gone"
          BY <3>1, <4>2 DEF Unlink, Sound
        <5>2. ~Inside(f) \/ owner = f
          BY <2>3, <3>1 DEF Fits, Inside, HalfDone
        <5>3. Inside(f) => life[f] = "up"
          BY DEF Sound, Inside, HalfDone
        <5>. QED  BY <5>1, <5>2, <5>3
      <4>. QED  BY <4>1, <4>2
    <3>3. at'[f] = at[f] /\ goal'[f] = goal[f]
      BY <2>3 DEF Unlink, Goto, On, NotRemoved, Rest, Aim, Expect, processVars, LockTypes
    <3>. QED  BY <3>2, <3>3 DEF Fits, Inside, HalfDone
  <2>. QED  BY <2>1, <2>2, <2>3
<1>6. NoLockLeaks'
  BY LockAssumption DEF Unlink, Goto, On, NotRemoved, Rest, Aim, Expect, processVars,
         LockTypes, Alone, Inside, HalfDone, Fits, Sound, NoLockLeaks
<1>. QED  BY <1>1, <1>2, <1>3, <1>4, <1>5, <1>6 DEF LockInv

LEMMA RmdirStep ==
    ASSUME LockInv, NEW e \in Editors, Rmdir(e)
    PROVE  LockInv'
<1>. /\ LockTypes /\ NoLockLeaks /\ (owner # Nobody => dir)
     /\ (\A f \in Editors : Sound(f)) /\ (~stolen => Alone /\ \A f \in Editors : Fits(f))
  BY DEF LockInv
<1>1. LockTypes'
  BY DEF Rmdir, Goto, On, Removed, Rest, Aim, Expect, Removable, processVars, historyVars,
         LockTypes, Calls
<1>2. owner' # Nobody => dir'
  BY DEF Rmdir, Goto, On, Removed, Rest, Aim, Expect, Removable, processVars, historyVars
<1>3. \A f \in Editors : Sound(f)'
  BY DEF Rmdir, Goto, On, Removed, Rest, Aim, Expect, Removable, processVars, historyVars,
         LockTypes, Sound
<1>4. ~stolen' => Alone'
  BY DEF Rmdir, Goto, On, Removed, Rest, Aim, Expect, Removable, processVars, historyVars,
         LockTypes, Alone, Inside, HalfDone, Fits, Sound
<1>5. ~stolen' => \A f \in Editors : Fits(f)'
  BY DEF Rmdir, Goto, On, Removed, Rest, Aim, Expect, Removable, processVars, historyVars,
         LockTypes, Alone, Inside, HalfDone, Fits, Sound
<1>6. NoLockLeaks'
  BY DEF Rmdir, Goto, On, Removed, Rest, Aim, Expect, Removable, processVars, historyVars,
         LockTypes, Alone, Inside, HalfDone, Fits, Sound, NoLockLeaks
<1>. QED  BY <1>1, <1>2, <1>3, <1>4, <1>5, <1>6 DEF LockInv

LEMMA RestoreStep ==
    ASSUME LockInv, NEW e \in Editors, Restore(e)
    PROVE  LockInv'
<1>. /\ LockTypes /\ NoLockLeaks /\ (owner # Nobody => dir)
     /\ (\A f \in Editors : Sound(f)) /\ (~stolen => Alone /\ \A f \in Editors : Fits(f))
  BY DEF LockInv
<1>1. LockTypes'
  <2>1. /\ at' \in [Editors -> Calls] /\ goal' \in [Editors -> {"acquire", "again", "release"}]
        /\ expected' \in [Editors -> Editors]
    BY DEF Restore, Goto, NotRemoved, Rest, Aim, Expect, processVars, historyVars, LockTypes, Calls
  <2>2. owner' \in Editors \cup {Nobody} /\ whole' \in BOOLEAN
    BY DEF Restore, LockTypes
  <2>. QED  BY <2>1, <2>2 DEF Restore, processVars, historyVars, LockTypes
<1>2. owner' # Nobody => dir'
  BY LockAssumption DEF Restore, Goto, NotRemoved, Rest, Aim, Expect, processVars, historyVars
<1>3. \A f \in Editors : Sound(f)'
  BY LockAssumption DEF Restore, Goto, NotRemoved, Rest, Aim, Expect, processVars, historyVars,
         LockTypes, Sound
<1>4. ~stolen' => Alone'
  BY LockAssumption DEF Restore, Goto, NotRemoved, Rest, Aim, Expect, processVars, historyVars,
         LockTypes, Alone, Inside, HalfDone, Fits, Sound
<1>5. ~stolen' => \A f \in Editors : Fits(f)'
  BY LockAssumption DEF Restore, Goto, NotRemoved, Rest, Aim, Expect, processVars, historyVars,
         LockTypes, Alone, Inside, HalfDone, Fits, Sound
<1>6. NoLockLeaks'
  BY LockAssumption DEF Restore, Goto, NotRemoved, Rest, Aim, Expect, processVars, historyVars,
         LockTypes, Alone, Inside, HalfDone, Fits, Sound, NoLockLeaks
<1>. QED  BY <1>1, <1>2, <1>3, <1>4, <1>5, <1>6 DEF LockInv

LEMMA BootStep ==
    ASSUME LockInv, NEW e \in Editors, Boot(e)
    PROVE  LockInv'
<1>. /\ LockTypes /\ NoLockLeaks /\ (owner # Nobody => dir)
     /\ (\A f \in Editors : Sound(f)) /\ (~stolen => Alone /\ \A f \in Editors : Fits(f))
  BY DEF LockInv
<1>1. LockTypes'
  BY DEF Boot, diskVars, historyVars, LockTypes, Calls
<1>2. owner' # Nobody => dir'
  BY DEF Boot, diskVars, historyVars
<1>3. \A f \in Editors : Sound(f)'
  BY DEF Boot, diskVars, historyVars, LockTypes, Sound
<1>4. ~stolen' => Alone'
  BY DEF Boot, diskVars, historyVars, LockTypes, Alone, Inside, HalfDone, Fits, Sound
<1>5. ~stolen' => \A f \in Editors : Fits(f)'
  BY DEF Boot, diskVars, historyVars, LockTypes, Alone, Inside, HalfDone, Fits, Sound
<1>6. NoLockLeaks'
  BY DEF Boot, diskVars, historyVars, LockTypes, Alone, Inside, HalfDone, Fits, Sound,
         NoLockLeaks
<1>. QED  BY <1>1, <1>2, <1>3, <1>4, <1>5, <1>6 DEF LockInv

LEMMA ExitStep ==
    ASSUME LockInv, NEW e \in Editors, Exit(e)
    PROVE  LockInv'
<1>. /\ LockTypes /\ NoLockLeaks /\ (owner # Nobody => dir)
     /\ (\A f \in Editors : Sound(f)) /\ (~stolen => Alone /\ \A f \in Editors : Fits(f))
  BY DEF LockInv
<1>1. LockTypes'
  BY DEF Exit, diskVars, historyVars, LockTypes, Calls
<1>2. owner' # Nobody => dir'
  BY DEF Exit, diskVars, historyVars
<1>3. \A f \in Editors : Sound(f)'
  BY DEF Exit, diskVars, historyVars, LockTypes, Sound
<1>4. ~stolen' => Alone'
  BY DEF Exit, diskVars, historyVars, LockTypes, Alone, Inside, HalfDone, Fits, Sound
<1>5. ~stolen' => \A f \in Editors : Fits(f)'
  BY DEF Exit, diskVars, historyVars, LockTypes, Alone, Inside, HalfDone, Fits, Sound
<1>6. NoLockLeaks'
  BY DEF Exit, diskVars, historyVars, LockTypes, Alone, Inside, HalfDone, Fits, Sound,
         NoLockLeaks
<1>. QED  BY <1>1, <1>2, <1>3, <1>4, <1>5, <1>6 DEF LockInv

LEMMA CrashStep ==
    ASSUME LockInv, NEW e \in Editors, Crash(e)
    PROVE  LockInv'
<1>. /\ LockTypes /\ NoLockLeaks /\ (owner # Nobody => dir)
     /\ (\A f \in Editors : Sound(f)) /\ (~stolen => Alone /\ \A f \in Editors : Fits(f))
  BY DEF LockInv
<1>1. LockTypes'
  BY LockAssumption DEF Crash, Goto, Rest, Aim, Expect, diskVars, LockTypes, Calls
<1>2. owner' # Nobody => dir'
  BY LockAssumption DEF Crash, Goto, Rest, Aim, Expect, diskVars
<1>3. \A f \in Editors : Sound(f)'
  BY LockAssumption DEF Crash, Goto, Rest, Aim, Expect, diskVars, LockTypes, Sound
<1>4. ~stolen' => Alone'
  BY LockAssumption DEF Crash, Goto, Rest, Aim, Expect, diskVars, LockTypes, Alone, Inside,
         HalfDone, Fits, Sound
<1>5. ~stolen' => \A f \in Editors : Fits(f)'
  BY LockAssumption DEF Crash, Goto, Rest, Aim, Expect, diskVars, LockTypes, Alone, Inside,
         HalfDone, Fits, Sound
<1>6. NoLockLeaks'
  <2>. SUFFICES ASSUME dir', ~stolen', ~torn', ~foreign', \A f \in Editors : ~Inside(f)'
                PROVE  owner' # Nobody /\ whole' /\ life'[owner'] = "gone"
    BY DEF NoLockLeaks
  <2>1. /\ UNCHANGED <<dir, owner, whole, foreign, stolen>>
        /\ life'[e] = "gone"
        /\ \A f \in Editors : life[f] = "gone" => life'[f] = "gone"
    BY DEF Crash, diskVars, LockTypes
  <2>2. ~torn /\ at[e] \notin HalfDone
    BY DEF Crash, LockTypes
  <2>3. CASE Inside(e)
    <3>1. owner = e /\ whole
      BY <2>1, <2>2, <2>3 DEF Inside, Fits
    <3>. QED  BY <2>1, <3>1, LockAssumption
  <2>4. CASE ~Inside(e)
    <3>1. \A f \in Editors : ~Inside(f)
      BY <2>4 DEF Crash, Rest, Goto, Aim, LockTypes, Inside
    <3>2. owner # Nobody /\ whole /\ life[owner] = "gone"
      BY <2>1, <2>2, <3>1 DEF NoLockLeaks
    <3>. QED  BY <2>1, <3>2 DEF LockTypes
  <2>. QED  BY <2>3, <2>4
<1>. QED  BY <1>1, <1>2, <1>3, <1>4, <1>5, <1>6 DEF LockInv

LEMMA PutForeignStep ==
    ASSUME LockInv, PutForeign
    PROVE  LockInv'
<1>. /\ LockTypes /\ NoLockLeaks /\ (owner # Nobody => dir)
     /\ (\A f \in Editors : Sound(f)) /\ (~stolen => Alone /\ \A f \in Editors : Fits(f))
  BY DEF LockInv
<1>1. LockTypes'
  BY DEF PutForeign, processVars, historyVars, LockTypes, Calls
<1>2. owner' # Nobody => dir'
  BY DEF PutForeign, processVars, historyVars
<1>3. \A f \in Editors : Sound(f)'
  BY DEF PutForeign, processVars, historyVars, LockTypes, Sound
<1>4. ~stolen' => Alone'
  BY DEF PutForeign, processVars, historyVars, LockTypes, Alone, Inside, HalfDone, Fits, Sound
<1>5. ~stolen' => \A f \in Editors : Fits(f)'
  BY DEF PutForeign, processVars, historyVars, LockTypes, Alone, Inside, HalfDone, Fits, Sound
<1>6. NoLockLeaks'
  BY DEF PutForeign, processVars, historyVars, LockTypes, Alone, Inside, HalfDone, Fits, Sound,
         NoLockLeaks
<1>. QED  BY <1>1, <1>2, <1>3, <1>4, <1>5, <1>6 DEF LockInv

-----------------------------------------------------------------------------
(* The theorems *)

LEMMA LockKept == LockInv /\ [LockNext]_lockVars => LockInv'
<1>. SUFFICES ASSUME LockInv, [LockNext]_lockVars PROVE LockInv'
  OBVIOUS
<1>1. CASE UNCHANGED lockVars
  BY <1>1 DEF lockVars, diskVars, processVars, historyVars, LockInv, LockTypes, Sound, Alone, Fits,
         Inside, HalfDone, NoLockLeaks
<1>2. CASE PutForeign
  BY <1>2, PutForeignStep
<1>3. ASSUME NEW e \in Editors, Ask(e) \/ Settle(e) \/ Release(e) \/ Boot(e) \/ Exit(e) \/ Crash(e)
      PROVE  LockInv'
  BY <1>3, AskStep, SettleStep, ReleaseStep, BootStep, ExitStep, CrashStep
<1>4. ASSUME NEW e \in Editors, Call(e) PROVE LockInv'
  <2>1. CASE Mkdir(e) \/ Create(e) \/ CreateFails(e) \/ Write(e) \/ WriteFails(e)
    BY <2>1, MkdirStep, CreateStep, CreateFailsStep, WriteStep, WriteFailsStep
  <2>2. CASE Unmake(e) \/ Unmade(e) \/ Inspect(e)
    BY <2>2, UnmakeStep, UnmadeStep, InspectStep
  <2>3. CASE Reread(e) \/ Unlink(e) \/ Rmdir(e) \/ Restore(e)
    BY <2>3, RereadStep, UnlinkStep, RmdirStep, RestoreStep
  <2>. QED  BY <1>4, <2>1, <2>2, <2>3 DEF Call
<1>. QED  BY <1>1, <1>2, <1>3, <1>4 DEF LockNext

\* What every process believes of the lock, and what lies on disk, agree at
\* every moment of acquire_canonical and safe_remove_lock.
THEOREM LockInvariance == LockSpec => []LockInv
  BY LockStart, LockKept, PTL DEF LockSpec

LEMMA InvIsOne == LockInv => LockIsOne
  BY DEF LockInv, LockIsOne, Alone, Fits, Inside, HalfDone

\* acquire_canonical gives the lock to one process at a time, and nothing but
\* an unlink of a file that was not the one read takes it away.
THEOREM OneHolder == LockSpec => []LockIsOne
  BY LockInvariance, InvIsOne, PTL

\* No failure and no release leaves a lock of nobody, or of a living process.
THEOREM NothingLeaks == LockSpec => []NoLockLeaks
<1>1. LockInv => NoLockLeaks
  BY DEF LockInv
<1>. QED  BY <1>1, LockInvariance, PTL

=============================================================================
