---------------------------- MODULE EditorFileProofs --------------------------
(***************************************************************************)
(* Proofs about EditorFile.  What its actions do to the lock are actions   *)
(* of EditorLock, so every theorem about the lock holds of the editor; on  *)
(* top of it, FileInv says where each process stands with the lock in      *)
(* every state of its buffer, and which fingerprints can be relied on.     *)
(***************************************************************************)
EXTENDS EditorFile, EditorLockProofs

(* The editor uses the lock as it is meant to be used. *)

LEMMA LockInitially == Init => LockInit
  BY DEF Init

LEMMA LockStepwise == Next => [LockNext]_lockVars
<1>1. ASSUME NEW e \in Editors, Opening(e) PROVE [LockNext]_lockVars
  <2>1. ASSUME NEW what, Start(e, what) PROVE LockNext
    BY <2>1 DEF Start, LockNext
  <2>2. CASE Open(e) \/ Offer(e) \/ Load(e) \/ Recover(e)
    BY <2>2 DEF Open, Offer, Load, Recover
  <2>3. CASE Fingerprint(e)
    BY <2>3 DEF Fingerprint, LockNext
  <2>4. CASE RecoverFails(e) \/ Begun(e)
    BY <2>4 DEF RecoverFails, Begun, LetGo, Answered, LockNext
  <2>. QED  BY <1>1, <2>1, <2>2, <2>3, <2>4 DEF Opening
<1>2. ASSUME NEW e \in Editors, Editing(e) PROVE [LockNext]_lockVars
  <2>1. CASE Retry(e) \/ Decline(e)
    BY <2>1 DEF Retry, Decline, LockNext
  <2>2. CASE Retried(e)
    BY <2>2 DEF Retried, Answered, LockNext
  <2>3. CASE Compare(e) \/ Agree(e) \/ Reload(e) \/ Dropped(e) \/ Autosave(e)
    BY <2>3 DEF Compare, Agree, Reload, Dropped, Autosave
  <2>. QED  BY <1>2, <2>1, <2>2, <2>3 DEF Editing
<1>3. ASSUME NEW e \in Editors, Saving(e) PROVE [LockNext]_lockVars
  <2>1. CASE SaveAs(e)
    BY <2>1 DEF SaveAs, LockNext
  <2>2. CASE SaveAsAnswered(e)
    BY <2>2 DEF SaveAsAnswered, Answered, LockNext
  <2>3. CASE Refuse(e) \/ SaveFails(e)
    BY <2>3 DEF Refuse, SaveFails, Back, LetGo, LockNext
  <2>4. CASE Save(e) \/ SaveAsInspect(e) \/ Confirm(e) \/ Check(e)
    BY <2>4 DEF Save, SaveAsInspect, Confirm, Check
  <2>5. CASE Replace(e) \/ Tidy(e) \/ Refresh(e)
    BY <2>5 DEF Replace, Tidy, Refresh
  <2>. QED  BY <1>3, <2>1, <2>2, <2>3, <2>4, <2>5 DEF Saving
<1>4. ASSUME NEW e \in Editors, Leaving(e) PROVE [LockNext]_lockVars
  <2>1. CASE Close(e)
    BY <2>1 DEF Close, LetGo, LockNext
  <2>2. CASE Closed(e) \/ Quit(e)
    BY <2>2 DEF Closed, Quit
  <2>3. CASE Ended(e) \/ Die(e)
    BY <2>3 DEF Ended, Die, LockNext
  <2>. QED  BY <1>4, <2>1, <2>2, <2>3 DEF Leaving
<1>5. LockWork => LockNext
  BY DEF LockWork, LockNext
<1>6. Outside => UNCHANGED lockVars
  BY DEF Outside
<1>. QED  BY <1>1, <1>2, <1>3, <1>4, <1>5, <1>6 DEF Next

\* The editor implements the lock's specification: it asks only when it has
\* nothing, gives back only what it holds, and goes on only with an answer.
THEOREM LockIsFollowed == Spec => LockSpec
<1>1. UNCHANGED vars => UNCHANGED lockVars
  BY DEF vars
<1>. QED  BY <1>1, LockInitially, LockStepwise, PTL DEF Spec, LockSpec

\* EditorFileLock serves one editor at a time, whatever they do with the file.
THEOREM FileHasOneHolder == Spec => []LockIsOne
  BY LockIsFollowed, OneHolder, PTL

\* The editor leaves no lock of nobody behind: docs/decisions.md, the lock is
\* held for the lifetime of the buffer.
THEOREM FileLockLeaksNot == Spec => []NoLockLeaks
  BY LockIsFollowed, NothingLeaks, PTL

-----------------------------------------------------------------------------
(* The buffers, one lemma per action *)

LEMMA FileStart == Init => FileInv
<1>. SUFFICES ASSUME Init PROVE FileInv
  OBVIOUS
<1>1. LockTypes
  BY LockInitially, LockStart DEF LockInv
<1>2. FileTypes
  BY DEF Init, FileTypes, Shows
<1>3. \A e \in Editors : ui[e] = "down" /\ at[e] = "out" /\ order[e] = "session" /\ life[e] = "new"
  BY DEF Init, LockInit
<1>4. \A e \in Editors : Stands(e)
  BY <1>3 DEF Stands, Holds
<1>5. \A e \in Editors : Backed(e) /\ Informed(e)
  BY <1>3 DEF Init, Backed, Informed, Blind
<1>6. AutosaveKept
  BY DEF Init, AutosaveKept
<1>. QED  BY <1>1, <1>2, <1>4, <1>5, <1>6 DEF FileInv, TypeOK, Stands

LEMMA StartKeeps ==
    ASSUME LockInv, LockInv', FileInv, NEW e \in Editors, NEW what, Start(e, what)
    PROVE  FileInv'
<1>. /\ LockTypes /\ FileTypes /\ AutosaveKept
     /\ (\A f \in Editors : Stands(f) /\ Backed(f)) /\ (~stolen => \A f \in Editors : Informed(f))
  BY DEF FileInv, TypeOK
<1>1. FileTypes'
  BY DEF Start, Boot, Show, docVars, bufVars, diskVars, historyVars, FileTypes, Shows
<1>2. \A f \in Editors : Stands(f)'
  BY DEF Start, Boot, Show, docVars, bufVars, diskVars, historyVars, FileTypes, LockTypes,
         Stands, Holds
<1>3. \A f \in Editors : Backed(f)'
  BY DEF Start, Boot, Show, docVars, bufVars, diskVars, historyVars, FileTypes, LockTypes,
         Backed
<1>4. ~stolen' => \A f \in Editors : Informed(f)'
  BY DEF Start, Boot, Show, docVars, bufVars, diskVars, historyVars, FileTypes, LockTypes,
         Informed, Unread, Blind, Stands
<1>5. AutosaveKept'
  BY DEF Start, Boot, Show, docVars, bufVars, diskVars, historyVars, FileTypes, LockTypes,
         AutosaveKept, Holds, Backed
<1>. QED  BY <1>1, <1>2, <1>3, <1>4, <1>5 DEF FileInv, TypeOK, LockInv, Stands

LEMMA OpenKeeps ==
    ASSUME LockInv, LockInv', FileInv, NEW e \in Editors, Open(e)
    PROVE  FileInv'
<1>. /\ LockTypes /\ FileTypes /\ AutosaveKept
     /\ (\A f \in Editors : Stands(f) /\ Backed(f)) /\ (~stolen => \A f \in Editors : Informed(f))
  BY DEF FileInv, TypeOK
<1>1. FileTypes'
  BY DEF Open, Show, lockVars, docVars, diskVars, processVars, historyVars, FileTypes, Shows
<1>2. \A f \in Editors : Stands(f)'
  BY DEF Open, Show, lockVars, docVars, diskVars, processVars, historyVars, FileTypes,
         LockTypes, Stands, Holds
<1>3. \A f \in Editors : Backed(f)'
  BY DEF Open, Show, lockVars, docVars, diskVars, processVars, historyVars, FileTypes,
         LockTypes, Backed
<1>4. ~stolen' => \A f \in Editors : Informed(f)'
  BY DEF Open, Show, lockVars, docVars, diskVars, processVars, historyVars, FileTypes,
         LockTypes, Informed, Unread, Blind, Stands
<1>5. AutosaveKept'
  BY DEF Open, Show, lockVars, docVars, diskVars, processVars, historyVars, FileTypes,
         LockTypes, AutosaveKept, Holds, Backed
<1>. QED  BY <1>1, <1>2, <1>3, <1>4, <1>5 DEF FileInv, TypeOK, LockInv, Stands

LEMMA OfferKeeps ==
    ASSUME LockInv, LockInv', FileInv, NEW e \in Editors, Offer(e)
    PROVE  FileInv'
<1>. /\ LockTypes /\ FileTypes /\ AutosaveKept
     /\ (\A f \in Editors : Stands(f) /\ Backed(f)) /\ (~stolen => \A f \in Editors : Informed(f))
  BY DEF FileInv, TypeOK
<1>1. FileTypes'
  BY DEF Offer, Show, Know, lockVars, docVars, diskVars, processVars, historyVars, FileTypes,
         Shows
<1>2. \A f \in Editors : Stands(f)'
  BY DEF Offer, Show, Know, lockVars, docVars, diskVars, processVars, historyVars, FileTypes,
         LockTypes, Stands, Holds
<1>3. \A f \in Editors : Backed(f)'
  BY DEF Offer, Show, Know, lockVars, docVars, diskVars, processVars, historyVars, FileTypes,
         LockTypes, Backed
<1>4. ~stolen' => \A f \in Editors : Informed(f)'
  BY DEF Offer, Show, Know, lockVars, docVars, diskVars, processVars, historyVars, FileTypes,
         LockTypes, Informed, Unread, Blind, Stands
<1>5. AutosaveKept'
  BY DEF Offer, Show, Know, lockVars, docVars, diskVars, processVars, historyVars, FileTypes,
         LockTypes, AutosaveKept, Holds, Backed
<1>. QED  BY <1>1, <1>2, <1>3, <1>4, <1>5 DEF FileInv, TypeOK, LockInv, Stands

LEMMA LoadKeeps ==
    ASSUME LockInv, LockInv', FileInv, NEW e \in Editors, Load(e)
    PROVE  FileInv'
<1>. /\ LockTypes /\ FileTypes /\ AutosaveKept
     /\ (\A f \in Editors : Stands(f) /\ Backed(f)) /\ (~stolen => \A f \in Editors : Informed(f))
  BY DEF FileInv, TypeOK
<1>1. FileTypes'
  BY DEF Load, Know, Loaded, lockVars, docVars, Show, diskVars, processVars, historyVars,
         FileTypes, Shows
<1>2. \A f \in Editors : Stands(f)'
  BY DEF Load, Know, Loaded, lockVars, docVars, Show, diskVars, processVars, historyVars,
         FileTypes, LockTypes, Stands, Holds
<1>3. \A f \in Editors : Backed(f)'
  BY DEF Load, Know, Loaded, lockVars, docVars, Show, diskVars, processVars, historyVars,
         FileTypes, LockTypes, Backed
<1>4. ~stolen' => \A f \in Editors : Informed(f)'
  BY DEF Load, Know, Loaded, lockVars, docVars, Show, diskVars, processVars, historyVars,
         FileTypes, LockTypes, Informed, Unread, Blind, Stands
<1>5. AutosaveKept'
  BY DEF Load, Know, Loaded, lockVars, docVars, Show, diskVars, processVars, historyVars,
         FileTypes, LockTypes, AutosaveKept, Holds, Backed
<1>. QED  BY <1>1, <1>2, <1>3, <1>4, <1>5 DEF FileInv, TypeOK, LockInv, Stands

LEMMA RecoverKeeps ==
    ASSUME LockInv, LockInv', FileInv, NEW e \in Editors, Recover(e)
    PROVE  FileInv'
<1>. /\ LockTypes /\ FileTypes /\ AutosaveKept
     /\ (\A f \in Editors : Stands(f) /\ Backed(f)) /\ (~stolen => \A f \in Editors : Informed(f))
  BY DEF FileInv, TypeOK
<1>1. FileTypes'
  BY DEF Recover, Nobody, Loaded, lockVars, docVars, bufVars, Show, diskVars, processVars,
         historyVars, FileTypes, Shows
<1>2. \A f \in Editors : Stands(f)'
  BY DEF Recover, Nobody, Loaded, lockVars, docVars, bufVars, Show, diskVars, processVars,
         historyVars, FileTypes, LockTypes, Stands, Holds
<1>3. \A f \in Editors : Backed(f)'
  BY DEF Recover, Nobody, Loaded, lockVars, docVars, bufVars, Show, diskVars, processVars,
         historyVars, FileTypes, LockTypes, Backed
<1>4. ~stolen' => \A f \in Editors : Informed(f)'
  BY DEF Recover, Nobody, Loaded, lockVars, docVars, bufVars, Show, diskVars, processVars,
         historyVars, FileTypes, LockTypes, Informed, Unread, Blind, Stands
<1>5. AutosaveKept'
  BY DEF Recover, Nobody, Loaded, lockVars, docVars, bufVars, Show, diskVars, processVars,
         historyVars, FileTypes, LockTypes, AutosaveKept, Holds, Backed
<1>. QED  BY <1>1, <1>2, <1>3, <1>4, <1>5 DEF FileInv, TypeOK, LockInv, Stands

LEMMA RecoverFailsKeeps ==
    ASSUME LockInv, LockInv', FileInv, NEW e \in Editors, RecoverFails(e)
    PROVE  FileInv'
<1>. /\ LockTypes /\ FileTypes /\ AutosaveKept
     /\ (\A f \in Editors : Stands(f) /\ Backed(f)) /\ (~stolen => \A f \in Editors : Informed(f))
  BY DEF FileInv, TypeOK
<1>1. FileTypes'
  BY DEF RecoverFails, Nobody, LetGo, Show, docVars, bufVars, Release, lockVars, Goto, Aim,
         diskVars, processVars, historyVars, FileTypes, Shows
<1>2. \A f \in Editors : Stands(f)'
  BY DEF RecoverFails, Nobody, LetGo, Show, docVars, bufVars, Release, lockVars, Goto, Aim,
         diskVars, processVars, historyVars, FileTypes, LockTypes, Stands, Holds
<1>3. \A f \in Editors : Backed(f)'
  BY DEF RecoverFails, Show, docVars, bufVars, FileTypes, LockTypes, Backed
<1>4. ~stolen' => \A f \in Editors : Informed(f)'
  BY DEF RecoverFails, Nobody, LetGo, Show, docVars, bufVars, Release, lockVars, Goto, Aim,
         diskVars, processVars, historyVars, FileTypes, LockTypes, Informed, Unread, Blind,
         Stands
<1>5. AutosaveKept'
  BY DEF RecoverFails, Nobody, LetGo, Show, docVars, bufVars, Release, lockVars, Goto, Aim,
         diskVars, processVars, historyVars, FileTypes, LockTypes, AutosaveKept, Holds, Backed
<1>. QED  BY <1>1, <1>2, <1>3, <1>4, <1>5 DEF FileInv, TypeOK, LockInv, Stands

LEMMA FingerprintKeeps ==
    ASSUME LockInv, LockInv', FileInv, NEW e \in Editors, Fingerprint(e)
    PROVE  FileInv'
<1>. /\ LockTypes /\ FileTypes /\ AutosaveKept
     /\ (\A f \in Editors : Stands(f) /\ Backed(f)) /\ (~stolen => \A f \in Editors : Informed(f))
  BY DEF FileInv, TypeOK
<1>1. FileTypes'
  BY DEF Fingerprint, Know, Ask, Show, docVars, Goto, diskVars, processVars, historyVars,
         FileTypes, Shows
<1>2. \A f \in Editors : Stands(f)'
  BY DEF Fingerprint, Know, Ask, Show, docVars, Goto, diskVars, processVars, historyVars,
         FileTypes, LockTypes, Stands, Holds, LockInv, Sound
<1>3. \A f \in Editors : Backed(f)'
  BY DEF Fingerprint, Know, Ask, Show, docVars, Goto, diskVars, processVars, historyVars,
         FileTypes, LockTypes, Backed
<1>4. ~stolen' => \A f \in Editors : Informed(f)'
  BY DEF Fingerprint, Know, Ask, Show, docVars, Goto, diskVars, processVars, historyVars,
         FileTypes, LockTypes, Informed, Unread, Blind, Stands
<1>5. AutosaveKept'
  BY DEF Fingerprint, Know, Ask, Show, docVars, Goto, diskVars, processVars, historyVars,
         FileTypes, LockTypes, AutosaveKept, Holds, Backed
<1>. QED  BY <1>1, <1>2, <1>3, <1>4, <1>5 DEF FileInv, TypeOK, LockInv, Stands

LEMMA BegunKeeps ==
    ASSUME LockInv, LockInv', FileInv, NEW e \in Editors, Begun(e)
    PROVE  FileInv'
<1>. /\ LockTypes /\ FileTypes /\ AutosaveKept
     /\ (\A f \in Editors : Stands(f) /\ Backed(f)) /\ (~stolen => \A f \in Editors : Informed(f))
  BY DEF FileInv, TypeOK
<1>1. FileTypes'
  BY DEF Begun, Answered, LeavesReadOnly, Show, docVars, lockVars, Settle, diskVars,
         processVars, historyVars, Rest, Goto, Aim, Expect, FileTypes, Shows
<1>2. \A f \in Editors : Stands(f)'
  BY DEF Begun, Answered, LeavesReadOnly, Show, docVars, lockVars, Settle, diskVars,
         processVars, historyVars, Rest, Goto, Aim, Expect, FileTypes, LockTypes, Stands, Holds
<1>3. \A f \in Editors : Backed(f)'
  BY DEF Begun, Answered, LeavesReadOnly, Show, docVars, lockVars, Settle, diskVars,
         processVars, historyVars, Rest, Goto, Aim, Expect, FileTypes, LockTypes, Backed
<1>4. ~stolen' => \A f \in Editors : Informed(f)'
  BY DEF Begun, Answered, LeavesReadOnly, Show, docVars, lockVars, Settle, diskVars,
         processVars, historyVars, Rest, Goto, Aim, Expect, FileTypes, LockTypes, Informed,
         Unread, Blind, Stands
<1>5. AutosaveKept'
  BY DEF Begun, Answered, LeavesReadOnly, Show, docVars, lockVars, Settle, diskVars,
         processVars, historyVars, Rest, Goto, Aim, Expect, FileTypes, LockTypes, AutosaveKept,
         Holds, Backed
<1>. QED  BY <1>1, <1>2, <1>3, <1>4, <1>5 DEF FileInv, TypeOK, LockInv, Stands

LEMMA RetryKeeps ==
    ASSUME LockInv, LockInv', FileInv, NEW e \in Editors, Retry(e)
    PROVE  FileInv'
<1>. /\ LockTypes /\ FileTypes /\ AutosaveKept
     /\ (\A f \in Editors : Stands(f) /\ Backed(f)) /\ (~stolen => \A f \in Editors : Informed(f))
  BY DEF FileInv, TypeOK
<1>1. FileTypes'
  BY DEF Retry, Ask, Show, docVars, bufVars, Goto, diskVars, processVars, historyVars,
         FileTypes, Shows
<1>2. \A f \in Editors : Stands(f)'
  BY DEF Retry, Ask, Show, docVars, bufVars, Goto, diskVars, processVars, historyVars,
         FileTypes, LockTypes, Stands, Holds, LockInv, Sound
<1>3. \A f \in Editors : Backed(f)'
  BY DEF Retry, Ask, Show, docVars, bufVars, Goto, diskVars, processVars, historyVars,
         FileTypes, LockTypes, Backed
<1>4. ~stolen' => \A f \in Editors : Informed(f)'
  BY DEF Retry, Ask, Show, docVars, bufVars, Goto, diskVars, processVars, historyVars,
         FileTypes, LockTypes, Informed, Unread, Blind, Stands
<1>5. AutosaveKept'
  BY DEF Retry, Ask, Show, docVars, bufVars, Goto, diskVars, processVars, historyVars,
         FileTypes, LockTypes, AutosaveKept, Holds, Backed
<1>. QED  BY <1>1, <1>2, <1>3, <1>4, <1>5 DEF FileInv, TypeOK, LockInv, Stands

LEMMA RetriedKeeps ==
    ASSUME LockInv, LockInv', FileInv, NEW e \in Editors, Retried(e)
    PROVE  FileInv'
<1>. /\ LockTypes /\ FileTypes /\ AutosaveKept
     /\ (\A f \in Editors : Stands(f) /\ Backed(f)) /\ (~stolen => \A f \in Editors : Informed(f))
  BY DEF FileInv, TypeOK
<1>1. FileTypes'
  BY DEF Retried, Answered, Show, docVars, bufVars, lockVars, Settle, diskVars, processVars,
         historyVars, Rest, Goto, Aim, Expect, FileTypes, Shows
<1>2. \A f \in Editors : Stands(f)'
  BY DEF Retried, Answered, Show, docVars, bufVars, lockVars, Settle, diskVars, processVars,
         historyVars, Rest, Goto, Aim, Expect, FileTypes, LockTypes, Stands, Holds
<1>3. \A f \in Editors : Backed(f)'
  BY DEF Retried, Answered, Show, docVars, bufVars, lockVars, Settle, diskVars, processVars,
         historyVars, Rest, Goto, Aim, Expect, FileTypes, LockTypes, Backed
<1>4. ~stolen' => \A f \in Editors : Informed(f)'
  BY DEF Retried, Answered, Show, docVars, bufVars, lockVars, Settle, diskVars, processVars,
         historyVars, Rest, Goto, Aim, Expect, FileTypes, LockTypes, Informed, Unread, Blind,
         Stands
<1>5. AutosaveKept'
  BY DEF Retried, Answered, Show, docVars, bufVars, lockVars, Settle, diskVars, processVars,
         historyVars, Rest, Goto, Aim, Expect, FileTypes, LockTypes, AutosaveKept, Holds, Backed
<1>. QED  BY <1>1, <1>2, <1>3, <1>4, <1>5 DEF FileInv, TypeOK, LockInv, Stands

LEMMA CompareKeeps ==
    ASSUME LockInv, LockInv', FileInv, NEW e \in Editors, Compare(e)
    PROVE  FileInv'
<1>. /\ LockTypes /\ FileTypes /\ AutosaveKept
     /\ (\A f \in Editors : Stands(f) /\ Backed(f)) /\ (~stolen => \A f \in Editors : Informed(f))
  BY DEF FileInv, TypeOK
<1>1. FileTypes'
  BY DEF Compare, Changed, Show, lockVars, docVars, diskVars, processVars, historyVars,
         FileTypes, Shows
<1>2. \A f \in Editors : Stands(f)'
  BY DEF Compare, Changed, Show, lockVars, docVars, diskVars, processVars, historyVars,
         FileTypes, LockTypes, Stands, Holds
<1>3. \A f \in Editors : Backed(f)'
  BY DEF Compare, Changed, Show, lockVars, docVars, diskVars, processVars, historyVars,
         FileTypes, LockTypes, Backed
<1>4. ~stolen' => \A f \in Editors : Informed(f)'
  BY DEF Compare, Changed, Show, lockVars, docVars, diskVars, processVars, historyVars,
         FileTypes, LockTypes, Informed, Unread, Blind, Stands
<1>5. AutosaveKept'
  BY DEF Compare, Changed, Show, lockVars, docVars, diskVars, processVars, historyVars,
         FileTypes, LockTypes, AutosaveKept, Holds, Backed
<1>. QED  BY <1>1, <1>2, <1>3, <1>4, <1>5 DEF FileInv, TypeOK, LockInv, Stands

LEMMA AgreeKeeps ==
    ASSUME LockInv, LockInv', FileInv, NEW e \in Editors, Agree(e)
    PROVE  FileInv'
<1>. /\ LockTypes /\ FileTypes /\ AutosaveKept
     /\ (\A f \in Editors : Stands(f) /\ Backed(f)) /\ (~stolen => \A f \in Editors : Informed(f))
  BY DEF FileInv, TypeOK
<1>1. FileTypes'
  BY DEF Agree, Show, lockVars, docVars, diskVars, processVars, historyVars, FileTypes, Shows
<1>2. \A f \in Editors : Stands(f)'
  BY DEF Agree, Show, lockVars, docVars, diskVars, processVars, historyVars, FileTypes,
         LockTypes, Stands, Holds
<1>3. \A f \in Editors : Backed(f)'
  BY DEF Agree, Show, lockVars, docVars, diskVars, processVars, historyVars, FileTypes,
         LockTypes, Backed
<1>4. ~stolen' => \A f \in Editors : Informed(f)'
  BY DEF Agree, Show, lockVars, docVars, diskVars, processVars, historyVars, FileTypes,
         LockTypes, Informed, Unread, Blind, Stands
<1>5. AutosaveKept'
  BY DEF Agree, Show, lockVars, docVars, diskVars, processVars, historyVars, FileTypes,
         LockTypes, AutosaveKept, Holds, Backed
<1>. QED  BY <1>1, <1>2, <1>3, <1>4, <1>5 DEF FileInv, TypeOK, LockInv, Stands

LEMMA ReloadKeeps ==
    ASSUME LockInv, LockInv', FileInv, NEW e \in Editors, Reload(e)
    PROVE  FileInv'
<1>. /\ LockTypes /\ FileTypes /\ AutosaveKept
     /\ (\A f \in Editors : Stands(f) /\ Backed(f)) /\ (~stolen => \A f \in Editors : Informed(f))
  BY DEF FileInv, TypeOK
<1>1. FileTypes'
  BY DEF Reload, Know, Show, lockVars, docVars, diskVars, processVars, historyVars, FileTypes,
         Shows
<1>2. \A f \in Editors : Stands(f)'
  BY DEF Reload, Know, Show, lockVars, docVars, diskVars, processVars, historyVars, FileTypes,
         LockTypes, Stands, Holds
<1>3. \A f \in Editors : Backed(f)'
  BY DEF Reload, Know, Show, lockVars, docVars, diskVars, processVars, historyVars, FileTypes,
         LockTypes, Backed
<1>4. ~stolen' => \A f \in Editors : Informed(f)'
  BY DEF Reload, Know, Show, lockVars, docVars, diskVars, processVars, historyVars, FileTypes,
         LockTypes, Informed, Unread, Blind, Stands
<1>5. AutosaveKept'
  BY DEF Reload, Know, Show, lockVars, docVars, diskVars, processVars, historyVars, FileTypes,
         LockTypes, AutosaveKept, Holds, Backed
<1>. QED  BY <1>1, <1>2, <1>3, <1>4, <1>5 DEF FileInv, TypeOK, LockInv, Stands

LEMMA DeclineKeeps ==
    ASSUME LockInv, LockInv', FileInv, NEW e \in Editors, Decline(e)
    PROVE  FileInv'
<1>. /\ LockTypes /\ FileTypes /\ AutosaveKept
     /\ (\A f \in Editors : Stands(f) /\ Backed(f)) /\ (~stolen => \A f \in Editors : Informed(f))
  BY DEF FileInv, TypeOK
<1>1. FileTypes'
  BY DEF Decline, Release, Show, docVars, bufVars, Goto, Aim, diskVars, processVars,
         historyVars, FileTypes, Shows
<1>2. \A f \in Editors : Stands(f)'
  BY DEF Decline, Release, Show, docVars, bufVars, Goto, Aim, diskVars, processVars,
         historyVars, FileTypes, LockTypes, Stands, Holds
<1>3. \A f \in Editors : Backed(f)'
  BY DEF Decline, Release, Show, docVars, bufVars, Goto, Aim, diskVars, processVars,
         historyVars, FileTypes, LockTypes, Backed
<1>4. ~stolen' => \A f \in Editors : Informed(f)'
  BY DEF Decline, Release, Show, docVars, bufVars, Goto, Aim, diskVars, processVars,
         historyVars, FileTypes, LockTypes, Informed, Unread, Blind, Stands
<1>5. AutosaveKept'
  BY DEF Decline, Release, Show, docVars, bufVars, Goto, Aim, diskVars, processVars,
         historyVars, FileTypes, LockTypes, AutosaveKept, Holds, Backed
<1>. QED  BY <1>1, <1>2, <1>3, <1>4, <1>5 DEF FileInv, TypeOK, LockInv, Stands

LEMMA DroppedKeeps ==
    ASSUME LockInv, LockInv', FileInv, NEW e \in Editors, Dropped(e)
    PROVE  FileInv'
<1>. /\ LockTypes /\ FileTypes /\ AutosaveKept
     /\ (\A f \in Editors : Stands(f) /\ Backed(f)) /\ (~stolen => \A f \in Editors : Informed(f))
  BY DEF FileInv, TypeOK
<1>1. FileTypes'
  BY DEF Dropped, Show, lockVars, docVars, bufVars, diskVars, processVars, historyVars,
         FileTypes, Shows
<1>2. \A f \in Editors : Stands(f)'
  BY DEF Dropped, Show, lockVars, docVars, bufVars, diskVars, processVars, historyVars,
         FileTypes, LockTypes, Stands, Holds
<1>3. \A f \in Editors : Backed(f)'
  BY DEF Dropped, Show, lockVars, docVars, bufVars, diskVars, processVars, historyVars,
         FileTypes, LockTypes, Backed
<1>4. ~stolen' => \A f \in Editors : Informed(f)'
  BY DEF Dropped, Show, lockVars, docVars, bufVars, diskVars, processVars, historyVars,
         FileTypes, LockTypes, Informed, Unread, Blind, Stands
<1>5. AutosaveKept'
  BY DEF Dropped, Show, lockVars, docVars, bufVars, diskVars, processVars, historyVars,
         FileTypes, LockTypes, AutosaveKept, Holds, Backed
<1>. QED  BY <1>1, <1>2, <1>3, <1>4, <1>5 DEF FileInv, TypeOK, LockInv, Stands

LEMMA AutosaveKeeps ==
    ASSUME LockInv, LockInv', FileInv, NEW e \in Editors, Autosave(e)
    PROVE  FileInv'
<1>. /\ LockTypes /\ FileTypes /\ AutosaveKept
     /\ (\A f \in Editors : Stands(f) /\ Backed(f)) /\ (~stolen => \A f \in Editors : Informed(f))
  BY DEF FileInv, TypeOK
<1>1. FileTypes'
  BY DEF Autosave, lockVars, diskVars, processVars, historyVars, FileTypes, Shows
<1>2. \A f \in Editors : Stands(f)'
  BY DEF Autosave, lockVars, diskVars, processVars, historyVars, FileTypes, LockTypes, Stands,
         Holds
<1>3. \A f \in Editors : Backed(f)'
  BY DEF Autosave, lockVars, diskVars, processVars, historyVars, FileTypes, LockTypes, Backed
<1>4. ~stolen' => \A f \in Editors : Informed(f)'
  BY DEF Autosave, lockVars, diskVars, processVars, historyVars, FileTypes, LockTypes,
         Informed, Unread, Blind, Stands
<1>5. AutosaveKept'
  BY DEF Autosave, lockVars, diskVars, processVars, historyVars, FileTypes, LockTypes,
         AutosaveKept, Holds, Backed, LockInv, Alone, Inside, HalfDone, Stands, Holds
<1>. QED  BY <1>1, <1>2, <1>3, <1>4, <1>5 DEF FileInv, TypeOK, LockInv, Stands

LEMMA SaveKeeps ==
    ASSUME LockInv, LockInv', FileInv, NEW e \in Editors, Save(e)
    PROVE  FileInv'
<1>. /\ LockTypes /\ FileTypes /\ AutosaveKept
     /\ (\A f \in Editors : Stands(f) /\ Backed(f)) /\ (~stolen => \A f \in Editors : Informed(f))
  BY DEF FileInv, TypeOK
<1>1. FileTypes'
  BY DEF Save, Show, Changed, lockVars, docVars, diskVars, processVars, historyVars, FileTypes,
         Shows
<1>2. \A f \in Editors : Stands(f)'
  BY DEF Save, Show, Changed, lockVars, docVars, diskVars, processVars, historyVars, FileTypes,
         LockTypes, Stands, Holds
<1>3. \A f \in Editors : Backed(f)'
  BY DEF Save, Show, Changed, lockVars, docVars, diskVars, processVars, historyVars, FileTypes,
         LockTypes, Backed
<1>4. ~stolen' => \A f \in Editors : Informed(f)'
  BY DEF Save, Show, Changed, lockVars, docVars, diskVars, processVars, historyVars, FileTypes,
         LockTypes, Informed, Unread, Blind, Stands
<1>5. AutosaveKept'
  BY DEF Save, Show, Changed, lockVars, docVars, diskVars, processVars, historyVars, FileTypes,
         LockTypes, AutosaveKept, Holds, Backed
<1>. QED  BY <1>1, <1>2, <1>3, <1>4, <1>5 DEF FileInv, TypeOK, LockInv, Stands

LEMMA SaveAsKeeps ==
    ASSUME LockInv, LockInv', FileInv, NEW e \in Editors, SaveAs(e)
    PROVE  FileInv'
<1>. /\ LockTypes /\ FileTypes /\ AutosaveKept
     /\ (\A f \in Editors : Stands(f) /\ Backed(f)) /\ (~stolen => \A f \in Editors : Informed(f))
  BY DEF FileInv, TypeOK
<1>1. FileTypes'
  BY DEF SaveAs, Ask, Show, docVars, Goto, diskVars, processVars, historyVars, FileTypes, Shows
<1>2. \A f \in Editors : Stands(f)'
  BY DEF SaveAs, Ask, Show, docVars, Goto, diskVars, processVars, historyVars, FileTypes,
         LockTypes, Stands, Holds, LockInv, Sound
<1>3. \A f \in Editors : Backed(f)'
  BY DEF SaveAs, Ask, Show, docVars, Goto, diskVars, processVars, historyVars, FileTypes,
         LockTypes, Backed
<1>4. ~stolen' => \A f \in Editors : Informed(f)'
  BY DEF SaveAs, Ask, Show, docVars, Goto, diskVars, processVars, historyVars, FileTypes,
         LockTypes, Informed, Unread, Blind, Stands
<1>5. AutosaveKept'
  BY DEF SaveAs, Ask, Show, docVars, Goto, diskVars, processVars, historyVars, FileTypes,
         LockTypes, AutosaveKept, Holds, Backed
<1>. QED  BY <1>1, <1>2, <1>3, <1>4, <1>5 DEF FileInv, TypeOK, LockInv, Stands

LEMMA SaveAsAnsweredKeeps ==
    ASSUME LockInv, LockInv', FileInv, NEW e \in Editors, SaveAsAnswered(e)
    PROVE  FileInv'
<1>. /\ LockTypes /\ FileTypes /\ AutosaveKept
     /\ (\A f \in Editors : Stands(f) /\ Backed(f)) /\ (~stolen => \A f \in Editors : Informed(f))
  BY DEF FileInv, TypeOK
<1>1. FileTypes'
  BY DEF SaveAsAnswered, Answered, Show, docVars, bufVars, lockVars, Settle, diskVars,
         processVars, historyVars, Rest, Goto, Aim, Expect, FileTypes, Shows
<1>2. \A f \in Editors : Stands(f)'
  BY DEF SaveAsAnswered, Answered, Show, docVars, bufVars, lockVars, Settle, diskVars,
         processVars, historyVars, Rest, Goto, Aim, Expect, FileTypes, LockTypes, Stands, Holds
<1>3. \A f \in Editors : Backed(f)'
  BY DEF SaveAsAnswered, Answered, Show, docVars, bufVars, lockVars, Settle, diskVars,
         processVars, historyVars, Rest, Goto, Aim, Expect, FileTypes, LockTypes, Backed
<1>4. ~stolen' => \A f \in Editors : Informed(f)'
  BY DEF SaveAsAnswered, Answered, Show, docVars, bufVars, lockVars, Settle, diskVars,
         processVars, historyVars, Rest, Goto, Aim, Expect, FileTypes, LockTypes, Informed,
         Unread, Blind, Stands
<1>5. AutosaveKept'
  BY DEF SaveAsAnswered, Answered, Show, docVars, bufVars, lockVars, Settle, diskVars,
         processVars, historyVars, Rest, Goto, Aim, Expect, FileTypes, LockTypes, AutosaveKept,
         Holds, Backed
<1>. QED  BY <1>1, <1>2, <1>3, <1>4, <1>5 DEF FileInv, TypeOK, LockInv, Stands

LEMMA SaveAsInspectKeeps ==
    ASSUME LockInv, LockInv', FileInv, NEW e \in Editors, SaveAsInspect(e)
    PROVE  FileInv'
<1>. /\ LockTypes /\ FileTypes /\ AutosaveKept
     /\ (\A f \in Editors : Stands(f) /\ Backed(f)) /\ (~stolen => \A f \in Editors : Informed(f))
  BY DEF FileInv, TypeOK
<1>1. FileTypes'
  BY DEF SaveAsInspect, Show, lockVars, docVars, diskVars, processVars, historyVars, FileTypes,
         Shows
<1>2. \A f \in Editors : Stands(f)'
  BY DEF SaveAsInspect, Show, lockVars, docVars, diskVars, processVars, historyVars, FileTypes,
         LockTypes, Stands, Holds
<1>3. \A f \in Editors : Backed(f)'
  BY DEF SaveAsInspect, Show, lockVars, docVars, diskVars, processVars, historyVars, FileTypes,
         LockTypes, Backed
<1>4. ~stolen' => \A f \in Editors : Informed(f)'
  BY DEF SaveAsInspect, Show, lockVars, docVars, diskVars, processVars, historyVars, FileTypes,
         LockTypes, Informed, Unread, Blind, Stands
<1>5. AutosaveKept'
  BY DEF SaveAsInspect, Show, lockVars, docVars, diskVars, processVars, historyVars, FileTypes,
         LockTypes, AutosaveKept, Holds, Backed
<1>. QED  BY <1>1, <1>2, <1>3, <1>4, <1>5 DEF FileInv, TypeOK, LockInv, Stands

LEMMA ConfirmKeeps ==
    ASSUME LockInv, LockInv', FileInv, NEW e \in Editors, Confirm(e)
    PROVE  FileInv'
<1>. /\ LockTypes /\ FileTypes /\ AutosaveKept
     /\ (\A f \in Editors : Stands(f) /\ Backed(f)) /\ (~stolen => \A f \in Editors : Informed(f))
  BY DEF FileInv, TypeOK
<1>1. FileTypes'
  BY DEF Confirm, Know, Show, lockVars, docVars, diskVars, processVars, historyVars, FileTypes,
         Shows
<1>2. \A f \in Editors : Stands(f)'
  BY DEF Confirm, Know, Show, lockVars, docVars, diskVars, processVars, historyVars, FileTypes,
         LockTypes, Stands, Holds
<1>3. \A f \in Editors : Backed(f)'
  BY DEF Confirm, Know, Show, lockVars, docVars, diskVars, processVars, historyVars, FileTypes,
         LockTypes, Backed
<1>4. ~stolen' => \A f \in Editors : Informed(f)'
  BY DEF Confirm, Know, Show, lockVars, docVars, diskVars, processVars, historyVars, FileTypes,
         LockTypes, Informed, Unread, Blind, Stands
<1>5. AutosaveKept'
  BY DEF Confirm, Know, Show, lockVars, docVars, diskVars, processVars, historyVars, FileTypes,
         LockTypes, AutosaveKept, Holds, Backed
<1>. QED  BY <1>1, <1>2, <1>3, <1>4, <1>5 DEF FileInv, TypeOK, LockInv, Stands

LEMMA RefuseKeeps ==
    ASSUME LockInv, LockInv', FileInv, NEW e \in Editors, Refuse(e)
    PROVE  FileInv'
<1>. /\ LockTypes /\ FileTypes /\ AutosaveKept
     /\ (\A f \in Editors : Stands(f) /\ Backed(f)) /\ (~stolen => \A f \in Editors : Informed(f))
  BY DEF FileInv, TypeOK
<1>1. FileTypes'
  BY DEF Refuse, Back, docVars, LetGo, Show, lockVars, Release, diskVars, processVars,
         historyVars, Goto, Aim, FileTypes, Shows
<1>2. \A f \in Editors : Stands(f)'
  BY DEF Refuse, Back, docVars, LetGo, Show, lockVars, Release, diskVars, processVars,
         historyVars, Goto, Aim, FileTypes, LockTypes, Stands, Holds
<1>3. \A f \in Editors : Backed(f)'
  BY DEF Refuse, Back, docVars, LetGo, Show, lockVars, Release, diskVars, processVars,
         historyVars, Goto, Aim, FileTypes, LockTypes, Backed
<1>4. ~stolen' => \A f \in Editors : Informed(f)'
  BY DEF Refuse, Back, docVars, LetGo, Show, lockVars, Release, diskVars, processVars,
         historyVars, Goto, Aim, FileTypes, LockTypes, Informed, Unread, Blind, Stands
<1>5. AutosaveKept'
  BY DEF Refuse, Back, docVars, LetGo, Show, lockVars, Release, diskVars, processVars,
         historyVars, Goto, Aim, FileTypes, LockTypes, AutosaveKept, Holds, Backed
<1>. QED  BY <1>1, <1>2, <1>3, <1>4, <1>5 DEF FileInv, TypeOK, LockInv, Stands

LEMMA CheckKeeps ==
    ASSUME LockInv, LockInv', FileInv, NEW e \in Editors, Check(e)
    PROVE  FileInv'
<1>. /\ LockTypes /\ FileTypes /\ AutosaveKept
     /\ (\A f \in Editors : Stands(f) /\ Backed(f)) /\ (~stolen => \A f \in Editors : Informed(f))
  BY DEF FileInv, TypeOK
<1>1. FileTypes'
  BY DEF Check, Show, lockVars, docVars, diskVars, processVars, historyVars, FileTypes, Shows
<1>2. \A f \in Editors : Stands(f)'
  BY DEF Check, Show, lockVars, docVars, diskVars, processVars, historyVars, FileTypes,
         LockTypes, Stands, Holds
<1>3. \A f \in Editors : Backed(f)'
  BY DEF Check, Show, lockVars, docVars, diskVars, processVars, historyVars, FileTypes,
         LockTypes, Backed
<1>4. ~stolen' => \A f \in Editors : Informed(f)'
  BY DEF Check, Show, lockVars, docVars, diskVars, processVars, historyVars, FileTypes,
         LockTypes, Informed, Unread, Blind, Stands
<1>5. AutosaveKept'
  BY DEF Check, Show, lockVars, docVars, diskVars, processVars, historyVars, FileTypes,
         LockTypes, AutosaveKept, Holds, Backed
<1>. QED  BY <1>1, <1>2, <1>3, <1>4, <1>5 DEF FileInv, TypeOK, LockInv, Stands

LEMMA ReplaceKeeps ==
    ASSUME LockInv, LockInv', FileInv, NEW e \in Editors, Replace(e)
    PROVE  FileInv'
<1>. /\ LockTypes /\ FileTypes /\ AutosaveKept
     /\ (\A f \in Editors : Stands(f) /\ Backed(f)) /\ (~stolen => \A f \in Editors : Informed(f))
  BY DEF FileInv, TypeOK
<1>1. FileTypes'
  BY DEF Replace, Supersede, Show, lockVars, diskVars, processVars, historyVars, FileTypes,
         Shows
<1>2. \A f \in Editors : Stands(f)'
  BY DEF Replace, Supersede, Show, lockVars, diskVars, processVars, historyVars, FileTypes,
         LockTypes, Stands, Holds
<1>3. \A f \in Editors : Backed(f)'
  BY DEF Replace, Supersede, Show, lockVars, diskVars, processVars, historyVars, FileTypes,
         LockTypes, Backed
<1>4. ~stolen' => \A f \in Editors : Informed(f)'
  BY DEF Replace, Supersede, Show, lockVars, diskVars, processVars, historyVars, FileTypes,
         LockTypes, Informed, Unread, Blind, Stands, LockInv, Alone, Inside, HalfDone, Stands,
         Holds
<1>5. AutosaveKept'
  BY DEF Replace, Supersede, Show, lockVars, diskVars, processVars, historyVars, FileTypes,
         LockTypes, AutosaveKept, Holds, Backed
<1>. QED  BY <1>1, <1>2, <1>3, <1>4, <1>5 DEF FileInv, TypeOK, LockInv, Stands

LEMMA SaveFailsKeeps ==
    ASSUME LockInv, LockInv', FileInv, NEW e \in Editors, SaveFails(e)
    PROVE  FileInv'
<1>. /\ LockTypes /\ FileTypes /\ AutosaveKept
     /\ (\A f \in Editors : Stands(f) /\ Backed(f)) /\ (~stolen => \A f \in Editors : Informed(f))
  BY DEF FileInv, TypeOK
<1>1. FileTypes'
  BY DEF SaveFails, Back, docVars, LetGo, Show, lockVars, Release, diskVars, processVars,
         historyVars, Goto, Aim, FileTypes, Shows
<1>2. \A f \in Editors : Stands(f)'
  BY DEF SaveFails, Back, docVars, LetGo, Show, lockVars, Release, diskVars, processVars,
         historyVars, Goto, Aim, FileTypes, LockTypes, Stands, Holds
<1>3. \A f \in Editors : Backed(f)'
  BY DEF SaveFails, Back, docVars, LetGo, Show, lockVars, Release, diskVars, processVars,
         historyVars, Goto, Aim, FileTypes, LockTypes, Backed
<1>4. ~stolen' => \A f \in Editors : Informed(f)'
  BY DEF SaveFails, Back, docVars, LetGo, Show, lockVars, Release, diskVars, processVars,
         historyVars, Goto, Aim, FileTypes, LockTypes, Informed, Unread, Blind, Stands
<1>5. AutosaveKept'
  BY DEF SaveFails, Back, docVars, LetGo, Show, lockVars, Release, diskVars, processVars,
         historyVars, Goto, Aim, FileTypes, LockTypes, AutosaveKept, Holds, Backed
<1>. QED  BY <1>1, <1>2, <1>3, <1>4, <1>5 DEF FileInv, TypeOK, LockInv, Stands

LEMMA TidyKeeps ==
    ASSUME LockInv, LockInv', FileInv, NEW e \in Editors, Tidy(e)
    PROVE  FileInv'
<1>. /\ LockTypes /\ FileTypes /\ AutosaveKept
     /\ (\A f \in Editors : Stands(f) /\ Backed(f)) /\ (~stolen => \A f \in Editors : Informed(f))
  BY DEF FileInv, TypeOK
<1>1. FileTypes'
  BY DEF Tidy, Nobody, Show, lockVars, diskVars, processVars, historyVars, FileTypes, Shows
<1>2. \A f \in Editors : Stands(f)'
  BY DEF Tidy, Nobody, Show, lockVars, diskVars, processVars, historyVars, FileTypes,
         LockTypes, Stands, Holds
<1>3. \A f \in Editors : Backed(f)'
  BY DEF Tidy, Nobody, Show, lockVars, diskVars, processVars, historyVars, FileTypes,
         LockTypes, Backed
<1>4. ~stolen' => \A f \in Editors : Informed(f)'
  BY DEF Tidy, Nobody, Show, lockVars, diskVars, processVars, historyVars, FileTypes,
         LockTypes, Informed, Unread, Blind, Stands
<1>5. AutosaveKept'
  BY DEF Tidy, Nobody, Show, lockVars, diskVars, processVars, historyVars, FileTypes,
         LockTypes, AutosaveKept, Holds, Backed, LockInv, Alone, Inside, HalfDone, Stands, Holds
<1>. QED  BY <1>1, <1>2, <1>3, <1>4, <1>5 DEF FileInv, TypeOK, LockInv, Stands

LEMMA RefreshKeeps ==
    ASSUME LockInv, LockInv', FileInv, NEW e \in Editors, Refresh(e)
    PROVE  FileInv'
<1>. /\ LockTypes /\ FileTypes /\ AutosaveKept
     /\ (\A f \in Editors : Stands(f) /\ Backed(f)) /\ (~stolen => \A f \in Editors : Informed(f))
  BY DEF FileInv, TypeOK
<1>1. FileTypes'
  BY DEF Refresh, Show, lockVars, docVars, diskVars, processVars, historyVars, FileTypes, Shows
<1>2. \A f \in Editors : Stands(f)'
  BY DEF Refresh, Show, lockVars, docVars, diskVars, processVars, historyVars, FileTypes,
         LockTypes, Stands, Holds
<1>3. \A f \in Editors : Backed(f)'
  BY DEF Refresh, Show, lockVars, docVars, diskVars, processVars, historyVars, FileTypes,
         LockTypes, Backed
<1>4. ~stolen' => \A f \in Editors : Informed(f)'
  BY DEF Refresh, Show, lockVars, docVars, diskVars, processVars, historyVars, FileTypes,
         LockTypes, Informed, Unread, Blind, Stands
<1>5. AutosaveKept'
  BY DEF Refresh, Show, lockVars, docVars, diskVars, processVars, historyVars, FileTypes,
         LockTypes, AutosaveKept, Holds, Backed
<1>. QED  BY <1>1, <1>2, <1>3, <1>4, <1>5 DEF FileInv, TypeOK, LockInv, Stands

LEMMA CloseKeeps ==
    ASSUME LockInv, LockInv', FileInv, NEW e \in Editors, Close(e)
    PROVE  FileInv'
<1>. /\ LockTypes /\ FileTypes /\ AutosaveKept
     /\ (\A f \in Editors : Stands(f) /\ Backed(f)) /\ (~stolen => \A f \in Editors : Informed(f))
  BY DEF FileInv, TypeOK
<1>1. FileTypes'
  BY DEF Close, LetGo, Show, docVars, bufVars, Release, lockVars, Goto, Aim, diskVars,
         processVars, historyVars, FileTypes, Shows
<1>2. \A f \in Editors : Stands(f)'
  BY DEF Close, LetGo, Show, docVars, bufVars, Release, lockVars, Goto, Aim, diskVars,
         processVars, historyVars, FileTypes, LockTypes, Stands, Holds
<1>3. \A f \in Editors : Backed(f)'
  BY DEF Close, LetGo, Show, docVars, bufVars, Release, lockVars, Goto, Aim, diskVars,
         processVars, historyVars, FileTypes, LockTypes, Backed
<1>4. ~stolen' => \A f \in Editors : Informed(f)'
  BY DEF Close, LetGo, Show, docVars, bufVars, Release, lockVars, Goto, Aim, diskVars,
         processVars, historyVars, FileTypes, LockTypes, Informed, Unread, Blind, Stands
<1>5. AutosaveKept'
  BY DEF Close, LetGo, Show, docVars, bufVars, Release, lockVars, Goto, Aim, diskVars,
         processVars, historyVars, FileTypes, LockTypes, AutosaveKept, Holds, Backed
<1>. QED  BY <1>1, <1>2, <1>3, <1>4, <1>5 DEF FileInv, TypeOK, LockInv, Stands

LEMMA ClosedKeeps ==
    ASSUME LockInv, LockInv', FileInv, NEW e \in Editors, Closed(e)
    PROVE  FileInv'
<1>. /\ LockTypes /\ FileTypes /\ AutosaveKept
     /\ (\A f \in Editors : Stands(f) /\ Backed(f)) /\ (~stolen => \A f \in Editors : Informed(f))
  BY DEF FileInv, TypeOK
<1>1. FileTypes'
  BY DEF Closed, Forget, Show, lockVars, docVars, Know, diskVars, processVars, historyVars,
         FileTypes, Shows
<1>2. \A f \in Editors : Stands(f)'
  BY DEF Closed, Forget, Show, lockVars, docVars, Know, diskVars, processVars, historyVars,
         FileTypes, LockTypes, Stands, Holds
<1>3. \A f \in Editors : Backed(f)'
  BY DEF Closed, Forget, Show, lockVars, docVars, Know, diskVars, processVars, historyVars,
         FileTypes, LockTypes, Backed
<1>4. ~stolen' => \A f \in Editors : Informed(f)'
  BY DEF Closed, Forget, Show, lockVars, docVars, Know, diskVars, processVars, historyVars,
         FileTypes, LockTypes, Informed, Unread, Blind, Stands
<1>5. AutosaveKept'
  BY DEF Closed, Forget, Show, lockVars, docVars, Know, diskVars, processVars, historyVars,
         FileTypes, LockTypes, AutosaveKept, Holds, Backed
<1>. QED  BY <1>1, <1>2, <1>3, <1>4, <1>5 DEF FileInv, TypeOK, LockInv, Stands

LEMMA QuitKeeps ==
    ASSUME LockInv, LockInv', FileInv, NEW e \in Editors, Quit(e)
    PROVE  FileInv'
<1>. /\ LockTypes /\ FileTypes /\ AutosaveKept
     /\ (\A f \in Editors : Stands(f) /\ Backed(f)) /\ (~stolen => \A f \in Editors : Informed(f))
  BY DEF FileInv, TypeOK
<1>1. FileTypes'
  BY DEF Quit, Show, lockVars, docVars, bufVars, diskVars, processVars, historyVars, FileTypes,
         Shows
<1>2. \A f \in Editors : Stands(f)'
  BY DEF Quit, Show, lockVars, docVars, bufVars, diskVars, processVars, historyVars, FileTypes,
         LockTypes, Stands, Holds
<1>3. \A f \in Editors : Backed(f)'
  BY DEF Quit, Show, lockVars, docVars, bufVars, diskVars, processVars, historyVars, FileTypes,
         LockTypes, Backed
<1>4. ~stolen' => \A f \in Editors : Informed(f)'
  BY DEF Quit, Show, lockVars, docVars, bufVars, diskVars, processVars, historyVars, FileTypes,
         LockTypes, Informed, Unread, Blind, Stands
<1>5. AutosaveKept'
  BY DEF Quit, Show, lockVars, docVars, bufVars, diskVars, processVars, historyVars, FileTypes,
         LockTypes, AutosaveKept, Holds, Backed
<1>. QED  BY <1>1, <1>2, <1>3, <1>4, <1>5 DEF FileInv, TypeOK, LockInv, Stands

LEMMA EndedKeeps ==
    ASSUME LockInv, LockInv', FileInv, NEW e \in Editors, Ended(e)
    PROVE  FileInv'
<1>. /\ LockTypes /\ FileTypes /\ AutosaveKept
     /\ (\A f \in Editors : Stands(f) /\ Backed(f)) /\ (~stolen => \A f \in Editors : Informed(f))
  BY DEF FileInv, TypeOK
<1>1. FileTypes'
  BY DEF Ended, Exit, Forget, Show, docVars, diskVars, historyVars, Know, FileTypes, Shows
<1>2. \A f \in Editors : Stands(f)'
  BY DEF Ended, Exit, Forget, Show, docVars, diskVars, historyVars, Know, FileTypes, LockTypes,
         Stands, Holds
<1>3. \A f \in Editors : Backed(f)'
  BY DEF Ended, Exit, Forget, Show, docVars, diskVars, historyVars, Know, FileTypes, LockTypes,
         Backed
<1>4. ~stolen' => \A f \in Editors : Informed(f)'
  BY DEF Ended, Exit, Forget, Show, docVars, diskVars, historyVars, Know, FileTypes, LockTypes,
         Informed, Unread, Blind, Stands
<1>5. AutosaveKept'
  BY DEF Ended, Exit, Forget, Show, docVars, diskVars, historyVars, Know, FileTypes, LockTypes,
         AutosaveKept, Holds, Backed
<1>. QED  BY <1>1, <1>2, <1>3, <1>4, <1>5 DEF FileInv, TypeOK, LockInv, Stands

LEMMA DieKeeps ==
    ASSUME LockInv, LockInv', FileInv, NEW e \in Editors, Die(e)
    PROVE  FileInv'
<1>. /\ LockTypes /\ FileTypes /\ AutosaveKept
     /\ (\A f \in Editors : Stands(f) /\ Backed(f)) /\ (~stolen => \A f \in Editors : Informed(f))
  BY DEF FileInv, TypeOK
<1>1. FileTypes'
  BY DEF Die, Crash, Forget, Show, docVars, HalfDone, Rest, diskVars, Know, Goto, Aim, Expect,
         FileTypes, Shows
<1>2. \A f \in Editors : Stands(f)'
  BY DEF Die, Crash, Forget, Show, docVars, HalfDone, Rest, diskVars, Know, Goto, Aim, Expect,
         FileTypes, LockTypes, Stands, Holds
<1>3. \A f \in Editors : Backed(f)'
  BY DEF Die, Crash, Forget, Show, docVars, HalfDone, Rest, diskVars, Know, Goto, Aim, Expect,
         FileTypes, LockTypes, Backed
<1>4. ~stolen' => \A f \in Editors : Informed(f)'
  BY DEF Die, Crash, Forget, Show, docVars, HalfDone, Rest, diskVars, Know, Goto, Aim, Expect,
         FileTypes, LockTypes, Informed, Unread, Blind, Stands
<1>5. AutosaveKept'
  BY DEF Die, Crash, Forget, Show, docVars, HalfDone, Rest, diskVars, Know, Goto, Aim, Expect,
         FileTypes, LockTypes, AutosaveKept, Holds, Backed
<1>. QED  BY <1>1, <1>2, <1>3, <1>4, <1>5 DEF FileInv, TypeOK, LockInv, Stands

LEMMA CallMoves ==
    ASSUME LockInv, NEW e \in Editors, Call(e)
    PROVE  /\ at[e] \notin {"out", "held", "refused"}
           /\ \A f \in Editors \ {e} : at'[f] = at[f] /\ goal'[f] = goal[f]
           /\ goal[e] # "release" => at'[e] # "out" /\ goal'[e] # "release"
           /\ goal[e] = "release" => at'[e] = "out" \/ goal'[e] = "release"
           /\ life' = life
           /\ stolen => stolen'
<1>1. LockTypes /\ Sound(e)
  BY DEF LockInv
<1>2. CASE Mkdir(e) \/ Create(e) \/ CreateFails(e) \/ Write(e) \/ WriteFails(e)
  BY <1>1, <1>2 DEF LockTypes, Sound, Mkdir, Create, CreateFails, Write, WriteFails, Goto, Expect,
         diskVars, processVars, historyVars
<1>3. CASE Unmake(e) \/ Unmade(e) \/ Inspect(e)
  BY <1>1, <1>3 DEF LockTypes, Sound, Unmake, Unmade, Inspect, Goto, Expect, diskVars, processVars,
         historyVars
<1>4. CASE Reread(e) \/ Unlink(e) \/ Rmdir(e) \/ Restore(e)
  BY <1>1, <1>4 DEF LockTypes, Sound, Reread, Unlink, Rmdir, Restore, Removed, NotRemoved, On, Rest,
         Goto, Aim, Expect, diskVars, processVars, historyVars
<1>. QED  BY <1>2, <1>3, <1>4 DEF Call

LEMMA LockWorkKeeps ==
    ASSUME LockInv, LockInv', FileInv, LockWork
    PROVE  FileInv'
<1>. /\ LockTypes /\ FileTypes /\ AutosaveKept
     /\ (\A f \in Editors : Stands(f) /\ Backed(f)) /\ (~stolen => \A f \in Editors : Informed(f))
  BY DEF FileInv, TypeOK
<1>1. UNCHANGED <<backup, newer, ui, order, read_only, kept, fp, observed, knows>>
  BY DEF LockWork, docVars, bufVars
<1>2. (stolen => stolen') /\ \A f \in Editors : Stands(f)'
  <2>1. CASE PutForeign
    BY <1>1, <2>1 DEF PutForeign, processVars, historyVars, Stands, Holds
  <2>2. ASSUME NEW e \in Editors, Call(e) PROVE (stolen => stolen') /\ \A f \in Editors : Stands(f)'
    BY <1>1, <2>2, CallMoves DEF Stands, Holds
  <2>. QED  BY <2>1, <2>2 DEF LockWork
<1>3. \A f \in Editors : Backed(f)'
  BY <1>1 DEF Backed
<1>4. ~stolen' => \A f \in Editors : Informed(f)'
  BY <1>1, <1>2 DEF Informed, Unread, Blind
<1>5. AutosaveKept'
  BY <1>1, <1>2 DEF AutosaveKept, Holds
<1>6. FileTypes'
  BY <1>1 DEF FileTypes
<1>. QED  BY <1>2, <1>3, <1>4, <1>5, <1>6 DEF FileInv, TypeOK, LockInv, Stands

LEMMA OutsideKeeps ==
    ASSUME LockInv, LockInv', FileInv, Outside
    PROVE  FileInv'
<1>. /\ LockTypes /\ FileTypes /\ AutosaveKept
     /\ (\A f \in Editors : Stands(f) /\ Backed(f)) /\ (~stolen => \A f \in Editors : Informed(f))
  BY DEF FileInv, TypeOK
<1>1. /\ UNCHANGED <<at, goal, life, stolen, backup, ui, order, read_only, kept>>
      /\ newer' = FALSE /\ fp' = {} /\ observed' = {}
      /\ knows' = [f \in Editors |-> IF Blind(f) THEN "late" ELSE "stale"]
  BY DEF Outside, Supersede, lockVars, processVars, historyVars
<1>2. \A f \in Editors : Stands(f)'
  BY <1>1 DEF Stands, Holds
<1>3. \A f \in Editors : Informed(f)'
  BY <1>1 DEF Informed, Unread, Blind
<1>4. \A f \in Editors : Backed(f)'
  BY <1>1 DEF Backed
<1>5. AutosaveKept'
  BY <1>1 DEF AutosaveKept, Holds
<1>6. FileTypes'
  BY <1>1 DEF FileTypes
<1>. QED  BY <1>2, <1>3, <1>4, <1>5, <1>6 DEF FileInv, TypeOK, LockInv, Stands

-----------------------------------------------------------------------------
(* The theorems *)

LEMMA FileKept == LockInv /\ LockInv' /\ FileInv /\ [Next]_vars => FileInv'
<1>. SUFFICES ASSUME LockInv, LockInv', FileInv, [Next]_vars PROVE FileInv'
  OBVIOUS
<1>1. CASE UNCHANGED vars
  BY <1>1 DEF vars, lockVars, diskVars, processVars, historyVars, docVars, bufVars, FileInv, TypeOK,
         LockTypes, FileTypes, Stands, Backed, Informed, Unread, Blind, Holds, AutosaveKept
<1>2. ASSUME NEW e \in Editors, Opening(e) PROVE FileInv'
  BY <1>2, StartKeeps, OpenKeeps, OfferKeeps, LoadKeeps, RecoverKeeps, RecoverFailsKeeps,
     FingerprintKeeps, BegunKeeps DEF Opening
<1>3. ASSUME NEW e \in Editors, Editing(e) PROVE FileInv'
  BY <1>3, RetryKeeps, RetriedKeeps, CompareKeeps, AgreeKeeps, ReloadKeeps, DeclineKeeps,
     DroppedKeeps, AutosaveKeeps DEF Editing
<1>4. ASSUME NEW e \in Editors, Saving(e) PROVE FileInv'
  BY <1>4, SaveKeeps, SaveAsKeeps, SaveAsAnsweredKeeps, SaveAsInspectKeeps, ConfirmKeeps, RefuseKeeps,
     CheckKeeps, ReplaceKeeps, SaveFailsKeeps, TidyKeeps, RefreshKeeps DEF Saving
<1>5. ASSUME NEW e \in Editors, Leaving(e) PROVE FileInv'
  BY <1>5, CloseKeeps, ClosedKeeps, QuitKeeps, EndedKeeps, DieKeeps DEF Leaving
<1>. QED  BY <1>1, <1>2, <1>3, <1>4, <1>5, LockWorkKeeps, OutsideKeeps DEF Next

THEOREM FileInvariance == Spec => [](LockInv /\ FileInv)
<1>1. Spec => []LockInv
  BY LockIsFollowed, LockInvariance, PTL
<1>2. LockInv /\ LockInv' /\ FileInv /\ [Next]_vars => FileInv'
  BY FileKept
<1>. QED  BY <1>1, <1>2, FileStart, PTL DEF Spec

\* A buffer that may be changed has the lock, and one that is only shown does
\* not keep others from it (begin_file_session, retry_file_lock, the prompts).
THEOREM LockAndBufferAgree == Spec => []TypeOK
<1>1. FileInv => TypeOK
  BY DEF FileInv
<1>. QED  BY <1>1, FileInvariance, PTL

\* No save of save_editor_to_path replaces a version unknown to its user, but
\* for the moments that SavesAreInformed names.
THEOREM NoVersionIsLost == Spec => SavesAreInformed
<1>1. FileInv => \A e \in Editors : ui[e] = "write" => stolen \/ knows[e] \in {"shown", "late", "missed"}
  BY DEF FileInv, TypeOK, FileTypes, LockTypes, Informed, Blind
<1>2. FileInv /\ [Next]_vars =>
          [\A e \in Editors : ui[e] = "write" /\ ui'[e] = "tidy" =>
              stolen \/ knows[e] \in {"shown", "late", "missed"}]_vars
  BY <1>1
<1>. QED  BY <1>2, FileInvariance, PTL DEF Spec, SavesAreInformed

\* perform_autosave and remove_autosave_file of other processes leave the
\* backup of a buffer with unsaved text alone.
THEOREM NoAutosaveIsLost == Spec => []AutosaveKept
<1>1. FileInv => AutosaveKept
  BY DEF FileInv
<1>. QED  BY <1>1, FileInvariance, PTL

=============================================================================
