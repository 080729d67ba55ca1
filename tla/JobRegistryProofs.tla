-------------------------- MODULE JobRegistryProofs --------------------------
(* Proofs about JobRegistry, for every value of its constants.             *)
EXTENDS JobRegistry, FiniteSetTheorems, SequenceTheorems, TLAPS

\* Removing one element of a sequence closes the gap and keeps the order.
LEMMA RemoveAtProperties ==
    ASSUME NEW S, NEW s \in Seq(S), NEW i \in 1..Len(s)
    PROVE  /\ RemoveAt(s, i) \in Seq(S)
           /\ Len(RemoveAt(s, i)) = Len(s) - 1
           /\ \A k \in 1..(Len(s) - 1) :
                  RemoveAt(s, i)[k] = IF k < i THEN s[k] ELSE s[k + 1]
<1> DEFINE left  == SubSeq(s, 1, i - 1)
           right == SubSeq(s, i + 1, Len(s))
<1>1. Len(s) \in Nat /\ \A k \in 1..Len(s) : s[k] \in S
  BY LenProperties, ElementOfSeq
<1>2. left \in Seq(S) /\ Len(left) = i - 1 /\ \A k \in 1..(i - 1) : left[k] = s[k]
  BY <1>1, SubSeqProperties
<1>3. /\ right \in Seq(S) /\ Len(right) = Len(s) - i
      /\ \A k \in 1..(Len(s) - i) : right[k] = s[k + i]
  <2>1. \A k \in (i + 1)..Len(s) : s[k] \in S
    BY <1>1
  <2>. QED  BY <1>1, <2>1, SubSeqProperties
<1> DEFINE cat == left \o right
<1> HIDE DEF left, right
<1>4. /\ cat \in Seq(S) /\ Len(cat) = Len(left) + Len(right)
      /\ \A k \in 1..(Len(left) + Len(right)) :
             cat[k] = IF k <= Len(left) THEN left[k] ELSE right[k - Len(left)]
  BY <1>2, <1>3, ConcatProperties
<1>5. RemoveAt(s, i) = cat
  BY DEF RemoveAt, left, right
<1> HIDE DEF cat
<1>6. Len(cat) = Len(s) - 1 /\ \A k \in 1..(Len(s) - 1) :
          cat[k] = IF k < i THEN left[k] ELSE right[k - (i - 1)]
  <2>1. Len(left) + Len(right) = Len(s) - 1 /\ i \in Int
    BY <1>1, <1>2, <1>3
  <2>2. \A k \in 1..(Len(s) - 1) : cat[k] = IF k <= i - 1 THEN left[k] ELSE right[k - (i - 1)]
    BY <2>1, <1>2, <1>4
  <2>. QED  BY <1>4, <2>1, <2>2
<1>7. ASSUME NEW k \in 1..(Len(s) - 1)
      PROVE  cat[k] = IF k < i THEN s[k] ELSE s[k + 1]
  <2>1. CASE k < i
    BY <1>1, <1>2, <1>6, <2>1
  <2>2. CASE k >= i
    <3>1. k - (i - 1) \in 1..(Len(s) - i) /\ k - (i - 1) + i = k + 1
      BY <1>1, <2>2
    <3>2. right[k - (i - 1)] = s[k + 1]
      BY <1>3, <3>1
    <3>. QED  BY <1>1, <1>6, <2>2, <3>2
  <2>. QED  BY <1>1, <2>1, <2>2
<1>. QED  BY <1>4, <1>5, <1>6, <1>7

\* What an eviction leaves: at most one job goes, it has ended, and the order
\* and the keys lose exactly that job.
LEMMA EvictionFacts ==
    ASSUME TypeOK
    PROVE  /\ EvictTerminal.jobs \subseteq jobs
           /\ EvictTerminal.order \in Seq(JobIds)
           /\ DOMAIN EvictTerminal.keys \subseteq DOMAIN idempotency
           /\ \A k \in DOMAIN EvictTerminal.keys :
                  /\ EvictTerminal.keys[k] = idempotency[k]
                  /\ idempotency[k] \in jobs => idempotency[k] \in EvictTerminal.jobs
           /\ EvictTerminal.keys \in [DOMAIN EvictTerminal.keys -> JobIds]
           /\ \A j \in jobs \ EvictTerminal.jobs : Terminal(j)
<1> DEFINE full == {i \in DOMAIN retention_order : Evictable(i)}
<1>1. CASE full = {}
  BY <1>1 DEF EvictTerminal, TypeOK
<1>2. CASE full # {}
  <2> DEFINE i == CHOOSE i \in full : TRUE
             keys == {k \in DOMAIN idempotency : idempotency[k] # retention_order[i]}
  <2>1. i \in 1..Len(retention_order) /\ Terminal(retention_order[i])
    BY <1>2, LenProperties DEF TypeOK, Evictable
  <2>2. /\ EvictTerminal.jobs = jobs \ {retention_order[i]}
        /\ EvictTerminal.order = RemoveAt(retention_order, i)
        /\ EvictTerminal.keys = [k \in keys |-> idempotency[k]]
    BY <1>2 DEF EvictTerminal
  <2>3. RemoveAt(retention_order, i) \in Seq(JobIds)
    BY <2>1, RemoveAtProperties DEF TypeOK
  <2> HIDE DEF i
  <2>. QED  BY <2>1, <2>2, <2>3 DEF TypeOK
<1>. QED  BY <1>1, <1>2


LEMMA PublishType ==
    ASSUME TypeOK, NEW j \in JobIds, NEW t \in EventTypes, Publish(j, t)
    PROVE  log' \in [JobIds -> Seq(EventTypes)]
<1>1. Append(log[j], t) \in Seq(EventTypes)
  BY DEF TypeOK
<1>. QED  BY <1>1 DEF TypeOK, Publish

LEMMA PublishAppends ==
    ASSUME TypeOK, NEW j \in JobIds, NEW t \in EventTypes, Publish(j, t)
    PROVE  /\ Len(log[j]) \in Nat /\ Len(log'[j]) = Len(log[j]) + 1
           /\ log'[j][Len(log[j]) + 1] = t
           /\ \A i \in 1..Len(log[j]) : log'[j][i] = log[j][i]
           /\ \A k \in JobIds \ {j} : log'[k] = log[k]
<1>1. log[j] \in Seq(EventTypes)
  BY DEF TypeOK
<1>2. log'[j] = Append(log[j], t) /\ \A k \in JobIds \ {j} : log'[k] = log[k]
  BY DEF Publish, TypeOK
<1>. QED  BY <1>1, <1>2

\* An event that ends nothing, published by a worker whose job is not ended.
LEMMA PublishQuiet ==
    ASSUME TypeOK, StreamPhases, NEW j \in JobIds, NEW t \in {"queued", "running", "progress"},
           Publish(j, t), pc[j] \notin {"close", "lane", "done"},
           pc'[j] \notin {"close", "lane", "done"},
           \A k \in JobIds \ {j} : pc'[k] = pc[k] /\ state'[k] = state[k]
    PROVE  StreamPhases'
<1>1. t \in EventTypes /\ t \notin TerminalStates
  BY DEF EventTypes, TerminalStates
<1>2. Untold(j)
  BY DEF StreamPhases
<1>3. Untold(j)'
  BY <1>1, <1>2, PublishAppends DEF Untold
<1>4. \A k \in JobIds \ {j} : log'[k] = log[k]
  BY <1>1, PublishAppends
<1>. QED  BY <1>3, <1>4 DEF StreamPhases, Told, Untold

\* TypeOK is preserved by every step.
LEMMA TypeStep ==
    ASSUME TypeOK, [Next]_vars
    PROVE  TypeOK'
<1> USE BoundsAssumption DEF TypeOK, JobIds, NoJob, Classes, States, TerminalStates, Outcomes,
        EventTypes, Labels
<1>1. ASSUME NEW key \in Keys \cup {NoKey}, NEW c \in Classes, SubmitRefused(key, c)
      PROVE  TypeOK'
  BY <1>1 DEF SubmitRefused, Unfinished, jobVars, workerVars, shutVars
<1>2. ASSUME NEW key \in Keys \cup {NoKey}, NEW c \in Classes, SubmitFull(key, c)
      PROVE  TypeOK'
  BY <1>2 DEF SubmitFull, Unfinished, jobVars, workerVars, shutVars
<1>3. ASSUME NEW key \in Keys \cup {NoKey}, NEW c \in Classes, SubmitCreated(key, c)
      PROVE  TypeOK'
  <2> DEFINE kept == EvictTerminal
  <2>1. /\ kept.jobs \subseteq JobIds /\ kept.order \in Seq(JobIds)
        /\ DOMAIN kept.keys \subseteq Keys /\ kept.keys \in [DOMAIN kept.keys -> JobIds]
    BY EvictionFacts
  <2>2. /\ next_job_id \in JobIds
        /\ jobs' = kept.jobs \cup {next_job_id}
        /\ retention_order' = Append(kept.order, next_job_id)
        /\ idempotency' = WithKey(kept.keys, key, next_job_id)
    BY <1>3 DEF SubmitCreated
  <2>3. /\ jobs' \subseteq JobIds /\ retention_order' \in Seq(JobIds)
        /\ DOMAIN idempotency' \subseteq Keys
        /\ idempotency' \in [DOMAIN idempotency' -> JobIds]
    <3>1. retention_order' \in Seq(JobIds)
      BY <2>1, <2>2
    <3>2. CASE key = NoKey
      BY <2>1, <2>2, <3>1, <3>2 DEF WithKey
    <3>3. CASE key # NoKey
      <4>1. key \in Keys
        BY <3>3
      <4>2. idempotency' = [k \in DOMAIN kept.keys \cup {key} |->
                                IF k = key THEN next_job_id ELSE kept.keys[k]]
        BY <2>2, <3>3 DEF WithKey
      <4>3. jobs' \subseteq JobIds
        BY <2>1, <2>2
      <4> HIDE DEF kept
      <4>. QED  BY <2>1, <2>2, <3>1, <4>1, <4>2, <4>3
    <3>. QED  BY <3>2, <3>3
  <2>4. log' \in [JobIds -> Seq(EventTypes)]
    BY <1>3, PublishType DEF SubmitCreated
  <2>5. /\ next_job_id' \in 1..(MaxSubmits + 1) /\ active_agent' \in JobIds \cup {NoJob}
        /\ class' \in [JobIds -> Classes] /\ pc' \in [JobIds -> Labels]
        /\ workers' \subseteq JobIds
    <3>1. /\ next_job_id \in JobIds /\ next_job_id' = next_job_id + 1
          /\ active_agent' = IF c = "Agent" THEN next_job_id ELSE active_agent
      BY <1>3 DEF SubmitCreated
    <3>2. next_job_id' \in 1..(MaxSubmits + 1) /\ active_agent' \in JobIds \cup {NoJob}
      BY <3>1
    <3>3. /\ class' = [class EXCEPT ![next_job_id] = c]
          /\ pc' = [pc EXCEPT ![next_job_id] = IF c = "Provider" THEN "acquire" ELSE "begin"]
      BY <1>3 DEF SubmitCreated, Goto
    <3>4. class' \in [JobIds -> Classes] /\ pc' \in [JobIds -> Labels]
      BY <3>1, <3>3
    <3>5. workers' = Unfinished \cup {next_job_id}
      BY <1>3 DEF SubmitCreated
    <3>6. workers' \subseteq JobIds
      BY <3>1, <3>5 DEF Unfinished
    <3>. QED  BY <3>2, <3>4, <3>6
  <2>6. UNCHANGED <<provider_active, stopping, state, token, closed, slot, outcome,
                    shut, shut_jobs, shut_workers>>
    BY <1>3 DEF SubmitCreated, shutVars
  <2>. QED  BY <2>3, <2>4, <2>5, <2>6
<1>4. ASSUME NEW key \in Keys \cup {NoKey}, NEW c \in Classes, SubmitThreadFails(key, c)
      PROVE  TypeOK'
  <2>1. /\ EvictTerminal.jobs \subseteq JobIds /\ EvictTerminal.order \in Seq(JobIds)
        /\ DOMAIN EvictTerminal.keys \subseteq Keys
        /\ EvictTerminal.keys \in [DOMAIN EvictTerminal.keys -> JobIds]
    BY EvictionFacts
  <2>2. /\ jobs' \subseteq JobIds /\ retention_order' \in Seq(JobIds)
        /\ DOMAIN idempotency' \subseteq Keys
        /\ idempotency' \in [DOMAIN idempotency' -> JobIds]
    <3>1. /\ jobs' = EvictTerminal.jobs /\ retention_order' = EvictTerminal.order
          /\ idempotency' = EvictTerminal.keys
      BY <1>4 DEF SubmitThreadFails
    <3>. QED  BY ONLY <2>1, <3>1
  <2>3. workers' \subseteq JobIds /\ next_job_id' \in 1..(MaxSubmits + 1)
    <3>1. /\ next_job_id \in JobIds /\ next_job_id' = next_job_id + 1
          /\ workers' = Unfinished
      BY <1>4 DEF SubmitThreadFails
    <3>. QED  BY <3>1 DEF Unfinished
  <2>4. UNCHANGED <<provider_active, active_agent, stopping, class, state, token, log, closed,
                    pc, slot, outcome, shut, shut_jobs, shut_workers>>
    BY <1>4 DEF SubmitThreadFails, jobVars, workerVars, shutVars
  <2>. QED  BY <2>2, <2>3, <2>4
<1>5. ASSUME NEW j \in JobIds, AcquireSlot(j) PROVE TypeOK'
  <2>1. provider_active' \in Nat
    BY <1>5 DEF AcquireSlot
  <2>. QED  BY <1>5, <2>1 DEF AcquireSlot, Goto, jobVars, shutVars
<1>6. ASSUME NEW j \in JobIds, AcquireGivesUp(j) PROVE TypeOK'
  BY <1>6 DEF AcquireGivesUp, Goto, registryVars, jobVars, shutVars
<1>7. ASSUME NEW j \in JobIds, SkipWork(j) PROVE TypeOK'
  BY <1>7 DEF SkipWork, AfterWork, Goto, registryVars, jobVars, shutVars
<1>8. ASSUME NEW j \in JobIds, StartWork(j) PROVE TypeOK'
  <2>1. log' \in [JobIds -> Seq(EventTypes)]
    BY <1>8, PublishType DEF StartWork
  <2>. QED  BY <1>8, <2>1 DEF StartWork, Goto, registryVars, shutVars
<1>9. ASSUME NEW j \in JobIds, WorkProgress(j) PROVE TypeOK'
  <2>1. log' \in [JobIds -> Seq(EventTypes)]
    BY <1>9, PublishType DEF WorkProgress
  <2>. QED  BY <1>9, <2>1 DEF WorkProgress, registryVars, workerVars, shutVars
<1>10. ASSUME NEW j \in JobIds, WorkReturns(j) PROVE TypeOK'
  BY <1>10 DEF WorkReturns, AfterWork, Goto, registryVars, jobVars, shutVars
<1>11. ASSUME NEW j \in JobIds, ReleaseProvider(j) PROVE TypeOK'
  <2>1. provider_active' \in Nat
    BY <1>11 DEF ReleaseProvider, SlotsAfter
  <2>. QED  BY <1>11, <2>1 DEF ReleaseProvider, Goto, jobVars, shutVars
<1>12. ASSUME NEW j \in JobIds, SetTerminal(j) PROVE TypeOK'
  BY <1>12 DEF SetTerminal, EndState, AfterTerminal, Goto, registryVars, shutVars
<1>21. ASSUME NEW j \in JobIds, Judge(j) PROVE TypeOK'
  BY <1>21 DEF Judge, Verdict, Goto, registryVars, jobVars, shutVars
<1>13. ASSUME NEW j \in JobIds, PublishTerminal(j) PROVE TypeOK'
  <2>1. log' \in [JobIds -> Seq(EventTypes)]
    BY <1>13, PublishType DEF PublishTerminal
  <2>. QED  BY <1>13, <2>1 DEF PublishTerminal, Goto, registryVars, shutVars
<1>14. ASSUME NEW j \in JobIds, CloseEvents(j) PROVE TypeOK'
  BY <1>14 DEF CloseEvents, Goto, registryVars, shutVars
<1>15. ASSUME NEW j \in JobIds, LeaveLane(j) PROVE TypeOK'
  BY <1>15 DEF LeaveLane, LaneAfter, Goto, jobVars, shutVars
<1>16. ASSUME NEW j \in JobIds, Cancel(j) PROVE TypeOK'
  BY <1>16 DEF Cancel, registryVars, workerVars, shutVars
<1>17. CASE ShutdownBegin
  BY <1>17 DEF ShutdownBegin, jobVars, workerVars
<1>18. CASE ShutdownCancel
  BY <1>18 DEF ShutdownCancel, registryVars, workerVars
<1>19. CASE ShutdownReturn
  BY <1>19 DEF ShutdownReturn, jobVars, workerVars
<1>20. CASE UNCHANGED vars
  BY <1>20 DEF vars, registryVars, jobVars, workerVars, shutVars
<1>. QED
  BY <1>1, <1>2, <1>3, <1>4, <1>5, <1>6, <1>7, <1>8, <1>9, <1>10, <1>11, <1>12, <1>13,
     <1>14, <1>15, <1>16, <1>17, <1>18, <1>19, <1>20, <1>21
     DEF Next, Submit, Worker, Advance, Shutdown, Stopped


\* A worker that moves between two labels of a live job disturbs nothing that
\* the label of another worker says.
LEMMA LiveWorkerMoves ==
    ASSUME TypeOK, WorkerPhases, NEW j \in JobIds,
           NEW lbl \in {"begin", "release", "decide", "settle"}, NEW held \in BOOLEAN,
           pc[j] \in {"acquire", "begin", "work", "release", "decide"},
           held => class[j] = "Provider" /\ lbl \in {"begin", "release"},
           pc' = [pc EXCEPT ![j] = lbl], slot' = [slot EXCEPT ![j] = held],
           UNCHANGED <<class, state, log, closed, workers, next_job_id>>
    PROVE  WorkerPhases'
<1> USE DEF TypeOK, JobIds
<1> SUFFICES ASSUME NEW i \in JobIds
             PROVE  /\ i >= next_job_id => pc'[i] = "none"
                    /\ pc'[i] = "none" => state[i] = "Queued" /\ log[i] = <<>>
                    /\ pc'[i] \notin {"none", "done"} => i \in workers
                    /\ pc'[i] = "acquire" => class[i] = "Provider"
                    /\ Terminal(i) <=> pc'[i] \in {"publish", "close", "lane", "done"}
                    /\ closed[i] <=> pc'[i] \in {"lane", "done"}
                    /\ slot'[i] => class[i] = "Provider" /\ pc'[i] \in {"begin", "work", "release"}
  BY Zenon DEF WorkerPhases, Terminal
<1>1. CASE i = j
  <2>1. pc'[i] = lbl /\ slot'[i] = held
    BY <1>1
  <2>2. /\ ~(i >= next_job_id) /\ i \in workers
        /\ ~Terminal(i) /\ ~closed[i]
    BY <1>1 DEF WorkerPhases
  <2>. QED  BY <1>1, <2>1, <2>2
<1>2. CASE i # j
  <2>1. pc'[i] = pc[i] /\ slot'[i] = slot[i]
    BY <1>2
  <2>. QED  BY <2>1 DEF WorkerPhases
<1>. QED  BY <1>1, <1>2


\* The same of a worker that keeps its slot, or its lack of one.
LEMMA LiveWorkerKeepsSlot ==
    ASSUME TypeOK, WorkerPhases, NEW j \in JobIds,
           NEW lbl \in {"begin", "release", "decide", "settle"},
           pc[j] \in {"acquire", "begin", "work", "release", "decide"},
           slot[j] => lbl \in {"begin", "release"},
           pc' = [pc EXCEPT ![j] = lbl],
           UNCHANGED <<class, state, log, closed, workers, next_job_id, slot>>
    PROVE  WorkerPhases'
<1>1. slot' = [slot EXCEPT ![j] = slot[j]] /\ slot[j] \in BOOLEAN
  BY DEF TypeOK
<1>2. slot[j] => class[j] = "Provider"
  BY DEF WorkerPhases
<1>. QED  BY <1>1, <1>2, LiveWorkerMoves


\* A worker of an ended job that moves on disturbs nothing either.
LEMMA EndedWorkerMoves ==
    ASSUME TypeOK, WorkerPhases, NEW j \in JobIds,
           NEW lbl \in {"close", "lane", "done"}, NEW shutting \in BOOLEAN,
           pc[j] \in {"publish", "close", "lane"},
           shutting <=> lbl \in {"lane", "done"},
           pc' = [pc EXCEPT ![j] = lbl], closed' = [closed EXCEPT ![j] = shutting],
           \A i \in JobIds \ {j} : log'[i] = log[i],
           UNCHANGED <<class, state, workers, next_job_id, slot>>
    PROVE  WorkerPhases'
<1> USE DEF TypeOK, JobIds
<1> SUFFICES ASSUME NEW i \in JobIds
             PROVE  /\ i >= next_job_id => pc'[i] = "none"
                    /\ pc'[i] = "none" => state[i] = "Queued" /\ log'[i] = <<>>
                    /\ pc'[i] \notin {"none", "done"} => i \in workers
                    /\ pc'[i] = "acquire" => class[i] = "Provider"
                    /\ Terminal(i) <=> pc'[i] \in {"publish", "close", "lane", "done"}
                    /\ closed'[i] <=> pc'[i] \in {"lane", "done"}
                    /\ slot[i] => class[i] = "Provider" /\ pc'[i] \in {"begin", "work", "release"}
  BY Zenon DEF WorkerPhases, Terminal
<1>1. CASE i = j
  <2>1. pc'[i] = lbl /\ closed'[i] = shutting
    BY <1>1
  <2>2. ~(i >= next_job_id) /\ i \in workers /\ Terminal(i) /\ ~slot[i]
    BY <1>1 DEF WorkerPhases
  <2>. QED  BY <1>1, <2>1, <2>2
<1>2. CASE i # j
  <2>1. pc'[i] = pc[i] /\ closed'[i] = closed[i] /\ log'[i] = log[i]
    BY <1>2
  <2>. QED  BY <2>1 DEF WorkerPhases
<1>. QED  BY <1>1, <1>2


\* A step changes the phase of at most the one worker that takes it, and what
\* the label says of a job stays true.
LEMMA PhaseStep ==
    ASSUME TypeOK, WorkerPhases, ShutPhases, [Next]_vars
    PROVE  WorkerPhases'
<1> USE BoundsAssumption
    DEF TypeOK, WorkerPhases, JobIds, Terminal, TerminalStates, States, Labels, Goto
<1>1. ASSUME NEW key \in Keys \cup {NoKey}, NEW c \in Classes, SubmitRefused(key, c)
      PROVE  WorkerPhases'
  BY <1>1 DEF SubmitRefused, Unfinished, jobVars, workerVars
<1>2. ASSUME NEW key \in Keys \cup {NoKey}, NEW c \in Classes, SubmitFull(key, c)
      PROVE  WorkerPhases'
  BY <1>2 DEF SubmitFull, Unfinished, jobVars, workerVars
<1>3. ASSUME NEW key \in Keys \cup {NoKey}, NEW c \in Classes, SubmitCreated(key, c)
      PROVE  WorkerPhases'
  <2>1. /\ next_job_id \in JobIds /\ next_job_id' = next_job_id + 1
        /\ workers' = Unfinished \cup {next_job_id}
        /\ class' = [class EXCEPT ![next_job_id] = c]
        /\ log' = [log EXCEPT ![next_job_id] = Append(@, "queued")]
        /\ pc' = [pc EXCEPT ![next_job_id] = IF c = "Provider" THEN "acquire" ELSE "begin"]
        /\ UNCHANGED <<state, closed, slot>>
    BY <1>3 DEF SubmitCreated, Publish
  <2>2. pc[next_job_id] = "none"
    BY <2>1
  <2> SUFFICES ASSUME NEW j \in JobIds
               PROVE  /\ j >= next_job_id' => pc'[j] = "none"
                      /\ pc'[j] = "none" => state'[j] = "Queued" /\ log'[j] = <<>>
                      /\ pc'[j] \notin {"none", "done"} => j \in workers'
                      /\ pc'[j] = "acquire" => class'[j] = "Provider"
                      /\ Terminal(j)' <=> pc'[j] \in {"publish", "close", "lane", "done"}
                      /\ closed'[j] <=> pc'[j] \in {"lane", "done"}
                      /\ slot'[j] => class'[j] = "Provider" /\ pc'[j] \in {"begin", "work", "release"}
    BY DEF WorkerPhases
  <2>3. CASE j = next_job_id
    <3>1. /\ pc'[j] = (IF c = "Provider" THEN "acquire" ELSE "begin") /\ class'[j] = c
          /\ state'[j] = "Queued" /\ ~closed'[j] /\ ~slot'[j]
      BY <2>1, <2>2, <2>3
    <3>2. j \in workers' /\ ~(j >= next_job_id')
      BY <2>1, <2>3
    <3>. QED  BY <3>1, <3>2
  <2>4. CASE j # next_job_id
    BY <2>1, <2>4 DEF Unfinished
  <2>. QED  BY <2>3, <2>4
<1>4. ASSUME NEW key \in Keys \cup {NoKey}, NEW c \in Classes, SubmitThreadFails(key, c)
      PROVE  WorkerPhases'
  <2>1. /\ next_job_id \in JobIds /\ next_job_id' = next_job_id + 1 /\ workers' = Unfinished
        /\ UNCHANGED <<class, state, log, closed, pc, slot>>
    BY <1>4 DEF SubmitThreadFails, jobVars, workerVars
  <2>. QED  BY <2>1 DEF Unfinished
<1>5. ASSUME NEW j \in JobIds, AcquireSlot(j) PROVE WorkerPhases'
  <2>1. /\ pc[j] = "acquire" /\ pc' = [pc EXCEPT ![j] = "begin"]
        /\ slot' = [slot EXCEPT ![j] = TRUE]
        /\ UNCHANGED <<class, state, log, closed, workers, next_job_id>>
    BY <1>5 DEF AcquireSlot, jobVars
  <2>2. class[j] = "Provider"
    BY <2>1
  <2>. QED  BY <2>1, <2>2, LiveWorkerMoves
<1>6. ASSUME NEW j \in JobIds, AcquireGivesUp(j) PROVE WorkerPhases'
  <2>1. /\ pc[j] = "acquire" /\ pc' = [pc EXCEPT ![j] = "begin"]
        /\ UNCHANGED <<class, state, log, closed, workers, next_job_id, slot>>
    BY <1>6 DEF AcquireGivesUp, registryVars, jobVars
  <2>. QED  BY <2>1, LiveWorkerKeepsSlot
<1>7. ASSUME NEW j \in JobIds, SkipWork(j) PROVE WorkerPhases'
  <2>1. /\ pc[j] = "begin" /\ pc' = [pc EXCEPT ![j] = AfterWork(j)]
        /\ UNCHANGED <<class, state, log, closed, workers, next_job_id, slot>>
    BY <1>7 DEF SkipWork, registryVars, jobVars
  <2>. QED  BY <2>1, LiveWorkerKeepsSlot DEF AfterWork
<1>8. ASSUME NEW j \in JobIds, StartWork(j) PROVE WorkerPhases'
  BY <1>8 DEF StartWork, Publish, registryVars
<1>9. ASSUME NEW j \in JobIds, WorkProgress(j) PROVE WorkerPhases'
  BY <1>9 DEF WorkProgress, Publish, registryVars, workerVars
<1>10. ASSUME NEW j \in JobIds, WorkReturns(j) PROVE WorkerPhases'
  <2>1. /\ pc[j] = "work" /\ pc' = [pc EXCEPT ![j] = AfterWork(j)]
        /\ UNCHANGED <<class, state, log, closed, workers, next_job_id, slot>>
    BY <1>10 DEF WorkReturns, registryVars, jobVars
  <2>. QED  BY <2>1, LiveWorkerKeepsSlot DEF AfterWork
<1>11. ASSUME NEW j \in JobIds, ReleaseProvider(j) PROVE WorkerPhases'
  <2>1. /\ pc[j] = "release" /\ pc' = [pc EXCEPT ![j] = "decide"]
        /\ slot' = [slot EXCEPT ![j] = FALSE]
        /\ UNCHANGED <<class, state, log, closed, workers, next_job_id>>
    BY <1>11 DEF ReleaseProvider, jobVars
  <2>. QED  BY <2>1, LiveWorkerMoves
<1>12. ASSUME NEW j \in JobIds, SetTerminal(j) PROVE WorkerPhases'
  BY <1>12 DEF SetTerminal, EndState, AfterTerminal, registryVars
<1>21. ASSUME NEW j \in JobIds, Judge(j) PROVE WorkerPhases'
  <2>1. /\ pc[j] = "decide" /\ pc' = [pc EXCEPT ![j] = "settle"]
        /\ UNCHANGED <<class, state, log, closed, workers, next_job_id, slot>>
    BY <1>21 DEF Judge, registryVars, jobVars
  <2>2. ~slot[j]
    BY <2>1
  <2>. QED  BY <2>1, <2>2, LiveWorkerKeepsSlot
<1>13. ASSUME NEW j \in JobIds, PublishTerminal(j) PROVE WorkerPhases'
  <2>1. /\ pc[j] = "publish" /\ pc' = [pc EXCEPT ![j] = "close"]
        /\ log' = [log EXCEPT ![j] = Append(@, state[j])]
        /\ UNCHANGED <<class, state, closed, workers, next_job_id, slot>>
    BY <1>13 DEF PublishTerminal, Publish, registryVars
  <2>2. ~closed[j]
    BY <2>1
  <2>3. closed' = [closed EXCEPT ![j] = FALSE]
    BY <2>1, <2>2
  <2>4. \A i \in JobIds \ {j} : log'[i] = log[i]
    BY <2>1
  <2>. QED  BY <2>1, <2>3, <2>4, EndedWorkerMoves
<1>14. ASSUME NEW j \in JobIds, CloseEvents(j) PROVE WorkerPhases'
  <2>1. /\ pc[j] = "close" /\ pc' = [pc EXCEPT ![j] = "lane"]
        /\ closed' = [closed EXCEPT ![j] = TRUE]
        /\ UNCHANGED <<class, state, log, workers, next_job_id, slot>>
    BY <1>14 DEF CloseEvents, registryVars
  <2>. QED  BY <2>1, EndedWorkerMoves
<1>15. ASSUME NEW j \in JobIds, LeaveLane(j) PROVE WorkerPhases'
  <2>1. /\ pc[j] = "lane" /\ pc' = [pc EXCEPT ![j] = "done"]
        /\ UNCHANGED <<class, state, log, closed, workers, next_job_id, slot>>
    BY <1>15 DEF LeaveLane, jobVars
  <2>2. closed' = [closed EXCEPT ![j] = TRUE]
    BY <2>1
  <2>. QED  BY <2>1, <2>2, EndedWorkerMoves
<1>16. ASSUME NEW j \in JobIds, Cancel(j) PROVE WorkerPhases'
  BY <1>16 DEF Cancel, registryVars, workerVars
<1>17. CASE ShutdownBegin
  BY <1>17 DEF ShutdownBegin, jobVars, workerVars
<1>18. CASE ShutdownCancel
  BY <1>18 DEF ShutdownCancel, registryVars, workerVars
<1>19. CASE ShutdownReturn
  BY <1>19 DEF ShutdownReturn, Joined, ShutPhases, jobVars, workerVars
<1>20. CASE UNCHANGED vars
  BY <1>20 DEF vars, registryVars, jobVars, workerVars
<1>. QED
  BY <1>1, <1>2, <1>3, <1>4, <1>5, <1>6, <1>7, <1>8, <1>9, <1>10, <1>11, <1>12, <1>13,
     <1>14, <1>15, <1>16, <1>17, <1>18, <1>19, <1>20, <1>21
     DEF Next, Submit, Worker, Advance, Shutdown, Stopped


\* The lane: whoever submits an agent job finds the lane empty, so no agent
\* worker is under way; only the holder gives the lane back.
LEMMA LaneStep ==
    ASSUME TypeOK, WorkerPhases, OneAgentRun, LaneHolder, [Next]_vars
    PROVE  (OneAgentRun /\ LaneHolder)'
<1> USE BoundsAssumption
    DEF TypeOK, WorkerPhases, OneAgentRun, LaneHolder, JobIds, NoJob, Classes, Labels, Goto
<1>1. ASSUME NEW key \in Keys \cup {NoKey}, NEW c \in Classes, SubmitRefused(key, c)
      PROVE  (OneAgentRun /\ LaneHolder)'
  BY <1>1 DEF SubmitRefused, jobVars, workerVars
<1>2. ASSUME NEW key \in Keys \cup {NoKey}, NEW c \in Classes, SubmitFull(key, c)
      PROVE  (OneAgentRun /\ LaneHolder)'
  BY <1>2 DEF SubmitFull, jobVars, workerVars
<1>3. ASSUME NEW key \in Keys \cup {NoKey}, NEW c \in Classes, SubmitCreated(key, c)
      PROVE  (OneAgentRun /\ LaneHolder)'
  <2>1. /\ next_job_id \in JobIds /\ pc[next_job_id] = "none" /\ ~LaneBusy(c)
        /\ active_agent' = IF c = "Agent" THEN next_job_id ELSE active_agent
        /\ class' = [class EXCEPT ![next_job_id] = c]
        /\ pc' = [pc EXCEPT ![next_job_id] = IF c = "Provider" THEN "acquire" ELSE "begin"]
    BY <1>3 DEF SubmitCreated
  <2>2. CASE c = "Agent"
    BY <2>1, <2>2 DEF LaneBusy
  <2>3. CASE c = "Provider"
    <3>1. active_agent' = active_agent
      BY <2>1, <2>3
    <3>2. class'[next_job_id] = "Provider" /\ active_agent # next_job_id
      BY <2>1, <2>3
    <3>3. \A j \in JobIds \ {next_job_id} : class'[j] = class[j] /\ pc'[j] = pc[j]
      BY <2>1
    <3>4. OneAgentRun'
      BY <2>1, <3>1, <3>2, <3>3
    <3>5. LaneHolder'
      BY <2>1, <3>1, <3>2, <3>3
    <3>. QED  BY <3>4, <3>5
  <2>. QED  BY <2>2, <2>3
<1>4. ASSUME NEW key \in Keys \cup {NoKey}, NEW c \in Classes, SubmitThreadFails(key, c)
      PROVE  (OneAgentRun /\ LaneHolder)'
  BY <1>4 DEF SubmitThreadFails, jobVars, workerVars
<1>5. ASSUME NEW j \in JobIds, AcquireSlot(j) PROVE (OneAgentRun /\ LaneHolder)'
  BY <1>5 DEF AcquireSlot, jobVars
<1>6. ASSUME NEW j \in JobIds, AcquireGivesUp(j) PROVE (OneAgentRun /\ LaneHolder)'
  BY <1>6 DEF AcquireGivesUp, registryVars, jobVars
<1>7. ASSUME NEW j \in JobIds, SkipWork(j) PROVE (OneAgentRun /\ LaneHolder)'
  BY <1>7 DEF SkipWork, AfterWork, registryVars, jobVars
<1>8. ASSUME NEW j \in JobIds, StartWork(j) PROVE (OneAgentRun /\ LaneHolder)'
  BY <1>8 DEF StartWork, registryVars
<1>9. ASSUME NEW j \in JobIds, WorkProgress(j) PROVE (OneAgentRun /\ LaneHolder)'
  BY <1>9 DEF WorkProgress, registryVars, workerVars
<1>10. ASSUME NEW j \in JobIds, WorkReturns(j) PROVE (OneAgentRun /\ LaneHolder)'
  BY <1>10 DEF WorkReturns, AfterWork, registryVars, jobVars
<1>11. ASSUME NEW j \in JobIds, ReleaseProvider(j) PROVE (OneAgentRun /\ LaneHolder)'
  BY <1>11 DEF ReleaseProvider, jobVars
<1>12. ASSUME NEW j \in JobIds, SetTerminal(j) PROVE (OneAgentRun /\ LaneHolder)'
  BY <1>12 DEF SetTerminal, registryVars, AfterTerminal
<1>21. ASSUME NEW j \in JobIds, Judge(j) PROVE (OneAgentRun /\ LaneHolder)'
  BY <1>21 DEF Judge, registryVars, jobVars
<1>13. ASSUME NEW j \in JobIds, PublishTerminal(j) PROVE (OneAgentRun /\ LaneHolder)'
  BY <1>13 DEF PublishTerminal, registryVars
<1>14. ASSUME NEW j \in JobIds, CloseEvents(j) PROVE (OneAgentRun /\ LaneHolder)'
  BY <1>14 DEF CloseEvents, registryVars
<1>15. ASSUME NEW j \in JobIds, LeaveLane(j) PROVE (OneAgentRun /\ LaneHolder)'
  BY <1>15 DEF LeaveLane, jobVars, LaneAfter
<1>16. ASSUME NEW j \in JobIds, Cancel(j) PROVE (OneAgentRun /\ LaneHolder)'
  BY <1>16 DEF Cancel, registryVars, workerVars
<1>17. CASE ShutdownBegin
  BY <1>17 DEF ShutdownBegin, jobVars, workerVars
<1>18. CASE ShutdownCancel
  BY <1>18 DEF ShutdownCancel, registryVars, workerVars
<1>19. CASE ShutdownReturn
  BY <1>19 DEF ShutdownReturn, jobVars, workerVars
<1>20. CASE UNCHANGED vars
  BY <1>20 DEF vars, registryVars, jobVars, workerVars
<1>. QED
  BY <1>1, <1>2, <1>3, <1>4, <1>5, <1>6, <1>7, <1>8, <1>9, <1>10, <1>11, <1>12, <1>13,
     <1>14, <1>15, <1>16, <1>17, <1>18, <1>19, <1>20, <1>21
     DEF Next, Submit, Worker, Advance, Shutdown, Stopped

\* The stream: nothing is appended once the terminal event is in.
LEMMA StreamStep ==
    ASSUME TypeOK, WorkerPhases, StreamPhases, [Next]_vars
    PROVE  StreamPhases'
<1>1. ASSUME NEW key \in Keys \cup {NoKey}, NEW c \in Classes, SubmitCreated(key, c)
      PROVE  StreamPhases'
  <2> DEFINE j == next_job_id
  <2>1. /\ j \in JobIds /\ Publish(j, "queued") /\ state' = state
        /\ pc' = [pc EXCEPT ![j] = IF c = "Provider" THEN "acquire" ELSE "begin"]
    BY <1>1 DEF SubmitCreated, Goto
  <2>2. pc[j] = "none" /\ pc'[j] \in {"acquire", "begin"}
    BY <2>1 DEF WorkerPhases, TypeOK, JobIds
  <2>3. \A k \in JobIds \ {j} : pc'[k] = pc[k] /\ state'[k] = state[k]
    BY <2>1 DEF TypeOK
  <2> HIDE DEF j
  <2>. QED  BY <2>1, <2>2, <2>3, PublishQuiet
<1>2. ASSUME NEW j \in JobIds, StartWork(j) PROVE StreamPhases'
  <2>1. /\ Publish(j, "running") /\ pc[j] = "begin" /\ pc'[j] = "work"
        /\ \A k \in JobIds \ {j} : pc'[k] = pc[k] /\ state'[k] = state[k]
    BY <1>2 DEF StartWork, Goto, TypeOK
  <2>. QED  BY <2>1, PublishQuiet
<1>3. ASSUME NEW j \in JobIds, WorkProgress(j) PROVE StreamPhases'
  <2>1. Publish(j, "progress") /\ pc[j] = "work" /\ pc' = pc /\ state' = state
    BY <1>3 DEF WorkProgress, workerVars
  <2>. QED  BY <2>1, PublishQuiet
<1>4. ASSUME NEW j \in JobIds, PublishTerminal(j) PROVE StreamPhases'
  <2>1. /\ Publish(j, state[j]) /\ pc[j] = "publish" /\ pc'[j] = "close" /\ state' = state
        /\ \A k \in JobIds \ {j} : pc'[k] = pc[k]
    BY <1>4 DEF PublishTerminal, Goto, TypeOK
  <2>2. state[j] \in EventTypes
    BY DEF TypeOK, EventTypes
  <2>3. Untold(j)
    BY <2>1 DEF StreamPhases
  <2>4. Told(j)'
    <3>1. /\ Len(log[j]) \in Nat /\ Len(log'[j]) = Len(log[j]) + 1
          /\ log'[j][Len(log[j]) + 1] = state[j]
          /\ \A i \in 1..Len(log[j]) : log'[j][i] = log[j][i]
      BY <2>1, <2>2, PublishAppends
    <3>. QED  BY <2>1, <2>3, <3>1 DEF Told, Untold
  <2>5. \A k \in JobIds \ {j} : log'[k] = log[k]
    BY <2>1, <2>2, PublishAppends
  <2>6. \A k \in JobIds \ {j} : (Told(k)' <=> Told(k)) /\ (Untold(k)' <=> Untold(k))
    BY <2>1, <2>5 DEF Told, Untold
  <2>. QED  BY <2>1, <2>4, <2>6 DEF StreamPhases
<1>5. ASSUME NEW j \in JobIds, SetTerminal(j) PROVE StreamPhases'
  <2>1. /\ pc[j] = "settle" /\ pc'[j] = "publish" /\ log' = log
        /\ \A k \in JobIds \ {j} : pc'[k] = pc[k] /\ state'[k] = state[k]
    BY <1>5 DEF SetTerminal, AfterTerminal, Goto, TypeOK
  <2>. QED  BY <2>1 DEF StreamPhases, Told, Untold
<1>6. ASSUME NEW j \in JobIds, UNCHANGED <<log, state>>,
             pc[j] \in {"close", "lane", "done"} <=> pc'[j] \in {"close", "lane", "done"},
             \A k \in JobIds \ {j} : pc'[k] = pc[k]
      PROVE  StreamPhases'
  BY <1>6 DEF StreamPhases, Told, Untold
<1>7. ASSUME NEW j \in JobIds,
             \/ AcquireSlot(j) \/ AcquireGivesUp(j) \/ SkipWork(j) \/ WorkReturns(j)
             \/ ReleaseProvider(j) \/ Judge(j) \/ CloseEvents(j) \/ LeaveLane(j)
      PROVE  StreamPhases'
  <2>1. UNCHANGED <<log, state>> /\ \A k \in JobIds \ {j} : pc'[k] = pc[k]
    BY <1>7 DEF AcquireSlot, AcquireGivesUp, SkipWork, AfterWork, WorkReturns, ReleaseProvider, Judge, CloseEvents,
                LeaveLane, Goto, TypeOK, jobVars
  <2>2. pc[j] \in {"close", "lane", "done"} <=> pc'[j] \in {"close", "lane", "done"}
    BY <1>7 DEF AcquireSlot, AcquireGivesUp, SkipWork, AfterWork, WorkReturns, ReleaseProvider, Judge, CloseEvents,
                LeaveLane, Goto, TypeOK
  <2>. QED  BY <1>6, <2>1, <2>2
<1>8. CASE UNCHANGED <<log, state, pc>>
  BY <1>8 DEF StreamPhases, Told, Untold
<1>9. ASSUME NEW key \in Keys \cup {NoKey}, NEW c \in Classes,
             SubmitRefused(key, c) \/ SubmitFull(key, c) \/ SubmitThreadFails(key, c)
      PROVE  UNCHANGED <<log, state, pc>>
  BY <1>9 DEF SubmitRefused, SubmitFull, SubmitThreadFails, jobVars, workerVars
<1>10. ASSUME NEW j \in JobIds, Cancel(j) PROVE UNCHANGED <<log, state, pc>>
  BY <1>10 DEF Cancel, workerVars
<1>11. ASSUME Shutdown \/ UNCHANGED vars PROVE UNCHANGED <<log, state, pc>>
  BY <1>11 DEF Shutdown, ShutdownBegin, ShutdownCancel, ShutdownReturn, vars, jobVars, workerVars
<1>. QED
  BY <1>1, <1>2, <1>3, <1>4, <1>5, <1>7, <1>8, <1>9, <1>10, <1>11
     DEF Next, Submit, Worker, Advance, Stopped

\* Shutdown: once stopping, no worker is added, and shutdown() waits for each.
LEMMA ShutStep ==
    ASSUME TypeOK, WorkerPhases, ShutPhases, [Next]_vars
    PROVE  ShutPhases'
<1> USE BoundsAssumption
    DEF TypeOK, WorkerPhases, ShutPhases, JobIds, Classes, Labels, Goto
<1>1. ASSUME NEW key \in Keys \cup {NoKey}, NEW c \in Classes, SubmitRefused(key, c)
      PROVE  ShutPhases'
  BY <1>1 DEF SubmitRefused, jobVars, workerVars, shutVars, Unfinished
<1>2. ASSUME NEW key \in Keys \cup {NoKey}, NEW c \in Classes, SubmitFull(key, c)
      PROVE  ShutPhases'
  BY <1>2 DEF SubmitFull, jobVars, workerVars, shutVars, Unfinished
<1>3. ASSUME NEW key \in Keys \cup {NoKey}, NEW c \in Classes, SubmitCreated(key, c)
      PROVE  ShutPhases'
  <2>1. /\ next_job_id \in JobIds /\ ~stopping /\ UNCHANGED <<shut, stopping>>
        /\ jobs' \subseteq jobs \cup {next_job_id}
        /\ pc' = [pc EXCEPT ![next_job_id] = IF c = "Provider" THEN "acquire" ELSE "begin"]
    BY <1>3, EvictionFacts DEF SubmitCreated, shutVars
  <2>. QED  BY <2>1
<1>4. ASSUME NEW key \in Keys \cup {NoKey}, NEW c \in Classes, SubmitThreadFails(key, c)
      PROVE  ShutPhases'
  <2>1. ~stopping /\ UNCHANGED <<shut, stopping, pc>> /\ jobs' \subseteq jobs
    BY <1>4, EvictionFacts DEF SubmitThreadFails, workerVars, shutVars
  <2>. QED  BY <2>1
<1>5. ASSUME NEW j \in JobIds, AcquireSlot(j) PROVE ShutPhases'
  BY <1>5 DEF AcquireSlot, jobVars, shutVars
<1>6. ASSUME NEW j \in JobIds, AcquireGivesUp(j) PROVE ShutPhases'
  BY <1>6 DEF AcquireGivesUp, registryVars, jobVars, shutVars
<1>7. ASSUME NEW j \in JobIds, SkipWork(j) PROVE ShutPhases'
  BY <1>7 DEF SkipWork, AfterWork, registryVars, jobVars, shutVars
<1>8. ASSUME NEW j \in JobIds, StartWork(j) PROVE ShutPhases'
  BY <1>8 DEF StartWork, registryVars, shutVars
<1>9. ASSUME NEW j \in JobIds, WorkProgress(j) PROVE ShutPhases'
  BY <1>9 DEF WorkProgress, registryVars, workerVars, shutVars
<1>10. ASSUME NEW j \in JobIds, WorkReturns(j) PROVE ShutPhases'
  BY <1>10 DEF WorkReturns, AfterWork, registryVars, jobVars, shutVars
<1>11. ASSUME NEW j \in JobIds, ReleaseProvider(j) PROVE ShutPhases'
  BY <1>11 DEF ReleaseProvider, jobVars, shutVars
<1>12. ASSUME NEW j \in JobIds, SetTerminal(j) PROVE ShutPhases'
  BY <1>12 DEF SetTerminal, registryVars, shutVars, AfterTerminal
<1>21. ASSUME NEW j \in JobIds, Judge(j) PROVE ShutPhases'
  BY <1>21 DEF Judge, registryVars, jobVars, shutVars
<1>13. ASSUME NEW j \in JobIds, PublishTerminal(j) PROVE ShutPhases'
  BY <1>13 DEF PublishTerminal, registryVars, shutVars
<1>14. ASSUME NEW j \in JobIds, CloseEvents(j) PROVE ShutPhases'
  BY <1>14 DEF CloseEvents, registryVars, shutVars
<1>15. ASSUME NEW j \in JobIds, LeaveLane(j) PROVE ShutPhases'
  BY <1>15 DEF LeaveLane, jobVars, shutVars
<1>16. ASSUME NEW j \in JobIds, Cancel(j) PROVE ShutPhases'
  BY <1>16 DEF Cancel, registryVars, workerVars, shutVars
<1>17. CASE ShutdownBegin
  BY <1>17 DEF ShutdownBegin, jobVars, workerVars
<1>18. CASE ShutdownCancel
  BY <1>18 DEF ShutdownCancel, registryVars, workerVars
<1>19. CASE ShutdownReturn
  BY <1>19 DEF ShutdownReturn, jobVars, workerVars, Joined
<1>20. CASE UNCHANGED vars
  BY <1>20 DEF vars, registryVars, jobVars, workerVars, shutVars
<1>. QED
  BY <1>1, <1>2, <1>3, <1>4, <1>5, <1>6, <1>7, <1>8, <1>9, <1>10, <1>11, <1>12, <1>13,
     <1>14, <1>15, <1>16, <1>17, <1>18, <1>19, <1>20, <1>21
     DEF Next, Submit, Worker, Advance, Shutdown, Stopped


LEMMA HoldersFinite ==
    /\ IsFiniteSet(SlotHolders) /\ Cardinality(SlotHolders) \in Nat
    /\ IsFiniteSet(JobIds)
<1>1. IsFiniteSet(JobIds)
  BY BoundsAssumption, FS_Interval DEF JobIds
<1>2. SlotHolders \in SUBSET JobIds
  BY DEF SlotHolders
<1>. QED  BY <1>1, <1>2, FS_Subset, FS_CardinalityType

\* The slots: the counter moves with the set of holders.
LEMMA SlotStep ==
    ASSUME TypeOK, WorkerPhases, ProviderSlots, [Next]_vars
    PROVE  ProviderSlots'
<1> DEFINE Entitled == \A j \in JobIds : class[j] = "Provider" /\ pc[j] = "work" => slot[j]
<1>1. ASSUME NEW j \in JobIds, AcquireSlot(j) PROVE ProviderSlots'
  <2>1. /\ provider_active' = provider_active + 1 /\ provider_active < ProviderConcurrency
        /\ pc[j] = "acquire" /\ pc' = [pc EXCEPT ![j] = "begin"] /\ class' = class
        /\ slot' = [slot EXCEPT ![j] = TRUE]
    BY <1>1 DEF AcquireSlot, SlotFree, Goto, jobVars
  <2>2. j \notin SlotHolders /\ SlotHolders' = SlotHolders \cup {j}
    BY <2>1 DEF SlotHolders, WorkerPhases, TypeOK
  <2>3. Cardinality(SlotHolders') = Cardinality(SlotHolders) + 1
    BY <2>2, HoldersFinite, FS_AddElement
  <2>4. Entitled'
    BY <2>1 DEF ProviderSlots, TypeOK
  <2>. QED  BY BoundsAssumption, <2>1, <2>3, <2>4 DEF ProviderSlots, TypeOK
<1>2. ASSUME NEW j \in JobIds, ReleaseProvider(j) PROVE ProviderSlots'
  <2>1. /\ provider_active' = SlotsAfter(j) /\ class' = class
        /\ pc[j] = "release" /\ pc' = [pc EXCEPT ![j] = "decide"]
        /\ slot' = [slot EXCEPT ![j] = FALSE]
    BY <1>2 DEF ReleaseProvider, Goto, jobVars
  <2>2. SlotHolders' = SlotHolders \ {j}
    BY <2>1 DEF SlotHolders, TypeOK
  <2>3. /\ Cardinality(SlotHolders') \in Nat
        /\ Cardinality(SlotHolders') = IF slot[j] THEN Cardinality(SlotHolders) - 1
                                                  ELSE Cardinality(SlotHolders)
    BY <2>2, HoldersFinite, FS_RemoveElement, FS_CardinalityType DEF SlotHolders
  <2>4. provider_active' = Cardinality(SlotHolders') /\ provider_active' <= ProviderConcurrency
    BY BoundsAssumption, <2>1, <2>3, HoldersFinite DEF SlotsAfter, ProviderSlots, TypeOK
  <2>5. Entitled'
    BY <2>1 DEF ProviderSlots, TypeOK
  <2>. QED  BY <2>4, <2>5 DEF ProviderSlots
<1>3. ASSUME UNCHANGED <<provider_active, slot>>, Entitled' PROVE ProviderSlots'
  BY <1>3 DEF ProviderSlots, SlotHolders
<1>4. ASSUME NEW key \in Keys \cup {NoKey}, NEW c \in Classes, SubmitCreated(key, c)
      PROVE  ProviderSlots'
  <2>1. /\ UNCHANGED <<provider_active, slot>> /\ next_job_id \in JobIds
        /\ class' = [class EXCEPT ![next_job_id] = c]
        /\ pc' = [pc EXCEPT ![next_job_id] = IF c = "Provider" THEN "acquire" ELSE "begin"]
    BY <1>4 DEF SubmitCreated, Goto
  <2>2. Entitled'
    BY <2>1 DEF ProviderSlots, TypeOK
  <2>. QED  BY <1>3, <2>1, <2>2
<1>5. ASSUME NEW key \in Keys \cup {NoKey}, NEW c \in Classes,
             SubmitRefused(key, c) \/ SubmitFull(key, c) \/ SubmitThreadFails(key, c)
      PROVE  ProviderSlots'
  <2>1. UNCHANGED <<provider_active, slot, class, pc>>
    BY <1>5 DEF SubmitRefused, SubmitFull, SubmitThreadFails, jobVars, workerVars
  <2>. QED  BY <1>3, <2>1 DEF ProviderSlots
<1>6. ASSUME NEW j \in JobIds, StartWork(j) PROVE ProviderSlots'
  <2>1. /\ UNCHANGED <<provider_active, slot, class>> /\ pc' = [pc EXCEPT ![j] = "work"]
        /\ class[j] = "Provider" => slot[j]
    BY <1>6 DEF StartWork, Goto, registryVars
  <2>2. Entitled'
    BY <2>1 DEF ProviderSlots, TypeOK
  <2>. QED  BY <1>3, <2>1, <2>2
<1>7. ASSUME NEW j \in JobIds,
             \/ AcquireGivesUp(j) \/ SkipWork(j) \/ WorkReturns(j) \/ Judge(j)
             \/ SetTerminal(j) \/ PublishTerminal(j) \/ CloseEvents(j) \/ LeaveLane(j)
      PROVE  ProviderSlots'
  <2>1. UNCHANGED <<provider_active, slot, class>>
    BY <1>7 DEF AcquireGivesUp, SkipWork, AfterWork, WorkReturns, Judge, SetTerminal, PublishTerminal, CloseEvents,
                LeaveLane, registryVars, jobVars
  <2>2. pc'[j] # "work" /\ \A k \in JobIds \ {j} : pc'[k] = pc[k]
    BY <1>7 DEF AcquireGivesUp, SkipWork, AfterWork, WorkReturns, Judge, SetTerminal, AfterTerminal,
                PublishTerminal, CloseEvents, LeaveLane, Goto, TypeOK
  <2>3. Entitled'
    BY <2>1, <2>2 DEF ProviderSlots
  <2>. QED  BY <1>3, <2>1, <2>3
<1>8. CASE UNCHANGED <<provider_active, slot, class, pc>>
  BY <1>3, <1>8 DEF ProviderSlots
<1>9. ASSUME NEW j \in JobIds, WorkProgress(j) \/ Cancel(j)
      PROVE  UNCHANGED <<provider_active, slot, class, pc>>
  BY <1>9 DEF WorkProgress, Cancel, registryVars, workerVars
<1>10. ASSUME Shutdown \/ UNCHANGED vars PROVE UNCHANGED <<provider_active, slot, class, pc>>
  BY <1>10 DEF Shutdown, ShutdownBegin, ShutdownCancel, ShutdownReturn, vars, registryVars,
               jobVars, workerVars
<1>. QED
  BY <1>1, <1>2, <1>4, <1>5, <1>6, <1>7, <1>8, <1>9, <1>10
     DEF Next, Submit, Worker, Advance, Stopped

\* What an eviction does to a retention order that is in step with the map.
LEMMA EvictionKeepsStep ==
    ASSUME TypeOK, RetentionInStep
    PROVE  /\ ToSet(EvictTerminal.order) = EvictTerminal.jobs
           /\ \A i, k \in 1..Len(EvictTerminal.order) :
                  i < k => EvictTerminal.order[i] < EvictTerminal.order[k]
<1> DEFINE full == {i \in DOMAIN retention_order : Evictable(i)}
<1>1. /\ DOMAIN retention_order = 1..Len(retention_order) /\ Len(retention_order) \in Nat
      /\ \A i \in 1..Len(retention_order) : retention_order[i] \in Nat
  BY BoundsAssumption, LenProperties, ElementOfSeq DEF TypeOK, JobIds
<1>2. CASE full = {}
  BY <1>1, <1>2 DEF EvictTerminal, RetentionInStep
<1>3. CASE full # {}
  <2> DEFINE i == CHOOSE i \in full : TRUE
             rest == RemoveAt(retention_order, i)
  <2>1. i \in 1..Len(retention_order)
    BY <1>1, <1>3
  <2>2. EvictTerminal.jobs = jobs \ {retention_order[i]} /\ EvictTerminal.order = rest
    BY <1>3 DEF EvictTerminal
  <2> HIDE DEF i, full
  <2>3. /\ rest \in Seq(JobIds) /\ Len(rest) = Len(retention_order) - 1
        /\ \A k \in 1..(Len(retention_order) - 1) :
               rest[k] = IF k < i THEN retention_order[k] ELSE retention_order[k + 1]
    BY <2>1, RemoveAtProperties DEF TypeOK
  <2>4. DOMAIN rest = 1..(Len(retention_order) - 1)
    BY <2>3, LenProperties
  <2> HIDE DEF rest
  <2>5. \A k, l \in 1..Len(retention_order) :
            k < l => retention_order[k] < retention_order[l]
    BY <1>1 DEF RetentionInStep
  <2>6. \A k, l \in 1..Len(rest) : k < l => rest[k] < rest[l]
    BY <1>1, <2>1, <2>3, <2>5
  <2>7. ToSet(rest) = jobs \ {retention_order[i]}
    <3>1. ASSUME NEW k \in 1..(Len(retention_order) - 1)
          PROVE  rest[k] \in jobs \ {retention_order[i]}
      <4>1. PICK l \in 1..Len(retention_order) : l # i /\ rest[k] = retention_order[l]
        BY <1>1, <2>1, <2>3
      <4>2. retention_order[l] # retention_order[i]
        BY <1>1, <2>1, <2>5, <4>1
      <4>. QED  BY <1>1, <4>1, <4>2 DEF RetentionInStep, ToSet
    <3>2. ASSUME NEW x \in jobs \ {retention_order[i]}
          PROVE  \E k \in 1..(Len(retention_order) - 1) : x = rest[k]
      <4>1. PICK l \in 1..Len(retention_order) : l # i /\ x = retention_order[l]
        BY <1>1 DEF RetentionInStep, ToSet
      <4>2. CASE l < i
        <5>1. l \in 1..(Len(retention_order) - 1) /\ rest[l] = x
          BY <1>1, <2>1, <2>3, <4>1, <4>2
        <5>. QED  BY <5>1
      <4>3. CASE l > i
        <5>1. (l - 1) \in 1..(Len(retention_order) - 1) /\ rest[l - 1] = x
          BY <1>1, <2>1, <2>3, <4>1, <4>3
        <5>. QED  BY <5>1
      <4>. QED  BY <2>1, <4>1, <4>2, <4>3
    <3>. QED  BY <2>4, <3>1, <3>2 DEF ToSet
  <2>. QED  BY <2>2, <2>6, <2>7
<1>. QED  BY <1>2, <1>3


RegistryInv == AtCapacity /\ RetentionInStep /\ KeysNameRetainedJobs

\* The map, its order and its keys: all three change together.
LEMMA RegistryStep ==
    ASSUME TypeOK, WorkerPhases, ShutPhases, RegistryInv, [Next]_vars
    PROVE  RegistryInv'
<1> DEFINE kept == EvictTerminal
<1>1. /\ kept.jobs \subseteq jobs /\ kept.order \in Seq(JobIds)
      /\ \A k \in DOMAIN kept.keys : /\ k \in DOMAIN idempotency
                                     /\ kept.keys[k] = idempotency[k]
                                     /\ kept.keys[k] \in kept.jobs
  BY EvictionFacts DEF RegistryInv, KeysNameRetainedJobs
<1>2. /\ ToSet(kept.order) = kept.jobs
      /\ \A i, k \in 1..Len(kept.order) : i < k => kept.order[i] < kept.order[k]
  BY EvictionKeepsStep DEF RegistryInv
<1>3. /\ IsFiniteSet(kept.jobs) /\ Cardinality(kept.jobs) \in Nat
  BY <1>1, HoldersFinite, FS_Subset, FS_CardinalityType DEF TypeOK
<1>4. \A k, l \in DOMAIN idempotency : idempotency[k] = idempotency[l] => k = l
  BY DEF RegistryInv, KeysNameRetainedJobs
<1> HIDE DEF kept
<1>5. ASSUME NEW key \in Keys \cup {NoKey}, NEW c \in Classes, SubmitCreated(key, c)
      PROVE  RegistryInv'
  <2> DEFINE j == next_job_id
  <2>1. /\ j \in JobIds /\ HasRoom(kept.jobs) /\ ~KeyTaken(key)
        /\ jobs' = kept.jobs \cup {j} /\ retention_order' = Append(kept.order, j)
        /\ idempotency' = WithKey(kept.keys, key, j)
    BY <1>5 DEF SubmitCreated, kept
  <2>2. \A k \in jobs : k < j
    BY <2>1 DEF ShutPhases, WorkerPhases, TypeOK, JobIds
  <2> HIDE DEF j
  <2>3. AtCapacity'
    <3>1. Cardinality(kept.jobs \cup {j}) <= Cardinality(kept.jobs) + 1
      BY <1>3, FS_AddElement
    <3>2. Cardinality(kept.jobs \cup {j}) \in Nat
      BY <1>3, FS_AddElement, FS_CardinalityType
    <3>. QED  BY BoundsAssumption, <1>3, <2>1, <3>1, <3>2 DEF HasRoom, AtCapacity
  <2>4. RetentionInStep'
    <3> DEFINE n == Len(kept.order)
    <3>1. /\ n \in Nat /\ DOMAIN kept.order = 1..n
          /\ \A i \in 1..n : kept.order[i] \in kept.jobs /\ kept.order[i] < j
      <4>1. n \in Nat /\ DOMAIN kept.order = 1..n
        BY <1>1, LenProperties
      <4>. QED  BY <1>1, <1>2, <2>2, <4>1 DEF ToSet
    <3>2. /\ DOMAIN retention_order' = 1..(n + 1) /\ retention_order'[n + 1] = j
          /\ \A i \in 1..n : retention_order'[i] = kept.order[i]
      BY <1>1, <2>1, <3>1
    <3> HIDE DEF n
    <3>3. ToSet(retention_order') = jobs'
      BY <1>2, <2>1, <3>1, <3>2 DEF ToSet
    <3>4. \A i, k \in 1..(n + 1) : i < k => retention_order'[i] < retention_order'[k]
      <4> SUFFICES ASSUME NEW i \in 1..(n + 1), NEW k \in 1..(n + 1), i < k
                   PROVE  retention_order'[i] < retention_order'[k]
        OBVIOUS
      <4>1. i \in 1..n
        BY <3>1
      <4>2. CASE k = n + 1
        BY <3>1, <3>2, <4>1, <4>2
      <4>3. CASE k # n + 1
        <5>1. k \in 1..n
          BY <3>1, <4>3
        <5>. QED  BY <1>2, <3>2, <4>1, <5>1 DEF n
      <4>. QED  BY <4>2, <4>3
    <3>. QED  BY <3>2, <3>3, <3>4 DEF RetentionInStep
  <2>5. KeysNameRetainedJobs'
    <3>1. CASE key = NoKey
      BY <1>1, <1>4, <2>1, <3>1 DEF WithKey, KeysNameRetainedJobs
    <3>2. CASE key # NoKey
      <4>1. idempotency' = [k \in DOMAIN kept.keys \cup {key} |->
                                IF k = key THEN j ELSE kept.keys[k]]
        BY <2>1, <3>2 DEF WithKey
      <4>2. \A k \in DOMAIN kept.keys : kept.keys[k] # j /\ k # key
        BY <1>1, <2>1, <2>2 DEF KeyTaken, TypeOK, JobIds
      <4>. QED  BY <1>1, <1>4, <2>1, <4>1, <4>2 DEF KeysNameRetainedJobs
    <3>. QED  BY <3>1, <3>2
  <2>. QED  BY <2>3, <2>4, <2>5 DEF RegistryInv
<1>6. ASSUME NEW key \in Keys \cup {NoKey}, NEW c \in Classes, SubmitThreadFails(key, c)
      PROVE  RegistryInv'
  <2>1. /\ HasRoom(kept.jobs) /\ jobs' = kept.jobs /\ retention_order' = kept.order
        /\ idempotency' = kept.keys
    BY <1>6 DEF SubmitThreadFails, kept
  <2>2. AtCapacity'
    BY BoundsAssumption, <1>3, <2>1 DEF HasRoom, AtCapacity
  <2>3. RetentionInStep'
    BY <1>1, <1>2, <2>1, LenProperties DEF RetentionInStep
  <2>4. KeysNameRetainedJobs'
    BY <1>1, <1>4, <2>1 DEF KeysNameRetainedJobs
  <2>. QED  BY <2>2, <2>3, <2>4 DEF RegistryInv
<1>7. CASE UNCHANGED <<jobs, retention_order, idempotency>>
  BY <1>7 DEF RegistryInv, AtCapacity, RetentionInStep, KeysNameRetainedJobs
<1>8. ASSUME NEW key \in Keys \cup {NoKey}, NEW c \in Classes,
             SubmitRefused(key, c) \/ SubmitFull(key, c)
      PROVE  UNCHANGED <<jobs, retention_order, idempotency>>
  BY <1>8 DEF SubmitRefused, SubmitFull
<1>9. ASSUME NEW j \in JobIds, Worker(j) \/ Cancel(j)
      PROVE  UNCHANGED <<jobs, retention_order, idempotency>>
  BY <1>9 DEF Worker, Advance, AcquireSlot, AcquireGivesUp, SkipWork, StartWork, WorkProgress,
              WorkReturns, ReleaseProvider, Judge, SetTerminal, PublishTerminal, CloseEvents, LeaveLane,
              Cancel, registryVars
<1>10. ASSUME Shutdown \/ UNCHANGED vars
       PROVE  UNCHANGED <<jobs, retention_order, idempotency>>
  BY <1>10 DEF Shutdown, ShutdownBegin, ShutdownCancel, ShutdownReturn, vars, registryVars
<1>. QED  BY <1>5, <1>6, <1>7, <1>8, <1>9, <1>10 DEF Next, Submit, Stopped

LEMMA InitInv == Init => IInv
<1> SUFFICES ASSUME Init PROVE IInv
  OBVIOUS
<1> USE BoundsAssumption DEF Init, JobIds, NoJob
<1>1. TypeOK
  <2>1. /\ retention_order \in Seq(JobIds)
        /\ log \in [JobIds -> Seq(EventTypes)]
    OBVIOUS
  <2>2. /\ DOMAIN idempotency \subseteq Keys
        /\ idempotency \in [DOMAIN idempotency -> JobIds]
    OBVIOUS
  <2>3. /\ next_job_id \in 1..(MaxSubmits + 1)
        /\ provider_active \in Nat
    OBVIOUS
  <2>. QED
    BY <2>1, <2>2, <2>3 DEF TypeOK, Classes, States, Outcomes, Labels
<1>2. AtCapacity /\ RetentionInStep /\ KeysNameRetainedJobs
  BY FS_EmptySet DEF AtCapacity, RetentionInStep, KeysNameRetainedJobs, ToSet
<1>3. ProviderSlots
  <2>1. SlotHolders = {}
    BY DEF SlotHolders
  <2>. QED  BY <2>1, FS_EmptySet DEF ProviderSlots
<1>4. OneAgentRun /\ WorkerPhases /\ LaneHolder /\ StreamPhases /\ ShutPhases
  BY DEF OneAgentRun, WorkerPhases, LaneHolder, StreamPhases, ShutPhases, Told, Untold, Terminal,
         TerminalStates
<1>. QED  BY <1>1, <1>2, <1>3, <1>4 DEF IInv

LEMMA StepInv == IInv /\ [Next]_vars => IInv'
  BY TypeStep, PhaseStep, LaneStep, StreamStep, ShutStep, SlotStep, RegistryStep
     DEF IInv, RegistryInv

\* The inductive invariant holds of every reachable state, whatever the
\* number of jobs, slots and keys.
THEOREM Invariance == Spec => []IInv
  BY InitInv, StepInv, PTL DEF Spec

\* Every variable keeps its type.
THEOREM TypeCorrect == Spec => []TypeOK
<1>1. IInv => TypeOK
  BY DEF IInv
<1>. QED  BY <1>1, Invariance, PTL

\* At most one agent run is under way (job_registry.cpp:114, 216).
THEOREM LaneIsExclusive == Spec => []OneAgentRun
<1>1. IInv => OneAgentRun
  BY DEF IInv
<1>. QED  BY <1>1, Invariance, PTL

\* The provider slots are never oversubscribed, leaked or returned twice.
THEOREM SlotsAreAccounted == Spec => []ProviderSlots
<1>1. IInv => ProviderSlots
  BY DEF IInv
<1>. QED  BY <1>1, Invariance, PTL

\* The registry stays within its bound and an idempotency key never outlives
\* the job it names.
THEOREM RegistryIsConsistent == Spec => []RegistryInStep
<1>1. IInv => RegistryInStep
  BY DEF IInv, RegistryInStep
<1>. QED  BY <1>1, Invariance, PTL

\* A stream that has told of an end has told of the job's state, and closes
\* after it.
THEOREM StreamsAgree == Spec => []StreamEndsWithState
<1>1. IInv => StreamEndsWithState
  <2> SUFFICES ASSUME IInv, NEW j \in JobIds
               PROVE  /\ (\E i \in DOMAIN log[j] : log[j][i] \in TerminalStates) =>
                             /\ Last(log[j]) = state[j]
                             /\ \A i \in 1..(Len(log[j]) - 1) : log[j][i] \notin TerminalStates
                      /\ closed[j] => Last(log[j]) \in TerminalStates
    BY DEF StreamEndsWithState
  <2>1. DOMAIN log[j] = 1..Len(log[j])
    BY LenProperties DEF IInv, TypeOK
  <2>2. CASE pc[j] \in {"close", "lane", "done"}
    BY <2>1, <2>2 DEF IInv, StreamPhases, Told, WorkerPhases, Terminal, Last
  <2>3. CASE pc[j] \notin {"close", "lane", "done"}
    BY <2>1, <2>3 DEF IInv, StreamPhases, Untold, WorkerPhases
  <2>. QED  BY <2>2, <2>3
<1>. QED  BY <1>1, Invariance, PTL

\* When shutdown() has returned nothing runs, and no slot or lane is held.
THEOREM ShutdownLeavesNothing == Spec => []ShutdownIsFinal
<1>1. IInv => ShutdownIsFinal
  <2> SUFFICES ASSUME IInv, shut = "done"
               PROVE  /\ \A j \in JobIds : pc[j] \in {"none", "done"}
                      /\ \A j \in jobs : Terminal(j) /\ closed[j]
                      /\ provider_active = 0 /\ active_agent = NoJob
    BY DEF ShutdownIsFinal
  <2>1. \A j \in JobIds : pc[j] \in {"none", "done"}
    BY DEF IInv, ShutPhases
  <2>2. \A j \in jobs : Terminal(j) /\ closed[j]
    BY <2>1 DEF IInv, ShutPhases, WorkerPhases, TypeOK
  <2>3. SlotHolders = {}
    BY <2>1 DEF SlotHolders, IInv, WorkerPhases
  <2>4. provider_active = 0
    BY <2>3, FS_EmptySet DEF IInv, ProviderSlots
  <2>5. active_agent = NoJob
    BY <2>1 DEF IInv, LaneHolder, TypeOK
  <2>. QED  BY <2>1, <2>2, <2>4, <2>5
<1>. QED  BY <1>1, Invariance, PTL

\* Only an ended job is dropped, by eviction or rollback.
THEOREM EvictionIsSafe == Spec => EvictsOnlyEnded
<1> DEFINE Safe == \A j \in jobs \ jobs' : Terminal(j)
<1>1. IInv /\ [Next]_vars => [Safe]_vars
  <2> SUFFICES ASSUME IInv, Next PROVE Safe
    OBVIOUS
  <2>1. ASSUME NEW key \in Keys \cup {NoKey}, NEW c \in Classes,
               SubmitCreated(key, c) \/ SubmitThreadFails(key, c)
        PROVE  EvictTerminal.jobs \subseteq jobs'
    BY <2>1 DEF SubmitCreated, SubmitThreadFails
  <2>2. \A j \in jobs \ EvictTerminal.jobs : Terminal(j)
    BY EvictionFacts DEF IInv
  <2>3. ASSUME jobs' = jobs PROVE Safe
    BY <2>3
  <2>4. ASSUME NEW key \in Keys \cup {NoKey}, NEW c \in Classes,
               SubmitRefused(key, c) \/ SubmitFull(key, c)
        PROVE  jobs' = jobs
    BY <2>4 DEF SubmitRefused, SubmitFull
  <2>5. ASSUME NEW j \in JobIds, Worker(j) \/ Cancel(j) PROVE jobs' = jobs
    BY <2>5 DEF Worker, Advance, AcquireSlot, AcquireGivesUp, SkipWork, StartWork, WorkProgress,
                WorkReturns, ReleaseProvider, Judge, SetTerminal, PublishTerminal, CloseEvents,
                LeaveLane, Cancel, registryVars
  <2>6. ASSUME Shutdown \/ Stopped PROVE jobs' = jobs
    BY <2>6 DEF Shutdown, ShutdownBegin, ShutdownCancel, ShutdownReturn, Stopped, vars,
                registryVars
  <2>. QED  BY <2>1, <2>2, <2>3, <2>4, <2>5, <2>6 DEF Next, Submit
<1>. QED  BY <1>1, Invariance, PTL DEF Spec, EvictsOnlyEnded

\* An ended job keeps its state, and nothing is published on a stream that has
\* been closed, whatever its worker and the other callers still do.
THEOREM EndsAreFinal == Spec => EndedStaysEnded
<1> DEFINE Kept == \A j \in JobIds : /\ Terminal(j) => state'[j] = state[j]
                                     /\ closed[j] => log'[j] = log[j]
<1>1. IInv /\ [Next]_vars => [Kept]_vars
  <2> SUFFICES ASSUME IInv, Next PROVE Kept
    OBVIOUS
  <2>1. WorkerPhases /\ state \in [JobIds -> States] /\ log \in [JobIds -> Seq(EventTypes)]
    BY DEF IInv, TypeOK
  <2>2. ASSUME UNCHANGED <<state, log>> PROVE Kept
    BY <2>2
  <2>3. ASSUME NEW j \in JobIds, ~Terminal(j), ~closed[j],
               \A i \in JobIds : i # j => state'[i] = state[i] /\ log'[i] = log[i]
        PROVE  Kept
    BY <2>3
  <2>4. ASSUME NEW key \in Keys \cup {NoKey}, NEW c \in Classes, SubmitCreated(key, c) PROVE Kept
    <3>1. next_job_id \in JobIds /\ pc[next_job_id] = "none"
      BY <2>1, <2>4 DEF SubmitCreated, WorkerPhases, IInv, TypeOK, JobIds
    <3>2. ~Terminal(next_job_id) /\ ~closed[next_job_id]
      BY <2>1, <3>1 DEF WorkerPhases
    <3>3. \A i \in JobIds : i # next_job_id => state'[i] = state[i] /\ log'[i] = log[i]
      BY <2>1, <2>4 DEF SubmitCreated, Publish
    <3>. QED  BY <2>3, <3>1, <3>2, <3>3
  <2>5. ASSUME NEW key \in Keys \cup {NoKey}, NEW c \in Classes,
               SubmitRefused(key, c) \/ SubmitFull(key, c) \/ SubmitThreadFails(key, c)
        PROVE  UNCHANGED <<state, log>>
    BY <2>5 DEF SubmitRefused, SubmitFull, SubmitThreadFails, jobVars
  <2>6. ASSUME NEW j \in JobIds, StartWork(j) \/ WorkProgress(j) \/ SetTerminal(j) PROVE Kept
    <3>1. ~Terminal(j) /\ ~closed[j]
      BY <2>1, <2>6 DEF StartWork, WorkProgress, SetTerminal, WorkerPhases
    <3>2. \A i \in JobIds : i # j => state'[i] = state[i] /\ log'[i] = log[i]
      BY <2>1, <2>6 DEF StartWork, WorkProgress, SetTerminal, Publish
    <3>. QED  BY <2>3, <3>1, <3>2
  <2>7. ASSUME NEW j \in JobIds, PublishTerminal(j) PROVE Kept
    <3>1. ~closed[j]
      BY <2>1, <2>7 DEF PublishTerminal, WorkerPhases
    <3>2. state' = state /\ \A i \in JobIds : i # j => log'[i] = log[i]
      BY <2>1, <2>7 DEF PublishTerminal, Publish
    <3>. QED  BY <3>1, <3>2
  <2>8. ASSUME NEW j \in JobIds,
               \/ AcquireSlot(j) \/ AcquireGivesUp(j) \/ SkipWork(j) \/ WorkReturns(j)
               \/ ReleaseProvider(j) \/ Judge(j) \/ CloseEvents(j) \/ LeaveLane(j) \/ Cancel(j)
        PROVE  UNCHANGED <<state, log>>
    BY <2>8 DEF AcquireSlot, AcquireGivesUp, SkipWork, WorkReturns, ReleaseProvider, Judge,
                CloseEvents, LeaveLane, Cancel, jobVars
  <2>9. ASSUME Shutdown \/ Stopped PROVE UNCHANGED <<state, log>>
    BY <2>9 DEF Shutdown, ShutdownBegin, ShutdownCancel, ShutdownReturn, Stopped, vars, jobVars
  <2>. QED
    BY <2>2, <2>4, <2>5, <2>6, <2>7, <2>8, <2>9 DEF Next, Submit, Worker, Advance
<1>. QED  BY <1>1, Invariance, PTL DEF Spec, EndedStaysEnded

=============================================================================
