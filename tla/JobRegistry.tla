----------------------------- MODULE JobRegistry -----------------------------
(***************************************************************************)
(* The one-shot job registry of the control server (server/job_registry).  *)
(*                                                                         *)
(* HTTP handlers submit jobs and cancel them; every job has a worker       *)
(* thread that runs run_job; one thread may shut the registry down.  A     *)
(* critical section of mutex_ is one action, and so is each step of a      *)
(* worker between two points where another thread can see a difference.    *)
(* The event broker of a job appears as the sequence of its event types;   *)
(* what a bounded broker does with them is module SseFeed.                 *)
(***************************************************************************)
EXTENDS Naturals, SequencesExt

CONSTANTS
    MaxJobs,              \* --max-jobs: retained jobs
    ProviderConcurrency,  \* slots shared by the jobs of class "Provider"
    MaxSubmits,           \* bound: job ids handed out in one behaviour
    MaxProgress,          \* bound: events a work function sends to its sink
    MaxShutdowns,         \* bound: 0 leaves shutdown() out, 1 has it called
    WorkOutcomes,         \* bound: what the work function may return
    Keys,                 \* idempotency keys
    NoKey                 \* a request without Idempotency-Key

Outcomes == {"ok", "error", "cancelled"}

ASSUME BoundsAssumption ==
    /\ MaxJobs \in Nat \ {0}
    /\ ProviderConcurrency \in Nat \ {0}
    /\ MaxSubmits \in Nat
    /\ MaxProgress \in Nat
    /\ MaxShutdowns \in 0..1
    /\ WorkOutcomes \subseteq Outcomes
    /\ NoKey \notin Keys

JobIds  == 1..MaxSubmits
NoJob   == 0
Classes == {"Provider", "Agent"}

TerminalStates == {"Succeeded", "Failed", "Cancelled"}
States         == {"Queued", "Running"} \cup TerminalStates

VARIABLES
    \* the registry, guarded by mutex_
    jobs,             \* ids in the map jobs_
    retention_order,  \* the deque retention_order_
    idempotency,      \* key -> job_id; its operation and payload only choose the reply
    workers,          \* jobs whose handle is in workers_
    next_job_id,
    provider_active,
    active_agent,     \* active_agent_job_id_, or NoJob
    stopping,
    \* the jobs
    class,            \* job_class
    state,
    token,            \* the job's cancellation flag
    log,              \* event types published to job->events
    closed,           \* job->events.close() was called
    \* the workers
    pc,
    slot,             \* run_job's provider_slot
    outcome,          \* what the work function returned, until it is judged
    \* the thread that stops the registry
    shut,             \* where shutdown() is
    shut_jobs,        \* its copy of the jobs it has yet to cancel
    shut_workers      \* its copy of workers_

registryVars == <<jobs, retention_order, idempotency, workers, next_job_id,
                  provider_active, active_agent, stopping>>
jobVars      == <<class, state, token, log, closed>>
workerVars   == <<pc, slot, outcome>>
shutVars     == <<shut, shut_jobs, shut_workers>>
vars == <<registryVars, jobVars, workerVars, shutVars>>

Terminal(j) == state[j] \in TerminalStates

Init ==
    /\ jobs = {}
    /\ retention_order = <<>>
    /\ idempotency = [k \in {} |-> NoJob]
    /\ workers = {}
    /\ next_job_id = 1
    /\ provider_active = 0
    /\ active_agent = NoJob
    /\ stopping = FALSE
    /\ class = [j \in JobIds |-> "Provider"]
    /\ state = [j \in JobIds |-> "Queued"]
    /\ token = [j \in JobIds |-> FALSE]
    /\ log = [j \in JobIds |-> <<>>]
    /\ closed = [j \in JobIds |-> FALSE]
    /\ pc = [j \in JobIds |-> "none"]
    /\ slot = [j \in JobIds |-> FALSE]
    /\ outcome = [j \in JobIds |-> "ok"]
    /\ shut = "idle"
    /\ shut_jobs = {}
    /\ shut_workers = {}

Publish(j, type) == log' = [log EXCEPT ![j] = Append(@, type)]
Goto(j, label)   == pc' = [pc EXCEPT ![j] = label]

-----------------------------------------------------------------------------
(* submit *)

\* Mutant of Evictable: the scan takes the oldest job, ended or not.
EvictableUnchecked(i) ==
    /\ Cardinality(jobs) >= MaxJobs
    /\ i \in DOMAIN retention_order
    /\ i = 1

\* evict_terminal_locked picks the oldest terminal job once the registry is
\* full.  Its loop runs at most once: the registry never holds more than
\* MaxJobs (AtCapacity), so one eviction makes room.
Evictable(i) ==
    /\ Cardinality(jobs) >= MaxJobs
    /\ i \in DOMAIN retention_order
    /\ Terminal(retention_order[i])
    /\ \A k \in 1..(i - 1) : ~Terminal(retention_order[k])

\* Mutant of EvictTerminal: the keys keep the evicted job.
EvictTerminalKeepsKeys ==
    LET full == {i \in DOMAIN retention_order : Evictable(i)}
    IN [jobs  |-> jobs \ {retention_order[i] : i \in full},
        order |-> IF full = {} THEN retention_order
                  ELSE RemoveAt(retention_order, CHOOSE i \in full : TRUE),
        keys  |-> idempotency]

\* The registry after evict_terminal_locked, as the jobs, their order and keys.
EvictTerminal ==
    LET full == {i \in DOMAIN retention_order : Evictable(i)} IN
    IF full = {}
    THEN [jobs |-> jobs, order |-> retention_order, keys |-> idempotency]
    ELSE LET i == CHOOSE i \in full : TRUE
             gone == retention_order[i]
             keys == {k \in DOMAIN idempotency : idempotency[k] # gone}
         IN [jobs  |-> jobs \ {gone},
             order |-> RemoveAt(retention_order, i),
             keys  |-> [k \in keys |-> idempotency[k]]]

\* Finished handles are joined and dropped on every submission.
Unfinished == {j \in workers : pc[j] # "done"}

KeyTaken(key) == key \in DOMAIN idempotency
LaneBusy(c)   == c = "Agent" /\ active_agent # NoJob

\* Mutant of WithKey: an absent key is remembered like any other.
WithKeyAlways(entries, key, j) ==
    [k \in DOMAIN entries \cup {key} |-> IF k = key THEN j ELSE entries[k]]

WithKey(entries, key, j) ==
    IF key = NoKey THEN entries
    ELSE [k \in DOMAIN entries \cup {key} |-> IF k = key THEN j ELSE entries[k]]

\* Existing, IdempotencyConflict and AgentConflict: nothing but the reaping.
SubmitRefused(key, c) ==
    /\ ~stopping
    /\ KeyTaken(key) \/ LaneBusy(c)
    /\ workers' = Unfinished
    /\ UNCHANGED <<jobs, retention_order, idempotency, next_job_id, provider_active,
                   active_agent, stopping, jobVars, workerVars, shutVars>>

HasRoom(kept) == Cardinality(kept) < MaxJobs

\* Capacity: every retained job is live.
SubmitFull(key, c) ==
    /\ ~stopping /\ ~KeyTaken(key) /\ ~LaneBusy(c)
    /\ ~HasRoom(EvictTerminal.jobs)
    /\ workers' = Unfinished
    /\ UNCHANGED <<jobs, retention_order, idempotency, next_job_id, provider_active,
                   active_agent, stopping, jobVars, workerVars, shutVars>>

\* Created: the job is registered, its "queued" event published, its worker started.
SubmitCreated(key, c) ==
    LET j == next_job_id
        kept == EvictTerminal
    IN /\ ~stopping /\ ~KeyTaken(key) /\ ~LaneBusy(c)
       /\ HasRoom(kept.jobs)
       /\ j \in JobIds
       /\ jobs' = kept.jobs \cup {j}
       /\ retention_order' = Append(kept.order, j)
       /\ idempotency' = WithKey(kept.keys, key, j)
       /\ workers' = Unfinished \cup {j}
       /\ next_job_id' = j + 1
       /\ active_agent' = IF c = "Agent" THEN j ELSE active_agent
       /\ class' = [class EXCEPT ![j] = c]
       /\ Publish(j, "queued")
       /\ Goto(j, IF c = "Provider" THEN "acquire" ELSE "begin")
       /\ UNCHANGED <<provider_active, stopping, state, token, closed, slot, outcome, shutVars>>

\* InternalFailure: the thread cannot be started, and the registration is
\* rolled back.  The evicted job stays evicted and the id stays used.
SubmitThreadFails(key, c) ==
    LET kept == EvictTerminal
    IN /\ ~stopping /\ ~KeyTaken(key) /\ ~LaneBusy(c)
       /\ HasRoom(kept.jobs)
       /\ next_job_id \in JobIds
       /\ jobs' = kept.jobs
       /\ retention_order' = kept.order
       /\ idempotency' = kept.keys
       /\ workers' = Unfinished
       /\ next_job_id' = next_job_id + 1
       /\ UNCHANGED <<provider_active, active_agent, stopping, jobVars, workerVars, shutVars>>

Submit == \E key \in Keys \cup {NoKey}, c \in Classes :
    \/ SubmitRefused(key, c)
    \/ SubmitFull(key, c)
    \/ SubmitCreated(key, c)
    \/ SubmitThreadFails(key, c)

-----------------------------------------------------------------------------
(* run_job *)

\* Mutant of SlotFree: one slot too many.
SlotFreeOffByOne == provider_active <= ProviderConcurrency

SlotFree == provider_active < ProviderConcurrency

\* acquire_provider waits in 50 ms slices until it may return.
AcquireSlot(j) ==
    /\ pc[j] = "acquire"
    /\ ~stopping /\ ~token[j] /\ SlotFree
    /\ provider_active' = provider_active + 1
    /\ slot' = [slot EXCEPT ![j] = TRUE]
    /\ Goto(j, "begin")
    /\ UNCHANGED <<jobs, retention_order, idempotency, workers, next_job_id, active_agent,
                   stopping, jobVars, outcome, shutVars>>

AcquireGivesUp(j) ==
    /\ pc[j] = "acquire"
    /\ stopping \/ token[j]
    /\ Goto(j, "begin")
    /\ UNCHANGED <<registryVars, jobVars, slot, outcome, shutVars>>

\* Only a worker that holds a slot has one to give back.
AfterWork(j) == IF slot[j] THEN "release" ELSE "decide"

\* The work is skipped when the job was cancelled or got no slot.
SkipWork(j) ==
    /\ pc[j] = "begin"
    /\ token[j] \/ (class[j] = "Provider" /\ ~slot[j])
    /\ outcome' = [outcome EXCEPT ![j] = "cancelled"]
    /\ Goto(j, AfterWork(j))
    /\ UNCHANGED <<registryVars, jobVars, slot, shutVars>>

\* Otherwise the job is set running and says so.
StartWork(j) ==
    /\ pc[j] = "begin"
    /\ ~token[j] /\ (class[j] = "Provider" => slot[j])
    /\ state' = [state EXCEPT ![j] = "Running"]
    /\ Publish(j, "running")
    /\ Goto(j, "work")
    /\ UNCHANGED <<registryVars, class, token, closed, slot, outcome, shutVars>>

\* The work function sends operation events to its sink ...
WorkProgress(j) ==
    /\ pc[j] = "work"
    /\ Len(SelectSeq(log[j], LAMBDA t : t = "progress")) < MaxProgress
    /\ Publish(j, "progress")
    /\ UNCHANGED <<registryVars, class, state, token, closed, workerVars, shutVars>>

\* ... and returns: a result, an error (an exception is one), or Cancelled,
\* which it may also report of its own accord.
WorkReturns(j) ==
    /\ pc[j] = "work"
    /\ \E o \in WorkOutcomes : outcome' = [outcome EXCEPT ![j] = o]
    /\ Goto(j, AfterWork(j))
    /\ UNCHANGED <<registryVars, jobVars, slot, shutVars>>

\* Mutant of SlotsAfter: a job whose work failed keeps its slot.
SlotsAfterError(j) == IF slot[j] /\ outcome[j] # "error" THEN provider_active - 1
                                                         ELSE provider_active

SlotsAfter(j) == IF slot[j] /\ provider_active > 0 THEN provider_active - 1
                                                   ELSE provider_active

ReleaseProvider(j) ==
    /\ pc[j] = "release"
    /\ provider_active' = SlotsAfter(j)
    /\ slot' = [slot EXCEPT ![j] = FALSE]
    /\ Goto(j, "decide")
    /\ UNCHANGED <<jobs, retention_order, idempotency, workers, next_job_id, active_agent,
                   stopping, jobVars, outcome, shutVars>>

\* Mutant of Verdict: the token is not looked at again after the work.
VerdictOfWork(j) == outcome[j]

Verdict(j) == IF token[j] THEN "cancelled" ELSE outcome[j]

\* The last look at the token.  A cancellation that arrives after it still
\* finds the job live, and is lost.
Judge(j) ==
    /\ pc[j] = "decide"
    /\ outcome' = [outcome EXCEPT ![j] = Verdict(j)]
    /\ Goto(j, "settle")
    /\ UNCHANGED <<registryVars, jobVars, slot, shutVars>>

EndState(result) ==
    CASE result = "cancelled" -> "Cancelled"
      [] result = "error"     -> "Failed"
      [] OTHER                -> "Succeeded"

\* Mutant of AfterTerminal: a cancelled job's stream ends without an event.
AfterTerminalQuiet(j) == IF token[j] THEN "close" ELSE "publish"

AfterTerminal(j) == "publish"

SetTerminal(j) ==
    /\ pc[j] = "settle"
    /\ state' = [state EXCEPT ![j] = EndState(outcome[j])]
    /\ outcome' = [outcome EXCEPT ![j] = "ok"]
    /\ Goto(j, AfterTerminal(j))
    /\ UNCHANGED <<registryVars, class, token, log, closed, slot, shutVars>>

PublishTerminal(j) ==
    /\ pc[j] = "publish"
    /\ Publish(j, state[j])
    /\ Goto(j, "close")
    /\ UNCHANGED <<registryVars, class, state, token, closed, slot, outcome, shutVars>>

CloseEvents(j) ==
    /\ pc[j] = "close"
    /\ closed' = [closed EXCEPT ![j] = TRUE]
    /\ Goto(j, "lane")
    /\ UNCHANGED <<registryVars, class, state, token, log, slot, outcome, shutVars>>

\* Mutant of LaneAfter: every job that ends frees the lane.
LaneAfterAny(j) == NoJob

LaneAfter(j) == IF class[j] = "Agent" /\ active_agent = j THEN NoJob ELSE active_agent

LeaveLane(j) ==
    /\ pc[j] = "lane"
    /\ active_agent' = LaneAfter(j)
    /\ Goto(j, "done")
    /\ UNCHANGED <<jobs, retention_order, idempotency, workers, next_job_id, provider_active,
                   stopping, jobVars, slot, outcome, shutVars>>

\* Every step of a worker that the code takes without waiting for anyone.
Advance(j) ==
    \/ AcquireSlot(j) \/ AcquireGivesUp(j) \/ SkipWork(j) \/ StartWork(j)
    \/ ReleaseProvider(j) \/ Judge(j) \/ SetTerminal(j) \/ PublishTerminal(j)
    \/ CloseEvents(j) \/ LeaveLane(j)

Worker(j) == Advance(j) \/ WorkProgress(j) \/ WorkReturns(j)

-----------------------------------------------------------------------------
(* cancel *)

\* Mutant of Cancel: the job is declared cancelled without its worker.
CancelAtOnce(j) ==
    /\ j \in jobs /\ ~Terminal(j)
    /\ token' = [token EXCEPT ![j] = TRUE]
    /\ state' = [state EXCEPT ![j] = "Cancelled"]
    /\ UNCHANGED <<registryVars, class, log, closed, workerVars, shutVars>>

\* cancel() sets the flag of a job it finds live.  Should the job end between
\* that look and the store, the flag is set too late for anyone to read it.
Cancel(j) ==
    /\ j \in jobs /\ ~Terminal(j)
    /\ token' = [token EXCEPT ![j] = TRUE]
    /\ UNCHANGED <<registryVars, class, state, log, closed, workerVars, shutVars>>

-----------------------------------------------------------------------------
(* shutdown *)

ShutdownBegin ==
    /\ shut = "idle" /\ MaxShutdowns = 1
    /\ stopping' = TRUE
    /\ shut_jobs' = jobs
    /\ shut_workers' = workers
    /\ shut' = "cancel"
    /\ UNCHANGED <<jobs, retention_order, idempotency, workers, next_job_id, provider_active,
                   active_agent, jobVars, workerVars>>

\* Mutant of ShutdownCancel: the jobs are only told that the registry stops.
ShutdownForgetsTokens ==
    /\ shut = "cancel" /\ shut_jobs # {}
    /\ shut_jobs' = {}
    /\ UNCHANGED <<registryVars, jobVars, workerVars, shut, shut_workers>>

\* The copied jobs are cancelled one after the other ...
ShutdownCancel ==
    /\ shut = "cancel" /\ shut_jobs # {}
    /\ LET j == Min(shut_jobs) IN
        /\ token' = [token EXCEPT ![j] = TRUE]
        /\ shut_jobs' = shut_jobs \ {j}
    /\ UNCHANGED <<registryVars, class, state, log, closed, workerVars, shut, shut_workers>>

\* Mutant of Joined: shutdown() does not wait for the workers.
JoinedNobody == TRUE

Joined == \A j \in shut_workers : pc[j] = "done"

\* ... and shutdown() returns when the copied workers have been joined.
ShutdownReturn ==
    /\ shut = "cancel" /\ shut_jobs = {}
    /\ Joined
    /\ workers' = {}
    /\ shut' = "done"
    /\ UNCHANGED <<jobs, retention_order, idempotency, next_job_id, provider_active,
                   active_agent, stopping, jobVars, workerVars, shut_jobs, shut_workers>>

Shutdown == ShutdownBegin \/ ShutdownCancel \/ ShutdownReturn

\* A registry that was shut down answers every submission with Stopping.
Stopped == shut = "done" /\ UNCHANGED vars

-----------------------------------------------------------------------------

Next ==
    \/ Submit
    \/ \E j \in JobIds : Worker(j) \/ Cancel(j)
    \/ Shutdown
    \/ Stopped

\* Threads that are not waiting run.  A work function returns once its token
\* is set (cancellation is cooperative); before that it may take for ever, and
\* nobody has to submit, cancel or shut down.
Fairness ==
    /\ \A j \in JobIds :
        /\ WF_vars(Advance(j))
        /\ WF_vars(token[j] /\ WorkReturns(j))
    /\ WF_vars(ShutdownCancel \/ ShutdownReturn)

Spec == Init /\ [][Next]_vars /\ Fairness

-----------------------------------------------------------------------------
(* Properties *)

Labels == {"none", "acquire", "begin", "work", "release", "decide", "settle", "publish",
           "close", "lane", "done"}
EventTypes == {"queued", "running", "progress"} \cup States

\* The type of every variable.
TypeOK ==
    /\ jobs \subseteq JobIds
    /\ retention_order \in Seq(JobIds)
    /\ DOMAIN idempotency \subseteq Keys
    /\ idempotency \in [DOMAIN idempotency -> JobIds]
    /\ workers \subseteq JobIds
    /\ next_job_id \in 1..(MaxSubmits + 1)
    /\ provider_active \in Nat
    /\ active_agent \in JobIds \cup {NoJob}
    /\ stopping \in BOOLEAN
    /\ class \in [JobIds -> Classes]
    /\ state \in [JobIds -> States]
    /\ token \in [JobIds -> BOOLEAN]
    /\ log \in [JobIds -> Seq(EventTypes)]
    /\ closed \in [JobIds -> BOOLEAN]
    /\ pc \in [JobIds -> Labels]
    /\ slot \in [JobIds -> BOOLEAN]
    /\ outcome \in [JobIds -> Outcomes]
    /\ shut \in {"idle", "cancel", "done"}
    /\ shut_jobs \subseteq JobIds
    /\ shut_workers \subseteq JobIds

\* The registry never retains more than MaxJobs jobs, whatever was evicted,
\* rolled back or refused on the way.
AtCapacity == Cardinality(jobs) <= MaxJobs

\* The eviction order stays in step with the map through evictions and
\* rollbacks: each retained job once, in submission order.
RetentionInStep ==
    /\ ToSet(retention_order) = jobs
    /\ \A i, k \in DOMAIN retention_order : i < k => retention_order[i] < retention_order[k]

\* A key never outlives its job, so a repeated request is answered with a
\* retained job (submit's "found == jobs_.end()" replies are dead code), and
\* no two keys share one.
KeysNameRetainedJobs ==
    \A k \in DOMAIN idempotency :
        /\ idempotency[k] \in jobs
        /\ \A l \in DOMAIN idempotency : idempotency[l] = idempotency[k] => l = k

\* The map, the eviction order, the keys and the bound change in different steps
\* of submit and of its rollback, and stay in step.
RegistryInStep == AtCapacity /\ RetentionInStep /\ KeysNameRetainedJobs

SlotHolders == {j \in JobIds : slot[j]}

\* The provider slots are accounted for exactly, and no provider job works
\* without one: a slot is neither leaked by a cancellation nor returned twice.
ProviderSlots ==
    /\ provider_active = Cardinality(SlotHolders)
    /\ provider_active <= ProviderConcurrency
    /\ \A j \in JobIds : class[j] = "Provider" /\ pc[j] = "work" => slot[j]

\* One agent run at a time per workspace, from its submission until its worker
\* has published its end: two runs are never live together, though the lane is
\* given back only after the job has ended, been seen to end and perhaps been
\* evicted.
OneAgentRun ==
    \A j \in JobIds : class[j] = "Agent" /\ pc[j] \notin {"none", "done"} => active_agent = j

\* A subscriber that has seen the terminal event finds the snapshot terminal
\* and in the same state; the stream closes after it and carries nothing else.
StreamEndsWithState ==
    \A j \in JobIds :
        /\ (\E i \in DOMAIN log[j] : log[j][i] \in TerminalStates) =>
               /\ Last(log[j]) = state[j]
               /\ \A i \in 1..(Len(log[j]) - 1) : log[j][i] \notin TerminalStates
        /\ closed[j] => Last(log[j]) \in TerminalStates

\* When shutdown() returns nothing runs and nothing is left half way: no live
\* job, no open stream, no slot or lane still held.
ShutdownIsFinal ==
    shut = "done" =>
        /\ \A j \in JobIds : pc[j] \in {"none", "done"}
        /\ \A j \in jobs : Terminal(j) /\ closed[j]
        /\ provider_active = 0 /\ active_agent = NoJob

\* The inductive strengthening of the invariants above: what the label of a
\* worker says of its job, who holds the lane, and how far shutdown() is.
WorkerPhases ==
    \A j \in JobIds :
        /\ j >= next_job_id => pc[j] = "none"
        /\ pc[j] = "none" => state[j] = "Queued" /\ log[j] = <<>>
        /\ pc[j] \notin {"none", "done"} => j \in workers
        /\ pc[j] = "acquire" => class[j] = "Provider"
        /\ Terminal(j) <=> pc[j] \in {"publish", "close", "lane", "done"}
        /\ closed[j] <=> pc[j] \in {"lane", "done"}
        /\ slot[j] => class[j] = "Provider" /\ pc[j] \in {"begin", "work", "release"}

LaneHolder ==
    active_agent # NoJob => /\ class[active_agent] = "Agent"
                            /\ pc[active_agent] \notin {"none", "done"}

Untold(j) == \A i \in 1..Len(log[j]) : log[j][i] \notin TerminalStates
Told(j)   == /\ Len(log[j]) > 0 /\ log[j][Len(log[j])] = state[j]
             /\ \A i \in 1..(Len(log[j]) - 1) : log[j][i] \notin TerminalStates

StreamPhases ==
    \A j \in JobIds : IF pc[j] \in {"close", "lane", "done"} THEN Told(j) ELSE Untold(j)

ShutPhases ==
    /\ \A j \in jobs : pc[j] # "none"
    /\ shut = "cancel" => stopping /\ shut_workers = workers
    /\ shut = "done" => stopping /\ \A j \in JobIds : pc[j] \in {"none", "done"}

IInv ==
    /\ TypeOK
    /\ AtCapacity
    /\ RetentionInStep
    /\ KeysNameRetainedJobs
    /\ ProviderSlots
    /\ OneAgentRun
    /\ WorkerPhases
    /\ LaneHolder
    /\ StreamPhases
    /\ ShutPhases

\* Only a job that has ended is ever dropped from the registry.
EvictsOnlyEnded == [][\A j \in jobs \ jobs' : Terminal(j)]_vars

\* An ended job keeps its state, and a closed stream its events.
EndedStaysEnded ==
    [][\A j \in JobIds : /\ Terminal(j) => state'[j] = state[j]
                         /\ closed[j] => log'[j] = log[j]]_vars

\* A cancellation that arrives before the worker has looked at its token for
\* the last time ends the job as cancelled, whatever its work returned; only
\* one that finds the verdict already passed is lost.
CancelTakesEffect ==
    \A j \in JobIds :
        (token[j] /\ pc[j] \notin {"none", "settle", "publish", "close", "lane", "done"})
            ~> state[j] = "Cancelled"

\* shutdown() comes back: no worker waits for a slot, for a lock or for work
\* that does not end.
ShutdownReturns == stopping ~> shut = "done"

\* A queued provider job waits for work, and for nothing else: if no work runs
\* for ever, every submitted job ends and its stream is closed.
JobsEnd ==
    (\A i \in JobIds : []<>(pc[i] # "work")) =>
        \A j \in JobIds : pc[j] # "none" ~> Terminal(j) /\ closed[j]

=============================================================================
