------------------------- MODULE AgentSessionProofs -------------------------
(* What AgentSession keeps to, for every number of clients, tools, turns and  *)
(* requests, and whether or not the session is closed.                        *)
EXTENDS AgentSession, TLAPS

\* What the gates' functions return is a gate.
LEMMA GateTypes ==
    ASSUME NEW max \in Nat, NEW g \in Gates(max), NEW by \in Nat
    PROVE  /\ Resolved(g, by) \in Gates(max)
           /\ Taken(g) \in Gates(max) /\ Abandoned(g) \in Gates(max)
           /\ g.serial < max => Asked(g) \in Gates(max)
  BY DEF Gates, Resolved, Taken, Abandoned, Asked, None

Labels == {"idle", "queued", "parked", "asked", "waiting"}

\* So is what they do to the tools.
LEMMA ToolTypes ==
    ASSUME tool \in [Tools -> Labels]
    PROVE  Woken \in [Tools -> Labels]
  BY DEF Woken, Labels

\* Serials and identities are numbers.
LEMMA EventTypes ==
    ASSUME TypeOK
    PROVE  /\ quiz_gate.serial \in Nat /\ pending_quiz \in Nat
           /\ \A c \in Clients : id[c] \in Nat
           /\ event.serial \in Nat /\ \A i \in 1..Len(events) : events[i].serial \in Nat
<1>1. /\ quiz_gate \in Gates(MaxQuizzes) /\ pending_quiz \in Nat /\ id \in [Clients -> Nat]
      /\ event \in EventSet \cup {NoEvent} /\ events \in Seq(EventSet)
  BY DEF TypeOK
<1>2. quiz_gate.serial \in Nat
  BY <1>1, SessionAssumption DEF Gates
<1>3. event.serial \in Nat
  BY <1>1 DEF EventSet, NoEvent
<1>4. \A i \in 1..Len(events) : events[i].serial \in Nat
  <2>1. \A i \in 1..Len(events) : events[i] \in EventSet
    BY <1>1
  <2>. QED
    BY <2>1 DEF EventSet
<1>. QED
  BY <1>1, <1>2, <1>3, <1>4

\* A turn of the worker is a turn.
LEMMA WorkerTurn ==
    ASSUME TypeOK, TurnPhases, worker # "none"
    PROVE  worker_turn \in Turns /\ active_turn \in Turns
  BY DEF TypeOK, TurnPhases, None

\* An answer to a gate, or its cancellation, leaves its request the only one and
\* wakes whoever waits to ask.
LEMMA GateResolved ==
    ASSUME TypeOK, OneAsker, AnswersAreFresh, NEW by \in Nat \ {0}, ResolveGate(by)
    PROVE  OneAsker' /\ (gate.pending /\ gate.answered => gate.by # 0)'
<1>1. CASE gate' = gate
  BY <1>1 DEF ResolveGate, OneAsker, Askers, AnswersAreFresh, None
<1>2. CASE gate' # gate
  <2>1. /\ gate.pending
        /\ gate' = [pending |-> TRUE, answered |-> TRUE, serial |-> gate.serial, by |-> by]
        /\ tool' = Woken
    BY <1>2 DEF ResolveGate, Resolved
  <2>2. Askers' = Askers /\ \A t \in Tools : tool'[t] # "parked"
    BY <2>1 DEF Woken, Askers
  <2>. QED
    BY <2>1, <2>2 DEF OneAsker
<1>. QED
  BY <1>1, <1>2

\* So does an answer to a questionnaire.
LEMMA QuizResolved ==
    ASSUME AnswersAreFresh, NEW by,
           by = Canceller \/ by = quiz_gate.serial,
           quiz_gate' = Resolved(quiz_gate, by)
    PROVE  (quiz_gate.pending /\ quiz_gate.answered =>
                quiz_gate.by \in {quiz_gate.serial, Canceller})'
  BY DEF Resolved, AnswersAreFresh, Canceller


\* Every action keeps the types.
LEMMA TypeStep ==
    ASSUME TypeOK, TurnPhases, [Next]_vars
    PROVE  TypeOK'
<1> USE SessionAssumption DEF TypeOK, sessionVars, controllerVars, gateVars, turnVars,
        workerVars, pumpVars, prepVars, handlerVars
<1>1. ASSUME StartPreparation PROVE TypeOK'
  <2>1. prep_cancelled' \in BOOLEAN
    BY <1>1, Zenon DEF StartPreparation
  <2>. QED
    BY <1>1, <2>1 DEF StartPreparation
<1>2. ASSUME Prepare PROVE TypeOK'
  BY <1>2 DEF Prepare
<1>3. ASSUME PreparationDone PROVE TypeOK'
  BY <1>3 DEF PreparationDone
<1>4. ASSUME TurnBegins PROVE TypeOK'
  BY <1>4 DEF TurnBegins
<1>5. ASSUME AskQuestionnaire PROVE TypeOK'
  BY <1>5, GateTypes DEF AskQuestionnaire, ToolVars
<1>6. ASSUME NotifyQuestionnaire PROVE TypeOK'
  <2>1. worker_turn \in Turns
    BY <1>6, WorkerTurn DEF NotifyQuestionnaire
  <2>2. events' \in Seq(EventSet)
    BY <1>6, <2>1 DEF NotifyQuestionnaire, Say, EventSet, Gates, ToolVars
  <2>. QED
    BY <1>6, <2>2 DEF NotifyQuestionnaire, ToolVars
<1>7. ASSUME TakeQuestionnaire PROVE TypeOK'
  BY <1>7, GateTypes DEF TakeQuestionnaire, ToolVars
<1>8. ASSUME TurnReturns PROVE TypeOK'
  BY <1>8 DEF TurnReturns, ToolsIdle
<1>9. ASSUME ClearRunning PROVE TypeOK'
  <2>1. turn_running' \in BOOLEAN
    BY <1>9, Zenon DEF ClearRunning
  <2>. QED
    BY <1>9, <2>1 DEF ClearRunning
<1>10. ASSUME SayEnd PROVE TypeOK'
  <2>1. worker_turn \in Turns
    BY <1>10, WorkerTurn DEF SayEnd
  <2>2. events' \in Seq(EventSet)
    BY <1>10, <2>1 DEF SayEnd, Say, EventSet, Gates, ToolVars
  <2>. QED
    BY <1>10, <2>2 DEF SayEnd, ToolVars
<1>11. ASSUME TakeEvent PROVE TypeOK'
  BY <1>11 DEF TakeEvent
<1>12. ASSUME ConsumeApproval PROVE TypeOK'
  BY <1>12 DEF ConsumeApproval, PumpRests
<1>13. ASSUME ConsumeQuestionnaire PROVE TypeOK'
  BY <1>13 DEF ConsumeQuestionnaire, PumpRests, EventSet, NoEvent
<1>14. ASSUME ConsumeEnd PROVE TypeOK'
  BY <1>14 DEF ConsumeEnd, PumpRests, Cleared, None
<1>15. ASSUME PumpStops PROVE TypeOK'
  BY <1>15 DEF PumpStops
<1>16. ASSUME Erase PROVE TypeOK'
  BY <1>16 DEF Erase, CloserGoto
<1>17. ASSUME Close PROVE TypeOK'
  BY <1>17 DEF Close, CloserGoto
<1>18. ASSUME CloseApproval PROVE TypeOK'
  <2>1. Canceller \in Nat
    BY DEF Canceller
  <2>2. gate' \in Gates(MaxAsks) /\ tool' \in [Tools -> Labels]
    BY <1>18, <2>1, GateTypes, ToolTypes DEF CloseApproval, ResolveGate, Labels
  <2>. QED
    BY <1>18, <2>2 DEF CloseApproval, Labels, CloserGoto
<1>19. ASSUME CloseQuestionnaire PROVE TypeOK'
  <2>1. Canceller \in Nat
    BY DEF Canceller
  <2>2. quiz_gate' \in Gates(MaxQuizzes)
    BY <1>19, <2>1, GateTypes DEF CloseQuestionnaire
  <2>. QED
    BY <1>19, <2>2 DEF CloseQuestionnaire, CloserGoto
<1>20. ASSUME CloseToken PROVE TypeOK'
  BY <1>20 DEF CloseToken, CloserGoto, SourceTurn
<1>21. ASSUME CloseJoin PROVE TypeOK'
  <2>1. turn_running' \in BOOLEAN
    BY <1>21, Zenon DEF CloseJoin
  <2>. QED
    BY <1>21, <2>1 DEF CloseJoin, CloserGoto
<1>22. ASSUME CloseFinish PROVE TypeOK'
  BY <1>22 DEF CloseFinish, CloserGoto
<1>23. ASSUME CloseJoinPreparation PROVE TypeOK'
  BY <1>23 DEF CloseJoinPreparation, CloserGoto
<1>24. ASSUME CloseDone PROVE TypeOK'
  BY <1>24 DEF CloseDone, CloserGoto
<1>25. ASSUME Destroy PROVE TypeOK'
  BY <1>25 DEF Destroy
<1>26. ASSUME DestroyController PROVE TypeOK'
  <2>1. Canceller \in Nat
    BY DEF Canceller
  <2>2. gate' \in Gates(MaxAsks) /\ tool' \in [Tools -> Labels]
    BY <1>26, <2>1, GateTypes, ToolTypes DEF DestroyController, ResolveGate, Labels
  <2>3. quiz_gate' \in Gates(MaxQuizzes)
    BY <1>26, <2>1, GateTypes DEF DestroyController
  <2>. QED
    BY <1>26, <2>2, <2>3 DEF DestroyController, SourceTurn, Labels
<1>27. ASSUME Destroyed PROVE TypeOK'
  <2>1. turn_running' \in BOOLEAN
    BY <1>27, Zenon DEF Destroyed
  <2>2. project_open' \in BOOLEAN
    BY <1>27 DEF Destroyed
  <2>. QED
    BY <1>27, <2>1, <2>2 DEF Destroyed
<1>28. ASSUME NEW t \in Tools, NeedApproval(t) PROVE TypeOK'
  BY <1>28 DEF NeedApproval, ToolVars, ToolGoto
<1>29. ASSUME NEW t \in Tools, AskApproval(t) PROVE TypeOK'
  BY <1>29, GateTypes DEF AskApproval, ToolVars, ToolGoto
<1>30. ASSUME NEW t \in Tools, NotifyApproval(t) PROVE TypeOK'
  <2>1. worker_turn \in Turns
    BY <1>30, WorkerTurn DEF NotifyApproval, TurnPhases
  <2>2. events' \in Seq(EventSet)
    BY <1>30, <2>1 DEF NotifyApproval, Say, EventSet, Gates, ToolVars
  <2>. QED
    BY <1>30, <2>2 DEF NotifyApproval, ToolVars, ToolGoto
<1>31. ASSUME NEW t \in Tools, TakeApproval(t) PROVE TypeOK'
  <2>1. tool' \in [Tools -> Labels]
    BY <1>31, ToolTypes DEF TakeApproval, Labels
  <2>2. gate' \in Gates(MaxAsks)
    BY <1>31, GateTypes DEF TakeApproval
  <2>. QED
    BY <1>31, <2>1, <2>2 DEF TakeApproval, ToolVars, Labels
<1>32. ASSUME NEW c \in Clients, Find(c) PROVE TypeOK'
  BY <1>32 DEF Find, Goto, Unchanged
<1>33. ASSUME NEW c \in Clients, Refuse(c) PROVE TypeOK'
  BY <1>33 DEF Refuse, Goto, Unchanged
<1>34. ASSUME NEW c \in Clients, ClaimTurn(c) PROVE TypeOK'
  BY <1>34 DEF ClaimTurn, Turns, Goto
<1>35. ASSUME NEW c \in Clients, Launch(c) PROVE TypeOK'
  <2>1. CASE turn_running
    <3>1. active_turn' \in Turns \cup {None} /\ status' = "ready" /\ Goto(c, "idle")
      BY <1>35, <2>1 DEF Launch
    <3>2. UNCHANGED <<turn_running, cancelled>>
      BY <1>35, <2>1 DEF Launch
    <3>. QED
      BY <1>35, <3>1, <3>2 DEF Launch, Goto, Unchanged
  <2>2. CASE ~turn_running
    <3>1. cancelled' \subseteq Turns
      BY <1>35, <2>2 DEF Launch, None
    <3>. QED
      BY <1>35, <2>2, <3>1 DEF Launch, Goto, Unchanged
  <2>. QED
    BY <2>1, <2>2
<1>36. ASSUME NEW c \in Clients, Spawn(c) PROVE TypeOK'
  BY <1>36 DEF Spawn, Goto, Unchanged
<1>37. ASSUME NEW c \in Clients, CancelTurn(c) PROVE TypeOK'
  BY <1>37 DEF CancelTurn, Goto, Unchanged
<1>38. ASSUME NEW c \in Clients, CancelApproval(c) PROVE TypeOK'
  <2>1. Canceller \in Nat
    BY DEF Canceller
  <2>2. gate' \in Gates(MaxAsks) /\ tool' \in [Tools -> Labels]
    BY <1>38, <2>1, GateTypes, ToolTypes DEF CancelApproval, ResolveGate, Labels
  <2>. QED
    BY <1>38, <2>2 DEF CancelApproval, Labels, Goto, Unchanged
<1>39. ASSUME NEW c \in Clients, CancelQuestionnaire(c) PROVE TypeOK'
  <2>1. Canceller \in Nat
    BY DEF Canceller
  <2>2. quiz_gate' \in Gates(MaxQuizzes)
    BY <1>39, <2>1, GateTypes DEF CancelQuestionnaire
  <2>. QED
    BY <1>39, <2>2 DEF CancelQuestionnaire, Goto, Unchanged
<1>40. ASSUME NEW c \in Clients, CancelToken(c) PROVE TypeOK'
  BY <1>40 DEF CancelToken, SourceTurn, Goto, Unchanged
<1>41. ASSUME NEW c \in Clients, ClaimApproval(c) PROVE TypeOK'
  BY <1>41 DEF ClaimApproval, Consumed, None, Goto
<1>42. ASSUME NEW c \in Clients, ResolveApproval(c) PROVE TypeOK'
  <2>1. id[c] \in Nat
    OBVIOUS
  <2>2. gate' \in Gates(MaxAsks) /\ tool' \in [Tools -> Labels]
    BY <1>42, <2>1, GateTypes, ToolTypes DEF ResolveApproval, ResolveGate, Labels
  <2>. QED
    BY <1>42, <2>2 DEF ResolveApproval, Labels, Goto, Unchanged
<1>43. ASSUME NEW c \in Clients, CheckQuestionnaire(c) PROVE TypeOK'
  BY <1>43 DEF CheckQuestionnaire, Goto, Unchanged
<1>44. ASSUME NEW c \in Clients, AnswerQuestionnaire(c) PROVE TypeOK'
  <2>1. id[c] \in Nat
    OBVIOUS
  <2>2. quiz_gate' \in Gates(MaxQuizzes)
    BY <1>44, <2>1, GateTypes DEF AnswerQuestionnaire
  <2>. QED
    BY <1>44, <2>2 DEF AnswerQuestionnaire, Goto, Unchanged
<1>45. ASSUME NEW c \in Clients, RejectAnswer(c) PROVE TypeOK'
  BY <1>45 DEF RejectAnswer, TurnedDown, Goto, Unchanged
<1>46. ASSUME NEW c \in Clients, ClearQuestionnaire(c) PROVE TypeOK'
  BY <1>46 DEF ClearQuestionnaire, None, Goto, Unchanged
<1>47. ASSUME UNCHANGED vars PROVE TypeOK'
  BY <1>47 DEF vars
<1>. QED
  BY <1>1, <1>2, <1>3, <1>4, <1>5, <1>6, <1>7, <1>8, <1>9, <1>10, <1>11, <1>12, <1>13, <1>14,
     <1>15, <1>16, <1>17, <1>18, <1>19, <1>20, <1>21, <1>22, <1>23, <1>24, <1>25, <1>26, <1>27,
     <1>28, <1>29, <1>30, <1>31, <1>32, <1>33, <1>34, <1>35, <1>36, <1>37, <1>38, <1>39, <1>40,
     <1>41, <1>42, <1>43, <1>44, <1>45, <1>46, <1>47
     DEF Next, TurnWorker, Tool, Pump, Request, Handler, Closer, Destructor

\* Every action keeps the phases of a turn.
LEMMA PhaseStep ==
    ASSUME TypeOK, TurnPhases, Running, OnTheWay, [Next]_vars
    PROVE  (TurnPhases /\ Running /\ OnTheWay)'
<1> USE SessionAssumption DEF TurnPhases, Running, OnTheWay, Quiet, Launching, None, Turns,
        sessionVars, controllerVars, gateVars, turnVars, workerVars, pumpVars, prepVars,
        handlerVars
<1>1. ASSUME StartPreparation \/ Prepare \/ PreparationDone \/ Erase \/ Close \/
                CloseQuestionnaire \/ CloseToken \/ CloseFinish \/ CloseJoinPreparation \/
                CloseDone \/ Destroy
      PROVE  (TurnPhases /\ Running /\ OnTheWay)'
  <2>1. UNCHANGED <<active_turn, worker, worker_turn, tool, turn_running, events, pump, event,
                    event_turn, at, turn>>
    BY <1>1 DEF StartPreparation, Prepare, PreparationDone, Erase, CloserGoto, Close,
       CloseQuestionnaire, CloseToken, CloseFinish, CloseJoinPreparation, CloseDone, Destroy
  <2>. QED
    BY <2>1
<1>2. ASSUME TurnBegins PROVE (TurnPhases /\ Running /\ OnTheWay)'
  BY <1>2 DEF TurnBegins
<1>3. ASSUME AskQuestionnaire PROVE (TurnPhases /\ Running /\ OnTheWay)'
  BY <1>3 DEF AskQuestionnaire, ToolVars, ToolsIdle
<1>4. ASSUME NotifyQuestionnaire PROVE (TurnPhases /\ Running /\ OnTheWay)'
  BY <1>4 DEF NotifyQuestionnaire, Say, ToolVars
<1>5. ASSUME TakeQuestionnaire PROVE (TurnPhases /\ Running /\ OnTheWay)'
  BY <1>5 DEF TakeQuestionnaire, Taken, Abandoned, ToolVars
<1>6. ASSUME TurnReturns PROVE (TurnPhases /\ Running /\ OnTheWay)'
  BY <1>6 DEF TurnReturns, ToolsIdle
<1>7. ASSUME ClearRunning PROVE (TurnPhases /\ Running /\ OnTheWay)'
  BY <1>7 DEF ClearRunning
<1>8. ASSUME SayEnd PROVE (TurnPhases /\ Running /\ OnTheWay)'
  BY <1>8 DEF SayEnd, Say
<1>9. ASSUME TakeEvent PROVE (TurnPhases /\ Running /\ OnTheWay)'
  BY <1>9 DEF TakeEvent
<1>10. ASSUME ConsumeApproval PROVE (TurnPhases /\ Running /\ OnTheWay)'
  BY <1>10 DEF ConsumeApproval, PumpRests
<1>11. ASSUME ConsumeQuestionnaire PROVE (TurnPhases /\ Running /\ OnTheWay)'
  BY <1>11 DEF ConsumeQuestionnaire, PumpRests
<1>12. ASSUME ConsumeEnd PROVE (TurnPhases /\ Running /\ OnTheWay)'
  BY <1>12 DEF ConsumeEnd, PumpRests, Cleared
<1>13. ASSUME PumpStops PROVE (TurnPhases /\ Running /\ OnTheWay)'
  BY <1>13 DEF PumpStops
<1>14. ASSUME CloseApproval PROVE (TurnPhases /\ Running /\ OnTheWay)'
  BY <1>14 DEF CloseApproval, CloserGoto, ResolveGate, Resolved, Woken
<1>15. ASSUME CloseJoin PROVE (TurnPhases /\ Running /\ OnTheWay)'
  BY <1>15 DEF CloseJoin, CloserGoto
<1>16. ASSUME DestroyController PROVE (TurnPhases /\ Running /\ OnTheWay)'
  BY <1>16 DEF DestroyController, ResolveGate, Resolved, Woken, SourceTurn
<1>17. ASSUME Destroyed PROVE (TurnPhases /\ Running /\ OnTheWay)'
  BY <1>17 DEF Destroyed
<1>18. ASSUME NEW t \in Tools, NeedApproval(t) PROVE (TurnPhases /\ Running /\ OnTheWay)'
  BY <1>18 DEF NeedApproval, ToolVars, ToolGoto
<1>19. ASSUME NEW t \in Tools, AskApproval(t) PROVE (TurnPhases /\ Running /\ OnTheWay)'
  BY <1>19 DEF AskApproval, ToolVars, ToolGoto, Asked
<1>20. ASSUME NEW t \in Tools, NotifyApproval(t) PROVE (TurnPhases /\ Running /\ OnTheWay)'
  BY <1>20 DEF NotifyApproval, ToolVars, ToolGoto, Say
<1>21. ASSUME NEW t \in Tools, TakeApproval(t) PROVE (TurnPhases /\ Running /\ OnTheWay)'
  BY <1>21 DEF TakeApproval, ToolVars, Woken, Taken, Abandoned
<1>22. ASSUME NEW c \in Clients, Find(c) PROVE (TurnPhases /\ Running /\ OnTheWay)'
  BY <1>22 DEF Find, Goto, Unchanged
<1>23. ASSUME NEW c \in Clients, Refuse(c) PROVE (TurnPhases /\ Running /\ OnTheWay)'
  BY <1>23 DEF Refuse, Goto, Unchanged
<1>24. ASSUME NEW c \in Clients, ClaimTurn(c) PROVE (TurnPhases /\ Running /\ OnTheWay)'
  <2>1. at'[c] = "launch" /\ (\A d \in Clients : d # c => at'[d] = at[d])
    BY <1>24 DEF ClaimTurn, Goto, TypeOK
  <2>2. turn'[c] = active_turn' /\ active_turn' # 0
    BY <1>24 DEF ClaimTurn, TypeOK
  <2>3. Launching = {} /\ worker = "none" /\ Quiet /\ ~turn_running
    BY <1>24 DEF ClaimTurn, Idle
  <2>4. Launching' = {c}
    BY <2>1, <2>3
  <2>5. UNCHANGED <<worker, worker_turn, events, pump, event, event_turn, tool, turn_running>>
    BY <1>24 DEF ClaimTurn
  <2>6. TurnPhases'
    BY <2>2, <2>3, <2>4, <2>5
  <2>7. Running'
    BY <2>1, <2>3, <2>4, <2>5
  <2>8. OnTheWay'
    BY <2>3, <2>5
  <2>. QED
    BY <2>6, <2>7, <2>8
<1>25. ASSUME NEW c \in Clients, Launch(c) PROVE (TurnPhases /\ Running /\ OnTheWay)'
  <2>1. c \in Launching /\ ~turn_running
    BY <1>25 DEF Launch
  <2>2. at'[c] = "spawn" /\ (\A d \in Clients : d # c => at'[d] = at[d])
    BY <1>25, <2>1 DEF Launch, Goto, TypeOK
  <2>3. Launching' = Launching
    BY <1>25, <2>2 DEF Launch
  <2>4. UNCHANGED <<worker, worker_turn, events, pump, event, event_turn, tool, turn, active_turn>>
    BY <1>25, <2>1 DEF Launch, Unchanged
  <2>5. TurnPhases'
    BY <2>3, <2>4
  <2>6. worker = "none" /\ \A d \in Launching' : at'[d] = "spawn"
    BY <2>1, <2>2, <2>3
  <2>7. Running'
    BY <2>1, <2>3, <2>4, <2>6
  <2>8. OnTheWay'
    BY <2>4
  <2>. QED
    BY <2>5, <2>7, <2>8
<1>26. ASSUME NEW c \in Clients, Spawn(c) PROVE (TurnPhases /\ Running /\ OnTheWay)'
  <2>1. c \in Launching
    BY <1>26 DEF Spawn
  <2>2. at'[c] = "idle" /\ (\A d \in Clients : d # c => at'[d] = at[d])
    BY <1>26 DEF Spawn, Goto, TypeOK
  <2>3. Launching' = {}
    BY <2>1, <2>2
  <2>4. worker' = "begin" /\ worker_turn' = active_turn /\ Quiet /\ worker = "none" /\ active_turn # 0
    BY <1>26, <2>1 DEF Spawn
  <2>5. UNCHANGED <<events, pump, event, event_turn, tool, active_turn>>
    BY <1>26 DEF Spawn
  <2>6. TurnPhases'
    BY <2>3, <2>4, <2>5
  <2>7. Running'
    BY <2>3, <2>4
  <2>8. OnTheWay'
    BY <2>4, <2>5
  <2>. QED
    BY <2>6, <2>7, <2>8
<1>27. ASSUME NEW c \in Clients, CancelTurn(c) PROVE (TurnPhases /\ Running /\ OnTheWay)'
  BY <1>27 DEF CancelTurn, Goto, Unchanged
<1>28. ASSUME NEW c \in Clients, CancelApproval(c) PROVE (TurnPhases /\ Running /\ OnTheWay)'
  BY <1>28 DEF CancelApproval, ResolveGate, Resolved, Woken, Goto, Unchanged
<1>29. ASSUME NEW c \in Clients, CancelQuestionnaire(c) PROVE (TurnPhases /\ Running /\ OnTheWay)'
  BY <1>29 DEF CancelQuestionnaire, Resolved, Goto, Unchanged
<1>30. ASSUME NEW c \in Clients, CancelToken(c) PROVE (TurnPhases /\ Running /\ OnTheWay)'
  BY <1>30 DEF CancelToken, SourceTurn, Goto, Unchanged
<1>31. ASSUME NEW c \in Clients, ClaimApproval(c) PROVE (TurnPhases /\ Running /\ OnTheWay)'
  BY <1>31 DEF ClaimApproval, Consumed, Goto, Unchanged
<1>32. ASSUME NEW c \in Clients, ResolveApproval(c) PROVE (TurnPhases /\ Running /\ OnTheWay)'
  BY <1>32 DEF ResolveApproval, ResolveGate, Resolved, Woken, Goto, Unchanged
<1>33. ASSUME NEW c \in Clients, CheckQuestionnaire(c) PROVE (TurnPhases /\ Running /\ OnTheWay)'
  BY <1>33 DEF CheckQuestionnaire, Goto, Unchanged
<1>34. ASSUME NEW c \in Clients, AnswerQuestionnaire(c) PROVE (TurnPhases /\ Running /\ OnTheWay)'
  BY <1>34 DEF AnswerQuestionnaire, Resolved, Accepts, Goto, Unchanged
<1>35. ASSUME NEW c \in Clients, RejectAnswer(c) PROVE (TurnPhases /\ Running /\ OnTheWay)'
  BY <1>35 DEF RejectAnswer, TurnedDown, Goto, Unchanged
<1>36. ASSUME NEW c \in Clients, ClearQuestionnaire(c) PROVE (TurnPhases /\ Running /\ OnTheWay)'
  BY <1>36 DEF ClearQuestionnaire, StillPending, Goto, Unchanged
<1>37. ASSUME UNCHANGED vars PROVE (TurnPhases /\ Running /\ OnTheWay)'
  BY <1>37 DEF vars
<1>. QED
  BY <1>1, <1>2, <1>3, <1>4, <1>5, <1>6, <1>7, <1>8, <1>9, <1>10, <1>11, <1>12, <1>13, <1>14,
     <1>15, <1>16, <1>17, <1>18, <1>19, <1>20, <1>21, <1>22, <1>23, <1>24, <1>25, <1>26, <1>27,
     <1>28, <1>29, <1>30, <1>31, <1>32, <1>33, <1>34, <1>35, <1>36, <1>37
     DEF Next, TurnWorker, Tool, Pump, Request, Handler, Closer, Destructor

\* Every action keeps what is shown of a session in step with its turn.
LEMMA PreparingStep ==
    ASSUME TypeOK, TurnPhases, Running, OnTheWay, Preparing, IdleIsClean, PendingHasTurn, [Next]_vars
    PROVE  (Preparing /\ IdleIsClean /\ PendingHasTurn)'
<1> USE SessionAssumption DEF TurnPhases, OnTheWay, Preparing, IdleIsClean, PendingHasTurn,
        Quiet, None, NoEvent, sessionVars, controllerVars, gateVars, turnVars, workerVars,
        pumpVars, prepVars, handlerVars
<1>1. ASSUME TurnBegins \/ AskQuestionnaire \/ NotifyQuestionnaire \/ TakeQuestionnaire \/
                TurnReturns \/ ClearRunning \/ SayEnd \/ TakeEvent \/ PumpStops \/ Erase \/
                CloseApproval \/ CloseQuestionnaire \/ CloseToken \/ CloseJoin \/
                CloseFinish \/ CloseJoinPreparation \/ CloseDone \/ Destroy \/
                DestroyController \/ Destroyed
      PROVE  (Preparing /\ IdleIsClean /\ PendingHasTurn)'
  <2>1. UNCHANGED <<creator, prep, active_turn, status, closed, pending_approval, pending_quiz,
                    pending_quiz_turn>>
    BY <1>1 DEF TurnBegins, AskQuestionnaire, ToolVars, NotifyQuestionnaire, TakeQuestionnaire,
       TurnReturns, ClearRunning, SayEnd, TakeEvent, PumpStops, Erase, CloserGoto,
       CloseApproval, CloseQuestionnaire, CloseToken, CloseJoin, CloseFinish,
       CloseJoinPreparation, CloseDone, Destroy, DestroyController, Destroyed
  <2>. QED
    BY <2>1
<1>2. ASSUME NEW t \in Tools, NeedApproval(t) \/ AskApproval(t) \/ NotifyApproval(t) \/
                                 TakeApproval(t)
      PROVE  (Preparing /\ IdleIsClean /\ PendingHasTurn)'
  <2>1. UNCHANGED <<creator, prep, active_turn, status, closed, pending_approval, pending_quiz,
                    pending_quiz_turn>>
    BY <1>2 DEF NeedApproval, ToolVars, ToolGoto, AskApproval, NotifyApproval, TakeApproval
  <2>. QED
    BY <2>1
<1>3. ASSUME NEW c \in Clients, Find(c) \/ Refuse(c) \/ Spawn(c) \/ CancelTurn(c) \/
                                   CancelApproval(c) \/ CancelQuestionnaire(c) \/
                                   CancelToken(c) \/ ResolveApproval(c) \/
                                   CheckQuestionnaire(c) \/ AnswerQuestionnaire(c) \/
                                   RejectAnswer(c)
      PROVE  (Preparing /\ IdleIsClean /\ PendingHasTurn)'
  <2>1. UNCHANGED <<creator, prep, active_turn, status, closed, pending_approval, pending_quiz,
                    pending_quiz_turn>>
    BY <1>3 DEF Find, Goto, Unchanged, Refuse, Spawn, CancelTurn, CancelApproval,
       CancelQuestionnaire, CancelToken, ResolveApproval, CheckQuestionnaire,
       AnswerQuestionnaire, RejectAnswer
  <2>. QED
    BY <2>1
<1>4. ASSUME StartPreparation PROVE (Preparing /\ IdleIsClean /\ PendingHasTurn)'
  BY <1>4 DEF StartPreparation
<1>5. ASSUME Prepare PROVE (Preparing /\ IdleIsClean /\ PendingHasTurn)'
  BY <1>5 DEF Prepare
<1>6. ASSUME PreparationDone PROVE (Preparing /\ IdleIsClean /\ PendingHasTurn)'
  BY <1>6 DEF PreparationDone
<1>7. ASSUME ConsumeApproval PROVE (Preparing /\ IdleIsClean /\ PendingHasTurn)'
  BY <1>7 DEF ConsumeApproval, PumpRests
<1>8. ASSUME ConsumeQuestionnaire PROVE (Preparing /\ IdleIsClean /\ PendingHasTurn)'
  BY <1>8 DEF ConsumeQuestionnaire, PumpRests
<1>9. ASSUME ConsumeEnd PROVE (Preparing /\ IdleIsClean /\ PendingHasTurn)'
  BY <1>9 DEF ConsumeEnd, PumpRests, Cleared
<1>10. ASSUME Close PROVE (Preparing /\ IdleIsClean /\ PendingHasTurn)'
  BY <1>10 DEF Close, CloserGoto
<1>11. ASSUME NEW c \in Clients, ClaimTurn(c) PROVE (Preparing /\ IdleIsClean /\ PendingHasTurn)'
  BY <1>11 DEF ClaimTurn, Idle, Goto, Unchanged
<1>12. ASSUME NEW c \in Clients, Launch(c) PROVE (Preparing /\ IdleIsClean /\ PendingHasTurn)'
  BY <1>12 DEF Launch, Running, Launching, Goto, Unchanged
<1>13. ASSUME NEW c \in Clients, ClaimApproval(c) PROVE (Preparing /\ IdleIsClean /\ PendingHasTurn)'
  BY <1>13 DEF ClaimApproval, Consumed, Goto, Unchanged
<1>14. ASSUME NEW c \in Clients, ClearQuestionnaire(c) PROVE (Preparing /\ IdleIsClean /\ PendingHasTurn)'
  BY <1>14 DEF ClearQuestionnaire, StillPending, Goto, Unchanged
<1>15. ASSUME UNCHANGED vars PROVE (Preparing /\ IdleIsClean /\ PendingHasTurn)'
  BY <1>15 DEF vars
<1>. QED
  BY <1>1, <1>2, <1>3, <1>4, <1>5, <1>6, <1>7, <1>8, <1>9, <1>10, <1>11, <1>12, <1>13, <1>14,
     <1>15
     DEF Next, TurnWorker, Tool, Pump, Request, Handler, Closer, Destructor

\* Every action keeps the gates to one request and to its answer.
LEMMA GateStep ==
    ASSUME TypeOK, TurnPhases, OneAsker, AnswersAreFresh, ApprovalIds, [Next]_vars
    PROVE  (OneAsker /\ AnswersAreFresh)'
<1> USE SessionAssumption DEF OneAsker, Askers, AnswersAreFresh, None, sessionVars,
        controllerVars, gateVars, turnVars, workerVars, pumpVars, prepVars, handlerVars
<1>1. ASSUME StartPreparation \/ Prepare \/ PreparationDone \/ TurnBegins \/
                NotifyQuestionnaire \/ TurnReturns \/ ClearRunning \/ SayEnd \/ TakeEvent \/
                ConsumeApproval \/ ConsumeQuestionnaire \/ ConsumeEnd \/ PumpStops \/
                Erase \/ Close \/ CloseToken \/ CloseJoin \/ CloseFinish \/
                CloseJoinPreparation \/ CloseDone \/ Destroy \/ Destroyed
      PROVE  (OneAsker /\ AnswersAreFresh)'
  <2>1. UNCHANGED <<gate, quiz_gate, tool>>
    BY <1>1 DEF StartPreparation, Prepare, PreparationDone, TurnBegins, NotifyQuestionnaire,
       ToolVars, TurnReturns, ClearRunning, SayEnd, TakeEvent, ConsumeApproval, PumpRests,
       ConsumeQuestionnaire, ConsumeEnd, PumpStops, Erase, CloserGoto, Close, CloseToken,
       CloseJoin, CloseFinish, CloseJoinPreparation, CloseDone, Destroy, Destroyed
  <2>. QED
    BY <2>1
<1>2. ASSUME NEW c \in Clients, Find(c) \/ Refuse(c) \/ ClaimTurn(c) \/ Launch(c) \/
                                   Spawn(c) \/ CancelTurn(c) \/ CancelToken(c) \/
                                   ClaimApproval(c) \/ CheckQuestionnaire(c) \/
                                   RejectAnswer(c) \/ ClearQuestionnaire(c)
      PROVE  (OneAsker /\ AnswersAreFresh)'
  <2>1. UNCHANGED <<gate, quiz_gate, tool>>
    BY <1>2 DEF Find, Goto, Unchanged, Refuse, ClaimTurn, Launch, Spawn, CancelTurn,
       CancelToken, ClaimApproval, CheckQuestionnaire, RejectAnswer, ClearQuestionnaire
  <2>. QED
    BY <2>1
<1>3. ASSUME AskQuestionnaire PROVE (OneAsker /\ AnswersAreFresh)'
  BY <1>3 DEF AskQuestionnaire, Asked, ToolVars
<1>4. ASSUME TakeQuestionnaire PROVE (OneAsker /\ AnswersAreFresh)'
  BY <1>4 DEF TakeQuestionnaire, Taken, Abandoned, ToolVars
<1>5. ASSUME CloseApproval PROVE (OneAsker /\ AnswersAreFresh)'
  <2>1. Canceller \in Nat \ {0}
    BY SessionAssumption DEF Canceller
  <2>2. OneAsker' /\ (gate.pending /\ gate.answered => gate.by # 0)'
    BY <1>5, <2>1, GateResolved DEF CloseApproval
  <2>3. AnswersAreFresh'
    BY <1>5, <2>2 DEF CloseApproval, AnswersAreFresh
  <2>. QED
    BY <2>2, <2>3
<1>6. ASSUME CloseQuestionnaire PROVE (OneAsker /\ AnswersAreFresh)'
  BY <1>6 DEF CloseQuestionnaire, CloserGoto, Resolved
<1>7. ASSUME DestroyController PROVE (OneAsker /\ AnswersAreFresh)'
  <2>1. Canceller \in Nat \ {0}
    BY SessionAssumption DEF Canceller
  <2>2. OneAsker' /\ (gate.pending /\ gate.answered => gate.by # 0)'
    BY <1>7, <2>1, GateResolved DEF DestroyController
  <2>3. AnswersAreFresh'
    BY <1>7, <2>2, QuizResolved DEF DestroyController, AnswersAreFresh
  <2>. QED
    BY <2>2, <2>3
<1>8. ASSUME NEW t \in Tools, NeedApproval(t) PROVE (OneAsker /\ AnswersAreFresh)'
  BY <1>8 DEF NeedApproval, ToolVars, ToolGoto
<1>9. ASSUME NEW t \in Tools, AskApproval(t) PROVE (OneAsker /\ AnswersAreFresh)'
  <2>1. tool[t] = "queued" /\ \A u \in Tools : u # t => tool'[u] = tool[u]
    BY <1>9 DEF AskApproval, ToolGoto, TypeOK
  <2>2. CASE gate' = gate /\ (tool'[t] = "idle" \/ (tool'[t] = "parked" /\ gate.pending))
    <3>1. Askers' = Askers
      BY <2>1, <2>2
    <3>. QED
      BY <1>9, <2>1, <2>2, <3>1 DEF AskApproval, ToolVars
  <2>3. CASE ~gate.pending /\ tool'[t] = "asked" /\ gate' = Asked(gate)
    <3>1. Askers' = {t}
      BY <2>1, <2>3
    <3>2. gate'.pending /\ ~gate'.answered
      BY <2>3 DEF Asked
    <3>. QED
      BY <1>9, <2>1, <2>3, <3>1, <3>2 DEF AskApproval, ToolVars
  <2>. QED
    BY <1>9, <2>2, <2>3 DEF AskApproval, ToolGoto, TypeOK
<1>10. ASSUME NEW t \in Tools, NotifyApproval(t) PROVE (OneAsker /\ AnswersAreFresh)'
  BY <1>10 DEF NotifyApproval, ToolVars, ToolGoto, Say
<1>11. ASSUME NEW t \in Tools, TakeApproval(t) PROVE (OneAsker /\ AnswersAreFresh)'
  <2>1. t \in Askers /\ gate' \in {Taken(gate), Abandoned(gate)} /\ quiz_gate' = quiz_gate
    BY <1>11 DEF TakeApproval
  <2>2. ~gate'.pending
    BY <2>1 DEF Taken, Abandoned
  <2>3. \A u \in Tools : tool'[u] = IF u = t THEN "idle" ELSE Woken[u]
    BY <1>11 DEF TakeApproval, Woken
  <2>4. Askers' = {} /\ \A u \in Tools : tool'[u] # "parked"
    BY <2>1, <2>3 DEF Woken
  <2>. QED
    BY <2>1, <2>2, <2>4
<1>12. ASSUME NEW c \in Clients, CancelApproval(c) PROVE (OneAsker /\ AnswersAreFresh)'
  <2>1. Canceller \in Nat \ {0}
    BY SessionAssumption DEF Canceller
  <2>2. OneAsker' /\ (gate.pending /\ gate.answered => gate.by # 0)'
    BY <1>12, <2>1, GateResolved DEF CancelApproval
  <2>3. AnswersAreFresh'
    BY <1>12, <2>2 DEF CancelApproval, AnswersAreFresh
  <2>. QED
    BY <2>2, <2>3
<1>13. ASSUME NEW c \in Clients, CancelQuestionnaire(c) PROVE (OneAsker /\ AnswersAreFresh)'
  BY <1>13 DEF CancelQuestionnaire, Resolved, Goto, Unchanged
<1>14. ASSUME NEW c \in Clients, ResolveApproval(c) PROVE (OneAsker /\ AnswersAreFresh)'
  <2>1. id[c] \in Nat \ {0}
    BY <1>14 DEF ResolveApproval, TypeOK, ApprovalIds
  <2>2. OneAsker' /\ (gate.pending /\ gate.answered => gate.by # 0)'
    BY <1>14, <2>1, GateResolved DEF ResolveApproval
  <2>3. AnswersAreFresh'
    BY <1>14, <2>2 DEF ResolveApproval, AnswersAreFresh
  <2>. QED
    BY <2>2, <2>3
<1>15. ASSUME NEW c \in Clients, AnswerQuestionnaire(c) PROVE (OneAsker /\ AnswersAreFresh)'
  BY <1>15 DEF AnswerQuestionnaire, Resolved, Accepts, Goto, Unchanged
<1>16. ASSUME UNCHANGED vars PROVE (OneAsker /\ AnswersAreFresh)'
  BY <1>16 DEF vars
<1>. QED
  BY <1>1, <1>2, <1>3, <1>4, <1>5, <1>6, <1>7, <1>8, <1>9, <1>10, <1>11, <1>12, <1>13, <1>14,
     <1>15, <1>16
     DEF Next, TurnWorker, Tool, Pump, Request, Handler, Closer, Destructor

\* Every action keeps the approval ids apart.
LEMMA IdStep ==
    ASSUME TypeOK, ApprovalIds, ApprovalIdSingleUse, [Next]_vars
    PROVE  (ApprovalIds /\ ApprovalIdSingleUse)'
<1> USE SessionAssumption DEF ApprovalIds, ApprovalIdSingleUse, None, sessionVars,
        controllerVars, gateVars, turnVars, workerVars, pumpVars, prepVars, handlerVars
<1>1. ASSUME StartPreparation \/ Prepare \/ PreparationDone \/ TurnBegins \/
                AskQuestionnaire \/ NotifyQuestionnaire \/ TakeQuestionnaire \/
                TurnReturns \/ ClearRunning \/ SayEnd \/ TakeEvent \/
                ConsumeQuestionnaire \/ PumpStops \/ Erase \/ Close \/ CloseApproval \/
                CloseQuestionnaire \/ CloseToken \/ CloseJoin \/ CloseFinish \/
                CloseJoinPreparation \/ CloseDone \/ Destroy \/ DestroyController \/
                Destroyed
      PROVE  (ApprovalIds /\ ApprovalIdSingleUse)'
  <2>1. UNCHANGED <<pending_approval, next_approval, at, id>>
    BY <1>1 DEF StartPreparation, Prepare, PreparationDone, TurnBegins, AskQuestionnaire,
       ToolVars, NotifyQuestionnaire, TakeQuestionnaire, TurnReturns, ClearRunning, SayEnd,
       TakeEvent, ConsumeQuestionnaire, PumpRests, PumpStops, Erase, CloserGoto, Close,
       CloseApproval, CloseQuestionnaire, CloseToken, CloseJoin, CloseFinish,
       CloseJoinPreparation, CloseDone, Destroy, DestroyController, Destroyed
  <2>. QED
    BY <2>1
<1>2. ASSUME NEW t \in Tools, NeedApproval(t) \/ AskApproval(t) \/ NotifyApproval(t) \/
                                 TakeApproval(t)
      PROVE  (ApprovalIds /\ ApprovalIdSingleUse)'
  <2>1. UNCHANGED <<pending_approval, next_approval, at, id>>
    BY <1>2 DEF NeedApproval, ToolVars, ToolGoto, AskApproval, NotifyApproval, TakeApproval
  <2>. QED
    BY <2>1
<1>3. ASSUME ConsumeApproval PROVE (ApprovalIds /\ ApprovalIdSingleUse)'
  <2>1. UNCHANGED <<at, id>> /\ pending_approval' = next_approval
           /\ next_approval' = next_approval + 1
    BY <1>3 DEF ConsumeApproval, PumpRests
  <2>2. next_approval \in Nat /\ \A c \in Clients : id[c] \in Nat
    BY DEF TypeOK
  <2>. QED
    BY <2>1, <2>2
<1>4. ASSUME ConsumeEnd PROVE (ApprovalIds /\ ApprovalIdSingleUse)'
  <2>1. UNCHANGED <<at, id, next_approval>> /\ pending_approval' = 0
    BY <1>4 DEF ConsumeEnd, PumpRests, Cleared
  <2>2. next_approval \in Nat \ {0}
    BY DEF TypeOK
  <2>. QED
    BY <2>1, <2>2
<1>5. ASSUME NEW c \in Clients, Find(c) PROVE (ApprovalIds /\ ApprovalIdSingleUse)'
  BY <1>5 DEF Find, Goto, Unchanged
<1>6. ASSUME NEW c \in Clients, Refuse(c) PROVE (ApprovalIds /\ ApprovalIdSingleUse)'
  BY <1>6 DEF Refuse, Goto, Unchanged
<1>7. ASSUME NEW c \in Clients, ClaimTurn(c) PROVE (ApprovalIds /\ ApprovalIdSingleUse)'
  BY <1>7 DEF ClaimTurn, Idle, Goto, Unchanged
<1>8. ASSUME NEW c \in Clients, Launch(c) PROVE (ApprovalIds /\ ApprovalIdSingleUse)'
  <2>1. /\ \A d \in Clients : at'[d] = "approve" => at[d] = "approve"
        /\ UNCHANGED <<id, pending_approval, next_approval>>
    BY <1>8 DEF Launch, Goto, Unchanged, TypeOK
  <2>. QED
    BY <2>1
<1>9. ASSUME NEW c \in Clients, Spawn(c) PROVE (ApprovalIds /\ ApprovalIdSingleUse)'
  BY <1>9 DEF Spawn, Goto, Unchanged
<1>10. ASSUME NEW c \in Clients, CancelTurn(c) PROVE (ApprovalIds /\ ApprovalIdSingleUse)'
  BY <1>10 DEF CancelTurn, Goto, Unchanged
<1>11. ASSUME NEW c \in Clients, CancelApproval(c) PROVE (ApprovalIds /\ ApprovalIdSingleUse)'
  BY <1>11 DEF CancelApproval, ResolveGate, Resolved, Woken, Goto, Unchanged
<1>12. ASSUME NEW c \in Clients, CancelQuestionnaire(c) PROVE (ApprovalIds /\ ApprovalIdSingleUse)'
  BY <1>12 DEF CancelQuestionnaire, Resolved, Goto, Unchanged
<1>13. ASSUME NEW c \in Clients, CancelToken(c) PROVE (ApprovalIds /\ ApprovalIdSingleUse)'
  BY <1>13 DEF CancelToken, SourceTurn, Goto, Unchanged
<1>14. ASSUME NEW c \in Clients, ClaimApproval(c) PROVE (ApprovalIds /\ ApprovalIdSingleUse)'
  <2>1. /\ at'[c] = "approve" /\ \A d \in Clients : d # c => at'[d] = at[d]
        /\ id'[c] = pending_approval /\ \A d \in Clients : d # c => id'[d] = id[d]
        /\ pending_approval # 0 /\ pending_approval' = 0 /\ next_approval' = next_approval
    BY <1>14 DEF ClaimApproval, Consumed, Goto, TypeOK
  <2>2. next_approval \in Nat \ {0}
    BY DEF TypeOK
  <2>3. ApprovalIds'
    BY <2>1, <2>2
  <2>4. ApprovalIdSingleUse'
    BY <2>1
  <2>. QED
    BY <2>3, <2>4
<1>15. ASSUME NEW c \in Clients, ResolveApproval(c) PROVE (ApprovalIds /\ ApprovalIdSingleUse)'
  BY <1>15 DEF ResolveApproval, ResolveGate, Resolved, Woken, Goto, Unchanged
<1>16. ASSUME NEW c \in Clients, CheckQuestionnaire(c) PROVE (ApprovalIds /\ ApprovalIdSingleUse)'
  BY <1>16 DEF CheckQuestionnaire, Goto, Unchanged
<1>17. ASSUME NEW c \in Clients, AnswerQuestionnaire(c) PROVE (ApprovalIds /\ ApprovalIdSingleUse)'
  BY <1>17 DEF AnswerQuestionnaire, Resolved, Accepts, Goto, Unchanged
<1>18. ASSUME NEW c \in Clients, RejectAnswer(c) PROVE (ApprovalIds /\ ApprovalIdSingleUse)'
  BY <1>18 DEF RejectAnswer, TurnedDown, Goto, Unchanged
<1>19. ASSUME NEW c \in Clients, ClearQuestionnaire(c) PROVE (ApprovalIds /\ ApprovalIdSingleUse)'
  BY <1>19 DEF ClearQuestionnaire, StillPending, Goto, Unchanged
<1>20. ASSUME UNCHANGED vars PROVE (ApprovalIds /\ ApprovalIdSingleUse)'
  BY <1>20 DEF vars
<1>. QED
  BY <1>1, <1>2, <1>3, <1>4, <1>5, <1>6, <1>7, <1>8, <1>9, <1>10, <1>11, <1>12, <1>13, <1>14,
     <1>15, <1>16, <1>17, <1>18, <1>19, <1>20
     DEF Next, TurnWorker, Tool, Pump, Request, Handler, Closer, Destructor

\* Every action keeps the questionnaires in order.
LEMMA QuizStep ==
    ASSUME TypeOK, TurnPhases, PendingHasTurn, QuizIds, [Next]_vars
    PROVE  QuizIds'
<1> USE SessionAssumption DEF QuizIds, NewerQuiz, Answering, None, NoEvent, sessionVars,
        controllerVars, gateVars, turnVars, workerVars, pumpVars, prepVars, handlerVars
<1>a. /\ quiz_gate.serial \in Nat /\ pending_quiz \in Nat
      /\ \A c \in Clients : id[c] \in Nat
      /\ event.serial \in Nat /\ \A i \in 1..Len(events) : events[i].serial \in Nat
  BY EventTypes
<1>1. ASSUME StartPreparation \/ Prepare \/ PreparationDone \/ Erase \/ Close \/
                CloseApproval \/ CloseToken \/ CloseJoin \/ CloseFinish \/
                CloseJoinPreparation \/ CloseDone \/ Destroy \/ Destroyed
      PROVE  QuizIds'
  <2>1. UNCHANGED <<events, pending_quiz, pending_quiz_turn, quiz_gate, worker, pump, event,
                    at, id, turn>>
    BY <1>1 DEF StartPreparation, Prepare, PreparationDone, Erase, CloserGoto, Close,
       CloseApproval, CloseToken, CloseJoin, CloseFinish, CloseJoinPreparation, CloseDone,
       Destroy, Destroyed
  <2>. QED
    BY <2>1
<1>2. ASSUME NEW t \in Tools, NeedApproval(t) \/ AskApproval(t) \/ TakeApproval(t)
      PROVE  QuizIds'
  <2>1. UNCHANGED <<events, pending_quiz, pending_quiz_turn, quiz_gate, worker, pump, event,
                    at, id, turn>>
    BY <1>2 DEF NeedApproval, ToolVars, ToolGoto, AskApproval, TakeApproval
  <2>. QED
    BY <2>1
<1>3. ASSUME TurnBegins PROVE QuizIds'
  BY <1>3 DEF TurnBegins
<1>4. ASSUME AskQuestionnaire PROVE QuizIds'
  <2>1. /\ quiz_gate'.serial = quiz_gate.serial + 1
        /\ UNCHANGED <<events, pump, event, pending_quiz, pending_quiz_turn, at, turn, id>>
    BY <1>4 DEF AskQuestionnaire, Asked, ToolVars
  <2>2. \A n \in Nat : n <= quiz_gate.serial => n < quiz_gate'.serial /\ n <= quiz_gate'.serial
    BY <1>a, <2>1
  <2>. QED
    BY <1>a, <2>1, <2>2
<1>5. ASSUME NotifyQuestionnaire PROVE QuizIds'
  <2>. DEFINE N(n) == /\ pending_quiz < n /\ \A c \in Answering : id[c] < n
                      /\ n <= quiz_gate.serial
  <2>1. /\ worker = "quiz_asked" /\ worker' # "quiz_asked"
        /\ UNCHANGED <<quiz_gate, pump, event, pending_quiz, pending_quiz_turn, at, turn, id>>
    BY <1>5 DEF NotifyQuestionnaire, ToolVars
  <2>2. PICK e : e.serial = quiz_gate.serial /\ events' = Append(events, e)
    BY <1>5 DEF NotifyQuestionnaire, Say
  <2>3. events \in Seq(EventSet)
    BY DEF TypeOK
  <2>4. \A i \in 1..Len(events') :
            \/ i \in 1..Len(events) /\ events'[i] = events[i]
            \/ i = Len(events) + 1 /\ events'[i] = e
    <3>1. Len(events) \in Nat /\ Len(events') = Len(events) + 1
      BY <2>2, <2>3
    <3>2. \A i \in 1..Len(events) : events'[i] = events[i]
      BY <2>2, <2>3
    <3>3. events'[Len(events) + 1] = e
      BY <2>2, <2>3
    <3>4. \A i \in 1..(Len(events) + 1) : i \in 1..Len(events) \/ i = Len(events) + 1
      BY <3>1
    <3>. QED
      BY <3>1, <3>2, <3>3, <3>4
  <2>5. \A i \in 1..Len(events) : events[i].type = "quiz" => events[i].serial < e.serial
    BY <1>a, <2>1, <2>2
  <2>6. N(e.serial)
    BY <1>a, <2>1, <2>2
  <2>7. pump = "busy" /\ event.type = "quiz" => event.serial < e.serial
    BY <1>a, <2>1, <2>2
  <2>8. ASSUME NEW i \in 1..Len(events'), events'[i].type = "quiz"
        PROVE  /\ N(events'[i].serial)
               /\ \A j \in 1..(i - 1) : events'[j].type = "quiz" => events'[j].serial < events'[i].serial
               /\ pump' = "busy" /\ event'.type = "quiz" => event'.serial < events'[i].serial
    <3>1. ASSUME i \in 1..Len(events), events'[i] = events[i]
          PROVE  /\ N(events'[i].serial)
                 /\ \A j \in 1..(i - 1) :
                        events'[j].type = "quiz" => events'[j].serial < events'[i].serial
                 /\ pump' = "busy" /\ event'.type = "quiz" => event'.serial < events'[i].serial
      <4>1. \A j \in 1..(i - 1) : events'[j] = events[j]
        BY <2>2, <2>3, <3>1
      <4>. QED
        BY <1>a, <2>1, <2>8, <3>1, <4>1
    <3>2. ASSUME i = Len(events) + 1, events'[i] = e
          PROVE  /\ N(events'[i].serial)
                 /\ \A j \in 1..(i - 1) :
                        events'[j].type = "quiz" => events'[j].serial < events'[i].serial
                 /\ pump' = "busy" /\ event'.type = "quiz" => event'.serial < events'[i].serial
      <4>1. \A j \in 1..(i - 1) : j \in 1..Len(events) /\ events'[j] = events[j]
        BY <2>2, <2>3, <3>2
      <4>. QED
        BY <2>1, <2>5, <2>6, <2>7, <3>2, <4>1
    <3>. QED
      BY <2>4, <3>1, <3>2
  <2>9. /\ pump' = "busy" /\ event'.type = "quiz" => N(event.serial)
        /\ \A c \in Answering' : /\ id'[c] # 0 /\ id'[c] <= quiz_gate'.serial
                                 /\ id'[c] = pending_quiz' => turn'[c] = pending_quiz_turn'
        /\ pending_quiz' <= quiz_gate'.serial
    BY <2>1
  <2>. QED
    BY <2>1, <2>8, <2>9
<1>6. ASSUME TakeQuestionnaire PROVE QuizIds'
  BY <1>6 DEF TakeQuestionnaire, Taken, Abandoned, ToolVars
<1>7. ASSUME TurnReturns PROVE QuizIds'
  BY <1>7 DEF TurnReturns
<1>8. ASSUME ClearRunning PROVE QuizIds'
  BY <1>8 DEF ClearRunning
<1>9. ASSUME SayEnd PROVE QuizIds'
  BY <1>9 DEF SayEnd, Say
<1>10. ASSUME TakeEvent PROVE QuizIds'
  BY <1>10 DEF TakeEvent
<1>11. ASSUME ConsumeApproval PROVE QuizIds'
  BY <1>11 DEF ConsumeApproval, PumpRests
<1>12. ASSUME ConsumeQuestionnaire PROVE QuizIds'
  <2>1. /\ event.type = "quiz" /\ pump = "busy" /\ pump' = "idle"
        /\ pending_quiz' = event.serial
        /\ UNCHANGED <<events, quiz_gate, worker, at, turn, id>>
    BY <1>12 DEF ConsumeQuestionnaire, PumpRests
  <2>2. /\ \A c \in Answering : id[c] < event.serial
        /\ event.serial <= quiz_gate.serial
        /\ worker = "quiz_asked" => event.serial < quiz_gate.serial
    BY <2>1
  <2>3. \A i \in 1..Len(events) : events[i].type = "quiz" => event.serial < events[i].serial
    BY <2>1
  <2>4. \A c \in Answering : id[c] # event.serial
    BY <1>a, <2>2
  <2>. QED
    BY <2>1, <2>2, <2>3, <2>4
<1>13. ASSUME ConsumeEnd PROVE QuizIds'
  <2>1. /\ pump' = "idle" /\ pending_quiz' = 0
        /\ UNCHANGED <<events, quiz_gate, worker, at, turn, id>>
    BY <1>13 DEF ConsumeEnd, PumpRests
  <2>2. \A i \in 1..Len(events) : events[i].type = "quiz" => 0 < events[i].serial
    BY <1>a
  <2>3. 0 <= quiz_gate.serial /\ (worker = "quiz_asked" => 0 < quiz_gate.serial)
    BY <1>a
  <2>4. \A c \in Answering : id[c] # 0
    OBVIOUS
  <2>. QED
    BY <2>1, <2>2, <2>3, <2>4
<1>14. ASSUME PumpStops PROVE QuizIds'
  BY <1>14 DEF PumpStops
<1>15. ASSUME CloseQuestionnaire PROVE QuizIds'
  BY <1>15 DEF CloseQuestionnaire, CloserGoto, Resolved
<1>16. ASSUME DestroyController PROVE QuizIds'
  BY <1>16 DEF DestroyController, ResolveGate, Resolved, Woken, SourceTurn
<1>17. ASSUME NEW t \in Tools, NotifyApproval(t) PROVE QuizIds'
  BY <1>17 DEF NotifyApproval, ToolVars, ToolGoto, Say
<1>18. ASSUME NEW c \in Clients, Find(c) PROVE QuizIds'
  BY <1>18 DEF Find, Goto, Unchanged
<1>19. ASSUME NEW c \in Clients, Refuse(c) PROVE QuizIds'
  BY <1>19 DEF Refuse, Goto, Unchanged
<1>20. ASSUME NEW c \in Clients, ClaimTurn(c) PROVE QuizIds'
  BY <1>20 DEF ClaimTurn, Idle, Goto, Unchanged
<1>21. ASSUME NEW c \in Clients, Launch(c) PROVE QuizIds'
  <2>1. Answering' = Answering
    BY <1>21 DEF Launch, Goto, TypeOK
  <2>2. UNCHANGED <<events, pump, event, pending_quiz, pending_quiz_turn, quiz_gate, worker, turn, id>>
    BY <1>21 DEF Launch, Unchanged
  <2>. QED
    BY <2>1, <2>2
<1>22. ASSUME NEW c \in Clients, Spawn(c) PROVE QuizIds'
  BY <1>22 DEF Spawn, Goto, Unchanged
<1>23. ASSUME NEW c \in Clients, CancelTurn(c) PROVE QuizIds'
  BY <1>23 DEF CancelTurn, Goto, Unchanged
<1>24. ASSUME NEW c \in Clients, CancelApproval(c) PROVE QuizIds'
  BY <1>24 DEF CancelApproval, ResolveGate, Resolved, Woken, Goto, Unchanged
<1>25. ASSUME NEW c \in Clients, CancelQuestionnaire(c) PROVE QuizIds'
  BY <1>25 DEF CancelQuestionnaire, Resolved, Goto, Unchanged
<1>26. ASSUME NEW c \in Clients, CancelToken(c) PROVE QuizIds'
  BY <1>26 DEF CancelToken, SourceTurn, Goto, Unchanged
<1>27. ASSUME NEW c \in Clients, ClaimApproval(c) PROVE QuizIds'
  BY <1>27 DEF ClaimApproval, Consumed, Goto, Unchanged
<1>28. ASSUME NEW c \in Clients, ResolveApproval(c) PROVE QuizIds'
  BY <1>28 DEF ResolveApproval, ResolveGate, Resolved, Woken, Goto, Unchanged
<1>29. ASSUME NEW c \in Clients, CheckQuestionnaire(c) PROVE QuizIds'
  <2>. HIDE DEF QuizIds
  <2>a. /\ at \in [Clients -> {"idle", "found", "launch", "spawn", "cancel_approval",
                           "cancel_quiz", "cancel_token", "approve", "answer", "clear_quiz"}]
        /\ turn \in [Clients -> Turns \cup {0}] /\ id \in [Clients -> Nat]
    BY DEF TypeOK
  <2>b. /\ at' = [at EXCEPT ![c] = "answer"] /\ id' = [id EXCEPT ![c] = pending_quiz]
        /\ turn' = [turn EXCEPT ![c] = pending_quiz_turn] /\ pending_quiz # 0
    BY <1>29 DEF CheckQuestionnaire, Goto
  <2>1. \A d \in Answering' :
            \/ d \in Answering /\ id'[d] = id[d] /\ turn'[d] = turn[d]
            \/ id'[d] = pending_quiz /\ turn'[d] = pending_quiz_turn
    BY <2>a, <2>b
  <2>2. UNCHANGED <<events, pump, event, pending_quiz, pending_quiz_turn, quiz_gate, worker>>
    BY <1>29 DEF CheckQuestionnaire
  <2>. QED
    BY <1>a, <2>b, <2>1, <2>2 DEF QuizIds
<1>30. ASSUME NEW c \in Clients, AnswerQuestionnaire(c) PROVE QuizIds'
  BY <1>30 DEF AnswerQuestionnaire, Resolved, Accepts, Goto, Unchanged
<1>31. ASSUME NEW c \in Clients, RejectAnswer(c) PROVE QuizIds'
  BY <1>31 DEF RejectAnswer, Goto, Unchanged
<1>32. ASSUME NEW c \in Clients, ClearQuestionnaire(c) PROVE QuizIds'
  <2>. HIDE DEF QuizIds
  <2>1. /\ UNCHANGED <<events, pump, event, quiz_gate, worker, id, turn>>
        /\ Answering' \subseteq Answering
    BY <1>32 DEF ClearQuestionnaire, Goto, Unchanged, TypeOK
  <2>2. CASE pending_quiz' = 0
    BY <1>a, <2>1, <2>2 DEF QuizIds
  <2>3. CASE pending_quiz' = pending_quiz /\ pending_quiz_turn' = pending_quiz_turn
    BY <1>a, <2>1, <2>3 DEF QuizIds
  <2>. QED
    BY <1>32, <2>2, <2>3 DEF ClearQuestionnaire
<1>33. ASSUME UNCHANGED vars PROVE QuizIds'
  BY <1>33 DEF vars
<1>. QED
  BY <1>1, <1>2, <1>3, <1>4, <1>5, <1>6, <1>7, <1>8, <1>9, <1>10, <1>11, <1>12, <1>13, <1>14,
     <1>15, <1>16, <1>17, <1>18, <1>19, <1>20, <1>21, <1>22, <1>23, <1>24, <1>25, <1>26, <1>27,
     <1>28, <1>29, <1>30, <1>31, <1>32, <1>33
     DEF Next, TurnWorker, Tool, Pump, Request, Handler, Closer, Destructor

\* Every action keeps what an open session waits for on offer.
LEMMA WaitStep ==
    ASSUME TypeOK, Running, Preparing, PendingHasTurn, QuizIds, WaitingIsAnswerable, [Next]_vars
    PROVE  WaitingIsAnswerable'
<1> USE SessionAssumption DEF PendingHasTurn, WaitingIsAnswerable, None, sessionVars,
        controllerVars, gateVars, turnVars, workerVars, pumpVars, prepVars, handlerVars
<1>1. ASSUME StartPreparation \/ Prepare \/ TurnBegins \/ AskQuestionnaire \/
                NotifyQuestionnaire \/ TakeQuestionnaire \/ TurnReturns \/ ClearRunning \/
                SayEnd \/ TakeEvent \/ PumpStops \/ Erase \/ CloseApproval \/
                CloseQuestionnaire \/ CloseToken \/ CloseJoin \/ CloseFinish \/
                CloseJoinPreparation \/ CloseDone \/ Destroy \/ DestroyController \/
                Destroyed
      PROVE  WaitingIsAnswerable'
  <2>1. UNCHANGED <<closed, status, pending_approval, pending_quiz>>
    BY <1>1 DEF StartPreparation, Prepare, TurnBegins, AskQuestionnaire, ToolVars,
       NotifyQuestionnaire, TakeQuestionnaire, TurnReturns, ClearRunning, SayEnd, TakeEvent,
       PumpStops, Erase, CloserGoto, CloseApproval, CloseQuestionnaire, CloseToken, CloseJoin,
       CloseFinish, CloseJoinPreparation, CloseDone, Destroy, DestroyController, Destroyed
  <2>. QED
    BY <2>1
<1>2. ASSUME NEW t \in Tools, NeedApproval(t) \/ AskApproval(t) \/ NotifyApproval(t) \/
                                 TakeApproval(t)
      PROVE  WaitingIsAnswerable'
  <2>1. UNCHANGED <<closed, status, pending_approval, pending_quiz>>
    BY <1>2 DEF NeedApproval, ToolVars, ToolGoto, AskApproval, NotifyApproval, TakeApproval
  <2>. QED
    BY <2>1
<1>3. ASSUME NEW c \in Clients, Find(c) \/ Refuse(c) \/ Spawn(c) \/ CancelTurn(c) \/
                                   CancelApproval(c) \/ CancelQuestionnaire(c) \/
                                   CancelToken(c) \/ ResolveApproval(c) \/
                                   CheckQuestionnaire(c) \/ AnswerQuestionnaire(c) \/
                                   RejectAnswer(c)
      PROVE  WaitingIsAnswerable'
  <2>1. UNCHANGED <<closed, status, pending_approval, pending_quiz>>
    BY <1>3 DEF Find, Goto, Unchanged, Refuse, Spawn, CancelTurn, CancelApproval,
       CancelQuestionnaire, CancelToken, ResolveApproval, CheckQuestionnaire,
       AnswerQuestionnaire, RejectAnswer
  <2>. QED
    BY <2>1
<1>4. ASSUME PreparationDone PROVE WaitingIsAnswerable'
  BY <1>4 DEF PreparationDone
<1>5. ASSUME ConsumeApproval PROVE WaitingIsAnswerable'
  BY <1>5 DEF ConsumeApproval, PumpRests, TypeOK
<1>6. ASSUME ConsumeQuestionnaire PROVE WaitingIsAnswerable'
  <2>1. pending_quiz \in Nat /\ event.serial \in Nat /\ pending_quiz < event.serial
    BY <1>6, EventTypes DEF ConsumeQuestionnaire, QuizIds, NewerQuiz
  <2>. QED
    BY <1>6, <2>1 DEF ConsumeQuestionnaire, PumpRests
<1>7. ASSUME ConsumeEnd PROVE WaitingIsAnswerable'
  BY <1>7 DEF ConsumeEnd, PumpRests, Cleared
<1>8. ASSUME Close PROVE WaitingIsAnswerable'
  BY <1>8 DEF Close, CloserGoto
<1>9. ASSUME NEW c \in Clients, ClaimTurn(c) PROVE WaitingIsAnswerable'
  BY <1>9 DEF ClaimTurn, Idle, Goto, Unchanged
<1>10. ASSUME NEW c \in Clients, Launch(c) PROVE WaitingIsAnswerable'
  BY <1>10 DEF Launch, Goto, Unchanged
<1>11. ASSUME NEW c \in Clients, ClaimApproval(c) PROVE WaitingIsAnswerable'
  BY <1>11 DEF ClaimApproval, Consumed, Goto, Unchanged
<1>12. ASSUME NEW c \in Clients, ClearQuestionnaire(c) PROVE WaitingIsAnswerable'
  <2>1. StillPending(c) => turn[c] = pending_quiz_turn /\ pending_quiz # 0
    BY <1>12 DEF ClearQuestionnaire, StillPending, QuizIds, Answering
  <2>. QED
    BY <1>12, <2>1 DEF ClearQuestionnaire, StillPending
<1>13. ASSUME UNCHANGED vars PROVE WaitingIsAnswerable'
  BY <1>13 DEF vars
<1>. QED
  BY <1>1, <1>2, <1>3, <1>4, <1>5, <1>6, <1>7, <1>8, <1>9, <1>10, <1>11, <1>12, <1>13
     DEF Next, TurnWorker, Tool, Pump, Request, Handler, Closer, Destructor

\* Every action keeps what the destructor has waited for over.
LEMMA EndStep ==
    ASSUME TypeOK, TurnPhases, Preparing, Ending, [Next]_vars
    PROVE  Ending'
<1> USE SessionAssumption DEF Ending, None, sessionVars, controllerVars, gateVars, turnVars,
        workerVars, pumpVars, prepVars, handlerVars
<1>1. ASSUME TakeEvent \/ ConsumeApproval \/ ConsumeQuestionnaire \/ PumpStops
      PROVE  Ending'
  <2>1. UNCHANGED <<active_turn, project_open, prepared, prep, life, closer, creator, at,
                    worker>>
    BY <1>1 DEF TakeEvent, ConsumeApproval, PumpRests, ConsumeQuestionnaire, PumpStops
  <2>. QED
    BY <2>1
<1>2. ASSUME NEW t \in Tools, NeedApproval(t) \/ AskApproval(t) \/ NotifyApproval(t) \/
                                 TakeApproval(t)
      PROVE  Ending'
  <2>1. UNCHANGED <<active_turn, project_open, prepared, prep, life, closer, creator, at,
                    worker>>
    BY <1>2 DEF NeedApproval, ToolVars, ToolGoto, AskApproval, NotifyApproval, TakeApproval
  <2>. QED
    BY <2>1
<1>3. ASSUME StartPreparation PROVE Ending'
  BY <1>3 DEF StartPreparation, Preparing, TypeOK
<1>4. ASSUME Prepare PROVE Ending'
  BY <1>4 DEF Prepare
<1>5. ASSUME PreparationDone PROVE Ending'
  BY <1>5 DEF PreparationDone
<1>6. ASSUME TurnBegins PROVE Ending'
  BY <1>6 DEF TurnBegins, TurnPhases, TypeOK
<1>7. ASSUME AskQuestionnaire PROVE Ending'
  BY <1>7 DEF AskQuestionnaire, Asked, ToolVars
<1>8. ASSUME NotifyQuestionnaire PROVE Ending'
  BY <1>8 DEF NotifyQuestionnaire, Say, ToolVars
<1>9. ASSUME TakeQuestionnaire PROVE Ending'
  BY <1>9 DEF TakeQuestionnaire, Taken, Abandoned, ToolVars
<1>10. ASSUME TurnReturns PROVE Ending'
  BY <1>10 DEF TurnReturns
<1>11. ASSUME ClearRunning PROVE Ending'
  BY <1>11 DEF ClearRunning
<1>12. ASSUME SayEnd PROVE Ending'
  BY <1>12 DEF SayEnd, Say
<1>13. ASSUME ConsumeEnd PROVE Ending'
  BY <1>13 DEF ConsumeEnd, PumpRests, Cleared
<1>14. ASSUME Erase PROVE Ending'
  BY <1>14 DEF Erase, CloserGoto
<1>15. ASSUME Close PROVE Ending'
  BY <1>15 DEF Close, CloserGoto
<1>16. ASSUME CloseApproval PROVE Ending'
  BY <1>16 DEF CloseApproval, CloserGoto, ResolveGate, Resolved, Woken
<1>17. ASSUME CloseQuestionnaire PROVE Ending'
  BY <1>17 DEF CloseQuestionnaire, CloserGoto, Resolved
<1>18. ASSUME CloseToken PROVE Ending'
  BY <1>18 DEF CloseToken, CloserGoto, SourceTurn
<1>19. ASSUME CloseJoin PROVE Ending'
  BY <1>19 DEF CloseJoin, CloserGoto
<1>20. ASSUME CloseFinish PROVE Ending'
  BY <1>20 DEF CloseFinish, CloserGoto
<1>21. ASSUME CloseJoinPreparation PROVE Ending'
  BY <1>21 DEF CloseJoinPreparation, CloserGoto
<1>22. ASSUME CloseDone PROVE Ending'
  BY <1>22 DEF CloseDone, CloserGoto
<1>23. ASSUME Destroy PROVE Ending'
  BY <1>23 DEF Destroy, Unreferenced
<1>24. ASSUME DestroyController PROVE Ending'
  BY <1>24 DEF DestroyController, ResolveGate, Resolved, Woken, SourceTurn
<1>25. ASSUME Destroyed PROVE Ending'
  BY <1>25 DEF Destroyed
<1>26. ASSUME NEW c \in Clients, Find(c) PROVE Ending'
  BY <1>26 DEF Find, Goto, Unchanged
<1>27. ASSUME NEW c \in Clients, Refuse(c) PROVE Ending'
  BY <1>27 DEF Refuse, Goto, Unchanged
<1>28. ASSUME NEW c \in Clients, ClaimTurn(c) PROVE Ending'
  BY <1>28 DEF ClaimTurn, Preparing, Goto
<1>29. ASSUME NEW c \in Clients, Launch(c) PROVE Ending'
  BY <1>29 DEF Launch, Goto, Unchanged
<1>30. ASSUME NEW c \in Clients, Spawn(c) PROVE Ending'
  BY <1>30 DEF Spawn, Goto, Unchanged
<1>31. ASSUME NEW c \in Clients, CancelTurn(c) PROVE Ending'
  BY <1>31 DEF CancelTurn, Goto, Unchanged
<1>32. ASSUME NEW c \in Clients, CancelApproval(c) PROVE Ending'
  BY <1>32 DEF CancelApproval, ResolveGate, Resolved, Woken, Goto, Unchanged
<1>33. ASSUME NEW c \in Clients, CancelQuestionnaire(c) PROVE Ending'
  BY <1>33 DEF CancelQuestionnaire, Resolved, Goto, Unchanged
<1>34. ASSUME NEW c \in Clients, CancelToken(c) PROVE Ending'
  BY <1>34 DEF CancelToken, SourceTurn, Goto, Unchanged
<1>35. ASSUME NEW c \in Clients, ClaimApproval(c) PROVE Ending'
  BY <1>35 DEF ClaimApproval, Consumed, Goto, Unchanged
<1>36. ASSUME NEW c \in Clients, ResolveApproval(c) PROVE Ending'
  BY <1>36 DEF ResolveApproval, ResolveGate, Resolved, Woken, Goto, Unchanged
<1>37. ASSUME NEW c \in Clients, CheckQuestionnaire(c) PROVE Ending'
  BY <1>37 DEF CheckQuestionnaire, Goto, Unchanged
<1>38. ASSUME NEW c \in Clients, AnswerQuestionnaire(c) PROVE Ending'
  BY <1>38 DEF AnswerQuestionnaire, Resolved, Accepts, Goto, Unchanged
<1>39. ASSUME NEW c \in Clients, RejectAnswer(c) PROVE Ending'
  BY <1>39 DEF RejectAnswer, Goto, Unchanged
<1>40. ASSUME NEW c \in Clients, ClearQuestionnaire(c) PROVE Ending'
  BY <1>40 DEF ClearQuestionnaire, StillPending, Goto, Unchanged
<1>41. ASSUME UNCHANGED vars PROVE Ending'
  BY <1>41 DEF vars
<1>. QED
  BY <1>1, <1>2, <1>3, <1>4, <1>5, <1>6, <1>7, <1>8, <1>9, <1>10, <1>11, <1>12, <1>13, <1>14,
     <1>15, <1>16, <1>17, <1>18, <1>19, <1>20, <1>21, <1>22, <1>23, <1>24, <1>25, <1>26, <1>27,
     <1>28, <1>29, <1>30, <1>31, <1>32, <1>33, <1>34, <1>35, <1>36, <1>37, <1>38, <1>39, <1>40,
     <1>41
     DEF Next, TurnWorker, Tool, Pump, Request, Handler, Closer, Destructor

\* What the worker says is noticed, and nothing noticed is forgotten by that.
LEMMA SaidIsNoticed ==
    ASSUME TypeOK, NEW e, events' = Append(events, e), UNCHANGED <<pump, event>>
    PROVE  /\ Noticed(e.type, e.serial)'
           /\ \A type, n : Noticed(type, n) => Noticed(type, n)'
<1>1. events \in Seq(EventSet)
  BY DEF TypeOK
<1>2. Len(events) \in Nat /\ Len(events') = Len(events) + 1 /\ events'[Len(events) + 1] = e
  BY <1>1
<1>3. \A i \in 1..Len(events) : i \in 1..Len(events') /\ events'[i] = events[i]
  BY <1>1
<1>4. Noticed(e.type, e.serial)'
  BY <1>2 DEF Noticed
<1>5. ASSUME NEW type, NEW n, Noticed(type, n) PROVE Noticed(type, n)'
  BY <1>3, <1>5 DEF Noticed
<1>. QED
  BY <1>4, <1>5

\* While the session is open, neither does the pump drop anything.
LEMMA TakenIsNoticed ==
    ASSUME TypeOK, TakeEvent, ~closed, NEW type, NEW n, Noticed(type, n)
    PROVE  Noticed(type, n)'
<1>1. events \in Seq(EventSet) /\ events # <<>> /\ pump = "idle"
  BY DEF TypeOK, TakeEvent
<1>2. events' = Tail(events) /\ pump' = "busy" /\ event' = Head(events)
  BY DEF TakeEvent
<1>3. PICK i \in 1..Len(events) : events[i].type = type /\ events[i].serial = n
  BY <1>1 DEF Noticed
<1>4. CASE i = 1
  BY <1>1, <1>2, <1>3, <1>4 DEF Noticed
<1>5. CASE i # 1
  <2>1. i - 1 \in 1..Len(events') /\ events'[i - 1] = events[i]
    BY <1>1, <1>2, <1>5
  <2>. QED
    BY <1>3, <2>1 DEF Noticed
<1>. QED
  BY <1>4, <1>5

\* What the pump does not hold stays noticed when it rests.
LEMMA RestIsNoticed ==
    ASSUME PumpRests, NEW type, NEW n, Noticed(type, n), event.type # type
    PROVE  Noticed(type, n)'
  BY DEF PumpRests, Noticed, controllerVars

\* Every action keeps a tool's request for approval in view, or on its way there
\* or back.
LEMMA ApprovalShownStep ==
    ASSUME TypeOK, TurnPhases, OnTheWay, OneAsker, ~closed => ApprovalIsShown,
           [Next]_vars, ~closed'
    PROVE  ApprovalIsShown'
<1> USE DEF None, sessionVars, controllerVars, gateVars, turnVars, workerVars, pumpVars,
        prepVars, handlerVars
<1>. DEFINE Asking == \E t \in Tools : tool[t] = "asked"
            Way    == Noticed("approval", gate.serial)
            Back   == \E c \in Clients : at[c] = "approve"
<1>0. closed' = closed => ApprovalIsShown
  OBVIOUS
<1>1. ASSUME UNCHANGED <<closed, gate, pending_approval>>, Asking => Asking', Way => Way',
             Back => Back'
      PROVE  ApprovalIsShown'
  BY <1>0, <1>1 DEF ApprovalIsShown
<1>2. ASSUME UNCHANGED <<closed, events, pump, event, tool, gate, pending_approval, at>>
      PROVE  ApprovalIsShown'
  BY <1>1, <1>2 DEF Noticed
<1>3. ASSUME ~gate'.pending \/ gate'.answered PROVE ApprovalIsShown'
  BY <1>3 DEF ApprovalIsShown
<1>4. ASSUME StartPreparation \/ Prepare \/ PreparationDone \/ TurnBegins \/
             AskQuestionnaire \/ TakeQuestionnaire \/ TurnReturns \/ ClearRunning \/
             Erase \/ CloseQuestionnaire \/ CloseToken \/ CloseJoin \/
             CloseFinish \/ CloseJoinPreparation \/ CloseDone \/ Destroy \/ Destroyed
      PROVE  ApprovalIsShown'
  BY <1>2, <1>4
     DEF StartPreparation, Prepare, PreparationDone, TurnBegins, AskQuestionnaire, ToolVars,
         TakeQuestionnaire, TurnReturns, ClearRunning, Erase, CloserGoto, CloseQuestionnaire,
         CloseToken, CloseJoin, CloseFinish, CloseJoinPreparation, CloseDone, Destroy, Destroyed
<1>5. ASSUME NotifyQuestionnaire \/ SayEnd PROVE ApprovalIsShown'
  <2>1. \E e : events' = Append(events, e)
    BY <1>5 DEF NotifyQuestionnaire, SayEnd, Say
  <2>2. UNCHANGED <<closed, pump, event, tool, gate, pending_approval, at>>
    BY <1>5 DEF NotifyQuestionnaire, SayEnd, ToolVars
  <2>3. \A n : Noticed("approval", n) => Noticed("approval", n)'
    BY <2>1, <2>2, SaidIsNoticed
  <2>. QED
    BY <1>1, <2>2, <2>3
<1>6. ASSUME PumpStops PROVE ApprovalIsShown'
  BY <1>1, <1>6 DEF PumpStops, Noticed
<1>7. ASSUME NEW t \in Tools, NeedApproval(t) PROVE ApprovalIsShown'
  <2>1. /\ \A u \in Tools : tool[u] = "asked" => tool'[u] = "asked"
        /\ UNCHANGED <<closed, events, pump, event, gate, pending_approval, at>>
    BY <1>7 DEF NeedApproval, ToolVars, ToolGoto, TypeOK
  <2>. QED
    BY <1>1, <2>1 DEF Noticed
<1>8. ASSUME NEW t \in Tools, AskApproval(t) PROVE ApprovalIsShown'
  <2>1. UNCHANGED <<closed, events, pump, event, pending_approval, at>>
    BY <1>8 DEF AskApproval, ToolVars
  <2>2. CASE tool'[t] = "asked"
    BY <2>2 DEF ApprovalIsShown
  <2>3. CASE tool'[t] # "asked"
    <3>1. gate' = gate /\ \A u \in Tools : tool[u] = "asked" => tool'[u] = "asked"
      BY <1>8, <2>3 DEF AskApproval, ToolGoto, TypeOK
    <3>. QED
      BY <1>1, <2>1, <3>1 DEF Noticed
  <2>. QED
    BY <2>2, <2>3
<1>9. ASSUME NEW t \in Tools, NotifyApproval(t) PROVE ApprovalIsShown'
  <2>1. UNCHANGED <<pump, event, gate>>
    BY <1>9 DEF NotifyApproval, ToolVars
  <2>2. PICK e : e.type = "approval" /\ e.serial = gate.serial /\ events' = Append(events, e)
    BY <1>9 DEF NotifyApproval, Say
  <2>3. Noticed("approval", gate.serial)'
    BY <2>1, <2>2, SaidIsNoticed
  <2>. QED
    BY <2>3 DEF ApprovalIsShown
<1>10. ASSUME NEW t \in Tools, TakeApproval(t) PROVE ApprovalIsShown'
  BY <1>3, <1>10 DEF TakeApproval, Taken, Abandoned
<1>11. ASSUME TakeEvent PROVE ApprovalIsShown'
  <2>1. UNCHANGED <<closed, tool, gate, pending_approval, at>>
    BY <1>11 DEF TakeEvent
  <2>2. Noticed("approval", gate.serial) => Noticed("approval", gate.serial)'
    BY <1>11, <2>1, TakenIsNoticed
  <2>. QED
    BY <1>1, <2>1, <2>2
<1>12. ASSUME ConsumeApproval PROVE ApprovalIsShown'
  BY <1>12 DEF ConsumeApproval, TypeOK, ApprovalIsShown
<1>13. ASSUME ConsumeQuestionnaire PROVE ApprovalIsShown'
  <2>1. PumpRests /\ event.type # "approval"
        /\ UNCHANGED <<closed, tool, gate, pending_approval, at>>
    BY <1>13 DEF ConsumeQuestionnaire, PumpRests
  <2>2. \A n : Noticed("approval", n) => Noticed("approval", n)'
    BY <2>1, RestIsNoticed
  <2>. QED
    BY <1>1, <2>1, <2>2
<1>14. ASSUME ConsumeEnd PROVE ApprovalIsShown'
  <2>1. worker = "none"
    BY <1>14 DEF ConsumeEnd, OnTheWay
  <2>2. Askers = {}
    BY <2>1 DEF TurnPhases, Askers
  <2>3. ~gate.pending /\ gate' = gate
    BY <1>14, <2>2 DEF ConsumeEnd, PumpRests, OneAsker
  <2>. QED
    BY <1>3, <2>3
<1>15. ASSUME Close PROVE ApprovalIsShown'
  BY <1>15 DEF Close
<1>16. ASSUME NEW by, ResolveGate(by) PROVE ApprovalIsShown'
  BY <1>3, <1>16 DEF ResolveGate, Resolved
<1>17. ASSUME NEW c \in Clients, Handler(c) \/ Request(c), gate' = gate, ~ClaimApproval(c),
              ~ResolveApproval(c)
       PROVE  ApprovalIsShown'
  <2>1. UNCHANGED <<closed, events, pump, event, pending_approval, tool>>
    BY <1>17 DEF Handler, Request, Find, Refuse, ClaimTurn, Launch, Spawn, CancelTurn,
       CancelApproval, CancelQuestionnaire, CancelToken, CheckQuestionnaire,
       AnswerQuestionnaire, RejectAnswer, ClearQuestionnaire, ResolveGate
  <2>2. \A d \in Clients : at[d] = "approve" => at'[d] = "approve"
    BY <1>17 DEF Handler, Request, Find, Refuse, ClaimTurn, Launch, Spawn, CancelTurn,
       CancelApproval, CancelQuestionnaire, CancelToken, CheckQuestionnaire,
       AnswerQuestionnaire, RejectAnswer, ClearQuestionnaire, Goto, TypeOK
  <2>. QED
    BY <1>1, <1>17, <2>1, <2>2 DEF Noticed
<1>18. ASSUME NEW c \in Clients, ClaimApproval(c) PROVE ApprovalIsShown'
  BY <1>18 DEF ClaimApproval, Goto, TypeOK, ApprovalIsShown
<1>19. ASSUME NEW c \in Clients, Handler(c) \/ Request(c) PROVE ApprovalIsShown'
  <2>1. CASE CancelApproval(c) \/ ResolveApproval(c)
    BY <1>16, <2>1 DEF CancelApproval, ResolveApproval
  <2>2. CASE ~CancelApproval(c) /\ ~ResolveApproval(c) /\ ~ClaimApproval(c)
    <3>1. gate' = gate
      BY <1>19, <2>2 DEF Handler, Request, Find, Refuse, ClaimTurn, Launch, Spawn, CancelTurn,
         CancelQuestionnaire, CancelToken, CheckQuestionnaire, AnswerQuestionnaire,
         RejectAnswer, ClearQuestionnaire
    <3>. QED
      BY <1>17, <1>19, <2>2, <3>1
  <2>. QED
    BY <1>18, <2>1, <2>2
<1>20. ASSUME CloseApproval \/ DestroyController PROVE ApprovalIsShown'
  BY <1>16, <1>20 DEF CloseApproval, DestroyController
<1>21. ASSUME UNCHANGED vars PROVE ApprovalIsShown'
  BY <1>2, <1>21 DEF vars
<1>. QED
  BY <1>4, <1>5, <1>6, <1>7, <1>8, <1>9, <1>10, <1>11, <1>12, <1>13, <1>14, <1>15, <1>19,
     <1>20, <1>21 DEF Next, TurnWorker, Tool, Pump, Closer, Destructor

\* A questionnaire that waits is the worker's, and one that a handler is about to
\* clear has been answered.
QuizHeld ==
    /\ quiz_gate.pending => worker \in {"quiz_asked", "quiz"}
    /\ \A c \in Clients : at[c] = "clear_quiz" /\ id[c] = quiz_gate.serial =>
           ~quiz_gate.pending \/ quiz_gate.answered

LEMMA QuizHeldStep ==
    ASSUME TypeOK, QuizIds, QuizHeld, [Next]_vars
    PROVE  QuizHeld'
<1> USE DEF None, sessionVars, controllerVars, gateVars, turnVars, workerVars, pumpVars,
        prepVars, handlerVars
<1>1. ASSUME UNCHANGED quiz_gate, worker' = worker \/ worker \notin {"quiz_asked", "quiz"}
                                   \/ worker' = "quiz",
             \A c \in Clients : at'[c] = "clear_quiz" => at[c] = "clear_quiz" /\ id'[c] = id[c]
      PROVE  QuizHeld'
  BY <1>1 DEF QuizHeld
<1>2. ASSUME NEW by, quiz_gate' = Resolved(quiz_gate, by), worker' = worker,
             \A c \in Clients : at'[c] = "clear_quiz" => at[c] = "clear_quiz" /\ id'[c] = id[c]
      PROVE  QuizHeld'
  BY <1>2 DEF QuizHeld, Resolved
<1>3. ASSUME StartPreparation \/ Prepare \/ PreparationDone \/ TurnBegins \/ TurnReturns \/
             ClearRunning \/ SayEnd \/ NotifyQuestionnaire \/ Pump \/ Erase \/ Close \/
             CloseApproval \/ CloseToken \/ CloseJoin \/ CloseFinish \/
             CloseJoinPreparation \/ CloseDone \/ Destroy \/ Destroyed
      PROVE  QuizHeld'
  <2>1. UNCHANGED <<quiz_gate, at, id>>
    BY <1>3 DEF StartPreparation, Prepare, PreparationDone, TurnBegins, ToolVars, TurnReturns,
       ClearRunning, SayEnd, NotifyQuestionnaire, Pump, TakeEvent, ConsumeApproval,
       ConsumeQuestionnaire, ConsumeEnd, PumpRests, PumpStops, Erase, CloserGoto, Close,
       CloseApproval, CloseToken, CloseJoin, CloseFinish, CloseJoinPreparation, CloseDone,
       Destroy, Destroyed
  <2>2. worker' = worker \/ worker \notin {"quiz_asked", "quiz"} \/ worker' = "quiz"
    BY <1>3 DEF StartPreparation, Prepare, PreparationDone, TurnBegins, ToolVars, TurnReturns,
       ClearRunning, SayEnd, NotifyQuestionnaire, Pump, TakeEvent, ConsumeApproval,
       ConsumeQuestionnaire, ConsumeEnd, PumpRests, PumpStops, Erase, CloserGoto, Close,
       CloseApproval, CloseToken, CloseJoin, CloseFinish, CloseJoinPreparation, CloseDone,
       Destroy, Destroyed
  <2>. QED
    BY <1>1, <2>1, <2>2
<1>4. ASSUME NEW t \in Tools, NeedApproval(t) \/ Tool(t) PROVE QuizHeld'
  <2>1. UNCHANGED <<quiz_gate, worker, at, id>>
    BY <1>4 DEF NeedApproval, Tool, AskApproval, NotifyApproval, TakeApproval, ToolVars
  <2>. QED
    BY <1>1, <2>1
<1>5. ASSUME AskQuestionnaire PROVE QuizHeld'
  <2>1. /\ worker' = "quiz_asked" /\ UNCHANGED <<at, id>>
        /\ quiz_gate'.serial = quiz_gate.serial + 1
    BY <1>5 DEF AskQuestionnaire, Asked, ToolVars
  <2>2. \A c \in Clients : at[c] = "clear_quiz" => id[c] # quiz_gate.serial + 1
    BY EventTypes DEF QuizIds, Answering
  <2>. QED
    BY <2>1, <2>2 DEF QuizHeld
<1>6. ASSUME TakeQuestionnaire PROVE QuizHeld'
  BY <1>6 DEF TakeQuestionnaire, Taken, Abandoned, QuizHeld
<1>7. ASSUME CloseQuestionnaire \/ DestroyController PROVE QuizHeld'
  <2>1. quiz_gate' = Resolved(quiz_gate, Canceller) /\ UNCHANGED <<worker, at, id>>
    BY <1>7 DEF CloseQuestionnaire, CloserGoto, DestroyController
  <2>. QED
    BY <1>2, <2>1
<1>8. ASSUME NEW c \in Clients, AnswerQuestionnaire(c) PROVE QuizHeld'
  <2>1. /\ quiz_gate' = [pending |-> TRUE, answered |-> TRUE, serial |-> quiz_gate.serial,
                         by |-> id[c]]
        /\ quiz_gate.pending /\ worker' = worker
    BY <1>8 DEF AnswerQuestionnaire, Accepts, Resolved
  <2>. QED
    BY <2>1 DEF QuizHeld
<1>9. ASSUME NEW c \in Clients, CancelQuestionnaire(c) PROVE QuizHeld'
  <2>1. /\ quiz_gate' = Resolved(quiz_gate, Canceller) /\ worker' = worker /\ id' = id
        /\ \A d \in Clients : at'[d] = "clear_quiz" => at[d] = "clear_quiz"
    BY <1>9 DEF CancelQuestionnaire, Goto, Unchanged, TypeOK
  <2>. QED
    BY <1>2, <2>1
<1>10. ASSUME NEW c \in Clients, Spawn(c) PROVE QuizHeld'
  <2>1. /\ UNCHANGED <<quiz_gate, id>> /\ worker = "none"
        /\ \A d \in Clients : at'[d] = "clear_quiz" => at[d] = "clear_quiz"
    BY <1>10 DEF Spawn, Goto, Unchanged, TypeOK
  <2>. QED
    BY <1>1, <2>1
<1>11. ASSUME NEW c \in Clients, Find(c) \/ Refuse(c) \/ ClaimTurn(c) \/ Launch(c) \/
              CancelTurn(c) \/ CancelApproval(c) \/ CancelToken(c) \/ ClaimApproval(c) \/
              ResolveApproval(c) \/ CheckQuestionnaire(c) \/ RejectAnswer(c) \/
              ClearQuestionnaire(c)
       PROVE  QuizHeld'
  <2>1. UNCHANGED <<quiz_gate, worker>>
    BY <1>11 DEF Find, Refuse, ClaimTurn, Launch, CancelTurn, CancelApproval, CancelToken,
       ClaimApproval, ResolveApproval, CheckQuestionnaire, RejectAnswer, ClearQuestionnaire
  <2>2. \A d \in Clients : at'[d] = "clear_quiz" => at[d] = "clear_quiz" /\ id'[d] = id[d]
    BY <1>11 DEF Find, Refuse, ClaimTurn, Launch, CancelTurn, CancelApproval, CancelToken,
       ClaimApproval, ResolveApproval, CheckQuestionnaire, RejectAnswer, TurnedDown,
       ClearQuestionnaire, Goto, Unchanged, TypeOK
  <2>. QED
    BY <1>1, <2>1, <2>2
<1>12. ASSUME UNCHANGED vars PROVE QuizHeld'
  BY <1>1, <1>12 DEF vars
<1>. QED
  BY <1>3, <1>4, <1>5, <1>6, <1>7, <1>8, <1>9, <1>10, <1>11, <1>12
     DEF Next, TurnWorker, Request, Handler, Closer, Destructor

\* Every action keeps a questionnaire that waits in view, or on its way there.
LEMMA QuizShownStep ==
    ASSUME TypeOK, TurnPhases, OnTheWay, QuizIds, QuizHeld, ~closed => QuizIsShown,
           [Next]_vars, ~closed'
    PROVE  QuizIsShown'
<1> USE DEF None, sessionVars, controllerVars, gateVars, turnVars, workerVars, pumpVars,
        prepVars, handlerVars
<1>0. closed' = closed => QuizIsShown
  OBVIOUS
<1>1. ASSUME UNCHANGED <<closed, quiz_gate, pending_quiz>>,
             worker = "quiz_asked" => worker' = "quiz_asked",
             Noticed("quiz", quiz_gate.serial) => Noticed("quiz", quiz_gate.serial)'
      PROVE  QuizIsShown'
  BY <1>0, <1>1 DEF QuizIsShown
<1>2. ASSUME ~quiz_gate'.pending \/ quiz_gate'.answered PROVE QuizIsShown'
  BY <1>2 DEF QuizIsShown
<1>3. ASSUME NEW by, quiz_gate' = Resolved(quiz_gate, by) PROVE QuizIsShown'
  BY <1>2, <1>3 DEF Resolved
<1>4. ASSUME StartPreparation \/ Prepare \/ PreparationDone \/ TurnBegins \/ TurnReturns \/
             ClearRunning \/ Erase \/ CloseApproval \/ CloseToken \/ CloseJoin \/
             CloseFinish \/ CloseJoinPreparation \/ CloseDone \/ Destroy \/ Destroyed
      PROVE  QuizIsShown'
  <2>1. /\ UNCHANGED <<closed, quiz_gate, pending_quiz, events, pump, event>>
        /\ worker = "quiz_asked" => worker' = "quiz_asked"
    BY <1>4 DEF StartPreparation, Prepare, PreparationDone, TurnBegins, TurnReturns,
       ClearRunning, Erase, CloserGoto, CloseApproval, CloseToken, CloseJoin, CloseFinish,
       CloseJoinPreparation, CloseDone, Destroy, Destroyed
  <2>. QED
    BY <1>1, <2>1 DEF Noticed
<1>5. ASSUME NEW t \in Tools, NeedApproval(t) \/ AskApproval(t) \/ TakeApproval(t)
      PROVE  QuizIsShown'
  <2>1. UNCHANGED <<closed, quiz_gate, pending_quiz, events, pump, event, worker>>
    BY <1>5 DEF NeedApproval, AskApproval, TakeApproval, ToolVars
  <2>. QED
    BY <1>1, <2>1 DEF Noticed
<1>6. ASSUME SayEnd \/ \E t \in Tools : NotifyApproval(t) PROVE QuizIsShown'
  <2>1. \E e : events' = Append(events, e)
    BY <1>6 DEF NotifyApproval, SayEnd, Say
  <2>2. /\ UNCHANGED <<closed, quiz_gate, pending_quiz, pump, event>>
        /\ worker = "quiz_asked" => worker' = "quiz_asked"
    BY <1>6 DEF NotifyApproval, SayEnd, ToolVars
  <2>3. \A n : Noticed("quiz", n) => Noticed("quiz", n)'
    BY <2>1, <2>2, SaidIsNoticed
  <2>. QED
    BY <1>1, <2>2, <2>3
<1>7. ASSUME AskQuestionnaire PROVE QuizIsShown'
  BY <1>7 DEF AskQuestionnaire, QuizIsShown
<1>8. ASSUME NotifyQuestionnaire PROVE QuizIsShown'
  <2>1. UNCHANGED <<pump, event, quiz_gate>>
    BY <1>8 DEF NotifyQuestionnaire, ToolVars
  <2>2. PICK e : e.type = "quiz" /\ e.serial = quiz_gate.serial /\ events' = Append(events, e)
    BY <1>8 DEF NotifyQuestionnaire, Say
  <2>3. Noticed("quiz", quiz_gate.serial)'
    BY <2>1, <2>2, SaidIsNoticed
  <2>. QED
    BY <2>3 DEF QuizIsShown
<1>9. ASSUME TakeQuestionnaire PROVE QuizIsShown'
  BY <1>2, <1>9 DEF TakeQuestionnaire, Taken, Abandoned
<1>10. ASSUME TakeEvent PROVE QuizIsShown'
  <2>1. UNCHANGED <<closed, quiz_gate, pending_quiz, worker>>
    BY <1>10 DEF TakeEvent
  <2>2. Noticed("quiz", quiz_gate.serial) => Noticed("quiz", quiz_gate.serial)'
    BY <1>10, <2>1, TakenIsNoticed
  <2>. QED
    BY <1>1, <2>1, <2>2
<1>11. ASSUME ConsumeApproval PROVE QuizIsShown'
  <2>1. PumpRests /\ event.type # "quiz" /\ UNCHANGED <<closed, quiz_gate, pending_quiz, worker>>
    BY <1>11 DEF ConsumeApproval, PumpRests
  <2>2. \A n : Noticed("quiz", n) => Noticed("quiz", n)'
    BY <2>1, RestIsNoticed
  <2>. QED
    BY <1>1, <2>1, <2>2
<1>12. ASSUME ConsumeQuestionnaire PROVE QuizIsShown'
  <2>1. /\ pump = "busy" /\ event.type = "quiz" /\ pending_quiz' = event.serial
        /\ UNCHANGED <<closed, quiz_gate, worker, events>>
    BY <1>12 DEF ConsumeQuestionnaire, PumpRests
  <2>2. CASE event.serial = quiz_gate.serial
    BY <2>1, <2>2 DEF QuizIsShown
  <2>3. CASE event.serial # quiz_gate.serial
    <3>1. pending_quiz # quiz_gate.serial
      BY <2>1, EventTypes DEF QuizIds, NewerQuiz
    <3>. QED
      BY <1>0, <2>1, <2>3, <3>1 DEF QuizIsShown, Noticed
  <2>. QED
    BY <2>2, <2>3
<1>13. ASSUME ConsumeEnd PROVE QuizIsShown'
  <2>1. worker = "none" /\ quiz_gate' = quiz_gate
    BY <1>13 DEF ConsumeEnd, PumpRests, OnTheWay
  <2>. QED
    BY <1>2, <2>1 DEF QuizHeld
<1>14. ASSUME PumpStops PROVE QuizIsShown'
  BY <1>1, <1>14 DEF PumpStops, Noticed
<1>15. ASSUME Close PROVE QuizIsShown'
  BY <1>15 DEF Close
<1>16. ASSUME CloseQuestionnaire \/ DestroyController PROVE QuizIsShown'
  BY <1>3, <1>16 DEF CloseQuestionnaire, DestroyController
<1>17. ASSUME NEW c \in Clients, CancelQuestionnaire(c) \/ AnswerQuestionnaire(c)
       PROVE  QuizIsShown'
  BY <1>3, <1>17 DEF CancelQuestionnaire, AnswerQuestionnaire
<1>18. ASSUME NEW c \in Clients, ClearQuestionnaire(c) PROVE QuizIsShown'
  <2>1. /\ UNCHANGED <<closed, quiz_gate, events, pump, event, worker>>
        /\ pending_quiz' = pending_quiz \/ pending_quiz = id[c]
        /\ at[c] = "clear_quiz"
    BY <1>18 DEF ClearQuestionnaire, StillPending
  <2>2. CASE pending_quiz' = pending_quiz
    BY <1>1, <2>1, <2>2 DEF Noticed
  <2>3. CASE pending_quiz = id[c] /\ id[c] = quiz_gate.serial
    BY <1>2, <2>1, <2>3 DEF QuizHeld
  <2>4. CASE pending_quiz # quiz_gate.serial
    BY <1>0, <2>1, <2>4 DEF QuizIsShown, Noticed
  <2>. QED
    BY <2>1, <2>2, <2>3, <2>4
<1>19. ASSUME NEW c \in Clients, Find(c) \/ Refuse(c) \/ ClaimTurn(c) \/ Launch(c) \/ Spawn(c) \/
              CancelTurn(c) \/ CancelApproval(c) \/ CancelToken(c) \/ ClaimApproval(c) \/
              ResolveApproval(c) \/ CheckQuestionnaire(c) \/ RejectAnswer(c)
       PROVE  QuizIsShown'
  <2>1. /\ UNCHANGED <<closed, quiz_gate, pending_quiz, events, pump, event>>
        /\ worker = "quiz_asked" => worker' = "quiz_asked"
    BY <1>19 DEF Find, Refuse, ClaimTurn, Launch, Spawn, CancelTurn, CancelApproval, CancelToken,
       ClaimApproval, ResolveApproval, CheckQuestionnaire, RejectAnswer, Unchanged
  <2>. QED
    BY <1>1, <2>1 DEF Noticed
<1>20. ASSUME UNCHANGED vars PROVE QuizIsShown'
  BY <1>1, <1>20 DEF vars, Noticed
<1>. QED
  BY <1>4, <1>5, <1>6, <1>7, <1>8, <1>9, <1>10, <1>11, <1>12, <1>13, <1>14, <1>15, <1>16,
     <1>17, <1>18, <1>19, <1>20
     DEF Next, TurnWorker, Tool, Pump, Request, Handler, Closer, Destructor

\* The first state satisfies the inductive invariant.
LEMMA InitInv ==
    ASSUME Init
    PROVE  IInv
<1> USE SessionAssumption
<1>1. TypeOK
  <2>1. gate \in Gates(MaxAsks) /\ quiz_gate \in Gates(MaxQuizzes)
    BY DEF Init, Gates, IdleGate, None
  <2>2. events \in Seq(EventSet) /\ next_turn \in 1..(MaxTurns + 1)
    BY DEF Init, FirstIds
  <2>3. /\ pump_cancelled \in BOOLEAN /\ prep_cancelled \in BOOLEAN /\ prepared \in BOOLEAN
        /\ closed \in BOOLEAN /\ turn_running \in BOOLEAN
        /\ project_open \in BOOLEAN /\ seeded \in BOOLEAN
    BY Zenon DEF Init
  <2>. QED
    BY <2>1, <2>2, <2>3 DEF Init, FirstIds, TypeOK, None
<1>2. TurnPhases /\ Running /\ OnTheWay
  BY DEF Init, TurnPhases, Running, OnTheWay, Quiet, Launching, None
<1>3. Preparing /\ IdleIsClean /\ PendingHasTurn
  BY DEF Init, Preparing, IdleIsClean, PendingHasTurn
<1>4. OneAsker /\ AnswersAreFresh
  BY DEF Init, OneAsker, Askers, AnswersAreFresh, IdleGate
<1>5. ApprovalIds /\ ApprovalIdSingleUse
  BY DEF Init, FirstIds, ApprovalIds, ApprovalIdSingleUse, None
<1>6. QuizIds
  BY DEF Init, QuizIds, Answering, IdleGate, None
<1>7. WaitingIsAnswerable /\ Ending
  BY DEF Init, WaitingIsAnswerable, Ending
<1>. QED
  BY <1>1, <1>2, <1>3, <1>4, <1>5, <1>6, <1>7 DEF IInv

\* Every step keeps it.
LEMMA StepInv ==
    ASSUME IInv, [Next]_vars
    PROVE  IInv'
  BY TypeStep, PhaseStep, PreparingStep, GateStep, IdStep, QuizStep, WaitStep, EndStep DEF IInv

\* The inductive invariant holds in every state of every behaviour.
THEOREM Invariance == Spec => []IInv
  BY InitInv, StepInv, PTL DEF Spec

\* Every variable keeps its type: the queue holds only events of turns, whatever
\* pump_events and the turn worker do.
THEOREM TypeCorrect == Spec => []TypeOK
<1>1. IInv => TypeOK
  BY DEF IInv
<1>. QED
  BY <1>1, Invariance, PTL

\* start_turn never starts a turn beside another, and never takes back a turn
\* it has announced, however many clients call it at once.
LEMMA TurnsAreSingle == Spec => []OneTurnAtATime
<1>1. IInv => OneTurnAtATime
  <2>1. ASSUME IInv, NEW c \in Launching
        PROVE  /\ Launching = {c} /\ active_turn = turn[c] /\ worker = "none"
               /\ at[c] = "launch" => ~turn_running
    BY <2>1 DEF IInv, TurnPhases, Running
  <2>. QED
    BY <2>1 DEF OneTurnAtATime
<1>. QED
  BY <1>1, Invariance, PTL

\* pump_events publishes every event of the worker under the turn that said it,
\* although the event does not name the turn and the session's may change.
LEMMA EventsNameTheirTurn == Spec => []EventsOfTheirTurn
<1>1. IInv => EventsOfTheirTurn
  BY DEF IInv, OnTheWay, EventsOfTheirTurn
<1>. QED
  BY <1>1, Invariance, PTL

\* Both together: start_turn and pump_events keep the turns of a session apart.
THEOREM TurnsKeepApart == Spec => []TurnsApart
BY TurnsAreSingle, EventsNameTheirTurn, PTL DEF TurnsApart

\* A session shown as preparing, ready or failed has no turn, and no approval or
\* questionnaire that a client could still answer.
LEMMA IdleSessionsAreClean == Spec => []IdleIsClean
<1>1. IInv => IdleIsClean
  BY DEF IInv
<1>. QED
  BY <1>1, Invariance, PTL

\* A pending approval or questionnaire is shown with the turn under way, which
\* is the turn that resolve_questionnaire compares with.
LEMMA PendingIsOfTheTurn == Spec => []PendingHasTurn
<1>1. IInv => PendingHasTurn
  BY DEF IInv
<1>. QED
  BY <1>1, Invariance, PTL

\* Both together: a turn's end, by finish_turn_locked or by close, takes with it
\* whatever of the turn a client could still answer.
THEOREM NothingOutlivesItsTurn == Spec => []NothingStale
BY IdleSessionsAreClean, PendingIsOfTheTurn, PTL DEF NothingStale

\* An open session whose status says that it waits for an answer shows what is
\* to be answered: resolve_questionnaire clears only what it answered, and a
\* questionnaire that came meanwhile stays.
LEMMA AnswersAreOffered == Spec => []WaitingIsAnswerable
<1>1. IInv => WaitingIsAnswerable
  BY DEF IInv
<1>. QED
  BY <1>1, Invariance, PTL

\* ApprovalGate::request serves one tool of a parallel round at a time, and a
\* tool waits for the gate only while another has it.
LEMMA OneRequestAtATime == Spec => []OneAsker
<1>1. IInv => OneAsker
  BY DEF IInv
<1>. QED
  BY <1>1, Invariance, PTL

\* Both together: resolve_questionnaire and ApprovalGate::request leave nobody
\* waiting for what nobody can give.
THEOREM NobodyWaitsInVain == Spec => []AskersAreServed
BY AnswersAreOffered, OneRequestAtATime, PTL DEF AskersAreServed

\* What a tool of an open session waits for is shown to clients or on its way,
\* whatever late, repeated or invalid decisions resolve_approval and
\* resolve_questionnaire are given.
THEOREM OpenRequestsStayInView == Spec => []NobodyWaitsUnseen
<1>. DEFINE Inv == IInv /\ QuizHeld /\ NobodyWaitsUnseen
<1>1. Init => Inv
  <2>1. Init => QuizHeld /\ NobodyWaitsUnseen
    BY DEF Init, QuizHeld, NobodyWaitsUnseen, ApprovalIsShown, QuizIsShown, IdleGate
  <2>. QED
    BY <2>1, InitInv
<1>2. Inv /\ [Next]_vars => Inv'
  <2>. SUFFICES ASSUME Inv, [Next]_vars
                PROVE  Inv'
    OBVIOUS
  <2>1. IInv'
    BY StepInv
  <2>2. QuizHeld'
    BY QuizHeldStep DEF IInv
  <2>3. ASSUME ~closed' PROVE ApprovalIsShown'
    BY <2>3, ApprovalShownStep DEF IInv, NobodyWaitsUnseen
  <2>4. ASSUME ~closed' PROVE QuizIsShown'
    BY <2>4, QuizShownStep DEF IInv, NobodyWaitsUnseen
  <2>. QED
    BY <2>1, <2>2, <2>3, <2>4 DEF NobodyWaitsUnseen
<1>3. Inv => NobodyWaitsUnseen
  OBVIOUS
<1>. QED
  BY <1>1, <1>2, <1>3, PTL DEF Spec

\* No gate returns an answer that was given before its request was made, as
\* that of an abandoned wait would be.
THEOREM NoStaleAnswer == Spec => []AnswersAreFresh
<1>1. IInv => AnswersAreFresh
  BY DEF IInv
<1>. QED
  BY <1>1, Invariance, PTL

\* resolve_approval hands an approval id to one handler, however many ask.
THEOREM OneUsePerApprovalId == Spec => []ApprovalIdSingleUse
<1>1. IInv => ApprovalIdSingleUse
  BY DEF IInv
<1>. QED
  BY <1>1, Invariance, PTL

\* The session's destructor runs after the last handler has let go of it, and
\* leaves no thread and no open project session behind.
THEOREM NothingOutlivesTheSession == Spec => []DestroyedLast
<1>1. IInv => DestroyedLast
  BY DEF IInv, Ending, DestroyedLast
<1>. QED
  BY <1>1, Invariance, PTL

=============================================================================
