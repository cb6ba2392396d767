-------------------------- MODULE AgentTasksProofs --------------------------
(***************************************************************************)
(* What holds of AgentTasks for every number of agents, tasks, handlers,   *)
(* overlapping sweeps and every retry cap.                                 *)
(***************************************************************************)
EXTENDS AgentTasks, TaskTableProofs, FiniteSetTheorems

(* Sweeps that read t as stalled under the cap and have not written yet.   *)
Pending(t) == {s \in Sweepers : t \in toRequeue[s]}

(* A row was claimed once per requeue, and once more unless it waits.      *)
ClaimsAccounted ==
  \A t \in Tasks :
    claims[t] <= retry_count[t] +
                   (IF status[t] \in {"absent", "queued"} THEN 0 ELSE 1)

(* The requeues made and those still to be written never exceed the cap by *)
(* more than one per overlapping sweep.                                    *)
RequeuesAccounted ==
  \A t \in Tasks :
    retry_count[t] + Cardinality(Pending(t)) < RetryCap + Cardinality(Sweepers)

(* What a handler remembers is of a row that exists, a claim that was made *)
(* and an agent.                                                           *)
RunnersSound ==
  \A r \in Runners :
    /\ pc[r] # "idle" => acting[r] \in Agents
    /\ pc[r] = "executing" => /\ doing[r] \in Tasks
                              /\ status[doing[r]] # "absent"
                              /\ attempt[r] <= claims[doing[r]]

(* No claim is run by two handlers.                                        *)
AttemptsDistinct ==
  \A t \in Tasks, r1, r2 \in Runners :
    Drains(r1, t) /\ Drains(r2, t) /\ r1 # r2 => attempt[r1] # attempt[r2]

IInv ==
  /\ TypeOK
  /\ ClaimsAccounted
  /\ RequeuesAccounted
  /\ RunnersSound
  /\ AttemptsDistinct
  /\ RunIdentity

-----------------------------------------------------------------------------

LEMMA InitType == Init => TypeOK
  BY TableAssumption, RuntimeAssumption DEF Init, TableInit, TypeOK, TableTypeOK, Status, StartedAt,
     AgentState, Where, Terminal

LEMMA TypeStep == TypeOK /\ [Next]_vars => TypeOK'
  <1> SUFFICES ASSUME TypeOK, [Next]_vars PROVE TypeOK'
    OBVIOUS
  <1> USE DEF TypeOK, TableTypeOK
  <1>1. ASSUME NEW a \in Agents, Activate(a) PROVE TypeOK'
    BY <1>1 DEF Activate, tableVars, runnerVars, sweepVars, AgentState
  <1>2. ASSUME NEW a \in Agents, NEW s \in {"active", "paused", "revoked"}, SetAgentState(a, s) PROVE TypeOK'
    BY <1>2 DEF SetAgentState, tableVars, runnerVars, sweepVars, AgentState
  <1>3. ASSUME NEW r \in Runners, NEW a \in Agents, BeginAssign(r, a) PROVE TypeOK'
    BY <1>3 DEF BeginAssign, Begin, tableVars, runnerVars, sweepVars, Where
  <1>4. ASSUME NEW r \in Runners, NEW a \in Agents, BeginRuntimeDrain(r, a) PROVE TypeOK'
    BY <1>4, RuntimeAssumption DEF BeginRuntimeDrain, Begin, tableVars, runnerVars, sweepVars, Where
  <1>5. ASSUME NEW r \in Runners, NEW a \in Agents, BeginAdminDrain(r, a) PROVE TypeOK'
    BY <1>5, RuntimeAssumption DEF BeginAdminDrain, Begin, tableVars, runnerVars, sweepVars, Where
  <1>6. ASSUME NEW r \in Runners, NEW t \in Tasks, CreateAndRunInline(r, t) PROVE TypeOK'
    BY <1>6 DEF CreateAndRunInline, InsertTask, tableVars, runnerVars, sweepVars, Status, StartedAt, Terminal, Where
  <1>7. ASSUME NEW r \in Runners, NEW t \in Tasks, ClaimAndRun(r, t) PROVE TypeOK'
    BY <1>7 DEF ClaimAndRun, MayClaim, ClaimNextQueuedTask, QueuedFor, tableVars, runnerVars, sweepVars, Status, StartedAt, Terminal, Where
  <1>8. ASSUME NEW r \in Runners, EndDrain(r) PROVE TypeOK'
    BY <1>8 DEF EndDrain, Leave, tableVars, runnerVars, sweepVars, Where
  <1>9. ASSUME NEW r \in Runners, NEW s \in Terminal, FinishRun(r, s) PROVE TypeOK'
    <2>1. TableTypeOK'
      BY <1>9 DEF FinishRun, CompleteTask, Status
    <2>2. /\ pc' \in [Runners -> Where] /\ acting' \in [Runners -> Agents \cup {NoAgent}]
          /\ doing' \in [Runners -> Tasks \cup {0}] /\ left' \in [Runners -> Nat]
          /\ attempt' \in [Runners -> Nat]
      BY <1>9 DEF FinishRun, NextTurn, Leave, Where
    <2>3. QED
      BY <1>9, <2>1, <2>2 DEF FinishRun, sweepVars
  <1>10. ASSUME NEW r \in Runners, LoseOutcome(r) PROVE TypeOK'
    BY <1>10 DEF LoseOutcome, NextTurn, Leave, tableVars, runnerVars, sweepVars, Where
  <1>11. ASSUME NEW r \in Runners, RunnerDies(r) PROVE TypeOK'
    BY <1>11 DEF RunnerDies, Leave, tableVars, runnerVars, sweepVars, Where
  <1>12. ASSUME NEW s \in Sweepers, SelectStalled(s) PROVE TypeOK'
    BY <1>12 DEF SelectStalled, UnderCap, tableVars, runnerVars, sweepVars, Status, StartedAt, Terminal
  <1>13. ASSUME NEW s \in Sweepers, NEW t \in Tasks, RequeueRow(s, t) PROVE TypeOK'
    BY <1>13 DEF RequeueRow, RequeueStalled, tableVars, runnerVars, sweepVars, Status, StartedAt, Terminal
  <1>14. ASSUME NEW s \in Sweepers, NEW t \in Tasks, FailRow(s, t) PROVE TypeOK'
    BY <1>14 DEF FailRow, FailStalled, tableVars, runnerVars, sweepVars, Status, StartedAt, Terminal
  <1>15. ASSUME NEW s \in Sweepers, NEW t \in Tasks, SkipRow(s, t) PROVE TypeOK'
    BY <1>15 DEF SkipRow, tableVars, runnerVars, sweepVars
  <1>16. ASSUME NEW s \in Sweepers, SweepDies(s) PROVE TypeOK'
    BY <1>16 DEF SweepDies, tableVars, runnerVars, sweepVars
  <1>17. ASSUME NEW t \in Tasks, NEW b \in Agents, MoveToBackup(t, b) PROVE TypeOK'
    BY <1>17 DEF MoveToBackup, ReassignTask, tableVars, runnerVars, sweepVars
  <1>18. ASSUME NEW t \in Tasks, TimePasses(t) PROVE TypeOK'
    BY <1>18 DEF TimePasses, StallWindowPasses, tableVars, runnerVars, sweepVars, Status, StartedAt, Terminal
  <1>19. CASE UNCHANGED vars
    BY <1>19 DEF vars, tableVars, runnerVars, sweepVars
  <1>20. QED
    BY <1>1, <1>2, <1>3, <1>4, <1>5, <1>6, <1>7, <1>8, <1>9,
       <1>10, <1>11, <1>12, <1>13, <1>14, <1>15, <1>16, <1>17, <1>18, <1>19
       DEF Next, RunnerStep, SweepStep, LifecycleStep

-----------------------------------------------------------------------------
(* Which steps touch what.                                                 *)

(* The steps that write the columns and the history the counting is about. *)
LEMMA CountingSteps ==
  ASSUME [Next]_vars
  PROVE  \/ UNCHANGED <<status, retry_count, claims>>
         \/ \E r \in Runners, t \in Tasks : CreateAndRunInline(r, t) \/ ClaimAndRun(r, t)
         \/ \E r \in Runners, s \in Terminal : FinishRun(r, s)
         \/ \E s \in Sweepers, t \in Tasks : RequeueRow(s, t) \/ FailRow(s, t)
  <1> USE DEF tableVars
  <1>1. CASE \E r \in Runners : RunnerStep(r)
    BY <1>1 DEF RunnerStep, BeginAssign, BeginRuntimeDrain, BeginAdminDrain, Begin,
       EndDrain, LoseOutcome, RunnerDies
  <1>2. CASE \E s \in Sweepers : SweepStep(s)
    BY <1>2 DEF SweepStep, SelectStalled, SweepDies, SkipRow
  <1>3. CASE \E a \in Agents : LifecycleStep(a)
    BY <1>3 DEF LifecycleStep, Activate, SetAgentState
  <1>4. CASE \E t \in Tasks, b \in Agents : MoveToBackup(t, b)
    BY <1>4 DEF MoveToBackup, ReassignTask
  <1>5. CASE \E t \in Tasks : TimePasses(t)
    BY <1>5 DEF TimePasses, StallWindowPasses
  <1>6. CASE UNCHANGED vars
    BY <1>6 DEF vars
  <1>7. QED
    BY <1>1, <1>2, <1>3, <1>4, <1>5, <1>6 DEF Next

(* The steps that write what the sweeps hold or the requeue count.         *)
LEMMA RequeueSteps ==
  ASSUME [Next]_vars
  PROVE  \/ UNCHANGED <<retry_count, toRequeue>>
         \/ \E s \in Sweepers : SelectStalled(s) \/ SweepDies(s)
         \/ \E s \in Sweepers, t \in Tasks : RequeueRow(s, t) \/ SkipRow(s, t)
  <1> USE DEF tableVars, sweepVars
  <1>1. CASE \E r \in Runners : RunnerStep(r)
    BY <1>1 DEF RunnerStep, BeginAssign, BeginRuntimeDrain, BeginAdminDrain, Begin,
       EndDrain, LoseOutcome, RunnerDies, CreateAndRunInline, InsertTask, ClaimAndRun,
       ClaimNextQueuedTask, FinishRun, CompleteTask
  <1>2. CASE \E s \in Sweepers : SweepStep(s)
    BY <1>2 DEF SweepStep, FailRow, FailStalled
  <1>3. CASE \E a \in Agents : LifecycleStep(a)
    BY <1>3 DEF LifecycleStep, Activate, SetAgentState
  <1>4. CASE \E t \in Tasks, b \in Agents : MoveToBackup(t, b)
    BY <1>4 DEF MoveToBackup, ReassignTask
  <1>5. CASE \E t \in Tasks : TimePasses(t)
    BY <1>5 DEF TimePasses, StallWindowPasses
  <1>6. CASE UNCHANGED vars
    BY <1>6 DEF vars
  <1>7. QED
    BY <1>1, <1>2, <1>3, <1>4, <1>5, <1>6 DEF Next

-----------------------------------------------------------------------------
(* Claims against requeues.                                                *)

LEMMA ClaimsStep ==
  ASSUME TypeOK, ClaimsAccounted, RunnersSound, [Next]_vars
  PROVE  ClaimsAccounted'
  <1> SUFFICES ASSUME NEW u \in Tasks
               PROVE  claims'[u] <= retry_count'[u] +
                        (IF status'[u] \in {"absent", "queued"} THEN 0 ELSE 1)
    BY DEF ClaimsAccounted
  <1>0. /\ claims[u] \in Nat /\ retry_count[u] \in Nat
        /\ claims[u] <= retry_count[u] +
             (IF status[u] \in {"absent", "queued"} THEN 0 ELSE 1)
    BY DEF TypeOK, TableTypeOK, ClaimsAccounted
  <1>1. CASE UNCHANGED <<status, retry_count, claims>>
    BY <1>0, <1>1
  <1>2. ASSUME NEW r \in Runners, NEW t \in Tasks, CreateAndRunInline(r, t)
        PROVE  claims'[u] <= retry_count'[u] +
                 (IF status'[u] \in {"absent", "queued"} THEN 0 ELSE 1)
    BY <1>0, <1>2 DEF CreateAndRunInline, InsertTask, TypeOK, TableTypeOK
  <1>3. ASSUME NEW r \in Runners, NEW t \in Tasks, ClaimAndRun(r, t)
        PROVE  claims'[u] <= retry_count'[u] +
                 (IF status'[u] \in {"absent", "queued"} THEN 0 ELSE 1)
    BY <1>0, <1>3 DEF ClaimAndRun, ClaimNextQueuedTask, QueuedFor, TypeOK, TableTypeOK
  <1>4. ASSUME NEW r \in Runners, NEW s \in Terminal, FinishRun(r, s)
        PROVE  claims'[u] <= retry_count'[u] +
                 (IF status'[u] \in {"absent", "queued"} THEN 0 ELSE 1)
    BY <1>0, <1>4 DEF FinishRun, CompleteTask, TypeOK, TableTypeOK, Terminal
  <1>5. ASSUME NEW s \in Sweepers, NEW t \in Tasks, RequeueRow(s, t)
        PROVE  claims'[u] <= retry_count'[u] +
                 (IF status'[u] \in {"absent", "queued"} THEN 0 ELSE 1)
    BY <1>0, <1>5 DEF RequeueRow, RequeueStalled, tableVars, TypeOK, TableTypeOK
  <1>6. ASSUME NEW s \in Sweepers, NEW t \in Tasks, FailRow(s, t)
        PROVE  claims'[u] <= retry_count'[u] +
                 (IF status'[u] \in {"absent", "queued"} THEN 0 ELSE 1)
    BY <1>0, <1>6 DEF FailRow, FailStalled, tableVars, TypeOK, TableTypeOK
  <1>7. QED
    BY <1>1, <1>2, <1>3, <1>4, <1>5, <1>6, CountingSteps

-----------------------------------------------------------------------------
(* Requeues against the cap.                                               *)

LEMMA PendingFinite ==
  ASSUME NEW t \in Tasks
  PROVE  /\ IsFiniteSet(Pending(t))
         /\ Cardinality(Pending(t)) \in Nat
         /\ Cardinality(Pending(t)) <= Cardinality(Sweepers)
         /\ Cardinality(Sweepers) \in Nat
  BY RuntimeAssumption, FS_Subset, FS_CardinalityType, Pending(t) \subseteq Sweepers DEF Pending

LEMMA PendingFinitePrime ==
  ASSUME NEW t \in Tasks
  PROVE  /\ IsFiniteSet(Pending(t)')
         /\ Cardinality(Pending(t)') \in Nat
         /\ Cardinality(Pending(t)') <= Cardinality(Sweepers)
  BY RuntimeAssumption, FS_Subset, FS_CardinalityType, Pending(t)' \subseteq Sweepers DEF Pending

LEMMA RequeuesStep ==
  ASSUME TypeOK, RequeuesAccounted, [Next]_vars
  PROVE  RequeuesAccounted'
  <1> SUFFICES ASSUME NEW u \in Tasks
               PROVE  retry_count'[u] + Cardinality(Pending(u)')
                        < RetryCap + Cardinality(Sweepers)
    BY DEF RequeuesAccounted
  <1> DEFINE Bound == RetryCap + Cardinality(Sweepers)
  <1>0. /\ retry_count[u] \in Nat
        /\ retry_count[u] + Cardinality(Pending(u)) < Bound
        /\ RetryCap \in Nat
    BY RuntimeAssumption DEF TypeOK, TableTypeOK, RequeuesAccounted
  <1>a. /\ IsFiniteSet(Pending(u)) /\ Cardinality(Pending(u)) \in Nat
        /\ Cardinality(Pending(u)') \in Nat
        /\ Cardinality(Pending(u)') <= Cardinality(Sweepers)
        /\ Cardinality(Sweepers) \in Nat
    BY PendingFinite, PendingFinitePrime
  (* Fewer or equally many sweeps hold the row, and it was not requeued.   *)
  <1>b. ASSUME Pending(u)' \subseteq Pending(u), retry_count'[u] = retry_count[u]
        PROVE  retry_count'[u] + Cardinality(Pending(u)') < Bound
    <2>1. Cardinality(Pending(u)') <= Cardinality(Pending(u))
      BY <1>a, <1>b, FS_Subset
    <2>2. QED
      BY <1>0, <1>a, <1>b, <2>1
  <1>1. CASE UNCHANGED <<retry_count, toRequeue>>
    <2>1. Pending(u)' \subseteq Pending(u)
      BY <1>1 DEF Pending
    <2>2. QED
      BY <1>1, <1>b, <2>1
  <1>2. ASSUME NEW s \in Sweepers, SelectStalled(s)
        PROVE  retry_count'[u] + Cardinality(Pending(u)') < Bound
    <2>1. retry_count' = retry_count
      BY <1>2 DEF SelectStalled, UnderCap, tableVars
    <2>2. CASE u \in toRequeue'[s]
      <3>1. retry_count[u] < RetryCap
        BY <1>2, <2>2 DEF SelectStalled, UnderCap, TypeOK
      <3>2. QED
        BY <1>0, <1>a, <2>1, <3>1
    <2>3. CASE u \notin toRequeue'[s]
      <3>1. Pending(u)' \subseteq Pending(u)
        BY <1>2, <2>3 DEF Pending, SelectStalled, UnderCap, TypeOK
      <3>2. QED
        BY <1>b, <2>1, <3>1
    <2>4. QED
      BY <2>2, <2>3
  <1>3. ASSUME NEW s \in Sweepers, SweepDies(s)
        PROVE  retry_count'[u] + Cardinality(Pending(u)') < Bound
    <2>1. Pending(u)' \subseteq Pending(u) /\ retry_count'[u] = retry_count[u]
      BY <1>3 DEF Pending, SweepDies, TypeOK, tableVars
    <2>2. QED
      BY <1>b, <2>1
  <1>4. ASSUME NEW s \in Sweepers, NEW t \in Tasks, SkipRow(s, t)
        PROVE  retry_count'[u] + Cardinality(Pending(u)') < Bound
    <2>1. Pending(u)' \subseteq Pending(u) /\ retry_count'[u] = retry_count[u]
      BY <1>4 DEF Pending, SkipRow, TypeOK, tableVars
    <2>2. QED
      BY <1>b, <2>1
  (* A requeue moves one from what is pending to what is counted.          *)
  <1>5. ASSUME NEW s \in Sweepers, NEW t \in Tasks, RequeueRow(s, t)
        PROVE  retry_count'[u] + Cardinality(Pending(u)') < Bound
    <2>1. toRequeue' = [toRequeue EXCEPT ![s] = @ \ {t}] /\ t \in toRequeue[s]
      BY <1>5 DEF RequeueRow
    <2>2. CASE u # t
      <3>1. Pending(u)' \subseteq Pending(u)
        BY <2>1, <2>2 DEF Pending, TypeOK
      <3>2. retry_count'[u] = retry_count[u]
        BY <1>5, <2>2 DEF RequeueRow, RequeueStalled, tableVars, TypeOK, TableTypeOK
      <3>3. QED
        BY <1>b, <3>1, <3>2
    <2>3. CASE u = t
      <3>1. Pending(u)' = Pending(u) \ {s} /\ s \in Pending(u)
        BY <2>1, <2>3 DEF Pending, TypeOK
      <3>2. Cardinality(Pending(u)') = Cardinality(Pending(u)) - 1
        BY <1>a, <3>1, FS_RemoveElement
      <3>3. retry_count'[u] <= retry_count[u] + 1 /\ retry_count'[u] \in Nat
        BY <1>5, <2>3, <1>0 DEF RequeueRow, RequeueStalled, tableVars, TypeOK, TableTypeOK
      <3>4. QED
        BY <1>0, <1>a, <3>2, <3>3
    <2>4. QED
      BY <2>2, <2>3
  <1>6. QED
    BY <1>1, <1>2, <1>3, <1>4, <1>5, RequeueSteps

-----------------------------------------------------------------------------
(* Handlers.                                                               *)

(* Sweeps, lifecycle changes, moves and time leave the handlers alone, and *)
(* a row they make 'running' or move while running is none.                *)
LEMMA HandlerSteps ==
  ASSUME [Next]_vars
  PROVE  \/ \E r \in Runners : RunnerStep(r)
         \/ /\ UNCHANGED <<runnerVars, claims>>
            /\ \A t \in Tasks :
                 /\ TypeOK /\ status'[t] = "absent" => status[t] = "absent"
                 /\ TypeOK /\ status'[t] = "running" =>
                      status[t] = "running" /\ agent_id'[t] = agent_id[t]
  <1> USE DEF tableVars
  <1>1. CASE \E s \in Sweepers : SweepStep(s)
    BY <1>1 DEF SweepStep, SelectStalled, SweepDies, SkipRow, RequeueRow, RequeueStalled,
       FailRow, FailStalled, TypeOK, TableTypeOK
  <1>2. CASE \E a \in Agents : LifecycleStep(a)
    BY <1>2 DEF LifecycleStep, Activate, SetAgentState
  <1>3. CASE \E t \in Tasks, b \in Agents : MoveToBackup(t, b)
    BY <1>3 DEF MoveToBackup, ReassignTask, TypeOK, TableTypeOK
  <1>4. CASE \E t \in Tasks : TimePasses(t)
    BY <1>4 DEF TimePasses, StallWindowPasses
  <1>5. CASE UNCHANGED vars
    BY <1>5 DEF vars
  <1>6. QED
    BY <1>1, <1>2, <1>3, <1>4, <1>5 DEF Next

LEMMA RunnersStep ==
  ASSUME TypeOK, RunnersSound, [Next]_vars
  PROVE  RunnersSound'
  <1> SUFFICES ASSUME NEW q \in Runners
               PROVE  /\ pc'[q] # "idle" => acting'[q] \in Agents
                      /\ pc'[q] = "executing" =>
                           /\ doing'[q] \in Tasks
                           /\ status'[doing'[q]] # "absent"
                           /\ attempt'[q] <= claims'[doing'[q]]
    BY DEF RunnersSound
  <1> DEFINE Sound == /\ pc'[q] # "idle" => acting'[q] \in Agents
                      /\ pc'[q] = "executing" =>
                           /\ doing'[q] \in Tasks
                           /\ status'[doing'[q]] # "absent"
                           /\ attempt'[q] <= claims'[doing'[q]]
  <1>0. /\ pc[q] # "idle" => acting[q] \in Agents
        /\ pc[q] = "executing" => /\ doing[q] \in Tasks
                                  /\ status[doing[q]] # "absent"
                                  /\ attempt[q] <= claims[doing[q]]
    BY DEF RunnersSound
  <1>1. ASSUME NEW r \in Runners, NEW a \in Agents, BeginAssign(r, a) PROVE Sound
    BY <1>0, <1>1 DEF BeginAssign, Begin, tableVars,
       TypeOK, TableTypeOK, RunnersSound
  <1>2. ASSUME NEW r \in Runners, NEW a \in Agents, BeginRuntimeDrain(r, a) PROVE Sound
    BY <1>0, <1>2 DEF BeginRuntimeDrain, Begin, tableVars,
       TypeOK, TableTypeOK, RunnersSound
  <1>3. ASSUME NEW r \in Runners, NEW a \in Agents, BeginAdminDrain(r, a) PROVE Sound
    BY <1>0, <1>3 DEF BeginAdminDrain, Begin, tableVars,
       TypeOK, TableTypeOK, RunnersSound
  <1>4. ASSUME NEW r \in Runners, NEW t \in Tasks, CreateAndRunInline(r, t) PROVE Sound
    BY <1>0, <1>4 DEF CreateAndRunInline, InsertTask, tableVars,
       TypeOK, TableTypeOK, RunnersSound
  <1>5. ASSUME NEW r \in Runners, NEW t \in Tasks, ClaimAndRun(r, t) PROVE Sound
    BY <1>0, <1>5 DEF ClaimAndRun, ClaimNextQueuedTask, QueuedFor, tableVars,
       TypeOK, TableTypeOK, RunnersSound
  <1>6. ASSUME NEW r \in Runners, EndDrain(r) PROVE Sound
    BY <1>0, <1>6 DEF EndDrain, Leave, tableVars,
       TypeOK, TableTypeOK, RunnersSound
  <1>7. ASSUME NEW r \in Runners, NEW s \in Terminal, FinishRun(r, s) PROVE Sound
    BY <1>0, <1>7 DEF FinishRun, NextTurn, Leave, CompleteTask, Terminal, tableVars,
       TypeOK, TableTypeOK, RunnersSound
  <1>8. ASSUME NEW r \in Runners, LoseOutcome(r) PROVE Sound
    BY <1>0, <1>8 DEF LoseOutcome, NextTurn, Leave, tableVars,
       TypeOK, TableTypeOK, RunnersSound
  <1>9. ASSUME NEW r \in Runners, RunnerDies(r) PROVE Sound
    BY <1>0, <1>9 DEF RunnerDies, Leave, tableVars,
       TypeOK, TableTypeOK, RunnersSound
  <1>10. CASE ~ \E r \in Runners : RunnerStep(r)
    BY <1>0, <1>10, HandlerSteps DEF runnerVars, TypeOK
  <1>11. QED
    BY <1>1, <1>2, <1>3, <1>4, <1>5, <1>6, <1>7, <1>8, <1>9, <1>10 DEF RunnerStep

LEMMA AttemptsStep ==
  ASSUME TypeOK, RunnersSound, AttemptsDistinct, [Next]_vars
  PROVE  AttemptsDistinct'
  <1> SUFFICES ASSUME NEW u \in Tasks, NEW p \in Runners, NEW q \in Runners,
                      Drains(p, u)', Drains(q, u)', p # q
               PROVE  attempt'[p] # attempt'[q]
    BY DEF AttemptsDistinct
  <1>0. Drains(p, u) /\ Drains(q, u) => attempt[p] # attempt[q]
    BY DEF AttemptsDistinct
  <1> USE DEF Drains, Runs
  <1>1. ASSUME NEW r \in Runners, NEW a \in Agents, BeginAssign(r, a) PROVE attempt'[p] # attempt'[q]
    BY <1>0, <1>1 DEF BeginAssign, Begin, TypeOK, RunnersSound
  <1>2. ASSUME NEW r \in Runners, NEW a \in Agents, BeginRuntimeDrain(r, a) PROVE attempt'[p] # attempt'[q]
    BY <1>0, <1>2 DEF BeginRuntimeDrain, Begin, TypeOK, RunnersSound
  <1>3. ASSUME NEW r \in Runners, NEW a \in Agents, BeginAdminDrain(r, a) PROVE attempt'[p] # attempt'[q]
    BY <1>0, <1>3 DEF BeginAdminDrain, Begin, TypeOK, RunnersSound
  <1>4. ASSUME NEW r \in Runners, NEW t \in Tasks, CreateAndRunInline(r, t) PROVE attempt'[p] # attempt'[q]
    BY <1>0, <1>4 DEF CreateAndRunInline, InsertTask, TypeOK, RunnersSound
  <1>5. ASSUME NEW r \in Runners, NEW t \in Tasks, ClaimAndRun(r, t) PROVE attempt'[p] # attempt'[q]
    BY <1>0, <1>5 DEF ClaimAndRun, ClaimNextQueuedTask, QueuedFor, TypeOK, RunnersSound
  <1>6. ASSUME NEW r \in Runners, EndDrain(r) PROVE attempt'[p] # attempt'[q]
    BY <1>0, <1>6 DEF EndDrain, Leave, TypeOK, RunnersSound
  <1>7. ASSUME NEW r \in Runners, NEW s \in Terminal, FinishRun(r, s) PROVE attempt'[p] # attempt'[q]
    BY <1>0, <1>7 DEF FinishRun, NextTurn, Leave, CompleteTask, Terminal, TypeOK, RunnersSound
  <1>8. ASSUME NEW r \in Runners, LoseOutcome(r) PROVE attempt'[p] # attempt'[q]
    BY <1>0, <1>8 DEF LoseOutcome, NextTurn, Leave, TypeOK, RunnersSound
  <1>9. ASSUME NEW r \in Runners, RunnerDies(r) PROVE attempt'[p] # attempt'[q]
    BY <1>0, <1>9 DEF RunnerDies, Leave, TypeOK, RunnersSound
  <1>10. CASE ~ \E r \in Runners : RunnerStep(r)
    BY <1>0, <1>10, HandlerSteps DEF runnerVars
  <1>11. QED
    BY <1>1, <1>2, <1>3, <1>4, <1>5, <1>6, <1>7, <1>8, <1>9, <1>10 DEF RunnerStep

LEMMA IdentityStep ==
  ASSUME TypeOK, RunnersSound, RunIdentity, [Next]_vars
  PROVE  RunIdentity'
  <1> SUFFICES ASSUME NEW u \in Tasks, NEW q \in Runners,
                      Drains(q, u)', attempt'[q] = claims'[u], status'[u] = "running"
               PROVE  acting'[q] = agent_id'[u]
    BY DEF RunIdentity
  <1>0. Drains(q, u) /\ attempt[q] = claims[u] /\ status[u] = "running"
          => acting[q] = agent_id[u]
    BY DEF RunIdentity
  <1> USE DEF Drains, Runs
  <1>1. ASSUME NEW r \in Runners, NEW a \in Agents, BeginAssign(r, a) PROVE acting'[q] = agent_id'[u]
    BY <1>0, <1>1 DEF BeginAssign, Begin, tableVars,
       TypeOK, TableTypeOK, RunnersSound
  <1>2. ASSUME NEW r \in Runners, NEW a \in Agents, BeginRuntimeDrain(r, a) PROVE acting'[q] = agent_id'[u]
    BY <1>0, <1>2 DEF BeginRuntimeDrain, Begin, tableVars,
       TypeOK, TableTypeOK, RunnersSound
  <1>3. ASSUME NEW r \in Runners, NEW a \in Agents, BeginAdminDrain(r, a) PROVE acting'[q] = agent_id'[u]
    BY <1>0, <1>3 DEF BeginAdminDrain, Begin, tableVars,
       TypeOK, TableTypeOK, RunnersSound
  <1>4. ASSUME NEW r \in Runners, NEW t \in Tasks, CreateAndRunInline(r, t) PROVE acting'[q] = agent_id'[u]
    BY <1>0, <1>4 DEF CreateAndRunInline, InsertTask, tableVars,
       TypeOK, TableTypeOK, RunnersSound
  <1>5. ASSUME NEW r \in Runners, NEW t \in Tasks, ClaimAndRun(r, t) PROVE acting'[q] = agent_id'[u]
    BY <1>0, <1>5 DEF ClaimAndRun, ClaimNextQueuedTask, QueuedFor, tableVars,
       TypeOK, TableTypeOK, RunnersSound
  <1>6. ASSUME NEW r \in Runners, EndDrain(r) PROVE acting'[q] = agent_id'[u]
    BY <1>0, <1>6 DEF EndDrain, Leave, tableVars,
       TypeOK, TableTypeOK, RunnersSound
  <1>7. ASSUME NEW r \in Runners, NEW s \in Terminal, FinishRun(r, s) PROVE acting'[q] = agent_id'[u]
    BY <1>0, <1>7 DEF FinishRun, NextTurn, Leave, CompleteTask, Terminal, tableVars,
       TypeOK, TableTypeOK, RunnersSound
  <1>8. ASSUME NEW r \in Runners, LoseOutcome(r) PROVE acting'[q] = agent_id'[u]
    BY <1>0, <1>8 DEF LoseOutcome, NextTurn, Leave, tableVars,
       TypeOK, TableTypeOK, RunnersSound
  <1>9. ASSUME NEW r \in Runners, RunnerDies(r) PROVE acting'[q] = agent_id'[u]
    BY <1>0, <1>9 DEF RunnerDies, Leave, tableVars,
       TypeOK, TableTypeOK, RunnersSound
  <1>10. CASE ~ \E r \in Runners : RunnerStep(r)
    BY <1>0, <1>10, HandlerSteps DEF runnerVars
  <1>11. QED
    BY <1>1, <1>2, <1>3, <1>4, <1>5, <1>6, <1>7, <1>8, <1>9, <1>10 DEF RunnerStep

-----------------------------------------------------------------------------

LEMMA InitIInv == Init => IInv
  <1> SUFFICES ASSUME Init PROVE IInv
    OBVIOUS
  <1>1. TypeOK
    BY InitType
  <1>2. ClaimsAccounted
    BY DEF Init, TableInit, ClaimsAccounted
  <1>3. RequeuesAccounted
    <2> SUFFICES ASSUME NEW t \in Tasks
                 PROVE  retry_count[t] + Cardinality(Pending(t))
                          < RetryCap + Cardinality(Sweepers)
      BY DEF RequeuesAccounted
    <2>1. Pending(t) = {}
      BY DEF Init, Pending
    <2>2. Cardinality(Pending(t)) = 0 /\ retry_count[t] = 0
      BY <2>1, FS_EmptySet DEF Init, TableInit
    <2>3. Cardinality(Sweepers) \in Nat /\ Cardinality(Sweepers) # 0
      BY RuntimeAssumption, FS_CardinalityType, FS_EmptySet
    <2>4. QED
      BY <2>2, <2>3, RuntimeAssumption
  <1>4. RunnersSound /\ AttemptsDistinct /\ RunIdentity
    BY DEF Init, RunnersSound, AttemptsDistinct, RunIdentity, Drains, Runs
  <1>5. QED
    BY <1>1, <1>2, <1>3, <1>4 DEF IInv

LEMMA IInvStep == IInv /\ [Next]_vars => IInv'
  BY TypeStep, ClaimsStep, RequeuesStep, RunnersStep, AttemptsStep, IdentityStep DEF IInv

LEMMA Inductive == Spec => []IInv
  BY InitIInv, IInvStep, PTL DEF Spec

(* TypeOK of AgentTasks: the state stays well typed; in particular a drain *)
(* loop never claims beyond its bound (left stays a natural number).       *)
THEOREM TypeCorrect == Spec => []TypeOK
  BY InitType, TypeStep, PTL DEF Spec

(* However many sweeps overlap, a row is claimed at most RetryCap + their  *)
(* number times: the retry cap does end a task that keeps losing its run.  *)
THEOREM ClaimsAreBounded == Spec => []ClaimsBounded
  <1>1. IInv => ClaimsBounded
    <2> SUFFICES ASSUME IInv, NEW t \in Tasks
                 PROVE  claims[t] <= RetryCap + Cardinality(Sweepers)
      BY DEF ClaimsBounded
    <2>1. /\ claims[t] \in Nat /\ retry_count[t] \in Nat
          /\ claims[t] <= retry_count[t] + 1
      BY DEF IInv, TypeOK, TableTypeOK, ClaimsAccounted
    <2>2. retry_count[t] + Cardinality(Pending(t)) < RetryCap + Cardinality(Sweepers)
      BY DEF IInv, RequeuesAccounted
    <2>3. QED
      BY <2>1, <2>2, PendingFinite, RuntimeAssumption
  <1>2. QED
    BY <1>1, Inductive, PTL

(* Two drains execute one task at the same time only after the sweep took  *)
(* it from one of them.                                                    *)
THEOREM LeasesExclusive == Spec => []LeaseExclusive
  <1>1. IInv => LeaseExclusive
    <2> SUFFICES ASSUME IInv, NEW t \in Tasks, NEW p \in Runners, NEW q \in Runners,
                        Drains(p, t), Drains(q, t), p # q
                 PROVE  retry_count[t] > 0
      BY DEF LeaseExclusive
    <2>1. attempt[p] # attempt[q]
      BY DEF IInv, AttemptsDistinct
    <2>2. /\ attempt[p] \in Nat /\ attempt[p] > 0 /\ attempt[p] <= claims[t]
          /\ attempt[q] \in Nat /\ attempt[q] > 0 /\ attempt[q] <= claims[t]
      BY DEF IInv, RunnersSound, Drains, Runs, TypeOK
    <2>3. claims[t] <= retry_count[t] + 1 /\ claims[t] \in Nat /\ retry_count[t] \in Nat
      BY DEF IInv, TypeOK, TableTypeOK, ClaimsAccounted
    <2>4. QED
      BY <2>1, <2>2, <2>3
  <1>2. QED
    BY <1>1, Inductive, PTL

(* The latest run of a running row carries the identity the row names.     *)
THEOREM RunsAsNamed == Spec => []RunIdentity
  <1>1. IInv => RunIdentity
    BY DEF IInv
  <1>2. QED
    BY <1>1, Inductive, PTL

-----------------------------------------------------------------------------
(* The table under the handlers.                                           *)

(* Every step issues one statement of the table or none.                   *)
LEMMA StatementsOnly ==
  ASSUME TypeOK, RunnersSound, [Next]_vars
  PROVE  [TableNext]_tableVars
  <1> USE DEF TableNext
  <1>1. ASSUME NEW r \in Runners, RunnerStep(r) PROVE [TableNext]_tableVars
    <2>1. ASSUME NEW t \in Tasks, CreateAndRunInline(r, t) PROVE TableNext
      BY <2>1 DEF CreateAndRunInline, RunnersSound
    <2>2. ASSUME NEW t \in Tasks, ClaimAndRun(r, t) PROVE TableNext
      BY <2>2 DEF ClaimAndRun, RunnersSound
    <2>3. ASSUME NEW s \in Terminal, FinishRun(r, s) PROVE TableNext
      BY <2>3 DEF FinishRun, RunnersSound
    <2>4. QED
      BY <1>1, <2>1, <2>2, <2>3 DEF RunnerStep, BeginAssign, BeginRuntimeDrain,
         BeginAdminDrain, Begin, EndDrain, LoseOutcome, RunnerDies
  <1>2. ASSUME NEW s \in Sweepers, SweepStep(s) PROVE [TableNext]_tableVars
    BY <1>2, Zenon DEF SweepStep, SelectStalled, SweepDies, SkipRow, RequeueRow, FailRow
  <1>3. ASSUME NEW a \in Agents, LifecycleStep(a) PROVE UNCHANGED tableVars
    BY <1>3 DEF LifecycleStep, Activate, SetAgentState
  <1>4. ASSUME NEW t \in Tasks, NEW b \in Agents, MoveToBackup(t, b) PROVE TableNext
    BY <1>4 DEF MoveToBackup
  <1>5. ASSUME NEW t \in Tasks, TimePasses(t) PROVE TableNext
    BY <1>5 DEF TimePasses
  <1>6. CASE UNCHANGED vars
    BY <1>6 DEF vars
  <1>7. QED
    BY <1>1, <1>2, <1>3, <1>4, <1>5, <1>6 DEF Next

(* Handlers, sweeps and lifecycle use the table by its statements alone,   *)
(* with the rows and agents these are meant for.                           *)
THEOREM TasksUseTheTable == Spec => TableSpec
  <1>1. Init => TableInit
    BY DEF Init
  <1>2. IInv /\ [Next]_vars => [TableNext]_tableVars
    BY StatementsOnly DEF IInv
  <1>3. QED
    BY <1>1, <1>2, Inductive, PTL DEF Spec, TableSpec

(* No step reopens a finished task.                                        *)
THEOREM FinishedStaysFinished == Spec => TerminalIsFinal
  <1>1. [\A t \in Tasks : RowStep(t)]_tableVars =>
          [\A t \in Tasks : status[t] \in Terminal => status'[t] \in Terminal]_vars
    BY DEF RowStep, tableVars
  <1>2. QED
    BY <1>1, TasksUseTheTable, RowsLiveOnce, PTL DEF LifeOfARow, TerminalIsFinal

(* Whatever handlers and sweeps do to it, a running row carries the time   *)
(* of its claim: no dead run is invisible to the sweep.                    *)
THEOREM DeadRunsAreSeen == Spec => []RunningIsTimed
  BY TasksUseTheTable, SweepSeesEveryRun, PTL

(* A row is requeued at most RetryCap times, and once more for each sweep  *)
(* beyond the first that may overlap: with one sweep at a time, exactly as *)
(* RETRY_CAP says.                                                         *)
THEOREM RequeuesAreBounded ==
  Spec => [](\A t \in Tasks : retry_count[t] < RetryCap + Cardinality(Sweepers))
  <1>1. ASSUME IInv, NEW t \in Tasks
        PROVE  retry_count[t] < RetryCap + Cardinality(Sweepers)
    <2>1. retry_count[t] + Cardinality(Pending(t)) < RetryCap + Cardinality(Sweepers)
      BY <1>1 DEF IInv, RequeuesAccounted
    <2>2. retry_count[t] \in Nat
      BY <1>1 DEF IInv, TypeOK, TableTypeOK
    <2>3. QED
      BY <2>1, <2>2, PendingFinite, RuntimeAssumption
  <1>2. IInv => \A t \in Tasks : retry_count[t] < RetryCap + Cardinality(Sweepers)
    BY <1>1
  <1>3. QED
    BY <1>2, Inductive, PTL

-----------------------------------------------------------------------------
(* What a sweep takes.                                                     *)

(* What a sweep holds is still as the sweep read it, or finished meanwhile, *)
(* or another sweep has requeued it.                                       *)
Overtaken(t) == retry_count[t] > 0 /\ \E r, s \in Sweepers : r # s

HeldStalled ==
  \A s \in Sweepers : \A t \in toRequeue[s] :
    status[t] \in Terminal \/ Stalled(t) \/ Overtaken(t)

LEMMA HeldStalledStep ==
  ASSUME TypeOK, HeldStalled, [Next]_vars
  PROVE  HeldStalled'
  <1> SUFFICES ASSUME NEW x \in Sweepers, NEW u \in Tasks, u \in toRequeue'[x]
               PROVE  status'[u] \in Terminal \/ Stalled(u)' \/ Overtaken(u)'
    BY TypeStep DEF HeldStalled, TypeOK
  <1> DEFINE Held == status'[u] \in Terminal \/ Stalled(u)' \/ Overtaken(u)'
  <1>0. u \in toRequeue[x] => status[u] \in Terminal \/ Stalled(u) \/ Overtaken(u)
    BY DEF HeldStalled
  <1> USE DEF Stalled, Overtaken, Terminal, TypeOK, TableTypeOK, tableVars, sweepVars
  <1>1. CASE \E r \in Runners : RunnerStep(r)
    <2>0. toRequeue' = toRequeue
      BY <1>1 DEF RunnerStep, BeginAssign, BeginRuntimeDrain, BeginAdminDrain, Begin,
         EndDrain, LoseOutcome, RunnerDies, CreateAndRunInline, ClaimAndRun, FinishRun
    <2>1. CASE UNCHANGED <<status, started_at, retry_count>>
      BY <1>0, <2>0, <2>1
    <2>2. ASSUME NEW r \in Runners, NEW t \in Tasks, CreateAndRunInline(r, t) PROVE Held
      BY <1>0, <2>0, <2>2 DEF CreateAndRunInline, InsertTask
    <2>3. ASSUME NEW r \in Runners, NEW t \in Tasks, ClaimAndRun(r, t) PROVE Held
      BY <1>0, <2>0, <2>3 DEF ClaimAndRun, ClaimNextQueuedTask, QueuedFor
    <2>4. ASSUME NEW r \in Runners, NEW s \in Terminal, FinishRun(r, s) PROVE Held
      BY <1>0, <2>0, <2>4 DEF FinishRun, CompleteTask
    <2>5. QED
      BY <1>1, <2>1, <2>2, <2>3, <2>4 DEF RunnerStep, BeginAssign, BeginRuntimeDrain,
         BeginAdminDrain, Begin, EndDrain, LoseOutcome, RunnerDies
  <1>2. ASSUME NEW s \in Sweepers, SweepStep(s) PROVE Held
    <2>1. CASE SelectStalled(s)
      BY <1>0, <2>1 DEF SelectStalled, UnderCap
    <2>2. CASE SweepDies(s)
      BY <1>0, <2>2 DEF SweepDies
    <2>3. ASSUME NEW t \in Tasks, RequeueRow(s, t) PROVE Held
      <3>1. u \in toRequeue[x] /\ (u = t => x # s)
        BY <2>3 DEF RequeueRow
      <3>2. CASE u = t
        BY <1>0, <2>3, <3>1, <3>2 DEF RequeueRow, RequeueStalled
      <3>3. CASE u # t
        BY <1>0, <2>3, <3>1, <3>3 DEF RequeueRow, RequeueStalled
      <3>4. QED
        BY <3>2, <3>3
    <2>4. ASSUME NEW t \in Tasks, FailRow(s, t) PROVE Held
      BY <1>0, <2>4 DEF FailRow, FailStalled
    <2>5. ASSUME NEW t \in Tasks, SkipRow(s, t) PROVE Held
      BY <1>0, <2>5 DEF SkipRow
    <2>6. QED
      BY <1>2, <2>1, <2>2, <2>3, <2>4, <2>5 DEF SweepStep
  <1>3. CASE \E a \in Agents : LifecycleStep(a)
    BY <1>0, <1>3 DEF LifecycleStep, Activate, SetAgentState
  <1>4. CASE \E t \in Tasks, b \in Agents : MoveToBackup(t, b)
    BY <1>0, <1>4 DEF MoveToBackup, ReassignTask
  <1>5. CASE \E t \in Tasks : TimePasses(t)
    BY <1>0, <1>5 DEF TimePasses, StallWindowPasses
  <1>6. CASE UNCHANGED vars
    BY <1>0, <1>6 DEF vars
  <1>7. QED
    BY <1>1, <1>2, <1>3, <1>4, <1>5, <1>6 DEF Next

(* Only a row whose stall window has run out is taken from its runner; only *)
(* where sweeps overlap can a later run of a row be cut short.             *)
THEOREM ReclaimsOnlyStalled == Spec => OnlyStalledReclaimed
  <1>1. Init => HeldStalled
    BY DEF Init, HeldStalled
  <1>2. TypeOK /\ HeldStalled /\ [Next]_vars => HeldStalled'
    BY HeldStalledStep
  <1>3. TypeOK /\ HeldStalled /\ [Next]_vars =>
          [\A t \in Tasks : retry_count'[t] > retry_count[t] =>
             \/ started_at[t] = "stale"
             \/ retry_count[t] > 0 /\ \E r, s \in Sweepers : r # s]_vars
    <2> SUFFICES ASSUME TypeOK, HeldStalled, [Next]_vars, NEW u \in Tasks,
                        retry_count'[u] > retry_count[u]
                 PROVE  started_at[u] = "stale" \/ Overtaken(u)
      BY Zenon DEF Overtaken
    <2>0. retry_count[u] \in Nat
      BY DEF TypeOK, TableTypeOK
    <2>1. retry_count' # retry_count
      BY <2>0
    <2>2. PICK s \in Sweepers, t \in Tasks : RequeueRow(s, t)
      BY <2>1, RequeueSteps DEF SelectStalled, SweepDies, SkipRow, tableVars
    <2>3. u = t /\ status[t] = "running"
      BY <2>0, <2>1, <2>2 DEF RequeueRow, RequeueStalled, TypeOK, TableTypeOK, tableVars
    <2>4. QED
      BY <2>2, <2>3 DEF HeldStalled, RequeueRow, Stalled, Terminal
  <1>4. QED
    BY <1>1, <1>2, <1>3, TypeCorrect, PTL DEF Spec, OnlyStalledReclaimed
=============================================================================
