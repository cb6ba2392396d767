--------------------------- MODULE TaskTableProofs ---------------------------
(***************************************************************************)
(* What the guards of the statements alone guarantee of a row, whoever     *)
(* issues them and in whatever order.  AgentTasksProofs and                *)
(* AgentFailoverProofs show that their modules use the table so.           *)
(***************************************************************************)
EXTENDS TaskTable, TLAPS

(* The statements one by one, as every proof about a step splits them.     *)
LEMMA TableSteps ==
  ASSUME [TableNext]_tableVars
  PROVE  \/ UNCHANGED tableVars
         \/ \E t \in Tasks, a \in Agents : InsertTask(t, a)
         \/ \E t \in Tasks, a \in Agents : ClaimNextQueuedTask(t, a)
         \/ \E t \in Tasks, a \in Agents : ReassignTask(t, a)
         \/ \E t \in Tasks, s \in Terminal : status[t] # "absent" /\ CompleteTask(t, s)
         \/ \E t \in Tasks : RequeueStalled(t)
         \/ \E t \in Tasks : FailStalled(t)
         \/ \E t \in Tasks : StallWindowPasses(t)
  BY Zenon DEF TableNext

LEMMA TableInitTyped == TableInit => TableTypeOK
  BY DEF TableInit, TableTypeOK, Status, StartedAt

LEMMA TableStepTyped ==
  ASSUME TableTypeOK, [TableNext]_tableVars
  PROVE  TableTypeOK'
  <1> USE DEF TableTypeOK, Status, StartedAt, Terminal
  <1>1. CASE UNCHANGED tableVars
    BY <1>1 DEF tableVars
  <1>2. ASSUME NEW t \in Tasks, NEW a \in Agents, InsertTask(t, a) PROVE TableTypeOK'
    BY <1>2 DEF InsertTask
  <1>3. ASSUME NEW t \in Tasks, NEW a \in Agents, ClaimNextQueuedTask(t, a) PROVE TableTypeOK'
    BY <1>3 DEF ClaimNextQueuedTask
  <1>4. ASSUME NEW t \in Tasks, NEW a \in Agents, ReassignTask(t, a) PROVE TableTypeOK'
    BY <1>4 DEF ReassignTask, tableVars
  <1>5. ASSUME NEW t \in Tasks, NEW s \in Terminal, CompleteTask(t, s) PROVE TableTypeOK'
    BY <1>5 DEF CompleteTask
  <1>6. ASSUME NEW t \in Tasks, RequeueStalled(t) PROVE TableTypeOK'
    BY <1>6 DEF RequeueStalled, tableVars
  <1>7. ASSUME NEW t \in Tasks, FailStalled(t) PROVE TableTypeOK'
    BY <1>7 DEF FailStalled, tableVars
  <1>8. ASSUME NEW t \in Tasks, StallWindowPasses(t) PROVE TableTypeOK'
    BY <1>8 DEF StallWindowPasses
  <1>9. QED
    BY <1>1, <1>2, <1>3, <1>4, <1>5, <1>6, <1>7, <1>8, TableSteps

LEMMA TableTyped == TableSpec => []TableTypeOK
  BY TableInitTyped, TableStepTyped, PTL DEF TableSpec

-----------------------------------------------------------------------------
(* One row, one statement.                                                 *)

LEMMA StatementsKeepLife ==
  ASSUME TableTypeOK, [TableNext]_tableVars, NEW u \in Tasks
  PROVE  RowStep(u)
  <1> USE DEF TableTypeOK, RowStep, Terminal
  <1>1. CASE UNCHANGED tableVars
    BY <1>1 DEF tableVars
  <1>2. ASSUME NEW t \in Tasks, NEW a \in Agents, InsertTask(t, a) PROVE RowStep(u)
    BY <1>2 DEF InsertTask
  <1>3. ASSUME NEW t \in Tasks, NEW a \in Agents, ClaimNextQueuedTask(t, a) PROVE RowStep(u)
    BY <1>3 DEF ClaimNextQueuedTask, QueuedFor
  <1>4. ASSUME NEW t \in Tasks, NEW a \in Agents, ReassignTask(t, a) PROVE RowStep(u)
    BY <1>4 DEF ReassignTask, tableVars
  <1>5. ASSUME NEW t \in Tasks, NEW s \in Terminal, CompleteTask(t, s) PROVE RowStep(u)
    BY <1>5 DEF CompleteTask
  <1>6. ASSUME NEW t \in Tasks, RequeueStalled(t) PROVE RowStep(u)
    BY <1>6 DEF RequeueStalled, tableVars
  <1>7. ASSUME NEW t \in Tasks, FailStalled(t) PROVE RowStep(u)
    BY <1>7 DEF FailStalled, tableVars
  <1>8. ASSUME NEW t \in Tasks, StallWindowPasses(t) PROVE RowStep(u)
    BY <1>8 DEF StallWindowPasses
  <1>9. QED
    BY <1>1, <1>2, <1>3, <1>4, <1>5, <1>6, <1>7, <1>8, TableSteps

(* Whoever uses the table: a row never goes away or opens again, comes     *)
(* back to the queue only from a run and as a counted retry, and changes   *)
(* hands only while it waits (the WHERE clauses of tasks/store.ts and      *)
(* failover/store.ts).                                                     *)
THEOREM RowsLiveOnce == TableSpec => LifeOfARow
  <1>1. TableTypeOK /\ [TableNext]_tableVars => \A t \in Tasks : RowStep(t)
    BY StatementsKeepLife
  <1>2. QED
    BY <1>1, TableTyped, PTL DEF TableSpec, LifeOfARow

-----------------------------------------------------------------------------
(* The time of the claim.                                                  *)

(* A completion writes no time, so a row that is not there has none either:*)
(* without this the INSERT could bring a time along.                       *)
TimedInv ==
  RunningIsTimed /\ \A t \in Tasks : status[t] = "absent" => started_at[t] = "null"

LEMMA TimedStep ==
  ASSUME TableTypeOK, TimedInv, [TableNext]_tableVars
  PROVE  TimedInv'
  <1> SUFFICES ASSUME NEW u \in Tasks
               PROVE  /\ status'[u] = "running" => started_at'[u] # "null"
                      /\ status'[u] \in {"queued", "absent"} => started_at'[u] = "null"
    BY DEF TimedInv, RunningIsTimed
  <1> DEFINE Timed == /\ status'[u] = "running" => started_at'[u] # "null"
                      /\ status'[u] \in {"queued", "absent"} => started_at'[u] = "null"
  <1>0. /\ status[u] = "running" => started_at[u] # "null"
        /\ status[u] \in {"queued", "absent"} => started_at[u] = "null"
    BY DEF TimedInv, RunningIsTimed
  <1> USE DEF TableTypeOK, Terminal
  <1>1. CASE UNCHANGED tableVars
    BY <1>0, <1>1 DEF tableVars
  <1>2. ASSUME NEW t \in Tasks, NEW a \in Agents, InsertTask(t, a) PROVE Timed
    BY <1>0, <1>2 DEF InsertTask
  <1>3. ASSUME NEW t \in Tasks, NEW a \in Agents, ClaimNextQueuedTask(t, a) PROVE Timed
    BY <1>0, <1>3 DEF ClaimNextQueuedTask
  <1>4. ASSUME NEW t \in Tasks, NEW a \in Agents, ReassignTask(t, a) PROVE Timed
    BY <1>0, <1>4 DEF ReassignTask, tableVars
  <1>5. ASSUME NEW t \in Tasks, NEW s \in Terminal, CompleteTask(t, s) PROVE Timed
    BY <1>0, <1>5 DEF CompleteTask
  <1>6. ASSUME NEW t \in Tasks, RequeueStalled(t) PROVE Timed
    BY <1>0, <1>6 DEF RequeueStalled, tableVars
  <1>7. ASSUME NEW t \in Tasks, FailStalled(t) PROVE Timed
    BY <1>0, <1>7 DEF FailStalled, tableVars
  <1>8. ASSUME NEW t \in Tasks, StallWindowPasses(t) PROVE Timed
    BY <1>0, <1>8 DEF StallWindowPasses
  <1>9. QED
    BY <1>1, <1>2, <1>3, <1>4, <1>5, <1>6, <1>7, <1>8, TableSteps

(* No statement leaves a running row without the time of its claim, so the *)
(* sweep's "started_at IS NOT NULL" passes over none of them.              *)
THEOREM SweepSeesEveryRun == TableSpec => []RunningIsTimed
  <1>1. TableInit => TimedInv
    BY DEF TableInit, TimedInv, RunningIsTimed
  <1>2. TableTypeOK /\ TimedInv /\ [TableNext]_tableVars => TimedInv'
    BY TimedStep
  <1>3. TimedInv => RunningIsTimed
    BY DEF TimedInv
  <1>4. QED
    BY <1>1, <1>2, <1>3, TableTyped, PTL DEF TableSpec

=============================================================================
