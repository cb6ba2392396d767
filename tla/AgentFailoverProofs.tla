------------------------ MODULE AgentFailoverProofs ------------------------
(***************************************************************************)
(* What holds of AgentFailover for any number of agents, tasks, connectors, *)
(* administrators and overlapping sweeps, with reads that fail at any time: *)
(* types, a running row keeps its agent, two agents come to back each other *)
(* up and a backup comes to lack a connector by named causes only, what a  *)
(* sweep goes by is outdated by people only, and all it does to a row is   *)
(* what the table allows.  One theorem assumes that sweeps do not overlap: *)
(* a row then moves only to the backup read for the agent it leaves.       *)
(***************************************************************************)
EXTENDS AgentFailover, TaskTableProofs

(* The type invariant by the parts that change together.                   *)
RosterTyped ==
  /\ agent_state \in [Agents -> AgentState]
  /\ backup      \in [Agents -> Agents \cup {NoAgent}]
  /\ bound       \in [Agents -> SUBSET Connectors]
  /\ edits       \in 0 .. MaxEdits

RequestsTyped ==
  assigning \subseteq Agents /\ designating \in [Admins -> Pairs \cup {NoPair}]

SweepTyped ==
  /\ phase     \in [Sweepers -> Phases]
  /\ primaries \in [Sweepers -> SUBSET (Agents \X Agents)]
  /\ current   \in [Sweepers -> (Agents \X Agents) \cup {NoPair}]
  /\ moving    \in [Sweepers -> SUBSET Tasks]

MisreadTyped == misread \subseteq Admins \cup Sweepers

LEMMA TypesByPart ==
  TypeOK <=> TableTypeOK /\ RosterTyped /\ RequestsTyped /\ SweepTyped /\ MisreadTyped
  BY DEF TypeOK, RosterTyped, RequestsTyped, SweepTyped, MisreadTyped

-----------------------------------------------------------------------------
(* What the operations leave alone.                                        *)

(* Statements of the queue: they write the table and never a sweep.        *)
LEMMA QueueKeeps ==
  ASSUME QueueStep
  PROVE  /\ UNCHANGED <<rosterVars, designating, sweepVars>>
         /\ \/ UNCHANGED tableVars /\ \E a \in Agents : assigning' = assigning \cup {a}
            \/ \E t \in Tasks, a \in Agents :
                 InsertTask(t, a) /\ assigning' = assigning \ {a}
            \/ \E t \in Tasks, a \in Agents : ClaimNextQueuedTask(t, a) /\ UNCHANGED assigning
            \/ \E t \in Tasks, s \in Terminal :
                 /\ status[t] \in {"queued", "running"}
                 /\ CompleteTask(t, s) /\ UNCHANGED assigning
            \/ \E t \in Tasks :
                 (RequeueStalled(t) \/ FailStalled(t)) /\ UNCHANGED assigning
  BY Zenon DEF QueueStep, BeginAssign, CreateTask, ClaimTask, FinishTask, ReclaimTask

(* Requests about the roster: neither the table nor a sweep.               *)
LEMMA RosterKeeps ==
  ASSUME RosterStep
  PROVE  UNCHANGED <<tableVars, assigning, sweepVars>>
  BY Zenon DEF RosterStep, SetAgentState, BindConnection, UnbindConnection, CheckBackup,
               WriteBackup

(* A comparison of two scopes, whatever the reads answered.                *)
Compares(s) ==
  \E ofPrimary, ofBackup \in SUBSET Connectors : CompareScopes(s, ofPrimary, ofBackup)

(* A sweep writes the table by its UPDATE alone.                           *)
LEMMA SweepKeeps ==
  ASSUME NEW s \in Sweepers, SweepStep(s)
  PROVE  /\ UNCHANGED <<rosterVars, assigning, designating>>
         /\ UNCHANGED tableVars \/ \E t \in Tasks : MoveRow(s, t)
  BY Zenon DEF SweepStep, SelectPrimaries, ReadQueued, ReadBackupState, CompareScopes,
               MoveRow, MoveRowFails, AllMoved, SweepDone, SweepDies, EndOfSweep

-----------------------------------------------------------------------------
(* Types.                                                                  *)

LEMMA InitTypes == Init => TypeOK
  BY TableAssumption, FailoverAssumption
     DEF Init, TableInit, TypeOK, TableTypeOK, Status, StartedAt, AgentState, Pairs, Phases

LEMMA TableTypes ==
  ASSUME TypeOK, [Next]_vars
  PROVE  TableTypeOK'
  <1> USE DEF TableTypeOK, tableVars, Status, StartedAt, Terminal
  <1>0. TableTypeOK
    BY DEF TypeOK
  <1>1. UNCHANGED tableVars => TableTypeOK'
    BY <1>0
  <1>2. ASSUME NEW t \in Tasks, NEW a \in Agents, InsertTask(t, a) PROVE TableTypeOK'
    BY <1>0, <1>2 DEF InsertTask
  <1>3. ASSUME NEW t \in Tasks, NEW a \in Agents, ClaimNextQueuedTask(t, a) PROVE TableTypeOK'
    BY <1>0, <1>3 DEF ClaimNextQueuedTask
  <1>4. ASSUME NEW t \in Tasks, NEW s \in Terminal, CompleteTask(t, s) PROVE TableTypeOK'
    BY <1>0, <1>4 DEF CompleteTask
  <1>5. ASSUME NEW t \in Tasks, RequeueStalled(t) \/ FailStalled(t) PROVE TableTypeOK'
    BY <1>0, <1>5 DEF RequeueStalled, FailStalled
  <1>6. ASSUME NEW s \in Sweepers, NEW t \in Tasks, MoveRow(s, t) PROVE TableTypeOK'
    <2>1. current[s][2] \in Agents \cup {NoAgent}
      BY DEF TypeOK, NoPair
    <2>2. QED
      BY <1>0, <1>6, <2>1 DEF MoveRow, ReassignTask
  <1>7. UNCHANGED vars => UNCHANGED tableVars
    BY DEF vars
  <1>8. RosterStep => UNCHANGED tableVars
    BY RosterKeeps
  <1>9. QueueStep => TableTypeOK'
    BY <1>1, <1>2, <1>3, <1>4, <1>5, QueueKeeps
  <1>10. ASSUME NEW s \in Sweepers, SweepStep(s) PROVE TableTypeOK'
    BY <1>1, <1>6, <1>10, SweepKeeps
  <1>11. QED
    BY <1>1, <1>7, <1>8, <1>9, <1>10 DEF Next

LEMMA RosterTypes ==
  ASSUME TypeOK, [Next]_vars
  PROVE  RosterTyped' /\ RequestsTyped'
  <1>0. RosterTyped /\ RequestsTyped
    BY TypesByPart
  <1> USE FailoverAssumption, TableAssumption DEF RosterTyped, RequestsTyped, rosterVars
  <1>1. CASE UNCHANGED <<rosterVars, assigning, designating>>
    BY <1>0, <1>1
  <1>2. CASE QueueStep
    <2>1. UNCHANGED <<rosterVars, designating>> /\ assigning' \subseteq Agents
      BY <1>0, <1>2, QueueKeeps
    <2>2. QED
      BY <1>0, <2>1
  <1>3. ASSUME NEW a \in Agents, NEW s \in AgentState, SetAgentState(a, s)
        PROVE  RosterTyped' /\ RequestsTyped'
    BY <1>0, <1>3 DEF SetAgentState
  <1>4. ASSUME NEW a \in Agents, NEW c \in Connectors, BindConnection(a, c) \/ UnbindConnection(a, c)
        PROVE  RosterTyped' /\ RequestsTyped'
    BY <1>0, <1>4 DEF BindConnection, UnbindConnection, Edit
  <1>5. ASSUME NEW d \in Admins, NEW a \in Agents, NEW b \in Agents \cup {NoAgent},
               NEW x \in Agents \cup {NoAgent}, CheckBackup(d, a, b, x)
        PROVE  RosterTyped' /\ RequestsTyped'
    BY <1>0, <1>5 DEF CheckBackup, Edit, Pairs
  <1>6. ASSUME NEW d \in Admins, WriteBackup(d) PROVE RosterTyped' /\ RequestsTyped'
    <2>1. designating[d] \in Pairs
      BY <1>0, <1>6 DEF WriteBackup
    <2>2. designating[d][2] \in Agents \cup {NoAgent}
      BY <2>1 DEF Pairs
    <2>3. QED
      BY <1>0, <1>6, <2>2 DEF WriteBackup
  <1>7. UNCHANGED vars => UNCHANGED <<rosterVars, assigning, designating>>
    BY DEF vars
  <1>8. QED
    BY <1>1, <1>2, <1>3, <1>4, <1>5, <1>6, <1>7, SweepKeeps DEF Next, RosterStep

LEMMA SweepTypes ==
  ASSUME TypeOK, [Next]_vars
  PROVE  SweepTyped'
  <1>0. SweepTyped /\ TableTypeOK /\ RosterTyped
    BY TypesByPart
  <1> USE DEF SweepTyped, sweepVars, Phases
  <1>1. UNCHANGED sweepVars => SweepTyped'
    BY <1>0
  <1>2. ASSUME NEW s \in Sweepers, NextPrimary(s), primaries' \in [Sweepers -> SUBSET (Agents \X Agents)]
        PROVE  SweepTyped'
    BY <1>0, <1>2 DEF NextPrimary
  <1>3. ASSUME NEW s \in Sweepers, EndOfSweep(s) PROVE SweepTyped'
    BY <1>0, <1>3 DEF EndOfSweep
  <1>4. ASSUME NEW s \in Sweepers, SelectPrimaries(s) PROVE SweepTyped'
    <2>1. {<<p, backup[p]>> : p \in Failing} \subseteq Agents \X Agents
      BY <1>0 DEF Failing, RosterTyped
    <2>2. QED
      BY <1>0, <1>4, <2>1 DEF SelectPrimaries
  <1>5. ASSUME NEW s \in Sweepers, NEW pb \in primaries[s], ReadQueued(s, pb) PROVE SweepTyped'
    <2>1. pb \in Agents \X Agents
      BY <1>0
    <2>2. primaries' \in [Sweepers -> SUBSET (Agents \X Agents)]
      BY <1>0, <1>5 DEF ReadQueued
    <2>3. PICK rows \in {QueuedFor(pb[1])} \cup (IF ReadsMayFail THEN {{}} ELSE {}) :
            IF rows = {} THEN NextPrimary(s)
            ELSE /\ phase'   = [phase   EXCEPT ![s] = "backup"]
                 /\ current' = [current EXCEPT ![s] = pb]
                 /\ moving'  = [moving  EXCEPT ![s] = rows]
      BY <1>5, Zenon DEF ReadQueued
    <2>4. rows \subseteq Tasks
      BY <2>3 DEF QueuedFor
    <2>5. CASE rows = {}
      BY <1>2, <2>2, <2>3, <2>5
    <2>6. CASE rows # {}
      BY <1>0, <2>1, <2>2, <2>3, <2>4, <2>6
    <2>7. QED
      BY <2>5, <2>6
  <1>6. ASSUME NEW s \in Sweepers, ReadBackupState(s) \/ Compares(s) \/ AllMoved(s)
        PROVE  SweepTyped'
    <2>1. primaries' = primaries
      BY <1>6 DEF ReadBackupState, Compares, CompareScopes, AllMoved
    <2>2. \/ NextPrimary(s)
          \/ /\ UNCHANGED <<current, moving>>
             /\ \E x \in {"scope", "moving"} : phase' = [phase EXCEPT ![s] = x]
      BY <1>6, Zenon DEF ReadBackupState, Compares, CompareScopes, AllMoved
    <2>3. QED
      BY <1>0, <1>2, <2>1, <2>2
  <1>7. ASSUME NEW s \in Sweepers, NEW t \in Tasks, MoveRow(s, t) \/ MoveRowFails(s, t)
        PROVE  SweepTyped'
    BY <1>0, <1>7 DEF MoveRow, MoveRowFails
  <1>8. ASSUME NEW s \in Sweepers, SweepStep(s) PROVE SweepTyped'
    BY <1>3, <1>4, <1>5, <1>6, <1>7, <1>8 DEF SweepStep, Compares, SweepDone, SweepDies
  <1>9. QED
    BY <1>1, <1>8, RosterKeeps, QueueKeeps DEF Next, vars

LEMMA MisreadTypes ==
  ASSUME TypeOK, [Next]_vars
  PROVE  MisreadTyped'
  <1>0. MisreadTyped
    BY TypesByPart
  <1> USE DEF MisreadTyped
  <1>1. UNCHANGED vars \/ QueueStep => UNCHANGED misread
    BY Zenon DEF vars, QueueStep, BeginAssign, CreateTask, ClaimTask, FinishTask, ReclaimTask
  <1>2. RosterStep => UNCHANGED misread \/ \E d \in Admins : misread' \subseteq misread \cup {d}
    BY DEF RosterStep, SetAgentState, BindConnection, UnbindConnection, CheckBackup, WriteBackup
  <1>3. ASSUME NEW s \in Sweepers, SweepStep(s)
        PROVE  misread' \subseteq misread \cup {s}
    BY <1>3 DEF SweepStep, SelectPrimaries, ReadQueued, ReadBackupState, CompareScopes, MoveRow,
       MoveRowFails, AllMoved, NextPrimary, SweepDone, SweepDies, EndOfSweep
  <1>4. QED
    BY <1>0, <1>1, <1>2, <1>3 DEF Next

LEMMA StepTypes == TypeOK /\ [Next]_vars => TypeOK'
  BY TableTypes, RosterTypes, SweepTypes, MisreadTypes, TypesByPart
     DEF TypeOK, RosterTyped, RequestsTyped, SweepTyped, MisreadTyped

(* The table, the roster, the requests in flight and the sweeps keep their *)
(* type, for every number of each.                                         *)
THEOREM FailoverTypes == Spec => []TypeOK
  BY InitTypes, StepTypes, PTL DEF Spec

-----------------------------------------------------------------------------
(* Whose a row is.                                                         *)

(* A row changes hands when it is inserted, and by a sweep's UPDATE.       *)
LEMMA AgentChanges ==
  ASSUME TypeOK, [Next]_vars, NEW t \in Tasks, agent_id'[t] # agent_id[t]
  PROVE  \/ \E a \in Agents : InsertTask(t, a)
         \/ \E s \in Sweepers :
              /\ MoveRow(s, t)
              /\ status[t] = "queued" /\ agent_id'[t] = current[s][2]
  <1> USE DEF TypeOK, TableTypeOK
  <1>1. ~UNCHANGED agent_id
    OBVIOUS
  <1>2. CASE QueueStep
    <2>1. PICK u \in Tasks, a \in Agents : InsertTask(u, a)
      BY <1>1, <1>2, QueueKeeps
         DEF tableVars, ClaimNextQueuedTask, CompleteTask, RequeueStalled, FailStalled
    <2>2. u = t
      BY <2>1 DEF InsertTask
    <2>3. QED
      BY <2>1, <2>2
  <1>3. ASSUME NEW s \in Sweepers, SweepStep(s)
        PROVE  MoveRow(s, t) /\ status[t] = "queued" /\ agent_id'[t] = current[s][2]
    <2>1. PICK u \in Tasks : MoveRow(s, u)
      BY <1>1, <1>3, SweepKeeps DEF tableVars
    <2>2. status[u] = "queued" /\ agent_id' = [agent_id EXCEPT ![u] = current[s][2]]
      BY <1>1, <2>1 DEF MoveRow, ReassignTask, tableVars
    <2>3. u = t
      BY <2>2
    <2>4. QED
      BY <2>1, <2>2, <2>3
  <1>4. QED
    BY <1>1, <1>2, <1>3, RosterKeeps DEF Next, vars, tableVars

(* A row being run keeps the agent it is run as, however many sweeps       *)
(* overlap and whatever they read.                                         *)
THEOREM FailoverKeepsRunning == Spec => RunningKeepsAgent
  <1>1. ASSUME TypeOK, [Next]_vars, NEW t \in Tasks, status[t] = "running"
        PROVE  agent_id'[t] = agent_id[t]
    BY <1>1, AgentChanges DEF InsertTask
  <1>2. TypeOK /\ [Next]_vars =>
          \A t \in Tasks : status[t] = "running" => agent_id'[t] = agent_id[t]
    BY <1>1
  <1>3. QED
    BY <1>2, FailoverTypes, PTL DEF Spec, RunningKeepsAgent

(* What a sweep has still to move is there, and belongs to its primary.    *)
InHand ==
  \A s \in Sweepers : \A t \in moving[s] :
    status[t] # "absent" /\ agent_id[t] = current[s][1]

OneSweepAtATime == \A r, s \in Sweepers : r = s

(* A sweep lets go of its rows, keeps some of them, or has just read them. *)
LEMMA MovingChanges ==
  ASSUME TypeOK, [Next]_vars, NEW s \in Sweepers, NEW t \in moving'[s]
  PROVE  \/ t \in moving[s] /\ current'[s] = current[s] /\ ~MoveRow(s, t)
         \/ status[t] = "queued" /\ agent_id[t] = current'[s][1] /\ UNCHANGED tableVars
  <1> USE DEF TypeOK
  <1>1. CASE UNCHANGED sweepVars /\ ~MoveRow(s, t)
    BY <1>1 DEF sweepVars
  <1>2. QueueStep \/ RosterStep \/ UNCHANGED vars => UNCHANGED sweepVars
    BY QueueKeeps, RosterKeeps DEF vars
  <1>3. ASSUME NEW r \in Sweepers, NextPrimary(r) \/ EndOfSweep(r)
        PROVE  t \in moving[s] /\ current'[s] = current[s] /\ s # r
    BY <1>3 DEF NextPrimary, EndOfSweep
  <1>4. ASSUME NEW r \in Sweepers, UNCHANGED <<current, moving>>
        PROVE  t \in moving[s] /\ current'[s] = current[s]
    BY <1>4
  <1>5. ASSUME NEW r \in Sweepers, NEW u \in Tasks, MoveRow(r, u) \/ MoveRowFails(r, u)
        PROVE  t \in moving[s] /\ current'[s] = current[s] /\ (s = r => t # u)
    BY <1>5 DEF MoveRow, MoveRowFails
  <1>6. ASSUME MoveRow(s, t) PROVE FALSE
    BY <1>6 DEF MoveRow
  <1>7. ASSUME NEW r \in Sweepers, NEW pb \in primaries[r], ReadQueued(r, pb)
        PROVE  \/ t \in moving[s] /\ current'[s] = current[s]
               \/ status[t] = "queued" /\ agent_id[t] = current'[s][1] /\ UNCHANGED tableVars
    <2>1. PICK rows \in {QueuedFor(pb[1])} \cup (IF ReadsMayFail THEN {{}} ELSE {}) :
            IF rows = {} THEN NextPrimary(r)
            ELSE /\ phase'   = [phase   EXCEPT ![r] = "backup"]
                 /\ current' = [current EXCEPT ![r] = pb]
                 /\ moving'  = [moving  EXCEPT ![r] = rows]
      BY <1>7, Zenon DEF ReadQueued
    <2>2. CASE rows = {}
      BY <1>3, <2>1, <2>2
    <2>3. CASE rows # {} /\ s # r
      BY <2>1, <2>3
    <2>4. CASE rows # {} /\ s = r
      <3>1. t \in QueuedFor(pb[1]) /\ current'[s] = pb
        BY <2>1, <2>4
      <3>2. QED
        BY <1>7, <3>1 DEF QueuedFor, ReadQueued
    <2>5. QED
      BY <2>2, <2>3, <2>4
  <1>8. ASSUME NEW r \in Sweepers, ReadBackupState(r) \/ Compares(r) \/ AllMoved(r)
        PROVE  t \in moving[s] /\ current'[s] = current[s]
    <2>1. NextPrimary(r) \/ UNCHANGED <<current, moving>>
      BY <1>8, Zenon DEF ReadBackupState, Compares, CompareScopes, AllMoved
    <2>2. QED
      BY <1>3, <1>4, <2>1
  <1>9. ASSUME NEW r \in Sweepers, SelectPrimaries(r) \/ SweepDone(r) \/ SweepDies(r)
        PROVE  t \in moving[s] /\ current'[s] = current[s]
    BY <1>3, <1>9 DEF SelectPrimaries, SweepDone, SweepDies
  <1>10. ASSUME NEW r \in Sweepers, SweepStep(r)
         PROVE  \/ t \in moving[s] /\ current'[s] = current[s]
                \/ status[t] = "queued" /\ agent_id[t] = current'[s][1] /\ UNCHANGED tableVars
    BY <1>5, <1>7, <1>8, <1>9, <1>10 DEF SweepStep, Compares
  <1>11. QED
    BY <1>1, <1>2, <1>6, <1>10 DEF Next

LEMMA RowsStay ==
  ASSUME TypeOK, [Next]_vars, NEW t \in Tasks, status[t] # "absent"
  PROVE  status'[t] # "absent"
  <1> USE DEF TypeOK, TableTypeOK, tableVars
  <1>1. CASE QueueStep
    BY <1>1, QueueKeeps DEF InsertTask, ClaimNextQueuedTask, CompleteTask, RequeueStalled,
                            FailStalled, Terminal
  <1>2. ASSUME NEW s \in Sweepers, SweepStep(s) PROVE UNCHANGED status
    BY <1>2, SweepKeeps DEF MoveRow, ReassignTask
  <1>3. QED
    BY <1>1, <1>2, RosterKeeps DEF Next, vars

LEMMA StepInHand ==
  ASSUME OneSweepAtATime, TypeOK, InHand, [Next]_vars
  PROVE  InHand'
  <1> SUFFICES ASSUME NEW s \in Sweepers, NEW t \in moving'[s]
               PROVE  status'[t] # "absent" /\ agent_id'[t] = current'[s][1]
    BY DEF InHand
  <1>1. CASE t \in moving[s] /\ current'[s] = current[s] /\ ~MoveRow(s, t)
    <2>1. t \in Tasks /\ status[t] # "absent" /\ agent_id[t] = current[s][1]
      BY <1>1 DEF InHand, TypeOK
    <2>2. agent_id'[t] = agent_id[t]
      BY <1>1, <2>1, AgentChanges DEF OneSweepAtATime, InsertTask
    <2>3. QED
      BY <1>1, <2>1, <2>2, RowsStay
  <1>2. CASE status[t] = "queued" /\ agent_id[t] = current'[s][1] /\ UNCHANGED tableVars
    BY <1>2 DEF tableVars
  <1>3. QED
    BY <1>1, <1>2, MovingChanges

(* A row that is not there yet is nobody's.                                *)
Unassigned == \A t \in Tasks : status[t] = "absent" => agent_id[t] = NoAgent

LEMMA StepUnassigned == TypeOK /\ Unassigned /\ [Next]_vars => Unassigned'
  <1> SUFFICES ASSUME TypeOK, Unassigned, [Next]_vars, NEW t \in Tasks, status'[t] = "absent"
               PROVE  agent_id'[t] = NoAgent
    BY DEF Unassigned
  <1>1. status[t] = "absent" /\ agent_id[t] = NoAgent
    BY RowsStay DEF Unassigned
  <1>2. ~\E a \in Agents : InsertTask(t, a)
    BY DEF InsertTask, TypeOK, TableTypeOK
  <1>3. QED
    BY <1>1, <1>2, AgentChanges

(* While sweeps do not overlap, a row leaves an agent only for the backup  *)
(* that was read for that agent.                                           *)
THEOREM FailoverMovesByDesignation ==
  ASSUME OneSweepAtATime
  PROVE  Spec => MovesFollowDesignation
  <1>1. Init => InHand
    BY DEF Init, InHand
  <1>2. TypeOK /\ InHand /\ [Next]_vars => InHand'
    BY StepInHand
  <1>3. ASSUME TypeOK, InHand, Unassigned, [Next]_vars, NEW t \in Tasks,
               agent_id[t] # NoAgent,
               agent_id'[t] # agent_id[t]
        PROVE  \E s \in Sweepers : current[s] = <<agent_id[t], agent_id'[t]>>
    <2>1. ~\E a \in Agents : InsertTask(t, a)
      BY <1>3 DEF InsertTask, Unassigned
    <2>2. PICK s \in Sweepers : MoveRow(s, t) /\ agent_id'[t] = current[s][2]
      BY <1>3, <2>1, AgentChanges
    <2>3. t \in moving[s] /\ agent_id[t] = current[s][1]
      BY <1>3, <2>2 DEF MoveRow, InHand
    <2>4. current[s] \in (Agents \X Agents) \cup {NoPair}
      BY <1>3 DEF TypeOK
    <2>5. current[s] = <<current[s][1], current[s][2]>>
      BY <2>4 DEF NoPair
    <2>6. QED
      BY <2>2, <2>3, <2>5
  <1>4. TypeOK /\ InHand /\ Unassigned /\ [Next]_vars =>
          \A t \in Tasks : agent_id[t] # NoAgent /\ agent_id'[t] # agent_id[t] =>
            \E s \in Sweepers : current[s] = <<agent_id[t], agent_id'[t]>>
    BY <1>3
  <1>5. Init => Unassigned
    BY DEF Init, TableInit, Unassigned
  <1>6. QED
    BY <1>1, <1>2, <1>4, <1>5, StepUnassigned, FailoverTypes, PTL DEF Spec, MovesFollowDesignation

-----------------------------------------------------------------------------
(* Cycles of two.                                                          *)

(* Nobody is designated as its own backup.                                 *)
DesignatesAnother ==
  \A d \in Admins : designating[d] # NoPair => designating[d][1] # designating[d][2]

(* The designations are touched by their two requests alone.               *)
LEMMA DesignationSteps ==
  ASSUME [Next]_vars
  PROVE  \/ UNCHANGED <<backup, designating>>
         \/ \E d \in Admins, a \in Agents, b, x \in Agents \cup {NoAgent} : CheckBackup(d, a, b, x)
         \/ \E d \in Admins : WriteBackup(d)
  BY QueueKeeps, SweepKeeps
     DEF Next, RosterStep, SetAgentState, BindConnection, UnbindConnection, vars, rosterVars

LEMMA StepDesignatesAnother ==
  ASSUME TypeOK, DesignatesAnother, [Next]_vars
  PROVE  DesignatesAnother'
  <1> USE DEF DesignatesAnother, TypeOK
  <1>1. ASSUME NEW d \in Admins, NEW a \in Agents, NEW b \in Agents \cup {NoAgent},
               NEW x \in Agents \cup {NoAgent}, CheckBackup(d, a, b, x)
        PROVE  DesignatesAnother'
    BY <1>1 DEF CheckBackup
  <1>2. ASSUME NEW d \in Admins, WriteBackup(d) PROVE DesignatesAnother'
    BY <1>2 DEF WriteBackup
  <1>3. QED
    BY <1>1, <1>2, DesignationSteps

(* A pair of mutual backups comes of a designation that was closing it.    *)
LEMMA MutualByClosing ==
  ASSUME TypeOK, DesignatesAnother, [Next]_vars, NoMutualBackup, ~NoMutualBackup'
  PROVE  \E d \in Admins : Closing(d) /\ WriteBackup(d)
  <1>1. ~UNCHANGED backup
    BY DEF NoMutualBackup
  <1>2. PICK d \in Admins : WriteBackup(d)
    BY <1>1, DesignationSteps DEF CheckBackup
  <1>3. designating[d] \in Pairs /\ designating[d] # NoPair
    BY <1>2 DEF WriteBackup, TypeOK
  <1>4. PICK a \in Agents, b \in Agents \cup {NoAgent} : designating[d] = <<a, b>> /\ a # b
    BY <1>3 DEF Pairs, DesignatesAnother
  <1>5. backup' = [backup EXCEPT ![a] = b] /\ backup \in [Agents -> Agents \cup {NoAgent}]
    BY <1>2, <1>4 DEF WriteBackup, TypeOK
  <1>6. PICK x \in Agents, y \in Agents : backup'[x] = y /\ backup'[y] = x
    BY DEF NoMutualBackup
  <1>7. x = a \/ y = a
    <2>1. x # a /\ y # a => backup[x] = y /\ backup[y] = x
      BY <1>5, <1>6
    <2>2. QED
      BY <2>1 DEF NoMutualBackup
  <1>8. b \in Agents /\ backup[b] = a
    BY <1>4, <1>5, <1>6, <1>7
  <1>9. Closing(d)
    BY <1>3, <1>4, <1>8, TableAssumption DEF Closing
  <1>10. QED
    BY <1>2, <1>9

(* A designation in flight comes to be closing by another one's write, or  *)
(* by a failed read.                                                       *)
LEMMA ClosingByWrite ==
  ASSUME TypeOK, [Next]_vars, NEW d \in Admins, ~Closing(d), Closing(d)'
  PROVE  (\E e \in Admins \ {d} : WriteBackup(e)) \/ d \in misread'
  <1> USE DEF TypeOK
  <1>1. ~UNCHANGED <<backup, designating>>
    BY DEF Closing
  <1>2. ASSUME NEW e \in Admins, WriteBackup(e) PROVE e # d
    BY <1>2 DEF WriteBackup, Closing
  <1>3. ASSUME NEW e \in Admins, NEW a \in Agents, NEW b \in Agents \cup {NoAgent},
               NEW x \in Agents \cup {NoAgent}, CheckBackup(e, a, b, x)
        PROVE  d \in misread'
    <2>1. backup' = backup /\ designating' = [designating EXCEPT ![e] = <<a, b>>]
      BY <1>3 DEF CheckBackup
    <2>2. e = d
      BY <2>1 DEF Closing
    <2>3. b # NoAgent /\ backup[b] = a
      BY <2>1, <2>2 DEF Closing
    <2>4. x # backup[b]
      BY <1>3, <2>3 DEF CheckBackup, Refused
    <2>5. QED
      BY <1>3, <2>2, <2>3, <2>4 DEF CheckBackup
  <1>4. QED
    BY <1>1, <1>2, <1>3, DesignationSteps

(* For any number of agents and admins, and with reads that fail, two      *)
(* agents become each other's backup only by a designation that was let    *)
(* through beside another, or by a failed read of the backup's backup.     *)
THEOREM FailoverMutualBackupHasACause == Spec => MutualBackupHasACause
  <1>1. Init => DesignatesAnother
    BY DEF Init, DesignatesAnother
  <1>2. TypeOK /\ DesignatesAnother /\ [Next]_vars => DesignatesAnother'
    BY StepDesignatesAnother
  <1>3. TypeOK /\ DesignatesAnother /\ [Next]_vars =>
          /\ NoMutualBackup /\ ~NoMutualBackup' => \E d \in Admins : Closing(d) /\ WriteBackup(d)
          /\ \A d \in Admins : ~Closing(d) /\ Closing(d)' =>
               (\E e \in Admins \ {d} : WriteBackup(e)) \/ d \in misread'
    BY MutualByClosing, ClosingByWrite
  <1>4. QED
    BY <1>1, <1>2, <1>3, FailoverTypes, PTL DEF Spec, MutualBackupHasACause

-----------------------------------------------------------------------------
(* The table under the sweep.                                              *)

(* A sweep past the reading of the queue has a primary and a backup.       *)
PairInHand ==
  \A s \in Sweepers :
    phase[s] \in {"backup", "scope", "moving"} => current[s] \in Agents \X Agents

(* The pair comes with the queue's rows and goes with them.                *)
LEMMA StepPairInHand ==
  ASSUME TypeOK, PairInHand, [Next]_vars
  PROVE  PairInHand'
  <1> USE DEF TypeOK, PairInHand
  <1>1. CASE UNCHANGED sweepVars
    BY <1>1 DEF sweepVars
  <1>2. QueueStep \/ RosterStep \/ UNCHANGED vars => UNCHANGED sweepVars
    BY QueueKeeps, RosterKeeps DEF vars
  <1>3. ASSUME NEW s \in Sweepers, NextPrimary(s) \/ EndOfSweep(s) PROVE PairInHand'
    BY <1>3 DEF NextPrimary, EndOfSweep
  <1>4. ASSUME NEW s \in Sweepers, SelectPrimaries(s) PROVE PairInHand'
    BY <1>4 DEF SelectPrimaries
  <1>5. ASSUME NEW s \in Sweepers, NEW pb \in primaries[s], ReadQueued(s, pb) PROVE PairInHand'
    <2>1. pb \in Agents \X Agents
      OBVIOUS
    <2>2. NextPrimary(s) \/ /\ phase' = [phase EXCEPT ![s] = "backup"]
                            /\ current' = [current EXCEPT ![s] = pb]
      BY <1>5, Zenon DEF ReadQueued
    <2>3. QED
      BY <1>3, <2>1, <2>2
  <1>6. ASSUME NEW s \in Sweepers, ReadBackupState(s) \/ Compares(s) PROVE PairInHand'
    <2>1. NextPrimary(s) \/ /\ phase[s] \in {"backup", "scope"} /\ UNCHANGED current
                            /\ \E x \in {"scope", "moving"} : phase' = [phase EXCEPT ![s] = x]
      BY <1>6, Zenon DEF ReadBackupState, Compares, CompareScopes
    <2>2. QED
      BY <1>3, <2>1
  <1>7. ASSUME NEW s \in Sweepers, NEW t \in Tasks, MoveRow(s, t) \/ MoveRowFails(s, t)
        PROVE  PairInHand'
    BY <1>7 DEF MoveRow, MoveRowFails
  <1>8. ASSUME NEW s \in Sweepers, SweepStep(s) PROVE PairInHand'
    BY <1>3, <1>4, <1>5, <1>6, <1>7, <1>8 DEF SweepStep, Compares, AllMoved, SweepDone, SweepDies
  <1>9. QED
    BY <1>1, <1>2, <1>8 DEF Next

(* Sweeps and the queue's other users issue the table's statements alone,  *)
(* with the rows and agents these are meant for: what is proved of         *)
(* TableSpec holds beside any number of sweeps.                            *)
THEOREM FailoverUsesTheTable == Spec => TableSpec
  <1>1. Init => TableInit /\ PairInHand
    BY DEF Init, PairInHand
  <1>2. TypeOK /\ PairInHand /\ [Next]_vars => PairInHand'
    BY StepPairInHand
  <1>3. ASSUME TypeOK, PairInHand, [Next]_vars
        PROVE  [TableNext]_tableVars
    <2> USE DEF TableNext
    <2>1. CASE QueueStep
      <3>1. \A t \in Tasks : status[t] \in {"queued", "running"} => status[t] # "absent"
        OBVIOUS
      <3>2. QED
        BY <2>1, <3>1, QueueKeeps, Zenon
    <2>2. ASSUME NEW s \in Sweepers, NEW t \in Tasks, MoveRow(s, t)
          PROVE  TableNext
      <3>1. current[s][2] \in Agents
        BY <1>3, <2>2 DEF MoveRow, PairInHand
      <3>2. ReassignTask(t, current[s][2])
        BY <2>2 DEF MoveRow
      <3>3. QED
        BY <3>1, <3>2
    <2>3. ASSUME NEW s \in Sweepers, SweepStep(s) PROVE [TableNext]_tableVars
      BY <2>2, <2>3, SweepKeeps
    <2>4. RosterStep \/ UNCHANGED vars => UNCHANGED tableVars
      BY RosterKeeps DEF vars
    <2>5. QED
      BY <1>3, <2>1, <2>3, <2>4 DEF Next
  <1>4. TypeOK /\ PairInHand /\ [Next]_vars => [TableNext]_tableVars
    BY <1>3
  <1>5. QED
    BY <1>1, <1>2, <1>4, FailoverTypes, PTL DEF Spec, TableSpec

(* No sweep that moves rows by an old read of them, and no late completion *)
(* beside it, makes a row go away, run again without a counted retry, or   *)
(* change hands while it runs.                                             *)
THEOREM FailoverKeepsRowsWhole == Spec => LifeOfARow /\ []RunningIsTimed
  BY FailoverUsesTheTable, RowsLiveOnce, SweepSeesEveryRun, PTL

-----------------------------------------------------------------------------
(* What a sweep goes by.                                                   *)

(* One step of a sweep, as far as what it has read is concerned: it drops  *)
(* its pair, takes one up, or comes one check further.                     *)
LEMMA SweepProgress ==
  ASSUME TypeOK, NEW s \in Sweepers, SweepStep(s)
  PROVE  /\ UNCHANGED rosterVars
         /\ \A r \in Sweepers \ {s} :
              phase'[r] = phase[r] /\ current'[r] = current[r] /\ primaries'[r] = primaries[r]
         /\ \/ /\ phase'[s] \in {"idle", "primaries"}
               /\ \/ primaries'[s] \subseteq primaries[s]
                  \/ primaries'[s] = {<<p, backup[p]>> : p \in Failing}
            \/ /\ phase'[s] = "backup"
               /\ current'[s] \in primaries[s] /\ primaries'[s] \subseteq primaries[s]
            \/ /\ phase[s] = "backup" /\ phase'[s] = "scope"
               /\ current'[s] = current[s] /\ primaries'[s] = primaries[s]
               /\ agent_state[current[s][2]] = "active"
            \/ /\ phase[s] = "scope" /\ phase'[s] = "moving"
               /\ current'[s] = current[s] /\ primaries'[s] = primaries[s]
               /\ Compares(s)
            \/ /\ phase[s] = "moving" /\ phase'[s] = "moving"
               /\ current'[s] = current[s] /\ primaries'[s] = primaries[s]
  <1> DEFINE Others == \A r \in Sweepers \ {s} : phase'[r] = phase[r]
                         /\ current'[r] = current[r] /\ primaries'[r] = primaries[r]
  <1> USE DEF TypeOK
  <1>0. UNCHANGED rosterVars
    BY SweepKeeps
  <1>1. ASSUME NextPrimary(s), \/ primaries' = primaries
                               \/ \E pb : primaries' = [primaries EXCEPT ![s] = @ \ {pb}]
        PROVE  Others /\ phase'[s] = "primaries" /\ primaries'[s] \subseteq primaries[s]
    BY <1>1 DEF NextPrimary
  <1>2. ASSUME EndOfSweep(s)
        PROVE  Others /\ phase'[s] = "idle" /\ primaries'[s] \subseteq primaries[s]
    BY <1>2 DEF EndOfSweep
  <1>3. ASSUME SelectPrimaries(s)
        PROVE  /\ Others /\ phase'[s] = "primaries"
               /\ primaries'[s] = {<<p, backup[p]>> : p \in Failing}
    BY <1>3 DEF SelectPrimaries
  <1>4. ASSUME NEW pb \in primaries[s], ReadQueued(s, pb)
        PROVE  /\ Others
               /\ \/ phase'[s] = "primaries" /\ primaries'[s] \subseteq primaries[s]
                  \/ /\ phase'[s] = "backup"
                     /\ current'[s] \in primaries[s] /\ primaries'[s] \subseteq primaries[s]
    <2>1. primaries' = [primaries EXCEPT ![s] = @ \ {pb}]
      BY <1>4 DEF ReadQueued
    <2>2. NextPrimary(s) \/ /\ phase' = [phase EXCEPT ![s] = "backup"]
                            /\ current' = [current EXCEPT ![s] = pb]
      BY <1>4, Zenon DEF ReadQueued
    <2>3. QED
      BY <1>1, <2>1, <2>2
  <1>5. ASSUME ReadBackupState(s)
        PROVE  /\ Others /\ primaries' = primaries
               /\ \/ phase'[s] = "primaries"
                  \/ /\ phase[s] = "backup" /\ phase'[s] = "scope" /\ current'[s] = current[s]
                     /\ agent_state[current[s][2]] = "active"
    BY <1>1, <1>5 DEF ReadBackupState
  <1>6. ASSUME Compares(s)
        PROVE  /\ Others /\ primaries' = primaries
               /\ \/ phase'[s] = "primaries"
                  \/ phase[s] = "scope" /\ phase'[s] = "moving" /\ current'[s] = current[s]
    <2>1. primaries' = primaries /\ phase[s] = "scope"
      BY <1>6 DEF Compares, CompareScopes
    <2>2. \/ NextPrimary(s)
          \/ phase' = [phase EXCEPT ![s] = "moving"] /\ UNCHANGED current
      BY <1>6, Zenon DEF Compares, CompareScopes
    <2>3. QED
      BY <1>1, <2>1, <2>2
  <1>7. ASSUME NEW t \in Tasks, MoveRow(s, t) \/ MoveRowFails(s, t)
        PROVE  phase[s] = "moving" /\ UNCHANGED <<phase, current, primaries>>
    BY <1>7 DEF MoveRow, MoveRowFails
  <1>8. ASSUME AllMoved(s) PROVE NextPrimary(s) /\ primaries' = primaries
    BY <1>8 DEF AllMoved
  <1>9. QED
    BY <1>0, <1>1, <1>2, <1>3, <1>4, <1>5, <1>6, <1>7, <1>8
       DEF SweepStep, Compares, SweepDone, SweepDies

(* What a sweep goes by goes stale only by a state that somebody sets or a *)
(* designation that somebody writes: between these, every row it moves     *)
(* goes from an unhealthy agent to its designated, active backup.          *)
THEOREM FailoverStaleOnlyByRoster == Spec => StaleOnlyByRoster
  <1>1. ASSUME TypeOK, [Next]_vars, NEW s \in Sweepers,
               SweepReadsHold(s), ~SweepReadsHold(s)'
        PROVE  \/ \E a \in Agents, x \in AgentState : SetAgentState(a, x)
               \/ \E d \in Admins : WriteBackup(d)
    <2> USE DEF SweepReadsHold, Unhealthy
    <2>1. ~UNCHANGED <<agent_state, backup, sweepVars>>
      BY <1>1 DEF sweepVars
    <2>2. ~QueueStep /\ ~UNCHANGED vars
      BY <2>1, QueueKeeps DEF vars, rosterVars
    <2>3. ASSUME NEW r \in Sweepers, SweepStep(r) PROVE FALSE
      <3>1. UNCHANGED <<agent_state, backup>>
        BY <1>1, <2>3, SweepProgress DEF rosterVars
      <3>2. \A p \in {<<q, backup[q]>> : q \in Failing} : Unhealthy(p[1]) /\ backup[p[1]] = p[2]
        BY DEF Failing
      <3>3. CASE r # s
        BY <1>1, <2>3, <3>1, <3>3, SweepProgress
      <3>4. CASE r = s
        BY <1>1, <2>3, <3>1, <3>2, <3>4, SweepProgress
      <3>5. QED
        BY <3>3, <3>4
    <2>4. RosterStep
      BY <1>1, <2>2, <2>3 DEF Next
    <2>5. QED
      BY <2>1, <2>4 DEF RosterStep, BindConnection, UnbindConnection, CheckBackup
  <1>2. TypeOK /\ [Next]_vars =>
          \A s \in Sweepers : SweepReadsHold(s) /\ ~SweepReadsHold(s)' =>
            \/ \E a \in Agents, x \in AgentState : SetAgentState(a, x)
            \/ \E d \in Admins : WriteBackup(d)
    BY <1>1
  <1>3. QED
    BY <1>2, FailoverTypes, PTL DEF Spec, StaleOnlyByRoster

(* The scope guard is sound up to staleness and one failure: the backup of *)
(* a sweep that moves rows comes to lack one of the primary's connectors   *)
(* only by a binding or an unbinding since they were compared, or because  *)
(* the sweep's read of the primary's connectors failed.                    *)
THEOREM FailoverScopeGapHasACause == Spec => ScopeGapHasACause
  <1> DEFINE ByBinding(s) == \E c \in Connectors :
                               BindConnection(current[s][1], c) \/ UnbindConnection(current[s][2], c)
  <1>1. ASSUME TypeOK, PairInHand, [Next]_vars, NEW s \in Sweepers,
               ScopeCovered(s), ~ScopeCovered(s)', s \notin misread'
        PROVE  ByBinding(s)
    <2> USE <1>1 DEF ScopeCovered
    <2>1. /\ phase'[s] = "moving"
          /\ ~(bound'[current'[s][1]] \subseteq bound'[current'[s][2]])
      OBVIOUS
    <2>2. ~UNCHANGED <<bound, sweepVars>>
      BY <2>1 DEF sweepVars
    <2>3. ~QueueStep /\ ~UNCHANGED vars
      BY <2>2, QueueKeeps DEF vars, rosterVars
    <2>4. ASSUME NEW r \in Sweepers, SweepStep(r) PROVE FALSE
      <3>1. bound' = bound
        BY <2>4, SweepProgress DEF rosterVars
      <3>2. phase[s] = "moving" \/ Compares(s)
        BY <2>1, <2>4, SweepProgress
      <3>3. current'[s] = current[s]
        BY <2>1, <2>4, SweepProgress
      <3>4. ASSUME Compares(s)
            PROVE  bound[current[s][1]] \subseteq bound[current[s][2]]
        <4>1. PICK ofPrimary \in SUBSET Connectors, ofBackup \in SUBSET Connectors :
                CompareScopes(s, ofPrimary, ofBackup)
          BY <3>4 DEF Compares
        <4>2. /\ ofPrimary \in ConnectionsRead(current[s][1])
              /\ ofBackup \in ConnectionsRead(current[s][2])
              /\ \/ /\ missingConnections(ofPrimary, ofBackup) = {}
                    /\ misread' = IF ofPrimary = bound[current[s][1]] THEN misread
                                  ELSE misread \cup {s}
                 \/ NextPrimary(s)
          BY <4>1, Zenon DEF CompareScopes
        <4>3. ~NextPrimary(s)
          BY <2>1 DEF NextPrimary, TypeOK
        <4>4. ofPrimary \subseteq ofBackup
          BY <4>2, <4>3 DEF missingConnections
        <4>5. ofPrimary = bound[current[s][1]]
          BY <4>2, <4>3
        <4>6. ofBackup \subseteq bound[current[s][2]]
          BY <4>2 DEF ConnectionsRead
        <4>7. QED
          BY <4>4, <4>5, <4>6
      <3>5. QED
        BY <2>1, <3>1, <3>2, <3>3, <3>4
    <2>5. RosterStep
      BY <2>3, <2>4 DEF Next
    <2>6. UNCHANGED sweepVars
      BY <2>5, RosterKeeps
    <2>7. /\ phase[s] = "moving" /\ current'[s] = current[s]
          /\ current[s] \in Agents \X Agents
          /\ bound[current[s][1]] \subseteq bound[current[s][2]]
      BY <2>1, <2>6 DEF sweepVars, PairInHand
    <2>8. PICK a \in Agents, c \in Connectors : BindConnection(a, c) \/ UnbindConnection(a, c)
      BY <2>2, <2>5, <2>6 DEF RosterStep, SetAgentState, CheckBackup, WriteBackup
    <2>9. CASE BindConnection(a, c)
      <3>1. a = current[s][1]
        BY <2>1, <2>7, <2>9 DEF BindConnection, TypeOK
      <3>2. QED
        BY <2>9, <3>1
    <2>10. CASE UnbindConnection(a, c)
      <3>1. a = current[s][2]
        BY <2>1, <2>7, <2>10 DEF UnbindConnection, TypeOK
      <3>2. QED
        BY <2>10, <3>1
    <2>11. QED
      BY <2>8, <2>9, <2>10
  <1>2. TypeOK /\ PairInHand /\ [Next]_vars =>
          \A s \in Sweepers :
            ScopeCovered(s) /\ ~ScopeCovered(s)' =>
              \/ \E c \in Connectors :
                   BindConnection(current[s][1], c) \/ UnbindConnection(current[s][2], c)
              \/ s \in misread'
    BY <1>1, Zenon
  <1>3. Init => PairInHand
    BY DEF Init, PairInHand
  <1>4. TypeOK /\ PairInHand /\ [Next]_vars => PairInHand'
    BY StepPairInHand
  <1>5. QED
    BY <1>2, <1>3, <1>4, FailoverTypes, PTL DEF Spec, ScopeGapHasACause
=============================================================================
