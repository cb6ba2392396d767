----------------------------- MODULE AgentTasks -----------------------------
(***************************************************************************)
(* Who runs an agent's tasks, and what a dead runner leaves behind.        *)
(*                                                                         *)
(* Runners are request handlers (serverless invocations):                  *)
(*   - the assignment surfaces (POST /api/admin/agents/[id]/tasks and the  *)
(*     delegate_to_agent tool) insert a row and run it inline, without     *)
(*     claiming it;                                                        *)
(*   - the drains (POST /api/agents/run-tasks with the agent's own token,  *)
(*     POST /api/admin/agents/[id]/tasks/run by a manager) claim queued    *)
(*     rows one at a time and run each.                                    *)
(* Any of them may die between two statements.  The failover sweep (cron   *)
(* every ten minutes, or an admin's manual run, so two may overlap) frees  *)
(* the rows a dead runner left 'running'.  Agents are paused, resumed and  *)
(* revoked at any moment.  What the sweep's second phase decides before it *)
(* moves a row to a backup is the subject of AgentFailover; here the move  *)
(* is the UPDATE alone.                                                    *)
(***************************************************************************)
EXTENDS TaskTable, FiniteSets

CONSTANTS
  Runners,     \* request handlers that may run tasks
  Sweepers,    \* overlapping invocations of the failover sweep
  RetryCap,    \* RETRY_CAP (3)
  MaxRun,      \* MAX_RUN of the agent runtime's drain (5)
  MaxDrain     \* MAX_DRAIN of the admin drain (10)

ASSUME RuntimeAssumption ==
  /\ IsFiniteSet(Sweepers) /\ Sweepers # {}
  /\ RetryCap \in Nat
  /\ MaxRun \in Nat \ {0}
  /\ MaxDrain \in Nat \ {0}

VARIABLES
  agent_state,  \* [Agents -> AgentState]: the column state of instinct_agents
  pc,           \* [Runners -> where the handler is]
  acting,       \* [Runners -> the agent whose identity the handler carries]
  doing,        \* [Runners -> the task being executed, 0 if none]
  left,         \* [Runners -> claims the drain loop may still make]
  toRequeue,    \* [Sweepers -> rows read as stalled under the cap, not yet written]
  toFail,       \* [Sweepers -> rows read as stalled at the cap, not yet written]
  attempt,      \* history: [Runners -> number of the claim being run, 0 inline]
  claims        \* history: [Tasks -> claims ever made of the row]

runnerVars == <<pc, acting, doing, left, attempt>>
sweepVars  == <<toRequeue, toFail>>
vars == <<tableVars, agent_state, runnerVars, sweepVars, claims>>

AgentState == {"invited", "active", "paused", "revoked"}
Where      == {"idle", "creating", "draining", "executing"}

TypeOK ==
  /\ TableTypeOK
  /\ agent_state \in [Agents -> AgentState]
  /\ pc        \in [Runners -> Where]
  /\ acting    \in [Runners -> Agents \cup {NoAgent}]
  /\ doing     \in [Runners -> Tasks \cup {0}]
  /\ left      \in [Runners -> Nat]
  /\ attempt   \in [Runners -> Nat]
  /\ toRequeue \in [Sweepers -> SUBSET Tasks]
  /\ toFail    \in [Sweepers -> SUBSET Tasks]
  /\ claims    \in [Tasks -> Nat]

Init ==
  /\ TableInit
  /\ agent_state = [a \in Agents |-> "invited"]
  /\ pc        = [r \in Runners |-> "idle"]
  /\ acting    = [r \in Runners |-> NoAgent]
  /\ doing     = [r \in Runners |-> 0]
  /\ left      = [r \in Runners |-> 0]
  /\ attempt   = [r \in Runners |-> 0]
  /\ toRequeue = [s \in Sweepers |-> {}]
  /\ toFail    = [s \in Sweepers |-> {}]
  /\ claims    = [t \in Tasks |-> 0]

-----------------------------------------------------------------------------
(* Agent lifecycle: columns other requests write while tasks run.          *)

(* activateWithOnboardingSecret, and only from 'invited'.                  *)
Activate(a) ==
  /\ agent_state[a] = "invited"
  /\ agent_state' = [agent_state EXCEPT ![a] = "active"]
  /\ UNCHANGED <<tableVars, runnerVars, sweepVars, claims>>

(* setAgentState: pause, resume or revoke, unguarded by the current state. *)
SetAgentState(a, s) ==
  /\ agent_state' = [agent_state EXCEPT ![a] = s]
  /\ UNCHANGED <<tableVars, runnerVars, sweepVars, claims>>

-----------------------------------------------------------------------------
(* Runners.                                                                *)

Begin(r, where, a, n) ==
  /\ pc[r] = "idle"
  /\ pc'     = [pc     EXCEPT ![r] = where]
  /\ acting' = [acting EXCEPT ![r] = a]
  /\ left'   = [left   EXCEPT ![r] = n]
  /\ UNCHANGED <<tableVars, agent_state, doing, attempt, sweepVars, claims>>

(* The assignment surfaces read the agent once, before anything is written. *)
BeginAssign(r, a) ==
  /\ agent_state[a] = "active"
  /\ Begin(r, "creating", a, 0)

(* The agent's runtime: only 'revoked' and 'paused' are refused, and an    *)
(* 'invited' agent has no token to call with.                              *)
BeginRuntimeDrain(r, a) ==
  /\ agent_state[a] # "invited"
  /\ agent_state[a] \notin {"revoked", "paused"}
  /\ Begin(r, "draining", a, MaxRun)

(* The admin drain requires 'active'.                                      *)
BeginAdminDrain(r, a) ==
  /\ agent_state[a] = "active"
  /\ Begin(r, "draining", a, MaxDrain)

(* createTask, then straight into executeTaskAsAgent: the row stays        *)
(* 'queued' with started_at NULL for as long as the inline run takes.      *)
CreateAndRunInline(r, t) ==
  /\ pc[r] = "creating"
  /\ InsertTask(t, acting[r])
  /\ pc'      = [pc      EXCEPT ![r] = "executing"]
  /\ doing'   = [doing   EXCEPT ![r] = t]
  /\ attempt' = [attempt EXCEPT ![r] = 0]
  /\ UNCHANGED <<agent_state, acting, left, sweepVars, claims>>

(* Mutated form of MayClaim: the loop counts one turn too many.            *)
MayClaimOnceMore(r) == left[r] >= 0

MayClaim(r) == left[r] > 0

(* One turn of the drain loop: claim and start executing.                  *)
ClaimAndRun(r, t) ==
  /\ pc[r] = "draining"
  /\ MayClaim(r)
  /\ ClaimNextQueuedTask(t, acting[r])
  /\ pc'      = [pc      EXCEPT ![r] = "executing"]
  /\ doing'   = [doing   EXCEPT ![r] = t]
  /\ left'    = [left    EXCEPT ![r] = @ - 1]
  /\ claims'  = [claims  EXCEPT ![t] = @ + 1]
  /\ attempt' = [attempt EXCEPT ![r] = claims[t] + 1]
  /\ UNCHANGED <<agent_state, acting, sweepVars>>

(* The handler answers its request: nothing of it remains.                 *)
Leave(r) ==
  /\ pc'     = [pc     EXCEPT ![r] = "idle"]
  /\ acting' = [acting EXCEPT ![r] = NoAgent]
  /\ doing'  = [doing  EXCEPT ![r] = 0]
  /\ left'   = [left   EXCEPT ![r] = 0]
  /\ attempt' = [attempt EXCEPT ![r] = 0]

(* The drain loop ends: its bound is used up or claim returned no row.     *)
EndDrain(r) ==
  /\ pc[r] = "draining"
  /\ ~MayClaim(r) \/ QueuedFor(acting[r]) = {}
  /\ Leave(r)
  /\ UNCHANGED <<tableVars, agent_state, sweepVars, claims>>

(* After a task: a drain (attempt > 0) goes on, an assignment answers.     *)
NextTurn(r) ==
  IF attempt[r] > 0
  THEN /\ pc'      = [pc      EXCEPT ![r] = "draining"]
       /\ doing'   = [doing   EXCEPT ![r] = 0]
       /\ attempt' = [attempt EXCEPT ![r] = 0]
       /\ UNCHANGED <<acting, left>>
  ELSE Leave(r)

(* The run ended with outcome s, or threw and was marked "failed": either  *)
(* way completeTask writes the row.                                        *)
FinishRun(r, s) ==
  /\ pc[r] = "executing"
  /\ CompleteTask(doing[r], s)
  /\ NextTurn(r)
  /\ UNCHANGED <<agent_state, sweepVars, claims>>

(* The run threw and marking it failed threw too (logged, not rethrown).   *)
LoseOutcome(r) ==
  /\ pc[r] = "executing"
  /\ NextTurn(r)
  /\ UNCHANGED <<tableVars, agent_state, sweepVars, claims>>

(* The invocation dies (timeout, deploy) or throws out of its handler.     *)
RunnerDies(r) ==
  /\ pc[r] # "idle"
  /\ Leave(r)
  /\ UNCHANGED <<tableVars, agent_state, sweepVars, claims>>

-----------------------------------------------------------------------------
(* The failover sweep.                                                     *)

SweepIdle(s) == toRequeue[s] = {} /\ toFail[s] = {}

(* Mutated form of UnderCap: off by one.                                   *)
UpToCap(t) == retry_count[t] <= RetryCap

UnderCap(t) == retry_count[t] < RetryCap

(* Mutated form of SelectStalled: rows at the cap are left alone.          *)
SelectRequeuable(s) ==
  /\ SweepIdle(s)
  /\ \E t \in Tasks : Stalled(t)
  /\ toRequeue' = [toRequeue EXCEPT ![s] = {t \in Tasks : Stalled(t) /\ UnderCap(t)}]
  /\ UNCHANGED <<tableVars, agent_state, runnerVars, toFail, claims>>

(* reclaimStalledTasks reads the stalled rows and their retry_count once;  *)
(* over or under the cap is decided on what was read.                      *)
SelectStalled(s) ==
  /\ SweepIdle(s)
  /\ \E t \in Tasks : Stalled(t)
  /\ toRequeue' = [toRequeue EXCEPT
       ![s] = {t \in Tasks : Stalled(t) /\ UnderCap(t)}]
  /\ toFail'    = [toFail EXCEPT
       ![s] = {t \in Tasks : Stalled(t) /\ ~UnderCap(t)}]
  /\ UNCHANGED <<tableVars, agent_state, runnerVars, claims>>

RequeueRow(s, t) ==
  /\ t \in toRequeue[s]
  /\ RequeueStalled(t)
  /\ toRequeue' = [toRequeue EXCEPT ![s] = @ \ {t}]
  /\ UNCHANGED <<agent_state, runnerVars, toFail, claims>>

FailRow(s, t) ==
  /\ t \in toFail[s]
  /\ FailStalled(t)
  /\ toFail' = [toFail EXCEPT ![s] = @ \ {t}]
  /\ UNCHANGED <<agent_state, runnerVars, toRequeue, claims>>

(* The UPDATE of one row throws: logged, and the sweep goes on.            *)
SkipRow(s, t) ==
  /\ t \in toRequeue[s] \cup toFail[s]
  /\ toRequeue' = [toRequeue EXCEPT ![s] = @ \ {t}]
  /\ toFail'    = [toFail    EXCEPT ![s] = @ \ {t}]
  /\ UNCHANGED <<tableVars, agent_state, runnerVars, claims>>

(* The sweep's invocation dies with rows still to write.                   *)
SweepDies(s) ==
  /\ ~SweepIdle(s)
  /\ toRequeue' = [toRequeue EXCEPT ![s] = {}]
  /\ toFail'    = [toFail    EXCEPT ![s] = {}]
  /\ UNCHANGED <<tableVars, agent_state, runnerVars, claims>>

(* The second phase moves a row it read as queued to another agent; by now *)
(* the row may be in any state.                                            *)
MoveToBackup(t, b) ==
  /\ ReassignTask(t, b)
  /\ UNCHANGED <<agent_state, runnerVars, sweepVars, claims>>

TimePasses(t) ==
  /\ StallWindowPasses(t)
  /\ UNCHANGED <<agent_state, runnerVars, sweepVars, claims>>

-----------------------------------------------------------------------------

RunnerStep(r) ==
  \/ \E a \in Agents :
       BeginAssign(r, a) \/ BeginRuntimeDrain(r, a) \/ BeginAdminDrain(r, a)
  \/ \E t \in Tasks : CreateAndRunInline(r, t) \/ ClaimAndRun(r, t)
  \/ \E s \in Terminal : FinishRun(r, s)
  \/ EndDrain(r) \/ LoseOutcome(r) \/ RunnerDies(r)

SweepStep(s) ==
  \/ SelectStalled(s) \/ SweepDies(s)
  \/ \E t \in Tasks : RequeueRow(s, t) \/ FailRow(s, t) \/ SkipRow(s, t)

LifecycleStep(a) ==
  Activate(a) \/ \E s \in {"active", "paused", "revoked"} : SetAgentState(a, s)

Next ==
  \/ \E r \in Runners : RunnerStep(r)
  \/ \E s \in Sweepers : SweepStep(s)
  \/ \E a \in Agents : LifecycleStep(a)
  \/ \E t \in Tasks, b \in Agents : MoveToBackup(t, b)
  \/ \E t \in Tasks : TimePasses(t)

Spec == Init /\ [][Next]_vars

(* What the platform owes: time passes; the cron fires and a sweep that    *)
(* starts reads; and a sweep does not die, nor its write throw, at the     *)
(* same row for ever.  Nothing is owed by runners: an agent's runtime need *)
(* never call, and a run need never end.                                   *)
Fairness ==
  /\ \A t \in Tasks : WF_vars(TimePasses(t))
  /\ \A s \in Sweepers : WF_vars(SelectStalled(s))
  /\ \A s \in Sweepers, t \in Tasks :
       SF_vars(RequeueRow(s, t)) /\ SF_vars(FailRow(s, t))

FairSpec == Spec /\ Fairness

-----------------------------------------------------------------------------
(* Properties.                                                             *)

Runs(r, t)  == pc[r] = "executing" /\ doing[r] = t
Drains(r, t) == Runs(r, t) /\ attempt[r] > 0

(* A permanently stuck task cannot loop for ever: however sweeps overlap   *)
(* with runs that come back to life, a row is claimed at most as often as  *)
(* the cap, plus the requeues that sweeps which read the row in the same   *)
(* moment can add beyond it, allows (RETRY_CAP, failover/store.ts:43).     *)
ClaimsBounded ==
  \A t \in Tasks : claims[t] <= RetryCap + Cardinality(Sweepers)

(* Two drains never execute one task at the same time unless the sweep     *)
(* took the row away from the first (claimNextQueuedTask's single UPDATE). *)
LeaseExclusive ==
  \A t \in Tasks, r1, r2 \in Runners :
    Drains(r1, t) /\ Drains(r2, t) /\ r1 # r2 => retry_count[t] > 0

(* The run that holds a running row's latest claim carries the identity    *)
(* the row names: no interleaving of claim, requeue and failover makes an  *)
(* agent run, as itself, a row that meanwhile belongs to another.          *)
RunIdentity ==
  \A t \in Tasks, r \in Runners :
    Drains(r, t) /\ attempt[r] = claims[t] /\ status[t] = "running"
      => acting[r] = agent_id[t]

(* A finished task is never reopened: late completions may overwrite one   *)
(* outcome by another, but no sweep working from an old read and no late   *)
(* claim puts the row back to 'queued' or 'running'.                       *)
TerminalIsFinal ==
  [][\A t \in Tasks : status[t] \in Terminal => status'[t] \in Terminal]_vars

(* Only a row whose stall window has run out is taken from its runner      *)
(* (failover/store.ts:158).  The UPDATE does not repeat the window that    *)
(* the SELECT read, so a sweep that overlaps with another may requeue a    *)
(* run that has just begun; but then the row has been requeued before: its *)
(* first run always has the whole window.                                  *)
OnlyStalledReclaimed ==
  [][\A t \in Tasks : retry_count'[t] > retry_count[t] =>
       \/ started_at[t] = "stale"
       \/ retry_count[t] > 0 /\ \E r, s \in Sweepers : r # s]_vars

(* A task whose runner died does not stay 'running' for ever.              *)
NoTaskStuckRunning ==
  \A t \in Tasks : status[t] = "running" ~> status[t] # "running"

(* What the documentation says of an assignment: it runs exactly once      *)
(* (admin/agents/[id]/tasks/route.ts:157-158), so no row that was never    *)
(* reclaimed is executed by two handlers.                                  *)
AssignmentRunsOnce ==
  \A t \in Tasks, r1, r2 \in Runners :
    Runs(r1, t) /\ Runs(r2, t) /\ r1 # r2 => retry_count[t] > 0
=============================================================================
