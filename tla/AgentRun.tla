------------------------------ MODULE AgentRun ------------------------------
(***************************************************************************)
(* One run of a task by the executor (lib/agents/tasks/executor.ts) and    *)
(* the three limits it runs into: the kill switch and the time budget read *)
(* before every step (lib/containment), and the hourly ceiling counted in  *)
(* front of every act on the owner's behalf (lib/agents/ceiling.ts).       *)
(*                                                                         *)
(* Runs are concurrent: an agent may have several tasks in hand, and one   *)
(* task may be in the hands of two handlers (AgentTasks), which then share *)
(* its ledger row.  Every read and write is a statement of its own.  The   *)
(* two reads of a check are issued together and are one step here.         *)
(***************************************************************************)
EXTENDS Naturals, FiniteSets

CONSTANTS
  Runs,        \* handlers that may be executing a task
  Tasks,
  Agents,
  MaxSteps,    \* bound: instructions of a plan
  MaxTime,     \* maxDurationMs of the run budget, in units of time
  MaxCost,     \* bound: units one dispatch takes
  Ceiling,     \* max_operations_per_hour; 0 is unlimited
  MaxRefused   \* bound: refusals in the window when a run starts

ASSUME RunAssumption ==
  /\ IsFiniteSet(Runs) /\ Runs # {}
  /\ MaxSteps \in Nat /\ MaxTime \in Nat \ {0} /\ MaxCost \in Nat
  /\ Ceiling \in Nat /\ MaxRefused \in Nat

VARIABLES
  switch,     \* instinct_agent_containment: "enabled", "stopped", or no row
  opened,     \* tasks with a row in instinct_agent_run_spend
  spent,      \* [Tasks -> duration_ms of that row]
  allowed,    \* [Agents -> rows 'allowed' of the trailing hour]
  refused,    \* [Agents -> rows 'refused_over_ceiling' of the trailing hour]
  pc,         \* [Runs -> Where]
  task,       \* [Runs -> the task being run]
  agent,      \* [Runs -> the agent it is run as]
  left,       \* [Runs -> instructions still to execute]
  used,       \* [Runs -> operations counted, not yet recorded]
  ran,        \* [Runs -> steps with outcome 'ran']
  outcome,    \* [Runs -> status the latest run returned]
  late        \* history: [Runs -> acts on the owner's behalf since the stop]

controlVars == <<switch, opened, spent>>
windowVars  == <<allowed, refused>>
runVars     == <<pc, task, agent, left, used, ran, outcome>>
vars == <<controlVars, windowVars, runVars, late>>

Where == {"idle", "checking", "dispatching", "counting", "recording", "acting", "retrying"}

TypeOK ==
  /\ switch \in {"enabled", "stopped", "absent"}
  /\ opened \subseteq Tasks
  /\ spent \in [Tasks -> Nat]
  /\ allowed \in [Agents -> Nat] /\ refused \in [Agents -> Nat]
  /\ pc \in [Runs -> Where]
  /\ task \in [Runs -> Tasks] /\ agent \in [Runs -> Agents]
  /\ left \in [Runs -> 0..MaxSteps]
  /\ used \in [Runs -> Nat] /\ ran \in [Runs -> Nat]
  /\ outcome \in [Runs -> {"none", "succeeded", "blocked", "failed"}]
  /\ late \in [Runs -> Nat]

(* Migration 227 seeds the default workspace only.                         *)
Init ==
  /\ switch \in {"enabled", "absent"}
  /\ opened = {}
  /\ spent = [t \in Tasks |-> 0]
  /\ allowed = [a \in Agents |-> 0] /\ refused = [a \in Agents |-> 0]
  /\ pc = [r \in Runs |-> "idle"]
  /\ task \in [Runs -> Tasks] /\ agent \in [Runs -> Agents]
  /\ left = [r \in Runs |-> 0]
  /\ used = [r \in Runs |-> 0] /\ ran = [r \in Runs |-> 0]
  /\ outcome = [r \in Runs |-> "none"]
  /\ late = [r \in Runs |-> 0]

-----------------------------------------------------------------------------

(* setAgentsEnabled.  (When the write fails nothing moves, unreported.)    *)
SetAgentsEnabled(s) ==
  /\ switch' = s
  /\ late' = IF s = "enabled" THEN [r \in Runs |-> 0] ELSE late
  /\ UNCHANGED <<opened, spent, windowVars, runVars>>

(* The hour slides: a recorded operation leaves the window.  Which kind is *)
(* oldest is not kept.                                                     *)
HourPasses(a) ==
  /\ \/ /\ allowed[a] > 0
        /\ allowed' = [allowed EXCEPT ![a] = @ - 1]
        /\ UNCHANGED refused
     \/ /\ refused[a] > 0
        /\ refused' = [refused EXCEPT ![a] = @ - 1]
        /\ UNCHANGED allowed
  /\ UNCHANGED <<controlVars, runVars, late>>

-----------------------------------------------------------------------------

(* The plan is made and startRunSpend opens the ledger, keeping what an    *)
(* earlier run of the task has spent; a failed write is swallowed.         *)
Start(r, t, a, n) ==
  /\ pc[r] = "idle"
  /\ refused[a] < MaxRefused
  /\ opened' \in {opened \cup {t}, opened}
  /\ pc'      = [pc      EXCEPT ![r] = "checking"]
  /\ task'    = [task    EXCEPT ![r] = t]
  /\ agent'   = [agent   EXCEPT ![r] = a]
  /\ left'    = [left    EXCEPT ![r] = n]
  /\ ran'     = [ran     EXCEPT ![r] = 0]
  /\ outcome' = [outcome EXCEPT ![r] = "none"]
  /\ UNCHANGED <<switch, spent, windowVars, used, late>>

End(r, s) ==
  /\ pc'      = [pc      EXCEPT ![r] = "idle"]
  /\ outcome' = [outcome EXCEPT ![r] = s]
  /\ used'    = [used    EXCEPT ![r] = 0]
  /\ left'    = [left    EXCEPT ![r] = 0]
  /\ UNCHANGED <<task, agent, ran>>

(* Mutated form of NextStep: limits are checked when a run starts only.    *)
NextStepUnchecked(r, didRun) ==
  /\ pc'   = [pc   EXCEPT ![r] = IF left[r] > 1 THEN "dispatching" ELSE "checking"]
  /\ left' = [left EXCEPT ![r] = @ - 1]
  /\ ran'  = [ran  EXCEPT ![r] = IF didRun THEN @ + 1 ELSE @]
  /\ used' = [used EXCEPT ![r] = 0]
  /\ UNCHANGED <<task, agent, outcome>>

(* On to the next instruction; "ran" says whether this one did.            *)
NextStep(r, didRun) ==
  /\ pc'   = [pc   EXCEPT ![r] = "checking"]
  /\ left' = [left EXCEPT ![r] = @ - 1]
  /\ ran'  = [ran  EXCEPT ![r] = IF didRun THEN @ + 1 ELSE @]
  /\ used' = [used EXCEPT ![r] = 0]
  /\ UNCHANGED <<task, agent, outcome>>

Goto(r, where) ==
  /\ pc' = [pc EXCEPT ![r] = where]
  /\ UNCHANGED <<task, agent, left, used, ran, outcome>>

(* Mutated form of BudgetLeft: off by one.                                 *)
BudgetNotExceeded(t) == spent[t] <= MaxTime

BudgetLeft(t) == spent[t] < MaxTime

(* decideStep on what was read.                                            *)
MayProceed(r) ==
  switch = "enabled" /\ task[r] \in opened /\ BudgetLeft(task[r])

(* Before each step.  The run is refused when it may not proceed, and also *)
(* when a read fails, which may happen to any run.                         *)
Check(r) ==
  /\ pc[r] = "checking" /\ left[r] > 0
  /\ \/ MayProceed(r) /\ Goto(r, "dispatching")
     \/ End(r, "blocked")
  /\ UNCHANGED <<controlVars, windowVars, late>>

(* Mutated form of TerminalStatus: the last ELSE is forgotten.             *)
StillRunning(r) == IF ran[r] = 0 THEN "failed" ELSE "running"

TerminalStatus(r) == IF ran[r] = 0 THEN "failed" ELSE "succeeded"

(* The plan is done and no step was blocked or failed.                     *)
Complete(r) ==
  /\ pc[r] = "checking" /\ left[r] = 0
  /\ End(r, TerminalStatus(r))
  /\ UNCHANGED <<controlVars, windowVars, late>>

(* The time of a dispatch, thrown or not, is added to the ledger; a failed *)
(* UPDATE is swallowed, and one of a row never opened does nothing.        *)
AddRunSpend(t, cost) ==
  \/ t \in opened /\ spent' = [spent EXCEPT ![t] = @ + cost]
  \/ UNCHANGED spent

(* One instruction is dispatched: no tool matches (reasoned about or not), *)
(* a tool answers, the policy gate blocks it, it fails or throws, or it    *)
(* asks for an act (a form, an operation) on the owner's behalf.           *)
Dispatch(r, cost) ==
  /\ pc[r] = "dispatching"
  /\ AddRunSpend(task[r], cost)
  /\ \/ \E didRun \in BOOLEAN : NextStep(r, didRun)
     \/ \E s \in {"blocked", "failed"} : End(r, s)
     \/ Goto(r, "counting")
  /\ UNCHANGED <<switch, opened, windowVars, late>>

(* checkAndRecordOperation, the count: refusals count too.  A failed read  *)
(* refuses the operation.                                                  *)
Count(r) ==
  /\ pc[r] = "counting"
  /\ \/ /\ used' = [used EXCEPT ![r] = allowed[agent[r]] + refused[agent[r]]]
        /\ pc'   = [pc   EXCEPT ![r] = "recording"]
        /\ UNCHANGED <<task, agent, left, ran, outcome>>
     \/ End(r, "blocked")
  /\ UNCHANGED <<controlVars, windowVars, late>>

(* Mutated form of Over: one operation too many.                           *)
WellOver(r) == Ceiling > 0 /\ used[r] > Ceiling

Over(r) == Ceiling > 0 /\ used[r] >= Ceiling

(* checkAndRecordOperation, the INSERT and the verdict; a failed INSERT    *)
(* refuses the operation too.                                              *)
Record(r) ==
  /\ pc[r] = "recording"
  /\ \/ /\ Over(r)
        /\ refused' = [refused EXCEPT ![agent[r]] = @ + 1]
        /\ UNCHANGED allowed
        /\ End(r, "blocked")
     \/ /\ ~Over(r)
        /\ allowed' = [allowed EXCEPT ![agent[r]] = @ + 1]
        /\ UNCHANGED refused
        /\ Goto(r, "acting")
     \/ UNCHANGED windowVars /\ End(r, "blocked")
  /\ UNCHANGED <<controlVars, late>>

(* The act: held for approval or short of a required field (blocked), no   *)
(* owner or token (failed), or the call is made, and answers 2xx or not,   *)
(* or throws, whether or not it arrived.                                   *)
Act(r) ==
  /\ pc[r] = "acting"
  /\ \/ \E s \in {"blocked", "failed"} : End(r, s) /\ UNCHANGED late
     \/ /\ late' = [late EXCEPT ![r] = IF switch = "enabled" THEN @ ELSE @ + 1]
        /\ NextStep(r, TRUE) \/ End(r, "failed") \/ Goto(r, "retrying")
  /\ UNCHANGED <<controlVars, windowVars>>

(* internalFetch calls once more after a throw, whatever the method.       *)
Retry(r) ==
  /\ pc[r] = "retrying"
  /\ NextStep(r, TRUE) \/ End(r, "failed")
  /\ UNCHANGED <<controlVars, windowVars, late>>

(* The invocation dies; the row's fate is AgentTasks' subject.             *)
RunDies(r) ==
  /\ pc[r] # "idle"
  /\ End(r, "none")
  /\ UNCHANGED <<controlVars, windowVars, late>>

RunStep(r) ==
  \/ \E t \in Tasks, a \in Agents, n \in 1..MaxSteps : Start(r, t, a, n)
  \/ \E cost \in 0..MaxCost : Dispatch(r, cost)
  \/ Check(r) \/ Complete(r) \/ Count(r) \/ Record(r) \/ Act(r) \/ Retry(r) \/ RunDies(r)

Next ==
  \/ \E r \in Runs : RunStep(r)
  \/ \E s \in {"enabled", "stopped"} : SetAgentsEnabled(s)
  \/ \E a \in Agents : HourPasses(a)

Spec == Init /\ [][Next]_vars

-----------------------------------------------------------------------------
(* Properties.                                                             *)

(* A stop takes hold within the step: whatever a run had already read when *)
(* the switch was thrown, it acts on its owner's behalf at most once more  *)
(* before somebody resumes agent work (budget.ts:16, "checked before every *)
(* step rather than at the start of a run").  A call that internalFetch    *)
(* repeats counts as one act.                                              *)
StopTakesHold == \A r \in Runs : switch # "enabled" => late[r] <= 1

(* The time budget binds across every run of a task: what its ledger has   *)
(* recorded exceeds the budget by less than one dispatch per concurrent    *)
(* run, restarts included.  (Lost ledger writes, and the time spent        *)
(* reasoning and acting, are not in the ledger at all.)                    *)
TimeBudgetBinds ==
  \A t \in Tasks : spent[t] < MaxTime + Cardinality(Runs) * MaxCost

(* The ceiling's true bound: the count and the INSERT are two statements,  *)
(* so concurrent runs of an agent exceed it, but never by as many          *)
(* operations as there are runs.                                           *)
CeilingOvershoot ==
  Ceiling > 0 =>
    \A a \in Agents : allowed[a] < Ceiling + Cardinality(Runs)

(* Where runs do not overlap, the ceiling is the ceiling (ceiling.ts:22-23,*)
(* "being able to say what the ceiling is rather than what it usually is") *)
(* and a task outspends its budget by less than one dispatch: what exceeds *)
(* them above is owed to concurrency alone.                                *)
LimitsAreExact ==
  /\ Ceiling > 0 => \A a \in Agents : allowed[a] <= Ceiling
  /\ \A t \in Tasks : spent[t] < MaxTime + MaxCost
=============================================================================
