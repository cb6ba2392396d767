----------------------------- MODULE TaskTable -----------------------------
(***************************************************************************)
(* The table instinct_agent_tasks and the statements the code issues on it *)
(* (lib/agents/tasks/store.ts, lib/agents/failover/store.ts).              *)
(*                                                                         *)
(* Every statement is its own transaction (lib/db.ts query, no enclosing   *)
(* transaction anywhere on these paths), so each is one atomic step and    *)
(* anything may happen between two of them.  The process modules           *)
(* (AgentTasks, AgentFailover) write the table through these operators     *)
(* only.                                                                   *)
(*                                                                         *)
(* A row is a number of 1..MaxTasks; rows are inserted in that order, so   *)
(* the number stands for created_at, the order claimNextQueuedTask reads.  *)
(***************************************************************************)
EXTENDS Naturals

CONSTANTS
  Agents,    \* agent principals
  NoAgent,   \* the agent of a row that does not exist yet; a NULL agent column
  MaxTasks   \* bound: rows ever inserted

ASSUME TableAssumption ==
  /\ MaxTasks \in Nat
  /\ NoAgent \notin Agents

VARIABLES
  status,       \* [Tasks -> Status]
  agent_id,     \* [Tasks -> Agents \cup {NoAgent}]
  started_at,   \* [Tasks -> StartedAt]: against the stall window, not a clock
  retry_count   \* [Tasks -> Nat]

tableVars == <<status, agent_id, started_at, retry_count>>

Tasks    == 1..MaxTasks
Terminal == {"succeeded", "blocked", "failed"}
Status   == {"absent", "queued", "running"} \cup Terminal

(* NULL, within the stall window, or older than it (DEFAULT_STALL_MS).     *)
StartedAt == {"null", "recent", "stale"}

TableInit ==
  /\ status      = [t \in Tasks |-> "absent"]
  /\ agent_id    = [t \in Tasks |-> NoAgent]
  /\ started_at  = [t \in Tasks |-> "null"]
  /\ retry_count = [t \in Tasks |-> 0]

TableTypeOK ==
  /\ status      \in [Tasks -> Status]
  /\ agent_id    \in [Tasks -> Agents \cup {NoAgent}]
  /\ started_at  \in [Tasks -> StartedAt]
  /\ retry_count \in [Tasks -> Nat]

-----------------------------------------------------------------------------

(* createTask: the INSERT names no status, so the column default 'queued'. *)
InsertTask(t, a) ==
  /\ status[t] = "absent"
  /\ \A u \in Tasks : u < t => status[u] # "absent"
  /\ status'   = [status   EXCEPT ![t] = "queued"]
  /\ agent_id' = [agent_id EXCEPT ![t] = a]
  /\ UNCHANGED <<started_at, retry_count>>

(* Mutated form of QueuedFor: WHERE agent_id without status = 'queued'.    *)
UnfinishedFor(a) == {t \in Tasks : status[t] \in {"queued", "running"} /\ agent_id[t] = a}

QueuedFor(a) == {t \in Tasks : status[t] = "queued" /\ agent_id[t] = a}

(* claimNextQueuedTask: one UPDATE over the oldest queued row of the agent *)
(* (FOR UPDATE SKIP LOCKED makes concurrent claims take different rows).   *)
ClaimNextQueuedTask(t, a) ==
  /\ t \in QueuedFor(a)
  /\ \A u \in QueuedFor(a) : t <= u
  /\ status'     = [status     EXCEPT ![t] = "running"]
  /\ started_at' = [started_at EXCEPT ![t] = "recent"]
  /\ UNCHANGED <<agent_id, retry_count>>

(* completeTask: WHERE id = $1 and nothing else, whoever ran the task and  *)
(* whatever became of the row meanwhile.                                   *)
CompleteTask(t, s) ==
  /\ status' = [status EXCEPT ![t] = s]
  /\ UNCHANGED <<agent_id, started_at, retry_count>>

(* Mutated form of Stalled: the SELECT forgets the window.                 *)
Running(t) == status[t] = "running"

(* The row the stall window has run out on, as the sweep selects it.       *)
Stalled(t) == status[t] = "running" /\ started_at[t] = "stale"

(* Mutated form of RequeueStalled: UPDATE ... WHERE id, no status guard.   *)
RequeueUnguarded(t) ==
  /\ status'      = [status      EXCEPT ![t] = "queued"]
  /\ started_at'  = [started_at  EXCEPT ![t] = "null"]
  /\ retry_count' = [retry_count EXCEPT ![t] = @ + 1]
  /\ UNCHANGED agent_id

(* reclaimStalledTasks, under the cap: guarded by status = 'running' only. *)
RequeueStalled(t) ==
  IF status[t] = "running"
  THEN /\ status'      = [status      EXCEPT ![t] = "queued"]
       /\ started_at'  = [started_at  EXCEPT ![t] = "null"]
       /\ retry_count' = [retry_count EXCEPT ![t] = @ + 1]
       /\ UNCHANGED agent_id
  ELSE UNCHANGED tableVars

(* reclaimStalledTasks, over the cap.                                      *)
FailStalled(t) ==
  IF status[t] = "running"
  THEN /\ status' = [status EXCEPT ![t] = "failed"]
       /\ UNCHANGED <<agent_id, started_at, retry_count>>
  ELSE UNCHANGED tableVars

(* Mutated form of ReassignTask: no status guard.                          *)
ReassignUnguarded(t, b) ==
  /\ agent_id' = [agent_id EXCEPT ![t] = b]
  /\ UNCHANGED <<status, started_at, retry_count>>

(* failoverUnhealthyAgents: guarded by status = 'queued', not by agent_id. *)
ReassignTask(t, b) ==
  IF status[t] = "queued"
  THEN /\ agent_id' = [agent_id EXCEPT ![t] = b]
       /\ UNCHANGED <<status, started_at, retry_count>>
  ELSE UNCHANGED tableVars

(* Time passes: the stall window of a running row runs out.                *)
StallWindowPasses(t) ==
  /\ status[t] = "running"
  /\ started_at[t] = "recent"
  /\ started_at' = [started_at EXCEPT ![t] = "stale"]
  /\ UNCHANGED <<status, agent_id, retry_count>>

-----------------------------------------------------------------------------
(* The table under every statement the code issues, in any order and by    *)
(* anybody: what AgentTasks and AgentFailover, which each model some of    *)
(* the table's users closely and the others loosely, have in common.       *)

TableNext ==
  \/ \E t \in Tasks, a \in Agents :
       InsertTask(t, a) \/ ClaimNextQueuedTask(t, a) \/ ReassignTask(t, a)
  \/ \E t \in Tasks, s \in Terminal : status[t] # "absent" /\ CompleteTask(t, s)
  \/ \E t \in Tasks : RequeueStalled(t) \/ FailStalled(t) \/ StallWindowPasses(t)

TableSpec == TableInit /\ [][TableNext]_tableVars

(* The sweep finds every running row: its SELECT skips rows whose          *)
(* started_at is NULL (failover/store.ts:188), so a row that came to run   *)
(* without the time of its claim would never be reclaimed; and a row that  *)
(* waits carries no time of an earlier run.                                *)
RunningIsTimed ==
  \A t \in Tasks :
    /\ status[t] = "running" => started_at[t] # "null"
    /\ status[t] = "queued"  => started_at[t] = "null"

(* A row never goes away or opens again; it comes back to the queue only   *)
(* from a run, and counts that as a retry; it changes hands only while it  *)
(* waits.                                                                  *)
RowStep(t) ==
  /\ status[t] # "absent" => status'[t] # "absent"
  /\ status[t] \in Terminal => status'[t] \in Terminal
  /\ status[t] = "running" /\ status'[t] = "queued" <=> retry_count'[t] # retry_count[t]
  /\ retry_count'[t] \in {retry_count[t], retry_count[t] + 1}
  /\ agent_id'[t] # agent_id[t] => status[t] \in {"absent", "queued"}

(* That is all any statement does to any row, whatever it was meant for.   *)
LifeOfARow == [][\A t \in Tasks : RowStep(t)]_tableVars
=============================================================================
