--------------------------- MODULE WriteApproval ---------------------------
(***************************************************************************)
(* Writes of an agent held for a person's decision                         *)
(* (lib/agents/approvals, POST /api/admin/agents/approvals/[id]).          *)
(*                                                                         *)
(* Rows of instinct_agent_pending_approvals come from the executor, which  *)
(* holds an operation of a gated agent (the row's tool is the operation's  *)
(* id), and from the code pipeline, which hands over a pull request to     *)
(* open.  Any number of people may approve or reject one row at the same   *)
(* time; each request is a chain of separate statements and may die        *)
(* between two of them, while agents are stopped and rows expire.          *)
(***************************************************************************)
EXTENDS Naturals, FiniteSets

CONSTANTS
  Agents,
  Requests,   \* approve / reject requests in flight
  MaxRows     \* bound: approvals ever captured

ASSUME ApprovalAssumption == MaxRows \in Nat /\ Agents # {}

VARIABLES
  active,     \* [Agents -> state = 'active']
  status,     \* [Rows -> Status]
  tool,       \* [Rows -> kind of captured write]
  agentOf,    \* [Rows -> agent_id]
  expired,    \* [Rows -> expires_at has passed]
  runs,       \* [Rows -> times the captured write reached the other side]
  pc,         \* [Requests -> Where]
  row,        \* [Requests -> the row being decided]
  late        \* history: [Agents -> [Requests -> writes executed since the stop]]

rowVars     == <<status, tool, agentOf, expired>>
requestVars == <<pc, row>>
writeVars   == <<runs, late>>
vars == <<active, rowVars, writeVars, requestVars>>

Rows == 1..MaxRows

(* "operation": an operation id.  "open_pr": the one key of EXECUTORS that *)
(* is ever captured.                                                       *)
Tools  == {"operation", "open_pr"}
Status == {"absent", "pending", "approved", "rejected", "executed"}
Where  == {"idle", "rejecting", "checking", "validating", "claiming", "executing", "recording"}

TypeOK ==
  /\ active \in [Agents -> BOOLEAN]
  /\ status \in [Rows -> Status]
  /\ tool \in [Rows -> Tools] /\ agentOf \in [Rows -> Agents]
  /\ expired \in [Rows -> BOOLEAN]
  /\ runs \in [Rows -> Nat]
  /\ pc \in [Requests -> Where]
  /\ row \in [Requests -> Rows \cup {0}]
  /\ late \in [Agents -> [Requests -> Nat]]

Init ==
  /\ active = [a \in Agents |-> TRUE]
  /\ status = [h \in Rows |-> "absent"]
  /\ tool = [h \in Rows |-> "operation"]
  /\ agentOf = [h \in Rows |-> CHOOSE a \in Agents : TRUE]
  /\ expired = [h \in Rows |-> FALSE]
  /\ runs = [h \in Rows |-> 0]
  /\ pc = [q \in Requests |-> "idle"]
  /\ row = [q \in Requests |-> 0]
  /\ late = [a \in Agents |-> [q \in Requests |-> 0]]

-----------------------------------------------------------------------------
(* What happens around the approvals.                                      *)

SetAgentState(a, b) ==
  /\ active' = [active EXCEPT ![a] = b]
  /\ late' = IF b THEN [late EXCEPT ![a] = [q \in Requests |-> 0]] ELSE late
  /\ UNCHANGED <<rowVars, runs, requestVars>>

Expire(h) ==
  /\ status[h] # "absent"
  /\ expired' = [expired EXCEPT ![h] = TRUE]
  /\ UNCHANGED <<active, status, tool, agentOf, writeVars, requestVars>>

(* createPendingApproval.                                                  *)
CreatePendingApproval(h, a, k) ==
  /\ status[h] = "absent"
  /\ \A g \in Rows : g < h => status[g] # "absent"
  /\ status'  = [status  EXCEPT ![h] = "pending"]
  /\ tool'    = [tool    EXCEPT ![h] = k]
  /\ agentOf' = [agentOf EXCEPT ![h] = a]
  /\ UNCHANGED <<active, expired, writeVars, requestVars>>

(* holdWriteForApproval, where it holds: the agent's flag is set, or could *)
(* not be read.  A write it lets through, or refuses because the capture   *)
(* failed, leaves nothing here.                                            *)
HoldWrite(h, a) == CreatePendingApproval(h, a, "operation")

(* The pipeline's handoff, in the name of the agent ensureCodeGateAgent    *)
(* answers, whose state it leaves as it is.                                *)
HandOff(h, a) == CreatePendingApproval(h, a, "open_pr")

-----------------------------------------------------------------------------
(* One request.                                                            *)

Goto(q, where) == pc' = [pc EXCEPT ![q] = where] /\ UNCHANGED row

Answer(q) ==
  /\ pc'  = [pc  EXCEPT ![q] = "idle"]
  /\ row' = [row EXCEPT ![q] = 0]

(* getPendingApproval; a row that is not pending is answered at once.      *)
(* Expiry is not looked at here.                                           *)
BeginReview(q, h, where) ==
  /\ pc[q] = "idle"
  /\ status[h] = "pending"
  /\ pc'  = [pc  EXCEPT ![q] = where]
  /\ row' = [row EXCEPT ![q] = h]
  /\ UNCHANGED <<active, rowVars, writeVars>>

(* Mutated form of Undecided: the guard on status is dropped.              *)
Unexpired(h) == ~expired[h]

(* Mutated form of Undecided: the guard on expires_at is dropped.          *)
StillPending(h) == status[h] = "pending"

Undecided(h) == status[h] = "pending" /\ ~expired[h]

(* decidePendingApproval(h, "rejected"): no row, nothing changes.          *)
Reject(q) ==
  /\ pc[q] = "rejecting"
  /\ status' = IF Undecided(row[q]) THEN [status EXCEPT ![row[q]] = "rejected"] ELSE status
  /\ Answer(q)
  /\ UNCHANGED <<active, tool, agentOf, expired, writeVars>>

(* Mutated form of CheckAgent: only a failed read rejects the row.         *)
CheckAgentRead(q) ==
  /\ pc[q] = "checking"
  /\ \/ Goto(q, "rejecting")
     \/ IF tool[row[q]] = "open_pr" THEN Goto(q, "validating") ELSE Answer(q)
  /\ UNCHANGED <<active, rowVars, writeVars>>

(* The re-check of the agent.  A failed read is an agent that is not       *)
(* active, and an agent that is not active rejects the row.                *)
CheckAgent(q) ==
  /\ pc[q] = "checking"
  /\ \/ Goto(q, "rejecting")
     \/ /\ active[agentOf[row[q]]]
        /\ IF tool[row[q]] = "open_pr" THEN Goto(q, "validating") ELSE Answer(q)
  /\ UNCHANGED <<active, rowVars, writeVars>>

(* validateBeforePr, where it is turned on: not green yet, the row stays   *)
(* pending for a later try.                                                *)
Validate(q) ==
  /\ pc[q] = "validating"
  /\ Goto(q, "claiming") \/ Answer(q)
  /\ UNCHANGED <<active, rowVars, writeVars>>

(* decidePendingApproval(h, "approved").                                   *)
Claim(q) ==
  /\ pc[q] = "claiming"
  /\ IF Undecided(row[q])
     THEN status' = [status EXCEPT ![row[q]] = "approved"] /\ Goto(q, "executing")
     ELSE UNCHANGED status /\ Answer(q)
  /\ UNCHANGED <<active, tool, agentOf, expired, writeVars>>

CountLate(q) ==
  LET a == agentOf[row[q]] IN
  late' = IF active[a] THEN late ELSE [late EXCEPT ![a][q] = @ + 1]

(* Mutated form of Execute: an executor that reports failure is not        *)
(* recorded, and its row may be claimed again.                             *)
ExecuteOrRelease(q) ==
  /\ pc[q] = "executing"
  /\ runs' = [runs EXCEPT ![row[q]] = @ + 1]
  /\ CountLate(q)
  /\ \/ Goto(q, "recording") /\ UNCHANGED status
     \/ Answer(q) /\ status' = [status EXCEPT ![row[q]] = "pending"]
  /\ UNCHANGED <<active, tool, agentOf, expired>>

(* The executor: the write reaches the other side or fails before it does. *)
Execute(q) ==
  /\ pc[q] = "executing"
  /\ \/ runs' = [runs EXCEPT ![row[q]] = @ + 1]
     \/ UNCHANGED runs
  /\ CountLate(q)
  /\ Goto(q, "recording")
  /\ UNCHANGED <<active, rowVars>>

(* Mutated form of MarkApprovalExecuted: 'done' is not a Status.           *)
MarkApprovalDone(q) ==
  /\ pc[q] = "recording"
  /\ status' = [status EXCEPT ![row[q]] = "done"]
  /\ Answer(q)
  /\ UNCHANGED <<active, tool, agentOf, expired, writeVars>>

(* markApprovalExecuted: unguarded; an error is logged and swallowed.      *)
MarkApprovalExecuted(q) ==
  /\ pc[q] = "recording"
  /\ \/ status' = [status EXCEPT ![row[q]] = "executed"]
     \/ UNCHANGED status
  /\ Answer(q)
  /\ UNCHANGED <<active, tool, agentOf, expired, writeVars>>

RequestDies(q) ==
  /\ pc[q] # "idle"
  /\ Answer(q)
  /\ UNCHANGED <<active, rowVars, writeVars>>

-----------------------------------------------------------------------------

RequestStep(q) ==
  \/ \E h \in Rows : BeginReview(q, h, "rejecting") \/ BeginReview(q, h, "checking")
  \/ Reject(q) \/ CheckAgent(q) \/ Validate(q) \/ Claim(q)
  \/ Execute(q) \/ MarkApprovalExecuted(q) \/ RequestDies(q)

AgentStep(a) ==
  \/ \E b \in BOOLEAN : SetAgentState(a, b)
  \/ \E h \in Rows : HoldWrite(h, a) \/ HandOff(h, a)

Next ==
  \/ \E q \in Requests : RequestStep(q)
  \/ \E a \in Agents : AgentStep(a)
  \/ \E h \in Rows : Expire(h)

Spec == Init /\ [][Next]_vars

(* Somebody keeps clicking approve while a row waits, and requests do get  *)
(* to their next statement.                                                *)
Fairness ==
  \A q \in Requests :
    /\ \A h \in Rows : SF_vars(BeginReview(q, h, "checking"))
    /\ SF_vars(CheckAgent(q)) /\ SF_vars(Reject(q)) /\ SF_vars(Claim(q))

FairSpec == Spec /\ Fairness

-----------------------------------------------------------------------------
(* Properties.                                                             *)

InExecutor(q) == pc[q] \in {"executing", "recording"}

(* However many people approve one row at once, and however late their     *)
(* requests come back, one request at a time executes it                   *)
(* (route.ts:124-125, "a concurrent approve cannot run the write twice").  *)
OneExecutor ==
  \A q1, q2 \in Requests :
    InExecutor(q1) /\ InExecutor(q2) /\ q1 # q2 => row[q1] # row[q2]

(* A stop lets at most one write through for each request in flight: the   *)
(* agent is read as active before the validation and the claim, and not    *)
(* again ("pausing or revoking it in the fleet stops every pending PR-open *)
(* cold", agents/store.ts:119-120).                                        *)
StopBoundsWrites ==
  \A a \in Agents, q \in Requests : ~active[a] => late[a][q] <= 1

(* The approvals implement the promise: decided once, refused for good,    *)
(* run at most once and only after having been granted.                    *)
DecisionOn(s) ==
  IF s = "absent" THEN "none"
  ELSE IF s = "pending" THEN "waiting"
  ELSE IF s = "rejected" THEN "refused" ELSE "granted"

Decision == [h \in Rows |-> DecisionOn(status[h])]

Promise == INSTANCE CapturedWrite WITH Writes <- Rows, decision <- Decision

ImplementsCapturedWrite == Promise!Spec

(* The executor's own held writes go nowhere: nothing a person does, in    *)
(* any order, ever grants or runs one, since the approve route leaves      *)
(* without a decision on a tool that EXECUTORS does not name.              *)
OperationsNeverRun ==
  \A h \in Rows :
    tool[h] = "operation" => runs[h] = 0 /\ status[h] \notin {"approved", "executed"}

(* "Captured proposals expire so a stale write can't be approved days      *)
(* later" (approvals/store.ts:31): a row that expires before it is decided *)
(* is out of everybody's reach, also of the requests that had read it as   *)
(* pending.  The reads do not look at the expiry; the claim does.          *)
ExpiredStaysClosed ==
  [][\A h \in Rows :
       status[h] = "pending" /\ expired[h] =>
         status'[h] = "pending" /\ expired'[h] /\ runs'[h] = 0]_vars

(* "A held write is recoverable in one click" (approvals/gate.ts:41-42):   *)
(* while people keep approving it, a held write does not stay undecided.   *)
HeldWriteRecoverable ==
  \A h \in Rows : ~<>[](Undecided(h) /\ tool[h] = "operation" /\ active[agentOf[h]])
=============================================================================
