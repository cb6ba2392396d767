--------------------------- MODULE AgentFailover ---------------------------
(***************************************************************************)
(* Failover of a paused or revoked agent's queued tasks to its backup      *)
(* (lib/agents/failover/store.ts), beside the people who meanwhile change  *)
(* what the sweep reads: lifecycle states, backup designations, connector  *)
(* bindings, and the queue itself.                                         *)
(*                                                                         *)
(* A sweep is a chain of separate statements: the unhealthy primaries,     *)
(* then for each its queued rows, its backup's state, both sets of         *)
(* connectors (read side by side, one step here), then one UPDATE per row. *)
(* Nothing read is locked.  Reads go through safeQuery, which answers a    *)
(* database error with no rows.                                            *)
(***************************************************************************)
EXTENDS TaskTable, FiniteSets

CONSTANTS
  Connectors,    \* connectors an agent may be bound to
  Sweepers,      \* overlapping invocations of the sweep
  Admins,        \* requests that designate backups
  RetryCap,      \* RETRY_CAP
  MaxEdits,      \* bound: designations and bindings ever made
  Down,          \* the unhealthy states agents enter in the run
  ReadsMayFail   \* whether a database read may fail in the run

ASSUME FailoverAssumption ==
  /\ RetryCap \in Nat /\ MaxEdits \in Nat
  /\ Down \subseteq {"paused", "revoked"}
  /\ ReadsMayFail \in BOOLEAN

VARIABLES
  agent_state,   \* [Agents -> AgentState]
  backup,        \* [Agents -> Agents \cup {NoAgent}]: backup_agent_id
  bound,         \* [Agents -> SUBSET Connectors]: instinct_agent_connections
  assigning,     \* agents read as active by an assignment about to insert
  designating,   \* [Admins -> <<agent, backup>> checked and about to be written]
  phase,         \* [Sweepers -> Phases]
  primaries,     \* [Sweepers -> <<primary, backup>> rows read, not yet handled]
  current,       \* [Sweepers -> the row being handled]
  moving,        \* [Sweepers -> queued rows read for it, not yet moved]
  edits,         \* designations and bindings made so far
  misread        \* history: who goes by a read that failed: admins of the backup's
                 \* backup, sweeps of their primary's connectors

rosterVars == <<agent_state, backup, bound, edits>>
sweepVars  == <<phase, primaries, current, moving>>
vars == <<tableVars, rosterVars, assigning, designating, sweepVars, misread>>

AgentState == {"active"} \cup Down
Phases     == {"idle", "primaries", "backup", "scope", "moving"}
Pairs      == Agents \X (Agents \cup {NoAgent})
NoPair     == <<NoAgent, NoAgent>>

TypeOK ==
  /\ TableTypeOK
  /\ agent_state \in [Agents -> AgentState]
  /\ backup      \in [Agents -> Agents \cup {NoAgent}]
  /\ bound       \in [Agents -> SUBSET Connectors]
  /\ assigning   \subseteq Agents
  /\ designating \in [Admins -> Pairs \cup {NoPair}]
  /\ phase       \in [Sweepers -> Phases]
  /\ primaries   \in [Sweepers -> SUBSET (Agents \X Agents)]
  /\ current     \in [Sweepers -> (Agents \X Agents) \cup {NoPair}]
  /\ moving      \in [Sweepers -> SUBSET Tasks]
  /\ edits       \in 0..MaxEdits
  /\ misread     \subseteq Admins \cup Sweepers

(* A roster as onboarding left it: activated, bound to any connectors.     *)
Init ==
  /\ TableInit
  /\ agent_state = [a \in Agents |-> "active"]
  /\ backup      = [a \in Agents |-> NoAgent]
  /\ bound       \in [Agents -> SUBSET Connectors]
  /\ assigning   = {}
  /\ designating = [d \in Admins |-> NoPair]
  /\ phase       = [s \in Sweepers |-> "idle"]
  /\ primaries   = [s \in Sweepers |-> {}]
  /\ current     = [s \in Sweepers |-> NoPair]
  /\ moving      = [s \in Sweepers |-> {}]
  /\ edits       = 0
  /\ misread     = {}

-----------------------------------------------------------------------------
(* The roster.                                                             *)

SetAgentState(a, s) ==
  /\ agent_state' = [agent_state EXCEPT ![a] = s]
  /\ UNCHANGED <<tableVars, backup, bound, edits, assigning, designating, misread, sweepVars>>

Edit == edits < MaxEdits /\ edits' = edits + 1

BindConnection(a, c) ==
  /\ Edit
  /\ c \notin bound[a]
  /\ bound' = [bound EXCEPT ![a] = @ \cup {c}]
  /\ UNCHANGED <<tableVars, agent_state, backup, assigning, designating, misread, sweepVars>>

UnbindConnection(a, c) ==
  /\ Edit
  /\ c \in bound[a]
  /\ bound' = [bound EXCEPT ![a] = @ \ {c}]
  /\ UNCHANGED <<tableVars, agent_state, backup, assigning, designating, misread, sweepVars>>

(* getBackupAgentId: a failed read answers as a row without a backup.      *)
BackupRead(b) == {backup[b]} \cup (IF ReadsMayFail THEN {NoAgent} ELSE {})

(* Mutated form of Refused: what was read is compared with the wrong one.  *)
RefusedIfOwn(a, b, backupsBackup) == backupsBackup = b

Refused(a, b, backupsBackup) == backupsBackup = a

(* setBackupAgent, the reads: not itself, and not an agent whose own       *)
(* backup is read as this one.  Nothing is read to clear a designation.    *)
CheckBackup(d, a, b, backupsBackup) ==
  /\ designating[d] = NoPair
  /\ Edit
  /\ b # a
  /\ IF b = NoAgent THEN backupsBackup = NoAgent
     ELSE backupsBackup \in BackupRead(b) /\ ~Refused(a, b, backupsBackup)
  /\ designating' = [designating EXCEPT ![d] = <<a, b>>]
  /\ misread' = IF b = NoAgent \/ backupsBackup = backup[b] THEN misread ELSE misread \cup {d}
  /\ UNCHANGED <<tableVars, agent_state, backup, bound, assigning, sweepVars>>

(* setBackupAgent, the write.                                              *)
WriteBackup(d) ==
  /\ designating[d] # NoPair
  /\ backup' = [backup EXCEPT ![designating[d][1]] = designating[d][2]]
  /\ designating' = [designating EXCEPT ![d] = NoPair]
  /\ misread' = misread \ {d}
  /\ UNCHANGED <<tableVars, agent_state, bound, edits, assigning, sweepVars>>

-----------------------------------------------------------------------------
(* The queue, as AgentTasks' handlers and reclaiming sweeps write it.      *)

(* Bound: no more assignments in flight than rows left to insert; one more *)
(* could do nothing.                                                       *)
RowsLeft == Cardinality({t \in Tasks : status[t] = "absent"})

BeginAssign(a) ==
  /\ agent_state[a] = "active"
  /\ Cardinality(assigning) < RowsLeft
  /\ assigning' = assigning \cup {a}
  /\ UNCHANGED <<tableVars, rosterVars, designating, misread, sweepVars>>

CreateTask(t, a) ==
  /\ a \in assigning
  /\ InsertTask(t, a)
  /\ assigning' = assigning \ {a}
  /\ UNCHANGED <<rosterVars, designating, misread, sweepVars>>

(* A drain that began while the agent was active may outlive its pause.    *)
ClaimTask(t, a) ==
  /\ ClaimNextQueuedTask(t, a)
  /\ UNCHANGED <<rosterVars, assigning, designating, misread, sweepVars>>

FinishTask(t, s) ==
  /\ status[t] \in {"queued", "running"}
  /\ CompleteTask(t, s)
  /\ UNCHANGED <<rosterVars, assigning, designating, misread, sweepVars>>

(* Over or under the cap is decided by the count the SELECT read, which    *)
(* may be old: other sweeps may have requeued the row since, one time each *)
(* (AgentTasks has the SELECT as a step of its own).                       *)
OtherSweeps == Cardinality(Sweepers) - 1
ReclaimTask(t) ==
  /\ status[t] = "running"
  /\ \/ retry_count[t] < RetryCap + OtherSweeps /\ RequeueStalled(t)
     \/ retry_count[t] >= RetryCap /\ FailStalled(t)
  /\ UNCHANGED <<rosterVars, assigning, designating, misread, sweepVars>>

-----------------------------------------------------------------------------
(* The sweep.                                                              *)

Unhealthy(a) == agent_state[a] \in {"paused", "revoked"}

(* Mutated form of Failing: backup_agent_id IS NOT NULL is forgotten.      *)
FailingAtAll == {p \in Agents : Unhealthy(p)}

Failing == {p \in Agents : Unhealthy(p) /\ backup[p] # NoAgent}

SelectPrimaries(s) ==
  /\ phase[s] = "idle"
  /\ Failing # {}
  /\ primaries' = [primaries EXCEPT ![s] = {<<p, backup[p]>> : p \in Failing}]
  /\ phase' = [phase EXCEPT ![s] = "primaries"]
  /\ UNCHANGED <<tableVars, rosterVars, assigning, designating, misread, current, moving>>

(* Done with the row in hand: on to the next primary.                      *)
NextPrimary(s) ==
  /\ phase'   = [phase   EXCEPT ![s] = "primaries"]
  /\ current' = [current EXCEPT ![s] = NoPair]
  /\ moving'  = [moving  EXCEPT ![s] = {}]
  /\ misread' = misread \ {s}

(* The queued rows of one primary; none (or a failed read): continue.      *)
ReadQueued(s, pb) ==
  /\ phase[s] = "primaries"
  /\ pb \in primaries[s]
  /\ primaries' = [primaries EXCEPT ![s] = @ \ {pb}]
  /\ \E rows \in {QueuedFor(pb[1])} \cup (IF ReadsMayFail THEN {{}} ELSE {}) :
       IF rows = {} THEN NextPrimary(s)
       ELSE /\ phase'   = [phase   EXCEPT ![s] = "backup"]
            /\ current' = [current EXCEPT ![s] = pb]
            /\ moving'  = [moving  EXCEPT ![s] = rows]
            /\ UNCHANGED misread
  /\ UNCHANGED <<tableVars, rosterVars, assigning, designating>>

(* getAgent(backup): skipped unless it is read, and read as active.        *)
ReadBackupState(s) ==
  /\ phase[s] = "backup"
  /\ \/ /\ agent_state[current[s][2]] = "active"
        /\ phase' = [phase EXCEPT ![s] = "scope"]
        /\ UNCHANGED <<current, moving, misread>>
     \/ /\ agent_state[current[s][2]] # "active" \/ ReadsMayFail
        /\ NextPrimary(s)
  /\ UNCHANGED <<tableVars, rosterVars, assigning, designating, primaries>>

(* listAgentConnectionNames: a failed read is an empty list.               *)
ConnectionsRead(a) == {bound[a]} \cup (IF ReadsMayFail THEN {{}} ELSE {})

(* Mutated form of missingConnections: the arguments are swapped.          *)
surplusConnections(ofPrimary, ofBackup) == ofBackup \ ofPrimary

missingConnections(ofPrimary, ofBackup) == ofPrimary \ ofBackup

(* The backup must hold every connector of the primary, as they were read. *)
CompareScopes(s, ofPrimary, ofBackup) ==
  /\ phase[s] = "scope"
  /\ ofPrimary \in ConnectionsRead(current[s][1])
  /\ ofBackup  \in ConnectionsRead(current[s][2])
  /\ IF missingConnections(ofPrimary, ofBackup) = {}
     THEN /\ phase' = [phase EXCEPT ![s] = "moving"]
          /\ misread' = IF ofPrimary = bound[current[s][1]] THEN misread ELSE misread \cup {s}
          /\ UNCHANGED <<current, moving>>
     ELSE NextPrimary(s)
  /\ UNCHANGED <<tableVars, rosterVars, assigning, designating, primaries>>

MoveRow(s, t) ==
  /\ phase[s] = "moving"
  /\ t \in moving[s]
  /\ ReassignTask(t, current[s][2])
  /\ moving' = [moving EXCEPT ![s] = @ \ {t}]
  /\ UNCHANGED <<rosterVars, assigning, designating, misread, phase, primaries, current>>

(* The UPDATE throws: logged, on to the next row.                          *)
MoveRowFails(s, t) ==
  /\ phase[s] = "moving"
  /\ t \in moving[s]
  /\ moving' = [moving EXCEPT ![s] = @ \ {t}]
  /\ UNCHANGED <<tableVars, rosterVars, assigning, designating, misread, phase, primaries, current>>

AllMoved(s) ==
  /\ phase[s] = "moving"
  /\ moving[s] = {}
  /\ NextPrimary(s)
  /\ UNCHANGED <<tableVars, rosterVars, assigning, designating, primaries>>

EndOfSweep(s) ==
  /\ phase'     = [phase     EXCEPT ![s] = "idle"]
  /\ primaries' = [primaries EXCEPT ![s] = {}]
  /\ current'   = [current   EXCEPT ![s] = NoPair]
  /\ moving'    = [moving    EXCEPT ![s] = {}]
  /\ misread'   = misread \ {s}
  /\ UNCHANGED <<tableVars, rosterVars, assigning, designating>>

SweepDone(s) == phase[s] = "primaries" /\ primaries[s] = {} /\ EndOfSweep(s)
SweepDies(s) == phase[s] # "idle" /\ EndOfSweep(s)

-----------------------------------------------------------------------------

RosterStep ==
  \/ \E a \in Agents, s \in AgentState : SetAgentState(a, s)
  \/ \E a \in Agents, c \in Connectors : BindConnection(a, c) \/ UnbindConnection(a, c)
  \/ \E d \in Admins, a \in Agents, b, backupsBackup \in Agents \cup {NoAgent} :
       CheckBackup(d, a, b, backupsBackup)
  \/ \E d \in Admins : WriteBackup(d)

QueueStep ==
  \/ \E a \in Agents : BeginAssign(a)
  \/ \E t \in Tasks, a \in Agents : CreateTask(t, a) \/ ClaimTask(t, a)
  \/ \E t \in Tasks, s \in Terminal : FinishTask(t, s)
  \/ \E t \in Tasks : ReclaimTask(t)

SweepStep(s) ==
  \/ SelectPrimaries(s) \/ ReadBackupState(s)
  \/ \E ofPrimary, ofBackup \in SUBSET Connectors : CompareScopes(s, ofPrimary, ofBackup)
  \/ \E pb \in primaries[s] : ReadQueued(s, pb)
  \/ \E t \in Tasks : MoveRow(s, t) \/ MoveRowFails(s, t)
  \/ AllMoved(s) \/ SweepDone(s) \/ SweepDies(s)

Next == RosterStep \/ QueueStep \/ \E s \in Sweepers : SweepStep(s)

Spec == Init /\ [][Next]_vars

(* The cron fires every ten minutes and a running invocation proceeds;     *)
(* dying, failing writes and failing reads are not the lot of every sweep  *)
(* for ever: a statement that is reached time and again is in the end      *)
(* answered.                                                               *)
Fairness ==
  \A s \in Sweepers :
    /\ WF_vars(SelectPrimaries(s))
    /\ SF_vars(\E pb \in primaries[s] :
                 ReadQueued(s, pb) /\ (QueuedFor(pb[1]) # {} => phase'[s] = "backup"))
    /\ SF_vars(/\ ReadBackupState(s)
               /\ agent_state[current[s][2]] = "active" => phase'[s] = "scope")
    /\ SF_vars(CompareScopes(s, bound[current[s][1]], bound[current[s][2]]))
    /\ \A t \in Tasks : SF_vars(MoveRow(s, t))
    /\ WF_vars(AllMoved(s)) /\ WF_vars(SweepDone(s))

FairSpec == Spec /\ Fairness

-----------------------------------------------------------------------------
(* Properties.                                                             *)

(* A row being run keeps the agent it is run as: a sweep that read it as   *)
(* queued and was overtaken by a claim does not move it.                   *)
RunningKeepsAgent ==
  [][\A t \in Tasks : status[t] = "running" => agent_id'[t] = agent_id[t]]_vars

(* A row leaves an agent only for the backup that a sweep read for that    *)
(* very agent.  True while sweeps do not overlap: the UPDATE is not        *)
(* guarded by the agent it moves the row away from.                        *)
MovesFollowDesignation ==
  [][\A t \in Tasks :
       agent_id[t] # NoAgent /\ agent_id'[t] # agent_id[t] =>
         \E s \in Sweepers : current[s] = <<agent_id[t], agent_id'[t]>>]_vars

(* "does not form a cycle (a -> b -> a)" (failover/store.ts:88-90): no two *)
(* agents are each other's backup.                                         *)
NoMutualBackup ==
  \A a, b \in Agents : backup[a] = b => backup[b] # a

(* What the guard of setBackupAgent does achieve, for any number of admins *)
(* and with reads that fail.  Two agents come to back each other up only   *)
(* by the writing of a designation that was closing the cycle before it    *)
(* was written; and a designation in flight comes to be closing only by    *)
(* the write of another that was let through beside it, or because its own *)
(* read of the backup's backup failed and so found none.                   *)
Closing(d) ==
  /\ designating[d] # NoPair /\ designating[d][2] # NoAgent
  /\ backup[designating[d][2]] = designating[d][1]
MutualBackupHasACause ==
  [][/\ NoMutualBackup /\ ~NoMutualBackup' => \E d \in Admins : Closing(d) /\ WriteBackup(d)
     /\ \A d \in Admins : ~Closing(d) /\ Closing(d)' =>
          (\E e \in Admins \ {d} : WriteBackup(e)) \/ d \in misread']_vars

(* Failover completes: once an agent stays unhealthy, and its backup stays *)
(* designated, active and bound to all the agent is bound to, the agent is *)
(* left with no queued work.                                               *)
Covered(p, b) ==
  /\ agent_state[p] \in {"paused", "revoked"} /\ backup[p] = b
  /\ agent_state[b] = "active" /\ bound[p] \subseteq bound[b]
FailoverCompletes ==
  \A p \in Agents : \A b \in Agents \ {p} :
    <>[]Covered(p, b) => <>[](QueuedFor(p) = {})

(* "so the backup can never reach a connector the primary could not"       *)
(* (failover/store.ts:18-19): a moved task gains no connector.             *)
NoScopeEscalation ==
  [][\A t \in Tasks :
       agent_id[t] # NoAgent /\ agent_id'[t] # agent_id[t] =>
         bound[agent_id'[t]] \subseteq bound[agent_id[t]]]_vars

(* What a sweep goes by goes stale, but only by people: the primaries it   *)
(* selected are unhealthy and their backups designated, and the backup it  *)
(* found active is active, until somebody sets a state or writes a         *)
(* designation.  No sweep's own step and no work on the queue does it.     *)
SweepReadsHold(s) ==
  /\ \A pb \in primaries[s] : Unhealthy(pb[1]) /\ backup[pb[1]] = pb[2]
  /\ phase[s] \in {"backup", "scope", "moving"} =>
       Unhealthy(current[s][1]) /\ backup[current[s][1]] = current[s][2]
  /\ phase[s] \in {"scope", "moving"} => agent_state[current[s][2]] = "active"
StaleOnlyByRoster ==
  [][\A s \in Sweepers :
       SweepReadsHold(s) /\ ~SweepReadsHold(s)' =>
         \/ \E a \in Agents, x \in AgentState : SetAgentState(a, x)
         \/ \E d \in Admins : WriteBackup(d)]_vars

(* "A queued task is reassigned to the backup ONLY when the backup is      *)
(* bound to a SUPERSET of the primary's connections" (failover/store.ts:   *)
(* 15-17) holds up to staleness and one failure: the backup of a sweep     *)
(* that is moving rows comes to lack a connector only by somebody's        *)
(* binding it to the primary or unbinding it from the backup, or because   *)
(* its read of the primary's connectors for the comparison failed and so   *)
(* found none.  A failed read of the backup's alone lets no row through.   *)
ScopeCovered(s) == phase[s] = "moving" => bound[current[s][1]] \subseteq bound[current[s][2]]
ScopeGapHasACause ==
  [][\A s \in Sweepers :
       ScopeCovered(s) /\ ~ScopeCovered(s)' =>
         \/ \E c \in Connectors :
              BindConnection(current[s][1], c) \/ UnbindConnection(current[s][2], c)
         \/ s \in misread']_vars
=============================================================================
