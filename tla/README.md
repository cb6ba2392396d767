# Formal models of wolfpack-apex

This directory holds TLA+ models of the parts of wolfpack-apex in which several
actors change the same state: who runs an agent's tasks and what happens when a
runner or a whole agent goes away, what stops an agent that is running, how an
agent's write waits for a person, how standing routines are swept, how the browser
replays what was done offline, and how the compliance log keeps its hash chain. The
models are translated from the code under `src/src/lib` and `src/src/app/api`. TLC checks
them on small instances, and
TLAPS proves the main safety properties for every value of the constants.

`PROJECT.json` is the machine-readable companion: components, runs, the lines of
source each definition translates (`map`), mutants, findings, hazards, theorems.

Run a model: `tlc -workers 2 -config AgentTasks.cfg MCAgentTasks`.
Check proofs: `tlapm AgentTasksProofs.tla`.

## 1. The system and its parts

wolfpack-apex is a Next.js application on serverless functions over PostgreSQL.
There is no long-lived process and no in-memory state shared by requests: a
request handler or a cron invocation is a chain of SQL statements and HTTP calls,
and the platform may end it between any two. On the modelled paths no statement
but those of the compliance log runs inside an explicit transaction, so **each
statement is an atomic step and nothing else is**. That one fact shapes every module
here. (The offline queue lives in the browser instead: there each awaited call is a
step, and the tabs share IndexedDB.) Two helpers reach the
database: `query` throws on an error, `safeQuery` logs it and answers no rows;
which of the two a statement goes through decides what a failure means.

| Part | State it keeps | Operations | What makes it hard | What makes it correct |
|---|---|---|---|---|
| Agent task table (`agents/tasks/store.ts`) | rows: status, agent_id, started_at, retry_count | create, claim next, complete, requeue, fail, reassign | six writers, guards of different strength | a finished row stays finished; one lease at a time |
| Task runners (assignment route, delegate tool, two drains) | only what the handler carries: identity, task in hand, claims left | assign and run inline; claim and run | death between statements, late completions, inline runs of unclaimed rows | a run acts as the agent its row names; claims are bounded |
| Failover sweep (`agents/failover/store.ts`, cron) | nothing between statements; backup_agent_id of agents | reclaim stalled rows; move queued rows of unhealthy agents | reads that are stale when acted on; overlap of cron and manual run | nothing stuck for ever; moves follow the designation and the scope |
| Agent registry (`agents/store.ts`) | state: invited, active, paused, revoked | activate, pause, resume, revoke | written while everything else runs | read at the right moment by the others |
| Connection bindings (`agents/connections/store.ts`) | agent-connector pairs | bind, unbind, list | a failed read looks like no bindings | backup scope covers the primary's |
| Task executor (`agents/tasks/executor.ts`) | the plan and a step counter, in memory | check, dispatch, act, finish | limits read before, charged after | a stop or an exhausted budget takes hold within a step |
| Containment (`containment/state.ts`, `budget.ts`) | a switch per workspace, a spend row per task | stop, resume, start, add, decide | several runs share one ledger row; failed writes swallowed | bounded overspend |
| Operation ceiling (`agents/ceiling.ts`) | a log of operations of the trailing hour | count, record | count and insert are two statements | bounded overshoot |
| Write approvals (`agents/approvals`) | pending rows: status, expiry, tool | hold, hand off, approve, reject, mark executed | concurrent deciders, kill switch, expiry, death after the claim | decided once, run at most once, never when refused |
| PR handoff (`ai-code`) | an approval row | hand off, open the PR | partial success of several calls | as above |
| Routine schedules (`assistant/routines`, cron) | active, hour, next_run_at, failures | state, move, stop; read due rows, run, record | no claim on due rows; a run writes back what it read before | the person's wish wins in the end; a broken routine is stopped, and only a broken one |
| Offline queue (`offline-queue.ts`, `useOfflineQueue`, `*-offline.ts`; in the browser) | IndexedDB entries: status, attempts | submit, list, replay, put back, delete, give up | several tabs and mounts flush one store from copies; lost answers | nothing lost; duplicates and reorderings only with a reason; it drains |
| Compliance log (`audit-log.ts`, cron, admin routes) | hash-linked rows, a sequence, anchors | append, verify, classify, reconcile, re-anchor | reserve, link and insert are separate statements; verification reads in pieces and swallows errors | one linear chain; alterations are found and never excused |
| Internal API transport (`http/internal-fetch.ts`) | none | fetch, one retry | a retry after an answer was lost | the caller knows what may run twice |

How they interact. An assignment inserts a row and calls the executor in the same
request; a drain claims rows and calls the executor for each. The executor asks
containment before each step, the ceiling before each act on the owner's behalf,
and the approvals gate before a write of a gated agent. The sweep writes the rows
that runners left behind, and reads the agent registry and the bindings to decide
which rows to move. People pause, resume and revoke agents, throw the switch,
designate backups, bind connectors and decide approvals at any moment. All of it
meets in the database only: there are no messages or callbacks, and one lock, the
compliance log's. Routines, the offline queue and the compliance log meet the rest only
through calls whose outcome is a success or a failure: a routine runs tools, the queue
posts to ordinary routes, and everything above appends to the log after it acted.

Parts not modelled, with their state and why:

| Part | State | Status |
|---|---|---|
| Decision ledger (`ogiam/ledger.ts`) | a second hash chain | next in the plan, as a second implementation of `ChainedLog` |
| OAuth refresh (`assistant/connectors/oauth/refresh.ts`) | access and rotating refresh tokens | last in the plan |
| Agent drift (`agents/drift/store.ts`) | baselines, scores, auto-pause | statistics left out; its auto-pause is one more unguarded write of a state, which `SetAgentState` covers |
| Agent memory (`agents/memory/store.ts`) | learned procedures | in the plan |
| AI spend (`ai/budget.ts`, `ai/spend-guard.ts`) | a cached monthly sum | candidate |
| Coalesced client fetch (`coalesced-fetch.ts`) | in-flight promises | candidate |
| Egress allowlist, guarded fetch, self-test | none | pure predicates on a URL |
| Database access (`db.ts`) | pool | I/O; its contract is built into each module |
| Deployment view, edge forcefield | none of their own | reads, or scoring of one request |
| Product surfaces (dashboard, sites, HR, meetings, mail, support) | single rows | request handlers with no protocol between them |
| Scripts, CI | - | tooling |

## 2. Modules

| Module | Models | Extends / uses |
|---|---|---|
| `TaskTable` | the table `instinct_agent_tasks` and each statement issued on it | - |
| `AgentTasks` | handlers that run tasks, their deaths, the reclaiming sweep, lifecycle | `TaskTable` |
| `AgentFailover` | the sweep's second phase beside people editing what it reads | `TaskTable` |
| `AgentRun` | the executor's loop under switch, time budget and ceiling | - |
| `WriteApproval` | capture, decision, claim and execution of held writes | instance of `CapturedWrite` |
| `CapturedWrite` | the abstract promise of the approvals | - |
| `MC*` | constants for TLC | the module they are named after |
| `RoutineSchedule` | standing routines, the sweep over them, the people who move them | - |
| `OfflineQueue` | the browser's mutation queue, its flushes, tabs and network | - |
| `AuditChain` | appends to the compliance log, verification, reconciliation | instance of `ChainedLog` |
| `ChainedLog` | the abstract promise of the log: linear, appended to in one step | - |
| `TaskTableProofs`, `AgentTasksProofs`, `AgentFailoverProofs`, `AgentRunProofs`, `WriteApprovalProofs`, `RoutineScheduleProofs`, `OfflineQueueProofs`, `AuditChainProofs` | theorems and proofs | the module they are named after, `TLAPS` |

`AgentTasks` and `AgentFailover` both write the table only through `TaskTable`'s
operators, which carry exactly the guards of the SQL. The two phases of a sweep are
modelled apart because nothing but the table connects them and two sweeps (the cron
and a manual run) may be in different phases at once: in `AgentTasks` the second
phase is the bare UPDATE on any row (`MoveToBackup`), a superset of what
`AgentFailover` decides; in `AgentFailover` the first phase is the bare UPDATE
(`ReclaimTask`) on any running row, requeued or failed by a count that may be old, as the
code's SELECT may be; a superset of what `AgentTasks` decides. `TaskTable` has a specification of its own for what they
share: `TableSpec` lets every statement happen on any row at any moment. Both modules
are proved to implement it (`TasksUseTheTable`, `FailoverUsesTheTable`), so what the
guards of the statements alone guarantee (`LifeOfARow`, `RunningIsTimed`) holds of the
table under either, and under any interleaving of the two.

### State and actions against the code

**TaskTable.** Columns are functions over rows `1..MaxTasks`, the row number being
insertion order (`created_at`). `started_at` is kept only against the stall window:
`"null"`, `"recent"` or `"stale"`. `InsertTask` is createTask, `ClaimNextQueuedTask`
the single UPDATE with `FOR UPDATE SKIP LOCKED`, `CompleteTask` the unguarded final
UPDATE, `RequeueStalled` and `FailStalled` the two branches of reclaimStalledTasks
(guarded by `status = 'running'` alone), `ReassignTask` the move (guarded by
`status = 'queued'` alone).

**AgentTasks.** A runner is a handler: `pc` says where it is, `acting` whose identity
it carries since its first read, `doing` the row in hand, `left` the turns of the
drain loop. `BeginAssign`, `BeginRuntimeDrain` and `BeginAdminDrain` are the three
entrances with their own state checks; `CreateAndRunInline` and `ClaimAndRun` reach
the executor; `FinishRun`, `LoseOutcome` and `RunnerDies` are the three ways out of
it. A sweep holds the rows it selected (`toRequeue`, `toFail`) and writes them one by
one (`RequeueRow`, `FailRow`), may lose one (`SkipRow`) and may die (`SweepDies`).
`attempt` and `claims` are history variables, read only by guards on themselves and
by properties; `attempt > 0` doubles as "this run came from a drain".

**AgentFailover.** `phase` walks the statements of failoverUnhealthyAgents:
`SelectPrimaries`, `ReadQueued`, `ReadBackupState`, `CompareScopes`, `MoveRow`. Each
read that goes through safeQuery may answer nothing when `ReadsMayFail`. setBackupAgent
is two steps (`CheckBackup`, `WriteBackup`), as is an assignment (`BeginAssign`,
`CreateTask`). The cycle guard (`Refused`) reads the other agent's backup through
safeQuery, so a read that fails lets the designation pass. `misread` is history: who goes by
such a read that failed.

**AgentRun.** `switch` is the workspace's row (`"absent"`: none was seeded), `opened`
and `spent` the ledger, `allowed` and `refused` the operations in the trailing hour,
`left` the instructions to go, `used` what the count answered. `Check` is decideStep,
`Dispatch` one instruction with its charge, `Count` and `Record` the two statements of
checkAndRecordOperation, `Act` and `Retry` the call and internalFetch's second try.
`late` is a history variable.

**WriteApproval.** A request walks getPendingApproval (`BeginReview`), the agent
re-check (`CheckAgent`), the optional validation (`Validate`), the guarded claim
(`Claim`), the executor (`Execute`) and `MarkApprovalExecuted`. `runs` counts the
times the captured write arrived, `late` the writes each request executed since its
agent was stopped (both are history); `Decision` maps a row's status to what
`CapturedWrite` calls it.

**RoutineSchedule.** A row is one (workspace, user, command), which is its primary key as
well, so `"stopped"` (there, not active) differs from `"none"`: `Restate` is the upsert,
whose conflict target is the index over active rows, and which throws on a stopped row.
A pass of the sweep reads all due rows (`BeginPass`), then runs and records them in any
order (`RecordRun`), each column computed from what it read (`held`) and from the instant
it started (`began`); the UPDATE may be lost (`LoseRecord`) and the pass may die. Time
passes (`Tick`) modulo the cadence; `next_run_at` is kept as the ticks still to wait.
`broken` says whether the routine would complete now, and `streak` is history: the
failing runs a count of failures may be based on.

**OfflineQueue.** An entry's number is its place in the order of `enqueued_at`. A flusher
is a mount of the hook. `Begin` lists the pending entries and copies them (`left`,
`copy`); then, entry by entry, one of `SendAccepted`, `SendLostAnswer`, `SendFailed`
(replayOne), `Put` (updateEntry in the loop, and what follows: another attempt or
giving up), `Delete` or `DeleteLost`, and `Fail`. `PutBack` writes the whole copy, also
over an entry deleted meanwhile, as IndexedDB's `put` does. `Reconnect` wakes the mounts
there are; one that is flushing lets it pass. `Submit` is the inline post with its
fallback. `doubt` is history: occasions on which a mutation may have been sent again.

**AuditChain.** A row's hash is stood for by its sequence number; `link` is `prev_hash`.
An append is `TakeLock`, `ReadTail`, `Reserve` (nextval), `Insert` with COMMIT; it may
abort at any point, keeping its number, or commit without the caller learning of it. A
checker (the hourly cron or an administrator) walks verifyChain (`ReadAnchors`, then
`ReadRows`), analyzeChain and reconcileChain (`Classify`, then per fork `Acknowledge` and
an append of its own) and verifies again. Every safeQuery on the way has its failing
twin (`Miss...`). Rows from before the lock may each be linked to any row before it (`Init`); `Alter` and
`Lose` are what may befall the table from outside. `reason` is history: why a row may come
to be acknowledged, kept apart by cause: it was mis-linked before the lock, the row before
it was lost, or an administrator named it. An administrator's range may begin at any number,
of a row or not; `RangeStarts` names those of an instance.

**ChainedLog.** Rows and links; one step appends an entry linked to the true last row.

### Abstractions worth knowing

- Goals, plans, summaries and payloads are left out, and so are the audit rows that
  every other part appends; what an append does is `AuditChain`.
- `list...` reads issued together with `Promise.all` (the two connector lists; the
  switch and the ledger) are one step.
- The rate limiter in front of the runtime's drain is left out: it only refuses.
- The gate flag of an agent is abstracted: `HoldWrite` is the case where the write is
  held. Which writes are let through is not at issue.
- The ceiling is a constant of a run of the model; PATCH on an agent may change it.
- The trailing hour is two counters from which operations leave one by one.
- Of the run budgets only time is metered by the code today; the others are never
  charged. Only dispatches are timed: reasoning and acting fall outside the clock
  reads, so the model does not charge them either.
- A call repeated by internalFetch counts as one act in `late`.
- `SetAgentState` allows every state from every state, as the UPDATE does.
- A routine's run is one outcome decided when it is recorded; the LIMIT of 50 due rows,
  timezones and the notices are left out. Weekly and weekday cadences differ from the
  daily one in `Period` only as far as the properties go.
- The offline queue's degraded mode in memory, the hook's `replay` option (nobody passes
  it) and entries of one millisecond are left out. A 401 and a 5xx are one outcome: nothing
  done, try again.
- In the compliance log an alteration that also replaces the stored hashes is left out,
  as are the `to` bound of a range, the query route and redaction. Rows only have to be
  told apart from what was hashed, so field contents are the set `altered`.

## 3. Runs

| Run | Instance | What it shows |
|---|---|---|
| `agent_tasks` | 2 agents, 2 handlers, 2 sweeps, 1 row, cap 1, drains of 1, under `FairSpec` | `TypeOK`; `ClaimsBounded`; `LeaseExclusive`; `RunIdentity`; `TerminalIsFinal`; `OnlyStalledReclaimed`; `NoTaskStuckRunning` |
| `agent_tasks_once` | 1 agent, 2 handlers | violation of `AssignmentRunsOnce` |
| `agent_failover` | 2 agents, 1 connector, 1 sweep, 2 admins, failing reads, 2 edits, under `FairSpec` | `TypeOK`; `RunningKeepsAgent`; `MutualBackupHasACause`; `ScopeGapHasACause`; `FailoverCompletes` |
| `agent_failover_cycle` | 2 agents, 2 admins, reads that succeed | violation of `NoMutualBackup` |
| `agent_failover_scope` | 2 agents, 1 connector | violation of `NoScopeEscalation` |
| `agent_run` | 2 runs of 1 task of 1 agent, plans of 2, ceiling 2, budget 2 | `TypeOK`; `StopTakesHold`; `TimeBudgetBinds`; `CeilingOvershoot` |
| `write_approval` | 3 requests, 2 rows, 1 agent | `TypeOK`; `OneExecutor`; `StopBoundsWrites`; `ImplementsCapturedWrite`; `ExpiredStaysClosed` |
| `write_approval_held` | 1 request, 1 row, under `FairSpec` | violation of `HeldWriteRecoverable` |
| `routine_schedule` | 1 row, 2 passes, days of 3 ticks, 2 hours, 3 failures, 2 edits, under `FairSpec` | `TypeOK`; `CountIsEarned`; `NoDrift`; `RevivedOnlyByARunInHand`; `StatedHourWins`; `BrokenRoutineStops` |
| `offline_queue` | 2 mutations, 2 flushers, 2 attempts, 1 doubt each, under `FairSpec` | `TypeOK`; `NothingLost`; `DuplicatesExplained`; `FifoUnlessGivenUp`; `SettledOnlyByListers`; `DrainsIfWoken` |
| `audit_chain` | 1 writer, 1 checker, up to 3 old rows, 1 request, 1 failure, 1 damage, under `FairSpec` | `TypeOK`; `ImplementsChainedLog`; `AnchorsAccounted`; `AnchorExcusesNoAlteration`; `FalseAlarmExplained`; `LegacyForksHeal`; `AlterationRaisesAlarm` |
| `audit_chain_gap` | 1 writer, 1 checker, up to 2 old rows, 2 requests, no failure, 1 damage | violation of `OnlyLegacyAcknowledged` |

What the properties say:

- `ClaimsBounded`: a row is claimed at most `RetryCap + |Sweepers|` times. The cap is
  decided on a value read before the UPDATE, so overlapping sweeps may each add one.
- `LeaseExclusive`: two drains execute one row only after a sweep took it away.
- `RunIdentity`: the run holding a running row's latest claim acts as the agent the row
  names, although `ReassignTask` is not guarded by that agent.
- `TerminalIsFinal`: late writers may replace one outcome by another and no more.
- `OnlyStalledReclaimed`: a row's first run always has its whole stall window. Later runs
  have it too unless sweeps overlap: the second sweep's UPDATE does not repeat the window
  its SELECT read, and may hit a row that the first requeued and a drain claimed since.
- `NoTaskStuckRunning`: a row whose runner died leaves `running`.
- `RunningKeepsAgent`: a row being run is not moved, however stale the reads that a move
  rests on.
- `MutualBackupHasACause`: what the cycle guard of a designation does achieve. Two agents
  become each other's backup only by the write of a designation that was let through
  beside another, or whose read of the backup's backup failed.
- `ScopeGapHasACause`: what the scope guard does achieve. The backup that gets rows comes to
  lack a connector of the primary's only by a binding or an unbinding after the
  comparison, or by a failed read of the primary's connectors, which answers that there are
  none; a failed read of the backup's alone lets nothing through.
- `FailoverCompletes`: an agent that stays unhealthy, with a backup that stays eligible,
  ends with an empty queue.
- `StopTakesHold`: a run acts at most once after a stop, whatever it had read before.
- `TimeBudgetBinds`, `CeilingOvershoot`: the true bounds of two limits that are read
  before and written after; the second is tight.
- `OneExecutor`: one request at a time executes a row.
- `StopBoundsWrites`: since the agent was stopped each request has executed at most one
  write, namely one that had passed the re-check before the stop.
- `ImplementsCapturedWrite`: `WriteApproval` refines `CapturedWrite`: a write is decided
  once, never runs when refused, and runs at most once, also when the request dies
  after the claim or the final mark is lost.
- `ExpiredStaysClosed`: what expires undecided stays out of reach, also of requests that
  had read it as pending.
- `CountIsEarned`: a row's count of consecutive failures never exceeds the failing runs
  there were, so no routine is switched off for fewer than three, although counts are
  written from stale reads.
- `RevivedOnlyByARunInHand`: a stopped schedule comes back only by a pass that already
  held it, never by a later pass or by the person.
- `NoDrift`: an active routine always waits for an hour that somebody asked for, however
  late and overlapping the passes.
- `StatedHourWins`: a schedule moved while a run is in hand ends at the hour asked for.
- `BrokenRoutineStops`: lost counts do not keep a broken routine alive for ever.
- `NothingLost`, `DuplicatesExplained`, `FifoUnlessGivenUp`, `DrainsIfWoken`: the queue's
  promise with its true exceptions. Delivery is at least once; each extra arrival has an
  occasion; order is broken only by an entry that some flush gave up; and the queue
  empties if some mount is woken again and again and flushes may finish.
- `SettledOnlyByListers`: what was delivered or marked failed is taken up by no later
  flush, and changes only while a flush has it that listed it before.
- `ImplementsChainedLog`: `AuditChain` refines `ChainedLog`: an append is one step of the
  log, linked to the true last row, holes and aborted appends notwithstanding.
- `AnchorsAccounted`: only a row with one of the reasons is ever acknowledged as a fork; no
  append, hole, failure or overlap makes a well-linked row look like one. That a lost
  predecessor is among the reasons is finding 5.
- `AnchorExcusesNoAlteration`: what is found valid holds no altered row.
- `FalseAlarmExplained`: a sound chain is found broken only after a failed or outdated
  read of the anchors, a failed read of the row before the range, or for a range that
  begins behind a hole in the numbers.
- `LegacyForksHeal`, `AlterationRaisesAlarm`: the forks from before the lock are in the end
  acknowledged when nothing is altered, and otherwise the first altered row is in the end
  alerted. Of the row behind a lost one the first promises nothing.

Further properties are stated in the modules and proved for every value of the
constants. TLC found no counterexample to them on instances like those above, and no run
lists them:

- `LifeOfARow`: whatever statements meet on a row, it never goes away or opens again; it
  returns to the queue from a run only, and each return counts as one retry; it changes
  hands only while it waits. `RunningIsTimed`: the sweep's SELECT, which skips rows
  without `started_at`, sees every running row. `RequeuesAreBounded` (a theorem):
  `retry_count` stays below `RetryCap + |Sweepers|`.
- `StaleOnlyByRoster`: what a sweep read about agents is outdated only by a state set or a
  designation written by somebody. `MovesFollowDesignation`: a row leaves an agent only for
  the backup that a sweep read for that agent, provided that sweeps do not overlap: the
  UPDATE is not guarded by the agent it takes the row from.
- `LimitsAreExact`: with one run at a time the ceiling is never exceeded, and the budget
  by less than one dispatch: the overshoots above are owed to concurrency alone.
- `RunsOnceIfGranted` (of `CapturedWrite`), `OperationsNeverRun`: a write runs at most
  once, and granted; a held operation never, which is finding 3 from the other side.
- `OffItsHourByOldRunOnly`: a routine comes off the hour its row states only by the write
  of a pass that read another hour.
- `StoredMeansNotArrived`, `SettledForGood`: an entry that rests in the store has arrived
  no more often than there was a doubt of it; and with one flusher what is settled never
  changes again.
- `LockFollowsAppend`, `ForksHaveReason`, `AlarmsNameAlterations`, `WalksAgree`: the lock
  is never left behind; a fork is never of an append's or a failure's making; an alert
  names an altered row; and the two walks over the chain, one of verifyChain and one of
  analyzeChain, agree on every row.

### Findings

1. *An inline assignment can run twice.* createTask leaves the row `queued` and nothing
   claims it, so a drain started meanwhile claims and runs the same row
   (`agent_tasks_once`); the route's comment says the hooks fire exactly once.
2. *A moved task may gain connectors.* The guard demands that the backup holds a superset
   of the primary's connectors; the header says the backup can never reach one the
   primary could not (`agent_failover_scope`).
3. *A held operation cannot be approved.* Its `tool` is the operation's id, for which the
   approve route has no executor (`write_approval_held`); it can be rejected or expire.
4. *Two agents can be each other's backup.* The cycle guard and the UPDATE are two statements,
   so two administrators who each designate the other's agent both pass it; the comment on
   setBackupAgent says that a backup does not form a cycle (`agent_failover_cycle`). A read
   that fails has the same effect with one administrator.
5. *A gap left by a restore is acknowledged as a race from before the lock.* The row behind a
   missing one hashes to what it holds and is mis-linked, which is all that reconciliation
   asks; it is anchored with that reason, the chain reads as valid again and no critical
   alert is sent, though the cron's header counts such a gap among what it must catch
   (`audit_chain_gap`).

Seen while modelling, and part of the models, without a run of their own:

- The hourly ceiling can be exceeded, because count and INSERT are separate; by fewer
  operations than there are concurrent runs (`CeilingOvershoot`, proved).
- A ring of three backups is never refused. A move only goes to an active backup, so
  no sweep loops on it, nor on finding 4's ring of two.
- A schedule that was stopped cannot be stated again: the upsert meets the primary key
  (`Restate`).
- A put back by a slow flush resurrects an entry another flush delivered and deleted
  (`Put`); the second flush's listing is the occasion that `doubt` counts.
- The pill that comments count on to flush the queue (`OfflineStatusPill`) is imported
  nowhere; the only mount of the hook is the goals sidebar.
- verifyChain over a range looks for row `from - 1`, so a range behind a hole left by an
  aborted append is reported broken although the chain is sound (`Before`).
- `ip_address` is hashed as given and stored as INET; an address that INET spells
  otherwise makes its row read as altered for ever, and reconciliation then refuses.
- An error thrown while acknowledging makes the cron answer `valid: true, skipped: true`
  in an hour in which it had found the chain broken (`Thrown`).

### Bounds and why they are enough

- One row per task instance: rows interact only through "the oldest queued row of the
  agent" and through a sweep's work list; neither lets one row's history affect another
  row's guard except by delaying it. The theorems hold for any number of rows.
- Two handlers: a dead-and-back runner and the one that took over. Two sweeps: the cron's
  and the manual one. With `RetryCap` 1 a row is requeued, run again and failed, and, when
  the sweeps overlap, requeued once beyond the cap.
- Two agents in failover: a primary and its backup, who may change places. `MaxEdits = 2`
  lets a designation be changed by another, or a binding, during a sweep; two admins
  with reads that fail let both through that a guard should stop. `RowsLeft` bounds
  assignments in flight by the rows they can still insert. More agents add rings,
  which no property forbids, and other backups, which the theorems cover.
  `Down` names the unhealthy states of an instance, which the code treats alike.
- `MaxSteps = 2`, `MaxTime = 2`, `MaxCost = 2`: a run that passes its check with one unit
  left and overspends; a second step to be refused. `Ceiling = 2` with two runs shows the
  overshoot. `MaxRefused` bounds refusals in the window when a run starts, nothing else.
- One schedule and two passes: rows are independent of each other, and two passes are
  enough for a run in hand to be overtaken by another. A day of three ticks with two
  hours has a tick at which neither is due. `MaxPass` lets a pass outlast
  the next one's start; `MaxLate` caps how late a row is told to be, and a pass never leaves
  a row later than that. Three failures is the code's number.
- Two mutations suffice for order, two flushers for duplicates and resurrection; two
  attempts let an entry fail once and be retried. `MaxDoubt = 1` allows one occasion per
  mutation, after which the faults stop.
- In `audit_chain` the checker's acknowledgements are appends too, so one writer and one
  checker already contend for the lock. Three old rows allow a fork behind a fork, and three
  appends that read the same row. Ranges begin at the first row, inside the old rows, or at
  the next number.
  `MaxSeq = 14` holds no append back under the other bounds. One failure at every place it
  may strike, and one damage, alone or together. More of each is left to the theorems.
- Three requests on one approval: one executing, one that read the row as pending before
  the claim, one rejecting.

Symmetry is used in `agent_run` and `write_approval` only, which check no liveness
property. Deadlock is checked in
every run: the system never stops. In the runs under `FairSpec` the safety properties are
checked of the same states, fairness excluding none.

### Fairness and why the code justifies it

- `AgentTasks!Fairness`: time passes; the cron (every ten minutes) starts a sweep that
  reads; and a sweep does not die, nor its UPDATE throw, at the same row for ever (strong
  fairness, since dying disables the write). Runners owe nothing: an agent's runtime need
  never call, a run need never end.
- `AgentFailover!Fairness`: the same for the statements of the second phase, reads
  included: what is reached time and again is in the end answered (strong fairness, since
  a failed read or a death moves the sweep elsewhere). People and runners owe nothing.
- `WriteApproval!Fairness`, used only to make a violation mean something: somebody keeps
  approving a waiting row, and requests get to their next statement. Expiry and
  validation are not owed.
- `RoutineSchedule!Fairness`: time passes; the cron (every fifteen minutes) finds what is
  due; and a row taken up again and again is in the end recorded (strong fairness: a pass
  that dies disables it).
- `OfflineQueue!Fairness`: a browser goes on with what is awaited. The network, the person
  and the closing of tabs owe nothing; that some mount is woken again and again, and that
  flushes are in the end let finish, is the premise of `DrainsIfWoken`.
- `AuditChain!Fairness`: appends go on (transactions end, the lock is released), the cron
  comes back every hour whatever administrators do meanwhile (strong fairness), and goes
  on once started. Failures are bounded by `MaxFaults`, so some run meets none.

## 4. Proofs

Assumptions are those named in the modules: `TableAssumption`, `RuntimeAssumption`
(finitely many sweeps, at least one; caps are naturals), `RunAssumption` (finitely many
runs; natural bounds), `ApprovalAssumption` (natural bound, some agent),
`FailoverAssumption`, `ScheduleAssumption` (natural bounds; a pass does not outlive
`MaxLate`), `QueueAssumption` (finitely many flushers; at least one attempt),
`ChainAssumption` (natural bounds; writers and checkers are distinct requests; ranges begin
at sequence numbers). TLC evaluates each in the runs. No numeric value of an instance is
used.

**TaskTableProofs.** `RowsLiveOnce` and `SweepSeesEveryRun` go by the statements, one step
each, under the table's typing; the other two modules on the table cite them.

**AgentTasksProofs.** None of the properties but the type invariant is inductive.
`IInv` adds: `ClaimsAccounted` (a row was claimed once per requeue, and once more unless
it waits); `RequeuesAccounted` (requeues made, plus sweeps that still hold the row, stay
below cap plus sweeps: a sweep picks a row up only under the cap, and turns a pending
requeue into a made one); `RunnersSound` (a handler's row exists and its attempt was
made); `AttemptsDistinct` (no claim is run by two handlers); and `RunIdentity` itself.
`ClaimsAreBounded` follows from the first two; `LeasesExclusive` from distinct attempts
and `ClaimsAccounted` (two attempts mean two claims, two claims a requeue); `RunsAsNamed`
is a conjunct; `RequeuesAreBounded` is `RequeuesAccounted` with no sweep counted twice.
`TasksUseTheTable` maps each step to one of the table's, after which `FinishedStaysFinished`
and `DeadRunsAreSeen` are consequences of what the table promises.
`ReclaimsOnlyStalled` rests on `HeldStalled`: a row that a sweep holds is still past its
window, or finished meanwhile, or requeued meanwhile by another sweep. With one sweep the
last is impossible, and the theorem then says that every run has its whole window.

**AgentRunProofs.** `TypeInv` is `TypeOK` with `StepInHand` (a run past its check has an
instruction left, without which the decrement leaves the naturals). `StopInv` says that
a run which has acted since the stop is not past a check, so that it would have to pass
one to act again. `TimeInv` charges in advance: what is spent, plus `MaxCost` for each
run of the task that is in its dispatch, stays under the bound (a run enters a dispatch
only while the budget is not spent, when the sum is smallest). `CeilingInv` does the same
with runs between count and INSERT whose count was below the ceiling. `OneRunKeepsLimits` is
the last two for a single run.

**AgentFailoverProofs.** `FailoverTypes` goes by the groups of variables that change
together. Which steps change a row's agent is one lemma (`AgentChanges`):
`FailoverKeepsRunning` follows from the guard of the move, and
`FailoverMovesByDesignation`, when no two sweeps overlap, from `InHand`: the rows a sweep
is moving still belong to the agent it read them for, since only a sweep takes a row from
an agent. No other theorem on failover assumes anything of the number
of sweeps or admins, or that reads succeed. `FailoverMutualBackupHasACause` rests on
`DesignatesAnother` (nobody is designated as its own backup) and goes back from the pair to
the designation that closed it, and from there to what let that one through.
`PairInHand` (past the read of its queue a sweep has a pair of agents in hand) makes
`SweepReadsHold` last through a sweep's own steps and the queue's, which leaves the roster's;
`FailoverScopeGapHasACause` adds what a comparison that passes says of the two reads: each
is the truth or nothing, and nothing in place of the truth hides a gap only if it is the
primary's, which is then recorded in `misread`.

**WriteApprovalProofs.** `IInv` is the typing of the code's variables, `RequestsSound` (a request has a captured row
in hand), `ExecutorsSound` (a row in an executor is approved, and has not run before the
write), `RunsWereGranted`, and `OneExecutor`. Each step then maps to one of
`CapturedWrite`'s or to a stutter (`StepRefines`), which gives `Implements`.
`StopIsBounded` rests on `LateSound`: a request that has executed a write of an agent since
its stop is not past the re-check for that agent any more, and while the agent is stopped
the re-check refuses; so none executes twice. `OperationsNeverRun` rests on `ToolsSound` (a
request past its review has a tool in hand that has an executor); `WritesRunOnce` is
proved of `CapturedWrite` by way of the refinement.

**RoutineScheduleProofs.** `CountInv` bounds every copy of a count by the streak: the row's
and those that passes hold; and says that an active row has failures to spare, which
keeps `failures` in range when a pass increments what it read. `RoutineNextRunIsNext` is
the arithmetic of nextRunAt, for any cadence and hour: the answer is the first tick at
which the hour comes round. `NoDrift` follows from it with `AgeInv` (within
a cadence, a pass's age is the time by the clock since it began) and lemmas on how waiting and clock move against each other.

**OfflineQueueProofs.** `Known` (only what was queued is stored or listed), `Settled` (an
absent entry was accepted, a failed one given up), `Ordered` (before a listed entry comes
every earlier queued one, listed, accepted or given up) and `Paid`, which charges in
advance: arrivals so far, plus the flushes that may still send the entry, plus one if it
waits unlisted, stay within one plus its doubts. Counting the flushes takes the library's
facts on finite sets. That the reserve is kept also for an entry marked failed is
`StoredMeansNotArrived`. `QueueSettlesForGood` assumes any two flushers equal, and rests on
`ListIsPending`: what the only flush has listed is pending.

**AuditChainProofs.** `AppendInv` says what the lock buys: an append past `TakeLock` holds
it, the tail it read is still the tail, and its number is still the last. `StepLinear` maps
COMMIT to `ChainedLog`'s append and all else to a stutter or a loss. `ReasonInv` says that
each row continues the chain, was mis-linked before the lock or has lost its predecessor,
which appends keep because they link to the true tail; so a fork always has one of the two
causes, and an acknowledged row one of them or an administrator's word. `ChainExcusesNoAlteration` and
`ChainFalseAlarms` are step properties under the typing: the second splits on where the
verification began. `LockInv` (the lock is with an append, and a checker is inside one
exactly at the point of its walk that appends) gives `LockFollowsAppend`; the agreement of
the two walks, `ChainWalksAgree`, is a lemma.

Only model-checked: `NoTaskStuckRunning`, `FailoverCompletes`, `StatedHourWins`,
`BrokenRoutineStops`, `DrainsIfWoken`, `LegacyForksHeal` and `AlterationRaisesAlarm` (liveness
under fairness is beyond TLAPS, as is ENABLED). Every invariant and action property that
the passing runs check, and both refinements, are theorems. No module declares a
RECURSIVE operator; nothing here needs induction over data.

## 5. Hazards

`PROJECT.json` lists them at their lines. Those without a property are of four kinds: a
backup that is paused between the sweep's read and its move (it is outside the premise of
`FailoverCompletes`, whose promise ends where the backup stops being eligible); parts not modelled (OAuth refresh, the drift monitor's unguarded pause); time and cost that
the code does not meter and the models therefore cannot tell apart; and losses that the
code accepts and no promise excludes (a retried POST may arrive twice, a stop whose write
failed is still answered as done, a budget refusal makes no approval).

## 6. Plan

Done: `TaskTable`, `AgentTasks`, `AgentFailover`, `AgentRun`, `WriteApproval` refining
`CapturedWrite`, `RoutineSchedule`, `OfflineQueue`, `AuditChain` refining `ChainedLog`, and
the proofs of all of them.

What would come next, in this order:

1. The decision ledger (`ogiam/ledger.ts`) as a second implementation of `ChainedLog`, with
   the theorem `ChainIsLinear` restated over what the two appends share.
2. Drift's auto-pause as a named lifecycle writer in `AgentTasks`, with the promise that a
   revoked agent stays revoked.
3. `OAuthRefresh`: concurrent refresh of rotating tokens. Its correctness hinges on what a
   provider does with a spent token, which the code does not fix, so it needs an explicit
   assumption on providers.
4. Agent memory and the AI spend cache, both read before and written after a completion.

Most of the repository's lines are pages, request handlers over single rows, integrations
and tooling: they hold no state that several actors change by steps, and a model of them
would restate their statements. They are listed under "Parts not modelled".
