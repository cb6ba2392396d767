-------------------------- MODULE RoutineSchedule --------------------------
(***************************************************************************)
(* Standing appointments of routines: assistant/routines/schedule-store.ts *)
(* and the sweep over it (sweep.ts), beside the people who state, move and *)
(* stop them (tools/schedule-routine-tool.ts).                             *)
(*                                                                         *)
(* A pass of the sweep reads the due rows in one statement, takes no claim *)
(* on them, and writes each back, after running its routine, from what it  *)
(* read.  Passes overlap: the cron starts one every quarter of an hour and *)
(* an administrator may force another.                                     *)
(*                                                                         *)
(* Time is kept modulo the cadence.  An instant is a tick of a day of      *)
(* Period ticks; next_run_at is kept as the ticks still to wait, and only  *)
(* for active rows, the others' not being read.                            *)
(***************************************************************************)
EXTENDS Integers, FiniteSets

CONSTANTS
  Rows,         \* (workspace, user, command), which is also the primary key
  Passes,       \* invocations of the sweep that may overlap
  Period,       \* ticks from one occurrence of a schedule to the next
  Hours,        \* the hours people ask for
  MaxFailures,  \* MAX_CONSECUTIVE_FAILURES
  MaxPass,      \* bound: ticks the platform lets a pass live
  MaxLate,      \* bound: lateness beyond this is not told apart
  MaxEdits      \* bound: requests people make

ASSUME ScheduleAssumption ==
  /\ Period \in Nat \ {0}
  /\ Hours \subseteq 0 .. Period - 1
  /\ Hours # {}
  /\ MaxFailures \in Nat \ {0}
  /\ MaxPass \in Nat
  /\ MaxLate \in Nat
  /\ MaxPass <= MaxLate    \* a pass leaves a row no later than that
  /\ MaxEdits \in Nat

VARIABLES
  clock,     \* the tick of the day
  state,     \* of a row: not there, active, or active = false
  hour,      \* the schedule columns
  wait,      \* next_run_at, from now; no more than 0 when due
  failures,  \* consecutive failures on the row
  held,      \* rows a pass has still to run, with what it read of them
  began,     \* the tick at which a pass started: its `now`
  age,       \* ticks since
  broken,    \* routines that would not complete now
  edits,     \* requests made by people
  streak     \* history: failing runs since the last success or restatement
             \* during which no other pass held the row

row    == <<state, hour, wait, failures>>
pass   == <<held, began, age>>
vars   == <<clock, row, pass, broken, edits, streak>>

Snapshot == [hour : Hours, failures : 0 .. MaxFailures - 1]

TypeOK ==
  /\ clock \in 0 .. Period - 1
  /\ state \in [Rows -> {"none", "active", "stopped"}]
  /\ hour \in [Rows -> Hours]
  /\ wait \in [Rows -> -MaxLate .. Period]
  /\ failures \in [Rows -> 0 .. MaxFailures]
  /\ held \in [Passes -> UNION {[R -> Snapshot] : R \in SUBSET Rows}]
  /\ began \in [Passes -> 0 .. Period - 1]
  /\ age \in [Passes -> 0 .. MaxPass]
  /\ broken \in [Rows -> BOOLEAN]
  /\ edits \in 0 .. MaxEdits
  /\ streak \in [Rows -> 0 .. MaxFailures]

Init ==
  /\ clock = 0
  /\ state = [r \in Rows |-> "none"]
  /\ hour \in [Rows -> Hours]
  /\ wait = [r \in Rows |-> Period]
  /\ failures = [r \in Rows |-> 0]
  /\ held = [p \in Passes |-> [r \in {} |-> 0]]
  /\ began = [p \in Passes |-> 0]
  /\ age = [p \in Passes |-> 0]
  /\ broken = [r \in Rows |-> FALSE]
  /\ edits = 0
  /\ streak = [r \in Rows |-> 0]

-----------------------------------------------------------------------------
(* What the statements compute.                                            *)

\* Mutated form of NextRun: the hour of today, also when it has passed.
NextRunToday(h, t) == h - t

\* Mutated form of NextRun: a day from now.
NextRunADayOn(h, t) == Period

\* Ticks from tick t to the next occurrence of h, which is strictly later.
NextRun(h, t) == IF h > t THEN h - t ELSE h - t + Period

\* Mutated form of Due: without `active` in the WHERE clause.
DueOrStopped == {r \in Rows : state[r] # "none" /\ wait[r] <= 0}

Due == {r \in Rows : state[r] = "active" /\ wait[r] <= 0}

Holding(p)   == DOMAIN held[p]
Holders(r)   == {p \in Passes : r \in Holding(p)}
Live(p)      == Holding(p) # {}

-----------------------------------------------------------------------------
(* People.                                                                 *)

\* Mutated form of Restate: DO UPDATE leaves the count as it is.
RestateKeepsCount(r, h) ==
  /\ edits < MaxEdits
  /\ state[r] # "stopped"
  /\ edits' = edits + 1
  /\ state' = [state EXCEPT ![r] = "active"]
  /\ hour' = [hour EXCEPT ![r] = h]
  /\ wait' = [wait EXCEPT ![r] = NextRun(h, clock)]
  /\ streak' = [streak EXCEPT ![r] = IF Holders(r) = {} THEN 0 ELSE @]
  /\ UNCHANGED <<clock, failures, pass, broken>>

\* upsertSchedule.  The conflict target is the unique index over active rows,
\* so an active row is updated, and counts from zero again.  A row that is there
\* but not active is no such conflict; its primary key is one, the INSERT throws
\* and the person is told that the schedule could not be written.
Restate(r, h) ==
  /\ edits < MaxEdits
  /\ edits' = edits + 1
  /\ \/ /\ state[r] # "stopped"
        /\ state' = [state EXCEPT ![r] = "active"]
        /\ hour' = [hour EXCEPT ![r] = h]
        /\ wait' = [wait EXCEPT ![r] = NextRun(h, clock)]
        /\ failures' = [failures EXCEPT ![r] = 0]
        /\ streak' = [streak EXCEPT ![r] = IF Holders(r) = {} THEN 0 ELSE @]
     \/ /\ state[r] = "stopped"
        /\ UNCHANGED <<row, streak>>
  /\ UNCHANGED <<clock, pass, broken>>

\* cancelSchedule.
Cancel(r) ==
  /\ edits < MaxEdits
  /\ state[r] = "active"
  /\ edits' = edits + 1
  /\ state' = [state EXCEPT ![r] = "stopped"]
  /\ UNCHANGED <<clock, hour, wait, failures, pass, broken, streak>>

\* A routine is deleted or renamed, a tool it uses changes, its owner's role is
\* lowered, an integration goes down; or the cause is removed.
Break(r) ==
  /\ broken' = [broken EXCEPT ![r] = ~@]
  /\ UNCHANGED <<clock, row, pass, edits, streak>>

-----------------------------------------------------------------------------
(* The sweep.                                                              *)

\* dueSchedules.  A read that fails, or finds nothing, is a pass without effect.
\* The LIMIT is left out: rows beyond it are read by a later pass.
BeginPass(p) ==
  /\ ~Live(p)
  /\ Due # {}
  /\ held' = [held EXCEPT ![p] =
                [r \in Due |-> [hour |-> hour[r], failures |-> failures[r]]]]
  /\ began' = [began EXCEPT ![p] = clock]
  /\ age' = [age EXCEPT ![p] = 0]
  /\ UNCHANGED <<clock, row, broken, edits, streak>>

RowDone(p, r) ==
  held' = [held EXCEPT ![p] = [q \in Holding(p) \ {r} |-> held[p][q]]]

\* Mutated form of FailuresAfter: a failure counts as the first one.
FailuresOfThisRun(h, r) == IF broken[r] THEN 1 ELSE 0

\* What runOne and the counter make of a row that was read with h.
FailuresAfter(h, r) == IF broken[r] THEN h.failures + 1 ELSE 0

CountStreak(p, r, written) ==
  streak' = [streak EXCEPT ![r] =
    IF broken[r] THEN IF @ < MaxFailures THEN @ + 1 ELSE @
    ELSE IF written /\ Holders(r) = {p} THEN 0 ELSE @]

\* runOne and recordRun: every column comes from what the pass read, and from
\* the instant the pass started.  The UPDATE asks for nothing but the id.
RecordRun(p, r) ==
  /\ r \in Holding(p)
  /\ LET h == held[p][r]
         f == FailuresAfter(h, r)
     IN  /\ failures' = [failures EXCEPT ![r] = f]
         /\ state' = [state EXCEPT ![r] = IF f >= MaxFailures THEN "stopped" ELSE "active"]
         /\ wait' = [wait EXCEPT ![r] = NextRun(h.hour, began[p]) - age[p]]
  /\ RowDone(p, r)
  /\ CountStreak(p, r, TRUE)
  /\ UNCHANGED <<clock, hour, began, age, broken, edits>>

\* The run happened and its UPDATE threw, or the run itself threw and there was no
\* UPDATE (the sweep's catch); either way it goes on to the next row.
LoseRecord(p, r) ==
  /\ r \in Holding(p)
  /\ RowDone(p, r)
  /\ CountStreak(p, r, FALSE)
  /\ UNCHANGED <<clock, row, began, age, broken, edits>>

\* The platform ends the invocation.
PassDies(p) ==
  /\ Live(p)
  /\ held' = [held EXCEPT ![p] = [r \in {} |-> 0]]
  /\ UNCHANGED <<clock, row, began, age, broken, edits, streak>>

Tick ==
  /\ \A p \in Passes : Live(p) => age[p] < MaxPass
  /\ clock' = IF clock = Period - 1 THEN 0 ELSE clock + 1
  /\ wait' = [r \in Rows |->
       IF state[r] = "active" /\ wait[r] > -MaxLate THEN wait[r] - 1 ELSE wait[r]]
  /\ age' = [p \in Passes |-> IF Live(p) THEN age[p] + 1 ELSE age[p]]
  /\ UNCHANGED <<state, hour, failures, held, began, broken, edits, streak>>

-----------------------------------------------------------------------------
Next ==
  \/ \E r \in Rows, h \in Hours : Restate(r, h)
  \/ \E r \in Rows : Cancel(r) \/ Break(r)
  \/ \E p \in Passes : BeginPass(p) \/ PassDies(p)
  \/ \E p \in Passes, r \in Rows : RecordRun(p, r) \/ LoseRecord(p, r)
  \/ Tick

Spec == Init /\ [][Next]_vars

\* Time passes and the cron comes back; a row that passes take up again and
\* again is in the end recorded, that is, neither its UPDATE throws nor the
\* platform ends the pass at it every time.
Fairness ==
  /\ WF_vars(Tick)
  /\ \A p \in Passes : WF_vars(BeginPass(p))
  /\ \A p \in Passes, r \in Rows : SF_vars(RecordRun(p, r))

FairSpec == Spec /\ Fairness

-----------------------------------------------------------------------------
(* Properties.                                                             *)

\* A row's count of consecutive failures is earned: there were at least as many
\* failing runs since its routine last succeeded, or since the person last stated
\* the schedule, with no other pass in the middle of the row.  So no row is
\* switched off for less than MAX_CONSECUTIVE_FAILURES of them, although the
\* count is computed from a value read before the run.
CountIsEarned == \A r \in Rows : failures[r] <= streak[r]

\* What is stopped, by the person or by the counter, comes back only when a pass
\* that had the row in hand at that moment writes it: recordRun sets `active` from
\* what it read before.  No later pass takes it up, and no wish of the person
\* brings it back.
RevivedOnlyByARunInHand ==
  [][\A r \in Rows : state[r] = "stopped" =>
       /\ Holders(r)' \subseteq Holders(r)
       /\ state'[r] = "active" => Holders(r)' # Holders(r)]_vars

\* A moved schedule wins in the end: a run in hand may write the old hour's next
\* occurrence over it, but not for ever, and passes that come late do not make the
\* appointment drift off the hour that was asked for.
OffItsHour(r) ==
  state[r] = "active" /\ wait[r] > 0 /\ (clock + wait[r]) % Period # hour[r]

StatedHourWins == \A r \in Rows : <>[]~OffItsHour(r)

\* An appointment does not drift: however late passes come, whatever they had in
\* hand and however they overlap, what a row waits for is an hour that somebody
\* has asked for.
NoDrift ==
  \A r \in Rows :
    state[r] = "active" /\ wait[r] > 0 => (clock + wait[r]) % Period \in Hours

\* A row comes off the hour it states only by the write of a pass that read the
\* row when it stated another: no lateness, failure or lost write does it.
OffItsHourByOldRunOnly ==
  [][\A r \in Rows : ~OffItsHour(r) /\ OffItsHour(r)' =>
       \E p \in Passes : RecordRun(p, r) /\ held[p][r].hour # hour[r]]_vars

\* A routine that is broken for good is in the end switched off and stays so,
\* however many passes overlap and lose each other's counts.
BrokenRoutineStops ==
  \A r \in Rows : <>[]broken[r] => <>[](state[r] # "active")
=============================================================================
