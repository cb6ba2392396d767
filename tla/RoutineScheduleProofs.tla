------------------------ MODULE RoutineScheduleProofs ------------------------
(***************************************************************************)
(* What holds of RoutineSchedule for any number of rows, overlapping       *)
(* passes, failures and edits: a count of failures is earned, what is      *)
(* stopped is revived only by a run in hand, and no appointment drifts.    *)
(***************************************************************************)
EXTENDS RoutineSchedule, TLAPS

(* The type invariant by what the operations write.                        *)
RowTyped ==
  /\ state \in [Rows -> {"none", "active", "stopped"}]
  /\ hour \in [Rows -> Hours]
  /\ wait \in [Rows -> -MaxLate .. Period]
  /\ failures \in [Rows -> 0 .. MaxFailures]
  /\ streak \in [Rows -> 0 .. MaxFailures]

PassTyped ==
  /\ held \in [Passes -> UNION {[R -> Snapshot] : R \in SUBSET Rows}]
  /\ began \in [Passes -> 0 .. Period - 1]
  /\ age \in [Passes -> 0 .. MaxPass]

RestTyped ==
  clock \in 0 .. Period - 1 /\ broken \in [Rows -> BOOLEAN] /\ edits \in 0 .. MaxEdits

(* An active row has failures to spare, so what a pass reads of it is below *)
(* the limit; a count, stored or read, is no more than the streak.         *)
CountInv ==
  /\ \A r \in Rows : state[r] = "active" => failures[r] < MaxFailures
  /\ \A r \in Rows : failures[r] <= streak[r]
  /\ \A p \in Passes : \A r \in Holding(p) : held[p][r].failures <= streak[r]

Inv == RowTyped /\ PassTyped /\ RestTyped /\ CountInv

LEMMA InvTypes == Inv => TypeOK
  BY DEF Inv, RowTyped, PassTyped, RestTyped, TypeOK

LEMMA HeldTyped ==
  ASSUME PassTyped, NEW p \in Passes
  PROVE  Holding(p) \subseteq Rows /\ held[p] \in [Holding(p) -> Snapshot]
  <1>1. PICK R \in SUBSET Rows : held[p] \in [R -> Snapshot]
    BY DEF PassTyped
  <1>2. QED
    BY <1>1 DEF Holding

LEMMA RowRemoved ==
  ASSUME PassTyped, NEW p \in Passes, NEW r \in Holding(p), RowDone(p, r)
  PROVE  /\ held' \in [Passes -> UNION {[R -> Snapshot] : R \in SUBSET Rows}]
         /\ Holding(p)' = Holding(p) \ {r}
         /\ \A q \in Passes \ {p} : Holding(q)' = Holding(q) /\ held'[q] = held[q]
         /\ \A q \in Holding(p)' : held'[p][q] = held[p][q]
  <1> DEFINE rest == [q \in Holding(p) \ {r} |-> held[p][q]]
  <1>1. rest \in [Holding(p) \ {r} -> Snapshot] /\ Holding(p) \ {r} \in SUBSET Rows
    BY HeldTyped
  <1>2. rest \in UNION {[R -> Snapshot] : R \in SUBSET Rows}
    BY <1>1
  <1>3. held' = [held EXCEPT ![p] = rest]
    BY DEF RowDone
  <1>4. held'[p] = rest /\ \A q \in Passes \ {p} : held'[q] = held[q]
    BY <1>3 DEF PassTyped
  <1>5. held' \in [Passes -> UNION {[R -> Snapshot] : R \in SUBSET Rows}]
    BY <1>2, <1>3, Zenon DEF PassTyped
  <1>6. QED
    BY <1>4, <1>5 DEF Holding

(* The next occurrence is at most a period away, and after now.            *)
LEMMA NextRunRange ==
  ASSUME NEW h \in Hours, NEW t \in 0 .. Period - 1
  PROVE  NextRun(h, t) \in 1 .. Period
  BY ScheduleAssumption DEF NextRun

LEMMA InitInv == Init => Inv
  <1> SUFFICES ASSUME Init PROVE Inv
    OBVIOUS
  <1> USE ScheduleAssumption DEF Init
  <1>1. RowTyped
    BY DEF RowTyped
  <1>2. PassTyped
    <2>1. [r \in {} |-> 0] \in [{} -> Snapshot]
      OBVIOUS
    <2>2. {} \in SUBSET Rows
      OBVIOUS
    <2>3. [r \in {} |-> 0] \in UNION {[R -> Snapshot] : R \in SUBSET Rows}
      BY <2>1, <2>2
    <2>4. held \in [Passes -> UNION {[R -> Snapshot] : R \in SUBSET Rows}]
      BY <2>3, Zenon
    <2>5. began \in [Passes -> 0 .. Period - 1] /\ age \in [Passes -> 0 .. MaxPass]
      OBVIOUS
    <2>6. QED
      BY <2>4, <2>5 DEF PassTyped
  <1>3. RestTyped
    BY DEF RestTyped
  <1>4. CountInv
    BY DEF CountInv, Holding
  <1>5. QED
    BY <1>1, <1>2, <1>3, <1>4 DEF Inv

-----------------------------------------------------------------------------
(* A step.                                                                 *)

LEMMA StepInv == Inv /\ [Next]_vars => Inv'
  <1> SUFFICES ASSUME Inv, [Next]_vars PROVE Inv'
    OBVIOUS
  <1> USE ScheduleAssumption DEF Inv
  <1>1. ASSUME NEW r \in Rows, NEW h \in Hours, Restate(r, h) PROVE Inv'
    <2>1. RowTyped'
      <3>1. NextRun(h, clock) \in -MaxLate .. Period
        BY NextRunRange DEF RestTyped
      <3>2. QED
        BY <1>1, <3>1 DEF Restate, RowTyped, row
    <2>2. PassTyped' /\ RestTyped'
      BY <1>1 DEF Restate, PassTyped, RestTyped, pass
    <2>3. CountInv'
      <3>1. CASE state[r] = "stopped"
        BY <1>1, <3>1 DEF Restate, CountInv, Holding, row, pass
      <3>2. CASE state[r] # "stopped"
        <4>1. /\ UNCHANGED held
              /\ state' = [state EXCEPT ![r] = "active"]
              /\ failures' = [failures EXCEPT ![r] = 0]
              /\ streak' = [streak EXCEPT ![r] = IF Holders(r) = {} THEN 0 ELSE @]
          BY <1>1, <3>2 DEF Restate, pass
        <4>2. \A p \in Passes : \A q \in Holding(p) : q = r => streak'[q] = streak[q]
          BY <4>1 DEF Holders, RowTyped
        <4>3. \A p \in Passes : Holding(p) \subseteq Rows
          BY HeldTyped
        <4>4. \A q \in Rows : streak'[q] \in {0, streak[q]}
                              /\ (q # r => streak'[q] = streak[q])
          BY <4>1 DEF RowTyped
        <4>5. QED
          BY <4>1, <4>2, <4>3, <4>4 DEF CountInv, RowTyped, Holding
      <3>3. QED
        BY <3>1, <3>2
    <2>4. QED
      BY <2>1, <2>2, <2>3
  <1>2. ASSUME NEW r \in Rows, Cancel(r) PROVE Inv'
    BY <1>2 DEF Cancel, RowTyped, PassTyped, RestTyped, CountInv, Holding, pass
  <1>3. ASSUME NEW r \in Rows, Break(r) PROVE Inv'
    BY <1>3 DEF Break, RowTyped, PassTyped, RestTyped, CountInv, Holding, pass, row
  <1>4. ASSUME NEW p \in Passes, BeginPass(p) PROVE Inv'
    <2> DEFINE read == [r \in Due |-> [hour |-> hour[r], failures |-> failures[r]]]
    <2>1. held' = [held EXCEPT ![p] = read]
      BY <1>4 DEF BeginPass
    <2>2. read \in [Due -> Snapshot] /\ Due \in SUBSET Rows
      BY DEF Due, Snapshot, RowTyped, CountInv
    <2>3. read \in UNION {[R -> Snapshot] : R \in SUBSET Rows}
      BY <2>2
    <2>4. PassTyped'
      <3>1. held' \in [Passes -> UNION {[R -> Snapshot] : R \in SUBSET Rows}]
        BY <2>1, <2>3, Zenon DEF PassTyped
      <3>2. began' \in [Passes -> 0 .. Period - 1] /\ age' \in [Passes -> 0 .. MaxPass]
        BY <1>4 DEF BeginPass, PassTyped, RestTyped
      <3>3. QED
        BY <3>1, <3>2 DEF PassTyped
    <2>5. CountInv'
      <3>1. UNCHANGED <<state, failures, streak>>
        BY <1>4 DEF BeginPass, row
      <3>2. ASSUME NEW q \in Passes, NEW r \in Holding(q)' PROVE held'[q][r].failures <= streak[r]
        <4>1. CASE q = p
          <5>1. held'[p] = read
            BY <2>1 DEF PassTyped
          <5>2. r \in Due /\ r \in Rows
            BY <3>2, <4>1, <5>1 DEF Holding, Due
          <5>3. QED
            BY <4>1, <5>1, <5>2 DEF CountInv
        <4>2. CASE q # p
          <5>1. held'[q] = held[q]
            BY <2>1, <4>2 DEF PassTyped
          <5>2. QED
            BY <3>2, <5>1 DEF CountInv, Holding
        <4>3. QED
          BY <4>1, <4>2
      <3>3. QED
        BY <3>1, <3>2 DEF CountInv
    <2>6. QED
      BY <1>4, <2>4, <2>5 DEF BeginPass, row, RowTyped, RestTyped
  <1>5. ASSUME NEW p \in Passes, PassDies(p) PROVE Inv'
    <2>1. held' = [held EXCEPT ![p] = [r \in {} |-> 0]]
      BY <1>5 DEF PassDies
    <2>2. [r \in {} |-> 0] \in [{} -> Snapshot] /\ {} \in SUBSET Rows
      OBVIOUS
    <2>3. [r \in {} |-> 0] \in UNION {[R -> Snapshot] : R \in SUBSET Rows}
      BY <2>2
    <2>4. PassTyped'
      BY <1>5, <2>1, <2>3, Zenon DEF PassDies, PassTyped
    <2>5. \A q \in Passes : \A r \in Holding(q)' : held'[q] = held[q]
      BY <2>1 DEF PassTyped, Holding
    <2>6. CountInv'
      BY <1>5, <2>5 DEF PassDies, row, CountInv, Holding
    <2>7. QED
      BY <1>5, <2>4, <2>6 DEF PassDies, row, RowTyped, RestTyped
  <1>6. ASSUME NEW p \in Passes, NEW r \in Rows, RecordRun(p, r) PROVE Inv'
    <2> DEFINE h == held[p][r]
               f == FailuresAfter(h, r)
    <2>1. r \in Holding(p) /\ RowDone(p, r) /\ CountStreak(p, r, TRUE)
      BY <1>6 DEF RecordRun
    <2>2. h.hour \in Hours /\ h.failures \in 0 .. MaxFailures - 1 /\ h.failures <= streak[r]
      BY <2>1, HeldTyped DEF Snapshot, CountInv
    <2>3. f \in 0 .. MaxFailures
      BY <2>2 DEF FailuresAfter
    <2>4. /\ failures' = [failures EXCEPT ![r] = f]
          /\ state' = [state EXCEPT ![r] = IF f >= MaxFailures THEN "stopped" ELSE "active"]
          /\ wait' = [wait EXCEPT ![r] = NextRun(h.hour, began[p]) - age[p]]
      BY <1>6 DEF RecordRun
    <2>5. streak' \in [Rows -> 0 .. MaxFailures] /\ \A q \in Rows \ {r} : streak'[q] = streak[q]
      BY <2>1 DEF CountStreak, RowTyped
    <2>6. RowTyped'
      <3>1. NextRun(h.hour, began[p]) - age[p] \in -MaxLate .. Period
        BY <2>2, NextRunRange DEF PassTyped
      <3>2. failures' \in [Rows -> 0 .. MaxFailures] /\ wait' \in [Rows -> -MaxLate .. Period]
        BY <2>3, <2>4, <3>1 DEF RowTyped
      <3>3. state' \in [Rows -> {"none", "active", "stopped"}]
        BY <2>4 DEF RowTyped
      <3>4. hour' = hour
        BY <1>6 DEF RecordRun
      <3>5. QED
        BY <2>5, <3>2, <3>3, <3>4 DEF RowTyped
    <2>7. PassTyped' /\ RestTyped'
      BY <1>6, <2>1, RowRemoved DEF RecordRun, PassTyped, RestTyped
    <2>8. f <= streak'[r]
      BY <2>1, <2>2 DEF CountStreak, FailuresAfter, RowTyped
    <2>9. ASSUME NEW q \in Passes, NEW s \in Holding(q)' PROVE held'[q][s].failures <= streak'[s]
      <3>1. s \in Holding(q) /\ held'[q][s] = held[q][s] /\ (s = r => q # p) /\ s \in Rows
        BY <2>1, <2>9, RowRemoved, HeldTyped
      <3>2. CASE s = r
        <4>1. q \in Holders(r) /\ q # p
          BY <3>1, <3>2 DEF Holders
        <4>2. streak'[r] >= streak[r]
          BY <2>1, <4>1 DEF CountStreak, RowTyped
        <4>3. held[q][r].failures \in Nat /\ held[q][r].failures <= streak[r]
          BY <3>1, <3>2, HeldTyped DEF CountInv, Snapshot
        <4>4. streak[r] \in Nat /\ streak'[r] \in Nat
          BY <2>5 DEF RowTyped
        <4>5. QED
          BY <3>1, <3>2, <4>2, <4>3, <4>4
      <3>3. CASE s # r
        BY <2>5, <3>1, <3>3 DEF CountInv
      <3>4. QED
        BY <3>2, <3>3
    <2>10. CountInv'
      <3>1. \A s \in Rows : state'[s] = "active" => failures'[s] < MaxFailures
        BY <2>3, <2>4 DEF CountInv, RowTyped
      <3>2. \A s \in Rows : failures'[s] <= streak'[s]
        BY <2>4, <2>5, <2>8 DEF CountInv, RowTyped
      <3>3. QED
        BY <2>9, <3>1, <3>2 DEF CountInv
    <2>11. QED
      BY <2>6, <2>7, <2>10
  <1>7. ASSUME NEW p \in Passes, NEW r \in Rows, LoseRecord(p, r) PROVE Inv'
    <2>1. r \in Holding(p) /\ RowDone(p, r) /\ CountStreak(p, r, FALSE)
      BY <1>7 DEF LoseRecord
    <2>2. /\ streak' \in [Rows -> 0 .. MaxFailures]
          /\ \A s \in Rows : streak[s] <= streak'[s]
      BY <2>1 DEF CountStreak, RowTyped
    <2>3. RowTyped' /\ PassTyped' /\ RestTyped'
      BY <1>7, <2>1, <2>2, RowRemoved DEF LoseRecord, row, RowTyped, PassTyped, RestTyped
    <2>4. ASSUME NEW q \in Passes, NEW s \in Holding(q)' PROVE held'[q][s].failures <= streak'[s]
      <3>1. s \in Holding(q) /\ held'[q][s] = held[q][s] /\ s \in Rows
        BY <2>1, <2>4, RowRemoved, HeldTyped
      <3>2. held[q][s].failures \in Nat /\ held[q][s].failures <= streak[s]
        BY <3>1, HeldTyped DEF CountInv, Snapshot
      <3>3. streak[s] \in Nat /\ streak'[s] \in Nat /\ streak[s] <= streak'[s]
        BY <2>2, <3>1 DEF RowTyped
      <3>4. QED
        BY <3>1, <3>2, <3>3
    <2>5. \A s \in Rows : failures'[s] <= streak'[s]
      BY <1>7, <2>2 DEF LoseRecord, row, CountInv, RowTyped
    <2>6. CountInv'
      BY <1>7, <2>4, <2>5 DEF LoseRecord, row, CountInv
    <2>7. QED
      BY <2>3, <2>6
  <1>8. ASSUME Tick PROVE Inv'
    <2>1. RowTyped'
      BY <1>8 DEF Tick, RowTyped
    <2>2. PassTyped'
      BY <1>8 DEF Tick, PassTyped
    <2>3. RestTyped'
      BY <1>8 DEF Tick, RestTyped
    <2>4. CountInv'
      BY <1>8 DEF Tick, CountInv, Holding
    <2>5. QED
      BY <2>1, <2>2, <2>3, <2>4
  <1>9. CASE UNCHANGED vars
    BY <1>9 DEF vars, row, pass, RowTyped, PassTyped, RestTyped, CountInv, Holding
  <1>10. QED
    BY <1>1, <1>2, <1>3, <1>4, <1>5, <1>6, <1>7, <1>8, <1>9 DEF Next

LEMMA Invariance == Spec => []Inv
  BY InitInv, StepInv, PTL DEF Spec

(* Rows and passes keep their type: the wait of a row stays within the     *)
(* lateness a pass may cause, for every number of rows and passes.         *)
THEOREM RoutineTypes == Spec => []TypeOK
  BY Invariance, InvTypes, PTL

(* A count computed from a value read before the run never overstates the  *)
(* failures, however many passes overlap and lose each other's writes.     *)
THEOREM RoutineCountEarned == Spec => []CountIsEarned
  <1>1. Inv => CountIsEarned
    BY DEF Inv, CountInv, CountIsEarned
  <1>2. QED
    BY <1>1, Invariance, PTL

-----------------------------------------------------------------------------
(* What is stopped.                                                        *)

(* A stopped row is revived by nothing but the write of a pass that had it *)
(* in hand when it was stopped, or took it up before.                      *)
THEOREM RoutineRevival == Spec => RevivedOnlyByARunInHand
  <1>1. ASSUME Inv, [Next]_vars, NEW r \in Rows, state[r] = "stopped"
        PROVE  /\ Holders(r)' \subseteq Holders(r)
               /\ state'[r] = "active" => Holders(r)' # Holders(r)
    <2> USE DEF Inv
    <2>1. CASE UNCHANGED <<held, state>>
      BY <1>1, <2>1 DEF Holders, Holding
    <2>2. ASSUME NEW q \in Rows, NEW h \in Hours, Restate(q, h)
          PROVE  UNCHANGED held /\ state'[r] = "stopped"
      BY <1>1, <2>2 DEF Restate, row, pass, RowTyped
    <2>3. ASSUME NEW q \in Rows, Cancel(q) PROVE UNCHANGED held /\ state'[r] = "stopped"
      BY <1>1, <2>3 DEF Cancel, pass, RowTyped
    <2>4. ASSUME UNCHANGED held, state'[r] = "stopped" PROVE Holders(r)' \subseteq Holders(r)
      BY <2>4 DEF Holders, Holding
    <2>5. ASSUME NEW p \in Passes, BeginPass(p) \/ PassDies(p)
          PROVE  Holders(r)' \subseteq Holders(r) /\ state'[r] = "stopped"
      <3>1. r \notin Holding(p)' /\ \A q \in Passes \ {p} : Holding(q)' = Holding(q)
        BY <1>1, <2>5 DEF BeginPass, PassDies, Due, Holding, PassTyped
      <3>2. QED
        BY <1>1, <2>5, <3>1 DEF Holders, BeginPass, PassDies, row
    <2>6. ASSUME NEW p \in Passes, NEW q \in Rows, RecordRun(p, q) \/ LoseRecord(p, q)
          PROVE  /\ Holders(r)' \subseteq Holders(r)
                 /\ q = r => Holders(r)' # Holders(r)
                 /\ q # r => state'[r] = "stopped"
      <3>1. q \in Holding(p) /\ RowDone(p, q)
        BY <2>6 DEF RecordRun, LoseRecord
      <3>2. /\ Holding(p)' = Holding(p) \ {q}
            /\ \A o \in Passes \ {p} : Holding(o)' = Holding(o)
        BY <1>1, <3>1, RowRemoved
      <3>3. q # r => state'[r] = "stopped"
        BY <1>1, <2>6 DEF RecordRun, LoseRecord, row, RowTyped
      <3>4. QED
        BY <3>1, <3>2, <3>3 DEF Holders
    <2>7. Break(r) \/ Tick \/ UNCHANGED vars => UNCHANGED <<held, state>>
      BY DEF Break, Tick, vars, row, pass
    <2>8. \A q \in Rows : Break(q) => UNCHANGED <<held, state>>
      BY DEF Break, row, pass
    <2>9. QED
      BY <1>1, <2>1, <2>2, <2>3, <2>4, <2>5, <2>6, <2>7, <2>8 DEF Next
  <1>2. Inv /\ [Next]_vars =>
          \A r \in Rows : state[r] = "stopped" =>
            /\ Holders(r)' \subseteq Holders(r)
            /\ state'[r] = "active" => Holders(r)' # Holders(r)
    BY <1>1
  <1>3. QED
    BY <1>2, Invariance, PTL DEF Spec, RevivedOnlyByARunInHand

-----------------------------------------------------------------------------
(* Appointments.                                                           *)

(* Before two periods are over, a tick is of hour h when it is h or a      *)
(* period after it.                                                        *)
LEMMA TickOfHour ==
  ASSUME NEW h \in Hours, NEW x \in 0 .. 2 * Period - 1
  PROVE  x % Period = h <=> x \in {h, h + Period}
  <1>1. Period \in Nat \ {0} /\ h \in 0 .. Period - 1
    BY ScheduleAssumption
  <1>2. QED
    BY <1>1, SMTT(30)

(* The same two instants, seen a tick later.                               *)
LEMMA ATickLater ==
  ASSUME NEW P \in Nat \ {0}, NEW c \in 0 .. P - 1, NEW b \in 0 .. P - 1,
         NEW a \in Nat, a + 1 < P, b + a \in {c, c + P},
         NEW d, d = IF c = P - 1 THEN 0 ELSE c + 1
  PROVE  b + (a + 1) \in {d, d + P}
  <1>1. CASE c = P - 1
    BY <1>1
  <1>2. CASE c # P - 1
    BY <1>2
  <1>3. QED
    BY <1>1, <1>2

(* nextRunAt is right: the hour comes round NextRun ticks from now, and    *)
(* not at any tick before.                                                 *)
THEOREM RoutineNextRunIsNext ==
  ASSUME NEW h \in Hours, NEW t \in 0 .. Period - 1
  PROVE  /\ (t + NextRun(h, t)) % Period = h
         /\ \A n \in 1 .. NextRun(h, t) - 1 : (t + n) % Period # h
  <1> USE ScheduleAssumption
  <1>1. NextRun(h, t) \in 1 .. Period /\ Period \in Nat
    BY NextRunRange
  <1>2. t + NextRun(h, t) \in 0 .. 2 * Period - 1 /\ t + NextRun(h, t) \in {h, h + Period}
    BY <1>1 DEF NextRun
  <1>3. ASSUME NEW n \in 1 .. NextRun(h, t) - 1
        PROVE  t + n \in 0 .. 2 * Period - 1 /\ t + n \notin {h, h + Period}
    BY <1>1, <1>3 DEF NextRun
  <1>4. QED
    BY <1>2, <1>3, TickOfHour

(* A pass knows what time it is by when it began, as long as it is younger *)
(* than a period; and an older one sets nothing to come.                   *)
AgeInv ==
  \A p \in Passes :
    Live(p) /\ age[p] < Period => began[p] + age[p] \in {clock, clock + Period}

LEMMA StepAge ==
  ASSUME Inv, AgeInv, [Next]_vars
  PROVE  AgeInv'
  <1> USE ScheduleAssumption DEF Inv, PassTyped, RestTyped, AgeInv
  <1>1. ASSUME UNCHANGED <<clock, began, age>>, \A p \in Passes : Live(p)' => Live(p)
        PROVE  AgeInv'
    BY <1>1
  <1>2. ASSUME NEW p \in Passes, BeginPass(p) PROVE AgeInv'
    <2>1. \A q \in Passes \ {p} : Live(q)' => Live(q)
      BY <1>2 DEF BeginPass, Live, Holding
    <2>2. /\ clock' = clock /\ began'[p] = clock /\ age'[p] = 0
          /\ \A q \in Passes \ {p} : began'[q] = began[q] /\ age'[q] = age[q]
      BY <1>2 DEF BeginPass
    <2>3. QED
      BY <2>1, <2>2
  <1>3. ASSUME Tick PROVE AgeInv'
    <2> SUFFICES ASSUME NEW p \in Passes, Live(p), age'[p] < Period
                 PROVE  began'[p] + age'[p] \in {clock', clock' + Period}
      BY <1>3 DEF Tick, Live, Holding
    <2>1. /\ clock \in 0 .. Period - 1 /\ began[p] \in 0 .. Period - 1
          /\ age[p] \in Nat /\ Period \in Nat \ {0}
      OBVIOUS
    <2>2. /\ age'[p] = age[p] + 1 /\ began'[p] = began[p]
          /\ clock' = IF clock = Period - 1 THEN 0 ELSE clock + 1
      BY <1>3 DEF Tick
    <2>3. age[p] + 1 < Period /\ began[p] + age[p] \in {clock, clock + Period}
      BY <2>1, <2>2
    <2>4. began[p] + (age[p] + 1) \in {clock', clock' + Period}
      BY ONLY <2>1, <2>2, <2>3, ATickLater
    <2>5. QED
      BY <2>2, <2>4
  <1>4. ASSUME NEW p \in Passes, PassDies(p) PROVE AgeInv'
    <2>1. \A q \in Passes : Live(q)' => Live(q)
      BY <1>4 DEF PassDies, Live, Holding
    <2>2. QED
      BY <1>1, <1>4, <2>1 DEF PassDies
  <1>5. ASSUME NEW p \in Passes, NEW r \in Rows, RecordRun(p, r) \/ LoseRecord(p, r)
        PROVE  AgeInv'
    <2>1. r \in Holding(p) /\ RowDone(p, r) /\ UNCHANGED <<clock, began, age>>
      BY <1>5 DEF RecordRun, LoseRecord
    <2>2. \A q \in Passes : Holding(q)' \subseteq Holding(q)
      BY <2>1, RowRemoved
    <2>3. QED
      BY <1>1, <2>1, <2>2 DEF Live
  <1>6. ASSUME NEW r \in Rows, Cancel(r) \/ Break(r) \/ \E h \in Hours : Restate(r, h)
        PROVE  UNCHANGED <<clock, pass>>
    BY <1>6 DEF Cancel, Break, Restate
  <1>7. UNCHANGED <<clock, pass>> => AgeInv'
    BY DEF pass, Live, Holding
  <1>8. QED
    BY <1>2, <1>3, <1>4, <1>5, <1>6, <1>7 DEF Next, vars

(* What an active row waits for, and where it has it from: the hour of a   *)
(* restatement, the hour that a pass had read, or the step before.         *)
LEMMA WaitsFor ==
  ASSUME Inv, AgeInv, [Next]_vars, NEW r \in Rows, state'[r] = "active", wait'[r] > 0
  PROVE  \/ \E h \in Hours :
              hour'[r] = h /\ clock' + wait'[r] \in {h, h + Period}
         \/ \E p \in Passes :
              /\ RecordRun(p, r) /\ hour' = hour /\ held[p][r].hour \in Hours
              /\ clock' + wait'[r] \in {held[p][r].hour, held[p][r].hour + Period}
         \/ /\ state[r] = "active" /\ wait[r] > 0 /\ hour'[r] = hour[r]
            /\ clock' + wait'[r] \in {clock + wait[r], clock + wait[r] - Period}
  <1> DEFINE Same == /\ state[r] = "active" /\ wait[r] > 0 /\ hour'[r] = hour[r]
                     /\ clock' + wait'[r] \in {clock + wait[r], clock + wait[r] - Period}
             Read(p) == /\ RecordRun(p, r) /\ hour' = hour /\ held[p][r].hour \in Hours
                        /\ clock' + wait'[r] \in {held[p][r].hour, held[p][r].hour + Period}
             Stated(h) == hour'[r] = h /\ clock' + wait'[r] \in {h, h + Period}
  <1> USE ScheduleAssumption DEF Inv, RowTyped, RestTyped
  <1>0. /\ clock \in 0 .. Period - 1 /\ wait[r] \in Int /\ wait'[r] \in Int
        /\ clock' \in 0 .. Period - 1 /\ Period \in Nat
    BY StepInv
  <1>1. ASSUME UNCHANGED <<clock, hour, wait, state>> PROVE Same
    BY <1>0, <1>1
  <1>2. ASSUME NEW q \in Rows, NEW h \in Hours, Restate(q, h) PROVE Same \/ Stated(h)
    <2>1. CASE UNCHANGED row
      BY <1>1, <1>2, <2>1 DEF Restate, row
    <2>2. CASE q # r
      BY <1>0, <1>2, <2>2 DEF Restate, row
    <2>3. CASE q = r /\ state[r] # "stopped"
      <3>1. clock' = clock /\ hour'[r] = h /\ wait'[r] = NextRun(h, clock)
        BY <1>2, <2>3 DEF Restate
      <3>2. h \in 0 .. Period - 1
        OBVIOUS
      <3>3. QED
        BY <1>0, <3>1, <3>2 DEF NextRun
    <2>4. QED
      BY <1>2, <2>1, <2>2, <2>3 DEF Restate
  <1>3. ASSUME NEW q \in Rows, Cancel(q) PROVE Same
    BY <1>0, <1>3 DEF Cancel
  <1>4. ASSUME NEW p \in Passes, NEW q \in Rows, RecordRun(p, q) PROVE Same \/ Read(p)
    <2>1. CASE q # r
      BY <1>0, <1>4, <2>1 DEF RecordRun
    <2>2. CASE q = r
      <3> DEFINE h == held[p][r].hour
      <3>1. r \in Holding(p) /\ UNCHANGED <<clock, hour>>
            /\ wait'[r] = NextRun(h, began[p]) - age[p]
        BY <1>4, <2>2 DEF RecordRun
      <3>2. h \in Hours /\ h \in 0 .. Period - 1
        BY <3>1, HeldTyped DEF Snapshot
      <3>3. began[p] \in 0 .. Period - 1 /\ age[p] \in Nat
        BY DEF PassTyped
      <3>4. NextRun(h, began[p]) \in 1 .. Period
            /\ began[p] + NextRun(h, began[p]) \in {h, h + Period}
        BY <3>2, <3>3, <1>0 DEF NextRun
      <3> HIDE DEF h
      <3>5. age[p] < Period
        BY <1>0, <3>1, <3>3, <3>4
      <3>6. began[p] + age[p] \in {clock, clock + Period}
        BY <3>1, <3>5 DEF AgeInv, Live
      <3>7. clock + wait'[r] \in {h, h + Period}
        BY <1>0, <3>1, <3>2, <3>3, <3>4, <3>6
      <3>8. QED
        BY <1>4, <2>2, <3>1, <3>2, <3>7 DEF h
    <2>3. QED
      BY <2>1, <2>2
  <1>5. ASSUME Tick PROVE Same
    <2>1. /\ UNCHANGED <<state, hour>>
          /\ clock' = IF clock = Period - 1 THEN 0 ELSE clock + 1
          /\ wait'[r] = IF state[r] = "active" /\ wait[r] > -MaxLate THEN wait[r] - 1 ELSE wait[r]
      BY <1>5 DEF Tick
    <2>2. wait[r] > -MaxLate
      BY <1>0, <2>1
    <2>3. QED
      BY <1>0, <2>1, <2>2
  <1>6. ASSUME NEW p \in Passes, \/ BeginPass(p) \/ PassDies(p)
                                \/ \E q \in Rows : LoseRecord(p, q) \/ Break(q)
        PROVE  UNCHANGED <<clock, hour, wait, state>>
    BY <1>6 DEF BeginPass, PassDies, LoseRecord, Break, row
  <1>7. ASSUME NEW q \in Rows, Break(q) PROVE UNCHANGED <<clock, hour, wait, state>>
    BY <1>7 DEF Break, row
  <1>8. CASE UNCHANGED vars
    BY <1>1, <1>8 DEF vars, row
  <1>9. QED
    BY <1>1, <1>2, <1>3, <1>4, <1>5, <1>6, <1>7, <1>8 DEF Next

(* Where a row's wait ends is less than two periods away.                  *)
LEMMA WaitRange ==
  ASSUME Inv, NEW r \in Rows, wait[r] > 0
  PROVE  clock + wait[r] \in 0 .. 2 * Period - 1 /\ clock + wait[r] > 0
  BY ScheduleAssumption DEF Inv, RowTyped, RestTyped

LEMMA WaitRangeNext ==
  ASSUME Inv', NEW r \in Rows, wait'[r] > 0
  PROVE  clock' + wait'[r] \in 0 .. 2 * Period - 1 /\ clock' + wait'[r] > 0
  BY ScheduleAssumption DEF Inv, RowTyped, RestTyped

(* An appointment does not drift: an active row waits for an hour that     *)
(* somebody asked for, however late and overlapping the passes.            *)
THEOREM RoutineNoDrift == Spec => []NoDrift
  <1> DEFINE Meets(h, r) == clock + wait[r] \in {h, h + Period}
             Kept == \A r \in Rows : state[r] = "active" /\ wait[r] > 0 =>
                       \E h \in Hours : Meets(h, r)
  <1>1. Init => AgeInv /\ Kept
    BY DEF Init, AgeInv, Live, Holding
  <1>2. ASSUME Inv, AgeInv, Kept, [Next]_vars PROVE Kept'
    <2> SUFFICES ASSUME NEW r \in Rows, state'[r] = "active", wait'[r] > 0
                 PROVE  \E h \in Hours : Meets(h, r)'
      OBVIOUS
    <2>1. CASE state[r] = "active" /\ wait[r] > 0
               /\ clock' + wait'[r] \in {clock + wait[r], clock + wait[r] - Period}
      <3>1. PICK h \in Hours : Meets(h, r)
        BY <1>2, <2>1
      <3>2. h \in 0 .. Period - 1 /\ Period \in Nat \ {0}
        BY ScheduleAssumption
      <3>3. clock' + wait'[r] >= 0 /\ Inv'
        BY <1>2, StepInv, WaitRangeNext, <3>2
      <3>4. clock \in Int /\ wait[r] \in Int /\ clock' \in Int /\ wait'[r] \in Int
        BY <1>2, <3>2, <3>3 DEF Inv, RowTyped, RestTyped
      <3>5. clock' + wait'[r] \in {h, h + Period}
        BY ONLY <2>1, <3>1, <3>2, <3>3, <3>4
      <3>6. QED
        BY <3>5
    <2>2. QED
      BY <1>2, <2>1, WaitsFor
  <1>3. Inv /\ Kept => NoDrift
    BY WaitRange, TickOfHour DEF NoDrift
  <1>4. Inv /\ AgeInv /\ Kept /\ [Next]_vars => AgeInv' /\ Kept'
    BY <1>2, StepAge
  <1> HIDE DEF Kept
  <1>5. QED
    BY <1>1, <1>3, <1>4, Invariance, PTL DEF Spec

(* A row comes off the hour it states only by a pass that had read the row *)
(* when it stated another hour.                                            *)
THEOREM RoutineOffItsHour == Spec => OffItsHourByOldRunOnly
  <1>1. ASSUME Inv, AgeInv, [Next]_vars, NEW r \in Rows, ~OffItsHour(r), OffItsHour(r)'
        PROVE  \E p \in Passes : RecordRun(p, r) /\ held[p][r].hour # hour[r]
    <2>0. Inv' /\ Period \in Nat \ {0} /\ Hours \subseteq 0 .. Period - 1
      BY <1>1, StepInv, ScheduleAssumption
    <2>1. /\ state'[r] = "active" /\ wait'[r] > 0
          /\ (clock' + wait'[r]) % Period # hour'[r]
      BY <1>1 DEF OffItsHour
    <2>2. hour[r] \in Hours /\ hour'[r] \in Hours
      BY <1>1, <2>0 DEF Inv, RowTyped
    <2>3. /\ clock' + wait'[r] \notin {hour'[r], hour'[r] + Period}
          /\ clock' + wait'[r] \in Nat /\ clock' + wait'[r] > 0
      <3>1. clock' + wait'[r] \in 0 .. 2 * Period - 1 /\ clock' + wait'[r] > 0
        BY <1>1, <2>0, <2>1, WaitRangeNext
      <3>2. clock' + wait'[r] \notin {hour'[r], hour'[r] + Period}
        BY <2>1, <2>2, <3>1, TickOfHour
      <3>3. QED
        BY <2>0, <3>1, <3>2
    <2>4. ASSUME state[r] = "active", wait[r] > 0, hour'[r] = hour[r],
                 clock' + wait'[r] \in {clock + wait[r], clock + wait[r] - Period}
          PROVE  FALSE
      <3>1. (clock + wait[r]) % Period = hour[r]
        BY <1>1, <2>4 DEF OffItsHour
      <3>2. clock + wait[r] \in {hour[r], hour[r] + Period}
        BY <1>1, <2>2, <2>4, <3>1, WaitRange, TickOfHour
      <3>3. clock \in Int /\ wait[r] \in Int /\ clock' \in Int /\ wait'[r] \in Int
        BY <1>1, <2>0 DEF Inv, RowTyped, RestTyped
      <3>4. hour[r] \in 0 .. Period - 1 /\ Period \in Nat /\ clock' + wait'[r] > 0
        BY <2>0, <2>2, <2>3
      <3>5. clock' + wait'[r] \in {hour[r], hour[r] + Period}
        BY ONLY <2>4, <3>2, <3>3, <3>4
      <3>6. QED
        BY <2>3, <2>4, <3>5
    <2>5. PICK p \in Passes :
            /\ RecordRun(p, r) /\ hour' = hour /\ held[p][r].hour \in Hours
            /\ clock' + wait'[r] \in {held[p][r].hour, held[p][r].hour + Period}
      BY <1>1, <2>1, <2>3, <2>4, WaitsFor
    <2>6. QED
      BY <2>3, <2>5
  <1>2. Inv /\ AgeInv /\ [Next]_vars =>
          \A r \in Rows : ~OffItsHour(r) /\ OffItsHour(r)' =>
            \E p \in Passes : RecordRun(p, r) /\ held[p][r].hour # hour[r]
    BY <1>1
  <1>3. Init => AgeInv
    BY DEF Init, AgeInv, Live, Holding
  <1>4. Inv /\ AgeInv /\ [Next]_vars => AgeInv'
    BY StepAge
  <1>5. QED
    BY <1>2, <1>3, <1>4, Invariance, PTL DEF Spec, OffItsHourByOldRunOnly
=============================================================================
