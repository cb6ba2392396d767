--------------------------- MODULE AgentRunProofs ---------------------------
(***************************************************************************)
(* What holds of AgentRun for every number of runs, tasks and agents and   *)
(* every budget and ceiling: the true bounds of the three limits, which    *)
(* are exact when runs do not overlap.                                     *)
(***************************************************************************)
EXTENDS AgentRun, FiniteSetTheorems, TLAPS

(* A run in the middle of a step has that step's instruction left to count *)
(* down: what TypeOK needs of NextStep.                                    *)
StepInHand == \A r \in Runs : pc[r] \notin {"idle", "checking"} => left[r] > 0

TypeInv == TypeOK /\ StepInHand

(* Between a check that let a run proceed and its act.                     *)
PastCheck(r) == pc[r] \in {"dispatching", "counting", "recording", "acting"}

(* A run that has acted since the stop is not past a check: to act again   *)
(* it would have to pass one.                                              *)
StopInv ==
  \A r \in Runs :
    /\ switch = "enabled" => late[r] = 0
    /\ late[r] <= 1
    /\ late[r] = 1 => ~PastCheck(r)

(* Runs that were let proceed and have not yet charged the ledger.         *)
Dispatching(t) == {r \in Runs : pc[r] = "dispatching" /\ task[r] = t}

TimeInv ==
  \A t \in Tasks :
    spent[t] + Cardinality(Dispatching(t)) * MaxCost < MaxTime + Cardinality(Runs) * MaxCost

(* Runs that counted fewer than the ceiling and have not yet recorded.     *)
Waiting(a) == {r \in Runs : pc[r] = "recording" /\ agent[r] = a /\ used[r] < Ceiling}

CeilingInv ==
  Ceiling > 0 =>
    \A a \in Agents :
      allowed[a] + Cardinality(Waiting(a)) < Ceiling + Cardinality(Runs)

-----------------------------------------------------------------------------
(* Cardinalities of sets of runs.                                          *)

(* A set of runs has a size between zero and the number of runs.           *)
LEMMA RunsSubset ==
  ASSUME NEW S \in SUBSET Runs
  PROVE  /\ IsFiniteSet(S)
         /\ Cardinality(S) \in Nat /\ Cardinality(Runs) \in Nat
         /\ Cardinality(S) <= Cardinality(Runs)
         /\ Cardinality(Runs) > 0
  BY RunAssumption, FS_Subset, FS_CardinalityType, FS_EmptySet

(* Fewer runs, smaller size.                                               *)
LEMMA RunsShrink ==
  ASSUME NEW S \in SUBSET Runs, NEW T \in SUBSET S
  PROVE  Cardinality(T) <= Cardinality(S)
  BY RunsSubset, FS_Subset

(* One run less, a size smaller by one.                                    *)
LEMMA RunsRemove ==
  ASSUME NEW S \in SUBSET Runs, NEW r \in S
  PROVE  Cardinality(S \ {r}) = Cardinality(S) - 1
  BY RunsSubset, FS_RemoveElement

(* Arithmetic of the two budgets, kept apart from the sets.                *)
LEMMA Shrinks ==
  ASSUME NEW x \in Nat, NEW y \in Nat, NEW n \in Nat, NEW m \in Nat, NEW c \in Nat,
         y <= x, m <= n
  PROVE  y + m * c <= x + n * c
  <1>1. n * c = m * c + (n - m) * c
    OBVIOUS
  <1>2. (n - m) * c \in Nat /\ m * c \in Nat
    OBVIOUS
  <1>3. QED
    BY <1>1, <1>2

LEMMA Charged ==
  ASSUME NEW x \in Nat, NEW n \in Nat \ {0}, NEW c \in Nat, NEW cost \in 0..c
  PROVE  x + cost + (n - 1) * c <= x + n * c
  <1>1. n * c = (n - 1) * c + c
    OBVIOUS
  <1>2. (n - 1) * c \in Nat
    OBVIOUS
  <1>3. QED
    BY <1>1, <1>2

-----------------------------------------------------------------------------

LEMMA InitTyped == Init => TypeInv
  BY RunAssumption DEF Init, TypeInv, TypeOK, StepInHand, Where

LEMMA StepTyped == TypeInv /\ [Next]_vars => TypeInv'
  <1> SUFFICES ASSUME TypeInv, [Next]_vars PROVE TypeInv'
    OBVIOUS
  <1> USE RunAssumption
          DEF TypeInv, TypeOK, StepInHand, Where, controlVars, windowVars, runVars, Goto, End, NextStep
  <1>1. ASSUME NEW r \in Runs, NEW t \in Tasks, NEW a \in Agents, NEW n \in 1..MaxSteps,
               Start(r, t, a, n)
        PROVE  TypeInv'
    BY <1>1 DEF Start
  <1>2. ASSUME NEW r \in Runs, Check(r) PROVE TypeInv'
    BY <1>2 DEF Check
  <1>3. ASSUME NEW r \in Runs, Complete(r) PROVE TypeInv'
    BY <1>3 DEF Complete, TerminalStatus
  <1>4. ASSUME NEW r \in Runs, NEW cost \in 0..MaxCost, Dispatch(r, cost) PROVE TypeInv'
    <2>1. spent' \in [Tasks -> Nat]
      BY <1>4 DEF Dispatch, AddRunSpend
    <2>2. /\ pc' \in [Runs -> Where] /\ left' \in [Runs -> 0..MaxSteps] /\ ran' \in [Runs -> Nat]
          /\ used' \in [Runs -> Nat] /\ UNCHANGED <<task, agent>>
          /\ outcome' \in [Runs -> {"none", "succeeded", "blocked", "failed"}]
      BY <1>4 DEF Dispatch
    <2>3. StepInHand'
      BY <1>4 DEF Dispatch
    <2>4. QED
      BY <1>4, <2>1, <2>2, <2>3 DEF Dispatch
  <1>5. ASSUME NEW r \in Runs, Count(r) PROVE TypeInv'
    BY <1>5 DEF Count
  <1>6. ASSUME NEW r \in Runs, Record(r) PROVE TypeInv'
    BY <1>6 DEF Record
  <1>7. ASSUME NEW r \in Runs, Act(r) PROVE TypeInv'
    BY <1>7 DEF Act
  <1>8. ASSUME NEW r \in Runs, Retry(r) PROVE TypeInv'
    BY <1>8 DEF Retry
  <1>9. ASSUME NEW r \in Runs, RunDies(r) PROVE TypeInv'
    BY <1>9 DEF RunDies
  <1>10. ASSUME NEW s \in {"enabled", "stopped"}, SetAgentsEnabled(s) PROVE TypeInv'
    BY <1>10 DEF SetAgentsEnabled
  <1>11. ASSUME NEW a \in Agents, HourPasses(a) PROVE TypeInv'
    BY <1>11 DEF HourPasses
  <1>12. CASE UNCHANGED vars
    BY <1>12 DEF vars
  <1>13. QED
    BY <1>1, <1>2, <1>3, <1>4, <1>5, <1>6, <1>7, <1>8, <1>9, <1>10, <1>11, <1>12
       DEF Next, RunStep

(* Every variable keeps to the values the code writes.                     *)
THEOREM TypeCorrect == Spec => []TypeOK
  <1>1. TypeInv => TypeOK
    BY DEF TypeInv
  <1>2. QED
    BY <1>1, InitTyped, StepTyped, PTL DEF Spec

-----------------------------------------------------------------------------
(* The kill switch.                                                        *)

LEMMA StopStep == TypeInv /\ StopInv /\ [Next]_vars => StopInv'
  <1> SUFFICES ASSUME TypeInv, StopInv, [Next]_vars PROVE StopInv'
    OBVIOUS
  <1> USE DEF TypeInv, TypeOK, StopInv, PastCheck, controlVars, windowVars, runVars,
              Goto, End, NextStep
  <1>1. ASSUME NEW r \in Runs, NEW t \in Tasks, NEW a \in Agents, NEW n \in 1..MaxSteps,
               Start(r, t, a, n)
        PROVE  StopInv'
    BY <1>1 DEF Start
  <1>2. ASSUME NEW r \in Runs, Check(r) PROVE StopInv'
    BY <1>2 DEF Check, MayProceed
  <1>3. ASSUME NEW r \in Runs, Complete(r) PROVE StopInv'
    BY <1>3 DEF Complete
  <1>4. ASSUME NEW r \in Runs, NEW cost \in 0..MaxCost, Dispatch(r, cost) PROVE StopInv'
    BY <1>4 DEF Dispatch
  <1>5. ASSUME NEW r \in Runs, Count(r) PROVE StopInv'
    BY <1>5 DEF Count
  <1>6. ASSUME NEW r \in Runs, Record(r) PROVE StopInv'
    BY <1>6 DEF Record
  <1>7. ASSUME NEW r \in Runs, Act(r) PROVE StopInv'
    BY <1>7 DEF Act
  <1>8. ASSUME NEW r \in Runs, Retry(r) PROVE StopInv'
    BY <1>8 DEF Retry
  <1>9. ASSUME NEW r \in Runs, RunDies(r) PROVE StopInv'
    BY <1>9 DEF RunDies
  <1>10. ASSUME NEW s \in {"enabled", "stopped"}, SetAgentsEnabled(s) PROVE StopInv'
    BY <1>10 DEF SetAgentsEnabled
  <1>11. ASSUME NEW a \in Agents, HourPasses(a) PROVE StopInv'
    BY <1>11 DEF HourPasses
  <1>12. CASE UNCHANGED vars
    BY <1>12 DEF vars
  <1>13. QED
    BY <1>1, <1>2, <1>3, <1>4, <1>5, <1>6, <1>7, <1>8, <1>9, <1>10, <1>11, <1>12
       DEF Next, RunStep

(* A stop takes hold within the step: however many runs are in flight, no  *)
(* run acts more than once between a stop and the next resume.             *)
THEOREM StopBinds == Spec => []StopTakesHold
  <1>1. Init => StopInv
    BY DEF Init, StopInv, PastCheck
  <1>2. StopInv => StopTakesHold
    BY DEF StopInv, StopTakesHold
  <1>3. QED
    BY <1>1, <1>2, InitTyped, StepTyped, StopStep, PTL DEF Spec

-----------------------------------------------------------------------------
(* The time budget.                                                        *)

(* A step after which no task has spent more, and no run has joined those  *)
(* between check and ledger, keeps the invariant.                          *)
LEMMA TimeKept ==
  ASSUME TypeOK, TypeOK', TimeInv, UNCHANGED spent,
         \A t \in Tasks : Dispatching(t)' \subseteq Dispatching(t)
  PROVE  TimeInv'
  <1> SUFFICES ASSUME NEW t \in Tasks
               PROVE  spent'[t] + Cardinality(Dispatching(t)') * MaxCost
                        < MaxTime + Cardinality(Runs) * MaxCost
    BY DEF TimeInv
  <1> DEFINE n == Cardinality(Dispatching(t))
             m == Cardinality(Dispatching(t)')
  <1>1. /\ n \in Nat /\ m \in Nat /\ m <= n
        /\ Dispatching(t) \in SUBSET Runs /\ Dispatching(t)' \in SUBSET Runs
    <2>1. Dispatching(t) \in SUBSET Runs /\ Dispatching(t)' \in SUBSET Dispatching(t)
      BY DEF Dispatching
    <2>2. QED
      BY <2>1, RunsSubset, RunsShrink
  <1>2. spent[t] \in Nat /\ spent'[t] = spent[t] /\ MaxCost \in Nat /\ MaxTime \in Nat
    BY RunAssumption DEF TypeOK
  <1>3. spent[t] + n * MaxCost < MaxTime + Cardinality(Runs) * MaxCost
    BY DEF TimeInv
  <1> HIDE DEF n, m
  <1>4. spent[t] + m * MaxCost <= spent[t] + n * MaxCost
    BY <1>1, <1>2, Shrinks
  <1>5. m * MaxCost \in Nat /\ n * MaxCost \in Nat /\ Cardinality(Runs) * MaxCost \in Nat
    BY <1>1, <1>2, RunsSubset
  <1>6. QED
    BY <1>2, <1>3, <1>4, <1>5 DEF m

LEMMA TimeStep == TypeInv /\ TypeOK' /\ TimeInv /\ [Next]_vars => TimeInv'
  <1> SUFFICES ASSUME TypeInv, TypeOK', TimeInv, [Next]_vars PROVE TimeInv'
    OBVIOUS
  <1> USE DEF TypeInv, TypeOK, controlVars, windowVars, runVars, Goto, End, NextStep
  <1>1. ASSUME NEW r \in Runs, Check(r) PROVE TimeInv'
    <2>1. CASE MayProceed(r) /\ Goto(r, "dispatching")
      <3> SUFFICES ASSUME NEW t \in Tasks
                   PROVE  spent'[t] + Cardinality(Dispatching(t)') * MaxCost
                            < MaxTime + Cardinality(Runs) * MaxCost
        BY DEF TimeInv
      <3>1. UNCHANGED spent
        BY <1>1 DEF Check
      <3>2. CASE t = task[r]
        <4>1. spent[t] < MaxTime
          BY <2>1, <3>2 DEF MayProceed, BudgetLeft
        <4>2. Dispatching(t)' \in SUBSET Runs
          BY DEF Dispatching
        <4> DEFINE m == Cardinality(Dispatching(t)')
        <4>3. /\ m \in Nat /\ Cardinality(Runs) \in Nat /\ m <= Cardinality(Runs)
          BY <4>2, RunsSubset
        <4>4. MaxCost \in Nat /\ MaxTime \in Nat /\ spent[t] \in Nat
          BY RunAssumption
        <4> HIDE DEF m
        <4>5. spent[t] + m * MaxCost <= spent[t] + Cardinality(Runs) * MaxCost
          BY <4>3, <4>4, Shrinks
        <4>6. m * MaxCost \in Nat /\ Cardinality(Runs) * MaxCost \in Nat
          BY <4>3, <4>4
        <4>7. QED
          BY <3>1, <4>1, <4>4, <4>5, <4>6 DEF m
      <3>3. CASE t # task[r]
        <4>1. Dispatching(t)' = Dispatching(t)
          BY <2>1, <3>3 DEF Dispatching
        <4>2. QED
          BY <3>1, <4>1 DEF TimeInv
      <3>4. QED
        BY <3>2, <3>3
    <2>2. CASE End(r, "blocked")
      BY <1>1, <2>2, TimeKept DEF Check, Dispatching
    <2>3. QED
      BY <1>1, <2>1, <2>2 DEF Check
  <1>2. ASSUME NEW r \in Runs, NEW cost \in 0..MaxCost, Dispatch(r, cost) PROVE TimeInv'
    <2>1. \A t \in Tasks : Dispatching(t)' \subseteq Dispatching(t)
      BY <1>2 DEF Dispatch, Dispatching
    <2>2. CASE UNCHANGED spent
      BY <2>1, <2>2, TimeKept
    <2>3. CASE spent' = [spent EXCEPT ![task[r]] = @ + cost]
      <3> SUFFICES ASSUME NEW t \in Tasks
                   PROVE  spent'[t] + Cardinality(Dispatching(t)') * MaxCost
                            < MaxTime + Cardinality(Runs) * MaxCost
        BY DEF TimeInv
      <3> DEFINE n == Cardinality(Dispatching(t))
                 m == Cardinality(Dispatching(t)')
      <3>1. /\ Dispatching(t) \in SUBSET Runs /\ Dispatching(t)' \in SUBSET Dispatching(t)
            /\ Dispatching(t)' \in SUBSET Runs
        BY <2>1 DEF Dispatching
      <3>2. n \in Nat /\ m \in Nat /\ Cardinality(Runs) \in Nat /\ m <= n
        BY <3>1, RunsSubset, RunsShrink
      <3>3. MaxCost \in Nat /\ MaxTime \in Nat /\ spent[t] \in Nat
        BY RunAssumption
      <3>4. spent[t] + n * MaxCost < MaxTime + Cardinality(Runs) * MaxCost
        BY DEF TimeInv
      <3>5. n * MaxCost \in Nat /\ m * MaxCost \in Nat /\ Cardinality(Runs) * MaxCost \in Nat
        BY <3>2, <3>3
      <3>6. CASE t = task[r]
        <4>1. r \in Dispatching(t)
          BY <1>2, <3>6 DEF Dispatch, Dispatching
        <4>2. Dispatching(t)' = Dispatching(t) \ {r}
          BY <1>2, <3>6 DEF Dispatch, Dispatching
        <4>3. m = n - 1
          BY <3>1, <4>1, <4>2, RunsRemove
        <4>4. n \in Nat \ {0}
          BY <3>2, <4>3
        <4>5. spent'[t] = spent[t] + cost
          BY <2>3, <3>6
        <4> HIDE DEF n, m
        <4>6. spent[t] + cost + m * MaxCost <= spent[t] + n * MaxCost
          BY <3>3, <4>3, <4>4, Charged
        <4>7. QED
          BY <3>3, <3>4, <3>5, <4>5, <4>6 DEF m
      <3>7. CASE t # task[r]
        <4>1. spent'[t] = spent[t]
          BY <2>3, <3>7
        <4>2. Dispatching(t)' = Dispatching(t)
          BY <1>2, <3>7 DEF Dispatch, Dispatching
        <4>3. QED
          BY <3>4, <4>1, <4>2
      <3>8. QED
        BY <3>6, <3>7
    <2>4. QED
      BY <1>2, <2>2, <2>3 DEF Dispatch, AddRunSpend
  <1>3. ASSUME /\ UNCHANGED spent
               /\ \A q \in Runs : pc'[q] = "dispatching" =>
                     pc[q] = "dispatching" /\ task'[q] = task[q]
        PROVE  TimeInv'
    <2>1. \A t \in Tasks : Dispatching(t)' \subseteq Dispatching(t)
      BY <1>3 DEF Dispatching
    <2>2. QED
      BY <1>3, <2>1, TimeKept
  <1>4. ASSUME NEW r \in Runs, NEW t \in Tasks, NEW a \in Agents, NEW n \in 1..MaxSteps,
               Start(r, t, a, n)
        PROVE  TimeInv'
    BY <1>3, <1>4 DEF Start
  <1>5. ASSUME NEW r \in Runs,
               \/ Complete(r) \/ Count(r) \/ Record(r) \/ Act(r) \/ Retry(r) \/ RunDies(r)
        PROVE  TimeInv'
    BY <1>3, <1>5 DEF Complete, Count, Record, Act, Retry, RunDies
  <1>6. ASSUME \/ \E s \in {"enabled", "stopped"} : SetAgentsEnabled(s)
               \/ \E a \in Agents : HourPasses(a)
               \/ UNCHANGED vars
        PROVE  TimeInv'
    BY <1>3, <1>6 DEF SetAgentsEnabled, HourPasses, vars
  <1>7. QED
    BY <1>1, <1>2, <1>4, <1>5, <1>6 DEF Next, RunStep

(* The recorded time of a task exceeds its budget by less than one         *)
(* dispatch per concurrent run, whatever is restarted, lost or retried.    *)
THEOREM TimeBinds == Spec => []TimeBudgetBinds
  <1>1. Init => TimeInv
    <2> SUFFICES ASSUME Init, NEW t \in Tasks
                 PROVE  spent[t] + Cardinality(Dispatching(t)) * MaxCost
                          < MaxTime + Cardinality(Runs) * MaxCost
      BY DEF TimeInv
    <2>1. Dispatching(t) = {} /\ spent[t] = 0
      BY DEF Init, Dispatching
    <2>2. Cardinality(Dispatching(t)) = 0 /\ Cardinality(Runs) \in Nat
      BY <2>1, FS_EmptySet, RunsSubset
    <2>3. Cardinality(Runs) * MaxCost \in Nat /\ MaxTime > 0 /\ MaxTime \in Nat
      BY <2>2, RunAssumption
    <2>4. QED
      BY <2>1, <2>2, <2>3, RunAssumption
  <1>2. TypeInv /\ TimeInv => TimeBudgetBinds
    <2> SUFFICES ASSUME TypeInv, TimeInv, NEW t \in Tasks
                 PROVE  spent[t] < MaxTime + Cardinality(Runs) * MaxCost
      BY DEF TimeBudgetBinds
    <2>1. Cardinality(Dispatching(t)) \in Nat /\ Cardinality(Runs) \in Nat
      BY RunsSubset DEF Dispatching
    <2> DEFINE n == Cardinality(Dispatching(t))
    <2>2. n * MaxCost \in Nat /\ Cardinality(Runs) * MaxCost \in Nat
      BY <2>1, RunAssumption
    <2>3. spent[t] + n * MaxCost < MaxTime + Cardinality(Runs) * MaxCost
      BY DEF TimeInv
    <2>4. spent[t] \in Nat /\ MaxTime \in Nat
      BY RunAssumption DEF TypeInv, TypeOK
    <2> HIDE DEF n
    <2>5. QED
      BY <2>2, <2>3, <2>4
  <1>3. TypeInv /\ [Next]_vars => TypeOK'
    BY StepTyped DEF TypeInv
  <1>4. QED
    BY <1>1, <1>2, <1>3, InitTyped, StepTyped, TimeStep, PTL DEF Spec

-----------------------------------------------------------------------------
(* The hourly ceiling.                                                     *)

(* A step that lets no operation in, and adds no run to those about to     *)
(* record one, keeps the invariant.                                        *)
LEMMA CeilingKept ==
  ASSUME TypeOK, TypeOK', CeilingInv,
         \A a \in Agents : allowed'[a] <= allowed[a],
         \A a \in Agents : Waiting(a)' \subseteq Waiting(a)
  PROVE  CeilingInv'
  <1> SUFFICES ASSUME Ceiling > 0, NEW a \in Agents
               PROVE  allowed'[a] + Cardinality(Waiting(a)') < Ceiling + Cardinality(Runs)
    BY DEF CeilingInv
  <1>1. /\ Waiting(a) \in SUBSET Runs /\ Waiting(a)' \in SUBSET Runs
        /\ Waiting(a)' \in SUBSET Waiting(a)
    BY DEF Waiting
  <1>2. /\ Cardinality(Waiting(a)) \in Nat /\ Cardinality(Waiting(a)') \in Nat
        /\ Cardinality(Waiting(a)') <= Cardinality(Waiting(a))
        /\ Cardinality(Runs) \in Nat
    BY <1>1, RunsSubset, RunsShrink
  <1>3. allowed[a] \in Nat /\ allowed'[a] \in Nat /\ Ceiling \in Nat
    BY RunAssumption DEF TypeOK
  <1>4. QED
    BY <1>2, <1>3 DEF CeilingInv

LEMMA CeilingStep == TypeInv /\ TypeOK' /\ CeilingInv /\ [Next]_vars => CeilingInv'
  <1> SUFFICES ASSUME TypeInv, TypeOK', CeilingInv, [Next]_vars PROVE CeilingInv'
    OBVIOUS
  <1> USE DEF TypeInv, TypeOK, controlVars, windowVars, runVars, Goto, End, NextStep
  <1>1. ASSUME NEW r \in Runs, Count(r) PROVE CeilingInv'
    <2>1. UNCHANGED allowed
      BY <1>1 DEF Count
    <2>2. CASE /\ used' = [used EXCEPT ![r] = allowed[agent[r]] + refused[agent[r]]]
               /\ pc' = [pc EXCEPT ![r] = "recording"]
               /\ UNCHANGED agent
      <3> SUFFICES ASSUME Ceiling > 0, NEW a \in Agents
                   PROVE  allowed'[a] + Cardinality(Waiting(a)') < Ceiling + Cardinality(Runs)
        BY DEF CeilingInv
      <3>1. CASE r \in Waiting(a)'
        <4>1. allowed[a] < Ceiling
          BY <2>2, <3>1, RunAssumption DEF Waiting
        <4>2. Waiting(a)' \in SUBSET Runs
          BY DEF Waiting
        <4>3. /\ Cardinality(Waiting(a)') \in Nat /\ Cardinality(Runs) \in Nat
              /\ Cardinality(Waiting(a)') <= Cardinality(Runs)
          BY <4>2, RunsSubset
        <4>4. allowed[a] \in Nat /\ Ceiling \in Nat
          BY RunAssumption
        <4>5. QED
          BY <2>1, <4>1, <4>3, <4>4
      <3>2. CASE r \notin Waiting(a)'
        <4>1. Waiting(a)' = Waiting(a)
          BY <1>1, <2>2, <3>2 DEF Count, Waiting
        <4>2. QED
          BY <2>1, <4>1 DEF CeilingInv
      <3>3. QED
        BY <3>1, <3>2
    <2>3. CASE End(r, "blocked")
      <3>1. \A a \in Agents : Waiting(a)' \subseteq Waiting(a)
        BY <1>1, <2>3 DEF Count, Waiting
      <3>2. QED
        BY <2>1, <3>1, CeilingKept
    <2>4. QED
      BY <1>1, <2>2, <2>3 DEF Count
  <1>2. ASSUME NEW r \in Runs, Record(r) PROVE CeilingInv'
    <2>1. \A a \in Agents : Waiting(a)' \subseteq Waiting(a)
      BY <1>2 DEF Record, Waiting
    <2>2. CASE UNCHANGED allowed
      BY <2>1, <2>2, CeilingKept
    <2>3. CASE ~Over(r) /\ allowed' = [allowed EXCEPT ![agent[r]] = @ + 1] /\ Goto(r, "acting")
      <3> SUFFICES ASSUME Ceiling > 0, NEW a \in Agents
                   PROVE  allowed'[a] + Cardinality(Waiting(a)') < Ceiling + Cardinality(Runs)
        BY DEF CeilingInv
      <3> DEFINE n == Cardinality(Waiting(a))
      <3>1. /\ Waiting(a) \in SUBSET Runs /\ n \in Nat /\ Cardinality(Runs) \in Nat
            /\ allowed[a] \in Nat /\ Ceiling \in Nat
        BY RunsSubset, RunAssumption DEF Waiting
      <3>2. allowed[a] + n < Ceiling + Cardinality(Runs)
        BY DEF CeilingInv
      <3>3. CASE a = agent[r]
        <4>1. r \in Waiting(a)
          BY <1>2, <2>3, <3>3, RunAssumption DEF Record, Over, Waiting
        <4>2. Waiting(a)' = Waiting(a) \ {r}
          BY <1>2, <2>3 DEF Record, Waiting
        <4>3. Cardinality(Waiting(a)') = n - 1
          BY <3>1, <4>1, <4>2, RunsRemove
        <4>4. allowed'[a] = allowed[a] + 1
          BY <2>3, <3>3
        <4>5. QED
          BY <3>1, <3>2, <4>3, <4>4
      <3>4. CASE a # agent[r]
        <4>1. allowed'[a] = allowed[a] /\ Waiting(a)' = Waiting(a)
          BY <1>2, <2>3, <3>4 DEF Record, Waiting
        <4>2. QED
          BY <3>2, <4>1
      <3>5. QED
        BY <3>3, <3>4
    <2>4. QED
      BY <1>2, <2>2, <2>3 DEF Record
  <1>3. ASSUME /\ UNCHANGED allowed
               /\ \A q \in Runs : pc'[q] = "recording" =>
                     pc[q] = "recording" /\ agent'[q] = agent[q] /\ used'[q] = used[q]
        PROVE  CeilingInv'
    <2>1. \A a \in Agents : Waiting(a)' \subseteq Waiting(a)
      BY <1>3 DEF Waiting
    <2>2. QED
      BY <1>3, <2>1, CeilingKept
  <1>4. ASSUME NEW r \in Runs, NEW t \in Tasks, NEW a \in Agents, NEW n \in 1..MaxSteps,
               Start(r, t, a, n)
        PROVE  CeilingInv'
    BY <1>3, <1>4 DEF Start
  <1>5. ASSUME NEW r \in Runs, NEW cost \in 0..MaxCost, Dispatch(r, cost) PROVE CeilingInv'
    BY <1>3, <1>5 DEF Dispatch
  <1>6. ASSUME NEW r \in Runs,
               Check(r) \/ Complete(r) \/ Act(r) \/ Retry(r) \/ RunDies(r)
        PROVE  CeilingInv'
    BY <1>3, <1>6 DEF Check, Complete, Act, Retry, RunDies
  <1>7. ASSUME NEW b \in Agents, HourPasses(b) PROVE CeilingInv'
    <2>1. \A a \in Agents : allowed'[a] <= allowed[a]
      BY <1>7 DEF HourPasses
    <2>2. \A a \in Agents : Waiting(a)' \subseteq Waiting(a)
      BY <1>7 DEF HourPasses, Waiting
    <2>3. QED
      BY <2>1, <2>2, CeilingKept
  <1>8. ASSUME \/ \E s \in {"enabled", "stopped"} : SetAgentsEnabled(s)
               \/ UNCHANGED vars
        PROVE  CeilingInv'
    BY <1>3, <1>8 DEF SetAgentsEnabled, vars
  <1>9. QED
    BY <1>1, <1>2, <1>4, <1>5, <1>6, <1>7, <1>8 DEF Next, RunStep

(* Racing counts exceed the ceiling, but by fewer operations than there    *)
(* are concurrent runs.                                                    *)
THEOREM OvershootBounded == Spec => []CeilingOvershoot
  <1>1. Init => CeilingInv
    <2> SUFFICES ASSUME Init, Ceiling > 0, NEW a \in Agents
                 PROVE  allowed[a] + Cardinality(Waiting(a)) < Ceiling + Cardinality(Runs)
      BY DEF CeilingInv
    <2>1. Waiting(a) = {} /\ allowed[a] = 0
      BY DEF Init, Waiting
    <2>2. Cardinality(Waiting(a)) = 0 /\ Cardinality(Runs) \in Nat
      BY <2>1, FS_EmptySet, RunsSubset
    <2>3. QED
      BY <2>1, <2>2, RunAssumption
  <1>2. TypeInv /\ CeilingInv => CeilingOvershoot
    <2> SUFFICES ASSUME TypeInv, CeilingInv, Ceiling > 0, NEW a \in Agents
                 PROVE  allowed[a] < Ceiling + Cardinality(Runs)
      BY DEF CeilingOvershoot
    <2>1. Cardinality(Waiting(a)) \in Nat /\ Cardinality(Runs) \in Nat
      BY RunsSubset DEF Waiting
    <2>2. allowed[a] \in Nat /\ Ceiling \in Nat
      BY RunAssumption DEF TypeInv, TypeOK
    <2>3. allowed[a] + Cardinality(Waiting(a)) < Ceiling + Cardinality(Runs)
      BY DEF CeilingInv
    <2>4. QED
      BY <2>1, <2>2, <2>3
  <1>3. TypeInv /\ [Next]_vars => TypeOK'
    BY StepTyped DEF TypeInv
  <1>4. QED
    BY <1>1, <1>2, <1>3, InitTyped, StepTyped, CeilingStep, PTL DEF Spec

(* Without concurrency the ceiling is exact, and the budget is exceeded by *)
(* less than one dispatch.                                                 *)
THEOREM OneRunKeepsLimits ==
  ASSUME Cardinality(Runs) = 1
  PROVE  Spec => []LimitsAreExact
  <1>1. TypeOK /\ TimeBudgetBinds /\ CeilingOvershoot => LimitsAreExact
    <2> SUFFICES ASSUME TypeOK, TimeBudgetBinds, CeilingOvershoot PROVE LimitsAreExact
      OBVIOUS
    <2>1. ASSUME Ceiling > 0, NEW a \in Agents PROVE allowed[a] <= Ceiling
      <3>1. allowed[a] < Ceiling + 1 /\ allowed[a] \in Nat /\ Ceiling \in Nat
        BY <2>1, RunAssumption DEF CeilingOvershoot, TypeOK
      <3>2. QED
        BY <3>1
    <2>2. ASSUME NEW t \in Tasks PROVE spent[t] < MaxTime + MaxCost
      <3>1. spent[t] < MaxTime + 1 * MaxCost
        BY DEF TimeBudgetBinds
      <3>2. QED
        BY <3>1, RunAssumption
    <2>3. QED
      BY <2>1, <2>2 DEF LimitsAreExact
  <1>2. TypeInv => TypeOK
    BY DEF TypeInv
  <1>3. TypeInv /\ [Next]_vars => TypeInv'
    BY StepTyped
  <1>4. QED
    BY <1>1, <1>2, <1>3, InitTyped, TimeBinds, OvershootBounded, PTL DEF Spec
=============================================================================
