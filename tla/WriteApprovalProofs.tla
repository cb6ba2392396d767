------------------------ MODULE WriteApprovalProofs ------------------------
(***************************************************************************)
(* What holds of WriteApproval for every number of agents, approvals and   *)
(* concurrent requests: it implements CapturedWrite, and a stop of an      *)
(* agent lets one write through for each request in flight, and no more,   *)
(* no held operation ever runs, and what expired undecided stays so.       *)
(***************************************************************************)
EXTENDS WriteApproval, TLAPS

(* The type invariant, but for the history.                                *)
CodeTyped ==
  /\ active \in [Agents -> BOOLEAN]
  /\ status \in [Rows -> Status]
  /\ tool \in [Rows -> Tools] /\ agentOf \in [Rows -> Agents]
  /\ expired \in [Rows -> BOOLEAN]
  /\ runs \in [Rows -> Nat]
  /\ pc \in [Requests -> Where]
  /\ row \in [Requests -> Rows \cup {0}]

(* A request past its first read has a captured row in hand.               *)
RequestsSound ==
  \A q \in Requests :
    pc[q] # "idle" => row[q] \in Rows /\ status[row[q]] # "absent"

(* The row in an executor's hands is approved and, before the write is     *)
(* made, has never run.                                                    *)
ExecutorsSound ==
  \A q \in Requests :
    /\ InExecutor(q) => status[row[q]] = "approved"
    /\ pc[q] = "executing" => runs[row[q]] = 0

(* Only granted writes have run.                                           *)
RunsWereGranted ==
  \A h \in Rows : runs[h] > 0 => status[h] \in {"approved", "executed"}

(* A request that wrote for an agent since its stop is not past a check of *)
(* that agent; nobody has written late for an agent that is active.        *)
PastCheck(q) == pc[q] \in {"validating", "claiming", "executing"}

LateTyped == late \in [Agents -> [Requests -> Nat]]

LateSound ==
  \A a \in Agents, q \in Requests :
    /\ active[a] => late[a][q] = 0
    /\ late[a][q] \in {0, 1}
    /\ late[a][q] = 1 => ~(PastCheck(q) /\ agentOf[row[q]] = a)

IInv ==
  /\ CodeTyped
  /\ RequestsSound
  /\ ExecutorsSound
  /\ RunsWereGranted
  /\ OneExecutor

-----------------------------------------------------------------------------

LEMMA InitInv == Init => IInv
  BY ApprovalAssumption DEF Init, IInv, CodeTyped, RequestsSound, ExecutorsSound, RunsWereGranted,
     OneExecutor, InExecutor, Status, Tools, Where

LEMMA InvStep == IInv /\ [Next]_vars => IInv'
  <1> SUFFICES ASSUME IInv, [Next]_vars PROVE IInv'
    OBVIOUS
  <1> USE DEF IInv, CodeTyped, RequestsSound, ExecutorsSound, RunsWereGranted, OneExecutor,
              InExecutor, Status, Where, rowVars, requestVars, writeVars
  <1>1. ASSUME NEW q \in Requests, NEW h \in Rows, NEW w \in {"rejecting", "checking"},
               BeginReview(q, h, w)
        PROVE  IInv'
    BY <1>1 DEF BeginReview
  <1>2. ASSUME NEW q \in Requests, Reject(q) PROVE IInv'
    BY <1>2 DEF Reject, Answer, Undecided
  <1>3. ASSUME NEW q \in Requests, CheckAgent(q) PROVE IInv'
    BY <1>3 DEF CheckAgent, Goto, Answer
  <1>4. ASSUME NEW q \in Requests, Validate(q) PROVE IInv'
    BY <1>4 DEF Validate, Goto, Answer
  <1>5. ASSUME NEW q \in Requests, Claim(q) PROVE IInv'
    BY <1>5 DEF Claim, Goto, Answer, Undecided
  <1>6. ASSUME NEW q \in Requests, Execute(q) PROVE IInv'
    BY <1>6 DEF Execute, Goto
  <1>7. ASSUME NEW q \in Requests, MarkApprovalExecuted(q) PROVE IInv'
    BY <1>7 DEF MarkApprovalExecuted, Answer
  <1>8. ASSUME NEW q \in Requests, RequestDies(q) PROVE IInv'
    BY <1>8 DEF RequestDies, Answer
  <1>9. ASSUME NEW h \in Rows, NEW a \in Agents, NEW k \in Tools, CreatePendingApproval(h, a, k)
        PROVE  IInv'
    BY <1>9 DEF CreatePendingApproval
  <1>10. ASSUME NEW a \in Agents, NEW b \in BOOLEAN, SetAgentState(a, b) PROVE IInv'
    BY <1>10 DEF SetAgentState
  <1>11. ASSUME NEW h \in Rows, Expire(h) PROVE IInv'
    BY <1>11 DEF Expire
  <1>12. CASE UNCHANGED vars
    BY <1>12 DEF vars
  <1>13. QED
    BY <1>1, <1>2, <1>3, <1>4, <1>5, <1>6, <1>7, <1>8, <1>9, <1>10, <1>11, <1>12
       DEF Next, RequestStep, AgentStep, HoldWrite, HandOff, Tools

(* No two requests execute one captured write, however many people approve *)
(* it at once: the atomic claim of decidePendingApproval suffices.         *)
THEOREM ExecutesAlone == Spec => []OneExecutor
  <1>1. IInv => OneExecutor
    BY DEF IInv
  <1>2. QED
    BY <1>1, InitInv, InvStep, PTL DEF Spec

LEMMA LateStep == IInv /\ LateTyped /\ LateSound /\ [Next]_vars => LateSound'
  <1> SUFFICES ASSUME IInv, LateTyped, LateSound, [Next]_vars PROVE LateSound'
    OBVIOUS
  <1> USE DEF IInv, CodeTyped, RequestsSound, LateTyped, LateSound, PastCheck, rowVars,
              requestVars, writeVars
  <1>1. ASSUME NEW q \in Requests, NEW h \in Rows, NEW w \in {"rejecting", "checking"},
               BeginReview(q, h, w)
        PROVE  LateSound'
    BY <1>1 DEF BeginReview
  <1>2. ASSUME NEW q \in Requests, Reject(q) \/ MarkApprovalExecuted(q) \/ RequestDies(q)
        PROVE  LateSound'
    <2>1. UNCHANGED <<active, agentOf, late>> /\ Answer(q)
      BY <1>2 DEF Reject, MarkApprovalExecuted, RequestDies
    <2>2. QED
      BY <2>1 DEF Answer
  <1>3. ASSUME NEW q \in Requests, CheckAgent(q) PROVE LateSound'
    <2> DEFINE a == agentOf[row[q]]
    <2>1. a \in Agents /\ UNCHANGED <<active, agentOf, late>>
      BY <1>3 DEF CheckAgent
    <2>2. \A r \in Requests : r # q => pc'[r] = pc[r] /\ row'[r] = row[r]
      BY <1>3 DEF CheckAgent, Goto, Answer
    <2>3. PastCheck(q)' => active[a] /\ row'[q] = row[q]
      BY <1>3 DEF CheckAgent, Goto, Answer
    <2>4. ASSUME NEW b \in Agents, NEW r \in Requests, late'[b][r] = 1
          PROVE  ~(PastCheck(r)' /\ agentOf'[row'[r]] = b)
      <3>1. late[b][r] = 1 /\ ~active[b] /\ agentOf' = agentOf
        BY <2>1, <2>4
      <3>2. CASE r = q
        BY <2>3, <3>1, <3>2
      <3>3. CASE r # q
        BY <2>2, <2>4, <3>1, <3>3
      <3>4. QED
        BY <3>2, <3>3
    <2>5. QED
      BY <2>1, <2>4
  <1>4. ASSUME NEW q \in Requests, Validate(q) \/ Claim(q) PROVE LateSound'
    BY <1>4 DEF Validate, Claim, Goto, Answer
  <1>5. ASSUME NEW q \in Requests, Execute(q) PROVE LateSound'
    <2> DEFINE a == agentOf[row[q]]
    <2>0. a \in Agents /\ pc[q] = "executing"
      BY <1>5 DEF Execute
    <2>1. late[a] \in [Requests -> Nat] /\ late[a][q] = 0
      BY <2>0
    <2>2. pc' = [pc EXCEPT ![q] = "recording"] /\ UNCHANGED <<active, agentOf, row>>
      BY <1>5 DEF Execute, Goto
    <2>3. CASE late' = late
      BY <2>0, <2>2, <2>3
    <2>4. CASE ~active[a] /\ late' = [late EXCEPT ![a][q] = @ + 1]
      <3>2. late'[a][q] = 1
        BY <2>0, <2>1, <2>4
      <3>3. \A b \in Agents, r \in Requests : <<b, r>> # <<a, q>> => late'[b][r] = late[b][r]
        BY <2>0, <2>1, <2>4
      <3>4. QED
        BY <2>0, <2>2, <2>4, <3>2, <3>3
    <2>5. QED
      BY <1>5, <2>3, <2>4 DEF Execute, CountLate
  <1>6. ASSUME NEW h \in Rows, NEW a \in Agents, NEW k \in Tools, CreatePendingApproval(h, a, k)
        PROVE  LateSound'
    BY <1>6 DEF CreatePendingApproval
  <1>7. ASSUME NEW a \in Agents, NEW b \in BOOLEAN, SetAgentState(a, b) PROVE LateSound'
    BY <1>7 DEF SetAgentState
  <1>8. CASE UNCHANGED vars \/ \E h \in Rows : Expire(h)
    BY <1>8 DEF vars, Expire
  <1>9. QED
    BY <1>1, <1>2, <1>3, <1>4, <1>5, <1>6, <1>7, <1>8
       DEF Next, RequestStep, AgentStep, HoldWrite, HandOff, Tools

LEMMA LateTypes == IInv /\ LateTyped /\ [Next]_vars => LateTyped'
  <1> SUFFICES ASSUME IInv, LateTyped, [Next]_vars PROVE LateTyped'
    OBVIOUS
  <1> USE DEF LateTyped, writeVars
  <1>1. ASSUME NEW q \in Requests, Execute(q) PROVE LateTyped'
    <2>1. PICK a \in Agents : late' = late \/ late' = [late EXCEPT ![a][q] = @ + 1]
      BY <1>1 DEF Execute, CountLate, IInv, CodeTyped, RequestsSound
    <2>2. late[a] \in [Requests -> Nat]
      OBVIOUS
    <2>3. QED
      BY <2>1, <2>2
  <1>2. ASSUME NEW a \in Agents, NEW b \in BOOLEAN, SetAgentState(a, b) PROVE LateTyped'
    BY <1>2 DEF SetAgentState
  <1>3. \/ UNCHANGED late
        \/ \E q \in Requests : Execute(q)
        \/ \E a \in Agents, b \in BOOLEAN : SetAgentState(a, b)
    BY DEF Next, RequestStep, AgentStep, BeginReview, Reject, CheckAgent, Validate, Claim,
       MarkApprovalExecuted, RequestDies, Expire, CreatePendingApproval, HoldWrite, HandOff, vars
  <1>4. QED
    BY <1>1, <1>2, <1>3

(* Every variable keeps to the values the code writes.                     *)
THEOREM TypeCorrect == Spec => []TypeOK
  <1>1. Init => LateTyped
    BY DEF Init, LateTyped
  <1>2. IInv /\ LateTyped => TypeOK
    BY DEF IInv, LateTyped, CodeTyped, TypeOK
  <1>3. QED
    BY <1>1, <1>2, InitInv, InvStep, LateTypes, PTL DEF Spec

(* A stopped agent's held writes stop: each request that had passed the    *)
(* check when the agent was stopped executes one more at the most.         *)
THEOREM StopIsBounded == Spec => []StopBoundsWrites
  <1>1. Init => LateSound
    BY DEF Init, LateSound, PastCheck
  <1>2. IInv /\ LateSound => StopBoundsWrites
    BY DEF LateSound, StopBoundsWrites
  <1>3. Init => LateTyped
    BY DEF Init, LateTyped
  <1>4. QED
    BY <1>1, <1>2, <1>3, InitInv, InvStep, LateTypes, LateStep, PTL DEF Spec

-----------------------------------------------------------------------------
(* Refinement.                                                             *)

LEMMA InitRefines == Init => Promise!Init
  BY DEF Init, Promise!Init, Decision, DecisionOn

LEMMA StepRefines ==
  IInv /\ [Next]_vars => [Promise!Next]_<<Decision, runs>>
  <1> SUFFICES ASSUME IInv, [Next]_vars
               PROVE  Promise!Next \/ UNCHANGED <<Decision, runs>>
    OBVIOUS
  <1> USE DEF IInv, CodeTyped, Status, Decision, DecisionOn, writeVars
  <1>1. ASSUME UNCHANGED <<status, runs>> PROVE UNCHANGED <<Decision, runs>>
    BY <1>1
  <1>2. ASSUME NEW q \in Requests, Reject(q)
        PROVE  Promise!Next \/ UNCHANGED <<Decision, runs>>
    <2>1. row[q] \in Rows
      BY <1>2 DEF Reject, RequestsSound
    <2>2. CASE Undecided(row[q])
      <3>1. Promise!Decide(row[q], "refused")
        BY <1>2, <2>1, <2>2 DEF Reject, Undecided, Promise!Decide
      <3>2. QED
        BY <2>1, <3>1 DEF Promise!Next
    <2>3. CASE ~Undecided(row[q])
      BY <1>1, <1>2, <2>3 DEF Reject
    <2>4. QED
      BY <2>2, <2>3
  <1>3. ASSUME NEW q \in Requests, Claim(q)
        PROVE  Promise!Next \/ UNCHANGED <<Decision, runs>>
    <2>1. row[q] \in Rows
      BY <1>3 DEF Claim, RequestsSound
    <2>2. CASE Undecided(row[q])
      <3>1. Promise!Decide(row[q], "granted")
        BY <1>3, <2>1, <2>2 DEF Claim, Undecided, Promise!Decide
      <3>2. QED
        BY <2>1, <3>1 DEF Promise!Next
    <2>3. CASE ~Undecided(row[q])
      BY <1>1, <1>3, <2>3 DEF Claim
    <2>4. QED
      BY <2>2, <2>3
  <1>4. ASSUME NEW q \in Requests, Execute(q)
        PROVE  Promise!Next \/ UNCHANGED <<Decision, runs>>
    <2>1. row[q] \in Rows /\ status[row[q]] = "approved" /\ runs[row[q]] = 0
      BY <1>4 DEF Execute, RequestsSound, ExecutorsSound, InExecutor
    <2>2. CASE UNCHANGED runs
      BY <1>1, <1>4, <2>2 DEF Execute, rowVars
    <2>3. CASE runs' = [runs EXCEPT ![row[q]] = @ + 1]
      <3>1. Promise!Run(row[q])
        BY <1>4, <2>1, <2>3 DEF Execute, rowVars, Promise!Run
      <3>2. QED
        BY <2>1, <3>1 DEF Promise!Next
    <2>4. QED
      BY <1>4, <2>2, <2>3 DEF Execute
  <1>5. ASSUME NEW q \in Requests, MarkApprovalExecuted(q)
        PROVE  UNCHANGED <<Decision, runs>>
    <2>1. row[q] \in Rows /\ status[row[q]] = "approved"
      BY <1>5 DEF MarkApprovalExecuted, RequestsSound, ExecutorsSound, InExecutor
    <2>2. QED
      BY <1>5, <2>1 DEF MarkApprovalExecuted
  <1>6. ASSUME NEW h \in Rows, NEW a \in Agents, NEW k \in Tools, CreatePendingApproval(h, a, k)
        PROVE  Promise!Next
    <2>1. Promise!Capture(h)
      BY <1>6 DEF CreatePendingApproval, Promise!Capture
    <2>2. QED
      BY <2>1 DEF Promise!Next
  <1>7. \/ UNCHANGED <<status, runs>>
        \/ \E q \in Requests : Reject(q) \/ Claim(q) \/ Execute(q) \/ MarkApprovalExecuted(q)
        \/ \E h \in Rows, a \in Agents, k \in Tools : CreatePendingApproval(h, a, k)
    BY DEF Next, RequestStep, AgentStep, BeginReview, CheckAgent, Validate, RequestDies,
       SetAgentState, Expire, HoldWrite, HandOff, Tools, vars, rowVars, writeVars
  <1>8. QED
    BY <1>1, <1>2, <1>3, <1>4, <1>5, <1>6, <1>7

(* However requests interleave, die and come late, a captured write is     *)
(* decided once, a refused one never runs and a granted one runs at most   *)
(* once: WriteApproval implements CapturedWrite.                           *)
THEOREM Implements == Spec => ImplementsCapturedWrite
  <1>1. Init /\ [][Next]_vars => Promise!Init /\ [][Promise!Next]_<<Decision, runs>>
    BY InitInv, InvStep, InitRefines, StepRefines, PTL
  <1>2. QED
    BY <1>1 DEF Spec, ImplementsCapturedWrite, Promise!Spec

(* What CapturedWrite promises comes to this, for any set of writes.       *)
LEMMA PromiseKept == Promise!Spec => []Promise!RunsOnceIfGranted
  <1> DEFINE Kept == runs \in [Rows -> {0, 1}] /\ Promise!RunsOnceIfGranted
  <1> USE DEF Promise!RunsOnceIfGranted
  <1>0. Decision \in [Rows -> {"none", "waiting", "refused", "granted"}]
    BY DEF Decision, DecisionOn
  <1>1. Promise!Init => Kept
    BY DEF Promise!Init
  <1>2. ASSUME Kept, [Promise!Next]_<<Decision, runs>>
        PROVE  Kept'
    <2>1. CASE UNCHANGED <<Decision, runs>>
      BY <1>2, <2>1
    <2>2. ASSUME NEW w \in Rows, Promise!Capture(w) PROVE Kept'
      BY <1>0, <1>2, <2>2 DEF Promise!Capture
    <2>3. ASSUME NEW w \in Rows, Promise!Run(w) PROVE Kept'
      BY <1>0, <1>2, <2>3 DEF Promise!Run
    <2>4. ASSUME NEW w \in Rows, NEW d \in {"refused", "granted"}, Promise!Decide(w, d)
          PROVE  Kept'
      BY <1>0, <1>2, <2>4 DEF Promise!Decide
    <2>5. QED
      BY <1>2, <2>1, <2>2, <2>3, <2>4 DEF Promise!Next
  <1>3. QED
    BY <1>1, <1>2, PTL DEF Promise!Spec

(* A captured write reaches the other side at most once, and only after    *)
(* somebody approved it ("a concurrent approve cannot run the write        *)
(* twice", approvals/[id]/route.ts:124-125), whoever else clicks, dies or  *)
(* comes late.                                                             *)
THEOREM WritesRunOnce == Spec => []Promise!RunsOnceIfGranted
  BY Implements, PromiseKept, PTL DEF ImplementsCapturedWrite

-----------------------------------------------------------------------------
(* Held operations, and rows that expire.                                  *)

(* A request past the look at the tool has a pull request in hand; only    *)
(* such a request decides for a write.                                     *)
ToolsSound ==
  \A q \in Requests :
    pc[q] \in {"validating", "claiming", "executing", "recording"} => tool[row[q]] = "open_pr"

LEMMA HeldStep ==
  ASSUME IInv, ToolsSound, OperationsNeverRun, [Next]_vars
  PROVE  ToolsSound' /\ OperationsNeverRun'
  <1> USE DEF IInv, CodeTyped, RequestsSound, ToolsSound, OperationsNeverRun,
              rowVars, requestVars, writeVars
  <1> DEFINE Held == ToolsSound' /\ OperationsNeverRun'
  <1>1. ASSUME NEW q \in Requests, NEW h \in Rows, NEW w \in {"rejecting", "checking"},
               BeginReview(q, h, w)
        PROVE  Held
    BY <1>1 DEF BeginReview
  <1>2. ASSUME NEW q \in Requests, Reject(q) PROVE Held
    BY <1>2 DEF Reject, Answer
  <1>3. ASSUME NEW q \in Requests, CheckAgent(q) PROVE Held
    BY <1>3 DEF CheckAgent, Goto, Answer
  <1>4. ASSUME NEW q \in Requests, Validate(q) PROVE Held
    BY <1>4 DEF Validate, Goto, Answer
  <1>5. ASSUME NEW q \in Requests, Claim(q) PROVE Held
    BY <1>5 DEF Claim, Goto, Answer
  <1>6. ASSUME NEW q \in Requests, Execute(q) PROVE Held
    BY <1>6 DEF Execute, Goto
  <1>7. ASSUME NEW q \in Requests, MarkApprovalExecuted(q) PROVE Held
    BY <1>7 DEF MarkApprovalExecuted, Answer
  <1>8. ASSUME NEW q \in Requests, RequestDies(q) PROVE Held
    BY <1>8 DEF RequestDies, Answer
  <1>9. ASSUME NEW h \in Rows, NEW a \in Agents, NEW k \in Tools, CreatePendingApproval(h, a, k)
        PROVE  Held
    BY <1>9 DEF CreatePendingApproval, RunsWereGranted
  <1>10. ASSUME NEW a \in Agents, NEW b \in BOOLEAN, SetAgentState(a, b) PROVE Held
    BY <1>10 DEF SetAgentState
  <1>11. ASSUME NEW h \in Rows, Expire(h) PROVE Held
    BY <1>11 DEF Expire
  <1>12. CASE UNCHANGED vars
    BY <1>12 DEF vars
  <1>13. QED
    BY <1>1, <1>2, <1>3, <1>4, <1>5, <1>6, <1>7, <1>8, <1>9, <1>10, <1>11, <1>12
       DEF Next, RequestStep, AgentStep, HoldWrite, HandOff, Tools

(* A write the executor held is never granted and never runs, whatever     *)
(* people do: the gate fails closed, and so far that it cannot be opened.  *)
THEOREM HeldOperationsNeverRun == Spec => []OperationsNeverRun
  <1>1. Init => ToolsSound /\ OperationsNeverRun
    BY DEF Init, ToolsSound, OperationsNeverRun
  <1>2. IInv /\ ToolsSound /\ OperationsNeverRun /\ [Next]_vars =>
          ToolsSound' /\ OperationsNeverRun'
    BY HeldStep
  <1>3. QED
    BY <1>1, <1>2, InitInv, InvStep, PTL DEF Spec

(* An expired row stays undecided for good and its write never runs, also  *)
(* when a request read the row before it expired.                          *)
THEOREM ExpiredNeverRuns == Spec => ExpiredStaysClosed
  <1>1. ASSUME IInv, [Next]_vars, NEW h \in Rows, status[h] = "pending", expired[h]
        PROVE  status'[h] = "pending" /\ expired'[h] /\ runs'[h] = 0
    <2> DEFINE Closed == status'[h] = "pending" /\ expired'[h] /\ runs'[h] = 0
    <2> USE <1>1 DEF IInv, CodeTyped, rowVars, writeVars
    <2>0. runs[h] = 0
      BY DEF RunsWereGranted
    <2>1. ASSUME NEW q \in Requests, Reject(q) \/ Claim(q) PROVE Closed
      BY <2>0, <2>1 DEF Reject, Claim, Undecided
    <2>2. ASSUME NEW q \in Requests, Execute(q) \/ MarkApprovalExecuted(q) PROVE Closed
      <3>1. InExecutor(q)
        BY <2>2 DEF Execute, MarkApprovalExecuted, InExecutor
      <3>2. row[q] # h
        BY <3>1 DEF ExecutorsSound
      <3>3. QED
        BY <2>0, <2>2, <3>2 DEF Execute, MarkApprovalExecuted
    <2>3. ASSUME NEW g \in Rows, NEW a \in Agents, NEW k \in Tools, CreatePendingApproval(g, a, k)
          PROVE  Closed
      BY <2>0, <2>3 DEF CreatePendingApproval
    <2>4. ASSUME NEW g \in Rows, Expire(g) PROVE Closed
      BY <2>0, <2>4 DEF Expire
    <2>5. \/ UNCHANGED <<status, expired, runs>>
          \/ \E q \in Requests : Reject(q) \/ Claim(q) \/ Execute(q) \/ MarkApprovalExecuted(q)
          \/ \E g \in Rows, a \in Agents, k \in Tools : CreatePendingApproval(g, a, k)
          \/ \E g \in Rows : Expire(g)
      BY DEF Next, RequestStep, AgentStep, BeginReview, CheckAgent, Validate, RequestDies,
         SetAgentState, HoldWrite, HandOff, Tools, vars
    <2>6. QED
      BY <2>0, <2>1, <2>2, <2>3, <2>4, <2>5
  <1>2. IInv /\ [Next]_vars =>
          \A h \in Rows : status[h] = "pending" /\ expired[h] =>
            status'[h] = "pending" /\ expired'[h] /\ runs'[h] = 0
    BY <1>1
  <1>3. QED
    BY <1>2, InitInv, InvStep, PTL DEF Spec, ExpiredStaysClosed
=============================================================================
