-------------------------- MODULE AuditChainProofs --------------------------
(***************************************************************************)
(* What holds of AuditChain for any number of writers, checkers, rows,     *)
(* failures and losses: the log is the linear one of ChainedLog, only what *)
(* has a reason is acknowledged, no acknowledgement hides an alteration,   *)
(* every false alarm has a cause that can be named, every alert is true,   *)
(* and the lock is never left behind.                                      *)
(***************************************************************************)
EXTENDS AuditChain, TLAPS

(* The type invariant by the groups of variables that change together.     *)
LogTyped ==
  rows \subseteq Seqs /\ link \in [Seqs -> 0 .. MaxSeq] /\ altered \subseteq Seqs

AppendTyped ==
  /\ last \in 0 .. MaxSeq
  /\ lock \in Procs \cup {NoOne}
  /\ pc \in [Procs -> {"idle", "waiting", "locked", "read", "reserved"}]
  /\ tail \in [Procs -> 0 .. MaxSeq]
  /\ taken \in [Procs -> 0 .. MaxSeq]

CheckerTyped ==
  /\ at \in [Checkers -> {"idle", "range", "verify", "classify", "reanchor", "record",
                          "confirm", "confirming"}]
  /\ from \in [Checkers -> Seqs \cup {1}]
  /\ seen \in [Checkers -> SUBSET Seqs]
  /\ verdict \in [Checkers -> {"none", "valid", "invalid"}]
  /\ todo \in [Checkers -> SUBSET Seqs]

RestTyped ==
  /\ anchors \subseteq Seqs /\ alarmed \subseteq Seqs
  /\ reason \in [legacy: SUBSET Seqs, loss: SUBSET Seqs, hand: SUBSET Seqs]
  /\ requests \in 0 .. MaxRequests /\ faults \in 0 .. MaxFaults /\ damage \in 0 .. MaxDamage

(* The holder of the lock is the one append past it; what it has read is   *)
(* still the last row, and what it has reserved is still the next number.  *)
InAppend(p) == pc[p] \in {"locked", "read", "reserved"}

AppendInv ==
  /\ \A r \in rows : r <= last
  /\ \A p \in Procs :
       /\ InAppend(p) => lock = p
       /\ pc[p] \in {"read", "reserved"} => IsTail(tail[p])
       /\ pc[p] = "reserved" => taken[p] \in Seqs /\ taken[p] = last /\ \A r \in rows : r < taken[p]

Inv == LogTyped /\ AppendTyped /\ CheckerTyped /\ RestTyped /\ AppendInv

(* Every row follows the row before it or has a reason not to, and what is *)
(* about to be acknowledged has one or was named by hand.                  *)
Caused == reason.legacy \cup reason.loss

ReasonInv ==
  /\ \A s \in rows : Continues(1, 0, s) \/ s \in Caused
  /\ \A c \in Checkers : todo[c] \subseteq Accounted
  /\ anchors \subseteq Accounted

LEMMA InvTypes == Inv => TypeOK
  BY DEF Inv, LogTyped, AppendTyped, CheckerTyped, RestTyped, TypeOK

-----------------------------------------------------------------------------
(* Which operations touch which variables.                                 *)

Ends(p) == pc[p] # "idle" /\ EndAppend(p)

AppendStage(p) == TakeLock(p) \/ ReadTail(p) \/ Reserve(p)

(* Reads of a checker, which change nothing but its own variables.         *)
CheckerReads(c) ==
  \/ StartCron(c) \/ StartConfirm(c) \/ ReadRows(c) \/ MissPrior(c) \/ MissRows(c)
  \/ \E s \in Seqs : StartRange(c, s)

CheckerActs(c) ==
  \/ StartReconcile(c) \/ Classify(c) \/ MissClassify(c) \/ CheckerDies(c)
  \/ \E s \in Seqs : NameByHand(c, s)

Acknowledges(c, s) == Reanchor(c, s) \/ MissReanchor(c, s)

LEMMA StepCases ==
  ASSUME [Next]_vars
  PROVE  \/ UNCHANGED vars
         \/ \E w \in Writers : Request(w)
         \/ \E p \in Procs : AppendStage(p) \/ Commit(p) \/ CommitUnseen(p) \/ Abort(p)
         \/ \E c \in Checkers : CheckerReads(c) \/ CheckerActs(c)
         \/ \E c \in Checkers, s \in Seqs : Acknowledges(c, s)
         \/ \E s \in Seqs : Alter(s) \/ Lose(s)
  BY DEF Next, AppendStage, CheckerReads, CheckerActs, Acknowledges

LEMMA ReadsKeep ==
  ASSUME NEW c \in Checkers, CheckerReads(c)
  PROVE  UNCHANGED <<log, anchors, append, todo, alarmed, requests, damage, reason>>
  BY DEF CheckerReads, StartCron, StartConfirm, ReadRows, MissPrior, MissRows, StartRange,
         ReadAnchors, Walk

LEMMA ActsKeep ==
  ASSUME NEW c \in Checkers, CheckerActs(c)
  PROVE  UNCHANGED <<log, anchors, append, damage>>
  BY DEF CheckerActs, StartReconcile, Classify, MissClassify, CheckerDies, NameByHand

LEMMA AcknowledgesKeep ==
  ASSUME NEW c \in Checkers, NEW s \in Seqs, Acknowledges(c, s)
  PROVE  /\ UNCHANGED <<log, last, lock, tail, taken, from, seen, verdict, alarmed, requests,
                        damage, reason>>
         /\ pc' = [pc EXCEPT ![c] = "waiting"]
         /\ at[c] = "reanchor" /\ at' = [at EXCEPT ![c] = "record"]
         /\ s \in todo[c] /\ todo' = [todo EXCEPT ![c] = @ \ {s}]
         /\ anchors' \in {anchors, anchors \cup {s}}
  BY DEF Acknowledges, Reanchor, MissReanchor, Acknowledge, First

LEMMA StageKeeps ==
  ASSUME NEW p \in Procs, AppendStage(p)
  PROVE  UNCHANGED <<log, anchors, checker, requests, faults, damage, reason>>
  BY DEF AppendStage, TakeLock, ReadTail, Reserve

(* The rows change only by an INSERT under the lock, and by a loss.        *)
LEMMA LogChanges ==
  ASSUME [Next]_vars
  PROVE  \/ UNCHANGED log
         \/ \E p \in Procs : Insert(p) /\ EndAppend(p)
         \/ \E s \in Seqs : Alter(s) \/ Lose(s)
  <1>1. ASSUME NEW p \in Procs, AppendStage(p) \/ Commit(p) \/ CommitUnseen(p) \/ Abort(p)
        PROVE  UNCHANGED log \/ (Insert(p) /\ EndAppend(p))
    BY <1>1, StageKeeps DEF Commit, CommitUnseen, Abort
  <1>2. ASSUME NEW c \in Checkers, CheckerReads(c) \/ CheckerActs(c) PROVE UNCHANGED log
    BY <1>2, ReadsKeep, ActsKeep
  <1>3. ASSUME NEW c \in Checkers, NEW s \in Seqs, Acknowledges(c, s) PROVE UNCHANGED log
    BY <1>3, AcknowledgesKeep
  <1>4. ASSUME NEW w \in Writers, Request(w) PROVE UNCHANGED log
    BY <1>4 DEF Request
  <1>5. UNCHANGED vars => UNCHANGED log
    BY DEF vars
  <1>6. QED
    BY <1>1, <1>2, <1>3, <1>4, <1>5, StepCases

-----------------------------------------------------------------------------
(* Types.                                                                  *)

LEMMA InitInv == Init => Inv
  <1> SUFFICES ASSUME Init PROVE Inv
    OBVIOUS
  <1> USE ChainAssumption
  <1>1. PICK n \in 0 .. MaxLegacy :
          /\ rows = 1 .. n /\ last = n
          /\ \E l \in [1 .. n -> 0 .. n] :
               /\ \A s \in 1 .. n : l[s] < s
               /\ link = [s \in Seqs |-> IF s <= n THEN l[s] ELSE 0]
    BY DEF Init
  <1>2. PICK l \in [1 .. n -> 0 .. n] : link = [s \in Seqs |-> IF s <= n THEN l[s] ELSE 0]
    BY <1>1
  <1>3. /\ rows \subseteq Seqs /\ last \in 0 .. MaxSeq /\ \A r \in rows : r <= last
    BY <1>1 DEF Seqs
  <1>4. LogTyped
    BY <1>2, <1>3 DEF LogTyped, Init, Seqs
  <1>5. AppendTyped
    BY <1>3 DEF Init, AppendTyped
  <1>6. RestTyped
    BY <1>3 DEF Init, RestTyped, Forks
  <1>7. CheckerTyped
    BY DEF Init, CheckerTyped
  <1>8. \A p \in Procs : pc[p] = "idle"
    BY DEF Init
  <1>9. QED
    BY <1>3, <1>4, <1>5, <1>6, <1>7, <1>8 DEF Inv, AppendInv, InAppend

LEMMA StepLogTyped == Inv /\ [Next]_vars => LogTyped'
  <1> SUFFICES ASSUME Inv, [Next]_vars PROVE LogTyped'
    OBVIOUS
  <1> USE DEF Inv, LogTyped
  <1>1. UNCHANGED log => LogTyped'
    BY DEF log
  <1>2. ASSUME NEW p \in Procs, Insert(p) PROVE LogTyped'
    BY <1>2 DEF Insert, AppendInv, AppendTyped
  <1>3. ASSUME NEW s \in Seqs, Alter(s) \/ Lose(s) PROVE LogTyped'
    BY <1>3 DEF Alter, Lose
  <1>4. QED
    BY <1>1, <1>2, <1>3, LogChanges

LEMMA StepAppendTyped == Inv /\ [Next]_vars => AppendTyped'
  <1> SUFFICES ASSUME Inv, [Next]_vars PROVE AppendTyped'
    OBVIOUS
  <1> USE ChainAssumption DEF Inv, AppendTyped
  <1>1. UNCHANGED append => AppendTyped'
    BY DEF append
  <1>2. ASSUME NEW w \in Writers, Request(w) PROVE AppendTyped'
    BY <1>2 DEF Request, Procs
  <1>3. ASSUME NEW p \in Procs, AppendStage(p) PROVE AppendTyped'
    <2>1. CASE TakeLock(p)
      BY <2>1 DEF TakeLock
    <2>2. CASE ReadTail(p)
      BY <2>2 DEF ReadTail
    <2>3. CASE Reserve(p)
      <3>1. last + 1 \in 0 .. MaxSeq
        BY <2>3 DEF Reserve
      <3>2. QED
        BY <2>3, <3>1 DEF Reserve
    <2>4. QED
      BY <1>3, <2>1, <2>2, <2>3 DEF AppendStage
  <1>4. ASSUME NEW p \in Procs, EndAppend(p) PROVE AppendTyped'
    BY <1>4 DEF EndAppend
  <1>5. ASSUME NEW c \in Checkers, NEW s \in Seqs, Acknowledges(c, s) PROVE AppendTyped'
    BY <1>5, AcknowledgesKeep DEF Procs
  <1>6. ASSUME NEW c \in Checkers, CheckerReads(c) \/ CheckerActs(c) PROVE AppendTyped'
    BY <1>1, <1>6, ReadsKeep, ActsKeep
  <1>7. ASSUME NEW s \in Seqs, Alter(s) \/ Lose(s) PROVE AppendTyped'
    BY <1>1, <1>7 DEF Alter, Lose
  <1>8. UNCHANGED vars => AppendTyped'
    BY <1>1 DEF vars
  <1>9. QED
    BY <1>2, <1>3, <1>4, <1>5, <1>6, <1>7, <1>8, StepCases DEF Commit, CommitUnseen, Abort

LEMMA StepCheckerTyped == Inv /\ [Next]_vars => CheckerTyped'
  <1> SUFFICES ASSUME Inv, [Next]_vars PROVE CheckerTyped'
    OBVIOUS
  <1> USE DEF Inv, CheckerTyped
  <1>1. UNCHANGED checker => CheckerTyped'
    BY DEF checker
  <1>2. ASSUME NEW p \in Procs, Thrown(p), UNCHANGED verdict PROVE CheckerTyped'
    BY <1>2 DEF Thrown, Answered, Forget
  <1>3. ASSUME NEW p \in Procs, Recorded(p), UNCHANGED <<from, seen, verdict, todo>>
        PROVE  CheckerTyped'
    <2>1. CASE p \in Checkers
      BY <1>3, <2>1 DEF Recorded, Reconciled
    <2>2. CASE p \notin Checkers
      BY <1>3, <2>2 DEF Recorded
    <2>3. QED
      BY <2>1, <2>2
  <1>4. ASSUME NEW c \in Checkers, CheckerReads(c) PROVE CheckerTyped'
    <2>1. UNCHANGED todo
      BY <1>4, ReadsKeep
    <2>2. ASSUME StartCron(c) \/ StartConfirm(c) \/ \E s \in Seqs : StartRange(c, s)
          PROVE  /\ from' \in [Checkers -> Seqs \cup {1}] /\ verdict' = [verdict EXCEPT ![c] = "none"]
                 /\ at' \in {[at EXCEPT ![c] = "verify"], [at EXCEPT ![c] = "confirming"],
                             [at EXCEPT ![c] = "range"]}
                 /\ seen' \in {[seen EXCEPT ![c] = anchors], [seen EXCEPT ![c] = {}]}
      BY <2>2 DEF StartCron, StartConfirm, StartRange, ReadAnchors
    <2>3. ASSUME ReadRows(c) \/ MissPrior(c) \/ MissRows(c)
          PROVE  /\ Forget(c)
                 /\ verdict' \in {[verdict EXCEPT ![c] = "valid"], [verdict EXCEPT ![c] = "invalid"]}
                 /\ at' \in {[at EXCEPT ![c] = "classify"], [at EXCEPT ![c] = "idle"]}
      BY <2>3 DEF ReadRows, MissPrior, MissRows, Walk
    <2>4. CASE ReadRows(c) \/ MissPrior(c) \/ MissRows(c)
      BY <2>1, <2>3, <2>4 DEF Forget
    <2>5. CASE StartCron(c) \/ StartConfirm(c) \/ \E s \in Seqs : StartRange(c, s)
      <3>1. seen' \in [Checkers -> SUBSET Seqs]
        BY <2>2, <2>5 DEF RestTyped
      <3>2. QED
        BY <2>1, <2>2, <2>5, <3>1
    <2>6. QED
      BY <1>4, <2>4, <2>5 DEF CheckerReads
  <1>5. ASSUME NEW c \in Checkers, CheckerActs(c) PROVE CheckerTyped'
    <2>1. CASE StartReconcile(c)
      BY <2>1 DEF StartReconcile
    <2>2. CASE Classify(c)
      BY <2>2 DEF Classify, Reconciled, Forks, LogTyped
    <2>3. CASE MissClassify(c)
      BY <2>3 DEF MissClassify, Reconciled
    <2>4. CASE CheckerDies(c)
      BY <2>4 DEF CheckerDies, Answered, Forget
    <2>5. ASSUME NEW s \in Seqs, NameByHand(c, s) PROVE CheckerTyped'
      BY <2>5 DEF NameByHand
    <2>6. QED
      BY <1>5, <2>1, <2>2, <2>3, <2>4, <2>5 DEF CheckerActs
  <1>6. ASSUME NEW c \in Checkers, NEW s \in Seqs, Acknowledges(c, s) PROVE CheckerTyped'
    BY <1>6, AcknowledgesKeep
  <1>7. ASSUME NEW p \in Procs, AppendStage(p) \/ Commit(p) \/ CommitUnseen(p) \/ Abort(p)
        PROVE  CheckerTyped'
    BY <1>1, <1>2, <1>3, <1>7, StageKeeps DEF Commit, CommitUnseen, Abort
  <1>8. QED
    BY <1>1, <1>4, <1>5, <1>6, <1>7, StepCases DEF vars, Request, Alter, Lose

LEMMA StepRestTyped == Inv /\ [Next]_vars => RestTyped'
  <1> SUFFICES ASSUME Inv, [Next]_vars PROVE RestTyped'
    OBVIOUS
  <1> USE ChainAssumption DEF Inv, RestTyped
  <1> DEFINE Kept == UNCHANGED <<anchors, alarmed, reason>>
             Counted == /\ requests' \in 0 .. MaxRequests /\ faults' \in 0 .. MaxFaults
                        /\ damage' \in 0 .. MaxDamage
  <1>1. PersonAsks => requests' \in 0 .. MaxRequests
    BY DEF PersonAsks
  <1>2. Fault => faults' \in 0 .. MaxFaults
    BY DEF Fault
  <1>3. Damage => damage' \in 0 .. MaxDamage
    BY DEF Damage
  <1>4. ASSUME NEW w \in Writers, Request(w) PROVE Kept /\ Counted
    BY <1>1, <1>4 DEF Request, checker
  <1>5. ASSUME NEW p \in Procs, AppendStage(p) \/ Commit(p) \/ CommitUnseen(p) \/ Abort(p)
        PROVE  Kept /\ Counted
    BY <1>2, <1>3, <1>5, StageKeeps DEF Commit, CommitUnseen, Abort, Insert, checker
  <1>6. ASSUME NEW c \in Checkers, CheckerReads(c) PROVE Kept /\ Counted
    <2>1. UNCHANGED faults \/ Fault
      BY <1>6 DEF CheckerReads, StartCron, StartConfirm, ReadRows, MissPrior, MissRows, StartRange,
                  ReadAnchors
    <2>2. QED
      BY <1>2, <1>6, <2>1, ReadsKeep
  <1>7. ASSUME NEW c \in Checkers, CheckerActs(c) PROVE RestTyped'
    <2>1. CASE StartReconcile(c)
      BY <1>1, <2>1 DEF StartReconcile
    <2>2. CASE Classify(c)
      <3>1. First(Tampers) \subseteq Seqs
        BY DEF First, Tampers, LogTyped
      <3>2. QED
        BY <2>2, <3>1 DEF Classify
    <2>3. CASE MissClassify(c)
      BY <1>2, <2>3 DEF MissClassify
    <2>4. CASE CheckerDies(c)
      BY <1>2, <2>4 DEF CheckerDies
    <2>5. ASSUME NEW s \in Seqs, NameByHand(c, s) PROVE RestTyped'
      BY <1>1, <2>5 DEF NameByHand
    <2>6. QED
      BY <1>7, <2>1, <2>2, <2>3, <2>4, <2>5 DEF CheckerActs
  <1>8. ASSUME NEW c \in Checkers, NEW s \in Seqs, Acknowledges(c, s) PROVE RestTyped'
    <2>1. UNCHANGED faults \/ Fault
      BY <1>8 DEF Acknowledges, Reanchor, MissReanchor
    <2>2. QED
      BY <1>2, <1>8, <2>1, AcknowledgesKeep
  <1>9. ASSUME NEW s \in Seqs, Alter(s) \/ Lose(s) PROVE RestTyped'
    BY <1>3, <1>9 DEF Alter, Lose, checker, LogTyped
  <1>10. UNCHANGED vars => Kept /\ Counted
    BY DEF vars, checker
  <1>11. QED
    BY <1>4, <1>5, <1>6, <1>7, <1>8, <1>9, <1>10, StepCases

-----------------------------------------------------------------------------
(* The lock.                                                               *)

LEMMA StepAppendInv == Inv /\ [Next]_vars => AppendInv'
  <1> SUFFICES ASSUME Inv, [Next]_vars PROVE AppendInv'
    OBVIOUS
  <1> USE ChainAssumption DEF Inv, AppendInv, InAppend
  <1>1. UNCHANGED <<rows, append>> => AppendInv'
    BY DEF append, IsTail
  <1>2. ASSUME NEW p \in Procs, AppendStage(p) PROVE AppendInv'
    <2>1. UNCHANGED rows
      BY <1>2, StageKeeps DEF log
    <2>2. CASE TakeLock(p)
      <3>1. \A q \in Procs : ~InAppend(q)
        BY <2>2 DEF TakeLock, Procs
      <3>2. \A q \in Procs : pc'[q] \notin {"read", "reserved"} /\ (InAppend(q)' => lock' = q)
        BY <2>2, <3>1 DEF TakeLock, AppendTyped
      <3>3. QED
        BY <2>1, <2>2, <3>2 DEF TakeLock
    <2>3. CASE ReadTail(p)
      BY <2>1, <2>3 DEF ReadTail, AppendTyped, IsTail
    <2>4. CASE Reserve(p)
      <3>1. /\ last' = last + 1 /\ taken' = [taken EXCEPT ![p] = last + 1] /\ lock = p
            /\ pc' = [pc EXCEPT ![p] = "reserved"] /\ UNCHANGED <<lock, tail>>
            /\ pc[p] = "read" /\ last < MaxSeq
        BY <2>4 DEF Reserve
      <3>2. \A q \in Procs \ {p} : ~InAppend(q)
        BY <3>1
      <3>3. last + 1 \in Seqs /\ \A r \in rows : r < last + 1
        BY <3>1 DEF AppendTyped, LogTyped, Seqs
      <3>4. ASSUME NEW q \in Procs
            PROVE  /\ InAppend(q)' => lock' = q
                   /\ pc'[q] \in {"read", "reserved"} => IsTail(tail[q])'
                   /\ pc'[q] = "reserved" => /\ taken'[q] \in Seqs /\ taken'[q] = last'
                                             /\ \A r \in rows' : r < taken'[q]
        BY <2>1, <3>1, <3>2, <3>3 DEF AppendTyped, IsTail
      <3>5. QED
        BY <2>1, <3>1, <3>3, <3>4 DEF AppendTyped, LogTyped, Seqs
    <2>5. QED
      BY <1>2, <2>2, <2>3, <2>4 DEF AppendStage
  <1>3. ASSUME NEW p \in Procs, EndAppend(p), UNCHANGED rows PROVE AppendInv'
    BY <1>3 DEF EndAppend, AppendTyped, IsTail
  <1>4. ASSUME NEW p \in Procs, Insert(p), EndAppend(p) PROVE AppendInv'
    <2>1. /\ lock = p /\ taken[p] = last /\ rows' = rows \cup {taken[p]}
      BY <1>4 DEF Insert
    <2>2. \A q \in Procs \ {p} : ~InAppend(q)
      BY <2>1
    <2>3. \A q \in Procs : ~InAppend(q)'
      BY <1>4, <2>2 DEF EndAppend, AppendTyped
    <2>4. \A r \in rows' : r <= last'
      BY <1>4, <2>1 DEF EndAppend, AppendTyped
    <2>5. QED
      BY <2>3, <2>4
  <1>5. ASSUME NEW w \in Procs, UNCHANGED <<log, last, lock, tail, taken>>,
               pc' = [pc EXCEPT ![w] = "waiting"]
        PROVE  AppendInv'
    BY <1>5 DEF log, AppendTyped, IsTail
  <1>6. ASSUME NEW w \in Writers, Request(w) PROVE AppendInv'
    BY <1>5, <1>6 DEF Request, Procs
  <1>7. ASSUME NEW c \in Checkers, NEW s \in Seqs, Acknowledges(c, s) PROVE AppendInv'
    BY <1>5, <1>7, AcknowledgesKeep DEF Procs
  <1>8. ASSUME NEW c \in Checkers, CheckerReads(c) \/ CheckerActs(c) PROVE AppendInv'
    BY <1>1, <1>8, ReadsKeep, ActsKeep DEF log
  <1>9. ASSUME NEW s \in Seqs, Alter(s) PROVE AppendInv'
    BY <1>1, <1>9 DEF Alter
  <1>10. ASSUME NEW s \in Seqs, Lose(s) PROVE AppendInv'
    <2>1. \A p \in Procs : ~InAppend(p)
      BY <1>10 DEF Lose, Procs
    <2>2. QED
      BY <1>10, <2>1 DEF Lose, append
  <1>11. UNCHANGED vars => AppendInv'
    BY <1>1 DEF vars, log
  <1>12. ASSUME NEW p \in Procs, Commit(p) \/ CommitUnseen(p) \/ Abort(p) PROVE AppendInv'
    BY <1>3, <1>4, <1>12 DEF Commit, CommitUnseen, Abort, log
  <1>13. QED
    BY <1>2, <1>6, <1>7, <1>8, <1>9, <1>10, <1>11, <1>12, StepCases

LEMMA StepInv == Inv /\ [Next]_vars => Inv'
  BY StepLogTyped, StepAppendTyped, StepCheckerTyped, StepRestTyped, StepAppendInv DEF Inv

LEMMA Invariance == Spec => []Inv
  BY InitInv, StepInv, PTL DEF Spec

(* The state of the log, of the appends and of the checkers keeps its type *)
(* for every number of writers, checkers and rows.                         *)
THEOREM ChainTypes == Spec => []TypeOK
  BY Invariance, InvTypes, PTL

-----------------------------------------------------------------------------
(* The refinement.                                                         *)

LEMMA InitLinear == Init => Linear!Init
  BY InitInv DEF Inv, LogTyped, Linear!Init, Seqs

(* An INSERT appends to the true last row; no other step adds a row.       *)
LEMMA StepLinear == Inv /\ [Next]_vars => [Linear!Next]_<<rows, link>>
  <1> SUFFICES ASSUME Inv, [Next]_vars PROVE [Linear!Next]_<<rows, link>>
    OBVIOUS
  <1> USE DEF Inv
  <1>1. ASSUME NEW p \in Procs, Insert(p) PROVE Linear!Next
    <2>1. /\ taken[p] \in Seqs /\ IsTail(tail[p]) /\ \A r \in rows : r < taken[p]
          /\ rows' = rows \cup {taken[p]} /\ link' = [link EXCEPT ![taken[p]] = tail[p]]
      BY <1>1 DEF Insert, AppendInv
    <2>2. tail[p] \in Seqs \cup {0} /\ tail[p] < taken[p]
      <3>1. tail[p] \in rows \/ tail[p] = 0
        BY <2>1 DEF IsTail
      <3>2. CASE tail[p] \in rows
        BY <2>1, <3>2 DEF LogTyped
      <3>3. CASE tail[p] = 0
        BY <2>1, <3>3, ChainAssumption DEF Seqs
      <3>4. QED
        BY <3>1, <3>2, <3>3
    <2>3. Linear!AppendEntry(taken[p], tail[p])
      BY <2>1, <2>2 DEF Linear!AppendEntry, Linear!IsTail, IsTail
    <2>4. QED
      BY <2>1, <2>2, <2>3 DEF Linear!Next
  <1>2. ASSUME NEW s \in Seqs, Lose(s) PROVE Linear!Next
    BY <1>2 DEF Lose, Linear!Next, Linear!LoseEntry
  <1>3. ASSUME NEW s \in Seqs, Alter(s) PROVE UNCHANGED <<rows, link>>
    BY <1>3 DEF Alter
  <1>4. UNCHANGED log => UNCHANGED <<rows, link>>
    BY DEF log
  <1>5. QED
    BY <1>1, <1>2, <1>3, <1>4, LogChanges

(* Appends are atomic and linear: whatever the number of writers, aborts,  *)
(* holes and losses, each committed row names the true last row.           *)
THEOREM ChainIsLinear == Spec => ImplementsChainedLog
  <1>1. Init => Linear!Init
    BY InitLinear
  <1>2. Inv /\ [Next]_vars => [Linear!Next]_<<rows, link>>
    BY StepLinear
  <1>3. QED
    BY <1>1, <1>2, Invariance, PTL DEF Spec, ImplementsChainedLog, Linear!Spec

-----------------------------------------------------------------------------
(* What is acknowledged.                                                   *)

LEMMA InitReason == Init => ReasonInv
  BY DEF Init, ReasonInv, Caused, Forks

(* A loss unlinks only the rows that name the lost one.                    *)
LEMMA LossUnlinks ==
  ASSUME Inv, NEW t \in Seqs, Lose(t), NEW s \in rows', Continues(1, 0, s)
  PROVE  Continues(1, 0, s)' \/ link[s] = t
  <1> DEFINE B  == {r \in rows : 1 <= r /\ r < s}
             Bn == {r \in rows' : 1 <= r /\ r < s}
  <1>1. rows' = rows \ {t} /\ link' = link
    BY DEF Lose
  <1>2. Bn = B \ {t}
    BY <1>1
  <1>3. CASE B = {}
    BY <1>1, <1>2, <1>3 DEF Continues
  <1>4. CASE B # {} /\ link[s] # t
    <2>1. link[s] \in B /\ \A r \in B : r <= link[s]
      BY <1>4 DEF Continues
    <2>2. link[s] \in Bn /\ \A r \in Bn : r <= link[s]
      BY <1>2, <1>4, <2>1
    <2>3. QED
      BY <1>1, <2>2 DEF Continues
  <1>5. QED
    BY <1>3, <1>4

(* An INSERT continues the chain and disturbs no row before it.            *)
LEMMA InsertContinues ==
  ASSUME Inv, NEW p \in Procs, Insert(p), NEW s \in rows',
         s \in rows => Continues(1, 0, s) \/ s \in Caused
  PROVE  Continues(1, 0, s)' \/ s \in Caused
  <1> DEFINE B  == {r \in rows : 1 <= r /\ r < s}
             Bn == {r \in rows' : 1 <= r /\ r < s}
  <1>1. /\ taken[p] \in Seqs /\ IsTail(tail[p]) /\ \A r \in rows : r < taken[p]
        /\ rows' = rows \cup {taken[p]} /\ link' = [link EXCEPT ![taken[p]] = tail[p]]
    BY DEF Inv, Insert, AppendInv
  <1>2. s \in Seqs /\ rows \subseteq Seqs
    BY <1>1 DEF Inv, LogTyped
  <1>3. Bn = B
    BY <1>1, <1>2 DEF Seqs
  <1>4. CASE s = taken[p]
    <2>1. B = rows
      <3>1. ASSUME NEW r \in rows PROVE 1 <= r /\ r < s
        <4>1. r \in Seqs /\ r < taken[p]
          BY <1>1, <1>2
        <4>2. QED
          BY <4>1, <1>4, ChainAssumption DEF Seqs
      <3>2. QED
        BY <3>1
    <2>5. link'[s] = tail[p]
      BY <1>1, <1>4 DEF Inv, LogTyped
    <2>2. tail[p] \in rows \cup {0} /\ \A r \in rows : r <= tail[p]
      BY <1>1 DEF IsTail
    <2>3. IF rows = {} THEN tail[p] = 0 ELSE tail[p] \in rows
      <3>1. CASE tail[p] = 0 /\ rows # {}
        <4>1. PICK q \in rows : TRUE
          BY <3>1
        <4>2. 1 <= q /\ q <= 0
          BY <1>2, <2>2, <3>1, ChainAssumption DEF Seqs
        <4>3. QED
          BY <4>2, <1>2, ChainAssumption DEF Seqs
      <3>2. QED
        BY <2>2, <3>1
    <2>4. QED
      BY <1>3, <2>1, <2>2, <2>3, <2>5 DEF Continues
  <1>5. CASE s # taken[p]
    <2>1. s \in rows /\ link'[s] = link[s]
      BY <1>1, <1>2, <1>5 DEF Inv, LogTyped
    <2>2. QED
      BY <1>3, <2>1 DEF Continues
  <1>6. QED
    BY <1>4, <1>5

LEMMA StepReason == Inv /\ ReasonInv /\ [Next]_vars => ReasonInv'
  <1> SUFFICES ASSUME Inv, ReasonInv, [Next]_vars PROVE ReasonInv'
    OBVIOUS
  <1> DEFINE Rows == \A s \in rows : Continues(1, 0, s) \/ s \in Caused
             Todo == (\A c \in Checkers : todo[c] \subseteq Accounted) /\ anchors \subseteq Accounted
  <1>0. reason \in [legacy: SUBSET Seqs, loss: SUBSET Seqs, hand: SUBSET Seqs]
    BY DEF Inv, RestTyped
  <1>1. Caused \subseteq Caused' /\ Accounted \subseteq Accounted'
    <2>1. UNCHANGED reason => Caused' = Caused /\ Accounted' = Accounted
      BY DEF Caused, Accounted
    <2>2. ASSUME NEW c \in Checkers, CheckerActs(c)
          PROVE  UNCHANGED reason \/ \E s \in Seqs : NameByHand(c, s)
      BY <2>2 DEF CheckerActs, StartReconcile, Classify, MissClassify, CheckerDies
    <2>3. ASSUME NEW c \in Checkers, NEW s \in Seqs, NameByHand(c, s)
          PROVE  Caused \subseteq Caused' /\ Accounted \subseteq Accounted'
      BY <1>0, <2>3 DEF NameByHand, Caused, Accounted
    <2>4. ASSUME NEW s \in Seqs, Lose(s)
          PROVE  Caused \subseteq Caused' /\ Accounted \subseteq Accounted'
      BY <1>0, <2>4 DEF Lose, Caused, Accounted
    <2>5. ASSUME NEW p \in Procs, AppendStage(p) \/ Commit(p) \/ CommitUnseen(p) \/ Abort(p)
          PROVE  UNCHANGED reason
      BY <2>5, StageKeeps DEF Commit, CommitUnseen, Abort
    <2>6. QED
      BY <2>1, <2>2, <2>3, <2>4, <2>5, StepCases, ReadsKeep, AcknowledgesKeep
         DEF Request, Alter, vars
  <1>2. Rows'
    <2>1. CASE UNCHANGED log
      BY <1>1, <2>1 DEF ReasonInv, log, Continues
    <2>2. ASSUME NEW p \in Procs, Insert(p) PROVE Rows'
      BY <1>1, <2>2, InsertContinues DEF ReasonInv
    <2>3. ASSUME NEW t \in Seqs, Lose(t) PROVE Rows'
      <3>1. rows' = rows \ {t} /\ Caused' = Caused \cup {s \in rows : link[s] = t}
        BY <1>0, <2>3 DEF Lose, Caused
      <3>2. QED
        BY <2>3, <3>1, LossUnlinks DEF ReasonInv
    <2>4. ASSUME NEW t \in Seqs, Alter(t) PROVE Rows'
      BY <1>1, <2>4 DEF Alter, ReasonInv, Continues
    <2>5. QED
      BY <2>1, <2>2, <2>3, <2>4, LogChanges
  <1>3. Todo'
    <2>1. UNCHANGED <<todo, anchors>> => Todo'
      BY <1>1 DEF ReasonInv
    <2>2. ASSUME NEW p \in Procs, Thrown(p), UNCHANGED anchors PROVE Todo'
      BY <1>1, <2>2 DEF ReasonInv, Thrown, Answered, Inv, CheckerTyped
    <2>3. ASSUME NEW c \in Checkers, CheckerActs(c) PROVE Todo'
      <3>1. CASE StartReconcile(c) \/ MissClassify(c)
        BY <2>1, <3>1 DEF StartReconcile, MissClassify
      <3>2. CASE CheckerDies(c)
        BY <1>1, <3>2 DEF CheckerDies, Answered, ReasonInv, Inv, CheckerTyped
      <3>3. CASE Classify(c)
        <4>1. Forks \subseteq Accounted
          BY DEF Forks, ReasonInv, Caused, Accounted
        <4>2. QED
          BY <1>1, <3>3, <4>1 DEF Classify, ReasonInv, Inv, CheckerTyped
      <3>4. ASSUME NEW s \in Seqs, NameByHand(c, s) PROVE Todo'
        <4>1. s \in Accounted'
          BY <1>0, <3>4 DEF NameByHand, Accounted
        <4>2. QED
          BY <1>1, <3>4, <4>1 DEF NameByHand, ReasonInv, Inv, CheckerTyped
      <3>5. QED
        BY <2>3, <3>1, <3>2, <3>3, <3>4 DEF CheckerActs
    <2>4. ASSUME NEW c \in Checkers, NEW s \in Seqs, Acknowledges(c, s) PROVE Todo'
      BY <1>1, <2>4, AcknowledgesKeep DEF ReasonInv, Inv, CheckerTyped
    <2>5. ASSUME NEW p \in Procs, AppendStage(p) \/ Commit(p) \/ CommitUnseen(p) \/ Abort(p)
          PROVE  Todo'
      BY <2>1, <2>2, <2>5, StageKeeps DEF Commit, CommitUnseen, Abort, checker
    <2>6. ASSUME NEW c \in Checkers, CheckerReads(c) PROVE Todo'
      BY <2>1, <2>6, ReadsKeep
    <2>7. QED
      BY <2>1, <2>3, <2>4, <2>5, <2>6, StepCases DEF Request, Alter, Lose, vars, checker
  <1>4. QED
    BY <1>2, <1>3 DEF ReasonInv

(* Whatever is acknowledged was mis-linked before the lock, has lost its   *)
(* predecessor, or was named by an administrator, however many             *)
(* reconciliations overlap with appends, aborts and losses.                *)
THEOREM ChainAcknowledgesWithReason == Spec => []AnchorsAccounted
  <1>1. ReasonInv => AnchorsAccounted
    BY DEF ReasonInv, AnchorsAccounted
  <1>2. QED
    BY <1>1, Invariance, InitReason, StepReason, PTL DEF Spec

-----------------------------------------------------------------------------
(* What a verification says.                                               *)

(* An altered row is where a verification stops, acknowledged or not.      *)
THEOREM ChainExcusesNoAlteration == Spec => AnchorExcusesNoAlteration
  <1>1. ASSUME Inv, NEW c \in Checkers, ReadRows(c), verdict'[c] = "valid",
               NEW s \in rows \cap altered
        PROVE  s < from[c]
    <2> DEFINE B == Broken(from[c], Before(from[c]), seen[c])
    <2>1. verdict' = [verdict EXCEPT ![c] = IF B = {} THEN "valid" ELSE "invalid"]
      BY <1>1 DEF ReadRows, Walk
    <2>2. B = {}
      <3>1. verdict'[c] = IF B = {} THEN "valid" ELSE "invalid"
        BY <1>1, <2>1 DEF Inv, CheckerTyped
      <3>2. QED
        BY <1>1, <3>1
    <2>3. ~(from[c] <= s)
      BY <1>1, <2>2 DEF Broken
    <2>4. s \in Nat /\ from[c] \in Nat
      <3>1. s \in Seqs /\ from[c] \in Seqs \cup {1}
        BY <1>1 DEF Inv, LogTyped, CheckerTyped
      <3>2. QED
        BY <3>1, ChainAssumption DEF Seqs
    <2>5. QED
      BY <2>3, <2>4
  <1>2. Inv => \A c \in Checkers : ReadRows(c) /\ verdict'[c] = "valid" =>
                 \A s \in rows \cap altered : s < from[c]
    BY <1>1
  <1>3. QED
    BY <1>2, Invariance, PTL DEF AnchorExcusesNoAlteration

(* In a sound chain, so is every range that begins behind a row.           *)
LEMMA RangeSound ==
  ASSUME rows \subseteq Seqs, Sound, NEW f \in Seqs \cup {1}, f - 1 \in rows \cup {0}
  PROVE  Broken(f, Before(f), anchors) = {}
  <1> SUFFICES ASSUME NEW s \in rows, f <= s
               PROVE  s \notin altered /\ (Continues(f, Before(f), s) \/ s \in anchors)
    BY DEF Broken
  <1> DEFINE B == {r \in rows : 1 <= r /\ r < s}
             F == {r \in rows : f <= r /\ r < s}
  <1>1. f \in Nat /\ 1 <= f /\ \A r \in rows : r \in Nat /\ 1 <= r
    BY ChainAssumption DEF Seqs
  <1>2. s \notin altered /\ (Continues(1, 0, s) \/ s \in anchors)
    BY <1>1 DEF Sound, Broken
  <1>3. ASSUME Continues(1, 0, s), f = 1 PROVE Continues(f, Before(f), s)
    <2>1. Before(f) = 0
      BY <1>1, <1>3 DEF Before
    <2>2. QED
      BY <1>3, <2>1
  <1>4. ASSUME Continues(1, 0, s), f - 1 \in rows PROVE Continues(f, Before(f), s)
    <2>1. Before(f) = f - 1
      BY <1>4 DEF Before
    <2>2. f - 1 \in B
      BY <1>1, <1>4
    <2>3. link[s] \in B /\ \A r \in B : r <= link[s]
      BY <1>4, <2>2 DEF Continues
    <2>8. link[s] \in rows /\ link[s] \in Nat /\ link[s] < s /\ f - 1 <= link[s]
      BY <1>1, <2>2, <2>3
    <2>9. f <= link[s] <=> link[s] \in F
      BY <2>8
    <2>4. ASSUME NEW q \in F PROVE link[s] \in F
      <3>1. q \in B /\ q \in Nat /\ f <= q
        BY <1>1, <2>4
      <3>2. q <= link[s]
        BY <2>3, <3>1
      <3>3. f <= link[s]
        BY <1>1, <2>8, <3>1, <3>2
      <3>4. QED
        BY <2>9, <3>3
    <2>5. ASSUME link[s] \notin F PROVE link[s] = f - 1
      <3>1. ~(f <= link[s])
        BY <2>5, <2>9
      <3>2. QED
        BY <1>1, <2>8, <3>1
    <2>6. \A r \in F : r <= link[s]
      BY <1>1, <2>3
    <2>7. QED
      BY <2>1, <2>4, <2>5, <2>6 DEF Continues
  <1>5. QED
    BY <1>1, <1>2, <1>3, <1>4

(* Every false alarm has a cause that can be named.                        *)
THEOREM ChainFalseAlarms == Spec => FalseAlarmExplained
  <1>1. ASSUME Inv, Sound, [Next]_vars, NEW c \in Checkers, verdict[c] = "none",
               verdict'[c] = "invalid", seen[c] = anchors, from[c] - 1 \in rows \cup {0}
        PROVE  MissPrior(c)
    <2> USE DEF Inv, CheckerTyped
    <2>1. ASSUME NEW d \in Checkers, CheckerActs(d) PROVE FALSE
      BY <1>1, <2>1 DEF CheckerActs, StartReconcile, Classify, MissClassify, CheckerDies,
                        NameByHand
    <2>2. ASSUME NEW d \in Checkers, CheckerReads(d) PROVE d = c /\ (ReadRows(c) \/ MissPrior(c))
      BY <1>1, <2>2 DEF CheckerReads, StartCron, StartConfirm, ReadRows, MissPrior, MissRows,
                        StartRange, Walk
    <2>3. ~ReadRows(c)
      <3>1. SUFFICES ASSUME ReadRows(c) PROVE FALSE
        OBVIOUS
      <3>2. Broken(from[c], Before(from[c]), anchors) = {}
        BY <1>1, RangeSound DEF LogTyped
      <3>3. verdict' = [verdict EXCEPT ![c] = "valid"]
        BY <1>1, <3>1, <3>2 DEF ReadRows, Walk
      <3>4. QED
        BY <1>1, <3>3
    <2>4. verdict' # verdict
      BY <1>1
    <2>5. ASSUME NEW p \in Procs, AppendStage(p) \/ Commit(p) \/ CommitUnseen(p) \/ Abort(p)
          PROVE  UNCHANGED verdict
      BY <2>5, StageKeeps DEF Commit, CommitUnseen, Abort, checker
    <2>6. QED
      BY <1>1, <2>1, <2>2, <2>3, <2>4, <2>5, StepCases, AcknowledgesKeep
         DEF Request, Alter, Lose, vars, checker
  <1>2. Inv /\ [Next]_vars =>
          \A c \in Checkers : Sound /\ verdict[c] = "none" /\ verdict'[c] = "invalid" =>
            \/ seen[c] # anchors
            \/ MissPrior(c)
            \/ from[c] - 1 \notin rows \cup {0}
    BY <1>1
  <1>3. QED
    BY <1>2, Invariance, PTL DEF Spec, FalseAlarmExplained

(* Over the whole log the two walks agree: verifyChain finds broken, past  *)
(* any acknowledgements, what analyzeChain calls altered or an             *)
(* unacknowledged fork.                                                    *)
LEMMA ChainWalksAgree == Spec => []WalksAgree
  <1>1. Inv => WalksAgree
    <2>1. Inv => \A s \in rows : 1 <= s
      BY ChainAssumption DEF Inv, LogTyped, Seqs
    <2>2. QED
      BY <2>1 DEF WalksAgree, Broken, Tampers, Forks
  <1>2. QED
    BY <1>1, Invariance, PTL

(* No append makes a fork: each is from before the lock, or lost its       *)
(* predecessor.                                                            *)
THEOREM ChainForksHaveReason == Spec => []ForksHaveReason
  <1>1. ReasonInv => ForksHaveReason
    BY DEF ReasonInv, Caused, Forks, ForksHaveReason
  <1>2. QED
    BY <1>1, Invariance, InitReason, StepReason, PTL DEF Spec

(* An alert names only rows that were altered.                             *)
THEOREM ChainAlarmsAreTrue == Spec => []AlarmsNameAlterations
  <1>1. Init => AlarmsNameAlterations
    BY DEF Init, AlarmsNameAlterations
  <1>2. ASSUME AlarmsNameAlterations, [Next]_vars PROVE AlarmsNameAlterations'
    <2>1. altered \subseteq altered'
      <3>1. UNCHANGED log => altered \subseteq altered'
        BY DEF log
      <3>2. \A p \in Procs : Insert(p) => altered \subseteq altered'
        BY DEF Insert
      <3>3. \A s \in Seqs : Alter(s) \/ Lose(s) => altered \subseteq altered'
        BY DEF Alter, Lose
      <3>4. QED
        BY <1>2, <3>1, <3>2, <3>3, LogChanges
    <2>2. alarmed' \subseteq alarmed \cup altered
      <3>1. ASSUME NEW c \in Checkers, CheckerActs(c) PROVE alarmed' \subseteq alarmed \cup altered
        <4>1. First(Tampers) \subseteq altered
          BY DEF First, Tampers
        <4>2. QED
          BY <3>1, <4>1 DEF CheckerActs, StartReconcile, Classify, MissClassify, CheckerDies,
                            NameByHand
      <3>2. ASSUME NEW p \in Procs, AppendStage(p) \/ Commit(p) \/ CommitUnseen(p) \/ Abort(p)
            PROVE  UNCHANGED alarmed
        BY <3>2, StageKeeps DEF Commit, CommitUnseen, Abort, checker
      <3>3. ASSUME NEW c \in Checkers, CheckerReads(c) \/ \E s \in Seqs : Acknowledges(c, s)
            PROVE  UNCHANGED alarmed
        BY <3>3, ReadsKeep, AcknowledgesKeep
      <3>4. (\E w \in Writers : Request(w)) \/ (\E s \in Seqs : Alter(s) \/ Lose(s)) \/ UNCHANGED vars
              => UNCHANGED alarmed
        BY DEF Request, Alter, Lose, vars, checker
      <3>5. QED
        BY <1>2, <3>1, <3>2, <3>3, <3>4, StepCases
    <2>3. QED
      BY <1>2, <2>1, <2>2 DEF AlarmsNameAlterations
  <1>3. QED
    BY <1>1, <1>2, PTL DEF Spec

-----------------------------------------------------------------------------
(* The lock is with an append, and a checker is in an append just while it *)
(* records an acknowledgement.                                             *)
LockInv ==
  /\ lock # NoOne => InAppend(lock)
  /\ \A c \in Checkers : pc[c] # "idle" <=> at[c] = "record"

LEMMA StepLock == Inv /\ LockInv /\ [Next]_vars => LockInv'
  <1> SUFFICES ASSUME Inv, LockInv, [Next]_vars PROVE LockInv'
    OBVIOUS
  <1> USE ChainAssumption DEF Inv, LockInv, InAppend, AppendTyped, CheckerTyped
  <1>1. ASSUME UNCHANGED append,
               \A c \in Checkers : at'[c] = "record" <=> at[c] = "record"
        PROVE  LockInv'
    BY <1>1 DEF append
  <1>2. ASSUME NEW w \in Writers, Request(w) PROVE LockInv'
    BY <1>2 DEF Request, checker, Procs
  <1>3. ASSUME NEW p \in Procs, AppendStage(p) PROVE LockInv'
    <2>1. UNCHANGED at
      BY <1>3, StageKeeps DEF checker
    <2>2. PICK next \in {"locked", "read", "reserved"} : pc' = [pc EXCEPT ![p] = next]
      BY <1>3 DEF AppendStage, TakeLock, ReadTail, Reserve
    <2>3. pc[p] # "idle" /\ lock' \in {lock, p}
      BY <1>3 DEF AppendStage, TakeLock, ReadTail, Reserve
    <2>4. QED
      BY <2>1, <2>2, <2>3
  <1>4. ASSUME NEW p \in Procs, Commit(p) \/ CommitUnseen(p) \/ Abort(p) PROVE LockInv'
    <2>1. EndAppend(p) /\ (Recorded(p) \/ Thrown(p))
      BY <1>4 DEF Commit, CommitUnseen, Abort
    <2>2. lock' # NoOne => InAppend(lock)'
      <3>1. CASE lock = p
        BY <2>1, <3>1 DEF EndAppend
      <3>2. CASE lock # p
        BY <2>1, <3>2 DEF EndAppend
      <3>3. QED
        BY <3>1, <3>2
    <2>3. \A c \in Checkers \ {p} : pc'[c] = pc[c] /\ at'[c] = at[c]
      BY <2>1 DEF EndAppend, Recorded, Thrown, Answered
    <2>4. p \in Checkers => pc'[p] = "idle" /\ at'[p] # "record"
      BY <2>1 DEF EndAppend, Recorded, Reconciled, Thrown, Answered
    <2>5. QED
      BY <2>2, <2>3, <2>4
  <1>5. ASSUME NEW c \in Checkers, CheckerReads(c) PROVE LockInv'
    <2>1. /\ at[c] # "record"
          /\ at' \in {[at EXCEPT ![c] = a] : a \in {"idle", "range", "verify", "classify", "confirming"}}
      BY <1>5 DEF CheckerReads, StartCron, StartConfirm, ReadRows, MissPrior, MissRows, StartRange,
                  ReadAnchors, Walk
    <2>2. QED
      BY <1>1, <1>5, <2>1, ReadsKeep
  <1>6. ASSUME NEW c \in Checkers, CheckerActs(c) PROVE LockInv'
    <2>1. /\ at[c] # "record"
          /\ at' \in {[at EXCEPT ![c] = a] : a \in {"idle", "classify", "confirm", "reanchor"}}
      BY <1>6 DEF CheckerActs, StartReconcile, Classify, MissClassify, CheckerDies, NameByHand,
                  Answered, Reconciled
    <2>2. QED
      BY <1>1, <1>6, <2>1, ActsKeep
  <1>7. ASSUME NEW c \in Checkers, NEW s \in Seqs, Acknowledges(c, s) PROVE LockInv'
    <2>1. pc[c] = "idle" /\ lock # c
      BY <1>7, AcknowledgesKeep DEF Procs
    <2>2. /\ lock' = lock /\ pc' = [pc EXCEPT ![c] = "waiting"]
          /\ at' = [at EXCEPT ![c] = "record"]
      BY <1>7, AcknowledgesKeep
    <2>3. lock' # NoOne => InAppend(lock)'
      BY <2>1, <2>2
    <2>4. \A d \in Checkers : pc'[d] # "idle" <=> at'[d] = "record"
      BY <2>2 DEF Procs
    <2>5. QED
      BY <2>3, <2>4
  <1>8. QED
    BY <1>1, <1>2, <1>3, <1>4, <1>5, <1>6, <1>7, StepCases DEF Alter, Lose, vars, checker

(* The lock is never left behind, so that the next append can have it.     *)
THEOREM ChainLockFollowsAppend == Spec => []LockFollowsAppend
  <1>1. Init => LockInv
    BY DEF Init, LockInv, Procs
  <1>2. LockInv => LockFollowsAppend
    BY DEF LockInv, InAppend, LockFollowsAppend
  <1>3. QED
    BY <1>1, <1>2, StepLock, Invariance, PTL DEF Spec
=============================================================================
