----------------------------- MODULE AuditChain -----------------------------
(***************************************************************************)
(* The compliance log, lib/audit-log.ts: appends under one advisory lock,  *)
(* verification of the hash chain, and the reconciliation of the forks the *)
(* log has from before the lock, by the hourly verifier                    *)
(* (api/cron/audit-log-verify) and by administrators.                      *)
(*                                                                         *)
(* A hash is kept as the sequence number of the row it was computed for:   *)
(* it covers that number, so no two rows share one, and 0 is the genesis.  *)
(* A row is `altered` when it no longer reads as what was hashed.  An      *)
(* alteration that replaces the stored hashes as well is left out.         *)
(***************************************************************************)
EXTENDS Naturals, FiniteSets

CONSTANTS
  Writers,     \* requests that record an action
  Checkers,    \* the hourly verifier, and administrators' requests
  MaxSeq,      \* bound: sequence numbers
  MaxLegacy,   \* bound: rows from before the lock
  MaxRequests,  \* bound: actions recorded and requests made to acknowledge
  MaxFaults,   \* bound: reads, writes and appends that fail, requests that die
  MaxDamage,   \* bound: rows altered or lost
  RangeStarts, \* bound: the numbers that ranges are asked to begin at
  NoOne

ASSUME ChainAssumption ==
  /\ MaxSeq \in Nat /\ MaxLegacy \in 0 .. MaxSeq
  /\ MaxRequests \in Nat /\ MaxFaults \in Nat /\ MaxDamage \in Nat
  /\ RangeStarts \subseteq 1 .. MaxSeq
  /\ NoOne \notin Writers \cup Checkers
  /\ Writers \cap Checkers = {}    \* a request records, or checks

Seqs  == 1 .. MaxSeq
Procs == Writers \cup Checkers

VARIABLES
  rows,      \* instinct_audit_log: the sequence numbers there are
  link,      \* prev_hash of a row
  altered,   \* rows that do not read as what was hashed
  anchors,   \* instinct_audit_chain_anchors
  last,      \* the last value of instinct_audit_log_seq_seq
  lock,      \* who holds the advisory lock
  pc,        \* where an append is
  tail,      \* the row whose hash an append read
  taken,     \* the sequence number it reserved
  at,        \* where a checker is
  from,      \* first row of the range it verifies
  seen,      \* the anchors it read
  verdict,   \* what its last verification said
  todo,      \* forks it has still to acknowledge
  alarmed,   \* rows named by a critical alert
  requests, faults, damage,  \* so far
  reason     \* history: why a row may come to be acknowledged: it was mis-linked
             \* before the lock, its predecessor was lost, or an administrator
             \* named it

log     == <<rows, link, altered>>
append  == <<last, lock, pc, tail, taken>>
checker == <<at, from, seen, verdict, todo, alarmed>>
vars    == <<log, anchors, append, checker, requests, faults, damage, reason>>

TypeOK ==
  /\ rows \subseteq Seqs
  /\ link \in [Seqs -> 0 .. MaxSeq]
  /\ altered \subseteq Seqs
  /\ anchors \subseteq Seqs
  /\ last \in 0 .. MaxSeq
  /\ lock \in Procs \cup {NoOne}
  /\ pc \in [Procs -> {"idle", "waiting", "locked", "read", "reserved"}]
  /\ tail \in [Procs -> 0 .. MaxSeq]
  /\ taken \in [Procs -> 0 .. MaxSeq]
  /\ at \in [Checkers -> {"idle", "range", "verify", "classify", "reanchor", "record",
                          "confirm", "confirming"}]
  /\ from \in [Checkers -> Seqs \cup {1}]
  /\ seen \in [Checkers -> SUBSET Seqs]
  /\ verdict \in [Checkers -> {"none", "valid", "invalid"}]
  /\ todo \in [Checkers -> SUBSET Seqs]
  /\ alarmed \subseteq Seqs
  /\ requests \in 0 .. MaxRequests
  /\ faults \in 0 .. MaxFaults
  /\ damage \in 0 .. MaxDamage
  /\ reason \in [legacy: SUBSET Seqs, loss: SUBSET Seqs, hand: SUBSET Seqs]

-----------------------------------------------------------------------------
(* Walking the chain.                                                      *)

\* prev_hash of row s is what a walk over the rows from f on, starting with hash
\* h, expects at s: the hash of the row walked just before.
Continues(f, h, s) ==
  LET before == {r \in rows : f <= r /\ r < s}
  IN  IF before = {} THEN link[s] = h
      ELSE link[s] \in before /\ \A r \in before : r <= link[s]

\* Mutated form of Broken: an acknowledged row is skipped.
BrokenUnlessAcknowledged(f, h, acknowledged) ==
  {s \in rows \ acknowledged : f <= s /\ (s \in altered \/ ~Continues(f, h, s))}

\* Where verifyChain may stop: at a break that is not acknowledged, or at a row
\* that does not hash to what it holds.  It stops at the first.
Broken(f, h, acknowledged) ==
  {s \in rows : f <= s /\ (s \in altered \/ ~(Continues(f, h, s) \/ s \in acknowledged))}

\* Mutated form of Before: every range starts from the genesis.
BeforeGenesis(f) == 0

\* The hash the walk starts with: that of the row numbered f - 1, else the genesis.
Before(f) == IF f - 1 \in rows THEN f - 1 ELSE 0

\* Mutated form of Forks: the numbers are taken to be without holes.
ForksByNumber == {s \in rows \ altered : link[s] # s - 1}

\* What analyzeChain tells apart.
Tampers == rows \cap altered
Forks   == {s \in rows \ altered : ~Continues(1, 0, s)}

-----------------------------------------------------------------------------
\* Rows numbered up to n from before the lock, each linked to some row before it
\* or to none: several appends then read the same latest row.
Init ==
  /\ \E n \in 0 .. MaxLegacy :
       /\ rows = 1 .. n
       /\ last = n
       /\ \E l \in [1 .. n -> 0 .. n] :
            /\ \A s \in 1 .. n : l[s] < s
            /\ link = [s \in Seqs |-> IF s <= n THEN l[s] ELSE 0]
  /\ altered = {}
  /\ anchors = {}
  /\ lock = NoOne
  /\ pc = [p \in Procs |-> "idle"]
  /\ tail = [p \in Procs |-> 0]
  /\ taken = [p \in Procs |-> 0]
  /\ at = [c \in Checkers |-> "idle"]
  /\ from = [c \in Checkers |-> 1]
  /\ seen = [c \in Checkers |-> {}]
  /\ verdict = [c \in Checkers |-> "none"]
  /\ todo = [c \in Checkers |-> {}]
  /\ alarmed = {}
  /\ requests = 0 /\ faults = 0 /\ damage = 0
  /\ reason = [legacy |-> Forks, loss |-> {}, hand |-> {}]

PersonAsks == requests < MaxRequests /\ requests' = requests + 1

Fault  == faults < MaxFaults /\ faults' = faults + 1
Damage == damage < MaxDamage /\ damage' = damage + 1

-----------------------------------------------------------------------------
(* recordAudit.                                                            *)

Request(w) ==
  /\ pc[w] = "idle"
  /\ PersonAsks
  /\ pc' = [pc EXCEPT ![w] = "waiting"]
  /\ UNCHANGED <<log, anchors, last, lock, tail, taken, checker, faults, damage, reason>>

\* Mutated form of TakeLock: the lock excludes nobody.
TakeLockShared(p) ==
  /\ pc[p] = "waiting"
  /\ lock' = p
  /\ pc' = [pc EXCEPT ![p] = "locked"]
  /\ UNCHANGED <<log, anchors, last, tail, taken, checker, requests, faults, damage, reason>>

TakeLock(p) ==
  /\ pc[p] = "waiting"
  /\ lock = NoOne
  /\ lock' = p
  /\ pc' = [pc EXCEPT ![p] = "locked"]
  /\ UNCHANGED <<log, anchors, last, tail, taken, checker, requests, faults, damage, reason>>

IsTail(t) == t \in rows \cup {0} /\ \A r \in rows : r <= t

ReadTail(p) ==
  /\ pc[p] = "locked"
  /\ \E t \in 0 .. MaxSeq : IsTail(t) /\ tail' = [tail EXCEPT ![p] = t]
  /\ pc' = [pc EXCEPT ![p] = "read"]
  /\ UNCHANGED <<log, anchors, last, lock, taken, checker, requests, faults, damage, reason>>

\* nextval: not given back when the transaction is rolled back.
Reserve(p) ==
  /\ pc[p] = "read"
  /\ last < MaxSeq
  /\ last' = last + 1
  /\ taken' = [taken EXCEPT ![p] = last + 1]
  /\ pc' = [pc EXCEPT ![p] = "reserved"]
  /\ UNCHANGED <<log, anchors, lock, tail, checker, requests, faults, damage, reason>>

EndAppend(p) ==
  /\ pc' = [pc EXCEPT ![p] = "idle"]
  /\ lock' = IF lock = p THEN NoOne ELSE lock
  /\ tail' = [tail EXCEPT ![p] = 0]
  /\ taken' = [taken EXCEPT ![p] = 0]
  /\ UNCHANGED last

\* After reconciling: the verifier, which came here because the chain was broken,
\* verifies again; an administrator is answered.
Reconciled(c) == IF verdict[c] = "invalid" THEN "confirm" ELSE "idle"

\* A checker goes on to its next fork, or out of the loop.
Recorded(p) ==
  IF p \in Checkers
  THEN at' = [at EXCEPT ![p] = IF todo[p] = {} THEN Reconciled(p) ELSE "reanchor"]
  ELSE UNCHANGED at

\* A checker's request is over, and what it read is gone.
Forget(c)   == from' = [from EXCEPT ![c] = 1] /\ seen' = [seen EXCEPT ![c] = {}]
Answered(c) ==
  /\ Forget(c)
  /\ at' = [at EXCEPT ![c] = "idle"]
  /\ todo' = [todo EXCEPT ![c] = {}]

\* An error leaves recordAudit: it ends a checker's whole request.
Thrown(p) == IF p \in Checkers THEN Answered(p) ELSE UNCHANGED <<at, from, seen, todo>>

\* Mutated form of Insert: a NULL prev_hash is not read as the genesis.
InsertNull(p) ==
  /\ pc[p] = "reserved"
  /\ rows' = rows \cup {taken[p]}
  /\ link' = [link EXCEPT ![taken[p]] = IF tail[p] = 0 THEN NoOne ELSE tail[p]]
  /\ UNCHANGED <<altered, damage>>

\* INSERT and COMMIT.  A value the column stores in another spelling (inet) does
\* not read as it was hashed.
Insert(p) ==
  /\ pc[p] = "reserved"
  /\ rows' = rows \cup {taken[p]}
  /\ link' = [link EXCEPT ![taken[p]] = tail[p]]
  /\ \/ UNCHANGED <<altered, damage>>
     \/ p \in Writers /\ Damage /\ altered' = altered \cup {taken[p]}

Commit(p) ==
  /\ Insert(p)
  /\ EndAppend(p)
  /\ Recorded(p)
  /\ UNCHANGED <<anchors, from, seen, verdict, todo, alarmed, requests, faults, reason>>

\* The COMMIT takes hold and its answer is lost.
CommitUnseen(p) ==
  /\ Insert(p)
  /\ Fault
  /\ EndAppend(p)
  /\ Thrown(p)
  /\ UNCHANGED <<anchors, verdict, alarmed, requests, reason>>

\* A statement throws, or the request dies: the transaction is rolled back.
Abort(p) ==
  /\ pc[p] # "idle"
  /\ Fault
  /\ EndAppend(p)
  /\ Thrown(p)
  /\ UNCHANGED <<log, anchors, verdict, alarmed, requests, damage, reason>>

-----------------------------------------------------------------------------
(* verifyChain.                                                            *)

\* The anchors; a failed read is an empty one.
ReadAnchors(c, a, b) ==
  /\ at[c] = a
  /\ at' = [at EXCEPT ![c] = b]
  /\ \/ seen' = [seen EXCEPT ![c] = anchors] /\ UNCHANGED faults
     \/ seen' = [seen EXCEPT ![c] = {}] /\ Fault
  /\ UNCHANGED <<log, anchors, append, todo, alarmed, requests, damage, reason>>

\* The hourly verifier, or an administrator who asks for the same.
StartCron(c) ==
  /\ ReadAnchors(c, "idle", "verify")
  /\ from' = [from EXCEPT ![c] = 1]
  /\ verdict' = [verdict EXCEPT ![c] = "none"]

\* The verify route and the export's manifest, which ask for a range that begins
\* at any number, also at one no row has or past the last, and only report.
StartRange(c, f) ==
  /\ f \in RangeStarts
  /\ ReadAnchors(c, "idle", "range")
  /\ from' = [from EXCEPT ![c] = f]
  /\ verdict' = [verdict EXCEPT ![c] = "none"]

StartConfirm(c) ==
  /\ ReadAnchors(c, "confirm", "confirming")
  /\ verdict' = [verdict EXCEPT ![c] = "none"]
  /\ UNCHANGED from

\* The rows and the row before them.  No commit falls between the two reads that
\* adds a row before one already read.
Walk(c, h) ==
  LET says == IF Broken(from[c], h, seen[c]) = {} THEN "valid" ELSE "invalid"
  IN  /\ verdict' = [verdict EXCEPT ![c] = says]
      /\ at' = [at EXCEPT ![c] =
                  IF at[c] = "verify" /\ says = "invalid" THEN "classify" ELSE "idle"]
      /\ Forget(c)
      /\ UNCHANGED <<log, anchors, append, todo, alarmed, requests, damage, reason>>

ReadRows(c) ==
  /\ at[c] \in {"range", "verify", "confirming"}
  /\ Walk(c, Before(from[c]))
  /\ UNCHANGED faults

\* The read of the row before the range fails.
MissPrior(c) ==
  /\ at[c] = "range"
  /\ Fault
  /\ Walk(c, 0)

\* The read of the rows fails: nothing checked, nothing wrong.
MissRows(c) ==
  /\ at[c] \in {"range", "verify", "confirming"}
  /\ Fault
  /\ verdict' = [verdict EXCEPT ![c] = "valid"]
  /\ at' = [at EXCEPT ![c] = "idle"]
  /\ Forget(c)
  /\ UNCHANGED <<log, anchors, append, todo, alarmed, requests, damage, reason>>

-----------------------------------------------------------------------------
(* reconcileChain.                                                         *)

\* An administrator asks for reconciliation only.
StartReconcile(c) ==
  /\ at[c] = "idle"
  /\ PersonAsks
  /\ at' = [at EXCEPT ![c] = "classify"]
  /\ verdict' = [verdict EXCEPT ![c] = "none"]
  /\ UNCHANGED <<log, anchors, append, from, seen, todo, alarmed, faults, damage, reason>>

First(S) == {s \in S : \A r \in S : s <= r}

\* Mutated form of Classify: the alert names where the verification stopped.
ClassifyBrokenAt(c) ==
  /\ at[c] = "classify"
  /\ IF Tampers # {}
     THEN /\ at' = [at EXCEPT ![c] = "idle"]
          /\ alarmed' = IF verdict[c] = "invalid"
                         THEN alarmed \cup First(Broken(1, 0, anchors)) ELSE alarmed
          /\ UNCHANGED todo
     ELSE /\ at' = [at EXCEPT ![c] = IF Forks = {} THEN Reconciled(c) ELSE "reanchor"]
          /\ todo' = [todo EXCEPT ![c] = Forks]
          /\ UNCHANGED alarmed
  /\ UNCHANGED <<log, anchors, append, from, seen, verdict, requests, faults, damage, reason>>

\* Mutated form of Classify: the forks are reported and not acknowledged.
ClassifyReports(c) ==
  /\ at[c] = "classify"
  /\ at' = [at EXCEPT ![c] = IF Tampers # {} THEN "idle" ELSE Reconciled(c)]
  /\ alarmed' = IF verdict[c] = "invalid" THEN alarmed \cup First(Tampers) ELSE alarmed
  /\ UNCHANGED <<log, anchors, append, from, seen, verdict, todo, requests, faults, damage,
                 reason>>

\* Any row that was altered: nothing is acknowledged, and the verifier's alert
\* names the first.  Otherwise every fork is to be acknowledged.
Classify(c) ==
  /\ at[c] = "classify"
  /\ IF Tampers # {}
     THEN /\ at' = [at EXCEPT ![c] = "idle"]
          /\ alarmed' = IF verdict[c] = "invalid" THEN alarmed \cup First(Tampers) ELSE alarmed
          /\ UNCHANGED todo
     ELSE /\ at' = [at EXCEPT ![c] = IF Forks = {} THEN Reconciled(c) ELSE "reanchor"]
          /\ todo' = [todo EXCEPT ![c] = Forks]
          /\ UNCHANGED alarmed
  /\ UNCHANGED <<log, anchors, append, from, seen, verdict, requests, faults, damage, reason>>

\* analyzeChain reads no rows: no forks and nothing altered.
MissClassify(c) ==
  /\ at[c] = "classify"
  /\ Fault
  /\ at' = [at EXCEPT ![c] = Reconciled(c)]
  /\ UNCHANGED <<log, anchors, append, from, seen, verdict, todo, alarmed, requests, damage,
                 reason>>

\* An administrator names one row.
NameByHand(c, s) ==
  /\ at[c] = "idle"
  /\ PersonAsks
  /\ at' = [at EXCEPT ![c] = "reanchor"]
  /\ todo' = [todo EXCEPT ![c] = {s}]
  /\ verdict' = [verdict EXCEPT ![c] = "none"]
  /\ reason' = [reason EXCEPT !.hand = @ \cup {s}]
  /\ UNCHANGED <<log, anchors, append, from, seen, alarmed, faults, damage>>

\* reanchorChain: the INSERT, ON CONFLICT DO NOTHING; then recordAudit.
Acknowledge(c, s) ==
  /\ at[c] = "reanchor"
  /\ s \in First(todo[c])
  /\ todo' = [todo EXCEPT ![c] = @ \ {s}]
  /\ at' = [at EXCEPT ![c] = "record"]
  /\ pc' = [pc EXCEPT ![c] = "waiting"]
  /\ UNCHANGED <<log, last, lock, tail, taken, from, seen, verdict, alarmed, requests, damage,
                 reason>>

Reanchor(c, s) ==
  /\ Acknowledge(c, s)
  /\ anchors' = anchors \cup {s}
  /\ UNCHANGED faults

\* The INSERT fails, which reads as if the row had been acknowledged before.
MissReanchor(c, s) ==
  /\ Acknowledge(c, s)
  /\ Fault
  /\ UNCHANGED anchors

\* The request of a checker dies outside an append.
CheckerDies(c) ==
  /\ at[c] # "idle"
  /\ pc[c] = "idle"
  /\ Fault
  /\ Answered(c)
  /\ UNCHANGED <<log, anchors, append, verdict, alarmed, requests, damage, reason>>

-----------------------------------------------------------------------------
(* From outside: a row is altered, or is missing after a restore.          *)

Alter(s) ==
  /\ s \in rows \ altered
  /\ Damage
  /\ altered' = altered \cup {s}
  /\ UNCHANGED <<rows, link, anchors, append, checker, requests, faults, reason>>

Lose(s) ==
  /\ s \in rows
  /\ lock = NoOne
  /\ Damage
  /\ rows' = rows \ {s}
  /\ reason' = [reason EXCEPT !.loss = @ \cup {t \in rows : link[t] = s}]
  /\ UNCHANGED <<link, altered, anchors, append, checker, requests, faults>>

-----------------------------------------------------------------------------
AppendStep(p) == TakeLock(p) \/ ReadTail(p) \/ Reserve(p) \/ Commit(p)

CronStep(c) ==
  \/ StartCron(c) \/ StartConfirm(c) \/ ReadRows(c) \/ Classify(c)
  \/ \E s \in Seqs : Reanchor(c, s)

Next ==
  \/ \E w \in Writers : Request(w)
  \/ \E p \in Procs : TakeLock(p) \/ ReadTail(p) \/ Reserve(p) \/ Commit(p)
                      \/ CommitUnseen(p) \/ Abort(p)
  \/ \E c \in Checkers :
       \/ StartCron(c) \/ StartConfirm(c) \/ StartReconcile(c)
       \/ ReadRows(c) \/ MissPrior(c) \/ MissRows(c)
       \/ Classify(c) \/ MissClassify(c) \/ CheckerDies(c)
  \/ \E c \in Checkers, s \in Seqs :
       StartRange(c, s) \/ NameByHand(c, s) \/ Reanchor(c, s) \/ MissReanchor(c, s)
  \/ \E s \in Seqs : Alter(s) \/ Lose(s)

Spec == Init /\ [][Next]_vars

\* The cron comes back every hour, a request goes on, and a transaction that holds
\* the lock ends.  Failures are bounded, so that some run meets none.
Fairness ==
  /\ \A p \in Procs : WF_vars(AppendStep(p))
  /\ \A c \in Checkers : WF_vars(CronStep(c)) /\ SF_vars(StartCron(c))

FairSpec == Spec /\ Fairness

-----------------------------------------------------------------------------
(* Properties.                                                             *)

\* Appends are atomic and the log is linear: although the read of the latest row,
\* the reservation of a number and the INSERT are separate statements, and
\* aborted appends leave holes in the numbers, each committed row names the true
\* last row, and only the forks from before the lock are forks.
Linear == INSTANCE ChainedLog
ImplementsChainedLog == Linear!Spec

\* A row that is acknowledged was mis-linked before the lock, has lost its
\* predecessor, or was named by an administrator: no append, no hole in the
\* numbers, no failed read and no overlap of reconciliations makes a well-linked
\* row look like a fork.
Accounted == reason.legacy \cup reason.loss \cup reason.hand
AnchorsAccounted == anchors \subseteq Accounted

\* What reconciliation says of every row it acknowledges, "pre-advisory-lock
\* legacy race" (audit-log.ts:748): it was mis-linked before the lock.  The row
\* after one that is missing from a restored log is acknowledged so as well.
OnlyLegacyAcknowledged == anchors \subseteq reason.legacy \cup reason.hand

\* A verification that reads the rows and finds the range valid has met no altered
\* row, whatever has been acknowledged.
AnchorExcusesNoAlteration ==
  [][\A c \in Checkers : ReadRows(c) /\ verdict'[c] = "valid" =>
       \A s \in rows \cap altered : s < from[c]]_vars

\* A verification that finds fault with a chain without a fault (no row altered,
\* every fork acknowledged) has a cause that can be named: its read of the
\* anchors failed, or came before an acknowledgement; its read of the row before
\* the range failed; or the range begins behind a hole in the numbers.
Sound == Broken(1, 0, anchors) = {}

FalseAlarmExplained ==
  [][\A c \in Checkers : Sound /\ verdict[c] = "none" /\ verdict'[c] = "invalid" =>
       \/ seen[c] # anchors
       \/ MissPrior(c)
       \/ from[c] - 1 \notin rows \cup {0}]_vars

\* The lock follows the append: whatever fails, and when a checker goes in and out
\* of appends of its own, the lock is never left with one that is not inside.
LockFollowsAppend ==
  lock # NoOne => pc[lock] \in {"locked", "read", "reserved"}

\* A fork is from before the lock, or the row before it was lost.  No append makes
\* one, and none comes of a failure.
ForksHaveReason == Forks \subseteq reason.legacy \cup reason.loss

\* An alert names a row that was altered, never a fork nor a hole.
AlarmsNameAlterations == alarmed \subseteq altered

\* verifyChain and analyzeChain walk the chain each in its own way, one past what
\* is acknowledged and one past all; over the whole log they agree on every row.
WalksAgree ==
  \A A \in SUBSET Seqs : Broken(1, 0, A) = Tampers \cup (Forks \ A)

\* The forks from before the lock heal: when no row is altered, each of them is in
\* the end acknowledged, whatever fails on the way and however often
\* administrators interfere.  Of the row after a lost one it promises nothing.
LegacyForksHeal ==
  <>[](Tampers = {}) => <>[](Forks \cap reason.legacy \subseteq anchors)

\* An altered row is found: the hourly verifier raises the critical alert for the
\* first of them, also when the chain has forks that are not acknowledged yet.
AlterationRaisesAlarm ==
  <>[](Tampers # {}) => <>[](First(Tampers) \subseteq alarmed)
=============================================================================
