----------------------------- MODULE ChainedLog -----------------------------
(***************************************************************************)
(* What lib/audit-log.ts promises of the compliance log: one linear log,   *)
(* appended to in one step, each entry naming its true predecessor.  Beside *)
(* the appends, rows may be lost, for reasons outside the program.         *)
(***************************************************************************)
EXTENDS Naturals

CONSTANT Seqs   \* the sequence numbers; 0 stands for the genesis

VARIABLES
  rows,   \* sequence numbers of the rows there are
  link    \* the row whose entry_hash a row carries as prev_hash

\* t is the last row, or the genesis when there is none.
IsTail(t) == t \in rows \cup {0} /\ \A r \in rows : r <= t

AppendEntry(s, t) ==
  /\ IsTail(t)
  /\ t < s
  /\ rows' = rows \cup {s}
  /\ link' = [link EXCEPT ![s] = t]

LoseEntry(s) ==
  /\ s \in rows
  /\ rows' = rows \ {s}
  /\ UNCHANGED link

Init == rows \subseteq Seqs /\ link \in [Seqs -> Seqs \cup {0}]

Next ==
  \/ \E s \in Seqs, t \in Seqs \cup {0} : AppendEntry(s, t)
  \/ \E s \in Seqs : LoseEntry(s)

Spec == Init /\ [][Next]_<<rows, link>>
=============================================================================
