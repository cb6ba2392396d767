--------------------------- MODULE CapturedWrite ---------------------------
(***************************************************************************)
(* What holding an agent's write for a person promises: a captured write   *)
(* waits until it is granted or refused, once; a refused one never runs;   *)
(* a granted one runs at most once ("after which the captured action       *)
(* executes once", lib/agents/approvals/store.ts:4-5).                     *)
(***************************************************************************)
EXTENDS Naturals

CONSTANT Writes

VARIABLES
  decision,   \* [Writes -> {"none", "waiting", "refused", "granted"}]
  runs        \* [Writes -> times the write reached the other side]

Init ==
  /\ decision = [w \in Writes |-> "none"]
  /\ runs     = [w \in Writes |-> 0]

Capture(w) ==
  /\ decision[w] = "none"
  /\ decision' = [decision EXCEPT ![w] = "waiting"]
  /\ UNCHANGED runs

Decide(w, d) ==
  /\ decision[w] = "waiting"
  /\ decision' = [decision EXCEPT ![w] = d]
  /\ UNCHANGED runs

Run(w) ==
  /\ decision[w] = "granted"
  /\ runs[w] = 0
  /\ runs' = [runs EXCEPT ![w] = 1]
  /\ UNCHANGED decision

Next ==
  \E w \in Writes :
    Capture(w) \/ Run(w) \/ \E d \in {"refused", "granted"} : Decide(w, d)

Spec == Init /\ [][Next]_<<decision, runs>>

(* What the promise comes to: a write runs at most once, and only granted. *)
RunsOnceIfGranted ==
  \A w \in Writes : runs[w] \in {0, 1} /\ (runs[w] = 1 => decision[w] = "granted")
=============================================================================
