---------------------------- MODULE OfflineQueue ----------------------------
(***************************************************************************)
(* The offline mutation queue of the browser: lib/offline-queue.ts, the    *)
(* wrappers that post inline and fall back to the queue                    *)
(* (lib/discussions-offline.ts and its kin), and the hook that flushes it  *)
(* when the connection returns (lib/hooks/useOfflineQueue.ts).             *)
(*                                                                         *)
(* The store is IndexedDB, shared by the tabs of the browser.  Each mount  *)
(* of the hook is a flusher; its only lock is a ref of its own.  A flush   *)
(* works on the copies it listed, awaits the server and the store between  *)
(* its statements, and puts back whole copies.  The degraded queue in      *)
(* memory is left out: IndexedDB is there, and its reads and puts succeed. *)
(***************************************************************************)
EXTENDS Naturals, FiniteSets

CONSTANTS
  MaxEntries,   \* bound: mutations made by the person
  Flushers,     \* mounts of useOfflineQueue, in one tab or several
  MaxAttempts,  \* MAX_ATTEMPTS
  MaxDoubt      \* bound: events per mutation that may send it twice

ASSUME QueueAssumption ==
  /\ MaxEntries \in Nat
  /\ IsFiniteSet(Flushers)
  /\ MaxAttempts \in Nat \ {0}
  /\ MaxDoubt \in Nat

Entries == 1 .. MaxEntries   \* in the order of enqueued_at

VARIABLES
  online,    \* navigator.onLine
  issued,    \* mutations made so far
  status,    \* of the stored entry, "absent" when there is none
  attempts,  \* of the stored entry
  pc,        \* where a flush is
  left,      \* the entries a flush has still to work through, in the order they
             \* were made; it is at the first
  copy,      \* the attempts on its copies
  \* history
  queued,    \* entries that went to the queue
  replayed,  \* entries the server accepted from a flush
  gaveUp,    \* entries a flush marked failed
  arrived,   \* times the server accepted the mutation
  doubt      \* times it may have been made to arrive once more: an answer was
             \* lost, the entry outlived its success, or a second flush took it up

flush   == <<pc, left, copy>>
history == <<queued, replayed, gaveUp, arrived, doubt>>
vars    == <<online, issued, status, attempts, flush, history>>

Counts == 0 .. MaxAttempts

TypeOK ==
  /\ online \in BOOLEAN
  /\ issued \in 0 .. MaxEntries
  /\ status \in [Entries -> {"absent", "pending", "failed"}]
  /\ attempts \in [Entries -> Counts]
  /\ pc \in [Flushers -> {"idle", "woken", "send", "put", "reject", "delete", "fail"}]
  /\ left \in [Flushers -> SUBSET Entries]
  /\ copy \in [Flushers -> [Entries -> Counts]]
  /\ queued \subseteq Entries
  /\ replayed \subseteq Entries
  /\ gaveUp \subseteq Entries
  /\ arrived \in [Entries -> Nat]
  /\ doubt \in [Entries -> Nat]

Init ==
  /\ online \in BOOLEAN
  /\ issued = 0
  /\ status = [e \in Entries |-> "absent"]
  /\ attempts = [e \in Entries |-> 0]
  /\ pc = [f \in Flushers |-> "idle"]
  /\ left = [f \in Flushers |-> {}]
  /\ copy = [f \in Flushers |-> [e \in Entries |-> 0]]
  /\ queued = {}
  /\ replayed = {}
  /\ gaveUp = {}
  /\ arrived = [e \in Entries |-> 0]
  /\ doubt = [e \in Entries |-> 0]

-----------------------------------------------------------------------------
\* Mutated form of InHand: the entries are taken in the opposite order.
InHandBackwards(f, e) == e \in left[f] /\ \A d \in left[f] : d <= e

\* The entry a flush is at.
InHand(f, e) == e \in left[f] /\ \A d \in left[f] : e <= d

\* It was accepted and seen to be, and is still in the store.
Delivered(f, e) == pc[f] = "delete" /\ InHand(f, e)

Bump(c, e)  == [c EXCEPT ![e] = @ + 1]
MayDoubt(e) == doubt[e] < MaxDoubt

-----------------------------------------------------------------------------
(* The person and the network.                                             *)

\* send...Offline: online, the mutation is posted; any outcome but a success
\* that is seen sends it to the queue, whether or not the server acted on it.  Its
\* enqueued_at is taken before the entry is added; here that is one step, so that two
\* tabs that add in the same moment do not swap.
Submit ==
  /\ issued < MaxEntries
  /\ issued' = issued + 1
  /\ LET e == issued + 1
         Queue == /\ status' = [status EXCEPT ![e] = "pending"]
                  /\ queued' = queued \cup {e}
     IN  \/ /\ online
            /\ arrived' = Bump(arrived, e)
            /\ UNCHANGED <<status, queued, doubt>>
         \/ /\ online
            /\ MayDoubt(e)
            /\ arrived' = Bump(arrived, e)
            /\ doubt' = Bump(doubt, e)
            /\ Queue
         \/ Queue /\ UNCHANGED <<arrived, doubt>>
  /\ UNCHANGED <<online, attempts, flush, replayed, gaveUp>>

Disconnect ==
  /\ online
  /\ online' = FALSE
  /\ UNCHANGED <<issued, status, attempts, flush, history>>

\* The `online` event, heard by the mounts there are.  One that is flushing
\* lets it pass.
Reconnect(Mounted) ==
  /\ ~online
  /\ online' = TRUE
  /\ pc' = [f \in Flushers |-> IF f \in Mounted /\ pc[f] = "idle" THEN "woken" ELSE pc[f]]
  /\ UNCHANGED <<issued, status, attempts, left, copy, history>>

-----------------------------------------------------------------------------
(* A flush.                                                                *)

\* Mutated form of Pending: the filter on status is dropped.
Stored == {e \in Entries : status[e] # "absent"}

\* What listQueue gives and the filter leaves.
Pending == {e \in Entries : status[e] = "pending"}

\* flush of the hook, listQueue and the filter of flushQueue.
Begin(f) ==
  /\ pc[f] = "woken"
  /\ LET shared == {e \in Pending : \E g \in Flushers : e \in left[g]}
     IN  /\ \A e \in shared : MayDoubt(e)
         /\ doubt' = [e \in Entries |-> IF e \in shared THEN doubt[e] + 1 ELSE doubt[e]]
  /\ left' = [left EXCEPT ![f] = Pending]
  /\ copy' = [copy EXCEPT ![f] = attempts]
  /\ pc' = [pc EXCEPT ![f] = IF Pending = {} THEN "idle" ELSE "send"]
  /\ UNCHANGED <<online, issued, status, attempts, queued, replayed, gaveUp, arrived>>

Tried(f, e, next) ==
  /\ pc' = [pc EXCEPT ![f] = next]
  /\ copy' = [copy EXCEPT ![f][e] = @ + 1]
  /\ UNCHANGED <<online, issued, status, attempts, left, queued, gaveUp>>

\* Mutated form of CanSend: one attempt too many.
CanSendOnceMore(f, e) == pc[f] = "send" /\ InHand(f, e) /\ copy[f][e] <= MaxAttempts

CanSend(f, e) == pc[f] = "send" /\ InHand(f, e) /\ copy[f][e] < MaxAttempts

\* replayOne, the server accepts and the answer is seen.
SendAccepted(f, e) ==
  /\ CanSend(f, e)
  /\ arrived' = Bump(arrived, e)
  /\ replayed' = replayed \cup {e}
  /\ Tried(f, e, "delete")
  /\ UNCHANGED doubt

\* replayOne, the server accepts and the answer is lost, or is an error.
SendLostAnswer(f, e) ==
  /\ CanSend(f, e)
  /\ MayDoubt(e)
  /\ arrived' = Bump(arrived, e)
  /\ replayed' = replayed \cup {e}
  /\ doubt' = Bump(doubt, e)
  /\ Tried(f, e, "put")

\* replayOne, nothing done: no connection, a 5xx, a 401; or another 4xx.
SendFailed(f, e) ==
  /\ CanSend(f, e)
  /\ \E next \in {"put", "reject"} : Tried(f, e, next)
  /\ UNCHANGED <<replayed, arrived, doubt>>

PutBack(f, e, s) ==
  /\ status' = [status EXCEPT ![e] = s]
  /\ attempts' = [attempts EXCEPT ![e] = copy[f][e]]

\* updateEntry in the loop, then the backoff.  A put writes the entry also when
\* another flush has deleted it.
Put(f, e) ==
  /\ pc[f] \in {"put", "reject"} /\ InHand(f, e)
  /\ PutBack(f, e, "pending")
  /\ pc' = [pc EXCEPT ![f] =
       IF pc[f] = "put" /\ copy[f][e] < MaxAttempts THEN "send" ELSE "fail"]
  /\ UNCHANGED <<online, issued, left, copy, history>>

\* On to the next entry of the list.
NextEntry(f, e) ==
  /\ left' = [left EXCEPT ![f] = @ \ {e}]
  /\ pc' = [pc EXCEPT ![f] = IF left[f] = {e} THEN "idle" ELSE "send"]
  /\ UNCHANGED <<online, issued, copy>>

\* Mutated form of Delete: a replayed entry stays in the store.
DeleteForgotten(f, e) ==
  /\ Delivered(f, e)
  /\ NextEntry(f, e)
  /\ UNCHANGED <<status, attempts, history>>

Delete(f, e) ==
  /\ Delivered(f, e)
  /\ status' = [status EXCEPT ![e] = "absent"]
  /\ attempts' = [attempts EXCEPT ![e] = 0]
  /\ NextEntry(f, e)
  /\ UNCHANGED history

\* deleteEntry, the error caught and ignored.
DeleteLost(f, e) ==
  /\ Delivered(f, e)
  /\ MayDoubt(e)
  /\ doubt' = Bump(doubt, e)
  /\ NextEntry(f, e)
  /\ UNCHANGED <<status, attempts, queued, replayed, gaveUp, arrived>>

\* Mutated form of Fail: an entry without attempts left is dropped.
FailDrops(f, e) ==
  /\ InHand(f, e)
  /\ \/ pc[f] = "fail"
     \/ pc[f] = "send" /\ copy[f][e] >= MaxAttempts
  /\ status' = [status EXCEPT ![e] = "absent"]
  /\ gaveUp' = gaveUp \cup {e}
  /\ NextEntry(f, e)
  /\ UNCHANGED <<attempts, queued, replayed, arrived, doubt>>

\* Mutated form of Fail: the status is not set.
FailStaysPending(f, e) ==
  /\ InHand(f, e)
  /\ \/ pc[f] = "fail"
     \/ pc[f] = "send" /\ copy[f][e] >= MaxAttempts
  /\ PutBack(f, e, "pending")
  /\ gaveUp' = gaveUp \cup {e}
  /\ NextEntry(f, e)
  /\ UNCHANGED <<queued, replayed, arrived, doubt>>

\* The entry is marked failed: after the last attempt, on a terminal answer, or
\* because it was listed with no attempt left.
Fail(f, e) ==
  /\ InHand(f, e)
  /\ \/ pc[f] = "fail"
     \/ pc[f] = "send" /\ copy[f][e] >= MaxAttempts
  /\ PutBack(f, e, "failed")
  /\ gaveUp' = gaveUp \cup {e}
  /\ NextEntry(f, e)
  /\ UNCHANGED <<queued, replayed, arrived, doubt>>

\* The tab is closed or crashes.
TabCloses(f) ==
  /\ pc[f] # "idle"
  /\ \A e \in Entries : Delivered(f, e) => MayDoubt(e)
  /\ doubt' = [e \in Entries |-> IF Delivered(f, e) THEN doubt[e] + 1 ELSE doubt[e]]
  /\ pc' = [pc EXCEPT ![f] = "idle"]
  /\ left' = [left EXCEPT ![f] = {}]
  /\ UNCHANGED <<online, issued, status, attempts, copy, queued, replayed, gaveUp, arrived>>

-----------------------------------------------------------------------------
Next ==
  \/ Submit
  \/ Disconnect
  \/ \E Mounted \in SUBSET Flushers : Reconnect(Mounted)
  \/ \E f \in Flushers : Begin(f) \/ TabCloses(f)
  \/ \E f \in Flushers, e \in Entries :
       \/ SendAccepted(f, e) \/ SendLostAnswer(f, e) \/ SendFailed(f, e)
       \/ Put(f, e) \/ Delete(f, e) \/ DeleteLost(f, e) \/ Fail(f, e)

Spec == Init /\ [][Next]_vars

\* A browser runs what is awaited.  Neither the network nor the person owes
\* anything.
FlushStep(f) ==
  \/ Begin(f)
  \/ \E e \in Entries : \/ SendAccepted(f, e) \/ SendLostAnswer(f, e) \/ SendFailed(f, e)
                        \/ Put(f, e) \/ Delete(f, e) \/ Fail(f, e)

Fairness == \A f \in Flushers : WF_vars(FlushStep(f))

FairSpec == Spec /\ Fairness

-----------------------------------------------------------------------------
(* Properties.                                                             *)

\* Nothing that went to the queue is lost: until the server has accepted it, it
\* is in the store, pending or failed, whatever tabs close and flushes overlap.
NothingLost == \A e \in queued : status[e] # "absent" \/ e \in replayed

\* A mutation arrives more than once only as often as there was an occasion: an
\* answer that was lost, an entry that outlived its success, or a second flush
\* that listed it while another had it in hand.
DuplicatesExplained == \A e \in Entries : arrived[e] <= 1 + doubt[e]

\* FIFO, as flushQueue's comment has it: of two queued mutations the later is
\* accepted first only if some flush gave the earlier one up.
FifoUnlessGivenUp ==
  \A e \in replayed : \A d \in queued : d < e => d \in replayed \cup gaveUp

\* The flushes that have an entry on their list.
Listers(e) == {f \in Flushers : e \in left[f]}

\* What rests in the store, waiting or reported as failed, has arrived no more often
\* than there was a doubt of it: without one, the person who reads that a mutation
\* has failed, and makes it again, does not make it twice.
StoredMeansNotArrived ==
  \A e \in Entries : status[e] # "absent" /\ Listers(e) = {} => arrived[e] <= doubt[e]

\* What has left the queue, or was marked failed in it, is taken up by no further
\* flush, and changes again only while a flush has it that listed it before.
SettledOnlyByListers ==
  [][\A e \in queued : status[e] # "pending" =>
       /\ Listers(e)' \subseteq Listers(e)
       /\ Listers(e) = {} => status'[e] = status[e] /\ arrived'[e] = arrived[e]]_vars

\* Under one flusher nothing that is settled changes again: no entry comes back to
\* the store, none is retried after it failed, none is accepted once more.
SettledForGood ==
  [][\A e \in queued : status[e] # "pending" =>
       status'[e] = status[e] /\ arrived'[e] = arrived[e]]_vars

\* When some mount keeps being woken and flushes are in the end left to finish, the
\* queue drains: every entry is accepted or marked failed, and stays so, although
\* two flushes may write the same entry back as pending after each other.
Interrupted == \E f \in Flushers : TabCloses(f) /\ ~FlushStep(f)

DrainsIfWoken ==
  (<>[][~Interrupted]_vars /\ \E f \in Flushers : []<>(pc[f] = "woken")) =>
    \A e \in Entries : <>[](status[e] # "pending")
=============================================================================
