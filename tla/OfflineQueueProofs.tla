------------------------- MODULE OfflineQueueProofs -------------------------
(***************************************************************************)
(* What holds of OfflineQueue for any number of mutations, of overlapping  *)
(* flushes and of faults: nothing is lost, a duplicate has its occasion,   *)
(* order is kept but for what was given up, what rests in the store has    *)
(* not arrived, and what has settled is not taken up again.                *)
(***************************************************************************)
EXTENDS OfflineQueue, FiniteSetTheorems, TLAPS

(* The type invariant by what the operations write.                        *)
StoreTyped ==
  /\ online \in BOOLEAN /\ issued \in 0 .. MaxEntries
  /\ status \in [Entries -> {"absent", "pending", "failed"}]
  /\ attempts \in [Entries -> Counts]

FlushTyped ==
  /\ pc \in [Flushers -> {"idle", "woken", "send", "put", "reject", "delete", "fail"}]
  /\ left \in [Flushers -> SUBSET Entries]
  /\ copy \in [Flushers -> [Entries -> Counts]]

HistoryTyped ==
  /\ queued \subseteq Entries /\ replayed \subseteq Entries /\ gaveUp \subseteq Entries
  /\ arrived \in [Entries -> Nat] /\ doubt \in [Entries -> Nat]

Typed == StoreTyped /\ FlushTyped /\ HistoryTyped

(* Entries are queued in the order they are made, and only what is queued  *)
(* is stored or listed.                                                    *)
Known ==
  /\ replayed \subseteq queued /\ \A e \in queued : e <= issued
  /\ \A e \in Entries : status[e] # "absent" => e \in queued
  /\ \A e \in Entries : e > issued => arrived[e] = 0
  /\ \A f \in Flushers : left[f] \subseteq queued
  /\ \A f \in Flushers : pc[f] \in {"idle", "woken"} => left[f] = {}

(* What has become of an entry that is not pending.                        *)
Settled ==
  /\ \A e \in queued : status[e] # "absent" \/ e \in replayed
  /\ \A e \in Entries : status[e] = "failed" => e \in gaveUp
  /\ \A f \in Flushers, e \in Entries : Delivered(f, e) => e \in replayed

(* A flush has before it every queued entry that is earlier than one it    *)
(* has before it, unless that one was accepted or given up.                *)
Ordered ==
  /\ \A f \in Flushers : \A e \in left[f] : \A d \in queued :
       d < e => d \in left[f] \cup replayed \cup gaveUp
  /\ \A e \in replayed : \A d \in queued : d < e => d \in replayed \cup gaveUp

(* Flushes that may still send an entry, and whether it is there for       *)
(* another, or for the person, to make it again.                           *)
Carriers(e) == {f \in Flushers : e \in left[f] /\ ~Delivered(f, e)}
Held(e)     == \E f \in Flushers : e \in left[f]
Waiting(e)  == IF status[e] # "absent" /\ ~Held(e) THEN 1 ELSE 0

(* Arrivals, and those that may still come, are paid for in advance.       *)
PaidFor(e) == arrived[e] + Cardinality(Carriers(e)) + Waiting(e) <= 1 + doubt[e]
Paid       == \A e \in Entries : PaidFor(e)

Inv == Typed /\ Known /\ Settled /\ Ordered /\ Paid

LEMMA InvTypes == Inv => TypeOK
  BY DEF Inv, Typed, StoreTyped, FlushTyped, HistoryTyped, TypeOK

LEMMA EntriesAreNumbers == Entries \subseteq Nat \ {0}
  BY QueueAssumption DEF Entries

(* What a flush has in hand is one entry.                                  *)
LEMMA InHandUnique ==
  ASSUME Typed, NEW f \in Flushers, NEW e \in Entries, NEW d \in Entries,
         InHand(f, e), InHand(f, d)
  PROVE  d = e
  BY EntriesAreNumbers DEF InHand

LEMMA CarrierCount ==
  ASSUME NEW S \in SUBSET Flushers, NEW f \in Flushers
  PROVE  /\ Cardinality(S) \in Nat
         /\ f \notin S => Cardinality(S \cup {f}) = Cardinality(S) + 1
         /\ f \in S => Cardinality(S \ {f}) = Cardinality(S) - 1
  <1>1. IsFiniteSet(S)
    BY QueueAssumption, FS_Subset
  <1>2. QED
    BY <1>1, FS_CardinalityType, FS_AddElement, FS_RemoveElement

LEMMA InitInv == Init => Inv
  <1> SUFFICES ASSUME Init PROVE Inv
    OBVIOUS
  <1> USE QueueAssumption DEF Init
  <1>1. Typed
    BY DEF Typed, StoreTyped, FlushTyped, HistoryTyped, Counts
  <1>2. Known /\ Settled /\ Ordered
    BY DEF Known, Settled, Ordered, Delivered, InHand
  <1>3. Paid
    <2>1. \A e \in Entries : Carriers(e) = {} /\ Waiting(e) = 0
      BY DEF Carriers, Waiting
    <2>2. QED
      BY <2>1, FS_EmptySet DEF Paid, PaidFor
  <1>4. QED
    BY <1>1, <1>2, <1>3 DEF Inv

-----------------------------------------------------------------------------
(* The shapes of a flush's steps.                                          *)

Sends(f, e) == SendAccepted(f, e) \/ SendLostAnswer(f, e) \/ SendFailed(f, e)
Ends(f, e)  == Delete(f, e) \/ DeleteLost(f, e) \/ Fail(f, e)

LEMMA StepCases ==
  ASSUME [Next]_vars
  PROVE  \/ Submit
         \/ UNCHANGED vars \/ Disconnect
         \/ \E Mounted \in SUBSET Flushers : Reconnect(Mounted)
         \/ \E f \in Flushers : Begin(f) \/ TabCloses(f)
         \/ \E f \in Flushers, e \in Entries : Sends(f, e) \/ Put(f, e) \/ Ends(f, e)
  BY DEF Next, Sends, Ends

(* A step at the entry in hand that leaves it there changes only how that  *)
(* entry stands.                                                           *)
LEMMA StayKeepsOthers ==
  ASSUME Typed, NEW f \in Flushers, NEW e \in Entries, InHand(f, e), UNCHANGED left,
         NEW next, pc' = [pc EXCEPT ![f] = next]
  PROVE  /\ \A g \in Flushers, d \in Entries : InHand(g, d)' = InHand(g, d)
         /\ \A g \in Flushers, d \in Entries :
              <<g, d>> # <<f, e>> => Delivered(g, d)' = Delivered(g, d)
         /\ Delivered(f, e)' = (next = "delete")
         /\ Delivered(f, e) = (pc[f] = "delete")
         /\ \A d \in Entries : Held(d)' = Held(d)
  <1>1. \A g \in Flushers, d \in Entries : InHand(g, d)' = InHand(g, d)
    BY DEF InHand
  <1>2. pc'[f] = next /\ \A g \in Flushers \ {f} : pc'[g] = pc[g]
    BY DEF Typed, FlushTyped
  <1>3. \A d \in Entries \ {e} : ~InHand(f, d)
    BY InHandUnique
  <1>4. \A d \in Entries : Held(d)' = Held(d)
    BY DEF Held
  <1>5. ASSUME NEW g \in Flushers, NEW d \in Entries, <<g, d>> # <<f, e>>
        PROVE  Delivered(g, d)' = Delivered(g, d)
    <2>1. CASE g = f
      <3>1. ~InHand(g, d) /\ ~InHand(g, d)'
        BY <1>1, <1>3, <1>5, <2>1
      <3>2. QED
        BY <3>1 DEF Delivered
    <2>2. CASE g # f
      BY <1>1, <1>2, <2>2 DEF Delivered
    <2>3. QED
      BY <2>1, <2>2
  <1>6. QED
    BY <1>1, <1>2, <1>4, <1>5 DEF Delivered

(* On to the next entry: the flush is rid of the one it had in hand.       *)
LEMMA NextKeepsOthers ==
  ASSUME Typed, NEW f \in Flushers, NEW e \in Entries, InHand(f, e), NextEntry(f, e)
  PROVE  /\ left' \in [Flushers -> SUBSET Entries]
         /\ left'[f] = left[f] \ {e} /\ \A g \in Flushers \ {f} : left'[g] = left[g]
         /\ \A d \in Entries : ~Delivered(f, d)'
         /\ \A d \in Entries \ {e} : ~Delivered(f, d)
         /\ \A g \in Flushers \ {f}, d \in Entries : Delivered(g, d)' = Delivered(g, d)
         /\ \A d \in Entries \ {e} : Held(d)' = Held(d) /\ Carriers(d)' = Carriers(d)
         /\ Carriers(e)' = Carriers(e) \ {f}
  <1>1. /\ left' \in [Flushers -> SUBSET Entries]
        /\ left'[f] = left[f] \ {e} /\ \A g \in Flushers \ {f} : left'[g] = left[g]
    BY DEF NextEntry, Typed, FlushTyped
  <1>2. pc'[f] # "delete" /\ \A g \in Flushers \ {f} : pc'[g] = pc[g]
    BY DEF NextEntry, Typed, FlushTyped
  <1>3. \A d \in Entries : ~Delivered(f, d)'
    BY <1>2 DEF Delivered
  <1>4. \A d \in Entries \ {e} : ~Delivered(f, d)
    BY InHandUnique DEF Delivered
  <1>5. \A g \in Flushers \ {f}, d \in Entries : Delivered(g, d)' = Delivered(g, d)
    BY <1>1, <1>2 DEF Delivered, InHand
  <1>6. \A d \in Entries \ {e} : Held(d)' = Held(d)
    BY <1>1 DEF Held
  <1>7. \A d \in Entries \ {e} : Carriers(d)' = Carriers(d)
    BY <1>1, <1>3, <1>4, <1>5 DEF Carriers
  <1>8. Carriers(e)' = Carriers(e) \ {f}
    BY <1>1, <1>5 DEF Carriers
  <1>9. QED
    BY <1>1, <1>3, <1>4, <1>5, <1>6, <1>7, <1>8

-----------------------------------------------------------------------------
(* Types and what is known of an entry.                                    *)

LEMMA StepTyped == Typed /\ [Next]_vars => Typed'
  <1> SUFFICES ASSUME Typed, [Next]_vars PROVE Typed'
    OBVIOUS
  <1> USE QueueAssumption DEF Typed, Counts
  <1>1. CASE Submit
    <2>1. issued + 1 \in Entries
      BY <1>1 DEF Submit, StoreTyped, Entries
    <2>2. QED
      BY <1>1, <2>1 DEF Submit, StoreTyped, FlushTyped, HistoryTyped, Bump, flush
  <1>2. CASE UNCHANGED vars \/ Disconnect
    BY <1>2 DEF Disconnect, StoreTyped, FlushTyped, HistoryTyped, vars, flush, history
  <1>3. ASSUME NEW Mounted \in SUBSET Flushers, Reconnect(Mounted) PROVE Typed'
    BY <1>3 DEF Reconnect, StoreTyped, FlushTyped, HistoryTyped, history
  <1>4. ASSUME NEW f \in Flushers, Begin(f) \/ TabCloses(f) PROVE Typed'
    <2>1. Pending \subseteq Entries
      BY DEF Pending
    <2>2. StoreTyped'
      BY <1>4 DEF Begin, TabCloses, StoreTyped
    <2>3. HistoryTyped'
      BY <1>4 DEF Begin, TabCloses, HistoryTyped
    <2>4. FlushTyped'
      <3>1. CASE Begin(f)
        <4>1. pc' \in [Flushers -> {"idle", "woken", "send", "put", "reject", "delete", "fail"}]
          BY <3>1 DEF Begin, FlushTyped
        <4>2. left' \in [Flushers -> SUBSET Entries]
          BY <3>1, <2>1 DEF Begin, FlushTyped
        <4>3. copy' \in [Flushers -> [Entries -> Counts]]
          BY <3>1, Zenon DEF Begin, FlushTyped, StoreTyped
        <4>4. QED
          BY <4>1, <4>2, <4>3 DEF FlushTyped
      <3>2. CASE TabCloses(f)
        BY <3>2 DEF TabCloses, FlushTyped
      <3>3. QED
        BY <1>4, <3>1, <3>2
    <2>5. QED
      BY <2>2, <2>3, <2>4
  <1>5. ASSUME NEW f \in Flushers, NEW e \in Entries, Sends(f, e) PROVE Typed'
    <2>1. copy[f] \in [Entries -> Counts] /\ copy[f][e] < MaxAttempts /\ copy[f][e] \in Counts
      BY <1>5 DEF Sends, SendAccepted, SendLostAnswer, SendFailed, CanSend, FlushTyped
    <2>2. PICK next \in {"delete", "put", "reject"} : Tried(f, e, next)
      BY <1>5 DEF Sends, SendAccepted, SendLostAnswer, SendFailed
    <2>3. [copy[f] EXCEPT ![e] = @ + 1] \in [Entries -> Counts]
      BY <2>1
    <2>4. FlushTyped'
      BY <2>2, <2>3 DEF Tried, FlushTyped
    <2>5. StoreTyped' /\ HistoryTyped'
      BY <1>5, <2>2 DEF Tried, StoreTyped, HistoryTyped, Bump, Sends, SendAccepted,
                        SendLostAnswer, SendFailed
    <2>6. QED
      BY <2>4, <2>5
  <1>6. ASSUME NEW f \in Flushers, NEW e \in Entries, Put(f, e) PROVE Typed'
    BY <1>6 DEF Put, PutBack, StoreTyped, FlushTyped, HistoryTyped, history
  <1>7. ASSUME NEW f \in Flushers, NEW e \in Entries, Ends(f, e) PROVE Typed'
    <2>1. NextEntry(f, e)
      BY <1>7 DEF Ends, Delete, DeleteLost, Fail
    <2>2. FlushTyped'
      BY <2>1 DEF NextEntry, FlushTyped
    <2>3. StoreTyped' /\ HistoryTyped'
      <3>1. CASE Delete(f, e)
        BY <3>1 DEF Delete, NextEntry, StoreTyped, HistoryTyped, history
      <3>2. CASE DeleteLost(f, e)
        BY <3>2 DEF DeleteLost, NextEntry, Bump, StoreTyped, HistoryTyped
      <3>3. CASE Fail(f, e)
        <4>1. copy[f][e] \in Counts
          BY DEF FlushTyped
        <4>2. QED
          BY <3>3, <4>1 DEF Fail, NextEntry, PutBack, StoreTyped, HistoryTyped
      <3>4. QED
        BY <1>7, <3>1, <3>2, <3>3 DEF Ends
    <2>4. QED
      BY <2>2, <2>3
  <1>8. QED
    BY <1>1, <1>2, <1>3, <1>4, <1>5, <1>6, <1>7, StepCases

LEMMA StepKnown == Typed /\ Known /\ [Next]_vars => Known'
  <1> SUFFICES ASSUME Typed, Known, [Next]_vars PROVE Known'
    OBVIOUS
  <1> USE QueueAssumption DEF Known
  <1>1. CASE Submit
    <2>1. issued' = issued + 1 /\ UNCHANGED <<left, pc, replayed>> /\ queued \subseteq queued'
      BY <1>1 DEF Submit, flush
    <2>2. issued \in Nat /\ \A e \in Entries : e \in Nat
      BY EntriesAreNumbers DEF Typed, StoreTyped
    <2>3. \A e \in Entries : e # issued + 1 => arrived'[e] = arrived[e] /\ status'[e] = status[e]
      BY <1>1 DEF Submit, Bump, Typed, StoreTyped, HistoryTyped
    <2>4. \A e \in queued' : e <= issued'
      BY <1>1, <2>1, <2>2 DEF Submit, Typed, HistoryTyped
    <2>5. \A e \in Entries : e > issued' => arrived'[e] = 0
      BY <2>1, <2>2, <2>3
    <2>6. status' = status \/ issued + 1 \in queued'
      BY <1>1 DEF Submit
    <2>7. \A e \in Entries : status'[e] # "absent" => e \in queued'
      BY <2>1, <2>3, <2>6
    <2>8. QED
      BY <2>1, <2>4, <2>5, <2>7
  <1>2. CASE UNCHANGED vars \/ Disconnect
    BY <1>2 DEF Disconnect, vars, flush, history
  <1>3. ASSUME NEW Mounted \in SUBSET Flushers, Reconnect(Mounted) PROVE Known'
    BY <1>3 DEF Reconnect, history, Typed, FlushTyped
  <1>4. ASSUME NEW f \in Flushers, Begin(f) \/ TabCloses(f) PROVE Known'
    <2>1. UNCHANGED <<issued, status, queued, replayed, arrived>>
      BY <1>4 DEF Begin, TabCloses
    <2>2. Pending \subseteq queued
      BY DEF Pending
    <2>3. \A g \in Flushers : left'[g] \subseteq queued
      BY <1>4, <2>2 DEF Begin, TabCloses, Typed, FlushTyped
    <2>4. \A g \in Flushers : pc'[g] \in {"idle", "woken"} => left'[g] = {}
      BY <1>4 DEF Begin, TabCloses, Typed, FlushTyped
    <2>5. QED
      BY <2>1, <2>3, <2>4
  <1>5. ASSUME NEW f \in Flushers, NEW e \in Entries, Sends(f, e) PROVE Known'
    <2>1. e <= issued
      BY <1>5 DEF Sends, SendAccepted, SendLostAnswer, SendFailed, CanSend, InHand
    <2>2. PICK next \in {"delete", "put", "reject"} : Tried(f, e, next)
      BY <1>5 DEF Sends, SendAccepted, SendLostAnswer, SendFailed
    <2>3. \A d \in Entries \ {e} : arrived'[d] = arrived[d]
      BY <1>5 DEF Sends, SendAccepted, SendLostAnswer, SendFailed, Bump, Typed, HistoryTyped
    <2>4. e \in Nat /\ issued \in Nat
      BY EntriesAreNumbers DEF Typed, StoreTyped
    <2>5. \A d \in Entries : d > issued => arrived'[d] = 0
      BY <2>1, <2>3, <2>4
    <2>6. replayed' \subseteq queued
      BY <1>5 DEF Sends, SendAccepted, SendLostAnswer, SendFailed, CanSend, InHand
    <2>7. QED
      BY <2>2, <2>5, <2>6 DEF Tried, Typed, FlushTyped
  <1>6. ASSUME NEW f \in Flushers, NEW e \in Entries, Put(f, e) PROVE Known'
    BY <1>6 DEF Put, PutBack, InHand, history, Typed, StoreTyped, FlushTyped
  <1>7. ASSUME NEW f \in Flushers, NEW e \in Entries, Ends(f, e) PROVE Known'
    <2>1. InHand(f, e) /\ NextEntry(f, e)
      BY <1>7 DEF Ends, Delete, DeleteLost, Fail, Delivered
    <2>2. UNCHANGED <<queued, replayed, arrived, issued>>
      BY <1>7 DEF Ends, Delete, DeleteLost, Fail, NextEntry, history
    <2>3. \A d \in Entries : status'[d] # "absent" => d \in queued
      BY <1>7, <2>1 DEF Ends, Delete, DeleteLost, Fail, PutBack, InHand, history, Typed, StoreTyped
    <2>4. \A g \in Flushers : left'[g] \subseteq queued
      BY <2>1, NextKeepsOthers
    <2>5. \A g \in Flushers : pc'[g] \in {"idle", "woken"} => left'[g] = {}
      BY <2>1 DEF NextEntry, Typed, FlushTyped
    <2>6. QED
      BY <2>2, <2>3, <2>4, <2>5
  <1>8. QED
    BY <1>1, <1>2, <1>3, <1>4, <1>5, <1>6, <1>7, StepCases

-----------------------------------------------------------------------------
(* What becomes of an entry, and in which order.                           *)

(* Only the answer of a send makes an entry delivered.                     *)
LEMMA DeliveredBy ==
  ASSUME Typed, Known, [Next]_vars, NEW f \in Flushers, NEW e \in Entries, Delivered(f, e)'
  PROVE  Delivered(f, e) \/ e \in replayed'
  <1> USE DEF Delivered
  <1>1. CASE Submit \/ UNCHANGED vars \/ Disconnect
    BY <1>1 DEF Submit, Disconnect, vars, flush, InHand
  <1>2. ASSUME NEW Mounted \in SUBSET Flushers, Reconnect(Mounted)
        PROVE  Delivered(f, e)
    BY <1>2 DEF Reconnect, InHand
  <1>3. ASSUME NEW g \in Flushers, Begin(g) \/ TabCloses(g) PROVE Delivered(f, e)
    BY <1>3 DEF Begin, TabCloses, InHand, Typed, FlushTyped
  <1>4. ASSUME NEW g \in Flushers, NEW d \in Entries, Sends(g, d)
        PROVE  Delivered(f, e) \/ e \in replayed'
    <2>1. PICK next \in {"delete", "put", "reject"} :
            Tried(g, d, next) /\ (next = "delete" => d \in replayed')
      BY <1>4 DEF Sends, SendAccepted, SendLostAnswer, SendFailed
    <2>2. InHand(g, d) /\ UNCHANGED left /\ pc' = [pc EXCEPT ![g] = next]
      BY <1>4, <2>1 DEF Sends, SendAccepted, SendLostAnswer, SendFailed, CanSend, Tried
    <2>3. QED
      BY <2>1, <2>2, StayKeepsOthers
  <1>5. ASSUME NEW g \in Flushers, NEW d \in Entries, Put(g, d) PROVE Delivered(f, e)
    <2>1. PICK next \in {"send", "fail"} : pc' = [pc EXCEPT ![g] = next]
      BY <1>5 DEF Put
    <2>2. InHand(g, d) /\ UNCHANGED left
      BY <1>5 DEF Put
    <2>3. QED
      BY <2>1, <2>2, StayKeepsOthers
  <1>6. ASSUME NEW g \in Flushers, NEW d \in Entries, Ends(g, d) PROVE Delivered(f, e)
    <2>1. InHand(g, d) /\ NextEntry(g, d)
      BY <1>6 DEF Ends, Delete, DeleteLost, Fail
    <2>2. QED
      BY <2>1, NextKeepsOthers
  <1>7. QED
    BY <1>1, <1>2, <1>3, <1>4, <1>5, <1>6, StepCases

LEMMA HistoryGrows ==
  ASSUME [Next]_vars
  PROVE  replayed \subseteq replayed' /\ gaveUp \subseteq gaveUp'
  <1>1. ASSUME NEW f \in Flushers, NEW e \in Entries, Sends(f, e)
        PROVE  replayed \subseteq replayed' /\ gaveUp \subseteq gaveUp'
    BY <1>1 DEF Sends, SendAccepted, SendLostAnswer, SendFailed, Tried
  <1>2. ASSUME NEW f \in Flushers, NEW e \in Entries, Put(f, e) \/ Ends(f, e)
        PROVE  replayed \subseteq replayed' /\ gaveUp \subseteq gaveUp'
    BY <1>2 DEF Put, Ends, Delete, DeleteLost, Fail, history
  <1>3. QED
    BY <1>1, <1>2, StepCases DEF Submit, Disconnect, Reconnect, Begin, TabCloses, vars, history

LEMMA StepSettled == Typed /\ Known /\ Settled /\ [Next]_vars => Settled'
  <1> SUFFICES ASSUME Typed, Known, Settled, [Next]_vars PROVE Settled'
    OBVIOUS
  <1> DEFINE Fate(e) == \/ status'[e] = status[e] \/ status'[e] = "pending"
                        \/ status'[e] = "failed" /\ e \in gaveUp'
                        \/ status'[e] = "absent" /\ e \in replayed'
  <1>1. \A e \in Entries : Fate(e)
    <2>1. CASE Submit
      BY <2>1 DEF Submit, Typed, StoreTyped
    <2>2. ASSUME NEW f \in Flushers, NEW e \in Entries, Put(f, e) PROVE \A d \in Entries : Fate(d)
      BY <2>2 DEF Put, PutBack, Typed, StoreTyped
    <2>3. ASSUME NEW f \in Flushers, NEW e \in Entries, Ends(f, e) PROVE \A d \in Entries : Fate(d)
      BY <2>3 DEF Ends, Delete, DeleteLost, Fail, PutBack, Settled, history, Typed, StoreTyped
    <2>4. ASSUME NEW f \in Flushers, NEW e \in Entries, Sends(f, e) PROVE status' = status
      BY <2>4 DEF Sends, SendAccepted, SendLostAnswer, SendFailed, Tried
    <2>5. QED
      BY <2>1, <2>2, <2>3, <2>4, StepCases
         DEF Disconnect, Reconnect, Begin, TabCloses, vars
  <1>2. \A e \in queued' \ queued : status'[e] = "pending"
    <2>1. CASE Submit
      <3>1. issued + 1 \in Entries
        BY <2>1, QueueAssumption DEF Submit, Entries, Typed, StoreTyped
      <3>2. QED
        BY <2>1, <3>1 DEF Submit, Typed, StoreTyped
    <2>2. CASE ~Submit
      <3>1. ASSUME NEW f \in Flushers, NEW e \in Entries, Sends(f, e) \/ Put(f, e) \/ Ends(f, e)
            PROVE  queued' = queued
        BY <3>1 DEF Sends, SendAccepted, SendLostAnswer, SendFailed, Tried, Put, Ends, Delete,
                    DeleteLost, Fail, history
      <3>2. QED
        BY <2>2, <3>1, StepCases DEF Disconnect, Reconnect, Begin, TabCloses, vars, history
    <2>3. QED
      BY <2>1, <2>2
  <1>3. replayed \subseteq replayed' /\ gaveUp \subseteq gaveUp'
    BY HistoryGrows
  <1>4. \A e \in queued' : status'[e] # "absent" \/ e \in replayed'
    <2>1. queued \subseteq Entries
      BY DEF Typed, HistoryTyped
    <2>2. QED
      BY <1>1, <1>2, <1>3, <2>1 DEF Settled
  <1>5. \A e \in Entries : status'[e] = "failed" => e \in gaveUp'
    BY <1>1, <1>3 DEF Settled
  <1>6. \A f \in Flushers, e \in Entries : Delivered(f, e)' => e \in replayed'
    BY <1>3, DeliveredBy DEF Settled
  <1>7. QED
    BY <1>4, <1>5, <1>6 DEF Settled

LEMMA StepOrdered == Typed /\ Known /\ Settled /\ Ordered /\ [Next]_vars => Ordered'
  <1> SUFFICES ASSUME Typed, Known, Settled, Ordered, [Next]_vars PROVE Ordered'
    OBVIOUS
  <1>1. replayed \subseteq replayed' /\ gaveUp \subseteq gaveUp'
    BY HistoryGrows
  <1>2. ASSUME UNCHANGED <<left, queued, replayed>> PROVE Ordered'
    BY <1>1, <1>2 DEF Ordered
  <1>3. CASE Submit
    <2>1. UNCHANGED <<left, replayed, gaveUp>> /\ queued' \subseteq queued \cup {issued + 1}
      BY <1>3 DEF Submit, flush
    <2>2. ASSUME NEW e \in queued PROVE ~(issued + 1 < e)
      <3>1. e <= issued /\ e \in Nat /\ issued \in Nat
        BY <2>2, EntriesAreNumbers DEF Known, Typed, HistoryTyped, StoreTyped
      <3>2. QED
        BY <3>1
    <2>3. replayed \subseteq queued /\ \A f \in Flushers : left[f] \subseteq queued
      BY DEF Known
    <2>4. QED
      BY <2>1, <2>2, <2>3 DEF Ordered
  <1>4. ASSUME NEW f \in Flushers, Begin(f) \/ TabCloses(f) PROVE Ordered'
    <2>1. UNCHANGED <<queued, replayed, gaveUp>> /\ left'[f] \in {Pending, {}}
          /\ \A g \in Flushers \ {f} : left'[g] = left[g]
      BY <1>4 DEF Begin, TabCloses, Typed, FlushTyped
    <2>2. \A d \in queued : d \in Pending \cup replayed \cup gaveUp
      BY DEF Settled, Pending, Typed, StoreTyped, HistoryTyped
    <2>3. QED
      BY <2>1, <2>2 DEF Ordered
  <1>5. ASSUME NEW f \in Flushers, NEW e \in Entries, Sends(f, e) PROVE Ordered'
    <2>1. UNCHANGED <<left, queued>> /\ replayed' \subseteq replayed \cup {e} /\ InHand(f, e)
      BY <1>5 DEF Sends, SendAccepted, SendLostAnswer, SendFailed, Tried, CanSend
    <2>2. \A d \in queued : d < e => d \in replayed \cup gaveUp
      <3>1. ASSUME NEW d \in queued, d < e PROVE d \notin left[f]
        BY <2>1, <3>1, EntriesAreNumbers DEF InHand, Typed, HistoryTyped
      <3>2. QED
        BY <2>1, <3>1 DEF Ordered, InHand
    <2>3. QED
      BY <1>1, <2>1, <2>2 DEF Ordered
  <1>6. ASSUME NEW f \in Flushers, NEW e \in Entries, Put(f, e) PROVE Ordered'
    BY <1>2, <1>6 DEF Put, history
  <1>7. ASSUME NEW f \in Flushers, NEW e \in Entries, Ends(f, e) PROVE Ordered'
    <2>1. InHand(f, e) /\ NextEntry(f, e) /\ UNCHANGED <<queued, replayed>>
      BY <1>7 DEF Ends, Delete, DeleteLost, Fail, Delivered, history
    <2>2. e \in replayed' \cup gaveUp'
      BY <1>7 DEF Ends, Delete, DeleteLost, Fail, Settled, history
    <2>3. left'[f] = left[f] \ {e} /\ \A g \in Flushers \ {f} : left'[g] = left[g]
      BY <2>1, NextKeepsOthers
    <2>4. QED
      BY <1>1, <2>1, <2>2, <2>3 DEF Ordered
  <1>8. QED
    <2>1. Disconnect \/ UNCHANGED vars \/ (\E Mounted \in SUBSET Flushers : Reconnect(Mounted))
            => UNCHANGED <<left, queued, replayed>>
      BY DEF Disconnect, Reconnect, vars, flush, history
    <2>2. QED
      BY <1>2, <1>3, <1>4, <1>5, <1>6, <1>7, <2>1, StepCases

-----------------------------------------------------------------------------
(* Duplicates.                                                             *)

(* A flush more or less that may still send an entry.                      *)
LEMMA PaidByCount ==
  ASSUME Typed, Typed', NEW e \in Entries, PaidFor(e), NEW f \in Flushers,
         \/ Carriers(e)' = Carriers(e)
            /\ arrived'[e] + Waiting(e)' + doubt[e] <= arrived[e] + Waiting(e) + doubt'[e]
         \/ f \notin Carriers(e) /\ Carriers(e)' = Carriers(e) \cup {f}
            /\ arrived'[e] + Waiting(e)' + 1 + doubt[e] <= arrived[e] + Waiting(e) + doubt'[e]
         \/ f \in Carriers(e) /\ Carriers(e)' = Carriers(e) \ {f}
            /\ arrived'[e] + Waiting(e)' + doubt[e] <= arrived[e] + Waiting(e) + 1 + doubt'[e]
  PROVE  PaidFor(e)'
  <1> DEFINE C  == Cardinality(Carriers(e))
             Cn == Cardinality(Carriers(e)')
  <1>1. Carriers(e) \in SUBSET Flushers
    BY DEF Carriers
  <1>2. C \in Nat /\ Cn \in {C, C + 1, C - 1}
        /\ (Carriers(e)' = Carriers(e) => Cn = C)
        /\ (f \notin Carriers(e) /\ Carriers(e)' = Carriers(e) \cup {f} => Cn = C + 1)
        /\ (f \in Carriers(e) /\ Carriers(e)' = Carriers(e) \ {f} => Cn = C - 1)
    BY <1>1, CarrierCount
  <1>3. arrived[e] \in Nat /\ arrived'[e] \in Nat /\ doubt[e] \in Nat /\ doubt'[e] \in Nat
    BY DEF Typed, HistoryTyped
  <1>4. Waiting(e) \in 0 .. 1 /\ Waiting(e)' \in 0 .. 1
    BY DEF Waiting
  <1>5. arrived[e] + C + Waiting(e) <= 1 + doubt[e]
    BY DEF PaidFor
  <1> HIDE DEF C, Cn
  <1>6. arrived'[e] + Cn + Waiting(e)' <= 1 + doubt'[e]
    BY <1>2, <1>3, <1>4, <1>5
  <1>7. QED
    BY <1>6 DEF PaidFor, C, Cn

(* What PaidFor reads of an entry.                                         *)
Same(e) ==
  /\ Carriers(e)' = Carriers(e) /\ Waiting(e)' = Waiting(e)
  /\ arrived'[e] = arrived[e] /\ doubt'[e] = doubt[e]

LEMMA SameIsPaid ==
  ASSUME NEW e \in Entries, PaidFor(e), Same(e)
  PROVE  PaidFor(e)'
  BY DEF PaidFor, Same

LEMMA SubmitPaid == Typed /\ Typed' /\ Known /\ Paid /\ Submit => Paid'
  <1> SUFFICES ASSUME Typed, Typed', Known, Paid, Submit, NEW e \in Entries PROVE PaidFor(e)'
    BY DEF Paid
  <1>1. UNCHANGED <<left, pc>>
    BY DEF Submit, flush
  <1>2. Carriers(e)' = Carriers(e) /\ Held(e)' = Held(e)
    BY <1>1 DEF Carriers, Held, Delivered, InHand
  <1>3. CASE e # issued + 1
    <2>1. arrived'[e] = arrived[e] /\ doubt'[e] = doubt[e] /\ status'[e] = status[e]
      BY <1>3 DEF Submit, Bump, Typed, StoreTyped, HistoryTyped
    <2>2. QED
      BY <1>2, <2>1, SameIsPaid DEF Same, Waiting, Paid
  <1>4. CASE e = issued + 1
    <2>1. issued \in Nat
      BY DEF Typed, StoreTyped
    <2>2. e \notin queued /\ arrived[e] = 0
      BY <1>4, <2>1 DEF Known
    <2>3. Carriers(e)' = {}
      BY <1>2, <2>2 DEF Known, Carriers
    <2>4. /\ arrived'[e] \in {0, 1} /\ doubt'[e] \in Nat
          /\ arrived'[e] = 1 => doubt'[e] >= 1 \/ status' = status
      BY <1>4, <2>2 DEF Submit, Bump, Typed, StoreTyped, HistoryTyped
    <2>5. status[e] = "absent"
      BY <2>2 DEF Known
    <2>6. Waiting(e)' \in 0 .. 1 /\ (status' = status => Waiting(e)' = 0)
      BY <2>5 DEF Waiting
    <2>7. arrived'[e] + 0 + Waiting(e)' <= 1 + doubt'[e]
      BY <2>4, <2>6
    <2>8. QED
      BY <2>3, <2>7, FS_EmptySet DEF PaidFor
  <1>5. QED
    BY <1>3, <1>4

LEMMA BeginPaid ==
  ASSUME Typed, Typed', Known, Paid, NEW f \in Flushers, Begin(f)
  PROVE  Paid'
  <1> SUFFICES ASSUME NEW e \in Entries PROVE PaidFor(e)'
    BY DEF Paid
  <1>1. left[f] = {} /\ left'[f] = Pending /\ pc'[f] # "delete"
    BY DEF Begin, Known, Typed, FlushTyped
  <1>2. \A g \in Flushers \ {f} : left'[g] = left[g] /\ pc'[g] = pc[g]
    BY DEF Begin, Typed, FlushTyped
  <1>3. UNCHANGED <<status, arrived>>
    BY DEF Begin
  <1>4. \A g \in Flushers \ {f} : Delivered(g, e)' = Delivered(g, e)
    BY <1>2 DEF Delivered, InHand
  <1>5. doubt'[e] = IF e \in Pending /\ Held(e) THEN doubt[e] + 1 ELSE doubt[e]
    BY DEF Begin, Held
  <1>6. CASE e \notin Pending
    <2>1. Carriers(e)' = Carriers(e)
      BY <1>1, <1>2, <1>4, <1>6 DEF Carriers
    <2>2. Waiting(e)' = Waiting(e)
      BY <1>1, <1>2, <1>3, <1>6 DEF Waiting, Held
    <2>3. QED
      BY <1>3, <1>5, <1>6, <2>1, <2>2, SameIsPaid DEF Same, Paid
  <1>7. CASE e \in Pending
    <2>1. ~Delivered(f, e)'
      BY <1>1 DEF Delivered
    <2>2. f \notin Carriers(e) /\ Carriers(e)' = Carriers(e) \cup {f}
      BY <1>1, <1>2, <1>4, <1>7, <2>1 DEF Carriers
    <2>3. Held(e)' /\ Waiting(e)' = 0
      BY <1>1, <1>7 DEF Held, Waiting
    <2>4. Waiting(e) = IF Held(e) THEN 0 ELSE 1
      BY <1>7 DEF Pending, Waiting
    <2>5. arrived'[e] = arrived[e] /\ arrived[e] \in Nat /\ doubt[e] \in Nat
      BY <1>3 DEF Typed, HistoryTyped
    <2>6. arrived'[e] + Waiting(e)' + 1 + doubt[e] <= arrived[e] + Waiting(e) + doubt'[e]
      BY <1>5, <1>7, <2>3, <2>4, <2>5
    <2>7. PaidFor(e)
      BY DEF Paid
    <2>8. QED
      BY <2>2, <2>6, <2>7, PaidByCount
  <1>8. QED
    BY <1>6, <1>7

LEMMA ClosePaid ==
  ASSUME Typed, Typed', Known, Paid, NEW f \in Flushers, TabCloses(f)
  PROVE  Paid'
  <1> SUFFICES ASSUME NEW e \in Entries PROVE PaidFor(e)'
    BY DEF Paid
  <1>1. left'[f] = {} /\ pc'[f] = "idle"
    BY DEF TabCloses, Typed, FlushTyped
  <1>2. \A g \in Flushers \ {f} : left'[g] = left[g] /\ pc'[g] = pc[g]
    BY DEF TabCloses, Typed, FlushTyped
  <1>3. UNCHANGED <<status, arrived>>
    BY DEF TabCloses
  <1>4. \A g \in Flushers \ {f} : Delivered(g, e)' = Delivered(g, e)
    BY <1>2 DEF Delivered, InHand
  <1>5. doubt'[e] = IF Delivered(f, e) THEN doubt[e] + 1 ELSE doubt[e]
    BY DEF TabCloses
  <1>6. Carriers(e)' = Carriers(e) \ {f}
    BY <1>1, <1>2, <1>4 DEF Carriers
  <1>7. arrived'[e] = arrived[e] /\ arrived[e] \in Nat /\ doubt[e] \in Nat
    BY <1>3 DEF Typed, HistoryTyped
  <1>8. PaidFor(e)
    BY DEF Paid
  <1>9. CASE e \notin left[f]
    <2>1. Held(e)' = Held(e)
      BY <1>1, <1>2, <1>9 DEF Held
    <2>2. f \notin Carriers(e) /\ ~Delivered(f, e)
      BY <1>9 DEF Carriers, Delivered, InHand
    <2>3. QED
      BY <1>3, <1>5, <1>6, <1>8, <2>1, <2>2, SameIsPaid DEF Same, Waiting
  <1>10. CASE e \in left[f]
    <2>1. Waiting(e) = 0 /\ Waiting(e)' \in 0 .. 1
      BY <1>10 DEF Waiting, Held
    <2>2. f \notin Carriers(e) <=> Delivered(f, e)
      BY <1>10 DEF Carriers
    <2>3. CASE Delivered(f, e)
      <3>1. Carriers(e)' = Carriers(e)
        BY <1>6, <2>2, <2>3
      <3>2. arrived'[e] + Waiting(e)' + doubt[e] <= arrived[e] + Waiting(e) + doubt'[e]
        BY <1>5, <1>7, <2>1, <2>3
      <3>3. QED
        BY <1>8, <3>1, <3>2, PaidByCount
    <2>4. CASE ~Delivered(f, e)
      <3>1. arrived'[e] + Waiting(e)' + doubt[e] <= arrived[e] + Waiting(e) + 1 + doubt'[e]
        BY <1>5, <1>7, <2>1, <2>4
      <3>2. QED
        BY <1>6, <1>8, <2>2, <2>4, <3>1, PaidByCount
    <2>5. QED
      BY <2>3, <2>4
  <1>11. QED
    BY <1>9, <1>10

LEMMA SendsPaid ==
  ASSUME Typed, Typed', Paid, NEW f \in Flushers, NEW e \in Entries, Sends(f, e)
  PROVE  Paid'
  <1>1. PICK next \in {"delete", "put", "reject"} :
          /\ Tried(f, e, next)
          /\ IF next = "delete" THEN arrived' = Bump(arrived, e) /\ doubt' = doubt
             ELSE \/ arrived' = Bump(arrived, e) /\ doubt' = Bump(doubt, e)
                  \/ arrived' = arrived /\ doubt' = doubt
    BY DEF Sends, SendAccepted, SendLostAnswer, SendFailed
  <1>2. pc[f] = "send" /\ InHand(f, e) /\ UNCHANGED <<left, status>>
        /\ pc' = [pc EXCEPT ![f] = next]
    BY <1>1 DEF Sends, SendAccepted, SendLostAnswer, SendFailed, CanSend, Tried
  <1>3. /\ \A g \in Flushers, d \in Entries :
             <<g, d>> # <<f, e>> => Delivered(g, d)' = Delivered(g, d)
        /\ Delivered(f, e)' = (next = "delete") /\ ~Delivered(f, e)
        /\ \A d \in Entries : Held(d)' = Held(d)
    BY <1>2, StayKeepsOthers
  <1>4. \A d \in Entries : Waiting(d)' = Waiting(d)
    BY <1>2, <1>3 DEF Waiting
  <1>5. ASSUME NEW d \in Entries \ {e} PROVE PaidFor(d)'
    <2>1. Carriers(d)' = Carriers(d)
      BY <1>2, <1>3 DEF Carriers
    <2>2. arrived'[d] = arrived[d] /\ doubt'[d] = doubt[d]
      BY <1>1 DEF Bump, Typed, HistoryTyped
    <2>3. QED
      BY <1>4, <2>1, <2>2, SameIsPaid DEF Same, Paid
  <1>6. PaidFor(e)'
    <2>1. /\ arrived[e] \in Nat /\ doubt[e] \in Nat
          /\ Waiting(e) \in Nat /\ Waiting(e)' = Waiting(e) /\ PaidFor(e)
      BY <1>4 DEF Typed, HistoryTyped, Waiting, Paid
    <2>2. f \in Carriers(e)
      BY <1>2, <1>3 DEF Carriers, InHand
    <2>3. CASE next = "delete"
      <3>1. Carriers(e)' = Carriers(e) \ {f}
        BY <1>2, <1>3, <2>3 DEF Carriers
      <3>2. arrived'[e] = arrived[e] + 1 /\ doubt'[e] = doubt[e]
        BY <1>1, <2>3 DEF Bump, Typed, HistoryTyped
      <3>3. arrived'[e] + Waiting(e)' + doubt[e] <= arrived[e] + Waiting(e) + 1 + doubt'[e]
        BY <2>1, <3>2
      <3>4. QED
        BY <2>1, <2>2, <3>1, <3>3, PaidByCount
    <2>4. CASE next # "delete"
      <3>1. Carriers(e)' = Carriers(e)
        BY <1>2, <1>3, <2>4 DEF Carriers
      <3>2. \/ arrived'[e] = arrived[e] + 1 /\ doubt'[e] = doubt[e] + 1
            \/ arrived'[e] = arrived[e] /\ doubt'[e] = doubt[e]
        BY <1>1, <2>4 DEF Bump, Typed, HistoryTyped
      <3>3. arrived'[e] + Waiting(e)' + doubt[e] <= arrived[e] + Waiting(e) + doubt'[e]
        BY <2>1, <3>2
      <3>4. QED
        BY <2>1, <3>1, <3>3, PaidByCount
    <2>5. QED
      BY <2>3, <2>4
  <1>7. QED
    BY <1>5, <1>6 DEF Paid

LEMMA PutPaid ==
  ASSUME Typed, Typed', Paid, NEW f \in Flushers, NEW e \in Entries, Put(f, e)
  PROVE  Paid'
  <1>1. PICK next \in {"send", "fail"} : pc' = [pc EXCEPT ![f] = next]
    BY DEF Put
  <1>2. /\ pc[f] # "delete" /\ InHand(f, e) /\ UNCHANGED <<left, arrived, doubt>>
        /\ \A d \in Entries \ {e} : status'[d] = status[d]
    BY DEF Put, PutBack, history, Typed, StoreTyped
  <1>3. /\ \A g \in Flushers, d \in Entries : Delivered(g, d)' = Delivered(g, d)
        /\ \A d \in Entries : Held(d)' = Held(d)
    <2>1. /\ \A g \in Flushers, d \in Entries :
               <<g, d>> # <<f, e>> => Delivered(g, d)' = Delivered(g, d)
          /\ Delivered(f, e)' = (next = "delete") /\ Delivered(f, e) = (pc[f] = "delete")
          /\ \A d \in Entries : Held(d)' = Held(d)
      BY <1>1, <1>2, StayKeepsOthers
    <2>2. ~Delivered(f, e)' /\ ~Delivered(f, e)
      BY <1>1, <1>2 DEF Delivered, Typed, FlushTyped
    <2>3. QED
      BY <2>1, <2>2
  <1>4. Held(e)
    BY <1>2 DEF Held, InHand
  <1>5. \A d \in Entries : Waiting(d)' = Waiting(d)
    BY <1>2, <1>3, <1>4 DEF Waiting
  <1>6. \A d \in Entries : Carriers(d)' = Carriers(d)
    BY <1>2, <1>3 DEF Carriers
  <1>7. QED
    BY <1>2, <1>5, <1>6, SameIsPaid DEF Same, Paid

LEMMA EndsPaid ==
  ASSUME Typed, Typed', Paid, NEW f \in Flushers, NEW e \in Entries, Ends(f, e)
  PROVE  Paid'
  <1>1. InHand(f, e) /\ NextEntry(f, e) /\ arrived' = arrived
    BY DEF Ends, Delete, DeleteLost, Fail, Delivered, history
  <1>2. /\ \A d \in Entries \ {e} : Held(d)' = Held(d) /\ Carriers(d)' = Carriers(d)
        /\ Carriers(e)' = Carriers(e) \ {f}
    BY <1>1, NextKeepsOthers
  <1>3. \A d \in Entries \ {e} : status'[d] = status[d] /\ doubt'[d] = doubt[d]
    BY DEF Ends, Delete, DeleteLost, Fail, PutBack, Bump, history, Typed, StoreTyped, HistoryTyped
  <1>4. \A d \in Entries \ {e} : PaidFor(d)'
    BY <1>1, <1>2, <1>3, SameIsPaid DEF Same, Waiting, Paid
  <1>5. PaidFor(e)'
    <2>1. /\ arrived[e] \in Nat /\ doubt[e] \in Nat /\ arrived'[e] = arrived[e]
          /\ Waiting(e) = 0 /\ Waiting(e)' \in 0 .. 1 /\ PaidFor(e)
      BY <1>1 DEF Typed, HistoryTyped, Waiting, Held, InHand, Paid
    <2>2. f \notin Carriers(e) <=> Delivered(f, e)
      BY <1>1 DEF Carriers, InHand
    <2>3. CASE Delete(f, e)
      <3>1. Waiting(e)' = 0 /\ doubt' = doubt
        BY <2>3 DEF Delete, Waiting, history, Typed, StoreTyped
      <3>2. Carriers(e)' = Carriers(e)
        BY <1>2, <2>2, <2>3 DEF Delete
      <3>3. QED
        BY <2>1, <3>1, <3>2, PaidByCount
    <2>4. CASE DeleteLost(f, e)
      <3>1. Carriers(e)' = Carriers(e)
        BY <1>2, <2>2, <2>4 DEF DeleteLost
      <3>2. doubt'[e] = doubt[e] + 1
        BY <2>4 DEF DeleteLost, Bump, Typed, HistoryTyped
      <3>3. arrived'[e] + Waiting(e)' + doubt[e] <= arrived[e] + Waiting(e) + doubt'[e]
        BY <2>1, <3>2
      <3>4. QED
        BY <2>1, <3>1, <3>3, PaidByCount
    <2>5. CASE Fail(f, e)
      <3>1. f \in Carriers(e)
        BY <2>2, <2>5 DEF Fail, Delivered
      <3>2. doubt' = doubt
        BY <2>5 DEF Fail
      <3>3. arrived'[e] + Waiting(e)' + doubt[e] <= arrived[e] + Waiting(e) + 1 + doubt'[e]
        BY <2>1, <3>2
      <3>4. QED
        BY <1>2, <2>1, <3>1, <3>3, PaidByCount
    <2>6. QED
      BY <2>3, <2>4, <2>5 DEF Ends
  <1>6. QED
    BY <1>4, <1>5 DEF Paid

LEMMA StepPaid == Typed /\ Typed' /\ Known /\ Paid /\ [Next]_vars => Paid'
  <1> SUFFICES ASSUME Typed, Typed', Known, Paid, [Next]_vars PROVE Paid'
    OBVIOUS
  <1>1. ASSUME UNCHANGED <<left, status, arrived, doubt>>,
               \A f \in Flushers : pc'[f] = "delete" <=> pc[f] = "delete"
        PROVE  Paid'
    <2>1. \A e \in Entries : Carriers(e)' = Carriers(e) /\ Waiting(e)' = Waiting(e)
      BY <1>1 DEF Carriers, Waiting, Held, Delivered, InHand
    <2>2. QED
      BY <1>1, <2>1, SameIsPaid DEF Same, Paid
  <1>2. CASE UNCHANGED vars \/ Disconnect
    BY <1>1, <1>2 DEF Disconnect, vars, flush, history
  <1>3. ASSUME NEW Mounted \in SUBSET Flushers, Reconnect(Mounted) PROVE Paid'
    BY <1>1, <1>3 DEF Reconnect, history, Typed, FlushTyped
  <1>4. QED
    BY <1>2, <1>3, StepCases, SubmitPaid, BeginPaid, ClosePaid, SendsPaid, PutPaid, EndsPaid

-----------------------------------------------------------------------------
LEMMA StepInv == Inv /\ [Next]_vars => Inv'
  BY StepTyped, StepKnown, StepSettled, StepOrdered, StepPaid DEF Inv

LEMMA Invariance == Spec => []Inv
  BY InitInv, StepInv, PTL DEF Spec

(* Store, flushes and history keep their type: no entry is tried more than *)
(* MAX_ATTEMPTS times on any copy of it.                                   *)
THEOREM QueueTypes == Spec => []TypeOK
  BY Invariance, InvTypes, PTL

(* Nothing that was queued is lost before the server has accepted it.      *)
THEOREM QueueLosesNothing == Spec => []NothingLost
  <1>1. Inv => NothingLost
    BY DEF Inv, Settled, NothingLost
  <1>2. QED
    BY <1>1, Invariance, PTL

(* Every duplicate had an occasion of its own, for every number of flushes *)
(* and of faults.                                                          *)
THEOREM QueueDuplicates == Spec => []DuplicatesExplained
  <1>1. ASSUME Inv, NEW e \in Entries PROVE arrived[e] <= 1 + doubt[e]
    <2>1. Cardinality(Carriers(e)) \in Nat
      <3>1. Carriers(e) \in SUBSET Flushers
        BY DEF Carriers
      <3>2. QED
        BY <3>1, QueueAssumption, FS_Subset, FS_CardinalityType
    <2>2. Waiting(e) \in Nat /\ arrived[e] \in Nat /\ doubt[e] \in Nat
      BY <1>1 DEF Inv, Typed, HistoryTyped, Waiting
    <2>3. PaidFor(e)
      BY <1>1 DEF Inv, Paid
    <2>4. QED
      BY <2>1, <2>2, <2>3 DEF PaidFor
  <1>2. Inv => DuplicatesExplained
    BY <1>1 DEF DuplicatesExplained
  <1>3. QED
    BY <1>2, Invariance, PTL

(* The server accepts queued mutations in order, but for what was given up. *)
THEOREM QueueOrder == Spec => []FifoUnlessGivenUp
  <1>1. Inv => FifoUnlessGivenUp
    BY DEF Inv, Ordered, FifoUnlessGivenUp
  <1>2. QED
    BY <1>1, Invariance, PTL

(* What rests in the store, pending or failed, has arrived only where there *)
(* was a doubt.                                                            *)
THEOREM QueueStoredNotArrived == Spec => []StoredMeansNotArrived
  <1>1. ASSUME Inv, NEW e \in Entries, status[e] # "absent", Listers(e) = {}
        PROVE  arrived[e] <= doubt[e]
    <2>1. Waiting(e) = 1 /\ Carriers(e) = {}
      BY <1>1 DEF Waiting, Held, Carriers, Listers
    <2>2. arrived[e] \in Nat /\ doubt[e] \in Nat
      BY <1>1 DEF Inv, Typed, HistoryTyped
    <2>3. arrived[e] + 0 + 1 <= 1 + doubt[e]
      BY <1>1, <2>1, FS_EmptySet DEF Inv, Paid, PaidFor
    <2>4. QED
      BY <2>2, <2>3
  <1>2. Inv => StoredMeansNotArrived
    BY <1>1 DEF StoredMeansNotArrived
  <1>3. QED
    BY <1>2, Invariance, PTL

-----------------------------------------------------------------------------
(* After an entry has settled.                                             *)

LEMMA StepOfSettled ==
  ASSUME Inv, [Next]_vars, NEW e \in queued, status[e] # "pending"
  PROVE  /\ Listers(e)' \subseteq Listers(e)
         /\ Listers(e) = {} => status'[e] = status[e] /\ arrived'[e] = arrived[e]
  <1> DEFINE Goal == /\ Listers(e)' \subseteq Listers(e)
                     /\ Listers(e) = {} => status'[e] = status[e] /\ arrived'[e] = arrived[e]
  <1> USE DEF Inv, Typed
  <1>1. e \in Entries /\ e <= issued /\ issued \in Nat
    BY DEF HistoryTyped, StoreTyped, Known
  <1>2. CASE Submit
    <2>1. e # issued + 1 /\ left' = left
      BY <1>1, <1>2, EntriesAreNumbers DEF Submit, flush
    <2>2. status'[e] = status[e] /\ arrived'[e] = arrived[e]
      BY <1>1, <1>2, <2>1 DEF Submit, Bump, StoreTyped, HistoryTyped
    <2>3. QED
      BY <2>1, <2>2 DEF Listers
  <1>3. ASSUME UNCHANGED <<left, status, arrived>> PROVE Goal
    BY <1>3 DEF Listers
  <1>4. ASSUME NEW f \in Flushers, Begin(f) \/ TabCloses(f) PROVE Goal
    <2>1. UNCHANGED <<status, arrived>> /\ left'[f] \in {Pending, {}}
          /\ \A g \in Flushers \ {f} : left'[g] = left[g]
      BY <1>4 DEF Begin, TabCloses, FlushTyped
    <2>2. e \notin Pending
      BY DEF Pending
    <2>3. QED
      BY <2>1, <2>2 DEF Listers
  <1>5. ASSUME NEW f \in Flushers, NEW d \in Entries, Sends(f, d) PROVE Goal
    <2>1. UNCHANGED <<left, status>> /\ f \in Listers(d)
      BY <1>5 DEF Sends, SendAccepted, SendLostAnswer, SendFailed, CanSend, InHand, Tried, Listers
    <2>2. d # e => arrived'[e] = arrived[e]
      BY <1>1, <1>5 DEF Sends, SendAccepted, SendLostAnswer, SendFailed, Bump, HistoryTyped
    <2>3. QED
      BY <2>1, <2>2 DEF Listers
  <1>6. ASSUME NEW f \in Flushers, NEW d \in Entries, Put(f, d) PROVE Goal
    <2>1. UNCHANGED <<left, arrived>> /\ f \in Listers(d)
      BY <1>6 DEF Put, InHand, Listers, history
    <2>2. d # e => status'[e] = status[e]
      BY <1>1, <1>6 DEF Put, PutBack, StoreTyped
    <2>3. QED
      BY <2>1, <2>2 DEF Listers
  <1>7. ASSUME NEW f \in Flushers, NEW d \in Entries, Ends(f, d) PROVE Goal
    <2>1. InHand(f, d) /\ NextEntry(f, d) /\ arrived' = arrived
      BY <1>7 DEF Ends, Delete, DeleteLost, Fail, Delivered, history
    <2>2. \A g \in Flushers : left'[g] \subseteq left[g]
      BY <2>1, NextKeepsOthers
    <2>3. f \in Listers(d)
      BY <2>1 DEF InHand, Listers
    <2>4. d # e => status'[e] = status[e]
      BY <1>1, <1>7 DEF Ends, Delete, DeleteLost, Fail, PutBack, StoreTyped
    <2>5. QED
      BY <2>1, <2>2, <2>3, <2>4 DEF Listers
  <1>8. Disconnect \/ UNCHANGED vars \/ (\E Mounted \in SUBSET Flushers : Reconnect(Mounted))
          => UNCHANGED <<left, status, arrived>>
    BY DEF Disconnect, Reconnect, vars, flush, history
  <1>9. QED
    BY <1>2, <1>3, <1>4, <1>5, <1>6, <1>7, <1>8, StepCases

(* However many flushes overlap, no further one takes up what has settled.  *)
THEOREM QueueSettledOnlyByListers == Spec => SettledOnlyByListers
  <1>1. Inv /\ [Next]_vars =>
          \A e \in queued : status[e] # "pending" =>
            /\ Listers(e)' \subseteq Listers(e)
            /\ Listers(e) = {} => status'[e] = status[e] /\ arrived'[e] = arrived[e]
    BY StepOfSettled
  <1>2. QED
    BY <1>1, Invariance, PTL DEF Spec, SettledOnlyByListers

(* With one mount of the hook, what it has on its list is pending.         *)
ListIsPending == \A f \in Flushers : \A e \in left[f] : status[e] = "pending"

LEMMA StepListIsPending ==
  ASSUME \A f, g \in Flushers : f = g, Inv, ListIsPending, [Next]_vars
  PROVE  ListIsPending'
  <1> USE DEF ListIsPending
  <1>0. Typed
    BY DEF Inv
  <1>1. ASSUME UNCHANGED left,
               \A e \in Entries : status'[e] = status[e] \/ status'[e] = "pending"
        PROVE  ListIsPending'
    BY <1>0, <1>1 DEF Typed, FlushTyped
  <1>2. CASE Submit
    BY <1>0, <1>1, <1>2 DEF Submit, flush, Typed, StoreTyped
  <1>3. ASSUME NEW f \in Flushers, Begin(f) \/ TabCloses(f) PROVE ListIsPending'
    <2>1. status' = status /\ left'[f] \in {Pending, {}}
      BY <1>0, <1>3 DEF Begin, TabCloses, Typed, FlushTyped
    <2>2. QED
      BY <2>1 DEF Pending
  <1>4. ASSUME NEW f \in Flushers, NEW d \in Entries, Sends(f, d) \/ Put(f, d)
        PROVE  ListIsPending'
    BY <1>0, <1>1, <1>4 DEF Sends, SendAccepted, SendLostAnswer, SendFailed, Tried, Put, PutBack,
                            Typed, StoreTyped
  <1>5. ASSUME NEW f \in Flushers, NEW d \in Entries, Ends(f, d) PROVE ListIsPending'
    <2>1. InHand(f, d) /\ NextEntry(f, d)
      BY <1>5 DEF Ends, Delete, DeleteLost, Fail, Delivered
    <2>2. left'[f] = left[f] \ {d} /\ left[f] \subseteq Entries
      BY <1>0, <2>1, NextKeepsOthers DEF Typed, FlushTyped
    <2>3. \A e \in Entries \ {d} : status'[e] = status[e]
      BY <1>0, <1>5 DEF Ends, Delete, DeleteLost, Fail, PutBack, Typed, StoreTyped
    <2>4. QED
      BY <2>2, <2>3
  <1>6. Disconnect \/ UNCHANGED vars \/ (\E Mounted \in SUBSET Flushers : Reconnect(Mounted))
          => UNCHANGED <<left, status>>
    BY DEF Disconnect, Reconnect, vars, flush
  <1>7. QED
    BY <1>1, <1>2, <1>3, <1>4, <1>5, <1>6, StepCases

(* One flusher never brings an entry back, nor sends it after it settled.  *)
THEOREM QueueSettlesForGood ==
  ASSUME \A f, g \in Flushers : f = g
  PROVE  Spec => SettledForGood
  <1>1. Init => ListIsPending
    BY DEF Init, ListIsPending
  <1>2. Inv /\ ListIsPending /\ [Next]_vars => ListIsPending'
    BY StepListIsPending
  <1>3. Inv /\ ListIsPending /\ [Next]_vars =>
          \A e \in queued : status[e] # "pending" =>
            status'[e] = status[e] /\ arrived'[e] = arrived[e]
    BY StepOfSettled DEF ListIsPending, Listers
  <1>4. QED
    BY <1>1, <1>2, <1>3, Invariance, PTL DEF Spec, SettledForGood
=============================================================================
