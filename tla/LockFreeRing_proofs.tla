------------------------ MODULE LockFreeRing_proofs ------------------------
(***************************************************************************)
(* Proofs about LockFreeRing, for every number of goroutines, every set of *)
(* values and every capacity of at least two.  With one slot "published at *)
(* q" and "free for lap q + 1" are the same sequence number and the ring   *)
(* takes a second value.  First the ring's own invariant and what follows  *)
(* from it, then that the ring implements BoundedQueue and that iterations *)
(* beside it, as LockFreeRingIter has them, see values.                    *)
(***************************************************************************)
EXTENDS LockFreeRingIter, FiniteSetTheorems, SequenceTheorems, TLAPS

-----------------------------------------------------------------------------
(* Arithmetic of slots *)

LEMMA Quotient == ASSUME NEW C \in Nat \ {0}, NEW q \in Nat
                  PROVE  \E k \in Nat : q = C * k + (q % C)
<1>1. q = C * (q \div C) + (q % C) /\ q \div C \in Nat
  OBVIOUS
<1> QED BY <1>1

LEMMA Multiples == ASSUME NEW C \in Nat \ {0}, NEW a \in Int, NEW b \in Int,
                          a < b
                   PROVE  C * a + C <= C * b
<1>1. C * (b - a - 1) >= 0
  OBVIOUS
<1>2. C * (b - a - 1) = C * b - C * a - C
  OBVIOUS
<1> QED BY <1>1, <1>2

\* head&mask always indexes the buffer.
LEMMA SlotType == ASSUME NEW q \in Nat PROVE Slot(q) \in Slots
  BY CapacityAssumption DEF Slot, Slots

\* Within one lap no two positions share a slot.
LEMMA SlotInjective == ASSUME NEW q \in Nat, NEW r \in Nat,
                              q <= r, r < q + Capacity, Slot(q) = Slot(r)
                       PROVE  q = r
<1> DEFINE C == Capacity
<1>1. PICK a \in Nat : q = C * a + (q % C)
  BY Quotient, CapacityAssumption
<1>2. PICK b \in Nat : r = C * b + (r % C)
  BY Quotient, CapacityAssumption
<1>3. C \in Nat \ {0} /\ C * a \in Int /\ C * b \in Int /\ q % C \in Int
  BY CapacityAssumption
<1>4. q % C = r % C
  BY DEF Slot
<1> HIDE DEF C
<1>5. ~(a < b)
  BY <1>1, <1>2, <1>3, <1>4, Multiples DEF C
<1>6. ~(b < a)
  BY <1>1, <1>2, <1>3, <1>4, Multiples DEF C
<1>7. a = b
  BY <1>5, <1>6
<1> QED BY <1>1, <1>2, <1>3, <1>4, <1>7

\* A lap later a position is in the same slot.
LEMMA SlotShift == ASSUME NEW q \in Nat PROVE Slot(q + Capacity) = Slot(q)
<1> DEFINE C == Capacity
<1>1. C \in Nat \ {0} /\ q + C \in Nat
  BY CapacityAssumption
<1>2. PICK a \in Nat : q + C = C * a + ((q + C) % C)
  BY Quotient, <1>1
<1>3. PICK b \in Nat : q = C * b + (q % C)
  BY Quotient, <1>1
<1>4. /\ C * a \in Int /\ C * b \in Int /\ C * (b + 1) = C * b + C
      /\ q % C \in 0 .. C - 1 /\ (q + C) % C \in 0 .. C - 1
  BY <1>1
<1> HIDE DEF C
<1>5. ~(a < b + 1)
  BY <1>1, <1>2, <1>3, <1>4, Multiples
<1>6. ~(b + 1 < a)
  BY <1>1, <1>2, <1>3, <1>4, Multiples
<1>7. (q + C) % C = q % C
  BY <1>1, <1>2, <1>3, <1>4, <1>5, <1>6
<1> QED BY <1>7 DEF Slot, C

\* In the first lap position and slot coincide.
LEMMA SlotFirstLap == ASSUME NEW q \in Slots PROVE Slot(q) = q
  BY CapacityAssumption DEF Slot, Slots

-----------------------------------------------------------------------------
(* Type correctness *)

\* Whatever the goroutines do, the state has the types of the code's
\* declarations; positions and sequences never become negative.
THEOREM TypeCorrect == Spec => []TypeOK
<1>1. Init => TypeOK
  BY CapacityAssumption DEF Init, TypeOK, Slots, Pcs
<1>2. TypeOK /\ [Next]_vars => TypeOK'
  <2> SUFFICES ASSUME TypeOK, [Next]_vars PROVE TypeOK'
    OBVIOUS
  <2> USE CapacityAssumption DEF TypeOK
  <2>1. ASSUME NEW p \in Procs, Call(p) PROVE TypeOK'
    <3>1. ASSUME NEW v \in Values, CallPush(p, v) PROVE TypeOK'
      BY <3>1 DEF CallPush, Goto, Pcs, PushPcs, shared
    <3>2. CASE CallPop(p)
      BY <3>2 DEF CallPop, Goto, Pcs, PopPcs, shared
    <3>3. ASSUME NEW n \in 1 .. MaxDiscard, CallDiscard(p, n) PROVE TypeOK'
      BY <3>3, BoundAssumption DEF CallDiscard, Goto, Pcs, DiscardPcs, shared
    <3>4. CASE CallSnapshot(p)
      BY <3>4 DEF CallSnapshot, Goto, Pcs, shared
    <3> QED BY <2>1, <3>1, <3>2, <3>3, <3>4 DEF Call
  <2>2. ASSUME NEW p \in Procs, PushStep(p) PROVE TypeOK'
    <3> USE DEF Goto, Return, Pcs, PushPcs, shared
    <3>1. CASE PushLoad(p) BY <3>1 DEF PushLoad
    <3>2. CASE PushSeesFree(p) BY <3>2 DEF PushSeesFree
    <3>3. CASE PushFull(p) BY <3>3 DEF PushFull
    <3>4. CASE PushYield(p) BY <3>4 DEF PushYield
    <3>5. CASE PushClaim(p) BY <3>5 DEF PushClaim
    <3>6. CASE PushRetry(p) BY <3>6 DEF PushRetry
    <3>7. CASE PushWrite(p) BY <3>7 DEF PushWrite
    <3>8. CASE PushPublish(p)
      <4>1. pos[p] + 1 \in Nat
        OBVIOUS
      <4>2. sequence' = [sequence EXCEPT ![Slot(pos[p])] = pos[p] + 1]
        BY <3>8 DEF PushPublish
      <4>3. sequence' \in [Slots -> Nat]
        BY <4>1, <4>2
      <4> QED BY <3>8, <4>3 DEF PushPublish
    <3> QED BY <2>2, <3>1, <3>2, <3>3, <3>4, <3>5, <3>6, <3>7, <3>8 DEF PushStep
  <2>3. ASSUME NEW p \in Procs, PopStep(p) PROVE TypeOK'
    <3> USE DEF Goto, Return, Pcs, PopPcs, shared
    <3>1. CASE PopLoad(p) BY <3>1 DEF PopLoad
    <3>2. CASE PopSeesFilled(p) BY <3>2 DEF PopSeesFilled
    <3>3. CASE PopEmpty(p) BY <3>3 DEF PopEmpty
    <3>4. CASE PopYield(p) BY <3>4 DEF PopYield
    <3>5. CASE PopClaim(p) BY <3>5 DEF PopClaim
    <3>6. CASE PopRetry(p) BY <3>6 DEF PopRetry
    <3>7. CASE PopRead(p) BY <3>7, SlotType DEF PopRead
    <3>8. CASE PopClear(p) BY <3>8 DEF PopClear
    <3>9. CASE PopRelease(p)
      <4>1. pos[p] + Capacity \in Nat
        OBVIOUS
      <4>2. sequence' = [sequence EXCEPT ![Slot(pos[p])] = pos[p] + Capacity]
        BY <3>9 DEF PopRelease
      <4>3. sequence' \in [Slots -> Nat]
        BY <4>1, <4>2
      <4> QED BY <3>9, <4>3 DEF PopRelease
    <3> QED BY <2>3, <3>1, <3>2, <3>3, <3>4, <3>5, <3>6, <3>7, <3>8, <3>9
            DEF PopStep
  <2>4. ASSUME NEW p \in Procs, DiscardStep(p) PROVE TypeOK'
    <3> USE DEF Goto, Return, NextAttempt, Pcs, DiscardPcs, shared
    <3>1. CASE DiscardLoad(p) BY <3>1 DEF DiscardLoad
    <3>2. CASE DiscardSeesFilled(p) BY <3>2 DEF DiscardSeesFilled
    <3>3. CASE DiscardEmpty(p) BY <3>3 DEF DiscardEmpty
    <3>4. CASE DiscardStale(p) BY <3>4 DEF DiscardStale
    <3>5. CASE DiscardClaim(p) BY <3>5 DEF DiscardClaim
    <3>6. CASE DiscardLost(p) BY <3>6 DEF DiscardLost
    <3>7. CASE DiscardClear(p) BY <3>7 DEF DiscardClear
    <3>8. CASE DiscardRelease(p)
      <4>1. pos[p] + Capacity \in Nat
        OBVIOUS
      <4>2. sequence' = [sequence EXCEPT ![Slot(pos[p])] = pos[p] + Capacity]
        BY <3>8 DEF DiscardRelease
      <4>3. sequence' \in [Slots -> Nat]
        BY <4>1, <4>2
      <4> QED BY <3>8, <4>3 DEF DiscardRelease
    <3> QED BY <2>4, <3>1, <3>2, <3>3, <3>4, <3>5, <3>6, <3>7, <3>8
            DEF DiscardStep
  <2>5. ASSUME NEW p \in Procs, SnapshotHead(p) \/ SnapshotTail(p) PROVE TypeOK'
    BY <2>5 DEF SnapshotHead, SnapshotTail, Goto, Return, Pcs, shared
  <2>6. CASE Reset
    BY <2>6 DEF Reset, Slots
  <2>7. CASE UNCHANGED vars
    BY <2>7 DEF vars
  <2> QED BY <2>1, <2>2, <2>3, <2>4, <2>5, <2>6, <2>7 DEF Next, Step
<1> QED BY <1>1, <1>2, PTL DEF Spec

-----------------------------------------------------------------------------
(* Safety *)

\* A step of p that leaves the buffer alone keeps the invariant if p knows
\* what its new place in the code requires and does not become an owner.
LEMMA LocalStep ==
  ASSUME TypeOK, SlotsAgree, NEW p \in Procs,
         UNCHANGED shared,
         \A r \in Procs \ {p} : /\ pc'[r] = pc[r]
                                /\ pos'[r] = pos[r]
                                /\ val'[r] = val[r],
         PusherKnows(p)', PopperKnows(p)', WriterOwns(p)', ReaderOwns(p)',
         Writing(p)' => Writing(p) /\ pos'[p] = pos[p],
         Reading(p)' => Reading(p) /\ pos'[p] = pos[p]
  PROVE  SlotsAgree'
<1> USE DEF shared
<1>1. tail' <= head' /\ head' <= tail' + Capacity /\ FilledPart' /\ FreePart'
  BY DEF SlotsAgree, FilledPart, FreePart, Slot
<1>2. ASSUME NEW r \in Procs
      PROVE  PusherKnows(r)' /\ PopperKnows(r)' /\ WriterOwns(r)' /\ ReaderOwns(r)'
  <2>1. CASE r = p
    BY <2>1
  <2>2. CASE r # p
    BY <2>2 DEF SlotsAgree, PusherKnows, PopperKnows, WriterOwns, ReaderOwns,
                Writing, Reading, Slot
  <2> QED BY <2>1, <2>2
<1>3. OwnersApart'
  BY DEF SlotsAgree, OwnersApart, Writing, Reading
<1> QED BY <1>1, <1>2, <1>3 DEF SlotsAgree

LEMMA PushLocal ==
  ASSUME Capacity >= 2, TypeOK, SlotsAgree, NEW p \in Procs,
         \/ PushLoad(p) \/ PushSeesFree(p) \/ PushFull(p)
         \/ PushYield(p) \/ PushRetry(p)
  PROVE  SlotsAgree'
<1> USE DEF shared, Goto, Return
<1>1. /\ UNCHANGED shared
      /\ \A r \in Procs \ {p} : /\ pc'[r] = pc[r]
                                /\ pos'[r] = pos[r]
                                /\ val'[r] = val[r]
      /\ pc'[p] \in {"idle", "pushLoad", "pushSeq", "pushCas"}
      /\ pc'[p] # "idle" => pc[p] \in PushPcs /\ val'[p] = val[p]
  BY DEF TypeOK, PushLoad, PushSeesFree, PushFull, PushYield, PushRetry, PushPcs
<1>2. pc'[p] \in {"pushSeq", "pushCas"} => pos'[p] <= head
  BY DEF TypeOK, SlotsAgree, PusherKnows, PushLoad, PushSeesFree, PushFull,
         PushYield, PushRetry
<1>3. pc'[p] = "pushCas" => PushDiff(p) = 0 /\ pos'[p] = pos[p]
  BY DEF TypeOK, PushLoad, PushSeesFree, PushFull, PushYield, PushRetry
<1>4. ASSUME sequence[Slot(head)] = head PROVE head < tail + Capacity
  <2>1. CASE head = tail + Capacity
    <3>1. tail \in tail .. head - 1 /\ tail \in Nat /\ Capacity \in Nat
      BY <2>1, CapacityAssumption DEF TypeOK
    <3>2. sequence[Slot(tail)] \in {tail, tail + 1}
      BY <3>1 DEF SlotsAgree, FilledPart
    <3>3. Slot(head) = Slot(tail)
      BY <2>1, <3>1, SlotShift
    <3> QED BY <1>4, <2>1, <3>1, <3>2, <3>3
  <2> QED BY <2>1, CapacityAssumption DEF SlotsAgree, TypeOK
<1>5. PusherKnows(p)'
  <2>1. ASSUME pc'[p] = "pushCas", pos'[p] = head
        PROVE  head < tail + Capacity /\ sequence[Slot(head)] = head
    <3>1. sequence[Slot(head)] \in Nat /\ head \in Nat
      BY SlotType DEF TypeOK
    <3>2. sequence[Slot(head)] - head = 0
      BY <1>3, <2>1 DEF PushDiff
    <3> QED BY <1>4, <3>1, <3>2
  <2>2. pc'[p] \in PushPcs => val'[p] \in Values
    BY <1>1 DEF SlotsAgree, PusherKnows, PushPcs
  <2>3. pc'[p] # "snapTail" /\ UNCHANGED <<head, tail, sequence>>
    BY <1>1
  <2> QED BY <1>2, <2>1, <2>2, <2>3 DEF PusherKnows, Slot
<1>6. PopperKnows(p)' /\ WriterOwns(p)' /\ ReaderOwns(p)' /\ ~Writing(p)' /\ ~Reading(p)'
  BY <1>1 DEF PopperKnows, WriterOwns, ReaderOwns, Writing, Reading
<1> QED BY <1>1, <1>5, <1>6, LocalStep

LEMMA PopLocal ==
  ASSUME Capacity >= 2, TypeOK, SlotsAgree, NEW p \in Procs,
         \/ PopLoad(p) \/ PopSeesFilled(p) \/ PopEmpty(p)
         \/ PopYield(p) \/ PopRetry(p)
         \/ DiscardLoad(p) \/ DiscardSeesFilled(p) \/ DiscardEmpty(p)
         \/ DiscardStale(p) \/ DiscardLost(p)
  PROVE  SlotsAgree'
<1> USE DEF shared, Goto, Return, NextAttempt
<1>1. /\ UNCHANGED shared
      /\ \A r \in Procs \ {p} : /\ pc'[r] = pc[r]
                                /\ pos'[r] = pos[r]
                                /\ val'[r] = val[r]
      /\ pc'[p] \in {"idle", "popLoad", "popSeq", "popCas",
                     "disLoad", "disSeq", "disCas"}
  BY DEF TypeOK, PopLoad, PopSeesFilled, PopEmpty, PopYield, PopRetry,
         DiscardLoad, DiscardSeesFilled, DiscardEmpty, DiscardStale, DiscardLost
<1>2. pc'[p] \in {"popSeq", "popCas", "disSeq", "disCas"} => pos'[p] <= tail
  BY DEF TypeOK, SlotsAgree, PopperKnows,
         PopLoad, PopSeesFilled, PopEmpty, PopYield, PopRetry,
         DiscardLoad, DiscardSeesFilled, DiscardEmpty, DiscardStale, DiscardLost
<1>3. pc'[p] \in {"popCas", "disCas"} => PopDiff(p) = 0 /\ pos'[p] = pos[p]
  BY DEF TypeOK, PopLoad, PopSeesFilled, PopEmpty, PopYield, PopRetry,
         DiscardLoad, DiscardSeesFilled, DiscardEmpty, DiscardStale, DiscardLost
<1>4. ASSUME sequence[Slot(tail)] = tail + 1 PROVE tail < head
  <2>1. CASE head = tail
    <3>1. tail \in head .. tail + Capacity - 1 /\ tail \in Nat /\ Capacity \in Nat
      BY <2>1, CapacityAssumption DEF TypeOK
    <3>2. sequence[Slot(tail)] \in {tail, tail + 1 - Capacity}
      BY <3>1 DEF SlotsAgree, FreePart
    <3> QED BY <1>4, <3>1, <3>2
  <2> QED BY <2>1 DEF SlotsAgree, TypeOK
<1>5. PopperKnows(p)'
  <2>1. ASSUME pc'[p] \in {"popCas", "disCas"}, pos'[p] = tail
        PROVE  tail < head /\ sequence[Slot(tail)] = tail + 1
    <3>1. sequence[Slot(tail)] \in Nat /\ tail \in Nat
      BY SlotType DEF TypeOK
    <3>2. sequence[Slot(tail)] - (tail + 1) = 0
      BY <1>3, <2>1 DEF PopDiff
    <3> QED BY <1>4, <3>1, <3>2
  <2> QED BY <1>1, <1>2, <2>1 DEF PopperKnows, Slot
<1>6. PusherKnows(p)' /\ WriterOwns(p)' /\ ReaderOwns(p)' /\ ~Writing(p)' /\ ~Reading(p)'
  BY <1>1 DEF PusherKnows, WriterOwns, ReaderOwns, Writing, Reading, PushPcs
<1> QED BY <1>1, <1>5, <1>6, LocalStep

\* A call, a snapshot, and a pop's read of the slot it owns.
LEMMA OtherLocal ==
  ASSUME TypeOK, SlotsAgree, NEW p \in Procs,
         Call(p) \/ SnapshotHead(p) \/ SnapshotTail(p) \/ PopRead(p)
  PROVE  SlotsAgree'
<1> USE DEF shared, Goto, Return
<1>1. CASE Call(p)
  <2>1. /\ UNCHANGED <<head, tail, sequence, value, pos>>
        /\ pc[p] = "idle"
        /\ pc' = [pc EXCEPT ![p] = pc'[p]]
        /\ pc'[p] \in {"pushLoad", "popLoad", "disLoad", "snapHead"}
        /\ \A r \in Procs \ {p} : val'[r] = val[r]
        /\ pc'[p] = "pushLoad" => val'[p] \in Values
    BY <1>1 DEF TypeOK, Call, CallPush, CallPop, CallDiscard, CallSnapshot
  <2>2. \A r \in Procs \ {p} : pc'[r] = pc[r] /\ pos'[r] = pos[r]
    BY <2>1 DEF TypeOK
  <2>3. PusherKnows(p)' /\ PopperKnows(p)' /\ WriterOwns(p)' /\ ReaderOwns(p)'
    BY <2>1 DEF PusherKnows, PopperKnows, WriterOwns, ReaderOwns, Writing, Reading, PushPcs
  <2>4. ~Writing(p)' /\ ~Reading(p)'
    BY <2>1 DEF Writing, Reading
  <2> QED BY <2>1, <2>2, <2>3, <2>4, LocalStep
<1>2. CASE SnapshotHead(p) \/ SnapshotTail(p)
  <2>1. /\ UNCHANGED shared
        /\ \A r \in Procs \ {p} : pc'[r] = pc[r] /\ pos'[r] = pos[r] /\ val'[r] = val[r]
        /\ pc'[p] \in {"idle", "snapTail"}
        /\ pc'[p] = "snapTail" => pos'[p] = head
    BY <1>2 DEF TypeOK, SnapshotHead, SnapshotTail
  <2>2. PusherKnows(p)' /\ PopperKnows(p)' /\ WriterOwns(p)' /\ ReaderOwns(p)'
    BY <2>1 DEF TypeOK, PusherKnows, PopperKnows, WriterOwns, ReaderOwns, Writing, Reading, PushPcs
  <2>3. ~Writing(p)' /\ ~Reading(p)'
    BY <2>1 DEF Writing, Reading
  <2> QED BY <2>1, <2>2, <2>3, LocalStep
<1>3. CASE PopRead(p)
  <2>1. /\ UNCHANGED <<head, tail, sequence, value, pos>>
        /\ \A r \in Procs \ {p} : pc'[r] = pc[r] /\ val'[r] = val[r]
        /\ pc[p] = "popRead" /\ pc'[p] = "popClear"
        /\ val'[p] = value[Slot(pos[p])]
    BY <1>3 DEF TypeOK, PopRead
  <2>2. Reading(p) /\ Reading(p)' /\ ~Writing(p)'
    BY <2>1 DEF Reading, Writing
  <2>3. ReaderOwns(p)
    BY DEF SlotsAgree
  <2>4. ReaderOwns(p)'
    BY <2>1, <2>2, <2>3 DEF ReaderOwns, Slot
  <2>5. PusherKnows(p)' /\ PopperKnows(p)' /\ WriterOwns(p)'
    BY <2>1 DEF PusherKnows, PopperKnows, WriterOwns, Writing, PushPcs
  <2> QED BY <2>1, <2>2, <2>4, <2>5, LocalStep
<1> QED BY <1>1, <1>2, <1>3

\* The CAS on head: the slot it claims is free and nobody else's.
LEMMA ClaimHead ==
  ASSUME Capacity >= 2, TypeOK, SlotsAgree, NEW p \in Procs, PushClaim(p)
  PROVE  SlotsAgree'
<1> USE DEF Goto
<1>1. /\ pc[p] = "pushCas" /\ pos[p] = head /\ head' = head + 1
      /\ UNCHANGED <<tail, sequence, value, pos, val>>
      /\ pc'[p] = "pushWrite" /\ \A r \in Procs \ {p} : pc'[r] = pc[r]
      /\ head \in Nat /\ tail \in Nat /\ Capacity \in Nat
      /\ \A r \in Procs : pos[r] \in Nat
  BY CapacityAssumption DEF PushClaim, TypeOK
<1>2. PusherKnows(p) /\ head < tail + Capacity /\ sequence[Slot(head)] = head
  BY <1>1 DEF SlotsAgree, PusherKnows
<1>3. FilledPart'
  BY <1>1, <1>2 DEF SlotsAgree, FilledPart, Slot
<1>4. FreePart'
  <2>1. \A q \in head' .. tail' + Capacity - 1 : q \in head .. tail + Capacity - 1
    BY <1>1
  <2> QED BY <1>1, <2>1 DEF SlotsAgree, FreePart, Slot
<1>5. ASSUME NEW r \in Procs, Reading(r) PROVE pos[r] + Capacity # head
  <2>1. ReaderOwns(r)
    BY DEF SlotsAgree
  <2>2. sequence[Slot(pos[r])] = pos[r] + 1
    BY <1>5, <2>1 DEF ReaderOwns
  <2>3. Slot(pos[r] + Capacity) = Slot(pos[r])
    BY <1>1, SlotShift
  <2> QED BY <1>1, <1>2, <2>2, <2>3
<1>6. ASSUME NEW r \in Procs
      PROVE  PusherKnows(r)' /\ PopperKnows(r)' /\ WriterOwns(r)' /\ ReaderOwns(r)'
  <2>1. PusherKnows(r) /\ PopperKnows(r) /\ WriterOwns(r) /\ ReaderOwns(r)
    BY DEF SlotsAgree
  <2>2. PusherKnows(r)'
    BY <1>1, <2>1 DEF PusherKnows, PushPcs, Slot
  <2>3. PopperKnows(r)'
    BY <1>1, <2>1 DEF PopperKnows, Slot
  <2>4. WriterOwns(r)'
    BY <1>1, <1>2, <2>1 DEF SlotsAgree, WriterOwns, Writing, Slot
  <2>5. ReaderOwns(r)'
    BY <1>1, <1>5, <2>1 DEF ReaderOwns, Reading, Slot
  <2> QED BY <2>2, <2>3, <2>4, <2>5
<1>7. OwnersApart'
  <2>1. ASSUME NEW r \in Procs, Writing(r) PROVE pos[r] # head
    BY <1>1, <2>1 DEF SlotsAgree, WriterOwns
  <2> QED BY <1>1, <2>1 DEF SlotsAgree, OwnersApart, Writing, Reading
<1> QED BY <1>1, <1>2, <1>3, <1>4, <1>6, <1>7 DEF SlotsAgree

\* The CAS on tail, of Pop and of Discard.
LEMMA ClaimTail ==
  ASSUME TypeOK, SlotsAgree, NEW p \in Procs,
         PopClaim(p) \/ DiscardClaim(p)
  PROVE  SlotsAgree'
<1> USE DEF Goto
<1>1. /\ pc[p] \in {"popCas", "disCas"} /\ pos[p] = tail /\ tail' = tail + 1
      /\ UNCHANGED <<head, sequence, value, pos, val>>
      /\ pc'[p] \in {"popRead", "disClear"}
      /\ \A r \in Procs \ {p} : pc'[r] = pc[r]
      /\ head \in Nat /\ tail \in Nat /\ Capacity \in Nat \ {0}
      /\ \A r \in Procs : pos[r] \in Nat
  BY CapacityAssumption DEF PopClaim, DiscardClaim, TypeOK
<1>2. PopperKnows(p) /\ tail < head /\ sequence[Slot(tail)] = tail + 1
  BY <1>1 DEF SlotsAgree, PopperKnows
<1>3. FilledPart'
  BY <1>1, <1>2 DEF SlotsAgree, FilledPart, Slot
<1>4. FreePart'
  <2>1. Slot(tail + Capacity) = Slot(tail)
    BY <1>1, SlotShift
  <2> SUFFICES ASSUME NEW q \in head .. tail + Capacity
               PROVE  \/ sequence[Slot(q)] = q /\ value[Slot(q)] = Zero
                      \/ sequence[Slot(q)] = q + 1 - Capacity
    <3>1. \A q \in head' .. tail' + Capacity - 1 : q \in head .. tail + Capacity
      BY <1>1
    <3> QED BY <1>1, <3>1 DEF FreePart, Slot
  <2>2. CASE q = tail + Capacity
    BY <1>1, <1>2, <2>1, <2>2
  <2>3. CASE q \in head .. tail + Capacity - 1
    BY <2>3 DEF SlotsAgree, FreePart
  <2> QED BY <1>1, <2>2, <2>3
<1>5. ASSUME NEW r \in Procs, Writing(r) PROVE pos[r] # tail
  BY <1>1, <1>2, <1>5 DEF SlotsAgree, WriterOwns
<1>6. value[Slot(tail)] \in Values
  BY <1>1, <1>2 DEF SlotsAgree, FilledPart
<1>7. ASSUME NEW r \in Procs
      PROVE  PusherKnows(r)' /\ PopperKnows(r)' /\ WriterOwns(r)' /\ ReaderOwns(r)'
  <2>1. PusherKnows(r) /\ PopperKnows(r) /\ WriterOwns(r) /\ ReaderOwns(r)
    BY DEF SlotsAgree
  <2>2. PusherKnows(r)'
    BY <1>1, <2>1 DEF PusherKnows, PushPcs, Slot
  <2>3. PopperKnows(r)'
    BY <1>1, <2>1 DEF PopperKnows, Slot
  <2>4. WriterOwns(r)'
    BY <1>1, <1>5, <2>1 DEF WriterOwns, Writing, Slot
  <2>5. ReaderOwns(r)'
    BY <1>1, <1>2, <1>6, <2>1 DEF SlotsAgree, ReaderOwns, Reading, Slot
  <2> QED BY <2>2, <2>3, <2>4, <2>5
<1>8. OwnersApart'
  <2>1. ASSUME NEW r \in Procs, Reading(r) PROVE pos[r] # tail
    BY <1>1, <2>1 DEF SlotsAgree, ReaderOwns
  <2> QED BY <1>1, <2>1 DEF SlotsAgree, OwnersApart, Writing, Reading
<1> QED BY <1>1, <1>2, <1>3, <1>4, <1>7, <1>8 DEF SlotsAgree

\* Positions that own slots of one lap, or that lie within it, do not collide.
LEMMA OtherSlots ==
  ASSUME TypeOK, SlotsAgree, NEW p \in Procs, Writing(p) \/ Reading(p)
  PROVE  /\ Writing(p) => \A q \in tail .. tail + Capacity - 1 :
                            Slot(q) = Slot(pos[p]) => q = pos[p]
         /\ Reading(p) => \A q \in tail .. tail + Capacity - 1 :
                            Slot(q) = Slot(pos[p]) => q = pos[p] + Capacity
         /\ \A r \in Procs : /\ r # p
                             /\ Writing(r) \/ Reading(r)
                             => Slot(pos[r]) # Slot(pos[p])
<1>1. /\ head \in Nat /\ tail \in Nat /\ Capacity \in Nat \ {0}
      /\ \A r \in Procs : pos[r] \in Nat
      /\ tail <= head /\ head <= tail + Capacity
  BY CapacityAssumption DEF TypeOK, SlotsAgree
<1>2. \A r \in Procs : Writing(r) => tail <= pos[r] /\ pos[r] < head
  BY DEF SlotsAgree, WriterOwns
<1>3. \A r \in Procs : Reading(r) => pos[r] < tail /\ head <= pos[r] + Capacity
  BY DEF SlotsAgree, ReaderOwns
<1>4. ASSUME NEW q \in Nat, NEW r \in Nat, Slot(q) = Slot(r),
             q < r + Capacity, r < q + Capacity
      PROVE  q = r
  <2>1. CASE q <= r
    BY <1>4, <2>1, SlotInjective
  <2>2. CASE r <= q
    BY <1>4, <2>2, SlotInjective
  <2> QED BY <2>1, <2>2
<1>5. ASSUME Writing(p), NEW q \in tail .. tail + Capacity - 1,
             Slot(q) = Slot(pos[p])
      PROVE  q = pos[p]
  BY <1>1, <1>2, <1>4, <1>5
<1>6. ASSUME Reading(p), NEW q \in tail .. tail + Capacity - 1,
             Slot(q) = Slot(pos[p])
      PROVE  q = pos[p] + Capacity
  <2>1. Slot(pos[p] + Capacity) = Slot(pos[p])
    BY <1>1, SlotShift
  <2> QED BY <1>1, <1>3, <1>4, <1>6, <2>1
<1>7. ASSUME NEW r \in Procs, r # p, Writing(r) \/ Reading(r),
             Slot(pos[r]) = Slot(pos[p])
      PROVE  FALSE
  <2>1. CASE Writing(r) /\ Writing(p)
    BY <1>1, <1>2, <1>4, <1>7, <2>1 DEF SlotsAgree, OwnersApart
  <2>2. CASE Reading(r) /\ Reading(p)
    BY <1>1, <1>3, <1>4, <1>7, <2>2 DEF SlotsAgree, OwnersApart
  <2>3. CASE Writing(r) /\ Reading(p)
    BY <1>1, <1>2, <1>3, <1>4, <1>7, <2>3
  <2>4. CASE Reading(r) /\ Writing(p)
    BY <1>1, <1>2, <1>3, <1>4, <1>7, <2>4
  <2> QED BY <1>7, <2>1, <2>2, <2>3, <2>4
<1> QED BY <1>5, <1>6, <1>7

\* The plain stores to slot.value, by its owner.
LEMMA OwnerStores ==
  ASSUME TypeOK, SlotsAgree, NEW p \in Procs,
         PushWrite(p) \/ PopClear(p) \/ DiscardClear(p)
  PROVE  SlotsAgree'
<1> USE DEF Goto
<1> DEFINE i == Slot(pos[p])
<1>1. \/ /\ pc[p] = "pushWrite" /\ pc'[p] = "pushPublish" /\ val[p] \in Values
         /\ value' = [value EXCEPT ![i] = val[p]]
      \/ /\ pc[p] = "popClear" /\ pc'[p] = "popRelease"
         /\ value' = [value EXCEPT ![i] = Zero]
      \/ /\ pc[p] = "disClear" /\ pc'[p] = "disRelease"
         /\ value' = [value EXCEPT ![i] = Zero]
  BY DEF PushWrite, PopClear, DiscardClear, TypeOK, SlotsAgree, PusherKnows, PushPcs
<1>2. /\ UNCHANGED <<head, tail, sequence, pos, val>>
      /\ \A r \in Procs \ {p} : pc'[r] = pc[r]
      /\ head \in Nat /\ tail \in Nat /\ Capacity \in Nat \ {0}
      /\ \A r \in Procs : pos[r] \in Nat
      /\ value \in [Slots -> Values \cup {Zero}] /\ i \in Slots
      /\ tail <= head /\ head <= tail + Capacity
  BY CapacityAssumption, SlotType
     DEF PushWrite, PopClear, DiscardClear, TypeOK, SlotsAgree
<1>3. Writing(p) \/ Reading(p)
  BY <1>1 DEF Writing, Reading
<1>4. sequence[i] = pos[p] \/ sequence[i] = pos[p] + 1
  BY <1>3 DEF SlotsAgree, WriterOwns, ReaderOwns
<1>5. /\ value'[i] \in Values \/ value'[i] = Zero
      /\ \A j \in Slots \ {i} : value'[j] = value[j]
  BY <1>1, <1>2
<1>6. FilledPart'
  <2> SUFFICES ASSUME NEW q \in tail .. head - 1
               PROVE  \/ sequence[Slot(q)] = q
                      \/ sequence[Slot(q)] = q + 1 /\ value'[Slot(q)] \in Values
    BY <1>2 DEF FilledPart, Slot
  <2>1. \/ sequence[Slot(q)] = q
        \/ sequence[Slot(q)] = q + 1 /\ value[Slot(q)] \in Values
    BY DEF SlotsAgree, FilledPart
  <2>2. CASE Slot(q) # i
    BY <1>2, <1>5, <2>1, <2>2, SlotType
  <2>3. CASE Slot(q) = i /\ Writing(p)
    BY <1>2, <2>3, OtherSlots DEF SlotsAgree, WriterOwns
  <2>4. CASE Slot(q) = i /\ Reading(p)
    <3>1. q = pos[p] + Capacity
      BY <1>2, <2>4, OtherSlots
    <3>2. ReaderOwns(p)
      BY DEF SlotsAgree
    <3> QED BY <1>2, <2>4, <3>1, <3>2 DEF ReaderOwns
  <2> QED BY <1>3, <2>2, <2>3, <2>4
<1>7. FreePart'
  <2> SUFFICES ASSUME NEW q \in head .. tail + Capacity - 1
               PROVE  \/ sequence[Slot(q)] = q /\ value'[Slot(q)] = Zero
                      \/ sequence[Slot(q)] = q + 1 - Capacity
    BY <1>2 DEF FreePart, Slot
  <2>1. \/ sequence[Slot(q)] = q /\ value[Slot(q)] = Zero
        \/ sequence[Slot(q)] = q + 1 - Capacity
    BY DEF SlotsAgree, FreePart
  <2>2. CASE Slot(q) # i
    BY <1>2, <1>5, <2>1, <2>2, SlotType
  <2>3. CASE Slot(q) = i /\ Writing(p)
    <3>1. q = pos[p]
      BY <1>2, <2>3, OtherSlots
    <3> QED BY <1>2, <2>3, <3>1 DEF SlotsAgree, WriterOwns
  <2>4. CASE Slot(q) = i /\ Reading(p)
    <3>1. q = pos[p] + Capacity
      BY <1>2, <2>4, OtherSlots
    <3>2. sequence[i] = pos[p] + 1
      BY <2>4 DEF SlotsAgree, ReaderOwns
    <3> QED BY <1>2, <2>4, <3>1, <3>2
  <2> QED BY <1>3, <2>2, <2>3, <2>4
<1>8. ASSUME NEW r \in Procs
      PROVE  PusherKnows(r)' /\ PopperKnows(r)' /\ WriterOwns(r)' /\ ReaderOwns(r)'
  <2>1. PusherKnows(r) /\ PopperKnows(r) /\ WriterOwns(r) /\ ReaderOwns(r)
    BY DEF SlotsAgree
  <2>2. PusherKnows(r)' /\ PopperKnows(r)'
    BY <1>1, <1>2, <2>1 DEF PusherKnows, PopperKnows, PushPcs, Slot
  <2>3. CASE r = p
    <3>1. value'[i] = IF pc[p] = "pushWrite" THEN val[p] ELSE Zero
      BY <1>1, <1>2
    <3> QED BY <1>1, <1>2, <2>1, <2>2, <2>3, <3>1
            DEF WriterOwns, ReaderOwns, Writing, Reading, Slot
  <2>4. CASE r # p
    <3>1. Writing(r) \/ Reading(r) => value'[Slot(pos[r])] = value[Slot(pos[r])]
      BY <1>2, <1>3, <1>5, <2>4, OtherSlots, SlotType
    <3> QED BY <1>2, <2>1, <2>2, <2>4, <3>1
            DEF WriterOwns, ReaderOwns, Writing, Reading, Slot
  <2> QED BY <2>3, <2>4
<1>9. OwnersApart'
  <2>1. (Writing(p)' <=> Writing(p)) /\ (Reading(p)' <=> Reading(p))
    BY <1>1 DEF Writing, Reading
  <2> QED BY <1>2, <2>1 DEF SlotsAgree, OwnersApart, Writing, Reading
<1> QED BY <1>2, <1>6, <1>7, <1>8, <1>9 DEF SlotsAgree

\* The atomic store that hands a slot over, by the pushes and by the poppers.
LEMMA OwnerHandsOver ==
  ASSUME Capacity >= 2, TypeOK, SlotsAgree, NEW p \in Procs,
         PushPublish(p) \/ PopRelease(p) \/ DiscardRelease(p)
  PROVE  SlotsAgree'
<1> USE DEF Goto, Return, NextAttempt
<1> DEFINE i == Slot(pos[p])
<1>1. \/ /\ pc[p] = "pushPublish" /\ value[i] \in Values
         /\ sequence' = [sequence EXCEPT ![i] = pos[p] + 1]
      \/ /\ pc[p] \in {"popRelease", "disRelease"} /\ value[i] = Zero
         /\ sequence' = [sequence EXCEPT ![i] = pos[p] + Capacity]
  BY DEF PushPublish, PopRelease, DiscardRelease, SlotsAgree,
         WriterOwns, ReaderOwns, Writing, Reading
<1>2. /\ UNCHANGED <<head, tail, value>>
      /\ \A r \in Procs \ {p} : pc'[r] = pc[r] /\ pos'[r] = pos[r] /\ val'[r] = val[r]
      /\ pc'[p] \in {"idle", "disLoad"}
  BY DEF PushPublish, PopRelease, DiscardRelease, TypeOK
<1>3. /\ head \in Nat /\ tail \in Nat /\ Capacity \in Nat
      /\ \A r \in Procs : pos[r] \in Nat
      /\ sequence \in [Slots -> Nat] /\ i \in Slots
      /\ tail <= head /\ head <= tail + Capacity
  BY CapacityAssumption, SlotType DEF TypeOK, SlotsAgree
<1>4. (Writing(p) <=> pc[p] = "pushPublish") /\ (Reading(p) <=> pc[p] # "pushPublish")
  BY <1>1 DEF Writing, Reading
<1>5. WriterOwns(p) /\ ReaderOwns(p)
  BY DEF SlotsAgree
<1>6. /\ sequence'[i] = IF Writing(p) THEN pos[p] + 1 ELSE pos[p] + Capacity
      /\ \A j \in Slots \ {i} : sequence'[j] = sequence[j]
  BY <1>1, <1>3, <1>4
<1>7. FilledPart'
  <2> SUFFICES ASSUME NEW q \in tail .. head - 1
               PROVE  \/ sequence'[Slot(q)] = q
                      \/ sequence'[Slot(q)] = q + 1 /\ value[Slot(q)] \in Values
    BY <1>2 DEF FilledPart, Slot
  <2>1. CASE Slot(q) # i
    BY <1>3, <1>6, <2>1, SlotType DEF SlotsAgree, FilledPart
  <2>2. CASE Slot(q) = i /\ Writing(p)
    <3>1. q = pos[p]
      BY <1>3, <2>2, OtherSlots
    <3> QED BY <1>1, <1>4, <1>6, <2>2, <3>1
  <2>3. CASE Slot(q) = i /\ Reading(p)
    <3>1. q = pos[p] + Capacity
      BY <1>3, <2>3, OtherSlots
    <3> QED BY <1>3, <1>5, <2>3, <3>1 DEF ReaderOwns
  <2> QED BY <1>4, <2>1, <2>2, <2>3
<1>8. FreePart'
  <2> SUFFICES ASSUME NEW q \in head .. tail + Capacity - 1
               PROVE  \/ sequence'[Slot(q)] = q /\ value[Slot(q)] = Zero
                      \/ sequence'[Slot(q)] = q + 1 - Capacity
    BY <1>2 DEF FreePart, Slot
  <2>1. CASE Slot(q) # i
    BY <1>3, <1>6, <2>1, SlotType DEF SlotsAgree, FreePart
  <2>2. CASE Slot(q) = i /\ Writing(p)
    <3>1. q = pos[p]
      BY <1>3, <2>2, OtherSlots
    <3> QED BY <1>3, <1>5, <2>2, <3>1 DEF WriterOwns
  <2>3. CASE Slot(q) = i /\ Reading(p)
    <3>1. q = pos[p] + Capacity
      BY <1>3, <2>3, OtherSlots
    <3> QED BY <1>1, <1>4, <1>6, <2>3, <3>1
  <2> QED BY <1>4, <2>1, <2>2, <2>3
<1>9. ASSUME Slot(head) = i, sequence[i] = head, head < tail + Capacity
      PROVE  sequence'[i] = head
  <2>1. CASE Writing(p)
    <3>1. head = pos[p]
      BY <1>3, <1>9, <2>1, OtherSlots
    <3> QED BY <1>3, <1>5, <2>1, <3>1 DEF WriterOwns
  <2>2. CASE Reading(p)
    <3>1. head = pos[p] + Capacity
      BY <1>3, <1>9, <2>2, OtherSlots
    <3> QED BY <1>4, <1>6, <2>2, <3>1
  <2> QED BY <1>4, <2>1, <2>2
<1>10. ASSUME Slot(tail) = i, sequence[i] = tail + 1, tail < head
       PROVE  sequence'[i] = tail + 1
  <2>0. tail \in tail .. tail + Capacity - 1
    BY <1>3
  <2>1. CASE Writing(p)
    <3>1. tail = pos[p]
      BY <1>10, <2>0, <2>1, OtherSlots
    <3> QED BY <1>6, <2>1, <3>1
  <2>2. CASE Reading(p)
    <3>1. tail = pos[p] + Capacity
      BY <1>10, <2>0, <2>2, OtherSlots
    <3> QED BY <1>3, <1>5, <1>10, <2>2, <3>1 DEF ReaderOwns
  <2> QED BY <1>4, <2>1, <2>2
<1>11. ASSUME NEW r \in Procs
       PROVE  PusherKnows(r)' /\ PopperKnows(r)' /\ WriterOwns(r)' /\ ReaderOwns(r)'
  <2>1. PusherKnows(r) /\ PopperKnows(r) /\ WriterOwns(r) /\ ReaderOwns(r)
    BY DEF SlotsAgree
  <2>2. CASE r = p
    BY <1>2, <2>2 DEF PusherKnows, PopperKnows, WriterOwns, ReaderOwns,
                      Writing, Reading, PushPcs
  <2>3. CASE r # p
    <3>1. PusherKnows(r)'
      <4>1. sequence[Slot(head)] = head /\ head < tail + Capacity
              => sequence'[Slot(head)] = head
        BY <1>3, <1>6, <1>9, SlotType
      <4> QED BY <1>2, <2>1, <2>3, <4>1 DEF PusherKnows, PushPcs, Slot
    <3>2. PopperKnows(r)'
      <4>1. sequence[Slot(tail)] = tail + 1 /\ tail < head
              => sequence'[Slot(tail)] = tail + 1
        BY <1>3, <1>6, <1>10, SlotType
      <4> QED BY <1>2, <2>1, <2>3, <4>1 DEF PopperKnows, Slot
    <3>3. Writing(r) \/ Reading(r) => sequence'[Slot(pos[r])] = sequence[Slot(pos[r])]
      BY <1>3, <1>4, <1>6, <2>3, OtherSlots, SlotType
    <3>4. WriterOwns(r)' /\ ReaderOwns(r)'
      BY <1>2, <2>1, <2>3, <3>3 DEF WriterOwns, ReaderOwns, Writing, Reading, Slot
    <3> QED BY <3>1, <3>2, <3>4
  <2> QED BY <2>2, <2>3
<1>12. OwnersApart'
  BY <1>2 DEF SlotsAgree, OwnersApart, Writing, Reading
<1> QED BY <1>2, <1>3, <1>7, <1>8, <1>11, <1>12 DEF SlotsAgree

\* Reset by the one goroutine that uses the buffer.
LEMMA ResetAgrees == ASSUME Reset PROVE SlotsAgree'
<1> USE CapacityAssumption
<1>1. /\ head' = 0 /\ tail' = 0
      /\ sequence' = [j \in Slots |-> j] /\ value' = [j \in Slots |-> Zero]
      /\ \A r \in Procs : pc'[r] = "idle"
  BY DEF Reset
<1>2. FilledPart'
  BY <1>1 DEF FilledPart
<1>3. FreePart'
  BY <1>1, SlotFirstLap DEF FreePart, Slots, Slot
<1>4. ASSUME NEW r \in Procs
      PROVE  PusherKnows(r)' /\ PopperKnows(r)' /\ WriterOwns(r)' /\ ReaderOwns(r)'
  BY <1>1 DEF PusherKnows, PopperKnows, WriterOwns, ReaderOwns, Writing, Reading, PushPcs
<1>5. OwnersApart'
  BY <1>1 DEF OwnersApart, Writing, Reading
<1> QED BY <1>1, <1>2, <1>3, <1>4, <1>5 DEF SlotsAgree

LEMMA InitAgrees == Init => SlotsAgree
<1> SUFFICES ASSUME Init PROVE SlotsAgree
  OBVIOUS
<1> USE CapacityAssumption
<1>1. FilledPart
  BY DEF Init, FilledPart
<1>2. FreePart
  BY SlotFirstLap DEF Init, FreePart, Slots
<1>3. ASSUME NEW r \in Procs
      PROVE  PusherKnows(r) /\ PopperKnows(r) /\ WriterOwns(r) /\ ReaderOwns(r)
  BY DEF Init, PusherKnows, PopperKnows, WriterOwns, ReaderOwns, Writing, Reading, PushPcs
<1>4. OwnersApart
  BY DEF Init, OwnersApart, Writing, Reading
<1> QED BY <1>1, <1>2, <1>3, <1>4 DEF Init, SlotsAgree

LEMMA StepAgrees == ASSUME Capacity >= 2, TypeOK, SlotsAgree, [Next]_vars
                    PROVE  SlotsAgree'
<1>1. ASSUME NEW p \in Procs, Call(p) \/ Step(p) PROVE SlotsAgree'
  <2>1. CASE Call(p) \/ SnapshotHead(p) \/ SnapshotTail(p) \/ PopRead(p)
    BY <2>1, OtherLocal
  <2>2. CASE PushStep(p)
    BY <2>2, PushLocal, ClaimHead, OwnerStores, OwnerHandsOver DEF PushStep
  <2>3. CASE PopStep(p)
    BY <2>1, <2>3, PopLocal, ClaimTail, OwnerStores, OwnerHandsOver DEF PopStep
  <2>4. CASE DiscardStep(p)
    BY <2>4, PopLocal, ClaimTail, OwnerStores, OwnerHandsOver DEF DiscardStep
  <2> QED BY <1>1, <2>1, <2>2, <2>3, <2>4 DEF Step
<1>2. CASE Reset
  BY <1>2, ResetAgrees
<1>3. CASE UNCHANGED vars
  BY <1>3 DEF vars, SlotsAgree, FilledPart, FreePart, PusherKnows, PopperKnows,
              WriterOwns, ReaderOwns, OwnersApart, Writing, Reading, Slot
<1> QED BY <1>1, <1>2, <1>3 DEF Next

\* The sequence number of every slot always agrees with head, tail and the
\* goroutines between a CAS and the store that hands the slot over.
THEOREM SlotsAlwaysAgree == ASSUME Capacity >= 2 PROVE Spec => []SlotsAgree
<1>1. Init => SlotsAgree
  BY InitAgrees
<1>2. TypeOK /\ SlotsAgree /\ [Next]_vars => SlotsAgree'
  BY StepAgrees
<1> QED BY <1>1, <1>2, TypeCorrect, PTL DEF Spec

\* No two goroutines are ever between the CAS that claims a slot and the store
\* that hands it over on one slot: the plain accesses to slot.value in Push,
\* Pop and Discard never race.
THEOREM Exclusive == ASSUME Capacity >= 2 PROVE Spec => []SlotExclusive
<1>1. TypeOK /\ SlotsAgree => SlotExclusive
  BY OtherSlots DEF SlotExclusive
<1> QED BY <1>1, TypeCorrect, SlotsAlwaysAgree, PTL

\* head and tail, each advanced by a CAS that looks at one slot only, never
\* cross and are never more than a lap apart: no push overwrites a value and no
\* pop returns one that was never pushed.
THEOREM Bounded == ASSUME Capacity >= 2 PROVE Spec => []OccupancyBounded
<1>1. TypeOK /\ SlotsAgree => OccupancyBounded
  BY CapacityAssumption DEF TypeOK, SlotsAgree, OccupancyBounded
<1> QED BY <1>1, TypeCorrect, SlotsAlwaysAgree, PTL

\* A released slot holds no reference: Pop and Discard clear before they store
\* the sequence, and nobody writes a slot in between.
THEOREM Cleared == ASSUME Capacity >= 2 PROVE Spec => []FreeSlotsCleared
<1>1. TypeOK /\ SlotsAgree => FreeSlotsCleared
  <2> SUFFICES ASSUME TypeOK, SlotsAgree,
                      NEW q \in head .. tail + Capacity - 1, sequence[Slot(q)] = q
               PROVE  value[Slot(q)] = Zero
    BY DEF FreeSlotsCleared
  <2>1. q \in Nat /\ Capacity \in Nat
    BY CapacityAssumption DEF TypeOK
  <2> QED BY <2>1 DEF SlotsAgree, FreePart
<1> QED BY <1>1, TypeCorrect, SlotsAlwaysAgree, PTL

\* A successful Pop returns a pushed value, never a slot's zero value.
THEOREM PopsPushed == ASSUME Capacity >= 2 PROVE Spec => []PopReturnsPushed
<1>1. SlotsAgree => PopReturnsPushed
  BY DEF SlotsAgree, ReaderOwns, Reading, PopReturnsPushed
<1> QED BY <1>1, SlotsAlwaysAgree, PTL

\* Len's two loads, head first, never make it report more than the capacity.
THEOREM LenBounded == ASSUME Capacity >= 2 PROVE Spec => []LenAtMostCapacity
<1>1. TypeOK /\ SlotsAgree => LenAtMostCapacity
  BY CapacityAssumption
     DEF TypeOK, SlotsAgree, PusherKnows, LenAtMostCapacity, LenResult
<1> QED BY <1>1, TypeCorrect, SlotsAlwaysAgree, PTL

LEMMA SequencesGrow ==
  ASSUME TypeOK, SlotsAgree, Capacity >= 2, [Next]_vars, ~Reset
  PROVE  \A i \in Slots : sequence'[i] >= sequence[i]
<1>1. CASE UNCHANGED sequence
  BY <1>1 DEF TypeOK
<1>2. ASSUME NEW p \in Procs,
             PushPublish(p) \/ PopRelease(p) \/ DiscardRelease(p)
      PROVE  \A i \in Slots : sequence'[i] >= sequence[i]
  <2>1. /\ sequence \in [Slots -> Nat] /\ pos[p] \in Nat
        /\ Slot(pos[p]) \in Slots /\ Capacity \in Nat \ {0}
    BY SlotType, CapacityAssumption DEF TypeOK
  <2>2. \/ /\ sequence[Slot(pos[p])] = pos[p]
           /\ sequence' = [sequence EXCEPT ![Slot(pos[p])] = pos[p] + 1]
        \/ /\ sequence[Slot(pos[p])] = pos[p] + 1
           /\ sequence' = [sequence EXCEPT ![Slot(pos[p])] = pos[p] + Capacity]
    BY <1>2 DEF PushPublish, PopRelease, DiscardRelease, Goto, Return,
                NextAttempt, SlotsAgree, WriterOwns, ReaderOwns, Writing, Reading
  <2> QED BY <2>1, <2>2
<1>3. UNCHANGED sequence \/ \E p \in Procs :
        PushPublish(p) \/ PopRelease(p) \/ DiscardRelease(p)
  BY DEF Next, vars, shared, Call, Step, CallPush, CallPop, CallDiscard, CallSnapshot,
         PushStep, PushLoad, PushSeesFree, PushFull, PushYield, PushClaim,
         PushRetry, PushWrite, PopStep, PopLoad, PopSeesFilled, PopEmpty,
         PopYield, PopClaim, PopRetry, PopRead, PopClear, DiscardStep,
         DiscardLoad, DiscardSeesFilled, DiscardEmpty, DiscardStale,
         DiscardClaim, DiscardLost, DiscardClear, SnapshotHead, SnapshotTail
<1> QED BY <1>1, <1>2, <1>3

\* LOCKFREE_DESIGN.md's argument against ABA: no step but Reset ever lowers a
\* slot's sequence number.
THEOREM Increasing == ASSUME Capacity >= 2 PROVE Spec => SequenceIncreases
<1>1. TypeOK /\ SlotsAgree /\ [Next]_vars =>
        Reset \/ \A i \in Slots : sequence'[i] >= sequence[i]
  BY SequencesGrow
<1> QED BY <1>1, TypeCorrect, SlotsAlwaysAgree, PTL DEF Spec, SequenceIncreases

-----------------------------------------------------------------------------
(* Owners of claimed slots, and what a failed operation has seen.          *)

\* What the owners and the two counters do to ClaimsHaveOwners: a slot is claimed
\* together with becoming its owner and handed over together with leaving it.
LEMMA ClaimKeepsOwners ==
  ASSUME TypeOK, SlotsAgree, ClaimsHaveOwners, NEW p \in Procs,
         PushClaim(p) \/ PopClaim(p) \/ DiscardClaim(p)
  PROVE  ClaimsHaveOwners'
<1> USE DEF Goto
<1>1. /\ head \in Nat /\ tail \in Nat /\ Capacity \in Nat \ {0}
      /\ UNCHANGED <<sequence, pos>>
      /\ \A r \in Procs \ {p} : pc'[r] = pc[r]
      /\ ~Writing(p) /\ ~Reading(p)
      /\ pc \in [Procs -> Pcs]
  BY CapacityAssumption
     DEF TypeOK, PushClaim, PopClaim, DiscardClaim, Writing, Reading
<1>2. \A r \in Procs : (Writing(r) => Writing(r)') /\ (Reading(r) => Reading(r)')
  BY <1>1 DEF Writing, Reading
<1>3. CASE PushClaim(p)
  <2>1. head' = head + 1 /\ tail' = tail /\ pos[p] = head /\ Writing(p)'
    BY <1>1, <1>3 DEF PushClaim, Writing, TypeOK
  <2>2. ASSUME NEW q \in tail .. head, sequence[Slot(q)] = q
        PROVE  \E r \in Procs : Writing(r)' /\ pos[r] = q
    <3>1. CASE q = head
      BY <2>1, <3>1
    <3>2. CASE q \in tail .. head - 1
      BY <1>2, <2>2, <3>2 DEF ClaimsHaveOwners
    <3> QED BY <1>1, <3>1, <3>2
  <2>3. ASSUME NEW q \in head + 1 .. tail + Capacity - 1,
               sequence[Slot(q)] = q + 1 - Capacity
        PROVE  \E r \in Procs : Reading(r)' /\ pos[r] = q - Capacity
    <3>1. q \in head .. tail + Capacity - 1
      BY <1>1
    <3> QED BY <1>2, <2>3, <3>1 DEF ClaimsHaveOwners
  <2>4. /\ tail' .. head' - 1 = tail .. head
        /\ head' .. tail' + Capacity - 1 = head + 1 .. tail + Capacity - 1
    BY <1>1, <2>1
  <2>5. \A q : Slot(q)' = Slot(q)
    BY DEF Slot
  <2> QED BY <1>1, <2>2, <2>3, <2>4, <2>5 DEF ClaimsHaveOwners
<1>4. CASE PopClaim(p) \/ DiscardClaim(p)
  <2>1. tail' = tail + 1 /\ head' = head /\ pos[p] = tail /\ Reading(p)'
    BY <1>1, <1>4 DEF PopClaim, DiscardClaim, Reading, TypeOK
  <2>2. ASSUME NEW q \in tail + 1 .. head - 1, sequence[Slot(q)] = q
        PROVE  \E r \in Procs : Writing(r)' /\ pos[r] = q
    <3>1. q \in tail .. head - 1
      BY <1>1
    <3> QED BY <1>2, <2>2, <3>1 DEF ClaimsHaveOwners
  <2>3. ASSUME NEW q \in head .. tail + Capacity,
               sequence[Slot(q)] = q + 1 - Capacity
        PROVE  \E r \in Procs : Reading(r)' /\ pos[r] = q - Capacity
    <3>1. CASE q = tail + Capacity
      BY <1>1, <2>1, <3>1
    <3>2. CASE q \in head .. tail + Capacity - 1
      BY <1>2, <2>3, <3>2 DEF ClaimsHaveOwners
    <3> QED BY <1>1, <3>1, <3>2
  <2>4. /\ tail' .. head' - 1 = tail + 1 .. head - 1
        /\ head' .. tail' + Capacity - 1 = head .. tail + Capacity
    BY <1>1, <2>1
  <2>5. \A q : Slot(q)' = Slot(q)
    BY DEF Slot
  <2> QED BY <1>1, <2>2, <2>3, <2>4, <2>5 DEF ClaimsHaveOwners
<1> QED BY <1>3, <1>4

LEMMA HandOverKeepsOwners ==
  ASSUME Capacity >= 2, TypeOK, SlotsAgree, ClaimsHaveOwners, NEW p \in Procs,
         PushPublish(p) \/ PopRelease(p) \/ DiscardRelease(p)
  PROVE  ClaimsHaveOwners'
<1> USE DEF Goto, Return, NextAttempt
<1> DEFINE i == Slot(pos[p])
<1>1. /\ head \in Nat /\ tail \in Nat /\ Capacity \in Nat \ {0}
      /\ tail <= head /\ head <= tail + Capacity
      /\ UNCHANGED <<head, tail>>
      /\ \A r \in Procs \ {p} : pc'[r] = pc[r] /\ pos'[r] = pos[r]
      /\ \A r \in Procs : pos[r] \in Nat
      /\ sequence \in [Slots -> Nat] /\ i \in Slots
  BY CapacityAssumption, SlotType
     DEF TypeOK, SlotsAgree, PushPublish, PopRelease, DiscardRelease
<1>2. \A r \in Procs \ {p} : (Writing(r) => Writing(r)') /\ (Reading(r) => Reading(r)')
  BY <1>1 DEF Writing, Reading
<1>3. \/ /\ Writing(p) /\ ~Reading(p)
         /\ sequence' = [sequence EXCEPT ![i] = pos[p] + 1]
      \/ /\ Reading(p) /\ ~Writing(p)
         /\ sequence' = [sequence EXCEPT ![i] = pos[p] + Capacity]
  BY DEF PushPublish, PopRelease, DiscardRelease, Writing, Reading
<1>4. \A j \in Slots \ {i} : sequence'[j] = sequence[j]
  BY <1>1, <1>3
<1>5. ASSUME NEW q \in tail .. head - 1, sequence'[Slot(q)] = q
      PROVE  \E r \in Procs : Writing(r)' /\ pos'[r] = q
  <2>1. q \in Nat /\ q \in tail .. tail + Capacity - 1 /\ Slot(q) \in Slots
    BY <1>1, SlotType
  <2>2. CASE Slot(q) # i
    <3>1. PICK r \in Procs : Writing(r) /\ pos[r] = q
      BY <1>4, <1>5, <2>1, <2>2 DEF ClaimsHaveOwners
    <3> QED BY <1>1, <1>2, <2>2, <3>1
  <2>3. CASE Slot(q) = i /\ Writing(p)
    BY <1>1, <1>3, <1>5, <2>1, <2>3, OtherSlots
  <2>4. CASE Slot(q) = i /\ Reading(p)
    <3>1. q = pos[p] + Capacity
      BY <2>1, <2>4, OtherSlots
    <3>2. head <= pos[p] + Capacity
      BY <2>4 DEF SlotsAgree, ReaderOwns
    <3> QED BY <1>1, <3>1, <3>2
  <2> QED BY <1>3, <2>2, <2>3, <2>4
<1>6. ASSUME NEW q \in head .. tail + Capacity - 1,
             sequence'[Slot(q)] = q + 1 - Capacity
      PROVE  \E r \in Procs : Reading(r)' /\ pos'[r] = q - Capacity
  <2>1. q \in Nat /\ q \in tail .. tail + Capacity - 1 /\ Slot(q) \in Slots
    BY <1>1, SlotType
  <2>2. CASE Slot(q) # i
    <3>1. PICK r \in Procs : Reading(r) /\ pos[r] = q - Capacity
      BY <1>4, <1>6, <2>1, <2>2 DEF ClaimsHaveOwners
    <3>2. CASE r = p
      <4>1. Slot(pos[p] + Capacity) = i /\ pos[p] + Capacity = q
        BY <1>1, <3>1, <3>2, <2>1, SlotShift
      <4> QED BY <2>2, <4>1
    <3> QED BY <1>1, <1>2, <3>1, <3>2
  <2>3. CASE Slot(q) = i /\ Writing(p)
    <3>1. q = pos[p] /\ pos[p] < head
      BY <2>1, <2>3, OtherSlots DEF SlotsAgree, WriterOwns
    <3> QED BY <1>1, <3>1
  <2>4. CASE Slot(q) = i /\ Reading(p)
    BY <1>1, <1>3, <1>6, <2>1, <2>4, OtherSlots
  <2> QED BY <1>3, <2>2, <2>3, <2>4
<1>7. \A q : Slot(q)' = Slot(q)
  BY DEF Slot
<1> HIDE DEF i
<1> QED BY <1>1, <1>5, <1>6, <1>7 DEF ClaimsHaveOwners

\* Every other step leaves head, tail and the sequences alone, and the owners too.
LEMMA OthersKeepOwners ==
  ASSUME TypeOK, ClaimsHaveOwners, NEW p \in Procs, Call(p) \/ Step(p),
         ~(PushClaim(p) \/ PopClaim(p) \/ DiscardClaim(p)),
         ~(PushPublish(p) \/ PopRelease(p) \/ DiscardRelease(p))
  PROVE  /\ ClaimsHaveOwners'
         /\ UNCHANGED <<head, tail, sequence>>
<1>1. /\ UNCHANGED <<head, tail, sequence>>
      /\ \A r \in Procs \ {p} : pc'[r] = pc[r] /\ pos'[r] = pos[r]
      /\ Writing(p) => Writing(p)' /\ pos'[p] = pos[p]
      /\ Reading(p) => Reading(p)' /\ pos'[p] = pos[p]
  <2> USE DEF Writing, Reading, TypeOK, shared, Goto, Return
  <2>1. CASE Call(p)
    BY <2>1 DEF Call, CallPush, CallPop, CallDiscard, CallSnapshot
  <2>2. CASE PushStep(p)
    BY <2>2 DEF PushStep, PushLoad, PushSeesFree, PushFull, PushYield, PushRetry, PushWrite
  <2>3. CASE PopStep(p)
    BY <2>3 DEF PopStep, PopLoad, PopSeesFilled, PopEmpty, PopYield, PopRetry,
                PopRead, PopClear
  <2>4. CASE DiscardStep(p)
    BY <2>4 DEF DiscardStep, DiscardLoad, DiscardSeesFilled, DiscardEmpty, DiscardStale,
                DiscardLost, DiscardClear, NextAttempt
  <2>5. CASE SnapshotHead(p) \/ SnapshotTail(p)
    BY <2>5 DEF SnapshotHead, SnapshotTail
  <2> QED BY <2>1, <2>2, <2>3, <2>4, <2>5 DEF Step
<1>2. \A r \in Procs : /\ Writing(r) => Writing(r)' /\ pos'[r] = pos[r]
                       /\ Reading(r) => Reading(r)' /\ pos'[r] = pos[r]
  BY <1>1 DEF Writing, Reading
<1>3. \A q : Slot(q)' = Slot(q)
  BY DEF Slot
<1>4. ASSUME NEW q \in tail .. head - 1, sequence[Slot(q)] = q
      PROVE  \E r \in Procs : Writing(r)' /\ pos'[r] = q
  BY <1>2, <1>4 DEF ClaimsHaveOwners
<1>5. ASSUME NEW q \in head .. tail + Capacity - 1, sequence[Slot(q)] = q + 1 - Capacity
      PROVE  \E r \in Procs : Reading(r)' /\ pos'[r] = q - Capacity
  BY <1>2, <1>5 DEF ClaimsHaveOwners
<1> QED BY <1>1, <1>3, <1>4, <1>5 DEF ClaimsHaveOwners

LEMMA StepKeepsOwners ==
  ASSUME Capacity >= 2, TypeOK, SlotsAgree, ClaimsHaveOwners, [Next]_vars
  PROVE  ClaimsHaveOwners'
<1>1. CASE \E p \in Procs : Call(p) \/ Step(p)
  BY <1>1, ClaimKeepsOwners, HandOverKeepsOwners, OthersKeepOwners
<1>2. CASE Reset
  <2>1. /\ head' = 0 /\ tail' = 0 /\ Capacity \in Nat
        /\ \A q \in Slots : sequence'[q] = q
    BY <1>2, CapacityAssumption DEF Reset
  <2>2. \A q \in 0 .. Capacity - 1 : Slot(q)' = q /\ q \in Slots
    BY <2>1, SlotFirstLap DEF Slots, Slot
  <2> QED BY <2>1, <2>2 DEF ClaimsHaveOwners
<1>3. CASE UNCHANGED vars
  BY <1>3 DEF vars, ClaimsHaveOwners, Writing, Reading, Slot
<1> QED BY <1>1, <1>2, <1>3 DEF Next

\* A slot between a claim and its release is in the hands of a goroutine inside
\* Push, Pop or Discard: none is ever lost to the buffer.
THEOREM NoSlotLost == ASSUME Capacity >= 2 PROVE Spec => []ClaimsHaveOwners
<1>1. Init => ClaimsHaveOwners
  <2> SUFFICES ASSUME Init PROVE ClaimsHaveOwners
    OBVIOUS
  <2>1. Capacity \in Nat /\ \A q \in 0 .. Capacity - 1 : Slot(q) = q /\ q \in Slots
    BY CapacityAssumption, SlotFirstLap DEF Slots
  <2> QED BY <2>1 DEF Init, ClaimsHaveOwners
<1>2. TypeOK /\ SlotsAgree /\ ClaimsHaveOwners /\ [Next]_vars => ClaimsHaveOwners'
  BY StepKeepsOwners
<1> QED BY <1>1, <1>2, TypeCorrect, SlotsAlwaysAgree, PTL DEF Spec

\* What a position loaded some time ago says: its slot has moved on with it.
OldLoads ==
  \A p \in Procs :
    /\ pc[p] = "pushSeq" /\ pos[p] < head => sequence[Slot(pos[p])] >= pos[p]
    /\ pc[p] = "popSeq" /\ pos[p] < tail => sequence[Slot(pos[p])] > pos[p]

LEMMA StepKeepsOldLoads ==
  ASSUME Capacity >= 2, TypeOK, TypeOK', SlotsAgree, ClaimsHaveOwners, OldLoads, [Next]_vars
  PROVE  OldLoads'
<1>1. CASE Reset
  BY <1>1 DEF Reset, OldLoads
<1>2. CASE UNCHANGED vars
  BY <1>2 DEF vars, OldLoads, Slot
<1>3. ASSUME NEW p \in Procs, Call(p) \/ Step(p), ~Reset PROVE OldLoads'
  <2>1. \A i \in Slots : sequence'[i] >= sequence[i]
    BY <1>3, SequencesGrow DEF Next
  <2>2. /\ pos \in [Procs -> Nat] /\ pos' \in [Procs -> Nat]
        /\ sequence \in [Slots -> Nat] /\ sequence' \in [Slots -> Nat]
        /\ head \in Nat /\ tail \in Nat
        /\ \A q \in Nat : Slot(q) \in Slots /\ Slot(q)' = Slot(q)
    BY SlotType DEF TypeOK, Slots, Slot
  <2>3. head' = head \/ (head' = head + 1 /\ sequence[Slot(head)] = head)
    <3>1. CASE PushClaim(p)
      BY <3>1 DEF PushClaim, Goto, SlotsAgree, PusherKnows
    <3>2. CASE PopClaim(p) \/ DiscardClaim(p) \/ PushPublish(p) \/ PopRelease(p)
               \/ DiscardRelease(p)
      BY <3>2 DEF PopClaim, DiscardClaim, PushPublish, PopRelease, DiscardRelease
    <3> QED BY <1>3, <3>1, <3>2, OthersKeepOwners
  <2>4. tail' = tail \/ (tail' = tail + 1 /\ sequence[Slot(tail)] = tail + 1)
    <3>1. CASE PopClaim(p) \/ DiscardClaim(p)
      BY <3>1 DEF PopClaim, DiscardClaim, Goto, SlotsAgree, PopperKnows
    <3>2. CASE PushClaim(p) \/ PushPublish(p) \/ PopRelease(p) \/ DiscardRelease(p)
      BY <3>2 DEF PushClaim, PushPublish, PopRelease, DiscardRelease
    <3> QED BY <1>3, <3>1, <3>2, OthersKeepOwners
  <2>5. /\ \A r \in Procs \ {p} : pc'[r] = pc[r] /\ pos'[r] = pos[r]
        /\ pc'[p] = "pushSeq" => pos'[p] = head /\ head' = head
        /\ pc'[p] = "popSeq" => pos'[p] = tail /\ tail' = tail
    <3> USE DEF TypeOK, shared, Goto, Return
    <3>1. CASE Call(p)
      BY <3>1 DEF Call, CallPush, CallPop, CallDiscard, CallSnapshot
    <3>2. CASE PushStep(p)
      BY <3>2 DEF PushStep, PushLoad, PushSeesFree, PushFull, PushYield, PushClaim,
                  PushRetry, PushWrite, PushPublish
    <3>3. CASE PopStep(p)
      BY <3>3 DEF PopStep, PopLoad, PopSeesFilled, PopEmpty, PopYield, PopClaim,
                  PopRetry, PopRead, PopClear, PopRelease
    <3>4. CASE DiscardStep(p)
      BY <3>4 DEF DiscardStep, DiscardLoad, DiscardSeesFilled, DiscardEmpty,
                  DiscardStale, DiscardClaim, DiscardLost, DiscardClear,
                  DiscardRelease, NextAttempt
    <3>5. CASE SnapshotHead(p) \/ SnapshotTail(p)
      BY <3>5 DEF SnapshotHead, SnapshotTail
    <3> QED BY <1>3, <3>1, <3>2, <3>3, <3>4, <3>5 DEF Step
  <2>6. ASSUME NEW r \in Procs, pc'[r] = "pushSeq", pos'[r] < head'
        PROVE  sequence'[Slot(pos'[r])] >= pos'[r]
    <3>1. r # p /\ pc[r] = "pushSeq" /\ pos'[r] = pos[r] /\ pos[r] <= head
      BY <2>2, <2>5, <2>6 DEF SlotsAgree, PusherKnows
    <3>2. sequence[Slot(pos[r])] >= pos[r]
      BY <2>2, <2>3, <2>6, <3>1 DEF OldLoads
    <3> QED BY <2>1, <2>2, <3>1, <3>2
  <2>7. ASSUME NEW r \in Procs, pc'[r] = "popSeq", pos'[r] < tail'
        PROVE  sequence'[Slot(pos'[r])] > pos'[r]
    <3>1. r # p /\ pc[r] = "popSeq" /\ pos'[r] = pos[r] /\ pos[r] <= tail
      BY <2>2, <2>5, <2>7 DEF SlotsAgree, PopperKnows
    <3>2. sequence[Slot(pos[r])] > pos[r]
      BY <2>2, <2>4, <2>7, <3>1 DEF OldLoads
    <3> QED BY <2>1, <2>2, <3>1, <3>2
  <2> QED BY <2>2, <2>6, <2>7 DEF OldLoads, Slot
<1> QED BY <1>1, <1>2, <1>3 DEF Next

\* While nobody owns a slot, Pop returns false only on an empty buffer and Push
\* only on a full one, however old the position is that they have loaded.
THEOREM QuietFailures == ASSUME Capacity >= 2 PROVE Spec => FailuresAreTrueWhenQuiet
<1> DEFINE Quiet == \A q \in Procs : ~Writing(q) /\ ~Reading(q)
           Meant(p) == (PopEmpty(p) => head = tail) /\ (PushFull(p) => head = tail + Capacity)
<1>1. TypeOK /\ SlotsAgree /\ ClaimsHaveOwners /\ OldLoads
        => \A p \in Procs : Quiet => Meant(p)
  <2> SUFFICES ASSUME TypeOK, SlotsAgree, ClaimsHaveOwners, OldLoads,
                      NEW p \in Procs, Quiet
               PROVE  Meant(p)
    OBVIOUS
  <2>1. /\ head \in Nat /\ tail \in Nat /\ Capacity \in Nat \ {0} /\ pos[p] \in Nat
        /\ tail <= head /\ head <= tail + Capacity
        /\ sequence \in [Slots -> Nat] /\ Slot(pos[p]) \in Slots
    BY CapacityAssumption, SlotType DEF TypeOK, SlotsAgree
  <2>2. ASSUME PopEmpty(p) PROVE head = tail
    <3>1. /\ pc[p] = "popSeq" /\ pos[p] <= tail
          /\ sequence[Slot(pos[p])] < pos[p] + 1
      BY <2>1, <2>2 DEF PopEmpty, Return, Goto, PopDiff, SlotsAgree, PopperKnows
    <3>2. pos[p] = tail
      BY <2>1, <3>1 DEF OldLoads
    <3>3. ASSUME tail < head PROVE FALSE
      <4>1. tail \in tail .. head - 1
        BY <2>1, <3>3
      <4>2. sequence[Slot(tail)] # tail
        BY <4>1 DEF ClaimsHaveOwners
      <4>3. sequence[Slot(tail)] = tail + 1
        BY <4>1, <4>2 DEF SlotsAgree, FilledPart
      <4> QED BY <2>1, <3>1, <3>2, <4>3
    <3> QED BY <2>1, <3>3
  <2>3. ASSUME PushFull(p) PROVE head = tail + Capacity
    <3>1. /\ pc[p] = "pushSeq" /\ pos[p] <= head
          /\ sequence[Slot(pos[p])] < pos[p]
      BY <2>1, <2>3 DEF PushFull, Return, Goto, PushDiff, SlotsAgree, PusherKnows
    <3>2. pos[p] = head
      BY <2>1, <3>1 DEF OldLoads
    <3>3. ASSUME head < tail + Capacity PROVE FALSE
      <4>1. head \in head .. tail + Capacity - 1
        BY <2>1, <3>3
      <4>2. sequence[Slot(head)] # head + 1 - Capacity
        BY <4>1 DEF ClaimsHaveOwners
      <4>3. sequence[Slot(head)] = head
        BY <4>1, <4>2 DEF SlotsAgree, FreePart
      <4> QED BY <2>1, <3>1, <3>2, <4>3
    <3> QED BY <2>1, <3>3
  <2> QED BY <2>2, <2>3
<1>2. Init => OldLoads
  BY DEF Init, OldLoads
<1>3. TypeOK /\ TypeOK' /\ SlotsAgree /\ ClaimsHaveOwners /\ OldLoads /\ [Next]_vars
        => OldLoads'
  BY StepKeepsOldLoads
<1> HIDE DEF Quiet, Meant
<1>4. TypeOK /\ SlotsAgree /\ ClaimsHaveOwners /\ OldLoads
        => [\A p \in Procs : Quiet => Meant(p)]_vars
  BY <1>1
<1>5. Spec => [][\A p \in Procs : Quiet => Meant(p)]_vars
  BY <1>2, <1>3, <1>4, TypeCorrect, SlotsAlwaysAgree, NoSlotLost, PTL DEF Spec
<1> QED BY <1>5 DEF FailuresAreTrueWhenQuiet, Quiet, Meant
-----------------------------------------------------------------------------
(* The buffer implements the queue of BoundedQueue *)

PublishesOwn == \A p \in Procs : pc[p] = "pushPublish" => value[Slot(pos[p])] = val[p]

\* Position q holds v: published, or claimed by a push of v.
Holds(q, v) == \/ sequence[Slot(q)] = q + 1 /\ value[Slot(q)] = v
               \/ sequence[Slot(q)] = q /\ \E p \in Procs : Writing(p) /\ pos[p] = q /\ val[p] = v

ValuesHeld == \A q \in tail .. head - 1 : /\ Holds(q, ValueAt(q)) /\ ValueAt(q) \in Values
                                         /\ \A v : Holds(q, v) => v = ValueAt(q)

LEMMA HeldValue == TypeOK /\ SlotsAgree /\ ClaimsHaveOwners => ValuesHeld
<1> USE DEF ValuesHeld
<1> SUFFICES ASSUME TypeOK, SlotsAgree, ClaimsHaveOwners, NEW q \in tail .. head - 1
             PROVE  /\ Holds(q, ValueAt(q)) /\ ValueAt(q) \in Values
                    /\ \A v : Holds(q, v) => v = ValueAt(q)
  OBVIOUS
<1>1. q \in Nat
  BY DEF TypeOK
<1>2. CASE sequence[Slot(q)] = q + 1
  BY <1>1, <1>2 DEF SlotsAgree, FilledPart, Holds, ValueAt
<1>3. CASE sequence[Slot(q)] = q
  <2> DEFINE owner == CHOOSE p \in Procs : Writing(p) /\ pos[p] = q
  <2>1. owner \in Procs /\ Writing(owner) /\ pos[owner] = q
    BY <1>3 DEF ClaimsHaveOwners
  <2>2. ValueAt(q) = val[owner]
    BY <1>1, <1>3 DEF ValueAt
  <2> HIDE DEF owner
  <2>3. \A p \in Procs : Writing(p) /\ pos[p] = q => p = owner
    BY <2>1 DEF SlotsAgree, OwnersApart
  <2>4. val[owner] \in Values
    BY <2>1 DEF SlotsAgree, PusherKnows, Writing, PushPcs
  <2> QED BY <1>1, <1>3, <2>1, <2>2, <2>3, <2>4 DEF Holds
<1> QED BY <1>2, <1>3 DEF SlotsAgree, FilledPart


\* What a step of p leaves the other goroutines: their locals and, if they own a
\* slot, the slot.
LEMMA OthersKeep ==
  ASSUME TypeOK, SlotsAgree, NEW p \in Procs, Call(p) \/ Step(p), NEW r \in Procs \ {p}
  PROVE  /\ pc'[r] = pc[r] /\ pos'[r] = pos[r] /\ val'[r] = val[r]
         /\ Writing(r) \/ Reading(r) => value'[Slot(pos[r])] = value[Slot(pos[r])]
<1>1. /\ pc'[r] = pc[r] /\ pos'[r] = pos[r] /\ val'[r] = val[r]
      /\ \/ UNCHANGED value
         \/ /\ Writing(p) \/ Reading(p)
            /\ \A s \in Slots \ {Slot(pos[p])} : value'[s] = value[s]
  <2> USE DEF Writing, Reading, TypeOK, shared, Goto, Return
  <2>1. CASE Call(p)
    BY <2>1 DEF Call, CallPush, CallPop, CallDiscard, CallSnapshot
  <2>2. CASE PushStep(p)
    BY <2>2 DEF PushStep, PushLoad, PushSeesFree, PushFull, PushYield, PushClaim,
                PushRetry, PushWrite, PushPublish
  <2>3. CASE PopStep(p)
    BY <2>3 DEF PopStep, PopLoad, PopSeesFilled, PopEmpty, PopYield, PopClaim,
                PopRetry, PopRead, PopClear, PopRelease
  <2>4. CASE DiscardStep(p)
    BY <2>4 DEF DiscardStep, DiscardLoad, DiscardSeesFilled, DiscardEmpty,
                DiscardStale, DiscardClaim, DiscardLost, DiscardClear,
                DiscardRelease, NextAttempt
  <2>5. CASE SnapshotHead(p) \/ SnapshotTail(p)
    BY <2>5 DEF SnapshotHead, SnapshotTail
  <2> QED BY <2>1, <2>2, <2>3, <2>4, <2>5 DEF Step
<1>2. Slot(pos[r]) \in Slots
  BY SlotType DEF TypeOK
<1>3. (Writing(p) \/ Reading(p)) /\ (Writing(r) \/ Reading(r)) => Slot(pos[r]) # Slot(pos[p])
  BY OtherSlots
<1> QED BY <1>1, <1>2, <1>3

\* A push publishes the value it was called with.
LEMMA StepKeepsPublished ==
  ASSUME TypeOK, SlotsAgree, PublishesOwn, [Next]_vars
  PROVE  PublishesOwn'
<1> USE DEF PublishesOwn
<1>1. ASSUME NEW p \in Procs, Call(p) \/ Step(p) PROVE PublishesOwn'
  <2>1. ASSUME NEW r \in Procs \ {p}, pc'[r] = "pushPublish"
        PROVE  value'[Slot(pos'[r])] = val'[r]
    BY <1>1, <2>1, OthersKeep DEF Writing
  <2>2. ASSUME pc'[p] = "pushPublish" PROVE value'[Slot(pos'[p])] = val'[p]
    <3>1. PushWrite(p)
      <4> USE <2>2 DEF TypeOK, shared, Goto, Return
      <4>1. ~Call(p)
        BY DEF Call, CallPush, CallPop, CallDiscard, CallSnapshot
      <4>2. CASE PushStep(p)
        BY <4>2 DEF PushStep, PushLoad, PushSeesFree, PushFull, PushYield, PushClaim,
                    PushRetry, PushPublish
      <4>3. ~PopStep(p)
        BY DEF PopStep, PopLoad, PopSeesFilled, PopEmpty, PopYield, PopClaim,
                    PopRetry, PopRead, PopClear, PopRelease
      <4>4. ~DiscardStep(p)
        BY DEF DiscardStep, DiscardLoad, DiscardSeesFilled, DiscardEmpty,
                    DiscardStale, DiscardClaim, DiscardLost, DiscardClear,
                    DiscardRelease, NextAttempt
      <4>5. ~SnapshotHead(p) /\ ~SnapshotTail(p)
        BY DEF SnapshotHead, SnapshotTail
      <4> QED BY <1>1, <4>1, <4>2, <4>3, <4>4, <4>5 DEF Step
    <3>2. Slot(pos[p]) \in Slots
      BY SlotType DEF TypeOK
    <3> QED BY <3>1, <3>2 DEF PushWrite, TypeOK
  <2>3. \A r \in Procs : Slot(pos[r])' = Slot(pos'[r])
    BY DEF Slot
  <2> QED BY <2>1, <2>2, <2>3
<1>2. CASE Reset
  BY <1>2 DEF Reset
<1>3. CASE UNCHANGED vars
  BY <1>3 DEF vars, Slot
<1> QED BY <1>1, <1>2, <1>3 DEF Next

RefInv == TypeOK /\ SlotsAgree /\ ClaimsHaveOwners /\ PublishesOwn

\* What a position holds it holds until tail has passed it.
LEMMA HoldsOn ==
  ASSUME Capacity >= 2, RefInv, NEW p \in Procs, Call(p) \/ Step(p),
         NEW q \in tail .. head - 1, tail' <= q, NEW v, Holds(q, v)
  PROVE  Holds(q, v)'
<1>1. /\ q \in Nat /\ head \in Nat /\ tail \in Nat /\ tail' \in Nat /\ Capacity \in Nat \ {0}
      /\ Slot(q) \in Slots /\ Slot(q)' = Slot(q) /\ Slot(pos[p]) \in Slots
      /\ sequence \in [Slots -> Nat] /\ value \in [Slots -> Values \cup {Zero}]
      /\ pc \in [Procs -> Pcs] /\ pos \in [Procs -> Nat]
      /\ tail <= head /\ head <= tail + Capacity /\ q \in tail .. tail + Capacity - 1
  <2>1. tail' \in Nat
    <3>1. CASE PopClaim(p) \/ DiscardClaim(p)
      BY <3>1 DEF PopClaim, DiscardClaim, RefInv, TypeOK
    <3>2. CASE PushClaim(p) \/ PushPublish(p) \/ PopRelease(p) \/ DiscardRelease(p)
      BY <3>2 DEF PushClaim, PushPublish, PopRelease, DiscardRelease, RefInv, TypeOK
    <3> QED BY <3>1, <3>2, OthersKeepOwners DEF RefInv, TypeOK
  <2>2. Slot(q)' = Slot(q)
    BY DEF Slot
  <2> QED BY <2>1, <2>2, SlotType, CapacityAssumption DEF RefInv, TypeOK, SlotsAgree
<1>2. ASSUME sequence' = sequence, value' = value,
             \A r \in Procs : Writing(r) => Writing(r)' /\ pos'[r] = pos[r] /\ val'[r] = val[r]
      PROVE  Holds(q, v)'
  BY <1>1, <1>2 DEF Holds
<1>3. ASSUME ~Writing(p), sequence' = sequence, value' = value
      PROVE  Holds(q, v)'
  <2>1. \A r \in Procs \ {p} : pc'[r] = pc[r] /\ pos'[r] = pos[r] /\ val'[r] = val[r]
    BY OthersKeep DEF RefInv
  <2> QED BY <1>2, <1>3, <2>1 DEF Writing
<1>4. ASSUME Writing(p) \/ Reading(p),
             \A s \in Slots \ {Slot(pos[p])} : sequence'[s] = sequence[s] /\ value'[s] = value[s],
             q # pos[p]
      PROVE  Holds(q, v)'
  <2>1. Slot(q) # Slot(pos[p])
    <3>1. CASE Writing(p)
      BY <1>1, <1>4, <3>1, OtherSlots DEF RefInv
    <3>2. CASE Reading(p)
      <4>1. head <= pos[p] + Capacity
        BY <3>2 DEF RefInv, SlotsAgree, ReaderOwns
      <4> QED BY <1>1, <3>2, <4>1, OtherSlots DEF RefInv
    <3> QED BY <1>4, <3>1, <3>2
  <2>2. \A r \in Procs \ {p} : pc'[r] = pc[r] /\ pos'[r] = pos[r] /\ val'[r] = val[r]
    BY OthersKeep DEF RefInv
  <2>3. CASE sequence[Slot(q)] = q + 1 /\ value[Slot(q)] = v
    BY <1>1, <1>4, <2>1, <2>3 DEF Holds
  <2>4. CASE sequence[Slot(q)] = q /\ \E r \in Procs : Writing(r) /\ pos[r] = q /\ val[r] = v
    <3>1. PICK r \in Procs : Writing(r) /\ pos[r] = q /\ val[r] = v
      BY <2>4
    <3>2. r # p
      BY <1>4, <3>1
    <3> QED BY <1>1, <1>4, <2>1, <2>2, <2>4, <3>1, <3>2 DEF Holds, Writing
  <2> QED BY <2>3, <2>4 DEF Holds
<1> USE DEF shared, Goto, Return
<1>5. CASE Call(p)
  <2>1. ~Writing(p) /\ sequence' = sequence /\ value' = value
    BY <1>1, <1>5 DEF Call, CallPush, CallPop, CallDiscard, CallSnapshot, Writing
  <2> QED BY <1>3, <2>1
<1>6. CASE PushWrite(p)
  <2>1. CASE q = pos[p]
    <3>1. sequence[Slot(q)] = q /\ Writing(p)
      BY <1>6, <2>1 DEF PushWrite, Writing, RefInv, SlotsAgree, WriterOwns
    <3>2. val[p] = v
      BY <1>1, <2>1, <3>1 DEF Holds, RefInv, SlotsAgree, OwnersApart
    <3> QED BY <1>1, <1>6, <2>1, <3>1, <3>2 DEF PushWrite, Holds, Writing
  <2>2. CASE q # pos[p]
    BY <1>1, <1>4, <1>6, <2>2 DEF PushWrite, Writing
  <2> QED BY <2>1, <2>2
<1>7. CASE PushPublish(p)
  <2>1. CASE q = pos[p]
    <3>1. sequence[Slot(q)] = q /\ Writing(p) /\ value[Slot(q)] = val[p]
      BY <1>7, <2>1 DEF PushPublish, Writing, RefInv, SlotsAgree, WriterOwns, PublishesOwn
    <3>2. val[p] = v
      BY <1>1, <2>1, <3>1 DEF Holds, RefInv, SlotsAgree, OwnersApart
    <3> QED BY <1>1, <1>7, <2>1, <3>1, <3>2 DEF PushPublish, Holds
  <2>2. CASE q # pos[p]
    BY <1>1, <1>4, <1>7, <2>2 DEF PushPublish, Writing
  <2> QED BY <2>1, <2>2
<1>8. CASE PopClear(p) \/ PopRelease(p) \/ DiscardClear(p) \/ DiscardRelease(p)
  <2>1. Reading(p)
    BY <1>8 DEF PopClear, PopRelease, DiscardClear, DiscardRelease, NextAttempt, Reading
  <2>2. q # pos[p]
    BY <1>1, <2>1 DEF RefInv, SlotsAgree, ReaderOwns
  <2>3. \A s \in Slots \ {Slot(pos[p])} : sequence'[s] = sequence[s] /\ value'[s] = value[s]
    BY <1>1, <1>8 DEF PopClear, PopRelease, DiscardClear, DiscardRelease
  <2> QED BY <1>4, <2>1, <2>2, <2>3
<1>9. ASSUME PushLoad(p) \/ PushSeesFree(p) \/ PushFull(p) \/ PushYield(p) \/ PushClaim(p)
               \/ PushRetry(p)
      PROVE  Holds(q, v)'
  <2>1. ~Writing(p) /\ sequence' = sequence /\ value' = value
    BY <1>1, <1>9 DEF PushLoad, PushSeesFree, PushFull, PushYield, PushClaim, PushRetry, Writing
  <2> QED BY <1>3, <2>1
<1>10. ASSUME \/ PopLoad(p) \/ PopSeesFilled(p) \/ PopEmpty(p) \/ PopYield(p) \/ PopClaim(p)
              \/ PopRetry(p) \/ PopRead(p)
              \/ DiscardLoad(p) \/ DiscardSeesFilled(p) \/ DiscardEmpty(p) \/ DiscardStale(p)
              \/ DiscardClaim(p) \/ DiscardLost(p) \/ SnapshotHead(p) \/ SnapshotTail(p)
       PROVE  Holds(q, v)'
  <2>1. ~Writing(p) /\ sequence' = sequence /\ value' = value
    BY <1>1, <1>10 DEF PopLoad, PopSeesFilled, PopEmpty, PopYield, PopClaim, PopRetry,
         PopRead, DiscardLoad, DiscardSeesFilled, DiscardEmpty, DiscardStale, DiscardClaim,
         DiscardLost, NextAttempt, SnapshotHead, SnapshotTail, Writing
  <2> QED BY <1>3, <2>1
<1>11. CASE PushStep(p)
  BY <1>6, <1>7, <1>9, <1>11 DEF PushStep
<1>12. CASE PopStep(p)
  BY <1>8, <1>10, <1>12 DEF PopStep
<1>13. CASE DiscardStep(p)
  BY <1>8, <1>10, <1>13 DEF DiscardStep
<1> QED BY <1>5, <1>10, <1>11, <1>12, <1>13 DEF Step

\* A stretch of a row of values, as a queue: what it is after its end or its start has
\* moved on by one.
Stretch(f, t, h) == [i \in 1 .. h - t |-> f[t + i - 1]]

Row(f, t, h, S) == t \in Nat /\ h \in Nat /\ t <= h /\ \A q \in t .. h - 1 : f[q] \in S

Agree(f, g, t, h) == \A q \in t .. h - 1 : g[q] = f[q]

LEMMA StretchSeq ==
  ASSUME NEW S, NEW f, NEW t, NEW h, Row(f, t, h, S)
  PROVE  /\ Stretch(f, t, h) \in Seq(S) /\ Len(Stretch(f, t, h)) = h - t
         /\ \A i \in 1 .. h - t : Stretch(f, t, h)[i] = f[t + i - 1]
<1> USE DEF Row
<1>1. \A i \in 1 .. h - t : t + i - 1 \in t .. h - 1
  OBVIOUS
<1> QED BY <1>1 DEF Stretch

LEMMA StretchGrows ==
  ASSUME NEW S, NEW f, NEW g, NEW t, NEW h, Row(f, t, h, S), Agree(f, g, t, h), g[h] \in S
  PROVE  Stretch(g, t, h + 1) = Append(Stretch(f, t, h), g[h])
<1> DEFINE s == Stretch(f, t, h)
           u == Stretch(g, t, h + 1)
<1>1. s \in Seq(S) /\ Len(s) = h - t /\ \A i \in 1 .. h - t : s[i] = f[t + i - 1]
  BY StretchSeq
<1> USE DEF Row, Agree
<1>2. \A i \in 1 .. h - t : t + i - 1 \in t .. h - 1
  OBVIOUS
<1>3. u \in Seq(S) /\ Len(u) = h - t + 1 /\ \A i \in 1 .. h - t + 1 : u[i] = g[t + i - 1]
  <2>1. \A q \in t .. (h + 1) - 1 : g[q] \in S
    <3> TAKE q \in t .. (h + 1) - 1
    <3> QED BY q = h \/ q \in t .. h - 1
  <2>2. Row(g, t, h + 1, S) /\ (h + 1) - t = h - t + 1
    BY <2>1
  <2> HIDE DEF Row, u
  <2> QED BY <2>2, StretchSeq DEF u
<1> HIDE DEF s, u
<1>4. /\ Append(s, g[h]) \in Seq(S) /\ Len(Append(s, g[h])) = h - t + 1
      /\ Append(s, g[h])[h - t + 1] = g[h]
      /\ \A i \in 1 .. h - t : Append(s, g[h])[i] = s[i]
  BY <1>1
<1>5. ASSUME NEW i \in 1 .. h - t + 1 PROVE u[i] = Append(s, g[h])[i]
  <2>1. CASE i = h - t + 1
    <3>1. t + i - 1 = h
      BY <2>1
    <3> QED BY <1>3, <1>4, <2>1, <3>1
  <2>2. CASE i \in 1 .. h - t
    BY <1>1, <1>2, <1>3, <1>4, <2>2
  <2>3. i = h - t + 1 \/ i \in 1 .. h - t
    OBVIOUS
  <2> QED BY <2>1, <2>2, <2>3
<1>6. u = Append(s, g[h])
  BY <1>3, <1>4, <1>5, SeqEqual
<1> QED BY <1>6 DEF s, u

LEMMA StretchShrinks ==
  ASSUME NEW S, NEW f, NEW g, NEW t, NEW h, Row(f, t, h, S), t < h, Agree(f, g, t + 1, h)
  PROVE  /\ Stretch(f, t, h) # << >> /\ Head(Stretch(f, t, h)) = f[t]
         /\ Stretch(g, t + 1, h) = Tail(Stretch(f, t, h))
<1> DEFINE s == Stretch(f, t, h)
           u == Stretch(g, t + 1, h)
<1>1. s \in Seq(S) /\ Len(s) = h - t /\ \A i \in 1 .. h - t : s[i] = f[t + i - 1]
  BY StretchSeq
<1> USE DEF Row, Agree
<1>2. \A i \in 1 .. h - t - 1 : (t + 1) + i - 1 \in t + 1 .. h - 1 /\ i + 1 \in 1 .. h - t
                                /\ t + (i + 1) - 1 = (t + 1) + i - 1
  OBVIOUS
<1>3. u \in Seq(S) /\ Len(u) = h - t - 1 /\ \A i \in 1 .. h - t - 1 : u[i] = g[(t + 1) + i - 1]
  <2>1. Row(g, t + 1, h, S) /\ h - (t + 1) = h - t - 1
    OBVIOUS
  <2> HIDE DEF Row, u
  <2> QED BY <2>1, StretchSeq DEF u
<1> HIDE DEF s, u
<1>4. s # << >> /\ Head(s) = s[1] /\ s[1] = f[t]
  BY <1>1
<1>5. /\ Tail(s) \in Seq(S) /\ Len(Tail(s)) = h - t - 1
      /\ \A i \in 1 .. h - t - 1 : Tail(s)[i] = s[i + 1]
  BY <1>1, <1>4, HeadTailProperties
<1>6. \A i \in 1 .. h - t - 1 : u[i] = Tail(s)[i]
  BY <1>1, <1>2, <1>3, <1>5
<1>7. u = Tail(s)
  BY <1>3, <1>5, <1>6, SeqEqual
<1> QED BY <1>4, <1>7 DEF s, u

LEMMA StretchSame ==
  ASSUME NEW f, NEW g, NEW t \in Nat, NEW h \in Nat, Agree(f, g, t, h)
  PROVE  Stretch(g, t, h) = Stretch(f, t, h)
<1>1. \A i \in 1 .. h - t : t + i - 1 \in t .. h - 1
  OBVIOUS
<1> QED BY <1>1 DEF Stretch, Agree
\* The queue as each step leaves it.
LEMMA QueueMoves ==
  ASSUME Capacity >= 2, RefInv, RefInv', NEW p \in Procs, Call(p) \/ Step(p)
  PROVE  /\ PushClaim(p) => absQueue' = Append(absQueue, val[p]) /\ Len(absQueue) < Capacity
         /\ PopClaim(p) \/ DiscardClaim(p)
              => /\ absQueue # << >> /\ absQueue' = Tail(absQueue)
                 /\ Head(absQueue) = value[Slot(tail)]
         /\ ~(PushClaim(p) \/ PopClaim(p) \/ DiscardClaim(p)) => absQueue' = absQueue
<1> DEFINE V == [q \in Nat |-> ValueAt(q)]
           W == V'
<1> USE DEF Goto
<1>1. /\ head \in Nat /\ tail \in Nat /\ head' \in Nat /\ tail' \in Nat
      /\ Capacity \in Nat \ {0}
      /\ tail <= head /\ tail' <= head' /\ head <= tail + Capacity
  BY CapacityAssumption DEF RefInv, TypeOK, SlotsAgree
<1>2. /\ \A q \in tail .. head - 1 : Holds(q, V[q]) /\ V[q] \in Values
      /\ \A q \in tail' .. head' - 1 : \A v : Holds(q, v)' => v = W[q]
  <2>1. ValuesHeld /\ ValuesHeld'
    <3>1. RefInv => ValuesHeld
      BY HeldValue DEF RefInv
    <3>2. RefInv' => ValuesHeld'
      BY HeldValue, PTL DEF RefInv
    <3> QED BY <3>1, <3>2
  <2>2. W = [q \in Nat |-> ValueAt(q)']
    OBVIOUS
  <2>3. \A q \in tail' .. head' - 1 : \A v : Holds(q, v)' => v = ValueAt(q)'
    BY <2>1 DEF ValuesHeld
  <2>4. \A q \in tail .. head - 1 : q \in Nat
    BY <1>1
  <2>5. \A q \in tail' .. head' - 1 : q \in Nat
    BY <1>1
  <2> QED BY <2>1, <2>2, <2>3, <2>4, <2>5 DEF ValuesHeld
<1>3. absQueue = Stretch(V, tail, head)
  <2>1. \A i \in 1 .. head - tail : tail + i - 1 \in Nat
    BY <1>1
  <2> QED BY <2>1 DEF absQueue, Stretch
<1>4. absQueue' = Stretch(W, tail', head')
  <2>1. \A t \in Nat : \A i \in 1 .. head' - t : t + i - 1 \in Nat
    OBVIOUS
  <2>2. absQueue' = [i \in 1 .. head' - tail' |-> ValueAt(tail + i - 1)']
    BY DEF absQueue
  <2>3. \A q \in Nat : W[q] = ValueAt(q)'
    OBVIOUS
  <2> HIDE DEF W
  <2> QED BY <1>1, <2>1, <2>2, <2>3 DEF Stretch
<1>5. V[tail] = ValueAt(tail)
  BY <1>1
<1> HIDE DEF V, W
<1>6. \A q \in tail .. head - 1 : q \in tail' .. head' - 1 => W[q] = V[q]
  <2> TAKE q \in tail .. head - 1
  <2> HAVE q \in tail' .. head' - 1
  <2>1. Holds(q, V[q])
    BY <1>2
  <2>2. tail' <= q
    BY <1>1
  <2>3. PICK v : v = V[q]
    OBVIOUS
  <2>4. Holds(q, v)'
    BY <2>1, <2>2, <2>3, HoldsOn
  <2> QED BY <1>2, <2>3, <2>4
<1>7. ASSUME PushClaim(p)
      PROVE  absQueue' = Append(absQueue, val[p]) /\ Len(absQueue) < Capacity
  <2>1. /\ head' = head + 1 /\ tail' = tail /\ pos[p] = head /\ pc'[p] = "pushWrite"
        /\ pos' = pos /\ val' = val /\ sequence' = sequence /\ pc[p] = "pushCas"
    BY <1>7 DEF PushClaim, RefInv, TypeOK
  <2>2. head < tail + Capacity /\ sequence[Slot(head)] = head /\ val[p] \in Values
    BY <2>1 DEF RefInv, SlotsAgree, PusherKnows, PushPcs
  <2>3. W[head] = val[p]
    <3>1. PICK q, v : q = head /\ v = val[p]
      OBVIOUS
    <3>2. Holds(q, v)'
      BY <2>1, <2>2, <3>1 DEF Holds, Writing, Slot
    <3>3. q \in tail' .. head' - 1
      BY <1>1, <2>1, <3>1
    <3> QED BY <1>2, <3>1, <3>2, <3>3
  <2>4. \A q \in tail .. head - 1 : V[q] \in Values /\ W[q] = V[q]
    BY <1>1, <1>2, <1>6, <2>1
  <2>5. Stretch(W, tail, head + 1) = Append(Stretch(V, tail, head), W[head])
    <3>1. Row(V, tail, head, Values) /\ Agree(V, W, tail, head) /\ W[head] \in Values
      BY <1>1, <2>2, <2>3, <2>4 DEF Row, Agree
    <3> QED BY <3>1, StretchGrows
  <2>6. Len(absQueue) = head - tail
    <3>1. Row(V, tail, head, Values)
      BY <1>1, <2>4 DEF Row
    <3> QED BY <1>3, <3>1, StretchSeq
  <2> QED BY <1>1, <1>3, <1>4, <2>1, <2>2, <2>3, <2>5, <2>6
<1>8. ASSUME PopClaim(p) \/ DiscardClaim(p)
      PROVE  /\ absQueue # << >> /\ absQueue' = Tail(absQueue)
             /\ Head(absQueue) = value[Slot(tail)]
  <2>1. /\ head' = head /\ tail' = tail + 1 /\ pos[p] = tail /\ pc[p] \in {"popCas", "disCas"}
    BY <1>8 DEF PopClaim, DiscardClaim, RefInv, TypeOK
  <2>2. tail < head /\ sequence[Slot(tail)] = tail + 1
    BY <2>1 DEF RefInv, SlotsAgree, PopperKnows
  <2>3. V[tail] = value[Slot(tail)]
    BY <1>5, <2>2 DEF ValueAt
  <2>4. /\ \A q \in tail .. head - 1 : V[q] \in Values
        /\ \A q \in tail + 1 .. head - 1 : W[q] = V[q]
    BY <1>1, <1>2, <1>6, <2>1
  <2>5. /\ Stretch(V, tail, head) # << >> /\ Head(Stretch(V, tail, head)) = V[tail]
        /\ Stretch(W, tail + 1, head) = Tail(Stretch(V, tail, head))
    <3>1. Row(V, tail, head, Values) /\ Agree(V, W, tail + 1, head)
      BY <1>1, <2>4 DEF Row, Agree
    <3> QED BY <2>2, <3>1, StretchShrinks
  <2> QED BY <1>3, <1>4, <2>1, <2>3, <2>5
<1>9. ASSUME ~(PushClaim(p) \/ PopClaim(p) \/ DiscardClaim(p))
      PROVE  absQueue' = absQueue
  <2>1. head' = head /\ tail' = tail
    BY <1>9, OthersKeepOwners DEF RefInv, PushPublish, PopRelease, DiscardRelease
  <2>2. \A q \in tail .. head - 1 : W[q] = V[q]
    BY <1>1, <1>6, <2>1
  <2>3. Stretch(W, tail, head) = Stretch(V, tail, head)
    <3>1. Agree(V, W, tail, head)
      BY <2>2 DEF Agree
    <3> QED BY <1>1, <3>1, StretchSame
  <2> QED BY <1>3, <1>4, <2>1, <2>3
<1> QED BY <1>7, <1>8, <1>9

ArgOf(p) == IF pc[p] \in {"pushLoad", "pushSeq", "pushCas"} THEN val[p] ELSE Zero
RetOf(p) == IF pc[p] = "popRead" THEN value[Slot(pos[p])]
            ELSE IF pc[p] \in {"popClear", "popRelease"} THEN val[p] ELSE Zero

\* A step of p changes what p pushes or pops and nobody else's.
LEMMA ArgAndRetMove ==
  ASSUME RefInv, RefInv', NEW p \in Procs, Call(p) \/ Step(p)
  PROVE  /\ absArg' = [absArg EXCEPT ![p] = ArgOf(p)']
         /\ absRet' = [absRet EXCEPT ![p] = RetOf(p)']
<1>1. ASSUME NEW r \in Procs \ {p} PROVE ArgOf(r)' = ArgOf(r) /\ RetOf(r)' = RetOf(r)
  <2>1. /\ pc'[r] = pc[r] /\ pos'[r] = pos[r] /\ val'[r] = val[r]
        /\ Reading(r) => value'[Slot(pos[r])] = value[Slot(pos[r])]
    BY OthersKeep DEF RefInv
  <2>2. Slot(pos[r])' = Slot(pos[r])
    BY <2>1 DEF Slot
  <2> QED BY <2>1, <2>2 DEF ArgOf, RetOf, Reading
<1>2. /\ absArg = [r \in Procs |-> ArgOf(r)] /\ absRet = [r \in Procs |-> RetOf(r)]
      /\ absArg' = [r \in Procs |-> ArgOf(r)'] /\ absRet' = [r \in Procs |-> RetOf(r)']
  BY DEF absArg, absRet, ArgOf, RetOf
<1> QED BY <1>1, <1>2

LEMMA StepRefines ==
  ASSUME Capacity >= 2, RefInv, RefInv', [Next]_vars
  PROVE  [Abs!Next]_(Abs!vars)
<1> USE DEF shared, Goto, Return
<1>1. ASSUME NEW p \in Procs, Call(p) \/ Step(p) PROVE [Abs!Next]_(Abs!vars)
  <2>1. /\ absArg' = [absArg EXCEPT ![p] = ArgOf(p)'] /\ absArg[p] = ArgOf(p)
        /\ absRet' = [absRet EXCEPT ![p] = RetOf(p)'] /\ absRet[p] = RetOf(p)
        /\ absArg \in [Procs -> Values \cup {Zero}]
        /\ absRet \in [Procs -> Values \cup {Zero}]
    BY <1>1, ArgAndRetMove, SlotType DEF absArg, absRet, ArgOf, RetOf, RefInv, TypeOK
  <2>2. pc[p] \in PushPcs => val[p] \in Values /\ val[p] # Zero
    BY ValueAssumption DEF RefInv, SlotsAgree, PusherKnows
  <2>3. pc[p] \in {"popRead", "popClear", "popRelease"} => RetOf(p) # Zero
    BY ValueAssumption DEF RefInv, SlotsAgree, ReaderOwns, Reading, RetOf
  <2>4. pc \in [Procs -> Pcs] /\ val \in [Procs -> Values \cup {Zero}] /\ pos \in [Procs -> Nat]
    BY DEF RefInv, TypeOK
  <2> USE DEF ArgOf, RetOf, PushPcs
  <2>5. CASE PushClaim(p)
    <3>1. absQueue' = Append(absQueue, val[p]) /\ Len(absQueue) < Capacity
      BY <1>1, <2>5, QueueMoves
    <3>2. Abs!Enqueue(p)
      BY <2>1, <2>2, <2>4, <2>5, <3>1 DEF PushClaim, Abs!Enqueue
    <3> QED BY <3>2 DEF Abs!Next
  <2>6. CASE PopClaim(p)
    <3>1. /\ absQueue # << >> /\ absQueue' = Tail(absQueue)
          /\ Head(absQueue) = value[Slot(tail)]
      BY <1>1, <2>6, QueueMoves
    <3>2. Slot(pos[p])' = Slot(tail) /\ tail = pos[p]
      BY <2>6 DEF Slot, PopClaim
    <3>3. Abs!Dequeue(p)
      BY <2>1, <2>4, <2>6, <3>1, <3>2 DEF PopClaim, Abs!Dequeue
    <3> QED BY <3>3 DEF Abs!Next
  <2>7. CASE DiscardClaim(p)
    <3>1. absQueue # << >> /\ absQueue' = Tail(absQueue)
      BY <1>1, <2>7, QueueMoves
    <3>2. Abs!DiscardOne
      BY <2>1, <2>4, <2>7, <3>1 DEF DiscardClaim, Abs!DiscardOne
    <3> QED BY <3>2 DEF Abs!Next
  <2>8. ASSUME ~(PushClaim(p) \/ PopClaim(p) \/ DiscardClaim(p)) PROVE absQueue' = absQueue
    BY <1>1, <2>8, QueueMoves
  <2>9. ASSUME NEW v \in Values, CallPush(p, v) PROVE [Abs!Next]_(Abs!vars)
    <3>1. absQueue' = absQueue
      BY <2>8, <2>9 DEF CallPush, PushClaim, PopClaim, DiscardClaim
    <3>2. Abs!CallPush(p, v)
      BY <2>1, <2>4, <2>9, <3>1 DEF CallPush, Abs!CallPush
    <3> QED BY <3>2 DEF Abs!Next
  <2>10. CASE PushFull(p)
    <3>1. absQueue' = absQueue
      BY <2>8, <2>10 DEF PushFull, PushClaim, PopClaim, DiscardClaim
    <3>2. Abs!GiveUpPush(p)
      BY <2>1, <2>2, <2>4, <2>10, <3>1 DEF PushFull, Abs!GiveUpPush
    <3> QED BY <3>2 DEF Abs!Next
  <2>11. CASE PopRelease(p)
    <3>1. absQueue' = absQueue
      BY <2>8, <2>11 DEF PopRelease, PushClaim, PopClaim, DiscardClaim
    <3>2. Abs!ReturnPop(p)
      BY <2>1, <2>3, <2>4, <2>11, <3>1 DEF PopRelease, Abs!ReturnPop
    <3> QED BY <3>2 DEF Abs!Next
  <2>12. ASSUME absQueue' = absQueue, ArgOf(p)' = ArgOf(p), RetOf(p)' = RetOf(p)
         PROVE  [Abs!Next]_(Abs!vars)
    BY <2>1, <2>12 DEF Abs!vars
  <2>13. CASE PopRead(p)
    <3>1. absQueue' = absQueue
      BY <2>8, <2>13 DEF PopRead, PushClaim, PopClaim, DiscardClaim
    <3>2. ArgOf(p)' = ArgOf(p) /\ RetOf(p)' = RetOf(p)
      BY <2>4, <2>13 DEF PopRead
    <3> QED BY <2>12, <3>1, <3>2
  <2>14. ASSUME \/ CallPop(p) \/ \E n \in 1 .. MaxDiscard : CallDiscard(p, n)
                \/ CallSnapshot(p) \/ SnapshotHead(p) \/ SnapshotTail(p)
                \/ PushLoad(p) \/ PushSeesFree(p) \/ PushYield(p) \/ PushRetry(p)
                \/ PushWrite(p) \/ PushPublish(p)
         PROVE  [Abs!Next]_(Abs!vars)
    <3>1. absQueue' = absQueue
      BY <2>8, <2>14 DEF CallPop, CallDiscard, CallSnapshot, SnapshotHead, SnapshotTail,
           PushLoad, PushSeesFree, PushYield, PushRetry, PushWrite, PushPublish,
           PushClaim, PopClaim, DiscardClaim
    <3>2. ArgOf(p)' = ArgOf(p) /\ RetOf(p)' = RetOf(p)
      BY <2>4, <2>14 DEF CallPop, CallDiscard, CallSnapshot, SnapshotHead, SnapshotTail,
           PushLoad, PushSeesFree, PushYield, PushRetry, PushWrite, PushPublish
    <3> QED BY <2>12, <3>1, <3>2
  <2>15. ASSUME \/ PopLoad(p) \/ PopSeesFilled(p) \/ PopEmpty(p) \/ PopYield(p)
                \/ PopRetry(p) \/ PopClear(p)
                \/ DiscardLoad(p) \/ DiscardSeesFilled(p) \/ DiscardEmpty(p)
                \/ DiscardStale(p) \/ DiscardLost(p) \/ DiscardClear(p) \/ DiscardRelease(p)
         PROVE  [Abs!Next]_(Abs!vars)
    <3>1. absQueue' = absQueue
      BY <2>8, <2>15 DEF PopLoad, PopSeesFilled, PopEmpty, PopYield, PopRetry, PopClear,
           DiscardLoad, DiscardSeesFilled, DiscardEmpty, DiscardStale, DiscardLost,
           DiscardClear, DiscardRelease, NextAttempt, PushClaim, PopClaim, DiscardClaim
    <3>2. ArgOf(p)' = ArgOf(p) /\ RetOf(p)' = RetOf(p)
      BY <2>4, <2>15 DEF PopLoad, PopSeesFilled, PopEmpty, PopYield, PopRetry, PopClear,
           DiscardLoad, DiscardSeesFilled, DiscardEmpty, DiscardStale, DiscardLost,
           DiscardClear, DiscardRelease, NextAttempt
    <3> QED BY <2>12, <3>1, <3>2
  <2> QED BY <1>1, <2>5, <2>6, <2>7, <2>9, <2>10, <2>11, <2>13, <2>14, <2>15
          DEF Call, Step, PushStep, PopStep, DiscardStep
<1>2. CASE Reset
  <2>1. absQueue' = << >>
    BY <1>2 DEF Reset, absQueue
  <2>2. \A p \in Procs : absArg[p] = Zero /\ absRet[p] = Zero
    BY <1>2 DEF Reset, absArg, absRet
  <2>3. absArg' = absArg /\ absRet' = absRet
    BY <1>2 DEF Reset, absArg, absRet
  <2> QED BY <2>1, <2>2, <2>3 DEF Abs!Next, Abs!Clear
<1>3. CASE UNCHANGED vars
  BY <1>3 DEF vars, Abs!vars, absQueue, absArg, absRet, ValueAt, Slot, Writing
<1> QED BY <1>1, <1>2, <1>3 DEF Next

\* Values leave the buffer in the order the pushes claimed their positions, each once
\* and unchanged: every behaviour of push, pop, Discard and Reset is one of BoundedQueue.
THEOREM BufferIsAQueue == ASSUME Capacity >= 2 PROVE Spec => ImplementsQueue
<1>1. Init => Abs!Init
  BY DEF Init, Abs!Init, absQueue, absArg, absRet
<1>2. Init => PublishesOwn
  BY DEF Init, PublishesOwn
<1>3. TypeOK /\ SlotsAgree /\ PublishesOwn /\ [Next]_vars => PublishesOwn'
  BY StepKeepsPublished
<1>4. Spec => []RefInv
  BY <1>2, <1>3, TypeCorrect, SlotsAlwaysAgree, NoSlotLost, PTL DEF Spec, RefInv
<1>5. RefInv /\ RefInv' /\ [Next]_vars => [Abs!Next]_(Abs!vars)
  BY StepRefines
<1> QED BY <1>1, <1>4, <1>5, PTL DEF Spec, ImplementsQueue, Abs!Spec
-----------------------------------------------------------------------------
(* The iterations *)

BeforeClaim == {p \in Procs : pc[p] \in {"pushLoad", "pushSeq", "pushCas"}}

\* Each push under way has been let in below MaxPos and moves head on at most once.
HeadRoom == head + Cardinality(BeforeClaim) <= MaxPos + Cardinality(Procs)

LEMMA SubsetOfProcs == ASSUME NEW P \in SUBSET Procs
                       PROVE  IsFiniteSet(P) /\ Cardinality(P) \in Nat
                              /\ Cardinality(P) <= Cardinality(Procs)
                              /\ Cardinality(Procs) \in Nat
  BY WordAssumption, FS_Subset, FS_CardinalityType

LEMMA StepKeepsRoom == ASSUME TypeOK, HeadRoom, [Next]_vars PROVE HeadRoom'
<1>1. BeforeClaim \in SUBSET Procs /\ BeforeClaim' \in SUBSET Procs
  BY DEF BeforeClaim
<1>2. /\ Cardinality(BeforeClaim) \in Nat /\ Cardinality(BeforeClaim') \in Nat
      /\ IsFiniteSet(BeforeClaim) /\ Cardinality(BeforeClaim') <= Cardinality(Procs)
      /\ Cardinality(Procs) \in Nat /\ MaxPos \in Nat /\ head \in Nat
  BY <1>1, SubsetOfProcs, BoundAssumption DEF TypeOK
<1>3. ASSUME BeforeClaim' \subseteq BeforeClaim, head' = head PROVE HeadRoom'
  <2>1. Cardinality(BeforeClaim') <= Cardinality(BeforeClaim)
    BY <1>2, <1>3, FS_Subset
  <2> QED BY <1>2, <1>3, <2>1 DEF HeadRoom
<1> USE DEF Goto, Return, shared
<1>4. ASSUME NEW p \in Procs, NEW v \in Values, CallPush(p, v) PROVE HeadRoom'
  <2>1. head' = head /\ head < MaxPos
    BY <1>4 DEF CallPush
  <2> QED BY <1>2, <2>1 DEF HeadRoom
<1>5. ASSUME NEW p \in Procs, PushClaim(p) PROVE HeadRoom'
  <2>1. head' = head + 1 /\ p \in BeforeClaim /\ BeforeClaim' = BeforeClaim \ {p}
    BY <1>5 DEF PushClaim, BeforeClaim, TypeOK
  <2>2. Cardinality(BeforeClaim') = Cardinality(BeforeClaim) - 1
    BY <1>2, <2>1, FS_RemoveElement
  <2> QED BY <1>2, <2>1, <2>2 DEF HeadRoom
<1>6. ASSUME NEW p \in Procs,
             CallPop(p) \/ (\E n \in 1 .. MaxDiscard : CallDiscard(p, n)) \/ CallSnapshot(p)
               \/ SnapshotHead(p) \/ SnapshotTail(p)
      PROVE  HeadRoom'
  <2>1. BeforeClaim' \subseteq BeforeClaim /\ head' = head
    BY <1>6 DEF CallPop, CallDiscard, CallSnapshot, SnapshotHead, SnapshotTail, BeforeClaim,
                TypeOK
  <2> QED BY <1>3, <2>1
<1>7. ASSUME NEW p \in Procs, PushStep(p) PROVE HeadRoom'
  <2>1. CASE ~PushClaim(p)
    <3>1. BeforeClaim' \subseteq BeforeClaim /\ head' = head
      BY <1>7, <2>1 DEF PushStep, PushLoad, PushSeesFree, PushFull, PushYield, PushRetry,
         PushWrite, PushPublish, BeforeClaim, TypeOK
    <3> QED BY <1>3, <3>1
  <2> QED BY <1>5, <2>1
<1>8. ASSUME NEW p \in Procs, PopStep(p) PROVE HeadRoom'
  <2>1. BeforeClaim' \subseteq BeforeClaim /\ head' = head
    BY <1>8 DEF PopStep, PopLoad, PopSeesFilled, PopEmpty, PopYield, PopClaim, PopRetry,
                PopRead, PopClear, PopRelease, BeforeClaim, TypeOK
  <2> QED BY <1>3, <2>1
<1>9. ASSUME NEW p \in Procs, DiscardStep(p) PROVE HeadRoom'
  <2>1. BeforeClaim' \subseteq BeforeClaim /\ head' = head
    BY <1>9 DEF DiscardStep, DiscardLoad, DiscardSeesFilled, DiscardEmpty, DiscardStale,
                DiscardClaim, DiscardLost, DiscardClear, DiscardRelease, NextAttempt,
                BeforeClaim, TypeOK
  <2> QED BY <1>3, <2>1
<1>10. CASE Reset
  <2>1. head' = 0
    BY <1>10 DEF Reset
  <2> QED BY <1>2, <2>1 DEF HeadRoom
<1>11. CASE UNCHANGED vars
  BY <1>11 DEF vars, HeadRoom, BeforeClaim
<1> QED BY <1>4, <1>6, <1>7, <1>8, <1>9, <1>10, <1>11 DEF Next, Call, Step

\* A push that has claimed a position is within a lap of tail, so that the values between
\* tail and head are never overwritten.
THEOREM RoomForPushes == Spec => []HeadRoom
<1>1. Init => HeadRoom
  <2> SUFFICES ASSUME Init PROVE HeadRoom
    OBVIOUS
  <2>1. BeforeClaim = {} /\ head = 0
    BY DEF Init, BeforeClaim
  <2> QED BY <2>1, FS_EmptySet, SubsetOfProcs, BoundAssumption DEF HeadRoom
<1>2. TypeOK /\ HeadRoom /\ [Next]_vars => HeadRoom'
  BY StepKeepsRoom
<1> QED BY <1>1, <1>2, TypeCorrect, PTL DEF Spec

\* What the buffer's own invariants say of the positions an iteration loads.
BufferInv == TypeOK /\ SlotsAgree /\ ClaimsHaveOwners /\ HeadRoom

LEMMA Positions == BufferInv => /\ head \in Nat /\ tail \in Nat /\ tail <= head
                                /\ head < Word /\ Word \in Nat \ {0}
<1>1. BeforeClaim \in SUBSET Procs
  BY DEF BeforeClaim
<1> QED BY <1>1, SubsetOfProcs, WordAssumption, BoundAssumption
        DEF BufferInv, TypeOK, SlotsAgree, HeadRoom

\* Where an iteration that goes forward stops is behind head; the head that one going back
\* has loaded was head.
BoundsInv == /\ IterationsInBounds
             /\ \A w \in Watchers : /\ wpc[w] = "fwdVisit" => last[w] < head
                                    /\ wpc[w] = "revTail" => index[w] <= head

LEMMA HeadAdvances == ASSUME TypeOK, NEW p \in Procs, Call(p) \/ Step(p)
                      PROVE  head' \in Nat /\ head <= head'
<1> USE DEF shared, Goto, Return, TypeOK
<1>1. CASE Call(p) \/ SnapshotHead(p) \/ SnapshotTail(p)
  BY <1>1 DEF Call, CallPush, CallPop, CallDiscard, CallSnapshot, SnapshotHead, SnapshotTail
<1>2. CASE PushStep(p)
  BY <1>2 DEF PushStep, PushLoad, PushSeesFree, PushFull, PushYield, PushClaim, PushRetry,
              PushWrite, PushPublish
<1>3. CASE PopStep(p)
  BY <1>3 DEF PopStep, PopLoad, PopSeesFilled, PopEmpty, PopYield, PopClaim, PopRetry,
              PopRead, PopClear, PopRelease
<1>4. CASE DiscardStep(p)
  BY <1>4 DEF DiscardStep, DiscardLoad, DiscardSeesFilled, DiscardEmpty, DiscardStale,
              DiscardClaim, DiscardLost, DiscardClear, DiscardRelease, NextAttempt
<1> QED BY <1>1, <1>2, <1>3, <1>4 DEF Step

LEMMA WatchKeepsBounds ==
  ASSUME BufferInv, BoundsInv, NEW w \in Watchers, Watch(w), UNCHANGED vars
  PROVE  BoundsInv'
<1> USE DEF WGoto, WReturn, BoundsInv, IterationsInBounds
<1>1. /\ head \in 0 .. Word - 1 /\ tail \in 0 .. Word - 1 /\ 0 \in 0 .. Word - 1
      /\ head' = head /\ Word \in Nat \ {0}
  BY Positions DEF vars
<1>2. CASE StartForward(w) \/ StartReverse(w)
  BY <1>1, <1>2 DEF StartForward, StartReverse
<1>3. CASE ForwardHead(w)
  <2>1. index[w] \in 0 .. Word - 1
    OBVIOUS
  <2>2. index[w] < head => head - 1 \in 0 .. Word - 1 /\ head - 1 < head
    BY <1>1, <2>1
  <2> QED BY <1>1, <1>3, <2>1, <2>2 DEF ForwardHead
<1>4. CASE ForwardVisit(w)
  <2>1. /\ index[w] \in 0 .. Word - 1 /\ last[w] \in 0 .. Word - 1
        /\ wpc[w] = "fwdVisit" => last[w] < head
    OBVIOUS
  <2>2. wpc[w] = "fwdVisit" /\ index[w] < last[w]
          => index[w] + 1 \in 0 .. Word - 1 /\ index[w] + 1 < head
    BY <1>1, <2>1
  <2> QED BY <1>1, <1>4, <2>1, <2>2 DEF ForwardVisit
<1>5. CASE ReverseTail(w)
  <2>1. index[w] \in 0 .. Word - 1 /\ (wpc[w] = "revTail" => index[w] <= head)
    OBVIOUS
  <2>2. /\ FirstReverse(w) \in 0 .. Word - 1
        /\ index[w] # 0 => FirstReverse(w) = index[w] - 1
    BY <1>1, <2>1 DEF FirstReverse
  <2>3. wpc[w] = "revTail" /\ index[w] # 0 => FirstReverse(w) < head
    BY <1>1, <2>1, <2>2
  <2>4. CASE WReturn(w, "revTail")
    BY <1>1, <2>4
  <2>5. CASE /\ FirstReverse(w) >= tail
             /\ WGoto(w, "revTail", IF index[w] = 0 THEN "revWrapped" ELSE "revVisit")
             /\ index' = [index EXCEPT ![w] = FirstReverse(w)]
             /\ last' = [last EXCEPT ![w] = tail]
    <3>1. tail \in 0 .. FirstReverse(w)
      BY <1>1, <2>2, <2>5
    <3> QED BY <1>1, <2>2, <2>3, <2>5, <3>1
  <2> QED BY <1>5, <2>4, <2>5 DEF ReverseTail
<1>6. CASE ReverseVisit(w)
  <2>1. PICK at \in {"revVisit", "revWrapped"} :
          \/ /\ index[w] # last[w]
             /\ WGoto(w, at, at)
             /\ index' = [index EXCEPT ![w] = (@ - 1) % Word]
             /\ UNCHANGED last
          \/ WReturn(w, at)
    BY <1>6 DEF ReverseVisit
  <2>2. CASE WReturn(w, at)
    BY <1>1, <2>2
  <2>3. CASE /\ index[w] # last[w]
             /\ WGoto(w, at, at)
             /\ index' = [index EXCEPT ![w] = (@ - 1) % Word]
             /\ UNCHANGED last
    <3>1. index[w] \in 0 .. Word - 1 /\ last[w] \in 0 .. Word - 1 /\ last[w] \in 0 .. index[w]
      BY <2>3
    <3>2. index[w] - 1 \in 0 .. Word - 1 /\ last[w] \in 0 .. index[w] - 1
      BY <1>1, <2>3, <3>1
    <3>3. (index[w] - 1) % Word = index[w] - 1
      BY <1>1, <3>2
    <3>4. wpc[w] = "revVisit" => index[w] - 1 < head
      BY <1>1, <3>1
    <3>5. wpc' = wpc /\ index' = [index EXCEPT ![w] = index[w] - 1] /\ last' = last
      BY <2>3, <3>3
    <3> QED BY <1>1, <3>2, <3>4, <3>5
  <2> QED BY <2>1, <2>2, <2>3
<1> QED BY <1>2, <1>3, <1>4, <1>5, <1>6 DEF Watch

LEMMA StepKeepsBounds ==
  ASSUME BufferInv, BufferInv', BoundsInv, [IterNext]_<<vars, wvars>>
  PROVE  BoundsInv'
<1>1. CASE (\E p \in Procs : Call(p) \/ Step(p)) /\ UNCHANGED wvars
  <2>1. head \in Nat /\ head' \in Nat /\ head <= head'
    BY <1>1, HeadAdvances DEF BufferInv, TypeOK
  <2> QED BY <1>1, <2>1, Positions DEF wvars, BoundsInv, IterationsInBounds
<1>2. CASE Reset /\ (\A w \in Watchers : wpc[w] = "idle") /\ UNCHANGED wvars
  BY <1>2 DEF wvars, BoundsInv, IterationsInBounds
<1>3. CASE UNCHANGED <<vars, wvars>>
  BY <1>3 DEF vars, wvars, BoundsInv, IterationsInBounds
<1> QED BY <1>1, <1>2, <1>3, WatchKeepsBounds DEF IterNext

\* Beside writers an iteration visits positions that were pushed to, going back none below
\* the tail it loaded, unless it went back from a head of 0 when tail had moved; and while
\* nobody is inside a Push, Pop or Discard a visit to a buffered position sees a pushed value.
THEOREM Visits == ASSUME Capacity >= 2 PROVE IterSpec => []VisitsSeeValues
<1>1. IterInit => Init /\ (BufferInv => BoundsInv)
  BY Positions DEF IterInit, BoundsInv, IterationsInBounds
<1>2. [IterNext]_<<vars, wvars>> => [Next]_vars
  BY DEF IterNext, Next
<1>3. IterSpec => []BufferInv
  BY <1>1, <1>2, TypeCorrect, SlotsAlwaysAgree, NoSlotLost, RoomForPushes, PTL
     DEF IterSpec, Spec, BufferInv
<1>4. BufferInv /\ BufferInv' /\ BoundsInv /\ [IterNext]_<<vars, wvars>> => BoundsInv'
  BY StepKeepsBounds
<1>5. BufferInv /\ BoundsInv => VisitsSeeValues
  <2> SUFFICES ASSUME BufferInv, BoundsInv, NEW w \in Watchers, index[w] \in tail .. head - 1,
                      \A p \in Procs : ~Writing(p) /\ ~Reading(p)
               PROVE  value[Slot(index[w])] \in Values
    BY DEF VisitsSeeValues, BoundsInv
  <2> QED BY DEF BufferInv, ClaimsHaveOwners, SlotsAgree, FilledPart
<1> QED BY <1>1, <1>3, <1>4, <1>5, PTL DEF IterSpec
====
