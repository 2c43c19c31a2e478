---------------------------- MODULE LockFreeRing ----------------------------
(***************************************************************************)
(* Buffer/ringbuffer_lockfree.go: the bounded multi-producer               *)
(* multi-consumer ring of sequence-numbered slots.  Each atomic operation  *)
(* of the code and each plain access to slot.value is a step of its own;   *)
(* Go's sync/atomic is sequentially consistent, so steps interleave.       *)
(* Positions are naturals: the code's uint64 would wrap after 2^64 pushes. *)
(***************************************************************************)
EXTENDS Integers, Sequences, TLC

CONSTANTS Procs,        \* the goroutines that use the buffer
          Values,       \* what they push
          Zero,         \* the zero value of T, what Pop writes into a slot
          Capacity,     \* len(buffer); the code makes it a power of two
          MaxPos,       \* bound: no push starts once head has reached MaxPos
          MaxDiscard    \* bound: the largest n of Discard(n)

ASSUME CapacityAssumption == Capacity \in Nat \ {0}
ASSUME ValueAssumption == Zero \notin Values
ASSUME BoundAssumption == MaxPos \in Nat /\ MaxDiscard \in Nat

VARIABLES head,       \* next position to push to
          tail,       \* next position to pop from
          sequence,   \* slot.sequence of each slot
          value,      \* slot.value of each slot
          pc,         \* where each goroutine is
          pos,        \* its local head or tail
          val,        \* the argument of its Push, the result of its Pop
          todo        \* iterations its Discard has left

vars == <<head, tail, sequence, value, pc, pos, val, todo>>

Slots == 0 .. Capacity - 1
Slot(q) == q % Capacity        \* q & mask, Capacity being a power of two

PushPcs == {"pushLoad", "pushSeq", "pushCas", "pushWrite", "pushPublish"}
PopPcs == {"popLoad", "popSeq", "popCas", "popRead", "popClear", "popRelease"}
DiscardPcs == {"disLoad", "disSeq", "disCas", "disClear", "disRelease"}
Pcs == {"idle", "snapHead", "snapTail"} \cup PushPcs \cup PopPcs \cup DiscardPcs

Init == /\ head = 0
        /\ tail = 0
        /\ sequence = [i \in Slots |-> i]
        /\ value = [i \in Slots |-> Zero]
        /\ pc = [p \in Procs |-> "idle"]
        /\ pos = [p \in Procs |-> 0]
        /\ val = [p \in Procs |-> Zero]
        /\ todo = [p \in Procs |-> 0]

Goto(p, from, to) == pc[p] = from /\ pc' = [pc EXCEPT ![p] = to]

\* p's call returns: its locals are gone.
Return(p, from) == /\ Goto(p, from, "idle")
                   /\ pos' = [pos EXCEPT ![p] = 0]
                   /\ val' = [val EXCEPT ![p] = Zero]
                   /\ todo' = [todo EXCEPT ![p] = 0]

shared == <<head, tail, sequence, value>>

-----------------------------------------------------------------------------
(* Push *)

CallPush(p, v) == /\ Goto(p, "idle", "pushLoad")
                  /\ head < MaxPos
                  /\ val' = [val EXCEPT ![p] = v]
                  /\ UNCHANGED <<shared, pos, todo>>

PushLoad(p) == /\ Goto(p, "pushLoad", "pushSeq")
               /\ pos' = [pos EXCEPT ![p] = head]
               /\ UNCHANGED <<shared, val, todo>>

PushDiff(p) == sequence[Slot(pos[p])] - pos[p]

\* Mutant: diff <= 0, so a full buffer is pushed into.
PushSeesFullAsFree(p) == /\ Goto(p, "pushSeq", "pushCas")
                         /\ PushDiff(p) <= 0
                         /\ UNCHANGED <<shared, pos, val, todo>>

PushSeesFree(p) == /\ Goto(p, "pushSeq", "pushCas")
                   /\ PushDiff(p) = 0
                   /\ UNCHANGED <<shared, pos, val, todo>>

PushFull(p) == /\ Return(p, "pushSeq")
               /\ PushDiff(p) < 0
               /\ UNCHANGED shared

PushYield(p) == /\ Goto(p, "pushSeq", "pushLoad")
                /\ PushDiff(p) > 0
                /\ UNCHANGED <<shared, pos, val, todo>>

\* Mutant: a plain store to head instead of the CAS.
PushClaimBlindly(p) == /\ Goto(p, "pushCas", "pushWrite")
                       /\ head' = pos[p] + 1
                       /\ UNCHANGED <<tail, sequence, value, pos, val, todo>>

PushClaim(p) == /\ Goto(p, "pushCas", "pushWrite")
                /\ head = pos[p]
                /\ head' = head + 1
                /\ UNCHANGED <<tail, sequence, value, pos, val, todo>>

PushRetry(p) == /\ Goto(p, "pushCas", "pushLoad")
                /\ head # pos[p]
                /\ UNCHANGED <<shared, pos, val, todo>>

PushWrite(p) == /\ Goto(p, "pushWrite", "pushPublish")
                /\ value' = [value EXCEPT ![Slot(pos[p])] = val[p]]
                /\ UNCHANGED <<head, tail, sequence, pos, val, todo>>

\* Mutant: tail + 1 and a whole lap.
PushPublishTooFar(p) ==
  /\ Return(p, "pushPublish")
  /\ sequence' = [sequence EXCEPT ![Slot(pos[p])] = pos[p] + 1 + Capacity]
  /\ UNCHANGED <<head, tail, value>>

PushPublish(p) == /\ Return(p, "pushPublish")
                  /\ sequence' = [sequence EXCEPT ![Slot(pos[p])] = pos[p] + 1]
                  /\ UNCHANGED <<head, tail, value>>

PushStep(p) == \/ PushLoad(p) \/ PushSeesFree(p) \/ PushFull(p) \/ PushYield(p)
               \/ PushClaim(p) \/ PushRetry(p) \/ PushWrite(p) \/ PushPublish(p)

-----------------------------------------------------------------------------
(* Pop *)

CallPop(p) == /\ Goto(p, "idle", "popLoad")
              /\ UNCHANGED <<shared, pos, val, todo>>

PopLoad(p) == /\ Goto(p, "popLoad", "popSeq")
              /\ pos' = [pos EXCEPT ![p] = tail]
              /\ UNCHANGED <<shared, val, todo>>

PopDiff(p) == sequence[Slot(pos[p])] - (pos[p] + 1)

\* Mutant: diff <= 0, so a claimed slot is popped before it is published.
PopSeesClaimedAsFilled(p) == /\ Goto(p, "popSeq", "popCas")
                             /\ PopDiff(p) \in {-1, 0}
                             /\ UNCHANGED <<shared, pos, val, todo>>

PopSeesFilled(p) == /\ Goto(p, "popSeq", "popCas")
                    /\ PopDiff(p) = 0
                    /\ UNCHANGED <<shared, pos, val, todo>>

PopEmpty(p) == /\ Return(p, "popSeq")
               /\ PopDiff(p) < 0
               /\ UNCHANGED shared

PopYield(p) == /\ Goto(p, "popSeq", "popLoad")
               /\ PopDiff(p) > 0
               /\ UNCHANGED <<shared, pos, val, todo>>

PopClaim(p) == /\ Goto(p, "popCas", "popRead")
               /\ tail = pos[p]
               /\ tail' = tail + 1
               /\ UNCHANGED <<head, sequence, value, pos, val, todo>>

PopRetry(p) == /\ Goto(p, "popCas", "popLoad")
               /\ tail # pos[p]
               /\ UNCHANGED <<shared, pos, val, todo>>

PopRead(p) == /\ Goto(p, "popRead", "popClear")
              /\ val' = [val EXCEPT ![p] = value[Slot(pos[p])]]
              /\ UNCHANGED <<shared, pos, todo>>

\* Mutant: the slot of the tail after the CAS is cleared.
PopClearNext(p) ==
  /\ Goto(p, "popClear", "popRelease")
  /\ value' = [value EXCEPT ![Slot(pos[p] + 1)] = Zero]
  /\ UNCHANGED <<head, tail, sequence, pos, val, todo>>

PopClear(p) == /\ Goto(p, "popClear", "popRelease")
               /\ value' = [value EXCEPT ![Slot(pos[p])] = Zero]
               /\ UNCHANGED <<head, tail, sequence, pos, val, todo>>

\* Mutant: Pop returns without releasing the slot.
PopReleaseNot(p) == Return(p, "popRelease") /\ UNCHANGED shared

PopRelease(p) ==
  /\ Return(p, "popRelease")
  /\ sequence' = [sequence EXCEPT ![Slot(pos[p])] = pos[p] + Capacity]
  /\ UNCHANGED <<head, tail, value>>

PopStep(p) == \/ PopLoad(p) \/ PopSeesFilled(p) \/ PopEmpty(p) \/ PopYield(p)
              \/ PopClaim(p) \/ PopRetry(p)
              \/ PopRead(p) \/ PopClear(p) \/ PopRelease(p)

-----------------------------------------------------------------------------
(* Discard(n): at most n attempts; a lost race uses an attempt up.         *)

CallDiscard(p, n) == /\ Goto(p, "idle", "disLoad")
                     /\ todo' = [todo EXCEPT ![p] = n]
                     /\ UNCHANGED <<shared, pos, val>>

\* The for loop: the next iteration, or the return of the count.
NextAttempt(p, from) ==
  \/ /\ todo[p] > 1
     /\ Goto(p, from, "disLoad")
     /\ todo' = [todo EXCEPT ![p] = @ - 1]
     /\ UNCHANGED <<pos, val>>
  \/ /\ todo[p] <= 1
     /\ Return(p, from)

DiscardLoad(p) == /\ Goto(p, "disLoad", "disSeq")
                  /\ pos' = [pos EXCEPT ![p] = tail]
                  /\ UNCHANGED <<shared, val, todo>>

DiscardSeesFilled(p) == /\ Goto(p, "disSeq", "disCas")
                        /\ PopDiff(p) = 0
                        /\ UNCHANGED <<shared, pos, val, todo>>

DiscardEmpty(p) == /\ Return(p, "disSeq")
                   /\ PopDiff(p) < 0
                   /\ UNCHANGED shared

DiscardStale(p) == /\ NextAttempt(p, "disSeq")
                   /\ PopDiff(p) > 0
                   /\ UNCHANGED shared

DiscardClaim(p) == /\ Goto(p, "disCas", "disClear")
                   /\ tail = pos[p]
                   /\ tail' = tail + 1
                   /\ UNCHANGED <<head, sequence, value, pos, val, todo>>

DiscardLost(p) == /\ NextAttempt(p, "disCas")
                  /\ tail # pos[p]
                  /\ UNCHANGED shared

\* Mutant: Discard forgets to clear the slot.
DiscardWithoutClear(p) == /\ Goto(p, "disClear", "disRelease")
                          /\ UNCHANGED <<shared, pos, val, todo>>

DiscardClear(p) == /\ Goto(p, "disClear", "disRelease")
                   /\ value' = [value EXCEPT ![Slot(pos[p])] = Zero]
                   /\ UNCHANGED <<head, tail, sequence, pos, val, todo>>

DiscardRelease(p) ==
  /\ NextAttempt(p, "disRelease")
  /\ sequence' = [sequence EXCEPT ![Slot(pos[p])] = pos[p] + Capacity]
  /\ UNCHANGED <<head, tail, value>>

DiscardStep(p) == \/ DiscardLoad(p) \/ DiscardSeesFilled(p) \/ DiscardEmpty(p)
                  \/ DiscardStale(p) \/ DiscardClaim(p) \/ DiscardLost(p)
                  \/ DiscardClear(p) \/ DiscardRelease(p)

-----------------------------------------------------------------------------
(* Empty, Full and Len: two loads, head first, and a comparison.           *)

CallSnapshot(p) == /\ Goto(p, "idle", "snapHead")
                   /\ UNCHANGED <<shared, pos, val, todo>>

SnapshotHead(p) == /\ Goto(p, "snapHead", "snapTail")
                   /\ pos' = [pos EXCEPT ![p] = head]
                   /\ UNCHANGED <<shared, val, todo>>

SnapshotTail(p) == Return(p, "snapTail") /\ UNCHANGED shared

\* What the three calls return if the load of tail happens now.  head - tail
\* is a uint64: a negative difference is a huge one for Full, and is
\* negative again in the int of Len.
EmptyResult(p) == pos[p] = tail
FullResult(p) == pos[p] - tail < 0 \/ pos[p] - tail >= Capacity
LenResult(p) == pos[p] - tail

\* Reset, which its comment allows only while nobody else uses the buffer.
Reset == /\ \A p \in Procs : pc[p] = "idle"
         /\ head' = 0
         /\ tail' = 0
         /\ sequence' = [i \in Slots |-> i]
         /\ value' = [i \in Slots |-> Zero]
         /\ UNCHANGED <<pc, pos, val, todo>>

-----------------------------------------------------------------------------

Call(p) == \/ \E v \in Values : CallPush(p, v)
           \/ CallPop(p)
           \/ \E n \in 1 .. MaxDiscard : CallDiscard(p, n)
           \/ CallSnapshot(p)

Step(p) == \/ PushStep(p) \/ PopStep(p) \/ DiscardStep(p)
           \/ SnapshotHead(p) \/ SnapshotTail(p)

Next == (\E p \in Procs : Call(p) \/ Step(p)) \/ Reset

Spec == Init /\ [][Next]_vars
-----------------------------------------------------------------------------
(* Properties *)

Writing(p) == pc[p] \in {"pushWrite", "pushPublish"}
Reading(p) == pc[p] \in {"popRead", "popClear", "popRelease",
                         "disClear", "disRelease"}

\* The counters never go below zero and a sequence is never negative, though
\* releases and claims add and subtract whole laps.
TypeOK == /\ head \in Nat
          /\ tail \in Nat
          /\ sequence \in [Slots -> Nat]
          /\ value \in [Slots -> Values \cup {Zero}]
          /\ pc \in [Procs -> Pcs]
          /\ pos \in [Procs -> Nat]
          /\ val \in [Procs -> Values \cup {Zero}]
          /\ todo \in [Procs -> Nat]

\* slot.value is accessed without an atomic: no two goroutines may be between
\* the CAS that claims a slot and the store that hands it over on one slot.
SlotExclusive ==
  \A p, q \in Procs :
    /\ p # q
    /\ Writing(p) \/ Reading(p)
    /\ Writing(q) \/ Reading(q)
    => Slot(pos[p]) # Slot(pos[q])

\* A push into a full buffer is refused and a pop from an empty one is too:
\* head and tail, advanced by separate CASes, stay within Capacity.
OccupancyBounded == head - tail \in 0 .. Capacity

\* The design notes' "no leak": a slot handed back to the producers holds no
\* reference, whichever of Pop and Discard emptied it.
FreeSlotsCleared ==
  \A q \in head .. tail + Capacity - 1 :
    sequence[Slot(q)] = q => value[Slot(q)] = Zero

\* No slot is lost: one that is claimed, for a push or for a pop, has an owner
\* that is still going to hand it over.
ClaimsHaveOwners ==
  /\ \A q \in tail .. head - 1 :
       sequence[Slot(q)] = q => \E p \in Procs : Writing(p) /\ pos[p] = q
  /\ \A q \in head .. tail + Capacity - 1 :
       sequence[Slot(q)] = q + 1 - Capacity
         => \E p \in Procs : Reading(p) /\ pos[p] = q - Capacity

\* A successful Pop returns a value some Push was given, never the zero value
\* of a slot that is claimed but not written, or already cleared.
PopReturnsPushed ==
  \A p \in Procs : pc[p] \in {"popClear", "popRelease"} => val[p] \in Values

\* Len never reports more than the buffer can hold: head is read before tail.
LenAtMostCapacity ==
  \A p \in Procs : pc[p] = "snapTail" => LenResult(p) <= Capacity

-----------------------------------------------------------------------------
(* Why the properties hold: what the sequence numbers say about the slots  *)
(* of the two halves of the ring and what each goroutine knows of them.    *)

\* The slots behind head: published, or claimed by a push not done with them.
FilledPart == \A q \in tail .. head - 1 :
                \/ sequence[Slot(q)] = q
                \/ sequence[Slot(q)] = q + 1 /\ value[Slot(q)] \in Values

\* The slots ahead of head: released for this lap, or claimed by a pop or
\* discard of the lap before that is not done with them.
FreePart == \A q \in head .. tail + Capacity - 1 :
              \/ sequence[Slot(q)] = q /\ value[Slot(q)] = Zero
              \/ sequence[Slot(q)] = q + 1 - Capacity

PusherKnows(p) ==
  /\ pc[p] \in PushPcs => val[p] \in Values
  /\ pc[p] \in {"pushSeq", "pushCas", "snapTail"} => pos[p] <= head
  /\ pc[p] = "pushCas" /\ pos[p] = head
       => head < tail + Capacity /\ sequence[Slot(head)] = head

PopperKnows(p) ==
  /\ pc[p] \in {"popSeq", "popCas", "disSeq", "disCas"} => pos[p] <= tail
  /\ pc[p] \in {"popCas", "disCas"} /\ pos[p] = tail
       => tail < head /\ sequence[Slot(tail)] = tail + 1

WriterOwns(p) ==
  Writing(p) => /\ tail <= pos[p] /\ pos[p] < head
                /\ sequence[Slot(pos[p])] = pos[p]
                /\ pc[p] = "pushPublish" => value[Slot(pos[p])] \in Values

ReaderOwns(p) ==
  Reading(p) => /\ pos[p] < tail /\ head <= pos[p] + Capacity
                /\ sequence[Slot(pos[p])] = pos[p] + 1
                /\ pc[p] = "popRead" => value[Slot(pos[p])] \in Values
                /\ pc[p] \in {"popClear", "popRelease"} => val[p] \in Values
                /\ pc[p] \in {"popRelease", "disRelease"}
                     => value[Slot(pos[p])] = Zero

OwnersApart ==
  \A p, q \in Procs :
    p # q => /\ Writing(p) /\ Writing(q) => pos[p] # pos[q]
             /\ Reading(p) /\ Reading(q) => pos[p] # pos[q]

\* The inductive invariant: the state of every slot, as its sequence number
\* tells it, agrees with head, tail and the goroutines that own the slot.
SlotsAgree == /\ tail <= head /\ head <= tail + Capacity
              /\ FilledPart
              /\ FreePart
              /\ \A p \in Procs : /\ PusherKnows(p)
                                  /\ PopperKnows(p)
                                  /\ WriterOwns(p)
                                  /\ ReaderOwns(p)
              /\ OwnersApart

-----------------------------------------------------------------------------

\* The argument against ABA in LOCKFREE_DESIGN.md: sequences only grow.
SequenceIncreases ==
  [][Reset \/ \A i \in Slots : sequence'[i] >= sequence[i]]_vars

\* The value at position q, tail <= q < head: in its slot once it is published,
\* until then the argument of the push that claimed q.
ValueAt(q) ==
  IF sequence[Slot(q)] = q + 1
  THEN value[Slot(q)]
  ELSE val[CHOOSE p \in Procs : Writing(p) /\ pos[p] = q]

\* The buffer implements the queue of BoundedQueue: a push takes effect at its
\* CAS on head, a pop at its CAS on tail.
absQueue == [i \in 1 .. head - tail |-> ValueAt(tail + i - 1)]
absArg == [p \in Procs |->
            IF pc[p] \in {"pushLoad", "pushSeq", "pushCas"} THEN val[p] ELSE Zero]
absRet == [p \in Procs |->
            IF pc[p] = "popRead" THEN value[Slot(pos[p])]
            ELSE IF pc[p] \in {"popClear", "popRelease"} THEN val[p] ELSE Zero]

Abs == INSTANCE BoundedQueue WITH
         None <- Zero, queue <- absQueue, arg <- absArg, ret <- absRet

\* Values leave in the order the pushes claimed their positions, each exactly
\* once and unchanged, whatever the interleaving.
ImplementsQueue == Abs!Spec

\* While no other goroutine is between its claim of a slot and its release, false
\* means what the comments say: Pop's "the buffer is empty", Push's "the buffer is
\* full", however old the position is that the caller has loaded.
FailuresAreTrueWhenQuiet ==
  [][\A p \in Procs :
       (\A q \in Procs : ~Writing(q) /\ ~Reading(q))
         => (PopEmpty(p) => head = tail) /\ (PushFull(p) => head = tail + Capacity)]_vars

\* Goroutines and values may be exchanged when TLC explores the states.
Symmetry == Permutations(Procs) \cup Permutations(Values)
=============================================================================
