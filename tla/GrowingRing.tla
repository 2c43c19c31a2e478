---------------------------- MODULE GrowingRing ----------------------------
(***************************************************************************)
(* Buffer/ringbuffer.go: the ring buffer for one goroutine that grows when *)
(* it is full.  One cell stays unused to tell full from empty.             *)
(***************************************************************************)
EXTENDS Integers, Sequences, SequencesExt

CONSTANTS Values, Zero,
          InitialCells,    \* len(buffer) of the literal the ring starts from
          MaxLength        \* bound: no push into a ring of MaxLength elements

ASSUME CellsAssumption == InitialCells \subseteq Nat \ {0}
ASSUME ZeroAssumption == Zero \notin Values
ASSUME LengthAssumption == MaxLength \in Nat

VARIABLES buffer,    \* the cells, indexed from 0
          head,      \* index of the first element
          tail       \* index where the next element goes

ringVars == <<buffer, head, tail>>

Size == Len(buffer)
Cell(i) == buffer[i + 1]
SetCell(b, i, v) == [b EXCEPT ![i + 1] = v]

RingInit == /\ \E n \in InitialCells : buffer = [i \in 1 .. n |-> Zero]
            /\ head = 0
            /\ tail = 0

Empty == head = tail
Full == (tail + 1) % Size = head

Length == IF tail >= head THEN tail - head ELSE Size - head + tail

\* What ForEach hands to fn, in order.
ForEach ==
  IF head <= tail
  THEN SubSeq(buffer, head + 1, tail)
  ELSE SubSeq(buffer, head + 1, Size) \o SubSeq(buffer, 1, tail)

ForEachReverse ==
  IF head <= tail
  THEN Reverse(SubSeq(buffer, head + 1, tail))
  ELSE Reverse(SubSeq(buffer, 1, tail)) \o Reverse(SubSeq(buffer, head + 1, Size))

\* len + 10% + 1, at least len + 2.
GrownCapacity == LET c == Length + (Length + 9) \div 10 + 1
                 IN  IF c < Length + 2 THEN Length + 2 ELSE c

\* Mutant: grow copies the two pieces of a wrapped ring in the order of their cells.
GrownSwapped ==
  (IF head <= tail THEN SubSeq(buffer, head + 1, tail)
                   ELSE SubSeq(buffer, 1, tail) \o SubSeq(buffer, head + 1, Size))
    \o [i \in 1 .. GrownCapacity + 1 - Length |-> Zero]

\* The buffer grow leaves: the elements from cell 0 on, one cell to spare.
Grown == ForEach \o [i \in 1 .. GrownCapacity + 1 - Length |-> Zero]

Push(v) ==
  /\ Length < MaxLength
  /\ LET b == IF Full THEN Grown ELSE buffer
         h == IF Full THEN 0 ELSE head
         t == IF Full THEN Length ELSE tail
     IN  /\ buffer' = SetCell(b, t, v)
         /\ head' = h
         /\ tail' = (t + 1) % Len(b)

Pop == /\ ~Empty
       /\ buffer' = SetCell(buffer, head, Zero)
       /\ head' = (head + 1) % Size
       /\ UNCHANGED tail

\* Peek, and a write through the pointer it returns.
Peek(v) == /\ ~Empty
           /\ buffer' = SetCell(buffer, head, v)
           /\ UNCHANGED <<head, tail>>

\* The count returned is the number of cells cleared, at most Length.
Discard(n) ==
  /\ ~Empty
  /\ LET k == IF n >= Length THEN Length ELSE n
         Gone(i) == (i - head) % Size < k
     IN  /\ buffer' = [j \in 1 .. Size |-> IF Gone(j - 1) THEN Zero ELSE buffer[j]]
         /\ head' = (head + k) % Size
  /\ UNCHANGED tail

RingNext == \/ \E v \in Values : Push(v) \/ Peek(v)
            \/ Pop
            \/ \E n \in 1 .. MaxLength + 1 : Discard(n)

RingSpec == RingInit /\ [][RingNext]_ringVars
-----------------------------------------------------------------------------
(* Properties *)

\* The elements by the arithmetic of the ring alone.
Elements == [i \in 1 .. (tail - head) % Size |-> Cell((head + i - 1) % Size)]

\* Len counts the elements, ForEach and ForEachReverse each iterate "through all
\* elements", in order and in reverse order, wherever the buffer wraps, and "clear
\* the slot to prevent memory leaks" is true of every cell that is free.
ReadsAgree == /\ Length = Len(Elements)
              /\ ForEach = Elements
              /\ ForEachReverse = Reverse(Elements)
              /\ \A i \in 0 .. Size - 1 :
                   (Cell(i) # Zero) <=> (i - head) % Size < Length

Ring == INSTANCE FifoQueue WITH queue <- Elements

\* Pushes, pops and discards act on one FIFO queue: growing in the middle of a
\* wrapped buffer neither loses, duplicates nor reorders an element, and what the
\* buffer tells of itself is true.
ImplementsFifo == Ring!Spec /\ []ReadsAgree
=============================================================================
