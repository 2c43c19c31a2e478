----------------------------- MODULE FifoQueue -----------------------------
(***************************************************************************)
(* What the queues of the repository that one caller at a time uses        *)
(* promise: an unbounded FIFO queue.                                       *)
(***************************************************************************)
EXTENDS Naturals, Sequences

CONSTANTS Values

VARIABLE queue      \* oldest first

Init == queue = << >>

Enqueue(v) == queue' = Append(queue, v)

Dequeue == queue # << >> /\ queue' = Tail(queue)

DropFirst(n) == queue' = SubSeq(queue, n + 1, Len(queue))

\* A write through the pointer Peek returns.
ReplaceHead(v) == queue # << >> /\ queue' = <<v>> \o Tail(queue)

Next == \/ \E v \in Values : Enqueue(v) \/ ReplaceHead(v)
        \/ Dequeue
        \/ \E n \in 1 .. Len(queue) : DropFirst(n)

Spec == Init /\ [][Next]_queue
=============================================================================
