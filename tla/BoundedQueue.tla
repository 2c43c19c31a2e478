---------------------------- MODULE BoundedQueue ----------------------------
(***************************************************************************)
(* What Buffer/ringbuffer_lockfree.go promises its callers: a FIFO queue   *)
(* of at most Capacity values that any goroutine may push to, pop from or  *)
(* discard from, every operation taking effect at one instant between its  *)
(* call and its return.  A push or a pop may also give up without effect:  *)
(* the code returns false beside other calls on buffers that are neither   *)
(* full nor empty, so this module promises nothing about when.             *)
(***************************************************************************)
EXTENDS Naturals, Sequences

CONSTANTS Procs, Values, None, Capacity

VARIABLES queue,   \* the accepted values, oldest first
          arg,     \* arg[p]: the value p is trying to push, or None
          ret      \* ret[p]: the value p's pop took and has not returned yet

vars == <<queue, arg, ret>>

Init == /\ queue = << >>
        /\ arg = [p \in Procs |-> None]
        /\ ret = [p \in Procs |-> None]

CallPush(p, v) == /\ arg[p] = None /\ ret[p] = None
                  /\ arg' = [arg EXCEPT ![p] = v]
                  /\ UNCHANGED <<queue, ret>>

\* The push takes effect: p's own value, once, behind everything accepted.
Enqueue(p) == /\ arg[p] # None
              /\ Len(queue) < Capacity
              /\ queue' = Append(queue, arg[p])
              /\ arg' = [arg EXCEPT ![p] = None]
              /\ UNCHANGED ret

GiveUpPush(p) == /\ arg[p] # None
                 /\ arg' = [arg EXCEPT ![p] = None]
                 /\ UNCHANGED <<queue, ret>>

\* The pop takes effect: p gets the oldest value and nobody else does.
Dequeue(p) == /\ arg[p] = None /\ ret[p] = None
              /\ queue # << >>
              /\ ret' = [ret EXCEPT ![p] = Head(queue)]
              /\ queue' = Tail(queue)
              /\ UNCHANGED arg

ReturnPop(p) == /\ ret[p] # None
                /\ ret' = [ret EXCEPT ![p] = None]
                /\ UNCHANGED <<queue, arg>>

DiscardOne == /\ queue # << >>
              /\ queue' = Tail(queue)
              /\ UNCHANGED <<arg, ret>>

\* Reset of a quiescent buffer.
Clear == /\ \A p \in Procs : arg[p] = None /\ ret[p] = None
         /\ queue' = << >>
         /\ UNCHANGED <<arg, ret>>

Next == \/ \E p \in Procs : \/ \E v \in Values : CallPush(p, v)
                            \/ Enqueue(p)
                            \/ GiveUpPush(p)
                            \/ Dequeue(p)
                            \/ ReturnPop(p)
        \/ DiscardOne
        \/ Clear

Spec == Init /\ [][Next]_vars
=============================================================================
