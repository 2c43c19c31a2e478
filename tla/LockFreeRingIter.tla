-------------------------- MODULE LockFreeRingIter --------------------------
(***************************************************************************)
(* ForEach and ForEachReverse of Buffer/ringbuffer_lockfree.go running     *)
(* beside the pushes, pops and discards of LockFreeRing.  They load head   *)
(* and tail once and then read slot.value, without an atomic, of one       *)
(* position after the other.  The index is a uint64: here a number below   *)
(* Word, which stands for 2^64.                                            *)
(***************************************************************************)
EXTENDS LockFreeRing, FiniteSets

CONSTANTS Watchers,    \* the goroutines that iterate
          Word         \* bound: the values of the code's uint64

\* Room for the positions that MaxPos and the pushes under way when it is reached lead to.
ASSUME WordAssumption ==
  IsFiniteSet(Procs) /\ Word \in Nat /\ Word > MaxPos + Cardinality(Procs)

VARIABLES wpc,         \* where each watcher is
          index,       \* its i (before the loop: the first of its two loads)
          last         \* the position it stops at

wvars == <<wpc, index, last>>

IterInit == /\ Init
            /\ wpc = [w \in Watchers |-> "idle"]
            /\ index = [w \in Watchers |-> 0]
            /\ last = [w \in Watchers |-> 0]

WGoto(w, from, to) == wpc[w] = from /\ wpc' = [wpc EXCEPT ![w] = to]

\* The iteration ends: its locals are gone.
WReturn(w, from) == /\ WGoto(w, from, "idle")
                    /\ index' = [index EXCEPT ![w] = 0]
                    /\ last' = [last EXCEPT ![w] = 0]

\* ForEach loads tail, ForEachReverse loads head.
StartForward(w) == /\ WGoto(w, "idle", "fwdHead")
                   /\ index' = [index EXCEPT ![w] = tail]
                   /\ UNCHANGED last

StartReverse(w) == /\ WGoto(w, "idle", "revTail")
                   /\ index' = [index EXCEPT ![w] = head]
                   /\ UNCHANGED last

\* Mutant: i <= head.
ForwardHeadInclusive(w) == \/ /\ index[w] <= head
                              /\ WGoto(w, "fwdHead", "fwdVisit")
                              /\ last' = [last EXCEPT ![w] = head]
                              /\ UNCHANGED index
                           \/ index[w] > head /\ WReturn(w, "fwdHead")

\* i := tail; i < head
ForwardHead(w) == \/ /\ index[w] < head
                     /\ WGoto(w, "fwdHead", "fwdVisit")
                     /\ last' = [last EXCEPT ![w] = head - 1]
                     /\ UNCHANGED index
                  \/ index[w] >= head /\ WReturn(w, "fwdHead")

\* The visit reads slot.value; fn may end the iteration, the last one does.
ForwardVisit(w) == \/ /\ index[w] < last[w]
                      /\ WGoto(w, "fwdVisit", "fwdVisit")
                      /\ index' = [index EXCEPT ![w] = @ + 1]
                      /\ UNCHANGED last
                   \/ WReturn(w, "fwdVisit")

\* if head == tail return; i := head - 1; i >= tail.  Less one, the head of a ring that was
\* not pushed to is the last uint64, which is never below tail: if pushes and pops have
\* moved tail on since, the iteration goes down from there.
FirstReverse(w) == (index[w] - 1) % Word

ReverseTail(w) == \/ /\ index[w] # tail
                     /\ FirstReverse(w) >= tail
                     /\ WGoto(w, "revTail", IF index[w] = 0 THEN "revWrapped" ELSE "revVisit")
                     /\ index' = [index EXCEPT ![w] = FirstReverse(w)]
                     /\ last' = [last EXCEPT ![w] = tail]
                  \/ /\ index[w] = tail \/ FirstReverse(w) < tail
                     /\ WReturn(w, "revTail")

\* Mutant: no test but the loop's own, i >= tail, which a tail of 0 always passes.
ReverseVisitPast(w) == \E at \in {"revVisit", "revWrapped"} :
                         \/ /\ (index[w] - 1) % Word >= last[w]
                            /\ WGoto(w, at, at)
                            /\ index' = [index EXCEPT ![w] = (@ - 1) % Word]
                            /\ UNCHANGED last
                         \/ WReturn(w, at)

\* The test for tail that ends the loop is made before i--.
ReverseVisit(w) == \E at \in {"revVisit", "revWrapped"} :
                     \/ /\ index[w] # last[w]
                        /\ WGoto(w, at, at)
                        /\ index' = [index EXCEPT ![w] = (@ - 1) % Word]
                        /\ UNCHANGED last
                     \/ WReturn(w, at)

Watch(w) == \/ StartForward(w) \/ ForwardHead(w) \/ ForwardVisit(w)
            \/ StartReverse(w) \/ ReverseTail(w) \/ ReverseVisit(w)

\* Reset is allowed only while nobody else uses the buffer.
IterNext == \/ (\E w \in Watchers : Watch(w)) /\ UNCHANGED vars
            \/ (\E p \in Procs : Call(p) \/ Step(p)) /\ UNCHANGED wvars
            \/ Reset /\ (\A w \in Watchers : wpc[w] = "idle") /\ UNCHANGED wvars

IterSpec == IterInit /\ [][IterNext]_<<vars, wvars>>

\* The Go scheduler runs every runnable goroutine; nobody is made to call.
IterFairSpec ==
  IterSpec /\ \A p \in Procs : WF_<<vars, wvars>>(Step(p) /\ UNCHANGED wvars)
-----------------------------------------------------------------------------
(* Properties *)

Visiting(w) == wpc[w] \in {"fwdVisit", "revVisit", "revWrapped"}

\* A visit reads a position that has been pushed to: whatever moves head and tail between
\* an iteration's two loads and its visits, it never runs ahead of head, and one that goes
\* back never passes the tail it loaded, where its index would wrap.  The exception is a
\* reverse iteration that loaded head 0 and then a tail that had moved, which starts with
\* the last uint64.
IterationsInBounds ==
  /\ wpc \in [Watchers -> {"idle", "fwdHead", "fwdVisit", "revTail", "revVisit", "revWrapped"}]
  /\ index \in [Watchers -> 0 .. Word - 1]
  /\ last \in [Watchers -> 0 .. Word - 1]
  /\ \A w \in Watchers : /\ wpc[w] \in {"fwdVisit", "revVisit"} => index[w] < head
                         /\ wpc[w] \in {"revVisit", "revWrapped"} => last[w] \in 0 .. index[w]

\* An iteration stays in its bounds, and a visit to a buffered position while nobody
\* is inside Push, Pop or Discard sees a pushed value, however busy the buffer was
\* since the two loads.
VisitsSeeValues ==
  /\ IterationsInBounds
  /\ \A w \in Watchers :
       /\ Visiting(w)
       /\ index[w] \in tail .. head - 1
       /\ \A p \in Procs : ~Writing(p) /\ ~Reading(p)
       => value[Slot(index[w])] \in Values

\* Every Push, Pop, Discard and snapshot returns: with finitely many pushes, no
\* goroutine spins for ever on a slot that is not going to change, whatever the
\* iterations do.
CallsReturn == \A p \in Procs : pc[p] # "idle" ~> pc[p] = "idle"
=============================================================================
