--------------------------- MODULE LeakingBucket ---------------------------
(***************************************************************************)
(* Rate Limiter/Leaking Bucket/code.go: callers of Push and Close, and the *)
(* goroutine Start that takes an item per tick.  What it takes it hands to *)
(* a goroutine of its own; when that runs the handler is left open.        *)
(***************************************************************************)
EXTENDS Integers, Sequences

CONSTANTS Pushers, Closers, QueueSize,
          MaxTicks,   \* bound: the ticks of a behaviour
          MaxItems    \* bound: the items pushed

ASSUME QueueAssumption == QueueSize \in Nat \ {0}
ASSUME LeakBoundAssumption == MaxTicks \in Nat /\ MaxItems \in Nat
ASSUME CallersAssumption == Pushers \cap Closers = {}

VARIABLES queue,            \* the channel's items, numbered as they are pushed
          running, stopped, \* the flag, and whether stopChan is closed
          tick,             \* ticker.C, which holds at most one tick
          start,            \* where Start is: "select", "leak", "drain" or "done"
          leakPc,
          item,             \* the item a Push has come with
          accepted, taken,  \* history: the items pushed, and handed to a handler
          due,              \* history: those accepted when running was cleared
          ticks, items      \* bounded counters

leakVars == <<queue, running, stopped, tick, start, leakPc, item, accepted, taken, due,
              ticks, items>>

Callers == Pushers \cup Closers

LeakInit == /\ queue = << >> /\ accepted = << >> /\ taken = << >> /\ due = 0
            /\ running = TRUE /\ stopped = FALSE /\ tick = FALSE /\ start = "select"
            /\ leakPc = [p \in Callers |-> "idle"]
            /\ item = [p \in Pushers |-> 0]
            /\ ticks = 0 /\ items = 0

LeakGoto(p, l) == leakPc' = [leakPc EXCEPT ![p] = l]

\* Line 49; a bucket that is closed changes nothing.
BeginPush(p) == /\ leakPc[p] = "idle" /\ items < MaxItems /\ running
                /\ items' = items + 1
                /\ item' = [item EXCEPT ![p] = items + 1]
                /\ LeakGoto(p, "send")
                /\ UNCHANGED <<queue, running, stopped, tick, start, accepted, taken,
                               due, ticks>>

Send(p) == /\ leakPc[p] = "send" /\ Len(queue) < QueueSize
           /\ queue' = Append(queue, item[p])
           /\ accepted' = Append(accepted, item[p])
           /\ LeakGoto(p, "idle")
           /\ UNCHANGED <<running, stopped, tick, start, item, taken, due, ticks, items>>

Drop(p) == /\ leakPc[p] = "send" /\ Len(queue) >= QueueSize
           /\ LeakGoto(p, "idle")
           /\ UNCHANGED <<queue, running, stopped, tick, start, item, accepted, taken,
                          due, ticks, items>>

\* The ticker drops a tick that nobody has taken when the next one comes.
Ticker == /\ ticks < MaxTicks /\ start # "done"
          /\ tick' = TRUE /\ ticks' = ticks + 1
          /\ UNCHANGED <<queue, running, stopped, start, leakPc, item, accepted, taken, due,
                         items>>

\* Mutant: a tick is seen but not received.
SelectTickKept == /\ start = "select" /\ tick
                  /\ start' = "leak"
                  /\ UNCHANGED <<queue, running, stopped, tick, leakPc, item, accepted, taken,
                                 due, ticks, items>>

\* Lines 68-72: with both ready the select takes either.
SelectTick == /\ start = "select" /\ tick
              /\ tick' = FALSE /\ start' = "leak"
              /\ UNCHANGED <<queue, running, stopped, leakPc, item, accepted, taken, due,
                             ticks, items>>

SelectStop == /\ start = "select" /\ stopped
              /\ start' = "drain"
              /\ UNCHANGED <<queue, running, stopped, tick, leakPc, item, accepted, taken,
                             due, ticks, items>>

Take == taken' = Append(taken, Head(queue)) /\ queue' = Tail(queue)

\* Lines 73-77, and 92-101 after line 69.
Leak == /\ start = "leak"
        /\ start' = "select"
        /\ IF queue # << >> THEN Take ELSE UNCHANGED <<queue, taken>>
        /\ UNCHANGED <<running, stopped, tick, leakPc, item, accepted, due, ticks, items>>

DrainOne == /\ start = "drain" /\ queue # << >>
            /\ Take
            /\ UNCHANGED <<running, stopped, tick, start, leakPc, item, accepted, due, ticks,
                           items>>

Drained == /\ start = "drain" /\ queue = << >>
           /\ start' = "done"
           /\ UNCHANGED <<queue, running, stopped, tick, leakPc, item, accepted, taken, due,
                          ticks, items>>

\* Line 105: the one Close that clears running goes on,
BeginClose(p) == /\ leakPc[p] = "idle" /\ running
                 /\ running' = FALSE
                 /\ due' = Len(accepted)
                 /\ LeakGoto(p, "close")
                 /\ UNCHANGED <<queue, stopped, tick, start, item, accepted, taken, ticks,
                                items>>

\* and every other returns at once, though Start may still have items to hand over.
CloseAgain(p) == /\ leakPc[p] = "idle" /\ ~running
                 /\ LeakGoto(p, "refused")
                 /\ UNCHANGED <<queue, running, stopped, tick, start, item, accepted, taken,
                                due, ticks, items>>

CloseChan(p) == /\ leakPc[p] = "close"
                /\ stopped' = TRUE
                /\ LeakGoto(p, "wait")
                /\ UNCHANGED <<queue, running, tick, start, item, accepted, taken, due,
                               ticks, items>>

\* Mutant: no wg.Wait.
ClosedEarly(p) == /\ leakPc[p] = "wait"
                  /\ LeakGoto(p, "closed")
                  /\ UNCHANGED <<queue, running, stopped, tick, start, item, accepted,
                                 taken, due, ticks, items>>

Closed(p) == /\ leakPc[p] = "wait" /\ start = "done"
             /\ LeakGoto(p, "closed")
             /\ UNCHANGED <<queue, running, stopped, tick, start, item, accepted, taken,
                            due, ticks, items>>

StartStep == SelectTick \/ SelectStop \/ Leak \/ DrainOne \/ Drained

LeakNext == \/ \E p \in Pushers : BeginPush(p) \/ Send(p) \/ Drop(p)
            \/ \E p \in Closers : BeginClose(p) \/ CloseAgain(p) \/ CloseChan(p) \/ Closed(p)
            \/ StartStep \/ Ticker

LeakSpec == LeakInit /\ [][LeakNext]_leakVars
-----------------------------------------------------------------------------
(* Properties *)

\* The channel holds at most its capacity, and is closed only when not running.
LeakTypeOK == /\ Len(queue) <= QueueSize
              /\ stopped => ~running
              /\ start = "done" => stopped

\* concept.md: the queue is first-in-first-out and items are "processed at regular
\* intervals": handlers are started for the accepted items, each once, in the order
\* they were accepted, and until Close for one item at most per tick, however the
\* ticks pile up; and the Close that cleared running returns only when one has been
\* started for every item accepted before it (drainingRemain, line 70).  Another
\* Close promises nothing: it may be back before the drain has begun.
LeaksInTurn == /\ LeakTypeOK
               /\ taken \o queue = accepted
               /\ running => Len(taken) <= ticks
               /\ \A p \in Closers : leakPc[p] = "closed" => Len(taken) >= due

\* Close does not wait for ever for the ticker's goroutine.
CloseReturns == \A p \in Closers : leakPc[p] = "close" ~> leakPc[p] = "closed"
=============================================================================
