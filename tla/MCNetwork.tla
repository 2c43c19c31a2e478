------------------------------ MODULE MCNetwork ------------------------------
(***************************************************************************)
(* The five rate limiters and the tables of the two DHTs for TLC, side by  *)
(* side: a behaviour is one of part, the others stay as they were made.    *)
(***************************************************************************)
EXTENDS FixedWindowCounter, SlidingWindowLog, SlidingWindowCounter, TokenBucket,
        LeakingBucket, Chord, Kademlia

CONSTANTS Parts,
          MaxHeard       \* bound: IDs that a Kademlia table is told of

VARIABLE part

logOnly == <<logs, wall, admitted>>
fixedOnly == <<currentCount, lastRest, passed>>
slotsOnly == <<slots, nowNano, allowed>>
tokenOnly == <<bucket, tokenPc, asked, seen, deadline, wait, timer, granted>>

dhtVars == <<chordVars, kadVars>>

vars == <<part, now, fixedOnly, logOnly, slotsOnly, tokenOnly, leakVars, dhtVars>>

Init == /\ part \in Parts
        /\ FixedInit /\ LogInit /\ SlotsInit /\ TokenInit /\ LeakInit
        /\ part # "token" => contexts = {}
        /\ ChordInit /\ (part # "chord" => members = {Min(NodeIds)})
        /\ KadInit /\ localID = [i \in 1 .. IDLength |-> 0]     \* IDs are alike up to an XOR

\* A step of one part, which the others do not see.
FixedPart(A) == /\ part = "fixed" /\ A
                /\ UNCHANGED <<part, logOnly, slotsOnly, tokenOnly, leakVars, dhtVars>>
LogPart(A) == /\ part = "log" /\ A
              /\ UNCHANGED <<part, fixedOnly, slotsOnly, tokenOnly, leakVars, dhtVars>>
SlotsPart(A) == /\ part = "slots" /\ A
                /\ UNCHANGED <<part, fixedOnly, logOnly, tokenOnly, leakVars, dhtVars>>
TokenPart(A) == /\ part = "token" /\ A
                /\ UNCHANGED <<part, fixedOnly, logOnly, slotsOnly, leakVars, dhtVars>>
LeakPart(A) == /\ part = "leak" /\ A
               /\ UNCHANGED <<part, now, fixedOnly, logOnly, slotsOnly, tokenOnly, dhtVars>>
ChordPart(A) == /\ part = "chord" /\ A
                /\ UNCHANGED <<part, now, fixedOnly, logOnly, slotsOnly, tokenOnly, leakVars, kadVars>>
KadPart == /\ part = "kad" /\ KadNext /\ Cardinality(DOMAIN heard') <= MaxHeard
           /\ UNCHANGED <<part, now, fixedOnly, logOnly, slotsOnly, tokenOnly, leakVars, chordVars>>

Next == \/ FixedPart(FixedNext) \/ LogPart(LogNext) \/ SlotsPart(SlotsNext)
        \/ TokenPart(TokenNext) \/ LeakPart(LeakNext)
        \/ ChordPart(ChordNext) \/ KadPart

\* The clock runs and the ticker ticks, goroutines run, a mutex that is free is
\* eventually got and a timer fires.  Go's select takes one of the ready cases at
\* random, so a stop that is ready time and again is taken.  The nodes of a Chord ring
\* call Stabilize and FixFingers again and again.
Fairness == /\ WF_vars(TokenPart(TokenTick))
            /\ \A p \in Clients : WF_vars(TokenPart(TokenStep(p)))
            /\ WF_vars(LeakPart(Ticker)) /\ WF_vars(LeakPart(StartStep))
            /\ SF_vars(LeakPart(SelectStop))
            /\ \A p \in Pushers : WF_vars(LeakPart(Send(p) \/ Drop(p)))
            /\ \A p \in Closers : WF_vars(LeakPart(CloseChan(p) \/ Closed(p)))
            /\ WF_vars(ChordPart(\E n \in NodeIds : Maintain(n)))

Spec == Init /\ [][Next]_vars /\ Fairness
-----------------------------------------------------------------------------
(* Properties *)

\* None of the three window limiters refuses a request without having let its limit
\* through within a window that ends with the request (for the sliding counter: one of the
\* wall clock it reads), and the sliding counter never lets more than its limit through
\* within all slots but one unless that clock was set back by more than those within them.
NoWindowMiscounts ==
  /\ DroppedOnlyAtLimit /\ RefusedOnlyAtLimit /\ SlotsRefuseOnlyAtLimit
  /\ SlotsTypeOK /\ LimitOverAllSlotsButOne

\* The token bucket grants no more than it holds and what has come in since; whoever it
\* lets wait is due by the deadline, and not for tokens that another who was told to wait
\* at the same time waits for.
TokensAsPromised == TokenTypeOK /\ RateBound /\ DueByDeadline /\ DebtsApart

\* Whoever waits for the token bucket without a deadline, and whoever waits in Close
\* for the ticker's goroutine, gets on.
CallersGetOn == CallsReturnWithoutDeadlines /\ CloseReturns

\* What joins leave wrong in a Chord ring, Stabilize and FixFingers put right: once joins
\* cease, every node's table comes to be right and stays so.
RingCloses == <>[](part = "chord" => TablesRight)

\* A Kademlia table is what it was told of and finds the closest of that, and whatever
\* the order of joins, Stabilize and FixFingers there is one Chord ring.
TablesKept == (part = "chord" => OneRing) /\ (part = "kad" => TableKnows)
=============================================================================
