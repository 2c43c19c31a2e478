------------------------- MODULE FixedWindowCounter -------------------------
(***************************************************************************)
(* Rate Limiter/Fixed Window Counter/code.go.  f.mu covers every method,   *)
(* so a call is one step; the clock may advance inside it, between the two *)
(* readings of Allow.                                                      *)
(***************************************************************************)
EXTENDS Clock, Sequences

CONSTANTS FixedLimit, FixedWindow,
          FixedEnd   \* bound: the time at which a behaviour stops

ASSUME FixedAssumption == FixedLimit \in Nat \ {0} /\ FixedWindow \in Nat \ {0}
ASSUME FixedEndAssumption == FixedEnd \in Nat

VARIABLES currentCount, lastRest,
          passed   \* history: when requests passed, since the last Reset

fixedVars == <<now, currentCount, lastRest, passed>>

FixedInit == now = 0 /\ currentCount = 0 /\ lastRest = 0 /\ passed = << >>

\* Mutant: the new window starts where the old one ended.
RollAligned(later) == IF now - lastRest > FixedWindow
                        THEN [count |-> 0, start |-> lastRest + FixedWindow]
                        ELSE [count |-> currentCount, start |-> lastRest]

\* The counter after lines 39-42: the test reads the clock at now, the new
\* window's start is read later.
Roll(later) == IF now - lastRest > FixedWindow
                 THEN [count |-> 0, start |-> later]
                 ELSE [count |-> currentCount, start |-> lastRest]

\* Mutant: currentCount <= limit.
PassOneMore(later) == /\ Roll(later).count <= FixedLimit
                      /\ currentCount' = Roll(later).count + 1
                      /\ lastRest' = Roll(later).start
                      /\ passed' = Append(passed, later)
                      /\ now' = later

Pass(later) == /\ Roll(later).count < FixedLimit
               /\ currentCount' = Roll(later).count + 1
               /\ lastRest' = Roll(later).start
               /\ passed' = Append(passed, later)
               /\ now' = later

Limited(later) == /\ Roll(later).count >= FixedLimit
                  /\ currentCount' = Roll(later).count
                  /\ lastRest' = Roll(later).start
                  /\ now' = later
                  /\ UNCHANGED passed

Times == now .. FixedEnd

FixedAllow == \E later \in Times : Pass(later) \/ Limited(later)

Reset == /\ currentCount' = 0 /\ lastRest' = now /\ passed' = << >>
         /\ UNCHANGED now

FixedTick == /\ now < FixedEnd /\ now' = now + 1
             /\ UNCHANGED <<currentCount, lastRest, passed>>

FixedNext == FixedAllow \/ Reset \/ FixedTick

FixedSpec == FixedInit /\ [][FixedNext]_fixedVars
-----------------------------------------------------------------------------
(* Properties *)

\* The count stays within the limit and the window's start is in the past.
FixedTypeOK == /\ now \in Nat /\ currentCount \in 0 .. FixedLimit /\ lastRest \in 0 .. now
               /\ passed \in Seq(Nat)

\* concept.md, Figure 2: up to twice the limit may pass around the edge of two
\* windows, but never more: 2 * Limit + 1 passes in a row span more than a window.
AtMostTwiceTheLimit ==
  \A i \in 1 .. Len(passed) - 2 * FixedLimit :
    passed[i + 2 * FixedLimit] - passed[i] > FixedWindow

\* concept.md: "once the counter reaches the pre-defined threshold, new requests
\* are dropped until a new time window starts": a request is dropped only after
\* Limit passes since a start that is at most a window old when Allow reads it.
DroppedOnlyAtLimit ==
  \A later \in Times :
    Roll(later).count >= FixedLimit
      => /\ Len(passed) >= FixedLimit
         /\ now - passed[Len(passed) + 1 - FixedLimit] <= FixedWindow
-----------------------------------------------------------------------------
\* Why: the last currentCount passes are of this window, the others are older
\* than its start, and all but Limit of those by more than a window.
WindowsApart ==
  LET earlier == Len(passed) - currentCount
  IN  /\ earlier >= 0
      /\ \A i \in 1 .. Len(passed) : passed[i] <= now
      /\ \A i \in 1 .. earlier : passed[i] <= lastRest
      /\ \A i \in earlier + 1 .. Len(passed) : passed[i] >= lastRest
      /\ \A i \in 1 .. earlier - FixedLimit : lastRest - passed[i] > FixedWindow
      /\ AtMostTwiceTheLimit
=============================================================================
