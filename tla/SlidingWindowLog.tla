-------------------------- MODULE SlidingWindowLog --------------------------
(***************************************************************************)
(* Rate Limiter/Sliding Window Log/code.go: the log of the admitted        *)
(* requests' timestamps.  s.mu covers a whole Allow, so an Allow is a step. *)
(* Timestamps are UnixNano, the wall clock, which may be set back.         *)
(***************************************************************************)
EXTENDS Clock, Sequences

CONSTANTS LogLimit, LogWindow,
          LogEnd,      \* bound: the true time at which a behaviour stops
          SetBack       \* by how much the wall clock may be set back

ASSUME LogAssumption == LogLimit \in Nat \ {0} /\ LogWindow \in Nat \ {0}
ASSUME SetBackAssumption == SetBack \subseteq Nat \ {0} /\ LogEnd \in Nat

VARIABLES logs,       \* s.logs
          wall,       \* what time.Now() says
          admitted    \* history: the true times of the admissions

logVars == <<logs, now, wall, admitted>>

LogInit == logs = << >> /\ now = 0 /\ wall = 0 /\ admitted = << >>

\* Mutant: a request as old as the window still counts as gone too early.
SearchTooFar(boundary) ==
  {p \in 0 .. Len(logs) : /\ p > 0 => logs[p] <= boundary + 1
                          /\ p < Len(logs) => logs[p + 1] > boundary + 1}

\* sort.Search: the end of its binary search.  On a sorted log it is the number
\* of timestamps that are not after boundary; on others it is one of several.
Search(boundary) ==
  {p \in 0 .. Len(logs) : /\ p > 0 => logs[p] <= boundary
                          /\ p < Len(logs) => logs[p + 1] > boundary}

Trimmed(p) == SubSeq(logs, p + 1, Len(logs))

Admit == \E p \in Search(wall - LogWindow) :
           /\ Len(Trimmed(p)) < LogLimit
           /\ logs' = Append(Trimmed(p), wall)
           /\ admitted' = Append(admitted, now)
           /\ UNCHANGED <<now, wall>>

Reject == \E p \in Search(wall - LogWindow) :
            /\ Len(Trimmed(p)) >= LogLimit
            /\ logs' = Trimmed(p)
            /\ UNCHANGED <<now, wall, admitted>>

LogAllow == Admit \/ Reject

LogTick == /\ now < LogEnd
           /\ now' = now + 1 /\ wall' = wall + 1
           /\ UNCHANGED <<logs, admitted>>

ClockSetBack == \E b \in SetBack : /\ now < LogEnd
                                   /\ wall' = wall - b
                                   /\ now' = now + 1
                                   /\ UNCHANGED <<logs, admitted>>

LogNext == LogAllow \/ LogTick \/ ClockSetBack

LogSpec == LogInit /\ [][LogNext]_logVars
-----------------------------------------------------------------------------
(* Properties *)

\* The log never holds more than Limit timestamps, whatever the clock does.
LogTypeOK == /\ logs \in Seq(Int) /\ Len(logs) <= LogLimit /\ admitted \in Seq(Nat)
             /\ now \in Nat /\ wall \in Int

\* concept.md: "in any rolling window, requests will not exceed the rate limit":
\* Limit + 1 admissions in a row span at least a whole window.
RollingLimit ==
  \A i \in 1 .. Len(admitted) - LogLimit :
    admitted[i + LogLimit] - admitted[i] >= LogWindow

\* "Very accurate": while the clock runs steadily a request is refused only if
\* Limit were admitted within the window that ends now.
RefusedOnlyAtLimit ==
  \A p \in Search(wall - LogWindow) :
    wall = now /\ Len(Trimmed(p)) >= LogLimit
      => /\ Len(admitted) >= LogLimit
         /\ admitted[Len(admitted) + 1 - LogLimit] > now - LogWindow
-----------------------------------------------------------------------------
\* Why: the log is the end of the history, and what was cut off it is older
\* than the window: setting the clock back only makes the log's timestamps look
\* younger than the admissions are.
LogIsSuffix ==
  LET cut == Len(admitted) - Len(logs)
  IN  /\ cut >= 0
      /\ \A i \in 1 .. Len(logs) : logs[i] - admitted[cut + i] >= wall - now
      /\ cut > 0 => admitted[cut] <= now - LogWindow
      /\ \A i, j \in 1 .. Len(admitted) : i <= j => admitted[i] <= admitted[j]
      /\ \A i \in 1 .. Len(admitted) : admitted[i] <= now
      /\ RollingLimit
=============================================================================
