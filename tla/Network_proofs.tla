---------------------------- MODULE Network_proofs ----------------------------
(***************************************************************************)
(* Proofs about the five rate limiters, for every limit, window, capacity, *)
(* set of callers and horizon, and about the tables of the two DHTs, for   *)
(* every length of an ID and every set of nodes: first of each on its own, *)
(* then of MCNetwork where one of them is chosen and the others stay as    *)
(* they were made.                                                         *)
(***************************************************************************)
EXTENDS MCNetwork, FiniteSetTheorems, SequenceTheorems, WellFoundedInduction, TLAPS

LEMMA Appended == ASSUME NEW S, NEW s \in Seq(S), NEW e \in S
                  PROVE  /\ Append(s, e) \in Seq(S)
                         /\ Len(Append(s, e)) = Len(s) + 1
                         /\ Append(s, e)[Len(s) + 1] = e
                         /\ \A i \in 1 .. Len(s) : Append(s, e)[i] = s[i]
  OBVIOUS

-----------------------------------------------------------------------------
(* The fixed window counter *)

FixedInv == FixedTypeOK /\ WindowsApart

\* What rolling the window on leaves true, when the new start is later than the
\* old window's end: WindowsApart with the rolled counter for the stored one.
LEMMA RollKeeps ==
  ASSUME FixedInv, NEW later \in Times
  PROVE  LET r == Roll(later)
             n == Len(passed)
         IN  /\ r.count \in 0 .. FixedLimit /\ r.count <= n
             /\ r.start \in 0 .. later
             /\ later \in Nat /\ now <= later
             /\ \A i \in 1 .. n - r.count : passed[i] <= r.start
             /\ \A i \in (n - r.count) + 1 .. n : passed[i] >= r.start
             /\ \A i \in 1 .. (n - r.count) - FixedLimit : r.start - passed[i] > FixedWindow
<1> DEFINE n == Len(passed)
<1> USE FixedAssumption, FixedEndAssumption
<1>1. /\ n \in Nat /\ now \in Nat /\ later \in Nat /\ now <= later
      /\ currentCount \in 0 .. FixedLimit /\ lastRest \in 0 .. now
      /\ \A i \in 1 .. n : passed[i] \in Nat
  BY DEF FixedInv, FixedTypeOK, Times
<1>2. /\ currentCount <= n
      /\ \A i \in 1 .. n : passed[i] <= now
      /\ \A i \in 1 .. n - currentCount : passed[i] <= lastRest
      /\ \A i \in (n - currentCount) + 1 .. n : passed[i] >= lastRest
      /\ \A i \in 1 .. (n - currentCount) - FixedLimit : lastRest - passed[i] > FixedWindow
  BY <1>1 DEF FixedInv, WindowsApart
<1> HIDE DEF n
<1>3. CASE now - lastRest > FixedWindow
  <2>1. Roll(later) = [count |-> 0, start |-> later]
    BY <1>3 DEF Roll
  <2>2. \A i \in 1 .. n : passed[i] <= later
    BY <1>1, <1>2
  <2>3. ASSUME NEW i \in 1 .. n - FixedLimit PROVE later - passed[i] > FixedWindow
    <3>1. i \in 1 .. n - currentCount
      BY <1>1
    <3>2. passed[i] \in Nat /\ passed[i] <= lastRest
      BY <1>1, <1>2, <3>1
    <3> QED BY <1>1, <1>3, <3>2
  <2> QED BY <1>1, <2>1, <2>2, <2>3 DEF n
<1>4. CASE ~(now - lastRest > FixedWindow)
  <2>1. Roll(later) = [count |-> currentCount, start |-> lastRest]
    BY <1>4 DEF Roll
  <2> QED BY <1>1, <1>2, <2>1 DEF n
<1> QED BY <1>3, <1>4

LEMMA PassKeeps == ASSUME FixedInv, NEW later \in Times, Pass(later) PROVE FixedInv'
<1> USE FixedAssumption
<1> DEFINE n == Len(passed)
           c == Roll(later).count
           st == Roll(later).start
<1>1. /\ c \in 0 .. FixedLimit /\ c <= n /\ c < FixedLimit
      /\ st \in 0 .. later /\ later \in Nat /\ now \in Nat /\ now <= later /\ n \in Nat
      /\ \A i \in 1 .. n - c : passed[i] <= st
      /\ \A i \in (n - c) + 1 .. n : passed[i] >= st
      /\ \A i \in 1 .. (n - c) - FixedLimit : st - passed[i] > FixedWindow
  BY RollKeeps, SMTT(30) DEF Pass, FixedInv, FixedTypeOK
<1>2. currentCount' = c + 1 /\ lastRest' = st /\ now' = later
  BY DEF Pass
<1>3. /\ passed' \in Seq(Nat) /\ Len(passed') = n + 1 /\ passed'[n + 1] = later
      /\ \A i \in 1 .. n : passed'[i] = passed[i]
  <2>1. later \in Nat /\ passed \in Seq(Nat) /\ passed' = Append(passed, later)
    BY <1>1 DEF Pass, FixedInv, FixedTypeOK
  <2> QED BY <2>1, Appended
<1>4. /\ \A i \in 1 .. n : passed[i] \in Nat /\ passed[i] <= now
      /\ \A i \in 1 .. n - 2 * FixedLimit : passed[i + 2 * FixedLimit] - passed[i] > FixedWindow
  BY DEF FixedInv, FixedTypeOK, WindowsApart, AtMostTwiceTheLimit
<1> HIDE DEF n, c, st
<1>5. FixedTypeOK'
  BY <1>1, <1>2, <1>3 DEF FixedTypeOK
<1>6. Len(passed') - currentCount' = n - c
  BY <1>1, <1>2, <1>3
<1>7. \A i \in 1 .. n + 1 : passed'[i] <= now'
  <2> TAKE i \in 1 .. n + 1
  <2>1. CASE i = n + 1
    BY <1>1, <1>2, <1>3, <2>1
  <2>2. CASE i \in 1 .. n
    BY <1>1, <1>2, <1>3, <1>4, <2>2
  <2> QED BY <1>1, <2>1, <2>2
<1>8. \A i \in (n - c) + 1 .. n + 1 : passed'[i] >= lastRest'
  <2> TAKE i \in (n - c) + 1 .. n + 1
  <2>1. CASE i = n + 1
    BY <1>1, <1>2, <1>3, <2>1
  <2>2. CASE i \in (n - c) + 1 .. n
    <3>1. i \in 1 .. n
      BY <1>1, <2>2
    <3> QED BY <1>1, <1>2, <1>3, <2>2, <3>1
  <2> QED BY <1>1, <2>1, <2>2
<1>9. /\ \A i \in 1 .. n - c : passed'[i] <= lastRest'
      /\ \A i \in 1 .. (n - c) - FixedLimit : lastRest' - passed'[i] > FixedWindow
  <2>1. \A i \in 1 .. n - c : i \in 1 .. n
    BY <1>1
  <2>2. \A i \in 1 .. (n - c) - FixedLimit : i \in 1 .. n
    BY <1>1
  <2> QED BY <1>1, <1>2, <1>3, <2>1, <2>2
<1>10. AtMostTwiceTheLimit'
  <2>0. 1 .. Len(passed') - 2 * FixedLimit = 1 .. (n + 1) - 2 * FixedLimit
    BY <1>3
  <2> SUFFICES ASSUME NEW i \in 1 .. (n + 1) - 2 * FixedLimit
               PROVE  passed'[i + 2 * FixedLimit] - passed'[i] > FixedWindow
    BY <2>0, Zenon DEF AtMostTwiceTheLimit
  <2>1. CASE i + 2 * FixedLimit = n + 1
    <3>1. i \in 1 .. n /\ i \in 1 .. (n - c) - FixedLimit
      BY <1>1, <2>1
    <3>2. st - passed[i] > FixedWindow /\ passed[i] \in Nat
      BY <1>1, <1>4, <3>1
    <3>3. passed'[i + 2 * FixedLimit] = later /\ passed'[i] = passed[i]
      BY <1>3, <2>1, <3>1
    <3> QED BY <1>1, <3>2, <3>3
  <2>2. CASE i + 2 * FixedLimit # n + 1
    <3>1. i \in 1 .. n - 2 * FixedLimit /\ i \in 1 .. n /\ i + 2 * FixedLimit \in 1 .. n
      BY <1>1, <2>2
    <3> QED BY <1>3, <1>4, <3>1
  <2> QED BY <2>1, <2>2
<1>11. WindowsApart'
  BY <1>1, <1>3, <1>6, <1>7, <1>8, <1>9, <1>10 DEF WindowsApart
<1> QED BY <1>5, <1>11 DEF FixedInv

LEMMA LimitedKeeps == ASSUME FixedInv, NEW later \in Times, Limited(later) PROVE FixedInv'
<1> USE FixedAssumption
<1> DEFINE n == Len(passed)
           c == Roll(later).count
           st == Roll(later).start
<1>1. /\ c \in 0 .. FixedLimit /\ c <= n
      /\ st \in 0 .. later /\ later \in Nat /\ now \in Nat /\ now <= later /\ n \in Nat
      /\ \A i \in 1 .. n - c : passed[i] <= st
      /\ \A i \in (n - c) + 1 .. n : passed[i] >= st
      /\ \A i \in 1 .. (n - c) - FixedLimit : st - passed[i] > FixedWindow
  BY RollKeeps DEF FixedInv, FixedTypeOK
<1>2. currentCount' = c /\ lastRest' = st /\ now' = later /\ passed' = passed
  BY DEF Limited
<1>3. /\ \A i \in 1 .. n : passed[i] \in Nat /\ passed[i] <= now
      /\ AtMostTwiceTheLimit /\ passed \in Seq(Nat)
  BY DEF FixedInv, FixedTypeOK, WindowsApart
<1>4. Len(passed') = n /\ Len(passed') - currentCount' = n - c
  BY <1>2
<1> HIDE DEF n, c, st
<1>5. FixedTypeOK'
  BY <1>1, <1>2, <1>3 DEF FixedTypeOK
<1>6. AtMostTwiceTheLimit'
  BY <1>2, <1>3 DEF AtMostTwiceTheLimit
<1>7. \A i \in 1 .. n : passed[i] <= later
  BY <1>1, <1>3
<1>8. WindowsApart'
  BY <1>1, <1>2, <1>4, <1>6, <1>7 DEF WindowsApart
<1> QED BY <1>5, <1>8 DEF FixedInv

LEMMA FixedStep == ASSUME FixedInv, [FixedNext]_fixedVars PROVE FixedInv'
<1> USE FixedAssumption
<1>1. CASE FixedAllow
  BY <1>1, PassKeeps, LimitedKeeps DEF FixedAllow
<1>2. CASE Reset
  BY <1>2 DEF Reset, FixedInv, FixedTypeOK, WindowsApart, AtMostTwiceTheLimit
<1>3. CASE FixedTick
  <2>1. \A i \in 1 .. Len(passed) : passed[i] \in Nat
    BY DEF FixedInv, FixedTypeOK
  <2> QED BY <1>3, <2>1 DEF FixedTick, FixedInv, FixedTypeOK, WindowsApart, AtMostTwiceTheLimit
<1>4. CASE UNCHANGED fixedVars
  BY <1>4 DEF fixedVars, FixedInv, FixedTypeOK, WindowsApart, AtMostTwiceTheLimit
<1> QED BY <1>1, <1>2, <1>3, <1>4 DEF FixedNext

\* A counter that has not been used yet agrees with any clock.
FixedFresh == currentCount = 0 /\ lastRest = 0 /\ passed = << >>

LEMMA FixedStarts == FixedFresh /\ now \in Nat => FixedInv
  BY FixedAssumption DEF FixedFresh, FixedInv, FixedTypeOK, WindowsApart, AtMostTwiceTheLimit

\* The windows and the history always agree.
THEOREM FixedInvariant == FixedSpec => []FixedInv
<1>1. FixedInit => FixedInv
  BY FixedStarts DEF FixedInit, FixedFresh
<1> QED BY <1>1, FixedStep, PTL DEF FixedSpec

\* Between two Resets no 2 * Limit + 1 requests pass within one window, however
\* Allow's two clock readings lie and whenever the windows happen to start.
THEOREM TwiceAtMost == FixedSpec => []AtMostTwiceTheLimit
<1>1. FixedInv => AtMostTwiceTheLimit
  BY DEF FixedInv, WindowsApart
<1> QED BY <1>1, FixedInvariant, PTL

LEMMA DropsAtLimit == FixedInv => DroppedOnlyAtLimit
<1> USE FixedAssumption
<1>1. ASSUME FixedInv, NEW later \in Times, Roll(later).count >= FixedLimit
      PROVE  /\ Len(passed) >= FixedLimit
             /\ now - passed[Len(passed) + 1 - FixedLimit] <= FixedWindow
  <2>1. ~(now - lastRest > FixedWindow) /\ currentCount >= FixedLimit
    BY <1>1 DEF Roll
  <2>2. /\ Len(passed) \in Nat /\ currentCount = FixedLimit /\ Len(passed) >= FixedLimit
        /\ now \in Nat /\ lastRest \in 0 .. now
    BY <1>1, <2>1 DEF FixedInv, FixedTypeOK, WindowsApart
  <2>3. Len(passed) + 1 - FixedLimit \in (Len(passed) - currentCount) + 1 .. Len(passed)
    BY <2>2
  <2>4. passed[Len(passed) + 1 - FixedLimit] >= lastRest
    BY <1>1, <2>3 DEF FixedInv, WindowsApart
  <2>5. passed[Len(passed) + 1 - FixedLimit] \in Nat
    BY <1>1, <2>2 DEF FixedInv, FixedTypeOK
  <2> QED BY <2>1, <2>2, <2>4, <2>5
<1> QED BY <1>1 DEF DroppedOnlyAtLimit

\* A request is dropped only after Limit passes within a window of Allow's reading.
THEOREM DroppedAtLimit == FixedSpec => []DroppedOnlyAtLimit
BY DropsAtLimit, FixedInvariant, PTL

\* The count stays within the limit.
THEOREM FixedTypeCorrect == FixedSpec => []FixedTypeOK
<1>1. FixedInv => FixedTypeOK
  BY DEF FixedInv
<1> QED BY <1>1, FixedInvariant, PTL
-----------------------------------------------------------------------------
(* The sliding window log *)

LogInv == LogTypeOK /\ LogIsSuffix

LEMMA Weaker == ASSUME NEW a \in Int, NEW b \in Int, NEW c \in Int, NEW d \in Int,
                       NEW e \in Int, NEW f \in Int, a - b >= c - d, e - f <= c - d
                PROVE  a - b >= e - f
  OBVIOUS

\* Whatever timestamp the binary search ends at, everything it cuts off was
\* admitted a window ago or earlier.
LEMMA CutIsOld ==
  ASSUME LogInv, NEW p \in Search(wall - LogWindow)
  PROVE  LET cut == Len(admitted) - Len(logs)
         IN  /\ p \in 0 .. Len(logs)
             /\ Trimmed(p) \in Seq(Int)
             /\ Len(Trimmed(p)) = Len(logs) - p
             /\ \A i \in 1 .. Len(logs) - p : Trimmed(p)[i] = logs[p + i]
             /\ cut + p \in 0 .. Len(admitted)
             /\ cut + p > 0 => admitted[cut + p] <= now - LogWindow
<1> DEFINE cut == Len(admitted) - Len(logs)
<1>1. /\ p \in 0 .. Len(logs) /\ Len(logs) \in Nat /\ Len(admitted) \in Nat
      /\ p > 0 => logs[p] <= wall - LogWindow
  BY DEF Search, LogInv, LogTypeOK
<1>2. /\ Trimmed(p) \in Seq(Int) /\ Len(Trimmed(p)) = Len(logs) - p
      /\ \A i \in 1 .. Len(logs) - p : Trimmed(p)[i] = logs[p + i]
  BY <1>1 DEF Trimmed, LogInv, LogTypeOK
<1>3. cut \in Nat /\ cut + p \in 0 .. Len(admitted)
  BY <1>1 DEF LogInv, LogIsSuffix
<1>4. ASSUME cut + p > 0 PROVE admitted[cut + p] <= now - LogWindow
  <2>1. CASE p = 0
    BY <1>3, <1>4, <2>1 DEF LogInv, LogIsSuffix
  <2>2. CASE p > 0
    <3>1. p \in 1 .. Len(logs) /\ logs[p] \in Int /\ admitted[cut + p] \in Int
      BY <1>1, <1>3, <2>2, SMTT(30) DEF LogInv, LogTypeOK
    <3>2. logs[p] - admitted[cut + p] >= wall - now
      BY <3>1 DEF LogInv, LogIsSuffix
    <3> QED BY <1>1, <2>2, <3>1, <3>2, LogAssumption, SMTT(30) DEF LogInv, LogTypeOK
  <2> QED BY <1>1, <2>1, <2>2
<1> QED BY <1>1, <1>2, <1>3, <1>4

LEMMA AdmitKeeps == ASSUME LogInv, Admit PROVE LogInv'
<1> USE LogAssumption
<1>1. PICK p \in Search(wall - LogWindow) :
        /\ Len(Trimmed(p)) < LogLimit
        /\ logs' = Append(Trimmed(p), wall)
        /\ admitted' = Append(admitted, now)
        /\ UNCHANGED <<now, wall>>
  BY DEF Admit
<1> DEFINE cut == Len(admitted) - Len(logs)
           n == Len(admitted)
           l == Len(logs)
<1>0. /\ p \in 0 .. l
      /\ Trimmed(p) \in Seq(Int) /\ Len(Trimmed(p)) = l - p
      /\ \A i \in 1 .. l - p : Trimmed(p)[i] = logs[p + i]
      /\ cut + p \in 0 .. n
      /\ cut + p > 0 => admitted[cut + p] <= now - LogWindow
  BY CutIsOld
<1>2. /\ n \in Nat /\ l \in Nat /\ cut \in Nat
      /\ now \in Nat /\ wall \in Int /\ logs \in Seq(Int) /\ admitted \in Seq(Nat)
      /\ p \in 0 .. l /\ l - p < LogLimit
      /\ cut + p > 0 => admitted[cut + p] <= now - LogWindow
  BY <1>0, <1>1 DEF LogInv, LogTypeOK, LogIsSuffix
<1>3. /\ logs' \in Seq(Int) /\ Len(logs') = l - p + 1 /\ logs'[l - p + 1] = wall
      /\ \A i \in 1 .. l - p : logs'[i] = logs[p + i]
  <2> DEFINE t == Trimmed(p)
  <2>1. t \in Seq(Int) /\ Len(t) = l - p /\ logs' = Append(t, wall) /\ wall \in Int
        /\ \A i \in 1 .. l - p : t[i] = logs[p + i]
    BY <1>0, <1>1, <1>2
  <2> HIDE DEF t
  <2> QED BY <2>1, Appended
<1>4. /\ admitted' \in Seq(Nat) /\ Len(admitted') = n + 1 /\ admitted'[n + 1] = now
      /\ \A i \in 1 .. n : admitted'[i] = admitted[i] /\ admitted[i] \in Nat
  <2>1. now \in Nat /\ admitted \in Seq(Nat) /\ admitted' = Append(admitted, now)
    BY <1>1, <1>2
  <2>2. \A i \in 1 .. n : admitted[i] \in Nat
    BY <2>1
  <2> QED BY <2>1, <2>2, Appended
<1>5. Len(admitted') - Len(logs') = cut + p
  BY <1>2, <1>3, <1>4
<1>6. LogTypeOK'
  BY <1>1, <1>2, <1>3, <1>4 DEF LogTypeOK
<1>6a. /\ \A i, j \in 1 .. n : i <= j => admitted[i] <= admitted[j]
       /\ \A i \in 1 .. n : admitted[i] <= now
       /\ \A i \in 1 .. n - LogLimit : admitted[i + LogLimit] - admitted[i] >= LogWindow
       /\ \A i \in 1 .. l : logs[i] - admitted[cut + i] >= wall - now
  BY DEF LogInv, LogIsSuffix, RollingLimit
<1>6b. \A i \in 1 .. l : logs[i] \in Int
  BY <1>2
<1>6c. cut = n - l /\ n \in Nat /\ l \in Nat /\ cut \in Nat /\ cut + p \in 0 .. n
  BY <1>0, <1>2
<1> HIDE DEF n, l, cut
<1>6d. Len(admitted') = n + 1 /\ Len(logs') = l - p + 1
  BY <1>3, <1>4
<1>7. \A i \in 1 .. l - p + 1 : logs'[i] - admitted'[cut + p + i] >= wall' - now'
  <2> TAKE i \in 1 .. l - p + 1
  <2>1. CASE i = l - p + 1
    <3>1. cut + p + i = n + 1 /\ logs'[i] = wall
      BY <1>2, <1>6c, <1>3, <2>1
    <3>2. logs'[i] - admitted'[cut + p + i] = wall - now
      BY <1>4, <3>1
    <3>3. wall' = wall /\ now' = now /\ wall \in Int /\ now \in Int
      BY <1>1, <1>2
    <3> QED BY <3>2, <3>3
  <2>2. CASE i \in 1 .. l - p
    <3>1. p + i \in 1 .. l /\ cut + (p + i) \in 1 .. n
      BY <1>2, <1>6c, <2>2
    <3>2. logs[p + i] - admitted[cut + (p + i)] >= wall - now
      BY <3>1, <1>6a
    <3>3. cut + p + i = cut + (p + i)
      BY <1>2
    <3> QED BY <1>1, <1>3, <1>4, <2>2, <3>1, <3>2, <3>3
  <2> QED BY <1>2, <1>6c, <2>1, <2>2
<1>8. cut + p > 0 => admitted'[cut + p] <= now' - LogWindow
  BY <1>1, <1>2, <1>6c, <1>4
<1>9. /\ \A i, j \in 1 .. n + 1 : i <= j => admitted'[i] <= admitted'[j]
      /\ \A i \in 1 .. n + 1 : admitted'[i] <= now'
  <2>1. now' = now /\ now \in Nat /\ n \in Nat
    BY <1>1, <1>2, <1>6c
  <2>2. ASSUME NEW i \in 1 .. n + 1 PROVE admitted'[i] <= now'
    <3>1. CASE i = n + 1
      BY <1>4, <2>1, <3>1
    <3>2. CASE i \in 1 .. n
      BY <1>4, <1>6a, <2>1, <3>2
    <3> QED BY <2>1, <3>1, <3>2
  <2>3. ASSUME NEW i \in 1 .. n + 1, NEW j \in 1 .. n + 1, i <= j
        PROVE  admitted'[i] <= admitted'[j]
    <3>1. CASE j = n + 1
      BY <1>4, <2>1, <2>2, <3>1
    <3>2. CASE j \in 1 .. n
      <4>1. i \in 1 .. n
        BY <2>1, <2>3, <3>2
      <4> QED BY <1>4, <1>6a, <2>3, <3>2, <4>1
    <3> QED BY <2>1, <3>1, <3>2
  <2> QED BY <2>2, <2>3
<1>10. RollingLimit'
  <2>0. 1 .. Len(admitted') - LogLimit = 1 .. (n + 1) - LogLimit
    BY <1>6d
  <2> SUFFICES ASSUME NEW i \in 1 .. (n + 1) - LogLimit
               PROVE  admitted'[i + LogLimit] - admitted'[i] >= LogWindow
    BY <2>0, Zenon DEF RollingLimit
  <2>1. CASE i + LogLimit <= n
    <3>1. i \in 1 .. n - LogLimit /\ i \in 1 .. n /\ i + LogLimit \in 1 .. n
      BY <1>2, <1>6c, <2>1
    <3> QED BY <1>4, <1>6a, <3>1
  <2>2. CASE i + LogLimit = n + 1
    <3>1. i \in 1 .. n /\ cut + p \in 1 .. n /\ i <= cut + p
      BY <1>2, <1>6c, <2>2
    <3>2. admitted[i] <= admitted[cut + p] /\ admitted[cut + p] <= now - LogWindow
      BY <1>2, <1>6c, <1>6a, <3>1
    <3>3. admitted'[i + LogLimit] = now /\ admitted'[i] = admitted[i]
      <4>1. admitted'[i + LogLimit] = admitted'[n + 1]
        BY <2>2
      <4> QED BY <1>4, <3>1, <4>1
    <3>4. now \in Nat /\ admitted[i] \in Nat /\ admitted[cut + p] \in Nat
      BY <1>2, <1>4, <3>1
    <3>5. LogAssumption
      BY LogAssumption
    <3> QED BY <3>2, <3>3, <3>4, <3>5 DEF LogAssumption
  <2> QED BY <1>2, <1>6c, <2>1, <2>2
<1>11. LogIsSuffix'
  BY <1>2, <1>6c, <1>6d, <1>3, <1>4, <1>5, <1>7, <1>8, <1>9, <1>10 DEF LogIsSuffix
<1> QED BY <1>6, <1>11 DEF LogInv

LEMMA RejectKeeps == ASSUME LogInv, Reject PROVE LogInv'
<1> USE LogAssumption
<1>1. PICK p \in Search(wall - LogWindow) :
        logs' = Trimmed(p) /\ UNCHANGED <<now, wall, admitted>>
  BY DEF Reject
<1> DEFINE cut == Len(admitted) - Len(logs)
           l == Len(logs)
<1>0. /\ p \in 0 .. l
      /\ Trimmed(p) \in Seq(Int) /\ Len(Trimmed(p)) = l - p
      /\ \A i \in 1 .. l - p : Trimmed(p)[i] = logs[p + i]
      /\ cut + p > 0 => admitted[cut + p] <= now - LogWindow
  BY CutIsOld
<1>2. /\ p \in 0 .. l /\ l \in Nat /\ cut \in Nat /\ Len(admitted) \in Nat
      /\ logs' \in Seq(Int) /\ Len(logs') = l - p
      /\ \A i \in 1 .. l - p : logs'[i] = logs[p + i]
      /\ cut + p > 0 => admitted[cut + p] <= now - LogWindow
  BY <1>0, <1>1 DEF LogInv, LogTypeOK, LogIsSuffix
<1>3. Len(admitted') - Len(logs') = cut + p /\ Len(logs') <= LogLimit
  BY <1>1, <1>2 DEF LogInv, LogTypeOK
<1>4. \A i \in 1 .. l - p : logs'[i] - admitted[cut + p + i] >= wall - now
  <2> TAKE i \in 1 .. l - p
  <2>1. p + i \in 1 .. l /\ cut + p + i = cut + (p + i)
    BY <1>2
  <2>2. logs[p + i] - admitted[cut + (p + i)] >= wall - now
    BY <2>1 DEF LogInv, LogIsSuffix
  <2> QED BY <1>2, <2>1, <2>2
<1>5. RollingLimit'
  BY <1>1 DEF LogInv, LogIsSuffix, RollingLimit
<1>6. LogTypeOK'
  BY <1>1, <1>2, <1>3 DEF LogInv, LogTypeOK
<1> QED BY <1>1, <1>2, <1>3, <1>4, <1>5, <1>6 DEF LogInv, LogIsSuffix

LEMMA TimeKeeps == ASSUME LogInv, LogTick \/ ClockSetBack PROVE LogInv'
<1>0. /\ now \in Int /\ wall \in Int /\ now' \in Int /\ wall' \in Int
      /\ wall' - now' <= wall - now
  BY SetBackAssumption DEF LogTick, ClockSetBack, LogInv, LogTypeOK
<1>1. /\ UNCHANGED <<logs, admitted>> /\ now' = now + 1
      /\ wall' \in Int /\ wall' - now' <= wall - now
      /\ now \in Nat /\ wall \in Int
  BY SetBackAssumption DEF LogTick, ClockSetBack, LogInv, LogTypeOK
<1>2. LogTypeOK'
  BY <1>1 DEF LogInv, LogTypeOK
<1>3. \A i \in 1 .. Len(logs) :
        logs[i] \in Int /\ admitted[Len(admitted) - Len(logs) + i] \in Int
  <2>1. Len(logs) \in Nat /\ Len(admitted) \in Nat /\ Len(logs) <= Len(admitted)
    BY DEF LogInv, LogTypeOK, LogIsSuffix
  <2>2. \A i \in 1 .. Len(logs) : Len(admitted) - Len(logs) + i \in 1 .. Len(admitted)
    BY <2>1
  <2> QED BY <2>2 DEF LogInv, LogTypeOK
<1>4. \A i \in 1 .. Len(admitted) : admitted[i] \in Nat
  BY DEF LogInv, LogTypeOK
<1>5. Len(admitted) - Len(logs) > 0
        => Len(admitted) - Len(logs) \in 1 .. Len(admitted)
  BY DEF LogInv, LogTypeOK
<1> DEFINE cut == Len(admitted) - Len(logs)
<1>6. \A i \in 1 .. Len(logs) : logs[i] - admitted[cut + i] >= wall' - now'
  <2>1. ASSUME NEW i \in 1 .. Len(logs)
        PROVE  logs[i] - admitted[cut + i] >= wall' - now'
    <3>1. logs[i] - admitted[Len(admitted) - Len(logs) + i] >= wall - now
      BY DEF LogInv, LogIsSuffix
    <3>2. logs[i] \in Int /\ admitted[Len(admitted) - Len(logs) + i] \in Int
      BY <1>3
    <3> QED BY <1>0, <3>1, <3>2, Weaker
  <2> QED BY <2>1
<1>7. cut > 0 => admitted[cut] <= now' - LogWindow
  BY <1>1, <1>4, <1>5, LogAssumption DEF LogInv, LogIsSuffix
<1>8. \A i \in 1 .. Len(admitted) : admitted[i] <= now'
  BY <1>1, <1>4 DEF LogInv, LogIsSuffix
<1>9. LogIsSuffix'
  BY <1>1, <1>6, <1>7, <1>8 DEF LogInv, LogIsSuffix, RollingLimit
<1> QED BY <1>2, <1>9 DEF LogInv

LogFresh == logs = << >> /\ wall = 0 /\ admitted = << >>

LEMMA LogStarts == LogFresh /\ now \in Nat => LogInv
<1> SUFFICES ASSUME LogFresh, now \in Nat PROVE LogInv
  OBVIOUS
<1>1. Len(logs) = 0 /\ Len(admitted) = 0 /\ LogTypeOK
  BY LogAssumption DEF LogFresh, LogTypeOK
<1> QED BY <1>1, LogAssumption DEF LogFresh, LogInv, LogIsSuffix, RollingLimit

LEMMA LogStep == LogInv /\ [LogNext]_logVars => LogInv'
<1> SUFFICES ASSUME LogInv, [LogNext]_logVars PROVE LogInv'
  OBVIOUS
<1>1. CASE UNCHANGED logVars
  BY <1>1 DEF logVars, LogInv, LogTypeOK, LogIsSuffix, RollingLimit
<1> QED BY <1>1, AdmitKeeps, RejectKeeps, TimeKeeps DEF LogNext, LogAllow

\* While the wall clock has not been set back, the log is the end of the history itself.
Steady == /\ wall <= now
          /\ wall = now => \A i \in 1 .. Len(logs) :
                             logs[i] = admitted[Len(admitted) - Len(logs) + i]

\* Where the i-th of what is kept of a log of l was in the log and in the history of n.
LEMMA LogPlaces ==
  ASSUME NEW l \in Nat, NEW n \in Nat, l <= n, NEW p \in 0 .. l, NEW i \in 1 .. l - p
  PROVE  /\ p + i \in 1 .. l /\ n - l + (p + i) \in 1 .. n
         /\ (n + 1) - (l - p + 1) + i = n - l + (p + i)
OBVIOUS

LEMMA SteadyStep == LogInv /\ Steady /\ [LogNext]_logVars => Steady'
<1> SUFFICES ASSUME LogInv, Steady, [LogNext]_logVars PROVE Steady'
  OBVIOUS
<1>0. /\ Len(logs) \in Nat /\ Len(admitted) \in Nat /\ Len(logs) <= Len(admitted)
      /\ now \in Nat /\ wall \in Int /\ wall <= now
      /\ wall = now => \A i \in 1 .. Len(logs) :
                         logs[i] = admitted[Len(admitted) - Len(logs) + i]
  BY DEF LogInv, LogTypeOK, LogIsSuffix, Steady
<1>1. ASSUME Admit PROVE Steady'
  <2>1. PICK p \in Search(wall - LogWindow) :
          /\ logs' = Append(Trimmed(p), wall) /\ admitted' = Append(admitted, now)
          /\ now' = now /\ wall' = wall
    BY <1>1 DEF Admit
  <2> DEFINE l == Len(logs)
             n == Len(admitted)
             t == Trimmed(p)
  <2>2. /\ p \in 0 .. l /\ t \in Seq(Int) /\ Len(t) = l - p
        /\ \A i \in 1 .. l - p : t[i] = logs[p + i]
    BY CutIsOld
  <2>3. /\ Len(logs') = l - p + 1 /\ logs'[l - p + 1] = wall
        /\ \A i \in 1 .. l - p : logs'[i] = logs[p + i]
    <3> HIDE DEF t
    <3> QED BY <1>0, <2>1, <2>2, Appended DEF t
  <2>4. /\ Len(admitted') = n + 1 /\ admitted'[n + 1] = now
        /\ \A i \in 1 .. n : admitted'[i] = admitted[i]
    BY <1>0, <2>1, Appended DEF LogInv, LogTypeOK
  <2>5. ASSUME wall = now, NEW i \in 1 .. l - p + 1
        PROVE  logs'[i] = admitted'[(n + 1) - (l - p + 1) + i]
    <3>1. CASE i = l - p + 1
      BY <1>0, <2>2, <2>3, <2>4, <2>5, <3>1
    <3>2. CASE i \in 1 .. l - p
      <4>1. /\ p + i \in 1 .. l /\ n - l + (p + i) \in 1 .. n
            /\ (n + 1) - (l - p + 1) + i = n - l + (p + i)
        <5>1. l \in Nat /\ n \in Nat /\ l <= n /\ p \in 0 .. l
          BY <1>0, <2>2
        <5> HIDE DEF l, n, t
        <5> QED BY <3>2, <5>1, LogPlaces
      <4>2. logs[p + i] = admitted[n - l + (p + i)]
        BY <1>0, <2>5, <4>1
      <4> QED BY <2>3, <2>4, <3>2, <4>1, <4>2
    <3> QED BY <1>0, <2>2, <2>5, <3>1, <3>2
  <2>6. wall' <= now' /\ (wall' = now' => wall = now)
    BY <1>0, <2>1
  <2>7. /\ Len(logs') = l - p + 1 /\ Len(admitted') = n + 1
    BY <2>3, <2>4
  <2> HIDE DEF l, n, t
  <2> QED BY <2>5, <2>6, <2>7 DEF Steady
<1>2. ASSUME Reject PROVE Steady'
  <2>1. PICK p \in Search(wall - LogWindow) :
          logs' = Trimmed(p) /\ admitted' = admitted /\ now' = now /\ wall' = wall
    BY <1>2 DEF Reject
  <2>2. /\ p \in 0 .. Len(logs) /\ Len(logs') = Len(logs) - p
        /\ \A i \in 1 .. Len(logs) - p : logs'[i] = logs[p + i]
    BY <2>1, CutIsOld
  <2>3. ASSUME wall = now, NEW i \in 1 .. Len(logs) - p
        PROVE  logs'[i] = admitted[Len(admitted) - (Len(logs) - p) + i]
    <3>1. /\ p + i \in 1 .. Len(logs)
          /\ Len(admitted) - (Len(logs) - p) + i = Len(admitted) - Len(logs) + (p + i)
      BY <1>0, <2>2
    <3>2. logs[p + i] = admitted[Len(admitted) - Len(logs) + (p + i)]
      BY <1>0, <2>3, <3>1
    <3> QED BY <2>2, <3>1, <3>2
  <2> QED BY <1>0, <2>1, <2>2, <2>3 DEF Steady
<1>3. ASSUME LogTick PROVE Steady'
  <2>1. /\ now' = now + 1 /\ wall' = wall + 1 /\ logs' = logs /\ admitted' = admitted
    BY <1>3 DEF LogTick
  <2>2. wall' <= now' /\ (wall' = now' => wall = now)
    BY <1>0, <2>1
  <2> QED BY <1>0, <2>1, <2>2 DEF Steady
<1>4. ASSUME ClockSetBack PROVE Steady'
  <2>1. wall' < now'
    BY <1>0, <1>4, SetBackAssumption DEF ClockSetBack
  <2>2. wall' \in Int /\ now' \in Int
    BY <1>0, <1>4, SetBackAssumption DEF ClockSetBack
  <2> QED BY <2>1, <2>2 DEF Steady
<1>5. ASSUME UNCHANGED logVars PROVE Steady'
  BY <1>5 DEF logVars, Steady
<1> QED BY <1>1, <1>2, <1>3, <1>4, <1>5 DEF LogNext, LogAllow

\* While the clock runs steadily only a full log of the window refuses.
LEMMA RefusesAtLimit == LogInv /\ Steady => RefusedOnlyAtLimit
<1> SUFFICES ASSUME LogInv, Steady,
                    NEW p \in Search(wall - LogWindow), wall = now, Len(Trimmed(p)) >= LogLimit
             PROVE  /\ Len(admitted) >= LogLimit
                    /\ admitted[Len(admitted) + 1 - LogLimit] > now - LogWindow
  BY DEF RefusedOnlyAtLimit
<1>1. /\ p \in 0 .. Len(logs) /\ Len(Trimmed(p)) = Len(logs) - p
  BY CutIsOld
<1>2. /\ Len(logs) \in Nat /\ Len(admitted) \in Nat /\ Len(logs) <= Len(admitted)
      /\ Len(logs) <= LogLimit /\ LogLimit \in Nat \ {0}
  BY LogAssumption DEF LogInv, LogTypeOK, LogIsSuffix
<1>3. p = 0 /\ Len(logs) = LogLimit
  BY <1>1, <1>2
<1>4. logs[1] > now - LogWindow
  BY <1>2, <1>3 DEF Search
<1>5. logs[1] = admitted[Len(admitted) - Len(logs) + 1]
  BY <1>2, <1>3 DEF Steady
<1>6. Len(admitted) - Len(logs) + 1 = Len(admitted) + 1 - LogLimit
  BY <1>2, <1>3
<1> QED BY <1>2, <1>3, <1>4, <1>5, <1>6

\* The log is always the end of the history of admissions, and within the limit.
THEOREM LogInvariant == LogSpec => []LogInv
<1>1. LogInit => LogInv
  BY LogStarts DEF LogInit, LogFresh
<1> QED BY <1>1, LogStep, PTL DEF LogSpec

\* The log never outgrows the limit, whatever the clock does.
THEOREM LogTypeCorrect == LogSpec => []LogTypeOK
<1>1. LogInv => LogTypeOK
  BY DEF LogInv
<1> QED BY <1>1, LogInvariant, PTL

\* "In any rolling window, requests will not exceed the rate limit": no Limit + 1
\* requests are admitted within less than a window, even if the wall clock the
\* timestamps come from is set back.
THEOREM NeverOverLimit == LogSpec => []RollingLimit
<1>1. LogInv => RollingLimit
  BY DEF LogInv, LogIsSuffix
<1> QED BY <1>1, LogInvariant, PTL

-----------------------------------------------------------------------------
(* Sums over finite sets *)

LEMMA FiniteMin ==
  ASSUME NEW S, IsFiniteSet(S), NEW T \in SUBSET SUBSET S, T # {}
  PROVE  \E u \in T : \A v \in T : v \subseteq u => v = u
<1>1. IsWellFoundedOn(StrictSubsetOrdering(S), SUBSET S)
  BY FS_StrictSubsetOrderingWellFounded, FS_FiniteSubsetsOfFinite
<1>2. PICK u \in T : \A v \in T : ~(<<v, u>> \in StrictSubsetOrdering(S))
  <2> DEFINE R == StrictSubsetOrdering(S)
  <2> HIDE DEF R
  <2> QED BY <1>1, WFMin DEF R
<1> QED BY <1>2 DEF StrictSubsetOrdering

Any(u) == CHOOSE x \in u : TRUE

SumOver(s, S) == MapThenSumSet(LAMBDA i : s[i].count, S)

\* What a sum over a set is, in terms of a function that obeys its equation.
SumEq(g, s, S) ==
  g = [u \in SUBSET S |-> IF u = {} THEN 0 ELSE s[Any(u)].count + g[u \ {Any(u)}]]

LEMMA SumDefined ==
  ASSUME NEW s, NEW S, NEW h, SumEq(h, s, S)
  PROVE  \E g : SumEq(g, s, S) /\ SumOver(s, S) = g[S]
<1> DEFINE it == CHOOSE g : SumEq(g, s, S)
<1>1. SumEq(it, s, S)
  OBVIOUS
<1>2. SumOver(s, S) = it[S]
  BY DEF SumOver, MapThenSumSet, MapThenFoldSet, SumEq, Any
<1> HIDE DEF it
<1> QED BY <1>1, <1>2

\* The sum of the sizes of disjoint sets is the size of their union.
Together(A, u) == UNION {A[i] : i \in u}

LEMMA SumOfSizes ==
  ASSUME NEW s, NEW S, IsFiniteSet(S), NEW A,
         \A i \in S : IsFiniteSet(A[i]) /\ s[i].count = Cardinality(A[i]),
         \A i, j \in S : i # j => A[i] \cap A[j] = {}
  PROVE  /\ SumOver(s, S) = Cardinality(Together(A, S))
         /\ IsFiniteSet(Together(A, S))
<1>1. ASSUME NEW u \in SUBSET S PROVE IsFiniteSet(Together(A, u))
  <2>1. IsFiniteSet(u)
    BY FS_Subset
  <2>2. IsFiniteSet({A[i] : i \in u})
    <3> DEFINE f == [i \in u |-> A[i]]
    <3>1. f \in Surjection(u, {A[i] : i \in u})
      BY DEF Surjection
    <3> HIDE DEF f
    <3> QED BY <2>1, <3>1, FS_Surjection
  <2>3. \A T \in {A[i] : i \in u} : IsFiniteSet(T)
    OBVIOUS
  <2> DEFINE F == {A[i] : i \in u}
  <2> HIDE DEF F
  <2>4. IsFiniteSet(UNION F)
    BY <2>2, <2>3, FS_UNION DEF F
  <2> QED BY <2>4 DEF F, Together
<1>2. ASSUME NEW u \in SUBSET S, u # {}
      PROVE  Cardinality(Together(A, u))
               = s[Any(u)].count + Cardinality(Together(A, u \ {Any(u)}))
  <2> DEFINE x == Any(u)
  <2>1. x \in u
    BY <1>2 DEF Any
  <2> HIDE DEF x
  <2>2. /\ Together(A, u) = A[x] \cup Together(A, u \ {x})
        /\ A[x] \cap Together(A, u \ {x}) = {}
    BY <2>1 DEF Together
  <2>3. IsFiniteSet(A[x]) /\ IsFiniteSet(Together(A, u \ {x}))
    BY <1>1, <2>1
  <2>4. /\ Cardinality(A[x] \cup Together(A, u \ {x}))
             = Cardinality(A[x]) + Cardinality(Together(A, u \ {x}))
               - Cardinality(A[x] \cap Together(A, u \ {x}))
    BY <2>3, FS_Union
  <2>5. /\ Cardinality(A[x]) \in Nat /\ Cardinality(Together(A, u \ {x})) \in Nat
        /\ Cardinality(A[x] \cap Together(A, u \ {x})) = 0
    BY <2>2, <2>3, FS_CardinalityType, FS_EmptySet
  <2>6. Cardinality(Together(A, u)) = Cardinality(A[x]) + Cardinality(Together(A, u \ {x}))
    BY <2>2, <2>4, <2>5
  <2> QED BY <2>1, <2>6 DEF x
<1>3. Together(A, {}) = {}
  BY DEF Together
<1> DEFINE h == [u \in SUBSET S |-> Cardinality(Together(A, u))]
<1>4. SumEq(h, s, S)
  <2>1. \A u \in SUBSET S : u \ {Any(u)} \in SUBSET S
    OBVIOUS
  <2>2. \A u \in SUBSET S : h[u] = IF u = {} THEN 0 ELSE s[Any(u)].count + h[u \ {Any(u)}]
    BY <1>2, <1>3, <2>1, FS_EmptySet
  <2>3. h = [u \in SUBSET S |-> h[u]]
    OBVIOUS
  <2> HIDE DEF h
  <2> QED BY <2>2, <2>3 DEF SumEq
<1>5. PICK g : SumEq(g, s, S) /\ SumOver(s, S) = g[S]
  <2> HIDE DEF h
  <2> QED BY <1>4, SumDefined
<1>6. \A u \in SUBSET S : g[u] = Cardinality(Together(A, u))
  <2> DEFINE B == {u \in SUBSET S : g[u] # Cardinality(Together(A, u))}
  <2>1. SUFFICES ASSUME B # {} PROVE FALSE
    OBVIOUS
  <2>2. PICK u \in B : \A v \in B : v \subseteq u => v = u
    <3>1. B \in SUBSET SUBSET S
      OBVIOUS
    <3> HIDE DEF B
    <3> QED BY <2>1, <3>1, FiniteMin
  <2>3. g[u] = IF u = {} THEN 0 ELSE s[Any(u)].count + g[u \ {Any(u)}]
    BY <1>5 DEF SumEq
  <2>4. u # {}
    BY <1>3, <2>2, <2>3, FS_EmptySet
  <2>5. Any(u) \in u
    BY <2>4 DEF Any
  <2>6. u \ {Any(u)} \notin B
    BY <2>2, <2>5
  <2>7. g[u \ {Any(u)}] = Cardinality(Together(A, u \ {Any(u)}))
    BY <2>2, <2>6
  <2> QED BY <1>2, <2>2, <2>3, <2>4, <2>7
<1> QED BY <1>1, <1>5, <1>6

-----------------------------------------------------------------------------
(* Division *)

LEMMA Division == ASSUME NEW t \in Nat, NEW d \in Nat \ {0}
                  PROVE  /\ t \div d \in Nat /\ t % d \in 0 .. d - 1
                         /\ t = d * (t \div d) + (t % d)
  OBVIOUS

LEMMA Products == ASSUME NEW a \in Nat, NEW b \in Nat, NEW d \in Nat \ {0}
                  PROVE  /\ d * a \in Nat /\ d * a = d * b => a = b
                         /\ d * a <= d * b => a <= b
                         /\ a <= b => d * a <= d * b
                         /\ a < b => d * a + d <= d * b
  OBVIOUS

LEMMA SameRest == ASSUME NEW a \in Nat, NEW b \in Nat, NEW d \in Nat \ {0},
                         a % d = b % d, a <= b, b < a + d
                  PROVE  a = b
<1>1. /\ a = d * (a \div d) + (a % d) /\ b = d * (b \div d) + (b % d)
      /\ a \div d \in Nat /\ b \div d \in Nat
  BY Division
<1>2. d * (a \div d) <= d * (b \div d) /\ d * (b \div d) < d * (a \div d) + d
  BY <1>1
<1>3. ~(a \div d < b \div d) /\ ~(b \div d < a \div d)
  BY <1>1, <1>2, Products
<1> QED BY <1>1, <1>3

LEMMA QuotientsGrow == ASSUME NEW a \in Nat, NEW b \in Nat, NEW d \in Nat \ {0}, a <= b
                       PROVE  a \div d <= b \div d
<1>1. /\ a = d * (a \div d) + (a % d) /\ b = d * (b \div d) + (b % d)
      /\ a \div d \in Nat /\ b \div d \in Nat /\ a % d \in 0 .. d - 1 /\ b % d \in 0 .. d - 1
  BY Division
<1>2. ~(b \div d < a \div d)
  BY <1>1, Products
<1> QED BY <1>1, <1>2

-----------------------------------------------------------------------------
(* The sliding window counter *)

HistoryGood ==
  /\ now \in Nat /\ nowNano \in Nat /\ allowed \in Seq([at : Nat, read : Nat])
  /\ \A j \in 1 .. Len(allowed) : allowed[j].at <= now /\ LostAt(j) <= Lost
  /\ \A i, j \in 1 .. Len(allowed) : i <= j => /\ allowed[i].at <= allowed[j].at
                                               /\ LostAt(i) <= LostAt(j)

\* What the slots count, as SlidingWindowCounter has it.
SlotsCount(s, M) ==
  /\ s \in [0 .. NumSlots - 1 -> [timestamp : Int, count : 0 .. SlotsLimit]]
  /\ M \in [0 .. NumSlots - 1 -> SUBSET (1 .. Len(allowed))]
  /\ Accounts(s, M)

SlotsInv == HistoryGood /\ LimitOverAllSlotsButOne /\ \E M : SlotsCount(slots, M)

\* The slots cover no more than the window, and a slot at least a tick.
LEMMA Covered ==
  /\ SlotDuration \in Nat \ {0} /\ NumSlots \in Nat \ {0} /\ SlotsWindow \in Nat
  /\ SlotsLimit \in Nat \ {0}
  /\ NumSlots * SlotDuration <= SlotsWindow
<1>1. NumSlots \in Nat \ {0} /\ SlotsWindow \in Nat /\ SlotsWindow >= NumSlots
  BY SlotsAssumption, SlotsWindowAssumption
<1>2. /\ SlotDuration \in Nat
      /\ SlotsWindow = NumSlots * SlotDuration + (SlotsWindow % NumSlots)
      /\ SlotsWindow % NumSlots \in 0 .. NumSlots - 1
  BY <1>1, Division DEF SlotDuration
<1>3. SlotDuration # 0
  <2>1. ASSUME SlotDuration = 0 PROVE FALSE
    <3>1. NumSlots * SlotDuration = 0
      BY <1>1, <2>1
    <3> QED BY <1>1, <1>2, <3>1
  <2> QED BY <2>1
<1>4. NumSlots * SlotDuration \in Nat
  BY <1>1, <1>2
<1> QED BY <1>1, <1>2, <1>3, <1>4, SlotsAssumption

LEMMA RoundOf ==
  ASSUME NEW t \in Nat
  PROVE  /\ Round(t) \in Nat /\ SlotDuration * Round(t) \in Nat
         /\ SlotDuration * Round(t) <= t /\ t < SlotDuration * Round(t) + SlotDuration
         /\ Round(t) % NumSlots \in 0 .. NumSlots - 1
<1>1. /\ Round(t) \in Nat /\ t % SlotDuration \in 0 .. SlotDuration - 1
      /\ t = SlotDuration * Round(t) + (t % SlotDuration)
  BY Covered, Division DEF Round
<1>2. SlotDuration * Round(t) \in Nat
  BY <1>1, Covered
<1>3. Round(t) % NumSlots \in 0 .. NumSlots - 1
  BY <1>1, Covered, Division
<1> QED BY <1>1, <1>2, <1>3, Covered

LEMMA Here ==
  ASSUME HistoryGood
  PROVE  /\ Index = Round(nowNano) % NumSlots /\ Index \in 0 .. NumSlots - 1
         /\ SlotStart = SlotDuration * Round(nowNano)
<1>1. nowNano \in Nat /\ SlotDuration \in Nat \ {0}
  BY Covered DEF HistoryGood
<1>2. nowNano = SlotDuration * Round(nowNano) + (nowNano % SlotDuration) /\ nowNano % SlotDuration \in Nat
      /\ SlotDuration * Round(nowNano) \in Nat
  BY <1>1, Division, RoundOf DEF Round
<1>3. SlotStart = SlotDuration * Round(nowNano)
  BY <1>2 DEF SlotStart
<1> QED BY <1>1, <1>3, RoundOf DEF Index, Round

LEMMA AllowedFacts ==
  ASSUME HistoryGood, NEW j \in 1 .. Len(allowed)
  PROVE  /\ allowed[j].at \in Nat /\ allowed[j].read \in Nat /\ Round(allowed[j].read) \in Nat
         /\ Slot(j) \in 0 .. NumSlots - 1
         /\ LostAt(j) \in Int /\ Lost \in Int
<1>1. now \in Nat /\ nowNano \in Nat /\ FirstReading \in Nat /\ NumSlots \in Nat \ {0}
  BY ReadingAssumption, Covered DEF HistoryGood
<1>2. allowed[j] \in [at : Nat, read : Nat]
  <2>1. allowed \in Seq([at : Nat, read : Nat])
    BY DEF HistoryGood
  <2> QED BY <2>1, ElementOfSeq
<1>3. allowed[j].at \in Nat /\ allowed[j].read \in Nat
  BY <1>2
<1>4. LostAt(j) \in Int /\ Lost \in Int
  BY <1>1, <1>3 DEF LostAt, Lost
<1>5. Round(allowed[j].read) \in Nat /\ Slot(j) \in 0 .. NumSlots - 1
  BY <1>3, RoundOf DEF Slot
<1> QED BY <1>3, <1>4, <1>5

LEMMA InFinite ==
  ASSUME HistoryGood, NEW T \in SUBSET (1 .. Len(allowed))
  PROVE  /\ IsFiniteSet(T) /\ Cardinality(T) \in Nat /\ Cardinality(T) <= Len(allowed)
<1>1. Len(allowed) \in Nat
  BY DEF HistoryGood
<1>2. IsFiniteSet(1 .. Len(allowed)) /\ Cardinality(1 .. Len(allowed)) = Len(allowed)
  <2>1. 1 \in Int /\ Len(allowed) \in Int
    BY <1>1
  <2>2. /\ IsFiniteSet(1 .. Len(allowed))
        /\ Cardinality(1 .. Len(allowed)) = IF 1 > Len(allowed) THEN 0 ELSE Len(allowed) - 1 + 1
    BY <2>1, FS_Interval, SMTT(30)
  <2> QED BY <1>1, <2>2
<1> QED BY <1>2, FS_Subset, FS_CardinalityType

LEMMA Distributes == ASSUME NEW d \in Int, NEW k \in Int, NEW n \in Int
                     PROVE  d * (k + n) = d * k + n * d
  OBVIOUS

\* Readings w and a, taken at times t and u, by a clock that lost no more than s between them.
LEMMA ReadingsNear ==
  ASSUME NEW w \in Int, NEW a \in Int, NEW t \in Int, NEW u \in Int, NEW f \in Int, NEW s \in Int,
         u <= t, (f + u) - a <= (f + t) - w, t - u <= s, ((f + t) - w) - ((f + u) - a) <= s
  PROVE  w <= a + s /\ a <= w + s
  OBVIOUS

\* The rounds in which the requests of late were allowed are less than all slots away from
\* the one that the clock reads, to either side.
LEMMA LateRounds ==
  ASSUME HistoryGood, NEW j \in 1 .. Len(allowed), OfLate(j)
  PROVE  /\ Round(nowNano) < Round(allowed[j].read) + NumSlots
         /\ Round(allowed[j].read) < Round(nowNano) + NumSlots
         /\ SlotDuration * Round(allowed[j].read) > nowNano - SlotsWindow
<1> DEFINE a == allowed[j].read
           w == nowNano
           k == Round(a)
           r == Round(w)
           D == SlotDuration
           N == NumSlots
           DN == NumSlots * SlotDuration
<1>1. a \in Nat /\ w \in Nat /\ k \in Nat /\ r \in Nat
  BY AllowedFacts, RoundOf DEF HistoryGood
<1>2. /\ D * k \in Nat /\ D * k <= a /\ a < D * k + D
      /\ D * r \in Nat /\ D * r <= w /\ w < D * r + D
  BY <1>1, RoundOf
<1>3. /\ D \in Nat \ {0} /\ N \in Nat \ {0} /\ SlotsWindow \in Nat /\ DN <= SlotsWindow
      /\ DN \in Nat /\ AllSlotsButOne = DN - D
  BY Covered DEF AllSlotsButOne
<1>4. w <= a + AllSlotsButOne /\ a <= w + AllSlotsButOne
  <2>1. /\ allowed[j].at \in Nat /\ now \in Nat /\ FirstReading \in Nat
        /\ allowed[j].at <= now /\ LostAt(j) <= Lost
    BY AllowedFacts, ReadingAssumption DEF HistoryGood
  <2>2. AllSlotsButOne \in Int
    BY <1>3
  <2>3. now - allowed[j].at <= AllSlotsButOne /\ Lost - LostAt(j) <= AllSlotsButOne
    BY DEF OfLate
  <2>4. Lost = (FirstReading + now) - w /\ LostAt(j) = (FirstReading + allowed[j].at) - a
    BY DEF Lost, LostAt
  <2> DEFINE u == allowed[j].at
  <2>5. /\ w \in Int /\ a \in Int /\ now \in Int /\ u \in Int /\ FirstReading \in Int /\ u <= now
        /\ (FirstReading + u) - a <= (FirstReading + now) - w /\ now - u <= AllSlotsButOne
        /\ ((FirstReading + now) - w) - ((FirstReading + u) - a) <= AllSlotsButOne
    BY <1>1, <2>1, <2>3, <2>4
  <2> HIDE DEF a, w, u
  <2> QED BY <2>2, <2>5, ReadingsNear
<1>5. /\ D * (k + N) = D * k + DN /\ k + N \in Nat
      /\ D * (r + N) = D * r + DN /\ r + N \in Nat
  <2>1. k \in Int /\ r \in Int /\ D \in Int /\ N \in Int /\ DN = N * D
    BY <1>1, <1>3
  <2> HIDE DEF k, r, D, N, DN
  <2> QED BY <1>1, <1>3, <2>1, Distributes
<1> HIDE DEF a, w, k, r, D, N, DN
<1>6. D * r < D * (k + N) /\ D * k < D * (r + N) /\ D * k > w - SlotsWindow
  BY <1>1, <1>2, <1>3, <1>4, <1>5
<1>7. r < k + N /\ k < r + N
  BY <1>1, <1>3, <1>5, <1>6, Products
<1> QED BY <1>6, <1>7 DEF a, w, k, r, D, N

\* What Allow adds up is the number of requests that the slots it takes count.
LEMMA TotalIsRequests ==
  ASSUME HistoryGood, NEW s, NEW M, SlotsCount(s, M)
  PROVE  /\ TotalCount(s) = Cardinality(Together(M, Counted(s)))
         /\ Together(M, Counted(s)) \in SUBSET (1 .. Len(allowed))
<1>1. DOMAIN s = 0 .. NumSlots - 1 /\ Counted(s) \in SUBSET (0 .. NumSlots - 1)
  BY DEF SlotsCount, Counted
<1>2. IsFiniteSet(Counted(s))
  <2>1. IsFiniteSet(0 .. NumSlots - 1)
    BY Covered, FS_Interval
  <2> QED BY <1>1, <2>1, FS_Subset
<1>3. \A i \in Counted(s) : M[i] \in SUBSET (1 .. Len(allowed))
  BY <1>1 DEF SlotsCount
<1>4. SumOver(s, Counted(s)) = Cardinality(Together(M, Counted(s)))
  <2> DEFINE C == Counted(s)
  <2>1. /\ \A i \in C : IsFiniteSet(M[i]) /\ s[i].count = Cardinality(M[i])
        /\ \A i, j \in C : i # j => M[i] \cap M[j] = {}
    BY <1>1, <1>3, InFinite DEF SlotsCount, Accounts
  <2> HIDE DEF C
  <2>2. SumOver(s, C) = Cardinality(Together(M, C))
    BY <1>2, <2>1, SumOfSizes DEF C
  <2> QED BY <2>2 DEF C
<1>5. TotalCount(s) = SumOver(s, Counted(s))
  BY DEF TotalCount, SumOver
<1> QED BY <1>3, <1>4, <1>5 DEF Together

\* The slot of now, as it is before a request is counted: what it counts of another round
\* is not of late.
LEMMA RefreshedGood ==
  ASSUME HistoryGood, NEW M, SlotsCount(slots, M)
  PROVE  \E Q : SlotsCount(Refreshed, Q) /\ Refreshed[Index].timestamp = SlotStart
<1>1. /\ Index = Round(nowNano) % NumSlots /\ Index \in 0 .. NumSlots - 1
      /\ SlotStart = SlotDuration * Round(nowNano) /\ SlotStart \in Nat
      /\ nowNano \in Nat /\ Round(nowNano) \in Nat
  BY Here, RoundOf DEF HistoryGood
<1>2. CASE slots[Index].timestamp = SlotStart
  BY <1>2 DEF Refreshed
<1>3. CASE slots[Index].timestamp # SlotStart
  <2> DEFINE Q == [M EXCEPT ![Index] = {}]
  <2>1. /\ slots \in [0 .. NumSlots - 1 -> [timestamp : Int, count : 0 .. SlotsLimit]]
        /\ M \in [0 .. NumSlots - 1 -> SUBSET (1 .. Len(allowed))]
        /\ Accounts(slots, M)
    BY DEF SlotsCount
  <2>2. /\ Refreshed \in [0 .. NumSlots - 1 -> [timestamp : Int, count : 0 .. SlotsLimit]]
        /\ Refreshed[Index].timestamp = SlotStart /\ Refreshed[Index].count = 0
        /\ \A i \in 0 .. NumSlots - 1 : i # Index => Refreshed[i] = slots[i]
    <3>1. Refreshed = [slots EXCEPT ![Index] = [timestamp |-> SlotStart, count |-> 0]]
      BY <1>3 DEF Refreshed
    <3> QED BY <1>1, <2>1, <3>1, Covered
  <2>3. /\ Q \in [0 .. NumSlots - 1 -> SUBSET (1 .. Len(allowed))]
        /\ Q[Index] = {} /\ Cardinality(Q[Index]) = 0
        /\ \A i \in 0 .. NumSlots - 1 : i # Index => Q[i] = M[i]
    BY <1>1, <2>1, FS_EmptySet
  <2>4. ASSUME NEW j \in 1 .. Len(allowed), OfLate(j) PROVE Slot(j) # Index
    <3> SUFFICES ASSUME Slot(j) = Index PROVE FALSE
      OBVIOUS
    <3>1. /\ Round(allowed[j].read) \in Nat /\ NumSlots \in Nat \ {0}
          /\ Round(nowNano) < Round(allowed[j].read) + NumSlots
          /\ Round(allowed[j].read) < Round(nowNano) + NumSlots
      BY <2>4, AllowedFacts, LateRounds, Covered
    <3>2. Round(allowed[j].read) % NumSlots = Round(nowNano) % NumSlots
      BY <1>1 DEF Slot
    <3>3. Round(allowed[j].read) = Round(nowNano)
      <4> DEFINE a == Round(allowed[j].read)
                 b == Round(nowNano)
      <4>1. a \in Nat /\ b \in Nat /\ a % NumSlots = b % NumSlots /\ b < a + NumSlots
            /\ a < b + NumSlots
        BY <1>1, <3>1, <3>2
      <4> HIDE DEF a, b
      <4>2. a <= b \/ b <= a
        BY <4>1
      <4>3. a = b
        BY <3>1, <4>1, <4>2, SameRest
      <4> QED BY <4>3 DEF a, b
    <3>4. j \in M[Index]
      BY <2>1, <2>4 DEF Accounts
    <3>5. slots[Index].timestamp = SlotDuration * Round(allowed[j].read)
      BY <1>1, <2>1, <3>4 DEF Accounts
    <3> QED BY <1>1, <1>3, <3>3, <3>5
  <2>5. ASSUME NEW j \in 1 .. Len(allowed), OfLate(j) PROVE j \in Q[Slot(j)]
    <3>1. j \in M[Slot(j)] /\ Slot(j) \in 0 .. NumSlots - 1
      BY <2>1, <2>5, AllowedFacts DEF Accounts
    <3> QED BY <2>3, <2>4, <2>5, <3>1
  <2> HIDE DEF Q
  <2>6. ASSUME NEW i \in 0 .. NumSlots - 1
        PROVE  /\ Refreshed[i].count = Cardinality(Q[i])
               /\ \A j \in Q[i] :
                    Slot(j) = i /\ Refreshed[i].timestamp = SlotDuration * Round(allowed[j].read)
    <3>1. CASE i = Index
      BY <2>2, <2>3, <3>1
    <3>2. CASE i # Index
      <4>1. Refreshed[i] = slots[i] /\ Q[i] = M[i]
        BY <2>2, <2>3, <3>2
      <4> QED BY <2>1, <4>1 DEF Accounts
    <3> QED BY <3>1, <3>2
  <2>7. Accounts(Refreshed, Q)
    BY <2>5, <2>6 DEF Accounts
  <2> QED BY <2>2, <2>3, <2>7 DEF SlotsCount
<1> QED BY <1>2, <1>3

\* Only requests within the window are counted,
LEMMA CountedAreRecent ==
  ASSUME HistoryGood, NEW s, NEW M, SlotsCount(s, M), NEW j \in Together(M, Counted(s))
  PROVE  j \in WithinWindow
<1>1. PICK i \in Counted(s) : j \in M[i]
  BY DEF Together
<1>2. /\ i \in 0 .. NumSlots - 1 /\ s[i].timestamp > nowNano - SlotsWindow
      /\ s[i].timestamp \in Int
  BY <1>1 DEF Counted, SlotsCount
<1>3. j \in 1 .. Len(allowed) /\ s[i].timestamp = SlotDuration * Round(allowed[j].read)
  BY <1>1, <1>2 DEF SlotsCount, Accounts
<1>4. /\ allowed[j].read \in Nat /\ nowNano \in Nat
      /\ SlotDuration * Round(allowed[j].read) <= allowed[j].read
  BY <1>3, AllowedFacts, RoundOf DEF HistoryGood
<1>5. allowed[j].read > nowNano - SlotsWindow
  BY <1>2, <1>3, <1>4, Covered
<1> QED BY <1>3, <1>5 DEF WithinWindow

\* and all that are of late.
LEMMA LateAreCounted ==
  ASSUME HistoryGood, NEW s, NEW M, SlotsCount(s, M), NEW j \in 1 .. Len(allowed), OfLate(j)
  PROVE  j \in Together(M, Counted(s))
<1>1. Slot(j) \in 0 .. NumSlots - 1 /\ j \in M[Slot(j)]
  BY AllowedFacts DEF SlotsCount, Accounts
<1>2. s[Slot(j)].timestamp = SlotDuration * Round(allowed[j].read)
  BY <1>1 DEF SlotsCount, Accounts
<1>3. Slot(j) \in Counted(s)
  BY <1>1, <1>2, LateRounds DEF Counted, SlotsCount
<1> QED BY <1>1, <1>3 DEF Together

\* A full count is the limit's number of requests within the window.
LEMMA RefuseAtLimit ==
  ASSUME SlotsInv
  PROVE  SlotsRefuseOnlyAtLimit
<1>0. HistoryGood /\ SlotsLimit \in Nat
  BY Covered DEF SlotsInv
<1>1. PICK M : SlotsCount(slots, M)
  BY DEF SlotsInv
<1>2. PICK Q : SlotsCount(Refreshed, Q)
  BY <1>0, <1>1, RefreshedGood
<1> DEFINE T == Together(Q, Counted(Refreshed))
<1>3. TotalCount(Refreshed) = Cardinality(T) /\ T \in SUBSET (1 .. Len(allowed))
  BY <1>0, <1>2, TotalIsRequests
<1>4. T \subseteq WithinWindow /\ WithinWindow \in SUBSET (1 .. Len(allowed))
  BY <1>0, <1>2, CountedAreRecent DEF WithinWindow
<1> HIDE DEF T
<1>5. /\ IsFiniteSet(WithinWindow) /\ Cardinality(WithinWindow) \in Nat
      /\ IsFiniteSet(T) /\ Cardinality(T) \in Nat
  BY <1>0, <1>3, <1>4, InFinite
<1>6. Cardinality(T) <= Cardinality(WithinWindow)
  BY <1>4, <1>5, FS_Subset
<1> QED BY <1>0, <1>3, <1>5, <1>6 DEF SlotsRefuseOnlyAtLimit

\* What the history is after an allowed request: it is of late, and nothing else comes to be.
LEMMA Recorded ==
  ASSUME HistoryGood, Allowed, NEW n, n = Len(allowed)
  PROVE  /\ n \in Nat /\ Len(allowed') = n + 1 /\ now' = now /\ nowNano' = nowNano
         /\ allowed'[n + 1].at = now /\ allowed'[n + 1].read = nowNano
         /\ LostAt(n + 1)' = Lost /\ Lost' = Lost /\ Slot(n + 1)' = Index
         /\ \A j \in 1 .. n : /\ allowed'[j] = allowed[j]
                              /\ LostAt(j)' = LostAt(j) /\ Slot(j)' = Slot(j)
                              /\ OfLate(j)' => OfLate(j)
         /\ \A j \in 1 .. n + 1 : j \in 1 .. n \/ j = n + 1
         /\ HistoryGood'
<1> DEFINE entry == [at |-> now, read |-> nowNano]
<1>1. /\ now' = now /\ nowNano' = nowNano /\ allowed' = Append(allowed, entry)
      /\ allowed \in Seq([at : Nat, read : Nat]) /\ now \in Nat /\ nowNano \in Nat
  BY DEF Allowed, HistoryGood
<1>2. entry.at = now /\ entry.read = nowNano /\ entry \in [at : Nat, read : Nat] /\ n \in Nat
  BY <1>1
<1> HIDE DEF entry
<1>3. /\ Len(allowed') = n + 1 /\ allowed'[n + 1] = entry
      /\ allowed' \in Seq([at : Nat, read : Nat])
      /\ \A j \in 1 .. n : allowed'[j] = allowed[j]
  BY <1>1, <1>2, Appended
<1>4. \A j \in 1 .. n : LostAt(j)' = LostAt(j) /\ Slot(j)' = Slot(j)
  BY <1>3 DEF LostAt, Slot, Round, SlotDuration
<1>5. LostAt(n + 1)' = Lost /\ Lost' = Lost
  BY <1>1, <1>2, <1>3 DEF LostAt, Lost
<1>6. Slot(n + 1)' = Index
  BY <1>2, <1>3 DEF Slot, Round, SlotDuration, Index
<1>7. \A j \in 1 .. n : OfLate(j)' => OfLate(j)
  BY <1>1, <1>3, <1>4, <1>5 DEF OfLate, AllSlotsButOne, SlotDuration
<1>8. \A j \in 1 .. n + 1 : j \in 1 .. n \/ j = n + 1
  BY <1>2
<1>9. HistoryGood'
  <2>1. /\ \A j \in 1 .. n : allowed[j].at <= now /\ LostAt(j) <= Lost
        /\ \A i, j \in 1 .. n : i <= j => allowed[i].at <= allowed[j].at /\ LostAt(i) <= LostAt(j)
    BY DEF HistoryGood
  <2>2. Lost \in Int
    BY <1>1, ReadingAssumption DEF Lost
  <2>3. ASSUME NEW j \in 1 .. n + 1 PROVE allowed'[j].at <= now' /\ LostAt(j)' <= Lost'
    <3>1. CASE j \in 1 .. n
      BY <1>1, <1>3, <1>4, <1>5, <2>1, <3>1
    <3>2. CASE j = n + 1
      <4>1. allowed'[j].at = now /\ LostAt(j)' = Lost
        BY <1>2, <1>3, <1>5, <3>2
      <4> QED BY <1>1, <1>5, <2>2, <4>1
    <3> QED BY <1>8, <3>1, <3>2
  <2>4. ASSUME NEW i \in 1 .. n + 1, NEW j \in 1 .. n + 1, i <= j
        PROVE  allowed'[i].at <= allowed'[j].at /\ LostAt(i)' <= LostAt(j)'
    <3>1. CASE j \in 1 .. n
      <4>1. i \in 1 .. n
        BY <1>2, <2>4, <3>1
      <4> QED BY <1>3, <1>4, <2>1, <2>4, <3>1, <4>1
    <3>2. CASE j = n + 1
      <4>1. allowed'[j].at = now' /\ LostAt(j)' = Lost'
        BY <1>1, <1>2, <1>3, <1>5, <3>2
      <4> QED BY <2>3, <4>1
    <3> QED BY <1>8, <3>1, <3>2
  <2> QED BY <1>1, <1>3, <2>3, <2>4 DEF HistoryGood
<1> QED BY <1>1, <1>2, <1>3, <1>4, <1>5, <1>6, <1>7, <1>8, <1>9

\* An allowed request is later than the one the limit before by more than all slots but one,
\* or the clock has lost more than that in between.
LEMMA AllowedKeepsLimit ==
  ASSUME SlotsInv, Allowed
  PROVE  LimitOverAllSlotsButOne'
<1>0. PICK n : n = Len(allowed)
  OBVIOUS
<1>1. /\ HistoryGood /\ LimitOverAllSlotsButOne /\ TotalCount(Refreshed) < SlotsLimit
      /\ now \in Nat /\ SlotsLimit \in Nat \ {0}
  BY Covered DEF SlotsInv, Allowed, HistoryGood
<1>2. PICK M : SlotsCount(slots, M)
  BY DEF SlotsInv
<1>3. PICK Q : SlotsCount(Refreshed, Q)
  BY <1>1, <1>2, RefreshedGood
<1>4. PICK T : T = Together(Q, Counted(Refreshed))
  OBVIOUS
<1>5. /\ T \in SUBSET (1 .. n) /\ IsFiniteSet(T) /\ Cardinality(T) \in Nat
      /\ Cardinality(T) < SlotsLimit
  BY <1>0, <1>1, <1>3, <1>4, TotalIsRequests, InFinite
<1>6. /\ n \in Nat /\ Len(allowed') = n + 1 /\ allowed'[n + 1].at = now
      /\ LostAt(n + 1)' = Lost
      /\ \A j \in 1 .. n : allowed'[j] = allowed[j] /\ LostAt(j)' = LostAt(j)
  BY <1>0, <1>1, Recorded
<1>7. AllSlotsButOne' = AllSlotsButOne /\ AllSlotsButOne \in Int
  BY Covered DEF AllSlotsButOne, SlotDuration
<1>8. ASSUME NEW i \in 1 .. n + 1 - SlotsLimit
      PROVE  \/ allowed'[i + SlotsLimit].at - allowed'[i].at > AllSlotsButOne
             \/ LostAt(i + SlotsLimit)' - LostAt(i)' > AllSlotsButOne
  <2>1. i \in 1 .. n /\ (i + SlotsLimit \in 1 .. n \/ i + SlotsLimit = n + 1)
    BY <1>1, <1>6
  <2>2. CASE i + SlotsLimit \in 1 .. n
    <3>1. i \in 1 .. n - SlotsLimit
      BY <1>1, <1>6, <2>2
    <3>2. \/ allowed[i + SlotsLimit].at - allowed[i].at > AllSlotsButOne
          \/ LostAt(i + SlotsLimit) - LostAt(i) > AllSlotsButOne
      BY <1>0, <1>1, <3>1 DEF LimitOverAllSlotsButOne
    <3> QED BY <1>6, <2>1, <2>2, <3>2
  <2>3. CASE i + SlotsLimit = n + 1
    <3>1. ASSUME ~(now - allowed[i].at > AllSlotsButOne), ~(Lost - LostAt(i) > AllSlotsButOne)
          PROVE  FALSE
      <4>1. ASSUME NEW j \in i .. n PROVE j \in T
        <5>1. j \in 1 .. n /\ i <= j
          BY <1>6, <2>1, <4>1
        <5>2. allowed[i].at <= allowed[j].at /\ LostAt(i) <= LostAt(j)
          BY <1>0, <1>1, <2>1, <5>1 DEF HistoryGood
        <5>3. /\ allowed[i].at \in Nat /\ allowed[j].at \in Nat /\ Lost \in Int
              /\ LostAt(i) \in Int /\ LostAt(j) \in Int
          BY <1>0, <1>1, <2>1, <5>1, AllowedFacts
        <5>4. now - allowed[j].at <= AllSlotsButOne
          BY <1>1, <1>7, <3>1, <5>2, <5>3
        <5>5. Lost - LostAt(j) <= AllSlotsButOne
          BY <1>1, <1>7, <3>1, <5>2, <5>3
        <5> QED BY <1>0, <1>1, <1>3, <1>4, <5>1, <5>4, <5>5, LateAreCounted DEF OfLate
      <4>2. IsFiniteSet(i .. n) /\ Cardinality(i .. n) = SlotsLimit
        <5>1. i \in Int /\ n \in Int /\ n - i + 1 = SlotsLimit /\ ~(i > n)
          BY <1>1, <1>6, <2>1, <2>3
        <5> QED BY <5>1, FS_Interval
      <4>3. SlotsLimit <= Cardinality(T)
        BY <1>5, <4>1, <4>2, FS_Subset
      <4> QED BY <1>1, <1>5, <4>3
    <3>2. /\ allowed'[i + SlotsLimit].at = now /\ allowed'[i] = allowed[i]
          /\ LostAt(i + SlotsLimit)' = Lost /\ LostAt(i)' = LostAt(i)
      BY <1>6, <2>1, <2>3
    <3> QED BY <3>1, <3>2
  <2> QED BY <2>1, <2>2, <2>3
<1>9. Len(allowed') - SlotsLimit = n + 1 - SlotsLimit
  BY <1>1, <1>6
<1> QED BY <1>7, <1>8, <1>9 DEF LimitOverAllSlotsButOne

\* The first slots count nothing.
SlotsFresh == /\ allowed = << >> /\ nowNano = FirstReading
              /\ slots = [i \in 0 .. NumSlots - 1 |-> [timestamp |-> -SlotsWindow, count |-> 0]]

LEMMA SlotsStart == SlotsFresh /\ now \in Nat => SlotsInv
<1> SUFFICES ASSUME SlotsFresh, now \in Nat PROVE SlotsInv
  OBVIOUS
<1>1. /\ now \in Nat /\ nowNano \in Nat /\ allowed = << >> /\ Len(allowed) = 0
      /\ slots = [i \in 0 .. NumSlots - 1 |-> [timestamp |-> -SlotsWindow, count |-> 0]]
  BY ReadingAssumption DEF SlotsFresh
<1>2. HistoryGood /\ LimitOverAllSlotsButOne
  <2>1. 0 - SlotsLimit < 1
    BY Covered
  <2> QED BY <1>1, <2>1, Covered DEF HistoryGood, LimitOverAllSlotsButOne
<1> DEFINE M == [i \in 0 .. NumSlots - 1 |-> {}]
<1>3. M \in [0 .. NumSlots - 1 -> SUBSET (1 .. Len(allowed))]
  OBVIOUS
<1>4. Accounts(slots, M)
  BY <1>1, FS_EmptySet DEF Accounts
<1>5. slots \in [0 .. NumSlots - 1 -> [timestamp : Int, count : 0 .. SlotsLimit]]
  BY <1>1, Covered
<1> HIDE DEF M
<1>6. SlotsCount(slots, M)
  BY <1>3, <1>4, <1>5 DEF SlotsCount
<1> QED BY <1>2, <1>6 DEF SlotsInv

\* A request goes to the slot of its round.
LEMMA AllowKeepsSlots ==
  ASSUME SlotsInv, Allowed
  PROVE  SlotsInv'
<1>0. PICK n, R : n = Len(allowed) /\ R = Refreshed
  OBVIOUS
<1>1. /\ HistoryGood /\ TotalCount(R) < SlotsLimit
      /\ slots' = [R EXCEPT ![Index].count = @ + 1]
      /\ nowNano \in Nat /\ SlotsLimit \in Nat \ {0}
  BY <1>0, Covered DEF SlotsInv, Allowed, HistoryGood
<1>2. PICK M : SlotsCount(slots, M)
  BY DEF SlotsInv
<1>3. PICK Q : SlotsCount(R, Q) /\ R[Index].timestamp = SlotStart
  BY <1>0, <1>1, <1>2, RefreshedGood
<1>4. /\ Index \in 0 .. NumSlots - 1 /\ SlotStart = SlotDuration * Round(nowNano)
  BY <1>1, Here
<1>5. /\ R \in [0 .. NumSlots - 1 -> [timestamp : Int, count : 0 .. SlotsLimit]]
      /\ Q \in [0 .. NumSlots - 1 -> SUBSET (1 .. n)]
      /\ Accounts(R, Q)
  BY <1>0, <1>3 DEF SlotsCount
<1>6. /\ n \in Nat /\ Len(allowed') = n + 1 /\ allowed'[n + 1].read = nowNano
      /\ Slot(n + 1)' = Index
      /\ \A j \in 1 .. n : /\ allowed'[j] = allowed[j] /\ Slot(j)' = Slot(j)
                           /\ OfLate(j)' => OfLate(j)
      /\ \A j \in 1 .. n + 1 : j \in 1 .. n \/ j = n + 1
      /\ HistoryGood'
  BY <1>0, <1>1, Recorded
<1>7. LimitOverAllSlotsButOne'
  BY AllowedKeepsLimit
<1>8. R[Index].count < SlotsLimit
  <2>1. PICK T : T = Together(Q, Counted(R))
    OBVIOUS
  <2>2. /\ TotalCount(R) = Cardinality(T) /\ T \in SUBSET (1 .. n)
        /\ R[Index].count = Cardinality(Q[Index])
    BY <1>0, <1>1, <1>3, <1>4, <1>5, <2>1, TotalIsRequests DEF Accounts
  <2>3. Index \in Counted(R)
    <3>1. /\ nowNano < SlotDuration * Round(nowNano) + SlotDuration
          /\ SlotDuration * Round(nowNano) \in Nat /\ SlotDuration <= SlotsWindow
      <4>1. SlotDuration * 1 <= SlotDuration * NumSlots
        BY Covered, Products
      <4>2. SlotDuration <= SlotsWindow
        BY <4>1, Covered
      <4> QED BY <1>1, <4>2, RoundOf
    <3>2. SlotDuration * Round(nowNano) > nowNano - SlotsWindow
      BY <1>1, <3>1, Covered
    <3>3. DOMAIN R = 0 .. NumSlots - 1
      BY <1>5
    <3> QED BY <1>3, <1>4, <3>2, <3>3 DEF Counted
  <2>4. Q[Index] \subseteq T
    BY <2>1, <2>3 DEF Together
  <2>5. IsFiniteSet(T) /\ Cardinality(T) \in Nat
    BY <1>0, <1>1, <2>2, InFinite
  <2>6. Cardinality(Q[Index]) \in Nat /\ Cardinality(Q[Index]) <= Cardinality(T)
    BY <2>4, <2>5, FS_Subset, FS_CardinalityType
  <2> QED BY <1>1, <2>2, <2>5, <2>6
<1>9. /\ slots' \in [0 .. NumSlots - 1 -> [timestamp : Int, count : 0 .. SlotsLimit]]
      /\ \A i \in 0 .. NumSlots - 1 : slots'[i].timestamp = R[i].timestamp
      /\ \A i \in 0 .. NumSlots - 1 : i # Index => slots'[i].count = R[i].count
      /\ slots'[Index].count = R[Index].count + 1
  <2>1. R[Index].count \in 0 .. SlotsLimit
    BY <1>4, <1>5
  <2>2. R[Index].count + 1 \in 0 .. SlotsLimit
    BY <1>1, <1>8, <2>1
  <2> QED BY <1>1, <1>4, <1>5, <2>2
<1>10. PICK P : P = [Q EXCEPT ![Index] = @ \cup {n + 1}]
  OBVIOUS
<1>11. /\ P \in [0 .. NumSlots - 1 -> SUBSET (1 .. Len(allowed'))]
       /\ P[Index] = Q[Index] \cup {n + 1}
       /\ \A i \in 0 .. NumSlots - 1 : i # Index => P[i] = Q[i]
  <2>1. 1 .. n \subseteq 1 .. n + 1 /\ n + 1 \in 1 .. n + 1
    BY <1>6
  <2> QED BY <1>4, <1>5, <1>6, <1>10, <2>1
<1>12. Cardinality(P[Index]) = Cardinality(Q[Index]) + 1
  <2>1. Q[Index] \in SUBSET (1 .. n) /\ n + 1 \notin Q[Index]
    BY <1>4, <1>5, <1>6
  <2> QED BY <1>0, <1>1, <1>11, <2>1, InFinite, FS_AddElement
<1>13. ASSUME NEW i \in 0 .. NumSlots - 1
       PROVE  /\ slots'[i].count = Cardinality(P[i])
              /\ \A j \in P[i] :
                   /\ Slot(j)' = i
                   /\ slots'[i].timestamp = SlotDuration * Round(allowed'[j].read)
  <2>1. /\ R[i].count = Cardinality(Q[i]) /\ Q[i] \in SUBSET (1 .. n)
        /\ \A j \in Q[i] :
             Slot(j) = i /\ R[i].timestamp = SlotDuration * Round(allowed[j].read)
    BY <1>5 DEF Accounts
  <2>2. \A j \in Q[i] :
          Slot(j)' = i /\ slots'[i].timestamp = SlotDuration * Round(allowed'[j].read)
    BY <1>6, <1>9, <2>1
  <2>3. CASE i = Index
    <3>1. slots'[i].timestamp = SlotDuration * Round(allowed'[n + 1].read) /\ Slot(n + 1)' = i
      BY <1>3, <1>4, <1>6, <1>9, <2>3
    <3>2. slots'[i].count = Cardinality(P[i])
      BY <1>9, <1>12, <2>1, <2>3
    <3>3. \A j \in P[i] : j \in Q[i] \/ j = n + 1
      BY <1>11, <2>3
    <3> QED BY <2>2, <3>1, <3>2, <3>3
  <2>4. CASE i # Index
    <3>1. P[i] = Q[i] /\ slots'[i].count = R[i].count
      BY <1>9, <1>11, <2>4
    <3> QED BY <2>1, <2>2, <3>1
  <2> QED BY <2>3, <2>4
<1>14. ASSUME NEW j \in 1 .. n + 1, OfLate(j)' PROVE j \in P[Slot(j)']
  <2>1. CASE j \in 1 .. n
    <3>1. OfLate(j) /\ Slot(j)' = Slot(j) /\ Slot(j) \in 0 .. NumSlots - 1
      BY <1>0, <1>1, <1>6, <1>14, <2>1, AllowedFacts
    <3>2. j \in Q[Slot(j)]
      BY <1>0, <1>5, <2>1, <3>1 DEF Accounts
    <3> QED BY <1>11, <3>1, <3>2
  <2>2. CASE j = n + 1
    BY <1>4, <1>6, <1>11, <2>2
  <2> QED BY <1>6, <2>1, <2>2
<1>15. SlotsCount(slots, P)'
  <2>1. Accounts(slots, P)'
    <3>1. \A i \in 0 .. NumSlots - 1 :
            /\ slots'[i].count = Cardinality(P[i])
            /\ \A j \in P[i] :
                 /\ Slot(j)' = i
                 /\ slots'[i].timestamp = SlotDuration * Round(allowed'[j].read)
      BY <1>13
    <3>2. \A j \in 1 .. Len(allowed') : OfLate(j)' => j \in P[Slot(j)']
      BY <1>6, <1>14
    <3> QED BY <3>1, <3>2 DEF Accounts, Round, SlotDuration
  <2> QED BY <1>9, <1>11, <2>1 DEF SlotsCount
<1> QED BY <1>6, <1>7, <1>15 DEF SlotsInv

LEMMA LossGrows ==
  ASSUME NEW f \in Nat, NEW t \in Nat, NEW r \in Nat, NEW q \in Nat, q <= r + 1
  PROVE  /\ (f + t) - r \in Int /\ (f + (t + 1)) - q \in Int
         /\ (f + t) - r <= (f + (t + 1)) - q
  OBVIOUS

LEMMA SoonerNear ==
  ASSUME NEW t \in Int, NEW u \in Int, NEW s \in Int, NEW x \in Int, NEW y \in Int, NEW z \in Int,
         (t + 1) - u <= s, x <= y, y - z <= s
  PROVE  t - u <= s /\ x - z <= s
  OBVIOUS

\* Whom time, or the clock, has not made too old was of late before.
LEMMA TimeKeepsSlots ==
  ASSUME SlotsInv, SlotsTick \/ SlotsClockSetBack
  PROVE  SlotsInv'
<1>0. now \in Nat /\ nowNano \in Nat /\ FirstReading \in Nat /\ SlotsSetBack \subseteq Nat
  BY ReadingAssumption DEF SlotsInv, HistoryGood
<1>1. /\ slots' = slots /\ allowed' = allowed /\ now' = now + 1
      /\ now' \in Nat /\ nowNano' \in Nat /\ nowNano' <= nowNano + 1
  BY <1>0 DEF SlotsTick, SlotsClockSetBack
<1>2. /\ \A j : LostAt(j)' = LostAt(j) /\ Slot(j)' = Slot(j)
      /\ Lost <= Lost' /\ Lost \in Int /\ Lost' \in Int
      /\ AllSlotsButOne' = AllSlotsButOne /\ AllSlotsButOne \in Int
  <2>1. \A j : LostAt(j)' = LostAt(j) /\ Slot(j)' = Slot(j)
    BY <1>1 DEF LostAt, Slot, SlotDuration, Round
  <2>2. Lost <= Lost' /\ Lost \in Int /\ Lost' \in Int
    <3>1. Lost = (FirstReading + now) - nowNano /\ Lost' = (FirstReading + (now + 1)) - nowNano'
      BY <1>1 DEF Lost
    <3>2. nowNano' \in Nat /\ nowNano' <= nowNano + 1
      BY <1>1
    <3> QED BY <1>0, <3>1, <3>2, LossGrows
  <2>3. AllSlotsButOne' = AllSlotsButOne /\ AllSlotsButOne \in Int
    BY Covered DEF AllSlotsButOne, SlotDuration
  <2> QED BY <2>1, <2>2, <2>3
<1>3. ASSUME NEW j \in 1 .. Len(allowed)
      PROVE  /\ allowed[j].at \in Nat /\ LostAt(j) \in Int
             /\ allowed[j].at <= now' /\ LostAt(j)' <= Lost'
             /\ OfLate(j)' => OfLate(j)
  <2>1. /\ allowed[j].at \in Nat /\ LostAt(j) \in Int /\ allowed[j].at <= now /\ LostAt(j) <= Lost
    BY AllowedFacts DEF SlotsInv, HistoryGood
  <2>2. OfLate(j)' => OfLate(j)
    <3> SUFFICES ASSUME OfLate(j)' PROVE OfLate(j)
      OBVIOUS
    <3>1. (now + 1) - allowed[j].at <= AllSlotsButOne /\ Lost' - LostAt(j) <= AllSlotsButOne
      <4>1. now' - allowed'[j].at <= AllSlotsButOne' /\ Lost' - LostAt(j)' <= AllSlotsButOne'
        BY DEF OfLate
      <4>2. LostAt(j)' = LostAt(j) /\ AllSlotsButOne' = AllSlotsButOne
        BY <1>2
      <4>3. now' = now + 1 /\ now' \in Nat /\ allowed' = allowed
        BY <1>1
      <4>4. now' - allowed[j].at <= AllSlotsButOne /\ Lost' - LostAt(j) <= AllSlotsButOne
        BY <4>1, <4>2, <4>3, Zenon
      <4> QED BY <4>3, <4>4
    <3>2. /\ now \in Int /\ allowed[j].at \in Int /\ AllSlotsButOne \in Int
          /\ Lost \in Int /\ Lost' \in Int /\ LostAt(j) \in Int /\ Lost <= Lost'
      BY <1>0, <1>2, <2>1
    <3>3. now - allowed[j].at <= AllSlotsButOne /\ Lost - LostAt(j) <= AllSlotsButOne
      BY <3>1, <3>2, SoonerNear
    <3> QED BY <3>3 DEF OfLate
  <2>3. allowed[j].at <= now' /\ LostAt(j)' <= Lost'
    <3>1. allowed[j].at <= now + 1 /\ LostAt(j) <= Lost'
      BY <1>0, <1>2, <2>1
    <3>2. now' = now + 1 /\ LostAt(j)' = LostAt(j)
      BY <1>1, <1>2
    <3> QED BY <3>1, <3>2
  <2> QED BY <2>1, <2>2, <2>3
<1>4. HistoryGood'
  <2>1. /\ allowed \in Seq([at : Nat, read : Nat])
        /\ \A i, j \in 1 .. Len(allowed) :
             i <= j => allowed[i].at <= allowed[j].at /\ LostAt(i) <= LostAt(j)
    BY DEF SlotsInv, HistoryGood
  <2> QED BY <1>0, <1>1, <1>2, <1>3, <2>1 DEF HistoryGood
<1>5. LimitOverAllSlotsButOne'
  BY <1>1, <1>2 DEF SlotsInv, LimitOverAllSlotsButOne
<1>6. PICK M : SlotsCount(slots, M)
  BY DEF SlotsInv
<1>7. SlotsCount(slots, M)'
  BY <1>1, <1>2, <1>3, <1>6 DEF SlotsCount, Accounts, Round, SlotDuration
<1> QED BY <1>4, <1>5, <1>7 DEF SlotsInv

LEMMA SlotsStep == SlotsInv /\ [SlotsNext]_slotsVars => SlotsInv'
<1> SUFFICES ASSUME SlotsInv, [SlotsNext]_slotsVars PROVE SlotsInv'
  OBVIOUS
<1>1. CASE Allowed
  BY <1>1, AllowKeepsSlots
<1>2. CASE Refused \/ UNCHANGED slotsVars
  <2>1. /\ slots' = Refreshed \/ slots' = slots
        /\ now' = now /\ nowNano' = nowNano /\ allowed' = allowed
    BY <1>2 DEF Refused, slotsVars
  <2>2. HistoryGood' /\ LimitOverAllSlotsButOne'
    BY <2>1 DEF SlotsInv, HistoryGood, LimitOverAllSlotsButOne, Lost, LostAt, AllSlotsButOne,
       SlotDuration
  <2>3. HistoryGood
    BY DEF SlotsInv
  <2>4. PICK M : SlotsCount(slots, M)
    BY DEF SlotsInv
  <2>5. PICK Q : SlotsCount(slots', Q)
    BY <2>1, <2>3, <2>4, RefreshedGood
  <2>6. SlotsCount(slots, Q)'
    BY <2>1, <2>5 DEF SlotsCount, Accounts, Slot, OfLate, Lost, LostAt, AllSlotsButOne, Round,
       SlotDuration
  <2> QED BY <2>2, <2>6 DEF SlotsInv
<1>3. CASE SlotsTick \/ SlotsClockSetBack
  BY <1>3, TimeKeepsSlots
<1> QED BY <1>1, <1>2, <1>3 DEF SlotsNext, SlotsAllow

-----------------------------------------------------------------------------
(* The leaking bucket *)

Open == running
Halted == stopped
Ticked == tick

LeakPlaces == {"idle", "send", "close", "wait", "closed", "refused"}

\* Until Close, every item that was handed over, the one that Start goes to take and the
\* tick that waits is a tick that came.
Paid ==
  Open => /\ Len(taken) <= ticks
          /\ start = "leak" \/ Ticked => Len(taken) + 1 <= ticks
          /\ start = "leak" /\ Ticked => Len(taken) + 2 <= ticks

\* The Close that cleared running returns when Start has ended.
Waited ==
  \A p \in Closers : /\ leakPc[p] \in {"close", "wait", "closed"} => ~Open
                     /\ leakPc[p] = "closed" => start = "done"

\* What was accepted before Close is handed over when Start ends.
LeakInv ==
  /\ queue \in Seq(Nat) /\ accepted \in Seq(Nat) /\ taken \in Seq(Nat)
  /\ item \in [Pushers -> Nat] /\ leakPc \in [Callers -> LeakPlaces]
  /\ ticks \in Nat /\ items \in Nat /\ due \in Nat
  /\ start \in {"select", "leak", "drain", "done"}
  /\ Len(queue) <= QueueSize
  /\ taken \o queue = accepted
  /\ Halted => ~Open
  /\ start \in {"drain", "done"} => Halted
  /\ Paid
  /\ due <= Len(accepted)
  /\ start = "done" => Len(taken) >= due
  /\ Waited

LEMMA LeakInitially == LeakInit => LeakInv
<1> SUFFICES ASSUME LeakInit PROVE LeakInv
  OBVIOUS
<1>1. /\ queue = << >> /\ accepted = << >> /\ taken = << >> /\ due = 0 /\ ticks = 0 /\ items = 0
      /\ start = "select" /\ leakPc = [p \in Callers |-> "idle"]
      /\ item = [p \in Pushers |-> 0]
  BY DEF LeakInit
<1>2. ~Halted /\ ~Ticked
  BY DEF LeakInit, Halted, Ticked
<1> QED BY <1>1, <1>2, QueueAssumption DEF LeakInv, Paid, Waited, LeakPlaces, Callers

LEMMA SendMoves ==
  ASSUME NEW a \in Seq(Nat), NEW b \in Seq(Nat), NEW e \in Nat
  PROVE  a \o Append(b, e) = Append(a \o b, e) /\ Append(b, e) \in Seq(Nat)
<1>1. <<e>> \in Seq(Nat) /\ a \o b \in Seq(Nat)
  OBVIOUS
<1>2. (a \o b) \o <<e>> = a \o (b \o <<e>>)
  BY <1>1, ConcatAssociative
<1>3. Append(b, e) = b \o <<e>> /\ Append(a \o b, e) = (a \o b) \o <<e>>
  BY <1>1, AppendIsConcat
<1> QED BY <1>2, <1>3

LEMMA TakeMoves ==
  ASSUME queue \in Seq(Nat), taken \in Seq(Nat), taken \o queue = accepted, queue # << >>, Take
  PROVE  /\ queue' \in Seq(Nat) /\ taken' \in Seq(Nat) /\ taken' \o queue' = accepted
         /\ Len(taken') = Len(taken) + 1 /\ Len(queue') = Len(queue) - 1
<1>1. /\ Head(queue) \in Nat /\ Tail(queue) \in Seq(Nat) /\ Len(Tail(queue)) = Len(queue) - 1
      /\ queue = <<Head(queue)>> \o Tail(queue)
  BY HeadTailProperties, ConcatProperties
<1>2. Append(taken, Head(queue)) = taken \o <<Head(queue)>>
  BY <1>1, AppendIsConcat
<1>3. (taken \o <<Head(queue)>>) \o Tail(queue) = taken \o (<<Head(queue)>> \o Tail(queue))
  BY <1>1, ConcatAssociative, SMTT(30)
<1> QED BY <1>1, <1>2, <1>3, SMTT(30) DEF Take

\* The steps that hand no item over and accept none.
LEMMA FlagsMove ==
  ASSUME NEW p
  PROVE  /\ BeginPush(p) \/ Send(p) \/ Drop(p) \/ Leak \/ DrainOne \/ Drained \/ Closed(p) =>
              (Open' <=> Open) /\ (Halted' <=> Halted) /\ (Ticked' <=> Ticked)
         /\ BeginClose(p) => Open /\ ~Open' /\ (Halted' <=> Halted) /\ (Ticked' <=> Ticked)
         /\ CloseChan(p) => (Open' <=> Open) /\ Halted' /\ (Ticked' <=> Ticked)
         /\ SelectTick => (Open' <=> Open) /\ (Halted' <=> Halted) /\ Ticked /\ ~Ticked'
         /\ SelectStop => (Open' <=> Open) /\ (Halted' <=> Halted) /\ (Ticked' <=> Ticked) /\ Halted
         /\ Ticker => (Open' <=> Open) /\ (Halted' <=> Halted) /\ Ticked'
         /\ CloseAgain(p) \/ UNCHANGED leakVars =>
              (Open' <=> Open) /\ (Halted' <=> Halted) /\ (Ticked' <=> Ticked)
<1> USE DEF Open, Halted, Ticked
<1>1. BeginPush(p) \/ Send(p) \/ Drop(p) =>
        (Open' <=> Open) /\ (Halted' <=> Halted) /\ (Ticked' <=> Ticked)
  BY DEF BeginPush, Send, Drop
<1>2. Leak \/ DrainOne \/ Drained \/ Closed(p) =>
        (Open' <=> Open) /\ (Halted' <=> Halted) /\ (Ticked' <=> Ticked)
  BY DEF Leak, DrainOne, Drained, Closed
<1>3. BeginClose(p) => Open /\ ~Open' /\ (Halted' <=> Halted) /\ (Ticked' <=> Ticked)
  BY DEF BeginClose
<1>4. CloseChan(p) => (Open' <=> Open) /\ Halted' /\ (Ticked' <=> Ticked)
  BY DEF CloseChan
<1>5. SelectTick => (Open' <=> Open) /\ (Halted' <=> Halted) /\ Ticked /\ ~Ticked'
  BY DEF SelectTick
<1>6. SelectStop => (Open' <=> Open) /\ (Halted' <=> Halted) /\ (Ticked' <=> Ticked) /\ Halted
  BY DEF SelectStop
<1>7. Ticker => (Open' <=> Open) /\ (Halted' <=> Halted) /\ Ticked'
  BY DEF Ticker
<1>8. CloseAgain(p) \/ UNCHANGED leakVars =>
        (Open' <=> Open) /\ (Halted' <=> Halted) /\ (Ticked' <=> Ticked)
  BY DEF CloseAgain, leakVars
<1> QED BY <1>1, <1>2, <1>3, <1>4, <1>5, <1>6, <1>7, <1>8

LEMMA LeakStep == LeakInv /\ [LeakNext]_leakVars => LeakInv'
<1> SUFFICES ASSUME LeakInv, [LeakNext]_leakVars PROVE LeakInv'
  OBVIOUS
<1> USE DEF LeakInv, Paid, Waited, LeakGoto, LeakPlaces
<1>0. QueueSize \in Nat /\ Len(queue) \in Nat /\ Len(taken) \in Nat /\ Len(accepted) \in Nat
      /\ Pushers \subseteq Callers /\ Closers \subseteq Callers
  BY QueueAssumption DEF Callers
<1>1. ASSUME NEW p \in Pushers, BeginPush(p) \/ Drop(p) PROVE LeakInv'
  <2>1. (Open' <=> Open) /\ (Halted' <=> Halted) /\ (Ticked' <=> Ticked)
    BY <1>1, FlagsMove
  <2>2. /\ queue' = queue /\ accepted' = accepted /\ taken' = taken /\ ticks' = ticks
        /\ due' = due /\ start' = start
    BY <1>1 DEF BeginPush, Drop
  <2>3. CASE BeginPush(p)
    <3>1. /\ items' = items + 1 /\ item' = [item EXCEPT ![p] = items + 1]
          /\ leakPc' = [leakPc EXCEPT ![p] = "send"]
      BY <2>3 DEF BeginPush
    <3>2. /\ leakPc' \in [Callers -> LeakPlaces] /\ item' \in [Pushers -> Nat] /\ items' \in Nat
      BY <1>0, <3>1
    <3>3. Waited'
      BY <1>0, <2>1, <2>2, <3>1
    <3>4. Paid'
      BY <2>1, <2>2
    <3> HIDE DEF Paid, Waited, LeakPlaces
    <3> QED BY <1>0, <2>1, <2>2, <3>2, <3>3, <3>4
  <2>4. CASE Drop(p)
    BY <1>0, <2>1, <2>2, <2>4 DEF Drop
  <2> QED BY <1>1, <2>3, <2>4
<1>2. ASSUME NEW p \in Pushers, Send(p) PROVE LeakInv'
  <2>1. /\ queue' = Append(queue, item[p]) /\ accepted' = Append(accepted, item[p])
        /\ item[p] \in Nat /\ Len(queue) < QueueSize /\ taken' = taken
        /\ leakPc' = [leakPc EXCEPT ![p] = "idle"] /\ start' = start /\ item' = item
        /\ due' = due /\ ticks' = ticks /\ items' = items
    BY <1>2 DEF Send
  <2>2. /\ queue' \in Seq(Nat) /\ accepted' \in Seq(Nat) /\ taken' \o queue' = accepted'
        /\ Len(queue') = Len(queue) + 1 /\ Len(accepted') = Len(accepted) + 1
    <3>1. taken \o queue' = accepted' /\ queue' \in Seq(Nat)
      <4>1. queue \in Seq(Nat) /\ taken \in Seq(Nat) /\ item[p] \in Nat
        BY <2>1
      <4>2. /\ taken \o Append(queue, item[p]) = Append(taken \o queue, item[p])
            /\ Append(queue, item[p]) \in Seq(Nat)
        BY <4>1, SendMoves
      <4> QED BY <2>1, <4>2
    <3> QED BY <2>1, <3>1
  <2>3. (Open' <=> Open) /\ (Halted' <=> Halted) /\ (Ticked' <=> Ticked)
    BY <1>2, FlagsMove
  <2> QED BY <1>0, <2>1, <2>2, <2>3
<1>3. ASSUME NEW p \in Closers, BeginClose(p) \/ CloseAgain(p) \/ CloseChan(p) \/ Closed(p)
      PROVE  LeakInv'
  <2>1. /\ queue' = queue /\ accepted' = accepted /\ taken' = taken /\ ticks' = ticks
        /\ start' = start /\ item' = item /\ items' = items
    BY <1>3 DEF BeginClose, CloseAgain, CloseChan, Closed
  <2>2. CASE BeginClose(p)
    <3>1. due' = Len(accepted) /\ leakPc' = [leakPc EXCEPT ![p] = "close"]
      BY <2>2 DEF BeginClose
    <3>2. Open /\ ~Open' /\ (Halted' <=> Halted) /\ (Ticked' <=> Ticked)
      BY <2>2, FlagsMove
    <3> QED BY <1>0, <2>1, <3>1, <3>2
  <2>3. CASE CloseChan(p)
    <3>1. ~Open
      BY <2>3 DEF CloseChan
    <3> QED BY <1>0, <2>1, <2>3, <3>1, FlagsMove DEF CloseChan
  <2>4. CASE Closed(p)
    BY <1>0, <2>1, <2>4, FlagsMove DEF Closed
  <2>5. CASE CloseAgain(p)
    BY <1>0, <2>1, <2>5, FlagsMove DEF CloseAgain
  <2> QED BY <1>3, <2>2, <2>3, <2>4, <2>5
<1>4. CASE SelectTick \/ SelectStop \/ Ticker
  <2>1. /\ queue' = queue /\ accepted' = accepted /\ taken' = taken /\ due' = due
        /\ leakPc' = leakPc /\ item' = item /\ items' = items
    BY <1>4 DEF SelectTick, SelectStop, Ticker
  <2>2. CASE SelectTick
    BY <1>0, <2>1, <2>2, FlagsMove DEF SelectTick
  <2>3. CASE SelectStop
    BY <1>0, <2>1, <2>3, FlagsMove DEF SelectStop
  <2>4. CASE Ticker
    <3>1. ticks' = ticks + 1 /\ start' = start
      BY <2>4 DEF Ticker
    <3>2. (Open' <=> Open) /\ (Halted' <=> Halted) /\ Ticked'
      BY <2>4, FlagsMove
    <3>3. Paid'
      BY <1>0, <2>1, <3>1, <3>2
    <3>4. Waited'
      BY <1>0, <2>1, <3>1, <3>2
    <3>5. /\ ticks' \in Nat /\ (Halted' => ~Open') /\ (start' \in {"drain", "done"} => Halted')
          /\ (start' = "done" => Len(taken') >= due') /\ start' \in {"select", "leak", "drain", "done"}
      BY <1>0, <2>1, <3>1, <3>2
    <3> HIDE DEF Paid, Waited, LeakPlaces
    <3> QED BY <1>0, <2>1, <3>3, <3>4, <3>5
  <2> QED BY <1>4, <2>2, <2>3, <2>4
<1>5. CASE Leak \/ DrainOne
  <2>1. /\ accepted' = accepted /\ due' = due /\ ticks' = ticks
        /\ leakPc' = leakPc /\ item' = item /\ items' = items
    BY <1>5 DEF Leak, DrainOne
  <2>2. (Open' <=> Open) /\ (Halted' <=> Halted) /\ (Ticked' <=> Ticked)
    BY <1>5, FlagsMove
  <2>3. \/ start = "leak" /\ start' = "select"
        \/ start = "drain" /\ start' = "drain"
    BY <1>5 DEF Leak, DrainOne
  <2>4. CASE queue # << >>
    <3>1. Take
      BY <1>5, <2>4 DEF Leak, DrainOne
    <3>2. /\ queue' \in Seq(Nat) /\ taken' \in Seq(Nat) /\ taken' \o queue' = accepted
          /\ Len(taken') = Len(taken) + 1 /\ Len(queue') = Len(queue) - 1
      BY <2>4, <3>1, TakeMoves
    <3>3. Paid'
      <4>1. ticks \in Nat /\ Paid /\ (start = "drain" => ~Open)
        OBVIOUS
      <4> HIDE DEF LeakInv
      <4> QED BY <1>0, <2>1, <2>2, <2>3, <3>2, <4>1
    <3>4. /\ queue' \in Seq(Nat) /\ taken' \in Seq(Nat) /\ taken' \o queue' = accepted'
          /\ Len(queue') <= QueueSize /\ due' <= Len(accepted') /\ accepted' \in Seq(Nat)
          /\ (Halted' => ~Open') /\ (start' \in {"drain", "done"} => Halted')
      <4>1. /\ due <= Len(accepted) /\ accepted \in Seq(Nat) /\ Len(queue) <= QueueSize
            /\ (Halted => ~Open) /\ (start \in {"drain", "done"} => Halted)
        OBVIOUS
      <4> HIDE DEF LeakInv, Paid
      <4>2. Len(queue') <= QueueSize
        BY <1>0, <3>2, <4>1
      <4>3. (Halted' => ~Open') /\ (start' \in {"drain", "done"} => Halted')
        BY <2>2, <2>3, <4>1
      <4>4. due' <= Len(accepted') /\ accepted' \in Seq(Nat)
        BY <2>1, <4>1
      <4> QED BY <2>1, <3>2, <4>2, <4>3, <4>4
    <3>5. /\ item' \in [Pushers -> Nat] /\ leakPc' \in [Callers -> LeakPlaces]
          /\ ticks' \in Nat /\ items' \in Nat /\ due' \in Nat
          /\ start' \in {"select", "leak", "drain", "done"} /\ start' # "done"
          /\ \A p \in Closers : /\ leakPc'[p] \in {"close", "wait", "closed"} => ~Open'
                                /\ leakPc'[p] = "closed" => start' = "done"
      BY <1>0, <2>1, <2>2, <2>3
    <3> HIDE DEF Paid
    <3> QED BY <3>3, <3>4, <3>5
  <2>5. CASE queue = << >>
    <3>1. queue' = queue /\ taken' = taken
      BY <1>5, <2>5 DEF Leak, DrainOne
    <3> QED BY <1>0, <2>1, <2>2, <2>3, <3>1
  <2> QED BY <2>4, <2>5
<1>6. CASE Drained
  <2>1. Len(taken) = Len(accepted)
    BY <1>6 DEF Drained
  <2> QED BY <1>0, <1>6, <2>1, FlagsMove DEF Drained
<1>7. CASE UNCHANGED leakVars
  BY <1>7, FlagsMove DEF leakVars
<1> QED BY <1>1, <1>2, <1>3, <1>4, <1>5, <1>6, <1>7 DEF LeakNext, StartStep

LEMMA LeakInTurn == LeakInv => LeaksInTurn
<1> SUFFICES ASSUME LeakInv PROVE LeaksInTurn
  OBVIOUS
<1>1. /\ Len(queue) <= QueueSize /\ taken \o queue = accepted
      /\ \A p \in Closers : leakPc[p] = "closed" => Len(taken) >= due
  BY DEF LeakInv, Waited
<1>2. /\ stopped => ~running
      /\ start = "done" => stopped
      /\ running => Len(taken) <= ticks
  BY DEF LeakInv, Paid, Open, Halted
<1> QED BY <1>1, <1>2 DEF LeaksInTurn, LeakTypeOK

-----------------------------------------------------------------------------
(* The token bucket *)

\* What is owed was owed by now, and of what is owed since the last refill the tokens tell.
DebtsKept ==
  \A p \in Owing :
    /\ seen[p] <= lastRefill
    /\ seen[p] = lastRefill => Due(p) <= lastRefill - tokens

\* Without WaitN no token is owed, and what was granted and what is left came from the
\* full bucket and the refills.
TokenInv ==
  /\ TokenTypeOK /\ DueByDeadline /\ DebtsApart /\ DebtsKept
  /\ contexts \in Contexts
  /\ contexts = {} => /\ \A p \in Clients : tokenPc[p] \notin {"wait", "arm", "sleep"}
                      /\ tokens >= 0 /\ granted + tokens <= BucketSize + lastRefill

TokenFresh == /\ contexts \in Contexts
              /\ tokens = BucketSize /\ lastRefill = 0 /\ locked = FALSE
              /\ tokenPc = [p \in Clients |-> "idle"]
              /\ asked = [p \in Clients |-> 0] /\ seen = [p \in Clients |-> 0]
              /\ deadline = [p \in Clients |-> Never]
              /\ wait = [p \in Clients |-> 0] /\ timer = [p \in Clients |-> 0]
              /\ granted = 0

LEMMA TokenStarts == TokenFresh /\ now \in Nat => TokenInv
<1> SUFFICES ASSUME TokenFresh, now \in Nat PROVE TokenInv
  OBVIOUS
<1>1. TokenTypeOK
  <2>1. locked \in BOOLEAN
    BY DEF TokenFresh
  <2>2. /\ now \in Nat /\ granted = 0 /\ tokens = BucketSize /\ lastRefill = 0
        /\ tokenPc = [p \in Clients |-> "idle"] /\ asked = [p \in Clients |-> 0]
        /\ seen = [p \in Clients |-> 0] /\ deadline = [p \in Clients |-> Never]
        /\ wait = [p \in Clients |-> 0] /\ timer = [p \in Clients |-> 0]
    BY DEF TokenFresh
  <2>3. seen \in [Clients -> 0 .. now] /\ lastRefill \in 0 .. now
    BY <2>2
  <2> QED BY <2>1, <2>2, <2>3, BucketAssumption DEF TokenTypeOK
<1>2. DueByDeadline /\ DebtsApart /\ DebtsKept /\ contexts \in Contexts
  BY DEF TokenFresh, DueByDeadline, DebtsApart, DebtsKept, Owing
<1>3. /\ \A p \in Clients : tokenPc[p] \notin {"wait", "arm", "sleep"}
      /\ tokens >= 0 /\ granted + tokens <= BucketSize + lastRefill
  BY BucketAssumption DEF TokenFresh
<1> QED BY <1>1, <1>2, <1>3 DEF TokenInv

LEMMA Refills ==
  ASSUME TokenInv, NEW t \in 0 .. now
  PROVE  /\ Refilled(t) \in Int /\ Refilled(t) <= BucketSize
         /\ RefilledAt(t) \in 0 .. now /\ lastRefill <= RefilledAt(t) /\ t <= RefilledAt(t)
         /\ RefilledAt(t) = lastRefill => Refilled(t) = tokens
         /\ contexts = {} => Refilled(t) >= 0 /\ granted + Refilled(t) <= BucketSize + RefilledAt(t)
<1>1. /\ t \in Nat /\ now \in Nat /\ lastRefill \in Nat /\ lastRefill <= now /\ t <= now
      /\ tokens \in Int /\ tokens <= BucketSize /\ BucketSize \in Nat \ {0}
      /\ granted \in Nat
      /\ contexts = {} => tokens >= 0 /\ granted + tokens <= BucketSize + lastRefill
  BY BucketAssumption DEF TokenInv, TokenTypeOK
<1>2. CASE t > lastRefill
  <2> DEFINE d == t - lastRefill
  <2>1. Min({d, BucketSize}) \in {d, BucketSize} /\ Min({d, BucketSize}) <= d
        /\ Min({d, BucketSize}) <= BucketSize
    <3>1. \E x \in {d, BucketSize} : \A y \in {d, BucketSize} : x <= y
      BY <1>1
    <3> HIDE DEF d
    <3> QED BY <3>1 DEF Min
  <2>2. Refilled(t) = Min({d, BucketSize}) /\ RefilledAt(t) = t
    BY <1>2 DEF Refilled, RefilledAt
  <2> QED BY <1>1, <1>2, <2>1, <2>2
<1>3. CASE ~(t > lastRefill)
  BY <1>1, <1>3 DEF Refilled, RefilledAt
<1> QED BY <1>2, <1>3

LEMMA OwesMore ==
  ASSUME NEW d \in Int, NEW r \in Int, NEW t \in Int, NEW u \in Int, d <= r - t, u <= t
  PROVE  d <= r - u
  OBVIOUS

\* Whoever owes still does: a refill, or tokens that are taken, leave what is due as it was.
LEMMA DebtsStay ==
  ASSUME TokenInv, TokenTypeOK', now' \in Nat, now <= now',
         Owing' \in SUBSET Owing,
         \A p \in Owing' : /\ seen'[p] = seen[p] /\ wait'[p] = wait[p] /\ asked'[p] = asked[p]
                           /\ deadline'[p] = deadline[p] /\ timer'[p] = timer[p]
                           /\ tokenPc'[p] = tokenPc[p],
         lastRefill <= lastRefill', lastRefill' = lastRefill => tokens' <= tokens
  PROVE  DueByDeadline' /\ DebtsApart' /\ DebtsKept'
<1>1. /\ tokens \in Int /\ tokens' \in Int /\ lastRefill \in Nat /\ lastRefill' \in Nat
      /\ now \in Nat
  BY DEF TokenInv, TokenTypeOK
<1>2. ASSUME NEW p \in Owing'
      PROVE  /\ p \in Owing /\ p \in Clients /\ Due(p)' = Due(p) /\ Due(p) \in Nat
             /\ seen'[p] = seen[p] /\ seen[p] \in Nat /\ wait[p] \in Nat /\ timer[p] \in Nat
  <2>1. p \in Owing /\ p \in Clients /\ seen'[p] = seen[p] /\ wait'[p] = wait[p]
    BY <1>2 DEF Owing
  <2>2. seen[p] \in 0 .. now /\ wait[p] \in Nat /\ timer[p] \in Nat
    BY <2>1 DEF TokenInv, TokenTypeOK
  <2> QED BY <1>1, <2>1, <2>2 DEF Due
<1>3. DueByDeadline'
  <2> SUFFICES ASSUME NEW p \in Owing'
               PROVE  /\ deadline'[p] # Never => Due(p)' <= deadline'[p]
                      /\ tokenPc'[p] = "sleep" => timer'[p] \in Due(p)' .. now' + wait'[p]
    BY DEF DueByDeadline
  <2>1. /\ deadline[p] # Never => Due(p) <= deadline[p]
        /\ tokenPc[p] = "sleep" => timer[p] \in Due(p) .. now + wait[p]
    BY <1>2 DEF TokenInv, DueByDeadline
  <2>2. timer[p] \in Due(p) .. now + wait[p] => timer[p] \in Due(p) .. now' + wait[p]
    BY <1>1, <1>2
  <2> QED BY <1>2, <2>1, <2>2
<1>4. DebtsApart'
  BY <1>2 DEF TokenInv, DebtsApart
<1>5. DebtsKept'
  <2> SUFFICES ASSUME NEW p \in Owing'
               PROVE  /\ seen'[p] <= lastRefill'
                      /\ seen'[p] = lastRefill' => Due(p)' <= lastRefill' - tokens'
    BY DEF DebtsKept
  <2>1. /\ seen[p] <= lastRefill
        /\ seen[p] = lastRefill => Due(p) <= lastRefill - tokens
    BY <1>2 DEF TokenInv, DebtsKept
  <2>2. /\ seen[p] \in Int /\ lastRefill' \in Int /\ lastRefill \in Int
        /\ tokens \in Int /\ tokens' \in Int /\ Due(p) \in Int
    BY <1>1, <1>2
  <2>3. seen[p] <= lastRefill' /\ (seen[p] = lastRefill' => lastRefill' = lastRefill)
    BY <2>1, <2>2
  <2>4. ASSUME lastRefill' = lastRefill, Due(p) <= lastRefill - tokens
        PROVE  Due(p) <= lastRefill' - tokens'
    BY <2>2, <2>4, OwesMore
  <2> QED BY <1>2, <2>1, <2>3, <2>4
<1> QED BY <1>3, <1>4, <1>5

\* A new debt is due, by all that was asked for, after those since the same refill.
LEMMA DebtAdded ==
  ASSUME TokenInv, NEW p \in Clients, WaitOwes(p), TokenTypeOK'
  PROVE  DueByDeadline' /\ DebtsApart' /\ DebtsKept'
<1>1. /\ now \in Nat /\ now \in 0 .. now /\ lastRefill \in Nat /\ tokens \in Int
      /\ asked[p] \in Nat /\ lastRefill <= now /\ p \notin Owing
  BY DEF TokenInv, TokenTypeOK, WaitOwes, Owing
<1>2. /\ Refilled(now) \in Int /\ RefilledAt(now) = now
      /\ lastRefill = now => Refilled(now) = tokens
  BY <1>1, Refills DEF RefilledAt
<1>3. /\ tokens' = Refilled(now) - asked[p] /\ lastRefill' = now /\ now' = now
      /\ asked' = asked /\ deadline' = deadline /\ timer' = timer
      /\ seen' = [seen EXCEPT ![p] = now] /\ wait' = [wait EXCEPT ![p] = asked[p] - Refilled(now)]
      /\ tokenPc' = [tokenPc EXCEPT ![p] = "arm"]
      /\ ~TooLate(p) /\ Refilled(now) < asked[p]
  BY <1>2 DEF WaitOwes, WaitDuration, TokenGoto
<1>4. /\ seen \in [Clients -> 0 .. now] /\ wait \in [Clients -> Nat]
      /\ tokenPc \in [Clients -> {"idle", "allow", "wait", "arm", "sleep"}]
      /\ timer \in [Clients -> Nat] /\ asked \in [Clients -> Nat]
  BY DEF TokenInv, TokenTypeOK
<1>5. /\ seen'[p] = now /\ wait'[p] = asked[p] - Refilled(now) /\ tokenPc'[p] = "arm"
      /\ \A q \in Clients : q # p => /\ seen'[q] = seen[q] /\ wait'[q] = wait[q]
                                     /\ tokenPc'[q] = tokenPc[q]
  BY <1>3, <1>4
<1>6. Due(p)' = now + (asked[p] - Refilled(now)) /\ Due(p)' \in Int
  BY <1>1, <1>2, <1>5 DEF Due
<1>7. ASSUME NEW q \in Owing', q # p
      PROVE  /\ q \in Owing /\ q \in Clients /\ Due(q)' = Due(q) /\ Due(q) \in Nat
             /\ seen[q] <= lastRefill /\ seen'[q] = seen[q] /\ seen[q] \in Nat
             /\ seen[q] = now => Due(q) + asked[p] <= Due(p)'
  <2>1. q \in Owing /\ q \in Clients /\ seen'[q] = seen[q] /\ wait'[q] = wait[q]
    BY <1>5, <1>7 DEF Owing
  <2>2. seen[q] \in Nat /\ wait[q] \in Nat
    BY <1>1, <1>4, <2>1
  <2>3. seen[q] <= lastRefill /\ (seen[q] = lastRefill => Due(q) <= lastRefill - tokens)
    BY <2>1 DEF TokenInv, DebtsKept
  <2>4. Due(q)' = Due(q) /\ Due(q) \in Nat
    BY <2>1, <2>2 DEF Due
  <2>5. ASSUME seen[q] = now PROVE Due(q) + asked[p] <= Due(p)'
    <3>1. lastRefill = now
      BY <1>1, <2>2, <2>3, <2>5
    <3>2. Due(q) <= now - tokens /\ Refilled(now) = tokens
      BY <1>2, <2>3, <2>5, <3>1
    <3> QED BY <1>1, <1>6, <2>4, <3>2
  <2> QED BY <2>1, <2>2, <2>3, <2>4, <2>5
<1>8. DueByDeadline'
  <2> SUFFICES ASSUME NEW q \in Owing'
               PROVE  /\ deadline'[q] # Never => Due(q)' <= deadline'[q]
                      /\ tokenPc'[q] = "sleep" => timer'[q] \in Due(q)' .. now' + wait'[q]
    BY DEF DueByDeadline
  <2>1. CASE q = p
    <3>1. deadline[p] # Never => now + (asked[p] - Refilled(now)) <= deadline[p]
      <4>1. deadline[p] \in Nat \cup {Never}
        BY DEF TokenInv, TokenTypeOK
      <4> QED BY <1>1, <1>2, <1>3, <4>1 DEF TooLate, WaitDuration
    <3> QED BY <1>3, <1>5, <1>6, <2>1, <3>1
  <2>2. CASE q # p
    <3>1. /\ deadline[q] # Never => Due(q) <= deadline[q]
          /\ tokenPc[q] = "sleep" => timer[q] \in Due(q) .. now + wait[q]
      BY <1>7, <2>2 DEF TokenInv, DueByDeadline
    <3> QED BY <1>3, <1>5, <1>7, <2>2, <3>1
  <2> QED BY <2>1, <2>2
<1>9. DebtsApart'
  <2> SUFFICES ASSUME NEW q \in Owing', NEW r \in Owing', q # r, seen'[q] = seen'[r]
               PROVE  \/ Due(q)' + asked'[r] <= Due(r)'
                      \/ Due(r)' + asked'[q] <= Due(q)'
    BY DEF DebtsApart
  <2>1. CASE q # p /\ r # p
    <3>1. Due(q) + asked[r] <= Due(r) \/ Due(r) + asked[q] <= Due(q)
      BY <1>7, <2>1 DEF TokenInv, DebtsApart
    <3> QED BY <1>3, <1>7, <2>1, <3>1
  <2>2. CASE q = p
    BY <1>3, <1>5, <1>7, <2>2
  <2>3. CASE r = p
    BY <1>3, <1>5, <1>7, <2>3
  <2> QED BY <2>1, <2>2, <2>3
<1>10. DebtsKept'
  <2> SUFFICES ASSUME NEW q \in Owing'
               PROVE  /\ seen'[q] <= lastRefill'
                      /\ seen'[q] = lastRefill' => Due(q)' <= lastRefill' - tokens'
    BY DEF DebtsKept
  <2>1. CASE q = p
    BY <1>1, <1>2, <1>3, <1>5, <1>6, <2>1
  <2>2. CASE q # p
    <3>1. now - tokens' = Due(p)' /\ tokens' \in Int
      BY <1>1, <1>2, <1>3, <1>6
    <3>2. seen[q] = now => Due(q) + asked[p] <= Due(p)'
      BY <1>7, <2>2
    <3> QED BY <1>1, <1>3, <1>6, <1>7, <2>2, <3>1, <3>2
  <2> QED BY <2>1, <2>2
<1> QED BY <1>8, <1>9, <1>10

LEMMA TokenStepKeeps == TokenInv /\ [TokenNext]_tokenVars => TokenInv'
<1> SUFFICES ASSUME TokenInv, [TokenNext]_tokenVars PROVE TokenInv'
  OBVIOUS
<1>0. /\ now \in Nat /\ now \in 0 .. now /\ BucketSize \in Nat
      /\ Requests \subseteq Nat \ {0} /\ Never \notin Nat
      /\ \A e \in contexts : e \in Nat \cup {Never}
      /\ contexts \in Contexts /\ TokenTypeOK
      /\ lastRefill \in Nat /\ tokens \in Int
  BY BucketAssumption, ContextAssumption DEF TokenInv, TokenTypeOK
<1> USE DEF TokenGoto, TokenReturn, bucket
<1>1. ASSUME TokenTick \/ UNCHANGED tokenVars PROVE TokenInv'
  <2>1. /\ now' \in Nat /\ now <= now' /\ UNCHANGED <<bucket, granted>>
        /\ UNCHANGED <<tokenPc, asked, seen, deadline, wait, timer>>
    BY <1>0, <1>1 DEF TokenTick, tokenVars
  <2>2. TokenTypeOK'
    BY <1>0, <2>1 DEF TokenTypeOK
  <2>3. Owing' = Owing
    BY <2>1 DEF Owing
  <2>4. DueByDeadline' /\ DebtsApart' /\ DebtsKept'
    BY <1>0, <2>1, <2>2, <2>3, DebtsStay
  <2> QED BY <2>1, <2>2, <2>4 DEF TokenInv
<1>2. ASSUME NEW p \in Clients, CallAllow(p) \/ CallWait(p) PROVE TokenInv'
  <2>1. /\ now' = now /\ UNCHANGED <<bucket, granted, wait, timer>> /\ tokenPc[p] = "idle"
        /\ \E l \in {"allow", "wait"} : tokenPc' = [tokenPc EXCEPT ![p] = l]
        /\ \E r \in Requests : asked' = [asked EXCEPT ![p] = r]
        /\ seen' = [seen EXCEPT ![p] = now] \/ seen' = seen
    BY <1>2 DEF CallAllow, CallWait
  <2>2. \E d \in Nat \cup {Never} : deadline' = [deadline EXCEPT ![p] = d] \/ deadline' = deadline
    <3>1. CASE CallAllow(p)
      BY <3>1 DEF CallAllow
    <3>2. CASE CallWait(p)
      <4>1. PICK e \in contexts :
              deadline' = [deadline EXCEPT ![p] = IF e = Never THEN e ELSE now + e]
        BY <3>2 DEF CallWait
      <4>2. (IF e = Never THEN e ELSE now + e) \in Nat \cup {Never}
        BY <1>0, <4>1
      <4> QED BY <4>1, <4>2
    <3> QED BY <1>2, <3>1, <3>2
  <2>3. TokenTypeOK'
    BY <1>0, <2>1, <2>2 DEF TokenTypeOK
  <2>4. /\ Owing' \in SUBSET Owing
        /\ \A q \in Owing' : /\ seen'[q] = seen[q] /\ asked'[q] = asked[q]
                             /\ deadline'[q] = deadline[q] /\ tokenPc'[q] = tokenPc[q]
    BY <1>0, <2>1, <2>2 DEF Owing, TokenTypeOK
  <2>5. DueByDeadline' /\ DebtsApart' /\ DebtsKept'
    BY <1>0, <2>1, <2>3, <2>4, DebtsStay
  <2>6. contexts = {} => \A q \in Clients : tokenPc'[q] \notin {"wait", "arm", "sleep"}
    <3> SUFFICES ASSUME contexts = {} PROVE \A q \in Clients : tokenPc'[q] \notin {"wait", "arm", "sleep"}
      OBVIOUS
    <3>1. CallAllow(p)
      BY <1>2 DEF CallWait
    <3> QED BY <3>1 DEF CallAllow, TokenInv, TokenTypeOK
  <2> QED BY <2>1, <2>3, <2>5, <2>6 DEF TokenInv
<1>3. ASSUME NEW p \in Clients, NEW t \in 0 .. now, NEW spent \in {0, asked[p]},
             now' = now, contexts' = contexts, locked' \in BOOLEAN,
             tokenPc[p] \notin {"arm", "sleep"},
             tokens' = Refilled(t) - spent, lastRefill' = RefilledAt(t),
             granted' = granted + spent, spent <= Refilled(t) \/ spent = 0, TokenReturn(p)
      PROVE  TokenInv'
  <2>1. /\ Refilled(t) \in Int /\ Refilled(t) <= BucketSize /\ RefilledAt(t) \in 0 .. now
        /\ lastRefill <= RefilledAt(t) /\ (RefilledAt(t) = lastRefill => Refilled(t) = tokens)
        /\ contexts = {} => /\ Refilled(t) >= 0
                            /\ granted + Refilled(t) <= BucketSize + RefilledAt(t)
        /\ spent \in Nat /\ granted \in Nat
    BY <1>0, Refills DEF TokenTypeOK
  <2>2. TokenTypeOK'
    BY <1>0, <1>3, <2>1 DEF TokenTypeOK
  <2>3. /\ Owing' \in SUBSET Owing /\ p \notin Owing'
        /\ \A q \in Owing' : /\ seen'[q] = seen[q] /\ wait'[q] = wait[q] /\ asked'[q] = asked[q]
                             /\ deadline'[q] = deadline[q] /\ timer'[q] = timer[q]
                             /\ tokenPc'[q] = tokenPc[q]
    BY <1>0, <1>3 DEF Owing, TokenTypeOK
  <2>4. lastRefill <= lastRefill' /\ (lastRefill' = lastRefill => tokens' <= tokens)
    BY <1>0, <1>3, <2>1
  <2>5. DueByDeadline' /\ DebtsApart' /\ DebtsKept'
    BY <1>0, <1>3, <2>2, <2>3, <2>4, DebtsStay
  <2>6. contexts = {} => /\ \A q \in Clients : tokenPc'[q] \notin {"wait", "arm", "sleep"}
                         /\ tokens' >= 0 /\ granted' + tokens' <= BucketSize + lastRefill'
    BY <1>0, <1>3, <2>1 DEF TokenInv, TokenTypeOK
  <2> QED BY <1>0, <1>3, <2>2, <2>5, <2>6 DEF TokenInv
<1>4. ASSUME NEW p \in Clients, AllowTakes(p) \/ AllowRefuses(p) PROVE TokenInv'
  <2>1. seen[p] \in 0 .. now /\ asked[p] \in Nat /\ Refilled(seen[p]) \in Int /\ granted \in Nat
    <3>1. seen[p] \in 0 .. now /\ asked[p] \in Nat /\ granted \in Nat
      BY <1>0 DEF TokenTypeOK
    <3> QED BY <3>1, Refills
  <2>2. CASE AllowTakes(p)
    BY <1>0, <1>3, <2>1, <2>2 DEF AllowTakes, TokenTypeOK
  <2>3. CASE AllowRefuses(p)
    <3>1. /\ now' = now /\ contexts' = contexts /\ locked' \in BOOLEAN
          /\ tokenPc[p] \notin {"arm", "sleep"} /\ TokenReturn(p)
          /\ tokens' = Refilled(seen[p]) - 0 /\ lastRefill' = RefilledAt(seen[p])
          /\ granted' = granted + 0
      BY <1>0, <2>1, <2>3 DEF AllowRefuses, TokenTypeOK
    <3> QED BY <1>3, <2>1, <3>1
  <2> QED BY <1>4, <2>2, <2>3
<1>5. ASSUME NEW p \in Clients, WaitTakes(p) \/ WaitTimesOut(p) PROVE TokenInv'
  <2>1. asked[p] \in Nat /\ Refilled(now) \in Int /\ granted \in Nat
    BY <1>0, Refills DEF TokenTypeOK
  <2>2. CASE WaitTakes(p)
    BY <1>0, <1>3, <2>1, <2>2 DEF WaitTakes, TokenTypeOK
  <2>3. CASE WaitTimesOut(p)
    <3>1. /\ now' = now /\ contexts' = contexts /\ locked' \in BOOLEAN
          /\ tokenPc[p] \notin {"arm", "sleep"} /\ TokenReturn(p)
          /\ tokens' = Refilled(now) - 0 /\ lastRefill' = RefilledAt(now)
          /\ granted' = granted + 0
      BY <1>0, <2>1, <2>3 DEF WaitTimesOut
    <3> QED BY <1>0, <1>3, <3>1
  <2> QED BY <1>5, <2>2, <2>3
<1>6. ASSUME NEW p \in Clients, WaitOwes(p) PROVE TokenInv'
  <2>1. /\ Refilled(now) \in Int /\ Refilled(now) <= BucketSize /\ RefilledAt(now) \in 0 .. now
        /\ asked[p] \in Nat /\ contexts # {}
    BY <1>0, <1>6, Refills DEF WaitOwes, TokenInv, TokenTypeOK
  <2>2. TokenTypeOK'
    <3>1. WaitDuration(p) \in Nat
      BY <1>6, <2>1 DEF WaitOwes, WaitDuration
    <3> QED BY <1>0, <1>6, <2>1, <3>1 DEF WaitOwes, TokenTypeOK
  <2>3. DueByDeadline' /\ DebtsApart' /\ DebtsKept'
    BY <1>6, <2>2, DebtAdded
  <2> QED BY <1>0, <1>6, <2>1, <2>2, <2>3 DEF WaitOwes, TokenInv
<1>7. ASSUME NEW p \in Clients, ArmTimer(p) PROVE TokenInv'
  <2>1. /\ now' = now /\ UNCHANGED <<bucket, asked, seen, deadline, wait, granted>>
        /\ timer' = [timer EXCEPT ![p] = now + wait[p]]
        /\ tokenPc' = [tokenPc EXCEPT ![p] = "sleep"] /\ tokenPc[p] = "arm"
        /\ now + wait[p] \in Nat /\ wait[p] \in Nat /\ seen[p] \in 0 .. now
    BY <1>0, <1>7 DEF ArmTimer, TokenTypeOK
  <2>2. TokenTypeOK'
    BY <1>0, <2>1 DEF TokenTypeOK
  <2>3. Owing' = Owing /\ \A q : Due(q)' = Due(q)
    BY <1>0, <2>1 DEF Owing, Due, TokenTypeOK
  <2>4. DebtsApart' /\ DebtsKept'
    BY <2>1, <2>3 DEF TokenInv, DebtsApart, DebtsKept
  <2>5. DueByDeadline'
    <3> SUFFICES ASSUME NEW q \in Owing
                 PROVE  /\ deadline[q] # Never => Due(q) <= deadline[q]
                        /\ tokenPc'[q] = "sleep" => timer'[q] \in Due(q) .. now + wait[q]
      BY <2>1, <2>3 DEF DueByDeadline
    <3>1. /\ deadline[q] # Never => Due(q) <= deadline[q]
          /\ tokenPc[q] = "sleep" => timer[q] \in Due(q) .. now + wait[q]
      BY DEF TokenInv, DueByDeadline
    <3>2. CASE q = p
      <4>1. timer'[p] = now + wait[p]
        BY <1>0, <2>1 DEF TokenTypeOK
      <4>2. now + wait[p] \in Due(p) .. now + wait[p]
        BY <1>0, <2>1 DEF Due
      <4> QED BY <3>1, <3>2, <4>1, <4>2
    <3>3. CASE q # p
      <4>1. q \in Clients
        BY DEF Owing
      <4> QED BY <1>0, <2>1, <3>1, <3>3, <4>1 DEF TokenTypeOK
    <3> QED BY <3>2, <3>3
  <2>6. contexts # {}
    BY <1>7, <2>1 DEF TokenInv
  <2> QED BY <1>0, <2>1, <2>2, <2>4, <2>5, <2>6 DEF TokenInv
<1>8. ASSUME NEW p \in Clients, WaitEnds(p) \/ WaitCancelled(p) PROVE TokenInv'
  <2>1. /\ now' = now /\ UNCHANGED bucket /\ TokenReturn(p) /\ contexts # {}
        /\ granted' \in Nat
    BY <1>0, <1>8 DEF WaitEnds, WaitCancelled, TokenInv, TokenTypeOK
  <2>2. TokenTypeOK'
    BY <1>0, <2>1 DEF TokenTypeOK
  <2>3. /\ Owing' \in SUBSET Owing /\ p \notin Owing'
        /\ \A q \in Owing' : /\ seen'[q] = seen[q] /\ wait'[q] = wait[q] /\ asked'[q] = asked[q]
                             /\ deadline'[q] = deadline[q] /\ timer'[q] = timer[q]
                             /\ tokenPc'[q] = tokenPc[q]
    BY <1>0, <2>1 DEF Owing, TokenTypeOK
  <2>4. DueByDeadline' /\ DebtsApart' /\ DebtsKept'
    BY <1>0, <2>1, <2>2, <2>3, DebtsStay
  <2> QED BY <1>0, <2>1, <2>2, <2>4 DEF TokenInv
<1> QED BY <1>1, <1>2, <1>4, <1>5, <1>6, <1>7, <1>8 DEF TokenNext, TokenStep

LEMMA TokenPromises == TokenInv => TokensAsPromised
<1> SUFFICES ASSUME TokenInv PROVE TokensAsPromised
  OBVIOUS
<1>1. RateBound
  BY BucketAssumption DEF TokenInv, TokenTypeOK, RateBound
<1> QED BY <1>1 DEF TokenInv, TokensAsPromised
-----------------------------------------------------------------------------
(* Orders and recursion *)

\* R is a strict total order of S.
Orders(R, S) == /\ \A c, d \in S : c # d => <<c, d>> \in R \/ <<d, c>> \in R
                /\ \A c \in S : <<c, c>> \notin R
                /\ \A b, c, d \in S : <<b, c>> \in R /\ <<c, d>> \in R => <<b, d>> \in R

\* In a finite set that R orders, as many elements have fewer than k before them as there
\* are elements up to k.
LEMMA Ranked ==
  ASSUME NEW S, IsFiniteSet(S), NEW R, Orders(R, S), NEW k \in Nat
  PROVE  Cardinality({c \in S : Cardinality({d \in S : <<d, c>> \in R}) < k}) =
           IF Cardinality(S) < k THEN Cardinality(S) ELSE k
<1> DEFINE n == Cardinality(S)
           m == IF n < k THEN n ELSE k
           Before(c) == {d \in S : <<d, c>> \in R}
           rank == [c \in S |-> Cardinality(Before(c))]
           T == {c \in S : rank[c] < k}
           f == [c \in T |-> rank[c]]
<1> USE DEF Orders
<1>1. n \in Nat /\ m \in Nat /\ m <= n /\ m <= k /\ (m = n \/ m = k)
  BY FS_CardinalityType
<1>0. n = Cardinality(S) /\ m = IF Cardinality(S) < k THEN Cardinality(S) ELSE k
  OBVIOUS
<1> HIDE DEF n, m
<1>2. ASSUME NEW c \in S
      PROVE  /\ rank[c] = Cardinality(Before(c)) /\ IsFiniteSet(Before(c)) /\ c \notin Before(c)
             /\ rank[c] \in 0 .. n - 1
  <2>1. Before(c) \in SUBSET (S \ {c})
    OBVIOUS
  <2>2. IsFiniteSet(S \ {c}) /\ Cardinality(S \ {c}) = n - 1
    BY <1>0, FS_RemoveElement
  <2> DEFINE B == Before(c)
             D == S \ {c}
  <2>3. IsFiniteSet(B) /\ Cardinality(B) <= n - 1
    <3>1. B \in SUBSET D /\ IsFiniteSet(D) /\ Cardinality(D) = n - 1
      BY <2>1, <2>2
    <3> HIDE DEF B, D
    <3> QED BY <3>1, FS_Subset
  <2>4. Cardinality(Before(c)) \in Nat
    BY <2>3, FS_CardinalityType
  <2> QED BY <2>1, <2>3, <2>4, <1>1
<1>3. ASSUME NEW c \in S, NEW d \in S, <<c, d>> \in R
      PROVE  rank[c] < rank[d]
  <2>1. Before(c) \cup {c} \in SUBSET Before(d)
    BY <1>3
  <2>2. IsFiniteSet(Before(c) \cup {c}) /\ Cardinality(Before(c) \cup {c}) = rank[c] + 1
    BY <1>2, FS_AddElement
  <2> DEFINE B == Before(c) \cup {c}
             D == Before(d)
  <2>3. rank[c] + 1 <= rank[d]
    <3>1. B \in SUBSET D /\ IsFiniteSet(D) /\ Cardinality(B) = rank[c] + 1 /\ Cardinality(D) = rank[d]
      BY <1>2, <2>1, <2>2
    <3> HIDE DEF B, D, rank
    <3> QED BY <3>1, FS_Subset
  <2>4. rank[c] \in 0 .. n - 1 /\ rank[d] \in 0 .. n - 1
    BY <1>2
  <2> HIDE DEF rank
  <2> QED BY <1>1, <2>3, <2>4
<1>4. rank \in Injection(S, 0 .. n - 1)
  <2>1. rank \in [S -> 0 .. n - 1]
    BY <1>2
  <2>2. ASSUME NEW c \in S, NEW d \in S, rank[c] = rank[d] PROVE c = d
    <3>1. rank[c] \in 0 .. n - 1 /\ rank[d] \in 0 .. n - 1
      BY <1>2
    <3>2. ~(rank[c] < rank[d]) /\ ~(rank[d] < rank[c])
      <4> HIDE DEF rank
      <4> QED BY <1>1, <2>2, <3>1
    <3>3. <<c, d>> \notin R /\ <<d, c>> \notin R
      BY <1>3, <3>2, Zenon
    <3> QED BY <3>3
  <2> HIDE DEF rank
  <2> QED BY <2>1, <2>2 DEF Injection, IsInjective
<1>5. IsFiniteSet(0 .. n - 1) /\ Cardinality(0 .. n - 1) = n
  BY <1>1, FS_Interval
<1>6. rank \in Surjection(S, 0 .. n - 1)
  <2> DEFINE I == 0 .. n - 1
  <2>1. rank \in Injection(S, I) /\ IsFiniteSet(I) /\ Cardinality(S) = Cardinality(I)
    BY <1>0, <1>4, <1>5
  <2> HIDE DEF rank, I
  <2>2. rank \in Surjection(S, I)
    BY <2>1, FS_Injection
  <2> QED BY <2>2 DEF I
<1>7. /\ \A c \in S : rank[c] \in 0 .. n - 1
      /\ \A c, d \in S : rank[c] = rank[d] => c = d
      /\ \A r \in 0 .. n - 1 : \E c \in S : rank[c] = r
  <2> HIDE DEF rank
  <2> QED BY <1>4, <1>6 DEF Injection, IsInjective, Surjection
<1>8. T = {c \in S : Cardinality({d \in S : <<d, c>> \in R}) < k}
  OBVIOUS
<1> HIDE DEF rank
<1>9. f \in Injection(T, 0 .. m - 1) /\ f \in Surjection(T, 0 .. m - 1)
  <2>1. \A c \in T : f[c] = rank[c] /\ c \in S /\ rank[c] < k
    OBVIOUS
  <2>2. \A c \in T : f[c] \in 0 .. m - 1
    BY <1>1, <1>7, <2>1
  <2>3. \A r \in 0 .. m - 1 : \E c \in T : f[c] = r
    <3> SUFFICES ASSUME NEW r \in 0 .. m - 1 PROVE \E c \in T : f[c] = r
      OBVIOUS
    <3>1. r \in 0 .. n - 1 /\ r < k
      BY <1>1
    <3>2. PICK c \in S : rank[c] = r
      BY <1>7, <3>1
    <3> QED BY <3>1, <3>2
  <2>4. f \in [T -> 0 .. m - 1]
    BY <2>2
  <2>5. \A c, d \in T : f[c] = f[d] => c = d
    BY <1>7, <2>1
  <2> HIDE DEF f, m, T
  <2> QED BY <2>3, <2>4, <2>5 DEF Injection, IsInjective, Surjection
<1>10. IsFiniteSet(0 .. m - 1) /\ Cardinality(0 .. m - 1) = m
  BY <1>1, FS_Interval
<1>11. Cardinality(T) = m
  <2> HIDE DEF f, m, T
  <2> QED BY <1>9, <1>10, FS_Injection
<1> QED BY <1>0, <1>8, <1>11

LEMMA NatMin == ASSUME NEW T \in SUBSET Nat, T # {}
                PROVE  \E m \in T : \A k \in T : m <= k
<1> DEFINE R == OpToRel(<, Nat)
<1>1. IsWellFoundedOn(R, Nat)
  BY NatLessThanWellFounded
<1> HIDE DEF R
<1>2. PICK m \in T : \A k \in T : ~(<<k, m>> \in R)
  BY <1>1, WFMin
<1>3. \A k \in T : ~(k < m)
  BY <1>2 DEF R, OpToRel
<1> QED BY <1>3

LEMMA ByInduction ==
  ASSUME NEW m \in Nat, NEW S, 0 \in S,
         \A i \in 1 .. m : i - 1 \in S => i \in S
  PROVE  \A i \in 0 .. m : i \in S
<1> DEFINE T == {i \in 0 .. m : i \notin S}
<1> SUFFICES ASSUME T # {} PROVE FALSE
  OBVIOUS
<1>1. PICK k \in T : \A i \in T : k <= i
  <2>1. T \in SUBSET Nat
    OBVIOUS
  <2> QED BY <2>1, NatMin
<1>2. k \in 1 .. m /\ k - 1 \in 0 .. m /\ k - 1 \notin T
  BY <1>1
<1> QED BY <1>1, <1>2

\* The functions that start from a and whose i-th value F makes of i and the one before.
Rec(m, S, a, F) ==
  {f \in [0 .. m -> S] : f[0] = a /\ \A i \in 1 .. m : f[i] = F[<<i, f[i - 1]>>]}

LEMMA Recursion ==
  ASSUME NEW m \in Nat, NEW S, NEW a \in S, NEW F \in [(1 .. m) \X S -> S]
  PROVE  Rec(m, S, a, F) # {}
<1> DEFINE Meets(k, f) == /\ f \in [0 .. k -> S] /\ f[0] = a
                          /\ \A i \in 1 .. k : f[i] = F[<<i, f[i - 1]>>]
           T == {k \in 0 .. m : \E f : Meets(k, f)}
<1>1. 0 \in T
  <2>1. Meets(0, [i \in 0 .. 0 |-> a])
    OBVIOUS
  <2>2. 0 \in 0 .. m
    OBVIOUS
  <2> HIDE DEF Meets
  <2>3. \E f : Meets(0, f)
    BY <2>1
  <2> QED BY <2>2, <2>3
<1>2. ASSUME NEW k \in 1 .. m, k - 1 \in T PROVE k \in T
  <2>1. PICK f : Meets(k - 1, f)
    BY <1>2
  <2> DEFINE g == [i \in 0 .. k |-> IF i = k THEN F[<<k, f[k - 1]>>] ELSE f[i]]
  <2>2. f[k - 1] \in S /\ F[<<k, f[k - 1]>>] \in S
    BY <2>1
  <2>3. g \in [0 .. k -> S] /\ g[0] = a
    BY <2>1, <2>2
  <2>4. ASSUME NEW i \in 1 .. k PROVE g[i] = F[<<i, g[i - 1]>>]
    <3>1. i - 1 \in 0 .. k /\ i - 1 # k /\ i \in 0 .. k
      OBVIOUS
    <3>2. g[i - 1] = f[i - 1]
      BY <3>1
    <3>3. CASE i = k
      BY <3>2, <3>3
    <3>4. CASE i # k
      BY <2>1, <3>1, <3>2, <3>4
    <3> QED BY <3>3, <3>4
  <2> HIDE DEF g
  <2>5. Meets(k, g)
    BY <2>3, <2>4
  <2> QED BY <2>5
<1> HIDE DEF T
<1>3. \A k \in 0 .. m : k \in T
  BY <1>1, <1>2, ByInduction
<1>4. m \in T
  BY <1>3
<1> QED BY <1>4 DEF T, Rec

-----------------------------------------------------------------------------
(* The Kademlia table *)

\* What PrefixLen returns: the first bits that are shared, and the first that is not.
LEMMA FirstDifference ==
  ASSUME NEW id \in NodeIDs, NEW other \in NodeIDs
  PROVE  /\ PrefixLen(id, other) \in Lengths
         /\ Share(id, other, PrefixLen(id, other))
         /\ \/ PrefixLen(id, other) = IDLength
            \/ id[PrefixLen(id, other) + 1] # other[PrefixLen(id, other) + 1]
<1> DEFINE Is(p) == Share(id, other, p) /\ (p = IDLength \/ id[p + 1] # other[p + 1])
           T == {p \in Lengths : p = IDLength \/ id[p + 1] # other[p + 1]}
<1>1. T \subseteq Nat /\ IDLength \in T
  BY KademliaAssumption DEF Lengths
<1>2. PICK p \in T : \A q \in T : ~(<<q, p>> \in OpToRel(<, Nat))
  <2> HIDE DEF T
  <2> QED  BY <1>1, NatLessThanWellFounded, WFMin, Zenon
<1>3. \A q \in T : ~(q < p)
  BY <1>1, <1>2 DEF OpToRel
<1>4. p \in Lengths /\ Is(p)
  <2>1. ASSUME NEW i \in 1 .. p  PROVE  id[i] = other[i]
    <3>1. i - 1 \in Lengths /\ i - 1 < p /\ i - 1 # IDLength /\ (i - 1) + 1 = i
      BY KademliaAssumption DEF Lengths
    <3>2. i - 1 \notin T
      BY <1>3, <3>1
    <3> QED  BY <3>1, <3>2
  <2> QED  BY <2>1 DEF Share
<1>5. PrefixLen(id, other) \in Lengths /\ Is(PrefixLen(id, other))
  <2>1. PrefixLen(id, other) = CHOOSE q \in Lengths : Is(q)
    BY DEF PrefixLen
  <2> HIDE DEF Is
  <2> QED  BY <1>4, <2>1
<1> QED  BY <1>5

\* No other length does.
LEMMA OnlyDifference ==
  ASSUME NEW id \in NodeIDs, NEW other \in NodeIDs, NEW p \in Lengths, Share(id, other, p)
  PROVE  /\ PrefixLen(id, other) >= p
         /\ p < IDLength /\ id[p + 1] # other[p + 1] => PrefixLen(id, other) = p
BY FirstDifference, KademliaAssumption DEF Share, Lengths

\* Nearer orders IDs by their distance to the target, of which no two are the same.
LEMMA NearerOrders ==
  ASSUME NEW target \in NodeIDs
  PROVE  /\ \A id, other \in NodeIDs :
              id # other => Nearer(id, other, target) \/ Nearer(other, id, target)
         /\ \A id \in NodeIDs : ~Nearer(id, id, target)
         /\ \A id, other, third \in NodeIDs :
              Nearer(id, other, target) /\ Nearer(other, third, target) =>
                Nearer(id, third, target)
<1>1. ASSUME NEW id \in NodeIDs, NEW other \in NodeIDs, id # other
      PROVE  Nearer(id, other, target) \/ Nearer(other, id, target)
  <2> DEFINE p == PrefixLen(id, other)
  <2>1. /\ p \in Lengths /\ Share(id, other, p)
        /\ p = IDLength \/ id[p + 1] # other[p + 1]
    BY FirstDifference
  <2> HIDE DEF p
  <2>2. p # IDLength
    <3>1. /\ id = [i \in 1 .. IDLength |-> id[i]]
          /\ other = [i \in 1 .. IDLength |-> other[i]]
      BY DEF NodeIDs
    <3>2. p = IDLength => \A i \in 1 .. IDLength : id[i] = other[i]
      BY <2>1 DEF Share
    <3> QED BY <1>1, <3>1, <3>2, Zenon
  <2>3. p + 1 \in 1 .. IDLength /\ (p + 1) - 1 = p
    BY <2>1, <2>2, KademliaAssumption DEF Lengths
  <2>4. id[p + 1] \in {0, 1} /\ other[p + 1] \in {0, 1} /\ target[p + 1] \in {0, 1}
    BY <2>3 DEF NodeIDs
  <2>5. Share(other, id, p)
    BY <2>1 DEF Share
  <2> QED BY <2>1, <2>2, <2>3, <2>4, <2>5 DEF Nearer
<1>2. \A id \in NodeIDs : ~Nearer(id, id, target)
  BY DEF Nearer
<1>3. ASSUME NEW id \in NodeIDs, NEW other \in NodeIDs, NEW third \in NodeIDs,
             Nearer(id, other, target), Nearer(other, third, target)
      PROVE  Nearer(id, third, target)
  <2>1. PICK i \in 1 .. IDLength : /\ Share(id, other, i - 1) /\ id[i] # other[i]
                                   /\ id[i] = target[i]
    BY <1>3 DEF Nearer
  <2>2. PICK j \in 1 .. IDLength : /\ Share(other, third, j - 1) /\ other[j] # third[j]
                                   /\ other[j] = target[j]
    BY <1>3 DEF Nearer
  <2>3. CASE i < j
    <3>1. Share(id, third, i - 1) /\ other[i] = third[i]
      BY <2>1, <2>2, <2>3, KademliaAssumption DEF Share
    <3> QED BY <2>1, <3>1 DEF Nearer
  <2>4. CASE j < i
    <3>1. Share(id, third, j - 1) /\ id[j] = other[j]
      BY <2>1, <2>2, <2>4, KademliaAssumption DEF Share
    <3> QED BY <2>2, <3>1 DEF Nearer
  <2>5. i # j
    BY <2>1, <2>2
  <2> QED BY <2>3, <2>4, <2>5, KademliaAssumption
<1> QED BY <1>1, <1>2, <1>3

\* No two nodes of a bucket have the same ID.
OneEach(row) == \A i, j \in 1 .. Len(row) : row[i].ID = row[j].ID => i = j

\* Update leaves the nodes of a bucket with other IDs where they are or, in turn, before
\* the new one, so that there is still one each; it is full when it refuses one.
LEMMA UpdatedIs ==
  ASSUME NEW row \in Seq(Nodes), OneEach(row), NEW n \in Nodes
  PROVE  LET known == \E i \in 1 .. Len(row) : row[i].ID = n.ID
             new == Updated(row, n)
         IN  /\ new \in Seq(Nodes) /\ OneEach(new)
             /\ Len(new) = IF known \/ ~(Len(row) < K) THEN Len(row) ELSE Len(row) + 1
             /\ \A j \in 1 .. Len(new) :
                  \/ new[j] = n
                  \/ \E i \in 1 .. Len(row) : new[j] = row[i] /\ row[i].ID # n.ID
<1> DEFINE at == {i \in 1 .. Len(row) : row[i].ID = n.ID}
           i == CHOOSE i \in at : TRUE
           first == SubSeq(row, 1, i - 1)
           rest == SubSeq(row, i + 1, Len(row))
           known == \E j \in 1 .. Len(row) : row[j].ID = n.ID
<1>1. CASE at # {}
  <2>1. i \in 1 .. Len(row) /\ row[i].ID = n.ID /\ known
    BY <1>1
  <2>2. Updated(row, n) = Append(first \o rest, n)
    BY <1>1 DEF Updated
  <2> HIDE DEF i, at, known
  <2>3. /\ first \in Seq(Nodes) /\ Len(first) = i - 1
        /\ \A j \in 1 .. i - 1 : first[j] = row[j]
    BY <2>1
  <2>4. /\ rest \in Seq(Nodes) /\ Len(rest) = Len(row) - i
        /\ \A j \in 1 .. Len(row) - i : rest[j] = row[i + j]
    BY <2>1
  <2> DEFINE others == first \o rest
             From(j) == IF j < i THEN j ELSE j + 1
  <2> HIDE DEF first, rest
  <2>5. others \in Seq(Nodes) /\ Len(others) = Len(row) - 1
    <3>1. others \in Seq(Nodes) /\ Len(others) = Len(first) + Len(rest)
      <4>1. first \in Seq(Nodes) /\ rest \in Seq(Nodes)
        BY <2>3, <2>4
      <4> QED BY <4>1, ConcatProperties
    <3> HIDE DEF others
    <3> QED BY <2>1, <2>3, <2>4, <3>1
  <2>6. ASSUME NEW j \in 1 .. Len(others)
        PROVE  From(j) \in 1 .. Len(row) /\ From(j) # i /\ others[j] = row[From(j)]
    <3>1. CASE j < i
      BY <2>1, <2>3, <2>4, <2>5, <3>1
    <3>2. CASE ~(j < i)
      <4>1. j \in Nat /\ i \in Nat /\ j - (i - 1) \in 1 .. Len(row) - i
        BY <2>1, <2>5, <3>2
      <4>2. others[j] = rest[j - (i - 1)]
        BY <2>1, <2>3, <2>4, <2>5, <3>2
      <4>3. others[j] = row[i + (j - (i - 1))] /\ i + (j - (i - 1)) = j + 1
        BY <2>4, <4>1, <4>2
      <4> QED BY <2>1, <2>5, <3>2, <4>1, <4>3
    <3> QED BY <3>1, <3>2
  <2>7. \A j \in 1 .. Len(others) : others[j].ID # n.ID
    BY <2>1, <2>6 DEF OneEach
  <2>8. ASSUME NEW j \in 1 .. Len(others), NEW k \in 1 .. Len(others), others[j].ID = others[k].ID
        PROVE  j = k
    <3>1. From(j) = From(k)
      <4> HIDE DEF From
      <4> QED BY <2>6, <2>8 DEF OneEach
    <3> QED BY <2>1, <2>5, <3>1
  <2> HIDE DEF others, From
  <2> DEFINE new == Append(others, n)
  <2>9. /\ new \in Seq(Nodes) /\ Len(new) = Len(row) /\ new[Len(row)] = n
        /\ \A j \in 1 .. Len(others) : new[j] = others[j]
    BY <2>5
  <2>10. Updated(row, n) = new
    BY <2>2 DEF others
  <2> HIDE DEF new
  <2>11. \A j \in 1 .. Len(row) : j = Len(row) \/ j \in 1 .. Len(others)
    BY <2>5
  <2>12. OneEach(new)
    <3> SUFFICES ASSUME NEW j \in 1 .. Len(new), NEW k \in 1 .. Len(new), new[j].ID = new[k].ID
                 PROVE  j = k
      BY DEF OneEach
    <3> QED BY <2>7, <2>8, <2>9, <2>11
  <2>13. \A j \in 1 .. Len(new) :
          new[j] = n \/ \E k \in 1 .. Len(row) : new[j] = row[k] /\ row[k].ID # n.ID
    <3> SUFFICES ASSUME NEW j \in 1 .. Len(others)
                 PROVE  \E k \in 1 .. Len(row) : new[j] = row[k] /\ row[k].ID # n.ID
      BY <2>9, <2>11
    <3> QED BY <2>6, <2>7, <2>9
  <2> QED BY <2>1, <2>9, <2>10, <2>12, <2>13 DEF known
<1>2. CASE at = {} /\ Len(row) < K
  <2>1. /\ Updated(row, n) = Append(row, n) /\ ~known
        /\ \A j \in 1 .. Len(row) : row[j].ID # n.ID
    BY <1>2 DEF Updated
  <2> DEFINE new == Append(row, n)
  <2>2. /\ new \in Seq(Nodes) /\ Len(new) = Len(row) + 1 /\ new[Len(row) + 1] = n
        /\ \A j \in 1 .. Len(row) : new[j] = row[j]
        /\ \A j \in 1 .. Len(new) : j = Len(row) + 1 \/ j \in 1 .. Len(row)
    OBVIOUS
  <2> HIDE DEF at, i, first, rest, new, known
  <2>3. OneEach(new)
    <3> SUFFICES ASSUME NEW j \in 1 .. Len(new), NEW k \in 1 .. Len(new), new[j].ID = new[k].ID
                 PROVE  j = k
      BY DEF OneEach
    <3> QED BY <2>1, <2>2 DEF OneEach
  <2>4. \A j \in 1 .. Len(new) :
          new[j] = n \/ \E k \in 1 .. Len(row) : new[j] = row[k] /\ row[k].ID # n.ID
    BY <2>1, <2>2
  <2> QED BY <1>2, <2>1, <2>2, <2>3, <2>4 DEF new, known
<1>3. CASE at = {} /\ ~(Len(row) < K)
  <2>1. /\ Updated(row, n) = row
        /\ \A j \in 1 .. Len(row) : row[j].ID # n.ID
    BY <1>3 DEF Updated
  <2> QED BY <1>3, <2>1
<1> QED BY <1>1, <1>2, <1>3

\* The inductive invariant: each bucket holds IDs it was told of that share exactly its
\* number of bits with this one, once each and under the last address, as many as fit.
HeardAt(p) == {id \in DOMAIN heard : PrefixLen(localID, id) = p}

BucketKept(p) ==
  /\ OneEach(kBuckets[p])
  /\ \A i \in 1 .. Len(kBuckets[p]) :
       kBuckets[p][i].ID \in HeardAt(p) /\ heard[kBuckets[p][i].ID] = kBuckets[p][i].Addr
  /\ Len(kBuckets[p]) = IF Cardinality(HeardAt(p)) < K THEN Cardinality(HeardAt(p)) ELSE K

TableInv ==
  /\ localID \in NodeIDs /\ kBuckets \in [Lengths -> Seq(Nodes)]
  /\ IsFiniteSet(DOMAIN heard) /\ \A id \in DOMAIN heard : id \in NodeIDs /\ id # localID
  /\ \A p \in Lengths : BucketKept(p)

IDsIn(row) == {c.ID : c \in In(row)}

\* A bucket with one of each has as many IDs as elements.
LEMMA IDsCounted ==
  ASSUME NEW row \in Seq(Nodes), OneEach(row)
  PROVE  IsFiniteSet(IDsIn(row)) /\ Cardinality(IDsIn(row)) = Len(row)
<1> DEFINE f == [i \in 1 .. Len(row) |-> row[i].ID]
           I == 1 .. Len(row)
           T == IDsIn(row)
<1>1. \A i \in 1 .. Len(row) : f[i] \in T
  BY DEF IDsIn, In
<1>2. \A id \in T : \E i \in 1 .. Len(row) : id = f[i]
  BY DEF IDsIn, In
<1>3. f \in [I -> T] /\ \A i, j \in I : f[i] = f[j] => i = j
  BY <1>1 DEF OneEach
<1>4. IsFiniteSet(I) /\ Cardinality(I) = Len(row)
  <2>1. Len(row) \in Int /\ 1 \in Int /\ (IF 1 > Len(row) THEN 0 ELSE Len(row) - 1 + 1) = Len(row)
    OBVIOUS
  <2> HIDE DEF f, T
  <2> QED BY <2>1, FS_Interval
<1> HIDE DEF f, T, I
<1>5. f \in Bijection(I, T)
  BY <1>2, <1>3 DEF Bijection, Injection, IsInjective, Surjection, I
<1>6. ExistsBijection(I, T)
  BY <1>5 DEF ExistsBijection
<1> QED BY <1>4, <1>6, FS_Bijection DEF T

LEMMA TableStarts == KadInit => TableInv
<1> SUFFICES ASSUME KadInit PROVE TableInv
  OBVIOUS
<1>1. DOMAIN heard = {} /\ \A p \in Lengths : kBuckets[p] = << >> /\ HeardAt(p) = {}
  BY DEF KadInit, HeardAt
<1>2. kBuckets \in [Lengths -> Seq(Nodes)] /\ localID \in NodeIDs
  BY DEF KadInit
<1>3. IsFiniteSet({}) /\ Cardinality({}) = 0
  BY FS_EmptySet
<1>4. ASSUME NEW p \in Lengths PROVE BucketKept(p)
  <2>1. Len(kBuckets[p]) = 0 /\ 0 < K /\ Cardinality(HeardAt(p)) = 0
    <3>1. Len(kBuckets[p]) = 0 /\ 0 < K
      BY <1>1, KademliaAssumption
    <3>2. HeardAt(p) = {}
      BY <1>1
    <3> QED BY <1>3, <3>1, <3>2
  <2>2. \A i : i \notin 1 .. Len(kBuckets[p])
    BY <2>1
  <2> HIDE DEF HeardAt
  <2> QED BY <2>1, <2>2 DEF BucketKept, OneEach
<1> QED BY <1>1, <1>2, <1>3, <1>4 DEF TableInv

\* A node that is heard of is one more in its own bucket's part of heard, if it is new.
LEMMA TableStep == ASSUME TableInv, NEW n \in Nodes, AddNode(n) PROVE TableInv'
<1>0. n.ID \in NodeIDs /\ PrefixLen(localID, n.ID) \in Lengths
  BY FirstDifference DEF Nodes, TableInv
<1>1. PICK p \in Lengths : p = PrefixLen(localID, n.ID)
  BY <1>0
<1>13. PICK row \in Seq(Nodes) : row = kBuckets[p]
  BY DEF TableInv
<1> DEFINE known == \E i \in 1 .. Len(row) : row[i].ID = n.ID
<1>2. /\ localID' = localID /\ n.ID # localID
      /\ kBuckets' = [kBuckets EXCEPT ![p] = Updated(row, n)]
      /\ DOMAIN heard' = DOMAIN heard \cup {n.ID} /\ heard'[n.ID] = n.Addr
      /\ \A id \in DOMAIN heard \ {n.ID} : heard'[id] = heard[id]
  BY <1>1, <1>13 DEF AddNode
<1>4. /\ HeardAt(p)' = HeardAt(p) \cup {n.ID}
      /\ \A q \in Lengths \ {p} : HeardAt(q)' = HeardAt(q)
  BY <1>1, <1>2 DEF HeardAt
<1>5. /\ row \in Seq(Nodes) /\ BucketKept(p) /\ OneEach(row)
      /\ IsFiniteSet(DOMAIN heard) /\ IsFiniteSet(HeardAt(p))
  <2>1. HeardAt(p) \in SUBSET DOMAIN heard
    BY DEF HeardAt
  <2> QED BY <1>13, <2>1, FS_Subset DEF TableInv, BucketKept
<1>6. /\ \A q \in Lengths \ {p} : kBuckets'[q] = kBuckets[q]
      /\ kBuckets'[p] = Updated(row, n)
  BY <1>2 DEF TableInv
<1>3. PICK new : new = Updated(row, n)
  OBVIOUS
<1>7. /\ new \in Seq(Nodes) /\ OneEach(new)
      /\ Len(new) = IF known \/ ~(Len(row) < K) THEN Len(row) ELSE Len(row) + 1
      /\ \A j \in 1 .. Len(new) :
           \/ new[j] = n
           \/ \E i \in 1 .. Len(row) : new[j] = row[i] /\ row[i].ID # n.ID
  <2> DEFINE up == Updated(row, n)
  <2>1. /\ up \in Seq(Nodes) /\ OneEach(up)
        /\ Len(up) = IF known \/ ~(Len(row) < K) THEN Len(row) ELSE Len(row) + 1
        /\ \A j \in 1 .. Len(up) :
             up[j] = n \/ \E i \in 1 .. Len(row) : up[j] = row[i] /\ row[i].ID # n.ID
    BY <1>5, UpdatedIs, Zenon
  <2>2. new = up
    BY <1>3
  <2> HIDE DEF up, known
  <2> QED BY <2>1, <2>2
<1>8. /\ \A i \in 1 .. Len(row) : row[i].ID \in HeardAt(p) /\ heard[row[i].ID] = row[i].Addr
      /\ Len(row) = IF Cardinality(HeardAt(p)) < K THEN Cardinality(HeardAt(p)) ELSE K
      /\ Len(row) \in Nat
  BY <1>5, <1>13 DEF BucketKept
<1>9. BucketKept(p)'
  <2>1. \A j \in 1 .. Len(new) : new[j].ID \in HeardAt(p)' /\ heard'[new[j].ID] = new[j].Addr
    <3> SUFFICES ASSUME NEW j \in 1 .. Len(new)
                 PROVE  new[j].ID \in HeardAt(p)' /\ heard'[new[j].ID] = new[j].Addr
      OBVIOUS
    <3>1. CASE new[j] = n
      BY <1>2, <1>4, <3>1
    <3>2. CASE new[j] # n
      <4>1. PICK i \in 1 .. Len(row) : new[j] = row[i] /\ row[i].ID # n.ID
        BY <1>7, <3>2
      <4>2. row[i].ID \in HeardAt(p) /\ row[i].ID \in DOMAIN heard
        BY <1>8 DEF HeardAt
      <4> QED BY <1>2, <1>4, <1>8, <4>1, <4>2
    <3> QED BY <3>1, <3>2
  <2> DEFINE H == HeardAt(p)
             c == Cardinality(H)
  <2>2. c \in Nat
    BY <1>5, FS_CardinalityType
  <2>3. Cardinality(H \cup {n.ID}) = IF n.ID \in H THEN c ELSE c + 1
    BY <1>5, FS_AddElement
  <2>4. known => n.ID \in H
    BY <1>8
  <2>5. ~known /\ n.ID \in H => ~(c < K)
    <3> SUFFICES ASSUME ~known, n.ID \in H, c < K PROVE FALSE
      OBVIOUS
    <3> DEFINE T == IDsIn(row)
    <3>1. IsFiniteSet(T) /\ Cardinality(T) = c /\ T \in SUBSET H /\ IsFiniteSet(H)
      <4>1. T \subseteq H
        BY <1>8 DEF IDsIn, In
      <4>2. row \in Seq(Nodes) /\ OneEach(row)
        BY <1>5
      <4> QED BY <1>5, <1>8, <4>1, <4>2, IDsCounted
    <3>2. n.ID \notin T
      BY DEF IDsIn, In
    <3> HIDE DEF T, H
    <3>3. T = H
      BY <3>1, FS_Subset DEF c
    <3> QED BY <3>2, <3>3
  <2> HIDE DEF c, H, known
  <2>6. Len(new) = IF Cardinality(H \cup {n.ID}) < K THEN Cardinality(H \cup {n.ID}) ELSE K
    BY <1>7, <1>8, <2>2, <2>3, <2>4, <2>5, KademliaAssumption DEF c, H
  <2>7. Len(new) = IF Cardinality(HeardAt(p)') < K THEN Cardinality(HeardAt(p)') ELSE K
    BY <1>4, <2>6 DEF H
  <2>8. kBuckets'[p] = new
    BY <1>3, <1>6
  <2> QED BY <1>7, <2>1, <2>7, <2>8 DEF BucketKept, OneEach
<1>10. ASSUME NEW q \in Lengths \ {p} PROVE BucketKept(q)'
  <2>1. BucketKept(q)
    BY DEF TableInv
  <2>2. /\ kBuckets'[q] = kBuckets[q] /\ HeardAt(q)' = HeardAt(q)
        /\ \A id \in HeardAt(q) : id # n.ID /\ heard'[id] = heard[id]
    <3>1. n.ID \notin HeardAt(q)
      BY <1>1 DEF HeardAt
    <3> QED BY <1>2, <1>4, <1>6, <3>1 DEF HeardAt
  <2>3. \A i \in 1 .. Len(kBuckets[q]) : heard'[kBuckets[q][i].ID] = heard[kBuckets[q][i].ID]
    BY <2>1, <2>2 DEF BucketKept
  <2> QED BY <2>1, <2>2, <2>3 DEF BucketKept, OneEach
<1>11. kBuckets' \in [Lengths -> Seq(Nodes)]
  <2>1. kBuckets \in [Lengths -> Seq(Nodes)] /\ new \in Seq(Nodes)
    BY <1>7 DEF TableInv
  <2> QED BY <1>2, <1>3, <2>1
<1>12. IsFiniteSet((DOMAIN heard)') /\ \A id \in (DOMAIN heard)' : id \in NodeIDs /\ id # localID'
  <2>1. IsFiniteSet(DOMAIN heard \cup {n.ID})
    BY <1>5, FS_AddElement
  <2> QED BY <1>0, <1>2, <2>1 DEF TableInv
<1>14. \A q \in Lengths : BucketKept(q)'
  BY <1>9, <1>10
<1> QED BY <1>1, <1>2, <1>11, <1>12, <1>14 DEF TableInv

LEMMA TableKept == KadSpec => []TableInv
<1>1. TableInv /\ [KadNext]_kadVars => TableInv'
  <2>1. ASSUME TableInv, UNCHANGED kadVars PROVE TableInv'
    <3>1. localID' = localID /\ kBuckets' = kBuckets /\ heard' = heard
      BY <2>1 DEF kadVars
    <3>2. ASSUME NEW p \in Lengths PROVE BucketKept(p)'
      <4>1. HeardAt(p)' = HeardAt(p)
        BY <3>1 DEF HeardAt
      <4>2. BucketKept(p)
        BY <2>1 DEF TableInv
      <4> QED BY <3>1, <4>1, <4>2 DEF BucketKept, OneEach
    <3> QED BY <2>1, <3>1, <3>2 DEF TableInv
  <2> QED BY <2>1, TableStep DEF KadNext
<1> QED BY <1>1, TableStarts, PTL DEF KadSpec

\* The nodes of the table, each ID of which is one that was heard.
LEMMA KnownIs ==
  ASSUME TableInv
  PROVE  /\ \A c \in Known : /\ c \in Nodes /\ c.ID \in NodeIDs
                             /\ c.ID \in DOMAIN heard /\ heard[c.ID] = c.Addr
         /\ \A c, d \in Known : c.ID = d.ID => c = d
         /\ IsFiniteSet(Known)
<1>1. ASSUME NEW c \in Known
      PROVE  /\ c \in Nodes /\ c.ID \in NodeIDs
             /\ c.ID \in DOMAIN heard /\ heard[c.ID] = c.Addr
  <2>1. PICK p \in Lengths : \E i \in 1 .. Len(kBuckets[p]) : c = kBuckets[p][i]
    BY DEF Known, In
  <2>2. PICK i \in 1 .. Len(kBuckets[p]) : c = kBuckets[p][i]
    BY <2>1
  <2>3. kBuckets[p] \in Seq(Nodes) /\ BucketKept(p)
    BY DEF TableInv
  <2>4. c \in Nodes
    BY <2>2, <2>3
  <2>5. c.ID \in HeardAt(p) /\ heard[c.ID] = c.Addr
    BY <2>2, <2>3 DEF BucketKept
  <2> QED BY <2>4, <2>5 DEF Nodes, HeardAt
<1>2. ASSUME NEW c \in Known, NEW d \in Known, c.ID = d.ID PROVE c = d
  <2>1. c.Addr = d.Addr
    BY <1>1, <1>2
  <2> QED BY <1>1, <1>2, <2>1 DEF Nodes
<1> DEFINE H == DOMAIN heard
           f == [c \in Known |-> c.ID]
<1>3. f \in Injection(Known, H)
  <2>1. f \in [Known -> H] /\ \A c, d \in Known : f[c] = f[d] => c = d
    BY <1>1, <1>2
  <2> HIDE DEF f, H
  <2> QED BY <2>1 DEF Injection, IsInjective
<1>4. IsFiniteSet(H)
  BY DEF TableInv
<1>5. IsFiniteSet(Known)
  <2> HIDE DEF f, H
  <2> QED BY <1>3, <1>4, FS_Injection
<1> QED BY <1>1, <1>2, <1>5

\* Of the known nodes, as many as are asked for are the closest, and one is the closest of all.
LEMMA ClosestFound ==
  ASSUME TableInv, NEW target \in NodeIDs, NEW k \in Nat \ {0}
  PROVE  /\ Cardinality(FindClosestNodes(target, k)) =
              IF Cardinality(Known) < k THEN Cardinality(Known) ELSE k
         /\ Cardinality(Closest(target)) = IF Known = {} THEN 0 ELSE 1
         /\ Closest(target) \subseteq FindClosestNodes(target, k)
<1> DEFINE R == {e \in Known \X Known : Nearer(e[1].ID, e[2].ID, target)}
           Before(c) == {d \in Known : <<d, c>> \in R}
<1>1. \A c, d \in Known : <<c, d>> \in R <=> Nearer(c.ID, d.ID, target)
  OBVIOUS
<1>2. IsFiniteSet(Known) /\ Cardinality(Known) \in Nat
  BY KnownIs, FS_CardinalityType
<1>3. Orders(R, Known)
  <2> HIDE DEF R
  <2> QED BY <1>1, KnownIs, NearerOrders DEF Orders
<1>4. \A c \in Known : Before(c) = {d \in Known : Nearer(d.ID, c.ID, target)}
  BY <1>1
<1>5. ASSUME NEW c \in Known
      PROVE  /\ Before(c) = {} <=> \A d \in Known : ~Nearer(d.ID, c.ID, target)
             /\ IsFiniteSet(Before(c)) /\ Cardinality(Before(c)) \in Nat
             /\ Before(c) = {} <=> Cardinality(Before(c)) = 0
  <2>1. Before(c) \in SUBSET Known
    OBVIOUS
  <2> DEFINE B == Before(c)
  <2>2. IsFiniteSet(B) /\ Cardinality(B) \in Nat /\ (B = {} <=> Cardinality(B) = 0)
    <3> HIDE DEF B
    <3>1. B \in SUBSET Known
      BY <2>1 DEF B
    <3> QED BY <1>2, <3>1, FS_Subset, FS_CardinalityType, FS_EmptySet
  <2> QED BY <1>4, <2>2
<1> HIDE DEF R
<1>6. FindClosestNodes(target, k) = {c \in Known : Cardinality(Before(c)) < k}
  BY <1>4 DEF FindClosestNodes
<1>7. Cardinality({c \in Known : Cardinality(Before(c)) < k}) =
        IF Cardinality(Known) < k THEN Cardinality(Known) ELSE k
  <2>1. k \in Nat
    OBVIOUS
  <2> QED BY <1>2, <1>3, <2>1, Ranked
<1>8. Closest(target) = {c \in Known : Cardinality(Before(c)) < 1}
  <2>1. ASSUME NEW c \in Known
        PROVE  (\A d \in Known : ~Nearer(d.ID, c.ID, target)) <=> Cardinality(Before(c)) < 1
    <3> DEFINE C == Cardinality(Before(c))
    <3>1. C \in Nat /\ ((\A d \in Known : ~Nearer(d.ID, c.ID, target)) <=> C = 0)
      BY <1>5
    <3> HIDE DEF C
    <3>2. (\A d \in Known : ~Nearer(d.ID, c.ID, target)) <=> C < 1
      BY <3>1
    <3> QED BY <3>2 DEF C
  <2> HIDE DEF Before
  <2> QED BY <2>1 DEF Closest
<1>9. Cardinality({c \in Known : Cardinality(Before(c)) < 1}) =
        IF Cardinality(Known) < 1 THEN Cardinality(Known) ELSE 1
  <2>1. 1 \in Nat
    OBVIOUS
  <2> QED BY <1>2, <1>3, <2>1, Ranked
<1>10. Known = {} <=> Cardinality(Known) = 0
  BY <1>2, FS_EmptySet
<1>11. Closest(target) \subseteq FindClosestNodes(target, k)
  <2>1. ASSUME NEW c \in Known, Cardinality(Before(c)) < 1 PROVE Cardinality(Before(c)) < k
    <3> DEFINE C == Cardinality(Before(c))
    <3>1. C \in Nat /\ C < 1
      BY <1>5, <2>1
    <3> HIDE DEF C
    <3>2. C < k
      BY <3>1
    <3> QED BY <3>2 DEF C
  <2> HIDE DEF Before
  <2> QED BY <1>6, <1>8, <2>1
<1> QED BY <1>2, <1>6, <1>7, <1>8, <1>9, <1>10, <1>11

LEMMA TableIsKnown == TableInv => TableKnows
<1> SUFFICES ASSUME TableInv PROVE TableKnows
  OBVIOUS
<1>1. \A c \in Known : heard[c.ID] = c.Addr
  BY KnownIs
<1>2. ASSUME NEW p \in Lengths
      PROVE  /\ IDsIn(kBuckets[p]) \subseteq HeardAt(p)
             /\ Cardinality(IDsIn(kBuckets[p])) = Len(kBuckets[p])
             /\ Len(kBuckets[p]) = IF Cardinality(HeardAt(p)) < K THEN Cardinality(HeardAt(p)) ELSE K
  <2>1. kBuckets[p] \in Seq(Nodes) /\ BucketKept(p)
    BY DEF TableInv
  <2>2. IDsIn(kBuckets[p]) \subseteq HeardAt(p)
    BY <2>1 DEF BucketKept, IDsIn, In
  <2> QED BY <2>1, <2>2, IDsCounted DEF BucketKept
<1>3. \A target \in NodeIDs :
        /\ Cardinality(Closest(target)) = IF Known = {} THEN 0 ELSE 1
        /\ Closest(target) \subseteq FindClosestNodes(target, K)
        /\ Cardinality(FindClosestNodes(target, K)) =
             IF Cardinality(Known) < K THEN Cardinality(Known) ELSE K
  BY ClosestFound, KademliaAssumption
<1> QED BY <1>1, <1>2, <1>3 DEF TableKnows, HeardAt, IDsIn

\* For IDs of any length and buckets of any size, a table knows what it was told of, K of a
\* bucket, and finds the K closest of what it knows to any target.
THEOREM TableFinds == KadSpec => []TableKnows
BY TableKept, TableIsKnown, PTL

\* The bucket of an ID that was heard of is not empty.
LEMMA HeardHasBucket ==
  ASSUME TableInv, NEW id \in DOMAIN heard
  PROVE  PrefixLen(localID, id) \in Lengths /\ kBuckets[PrefixLen(localID, id)] # << >>
<1>1. PICK p \in Lengths : p = PrefixLen(localID, id)
  BY FirstDifference DEF TableInv
<1>2. HeardAt(p) \in SUBSET DOMAIN heard /\ id \in HeardAt(p) /\ IsFiniteSet(DOMAIN heard)
  BY <1>1 DEF HeardAt, TableInv
<1>3. IsFiniteSet(HeardAt(p)) /\ HeardAt(p) # {}
  BY <1>2, FS_Subset
<1>4. Cardinality(HeardAt(p)) \in Nat /\ Cardinality(HeardAt(p)) # 0
  BY <1>3, FS_CardinalityType, FS_EmptySet
<1>5. Len(kBuckets[p]) # 0
  BY <1>4, KademliaAssumption DEF TableInv, BucketKept
<1> QED BY <1>1, <1>5

\* Whatever nodes a table is told of, with buckets of any size and IDs of any length, a
\* lookup that can get on does.
THEOREM LookupsGetOn == KadSpec => []RoutesOn
<1>1. ASSUME TableInv  PROVE  RoutesOn
  <2> SUFFICES ASSUME NEW target \in NodeIDs, NEW id \in DOMAIN heard,
                      PrefixLen(id, target) > PrefixLen(localID, target)
               PROVE  /\ Known # {}
                      /\ \A c \in Closest(target) :
                           PrefixLen(c.ID, target) > PrefixLen(localID, target)
    BY DEF RoutesOn
  <2> DEFINE b == PrefixLen(localID, target)
  <2>1. /\ localID \in NodeIDs /\ id \in NodeIDs
        /\ PrefixLen(localID, id) \in Lengths /\ kBuckets[PrefixLen(localID, id)] # << >>
    BY <1>1, HeardHasBucket DEF TableInv
  <2>2. /\ b \in Lengths /\ PrefixLen(id, target) \in Lengths
        /\ Share(localID, target, b) /\ Share(id, target, PrefixLen(id, target))
        /\ b = IDLength \/ localID[b + 1] # target[b + 1]
    BY <2>1, FirstDifference
  <2>3. b < IDLength /\ b + 1 \in 1 .. IDLength /\ b \in Nat
    BY <2>2, KademliaAssumption DEF Lengths
  <2>4. PrefixLen(localID, id) = b
    <3>1. Share(localID, id, b) /\ localID[b + 1] # id[b + 1]
      BY <2>2, <2>3, KademliaAssumption DEF Share, Lengths
    <3> QED  BY <2>1, <2>2, <2>3, <3>1, OnlyDifference
  <2> HIDE DEF b
  <2>5. kBuckets[b] \in Seq(Nodes) /\ 1 \in 1 .. Len(kBuckets[b])
    BY <1>1, <2>1, <2>2, <2>4 DEF TableInv
  <2> DEFINE d == kBuckets[b][1]
  <2>6. d \in Nodes /\ d.ID \in NodeIDs /\ d \in Known /\ PrefixLen(localID, d.ID) = b
    <3>1. d \in Nodes
      BY <2>5
    <3>2. d \in Known
      BY <2>2, <2>5 DEF Known, In
    <3>3. PrefixLen(localID, d.ID) = b
      BY <1>1, <2>2, <2>5 DEF TableInv, BucketKept, HeardAt
    <3> QED  BY <3>1, <3>2, <3>3 DEF Nodes
  <2> HIDE DEF d
  <2>7. \A i \in 1 .. b + 1 : d.ID[i] = target[i]
    <3>1. Share(localID, d.ID, b) /\ localID[b + 1] # d.ID[b + 1]
      BY <2>1, <2>3, <2>6, FirstDifference
    <3>2. /\ localID[b + 1] \in {0, 1} /\ d.ID[b + 1] \in {0, 1} /\ target[b + 1] \in {0, 1}
      BY <2>1, <2>3, <2>6 DEF NodeIDs
    <3>3. d.ID[b + 1] = target[b + 1]
      BY <2>2, <2>3, <3>1, <3>2
    <3> QED  BY <2>2, <2>3, <3>1, <3>3 DEF Share
  <2>8. ASSUME NEW c \in Closest(target)
        PROVE  PrefixLen(c.ID, target) > b
    <3> DEFINE q == PrefixLen(c.ID, target)
    <3>1. c \in Known /\ ~Nearer(d.ID, c.ID, target)
      BY <2>6, <2>8 DEF Closest
    <3>2. c.ID \in NodeIDs
      <4>1. PICK p \in Lengths : \E i \in 1 .. Len(kBuckets[p]) : c = kBuckets[p][i]
        BY <3>1 DEF Known, In
      <4>2. kBuckets[p] \in Seq(Nodes)
        BY <1>1 DEF TableInv
      <4>3. c \in Nodes
        BY <4>1, <4>2
      <4> QED  BY <4>3 DEF Nodes
    <3>3. /\ q \in Lengths /\ Share(c.ID, target, q)
          /\ q = IDLength \/ c.ID[q + 1] # target[q + 1]
      BY <3>2, FirstDifference
    <3> HIDE DEF q
    <3>4. ASSUME ~(q > b)  PROVE  FALSE
      <4>1. q + 1 \in 1 .. IDLength /\ q + 1 \in 1 .. b + 1 /\ q \in Nat /\ (q + 1) - 1 = q
        BY <2>2, <2>3, <3>3, <3>4, KademliaAssumption DEF Lengths
      <4>2. d.ID[q + 1] = target[q + 1] /\ d.ID[q + 1] # c.ID[q + 1]
        BY <2>7, <2>3, <3>3, <3>4, <4>1
      <4>3. Share(d.ID, c.ID, q)
        BY <2>3, <2>7, <3>3, <4>1 DEF Share
      <4> QED  BY <3>1, <4>1, <4>2, <4>3 DEF Nearer
    <3> QED  BY <2>2, <3>3, <3>4, KademliaAssumption DEF q, Lengths
  <2> QED  BY <2>6, <2>8 DEF b
<1> QED  BY <1>1, TableKept, PTL

-----------------------------------------------------------------------------
(* The Chord ring *)

\* There is more than one ID, and a finger starts at an ID, the first at the next one.
LEMMA RingSizeIs ==
  /\ RingSize \in Nat /\ RingSize >= 2
  /\ \A n \in Ids : \A i \in 0 .. MBit - 1 : Start(n, i) \in Ids
  /\ \A n \in Ids : Start(n, 0) = IF n + 1 = RingSize THEN 0 ELSE n + 1
<1>1. RingSize \in Nat /\ RingSize >= 2
  <2> DEFINE F == 1 .. MBit
             S == SUBSET F
             two == {{}, {1}}
  <2>1. MBit \in Nat /\ MBit >= 1
    BY ChordAssumption
  <2>2. IsFiniteSet(F) /\ Cardinality(F) = MBit
    BY <2>1, FS_Interval
  <2>3. two \in SUBSET S
    BY <2>1
  <2> HIDE DEF F
  <2>4. IsFiniteSet(S) /\ Cardinality(S) = RingSize
    BY <2>2, FS_SUBSET DEF RingSize
  <2>5. IsFiniteSet({{}}) /\ Cardinality({{}}) = 1
    BY FS_Singleton
  <2>6. two = {{}} \cup {{1}} /\ {1} \notin {{}}
    OBVIOUS
  <2>7. Cardinality(two) = 2
    <3> DEFINE Z == {{}}
               y == {1}
    <3>1. IsFiniteSet(Z) /\ Cardinality(Z) = 1 /\ y \notin Z /\ two = Z \cup {y}
      BY <2>5, <2>6
    <3> HIDE DEF Z, y, two
    <3> QED BY <3>1, FS_AddElement
  <2> HIDE DEF S, two
  <2>8. Cardinality(S) \in Nat /\ Cardinality(two) <= Cardinality(S)
    BY <2>3, <2>4, FS_CardinalityType, FS_Subset
  <2> QED BY <2>4, <2>7, <2>8
<1>2. ASSUME NEW n \in Ids, NEW i \in 0 .. MBit - 1 PROVE Start(n, i) \in Ids
  <2>1. 2 ^ i \in Int
    BY ChordAssumption
  <2>2. n + 2 ^ i \in Int
    BY <1>1, <2>1 DEF Ids
  <2> QED BY <1>1, <2>2 DEF Start, Ids
<1>3. ASSUME NEW n \in Ids PROVE Start(n, 0) = IF n + 1 = RingSize THEN 0 ELSE n + 1
  <2>1. 2 ^ 0 = 1
    OBVIOUS
  <2>2. Start(n, 0) = (n + 1) % RingSize
    BY <2>1 DEF Start
  <2>3. CASE n + 1 = RingSize
    BY <1>1, <2>2, <2>3
  <2>4. CASE n + 1 # RingSize
    <3>1. n + 1 \in 0 .. RingSize - 1
      BY <1>1, <2>4 DEF Ids
    <3> QED BY <1>1, <2>2, <2>4, <3>1
  <2> QED BY <2>3, <2>4
<1> QED BY <1>1, <1>2, <1>3

Tables == [NodeIds -> [0 .. MBit - 1 -> NodeIds]]

\* How far id lies after m; all round when they are one.
Far(m, id) == IF id > m THEN id - m ELSE id - m + RingSize

\* Whose successor the search returns: one whose arc id lies in, one alone, or one whose ID
\* is id and which has itself for a finger.
Lands(f, k, id) == \/ isInRange(id, k, f[k][0], TRUE) \/ f[k][0] = k
                   \/ k = id /\ \E i \in 0 .. MBit - 1 : f[k][i] = k

\* What the node c that m passes a search on to is: a finger nearer to id, or m at the end.
PassedOn(f, m, id, c) == /\ c = m \/ \E i \in 0 .. MBit - 1 : c = f[m][i]
                         /\ c # m => c \in NodeIds /\ Far(c, id) < Far(m, id)
                         /\ c = m => Lands(f, m, id)

\* What closestPrecedingNode returns is nearer, or the node itself.
LEMMA ClosestIs ==
  ASSUME NEW f \in Tables, NEW m \in NodeIds, NEW id \in Ids
  PROVE  PassedOn(f, m, id, closestPrecedingNode(f, m, id))
<1> DEFINE between == {i \in 0 .. MBit - 1 : isInRange(f[m][i], m, id, FALSE)}
           top == CHOOSE i \in between : \A j \in between : j <= i
           c == closestPrecedingNode(f, m, id)
<1>1. MBit \in Nat /\ MBit >= 1 /\ 0 \in 0 .. MBit - 1 /\ NodeIds \subseteq Ids
  BY ChordAssumption
<1>2. \A i \in 0 .. MBit - 1 : f[m][i] \in NodeIds /\ f[m][i] \in Ids
  BY <1>1 DEF Tables
<1>3. m \in Ids /\ \A a \in Ids : a \in 0 .. RingSize - 1
  BY <1>1 DEF Ids
<1>4. CASE between = {}
  <2>1. c = m
    BY <1>4 DEF closestPrecedingNode
  <2>2. ~isInRange(f[m][0], m, id, FALSE)
    BY <1>1, <1>4
  <2>3. isInRange(id, m, f[m][0], TRUE) \/ f[m][0] = m
    <3>1. PICK s \in Ids : s = f[m][0]
      BY <1>1, <1>2
    <3>2. s \in Int /\ m \in Int /\ id \in Int
      BY <1>3, RingSizeIs
    <3>3. ~isInRange(s, m, id, FALSE)
      BY <2>2, <3>1
    <3>4. isInRange(id, m, s, TRUE) \/ s = m
      BY <3>2, <3>3 DEF isInRange
    <3> QED BY <3>1, <3>4
  <2> QED BY <2>1, <2>3 DEF PassedOn, Lands
<1>5. CASE between # {}
  <2>1. \E i \in between : \A j \in between : j <= i
    <3> DEFINE T == {k \in 0 .. MBit - 1 : (MBit - 1) - k \in between}
    <3>1. T \in SUBSET Nat
      <4> HIDE DEF between
      <4> QED OBVIOUS
    <3>2. PICK i \in between : TRUE
      BY <1>5
    <3>3. (MBit - 1) - i \in T
      <4>1. i \in 0 .. MBit - 1
        OBVIOUS
      <4>2. (MBit - 1) - i \in 0 .. MBit - 1 /\ (MBit - 1) - ((MBit - 1) - i) = i
        BY <1>1, <4>1
      <4> QED BY <3>2, <4>2
    <3>4. PICK k \in T : \A l \in T : k <= l
      <4> HIDE DEF T
      <4> QED BY <3>1, <3>3, NatMin
    <3>5. ASSUME NEW j \in between PROVE j <= (MBit - 1) - k
      <4>1. j \in 0 .. MBit - 1
        OBVIOUS
      <4>2. (MBit - 1) - j \in 0 .. MBit - 1 /\ (MBit - 1) - ((MBit - 1) - j) = j
        BY <1>1, <4>1
      <4>3. (MBit - 1) - j \in T
        BY <4>2
      <4>4. k <= (MBit - 1) - j /\ k \in 0 .. MBit - 1
        BY <3>4, <4>3
      <4> QED BY <1>1, <4>1, <4>4
    <3> QED BY <3>4, <3>5
  <2>2. top \in between
    BY <2>1
  <2>3. c = f[m][top]
    BY <1>5 DEF closestPrecedingNode
  <2>4. top \in 0 .. MBit - 1 /\ isInRange(c, m, id, FALSE)
    BY <2>2, <2>3
  <2> HIDE DEF top, c, between
  <2>5. c \in NodeIds /\ c \in Ids
    BY <1>2, <2>3, <2>4
  <2>6. c # m => Far(c, id) < Far(m, id)
    BY <1>3, <2>4, <2>5, RingSizeIs DEF isInRange, Far
  <2>7. c = m => m = id
    BY <1>3, <2>4, <2>5, RingSizeIs DEF isInRange
  <2>8. c = m => m = id /\ f[m][top] = m
    BY <2>3, <2>7
  <2>9. PassedOn(f, m, id, c)
    BY <2>3, <2>4, <2>5, <2>6, <2>8 DEF PassedOn, Lands
  <2> QED BY <2>9 DEF c
<1> QED BY <1>4, <1>5

\* Where FindSuccessor stops.
FindEnds(f, m, id) == \/ isInRange(id, m, f[m][0], TRUE) \/ f[m][0] = m
                      \/ closestPrecedingNode(f, m, id) = m

LEMMA FarIs == ASSUME NEW m \in NodeIds, NEW id \in Ids PROVE Far(m, id) \in 1 .. RingSize
BY RingSizeIs, ChordAssumption DEF Ids, Far

\* The search comes nearer with each node it asks, so that there is a function that does
\* as FindSuccessor's body says.
LEMMA FindSteps ==
  ASSUME NEW f \in Tables, NEW m \in NodeIds, NEW id \in Ids
  PROVE  FindSuccessor(f, m, id) =
           IF FindEnds(f, m, id) THEN f[m][0]
           ELSE FindSuccessor(f, closestPrecedingNode(f, m, id), id)
<1> DEFINE near(k) == closestPrecedingNode(f, k, id)
           S == [NodeIds -> NodeIds]
           Body(h) == [k \in NodeIds |-> IF FindEnds(f, k, id) THEN f[k][0] ELSE h[near(k)]]
           last == RingSize + 1
           F == [p \in (1 .. last) \X S |-> Body(p[2])]
           same == [k \in NodeIds |-> k]
           From == CHOOSE h : h = Body(h)
<1>1. RingSize \in Nat /\ RingSize >= 2 /\ last \in Nat
  BY RingSizeIs
<1>2. \A k \in NodeIds : /\ f[k][0] \in NodeIds
                         /\ ~FindEnds(f, k, id) => near(k) \in NodeIds /\ Far(near(k), id) < Far(k, id)
  <2>1. ASSUME NEW k \in NodeIds PROVE f[k][0] \in NodeIds
    BY ChordAssumption DEF Tables
  <2>2. ASSUME NEW k \in NodeIds PROVE PassedOn(f, k, id, near(k))
    BY ClosestIs
  <2> HIDE DEF near
  <2>3. ASSUME NEW k \in NodeIds, ~FindEnds(f, k, id) PROVE near(k) # k
    BY <2>3 DEF FindEnds, near
  <2> QED BY <2>1, <2>2, <2>3 DEF PassedOn
<1> HIDE DEF near
<1>3. F \in [(1 .. last) \X S -> S] /\ same \in S
  <2>1. \A h \in S : Body(h) \in S
    BY <1>2
  <2> HIDE DEF S, last, Body
  <2>2. F \in [(1 .. last) \X S -> S]
    BY <2>1
  <2> QED BY <2>2 DEF S
<1>4. PICK g \in [0 .. last -> S] : g[0] = same /\ \A i \in 1 .. last : g[i] = F[<<i, g[i - 1]>>]
  <2> HIDE DEF F, same, S, last
  <2>1. Rec(last, S, same, F) # {}
    BY <1>1, <1>3, Recursion
  <2> QED BY <2>1 DEF Rec
<1>5. ASSUME NEW i \in 1 .. last PROVE g[i] = Body(g[i - 1]) /\ g[i] \in S
  <2>1. i - 1 \in 0 .. last /\ i \in 0 .. last
    BY <1>1
  <2> HIDE DEF S, last, Body
  <2>2. <<i, g[i - 1]>> \in (1 .. last) \X S
    BY <1>4, <2>1
  <2>3. F[<<i, g[i - 1]>>] = Body(g[i - 1])
    BY <2>2
  <2> QED BY <1>4, <2>1, <2>3
<1> DEFINE A == {i \in 0 .. RingSize : \A k \in NodeIds : Far(k, id) <= i => g[i + 1][k] = g[i][k]}
<1>6. \A i \in 0 .. RingSize : i \in A
  <2>1. 0 \in A
    <3>1. \A k \in NodeIds : Far(k, id) \in 1 .. RingSize
      BY FarIs
    <3> QED BY <1>1, <3>1
  <2>2. ASSUME NEW i \in 1 .. RingSize, i - 1 \in A PROVE i \in A
    <3> SUFFICES ASSUME NEW k \in NodeIds, Far(k, id) <= i PROVE g[i + 1][k] = g[i][k]
      BY <1>1
    <3>1. /\ i \in 1 .. last /\ i + 1 \in 1 .. last /\ (i + 1) - 1 = i /\ (i - 1) + 1 = i
      BY <1>1
    <3>2. g[i + 1] = Body(g[i]) /\ g[i] = Body(g[i - 1])
      <4> HIDE DEF Body, last, S, A
      <4> QED BY <1>5, <3>1
    <3>3. /\ g[i + 1][k] = IF FindEnds(f, k, id) THEN f[k][0] ELSE g[i][near(k)]
          /\ g[i][k] = IF FindEnds(f, k, id) THEN f[k][0] ELSE g[i - 1][near(k)]
      <4>1. \A h : Body(h)[k] = IF FindEnds(f, k, id) THEN f[k][0] ELSE h[near(k)]
        OBVIOUS
      <4> HIDE DEF Body
      <4> QED BY <3>2, <4>1
    <3>4. CASE ~FindEnds(f, k, id)
      <4>1. near(k) \in NodeIds /\ Far(near(k), id) <= i - 1
        <5>1. Far(near(k), id) \in 1 .. RingSize /\ Far(k, id) \in 1 .. RingSize
          BY <1>2, <3>4, FarIs
        <5> QED BY <1>1, <1>2, <3>4, <5>1
      <4>2. g[i][near(k)] = g[i - 1][near(k)]
        BY <2>2, <3>1, <4>1
      <4> QED BY <3>3, <4>2
    <3> QED BY <3>3, <3>4
  <2> HIDE DEF A
  <2> QED BY <1>1, <2>1, <2>2, ByInduction
<1>7. g[RingSize] = Body(g[RingSize])
  <2>1. RingSize \in 0 .. RingSize /\ RingSize \in 1 .. last /\ last \in 1 .. last /\ last - 1 = RingSize
    BY <1>1
  <2>2. g[last] = Body(g[RingSize]) /\ g[last] \in S /\ g[RingSize] \in S
    <3> HIDE DEF Body, last, S
    <3> QED BY <1>5, <2>1
  <2>3. \A k \in NodeIds : g[last][k] = g[RingSize][k]
    <3>1. \A k \in NodeIds : Far(k, id) <= RingSize
      BY <1>1, FarIs
    <3>2. RingSize \in A
      BY <1>6, <2>1
    <3> QED BY <3>1, <3>2
  <2>4. g[last] = g[RingSize]
    <3> HIDE DEF last, Body
    <3>1. /\ g[last] = [k \in NodeIds |-> g[last][k]]
          /\ g[RingSize] = [k \in NodeIds |-> g[RingSize][k]]
      BY <2>2
    <3> QED BY <2>3, <3>1
  <2> HIDE DEF Body, last, S, A
  <2> QED BY <2>2, <2>4
<1>8. From = Body(From)
  <2> HIDE DEF Body
  <2> QED BY <1>7
<1>9. \A k \in NodeIds : FindSuccessor(f, k, id) = From[k]
  BY DEF FindSuccessor, FindEnds, Successor, near
<1>10. From[m] = IF FindEnds(f, m, id) THEN f[m][0] ELSE From[near(m)]
  <2>1. Body(From)[m] = IF FindEnds(f, m, id) THEN f[m][0] ELSE From[near(m)]
    OBVIOUS
  <2> HIDE DEF Body, From
  <2> QED BY <1>8, <2>1
<1> HIDE DEF From, Body
<1> QED BY <1>2, <1>9, <1>10 DEF near

Within(f, M) == \A k \in M : \A i \in 0 .. MBit - 1 : f[k][i] \in M

LEMMA FindLands ==
  ASSUME NEW f \in Tables, NEW M \in SUBSET NodeIds, Within(f, M), NEW n \in M, NEW id \in Ids
  PROVE  /\ \E k \in M : Lands(f, k, id) /\ FindSuccessor(f, n, id) = f[k][0]
         /\ FindSuccessor(f, n, id) \in M
<1> DEFINE Good(m) == \E k \in M : Lands(f, k, id) /\ FindSuccessor(f, m, id) = f[k][0]
           A == {i \in 0 .. RingSize : \A m \in M : Far(m, id) <= i => Good(m)}
<1>1. RingSize \in Nat
  BY RingSizeIs
<1>2. \A m \in M : m \in NodeIds /\ Far(m, id) \in 1 .. RingSize
  BY FarIs
<1>3. \A i \in 0 .. RingSize : i \in A
  <2>1. 0 \in A
    BY <1>1, <1>2
  <2>2. ASSUME NEW i \in 1 .. RingSize, i - 1 \in A PROVE i \in A
    <3> SUFFICES ASSUME NEW m \in M, Far(m, id) <= i PROVE Good(m)
      BY <1>1
    <3> DEFINE c == closestPrecedingNode(f, m, id)
    <3>1. /\ c = m \/ \E j \in 0 .. MBit - 1 : c = f[m][j]
          /\ c # m => c \in NodeIds /\ Far(c, id) < Far(m, id)
          /\ c = m => Lands(f, m, id)
      <4>1. PassedOn(f, m, id, c)
        BY <1>2, ClosestIs
      <4> HIDE DEF c
      <4> QED BY <4>1 DEF PassedOn
    <3>2. FindSuccessor(f, m, id) = IF FindEnds(f, m, id) THEN f[m][0] ELSE FindSuccessor(f, c, id)
      BY <1>2, FindSteps
    <3>3. CASE FindEnds(f, m, id)
      <4>1. Lands(f, m, id)
        BY <3>1, <3>3 DEF FindEnds, Lands
      <4> HIDE DEF c
      <4> QED BY <3>2, <3>3, <4>1
    <3>4. CASE ~FindEnds(f, m, id)
      <4>1. c # m
        BY <3>4 DEF FindEnds
      <4> HIDE DEF c
      <4>2. c \in M
        BY <3>1, <4>1 DEF Within
      <4>3. Far(c, id) <= i - 1
        BY <1>2, <3>1, <4>1, <4>2
      <4>4. Good(c)
        BY <2>2, <4>2, <4>3
      <4> QED BY <3>2, <3>4, <4>4
    <3> QED BY <3>3, <3>4
  <2> HIDE DEF A
  <2> QED BY <1>1, <2>1, <2>2, ByInduction
<1>4. Good(n)
  <2>1. RingSize \in 0 .. RingSize /\ Far(n, id) <= RingSize
    BY <1>1, <1>2
  <2>2. RingSize \in A
    BY <1>3, <2>1
  <2> HIDE DEF Good
  <2> QED BY <2>1, <2>2
<1>5. \A k \in M : f[k][0] \in M
  BY ChordAssumption DEF Within
<1> QED BY <1>4, <1>5

\* The table of a node that joins: all are nodes of the ring, the first what the search returns.
LEMMA FingersAre ==
  ASSUME NEW f \in Tables, NEW M \in SUBSET NodeIds, Within(f, M), NEW nPrime \in M, NEW n \in NodeIds
  PROVE  /\ Fingers(f, n, nPrime) \in [0 .. MBit - 1 -> M]
         /\ Fingers(f, n, nPrime)[0] = FindSuccessor(f, nPrime, Start(n, 0))
<1> DEFINE top == MBit - 1
           found(i) == FindSuccessor(f, nPrime, Start(n, i))
           F == [p \in (1 .. top) \X M |->
                   IF isInRange(Start(n, p[1]), n, p[2], FALSE) THEN p[2] ELSE found(p[1])]
           Body(h) == [i \in 0 .. MBit - 1 |->
                         IF i > 0 /\ isInRange(Start(n, i), n, h[i - 1], FALSE) THEN h[i - 1]
                         ELSE FindSuccessor(f, nPrime, Start(n, i))]
           Table == CHOOSE h : h = Body(h)
<1>1. top \in Nat /\ 0 \in 0 .. top /\ n \in Ids
  BY ChordAssumption
<1>2. \A i \in 0 .. top : found(i) \in M
  BY <1>1, RingSizeIs, FindLands
<1> HIDE DEF found
<1>3. F \in [(1 .. top) \X M -> M] /\ found(0) \in M
  <2>1. \A i \in 1 .. top : i \in 0 .. top
    BY <1>1
  <2> HIDE DEF top
  <2>2. found(0) \in M /\ \A i \in 1 .. top : found(i) \in M
    BY <1>1, <1>2, <2>1
  <2> QED BY <2>2
<1>4. PICK g \in [0 .. top -> M] : g[0] = found(0) /\ \A i \in 1 .. top : g[i] = F[<<i, g[i - 1]>>]
  <2> HIDE DEF F, top
  <2>1. Rec(top, M, found(0), F) # {}
    BY <1>1, <1>3, Recursion
  <2> QED BY <2>1 DEF Rec
<1>5. ASSUME NEW i \in 1 .. top
      PROVE  g[i] = IF isInRange(Start(n, i), n, g[i - 1], FALSE) THEN g[i - 1] ELSE found(i)
  <2>1. i - 1 \in 0 .. top
    BY <1>1
  <2>2. <<i, g[i - 1]>> \in (1 .. top) \X M
    BY <1>4, <2>1
  <2> QED BY <1>4, <2>2
<1>6. g = Body(g)
  <2>1. \A i \in 0 .. top : (i = 0 /\ ~(i > 0)) \/ (i \in 1 .. top /\ i > 0)
    BY <1>1
  <2>2. \A i \in 0 .. top : g[i] = IF i > 0 /\ isInRange(Start(n, i), n, g[i - 1], FALSE) THEN g[i - 1]
                                   ELSE found(i)
    <3> HIDE DEF F, top
    <3> QED BY <1>4, <1>5, <2>1
  <2>3. g = [i \in 0 .. top |-> g[i]]
    BY <1>4
  <2> QED BY <2>2, <2>3 DEF found
<1>7. Table = Body(Table)
  <2> HIDE DEF Body
  <2> QED BY <1>6
<1>8. Fingers(f, n, nPrime) = Table
  BY DEF Fingers
<1>9. \A i \in 0 .. top : Table[i] = IF i > 0 /\ isInRange(Start(n, i), n, Table[i - 1], FALSE)
                                     THEN Table[i - 1] ELSE found(i)
  <2> HIDE DEF Table
  <2> QED BY <1>7 DEF found
<1>10. DOMAIN Table = 0 .. top /\ Table = [i \in 0 .. top |-> Table[i]]
  <2> HIDE DEF Table
  <2> QED BY <1>7
<1> HIDE DEF Table, Body, F, top
<1>14. Table[0] = found(0)
  <2>1. ~(0 > 0)
    OBVIOUS
  <2> QED BY <1>1, <1>9, <2>1
<1> DEFINE A == {i \in 0 .. top : Table[i] \in M}
<1>11. \A i \in 0 .. top : i \in A
  <2>1. 0 \in A
    BY <1>1, <1>3, <1>14
  <2>2. ASSUME NEW i \in 1 .. top, i - 1 \in A PROVE i \in A
    <3>1. i \in 0 .. top
      BY <1>1
    <3> QED BY <1>2, <1>9, <2>2, <3>1
  <2> HIDE DEF A
  <2> QED BY <1>1, <2>1, <2>2, ByInduction
<1>12. Table \in [0 .. top -> M]
  BY <1>10, <1>11
<1>13. Table[0] = found(0)
  BY <1>14
<1> QED BY <1>8, <1>12, <1>13 DEF top, found

\* How far a lies behind m0, a node that is in the ring from the start.
Rise(m0, a) == IF a >= m0 THEN a - m0 ELSE a - m0 + RingSize

\* The inductive invariant: every successor leads onward, to m0 at the end.  Only the node
\* with the ID before m0 may have passed m0 over when it joined, and then nobody knows it.
Onward(m0, n) == Successor(fingers, n) = m0 \/ Rise(m0, Successor(fingers, n)) > Rise(m0, n)

Jumps(m0, n) == /\ Rise(m0, n) = RingSize - 1 /\ predecessor[m0] # n
                /\ \A k \in members : Successor(fingers, k) # n
                /\ \A i \in 0 .. MBit - 1 : fingers[n][i] # n

AllOnward(m0) == m0 \in members /\ \A n \in members : Onward(m0, n) \/ Jumps(m0, n)

ChordTypeOK ==
  /\ members \in SUBSET NodeIds /\ fingers \in Tables /\ Within(fingers, members)
  /\ predecessor \in [NodeIds -> NodeIds \cup {Nil}]
  /\ \A n \in members : predecessor[n] \in members \cup {Nil}

ChordInv == ChordTypeOK /\ \E m0 \in members : AllOnward(m0)

\* What a successor that leads onward leaves between it and its node.
LEMMA RiseIs ==
  ASSUME NEW m0 \in Ids, NEW a \in Ids
  PROVE  /\ Rise(m0, a) \in 0 .. RingSize - 1
         /\ Rise(m0, a) = 0 <=> a = m0
         /\ \A b \in Ids : Rise(m0, a) = Rise(m0, b) <=> a = b
BY RingSizeIs DEF Rise, Ids

LEMMA Between ==
  ASSUME NEW m0 \in Ids, NEW n \in Ids, NEW s \in Ids, s # n, NEW x \in Ids
  PROVE  /\ s = m0 \/ Rise(m0, s) > Rise(m0, n) =>
              (isInRange(x, n, s, FALSE) <=>
                 Rise(m0, x) > Rise(m0, n) /\ (s = m0 \/ Rise(m0, x) < Rise(m0, s)))
         /\ ~(s = m0 \/ Rise(m0, s) > Rise(m0, n)) =>
              (isInRange(x, n, s, FALSE) <=>
                 Rise(m0, x) > Rise(m0, n) \/ Rise(m0, x) < Rise(m0, s))
BY RingSizeIs DEF Rise, Ids, isInRange

LEMMA ChordStarts == ChordInit => ChordInv
<1> SUFFICES ASSUME ChordInit PROVE ChordInv
  OBVIOUS
<1>1. PICK n \in NodeIds : /\ members = {n}
                           /\ fingers = [m \in NodeIds |-> [i \in 0 .. MBit - 1 |-> m]]
                           /\ predecessor = [m \in NodeIds |-> Nil]
  BY DEF ChordInit
<1>2. Successor(fingers, n) = n
  BY <1>1, ChordAssumption DEF Successor
<1>3. AllOnward(n)
  BY <1>1, <1>2 DEF AllOnward, Onward
<1>4. ChordTypeOK
  BY <1>1 DEF ChordTypeOK, Within, Tables
<1> QED BY <1>1, <1>3, <1>4 DEF ChordInv

\* A node that joins before m0, or before the successor of another, is behind that other.
LEMMA JoinKeeps ==
  ASSUME ChordTypeOK, NEW m0 \in members, AllOnward(m0), NEW n \in NodeIds, NEW nPrime \in members,
         InitFingerTable(n, nPrime)
  PROVE  ChordTypeOK' /\ AllOnward(m0)'
<1> DEFINE new == Fingers(fingers, n, nPrime)
           id == Start(n, 0)
<1>1. /\ members' = members \cup {n} /\ n \notin members
      /\ fingers' = [fingers EXCEPT ![n] = new]
      /\ predecessor' = [predecessor EXCEPT ![n] = predecessor[Successor(fingers', n)]]
  BY DEF InitFingerTable
<1>2. /\ members \in SUBSET NodeIds /\ fingers \in Tables /\ Within(fingers, members)
      /\ predecessor \in [NodeIds -> NodeIds \cup {Nil}]
      /\ \A v \in members : predecessor[v] \in members \cup {Nil}
  BY DEF ChordTypeOK
<1>3. /\ new \in [0 .. MBit - 1 -> members] /\ new[0] = FindSuccessor(fingers, nPrime, id)
      /\ 0 \in 0 .. MBit - 1
  BY <1>2, FingersAre, ChordAssumption
<1>4. n \in Ids /\ id \in Ids /\ m0 \in Ids /\ members \subseteq Ids /\ Nil # n
  BY <1>2, <1>3, RingSizeIs, ChordAssumption
<1>5. PICK k \in members : Lands(fingers, k, id) /\ new[0] = fingers[k][0]
  <2> HIDE DEF new, id
  <2>1. \E k \in members : /\ Lands(fingers, k, id)
                           /\ FindSuccessor(fingers, nPrime, id) = fingers[k][0]
    BY <1>2, <1>4, FindLands
  <2> QED BY <1>3, <2>1
<1> HIDE DEF new, id
<1>6. fingers'[n] = new /\ \A v \in members : fingers'[v] = fingers[v]
  <2>1. n \in DOMAIN fingers
    BY <1>2 DEF Tables
  <2> QED BY <1>1, <2>1
<1> DEFINE y == new[0]
<1>7. /\ Successor(fingers', n) = y /\ y \in members /\ y = Successor(fingers, k)
      /\ \A v \in members : Successor(fingers', v) = Successor(fingers, v)
  BY <1>3, <1>5, <1>6 DEF Successor
<1>8. predecessor'[n] = predecessor[y] /\ \A v \in members : predecessor'[v] = predecessor[v]
  BY <1>1, <1>2, <1>7
<1> HIDE DEF y
<1>9. ChordTypeOK'
  <2>1. fingers' \in Tables
    BY <1>1, <1>2, <1>3 DEF Tables
  <2>2. Within(fingers', members')
    <3> SUFFICES ASSUME NEW v \in members', NEW i \in 0 .. MBit - 1
                 PROVE  fingers'[v][i] \in members'
      BY DEF Within
    <3>1. CASE v = n
      <4>1. fingers'[v] = new /\ new[i] \in members
        BY <1>3, <1>6, <3>1
      <4> QED BY <1>1, <4>1
    <3>2. CASE v # n
      BY <1>1, <1>2, <1>6, <3>2 DEF Within
    <3> QED BY <3>1, <3>2
  <2>3. predecessor' \in [NodeIds -> NodeIds \cup {Nil}]
    BY <1>1, <1>2, <1>7
  <2>4. \A v \in members' : predecessor'[v] \in members' \cup {Nil}
    BY <1>1, <1>2, <1>7, <1>8
  <2> QED BY <1>1, <1>2, <2>1, <2>2, <2>3, <2>4 DEF ChordTypeOK
<1>10. ASSUME NEW v \in members PROVE Onward(m0, v)' \/ Jumps(m0, v)'
  <2>1. CASE Onward(m0, v)
    BY <1>7, <2>1 DEF Onward
  <2>2. CASE Jumps(m0, v)
    <3>1. \A j \in members' : Successor(fingers', j) # v
      BY <1>1, <1>7, <2>2 DEF Jumps
    <3> QED BY <1>6, <1>8, <2>2, <3>1 DEF Jumps
  <2> QED BY <2>1, <2>2 DEF AllOnward
<1>11. Onward(m0, n)' \/ Jumps(m0, n)'
  <2>1. /\ id = IF n + 1 = RingSize THEN 0 ELSE n + 1
        /\ n \in Ids /\ k \in Ids /\ y \in Ids /\ k # n /\ y # n
    BY <1>1, <1>4, <1>7, RingSizeIs DEF id
  <2>2. Onward(m0, k) \/ (Rise(m0, k) = RingSize - 1 /\ y # k /\ \A i \in 0 .. MBit - 1 : fingers[k][i] # k)
    BY <1>7 DEF AllOnward, Jumps
  <2>3. Onward(m0, n)' <=> y = m0 \/ Rise(m0, y) > Rise(m0, n)
    BY <1>7 DEF Onward
  <2>4. Onward(m0, k) <=> y = m0 \/ Rise(m0, y) > Rise(m0, k)
    BY <1>7 DEF Onward
  <2>5. CASE y = k
    <3>1. y = m0
      BY <2>2, <2>4, <2>5, <1>4, RiseIs
    <3> QED BY <2>3, <3>1
  <2>6. CASE y # k /\ isInRange(id, k, y, TRUE)
    <3>1. y = m0 \/ Rise(m0, y) > Rise(m0, n)
      BY <1>4, <2>1, <2>2, <2>4, <2>6, RingSizeIs DEF Rise, Ids, isInRange
    <3> QED BY <2>3, <3>1
  <2>7. CASE k = id /\ \E i \in 0 .. MBit - 1 : fingers[k][i] = k
    <3>1. CASE k # m0
      <4>1. y = m0 \/ Rise(m0, y) > Rise(m0, n)
        BY <1>4, <2>1, <2>2, <2>4, <2>7, <3>1, RingSizeIs DEF Rise, Ids
      <4> QED BY <2>3, <4>1
    <3>2. CASE k = m0
      <4>1. Rise(m0, n) = RingSize - 1
        BY <1>4, <2>1, <2>7, <3>2, RingSizeIs DEF Rise, Ids
      <4>2. predecessor'[m0] # n
        BY <1>1, <1>2, <1>4, <1>8
      <4>3. \A j \in members' : Successor(fingers', j) # n
        <5>1. \A j \in members : Successor(fingers, j) \in members
          BY <1>2, <1>3 DEF Within, Successor
        <5> QED BY <1>1, <1>7, <5>1
      <4>4. \A i \in 0 .. MBit - 1 : fingers'[n][i] # n
        <5>1. fingers'[n] = new /\ n \notin members
          BY <1>1, <1>6
        <5>2. \A i \in 0 .. MBit - 1 : new[i] \in members
          BY <1>3
        <5> QED BY <5>1, <5>2
      <4> QED BY <4>1, <4>2, <4>3, <4>4 DEF Jumps
    <3> QED BY <3>1, <3>2
  <2> QED BY <1>5, <1>7, <2>5, <2>6, <2>7 DEF Lands, Successor
<1> QED BY <1>1, <1>9, <1>10, <1>11 DEF AllOnward

\* The ID after n comes first on the way from n to any other.
LEMMA NextIdIsIn ==
  ASSUME NEW n \in Ids, NEW f \in Ids, f # n, RingSize \in Nat
  PROVE  isInRange(IF n + 1 = RingSize THEN 0 ELSE n + 1, n, f, TRUE)
  BY DEF Ids, isInRange

\* FixFingers leaves a node's successor, which owns the next ID.
LEMMA FixKeeps ==
  ASSUME ChordTypeOK, NEW m0 \in members, AllOnward(m0), NEW n \in NodeIds, NEW i \in 0 .. MBit - 1,
         FixFinger(n, i)
  PROVE  ChordTypeOK' /\ AllOnward(m0)'
<1> DEFINE x == FindSuccessor(fingers, n, Start(n, i))
<1>1. /\ n \in members /\ members' = members /\ predecessor' = predecessor
      /\ fingers' = [fingers EXCEPT ![n][i] = x]
  BY DEF FixFinger
<1>2. /\ members \in SUBSET NodeIds /\ fingers \in Tables /\ Within(fingers, members)
      /\ n \in Ids /\ Start(n, i) \in Ids /\ 0 \in 0 .. MBit - 1
  BY ChordAssumption, RingSizeIs DEF ChordTypeOK
<1>3. PICK k \in members : x = fingers[k][0]
  BY <1>1, <1>2, FindLands
<1>4. x \in members /\ x \in NodeIds
  BY <1>1, <1>2, FindLands
<1>5. i = 0 => x = fingers[n][0]
  <2>1. fingers[n][0] \in Ids
    BY <1>2, ChordAssumption DEF Tables
  <2>2. isInRange(Start(n, 0), n, fingers[n][0], TRUE) \/ fingers[n][0] = n
    BY <1>2, <2>1, RingSizeIs, NextIdIsIn
  <2> QED BY <1>2, <2>2, FindSteps DEF FindEnds
<1> HIDE DEF x
<1>6. /\ \A v \in NodeIds : \A j \in 0 .. MBit - 1 :
           fingers'[v][j] = IF v = n /\ j = i THEN x ELSE fingers[v][j]
      /\ fingers' \in Tables
  <2>1. /\ n \in DOMAIN fingers
        /\ \A v \in NodeIds : fingers[v] \in [0 .. MBit - 1 -> NodeIds]
    BY <1>2 DEF Tables
  <2>2. fingers' = [fingers EXCEPT ![n] = [fingers[n] EXCEPT ![i] = x]]
    BY <1>1, <2>1
  <2>3. fingers' \in Tables
    BY <1>2, <1>4, <2>1, <2>2 DEF Tables
  <2> QED BY <2>1, <2>2, <2>3, <1>2 DEF Tables
<1>7. \A v \in members : Successor(fingers', v) = Successor(fingers, v)
  BY <1>2, <1>5, <1>6 DEF Successor
<1>8. Within(fingers', members')
  BY <1>1, <1>2, <1>4, <1>6 DEF Within
<1>9. ASSUME NEW v \in members PROVE Onward(m0, v)' \/ Jumps(m0, v)'
  <2>1. CASE Onward(m0, v)
    BY <1>7, <2>1 DEF Onward
  <2>2. CASE Jumps(m0, v)
    <3>1. x # v
      BY <1>3, <2>2 DEF Jumps, Successor
    <3>2. \A j \in 0 .. MBit - 1 : fingers'[v][j] # v
      BY <1>2, <1>6, <2>2, <3>1 DEF Jumps
    <3> QED BY <1>1, <1>7, <2>2, <3>2 DEF Jumps
  <2> QED BY <2>1, <2>2 DEF AllOnward
<1> QED BY <1>1, <1>6, <1>8, <1>9 DEF ChordTypeOK, AllOnward

\* A node that stabilizes takes a node within its arc, which is not the one that jumps.
LEMMA StabilizeKeeps ==
  ASSUME ChordTypeOK, NEW m0 \in members, AllOnward(m0), NEW n \in NodeIds, Stabilize(n)
  PROVE  ChordTypeOK' /\ AllOnward(m0)'
<1> DEFINE succ == Successor(fingers, n)
           x == predecessor[succ]
           moves == x # Nil /\ (n = succ \/ isInRange(x, n, succ, FALSE))
           next == IF moves THEN x ELSE succ
<1>1. /\ n \in members /\ members' = members
      /\ fingers' = IF moves THEN [fingers EXCEPT ![n][0] = x] ELSE fingers
      /\ predecessor' = Notified(predecessor, Successor(fingers', n), n)
  BY DEF Stabilize
<1>2. /\ members \in SUBSET NodeIds /\ fingers \in Tables /\ Within(fingers, members)
      /\ predecessor \in [NodeIds -> NodeIds \cup {Nil}]
      /\ \A v \in members : predecessor[v] \in members \cup {Nil}
      /\ 0 \in 0 .. MBit - 1
  BY ChordAssumption DEF ChordTypeOK
<1>3. succ \in members /\ x \in members \cup {Nil} /\ next \in members
  BY <1>1, <1>2 DEF Within, Successor
<1> HIDE DEF succ, x, moves
<1>4. /\ \A v \in NodeIds : \A j \in 0 .. MBit - 1 :
           fingers'[v][j] = IF v = n /\ j = 0 THEN next ELSE fingers[v][j]
      /\ fingers' \in Tables
  <2>1. CASE moves
    <3>1. /\ n \in DOMAIN fingers
          /\ \A v \in NodeIds : fingers[v] \in [0 .. MBit - 1 -> NodeIds]
      BY <1>2 DEF Tables
    <3>2. fingers' = [fingers EXCEPT ![n] = [fingers[n] EXCEPT ![0] = x]] /\ next = x
      BY <1>1, <2>1, <3>1
    <3>3. x \in NodeIds
      BY <1>2, <1>3, <3>2
    <3>4. fingers' \in Tables
      BY <1>2, <3>1, <3>2, <3>3 DEF Tables
    <3> QED BY <3>1, <3>2, <3>4, <1>2 DEF Tables
  <2>2. CASE ~moves
    BY <1>1, <1>2, <2>2 DEF succ, Successor
  <2> QED BY <2>1, <2>2
<1>5. /\ Successor(fingers', n) = next
      /\ \A v \in members : v # n => Successor(fingers', v) = Successor(fingers, v)
  BY <1>2, <1>4 DEF Successor
<1>6. /\ predecessor' \in [NodeIds -> NodeIds \cup {Nil}]
      /\ \A v \in NodeIds : predecessor'[v] = predecessor[v] \/ (v = next /\ predecessor'[v] = n)
  BY <1>1, <1>2, <1>5 DEF Notified
<1> HIDE DEF next
<1>7. ChordTypeOK'
  <2>1. Within(fingers', members')
    BY <1>1, <1>2, <1>3, <1>4 DEF Within
  <2>2. \A v \in members' : predecessor'[v] \in members' \cup {Nil}
    BY <1>1, <1>2, <1>6
  <2> QED BY <1>1, <1>2, <1>4, <1>6, <2>1, <2>2 DEF ChordTypeOK
<1>8. /\ n \in Ids /\ succ \in Ids /\ m0 \in Ids /\ members \subseteq Ids /\ RingSize \in Nat
      /\ moves => x \in members /\ x \in Ids /\ next = x
      /\ ~moves => next = succ
  BY <1>1, <1>2, <1>3, ChordAssumption, RingSizeIs DEF moves, next
<1>9. Onward(m0, n) <=> succ = m0 \/ Rise(m0, succ) > Rise(m0, n)
  BY DEF Onward, succ
<1>10. ASSUME NEW v \in members, v # n, Jumps(m0, v) PROVE next # v
  <2>1. CASE ~moves
    BY <1>1, <1>8, <1>10, <2>1 DEF Jumps, succ
  <2>2. CASE moves
    <3> SUFFICES ASSUME x = v PROVE FALSE
      BY <1>8, <2>2
    <3>1. Rise(m0, v) = RingSize - 1 /\ predecessor[m0] # v /\ v \in Ids
      BY <1>8, <1>10 DEF Jumps
    <3>2. Onward(m0, n)
      <4>1. Rise(m0, n) # Rise(m0, v)
        BY <1>8, <1>10, <3>1, RiseIs
      <4>2. ~Jumps(m0, n)
        BY <3>1, <4>1 DEF Jumps
      <4> QED BY <1>1, <4>2 DEF AllOnward
    <3>3. succ # m0
      BY <3>1 DEF x
    <3>4. succ # n /\ Rise(m0, succ) > Rise(m0, n)
      BY <1>8, <1>9, <3>2, <3>3, RiseIs
    <3>5. isInRange(v, n, succ, FALSE)
      BY <2>2, <3>4 DEF moves
    <3>6. Rise(m0, v) < Rise(m0, succ)
      BY <1>8, <3>1, <3>3, <3>4, <3>5, Between
    <3>7. Rise(m0, succ) \in 0 .. RingSize - 1
      BY <1>8, RiseIs
    <3> QED BY <1>8, <3>1, <3>6, <3>7
  <2> QED BY <2>1, <2>2
<1>11. ASSUME NEW v \in members, v # n PROVE Onward(m0, v)' \/ Jumps(m0, v)'
  <2>1. CASE Onward(m0, v)
    BY <1>5, <1>11, <2>1 DEF Onward
  <2>2. CASE Jumps(m0, v)
    <3>1. \A j \in members' : Successor(fingers', j) # v
      BY <1>1, <1>5, <1>10, <1>11, <2>2 DEF Jumps
    <3>2. predecessor'[m0] # v
      BY <1>2, <1>6, <1>11, <2>2 DEF Jumps
    <3>3. \A i \in 0 .. MBit - 1 : fingers'[v][i] # v
      BY <1>2, <1>4, <1>11, <2>2 DEF Jumps
    <3> QED BY <2>2, <3>1, <3>2, <3>3 DEF Jumps
  <2> QED BY <2>1, <2>2 DEF AllOnward
<1>12. Onward(m0, n)' \/ Jumps(m0, n)'
  <2>1. Onward(m0, n)' <=> next = m0 \/ Rise(m0, next) > Rise(m0, n)
    BY <1>5 DEF Onward
  <2>2. CASE Onward(m0, n)
    <3>1. CASE ~moves
      BY <1>8, <1>9, <2>1, <2>2, <3>1
    <3>2. CASE moves /\ n = succ
      <4>1. n = m0 /\ Rise(m0, n) = 0
        BY <1>8, <1>9, <2>2, <3>2, RiseIs
      <4>2. x = m0 \/ Rise(m0, x) > 0
        BY <1>8, <3>2, RiseIs
      <4> QED BY <1>8, <2>1, <3>2, <4>1, <4>2
    <3>3. CASE moves /\ n # succ
      <4>1. isInRange(x, n, succ, FALSE)
        BY <3>3 DEF moves
      <4>2. Rise(m0, x) > Rise(m0, n)
        BY <1>8, <1>9, <2>2, <3>3, <4>1, Between
      <4> QED BY <1>8, <2>1, <3>3, <4>2
    <3> QED BY <3>1, <3>2, <3>3
  <2>3. CASE ~Onward(m0, n) /\ next # m0
    <3>1. Jumps(m0, n)
      BY <1>1, <2>3 DEF AllOnward
    <3>2. n # succ
      BY <1>1, <3>1 DEF Jumps, succ
    <3>3. next # n
      <4>1. CASE moves
        <5>1. isInRange(x, n, succ, FALSE)
          BY <3>2, <4>1 DEF moves
        <5>2. x # n
          BY <1>8, <3>2, <4>1, <5>1 DEF isInRange, Ids
        <5> QED BY <1>8, <4>1, <5>2
      <4> QED BY <1>8, <3>2, <4>1
    <3>4. \A j \in members' : Successor(fingers', j) # n
      BY <1>1, <1>5, <3>1, <3>3 DEF Jumps
    <3>5. predecessor'[m0] # n
      BY <1>2, <1>6, <2>3, <3>1 DEF Jumps
    <3>6. \A i \in 0 .. MBit - 1 : fingers'[n][i] # n
      BY <1>2, <1>4, <3>1, <3>3 DEF Jumps
    <3> QED BY <3>1, <3>4, <3>5, <3>6 DEF Jumps
  <2> QED BY <2>1, <2>2, <2>3
<1> QED BY <1>1, <1>7, <1>11, <1>12 DEF AllOnward

LEMMA ChordKept == ChordInit /\ [][ChordNext]_chordVars => []ChordInv
<1>1. ASSUME ChordInv, ChordNext PROVE ChordInv'
  <2>1. PICK m0 \in members : AllOnward(m0)
    BY <1>1 DEF ChordInv
  <2>2. ChordTypeOK
    BY <1>1 DEF ChordInv
  <2>3. ChordTypeOK' /\ AllOnward(m0)'
    <3>1. PICK n \in NodeIds : Maintain(n) \/ \E nPrime \in members : InitFingerTable(n, nPrime)
      BY <1>1 DEF ChordNext
    <3> QED BY <2>1, <2>2, <3>1, JoinKeeps, FixKeeps, StabilizeKeeps DEF Maintain
  <2> QED BY <2>3 DEF ChordInv, AllOnward
<1>2. ASSUME ChordInv, UNCHANGED chordVars PROVE ChordInv'
  <2>1. members' = members /\ fingers' = fingers /\ predecessor' = predecessor
    BY <1>2 DEF chordVars
  <2>2. PICK m0 \in members : AllOnward(m0)
    BY <1>2 DEF ChordInv
  <2>3. AllOnward(m0)'
    BY <2>1, <2>2 DEF AllOnward, Onward, Jumps
  <2>4. ChordTypeOK'
    BY <1>2, <2>1 DEF ChordInv, ChordTypeOK, Within
  <2> QED BY <2>1, <2>2, <2>3, <2>4 DEF ChordInv
<1> QED BY <1>1, <1>2, ChordStarts, PTL

\* Ahead(n) is the least set that has the successor of n and of each of its own nodes.
LEMMA AheadIs ==
  ASSUME ChordTypeOK, NEW n \in members
  PROVE  /\ Ahead(n) \in SUBSET members /\ Successor(fingers, n) \in Ahead(n)
         /\ \A m \in Ahead(n) : Successor(fingers, m) \in Ahead(n)
         /\ \A T \in SUBSET members :
              Successor(fingers, n) \in T /\ (\A m \in T : Successor(fingers, m) \in T) =>
                Ahead(n) \subseteq T
<1> DEFINE s(m) == Successor(fingers, m)
           c == Cardinality(members)
           S == SUBSET members
           More(V) == V \cup {s(m) : m \in V}
           F == [p \in (1 .. c) \X S |-> More(p[2])]
           Body(h) == [k \in 0 .. c |-> IF k = 0 THEN {s(n)} ELSE More(h[k - 1])]
           Step == CHOOSE h : h = Body(h)
<1>1. IsFiniteSet(members) /\ c \in Nat
  <2>1. members \subseteq 0 .. RingSize - 1 /\ RingSize \in Nat
    BY ChordAssumption, RingSizeIs DEF ChordTypeOK, Ids
  <2> DEFINE I == 0 .. RingSize - 1
  <2>2. IsFiniteSet(I) /\ members \in SUBSET I
    BY <2>1, FS_Interval
  <2> HIDE DEF I
  <2> QED BY <2>2, FS_Subset, FS_CardinalityType
<1>2. \A m \in members : s(m) \in members
  BY ChordAssumption DEF ChordTypeOK, Within, Successor
<1> HIDE DEF s
<1>3. F \in [(1 .. c) \X S -> S] /\ {s(n)} \in S
  BY <1>2
<1>4. PICK g \in [0 .. c -> S] : g[0] = {s(n)} /\ \A i \in 1 .. c : g[i] = F[<<i, g[i - 1]>>]
  <2> HIDE DEF F, S, c
  <2>1. Rec(c, S, {s(n)}, F) # {}
    BY <1>1, <1>3, Recursion
  <2> QED BY <2>1 DEF Rec
<1>5. ASSUME NEW i \in 1 .. c PROVE g[i] = More(g[i - 1])
  <2>1. i - 1 \in 0 .. c
    BY <1>1
  <2> HIDE DEF S, c, More
  <2>2. <<i, g[i - 1]>> \in (1 .. c) \X S
    BY <1>4, <2>1
  <2> QED BY <1>4, <2>2
<1>6. g = Body(g)
  <2> HIDE DEF F, S, c, More
  <2>1. g = [k \in 0 .. c |-> g[k]]
    BY <1>4
  <2>2. \A k \in 0 .. c : k = 0 \/ (k \in 1 .. c /\ k # 0)
    BY <1>1
  <2>3. \A k \in 0 .. c : g[k] = IF k = 0 THEN {s(n)} ELSE More(g[k - 1])
    BY <1>4, <1>5, <2>2
  <2> QED BY <2>1, <2>3
<1>7. Step = Body(Step)
  <2> HIDE DEF Body
  <2> QED BY <1>6
<1>8. Ahead(n) = Step[c]
  BY DEF Ahead, s
<1>9. \A k \in 0 .. c : Step[k] = IF k = 0 THEN {s(n)} ELSE More(Step[k - 1])
  <2> HIDE DEF Step, More
  <2> QED BY <1>7
<1> HIDE DEF Step, F, Body, c, S
<1>10. /\ Step[0] = {s(n)} /\ 0 \in 0 .. c /\ c \in 0 .. c
       /\ \A k \in 1 .. c : Step[k] = More(Step[k - 1]) /\ k - 1 \in 0 .. c /\ k \in 0 .. c
  <2> HIDE DEF More
  <2>1. 0 \in 0 .. c /\ c \in 0 .. c /\ \A k \in 1 .. c : k - 1 \in 0 .. c /\ k \in 0 .. c /\ k # 0
    BY <1>1
  <2> QED BY <1>9, <2>1
<1> DEFINE Still(V) == \A m \in V : s(m) \in V
           A == {k \in 0 .. c : Step[k] \in SUBSET members /\ s(n) \in Step[k]}
           B == {k \in 0 .. c : Still(Step[k]) \/ Cardinality(Step[k]) >= k + 1}
<1>11. \A k \in 0 .. c : k \in A
  <2>1. 0 \in A
    BY <1>2, <1>10
  <2>2. ASSUME NEW k \in 1 .. c, k - 1 \in A PROVE k \in A
    BY <1>2, <1>10, <2>2
  <2> HIDE DEF A
  <2> QED BY <1>1, <2>1, <2>2, ByInduction
<1>12. \A k \in 0 .. c : k \in B
  <2>1. 0 \in B
    <3>1. Cardinality(Step[0]) = 1
      BY <1>10, FS_Singleton
    <3>2. Cardinality(Step[0]) >= 0 + 1
      BY <3>1
    <3> QED BY <1>10, <3>2
  <2>2. ASSUME NEW k \in 1 .. c, k - 1 \in B PROVE k \in B
    <3> DEFINE V == Step[k - 1]
               W == Step[k]
    <3>1. W = More(V) /\ V \in SUBSET members /\ W \in SUBSET members /\ k \in 0 .. c
      BY <1>10, <1>11
    <3>2. IsFiniteSet(V) /\ IsFiniteSet(W) /\ Cardinality(W) \in Nat /\ Cardinality(V) \in Nat
      <4> HIDE DEF V, W
      <4> QED BY <1>1, <3>1, FS_Subset, FS_CardinalityType
    <3>3. Still(V) \/ Cardinality(V) >= k
      BY <2>2
    <3> HIDE DEF V, W
    <3>4. CASE Still(V)
      BY <3>1, <3>4 DEF W
    <3>5. CASE ~Still(V) /\ Cardinality(V) >= k
      <4>1. PICK m \in V : s(m) \notin V
        BY <3>5
      <4> DEFINE U == V \cup {s(m)}
      <4>2. IsFiniteSet(U) /\ Cardinality(U) = Cardinality(V) + 1
        BY <3>2, <4>1, FS_AddElement
      <4>3. U \in SUBSET W
        BY <3>1, <4>1
      <4> HIDE DEF U
      <4>4. Cardinality(U) <= Cardinality(W)
        BY <3>2, <4>3, FS_Subset
      <4>5. Cardinality(W) >= k + 1
        BY <3>2, <3>5, <4>2, <4>4
      <4> QED BY <3>1, <4>5 DEF W
    <3> QED BY <3>3, <3>4, <3>5
  <2> HIDE DEF B
  <2> QED BY <1>1, <2>1, <2>2, ByInduction
<1>13. Still(Step[c])
  <2>1. Step[c] \in SUBSET members /\ c \in B
    BY <1>10, <1>11, <1>12
  <2> DEFINE V == Step[c]
  <2>2. Cardinality(V) <= c /\ Cardinality(V) \in Nat
    <3> HIDE DEF V
    <3>1. V \in SUBSET members
      BY <2>1 DEF V
    <3> QED BY <1>1, <3>1, FS_Subset, FS_CardinalityType DEF c
  <2> QED BY <1>1, <2>1, <2>2
<1>14. ASSUME NEW T \in SUBSET members, s(n) \in T, \A m \in T : s(m) \in T
       PROVE  Step[c] \subseteq T
  <2> DEFINE D == {k \in 0 .. c : Step[k] \subseteq T}
  <2>1. 0 \in D
    BY <1>10, <1>14
  <2>2. ASSUME NEW k \in 1 .. c, k - 1 \in D PROVE k \in D
    BY <1>10, <1>14, <2>2
  <2>3. \A k \in 0 .. c : k \in D
    <3> HIDE DEF D
    <3> QED BY <1>1, <2>1, <2>2, ByInduction
  <2> QED BY <1>10, <2>3
<1>15. Step[c] \in SUBSET members /\ s(n) \in Step[c]
  BY <1>10, <1>11
<1> QED BY <1>8, <1>13, <1>14, <1>15 DEF s

\* A part of the way round from m0, as far as rise r: between a node and its successor there
\* is none of it.
Way(m0, Q, r) ==
  /\ Q \in SUBSET members /\ m0 \in Q
  /\ \A u \in Q : Rise(m0, u) <= r
  /\ \A u \in Q : Successor(fingers, u) \in Q \/ Rise(m0, Successor(fingers, u)) > r
  /\ \A u, w \in Q : Rise(m0, u) < Rise(m0, w) =>
       Successor(fingers, u) # m0 /\ Rise(m0, Successor(fingers, u)) <= Rise(m0, w)

LEMMA WayRound ==
  ASSUME ChordTypeOK, NEW m0 \in members, AllOnward(m0)
  PROVE  \E Q : Way(m0, Q, RingSize - 1)
<1> DEFINE s(m) == Successor(fingers, m)
           A == {r \in 0 .. RingSize - 1 : \E Q : Way(m0, Q, r)}
<1>1. RingSize \in Nat /\ RingSize - 1 \in Nat /\ members \subseteq Ids /\ m0 \in Ids
  BY RingSizeIs, ChordAssumption DEF ChordTypeOK
<1>2. /\ \A m \in members : s(m) \in members
      /\ \A m, k \in members : s(m) = k => Onward(m0, k)
  <2>1. \A m \in members : s(m) \in members
    BY ChordAssumption DEF ChordTypeOK, Within, Successor
  <2>2. \A m, k \in members : s(m) = k => Onward(m0, k)
    BY DEF AllOnward, Jumps
  <2> QED BY <2>1, <2>2
<1>3. \A m \in members : Rise(m0, m) \in 0 .. RingSize - 1 /\ (Rise(m0, m) = 0 <=> m = m0)
  BY <1>1, RiseIs
<1>4. \A m, k \in members : Rise(m0, m) = Rise(m0, k) => m = k
  BY <1>1, RiseIs
<1>5. \A m \in members : Onward(m0, m) <=> s(m) = m0 \/ Rise(m0, s(m)) > Rise(m0, m)
  BY DEF Onward
<1> HIDE DEF s
<1>6. \A Q, r : Way(m0, Q, r) <=>
         /\ Q \in SUBSET members /\ m0 \in Q
         /\ \A u \in Q : Rise(m0, u) <= r
         /\ \A u \in Q : s(u) \in Q \/ Rise(m0, s(u)) > r
         /\ \A u, w \in Q : Rise(m0, u) < Rise(m0, w) => s(u) # m0 /\ Rise(m0, s(u)) <= Rise(m0, w)
  BY DEF Way, s
<1>7. 0 \in A
  <2> DEFINE Q == {m0}
  <2>1. s(m0) \in Q \/ Rise(m0, s(m0)) > 0
    BY <1>1, <1>2, <1>3
  <2>2. Way(m0, Q, 0)
    BY <1>3, <1>6, <2>1
  <2> QED BY <1>1, <2>2
<1>8. ASSUME NEW r \in 1 .. RingSize - 1, r - 1 \in A PROVE r \in A
  <2>1. PICK Q : Way(m0, Q, r - 1)
    BY <1>8
  <2>2. /\ Q \in SUBSET members /\ m0 \in Q
        /\ \A u \in Q : Rise(m0, u) <= r - 1
        /\ \A u \in Q : s(u) \in Q \/ Rise(m0, s(u)) > r - 1
        /\ \A u, w \in Q : Rise(m0, u) < Rise(m0, w) => s(u) # m0 /\ Rise(m0, s(u)) <= Rise(m0, w)
    BY <1>6, <2>1, Zenon
  <2>3. \A u \in Q : u \in members /\ Rise(m0, u) \in Nat /\ s(u) \in members /\ Rise(m0, s(u)) \in Nat
    BY <1>2, <1>3, <2>2
  <2>4. r \in 0 .. RingSize - 1
    BY <1>1
  <2>5. CASE \A u \in Q : Rise(m0, s(u)) # r
    <3>1. Way(m0, Q, r)
      BY <1>6, <2>2, <2>3, <2>5
    <3> QED BY <2>4, <3>1
  <2>6. CASE \E u \in Q : Rise(m0, s(u)) = r
    <3>1. PICK u \in Q : Rise(m0, s(u)) = r
      BY <2>6
    <3> DEFINE y == s(u)
               P == Q \cup {y}
    <3>2. y \in members /\ y # m0 /\ s(y) \in members /\ (s(y) = m0 \/ Rise(m0, s(y)) > r)
      BY <1>2, <1>3, <1>5, <2>3, <3>1
    <3> HIDE DEF y
    <3>3. \A w \in Q : s(w) \in P \/ Rise(m0, s(w)) > r
      BY <1>4, <2>2, <2>3, <3>1, <3>2 DEF y
    <3>4. \A w \in Q : s(w) # m0 /\ Rise(m0, s(w)) <= r
      <4> SUFFICES ASSUME NEW w \in Q PROVE s(w) # m0 /\ Rise(m0, s(w)) <= r
        OBVIOUS
      <4>1. CASE Rise(m0, w) < Rise(m0, u)
        BY <2>2, <2>3, <4>1
      <4>2. CASE Rise(m0, w) = Rise(m0, u)
        BY <1>4, <2>3, <3>1, <3>2, <4>2 DEF y
      <4>3. CASE Rise(m0, u) < Rise(m0, w)
        BY <2>2, <2>3, <3>1, <4>3
      <4> QED BY <2>3, <4>1, <4>2, <4>3
    <3>5. Rise(m0, y) = r /\ \A w \in Q : Rise(m0, w) < r
      BY <2>2, <2>3, <3>1 DEF y
    <3>6. \A v, w \in P : Rise(m0, v) < Rise(m0, w) => s(v) # m0 /\ Rise(m0, s(v)) <= Rise(m0, w)
      <4> SUFFICES ASSUME NEW v \in P, NEW w \in P, Rise(m0, v) < Rise(m0, w)
                   PROVE  s(v) # m0 /\ Rise(m0, s(v)) <= Rise(m0, w)
        OBVIOUS
      <4>1. v \in Q
        BY <2>3, <3>5
      <4>2. CASE w \in Q
        BY <2>2, <4>1, <4>2
      <4>3. CASE w = y
        BY <3>4, <3>5, <4>1, <4>3
      <4> QED BY <4>2, <4>3
    <3>7. P \in SUBSET members /\ m0 \in P /\ \A v \in P : Rise(m0, v) <= r
      BY <2>2, <2>3, <3>2, <3>5
    <3>8. \A v \in P : s(v) \in P \/ Rise(m0, s(v)) > r
      BY <2>2, <3>2, <3>3
    <3> HIDE DEF P
    <3>9. Way(m0, P, r)
      BY <1>6, <3>6, <3>7, <3>8
    <3> QED BY <2>4, <3>9
  <2> QED BY <2>5, <2>6
<1>9. RingSize - 1 \in A
  <2> HIDE DEF A
  <2>1. \A r \in 0 .. RingSize - 1 : r \in A
    BY <1>1, <1>7, <1>8, ByInduction
  <2> QED BY <1>1, <2>1
<1> QED BY <1>9

\* Every node leads to m0, so that the nodes on the way round from m0 are those met again.
LEMMA RingIsOne == ChordInv => OneRing
<1> SUFFICES ASSUME ChordInv PROVE OneRing
  OBVIOUS
<1>1. ChordTypeOK
  BY DEF ChordInv
<1>2. PICK m0 \in members : AllOnward(m0)
  BY DEF ChordInv
<1> DEFINE s(m) == Successor(fingers, m)
           N == {v \in members : Onward(m0, v)}
<1>3. RingSize \in Nat /\ members \subseteq Ids /\ m0 \in Ids
  BY <1>1, RingSizeIs, ChordAssumption DEF ChordTypeOK
<1>4. /\ \A m \in members : s(m) \in members /\ s(m) \in N
  <2>1. \A m \in members : s(m) \in members
    BY <1>1, ChordAssumption DEF ChordTypeOK, Within, Successor
  <2>2. \A m, k \in members : s(m) = k => Onward(m0, k)
    BY <1>2 DEF AllOnward, Jumps
  <2> QED BY <2>1, <2>2
<1>5. /\ \A m \in members : Rise(m0, m) \in 0 .. RingSize - 1 /\ (Rise(m0, m) = 0 <=> m = m0)
      /\ \A m, k \in members : Rise(m0, m) = Rise(m0, k) => m = k
  BY <1>3, RiseIs
<1>6. N \subseteq members /\ \A v \in N : s(v) = m0 \/ Rise(m0, s(v)) > Rise(m0, v)
  BY DEF Onward
<1>7. \A n \in members :
        /\ Ahead(n) \in SUBSET members /\ s(n) \in Ahead(n)
        /\ \A m \in Ahead(n) : s(m) \in Ahead(n)
        /\ \A T \in SUBSET members : s(n) \in T /\ (\A m \in T : s(m) \in T) => Ahead(n) \subseteq T
  BY <1>1, AheadIs
<1> HIDE DEF s, N
<1>8. \A n \in members : Ahead(n) \subseteq N
  BY <1>4, <1>6, <1>7
<1>9. ASSUME NEW n \in members PROVE m0 \in Ahead(n)
  <2> DEFINE left(v) == RingSize - Rise(m0, v)
             T == {left(v) : v \in Ahead(n)}
  <2>1. \A v \in Ahead(n) : left(v) \in Nat
    BY <1>3, <1>5, <1>7
  <2>2. T \in SUBSET Nat /\ T # {}
    BY <1>7, <2>1
  <2>3. PICK k \in T : \A l \in T : k <= l
    <3> HIDE DEF T
    <3> QED BY <2>2, NatMin
  <2>4. PICK v \in Ahead(n) : k = left(v)
    OBVIOUS
  <2>5. s(v) \in Ahead(n) /\ v \in N /\ v \in members /\ s(v) \in members
    BY <1>4, <1>7, <1>8
  <2>6. left(v) <= left(s(v))
    BY <2>3, <2>4, <2>5
  <2>7. ~(Rise(m0, s(v)) > Rise(m0, v))
    BY <1>3, <1>5, <2>5, <2>6
  <2> QED BY <1>6, <2>5, <2>7
<1>10. \A n \in members : Ahead(m0) \subseteq Ahead(n)
  BY <1>7, <1>9
<1>11. ASSUME NEW n \in Cycle PROVE n \in members /\ n \in N /\ n \in Ahead(m0)
  <2>1. n \in members /\ n \in Ahead(n) /\ n \in N
    BY <1>8 DEF Cycle
  <2> DEFINE T == Ahead(m0) \cup {v \in N : Rise(m0, v) > Rise(m0, n)}
  <2>2. T \in SUBSET members
    BY <1>6, <1>7
  <2>3. \A m \in N : s(m) \in N /\ (s(m) = m0 \/ Rise(m0, s(m)) > Rise(m0, m))
    BY <1>4, <1>6
  <2>4. m0 \in T
    BY <1>9
  <2>5. s(n) \in T
    BY <2>1, <2>3, <2>4
  <2>6. \A m \in T : s(m) \in T
    <3> SUFFICES ASSUME NEW m \in T PROVE s(m) \in T
      OBVIOUS
    <3>1. CASE m \in Ahead(m0)
      BY <1>7, <3>1
    <3>2. CASE m \in N /\ Rise(m0, m) > Rise(m0, n)
      <4>1. CASE s(m) = m0
        BY <2>4, <4>1
      <4>2. CASE s(m) # m0
        <5>1. /\ Rise(m0, s(m)) > Rise(m0, m) /\ s(m) \in N
              /\ Rise(m0, s(m)) \in Int /\ Rise(m0, m) \in Int /\ Rise(m0, n) \in Int
          BY <1>4, <1>5, <1>6, <2>1, <2>3, <3>2, <4>2
        <5>2. Rise(m0, s(m)) > Rise(m0, n)
          BY <3>2, <5>1
        <5> QED BY <5>1, <5>2
      <4> QED BY <4>1, <4>2
    <3> QED BY <3>1, <3>2
  <2>7. n \in T
    <3> HIDE DEF T
    <3> QED BY <1>7, <2>1, <2>2, <2>5, <2>6
  <2>8. ~(Rise(m0, n) > Rise(m0, n))
    BY <1>5, <2>1
  <2> QED BY <2>1, <2>7, <2>8
<1>12. \A n \in members : Cycle \subseteq Ahead(n)
  BY <1>10, <1>11
<1>13. ASSUME NEW n \in Cycle, NEW m \in Cycle, isInRange(m, n, s(n), FALSE)
       PROVE  m = n /\ Cycle = {n}
  <2>1. n \in members /\ n \in N /\ m \in members /\ n \in Ahead(m0) /\ m \in Ahead(m0)
    BY <1>11
  <2>2. CASE s(n) = n
    <3>1. n = m0
      BY <1>5, <1>6, <2>1, <2>2
    <3>2. Ahead(m0) \subseteq {m0}
      <4> DEFINE T == {m0}
      <4>1. T \in SUBSET members /\ s(m0) \in T /\ \A u \in T : s(u) \in T
        BY <2>1, <2>2, <3>1
      <4> HIDE DEF T
      <4>2. Ahead(m0) \subseteq T
        BY <1>7, <4>1
      <4> QED BY <4>2 DEF T
    <3> QED BY <1>11, <2>1, <3>1, <3>2
  <2>3. CASE s(n) # n
    <3>1. /\ n \in Ids /\ m \in Ids /\ s(n) \in Ids /\ s(n) \in members
          /\ s(n) = m0 \/ Rise(m0, s(n)) > Rise(m0, n)
      BY <1>3, <1>4, <1>6, <2>1
    <3>2. Rise(m0, m) > Rise(m0, n) /\ (s(n) = m0 \/ Rise(m0, m) < Rise(m0, s(n)))
      <4> DEFINE t == s(n)
      <4>1. /\ m0 \in Ids /\ n \in Ids /\ m \in Ids /\ t \in Ids /\ t # n
            /\ t = m0 \/ Rise(m0, t) > Rise(m0, n)
            /\ isInRange(m, n, t, FALSE)
        BY <1>3, <1>13, <2>3, <3>1
      <4> HIDE DEF t
      <4>2. Rise(m0, m) > Rise(m0, n) /\ (t = m0 \/ Rise(m0, m) < Rise(m0, t))
        BY <4>1, Between
      <4> QED BY <4>2 DEF t
    <3>3. PICK Q : Way(m0, Q, RingSize - 1)
      BY <1>1, <1>2, WayRound
    <3>4. /\ Q \in SUBSET members /\ m0 \in Q
          /\ \A u \in Q : s(u) \in Q \/ Rise(m0, s(u)) > RingSize - 1
          /\ \A u, w \in Q : Rise(m0, u) < Rise(m0, w) => s(u) # m0 /\ Rise(m0, s(u)) <= Rise(m0, w)
      BY <3>3 DEF Way, s
    <3>5. \A u \in Q : s(u) \in Q
      BY <1>3, <1>4, <1>5, <3>4
    <3>6. n \in Q /\ m \in Q
      BY <1>7, <2>1, <3>4, <3>5
    <3>7. Rise(m0, n) \in Int /\ Rise(m0, m) \in Int /\ Rise(m0, s(n)) \in Int
      BY <1>5, <2>1, <3>1
    <3> QED BY <3>2, <3>4, <3>6, <3>7
  <2> QED BY <2>2, <2>3
<1> QED BY <1>12, <1>13 DEF OneRing, s

\* Of any nodes and in any order of joins, Stabilize and FixFingers, there is always one ring.
THEOREM RingStaysOne == ChordInit /\ [][ChordNext]_chordVars => []OneRing
BY ChordKept, RingIsOne, PTL

-----------------------------------------------------------------------------
(* One of them at a time *)

\* The part that runs keeps its invariant, the others are as they were made.
PartsKept ==
  /\ now \in Nat
  /\ IF part = "fixed" THEN FixedInv ELSE FixedFresh
  /\ IF part = "log" THEN LogInv /\ Steady ELSE LogFresh
  /\ IF part = "slots" THEN SlotsInv ELSE SlotsFresh
  /\ IF part = "token" THEN TokenInv ELSE TokenFresh
  /\ LeakInv

LEMMA PartsStart == Init => PartsKept
<1> SUFFICES ASSUME Init PROVE PartsKept
  OBVIOUS
<1>1. now = 0 /\ now \in Nat
  BY DEF Init, FixedInit
<1>2. FixedFresh
  BY DEF Init, FixedInit, FixedFresh
<1>3. LogFresh
  BY DEF Init, LogInit, LogFresh
<1>4. SlotsFresh
  BY DEF Init, SlotsInit, SlotsFresh
<1>5. TokenFresh
  BY DEF Init, TokenInit, TokenFresh
<1>6. LeakInv
  BY LeakInitially DEF Init
<1>7. Steady
  BY <1>1, <1>3 DEF LogFresh, Steady
<1> QED BY <1>1, <1>2, <1>3, <1>4, <1>5, <1>6, <1>7, FixedStarts, LogStarts, SlotsStart,
       TokenStarts DEF PartsKept

\* What a step leaves alone stays as it is.
LEMMA FreshStays ==
  /\ FixedFresh /\ UNCHANGED fixedOnly => FixedFresh'
  /\ LogFresh /\ UNCHANGED logOnly => LogFresh'
  /\ SlotsFresh /\ UNCHANGED slotsOnly => SlotsFresh'
  /\ TokenFresh /\ UNCHANGED tokenOnly => TokenFresh'
<1>1. FixedFresh /\ UNCHANGED fixedOnly => FixedFresh'
  BY DEF FixedFresh, fixedOnly
<1>2. LogFresh /\ UNCHANGED logOnly => LogFresh'
  BY DEF LogFresh, logOnly
<1>3. SlotsFresh /\ UNCHANGED slotsOnly => SlotsFresh'
  BY DEF SlotsFresh, slotsOnly
<1>4. TokenFresh /\ UNCHANGED tokenOnly => TokenFresh'
  BY DEF TokenFresh, tokenOnly, bucket
<1> QED BY <1>1, <1>2, <1>3, <1>4

LEMMA AllStay ==
  ASSUME PartsKept, UNCHANGED <<part, now, fixedOnly, logOnly, slotsOnly, tokenOnly>>
  PROVE  /\ part' = part /\ now' \in Nat
         /\ IF part = "fixed" THEN FixedInv' ELSE FixedFresh'
         /\ IF part = "log" THEN LogInv' /\ Steady' ELSE LogFresh'
         /\ IF part = "slots" THEN SlotsInv' ELSE SlotsFresh'
         /\ IF part = "token" THEN TokenInv' ELSE TokenFresh'
<1>1. /\ UNCHANGED fixedVars /\ UNCHANGED logVars /\ UNCHANGED slotsVars /\ UNCHANGED tokenVars
  BY DEF fixedOnly, logOnly, slotsOnly, tokenOnly, fixedVars, logVars, slotsVars, tokenVars
<1>2. /\ FixedInv => FixedInv'
      /\ LogInv => LogInv'
      /\ LogInv /\ Steady => Steady'
      /\ SlotsInv => SlotsInv'
      /\ TokenInv => TokenInv'
  BY <1>1, FixedStep, LogStep, SteadyStep, SlotsStep, TokenStepKeeps
<1>3. part' = part /\ now' = now
  OBVIOUS
<1> QED BY <1>2, <1>3, FreshStays DEF PartsKept

LEMMA PartsStep == PartsKept /\ [Next]_vars => PartsKept'
<1> SUFFICES ASSUME PartsKept, [Next]_vars PROVE PartsKept'
  OBVIOUS
<1>1. CASE FixedPart(FixedNext)
  <2>1. /\ part = "fixed" /\ part' = part /\ FixedInv
        /\ UNCHANGED <<logOnly, slotsOnly, tokenOnly>> /\ UNCHANGED leakVars
    BY <1>1 DEF FixedPart, PartsKept
  <2>2. FixedInv' /\ LeakInv'
    BY <1>1, <2>1, FixedStep, LeakStep DEF FixedPart, PartsKept
  <2>3. now' \in Nat
    BY <2>2 DEF FixedInv, FixedTypeOK
  <2> QED BY <2>1, <2>2, <2>3, FreshStays DEF PartsKept
<1>2. CASE LogPart(LogNext)
  <2>1. /\ part = "log" /\ part' = part /\ LogInv /\ Steady
        /\ UNCHANGED <<fixedOnly, slotsOnly, tokenOnly>> /\ UNCHANGED leakVars
    BY <1>2 DEF LogPart, PartsKept
  <2>2. LogInv' /\ Steady' /\ LeakInv'
    BY <1>2, <2>1, LogStep, SteadyStep, LeakStep DEF LogPart, PartsKept
  <2>3. now' \in Nat
    BY <2>2 DEF LogInv, LogTypeOK
  <2> QED BY <2>1, <2>2, <2>3, FreshStays DEF PartsKept
<1>3. CASE SlotsPart(SlotsNext)
  <2>1. /\ part = "slots" /\ part' = part /\ SlotsInv
        /\ UNCHANGED <<fixedOnly, logOnly, tokenOnly>> /\ UNCHANGED leakVars
    BY <1>3 DEF SlotsPart, PartsKept
  <2>2. SlotsInv' /\ LeakInv'
    BY <1>3, <2>1, SlotsStep, LeakStep DEF SlotsPart, PartsKept
  <2>3. now' \in Nat
    BY <2>2 DEF SlotsInv, HistoryGood
  <2> QED BY <2>1, <2>2, <2>3, FreshStays DEF PartsKept
<1>4. CASE TokenPart(TokenNext)
  <2>1. /\ part = "token" /\ part' = part /\ TokenInv
        /\ UNCHANGED <<fixedOnly, logOnly, slotsOnly>> /\ UNCHANGED leakVars
    BY <1>4 DEF TokenPart, PartsKept
  <2>2. TokenInv' /\ LeakInv'
    BY <1>4, <2>1, TokenStepKeeps, LeakStep DEF TokenPart, PartsKept
  <2>3. now' \in Nat
    BY <2>2 DEF TokenInv, TokenTypeOK
  <2> QED BY <2>1, <2>2, <2>3, FreshStays DEF PartsKept
<1>5. CASE LeakPart(LeakNext)
  <2>1. LeakInv'
    BY <1>5, LeakStep DEF LeakPart, PartsKept
  <2>2. UNCHANGED <<part, now, fixedOnly, logOnly, slotsOnly, tokenOnly>>
    BY <1>5 DEF LeakPart
  <2> QED BY <2>1, <2>2, AllStay DEF PartsKept
<1>6. CASE ChordPart(ChordNext) \/ KadPart \/ UNCHANGED vars
  <2>1. /\ UNCHANGED leakVars
        /\ UNCHANGED <<part, now, fixedOnly, logOnly, slotsOnly, tokenOnly>>
    BY <1>6 DEF ChordPart, KadPart, vars
  <2>2. LeakInv'
    BY <2>1, LeakStep DEF PartsKept
  <2> QED BY <2>1, <2>2, AllStay DEF PartsKept
<1> QED BY <1>1, <1>2, <1>3, <1>4, <1>5, <1>6 DEF Next

LEMMA PartsAlwaysKept == Spec => []PartsKept
<1>1. Init /\ [][Next]_vars => []PartsKept
  BY PartsStart, PartsStep, PTL
<1> QED BY <1>1 DEF Spec

\* None of the three window limiters refuses a request without having let its limit through
\* within a window; and the sliding counter, whose slots are found by the wall clock and used
\* again, keeps its limit in every span of all slots but one in which that clock is not set
\* back by more than as much.
THEOREM WindowsCountRight == Spec => []NoWindowMiscounts
<1>1. ASSUME PartsKept PROVE NoWindowMiscounts
  <2>1. FixedInv /\ LogInv /\ Steady /\ SlotsInv
    <3>1. LogFresh /\ now \in Nat => Steady
      BY DEF LogFresh, Steady
    <3> QED BY <1>1, <3>1, FixedStarts, LogStarts, SlotsStart DEF PartsKept
  <2>2. SlotsTypeOK /\ LimitOverAllSlotsButOne /\ SlotsRefuseOnlyAtLimit
    BY <2>1, RefuseAtLimit DEF SlotsInv, HistoryGood, SlotsCount, SlotsTypeOK
  <2> QED BY <2>1, <2>2, DropsAtLimit, RefusesAtLimit DEF NoWindowMiscounts
<1> QED BY <1>1, PartsAlwaysKept, PTL

\* The callers of Allow get no more than a full bucket and what came in since.  A WaitN that
\* owes tokens is due by its deadline, by the clock that it read under the mutex; it sleeps
\* until then and no longer than it took from that reading to line 105 besides; and those that
\* owe since one reading do not wait for the same tokens.
THEOREM TokensKept == Spec => []TokensAsPromised
<1>1. PartsKept => TokensAsPromised
  BY TokenStarts, TokenPromises DEF PartsKept
<1> QED BY <1>1, PartsAlwaysKept, PTL

\* Items are handed over once and in order, one a tick until Close; and when the Close that
\* cleared running has returned, none is left that was accepted before it.  That another
\* Close may be back earlier is a step of the model.
THEOREM LeaksInOrder == Spec => []LeaksInTurn
<1>1. PartsKept => LeaksInTurn
  BY LeakInTurn DEF PartsKept
<1> QED BY <1>1, PartsAlwaysKept, PTL

\* What happens in a part that is a DHT's table is what happens in that table on its own.
LEMMA TablesOnTheirOwn == Spec => KadSpec /\ ChordInit /\ [][ChordNext]_chordVars
<1>1. Init => KadInit /\ ChordInit
  BY DEF Init
<1>2. [Next]_vars => [KadNext]_kadVars /\ [ChordNext]_chordVars
  <2> SUFFICES ASSUME [Next]_vars PROVE [KadNext]_kadVars /\ [ChordNext]_chordVars
    OBVIOUS
  <2>1. CASE ChordPart(ChordNext)
    BY <2>1 DEF ChordPart
  <2>2. CASE KadPart
    BY <2>2 DEF KadPart
  <2>3. CASE \/ FixedPart(FixedNext) \/ LogPart(LogNext) \/ SlotsPart(SlotsNext)
            \/ TokenPart(TokenNext) \/ LeakPart(LeakNext) \/ UNCHANGED vars
    <3>1. UNCHANGED dhtVars
      BY <2>3 DEF FixedPart, LogPart, SlotsPart, TokenPart, LeakPart, vars
    <3> QED BY <3>1 DEF dhtVars
  <2> QED BY <2>1, <2>2, <2>3 DEF Next
<1> QED BY <1>1, <1>2, PTL DEF Spec, KadSpec

\* The Kademlia table holds, of the nodes it was told of, as many of a bucket as fit and
\* each once, with the address told last, and finds the closest of those it holds; and a
\* Chord ring stays one ring, whatever the order of joins, Stabilize and FixFingers.
THEOREM TablesAlwaysKept == Spec => []TablesKept
<1>1. OneRing /\ TableKnows => TablesKept
  BY DEF TablesKept
<1> QED BY <1>1, TablesOnTheirOwn, TableFinds, RingStaysOne, PTL

\* Though full buckets refuse nodes, a lookup goes to a node that shares more bits with its
\* target than this one does whenever any such node was heard of.
THEOREM LookupsAlwaysGetOn == Spec => []RoutesOn
BY TablesOnTheirOwn, LookupsGetOn, PTL
=============================================================================
