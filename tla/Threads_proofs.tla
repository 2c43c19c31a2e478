-------------------------- MODULE Threads_proofs --------------------------
(***************************************************************************)
(* Proofs about what threads share in the small programs, for every number *)
(* of threads, keys, items and objects: singleflight, whatever fn does (it *)
(* may return, panic or run for ever), the shared pointer, the queue with  *)
(* a mutex, the singletons and the three ways to print in turns.  The last *)
(* theorems say it of the programs side by side, as MCThreads runs them.   *)
(***************************************************************************)
EXTENDS MCThreads, FiniteSetTheorems, SequenceTheorems, TLAPS
-----------------------------------------------------------------------------
(* singleflight *)

FlightInv == TypeOK /\ OwnersInMap

LEMMA FlightInitially == FlightInit => FlightInv
  BY MaxCallsAssumption DEF FlightInit, FlightInv, TypeOK, OwnersInMap, Owner, NoKey

LEMMA StartKeeps == ASSUME FlightInv, NEW p \in Procs, NEW k \in Keys, Start(p, k)
                    PROVE  FlightInv'
<1> USE DEF FlightInv, Goto, NoKey
<1> DEFINE n == Len(calls) + 1
           new == [key |-> k, val |-> None, done |-> FALSE]
<1>1. /\ calls' = Append(calls, new) /\ calls' \in Seq(Call)
      /\ Len(calls') = n /\ n \in Nat /\ Len(calls) \in Nat
      /\ \A i \in 1 .. Len(calls) : calls'[i] = calls[i]
      /\ calls'[n] = new
  BY DEF Start, TypeOK, Call
<1>2. TypeOK'
  BY <1>1 DEF Start, TypeOK
<1>3. OwnersInMap'
  BY <1>1 DEF Start, TypeOK, OwnersInMap, Owner
<1> QED BY <1>2, <1>3

LEMMA JoinKeeps == ASSUME FlightInv, NEW p \in Procs, NEW k \in Keys, Join(p, k)
                   PROVE  FlightInv'
<1> USE DEF FlightInv, Goto, NoKey
<1>1. TypeOK'
  BY DEF Join, TypeOK
<1>2. OwnersInMap'
  BY DEF Join, TypeOK, OwnersInMap, Owner
<1> QED BY <1>1, <1>2

LEMMA StepKeeps == ASSUME FlightInv, NEW p \in Procs, Step(p)
                   PROVE  FlightInv'
<1> USE DEF FlightInv, Goto, NoKey
<1>1. ASSUME NEW v \in Results, FnReturns(p, v) PROVE FlightInv'
  <2>1. c[p] \in 1 .. Len(calls) /\ Owner(p)
    BY <1>1 DEF FnReturns, TypeOK, OwnersInMap, Owner
  <2>2. /\ calls' \in Seq(Call)
        /\ Len(calls') = Len(calls)
        /\ \A i \in 1 .. Len(calls) : calls'[i].key = calls[i].key /\ calls'[i].done = calls[i].done
        /\ \A i \in 1 .. Len(calls) : i # c[p] => calls'[i].val = calls[i].val
        /\ calls'[c[p]].val = v
    <3> DEFINE new == [calls[c[p]] EXCEPT !.val = v]
    <3>1. calls[c[p]] \in Call
      BY <2>1 DEF TypeOK
    <3>2. new \in Call /\ new.val = v
          /\ new.key = calls[c[p]].key /\ new.done = calls[c[p]].done
      BY <3>1 DEF Call
    <3>3. calls' = [calls EXCEPT ![c[p]] = new]
      BY <1>1 DEF FnReturns
    <3> HIDE DEF new
    <3> QED BY <2>1, <3>2, <3>3 DEF TypeOK
  <2>3. TypeOK'
    BY <1>1, <2>2 DEF FnReturns, TypeOK
  <2>4. OwnersInMap'
    BY <1>1, <2>1, <2>2 DEF FnReturns, TypeOK, OwnersInMap, Owner
  <2> QED BY <2>3, <2>4
<1>2. CASE FnPanics(p)
  BY <1>2 DEF FnPanics, TypeOK, OwnersInMap, Owner
<1>3. CASE Signal(p)
  <2>1. c[p] \in 1 .. Len(calls) /\ Owner(p) /\ calls[c[p]].val \in Results
    BY <1>3 DEF Signal, TypeOK, OwnersInMap, Owner
  <2>2. /\ calls' \in Seq(Call)
        /\ Len(calls') = Len(calls)
        /\ \A i \in 1 .. Len(calls) : calls'[i].key = calls[i].key /\ calls'[i].val = calls[i].val
        /\ \A i \in 1 .. Len(calls) : i # c[p] => calls'[i].done = calls[i].done
        /\ calls'[c[p]].done = TRUE
    <3> DEFINE new == [calls[c[p]] EXCEPT !.done = TRUE]
    <3>1. calls[c[p]] \in Call
      BY <2>1 DEF TypeOK
    <3>2. new \in Call /\ new.done = TRUE
          /\ new.key = calls[c[p]].key /\ new.val = calls[c[p]].val
      BY <3>1 DEF Call
    <3>3. calls' = [calls EXCEPT ![c[p]] = new]
      BY <1>3 DEF Signal
    <3> HIDE DEF new
    <3> QED BY <2>1, <3>2, <3>3 DEF TypeOK
  <2>3. TypeOK'
    BY <1>3, <2>1, <2>2 DEF Signal, TypeOK
  <2>4. OwnersInMap'
    BY <1>3, <2>1, <2>2 DEF Signal, TypeOK, OwnersInMap, Owner
  <2> QED BY <2>3, <2>4
<1>4. CASE Delete(p)
  <2>1. TypeOK'
    <3>1. 0 \in 0 .. Len(calls)
      BY DEF TypeOK
    <3>2. m' \in [Keys -> 0 .. Len(calls)]
      BY <1>4, <3>1 DEF Delete, TypeOK
    <3> QED BY <1>4, <3>2 DEF Delete, TypeOK
  <2>2. \A r \in Procs : Owner(r) /\ r # p => key[r] # key[p]
    BY <1>4 DEF Delete, OwnersInMap, Owner
  <2>3. OwnersInMap'
    BY <1>4, <2>2 DEF Delete, TypeOK, OwnersInMap, Owner
  <2> QED BY <2>1, <2>3
<1>5. CASE Wait(p)
  BY <1>5 DEF Wait, TypeOK, OwnersInMap, Owner
<1>6. CASE Return(p)
  BY <1>6 DEF Return, TypeOK, OwnersInMap, Owner
<1> QED BY <1>1, <1>2, <1>3, <1>4, <1>5, <1>6 DEF Step

\* The types, and that every goroutine running fn or cleaning up after it owns
\* the call its key maps to.
THEOREM FlightInvariant == FlightSpec => []FlightInv
<1>1. FlightInit => FlightInv
  BY FlightInitially
<1>2. FlightInv /\ [FlightNext]_flightVars => FlightInv'
  <2> SUFFICES ASSUME FlightInv, [FlightNext]_flightVars PROVE FlightInv'
    OBVIOUS
  <2>1. CASE FlightNext
    BY <2>1, StartKeeps, JoinKeeps, StepKeeps DEF FlightNext
  <2>2. CASE UNCHANGED flightVars
    BY <2>2 DEF flightVars, FlightInv, TypeOK, OwnersInMap, Owner
  <2> QED BY <2>1, <2>2
<1> QED BY <1>1, <1>2, PTL DEF FlightSpec

\* Duplicate suppression in Do: fn never runs twice at a time for one key.
THEOREM NeverTwice == FlightSpec => []OneFlight
<1>1. FlightInv => OneFlight
  BY DEF FlightInv, OwnersInMap, Owner, OneFlight
<1> QED BY <1>1, FlightInvariant, PTL

\* What any Do returns is a finished result of fn for the key it was given.
THEOREM FinishedResults == FlightSpec => []ReturnsFinishedCall
<1>1. FlightInv => ReturnsFinishedCall
  BY DEF FlightInv, TypeOK, OwnersInMap, ReturnsFinishedCall, Result
<1> QED BY <1>1, FlightInvariant, PTL

\* delete(g.m, key) always removes the deleter's own call.
THEOREM DeletesOwn == FlightSpec => []DeletesOwnCall
<1>1. FlightInv => DeletesOwnCall
  BY DEF FlightInv, OwnersInMap, Owner, DeletesOwnCall
<1> QED BY <1>1, FlightInvariant, PTL

\* Only a panic leaves an entry in the map that nobody will delete.
THEOREM OnlyPanicsStick == FlightSpec => []NoStuckKey
<1>1. FlightInit => NoStuckKey
  BY DEF FlightInit, NoStuckKey
<1>2. FlightInv /\ NoStuckKey /\ [FlightNext]_flightVars => NoStuckKey'
  <2> SUFFICES ASSUME FlightInv, NoStuckKey, [FlightNext]_flightVars,
                      NEW k \in Keys, m'[k] # 0
               PROVE  \E p \in Procs : (Owner(p)' \/ pc'[p] = "gone") /\ c'[p] = m'[k]
    BY DEF NoStuckKey
  <2> USE DEF Goto
  <2>1. ASSUME NEW p \in Procs, NEW j \in Keys, Start(p, j) \/ Join(p, j)
        PROVE  \E r \in Procs : (Owner(r)' \/ pc'[r] = "gone") /\ c'[r] = m'[k]
    BY <2>1 DEF Start, Join, FlightInv, TypeOK, NoStuckKey, Owner
  <2>2. ASSUME NEW p \in Procs, Step(p), ~Delete(p)
        PROVE  \E r \in Procs : (Owner(r)' \/ pc'[r] = "gone") /\ c'[r] = m'[k]
    BY <2>2, ZenonT(40) DEF Step, FnReturns, FnPanics, Signal, Wait, Return, FlightInv, TypeOK, NoStuckKey, Owner
  <2>3. ASSUME NEW p \in Procs, Delete(p)
        PROVE  \E r \in Procs : (Owner(r)' \/ pc'[r] = "gone") /\ c'[r] = m'[k]
    <3>1. k # key[p] /\ m[k] # 0 /\ m'[k] = m[k]
      BY <2>3 DEF Delete, FlightInv, TypeOK, OwnersInMap, Owner
    <3>2. PICK r \in Procs : (Owner(r) \/ pc[r] = "gone") /\ c[r] = m[k]
      BY <3>1 DEF NoStuckKey
    <3>3. r # p
      BY <2>3, <3>1, <3>2 DEF Delete, FlightInv, OwnersInMap, Owner
    <3> QED BY <2>3, <3>1, <3>2, <3>3 DEF Delete, FlightInv, TypeOK, Owner
  <2>4. CASE UNCHANGED flightVars
    BY <2>4 DEF flightVars, NoStuckKey, Owner
  <2> QED BY <2>1, <2>2, <2>3, <2>4 DEF FlightNext
<1> QED BY <1>1, <1>2, FlightInvariant, PTL DEF FlightSpec

\* A Do joins a call only while its owner is inside Do, or has panicked there.
THEOREM NeverStale == FlightSpec => JoinsWhileOwned
<1>1. FlightInv /\ NoStuckKey /\ [FlightNext]_flightVars =>
        [\A p \in Procs : (pc[p] = "idle" /\ pc'[p] = "wait") =>
           \E r \in Procs : /\ Owner(r) \/ pc[r] = "gone"
                            /\ c[r] = c'[p] /\ key[r] = key'[p]]_flightVars
  <2> SUFFICES ASSUME FlightInv, NoStuckKey, FlightNext,
                      NEW p \in Procs, pc[p] = "idle", pc'[p] = "wait"
               PROVE  \E r \in Procs : /\ Owner(r) \/ pc[r] = "gone"
                                       /\ c[r] = c'[p] /\ key[r] = key'[p]
    OBVIOUS
  <2>1. PICK k \in Keys : Join(p, k)
    <3> USE DEF Goto
    <3>1. pc \in [Procs -> {"idle", "wait", "fn", "gone", "signal", "delete", "return"}]
      BY DEF FlightInv, TypeOK
    <3>2. ASSUME NEW r \in Procs, Step(r) PROVE FALSE
      BY <3>1, <3>2 DEF Step, FnReturns, FnPanics, Signal, Delete, Wait, Return
    <3>3. ASSUME NEW r \in Procs, NEW k \in Keys, Start(r, k) PROVE FALSE
      BY <3>1, <3>3 DEF Start
    <3>4. PICK r \in Procs, k \in Keys : Join(r, k)
      BY <3>2, <3>3 DEF FlightNext
    <3>5. r = p
      BY <3>1, <3>4 DEF Join
    <3> QED BY <3>4, <3>5
  <2>2. m[k] # 0 /\ c'[p] = m[k] /\ key'[p] = k /\ calls[m[k]].key = k
    BY <2>1 DEF Join, FlightInv, TypeOK, OwnersInMap
  <2>3. PICK r \in Procs : (Owner(r) \/ pc[r] = "gone") /\ c[r] = m[k]
    BY <2>2 DEF NoStuckKey
  <2> QED BY <2>2, <2>3 DEF FlightInv, OwnersInMap
<1> QED BY <1>1, FlightInvariant, OnlyPanicsStick, PTL DEF FlightSpec, JoinsWhileOwned
-----------------------------------------------------------------------------
(* Singletons *)

AskPlaces == {"out", "lock", "make", "unlock", "return"}

SingletonInv ==
  /\ asks \in [Askers -> AskPlaces] /\ got \in [Askers -> Nat]
  /\ constructed \in Nat /\ destroyed \in Nat
  \* The instance that is published is the only one there is.
  /\ \/ instance = 0 /\ constructed = destroyed
     \/ instance = constructed /\ constructed = destroyed + 1
  /\ \A t \in Askers :
       /\ got[t] # 0 => got[t] = instance
       /\ asks[t] \in {"make", "unlock"} => guard = t
       /\ asks[t] \in {"unlock", "return"} => instance # 0
  /\ guard = "set" => instance # 0 /\ kind # "lazy"

LEMMA SingletonInitially == SingletonInit => SingletonInv
  BY AskersAssumption DEF SingletonInit, SingletonInv, AskPlaces

LEMMA SingletonStep == SingletonInv /\ [SingletonNext]_singletonVars => SingletonInv'
<1> SUFFICES ASSUME SingletonInv, [SingletonNext]_singletonVars PROVE SingletonInv'
  OBVIOUS
<1> USE AskersAssumption DEF SingletonInv, AskPlaces, AskGoto
<1>1. CASE destroyInstance
  BY <1>1 DEF destroyInstance
<1>2. ASSUME NEW t \in Askers, GiveUse(t) \/ Ask(t) \/ AskLock(t) \/ AskFindsSet(t)
      PROVE  SingletonInv'
  BY <1>2 DEF GiveUse, Ask, AskLock, AskFindsSet
<1>3. ASSUME NEW t \in Askers, Make(t) \/ MakeNot(t) PROVE SingletonInv'
  BY <1>3 DEF Make, MakeNot, Missing
<1>4. ASSUME NEW t \in Askers, AskUnlock(t) \/ AskReturn(t) PROVE SingletonInv'
  BY <1>4 DEF AskUnlock, AskReturn
<1>5. CASE UNCHANGED singletonVars
  BY <1>5 DEF singletonVars
<1> QED BY <1>1, <1>2, <1>3, <1>4, <1>5 DEF SingletonNext, AskStep

LEMMA SingletonOne == SingletonInv => OneInstance
  BY DEF SingletonInv, OneInstance

-----------------------------------------------------------------------------
(* The queue with a mutex *)

\* What is in the queue is in the order it was pushed in, and behind all that has
\* been popped.
MutexInv ==
  /\ q \in Seq(Pushers \X Nat) /\ pushed \in [Pushers -> Nat]
  /\ popped \in [Poppers -> Seq(Pushers \X Nat)]
  /\ \A i \in DOMAIN q : q[i][2] <= pushed[q[i][1]]
  /\ \A i, j \in DOMAIN q : i < j /\ q[i][1] = q[j][1] => q[i][2] < q[j][2]
  /\ \A r \in Poppers : \A i \in DOMAIN popped[r] :
       /\ popped[r][i][2] <= pushed[popped[r][i][1]]
       /\ \A j \in DOMAIN q : popped[r][i][1] = q[j][1] => popped[r][i][2] < q[j][2]
  /\ InOrderOnce

LEMMA AppendItem == ASSUME NEW S, NEW s \in Seq(S), NEW e \in S
                    PROVE  /\ Append(s, e) \in Seq(S)
                           /\ DOMAIN s = 1 .. Len(s) /\ Len(s) \in Nat
                           /\ DOMAIN Append(s, e) = 1 .. Len(s) + 1
                           /\ Append(s, e)[Len(s) + 1] = e
                           /\ \A i \in DOMAIN s : Append(s, e)[i] = s[i]
                           /\ \A i \in DOMAIN Append(s, e) : i = Len(s) + 1 \/ i \in DOMAIN s
                           /\ \A i \in DOMAIN s : i < Len(s) + 1 /\ i \in Nat /\ s[i] \in S
  OBVIOUS

LEMMA TailItems == ASSUME NEW S, NEW s \in Seq(S), s # << >>
                   PROVE  /\ Tail(s) \in Seq(S) /\ Head(s) = s[1] /\ 1 \in DOMAIN s
                          /\ \A i \in DOMAIN Tail(s) : /\ i + 1 \in DOMAIN s /\ 1 < i + 1
                                                       /\ Tail(s)[i] = s[i + 1] /\ i \in Nat
                          /\ \A i \in DOMAIN s : s[i] \in S /\ i \in Nat
<1>1. Len(s) \in Nat \ {0} /\ DOMAIN s = 1 .. Len(s) /\ Head(s) = s[1]
  OBVIOUS
<1>2. /\ Tail(s) \in Seq(S) /\ Len(Tail(s)) = Len(s) - 1
      /\ \A i \in 1 .. Len(Tail(s)) : Tail(s)[i] = s[i + 1]
  BY HeadTailProperties
<1> QED BY <1>1, <1>2

LEMMA MutexInitially == MutexInit => MutexInv
  BY DEF MutexInit, MutexInv, InOrderOnce

LEMMA MutexPushKeeps == ASSUME MutexInv, NEW p \in Pushers, MutexPush(p) PROVE MutexInv'
<1> DEFINE e == <<p, pushed[p] + 1>>
           n == Len(q) + 1
<1>1. /\ q' = Append(q, e) /\ pushed' = [pushed EXCEPT ![p] = @ + 1] /\ popped' = popped
      /\ e \in Pushers \X Nat /\ e[1] = p /\ e[2] = pushed[p] + 1
      /\ q \in Seq(Pushers \X Nat) /\ pushed \in [Pushers -> Nat]
      /\ pushed' \in [Pushers -> Nat]
  BY DEF MutexPush, MutexInv
<1> HIDE DEF e, n
<1>2. /\ q' \in Seq(Pushers \X Nat) /\ q'[n] = e
      /\ \A i \in DOMAIN q : q'[i] = q[i] /\ i < n /\ q[i] \in Pushers \X Nat /\ i \in Nat
      /\ \A i \in DOMAIN q' : i = n \/ i \in DOMAIN q
      /\ n \in Nat
  BY <1>1, AppendItem DEF n
<1>3. \A x \in Pushers \X Nat : x[2] <= pushed[x[1]]
        => x[2] <= pushed'[x[1]] /\ (x[1] = e[1] => x[2] < e[2])
  BY <1>1
<1>4. \A i \in DOMAIN q' : q'[i][2] <= pushed'[q'[i][1]]
  BY <1>1, <1>2, <1>3, SMTT(30) DEF MutexInv
<1>5. \A i, j \in DOMAIN q' : i < j /\ q'[i][1] = q'[j][1] => q'[i][2] < q'[j][2]
  <2> TAKE i, j \in DOMAIN q'
  <2>1. CASE j \in DOMAIN q
    <3>1. i < j => i \in DOMAIN q
      BY <1>2, <2>1
    <3>2. i \in DOMAIN q => (i < j /\ q[i][1] = q[j][1] => q[i][2] < q[j][2])
      BY <2>1 DEF MutexInv
    <3> QED BY <1>2, <2>1, <3>1, <3>2
  <2>2. CASE i \in DOMAIN q /\ j = n
    BY <1>2, <1>3, <2>2 DEF MutexInv
  <2> QED BY <1>2, <2>1, <2>2
<1>6. \A r \in Poppers : \A i \in DOMAIN popped[r] : popped[r][i] \in Pushers \X Nat
  BY DEF MutexInv
<1>7. ASSUME NEW r \in Poppers, NEW i \in DOMAIN popped[r]
      PROVE  /\ popped[r][i][2] <= pushed'[popped[r][i][1]]
             /\ \A j \in DOMAIN q' : popped[r][i][1] = q'[j][1] => popped[r][i][2] < q'[j][2]
  BY <1>2, <1>3, <1>6 DEF MutexInv
<1>8. InOrderOnce'
  <2>1. InOrderOnce /\ popped' = popped
    BY <1>1 DEF MutexInv
  <2> QED BY <2>1 DEF InOrderOnce
<1> QED BY <1>1, <1>2, <1>4, <1>5, <1>7, <1>8 DEF MutexInv

LEMMA MutexPopKeeps == ASSUME MutexInv, NEW r \in Poppers, MutexPop(r) PROVE MutexInv'
<1> DEFINE e == Head(q)
           n == Len(popped[r]) + 1
<1>1. /\ q # << >> /\ q' = Tail(q) /\ pushed' = pushed
      /\ popped' = [popped EXCEPT ![r] = Append(@, e)]
      /\ q \in Seq(Pushers \X Nat) /\ pushed \in [Pushers -> Nat]
      /\ popped \in [Poppers -> Seq(Pushers \X Nat)]
  BY DEF MutexPop, MutexInv
<1> HIDE DEF e, n
<1>2. /\ q' \in Seq(Pushers \X Nat) /\ e = q[1] /\ 1 \in DOMAIN q /\ e \in Pushers \X Nat
      /\ \A i \in DOMAIN q' : i + 1 \in DOMAIN q /\ 1 < i + 1 /\ q'[i] = q[i + 1] /\ i \in Nat
  BY <1>1, TailItems DEF e
<1>3. /\ popped' \in [Poppers -> Seq(Pushers \X Nat)] /\ popped'[r][n] = e
      /\ \A i \in DOMAIN popped[r] : popped'[r][i] = popped[r][i] /\ i < n /\ i \in Nat
      /\ \A i \in DOMAIN popped'[r] : i = n \/ i \in DOMAIN popped[r]
      /\ \A s \in Poppers \ {r} : popped'[s] = popped[s]
      /\ n \in Nat
  <2>1. popped[r] \in Seq(Pushers \X Nat) /\ popped'[r] = Append(popped[r], e)
    BY <1>1
  <2>2. /\ popped'[r] \in Seq(Pushers \X Nat) /\ popped'[r][n] = e /\ n \in Nat
        /\ \A i \in DOMAIN popped[r] : popped'[r][i] = popped[r][i] /\ i < n /\ i \in Nat
        /\ \A i \in DOMAIN popped'[r] : i = n \/ i \in DOMAIN popped[r]
    BY <1>2, <2>1, AppendItem DEF n
  <2> QED BY <1>1, <2>2
<1>4. /\ e[2] <= pushed[e[1]] /\ e[1] \in Pushers /\ e[2] \in Nat
      /\ \A s \in Poppers : \A i \in DOMAIN popped[s] :
           popped[s][i][1] = e[1] => popped[s][i][2] < e[2]
      /\ \A j \in DOMAIN q' : e[1] = q'[j][1] => e[2] < q'[j][2]
  BY <1>1, <1>2 DEF MutexInv
<1>5. \A s \in Poppers : \A i \in DOMAIN popped'[s] :
        \/ s = r /\ i = n /\ popped'[s][i] = e
        \/ i \in DOMAIN popped[s] /\ popped'[s][i] = popped[s][i] /\ (s = r => i < n)
  BY <1>3
<1>6. \A i \in DOMAIN q' : q'[i][2] <= pushed'[q'[i][1]]
  BY <1>1, <1>2 DEF MutexInv
<1>7. \A i, j \in DOMAIN q' : i < j /\ q'[i][1] = q'[j][1] => q'[i][2] < q'[j][2]
  <2> TAKE i, j \in DOMAIN q'
  <2>1. i < j => i + 1 < j + 1
    BY <1>2
  <2> QED BY <1>2, <2>1 DEF MutexInv
<1>8. \A s \in Poppers : \A i \in DOMAIN popped'[s] :
        /\ popped'[s][i][2] <= pushed'[popped'[s][i][1]]
        /\ \A j \in DOMAIN q' : popped'[s][i][1] = q'[j][1] => popped'[s][i][2] < q'[j][2]
  <2> SUFFICES ASSUME NEW s \in Poppers, NEW i \in DOMAIN popped'[s]
               PROVE  /\ popped'[s][i][2] <= pushed'[popped'[s][i][1]]
                      /\ \A j \in DOMAIN q' :
                           popped'[s][i][1] = q'[j][1] => popped'[s][i][2] < q'[j][2]
    OBVIOUS
  <2>1. CASE popped'[s][i] = e
    BY <1>1, <1>4, <2>1
  <2>2. CASE i \in DOMAIN popped[s] /\ popped'[s][i] = popped[s][i]
    BY <1>1, <1>2, <2>2, SMTT(30) DEF MutexInv
  <2> QED BY <1>5, <2>1, <2>2
<1>9. InOrderOnce'
  <2>1. \A s \in Poppers : \A i \in DOMAIN popped[s] :
          popped[s][i] \in Pushers \X Nat /\ i \in Nat
    BY <1>1, AppendItem
  <2>2. \A s \in Poppers : \A i \in DOMAIN popped[s] : popped[s][i] # e
    BY <1>4, <2>1
  <2>3. InOrderOnce
    BY DEF MutexInv
  <2> SUFFICES ASSUME NEW s \in Poppers, NEW u \in Poppers,
                      NEW i \in DOMAIN popped'[s], NEW j \in DOMAIN popped'[u]
               PROVE  /\ popped'[s][i] = popped'[u][j] => s = u /\ i = j
                      /\ s = u /\ i < j /\ popped'[s][i][1] = popped'[u][j][1]
                           => popped'[s][i][2] < popped'[u][j][2]
    BY DEF InOrderOnce
  <2>4. CASE s = r /\ i = n /\ popped'[s][i] = e
    BY <1>3, <1>5, <2>1, <2>2, <2>4
  <2>5. CASE /\ u = r /\ j = n /\ popped'[u][j] = e
             /\ i \in DOMAIN popped[s] /\ popped'[s][i] = popped[s][i]
    BY <1>4, <2>2, <2>5
  <2>6. CASE i \in DOMAIN popped[s] /\ popped'[s][i] = popped[s][i]
              /\ j \in DOMAIN popped[u] /\ popped'[u][j] = popped[u][j]
    BY <2>3, <2>6 DEF InOrderOnce
  <2> QED BY <1>5, <2>4, <2>5, <2>6
<1> QED BY <1>1, <1>2, <1>3, <1>6, <1>7, <1>8, <1>9 DEF MutexInv

LEMMA MutexStep == MutexInv /\ [MutexNext]_mutexVars => MutexInv'
<1> SUFFICES ASSUME MutexInv, [MutexNext]_mutexVars PROVE MutexInv'
  OBVIOUS
<1>1. ASSUME q' = q, pushed' = pushed, popped' = popped PROVE MutexInv'
  BY <1>1 DEF MutexInv, InOrderOnce
<1>2. ASSUME NEW r \in Poppers, MutexCallPop(r) \/ MutexWait(r) \/ MutexWake(r)
      PROVE  MutexInv'
  BY <1>1, <1>2 DEF MutexCallPop, MutexWait, MutexWake
<1>3. CASE UNCHANGED mutexVars
  BY <1>1, <1>3 DEF mutexVars
<1> QED BY <1>2, <1>3, MutexPushKeeps, MutexPopKeeps DEF MutexNext

-----------------------------------------------------------------------------
(* The alternating printers *)

LEMMA TheOther == /\ Other("odd") = "even" /\ Other("even") = "odd"
                  /\ \A t \in Threads : Other(t) \in Threads \ {t}
                  /\ \A t \in Threads : \A u \in Threads \ {t} : u = Other(t)
<1>1. /\ \A u \in {"odd", "even"} : (u # "odd") <=> (u = "even")
      /\ \A u \in {"odd", "even"} : (u # "even") <=> (u = "odd")
  OBVIOUS
<1>2. Other("odd") = "even"
  BY <1>1 DEF Other, Threads
<1>3. Other("even") = "odd"
  BY <1>1 DEF Other, Threads
<1> QED BY <1>2, <1>3 DEF Threads

LEMMA NextParity == ASSUME NEW n \in Nat PROVE ((n + 1) % 2 = 0) <=> (n % 2 # 0)
  OBVIOUS

LEMMA PrintsNext ==
  ASSUME printed \in Seq([by : Threads, number : Nat]), NEW t \in Threads, NEW n \in Nat,
         n = Len(printed) + 1, n <= MaxNumber, (n % 2 = 0) <=> (t = "even"),
         printed' = Append(printed, [by |-> t, number |-> n])
  PROVE  /\ TakeTurn
         /\ printed' \in Seq([by : Threads, number : Nat]) /\ Len(printed') = n
<1>1. Parity(n) = t
  BY DEF Parity, Threads
<1> QED BY <1>1 DEF TakeTurn

PrintedOK == printed \in Seq([by : Threads, number : Nat])

\* A number is printed when it is next: each program in its own way.
CondInv == program \in {"cpp", "go"} =>
  current_number = Len(printed) + 1

Mine(t) == turn = (t = "even")

SpinPlaces == {"loop", "spin current", "spin turn", "break", "load", "print", "add", "store",
               "done"}

\* What a thread knows where it is.
SpinAt(t) ==
  /\ place[t] \in {"load", "print", "add", "store"} => Mine(t)
  /\ place[t] = "break" => Mine(t) \/ current > MaxNumber
  /\ place[t] \in {"load", "print"} => current <= MaxNumber
  /\ place[t] = "print" => num[t] = current /\ ((current % 2 = 0) <=> (t = "even"))

Adding == \E t \in Threads : place[t] = "add"

SpinTypeOK == /\ place \in [Threads -> SpinPlaces] /\ num \in [Threads -> Nat]
              /\ current \in Nat

SpinInv == program = "spin" =>
  /\ SpinTypeOK
  /\ \A t \in Threads : SpinAt(t)
  /\ Adding => current = Len(printed)
  /\ ~Adding => current = Len(printed) + 1

\* The number that is passed on is with one goroutine, or still with main.
ChanInv == program = "channels" =>
  /\ place \in [Threads \cup {"main"} -> {"receive", "test", "send", "wait", "done"}]
  /\ holds \in [Threads -> Nat]
  /\ place["main"] = "send" => printed = << >> /\ closed = {} /\ \A t \in Threads : place[t] = "receive"
  /\ \A t \in Threads :
       /\ place[t] \in {"test", "send"} =>
            place[Other(t)] \notin {"test", "send"} /\ place["main"] # "send"
       /\ place[t] = "test" => holds[t] = Len(printed) + 1
       /\ place[t] = "send" => holds[t] = Len(printed)
       /\ place[t] \in {"test", "send"} => ((holds[t] % 2 = 0) <=> (t = "even"))

PrintInv == PrintedOK /\ CondInv /\ SpinInv /\ ChanInv

LEMMA OneTurn == ~Mine("odd") \/ ~Mine("even")
  BY DEF Mine

LEMMA PrintInitially == Init => PrintInv /\ printed = << >>
<1> SUFFICES ASSUME Init PROVE PrintInv /\ printed = << >>
  OBVIOUS
<1>1. printed = << >> /\ PrintedOK /\ Len(printed) = 0
  BY DEF Init, PrintedOK
<1>2. CondInv
  BY <1>1 DEF Init, CondInv, CondInit
<1>3. SpinInv
  <2> SUFFICES ASSUME program = "spin" PROVE SpinInv
    BY DEF SpinInv
  <2>1. /\ place = [t \in Threads |-> "loop"] /\ current = 1
        /\ num = [t \in Threads |-> 0]
    BY DEF Init, SpinInit, CondStart, SpinStart, ChanStart
  <2>2. SpinTypeOK
    BY <2>1 DEF SpinTypeOK, SpinPlaces
  <2>3. ~Adding /\ \A t \in Threads : SpinAt(t)
    BY <2>1 DEF Adding, SpinAt
  <2> QED BY <1>1, <2>1, <2>2, <2>3 DEF SpinInv
<1>4. ChanInv
  BY <1>1 DEF Init, ChanInv, ChanInit, CondStart, SpinStart, ChanStart, Threads
<1> QED BY <1>1, <1>2, <1>3, <1>4 DEF PrintInv

LEMMA CondKeeps ==
  ASSUME PrintInv, CondNext, UNCHANGED <<spinVars, chanVars>>
  PROVE  PrintInv' /\ (TakeTurn \/ printed' = printed)
<1>1. program \in {"cpp", "go"} /\ program' = program
  BY DEF CondNext, CondStep, Wake
<1>2. printed \in Seq([by : Threads, number : Nat]) /\ current_number = Len(printed) + 1
      /\ current_number \in Nat
  BY <1>1 DEF PrintInv, PrintedOK, CondInv
<1>3. ASSUME current_number' = current_number, printed' = printed
      PROVE  PrintInv' /\ (TakeTurn \/ printed' = printed)
  BY <1>1, <1>2, <1>3 DEF PrintInv, PrintedOK, CondInv, SpinInv, ChanInv
<1>4. ASSUME NEW t \in Threads, Run(t), (current_number % 2 = 0) <=> (t = "even")
      PROVE  PrintInv' /\ (TakeTurn \/ printed' = printed)
  <2>1. /\ printed' = Append(printed, [by |-> t, number |-> current_number])
        /\ current_number' = current_number + 1 /\ current_number <= MaxNumber
    BY <1>4 DEF Run
  <2>2. TakeTurn /\ PrintedOK' /\ Len(printed') = current_number
    BY <1>2, <1>4, <2>1, PrintsNext DEF PrintedOK
  <2> QED BY <1>1, <2>1, <2>2 DEF PrintInv, CondInv, SpinInv, ChanInv
<1>5. ASSUME NEW t \in Threads, Run(t), ~((current_number % 2 = 0) <=> (t = "even"))
      PROVE  PrintInv' /\ (TakeTurn \/ printed' = printed)
  BY <1>3, <1>5 DEF Run
<1>6. ASSUME NEW t \in Threads,
             CondLoop(t) \/ CondLoopEnds(t) \/ CondWait(t) \/ CondBreak(t) \/ Wake(t)
      PROVE  PrintInv' /\ (TakeTurn \/ printed' = printed)
  BY <1>3, <1>6 DEF CondLoop, CondLoopEnds, CondWait, CondBreak, Wake
<1> QED BY <1>4, <1>5, <1>6 DEF CondNext, CondStep

\* A thread that does not touch the output leaves the others what they know.
LEMMA SpinLocal ==
  ASSUME program = "spin", SpinInv, program' = program, NEW t \in Threads, SpinTypeOK',
         \A u \in Threads \ {t} : place'[u] = place[u] /\ num'[u] = num[u],
         current' = current, turn' = turn, printed' = printed,
         place[t] # "add", place'[t] # "add", SpinAt(t)'
  PROVE  SpinInv'
<1>1. \A u : Mine(u)' = Mine(u)
  BY DEF Mine
<1>2. \A u \in Threads \ {t} : SpinAt(u)'
  BY <1>1 DEF SpinInv, SpinAt
<1>3. Adding' = Adding
  BY DEF Adding
<1> QED BY <1>2, <1>3 DEF SpinInv

LEMMA SpinKeeps ==
  ASSUME PrintInv, SpinNext, UNCHANGED <<condVars, chanVars>>
  PROVE  PrintInv' /\ (TakeTurn \/ printed' = printed)
<1>0. program = "spin" /\ program' = program
  BY DEF SpinNext, SpinStep
<1>1. printed \in Seq([by : Threads, number : Nat]) /\ Len(printed) \in Nat /\ MaxNumber \in Nat
  BY MaxAssumption DEF PrintInv, PrintedOK
<1>2. ASSUME SpinInv', PrintedOK' PROVE PrintInv'
  BY <1>0, <1>2 DEF PrintInv, CondInv, ChanInv
<1>3. /\ SpinInv /\ place \in [Threads -> SpinPlaces] /\ num \in [Threads -> Nat]
      /\ current \in Nat /\ \A t \in Threads : SpinAt(t)
      /\ Adding => current = Len(printed)
      /\ ~Adding => current = Len(printed) + 1
  BY <1>0 DEF PrintInv, SpinInv, SpinTypeOK
<1> USE DEF SpinGoto
<1>4. ASSUME NEW t \in Threads, TestNumber(t) \/ Spin(t) \/ Load(t)
      PROVE  PrintInv' /\ printed' = printed
  <2>1. /\ current' = current /\ turn' = turn /\ printed' = printed /\ Mine(t)' = Mine(t)
        /\ place[t] # "add" /\ \E l \in SpinPlaces \ {"add"} : place' = [place EXCEPT ![t] = l]
        /\ num' \in [Threads -> Nat] /\ \A u \in Threads \ {t} : num'[u] = num[u]
    <3>1. CASE TestNumber(t)
      BY <1>3, <3>1 DEF TestNumber, Mine, SpinPlaces
    <3>2. CASE Spin(t) \/ Load(t)
      BY <1>3, <3>2 DEF Spin, Load, Mine, SpinPlaces
    <3> QED BY <1>4, <3>1, <3>2
  <2>2. SpinAt(t)'
    <3>1. CASE TestNumber(t) /\ place[t] \in {"loop", "spin current"}
      <4>1. /\ place'[t] \in {"spin turn", "done", "break"}
            /\ place'[t] = "break" => ~(current <= MaxNumber)
        BY <1>3, <3>1 DEF TestNumber
      <4>2. place'[t] = "break" => current > MaxNumber
        BY <1>1, <1>3, <4>1
      <4> QED BY <1>1, <1>3, <2>1, <4>1, <4>2 DEF SpinAt
    <3>2. CASE TestNumber(t) /\ place[t] = "break"
      <4>1. /\ place'[t] \in {"done", "load"}
            /\ place'[t] = "load" => current <= MaxNumber /\ Mine(t)
        BY <1>1, <1>3, <3>2 DEF TestNumber, SpinAt
      <4> QED BY <1>1, <1>3, <2>1, <3>2, <4>1 DEF SpinAt
    <3>3. CASE Spin(t)
      <4>1. place'[t] \in {"break", "spin current"} /\ (place'[t] = "break" => Mine(t))
        BY <1>3, <3>3 DEF Spin, Mine
      <4> QED BY <1>3, <2>1, <4>1 DEF SpinAt
    <3>4. CASE Load(t)
      <4>1. /\ place[t] = "load" /\ num'[t] = current /\ place'[t] \in {"print", "loop"}
            /\ place'[t] = "print" => ((current % 2 = 0) <=> (t = "even"))
        BY <1>3, <3>4 DEF Load
      <4> QED BY <1>3, <2>1, <4>1 DEF SpinAt
    <3> QED BY <1>4, <3>1, <3>2, <3>3, <3>4 DEF TestNumber
  <2>3. /\ SpinTypeOK' /\ place'[t] # "add"
        /\ \A u \in Threads \ {t} : place'[u] = place[u] /\ num'[u] = num[u]
    BY <1>3, <2>1 DEF SpinTypeOK
  <2>4. SpinInv'
    BY <1>0, <1>3, <2>1, <2>2, <2>3, SpinLocal
  <2> QED BY <1>1, <1>2, <2>1, <2>4 DEF PrintedOK
\* Whoever has the turn is the only one past the break.
<1>5. ASSUME NEW t \in Threads, Mine(t), NEW u \in Threads \ {t}
      PROVE  /\ ~Mine(u) /\ place[u] \notin {"load", "print", "add", "store"}
             /\ place[u] = "break" => current > MaxNumber
  BY <1>3, <1>5, OneTurn DEF SpinAt, Threads
<1>6. ASSUME NEW t \in Threads, PrintNumber(t) PROVE PrintInv' /\ TakeTurn
  <2>1. /\ num[t] = current /\ current <= MaxNumber /\ Mine(t) /\ place[t] = "print"
        /\ (current % 2 = 0) <=> (t = "even")
        /\ printed' = Append(printed, [by |-> t, number |-> current])
        /\ place' = [place EXCEPT ![t] = "add"]
        /\ current' = current /\ turn' = turn /\ num' = num
    BY <1>3, <1>6 DEF PrintNumber, SpinAt
  <2>2. ~Adding /\ current = Len(printed) + 1
    BY <1>3, <1>5, <2>1 DEF Adding
  <2>3. TakeTurn /\ PrintedOK' /\ Len(printed') = current
    BY <1>1, <1>3, <2>1, <2>2, PrintsNext DEF PrintedOK
  <2>4. SpinTypeOK' /\ Adding'
    BY <1>3, <2>1 DEF SpinTypeOK, SpinPlaces, Adding
  <2>5. \A u \in Threads : SpinAt(u)'
    BY <1>3, <1>5, <2>1 DEF SpinAt, Mine
  <2> QED BY <1>2, <2>1, <2>3, <2>4, <2>5 DEF SpinInv
<1>7. ASSUME NEW t \in Threads, Add(t) PROVE PrintInv' /\ printed' = printed
  <2>1. /\ Mine(t) /\ place[t] = "add" /\ place' = [place EXCEPT ![t] = "store"]
        /\ current' = current + 1 /\ turn' = turn /\ num' = num /\ printed' = printed
    BY <1>3, <1>7 DEF Add, SpinAt
  <2>2. Adding /\ ~Adding'
    BY <1>3, <1>5, <2>1 DEF Adding
  <2>3. SpinTypeOK'
    <3>1. current' \in Nat
      BY <1>3, <2>1
    <3>2. place' \in [Threads -> SpinPlaces] /\ num' \in [Threads -> Nat]
      BY <1>3, <2>1 DEF SpinPlaces
    <3> QED BY <3>1, <3>2 DEF SpinTypeOK
  <2>4. SpinAt(t)'
    BY <1>3, <2>1 DEF SpinAt, Mine
  <2>5. ASSUME NEW u \in Threads \ {t} PROVE SpinAt(u)'
    <3>1. place'[u] = place[u] /\ place[u] \notin {"load", "print", "add", "store"}
          /\ (place[u] = "break" => current > MaxNumber)
      BY <1>3, <1>5, <2>1
    <3> QED BY <1>1, <1>3, <2>1, <3>1 DEF SpinAt
  <2> QED BY <1>1, <1>2, <1>3, <2>1, <2>2, <2>3, <2>4, <2>5 DEF SpinInv, PrintedOK
<1>8. ASSUME NEW t \in Threads, Store(t) PROVE PrintInv' /\ printed' = printed
  <2>1. /\ Mine(t) /\ place[t] = "store" /\ place' = [place EXCEPT ![t] = "loop"]
        /\ current' = current /\ num' = [num EXCEPT ![t] = 0] /\ printed' = printed
    BY <1>3, <1>8 DEF Store, SpinAt
  <2>2. ~Adding /\ ~Adding'
    BY <1>3, <1>5, <2>1 DEF Adding
  <2>3. SpinTypeOK'
    BY <1>3, <2>1 DEF SpinTypeOK, SpinPlaces
  <2>4. SpinAt(t)'
    BY <1>3, <2>1 DEF SpinAt
  <2>5. ASSUME NEW u \in Threads \ {t} PROVE SpinAt(u)'
    <3>1. place'[u] = place[u] /\ place[u] \notin {"load", "print", "add", "store"}
          /\ (place[u] = "break" => current > MaxNumber)
      BY <1>3, <1>5, <2>1
    <3> QED BY <1>1, <1>3, <2>1, <3>1 DEF SpinAt
  <2> QED BY <1>1, <1>2, <1>3, <2>1, <2>2, <2>3, <2>4, <2>5 DEF SpinInv, PrintedOK
<1> QED BY <1>4, <1>6, <1>7, <1>8 DEF SpinNext, SpinStep

LEMMA ChanKeeps ==
  ASSUME PrintInv, ChanNext, UNCHANGED <<condVars, spinVars>>
  PROVE  PrintInv' /\ (TakeTurn \/ printed' = printed)
<1>0. program = "channels" /\ program' = program
  BY DEF ChanNext
<1>1. printed \in Seq([by : Threads, number : Nat]) /\ Len(printed) \in Nat /\ MaxNumber \in Nat
  BY MaxAssumption DEF PrintInv, PrintedOK
<1>2. ASSUME ChanInv', PrintedOK' PROVE PrintInv'
  BY <1>0, <1>2 DEF PrintInv, CondInv, SpinInv
<1> USE TheOther DEF ChanInv, Threads, PrintInv
<1>3. ASSUME NEW t \in Threads, PrintHeld(t) PROVE PrintInv' /\ TakeTurn
  <2>1. /\ holds[t] <= MaxNumber /\ holds[t] = Len(printed) + 1 /\ holds[t] \in Nat
        /\ (holds[t] % 2 = 0) <=> (t = "even")
    BY <1>0, <1>3 DEF PrintHeld
  <2>2. TakeTurn /\ PrintedOK' /\ Len(printed') = holds[t]
    BY <1>1, <1>3, <2>1, PrintsNext DEF PrintHeld, PrintedOK
  <2> QED BY <1>0, <1>1, <1>2, <1>3, <2>1, <2>2 DEF PrintHeld
<1>4. ASSUME NEW t \in Threads, Pass(t) PROVE PrintInv' /\ printed' = printed
  <2>1. CASE t = "odd"
    BY <1>0, <1>1, <1>2, <1>4, <2>1, NextParity, SMTT(30) DEF Pass, PrintedOK
  <2>2. CASE t = "even"
    BY <1>0, <1>1, <1>2, <1>4, <2>2, NextParity DEF Pass, PrintedOK
  <2> QED BY <2>1, <2>2
<1>5. ASSUME NEW t \in Threads, Break(t) \/ RangeEnds(t) PROVE PrintInv' /\ printed' = printed
  <2>1. CASE t = "odd"
    BY <1>0, <1>1, <1>2, <1>5, <2>1 DEF Break, RangeEnds, PrintedOK
  <2>2. CASE t = "even"
    BY <1>0, <1>1, <1>2, <1>5, <2>2 DEF Break, RangeEnds, PrintedOK
  <2> QED BY <2>1, <2>2
<1>6. CASE Begin \/ End
  BY <1>0, <1>1, <1>2, <1>6 DEF Begin, End, PrintedOK
<1> QED BY <1>3, <1>4, <1>5, <1>6 DEF ChanNext

LEMMA PrintStep == PrintInv /\ [Next]_vars => PrintInv' /\ [TakeTurn]_printed
<1> SUFFICES ASSUME PrintInv, [Next]_vars PROVE PrintInv' /\ (TakeTurn \/ printed' = printed)
  OBVIOUS
<1>1. CASE PrintPart(PrintNext)
  BY <1>1, CondKeeps, SpinKeeps, ChanKeeps DEF PrintPart, PrintNext
<1>2. CASE UNCHANGED printVars
  BY <1>2 DEF printVars, condVars, spinVars, chanVars, PrintInv, PrintedOK, CondInv, SpinInv,
     SpinTypeOK, SpinAt, Adding, Mine, ChanInv
<1> QED BY <1>1, <1>2 DEF Next, MutexPart, FlightPart, PointerPart, SingletonPart, vars

-----------------------------------------------------------------------------
(* Shared pointers *)

PtrSteps == {"idle", "sub", "delete", "take", "add"}

\* What a call that is under way has for itself and knows.
CallOK(t) ==
  LET h == busy[t].to
      g == busy[t].from
  IN  /\ busy[t].step \in PtrSteps
      /\ ~Idle(t) =>
           /\ h \in Pointers /\ Owns(t, h)
           /\ busy[t].call \in {"copy", "move", "destroy"}
           /\ busy[t].call # "destroy" => g \in Pointers /\ g # h /\ t \in users[g]
           /\ busy[t].call = "move" => Owns(t, g)
           /\ busy[t].step = "sub" => held[h] # NoObject
           /\ busy[t].step = "delete" => held[h] # NoObject /\ Holders(held[h]) = {h}
           /\ busy[t].step = "take" => busy[t].call # "destroy" /\ held[h] = NoObject
           /\ busy[t].step = "add" => /\ busy[t].call = "copy" /\ held[h] # NoObject
                                      /\ held[g] = held[h]

PtrTypeOK == /\ held \in [Pointers -> Objects \cup {NoObject}]
             /\ users \in [Pointers -> SUBSET PtrThreads]
             /\ count \in [Objects -> Nat]
             /\ made \subseteq Objects
             /\ busy \in [PtrThreads -> [step : PtrSteps, call : {"none", "copy", "move", "destroy"},
                                         to : Pointers \cup {NoObject},
                                         from : Pointers \cup {NoObject}]]

PtrInv == PtrTypeOK /\ CountsMatch /\ \A t \in PtrThreads : CallOK(t)

LEMMA PtrInitially == PtrInit => PtrInv
  BY ObjectAssumption DEF PtrInit, PtrInv, PtrTypeOK, CountsMatch, CallOK, Resting, Idle, PtrSteps

LEMMA HoldersFinite ==
  ASSUME NEW o
  PROVE  /\ IsFiniteSet(Holders(o)) /\ Cardinality(Holders(o)) \in Nat
         /\ IsFiniteSet(Uncounted(o)) /\ Cardinality(Uncounted(o)) \in Nat
<1>1. Holders(o) \in SUBSET Pointers /\ Uncounted(o) \in SUBSET PtrThreads
  BY DEF Holders, Uncounted
<1> QED BY <1>1, FiniteAssumption, FS_Subset, FS_CardinalityType

LEMMA TwoOf == ASSUME NEW a, NEW b, a # b PROVE Cardinality({a, b}) = 2
<1>1. IsFiniteSet({a}) /\ Cardinality({a}) = 1
  BY FS_Singleton
<1>2. Cardinality({a} \cup {b}) = Cardinality({a}) + 1
  BY <1>1, FS_AddElement
<1>3. {a} \cup {b} = {a, b}
  OBVIOUS
<1> QED BY <1>1, <1>2, <1>3

\* A pointer that is in the count belongs to no call that is between its copy or its
\* giving up and its change of the count.
LEMMA CountedApart ==
  ASSUME PtrInv, NEW o \in made, NEW C \in SUBSET Holders(o),
         \A t \in Uncounted(o) : busy[t].to \notin C
  PROVE  Cardinality(C) \in Nat /\ Cardinality(C) <= count[o]
<1> DEFINE U == Uncounted(o)
           H == Holders(o)
           f == [t \in U |-> busy[t].to]
<1>1. \A t \in U : /\ t \in PtrThreads /\ busy[t].to \in H \ C
                   /\ users[busy[t].to] = {t}
  BY DEF PtrInv, CallOK, Uncounted, Holders, Idle, Owns
<1>2. f \in Injection(U, H \ C)
  BY <1>1 DEF Injection, IsInjective
<1>3. IsFiniteSet(H) /\ IsFiniteSet(H \ C) /\ IsFiniteSet(C)
  BY HoldersFinite, FS_Subset
<1>4. Cardinality(U) <= Cardinality(H \ C)
  BY <1>2, <1>3, FS_Injection
<1>5. Cardinality(H \ C) = Cardinality(H) - Cardinality(C)
  <2>1. H \cap C = C
    OBVIOUS
  <2> QED BY <1>3, <2>1, FS_Difference
<1>6. count[o] + Cardinality(U) = Cardinality(H) /\ count[o] \in Nat
  BY DEF PtrInv, CountsMatch, PtrTypeOK
<1>7. Cardinality(C) \in Nat /\ Cardinality(U) \in Nat /\ Cardinality(H) \in Nat
  BY <1>3, HoldersFinite, FS_CardinalityType
<1> QED BY <1>4, <1>5, <1>6, <1>7

\* At its decrement a pointer is in the count; when that finds the count at one nobody
\* else has the object, for a copy under way would be of a pointer in the count too.
LEMMA AtSubtract ==
  ASSUME PtrInv, NEW t \in PtrThreads, busy[t].step = "sub"
  PROVE  /\ held[busy[t].to] \in made /\ count[held[busy[t].to]] >= 1
         /\ LastOne(held[busy[t].to]) => Holders(held[busy[t].to]) = {busy[t].to}
<1> DEFINE h == busy[t].to
           o == held[h]
<1>1. h \in Pointers /\ users[h] = {t} /\ o # NoObject /\ o \in made /\ o \in Objects /\ h \in Holders(o)
  BY DEF PtrInv, CallOK, Idle, Owns, CountsMatch, PtrTypeOK, Holders
<1>2. \A u \in Uncounted(o) : /\ u \in PtrThreads /\ u # t /\ users[busy[u].to] = {u}
                              /\ busy[u].to \in Holders(o)
                              /\ busy[u].step \in {"add", "delete"}
  BY DEF PtrInv, CallOK, Uncounted, Idle, Owns, Holders
<1>3. \A u \in Uncounted(o) : busy[u].to # h
  BY <1>1, <1>2
<1>4. count[o] >= 1
  <2>1. Cardinality({h}) = 1
    BY FS_Singleton
  <2>2. {h} \in SUBSET Holders(o)
    BY <1>1
  <2> HIDE DEF h, o
  <2>3. Cardinality({h}) <= count[o]
    BY <1>1, <1>3, <2>2, CountedApart
  <2> QED BY <1>1, <2>1, <2>3 DEF PtrInv, PtrTypeOK
<1>5. ASSUME LastOne(o), NEW k \in Holders(o), k # h PROVE FALSE
  <2>1. ASSUME NEW g \in Holders(o), g # h, \A u \in Uncounted(o) : busy[u].to # g PROVE FALSE
    <3>1. Cardinality({h, g}) = 2
      <4> HIDE DEF h
      <4> QED BY <2>1, TwoOf
    <3>2. {h, g} \in SUBSET Holders(o) /\ \A u \in Uncounted(o) : busy[u].to \notin {h, g}
      BY <1>1, <1>3, <2>1
    <3> HIDE DEF h, o
    <3>3. Cardinality({h, g}) <= count[o]
      BY <1>1, <3>2, CountedApart
    <3> QED BY <1>5, <3>1, <3>3 DEF LastOne
  <2>2. PICK u \in Uncounted(o) : busy[u].to = k
    BY <1>5, <2>1
  <2>3. CASE busy[u].step = "delete"
    <3>1. Holders(o) = {k}
      BY <1>2, <2>2, <2>3 DEF PtrInv, CallOK, Uncounted, Idle
    <3> QED BY <1>1, <1>5, <3>1
  <2>4. CASE busy[u].step = "add"
    <3> DEFINE g == busy[u].from
    <3>1. g \in Pointers /\ g # k /\ u \in users[g] /\ held[g] = o
      BY <1>2, <2>2, <2>4 DEF PtrInv, CallOK, Uncounted, Idle
    <3>2. g \in Holders(o) /\ g # h
      BY <1>1, <1>2, <3>1 DEF Holders
    <3>3. \A v \in Uncounted(o) : busy[v].to # g
      BY <1>2, <2>2, <3>1
    <3> QED BY <2>1, <3>2, <3>3
  <2> QED BY <1>2, <2>3, <2>4
<1> QED BY <1>1, <1>4, <1>5

\* What a step of t leaves the other threads: their calls, and the pointers that are
\* theirs or that they read.
PtrFrame(t, u) ==
  /\ busy'[u] = busy[u]
  /\ \A h \in Pointers : ~Owns(t, h) => held'[h] = held[h]
  /\ \A h \in Pointers : held'[h] # held[h] /\ held'[h] # NoObject =>
       \/ held'[h] \notin made
       \/ \E g \in Pointers : t \in users[g] /\ held[g] = held'[h]
  /\ \A h \in Pointers : /\ users[h] = {u} => users'[h] = {u}
                         /\ u \in users[h] => u \in users'[h]

\* What t's own call says of it, in a form for the steps below.
LEMMA CallFacts ==
  ASSUME PtrInv, NEW t \in PtrThreads
  PROVE  LET h == busy[t].to
             g == busy[t].from
         IN  /\ busy[t].step \in PtrSteps /\ busy[t].call \in {"none", "copy", "move", "destroy"}
             /\ busy[t].step # "idle" =>
                  /\ h \in Pointers /\ users[h] = {t} /\ busy[t].call # "none"
                  /\ busy[t].call # "destroy" => g \in Pointers /\ g # h /\ t \in users[g]
                  /\ busy[t].call = "move" => users[g] = {t}
             /\ busy[t].step = "sub" => held[h] # NoObject
             /\ busy[t].step = "delete" => held[h] # NoObject /\ Holders(held[h]) = {h}
             /\ busy[t].step = "take" => busy[t].call # "destroy" /\ held[h] = NoObject
             /\ busy[t].step = "add" => /\ busy[t].call = "copy" /\ held[h] # NoObject
                                        /\ held[g] = held[h]
  BY DEF PtrInv, PtrTypeOK, CallOK, Idle, Owns

LEMMA StepFrame ==
  ASSUME PtrInv, NEW t \in PtrThreads, PtrStep(t), NEW u \in PtrThreads \ {t}
  PROVE  PtrFrame(t, u)
<1>1. /\ busy[t].step # "idle" =>
           /\ busy[t].to \in Pointers /\ users[busy[t].to] = {t}
           /\ busy[t].call # "destroy" => busy[t].from \in Pointers /\ t \in users[busy[t].from]
           /\ busy[t].call = "move" => users[busy[t].from] = {t}
      /\ busy[t].step = "take" => busy[t].call # "destroy"
      /\ held \in [Pointers -> Objects \cup {NoObject}]
      /\ users \in [Pointers -> SUBSET PtrThreads] /\ DOMAIN busy = PtrThreads
  BY CallFacts DEF PtrInv, PtrTypeOK
<1> USE DEF Enter, GoOn, PtrFrame, Owns
<1>2. ASSUME NEW h \in Pointers, PassOn(t, h) \/ Destroy(t, h) PROVE PtrFrame(t, u)
  BY <1>1, <1>2 DEF PassOn, Destroy
<1>3. ASSUME NEW h \in Pointers, NEW o \in Objects, Create(t, h, o) PROVE PtrFrame(t, u)
  BY <1>1, <1>3 DEF Create
<1>4. ASSUME NEW h \in Pointers, NEW g \in Pointers, CopyConstruct(t, h, g)
      PROVE  PtrFrame(t, u)
  BY <1>1, <1>4 DEF CopyConstruct
<1>5. ASSUME NEW h \in Pointers, NEW g \in Pointers, MoveConstruct(t, h, g)
      PROVE  PtrFrame(t, u)
  BY <1>1, <1>5 DEF MoveConstruct
<1>6. ASSUME NEW h \in Pointers, NEW g \in Pointers, CopyAssign(t, h, g) \/ MoveAssign(t, h, g)
      PROVE  PtrFrame(t, u)
  BY <1>1, <1>6 DEF CopyAssign, MoveAssign
<1>7. CASE Subtract(t)
  BY <1>1, <1>7 DEF Subtract
<1>8. CASE DeleteBoth(t)
  BY <1>1, <1>8 DEF DeleteBoth
<1>9. CASE TakeFields(t)
  BY <1>1, <1>9 DEF TakeFields
<1>10. CASE AddRef(t)
  BY <1>1, <1>10 DEF AddRef
<1> QED BY <1>2, <1>3, <1>4, <1>5, <1>6, <1>7, <1>8, <1>9, <1>10 DEF PtrStep

LEMMA StepKeepsCalls ==
  ASSUME PtrInv, NEW t \in PtrThreads, PtrStep(t), NEW u \in PtrThreads \ {t}
  PROVE  CallOK(u)'
<1> DEFINE h == busy[u].to
           g == busy[u].from
<1>1. PtrFrame(t, u)
  BY StepFrame
<1>2. CASE busy[u].step = "idle"
  BY <1>1, <1>2 DEF PtrFrame, CallOK, Idle, PtrSteps
<1>3. CASE busy[u].step # "idle"
  <2>1. /\ h \in Pointers /\ users[h] = {u} /\ users'[h] = {u} /\ held'[h] = held[h]
        /\ busy[u].call # "destroy" => /\ g \in Pointers /\ g # h /\ u \in users'[g]
                                       /\ held'[g] = held[g]
        /\ busy[u].call = "move" => users'[g] = {u}
        /\ busy'[u] = busy[u]
    BY <1>1, <1>3, CallFacts DEF PtrFrame, Owns
  <2>2. ASSUME busy[u].step = "delete" PROVE Holders(held[h])' = {h}
    <3>1. /\ held[h] # NoObject /\ held[h] \in made
          /\ \A k \in Pointers : held[k] = held[h] <=> k = h
      BY <2>1, <2>2, CallFacts DEF Holders, PtrInv, CountsMatch
    <3>2. ASSUME NEW k \in Pointers, k # h PROVE held'[k] # held[h]
      <4>1. held[k] # held[h] /\ t \notin users[h]
        BY <2>1, <3>1, <3>2
      <4>2. \A x \in Pointers : t \in users[x] => held[x] # held[h]
        BY <3>1, <4>1
      <4> QED BY <1>1, <3>1, <4>1, <4>2 DEF PtrFrame
    <3>3. PICK o : o = held[h]
      OBVIOUS
    <3>4. Holders(o)' = {h}
      BY <2>1, <3>2, <3>3 DEF Holders
    <3>5. held'[busy'[u].to] = o
      BY <2>1, <3>3
    <3> QED BY <2>1, <3>3, <3>4, <3>5 DEF Holders
  <2>3. busy'[u].step = "delete" => Holders(held[busy[u].to])' = {busy'[u].to}
    BY <2>1, <2>2
  <2> QED BY <1>3, <2>1, <2>3, CallFacts DEF CallOK, Idle, Owns
<1> QED BY <1>2, <1>3

LEMMA OthersUncounted ==
  ASSUME PtrInv, NEW t \in PtrThreads, PtrStep(t), NEW o
  PROVE  Uncounted(o)' \ {t} = Uncounted(o) \ {t}
<1>1. ASSUME NEW u \in PtrThreads \ {t}
      PROVE  /\ busy'[u] = busy[u]
             /\ busy[u].step # "idle" => held'[busy[u].to] = held[busy[u].to]
  BY StepFrame, CallFacts DEF PtrFrame, Owns
<1> QED BY <1>1 DEF Uncounted

\* The two parts of CountsMatch, one object at a time.
CountOf(o) == Holders(o) # {} /\ count[o] + Cardinality(Uncounted(o)) = Cardinality(Holders(o))

LEMMA StepDone ==
  ASSUME PtrInv, NEW t \in PtrThreads, PtrStep(t), PtrTypeOK', CallOK(t)',
         \A h \in Pointers : held'[h] # NoObject => held'[h] \in made',
         \A o \in made' : CountOf(o)'
  PROVE  PtrInv'
<1>1. \A u \in PtrThreads : CallOK(u)'
  BY StepKeepsCalls
<1> QED BY <1>1 DEF PtrInv, CountsMatch, CountOf

\* The sets change by one element at most; t is among the uncounted or not.
LEMMA UncountedAfter ==
  ASSUME PtrInv, NEW t \in PtrThreads, PtrStep(t), NEW o
  PROVE  LET wasin == busy[t].step \in {"add", "delete"} /\ held[busy[t].to] = o
             isin == busy'[t].step \in {"add", "delete"} /\ held'[busy'[t].to] = o
         IN  /\ (wasin <=> isin) => Uncounted(o)' = Uncounted(o)
             /\ isin /\ ~wasin =>
                  Cardinality(Uncounted(o)') = Cardinality(Uncounted(o)) + 1
             /\ wasin /\ ~isin =>
                  Cardinality(Uncounted(o)') = Cardinality(Uncounted(o)) - 1
<1>1. Uncounted(o)' \ {t} = Uncounted(o) \ {t}
  BY OthersUncounted
<1>2. /\ t \in Uncounted(o) <=> busy[t].step \in {"add", "delete"} /\ held[busy[t].to] = o
      /\ t \in Uncounted(o)' <=> busy'[t].step \in {"add", "delete"} /\ held'[busy'[t].to] = o
  BY DEF Uncounted
<1>3. IsFiniteSet(Uncounted(o))
  BY HoldersFinite
<1>4. CASE t \in Uncounted(o)' /\ t \notin Uncounted(o)
  <2>1. Uncounted(o)' = Uncounted(o) \cup {t}
    BY <1>1, <1>4
  <2> QED BY <1>2, <1>3, <1>4, <2>1, FS_AddElement
<1>5. CASE t \notin Uncounted(o)' /\ t \in Uncounted(o)
  <2>1. Uncounted(o)' = Uncounted(o) \ {t}
    BY <1>1, <1>5
  <2> QED BY <1>2, <1>3, <1>5, <2>1, FS_RemoveElement
<1>6. CASE t \in Uncounted(o)' <=> t \in Uncounted(o)
  <2>1. Uncounted(o)' = Uncounted(o)
    BY <1>1, <1>6
  <2> QED BY <1>2, <1>6, <2>1
<1> QED BY <1>4, <1>5, <1>6

LEMMA HoldersAfter ==
  ASSUME NEW o, NEW h \in Pointers, \A k \in Pointers \ {h} : held'[k] = held[k]
  PROVE  /\ held'[h] = o /\ held[h] = o => Holders(o)' = Holders(o)
         /\ held'[h] # o /\ held[h] # o => Holders(o)' = Holders(o)
         /\ held'[h] = o /\ held[h] # o =>
              /\ Holders(o)' = Holders(o) \cup {h}
              /\ Cardinality(Holders(o)') = Cardinality(Holders(o)) + 1
         /\ held'[h] # o /\ held[h] = o =>
              /\ Holders(o)' = Holders(o) \ {h}
              /\ Cardinality(Holders(o)') = Cardinality(Holders(o)) - 1
<1>1. IsFiniteSet(Holders(o))
  BY HoldersFinite
<1>2. CASE held'[h] = o /\ held[h] # o
  <2>1. Holders(o)' = Holders(o) \cup {h} /\ h \notin Holders(o)
    BY <1>2 DEF Holders
  <2> QED BY <1>1, <1>2, <2>1, FS_AddElement
<1>3. CASE held'[h] # o /\ held[h] = o
  <2>1. Holders(o)' = Holders(o) \ {h} /\ h \in Holders(o)
    BY <1>3 DEF Holders
  <2> QED BY <1>1, <1>3, <2>1, FS_RemoveElement
<1>4. CASE held'[h] = o <=> held[h] = o
  <2>1. Holders(o)' = Holders(o)
    BY <1>4 DEF Holders
  <2> QED BY <1>4, <2>1
<1> QED BY <1>2, <1>3, <1>4

\* A move: g's object is h's now.
LEMMA HoldersMoved ==
  ASSUME NEW o, o # NoObject, NEW h \in Pointers, NEW g \in Pointers, h # g,
         held \in [Pointers -> Objects \cup {NoObject}], held[h] = NoObject,
         held' = [held EXCEPT ![h] = held[g], ![g] = NoObject]
  PROVE  /\ Holders(o) # {} => Holders(o)' # {}
         /\ Cardinality(Holders(o)') = Cardinality(Holders(o))
<1>1. IsFiniteSet(Holders(o)) /\ Cardinality(Holders(o)) \in Nat
  BY HoldersFinite
<1>2. CASE held[g] = o
  <2>1. Holders(o)' = (Holders(o) \ {g}) \cup {h} /\ g \in Holders(o) /\ h \notin Holders(o) \ {g}
    BY <1>2 DEF Holders
  <2>2. /\ IsFiniteSet(Holders(o) \ {g})
        /\ Cardinality(Holders(o) \ {g}) = Cardinality(Holders(o)) - 1
    BY <1>1, <2>1, FS_RemoveElement
  <2>3. Cardinality((Holders(o) \ {g}) \cup {h}) = Cardinality(Holders(o) \ {g}) + 1
    BY <2>1, <2>2, FS_AddElement
  <2> QED BY <1>1, <2>1, <2>2, <2>3
<1>3. CASE held[g] # o
  <2>1. Holders(o)' = Holders(o)
    BY <1>3 DEF Holders
  <2> QED BY <2>1
<1> QED BY <1>2, <1>3

LEMMA PtrFacts ==
  ASSUME PtrInv
  PROVE  /\ held \in [Pointers -> Objects \cup {NoObject}] /\ NoObject \notin Objects
         /\ users \in [Pointers -> SUBSET PtrThreads] /\ count \in [Objects -> Nat]
         /\ made \subseteq Objects
         /\ busy \in [PtrThreads -> [step : PtrSteps, call : {"none", "copy", "move", "destroy"},
                                     to : Pointers \cup {NoObject},
                                     from : Pointers \cup {NoObject}]]
         /\ \A h \in Pointers : held[h] # NoObject => held[h] \in made
         /\ \A o \in made : CountOf(o) /\ o # NoObject /\ o \in Objects
         /\ \A o : Cardinality(Holders(o)) \in Nat /\ Cardinality(Uncounted(o)) \in Nat
  BY HoldersFinite, ObjectAssumption DEF PtrInv, PtrTypeOK, CountsMatch, CountOf

\* A call is entered, or the program hands pointers on: no object is touched.
LEMMA EntersKeep ==
  ASSUME PtrInv, NEW t \in PtrThreads, PtrStep(t), NEW h \in Pointers, NEW g \in Pointers,
         PassOn(t, h) \/ Destroy(t, h) \/ CopyAssign(t, h, g) \/ MoveAssign(t, h, g)
  PROVE  PtrInv'
<1>1. /\ held' = held /\ count' = count /\ made' = made
      /\ busy[t].step = "idle" /\ busy'[t].step \notin {"add", "delete"}
      /\ users' \in [Pointers -> SUBSET PtrThreads]
      /\ PtrTypeOK'
  <2>1. CASE PassOn(t, h)
    BY <2>1, PtrFacts DEF PassOn, Idle, PtrTypeOK
  <2>2. CASE Destroy(t, h) \/ CopyAssign(t, h, g) \/ MoveAssign(t, h, g)
    BY <2>2, PtrFacts DEF Destroy, CopyAssign, MoveAssign, Enter, Idle, PtrTypeOK, PtrSteps
  <2> QED BY <2>1, <2>2
<1>2. CallOK(t)'
  <2>1. CASE PassOn(t, h)
    BY <1>1, <2>1 DEF PassOn, CallOK, Idle, PtrSteps
  <2>2. CASE Destroy(t, h) \/ CopyAssign(t, h, g) \/ MoveAssign(t, h, g)
    BY <1>1, <2>2, PtrFacts DEF Destroy, CopyAssign, MoveAssign, Enter, CallOK, Idle, Owns, PtrSteps
  <2> QED BY <2>1, <2>2
<1>3. ASSUME NEW o \in made PROVE CountOf(o)'
  <2>1. Uncounted(o)' = Uncounted(o)
    BY <1>1, UncountedAfter
  <2>2. Holders(o)' = Holders(o)
    BY <1>1 DEF Holders
  <2> QED BY <1>1, <2>1, <2>2, PtrFacts DEF CountOf
<1> QED BY <1>1, <1>2, <1>3, PtrFacts, StepDone

LEMMA CreateKeeps ==
  ASSUME PtrInv, NEW t \in PtrThreads, PtrStep(t), NEW h \in Pointers, NEW o \in Objects,
         Create(t, h, o)
  PROVE  PtrInv'
<1>1. /\ held' = [held EXCEPT ![h] = o] /\ count' = [count EXCEPT ![o] = 1]
      /\ made' = made \cup {o} /\ users' = users /\ busy' = busy /\ o \notin made
      /\ busy[t].step = "idle" /\ held[h] = NoObject
  BY DEF Create, Idle
<1>2. PtrTypeOK'
  BY <1>1, PtrFacts DEF PtrTypeOK
<1>3. CallOK(t)'
  BY <1>1 DEF CallOK, Idle, PtrSteps
<1>4. \A k \in Pointers : held'[k] # NoObject => held'[k] \in made'
  BY <1>1, PtrFacts
<1>5. ASSUME NEW u \in made' PROVE CountOf(u)'
  <2>1. Uncounted(u)' = Uncounted(u)
    BY <1>1, UncountedAfter
  <2>2. CASE u = o
    <3>1. /\ \A k \in Pointers : held[k] # o
          /\ \A v \in PtrThreads : busy[v].step \in {"add", "delete"} =>
               busy[v].to \in Pointers
      BY <1>1, PtrFacts, CallFacts
    <3>2. Holders(u)' = {h} /\ Uncounted(u)' = {}
      BY <1>1, <2>1, <2>2, <3>1, PtrFacts DEF Holders, Uncounted
    <3>3. Cardinality(Holders(u)') = 1 /\ Cardinality(Uncounted(u)') = 0
      BY <3>2, FS_Singleton, FS_EmptySet
    <3>4. count'[u] = 1 /\ Holders(u)' # {}
      BY <1>1, <2>2, <3>2, PtrFacts
    <3> QED BY <3>3, <3>4 DEF CountOf
  <2>3. CASE u # o
    <3>1. Holders(u)' = Holders(u) /\ u \in made
      BY <1>1, <2>3, PtrFacts DEF Holders
    <3> QED BY <1>1, <2>1, <2>3, <3>1, PtrFacts DEF CountOf
  <2> QED BY <2>2, <2>3
<1> QED BY <1>2, <1>3, <1>4, <1>5, StepDone

\* A pointer is given another's object and goes on to count itself.
LEMMA CopyKeeps ==
  ASSUME PtrInv, NEW t \in PtrThreads, PtrStep(t), NEW h \in Pointers, NEW g \in Pointers,
         held[h] = NoObject, held[g] # NoObject, h # g, Owns(t, h), t \in users[g],
         busy[t].step \notin {"add", "delete"},
         held' = [held EXCEPT ![h] = held[g]], users' = users, count' = count, made' = made,
         busy' = [busy EXCEPT ![t] = [step |-> "add", call |-> "copy", to |-> h, from |-> g]]
  PROVE  PtrInv'
<1>1. busy'[t] = [step |-> "add", call |-> "copy", to |-> h, from |-> g]
  BY PtrFacts
<1>2. /\ held'[h] = held[g] /\ held'[g] = held[g] /\ held[g] \in made
      /\ \A k \in Pointers \ {h} : held'[k] = held[k]
  BY PtrFacts
<1>3. PtrTypeOK'
  BY PtrFacts DEF PtrTypeOK, PtrSteps
<1>4. CallOK(t)'
  BY <1>1, <1>2 DEF CallOK, Idle, Owns, PtrSteps
<1>5. \A k \in Pointers : held'[k] # NoObject => held'[k] \in made'
  BY <1>2, PtrFacts
<1>6. ASSUME NEW u \in made' PROVE CountOf(u)'
  <2>1. u \in made /\ u # NoObject
    BY PtrFacts
  <2>2. CASE u = held[g]
    <3>1. Cardinality(Uncounted(u)') = Cardinality(Uncounted(u)) + 1
      BY <1>1, <1>2, <2>2, UncountedAfter
    <3>2. /\ Holders(u)' = Holders(u) \cup {h}
          /\ Cardinality(Holders(u)') = Cardinality(Holders(u)) + 1
      BY <1>2, <2>1, <2>2, HoldersAfter
    <3> QED BY <2>1, <3>1, <3>2, PtrFacts DEF CountOf
  <2>3. CASE u # held[g]
    <3>1. Uncounted(u)' = Uncounted(u)
      BY <1>1, <1>2, <2>3, UncountedAfter
    <3>2. Holders(u)' = Holders(u)
      BY <1>2, <2>1, <2>3, HoldersAfter
    <3> QED BY <2>1, <3>1, <3>2, PtrFacts DEF CountOf
  <2> QED BY <2>2, <2>3
<1> QED BY <1>3, <1>4, <1>5, <1>6, StepDone

LEMMA MoveKeeps ==
  ASSUME PtrInv, NEW t \in PtrThreads, PtrStep(t), NEW h \in Pointers, NEW g \in Pointers,
         held[h] = NoObject, h # g, busy[t].step \notin {"add", "delete"},
         held' = [held EXCEPT ![h] = held[g], ![g] = NoObject],
         users' = users, count' = count, made' = made,
         busy' \in [PtrThreads -> [step : PtrSteps, call : {"none", "copy", "move", "destroy"},
                                   to : Pointers \cup {NoObject},
                                   from : Pointers \cup {NoObject}]],
         busy'[t].step = "idle"
  PROVE  PtrInv'
<1>1. PtrTypeOK'
  BY PtrFacts DEF PtrTypeOK
<1>2. CallOK(t)'
  BY DEF CallOK, Idle, PtrSteps
<1>3. \A k \in Pointers : held'[k] # NoObject => held'[k] \in made'
  BY PtrFacts
<1>4. ASSUME NEW u \in made' PROVE CountOf(u)'
  <2>1. u \in made /\ u # NoObject
    BY PtrFacts
  <2>2. Uncounted(u)' = Uncounted(u)
    BY UncountedAfter
  <2>3. /\ Holders(u) # {} => Holders(u)' # {}
        /\ Cardinality(Holders(u)') = Cardinality(Holders(u))
    BY <2>1, HoldersMoved, PtrFacts
  <2> QED BY <2>1, <2>2, <2>3, PtrFacts DEF CountOf
<1> QED BY <1>1, <1>2, <1>3, <1>4, StepDone

LEMMA SubtractKeeps == ASSUME PtrInv, NEW t \in PtrThreads, PtrStep(t), Subtract(t)
                       PROVE  PtrInv'
<1> DEFINE h == busy[t].to
           o == held[h]
<1>1. /\ busy[t].step = "sub" /\ h \in Pointers /\ users[h] = {t} /\ o \in made
      /\ o # NoObject /\ o \in Objects /\ busy[t].call # "none"
      /\ busy[t].call # "destroy" => /\ busy[t].from \in Pointers /\ busy[t].from # h
                                     /\ t \in users[busy[t].from]
      /\ busy[t].call = "move" => users[busy[t].from] = {t}
  BY CallFacts, PtrFacts DEF Subtract
<1>2. /\ count[o] >= 1 /\ count[o] \in Nat
      /\ LastOne(o) => Holders(o) = {h}
  BY <1>1, AtSubtract, PtrFacts
<1>3. count' = [count EXCEPT ![o] = @ - 1] /\ users' = users /\ made' = made
  BY DEF Subtract
<1>4. \A u \in made \ {o} : count'[u] = count[u]
  BY <1>3, PtrFacts
<1>5. count' \in [Objects -> Nat] /\ count'[o] = count[o] - 1
  BY <1>1, <1>2, <1>3, PtrFacts
<1>6. CountOf(o) /\ Cardinality(Holders(o)) \in Nat /\ Cardinality(Uncounted(o)) \in Nat
  BY <1>1, PtrFacts
<1>7. CASE LastOne(o)
  <2>1. held' = held /\ busy' = [busy EXCEPT ![t] = [@ EXCEPT !.step = "delete"]]
    BY <1>7 DEF Subtract, GoOn
  <2>2. busy'[t] = [busy[t] EXCEPT !.step = "delete"] /\ PtrTypeOK'
    BY <1>3, <1>5, <2>1, PtrFacts DEF PtrTypeOK, PtrSteps
  <2>3. /\ busy'[t].step = "delete" /\ busy'[t].to = h /\ busy'[t].from = busy[t].from
        /\ busy'[t].call = busy[t].call
    BY <2>2, PtrFacts
  <2>4. \A u : Holders(u)' = Holders(u)
    BY <2>1 DEF Holders
  <2>5. PICK x : x = o
    OBVIOUS
  <2>6. CallOK(t)'
    <3>1. Holders(held[busy[t].to])' = {busy'[t].to}
      <4>1. Holders(x)' = {h} /\ held'[busy'[t].to] = x /\ busy'[t].to = h
        BY <1>2, <1>7, <2>1, <2>3, <2>4, <2>5
      <4> QED BY <4>1 DEF Holders
    <3> QED BY <1>1, <1>3, <2>1, <2>3, <3>1, CallFacts DEF CallOK, Idle, Owns, PtrSteps
  <2>7. ASSUME NEW u \in made' PROVE CountOf(u)'
    <3>1. CASE u = o
      <4>1. Cardinality(Uncounted(u)') = Cardinality(Uncounted(u)) + 1
        BY <1>1, <2>1, <2>3, <3>1, UncountedAfter
      <4>2. /\ count'[u] = count[u] - 1 /\ count[u] \in Nat
            /\ Cardinality(Holders(u)) \in Nat /\ Cardinality(Uncounted(u)) \in Nat
            /\ CountOf(u) /\ Holders(u)' = Holders(u)
        BY <1>2, <1>5, <1>6, <2>4, <3>1
      <4> HIDE DEF h, o
      <4> QED BY <4>1, <4>2 DEF CountOf
    <3>2. CASE u # o
      <4>1. Uncounted(u)' = Uncounted(u)
        BY <1>1, <2>1, <2>3, <3>2, UncountedAfter
      <4> QED BY <1>3, <1>4, <2>4, <3>2, <4>1, PtrFacts DEF CountOf
    <3> QED BY <3>1, <3>2
  <2> QED BY <1>3, <2>1, <2>2, <2>6, <2>7, PtrFacts, StepDone
<1>8. CASE ~LastOne(o)
  <2>1. /\ held' = [held EXCEPT ![h] = NoObject]
        /\ busy' = [busy EXCEPT ![t] = IF busy[t].call = "destroy" THEN Resting
                                       ELSE [@ EXCEPT !.step = "take"]]
    BY <1>8 DEF Subtract, GoOn, After
  <2>2. PtrTypeOK'
    BY <1>3, <1>5, <2>1, PtrFacts, ZenonT(40) DEF PtrTypeOK, PtrSteps, Resting
  <2>3. /\ busy[t].call = "destroy" => busy'[t].step = "idle"
        /\ busy[t].call # "destroy" =>
             /\ busy'[t].step = "take" /\ busy'[t].to = h /\ busy'[t].from = busy[t].from
             /\ busy'[t].call = busy[t].call
    BY <2>1, PtrFacts DEF Resting
  <2>4. held'[h] = NoObject /\ \A k \in Pointers \ {h} : held'[k] = held[k]
    BY <1>1, <2>1, PtrFacts
  <2>5. CallOK(t)'
    BY <1>1, <1>3, <2>3, <2>4, CallFacts DEF CallOK, Idle, Owns, PtrSteps
  <2>6. ASSUME NEW u \in made' PROVE CountOf(u)'
    <3>1. Uncounted(u)' = Uncounted(u)
      BY <1>1, <2>3, UncountedAfter
    <3>2. CASE u = o
      <4>1. Cardinality(Holders(u)') = Cardinality(Holders(u)) - 1
        BY <1>1, <2>4, <3>2, HoldersAfter
      <4>2. /\ count'[u] = count[u] - 1 /\ count[u] \in Nat /\ count[u] >= 2
            /\ Cardinality(Holders(u)) \in Nat /\ Cardinality(Uncounted(u)) \in Nat
            /\ CountOf(u)
        BY <1>2, <1>5, <1>6, <1>8, <3>2 DEF LastOne
      <4>3. count'[u] + Cardinality(Uncounted(u)') = Cardinality(Holders(u)')
            /\ Cardinality(Holders(u)') # 0
        <5> HIDE DEF h, o
        <5> QED BY <3>1, <4>1, <4>2 DEF CountOf
      <4>4. Holders(u)' # {}
        BY <4>3, FS_EmptySet
      <4> QED BY <4>3, <4>4 DEF CountOf
    <3>3. CASE u # o
      <4>1. Holders(u)' = Holders(u)
        BY <1>1, <1>3, <2>4, <3>3, HoldersAfter, PtrFacts
      <4> QED BY <1>3, <1>4, <3>1, <3>3, <4>1, PtrFacts DEF CountOf
    <3> QED BY <3>2, <3>3
  <2>7. \A k \in Pointers : held'[k] # NoObject => held'[k] \in made'
    BY <1>3, <2>4, PtrFacts
  <2> QED BY <2>2, <2>5, <2>6, <2>7, StepDone
<1> QED BY <1>7, <1>8

LEMMA DeleteKeeps == ASSUME PtrInv, NEW t \in PtrThreads, PtrStep(t), DeleteBoth(t)
                     PROVE  PtrInv'
<1> DEFINE h == busy[t].to
           o == held[h]
<1>1. /\ busy[t].step = "delete" /\ h \in Pointers /\ users[h] = {t} /\ o \in made
      /\ busy[t].call # "none" /\ Holders(o) = {h}
      /\ busy[t].call # "destroy" => /\ busy[t].from \in Pointers /\ busy[t].from # h
                                     /\ t \in users[busy[t].from]
      /\ busy[t].call = "move" => users[busy[t].from] = {t}
  BY CallFacts, PtrFacts DEF DeleteBoth
<1>2. /\ held' = [held EXCEPT ![h] = NoObject] /\ made' = made \ {o}
      /\ users' = users /\ count' = count
      /\ busy' = [busy EXCEPT ![t] = IF busy[t].call = "destroy" THEN Resting
                                     ELSE [@ EXCEPT !.step = "take"]]
  BY DEF DeleteBoth, GoOn, After
<1>3. PtrTypeOK'
  BY <1>2, PtrFacts, ZenonT(40) DEF PtrTypeOK, PtrSteps, Resting
<1>4. /\ busy[t].call = "destroy" => busy'[t].step = "idle"
      /\ busy[t].call # "destroy" =>
           /\ busy'[t].step = "take" /\ busy'[t].to = h /\ busy'[t].from = busy[t].from
           /\ busy'[t].call = busy[t].call
  BY <1>2, PtrFacts DEF Resting
<1>5. held'[h] = NoObject /\ \A k \in Pointers \ {h} : held'[k] = held[k] /\ held[k] # o
  BY <1>1, <1>2, PtrFacts DEF Holders
<1>6. CallOK(t)'
  BY <1>1, <1>2, <1>4, <1>5, CallFacts DEF CallOK, Idle, Owns, PtrSteps
<1>7. ASSUME NEW u \in made' PROVE CountOf(u)'
  <2>1. u \in made /\ u # o /\ u # NoObject
    BY <1>2, PtrFacts
  <2>2. Uncounted(u)' = Uncounted(u)
    BY <1>1, <1>4, <2>1, UncountedAfter
  <2>3. Holders(u)' = Holders(u)
    BY <1>1, <1>5, <2>1, HoldersAfter
  <2> QED BY <1>2, <2>1, <2>2, <2>3, PtrFacts DEF CountOf
<1>8. \A k \in Pointers : held'[k] # NoObject => held'[k] \in made'
  BY <1>2, <1>5, PtrFacts
<1> QED BY <1>3, <1>6, <1>7, <1>8, StepDone

LEMMA AddKeeps == ASSUME PtrInv, NEW t \in PtrThreads, PtrStep(t), AddRef(t)
                  PROVE  PtrInv'
<1> DEFINE o == held[busy[t].to]
<1>1. /\ busy[t].step = "add" /\ busy[t].to \in Pointers /\ o \in made /\ o \in Objects
  BY CallFacts, PtrFacts DEF AddRef
<1>2. /\ count' = [count EXCEPT ![o] = @ + 1] /\ busy' = [busy EXCEPT ![t] = Resting]
      /\ held' = held /\ users' = users /\ made' = made
  BY DEF AddRef, GoOn
<1>3. busy'[t].step = "idle"
  BY <1>2, PtrFacts DEF Resting
<1>4. PtrTypeOK'
  BY <1>1, <1>2, PtrFacts DEF PtrTypeOK, PtrSteps, Resting
<1>5. CallOK(t)'
  BY <1>3 DEF CallOK, Idle, PtrSteps
<1>6. ASSUME NEW u \in made' PROVE CountOf(u)'
  <2>1. Holders(u)' = Holders(u) /\ u \in made /\ CountOf(u)
        /\ Cardinality(Holders(u)) \in Nat /\ Cardinality(Uncounted(u)) \in Nat
    BY <1>2, PtrFacts DEF Holders
  <2>2. CASE u = o
    <3>1. Cardinality(Uncounted(u)') = Cardinality(Uncounted(u)) - 1
      BY <1>1, <1>3, <2>2, UncountedAfter
    <3>2. count[u] \in Nat /\ count'[u] = count[u] + 1
      BY <1>1, <1>2, <2>2, PtrFacts
    <3> QED BY <2>1, <3>1, <3>2 DEF CountOf
  <2>3. CASE u # o
    <3>1. Uncounted(u)' = Uncounted(u)
      BY <1>1, <1>3, <2>3, UncountedAfter
    <3>2. count'[u] = count[u]
      BY <1>2, <2>1, <2>3, PtrFacts
    <3> QED BY <2>1, <3>1, <3>2 DEF CountOf
  <2> QED BY <2>2, <2>3
<1>7. \A k \in Pointers : held'[k] # NoObject => held'[k] \in made'
  BY <1>2, PtrFacts
<1> QED BY <1>4, <1>5, <1>6, <1>7, StepDone

LEMMA TakeKeeps == ASSUME PtrInv, NEW t \in PtrThreads, PtrStep(t), TakeFields(t)
                   PROVE  PtrInv'
<1> DEFINE h == busy[t].to
           g == busy[t].from
<1>1. /\ busy[t].step = "take" /\ busy[t].call \in {"copy", "move"}
      /\ h \in Pointers /\ users[h] = {t} /\ g \in Pointers /\ g # h /\ t \in users[g]
      /\ held[h] = NoObject
  BY CallFacts DEF TakeFields
<1>2. users' = users /\ count' = count /\ made' = made
  BY DEF TakeFields
<1>3. CASE busy[t].call = "move"
  <2>1. /\ held' = [held EXCEPT ![h] = held[g], ![g] = NoObject]
        /\ busy' = [busy EXCEPT ![t] = Resting]
    BY <1>3 DEF TakeFields, GoOn
  <2>2. /\ busy' \in [PtrThreads -> [step : PtrSteps, call : {"none", "copy", "move", "destroy"},
                                     to : Pointers \cup {NoObject},
                                     from : Pointers \cup {NoObject}]]
        /\ busy'[t].step = "idle"
    BY <2>1, PtrFacts DEF Resting, PtrSteps
  <2> HIDE DEF h, g
  <2> QED BY <1>1, <1>2, <2>1, <2>2, MoveKeeps
<1>4. CASE busy[t].call = "copy" /\ held[g] # NoObject
  <2>1. /\ held' = [held EXCEPT ![h] = held[g]]
        /\ busy' = [busy EXCEPT ![t] = [@ EXCEPT !.step = "add"]]
    BY <1>4 DEF TakeFields, GoOn
  <2>2. [busy[t] EXCEPT !.step = "add"]
          = [step |-> "add", call |-> "copy", to |-> h, from |-> g]
    BY <1>4, PtrFacts
  <2>3. busy' = [busy EXCEPT ![t] = [step |-> "add", call |-> "copy", to |-> h, from |-> g]]
    BY <2>1, <2>2
  <2>4. Owns(t, h)
    BY <1>1 DEF Owns
  <2> HIDE DEF h, g
  <2> QED BY <1>1, <1>2, <1>4, <2>1, <2>3, <2>4, CopyKeeps
<1>5. CASE busy[t].call = "copy" /\ held[g] = NoObject
  <2>1. held' = held /\ busy' = [busy EXCEPT ![t] = Resting]
    <3>1. /\ held' = [held EXCEPT ![h] = held[g]]
          /\ busy' = [busy EXCEPT ![t] = Resting]
      BY <1>5 DEF TakeFields, GoOn
    <3>2. held \in [Pointers -> Objects \cup {NoObject}] /\ held[g] = held[h] /\ h \in Pointers
      BY <1>1, <1>5, PtrFacts
    <3> HIDE DEF h, g
    <3> QED BY <3>1, <3>2
  <2>2. busy'[t].step = "idle" /\ PtrTypeOK'
    BY <1>2, <2>1, PtrFacts DEF Resting, PtrSteps, PtrTypeOK
  <2>3. CallOK(t)'
    BY <2>2 DEF CallOK, Idle, PtrSteps
  <2>4. ASSUME NEW o \in made PROVE CountOf(o)'
    <3>1. Uncounted(o)' = Uncounted(o)
      BY <1>1, <2>2, UncountedAfter
    <3>2. Holders(o)' = Holders(o)
      BY <2>1 DEF Holders
    <3> QED BY <1>2, <3>1, <3>2, PtrFacts DEF CountOf
  <2> QED BY <1>2, <2>1, <2>2, <2>3, <2>4, PtrFacts, StepDone
<1> QED BY <1>1, <1>3, <1>4, <1>5

LEMMA PtrStepKeeps == PtrInv /\ [PtrNext]_ptrVars => PtrInv'
<1> SUFFICES ASSUME PtrInv, [PtrNext]_ptrVars PROVE PtrInv'
  OBVIOUS
<1>1. ASSUME NEW t \in PtrThreads, PtrStep(t), NEW h \in Pointers, NEW g \in Pointers,
             CopyConstruct(t, h, g)
      PROVE  PtrInv'
  <2>1. /\ held[h] = NoObject /\ held[g] # NoObject /\ h # g /\ Owns(t, h) /\ t \in users[g]
        /\ busy[t].step = "idle" /\ held' = [held EXCEPT ![h] = held[g]]
        /\ busy' = [busy EXCEPT ![t] = [step |-> "add", call |-> "copy", to |-> h, from |-> g]]
        /\ users' = users /\ count' = count /\ made' = made
    BY <1>1 DEF CopyConstruct, Enter, Idle
  <2> QED BY <1>1, <2>1, CopyKeeps
<1>2. ASSUME NEW t \in PtrThreads, PtrStep(t), NEW h \in Pointers, NEW g \in Pointers,
             MoveConstruct(t, h, g)
      PROVE  PtrInv'
  <2>1. /\ held[h] = NoObject /\ h # g /\ busy[t].step = "idle" /\ busy' = busy
        /\ held' = [held EXCEPT ![h] = held[g], ![g] = NoObject]
        /\ users' = users /\ count' = count /\ made' = made
    BY <1>2 DEF MoveConstruct, Idle
  <2> QED BY <1>2, <2>1, MoveKeeps, PtrFacts
<1>3. CASE UNCHANGED ptrVars
  <2>1. /\ held' = held /\ users' = users /\ count' = count /\ made' = made /\ busy' = busy
    BY <1>3 DEF ptrVars
  <2>2. PtrTypeOK'
    BY <2>1 DEF PtrInv, PtrTypeOK
  <2>3. CountsMatch'
    BY <2>1 DEF PtrInv, CountsMatch, Holders, Uncounted
  <2>4. \A t \in PtrThreads : CallOK(t)'
    BY <2>1 DEF PtrInv, CallOK, Idle, Owns, Holders
  <2> QED BY <2>2, <2>3, <2>4 DEF PtrInv
<1> QED BY <1>1, <1>2, <1>3, EntersKeep, CreateKeeps, SubtractKeeps, DeleteKeeps, TakeKeeps,
           AddKeeps DEF PtrNext, PtrStep
-----------------------------------------------------------------------------
(* The theorems about the components, and about all of them side by side. *)

LEMMA StepOfOne ==
  [Next]_vars => /\ [MutexNext]_mutexVars /\ [PtrNext]_ptrVars /\ [SingletonNext]_singletonVars
  BY DEF Next, PrintPart, MutexPart, FlightPart, PointerPart, SingletonPart, vars

LEMMA InitOfAll == Init => MutexInit /\ PtrInit /\ SingletonInit
  BY DEF Init

\* Each popper gets each pusher's items in the order they were pushed, and no item is
\* popped twice, for all the orders in which the mutex is given.
THEOREM PopsInOrderOnce == MutexSpec => []InOrderOnce
<1>1. MutexInv => InOrderOnce
  BY DEF MutexInv
<1> QED BY <1>1, MutexInitially, MutexStep, PTL DEF MutexSpec

\* SharedPtr: nobody is left with a deleted object, none is left without a pointer, and
\* the count is that of the pointers, but for those whose part is on its way.
THEOREM CountsArePointers == PtrSpec => []CountsMatch
<1>1. PtrInv => CountsMatch
  BY DEF PtrInv
<1> QED BY <1>1, PtrInitially, PtrStepKeeps, PTL DEF PtrSpec

\* The same of the queue when it is one of the programs that MCThreads runs.
THEOREM PopsBesideOthers == Spec => []InOrderOnce
<1>1. MutexInv => InOrderOnce
  BY DEF MutexInv
<1> QED BY <1>1, InitOfAll, StepOfOne, MutexInitially, MutexStep, PTL DEF Spec

\* Beside the other programs too counts match pointers, and the ways to make a singleton,
\* however their callers interleave, make one.
THEOREM SharedBesideOthers == Spec => []SharedOnce
<1>1. PtrInv /\ SingletonInv => SharedOnce
  BY SingletonOne DEF PtrInv, SharedOnce
<1> QED BY <1>1, InitOfAll, StepOfOne, PtrInitially, PtrStepKeeps,
           SingletonInitially, SingletonStep, PTL DEF Spec

\* Whichever of the printing programs runs, and however its threads and wakeups are
\* scheduled, each line is the next number, by the thread whose parity it has.
THEOREM PrintersTakeTurns == Spec => InTurn
<1>1. Init => printed = << >>
  BY DEF Init
<1>2. Spec => printed = << >> /\ [][TakeTurn]_printed
  BY <1>1, PrintInitially, PrintStep, PTL DEF Spec
<1> QED BY <1>2 DEF InTurn
=============================================================================
