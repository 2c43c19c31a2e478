------------------------ MODULE SlidingWindowCounter ------------------------
(***************************************************************************)
(* Rate Limiter/Sliding Window Counter/code.go: the window is cut into     *)
(* slots that are counted, and reused, one by one.  s.mu covers Allow, the *)
(* only method, so a call is one step.  Slots are found, and compared, by  *)
(* UnixNano and time.Unix: by the wall clock, which may be set back.       *)
(***************************************************************************)
EXTENDS Clock, Sequences, FiniteSetsExt

CONSTANTS SlotsLimit, SlotsWindow, NumSlots,
          FirstReading,   \* what the wall clock says at first, since 1970
          SlotsSetBack,   \* by how much it may be set back
          SlotsEnd        \* bound: the true time at which a behaviour stops

\* NewSlidingWindowCounter lines 27-35.  Fewer nanoseconds than slots would make
\* slotDuration 0 and Allow divide by it.
ASSUME SlotsAssumption == SlotsLimit \in Nat \ {0} /\ NumSlots \in Nat \ {0}
ASSUME ReadingAssumption == FirstReading \in Nat /\ SlotsSetBack \subseteq Nat \ {0}
ASSUME SlotsWindowAssumption == SlotsWindow \in Nat /\ SlotsWindow >= NumSlots

VARIABLES slots,     \* [timestamp, count] per index
          nowNano,   \* what time.Now() says; now is the true time since the start
          allowed    \* history: when requests were allowed, and what the clock read

slotsVars == <<now, slots, nowNano, allowed>>

\* The duration is truncated: the slots may cover less than the window.
SlotDuration == SlotsWindow \div NumSlots

Index == (nowNano \div SlotDuration) % NumSlots

SlotStart == nowNano - (nowNano % SlotDuration)

\* time.Time{} is long before the first call.
SlotsInit == /\ now = 0 /\ nowNano = FirstReading
             /\ slots = [i \in 0 .. NumSlots - 1 |-> [timestamp |-> -SlotsWindow, count |-> 0]]
             /\ allowed = << >>

\* Mutant: a slot that is used again keeps the count of its last round.
RefreshedKeepsCount == [slots EXCEPT ![Index].timestamp = SlotStart]

\* Lines 55-60.
Refreshed == IF slots[Index].timestamp = SlotStart
               THEN slots
               ELSE [slots EXCEPT ![Index] = [timestamp |-> SlotStart, count |-> 0]]

\* Mutant: only the slots that started within the last slot's length count.
CountedCurrent(s) == {i \in DOMAIN s : s[i].timestamp > nowNano - SlotDuration}

Counted(s) == {i \in DOMAIN s : s[i].timestamp > nowNano - SlotsWindow}

TotalCount(s) == MapThenSumSet(LAMBDA i : s[i].count, Counted(s))

Allowed == /\ TotalCount(Refreshed) < SlotsLimit
           /\ slots' = [Refreshed EXCEPT ![Index].count = @ + 1]
           /\ allowed' = Append(allowed, [at |-> now, read |-> nowNano])
           /\ UNCHANGED <<now, nowNano>>

Refused == /\ TotalCount(Refreshed) >= SlotsLimit
           /\ slots' = Refreshed
           /\ UNCHANGED <<now, nowNano, allowed>>

SlotsAllow == Allowed \/ Refused

SlotsTick == /\ now < SlotsEnd
             /\ now' = now + 1 /\ nowNano' = nowNano + 1
             /\ UNCHANGED <<slots, allowed>>

\* Not to before 1970, where Go's % would give a negative index.
SlotsClockSetBack == \E b \in SlotsSetBack : /\ now < SlotsEnd /\ b <= nowNano
                                             /\ now' = now + 1 /\ nowNano' = nowNano - b
                                             /\ UNCHANGED <<slots, allowed>>

SlotsNext == SlotsAllow \/ SlotsTick \/ SlotsClockSetBack

SlotsSpec == SlotsInit /\ [][SlotsNext]_slotsVars
-----------------------------------------------------------------------------
(* Properties *)

\* A slot never counts more than the limit.
SlotsTypeOK == /\ now \in Nat /\ nowNano \in Nat /\ allowed \in Seq([at : Nat, read : Nat])
               /\ slots \in [0 .. NumSlots - 1 -> [timestamp : Int, count : 0 .. SlotsLimit]]

\* By how much the clock has lost on the true time.
Lost == (FirstReading + now) - nowNano

LostAt(j) == (FirstReading + allowed[j].at) - allowed[j].read

AllSlotsButOne == (NumSlots - 1) * SlotDuration

\* What main()'s example counts on, and how far it may: in every span of all
\* slots but one the limit holds, wherever the span begins, unless the clock was set
\* back by more than that within it.  Slots that leave the window, or are used again,
\* for a later round or an earlier one, take no request of that span with them.
LimitOverAllSlotsButOne ==
  \A i \in 1 .. Len(allowed) - SlotsLimit :
    \/ allowed[i + SlotsLimit].at - allowed[i].at > AllSlotsButOne
    \/ LostAt(i + SlotsLimit) - LostAt(i) > AllSlotsButOne

\* Those allowed at a reading of the clock after the window began that ends at its
\* reading now.
WithinWindow == {j \in 1 .. Len(allowed) : allowed[j].read > nowNano - SlotsWindow}

\* A request is refused only if Limit were allowed within the window, as the clock has
\* it: a slot never counts requests of an earlier round, nor outlives the window.
\* (After a set-back the requests of readings that lie ahead count until then.)
SlotsRefuseOnlyAtLimit ==
  TotalCount(Refreshed) >= SlotsLimit => Cardinality(WithinWindow) >= SlotsLimit
-----------------------------------------------------------------------------
\* Why: a slot's count is that of some requests that read a time in its round, and
\* among them are all of late: neither the time since nor what the clock has lost
\* since is more than all slots but one.
Round(t) == t \div SlotDuration

Slot(j) == Round(allowed[j].read) % NumSlots

OfLate(j) == now - allowed[j].at <= AllSlotsButOne /\ Lost - LostAt(j) <= AllSlotsButOne

Accounts(s, M) ==
  /\ \A i \in 0 .. NumSlots - 1 :
       /\ s[i].count = Cardinality(M[i])
       /\ \A j \in M[i] : Slot(j) = i /\ s[i].timestamp = SlotDuration * Round(allowed[j].read)
  /\ \A j \in 1 .. Len(allowed) : OfLate(j) => j \in M[Slot(j)]
=============================================================================
