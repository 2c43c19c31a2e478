------------------------------ MODULE LFUCache ------------------------------
(***************************************************************************)
(* LFU/LFU.cpp: a map from keys to nodes, a list of nodes per frequency    *)
(* and the least frequency.  A list is a sequence here, first node first   *)
(* (LRUCache has the links), and one that does not exist is empty, as the  *)
(* code deletes the empty ones.  One thread calls, a call is a step.       *)
(***************************************************************************)
EXTENDS Naturals, SequencesExt, FiniteSetsExt

CONSTANTS LfuKeys, LfuValues, LfuNone,
          LfuCapacities,   \* what the constructor may be given
          MaxFreq          \* bound: no call for a key that has been used MaxFreq times

\* With capacity 0 the first put would look for a last node where there is none.
ASSUME LfuCapacityAssumption == LfuCapacities \subseteq Nat \ {0}
ASSUME FreqAssumption == MaxFreq \in Nat \ {0}

VARIABLES lfuCapacity,
          freq,         \* of the key's node; 0 if the key is not in the map
          lfuVal,
          freqToList, minFreq, lfuAnswer,
          uses          \* history: the keys there are, the last used first

lfuVars == <<lfuCapacity, freq, lfuVal, freqToList, minFreq, lfuAnswer, uses>>

LfuInit == /\ lfuCapacity \in LfuCapacities
           /\ freq = [k \in LfuKeys |-> 0] /\ lfuVal = [k \in LfuKeys |-> LfuNone]
           /\ freqToList = [f \in 1 .. MaxFreq |-> << >>]
           /\ minFreq = 1 /\ lfuAnswer = LfuNone /\ uses = << >>

Present == {k \in LfuKeys : freq[k] # 0}

\* A key is in a list once.
Drop(s, k) == RemoveFirst(s, k)

\* Mutant: the node joins the back of its new list.
TouchedLast(k) ==
  LET f == freq[k]
      left == [freqToList EXCEPT ![f] = Drop(@, k)]
  IN  /\ minFreq' = IF left[f] = << >> /\ f = minFreq THEN minFreq + 1 ELSE minFreq
      /\ freqToList' = [left EXCEPT ![f + 1] = Append(@, k)]
      /\ freq' = [freq EXCEPT ![k] = f + 1]

\* getNode of a key that is there.
Touched(k) ==
  LET f == freq[k]
      left == [freqToList EXCEPT ![f] = Drop(@, k)]
  IN  /\ minFreq' = IF left[f] = << >> /\ f = minFreq THEN minFreq + 1 ELSE minFreq
      /\ freqToList' = [left EXCEPT ![f + 1] = <<k>> \o @]
      /\ freq' = [freq EXCEPT ![k] = f + 1]

LfuHit(k) == /\ freq[k] \in 1 .. MaxFreq - 1 /\ Touched(k)
             /\ uses' = <<k>> \o Drop(uses, k)
             /\ lfuAnswer' = lfuVal[k]
             /\ UNCHANGED lfuVal

LfuMiss(k) == /\ freq[k] = 0 /\ lfuAnswer' = LfuNone
              /\ UNCHANGED <<freq, lfuVal, freqToList, minFreq, uses>>

LfuReplace(k, v) == /\ freq[k] \in 1 .. MaxFreq - 1 /\ Touched(k)
                    /\ uses' = <<k>> \o Drop(uses, k)
                    /\ lfuVal' = [lfuVal EXCEPT ![k] = v]
                    /\ UNCHANGED lfuAnswer

LfuFull == Cardinality(Present) = lfuCapacity

\* The key that makes room: the last of the list of the least frequency.
Evicted == Last(freqToList[minFreq])

LfuInsert(k, v) ==
  /\ freq[k] = 0
  /\ LET room == IF LfuFull THEN [freqToList EXCEPT ![minFreq] = Drop(@, Evicted)] ELSE freqToList
     IN  freqToList' = [room EXCEPT ![1] = <<k>> \o @]
  /\ minFreq' = 1
  /\ freq' = [x \in LfuKeys |->
               IF x = k THEN 1 ELSE IF LfuFull /\ x = Evicted THEN 0 ELSE freq[x]]
  /\ lfuVal' = [lfuVal EXCEPT ![k] = v]
  /\ uses' = <<k>> \o IF LfuFull THEN Drop(uses, Evicted) ELSE uses
  /\ UNCHANGED lfuAnswer

LfuNext == /\ \E k \in LfuKeys : \/ LfuHit(k) \/ LfuMiss(k)
                                 \/ \E v \in LfuValues : LfuReplace(k, v) \/ LfuInsert(k, v)
           /\ UNCHANGED lfuCapacity
-----------------------------------------------------------------------------
(* Properties *)

LfuEntries == [i \in DOMAIN uses |->
                [key |-> uses[i], val |-> lfuVal[uses[i]], freq |-> freq[uses[i]],
                 stamp |-> 0]]
=============================================================================
