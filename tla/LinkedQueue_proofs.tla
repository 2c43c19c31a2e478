------------------------- MODULE LinkedQueue_proofs -------------------------
(***************************************************************************)
(* Proofs about LinkedQueue, for any nodes, values and threads, of which   *)
(* those in a team of the file's test use the queue: one that pushes and   *)
(* one that pops, or any number that push.  The inductive invariant says   *)
(* that there are nodes c[1] .. c[n], no two the same, that make up the    *)
(* list, where every other live node is, and what each thread knows of the *)
(* list.  From it come NothingLost and the refinement of BoundedQueue.     *)
(***************************************************************************)
EXTENDS LinkedQueue, FiniteSetTheorems, WellFoundedInduction, TLAPS

(* The invariant *)

Room == Cardinality(Nodes)

\* Where p is: its new node is not linked yet; is linked and not counted; its old dummy
\* is not deleted yet; is out of the list and not counted.
Unlinked(p) == pc[p] \in {"loadTail", "link", "loadNext", "help"}
Counting(p) == pc[p] \in {"swing", "countUp"}
Detached(p) == pc[p] \in {"take", "free"}
Discounting(p) == pc[p] \in {"take", "free", "countDown"}

LinkedType ==
  /\ team \in Teams /\ weak \in BOOLEAN
  /\ head \in Pointers /\ tail \in Pointers /\ size \in Int
  /\ next \in [Nodes -> Pointers]
  /\ data \in [Nodes -> Values \cup {None}]
  /\ live \subseteq Nodes
  /\ fault \in BOOLEAN
  /\ pc \in [Procs -> {"idle", "loadTail", "link", "loadNext", "help", "swing", "countUp",
                       "loadHead", "loadFirst", "claim", "take", "free", "countDown"}]
  /\ \A p \in Producers : pc[p] = "idle" \/ Unlinked(p) \/ Counting(p)
  /\ \A q \in Consumers : pc[q] \in {"idle", "loadHead", "loadFirst", "claim"} \/ Discounting(q)
  /\ \A p \in Procs : p \notin team => pc[p] = "idle"
  /\ mine \in [Procs -> Pointers]
  /\ seen \in [Procs -> Pointers]
  /\ loaded \in [Procs -> Pointers]
  /\ result \in [Procs -> Values \cup {None}]

\* The nodes c[1] .. c[n] are the list, from the dummy to the last.
Chain(c, n) == /\ n \in 1 .. Room
               /\ c \in [1 .. n -> Nodes]
               /\ \A i, j \in 1 .. n : c[i] = c[j] => i = j
               /\ head = c[1]
               /\ \A i \in 1 .. n - 1 : next[c[i]] = c[i + 1]
               /\ next[c[n]] = Null

\* Every live node is in the list, in the hands of the producer that will link it or
\* in those of the consumer that will delete it, and in one of these places only.
Listed(c, n) == \A i \in 1 .. n : c[i] \in live /\ (i > 1 => data[c[i]] \in Values)

Unlisted(c, n, x) == \A i \in 1 .. n : c[i] # x

Pushed(c, n) ==
  /\ \A p \in Producers : Unlinked(p) =>
       /\ mine[p] \in live /\ Unlisted(c, n, mine[p])
       /\ next[mine[p]] = Null
       /\ data[mine[p]] \in Values
  /\ \A p, q \in Producers : Unlinked(p) /\ Unlinked(q) /\ mine[p] = mine[q] => p = q

Popped(c, n) ==
  \A q \in Consumers : Detached(q) =>
    /\ mine[q] \in live /\ Unlisted(c, n, mine[q])
    /\ \A p \in Producers : Unlinked(p) => mine[p] # mine[q]

Accounted(c, n) ==
  \A x \in live : \/ \E i \in 1 .. n : c[i] = x
                  \/ \E p \in Producers : Unlinked(p) /\ mine[p] = x
                  \/ \E q \in Consumers : Detached(q) /\ mine[q] = x

\* What the consumer knows of the list.
PopInv(c, n) ==
  \A q \in Consumers :
    /\ pc[q] = "loadFirst" => mine[q] = c[1]
    /\ pc[q] = "claim" => mine[q] = c[1] /\ n > 1 /\ seen[q] = c[2]
    /\ pc[q] = "take" => seen[q] = c[1] /\ data[c[1]] \in Values
    /\ pc[q] \in {"free", "countDown"} => result[q] \in Values

\* Where tail, and the pointers that producers have got from it, may point to.
Good(c, n, x) == \/ x = Null /\ weak
                 \/ \E i \in 1 .. n : x = c[i] /\ (team \cap Consumers # {} => i = n)

PushInv(c, n) ==
  /\ ~weak => tail # Null /\ ~fault
  /\ \/ team \cap Consumers # {} /\ \E p \in Producers : pc[p] = "swing"
     \/ Good(c, n, tail)
  /\ \A p \in Producers :
       /\ pc[p] \in {"link", "loadNext", "help"} => Good(c, n, seen[p])
       /\ pc[p] = "loadNext" /\ ~weak => next[seen[p]] # Null
       /\ pc[p] = "help" => Good(c, n, loaded[p])
       /\ pc[p] = "swing" => \E i \in 1 .. n : mine[p] = c[i] /\ (team \cap Consumers # {} => i = n)

SizeInv(n) == size = (n - 1 - Cardinality({p \in Producers : Counting(p)})
                      + Cardinality({q \in Consumers : Discounting(q)})) % Word

\* One of a kind, where there are consumers.
Few == team \cap Consumers # {} =>
         /\ \A p, q \in team \cap Producers : p = q
         /\ \A p, q \in team \cap Consumers : p = q

ListInv(c, n) == /\ Chain(c, n) /\ Listed(c, n) /\ Pushed(c, n) /\ Popped(c, n)
                 /\ Accounted(c, n) /\ PopInv(c, n) /\ PushInv(c, n) /\ SizeInv(n)

\* The inductive invariant.
LinkedInv == Tested => /\ LinkedType /\ Few
                       /\ \E n \in 1 .. Room : \E c \in [1 .. n -> Nodes] : ListInv(c, n)
-----------------------------------------------------------------------------
\* Every action keeps the types and leaves threads outside the team idle.
LEMMA TypeStep == ASSUME LinkedType, [LinkedNext]_linkedVars PROVE LinkedType'
<1> USE DEF Goto, Return, Crash, given, nodes, locals, Pointers, Procs, Unlinked, Counting, Discounting
<1> USE RolesAssumption, NodesAssumption
<1>1. ASSUME NEW p \in Producers \cap team, LinkedPush(p) PROVE LinkedType'
  <2>1. ASSUME NEW v \in Values, NEW n \in Nodes, CallPush(p, v, n) PROVE LinkedType'
    BY <2>1 DEF LinkedType, CallPush
  <2>2. CASE LoadTail(p) BY <2>2 DEF LinkedType, LoadTail
  <2>3. CASE Link(p) BY <2>3 DEF LinkedType, Link
  <2>4. CASE LinkFails(p) BY <2>4 DEF LinkedType, LinkFails
  <2>5. CASE LoadNext(p) BY <2>5 DEF LinkedType, LoadNext
  <2>6. CASE Help(p) BY <2>6 DEF LinkedType, Help
  <2>7. CASE Swing(p) BY <2>7 DEF LinkedType, Swing
  <2>8. CASE CountUp(p) BY <2>8, WordAssumption DEF LinkedType, CountUp
  <2>9. CASE Crash(p, "link", seen[p]) \/ Crash(p, "loadNext", seen[p])
    BY <2>9 DEF LinkedType
  <2> QED BY <1>1, <2>1, <2>2, <2>3, <2>4, <2>5, <2>6, <2>7, <2>8, <2>9 DEF LinkedPush
<1>2. ASSUME NEW p \in Consumers \cap team, LinkedPop(p) PROVE LinkedType'
  <2>1. CASE LinkedCallPop(p) BY <2>1 DEF LinkedType, LinkedCallPop
  <2>2. CASE LoadHead(p) BY <2>2 DEF LinkedType, LoadHead
  <2>3. CASE LoadFirst(p) BY <2>3 DEF LinkedType, LoadFirst
  <2>4. CASE PopEmpty(p) BY <2>4 DEF LinkedType, PopEmpty
  <2>5. CASE Claim(p) BY <2>5 DEF LinkedType, Claim
  <2>6. CASE ClaimFails(p) BY <2>6 DEF LinkedType, ClaimFails
  <2>7. CASE Take(p) BY <2>7 DEF LinkedType, Take
  <2>8. CASE Free(p) BY <2>8 DEF LinkedType, Free
  <2>9. CASE CountDown(p) BY <2>9, WordAssumption DEF LinkedType, CountDown
  <2>10. CASE \/ Crash(p, "loadFirst", mine[p])
              \/ Crash(p, "take", seen[p]) \/ Crash(p, "free", mine[p])
    BY <2>10 DEF LinkedType
  <2> QED BY <1>2, <2>1, <2>2, <2>3, <2>4, <2>5, <2>6, <2>7, <2>8, <2>9, <2>10 DEF LinkedPop
<1>3. CASE UNCHANGED linkedVars
  BY <1>3 DEF LinkedType, linkedVars
<1> QED BY <1>1, <1>2, <1>3 DEF LinkedNext
-----------------------------------------------------------------------------
(* The size, which counts modulo Word *)

LEMMA Wrapped == ASSUME NEW w \in Nat \ {0}, NEW x \in Int
                 PROVE  /\ ((x % w) + 1) % w = (x + 1) % w
                        /\ ((x % w) - 1) % w = (x - 1) % w
                        /\ x % w \in 0 .. w - 1
<1>1. ASSUME NEW k \in Int, -w < w * k, w * k < w PROVE k = 0
  <2>1. CASE k >= 1 BY <1>1, <2>1, SMTT(30)
  <2>2. CASE k <= -1 BY <1>1, <2>2, SMTT(30)
  <2> QED BY <2>1, <2>2
<1>2. ASSUME NEW y \in Int, NEW z \in Int, NEW k \in Int, y = z + w * k PROVE y % w = z % w
  <2>1. PICK p \in Int : y = w * p + (y % w)
    <3>1. y = w * (y \div w) + (y % w) /\ y \div w \in Int
      OBVIOUS
    <3> QED BY <3>1
  <2>2. PICK q \in Int : z = w * q + (z % w)
    <3>1. z = w * (z \div w) + (z % w) /\ z \div w \in Int
      OBVIOUS
    <3> QED BY <3>1
  <2>3. y % w \in 0 .. w - 1 /\ z % w \in 0 .. w - 1
    OBVIOUS
  <2> DEFINE r == y % w
             s == z % w
  <2>4. r \in 0 .. w - 1 /\ s \in 0 .. w - 1 /\ y = w * p + r /\ z = w * q + s
    BY <2>1, <2>2, <2>3
  <2> HIDE DEF r, s
  <2>5. w * (p - q - k) = s - r
    BY <1>2, <2>4, SMTT(30)
  <2>6. p - q - k = 0
    BY <1>1, <2>4, <2>5
  <2>7. r = s
    BY <2>4, <2>5, <2>6
  <2> QED BY <2>7 DEF r, s
<1>3. PICK q \in Int : x = w * q + (x % w)
  <2>1. x = w * (x \div w) + (x % w) /\ x \div w \in Int
    OBVIOUS
  <2> QED BY <2>1
<1>4. x % w \in 0 .. w - 1
  OBVIOUS
<1> DEFINE r == x % w
<1>5. r \in Int /\ x = w * q + r
  BY <1>3, <1>4
<1> HIDE DEF r
<1>6. (x + 1) % w = (r + 1) % w
  <2>1. x + 1 = (r + 1) + w * q /\ x + 1 \in Int /\ r + 1 \in Int
    BY <1>5
  <2> QED BY <1>2, <2>1
<1>7. (x - 1) % w = (r - 1) % w
  <2>1. x - 1 = (r - 1) + w * q /\ x - 1 \in Int /\ r - 1 \in Int
    BY <1>5
  <2> QED BY <1>2, <2>1, ZenonT(40)
<1> QED BY <1>4, <1>6, <1>7 DEF r

Pushing == {p \in Producers : Counting(p)}
Popping == {q \in Consumers : Discounting(q)}

LEMMA Counted == /\ IsFiniteSet(Pushing) /\ Cardinality(Pushing) \in Nat
                 /\ IsFiniteSet(Popping) /\ Cardinality(Popping) \in Nat
<1>1. IsFiniteSet(Pushing) /\ IsFiniteSet(Popping)
  BY RolesAssumption, FS_Subset DEF Pushing, Popping
<1> QED BY <1>1, FS_CardinalityType

\* What a step may do to the counts.
LEMMA CountsStep ==
  ASSUME NEW n \in Nat, NEW k \in Nat, SizeInv(n),
         \/ UNCHANGED size /\ Pushing' = Pushing /\ Popping' = Popping /\ k = n
         \/ /\ UNCHANGED size /\ Popping' = Popping /\ k = n + 1
            /\ \E p : p \notin Pushing /\ Pushing' = Pushing \cup {p}
         \/ /\ size' = (size + 1) % Word /\ Popping' = Popping /\ k = n
            /\ \E p : p \in Pushing /\ Pushing' = Pushing \ {p}
         \/ /\ UNCHANGED size /\ Pushing' = Pushing /\ k = n - 1
            /\ \E p : p \notin Popping /\ Popping' = Popping \cup {p}
         \/ /\ size' = (size - 1) % Word /\ Pushing' = Pushing /\ k = n
            /\ \E p : p \in Popping /\ Popping' = Popping \ {p}
  PROVE  SizeInv(k)'
<1> DEFINE a == Cardinality(Pushing)
           b == Cardinality(Popping)
<1>1. a \in Nat /\ b \in Nat
  BY Counted
<1>2. Word \in Nat \ {0}
  BY WordAssumption, NodesAssumption, FS_CardinalityType
<1>3. size = (n - 1 - a + b) % Word
  BY DEF SizeInv, Pushing, Popping
<1>4. \A p : (p \notin Pushing => Cardinality(Pushing \cup {p}) = a + 1)
           /\ (p \in Pushing => Cardinality(Pushing \ {p}) = a - 1)
           /\ (p \notin Popping => Cardinality(Popping \cup {p}) = b + 1)
           /\ (p \in Popping => Cardinality(Popping \ {p}) = b - 1)
  BY Counted, FS_AddElement, FS_RemoveElement
<1>5. \/ size' = size /\ a' = a /\ b' = b /\ k = n
      \/ size' = size /\ a' = a + 1 /\ b' = b /\ k = n + 1
      \/ size' = (size + 1) % Word /\ a' = a - 1 /\ b' = b /\ k = n
      \/ size' = size /\ a' = a /\ b' = b + 1 /\ k = n - 1
      \/ size' = (size - 1) % Word /\ a' = a /\ b' = b - 1 /\ k = n
  BY <1>4
<1>6. SizeInv(k)' <=> size' = (k - 1 - a' + b') % Word
  BY DEF SizeInv, Pushing, Popping
<1> HIDE DEF a, b
<1>7. CASE size' = (size + 1) % Word /\ a' = a - 1 /\ b' = b /\ k = n
  <2>1. size' = (n - 1 - a + b + 1) % Word
    <3> DEFINE t == n - 1 - a + b
    <3>1. t \in Int
      BY <1>1
    <3>2. size = t % Word
      BY <1>3
    <3> HIDE DEF t
    <3>3. (t + 1) % Word = ((t % Word) + 1) % Word
      BY <3>1, <1>2, Wrapped
    <3>4. size' = (t + 1) % Word
      BY <3>2, <3>3, <1>7
    <3> QED BY <3>4 DEF t
  <2>2. n - 1 - a + b + 1 = k - 1 - a' + b'
    BY <1>1, <1>7
  <2> QED BY <1>6, <2>1, <2>2
<1>8. CASE size' = (size - 1) % Word /\ a' = a /\ b' = b - 1 /\ k = n
  <2>1. size' = ((n - 1 - a + b) - 1) % Word
    <3> DEFINE t == n - 1 - a + b
    <3>1. t \in Int
      BY <1>1
    <3>2. size = t % Word
      BY <1>3
    <3> HIDE DEF t
    <3>3. (t - 1) % Word = ((t % Word) - 1) % Word
      BY <3>1, <1>2, Wrapped
    <3>4. size' = (t - 1) % Word
      BY <3>2, <3>3, <1>8
    <3> QED BY <3>4 DEF t
  <2>2. (n - 1 - a + b) - 1 = k - 1 - a' + b'
    BY <1>1, <1>8
  <2> QED BY <1>6, <2>1, <2>2
<1>9. ASSUME size' = size, k - 1 - a' + b' = n - 1 - a + b PROVE SizeInv(k)'
  BY <1>3, <1>6, <1>9
<1>10. CASE size' = size /\ a' = a /\ b' = b /\ k = n
  BY <1>9, <1>10
<1>11. CASE size' = size /\ a' = a + 1 /\ b' = b /\ k = n + 1
  BY <1>1, <1>9, <1>11
<1>12. CASE size' = size /\ a' = a /\ b' = b + 1 /\ k = n - 1
  BY <1>1, <1>9, <1>12
<1> QED BY <1>5, <1>7, <1>8, <1>10, <1>11, <1>12

-----------------------------------------------------------------------------
(* Each action keeps ListInv; Link makes the list longer, Claim makes it shorter *)

LEMMA CallPushStep ==
  ASSUME LinkedType, Few, NEW n, NEW c, ListInv(c, n), NEW p \in Producers \cap team,
         NEW v \in Values, NEW m \in Nodes, CallPush(p, v, m)
  PROVE  ListInv(c, n)'
<1> USE RolesAssumption, NullAssumption
<1> USE DEF CallPush, Goto, given, ListInv, Procs, Pointers
<1>1. \A i \in 1 .. n : c[i] \in Nodes /\ c[i] # m
  BY DEF Chain, Listed
<1>2. Chain(c, n)'
  BY <1>1 DEF Chain, LinkedType
<1>3. Listed(c, n)'
  BY <1>1 DEF Listed, LinkedType
<1>4. Pushed(c, n)'
  BY <1>1 DEF Pushed, LinkedType, Unlinked, Unlisted
<1>5. Popped(c, n)'
  BY <1>1 DEF Popped, LinkedType, Unlinked, Unlisted, Detached
<1>6. Accounted(c, n)'
  BY DEF Accounted, LinkedType, Unlinked, Detached
<1>7. PopInv(c, n)'
  BY <1>1 DEF PopInv, LinkedType, Chain
<1>8. PushInv(c, n)'
  BY <1>1 DEF PushInv, LinkedType, Good, Chain
<1>9. SizeInv(n)'
  <2>1. Pushing' = Pushing /\ Popping' = Popping
    BY DEF Pushing, Popping, Counting, Discounting, LinkedType
  <2>2. n \in Nat
    BY DEF Chain
  <2> QED BY <2>1, <2>2, CountsStep
<1> QED BY <1>2, <1>3, <1>4, <1>5, <1>6, <1>7, <1>8, <1>9

LEMMA LoadTailStep ==
  ASSUME LinkedType, Few, NEW n, NEW c, ListInv(c, n), NEW p \in Producers \cap team, LoadTail(p)
  PROVE  ListInv(c, n)'
<1> USE RolesAssumption, NullAssumption
<1> USE DEF LoadTail, Goto, Return, given, nodes, locals, ListInv, Procs, Pointers
<1>1. Chain(c, n)'
  BY DEF Chain
<1>2. Listed(c, n)'
  BY DEF Listed, Chain, Popped, Unlisted, Detached
<1>3. Pushed(c, n)'
  BY DEF Pushed, Popped, LinkedType, Unlinked, Unlisted, Detached
<1>4. Popped(c, n)'
  BY DEF Popped, LinkedType, Unlinked, Unlisted, Detached, Few
<1>5. Accounted(c, n)'
  BY DEF Accounted, LinkedType, Unlinked, Detached
<1>6. PopInv(c, n)'
  BY DEF PopInv, LinkedType, Few, Chain, Listed
<1>7. PushInv(c, n)'
  BY DEF PushInv, LinkedType, Few, Chain, Listed, Good, Unlinked, Counting
<1>8. SizeInv(n)'
  <2>1. Pushing' = Pushing /\ Popping' = Popping
    BY DEF Pushing, Popping, Counting, Discounting, LinkedType
  <2>2. n \in Nat
    BY DEF Chain
  <2> QED BY <2>1, <2>2, CountsStep
<1> QED BY <1>1, <1>2, <1>3, <1>4, <1>5, <1>6, <1>7, <1>8

\* The list with m linked behind its last node.
Longer(c, n, m) == [i \in 1 .. n + 1 |-> IF i = n + 1 THEN m ELSE c[i]]

LEMMA LinkStep ==
  ASSUME LinkedType, Few, NEW n, NEW c, ListInv(c, n), NEW p \in Producers \cap team, Link(p),
         NEW m, m = mine[p]
  PROVE  ListInv(Longer(c, n, m), n + 1)' /\ n + 1 <= Room
<1> USE RolesAssumption, NullAssumption
<1> DEFINE d == Longer(c, n, m)
<1> USE DEF Link, Goto, given, locals, ListInv, Procs, Pointers
<1>1. /\ n \in 1 .. Room /\ n + 1 \in Nat /\ m \in Nodes /\ m \in live
      /\ \A i \in 1 .. n : d[i] = c[i] /\ c[i] \in Nodes /\ c[i] # m
      /\ d[n + 1] = m /\ d \in [1 .. n + 1 -> Nodes] /\ next[m] = Null
      /\ mine'[p] = m /\ seen[p] = c[n]
      /\ data[m] \in Values
  <2>1. n \in 1 .. Room /\ n + 1 \in Nat /\ c \in [1 .. n -> Nodes] /\ Room \in Int
    BY NodesAssumption, FS_CardinalityType DEF Chain, Room
  <2>2. m \in Nodes /\ m \in live /\ (\A i \in 1 .. n : c[i] # m) /\ next[m] = Null /\ data[m] \in Values
    BY DEF Pushed, Unlinked, Unlisted, LinkedType
  <2>3. \A i \in 1 .. n : d[i] = c[i] /\ c[i] \in Nodes
    BY <2>1 DEF Longer
  <2>4. d[n + 1] = m /\ d \in [1 .. n + 1 -> Nodes]
    BY <2>1, <2>2 DEF Longer
  <2>5. seen[p] = c[n]
    <3>1. PICK i \in 1 .. n : seen[p] = c[i]
      BY DEF PushInv, Good, LinkedType
    <3>2. ~(i < n)
      BY <3>1, <2>1, <2>3 DEF Chain
    <3> QED BY <3>1, <3>2, <2>1
  <2> QED BY <2>1, <2>2, <2>3, <2>4, <2>5
<1>2. n + 1 <= Room
  <2>1. \A i, j \in 1 .. n + 1 : d[i] = d[j] => i = j
    BY <1>1 DEF Chain
  <2> HIDE DEF d
  <2>2. d \in Injection(1 .. n + 1, Nodes)
    BY <1>1, <2>1 DEF Injection, IsInjective
  <2>3. Cardinality(1 .. n + 1) <= Cardinality(Nodes)
    BY <2>2, NodesAssumption, FS_Injection
  <2> QED BY <2>3, <1>1, FS_Interval DEF Room
<1> HIDE DEF d
<1>3. Chain(d, n + 1)'
  <2>1. \A i, j \in 1 .. n + 1 : d[i] = d[j] => i = j
    BY <1>1 DEF Chain
  <2>2. head' = d[1]
    BY <1>1 DEF Chain
  <2>3. next' = [next EXCEPT ![c[n]] = m] /\ next \in [Nodes -> Pointers] /\ c[n] \in Nodes
    BY <1>1 DEF LinkedType
  <2>4. next'[d[n + 1]] = Null
    BY <1>1, <2>3
  <2>5. ASSUME NEW i \in 1 .. n PROVE next'[d[i]] = d[i + 1]
    <3>1. CASE i = n BY <3>1, <1>1, <2>3
    <3>2. CASE i # n
      <4>1. i + 1 \in 1 .. n /\ i \in 1 .. n - 1 /\ c[i] # c[n] /\ c[i] \in Nodes
        BY <3>2, <1>1 DEF Chain
      <4> QED BY <4>1, <1>1, <2>3 DEF Chain
    <3> QED BY <3>1, <3>2
  <2>6. n + 1 \in 1 .. Room
    BY <1>1, <1>2, NodesAssumption, FS_CardinalityType DEF Room
  <2> QED BY <1>1, <2>1, <2>2, <2>4, <2>5, <2>6 DEF Chain
<1>4. Listed(d, n + 1)'
  BY <1>1 DEF Listed
<1>5. Pushed(d, n + 1)'
  <2>1. ASSUME NEW q \in Producers, Unlinked(q)' PROVE /\ mine[q] \in live /\ mine[q] # m
                                                    /\ Unlisted(c, n, mine[q])
                                                    /\ next'[mine[q]] = Null
                                                    /\ data[mine[q]] \in Values
    BY <1>1, <2>1 DEF Pushed, LinkedType, Unlinked, Unlisted
  <2>2. ASSUME NEW q \in Producers, Unlinked(q)' PROVE Unlisted(d, n + 1, mine[q])
    BY <1>1, <2>1, <2>2 DEF Unlisted
  <2>3. \A q \in Producers : Unlinked(q)' => Unlinked(q)
    BY DEF LinkedType, Unlinked
  <2> QED BY <2>1, <2>2, <2>3 DEF Pushed, Unlisted
<1>6. Popped(d, n + 1)'
  <2>1. ASSUME NEW q \in Consumers, Detached(q)' PROVE /\ mine[q] \in live /\ mine[q] # m
                                                    /\ Unlisted(c, n, mine[q])
                                                    /\ \A r \in Producers : Unlinked(r)' => mine[r] # mine[q]
    BY <1>1, <2>1 DEF Popped, LinkedType, Unlinked, Unlisted, Detached
  <2>2. ASSUME NEW q \in Consumers, Detached(q)' PROVE Unlisted(d, n + 1, mine[q])
    BY <1>1, <2>1, <2>2 DEF Unlisted
  <2> QED BY <2>1, <2>2 DEF Popped, Unlisted
<1>7. Accounted(d, n + 1)'
  <2> SUFFICES ASSUME NEW x \in live
               PROVE  \/ \E i \in 1 .. n + 1 : d[i] = x
                      \/ \E q \in Producers : Unlinked(q)' /\ mine[q] = x
                      \/ \E q \in Consumers : Detached(q)' /\ mine[q] = x
    BY DEF Accounted
  <2>1. CASE x = m
    BY <2>1, <1>1
  <2>2. CASE \E i \in 1 .. n : c[i] = x
    BY <2>2, <1>1
  <2>3. CASE x # m /\ \E q \in Producers : Unlinked(q) /\ mine[q] = x
    BY <2>3 DEF LinkedType, Unlinked
  <2>4. CASE \E q \in Consumers : Detached(q) /\ mine[q] = x
    BY <2>4 DEF LinkedType, Detached
  <2> QED BY <2>1, <2>2, <2>3, <2>4 DEF Accounted
<1>8. PopInv(d, n + 1)'
  BY <1>1, SMTT(30) DEF PopInv, LinkedType, Chain
<1>9. PushInv(d, n + 1)'
  <2>1. ASSUME team \cap Consumers = {}, NEW x, Good(c, n, x) PROVE Good(d, n + 1, x)'
    BY <1>1, <2>1 DEF Good
  <2>2. ASSUME team \cap Consumers = {} PROVE PushInv(d, n + 1)'
    BY <1>1, <2>1, <2>2 DEF PushInv, LinkedType
  <2>3. ASSUME team \cap Consumers # {} PROVE PushInv(d, n + 1)'
    BY <1>1, <2>3 DEF PushInv, LinkedType, Few
  <2> QED BY <2>2, <2>3
<1>10. SizeInv(n + 1)'
  <2>1. p \notin Pushing /\ Pushing' = Pushing \cup {p}
    BY DEF Pushing, Counting, LinkedType
  <2>2. Popping' = Popping
    BY DEF Popping, Discounting, LinkedType
  <2>3. n + 1 \in Nat /\ n \in Nat
    BY <1>1
  <2> QED BY <2>1, <2>2, <2>3, CountsStep
<1> QED BY <1>2, <1>3, <1>4, <1>5, <1>6, <1>7, <1>8, <1>9, <1>10 DEF d

LEMMA LinkFailsStep ==
  ASSUME LinkedType, Few, NEW n, NEW c, ListInv(c, n), NEW p \in Producers \cap team, LinkFails(p)
  PROVE  ListInv(c, n)'
<1> USE RolesAssumption, NullAssumption
<1> USE DEF LinkFails, Goto, Return, given, nodes, locals, ListInv, Procs, Pointers
<1>1. Chain(c, n)'
  BY DEF Chain
<1>2. Listed(c, n)'
  BY DEF Listed, Chain, Popped, Unlisted, Detached
<1>3. Pushed(c, n)'
  BY DEF Pushed, Popped, LinkedType, Unlinked, Unlisted, Detached
<1>4. Popped(c, n)'
  BY DEF Popped, LinkedType, Unlinked, Unlisted, Detached, Few
<1>5. Accounted(c, n)'
  BY DEF Accounted, LinkedType, Unlinked, Detached
<1>6. PopInv(c, n)'
  BY DEF PopInv, LinkedType, Few, Chain, Listed
<1>7. PushInv(c, n)'
  BY DEF PushInv, LinkedType, Few, Chain, Listed, Good, Unlinked, Counting
<1>8. SizeInv(n)'
  <2>1. Pushing' = Pushing /\ Popping' = Popping
    BY DEF Pushing, Popping, Counting, Discounting, LinkedType
  <2>2. n \in Nat
    BY DEF Chain
  <2> QED BY <2>1, <2>2, CountsStep
<1> QED BY <1>1, <1>2, <1>3, <1>4, <1>5, <1>6, <1>7, <1>8

LEMMA LoadNextStep ==
  ASSUME LinkedType, Few, NEW n, NEW c, ListInv(c, n), NEW p \in Producers \cap team, LoadNext(p)
  PROVE  ListInv(c, n)'
<1> USE RolesAssumption, NullAssumption
<1> USE DEF LoadNext, Goto, Return, given, nodes, locals, ListInv, Procs, Pointers
<1>1. Chain(c, n)'
  BY DEF Chain
<1>2. Listed(c, n)'
  BY DEF Listed, Chain, Popped, Unlisted, Detached
<1>3. Pushed(c, n)'
  BY DEF Pushed, Popped, LinkedType, Unlinked, Unlisted, Detached
<1>4. Popped(c, n)'
  BY DEF Popped, LinkedType, Unlinked, Unlisted, Detached, Few
<1>5. Accounted(c, n)'
  BY DEF Accounted, LinkedType, Unlinked, Detached
<1>6. PopInv(c, n)'
  BY DEF PopInv, LinkedType, Few, Chain, Listed
<1>7. Good(c, n, next[seen[p]])
  <2>1. PICK i \in 1 .. n : seen[p] = c[i] /\ (team \cap Consumers # {} => i = n)
    BY DEF PushInv, LinkedType, Good
  <2>2. CASE i = n
    BY <2>1, <2>2 DEF Good, PushInv, Chain
  <2>3. CASE i < n
    BY <2>1, <2>3 DEF Good, Chain
  <2> QED BY <2>1, <2>2, <2>3 DEF Chain
<1>8. PushInv(c, n)'
  BY <1>7 DEF PushInv, LinkedType, Chain, Good
<1>9. SizeInv(n)'
  <2>1. Pushing' = Pushing /\ Popping' = Popping
    BY DEF Pushing, Popping, Counting, Discounting, LinkedType
  <2>2. n \in Nat
    BY DEF Chain
  <2> QED BY <2>1, <2>2, CountsStep
<1> QED BY <1>1, <1>2, <1>3, <1>4, <1>5, <1>6, <1>8, <1>9

LEMMA HelpStep ==
  ASSUME LinkedType, Few, NEW n, NEW c, ListInv(c, n), NEW p \in Producers \cap team, Help(p)
  PROVE  ListInv(c, n)'
<1> USE RolesAssumption, NullAssumption
<1> USE DEF Help, Goto, Return, given, nodes, locals, ListInv, Procs, Pointers
<1>1. Chain(c, n)'
  BY DEF Chain
<1>2. Listed(c, n)'
  BY DEF Listed, Chain, Popped, Unlisted, Detached
<1>3. Pushed(c, n)'
  BY DEF Pushed, Popped, LinkedType, Unlinked, Unlisted, Detached
<1>4. Popped(c, n)'
  BY DEF Popped, LinkedType, Unlinked, Unlisted, Detached, Few
<1>5. Accounted(c, n)'
  BY DEF Accounted, LinkedType, Unlinked, Detached
<1>6. PopInv(c, n)'
  BY DEF PopInv, LinkedType, Few, Chain, Listed
<1>7. PushInv(c, n)'
  BY DEF PushInv, LinkedType, Few, Chain, Listed, Good, Unlinked, Counting
<1>8. SizeInv(n)'
  <2>1. Pushing' = Pushing /\ Popping' = Popping
    BY DEF Pushing, Popping, Counting, Discounting, LinkedType
  <2>2. n \in Nat
    BY DEF Chain
  <2> QED BY <2>1, <2>2, CountsStep
<1> QED BY <1>1, <1>2, <1>3, <1>4, <1>5, <1>6, <1>7, <1>8

LEMMA SwingStep ==
  ASSUME LinkedType, Few, NEW n, NEW c, ListInv(c, n), NEW p \in Producers \cap team, Swing(p)
  PROVE  ListInv(c, n)'
<1> USE RolesAssumption, NullAssumption
<1> USE DEF Swing, Goto, Return, given, nodes, locals, ListInv, Procs, Pointers
<1>1. Chain(c, n)'
  BY DEF Chain
<1>2. Listed(c, n)'
  BY DEF Listed, Chain, Popped, Unlisted, Detached
<1>3. Pushed(c, n)'
  BY DEF Pushed, Popped, LinkedType, Unlinked, Unlisted, Detached
<1>4. Popped(c, n)'
  BY DEF Popped, LinkedType, Unlinked, Unlisted, Detached, Few
<1>5. Accounted(c, n)'
  BY DEF Accounted, LinkedType, Unlinked, Detached
<1>6. PopInv(c, n)'
  BY DEF PopInv, LinkedType, Few, Chain, Listed
<1>7. PushInv(c, n)'
  BY DEF PushInv, LinkedType, Few, Chain, Listed, Good, Unlinked, Counting
<1>8. SizeInv(n)'
  <2>1. Pushing' = Pushing /\ Popping' = Popping
    BY DEF Pushing, Popping, Counting, Discounting, LinkedType
  <2>2. n \in Nat
    BY DEF Chain
  <2> QED BY <2>1, <2>2, CountsStep
<1> QED BY <1>1, <1>2, <1>3, <1>4, <1>5, <1>6, <1>7, <1>8

LEMMA CountUpStep ==
  ASSUME LinkedType, Few, NEW n, NEW c, ListInv(c, n), NEW p \in Producers \cap team, CountUp(p)
  PROVE  ListInv(c, n)'
<1> USE RolesAssumption, NullAssumption
<1> USE DEF CountUp, Goto, Return, given, nodes, locals, ListInv, Procs, Pointers
<1>1. Chain(c, n)'
  BY DEF Chain
<1>2. Listed(c, n)'
  BY DEF Listed, Chain, Popped, Unlisted, Detached
<1>3. Pushed(c, n)'
  BY DEF Pushed, Popped, LinkedType, Unlinked, Unlisted, Detached
<1>4. Popped(c, n)'
  BY DEF Popped, LinkedType, Unlinked, Unlisted, Detached, Few
<1>5. Accounted(c, n)'
  BY DEF Accounted, LinkedType, Unlinked, Detached
<1>6. PopInv(c, n)'
  BY DEF PopInv, LinkedType, Few, Chain, Listed
<1>7. PushInv(c, n)'
  BY DEF PushInv, LinkedType, Few, Chain, Listed, Good, Unlinked, Counting
<1>8. SizeInv(n)'
  <2>1. p \in Pushing /\ Pushing' = Pushing \ {p}
    BY DEF Pushing, Counting, LinkedType
  <2>2. Popping' = Popping
    BY DEF Popping, Discounting, LinkedType
  <2>3. n \in Nat
    BY DEF Chain
  <2> QED BY <2>1, <2>2, <2>3, CountsStep
<1> QED BY <1>1, <1>2, <1>3, <1>4, <1>5, <1>6, <1>7, <1>8

LEMMA LinkedCallPopStep ==
  ASSUME LinkedType, Few, NEW n, NEW c, ListInv(c, n), NEW p \in Consumers \cap team, LinkedCallPop(p)
  PROVE  ListInv(c, n)'
<1> USE RolesAssumption, NullAssumption
<1> USE DEF LinkedCallPop, Goto, Return, given, nodes, locals, ListInv, Procs, Pointers
<1>1. Chain(c, n)'
  BY DEF Chain
<1>2. Listed(c, n)'
  BY DEF Listed, Chain, Popped, Unlisted, Detached
<1>3. Pushed(c, n)'
  BY DEF Pushed, Popped, LinkedType, Unlinked, Unlisted, Detached
<1>4. Popped(c, n)'
  BY DEF Popped, LinkedType, Unlinked, Unlisted, Detached, Few
<1>5. Accounted(c, n)'
  BY DEF Accounted, LinkedType, Unlinked, Detached
<1>6. PopInv(c, n)'
  BY DEF PopInv, LinkedType, Few, Chain, Listed
<1>7. PushInv(c, n)'
  BY DEF PushInv, LinkedType, Few, Chain, Listed, Good, Unlinked, Counting
<1>8. SizeInv(n)'
  <2>1. Pushing' = Pushing /\ Popping' = Popping
    BY DEF Pushing, Popping, Counting, Discounting, LinkedType
  <2>2. n \in Nat
    BY DEF Chain
  <2> QED BY <2>1, <2>2, CountsStep
<1> QED BY <1>1, <1>2, <1>3, <1>4, <1>5, <1>6, <1>7, <1>8

LEMMA LoadHeadStep ==
  ASSUME LinkedType, Few, NEW n, NEW c, ListInv(c, n), NEW p \in Consumers \cap team, LoadHead(p)
  PROVE  ListInv(c, n)'
<1> USE RolesAssumption, NullAssumption
<1> USE DEF LoadHead, Goto, Return, given, nodes, locals, ListInv, Procs, Pointers
<1>1. Chain(c, n)'
  BY DEF Chain
<1>2. Listed(c, n)'
  BY DEF Listed, Chain, Popped, Unlisted, Detached
<1>3. Pushed(c, n)'
  BY DEF Pushed, Popped, LinkedType, Unlinked, Unlisted, Detached
<1>4. Popped(c, n)'
  BY DEF Popped, LinkedType, Unlinked, Unlisted, Detached, Few
<1>5. Accounted(c, n)'
  BY DEF Accounted, LinkedType, Unlinked, Detached
<1>6. PopInv(c, n)'
  BY DEF PopInv, LinkedType, Few, Chain, Listed
<1>7. PushInv(c, n)'
  BY DEF PushInv, LinkedType, Few, Chain, Listed, Good, Unlinked, Counting
<1>8. SizeInv(n)'
  <2>1. Pushing' = Pushing /\ Popping' = Popping
    BY DEF Pushing, Popping, Counting, Discounting, LinkedType
  <2>2. n \in Nat
    BY DEF Chain
  <2> QED BY <2>1, <2>2, CountsStep
<1> QED BY <1>1, <1>2, <1>3, <1>4, <1>5, <1>6, <1>7, <1>8

LEMMA LoadFirstStep ==
  ASSUME LinkedType, Few, NEW n, NEW c, ListInv(c, n), NEW p \in Consumers \cap team, LoadFirst(p)
  PROVE  ListInv(c, n)'
<1> USE RolesAssumption, NullAssumption
<1> USE DEF LoadFirst, Goto, Return, given, nodes, locals, ListInv, Procs, Pointers
<1>1. Chain(c, n)'
  BY DEF Chain
<1>2. Listed(c, n)'
  BY DEF Listed, Chain, Popped, Unlisted, Detached
<1>3. Pushed(c, n)'
  BY DEF Pushed, Popped, LinkedType, Unlinked, Unlisted, Detached
<1>4. Popped(c, n)'
  BY DEF Popped, LinkedType, Unlinked, Unlisted, Detached, Few
<1>5. Accounted(c, n)'
  BY DEF Accounted, LinkedType, Unlinked, Detached
<1>6. PopInv(c, n)'
  BY DEF PopInv, LinkedType, Few, Chain, Listed
<1>7. PushInv(c, n)'
  BY DEF PushInv, LinkedType, Few, Chain, Listed, Good, Unlinked, Counting
<1>8. SizeInv(n)'
  <2>1. Pushing' = Pushing /\ Popping' = Popping
    BY DEF Pushing, Popping, Counting, Discounting, LinkedType
  <2>2. n \in Nat
    BY DEF Chain
  <2> QED BY <2>1, <2>2, CountsStep
<1> QED BY <1>1, <1>2, <1>3, <1>4, <1>5, <1>6, <1>7, <1>8

LEMMA PopEmptyStep ==
  ASSUME LinkedType, Few, NEW n, NEW c, ListInv(c, n), NEW p \in Consumers \cap team, PopEmpty(p)
  PROVE  ListInv(c, n)'
<1> USE RolesAssumption, NullAssumption
<1> USE DEF PopEmpty, Goto, Return, given, nodes, locals, ListInv, Procs, Pointers
<1>1. Chain(c, n)'
  BY DEF Chain
<1>2. Listed(c, n)'
  BY DEF Listed, Chain, Popped, Unlisted, Detached
<1>3. Pushed(c, n)'
  BY DEF Pushed, Popped, LinkedType, Unlinked, Unlisted, Detached
<1>4. Popped(c, n)'
  BY DEF Popped, LinkedType, Unlinked, Unlisted, Detached, Few
<1>5. Accounted(c, n)'
  BY DEF Accounted, LinkedType, Unlinked, Detached
<1>6. PopInv(c, n)'
  BY DEF PopInv, LinkedType, Few, Chain, Listed
<1>7. PushInv(c, n)'
  BY DEF PushInv, LinkedType, Few, Chain, Listed, Good, Unlinked, Counting
<1>8. SizeInv(n)'
  <2>1. Pushing' = Pushing /\ Popping' = Popping
    BY DEF Pushing, Popping, Counting, Discounting, LinkedType
  <2>2. n \in Nat
    BY DEF Chain
  <2> QED BY <2>1, <2>2, CountsStep
<1> QED BY <1>1, <1>2, <1>3, <1>4, <1>5, <1>6, <1>7, <1>8

\* The list without its dummy: the next node is the dummy now.
Shorter(c, n) == [i \in 1 .. n - 1 |-> c[i + 1]]

LEMMA ClaimStep ==
  ASSUME LinkedType, Few, NEW n, NEW c, ListInv(c, n), NEW p \in Consumers \cap team, Claim(p)
  PROVE  ListInv(Shorter(c, n), n - 1)' /\ n > 1
<1> USE RolesAssumption, NullAssumption
<1> DEFINE d == Shorter(c, n)
<1> USE DEF Claim, Goto, given, nodes, locals, ListInv, Procs, Pointers
<1>1. /\ n \in 1 .. Room /\ n - 1 \in 1 .. Room /\ n > 1
      /\ \A i \in 1 .. n - 1 : d[i] = c[i + 1] /\ d[i] \in Nodes
      /\ d \in [1 .. n - 1 -> Nodes] /\ \A i \in 1 .. n : c[i] \in Nodes
      /\ mine[p] = c[1] /\ seen[p] = c[2] /\ Room \in Int
  <2>1. n \in 1 .. Room /\ c \in [1 .. n -> Nodes] /\ Room \in Int
    BY NodesAssumption, FS_CardinalityType DEF Chain, Room
  <2>2. mine[p] = c[1] /\ seen[p] = c[2] /\ n > 1
    BY DEF PopInv
  <2> QED BY <2>1, <2>2 DEF Shorter
<1> HIDE DEF d
<1>2. Chain(d, n - 1)'
  BY <1>1 DEF Chain
<1>3. Listed(d, n - 1)'
  BY <1>1 DEF Listed
<1>4. \A x : Unlisted(c, n, x) => Unlisted(d, n - 1, x)
  BY <1>1 DEF Unlisted
<1>5. Unlisted(d, n - 1, c[1])
  BY <1>1 DEF Unlisted, Chain
<1>6. Pushed(d, n - 1)'
  <2>1. \A q \in Producers : Unlinked(q)' => Unlinked(q)
    BY DEF LinkedType, Unlinked
  <2>2. \A x : Unlisted(d, n - 1, x)' <=> Unlisted(d, n - 1, x)
    BY DEF Unlisted
  <2> QED BY <1>4, <2>1, <2>2 DEF Pushed
<1>7. Popped(d, n - 1)'
  <2>1. \A q \in Producers : Unlinked(q)' => Unlinked(q)
    BY DEF LinkedType, Unlinked
  <2>2. \A x : Unlisted(d, n - 1, x)' <=> Unlisted(d, n - 1, x)
    BY DEF Unlisted
  <2>3. \A q \in Consumers : q # p => (Detached(q)' <=> Detached(q))
    BY DEF LinkedType, Detached
  <2>4. \A q \in Producers : Unlinked(q) => mine[q] # c[1]
    BY <1>1 DEF Pushed, Unlisted
  <2>5. c[1] \in live
    BY <1>1 DEF Listed
  <2> QED BY <1>1, <1>4, <1>5, <2>1, <2>2, <2>3, <2>4, <2>5 DEF Popped
<1>8. Accounted(d, n - 1)'
  <2> SUFFICES ASSUME NEW x \in live
               PROVE  \/ \E i \in 1 .. n - 1 : d[i] = x
                      \/ \E q \in Producers : Unlinked(q)' /\ mine[q] = x
                      \/ \E q \in Consumers : Detached(q)' /\ mine[q] = x
    BY DEF Accounted
  <2>1. CASE x = c[1]
    BY <2>1, <1>1 DEF Detached, LinkedType
  <2>2. ASSUME NEW i \in 1 .. n, c[i] = x, i # 1 PROVE \E j \in 1 .. n - 1 : d[j] = x
    <3>1. i - 1 \in 1 .. n - 1 /\ d[i - 1] = x
      BY <2>2, <1>1
    <3> QED BY <3>1
  <2>3. CASE \E q \in Producers : Unlinked(q) /\ mine[q] = x
    BY <2>3 DEF LinkedType, Unlinked
  <2>4. CASE \E q \in Consumers : Detached(q) /\ mine[q] = x
    BY <2>4 DEF LinkedType, Detached
  <2> QED BY <2>1, <2>2, <2>3, <2>4 DEF Accounted
<1>9. PopInv(d, n - 1)'
  BY <1>1 DEF PopInv, LinkedType, Few, Listed
<1>10. ASSUME NEW x, Good(c, n, x) PROVE Good(d, n - 1, x)'
  <2>1. n - 1 \in 1 .. n - 1 /\ d[n - 1] = c[n]
    BY <1>1
  <2> QED BY <1>1, <1>10, <2>1 DEF Good
<1>11. PushInv(d, n - 1)'
  <2>1. n - 1 \in 1 .. n - 1 /\ d[n - 1] = c[n]
    BY <1>1
  <2> QED BY <1>1, <1>10, <2>1, SMTT(30) DEF PushInv, LinkedType
<1>12. SizeInv(n - 1)'
  <2>1. p \notin Popping /\ Popping' = Popping \cup {p}
    BY DEF Popping, Discounting, LinkedType
  <2>2. Pushing' = Pushing
    BY DEF Pushing, Counting, LinkedType
  <2>3. n - 1 \in Nat /\ n \in Nat
    BY <1>1
  <2> QED BY <2>1, <2>2, <2>3, CountsStep
<1> QED BY <1>1, <1>2, <1>3, <1>6, <1>7, <1>8, <1>9, <1>11, <1>12 DEF d

LEMMA ClaimFailsStep ==
  ASSUME LinkedType, Few, NEW n, NEW c, ListInv(c, n), NEW p \in Consumers \cap team, ClaimFails(p)
  PROVE  ListInv(c, n)'
<1> USE RolesAssumption, NullAssumption
<1> USE DEF ClaimFails, Goto, Return, given, nodes, locals, ListInv, Procs, Pointers
<1>1. Chain(c, n)'
  BY DEF Chain
<1>2. Listed(c, n)'
  BY DEF Listed, Chain, Popped, Unlisted, Detached
<1>3. Pushed(c, n)'
  BY DEF Pushed, Popped, LinkedType, Unlinked, Unlisted, Detached
<1>4. Popped(c, n)'
  BY DEF Popped, LinkedType, Unlinked, Unlisted, Detached, Few
<1>5. Accounted(c, n)'
  BY DEF Accounted, LinkedType, Unlinked, Detached
<1>6. PopInv(c, n)'
  BY DEF PopInv, LinkedType, Few, Chain, Listed
<1>7. PushInv(c, n)'
  BY DEF PushInv, LinkedType, Few, Chain, Listed, Good, Unlinked, Counting
<1>8. SizeInv(n)'
  <2>1. Pushing' = Pushing /\ Popping' = Popping
    BY DEF Pushing, Popping, Counting, Discounting, LinkedType
  <2>2. n \in Nat
    BY DEF Chain
  <2> QED BY <2>1, <2>2, CountsStep
<1> QED BY <1>1, <1>2, <1>3, <1>4, <1>5, <1>6, <1>7, <1>8

LEMMA TakeStep ==
  ASSUME LinkedType, Few, NEW n, NEW c, ListInv(c, n), NEW p \in Consumers \cap team, Take(p)
  PROVE  ListInv(c, n)'
<1> USE RolesAssumption, NullAssumption
<1> USE DEF Take, Goto, Return, given, nodes, locals, ListInv, Procs, Pointers
<1>1. Chain(c, n)'
  BY DEF Chain
<1>2. Listed(c, n)'
  BY DEF Listed, Chain, Popped, Unlisted, Detached
<1>3. Pushed(c, n)'
  BY DEF Pushed, Popped, LinkedType, Unlinked, Unlisted, Detached
<1>4. Popped(c, n)'
  BY DEF Popped, LinkedType, Unlinked, Unlisted, Detached, Few
<1>5. Accounted(c, n)'
  BY DEF Accounted, LinkedType, Unlinked, Detached
<1>6. PopInv(c, n)'
  BY DEF PopInv, LinkedType, Few, Chain, Listed
<1>7. PushInv(c, n)'
  BY DEF PushInv, LinkedType, Few, Chain, Listed, Good, Unlinked, Counting
<1>8. SizeInv(n)'
  <2>1. Pushing' = Pushing /\ Popping' = Popping
    BY DEF Pushing, Popping, Counting, Discounting, LinkedType
  <2>2. n \in Nat
    BY DEF Chain
  <2> QED BY <2>1, <2>2, CountsStep
<1> QED BY <1>1, <1>2, <1>3, <1>4, <1>5, <1>6, <1>7, <1>8

LEMMA FreeStep ==
  ASSUME LinkedType, Few, NEW n, NEW c, ListInv(c, n), NEW p \in Consumers \cap team, Free(p)
  PROVE  ListInv(c, n)'
<1> USE RolesAssumption, NullAssumption
<1> USE DEF Free, Goto, Return, given, nodes, locals, ListInv, Procs, Pointers
<1>1. Chain(c, n)'
  BY DEF Chain
<1>2. Listed(c, n)'
  BY DEF Listed, Chain, Popped, Unlisted, Detached
<1>3. Pushed(c, n)'
  BY DEF Pushed, Popped, LinkedType, Unlinked, Unlisted, Detached
<1>4. Popped(c, n)'
  BY DEF Popped, LinkedType, Unlinked, Unlisted, Detached, Few
<1>5. Accounted(c, n)'
  BY DEF Accounted, LinkedType, Unlinked, Detached
<1>6. PopInv(c, n)'
  BY DEF PopInv, LinkedType, Few, Chain, Listed
<1>7. PushInv(c, n)'
  BY DEF PushInv, LinkedType, Few, Chain, Listed, Good, Unlinked, Counting
<1>8. SizeInv(n)'
  <2>1. Pushing' = Pushing /\ Popping' = Popping
    BY DEF Pushing, Popping, Counting, Discounting, LinkedType
  <2>2. n \in Nat
    BY DEF Chain
  <2> QED BY <2>1, <2>2, CountsStep
<1> QED BY <1>1, <1>2, <1>3, <1>4, <1>5, <1>6, <1>7, <1>8

LEMMA CountDownStep ==
  ASSUME LinkedType, Few, NEW n, NEW c, ListInv(c, n), NEW p \in Consumers \cap team, CountDown(p)
  PROVE  ListInv(c, n)'
<1> USE RolesAssumption, NullAssumption
<1> USE DEF CountDown, Goto, Return, given, nodes, locals, ListInv, Procs, Pointers
<1>1. Chain(c, n)'
  BY DEF Chain
<1>2. Listed(c, n)'
  BY DEF Listed, Chain, Popped, Unlisted, Detached
<1>3. Pushed(c, n)'
  BY DEF Pushed, Popped, LinkedType, Unlinked, Unlisted, Detached
<1>4. Popped(c, n)'
  BY DEF Popped, LinkedType, Unlinked, Unlisted, Detached, Few
<1>5. Accounted(c, n)'
  BY DEF Accounted, LinkedType, Unlinked, Detached
<1>6. PopInv(c, n)'
  BY DEF PopInv, LinkedType, Few, Chain, Listed
<1>7. PushInv(c, n)'
  BY DEF PushInv, LinkedType, Few, Chain, Listed, Good, Unlinked, Counting
<1>8. SizeInv(n)'
  <2>1. p \in Popping /\ Popping' = Popping \ {p}
    BY DEF Popping, Discounting, LinkedType
  <2>2. Pushing' = Pushing
    BY DEF Pushing, Counting, LinkedType
  <2>3. n \in Nat
    BY DEF Chain
  <2> QED BY <2>1, <2>2, <2>3, CountsStep
<1> QED BY <1>1, <1>2, <1>3, <1>4, <1>5, <1>6, <1>7, <1>8

\* The only access that goes wrong is a producer's through a tail that is null, which a
\* compare-exchange that failed for nothing has left behind.
LEMMA CrashStep ==
  ASSUME LinkedType, Few, NEW n, NEW c, ListInv(c, n),
         \/ \E p \in Producers \cap team : \/ Crash(p, "link", seen[p])
                                          \/ Crash(p, "loadNext", seen[p])
         \/ \E p \in Consumers \cap team : \/ Crash(p, "loadFirst", mine[p])
                                          \/ Crash(p, "take", seen[p])
                                          \/ Crash(p, "free", mine[p])
  PROVE  ListInv(c, n)'
<1> USE RolesAssumption, NullAssumption
<1> USE DEF Crash, given, nodes, locals, ListInv, Procs, Pointers
<1>1. Chain(c, n)' /\ Listed(c, n)'
  BY DEF Chain, Listed
<1>2. Pushed(c, n)'
  BY DEF Pushed, Unlinked, Unlisted
<1>3. Popped(c, n)' /\ Accounted(c, n)'
  BY DEF Popped, Accounted, Unlisted, Detached, Unlinked
<1>4. PopInv(c, n)'
  BY DEF PopInv
<1>5. weak
  BY DEF PushInv, PopInv, Popped, Good, Detached, Listed, Chain
<1>6. \A x : Good(c, n, x)' <=> Good(c, n, x)
  BY DEF Good
<1>7. PushInv(c, n)'
  BY <1>5, <1>6 DEF PushInv
<1>8. SizeInv(n)'
  <2>1. Pushing' = Pushing /\ Popping' = Popping
    BY DEF Pushing, Popping, Counting, Discounting, LinkedType
  <2>2. n \in Nat
    BY DEF Chain
  <2> QED BY <2>1, <2>2, CountsStep
<1> QED BY <1>1, <1>2, <1>3, <1>4, <1>7, <1>8

-----------------------------------------------------------------------------
(* The invariant holds *)

LEMMA FewInTests == Tested /\ team \in Teams => Few
<1>1. ASSUME NEW S, IsFiniteSet(S), Cardinality(S) <= 1, NEW p \in S, NEW q \in S PROVE p = q
  <2> SUFFICES ASSUME p # q PROVE FALSE
    OBVIOUS
  <2>1. {p, q} \subseteq S
    OBVIOUS
  <2>2. IsFiniteSet({q}) /\ Cardinality({q}) = 1
    BY FS_Singleton
  <2>3. Cardinality({q} \cup {p}) = 2
    BY <2>2, FS_AddElement
  <2>4. {q} \cup {p} = {p, q}
    OBVIOUS
  <2>5. Cardinality(S) \in Nat /\ Cardinality({p, q}) <= Cardinality(S)
    BY <1>1, <2>1, FS_Subset, FS_CardinalityType
  <2> QED BY <1>1, <2>3, <2>4, <2>5
<1>2. IsFiniteSet(team \cap Producers) /\ IsFiniteSet(team \cap Consumers)
  BY RolesAssumption, FS_Intersection
<1> QED BY <1>1, <1>2 DEF Tested, Few

LEMMA LinkedInvInit == LinkedInit => LinkedInv
<1> SUFFICES ASSUME LinkedInit, Tested PROVE LinkedInv
  BY DEF LinkedInv
<1> USE RolesAssumption, NullAssumption
<1>1. Dummy \in Nodes
  BY NodesAssumption DEF Dummy
<1>2. Room \in Nat /\ Room >= 1
  BY NodesAssumption, FS_CardinalityType, FS_EmptySet DEF Room
<1>3. LinkedType
  <2>1. weak \in BOOLEAN /\ fault \in BOOLEAN
    BY WeakAssumption, Zenon DEF LinkedInit
  <2>2. \A p \in Procs : pc[p] = "idle"
    BY DEF LinkedInit
  <2>3. pc \in [Procs -> {"idle"}]
    BY DEF LinkedInit
  <2> QED BY <1>1, <2>1, <2>2, <2>3 DEF LinkedInit, LinkedType, Procs, Pointers
<1>4. Few
  BY FewInTests DEF LinkedInit
<1> DEFINE c == [i \in 1 .. 1 |-> Dummy]
<1>5. c \in [1 .. 1 -> Nodes] /\ c[1] = Dummy
  BY <1>1
<1> HIDE DEF c
<1>6. Chain(c, 1) /\ Listed(c, 1)
  BY <1>1, <1>2, <1>5 DEF Chain, Listed, LinkedInit
<1>7. Pushed(c, 1) /\ Popped(c, 1) /\ Accounted(c, 1) /\ PopInv(c, 1)
  BY <1>5 DEF LinkedInit, Pushed, Popped, Accounted, PopInv, Unlinked, Detached, Procs
<1>8. PushInv(c, 1)
  BY <1>1, <1>5 DEF LinkedInit, PushInv, Good, Procs
<1>9. SizeInv(1)
  <2>1. Pushing = {} /\ Popping = {}
    BY DEF LinkedInit, Pushing, Popping, Counting, Discounting, Procs
  <2>2. Cardinality(Pushing) = 0 /\ Cardinality(Popping) = 0
    BY <2>1, FS_EmptySet
  <2>3. 1 - 1 - Cardinality(Pushing) + Cardinality(Popping) = 0
    BY <2>2
  <2>4. 0 % Word = 0
    BY WordAssumption, <1>2 DEF Room
  <2> QED BY <2>3, <2>4 DEF LinkedInit, SizeInv, Pushing, Popping
<1>10. ListInv(c, 1)
  BY <1>6, <1>7, <1>8, <1>9 DEF ListInv
<1>11. 1 \in 1 .. Room
  BY <1>2
<1> QED BY <1>3, <1>4, <1>5, <1>10, <1>11 DEF LinkedInv

\* What any step does to the list.
LEMMA ListStep ==
  ASSUME LinkedType, Few, NEW n, NEW c, ListInv(c, n), [LinkedNext]_linkedVars
  PROVE  \/ ListInv(c, n)'
         \/ /\ \E p \in Producers \cap team : Link(p)
            /\ n + 1 <= Room /\ \E d \in [1 .. n + 1 -> Nodes] : ListInv(d, n + 1)'
         \/ /\ \E p \in Consumers \cap team : Claim(p)
            /\ n > 1 /\ \E d \in [1 .. n - 1 -> Nodes] : ListInv(d, n - 1)'
<1>1. ASSUME NEW p \in Producers \cap team, LinkedPush(p), ~Link(p) PROVE ListInv(c, n)'
  <2>1. ASSUME NEW v \in Values, NEW m \in Nodes, CallPush(p, v, m) PROVE ListInv(c, n)'
    BY <2>1, CallPushStep
  <2>2. CASE LoadTail(p) BY <2>2, LoadTailStep
  <2>3. CASE LinkFails(p) BY <2>3, LinkFailsStep
  <2>4. CASE LoadNext(p) BY <2>4, LoadNextStep
  <2>5. CASE Help(p) BY <2>5, HelpStep
  <2>6. CASE Swing(p) BY <2>6, SwingStep
  <2>7. CASE CountUp(p) BY <2>7, CountUpStep
  <2>8. CASE Crash(p, "link", seen[p]) \/ Crash(p, "loadNext", seen[p])
    BY <2>8, CrashStep
  <2> QED BY <1>1, <2>1, <2>2, <2>3, <2>4, <2>5, <2>6, <2>7, <2>8 DEF LinkedPush
<1>2. ASSUME NEW p \in Producers \cap team, Link(p)
      PROVE  n + 1 <= Room /\ \E d \in [1 .. n + 1 -> Nodes] : ListInv(d, n + 1)'
  <2>1. PICK m : m = mine[p]
    OBVIOUS
  <2>2. ListInv(Longer(c, n, m), n + 1)' /\ n + 1 <= Room
    BY <1>2, <2>1, LinkStep
  <2>3. Longer(c, n, m) \in [1 .. n + 1 -> Nodes]
    BY <2>2 DEF ListInv, Chain
  <2> QED BY <2>2, <2>3
<1>3. ASSUME NEW p \in Consumers \cap team, LinkedPop(p), ~Claim(p) PROVE ListInv(c, n)'
  <2>1. CASE LinkedCallPop(p) BY <2>1, LinkedCallPopStep
  <2>2. CASE LoadHead(p) BY <2>2, LoadHeadStep
  <2>3. CASE LoadFirst(p) BY <2>3, LoadFirstStep
  <2>4. CASE PopEmpty(p) BY <2>4, PopEmptyStep
  <2>5. CASE ClaimFails(p) BY <2>5, ClaimFailsStep
  <2>6. CASE Take(p) BY <2>6, TakeStep
  <2>7. CASE Free(p) BY <2>7, FreeStep
  <2>8. CASE CountDown(p) BY <2>8, CountDownStep
  <2>9. CASE \/ Crash(p, "loadFirst", mine[p])
             \/ Crash(p, "take", seen[p]) \/ Crash(p, "free", mine[p])
    BY <2>9, CrashStep
  <2> QED BY <1>3, <2>1, <2>2, <2>3, <2>4, <2>5, <2>6, <2>7, <2>8, <2>9 DEF LinkedPop
<1>4. ASSUME NEW p \in Consumers \cap team, Claim(p)
      PROVE  n > 1 /\ \E d \in [1 .. n - 1 -> Nodes] : ListInv(d, n - 1)'
  <2>1. ListInv(Shorter(c, n), n - 1)' /\ n > 1
    BY <1>4, ClaimStep
  <2>2. Shorter(c, n) \in [1 .. n - 1 -> Nodes]
    BY <2>1 DEF ListInv, Chain
  <2> QED BY <2>1, <2>2
<1>5. CASE UNCHANGED linkedVars
  <2> USE <1>5 DEF linkedVars, given, nodes, locals
  <2>1. Chain(c, n)' /\ Listed(c, n)'
    BY DEF ListInv, Chain, Listed
  <2>2. Pushed(c, n)' /\ Popped(c, n)' /\ Accounted(c, n)'
    BY DEF ListInv, Pushed, Popped, Accounted, Unlinked, Detached, Unlisted
  <2>3. PopInv(c, n)'
    BY DEF ListInv, PopInv
  <2>4. PushInv(c, n)'
    BY DEF ListInv, PushInv, Good
  <2>5. SizeInv(n)'
    BY DEF ListInv, SizeInv, Counting, Discounting
  <2> QED BY <2>1, <2>2, <2>3, <2>4, <2>5 DEF ListInv
<1> QED BY <1>1, <1>2, <1>3, <1>4, <1>5 DEF LinkedNext

LEMMA LinkedInvStep == LinkedInv /\ [LinkedNext]_linkedVars => LinkedInv'
<1> SUFFICES ASSUME LinkedInv, [LinkedNext]_linkedVars, Tested' PROVE LinkedInv'
  BY DEF LinkedInv
<1>1. UNCHANGED given
  BY DEF linkedVars, LinkedNext, LinkedPush, LinkedPop, CallPush, LoadTail, Link, LinkFails,
         LoadNext, Help, Swing, CountUp, LinkedCallPop, LoadHead, LoadFirst, PopEmpty, Claim,
         ClaimFails, Take, Free, CountDown, Crash, Return, Goto
<1>2. LinkedType /\ Few /\ Tested
  BY <1>1 DEF LinkedInv, Tested, given
<1>3. LinkedType' /\ Few'
  BY <1>1, <1>2, TypeStep DEF Few, given
<1>4. PICK n \in 1 .. Room : \E c \in [1 .. n -> Nodes] : ListInv(c, n)
  BY <1>2 DEF LinkedInv
<1>5. PICK c \in [1 .. n -> Nodes] : ListInv(c, n)
  BY <1>4
<1>6. Room \in Nat
  BY NodesAssumption, FS_CardinalityType DEF Room
<1>7. \E m \in 1 .. Room : \E d \in [1 .. m -> Nodes] : ListInv(d, m)'
  <2>1. CASE ListInv(c, n)'
    BY <2>1
  <2>2. CASE n + 1 <= Room /\ \E d \in [1 .. n + 1 -> Nodes] : ListInv(d, n + 1)'
    <3>1. n + 1 \in 1 .. Room
      BY <1>6, <2>2
    <3> QED BY <3>1, <2>2
  <2>3. CASE n > 1 /\ \E d \in [1 .. n - 1 -> Nodes] : ListInv(d, n - 1)'
    <3>1. n - 1 \in 1 .. Room
      BY <1>6, <2>3
    <3> QED BY <3>1, <2>3
  <2> QED BY <1>2, <1>5, <2>1, <2>2, <2>3, ListStep
<1>8. Room' = Room
  BY DEF Room
<1> QED BY <1>3, <1>7, <1>8 DEF LinkedInv

LEMMA NatMin == ASSUME NEW T \in SUBSET Nat, T # {}
                PROVE  \E m \in T : \A k \in T : m <= k
<1> DEFINE R == OpToRel(<, Nat)
<1>1. IsWellFoundedOn(R, Nat)
  BY NatLessThanWellFounded
<1> HIDE DEF R
<1>2. PICK m \in T : \A k \in T : ~(<<k, m>> \in R)
  BY <1>1, WFMin
<1>3. \A k \in T : ~(k < m)
  BY <1>2 DEF R, OpToRel
<1> QED BY <1>3

LEMMA ByInduction ==
  ASSUME NEW m \in Nat, NEW S, 0 \in S,
         \A i \in 1 .. m : i - 1 \in S => i \in S
  PROVE  \A i \in 0 .. m : i \in S
<1> DEFINE T == {i \in 0 .. m : i \notin S}
<1> SUFFICES ASSUME T # {} PROVE FALSE
  OBVIOUS
<1>1. PICK k \in T : \A i \in T : k <= i
  <2>1. T \in SUBSET Nat
    OBVIOUS
  <2> QED BY <2>1, NatMin
<1>2. k \in 1 .. m /\ k - 1 \in 0 .. m /\ k - 1 \notin T
  BY <1>1
<1> QED BY <1>1, <1>2

\* At, which follows next from head, finds the list and then Null.
LEMMA AtIs ==
  ASSUME NEW n, NEW c
  PROVE  Chain(c, n) => /\ \A i \in 0 .. Room : At[i] = IF i < n THEN c[i + 1] ELSE Null
                        /\ Count = n - 1
<1> SUFFICES ASSUME Chain(c, n)
             PROVE  /\ \A i \in 0 .. Room : At[i] = IF i < n THEN c[i + 1] ELSE Null
                    /\ Count = n - 1
  OBVIOUS
<1> DEFINE f == [i \in 0 .. Room |-> IF i < n THEN c[i + 1] ELSE Null]
           Body(g) == [i \in 0 .. Cardinality(Nodes) |->
                        IF i = 0 THEN head
                        ELSE IF g[i - 1] = Null THEN Null ELSE next[g[i - 1]]]
<1>1. Room \in Nat /\ n \in 1 .. Room /\ \A i \in 1 .. n : c[i] \in Nodes /\ c[i] # Null
  BY NodesAssumption, NullAssumption, FS_CardinalityType DEF Room, Chain
<1>2. f = Body(f)
  <2>1. ASSUME NEW i \in 0 .. Room
        PROVE  f[i] = IF i = 0 THEN head ELSE IF f[i - 1] = Null THEN Null ELSE next[f[i - 1]]
    <3>1. CASE i = 0
      BY <3>1, <1>1 DEF Chain
    <3>2. CASE i # 0 /\ i < n
      <4>1. i - 1 \in 0 .. Room /\ f[i - 1] = c[i] /\ f[i] = c[i + 1] /\ i \in 1 .. n - 1
        BY <3>2, <1>1
      <4> QED BY <4>1, <3>2, <1>1 DEF Chain
    <3>3. CASE i = n
      <4>1. i - 1 \in 0 .. Room /\ f[i - 1] = c[n] /\ f[i] = Null
        BY <3>3, <1>1
      <4> QED BY <4>1, <3>3, <1>1 DEF Chain
    <3>4. CASE i > n
      <4>1. i - 1 \in 0 .. Room /\ f[i - 1] = Null /\ f[i] = Null
        BY <3>4, <1>1
      <4> QED BY <4>1, <3>4, <1>1
    <3> QED BY <3>1, <3>2, <3>3, <3>4, <1>1
  <2> QED BY <2>1 DEF Room
<1>3. At = CHOOSE g : g = Body(g)
  BY SMTT(30) DEF At
<1> HIDE DEF f
<1>4. At = Body(At)
  BY <1>2, <1>3
<1>5. \A i \in 0 .. Room : At[i] = IF i = 0 THEN head
                                  ELSE IF At[i - 1] = Null THEN Null ELSE next[At[i - 1]]
  BY <1>4 DEF Room
<1>6. \A i \in 0 .. Room : f[i] = IF i = 0 THEN head
                                 ELSE IF f[i - 1] = Null THEN Null ELSE next[f[i - 1]]
  BY <1>2 DEF Room
<1> HIDE DEF Body
<1> DEFINE S == {i \in 0 .. Room : At[i] = f[i]}
<1>7. 0 \in S
  BY <1>1, <1>5, <1>6
<1>8. \A i \in 1 .. Room : i - 1 \in S => i \in S
  BY <1>1, <1>5, <1>6
<1> HIDE DEF S
<1>9. \A i \in 0 .. Room : i \in S
  BY <1>1, <1>7, <1>8, ByInduction
<1>10. \A i \in 0 .. Room : At[i] = IF i < n THEN c[i + 1] ELSE Null
  BY <1>9 DEF S, f
<1>11. Count = n - 1
  <2>1. {i \in 1 .. Cardinality(Nodes) : At[i] # Null} = 1 .. n - 1
    BY <1>1, <1>10 DEF Room
  <2>2. Cardinality(1 .. n - 1) = n - 1
    BY <1>1, FS_Interval
  <2> QED BY <2>1, <2>2 DEF Count
<1> QED BY <1>10, <1>11

-----------------------------------------------------------------------------
(* What follows from it *)

LEMMA ListAccounts == LinkedInv => NothingLost
<1> SUFFICES ASSUME LinkedInv, Tested PROVE NothingLost
  BY DEF NothingLost, NoFaultAsTested, AsTested, NothingLeaksOrMiscounts
<1>1. PICK n \in 1 .. Room : \E c \in [1 .. n -> Nodes] : ListInv(c, n)
  BY DEF LinkedInv
<1>2. PICK c \in [1 .. n -> Nodes] : ListInv(c, n)
  BY <1>1
<1>3. NoFaultAsTested
  BY <1>2 DEF NoFaultAsTested, AsTested, ListInv, PushInv
<1>4. /\ \A i \in 0 .. Room : At[i] = IF i < n THEN c[i + 1] ELSE Null
      /\ Count = n - 1
  BY <1>2, AtIs DEF ListInv
<1>5. ASSUME NEW x \in live
      PROVE  \/ \E i \in 0 .. Cardinality(Nodes) : At[i] = x
             \/ \E p \in Producers : mine[p] = x
             \/ \E p \in Consumers : mine[p] = x /\ pc[p] \in {"take", "free"}
  <2>1. CASE \E i \in 1 .. n : c[i] = x
    <3>1. PICK i \in 1 .. n : c[i] = x
      BY <2>1
    <3>2. i - 1 \in 0 .. Room /\ i - 1 < n /\ (i - 1) + 1 = i
      BY NodesAssumption, FS_CardinalityType DEF Room
    <3>3. At[i - 1] = x
      BY <1>4, <3>1, <3>2
    <3> QED BY <3>2, <3>3 DEF Room
  <2> QED BY <1>2, <2>1 DEF ListInv, Accounted, Detached
<1>6. size = (Count
              - Cardinality({p \in Producers : pc[p] \in {"swing", "countUp"}})
              + Cardinality({p \in Consumers : pc[p] \in {"take", "free", "countDown"}})) % Word
  BY <1>2, <1>4 DEF ListInv, SizeInv, Counting, Discounting
<1> QED BY <1>3, <1>5, <1>6 DEF NothingLost, NothingLeaksOrMiscounts

LEMMA ListKept == LinkedSpec => []LinkedInv
BY LinkedInvInit, LinkedInvStep, PTL DEF LinkedSpec

\* For the teams of its test the queue loses nothing, whatever the interleaving and however
\* nodes are reused: no access goes to a deleted node or through null while
\* compare-exchanges fail only for a reason, every live node is in the list or in the hands
\* of the thread that will link or delete it, and size is off by the operations that have
\* not counted yet.
THEOREM ListsNodesKept == LinkedSpec => []NothingLost
BY ListKept, ListAccounts, PTL
-----------------------------------------------------------------------------
(* The refinement *)

\* The values of the list c[1] .. c[n], behind the dummy.
Listing(c, n) == [i \in 1 .. n - 1 |-> data[c[i + 1]]]

LEMMA QueueIs == ASSUME NEW n, NEW c PROVE Chain(c, n) => absQueue = Listing(c, n)
<1> SUFFICES ASSUME Chain(c, n) PROVE absQueue = Listing(c, n)
  OBVIOUS
<1>1. /\ \A i \in 0 .. Room : At[i] = IF i < n THEN c[i + 1] ELSE Null
      /\ Count = n - 1
  BY AtIs
<1>2. Room \in Nat /\ n \in 1 .. Room
  BY NodesAssumption, FS_CardinalityType DEF Room, Chain
<1>3. \A i \in 1 .. n - 1 : At[i] = c[i + 1]
  BY <1>1, <1>2
<1> QED BY <1>1, <1>3 DEF absQueue, Listing

LEMMA QueueIsNext ==
  ASSUME NEW n, NEW c, Chain(c, n)' PROVE absQueue' = Listing(c, n)'
<1>1. (Chain(c, n) => absQueue = Listing(c, n))'
  BY QueueIs, PTL
<1> QED BY <1>1

LEMMA RefinesInit == LinkedInit /\ LinkedInv /\ AsTested => Abs!Init
<1> SUFFICES ASSUME LinkedInit PROVE Abs!Init
  OBVIOUS
<1>1. absArg = [p \in Procs |-> None] /\ absRet = [p \in Procs |-> None]
  BY DEF LinkedInit, absArg, absRet
<1> DEFINE c == [i \in 1 .. 1 |-> Dummy]
<1>2. Chain(c, 1)
  <2>1. Room \in Nat /\ Room >= 1 /\ Dummy \in Nodes
    BY NodesAssumption, FS_CardinalityType, FS_EmptySet DEF Room, Dummy
  <2> QED BY <2>1 DEF Chain, LinkedInit
<1>3. absQueue = << >>
  BY <1>2, QueueIs DEF Listing
<1> QED BY <1>1, <1>3 DEF Abs!Init

LEMMA SameQueue ==
  ASSUME NEW n, NEW c, ListInv(c, n), ListInv(c, n)',
         \A i \in 1 .. n : data'[c[i]] = data[c[i]]
  PROVE  absQueue' = absQueue
<1>1. absQueue = Listing(c, n)
  BY QueueIs DEF ListInv
<1>2. absQueue' = Listing(c, n)'
  BY QueueIsNext DEF ListInv
<1>3. Listing(c, n)' = Listing(c, n)
  <2>1. n \in Nat
    BY DEF ListInv, Chain
  <2>2. \A i \in 1 .. n - 1 : i + 1 \in 1 .. n
    BY <2>1
  <2> QED BY <2>2 DEF Listing
<1> QED BY <1>1, <1>2, <1>3

LEMMA PushRefines ==
  ASSUME LinkedType, Few, NEW n, NEW c, ListInv(c, n), NEW p \in Producers \cap team,
         LinkedPush(p)
  PROVE  [AsTested => Abs!Next]_(Abs!vars)
<1> USE RolesAssumption, NullAssumption
<1> USE DEF Goto, Return, given, nodes, locals, Procs, Pointers
<1>1. ASSUME NEW v \in Values, NEW m \in Nodes, CallPush(p, v, m) PROVE Abs!CallPush(p, v)
  <2>1. ListInv(c, n)'
    BY <1>1, CallPushStep
  <2>2. \A i \in 1 .. n : data'[c[i]] = data[c[i]]
    BY <1>1 DEF CallPush, LinkedType, ListInv, Listed, Chain
  <2>3. absQueue' = absQueue
    BY <2>1, <2>2, SameQueue
  <2>4. absArg[p] = None /\ absRet[p] = None
    BY <1>1 DEF CallPush, absArg, absRet
  <2> DEFINE ArgOf(q) == IF pc[q] \in {"loadTail", "link", "loadNext", "help"}
                         THEN data[mine[q]] ELSE None
             RetOf(q) == CASE pc[q] = "take" -> data[seen[q]]
                           [] pc[q] \in {"free", "countDown"} -> result[q]
                           [] OTHER -> None
  <2>5. \A x \in live : data'[x] = data[x]
    BY <1>1 DEF CallPush, LinkedType
  <2>6. ASSUME NEW q \in Procs PROVE RetOf(q)' = RetOf(q)
    <3>1. pc[q] = "take" => seen[q] \in live
      BY DEF LinkedType, ListInv, PopInv, Listed, Chain, Unlinked, Counting
    <3>2. (pc'[q] = pc[q] \/ q = p) /\ pc[p] = "idle" /\ pc'[p] = "loadTail"
      BY <1>1 DEF CallPush, LinkedType
    <3>3. UNCHANGED <<seen, result>>
      BY <1>1 DEF CallPush
    <3> QED BY <2>5, <3>1, <3>2, <3>3
  <2>7. absRet' = absRet
    BY <2>6 DEF absRet
  <2>8. ASSUME NEW q \in Procs PROVE ArgOf(q)' = IF q = p THEN v ELSE ArgOf(q)
    <3>1. CASE q = p
      BY <1>1, <3>1 DEF CallPush, LinkedType
    <3>2. CASE q # p
      <4>1. pc'[q] = pc[q] /\ mine'[q] = mine[q]
        BY <1>1, <3>2 DEF CallPush, LinkedType
      <4>2. pc[q] \in {"loadTail", "link", "loadNext", "help"} => mine[q] \in live
        BY DEF LinkedType, ListInv, Pushed, Unlinked, Discounting
      <4> QED BY <2>5, <3>2, <4>1, <4>2
    <3> QED BY <3>1, <3>2
  <2>9. absArg' = [absArg EXCEPT ![p] = v]
    BY <2>8 DEF absArg
  <2> QED BY <2>3, <2>4, <2>7, <2>9 DEF Abs!CallPush
<1>2. CASE Link(p)
  <2>1. PICK m : m = mine[p]
    OBVIOUS
  <2>2. ListInv(Longer(c, n, m), n + 1)' /\ n + 1 <= Room
    BY <1>2, <2>1, LinkStep
  <2>3. absQueue = Listing(c, n)
    BY QueueIs DEF ListInv
  <2>4. absQueue' = Listing(Longer(c, n, m), n + 1)'
    BY <2>2, QueueIsNext DEF ListInv
  <2>5. n \in Nat \ {0} /\ Room \in Nat
    BY NodesAssumption, FS_CardinalityType DEF Room, ListInv, Chain
  <2>6. absArg[p] = data[m] /\ data[m] \in Values /\ data[m] # None
    BY <1>2, <2>1 DEF Link, absArg, ListInv, Pushed, Unlinked
  <2>7. Abs!Enqueue(p)
    <3>1. Listing(c, n) \in Seq(Values) /\ Len(Listing(c, n)) = n - 1
      <4>1. \A i \in 1 .. n - 1 : data[c[i + 1]] \in Values
        BY <2>5 DEF ListInv, Listed
      <4> QED BY <2>5, <4>1 DEF Listing
    <3>2. Listing(Longer(c, n, m), n + 1)' = Append(Listing(c, n), data[m])
      <4>1. Listing(Longer(c, n, m), n + 1)' = [i \in 1 .. n |-> IF i = n THEN data[m] ELSE data[c[i + 1]]]
        BY <2>5, <1>2 DEF Listing, Longer, Link
      <4> QED BY <2>5, <3>1, <4>1 DEF Listing
    <3>3. absArg' = [absArg EXCEPT ![p] = None]
      BY <1>2 DEF Link, absArg, LinkedType
    <3>4. absRet' = absRet
      BY <1>2 DEF Link, absRet, LinkedType
    <3>5. Len(absQueue) < Cardinality(Nodes)
      BY <2>2, <2>3, <2>5, <3>1 DEF Room
    <3> QED BY <2>3, <2>4, <2>6, <3>2, <3>3, <3>4, <3>5 DEF Abs!Enqueue
  <2> QED BY <2>7 DEF Abs!Next, Procs
<1>3. CASE ~Link(p) /\ ~\E v \in Values, m \in Nodes : CallPush(p, v, m)
  <2>1. ListInv(c, n)'
    <3>1. CASE LoadTail(p) BY <3>1, LoadTailStep
    <3>2. CASE LinkFails(p) BY <3>2, LinkFailsStep
    <3>3. CASE LoadNext(p) BY <3>3, LoadNextStep
    <3>4. CASE Help(p) BY <3>4, HelpStep
    <3>5. CASE Swing(p) BY <3>5, SwingStep
    <3>6. CASE CountUp(p) BY <3>6, CountUpStep
    <3>7. CASE Crash(p, "link", seen[p]) \/ Crash(p, "loadNext", seen[p])
      BY <3>7, CrashStep
    <3> QED BY <1>3, <3>1, <3>2, <3>3, <3>4, <3>5, <3>6, <3>7 DEF LinkedPush
  <2>2. UNCHANGED data
    BY <1>3 DEF LinkedPush, LoadTail, LinkFails, LoadNext, Help, Swing, CountUp, Crash
  <2>3. absQueue' = absQueue
    BY <2>1, <2>2, SameQueue
  <2>4. absArg' = absArg
    BY <1>3 DEF LinkedPush, LoadTail, LinkFails, LoadNext, Help, Swing, CountUp, Crash,
                absArg, LinkedType
  <2>5. absRet' = absRet
    BY <1>3 DEF LinkedPush, LoadTail, LinkFails, LoadNext, Help, Swing, CountUp, Crash,
                absRet, LinkedType
  <2> QED BY <2>3, <2>4, <2>5 DEF Abs!vars
<1> QED BY <1>1, <1>2, <1>3 DEF Abs!Next

LEMMA PopRefines ==
  ASSUME LinkedType, Few, NEW n, NEW c, ListInv(c, n), NEW p \in Consumers \cap team,
         LinkedPop(p)
  PROVE  [AsTested => Abs!Next]_(Abs!vars)
<1> USE RolesAssumption, NullAssumption
<1> USE DEF Goto, Return, given, nodes, locals, Procs, Pointers
<1>1. absQueue = Listing(c, n)
  BY QueueIs DEF ListInv
<1>2. n \in Nat \ {0} /\ Listing(c, n) \in Seq(Values) /\ Len(Listing(c, n)) = n - 1
  <2>1. n \in Nat \ {0}
    BY DEF ListInv, Chain
  <2>2. \A i \in 1 .. n - 1 : data[c[i + 1]] \in Values
    BY <2>1 DEF ListInv, Listed
  <2> QED BY <2>1, <2>2 DEF Listing
<1>3. CASE Claim(p)
  <2>1. ListInv(Shorter(c, n), n - 1)' /\ n > 1
    BY <1>3, ClaimStep
  <2>2. absQueue' = Listing(Shorter(c, n), n - 1)'
    BY <2>1, QueueIsNext DEF ListInv
  <2>3. Listing(Shorter(c, n), n - 1)' = Tail(Listing(c, n))
    BY <1>2, <1>3, <2>1 DEF Listing, Shorter, Claim
  <2>4. Head(Listing(c, n)) = data[c[2]] /\ Listing(c, n) # << >>
    BY <1>2, <2>1 DEF Listing
  <2>5. seen[p] = c[2]
    BY <1>3 DEF Claim, ListInv, PopInv
  <2>6. absRet' = [absRet EXCEPT ![p] = data[c[2]]]
    BY <1>3, <2>5 DEF Claim, absRet, LinkedType
  <2>7. absArg' = absArg
    BY <1>3 DEF Claim, absArg, LinkedType
  <2>8. absArg[p] = None /\ absRet[p] = None
    BY <1>3 DEF Claim, absArg, absRet
  <2>9. Abs!Dequeue(p)
    BY <1>1, <2>2, <2>3, <2>4, <2>6, <2>7, <2>8 DEF Abs!Dequeue
  <2> QED BY <2>9 DEF Abs!Next
<1>4. CASE ~Claim(p)
  <2>1. ListInv(c, n)'
    <3>1. CASE LinkedCallPop(p) BY <3>1, LinkedCallPopStep
    <3>2. CASE LoadHead(p) BY <3>2, LoadHeadStep
    <3>3. CASE LoadFirst(p) BY <3>3, LoadFirstStep
    <3>4. CASE PopEmpty(p) BY <3>4, PopEmptyStep
    <3>5. CASE ClaimFails(p) BY <3>5, ClaimFailsStep
    <3>6. CASE Take(p) BY <3>6, TakeStep
    <3>7. CASE Free(p) BY <3>7, FreeStep
    <3>8. CASE CountDown(p) BY <3>8, CountDownStep
    <3>9. CASE \/ Crash(p, "loadFirst", mine[p])
               \/ Crash(p, "take", seen[p]) \/ Crash(p, "free", mine[p])
      BY <3>9, CrashStep
    <3> QED BY <1>4, <3>1, <3>2, <3>3, <3>4, <3>5, <3>6, <3>7, <3>8, <3>9 DEF LinkedPop
  <2>2. UNCHANGED data
    BY <1>4 DEF LinkedPop, LinkedCallPop, LoadHead, LoadFirst, PopEmpty, ClaimFails, Take, Free,
                CountDown, Crash
  <2>3. absQueue' = absQueue
    BY <2>1, <2>2, SameQueue
  <2>4. absArg' = absArg
    BY <1>4 DEF LinkedPop, LinkedCallPop, LoadHead, LoadFirst, PopEmpty, ClaimFails, Take, Free,
                CountDown, Crash, absArg, LinkedType
  <2>5. CASE ~CountDown(p)
    <3>1. absRet' = absRet
      BY <1>4, <2>5 DEF LinkedPop, LinkedCallPop, LoadHead, LoadFirst, PopEmpty, ClaimFails, Take,
                        Free, Crash, absRet, LinkedType
    <3> QED BY <2>3, <2>4, <3>1 DEF Abs!vars
  <2>6. CASE CountDown(p)
    <3>1. absRet' = [absRet EXCEPT ![p] = None]
      BY <2>6 DEF CountDown, absRet, LinkedType
    <3>2. absRet[p] # None
      BY <2>6 DEF CountDown, absRet, ListInv, PopInv
    <3>3. Abs!ReturnPop(p)
      BY <2>3, <2>4, <3>1, <3>2 DEF Abs!ReturnPop
    <3> QED BY <3>3 DEF Abs!Next
  <2> QED BY <2>5, <2>6
<1> QED BY <1>3, <1>4

LEMMA StepRefines == LinkedInv /\ [LinkedNext]_linkedVars => [AsTested => Abs!Next]_(Abs!vars)
<1> SUFFICES ASSUME LinkedInv, [LinkedNext]_linkedVars, AsTested
             PROVE  [AsTested => Abs!Next]_(Abs!vars)
  OBVIOUS
<1>1. PICK n \in 1 .. Room : \E c \in [1 .. n -> Nodes] : ListInv(c, n)
  BY DEF LinkedInv, AsTested
<1>2. PICK c \in [1 .. n -> Nodes] : ListInv(c, n)
  BY <1>1
<1>3. LinkedType /\ Few
  BY DEF LinkedInv, AsTested
<1>4. CASE UNCHANGED linkedVars
  BY <1>4 DEF linkedVars, Abs!vars, absQueue, absArg, absRet, nodes, locals, given, At, Count
<1> QED BY <1>2, <1>3, <1>4, PushRefines, PopRefines DEF LinkedNext

\* For the teams of its test the queue implements BoundedQueue: a push takes effect when
\* it links its node, a pop when it moves head, and values leave once each, unchanged, in
\* the order of the links.
THEOREM ListIsAQueue == LinkedSpec => ImplementsLinkedQueue
BY LinkedInvInit, ListKept, RefinesInit, StepRefines, PTL DEF LinkedSpec, ImplementsLinkedQueue
=============================================================================
