------------------------- MODULE Collections_proofs -------------------------
(***************************************************************************)
(* What is proved of the hash table, the skip list, the arena, the string  *)
(* and the growing ring buffer, for any keys, hashes, heights, sizes and   *)
(* texts.                                                                  *)
(***************************************************************************)
EXTENDS Collections, GrowingRing, FiniteSetTheorems, SequenceTheorems, WellFoundedInduction, TLAPS

-----------------------------------------------------------------------------
(* Sequences and recursion *)

\* The sequence s without its i-th element.
Cut(s, i) == [j \in 1 .. Len(s) - 1 |-> IF j < i THEN s[j] ELSE s[j + 1]]

LEMMA RemoveAtIs ==
  ASSUME NEW S, NEW s \in Seq(S), NEW i \in 1 .. Len(s)
  PROVE  /\ RemoveAt(s, i) = Cut(s, i)
         /\ Len(Cut(s, i)) = Len(s) - 1 /\ Cut(s, i) \in Seq(S)
         /\ \A j \in 1 .. Len(s) - 1 : Cut(s, i)[j] = IF j < i THEN s[j] ELSE s[j + 1]
<1>1. Len(s) \in Nat
  OBVIOUS
<1>2. \A j \in 1 .. Len(s) - 1 : (IF j < i THEN s[j] ELSE s[j + 1]) \in S
  OBVIOUS
<1>3. Len(Cut(s, i)) = Len(s) - 1 /\ Cut(s, i) \in Seq(S)
  BY <1>1, <1>2 DEF Cut
<1>4. RemoveAt(s, i) = Cut(s, i)
  <2> DEFINE a == SubSeq(s, 1, i - 1)
             b == SubSeq(s, i + 1, Len(s))
  <2>1. /\ a \in Seq(S) /\ Len(a) = i - 1 /\ \A j \in 1 .. i - 1 : a[j] = s[j]
    OBVIOUS
  <2>2. /\ b \in Seq(S) /\ Len(b) = Len(s) - i
        /\ \A j \in 1 .. Len(s) - i : b[j] = s[i + j]
    OBVIOUS
  <2> HIDE DEF a, b
  <2>3. /\ a \o b \in Seq(S) /\ Len(a \o b) = Len(a) + Len(b)
        /\ \A j \in 1 .. Len(a) + Len(b) : (a \o b)[j] = IF j <= Len(a) THEN a[j] ELSE b[j - Len(a)]
    BY <2>1, <2>2, ConcatProperties
  <2>4. Len(a) + Len(b) = Len(s) - 1
    BY <1>1, <2>1, <2>2
  <2>5. ASSUME NEW j \in 1 .. Len(s) - 1 PROVE (a \o b)[j] = Cut(s, i)[j]
    <3>1. (a \o b)[j] = IF j < i THEN s[j] ELSE s[j + 1]
      BY <1>1, <2>1, <2>2, <2>3, <2>4
    <3> QED BY <3>1 DEF Cut
  <2>6. a \o b = Cut(s, i)
    BY <1>3, <2>3, <2>4, <2>5, SeqEqual
  <2> QED BY <2>6 DEF RemoveAt, a, b
<1> QED BY <1>1, <1>3, <1>4 DEF Cut

\* x put in front of s.
InFront(x, s) == <<x>> \o s

LEMMA FrontIs ==
  ASSUME NEW S, NEW s \in Seq(S), NEW x \in S
  PROVE  /\ InFront(x, s) \in Seq(S) /\ Len(InFront(x, s)) = Len(s) + 1
         /\ InFront(x, s)[1] = x
         /\ \A j \in 1 .. Len(s) : InFront(x, s)[j + 1] = s[j]
<1>1. <<x>> \in Seq(S) /\ Len(<<x>>) = 1 /\ <<x>>[1] = x
  OBVIOUS
<1>2. /\ <<x>> \o s \in Seq(S) /\ Len(<<x>> \o s) = 1 + Len(s)
      /\ \A i \in 1 .. 1 + Len(s) : (<<x>> \o s)[i] = IF i <= 1 THEN <<x>>[i] ELSE s[i - 1]
  BY <1>1, ConcatProperties
<1>3. Len(s) \in Nat
  OBVIOUS
<1> QED BY <1>1, <1>2, <1>3 DEF InFront

LEMMA BackIs ==
  ASSUME NEW S, NEW s \in Seq(S), NEW x \in S
  PROVE  /\ Append(s, x) \in Seq(S) /\ Len(Append(s, x)) = Len(s) + 1
         /\ Append(s, x)[Len(s) + 1] = x
         /\ \A j \in 1 .. Len(s) : Append(s, x)[j] = s[j]
BY AppendProperties

\* No element twice.
Distinct(c) == \A i, j \in 1 .. Len(c) : c[i] = c[j] => i = j

In(c, x) == \E i \in 1 .. Len(c) : c[i] = x

LEMMA DistinctCounts ==
  ASSUME NEW K, NEW c \in Seq(K), Distinct(c)
  PROVE  IsFiniteSet({x \in K : In(c, x)}) /\ Cardinality({x \in K : In(c, x)}) = Len(c)
<1> DEFINE S == {x \in K : In(c, x)}
<1>1. Len(c) \in Nat /\ \A i \in 1 .. Len(c) : c[i] \in K
  OBVIOUS
<1>2. c \in [1 .. Len(c) -> S] /\ \A x \in S : \E i \in 1 .. Len(c) : c[i] = x
  BY <1>1 DEF In
<1>3. c \in Bijection(1 .. Len(c), S)
  BY <1>2 DEF Distinct, Bijection, Injection, Surjection, IsInjective
<1>4. ExistsBijection(1 .. Len(c), S)
  BY <1>3 DEF ExistsBijection
<1> HIDE DEF S
<1>5. IsFiniteSet(S) /\ Cardinality(S) = Len(c)
  BY <1>1, <1>4, FS_NatBijection, FS_CountingElements
<1> QED BY <1>5 DEF S

LEMMA NatMin == ASSUME NEW T \in SUBSET Nat, T # {}
                PROVE  \E m \in T : \A k \in T : m <= k
<1> DEFINE R == OpToRel(<, Nat)
<1>1. IsWellFoundedOn(R, Nat)
  BY NatLessThanWellFounded
<1> HIDE DEF R
<1>2. PICK m \in T : \A k \in T : ~(<<k, m>> \in R)
  BY <1>1, WFMin
<1>3. \A k \in T : ~(k < m)
  BY <1>2 DEF R, OpToRel
<1> QED BY <1>3

LEMMA ByInduction ==
  ASSUME NEW m \in Nat, NEW S, 0 \in S,
         \A i \in 1 .. m : i - 1 \in S => i \in S
  PROVE  \A i \in 0 .. m : i \in S
<1> DEFINE T == {i \in 0 .. m : i \notin S}
<1> SUFFICES ASSUME T # {} PROVE FALSE
  OBVIOUS
<1>1. PICK k \in T : \A i \in T : k <= i
  <2>1. T \in SUBSET Nat
    OBVIOUS
  <2> QED BY <2>1, NatMin
<1>2. k \in 1 .. m /\ k - 1 \in 0 .. m /\ k - 1 \notin T
  BY <1>1
<1> QED BY <1>1, <1>2

\* The functions that start from a and whose i-th value F makes of i and the one before.
Rec(m, S, a, F) ==
  {f \in [0 .. m -> S] : f[0] = a /\ \A i \in 1 .. m : f[i] = F[<<i, f[i - 1]>>]}

LEMMA Recursion ==
  ASSUME NEW m \in Nat, NEW S, NEW a \in S, NEW F \in [(1 .. m) \X S -> S]
  PROVE  Rec(m, S, a, F) # {}
<1> DEFINE Meets(k, f) == /\ f \in [0 .. k -> S] /\ f[0] = a
                          /\ \A i \in 1 .. k : f[i] = F[<<i, f[i - 1]>>]
           T == {k \in 0 .. m : \E f : Meets(k, f)}
<1>1. 0 \in T
  <2>1. Meets(0, [i \in 0 .. 0 |-> a])
    OBVIOUS
  <2>2. 0 \in 0 .. m
    OBVIOUS
  <2> HIDE DEF Meets
  <2>3. \E f : Meets(0, f)
    BY <2>1
  <2> QED BY <2>2, <2>3
<1>2. ASSUME NEW k \in 1 .. m, k - 1 \in T PROVE k \in T
  <2>1. PICK f : Meets(k - 1, f)
    BY <1>2
  <2> DEFINE g == [i \in 0 .. k |-> IF i = k THEN F[<<k, f[k - 1]>>] ELSE f[i]]
  <2>2. f[k - 1] \in S /\ F[<<k, f[k - 1]>>] \in S
    BY <2>1
  <2>3. g \in [0 .. k -> S] /\ g[0] = a
    BY <2>1, <2>2
  <2>4. ASSUME NEW i \in 1 .. k PROVE g[i] = F[<<i, g[i - 1]>>]
    <3>1. i - 1 \in 0 .. k /\ i - 1 # k /\ i \in 0 .. k
      OBVIOUS
    <3>2. g[i - 1] = f[i - 1]
      BY <3>1
    <3>3. CASE i = k
      BY <3>2, <3>3
    <3>4. CASE i # k
      BY <2>1, <3>1, <3>2, <3>4
    <3> QED BY <3>3, <3>4
  <2> HIDE DEF g
  <2>5. Meets(k, g)
    BY <2>3, <2>4
  <2> QED BY <2>5
<1> HIDE DEF T
<1>3. \A k \in 0 .. m : k \in T
  BY <1>1, <1>2, ByInduction
<1>4. m \in T
  BY <1>3
<1> QED BY <1>4 DEF T, Rec

-----------------------------------------------------------------------------
(* The arena *)

LEMMA CountedIs ==
  ASSUME NEW b \in Seq(Nat)
  PROVE  \E f \in [0 .. Len(b) -> Nat] :
           /\ f[0] = 0 /\ \A i \in 1 .. Len(b) : f[i] = f[i - 1] + b[i] + PointerSize
           /\ Counted(b) = f[Len(b)]
<1> DEFINE m == Len(b)
           F == [p \in (1 .. m) \X Nat |-> p[2] + b[p[1]] + PointerSize]
           G(f) == [i \in 0 .. m |-> IF i = 0 THEN 0 ELSE f[i - 1] + b[i] + PointerSize]
           h == CHOOSE f : f = G(f)
<1>1. m \in Nat /\ F \in [(1 .. m) \X Nat -> Nat]
  BY ArenaAssumption
<1>2. PICK f \in [0 .. m -> Nat] : f[0] = 0 /\ \A i \in 1 .. m : f[i] = F[<<i, f[i - 1]>>]
  <2>1. 0 \in Nat
    OBVIOUS
  <2> HIDE DEF F, m
  <2>2. Rec(m, Nat, 0, F) # {}
    BY <1>1, <2>1, Recursion
  <2> QED BY <2>2 DEF Rec
<1>3. ASSUME NEW i \in 1 .. m PROVE f[i] = f[i - 1] + b[i] + PointerSize
  <2>1. <<i, f[i - 1]>> \in (1 .. m) \X Nat
    <3>1. i - 1 \in 0 .. m
      BY <1>1
    <3>2. f[i - 1] \in Nat
      BY <1>2, <3>1
    <3> QED BY <3>2
  <2> QED BY <1>2, <2>1
<1>4. f = G(f)
  BY <1>2, <1>3
<1>5. h = G(h)
  BY <1>4
<1>6. Counted(b) = h[m]
  BY DEF Counted
<1> HIDE DEF h
<1>7. h[0] = 0 /\ \A i \in 1 .. m : h[i] = h[i - 1] + b[i] + PointerSize
  <2>1. \A i \in 0 .. m : h[i] = IF i = 0 THEN 0 ELSE h[i - 1] + b[i] + PointerSize
    BY <1>5
  <2>2. 0 \in 0 .. m /\ \A i \in 1 .. m : i \in 0 .. m /\ i # 0
    BY <1>1
  <2> HIDE DEF m, G
  <2> QED BY <2>1, <2>2
<1>8. \A i \in 0 .. m : i \in {j \in 0 .. m : h[j] \in Nat}
  <2>1. 0 \in {j \in 0 .. m : h[j] \in Nat}
    BY <1>1, <1>7
  <2>2. ASSUME NEW i \in 1 .. m, i - 1 \in {j \in 0 .. m : h[j] \in Nat}
        PROVE  i \in {j \in 0 .. m : h[j] \in Nat}
    BY <1>1, <1>7, <2>2, ArenaAssumption, SMTT(30)
  <2> HIDE DEF m
  <2> QED BY <1>1, <2>1, <2>2, ByInduction
<1>9. h \in [0 .. m -> Nat]
  BY <1>5, <1>8
<1> QED BY <1>6, <1>7, <1>9

LEMMA CountedNext ==
  /\ Counted(<< >>) = 0
  /\ \A b \in Seq(Nat), x \in Nat : Counted(Append(b, x)) = Counted(b) + x + PointerSize
<1>1. Counted(<< >>) = 0
  <2>1. << >> \in Seq(Nat) /\ Len(<< >>) = 0
    OBVIOUS
  <2> QED BY <2>1, CountedIs
<1>2. ASSUME NEW b \in Seq(Nat), NEW x \in Nat
      PROVE  Counted(Append(b, x)) = Counted(b) + x + PointerSize
  <2> DEFINE c == Append(b, x)
             m == Len(b)
  <2>1. /\ c \in Seq(Nat) /\ Len(c) = m + 1 /\ c[m + 1] = x /\ m \in Nat
        /\ \A i \in 1 .. m : c[i] = b[i]
    BY BackIs
  <2>2. PICK f \in [0 .. m -> Nat] :
          /\ f[0] = 0 /\ \A i \in 1 .. m : f[i] = f[i - 1] + b[i] + PointerSize
          /\ Counted(b) = f[m]
    BY CountedIs
  <2> HIDE DEF c
  <2>3. PICK g \in [0 .. m + 1 -> Nat] :
          /\ g[0] = 0 /\ \A i \in 1 .. m + 1 : g[i] = g[i - 1] + c[i] + PointerSize
          /\ Counted(c) = g[m + 1]
    BY <2>1, CountedIs
  <2> DEFINE S == {i \in 0 .. m : f[i] = g[i]}
  <2>4. 0 \in S
    BY <2>1, <2>2, <2>3
  <2>5. ASSUME NEW i \in 1 .. m, i - 1 \in S PROVE i \in S
    BY <2>1, <2>2, <2>3, <2>5
  <2>6. \A i \in 0 .. m : i \in S
    <3> HIDE DEF S
    <3> QED BY <2>1, <2>4, <2>5, ByInduction
  <2>7. f[m] = g[m]
    BY <2>1, <2>6
  <2>8. g[m + 1] = g[m] + c[m + 1] + PointerSize
    BY <2>1, <2>3
  <2> QED BY <2>1, <2>2, <2>3, <2>7, <2>8 DEF c
<1> QED BY <1>1, <1>2

Slice == [block : Nat, at : Nat, bytes : Nat, aligned : BOOLEAN, shifted : BOOLEAN]

Within(r, b) == /\ r.block \in 1 .. Len(b) /\ r.at <= b[r.block]
                /\ r.shifted \/ r.at + r.bytes <= b[r.block]

\* Piece r begins behind q, which was given out before.
Apart(r, q) == q.shifted \/ q.block # r.block \/ q.at + q.bytes <= r.at

Placed(r) == r.aligned => (r.at % Align = 0 <=> (r.shifted => r.bytes % Align = 0))

LEMMA SlicesAre ==
  ASSUME NEW out \in Seq(Slice)
  PROVE  \A i \in 1 .. Len(out) : out[i].block \in Nat /\ out[i].at \in Nat /\ out[i].bytes \in Nat
<1>1. \A r \in Slice : r.block \in Nat /\ r.at \in Nat /\ r.bytes \in Nat
  BY DEF Slice
<1>2. \A i \in 1 .. Len(out) : out[i] \in Slice
  OBVIOUS
<1> QED BY <1>1, <1>2

\* What remains of the current block is behind alloc_ptr, and only of pieces that are shifted.
Remains(ptr, n, b, out) ==
  n > 0 => /\ ptr.block \in 1 .. Len(b) /\ ptr.at + n <= b[ptr.block]
           /\ \A i \in 1 .. Len(out) : \/ out[i].shifted \/ out[i].block # ptr.block
                                       \/ out[i].at + out[i].bytes <= ptr.at

ArenaType == /\ blocks \in Seq(Nat) /\ given \in Seq(Slice)
             /\ alloc_ptr \in [block : Nat, at : Nat] /\ alloc_bytes_remaining \in Nat
             /\ memory_usage = Counted(blocks)

AllApart(out, b) == \A i \in 1 .. Len(out) : /\ Within(out[i], b) /\ Placed(out[i])
                                             /\ \A j \in 1 .. i - 1 : Apart(out[i], out[j])

ArenaInv == /\ ArenaType /\ AllApart(given, blocks)
            /\ Remains(alloc_ptr, alloc_bytes_remaining, blocks, given)

LEMMA ArenaStarts == ArenaInit => ArenaInv
BY CountedNext DEF ArenaInit, ArenaInv, ArenaType, AllApart, Remains

\* One piece more that lies in its block, apart from the others and where it should.
LEMMA OneMore ==
  ASSUME NEW out, NEW more, NEW b, NEW r, Len(out) \in Nat, Len(more) = Len(out) + 1,
         more[Len(out) + 1] = r, \A i \in 1 .. Len(out) : more[i] = out[i],
         \A i \in 1 .. Len(out) : /\ Within(out[i], b) /\ Placed(out[i])
                                  /\ \A j \in 1 .. i - 1 : Apart(out[i], out[j]),
         Within(r, b), Placed(r), \A j \in 1 .. Len(out) : Apart(r, out[j])
  PROVE  AllApart(more, b)
<1> SUFFICES ASSUME NEW i \in 1 .. Len(more)
             PROVE  /\ Within(more[i], b) /\ Placed(more[i])
                    /\ \A j \in 1 .. i - 1 : Apart(more[i], more[j])
  BY DEF AllApart
<1>1. CASE i = Len(out) + 1
  <2>1. \A j \in 1 .. i - 1 : j \in 1 .. Len(out) /\ more[j] = out[j]
    BY <1>1
  <2> QED BY <1>1, <2>1
<1>2. CASE i # Len(out) + 1
  <2>1. i \in 1 .. Len(out)
    BY <1>2
  <2>2. \A j \in 1 .. i - 1 : j \in 1 .. Len(out) /\ more[j] = out[j]
    BY <2>1
  <2> QED BY <2>1, <2>2
<1> QED BY <1>1, <1>2

\* A piece that is given out of the n bytes that are taken from the current block.
LEMMA GivesHere ==
  ASSUME ArenaInv, NEW n \in Nat, n > 0, n <= alloc_bytes_remaining, Bump(n),
         NEW r \in Slice, given' = Append(given, r), Placed(r), r.block = alloc_ptr.block,
         r.at \in alloc_ptr.at .. alloc_ptr.at + n,
         r.shifted \/ r.at + r.bytes <= alloc_ptr.at + n
  PROVE  ArenaInv'
<1> USE DEF ArenaInv, ArenaType
<1>1. /\ blocks' = blocks /\ memory_usage' = memory_usage
      /\ alloc_ptr' = [block |-> alloc_ptr.block, at |-> alloc_ptr.at + n]
      /\ alloc_bytes_remaining' = alloc_bytes_remaining - n
  BY DEF Bump
<1>2. /\ given' \in Seq(Slice) /\ Len(given') = Len(given) + 1 /\ given'[Len(given) + 1] = r
      /\ Len(given) \in Nat /\ \A i \in 1 .. Len(given) : given'[i] = given[i]
  BY BackIs
<1>3. ArenaType'
  BY <1>1, <1>2
<1>4. /\ alloc_ptr.block \in 1 .. Len(blocks)
      /\ alloc_ptr.at + alloc_bytes_remaining <= blocks[alloc_ptr.block]
      /\ alloc_ptr.at \in Nat /\ r.at \in Nat /\ r.bytes \in Nat
      /\ blocks[alloc_ptr.block] \in Nat /\ alloc_bytes_remaining \in Nat
      /\ \A i \in 1 .. Len(given) : \/ given[i].shifted \/ given[i].block # alloc_ptr.block
                                    \/ given[i].at + given[i].bytes <= alloc_ptr.at
  <2>1. r.at \in Nat /\ r.bytes \in Nat
    BY DEF Slice
  <2>2. /\ alloc_bytes_remaining > 0 /\ alloc_bytes_remaining \in Nat /\ alloc_ptr.at \in Nat
        /\ Remains(alloc_ptr, alloc_bytes_remaining, blocks, given) /\ blocks \in Seq(Nat)
    OBVIOUS
  <2> HIDE DEF ArenaInv, ArenaType
  <2>3. /\ alloc_ptr.block \in 1 .. Len(blocks)
        /\ alloc_ptr.at + alloc_bytes_remaining <= blocks[alloc_ptr.block]
        /\ \A i \in 1 .. Len(given) : \/ given[i].shifted \/ given[i].block # alloc_ptr.block
                                      \/ given[i].at + given[i].bytes <= alloc_ptr.at
    BY <2>2 DEF Remains
  <2>4. blocks[alloc_ptr.block] \in Nat
    BY <2>2, <2>3
  <2> QED BY <2>1, <2>2, <2>3, <2>4
<1>5. /\ Within(r, blocks)
      /\ \A j \in 1 .. Len(given) : Apart(r, given[j])
  <2>1. Within(r, blocks)
    <3> HIDE DEF ArenaInv, ArenaType
    <3>1. alloc_ptr.at + n <= blocks[alloc_ptr.block]
      BY <1>4
    <3>2. r.at <= alloc_ptr.at + n /\ r.at + r.bytes \in Nat
      BY <1>4
    <3>3. /\ r.at \in Int /\ alloc_ptr.at + n \in Int /\ blocks[r.block] \in Int
          /\ r.block = alloc_ptr.block
      BY <1>4
    <3>4. r.at <= blocks[r.block] /\ (r.shifted \/ r.at + r.bytes <= blocks[r.block])
      BY <3>1, <3>2, <3>3
    <3> QED BY <1>4, <3>4 DEF Within
  <2>2. ASSUME NEW j \in 1 .. Len(given) PROVE Apart(r, given[j])
    <3>1. given[j].at \in Nat /\ given[j].bytes \in Nat
      BY SlicesAre
    <3> HIDE DEF ArenaInv, ArenaType
    <3>2. \/ given[j].shifted \/ given[j].block # alloc_ptr.block
          \/ given[j].at + given[j].bytes <= alloc_ptr.at
      BY <1>4, Zenon
    <3>3. alloc_ptr.at <= r.at /\ alloc_ptr.at \in Nat /\ r.at \in Nat
      BY <1>4
    <3>4. given[j].at + given[j].bytes <= alloc_ptr.at => given[j].at + given[j].bytes <= r.at
      BY <3>1, <3>3
    <3> QED BY <3>2, <3>4, Zenon DEF Apart
  <2> QED BY <2>1, <2>2
<1>6. AllApart(given', blocks')
  <2>1. \A i \in 1 .. Len(given) : /\ Within(given[i], blocks) /\ Placed(given[i])
                                   /\ \A j \in 1 .. i - 1 : Apart(given[i], given[j])
    BY DEF AllApart
  <2> QED BY <1>1, <1>2, <1>5, <2>1, OneMore
<1>7. Remains(alloc_ptr', alloc_bytes_remaining', blocks', given')
  <2>1. ASSUME NEW i \in 1 .. Len(given')
        PROVE  \/ given'[i].shifted \/ given'[i].block # alloc_ptr.block
               \/ given'[i].at + given'[i].bytes <= alloc_ptr.at + n
    <3>1. CASE i = Len(given) + 1
      BY <1>2, <3>1
    <3>2. CASE i # Len(given) + 1
      <4>1. i \in 1 .. Len(given) /\ given'[i] = given[i]
        BY <1>2, <3>2
      <4>2. given[i].at \in Nat /\ given[i].bytes \in Nat
        BY <4>1, SlicesAre
      <4> HIDE DEF ArenaInv, ArenaType
      <4>3. \/ given[i].shifted \/ given[i].block # alloc_ptr.block
            \/ given[i].at + given[i].bytes <= alloc_ptr.at + n
        <5>1. \/ given[i].shifted \/ given[i].block # alloc_ptr.block
              \/ given[i].at + given[i].bytes <= alloc_ptr.at
          BY <1>4, <4>1, Zenon
        <5>2. alloc_ptr.at \in Nat
          BY <1>4
        <5>3. given[i].at + given[i].bytes <= alloc_ptr.at
                => given[i].at + given[i].bytes <= alloc_ptr.at + n
          BY <4>2, <5>2
        <5> QED BY <5>1, <5>3
      <4> QED BY <4>1, <4>3
    <3> QED BY <3>1, <3>2
  <2>2. alloc_ptr.at + n + (alloc_bytes_remaining - n) <= blocks[alloc_ptr.block]
    BY <1>4
  <2> QED BY <1>1, <1>4, <2>1, <2>2 DEF Remains
<1> QED BY <1>3, <1>6, <1>7

\* A new block, of which the first bytes are given out.
LEMMA FallsBack ==
  ASSUME ArenaInv, NEW bytes \in Nat, bytes > 0, NEW aligned \in BOOLEAN,
         AllocateFallBack(bytes, aligned)
  PROVE  ArenaInv'
<1> DEFINE r == [block |-> Len(blocks) + 1, at |-> 0, bytes |-> bytes,
                 aligned |-> aligned, shifted |-> FALSE]
           s == IF bytes > BlockSize \div 4 THEN bytes ELSE BlockSize
<1> USE DEF ArenaInv, ArenaType
<1>1. /\ given' \in Seq(Slice) /\ Len(given') = Len(given) + 1 /\ given'[Len(given) + 1] = r
      /\ Len(given) \in Nat /\ \A i \in 1 .. Len(given) : given'[i] = given[i]
  <2>1. r \in Slice
    BY DEF Slice
  <2> QED BY <2>1, BackIs DEF AllocateFallBack, Gives
<1>2. s \in Nat /\ bytes <= s
  BY ArenaAssumption
<1>3. blocks' = Append(blocks, s) /\ memory_usage' = memory_usage + s + PointerSize
  BY DEF AllocateFallBack, AllocateNewBlock
<1> HIDE DEF s
<1>4. /\ blocks' \in Seq(Nat) /\ Len(blocks') = Len(blocks) + 1 /\ blocks'[Len(blocks) + 1] = s
      /\ Len(blocks) \in Nat /\ \A i \in 1 .. Len(blocks) : blocks'[i] = blocks[i]
  BY <1>2, <1>3, BackIs
<1>5. memory_usage' = Counted(blocks')
  BY <1>2, <1>3, CountedNext
<1>6. \A j \in 1 .. Len(given) : given[j].block # Len(blocks) + 1 /\ Within(given[j], blocks')
  <2> TAKE j \in 1 .. Len(given)
  <2>1. Within(given[j], blocks)
    BY DEF AllApart
  <2>2. /\ given[j].block \in 1 .. Len(blocks) /\ given[j].at <= blocks[given[j].block]
        /\ given[j].shifted \/ given[j].at + given[j].bytes <= blocks[given[j].block]
    BY <2>1 DEF Within
  <2>3. blocks'[given[j].block] = blocks[given[j].block]
    BY <1>4, <2>2
  <2>4. given[j].block \in 1 .. Len(blocks') /\ given[j].block # Len(blocks) + 1
    <3>1. Len(blocks') = Len(blocks) + 1 /\ Len(blocks) \in Nat
      BY <1>4
    <3>2. given[j].block \in 1 .. Len(blocks)
      BY <2>2
    <3> HIDE DEF s, r
    <3> QED BY <3>1, <3>2, SMTT(30)
  <2> QED BY <2>2, <2>3, <2>4 DEF Within
<1>7. AllApart(given', blocks')
  <2>1. \A i \in 1 .. Len(given) : /\ Placed(given[i])
                                   /\ \A j \in 1 .. i - 1 : Apart(given[i], given[j])
    BY DEF AllApart
  <2>2. Within(r, blocks')
    BY <1>2, <1>4 DEF Within
  <2>3. 0 % Align = 0
    BY ArenaAssumption
  <2>4. Placed(r)
    BY <2>3 DEF Placed
  <2>5. \A j \in 1 .. Len(given) : Apart(r, given[j])
    BY <1>6 DEF Apart
  <2> HIDE DEF r
  <2> QED BY <1>1, <1>6, <2>1, <2>2, <2>4, <2>5, OneMore
<1>8. CASE bytes > BlockSize \div 4
  <2>1. alloc_ptr' = alloc_ptr /\ alloc_bytes_remaining' = alloc_bytes_remaining
    BY <1>8 DEF AllocateFallBack
  <2>2. alloc_bytes_remaining > 0 => alloc_ptr.block # r.block /\ blocks'[alloc_ptr.block] = blocks[alloc_ptr.block]
    <3>1. alloc_bytes_remaining > 0 => alloc_ptr.block \in 1 .. Len(blocks)
      BY DEF Remains
    <3> HIDE DEF ArenaInv, ArenaType
    <3> QED BY <1>4, <3>1
  <2>3. ASSUME alloc_bytes_remaining > 0, NEW i \in 1 .. Len(given'), given'[i].block = alloc_ptr.block
        PROVE  given'[i].shifted \/ given'[i].at + given'[i].bytes <= alloc_ptr.at
    <3>1. i \in 1 .. Len(given)
      BY <1>1, <2>2, <2>3
    <3> QED BY <1>1, <2>3, <3>1 DEF Remains
  <2>4. alloc_bytes_remaining > 0 =>
          /\ alloc_ptr.block \in 1 .. Len(blocks')
          /\ alloc_ptr.at + alloc_bytes_remaining <= blocks'[alloc_ptr.block]
    BY <1>4, <2>2 DEF Remains
  <2>5. Remains(alloc_ptr', alloc_bytes_remaining', blocks', given')
    <3> HIDE DEF ArenaInv, ArenaType, r
    <3> QED BY <2>1, <2>3, <2>4 DEF Remains
  <2> QED BY <1>1, <1>4, <1>5, <1>7, <2>1, <2>5
<1>9. CASE ~(bytes > BlockSize \div 4)
  <2>1. /\ alloc_ptr' = [block |-> Len(blocks) + 1, at |-> bytes] /\ s = BlockSize
        /\ alloc_bytes_remaining' = BlockSize - bytes
    BY <1>9 DEF AllocateFallBack, s
  <2>4. ASSUME NEW i \in 1 .. Len(given'), given'[i].block = Len(blocks) + 1
        PROVE  given'[i].at + given'[i].bytes <= bytes
    <3>1. i = Len(given) + 1
      <4>1. i \in 1 .. Len(given) \/ i = Len(given) + 1
        BY <1>1
      <4> QED BY <1>1, <1>6, <2>4, <4>1
    <3> QED BY <1>1, <3>1
  <2>2. Remains(alloc_ptr', alloc_bytes_remaining', blocks', given')
    BY <1>2, <1>4, <2>1, <2>4, ArenaAssumption DEF Remains
  <2>3. alloc_ptr' \in [block : Nat, at : Nat] /\ alloc_bytes_remaining' \in Nat
    BY <1>2, <2>1, ArenaAssumption
  <2> QED BY <1>1, <1>4, <1>5, <1>7, <2>2, <2>3
<1> QED BY <1>8, <1>9

LEMMA SameRemainder ==
  ASSUME NEW d \in Nat \ {0}, NEW y \in Int, NEW z \in Int, NEW k \in Int, y = z + d * k
  PROVE  y % d = z % d
<1> DEFINE r == y % d
           s == z % d
           p == y \div d
           q == z \div d
<1>1. /\ r \in 0 .. d - 1 /\ s \in 0 .. d - 1 /\ p \in Int /\ q \in Int
      /\ y = d * p + r /\ z = d * q + s
  OBVIOUS
<1> HIDE DEF r, s, p, q
<1>2. d * (p - q - k) = s - r
  BY <1>1, SMTT(30)
<1>3. ASSUME NEW m \in Int, -d < d * m, d * m < d PROVE m = 0
  <2>1. CASE m >= 1 BY <1>3, <2>1, SMTT(30)
  <2>2. CASE m <= -1 BY <1>3, <2>2, SMTT(30)
  <2> QED BY <2>1, <2>2
<1>4. p - q - k = 0
  BY <1>1, <1>2, <1>3
<1>5. r = s
  BY <1>1, <1>2, <1>4
<1> QED BY <1>5 DEF r, s

\* The place behind the bytes, once these begin at a multiple of d, is one if they are.
LEMMA BehindAligned ==
  \A d \in Nat \ {0}, x, n \in Nat : (x + (n + ((-x) % d))) % d = 0 <=> n % d = 0
<1> SUFFICES ASSUME NEW d \in Nat \ {0}, NEW x \in Nat, NEW n \in Nat, NEW p, p = (-x) % d
             PROVE  (x + (n + p)) % d = 0 <=> n % d = 0
  OBVIOUS
<1>0. p \in Nat
  OBVIOUS
<1>1. PICK q \in Int : -x = (d * q) + p
  <2>1. -x = (d * ((-x) \div d)) + p /\ (-x) \div d \in Int
    OBVIOUS
  <2> QED BY <2>1
<1>2. d * q \in Int /\ n = (x + (n + p)) + d * q
  BY <1>0, <1>1
<1>3. n % d = (x + (n + p)) % d
  <2>1. n \in Int /\ x + (n + p) \in Int
    BY <1>0
  <2> QED BY <1>2, <2>1, SameRemainder
<1> QED BY <1>3

LEMMA ArenaKept == ArenaInv /\ [ArenaNext]_arenaVars => ArenaInv'
<1> SUFFICES ASSUME ArenaInv, [ArenaNext]_arenaVars PROVE ArenaInv'
  OBVIOUS
<1>1. CASE UNCHANGED arenaVars
  BY <1>1 DEF arenaVars, ArenaInv, ArenaType
<1>2. alloc_ptr.at \in Nat /\ alloc_ptr.block \in Nat /\ Align \in Nat \ {0}
  BY ArenaAssumption DEF ArenaInv, ArenaType
<1>3. ASSUME NEW bytes \in Requests, Allocate(bytes) PROVE ArenaInv'
  <2> DEFINE r == [block |-> alloc_ptr.block, at |-> alloc_ptr.at, bytes |-> bytes,
                   aligned |-> FALSE, shifted |-> FALSE]
  <2>1. bytes \in Nat /\ bytes > 0
    BY ArenaAssumption
  <2>2. CASE bytes <= alloc_bytes_remaining /\ given' = Append(given, r) /\ Bump(bytes)
    <3>1. r \in Slice /\ Placed(r) /\ r.block = alloc_ptr.block
      BY <1>2, <2>1 DEF Slice, Placed
    <3>2. r.at \in alloc_ptr.at .. alloc_ptr.at + bytes /\ r.at + r.bytes <= alloc_ptr.at + bytes
      BY <1>2, <2>1
    <3> HIDE DEF r
    <3> QED BY <2>1, <2>2, <3>1, <3>2, GivesHere
  <2> QED BY <1>3, <2>1, <2>2, FallsBack DEF Allocate, Gives
<1>4. ASSUME NEW bytes \in Requests, AllocateAligned(bytes) PROVE ArenaInv'
  <2> DEFINE p == (-alloc_ptr.at) % Align
             n == bytes + p
             r == [block |-> alloc_ptr.block, at |-> alloc_ptr.at + n, bytes |-> bytes,
                   aligned |-> TRUE, shifted |-> TRUE]
  <2>1. bytes \in Nat /\ bytes > 0
    BY ArenaAssumption
  <2>2. p \in Nat
    BY <1>2
  <2>3. n \in Nat /\ n > 0
    <3> HIDE DEF p
    <3> QED BY <2>1, <2>2
  <2>4. CASE n <= alloc_bytes_remaining /\ given' = Append(given, r) /\ Bump(n)
    <3>1. (alloc_ptr.at + n) % Align = 0 <=> bytes % Align = 0
      BY <1>2, <2>1, BehindAligned, Zenon
    <3> HIDE DEF n
    <3>2. r \in Slice /\ Placed(r) /\ r.block = alloc_ptr.block /\ r.shifted
      BY <1>2, <2>1, <2>3, <3>1 DEF Slice, Placed
    <3>3. r.at \in alloc_ptr.at .. alloc_ptr.at + n
      BY <1>2, <2>3
    <3> HIDE DEF r
    <3> QED BY <2>3, <2>4, <3>2, <3>3, GivesHere
  <2>5. \/ n <= alloc_bytes_remaining /\ given' = Append(given, r) /\ Bump(n)
        \/ AllocateFallBack(bytes, TRUE)
    BY <1>4 DEF AllocateAligned, Gives
  <2> QED BY <2>1, <2>4, <2>5, FallsBack
<1> QED BY <1>1, <1>3, <1>4 DEF ArenaNext

\* Every piece lies in its block behind those before it, whatever is asked for and mixed.
LEMMA ArenaKeepsApart == ArenaInv => ArenaApart
BY DEF ArenaInv, ArenaType, AllApart, Within, Apart, Placed, ArenaApart
-----------------------------------------------------------------------------
(* The string *)

\* A text and the terminator in an array of n and one more.
Lies(data, n, t) == /\ DOMAIN data = 0 .. n /\ Len(t) <= n
                    /\ \A i \in 1 .. Len(t) : data[i - 1] = t[i]
                    /\ data[Len(t)] = Nul

\* The string s holds the text t, or was moved from.
Carries(s, t) == /\ s = [data |-> s.data, size |-> s.size, capacity |-> s.capacity]
                 /\ t \in Seq(Letters) /\ s.size = Len(t) /\ s.capacity \in Nat
                 /\ \/ s.data = << >> /\ t = << >>
                    \/ Lies(s.data, s.capacity, t)

StringInv == /\ str = [s \in Strings |-> str[s]] /\ meant = [s \in Strings |-> meant[s]]
             /\ \A s \in Strings : Carries(str[s], meant[s])

LEMMA NoArray == ASSUME NEW d, NEW n \in Nat, NEW t, Lies(d, n, t) PROVE d # << >>
<1>1. DOMAIN << >> = {} /\ 0 \in 0 .. n
  OBVIOUS
<1> QED BY <1>1 DEF Lies

LEMMA MaxOf == ASSUME NEW n \in Nat, NEW m \in Nat
               PROVE  Max({n, m}) \in Nat /\ Max({n, m}) >= n
<1>1. \E x \in {n, m} : \A y \in {n, m} : x >= y
  <2>1. CASE n >= m
    BY <2>1
  <2>2. CASE m >= n
    BY <2>2
  <2> QED BY <2>1, <2>2
<1> QED BY <1>1 DEF Max

LEMMA Fills ==
  ASSUME NEW t \in Seq(Letters), NEW c \in Nat, Len(t) <= c
  PROVE  Lies(Copied(NewArray(c), 0, t), c, t)
<1> DEFINE d == Copied(NewArray(c), 0, t)
<1>1. Len(t) \in Nat
  OBVIOUS
<1>2. DOMAIN d = 0 .. c
  BY DEF Copied, NewArray
<1>3. ASSUME NEW i \in 0 .. c
      PROVE  d[i] = IF i \in 0 .. 0 + Len(t) - 1 THEN t[i - 0 + 1] ELSE IF i = 0 + Len(t) THEN Nul ELSE Junk
  BY DEF Copied, NewArray
<1> HIDE DEF d
<1>4. ASSUME NEW i \in 1 .. Len(t) PROVE d[i - 1] = t[i]
  <2>1. i - 1 \in 0 .. c /\ i - 1 \in 0 .. 0 + Len(t) - 1 /\ i - 1 - 0 + 1 = i
    BY <1>1
  <2> QED BY <1>3, <2>1
<1>5. d[Len(t)] = Nul
  BY <1>1, <1>3
<1> QED BY <1>2, <1>4, <1>5 DEF Lies, d

LEMMA ContentIs == ASSUME NEW s, NEW t, Carries(s, t) PROVE Content(s) = t
<1>1. t \in Seq(Letters) /\ s.size = Len(t) /\ Len(t) \in Nat
  BY DEF Carries
<1>2. Content(s) = [i \in 1 .. Len(t) |-> s.data[i - 1]]
  BY <1>1 DEF Content
<1>3. \A i \in 1 .. Len(t) : s.data[i - 1] = t[i]
  <2>1. CASE s.data = << >> /\ t = << >>
    BY <2>1
  <2>2. CASE Lies(s.data, s.capacity, t)
    BY <2>2 DEF Lies
  <2> QED BY <2>1, <2>2 DEF Carries
<1>4. t = [i \in 1 .. Len(t) |-> t[i]]
  BY <1>1
<1> QED BY <1>2, <1>3, <1>4

LEMMA Constructs == ASSUME NEW t \in Seq(Letters) PROVE Carries(Constructed(t), t)
<1>1. Len(t) \in Nat
  OBVIOUS
<1> DEFINE c == Max({Len(t), MinCapacity})
<1>2. c \in Nat /\ c >= Len(t)
  BY <1>1, MaxOf, StringAssumption
<1>3. Constructed(t) = [data |-> Copied(NewArray(c), 0, t), size |-> Len(t), capacity |-> c]
  BY DEF Constructed
<1> HIDE DEF c
<1>4. Lies(Copied(NewArray(c), 0, t), c, t)
  BY <1>2, Fills
<1> QED BY <1>1, <1>2, <1>3, <1>4 DEF Carries

LEMMA Reallocates ==
  ASSUME NEW s, NEW t, Carries(s, t), NEW n \in Nat, n >= Len(t)
  PROVE  /\ Carries(Reallocated(s, n), t) /\ Reallocated(s, n).capacity >= n
         /\ Lies(Reallocated(s, n).data, Reallocated(s, n).capacity, t)
<1>1. t \in Seq(Letters) /\ Len(t) \in Nat /\ s.size = Len(t)
      /\ s = [data |-> s.data, size |-> s.size, capacity |-> s.capacity]
  BY DEF Carries
<1> DEFINE c == Max({n, MinCapacity})
           d == Copied(NewArray(c), 0, t)
<1>2. c \in Nat /\ c >= n
  BY MaxOf, StringAssumption
<1>3. Reallocated(s, n) = [s EXCEPT !.data = d, !.capacity = c]
  BY ContentIs DEF Reallocated
<1> HIDE DEF c
<1>4. Lies(d, c, t)
  BY <1>1, <1>2, Fills
<1> HIDE DEF d
<1>5. Reallocated(s, n) = [data |-> d, size |-> s.size, capacity |-> c]
  BY <1>1, <1>3
<1> QED BY <1>1, <1>2, <1>4, <1>5 DEF Carries

LEMMA Reserves ==
  ASSUME NEW s, NEW t, Carries(s, t), NEW n \in Nat
  PROVE  /\ Carries(Reserved(s, n), t) /\ Reserved(s, n).capacity >= n
         /\ \/ s.data = << >> /\ n <= s.capacity
            \/ Lies(Reserved(s, n).data, Reserved(s, n).capacity, t)
<1>1. s.capacity \in Nat /\ Len(t) \in Nat
  BY DEF Carries
<1>2. CASE n > s.capacity
  <2>1. n >= Len(t)
    BY <1>1, <1>2 DEF Carries, Lies
  <2> QED BY <1>2, <2>1, Reallocates DEF Reserved
<1>3. CASE ~(n > s.capacity)
  BY <1>1, <1>3 DEF Reserved, Carries
<1> QED BY <1>2, <1>3

LEMMA Appends ==
  ASSUME NEW s, NEW t, Carries(s, t), NEW u \in Seq(Letters),
         s.data = << >> => Len(u) > s.capacity
  PROVE  Carries(Appended(s, u), t \o u)
<1> DEFINE n == Len(u) + s.size
           r == IF n > s.capacity THEN Reserved(s, n * 2) ELSE s
           d == Copied(r.data, s.size, u)
           w == t \o u
<1>1. /\ t \in Seq(Letters) /\ Len(t) \in Nat /\ Len(u) \in Nat /\ s.size = Len(t)
      /\ s.capacity \in Nat /\ n \in Nat /\ n * 2 \in Nat
  BY DEF Carries
<1>2. Carries(r, t) /\ Lies(r.data, r.capacity, t) /\ r.capacity >= n
  <2>1. CASE n > s.capacity
    <3>1. n * 2 > s.capacity /\ n * 2 >= n
      BY <1>1, <2>1
    <3> HIDE DEF n
    <3> QED BY <1>1, <2>1, <3>1, Reserves DEF Carries
  <2>2. CASE ~(n > s.capacity)
    <3>1. s.data # << >>
      BY <1>1, <2>2
    <3> QED BY <1>1, <2>2, <3>1 DEF Carries
  <2> QED BY <2>1, <2>2
<1>3. Appended(s, u) = [r EXCEPT !.data = d, !.size = n]
  <2>1. s.size + Len(u) = n
    BY <1>1
  <2> QED BY <2>1 DEF Appended
<1>4. /\ w \in Seq(Letters) /\ Len(w) = n
      /\ \A i \in 1 .. n : w[i] = IF i <= Len(t) THEN t[i] ELSE u[i - Len(t)]
  BY <1>1, ConcatProperties
<1>5. /\ r = [data |-> r.data, size |-> r.size, capacity |-> r.capacity]
      /\ r.capacity \in Nat /\ DOMAIN r.data = 0 .. r.capacity
      /\ \A i \in 1 .. Len(t) : r.data[i - 1] = t[i]
  BY <1>2 DEF Carries, Lies
<1> HIDE DEF r
<1>6. Appended(s, u) = [data |-> d, size |-> n, capacity |-> r.capacity]
  BY <1>3, <1>5
<1>7. DOMAIN d = 0 .. r.capacity
  BY <1>5 DEF Copied
<1>8. ASSUME NEW i \in 0 .. r.capacity
      PROVE  d[i] = IF i \in Len(t) .. Len(t) + Len(u) - 1 THEN u[i - Len(t) + 1]
                    ELSE IF i = Len(t) + Len(u) THEN Nul ELSE r.data[i]
  BY <1>1, <1>5 DEF Copied
<1> HIDE DEF d, w
<1>9. ASSUME NEW i \in 1 .. n PROVE d[i - 1] = w[i]
  <2>1. i - 1 \in 0 .. r.capacity
    BY <1>1, <1>2, <1>5
  <2>2. CASE i <= Len(t)
    BY <1>1, <1>4, <1>5, <1>8, <2>1, <2>2, SMTT(30)
  <2>3. CASE ~(i <= Len(t))
    <3>1. i - 1 \in Len(t) .. Len(t) + Len(u) - 1 /\ i - 1 - Len(t) + 1 = i - Len(t)
      BY <1>1, <2>3
    <3> QED BY <1>1, <1>4, <1>8, <2>1, <2>3, <3>1
  <2> QED BY <2>2, <2>3
<1>10. d[n] = Nul
  BY <1>1, <1>2, <1>5, <1>8
<1>11. Lies(d, r.capacity, w)
  BY <1>1, <1>2, <1>4, <1>7, <1>9, <1>10 DEF Lies
<1> HIDE DEF n
<1> QED BY <1>1, <1>4, <1>5, <1>6, <1>11 DEF Carries, w

LEMMA TextsAre == \A t \in Texts : t \in Seq(Letters)
<1>1. ASSUME NEW n \in 0 .. 2, NEW t \in [1 .. n -> Letters] PROVE t \in Seq(Letters)
  OBVIOUS
<1> QED BY <1>1 DEF Texts

LEMMA EmptyText == << >> \in Seq(Letters) /\ Len(<< >>) = 0
OBVIOUS

LEMMA StringStarts == StringInit => StringInv
<1>1. Carries(Constructed(<< >>), << >>)
  BY EmptyText, Constructs
<1> QED BY <1>1 DEF StringInit, StringInv

\* A step that changes string s alone.
LEMMA StringSets ==
  ASSUME StringInv, NEW s \in Strings, NEW r, NEW t, Carries(r, t),
         str' = [str EXCEPT ![s] = r],
         meant' = [meant EXCEPT ![s] = t]
  PROVE  StringInv'
BY DEF StringInv

LEMMA MeantStays ==
  ASSUME StringInv, UNCHANGED meant, NEW s \in Strings
  PROVE  meant' = [meant EXCEPT ![s] = meant[s]]
BY DEF StringInv

LEMMA StringKept == StringInv /\ [StringNext]_stringVars => StringInv'
<1> SUFFICES ASSUME StringInv, [StringNext]_stringVars PROVE StringInv'
  OBVIOUS
<1>1. CASE UNCHANGED stringVars
  BY <1>1 DEF stringVars, StringInv
<1>2. ASSUME NEW s \in Strings, NEW text \in Texts, StringNew(s, text) PROVE StringInv'
  BY <1>2, TextsAre, Constructs, StringSets DEF StringNew
<1>3. ASSUME NEW s \in Strings, NEW text \in Texts, StringAppend(s, text) PROVE StringInv'
  <2>1. Carries(str[s], meant[s]) /\ text \in Seq(Letters)
    BY TextsAre DEF StringInv
  <2>2. str[s].data = << >> => Len(text) > str[s].capacity
    BY <1>3 DEF StringAppend, Moved
  <2>3. Carries(Appended(str[s], text), meant[s] \o text)
    BY <2>1, <2>2, Appends
  <2>4. /\ str' = [str EXCEPT ![s] = Appended(str[s], text)]
        /\ meant' = [meant EXCEPT ![s] = meant[s] \o text]
    BY <1>3 DEF StringAppend
  <2> QED BY <2>3, <2>4, StringSets
<1>4. ASSUME NEW s \in Strings, NEW n \in 0 .. MaxSize, StringReserve(s, n) PROVE StringInv'
  <2>1. n \in Nat /\ Carries(str[s], meant[s])
    BY StringAssumption DEF StringInv
  <2>2. Carries(Reserved(str[s], n), meant[s])
    BY <2>1, Reserves
  <2> QED BY <1>4, <2>2, StringSets, MeantStays DEF StringReserve
<1>5. ASSUME NEW s \in Strings, StringShrink(s) PROVE StringInv'
  <2>1. Carries(str[s], meant[s])
    BY DEF StringInv
  <2>2. str[s].size \in Nat /\ str[s].size >= Len(meant[s])
    BY <2>1 DEF Carries
  <2>3. Carries(Reallocated(str[s], str[s].size), meant[s])
    BY <2>1, <2>2, Reallocates
  <2> QED BY <1>5, <2>3, StringSets, MeantStays DEF StringShrink
<1>6. ASSUME NEW s \in Strings, NEW other \in Strings, StringCopy(s, other) PROVE StringInv'
  <2> DEFINE o == str[other]
             t == meant[other]
             d == Copied(NewArray(o.capacity), 0, Content(o))
  <2>1. Carries(o, t) /\ o.data # << >>
    BY <1>6 DEF StringInv, StringCopy, Moved
  <2>2. /\ t \in Seq(Letters) /\ Len(t) \in Nat /\ o.size = Len(t) /\ o.capacity \in Nat
        /\ Len(t) <= o.capacity /\ o = [data |-> o.data, size |-> o.size, capacity |-> o.capacity]
    BY <2>1 DEF Carries, Lies
  <2>3. Lies(d, o.capacity, t)
    BY <2>1, <2>2, ContentIs, Fills
  <2>4. /\ str' = [str EXCEPT ![s] = [o EXCEPT !.data = d]]
        /\ meant' = [meant EXCEPT ![s] = t]
    BY <1>6 DEF StringCopy
  <2> HIDE DEF d, o, t
  <2>5. [o EXCEPT !.data = d] = [data |-> d, size |-> o.size, capacity |-> o.capacity]
    BY <2>2
  <2>6. Carries([o EXCEPT !.data = d], t)
    BY <2>2, <2>3, <2>5 DEF Carries
  <2> QED BY <2>4, <2>6, StringSets
<1>7. ASSUME NEW s \in Strings, NEW other \in Strings, NEW left \in {0, str[other].capacity},
             StringMove(s, other, left)
      PROVE  StringInv'
  <2> DEFINE e == [data |-> << >>, size |-> 0, capacity |-> left]
  <2>1. Carries(str[other], meant[other])
    BY DEF StringInv
  <2>2. left \in Nat
    BY <2>1 DEF Carries
  <2>3. Carries(e, << >>)
    BY <2>2, EmptyText DEF Carries
  <2>4. /\ str' = [str EXCEPT ![s] = str[other], ![other] = e]
        /\ meant' = [meant EXCEPT ![s] = meant[other], ![other] = << >>] /\ s # other
    BY <1>7 DEF StringMove
  <2> HIDE DEF e
  <2> QED BY <2>1, <2>3, <2>4 DEF StringInv
<1> QED BY <1>1, <1>2, <1>3, <1>4, <1>5, <1>6, <1>7 DEF StringNext

\* A string holds its text and the terminator, or was moved from.
LEMMA StringKeeps == StringInv => StringsHold
<1> SUFFICES ASSUME StringInv, NEW s \in Strings
             PROVE  /\ str[s].size = Len(meant[s])
                    /\ IF Moved(s) THEN meant[s] = << >>
                       ELSE /\ DOMAIN str[s].data = 0 .. str[s].capacity /\ str[s].size <= str[s].capacity
                            /\ Content(str[s]) = meant[s] /\ str[s].data[str[s].size] = Nul
  BY DEF StringsHold
<1>1. Carries(str[s], meant[s])
  BY DEF StringInv
<1>2. Content(str[s]) = meant[s]
  BY <1>1, ContentIs
<1>3. CASE Moved(s)
  <2>1. ~Lies(str[s].data, str[s].capacity, meant[s])
    BY <1>1, <1>3, NoArray DEF Moved, Carries
  <2> QED BY <1>1, <1>3, <2>1 DEF Carries
<1>4. CASE ~Moved(s)
  BY <1>1, <1>2, <1>4 DEF Moved, Carries, Lies
<1> QED BY <1>3, <1>4
-----------------------------------------------------------------------------
(* The hash table *)

LEMMA Apart2 == ASSUME NEW d \in Nat \ {0}, NEW a \in Int, NEW b \in Int, a < b
                PROVE  d * a + d <= d * b
<1>1. d * (b - a - 1) >= 0
  OBVIOUS
<1>2. d * (b - a - 1) = d * b - d * a - d
  OBVIOUS
<1> QED BY <1>1, <1>2

\* A hash that twice as many buckets share out goes where its old bucket was, or as far
\* beyond as there were.
LEMMA HalfRest == ASSUME NEW h \in Nat, NEW n \in Nat \ {0}
                  PROVE  (h % (2 * n)) % n = h % n
<1> DEFINE m == 2 * n
           j == h % m
           q == h \div m
           t == j \div n
           p == h \div n
<1>1. m \in Nat \ {0}
  OBVIOUS
<1>2. h = m * q + j /\ j \in 0 .. m - 1 /\ q \in Nat
  <2> HIDE DEF m
  <2> QED BY <1>1
<1> HIDE DEF j, q
<1>3. j = n * t + (j % n) /\ t \in Nat /\ j % n \in 0 .. n - 1
  BY <1>2
<1>4. h = n * p + (h % n) /\ p \in Nat /\ h % n \in 0 .. n - 1
  OBVIOUS
<1> HIDE DEF t, p
<1>5. h = n * (2 * q + t) + (j % n)
  <2>1. m * q = n * (2 * q) /\ n * (2 * q + t) = n * (2 * q) + n * t
    BY <1>2, <1>3
  <2> QED BY <1>2, <1>3, <2>1
<1> DEFINE z == 2 * q + t
<1>6. z \in Nat /\ n * z \in Nat /\ n * p \in Nat
  BY <1>2, <1>3, <1>4
<1> HIDE DEF z
<1>7. h = n * z + (j % n)
  BY <1>5 DEF z
<1>8. ~(p < z)
  <2>1. p < z => n * p + n <= n * z
    BY <1>4, <1>6, Apart2
  <2> QED BY <1>3, <1>4, <1>6, <1>7, <2>1, SMTT(30)
<1>9. ~(z < p)
  <2>1. z < p => n * z + n <= n * p
    BY <1>4, <1>6, Apart2
  <2> QED BY <1>3, <1>4, <1>6, <1>7, <2>1
<1>10. z = p
  BY <1>4, <1>6, <1>8, <1>9
<1> QED BY <1>3, <1>4, <1>6, <1>7, <1>10 DEF j

TableNode == [key : TableKeys, value : TableValues]

\* A list has one node for each key of K, with the value m gives it, and no others.
Keeps(list, K, m) ==
  /\ list \in Seq(TableNode)
  /\ \A i, j \in 1 .. Len(list) : list[i].key = list[j].key => i = j
  /\ \A i \in 1 .. Len(list) : list[i].key \in K /\ list[i].value = m[list[i].key]
  /\ \A k \in K : \E i \in 1 .. Len(list) : list[i].key = k

\* The keys m maps that belong in bucket j of n.
Share(m, j, n) == {k \in TableKeys : m[k] # Absent /\ hasher[k] % n = j}

Spread(b, m, n) == /\ n \in Nat \ {0} /\ b = [j \in 0 .. n - 1 |-> b[j]]
                   /\ \A j \in 0 .. n - 1 : Keeps(b[j], Share(m, j, n), m)

Mapped(m) == {k \in TableKeys : m[k] # Absent}

TableInv == /\ hasher \in [TableKeys -> Hashes]
            /\ mapped \in [TableKeys -> TableValues \cup {Absent}]
            /\ \E n : Spread(buckets, mapped, n) /\ 4 * num_elements <= 3 * n
            /\ IsFiniteSet(Mapped(mapped)) /\ num_elements = Cardinality(Mapped(mapped))

LEMMA NodesAre ==
  ASSUME NEW list \in Seq(TableNode)
  PROVE  /\ Len(list) \in Nat
         /\ \A i \in 1 .. Len(list) :
              list[i] \in TableNode /\ list[i].key \in TableKeys /\ list[i].value \in TableValues
<1>1. \A x \in TableNode : x.key \in TableKeys /\ x.value \in TableValues
  BY DEF TableNode
<1> QED BY <1>1

LEMMA Counts == ASSUME NEW b, NEW m, NEW n, Spread(b, m, n) PROVE Count(b) = n
<1>1. n \in Nat \ {0} /\ DOMAIN b = 0 .. n - 1
  BY DEF Spread
<1>2. Cardinality(0 .. n - 1) = n
  <2>1. 0 \in Int /\ n - 1 \in Int /\ ~(0 > n - 1) /\ n - 1 - 0 + 1 = n
    BY <1>1
  <2> QED BY <2>1, FS_Interval
<1> QED BY <1>1, <1>2 DEF Count

\* Where a key is looked for, and that it is found just when it is mapped.
LEMMA Looks ==
  ASSUME NEW b, NEW m, NEW n, Spread(b, m, n), hasher \in [TableKeys -> Hashes], NEW k \in TableKeys
  PROVE  /\ Index(b, k) = hasher[k] % n /\ Index(b, k) \in 0 .. n - 1
         /\ m[k] = Absent => At(b, k) = {}
         /\ m[k] # Absent => \E i \in 1 .. Len(b[Index(b, k)]) :
              /\ At(b, k) = {i} /\ First(b, k) = i
              /\ b[Index(b, k)][i].key = k /\ b[Index(b, k)][i].value = m[k]
<1> DEFINE x == Index(b, k)
<1>1. x = hasher[k] % n
  BY Counts DEF Index
<1>2. x \in 0 .. n - 1
  <2>1. n \in Nat \ {0} /\ hasher[k] \in Nat
    BY TableAssumption DEF Spread
  <2> QED BY <1>1, <2>1
<1>3. Keeps(b[x], Share(m, x, n), m)
  BY <1>2 DEF Spread
<1>4. k \in Share(m, x, n) <=> m[k] # Absent
  BY <1>1 DEF Share
<1>5. At(b, k) = {i \in 1 .. Len(b[x]) : b[x][i].key = k}
  BY DEF At
<1> HIDE DEF x
<1>6. CASE m[k] = Absent
  <2>1. At(b, k) = {}
    BY <1>3, <1>4, <1>5, <1>6 DEF Keeps
  <2> QED BY <1>1, <1>2, <1>6, <2>1 DEF x
<1>7. CASE m[k] # Absent
  <2>1. PICK i \in 1 .. Len(b[x]) : b[x][i].key = k
    BY <1>3, <1>4, <1>7 DEF Keeps
  <2>2. At(b, k) = {i} /\ b[x][i].value = m[k]
    BY <1>3, <1>5, <2>1 DEF Keeps
  <2>3. First(b, k) = i
    BY <2>2 DEF First
  <2> QED BY <1>1, <1>2, <1>7, <2>1, <2>2, <2>3 DEF x
<1> QED BY <1>6, <1>7

LEMMA KeepsOther ==
  ASSUME NEW list, NEW K, NEW m, Keeps(list, K, m), NEW k, k \notin K, NEW v
  PROVE  Keeps(list, K, [m EXCEPT ![k] = v])
<1>1. \A i \in 1 .. Len(list) : list[i].key # k
  BY DEF Keeps
<1> QED BY <1>1 DEF Keeps

LEMMA KeepsSet ==
  ASSUME NEW list, NEW K, NEW m, DOMAIN m = TableKeys, Keeps(list, K, m),
         NEW i \in 1 .. Len(list), NEW v \in TableValues
  PROVE  Keeps([list EXCEPT ![i].value = v], K, [m EXCEPT ![list[i].key] = v])
<1> DEFINE x == [key |-> list[i].key, value |-> v]
           c == [list EXCEPT ![i] = x]
           w == [m EXCEPT ![list[i].key] = v]
<1>1. list \in Seq(TableNode) /\ list[i] \in TableNode /\ list[i].key \in TableKeys
  BY NodesAre DEF Keeps
<1>2. [list EXCEPT ![i].value = v] = c
  <2>1. list[i] = [key |-> list[i].key, value |-> list[i].value]
    BY <1>1 DEF TableNode
  <2>2. [list[i] EXCEPT !.value = v] = x
    BY <2>1
  <2> QED BY <2>2
<1>3. x \in TableNode
  BY <1>1 DEF TableNode
<1>4. /\ c \in Seq(TableNode) /\ Len(c) = Len(list) /\ c[i] = x
      /\ \A h \in 1 .. Len(list) : h # i => c[h] = list[h]
  <2> HIDE DEF x
  <2> QED BY <1>1, <1>3
<1>5. \A h \in 1 .. Len(list) : c[h].key = list[h].key
  <2> HIDE DEF c
  <2> QED BY <1>4
<1>6. w[list[i].key] = v /\ \A k \in TableKeys : k # list[i].key => w[k] = m[k]
  BY <1>1
<1>7. ASSUME NEW h \in 1 .. Len(list) PROVE c[h].value = w[c[h].key]
  <2> HIDE DEF c, w
  <2>1. CASE h = i
    BY <1>4, <1>5, <1>6, <2>1
  <2>2. CASE h # i
    <3>1. list[h].key # list[i].key /\ list[h].key \in TableKeys
      BY <1>1, <2>2, NodesAre DEF Keeps
    <3> QED BY <1>4, <1>6, <2>2, <3>1 DEF Keeps
  <2> QED BY <2>1, <2>2
<1> HIDE DEF c, w
<1>8. Keeps(c, K, w)
  BY <1>4, <1>5, <1>7, SMTT(30) DEF Keeps
<1> QED BY <1>2, <1>8 DEF w

\* A new node in front.
LEMMA KeepsFront ==
  ASSUME NEW list, NEW K, NEW m, Keeps(list, K, m), NEW x \in TableNode, x.key \notin K,
         m[x.key] = x.value
  PROVE  Keeps(<<x>> \o list, K \cup {x.key}, m)
<1> DEFINE c == InFront(x, list)
<1>1. list \in Seq(TableNode)
  BY DEF Keeps
<1>2. /\ c \in Seq(TableNode) /\ Len(c) = Len(list) + 1 /\ c[1] = x /\ Len(list) \in Nat
      /\ \A j \in 1 .. Len(list) : c[j + 1] = list[j]
  <2>1. Len(list) \in Nat
    BY <1>1
  <2> HIDE DEF c
  <2>2. /\ c \in Seq(TableNode) /\ Len(c) = Len(list) + 1 /\ c[1] = x
        /\ \A j \in 1 .. Len(list) : c[j + 1] = list[j]
    BY <1>1, FrontIs DEF c
  <2> QED BY <2>1, <2>2
<1> HIDE DEF c
<1>3. ASSUME NEW i \in 1 .. Len(c)
      PROVE  \/ i = 1 /\ c[i] = x
             \/ i - 1 \in 1 .. Len(list) /\ c[i] = list[i - 1]
  <2>1. i = 1 \/ (i - 1 \in 1 .. Len(list) /\ i - 1 + 1 = i)
    BY <1>2
  <2> QED BY <1>2, <2>1
<1>4. ASSUME NEW i \in 1 .. Len(c), NEW j \in 1 .. Len(c), c[i].key = c[j].key PROVE i = j
  <2>1. \A h \in 1 .. Len(list) : list[h].key # x.key
    BY DEF Keeps
  <2>2. CASE i = 1 \/ j = 1
    BY <1>2, <1>3, <1>4, <2>1, <2>2
  <2>3. CASE i # 1 /\ j # 1
    <3>1. i - 1 = j - 1
      BY <1>3, <1>4, <2>3, SMTT(30) DEF Keeps
    <3> QED BY <1>2, <3>1
  <2> QED BY <2>2, <2>3
<1>5. ASSUME NEW i \in 1 .. Len(c)
      PROVE  c[i].key \in K \cup {x.key} /\ c[i].value = m[c[i].key]
  <2>1. \A e \in 1 .. Len(list) : list[e].key \in K /\ list[e].value = m[list[e].key]
    BY DEF Keeps
  <2>2. CASE i = 1 /\ c[i] = x
    BY <2>2
  <2>3. CASE i - 1 \in 1 .. Len(list) /\ c[i] = list[i - 1]
    <3>1. list[i - 1].key \in K /\ list[i - 1].value = m[list[i - 1].key]
      BY <2>1, <2>3
    <3> QED BY <2>3, <3>1
  <2> QED BY <1>3, <2>2, <2>3
<1>6. ASSUME NEW k \in K \cup {x.key} PROVE \E i \in 1 .. Len(c) : c[i].key = k
  <2>1. CASE k = x.key
    BY <1>2, <2>1
  <2>2. CASE k \in K
    <3>1. PICK j \in 1 .. Len(list) : list[j].key = k
      BY <2>2 DEF Keeps
    <3>2. j + 1 \in 1 .. Len(c) /\ c[j + 1].key = k
      BY <1>2, <3>1
    <3> QED BY <3>2
  <2> QED BY <2>1, <2>2
<1>7. Keeps(c, K \cup {x.key}, m)
  BY <1>2, <1>4, <1>5, <1>6 DEF Keeps
<1> QED BY <1>7 DEF c, InFront

LEMMA KeepsCut ==
  ASSUME NEW list, NEW K, NEW m, Keeps(list, K, m), NEW i \in 1 .. Len(list)
  PROVE  Keeps(RemoveAt(list, i), K \ {list[i].key}, m)
<1> DEFINE c == RemoveAt(list, i)
           n == Len(list)
<1>1. list \in Seq(TableNode) /\ n \in Nat
  BY DEF Keeps
<1>2. /\ c \in Seq(TableNode) /\ Len(c) = n - 1
      /\ \A j \in 1 .. n - 1 : c[j] = IF j < i THEN list[j] ELSE list[j + 1]
  BY <1>1, RemoveAtIs
<1> HIDE DEF c
<1>3. ASSUME NEW j \in 1 .. Len(c)
      PROVE  \E h \in 1 .. n : h # i /\ h = (IF j < i THEN j ELSE j + 1) /\ c[j] = list[h]
  BY <1>1, <1>2
<1>4. ASSUME NEW j \in 1 .. Len(c), NEW h \in 1 .. Len(c), c[j].key = c[h].key PROVE j = h
  <2>1. PICK e \in 1 .. n : e # i /\ e = (IF j < i THEN j ELSE j + 1) /\ c[j] = list[e]
    BY <1>3
  <2>2. PICK f \in 1 .. n : f # i /\ f = (IF h < i THEN h ELSE h + 1) /\ c[h] = list[f]
    BY <1>3
  <2>3. e = f
    BY <1>4, <2>1, <2>2 DEF Keeps
  <2> QED BY <1>1, <1>2, <2>1, <2>2, <2>3
<1>5. ASSUME NEW j \in 1 .. Len(c)
      PROVE  c[j].key \in K \ {list[i].key} /\ c[j].value = m[c[j].key]
  <2>1. PICK e \in 1 .. n : e # i /\ c[j] = list[e]
    BY <1>3
  <2> QED BY <2>1 DEF Keeps
<1>6. ASSUME NEW k \in K \ {list[i].key} PROVE \E j \in 1 .. Len(c) : c[j].key = k
  <2>1. PICK e \in 1 .. n : list[e].key = k
    BY DEF Keeps
  <2>2. e # i
    BY <2>1
  <2>3. CASE e < i
    <3>1. e \in 1 .. Len(c) /\ c[e] = list[e]
      BY <1>1, <1>2, <2>3
    <3> QED BY <2>1, <3>1
  <2>4. CASE ~(e < i)
    <3>1. e - 1 \in 1 .. Len(c) /\ c[e - 1] = list[e]
      <4>1. e - 1 \in 1 .. n - 1 /\ ~(e - 1 < i) /\ e - 1 + 1 = e
        BY <1>1, <2>2, <2>4
      <4> QED BY <1>2, <4>1
    <3> QED BY <2>1, <3>1
  <2> QED BY <2>3, <2>4
<1> QED BY <1>2, <1>4, <1>5, <1>6 DEF Keeps, c

\* What a new bucket is given of a list.
LEMMA Gives2 ==
  ASSUME NEW list, NEW K, NEW m, Keeps(list, K, m), NEW j, NEW count
  PROVE  Keeps(Given(list, j, count), {k \in K : hasher[k] % count = j}, m)
<1> DEFINE n == Len(list)
           S == Seq(TableNode)
           F == [p \in (1 .. n) \X S |->
                   IF hasher[list[p[1]].key] % count = j THEN <<list[p[1]]>> \o p[2] ELSE p[2]]
           G(f) == [i \in 0 .. n |->
                      IF i = 0 THEN << >>
                      ELSE IF hasher[list[i].key] % count = j THEN <<list[i]>> \o f[i - 1] ELSE f[i - 1]]
           h == CHOOSE f : f = G(f)
<1>1. list \in S /\ n \in Nat
  BY DEF Keeps
<1>2. \A i \in 1 .. n, s \in S : <<list[i]>> \o s \in S
  <2>1. ASSUME NEW i \in 1 .. n, NEW s \in S PROVE <<list[i]>> \o s \in S
    <3>1. list[i] \in TableNode
      BY <1>1
    <3> QED BY <3>1, FrontIs DEF InFront
  <2> QED BY <2>1
<1>3. F \in [(1 .. n) \X S -> S]
  BY <1>2
<1>4. PICK f \in [0 .. n -> S] : f[0] = << >> /\ \A i \in 1 .. n : f[i] = F[<<i, f[i - 1]>>]
  <2>1. << >> \in S
    OBVIOUS
  <2> HIDE DEF F, n, S
  <2>2. Rec(n, S, << >>, F) # {}
    BY <1>1, <1>3, <2>1, Recursion
  <2> QED BY <2>2 DEF Rec
<1>5. f = G(f)
  <2>1. ASSUME NEW i \in 1 .. n
        PROVE  f[i] = IF hasher[list[i].key] % count = j THEN <<list[i]>> \o f[i - 1] ELSE f[i - 1]
    <3>1. i - 1 \in 0 .. n
      BY <1>1
    <3>2. <<i, f[i - 1]>> \in (1 .. n) \X S
      <4> HIDE DEF S, n
      <4> QED BY <1>4, <3>1
    <3> QED BY <1>4, <3>2
  <2>2. \A i \in 0 .. n : i # 0 => i \in 1 .. n
    BY <1>1
  <2> HIDE DEF F, S, n
  <2> QED BY <1>4, <2>1, <2>2
<1>6. h = G(h)
  BY <1>5
<1>7. Given(list, j, count) = h[n]
  BY DEF Given
<1> HIDE DEF h
<1>8. /\ h[0] = << >>
      /\ \A i \in 1 .. n : h[i] = IF hasher[list[i].key] % count = j THEN <<list[i]>> \o h[i - 1]
                                  ELSE h[i - 1]
  <2>1. 0 \in 0 .. n /\ \A i \in 1 .. n : i \in 0 .. n /\ i # 0
    BY <1>1
  <2> HIDE DEF n
  <2> QED BY <1>6, <2>1
<1> DEFINE Taken(i) == {k \in K : hasher[k] % count = j /\ \E e \in 1 .. i : list[e].key = k}
           T == {i \in 0 .. n : Keeps(h[i], Taken(i), m)}
<1>9. 0 \in T
  <2>1. Taken(0) = {}
    OBVIOUS
  <2>2. << >> \in Seq(TableNode) /\ Len(<< >>) = 0
    OBVIOUS
  <2>3. Keeps(<< >>, {}, m)
    BY <2>2 DEF Keeps
  <2>4. 0 \in 0 .. n
    BY <1>1
  <2> HIDE DEF Taken
  <2> QED BY <1>8, <2>1, <2>3, <2>4
<1>10. ASSUME NEW i \in 1 .. n, i - 1 \in T PROVE i \in T
  <2> DEFINE x == list[i]
  <2>1. /\ x \in TableNode /\ x.key \in K /\ x.value = m[x.key]
        /\ \A e \in 1 .. n : list[e].key = x.key => e = i
    <3>1. i \in 1 .. Len(list) /\ list \in Seq(TableNode) /\ n = Len(list)
      BY <1>1 DEF Keeps
    <3>2. x \in TableNode
      BY <3>1
    <3>3. x.key \in K /\ x.value = m[x.key]
      BY <1>1, <3>1 DEF Keeps
    <3>4. \A e \in 1 .. n : list[e].key = x.key => e = i
      BY <1>1, <3>1 DEF Keeps
    <3> QED BY <3>2, <3>3, <3>4
  <2>2. i - 1 \in 0 .. n /\ i \in 0 .. n /\ i \notin 1 .. i - 1 /\ 1 .. i = (1 .. i - 1) \cup {i}
    BY <1>1
  <2>3. Keeps(h[i - 1], Taken(i - 1), m)
    BY <1>10
  <2>4. x.key \notin Taken(i - 1)
    <3> SUFFICES ASSUME NEW e \in 1 .. i - 1, list[e].key = x.key PROVE FALSE
      OBVIOUS
    <3>1. e \in 1 .. n /\ e # i
      BY <1>1
    <3> HIDE DEF x
    <3> QED BY <2>1, <3>1
  <2>5. CASE hasher[x.key] % count = j
    <3>1. Taken(i) = Taken(i - 1) \cup {x.key}
      BY <2>1, <2>2, <2>5
    <3>2. h[i] = <<x>> \o h[i - 1]
      BY <1>8, <2>5
    <3> HIDE DEF Taken, x
    <3>3. Keeps(h[i], Taken(i), m)
      BY <2>1, <2>3, <2>4, <3>1, <3>2, KeepsFront
    <3> QED BY <2>2, <3>3
  <2>6. CASE ~(hasher[x.key] % count = j)
    <3>1. Taken(i) = Taken(i - 1)
      BY <2>1, <2>2, <2>6
    <3>2. h[i] = h[i - 1]
      BY <1>8, <2>6
    <3> QED BY <2>2, <2>3, <3>1, <3>2
  <2> QED BY <2>5, <2>6
<1>11. n \in T
  <2> HIDE DEF T
  <2>1. \A i \in 0 .. n : i \in T
    BY <1>1, <1>9, <1>10, ByInduction
  <2> QED BY <1>1, <2>1
<1>12. Taken(n) = {k \in K : hasher[k] % count = j}
  BY DEF Keeps
<1> HIDE DEF Taken
<1> QED BY <1>7, <1>11, <1>12
LEMMA Rehashes ==
  ASSUME NEW b, NEW m, NEW n, Spread(b, m, n), hasher \in [TableKeys -> Hashes]
  PROVE  Spread(Rehashed(b), m, 2 * n)
<1>1. n \in Nat \ {0} /\ Count(b) = n
  BY Counts DEF Spread
<1> DEFINE c == Rehashed(b)
           w == 2 * n
<1>2. w \in Nat \ {0}
  BY <1>1
<1>3. c = [j \in 0 .. w - 1 |-> Given(b[j % n], j, w)]
  BY <1>1 DEF Rehashed
<1>4. ASSUME NEW j \in 0 .. w - 1 PROVE Keeps(c[j], Share(m, j, w), m)
  <2>1. j % n \in 0 .. n - 1
    BY <1>1
  <2>2. Keeps(b[j % n], Share(m, j % n, n), m)
    BY <2>1 DEF Spread
  <2>3. Keeps(Given(b[j % n], j, w), {k \in Share(m, j % n, n) : hasher[k] % w = j}, m)
    <3> HIDE DEF w
    <3> QED BY <2>2, Gives2
  <2>4. ASSUME NEW k \in TableKeys, hasher[k] % w = j PROVE hasher[k] % n = j % n
    <3>1. hasher[k] \in Nat
      BY TableAssumption
    <3>2. (hasher[k] % w) % n = hasher[k] % n
      BY <1>1, <3>1, HalfRest
    <3> QED BY <2>4, <3>2
  <2>5. {k \in Share(m, j % n, n) : hasher[k] % w = j} = Share(m, j, w)
    <3> HIDE DEF w
    <3> QED BY <2>4 DEF Share
  <2> QED BY <1>3, <2>3, <2>5
<1> HIDE DEF c, w
<1>5. Spread(c, m, w)
  BY <1>2, <1>3, <1>4 DEF Spread
<1> QED BY <1>5 DEF c, w

\* One key's bucket changes, and its value.
LEMMA Changes ==
  ASSUME NEW b, NEW m, NEW n, Spread(b, m, n), hasher \in [TableKeys -> Hashes],
         DOMAIN m = TableKeys, NEW k \in TableKeys, NEW v, NEW c,
         Keeps(c, Share([m EXCEPT ![k] = v], hasher[k] % n, n), [m EXCEPT ![k] = v])
  PROVE  Spread([b EXCEPT ![hasher[k] % n] = c], [m EXCEPT ![k] = v], n)
<1> DEFINE x == hasher[k] % n
           w == [m EXCEPT ![k] = v]
           d == [b EXCEPT ![x] = c]
<1>1. /\ n \in Nat \ {0} /\ DOMAIN b = 0 .. n - 1 /\ b = [j \in 0 .. n - 1 |-> b[j]]
      /\ DOMAIN d = 0 .. n - 1 /\ d = [j \in 0 .. n - 1 |-> d[j]]
  BY DEF Spread
<1>2. ASSUME NEW j \in 0 .. n - 1 PROVE Keeps(d[j], Share(w, j, n), w)
  <2>1. CASE j = x
    BY <1>1, <2>1
  <2>2. CASE j # x
    <3>1. d[j] = b[j]
      BY <1>1, <2>2
    <3>2. Share(w, j, n) = Share(m, j, n) /\ k \notin Share(m, j, n)
      BY <2>2 DEF Share
    <3>3. Keeps(b[j], Share(m, j, n), m)
      BY DEF Spread
    <3>4. Keeps(b[j], Share(m, j, n), w)
      BY <3>2, <3>3, KeepsOther
    <3> QED BY <3>1, <3>2, <3>4
  <2> QED BY <2>1, <2>2
<1> HIDE DEF d
<1>3. Spread(d, w, n)
  BY <1>1, <1>2 DEF Spread
<1> QED BY <1>3 DEF d

\* A value for a key that has one.
Mapping(m, k, v) == [m EXCEPT ![k] = v]

Reset(b, k, v) == [b EXCEPT ![Index(b, k)][First(b, k)].value = v]

LEMMA Resets ==
  ASSUME NEW b, NEW m, NEW n, Spread(b, m, n), hasher \in [TableKeys -> Hashes],
         DOMAIN m = TableKeys, NEW k \in TableKeys, m[k] # Absent, NEW v \in TableValues
  PROVE  Spread(Reset(b, k, v), Mapping(m, k, v), n) /\ Mapped(Mapping(m, k, v)) = Mapped(m)
<1> DEFINE x == Index(b, k)
           w == [m EXCEPT ![k] = v]
<1>1. x = hasher[k] % n /\ x \in 0 .. n - 1
  BY Looks
<1>2. PICK i \in 1 .. Len(b[x]) : First(b, k) = i /\ b[x][i].key = k
  BY Looks
<1>3. Keeps(b[x], Share(m, x, n), m)
  BY <1>1 DEF Spread
<1> HIDE DEF x
<1>4. Keeps([b[x] EXCEPT ![i].value = v], Share(m, x, n), w)
  BY <1>2, <1>3, KeepsSet
<1>5. v # Absent
  BY TableAssumption
<1>6. Share(w, x, n) = Share(m, x, n) /\ Mapped(w) = Mapped(m)
  BY <1>5 DEF Share, Mapped
<1>7. Spread([b EXCEPT ![x] = [b[x] EXCEPT ![i].value = v]], w, n)
  BY <1>1, <1>4, <1>6, Changes
<1>8. [b EXCEPT ![x][i].value = v] = [b EXCEPT ![x] = [b[x] EXCEPT ![i].value = v]]
  OBVIOUS
<1> QED BY <1>2, <1>6, <1>7, <1>8 DEF x, Reset, Mapping

\* A new node for a key that has none.
LEMMA Puts ==
  ASSUME NEW b, NEW m, NEW n, Spread(b, m, n), hasher \in [TableKeys -> Hashes],
         DOMAIN m = TableKeys, NEW k \in TableKeys, m[k] = Absent, NEW v \in TableValues
  PROVE  /\ Spread([b EXCEPT ![Index(b, k)] = <<[key |-> k, value |-> v]>> \o @], [m EXCEPT ![k] = v], n)
         /\ Mapped([m EXCEPT ![k] = v]) = Mapped(m) \cup {k} /\ k \notin Mapped(m)
<1> DEFINE x == Index(b, k)
           w == [m EXCEPT ![k] = v]
           e == [key |-> k, value |-> v]
<1>1. x = hasher[k] % n /\ x \in 0 .. n - 1
  BY Looks
<1>2. Keeps(b[x], Share(m, x, n), m) /\ k \notin Share(m, x, n)
  BY <1>1 DEF Spread, Share
<1> HIDE DEF x
<1>3. Keeps(b[x], Share(m, x, n), w)
  BY <1>2, KeepsOther
<1>4. e \in TableNode /\ e.key = k /\ e.value = v /\ w[k] = v
  BY DEF TableNode
<1> HIDE DEF e
<1>5. Keeps(<<e>> \o b[x], Share(m, x, n) \cup {k}, w)
  <2> HIDE DEF w
  <2> QED BY <1>2, <1>3, <1>4, KeepsFront
<1>6. v # Absent
  BY TableAssumption
<1>7. Share(w, x, n) = Share(m, x, n) \cup {k} /\ Mapped(w) = Mapped(m) \cup {k} /\ k \notin Mapped(m)
  BY <1>1, <1>6 DEF Share, Mapped
<1>8. Spread([b EXCEPT ![x] = <<e>> \o b[x]], w, n)
  BY <1>1, <1>5, <1>7, Changes
<1>9. [b EXCEPT ![x] = <<e>> \o @] = [b EXCEPT ![x] = <<e>> \o b[x]]
  OBVIOUS
<1> QED BY <1>7, <1>8, <1>9 DEF x, e

LEMMA Erases ==
  ASSUME NEW b, NEW m, NEW n, Spread(b, m, n), hasher \in [TableKeys -> Hashes],
         DOMAIN m = TableKeys, NEW k \in TableKeys, m[k] # Absent
  PROVE  /\ Spread([b EXCEPT ![Index(b, k)] = RemoveAt(@, First(b, k))], [m EXCEPT ![k] = Absent], n)
         /\ Mapped([m EXCEPT ![k] = Absent]) = Mapped(m) \ {k} /\ k \in Mapped(m)
<1> DEFINE x == Index(b, k)
           w == [m EXCEPT ![k] = Absent]
<1>1. x = hasher[k] % n /\ x \in 0 .. n - 1
  BY Looks
<1>2. PICK i \in 1 .. Len(b[x]) : First(b, k) = i /\ b[x][i].key = k
  BY Looks
<1>3. Keeps(b[x], Share(m, x, n), m)
  BY <1>1 DEF Spread
<1> HIDE DEF x
<1>4. Keeps(RemoveAt(b[x], i), Share(m, x, n) \ {k}, m)
  BY <1>2, <1>3, KeepsCut
<1>5. Keeps(RemoveAt(b[x], i), Share(m, x, n) \ {k}, w)
  BY <1>4, KeepsOther
<1>6. Share(w, x, n) = Share(m, x, n) \ {k} /\ Mapped(w) = Mapped(m) \ {k} /\ k \in Mapped(m)
  BY DEF Share, Mapped
<1>7. Spread([b EXCEPT ![x] = RemoveAt(b[x], i)], w, n)
  BY <1>1, <1>5, <1>6, Changes
<1>8. [b EXCEPT ![x] = RemoveAt(@, i)] = [b EXCEPT ![x] = RemoveAt(b[x], i)]
  OBVIOUS
<1> QED BY <1>2, <1>6, <1>7, <1>8 DEF x

LEMMA EmptyBuckets ==
  ASSUME NEW b, NEW n \in Nat \ {0}, b = [i \in 0 .. n - 1 |-> << >>], NEW m,
         \A k \in TableKeys : m[k] = Absent
  PROVE  Spread(b, m, n) /\ Mapped(m) = {}
<1>1. \A j \in 0 .. n - 1 : Share(m, j, n) = {}
  BY DEF Share
<1>2. << >> \in Seq(TableNode) /\ Len(<< >>) = 0
  OBVIOUS
<1>3. Keeps(<< >>, {}, m)
  BY <1>2 DEF Keeps
<1>4. \A j \in 0 .. n - 1 : b[j] = << >>
  OBVIOUS
<1> QED BY <1>1, <1>3, <1>4 DEF Spread, Mapped

LEMMA TableStarts == TableInit => TableInv
<1> SUFFICES ASSUME TableInit PROVE TableInv
  OBVIOUS
<1>1. PICK n \in FirstBuckets : buckets = [i \in 0 .. n - 1 |-> << >>]
  BY DEF TableInit
<1>2. n \in Nat \ {0}
  BY TableAssumption
<1>3. \A k \in TableKeys : mapped[k] = Absent
  BY DEF TableInit
<1>4. Spread(buckets, mapped, n) /\ Mapped(mapped) = {}
  BY <1>1, <1>2, <1>3, EmptyBuckets
<1>5. num_elements = 0 /\ 4 * num_elements <= 3 * n
  BY <1>2 DEF TableInit
<1> QED BY <1>4, <1>5, FS_EmptySet DEF TableInit, TableInv

LEMMA TableAgain ==
  ASSUME NEW n, hasher' = hasher, hasher \in [TableKeys -> Hashes],
         Spread(buckets', mapped', n), 4 * num_elements' <= 3 * n,
         mapped' \in [TableKeys -> TableValues \cup {Absent}],
         IsFiniteSet(Mapped(mapped')), num_elements' = Cardinality(Mapped(mapped'))
  PROVE  TableInv'
BY DEF TableInv, Spread, Share, Mapped

\* An insertion grows the table first when the new node would make it too full.
LEMMA Inserts ==
  ASSUME TableInv, NEW k \in TableKeys, NEW v \in TableValues, TableInsert(k, v)
  PROVE  TableInv'
<1> DEFINE b == Roomy(buckets)
           m == mapped
           w == [m EXCEPT ![k] = v]
<1>1. /\ hasher \in [TableKeys -> Hashes] /\ m \in [TableKeys -> TableValues \cup {Absent}]
      /\ IsFiniteSet(Mapped(m)) /\ num_elements = Cardinality(Mapped(m)) /\ num_elements \in Nat
  BY FS_CardinalityType DEF TableInv
<1>2. PICK n : Spread(buckets, m, n) /\ 4 * num_elements <= 3 * n
  BY DEF TableInv
<1>3. n \in Nat \ {0} /\ Count(buckets) = n
  BY <1>2, Counts DEF Spread
<1>4. \E c : Spread(b, m, c) /\ 4 * (num_elements + 1) <= 3 * c
  <2>1. CASE 4 * (num_elements + 1) > 3 * n
    <3>1. Spread(b, m, 2 * n)
      BY <1>1, <1>2, <1>3, <2>1, Rehashes DEF Roomy
    <3>2. 4 * (num_elements + 1) <= 3 * (2 * n)
      BY <1>1, <1>2, <1>3
    <3> QED BY <3>1, <3>2
  <2>2. CASE ~(4 * (num_elements + 1) > 3 * n)
    <3>1. b = buckets /\ 4 * (num_elements + 1) <= 3 * n
      BY <1>1, <1>3, <2>2 DEF Roomy
    <3> QED BY <1>2, <3>1
  <2> QED BY <2>1, <2>2
<1>5. PICK c : Spread(b, m, c) /\ 4 * (num_elements + 1) <= 3 * c
  BY <1>4
<1>6. c \in Nat
  BY <1>5 DEF Spread
<1>7. mapped' = w /\ hasher' = hasher /\ w \in [TableKeys -> TableValues \cup {Absent}]
  BY <1>1 DEF TableInsert
<1>8. /\ At(b, k) # {} <=> m[k] # Absent
      /\ At(b, k) # {} => /\ buckets' = [b EXCEPT ![Index(b, k)][First(b, k)].value = v]
                          /\ num_elements' = num_elements
      /\ At(b, k) = {} => /\ buckets' = [b EXCEPT ![Index(b, k)] = <<[key |-> k, value |-> v]>> \o @]
                          /\ num_elements' = num_elements + 1
  <2> HIDE DEF b
  <2>1. At(b, k) # {} <=> m[k] # Absent
    BY <1>1, <1>5, Looks
  <2> QED BY <2>1 DEF TableInsert, b
<1> HIDE DEF b, m, w
<1>9. CASE m[k] # Absent
  <2>1. Spread(buckets', w, c) /\ Mapped(w) = Mapped(m)
    <3>1. DOMAIN m = TableKeys /\ buckets' = Reset(b, k, v)
      BY <1>1, <1>8, <1>9 DEF Reset
    <3>2. Spread(Reset(b, k, v), Mapping(m, k, v), c) /\ Mapped(Mapping(m, k, v)) = Mapped(m)
      <4>1. Spread(b, m, c)
        BY <1>5
      <4>2. hasher \in [TableKeys -> Hashes]
        BY <1>1
      <4>3. DOMAIN m = TableKeys
        BY <3>1
      <4>4. k \in TableKeys /\ v \in TableValues
        BY <1>1
      <4> QED BY <1>9, <4>1, <4>2, <4>3, <4>4, Resets
    <3>3. w = Mapping(m, k, v)
      BY DEF w, Mapping
    <3> QED BY <3>1, <3>2, <3>3
  <2>2. 4 * num_elements' <= 3 * c
    BY <1>1, <1>5, <1>6, <1>8, <1>9
  <2> QED BY <1>1, <1>7, <1>8, <1>9, <2>1, <2>2, TableAgain
<1>10. CASE m[k] = Absent
  <2>1. Spread(buckets', w, c) /\ Mapped(w) = Mapped(m) \cup {k} /\ k \notin Mapped(m)
    <3>1. /\ DOMAIN m = TableKeys
          /\ buckets' = [b EXCEPT ![Index(b, k)] = <<[key |-> k, value |-> v]>> \o @]
      BY <1>1, <1>8, <1>10
    <3>2. /\ Spread([b EXCEPT ![Index(b, k)] = <<[key |-> k, value |-> v]>> \o @],
                    [m EXCEPT ![k] = v], c)
          /\ Mapped([m EXCEPT ![k] = v]) = Mapped(m) \cup {k} /\ k \notin Mapped(m)
      BY <1>1, <1>5, <1>10, <3>1, Puts, Zenon
    <3> QED BY <3>1, <3>2, Zenon DEF w
  <2>2. IsFiniteSet(Mapped(w)) /\ Cardinality(Mapped(w)) = Cardinality(Mapped(m)) + 1
    BY <1>1, <2>1, FS_AddElement
  <2>3. num_elements' = Cardinality(Mapped(w)) /\ 4 * num_elements' <= 3 * c
    BY <1>1, <1>5, <1>8, <1>10, <2>2
  <2> QED BY <1>1, <1>7, <2>1, <2>2, <2>3, TableAgain
<1> QED BY <1>9, <1>10

LEMMA TableKept == TableInv /\ [TableNext]_tableVars => TableInv'
<1> SUFFICES ASSUME TableInv, [TableNext]_tableVars PROVE TableInv'
  OBVIOUS
<1> DEFINE m == mapped
<1>1. /\ hasher \in [TableKeys -> Hashes] /\ m \in [TableKeys -> TableValues \cup {Absent}]
      /\ IsFiniteSet(Mapped(m)) /\ num_elements = Cardinality(Mapped(m)) /\ num_elements \in Nat
  BY FS_CardinalityType DEF TableInv
<1>2. PICK n : Spread(buckets, m, n) /\ 4 * num_elements <= 3 * n
  BY DEF TableInv
<1>3. n \in Nat \ {0} /\ DOMAIN buckets = 0 .. n - 1
  BY <1>2 DEF Spread
<1>4. CASE UNCHANGED tableVars
  BY <1>4 DEF tableVars, TableInv, Spread, Share, Mapped
<1>5. ASSUME NEW k \in TableKeys, NEW v \in TableValues, TableInsert(k, v) PROVE TableInv'
  BY <1>5, Inserts
<1>6. ASSUME NEW k \in TableKeys, NEW v \in TableValues, TableIndexed(k, v) PROVE TableInv'
  <2>1. CASE At(buckets, k) = {}
    BY <1>6, <2>1, Inserts DEF TableIndexed
  <2>2. CASE At(buckets, k) # {}
    <3>1. m[k] # Absent
      BY <1>1, <1>2, <2>2, Looks
    <3>2. /\ buckets' = Reset(buckets, k, v)
          /\ mapped' = [m EXCEPT ![k] = v] /\ hasher' = hasher /\ num_elements' = num_elements
      BY <1>6, <2>2 DEF TableIndexed, Reset
    <3>3. Spread(buckets', mapped', n) /\ Mapped(mapped') = Mapped(m)
      <4>1. mapped' = Mapping(m, k, v)
        BY <3>2 DEF Mapping
      <4>2. k \in TableKeys /\ v \in TableValues
        BY <1>6
      <4>3. Spread(Reset(buckets, k, v), Mapping(m, k, v), n) /\ Mapped(Mapping(m, k, v)) = Mapped(m)
        BY <1>1, <1>2, <3>1, <4>2, Resets
      <4> QED BY <3>2, <4>1, <4>3
    <3>4. mapped' \in [TableKeys -> TableValues \cup {Absent}]
      BY <1>1, <3>2
    <3> QED BY <1>1, <1>2, <3>2, <3>3, <3>4, TableAgain
  <2> QED BY <2>1, <2>2
<1>7. ASSUME NEW k \in TableKeys, TableErase(k) PROVE TableInv'
  <2>1. m[k] # Absent
    BY <1>1, <1>2, <1>7, Looks DEF TableErase
  <2>2. /\ buckets' = [buckets EXCEPT ![Index(buckets, k)] = RemoveAt(@, First(buckets, k))]
        /\ mapped' = [m EXCEPT ![k] = Absent] /\ hasher' = hasher /\ num_elements' = num_elements - 1
    BY <1>7 DEF TableErase
  <2>3. Spread(buckets', mapped', n) /\ Mapped(mapped') = Mapped(m) \ {k} /\ k \in Mapped(m)
    BY <1>1, <1>2, <2>1, <2>2, Erases
  <2>4. IsFiniteSet(Mapped(mapped')) /\ Cardinality(Mapped(mapped')) = Cardinality(Mapped(m)) - 1
    BY <1>1, <2>3, FS_RemoveElement
  <2>5. num_elements' = Cardinality(Mapped(mapped')) /\ 4 * num_elements' <= 3 * n
    BY <1>1, <1>2, <1>3, <2>2, <2>4
  <2>6. mapped' \in [TableKeys -> TableValues \cup {Absent}]
    BY <1>1, <2>2
  <2> QED BY <1>1, <2>2, <2>3, <2>4, <2>5, <2>6, TableAgain
<1>8. CASE TableClear
  <2>1. /\ buckets' = [i \in 0 .. n - 1 |-> << >>] /\ num_elements' = 0 /\ hasher' = hasher
        /\ mapped' = [k \in TableKeys |-> Absent]
    BY <1>3, <1>8 DEF TableClear
  <2>2. Spread(buckets', mapped', n) /\ Mapped(mapped') = {}
    BY <1>3, <2>1, EmptyBuckets
  <2>3. num_elements' = Cardinality(Mapped(mapped')) /\ 4 * num_elements' <= 3 * n
    BY <1>3, <2>1, <2>2, FS_EmptySet
  <2>4. mapped' \in [TableKeys -> TableValues \cup {Absent}] /\ IsFiniteSet(Mapped(mapped'))
    BY <2>1, <2>2, FS_EmptySet
  <2> QED BY <1>1, <2>1, <2>2, <2>3, <2>4, TableAgain
<1> QED BY <1>4, <1>5, <1>6, <1>7, <1>8 DEF TableNext

\* The table maps the keys as its calls did.
LEMMA TableKeeps == TableInv => TableMaps
<1> SUFFICES ASSUME TableInv PROVE TableMaps
  OBVIOUS
<1>1. hasher \in [TableKeys -> Hashes] /\ num_elements = Cardinality(Mapped(mapped))
  BY DEF TableInv
<1>2. PICK n : Spread(buckets, mapped, n) /\ 4 * num_elements <= 3 * n
  BY DEF TableInv
<1>3. Count(buckets) = n /\ DOMAIN buckets = 0 .. n - 1
  BY <1>2, Counts DEF Spread
<1>4. ASSUME NEW k \in TableKeys
      PROVE  /\ Cardinality(At(buckets, k)) = IF mapped[k] = Absent THEN 0 ELSE 1
             /\ At(buckets, k) # {} => buckets[Index(buckets, k)][First(buckets, k)].value = mapped[k]
             /\ contains(k) => mapped[k] # Absent
  <2>1. CASE mapped[k] = Absent
    <3>1. At(buckets, k) = {}
      BY <1>1, <1>2, <2>1, Looks
    <3>2. ~contains(k)
      <4>1. buckets[Index(buckets, k)] \in Seq(TableNode)
        <5>1. Index(buckets, k) \in 0 .. n - 1
          BY <1>1, <1>2, Looks
        <5> QED BY <1>2, <5>1 DEF Spread, Keeps
      <4>2. buckets[Index(buckets, k)] # << >> => 1 \in 1 .. Len(buckets[Index(buckets, k)])
        BY <4>1
      <4> QED BY <3>1, <4>2 DEF contains, At
    <3> QED BY <2>1, <3>1, <3>2, FS_EmptySet
  <2>2. CASE mapped[k] # Absent
    <3>1. PICK i : /\ At(buckets, k) = {i} /\ First(buckets, k) = i
                   /\ buckets[Index(buckets, k)][i].value = mapped[k]
      BY <1>1, <1>2, <2>2, Looks
    <3> QED BY <2>2, <3>1, FS_Singleton
  <2> QED BY <2>1, <2>2
<1>5. ASSUME NEW i \in DOMAIN buckets, NEW j \in 1 .. Len(buckets[i])
      PROVE  Index(buckets, buckets[i][j].key) = i
  <2>1. Keeps(buckets[i], Share(mapped, i, n), mapped)
    BY <1>2, <1>3 DEF Spread
  <2>2. buckets[i][j].key \in Share(mapped, i, n)
    BY <2>1 DEF Keeps
  <2> QED BY <1>3, <2>2 DEF Index, Share
<1>6. num_elements = Cardinality({k \in TableKeys : mapped[k] # Absent})
  BY <1>1 DEF Mapped
<1> QED BY <1>2, <1>3, <1>4, <1>5, <1>6 DEF TableMaps
-----------------------------------------------------------------------------
(* The skip list *)

LEMMA NatMax == ASSUME NEW m \in Nat, NEW T \in SUBSET (0 .. m), T # {}
                PROVE  \E x \in T : \A y \in T : y <= x
<1> DEFINE R == {z \in 0 .. m : m - z \in T}
<1>1. PICK t \in T : TRUE
  OBVIOUS
<1>2. m - t \in R
  <2>1. m - t \in 0 .. m /\ m - (m - t) = t
    OBVIOUS
  <2> QED BY <2>1
<1>3. PICK z \in R : \A y \in R : z <= y
  <2>1. R \in SUBSET Nat /\ R # {}
    BY <1>2
  <2> HIDE DEF R
  <2> QED BY <2>1, NatMin
<1>4. ASSUME NEW y \in T PROVE y <= m - z
  <2>1. m - y \in 0 .. m /\ m - (m - y) = y
    OBVIOUS
  <2>2. m - y \in R
    BY <2>1
  <2>3. z <= m - y /\ z \in Nat
    BY <1>3, <2>2
  <2> QED BY <2>1, <2>3
<1> QED BY <1>3, <1>4

\* The head, the nodes in the order c, and End.
Spot(c, i) == IF i = 0 THEN SkipHead ELSE IF i \in 1 .. Len(c) THEN c[i] ELSE End

Tall(nx, c, i, l) == i \in 1 .. Len(c) => l \in DOMAIN nx[c[i]]

\* On level l the next after the i-th is the j-th.
Leap(nx, c, i, j, l) == i < j /\ Tall(nx, c, j, l) /\ \A k \in i + 1 .. j - 1 : ~Tall(nx, c, k, l)

\* The nodes in the order c are sorted, and each level links those that are as high.
Skips(nx, vals, c) ==
  /\ c \in Seq(SkipNodes) /\ \A i, j \in 1 .. Len(c) : c[i] = c[j] => i = j
  /\ DOMAIN vals = {c[i] : i \in 1 .. Len(c)} /\ DOMAIN nx = DOMAIN vals \cup {SkipHead}
  /\ \A i \in 1 .. Len(c) : vals[c[i]] \in SkipVals
  /\ \A i, j \in 1 .. Len(c) : i <= j => vals[c[i]] <= vals[c[j]]
  /\ DOMAIN nx[SkipHead] = Levels
  /\ \A i \in 1 .. Len(c) : \E h \in 1 .. MaxHeight : DOMAIN nx[c[i]] = 0 .. h - 1
  /\ \A i \in 0 .. Len(c), l \in Levels :
       Tall(nx, c, i, l) =>
         \E j \in 1 .. Len(c) + 1 : Leap(nx, c, i, j, l) /\ nx[Spot(c, i)][l] = Spot(c, j)

SkipInv == /\ \E c : Skips(skipNext, skipVal, c)
           /\ held \in [SkipVals -> Nat]
           /\ \A v \in SkipVals : Cardinality({n \in DOMAIN skipVal : skipVal[n] = v}) = held[v]

LEMMA Spots ==
  ASSUME NEW nx, NEW vals, NEW c, Skips(nx, vals, c)
  PROVE  /\ Len(c) \in Nat
         /\ \A i, j \in 0 .. Len(c) + 1 : Spot(c, i) = Spot(c, j) => i = j
         /\ \A i \in 0 .. Len(c) + 1 : Spot(c, i) = End <=> i = Len(c) + 1
         /\ \A i \in 0 .. Len(c) : Spot(c, i) \in DOMAIN nx
         /\ \A n \in DOMAIN nx : \E i \in 0 .. Len(c) : Spot(c, i) = n
         /\ \A i \in 0 .. Len(c), l \in Levels : Tall(nx, c, i, l) <=> l \in DOMAIN nx[Spot(c, i)]
         /\ \A i \in 0 .. Len(c) + 1 : Tall(nx, c, i, 0)
         /\ \A i \in 0 .. Len(c) + 1, l \in Levels, k \in Levels :
              k <= l /\ Tall(nx, c, i, l) => Tall(nx, c, i, k)
<1>1. c \in Seq(SkipNodes) /\ Len(c) \in Nat
  BY DEF Skips
<1>2. \A i \in 1 .. Len(c) : /\ c[i] \in SkipNodes /\ c[i] # SkipHead /\ c[i] # End
                             /\ c[i] \in DOMAIN nx
  BY <1>1, SkipAssumption DEF Skips
<1>3. SkipHead # End
  BY SkipAssumption
<1>4. /\ Spot(c, 0) = SkipHead /\ Spot(c, Len(c) + 1) = End
      /\ \A i \in 1 .. Len(c) : Spot(c, i) = c[i]
  BY <1>1 DEF Spot
<1>5. \A i \in 0 .. Len(c) + 1 : i = 0 \/ i \in 1 .. Len(c) \/ i = Len(c) + 1
  BY <1>1
<1>6. ASSUME NEW i \in 0 .. Len(c) + 1, NEW j \in 0 .. Len(c) + 1, Spot(c, i) = Spot(c, j)
      PROVE  i = j
  <2>1. \A a, b \in 1 .. Len(c) : c[a] = c[b] => a = b
    BY DEF Skips
  <2>2. CASE i \in 1 .. Len(c) /\ j \in 1 .. Len(c)
    BY <1>4, <1>6, <2>1, <2>2
  <2>3. CASE i \notin 1 .. Len(c)
    BY <1>2, <1>3, <1>4, <1>5, <1>6, <2>3
  <2>4. CASE j \notin 1 .. Len(c)
    BY <1>2, <1>3, <1>4, <1>5, <1>6, <2>4
  <2> QED BY <2>2, <2>3, <2>4
<1>7. \A i \in 0 .. Len(c) + 1 : Spot(c, i) = End <=> i = Len(c) + 1
  BY <1>1, <1>4, <1>6
<1>8. ASSUME NEW i \in 0 .. Len(c) PROVE Spot(c, i) \in DOMAIN nx
  <2>1. i = 0 \/ i \in 1 .. Len(c)
    BY <1>1
  <2> QED BY <1>2, <1>4, <2>1 DEF Skips
<1>9. ASSUME NEW n \in DOMAIN nx PROVE \E i \in 0 .. Len(c) : Spot(c, i) = n
  <2>1. CASE n = SkipHead
    BY <1>1, <1>4, <2>1
  <2>2. CASE n # SkipHead
    <3>1. PICK i \in 1 .. Len(c) : n = c[i]
      BY <2>2 DEF Skips
    <3> QED BY <1>1, <1>4, <3>1
  <2> QED BY <2>1, <2>2
<1>10. ASSUME NEW i \in 0 .. Len(c), NEW l \in Levels
       PROVE  Tall(nx, c, i, l) <=> l \in DOMAIN nx[Spot(c, i)]
  <2>1. i = 0 \/ i \in 1 .. Len(c)
    BY <1>1
  <2> QED BY <1>4, <2>1 DEF Tall, Skips
<1>11. ASSUME NEW i \in 0 .. Len(c) + 1, NEW l \in Levels, NEW k \in Levels, k <= l,
              Tall(nx, c, i, l)
       PROVE  Tall(nx, c, i, k)
  <2>1. CASE i \in 1 .. Len(c)
    <3>1. PICK h \in 1 .. MaxHeight : DOMAIN nx[c[i]] = 0 .. h - 1
      BY <2>1 DEF Skips
    <3>2. h \in Nat /\ l \in Nat /\ k \in Nat
      BY SkipAssumption DEF Levels
    <3> QED BY <1>11, <2>1, <3>1, <3>2 DEF Tall
  <2>2. CASE i \notin 1 .. Len(c)
    BY <2>2 DEF Tall
  <2> QED BY <2>1, <2>2
<1>12. ASSUME NEW i \in 0 .. Len(c) + 1 PROVE Tall(nx, c, i, 0)
  <2>1. CASE i \in 1 .. Len(c)
    <3>1. PICK h \in 1 .. MaxHeight : DOMAIN nx[c[i]] = 0 .. h - 1
      BY <2>1 DEF Skips
    <3>2. h \in Nat /\ h >= 1
      BY SkipAssumption
    <3> QED BY <3>1, <3>2 DEF Tall
  <2>2. CASE i \notin 1 .. Len(c)
    BY <2>2 DEF Tall
  <2> QED BY <2>1, <2>2
<1> QED BY <1>1, <1>6, <1>7, <1>8, <1>9, <1>10, <1>11, <1>12

\* The first p nodes are those below t.
Below(vals, c, t, p) == p \in 0 .. Len(c) /\ \A i \in 1 .. Len(c) : vals[c[i]] < t <=> i <= p

LEMMA BelowIs ==
  ASSUME NEW nx, NEW vals, NEW c, Skips(nx, vals, c), NEW t \in Int
  PROVE  \E p : Below(vals, c, t, p)
<1> DEFINE T == {i \in 0 .. Len(c) : i = 0 \/ vals[c[i]] < t}
<1>1. Len(c) \in Nat /\ \A i \in 1 .. Len(c) : vals[c[i]] \in Int
  <2>1. Len(c) \in Nat /\ \A i \in 1 .. Len(c) : vals[c[i]] \in SkipVals
    BY Spots DEF Skips
  <2> QED BY <2>1, SkipAssumption
<1>2. 0 \in T /\ T \in SUBSET (0 .. Len(c))
  BY <1>1
<1>3. PICK p \in T : \A y \in T : y <= p
  <2> HIDE DEF T
  <2> QED BY <1>1, <1>2, NatMax
<1>4. ASSUME NEW i \in 1 .. Len(c) PROVE vals[c[i]] < t <=> i <= p
  <2>1. i \in 0 .. Len(c) /\ p \in 0 .. Len(c)
    BY <1>1
  <2>2. CASE i <= p
    <3>1. p \in 1 .. Len(c) /\ vals[c[p]] < t
      BY <1>1, <2>1, <2>2
    <3>2. vals[c[i]] <= vals[c[p]] /\ vals[c[i]] \in Int /\ vals[c[p]] \in Int
      BY <1>1, <2>2, <3>1 DEF Skips
    <3> QED BY <2>2, <3>1, <3>2
  <2>3. CASE ~(i <= p)
    <3>1. i \notin T
      BY <1>3, <2>3
    <3> QED BY <2>1, <2>3, <3>1
  <2> QED BY <2>2, <2>3
<1> QED BY <1>3, <1>4 DEF Below

\* The last of the first p that is as high as level l.
Leaves(nx, c, p, l, q) == q \in 0 .. p /\ Tall(nx, c, q, l) /\ \A k \in q + 1 .. p : ~Tall(nx, c, k, l)

LEMMA LeavesIs ==
  ASSUME NEW nx, NEW c, NEW p \in Nat, NEW l PROVE \E q : Leaves(nx, c, p, l, q)
<1> DEFINE T == {q \in 0 .. p : Tall(nx, c, q, l)}
<1>1. 0 \in T /\ T \in SUBSET (0 .. p)
  BY DEF Tall
<1>2. PICK q \in T : \A y \in T : y <= q
  <2> HIDE DEF T
  <2> QED BY <1>1, NatMax
<1>3. ASSUME NEW k \in q + 1 .. p PROVE ~Tall(nx, c, k, l)
  <2>1. k \in 0 .. p /\ ~(k <= q)
    OBVIOUS
  <2> QED BY <1>2, <2>1
<1> QED BY <1>2, <1>3 DEF Leaves

\* On a level the search goes as far as the last node below the target.
LEMMA AlongIs ==
  ASSUME NEW c, Skips(skipNext, skipVal, c), NEW l \in Levels, NEW t \in Int,
         NEW p, Below(skipVal, c, t, p), NEW q, Leaves(skipNext, c, p, l, q)
  PROVE  \A i \in 0 .. q : Tall(skipNext, c, i, l) => Along(l, t)[Spot(c, i)] = Spot(c, q)
<1> DEFINE n == Len(c)
           G(f) == [m \in Linked(l) |-> IF Goes(skipNext[m][l], t) THEN f[skipNext[m][l]] ELSE m]
           w == [m \in Linked(l) |-> IF \E i \in 0 .. q : Spot(c, i) = m THEN Spot(c, q) ELSE m]
           a == CHOOSE f : f = G(f)
           High(i) == Tall(skipNext, c, i, l)
<1>1. n \in Nat /\ p \in 0 .. n /\ q \in 0 .. p /\ q \in Nat /\ p \in Nat
  BY Spots DEF Below, Leaves
<1>2. /\ \A i, j \in 0 .. n + 1 : Spot(c, i) = Spot(c, j) => i = j
      /\ \A i \in 0 .. n + 1 : Spot(c, i) = End <=> i = n + 1
      /\ \A i \in 0 .. n : Spot(c, i) \in DOMAIN skipNext
      /\ \A m \in DOMAIN skipNext : \E i \in 0 .. n : Spot(c, i) = m
      /\ \A i \in 0 .. n : High(i) <=> l \in DOMAIN skipNext[Spot(c, i)]
  <2>1. \A i \in 0 .. n : High(i) <=> l \in DOMAIN skipNext[Spot(c, i)]
    BY Spots
  <2> HIDE DEF High
  <2> QED BY <2>1, Spots
<1>3. \A j \in 1 .. n + 1 : Goes(Spot(c, j), t) <=> j <= p
  <2> TAKE j \in 1 .. n + 1
  <2>1. CASE j = n + 1
    BY <1>1, <1>2, <2>1 DEF Goes
  <2>2. CASE j # n + 1
    <3>1. j \in 1 .. n /\ j \in 0 .. n + 1 /\ Spot(c, j) = c[j]
      BY <1>1, <2>2 DEF Spot
    <3> QED BY <1>2, <2>2, <3>1 DEF Goes, Below
  <2> QED BY <2>1, <2>2
<1>4. ASSUME NEW i \in 0 .. n, High(i)
      PROVE  /\ Spot(c, i) \in Linked(l)
             /\ \E j \in 1 .. n + 1 :
                  /\ skipNext[Spot(c, i)][l] = Spot(c, j) /\ High(j) /\ i < j
                  /\ i < q => j <= q
                  /\ i >= q => j > p
                  /\ Goes(Spot(c, j), t) => j <= n
  <2>1. PICK j \in 1 .. n + 1 : Leap(skipNext, c, i, j, l) /\ skipNext[Spot(c, i)][l] = Spot(c, j)
    BY <1>4 DEF Skips
  <2>2. High(j) /\ i < j
    BY <2>1 DEF Leap
  <2>3. i < q => j <= q
    BY <1>1, <2>1 DEF Leap, Leaves
  <2>4. i >= q => j > p
    <3>1. j \in Nat /\ i \in Nat
      OBVIOUS
    <3>2. i >= q /\ j <= p => j \in q + 1 .. p
      BY <1>1, <2>2, <3>1
    <3> QED BY <1>1, <2>2, <3>1, <3>2 DEF Leaves
  <2>5. Goes(Spot(c, j), t) => j <= n
    BY <1>1, <1>3
  <2> QED BY <1>2, <1>4, <2>1, <2>2, <2>3, <2>4, <2>5 DEF Linked
<1>5. \A m \in Linked(l) : \E i \in 0 .. n : Spot(c, i) = m /\ High(i)
  BY <1>2 DEF Linked
<1>6. w = G(w)
  <2>1. ASSUME NEW m \in Linked(l)
        PROVE  w[m] = IF Goes(skipNext[m][l], t) THEN w[skipNext[m][l]] ELSE m
    <3>1. PICK i \in 0 .. n : Spot(c, i) = m /\ High(i)
      BY <1>5
    <3>2. PICK j \in 1 .. n + 1 : /\ skipNext[m][l] = Spot(c, j) /\ High(j) /\ i < j
                                  /\ i < q => j <= q
                                  /\ i >= q => j > p
                                  /\ Goes(Spot(c, j), t) => j <= n
      BY <1>4, <3>1
    <3>3. i \in 0 .. n + 1 /\ i \in Nat /\ j \in Nat /\ q \in 0 .. n + 1
      BY <1>1
    <3>4. w[m] = IF i <= q THEN Spot(c, q) ELSE m
      <4>1. (\E e \in 0 .. q : Spot(c, e) = m) <=> i <= q
        <5>1. ASSUME NEW e \in 0 .. q, Spot(c, e) = m PROVE i <= q
          <6>1. e \in 0 .. n + 1
            BY <1>1
          <6> QED BY <1>2, <3>1, <3>3, <5>1, <6>1
        <5>2. i <= q => i \in 0 .. q
          BY <3>3
        <5> QED BY <3>1, <5>1, <5>2
      <4> QED BY <4>1
    <3>5. CASE i < q
      <4>1. j \in 0 .. q /\ j <= p /\ j \in 0 .. n /\ j <= n
        BY <1>1, <3>2, <3>3, <3>5
      <4>2. Spot(c, j) \in Linked(l) /\ Goes(Spot(c, j), t)
        BY <1>3, <1>4, <3>2, <4>1
      <4>3. w[Spot(c, j)] = Spot(c, q)
        BY <4>1, <4>2
      <4> HIDE DEF w
      <4> QED BY <1>1, <3>2, <3>3, <3>4, <3>5, <4>2, <4>3
    <3>6. CASE ~(i < q)
      <4>1. ~Goes(skipNext[m][l], t)
        BY <1>1, <1>3, <3>2, <3>3, <3>6
      <4>2. w[m] = m
        <5> HIDE DEF w
        <5> QED BY <1>1, <3>1, <3>3, <3>4, <3>6
      <4> QED BY <4>1, <4>2
    <3> QED BY <3>5, <3>6
  <2> QED BY <2>1
<1>7. a = G(a)
  <2> HIDE DEF w
  <2> QED BY <1>6
<1>8. Along(l, t) = a
  BY DEF Along
<1> HIDE DEF a, w
<1>9. \A m \in Linked(l) : a[m] = IF Goes(skipNext[m][l], t) THEN a[skipNext[m][l]] ELSE m
  BY <1>7
<1> DEFINE T == {d \in 0 .. q : \A i \in q - d .. q : High(i) => a[Spot(c, i)] = Spot(c, q)}
<1>10. 0 \in T
  <2>1. q \in 0 .. n /\ High(q) /\ 0 \in 0 .. q /\ \A i \in q - 0 .. q : i = q
    BY <1>1 DEF Leaves
  <2>2. a[Spot(c, q)] = Spot(c, q)
    <3>1. PICK j \in 1 .. n + 1 : skipNext[Spot(c, q)][l] = Spot(c, j) /\ (q >= q => j > p)
      BY <1>4, <2>1
    <3>2. ~Goes(Spot(c, j), t)
      BY <1>1, <1>3, <3>1
    <3> QED BY <1>4, <1>9, <2>1, <3>1, <3>2
  <2> QED BY <2>1, <2>2
<1>11. ASSUME NEW d \in 1 .. q, d - 1 \in T PROVE d \in T
  <2>1. d \in 0 .. q /\ q - d \in 0 .. n /\ q - d < q /\ \A i \in q - d .. q : i = q - d \/ i \in q - (d - 1) .. q
    BY <1>1
  <2>2. ASSUME High(q - d) PROVE a[Spot(c, q - d)] = Spot(c, q)
    <3> DEFINE e == q - d
    <3>1. PICK j \in 1 .. n + 1 : /\ skipNext[Spot(c, e)][l] = Spot(c, j) /\ High(j) /\ e < j
                                  /\ e < q => j <= q
      BY <1>4, <2>1, <2>2
    <3>2. j \in q - (d - 1) .. q /\ j <= p
      BY <1>1, <2>1, <3>1
    <3>3. Goes(Spot(c, j), t) /\ a[Spot(c, j)] = Spot(c, q)
      BY <1>3, <1>11, <3>1, <3>2
    <3>4. Spot(c, e) \in Linked(l)
      BY <1>4, <2>1, <2>2
    <3> QED BY <1>9, <3>1, <3>3, <3>4
  <2> QED BY <1>11, <2>1, <2>2
<1>12. q \in T
  <2> HIDE DEF T
  <2>1. \A i \in 0 .. q : i \in T
    BY <1>1, <1>10, <1>11, ByInduction
  <2> QED BY <1>1, <2>1
<1>13. \A i \in 0 .. q : i \in q - q .. q
  BY <1>1
<1> QED BY <1>8, <1>12, <1>13

\* prev[l] is the last node below the target that is as high as level l.
LEMMA PrevIs ==
  ASSUME NEW c, Skips(skipNext, skipVal, c), NEW t \in Int, NEW p, Below(skipVal, c, t, p)
  PROVE  \A l \in Levels : \A q : Leaves(skipNext, c, p, l, q) => FindPrev(t)[l] = Spot(c, q)
<1> DEFINE Q(l) == CHOOSE q : Leaves(skipNext, c, p, l, q)
           top == MaxHeight - 1
           G(f) == [d \in Levels |-> Along(top - d, t)[IF d = 0 THEN SkipHead ELSE f[d - 1]]]
           w == [d \in Levels |-> Spot(c, Q(top - d))]
           a == CHOOSE f : f = G(f)
<1>1. p \in Nat /\ Len(c) \in Nat /\ p <= Len(c)
  BY Spots DEF Below
<1>2. \A l \in Levels : Leaves(skipNext, c, p, l, Q(l))
  BY <1>1, LeavesIs
<1> HIDE DEF Q
<1>3. top \in Nat /\ Levels = 0 .. top
  BY SkipAssumption DEF Levels
<1>4. \A d \in Levels : top - d \in Levels
  BY <1>3
<1>5. ASSUME NEW d \in Levels
      PROVE  Along(top - d, t)[IF d = 0 THEN SkipHead ELSE Spot(c, Q(top - (d - 1)))] = Spot(c, Q(top - d))
  <2> DEFINE l == top - d
             i == IF d = 0 THEN 0 ELSE Q(l + 1)
  <2>1. l \in Levels /\ Leaves(skipNext, c, p, l, Q(l))
    BY <1>2, <1>4
  <2>2. i \in 0 .. Q(l) /\ Tall(skipNext, c, i, l)
    <3>1. CASE d = 0
      BY <1>1, <2>1, <3>1 DEF Leaves, Tall
    <3>2. CASE d # 0
      <4>1. l + 1 \in Levels /\ l <= l + 1 /\ i = Q(l + 1)
        BY <1>3, <3>2
      <4>2. Leaves(skipNext, c, p, l + 1, i)
        BY <1>2, <4>1
      <4>3. i \in 0 .. p /\ i \in 0 .. Len(c) + 1
        BY <1>1, <4>2 DEF Leaves
      <4>4. Tall(skipNext, c, i, l)
        BY <2>1, <4>1, <4>2, <4>3, Spots DEF Leaves
      <4>5. i <= Q(l)
        <5> HIDE DEF i, l
        <5> QED BY <1>1, <2>1, <4>3, <4>4 DEF Leaves
      <4> QED BY <1>1, <2>1, <4>3, <4>4, <4>5 DEF Leaves
    <3> QED BY <3>1, <3>2
  <2>3. Along(l, t)[Spot(c, i)] = Spot(c, Q(l))
    <3> HIDE DEF i, l
    <3> QED BY <2>1, <2>2, AlongIs
  <2>4. Spot(c, i) = IF d = 0 THEN SkipHead ELSE Spot(c, Q(l + 1))
    BY DEF Spot
  <2>5. top - (d - 1) = l + 1
    BY <1>3
  <2> QED BY <2>3, <2>4, <2>5
<1>6. w = G(w)
  <2>1. ASSUME NEW d \in Levels, d # 0 PROVE w[d - 1] = Spot(c, Q(top - (d - 1)))
    <3>1. d - 1 \in Levels
      BY <1>3, <2>1
    <3> QED BY <3>1
  <2>2. ASSUME NEW d \in Levels PROVE w[d] = Along(top - d, t)[IF d = 0 THEN SkipHead ELSE w[d - 1]]
    BY <1>5, <2>1, SMTT(30)
  <2> QED BY <2>2
<1>7. a = G(a)
  <2> HIDE DEF w
  <2> QED BY <1>6
<1>8. FindPrev(t) = [l \in Levels |-> a[top - l]]
  BY DEF FindPrev
<1> HIDE DEF a, w
<1>9. \A d \in Levels : a[d] = Along(top - d, t)[IF d = 0 THEN SkipHead ELSE a[d - 1]]
  BY <1>7
<1> DEFINE T == {d \in 0 .. top : a[d] = Spot(c, Q(top - d))}
<1>10. 0 \in T
  BY <1>3, <1>5, <1>9
<1>11. ASSUME NEW d \in 1 .. top, d - 1 \in T PROVE d \in T
  <2>1. d \in Levels /\ d # 0 /\ a[d - 1] = Spot(c, Q(top - (d - 1)))
    BY <1>3, <1>11
  <2> HIDE DEF top
  <2>2. a[d] = Spot(c, Q(top - d))
    BY <1>5, <1>9, <2>1
  <2> QED BY <1>3, <2>1, <2>2
<1>12. \A d \in 0 .. top : d \in T
  <2> HIDE DEF T, top
  <2> QED BY <1>3, <1>10, <1>11, ByInduction
<1>13. ASSUME NEW l \in Levels, NEW q, Leaves(skipNext, c, p, l, q) PROVE FindPrev(t)[l] = Spot(c, q)
  <2>1. q = Q(l)
    BY <1>1, <1>2, <1>13 DEF Leaves
  <2>2. top - l \in 0 .. top /\ top - (top - l) = l
    BY <1>3
  <2> QED BY <1>8, <1>12, <2>1, <2>2
<1> QED BY <1>13

\* The first node that is not below the target.
LEMMA FoundIs ==
  ASSUME NEW c, Skips(skipNext, skipVal, c), NEW t \in Int, NEW p, Below(skipVal, c, t, p)
  PROVE  /\ FindEqualOrGreater(t) = Spot(c, p + 1)
         /\ search(t) <=> (p + 1 <= Len(c) /\ skipVal[c[p + 1]] = t)
<1>1. /\ p \in Nat /\ Len(c) \in Nat /\ p \in 0 .. Len(c) /\ p + 1 \in 0 .. Len(c) + 1
      /\ 0 \in Levels
  BY Spots, SkipAssumption DEF Below, Levels
<1>2. Leaves(skipNext, c, p, 0, p)
  BY <1>1, Spots DEF Leaves
<1>3. FindPrev(t)[0] = Spot(c, p)
  BY <1>1, <1>2, PrevIs
<1>4. PICK j \in 1 .. Len(c) + 1 : Leap(skipNext, c, p, j, 0) /\ skipNext[Spot(c, p)][0] = Spot(c, j)
  BY <1>1, <1>2 DEF Skips, Leaves
<1>5. j = p + 1
  <2>1. p < j /\ ~(p + 1 \in p + 1 .. j - 1)
    BY <1>1, <1>4, Spots DEF Leap
  <2> QED BY <1>1, <2>1
<1>6. FindEqualOrGreater(t) = Spot(c, p + 1)
  BY <1>3, <1>4, <1>5 DEF FindEqualOrGreater
<1>7. Spot(c, p + 1) # End <=> p + 1 <= Len(c)
  BY <1>1, Spots
<1>8. p + 1 <= Len(c) => Spot(c, p + 1) = c[p + 1]
  BY <1>1 DEF Spot
<1> QED BY <1>6, <1>7, <1>8 DEF search
LEMMA UsedCounts ==
  ASSUME NEW nx, NEW vals, NEW c, Skips(nx, vals, c)
  PROVE  IsFiniteSet(DOMAIN vals) /\ Cardinality(DOMAIN vals) = Len(c)
<1>1. c \in Seq(SkipNodes) /\ Distinct(c)
  BY DEF Skips, Distinct
<1>2. DOMAIN vals = {x \in SkipNodes : In(c, x)}
  BY <1>1 DEF Skips, In
<1> QED BY <1>1, <1>2, DistinctCounts

LEMMA SkipStarts == SkipInit => SkipInv
<1> SUFFICES ASSUME SkipInit PROVE SkipInv
  OBVIOUS
<1> DEFINE c == << >>
<1>1. c \in Seq(SkipNodes) /\ Len(c) = 0 /\ 1 .. Len(c) = {} /\ DOMAIN skipVal = {}
  BY DEF SkipInit
<1>2. DOMAIN skipNext = {SkipHead} /\ skipNext[SkipHead] = [l \in Levels |-> End]
  BY DEF SkipInit
<1>3. ASSUME NEW i \in 0 .. Len(c), NEW l \in Levels
      PROVE  \E j \in 1 .. Len(c) + 1 :
               Leap(skipNext, c, i, j, l) /\ skipNext[Spot(c, i)][l] = Spot(c, j)
  <2>1. i = 0 /\ 1 \in 1 .. Len(c) + 1 /\ i + 1 .. 1 - 1 = {}
    BY <1>1
  <2>2. Leap(skipNext, c, i, 1, l)
    BY <1>1, <2>1 DEF Leap, Tall
  <2>3. Spot(c, i) = SkipHead /\ Spot(c, 1) = End
    BY <1>1, <2>1 DEF Spot
  <2> QED BY <1>2, <2>1, <2>2, <2>3
<1> HIDE DEF c
<1>4. Skips(skipNext, skipVal, c)
  BY <1>1, <1>2, <1>3 DEF Skips
<1>5. ASSUME NEW v \in SkipVals PROVE Cardinality({n \in DOMAIN skipVal : skipVal[n] = v}) = held[v]
  <2>1. {n \in DOMAIN skipVal : skipVal[n] = v} = {}
    BY <1>1
  <2> QED BY <2>1, FS_EmptySet DEF SkipInit
<1>6. held \in [SkipVals -> Nat]
  BY DEF SkipInit
<1> QED BY <1>4, <1>5, <1>6 DEF SkipInv

\* The place of spot i after a new one behind the first p.
Past(p, i) == IF i <= p THEN i ELSE i + 1

\* On each level prev has the last node as high among the first p.
Leading(prev, nx, c, p) == \A l \in Levels : \A q : Leaves(nx, c, p, l, q) => prev[l] = Spot(c, q)

\* The links with a new node n of height h behind prev, and those without g.
Linking(ny, nx, prev, n, h) ==
  /\ DOMAIN ny = DOMAIN nx \cup {n}
  /\ ny[n] = [l \in 0 .. h - 1 |-> nx[prev[l]][l]]
  /\ \A m \in DOMAIN nx :
       ny[m] = [l \in DOMAIN nx[m] |-> IF l < h /\ m = prev[l] THEN n ELSE nx[m][l]]

Unlinking(ny, nx, prev, g) ==
  /\ DOMAIN ny = DOMAIN nx \ {g}
  /\ \A m \in DOMAIN nx \ {g} :
       ny[m] = [l \in DOMAIN nx[m] |->
                  IF l \in DOMAIN nx[g] /\ m = prev[l] THEN nx[g][l] ELSE nx[m][l]]

\* A new node n of height h behind the first p, which the last nodes as high lead to.
LEMMA AddLinks ==
  ASSUME NEW nx, NEW vals, NEW c, Skips(nx, vals, c),
         NEW num \in SkipVals, NEW p, Below(vals, c, num, p),
         NEW h \in 1 .. MaxHeight, NEW n \in SkipNodes, n \notin DOMAIN nx,
         NEW prev, Leading(prev, nx, c, p), NEW ny, Linking(ny, nx, prev, n, h),
         NEW ws, ws = [m \in DOMAIN vals \cup {n} |-> IF m = n THEN num ELSE vals[m]]
  PROVE  \E d : Skips(ny, ws, d)
<1> DEFINE N == Len(c)
           d == [i \in 1 .. N + 1 |-> IF i <= p THEN c[i] ELSE IF i = p + 1 THEN n ELSE c[i - 1]]
<1>0. /\ \A l \in Levels : \A q : Leaves(nx, c, p, l, q) => prev[l] = Spot(c, q)
      /\ DOMAIN ny = DOMAIN nx \cup {n} /\ ny[n] = [l \in 0 .. h - 1 |-> nx[prev[l]][l]]
      /\ \A m \in DOMAIN nx :
           ny[m] = [l \in DOMAIN nx[m] |-> IF l < h /\ m = prev[l] THEN n ELSE nx[m][l]]
  BY DEF Leading, Linking
<1> USE <1>0
<1>1. /\ N \in Nat /\ p \in 0 .. N /\ p \in Nat /\ MaxHeight \in Nat /\ h \in Nat
      /\ Levels = 0 .. MaxHeight - 1 /\ c \in Seq(SkipNodes)
  BY Spots, SkipAssumption DEF Below, Levels, Skips
<1>2. /\ d \in Seq(SkipNodes) /\ Len(d) = N + 1 /\ d[p + 1] = n
      /\ \A i \in 1 .. N + 1 : d[i] = IF i <= p THEN c[i] ELSE IF i = p + 1 THEN n ELSE c[i - 1]
  <2>1. \A i \in 1 .. N + 1 : (IF i <= p THEN c[i] ELSE IF i = p + 1 THEN n ELSE c[i - 1]) \in SkipNodes
    BY <1>1
  <2>2. d \in [1 .. N + 1 -> SkipNodes]
    BY <2>1
  <2> QED BY <1>1, <2>2
<1> HIDE DEF d
<1>3. \A i \in 0 .. N + 1 : Past(p, i) \in 0 .. N + 2 /\ Past(p, i) # p + 1
  BY <1>1 DEF Past
<1>4. ASSUME NEW e \in 0 .. N + 2, e # p + 1
      PROVE  \E i \in 0 .. N + 1 : e = Past(p, i) /\ (e <= N + 1 => i <= N) /\ (e >= 1 => i >= 1)
  <2>1. CASE e <= p
    <3>1. e \in 0 .. N + 1 /\ e = Past(p, e) /\ e <= N /\ (e >= 1 => e >= 1)
      BY <1>1, <2>1 DEF Past
    <3> QED BY <3>1
  <2>2. CASE ~(e <= p)
    <3>1. e - 1 \in 0 .. N + 1 /\ ~(e - 1 <= p) /\ e - 1 + 1 = e /\ e - 1 >= 1
      BY <1>1, <1>4, <2>2
    <3>2. e = Past(p, e - 1) /\ (e <= N + 1 => e - 1 <= N) /\ (e >= 1 => e - 1 >= 1)
      BY <1>1, <3>1 DEF Past
    <3> QED BY <3>1, <3>2
  <2> QED BY <2>1, <2>2
<1>5. \A i \in 1 .. N : Past(p, i) \in 1 .. N + 1 /\ d[Past(p, i)] = c[i]
  <2> TAKE i \in 1 .. N
  <2>1. CASE i <= p
    BY <1>1, <1>2, <2>1 DEF Past
  <2>2. CASE ~(i <= p)
    <3>1. i + 1 \in 1 .. N + 1 /\ ~(i + 1 <= p) /\ i + 1 # p + 1 /\ i + 1 - 1 = i
      BY <1>1, <2>2
    <3> QED BY <1>2, <2>2, <3>1 DEF Past
  <2> QED BY <2>1, <2>2
<1>6. \A i \in 0 .. N + 1 : Spot(d, Past(p, i)) = Spot(c, i)
  <2> TAKE i \in 0 .. N + 1
  <2>1. CASE i = 0
    BY <1>1, <2>1 DEF Spot, Past
  <2>2. CASE i \in 1 .. N
    <3>1. Past(p, i) \in 1 .. Len(d) /\ Past(p, i) # 0 /\ i # 0
      BY <1>2, <1>5, <2>2
    <3> QED BY <1>5, <2>2, <3>1 DEF Spot
  <2>3. CASE i = N + 1
    <3>1. Past(p, i) = N + 2 /\ N + 2 # 0 /\ N + 2 \notin 1 .. Len(d) /\ i # 0 /\ i \notin 1 .. N
      BY <1>1, <1>2, <2>3 DEF Past
    <3> QED BY <3>1 DEF Spot
  <2> QED BY <1>1, <2>1, <2>2, <2>3
<1>7. Spot(d, p + 1) = n
  BY <1>1, <1>2 DEF Spot
<1>8. /\ \A m \in DOMAIN nx : DOMAIN ny[m] = DOMAIN nx[m] /\ m # n
      /\ DOMAIN ny[n] = 0 .. h - 1
  OBVIOUS
<1>9. ASSUME NEW i \in 0 .. N + 1, NEW l
      PROVE  Tall(ny, d, Past(p, i), l) <=> Tall(nx, c, i, l)
  <2>1. CASE i \in 1 .. N
    <3>1. c[i] \in DOMAIN nx /\ Past(p, i) \in 1 .. Len(d)
      BY <1>2, <1>5, <2>1 DEF Skips
    <3> QED BY <1>5, <1>8, <2>1, <3>1 DEF Tall
  <2>2. CASE i \notin 1 .. N
    <3>1. Past(p, i) \notin 1 .. Len(d)
      BY <1>1, <1>2, <2>2 DEF Past
    <3> QED BY <2>2, <3>1 DEF Tall
  <2> QED BY <2>1, <2>2
<1>10. ASSUME NEW l \in Levels PROVE Tall(ny, d, p + 1, l) <=> l < h
  <2>1. p + 1 \in 1 .. Len(d) /\ l \in Nat
    BY <1>1, <1>2
  <2> QED BY <1>1, <1>2, <1>8, <2>1 DEF Tall
<1>11. ASSUME NEW i \in 0 .. N, NEW j \in 1 .. N + 1, NEW l \in Levels, Leap(nx, c, i, j, l),
              i > p \/ j <= p \/ ~(l < h)
       PROVE  Leap(ny, d, Past(p, i), Past(p, j), l)
  <2>1. i < j /\ Tall(nx, c, j, l) /\ \A k \in i + 1 .. j - 1 : ~Tall(nx, c, k, l)
    BY <1>11 DEF Leap
  <2>2. Past(p, i) < Past(p, j)
    BY <1>1, <2>1 DEF Past
  <2>3. Tall(ny, d, Past(p, j), l)
    BY <1>1, <1>9, <2>1
  <2>4. ASSUME NEW k \in Past(p, i) + 1 .. Past(p, j) - 1 PROVE ~Tall(ny, d, k, l)
    <3>1. k \in 0 .. N + 2 /\ k >= 1
      BY <1>1 DEF Past
    <3>2. CASE k = p + 1
      <4>1. i <= p /\ ~(j <= p)
        BY <1>1, <3>2 DEF Past
      <4> QED BY <1>1, <1>10, <1>11, <3>2, <4>1
    <3>3. CASE k # p + 1
      <4>1. PICK e \in 0 .. N + 1 : k = Past(p, e)
        BY <1>4, <3>1, <3>3
      <4>2. e \in i + 1 .. j - 1
        BY <1>1, <4>1 DEF Past
      <4> QED BY <1>9, <2>1, <4>1, <4>2
    <3> QED BY <3>2, <3>3
  <2> QED BY <2>2, <2>3, <2>4 DEF Leap
<1>12. ASSUME NEW l \in Levels, NEW q, Leaves(nx, c, p, l, q)
       PROVE  /\ q \in 0 .. N /\ prev[l] = Spot(c, q) /\ Past(p, q) = q
              /\ l < h => Leap(ny, d, q, p + 1, l)
              /\ \A j \in 1 .. N + 1 : Leap(nx, c, q, j, l) => Leap(ny, d, p + 1, Past(p, j), l)
  <2>1. q \in 0 .. p /\ Tall(nx, c, q, l) /\ \A k \in q + 1 .. p : ~Tall(nx, c, k, l)
    BY <1>12 DEF Leaves
  <2>2. q \in 0 .. N /\ prev[l] = Spot(c, q) /\ Past(p, q) = q
    BY <1>1, <1>12, <2>1 DEF Past
  <2>3. ASSUME NEW k \in q + 1 .. p PROVE ~Tall(ny, d, k, l)
    <3>1. k \in 0 .. N + 1 /\ Past(p, k) = k
      BY <1>1, <2>1 DEF Past
    <3> QED BY <1>9, <2>1, <3>1
  <2>4. ASSUME l < h PROVE Leap(ny, d, q, p + 1, l)
    <3>1. q < p + 1 /\ \A k \in q + 1 .. (p + 1) - 1 : k \in q + 1 .. p
      BY <1>1, <2>1
    <3>2. \A k \in q + 1 .. (p + 1) - 1 : ~Tall(ny, d, k, l)
      BY <2>3, <3>1
    <3>3. Tall(ny, d, p + 1, l)
      BY <1>10, <2>4
    <3>4. q < p + 1
      BY <3>1
    <3> QED BY <3>2, <3>3, <3>4, Zenon DEF Leap
  <2>5. ASSUME NEW j \in 1 .. N + 1, Leap(nx, c, q, j, l)
        PROVE  Leap(ny, d, p + 1, Past(p, j), l)
    <3>1. q < j /\ Tall(nx, c, j, l) /\ \A k \in q + 1 .. j - 1 : ~Tall(nx, c, k, l)
      BY <2>5 DEF Leap
    <3>2. j > p
      <4>1. j <= p => j \in q + 1 .. p
        BY <1>1, <2>1, <3>1
      <4> QED BY <1>1, <2>1, <3>1, <4>1
    <3>3. Past(p, j) = j + 1 /\ p + 1 < j + 1
      BY <1>1, <3>2 DEF Past
    <3>4. Tall(ny, d, Past(p, j), l)
      BY <1>1, <1>9, <3>1
    <3>5. ASSUME NEW k \in p + 1 + 1 .. j + 1 - 1 PROVE ~Tall(ny, d, k, l)
      <4>1. k - 1 \in 0 .. N + 1 /\ k - 1 \in q + 1 .. j - 1 /\ Past(p, k - 1) = k
        BY <1>1, <2>1 DEF Past
      <4> QED BY <1>9, <3>1, <4>1
    <3> QED BY <3>3, <3>4, <3>5 DEF Leap
  <2> QED BY <2>2, <2>4, <2>5
<1>13. ASSUME NEW i \in 0 .. N, NEW l \in Levels, Tall(nx, c, i, l)
       PROVE  \E j \in 1 .. N + 1 : Leap(nx, c, i, j, l) /\ nx[Spot(c, i)][l] = Spot(c, j)
  <2> DEFINE After(e, k) == \E j \in 1 .. Len(c) + 1 :
                              Leap(nx, c, e, j, k) /\ nx[Spot(c, e)][k] = Spot(c, j)
  <2>1. \A e \in 0 .. Len(c), k \in Levels : Tall(nx, c, e, k) => After(e, k)
    BY Zenon DEF Skips
  <2>2. After(i, l)
    <3> HIDE DEF After
    <3> QED BY <1>13, <2>1
  <2> QED BY <2>2, Zenon
<1>14. ASSUME NEW e \in 0 .. N + 1, NEW l \in Levels, Tall(ny, d, e, l)
       PROVE  \E f \in 1 .. N + 2 : Leap(ny, d, e, f, l) /\ ny[Spot(d, e)][l] = Spot(d, f)
  <2>1. PICK q : Leaves(nx, c, p, l, q)
    BY <1>1, LeavesIs
  <2>2. q \in 0 .. N /\ q \in 0 .. p /\ Tall(nx, c, q, l) /\ \A k \in q + 1 .. p : ~Tall(nx, c, k, l)
    BY <1>12, <2>1 DEF Leaves
  <2>3. CASE e = p + 1
    <3>1. l < h /\ l \in 0 .. h - 1
      BY <1>1, <1>10, <1>14, <2>3
    <3>2. PICK j \in 1 .. N + 1 : Leap(nx, c, q, j, l) /\ nx[Spot(c, q)][l] = Spot(c, j)
      BY <1>13, <2>2
    <3>3. ny[Spot(d, e)][l] = Spot(c, j)
      BY <1>7, <1>12, <2>1, <2>3, <3>1, <3>2
    <3>4. Leap(ny, d, e, Past(p, j), l) /\ Spot(d, Past(p, j)) = Spot(c, j) /\ Past(p, j) \in 1 .. N + 2
      <4>1. Leap(ny, d, p + 1, Past(p, j), l)
        BY <1>12, <2>1, <3>2
      <4>2. j \in 0 .. N + 1 /\ Past(p, j) \in 1 .. N + 2
        BY <1>1 DEF Past
      <4> QED BY <1>6, <2>3, <4>1, <4>2
    <3> QED BY <3>3, <3>4
  <2>4. CASE e # p + 1
    <3>1. PICK i \in 0 .. N : e = Past(p, i)
      BY <1>1, <1>4, <2>4
    <3>2. i \in 0 .. N + 1 /\ Tall(nx, c, i, l) /\ Spot(d, e) = Spot(c, i)
      BY <1>1, <1>6, <1>9, <1>14, <3>1
    <3>3. Spot(c, i) \in DOMAIN nx /\ l \in DOMAIN nx[Spot(c, i)]
      BY <3>1, <3>2, Spots
    <3>4. ny[Spot(d, e)][l] = IF l < h /\ Spot(c, i) = prev[l] THEN n ELSE nx[Spot(c, i)][l]
      BY <3>2, <3>3
    <3>5. Spot(c, i) = prev[l] <=> i = q
      <4>1. q \in 0 .. N + 1
        BY <1>1, <2>2
      <4> QED BY <1>12, <2>1, <3>2, <4>1, Spots
    <3>6. CASE l < h /\ i = q
      <4>1. ny[Spot(d, e)][l] = Spot(d, p + 1)
        BY <1>7, <3>4, <3>5, <3>6
      <4>2. Leap(ny, d, e, p + 1, l) /\ p + 1 \in 1 .. N + 2
        BY <1>1, <1>12, <2>1, <3>1, <3>6
      <4> QED BY <4>1, <4>2
    <3>7. CASE ~(l < h /\ i = q)
      <4>1. PICK j \in 1 .. N + 1 : Leap(nx, c, i, j, l) /\ nx[Spot(c, i)][l] = Spot(c, j)
        BY <1>13, <3>1, <3>2
      <4>2. i > p \/ j <= p \/ ~(l < h)
        <5> SUFFICES ASSUME i <= p, ~(j <= p), l < h PROVE FALSE
          BY <1>1, <3>1
        <5>1. \A k \in i + 1 .. j - 1 : ~Tall(nx, c, k, l)
          BY <4>1 DEF Leap
        <5>2. i < q => q \in i + 1 .. j - 1
          BY <1>1, <2>2, <3>1
        <5>3. q < i => i \in q + 1 .. p
          BY <1>1, <2>2, <3>1
        <5>4. i = q
          BY <1>1, <2>2, <3>1, <3>2, <5>1, <5>2, <5>3
        <5> QED BY <3>7, <5>4
      <4>3. Leap(ny, d, e, Past(p, j), l) /\ Past(p, j) \in 1 .. N + 2
        BY <1>1, <1>11, <3>1, <4>1, <4>2 DEF Past
      <4>4. ny[Spot(d, e)][l] = Spot(d, Past(p, j))
        BY <1>1, <1>6, <3>4, <3>5, <3>7, <4>1
      <4> QED BY <4>3, <4>4
    <3> QED BY <3>6, <3>7
  <2> QED BY <2>3, <2>4
<1>15. ASSUME NEW e \in 1 .. N + 1
       PROVE  \/ e = p + 1 /\ d[e] = n
              \/ \E i \in 1 .. N : e = Past(p, i) /\ d[e] = c[i] /\ e # p + 1
  <2>1. CASE e = p + 1
    BY <1>2, <2>1
  <2>2. CASE e # p + 1
    <3>1. PICK i \in 0 .. N + 1 : e = Past(p, i) /\ (e <= N + 1 => i <= N) /\ (e >= 1 => i >= 1)
      <4>1. e \in 0 .. N + 2
        BY <1>1
      <4> QED BY <1>4, <2>2, <4>1
    <3>2. i \in 1 .. N
      BY <1>1, <3>1
    <3> QED BY <1>5, <2>2, <3>1, <3>2
  <2> QED BY <2>1, <2>2
<1>16. \A i \in 1 .. N : c[i] \in DOMAIN nx /\ c[i] # n /\ c[i] \in DOMAIN vals
  BY DEF Skips
<1>17. ASSUME NEW e \in 1 .. N + 1, NEW f \in 1 .. N + 1, d[e] = d[f] PROVE e = f
  <2>1. \A i, j \in 1 .. N : c[i] = c[j] => i = j
    BY DEF Skips
  <2>2. CASE e = p + 1 /\ d[e] = n
    BY <1>15, <1>16, <1>17, <2>2
  <2>3. CASE \E i \in 1 .. N : e = Past(p, i) /\ d[e] = c[i]
    <3>1. PICK i \in 1 .. N : e = Past(p, i) /\ d[e] = c[i]
      BY <2>3
    <3>2. PICK j \in 1 .. N : f = Past(p, j) /\ d[f] = c[j]
      BY <1>15, <1>16, <1>17, <3>1
    <3>3. i = j
      BY <1>17, <2>1, <3>1, <3>2
    <3> QED BY <3>1, <3>2, <3>3
  <2> QED BY <1>15, <2>2, <2>3
<1>18. DOMAIN ws = {d[i] : i \in 1 .. N + 1}
  <2>1. \A i \in 1 .. N + 1 : d[i] \in DOMAIN ws
    BY <1>15, <1>16
  <2>2. p + 1 \in 1 .. N + 1
    BY <1>1
  <2>3. \A m \in DOMAIN vals : \E i \in 1 .. N + 1 : d[i] = m
    BY <1>5, SMTT(30) DEF Skips
  <2> QED BY <1>2, <2>1, <2>2, <2>3
<1>19. ws[n] = num /\ \A i \in 1 .. N : ws[c[i]] = vals[c[i]]
  BY <1>16
<1>20. /\ num \in Int /\ \A i \in 1 .. N : vals[c[i]] \in Int /\ vals[c[i]] \in SkipVals
       /\ \A i \in 1 .. N : vals[c[i]] < num <=> i <= p
  <2>1. \A i \in 1 .. N : vals[c[i]] \in SkipVals
    BY DEF Skips
  <2> QED BY <2>1, SkipAssumption DEF Below
<1>26. d[p + 1] = n /\ \A i, j \in 1 .. N : i <= j => vals[c[i]] <= vals[c[j]]
  BY <1>2 DEF Skips
<1>21. ASSUME NEW e \in 1 .. N + 1, NEW f \in 1 .. N + 1, e <= f PROVE ws[d[e]] <= ws[d[f]]
  <2>1. CASE e = p + 1
    <3>1. CASE f = p + 1
      BY <1>19, <1>20, <1>26, <2>1, <3>1
    <3>2. CASE f # p + 1
      <4>1. PICK j \in 1 .. N : f = Past(p, j) /\ d[f] = c[j]
        BY <1>15, <3>2
      <4>2. ~(j <= p)
        BY <1>1, <1>21, <2>1, <4>1 DEF Past
      <4>3. ws[d[e]] = num /\ ws[d[f]] = vals[c[j]] /\ vals[c[j]] \in Int /\ ~(vals[c[j]] < num)
        BY <1>19, <1>20, <1>26, <2>1, <4>1, <4>2
      <4> QED BY <1>20, <4>3
    <3> QED BY <3>1, <3>2
  <2>2. CASE e # p + 1
    <3>1. PICK i \in 1 .. N : e = Past(p, i) /\ d[e] = c[i]
      BY <1>15, <2>2
    <3>2. CASE f = p + 1
      <4>1. i <= p
        BY <1>1, <1>21, <3>1, <3>2 DEF Past
      <4>2. ws[d[f]] = num /\ ws[d[e]] = vals[c[i]] /\ vals[c[i]] \in Int /\ vals[c[i]] < num
        BY <1>19, <1>20, <1>26, <3>1, <3>2, <4>1
      <4> QED BY <1>20, <4>2
    <3>3. CASE f # p + 1
      <4>1. PICK j \in 1 .. N : f = Past(p, j) /\ d[f] = c[j]
        BY <1>15, <3>3
      <4>2. i <= j
        BY <1>1, <1>21, <3>1, <4>1 DEF Past
      <4>3. ws[d[e]] = vals[c[i]] /\ ws[d[f]] = vals[c[j]]
        BY <1>19, <3>1, <4>1
      <4> QED BY <1>26, <4>2, <4>3
    <3> QED BY <3>2, <3>3
  <2> QED BY <2>1, <2>2
<1>22. ASSUME NEW e \in 1 .. N + 1
       PROVE  ws[d[e]] \in SkipVals /\ \E g \in 1 .. MaxHeight : DOMAIN ny[d[e]] = 0 .. g - 1
  <2>1. CASE e = p + 1
    BY <1>2, <1>8, <1>19, <2>1
  <2>2. CASE e # p + 1
    <3>1. PICK i \in 1 .. N : d[e] = c[i]
      BY <1>15, <2>2
    <3>2. \E g \in 1 .. MaxHeight : DOMAIN nx[c[i]] = 0 .. g - 1
      BY DEF Skips
    <3>3. DOMAIN ny[d[e]] = DOMAIN nx[c[i]]
      BY <1>8, <1>16, <3>1
    <3> QED BY <1>19, <1>20, <3>1, <3>2, <3>3
  <2> QED BY <2>1, <2>2
<1>23. DOMAIN ny = DOMAIN ws \cup {SkipHead} /\ DOMAIN ny[SkipHead] = Levels
  BY <1>8 DEF Skips
<1>24. Len(d) = N + 1 /\ Len(d) + 1 = N + 2 /\ d \in Seq(SkipNodes)
  BY <1>1, <1>2
<1> HIDE DEF N
<1>25. Skips(ny, ws, d)
  <2>1. \A e \in 0 .. Len(d), l \in Levels :
          Tall(ny, d, e, l) =>
            \E f \in 1 .. Len(d) + 1 : Leap(ny, d, e, f, l) /\ ny[Spot(d, e)][l] = Spot(d, f)
    BY <1>14, <1>24
  <2>2. /\ \A i, j \in 1 .. Len(d) : d[i] = d[j] => i = j
        /\ \A i, j \in 1 .. Len(d) : i <= j => ws[d[i]] <= ws[d[j]]
        /\ \A i \in 1 .. Len(d) : ws[d[i]] \in SkipVals
        /\ \A i \in 1 .. Len(d) : \E g \in 1 .. MaxHeight : DOMAIN ny[d[i]] = 0 .. g - 1
    BY <1>17, <1>21, <1>22, <1>24
  <2>3. DOMAIN ws = {d[i] : i \in 1 .. Len(d)}
    BY <1>18, <1>24
  <2> QED BY <1>23, <1>24, <2>1, <2>2, <2>3, Zenon DEF Skips
<1> QED BY <1>25
\* The first node that is not below num goes, and those before it lead past it.
LEMMA EraseLinks ==
  ASSUME NEW nx, NEW vals, NEW c, Skips(nx, vals, c),
         NEW num \in Int, NEW p, Below(vals, c, num, p), p + 1 <= Len(c),
         NEW g, g = c[p + 1],
         NEW prev, Leading(prev, nx, c, p), NEW ny, Unlinking(ny, nx, prev, g),
         NEW ws, ws = [m \in DOMAIN vals \ {g} |-> vals[m]]
  PROVE  \E d : Skips(ny, ws, d)
<1> DEFINE N == Len(c)
           d == Cut(c, p + 1)
<1>0. /\ \A l \in Levels : \A q : Leaves(nx, c, p, l, q) => prev[l] = Spot(c, q)
      /\ DOMAIN ny = DOMAIN nx \ {g}
      /\ \A m \in DOMAIN nx \ {g} :
           ny[m] = [l \in DOMAIN nx[m] |->
                      IF l \in DOMAIN nx[g] /\ m = prev[l] THEN nx[g][l] ELSE nx[m][l]]
  BY DEF Leading, Unlinking
<1>1. /\ N \in Nat /\ p \in 0 .. N /\ p \in Nat /\ p + 1 \in 1 .. N
      /\ MaxHeight \in Nat /\ Levels = 0 .. MaxHeight - 1 /\ c \in Seq(SkipNodes)
  BY Spots, SkipAssumption DEF Below, Levels, Skips
<1>2. /\ d \in Seq(SkipNodes) /\ Len(d) = N - 1
      /\ \A j \in 1 .. N - 1 : d[j] = IF j < p + 1 THEN c[j] ELSE c[j + 1]
  <2>1. p + 1 \in 1 .. Len(c) /\ c \in Seq(SkipNodes)
    BY <1>1
  <2>2. /\ Len(Cut(c, p + 1)) = N - 1 /\ Cut(c, p + 1) \in Seq(SkipNodes)
        /\ \A j \in 1 .. N - 1 : Cut(c, p + 1)[j] = IF j < p + 1 THEN c[j] ELSE c[j + 1]
        /\ RemoveAt(c, p + 1) = Cut(c, p + 1)
    BY <2>1, RemoveAtIs
  <2> QED BY <2>2
<1> HIDE DEF d
<1> USE <1>0
<1>3. \A e \in 0 .. N : Past(p, e) \in 0 .. N + 1 /\ Past(p, e) # p + 1
  BY <1>1 DEF Past
<1>4. ASSUME NEW i \in 0 .. N + 1, i # p + 1
      PROVE  \E e \in 0 .. N : i = Past(p, e)
  <2>1. CASE i <= p
    BY <1>1, <2>1 DEF Past
  <2>2. CASE ~(i <= p)
    <3>1. i - 1 \in 0 .. N /\ ~(i - 1 <= p) /\ i - 1 + 1 = i
      BY <1>1, <1>4, <2>2
    <3> QED BY <1>1, <2>2, <3>1 DEF Past
  <2> QED BY <2>1, <2>2
<1>5. \A e \in 1 .. N - 1 : /\ Past(p, e) \in 1 .. N /\ Past(p, e) # p + 1
                            /\ d[e] = c[Past(p, e)]
  <2> TAKE e \in 1 .. N - 1
  <2>1. CASE e <= p
    <3>1. e \in 1 .. N /\ e # p + 1 /\ e < p + 1 /\ Past(p, e) = e
      BY <1>1, <2>1 DEF Past
    <3>2. d[e] = c[e]
      BY <1>2, <3>1
    <3> QED BY <3>1, <3>2
  <2>2. CASE ~(e <= p)
    <3>1. ~(e < p + 1) /\ e + 1 \in 1 .. N /\ e + 1 # p + 1 /\ Past(p, e) = e + 1
      BY <1>1, <2>2 DEF Past
    <3>2. d[e] = c[e + 1]
      BY <1>2, <3>1
    <3> QED BY <3>1, <3>2
  <2> QED BY <2>1, <2>2
<1>6. \A e \in 0 .. N : Spot(d, e) = Spot(c, Past(p, e))
  <2> TAKE e \in 0 .. N
  <2>1. CASE e = 0
    BY <1>1, <2>1 DEF Spot, Past
  <2>2. CASE e \in 1 .. N - 1
    <3>1. Past(p, e) \in 1 .. N /\ Past(p, e) # 0 /\ e # 0 /\ e \in 1 .. Len(d)
      BY <1>2, <1>5, <2>2
    <3> QED BY <1>5, <2>2, <3>1 DEF Spot
  <2>3. CASE e = N
    <3>1. Past(p, e) = N + 1 /\ e # 0 /\ e \notin 1 .. Len(d) /\ N + 1 \notin 1 .. N /\ N + 1 # 0
      BY <1>1, <1>2, <2>3 DEF Past
    <3> QED BY <3>1 DEF Spot
  <2> QED BY <1>1, <2>1, <2>2, <2>3
<1>7. \A i, j \in 1 .. N : c[i] = c[j] => i = j
  BY DEF Skips
<1>8. \A i \in 1 .. N : i # p + 1 => c[i] \in DOMAIN nx \ {g} /\ c[i] \in DOMAIN vals \ {g}
  BY <1>1, <1>7 DEF Skips
<1>9. \A m \in DOMAIN nx \ {g} : DOMAIN ny[m] = DOMAIN nx[m]
  OBVIOUS
<1>10. ASSUME NEW e \in 0 .. N, NEW l
       PROVE  Tall(ny, d, e, l) <=> Tall(nx, c, Past(p, e), l)
  <2>1. CASE e \in 1 .. N - 1
    <3>1. c[Past(p, e)] \in DOMAIN nx \ {g} /\ e \in 1 .. Len(d) /\ Past(p, e) \in 1 .. N
      BY <1>2, <1>5, <1>8, <2>1
    <3> QED BY <1>5, <1>9, <2>1, <3>1 DEF Tall
  <2>2. CASE e \notin 1 .. N - 1
    <3>1. e \notin 1 .. Len(d) /\ Past(p, e) \notin 1 .. N
      BY <1>1, <1>2, <2>2 DEF Past
    <3> QED BY <3>1 DEF Tall
  <2> QED BY <2>1, <2>2
<1>11. ASSUME NEW e \in 0 .. N, NEW f \in 0 .. N, NEW l, Past(p, e) < Past(p, f),
              Tall(nx, c, Past(p, f), l),
              \A k \in Past(p, e) + 1 .. Past(p, f) - 1 : k # p + 1 => ~Tall(nx, c, k, l)
       PROVE  Leap(ny, d, e, f, l)
  <2>1. e < f
    BY <1>1, <1>11 DEF Past
  <2>2. ASSUME NEW k \in e + 1 .. f - 1 PROVE ~Tall(ny, d, k, l)
    <3>1. /\ k \in 0 .. N /\ Past(p, k) \in Past(p, e) + 1 .. Past(p, f) - 1
          /\ Past(p, k) # p + 1
      BY <1>1 DEF Past
    <3> QED BY <1>10, <1>11, <3>1
  <2> QED BY <1>10, <1>11, <2>1, <2>2 DEF Leap
<1>12. ASSUME NEW i \in 0 .. N, NEW l \in Levels, Tall(nx, c, i, l)
       PROVE  \E j \in 1 .. N + 1 : /\ i < j /\ Tall(nx, c, j, l) /\ nx[Spot(c, i)][l] = Spot(c, j)
                                    /\ \A k \in i + 1 .. j - 1 : ~Tall(nx, c, k, l)
  BY <1>12 DEF Skips, Leap
<1>13. Spot(c, p + 1) = g
  BY <1>1 DEF Spot
<1>14. ASSUME NEW e \in 0 .. N - 1, NEW l \in Levels, Tall(ny, d, e, l)
       PROVE  \E f \in 1 .. N : Leap(ny, d, e, f, l) /\ ny[Spot(d, e)][l] = Spot(d, f)
  <2> DEFINE i == Past(p, e)
  <2>1. /\ i \in 0 .. N /\ i # p + 1 /\ Tall(nx, c, i, l) /\ Spot(d, e) = Spot(c, i) /\ e \in 0 .. N
        /\ i <= p => i = e
    <3>1. i \in 0 .. N /\ i # p + 1 /\ e \in 0 .. N /\ (i <= p => i = e)
      BY <1>1 DEF Past
    <3> QED BY <1>6, <1>10, <1>14, <3>1
  <2> HIDE DEF i
  <2>2. PICK q : Leaves(nx, c, p, l, q)
    BY <1>1, LeavesIs
  <2>3. /\ q \in 0 .. p /\ q \in 0 .. N + 1 /\ Tall(nx, c, q, l) /\ \A k \in q + 1 .. p : ~Tall(nx, c, k, l)
        /\ prev[l] = Spot(c, q)
    BY <1>1, <2>2 DEF Leaves
  <2>4. l \in DOMAIN nx[g] <=> Tall(nx, c, p + 1, l)
    BY <1>1 DEF Tall
  <2>5. Spot(c, i) \in DOMAIN nx /\ l \in DOMAIN nx[Spot(c, i)] /\ Spot(c, i) # g
    <3>1. i \in 0 .. N + 1 /\ p + 1 \in 0 .. N + 1
      BY <1>1, <2>1
    <3> QED BY <1>13, <2>1, <3>1, Spots
  <2>6. Spot(c, i) = prev[l] <=> i = q
    <3>1. i \in 0 .. N + 1
      BY <1>1, <2>1
    <3> QED BY <2>3, <3>1, Spots
  <2>7. ny[Spot(d, e)][l] = IF Tall(nx, c, p + 1, l) /\ i = q THEN nx[g][l] ELSE nx[Spot(c, i)][l]
    <3> DEFINE m == Spot(c, i)
    <3>1. m \in DOMAIN nx \ {g} /\ l \in DOMAIN nx[m] /\ Spot(d, e) = m /\ (m = prev[l] <=> i = q)
      BY <2>1, <2>5, <2>6
    <3> HIDE DEF m
    <3>2. ny[m][l] = IF l \in DOMAIN nx[g] /\ m = prev[l] THEN nx[g][l] ELSE nx[m][l]
      <4>1. ny[m] = [k \in DOMAIN nx[m] |->
                       IF k \in DOMAIN nx[g] /\ m = prev[k] THEN nx[g][k] ELSE nx[m][k]]
        BY <1>0, <3>1
      <4> QED BY <3>1, <4>1
    <3>3. ny[m][l] = IF Tall(nx, c, p + 1, l) /\ i = q THEN nx[g][l] ELSE nx[m][l]
      BY <2>4, <3>1, <3>2
    <3> QED BY <3>1, <3>3 DEF m
  <2>8. PICK j \in 1 .. N + 1 : /\ i < j /\ Tall(nx, c, j, l) /\ nx[Spot(c, i)][l] = Spot(c, j)
                                /\ \A k \in i + 1 .. j - 1 : ~Tall(nx, c, k, l)
    BY <1>12, <2>1
  <2>9. CASE Tall(nx, c, p + 1, l) /\ i = q
    <3>1. PICK h \in 1 .. N + 1 : /\ p + 1 < h /\ Tall(nx, c, h, l) /\ nx[g][l] = Spot(c, h)
                                  /\ \A k \in p + 1 + 1 .. h - 1 : ~Tall(nx, c, k, l)
      <4>1. p + 1 \in 0 .. N
        BY <1>1
      <4> QED BY <1>12, <1>13, <2>9, <4>1
    <3>2. h - 1 \in 1 .. N /\ Past(p, h - 1) = h /\ h - 1 \in 0 .. N
      BY <1>1, <3>1 DEF Past
    <3>3. ASSUME NEW k \in i + 1 .. h - 1, k # p + 1 PROVE ~Tall(nx, c, k, l)
      <4>1. k \in q + 1 .. p \/ k \in p + 1 + 1 .. h - 1
        BY <1>1, <2>3, <2>9, <3>1, <3>3
      <4> QED BY <2>3, <3>1, <4>1
    <3>4. i < h
      BY <1>1, <2>3, <2>9, <3>1
    <3>5. Leap(ny, d, e, h - 1, l)
      BY <1>11, <2>1, <3>1, <3>2, <3>3, <3>4 DEF i
    <3>6. ny[Spot(d, e)][l] = Spot(d, h - 1)
      BY <1>6, <2>7, <2>9, <3>1, <3>2
    <3> QED BY <3>2, <3>5, <3>6
  <2>10. CASE ~(Tall(nx, c, p + 1, l) /\ i = q)
    <3>1. j # p + 1
      <4> SUFFICES ASSUME j = p + 1 PROVE FALSE
        OBVIOUS
      <4>1. i <= p /\ \A k \in i + 1 .. p : ~Tall(nx, c, k, l)
        <5>1. \A k \in i + 1 .. p : k \in i + 1 .. j - 1
          BY <1>1
        <5> QED BY <1>1, <2>1, <2>8, <5>1
      <4>2. i < q => q \in i + 1 .. p
        BY <1>1, <2>1, <2>3
      <4>3. q < i => i \in q + 1 .. p
        BY <1>1, <2>1, <2>3, <4>1
      <4>4. i = q
        BY <1>1, <2>1, <2>3, <4>1, <4>2, <4>3
      <4> QED BY <2>8, <2>10, <4>4
    <3>2. PICK f \in 0 .. N : j = Past(p, f)
      BY <1>1, <1>4, <3>1
    <3>3. f >= 1
      BY <1>1, <3>2 DEF Past
    <3>4. Leap(ny, d, e, f, l)
      BY <1>11, <2>1, <2>8, <3>2 DEF i
    <3>5. ny[Spot(d, e)][l] = Spot(d, f)
      BY <1>6, <2>7, <2>8, <2>10, <3>2
    <3> QED BY <3>3, <3>4, <3>5
  <2> QED BY <2>9, <2>10
<1>15. \A e, f \in 1 .. N - 1 : Past(p, e) = Past(p, f) => e = f
  BY <1>1 DEF Past
<1>16. \A e, f \in 1 .. N - 1 : e <= f => Past(p, e) <= Past(p, f)
  BY <1>1 DEF Past
<1>17. \A i, j \in 1 .. N : i <= j => vals[c[i]] <= vals[c[j]]
  BY DEF Skips
<1>18. \A e \in 1 .. N - 1 : d[e] \in DOMAIN ws /\ ws[d[e]] = vals[c[Past(p, e)]]
  BY <1>5, <1>8
<1>19. DOMAIN ws = {d[e] : e \in 1 .. N - 1}
  <2>1. ASSUME NEW m \in DOMAIN vals \ {g} PROVE \E e \in 1 .. N - 1 : d[e] = m
    <3>1. PICK i \in 1 .. N : c[i] = m
      BY DEF Skips
    <3>2. i \in 0 .. N + 1 /\ i # p + 1
      BY <1>1, <3>1
    <3>3. PICK e \in 0 .. N : i = Past(p, e)
      BY <1>4, <3>2
    <3>4. e \in 1 .. N - 1
      BY <1>1, <3>3 DEF Past
    <3> QED BY <1>5, <3>1, <3>3, <3>4
  <2>2. DOMAIN ws = DOMAIN vals \ {g}
    OBVIOUS
  <2>3. \A e \in 1 .. N - 1 : d[e] \in DOMAIN ws
    BY <1>18
  <2> HIDE DEF N
  <2> QED BY <2>1, <2>2, <2>3
<1>20. Len(d) = N - 1 /\ Len(d) + 1 = N /\ d \in Seq(SkipNodes)
  BY <1>1, <1>2
<1>21. /\ \A i, j \in 1 .. Len(d) : d[i] = d[j] => i = j
       /\ \A i, j \in 1 .. Len(d) : i <= j => ws[d[i]] <= ws[d[j]]
       /\ \A i \in 1 .. Len(d) : ws[d[i]] \in SkipVals
  <2>1. \A i \in 1 .. N : vals[c[i]] \in SkipVals
    BY DEF Skips
  <2>2. \A e \in 1 .. N - 1 : ws[d[e]] \in SkipVals
    BY <1>5, <1>18, <2>1
  <2>3. ASSUME NEW e \in 1 .. N - 1, NEW f \in 1 .. N - 1, d[e] = d[f] PROVE e = f
    <3>1. c[Past(p, e)] = c[Past(p, f)]
      <4>1. d[e] = c[Past(p, e)] /\ d[f] = c[Past(p, f)]
        BY <1>5
      <4> QED BY <2>3, <4>1
    <3>2. Past(p, e) = Past(p, f)
      <4>1. Past(p, e) \in 1 .. N /\ Past(p, f) \in 1 .. N
        BY <1>5
      <4> HIDE DEF N
      <4> QED BY <1>7, <3>1, <4>1
    <3> HIDE DEF N
    <3> QED BY <1>15, <3>2
  <2>4. ASSUME NEW e \in 1 .. N - 1, NEW f \in 1 .. N - 1, e <= f PROVE ws[d[e]] <= ws[d[f]]
    <3>1. /\ Past(p, e) \in 1 .. N /\ Past(p, f) \in 1 .. N /\ Past(p, e) <= Past(p, f)
          /\ ws[d[e]] = vals[c[Past(p, e)]] /\ ws[d[f]] = vals[c[Past(p, f)]]
      BY <1>5, <1>16, <1>18, <2>4
    <3>2. vals[c[Past(p, e)]] <= vals[c[Past(p, f)]]
      BY <1>17, <3>1
    <3> QED BY <3>1, <3>2
  <2> HIDE DEF N
  <2> QED BY <1>20, <2>2, <2>3, <2>4
<1>22. \A i \in 1 .. Len(d) : \E h \in 1 .. MaxHeight : DOMAIN ny[d[i]] = 0 .. h - 1
  <2> SUFFICES ASSUME NEW i \in 1 .. N - 1 PROVE \E h \in 1 .. MaxHeight : DOMAIN ny[d[i]] = 0 .. h - 1
    BY <1>20
  <2>1. PICK h \in 1 .. MaxHeight : DOMAIN nx[c[Past(p, i)]] = 0 .. h - 1
    BY <1>5 DEF Skips
  <2> QED BY <1>5, <1>8, <1>9, <2>1
<1>23. DOMAIN ny = DOMAIN ws \cup {SkipHead} /\ DOMAIN ny[SkipHead] = Levels
  <2>1. g # SkipHead
    BY <1>1, SkipAssumption
  <2> QED BY <1>9, <2>1 DEF Skips
<1>24. \A e \in 0 .. Len(d), l \in Levels :
         Tall(ny, d, e, l) =>
           \E f \in 1 .. Len(d) + 1 : Leap(ny, d, e, f, l) /\ ny[Spot(d, e)][l] = Spot(d, f)
  <2> HIDE DEF N
  <2> QED BY <1>14, <1>20
<1>25. DOMAIN ws = {d[i] : i \in 1 .. Len(d)}
  BY <1>19, <1>20
<1>26. Skips(ny, ws, d)
  BY <1>20, <1>21, <1>22, <1>23, <1>24, <1>25, Zenon DEF Skips
<1> QED BY <1>26

LEMMA SkipKept == SkipInv /\ [SkipNext]_skipVars => SkipInv'
<1> SUFFICES ASSUME SkipInv, [SkipNext]_skipVars PROVE SkipInv'
  OBVIOUS
<1>1. PICK c : Skips(skipNext, skipVal, c)
  BY DEF SkipInv
<1>2. /\ held \in [SkipVals -> Nat] /\ IsFiniteSet(DOMAIN skipVal)
      /\ \A v \in SkipVals : Cardinality({n \in DOMAIN skipVal : skipVal[n] = v}) = held[v]
  BY <1>1, UsedCounts DEF SkipInv
<1>3. \A v : IsFiniteSet({n \in DOMAIN skipVal : skipVal[n] = v})
  BY <1>2, FS_Subset
<1>4. CASE UNCHANGED skipVars
  BY <1>1, <1>2, <1>4 DEF skipVars, SkipInv
<1>5. ASSUME NEW num \in SkipVals, NEW h \in 1 .. MaxHeight, SkipAdd(num, h) PROVE SkipInv'
  <2> DEFINE n == CHOOSE n \in SkipNodes : n \notin DOMAIN skipNext
             prev == FindPrev(num)
  <2>1. n \in SkipNodes /\ n \notin DOMAIN skipNext
    BY <1>5 DEF SkipAdd
  <2>2. /\ skipVal' = [m \in DOMAIN skipVal \cup {n} |-> IF m = n THEN num ELSE skipVal[m]]
        /\ skipNext' = [m \in DOMAIN skipNext \cup {n} |->
                          IF m = n THEN [l \in 0 .. h - 1 |-> skipNext[prev[l]][l]]
                          ELSE [l \in DOMAIN skipNext[m] |->
                                  IF l < h /\ m = prev[l] THEN n ELSE skipNext[m][l]]]
        /\ held' = [held EXCEPT ![num] = held[num] + 1]
    BY <1>5 DEF SkipAdd
  <2>3. num \in Int
    BY SkipAssumption
  <2>4. PICK p : Below(skipVal, c, num, p)
    BY <1>1, <2>3, BelowIs
  <2>5. Leading(prev, skipNext, c, p)
    BY <1>1, <2>3, <2>4, PrevIs DEF Leading
  <2> HIDE DEF n, prev
  <2>6. Linking(skipNext', skipNext, prev, n, h)
    BY <2>1, <2>2 DEF Linking
  <2>7. \E d : Skips(skipNext', skipVal', d)
    <3>1. skipVal' = [m \in DOMAIN skipVal \cup {n} |-> IF m = n THEN num ELSE skipVal[m]]
      BY <2>2
    <3> QED BY <1>1, <2>1, <2>4, <2>5, <2>6, <3>1, AddLinks
  <2>8. n \notin DOMAIN skipVal
    BY <1>1, <2>1 DEF Skips
  <2>9. ASSUME NEW v \in SkipVals
        PROVE  Cardinality({m \in DOMAIN skipVal' : skipVal'[m] = v}) = held'[v]
    <3> DEFINE S == {m \in DOMAIN skipVal : skipVal[m] = v}
    <3>1. IsFiniteSet(S) /\ Cardinality(S) = held[v] /\ n \notin S
      BY <1>2, <1>3, <2>8
    <3>2. CASE v = num
      <4>1. {m \in DOMAIN skipVal' : skipVal'[m] = v} = S \cup {n}
        BY <2>2, <2>8, <3>2
      <4> HIDE DEF S
      <4>2. Cardinality(S \cup {n}) = held[v] + 1
        BY <3>1, FS_AddElement
      <4>3. held'[v] = held[v] + 1
        BY <1>2, <2>2, <3>2
      <4> QED BY <4>1, <4>2, <4>3
    <3>3. CASE v # num
      <4>1. {m \in DOMAIN skipVal' : skipVal'[m] = v} = S
        BY <2>2, <2>8, <3>3
      <4> QED BY <1>2, <2>2, <3>1, <3>3, <4>1
    <3> QED BY <3>2, <3>3
  <2>10. held' \in [SkipVals -> Nat]
    BY <1>2, <2>2
  <2> QED BY <2>7, <2>9, <2>10 DEF SkipInv
<1>6. ASSUME NEW num \in SkipVals, SkipErase(num) PROVE SkipInv'
  <2> DEFINE g == FindEqualOrGreater(num)
             prev == FindPrev(num)
  <2>1. /\ skipVal' = [m \in DOMAIN skipVal \ {g} |-> skipVal[m]]
        /\ skipNext' = [m \in DOMAIN skipNext \ {g} |->
                          [l \in DOMAIN skipNext[m] |->
                             IF l \in DOMAIN skipNext[g] /\ m = prev[l] THEN skipNext[g][l]
                             ELSE skipNext[m][l]]]
        /\ held' = [held EXCEPT ![num] = held[num] - 1] /\ search(num)
    BY <1>6 DEF SkipErase
  <2>2. num \in Int
    BY SkipAssumption
  <2>3. PICK p : Below(skipVal, c, num, p)
    BY <1>1, <2>2, BelowIs
  <2>4. p + 1 <= Len(c) /\ skipVal[c[p + 1]] = num /\ g = Spot(c, p + 1)
    BY <1>1, <2>1, <2>2, <2>3, FoundIs
  <2>5. p + 1 \in 1 .. Len(c) /\ g = c[p + 1]
    BY <1>1, <2>3, <2>4, Spots DEF Below, Spot
  <2>6. Leading(prev, skipNext, c, p)
    BY <1>1, <2>2, <2>3, PrevIs DEF Leading
  <2> HIDE DEF g, prev
  <2>7. Unlinking(skipNext', skipNext, prev, g)
    BY <2>1 DEF Unlinking
  <2>8. \E d : Skips(skipNext', skipVal', d)
    BY <1>1, <2>1, <2>2, <2>3, <2>4, <2>5, <2>6, <2>7, EraseLinks
  <2>9. g \in DOMAIN skipVal /\ skipVal[g] = num
    BY <1>1, <2>4, <2>5 DEF Skips
  <2>10. ASSUME NEW v \in SkipVals
         PROVE  Cardinality({m \in DOMAIN skipVal' : skipVal'[m] = v}) = held'[v] /\ held'[v] \in Nat
    <3> DEFINE S == {m \in DOMAIN skipVal : skipVal[m] = v}
    <3>1. IsFiniteSet(S) /\ Cardinality(S) = held[v]
      BY <1>2, <1>3
    <3>2. CASE v = num
      <4>1. {m \in DOMAIN skipVal' : skipVal'[m] = v} = S \ {g} /\ g \in S
        BY <2>1, <2>9, <3>2
      <4> HIDE DEF S
      <4>2. Cardinality(S \ {g}) = held[v] - 1 /\ IsFiniteSet(S \ {g})
        BY <3>1, <4>1, FS_RemoveElement
      <4> QED BY <1>2, <2>1, <3>2, <4>1, <4>2, FS_CardinalityType, ZenonT(40)
    <3>3. CASE v # num
      <4>1. {m \in DOMAIN skipVal' : skipVal'[m] = v} = S
        BY <2>1, <2>9, <3>3
      <4> QED BY <1>2, <2>1, <3>1, <3>3, <4>1
    <3> QED BY <3>2, <3>3
  <2>11. held' \in [SkipVals -> Nat]
    BY <1>2, <2>1, <2>10
  <2> QED BY <2>8, <2>10, <2>11 DEF SkipInv
<1> QED BY <1>4, <1>5, <1>6 DEF SkipNext
\* The row r of level l, whose i-th entry is the spot x[i].
Climb(nx, c, l, r, x) ==
  /\ Len(r) \in Nat \ {0} /\ r \in Seq(SkipNodes \cup {SkipHead, End})
  /\ x[1] = 0
  /\ \A i \in 1 .. Len(r) : x[i] \in 0 .. Len(c) + 1 /\ r[i] = Spot(c, x[i]) /\ Tall(nx, c, x[i], l)
  /\ \A i \in 1 .. Len(r) - 1 : Leap(nx, c, x[i], x[i + 1], l)

Farther(nx, l, r) == IF Last(r) = End THEN r ELSE Append(r, nx[Last(r)][l])

Rows(nx, c, l) == {r \in Seq(SkipNodes \cup {SkipHead, End}) : \E x : Climb(nx, c, l, r, x)}

LEMMA SpotsAre ==
  ASSUME NEW nx, NEW vals, NEW c, Skips(nx, vals, c), NEW i \in 0 .. Len(c) + 1
  PROVE  Spot(c, i) \in SkipNodes \cup {SkipHead, End}
<1>1. c \in Seq(SkipNodes)
  BY DEF Skips
<1> QED BY <1>1 DEF Spot

\* A row that is not at its end yet goes on by a leap.
LEMMA Climbs ==
  ASSUME NEW nx, NEW vals, NEW c, Skips(nx, vals, c), NEW l \in Levels,
         NEW r \in Rows(nx, c, l)
  PROVE  /\ Farther(nx, l, r) \in Rows(nx, c, l)
         /\ \/ Last(r) = End /\ Farther(nx, l, r) = r
            \/ Len(Farther(nx, l, r)) = Len(r) + 1
<1>1. CASE Last(r) = End
  BY <1>1 DEF Farther
<1>2. CASE Last(r) # End
  <2> DEFINE U == SkipNodes \cup {SkipHead, End}
             m == Len(r)
  <2>1. PICK x : Climb(nx, c, l, r, x)
    BY DEF Rows
  <2>2. /\ m \in Nat \ {0} /\ r \in Seq(U) /\ x[1] = 0 /\ m \in 1 .. m
        /\ \A i \in 1 .. m : x[i] \in 0 .. Len(c) + 1 /\ r[i] = Spot(c, x[i]) /\ Tall(nx, c, x[i], l)
        /\ \A i \in 1 .. m - 1 : Leap(nx, c, x[i], x[i + 1], l)
    BY <2>1 DEF Climb
  <2>3. Len(c) \in Nat /\ Last(r) = Spot(c, x[m]) /\ x[m] \in 0 .. Len(c)
    <3>1. Last(r) = Spot(c, x[m]) /\ x[m] \in 0 .. Len(c) + 1
      BY <2>2 DEF Last
    <3>2. Len(c) \in Nat /\ x[m] # Len(c) + 1
      BY <1>2, <3>1, Spots
    <3> QED BY <3>1, <3>2
  <2>4. PICK j \in 1 .. Len(c) + 1 : Leap(nx, c, x[m], j, l) /\ nx[Spot(c, x[m])][l] = Spot(c, j)
    BY <2>2, <2>3 DEF Skips
  <2> DEFINE s == Append(r, Spot(c, j))
             y == [i \in 1 .. m + 1 |-> IF i = m + 1 THEN j ELSE x[i]]
  <2>5. Spot(c, j) \in U /\ j \in 0 .. Len(c) + 1
    <3>1. j \in 0 .. Len(c) + 1
      BY <2>3
    <3> QED BY <3>1, SpotsAre
  <2>6. /\ s \in Seq(U) /\ Len(s) = m + 1 /\ s[m + 1] = Spot(c, j)
        /\ \A i \in 1 .. m : s[i] = r[i]
    BY <2>2, <2>5, BackIs
  <2>7. /\ y[m + 1] = j /\ \A i \in 1 .. m : y[i] = x[i]
    BY <2>2
  <2> HIDE DEF s, y
  <2>8. Tall(nx, c, j, l)
    BY <2>4 DEF Leap
  <2>9. ASSUME NEW i \in 1 .. m + 1
        PROVE  y[i] \in 0 .. Len(c) + 1 /\ s[i] = Spot(c, y[i]) /\ Tall(nx, c, y[i], l)
    <3>1. CASE i = m + 1
      BY <2>5, <2>6, <2>7, <2>8, <3>1
    <3>2. CASE i # m + 1
      <4>1. i \in 1 .. m
        BY <2>2, <3>2
      <4> QED BY <2>2, <2>6, <2>7, <4>1
    <3> QED BY <3>1, <3>2
  <2>10. ASSUME NEW i \in 1 .. m PROVE Leap(nx, c, y[i], y[i + 1], l)
    <3>1. CASE i = m
      BY <2>2, <2>4, <2>7, <3>1
    <3>2. CASE i # m
      <4>1. i \in 1 .. m - 1 /\ i + 1 \in 1 .. m
        BY <2>2, <3>2
      <4> QED BY <2>2, <2>7, <4>1
    <3> QED BY <3>1, <3>2
  <2>11. y[1] = 0
    BY <2>2, <2>7
  <2>12. Len(s) \in Nat \ {0} /\ Len(s) - 1 = m
    BY <2>2, <2>6
  <2> HIDE DEF m
  <2>13. Climb(nx, c, l, s, y)
    BY <2>6, <2>9, <2>10, <2>11, <2>12 DEF Climb
  <2>14. Farther(nx, l, r) = s
    BY <1>2, <2>3, <2>4 DEF Farther, s
  <2> QED BY <2>6, <2>13, <2>14 DEF Rows, m
<1> QED BY <1>1, <1>2

\* What is climbed rises by one spot at least with each entry.
LEMMA Rises ==
  ASSUME NEW nx, NEW c, NEW l, NEW r, NEW x, Climb(nx, c, l, r, x)
  PROVE  \A i \in 1 .. Len(r) : i - 1 <= x[i]
<1>1. /\ Len(r) \in Nat \ {0} /\ x[1] = 0
      /\ \A i \in 1 .. Len(r) : x[i] \in Int
      /\ \A i \in 1 .. Len(r) - 1 : x[i] < x[i + 1]
  BY DEF Climb, Leap
<1> DEFINE m == Len(r) - 1
           S == {i \in 0 .. m : i <= x[i + 1]}
<1>2. m \in Nat /\ 0 \in S
  BY <1>1
<1>3. ASSUME NEW i \in 1 .. m, i - 1 \in S PROVE i \in S
  <2>1. i \in 1 .. Len(r) - 1 /\ i \in 1 .. Len(r) /\ i + 1 \in 1 .. Len(r) /\ i - 1 + 1 = i
    BY <1>1
  <2>2. i - 1 <= x[i] /\ x[i] < x[i + 1] /\ x[i] \in Int /\ x[i + 1] \in Int
    BY <1>1, <1>3, <2>1
  <2> QED BY <2>2
<1> HIDE DEF m, S
<1>4. \A i \in 0 .. m : i \in S
  BY <1>2, <1>3, ByInduction
<1> SUFFICES ASSUME NEW i \in 1 .. Len(r) PROVE i - 1 <= x[i]
  OBVIOUS
<1>5. i - 1 \in 0 .. m /\ i - 1 + 1 = i
  BY <1>1 DEF m
<1>6. i - 1 \in S
  BY <1>4, <1>5
<1> QED BY <1>5, <1>6 DEF S

\* A row climbs its level up to End.
LEMMA RowIs ==
  ASSUME NEW c, Skips(skipNext, skipVal, c), NEW l \in Levels
  PROVE  \E x : Climb(skipNext, c, l, Row(l), x) /\ x[Len(Row(l))] = Len(c) + 1
<1> DEFINE m == Cardinality(DOMAIN skipVal) + 1
           S == Rows(skipNext, c, l)
           F == [p \in (1 .. m) \X S |-> Farther(skipNext, l, p[2])]
           G(f) == [k \in 0 .. m |-> IF k = 0 THEN <<SkipHead>>
                                     ELSE IF Last(f[k - 1]) = End THEN f[k - 1]
                                     ELSE Append(f[k - 1], skipNext[Last(f[k - 1])][l])]
           h == CHOOSE f : f = G(f)
<1>0. \A f : G(f) = [k \in 0 .. m |-> IF k = 0 THEN <<SkipHead>> ELSE Farther(skipNext, l, f[k - 1])]
  BY DEF Farther
<1>1. Len(c) \in Nat /\ m = Len(c) + 1 /\ m \in Nat
  BY Spots, UsedCounts
<1>2. <<SkipHead>> \in S /\ Len(<<SkipHead>>) = 1
  <2> DEFINE r == <<SkipHead>>
             x == [i \in 1 .. 1 |-> 0]
  <2>1. /\ r \in Seq(SkipNodes \cup {SkipHead, End}) /\ Len(r) = 1 /\ r[1] = SkipHead
        /\ x[1] = 0 /\ \A i \in 1 .. 1 : i = 1
    OBVIOUS
  <2> HIDE DEF r, x
  <2>2. 0 \in 0 .. Len(c) + 1 /\ Spot(c, 0) = SkipHead /\ Tall(skipNext, c, 0, l)
    BY <1>1 DEF Spot, Tall
  <2>3. Climb(skipNext, c, l, r, x)
    BY <2>1, <2>2 DEF Climb
  <2>4. r \in S
    BY <2>1, <2>3 DEF Rows
  <2> QED BY <2>1, <2>4 DEF r
<1>3. F \in [(1 .. m) \X S -> S]
  <2>1. \A r \in S : Farther(skipNext, l, r) \in S
    BY Climbs
  <2> HIDE DEF S
  <2> QED BY <2>1
<1>4. PICK f \in [0 .. m -> S] : f[0] = <<SkipHead>> /\ \A i \in 1 .. m : f[i] = F[<<i, f[i - 1]>>]
  <2> HIDE DEF F, m, S
  <2>1. Rec(m, S, <<SkipHead>>, F) # {}
    BY <1>1, <1>2, <1>3, Recursion
  <2> QED BY <2>1 DEF Rec
<1>5. ASSUME NEW i \in 1 .. m PROVE f[i - 1] \in S /\ f[i] = Farther(skipNext, l, f[i - 1])
  <2>1. i - 1 \in 0 .. m
    BY <1>1
  <2>2. <<i, f[i - 1]>> \in (1 .. m) \X S
    BY <1>4, <2>1
  <2> QED BY <1>4, <2>2
<1>6. f = G(f)
  <2> HIDE DEF S, m, F
  <2>1. f = [k \in 0 .. m |-> IF k = 0 THEN <<SkipHead>> ELSE Farther(skipNext, l, f[k - 1])]
    <3>1. ASSUME NEW k \in 0 .. m
          PROVE  f[k] = IF k = 0 THEN <<SkipHead>> ELSE Farther(skipNext, l, f[k - 1])
      <4>1. k = 0 \/ k \in 1 .. m
        BY <1>1
      <4> QED BY <1>4, <1>5, <4>1
    <3>2. f = [k \in 0 .. m |-> f[k]]
      BY <1>4
    <3> QED BY <3>1, <3>2
  <2> HIDE DEF G
  <2> QED BY <1>0, <2>1
<1>7. h = G(h)
  <2> HIDE DEF G
  <2> QED BY <1>6
<1>8. Row(l) = h[m]
  BY DEF Row
<1> HIDE DEF h
<1>9. h[0] = <<SkipHead>> /\ \A i \in 1 .. m : h[i] = Farther(skipNext, l, h[i - 1])
  <2> HIDE DEF S, m, F
  <2>1. h = [k \in 0 .. m |-> IF k = 0 THEN <<SkipHead>> ELSE Farther(skipNext, l, h[k - 1])]
    <3> HIDE DEF G
    <3> QED BY <1>0, <1>7
  <2> QED BY <1>1, <2>1
<1> HIDE DEF S, m, F
<1> DEFINE T == {k \in 0 .. m : h[k] \in S /\ (Len(h[k]) = k + 1 \/ Last(h[k]) = End)}
<1>10. 0 \in T
  <2>1. <<SkipHead>> \in S /\ 0 \in 0 .. m /\ Len(<<SkipHead>>) = 0 + 1
    BY <1>1, <1>2
  <2>2. h[0] = <<SkipHead>>
    BY <1>9
  <2> QED BY <2>1, <2>2
<1>11. ASSUME NEW i \in 1 .. m, i - 1 \in T PROVE i \in T
  <2>1. h[i - 1] \in S /\ (Len(h[i - 1]) = i \/ Last(h[i - 1]) = End)
    BY <1>11
  <2>2. h[i] = Farther(skipNext, l, h[i - 1])
    BY <1>9
  <2>3. /\ h[i] \in S
        /\ \/ Last(h[i - 1]) = End /\ h[i] = h[i - 1]
           \/ Len(h[i]) = Len(h[i - 1]) + 1 /\ Last(h[i - 1]) # End
           \/ Last(h[i - 1]) = End
    BY <2>1, <2>2, Climbs DEF S
  <2>4. Last(h[i - 1]) = End => h[i] = h[i - 1]
    BY <2>2 DEF Farther
  <2>5. Len(h[i]) = i + 1 \/ Last(h[i]) = End
    BY <2>1, <2>3, <2>4
  <2>6. i \in 0 .. m
    OBVIOUS
  <2> QED BY <2>3, <2>5, <2>6
<1> HIDE DEF T
<1>12. \A i \in 0 .. m : i \in T
  BY <1>1, <1>10, <1>11, ByInduction
<1>13. Row(l) \in S /\ (Len(Row(l)) = m + 1 \/ Last(Row(l)) = End)
  <2>1. m \in T
    BY <1>1, <1>12
  <2> QED BY <1>8, <2>1 DEF T
<1>14. PICK x : Climb(skipNext, c, l, Row(l), x)
  BY <1>13 DEF S, Rows
<1>15. /\ Len(Row(l)) \in Nat \ {0} /\ Len(Row(l)) \in 1 .. Len(Row(l))
       /\ x[Len(Row(l))] \in 0 .. Len(c) + 1 /\ Last(Row(l)) = Spot(c, x[Len(Row(l))])
  BY <1>14 DEF Climb, Last
<1>16. CASE Len(Row(l)) = m + 1
  <2>1. Len(Row(l)) - 1 <= x[Len(Row(l))]
    BY <1>14, <1>15, Rises
  <2> QED BY <1>1, <1>14, <1>15, <1>16, <2>1
<1>17. CASE Last(Row(l)) = End
  BY <1>14, <1>15, <1>17, Spots, ZenonT(40)
<1> QED BY <1>13, <1>16, <1>17
\* The spots of one row, and that each node of the level is among them.
LEMMA ClimbsAll ==
  ASSUME NEW nx, NEW vals, NEW c, Skips(nx, vals, c), NEW l \in Levels, NEW r, NEW x,
         Climb(nx, c, l, r, x), x[Len(r)] = Len(c) + 1
  PROVE  ToSet(r) = {n \in DOMAIN nx : l \in DOMAIN nx[n]} \cup {End}
<1>1. /\ Len(r) \in Nat \ {0} /\ r \in Seq(SkipNodes \cup {SkipHead, End}) /\ x[1] = 0
      /\ \A i \in 1 .. Len(r) : x[i] \in 0 .. Len(c) + 1 /\ r[i] = Spot(c, x[i]) /\ Tall(nx, c, x[i], l)
      /\ \A i \in 1 .. Len(r) - 1 : Leap(nx, c, x[i], x[i + 1], l)
      /\ DOMAIN r = 1 .. Len(r) /\ Len(c) \in Nat
  BY Spots DEF Climb
<1>2. ASSUME NEW i \in 1 .. Len(r)
      PROVE  r[i] = End \/ (r[i] \in DOMAIN nx /\ l \in DOMAIN nx[r[i]])
  <2>1. CASE x[i] = Len(c) + 1
    BY <1>1, <2>1, Spots
  <2>2. CASE x[i] # Len(c) + 1
    <3>1. x[i] \in 0 .. Len(c)
      BY <1>1, <2>2
    <3> QED BY <1>1, <3>1, Spots
  <2> QED BY <2>1, <2>2
<1>3. r[Len(r)] = End /\ Len(r) \in 1 .. Len(r)
  <2>1. Len(r) \in 1 .. Len(r) /\ Len(c) + 1 \in 0 .. Len(c) + 1
    BY <1>1
  <2>2. r[Len(r)] = Spot(c, Len(c) + 1)
    BY <1>1, <2>1
  <2> QED BY <2>1, <2>2, Spots
<1>4. ASSUME NEW n \in DOMAIN nx, l \in DOMAIN nx[n] PROVE \E i \in 1 .. Len(r) : r[i] = n
  <2>1. PICK t \in 0 .. Len(c) : Spot(c, t) = n
    BY Spots
  <2>2. Tall(nx, c, t, l)
    BY <1>4, <2>1, Spots
  <2> DEFINE T == {i \in 0 .. Len(r) : i \in 1 .. Len(r) /\ x[i] <= t}
  <2>3. 1 \in T /\ T \in SUBSET (0 .. Len(r)) /\ Len(r) \in Nat
    BY <1>1
  <2>4. PICK i \in T : \A y \in T : y <= i
    <3> HIDE DEF T
    <3>1. T # {}
      BY <2>3
    <3> QED BY <2>3, <3>1, NatMax
  <2>5. i \in 1 .. Len(r) /\ x[i] <= t /\ x[i] \in 0 .. Len(c) + 1
    BY <1>1, <2>4
  <2>6. i \in 1 .. Len(r) - 1 /\ i + 1 \in 1 .. Len(r)
    BY <1>1, <2>5
  <2>7. ~(x[i + 1] <= t) /\ x[i + 1] \in 0 .. Len(c) + 1
    <3>1. ~(i + 1 <= i) /\ i + 1 \in 0 .. Len(r)
      BY <2>6
    <3>2. i + 1 \notin T
      BY <2>4, <3>1
    <3> QED BY <1>1, <2>6, <3>1, <3>2
  <2>8. \A k \in x[i] + 1 .. x[i + 1] - 1 : ~Tall(nx, c, k, l)
    BY <1>1, <2>6 DEF Leap
  <2>9. x[i] < t => t \in x[i] + 1 .. x[i + 1] - 1
    BY <2>5, <2>7
  <2>10. x[i] = t
    BY <2>2, <2>5, <2>8, <2>9
  <2> QED BY <1>1, <2>1, <2>5, <2>10
<1> QED BY <1>1, <1>2, <1>3, <1>4, SMTT(30) DEF ToSet

\* Level 0 links every node, in the order c.
LEMMA Ground ==
  ASSUME NEW c, Skips(skipNext, skipVal, c)
  PROVE  /\ Len(Row(0)) = Len(c) + 2 /\ DOMAIN Row(0) = 1 .. Len(c) + 2
         /\ \A i \in 1 .. Len(c) + 2 : Row(0)[i] = Spot(c, i - 1)
<1>1. 0 \in Levels /\ Len(c) \in Nat
  BY Spots, SkipAssumption DEF Levels
<1>2. PICK x : Climb(skipNext, c, 0, Row(0), x) /\ x[Len(Row(0))] = Len(c) + 1
  BY <1>1, RowIs
<1> DEFINE m == Len(Row(0)) - 1
           S == {i \in 0 .. m : x[i + 1] = i}
<1>3. /\ Len(Row(0)) \in Nat \ {0} /\ m \in Nat /\ m + 1 = Len(Row(0)) /\ x[1] = 0
      /\ \A i \in 1 .. Len(Row(0)) : x[i] \in 0 .. Len(c) + 1 /\ Row(0)[i] = Spot(c, x[i])
      /\ \A i \in 1 .. m : Leap(skipNext, c, x[i], x[i + 1], 0)
      /\ DOMAIN Row(0) = 1 .. Len(Row(0))
  BY <1>2 DEF Climb
<1>4. 0 \in S
  BY <1>3
<1>5. ASSUME NEW i \in 1 .. m, i - 1 \in S PROVE i \in S
  <2>1. /\ x[i] = i - 1 /\ i \in 0 .. m /\ i + 1 \in 1 .. Len(Row(0)) /\ i - 1 + 1 = i
    BY <1>3, <1>5
  <2>2. /\ x[i] < x[i + 1] /\ \A k \in x[i] + 1 .. x[i + 1] - 1 : ~Tall(skipNext, c, k, 0)
        /\ x[i + 1] \in 0 .. Len(c) + 1
    BY <1>3, <2>1 DEF Leap
  <2>3. i < x[i + 1] => i \in x[i] + 1 .. x[i + 1] - 1 /\ i \in 0 .. Len(c) + 1
    BY <1>1, <2>1, <2>2
  <2>4. ~(i < x[i + 1])
    BY <2>2, <2>3, Spots
  <2> QED BY <2>1, <2>2, <2>4
<1> HIDE DEF m, S
<1>6. \A i \in 0 .. m : i \in S
  BY <1>3, <1>4, <1>5, ByInduction
<1>7. \A i \in 1 .. m + 1 : x[i] = i - 1
  <2> TAKE i \in 1 .. m + 1
  <2>1. i - 1 \in 0 .. m /\ i - 1 + 1 = i
    BY <1>3
  <2> QED BY <1>6, <2>1 DEF S
<1>8. m + 1 = Len(c) + 2
  <2>1. m + 1 \in 1 .. m + 1
    BY <1>3
  <2> QED BY <1>1, <1>2, <1>3, <1>7, <2>1
<1> QED BY <1>3, <1>7, <1>8

\* A value is found when there is one, at the spot behind those below it.
LEMMA SearchFinds ==
  ASSUME SkipInv, NEW v \in SkipVals PROVE search(v) <=> held[v] > 0
<1>1. PICK c : Skips(skipNext, skipVal, c)
  BY DEF SkipInv
<1>2. v \in Int
  BY SkipAssumption
<1>3. PICK p : Below(skipVal, c, v, p)
  BY <1>1, <1>2, BelowIs
<1>4. search(v) <=> (p + 1 <= Len(c) /\ skipVal[c[p + 1]] = v)
  BY <1>1, <1>2, <1>3, FoundIs
<1> DEFINE S == {n \in DOMAIN skipVal : skipVal[n] = v}
<1>5. /\ Len(c) \in Nat /\ p \in 0 .. Len(c) /\ held[v] \in Nat /\ Cardinality(S) = held[v]
      /\ \A i \in 1 .. Len(c) : skipVal[c[i]] < v <=> i <= p
      /\ \A i, j \in 1 .. Len(c) : i <= j => skipVal[c[i]] <= skipVal[c[j]]
      /\ \A i \in 1 .. Len(c) : skipVal[c[i]] \in SkipVals
      /\ DOMAIN skipVal = {c[i] : i \in 1 .. Len(c)}
  <2>1. p \in 0 .. Len(c) /\ \A i \in 1 .. Len(c) : skipVal[c[i]] < v <=> i <= p
    BY <1>3 DEF Below
  <2>2. held[v] \in Nat /\ Cardinality(S) = held[v]
    BY DEF SkipInv
  <2>3. Len(c) \in Nat
    BY <1>1, Spots
  <2>4. /\ \A i, j \in 1 .. Len(c) : i <= j => skipVal[c[i]] <= skipVal[c[j]]
        /\ \A i \in 1 .. Len(c) : skipVal[c[i]] \in SkipVals
        /\ DOMAIN skipVal = {c[i] : i \in 1 .. Len(c)}
    BY <1>1 DEF Skips
  <2> HIDE DEF S
  <2> QED BY <2>1, <2>2, <2>3, <2>4
<1>6. IsFiniteSet(S)
  <2>1. IsFiniteSet(DOMAIN skipVal)
    BY <1>1, UsedCounts
  <2> QED BY <2>1, FS_Subset
<1>7. held[v] > 0 <=> S # {}
  <2>1. Cardinality(S) = 0 <=> S = {}
    BY <1>6, FS_EmptySet
  <2> HIDE DEF S
  <2> QED BY <1>5, <2>1
<1>8. ASSUME p + 1 <= Len(c), skipVal[c[p + 1]] = v PROVE S # {}
  <2>1. p + 1 \in 1 .. Len(c)
    BY <1>5, <1>8
  <2> QED BY <1>5, <1>8, <2>1
<1>9. ASSUME S # {} PROVE p + 1 <= Len(c) /\ skipVal[c[p + 1]] = v
  <2>1. PICK i \in 1 .. Len(c) : skipVal[c[i]] = v
    BY <1>5, <1>9
  <2>2. ~(i <= p)
    BY <1>2, <1>5, <2>1
  <2>3. p + 1 \in 1 .. Len(c) /\ p + 1 <= i /\ ~(p + 1 <= p) /\ p + 1 <= Len(c)
    BY <1>5, <2>2
  <2>4. ~(skipVal[c[p + 1]] < v) /\ skipVal[c[p + 1]] <= v /\ skipVal[c[p + 1]] \in SkipVals
    BY <1>5, <2>1, <2>3
  <2>5. skipVal[c[p + 1]] \in Int
    BY <2>4, SkipAssumption
  <2> QED BY <1>2, <2>3, <2>4, <2>5
<1> QED BY <1>4, <1>7, <1>8, <1>9

LEMMA SkipKeeps == SkipInv => SkipHolds
<1> SUFFICES ASSUME SkipInv PROVE SkipHolds
  OBVIOUS
<1>1. PICK c : Skips(skipNext, skipVal, c)
  BY DEF SkipInv
<1> DEFINE order == Row(0)
           Place(n) == CHOOSE i \in DOMAIN order : order[i] = n
<1>2. /\ Len(c) \in Nat /\ 0 \in Levels
      /\ Len(order) = Len(c) + 2 /\ DOMAIN order = 1 .. Len(c) + 2
      /\ \A i \in 1 .. Len(c) + 2 : order[i] = Spot(c, i - 1)
  BY <1>1, Ground, Spots, SkipAssumption DEF Levels
<1>3. ASSUME NEW l \in Levels PROVE ToSet(Row(l)) = Linked(l) \cup {End}
  <2>1. PICK x : Climb(skipNext, c, l, Row(l), x) /\ x[Len(Row(l))] = Len(c) + 1
    BY <1>1, RowIs
  <2> QED BY <1>1, <2>1, ClimbsAll DEF Linked
<1>4. ToSet(order) = DOMAIN skipVal \cup {SkipHead, End}
  <2>1. Linked(0) = DOMAIN skipNext
    <3> SUFFICES ASSUME NEW n \in DOMAIN skipNext PROVE 0 \in DOMAIN skipNext[n]
      BY DEF Linked
    <3>1. PICK i \in 0 .. Len(c) : Spot(c, i) = n
      BY <1>1, Spots
    <3>2. i \in 0 .. Len(c) + 1
      BY <1>2
    <3> QED BY <1>1, <1>2, <3>1, <3>2, Spots
  <2>2. DOMAIN skipNext = DOMAIN skipVal \cup {SkipHead}
    BY <1>1 DEF Skips
  <2> QED BY <1>2, <1>3, <2>1, <2>2
<1>5. Last(order) = End
  <2>1. Len(c) + 2 \in 1 .. Len(c) + 2 /\ Len(c) + 1 \in 0 .. Len(c) + 1 /\ Len(c) + 2 - 1 = Len(c) + 1
    BY <1>2
  <2>2. order[Len(c) + 2] = Spot(c, Len(c) + 1)
    BY <1>2, <2>1
  <2> QED BY <1>1, <1>2, <2>1, <2>2, Spots DEF Last
<1>6. ASSUME NEW k \in 2 .. Len(order) - 2 PROVE skipVal[order[k]] <= skipVal[order[k + 1]]
  <2>1. /\ k - 1 \in 1 .. Len(c) /\ k \in 1 .. Len(c) /\ k - 1 <= k /\ k - 1 # 0 /\ k # 0
        /\ k \in 1 .. Len(c) + 2 /\ k + 1 \in 1 .. Len(c) + 2 /\ k + 1 - 1 = k
    BY <1>2
  <2>2. order[k] = c[k - 1] /\ order[k + 1] = c[k]
    BY <1>2, <2>1 DEF Spot
  <2> QED BY <1>1, <2>1, <2>2 DEF Skips
<1>7. ASSUME NEW t \in 0 .. Len(c) + 1 PROVE Place(Spot(c, t)) = t + 1
  <2>1. t + 1 \in DOMAIN order /\ order[t + 1] = Spot(c, t)
    <3>1. t + 1 \in 1 .. Len(c) + 2 /\ t + 1 - 1 = t
      BY <1>2
    <3> QED BY <1>2, <3>1
  <2>2. ASSUME NEW i \in DOMAIN order, order[i] = Spot(c, t) PROVE i = t + 1
    <3>1. i - 1 \in 0 .. Len(c) + 1 /\ Spot(c, i - 1) = Spot(c, t) /\ i \in Int
      BY <1>2, <2>2
    <3>2. i - 1 = t
      BY <1>1, <3>1, Spots
    <3> QED BY <3>1, <3>2
  <2> HIDE DEF order
  <2> QED BY <2>1, <2>2
<1>8. ASSUME NEW l \in Levels, NEW i \in 1 .. Len(Row(l)) - 1
      PROVE  Place(Row(l)[i]) < Place(Row(l)[i + 1])
  <2>1. PICK x : Climb(skipNext, c, l, Row(l), x)
    BY <1>1, RowIs
  <2>2. i \in 1 .. Len(Row(l)) /\ i + 1 \in 1 .. Len(Row(l))
    BY <2>1 DEF Climb
  <2>3. /\ x[i] \in 0 .. Len(c) + 1 /\ x[i + 1] \in 0 .. Len(c) + 1 /\ x[i] < x[i + 1]
        /\ Row(l)[i] = Spot(c, x[i]) /\ Row(l)[i + 1] = Spot(c, x[i + 1])
    BY <2>1, <2>2 DEF Climb, Leap
  <2> HIDE DEF Place
  <2>4. Place(Row(l)[i]) = x[i] + 1 /\ Place(Row(l)[i + 1]) = x[i + 1] + 1
    BY <1>7, <2>3
  <2> QED BY <1>2, <2>3, <2>4
<1>9. \A v \in SkipVals : /\ Cardinality({n \in DOMAIN skipVal : skipVal[n] = v}) = held[v]
                          /\ search(v) <=> held[v] > 0
  BY SearchFinds DEF SkipInv
<1> QED BY <1>3, <1>4, <1>5, <1>6, <1>8, <1>9, Zenon DEF SkipHolds
-----------------------------------------------------------------------------
(* The growing ring buffer *)

\* A cell's index after a step over the end, or before the start, of s cells.
Up(i, s) == IF i < s THEN i ELSE i - s
Down(i, s) == IF i >= 0 THEN i ELSE i + s

LEMMA Wraps == ASSUME NEW s \in Nat \ {0}
               PROVE  /\ \A i \in 0 .. 2 * s - 1 : i % s = Up(i, s)
                      /\ \A i \in -s .. s - 1 : i % s = Down(i, s)
<1>1. ASSUME NEW i \in 0 .. 2 * s - 1 PROVE i % s = Up(i, s)
  BY DEF Up
<1>2. ASSUME NEW i \in -s .. s - 1 PROVE i % s = Down(i, s)
  BY DEF Down
<1> QED BY <1>1, <1>2

\* The distance from h to t round the circle, after a step of t or k steps of h.
LEMMA Around ==
  ASSUME NEW s \in Nat \ {0}, NEW h \in 0 .. s - 1, NEW t \in 0 .. s - 1
  PROVE  /\ Down(t - h, s) \in 0 .. s - 1
         /\ Up(t + 1, s) # h => Down(Up(t + 1, s) - h, s) = Down(t - h, s) + 1
         /\ Up(h + (Down(t - h, s) + 1) - 1, s) = t
         /\ \A i \in 1 .. Down(t - h, s) :
              Up(h + i - 1, s) # t /\ Up(h + i - 1, s) \in 0 .. s - 1
<1>1. Down(t - h, s) \in 0 .. s - 1
  BY DEF Down
<1>2. Up(t + 1, s) # h => Down(Up(t + 1, s) - h, s) = Down(t - h, s) + 1
  BY DEF Down, Up
<1>3. Up(h + (Down(t - h, s) + 1) - 1, s) = t
  BY DEF Down, Up
<1>4. ASSUME NEW i \in 1 .. Down(t - h, s)
      PROVE  Up(h + i - 1, s) # t /\ Up(h + i - 1, s) \in 0 .. s - 1
  BY DEF Down, Up
<1> QED BY <1>1, <1>2, <1>3, <1>4

LEMMA StepsAhead ==
  ASSUME NEW s \in Nat \ {0}, NEW h \in 0 .. s - 1, NEW k \in 1 .. s - 1, NEW i \in 0 .. s - 1
  PROVE  /\ Down(i - h, s) \in 0 .. s - 1 /\ Down(i - Up(h + k, s), s) \in 0 .. s - 1
         /\ Down(i - h, s) < k => Down(i - Up(h + k, s), s) >= s - k
         /\ Down(i - h, s) >= k => Down(i - Up(h + k, s), s) = Down(i - h, s) - k
<1>1. CASE h + k < s
  BY <1>1 DEF Up, Down
<1>2. CASE ~(h + k < s)
  BY <1>2 DEF Up, Down
<1> QED BY <1>1, <1>2

\* A ring of cells b whose elements go from h to before t, and these elements.
Held(b, h, t) == Down(t - h, Len(b))

Elems(b, h, t) == [i \in 1 .. Held(b, h, t) |-> b[Up(h + i - 1, Len(b)) + 1]]

Good(b, h, t) ==
  /\ b \in Seq(Values \cup {Zero}) /\ Len(b) # 0
  /\ h \in 0 .. Len(b) - 1 /\ t \in 0 .. Len(b) - 1
  /\ \A i \in 0 .. Len(b) - 1 : b[i + 1] # Zero <=> Down(i - h, Len(b)) < Held(b, h, t)

\* The elements' places in the cells.
LEMMA Places ==
  ASSUME NEW b, NEW h, NEW t, Good(b, h, t)
  PROVE  /\ Len(b) \in Nat \ {0} /\ Held(b, h, t) \in 0 .. Len(b) - 1
         /\ Elems(b, h, t) \in Seq(Values) /\ Len(Elems(b, h, t)) = Held(b, h, t)
         /\ \A i \in 1 .. Held(b, h, t) :
              /\ Up(h + i - 1, Len(b)) \in 0 .. Len(b) - 1
              /\ Elems(b, h, t)[i] = b[Up(h + i - 1, Len(b)) + 1]
              /\ Elems(b, h, t)[i] \in Values
<1>1. Len(b) \in Nat \ {0} /\ Held(b, h, t) \in 0 .. Len(b) - 1
  BY DEF Good, Held, Down
<1>2. ASSUME NEW i \in 1 .. Held(b, h, t)
      PROVE  /\ Up(h + i - 1, Len(b)) \in 0 .. Len(b) - 1
             /\ b[Up(h + i - 1, Len(b)) + 1] \in Values
  <2> DEFINE j == Up(h + i - 1, Len(b))
  <2>1. j \in 0 .. Len(b) - 1 /\ Down(j - h, Len(b)) = i - 1
    BY <1>1 DEF Good, Up, Down
  <2>2. Down(j - h, Len(b)) < Held(b, h, t)
    BY <1>1, <2>1
  <2> HIDE DEF j
  <2>3. b[j + 1] # Zero
    BY <2>1, <2>2 DEF Good
  <2>4. b[j + 1] \in Values \cup {Zero}
    <3>1. b \in Seq(Values \cup {Zero}) /\ j + 1 \in 1 .. Len(b)
      BY <1>1, <2>1 DEF Good
    <3> QED BY <3>1
  <2> QED BY <2>1, <2>3, <2>4 DEF j
<1> QED BY <1>1, <1>2 DEF Elems

Written(c, b, i, v) == c = [b EXCEPT ![i + 1] = v]

LEMMA PushInRing ==
  ASSUME NEW b, NEW h, NEW t, Good(b, h, t), NEW v \in Values, Up(t + 1, Len(b)) # h,
         NEW c, Written(c, b, t, v)
  PROVE  /\ Good(c, h, Up(t + 1, Len(b))) /\ Len(c) = Len(b)
         /\ Elems(c, h, Up(t + 1, Len(b))) = Append(Elems(b, h, t), v)
<1> DEFINE s == Len(b)
           u == Up(t + 1, s)
           n == Held(b, h, t)
<1>1. /\ s \in Nat \ {0} /\ n \in 0 .. s - 1 /\ h \in 0 .. s - 1 /\ t \in 0 .. s - 1
      /\ b \in Seq(Values \cup {Zero})
  BY Places DEF Good
<1>2. /\ c \in Seq(Values \cup {Zero}) /\ Len(c) = s /\ c[t + 1] = v
      /\ \A i \in 0 .. s - 1 : i # t => c[i + 1] = b[i + 1]
  BY <1>1 DEF Written
<1>3. u \in 0 .. s - 1 /\ u # h
  BY <1>1 DEF Up
<1>4. Held(c, h, u) = n + 1 /\ Down(t - h, s) = n
  <2>1. Down(t - h, s) = n
    BY DEF Held
  <2>2. Down(u - h, s) = n + 1
    <3> HIDE DEF n
    <3> QED BY <1>1, <1>3, <2>1, Around
  <2> QED BY <1>2, <2>1, <2>2 DEF Held
<1>5. ASSUME NEW i \in 0 .. s - 1 PROVE c[i + 1] # Zero <=> Down(i - h, s) < n + 1
  <2>1. CASE i = t
    BY <1>1, <1>2, <1>4, <2>1, ZeroAssumption
  <2>2. CASE i # t
    <3>1. Down(i - h, s) # n /\ Down(i - h, s) \in Int
      BY <1>1, <1>4, <2>2, SMTT(30) DEF Down
    <3>2. c[i + 1] # Zero <=> Down(i - h, s) < n
      BY <1>2, <2>2 DEF Good
    <3> QED BY <1>1, <3>1, <3>2
  <2> QED BY <2>1, <2>2
<1>6. Good(c, h, u)
  BY <1>1, <1>2, <1>3, <1>4, <1>5 DEF Good
<1>7. Elems(c, h, u) = Append(Elems(b, h, t), v)
  <2> DEFINE e == Elems(b, h, t)
             f == Elems(c, h, u)
  <2>1. /\ e \in Seq(Values) /\ Len(e) = n /\ f \in Seq(Values) /\ Len(f) = n + 1
        /\ \A i \in 1 .. n : e[i] = b[Up(h + i - 1, s) + 1]
        /\ \A i \in 1 .. n + 1 : f[i] = c[Up(h + i - 1, s) + 1]
    <3>1. /\ e \in Seq(Values) /\ Len(e) = n
          /\ \A i \in 1 .. n : e[i] = b[Up(h + i - 1, s) + 1]
      BY Places
    <3>2. /\ f \in Seq(Values) /\ Len(f) = Held(c, h, u)
          /\ \A i \in 1 .. Held(c, h, u) : f[i] = c[Up(h + i - 1, Len(c)) + 1]
      <4> HIDE DEF u
      <4> QED BY <1>6, Places
    <3> QED BY <1>2, <1>4, <3>1, <3>2
  <2>2. /\ Up(h + (n + 1) - 1, s) = t
        /\ \A i \in 1 .. n : Up(h + i - 1, s) # t /\ Up(h + i - 1, s) \in 0 .. s - 1
    <3>1. n = Down(t - h, s)
      BY <1>4
    <3> HIDE DEF n, s
    <3>2. /\ Up(h + (Down(t - h, s) + 1) - 1, s) = t
          /\ \A i \in 1 .. Down(t - h, s) :
               Up(h + i - 1, s) # t /\ Up(h + i - 1, s) \in 0 .. s - 1
      BY <1>1, Around
    <3> QED BY <3>1, <3>2
  <2>3. f[n + 1] = v /\ \A i \in 1 .. n : f[i] = e[i]
    <3>0. n \in Nat
      BY <1>1
    <3> HIDE DEF e, f, n
    <3>1. f[n + 1] = v
      <4>1. n + 1 \in 1 .. n + 1 /\ Up(h + (n + 1) - 1, s) = t
        BY <2>2, <3>0
      <4> QED BY <1>2, <2>1, <4>1
    <3>2. ASSUME NEW i \in 1 .. n PROVE f[i] = e[i]
      <4>1. i \in 1 .. n + 1 /\ Up(h + i - 1, s) # t /\ Up(h + i - 1, s) \in 0 .. s - 1
        BY <2>2, <3>0
      <4> QED BY <1>2, <2>1, <4>1
    <3> QED BY <3>1, <3>2
  <2> HIDE DEF e, f, n
  <2>4. n \in Nat
    BY <1>1
  <2>5. /\ Append(e, v) \in Seq(Values) /\ Len(Append(e, v)) = n + 1
        /\ Append(e, v)[n + 1] = v /\ \A i \in 1 .. n : Append(e, v)[i] = e[i]
    BY <2>1, <2>4
  <2>6. \A i \in 1 .. n + 1 : f[i] = Append(e, v)[i]
    BY <2>3, <2>4, <2>5
  <2>7. f = Append(e, v)
    <3> DEFINE g == Append(e, v)
    <3>1. g \in Seq(Values) /\ Len(g) = Len(f) /\ \A i \in 1 .. Len(f) : f[i] = g[i]
      BY <2>1, <2>5, <2>6
    <3> HIDE DEF g
    <3>2. f = g
      BY <2>1, <3>1, SeqEqual
    <3> QED BY <3>2 DEF g
  <2> QED BY <2>7 DEF e, f
<1> QED BY <1>2, <1>6, <1>7

\* Elements laid out from cell 0 on, with z cells to spare.
LEMMA LaidOut ==
  ASSUME NEW e \in Seq(Values), NEW z \in Nat \ {0}
  PROVE  LET c == e \o [i \in 1 .. z |-> Zero]
         IN  /\ Good(c, 0, Len(e)) /\ Len(c) = Len(e) + z
             /\ Elems(c, 0, Len(e)) = e
<1> DEFINE zs == [i \in 1 .. z |-> Zero]
           c == e \o zs
           n == Len(e)
<1>1. /\ n \in Nat /\ zs \in Seq(Values \cup {Zero}) /\ Len(zs) = z
      /\ e \in Seq(Values \cup {Zero}) /\ \A i \in 1 .. z : zs[i] = Zero
  OBVIOUS
<1> HIDE DEF zs
<1>2. /\ c \in Seq(Values \cup {Zero}) /\ Len(c) = n + z
      /\ \A i \in 1 .. n + z : c[i] = IF i <= n THEN e[i] ELSE Zero
  BY <1>1
<1>3. Held(c, 0, n) = n
  BY <1>1, <1>2 DEF Held, Down
<1>4. ASSUME NEW i \in 0 .. (n + z) - 1 PROVE c[i + 1] # Zero <=> Down(i - 0, n + z) < n
  <2>1. Down(i - 0, n + z) = i
    BY <1>1 DEF Down
  <2>2. i < n => e[i + 1] \in Values
    BY <1>1
  <2>3. i + 1 \in 1 .. n + z /\ (i < n <=> i + 1 <= n)
    BY <1>1
  <2> QED BY <1>2, <2>1, <2>2, <2>3, ZeroAssumption
<1>5. Good(c, 0, n)
  <2> HIDE DEF c
  <2>1. Len(c) # 0 /\ 0 \in 0 .. Len(c) - 1 /\ n \in 0 .. Len(c) - 1
    BY <1>1, <1>2
  <2> QED BY <1>2, <1>3, <1>4, <2>1 DEF Good
<1>6. Elems(c, 0, n) = e
  <2> HIDE DEF c
  <2>1. /\ Elems(c, 0, n) \in Seq(Values) /\ Len(Elems(c, 0, n)) = n
        /\ \A i \in 1 .. n : Elems(c, 0, n)[i] = c[Up(0 + i - 1, n + z) + 1]
    <3> HIDE DEF n
    <3>1. /\ Elems(c, 0, n) \in Seq(Values) /\ Len(Elems(c, 0, n)) = Held(c, 0, n)
          /\ \A i \in 1 .. Held(c, 0, n) : Elems(c, 0, n)[i] = c[Up(0 + i - 1, Len(c)) + 1]
      BY <1>5, Places
    <3> QED BY <1>2, <1>3, <3>1
  <2>2. ASSUME NEW i \in 1 .. n PROVE Elems(c, 0, n)[i] = e[i]
    <3>1. Up(0 + i - 1, n + z) + 1 = i /\ i \in 1 .. n + z /\ i <= n
      BY <1>1 DEF Up
    <3> QED BY <1>2, <2>1, <3>1
  <2> DEFINE f == Elems(c, 0, n)
  <2>3. f \in Seq(Values) /\ Len(f) = Len(e) /\ \A i \in 1 .. Len(f) : f[i] = e[i]
    BY <2>1, <2>2
  <2> HIDE DEF f
  <2>4. f = e
    BY <2>3, SeqEqual
  <2> QED BY <2>4 DEF f
<1> QED BY <1>2, <1>5, <1>6 DEF zs

\* The first k elements are dropped and their cells cleared.
\* The cells without the first k elements.
Zeroed(b, h, k) ==
  [j \in 1 .. Len(b) |-> IF Down(j - 1 - h, Len(b)) < k THEN Zero ELSE b[j]]

LEMMA DropInRing ==
  ASSUME NEW b, NEW h, NEW t, Good(b, h, t), NEW k \in 1 .. Held(b, h, t)
  PROVE  /\ Good(Zeroed(b, h, k), Up(h + k, Len(b)), t)
         /\ Elems(Zeroed(b, h, k), Up(h + k, Len(b)), t)
              = SubSeq(Elems(b, h, t), k + 1, Len(Elems(b, h, t)))
<1> DEFINE s == Len(b)
           c == [j \in 1 .. s |-> IF Down(j - 1 - h, s) < k THEN Zero ELSE b[j]]
           g == Up(h + k, s)
           n == Held(b, h, t)
<1>1. /\ s \in Nat \ {0} /\ n \in 0 .. s - 1 /\ h \in 0 .. s - 1 /\ t \in 0 .. s - 1
      /\ b \in Seq(Values \cup {Zero}) /\ k \in Nat \ {0} /\ k <= n
  BY Places DEF Good
<1>2. /\ c \in Seq(Values \cup {Zero}) /\ Len(c) = s
      /\ \A i \in 0 .. s - 1 : c[i + 1] = IF Down(i - h, s) < k THEN Zero ELSE b[i + 1]
  <2>1. \A j \in 1 .. s : b[j] \in Values \cup {Zero}
    BY <1>1
  <2>2. c \in Seq(Values \cup {Zero}) /\ Len(c) = s
    BY <1>1, <2>1
  <2>3. ASSUME NEW i \in 0 .. s - 1
        PROVE  c[i + 1] = IF Down(i - h, s) < k THEN Zero ELSE b[i + 1]
    <3>1. i + 1 \in 1 .. s /\ (i + 1) - 1 - h = i - h
      BY <1>1
    <3> QED BY <3>1
  <2> QED BY <2>2, <2>3
<1>3. g \in 0 .. s - 1 /\ n = Down(t - h, s)
  BY <1>1 DEF Up, Held
<1>4. Down(t - g, s) = n - k
  <2>1. k \in 1 .. s - 1 /\ Down(t - h, s) >= k
    BY <1>1, <1>3
  <2> HIDE DEF n, c, s, g
  <2>2. Down(t - Up(h + k, s), s) = Down(t - h, s) - k
    BY <1>1, <2>1, StepsAhead
  <2> QED BY <1>3, <2>2 DEF g
<1> HIDE DEF c
<1>5. Held(c, g, t) = n - k
  BY <1>2, <1>4 DEF Held
<1>6. ASSUME NEW i \in 0 .. s - 1 PROVE c[i + 1] # Zero <=> Down(i - g, s) < n - k
  <2>1. /\ Down(i - h, s) < k => Down(i - g, s) >= s - k
        /\ Down(i - h, s) >= k => Down(i - g, s) = Down(i - h, s) - k
        /\ Down(i - h, s) \in Int /\ Down(i - g, s) \in Int
    <3>1. k \in 1 .. s - 1
      BY <1>1
    <3> HIDE DEF n, s, g
    <3>2. /\ Down(i - h, s) \in 0 .. s - 1 /\ Down(i - Up(h + k, s), s) \in 0 .. s - 1
          /\ Down(i - h, s) < k => Down(i - Up(h + k, s), s) >= s - k
          /\ Down(i - h, s) >= k => Down(i - Up(h + k, s), s) = Down(i - h, s) - k
      BY <1>1, <3>1, StepsAhead, ZenonT(40)
    <3> QED BY <3>2 DEF g
  <2>2. b[i + 1] # Zero <=> Down(i - h, s) < n
    BY DEF Good
  <2>3. CASE Down(i - h, s) < k
    BY <1>1, <1>2, <2>1, <2>3, SMTT(30)
  <2>4. CASE ~(Down(i - h, s) < k)
    <3>1. c[i + 1] = b[i + 1]
      BY <1>2, <2>4
    <3>2. k \in Int /\ n \in Int /\ Down(i - h, s) \in Int
      BY <1>1, <2>1
    <3> HIDE DEF n
    <3>3. Down(i - g, s) = Down(i - h, s) - k
      BY <2>1, <2>4, <3>2
    <3> QED BY <2>2, <3>1, <3>2, <3>3
  <2> QED BY <2>3, <2>4
<1>7. Good(c, g, t)
  <2> HIDE DEF g, n
  <2> QED BY <1>1, <1>2, <1>3, <1>5, <1>6 DEF Good
<1>8. Elems(c, g, t) = SubSeq(Elems(b, h, t), k + 1, Len(Elems(b, h, t)))
  <2> DEFINE e == Elems(b, h, t)
             f == Elems(c, g, t)
  <2>1. /\ e \in Seq(Values) /\ Len(e) = n
        /\ \A i \in 1 .. n : e[i] = b[Up(h + i - 1, s) + 1]
    BY Places
  <2>2. /\ f \in Seq(Values) /\ Len(f) = n - k
        /\ \A i \in 1 .. n - k : f[i] = c[Up(g + i - 1, s) + 1]
    <3> HIDE DEF g
    <3> QED BY <1>2, <1>5, <1>7, Places
  <2>3. ASSUME NEW i \in 1 .. n - k PROVE f[i] = e[k + i]
    <3>1. /\ Up(g + i - 1, s) = Up(h + (k + i) - 1, s) /\ k + i \in 1 .. n
          /\ Up(g + i - 1, s) \in 0 .. s - 1
          /\ ~(Down(Up(g + i - 1, s) - h, s) < k)
      BY <1>1, SMTT(30) DEF Up, Down
    <3> DEFINE q == Up(g + i - 1, s)
    <3>2. c[q + 1] = b[q + 1]
      <4>1. q \in 0 .. s - 1 /\ ~(Down(q - h, s) < k)
        BY <3>1
      <4> HIDE DEF q
      <4> QED BY <1>2, <4>1
    <3> QED BY <2>1, <2>2, <3>1, <3>2
  <2> HIDE DEF e, f, n
  <2>4. n \in Nat /\ k \in Nat /\ k <= n
    BY <1>1 DEF n
  <2> DEFINE d == SubSeq(e, k + 1, Len(e))
  <2>5. /\ d \in Seq(Values) /\ Len(d) = n - k /\ \A i \in 1 .. n - k : d[i] = e[k + i]
    <3>1. d \in Seq(Values) /\ Len(d) = n - k
      BY <2>1, <2>4
    <3>2. ASSUME NEW i \in 1 .. n - k PROVE d[i] = e[k + i]
      BY <2>1, <2>4
    <3> QED BY <3>1, <3>2
  <2> HIDE DEF d
  <2>6. f = d
    BY <2>2, <2>3, <2>5, SeqEqual
  <2> QED BY <2>6 DEF d, e, f
<1>9. c = Zeroed(b, h, k)
  BY DEF c, Zeroed
<1> QED BY <1>7, <1>8, <1>9

\* A write to the first element.
LEMMA WriteInRing ==
  ASSUME NEW b, NEW h, NEW t, Good(b, h, t), h # t, NEW v \in Values
  PROVE  LET c == [b EXCEPT ![h + 1] = v]
         IN  Good(c, h, t) /\ Elems(c, h, t) = <<v>> \o Tail(Elems(b, h, t))
<1> DEFINE c == [b EXCEPT ![h + 1] = v]
           s == Len(b)
           n == Held(b, h, t)
<1>1. /\ s \in Nat \ {0} /\ n \in 1 .. s - 1 /\ h \in 0 .. s - 1 /\ t \in 0 .. s - 1
      /\ b \in Seq(Values \cup {Zero})
  BY Places DEF Good, Held, Down
<1>2. /\ c \in Seq(Values \cup {Zero}) /\ Len(c) = s /\ c[h + 1] = v
      /\ \A i \in 0 .. s - 1 : i # h => c[i + 1] = b[i + 1]
  BY <1>1
<1> HIDE DEF c
<1>3. Held(c, h, t) = n
  BY <1>2 DEF Held
<1>4. ASSUME NEW i \in 0 .. s - 1 PROVE c[i + 1] # Zero <=> Down(i - h, s) < n
  <2>1. CASE i = h
    BY <1>1, <1>2, <2>1, ZeroAssumption DEF Down
  <2>2. CASE i # h
    BY <1>2, <2>2 DEF Good
  <2> QED BY <2>1, <2>2
<1>5. Good(c, h, t)
  BY <1>1, <1>2, <1>3, <1>4 DEF Good
<1>6. Elems(c, h, t) = <<v>> \o Tail(Elems(b, h, t))
  <2> DEFINE e == Elems(b, h, t)
             f == Elems(c, h, t)
  <2>1. /\ e \in Seq(Values) /\ Len(e) = n
        /\ \A i \in 1 .. n : e[i] = b[Up(h + i - 1, s) + 1]
    BY Places
  <2>2. /\ f \in Seq(Values) /\ Len(f) = n
        /\ \A i \in 1 .. n : f[i] = c[Up(h + i - 1, s) + 1]
    BY <1>2, <1>3, <1>5, Places
  <2>3. f[1] = v
    <3>1. Up(h + 1 - 1, s) = h
      BY <1>1 DEF Up
    <3> QED BY <1>1, <1>2, <2>2, <3>1
  <2>4. ASSUME NEW i \in 2 .. n PROVE f[i] = e[i]
    <3>1. Up(h + i - 1, s) \in 0 .. s - 1 /\ Up(h + i - 1, s) # h /\ i \in 1 .. n
      BY <1>1 DEF Up
    <3> QED BY <1>2, <2>1, <2>2, <3>1
  <2> HIDE DEF e, f, n
  <2>5. n \in Nat \ {0}
    BY <1>1
  <2> DEFINE d == <<v>> \o Tail(e)
  <2>6. d \in Seq(Values) /\ Len(d) = n /\ \A i \in 1 .. n : d[i] = f[i]
    <3>1. /\ Tail(e) \in Seq(Values) /\ Len(Tail(e)) = n - 1
          /\ \A i \in 1 .. n - 1 : Tail(e)[i] = e[i + 1]
      <4>1. e # << >>
        BY <2>1, <2>5
      <4> QED BY <2>1, <2>5, <4>1, HeadTailProperties
    <3> DEFINE tl == Tail(e)
    <3>2. d \in Seq(Values) /\ Len(d) = n
      BY <2>5, <3>1
    <3>3. ASSUME NEW i \in 1 .. n PROVE d[i] = f[i]
      <4>1. CASE i = 1
        <5> HIDE DEF tl
        <5> QED BY <2>3, <3>1, <4>1 DEF tl
      <4>2. CASE i # 1
        <5>1. i - 1 \in 1 .. n - 1 /\ i \in 2 .. n /\ (i - 1) + 1 = i
          BY <2>5, <4>2
        <5>2. d[i] = tl[i - 1]
          <6> HIDE DEF tl
          <6> QED BY <2>5, <3>1, <5>1 DEF tl
        <5> QED BY <2>4, <3>1, <5>1, <5>2
      <4> QED BY <4>1, <4>2
    <3> QED BY <3>2, <3>3
  <2> HIDE DEF d
  <2>7. f = d
    BY <2>2, <2>6, SeqEqual
  <2> QED BY <2>7 DEF d, e, f
<1> QED BY <1>5, <1>6 DEF c

RingInv == Good(buffer, head, tail)

\* The model's own arithmetic, in terms of these.
LEMMA RingTerms ==
  ASSUME RingInv
  PROVE  /\ Size \in Nat \ {0} /\ head \in 0 .. Size - 1 /\ tail \in 0 .. Size - 1
         /\ Length = Held(buffer, head, tail) /\ Length \in 0 .. Size - 1
         /\ (tail - head) % Size = Length /\ (tail + 1) % Size = Up(tail + 1, Size)
         /\ \A i \in 0 .. Size - 1 : (i - head) % Size = Down(i - head, Size)
         /\ \A k \in 0 .. Size : (head + k) % Size = Up(head + k, Size)
         /\ Empty <=> Length = 0
         /\ Elements = Elems(buffer, head, tail)
<1> DEFINE s == Len(buffer)
<1>1. /\ s \in Nat \ {0} /\ head \in 0 .. s - 1 /\ tail \in 0 .. s - 1
      /\ Held(buffer, head, tail) = Down(tail - head, s) /\ Size = s
  BY Places DEF RingInv, Good, Held, Size
<1> HIDE DEF s
<1>2. Length = Down(tail - head, s) /\ Length \in 0 .. s - 1
  BY <1>1 DEF Length, Down
<1>3. /\ \A i \in 0 .. 2 * s - 1 : i % s = Up(i, s)
      /\ \A i \in -s .. s - 1 : i % s = Down(i, s)
  BY <1>1, Wraps
<1>4. /\ tail - head \in -s .. s - 1 /\ tail + 1 \in 0 .. 2 * s - 1
      /\ \A i \in 0 .. s - 1 : i - head \in -s .. s - 1
      /\ \A k \in 0 .. s : head + k \in 0 .. 2 * s - 1
  BY <1>1
<1>5. /\ (tail - head) % s = Length /\ (tail + 1) % s = Up(tail + 1, s)
      /\ \A i \in 0 .. s - 1 : (i - head) % s = Down(i - head, s)
      /\ \A k \in 0 .. s : (head + k) % s = Up(head + k, s)
  BY <1>2, <1>3, <1>4
<1>6. Empty <=> Length = 0
  BY <1>1, <1>2 DEF Empty, Down
<1>7. Elements = Elems(buffer, head, tail)
  <2>1. ASSUME NEW i \in 1 .. Length
        PROVE  Cell((head + i - 1) % s) = buffer[Up(head + i - 1, s) + 1]
    <3>1. head + i - 1 \in 0 .. 2 * s - 1
      BY <1>1, <1>2
    <3> QED BY <1>3, <3>1 DEF Cell
  <2> QED BY <1>1, <1>2, <1>5, <2>1 DEF Elements, Elems, s
<1> QED BY <1>1, <1>2, <1>5, <1>6, <1>7

LEMMA EachInOrder == RingInv => ForEach = Elements
<1> SUFFICES ASSUME RingInv PROVE ForEach = Elements
  OBVIOUS
<1> DEFINE s == Len(buffer)
           e == Elems(buffer, head, tail)
           n == Length
<1>1. /\ s \in Nat \ {0} /\ head \in 0 .. s - 1 /\ tail \in 0 .. s - 1 /\ n \in Nat
      /\ n = IF tail >= head THEN tail - head ELSE s - head + tail
      /\ buffer \in Seq(Values \cup {Zero})
      /\ e \in Seq(Values) /\ Len(e) = n
      /\ \A i \in 1 .. n : e[i] = buffer[Up(head + i - 1, s) + 1]
  <2>1. /\ s \in Nat \ {0} /\ head \in 0 .. s - 1 /\ tail \in 0 .. s - 1 /\ n \in Nat
        /\ n = Held(buffer, head, tail)
    BY RingTerms DEF Size
  <2>2. n = IF tail >= head THEN tail - head ELSE s - head + tail
    BY DEF Length, Size
  <2>3. buffer \in Seq(Values \cup {Zero})
    BY DEF RingInv, Good
  <2>4. /\ e \in Seq(Values) /\ Len(e) = Held(buffer, head, tail)
        /\ \A i \in 1 .. Held(buffer, head, tail) : e[i] = buffer[Up(head + i - 1, s) + 1]
    BY Places DEF RingInv
  <2> HIDE DEF e, n
  <2> QED BY <2>1, <2>2, <2>3, <2>4
<1> DEFINE V == Values \cup {Zero}
<1>2. e \in Seq(V)
  BY <1>1
<1> HIDE DEF e, n
<1>3. CASE head <= tail
  <2> DEFINE f == SubSeq(buffer, head + 1, tail)
  <2>1. /\ f \in Seq(V) /\ Len(f) = n /\ \A i \in 1 .. n : f[i] = buffer[head + i]
    <3>1. n = tail - head
      BY <1>1, <1>3
    <3>2. f \in Seq(V) /\ Len(f) = n
      BY <1>1, <1>3, <3>1
    <3>3. ASSUME NEW i \in 1 .. n PROVE f[i] = buffer[head + i]
      BY <1>1, <1>3, <3>1
    <3> QED BY <3>2, <3>3
  <2>2. ASSUME NEW i \in 1 .. n PROVE f[i] = e[i]
    <3>1. Up(head + i - 1, s) + 1 = head + i
      BY <1>1, <1>3 DEF Up
    <3> QED BY <1>1, <2>1, <3>1
  <2> HIDE DEF f
  <2>3. f = e
    BY <1>1, <1>2, <2>1, <2>2, SeqEqual
  <2> QED BY <1>3, <2>3, RingTerms DEF ForEach, e, f
<1>4. CASE ~(head <= tail)
  <2> DEFINE a == SubSeq(buffer, head + 1, s)
             z == SubSeq(buffer, 1, tail)
             f == a \o z
  <2>1. /\ a \in Seq(V) /\ Len(a) = s - head /\ \A i \in 1 .. s - head : a[i] = buffer[head + i]
    <3>1. a \in Seq(V) /\ Len(a) = s - head
      BY <1>1, <1>4
    <3>2. ASSUME NEW i \in 1 .. s - head PROVE a[i] = buffer[head + i]
      BY <1>1, <1>4
    <3> QED BY <3>1, <3>2
  <2>2. /\ z \in Seq(V) /\ Len(z) = tail /\ \A i \in 1 .. tail : z[i] = buffer[i]
    <3>1. z \in Seq(V) /\ Len(z) = tail
      BY <1>1, <1>4
    <3>2. ASSUME NEW i \in 1 .. tail PROVE z[i] = buffer[i]
      BY <1>1, <1>4
    <3> QED BY <3>1, <3>2
  <2> HIDE DEF a, z
  <2>3. /\ f \in Seq(V) /\ Len(f) = n
        /\ \A i \in 1 .. n : f[i] = IF i <= s - head THEN a[i] ELSE z[i - (s - head)]
    <3>1. n = (s - head) + tail /\ s - head \in Nat /\ tail \in Nat
      BY <1>1, <1>4
    <3> HIDE DEF s
    <3> QED BY <2>1, <2>2, <3>1
  <2>4. ASSUME NEW i \in 1 .. n PROVE f[i] = e[i]
    <3>1. CASE i <= s - head
      <4>1. Up(head + i - 1, s) + 1 = head + i /\ i \in 1 .. s - head
        BY <1>1, <3>1 DEF Up
      <4> QED BY <1>1, <2>1, <2>3, <3>1, <4>1
    <3>2. CASE ~(i <= s - head)
      <4>1. Up(head + i - 1, s) + 1 = i - (s - head) /\ i - (s - head) \in 1 .. tail
        BY <1>1, <1>4, <3>2 DEF Up
      <4> QED BY <1>1, <2>2, <2>3, <3>2, <4>1
    <3> QED BY <3>1, <3>2
  <2> HIDE DEF f
  <2>5. f = e
    BY <1>1, <1>2, <2>3, <2>4, SeqEqual
  <2> QED BY <1>4, <2>5, RingTerms DEF ForEach, Size, e, f, a, z
<1> QED BY <1>3, <1>4

LEMMA Joined ==
  ASSUME NEW V, NEW p \in Seq(V), NEW q \in Seq(V)
  PROVE  /\ p \o q \in Seq(V) /\ Len(p \o q) = Len(p) + Len(q)
         /\ \A i \in 1 .. Len(p) + Len(q) :
              (p \o q)[i] = IF i <= Len(p) THEN p[i] ELSE q[i - Len(p)]
  OBVIOUS

\* What is read backwards is the same elements.
LEMMA Backwards ==
  ASSUME NEW V, NEW p \in Seq(V), NEW q \in Seq(V)
  PROVE  Reverse(q) \o Reverse(p) = Reverse(p \o q)
<1> DEFINE l == Reverse(q) \o Reverse(p)
           r == Reverse(p \o q)
           m == Len(p)
           n == Len(q)
<1>1. m \in Nat /\ n \in Nat /\ Len(p \o q) = m + n
      /\ \A i \in 1 .. m + n : (p \o q)[i] = IF i <= m THEN p[i] ELSE q[i - m]
  OBVIOUS
<1>2. /\ Reverse(q) \in Seq(V) /\ Len(Reverse(q)) = n
      /\ \A i \in 1 .. n : Reverse(q)[i] = q[n - i + 1]
  <2>1. \A i \in 1 .. n : n - i + 1 \in 1 .. n
    BY <1>1
  <2> QED BY <1>1, <2>1 DEF Reverse
<1>3. /\ Reverse(p) \in Seq(V) /\ Len(Reverse(p)) = m
      /\ \A i \in 1 .. m : Reverse(p)[i] = p[m - i + 1]
  <2>1. \A i \in 1 .. m : m - i + 1 \in 1 .. m
    BY <1>1
  <2> QED BY <1>1, <2>1 DEF Reverse
<1>4. /\ r \in Seq(V) /\ Len(r) = m + n
      /\ \A i \in 1 .. m + n : r[i] = (p \o q)[m + n - i + 1]
  <2> DEFINE pq == p \o q
  <2>1. pq \in Seq(V) /\ Len(pq) = m + n
    BY <1>1
  <2> HIDE DEF pq
  <2>2. \A i \in 1 .. m + n : m + n - i + 1 \in 1 .. m + n
    BY <1>1
  <2>3. /\ Reverse(pq) \in Seq(V) /\ Len(Reverse(pq)) = m + n
        /\ \A i \in 1 .. m + n : Reverse(pq)[i] = pq[m + n - i + 1]
    BY <1>1, <2>1, <2>2 DEF Reverse
  <2> QED BY <2>3 DEF pq
<1>5. /\ l \in Seq(V) /\ Len(l) = m + n
      /\ \A i \in 1 .. m + n : l[i] = IF i <= n THEN Reverse(q)[i] ELSE Reverse(p)[i - n]
  <2> DEFINE a == Reverse(q)
             b == Reverse(p)
  <2>1. a \in Seq(V) /\ b \in Seq(V) /\ Len(a) = n /\ Len(b) = m
    BY <1>2, <1>3
  <2> HIDE DEF a, b, m, n
  <2>2. /\ a \o b \in Seq(V) /\ Len(a \o b) = m + n
        /\ \A i \in 1 .. m + n : (a \o b)[i] = IF i <= n THEN a[i] ELSE b[i - n]
    <3>1. n + m = m + n
      BY <1>1
    <3>2. /\ a \o b \in Seq(V) /\ Len(a \o b) = Len(a) + Len(b)
          /\ \A i \in 1 .. Len(a) + Len(b) :
               (a \o b)[i] = IF i <= Len(a) THEN a[i] ELSE b[i - Len(a)]
      BY <2>1, Joined
    <3> QED BY <2>1, <3>1, <3>2
  <2> QED BY <2>2 DEF a, b
<1> HIDE DEF l, r, m, n
<1>6. ASSUME NEW i \in 1 .. m + n PROVE l[i] = r[i]
  <2>0. m + n - i + 1 \in 1 .. m + n
    BY <1>1
  <2>1. CASE i <= n
    <3>1. ~(m + n - i + 1 <= m) /\ i \in 1 .. n /\ (m + n - i + 1) - m = n - i + 1
      BY <1>1, <2>1
    <3>2. l[i] = Reverse(q)[i] /\ Reverse(q)[i] = q[n - i + 1]
      BY <1>2, <1>5, <2>1, <3>1
    <3>3. r[i] = (p \o q)[m + n - i + 1]
      BY <1>4
    <3>4. (p \o q)[m + n - i + 1] = q[n - i + 1]
      <4>1. PICK x, y : x = m + n - i + 1 /\ y = n - i + 1
        OBVIOUS
      <4>2. x \in 1 .. m + n /\ ~(x <= m) /\ x - m = y
        BY <2>0, <3>1, <4>1
      <4>3. (p \o q)[x] = q[y]
        BY <1>1, <4>2, Zenon
      <4> QED BY <4>1, <4>3
    <3> QED BY <3>2, <3>3, <3>4
  <2>2. CASE ~(i <= n)
    <3>1. m + n - i + 1 <= m /\ i - n \in 1 .. m /\ m - (i - n) + 1 = m + n - i + 1
      BY <1>1, <2>2
    <3> QED BY <1>1, <1>3, <1>4, <1>5, <2>0, <2>2, <3>1, ZenonT(40)
  <2> QED BY <2>1, <2>2
<1>7. l = r
  BY <1>4, <1>5, <1>6, SeqEqual
<1> QED BY <1>7 DEF l, r

LEMMA RingReads == RingInv => ReadsAgree
<1> SUFFICES ASSUME RingInv PROVE ReadsAgree
  OBVIOUS
<1>1. Length = Len(Elements)
  BY RingTerms, Places DEF RingInv
<1>2. ForEach = Elements
  BY EachInOrder
<1>3. ForEachReverse = Reverse(ForEach)
  <2>1. CASE head <= tail
    BY <2>1 DEF ForEach, ForEachReverse
  <2>2. CASE ~(head <= tail)
    <3> DEFINE a == SubSeq(buffer, head + 1, Size)
               z == SubSeq(buffer, 1, tail)
    <3>1. a \in Seq(Values \cup {Zero}) /\ z \in Seq(Values \cup {Zero})
      <4>1. /\ buffer \in Seq(Values \cup {Zero}) /\ Size = Len(buffer)
            /\ head \in 0 .. Size - 1 /\ tail \in 0 .. Size - 1 /\ Size \in Nat
        BY RingTerms DEF RingInv, Good, Size
      <4> DEFINE V == Values \cup {Zero}
      <4> HIDE DEF V
      <4>2. SubSeq(buffer, head + 1, Size) \in Seq(V)
        BY <4>1 DEF V
      <4>3. SubSeq(buffer, 1, tail) \in Seq(V)
        BY <4>1 DEF V
      <4> QED BY <4>2, <4>3 DEF V
    <3> HIDE DEF a, z
    <3>2. Reverse(z) \o Reverse(a) = Reverse(a \o z)
      BY <3>1, Backwards
    <3> QED BY <2>2, <3>2 DEF ForEach, ForEachReverse, a, z
  <2> QED BY <2>1, <2>2
<1>4. \A i \in 0 .. Size - 1 : (Cell(i) # Zero) <=> (i - head) % Size < Length
  <2> TAKE i \in 0 .. Size - 1
  <2>1. buffer[i + 1] # Zero <=> Down(i - head, Size) < Held(buffer, head, tail)
    BY DEF RingInv, Good, Size
  <2> QED BY <2>1, RingTerms DEF Cell
<1> QED BY <1>1, <1>2, <1>3, <1>4 DEF ReadsAgree

LEMMA RingStarts == RingInit => RingInv /\ Ring!Init
<1> SUFFICES ASSUME RingInit PROVE RingInv /\ Ring!Init
  OBVIOUS
<1>1. PICK n \in InitialCells : buffer = [i \in 1 .. n |-> Zero]
  BY DEF RingInit
<1>2. n \in Nat \ {0} /\ head = 0 /\ tail = 0
  BY CellsAssumption DEF RingInit
<1>3. buffer \in Seq(Values \cup {Zero}) /\ Len(buffer) = n /\ \A i \in 1 .. n : buffer[i] = Zero
  BY <1>1, <1>2
<1>4. Held(buffer, head, tail) = 0
  BY <1>2, <1>3 DEF Held, Down
<1>5. RingInv
  <2>1. ASSUME NEW i \in 0 .. n - 1 PROVE buffer[i + 1] = Zero /\ ~(Down(i - head, n) < 0)
    BY <1>2, <1>3 DEF Down
  <2> QED BY <1>2, <1>3, <1>4, <2>1 DEF RingInv, Good
<1>6. Elements = << >>
  <2>1. Elements = Elems(buffer, head, tail) /\ Elements \in Seq(Values) /\ Len(Elements) = 0
    BY <1>4, <1>5, RingTerms, Places DEF RingInv
  <2> QED BY <2>1
<1> QED BY <1>5, <1>6 DEF Ring!Init

LEMMA PushSteps ==
  ASSUME RingInv, NEW v \in Values, Push(v)
  PROVE  RingInv' /\ Ring!Enqueue(v)
<1>0. PICK b, h, t : /\ b = (IF Full THEN Grown ELSE buffer)
                     /\ h = (IF Full THEN 0 ELSE head)
                     /\ t = (IF Full THEN Length ELSE tail)
  OBVIOUS
<1>1. /\ buffer' = [b EXCEPT ![t + 1] = v] /\ head' = h /\ tail' = (t + 1) % Len(b)
  BY <1>0 DEF Push, SetCell
<1>2. /\ Good(b, h, t) /\ Elems(b, h, t) = Elements /\ Up(t + 1, Len(b)) # h
      /\ (t + 1) % Len(b) = Up(t + 1, Len(b))
  <2>1. CASE ~Full
    <3>1. b = buffer /\ h = head /\ t = tail
      BY <1>0, <2>1
    <3>2. /\ (tail + 1) % Size = Up(tail + 1, Size) /\ Elements = Elems(buffer, head, tail)
          /\ Up(tail + 1, Size) # head
      BY <2>1, RingTerms DEF Full
    <3> QED BY <3>1, <3>2 DEF RingInv, Size
  <2>2. CASE Full
    <3> DEFINE z == GrownCapacity + 1 - Length
               e == Elements
    <3>1. b = Grown /\ h = 0 /\ t = Length
      BY <1>0, <2>2
    <3>2. Elements \in Seq(Values) /\ Len(Elements) = Length /\ Length \in Nat
      BY RingTerms, Places DEF RingInv
    <3>3. z \in Nat \ {0, 1}
      <4>1. GrownCapacity \in Nat /\ GrownCapacity >= Length + 2
        BY <3>2 DEF GrownCapacity
      <4> QED BY <3>2, <4>1
    <3>4. Grown = e \o [i \in 1 .. z |-> Zero]
      BY EachInOrder DEF Grown
    <3> HIDE DEF z, e
    <3>5. Good(Grown, 0, Length) /\ Len(Grown) = Length + z /\ Elems(Grown, 0, Length) = Elements
      BY <3>2, <3>3, <3>4, LaidOut DEF e
    <3>6. /\ Up(Length + 1, Length + z) = Length + 1 /\ (Length + 1) % (Length + z) = Length + 1
          /\ Length + 1 # 0
      <4>1. Length + z \in Nat \ {0} /\ Length + 1 < Length + z /\ Length + 1 \in Nat
        BY <3>2, <3>3
      <4>2. Length + 1 \in 0 .. 2 * (Length + z) - 1
        BY <4>1
      <4> QED BY <3>2, <4>1, <4>2, Wraps DEF Up
    <3> QED BY <3>1, <3>5, <3>6
  <2> QED BY <2>1, <2>2
<1>3. RingInv' /\ Elems(buffer', head', tail') = Append(Elements, v)
  <2>1. Written(buffer', b, t, v)
    BY <1>1 DEF Written
  <2> DEFINE c == buffer'
  <2> HIDE DEF c
  <2>2. /\ Good(c, h, Up(t + 1, Len(b)))
        /\ Elems(c, h, Up(t + 1, Len(b))) = Append(Elems(b, h, t), v)
    BY <1>2, <2>1, PushInRing DEF c
  <2> QED BY <1>1, <1>2, <2>2 DEF RingInv, c
<1>4. Elements' = Append(Elements, v)
  <2>1. (RingInv => Elements = Elems(buffer, head, tail))'
    BY RingTerms, PTL
  <2> QED BY <1>3, <2>1
<1> QED BY <1>3, <1>4 DEF Ring!Enqueue

LEMMA ElementsAfter == RingInv' => Elements' = Elems(buffer', head', tail')
<1>1. (RingInv => Elements = Elems(buffer, head, tail))'
  BY RingTerms, PTL
<1> QED BY <1>1

LEMMA PopSteps ==
  ASSUME RingInv, Pop
  PROVE  RingInv' /\ Ring!Dequeue
<1> DEFINE s == Size
<1>1. /\ buffer' = [buffer EXCEPT ![head + 1] = Zero] /\ head' = (head + 1) % s /\ tail' = tail
      /\ s \in Nat \ {0} /\ head \in 0 .. s - 1 /\ s = Len(buffer)
      /\ (head + 1) % s = Up(head + 1, s)
      /\ Elements = Elems(buffer, head, tail) /\ 1 \in 1 .. Held(buffer, head, tail)
  <2>1. 1 \in 0 .. s /\ 1 \in 1 .. Held(buffer, head, tail)
    BY RingTerms DEF Pop
  <2> QED BY <2>1, RingTerms DEF Pop, SetCell, Size
<1>2. buffer' = [j \in 1 .. s |-> IF Down(j - 1 - head, s) < 1 THEN Zero ELSE buffer[j]]
  <2>1. buffer \in Seq(Values \cup {Zero})
    BY DEF RingInv, Good
  <2>2. \A j \in 1 .. s : Down(j - 1 - head, s) < 1 <=> j = head + 1
    BY <1>1 DEF Down
  <2> DEFINE c == [j \in 1 .. s |-> IF Down(j - 1 - head, s) < 1 THEN Zero ELSE buffer[j]]
  <2>3. DOMAIN buffer = 1 .. s
    BY <1>1, <2>1
  <2>4. buffer' = [j \in 1 .. s |-> IF j = head + 1 THEN Zero ELSE buffer[j]]
    BY <1>1, <2>3
  <2> QED BY <2>2, <2>4
<1>3. RingInv' /\ Elems(buffer', head', tail') = SubSeq(Elements, 2, Len(Elements))
  <2>1. Good(buffer, head, tail) /\ 1 \in 1 .. Held(buffer, head, tail)
    BY <1>1 DEF RingInv
  <2>2. /\ Good(Zeroed(buffer, head, 1), Up(head + 1, Len(buffer)), tail)
        /\ Elems(Zeroed(buffer, head, 1), Up(head + 1, Len(buffer)), tail)
             = SubSeq(Elems(buffer, head, tail), 1 + 1, Len(Elems(buffer, head, tail)))
    BY <2>1, DropInRing
  <2> HIDE DEF s
  <2>3. s = Len(buffer) /\ head' = Up(head + 1, s) /\ tail' = tail
    BY <1>1
  <2>4. buffer' = Zeroed(buffer, head, 1)
    BY <1>2, <2>3 DEF Zeroed
  <2>5. 1 + 1 = 2 /\ Elements = Elems(buffer, head, tail)
    BY <1>1
  <2> QED BY <2>2, <2>3, <2>4, <2>5 DEF RingInv
<1>4. Elements \in Seq(Values) /\ Elements # << >>
  <2>1. Elements \in Seq(Values) /\ Len(Elements) # 0
    BY <1>1, Places DEF RingInv
  <2> QED BY <2>1
<1>5. SubSeq(Elements, 2, Len(Elements)) = Tail(Elements)
  BY <1>4, TailIsSubSeq
<1> QED BY <1>3, <1>4, <1>5, ElementsAfter DEF Ring!Dequeue

LEMMA PeekSteps ==
  ASSUME RingInv, NEW v \in Values, Peek(v)
  PROVE  RingInv' /\ Ring!ReplaceHead(v)
<1>1. /\ buffer' = [buffer EXCEPT ![head + 1] = v] /\ head' = head /\ tail' = tail /\ head # tail
      /\ Elements = Elems(buffer, head, tail)
  BY RingTerms DEF Peek, SetCell, Empty
<1>2. RingInv' /\ Elems(buffer', head', tail') = <<v>> \o Tail(Elements)
  <2> DEFINE c == [buffer EXCEPT ![head + 1] = v]
  <2>1. Good(c, head, tail) /\ Elems(c, head, tail) = <<v>> \o Tail(Elements)
    BY <1>1, WriteInRing DEF RingInv
  <2> QED BY <1>1, <2>1 DEF RingInv
<1>3. Elements # << >>
  <2>1. Elements \in Seq(Values) /\ Len(Elements) # 0
    BY <1>1, RingTerms, Places DEF RingInv, Empty
  <2> QED BY <2>1
<1> QED BY <1>2, <1>3, ElementsAfter DEF Ring!ReplaceHead

LEMMA DiscardSteps ==
  ASSUME RingInv, NEW n \in Nat \ {0}, Discard(n)
  PROVE  RingInv' /\ \E k \in 1 .. Len(Elements) : Ring!DropFirst(k)
<1>0. PICK k, s : k = (IF n >= Length THEN Length ELSE n) /\ s = Size
  OBVIOUS
<1>1. /\ s \in Nat \ {0} /\ head \in 0 .. s - 1 /\ s = Len(buffer)
      /\ k \in 1 .. Held(buffer, head, tail) /\ k \in 0 .. s
      /\ (head + k) % s = Up(head + k, s)
      /\ Elements = Elems(buffer, head, tail) /\ Len(Elements) = Held(buffer, head, tail)
      /\ \A i \in 0 .. s - 1 : (i - head) % s = Down(i - head, s)
  <2>1. k \in 1 .. Held(buffer, head, tail) /\ k \in 0 .. s
    <3>1. /\ Length \in 0 .. s - 1 /\ Length = Held(buffer, head, tail) /\ Length # 0
          /\ s \in Nat \ {0}
      BY <1>0, RingTerms DEF Discard
    <3> QED BY <1>0, <3>1
  <2>2. Len(Elements) = Held(buffer, head, tail)
    BY RingTerms, Places DEF RingInv
  <2> QED BY <1>0, <2>1, <2>2, RingTerms DEF Size
<1>2. /\ buffer' = [j \in 1 .. s |-> IF (j - 1 - head) % s < k THEN Zero ELSE buffer[j]]
      /\ head' = Up(head + k, s) /\ tail' = tail
  BY <1>0, <1>1 DEF Discard
<1>3. buffer' = [j \in 1 .. s |-> IF Down(j - 1 - head, s) < k THEN Zero ELSE buffer[j]]
  <2>1. \A j \in 1 .. s : (j - 1 - head) % s = Down(j - 1 - head, s)
    <3> TAKE j \in 1 .. s
    <3>1. j - 1 \in 0 .. s - 1
      BY <1>1
    <3> QED BY <1>1, <3>1
  <2> QED BY <1>2, <2>1
<1>4. RingInv' /\ Elems(buffer', head', tail') = SubSeq(Elements, k + 1, Len(Elements))
  <2>1. Good(buffer, head, tail) /\ k \in 1 .. Held(buffer, head, tail)
    BY <1>1 DEF RingInv
  <2>2. /\ Good(Zeroed(buffer, head, k), Up(head + k, Len(buffer)), tail)
        /\ Elems(Zeroed(buffer, head, k), Up(head + k, Len(buffer)), tail)
             = SubSeq(Elems(buffer, head, tail), k + 1, Len(Elems(buffer, head, tail)))
    BY <2>1, DropInRing
  <2>3. buffer' = Zeroed(buffer, head, k) /\ s = Len(buffer)
    BY <1>1, <1>3 DEF Zeroed
  <2> QED BY <1>1, <1>2, <2>2, <2>3 DEF RingInv
<1>5. Ring!DropFirst(k) /\ k \in 1 .. Len(Elements)
  BY <1>1, <1>4, ElementsAfter DEF Ring!DropFirst
<1> QED BY <1>4, <1>5

LEMMA RingSteps == RingInv /\ [RingNext]_ringVars => RingInv' /\ [Ring!Next]_Elements
<1> SUFFICES ASSUME RingInv, [RingNext]_ringVars PROVE RingInv' /\ [Ring!Next]_Elements
  OBVIOUS
<1>1. ASSUME NEW v \in Values, Push(v) PROVE RingInv' /\ Ring!Next
  BY <1>1, PushSteps DEF Ring!Next
<1>2. ASSUME NEW v \in Values, Peek(v) PROVE RingInv' /\ Ring!Next
  BY <1>2, PeekSteps DEF Ring!Next
<1>3. ASSUME Pop PROVE RingInv' /\ Ring!Next
  BY <1>3, PopSteps DEF Ring!Next
<1>4. ASSUME NEW n \in 1 .. MaxLength + 1, Discard(n) PROVE RingInv' /\ Ring!Next
  <2>1. n \in Nat \ {0}
    BY LengthAssumption
  <2> QED BY <1>4, <2>1, DiscardSteps DEF Ring!Next
<1>5. ASSUME UNCHANGED ringVars PROVE RingInv' /\ UNCHANGED Elements
  BY <1>5 DEF ringVars, RingInv, Elements, Cell, Size
<1> QED BY <1>1, <1>2, <1>3, <1>4, <1>5 DEF RingNext

\* For rings of any size, however they wrapped and grew: pushes, pops, discards and writes
\* through Peek are those of one FIFO queue, and Len and both iterations tell what it holds.
THEOREM RingIsAQueue == RingSpec => ImplementsFifo
<1>1. RingSpec => Ring!Init /\ [][Ring!Next]_Elements /\ []ReadsAgree
  BY RingStarts, RingSteps, RingReads, PTL DEF RingSpec
<1> QED BY <1>1 DEF ImplementsFifo, Ring!Spec
-----------------------------------------------------------------------------
(* The theorems *)

\* For any block size and alignment: whatever the arena hands out starts within a block and
\* behind all that was given of it before, and lies in the block, except for the places that
\* AllocateAligned returns in the current block, whose bytes it does not keep; these are
\* aligned just for multiples of the alignment, and all others it returns always.  And the
\* count of the memory is what the blocks take.
THEOREM ArenaKeepsPiecesApart == ArenaInit /\ [][ArenaNext]_arenaVars => []ArenaApart
BY ArenaStarts, ArenaKept, ArenaKeepsApart, PTL

\* For any letters and lengths: each string holds the text that the calls made of it, with
\* the terminator behind it and room for both.
THEOREM StringsHoldTheirTexts == StringInit /\ [][StringNext]_stringVars => []StringsHold
BY StringStarts, StringKept, StringKeeps, PTL

\* For any keys, hashes and first number of buckets: through every doubling and halving the
\* table holds each key once, in its bucket, with the value last given.
THEOREM TableIsAMap == TableInit /\ [][TableNext]_tableVars => []TableMaps
BY TableStarts, TableKept, TableKeeps, PTL

\* For any values and any height: whatever heights are drawn the skip list finds what it
\* holds, and each of its levels is the order of level 0 without the lower nodes.
THEOREM SkipListHolds == SkipInit /\ [][SkipNext]_skipVars => []SkipHolds
BY SkipStarts, SkipKept, SkipKeeps, PTL
=============================================================================
