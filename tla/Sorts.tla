-------------------------------- MODULE Sorts --------------------------------
(***************************************************************************)
(* Sort/, Merge/, Binary Search/, Permutation/ and other programs that     *)
(* rearrange an array or look something up in it.  Where the code asks for *)
(* a random number the operator is the set of the outcomes.                *)
(***************************************************************************)
EXTENDS Loops, FiniteSets

bubbleSort(arr) ==
  For(LAMBDA a, i : For(LAMBDA b, j : IF b[j] > b[j + 1] THEN Swapped(b, j, j + 1) ELSE b,
                        a, 1, Len(arr) - i),
      arr, 1, Len(arr))

\* Mutant: smaller entries only, the array's own value left out.
RanksBelow(key, v) == Cardinality({i \in DOMAIN key : key[i] < v})

\* cnt after the prefix sums: how many keys are at most v.
Ranks(key, v) == Cardinality({i \in DOMAIN key : key[i] <= v})

\* The pass from the back that puts each element at its key's rank.
countingSort(arr, key, keys) ==
  ForDown(LAMBDA s, i : [b |-> [s.b EXCEPT ![s.cnt[key[i]]] = arr[i]],
                         cnt |-> [s.cnt EXCEPT ![key[i]] = @ - 1]],
          [b |-> arr, cnt |-> [k \in keys |-> Ranks(key, k)]], Len(arr), 1).b

Greatest(arr) == CHOOSE m \in {arr[i] : i \in DOMAIN arr} : \A i \in DOMAIN arr : arr[i] <= m

countingSortAll(arr) == countingSort(arr, arr, 0 .. Greatest(arr))

radixSort(arr) ==
  While(LAMBDA s : s.exp <= Greatest(arr),
        LAMBDA s : [a |-> countingSort(s.a, [i \in DOMAIN s.a |-> (s.a[i] \div s.exp) % 10], 0 .. 9),
                    exp |-> s.exp * 10],
        [a |-> arr, exp |-> 1]).a

\* Mutant: the left child always.
LeftChild(nums, ch, r) == ch

\* The greater of the children of a node whose left child is ch.
GreaterChild(nums, ch, r) == IF ch < r /\ nums[ch + 1] > nums[ch] THEN ch + 1 ELSE ch

siftDown(nums, l, r) ==
  While(LAMBDA s : s.pa * 2 <= r /\ s.a[s.pa] < s.a[GreaterChild(s.a, s.pa * 2, r)],
        LAMBDA s : LET ch == GreaterChild(s.a, s.pa * 2, r)
                   IN  [a |-> Swapped(s.a, s.pa, ch), pa |-> ch],
        [a |-> nums, pa |-> l]).a

heapSort(nums) ==
  LET heap == ForDown(LAMBDA a, i : siftDown(a, i, Len(nums)), nums, Len(nums) - 1, 1)
  IN  ForDown(LAMBDA a, i : siftDown(Swapped(a, i, 1), 1, i - 1), heap, Len(nums), 2)

\* Where tmp goes when the elements before i that are greater move up by gap.
Slide(arr, i, gap, tmp) ==
  LET s == While(LAMBDA t : t.j > gap /\ t.a[t.j - gap] > tmp,
                 LAMBDA t : [a |-> [t.a EXCEPT ![t.j] = t.a[t.j - gap]], j |-> t.j - gap],
                 [a |-> arr, j |-> i])
  IN  [s.a EXCEPT ![s.j] = tmp]

insertionSort(arr) == For(LAMBDA a, i : Slide(a, i, 1, a[i]), arr, 2, Len(arr))

shellSort(arr) ==
  While(LAMBDA s : s.gap >= 1,
        LAMBDA s : [a |-> For(LAMBDA a, i : Slide(a, i, s.gap, a[i]), s.a, s.gap + 1, Len(arr)),
                    gap |-> s.gap \div 2],
        [a |-> arr, gap |-> Len(arr) \div 2]).a

selectionSort(arr) ==
  For(LAMBDA a, i :
        Swapped(a, For(LAMBDA mn, j : IF a[j] < a[mn] THEN j ELSE mn, i, i + 1, Len(arr)), i),
      arr, 1, Len(arr))

\* The merge of two sorted runs; the left one goes first among equals.
RECURSIVE Merged(_, _)
Merged(u, v) == IF u = << >> \/ v = << >> THEN u \o v
                ELSE IF Head(v) < Head(u) THEN <<Head(v)>> \o Merged(u, Tail(v))
                ELSE <<Head(u)>> \o Merged(Tail(u), v)

RECURSIVE mergeSort(_, _, _)
mergeSort(nums, l, r) ==
  IF l >= r THEN nums
  ELSE LET mid == l + (r - l) \div 2
           halves == mergeSort(mergeSort(nums, l, mid), mid + 1, r)
       IN  Overwritten(halves, l, Merged(SubSeq(halves, l, mid), SubSeq(halves, mid + 1, r)))

\* Merge.cpp: the sorted array and its number of inversions.
RECURSIVE inversions(_, _, _)
inversions(nums, l, r) ==
  IF l >= r THEN [a |-> nums, cnt |-> 0]
  ELSE LET mid == l + (r - l) \div 2
           left == inversions(nums, l, mid)
           both == inversions(left.a, mid + 1, r)
           cross == For(LAMBDA s, i :
                          LET j == While(LAMBDA k : k <= r /\ both.a[k] < both.a[i],
                                         LAMBDA k : k + 1, s.j)
                          IN  [cnt |-> s.cnt + j - mid - 1, j |-> j],
                        [cnt |-> 0, j |-> mid + 1], l, mid)
       IN  [a |-> Overwritten(both.a, l, Merged(SubSeq(both.a, l, mid), SubSeq(both.a, mid + 1, r))),
            cnt |-> left.cnt + both.cnt + cross.cnt]

\* The partition in three: less than the pivot before j, greater from k on.
Partition(nums, l, r, pivot) ==
  While(LAMBDA s : s.i < s.k,
        LAMBDA s : IF s.a[s.i] > pivot
                     THEN [s EXCEPT !.a = Swapped(s.a, s.i, s.k - 1), !.k = @ - 1]
                   ELSE IF s.a[s.i] < pivot
                     THEN [s EXCEPT !.a = Swapped(s.a, s.i, s.j), !.i = @ + 1, !.j = @ + 1]
                   ELSE [s EXCEPT !.i = @ + 1],
        [a |-> nums, i |-> l, j |-> l, k |-> r + 1])

\* quickSort for every choice of the pivots.
RECURSIVE quickSort(_, _, _)
quickSort(nums, l, r) ==
  IF l >= r THEN {nums}
  ELSE UNION {LET p == Partition(nums, l, r, nums[m])
              IN  UNION {quickSort(a, p.k, r) : a \in quickSort(p.a, l, p.j - 1)} : m \in l .. r}

\* The ranges left on the stack, the top one last.
RECURSIVE quickSortIterative(_, _)
quickSortIterative(arr, st) ==
  IF st = << >> THEN {arr}
  ELSE LET l == st[Len(st)][1]
           r == st[Len(st)][2]
           rest == SubSeq(st, 1, Len(st) - 1)
       IN  UNION {LET p == Partition(arr, l, r, arr[m])
                  IN  quickSortIterative(p.a,
                        rest \o (IF p.j - 1 > l THEN <<<<l, p.j - 1>>>> ELSE << >>)
                             \o (IF p.k < r THEN <<<<p.k, r>>>> ELSE << >>)) : m \in l .. r}

\* The three binary searches: half open, closed and open intervals, which are empty when
\* r - l < gap; 0 for -1.
binarySearch(nums, target, from, to, gap, down, up) ==
  While(LAMBDA t : t.at = 0 /\ t.l + gap <= t.r,
        LAMBDA t : LET mid == t.l + (t.r - t.l) \div 2
                   IN  IF nums[mid] = target THEN [t EXCEPT !.at = mid]
                       ELSE IF nums[mid] > target THEN [t EXCEPT !.r = mid - down]
                       ELSE [t EXCEPT !.l = mid + up],
        [at |-> 0, l |-> from, r |-> to]).at
binarySearch1(nums, x) == binarySearch(nums, x, 1, Len(nums) + 1, 1, 0, 1)
binarySearch2(nums, x) == binarySearch(nums, x, 1, Len(nums), 0, 1, 1)
binarySearch3(nums, x) == binarySearch(nums, x, 0, Len(nums) + 1, 2, 0, 0)

\* The next permutation, or the array itself and FALSE.
nextPermutation(nums) ==
  LET n == Len(nums)
      i == While(LAMBDA k : k >= 1 /\ nums[k] >= nums[k + 1], LAMBDA k : k - 1, n - 1)
      j == While(LAMBDA k : k >= 1 /\ nums[k] <= nums[i], LAMBDA k : k - 1, n)
      swapped == Swapped(nums, i, j)
  IN  IF i < 1 THEN [ok |-> FALSE, a |-> nums]
      ELSE [ok |-> TRUE, a |-> [k \in 1 .. n |-> swapped[IF k <= i THEN k ELSE n + i + 1 - k]]]

MooreVoting(nums) ==
  ForEachOf(LAMBDA s, x : IF x = s.major THEN [s EXCEPT !.cnt = @ + 1]
                          ELSE IF s.cnt - 1 < 0 THEN [major |-> x, cnt |-> 1]
                          ELSE [s EXCEPT !.cnt = @ - 1],
            [major |-> nums[1], cnt |-> 0], nums).major

wiggleSort(arr) ==
  For(LAMBDA a, i : IF \/ i % 2 = 0 /\ a[i] < a[i - 1]
                       \/ i % 2 = 1 /\ a[i] > a[i - 1]
                    THEN Swapped(a, i, i - 1) ELSE a,
      arr, 2, Len(arr))

\* Moves to the front that sort an order of 1 .. n.
minMovesToSort(arr) ==
  LET s == ForDown(LAMBDA t, i : IF arr[i] = t.need THEN [suf |-> t.suf + 1, need |-> t.need - 1]
                                 ELSE t,
                   [suf |-> 0, need |-> Len(arr)], Len(arr), 1)
  IN  Len(arr) - s.suf

reservoirSampling(input, k) ==
  For(LAMBDA rs, i : UNION {IF j <= k THEN {[r EXCEPT ![j] = input[i]] : r \in rs} ELSE rs :
                            j \in 1 .. i},
      {SubSeq(input, 1, k)}, k + 1, Len(input))

KnuthShuffle(n) ==
  For(LAMBDA ps, i : {Swapped(p, i, j) : p \in ps, j \in 1 .. n}, {[i \in 1 .. n |-> i]}, 1, n)

\* size and max_increment are positive where the loop is reached.
randomIncrementArray(size, start_val, max_increment) ==
  IF size <= 0 \/ max_increment <= 0 THEN {<< >>}
  ELSE For(LAMBDA as, i : {Append(a, a[i - 1] + d) : a \in as, d \in 1 .. max_increment},
           {<<start_val>>}, 2, size)
-----------------------------------------------------------------------------
(* What they compute, and what they are for *)

\* Everything that is computed of an array, in one record.
SortsOf(arr) ==
  LET sorted == mergeSort(arr, 1, Len(arr))
  IN  [sorted |-> {bubbleSort(arr), countingSortAll(arr), radixSort(arr), heapSort(arr),
                   insertionSort(arr), shellSort(arr), selectionSort(arr), sorted,
                   inversions(arr, 1, Len(arr)).a}
                  \cup quickSort(arr, 1, Len(arr)) \cup quickSortIterative(arr, <<<<1, Len(arr)>>>>),
       inversions |-> inversions(arr, 1, Len(arr)).cnt,
       next |-> nextPermutation(arr),
       major |-> MooreVoting(arr),
       wiggled |-> wiggleSort(arr),
       found |-> [x \in UNION {{arr[i], arr[i] + 1} : i \in DOMAIN arr} |->
                    {binarySearch1(sorted, x), binarySearch2(sorted, x), binarySearch3(sorted, x)}]]

\* Everything that is computed of an order of 1 .. n.
OrdersOf(order) ==
  LET n == Len(order)
  IN  [moves |-> minMovesToSort(order),
       samples |-> [k \in 1 .. n |-> reservoirSampling(order, k)],
       shuffles |-> KnuthShuffle(n),
       increments |-> randomIncrementArray(n, -order[1], order[n])]

Orders(n) == {p \in [1 .. n -> 1 .. n] : \A i, j \in 1 .. n : p[i] = p[j] => i = j}

Rearranges(a, b) == \A x \in {a[i] : i \in DOMAIN a} \cup {b[i] : i \in DOMAIN b} :
                      Cardinality({i \in DOMAIN a : a[i] = x}) = Cardinality({i \in DOMAIN b : b[i] = x})

Ordered(a) == \A i \in 1 .. Len(a) - 1 : a[i] <= a[i + 1]

Before(a, b) == \E i \in DOMAIN a : a[i] < b[i] /\ \A j \in 1 .. i - 1 : a[j] = b[j]

\* The fewest moves to the front after which one of the orders is sorted.
RECURSIVE FewestMoves(_)
FewestMoves(orders) ==
  IF \E p \in orders : Ordered(p) THEN 0
  ELSE 1 + FewestMoves({<<p[i]>> \o SubSeq(p, 1, i - 1) \o SubSeq(p, i + 1, Len(p)) :
                        p \in orders, i \in 1 .. Cardinality(DOMAIN CHOOSE p \in orders : TRUE)})

\* Every sort, whatever the pivots, puts every array in order and keeps its elements; the
\* merge counts the inversions, the searches find what is there and nothing else, the
\* next permutation is the next in lexicographic order, the vote finds a majority, and the
\* wiggle goes up and down.
SortedRight(arr, out) ==
  LET n == Len(arr)
      others == {[i \in 1 .. n |-> arr[p[i]]] : p \in Orders(n)}
      nearer == {b \in others : Before(arr, b)}
  IN  /\ \A a \in out.sorted : Ordered(a) /\ Rearranges(arr, a)
      /\ out.inversions = Cardinality({<<i, j>> \in (1 .. n) \X (1 .. n) : i < j /\ arr[i] > arr[j]})
      /\ \A x \in DOMAIN out.found : \A at \in out.found[x] : \A a \in out.sorted :
           IF at = 0 THEN \A i \in 1 .. n : a[i] # x ELSE a[at] = x
      /\ IF out.next.ok THEN out.next.a \in nearer /\ \A b \in nearer : ~Before(b, out.next.a)
         ELSE nearer = {}
      /\ \A x \in {arr[i] : i \in 1 .. n} :
           2 * Cardinality({i \in 1 .. n : arr[i] = x}) > n => out.major = x
      /\ Rearranges(arr, out.wiggled)
      /\ \A i \in 1 .. n - 1 : IF i % 2 = 1 THEN out.wiggled[i] <= out.wiggled[i + 1]
                               ELSE out.wiggled[i] >= out.wiggled[i + 1]

\* The moves counted are the fewest that sort the order; a sample is k different elements
\* and may be any k of them; a shuffle may be any order; and increments are what the tests
\* of randomIncrement.cc ask for.
OrdersRight(order, out) ==
  LET n == Len(order)
  IN  /\ out.moves = FewestMoves({order})
      /\ \A k \in 1 .. n : {{r[i] : i \in 1 .. k} : r \in out.samples[k]}
                             = {s \in SUBSET (1 .. n) : Cardinality(s) = k}
      /\ out.shuffles = Orders(n)
      /\ Cardinality(out.increments) = order[n] ^ (n - 1)
      /\ \A a \in out.increments : /\ Len(a) = n /\ a[1] = -order[1]
                                   /\ \A i \in 2 .. n : a[i] - a[i - 1] \in 1 .. order[n]
=============================================================================
