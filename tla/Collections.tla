---------------------------- MODULE Collections ----------------------------
(***************************************************************************)
(* Four data structures of one thread, each with a history of what its     *)
(* callers were promised: the chained hash table (Hash/HashTable.cc), the  *)
(* skip list (SkipList/Skiplist.cpp), the arena (Arena/Arena.cc) and the   *)
(* string (String/string.cc).  A call is a step.                           *)
(***************************************************************************)
EXTENDS Integers, FiniteSets, SequencesExt

-----------------------------------------------------------------------------
(* The hash table: each bucket is the list of its nodes, the newest first. *)

CONSTANTS TableKeys, TableValues,
          TableZero,         \* V{}
          Absent,            \* not a value
          Hashes,            \* bound: what hasher may return
          FirstBuckets       \* bound: the constructor's initial_buckets

ASSUME TableAssumption == /\ TableZero \in TableValues /\ Absent \notin TableValues
                          /\ Hashes \subseteq Nat /\ FirstBuckets \subseteq Nat \ {0}

VARIABLES hasher,            \* of each key
          buckets,           \* from 0
          num_elements,
          mapped             \* history: the value of each key

tableVars == <<hasher, buckets, num_elements, mapped>>

TableInit == /\ hasher \in [TableKeys -> Hashes]
             /\ \E n \in FirstBuckets : buckets = [i \in 0 .. n - 1 |-> << >>]
             /\ num_elements = 0
             /\ mapped = [k \in TableKeys |-> Absent]

Count(b) == Cardinality(DOMAIN b)
Index(b, k) == hasher[k] % Count(b)
At(b, k) == {i \in 1 .. Len(b[Index(b, k)]) : b[Index(b, k)][i].key = k}
First(b, k) == CHOOSE i \in At(b, k) : \A j \in At(b, k) : i <= j

\* What new bucket j of count is given by a list, which is taken from its front, each node
\* that goes to j put in front of those before it.
Given(list, j, count) ==
  LET Upto[i \in 0 .. Len(list)] ==
        IF i = 0 THEN << >>
        ELSE IF hasher[list[i].key] % count = j THEN <<list[i]>> \o Upto[i - 1] ELSE Upto[i - 1]
  IN  Upto[Len(list)]

\* Mutant: rehash walks the new buckets' share of the wrong old bucket.
RehashedHalf(b) == [j \in 0 .. (2 * Count(b)) - 1 |-> Given(b[j \div 2], j, 2 * Count(b))]

\* What goes to new bucket j is in the old one of the same remainder.
Rehashed(b) == [j \in 0 .. (2 * Count(b)) - 1 |-> Given(b[j % Count(b)], j, 2 * Count(b))]

\* max_load_factor is 0.75.
Roomy(b) == IF 4 * (num_elements + 1) > 3 * Count(b) THEN Rehashed(b) ELSE b

TableInsert(k, v) ==
  LET b == Roomy(buckets)
  IN  /\ IF At(b, k) # {}
         THEN /\ buckets' = [b EXCEPT ![Index(b, k)][First(b, k)].value = v]
              /\ UNCHANGED num_elements
         ELSE /\ buckets' = [b EXCEPT ![Index(b, k)] = <<[key |-> k, value |-> v]>> \o @]
              /\ num_elements' = num_elements + 1
      /\ mapped' = [mapped EXCEPT ![k] = v]
      /\ UNCHANGED hasher

\* operator[] inserts V{} for a key that is not there; its caller may then assign.
TableIndexed(k, v) ==
  IF At(buckets, k) = {} THEN TableInsert(k, v) /\ v = TableZero
  ELSE /\ buckets' = [buckets EXCEPT ![Index(buckets, k)][First(buckets, k)].value = v]
       /\ mapped' = [mapped EXCEPT ![k] = v]
       /\ UNCHANGED <<hasher, num_elements>>

TableErase(k) ==
  /\ At(buckets, k) # {}
  /\ buckets' = [buckets EXCEPT ![Index(buckets, k)] = RemoveAt(@, First(buckets, k))]
  /\ num_elements' = num_elements - 1
  /\ mapped' = [mapped EXCEPT ![k] = Absent]
  /\ UNCHANGED hasher

TableClear == /\ buckets' = [i \in DOMAIN buckets |-> << >>]
              /\ num_elements' = 0
              /\ mapped' = [k \in TableKeys |-> Absent]
              /\ UNCHANGED hasher

\* contains looks at the first node of the bucket only.
contains(k) == LET list == buckets[Index(buckets, k)] IN list # << >> /\ list[1].key = k

TableNext == \/ \E k \in TableKeys : \E v \in TableValues : TableInsert(k, v) \/ TableIndexed(k, v)
             \/ \E k \in TableKeys : TableErase(k)
             \/ TableClear

\* Through growth at any point the table maps the keys as its calls did, each key in one
\* node of its own bucket, counts them, and is never fuller than it may be; and contains
\* never finds a key that is not there.
TableMaps ==
  /\ \A k \in TableKeys :
       /\ Cardinality(At(buckets, k)) = IF mapped[k] = Absent THEN 0 ELSE 1
       /\ At(buckets, k) # {} => buckets[Index(buckets, k)][First(buckets, k)].value = mapped[k]
       /\ contains(k) => mapped[k] # Absent
  /\ \A i \in DOMAIN buckets : \A j \in 1 .. Len(buckets[i]) : Index(buckets, buckets[i][j].key) = i
  /\ num_elements = Cardinality({k \in TableKeys : mapped[k] # Absent})
  /\ 4 * num_elements <= 3 * Count(buckets)

-----------------------------------------------------------------------------
(* The skip list: level 0 links every node, level i those that are higher. *)

CONSTANTS SkipNodes,         \* bound: the addresses of nodes
          SkipHead, End,     \* head, and nullptr
          SkipVals,
          MaxHeight          \* kMaxHeight

ASSUME SkipAssumption == /\ SkipHead \notin SkipNodes /\ End \notin SkipNodes \cup {SkipHead}
                         /\ SkipVals \subseteq Int /\ MaxHeight \in Nat \ {0}

Levels == 0 .. MaxHeight - 1

VARIABLES skipVal,           \* of each node that is in use
          skipNext,          \* its next, of which there are height
          held               \* history: how many there should be of each value

skipVars == <<skipVal, skipNext, held>>

SkipInit == /\ skipVal = << >>
            /\ skipNext = [n \in {SkipHead} |-> [l \in Levels |-> End]]
            /\ held = [v \in SkipVals |-> 0]

\* Mutant: the search goes on past equal values.
GoesPast(n, target) == n # End /\ skipVal[n] <= target

Goes(n, target) == n # End /\ skipVal[n] < target

\* The nodes that are as high as level l, and where the search leaves the level from each.
Linked(l) == {n \in DOMAIN skipNext : l \in DOMAIN skipNext[n]}
Along(l, target) ==
  LET From[n \in Linked(l)] ==
        IF Goes(skipNext[n][l], target) THEN From[skipNext[n][l]] ELSE n
  IN  From

\* findEqualOrGreater: prev[l] on each level, down from prev[l + 1].
FindPrev(target) ==
  LET Prev[d \in Levels] ==      \* d levels down
        Along(MaxHeight - 1 - d, target)[IF d = 0 THEN SkipHead ELSE Prev[d - 1]]
  IN  [l \in Levels |-> Prev[MaxHeight - 1 - l]]
FindEqualOrGreater(target) == skipNext[FindPrev(target)[0]][0]

search(target) == LET n == FindEqualOrGreater(target) IN n # End /\ skipVal[n] = target

\* getRandomHeight, but for the height above kMaxHeight, with which add leaves its array.
SkipAdd(num, height) ==
  LET prev == FindPrev(num)
      n == CHOOSE n \in SkipNodes : n \notin DOMAIN skipNext
  IN  /\ ~(SkipNodes \subseteq DOMAIN skipNext)
      /\ skipVal' = [m \in DOMAIN skipVal \cup {n} |-> IF m = n THEN num ELSE skipVal[m]]
      /\ skipNext' = [m \in DOMAIN skipNext \cup {n} |->
                        IF m = n THEN [l \in 0 .. height - 1 |-> skipNext[prev[l]][l]]
                        ELSE [l \in DOMAIN skipNext[m] |->
                                IF l < height /\ m = prev[l] THEN n ELSE skipNext[m][l]]]
      /\ held' = [held EXCEPT ![num] = @ + 1]

SkipErase(num) ==
  LET prev == FindPrev(num)
      gone == FindEqualOrGreater(num)
  IN  /\ search(num)
      /\ skipVal' = [m \in DOMAIN skipVal \ {gone} |-> skipVal[m]]
      /\ skipNext' = [m \in DOMAIN skipNext \ {gone} |->
                        [l \in DOMAIN skipNext[m] |->
                           IF l \in DOMAIN skipNext[gone] /\ m = prev[l] THEN skipNext[gone][l]
                           ELSE skipNext[m][l]]]
      /\ held' = [held EXCEPT ![num] = @ - 1]

SkipNext == \E num \in SkipVals : SkipErase(num) \/ \E h \in 1 .. MaxHeight : SkipAdd(num, h)

\* The nodes of a level from head on, at most as many as there are, and End.
Row(l) == LET Upto[k \in 0 .. Cardinality(DOMAIN skipVal) + 1] ==
                IF k = 0 THEN <<SkipHead>>
                ELSE LET n == Last(Upto[k - 1])
                     IN  IF n = End THEN Upto[k - 1] ELSE Append(Upto[k - 1], skipNext[n][l])
          IN  Upto[Cardinality(DOMAIN skipVal) + 1]

\* Whatever heights are drawn, each value is there as often as it was added and not
\* erased and is found just then; level 0 links every node, none of them deleted, in the
\* order of the values, and every level those that are as high, in the order of level 0.
SkipHolds ==
  /\ \A v \in SkipVals : /\ Cardinality({n \in DOMAIN skipVal : skipVal[n] = v}) = held[v]
                         /\ search(v) <=> held[v] > 0
  /\ LET order == Row(0)
         Place(n) == CHOOSE i \in DOMAIN order : order[i] = n
     IN  /\ ToSet(order) = DOMAIN skipVal \cup {SkipHead, End} /\ Last(order) = End
         /\ \A k \in 2 .. Len(order) - 2 : skipVal[order[k]] <= skipVal[order[k + 1]]
         /\ \A l \in Levels :
              LET row == Row(l)
              IN  /\ ToSet(row) = Linked(l) \cup {End}
                  /\ \A i \in 1 .. Len(row) - 1 : Place(row[i]) < Place(row[i + 1])

-----------------------------------------------------------------------------
(* The arena: memory is the block's number and the place in it, which new  *)
(* aligns.  assert(bytes > 0) is the callers' duty.  Where the assertion   *)
(* that ends AllocateAligned fails, the place is returned as it is when    *)
(* assertions are compiled out; ArenaApart says where it holds.            *)

CONSTANTS BlockSize, Align, PointerSize,
          Requests,          \* bound: the bytes that are asked for
          MaxBlocks          \* bound: no call once there are so many blocks

ASSUME ArenaAssumption == /\ BlockSize \in Nat \ {0} /\ Align \in Nat \ {0} /\ PointerSize \in Nat
                          /\ Requests \subseteq Nat \ {0} /\ MaxBlocks \in Nat

VARIABLES blocks,            \* their sizes
          alloc_ptr, alloc_bytes_remaining, memory_usage,
          given              \* history: the place each call returned, and what it asked for

arenaVars == <<blocks, alloc_ptr, alloc_bytes_remaining, memory_usage, given>>

ArenaInit == /\ blocks = << >> /\ given = << >>
             /\ alloc_ptr = [block |-> 0, at |-> 0]     \* nullptr
             /\ alloc_bytes_remaining = 0 /\ memory_usage = 0

\* alloc_ptr_ moves on by bytes.
Bump(bytes) == /\ alloc_ptr' = [alloc_ptr EXCEPT !.at = @ + bytes]
               /\ alloc_bytes_remaining' = alloc_bytes_remaining - bytes
               /\ UNCHANGED <<blocks, memory_usage>>

\* aligned: AllocateAligned was asked; shifted: it returned a place of the current block.
Gives(block, at, bytes, aligned, shifted) ==
  given' = Append(given, [block |-> block, at |-> at, bytes |-> bytes,
                          aligned |-> aligned, shifted |-> shifted])

AllocateNewBlock(bytes) == /\ blocks' = Append(blocks, bytes)
                           /\ memory_usage' = memory_usage + bytes + PointerSize

\* Mutant: what is left of the old block is not forgotten.
AllocateFallBackKeeps(bytes, aligned) ==
  /\ Gives(Len(blocks) + 1, 0, bytes, aligned, FALSE)
  /\ IF bytes > BlockSize \div 4
     THEN AllocateNewBlock(bytes) /\ UNCHANGED <<alloc_ptr, alloc_bytes_remaining>>
     ELSE /\ AllocateNewBlock(BlockSize)
          /\ alloc_ptr' = [block |-> Len(blocks) + 1, at |-> bytes]
          /\ alloc_bytes_remaining' = BlockSize

\* More than a quarter of a block gets a block of its own.
AllocateFallBack(bytes, aligned) ==
  /\ Gives(Len(blocks) + 1, 0, bytes, aligned, FALSE)
  /\ IF bytes > BlockSize \div 4
     THEN AllocateNewBlock(bytes) /\ UNCHANGED <<alloc_ptr, alloc_bytes_remaining>>
     ELSE /\ AllocateNewBlock(BlockSize)
          /\ alloc_ptr' = [block |-> Len(blocks) + 1, at |-> bytes]
          /\ alloc_bytes_remaining' = BlockSize - bytes

Allocate(bytes) == \/ /\ bytes <= alloc_bytes_remaining
                      /\ Gives(alloc_ptr.block, alloc_ptr.at, bytes, FALSE, FALSE)
                      /\ Bump(bytes)
                   \/ bytes > alloc_bytes_remaining /\ AllocateFallBack(bytes, FALSE)

\* From the current block it returns the place behind what it takes: the next call of
\* Allocate returns it too.
AllocateAligned(bytes) ==
  LET needed == bytes + ((-alloc_ptr.at) % Align)
  IN  \/ /\ needed <= alloc_bytes_remaining
         /\ Gives(alloc_ptr.block, alloc_ptr.at + needed, bytes, TRUE, TRUE)
         /\ Bump(needed)
      \/ needed > alloc_bytes_remaining /\ AllocateFallBack(bytes, TRUE)

ArenaNext == /\ Len(blocks) < MaxBlocks
             /\ \E bytes \in Requests : Allocate(bytes) \/ AllocateAligned(bytes)

\* Each block counts with the pointer to it.
Counted(sizes) == LET Upto[i \in 0 .. Len(sizes)] ==
                        IF i = 0 THEN 0 ELSE Upto[i - 1] + sizes[i] + PointerSize
                  IN  Upto[Len(sizes)]

\* Whatever calls are mixed, a place that is returned starts within a block, behind all
\* bytes given before, and the bytes asked for lie in the block, except for the places that
\* AllocateAligned returns in the current block: they start behind what was taken for them,
\* and their bytes are left to later calls or to none.  AllocateAligned returns an aligned
\* place, as it asserts, from a new block and, from the current one, just for multiples of
\* the alignment, which arena_test.cc asks for.  And the blocks are counted.
ArenaApart ==
  /\ \A i \in 1 .. Len(given) :
       LET r == given[i]
       IN  /\ r.at <= blocks[r.block]
           /\ r.shifted \/ r.at + r.bytes <= blocks[r.block]
           /\ r.aligned => (r.at % Align = 0 <=> (r.shifted => r.bytes % Align = 0))
           /\ \A j \in 1 .. i - 1 : \/ given[j].shifted \/ given[j].block # r.block
                                    \/ given[j].at + given[j].bytes <= r.at
  /\ memory_usage = Counted(blocks)

-----------------------------------------------------------------------------
(* The string: two of them, which copy and move from each other.           *)

CONSTANTS Strings, Letters,
          Nul, Junk,         \* the terminator, and what new leaves in an array
          MinCapacity,       \* s_min_capacity
          MaxSize            \* bound on the length of a text

ASSUME StringAssumption == /\ Nul \notin Letters /\ Junk \notin Letters \cup {Nul}
                           /\ MinCapacity \in Nat /\ MaxSize \in Nat

VARIABLES str,               \* data_, from 0, << >> for nullptr; size_ and capacity_
          meant              \* history: the text of each

stringVars == <<str, meant>>

Texts == UNION {[1 .. n -> Letters] : n \in 0 .. 2}     \* bound: what is passed

\* memcpy of what is at from, of a text that starts there, and of the terminator.
Copied(data, at, text) == [i \in DOMAIN data |-> IF i \in at .. at + Len(text) - 1 THEN text[i - at + 1]
                                                 ELSE IF i = at + Len(text) THEN Nul ELSE data[i]]
NewArray(capacity) == [i \in 0 .. capacity |-> Junk]
Content(s) == [i \in 1 .. s.size |-> s.data[i - 1]]

Constructed(text) == LET capacity == Max({Len(text), MinCapacity})
                     IN  [data |-> Copied(NewArray(capacity), 0, text), size |-> Len(text),
                          capacity |-> capacity]

StringInit == /\ str = [s \in Strings |-> Constructed(<< >>)]
              /\ meant = [s \in Strings |-> << >>]

\* realloc_data.
Reallocated(s, n) == LET capacity == Max({n, MinCapacity})
                     IN  [s EXCEPT !.data = Copied(NewArray(capacity), 0, Content(s)),
                                   !.capacity = capacity]
Reserved(s, n) == IF n > s.capacity THEN Reallocated(s, n) ELSE s

\* Mutant: the room is tested for what is appended only.
AppendedBlindly(s, text) ==
  LET roomy == IF Len(text) > s.capacity THEN Reserved(s, (Len(text) + s.size) * 2) ELSE s
  IN  [roomy EXCEPT !.data = Copied(roomy.data, s.size, text), !.size = s.size + Len(text)]

Appended(s, text) ==
  LET roomy == IF Len(text) + s.size > s.capacity THEN Reserved(s, (Len(text) + s.size) * 2) ELSE s
  IN  [roomy EXCEPT !.data = Copied(roomy.data, s.size, text), !.size = s.size + Len(text)]

\* A string that was moved from has no array: it may be assigned, destroyed, given room,
\* and appended to if that gives it room, and no more.
Moved(s) == str[s].data = << >>

StringNew(s, text) == /\ str' = [str EXCEPT ![s] = Constructed(text)]
                      /\ meant' = [meant EXCEPT ![s] = text]
StringAppend(s, text) == /\ Moved(s) => Len(text) > str[s].capacity
                         /\ Len(meant[s]) + Len(text) <= MaxSize
                         /\ str' = [str EXCEPT ![s] = Appended(str[s], text)]
                         /\ meant' = [meant EXCEPT ![s] = @ \o text]
StringReserve(s, n) == /\ str' = [str EXCEPT ![s] = Reserved(str[s], n)]
                       /\ UNCHANGED meant
StringShrink(s) == /\ str[s].size < str[s].capacity
                   /\ str' = [str EXCEPT ![s] = Reallocated(str[s], str[s].size)]
                   /\ UNCHANGED meant

\* The copying constructor and assignment: an array of other's capacity.
StringCopy(s, other) ==
  /\ s # other /\ ~Moved(other)
  /\ str' = [str EXCEPT ![s] = [str[other] EXCEPT
               !.data = Copied(NewArray(str[other].capacity), 0, Content(str[other]))]]
  /\ meant' = [meant EXCEPT ![s] = meant[other]]

\* The moving constructor takes other's capacity, the assignment leaves it.
StringMove(s, other, left) ==
  /\ s # other
  /\ str' = [str EXCEPT ![s] = str[other], ![other] = [data |-> << >>, size |-> 0, capacity |-> left]]
  /\ meant' = [meant EXCEPT ![s] = meant[other], ![other] = << >>]

StringNext ==
  \E s \in Strings :
    \/ \E text \in Texts : StringNew(s, text) \/ StringAppend(s, text)
    \/ \E n \in 0 .. MaxSize : StringReserve(s, n)
    \/ StringShrink(s)
    \/ \E other \in Strings :
         StringCopy(s, other) \/ \E left \in {0, str[other].capacity} : StringMove(s, other, left)

\* Through every mixture of copies, moves, growth and shrinking a string holds its text
\* and the terminator within its array, and has an array unless it was moved from.
StringsHold ==
  \A s \in Strings :
    /\ str[s].size = Len(meant[s])
    /\ IF Moved(s) THEN meant[s] = << >>
       ELSE /\ DOMAIN str[s].data = 0 .. str[s].capacity /\ str[s].size <= str[s].capacity
            /\ Content(str[s]) = meant[s] /\ str[s].data[str[s].size] = Nul
=============================================================================
