---------------------------- MODULE MCAlgorithms ----------------------------
(***************************************************************************)
(* The sequential algorithms for TLC: an input is chosen, everything that  *)
(* is computed of it is computed, and a reference says what it must be.    *)
(***************************************************************************)
EXTENDS Sorts, NumberTheory, Strings, GraphsAndTrees, Hashing

CONSTANTS Numbers,      \* what arrays hold
          MaxArray,     \* their length
          MaxNumber, Years,
          Samples, MaxString,
          Letters, MaxText, MaxPattern,
          ArcWeights, EdgeWeights, MaxTree,
          KeyLengths, MessageLengths

VARIABLES family, input, out, done

vars == <<family, input, out, done>>

\* Hands for the game of 24: main's, one that needs fractions twice, one that loses.
Hands == {<<8, 7, 4, 1>>, <<3, 3, 8, 8>>, <<1, 1, 1, 1>>, <<24, 0>>, <<2, 12>>, <<5, 5, 1>>}

\* Pairs of numbers to base -3, and boards with the square where the tour begins.
NegPairs == {<<a, b>> : a, b \in {s \in SeqsUpTo(0 .. 2, 3) : s # << >> /\ (s[1] = 0 => Len(s) = 1)}}
Words == {<< >>, <<1>>, <<2>>, <<1, 1>>, <<1, 2>>, <<2, 1, 2>>, <<1, 2, 1>>, <<1, 1, 2, 1>>, <<2, 1, 2, 1, 2>>}
Boards == {<<n, a, b>> : n \in {4, 5}, a, b \in {1, 2}} \cup {<<6, 1, 1>>, <<6, 3, 4>>}

\* Directed graphs of three nodes and Dijkstra.cpp's; graphs of four nodes.
Matrices == {w \in [1 .. 3 -> [1 .. 3 -> ArcWeights \cup {0, INF}]] :
               \A u, v \in 1 .. 3 : w[u][v] = 0 <=> u = v}
            \cup {<<<<0, 10, INF, INF, 5>>, <<INF, 0, 1, INF, 2>>, <<INF, INF, 0, 4, INF>>,
                    <<7, INF, 6, 0, INF>>, <<INF, 3, 9, 2, 0>>>>}
Pairs == <<<<1, 2>>, <<1, 3>>, <<1, 4>>, <<2, 3>>, <<2, 4>>, <<3, 4>>>>
WeightedGraphs == {LET all == [i \in 1 .. 6 |-> Append(Pairs[i], w[i])]
                   IN  SelectSeq(all, LAMBDA e : e[3] > 0) : w \in [1 .. 6 -> EdgeWeights \cup {0}]}

Parents(n) == {p \in [1 .. n -> 0 .. n - 1] : \A v \in 1 .. n : p[v] < v /\ (v > 1 => p[v] > 0)}

\* 3 x 3 cells with at most one wall, and the grid of 0-1BFS.cpp's main.
Cells == (1 .. 3) \X (1 .. 3)
Grids == {g \in [floor : {Cells} \cup {Cells \ {c} : c \in Cells}, player : Cells, box : Cells, target : Cells] :
            /\ Cardinality({g.player, g.box, g.target}) = 3 /\ {g.player, g.box, g.target} \subseteq g.floor}
         \cup {[floor |-> {<<1, 1>>, <<2, 1>>, <<2, 2>>, <<2, 3>>, <<2, 4>>, <<3, 1>>, <<3, 4>>, <<4, 1>>,
                           <<4, 2>>, <<4, 3>>, <<4, 4>>}, player |-> <<4, 4>>, box |-> <<2, 3>>, target |-> <<1, 1>>]}

\* Keys for the filters, of which some are added; and shapes: those of the two mains, one
\* that is full at once, one too small for its keys, one with as many places as there may be.
Items == {<<97>>, <<98>>, <<97, 112, 112, 108, 101>>, <<102, 105, 103>>, << >>}
Shapes == {<<1000, 7>>, <<6, 10>>, <<1, 1>>, <<3, 25>>, <<20, 50>>}

\* Blocks of 64 bits, of 24 and of 8, and how far they are shifted; and words to count.
Bits64 == {{0, 5, 31, 32, 40, 63}, {7, 8, 9, 30, 33, 62}, 0 .. 63}
Shifts == {<<a, 8, i>> : a \in Bits64, i \in {0, 1, 7, 8, 13, 31, 32, 33, 40, 63}}
          \cup {<<a \cap (0 .. 23), 3, i>> : a \in Bits64, i \in {0, 1, 8, 15, 23}}
          \cup {<<a \cap (0 .. 7), 1, i>> : a \in Bits64, i \in {0, 3, 7}}
CountedWords == {W32(0, 0), W32(0, 1), W32(\H8000, \H0010), W32(\Hcc9e, \H2d51), W32(\Hffff, \Hffff)}

Init == /\ out = << >> /\ done = FALSE
        /\ \/ family = "sorts" /\ input \in SeqsUpTo(Numbers, MaxArray) \ {<< >>}
           \/ family = "orders" /\ input \in UNION {Orders(n) : n \in 1 .. MaxArray}
           \/ family = "numbers" /\ input \in 0 .. MaxNumber
           \/ family = "cards" /\ input \in Hands
           \/ family = "days" /\ input \in Years
           \/ family = "roots" /\ input \in 1 .. 10
           \/ family = "integers" /\ input \in Samples
           \/ family = "sum" /\ input \in NegPairs
           \/ family = "matrix" /\ input \in SUBSET ((1 .. 3) \X (1 .. 3))
           \/ family = "binary" /\ input \in SeqsUpTo({0, 1}, MaxString) \ {<< >>}
           \/ family = "tour" /\ input \in Boards
           \/ /\ family = "text"
              /\ input \in SeqsUpTo(Letters, MaxText) \X (SeqsUpTo(Letters, MaxPattern) \ {<< >>})
           \/ family = "directed" /\ input \in Matrices
           \/ family = "undirected" /\ input \in WeightedGraphs
           \/ family = "tree" /\ input \in Parents(MaxTree)
           \/ family = "nodes" /\ input \in TreesOn(1, MaxTree)
           \/ family = "box" /\ input \in Grids
           \/ family = "hull" /\ input \in SUBSET ((0 .. 2) \X (0 .. 2)) \ {{}}
           \/ family = "keys" /\ input \in (0 .. HashWord - 1) \X (0 .. HashWord - 1)
           \/ family = "words" /\ input \in SUBSET Words
           \/ family = "hashes" /\ input \in DOMAIN Expected
           \/ /\ family = "pieces"
              /\ input \in {<<n, cut, align>> \in KeyLengths \X KeyLengths \X (0 .. 3) : cut <= n}
           \/ family = "filters" /\ input \in SeqsUpTo(Items, 2) \X Shapes
           \/ family = "bits" /\ input \in Shifts
           \/ family = "counts" /\ input \in CountedWords
           \/ family = "digests" /\ input \in {<<n, cut>> : n \in MessageLengths, cut \in {1, 70}}

Lesser(a, b) == IF a < b THEN a ELSE b

Compute(of, result) == /\ family = of /\ ~done
                       /\ out' = result
                       /\ done' = TRUE
                       /\ UNCHANGED <<family, input>>

\* What the functions of BloomFilter/ return is not kept: HashesRight looks at the step
\* that asks for it.
Ask(of) == /\ family = of /\ ~done
           /\ done' = TRUE
           /\ UNCHANGED <<family, input, out>>

Next == \/ Compute("sorts", SortsOf(input)) \/ Compute("orders", OrdersOf(input))
        \/ Compute("numbers", NumbersOf(input)) \/ Compute("cards", judgePoint24(input))
        \/ Compute("days", DaysOf(input)) \/ Compute("roots", RootsOf(input))
        \/ Compute("integers", IntegersOf(input)) \/ Compute("sum", addNeg(input[1], input[2]))
        \/ Compute("matrix", RectanglesOnly(input, 3, 3)) \/ Compute("binary", BinaryOf(input))
        \/ Compute("tour", knightTour(input[1], input[2], input[3]))
        \/ Compute("text", TextOf(input[1], input[2]))
        \/ Compute("directed", DirectedOf(input)) \/ Compute("undirected", UndirectedOf(4, input))
        \/ Compute("tree", sumOfDistancesInTree(Neighbours(input)))
        \/ Compute("nodes", TreeOf(input))
        \/ Compute("box", minPushBox(input.floor, input.player, input.box, input.target))
        \/ Compute("hull", Andrew(input))
        \/ Compute("keys", MyKeyHash(input[1], input[2]))
        \/ Compute("words", findAllConcatenatedWordsInADict(input))
        \/ \E of \in {"hashes", "pieces", "filters", "bits", "counts", "digests"} : Ask(of)

Spec == Init /\ [][Next]_vars

Done(of) == family = of /\ done
Asked(of) == family = of /\ done'
-----------------------------------------------------------------------------
(* Properties *)

\* Sorts, searches and what else rearranges an array do what they are named for.
SortsSort == /\ Done("sorts") => SortedRight(input, out)
             /\ Done("orders") => OrdersRight(input, out)

\* The functions of numbers agree with what they are named for, and the puzzles' answers
\* are the answers.
NumbersAndPuzzles ==
  /\ Done("numbers") => NumbersRight(input, out)
  /\ Done("cards") => CardsRight(input, out)
  /\ Done("days") => DaysRight(input, out)
  /\ Done("roots") => RootsRight(input, out)
  /\ Done("integers") => IntegersRight(input, out)
  /\ Done("sum") => SumRight(input, out)
  /\ Done("matrix") => MatrixRight(input, out)
  /\ Done("binary") => BinaryRight(input, out)
  /\ Done("tour") => TourRight(input, out)

\* Searches in strings, hashes and the trie agree with what they are named for.
StringsMatch == /\ Done("text") => TextRight(input[1], input[2], out)
                /\ Done("keys") => KeysRight(input[1], input[2], out)
                /\ Done("words") => WordsRight(input, out)

\* Paths, orders, colours, trees, clusters, pushes and hulls are what they should be.
GraphsRight == /\ Done("directed") => DirectedRight(input, out)
               /\ Done("undirected") => UndirectedRight(4, input, out)
               /\ Done("tree") => DistancesRight(input, out)
               /\ Done("nodes") => TreeRight(input, out)
               /\ Done("box") => PushesRight(input, out)
               /\ Done("hull") => HullRight(input, out)

\* smhasher's hashes pass its test, though SHA-1 writes to the keys it is given; and a
\* hash does not depend on how its key is cut, nor on the address it begins at.  Bloom
\* filters find all that was put into them.
HashesRight ==
  [][/\ Asked("hashes") => VerificationTest(input) = Expected[input]
     /\ Asked("pieces") => HashedRight(input[1], HashedInPieces(input[1], input[2], input[3]))
     /\ Asked("filters") =>
          FiltersRight(input[1], Items, FiltersOf(input[1], input[2][1], input[2][2], Items))
     /\ Asked("bits") =>
          MovedRight(input[1], input[2], input[3], MovedBits(input[1], input[2], input[3]))
     /\ Asked("counts") => CountedRight(input, <<popcount(input), countbits(input), parity(input)>>)
     /\ Asked("digests") =>
          DigestedRight(input[1], DigestedInPieces(input[1], Lesser(input[2], input[1])))]_vars
=============================================================================
