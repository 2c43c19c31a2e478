---------------------------- MODULE NumberTheory ----------------------------
(***************************************************************************)
(* GCD/, Prime/, Combination/, Bit Manipulation/, Gosper Hack/, NQueens/   *)
(* and Classical Problems/: functions of a few numbers.  MOD stands for    *)
(* 1'000'000'007, a prime greater than the n and k of combination, and     *)
(* Word for 2^32.                                                          *)
(***************************************************************************)
EXTENDS Loops, FiniteSets, Bitwise

CONSTANTS MOD, Word

ASSUME WordAssumption == Word \in Nat \ {0}

GCD1(x, y) == While(LAMBDA s : s[2] # 0, LAMBDA s : <<s[2], s[1] % s[2]>>, <<x, y>>)[1]

RECURSIVE GCD2(_, _)
GCD2(x, y) == IF y = 0 THEN x ELSE GCD2(y, x % y)

\* The sieve of Eratosthenes: the numbers struck out.
prime(n) ==
  For(LAMBDA struck, i : IF i \in struck THEN struck
                         ELSE struck \cup {i * k : k \in i .. n \div i}, {}, 2, n)

\* Euler's sieve: the numbers left, each composite struck out once, by its least prime.
linearSieve(n) ==
  For(LAMBDA s, i :
        LET primes == IF i \in s.left THEN Append(s.primes, i) ELSE s.primes
            last == While(LAMBDA j : /\ j <= Len(primes) /\ i * primes[j] <= n
                                     /\ j = 1 \/ i % primes[j - 1] # 0,
                          LAMBDA j : j + 1, 1) - 1
        IN  [primes |-> primes, left |-> s.left \ {i * primes[j] : j \in 1 .. last},
             strikes |-> s.strikes + last],
      [primes |-> << >>, left |-> 2 .. n, strikes |-> 0], 2, n)

\* Mutant: the exponent's low bit is taken as 1.
PowerStepAlways(s) == [res |-> s.res * s.a % MOD, a |-> s.a * s.a % MOD, r |-> s.r \div 2]

PowerStep(s) == [res |-> IF s.r % 2 = 1 THEN s.res * s.a % MOD ELSE s.res,
                 a |-> s.a * s.a % MOD, r |-> s.r \div 2]

quickPow(a, r) == While(LAMBDA s : s.r > 0, PowerStep, [res |-> 1, a |-> a, r |-> r]).res

modInverse(x) == quickPow(x, MOD - 2)

combination(n, k) ==
  LET numerator == For(LAMBDA p, i : p * (n - i) % MOD, 1, 0, k - 1)
      denominator == For(LAMBDA p, i : p * i % MOD, 1, 1, k)
  IN  IF k > n THEN 0 ELSE numerator * modInverse(denominator) % MOD

\* -x of an int.
Negated(x) == (Word - x) % Word

\* The subsets that are printed, as bit masks; (x ^ y) / lb is a shift, lb being a power of 2.
gosperHack(k, limit) ==
  While(LAMBDA s : s.subset < limit,
        LAMBDA s : LET lb == s.subset & Negated(s.subset)
                       x == s.subset + lb
                   IN  [printed |-> Append(s.printed, s.subset),
                        subset |-> (((s.subset ^^ x) \div lb) \div 4) | x],
        [printed |-> << >>, subset |-> 2 ^ k - 1]).printed

add(x, y) == While(LAMBDA s : s[2] # 0,
                   LAMBDA s : <<s[1] ^^ s[2], ((s[1] & s[2]) * 2) % Word>>, <<x, y>>)[1]

multiply(x, y) ==
  While(LAMBDA s : s.y # 0,
        LAMBDA s : [res |-> IF s.y % 2 = 1 THEN (s.res + s.x) % Word ELSE s.res,
                    x |-> (s.x * 2) % Word, y |-> s.y \div 2],
        [res |-> 0, x |-> x, y |-> y]).res

\* The placements from row x on, each the column of every row's queen.
NQueens(n) ==
  LET RECURSIVE dfs(_, _, _, _, _)
      dfs(x, tmp, col, dg, udg) ==
        IF x = n THEN <<tmp>>
        ELSE For(LAMBDA ans, i :
                   IF i \notin col /\ x + i \notin dg /\ n - 1 + x - i \notin udg
                     THEN ans \o dfs(x + 1, Append(tmp, i), col \cup {i}, dg \cup {x + i},
                                     udg \cup {n - 1 + x - i})
                     ELSE ans, << >>, 0, n - 1)
  IN  dfs(0, << >>, {}, {}, {})

dow(y, m, d) ==
  LET t == <<0, 3, 2, 5, 0, 3, 5, 1, 4, 6, 2, 4>>
      z == IF m < 3 THEN y - 1 ELSE y
  IN  (z + z \div 4 - z \div 100 + z \div 400 + t[m] + d) % 7

\* The numbers of a hand, as fractions.
Fraction(n, d) == [n |-> n, d |-> d]

cal(x, y) ==
  {Fraction(x.n * y.d + y.n * x.d, x.d * y.d), Fraction(x.n * y.d - y.n * x.d, x.d * y.d),
   Fraction(y.n * x.d - x.n * y.d, x.d * y.d), Fraction(x.n * y.n, x.d * y.d)}
    \cup (IF y.n # 0 THEN {Fraction(x.n * y.d, x.d * y.n)} ELSE {})
    \cup (IF x.n # 0 THEN {Fraction(y.n * x.d, y.d * x.n)} ELSE {})

RECURSIVE solve24(_)
solve24(a) ==
  IF Len(a) = 1 THEN a[1].n = 24 * a[1].d
  ELSE \E i, j \in 1 .. Len(a) :
         /\ i < j
         /\ LET kept == SelectSeq([k \in 1 .. Len(a) |-> k], LAMBDA k : k \notin {i, j})
            IN  \E result \in cal(a[i], a[j]) : solve24(Append([k \in 1 .. Len(kept) |-> a[kept[k]]], result))

judgePoint24(cards) == solve24([i \in 1 .. Len(cards) |-> Fraction(cards[i], 1)])

\* The two bounds of the bisection for the square root of 2 after so many halvings, times
\* 10 * 2^halvings.
sqrt2(halvings) ==
  For(LAMBDA s, i : LET mid == s.low + s.high    \* at twice the scale
                        scale == 10 * 2 ^ i
                    IN  IF mid * mid > 2 * scale * scale THEN [low |-> 2 * s.low, high |-> mid]
                        ELSE [low |-> mid, high |-> 2 * s.high],
      [low |-> 14, high |-> 15], 1, halvings)

\* Newton's iteration until x^2 - 2 is at most 1 / epsilon.
newton(x, epsilon) ==
  While(LAMBDA f : (f.n * f.n - 2 * f.d * f.d) * epsilon > f.d * f.d,
        LAMBDA f : Fraction(f.n * f.n + 2 * f.d * f.d, 2 * f.n * f.d), x)
-----------------------------------------------------------------------------
(* What they compute, and what they are for *)

NumbersOf(n) ==
  [gcds |-> [m \in 0 .. n |-> {GCD1(n, m), GCD1(m, n), GCD2(n, m), GCD2(m, n)}],
   sieved |-> {(2 .. n) \ prime(n), linearSieve(n).left},
   strikes |-> linearSieve(n).strikes,
   powers |-> [r \in 0 .. 8 |-> quickPow(n % MOD, r)],
   choices |-> [k \in 0 .. n + 1 |-> IF n < MOD THEN combination(n, k) ELSE 0],
   subsets |-> IF n \in 1 .. 4 THEN [k \in 1 .. n |-> gosperHack(k, 2 ^ n)] ELSE << >>,
   sums |-> [y \in 0 .. Word - 1 |-> add(n % Word, y)],
   products |-> [y \in 0 .. Word \div 2 - 1 |-> multiply(n % Word, y)],
   queens |-> IF n \in 1 .. 5 THEN NQueens(n) ELSE << >>]

GreatestDivisor(n, m) ==
  CHOOSE g \in 1 .. n + m : /\ n % g = 0 /\ m % g = 0
                            /\ \A d \in g + 1 .. n + m : n % d # 0 \/ m % d # 0

IsPrime(p) == \A d \in 2 .. p - 1 : p % d # 0

Bits(s) == {i \in 0 .. 7 : (s \div 2 ^ i) % 2 = 1}

\* The power taken one factor at a time, reduced each time.
PowerOf(a, r) == For(LAMBDA p, i : p * a % MOD, 1, 1, r)

Attack(q, x, y) == q[x] = q[y] \/ q[x] - q[y] \in {x - y, y - x}

\* Both ways to the greatest common divisor find it, the sieves leave the primes and
\* Euler's strikes no number twice; powers, and binomial coefficients by the inverse of a
\* factorial, are right modulo MOD; Gosper's subsets are those of size k, each once and
\* in order; adding by carries and multiplying by shifts is right in words; and the
\* queens' placements are all those in which no two attack each other.
NumbersRight(n, out) ==
  /\ \A m \in 0 .. n : n > 0 => out.gcds[m] = {GreatestDivisor(n, m)}
  /\ out.sieved = {{p \in 2 .. n : IsPrime(p)}}
  /\ out.strikes = Cardinality({c \in 2 .. n : ~IsPrime(c)})
  /\ \A r \in 0 .. 8 : out.powers[r] = PowerOf(n % MOD, r)
  /\ n < MOD => \A k \in 0 .. n + 1 :
       out.choices[k] = (IF n <= 7 THEN Cardinality({s \in SUBSET (1 .. n) : Cardinality(s) = k}) % MOD
                         ELSE IF k > n THEN 0 ELSE out.choices[n - k])
  /\ n \in 1 .. 4 => \A k \in 1 .. n :
       LET found == out.subsets[k]
       IN  /\ {Bits(found[i]) : i \in DOMAIN found}
                = {s \in SUBSET (0 .. n - 1) : Cardinality(s) = k}
           /\ \A i \in 1 .. Len(found) - 1 : found[i] < found[i + 1]
  /\ \A y \in 0 .. Word - 1 : out.sums[y] = (n + y) % Word
  /\ \A y \in 0 .. Word \div 2 - 1 : out.products[y] = (n * y) % Word
  /\ n \in 1 .. 5 =>
       /\ {out.queens[i] : i \in DOMAIN out.queens}
            = {q \in [1 .. n -> 0 .. n - 1] : \A x, y \in 1 .. n : x # y => ~Attack(q, x, y)}
       /\ \A i, j \in DOMAIN out.queens : out.queens[i] = out.queens[j] => i = j

\* What the operations make of each of two parts of a hand.
RECURSIVE ValuesOf(_, _)
ValuesOf(cards, chosen) ==
  IF Cardinality(chosen) = 1 THEN {Fraction(cards[i], 1) : i \in chosen}
  ELSE UNION {UNION {cal(x, y) : x \in ValuesOf(cards, part), y \in ValuesOf(cards, chosen \ part)} :
              part \in {s \in SUBSET chosen : s # {} /\ s # chosen}}

\* The game is won exactly when an expression over all the cards is worth 24.
CardsRight(cards, won) == won <=> \E v \in ValuesOf(cards, DOMAIN cards) : v.n = 24 * v.d

Leap(y) == y % 4 = 0 /\ (y % 100 # 0 \/ y % 400 = 0)

DaysIn(y, m) == CASE m = 2 -> IF Leap(y) THEN 29 ELSE 28
                  [] m \in {4, 6, 9, 11} -> 30
                  [] OTHER -> 31

\* The dates of a year and the first of the next.
Dates(y) == {date \in {y} \X (1 .. 12) \X (1 .. 31) : date[3] <= DaysIn(y, date[2])}
              \cup {<<y + 1, 1, 1>>}

NextDay(y, m, d) == IF d < DaysIn(y, m) THEN <<y, m, d + 1>>
                    ELSE IF m < 12 THEN <<y, m + 1, 1>> ELSE <<y + 1, 1, 1>>

DaysOf(y) == [date \in Dates(y) |-> dow(date[1], date[2], date[3])]

\* The days of the week follow each other through months, leap years and year ends, and
\* the 28th of September 2024, which main prints, is a Saturday.
DaysRight(y, out) ==
  /\ \A date \in Dates(y) :
       date[1] = y => out[NextDay(date[1], date[2], date[3])] = (out[date] + 1) % 7
  /\ y = 2024 => out[<<2024, 9, 28>>] = 6

RootsOf(n) == [bisected |-> sqrt2(n), newton |-> newton(Fraction(3, 2), n)]

\* The bisection has the root between its bounds, which are a halving closer each time,
\* and Newton's iteration from 1.5 ends as near as it was asked for.
RootsRight(n, out) ==
  LET scale == 10 * 2 ^ n
      x == out.newton
  IN  /\ out.bisected.high = out.bisected.low + 1
      /\ out.bisected.low * out.bisected.low <= 2 * scale * scale
      /\ 2 * scale * scale < out.bisected.high * out.bisected.high
      /\ x.n * x.n >= 2 * x.d * x.d
      /\ (x.n * x.n - 2 * x.d * x.d) * n <= x.d * x.d

-----------------------------------------------------------------------------
(* Constructive Algorithm/, Interview/ and Greedy/Action Figures.cpp:      *)
(* small tasks with an input of their own.  Strings of digits are          *)
(* sequences of numbers, the minus sign is Minus.                          *)

Minus == 10

\* std::to_string, std::stoi
Digits(n) == LET RECURSIVE Of(_)
                 Of(m) == IF m < 10 THEN <<m>> ELSE Append(Of(m \div 10), m % 10)
             IN  IF n < 0 THEN <<Minus>> \o Of(-n) ELSE Of(n)
ValueOf(s) == IF s[1] = Minus THEN -ForEachOf(LAMBDA v, d : 10 * v + d, 0, Tail(s))
              ELSE ForEachOf(LAMBDA v, d : 10 * v + d, 0, s)

decompose(n) == IF n % 2 = 1 THEN <<n \div 2, n - n \div 2>>
                ELSE IF (n \div 2) % 2 = 0 THEN <<n \div 2 - 1, n \div 2 + 1>>
                ELSE <<n \div 2 - 2, n \div 2 + 2>>

\* Determine matrix.cpp, of the set of the cells that hold 1.
RectanglesOnly(ones, n, m) ==
  \A i \in 1 .. n - 1, j \in 1 .. m - 1 : Cardinality(ones \cap ({i, i + 1} \X {j, j + 1})) # 3

\* Reverse Value.cpp: the operations printed, as <<type, i, j>>.
NegatingOperations(n) ==
  While(LAMBDA s : s.i < s.j,
        LAMBDA s : LET both == <<<<1, s.i, s.j>>, <<2, s.i, s.j>>>>
                   IN  [i |-> s.i + 1, j |-> s.j - 1, printed |-> s.printed \o both \o both \o both],
        [i |-> 1, j |-> n, printed |-> << >>]).printed

\* Reverse string.cpp
FewestReversals(s) ==
  Cardinality({i \in 1 .. Len(s) : s[i] = s[(i % Len(s)) + 1]}) \div 2

\* The cost of the figures when one is got for nothing on day i, for the figures before.
ActionFigures(s) ==
  LET n == Len(s)
  IN  ForDown(LAMBDA t, i : IF s[i] = 1 /\ t.need + 1 <= i - 1
                              THEN [ans |-> t.ans - i, need |-> t.need + 1]
                              ELSE [t EXCEPT !.need = IF @ > 0 THEN @ - 1 ELSE 0],
              [ans |-> (n * (n + 1)) \div 2, need |-> 0], n, 1).ans

\* find of LargestLessThanK.cpp: 0 when no digit of a is less.
find(a, target) == IF \E d \in a : d < target
                     THEN CHOOSE d \in a : d < target /\ \A e \in a : e < target => e <= d
                     ELSE 0

\* How the digits from i on become less: at i or, failing that, at the nearest place
\* before it; the rest is 0, and without such a place the number is one digit shorter.
RECURSIVE Backtracked(_, _, _, _)
Backtracked(a, digits, res, i) ==
  LET num == find(a, digits[i])
  IN  IF num > 0 THEN [j \in 1 .. Len(res) |-> IF j < i THEN res[j] ELSE IF j = i THEN num ELSE 0]
      ELSE IF i = 1 THEN SubSeq(res, 1, Len(res) - 1)
      ELSE Backtracked(a, digits, res, i - 1)

largestLessThanK(a, x) ==
  LET digits == Digits(x)
      n == Len(digits)
      i == While(LAMBDA k : k < n /\ digits[k] \in a, LAMBDA k : k + 1, 1)
      start == [j \in 1 .. n |-> IF j < i THEN digits[j] ELSE 0]
      most == CHOOSE d \in a : \A e \in a : e <= d
      res == IF find(a, digits[i]) > 0 THEN [start EXCEPT ![i] = find(a, digits[i])]
             ELSE Backtracked(a, digits, start, IF i > 1 THEN i - 1 ELSE 1)
  IN  ForEachOf(LAMBDA v, d : 10 * v + (IF d > 0 THEN d ELSE most), 0, res)

\* The first i up to n at which a character repeats the one before, or n + 1.
FirstRepeat(s, n) == While(LAMBDA i : i <= n /\ (i = 1 \/ s[i] # s[i - 1]), LAMBDA i : i + 1, 1)

\* The places after the n-th, filled with 0 and 1 in turns.
Alternated(s, n) ==
  [i \in 1 .. Len(s) |-> IF i <= n THEN s[i]
                         ELSE IF (s[n] = 0) = ((i - n) % 2 = 1) THEN 1 ELSE 0]

ReplacedFront(s, i, t) == t \o SubSeq(s, i + 1, Len(s))

\* solve of 大于n且相邻数字不同的最小整数.cpp
NextDifferent(x) ==
  LET s == While(LAMBDA t : FirstRepeat(t.s, t.n) <= t.n,
                 LAMBDA t : LET i == FirstRepeat(t.s, t.n)
                            IN  [n |-> i, s |-> ReplacedFront(t.s, i,
                                                  Digits(ValueOf(SubSeq(t.s, 1, i)) + 1))],
                 [s |-> Digits(x + 1), n |-> Len(Digits(x + 1))])
  IN  Alternated(s.s, s.n)

\* add of 最小整数字符串版本.cpp: the digits counted up or, behind a minus, down.
addOne(s) ==
  LET negative == s[1] = Minus
      first == IF negative THEN 2 ELSE 1
      stop == IF negative THEN 0 ELSE 9
      i == While(LAMBDA k : k >= first /\ s[k] = stop, LAMBDA k : k - 1, Len(s))
      next == [k \in 1 .. Len(s) |-> IF k < i THEN s[k] ELSE IF k > i THEN 9 - stop
                                     ELSE IF negative THEN s[k] - 1 ELSE s[k] + 1]
      zeros == While(LAMBDA k : next[k] = 0, LAMBDA k : k + 1, 2)
  IN  IF s = <<Minus, 1>> THEN <<0>>
      ELSE IF negative THEN <<Minus>> \o SubSeq(next, zeros, Len(s))
      ELSE IF i >= first THEN next ELSE <<1>> \o next

\* solve of the same file, which repairs one repetition and goes on behind it.
NextDifferentString(x) ==
  LET s == addOne(x)
      i == FirstRepeat(s, Len(s))
  IN  IF i > Len(s) THEN s ELSE Alternated(ReplacedFront(s, i, addOne(SubSeq(s, 1, i))), i)

\* Mutant: the carry of a negative base is added, not taken away.
CarryUp(tmp) == IF tmp >= 3 THEN [digit |-> tmp - 3, add |-> 1]
                ELSE IF tmp < 0 THEN [digit |-> tmp + 3, add |-> 1] ELSE [digit |-> tmp, add |-> 0]

Carry(tmp) == IF tmp >= 3 THEN [digit |-> tmp - 3, add |-> -1]
              ELSE IF tmp < 0 THEN [digit |-> tmp + 3, add |-> 1] ELSE [digit |-> tmp, add |-> 0]

\* The digits of a sum to base -3.
addNeg(a, b) ==
  LET At(s, k) == IF k < Len(s) THEN s[Len(s) - k] ELSE 0
      all == While(LAMBDA s : s.add # 0 \/ s.k < Len(a) \/ s.k < Len(b),
                   LAMBDA s : LET c == Carry(At(a, s.k) + At(b, s.k) + s.add)
                              IN  [k |-> s.k + 1, add |-> c.add, ans |-> <<c.digit>> \o s.ans],
                   [k |-> 0, add |-> 0, ans |-> << >>]).ans
  IN  While(LAMBDA s : Len(s) > 1 /\ Head(s) = 0, Tail, all)

\* 阿拉伯数字转中文.cpp: the digits and the units 10^idx as Unit(idx), that of 1 empty; 0
\* is 零.
Unit(idx) == 100 + idx
NumberToChinese(num) ==
  LET str == Digits(num)
      n == Len(str)
  IN  For(LAMBDA res, i :
            LET idx == n - i
            IN  IF str[i] = 0
                  THEN IF str[i - 1] = 0 \/ i = n THEN res
                       ELSE Append(res, IF idx >= 4 /\ idx % 4 = 0 THEN Unit(idx) ELSE 0)
                ELSE Append(IF n = 2 /\ str[1] = 1 /\ i = 1 THEN << >> ELSE Append(res, str[i]),
                            IF idx % 4 = 0 THEN Unit(idx) ELSE Unit(idx % 4)),
          << >>, 1, n)

\* knight_tour.cpp: the squares a knight may go to that are not on its way yet.
Jumps == <<<<1, 2>>, <<1, -2>>, <<2, 1>>, <<2, -1>>, <<-1, 2>>, <<-1, -2>>, <<-2, 1>>, <<-2, -1>>>>
Jump(at, k) == <<at[1] + Jumps[k][1], at[2] + Jumps[k][2]>>
check(n, way, sq) == /\ sq[1] \in 0 .. n - 1 /\ sq[2] \in 0 .. n - 1
                     /\ \A i \in DOMAIN way : way[i] # sq

\* How many ways lead on from a square, and how far it is from the centre.
prune(n, way, sq) ==
  [cnt |-> Cardinality({k \in 1 .. 8 : check(n, way, Jump(sq, k))}),
   dis |-> ((2 * sq[1] - n) * (2 * sq[1] - n) + (2 * sq[2] - n) * (2 * sq[2] - n)) \div 4]

\* The jumps in the order they are tried: few ways on first, then far from the centre;
\* so few are sorted by insertion, which leaves equals in their order.
Tried(n, way, at) ==
  LET open == SelectSeq(<<1, 2, 3, 4, 5, 6, 7, 8>>, LAMBDA k : check(n, way, Jump(at, k)))
      Sorted(p) ==
        LET Sooner(k, l) == \/ p[k].cnt < p[l].cnt
                            \/ p[k].cnt = p[l].cnt /\ p[k].dis > p[l].dis
                            \/ p[k].cnt = p[l].cnt /\ p[k].dis = p[l].dis /\ k < l
        IN  [i \in 1 .. Cardinality(DOMAIN p) |->
               CHOOSE k \in DOMAIN p : Cardinality({l \in DOMAIN p : Sooner(l, k)}) = i - 1]
  IN  Sorted([k \in {open[i] : i \in DOMAIN open} |-> prune(n, way, Jump(at, k))])

\* The first whole tour that goes on from way by one of the jumps.
RECURSIVE solveTour(_, _), FirstTour(_, _, _)
FirstTour(n, way, order) ==
  IF order = << >> THEN << >>
  ELSE LET tour == solveTour(n, Append(way, Jump(way[Len(way)], Head(order))))
       IN  IF tour = << >> THEN FirstTour(n, way, Tail(order)) ELSE tour
solveTour(n, way) == IF Len(way) = n * n THEN way
                     ELSE FirstTour(n, way, Tried(n, way, way[Len(way)]))

\* What main prints; the empty sequence for "No Circuit Tour".
knightTour(n, a, b) == IF n % 2 = 1 \/ n <= 5 THEN << >> ELSE solveTour(n, <<<<a - 1, b - 1>>>>)
-----------------------------------------------------------------------------
(* What they compute, and what they are for *)

IntegersOf(x) ==
  [next |-> NextDifferent(x),
   string |-> [s \in {x, -x} |-> NextDifferentString(Digits(s))],
   parts |-> decompose(x),
   chinese |-> IF x > 0 THEN NumberToChinese(x) ELSE << >>,
   less |-> [a \in {{1, 2, 9}, {9}, {2, 5}, {3, 7, 8}} |-> largestLessThanK(a, x)]]

\* The smallest integer greater than x without equal neighbours.
Different(s) == \A i \in 1 .. Len(s) - 1 : s[i] # s[i + 1]
Smallest(x) == While(LAMBDA y : ~Different(Digits(y)), LAMBDA y : y + 1, x + 1)

\* What a Chinese numeral says.
Reading(tokens) ==
  LET s == ForEachOf(LAMBDA t, x :
               CASE x \in 0 .. 9 -> [t EXCEPT !.digit = x]
                 [] x = Unit(0) -> t
                 [] x \in {Unit(1), Unit(2), Unit(3)} ->
                      [t EXCEPT !.part = @ + (IF t.digit = 0 THEN 1 ELSE t.digit) * 10 ^ (x - 100),
                                !.digit = 0]
                 [] OTHER -> [sum |-> t.sum + (t.part + t.digit) * 10 ^ (x - 100),
                              part |-> 0, digit |-> 0],
             [sum |-> 0, part |-> 0, digit |-> 0], tokens)
  IN  s.sum + s.part + s.digit

\* What is written with the digits of a and less than x, in as many digits as x.
Writable(a, x) == {y \in 0 .. x - 1 : /\ Len(Digits(y)) = Len(Digits(x))
                                      /\ \A i \in DOMAIN Digits(y) : Digits(y)[i] \in a}

\* The next integer without equal neighbours is the smallest one; on strings it is when
\* one repair is enough, and never misses it, while below 0 it is only greater; a number above 6
\* is the sum of two that share no divisor; a numeral below 100000 says its number; and
\* the largest number below x with given digits is the largest where one of x's length is.
IntegersRight(x, out) ==
  /\ ValueOf(out.next) = Smallest(x)
  /\ \A s \in {x, -x} : s < ValueOf(out.string[s])
  /\ LET t == out.string[x]
     IN  ValueOf(t) <= Smallest(x) /\ (Different(t) => ValueOf(t) = Smallest(x))
  /\ x > 6 => LET a == out.parts[1]
                  b == out.parts[2]
              IN  a > 1 /\ b > 1 /\ a + b = x /\ \A d \in 2 .. a : a % d # 0 \/ b % d # 0
  /\ x > 0 => Reading(out.chinese) = x
  /\ \A a \in DOMAIN out.less :
       Writable(a, x) # {} => /\ out.less[a] \in Writable(a, x)
                              /\ \A y \in Writable(a, x) : y <= out.less[a]

\* The value of digits to base -3.
NegValue(s) == ForEachOf(LAMBDA v, d : d - 3 * v, 0, s)

\* A sum to base -3 has the value of its terms and no leading zero.
SumRight(pair, out) == /\ NegValue(out) = NegValue(pair[1]) + NegValue(pair[2])
                       /\ out[1] = 0 => Len(out) = 1
                       /\ \A i \in DOMAIN out : out[i] \in 0 .. 2

\* The cells that can be reached from one through neighbours that hold 1.
Region(ones, cell) ==
  LET Near(c, d) == (c[1] - d[1]) * (c[1] - d[1]) + (c[2] - d[2]) * (c[2] - d[2]) = 1
      Grown(r) == r \cup {c \in ones : \E d \in r : Near(c, d)}
  IN  While(LAMBDA r : Grown(r) # r, Grown, {cell})

\* The matrix passes exactly when every region of ones is a full rectangle.
MatrixRight(ones, yes) ==
  yes <=> \A cell \in ones : LET r == Region(ones, cell)
                                 Between(k) == LET xs == {c[k] : c \in r}
                                               IN  {x \in 1 .. 9 : \E p, q \in xs : p <= x /\ x <= q}
                             IN  r = Between(1) \X Between(2)

BinaryOf(s) == [reversals |-> FewestReversals(s), cost |-> ActionFigures(s),
                printed |-> NegatingOperations(Len(s))]

\* The substrings of a string turned round.
Reversals(s) == {[k \in 1 .. Len(s) |-> IF k \in i .. j THEN s[i + j - k] ELSE s[k]] :
                 i, j \in 1 .. Len(s)}
RECURSIVE FewestUntilDifferent(_)
FewestUntilDifferent(strings) ==
  IF \E s \in strings : Different(s) THEN 0
  ELSE 1 + FewestUntilDifferent(UNION {Reversals(s) : s \in strings})

\* The least that figures cost: each of those got for nothing needs a day on which it and
\* a cheaper one that is paid for are on sale.
RECURSIVE SumOf(_)
SumOf(S) == IF S = {} THEN 0 ELSE LET x == CHOOSE y \in S : TRUE IN x + SumOf(S \ {x})
Free(s, f) == /\ \E day \in [f -> {i \in DOMAIN s : s[i] = 1}] :
                   /\ \A x \in f : x <= day[x]
                   /\ \A x, y \in f : day[x] = day[y] => x = y
              /\ \A x \in f : Cardinality({y \in f : y <= x}) <= Cardinality((1 .. x) \ f)
LeastCost(s) == LET costs == {SumOf(DOMAIN s \ f) : f \in {g \in SUBSET DOMAIN s : Free(s, g)}}
                IN  CHOOSE c \in costs : \A e \in costs : c <= e

Applied(a, op) == IF op[1] = 1 THEN [a EXCEPT ![op[2]] = @ + a[op[3]]]
                  ELSE [a EXCEPT ![op[3]] = @ - a[op[2]]]

\* The fewest reversals of substrings that make a balanced string alternate, the least
\* the figures cost when the shop is open on the last day, and operations that negate
\* every value, three to a value, as announced.
BinaryRight(s, out) ==
  LET n == Len(s)
      a == [i \in 1 .. n |-> 10 * i + s[i]]
  IN  /\ 2 * Cardinality({i \in 1 .. n : s[i] = 1}) = n => out.reversals = FewestUntilDifferent({s})
      /\ s[n] = 1 => out.cost = LeastCost(s)
      /\ n % 2 = 0 => /\ Len(out.printed) = 3 * n
                      /\ ForEachOf(Applied, a, out.printed) = [i \in 1 .. n |-> -a[i]]

\* "No Circuit Tour" is printed for the boards that have no circuit, those of an odd side
\* and those smaller than 6; for the others a tour, which need not be a circuit: it begins
\* where it was asked for and goes by a knight's jumps through every square once.
TourRight(board, tour) ==
  IF board[1] % 2 = 1 \/ board[1] < 6 THEN tour = << >>
  ELSE /\ tour # << >>
       /\ tour[1] = <<board[2] - 1, board[3] - 1>>
       /\ {tour[i] : i \in DOMAIN tour} = (0 .. board[1] - 1) \X (0 .. board[1] - 1)
       /\ Len(tour) = board[1] * board[1]
       /\ \A i \in 1 .. Len(tour) - 1 : \E k \in 1 .. 8 : tour[i + 1] = Jump(tour[i], k)
=============================================================================
