------------------------------- MODULE Hashing -------------------------------
(***************************************************************************)
(* BloomFilter/: the hash functions that smhasher was written for, the     *)
(* digests and the small ones beside them, bit for bit, both Bloom         *)
(* filters, and smhasher's blocks of bits.  A key is a sequence of bytes;  *)
(* len is its length.                                                      *)
(***************************************************************************)
EXTENDS FiniteSets, Loops

-----------------------------------------------------------------------------
(* C's unsigned integers with all their bits: a word is the sequence of    *)
(* its 16-bit digits, least first, two for uint32_t and four for uint64_t. *)
(* Memory is a sequence of bytes; words are read from it little-endian.    *)

Digit == 65536

\* The constants 0xhhhhllll and 0xhhhhhhhhllllllll.
W32(hi, lo) == <<lo, hi>>
W64(d, c, b, a) == <<a, b, c, d>>

Zero32 == <<0, 0>>
Zero64 == <<0, 0, 0, 0>>

\* (uint32_t)i and (uint64_t)i
U32(i) == <<i % Digit, (i \div Digit) % Digit>>
U64(i) == U32(i) \o <<0, 0>>

Widened(a) == a \o <<0, 0>>
Low32(a) == <<a[1], a[2]>>
High32(a) == <<a[3], a[4]>>

\* Sums of digits turned into digits, what is carried out of the last one dropped.
Carried(s) ==
  LET b == s[2] + s[1] \div Digit
  IN  IF Len(s) = 2
      THEN <<s[1] % Digit, b % Digit>>
      ELSE LET c == s[3] + b \div Digit
               d == s[4] + c \div Digit
           IN  <<s[1] % Digit, b % Digit, c % Digit, d % Digit>>

\* The function f of two digits, digit by digit.
Digitwise(f(_, _), a, b) ==
  IF Len(a) = 2 THEN <<f(a[1], b[1]), f(a[2], b[2])>>
  ELSE <<f(a[1], b[1]), f(a[2], b[2]), f(a[3], b[3]), f(a[4], b[4])>>

Plus(a, b) == Carried(Digitwise(LAMBDA x, y : x + y, a, b))
Difference(a, b) == Carried(Digitwise(LAMBDA x, y : x - y, a, b))

\* The two digits of a product of digits, from products that fit TLC's integers.
ProductOf(x, y) == LET p == x * (y % 256)
                       q == x * (y \div 256) + p \div 256
                   IN  <<256 * (q % 256) + (p % 256), q \div 256>>

Times(a, b) ==
  LET P(i, j) == ProductOf(a[i], b[j])
      p11 == P(1, 1)
      p12 == P(1, 2)
      p21 == P(2, 1)
  IN  IF Len(a) = 2
      THEN Carried(<<p11[1], p11[2] + p12[1] + p21[1]>>)
      ELSE LET p13 == P(1, 3)
               p22 == P(2, 2)
               p31 == P(3, 1)
           IN  Carried(<<p11[1],
                         p11[2] + p12[1] + p21[1],
                         p12[2] + p21[2] + p13[1] + p22[1] + p31[1],
                         p13[2] + p22[2] + p31[2]
                           + P(1, 4)[1] + P(2, 3)[1] + P(3, 2)[1] + P(4, 1)[1]>>)

XorNibble == LET Bit(x, y, k) == 2 ^ k * ((x \div 2 ^ k + y \div 2 ^ k) % 2)
             IN  [x \in 0 .. 15 |-> [y \in 0 .. 15 |->
                    Bit(x, y, 0) + Bit(x, y, 1) + Bit(x, y, 2) + Bit(x, y, 3)]]
XorByte == [x \in 0 .. 255 |-> [y \in 0 .. 255 |->
              16 * XorNibble[x \div 16][y \div 16] + XorNibble[x % 16][y % 16]]]
XorDigit(x, y) == 256 * XorByte[x \div 256][y \div 256] + XorByte[x % 256][y % 256]

XorOf(a, b) == Digitwise(XorDigit, a, b)
AndOf(a, b) == Digitwise(LAMBDA x, y : (x + y - XorDigit(x, y)) \div 2, a, b)
OrOf(a, b) == Digitwise(LAMBDA x, y : (x + y + XorDigit(x, y)) \div 2, a, b)
NotOf(a) == [i \in DOMAIN a |-> Digit - 1 - a[i]]

\* The digit of a that is d places above the i-th, 0 outside of a.
DigitAt(a, i) == IF i \in 1 .. Len(a) THEN a[i] ELSE 0

\* a << k and a >> k, for k less than the width.
LeftBy(a, k) ==
  LET q == k \div 16
      r == k % 16
      At(i) == (DigitAt(a, i - q) % 2 ^ (16 - r)) * 2 ^ r + DigitAt(a, i - q - 1) \div 2 ^ (16 - r)
  IN  IF Len(a) = 2 THEN <<At(1), At(2)>> ELSE <<At(1), At(2), At(3), At(4)>>
RightBy(a, k) ==
  LET q == k \div 16
      r == k % 16
      At(i) == DigitAt(a, i + q) \div 2 ^ r + (DigitAt(a, i + q + 1) % 2 ^ r) * 2 ^ (16 - r)
  IN  IF Len(a) = 2 THEN <<At(1), At(2)>> ELSE <<At(1), At(2), At(3), At(4)>>

\* (a << k) | (a >> (width - k)), and the other way round.
RotatedLeft(a, k) ==
  LET n == Len(a)
      q == k \div 16
      r == k % 16
      Round(i) == a[((i - 1) % n) + 1]
      At(i) == (Round(i - q) % 2 ^ (16 - r)) * 2 ^ r + Round(i - q - 1) \div 2 ^ (16 - r)
  IN  IF n = 2 THEN <<At(1), At(2)>> ELSE <<At(1), At(2), At(3), At(4)>>
RotatedRight(a, k) == RotatedLeft(a, (16 * Len(a) - k) % (16 * Len(a)))

\* h ^= h >> k and h ^= h << k
XorShifted(h, k) == XorOf(h, RightBy(h, k))
XorShiftedLeft(h, k) == XorOf(h, LeftBy(h, k))

\* The bytes of a word in memory, and the words at byte i of memory, which starts at 0.
BytesOf(a) == [i \in 1 .. 2 * Len(a) |->
                 IF i % 2 = 1 THEN a[(i + 1) \div 2] % 256 ELSE a[i \div 2] \div 256]
Word16(m, i) == m[i + 1] + 256 * m[i + 2]
Word32(m, i) == <<Word16(m, i), Word16(m, i + 2)>>
Word64(m, i) == <<Word16(m, i), Word16(m, i + 2), Word16(m, i + 4), Word16(m, i + 6)>>

\* The n bytes from byte i on as the low bytes of a word, the others 0.
ByteAt(m, i, n, k) == IF k < n THEN m[i + k + 1] ELSE 0
Tail32(m, i, n) ==
  LET B(k) == ByteAt(m, i, n, k) IN <<B(0) + 256 * B(1), B(2) + 256 * B(3)>>
Tail64(m, i, n) ==
  LET B(k) == ByteAt(m, i, n, k)
  IN  <<B(0) + 256 * B(1), B(2) + 256 * B(3), B(4) + 256 * B(5), B(6) + 256 * B(7)>>
-----------------------------------------------------------------------------
(* What the functions have in common *)

\* Step(h, offset) for each whole block of size bytes of the key.
Blocks(Step(_, _), h, key, size) ==
  For(LAMBDA g, i : Step(g, size * i), h, 0, Len(key) \div size - 1)

\* The offset of the bytes that the blocks of size bytes leave, and their number.
Left(key, size) == Len(key) % size
From(key, size) == Len(key) - Left(key, size)

Bytes(Step(_, _), h, key) == For(LAMBDA g, i : Step(g, U32(key[i])), h, 1, Len(key))
-----------------------------------------------------------------------------
(* MurmurHash1.cpp *)

M1 == W32(\Hc6a4, \Ha793)

Mixed1(h, k) == XorShifted(Times(Plus(h, k), M1), 16)

Finished1(h) == XorShifted(Times(XorShifted(Times(h, M1), 10), M1), 17)

\* switch(len): 3 falls into 2 and 2 into 1.
Tailed1(h, m, i, n) == IF n = 0 THEN h ELSE Mixed1(h, Tail32(m, i, n))

MurmurHash1(key, seed) ==
  LET h == Blocks(LAMBDA g, i : Mixed1(g, Word32(key, i)),
                  XorOf(seed, Times(U32(Len(key)), M1)), key, 4)
  IN  Finished1(Tailed1(h, key, From(key, 4), Left(key, 4)))

\* The word that reads aligned at a multiple of 4 make of what is left of the last
\* read and of the next: (t >> sr) | (d << sl).
Shifted(t, d, align) == OrOf(RightBy(t, 8 * align), LeftBy(d, 8 * (4 - align)))

\* The first 4 - align bytes in the high bytes of t.
Preloaded(key, align) == LeftBy(Tail32(key, 0, 4 - align), 8 * align)

MurmurHash1Aligned(key, seed, align) ==
  LET h0 == XorOf(seed, Times(U32(Len(key)), M1))
      first == 4 - align
      len == Len(key) - first
      s == For(LAMBDA v, j : LET d == Word32(key, first + 4 * j)
                             IN  [h |-> Mixed1(v.h, Shifted(v.t, d, align)), t |-> d],
               [h |-> h0, t |-> Preloaded(key, align)], 0, len \div 4 - 1)
      at == first + 4 * (len \div 4)
      pack == IF len % 4 < align THEN len % 4 ELSE align
      h == Mixed1(s.h, Shifted(s.t, Tail32(key, at, pack), align))
  IN  IF align # 0 /\ Len(key) >= 4
      THEN Finished1(Tailed1(h, key, at + pack, (len % 4) - pack))
      ELSE MurmurHash1(key, seed)
-----------------------------------------------------------------------------
(* MurmurHash2.cpp *)

M2 == W32(\H5bd1, \He995)

Scrambled2(k) == Times(XorShifted(Times(k, M2), 24), M2)

\* mmix
Mixed2(h, k) == XorOf(Times(h, M2), Scrambled2(k))

Finished2(h) == XorShifted(Times(XorShifted(h, 13), M2), 15)

Tailed2(h, m, i, n) == IF n = 0 THEN h ELSE Times(XorOf(h, Tail32(m, i, n)), M2)

MurmurHash2(key, seed) ==
  LET h == Blocks(LAMBDA g, i : Mixed2(g, Word32(key, i)), XorOf(seed, U32(Len(key))), key, 4)
  IN  Finished2(Tailed2(h, key, From(key, 4), Left(key, 4)))

M64 == W64(\Hc6a4, \Ha793, \H5bd1, \He995)

MurmurHash64A(key, seed) ==
  LET Mixed(h, k) == Times(XorOf(h, Times(XorShifted(Times(k, M64), 47), M64)), M64)
      h1 == Blocks(LAMBDA g, i : Mixed(g, Word64(key, i)),
                   XorOf(seed, Times(U64(Len(key)), M64)), key, 8)
      n == Left(key, 8)
      h2 == IF n = 0 THEN h1 ELSE Times(XorOf(h1, Tail64(key, From(key, 8), n)), M64)
  IN  XorShifted(Times(XorShifted(h2, 47), M64), 47)

\* Two halves side by side: words go to the first and to the second by turns.
MurmurHash64B(key, seed) ==
  LET s1 == Blocks(LAMBDA v, i : <<Mixed2(v[1], Word32(key, i)), Mixed2(v[2], Word32(key, i + 4))>>,
                   <<XorOf(Low32(seed), U32(Len(key))), High32(seed)>>, key, 8)
      s2 == IF Left(key, 8) < 4 THEN s1
            ELSE <<Mixed2(s1[1], Word32(key, From(key, 8))), s1[2]>>
      a2 == Tailed2(s2[2], key, From(key, 4), Left(key, 4))
      b1 == Times(XorOf(s2[1], RightBy(a2, 18)), M2)
      b2 == Times(XorOf(a2, RightBy(b1, 22)), M2)
      c1 == Times(XorOf(b1, RightBy(b2, 17)), M2)
      c2 == Times(XorOf(b2, RightBy(c1, 19)), M2)
  IN  c2 \o c1

MurmurHash2A(key, seed) ==
  LET h1 == Blocks(LAMBDA g, i : Mixed2(g, Word32(key, i)), seed, key, 4)
      h2 == Mixed2(h1, Tail32(key, From(key, 4), Left(key, 4)))
  IN  Finished2(Mixed2(h2, U32(Len(key))))

\* The incremental class; count, size and the bytes in tail are its members.
Begin2A(seed) == [hash |-> seed, tail |-> << >>, size |-> 0]

\* MixTail: bytes go to the tail while there are fewer than four of them or while
\* the tail holds some; a tail of four is mixed in.
TailTaken(s, data) ==
  LET full == s.tail # << >> /\ Len(s.tail) + Len(data) >= 4
      k == IF full THEN 4 - Len(s.tail)
           ELSE IF s.tail # << >> \/ Len(data) < 4 THEN Len(data) ELSE 0
      tail == s.tail \o SubSeq(data, 1, k)
      rest == SubSeq(data, k + 1, Len(data))
      mixed == IF full
               THEN [s EXCEPT !.hash = Mixed2(s.hash, Word32(tail, 0)), !.tail = << >>]
               ELSE [s EXCEPT !.tail = tail]
  IN  IF full /\ Len(rest) < 4 THEN <<[mixed EXCEPT !.tail = rest], << >>>>
      ELSE <<mixed, rest>>

Add2A(s, data) ==
  LET taken == TailTaken([s EXCEPT !.size = @ + Len(data)], data)
      rest == taken[2]
      mixed == Blocks(LAMBDA g, i : Mixed2(g, Word32(rest, i)), taken[1].hash, rest, 4)
  IN  TailTaken([taken[1] EXCEPT !.hash = mixed], SubSeq(rest, From(rest, 4) + 1, Len(rest)))[1]

End2A(s) == Finished2(Mixed2(Mixed2(s.hash, Tail32(s.tail, 0, Len(s.tail))), U32(s.size)))

\* The aligned reads, as in MurmurHash1Aligned; a remainder too short to fill the
\* last word is mixed as the tail.
MurmurHashAligned2(key, seed, align) ==
  LET first == 4 - align
      len == Len(key) - first
      s == For(LAMBDA v, j : LET d == Word32(key, first + 4 * j)
                             IN  [h |-> Mixed2(v.h, Shifted(v.t, d, align)), t |-> d],
               [h |-> XorOf(seed, U32(Len(key))), t |-> Preloaded(key, align)],
               0, len \div 4 - 1)
      at == first + 4 * (len \div 4)
      left == len % 4
      Last(n) == Shifted(s.t, Tail32(key, at, n), align)
  IN  IF align = 0 \/ Len(key) < 4 THEN MurmurHash2(key, seed)
      ELSE IF left >= align
      THEN Finished2(Tailed2(Mixed2(s.h, Last(align)), key, at + align, left - align))
      ELSE Finished2(Times(XorOf(s.h, Last(left)), M2))
\* The word is put together byte by byte.
MurmurHashNeutral2(key, seed) ==
  LET Assembled(i) == OrOf(OrOf(U32(key[i + 1]), LeftBy(U32(key[i + 2]), 8)),
                         OrOf(LeftBy(U32(key[i + 3]), 16), LeftBy(U32(key[i + 4]), 24)))
      h == Blocks(LAMBDA g, i : Mixed2(g, Assembled(i)), XorOf(seed, U32(Len(key))), key, 4)
  IN  Finished2(Tailed2(h, key, From(key, 4), Left(key, 4)))
-----------------------------------------------------------------------------
(* MurmurHash3.cpp *)

fmix32(h) ==
  LET a == Times(XorShifted(h, 16), W32(\H85eb, \Hca6b))
      b == Times(XorShifted(a, 13), W32(\Hc2b2, \Hae35))
  IN  XorShifted(b, 16)

fmix64(k) ==
  LET a == Times(XorShifted(k, 33), W64(\Hff51, \Hafd7, \Hed55, \H8ccd))
      b == Times(XorShifted(a, 33), W64(\Hc4ce, \Hb9fe, \H1a85, \Hec53))
  IN  XorShifted(b, 33)

\* k *= c; k = ROTL(k, r); k *= d
Scrambled3(k, c, r, d) == Times(RotatedLeft(Times(k, c), r), d)

\* h = h * 5 + n
TimesFivePlus(h, n) == Plus(Plus(LeftBy(h, 2), h), n)

C1 == W32(\Hcc9e, \H2d51)
C2 == W32(\H1b87, \H3593)

\* DOBLOCK of PMurHash.c is the same.
Mixed3(h, k) ==
  TimesFivePlus(RotatedLeft(XorOf(h, Scrambled3(k, C1, 15, C2)), 13), W32(\He654, \H6b64))

MurmurHash3_x86_32(key, seed) ==
  LET h == Blocks(LAMBDA g, i : Mixed3(g, Word32(key, i)), seed, key, 4)
      k == Tail32(key, From(key, 4), Left(key, 4))
  IN  fmix32(XorOf(XorOf(h, Scrambled3(k, C1, 15, C2)), U32(Len(key))))

\* The n bytes from byte i on, at most four of them.
UpTo4(m, i, n) == IF n <= 0 THEN Zero32 ELSE Tail32(m, i, IF n < 4 THEN n ELSE 4)

\* Four lanes; each is mixed with the next one, the last with what is now the first.
MurmurHash3_x86_128(key, seed) ==
  LET c == <<W32(\H239b, \H961b), W32(\Hab0e, \H9789), W32(\H38b3, \H4ae5), W32(\Ha1e3, \H8b93)>>
      add == <<W32(\H561c, \Hcd1b), W32(\H0bca, \Ha747), W32(\H96cd, \H1c35), W32(\H32ac, \H3b17)>>
      turn == <<19, 17, 15, 13>>
      After(j) == (j % 4) + 1
      K(k, j) == Scrambled3(k, c[j], 14 + j, c[After(j)])
      Lane(h, j, i) ==
        [h EXCEPT ![j] = TimesFivePlus(Plus(RotatedLeft(XorOf(@, K(Word32(key, i + (4 * (j - 1))), j)),
                                                        turn[j]), h[After(j)]), add[j])]
      h1 == Blocks(LAMBDA g, i : For(LAMBDA f, j : Lane(f, j, i), g, 1, 4),
                   [j \in 1 .. 4 |-> seed], key, 16)
      at == From(key, 16)
      h2 == [j \in 1 .. 4 |->
               XorOf(XorOf(h1[j], K(UpTo4(key, at + (4 * (j - 1)), Left(key, 16) - (4 * (j - 1))), j)),
                   U32(Len(key)))]
      Summed(h) == LET a == Plus(Plus(Plus(h[1], h[2]), h[3]), h[4])
                   IN  <<a, Plus(h[2], a), Plus(h[3], a), Plus(h[4], a)>>
      h3 == Summed([j \in 1 .. 4 |-> fmix32(Summed(h2)[j])])
  IN  h3[1] \o h3[2] \o h3[3] \o h3[4]

MurmurHash3_x64_128(key, seed) ==
  LET c1 == W64(\H87c3, \H7b91, \H1142, \H53d5)
      c2 == W64(\H4cf5, \Had43, \H2745, \H937f)
      K1(k) == Scrambled3(k, c1, 31, c2)
      K2(k) == Scrambled3(k, c2, 33, c1)
      Mixed(h, i) ==
        LET a == TimesFivePlus(Plus(RotatedLeft(XorOf(h[1], K1(Word64(key, i))), 27), h[2]),
                               W64(0, 0, \H52dc, \He729))
        IN  <<a, TimesFivePlus(Plus(RotatedLeft(XorOf(h[2], K2(Word64(key, i + 8))), 31), a),
                               W64(0, 0, \H3849, \H5ab5))>>
      h == Blocks(Mixed, <<Widened(seed), Widened(seed)>>, key, 16)
      at == From(key, 16)
      n == Left(key, 16)
      t1 == XorOf(h[1], K1(Tail64(key, at, IF n < 8 THEN n ELSE 8)))
      t2 == IF n <= 8 THEN h[2] ELSE XorOf(h[2], K2(Tail64(key, at + 8, n - 8)))
      Summed(a, b) == <<Plus(a, b), Plus(b, Plus(a, b))>>
      s == Summed(XorOf(t1, U64(Len(key))), XorOf(t2, U64(Len(key))))
      f == Summed(fmix64(s[1]), fmix64(s[2]))
  IN  f[1] \o f[2]
-----------------------------------------------------------------------------
(* PMurHash.c: h1, the carry word c, and n, the bytes that count in c. *)

\* Mutant: the carried bytes are taken from the low end of c.
CarryingLow(c, n, w) == IF n = 0 THEN w ELSE OrOf(RightBy(c, 8 * n), LeftBy(w, 8 * n))

\* k1 of the block that the switch makes of n carried bytes and a word.
Carrying(c, n, w) == IF n = 0 THEN w ELSE OrOf(RightBy(c, 8 * (4 - n)), LeftBy(w, 8 * n))

\* The carry is a block like any other when it is full; DOBLOCK leaves it scrambled.
DOBYTES(s, data) ==
  ForEachOf(LAMBDA t, b :
              LET c == OrOf(RightBy(t.c, 8), LeftBy(U32(b), 24))
              IN  IF t.n = 3 THEN [h1 |-> Mixed3(t.h1, c), c |-> Scrambled3(c, C1, 15, C2), n |-> 0]
                  ELSE [h1 |-> t.h1, c |-> c, n |-> t.n + 1],
            s, data)

\* align is the address of the key modulo 4, safe that UNALIGNED_SAFE is defined; what
\* is kept between calls is the pair of h1 and of c with n in its low bits.
PMurHash32_Process(ph, key, align, safe) ==
  LET n0 == ph.carry[1] % 4
      i == IF safe THEN (4 - n0) % 4 ELSE (4 - align) % 4
      first == IF i <= Len(key) THEN i ELSE 0
      s1 == DOBYTES([h1 |-> ph.h1, c |-> ph.carry, n |-> n0], SubSeq(key, 1, first))
      rest == SubSeq(key, first + 1, Len(key))
      Chunk(s, w) == [h1 |-> Mixed3(s.h1, Carrying(s.c, s.n, w)),
                      c |-> IF s.n = 0 THEN s.c ELSE w, n |-> s.n]
      Plain(s, w) == [s EXCEPT !.h1 = Mixed3(@, w)]
      s2 == Blocks(LAMBDA s, j : IF safe THEN Plain(s, Word32(rest, j)) ELSE Chunk(s, Word32(rest, j)),
                   s1, rest, 4)
      s3 == DOBYTES(s2, SubSeq(rest, From(rest, 4) + 1, Len(rest)))
  IN  [h1 |-> s3.h1,
       carry |-> <<s3.c[1] - (s3.c[1] % 256) + s3.n, s3.c[2]>>]

PMurHash32_Result(ph, total) ==
  LET n == ph.carry[1] % 4
      k == Scrambled3(RightBy(ph.carry, 8 * (4 - n)), C1, 15, C2)
      h == IF n = 0 THEN ph.h1 ELSE XorOf(ph.h1, k)
  IN  fmix32(XorOf(h, U32(total)))

PMurHash32(seed, key, align, safe) ==
  PMurHash32_Result(PMurHash32_Process([h1 |-> seed, carry |-> Zero32], key, align, safe), Len(key))
-----------------------------------------------------------------------------
(* SuperFastHash.cpp, lookup3.cpp, crc.cpp and Hashes.cpp *)

\* Mutant: a byte read as unsigned char.
Unsigned(b) == U32(b)

\* A byte read as signed char.
Signed(b) == IF b < 128 THEN U32(b) ELSE <<(Digit - 256) + b, Digit - 1>>

SuperFastHash(key) ==
  LET Half(i) == <<Word16(key, i), 0>>
      Grown(h, k) == Plus(h, RightBy(h, k))
      Block(h, i) == LET a == Plus(h, Half(i))
                         tmp == XorOf(LeftBy(Half(i + 2), 11), a)
                     IN  Grown(XorOf(LeftBy(a, 16), tmp), 11)
      at == From(key, 4)
      rem == Left(key, 4)
      h1 == Blocks(Block, Zero32, key, 4)
      h2 == CASE rem = 3 -> Grown(XorOf(XorShiftedLeft(Plus(h1, Half(at)), 16),
                                      LeftBy(Signed(key[at + 3]), 18)), 11)
              [] rem = 2 -> Grown(XorShiftedLeft(Plus(h1, Half(at)), 11), 17)
              [] rem = 1 -> Grown(XorShiftedLeft(Plus(h1, Signed(key[at + 1])), 10), 1)
              [] rem = 0 -> h1
      h3 == Grown(XorShiftedLeft(Grown(XorShiftedLeft(h2, 3), 5), 4), 17)
  IN  IF key = << >> THEN Zero32 ELSE Grown(XorShiftedLeft(h3, 25), 6)

\* A line of the macro mix: x is a, b and c by turns, y the next and z the one after.
MixLine(s, k) ==
  LET a == XorOf(Difference(s[1], s[3]), RotatedLeft(s[3], k))
      c == Plus(s[3], s[2])
  IN  <<s[2], c, a>>

\* A line of the macro final on c and b: c ^= b; c -= rot(b, k).
FinalLine(c, b, k) == Difference(XorOf(c, b), RotatedLeft(b, k))

lookup3(key, initval) ==
  LET len == Len(key)
      blocks == IF len = 0 THEN 0 ELSE (len - 1) \div 12    \* all but the last one
      At(i) == UpTo4(key, i, len - i)
      Add(s, i) == <<Plus(s[1], At(i)), Plus(s[2], At(i + 4)), Plus(s[3], At(i + 8))>>
      start == Plus(Plus(W32(\Hdead, \Hbeef), U32(len)), initval)
      s1 == For(LAMBDA s, j : ForEachOf(MixLine, Add(s, 12 * j), <<4, 6, 8, 16, 19, 4>>),
                <<start, start, start>>, 0, blocks - 1)
      s2 == Add(s1, 12 * blocks)
      c1 == FinalLine(s2[3], s2[2], 14)
      a1 == FinalLine(s2[1], c1, 11)
      b1 == FinalLine(s2[2], a1, 25)
      c2 == FinalLine(c1, b1, 16)
      a2 == FinalLine(a1, c2, 4)
      b2 == FinalLine(b1, a2, 14)
  IN  IF len = 0 THEN start ELSE FinalLine(c2, b2, 24)

\* What eight shifts make of a byte, with the polynomial wherever a bit falls out.
crc_table == [b \in 0 .. 255 |->
                For(LAMBDA c, i : IF c[1] % 2 = 1 THEN XorOf(RightBy(c, 1), W32(\Hedb8, \H8320))
                                  ELSE RightBy(c, 1), U32(b), 1, 8)]

crc32(key, seed) ==
  NotOf(ForEachOf(LAMBDA c, b : XorOf(crc_table[XorByte[c[1] % 256][b]], RightBy(c, 8)), NotOf(seed), key))

BadHash(key, seed) == Bytes(LAMBDA h, b : XorOf(XorShiftedLeft(XorShifted(h, 3), 5), b), seed, key)

sumhash(key, seed) == Bytes(Plus, seed, key)

sumhash32(key, seed) == Blocks(LAMBDA h, i : Plus(h, Word32(key, i)), seed, key, 4)

MurmurOAAT(key, seed) == Bytes(LAMBDA h, b : XorShifted(Times(XorOf(h, b), M2), 15), seed, key)

FNV(key, seed) ==
  Bytes(LAMBDA h, b : Times(XorOf(h, b), W32(\H100, \H193)), XorOf(seed, W32(\H811c, \H9dc5)), key)

x17(key, seed) ==
  XorShifted(Bytes(LAMBDA h, b : Plus(Plus(LeftBy(h, 4), h), Difference(b, U32(32))), seed, key), 16)

Bernstein(key, seed) == Bytes(LAMBDA h, b : Plus(Plus(LeftBy(h, 5), h), b), seed, key)

Crap8(key, seed) ==
  LET m == W32(\H83d2, \He73b)
      n == W32(\H97e1, \Hcc59)
      len == U32(Len(key))
      Product(a, b) == Times(Widened(a), Widened(b))
      Fold(s, k) == LET h == Times(s[1], m)             \* c8mix
                        p == Product(k, m)
                    IN  <<XorOf(h, High32(p)), XorOf(s[2], Low32(p))>>
      s1 == Blocks(LAMBDA s, i : Fold(s, Word32(key, i)), <<Plus(len, seed), Plus(n, len)>>, key, 4)
      left == Left(key, 4)
      s2 == IF left = 0 THEN s1 ELSE Fold(s1, Tail32(key, From(key, 4), left))
      p == Product(XorOf(s2[1], s2[2]), n)
  IN  XorOf(XorOf(s2[2], Low32(p)), High32(p))
-----------------------------------------------------------------------------
(* BloomFilter.cpp *)

murmurhash3(key, seed) ==
  LET h == Blocks(LAMBDA g, i : Plus(Times(RotatedLeft(XorOf(g, Scrambled3(Word32(key, i), C1, 15, C2)), 13),
                                           U32(5)), W32(\He654, \H6b64)), seed, key, 4)
      k == Tail32(key, From(key, 4), Left(key, 4))
      t == IF Left(key, 4) = 0 THEN h ELSE XorOf(h, Scrambled3(k, C1, 15, C2))
  IN  fmix32(XorOf(t, U32(Len(key))))

\* h % n, for an n whose square fits TLC's integers.
Remainder(h, n) == ((h[2] % n) * (Digit % n) + h[1]) % n

\* bitArray is the set of the places that hold 1.
NewFilter(size, numHashFunctions) ==
  [bitArray |-> {}, size |-> size, numHashFunctions |-> numHashFunctions]

Probes(filter, item) ==
  {Remainder(murmurhash3(item, U32(i)), filter.size) : i \in 0 .. filter.numHashFunctions - 1}

bloomAdd(filter, item) == [filter EXCEPT !.bitArray = @ \cup Probes(filter, item)]

contains(filter, item) == Probes(filter, item) \subseteq filter.bitArray
-----------------------------------------------------------------------------
(* BloomFilter_LevelDB.cpp: array is the set of the bits that are set; the *)
(* filter's last byte is k.                                                *)

InitializeBloomFilter(n, bits_per_key) ==
  LET k == (69 * bits_per_key) \div 100
      bits == IF n * bits_per_key < 64 THEN 64 ELSE n * bits_per_key
  IN  [array |-> {}, bytes |-> (bits + 7) \div 8, k |-> IF k < 1 THEN 1 ELSE IF k > 30 THEN 30 ELSE k]

BitsOf(filter) == 8 * filter.bytes

\* The k places of a key: h goes up by delta, which is h turned by 15.
Positions(filter, key) ==
  LET h0 == MurmurHash3_x86_32(key, U32(42))
      s == For(LAMBDA t, j : [h |-> Plus(t.h, RotatedLeft(h0, 15)),
                              at |-> t.at \cup {Remainder(t.h, BitsOf(filter))}],
               [h |-> h0, at |-> {}], 0, filter.k - 1)
  IN  s.at

UpdateBloomFilter(keys, filter) ==
  IF filter.bytes < 1 \/ filter.k > 30 THEN filter
  ELSE ForEachOf(LAMBDA f, key : [f EXCEPT !.array = @ \cup Positions(f, key)], filter, keys)

KeyMayMatch(key, filter) ==
  filter.bytes >= 1 /\ (filter.k > 30 \/ Positions(filter, key) \subseteq filter.array)
-----------------------------------------------------------------------------
(* Both filters, for the keys that are added and all that are asked for. *)

FiltersOf(keys, n, bits_per_key, asked) ==
  LET Added(f) == UpdateBloomFilter(keys, f)
      plain == ForEachOf(bloomAdd, NewFilter(n, bits_per_key), keys)
      level == Added(InitializeBloomFilter(n, bits_per_key))
  IN  [plain |-> plain, level |-> level,
       unknown |-> Added([InitializeBloomFilter(n, bits_per_key) EXCEPT !.k = 31]),
       found |-> {key \in asked : contains(plain, key)},
       matched |-> {key \in asked : KeyMayMatch(key, level)}]

\* A filter finds all that was put into it, and nothing before; it finds what it would
\* not change for; and one of unknown make finds everything.
FiltersRight(keys, asked, out) ==
  LET added == {keys[i] : i \in DOMAIN keys}
  IN  /\ added \subseteq out.found /\ added \subseteq out.matched
      /\ out.found = {key \in asked : bloomAdd(out.plain, key) = out.plain}
      /\ out.matched = {key \in asked : UpdateBloomFilter(<<key>>, out.level) = out.level}
      /\ added = {} => out.matched = {} /\ (out.plain.numHashFunctions > 0 => out.found = {})
      /\ out.level.array \subseteq 0 .. 8 * out.level.bytes - 1 /\ out.unknown.array = {}
      /\ \A key \in asked : KeyMayMatch(key, out.unknown)
-----------------------------------------------------------------------------
(* Bitvec.cpp: a block of memory is the set of its bits that are 1. *)

popcount(v) ==
  LET a == Difference(v, AndOf(RightBy(v, 1), W32(\H5555, \H5555)))
      b == Plus(AndOf(a, W32(\H3333, \H3333)), AndOf(RightBy(a, 2), W32(\H3333, \H3333)))
  IN  RightBy(Times(Plus(b, AndOf(RightBy(b, 4), W32(\H0f0f, \H0f0f))), W32(\H0101, \H0101)), 24)

countbits(v) == popcount(v)

parity(v) ==
  LET a == XorShifted(XorShifted(v, 1), 2)
  IN  RightBy(Times(AndOf(a, W32(\H1111, \H1111)), W32(\H1111, \H1111)), 28)[1] % 2

getbit(block, len, bit) == bit \in 0 .. (8 * len) - 1 /\ bit \in block

getbit_wrap(block, len, bit) == (8 * ((bit \div 8) % len)) + (bit % 8) \in block

setbit(block, len, bit, val) ==
  IF bit \notin 0 .. (8 * len) - 1 THEN block ELSE IF val THEN block \cup {bit} ELSE block \ {bit}

flipbit(block, len, bit) ==
  IF bit \notin 0 .. (8 * len) - 1 THEN block ELSE IF bit \in block THEN block \ {bit} ELSE block \cup {bit}

lshift1(blob, len, c) ==
  ForDown(LAMBDA a, i : setbit(a, len, i, getbit(a, len, i - c)), blob, (8 * len) - 1, 0)

rshift1(blob, len, c) ==
  For(LAMBDA a, i : setbit(a, len, i, getbit(a, len, i + c)), blob, 0, (8 * len) - 1)

lrot1(blob, len, c) ==
  For(LAMBDA a, i : setbit(lshift1(a, len, 1), len, 0, getbit(a, len, (8 * len) - 1)), blob, 1, c)

rrot1(blob, len, c) ==
  For(LAMBDA a, i : setbit(rshift1(a, len, 1), len, (8 * len) - 1, getbit(a, len, 0)), blob, 1, c)

\* The numbers of w bits in a block, and the block that they make.
NumbersIn(blob, len, w) ==
  [i \in 1 .. (8 * len) \div w |-> {x \in 0 .. w - 1 : (w * (i - 1)) + x \in blob}]
BlockOf(k, w) == UNION {{(w * (i - 1)) + x : x \in k[i]} : i \in DOMAIN k}

\* a << c in w bits, and a >> c.
Up(a, c, w) == {x + c : x \in {y \in a : y + c < w}}
Down(a, c) == {x - c : x \in {y \in a : y >= c}}

\* k[i] = (a << c) | (b >> (w-c)) from the last number to the first, which gets t's bits;
\* and k[i] = (a << (w-c)) | (b >> c) from the first to the last.
LeftPass(k, w, c, t) ==
  IF c = 0 THEN k
  ELSE ForDown(LAMBDA l, i : [l EXCEPT ![i] = Up(@, c, w) \cup Down(IF i = 1 THEN t ELSE l[i - 1], w - c)],
               k, Len(k), 1)
RightPass(k, w, c, t) ==
  IF c = 0 THEN k
  ELSE For(LAMBDA l, i : [l EXCEPT ![i] = Up(IF i = Len(k) THEN t ELSE l[i + 1], w - c, w) \cup Down(@, c)],
           k, 1, Len(k))

\* Whole numbers are moved first, then bits.
lshift(blob, len, c, w) ==
  LET b == c \div w
      k == NumbersIn(blob, len, w)
      moved == ForDown(LAMBDA l, i : [l EXCEPT ![i] = IF i > b THEN l[i - b] ELSE {}], k, Len(k), 1)
  IN  BlockOf(LeftPass(moved, w, c % w, {}), w)

rshift(blob, len, c, w) ==
  LET b == c \div w
      k == NumbersIn(blob, len, w)
      moved == For(LAMBDA l, i : [l EXCEPT ![i] = IF i + b <= Len(k) THEN l[i + b] ELSE {}], k, 1, Len(k))
  IN  BlockOf(RightPass(moved, w, c % w, {}), w)

lrot(blob, len, c, w) ==
  LET k == NumbersIn(blob, len, w)
      n == Len(k)
      turned == For(LAMBDA l, j : <<l[n]>> \o SubSeq(l, 1, n - 1), k, 1, c \div w)
  IN  BlockOf(LeftPass(turned, w, c % w, turned[n]), w)

rrot(blob, len, c, w) ==
  LET turned == For(LAMBDA l, j : Append(Tail(l), l[1]), NumbersIn(blob, len, w), 1, c \div w)
  IN  BlockOf(RightPass(turned, w, c % w, turned[1]), w)

lshift8(blob, len, c) == lshift(blob, len, c, 8)
lshift32(blob, len, c) == lshift(blob, len, c, 32)
rshift8(blob, len, c) == rshift(blob, len, c, 8)
rshift32(blob, len, c) == rshift(blob, len, c, 32)
lrot8(blob, len, c) == lrot(blob, len, c, 8)
lrot32(blob, len, c) == lrot(blob, len, c, 32)
rrot8(blob, len, c) == rrot(blob, len, c, 8)
rrot32(blob, len, c) == rrot(blob, len, c, 32)

\* The bits of t below count.
Masked(t, count) == {x \in t : x < count}

window1(blob, len, start, count) ==
  For(LAMBDA t, i : setbit(t, 4, i, getbit_wrap(blob, len, (start % (8 * len)) + i)), {}, 0, count - 1)

window8(blob, len, start, count) ==
  LET at == start % (8 * len)
      c == at % 8
      k == NumbersIn(blob, len, 8)
      K(i) == k[((i + (at \div 8)) % len) + 1]
      m(i) == Up(K(i + 1), 8 - c, 32) \cup Down(K(i), c)
  IN  IF count = 0 THEN {} ELSE Masked(UNION {Up(m(i), 8 * i, 32) : i \in 0 .. 3}, count)

window32(blob, len, start, count) ==
  LET at == start % (8 * len)
      c == at % 32
      d == at \div 32
      k == NumbersIn(blob, len, 32)
  IN  IF count = 0 THEN {}
      ELSE IF c = 0 THEN Masked(k[d + 1], count)
      ELSE Masked(Up(k[((d + 1) % Len(k)) + 1], 32 - c, 32) \cup Down(k[d + 1], c), count)
-----------------------------------------------------------------------------
(* test_shift and test_window, for blocks of any length. *)

MovedBits(a, len, i) ==
  LET Of(one, eight, thirtyTwo) == {one, eight} \cup (IF len % 4 = 0 THEN {thirtyTwo} ELSE {})
  IN  [left |-> Of(lshift1(a, len, i), lshift8(a, len, i), lshift32(a, len, i)),
       right |-> Of(rshift1(a, len, i), rshift8(a, len, i), rshift32(a, len, i)),
       turnedLeft |-> Of(lrot1(a, len, i), lrot8(a, len, i), lrot32(a, len, i)),
       turnedRight |-> Of(rrot1(a, len, i), rrot8(a, len, i), rrot32(a, len, i)),
       seen |-> [count \in {0, 1, 7, 8, 13, 30} |->
                   Of(window1(a, len, i, count), window8(a, len, i, count), window32(a, len, i, count))],
       flipped |-> flipbit(a, len, i)]

\* The shifts, turns and windows by bits, bytes and words do one thing, and the right one.
MovedRight(a, len, i, out) ==
  LET bits == 8 * len
  IN  /\ out.left = {{x + i : x \in a} \cap (0 .. bits - 1)}
      /\ out.right = {{x - i : x \in a} \cap (0 .. bits - 1)}
      /\ out.turnedLeft = {{(x + i) % bits : x \in a}}
      /\ out.turnedRight = {{(x + bits - i) % bits : x \in a}}
      /\ \A count \in DOMAIN out.seen :
           out.seen[count] = {{x \in 0 .. count - 1 : ((x + i) % bits) \in a}}
      /\ out.flipped = (a \ {i}) \cup ({i} \ a)

\* A word of 32 bits as its bits.
BitsIn(v) == {x \in 0 .. 31 : RightBy(v, x)[1] % 2 = 1}

\* The parity is right, and the counts are as far as their last four bits go.
CountedRight(v, out) ==
  LET n == Cardinality(BitsIn(v))
  IN  out[1] = out[2] /\ out[1][1] % 16 = n % 16 /\ out[3] = n % 2
-----------------------------------------------------------------------------
(* MD5, SHA-1, SpookyHash and CityHash, fed piece by piece, and the test that says *)
(* whether a hash is implemented right.                                           *)

a ++ b == Plus(a, b)
a -- b == Difference(a, b)
a ** b == Times(a, b)
a (+) b == XorOf(a, b)

\* The bytes of m from byte i on, which is the first at 0.
FromByte(m, i) == SubSeq(m, i + 1, Len(m))
-----------------------------------------------------------------------------
(* md5.cpp.  Only the low 32 bits of an unsigned long ever count. *)

MD5Added == <<
    W32(\HD76A, \HA478), W32(\HE8C7, \HB756), W32(\H2420, \H70DB), W32(\HC1BD, \HCEEE),
    W32(\HF57C, \H0FAF), W32(\H4787, \HC62A), W32(\HA830, \H4613), W32(\HFD46, \H9501),
    W32(\H6980, \H98D8), W32(\H8B44, \HF7AF), W32(\HFFFF, \H5BB1), W32(\H895C, \HD7BE),
    W32(\H6B90, \H1122), W32(\HFD98, \H7193), W32(\HA679, \H438E), W32(\H49B4, \H0821),
    W32(\HF61E, \H2562), W32(\HC040, \HB340), W32(\H265E, \H5A51), W32(\HE9B6, \HC7AA),
    W32(\HD62F, \H105D), W32(\H0244, \H1453), W32(\HD8A1, \HE681), W32(\HE7D3, \HFBC8),
    W32(\H21E1, \HCDE6), W32(\HC337, \H07D6), W32(\HF4D5, \H0D87), W32(\H455A, \H14ED),
    W32(\HA9E3, \HE905), W32(\HFCEF, \HA3F8), W32(\H676F, \H02D9), W32(\H8D2A, \H4C8A),
    W32(\HFFFA, \H3942), W32(\H8771, \HF681), W32(\H6D9D, \H6122), W32(\HFDE5, \H380C),
    W32(\HA4BE, \HEA44), W32(\H4BDE, \HCFA9), W32(\HF6BB, \H4B60), W32(\HBEBF, \HBC70),
    W32(\H289B, \H7EC6), W32(\HEAA1, \H27FA), W32(\HD4EF, \H3085), W32(\H0488, \H1D05),
    W32(\HD9D4, \HD039), W32(\HE6DB, \H99E5), W32(\H1FA2, \H7CF8), W32(\HC4AC, \H5665),
    W32(\HF429, \H2244), W32(\H432A, \HFF97), W32(\HAB94, \H23A7), W32(\HFC93, \HA039),
    W32(\H655B, \H59C3), W32(\H8F0C, \HCC92), W32(\HFFEF, \HF47D), W32(\H8584, \H5DD1),
    W32(\H6FA8, \H7E4F), W32(\HFE2C, \HE6E0), W32(\HA301, \H4314), W32(\H4E08, \H11A1),
    W32(\HF753, \H7E82), W32(\HBD3A, \HF235), W32(\H2AD7, \HD2BB), W32(\HEB86, \HD391)>>

MD5Turned == <<<<7, 12, 17, 22>>, <<5, 9, 14, 20>>, <<4, 11, 16, 23>>, <<6, 10, 15, 21>>>>

\* The macro F of each of the four rounds, and the word it takes in turn i.
MD5F(round, x, y, z) ==
  CASE round = 1 -> z (+) AndOf(x, y (+) z)
    [] round = 2 -> y (+) AndOf(z, x (+) y)
    [] round = 3 -> (x (+) y) (+) z
    [] round = 4 -> y (+) OrOf(x, NotOf(z))
MD5Word(round, i) ==
  CASE round = 1 -> i [] round = 2 -> ((5 * i) + 1) % 16
    [] round = 3 -> ((3 * i) + 5) % 16 [] round = 4 -> (7 * i) % 16

\* The roles of A, B, C and D move on by one with every P.
md5_process(state, data) ==
  LET P(s, i) ==
        LET round == 1 + i \div 16
            a == s[1] ++ MD5F(round, s[2], s[3], s[4]) ++ Word32(data, 4 * MD5Word(round, i % 16))
                   ++ MD5Added[i + 1]
        IN  <<s[4], RotatedLeft(a, MD5Turned[round][1 + (i % 4)]) ++ s[2], s[2], s[3]>>
      s == For(P, state, 0, 63)
  IN  <<state[1] ++ s[1], state[2] ++ s[2], state[3] ++ s[3], state[4] ++ s[4]>>

\* total counts bytes; buffer holds those of a block that is not full.
md5_starts == [total |-> 0, buffer |-> << >>,
               state |-> <<W32(\H6745, \H2301), W32(\HEFCD, \HAB89), W32(\H98BA, \HDCFE), W32(\H1032, \H5476)>>]

md5_update(ctx, input) ==
  LET fill == 64 - Len(ctx.buffer)
      full == ctx.buffer # << >> /\ Len(input) >= fill
      rest == IF full THEN FromByte(input, fill) ELSE input
      state == IF full THEN md5_process(ctx.state, ctx.buffer \o SubSeq(input, 1, fill)) ELSE ctx.state
  IN  [total |-> ctx.total + Len(input),
       state |-> Blocks(LAMBDA s, i : md5_process(s, FromByte(rest, i)), state, rest, 64),
       buffer |-> (IF full THEN << >> ELSE ctx.buffer) \o FromByte(rest, From(rest, 64))]

md5_finish(ctx) ==
  LET last == ctx.total % 64
      padding == [i \in 1 .. (IF last < 56 THEN 56 ELSE 120) - last |-> IF i = 1 THEN 128 ELSE 0]
      end == md5_update(md5_update(ctx, padding), BytesOf(LeftBy(U64(ctx.total), 3)))
  IN  end.state

md5_32(key) == md5_finish(md5_update(md5_starts, key))[1]
-----------------------------------------------------------------------------
(* sha1.cpp *)

\* The four bytes of a word the other way round: blk0.
BigEndian(w) == LET Turn(d) == 256 * (d % 256) + d \div 256 IN <<Turn(w[2]), Turn(w[1])>>

\* R0 to R4 by the number of the turn.
SHA1F(i, w, x, y) == IF i < 20 THEN AndOf(w, x (+) y) (+) y
                     ELSE IF i \in 40 .. 59 THEN OrOf(AndOf(OrOf(w, x), y), AndOf(w, x))
                     ELSE (w (+) x) (+) y
SHA1Added == <<W32(\H5A82, \H7999), W32(\H6ED9, \HEBA1), W32(\H8F1B, \HBCDC), W32(\HCA62, \HC1D6)>>

\* The new state, and the block: its words are expanded in the memory they were read from.
SHA1_Transform(state, buffer) ==
  LET Expanded(l, i) ==
        LET At(j) == l[1 + ((i + j) % 16)]
        IN  IF i < 16 THEN BigEndian(l[i + 1])
            ELSE RotatedLeft(((At(13) (+) At(8)) (+) At(2)) (+) At(0), 1)
      R(s, i) ==
        LET blk == Expanded(s.l, i)
            z == s.v[5] ++ SHA1F(i, s.v[2], s.v[3], s.v[4]) ++ blk ++ SHA1Added[1 + i \div 20]
                   ++ RotatedLeft(s.v[1], 5)
        IN  [l |-> [s.l EXCEPT ![1 + (i % 16)] = blk],
             v |-> <<z, s.v[1], RotatedLeft(s.v[2], 30), s.v[3], s.v[4]>>]
      end == For(R, [v |-> state, l |-> [j \in 1 .. 16 |-> Word32(buffer, 4 * (j - 1))]], 0, 79)
      v == end.v
  IN  [state |-> <<state[1] ++ v[1], state[2] ++ v[2], state[3] ++ v[3], state[4] ++ v[4], state[5] ++ v[5]>>,
       block |-> ForEachOf(LAMBDA bytes, w : bytes \o BytesOf(w), << >>, end.l)]

SHA1_Init == [count |-> 0, buffer |-> << >>, state |-> Append(md5_starts.state, W32(\HC3D2, \HE1F0))]

\* The context, and the caller's bytes as they are left: whole blocks that are not
\* buffered first are handed to SHA1_Transform where they are.
SHA1_Update(context, data) ==
  LET i == 64 - Len(context.buffer)
      Block(s, at) == LET t == SHA1_Transform(s.state, SubSeq(s.data, i + at + 1, i + at + 64))
                      IN  [state |-> t.state, data |-> Overwritten(s.data, i + at + 1, t.block)]
      first == SHA1_Transform(context.state, context.buffer \o SubSeq(data, 1, i)).state
      end == Blocks(Block, [state |-> first, data |-> data], FromByte(data, i), 64)
  IN  IF Len(data) < i
      THEN [context |-> [context EXCEPT !.count = @ + Len(data), !.buffer = @ \o data], data |-> data]
      ELSE [context |-> [count |-> context.count + Len(data), state |-> end.state,
                         buffer |-> FromByte(data, Len(data) - ((Len(data) - i) % 64))],
            data |-> end.data]

\* One byte 128, as many 0 as it takes, and the number of bits, highest byte first.
SHA1_Final(context) ==
  LET Given(c, bytes) == SHA1_Update(c, bytes).context
      padded == While(LAMBDA c : c.count % 64 # 56, LAMBDA c : Given(c, <<0>>), Given(context, <<128>>))
      bits == BytesOf(LeftBy(U64(context.count), 3))
      end == Given(padded, [j \in 1 .. 8 |-> bits[9 - j]])
  IN  [j \in 1 .. 5 |-> BigEndian(end.state[j])]

\* The first word of the digest, and what the call leaves of the key.
sha1_32a(key) == LET s == SHA1_Update(SHA1_Init, key)
                 IN  [out |-> SHA1_Final(s.context)[1], key |-> s.data]
-----------------------------------------------------------------------------
(* Spooky.h and Spooky.cpp; the variables h0, h1, ... are sequences taken round. *)

SpookyConst == W64(\Hdead, \Hbeef, \Hdead, \Hbeef)

BlockSize == 96         \* sc_blockSize
BufSize == 192          \* sc_bufSize

\* The i-th of the variables of h, from 0 and round again.
Place(h, i) == 1 + (i % Len(h))

MixTurns == <<11, 32, 43, 31, 17, 28, 39, 57, 55, 54, 22, 46>>
Mix(data, s0) ==
  LET Line(s, i) ==
        LET p == Place(s, i)
            before == Place(s, i + 11)
            x == s[p] ++ Word64(data, 8 * i)
            y == s[before] (+) x
            after == Place(s, i + 2)
        IN  [s EXCEPT ![after] = @ (+) s[Place(s, i + 10)],
                      ![p] = RotatedLeft(x, MixTurns[i + 1]),
                      ![before] = y ++ s[Place(s, i + 1)]]
  IN  For(Line, s0, 0, 11)

EndTurns == <<44, 15, 34, 21, 38, 33, 10, 13, 38, 53, 42, 54>>
EndPartial(h0) ==
  LET Line(h, i) ==
        LET p == Place(h, i + 1)
            before == Place(h, i + 11)
            sum == h[before] ++ h[p]
        IN  [h EXCEPT ![before] = sum, ![Place(h, i + 2)] = @ (+) sum,
                      ![p] = RotatedLeft(@, EndTurns[i + 1])]
  IN  For(Line, h0, 0, 11)

End(h) == EndPartial(EndPartial(EndPartial(h)))

ShortMix(h0) ==
  LET turns == <<50, 52, 30, 41, 54, 48, 38, 37, 62, 34, 5, 36>>
      Line(h, i) ==
        LET p == Place(h, i + 2)
            x == RotatedLeft(h[p], turns[i + 1]) ++ h[Place(h, i + 3)]
        IN  [h EXCEPT ![p] = x, ![Place(h, i)] = @ (+) x]
  IN  For(Line, h0, 0, 11)

ShortEnd(h0) ==
  LET turns == <<15, 52, 26, 51, 28, 9, 47, 54, 32, 25, 63>>
      Line(h, i) ==
        LET p == Place(h, i + 2)
            next == Place(h, i + 3)
            x == RotatedLeft(h[p], turns[i + 1])
        IN  [h EXCEPT ![p] = x, ![next] = (@ (+) h[p]) ++ x]
  IN  For(Line, h0, 0, 10)

\* The length takes the place of what d was.
Short(message, hash1, hash2) ==
  LET Read(h, i) == ShortMix(<<h[1], h[2], h[3] ++ Word64(message, i), h[4] ++ Word64(message, i + 8)>>)
      Two(h, i) == LET m == Read(h, i)
                   IN  <<m[1] ++ Word64(message, i + 16), m[2] ++ Word64(message, i + 24), m[3], m[4]>>
      h1 == Blocks(Two, <<hash1, hash2, SpookyConst, SpookyConst>>, message, 32)
      h2 == IF Left(message, 32) < 16 THEN h1 ELSE Read(h1, From(message, 32))
      at == From(message, 16)
      n == Left(message, 16)
      d == LeftBy(U64(Len(message) % 256), 56)
      end == CASE n = 0 -> <<h2[3] ++ SpookyConst, d ++ SpookyConst>>
               [] n \in 1 .. 8 -> <<h2[3] ++ Tail64(message, at, n), d>>
               [] n \in 9 .. 15 -> <<h2[3] ++ Word64(message, at), d ++ Tail64(message, at + 8, n - 8)>>
      h3 == ShortEnd(<<h2[1], h2[2], end[1], end[2]>>)
  IN  <<h3[1], h3[2]>>

Seeded(seed1, seed2) == LET s == <<seed1, seed2, SpookyConst>> IN ((s \o s) \o s) \o s

\* Mutant: as many bytes as are left, without their number.
LastBlockBare(bytes) == bytes \o [i \in 1 .. BlockSize - Len(bytes) |-> 0]

\* The last block: the bytes left, then 0 and how many they are.
LastBlock(bytes) ==
  bytes \o [i \in 1 .. BlockSize - Len(bytes) |-> IF i = BlockSize - Len(bytes) THEN Len(bytes) ELSE 0]

MixedAll(h, message) == Blocks(LAMBDA g, i : Mix(FromByte(message, i), g), h, message, BlockSize)

Hash128(message, hash1, hash2) ==
  LET h == MixedAll(Seeded(hash1, hash2), message)
      end == End(Mix(LastBlock(FromByte(message, From(message, BlockSize))), h))
  IN  IF Len(message) < BufSize THEN Short(message, hash1, hash2) ELSE <<end[1], end[2]>>

Hash64(message, seed) == Hash128(message, seed, seed)[1]
Hash32(message, seed) == Low32(Hash128(message, Widened(seed), Widened(seed))[1])

\* Init: m_state has only its first two words before the buffer was full once.
SpookyInit(seed1, seed2) == [m_length |-> 0, m_data |-> << >>, m_state |-> <<seed1, seed2>>]

\* m_data stands for its first m_remainder bytes.
SpookyUpdate(s, message) ==
  LET h0 == IF s.m_length < BufSize THEN Seeded(s.m_state[1], s.m_state[2]) ELSE s.m_state
      prefix == IF s.m_data = << >> THEN 0 ELSE BufSize - Len(s.m_data)
      h1 == MixedAll(h0, IF prefix = 0 THEN << >> ELSE s.m_data \o SubSeq(message, 1, prefix))
      rest == FromByte(message, prefix)
      length == s.m_length + Len(message)
  IN  IF Len(s.m_data) + Len(message) < BufSize
      THEN [s EXCEPT !.m_length = length, !.m_data = @ \o message]
      ELSE [m_length |-> length, m_state |-> MixedAll(h1, rest),
            m_data |-> FromByte(rest, From(rest, BlockSize))]

\* out is what the variables for the results hold before: a short message takes them
\* for its seeds.
SpookyFinal(s, out) ==
  LET h == MixedAll(s.m_state, s.m_data)
      end == End(Mix(LastBlock(FromByte(s.m_data, From(s.m_data, BlockSize))), h))
  IN  IF s.m_length < BufSize THEN Short(s.m_data, out[1], out[2]) ELSE <<end[1], end[2]>>
-----------------------------------------------------------------------------
(* City.h and City.cpp; the versions that need SSE 4.2 are left out. *)

k0 == W64(\Hc3a5, \Hc85c, \H97cb, \H3127)
k1 == W64(\Hb492, \Hb66f, \Hbe98, \Hf273)
k2 == W64(\H9ae1, \H6a3b, \H2f90, \H404f)
k3 == W64(\Hc949, \Hd7c7, \H509e, \H6557)

ShiftMix(val) == XorShifted(val, 47)

\* Hash128to64
HashLen16(u, v) ==
  LET kMul == W64(\H9ddf, \Hea08, \Heb38, \H2d69)
      a == ShiftMix((u (+) v) ** kMul)
  IN  ShiftMix((v (+) a) ** kMul) ** kMul

HashLen0to16(s) ==
  LET len == Len(s)
      Wide(i) == Widened(Word32(s, i))
      b8 == Word64(s, len - 8)
      y == U64(s[1] + 256 * s[(len \div 2) + 1])
      z == U64(len + 4 * s[len])
  IN  CASE len > 8 -> HashLen16(Word64(s, 0), RotatedRight(b8 ++ U64(len), len)) (+) b8
        [] len \in 4 .. 8 -> HashLen16(U64(len) ++ LeftBy(Wide(0), 3), Wide(len - 4))
        [] len \in 1 .. 3 -> ShiftMix((y ** k2) (+) (z ** k3)) ** k2
        [] len = 0 -> k2

HashLen17to32(s) ==
  LET len == Len(s)
      a == Word64(s, 0) ** k1
      b == Word64(s, 8)
      c == Word64(s, len - 8) ** k2
      d == Word64(s, len - 16) ** k0
  IN  HashLen16(RotatedRight(a -- b, 43) ++ RotatedRight(c, 30) ++ d,
                ((a ++ RotatedRight(b (+) k3, 20)) -- c) ++ U64(len))

WeakHash(w, x, y, z, a0, b0) ==
  LET a1 == a0 ++ w
      b1 == RotatedRight(b0 ++ a1 ++ z, 21)
      a2 == a1 ++ x ++ y
  IN  <<a2 ++ z, b1 ++ RotatedRight(a2, 44) ++ a1>>
WeakHashLen32WithSeeds(s, i, a, b) ==
  WeakHash(Word64(s, i), Word64(s, i + 8), Word64(s, i + 16), Word64(s, i + 24), a, b)

HashLen33to64(s) ==
  LET len == Len(s)
      Half(a0, z, p, q) ==
        LET a1 == a0 ++ p
            a2 == a1 ++ q
            c == RotatedRight(a0, 37) ++ RotatedRight(a1, 7)
        IN  <<a2 ++ z, RotatedRight(a0 ++ z, 52) ++ RotatedRight(a2, 31) ++ c>>
      v == Half(Word64(s, 0) ++ ((U64(len) ++ Word64(s, len - 16)) ** k0), Word64(s, 24),
                Word64(s, 8), Word64(s, 16))
      w == Half(Word64(s, 16) ++ Word64(s, len - 32), Word64(s, len - 8),
                Word64(s, len - 24), Word64(s, len - 16))
      r == ShiftMix(((v[1] ++ w[2]) ** k2) ++ ((w[1] ++ v[2]) ** k0))
  IN  ShiftMix((r ** k0) ++ v[2]) ** k2

\* One turn of the loop over 64 bytes, from byte i on.
CityChunk(s, t, i) ==
  LET x == (RotatedRight(t.x ++ t.y ++ t.v[1] ++ Word64(s, i + 8), 37) ** k1) (+) t.w[2]
      y == (RotatedRight(t.y ++ t.v[2] ++ Word64(s, i + 48), 42) ** k1) ++ t.v[1] ++ Word64(s, i + 40)
      z == RotatedRight(t.z ++ t.w[1], 33) ** k1
  IN  [x |-> z, y |-> y, z |-> x,
       v |-> WeakHashLen32WithSeeds(s, i, t.v[2] ** k1, x ++ t.w[1]),
       w |-> WeakHashLen32WithSeeds(s, i + 32, z ++ t.w[2], y ++ Word64(s, i + 16))]

CityHash64(s) ==
  LET len == Len(s)
      FromEnd(n) == Word64(s, len - n)
      x == FromEnd(40)
      y == FromEnd(16) ++ FromEnd(56)
      z == HashLen16(FromEnd(48) ++ U64(len), FromEnd(24))
      start == [x |-> (x ** k1) ++ Word64(s, 0), y |-> y, z |-> z,
                v |-> WeakHashLen32WithSeeds(s, len - 64, U64(len), z),
                w |-> WeakHashLen32WithSeeds(s, len - 32, y ++ k1, x)]
      t == For(LAMBDA u, j : CityChunk(s, u, 64 * j), start, 0, ((len - 1) \div 64) - 1)
  IN  CASE len <= 16 -> HashLen0to16(s)
        [] len \in 17 .. 32 -> HashLen17to32(s)
        [] len \in 33 .. 64 -> HashLen33to64(s)
        [] len > 64 -> HashLen16(HashLen16(t.v[1], t.w[1]) ++ (ShiftMix(t.y) ** k1) ++ t.z,
                                 HashLen16(t.v[2], t.w[2]) ++ t.x)

CityHash64WithSeeds(s, seed0, seed1) == HashLen16(CityHash64(s) -- seed0, seed1)
CityHash64WithSeed(s, seed) == CityHash64WithSeeds(s, k2, seed)

CityMurmur(s, seed) ==
  LET len == Len(s)
      a0 == ShiftMix(seed[1] ** k1) ** k1
      c0 == (seed[2] ** k1) ++ HashLen0to16(s)
      d0 == ShiftMix(a0 ++ (IF len >= 8 THEN Word64(s, 0) ELSE c0))
      c1 == HashLen16(Word64(s, len - 8) ++ k1, seed[1])
      d1 == HashLen16(seed[2] ++ U64(len), c1 ++ Word64(s, len - 16))
      Turn(t, j) ==
        LET a == (t.a (+) (ShiftMix(Word64(s, 16 * j) ** k1) ** k1)) ** k1
            c == (t.c (+) (ShiftMix(Word64(s, (16 * j) + 8) ** k1) ** k1)) ** k1
        IN  [a |-> a, b |-> t.b (+) a, c |-> c, d |-> t.d (+) c]
      t == IF len <= 16 THEN [a |-> a0, b |-> seed[2], c |-> c0, d |-> d0]
           ELSE For(Turn, [a |-> seed[1] ++ d1, b |-> seed[2], c |-> c1, d |-> d1], 0, (len - 17) \div 16)
      a == HashLen16(t.a, t.c)
      b == HashLen16(t.d, t.b)
  IN  <<a (+) b, HashLen16(b, a)>>

CityHash128WithSeed(s, seed) ==
  LET len == Len(s)
      x == seed[1]
      y == seed[2]
      z == U64(len) ** k1
      v1 == (RotatedRight(y (+) k1, 49) ** k1) ++ Word64(s, 0)
      start == [x |-> x, y |-> y, z |-> z,
                v |-> <<v1, (RotatedRight(v1, 42) ** k1) ++ Word64(s, 8)>>,
                w |-> <<(RotatedRight(y ++ z, 35) ** k1) ++ x,
                        RotatedRight(x ++ Word64(s, 88), 53) ** k1>>]
      t1 == For(LAMBDA u, j : CityChunk(s, u, 64 * j), start, 0, (2 * (len \div 128)) - 1)
      t2 == [t1 EXCEPT !.x = @ ++ (RotatedRight(t1.v[1] ++ t1.z, 49) ** k0),
                       !.z = @ ++ (RotatedRight(t1.w[1], 37) ** k0)]
      Tail32Bytes(u, j) ==
        LET at == len - (32 * j)
            ny == (RotatedRight(u.x ++ u.y, 42) ** k0) ++ u.v[2]
            w1 == u.w[1] ++ Word64(s, at + 16)
            nz == u.z ++ u.w[2] ++ Word64(s, at)
        IN  [y |-> ny, x |-> (u.x ** k0) ++ w1, z |-> nz, w |-> <<w1, u.w[2] ++ u.v[1]>>,
             v |-> WeakHashLen32WithSeeds(s, at, u.v[1] ++ nz, u.v[2])]
      t == For(Tail32Bytes, t2, 1, ((len % 128) + 31) \div 32)
      ex == HashLen16(t.x, t.v[1])
      ey == HashLen16(t.y ++ t.z, t.w[1])
  IN  IF len < 128 THEN CityMurmur(s, seed)
      ELSE <<HashLen16(ex ++ t.v[2], t.w[2]) ++ ey, HashLen16(ex ++ t.w[2], ey ++ t.v[2])>>
-----------------------------------------------------------------------------
(* The table of main.cpp and the test of KeysetTest.cpp. *)

\* A call of the hash of that name: what it gives, and the key as it leaves it.
Called(name, key, seed) ==
  LET wide == Widened(seed)
      Both(h) == h[1] \o h[2]
      out == CASE name = "crc32" -> crc32(key, seed)
               [] name = "md5_32a" -> md5_32(key)
               [] name = "FNV" -> FNV(key, seed)
               [] name = "bernstein" -> Bernstein(key, seed)
               [] name = "lookup3" -> lookup3(key, seed)
               [] name = "superfast" -> SuperFastHash(key)
               [] name = "MurmurOAAT" -> MurmurOAAT(key, seed)
               [] name = "Crap8" -> Crap8(key, seed)
               [] name = "City64" -> CityHash64WithSeed(key, wide)
               [] name = "City128" -> Both(CityHash128WithSeed(key, <<wide, Zero64>>))
               [] name = "Spooky32" -> Hash32(key, seed)
               [] name = "Spooky64" -> Hash64(key, wide)
               [] name = "Spooky128" -> Both(Hash128(key, wide, wide))
               [] name = "Murmur2" -> MurmurHash2(key, seed)
               [] name = "Murmur2A" -> MurmurHash2A(key, seed)
               [] name = "Murmur2B" -> MurmurHash64A(key, wide)
               [] name = "Murmur2C" -> MurmurHash64B(key, wide)
               [] name = "Murmur3A" -> MurmurHash3_x86_32(key, seed)
               [] name = "Murmur3C" -> MurmurHash3_x86_128(key, seed)
               [] name = "Murmur3F" -> MurmurHash3_x64_128(key, seed)
               [] name = "PMurHash32" -> PMurHash32(seed, key, 0, FALSE)
  IN  IF name = "sha1_32a" THEN sha1_32a(key) ELSE [out |-> out, key |-> key]

\* The verification values of g_hashes.
Expected ==
  [crc32 |-> W32(\H3719, \HDB20), md5_32a |-> W32(\HC10C, \H356B), sha1_32a |-> W32(\HF937, \H6EA7),
   FNV |-> W32(\HE3CB, \HBE91), bernstein |-> W32(\HBDB4, \HB640), lookup3 |-> W32(\H3D83, \H917A),
   superfast |-> W32(\H980A, \HCD1D), MurmurOAAT |-> W32(\H5363, \HBD98), Crap8 |-> W32(\H743E, \H97A1),
   City64 |-> W32(\H25A2, \H0825), City128 |-> W32(\H6531, \HF54E),
   Spooky32 |-> W32(\H3F79, \H8BBB), Spooky64 |-> W32(\HA7F9, \H55F1), Spooky128 |-> W32(\H8D26, \H3080),
   Murmur2 |-> W32(\H2786, \H4C1E), Murmur2A |-> W32(\H7FBD, \H4396), Murmur2B |-> W32(\H1F0D, \H3804),
   Murmur2C |-> W32(\HDD53, \H7C05), Murmur3A |-> W32(\HB0F5, \H7EE3), Murmur3C |-> W32(\HB3EC, \HE62A),
   Murmur3F |-> W32(\H6384, \HBA69), PMurHash32 |-> W32(\HB0F5, \H7EE3)]

\* The keys {}, {0}, {0, 1} and on to 255 bytes, in one memory that a hash may write to;
\* then their hashes are hashed.
VerificationTest(name) ==
  LET Turn(s, i) ==
        LET mem == [s.key EXCEPT ![i + 1] = i]
            call == Called(name, SubSeq(mem, 1, i), U32(256 - i))
        IN  [key |-> Overwritten(mem, 1, call.key), hashes |-> s.hashes \o BytesOf(call.out)]
      s == For(Turn, [key |-> [i \in 1 .. 256 |-> 0], hashes |-> << >>], 0, 255)
  IN  Low32(Called(name, s.hashes, Zero32).out)

\* A key of n bytes, and what the hashes that take it in pieces or from any address make
\* of it when it is cut after its first bytes and begins at that address modulo 4.
KeyOf(n) == For(LAMBDA k, i : Append(k, ((89 * i) + 150) % 256), << >>, 1, n)

HashedInPieces(n, cut, align) ==
  LET key == KeyOf(n)
      one == SubSeq(key, 1, cut)
      two == FromByte(key, cut)
      seed == W32(\H9747, \Hb28c)
      Progress(safe) ==
        LET first == PMurHash32_Process([h1 |-> seed, carry |-> Zero32], one, align, safe)
        IN  PMurHash32_Result(PMurHash32_Process(first, two, (align + cut) % 4, safe), n)
  IN  [first |-> MurmurHash1Aligned(key, seed, align),
       second |-> {MurmurHashAligned2(key, seed, align), MurmurHashNeutral2(key, seed)},
       secondA |-> End2A(Add2A(Add2A(Begin2A(seed), one), two)),
       third |-> {Progress(TRUE), Progress(FALSE), murmurhash3(key, seed)},
       sums |-> <<sumhash(key, seed), sumhash32(key, seed)>>,
       bytes |-> <<BadHash(key, seed), x17(key, seed)>>]

DigestedInPieces(n, cut) ==
  LET key == KeyOf(n)
      one == SubSeq(key, 1, cut)
      two == FromByte(key, cut)
      seeds == <<Zero64, SpookyConst>>
  IN  [md5 |-> md5_finish(md5_update(md5_update(md5_starts, one), two)),
       sha1 |-> SHA1_Final(SHA1_Update(SHA1_Update(SHA1_Init, one).context, two).context),
       left |-> sha1_32a(key).key,
       spooky |-> SpookyFinal(SpookyUpdate(SpookyUpdate(SpookyInit(Zero64, SpookyConst), one), two), seeds)]
-----------------------------------------------------------------------------
(* What they must be *)

HashedRight(n, out) ==
  LET key == KeyOf(n)
      seed == W32(\H9747, \Hb28c)
      Sum(f, m) == For(LAMBDA s, i : (s + f[i]) % Digit, 0, 1, m)
  IN  /\ out.first = MurmurHash1(key, seed)
      /\ out.second = {MurmurHash2(key, seed)}
      /\ out.secondA = MurmurHash2A(key, seed)
      /\ out.third = {MurmurHash3_x86_32(key, seed)}
      /\ Difference(out.sums[1], seed)[1] = Sum(key, n)
      /\ Difference(out.sums[2], seed)[1] = Sum([j \in 1 .. n \div 4 |-> Word16(key, 4 * (j - 1))], n \div 4)

\* A key of 128 bytes and more is not the same after SHA-1 has read it.
DigestedRight(n, out) ==
  LET key == KeyOf(n)
  IN  /\ out.md5 = md5_finish(md5_update(md5_starts, key))
      /\ out.sha1 = SHA1_Final(SHA1_Update(SHA1_Init, key).context)
      /\ (out.left = key) = (n < 128)
      /\ out.spooky = Hash128(key, Zero64, SpookyConst)
=============================================================================
