------------------------------- MODULE Strings -------------------------------
(***************************************************************************)
(* String/, Palindrome/, LCS/, Trie/ and the hash functions of Hash/.      *)
(* Characters are positive numbers; Base, Modulus and HashWord stand for   *)
(* 131, 10^9 + 7 and 2^64.                                                 *)
(***************************************************************************)
EXTENDS Loops, FiniteSets, Bitwise

CONSTANTS Base, Modulus, HashWord

ASSUME ModulusAssumption == Modulus \in Nat \ {0} /\ HashWord \in Nat \ {0}

\* The while of computePi and of kmp: the longest border that c goes on, or 0.
Shortened(pattern, pi, cnt, c) ==
  While(LAMBDA k : k > 0 /\ pattern[k + 1] # c, LAMBDA k : pi[k], cnt)

\* Mutant: a mismatch starts again from the front, not from a border.
FromTheFront(pattern, pi, cnt, c) ==
  IF pattern[cnt + 1] = c THEN cnt + 1 ELSE IF pattern[1] = c THEN 1 ELSE 0

Extended(pattern, pi, cnt, c) ==
  LET k == Shortened(pattern, pi, cnt, c)
  IN  IF pattern[k + 1] = c THEN k + 1 ELSE k

computePi(pattern) ==
  For(LAMBDA pi, i : Append(pi, Extended(pattern, pi, pi[i - 1], pattern[i])),
      <<0>>, 2, Len(pattern))

\* Where the pattern begins.
kmp(text, pattern) ==
  LET pi == computePi(pattern)
  IN  For(LAMBDA s, i : LET cnt == Extended(pattern, pi, s.cnt, text[i])
                        IN  IF cnt = Len(pattern)
                              THEN [ans |-> Append(s.ans, i - cnt + 1), cnt |-> pi[cnt]]
                              ELSE [s EXCEPT !.cnt = cnt],
          [ans |-> << >>, cnt |-> 0], 1, Len(text)).ans

\* Mutant: the match that is known is not cut off at the right end.
KnownUncut(z, i, l, r) == IF i <= r THEN z[i - l + 1] ELSE 0

\* What the match that reaches furthest right says of place i.
Known(z, i, l, r) ==
  IF i > r THEN 0 ELSE LET k == IF r - i + 1 < z[i - l + 1] THEN r - i + 1 ELSE z[i - l + 1]
                       IN  IF k > 0 THEN k ELSE 0

\* The first value stays 0.
z_func(s) ==
  For(LAMBDA t, i :
        LET k == While(LAMBDA m : i + m <= Len(s) /\ s[m + 1] = s[i + m], LAMBDA m : m + 1,
                       Known(t.z, i, t.l, t.r))
            known == Known(t.z, i, t.l, t.r)
        IN  [z |-> Append(t.z, k), l |-> IF k > known THEN i ELSE t.l,
             r |-> IF k > known THEN i + k - 1 ELSE t.r],
      [z |-> <<0>>, l |-> 1, r |-> 1], 2, Len(s)).z

lengthOfPalindrome(s, l, r) ==
  LET t == While(LAMBDA u : u.l >= 1 /\ u.r <= Len(s) /\ s[u.l] = s[u.r],
                 LAMBDA u : [l |-> u.l - 1, r |-> u.r + 1], [l |-> l, r |-> r])
  IN  t.r - t.l - 1

Greater(x, y) == IF x >= y THEN x ELSE y
Less(x, y) == IF x <= y THEN x ELSE y

longestPalindrome(s) ==
  For(LAMBDA ans, i : Greater(ans, Greater(lengthOfPalindrome(s, i, i),
                                           lengthOfPalindrome(s, i, i + 1))),
      0, 1, Len(s) - 1)

\* "^#a#b#$"
preProcess(s) ==
  [i \in 1 .. 2 * Len(s) + 3 |-> CASE i = 1 -> -1 [] i = 2 * Len(s) + 3 -> -2
                                   [] i % 2 = 0 -> 0 [] OTHER -> s[i \div 2]]

Manacher(s) ==
  LET t == preProcess(s)
  IN  For(LAMBDA u, i :
            LET known == IF i < u.right THEN Less(u.right - i, u.p[2 * u.center - i]) ELSE 0
                k == While(LAMBDA m : t[i + 1 + m] = t[i - 1 - m], LAMBDA m : m + 1, known)
            IN  [p |-> Append(u.p, k), maxLen |-> Greater(u.maxLen, k),
                 center |-> IF i + k > u.right THEN i ELSE u.center,
                 right |-> IF i + k > u.right THEN i + k ELSE u.right],
          [p |-> <<0>>, maxLen |-> 0, center |-> 1, right |-> 1], 2, Len(t) - 1).maxLen

\* A row of f is made of the row above, column by column.
longestCommonSequence(a, b) ==
  For(LAMBDA above, i :
        For(LAMBDA row, j :
              Append(row, IF a[i] = b[j] THEN above[j] + 1
                          ELSE Greater(above[j], Greater(row[j], above[j + 1]))),
            <<0>>, 1, Len(b)),
      [j \in 1 .. Len(b) + 1 |-> 0], 1, Len(a))[Len(b) + 1]

\* std::lower_bound: the first place whose element is not less than x.
LowerBound(a, x) == CHOOSE i \in DOMAIN a : a[i] >= x /\ \A j \in 1 .. i - 1 : a[j] < x

longestIncreasingSequence(nums) ==
  ForEachOf(LAMBDA a, x : IF a # << >> /\ a[Len(a)] >= x THEN [a EXCEPT ![LowerBound(a, x)] = x]
                          ELSE Append(a, x), << >>, nums)

\* The Hash of a string: its prefixes' hashes and the powers of Base.
Hash(str) ==
  [pre_hash |-> ForEachOf(LAMBDA p, c : Append(p, (p[Len(p)] * Base + c) % Modulus), <<0>>, str),
   pre_base |-> For(LAMBDA p, i : Append(p, (p[i] * Base) % Modulus), <<1>>, 1, Len(str))]

\* What subHash makes a bool of, for 1 <= l <= r.
subHash(h, l, r) ==
  (((h.pre_hash[r + 1] - h.pre_hash[l] * h.pre_base[r - l + 1]) % Modulus) + Modulus) % Modulus

djb2_hash(str) == ForEachOf(LAMBDA hash, c : (hash * 33 + c) % HashWord, 5381 % HashWord, str)

\* The hash of a MyKey, of those of its id and its name.
MyKeyHash(h1, h2) == h1 ^^ ((h2 * 2) % HashWord)

\* The trie as the set of its nodes, each the string that leads to it, and its ends.
NoWords == [nodes |-> {<< >>}, ends |-> {}]
Inserted(trie, s) == [nodes |-> trie.nodes \cup {SubSeq(s, 1, i) : i \in 1 .. Len(s)},
                      ends |-> trie.ends \cup {s}]

\* Whether s from start on is made of words of the trie.
RECURSIVE dfs(_, _, _)
dfs(trie, s, start) ==
  LET Node(i) == SubSeq(s, start, i)
      i == While(LAMBDA k : /\ k <= Len(s) /\ Node(k) \in trie.nodes
                            /\ ~(Node(k) \in trie.ends /\ (k = Len(s) \/ dfs(trie, s, k + 1))),
                 LAMBDA k : k + 1, start)
  IN  i <= Len(s) /\ Node(i) \in trie.nodes

\* The words of one length do not meet in the trie, so their order does not matter.
findAllConcatenatedWordsInADict(words) ==
  For(LAMBDA t, n :
        LET some == {s \in words : Len(s) = n}
            made == {s \in some : dfs(t.trie, s, 1)}
            plain == some \ made
        IN  [ans |-> t.ans \cup made,
             trie |-> [nodes |-> t.trie.nodes \cup UNION {Inserted(NoWords, s).nodes : s \in plain},
                       ends |-> t.trie.ends \cup plain]],
      [ans |-> {}, trie |-> NoWords], 1, 9).ans
-----------------------------------------------------------------------------
(* What they compute, and what they are for *)

\* Everything that is computed of a text and a pattern.
TextOf(text, pattern) ==
  [pi |-> computePi(pattern), at |-> kmp(text, pattern), z |-> z_func(text \o pattern),
   palindromes |-> {longestPalindrome(text \o pattern), Manacher(text \o pattern)},
   common |-> longestCommonSequence(text, pattern),
   increasing |-> longestIncreasingSequence(text \o pattern),
   hash |-> Hash(text), djb2 |-> djb2_hash(text)]

Part(s, i, k) == SubSeq(s, i, i + k - 1)
Longest(S) == CHOOSE m \in S : \A k \in S : k <= m

\* What is left of a string at some of its places.
Chosen(s, places) == [k \in 1 .. Cardinality(places) |->
                        s[CHOOSE i \in places : Cardinality({j \in places : j <= i}) = k]]
Subsequences(s) == {Chosen(s, places) : places \in SUBSET DOMAIN s}

\* The search finds every place of the pattern, overlapping ones too, by the longest
\* borders of its prefixes; z says how far the string repeats its front; both searches
\* find the longest palindrome; the tables give the length of the longest common and the
\* longest increasing subsequence; and the hash of a prefix is the prefix as a number to
\* the base, which changing one character changes.
TextRight(text, pattern, out) ==
  LET s == text \o pattern
      n == Len(s)
      m == Len(pattern)
  IN  /\ \A i \in 1 .. m : out.pi[i] = Longest({k \in 0 .. i - 1 :
                              Part(pattern, 1, k) = Part(pattern, i - k + 1, k)})
      /\ {out.at[i] : i \in DOMAIN out.at} = {i \in 1 .. Len(text) - m + 1 : Part(text, i, m) = pattern}
      /\ \A i \in 2 .. n : out.z[i] = Longest({k \in 0 .. n - i + 1 : Part(s, 1, k) = Part(s, i, k)})
      /\ n > 1 => out.palindromes = {Longest({k \in 1 .. n : \E i \in 1 .. n - k + 1 :
                     \A j \in 0 .. k - 1 : s[i + j] = s[i + k - 1 - j]})}
      /\ out.common = Longest({Len(c) : c \in Subsequences(text) \cap Subsequences(pattern)})
      /\ Len(out.increasing) = Longest({Len(c) : c \in {u \in Subsequences(s) :
                                   \A i \in 1 .. Len(u) - 1 : u[i] < u[i + 1]}})
      /\ \A r \in 1 .. Len(text) :
           subHash(out.hash, 1, r) = For(LAMBDA v, i : v + text[i] * Base ^ (r - i), 0, 1, r) % Modulus
      /\ \A i \in DOMAIN text, c \in 1 .. 3 :
           text[i] # c => djb2_hash([text EXCEPT ![i] = c]) # out.djb2

\* Keys that differ in their id alone or in the lower bits of their name's hash alone do
\* not collide.
KeysRight(h1, h2, out) == \A h \in 0 .. HashWord - 1 :
  /\ h # h1 => MyKeyHash(h, h2) # out
  /\ h % (HashWord \div 2) # h2 % (HashWord \div 2) => MyKeyHash(h1, h) # out

\* A word is found exactly when it can be cut into shorter words of the list.
RECURSIVE Made(_, _)
Made(s, words) == s = << >> \/ \E i \in 1 .. Len(s) : /\ SubSeq(s, 1, i) \in words
                                                      /\ Made(SubSeq(s, i + 1, Len(s)), words)
WordsRight(words, out) == out = {s \in words \ {<< >>} : Made(s, words \ {s})}
=============================================================================
