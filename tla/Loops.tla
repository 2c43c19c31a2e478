-------------------------------- MODULE Loops --------------------------------
(***************************************************************************)
(* The loops of sequential code as functions of the variables they change, *)
(* and arrays as sequences, whose first index is 1 where the code's is 0.  *)
(***************************************************************************)
EXTENDS Integers, Sequences

\* for (i = first; i <= last; ++i) s = Body(s, i)
\* The first half of the turns is taken, whose result is the one member of a set,
\* then the second: long loops make no deep recursion.
For(Body(_, _), s, first, last) ==
  LET RECURSIVE Go(_, _, _)
      Go(t, i, j) ==
        IF i > j THEN t
        ELSE IF i = j THEN Body(t, i)
        ELSE LET m == (i + j) \div 2
             IN  CHOOSE r \in {Go(u, m + 1, j) : u \in {Go(t, i, m)}} : TRUE
  IN  Go(s, first, last)

\* for (i = first; i >= last; --i) s = Body(s, i)
ForDown(Body(_, _), s, first, last) == For(LAMBDA t, i : Body(t, -i), s, -first, -last)

\* for (x : xs) s = Body(s, x)
ForEachOf(Body(_, _), s, xs) == For(LAMBDA t, i : Body(t, xs[i]), s, 1, Len(xs))

\* while (Test(s)) s = Body(s)
\* Turns(t, n) takes up to 2^n turns, All one, two, four, ... until Test fails.
While(Test(_), Body(_), s) ==
  LET RECURSIVE Turns(_, _), All(_, _)
      Turns(t, n) ==
        IF ~Test(t) THEN t
        ELSE IF n = 0 THEN Body(t)
        ELSE CHOOSE r \in {Turns(u, n - 1) : u \in {Turns(t, n - 1)}} : TRUE
      All(t, n) == IF ~Test(t) THEN t ELSE CHOOSE r \in {All(u, n + 1) : u \in {Turns(t, n)}} : TRUE
  IN  All(s, 0)

Swapped(arr, i, j) == [arr EXCEPT ![i] = arr[j], ![j] = arr[i]]

\* std::copy(part.begin(), part.end(), arr.begin() + l - 1)
Overwritten(arr, l, part) == SubSeq(arr, 1, l - 1) \o part \o SubSeq(arr, l + Len(part), Len(arr))

\* The sequences over S of every length up to n.
SeqsUpTo(S, n) == UNION {[1 .. m -> S] : m \in 0 .. n}
=============================================================================
