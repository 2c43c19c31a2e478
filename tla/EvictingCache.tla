--------------------------- MODULE EvictingCache ---------------------------
(***************************************************************************)
(* What the caches of LRU/, LFU/ and the DNS resolver promise: at most     *)
(* capacity keys with the last values put for them.  A new key drives out  *)
(* the least recently used one or, ByFrequency, the least recently used of *)
(* those that were used least often; an entry that has not been put or,    *)
(* with Renews, used for longer than ttl is no longer found.               *)
(***************************************************************************)
EXTENDS Integers, SequencesExt, FiniteSetsExt

CONSTANTS CacheKeys, CacheValues, ByFrequency,
          Renews,     \* whether a get, too, starts an entry's time to live anew
          NotFound,   \* what get returns for a key that is not there
          Never       \* no time to live

VARIABLES capacity, ttl,   \* what the cache was made with
          entries,    \* [key, val, freq, stamp], the most recently used first
          answer,     \* what the last get returned
          time

Init == entries = << >> /\ answer = NotFound

Stale(e) == ttl # Never /\ time - e.stamp > ttl

\* There is at most one entry for a key.
Others(k) == RemoveFirstMatch(entries, LAMBDA e : e.key = k)

Uses(n) == IF ByFrequency THEN n ELSE 0

Touched(e) == [e EXCEPT !.freq = Uses(@ + 1), !.stamp = time]

Used(e) == IF Renews THEN Touched(e) ELSE [Touched(e) EXCEPT !.stamp = e.stamp]

Fresh(k) == {e \in Range(entries) : e.key = k /\ ~Stale(e)}

Hit(k) == \E e \in Fresh(k) : /\ answer' = e.val
                             /\ entries' = <<Used(e)>> \o Others(k)

Miss(k) == Fresh(k) = {} /\ answer' = NotFound /\ entries' = Others(k)

Replace(k, v) ==
  \E e \in Fresh(k) : entries' = <<[Touched(e) EXCEPT !.val = v]>> \o Others(k)

\* The entry that a new one drives out.
Victim(s) ==
  IF ByFrequency
  THEN LET least == Min({s[i].freq : i \in DOMAIN s})
       IN  Max({i \in DOMAIN s : s[i].freq = least})
  ELSE Len(s)

Insert(k, v) ==
  /\ Fresh(k) = {}
  /\ LET s == Others(k)
     IN  entries' = <<[key |-> k, val |-> v, freq |-> Uses(1), stamp |-> time]>>
                    \o IF Len(s) < capacity THEN s ELSE RemoveAt(s, Victim(s))

Next == \E k \in CacheKeys :
          \/ Hit(k) \/ Miss(k)
          \/ \E v \in CacheValues : (Replace(k, v) \/ Insert(k, v)) /\ UNCHANGED answer

Spec == Init /\ [][Next]_<<entries, answer>>
=============================================================================
