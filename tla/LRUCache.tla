------------------------------ MODULE LRUCache ------------------------------
(***************************************************************************)
(* LRU/LRU.cpp and LRU/LRU with TTL.cpp: a map from keys to nodes and a    *)
(* circular list of the nodes through a dummy.  There is one node per key, *)
(* so a node is named by its key.  One thread calls, a call is a step.     *)
(***************************************************************************)
EXTENDS Integers, FiniteSets, Sequences

CONSTANTS CacheKeys, CacheValues, NotFound,
          Capacities,   \* what the constructor may be given
          Dummy,        \* the list's dummy node
          Ttls,         \* times to live, in ticks; Never for LRU.cpp
          Never,
          LruEnd        \* bound: the time at which a behaviour stops

\* With capacity 0 the cache with a TTL writes to the node it has just deleted.
ASSUME CapacityAssumption == Capacities \subseteq Nat \ {0}
ASSUME DummyAssumption == Dummy \notin CacheKeys
ASSUME TtlAssumption == Never \notin Nat /\ Ttls \subseteq Nat \cup {Never}

VARIABLES capacity, ttl,
          keyToNode,    \* the keys of the map
          links,        \* [prev, next] of all nodes
          val, timestamp,
          lruTime, lruAnswer

lruVars == <<capacity, ttl, keyToNode, links, val, timestamp, lruTime, lruAnswer>>

LruNodes == CacheKeys \cup {Dummy}

LruInit == /\ capacity \in Capacities /\ ttl \in Ttls
           /\ keyToNode = {}
           /\ links = [prev |-> [x \in LruNodes |-> Dummy],
                       next |-> [x \in LruNodes |-> Dummy]]
           /\ val = [k \in CacheKeys |-> NotFound]
           /\ timestamp = [k \in CacheKeys |-> 0]
           /\ lruTime = 0 /\ lruAnswer = NotFound

\* Mutant: the backward link is forgotten.
UnlinkForward(l, x) == [l EXCEPT !.next[l.prev[x]] = l.next[x]]

Unlink(l, x) == [l EXCEPT !.next[l.prev[x]] = l.next[x],
                          !.prev[l.next[x]] = l.prev[x]]

Link(l, x) ==
  LET first == l.next[Dummy]
  IN  [prev |-> [l.prev EXCEPT ![x] = Dummy, ![first] = x],
       next |-> [l.next EXCEPT ![x] = first, ![Dummy] = x]]

Expired(k) == ttl # Never /\ lruTime - timestamp[k] > ttl

\* getNode: where the key is found and lives, and where it does not.
Found(k) == k \in keyToNode /\ ~Expired(k)

Touch(k) == /\ links' = Link(Unlink(links, k), k)
            /\ timestamp' = [timestamp EXCEPT ![k] = lruTime]
            /\ UNCHANGED keyToNode

Swept(k) == IF k \in keyToNode THEN Unlink(links, k) ELSE links

LruHit(k) == Found(k) /\ Touch(k) /\ lruAnswer' = val[k] /\ UNCHANGED val

LruMiss(k) == /\ ~Found(k)
              /\ links' = Swept(k) /\ keyToNode' = keyToNode \ {k}
              /\ lruAnswer' = NotFound
              /\ UNCHANGED <<val, timestamp>>

LruReplace(k, v) == /\ Found(k) /\ Touch(k)
                    /\ val' = [val EXCEPT ![k] = v]
                    /\ UNCHANGED lruAnswer

\* The new node comes first and then the last one goes, if there are too many.
LruInsert(k, v) ==
  /\ ~Found(k)
  /\ LET all == keyToNode \cup {k}
         l == Link(Swept(k), k)
         last == l.prev[Dummy]
     IN  IF Cardinality(all) > capacity
         THEN links' = Unlink(l, last) /\ keyToNode' = all \ {last}
         ELSE links' = l /\ keyToNode' = all
  /\ val' = [val EXCEPT ![k] = v]
  /\ timestamp' = [timestamp EXCEPT ![k] = lruTime]
  /\ UNCHANGED lruAnswer

LruTick == /\ ttl # Never /\ lruTime < LruEnd
           /\ lruTime' = lruTime + 1
           /\ UNCHANGED <<keyToNode, links, val, timestamp, lruAnswer>>

LruCall == \E k \in CacheKeys : \/ LruHit(k) \/ LruMiss(k)
                                \/ \E v \in CacheValues : LruReplace(k, v) \/ LruInsert(k, v)

LruNext == /\ LruTick \/ (LruCall /\ UNCHANGED lruTime)
           /\ UNCHANGED <<capacity, ttl>>
-----------------------------------------------------------------------------
(* Properties *)

\* The nodes from the dummy on, as many as the map has.
Forward[i \in 0 .. Cardinality(keyToNode)] ==
  IF i = 0 THEN Dummy ELSE links.next[Forward[i - 1]]

\* The list as it is updated, from the front; the code evicts from its back.
LruEntries == [i \in 1 .. Cardinality(keyToNode) |->
                LET k == Forward[i]
                IN  [key |-> k, val |-> val[k], freq |-> 0, stamp |-> timestamp[k]]]
=============================================================================
