------------------------------ MODULE Kademlia ------------------------------
(***************************************************************************)
(* DHT/Kad/kadRouter.go: the routing table of one node, with a bucket for  *)
(* each length of the prefix that an ID shares with its own.  An ID is the *)
(* sequence of its bits.                                                   *)
(***************************************************************************)
EXTENDS Integers, Sequences, FiniteSets

CONSTANTS IDLength,      \* bits of an ID
          K,             \* nodes in a bucket
          Addrs

ASSUME KademliaAssumption == IDLength \in Nat \ {0} /\ K \in Nat \ {0}

NodeIDs == [1 .. IDLength -> {0, 1}]
Nodes == [ID : NodeIDs, Addr : Addrs]
Lengths == 0 .. IDLength

VARIABLES localID,
          kBuckets,      \* kBuckets[p]: the nodes of whose bits p and no more are localID's
          heard          \* history: the address last given to AddNode for each ID

kadVars == <<localID, kBuckets, heard>>

\* The IDs have their first p bits in common.
Share(id, other, p) == \A i \in 1 .. p : id[i] = other[i]

PrefixLen(id, other) ==
  CHOOSE p \in Lengths : Share(id, other, p) /\ (p = IDLength \/ id[p + 1] # other[p + 1])

\* Xor and Compare: the first bit in which the distances differ, which is the first in
\* which the IDs do, is 0 in the shorter one.
Nearer(id, other, target) ==
  \E i \in 1 .. IDLength : /\ Share(id, other, i - 1) /\ id[i] # other[i]
                           /\ id[i] = target[i]

KadInit == /\ localID \in NodeIDs
           /\ kBuckets = [p \in Lengths |-> << >>]
           /\ heard = << >>

In(bucket) == {bucket[i] : i \in 1 .. Len(bucket)}
Known == UNION {In(kBuckets[p]) : p \in Lengths}

\* Mutant: a known node goes to the end as it was.
UpdatedStale(bucket, n) ==
  LET at == {i \in 1 .. Len(bucket) : bucket[i].ID = n.ID}
      i == CHOOSE i \in at : TRUE
  IN  IF at # {}
      THEN Append(SubSeq(bucket, 1, i - 1) \o SubSeq(bucket, i + 1, Len(bucket)), bucket[i])
      ELSE IF Len(bucket) < K THEN Append(bucket, n) ELSE bucket

\* Mutant: a known node is taken out and not put back.
UpdatedLost(bucket, n) ==
  LET at == {i \in 1 .. Len(bucket) : bucket[i].ID = n.ID}
      i == CHOOSE i \in at : TRUE
  IN  IF at # {} THEN SubSeq(bucket, 1, i - 1) \o SubSeq(bucket, i + 1, Len(bucket))
      ELSE IF Len(bucket) < K THEN Append(bucket, n) ELSE bucket

\* Update: a known ID goes to the end with its new address, a new one if there is room.
Updated(bucket, n) ==
  LET at == {i \in 1 .. Len(bucket) : bucket[i].ID = n.ID}
      i == CHOOSE i \in at : TRUE
  IN  IF at # {} THEN Append(SubSeq(bucket, 1, i - 1) \o SubSeq(bucket, i + 1, Len(bucket)), n)
      ELSE IF Len(bucket) < K THEN Append(bucket, n) ELSE bucket

AddNode(n) == LET p == PrefixLen(localID, n.ID)
              IN  /\ n.ID # localID
                  /\ kBuckets' = [kBuckets EXCEPT ![p] = Updated(kBuckets[p], n)]
                  /\ heard' = [id \in DOMAIN heard \cup {n.ID} |->
                                 IF id = n.ID THEN n.Addr ELSE heard[id]]
                  /\ UNCHANGED localID

\* FindClosestNodes sorts what is known by distance; these are its first count, and the
\* first of them.
FindClosestNodes(target, count) ==
  {c \in Known : Cardinality({d \in Known : Nearer(d.ID, c.ID, target)}) < count}
Closest(target) == {c \in Known : \A d \in Known : ~Nearer(d.ID, c.ID, target)}

KadNext == \E n \in Nodes : AddNode(n)
KadSpec == KadInit /\ [][KadNext]_kadVars
-----------------------------------------------------------------------------
(* Properties *)

\* A lookup gets on: though full buckets refuse nodes, when any node that was heard of
\* shares more bits with a target than this one does, so does the first that
\* FindClosestNodes returns for it.
RoutesOn ==
  \A target \in NodeIDs : \A id \in DOMAIN heard :
    PrefixLen(id, target) > PrefixLen(localID, target) =>
      /\ Known # {}
      /\ \A c \in Closest(target) : PrefixLen(c.ID, target) > PrefixLen(localID, target)

\* The table knows each ID once, under its last address, K of a bucket at most and all
\* of a bucket that has room; and for every target it finds the K closest of them.
TableKnows ==
  /\ \A c \in Known : heard[c.ID] = c.Addr
  /\ \A p \in Lengths :
       LET of == {id \in DOMAIN heard : PrefixLen(localID, id) = p}
       IN  /\ {c.ID : c \in In(kBuckets[p])} \subseteq of
           /\ Cardinality({c.ID : c \in In(kBuckets[p])}) = Len(kBuckets[p])
           /\ Len(kBuckets[p]) = IF Cardinality(of) < K THEN Cardinality(of) ELSE K
  /\ \A target \in NodeIDs :
       /\ Cardinality(Closest(target)) = IF Known = {} THEN 0 ELSE 1
       /\ Closest(target) \subseteq FindClosestNodes(target, K)
       /\ Cardinality(FindClosestNodes(target, K)) =
            IF Cardinality(Known) < K THEN Cardinality(Known) ELSE K
=============================================================================
