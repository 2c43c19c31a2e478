------------------------------- MODULE Chord -------------------------------
(***************************************************************************)
(* DHT/Chord/chordFingerTable.go: the finger tables of a Chord ring whose  *)
(* nodes join, stabilize and fix their fingers, in whatever order.  The    *)
(* nodes are objects of one program without goroutines, so a call, with    *)
(* all that it asks of other nodes, is a step.  A node is its ID.          *)
(***************************************************************************)
EXTENDS Integers, FiniteSets

CONSTANTS MBit,          \* fingers of a node
          NodeIds,       \* the nodes, of whom each may join
          MaxMembers,    \* bound: as many as may
          Nil

RingSize == 2 ^ MBit
Ids == 0 .. RingSize - 1

ASSUME ChordAssumption == /\ MBit \in Nat \ {0} /\ NodeIds \subseteq Ids /\ Nil \notin Ids
                          /\ MaxMembers \in Nat

VARIABLES members,       \* the nodes that have joined
          fingers,       \* Fingers[i].Node of each node
          predecessor

chordVars == <<members, fingers, predecessor>>

Start(n, i) == (n + 2 ^ i) % RingSize
Successor(f, n) == f[n][0]

\* main's n0: the first node, alone, its own successor.
ChordInit == \E n \in NodeIds :
  /\ members = {n}
  /\ fingers = [m \in NodeIds |-> [i \in 0 .. MBit - 1 |-> m]]
  /\ predecessor = [m \in NodeIds |-> Nil]
-----------------------------------------------------------------------------
\* Whether id is in the circular interval from start to end; all are when these are one.
isInRange(id, start, end, rightInclusive) ==
  LET before == id < end \/ (rightInclusive /\ id = end)
  IN  \/ start = end
      \/ (start < end /\ start < id /\ before)
      \/ (start > end /\ (id > start \/ before))

\* The node of the highest finger that lies strictly between n and id; else n.
closestPrecedingNode(f, n, id) ==
  LET between == {i \in 0 .. MBit - 1 : isInRange(f[n][i], n, id, FALSE)}
  IN  IF between = {} THEN n ELSE f[n][CHOOSE i \in between : \A j \in between : j <= i]

FindSuccessor(f, n, id) ==
  LET From[m \in NodeIds] ==
        LET succ == Successor(f, m)
            nPrime == closestPrecedingNode(f, m, id)
        IN  IF isInRange(id, m, succ, TRUE) \/ succ = m \/ nPrime = m THEN succ
            ELSE From[nPrime]
  IN  From[n]

\* The finger table that nPrime, of a ring with fingers f, gives a node n that is not in it.
Fingers(f, n, nPrime) ==
  LET Table[i \in 0 .. MBit - 1] ==
        IF i > 0 /\ isInRange(Start(n, i), n, Table[i - 1], FALSE) THEN Table[i - 1]
        ELSE FindSuccessor(f, nPrime, Start(n, i))
  IN  Table

InitFingerTable(n, nPrime) ==
  /\ n \notin members /\ Cardinality(members) < MaxMembers
  /\ members' = members \cup {n}
  /\ fingers' = [fingers EXCEPT ![n] = Fingers(fingers, n, nPrime)]
  /\ predecessor' = [predecessor EXCEPT ![n] = predecessor[Successor(fingers', n)]]

\* FixFingers, with the finger it picks at random.
FixFinger(n, i) ==
  /\ n \in members
  /\ fingers' = [fingers EXCEPT ![n][i] = FindSuccessor(fingers, n, Start(n, i))]
  /\ UNCHANGED <<members, predecessor>>

\* Mutant: a closer predecessor does not replace the first.
NotifiedOnce(pred, n, nPrime) == IF pred[n] = Nil THEN [pred EXCEPT ![n] = nPrime] ELSE pred

\* Notify.
Notified(pred, n, nPrime) ==
  IF pred[n] = Nil \/ isInRange(nPrime, pred[n], n, FALSE) THEN [pred EXCEPT ![n] = nPrime]
  ELSE pred

\* Mutant: the successor's predecessor is taken whoever it is.
StabilizeBlindly(n) ==
  /\ n \in members
  /\ LET x == predecessor[Successor(fingers, n)]
     IN  fingers' = IF x # Nil THEN [fingers EXCEPT ![n][0] = x] ELSE fingers
  /\ predecessor' = Notified(predecessor, Successor(fingers', n), n)
  /\ UNCHANGED members

Stabilize(n) ==
  /\ n \in members
  /\ LET succ == Successor(fingers, n)
         x == predecessor[succ]
     IN  fingers' = IF x # Nil /\ (n = succ \/ isInRange(x, n, succ, FALSE))
                    THEN [fingers EXCEPT ![n][0] = x] ELSE fingers
  /\ predecessor' = Notified(predecessor, Successor(fingers', n), n)
  /\ UNCHANGED members

Maintain(n) == Stabilize(n) \/ \E i \in 0 .. MBit - 1 : FixFinger(n, i)

ChordNext == \E n \in NodeIds : Maintain(n) \/ \E nPrime \in members : InitFingerTable(n, nPrime)
-----------------------------------------------------------------------------
(* Properties *)

\* The member at or next after id.
Owner(id) == CHOOSE m \in members : \A k \in members : (m - id) % RingSize <= (k - id) % RingSize

\* The nodes that are met on the way from n along successors, and those met again.
Ahead(n) == LET Step[k \in 0 .. Cardinality(members)] ==
                  IF k = 0 THEN {Successor(fingers, n)}
                  ELSE Step[k - 1] \cup {Successor(fingers, m) : m \in Step[k - 1]}
            IN  Step[Cardinality(members)]
Cycle == {n \in members : n \in Ahead(n)}

\* However joins, Stabilize and FixFingers are mixed, there is one ring: successors lead
\* from every member to the same nodes, which follow each other in the order of their IDs.
OneRing == /\ \A n \in members : Cycle \subseteq Ahead(n)
           /\ \A n \in Cycle : \A m \in Cycle :
                isInRange(m, n, Successor(fingers, n), FALSE) => (m = n /\ Cycle = {n})

\* Every finger points to the node that owns its start, every predecessor is the one
\* before, and every node finds the owner of every ID but its own.
TablesRight == \A n \in members :
  /\ \A i \in 0 .. MBit - 1 : fingers[n][i] = Owner(Start(n, i))
  /\ predecessor[n] # Nil /\ Owner(predecessor[n] + 1) = n
  /\ \A id \in Ids \ {n} : FindSuccessor(fingers, n, id) = Owner(id)
=============================================================================
