---------------------------- MODULE LinkedQueue ----------------------------
(***************************************************************************)
(* Queue/ThreadSafeQueueWithAtomic.cc: the lock-free linked queue.  Every  *)
(* atomic operation is a step.  A freed node may be allocated again; an    *)
(* access to a freed node or through a null pointer is undefined behaviour *)
(* and ends the behaviour in a state with "fault" set.  The atomics are    *)
(* taken to be sequentially consistent, stronger than the code's orders.   *)
(***************************************************************************)
EXTENDS Integers, Sequences, FiniteSets, TLC

CONSTANTS Producers, Consumers, Values,
          Nodes,          \* bound: the addresses the allocator hands out
          Null,
          None,           \* no value
          Word,           \* bound: size_t counts modulo Word
          Teams,          \* sets of threads that may use the queue together
          Weak,           \* whether compare_exchange_weak may fail spuriously: TRUE
                          \* on some processors, FALSE on others
          Alike           \* producers that are in the same teams

ASSUME RolesAssumption == /\ Producers \cap Consumers = {}
                          /\ IsFiniteSet(Producers) /\ IsFiniteSet(Consumers)
ASSUME NodesAssumption == IsFiniteSet(Nodes) /\ Nodes # {}
ASSUME NullAssumption == Null \notin Nodes /\ None \notin Values
ASSUME WordAssumption == Word \in Nat /\ Word > Cardinality(Nodes)
ASSUME TeamsAssumption == Teams \subseteq SUBSET (Producers \cup Consumers)
ASSUME WeakAssumption == Weak \subseteq BOOLEAN
ASSUME AlikeAssumption == \A t \in Teams : Alike \subseteq t \/ Alike \cap t = {}

VARIABLES team, weak,        \* who uses the queue, on which kind of processor
          head, tail, size,  \* the atomics of the queue
          next, data,        \* the fields of every node
          live,              \* the nodes allocated and not deleted
          fault,             \* the program has accessed memory it may not
          pc,
          mine,              \* new_node of a push, old_head of a pop
          seen,              \* old_tail of a push, first of a pop
          loaded,            \* old_tail->next as push has loaded it
          result             \* result of a pop

nodes == <<next, data, live>>
locals == <<mine, seen, loaded, result>>
given == <<team, weak>>
linkedVars == <<given, head, tail, size, nodes, fault, pc, locals>>

Procs == Producers \cup Consumers
Pointers == Nodes \cup {Null}

\* The address of the first dummy node: all addresses are alike.
Dummy == CHOOSE n \in Nodes : TRUE

LinkedInit == /\ team \in Teams /\ weak \in Weak
              /\ head = Dummy
              /\ tail = Dummy
              /\ size = 0
              /\ next = [n \in Nodes |-> Null]
              /\ data = [n \in Nodes |-> None]
              /\ live = {Dummy}
              /\ fault = FALSE
              /\ pc = [p \in Procs |-> "idle"]
              /\ mine = [p \in Procs |-> Null]
              /\ seen = [p \in Procs |-> Null]
              /\ loaded = [p \in Procs |-> Null]
              /\ result = [p \in Procs |-> None]

Goto(p, from, to) == /\ ~fault
                     /\ pc[p] = from
                     /\ pc' = [pc EXCEPT ![p] = to]
                     /\ UNCHANGED given

Return(p, from) == /\ Goto(p, from, "idle")
                   /\ mine' = [mine EXCEPT ![p] = Null]
                   /\ seen' = [seen EXCEPT ![p] = Null]
                   /\ loaded' = [loaded EXCEPT ![p] = Null]
                   /\ result' = [result EXCEPT ![p] = None]

\* At pc from, p follows a pointer that is null or to a deleted node.
Crash(p, from, pointer) == /\ ~fault
                           /\ pc[p] = from
                           /\ pointer \notin live
                           /\ fault' = TRUE
                           /\ UNCHANGED <<given, head, tail, size, nodes, pc, locals>>
-----------------------------------------------------------------------------
(* push *)

CallPush(p, v, n) == /\ Goto(p, "idle", "loadTail")
                     /\ n \notin live
                     /\ live' = live \cup {n}
                     /\ next' = [next EXCEPT ![n] = Null]
                     /\ data' = [data EXCEPT ![n] = v]
                     /\ mine' = [mine EXCEPT ![p] = n]
                     /\ UNCHANGED <<head, tail, size, fault, seen, loaded, result>>

LoadTail(p) == /\ Goto(p, "loadTail", "link")
               /\ seen' = [seen EXCEPT ![p] = tail]
               /\ UNCHANGED <<head, tail, size, nodes, fault, mine, loaded, result>>

Link(p) == /\ Goto(p, "link", "swing")
           /\ seen[p] \in live
           /\ next[seen[p]] = Null
           /\ next' = [next EXCEPT ![seen[p]] = mine[p]]
           /\ UNCHANGED <<head, tail, size, data, live, fault, locals>>

LinkFails(p) == /\ Goto(p, "link", "loadNext")
                /\ seen[p] \in live
                /\ next[seen[p]] # Null \/ weak
                /\ UNCHANGED <<head, tail, size, nodes, fault, locals>>

LoadNext(p) == /\ Goto(p, "loadNext", "help")
               /\ seen[p] \in live
               /\ loaded' = [loaded EXCEPT ![p] = next[seen[p]]]
               /\ UNCHANGED <<head, tail, size, nodes, fault, mine, seen, result>>

Help(p) == /\ Goto(p, "help", "loadTail")
           /\ \/ tail = seen[p] /\ tail' = loaded[p]
              \/ (tail # seen[p] \/ weak) /\ UNCHANGED tail
           /\ UNCHANGED <<head, size, nodes, fault, locals>>

Swing(p) == /\ Goto(p, "swing", "countUp")
            /\ tail' = mine[p]
            /\ UNCHANGED <<head, size, nodes, fault, locals>>

CountUp(p) == /\ Return(p, "countUp")
              /\ size' = (size + 1) % Word
              /\ UNCHANGED <<head, tail, nodes, fault>>

LinkedPush(p) == \/ \E v \in Values, n \in Nodes : CallPush(p, v, n)
                 \/ LoadTail(p) \/ Link(p) \/ LinkFails(p) \/ LoadNext(p) \/ Help(p)
                 \/ Swing(p) \/ CountUp(p)
                 \/ Crash(p, "link", seen[p]) \/ Crash(p, "loadNext", seen[p])
-----------------------------------------------------------------------------
(* pop_if_not_empty; pop calls it again until it has a result.             *)

LinkedCallPop(p) == /\ Goto(p, "idle", "loadHead")
                    /\ UNCHANGED <<head, tail, size, nodes, fault, locals>>

LoadHead(p) == /\ Goto(p, "loadHead", "loadFirst")
               /\ mine' = [mine EXCEPT ![p] = head]
               /\ UNCHANGED <<head, tail, size, nodes, fault, seen, loaded, result>>

LoadFirst(p) == /\ Goto(p, "loadFirst", "claim")
                /\ mine[p] \in live
                /\ next[mine[p]] # Null
                /\ seen' = [seen EXCEPT ![p] = next[mine[p]]]
                /\ UNCHANGED <<head, tail, size, nodes, fault, mine, loaded, result>>

PopEmpty(p) == /\ Return(p, "loadFirst")
               /\ mine[p] \in live
               /\ next[mine[p]] = Null
               /\ UNCHANGED <<head, tail, size, nodes, fault>>

Claim(p) == /\ Goto(p, "claim", "take")
            /\ head = mine[p]
            /\ head' = seen[p]
            /\ UNCHANGED <<tail, size, nodes, fault, locals>>

ClaimFails(p) == /\ Goto(p, "claim", "loadHead")
                 /\ head # mine[p] \/ weak
                 /\ UNCHANGED <<head, tail, size, nodes, fault, locals>>

\* Mutant: the value of the old dummy.
TakeOld(p) == /\ Goto(p, "take", "free")
              /\ seen[p] \in live
              /\ result' = [result EXCEPT ![p] = data[mine[p]]]
              /\ UNCHANGED <<head, tail, size, nodes, fault, mine, seen, loaded>>

Take(p) == /\ Goto(p, "take", "free")
           /\ seen[p] \in live
           /\ result' = [result EXCEPT ![p] = data[seen[p]]]
           /\ UNCHANGED <<head, tail, size, nodes, fault, mine, seen, loaded>>

\* Mutant: the old dummy is not deleted.
FreeNot(p) == /\ Goto(p, "free", "countDown")
              /\ mine[p] \in live
              /\ UNCHANGED <<head, tail, size, nodes, fault, locals>>

\* Mutant: the node that was taken is deleted, which is the new dummy.
FreeFirst(p) == /\ Goto(p, "free", "countDown")
                /\ live' = live \ {seen[p]}
                /\ UNCHANGED <<head, tail, size, next, data, fault, locals>>

\* delete old_head
Free(p) == /\ Goto(p, "free", "countDown")
           /\ mine[p] \in live
           /\ live' = live \ {mine[p]}
           /\ UNCHANGED <<head, tail, size, next, data, fault, locals>>

CountDown(p) == /\ Return(p, "countDown")
                /\ size' = (size - 1) % Word
                /\ UNCHANGED <<head, tail, nodes, fault>>

LinkedPop(p) == \/ LinkedCallPop(p) \/ LoadHead(p) \/ LoadFirst(p) \/ PopEmpty(p)
                \/ Claim(p) \/ ClaimFails(p) \/ Take(p) \/ Free(p) \/ CountDown(p)
                \/ Crash(p, "loadFirst", mine[p])
                \/ Crash(p, "take", seen[p]) \/ Crash(p, "free", mine[p])

LinkedNext == \/ \E p \in Producers \cap team : LinkedPush(p)
              \/ \E p \in Consumers \cap team : LinkedPop(p)

LinkedSpec == LinkedInit /\ [][LinkedNext]_linkedVars
-----------------------------------------------------------------------------
(* Properties *)

\* The i-th node behind the dummy, or Null.
At[i \in 0 .. Cardinality(Nodes)] ==
  IF i = 0 THEN head ELSE IF At[i - 1] = Null THEN Null ELSE next[At[i - 1]]

Count == Cardinality({i \in 1 .. Cardinality(Nodes) : At[i] # Null})

absQueue == [i \in 1 .. Count |-> data[At[i]]]
absArg == [p \in Procs |->
            IF pc[p] \in {"loadTail", "link", "loadNext", "help"} THEN data[mine[p]] ELSE None]
absRet == [p \in Procs |->
            CASE pc[p] = "take" -> data[seen[p]]
              [] pc[p] \in {"free", "countDown"} -> result[p]
              [] OTHER -> None]

Abs == INSTANCE BoundedQueue WITH
         Capacity <- Cardinality(Nodes), queue <- absQueue, arg <- absArg, ret <- absRet

\* The teams of the file's test: one thread of each kind, or only producers.
Tested == \/ Cardinality(team \cap Producers) <= 1 /\ Cardinality(team \cap Consumers) <= 1
          \/ team \cap Consumers = {}

\* Their uses of the queue where a compare-exchange fails only if the values differ.
AsTested == ~weak /\ Tested

\* In these uses pushes take effect when they link their node, pops when they
\* move head: values leave once each, unchanged, in the order of the links.
ImplementsLinkedQueue == /\ AsTested => Abs!Init
                         /\ [][AsTested => Abs!Next]_(Abs!vars)

\* In these uses no access goes to a deleted node or through a null pointer, and
\* tail, which producers help along with nodes they have not linked, is never null.
NoFaultAsTested == AsTested => ~fault /\ tail # Null

\* In the hands of such a team every node is in the list, not yet linked, or about to
\* be deleted, even where a compare-exchange fails for nothing: the destructor, which
\* walks the list, frees everything.  And size is the length of
\* the queue once every thread has counted; in between it is off by exactly the
\* operations that have not, and wraps below zero if the pop of an element counts
\* before its push.  empty() and get_size() see that.
NothingLeaksOrMiscounts ==
  Tested =>
    /\ \A n \in live :
         \/ \E i \in 0 .. Cardinality(Nodes) : At[i] = n
         \/ \E p \in Producers : mine[p] = n
         \/ \E p \in Consumers : mine[p] = n /\ pc[p] \in {"take", "free"}
    /\ size = (Count
               - Cardinality({p \in Producers : pc[p] \in {"swing", "countUp"}})
               + Cardinality({p \in Consumers : pc[p] \in {"take", "free", "countDown"}}))
              % Word

\* Nothing the queue does for the teams of its test loses memory or an element: no
\* access goes wrong, and nodes and size are accounted for.
NothingLost == NoFaultAsTested /\ NothingLeaksOrMiscounts

\* Values, and producers that are in the same teams, may be exchanged when TLC
\* explores the states: no property is temporal.
Symmetry == Permutations(Alike) \cup Permutations(Values)
=============================================================================
