----------------------------- MODULE CLRUCache -----------------------------
(***************************************************************************)
(* LRU/CLRUCache.cpp: a map in buckets, each with a mutex, and one list of *)
(* all nodes, which a worker thread keeps in order by the tasks that put,  *)
(* get and del leave for it.  A deleted node may be allocated again; an    *)
(* access to a deleted node is undefined behaviour and sets "fault", after *)
(* which nothing is modelled.                                              *)
(***************************************************************************)
EXTENDS Naturals, SequencesExt, FiniteSets

CONSTANTS Callers, ClruKeys,
          Buckets,       \* the hash is any function to them
          CNodes,        \* bound: the addresses the allocator hands out
          CDummy, Null,
          Crews, CallSets, Caps,   \* who may call what together, on which capacity
          MaxCalls       \* bound: the calls of a behaviour

ASSUME NodesAssumption == /\ CDummy \notin CNodes /\ Null \notin CNodes \cup {CDummy}
                          /\ IsFiniteSet(CNodes)
ASSUME CrewsAssumption == Crews \subseteq SUBSET Callers /\ Caps \subseteq Nat
ASSUME CallsAssumption == CallSets \subseteq SUBSET {"get", "put", "del", "clear"}
ASSUME MaxCallsAssumption == MaxCalls \in Nat

VARIABLES crew, bucketOf,   \* [callers, calls, cap], and the hash
          keys,              \* the entries of the buckets' maps
          nodeKey, list,     \* the fields of the nodes: key; prev and next
          liveNodes,         \* those that are allocated and not deleted
          tasks,             \* what the worker has been left, oldest first
          worker, task,      \* where the worker is and the task it has taken
          stop,              \* stop_flag
          at, call, node,    \* where each caller is, its call and its node
          calls,             \* bounded counter
          fault,
          asked              \* history: the nodes, the last one asked for first

callers == <<at, call, node, calls>>
clruVars == <<crew, bucketOf, keys, nodeKey, list, liveNodes, tasks, worker, task, stop, callers,
              fault, asked>>

ClruInit == /\ crew \in [callers : Crews, calls : CallSets, cap : Caps]
            /\ bucketOf \in [ClruKeys -> Buckets]
            /\ keys = [k \in ClruKeys |-> Null]
            /\ nodeKey = [n \in CNodes |-> Null]
            /\ list = LET l == [n \in CNodes \cup {CDummy} |-> IF n = CDummy THEN n ELSE Null]
                      IN  [prev |-> l, next |-> l]
            /\ liveNodes = {} /\ fault = FALSE
            /\ tasks = << >> /\ worker = "test" /\ task = << >> /\ stop = FALSE
            /\ at = [p \in Callers |-> "idle"] /\ calls = 0
            /\ call = [p \in Callers |-> << >>] /\ node = [p \in Callers |-> Null]
            /\ asked = << >>

Without(n) == RemoveFirst(asked, n)
-----------------------------------------------------------------------------
(* The callers *)

Go(p, from, to) == at[p] = from /\ at' = [at EXCEPT ![p] = to]
Op(p) == call[p][1]
Key(p) == call[p][2]

Begin(p) == /\ p \in crew.callers /\ ~stop /\ calls < MaxCalls
            /\ Go(p, "idle", "lookup")
            /\ \E o \in crew.calls, k \in ClruKeys : call' = [call EXCEPT ![p] = <<o, k>>]
            /\ calls' = calls + 1
            /\ UNCHANGED <<keys, nodeKey, list, liveNodes, tasks, worker, node, fault, asked>>

\* Bucket::get and Bucket::set of a key that has an entry.  It may be a stale one,
\* and set writes to the node.
Lookup(p) == /\ Go(p, "lookup", "async")
             /\ Op(p) # "clear" /\ keys[Key(p)] # Null
             /\ node' = [node EXCEPT ![p] = keys[Key(p)]]
             /\ fault' = (Op(p) = "put" /\ keys[Key(p)] \notin liveNodes)
             /\ UNCHANGED <<keys, nodeKey, list, liveNodes, tasks, worker, asked>>

NotThere(p) == /\ Go(p, "lookup", "idle")
               /\ Op(p) \in {"get", "del"} /\ keys[Key(p)] = Null
               /\ UNCHANGED <<keys, nodeKey, list, liveNodes, tasks, worker, node, fault, asked>>

SetNew(p) == /\ Go(p, "lookup", "async")
             /\ Op(p) = "put" /\ keys[Key(p)] = Null
             /\ \E n \in CNodes \ liveNodes :
                  /\ liveNodes' = liveNodes \cup {n}
                  /\ keys' = [keys EXCEPT ![Key(p)] = n]
                  /\ nodeKey' = [nodeKey EXCEPT ![n] = Key(p)]
                  /\ list' = [list EXCEPT !.prev[n] = Null, !.next[n] = Null]
                  /\ node' = [node EXCEPT ![p] = n]
             /\ UNCHANGED <<tasks, worker, fault, asked>>

\* async: needs task_mtx, which the worker holds until it sleeps, and wakes it.
Leave(t) == /\ worker # "toWait"
            /\ tasks' = Append(tasks, t)
            /\ worker' = IF worker = "wait" THEN "lock" ELSE worker

Async(p) == /\ at[p] = "async"
            /\ Go(p, "async", CASE Op(p) = "get" -> "read"
                                [] Op(p) = "put" -> "shrink"
                                [] Op(p) = "del" -> "erase")
            /\ Leave([op |-> IF Op(p) = "del" THEN "drop" ELSE "front", node |-> node[p]])
            /\ asked' = IF Op(p) = "del" THEN Without(node[p])
                        ELSE <<node[p]>> \o Without(node[p])
            /\ UNCHANGED <<keys, nodeKey, list, liveNodes, node, fault>>

\* return node->value
Read(p) == /\ Go(p, "read", "idle")
           /\ fault' = (node[p] \notin liveNodes)
           /\ UNCHANGED <<keys, nodeKey, list, liveNodes, tasks, worker, node, asked>>

Shrink(p) == /\ Go(p, "shrink", "idle")
             /\ Leave([op |-> "evict", bucket |-> bucketOf[Key(p)]])
             /\ UNCHANGED <<keys, nodeKey, list, liveNodes, node, fault, asked>>

Erase(p) == /\ Go(p, "erase", "idle")
            /\ keys' = [keys EXCEPT ![Key(p)] = Null]
            /\ UNCHANGED <<nodeKey, list, liveNodes, tasks, worker, node, fault, asked>>

\* The nodes from the dummy on.
Chain[i \in 0 .. Cardinality(CNodes) + 1] ==
  IF i = 0 THEN CDummy
  ELSE IF Chain[i - 1] = Null THEN Null ELSE list.next[Chain[i - 1]]

Listed == {Chain[i] : i \in DOMAIN Chain} \ {CDummy, Null}
size == Cardinality(Listed)

\* clear, with mtx: the maps and then the list.
ClearKeys(p) == /\ Go(p, "lookup", "clear")
                /\ Op(p) = "clear" /\ \A q \in Callers : at[q] # "clear"
                /\ keys' = [k \in ClruKeys |-> Null]
                /\ UNCHANGED <<nodeKey, list, liveNodes, tasks, worker, node, fault, asked>>

ClearList(p) == /\ Go(p, "clear", "idle")
                /\ fault' = ~(Listed \subseteq liveNodes)
                /\ liveNodes' = liveNodes \ Listed
                /\ list' = [list EXCEPT !.prev[CDummy] = CDummy, !.next[CDummy] = CDummy]
                /\ asked' = << >>
                /\ UNCHANGED <<keys, nodeKey, tasks, worker, node>>

CallerStep(p) == \/ Lookup(p) \/ NotThere(p) \/ SetNew(p) \/ Async(p) \/ Read(p)
                 \/ Shrink(p) \/ Erase(p) \/ ClearKeys(p) \/ ClearList(p)
-----------------------------------------------------------------------------
(* The worker *)

Worker(from, to) == worker = from /\ worker' = to

\* Having found nothing to do it holds task_mtx until it sleeps in task_cv; it may
\* wake without a reason.
WorkerWaits == /\ \/ Worker("test", IF stop THEN "done" ELSE "lock")
                  \/ tasks = << >> /\ Worker("lock", IF stop THEN "done" ELSE "toWait")
                  \/ Worker("toWait", "wait")
               /\ UNCHANGED <<keys, list, liveNodes, tasks, task, fault, asked>>

SpuriousWakeup == /\ Worker("wait", "lock")
                  /\ UNCHANGED <<keys, list, liveNodes, tasks, task, fault, asked>>

\* Mutant: the worker sleeps without looking whether there are tasks.
WorkerSleepsFirst == /\ Worker("lock", "toWait") /\ tasks # << >>
                     /\ task' = task
                     /\ UNCHANGED <<keys, list, liveNodes, tasks, fault, asked>>

WorkerTakes == /\ Worker("lock", "run") /\ tasks # << >>
               /\ task' = Head(tasks) /\ tasks' = Tail(tasks)
               /\ UNCHANGED <<keys, list, liveNodes, fault, asked>>

\* remove: nothing for a node that has not been in the list.
Unlinked(l, n) == IF l.prev[n] = Null THEN l
                  ELSE [l EXCEPT !.next[l.prev[n]] = l.next[n],
                                 !.prev[l.next[n]] = l.prev[n]]

pushFront(l, n) == [prev |-> [l.prev EXCEPT ![n] = CDummy, ![l.next[CDummy]] = n],
                    next |-> [l.next EXCEPT ![n] = l.next[CDummy], ![CDummy] = n]]

\* Mutant: moveFront does not take the node out of its old place.
FrontTwice == /\ Worker("run", "test") /\ task.op = "front"
              /\ fault' = (task.node \notin liveNodes)
              /\ list' = pushFront(list, task.node)
              /\ UNCHANGED <<keys, liveNodes, tasks, task, asked>>

\* moveFront, which needs mtx.
RunFront == /\ Worker("run", "test") /\ task.op = "front"
            /\ \A p \in Callers : at[p] # "clear"
            /\ fault' = (task.node \notin liveNodes)
            /\ list' = pushFront(Unlinked(list, task.node), task.node)
            /\ UNCHANGED <<keys, liveNodes, tasks, task, asked>>

\* del's task.
RunDrop == /\ Worker("run", "test") /\ task.op = "drop"
           /\ fault' = (task.node \notin liveNodes)
           /\ list' = Unlinked(list, task.node)
           /\ liveNodes' = liveNodes \ {task.node}
           /\ UNCHANGED <<keys, tasks, task, asked>>

\* put's second task.  The entry is looked for in the bucket of the key that was put.
Overfull == size > crew.cap /\ list.prev[CDummy] # CDummy

RunEvict == /\ Worker("run", IF Overfull THEN "free" ELSE "test") /\ task.op = "evict"
            /\ LET last == list.prev[CDummy]
               IN  IF Overfull
                   THEN /\ list' = Unlinked(list, last)
                        /\ keys' = [k \in ClruKeys |->
                                     IF k = nodeKey[last] /\ bucketOf[k] = task.bucket
                                     THEN Null ELSE keys[k]]
                        /\ task' = [op |-> "free", node |-> last]
                   ELSE UNCHANGED <<list, keys, task>>
            /\ UNCHANGED <<liveNodes, tasks, fault, asked>>

RunFree == /\ Worker("free", "test")
           /\ liveNodes' = liveNodes \ {task.node}
           /\ asked' = Without(task.node)
           /\ UNCHANGED <<keys, list, tasks, task, fault>>

WorkerStep == \/ WorkerWaits \/ WorkerTakes
              \/ RunFront \/ RunDrop \/ RunEvict \/ RunFree
-----------------------------------------------------------------------------
\* The destructor, when no call is running.  It sets stop_flag without task_mtx and
\* wakes the worker if that sleeps already.
Destroy == /\ ~stop /\ \A p \in Callers : at[p] = "idle"
           /\ stop' = TRUE
           /\ worker' = IF worker = "wait" THEN "lock" ELSE worker
           /\ UNCHANGED <<keys, list, liveNodes, fault>>

\* Once the worker has been joined the list is freed.
FreeList == /\ Worker("done", "joined")
            /\ liveNodes' = liveNodes \ Listed
            /\ fault' = ~(Listed \subseteq liveNodes)
            /\ UNCHANGED <<keys, list, stop>>

ClruNext ==
  /\ ~fault
  /\ \/ /\ \E p \in Callers : \/ Begin(p)
                              \/ CallerStep(p) /\ UNCHANGED <<call, calls>>
        /\ UNCHANGED <<task, stop>>
     \/ /\ WorkerStep \/ SpuriousWakeup
        /\ UNCHANGED <<nodeKey, stop, callers>>
     \/ /\ Destroy \/ FreeList
        /\ UNCHANGED <<nodeKey, tasks, task, callers, asked>>
  /\ UNCHANGED <<crew, bucketOf>>
-----------------------------------------------------------------------------
(* Properties *)

\* The uses in which the cache may be relied on: no more keys than it has room for,
\* nobody clears, and del only where one thread makes all the calls.
Fits == /\ IsFiniteSet(ClruKeys) /\ Cardinality(ClruKeys) <= crew.cap
        /\ "clear" \notin crew.calls
        /\ "del" \in crew.calls => \E p \in Callers : crew.callers = {p}

CaughtUp == /\ tasks = << >> /\ worker \in {"test", "lock", "toWait", "wait"}
            /\ \A p \in Callers : at[p] = "idle"

\* In these uses no deleted node is touched, and when the worker has caught up with
\* the callers the list holds the maps' nodes, in the order of the last get or put of
\* each, both ways round.
FollowsTheCalls ==
  Fits =>
    /\ ~fault
    /\ CaughtUp =>
         LET n == Len(asked)
         IN  /\ {asked[i] : i \in 1 .. n} = {keys[k] : k \in ClruKeys} \ {Null}
             /\ \A i \in 1 .. n : Chain[i] = asked[i] /\ list.prev[Chain[i]] = Chain[i - 1]
             /\ Chain[n + 1] = CDummy /\ list.prev[CDummy] = Chain[n]

\* Its heading calls the cache thread-safe, with a lock around every operation on a
\* node: no thread touches a node that another has deleted.
NodesAreSafe == ~fault

\* What the worker has been left it does, until the cache is destroyed.
TasksRun == tasks # << >> ~> tasks = << >> \/ stop \/ fault
=============================================================================
