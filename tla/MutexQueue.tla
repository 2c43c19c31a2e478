----------------------------- MODULE MutexQueue -----------------------------
(***************************************************************************)
(* Queue/ThreadSafeQueueWithMutex.cc: pushers and poppers of one queue with*)
(* a mutex and a condition variable.  What a call does with the mutex held *)
(* is one step; a popper that waits is in the condition variable.          *)
(***************************************************************************)
EXTENDS Naturals, Sequences

CONSTANTS Pushers, Poppers,
          MaxItems,  \* how many items each pusher pushes
          MaxPops    \* how many each popper pops

ASSUME CallersAssumption == Pushers \cap Poppers = {}
ASSUME CountsAssumption == MaxItems \in Nat /\ MaxPops \in Nat

VARIABLES q,
          at,        \* of each popper: "idle", "lock" or "wait"
          pushed,    \* how many items each pusher has pushed
          popped     \* history: what each popper got

mutexVars == <<q, at, pushed, popped>>

MutexInit == /\ q = << >>
             /\ at = [r \in Poppers |-> "idle"]
             /\ pushed = [p \in Pushers |-> 0]
             /\ popped = [r \in Poppers |-> << >>]

\* Mutant: notified only when there were items before.
NotifiedAllIfAny == [r \in Poppers |-> IF at[r] = "wait" /\ q # << >> THEN "lock" ELSE at[r]]

\* cv.notify_all
NotifiedAll == [r \in Poppers |-> IF at[r] = "wait" THEN "lock" ELSE at[r]]

MutexPush(p) == /\ pushed[p] < MaxItems
                /\ q' = Append(q, <<p, pushed[p] + 1>>)
                /\ pushed' = [pushed EXCEPT ![p] = @ + 1]
                /\ at' = NotifiedAll
                /\ UNCHANGED popped

MutexCallPop(r) == /\ at[r] = "idle" /\ Len(popped[r]) < MaxPops
                   /\ at' = [at EXCEPT ![r] = "lock"]
                   /\ UNCHANGED <<q, pushed, popped>>

MutexWait(r) == /\ at[r] = "lock" /\ q = << >>
                /\ at' = [at EXCEPT ![r] = "wait"]
                /\ UNCHANGED <<q, pushed, popped>>

\* Mutant: the item is read but not removed.
MutexPopNot(r) == /\ at[r] = "lock" /\ q # << >>
                  /\ popped' = [popped EXCEPT ![r] = Append(@, Head(q))]
                  /\ at' = [at EXCEPT ![r] = "idle"]
                  /\ UNCHANGED <<q, pushed>>

MutexPop(r) == /\ at[r] = "lock" /\ q # << >>
               /\ popped' = [popped EXCEPT ![r] = Append(@, Head(q))]
               /\ q' = Tail(q)
               /\ at' = [at EXCEPT ![r] = "idle"]
               /\ UNCHANGED pushed

\* A spurious wakeup.
MutexWake(r) == /\ at[r] = "wait"
                /\ at' = [at EXCEPT ![r] = "lock"]
                /\ UNCHANGED <<q, pushed, popped>>

MutexNext == \/ \E p \in Pushers : MutexPush(p)
             \/ \E r \in Poppers : MutexCallPop(r) \/ MutexWait(r) \/ MutexPop(r) \/ MutexWake(r)

MutexSpec == MutexInit /\ [][MutexNext]_mutexVars
-----------------------------------------------------------------------------
(* Properties *)

\* Each popper gets each pusher's items in the order they were pushed, and no two
\* poppers get the same one.
InOrderOnce ==
  \A r, s \in Poppers : \A i \in DOMAIN popped[r], j \in DOMAIN popped[s] :
    /\ popped[r][i] = popped[s][j] => r = s /\ i = j
    /\ r = s /\ i < j /\ popped[r][i][1] = popped[r][j][1]
         => popped[r][i][2] < popped[r][j][2]

\* The test at lines 56-65: when the poppers ask for as many items as are pushed,
\* the threads can be joined and the queue is empty.
AllJoined == <>(q = << >> /\ \A r \in Poppers : Len(popped[r]) = MaxPops)
=============================================================================
