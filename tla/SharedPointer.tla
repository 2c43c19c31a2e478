--------------------------- MODULE SharedPointer ---------------------------
(***************************************************************************)
(* Smart Pointers/SharedPointer/ThreadSafeSharedPtr.cpp: pointers of       *)
(* several threads to objects that share a reference count.  A pointer is  *)
(* changed only by a thread that has it for itself, and read by several    *)
(* while none changes it, as for any object that is not atomic; only the   *)
(* counts are shared.  The accesses to a count are steps, everything else  *)
(* a call does between two of them concerns the caller alone.              *)
(***************************************************************************)
EXTENDS Naturals, FiniteSets

CONSTANTS PtrThreads, Pointers,
          Objects,      \* addresses; that of a deleted object may be allocated again
          NoObject      \* nullptr

ASSUME ObjectAssumption == NoObject \notin Objects
ASSUME FiniteAssumption == IsFiniteSet(PtrThreads) /\ IsFiniteSet(Pointers)

VARIABLES held,     \* what each pointer points to
          users,    \* the threads that have each pointer
          count,    \* the count that belongs to each object
          made,     \* the objects that are not deleted
          busy      \* the call each thread is in: step, to and from

ptrVars == <<held, users, count, made, busy>>

Resting == [step |-> "idle", call |-> "none", to |-> NoObject, from |-> NoObject]

PtrInit == /\ held = [h \in Pointers |-> NoObject]
           /\ users \in [Pointers -> {{t} : t \in PtrThreads}]
           /\ count = [o \in Objects |-> 0]
           /\ made = {}
           /\ busy = [t \in PtrThreads |-> Resting]

Idle(t) == busy[t].step = "idle"
Owns(t, h) == users[h] = {t}

Enter(t, s, name, h, g) ==
  busy' = [busy EXCEPT ![t] = [step |-> s, call |-> name, to |-> h, from |-> g]]
GoOn(t, s) == busy' = [busy EXCEPT ![t] = IF s = "idle" THEN Resting ELSE [@ EXCEPT !.step = s]]

\* The program hands a pointer to another thread, lets all of them read it, or a thread
\* gives its share in it back.
PassOn(t, h) == /\ Idle(t) /\ t \in users[h]
                /\ \/ Owns(t, h) /\ users' \in {[users EXCEPT ![h] = {u}] : u \in PtrThreads}
                   \/ Owns(t, h) /\ users' = [users EXCEPT ![h] = PtrThreads]
                   \/ ~Owns(t, h) /\ users' = [users EXCEPT ![h] = @ \ {t}]
                /\ UNCHANGED <<held, count, made, busy>>

\* SharedPtr(T* p) and its RefCount.
Create(t, h, o) == /\ Idle(t) /\ Owns(t, h) /\ held[h] = NoObject /\ o \notin made
                   /\ held' = [held EXCEPT ![h] = o]
                   /\ count' = [count EXCEPT ![o] = 1]
                   /\ made' = made \cup {o}
                   /\ UNCHANGED <<users, busy>>

CopyConstruct(t, h, g) ==
  /\ Idle(t) /\ Owns(t, h) /\ t \in users[g] /\ held[h] = NoObject /\ held[g] # NoObject
  /\ held' = [held EXCEPT ![h] = held[g]]
  /\ Enter(t, "add", "copy", h, g)
  /\ UNCHANGED <<users, count, made>>

MoveConstruct(t, h, g) ==
  /\ Idle(t) /\ h # g /\ Owns(t, h) /\ Owns(t, g) /\ held[h] = NoObject
  /\ held' = [held EXCEPT ![h] = held[g], ![g] = NoObject]
  /\ UNCHANGED <<users, count, made, busy>>

\* The two assignments, which release what the pointer held first.
CopyAssign(t, h, g) ==
  /\ Idle(t) /\ h # g /\ Owns(t, h) /\ t \in users[g]
  /\ Enter(t, IF held[h] = NoObject THEN "take" ELSE "sub", "copy", h, g)
  /\ UNCHANGED <<held, users, count, made>>
MoveAssign(t, h, g) ==
  /\ Idle(t) /\ h # g /\ Owns(t, h) /\ Owns(t, g)
  /\ Enter(t, IF held[h] = NoObject THEN "take" ELSE "sub", "move", h, g)
  /\ UNCHANGED <<held, users, count, made>>

Destroy(t, h) == /\ Idle(t) /\ Owns(t, h) /\ held[h] # NoObject
                 /\ Enter(t, "sub", "destroy", h, h)
                 /\ UNCHANGED <<held, users, count, made>>

After(t) == IF busy[t].call = "destroy" THEN "idle" ELSE "take"

\* Mutant: the count before the decrement is compared with zero.
LastAtZero(o) == count[o] = 0

\* What RefCount::Release returns says that nobody else holds the object.
LastOne(o) == count[o] = 1

\* refCount->Release() in Release.
Subtract(t) == LET h == busy[t].to
                   o == held[h]
               IN  /\ busy[t].step = "sub"
                   /\ count' = [count EXCEPT ![o] = @ - 1]
                   /\ IF LastOne(o)
                        THEN GoOn(t, "delete") /\ UNCHANGED held
                        ELSE GoOn(t, After(t)) /\ held' = [held EXCEPT ![h] = NoObject]
                   /\ UNCHANGED <<users, made>>

\* The rest of Release.
DeleteBoth(t) == LET h == busy[t].to
              IN  /\ busy[t].step = "delete"
                  /\ made' = made \ {held[h]}
                  /\ held' = [held EXCEPT ![h] = NoObject]
                  /\ GoOn(t, After(t))
                  /\ UNCHANGED <<users, count>>

\* The fields of the other pointer; a move empties it.
TakeFields(t) == LET h == busy[t].to
                g == busy[t].from
            IN  /\ busy[t].step = "take"
                /\ IF busy[t].call = "move"
                     THEN held' = [held EXCEPT ![h] = held[g], ![g] = NoObject]
                     ELSE held' = [held EXCEPT ![h] = held[g]]
                /\ GoOn(t, IF busy[t].call = "copy" /\ held[g] # NoObject THEN "add" ELSE "idle")
                /\ UNCHANGED <<users, count, made>>

\* refCount->AddRef()
AddRef(t) == /\ busy[t].step = "add"
             /\ count' = [count EXCEPT ![held[busy[t].to]] = @ + 1]
             /\ GoOn(t, "idle")
             /\ UNCHANGED <<held, users, made>>

PtrStep(t) ==
  \/ \E h \in Pointers : PassOn(t, h) \/ Destroy(t, h) \/ \E o \in Objects : Create(t, h, o)
  \/ \E h, g \in Pointers : \/ CopyConstruct(t, h, g) \/ MoveConstruct(t, h, g)
                            \/ CopyAssign(t, h, g) \/ MoveAssign(t, h, g)
  \/ Subtract(t) \/ DeleteBoth(t) \/ TakeFields(t) \/ AddRef(t)

PtrNext == \E t \in PtrThreads : PtrStep(t)

PtrSpec == PtrInit /\ [][PtrNext]_ptrVars
-----------------------------------------------------------------------------
(* Properties *)

Holders(o) == {h \in Pointers : held[h] = o}

\* Pointers that are copied from another or given up, whose part in the count is not
\* in it yet or not any more.
Uncounted(o) == {t \in PtrThreads : busy[t].step \in {"add", "delete"} /\ held[busy[t].to] = o}

\* No pointer is left to an object that has been deleted, no object is left without a
\* pointer, and its count is that of its pointers: for all that threads copy, move and
\* give up pointers to it at once.
CountsMatch == /\ \A h \in Pointers : held[h] # NoObject => held[h] \in made
               /\ \A o \in made : /\ Holders(o) # {}
                                  /\ count[o] + Cardinality(Uncounted(o)) = Cardinality(Holders(o))
=============================================================================
