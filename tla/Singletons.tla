----------------------------- MODULE Singletons -----------------------------
(***************************************************************************)
(* Singleton/: threads that ask for the one instance, made when it is      *)
(* first asked for with a double-checked lock ("lazy"), by the guard of a  *)
(* static local ("meyers") or std::call_once ("once"), or before main      *)
(* ("eager").  As in the tests, the lazy one is destroyed when nobody uses *)
(* it; getInstance may be called again then.  The first test of the lazy   *)
(* one is a read without the mutex beside a write under it; as the         *)
(* constructor's output keeps the compiler from moving the store before    *)
(* it, and a pointer is stored at once, such a read gives an old or a new  *)
(* value.                                                                  *)
(***************************************************************************)
EXTENDS Naturals

CONSTANTS Askers, MaxMade      \* bound: the instances made

ASSUME MaxMadeAssumption == MaxMade \in Nat
ASSUME AskersAssumption == Askers \cap {"free", "set"} = {}

VARIABLES kind,
          instance,  \* the number of the instance published, or 0 for nullptr
          guard,     \* the holder of mtx or of the guard, "free", or "set" for good
          asks,      \* where each thread is in getInstance
          got,       \* what its call returned, 0 when it has given that up
          constructed, destroyed    \* how many instances have been made and destroyed

singletonVars == <<kind, instance, guard, asks, got, constructed, destroyed>>

SingletonInit == /\ kind \in {"lazy", "meyers", "once", "eager"}
                 /\ instance = IF kind = "eager" THEN 1 ELSE 0
                 /\ guard = IF kind = "eager" THEN "set" ELSE "free"
                 /\ asks = [t \in Askers |-> "out"]
                 /\ got = [t \in Askers |-> 0]
                 /\ constructed = instance
                 /\ destroyed = 0

AskGoto(t, from, to) == asks[t] = from /\ asks' = [asks EXCEPT ![t] = to]

\* The caller is done with what it got.
GiveUse(t) == /\ asks[t] = "out" /\ got[t] # 0
              /\ got' = [got EXCEPT ![t] = 0]
              /\ UNCHANGED <<kind, instance, guard, asks, constructed, destroyed>>

\* The first if of getInstance; a call of the other kinds looks at the guard.
Ask(t) == /\ got[t] = 0
          /\ \/ kind = "lazy" /\ AskGoto(t, "out", IF instance = 0 THEN "lock" ELSE "return")
             \/ kind # "lazy" /\ AskGoto(t, "out", IF guard = "set" THEN "return" ELSE "lock")
          /\ UNCHANGED <<kind, instance, guard, got, constructed, destroyed>>

AskLock(t) == /\ guard = "free" /\ AskGoto(t, "lock", "make")
              /\ guard' = t
              /\ UNCHANGED <<kind, instance, got, constructed, destroyed>>

\* Whoever waited for the guard of a static or of call_once finds it set.
AskFindsSet(t) == /\ guard = "set" /\ AskGoto(t, "lock", "return")
                  /\ UNCHANGED <<kind, instance, guard, got, constructed, destroyed>>

\* Mutant: without the second if.
MissingAnyway == TRUE

\* The second if.
Missing == instance = 0

Make(t) == /\ Missing /\ constructed < MaxMade
           /\ AskGoto(t, "make", "unlock")
           /\ constructed' = constructed + 1
           /\ instance' = constructed + 1
           /\ UNCHANGED <<kind, guard, got, destroyed>>
MakeNot(t) == /\ ~Missing /\ AskGoto(t, "make", "unlock")
              /\ UNCHANGED <<kind, instance, guard, got, constructed, destroyed>>

AskUnlock(t) == /\ AskGoto(t, "unlock", "return")
                /\ guard' = IF kind = "lazy" THEN "free" ELSE "set"
                /\ UNCHANGED <<kind, instance, got, constructed, destroyed>>

\* return instance, read again without the mutex.
AskReturn(t) == /\ AskGoto(t, "return", "out")
                /\ got' = [got EXCEPT ![t] = instance]
                /\ UNCHANGED <<kind, instance, guard, constructed, destroyed>>

\* The lazy one's, when no call is under way and nobody uses the instance.
destroyInstance == /\ kind = "lazy" /\ instance # 0
                   /\ \A t \in Askers : asks[t] = "out" /\ got[t] = 0
                   /\ instance' = 0
                   /\ destroyed' = destroyed + 1
                   /\ UNCHANGED <<kind, guard, asks, got, constructed>>

AskStep(t) == \/ Ask(t) \/ AskLock(t) \/ AskFindsSet(t) \/ Make(t) \/ MakeNot(t)
              \/ AskUnlock(t) \/ AskReturn(t)

SingletonNext == destroyInstance \/ \E t \in Askers : AskStep(t) \/ GiveUse(t)
-----------------------------------------------------------------------------
(* Properties *)

\* However many threads ask at once, there is one instance: all that use it have the
\* same, it is the published one and not destroyed, and nothing else was made beside it.
OneInstance == /\ constructed - destroyed <= 1
               /\ \A t \in Askers : got[t] # 0 => got[t] = instance
               /\ \A t \in Askers : asks[t] = "return" => instance # 0
=============================================================================
