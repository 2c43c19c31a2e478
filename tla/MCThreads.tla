----------------------------- MODULE MCThreads -----------------------------
(***************************************************************************)
(* What threads share in the small programs, for TLC, side by side: a      *)
(* behaviour is one of part, the others stay as they were made.            *)
(***************************************************************************)
EXTENDS AlternatingPrint, MutexQueue, SingleFlight, SharedPointer, Singletons

CONSTANT Parts

VARIABLE part

condVars == <<current_number, even_turn>>
spinVars == <<current, turn, num>>
chanVars == <<holds, closed>>
printVars == <<program, place, printed, condVars, spinVars, chanVars>>

vars == <<part, printVars, mutexVars, flightVars, ptrVars, singletonVars>>

\* What a component chooses for itself matters only where it runs.
Init == /\ part \in Parts
        /\ printed = << >>
        /\ CondInit /\ SpinInit /\ ChanInit
        /\ CondStart \/ SpinStart \/ ChanStart
        /\ MutexInit /\ FlightInit /\ PtrInit /\ SingletonInit
        /\ part # "print" => program = "spin"
        /\ part # "pointer" => \A h, g \in Pointers : users[h] = users[g] /\ 1 \in users[h]
        /\ part # "singleton" => kind = "lazy"

PrintPart(A) == /\ part = "print" /\ A
                /\ UNCHANGED <<part, mutexVars, flightVars, ptrVars, singletonVars>>
MutexPart(A) == /\ part = "mutex" /\ A
                /\ UNCHANGED <<part, printVars, flightVars, ptrVars, singletonVars>>
FlightPart(A) == /\ part = "flight" /\ A
                 /\ UNCHANGED <<part, printVars, mutexVars, ptrVars, singletonVars>>
PointerPart(A) == /\ part = "pointer" /\ A
                  /\ UNCHANGED <<part, printVars, mutexVars, flightVars, singletonVars>>
SingletonPart(A) == /\ part = "singleton" /\ A
                    /\ UNCHANGED <<part, printVars, mutexVars, flightVars, ptrVars>>

PrintNext == \/ CondNext /\ UNCHANGED <<spinVars, chanVars>>
             \/ SpinNext /\ UNCHANGED <<condVars, chanVars>>
             \/ ChanNext /\ UNCHANGED <<condVars, spinVars>>

Next == \/ PrintPart(PrintNext) \/ MutexPart(MutexNext) \/ FlightPart(FlightNext)
        \/ PointerPart(PtrNext) \/ SingletonPart(SingletonNext)

\* Threads that can run do, and get the mutex; one that spins is not kept out.  Every fn
\* comes to an end, and a pusher goes on until it has pushed its items.  Nothing makes a
\* spurious wakeup come.
Fair(i) == \/ i \in Procs /\ FlightPart(Step(i))
           \/ i \in Pushers /\ MutexPart(MutexPush(i))
           \/ i \in Poppers /\ MutexPart(MutexCallPop(i) \/ MutexWait(i) \/ MutexPop(i))
           \/ \E t \in Threads :
                /\ i = IF t = "odd" THEN 1 ELSE 2
                /\ \/ PrintPart(CondStep(t) /\ UNCHANGED <<spinVars, chanVars>>)
                   \/ PrintPart(SpinStep(t) /\ UNCHANGED <<condVars, chanVars>>)
           \/ i = 3 /\ PrintPart(ChanNext /\ UNCHANGED <<condVars, spinVars>>)

Spec == Init /\ [][Next]_vars /\ \A i \in 1 .. 4 : WF_vars(Fair(i))
-----------------------------------------------------------------------------
(* Properties *)

\* Each of the four programs prints 1 to MaxNumber, a line at a time and in turns, and
\* ends.
TakesTurns == InTurn /\ (part = "print" => Completes)

\* The test at lines 56-65 of Queue/ThreadSafeQueueWithMutex.cc: when the poppers
\* ask for as many items as are pushed, the threads can be joined and the queue is
\* empty.
JoinedEmpty == part = "mutex" => AllJoined

\* What threads share through the shared pointers and the singletons is made once, is
\* deleted once when nobody has it any more, and is the same for all.
SharedOnce == CountsMatch /\ OneInstance
=============================================================================
