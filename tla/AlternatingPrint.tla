-------------------------- MODULE AlternatingPrint --------------------------
(***************************************************************************)
(* The programs of multithread/ and Go/multithread/, in which two threads  *)
(* take turns in three ways: by a condition variable, by an atomic flag,   *)
(* and by channels.                                                        *)
(***************************************************************************)
EXTENDS Naturals, Sequences

-----------------------------------------------------------------------------
(* What the four programs are for: one thread prints the odd numbers to    *)
(* MaxNumber, the other the even ones.                                     *)

CONSTANT MaxNumber

ASSUME MaxAssumption == MaxNumber \in Nat

VARIABLES program,   \* the one that is run: "cpp", "go", "spin" or "channels"
          place,     \* where its threads are
          printed    \* [by, number] of every line of its output

Threads == {"odd", "even"}

Other(t) == CHOOSE u \in Threads : u # t

Parity(number) == IF number % 2 = 0 THEN "even" ELSE "odd"

TakeTurn == LET number == Len(printed) + 1
            IN  /\ number <= MaxNumber
                /\ printed' = Append(printed, [by |-> Parity(number), number |-> number])

\* The output is 1 to MaxNumber in order, each by its thread and once.
InTurn == printed = << >> /\ [][TakeTurn]_printed

\* It is completed, and the program ends: main's joins return, or its wait for the
\* goroutines.
Completes == <>(Len(printed) = MaxNumber /\ \A t \in DOMAIN place : place[t] = "done")
-----------------------------------------------------------------------------
(***************************************************************************)
(* multithread/alternating_print.cc and Go/multithread/method1: two        *)
(* threads that take turns with a mutex and a condition variable.  What a  *)
(* thread does with the mutex held is one step.                            *)
(***************************************************************************)
VARIABLES current_number, even_turn

\* The program is the C++ one or the Go one.
CondInit == current_number = 1 /\ even_turn = FALSE

\* A thread is at "loop", "lock", "wait" (in cv) or "done".
CondStart == /\ program \in {"cpp", "go"}
             /\ place = [t \in Threads |-> "loop"]

\* The while's test, without the mutex: it may still read an older, smaller number.
CondLoop(t) == /\ place[t] = "loop"
               /\ place' = [place EXCEPT ![t] = "lock"]
               /\ UNCHANGED <<current_number, even_turn, printed>>

CondLoopEnds(t) == /\ place[t] = "loop" /\ current_number > MaxNumber
                   /\ place' = [place EXCEPT ![t] = "done"]
                   /\ UNCHANGED <<current_number, even_turn, printed>>

\* Mutant: the predicate does not look at the number.
MayRunTurn(t) == even_turn = (t = "even")

\* The predicate of the wait.
MayRun(t) == even_turn = (t = "even") \/ current_number > MaxNumber

CondWait(t) == /\ place[t] = "lock" /\ ~MayRun(t)
               /\ place' = [place EXCEPT ![t] = "wait"]
               /\ UNCHANGED <<current_number, even_turn, printed>>

\* place when t goes back to its loop and has called notify_one, or Signal.
Notified(t) == [place EXCEPT ![t] = "loop",
                             ![Other(t)] = IF @ = "wait" THEN "lock" ELSE @]

\* A number that is the other's is left alone; only the C++ program notifies then.
Run(t) == /\ place[t] = "lock" /\ MayRun(t) /\ current_number <= MaxNumber
          /\ IF (current_number % 2 = 0) <=> (t = "even")
               THEN /\ printed' = Append(printed, [by |-> t, number |-> current_number])
                    /\ current_number' = current_number + 1
                    /\ even_turn' = (t = "odd")
                    /\ place' = Notified(t)
               ELSE /\ place' = IF program = "cpp" THEN Notified(t)
                                                  ELSE [place EXCEPT ![t] = "loop"]
                    /\ UNCHANGED <<current_number, even_turn, printed>>

CondBreak(t) == /\ place[t] = "lock" /\ current_number > MaxNumber
                /\ place' = [place EXCEPT ![t] = "done"]
                /\ UNCHANGED <<current_number, even_turn, printed>>

\* std::condition_variable may wake a waiter for no reason; sync.Cond does not.
Wake(t) == /\ program = "cpp" /\ place[t] = "wait"
           /\ place' = [place EXCEPT ![t] = "lock"]
           /\ UNCHANGED <<program, current_number, even_turn, printed>>

CondStep(t) == /\ program \in {"cpp", "go"}
               /\ CondLoop(t) \/ CondLoopEnds(t) \/ CondWait(t) \/ Run(t) \/ CondBreak(t)
               /\ UNCHANGED program

CondNext == \E t \in Threads : CondStep(t) \/ Wake(t)
-----------------------------------------------------------------------------
(***************************************************************************)
(* multithread/alternating_print_atomic.cc: two threads that spin on an    *)
(* atomic flag.  Every load and store is a step; current_number's relaxed  *)
(* accesses are ordered by even_turn's acquire and release.                *)
(***************************************************************************)
VARIABLES current, turn,   \* current_number and even_turn
          num             \* each thread's local num

SpinInit == current = 1 /\ turn = FALSE /\ num = [t \in Threads |-> 0]

\* place is the access the thread is about to make.
SpinStart == program = "spin" /\ place = [t \in Threads |-> "loop"]

SpinGoto(t, l) == place' = [place EXCEPT ![t] = l]

\* The three tests of current_number: the loop's, the spin's and the break's.
TestNumber(t) ==
  /\ place[t] \in {"loop", "spin current", "break"}
  /\ SpinGoto(t, CASE place[t] = "loop" ->
                        IF current <= MaxNumber THEN "spin turn" ELSE "done"
                   [] place[t] = "spin current" ->
                        IF current <= MaxNumber THEN "spin turn" ELSE "break"
                   [] place[t] = "break" ->
                        IF current > MaxNumber THEN "done" ELSE "load")
  /\ UNCHANGED <<current, turn, num, printed>>

Spin(t) == /\ place[t] = "spin turn"
           /\ SpinGoto(t, IF turn = (t = "even") THEN "break" ELSE "spin current")
           /\ UNCHANGED <<current, turn, num, printed>>

Load(t) == /\ place[t] = "load"
           /\ num' = [num EXCEPT ![t] = current]
           /\ SpinGoto(t, IF (current % 2 = 0) <=> (t = "even") THEN "print"
                                                                ELSE "loop")
           /\ UNCHANGED <<current, turn, printed>>

PrintNumber(t) == /\ place[t] = "print"
                  /\ printed' = Append(printed, [by |-> t, number |-> num[t]])
                  /\ SpinGoto(t, "add")
                  /\ UNCHANGED <<current, turn, num>>

Add(t) == /\ place[t] = "add"
          /\ current' = current + 1
          /\ SpinGoto(t, "store")
          /\ UNCHANGED <<turn, num, printed>>

Store(t) == /\ place[t] = "store"
            /\ turn' = (t = "odd")
            /\ num' = [num EXCEPT ![t] = 0]
            /\ SpinGoto(t, "loop")
            /\ UNCHANGED <<current, printed>>

SpinStep(t) == /\ program = "spin"
               /\ \/ TestNumber(t) \/ Spin(t) \/ Load(t)
                  \/ PrintNumber(t) \/ Add(t) \/ Store(t)
               /\ UNCHANGED program

SpinNext == \E t \in Threads : SpinStep(t)
-----------------------------------------------------------------------------
(***************************************************************************)
(* Go/multithread/method2/alternating_print_chan.go: two goroutines that   *)
(* send each other the next number over unbuffered channels.  A send and   *)
(* the receive it meets are one step.                                      *)
(***************************************************************************)
VARIABLES holds,    \* the number each goroutine has
          closed    \* those whose channel is closed

ChanInit == holds = [t \in Threads |-> 0] /\ closed = {}

\* place is "receive", "test", "send", "done" or, for main, "wait".
ChanStart == /\ program = "channels"
             /\ place = [t \in Threads \cup {"main"} |->
                          IF t = "main" THEN "send" ELSE "receive"]

\* Line 53 of main: oddChan <- 1.
Begin == /\ place["main"] = "send" /\ place["odd"] = "receive"
         /\ place' = [place EXCEPT !["main"] = "wait", !["odd"] = "test"]
         /\ holds' = [holds EXCEPT !["odd"] = 1]
         /\ UNCHANGED <<closed, printed>>

\* Mutant: the numbers are not tested.
PrintUnlimited(t) == /\ place[t] = "test"
                     /\ printed' = Append(printed, [by |-> t, number |-> holds[t]])
                     /\ place' = [place EXCEPT ![t] = "send"]
                     /\ UNCHANGED <<holds, closed>>

PrintHeld(t) == /\ place[t] = "test" /\ holds[t] <= MaxNumber
                /\ printed' = Append(printed, [by |-> t, number |-> holds[t]])
                /\ place' = [place EXCEPT ![t] = "send"]
                /\ UNCHANGED <<holds, closed>>

\* close(the other's channel); break
Break(t) == /\ place[t] = "test" /\ holds[t] > MaxNumber
            /\ closed' = closed \cup {Other(t)}
            /\ place' = [place EXCEPT ![t] = "done"]
            /\ UNCHANGED <<holds, printed>>

Pass(t) == /\ place[t] = "send" /\ place[Other(t)] = "receive"
           /\ Other(t) \notin closed
           /\ holds' = [holds EXCEPT ![Other(t)] = holds[t] + 1]
           /\ place' = [place EXCEPT ![t] = "receive", ![Other(t)] = "test"]
           /\ UNCHANGED <<closed, printed>>

\* The range over a closed channel ends.
RangeEnds(t) == /\ place[t] = "receive" /\ t \in closed
                /\ place' = [place EXCEPT ![t] = "done"]
                /\ UNCHANGED <<holds, closed, printed>>

\* wg.Wait
End == /\ place["main"] = "wait" /\ \A t \in Threads : place[t] = "done"
       /\ place' = [place EXCEPT !["main"] = "done"]
       /\ UNCHANGED <<holds, closed, printed>>

ChanNext == /\ program = "channels"
            /\ \/ Begin \/ End
               \/ \E t \in Threads :
                    PrintHeld(t) \/ Break(t) \/ Pass(t) \/ RangeEnds(t)
            /\ UNCHANGED program
=============================================================================
