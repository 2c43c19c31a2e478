---------------------------- MODULE SingleFlight ----------------------------
(***************************************************************************)
(* singleflight/singleflight.go: concurrent Do calls with one key share    *)
(* one execution of fn.  g.mu is held only inside one step, so it is not a *)
(* variable; the accesses outside it (c.val, the wait group) are steps of  *)
(* their own.                                                              *)
(***************************************************************************)
EXTENDS Integers, Sequences

CONSTANTS Procs, Keys,
          Results,      \* what fn may return, (val, err) pairs
          None,
          MaxCalls      \* bound: the executions of fn

ASSUME ResultAssumption == None \notin Results
ASSUME MaxCallsAssumption == MaxCalls \in Nat

VARIABLES calls,   \* the call objects ever made: key, val, and whether wg is 0
          m,       \* g.m: per key the number of its call object, or 0
          pc, key, \* where each goroutine is, and the key it asked for
          c        \* its local c

flightVars == <<calls, m, pc, key, c>>

NoKey == None

FlightInit == /\ calls = << >>
              /\ m = [k \in Keys |-> 0]
              /\ pc = [p \in Procs |-> "idle"]
              /\ key = [p \in Procs |-> NoKey]
              /\ c = [p \in Procs |-> 0]

Goto(p, from, to) == pc[p] = from /\ pc' = [pc EXCEPT ![p] = to]

\* The first critical section, when the key is in flight ...
Join(p, k) == /\ Goto(p, "idle", "wait")
              /\ m[k] # 0
              /\ c' = [c EXCEPT ![p] = m[k]]
              /\ key' = [key EXCEPT ![p] = k]
              /\ UNCHANGED <<calls, m>>

\* Mutant: the lookup and the insertion in two critical sections, so that the
\* insertion happens whatever the map holds by then.
StartAnyway(p, k) ==
  /\ Goto(p, "idle", "fn")
  /\ Len(calls) < MaxCalls
  /\ calls' = Append(calls, [key |-> k, val |-> None, done |-> FALSE])
  /\ m' = [m EXCEPT ![k] = Len(calls) + 1]
  /\ c' = [c EXCEPT ![p] = Len(calls) + 1]
  /\ key' = [key EXCEPT ![p] = k]

\* ... and when it is not.
Start(p, k) ==
  /\ Goto(p, "idle", "fn")
  /\ m[k] = 0
  /\ Len(calls) < MaxCalls
  /\ calls' = Append(calls, [key |-> k, val |-> None, done |-> FALSE])
  /\ m' = [m EXCEPT ![k] = Len(calls) + 1]
  /\ c' = [c EXCEPT ![p] = Len(calls) + 1]
  /\ key' = [key EXCEPT ![p] = k]

\* Mutant: val, err := fn(), which leaves c.val as it was.
FnReturnsToLocal(p, v) == /\ Goto(p, "fn", "signal")
                          /\ UNCHANGED <<calls, m, key, c>>

\* c.val, c.err = fn()
FnReturns(p, v) == /\ Goto(p, "fn", "signal")
                   /\ calls' = [calls EXCEPT ![c[p]].val = v]
                   /\ UNCHANGED <<m, key, c>>

\* fn panics: the goroutine unwinds through Do, which has no defer.
FnPanics(p) == /\ Goto(p, "fn", "gone")
               /\ UNCHANGED <<calls, m, key, c>>

\* Mutant: no c.wg.Done.
SignalNot(p) == /\ Goto(p, "signal", "delete")
                /\ UNCHANGED <<calls, m, key, c>>

Signal(p) == /\ Goto(p, "signal", "delete")
             /\ calls' = [calls EXCEPT ![c[p]].done = TRUE]
             /\ UNCHANGED <<m, key, c>>

\* Mutant: the key is not deleted.
DeleteNothing(p) == /\ Goto(p, "delete", "return")
                    /\ UNCHANGED <<calls, m, key, c>>

Delete(p) == /\ Goto(p, "delete", "return")
             /\ m' = [m EXCEPT ![key[p]] = 0]
             /\ UNCHANGED <<calls, key, c>>

\* c.wg.Wait()
Wait(p) == /\ Goto(p, "wait", "return")
           /\ calls[c[p]].done
           /\ UNCHANGED <<calls, m, key, c>>

\* What return c.val, c.err hands out.
Result(p) == calls[c[p]].val

Return(p) == /\ Goto(p, "return", "idle")
             /\ key' = [key EXCEPT ![p] = NoKey]
             /\ c' = [c EXCEPT ![p] = 0]
             /\ UNCHANGED <<calls, m>>

Step(p) == \/ \E v \in Results : FnReturns(p, v)
           \/ FnPanics(p)
           \/ Signal(p) \/ Delete(p) \/ Wait(p) \/ Return(p)

FlightNext == \E p \in Procs : Step(p) \/ \E k \in Keys : Join(p, k) \/ Start(p, k)

FlightSpec == FlightInit /\ [][FlightNext]_flightVars

\* Every fn comes to an end and the scheduler runs every goroutine that can run.
FairFlightSpec == FlightSpec /\ \A p \in Procs : WF_flightVars(Step(p))
-----------------------------------------------------------------------------
(* Properties *)

Owner(p) == pc[p] \in {"fn", "signal", "delete"}

Call == [key : Keys, val : Results \cup {None}, done : BOOLEAN]

\* A call whose wait group is done has a result of fn.
TypeOK ==
  /\ calls \in Seq(Call)
  /\ \A i \in 1 .. Len(calls) : calls[i].done => calls[i].val \in Results
  /\ m \in [Keys -> 0 .. Len(calls)]
  /\ pc \in [Procs -> {"idle", "wait", "fn", "gone", "signal", "delete", "return"}]
  /\ key \in [Procs -> Keys \cup {NoKey}]
  /\ c \in [Procs -> 0 .. Len(calls)]

\* Duplicate suppression: fn never runs twice at a time for one key.
OneFlight == \A p, r \in Procs :
               pc[p] = "fn" /\ pc[r] = "fn" /\ key[p] = key[r] => p = r

\* Every caller, the one that ran fn and those that waited, returns a result
\* of fn for its own key and not the fields of a call that is still running.
ReturnsFinishedCall ==
  \A p \in Procs : pc[p] = "return" =>
    /\ Result(p) \in Results
    /\ calls[c[p]].key = key[p]
    /\ calls[c[p]].done

\* delete(g.m, key) goes by key alone; it never removes the call of another
\* goroutine that has started in the meantime.
DeletesOwnCall == \A p \in Procs : pc[p] = "delete" => m[key[p]] = c[p]

\* The map holds only calls that somebody will still delete, unless their fn has
\* panicked: nothing but a panic leaves a key stuck.
NoStuckKey == \A k \in Keys : m[k] # 0 =>
                \E p \in Procs : (Owner(p) \/ pc[p] = "gone") /\ c[p] = m[k]

\* No result is handed out for long: a goroutine joins a call only while its
\* owner is still inside Do (or has panicked there), so what it gets is no older
\* than that Do.
JoinsWhileOwned ==
  [][\A p \in Procs : (pc[p] = "idle" /\ pc'[p] = "wait") =>
       \E r \in Procs : /\ Owner(r) \/ pc[r] = "gone"
                        /\ c[r] = c'[p] /\ key[r] = key'[p]]_flightVars

\* Every Do returns, unless the fn of its call panics.
DoReturns ==
  \A p \in Procs : pc[p] # "idle" ~> \/ pc[p] = "idle"
                                     \/ \E r \in Procs : pc[r] = "gone" /\ c[r] = c[p]
-----------------------------------------------------------------------------
\* Why at most one fn runs for a key: the map points at the owner's call.
OwnersInMap ==
  /\ \A p \in Procs : Owner(p) => key[p] \in Keys /\ c[p] # 0 /\ m[key[p]] = c[p]
  /\ \A p, r \in Procs : Owner(p) /\ Owner(r) /\ c[p] = c[r] => p = r
  /\ \A p \in Procs : /\ pc[p] \in {"wait", "return"} => c[p] # 0 /\ key[p] \in Keys
                      /\ c[p] # 0 => calls[c[p]].key = key[p]
                      /\ pc[p] = "signal" => calls[c[p]].val \in Results
                      /\ pc[p] = "fn" => ~calls[c[p]].done
                      /\ pc[p] \in {"delete", "return"} => calls[c[p]].done
  /\ \A k \in Keys : m[k] # 0 => calls[m[k]].key = k
=============================================================================
