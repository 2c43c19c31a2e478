---------------------------- MODULE TokenBucket ----------------------------
(***************************************************************************)
(* Rate Limiter/Token Bucket/code.go: callers of AllowN and WaitN on one   *)
(* bucket.  Tokens are counted in the amount that one tick generates, so   *)
(* that the rate is 1 and a request may ask for several; the code's        *)
(* floating-point numbers are exact here.                                  *)
(***************************************************************************)
EXTENDS Clock, FiniteSetsExt

CONSTANTS Clients, BucketSize,
          Requests,    \* how many tokens a caller may ask for
          Contexts,    \* sets of how far off the deadlines of WaitN's contexts may be
          Never,       \* a context without a deadline
          TokenEnd,     \* bound: no call starts later
          MaxDebt      \* bound: no WaitN starts when more tokens are owed

ASSUME BucketAssumption == BucketSize \in Nat \ {0} /\ Requests \subseteq Nat \ {0}
ASSUME ContextAssumption == Never \notin Nat /\ Contexts \subseteq SUBSET (Nat \cup {Never})
ASSUME TokenBoundAssumption == TokenEnd \in Nat /\ MaxDebt \in Nat

VARIABLES contexts,      \* what WaitN is called with: {} if it is never called
          tokens, lastRefill,
          locked,        \* mu is held by a call that has returned
          tokenPc, asked, \* where each caller is and its n
          seen,          \* the time an AllowN was given, or WaitN's now
          deadline, wait,
          timer,         \* when it fires
          granted        \* history: the tokens of the calls that succeeded

bucket == <<contexts, tokens, lastRefill, locked>>
tokenVars == <<now, bucket, tokenPc, asked, seen, deadline, wait, timer, granted>>

TokenInit == /\ contexts \in Contexts
             /\ now = 0 /\ tokens = BucketSize /\ lastRefill = 0 /\ locked = FALSE
             /\ tokenPc = [p \in Clients |-> "idle"]
             /\ asked = [p \in Clients |-> 0]
             /\ seen = [p \in Clients |-> 0]
             /\ deadline = [p \in Clients |-> Never]
             /\ wait = [p \in Clients |-> 0]
             /\ timer = [p \in Clients |-> 0]
             /\ granted = 0

TokenGoto(p, l) == tokenPc' = [tokenPc EXCEPT ![p] = l]

\* The call is over, and with it its arguments and locals.
TokenReturn(p) == /\ TokenGoto(p, "idle")
                  /\ asked' = [asked EXCEPT ![p] = 0]
                  /\ seen' = [seen EXCEPT ![p] = 0]
                  /\ deadline' = [deadline EXCEPT ![p] = Never]
                  /\ wait' = [wait EXCEPT ![p] = 0]
                  /\ timer' = [timer EXCEPT ![p] = 0]

\* Refill: the tokens after it.  What was left of them is not added.
Refilled(t) == IF t > lastRefill THEN Min({t - lastRefill, BucketSize}) ELSE tokens

\* Mutant: lastRefill is not moved.
RefilledAtStays(t) == lastRefill

\* Its lastRefill: a time given by a caller may be older than it.
RefilledAt(t) == IF t > lastRefill THEN t ELSE lastRefill

\* AllowN, or Allow, which reads the clock before it has the mutex.
CallAllow(p) == /\ tokenPc[p] = "idle" /\ now < TokenEnd
                /\ \E r \in Requests : asked' = [asked EXCEPT ![p] = r]
                /\ seen' = [seen EXCEPT ![p] = now]
                /\ TokenGoto(p, "allow")
                /\ UNCHANGED <<now, bucket, deadline, wait, timer, granted>>

AllowTakes(p) == /\ tokenPc[p] = "allow" /\ ~locked
                 /\ Refilled(seen[p]) >= asked[p]
                 /\ tokens' = Refilled(seen[p]) - asked[p]
                 /\ lastRefill' = RefilledAt(seen[p])
                 /\ granted' = granted + asked[p]
                 /\ TokenReturn(p)
                 /\ UNCHANGED <<now, contexts, locked>>

AllowRefuses(p) == /\ tokenPc[p] = "allow" /\ ~locked
                   /\ Refilled(seen[p]) < asked[p]
                   /\ tokens' = Refilled(seen[p])
                   /\ lastRefill' = RefilledAt(seen[p])
                   /\ TokenReturn(p)
                   /\ UNCHANGED <<now, contexts, locked, granted>>

\* WaitN lines 72-80; a request for more than the capacity returns at once.
CallWait(p) == /\ tokenPc[p] = "idle" /\ now < TokenEnd /\ tokens >= -MaxDebt
               /\ \E r \in Requests : r <= BucketSize /\ asked' = [asked EXCEPT ![p] = r]
               /\ \E e \in contexts :
                    deadline' = [deadline EXCEPT ![p] = IF e = Never THEN e ELSE now + e]
               /\ TokenGoto(p, "wait")
               /\ UNCHANGED <<now, bucket, seen, wait, timer, granted>>

WaitTakes(p) == /\ tokenPc[p] = "wait" /\ ~locked
                /\ Refilled(now) >= asked[p]
                /\ tokens' = Refilled(now) - asked[p]
                /\ lastRefill' = RefilledAt(now)
                /\ granted' = granted + asked[p]
                /\ TokenReturn(p)
                /\ UNCHANGED <<now, contexts, locked>>

\* Lines 92-93: a missing token takes a tick.
WaitDuration(p) == asked[p] - Refilled(now)

\* Mutant: now.After(deadline).
TooLateNow(p) == deadline[p] # Never /\ now > deadline[p]

TooLate(p) == deadline[p] # Never /\ now + WaitDuration(p) > deadline[p]

\* Lines 95-99 return without an Unlock.
WaitTimesOut(p) == /\ tokenPc[p] = "wait" /\ ~locked
                   /\ Refilled(now) < asked[p] /\ TooLate(p)
                   /\ tokens' = Refilled(now)
                   /\ lastRefill' = RefilledAt(now)
                   /\ locked' = TRUE
                   /\ TokenReturn(p)
                   /\ UNCHANGED <<now, contexts, granted>>

\* Mutant: line 103's Unlock is missing as well.
WaitOwesLocked(p) == /\ tokenPc[p] = "wait" /\ ~locked
                     /\ Refilled(now) < asked[p] /\ ~TooLate(p)
                     /\ tokens' = Refilled(now) - asked[p]
                     /\ lastRefill' = RefilledAt(now)
                     /\ locked' = TRUE
                     /\ seen' = [seen EXCEPT ![p] = now]
                     /\ wait' = [wait EXCEPT ![p] = WaitDuration(p)]
                     /\ TokenGoto(p, "arm")
                     /\ UNCHANGED <<now, contexts, asked, deadline, timer, granted>>

\* Lines 92-103: the tokens are taken in advance, as a debt, and the mutex is let go.
WaitOwes(p) == /\ tokenPc[p] = "wait" /\ ~locked
               /\ Refilled(now) < asked[p] /\ ~TooLate(p)
               /\ tokens' = Refilled(now) - asked[p]
               /\ lastRefill' = RefilledAt(now)
               /\ seen' = [seen EXCEPT ![p] = now]
               /\ wait' = [wait EXCEPT ![p] = WaitDuration(p)]
               /\ TokenGoto(p, "arm")
               /\ UNCHANGED <<now, contexts, locked, asked, deadline, timer, granted>>

\* Line 105: the wait begins here, however long after the clock was read.
ArmTimer(p) == /\ tokenPc[p] = "arm"
               /\ timer' = [timer EXCEPT ![p] = now + wait[p]]
               /\ TokenGoto(p, "sleep")
               /\ UNCHANGED <<now, bucket, asked, seen, deadline, wait, granted>>

WaitEnds(p) == /\ tokenPc[p] = "sleep" /\ now >= timer[p]
               /\ granted' = granted + asked[p]
               /\ TokenReturn(p)
               /\ UNCHANGED <<now, bucket>>

\* The context is cancelled, or its deadline has come.  The debt stays.
WaitCancelled(p) == /\ tokenPc[p] = "sleep"
                    /\ TokenReturn(p)
                    /\ UNCHANGED <<now, bucket, granted>>

\* Time goes on while calls may start or somebody sleeps.
TokenTick == /\ now < TokenEnd \/ \E p \in Clients : tokenPc[p] = "sleep" /\ now < timer[p]
             /\ now' = now + 1
             /\ UNCHANGED <<bucket, tokenPc, asked, seen, deadline, wait, timer, granted>>

TokenStep(p) == \/ AllowTakes(p) \/ AllowRefuses(p)
                \/ WaitTakes(p) \/ WaitTimesOut(p) \/ WaitOwes(p) \/ ArmTimer(p)
                \/ WaitEnds(p)

TokenNext == \/ TokenTick
             \/ \E p \in Clients :
                  CallAllow(p) \/ CallWait(p) \/ TokenStep(p) \/ WaitCancelled(p)

TokenSpec == TokenInit /\ [][TokenNext]_tokenVars
-----------------------------------------------------------------------------
(* Properties *)

\* There are never more tokens than the bucket holds.
TokenTypeOK == /\ now \in Nat /\ granted \in Nat
               /\ tokens \in Int /\ tokens <= BucketSize
               /\ lastRefill \in 0 .. now
               /\ locked \in BOOLEAN
               /\ tokenPc \in [Clients -> {"idle", "allow", "wait", "arm", "sleep"}]
               /\ asked \in [Clients -> Nat] /\ seen \in [Clients -> 0 .. now]
               /\ deadline \in [Clients -> Nat \cup {Never}]
               /\ wait \in [Clients -> Nat] /\ timer \in [Clients -> Nat]

\* concept.md: a full bucket, and the refill rate from then on, are all that the
\* callers of Allow together can get, however their clock readings are delayed.
\* (With WaitN they get more: a refill wipes out the debt of those who sleep.)
RateBound == contexts = {} => granted <= BucketSize + now

Owing == {p \in Clients : tokenPc[p] \in {"arm", "sleep"}}

\* When the tokens that p waits for are in, by the clock that it read.
Due(p) == seen[p] + wait[p]

\* Those who were told to wait at one reading of the clock do not wait for the same
\* tokens: whoever came later is due by all that it asked for after the others.
DebtsApart ==
  \A p, q \in Owing :
    p # q /\ seen[p] = seen[q] => \/ Due(p) + asked[q] <= Due(q)
                                  \/ Due(q) + asked[p] <= Due(p)

\* A WaitN that owes tokens is due by its deadline, however long it had to wait for the
\* mutex, and its timer fires when it is due, but for the time that has passed between
\* its reading of the clock and line 105: by that much the deadline may be missed.
DueByDeadline ==
  \A p \in Owing :
    /\ deadline[p] # Never => Due(p) <= deadline[p]
    /\ tokenPc[p] = "sleep" => timer[p] \in Due(p) .. now + wait[p]

\* Every request is answered, as concept.md has it: it goes through, if need be
\* after the wait, or is dropped, for as long as no context has a deadline.
CallsReturnWithoutDeadlines ==
  \A p \in Clients :
    contexts \subseteq {Never} /\ tokenPc[p] # "idle" ~> tokenPc[p] = "idle"

\* concept.md: "If there are enough tokens ... the request goes through.  If there
\* are not enough tokens, the request is dropped": a request is one or the other.
CallsReturn == \A p \in Clients : tokenPc[p] # "idle" ~> tokenPc[p] = "idle"
=============================================================================
