---------------------------- MODULE URLShortener ----------------------------
(***************************************************************************)
(* URLShortener/shortener.go: concurrent Shorten calls on a MemoryStorage. *)
(* Each method of the storage holds m.mu, so each is a step; Shorten holds *)
(* nothing between them.  The truncated hashes are any table at all.       *)
(***************************************************************************)
EXTENDS Naturals, Functions

CONSTANTS Procs, Urls, Keys, None,
          MaxRetries,
          Teams,       \* sets of callers that may use the shortener together
          Colliding    \* the teams with which different URLs may hash to one key

ASSUME NoneAssumption == None \notin Urls \cup Keys
ASSUME RetriesAssumption == MaxRetries \in Nat \ {0}
ASSUME TeamsAssumption == Colliding \subseteq Teams /\ Teams \subseteq SUBSET Procs

VARIABLES callers,                    \* who calls Shorten
          shortToLong, longToShort,   \* the two maps; None where there is no entry
          hash,                       \* the key of every attempt for every URL
          pc, url, i,                 \* where each Shorten is, longURL, the attempt
          answered, failed            \* history: <<url, key>> returned; ErrMaxRetries

maps == <<shortToLong, longToShort>>
shortenerVars == <<callers, maps, hash, pc, url, i, answered, failed>>

Attempts == 0 .. MaxRetries - 1

\* hashURL, hash2base62 and the cut to 7 characters, of longURL for the first
\* attempt and of longURL with a salt of its own for every later one.
generateShortKey == [Urls -> [Attempts -> Keys]]

Collides(h) == \E u, v \in Urls : u # v /\ Range(h[u]) \cap Range(h[v]) # {}

ShortenerInit == /\ callers \in Teams
                 /\ shortToLong = [k \in Keys |-> None]
                 /\ longToShort = [u \in Urls |-> None]
                 /\ hash \in generateShortKey
                 /\ Collides(hash) => callers \in Colliding
                 /\ pc = [p \in Procs |-> "idle"]
                 /\ url = [p \in Procs |-> None]
                 /\ i = [p \in Procs |-> 0]
                 /\ answered = {} /\ failed = {}

ShortKey(p) == hash[url[p]][i[p]]

Goto(p, l) == pc' = [pc EXCEPT ![p] = l]

Return(p) == /\ Goto(p, "idle")
             /\ url' = [url EXCEPT ![p] = None]
             /\ i' = [i EXCEPT ![p] = 0]

\* Lines 149-151.
ShortenKnown(u) == /\ longToShort[u] # None
                   /\ answered' = answered \cup {<<u, longToShort[u]>>}
                   /\ UNCHANGED <<callers, maps, hash, pc, url, i, failed>>

ShortenNew(p, u) == /\ pc[p] = "idle" /\ longToShort[u] = None
                    /\ url' = [url EXCEPT ![p] = u]
                    /\ Goto(p, "exists")
                    /\ UNCHANGED <<callers, maps, hash, i, answered, failed>>

\* Mutant: the result of Exists is not used.
ExistsIgnored(p) == /\ pc[p] = "exists"
                    /\ Goto(p, "save")
                    /\ UNCHANGED <<callers, maps, hash, url, i, answered, failed>>

\* Line 161.
Exists(p) == /\ pc[p] = "exists"
             /\ Goto(p, IF shortToLong[ShortKey(p)] = None THEN "save" ELSE "get")
             /\ UNCHANGED <<callers, maps, hash, url, i, answered, failed>>

\* Mutant: longToShort is not written.
SaveOneMap(p) == /\ pc[p] = "save"
                 /\ shortToLong' = [shortToLong EXCEPT ![ShortKey(p)] = url[p]]
                 /\ answered' = answered \cup {<<url[p], ShortKey(p)>>}
                 /\ Return(p)
                 /\ UNCHANGED <<callers, longToShort, hash, failed>>

\* Lines 163-166, storage.Save.
Save(p) == /\ pc[p] = "save"
           /\ shortToLong' = [shortToLong EXCEPT ![ShortKey(p)] = url[p]]
           /\ longToShort' = [longToShort EXCEPT ![url[p]] = ShortKey(p)]
           /\ answered' = answered \cup {<<url[p], ShortKey(p)>>}
           /\ Return(p)
           /\ UNCHANGED <<callers, hash, failed>>

\* Lines 171-174: the key is this URL's, another call has saved it.
GetSame(p) == /\ pc[p] = "get" /\ shortToLong[ShortKey(p)] = url[p]
              /\ answered' = answered \cup {<<url[p], ShortKey(p)>>}
              /\ Return(p)
              /\ UNCHANGED <<callers, maps, hash, failed>>

\* Line 177: the next attempt.
GetOther(p) == /\ pc[p] = "get" /\ shortToLong[ShortKey(p)] # url[p]
               /\ i[p] + 1 < MaxRetries
               /\ i' = [i EXCEPT ![p] = @ + 1]
               /\ Goto(p, "exists")
               /\ UNCHANGED <<callers, maps, hash, url, answered, failed>>

\* Mutant: the last attempt is not made.
GiveUpEarly(p) == /\ pc[p] = "get" /\ shortToLong[ShortKey(p)] # url[p]
                  /\ i[p] + 2 >= MaxRetries
                  /\ failed' = failed \cup {url[p]}
                  /\ Return(p)
                  /\ UNCHANGED <<callers, maps, hash, answered>>

\* Line 180.
GiveUp(p) == /\ pc[p] = "get" /\ shortToLong[ShortKey(p)] # url[p]
             /\ i[p] + 1 >= MaxRetries
             /\ failed' = failed \cup {url[p]}
             /\ Return(p)
             /\ UNCHANGED <<callers, maps, hash, answered>>

ShortenerNext == \/ \E u \in Urls : ShortenKnown(u) \/ \E p \in callers : ShortenNew(p, u)
                 \/ \E p \in callers : Exists(p) \/ Save(p) \/ GetSame(p) \/ GetOther(p) \/ GiveUp(p)

-----------------------------------------------------------------------------
(* Properties *)

\* shortener_test.go lines 74-76: what Shorten returned resolves to the URL it was
\* returned for, then and ever after.
AnswersResolve == \A a \in answered : shortToLong[a[2]] = a[1]

\* ErrMaxRetries means what it says: every key the URL may get is another URL's.
FailsOnlyWhenAllTaken ==
  \A u \in failed : \A n \in Attempts : shortToLong[hash[u][n]] \notin {None, u}

\* shortener_test.go line 85: the same URL gets the same short URL and no two URLs
\* share one, whichever of the calls saved it: the two maps are inverse to each other.
MapsAgree == \A u \in Urls, k \in Keys : longToShort[u] = k <=> shortToLong[k] = u
=============================================================================
