-------------------------- MODULE Services_proofs --------------------------
(***************************************************************************)
(* What is proved of the URL shortener, the crawler and its extensions:    *)
(* MCServices' invariants, for any number of callers, workers and threads, *)
(* any URLs, keys and hashes, and for the crawler any site.  Each of the   *)
(* three has an inductive invariant of its own, and a step of MCServices   *)
(* is one of each or leaves it alone.                                      *)
(***************************************************************************)
EXTENDS MCServices, FiniteSetTheorems, WellFoundedInduction, TLAPS

-----------------------------------------------------------------------------
(* The URL shortener *)

ShortenerType ==
  /\ callers \in Teams /\ (Collides(hash) => callers \in Colliding)
  /\ hash \in generateShortKey
  /\ shortToLong \in [Keys -> Urls \cup {None}]
  /\ longToShort \in [Urls -> Keys \cup {None}]
  /\ pc \in [Procs -> {"idle", "exists", "save", "get"}]
  /\ url \in [Procs -> Urls \cup {None}]
  /\ i \in [Procs -> Attempts]
  /\ answered \subseteq Urls \X Keys /\ failed \subseteq Urls
  /\ \A p \in Procs : pc[p] # "idle" => p \in callers /\ url[p] \in Urls
  /\ \A p \in Procs : pc[p] = "idle" => i[p] = 0

\* No two URLs may get one key: the first attempt is the one that counts.
Apart ==
  /\ \A p \in Procs : i[p] = 0
  /\ \A p \in Procs : pc[p] = "get" => shortToLong[hash[url[p]][0]] = url[p]
  /\ \A k \in Keys, u \in Urls : shortToLong[k] = u => k = hash[u][0]
  /\ failed = {}

\* One caller: what it has found of the maps stays so until it has written them.
Alone ==
  /\ \A p, q \in callers : p = q
  /\ \A p \in Procs : pc[p] # "idle" =>
       /\ longToShort[url[p]] = None
       /\ pc[p] = "save" => shortToLong[hash[url[p]][i[p]]] = None
       /\ pc[p] = "get" => shortToLong[hash[url[p]][i[p]]] # None
       /\ \A n \in Attempts : n < i[p] => shortToLong[hash[url[p]][n]] \notin {None, url[p]}
  /\ FailsOnlyWhenAllTaken

ShortenerInv == /\ ShortenerType /\ MapsAgree /\ AnswersResolve
                /\ IF Collides(hash) THEN Alone ELSE Apart

\* What the shortener's checks come to if URLs may collide only for a caller on its own.
OneCollides == \A t \in Colliding : \A p, q \in t : p = q

LEMMA ShortenerStarts == OneCollides /\ ShortenerInit => ShortenerInv
<1> SUFFICES ASSUME OneCollides, ShortenerInit PROVE ShortenerInv
  OBVIOUS
<1>1. ShortenerType
  BY RetriesAssumption, TeamsAssumption DEF ShortenerInit, ShortenerType, Attempts
<1>2. MapsAgree /\ AnswersResolve
  BY NoneAssumption DEF ShortenerInit, MapsAgree, AnswersResolve
<1>3. CASE Collides(hash)
  <2>1. Alone
    BY <1>3 DEF ShortenerInit, OneCollides, Alone, FailsOnlyWhenAllTaken
  <2> QED BY <1>1, <1>2, <1>3, <2>1 DEF ShortenerInv
<1>4. CASE ~Collides(hash)
  <2>1. Apart
    BY NoneAssumption DEF ShortenerInit, Apart
  <2> QED BY <1>1, <1>2, <1>4, <2>1 DEF ShortenerInv
<1> QED BY <1>3, <1>4

LEMMA ShortenerTyped == ShortenerType /\ [ShortenerNext]_shortenerVars => ShortenerType'
<1> SUFFICES ASSUME ShortenerType, [ShortenerNext]_shortenerVars PROVE ShortenerType'
  OBVIOUS
<1> USE RetriesAssumption, TeamsAssumption DEF ShortenerType, Attempts
<1>1. \A p \in callers : p \in Procs
  OBVIOUS
<1>2. ASSUME NEW p \in Procs, pc[p] # "idle" PROVE ShortKey(p) \in Keys
  BY <1>2 DEF ShortKey, generateShortKey
<1>3. ASSUME NEW u \in Urls, ShortenKnown(u) PROVE ShortenerType'
  BY <1>3 DEF ShortenKnown, maps
<1>4. ASSUME NEW u \in Urls, NEW p \in callers, ShortenNew(p, u) PROVE ShortenerType'
  BY <1>1, <1>4 DEF ShortenNew, maps, Goto
<1>5. ASSUME NEW p \in callers, Exists(p) PROVE ShortenerType'
  BY <1>1, <1>5 DEF Exists, maps, Goto
<1>6. ASSUME NEW p \in callers, Save(p) PROVE ShortenerType'
  <2>1. p \in Procs /\ ShortKey(p) \in Keys /\ url[p] \in Urls
    BY <1>1, <1>2, <1>6 DEF Save
  <2> QED BY <1>6, <2>1 DEF Save, maps, Goto, Return
<1>7. ASSUME NEW p \in callers, GetSame(p) PROVE ShortenerType'
  <2>1. p \in Procs /\ ShortKey(p) \in Keys /\ url[p] \in Urls
    BY <1>1, <1>2, <1>7 DEF GetSame
  <2> QED BY <1>7, <2>1 DEF GetSame, maps, Goto, Return
<1>8. ASSUME NEW p \in callers, GetOther(p) PROVE ShortenerType'
  BY <1>1, <1>8 DEF GetOther, maps, Goto
<1>9. ASSUME NEW p \in callers, GiveUp(p) PROVE ShortenerType'
  BY <1>1, <1>9 DEF GiveUp, maps, Goto, Return
<1>10. CASE UNCHANGED shortenerVars
  BY <1>10 DEF shortenerVars, maps
<1> QED BY <1>3, <1>4, <1>5, <1>6, <1>7, <1>8, <1>9, <1>10 DEF ShortenerNext

\* The maps are written only where there is nothing yet, or what is written already is.
LEMMA Written ==
  ASSUME ShortenerInv, NEW p \in callers, Save(p)
  PROVE  /\ p \in Procs /\ ShortKey(p) \in Keys /\ url[p] \in Urls
         /\ \/ shortToLong[ShortKey(p)] = None /\ longToShort[url[p]] = None
            \/ UNCHANGED maps
<1> DEFINE k == ShortKey(p)
           u == url[p]
<1>1. p \in Procs /\ u \in Urls /\ k \in Keys
  BY TeamsAssumption DEF ShortenerInv, ShortenerType, Save, ShortKey, generateShortKey
<1>2. CASE Collides(hash)
  BY <1>1, <1>2 DEF ShortenerInv, Alone, Save, ShortKey
<1>3. CASE ~Collides(hash)
  <2>1. Apart
    BY <1>3 DEF ShortenerInv
  <2>2. k = hash[u][0]
    BY <1>1, <2>1 DEF Apart, ShortKey
  <2>3. longToShort[u] \in {None, k}
    <3>1. longToShort[u] = None \/ longToShort[u] \in Keys
      BY <1>1 DEF ShortenerInv, ShortenerType
    <3>2. ASSUME longToShort[u] \in Keys PROVE longToShort[u] = k
      <4>1. shortToLong[longToShort[u]] = u
        BY <1>1, <3>2 DEF ShortenerInv, MapsAgree
      <4> QED BY <1>1, <2>1, <2>2, <3>2, <4>1 DEF Apart
    <3> QED BY <3>1, <3>2
  <2>4. shortToLong[k] \in {None, u}
    <3>1. shortToLong[k] = None \/ shortToLong[k] \in Urls
      BY <1>1 DEF ShortenerInv, ShortenerType
    <3>2. ASSUME NEW v \in Urls, shortToLong[k] = v, v # u PROVE FALSE
      <4>1. k = hash[v][0]
        BY <1>1, <2>1, <3>2 DEF Apart
      <4>2. 0 \in Attempts
        BY RetriesAssumption DEF Attempts
      <4>3. k \in Range(hash[u]) \cap Range(hash[v])
        BY <1>1, <2>2, <4>1, <4>2, <3>2 DEF ShortenerInv, ShortenerType, generateShortKey, Range
      <4> QED BY <1>1, <1>3, <3>2, <4>3 DEF Collides
    <3> QED BY <3>1, <3>2
  <2>5. CASE shortToLong[k] = None
    <3>1. longToShort[u] # k
      BY <1>1, <2>5, NoneAssumption DEF ShortenerInv, MapsAgree
    <3> QED BY <1>1, <2>3, <2>5, <3>1
  <2>6. CASE shortToLong[k] = u
    <3>1. longToShort[u] = k
      BY <1>1, <2>6 DEF ShortenerInv, MapsAgree
    <3> QED BY <1>1, <2>6, <3>1 DEF Save, maps, ShortenerInv, ShortenerType
  <2> QED BY <2>4, <2>5, <2>6
<1> QED BY <1>1, <1>2, <1>3

LEMMA MapsKept ==
  ShortenerInv /\ [ShortenerNext]_shortenerVars
    => /\ MapsAgree' /\ AnswersResolve'
       /\ \A k \in Keys : shortToLong[k] # None => shortToLong'[k] = shortToLong[k]
<1> SUFFICES ASSUME ShortenerInv, [ShortenerNext]_shortenerVars
             PROVE  /\ MapsAgree' /\ AnswersResolve'
                    /\ \A k \in Keys : shortToLong[k] # None => shortToLong'[k] = shortToLong[k]
  OBVIOUS
<1> USE DEF ShortenerInv
<1>1. CASE UNCHANGED <<maps, answered>>
  BY <1>1 DEF maps, MapsAgree, AnswersResolve
<1>2. ASSUME NEW u \in Urls, ShortenKnown(u)
      PROVE  /\ MapsAgree' /\ AnswersResolve'
             /\ \A k \in Keys : shortToLong[k] # None => shortToLong'[k] = shortToLong[k]
  <2>1. longToShort[u] \in Keys /\ UNCHANGED maps
    BY <1>2 DEF ShortenKnown, ShortenerType
  <2>2. shortToLong[longToShort[u]] = u
    BY <2>1 DEF MapsAgree
  <2> QED BY <1>2, <2>1, <2>2 DEF ShortenKnown, maps, MapsAgree, AnswersResolve
<1>3. ASSUME NEW p \in callers, Save(p)
      PROVE  /\ MapsAgree' /\ AnswersResolve'
             /\ \A k \in Keys : shortToLong[k] # None => shortToLong'[k] = shortToLong[k]
  <2> DEFINE key == ShortKey(p)
             mine == url[p]
  <2>1. key \in Keys /\ mine \in Urls /\ p \in Procs
    BY <1>3, Written
  <2>2. /\ shortToLong' = [shortToLong EXCEPT ![key] = mine]
        /\ longToShort' = [longToShort EXCEPT ![mine] = key]
        /\ answered' = answered \cup {<<mine, key>>}
    BY <1>3 DEF Save
  <2>3. /\ shortToLong \in [Keys -> Urls \cup {None}] /\ longToShort \in [Urls -> Keys \cup {None}]
        /\ answered \subseteq Urls \X Keys
    BY DEF ShortenerType
  <2> HIDE DEF key, mine, ShortenerInv
  <2>4. /\ MapsAgree'
        /\ \A k \in Keys : shortToLong[k] # None => shortToLong'[k] = shortToLong[k]
    <3>1. CASE shortToLong[key] = None /\ longToShort[mine] = None
      <4>1. \A k \in Keys : shortToLong[k] # mine
        BY <2>1, <2>3, <3>1, NoneAssumption DEF ShortenerInv, MapsAgree
      <4>2. \A u \in Urls : longToShort[u] # key
        BY <2>1, <2>3, <3>1, NoneAssumption DEF ShortenerInv, MapsAgree
      <4> QED BY <2>1, <2>2, <2>3, <3>1, <4>1, <4>2 DEF ShortenerInv, MapsAgree
    <3>2. CASE UNCHANGED maps
      BY <3>2 DEF ShortenerInv, maps, MapsAgree
    <3> QED BY <1>3, <3>1, <3>2, Written DEF key, mine
  <2>5. AnswersResolve'
    <3>1. ASSUME NEW x \in answered PROVE shortToLong'[x[2]] = x[1]
      <4>1. x[2] \in Keys /\ x[1] \in Urls /\ shortToLong[x[2]] = x[1]
        BY <2>3 DEF ShortenerInv, AnswersResolve
      <4> QED BY <2>4, <4>1, NoneAssumption
    <3>2. shortToLong'[key] = mine
      BY <2>1, <2>2, <2>3
    <3> QED BY <2>2, <3>1, <3>2 DEF AnswersResolve
  <2> QED BY <2>4, <2>5
<1>4. ASSUME NEW p \in callers, GetSame(p)
      PROVE  /\ MapsAgree' /\ AnswersResolve'
             /\ \A k \in Keys : shortToLong[k] # None => shortToLong'[k] = shortToLong[k]
  BY <1>4 DEF GetSame, maps, MapsAgree, AnswersResolve
<1>5. \/ UNCHANGED <<maps, answered>> \/ \E u \in Urls : ShortenKnown(u)
      \/ \E p \in callers : Save(p) \/ GetSame(p)
  BY DEF ShortenerNext, ShortenNew, Exists, GetOther, GiveUp, shortenerVars, maps
<1> QED BY <1>1, <1>2, <1>3, <1>4, <1>5

LEMMA ApartKept ==
  ShortenerInv /\ ~Collides(hash) /\ [ShortenerNext]_shortenerVars => Apart'
<1> SUFFICES ASSUME ShortenerInv, ~Collides(hash), [ShortenerNext]_shortenerVars PROVE Apart'
  OBVIOUS
<1>0. ShortenerType /\ Apart /\ callers \subseteq Procs /\ 0 \in Attempts
  BY RetriesAssumption, TeamsAssumption DEF ShortenerInv, ShortenerType, Attempts
<1>1. \A k \in Keys : shortToLong[k] # None => shortToLong'[k] = shortToLong[k]
  BY MapsKept
<1>2. ASSUME NEW p \in Procs, pc[p] # "idle"
      PROVE  /\ ShortKey(p) = hash[url[p]][0] /\ hash[url[p]][0] \in Keys
             /\ url[p] \in Urls /\ url[p] # None
  BY <1>0, <1>2, NoneAssumption DEF Apart, ShortKey, ShortenerType, generateShortKey
<1>3. ASSUME NEW u \in Urls, ShortenKnown(u) PROVE Apart'
  BY <1>0, <1>3 DEF ShortenKnown, maps, Apart
<1>4. ASSUME NEW u \in Urls, NEW p \in callers, ShortenNew(p, u) PROVE Apart'
  BY <1>0, <1>4 DEF ShortenNew, maps, Apart, Goto, ShortenerType
<1>5. ASSUME NEW p \in callers, Exists(p) PROVE Apart'
  <2>1. p \in Procs /\ pc[p] = "exists"
    BY <1>0, <1>5 DEF Exists
  <2>2. shortToLong[hash[url[p]][0]] # None => shortToLong[hash[url[p]][0]] = url[p]
    <3> DEFINE key == hash[url[p]][0]
    <3>1. key \in Keys /\ url[p] \in Urls
      BY <1>2, <2>1
    <3>2. ASSUME shortToLong[key] # None, shortToLong[key] # url[p] PROVE FALSE
      <4>1. PICK v \in Urls : shortToLong[key] = v
        BY <1>0, <3>1, <3>2 DEF ShortenerType
      <4>2. key = hash[v][0] /\ v # url[p]
        BY <1>0, <3>1, <3>2, <4>1 DEF Apart
      <4>3. key \in Range(hash[v]) \cap Range(hash[url[p]])
        BY <1>0, <3>1, <4>2 DEF ShortenerType, generateShortKey, Range
      <4> QED BY <3>1, <4>2, <4>3 DEF Collides
    <3> QED BY <3>2
  <2> QED BY <1>0, <1>2, <1>5, <2>1, <2>2 DEF Exists, maps, Apart, Goto, ShortenerType
<1>6. ASSUME NEW p \in callers, Save(p) PROVE Apart'
  <2>1. p \in Procs /\ pc[p] = "save"
    BY <1>0, <1>6 DEF Save
  <2>2. i' = i /\ failed' = failed /\ hash' = hash
    BY <1>0, <1>6, <2>1 DEF Save, Return, Apart, ShortenerType
  <2>3. \A q \in Procs : pc'[q] = "get" => pc[q] = "get" /\ url'[q] = url[q]
    BY <1>0, <1>6, <2>1 DEF Save, Return, Goto, ShortenerType
  <2>4. \A q \in Procs : pc'[q] = "get" => shortToLong'[hash[url'[q]][0]] = url'[q]
    BY <1>0, <1>1, <1>2, <2>3 DEF Apart
  <2>5. \A k \in Keys, u \in Urls : shortToLong'[k] = u => k = hash[u][0]
    BY <1>0, <1>2, <1>6, <2>1 DEF Save, Apart, ShortenerType
  <2> QED BY <1>0, <2>2, <2>4, <2>5 DEF Apart
<1>7. ASSUME NEW p \in callers, GetSame(p) PROVE Apart'
  BY <1>0, <1>7 DEF GetSame, maps, Apart, Goto, Return, ShortenerType
<1>8. ASSUME NEW p \in callers, GetOther(p) \/ GiveUp(p) PROVE FALSE
  <2>1. p \in Procs /\ pc[p] = "get" /\ shortToLong[ShortKey(p)] # url[p]
    BY <1>0, <1>8 DEF GetOther, GiveUp
  <2> QED BY <1>0, <1>2, <2>1 DEF Apart
<1>9. CASE UNCHANGED shortenerVars
  BY <1>0, <1>9 DEF shortenerVars, maps, Apart
<1> QED BY <1>3, <1>4, <1>5, <1>6, <1>7, <1>8, <1>9 DEF ShortenerNext

LEMMA AloneKept ==
  ShortenerInv /\ Collides(hash) /\ [ShortenerNext]_shortenerVars => Alone'
<1> SUFFICES ASSUME ShortenerInv, Collides(hash), [ShortenerNext]_shortenerVars PROVE Alone'
  OBVIOUS
<1>0. /\ ShortenerType /\ Alone /\ callers \subseteq Procs /\ MapsAgree
      /\ hash \in generateShortKey
  BY TeamsAssumption DEF ShortenerInv, ShortenerType
<1>1. \A k \in Keys : shortToLong[k] # None => shortToLong'[k] = shortToLong[k]
  BY MapsKept
<1>2. \A u \in Urls, n \in Attempts : hash[u][n] \in Keys
  BY <1>0 DEF generateShortKey
<1>3. callers' = callers /\ hash' = hash
  BY DEF ShortenerNext, ShortenKnown, ShortenNew, Exists, Save, GetSame, GetOther, GiveUp,
         shortenerVars
<1>4. failed' = failed => FailsOnlyWhenAllTaken'
  BY <1>0, <1>1, <1>2, <1>3 DEF FailsOnlyWhenAllTaken, Alone, ShortenerType
<1>5. ASSUME NEW p \in callers PROVE p \in Procs /\ \A q \in Procs : q # p => pc[q] = "idle"
  BY <1>0 DEF Alone, ShortenerType
<1>6. ASSUME NEW u \in Urls, ShortenKnown(u) PROVE Alone'
  BY <1>0, <1>3, <1>4, <1>6 DEF ShortenKnown, maps, Alone
<1>7. ASSUME NEW u \in Urls, NEW p \in callers, ShortenNew(p, u) PROVE Alone'
  <2> QED BY <1>0, <1>3, <1>4, <1>5, <1>7 DEF ShortenNew, maps, Alone, Goto, ShortenerType, Attempts
<1>8. ASSUME NEW p \in callers, Exists(p) PROVE Alone'
  BY <1>0, <1>3, <1>4, <1>5, <1>8 DEF Exists, maps, Alone, Goto, ShortKey, ShortenerType
<1>9. ASSUME NEW p \in callers, Save(p) \/ GetSame(p) PROVE Alone'
  <2>1. failed' = failed /\ Return(p)
    BY <1>9 DEF Save, GetSame
  <2>2. \A q \in Procs : pc'[q] = "idle"
    BY <1>0, <1>5, <2>1 DEF Return, Goto, ShortenerType
  <2> QED BY <1>0, <1>3, <1>4, <2>1, <2>2 DEF Alone
<1>10. ASSUME NEW p \in callers, GetOther(p) PROVE Alone'
  <2>1. /\ p \in Procs /\ pc[p] = "get" /\ i[p] \in Attempts /\ url[p] \in Urls
        /\ shortToLong[hash[url[p]][i[p]]] \notin {None, url[p]}
    BY <1>0, <1>5, <1>10 DEF GetOther, ShortKey, Alone, ShortenerType
  <2>2. \A n \in Attempts : n < i[p] + 1 => shortToLong[hash[url[p]][n]] \notin {None, url[p]}
    <3>1. ASSUME NEW n \in Attempts, n < i[p] + 1 PROVE n < i[p] \/ n = i[p]
      BY <2>1, <3>1 DEF Attempts
    <3> QED BY <1>0, <2>1, <3>1 DEF Alone
  <2>3. UNCHANGED <<shortToLong, longToShort, url, failed>> /\ i' = [i EXCEPT ![p] = @ + 1]
        /\ pc' = [pc EXCEPT ![p] = "exists"]
    BY <1>10 DEF GetOther, maps, Goto
  <2> QED BY <1>0, <1>3, <1>4, <1>5, <2>1, <2>2, <2>3 DEF Alone, ShortenerType
<1>11. ASSUME NEW p \in callers, GiveUp(p) PROVE Alone'
  <2>1. /\ p \in Procs /\ pc[p] = "get" /\ i[p] \in Attempts /\ url[p] \in Urls
        /\ shortToLong[hash[url[p]][i[p]]] \notin {None, url[p]}
    BY <1>0, <1>5, <1>11 DEF GiveUp, ShortKey, Alone, ShortenerType
  <2>2. \A n \in Attempts : shortToLong[hash[url[p]][n]] \notin {None, url[p]}
    <3>1. ASSUME NEW n \in Attempts PROVE n < i[p] \/ n = i[p]
      BY <1>11, <2>1, RetriesAssumption DEF Attempts, GiveUp
    <3> QED BY <1>0, <2>1, <3>1 DEF Alone
  <2>3. UNCHANGED maps /\ failed' = failed \cup {url[p]} /\ Return(p)
    BY <1>11 DEF GiveUp
  <2>4. FailsOnlyWhenAllTaken'
    BY <1>0, <1>3, <2>2, <2>3 DEF maps, Alone, FailsOnlyWhenAllTaken
  <2>5. \A q \in Procs : pc'[q] = "idle"
    BY <1>0, <1>5, <2>3 DEF Return, Goto, ShortenerType
  <2> QED BY <1>0, <1>3, <2>4, <2>5 DEF Alone
<1>12. CASE UNCHANGED shortenerVars
  <2>1. FailsOnlyWhenAllTaken'
    BY <1>4, <1>12 DEF shortenerVars
  <2> QED BY <1>0, <1>12, <2>1 DEF shortenerVars, maps, Alone
<1> QED BY <1>6, <1>7, <1>8, <1>9, <1>10, <1>11, <1>12 DEF ShortenerNext

LEMMA ShortenerKept == ShortenerInv /\ [ShortenerNext]_shortenerVars => ShortenerInv'
<1> SUFFICES ASSUME ShortenerInv, [ShortenerNext]_shortenerVars PROVE ShortenerInv'
  OBVIOUS
<1>1. ShortenerType'
  BY ShortenerTyped DEF ShortenerInv
<1>2. MapsAgree' /\ AnswersResolve'
  BY MapsKept
<1>3. hash' = hash
  BY DEF ShortenerNext, ShortenKnown, ShortenNew, Exists, Save, GetSame, GetOther, GiveUp,
         shortenerVars
<1>4. Collides(hash)' <=> Collides(hash)
  BY <1>3 DEF Collides
<1>5. IF Collides(hash)' THEN Alone' ELSE Apart'
  BY <1>4, AloneKept, ApartKept
<1> QED BY <1>1, <1>2, <1>5 DEF ShortenerInv

-----------------------------------------------------------------------------
(* The extensions *)

WatchedPages == [url : Watched, hash : Hashes]
Works == {"look", "remember", "read", "open", "dump", "log", "done"}

ExtType ==
  /\ managed \in BOOLEAN /\ team \subseteq Hands /\ on \in BOOLEAN
  /\ tasks \in Seq(WatchedPages \cup {Stop}) /\ open \in Int
  /\ hand \in [Hands -> Works \cup {Rest, "idle", "top", "get", "left"}]
  /\ given \in [Hands -> WatchedPages \cup {Unseen}]
  /\ before \in [Hands -> Hashes \cup {Unseen}]
  /\ copy \in [Hands -> Statuses] /\ known \in Statuses /\ file \in Statuses \cup {Torn}
  /\ lines \in Seq([url : Watched, hash : Hashes, change : {"new", "modified", "unchanged"}])
  /\ handed \in Nat /\ kills \in Nat
  /\ \A h \in Hands : hand[h] \in Works <=> given[h] # Unseen

LEMMA ExtStarts == ExtensionsInit => ExtType
<1> SUFFICES ASSUME ExtensionsInit PROVE ExtType
  OBVIOUS
<1>1. NoStatus \in Statuses
  BY DEF NoStatus, Statuses
<1>2. team \subseteq Hands
  BY ExtensionsAssumption DEF ExtensionsInit
<1>3. Rest \in {"idle", "top"}
  BY DEF Rest
<1> QED BY <1>1, <1>2, <1>3 DEF ExtensionsInit, ExtType, Works

\* What a thread's step to another place does to the places.
LEMMA Going ==
  ASSUME ExtType, NEW h, NEW from, NEW to, HandGoes(h, from, to),
         to \in Works \cup {Rest, "idle", "top", "get", "left"}
  PROVE  /\ h \in Hands /\ h \in team /\ hand[h] = from
         /\ hand' \in [Hands -> Works \cup {Rest, "idle", "top", "get", "left"}]
         /\ hand'[h] = to /\ \A g \in Hands : g # h => hand'[g] = hand[g]
BY DEF HandGoes, ExtType

LEMMA ExtTyped == ExtType /\ [ExtensionsNext]_extVars => ExtType'
<1> SUFFICES ASSUME ExtType, [ExtensionsNext]_extVars PROVE ExtType'
  OBVIOUS
<1>1. NoStatus \in Statuses
  BY DEF NoStatus, Statuses
<1>2. Rest \in {"idle", "top"} /\ Rest \notin Works
  BY DEF Rest, Works
<1>3. Rest' = Rest \/ managed' # managed
  BY DEF Rest
<1> USE MarksAssumption, ExtensionsAssumption
<1>4. ASSUME NEW h \in Hands, NEW p \in WatchedPages, ProcessNow(h, p) PROVE ExtType'
  <2>1. HandGoes(h, "idle", "look") /\ "look" \in Works /\ "idle" \notin Works /\ Rest' = Rest
    BY <1>3, <1>4 DEF ProcessNow, Works
  <2>2. /\ hand[h] = "idle"
        /\ hand' \in [Hands -> Works \cup {Rest, "idle", "top", "get", "left"}]
        /\ hand'[h] = "look" /\ \A g \in Hands : g # h => hand'[g] = hand[g]
    BY <2>1, Going
  <2>3. given' = [given EXCEPT ![h] = p] /\ handed' = handed + 1
        /\ UNCHANGED <<managed, team, tasks, open, on, kills, before, copy, known, file, lines>>
    BY <1>4 DEF ProcessNow, NextPage, disk
  <2>4. p # Unseen /\ given' \in [Hands -> WatchedPages \cup {Unseen}] /\ handed' \in Nat
    BY <2>3 DEF ExtType, WatchedPages
  <2>5. \A g \in Hands : hand'[g] \in Works <=> given'[g] # Unseen
    BY <2>1, <2>2, <2>3, <2>4 DEF ExtType
  <2> QED BY <2>1, <2>2, <2>3, <2>4, <2>5 DEF ExtType
<1>5. ASSUME NEW p \in WatchedPages, ProcessAsync(p) PROVE ExtType'
  BY <1>3, <1>5 DEF ProcessAsync, NextPage, ExtType, disk
<1>6. ASSUME NEW h \in Hands, WorkerLoops(h) PROVE ExtType'
  <2>1. HandGoes(h, "top", IF on THEN "get" ELSE "left") /\ {"top", "get", "left"} \cap Works = {}
        /\ Rest' = Rest
    BY <1>3, <1>6 DEF WorkerLoops, Works, manager
  <2>2. /\ hand[h] = "top"
        /\ hand' \in [Hands -> Works \cup {Rest, "idle", "top", "get", "left"}]
        /\ hand'[h] \in {"get", "left"} /\ \A g \in Hands : g # h => hand'[g] = hand[g]
    BY <2>1, Going
  <2> QED BY <1>6, <2>1, <2>2 DEF WorkerLoops, manager, ExtType, disk
<1>7. ASSUME NEW h \in Hands, GetTask(h) PROVE ExtType'
  <2>1. /\ HandGoes(h, "get", "look") /\ "look" \in Works /\ "get" \notin Works /\ Rest' = Rest
        /\ tasks # << >> /\ tasks' = Tail(tasks) /\ Head(tasks) # Stop
        /\ given' = [given EXCEPT ![h] = Head(tasks)]
        /\ UNCHANGED <<managed, team, open, on, handed, kills, before, copy, known, disk>>
    BY <1>3, <1>7 DEF GetTask, Taken, Works
  <2>2. /\ hand[h] = "get"
        /\ hand' \in [Hands -> Works \cup {Rest, "idle", "top", "get", "left"}]
        /\ hand'[h] = "look" /\ \A g \in Hands : g # h => hand'[g] = hand[g]
    BY <2>1, Going
  <2>3. Head(tasks) \in WatchedPages /\ Tail(tasks) \in Seq(WatchedPages \cup {Stop})
    BY <2>1 DEF ExtType
  <2> QED BY <2>1, <2>2, <2>3 DEF ExtType, WatchedPages, disk
<1>8. ASSUME NEW h \in Hands, GetStop(h) PROVE ExtType'
  <2>1. /\ HandGoes(h, "get", "left") /\ {"get", "left"} \cap Works = {} /\ Rest' = Rest
        /\ tasks # << >> /\ tasks' = Tail(tasks)
        /\ UNCHANGED <<managed, team, open, on, handed, kills, given, before, copy, known, disk>>
    BY <1>3, <1>8 DEF GetStop, Taken, Works
  <2>2. /\ hand[h] = "get"
        /\ hand' \in [Hands -> Works \cup {Rest, "idle", "top", "get", "left"}]
        /\ hand'[h] = "left" /\ \A g \in Hands : g # h => hand'[g] = hand[g]
    BY <2>1, Going
  <2>3. Tail(tasks) \in Seq(WatchedPages \cup {Stop})
    BY <2>1 DEF ExtType
  <2> QED BY <2>1, <2>2, <2>3 DEF ExtType, disk
<1>9. ASSUME NEW h \in Hands, GetEmpty(h) PROVE ExtType'
  <2>1. HandGoes(h, "get", "top") /\ {"get", "top"} \cap Works = {} /\ Rest' = Rest
    BY <1>3, <1>9 DEF GetEmpty, Works, manager
  <2>2. /\ hand[h] = "get"
        /\ hand' \in [Hands -> Works \cup {Rest, "idle", "top", "get", "left"}]
        /\ hand'[h] = "top" /\ \A g \in Hands : g # h => hand'[g] = hand[g]
    BY <2>1, Going
  <2> QED BY <1>9, <2>1, <2>2 DEF GetEmpty, manager, ExtType, disk
<1>10. ASSUME NEW h \in Hands, Processed(h) PROVE ExtType'
  <2>1. HandGoes(h, "done", Rest) /\ Rest' = Rest
    BY <1>3, <1>10 DEF Processed
  <2>2. /\ hand[h] = "done"
        /\ hand' \in [Hands -> Works \cup {Rest, "idle", "top", "get", "left"}]
        /\ hand'[h] = Rest /\ \A g \in Hands : g # h => hand'[g] = hand[g]
    BY <2>1, Going
  <2>3. /\ given' = [given EXCEPT ![h] = Unseen] /\ before' = [before EXCEPT ![h] = Unseen]
        /\ copy' = [copy EXCEPT ![h] = NoStatus] /\ open' = IF managed THEN open - 1 ELSE open
        /\ UNCHANGED <<managed, team, tasks, on, handed, kills, known, file, lines>>
    BY <1>10 DEF Processed, disk
  <2>4. /\ given' \in [Hands -> WatchedPages \cup {Unseen}] /\ open' \in Int
        /\ before' \in [Hands -> Hashes \cup {Unseen}] /\ copy' \in [Hands -> Statuses]
    BY <1>1, <2>3 DEF ExtType
  <2>5. \A g \in Hands : hand'[g] \in Works <=> given'[g] # Unseen
    BY <1>2, <2>2, <2>3 DEF ExtType
  <2> QED BY <2>1, <2>2, <2>3, <2>4, <2>5 DEF ExtType
<1>11. ASSUME CallStop \/ PutStops \/ JoinReturns PROVE ExtType'
  <2>1. Rest' = Rest /\ managed' = managed /\ team' = team
        /\ UNCHANGED <<handed, kills, hand, given, before, copy, known, disk>>
    BY <1>3, <1>11 DEF CallStop, PutStops, JoinReturns
  <2>2. on' \in BOOLEAN /\ tasks' \in Seq(WatchedPages \cup {Stop}) /\ open' \in Int
    <3>1. CASE PutStops
      <4>1. IsFiniteSet(team)
        BY FS_Subset DEF ExtType
      <4>2. Cardinality(team) \in Nat
        BY <4>1, FS_CardinalityType
      <4>3. [j \in 1 .. Cardinality(team) |-> Stop] \in Seq(WatchedPages \cup {Stop})
        BY <4>2
      <4> QED BY <3>1, <4>2, <4>3 DEF PutStops, ExtType
    <3>2. CASE CallStop \/ JoinReturns
      BY <3>2 DEF CallStop, JoinReturns, ExtType
    <3> QED BY <1>11, <3>1, <3>2
  <2> QED BY <2>1, <2>2 DEF ExtType, disk
<1>12. ASSUME Kill PROVE ExtType'
  <2>1. Loaded(file) \in Statuses
    BY <1>1 DEF ExtType, Loaded
  <2>2. Rest' = Rest
    BY <1>3, <1>12 DEF Kill
  <2> QED BY <1>1, <1>2, <1>12, <2>1, <2>2 DEF Kill, ExtType, disk
<1>13. ASSUME NEW h \in Hands,
              LookUp(h) \/ Remember(h) \/ ReadFile(h) \/ OpenFile(h) \/ Dump(h) \/ Log(h)
       PROVE  ExtType'
  <2>1. /\ hand[h] \in Works
        /\ hand' \in [Hands -> Works \cup {Rest, "idle", "top", "get", "left"}]
        /\ hand'[h] \in Works /\ \A g \in Hands : g # h => hand'[g] = hand[g]
    BY <1>13, Going DEF LookUp, Remember, ReadFile, OpenFile, Dump, Log, Works
  <2>2. given[h] \in WatchedPages /\ given[h].url \in Watched /\ given[h].hash \in Hashes
    BY <2>1 DEF ExtType, WatchedPages
  <2>3. UNCHANGED <<manager, given>> /\ Rest' = Rest
    BY <1>13, <1>3 DEF LookUp, Remember, ReadFile, OpenFile, Dump, Log, manager
  <2>4. /\ before' \in [Hands -> Hashes \cup {Unseen}]
        /\ copy' \in [Hands -> Statuses] /\ known' \in Statuses /\ file' \in Statuses \cup {Torn}
    <3>1. CASE LookUp(h)
      BY <2>2, <3>1 DEF LookUp, ExtType, Statuses, disk
    <3>2. CASE Remember(h)
      BY <2>2, <3>2 DEF Remember, ExtType, Statuses, disk
    <3>3. CASE ReadFile(h)
      <4>1. Loaded(file) \in Statuses
        BY <1>1 DEF ExtType, Loaded
      <4> QED BY <2>2, <3>3, <4>1 DEF ReadFile, ExtType, disk
    <3>4. CASE OpenFile(h) \/ Log(h)
      BY <2>2, <3>4 DEF OpenFile, Log, ExtType, disk
    <3>5. CASE Dump(h)
      BY <2>2, <3>5 DEF Dump, ExtType, Statuses, disk
    <3> QED BY <1>13, <3>1, <3>2, <3>3, <3>4, <3>5
  <2>5. lines' \in Seq([url : Watched, hash : Hashes, change : {"new", "modified", "unchanged"}])
    <3>1. CASE Log(h)
      <4>1. [url |-> given[h].url, hash |-> given[h].hash, change |-> ChangeType(h)]
              \in [url : Watched, hash : Hashes, change : {"new", "modified", "unchanged"}]
        BY <2>2 DEF ChangeType
      <4> QED BY <3>1, <4>1 DEF Log, ExtType
    <3>2. CASE ~Log(h)
      BY <1>13, <3>2 DEF LookUp, Remember, ReadFile, OpenFile, Dump, disk, ExtType
    <3> QED BY <3>1, <3>2
  <2> QED BY <2>1, <2>3, <2>4, <2>5 DEF ExtType, manager
<1>14. CASE UNCHANGED extVars
  <2>1. Rest' = Rest
    BY <1>14 DEF extVars, manager, Rest
  <2> QED BY <1>14, <2>1 DEF extVars, manager, disk, ExtType
<1> QED BY <1>4, <1>5, <1>6, <1>7, <1>8, <1>9, <1>10, <1>11, <1>12, <1>13, <1>14
        DEF ExtensionsNext, Runs, WatchedPages

LEMMA CountedHands ==
  ASSUME ExtType
  PROVE  LET B == {h \in team : given[h] # Unseen}
         IN  IsFiniteSet(team) /\ Cardinality(team) \in Nat
             /\ IsFiniteSet(B) /\ Cardinality(B) \in Nat
<1>1. IsFiniteSet(team) /\ IsFiniteSet({h \in team : given[h] # Unseen})
  BY ExtensionsAssumption, FS_Subset DEF ExtType
<1> QED BY <1>1, FS_CardinalityType

LEMMA JoinKept == ExtType /\ JoinWaitsForAll /\ [ExtensionsNext]_extVars => JoinWaitsForAll'
<1> SUFFICES ASSUME ExtType, JoinWaitsForAll, [ExtensionsNext]_extVars, managed'
             PROVE  open' >= Len(tasks') + Cardinality({h \in team' : given'[h] # Unseen})
  BY DEF JoinWaitsForAll
<1> DEFINE B == {h \in team : given[h] # Unseen}
           C == {h \in team' : given'[h] # Unseen}
<1>0. managed' = managed /\ team' = team
  BY DEF ExtensionsNext, Runs, ProcessNow, ProcessAsync, WorkerLoops, GetTask, GetStop, Taken,
         GetEmpty, Processed, CallStop, PutStops, JoinReturns, Kill, LookUp, Remember, ReadFile,
         OpenFile, Dump, Log, manager, extVars
<1>1. /\ open >= Len(tasks) + Cardinality(B) /\ open \in Int /\ Len(tasks) \in Nat
      /\ IsFiniteSet(B) /\ Cardinality(B) \in Nat /\ Cardinality(team) \in Nat
  BY <1>0, CountedHands DEF JoinWaitsForAll, ExtType
<1>2. ASSUME UNCHANGED <<open, tasks, given>> PROVE open' >= Len(tasks') + Cardinality(C)
  BY <1>0, <1>1, <1>2
<1>3. ASSUME NEW p \in WatchedPages, ProcessAsync(p) PROVE open' >= Len(tasks') + Cardinality(C)
  <2>1. C = B /\ tasks' = Append(tasks, p) /\ open' = open + 1
    BY <1>0, <1>3 DEF ProcessAsync
  <2>2. Len(tasks') = Len(tasks) + 1
    BY <2>1 DEF ExtType
  <2> HIDE DEF B, C
  <2> QED BY <1>1, <2>1, <2>2
<1>4. ASSUME NEW h \in Hands, GetTask(h) PROVE open' >= Len(tasks') + Cardinality(C)
  <2>1. /\ h \in team /\ given[h] = Unseen /\ tasks # << >> /\ tasks' = Tail(tasks)
        /\ open' = open /\ given' = [given EXCEPT ![h] = Head(tasks)] /\ Head(tasks) # Stop
    BY <1>4 DEF GetTask, Taken, HandGoes, ExtType, Works
  <2>2. Head(tasks) \in WatchedPages /\ Len(tasks') = Len(tasks) - 1
    BY <2>1 DEF ExtType
  <2>3. C = B \cup {h} /\ h \notin B
    BY <1>0, <2>1, <2>2, MarksAssumption DEF WatchedPages, ExtType
  <2>4. Cardinality(C) = Cardinality(B) + 1
    BY <1>1, <2>3, FS_AddElement
  <2> HIDE DEF B, C
  <2> QED BY <1>1, <2>1, <2>2, <2>4
<1>5. ASSUME NEW h \in Hands, GetStop(h) PROVE open' >= Len(tasks') + Cardinality(C)
  <2>1. /\ C = B /\ tasks # << >> /\ tasks' = Tail(tasks) /\ open' = open
    BY <1>0, <1>5 DEF GetStop, Taken
  <2>2. Len(tasks') = Len(tasks) - 1
    BY <2>1 DEF ExtType
  <2> HIDE DEF B, C
  <2> QED BY <1>1, <2>1, <2>2
<1>6. ASSUME NEW h \in Hands, Processed(h) PROVE open' >= Len(tasks') + Cardinality(C)
  <2>1. /\ h \in team /\ given[h] # Unseen /\ tasks' = tasks
        /\ open' = open - 1 /\ given' = [given EXCEPT ![h] = Unseen]
    BY <1>0, <1>6 DEF Processed, HandGoes, ExtType, Works
  <2>2. C = B \ {h} /\ h \in B
    BY <1>0, <2>1 DEF ExtType
  <2>3. Cardinality(C) = Cardinality(B) - 1
    <3> HIDE DEF B, C
    <3> QED BY <1>1, <2>2, FS_RemoveElement
  <2> HIDE DEF B, C
  <2> QED BY <1>1, <2>1, <2>3
<1>7. ASSUME PutStops PROVE open' >= Len(tasks') + Cardinality(C)
  <2> DEFINE n == Cardinality(team)
             stops == [j \in 1 .. n |-> Stop]
  <2>1. C = B /\ tasks' = tasks \o stops /\ open' = open + n
    BY <1>0, <1>7 DEF PutStops
  <2>2. /\ stops \in Seq(WatchedPages \cup {Stop}) /\ Len(stops) = n
        /\ tasks \in Seq(WatchedPages \cup {Stop})
    BY <1>1 DEF ExtType
  <2>3. Len(tasks') = Len(tasks) + n
    <3> HIDE DEF stops, n
    <3>1. Len(tasks \o stops) = Len(tasks) + Len(stops)
      BY <2>2
    <3> QED BY <2>1, <2>2, <3>1
  <2> HIDE DEF B, C, n
  <2> QED BY <1>1, <2>1, <2>3 DEF n
<1>8. ASSUME Kill PROVE open' >= Len(tasks') + Cardinality(C)
  <2>1. C = {} /\ tasks' = << >> /\ open' = 0
    BY <1>0, <1>8 DEF Kill, ExtType
  <2> QED BY <2>1, FS_EmptySet
<1>9. \/ UNCHANGED <<open, tasks, given>>
      \/ \E p \in WatchedPages : ProcessAsync(p) \/ \E h \in Hands : ProcessNow(h, p)
      \/ \E h \in Hands : GetTask(h) \/ GetStop(h) \/ Processed(h)
      \/ PutStops \/ Kill
  BY DEF ExtensionsNext, Runs, WorkerLoops, GetEmpty, CallStop, JoinReturns, LookUp, Remember,
         ReadFile, OpenFile, Dump, Log, manager, extVars, WatchedPages
<1>10. ~ \E p \in WatchedPages, h \in Hands : ProcessNow(h, p)
  BY <1>0 DEF ProcessNow
<1> QED BY <1>2, <1>3, <1>4, <1>5, <1>6, <1>7, <1>8, <1>9, <1>10

LEMMA Greatest == ASSUME NEW n \in Nat, NEW T \in SUBSET (1 .. n), T # {}
                  PROVE  Max(T) \in T /\ \A k \in T : k <= Max(T)
<1> DEFINE R == OpToRel(<, Nat)
           D == {n - k : k \in T}
<1>1. D \in SUBSET Nat /\ D # {}
  <2>1. \A k \in T : n - k \in Nat
    OBVIOUS
  <2>2. PICK k \in T : TRUE
    OBVIOUS
  <2>3. n - k \in D
    BY <2>2
  <2> QED BY <2>1, <2>3
<1>5. IsWellFoundedOn(R, Nat)
  BY NatLessThanWellFounded
<1> HIDE DEF R
<1>2. PICK m \in D : \A k \in D : ~(<<k, m>> \in R)
  <2> HIDE DEF D
  <2> QED BY <1>1, <1>5, WFMin
<1>3. \A k \in D : ~(k < m)
  BY <1>1, <1>2 DEF R, OpToRel
<1>4. \E j \in T : \A k \in T : k <= j
  <2>1. PICK j \in T : m = n - j
    BY <1>2
  <2>2. ASSUME NEW k \in T PROVE k <= j
    <3>1. n - k \in D /\ ~(n - k < m)
      BY <1>3
    <3> QED BY <2>1, <3>1
  <2> QED BY <2>2
<1> QED BY <1>4 DEF Max

LinesOf(l, u) == {j \in 1 .. Len(l) : l[j].url = u}
Latest(l, u) == IF LinesOf(l, u) = {} THEN Unseen ELSE l[Max(LinesOf(l, u))].hash
Earlier(l, j) == {k \in 1 .. j - 1 : l[k].url = l[j].url}

LineRight(l, j) ==
  CASE l[j].change = "new" -> Earlier(l, j) = {}
    [] l[j].change = "modified" -> Earlier(l, j) # {} /\ l[Max(Earlier(l, j))].hash # l[j].hash
    [] OTHER -> Earlier(l, j) # {} /\ l[Max(Earlier(l, j))].hash = l[j].hash

\* m is l with the line x added.
Lengthened(l, x, m) ==
  /\ Len(l) \in Nat /\ Len(m) = Len(l) + 1 /\ m[Len(l) + 1] = x
  /\ \A j \in 1 .. Len(l) : m[j] = l[j]
  /\ \A j \in 1 .. Len(l) : LineRight(m, j) <=> LineRight(l, j)
  /\ Earlier(m, Len(l) + 1) = LinesOf(l, x.url)
  /\ \A u : Latest(m, u) = IF u = x.url THEN x.hash ELSE Latest(l, u)

LEMMA LineAdded ==
  ASSUME NEW S, NEW l \in Seq(S), NEW x \in S, NEW m, m = Append(l, x)
  PROVE  Lengthened(l, x, m)
<1> DEFINE n == Len(l)
<1>1. n \in Nat /\ Len(m) = n + 1 /\ m[n + 1] = x /\ \A j \in 1 .. n : m[j] = l[j]
  OBVIOUS
<1> HIDE DEF n
<1>2. ASSUME NEW j \in 1 .. n PROVE LineRight(m, j) <=> LineRight(l, j)
  <2>1. Earlier(m, j) = Earlier(l, j) /\ m[j] = l[j]
    BY <1>1 DEF Earlier
  <2>2. Earlier(l, j) # {} => m[Max(Earlier(l, j))] = l[Max(Earlier(l, j))]
    <3>1. ASSUME Earlier(l, j) # {} PROVE Max(Earlier(l, j)) \in 1 .. n
      <4>1. Earlier(l, j) \in SUBSET (1 .. j - 1) /\ j - 1 \in Nat
        BY <1>1 DEF Earlier
      <4>2. Max(Earlier(l, j)) \in 1 .. j - 1
        BY <3>1, <4>1, Greatest
      <4> QED BY <1>1, <4>2
    <3> QED BY <1>1, <3>1
  <2>3. CASE Earlier(l, j) = {}
    BY <2>1, <2>3 DEF LineRight
  <2>4. CASE Earlier(l, j) # {}
    BY <2>1, <2>2, <2>4 DEF LineRight
  <2> QED BY <2>3, <2>4
<1>3. Earlier(m, n + 1) = LinesOf(l, x.url)
  BY <1>1 DEF Earlier, LinesOf, n
<1>4. ASSUME NEW u PROVE Latest(m, u) = IF u = x.url THEN x.hash ELSE Latest(l, u)
  <2>1. CASE u = x.url
    <3>1. n + 1 \in LinesOf(m, u) /\ \A k \in LinesOf(m, u) : k \in 1 .. n + 1
      BY <1>1, <2>1 DEF LinesOf
    <3>2. LinesOf(m, u) \in SUBSET (1 .. n + 1)
      BY <3>1
    <3>3. Max(LinesOf(m, u)) \in 1 .. n + 1 /\ n + 1 <= Max(LinesOf(m, u))
      <4>1. n + 1 \in Nat /\ LinesOf(m, u) # {}
        BY <1>1, <3>1
      <4> QED BY <3>1, <3>2, <4>1, Greatest
    <3>4. Max(LinesOf(m, u)) = n + 1
      BY <1>1, <3>3
    <3> QED BY <1>1, <2>1, <3>1, <3>4 DEF Latest
  <2>2. CASE u # x.url
    <3>1. LinesOf(m, u) = LinesOf(l, u) /\ LinesOf(l, u) \in SUBSET (1 .. n)
      BY <1>1, <2>2 DEF LinesOf, n
    <3>2. LinesOf(l, u) # {} => Max(LinesOf(l, u)) \in 1 .. n
      BY <1>1, <3>1, Greatest
    <3> QED BY <1>1, <2>2, <3>1, <3>2 DEF Latest
  <2> QED BY <2>1, <2>2
<1> QED BY <1>1, <1>2, <1>3, <1>4 DEF n, Lengthened

LEMMA RightLines ==
  MonitorKeeps <=> (Cardinality(team) = 1 =>
    /\ (\A h \in team : given[h] = Unseen) => Loaded(file) = known
    /\ kills = 0 => \A j \in DOMAIN lines : LineRight(lines, j))
BY DEF MonitorKeeps, LineRight, Earlier

\* Where the one thread h of the team is, and what that says of what it has read and
\* written: b is what the cache said of its page before.
Cached(h) == IF hand[h] \in {"read", "open", "dump", "log"}
             THEN [known EXCEPT ![given[h].url] = before[h]] ELSE known

SoleMonitor(h) ==
  /\ hand[h] \notin {"read", "open", "dump"} => Loaded(file) = known
  /\ hand[h] = "remember" => before[h] = known[given[h].url]
  /\ hand[h] = "read" => known = [Loaded(file) EXCEPT ![given[h].url] = given[h].hash]
  /\ hand[h] \in {"open", "dump"} => known = [copy[h] EXCEPT ![given[h].url] = given[h].hash]
  /\ hand[h] = "dump" => file = Torn
  /\ hand[h] = "log" => known[given[h].url] = given[h].hash
  /\ kills = 0 => /\ \A j \in 1 .. Len(lines) : LineRight(lines, j)
                  /\ \A u \in Watched : Latest(lines, u) = Cached(h)[u]

MonitorInv == \A h \in Hands : team = {h} => SoleMonitor(h)

LEMMA MonitorStarts == ExtensionsInit => MonitorInv
<1> SUFFICES ASSUME ExtensionsInit, NEW h \in Hands PROVE SoleMonitor(h)
  BY DEF MonitorInv
<1>1. hand[h] \in {"idle", "top"} /\ file = NoStatus /\ known = NoStatus /\ lines = << >>
  BY DEF ExtensionsInit, Rest
<1>2. Loaded(NoStatus) = NoStatus
  BY DEF Loaded
<1>3. \A u \in Watched : Latest(lines, u) = Unseen
  BY <1>1 DEF Latest, LinesOf
<1> QED BY <1>1, <1>2, <1>3 DEF SoleMonitor, Cached, NoStatus

LEMMA MonitorAtRest == ExtType /\ MonitorInv => MonitorKeeps
<1> SUFFICES ASSUME ExtType, MonitorInv, Cardinality(team) = 1
             PROVE  /\ (\A h \in team : given[h] = Unseen) => Loaded(file) = known
                    /\ kills = 0 => \A j \in DOMAIN lines : LineRight(lines, j)
  BY RightLines
<1>1. PICK h : team = {h}
  BY CountedHands, FS_Singleton
<1>2. h \in Hands /\ SoleMonitor(h)
  BY <1>1 DEF ExtType, MonitorInv
<1>3. DOMAIN lines = 1 .. Len(lines)
  BY DEF ExtType
<1> QED BY <1>1, <1>2, <1>3 DEF SoleMonitor, ExtType, Works

LEMMA MonitorKept ==
  ExtType /\ ExtType' /\ MonitorInv /\ [ExtensionsNext]_extVars => MonitorInv'
<1> SUFFICES ASSUME ExtType, ExtType', MonitorInv, [ExtensionsNext]_extVars,
                    NEW h \in Hands, team' = {h}
             PROVE  SoleMonitor(h)'
  BY DEF MonitorInv
<1>0. managed' = managed /\ team' = team
  BY DEF ExtensionsNext, Runs, ProcessNow, ProcessAsync, WorkerLoops, GetTask, GetStop, Taken,
         GetEmpty, Processed, CallStop, PutStops, JoinReturns, Kill, LookUp, Remember, ReadFile,
         OpenFile, Dump, Log, manager, extVars
<1>1. SoleMonitor(h) /\ \A g \in team : g = h
  BY <1>0 DEF MonitorInv
<1>2. known \in Statuses /\ Loaded(file) \in Statuses /\ known' \in Statuses
      /\ copy[h] \in Statuses /\ Loaded(Torn) = NoStatus
  BY DEF ExtType, Loaded, NoStatus, Statuses
<1>3. Rest \notin {"look", "remember", "read", "open", "dump", "log", "done"}
  BY DEF Rest
<1>4. ASSUME UNCHANGED <<hand, given, before, copy, known, disk, kills>> PROVE SoleMonitor(h)'
  BY <1>1, <1>4 DEF SoleMonitor, Cached, disk, Loaded
\* To a place where the thread holds no page, or from there to its page.
<1>5. ASSUME UNCHANGED <<before, copy, known, disk, kills>>,
             hand[h] \notin {"remember", "read", "open", "dump", "log"},
             hand'[h] \notin {"remember", "read", "open", "dump", "log"}
      PROVE  SoleMonitor(h)'
  BY <1>1, <1>5 DEF SoleMonitor, Cached, disk, Loaded
<1>6. ASSUME NEW g \in Hands, Processed(g) PROVE SoleMonitor(h)'
  <2>1. g = h /\ hand[h] = "done" /\ hand'[h] = Rest
    BY <1>0, <1>1, <1>6 DEF Processed, HandGoes, ExtType
  <2> QED BY <1>1, <1>3, <1>6, <2>1 DEF Processed, SoleMonitor, Cached, disk, Loaded
<1>7. ASSUME Kill PROVE SoleMonitor(h)'
  <2>1. hand'[h] = Rest /\ known' = Loaded(file) /\ file' = file /\ kills' # 0
    BY <1>7 DEF Kill, disk, ExtType
  <2> QED BY <1>3, <2>1 DEF SoleMonitor, Loaded
<1>8. ASSUME NEW g \in Hands,
             LookUp(g) \/ Remember(g) \/ ReadFile(g) \/ OpenFile(g) \/ Dump(g) \/ Log(g)
      PROVE  SoleMonitor(h)'
  <2>1. g = h /\ h \in team
    BY <1>0, <1>1, <1>8 DEF LookUp, Remember, ReadFile, OpenFile, Dump, Log, HandGoes
  <2> DEFINE u == given[h].url
             s == given[h].hash
  <2>2. UNCHANGED <<given, kills>> /\ u \in Watched /\ s \in Hashes
        /\ hand[h] \in Works /\ before[h] \in Hashes \cup {Unseen}
    <3>1. hand[h] \in Works /\ UNCHANGED <<given, kills>>
      BY <1>8, <2>1 DEF LookUp, Remember, ReadFile, OpenFile, Dump, Log, HandGoes, Works, manager
    <3>2. given[h] \in WatchedPages
      BY <3>1 DEF ExtType
    <3> QED BY <3>1, <3>2 DEF WatchedPages, ExtType
  <2>3. u' = u /\ s' = s
    BY <2>2
  <2>4. CASE LookUp(h)
    <3>1. /\ hand[h] = "look" /\ hand'[h] = "remember" /\ before'[h] = known[u]
          /\ UNCHANGED <<copy, known, disk>>
      BY <2>4 DEF LookUp, HandGoes, ExtType
    <3> QED BY <1>1, <2>2, <2>3, <3>1 DEF SoleMonitor, Cached, disk, Loaded
  <2>5. CASE Remember(h)
    <3>1. /\ hand[h] = "remember" /\ hand'[h] = "read" /\ known' = [known EXCEPT ![u] = s]
          /\ UNCHANGED <<before, copy, disk>>
      BY <2>5 DEF Remember, HandGoes, ExtType
    <3>2. Loaded(file') = known /\ before[h] = known[u]
      BY <1>1, <3>1 DEF SoleMonitor, disk
    <3>3. Cached(h) = known /\ Cached(h)' = [known' EXCEPT ![u] = before[h]]
      BY <2>3, <3>1 DEF Cached
    <3>4. Cached(h)' = known
      <4>1. [[known EXCEPT ![u] = s] EXCEPT ![u] = known[u]] = known
        BY <1>2, <2>2 DEF Statuses
      <4> QED BY <3>1, <3>2, <3>3, <4>1
    <3> QED BY <1>1, <2>2, <2>3, <3>1, <3>2, <3>3, <3>4 DEF SoleMonitor, disk
  <2>6. CASE ReadFile(h)
    <3>1. /\ hand[h] = "read" /\ hand'[h] = "open" /\ copy'[h] = Loaded(file)
          /\ UNCHANGED <<before, known, disk>>
      BY <2>6 DEF ReadFile, HandGoes, ExtType
    <3>2. Cached(h)' = Cached(h)
      BY <2>2, <3>1 DEF Cached
    <3> QED BY <1>1, <2>2, <2>3, <3>1, <3>2 DEF SoleMonitor, disk
  <2>7. CASE OpenFile(h)
    <3>1. /\ hand[h] = "open" /\ hand'[h] = "dump" /\ file' = Torn
          /\ UNCHANGED <<before, known, copy, lines>>
      BY <2>7 DEF OpenFile, HandGoes, ExtType
    <3>2. Cached(h)' = Cached(h)
      BY <2>2, <3>1 DEF Cached
    <3> QED BY <1>1, <2>2, <2>3, <3>1, <3>2 DEF SoleMonitor
  <2>8. CASE Dump(h)
    <3>1. /\ hand[h] = "dump" /\ hand'[h] = "log" /\ UNCHANGED <<before, known, copy, lines>>
          /\ file = Torn
      BY <1>1, <2>8 DEF Dump, HandGoes, ExtType, SoleMonitor
    <3>2. file' = known
      BY <1>1, <2>8, <3>1 DEF Dump, SoleMonitor
    <3>3. known # Torn /\ known[u] = s
      <4>1. known = [copy[h] EXCEPT ![u] = s]
        BY <1>1, <3>1 DEF SoleMonitor
      <4> QED BY <1>2, <2>2, <4>1, MarksAssumption DEF Statuses
    <3>4. Cached(h)' = Cached(h)
      BY <2>2, <3>1 DEF Cached
    <3> QED BY <1>1, <2>2, <2>3, <3>1, <3>2, <3>3, <3>4 DEF SoleMonitor, Loaded
  <2>9. CASE Log(h)
    <3> DEFINE x == [url |-> u, hash |-> s, change |-> ChangeType(h)]
               S == [url : Watched, hash : Hashes, change : {"new", "modified", "unchanged"}]
    <3>1. /\ hand[h] = "log" /\ hand'[h] = "done" /\ UNCHANGED <<before, known, copy, file>>
          /\ lines' = Append(lines, x) /\ lines \in Seq(S)
      BY <2>9 DEF Log, HandGoes, ExtType
    <3>2. x \in S /\ x.url = u /\ x.hash = s /\ x.change = ChangeType(h)
      BY <2>2 DEF ChangeType
    <3> HIDE DEF x, S
    <3>3. /\ Len(lines) \in Nat /\ Len(lines') = Len(lines) + 1 /\ lines'[Len(lines) + 1] = x
          /\ \A j \in 1 .. Len(lines) : lines'[j] = lines[j]
          /\ \A j \in 1 .. Len(lines) : LineRight(lines', j) <=> LineRight(lines, j)
          /\ Earlier(lines', Len(lines) + 1) = LinesOf(lines, u)
          /\ \A v : Latest(lines', v) = IF v = u THEN s ELSE Latest(lines, v)
      <4>1. Lengthened(lines, x, lines')
        BY <3>1, <3>2, LineAdded
      <4> QED BY <3>2, <4>1 DEF Lengthened
    <3>4. Cached(h)' = known /\ known[u] = s /\ Cached(h) = [known EXCEPT ![u] = before[h]]
      BY <1>1, <3>1 DEF Cached, SoleMonitor
    <3>5. ASSUME kills = 0
          PROVE  /\ \A j \in 1 .. Len(lines') : LineRight(lines', j)
                 /\ \A v \in Watched : Latest(lines', v) = known[v]
      <4>1. /\ \A j \in 1 .. Len(lines) : LineRight(lines, j)
            /\ \A v \in Watched : Latest(lines, v) = Cached(h)[v]
        BY <1>1, <3>5 DEF SoleMonitor
      <4>2. Latest(lines, u) = before[h]
        BY <1>2, <2>2, <3>4, <4>1 DEF Statuses
      <4>3. LineRight(lines', Len(lines) + 1)
        <5>0. LinesOf(lines, u) # {} => Max(LinesOf(lines, u)) \in 1 .. Len(lines)
          <6>1. LinesOf(lines, u) \in SUBSET (1 .. Len(lines))
            BY DEF LinesOf
          <6> QED BY <3>3, <6>1, Greatest
        <5>1. CASE LinesOf(lines, u) = {}
          <6>1. before[h] = Unseen
            BY <4>2, <5>1 DEF Latest
          <6> QED BY <3>2, <3>3, <5>1, <6>1 DEF LineRight, ChangeType
        <5>2. CASE LinesOf(lines, u) # {}
          <6>1. before[h] = lines'[Max(LinesOf(lines, u))].hash
                /\ before[h] = lines[Max(LinesOf(lines, u))].hash
            BY <3>3, <4>2, <5>0, <5>2 DEF Latest
          <6>2. lines[Max(LinesOf(lines, u))] \in S
            BY <3>1, <5>0, <5>2
          <6>3. before[h] # Unseen
            BY <6>1, <6>2, MarksAssumption DEF S
          <6> QED BY <3>2, <3>3, <5>2, <6>1, <6>3 DEF LineRight, ChangeType
        <5> QED BY <5>1, <5>2
      <4>4. \A j \in 1 .. Len(lines') : LineRight(lines', j)
        BY <3>3, <4>1, <4>3
      <4>5. \A v \in Watched : Latest(lines', v) = known[v]
        BY <1>2, <2>2, <3>3, <3>4, <4>1 DEF Statuses
      <4> QED BY <4>4, <4>5
    <3>6. Loaded(file') = known'
      BY <1>1, <3>1 DEF SoleMonitor
    <3> QED BY <2>2, <3>1, <3>4, <3>5, <3>6 DEF SoleMonitor
  <2> QED BY <1>8, <2>1, <2>4, <2>5, <2>6, <2>7, <2>8, <2>9
<1>9. ASSUME NEW g \in Hands, GetTask(g) PROVE SoleMonitor(h)'
  <2>1. g = h /\ hand[h] = "get" /\ hand'[h] = "look"
        /\ UNCHANGED <<before, copy, known, disk, kills>>
    BY <1>0, <1>1, <1>9 DEF GetTask, Taken, HandGoes, ExtType
  <2> QED BY <1>5, <2>1
<1>10. ASSUME NEW g \in Hands, WorkerLoops(g) \/ GetStop(g) \/ GetEmpty(g) PROVE SoleMonitor(h)'
  <2>1. g = h /\ hand[h] \in {"top", "get"} /\ hand'[h] \in {"top", "get", "left"}
        /\ UNCHANGED <<before, copy, known, disk, kills>>
    BY <1>0, <1>1, <1>10 DEF WorkerLoops, GetStop, GetEmpty, Taken, HandGoes, ExtType, manager
  <2> QED BY <1>5, <2>1
<1>11. ASSUME NEW p \in WatchedPages, NEW g \in Hands, ProcessNow(g, p) PROVE SoleMonitor(h)'
  <2>1. g = h /\ hand[h] = "idle" /\ hand'[h] = "look"
        /\ UNCHANGED <<before, copy, known, disk, kills>>
    BY <1>0, <1>1, <1>11 DEF ProcessNow, HandGoes, ExtType
  <2> QED BY <1>5, <2>1
<1>12. ASSUME NEW p \in WatchedPages, ProcessAsync(p) PROVE SoleMonitor(h)'
  BY <1>4, <1>12 DEF ProcessAsync
<1>13. ASSUME CallStop \/ PutStops \/ JoinReturns PROVE SoleMonitor(h)'
  BY <1>4, <1>13 DEF CallStop, PutStops, JoinReturns
<1>14. CASE UNCHANGED extVars
  BY <1>4, <1>14 DEF extVars, manager
<1> QED BY <1>6, <1>7, <1>8, <1>9, <1>10, <1>11, <1>12, <1>13, <1>14
        DEF ExtensionsNext, Runs, WatchedPages

-----------------------------------------------------------------------------
(* The crawler *)

UrlItems == [url : Pages, depth : Nat]
Records == [url : Pages, depth : Nat, content : Nat]
Places == {"idle", "mark", "fetch", "save", "links", "add"}

CrawlType ==
  /\ site \in Site /\ finished \in Nat /\ crawled \in Nat
  /\ queue \subseteq UrlItems /\ pool \in Seq(UrlItems)
  /\ main = "test" => item \in UrlItems
  /\ at \in [Workers -> Places] /\ job \in [Workers -> UrlItems \cup {Nothing}]
  /\ page \in [Workers -> Nat \cup {Nothing}] /\ todo \in [Workers -> SUBSET Pages]
  /\ link \in [Workers -> Pages \cup {Nothing}]
  /\ history \in Seq(Records) /\ contents \subseteq Nat
  /\ \A w \in Workers : at[w] # "idle" => job[w] \in UrlItems
  /\ \A w \in Workers : at[w] = "save" => page[w] \in contents
  /\ \A w \in Workers : at[w] = "add" => link[w] \in Pages

LEMMA CrawlStarts == site \in Site /\ CrawlInit => CrawlType
<1> SUFFICES ASSUME site \in Site, CrawlInit PROVE CrawlType
  OBVIOUS
<1>1. site.seeds \in SUBSET Pages
  BY DEF Site
<1>2. queue \subseteq UrlItems
  BY <1>1 DEF CrawlInit, UrlItems
<1> QED BY <1>2 DEF CrawlInit, CrawlType, Places

LEMMA MainTyped ==
  CrawlType /\ (MainStep \/ AwaitRaises \/ StopCrawl \/ \E d0 \in recent : Elapse(d0))
    /\ UNCHANGED workVars => CrawlType'
<1> SUFFICES ASSUME CrawlType, MainStep \/ AwaitRaises \/ StopCrawl \/ \E d0 \in recent : Elapse(d0),
                    UNCHANGED workVars
             PROVE  CrawlType'
  OBVIOUS
<1>1. /\ queue' \subseteq UrlItems /\ pool' \in Seq(UrlItems) /\ finished' \in Nat
      /\ main' = "test" => item' \in UrlItems
  <2>1. CASE Get
    BY <2>1 DEF Get, MainGoes, CrawlType
  <2>2. CASE Submit
    BY <2>2 DEF Submit, MainGoes, CrawlType
  <2>3. CASE Loop \/ GetNone \/ Break \/ DropDeep \/ Skip \/ Leave \/ AwaitRaises
    BY <2>3 DEF Loop, GetNone, Break, DropDeep, Skip, Leave, AwaitRaises, MainGoes, CrawlType
  <2>4. CASE AwaitOne \/ CleanDone
    BY <2>4 DEF AwaitOne, CleanDone, MainGoes, CrawlType
  <2>5. CASE StopCrawl \/ \E d0 \in recent : Elapse(d0)
    BY <2>5 DEF StopCrawl, Elapse, CrawlType
  <2> QED BY <2>1, <2>2, <2>3, <2>4, <2>5 DEF MainStep
<1> QED BY <1>1 DEF CrawlType, workVars, sawVars

LEMMA WorkersTyped ==
  ASSUME CrawlType, NEW w \in Workers, WorkerRuns(w), UNCHANGED crawlOnly
  PROVE  CrawlType'
<1>0. UNCHANGED <<site, main, item>>
  BY DEF crawlOnly
<1>1. CASE Begin(w)
  <2>1. Head(pool) \in UrlItems /\ Tail(pool) \in Seq(UrlItems)
    BY <1>1 DEF Begin, CrawlType
  <2> QED BY <1>0, <1>1, <2>1 DEF Begin, CrawlType, sawVars, Places
<1>2. CASE Mark(w)
  BY <1>0, <1>2 DEF Mark, CrawlType, Places
<1>3. CASE FetchFails(w) \/ FetchCopy(w) \/ SaveFails(w) \/ Count(w)
  <2>1. Done(w) /\ crawled' \in Nat
    BY <1>3 DEF FetchFails, FetchCopy, SaveFails, Count, CrawlType
  <2> QED BY <1>0, <2>1 DEF Done, CrawlType, Places
<1>4. CASE FetchNew(w)
  <2>1. site.holds[job[w].url] \in SUBSET Nat
    BY <1>4 DEF FetchNew, CrawlType, Site, UrlItems
  <2> QED BY <1>0, <1>4, <2>1 DEF FetchNew, CrawlType, Places
<1>5. CASE SavePage(w)
  <2>1. /\ site.links[job[w].url] \in SUBSET Pages
        /\ [url |-> job[w].url, depth |-> job[w].depth, content |-> page[w]] \in Records
    BY <1>5 DEF SavePage, CrawlType, Site, UrlItems, Records
  <2> QED BY <1>0, <1>5, <2>1 DEF SavePage, CrawlType, Places
<1>6. ASSUME NEW l \in todo[w], Look(w, l) PROVE CrawlType'
  <2>1. l \in Pages
    BY DEF CrawlType
  <2> QED BY <1>0, <1>6, <2>1 DEF Look, CrawlType, Places, sawVars
<1>7. CASE AddLink(w)
  <2>1. link[w] \in Pages /\ job[w] \in UrlItems
    BY <1>7 DEF AddLink, CrawlType
  <2>2. [url |-> link[w], depth |-> job[w].depth + 1] \in UrlItems
    BY <2>1 DEF UrlItems
  <2> QED BY <1>0, <1>7, <2>2 DEF AddLink, CrawlType, Places, sawVars
<1> QED BY <1>1, <1>2, <1>3, <1>4, <1>5, <1>6, <1>7 DEF WorkerRuns

LEMMA CrawlTyped == CrawlType /\ [CrawlNext]_crawlVars => CrawlType'
<1>1. CrawlType /\ UNCHANGED crawlVars => CrawlType'
  BY DEF CrawlType, crawlVars, crawlOnly, workVars, sawVars
<1> QED BY <1>1, MainTyped, WorkersTyped DEF CrawlNext

\* The workers that have stored their page and not yet counted it.
Uncounted == {w \in Workers : at[w] \in {"links", "add"}}

ContentInv ==
  /\ \A j \in DOMAIN history : history[j].content \in contents
  /\ \A w \in Workers : at[w] = "save" =>
       /\ \A j \in DOMAIN history : history[j].content # page[w]
       /\ \A x \in Workers : at[x] = "save" /\ page[x] = page[w] => x = w
  /\ \A j, k \in DOMAIN history : history[j].content = history[k].content => j = k
  /\ crawled + Cardinality(Uncounted) = Len(history)
  /\ main = "ended" => ~Busy

LEMMA ContentsApart == CrawlType /\ ContentInv => EachContentOnce
<1> SUFFICES ASSUME CrawlType, ContentInv PROVE EachContentOnce
  OBVIOUS
<1>1. CASE main # "ended"
  BY <1>1 DEF ContentInv, EachContentOnce
<1>2. CASE main = "ended"
  <2>1. Uncounted = {}
    BY <1>2 DEF ContentInv, Busy, Uncounted
  <2>2. Cardinality(Uncounted) = 0
    BY <2>1, FS_EmptySet
  <2> QED BY <2>2 DEF ContentInv, EachContentOnce, CrawlType
<1> QED BY <1>1, <1>2

LEMMA ContentStarts == CrawlInit => ContentInv
<1> SUFFICES ASSUME CrawlInit PROVE ContentInv
  OBVIOUS
<1>1. Uncounted = {}
  BY DEF CrawlInit, Uncounted
<1>2. Cardinality(Uncounted) = 0
  BY <1>1, FS_EmptySet
<1> QED BY <1>2 DEF CrawlInit, ContentInv

LEMMA MainContent ==
  CrawlType /\ ContentInv /\ UNCHANGED workVars
    /\ (MainStep \/ AwaitRaises \/ StopCrawl \/ \E y \in recent : Elapse(y)) => ContentInv'
<1> SUFFICES ASSUME CrawlType, ContentInv, UNCHANGED workVars,
                    MainStep \/ AwaitRaises \/ StopCrawl \/ \E y \in recent : Elapse(y)
             PROVE  ContentInv'
  OBVIOUS
<1>1. UNCHANGED <<at, page, contents, history, crawled>>
  BY DEF workVars, sawVars
<1>2. Uncounted' = Uncounted
  BY <1>1 DEF Uncounted
<1>3. main' = "ended" => ~Busy'
  <2>1. CASE main = "ended"
    BY <1>1, <2>1 DEF ContentInv, Busy, MainStep, Loop, Get, GetNone, Break, AwaitOne, AwaitRaises,
         DropDeep, Skip, Submit, CleanDone, Leave, StopCrawl, Elapse, MainGoes
  <2>2. CASE main # "ended"
    BY <1>1, <2>2 DEF Busy, MainStep, Loop, Get, GetNone, Break, AwaitOne, AwaitRaises,
         DropDeep, Skip, Submit, CleanDone, Leave, StopCrawl, Elapse, MainGoes
  <2> QED BY <2>1, <2>2
<1> QED BY <1>1, <1>2, <1>3 DEF ContentInv

LEMMA WorkersBusy == ASSUME CrawlType, NEW w \in Workers, WorkerRuns(w) PROVE Busy
BY DEF Busy, WorkerRuns, Begin, Mark, FetchFails, FetchCopy, FetchNew, SaveFails, SavePage, Look,
       AddLink, Count

LEMMA WorkersContent ==
  ASSUME CrawlType, ContentInv, NEW w \in Workers, WorkerRuns(w), UNCHANGED crawlOnly
  PROVE  ContentInv'
<1>0. main' = main /\ main # "ended"
  BY WorkersBusy DEF crawlOnly, ContentInv
<1>1. IsFiniteSet(Uncounted) /\ Cardinality(Uncounted) \in Nat
  BY CrawlAssumption, FS_Subset, FS_CardinalityType DEF Uncounted
\* The worker holds no page before the step, or none after it, and stores none.
<1>2. ASSUME UNCHANGED <<history, page>>, \A x \in Workers : x # w => at'[x] = at[x],
             at'[w] # "save", contents \subseteq contents',
             crawled' + Cardinality(Uncounted') = Len(history)
      PROVE  ContentInv'
  BY <1>0, <1>2 DEF ContentInv
<1>3. CASE Begin(w) \/ Mark(w) \/ AddLink(w) \/ \E l \in todo[w] : Look(w, l)
  <2>1. /\ UNCHANGED <<history, page, contents, crawled>> /\ \A x \in Workers : x # w => at'[x] = at[x]
        /\ at[w] \in {"links", "add"} <=> at'[w] \in {"links", "add"}
        /\ at'[w] # "save"
    BY <1>3 DEF Begin, Mark, AddLink, Look, CrawlType, sawVars
  <2>2. Uncounted' = Uncounted
    BY <2>1 DEF Uncounted
  <2> QED BY <1>2, <2>1, <2>2 DEF ContentInv
<1>4. CASE FetchFails(w) \/ FetchCopy(w) \/ SaveFails(w)
  <2>1. /\ UNCHANGED <<history, contents, crawled>> /\ at' = [at EXCEPT ![w] = "idle"]
        /\ \A x \in Workers : x # w => page'[x] = page[x]
        /\ at[w] \notin {"links", "add"}
    BY <1>4 DEF FetchFails, FetchCopy, SaveFails, Done, CrawlType
  <2>2. Uncounted' = Uncounted
    BY <2>1 DEF Uncounted, CrawlType
  <2> QED BY <1>0, <2>1, <2>2 DEF ContentInv, CrawlType
<1>5. CASE Count(w)
  <2>1. /\ UNCHANGED <<history, contents>> /\ at' = [at EXCEPT ![w] = "idle"] /\ at[w] = "links"
        /\ crawled' = crawled + 1 /\ \A x \in Workers : x # w => page'[x] = page[x]
    BY <1>5 DEF Count, Done, CrawlType
  <2>2. Uncounted' = Uncounted \ {w} /\ w \in Uncounted
    BY <2>1 DEF Uncounted, CrawlType
  <2>3. Cardinality(Uncounted') = Cardinality(Uncounted) - 1
    BY <1>1, <2>2, FS_RemoveElement
  <2>4. crawled' + Cardinality(Uncounted') = Len(history)
    BY <1>1, <2>1, <2>3 DEF ContentInv, CrawlType
  <2> QED BY <1>0, <2>1, <2>4 DEF ContentInv, CrawlType
<1>6. CASE FetchNew(w)
  <2>1. PICK y \in site.holds[job[w].url] \ contents :
          page' = [page EXCEPT ![w] = y] /\ contents' = contents \cup {y}
    BY <1>6 DEF FetchNew
  <2>2. at[w] = "fetch" /\ at' = [at EXCEPT ![w] = "save"] /\ UNCHANGED <<history, crawled>>
    BY <1>6 DEF FetchNew
  <2>3. Uncounted' = Uncounted
    BY <2>2 DEF Uncounted, CrawlType
  <2>4. \A x \in Workers : at[x] = "save" => page[x] # y /\ page'[x] = page[x]
    BY <2>1, <2>2 DEF CrawlType
  <2>5. page'[w] = y /\ \A j \in DOMAIN history : history[j].content # y
    BY <2>1 DEF ContentInv, CrawlType
  <2>6. \A j \in DOMAIN history : history[j].content \in contents'
    BY <2>1 DEF ContentInv
  <2>7. \A x \in Workers : at'[x] = "save" <=> x = w \/ at[x] = "save"
    BY <2>2 DEF CrawlType
  <2>8. \A x \in Workers : at'[x] = "save" =>
          /\ \A j \in DOMAIN history : history[j].content # page'[x]
          /\ \A z \in Workers : at'[z] = "save" /\ page'[z] = page'[x] => z = x
    BY <2>4, <2>5, <2>7 DEF ContentInv
  <2> QED BY <1>0, <2>2, <2>3, <2>6, <2>8 DEF ContentInv
<1>7. CASE SavePage(w)
  <2> DEFINE r == [url |-> job[w].url, depth |-> job[w].depth, content |-> page[w]]
             n == Len(history)
  <2>1. /\ at[w] = "save" /\ at' = [at EXCEPT ![w] = "links"] /\ history' = Append(history, r)
        /\ UNCHANGED <<page, contents, crawled>>
    BY <1>7 DEF SavePage
  <2>2. r \in Records /\ r.content = page[w] /\ page[w] \in contents
    BY <2>1 DEF CrawlType, UrlItems, Records
  <2>3. /\ n \in Nat /\ DOMAIN history = 1 .. n /\ DOMAIN history' = 1 .. n + 1 /\ Len(history') = n + 1
        /\ history'[n + 1] = r /\ \A j \in 1 .. n : history'[j] = history[j]
    <3> HIDE DEF r
    <3> QED BY <2>1, <2>2 DEF CrawlType
  <2> HIDE DEF r, n
  <2>4. Uncounted' = Uncounted \cup {w} /\ w \notin Uncounted
    BY <2>1 DEF Uncounted, CrawlType
  <2>5. Cardinality(Uncounted') = Cardinality(Uncounted) + 1
    BY <1>1, <2>4, FS_AddElement
  <2>6. crawled' + Cardinality(Uncounted') = Len(history')
    BY <1>1, <2>1, <2>3, <2>5 DEF ContentInv, CrawlType, n
  <2>7. \A j \in DOMAIN history : history[j].content # page[w]
    BY <2>1 DEF ContentInv
  <2>8. \A j \in DOMAIN history' : j \in DOMAIN history \/ (j = n + 1 /\ j \notin DOMAIN history)
    BY <2>3
  <2>9. \A j \in DOMAIN history' : history'[j].content \in contents'
    BY <2>1, <2>2, <2>3, <2>8 DEF ContentInv
  <2>10. \A j, k \in DOMAIN history' : history'[j].content = history'[k].content => j = k
    BY <2>2, <2>3, <2>7, <2>8 DEF ContentInv
  <2>11. \A x \in Workers : at'[x] = "save" => at[x] = "save" /\ x # w
    BY <2>1 DEF CrawlType
  <2>12. \A x \in Workers : at'[x] = "save" =>
           /\ \A j \in DOMAIN history' : history'[j].content # page'[x]
           /\ \A z \in Workers : at'[z] = "save" /\ page'[z] = page'[x] => z = x
    BY <2>1, <2>2, <2>3, <2>8, <2>11 DEF ContentInv
  <2> QED BY <1>0, <2>6, <2>9, <2>10, <2>12 DEF ContentInv
<1> QED BY <1>3, <1>4, <1>5, <1>6, <1>7 DEF WorkerRuns

LEMMA ContentKept == CrawlType /\ ContentInv /\ [CrawlNext]_crawlVars => ContentInv'
<1>1. ContentInv /\ UNCHANGED crawlVars => ContentInv'
  BY DEF ContentInv, Uncounted, Busy, crawlVars, crawlOnly, workVars, sawVars
<1> QED BY <1>1, MainContent, WorkersContent DEF CrawlNext

\* Where a URL is that the crawl has found and has not visited yet.
Pending(u) ==
  \/ Seen(u) \/ u \in tooDeep
  \/ \E x \in queue : x.url = u
  \/ main = "test" /\ item.url = u
  \/ \E k \in 1 .. Len(pool) : pool[k].url = u
  \/ \E w \in Workers : at[w] = "mark" /\ job[w].url = u
  \/ \E w \in Workers : at[w] \in {"links", "add"} /\ u \in todo[w]
  \/ \E w \in Workers : at[w] = "add" /\ link[w] = u

Found(u) == u \in site.seeds \/ \E j \in DOMAIN history : u \in site.links[history[j].url]

FoundInv == \A u \in site.passing : Found(u) => Pending(u)

\* Whether there is still something to wait for.
EndInv ==
  /\ main = "none" /\ site.patient => queue = {} \/ Busy \/ finished > 0
  /\ main \in {"drain", "ended"} /\ running /\ crawled < MaxPages /\ site.patient
       => queue = {} /\ ~Busy

LEMMA NoneMissed == CrawlType /\ FoundInv /\ EndInv => NothingMissed
<1> SUFFICES ASSUME CrawlType, FoundInv, EndInv,
                    main = "ended", running, crawled < MaxPages, site.patient,
                    NEW u \in site.passing, Found(u)
             PROVE  Seen(u) \/ u \in tooDeep
  BY DEF NothingMissed, Found
<1>1. queue = {} /\ pool = << >> /\ \A w \in Workers : at[w] = "idle"
  BY DEF EndInv, Busy
<1>2. Pending(u)
  BY DEF FoundInv
<1> QED BY <1>1, <1>2 DEF Pending

LEMMA FoundStarts == site \in Site /\ CrawlInit => FoundInv /\ EndInv
<1> SUFFICES ASSUME CrawlInit PROVE FoundInv /\ EndInv
  OBVIOUS
<1>1. ASSUME NEW u \in site.passing, Found(u) PROVE Pending(u)
  <2>1. u \in site.seeds
    BY <1>1 DEF Found, CrawlInit
  <2>2. [url |-> u, depth |-> 0] \in queue
    BY <2>1 DEF CrawlInit
  <2> QED BY <2>2 DEF Pending
<1> QED BY <1>1 DEF FoundInv, EndInv, CrawlInit

LEMMA MainFound ==
  CrawlType /\ FoundInv /\ UNCHANGED workVars
    /\ (MainStep \/ AwaitRaises \/ StopCrawl \/ \E y \in recent : Elapse(y)) => FoundInv'
<1> SUFFICES ASSUME CrawlType, FoundInv, UNCHANGED workVars,
                    MainStep \/ AwaitRaises \/ StopCrawl \/ \E y \in recent : Elapse(y),
                    NEW u \in site'.passing, Found(u)'
             PROVE  Pending(u)'
  BY DEF FoundInv
<1>1. UNCHANGED <<site, at, job, todo, link, visited, history>>
  BY DEF workVars, sawVars
<1>2. Pending(u) /\ (Seen(u)' <=> Seen(u))
  BY <1>1 DEF FoundInv, Found, Seen
<1>3. CASE Get
  <2>1. PICK x \in queue : queue' = queue \ {x} /\ item' = x
    BY <1>3 DEF Get
  <2>2. main = "get" /\ main' = "test" /\ UNCHANGED <<pool, tooDeep>>
    BY <1>3 DEF Get, MainGoes
  <2> QED BY <1>1, <1>2, <2>1, <2>2 DEF Pending
<1>4. CASE DropDeep
  BY <1>1, <1>2, <1>4 DEF DropDeep, MainGoes, Pending
<1>5. CASE Skip
  BY <1>1, <1>2, <1>5 DEF Skip, MainGoes, Pending
<1>6. CASE Submit
  <2>1. /\ main = "test" /\ main' = "clean" /\ item \in UrlItems /\ pool' = Append(pool, item)
        /\ UNCHANGED <<queue, tooDeep>> /\ pool \in Seq(UrlItems)
    BY <1>6 DEF Submit, MainGoes, CrawlType
  <2>2. /\ Len(pool') = Len(pool) + 1 /\ pool'[Len(pool) + 1] = item /\ Len(pool) \in Nat
        /\ \A k \in 1 .. Len(pool) : pool'[k] = pool[k]
    BY <2>1
  <2> QED BY <1>1, <1>2, <2>1, <2>2 DEF Pending
<1>7. CASE Loop \/ GetNone \/ Break \/ Leave \/ AwaitRaises
  BY <1>1, <1>2, <1>7 DEF Loop, GetNone, Break, Leave, AwaitRaises, MainGoes, Pending
<1>8. CASE AwaitOne \/ CleanDone \/ StopCrawl \/ \E y \in recent : Elapse(y)
  BY <1>1, <1>2, <1>8 DEF AwaitOne, CleanDone, StopCrawl, Elapse, MainGoes, Pending
<1> QED BY <1>3, <1>4, <1>5, <1>6, <1>7, <1>8 DEF MainStep

LEMMA WorkersFound ==
  ASSUME CrawlType, FoundInv, NEW w \in Workers, WorkerRuns(w), UNCHANGED crawlOnly
  PROVE  FoundInv'
<1> SUFFICES ASSUME NEW u \in site'.passing, Found(u)' PROVE Pending(u)'
  BY DEF FoundInv
<1>0. UNCHANGED <<site, main, item, tooDeep>>
  BY DEF crawlOnly
<1>1. Found(u) => Pending(u)
  BY <1>0 DEF FoundInv
<1>2. CASE Begin(w)
  <2>1. /\ at[w] = "idle" /\ at' = [at EXCEPT ![w] = "mark"] /\ pool # << >>
        /\ job' = [job EXCEPT ![w] = Head(pool)] /\ pool' = Tail(pool)
        /\ UNCHANGED <<queue, todo, link, history, visited>>
    BY <1>2 DEF Begin, sawVars
  <2>2. /\ Len(pool) \in Nat /\ Len(pool') = Len(pool) - 1 /\ Head(pool) = pool[1]
        /\ \A k \in 2 .. Len(pool) : k - 1 \in 1 .. Len(pool') /\ pool'[k - 1] = pool[k]
    BY <2>1 DEF CrawlType
  <2>3. Pending(u)
    BY <1>0, <1>1, <2>1 DEF Found
  <2>4. ASSUME NEW k \in 1 .. Len(pool), pool[k].url = u PROVE Pending(u)'
    <3>1. CASE k = 1
      <4>1. at'[w] = "mark" /\ job'[w].url = u
        BY <2>1, <2>2, <2>4, <3>1 DEF CrawlType
      <4> QED BY <4>1 DEF Pending
    <3>2. CASE k # 1
      <4>1. k - 1 \in 1 .. Len(pool') /\ pool'[k - 1].url = u
        BY <2>2, <2>4, <3>2
      <4> QED BY <4>1 DEF Pending
    <3> QED BY <3>1, <3>2
  <2>5. \A x \in Workers : at[x] # "idle" => at'[x] = at[x] /\ job'[x] = job[x]
    BY <2>1 DEF CrawlType
  <2> QED BY <1>0, <2>1, <2>3, <2>4, <2>5 DEF Pending, Seen
<1>3. CASE Mark(w)
  <2>1. /\ at[w] = "mark" /\ at' = [at EXCEPT ![w] = "fetch"]
        /\ visited' = visited \cup {site.canon[job[w].url]}
        /\ UNCHANGED <<queue, pool, job, todo, link, history>>
    BY <1>3 DEF Mark
  <2>2. Pending(u)
    BY <1>0, <1>1, <2>1 DEF Found
  <2> QED BY <1>0, <2>1, <2>2 DEF Pending, Seen, CrawlType
<1>4. CASE FetchFails(w) \/ FetchCopy(w) \/ SaveFails(w) \/ Count(w)
  <2>1. /\ at' = [at EXCEPT ![w] = "idle"] /\ at[w] \in {"fetch", "save", "links"}
        /\ at[w] = "links" => todo[w] = {} /\ \A x \in Workers : x # w => job'[x] = job[x]
        /\ UNCHANGED <<queue, pool, todo, link, history, visited>>
    BY <1>4 DEF FetchFails, FetchCopy, SaveFails, Count, Done, CrawlType
  <2>2. Pending(u)
    BY <1>0, <1>1, <2>1 DEF Found
  <2>3. \A x \in Workers : x # w => job'[x] = job[x]
    BY <1>4 DEF FetchFails, FetchCopy, SaveFails, Count, Done, CrawlType
  <2> QED BY <1>0, <2>1, <2>2, <2>3 DEF Pending, Seen, CrawlType
<1>5. CASE FetchNew(w)
  <2>1. /\ at' = [at EXCEPT ![w] = "save"] /\ at[w] = "fetch"
        /\ UNCHANGED <<queue, pool, job, todo, link, history, visited>>
    BY <1>5 DEF FetchNew
  <2>2. Pending(u)
    BY <1>0, <1>1, <2>1 DEF Found
  <2> QED BY <1>0, <2>1, <2>2 DEF Pending, Seen, CrawlType
<1>6. CASE SavePage(w)
  <2> DEFINE r == [url |-> job[w].url, depth |-> job[w].depth, content |-> page[w]]
             n == Len(history)
  <2>1. /\ at[w] = "save" /\ at' = [at EXCEPT ![w] = "links"] /\ history' = Append(history, r)
        /\ todo' = [todo EXCEPT ![w] = site.links[job[w].url]]
        /\ UNCHANGED <<queue, pool, job, link, visited>>
    BY <1>6 DEF SavePage
  <2>2. r \in Records /\ r.url = job[w].url
    BY <2>1 DEF CrawlType, UrlItems, Records
  <2>3. /\ DOMAIN history = 1 .. n /\ DOMAIN history' = 1 .. n + 1 /\ n \in Nat
        /\ history'[n + 1] = r /\ \A j \in 1 .. n : history'[j] = history[j]
    <3> HIDE DEF r
    <3> QED BY <2>1, <2>2 DEF CrawlType
  <2> HIDE DEF r, n
  <2>4. at'[w] = "links" /\ todo'[w] = site.links[job[w].url]
    BY <2>1 DEF CrawlType
  <2>5. Found(u) \/ u \in todo'[w]
    BY <1>0, <2>2, <2>3, <2>4 DEF Found
  <2>6. CASE u \in todo'[w]
    BY <2>4, <2>6 DEF Pending
  <2>7. CASE Found(u)
    <3>1. Pending(u)
      BY <1>1, <2>7
    <3>2. \A x \in Workers : x # w => at'[x] = at[x] /\ todo'[x] = todo[x]
      BY <2>1 DEF CrawlType
    <3> QED BY <1>0, <2>1, <3>1, <3>2 DEF Pending, Seen
  <2> QED BY <2>5, <2>6, <2>7
<1>7. ASSUME NEW l \in todo[w], Look(w, l) PROVE Pending(u)'
  <2>1. /\ at[w] = "links" /\ todo' = [todo EXCEPT ![w] = @ \ {l}]
        /\ UNCHANGED <<queue, pool, job, history, visited>>
        /\ \A x \in Workers : x # w => at'[x] = at[x] /\ link'[x] = link[x] /\ todo'[x] = todo[x]
        /\ at'[w] \in {"links", "add"} /\ todo'[w] = todo[w] \ {l}
    BY <1>7 DEF Look, sawVars, CrawlType
  <2>2. Pending(u)
    BY <1>0, <1>1, <2>1 DEF Found
  <2>3. l = u => Seen(u) \/ (at'[w] = "add" /\ link'[w] = u)
    BY <1>0, <1>7 DEF Look, CrawlType
  <2>4. Seen(u)' <=> Seen(u)
    BY <1>0, <2>1 DEF Seen
  <2>5. CASE u \in todo[w]
    <3>1. CASE u = l
      BY <2>3, <2>4, <3>1 DEF Pending
    <3>2. CASE u # l
      BY <2>1, <2>5, <3>2 DEF Pending
    <3> QED BY <3>1, <3>2
  <2>6. CASE u \notin todo[w]
    BY <1>0, <2>1, <2>2, <2>4, <2>6 DEF Pending
  <2> QED BY <2>5, <2>6
<1>8. CASE AddLink(w)
  <2>1. /\ at[w] = "add" /\ at' = [at EXCEPT ![w] = "links"]
        /\ UNCHANGED <<pool, job, todo, history, visited>>
        /\ queue \subseteq queue' /\ \A x \in Workers : x # w => at'[x] = at[x] /\ link'[x] = link[x]
        /\ at'[w] = "links"
    BY <1>8 DEF AddLink, sawVars, CrawlType
  <2>2. Pending(u)
    BY <1>0, <1>1, <2>1 DEF Found
  <2>3. link[w] = u => \E x \in queue' : x.url = u
    <3>1. CASE link[w] \in {x.url : x \in queue}
      BY <1>8, <3>1 DEF AddLink
    <3>2. CASE link[w] \notin {x.url : x \in queue}
      <4> DEFINE y == [url |-> link[w], depth |-> job[w].depth + 1]
      <4>1. y \in queue' /\ y.url = link[w]
        BY <1>8, <3>2 DEF AddLink
      <4> QED BY <4>1
    <3> QED BY <3>1, <3>2
  <2> QED BY <1>0, <2>1, <2>2, <2>3 DEF Pending, Seen
<1> QED BY <1>2, <1>3, <1>4, <1>5, <1>6, <1>7, <1>8 DEF WorkerRuns

LEMMA FoundKept == CrawlType /\ FoundInv /\ [CrawlNext]_crawlVars => FoundInv'
<1>1. FoundInv /\ UNCHANGED crawlVars => FoundInv'
  BY DEF FoundInv, Found, Pending, Seen, crawlVars, crawlOnly, workVars, sawVars
<1> QED BY <1>1, MainFound, WorkersFound DEF CrawlNext

LEMMA EndKept == CrawlType /\ CrawlType' /\ EndInv /\ [CrawlNext]_crawlVars => EndInv'
<1> SUFFICES ASSUME CrawlType, CrawlType', EndInv, [CrawlNext]_crawlVars PROVE EndInv'
  OBVIOUS
<1>1. ASSUME NEW w \in Workers, WorkerRuns(w), UNCHANGED crawlOnly PROVE EndInv'
  <2>1. Busy
    BY <1>1, WorkersBusy
  <2>2. Busy' \/ finished' > 0
    <3>1. CASE Begin(w) \/ Mark(w) \/ FetchNew(w) \/ SavePage(w) \/ AddLink(w) \/ \E l \in todo[w] : Look(w, l)
      BY <3>1 DEF Begin, Mark, FetchNew, SavePage, AddLink, Look, Busy, CrawlType
    <3>2. CASE FetchFails(w) \/ FetchCopy(w) \/ SaveFails(w) \/ Count(w)
      BY <3>2 DEF FetchFails, FetchCopy, SaveFails, Count, Done, CrawlType
    <3> QED BY <1>1, <3>1, <3>2 DEF WorkerRuns
  <2>3. crawled' \in {crawled, crawled + 1}
    BY <1>1 DEF WorkerRuns, Begin, Mark, FetchFails, FetchCopy, FetchNew, SaveFails, SavePage, Look,
       AddLink, Count, sawVars
  <2>4. UNCHANGED <<site, main, running>>
    BY <1>1 DEF crawlOnly
  <2>5. crawled' < MaxPages => crawled < MaxPages
    BY <2>3, CrawlAssumption DEF CrawlType
  <2> QED BY <2>1, <2>2, <2>4, <2>5 DEF EndInv
<1>2. ASSUME UNCHANGED workVars,
             MainStep \/ AwaitRaises \/ StopCrawl \/ \E y \in recent : Elapse(y)
      PROVE  EndInv'
  <2>1. UNCHANGED <<site, at, crawled>>
    BY <1>2 DEF workVars, sawVars
  <2>2. CASE Loop \/ Get \/ DropDeep \/ Skip \/ Submit \/ CleanDone \/ AwaitOne \/ AwaitRaises
    BY <2>1, <2>2 DEF Loop, Get, DropDeep, Skip, Submit, CleanDone, AwaitOne, AwaitRaises, MainGoes, EndInv
  <2>3. CASE GetNone
    BY <2>1, <2>3 DEF GetNone, MainGoes, EndInv
  <2>4. CASE Break
    BY <2>1, <2>4 DEF Break, NoFutures, MainGoes, EndInv, Busy, CrawlType
  <2>5. CASE Leave
    BY <2>1, <2>5 DEF Leave, MainGoes, EndInv, Busy
  <2>6. CASE StopCrawl
    BY <2>1, <2>6 DEF StopCrawl, EndInv, Busy
  <2>7. CASE \E y \in recent : Elapse(y)
    BY <2>1, <2>7 DEF Elapse, EndInv, Busy
  <2> QED BY <1>2, <2>2, <2>3, <2>4, <2>5, <2>6, <2>7 DEF MainStep
<1>3. CASE UNCHANGED crawlVars
  BY <1>3 DEF crawlVars, crawlOnly, workVars, sawVars, EndInv, Busy
<1> QED BY <1>1, <1>2, <1>3 DEF CrawlNext

-----------------------------------------------------------------------------
(* The services side by side *)

LEMMA SitesTyped == Sites \subseteq Site
<1>1. ASSUME NEW S, NEW y1 \in S, NEW y2 \in S, NEW y3 \in S, NEW y4 \in S
      PROVE  Web(y1, y2, y3, y4) \in [Pages -> S]
  <2>1. ASSUME NEW p \in Pages
        PROVE  (CASE p = a -> y1 [] p = b -> y2 [] p = c -> y3 [] p = d -> y4) \in S
    <3>1. p \in {a, b, c, d}
      BY WebAssumption
    <3> QED BY <3>1
  <2> QED BY <2>1 DEF Web
<1>2. a \in Pages /\ b \in Pages /\ c \in Pages /\ d \in Pages
  BY WebAssumption
<1> HIDE DEF Web
<1>3. ASSUME NEW S1 \in SUBSET Pages, NEW S2 \in SUBSET Pages, NEW S3 \in SUBSET Pages,
             NEW S4 \in SUBSET Pages
      PROVE  Web(S1, S2, S3, S4) \in [Pages -> SUBSET Pages]
  BY <1>1
<1>4. ASSUME NEW S1 \in SUBSET Nat, NEW S2 \in SUBSET Nat, NEW S3 \in SUBSET Nat,
             NEW S4 \in SUBSET Nat
      PROVE  Web(S1, S2, S3, S4) \in [Pages -> SUBSET Nat]
  BY <1>1
<1>5. /\ Web({b, c}, {d}, {}, {c}) \in [Pages -> SUBSET Pages]
      /\ Web({c}, {d}, {a}, {b}) \in [Pages -> SUBSET Pages]
      /\ Web({b, c}, {a}, {}, {}) \in [Pages -> SUBSET Pages]
  BY <1>2, <1>3
<1>6. /\ Web({1}, {2}, {3}, {4}) \in [Pages -> SUBSET Nat]
      /\ Web({1, 2}, {2}, {3}, {3}) \in [Pages -> SUBSET Nat]
  <2>1. {1} \in SUBSET Nat /\ {2} \in SUBSET Nat /\ {3} \in SUBSET Nat /\ {4} \in SUBSET Nat
        /\ {1, 2} \in SUBSET Nat
    OBVIOUS
  <2> QED BY <1>4, <2>1
<1>7. /\ Web(a, b, c, d) \in [Pages -> Pages] /\ Web(a, b, c, c) \in [Pages -> Pages]
      /\ Web(1, 1, 2, 2) \in [Pages -> Nat] /\ Web(1, 1, 1, 1) \in [Pages -> Nat]
  BY <1>1, <1>2
<1>8. /\ {a} \in SUBSET Pages /\ {a, b} \in SUBSET Pages /\ {a, d} \in SUBSET Pages
      /\ Pages \in SUBSET Pages
  BY <1>2
<1>9. ASSUME NEW s \in Sites PROVE s \in Site
  <2>1. CASE s = [links |-> Web({b, c}, {d}, {}, {c}), holds |-> Web({1}, {2}, {3}, {4}),
                  canon |-> Web(a, b, c, d), domain |-> Web(1, 1, 2, 2),
                  passing |-> Pages, seeds |-> {a}, patient |-> TRUE]
    BY <1>5, <1>6, <1>7, <1>8, <2>1 DEF Site
  <2>2. CASE s = [links |-> Web({c}, {d}, {a}, {b}), holds |-> Web({1, 2}, {2}, {3}, {3}),
                  canon |-> Web(a, b, c, c), domain |-> Web(1, 1, 1, 1),
                  passing |-> Pages, seeds |-> {a, b}, patient |-> TRUE]
    BY <1>5, <1>6, <1>7, <1>8, <2>2 DEF Site
  <2>3. CASE s = [links |-> Web({b, c}, {a}, {}, {}), holds |-> Web({1}, {2}, {3}, {4}),
                  canon |-> Web(a, b, c, d), domain |-> Web(1, 1, 1, 1),
                  passing |-> {a, b}, seeds |-> {a, d}, patient |-> FALSE]
    BY <1>5, <1>6, <1>7, <1>8, <2>3 DEF Site
  <2> QED BY <2>1, <2>2, <2>3 DEF Sites
<1> QED BY <1>9

CrawlInv == CrawlType /\ ContentInv /\ FoundInv /\ EndInv

LEMMA CrawlKept == CrawlInv /\ [CrawlNext]_crawlVars => CrawlInv'
BY CrawlTyped, ContentKept, FoundKept, EndKept DEF CrawlInv

ExtensionsInv == ExtType /\ JoinWaitsForAll /\ MonitorInv

LEMMA ExtensionsKept == ExtensionsInv /\ [ExtensionsNext]_extVars => ExtensionsInv'
BY ExtTyped, JoinKept, MonitorKept DEF ExtensionsInv

LEMMA ExtensionsStart == ExtensionsInit => ExtensionsInv
<1> SUFFICES ASSUME ExtensionsInit PROVE JoinWaitsForAll
  BY ExtStarts, MonitorStarts DEF ExtensionsInv
<1>1. {h \in team : given[h] # Unseen} = {}
  BY ExtStarts DEF ExtensionsInit, ExtType
<1>2. Cardinality({h \in team : given[h] # Unseen}) = 0
  BY <1>1, FS_EmptySet
<1> QED BY <1>2 DEF ExtensionsInit, JoinWaitsForAll

LEMMA StepsOfParts ==
  [Next]_vars => /\ [ShortenerNext]_shortenerVars /\ [CrawlNext]_crawlVars
                 /\ [ExtensionsNext]_extVars
BY DEF Next, ShortenerPart, CrawlerPart, ExtensionsPart, vars

\* However the pages of a site change while they are crawled, by however many workers,
\* no content is stored twice, and a crawl that finds no more URLs has missed none.
THEOREM PagesStoredOnce == Spec => []EachPageOnce
<1>1. Init => CrawlInv
  BY SitesTyped, CrawlStarts, ContentStarts, FoundStarts DEF Init, CrawlInv
<1>2. CrawlInv /\ [Next]_vars => CrawlInv'
  BY StepsOfParts, CrawlKept
<1>3. CrawlInv => EachPageOnce
  BY ContentsApart, NoneMissed DEF CrawlInv, EachPageOnce
<1> QED BY <1>1, <1>2, <1>3, PTL DEF Spec

\* The same of a crawl of any site, on its own.
THEOREM CrawlsOnce ==
  site \in Site /\ CrawlInit /\ [][CrawlNext]_crawlVars => [](EachContentOnce /\ NothingMissed)
<1>1. site \in Site /\ CrawlInit => CrawlInv
  BY CrawlStarts, ContentStarts, FoundStarts DEF CrawlInv
<1>2. CrawlInv => EachContentOnce /\ NothingMissed
  BY ContentsApart, NoneMissed DEF CrawlInv
<1> QED BY <1>1, <1>2, CrawlKept, PTL

\* What Shorten has returned for a URL resolves to it ever after, for any number of URLs
\* and keys and any number of callers, if hashes collide only for a caller on its own.
THEOREM ShortenedResolve == OneCollides => (Spec => []AnswersResolve)
<1> SUFFICES ASSUME OneCollides PROVE Spec => []AnswersResolve
  OBVIOUS
<1>1. Init => ShortenerInv
  BY ShortenerStarts DEF Init
<1>2. ShortenerInv /\ [Next]_vars => ShortenerInv'
  BY StepsOfParts, ShortenerKept
<1>3. ShortenerInv => AnswersResolve
  BY DEF ShortenerInv
<1> QED BY <1>1, <1>2, <1>3, PTL DEF Spec

\* Whatever the shortener does, the monitor's file is what its cache says between the
\* pages of its one thread, kills included, and the manager's queue counts all that
\* stop waits for, with any number of workers.
THEOREM MonitorAndQueueKept == Spec => [](MonitorKeeps /\ JoinWaitsForAll)
<1>1. Init => ExtensionsInv
  BY ExtensionsStart DEF Init
<1>2. ExtensionsInv /\ [Next]_vars => ExtensionsInv'
  BY StepsOfParts, ExtensionsKept
<1>3. ExtensionsInv => MonitorKeeps /\ JoinWaitsForAll
  BY MonitorAtRest DEF ExtensionsInv
<1> QED BY <1>1, <1>2, <1>3, PTL DEF Spec

\* The two maps stay inverse to each other, and ErrMaxRetries means what it says.
THEOREM StoredAsMeant == OneCollides => (Spec => []StorageKept)
<1> SUFFICES ASSUME OneCollides PROVE Spec => []StorageKept
  OBVIOUS
<1>1. Init => ShortenerInv
  BY ShortenerStarts DEF Init
<1>2. ShortenerInv /\ [Next]_vars => ShortenerInv'
  BY StepsOfParts, ShortenerKept
<1>3. ShortenerInv => MapsAgree /\ FailsOnlyWhenAllTaken
  BY DEF ShortenerInv, Alone, Apart, FailsOnlyWhenAllTaken
<1>4. Spec => [](MapsAgree /\ FailsOnlyWhenAllTaken)
  BY <1>1, <1>2, <1>3, PTL DEF Spec
<1>5. MapsAgree /\ FailsOnlyWhenAllTaken /\ MonitorKeeps /\ JoinWaitsForAll => StorageKept
  BY DEF StorageKept
<1> QED BY <1>4, <1>5, MonitorAndQueueKept, PTL
=============================================================================
