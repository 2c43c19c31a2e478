------------------------- MODULE Containers_proofs -------------------------
(***************************************************************************)
(* What is proved of the containers and the caches, for any capacity and   *)
(* any values.                                                             *)
(***************************************************************************)
EXTENDS MCContainers, Collections_proofs, FunctionTheorems

-----------------------------------------------------------------------------
(* Sequences *)

\* The sequence of entries s without the first for k.
SparedKey(s, k) == RemoveFirstMatch(s, LAMBDA e : e.key = k)

LEMMA SparedIs ==
  ASSUME NEW S, NEW s \in Seq(S), NEW k,
         \A i, j \in 1 .. Len(s) : s[i].key = s[j].key => i = j
  PROVE  /\ \A i \in 1 .. Len(s) : s[i].key = k => SparedKey(s, k) = Cut(s, i)
         /\ (\A i \in 1 .. Len(s) : s[i].key # k) => SparedKey(s, k) = s
<1>1. ASSUME NEW i \in 1 .. Len(s), s[i].key = k PROVE SparedKey(s, k) = Cut(s, i)
  <2>1. {j \in 1 .. Len(s) : s[j].key = k} = {i}
    BY <1>1
  <2>2. SelectInSeq(s, LAMBDA e : e.key = k) = i
    BY <2>1 DEF SelectInSeq, Min
  <2> QED BY <1>1, <2>2, RemoveAtIs DEF SparedKey, RemoveFirstMatch
<1>2. (\A i \in 1 .. Len(s) : s[i].key # k) => SparedKey(s, k) = s
  BY DEF SparedKey, RemoveFirstMatch
<1> QED BY <1>1, <1>2

LEMMA OthersAre ==
  ASSUME NEW k
  PROVE  /\ Dns!Others(k) = SparedKey(DnsEntries, k)
         /\ Lru!Others(k) = SparedKey(LruEntries, k)
         /\ Lfu!Others(k) = SparedKey(LfuEntries, k)
<1>1. Dns!Others(k) = SparedKey(DnsEntries, k)
  BY DEF Dns!Others, SparedKey, RemoveFirstMatch, Dns!RemoveFirstMatch, RemoveAt, Dns!RemoveAt,
         SelectInSeq, Dns!SelectInSeq, Min, Dns!Min
<1>2. Lru!Others(k) = SparedKey(LruEntries, k)
  BY DEF Lru!Others, SparedKey, RemoveFirstMatch, Lru!RemoveFirstMatch, RemoveAt, Lru!RemoveAt,
         SelectInSeq, Lru!SelectInSeq, Min, Lru!Min
<1>3. Lfu!Others(k) = SparedKey(LfuEntries, k)
  BY DEF Lfu!Others, SparedKey, RemoveFirstMatch, Lfu!RemoveFirstMatch, RemoveAt, Lfu!RemoveAt,
         SelectInSeq, Lfu!SelectInSeq, Min, Lfu!Min
<1> QED BY <1>1, <1>2, <1>3
-----------------------------------------------------------------------------
(* The DNS resolver *)

DnsEntry == [domain : Domains, ip : Addresses, stamp : Nat]

\* No entry for d that is still good.
Old(d) == \A i \in 1 .. Len(dnsCache) :
            dnsCache[i].domain = d => dnsTime - dnsCache[i].stamp > DnsTtl

DnsInv ==
  /\ dnsSize \in DnsSizes /\ dnsTime \in Nat
  /\ dnsCache \in Seq(DnsEntry) /\ Len(dnsCache) <= dnsSize
  /\ \A i, j \in 1 .. Len(dnsCache) : dnsCache[i].domain = dnsCache[j].domain => i = j
  /\ dnsPc \in [Resolvers -> {"idle", "lock", "query"}]
  /\ wanted \in [Resolvers -> Domains \cup {Unresolved}]
  /\ \A p \in Resolvers : /\ dnsPc[p] # "idle" => wanted[p] \in Domains
                          /\ dnsPc[p] = "query" => resolving = p
                          /\ \A d \in Domains : dnsPc[p] = "query" /\ wanted[p] = d => Old(d)

LEMMA ButForIs ==
  ASSUME DnsInv, NEW d
  PROVE  /\ \A i \in 1 .. Len(dnsCache) : dnsCache[i].domain = d => ButFor(d) = Cut(dnsCache, i)
         /\ (\A i \in 1 .. Len(dnsCache) : dnsCache[i].domain # d) => ButFor(d) = dnsCache
<1>1. ASSUME NEW i \in 1 .. Len(dnsCache), dnsCache[i].domain = d PROVE ButFor(d) = Cut(dnsCache, i)
  <2>1. {j \in 1 .. Len(dnsCache) : dnsCache[j].domain = d} = {i}
    BY <1>1 DEF DnsInv
  <2>2. SelectInSeq(dnsCache, LAMBDA e : e.domain = d) = i
    BY <2>1 DEF SelectInSeq, Min
  <2> QED BY <1>1, <2>2, RemoveAtIs DEF ButFor, RemoveFirstMatch, DnsInv
<1>2. (\A i \in 1 .. Len(dnsCache) : dnsCache[i].domain # d) => ButFor(d) = dnsCache
  BY DEF ButFor, RemoveFirstMatch
<1> QED BY <1>1, <1>2

LEMMA ButForKept ==
  ASSUME DnsInv, NEW d
  PROVE  /\ ButFor(d) \in Seq(DnsEntry)
         /\ \A j \in 1 .. Len(ButFor(d)) :
              /\ ButFor(d)[j].domain # d
              /\ \E i \in 1 .. Len(dnsCache) : ButFor(d)[j] = dnsCache[i]
         /\ \A i, j \in 1 .. Len(ButFor(d)) : ButFor(d)[i].domain = ButFor(d)[j].domain => i = j
<1>1. dnsCache \in Seq(DnsEntry) /\ Len(dnsCache) \in Nat
  BY DEF DnsInv
<1>2. ASSUME NEW k \in 1 .. Len(dnsCache), dnsCache[k].domain = d
      PROVE  /\ Cut(dnsCache, k) \in Seq(DnsEntry)
             /\ \A j \in 1 .. Len(Cut(dnsCache, k)) :
                  /\ Cut(dnsCache, k)[j].domain # d
                  /\ \E i \in 1 .. Len(dnsCache) : Cut(dnsCache, k)[j] = dnsCache[i]
             /\ \A i, j \in 1 .. Len(Cut(dnsCache, k)) :
                  Cut(dnsCache, k)[i].domain = Cut(dnsCache, k)[j].domain => i = j
  <2> DEFINE c == Cut(dnsCache, k)
  <2>1. /\ c \in Seq(DnsEntry) /\ Len(c) = Len(dnsCache) - 1
        /\ \A j \in 1 .. Len(dnsCache) - 1 : c[j] = IF j < k THEN dnsCache[j] ELSE dnsCache[j + 1]
    BY <1>1, RemoveAtIs
  <2> HIDE DEF c
  <2>2. ASSUME NEW j \in 1 .. Len(c)
        PROVE  \E i \in 1 .. Len(dnsCache) : i # k /\ c[j] = dnsCache[i]
    <3>1. CASE j < k
      BY <3>1, <2>1, <1>1
    <3>2. CASE j >= k
      <4>1. j + 1 \in 1 .. Len(dnsCache) /\ j + 1 # k /\ c[j] = dnsCache[j + 1]
        BY <3>2, <2>1, <1>1
      <4> QED BY <4>1
    <3> QED BY <3>1, <3>2, <1>1, <2>1
  <2>3. \A j \in 1 .. Len(c) : c[j].domain # d
    BY <1>2, <2>2 DEF DnsInv
  <2>4. ASSUME NEW i \in 1 .. Len(c), NEW j \in 1 .. Len(c), c[i].domain = c[j].domain
        PROVE  i = j
    <3> DEFINE a == IF i < k THEN i ELSE i + 1
               b == IF j < k THEN j ELSE j + 1
    <3>1. a \in 1 .. Len(dnsCache) /\ b \in 1 .. Len(dnsCache)
          /\ c[i] = dnsCache[a] /\ c[j] = dnsCache[b]
      BY <2>1, <1>1
    <3>2. a = b => i = j
      BY <2>1, <1>1
    <3> HIDE DEF a, b
    <3>3. a = b
      BY <2>4, <3>1 DEF DnsInv
    <3> QED BY <3>2, <3>3
  <2> QED BY <2>1, <2>2, <2>3, <2>4 DEF c
<1>3. CASE \E k \in 1 .. Len(dnsCache) : dnsCache[k].domain = d
  <2>1. PICK k \in 1 .. Len(dnsCache) : dnsCache[k].domain = d
    BY <1>3
  <2>2. ButFor(d) = Cut(dnsCache, k)
    BY <2>1, ButForIs
  <2> QED BY <1>2, <2>1, <2>2
<1>4. CASE \A k \in 1 .. Len(dnsCache) : dnsCache[k].domain # d
  <2>1. ButFor(d) = dnsCache
    BY <1>4, ButForIs
  <2> QED BY <1>1, <1>4, <2>1 DEF DnsInv
<1> QED BY <1>3, <1>4

LEMMA ButForLen ==
  ASSUME DnsInv, NEW d
  PROVE  /\ Len(ButFor(d)) <= Len(dnsCache)
         /\ \A i \in 1 .. Len(dnsCache) :
              dnsCache[i].domain = d => Len(ButFor(d)) + 1 = Len(dnsCache)
<1>1. dnsCache \in Seq(DnsEntry) /\ Len(dnsCache) \in Nat
  BY DEF DnsInv
<1>2. \A i \in 1 .. Len(dnsCache) : Len(Cut(dnsCache, i)) = Len(dnsCache) - 1
  BY <1>1, RemoveAtIs
<1>3. \A i \in 1 .. Len(dnsCache) :
        dnsCache[i].domain = d => Len(ButFor(d)) = Len(dnsCache) - 1
  BY <1>2, ButForIs
<1>4. (\A i \in 1 .. Len(dnsCache) : dnsCache[i].domain # d) => ButFor(d) = dnsCache
  BY ButForIs
<1> QED BY <1>1, <1>3, <1>4

LEMMA LiveIs ==
  ASSUME dnsCache \in Seq(DnsEntry), dnsTime \in Nat, NEW d
  PROVE  /\ Live(d) = {} <=> Old(d)
         /\ \A e \in Live(d) : \E i \in 1 .. Len(dnsCache) :
              e = dnsCache[i] /\ e.domain = d /\ dnsTime - e.stamp <= DnsTtl
<1>1. DOMAIN dnsCache = 1 .. Len(dnsCache) /\ \A i \in 1 .. Len(dnsCache) : dnsCache[i] \in DnsEntry
  OBVIOUS
<1>2. DnsTtl \in Nat
  BY DnsAssumption
<1>3. \A e : e \in Live(d) <=> \E i \in 1 .. Len(dnsCache) :
        e = dnsCache[i] /\ e.domain = d /\ dnsTime - e.stamp <= DnsTtl
  BY <1>1 DEF Live, Range
<1>4. \A i \in 1 .. Len(dnsCache) : dnsTime - dnsCache[i].stamp <= DnsTtl
                                   \/ dnsTime - dnsCache[i].stamp > DnsTtl
  BY <1>1, <1>2 DEF DnsEntry
<1>5. \A i \in 1 .. Len(dnsCache) : ~(dnsTime - dnsCache[i].stamp <= DnsTtl
                                    /\ dnsTime - dnsCache[i].stamp > DnsTtl)
  BY <1>1, <1>2 DEF DnsEntry
<1> QED BY <1>3, <1>4, <1>5 DEF Old

\* What a step does to the cache when it leaves only old entries, adds one or loses some.
Fewer == /\ dnsCache' \in Seq(DnsEntry) /\ Len(dnsCache') <= Len(dnsCache)
         /\ \A i, j \in 1 .. Len(dnsCache') : dnsCache'[i].domain = dnsCache'[j].domain => i = j
         /\ \A j \in 1 .. Len(dnsCache') : \E i \in 1 .. Len(dnsCache) : dnsCache'[j] = dnsCache[i]

LEMMA FewerKeeps ==
  ASSUME DnsInv, Fewer, dnsTime' \in Nat, dnsTime' >= dnsTime, UNCHANGED dnsSize,
         dnsPc' \in [Resolvers -> {"idle", "lock", "query"}],
         wanted' \in [Resolvers -> Domains \cup {Unresolved}],
         \A p \in Resolvers :
           /\ dnsPc'[p] # "idle" => wanted'[p] \in Domains
           /\ dnsPc'[p] = "query" => resolving' = p
           /\ \A d \in Domains : dnsPc'[p] = "query" /\ wanted'[p] = d => Old(d)
  PROVE  DnsInv'
<1>1. /\ dnsCache \in Seq(DnsEntry) /\ dnsCache' \in Seq(DnsEntry) /\ dnsTime \in Nat
      /\ Len(dnsCache) \in Nat
  BY DEF DnsInv, Fewer
<1>2. ASSUME NEW d, Old(d) PROVE Old(d)'
  <2>1. ASSUME NEW j \in 1 .. Len(dnsCache'), dnsCache'[j].domain = d
        PROVE  dnsTime' - dnsCache'[j].stamp > DnsTtl
    <3>1. PICK i \in 1 .. Len(dnsCache) : dnsCache'[j] = dnsCache[i]
      BY DEF Fewer
    <3>2. dnsCache[i].stamp \in Nat /\ DnsTtl \in Nat
      <4>1. dnsCache[i] \in DnsEntry
        BY <1>1
      <4> QED BY <4>1, DnsAssumption DEF DnsEntry
    <3>3. dnsTime - dnsCache[i].stamp > DnsTtl
      BY <1>2, <2>1, <3>1 DEF Old
    <3> QED BY <1>1, <3>1, <3>2, <3>3
  <2> QED BY <2>1 DEF Old
<1>3. \A p \in Resolvers : \A d \in Domains : dnsPc'[p] = "query" /\ wanted'[p] = d => Old(d)'
  BY <1>2
<1>4. dnsSize \in Nat /\ Len(dnsCache') \in Nat
  BY <1>1, DnsAssumption DEF DnsInv
<1>5. Len(dnsCache') <= dnsSize'
  BY <1>1, <1>4 DEF DnsInv, Fewer
<1> QED BY <1>3, <1>5 DEF DnsInv, Fewer

\* A hit puts the entry at the end, a miss sweeps it if it is old.
LEMMA LooksKeep ==
  ASSUME DnsInv, NEW d \in Domains, CacheHit(d) \/ CacheMiss(d) PROVE Fewer
<1>1. dnsCache \in Seq(DnsEntry) /\ dnsTime \in Nat
  BY DEF DnsInv
<1>2. CASE CacheMiss(d)
  <2>1. dnsCache' = ButFor(d)
    BY <1>2 DEF CacheMiss
  <2> QED BY <2>1, ButForKept, ButForLen DEF Fewer
<1>3. CASE CacheHit(d)
  <2>1. PICK e \in Live(d) : dnsCache' = Append(ButFor(d), e)
    BY <1>3 DEF CacheHit
  <2>2. PICK k \in 1 .. Len(dnsCache) : e = dnsCache[k] /\ e.domain = d
    BY <1>1, LiveIs
  <2>3. PICK s : s = ButFor(d)
    OBVIOUS
  <2>4. /\ s \in Seq(DnsEntry)
        /\ \A j \in 1 .. Len(s) : /\ s[j].domain # d
                                  /\ \E i \in 1 .. Len(dnsCache) : s[j] = dnsCache[i]
        /\ \A i, j \in 1 .. Len(s) : s[i].domain = s[j].domain => i = j
    BY <2>3, ButForKept
  <2>5. e \in DnsEntry
    BY <1>1, <2>2
  <2>6. PICK t \in Seq(DnsEntry) :
          /\ t = Append(s, e) /\ Len(t) = Len(s) + 1 /\ t[Len(s) + 1] = e
          /\ \A j \in 1 .. Len(s) : t[j] = s[j]
    <3>1. /\ Append(s, e) \in Seq(DnsEntry) /\ Len(Append(s, e)) = Len(s) + 1
          /\ Append(s, e)[Len(s) + 1] = e
          /\ \A j \in 1 .. Len(s) : Append(s, e)[j] = s[j]
      <4>1. s \in Seq(DnsEntry)
        BY <2>4
      <4> HIDE <2>4
      <4> QED BY <4>1, <2>5, BackIs
    <3> QED BY <3>1
  <2>7. Len(s) \in Nat /\ dnsCache' = t
    BY <2>1, <2>3, <2>4, <2>6
  <2>8. \A j \in 1 .. Len(t) : j \in 1 .. Len(s) \/ j = Len(s) + 1
    BY <2>6, <2>7
  <2>9. \A j \in 1 .. Len(t) : \E i \in 1 .. Len(dnsCache) : t[j] = dnsCache[i]
    BY <2>2, <2>4, <2>6, <2>8
  <2>10. \A i, j \in 1 .. Len(t) : t[i].domain = t[j].domain => i = j
    BY <2>2, <2>4, <2>6, <2>8
  <2>11. Len(t) = Len(dnsCache)
    BY <2>2, <2>3, <2>6, ButForLen
  <2>12. Len(dnsCache') <= Len(dnsCache)
    BY <1>1, <2>7, <2>11
  <2> QED BY <2>6, <2>7, <2>9, <2>10, <2>12 DEF Fewer
<1> QED BY <1>2, <1>3

LEMMA DnsStarts == DnsInit => DnsInv
<1> SUFFICES ASSUME DnsInit PROVE DnsInv
  OBVIOUS
<1>1. dnsSize \in Nat /\ Len(dnsCache) = 0
  BY DnsAssumption DEF DnsInit
<1> QED BY <1>1 DEF DnsInit, DnsInv

LEMMA DnsKept == DnsInv /\ [DnsNext]_dnsVars => DnsInv'
<1> SUFFICES ASSUME DnsInv, [DnsNext]_dnsVars PROVE DnsInv'
  OBVIOUS
<1> USE UnresolvedAssumption, DnsAssumption
<1>1. CASE UNCHANGED dnsVars
  BY <1>1 DEF dnsVars, DnsInv, Old
<1>2. Fewer \/ dnsCache' # dnsCache
  BY DEF Fewer, DnsInv
<1>3. CASE DnsTick /\ UNCHANGED dnsSize
  <2>1. Fewer
    BY <1>2, <1>3 DEF DnsTick
  <2>2. dnsTime' \in Nat /\ dnsTime' >= dnsTime
    BY <1>3 DEF DnsTick, DnsInv
  <2> QED BY <1>3, <2>1, <2>2, FewerKeeps DEF DnsTick, DnsInv
<1>4. ASSUME NEW p \in Resolvers, NEW d \in Domains, FindFirst(p, d),
             UNCHANGED <<dnsTime, dnsSize>>
      PROVE  DnsInv'
  <2>1. Fewer
    BY <1>4, LooksKeep DEF FindFirst
  <2> QED BY <1>4, <2>1, FewerKeeps DEF FindFirst, DnsInv
<1>5. ASSUME NEW p \in Resolvers, NEW d \in Domains, MissFirst(p, d),
             UNCHANGED <<dnsTime, dnsSize>>
      PROVE  DnsInv'
  <2>1. Fewer
    BY <1>5, LooksKeep DEF MissFirst
  <2> QED BY <1>5, <2>1, FewerKeeps DEF MissFirst, DnsGoes, DnsInv
<1>6. ASSUME NEW p \in Resolvers, FindAgain(p), UNCHANGED <<dnsTime, dnsSize>> PROVE DnsInv'
  <2>1. wanted[p] \in Domains
    BY <1>6 DEF FindAgain, DnsGoes, DnsInv
  <2>2. Fewer
    BY <1>6, <2>1, LooksKeep DEF FindAgain
  <2> QED BY <1>6, <2>2, FewerKeeps DEF FindAgain, DnsGoes, DnsReturns, DnsInv
<1>7. ASSUME NEW p \in Resolvers, MissAgain(p), UNCHANGED <<dnsTime, dnsSize>> PROVE DnsInv'
  <2>1. wanted[p] \in Domains
    BY <1>7 DEF MissAgain, DnsGoes, DnsInv
  <2>2. Fewer
    BY <1>7, <2>1, LooksKeep DEF MissAgain
  <2>3. Old(wanted[p])
    BY <1>7, LiveIs DEF MissAgain, CacheMiss, DnsInv
  <2> QED BY <1>7, <2>2, <2>3, FewerKeeps DEF MissAgain, DnsGoes, DnsInv
<1>8. ASSUME NEW p \in Resolvers, ResolveFails(p), UNCHANGED <<dnsTime, dnsSize>> PROVE DnsInv'
  <2>1. Fewer
    BY <1>2, <1>8 DEF ResolveFails
  <2> QED BY <1>8, <2>1, FewerKeeps DEF ResolveFails, DnsGoes, DnsReturns, DnsInv
<1>9. ASSUME NEW p \in Resolvers, Resolved(p), UNCHANGED <<dnsTime, dnsSize>> PROVE DnsInv'
  <2>1. wanted[p] \in Domains /\ dnsTime \in Nat /\ dnsSize \in Nat \ {0}
    BY <1>9 DEF Resolved, DnsGoes, DnsInv
  <2>2. PICK d \in Domains, ip \in Addresses : wanted[p] = d /\ CacheSet(d, ip)
    BY <1>9, <2>1 DEF Resolved
  <2>3. PICK s : s = ButFor(d)
    OBVIOUS
  <2>4. /\ s \in Seq(DnsEntry)
        /\ \A j \in 1 .. Len(s) : s[j].domain # d
        /\ \A i, j \in 1 .. Len(s) : s[i].domain = s[j].domain => i = j
    BY <2>3, ButForKept
  <2>5. PICK e \in DnsEntry : e = [domain |-> d, ip |-> ip, stamp |-> dnsTime]
    BY <2>1 DEF DnsEntry
  <2>6. PICK t \in Seq(DnsEntry) : t = Append(s, e)
    BY <2>4, AppendProperties
  <2>7. \A i, j \in 1 .. Len(t) : t[i].domain = t[j].domain => i = j
    BY <2>4, <2>5, <2>6, BackIs
  <2>8. dnsCache' = IF Len(t) > dnsSize THEN SubSeq(t, Len(t) - dnsSize + 1, Len(t)) ELSE t
    BY <2>2, <2>3, <2>5, <2>6 DEF CacheSet
  <2>9. /\ dnsCache' \in Seq(DnsEntry) /\ Len(dnsCache') <= dnsSize
        /\ \A i, j \in 1 .. Len(dnsCache') : dnsCache'[i].domain = dnsCache'[j].domain => i = j
    <3>1. CASE Len(t) > dnsSize
      <4> DEFINE m == Len(t) - dnsSize + 1
      <4>1. m \in 1 .. Len(t) + 1 /\ Len(t) \in Nat
        BY <2>1, <2>6, <3>1
      <4>2. /\ SubSeq(t, m, Len(t)) \in Seq(DnsEntry) /\ Len(SubSeq(t, m, Len(t))) = Len(t) - m + 1
            /\ \A i \in 1 .. Len(t) - m + 1 : SubSeq(t, m, Len(t))[i] = t[m + i - 1]
        BY <2>6, <4>1, SubSeqProperties
      <4>3. PICK u \in Seq(DnsEntry) : u = SubSeq(t, m, Len(t))
        BY <4>2
      <4> HIDE DEF m
      <4>4. ASSUME NEW i \in 1 .. Len(u), NEW j \in 1 .. Len(u), u[i].domain = u[j].domain
            PROVE  i = j
        <5>1. /\ i \in 1 .. Len(t) - m + 1 /\ j \in 1 .. Len(t) - m + 1
              /\ u[i] = t[m + i - 1] /\ u[j] = t[m + j - 1]
          BY <4>2, <4>3
        <5>2. m + i - 1 \in 1 .. Len(t) /\ m + j - 1 \in 1 .. Len(t)
          BY <4>1, <5>1
        <5>3. m + i - 1 = m + j - 1
          BY <2>7, <4>4, <5>1, <5>2
        <5> QED BY <4>1, <5>3
      <4>5. dnsCache' = u
        BY <2>8, <3>1, <4>3 DEF m
      <4>6. Len(u) = dnsSize
        BY <2>1, <2>6, <4>2, <4>3 DEF m
      <4> QED BY <2>1, <4>4, <4>5, <4>6
    <3>2. CASE ~(Len(t) > dnsSize)
      <4>1. dnsCache' = t /\ Len(t) <= dnsSize
        BY <2>1, <2>8, <3>2
      <4> QED BY <2>7, <4>1
    <3> QED BY <3>1, <3>2
  <2>10. \A q \in Resolvers : dnsPc'[q] # "query"
    BY <1>9 DEF Resolved, DnsGoes, DnsInv
  <2> QED BY <1>9, <2>9, <2>10 DEF Resolved, DnsGoes, DnsReturns, DnsInv
<1> QED BY <1>1, <1>3, <1>4, <1>5, <1>6, <1>7, <1>8, <1>9 DEF DnsNext

LEMMA DnsQueries == DnsInv => NoNeedlessQuery
<1> SUFFICES ASSUME DnsInv, NEW p \in Resolvers, dnsPc[p] = "query" PROVE Live(wanted[p]) = {}
  BY DEF NoNeedlessQuery
<1>1. wanted[p] \in Domains /\ Old(wanted[p]) /\ dnsCache \in Seq(DnsEntry) /\ dnsTime \in Nat
  BY DEF DnsInv
<1> QED BY <1>1, LiveIs

DnsItem == [key : Domains, val : Addresses, freq : {0}, stamp : Nat]

AsItem(e) == [key |-> e.domain, val |-> e.ip, freq |-> 0, stamp |-> e.stamp]

Shown(s) == [i \in 1 .. Len(s) |-> AsItem(s[Len(s) + 1 - i])]

LEMMA ShownIs ==
  ASSUME NEW s \in Seq(DnsEntry)
  PROVE  /\ Shown(s) \in Seq(DnsItem) /\ Len(Shown(s)) = Len(s)
         /\ \A i \in 1 .. Len(s) : /\ Len(s) + 1 - i \in 1 .. Len(s)
                                   /\ Shown(s)[i] = AsItem(s[Len(s) + 1 - i])
<1>1. Len(s) \in Nat /\ \A i \in 1 .. Len(s) : Len(s) + 1 - i \in 1 .. Len(s)
  OBVIOUS
<1>2. \A i \in 1 .. Len(s) : AsItem(s[Len(s) + 1 - i]) \in DnsItem
  <2> SUFFICES ASSUME NEW i \in 1 .. Len(s) PROVE AsItem(s[Len(s) + 1 - i]) \in DnsItem
    OBVIOUS
  <2>1. s[Len(s) + 1 - i] \in DnsEntry
    BY <1>1
  <2> QED BY <2>1 DEF AsItem, DnsItem, DnsEntry
<1> QED BY <1>1, <1>2 DEF Shown

LEMMA DnsShown ==
  ASSUME dnsCache \in Seq(DnsEntry) PROVE DnsEntries = Shown(dnsCache)
<1> DEFINE m == [i \in DOMAIN dnsCache |-> AsItem(dnsCache[i])]
<1>1. Len(dnsCache) \in Nat /\ DOMAIN dnsCache = 1 .. Len(dnsCache)
  OBVIOUS
<1>2. Len(m) = Len(dnsCache)
  BY <1>1
<1>3. \A i \in 1 .. Len(dnsCache) :
        m[Len(dnsCache) - i + 1] = AsItem(dnsCache[Len(dnsCache) + 1 - i])
  <2> SUFFICES ASSUME NEW i \in 1 .. Len(dnsCache)
               PROVE  m[Len(dnsCache) - i + 1] = AsItem(dnsCache[Len(dnsCache) + 1 - i])
    OBVIOUS
  <2>1. /\ Len(dnsCache) - i + 1 = Len(dnsCache) + 1 - i
        /\ Len(dnsCache) + 1 - i \in 1 .. Len(dnsCache)
    BY <1>1
  <2> QED BY <1>1, <2>1
<1>4. DnsEntries = [i \in 1 .. Len(m) |-> m[(Len(m) - i) + 1]]
  BY DEF DnsEntries, Reverse, AsItem
<1> HIDE DEF m
<1> QED BY <1>2, <1>3, <1>4 DEF Shown

LEMMA ShownAppend ==
  ASSUME NEW s \in Seq(DnsEntry), NEW e \in DnsEntry
  PROVE  Shown(Append(s, e)) = InFront(AsItem(e), Shown(s))
<1>1. PICK t \in Seq(DnsEntry) :
        /\ t = Append(s, e) /\ Len(t) = Len(s) + 1
        /\ t[Len(s) + 1] = e /\ \A j \in 1 .. Len(s) : t[j] = s[j]
  <2>1. /\ Append(s, e) \in Seq(DnsEntry) /\ Len(Append(s, e)) = Len(s) + 1
        /\ Append(s, e)[Len(s) + 1] = e /\ \A j \in 1 .. Len(s) : Append(s, e)[j] = s[j]
    BY BackIs
  <2> QED BY <2>1
<1>2. /\ Shown(t) \in Seq(DnsItem) /\ Len(Shown(t)) = Len(t)
      /\ \A i \in 1 .. Len(t) : Shown(t)[i] = AsItem(t[Len(t) + 1 - i])
  BY ShownIs
<1>3. /\ Shown(s) \in Seq(DnsItem) /\ Len(Shown(s)) = Len(s)
      /\ \A i \in 1 .. Len(s) : /\ Len(s) + 1 - i \in 1 .. Len(s)
                                /\ Shown(s)[i] = AsItem(s[Len(s) + 1 - i])
  BY ShownIs
<1>4. AsItem(e) \in DnsItem
  BY DEF AsItem, DnsItem, DnsEntry
<1>5. PICK u \in Seq(DnsItem) :
        /\ u = InFront(AsItem(e), Shown(s)) /\ Len(u) = Len(s) + 1 /\ u[1] = AsItem(e)
        /\ \A j \in 1 .. Len(s) : u[j + 1] = Shown(s)[j]
  <2>1. /\ InFront(AsItem(e), Shown(s)) \in Seq(DnsItem)
        /\ Len(InFront(AsItem(e), Shown(s))) = Len(Shown(s)) + 1
        /\ InFront(AsItem(e), Shown(s))[1] = AsItem(e)
        /\ \A j \in 1 .. Len(Shown(s)) : InFront(AsItem(e), Shown(s))[j + 1] = Shown(s)[j]
    BY <1>3, <1>4, FrontIs
  <2> QED BY <1>3, <2>1
<1>6. Len(s) \in Nat
  OBVIOUS
<1>7. ASSUME NEW i \in 1 .. Len(s) + 1 PROVE Shown(t)[i] = u[i]
  <2>1. CASE i = 1
    BY <1>1, <1>2, <1>5, <1>6, <2>1
  <2>2. CASE i # 1
    <3>1. PICK j \in 1 .. Len(s) : i = j + 1
      <4>1. i - 1 \in 1 .. Len(s) /\ i = (i - 1) + 1
        BY <1>6, <2>2
      <4> QED BY <4>1
    <3>2. Len(t) + 1 - i = Len(s) + 1 - j
      BY <1>1, <1>6, <3>1
    <3>3. Shown(t)[i] = AsItem(t[Len(s) + 1 - j])
      BY <1>1, <1>2, <3>2
    <3>4. t[Len(s) + 1 - j] = s[Len(s) + 1 - j] /\ Shown(s)[j] = AsItem(s[Len(s) + 1 - j])
      BY <1>1, <1>3
    <3> QED BY <1>5, <3>1, <3>3, <3>4
  <2> QED BY <2>1, <2>2
<1>8. Shown(t) = u
  BY <1>1, <1>2, <1>5, <1>7, SeqEqual
<1> QED BY <1>1, <1>5, <1>8

LEMMA ShownCut ==
  ASSUME NEW s \in Seq(DnsEntry), NEW i \in 1 .. Len(s)
  PROVE  Shown(Cut(s, i)) = Cut(Shown(s), Len(s) + 1 - i)
<1>1. PICK c \in Seq(DnsEntry) :
        /\ c = Cut(s, i) /\ Len(c) = Len(s) - 1
        /\ \A j \in 1 .. Len(s) - 1 : c[j] = IF j < i THEN s[j] ELSE s[j + 1]
  BY RemoveAtIs
<1>2. /\ Shown(s) \in Seq(DnsItem) /\ Len(Shown(s)) = Len(s) /\ Len(s) \in Nat
      /\ \A j \in 1 .. Len(s) : Shown(s)[j] = AsItem(s[Len(s) + 1 - j])
  BY ShownIs
<1>3. PICK n : n = Len(s) + 1 - i
  OBVIOUS
<1>4. n \in 1 .. Len(Shown(s))
  BY <1>2, <1>3
<1>5. PICK d \in Seq(DnsItem) :
        /\ d = Cut(Shown(s), n) /\ Len(d) = Len(s) - 1
        /\ \A j \in 1 .. Len(s) - 1 : d[j] = IF j < n THEN Shown(s)[j] ELSE Shown(s)[j + 1]
  BY <1>2, <1>4, RemoveAtIs
<1>6. /\ Shown(c) \in Seq(DnsItem) /\ Len(Shown(c)) = Len(c)
      /\ \A j \in 1 .. Len(c) : Shown(c)[j] = AsItem(c[Len(c) + 1 - j])
  BY ShownIs
<1>7. ASSUME NEW j \in 1 .. Len(s) - 1 PROVE Shown(c)[j] = d[j]
  <2>1. Shown(c)[j] = AsItem(c[Len(s) - j])
    <3>1. Len(c) + 1 - j = Len(s) - j
      BY <1>1, <1>2
    <3> QED BY <1>1, <1>6, <3>1
  <2>2. Len(s) - j \in 1 .. Len(s) - 1
    BY <1>2
  <2>3. CASE j < n
    <3>1. /\ ~(Len(s) - j < i) /\ Len(s) - j + 1 = Len(s) + 1 - j
      BY <1>2, <1>3, <2>3
    <3>2. c[Len(s) - j] = s[Len(s) + 1 - j]
      BY <1>1, <2>2, <3>1
    <3>3. d[j] = AsItem(s[Len(s) + 1 - j])
      BY <1>2, <1>5, <2>3
    <3> QED BY <2>1, <3>2, <3>3
  <2>4. CASE ~(j < n)
    <3>1. Len(s) - j < i /\ j + 1 \in 1 .. Len(s) /\ Len(s) + 1 - (j + 1) = Len(s) - j
      BY <1>2, <1>3, <2>4
    <3>2. c[Len(s) - j] = s[Len(s) - j]
      BY <1>1, <2>2, <3>1
    <3>3. d[j] = AsItem(s[Len(s) - j])
      BY <1>2, <1>5, <2>4, <3>1
    <3> QED BY <2>1, <3>2, <3>3
  <2> QED BY <2>3, <2>4
<1>8. Shown(c) = d
  BY <1>1, <1>5, <1>6, <1>7, SeqEqual
<1> QED BY <1>1, <1>3, <1>5, <1>8

LEMMA DnsOthers ==
  ASSUME DnsInv, NEW d PROVE Dns!Others(d) = Shown(ButFor(d))
<1>1. dnsCache \in Seq(DnsEntry) /\ Len(dnsCache) \in Nat
  BY DEF DnsInv
<1>2. PICK s \in Seq(DnsItem) :
        /\ s = Shown(dnsCache) /\ Len(s) = Len(dnsCache)
        /\ \A i \in 1 .. Len(s) : /\ Len(s) + 1 - i \in 1 .. Len(s)
                                  /\ s[i].key = dnsCache[Len(s) + 1 - i].domain
  <2>1. /\ Shown(dnsCache) \in Seq(DnsItem) /\ Len(Shown(dnsCache)) = Len(dnsCache)
        /\ \A i \in 1 .. Len(dnsCache) :
             /\ Len(dnsCache) + 1 - i \in 1 .. Len(dnsCache)
             /\ Shown(dnsCache)[i] = AsItem(dnsCache[Len(dnsCache) + 1 - i])
    BY <1>1, ShownIs
  <2>2. \A e : AsItem(e).key = e.domain
    BY DEF AsItem
  <2>3. /\ Shown(dnsCache) \in Seq(DnsItem) /\ Shown(dnsCache) = Shown(dnsCache)
        /\ Len(Shown(dnsCache)) = Len(dnsCache)
        /\ \A i \in 1 .. Len(Shown(dnsCache)) :
             /\ Len(Shown(dnsCache)) + 1 - i \in 1 .. Len(Shown(dnsCache))
             /\ Shown(dnsCache)[i].key = dnsCache[Len(Shown(dnsCache)) + 1 - i].domain
    BY <2>1, <2>2, SMTT(30)
  <2> QED BY <2>3
<1>3. Dns!Others(d) = SparedKey(s, d)
  BY <1>1, <1>2, OthersAre, DnsShown
<1>4. ASSUME NEW i \in 1 .. Len(s), NEW j \in 1 .. Len(s), s[i].key = s[j].key PROVE i = j
  <2>1. /\ Len(s) + 1 - i \in 1 .. Len(dnsCache) /\ Len(s) + 1 - j \in 1 .. Len(dnsCache)
        /\ dnsCache[Len(s) + 1 - i].domain = dnsCache[Len(s) + 1 - j].domain
    BY <1>2, <1>4
  <2>2. Len(s) + 1 - i = Len(s) + 1 - j
    BY <2>1 DEF DnsInv
  <2> QED BY <1>1, <1>2, <2>2
<1>5. /\ \A i \in 1 .. Len(s) : s[i].key = d => SparedKey(s, d) = Cut(s, i)
      /\ (\A i \in 1 .. Len(s) : s[i].key # d) => SparedKey(s, d) = s
  BY <1>4, SparedIs
<1>6. CASE \E k \in 1 .. Len(dnsCache) : dnsCache[k].domain = d
  <2>1. PICK k \in 1 .. Len(dnsCache) : dnsCache[k].domain = d
    BY <1>6
  <2>2. /\ Len(s) + 1 - k \in 1 .. Len(s) /\ Len(s) + 1 - (Len(s) + 1 - k) = k
    BY <1>1, <1>2
  <2>3. s[Len(s) + 1 - k].key = d
    BY <1>2, <2>1, <2>2
  <2>4. SparedKey(s, d) = Cut(s, Len(s) + 1 - k)
    BY <1>5, <2>2, <2>3
  <2> QED BY <1>1, <1>2, <1>3, <2>1, <2>4, ButForIs, ShownCut
<1>7. CASE \A k \in 1 .. Len(dnsCache) : dnsCache[k].domain # d
  <2>1. ButFor(d) = dnsCache
    BY <1>7, ButForIs
  <2>2. \A i \in 1 .. Len(s) : s[i].key # d
    BY <1>2, <1>7
  <2>3. SparedKey(s, d) = s
    BY <1>5, <2>2
  <2> QED BY <1>2, <1>3, <2>1, <2>3
<1> QED BY <1>6, <1>7

LEMMA DnsFresh ==
  ASSUME DnsInv, NEW d
  PROVE  /\ \A e \in Live(d) : e \in DnsEntry /\ AsItem(e) \in Dns!Fresh(d)
         /\ Live(d) = {} => Dns!Fresh(d) = {}
<1>1. dnsCache \in Seq(DnsEntry) /\ Len(dnsCache) \in Nat /\ dnsTime \in Nat
  BY DEF DnsInv
<1>2. DnsTtl # Never /\ DnsTtl \in Nat
  BY DnsAssumption, TtlAssumption
<1>3. \A x : x \in Dns!Fresh(d) <=>
        \E i \in 1 .. Len(dnsCache) : /\ x = AsItem(dnsCache[i]) /\ dnsCache[i].domain = d
                                      /\ ~(dnsTime - dnsCache[i].stamp > DnsTtl)
  <2>1. PICK s \in Seq(DnsItem) :
          /\ s = DnsEntries /\ Len(s) = Len(dnsCache)
          /\ \A i \in 1 .. Len(s) : /\ Len(s) + 1 - i \in 1 .. Len(s)
                                    /\ s[i] = AsItem(dnsCache[Len(s) + 1 - i])
    <3>1. /\ Shown(dnsCache) \in Seq(DnsItem) /\ Len(Shown(dnsCache)) = Len(dnsCache)
          /\ \A i \in 1 .. Len(dnsCache) :
               /\ Len(dnsCache) + 1 - i \in 1 .. Len(dnsCache)
               /\ Shown(dnsCache)[i] = AsItem(dnsCache[Len(dnsCache) + 1 - i])
      BY <1>1, ShownIs
    <3> QED BY <1>1, <3>1, DnsShown
  <2>2. Dns!Range(s) = {s[i] : i \in 1 .. Len(s)}
    BY DEF Dns!Range
  <2>3. \A k \in 1 .. Len(s) : Len(s) + 1 - (Len(s) + 1 - k) = k
    BY <1>1, <2>1
  <2>4. \A x : x \in Dns!Range(s) <=> \E i \in 1 .. Len(dnsCache) : x = AsItem(dnsCache[i])
    <3>1. ASSUME NEW x \in Dns!Range(s) PROVE \E i \in 1 .. Len(dnsCache) : x = AsItem(dnsCache[i])
      <4>1. PICK i \in 1 .. Len(s) : x = s[i]
        BY <2>2
      <4>2. Len(s) + 1 - i \in 1 .. Len(dnsCache) /\ x = AsItem(dnsCache[Len(s) + 1 - i])
        BY <2>1, <4>1
      <4> QED BY <4>2
    <3>2. ASSUME NEW i \in 1 .. Len(dnsCache) PROVE AsItem(dnsCache[i]) \in Dns!Range(s)
      <4>1. Len(s) + 1 - i \in 1 .. Len(s) /\ Len(s) + 1 - (Len(s) + 1 - i) = i
        BY <2>1, <2>3
      <4>2. s[Len(s) + 1 - i] = AsItem(dnsCache[i])
        BY <2>1, <4>1
      <4> QED BY <2>2, <4>1, <4>2
    <3> QED BY <3>1, <3>2
  <2>5. \A x : x \in Dns!Fresh(d) <=> /\ x \in Dns!Range(s) /\ x.key = d
                                      /\ ~(dnsTime - x.stamp > DnsTtl)
    BY <1>2, <2>1 DEF Dns!Fresh, Dns!Stale
  <2>6. \A e : AsItem(e).key = e.domain /\ AsItem(e).stamp = e.stamp
    BY DEF AsItem
  <2> QED BY <2>4, <2>5, <2>6
<1>4. \A e : e \in Live(d) <=> \E i \in 1 .. Len(dnsCache) :
        e = dnsCache[i] /\ e.domain = d /\ dnsTime - e.stamp <= DnsTtl
  BY <1>1 DEF Live, Range
<1>5. \A i \in 1 .. Len(dnsCache) : dnsTime - dnsCache[i].stamp <= DnsTtl
                                   <=> ~(dnsTime - dnsCache[i].stamp > DnsTtl)
  <2> SUFFICES ASSUME NEW i \in 1 .. Len(dnsCache)
               PROVE  dnsTime - dnsCache[i].stamp <= DnsTtl
                      <=> ~(dnsTime - dnsCache[i].stamp > DnsTtl)
    OBVIOUS
  <2>1. dnsCache[i] \in DnsEntry
    BY <1>1
  <2> QED BY <1>1, <1>2, <2>1 DEF DnsEntry
<1>6. \A i \in 1 .. Len(dnsCache) : dnsCache[i] \in DnsEntry
  BY <1>1
<1> QED BY <1>3, <1>4, <1>5, <1>6

LEMMA DnsShownNext ==
  ASSUME dnsCache' \in Seq(DnsEntry) PROVE DnsEntries' = Shown(dnsCache')
<1>1. PICK t \in Seq(DnsEntry) : t = dnsCache'
  OBVIOUS
<1> DEFINE m == [i \in DOMAIN t |-> AsItem(t[i])]
<1>2. Len(t) \in Nat /\ DOMAIN t = 1 .. Len(t)
  OBVIOUS
<1>3. Len(m) = Len(t)
  BY <1>2
<1>4. \A i \in 1 .. Len(t) : m[Len(t) - i + 1] = AsItem(t[Len(t) + 1 - i])
  <2> SUFFICES ASSUME NEW i \in 1 .. Len(t)
               PROVE  m[Len(t) - i + 1] = AsItem(t[Len(t) + 1 - i])
    OBVIOUS
  <2>1. Len(t) - i + 1 = Len(t) + 1 - i /\ Len(t) + 1 - i \in 1 .. Len(t)
    BY <1>2
  <2> QED BY <1>2, <2>1
<1>5. DnsEntries' = [i \in 1 .. Len(m) |-> m[(Len(m) - i) + 1]]
  BY <1>1 DEF DnsEntries, Reverse, AsItem
<1> HIDE DEF m
<1> QED BY <1>1, <1>3, <1>4, <1>5 DEF Shown

LEMMA DnsHits ==
  ASSUME DnsInv, NEW d \in Domains, CacheHit(d) PROVE Dns!Hit(d)
<1>1. PICK e \in Live(d) : dnsAnswer' = e.ip /\ dnsCache' = Append(ButFor(d), e)
  BY DEF CacheHit
<1>2. e \in DnsEntry /\ AsItem(e) \in Dns!Fresh(d)
  BY DnsFresh
<1>3. PICK b \in Seq(DnsEntry) : b = ButFor(d)
  BY ButForKept
<1>4. dnsCache' \in Seq(DnsEntry)
  BY LooksKeep DEF Fewer
<1>5. DnsEntries' = InFront(AsItem(e), Shown(b))
  BY <1>1, <1>2, <1>3, <1>4, DnsShownNext, ShownAppend
<1>6. Dns!Others(d) = Shown(b)
  BY <1>3, DnsOthers
<1>7. Dns!Used(AsItem(e)) = AsItem(e) /\ AsItem(e).val = e.ip
  BY <1>2 DEF Dns!Used, Dns!Touched, Dns!Uses, AsItem, DnsEntry
<1> QED BY <1>1, <1>2, <1>5, <1>6, <1>7 DEF Dns!Hit, InFront

LEMMA DnsMisses ==
  ASSUME DnsInv, NEW d \in Domains, CacheMiss(d) PROVE Dns!Miss(d)
<1>1. Live(d) = {} /\ dnsAnswer' = Unresolved /\ dnsCache' = ButFor(d)
  BY DEF CacheMiss
<1>2. ButFor(d) \in Seq(DnsEntry)
  BY ButForKept
<1>3. DnsEntries' = Shown(ButFor(d))
  BY <1>1, <1>2, DnsShownNext
<1> QED BY <1>1, <1>3, DnsFresh, DnsOthers DEF Dns!Miss

\* The first of what the sequence drops is the last that it shows.
LEMMA DnsInserts ==
  ASSUME DnsInv, NEW d \in Domains, NEW ip \in Addresses, Live(d) = {}, CacheSet(d, ip)
  PROVE  Dns!Insert(d, ip)
<1>1. /\ dnsCache \in Seq(DnsEntry) /\ Len(dnsCache) \in Nat /\ dnsTime \in Nat
      /\ dnsSize \in Nat \ {0} /\ Len(dnsCache) <= dnsSize
  BY DnsAssumption DEF DnsInv
<1>2. PICK b \in Seq(DnsEntry) : b = ButFor(d)
  BY ButForKept
<1>3. Len(b) \in Nat /\ Len(b) <= dnsSize
  BY <1>1, <1>2, ButForLen
<1>4. PICK e \in DnsEntry : e = [domain |-> d, ip |-> ip, stamp |-> dnsTime]
  BY <1>1 DEF DnsEntry
<1>5. AsItem(e) = [key |-> d, val |-> ip, freq |-> Dns!Uses(1), stamp |-> dnsTime]
  BY <1>4 DEF AsItem, Dns!Uses
<1>6. PICK t \in Seq(DnsEntry) :
        /\ t = Append(b, e) /\ Len(t) = Len(b) + 1
        /\ t[Len(b) + 1] = e /\ \A j \in 1 .. Len(b) : t[j] = b[j]
  <2>1. /\ Append(b, e) \in Seq(DnsEntry) /\ Len(Append(b, e)) = Len(b) + 1
        /\ Append(b, e)[Len(b) + 1] = e /\ \A j \in 1 .. Len(b) : Append(b, e)[j] = b[j]
    BY BackIs
  <2> QED BY <2>1
<1>7. dnsCache' = IF Len(t) > dnsSize THEN SubSeq(t, Len(t) - dnsSize + 1, Len(t)) ELSE t
  BY <1>2, <1>4, <1>6 DEF CacheSet
<1>8. Dns!Fresh(d) = {} /\ Dns!Others(d) = Shown(b)
  BY <1>2, DnsFresh, DnsOthers
<1>9. Shown(b) \in Seq(DnsItem) /\ Len(Shown(b)) = Len(b)
  BY ShownIs
<1>10. DnsEntries' = InFront(AsItem(e), IF Len(Shown(b)) < dnsSize THEN Shown(b)
                                      ELSE Dns!RemoveAt(Shown(b), Len(Shown(b))))
  <2>1. CASE Len(b) < dnsSize
    <3>1. ~(Len(t) > dnsSize)
      BY <1>1, <1>3, <1>6, <2>1
    <3>2. dnsCache' = t
      BY <1>7, <3>1
    <3> QED BY <1>6, <1>9, <2>1, <3>2, DnsShownNext, ShownAppend
  <2>2. CASE ~(Len(b) < dnsSize)
    <3>1. Len(b) = dnsSize /\ 1 \in 1 .. Len(b) /\ Len(b) + 1 - 1 = Len(b)
      BY <1>1, <1>3, <2>2
    <3>2. PICK c \in Seq(DnsEntry) :
            /\ c = Cut(b, 1) /\ Len(c) = Len(b) - 1
            /\ \A j \in 1 .. Len(b) - 1 : c[j] = b[j + 1]
      <4>1. /\ Cut(b, 1) \in Seq(DnsEntry) /\ Len(Cut(b, 1)) = Len(b) - 1
            /\ \A j \in 1 .. Len(b) - 1 : Cut(b, 1)[j] = IF j < 1 THEN b[j] ELSE b[j + 1]
        BY <3>1, RemoveAtIs
      <4> QED BY <4>1
    <3>3. PICK u \in Seq(DnsEntry) :
            /\ u = Append(c, e) /\ Len(u) = Len(c) + 1
            /\ u[Len(c) + 1] = e /\ \A j \in 1 .. Len(c) : u[j] = c[j]
      <4>1. /\ Append(c, e) \in Seq(DnsEntry) /\ Len(Append(c, e)) = Len(c) + 1
            /\ Append(c, e)[Len(c) + 1] = e /\ \A j \in 1 .. Len(c) : Append(c, e)[j] = c[j]
        BY BackIs
      <4> QED BY <4>1
    <3>4. dnsCache' = u
      <4>1. Len(t) > dnsSize /\ Len(t) - dnsSize + 1 = 2
        BY <1>1, <1>6, <3>1
      <4>2. PICK w : w = SubSeq(t, 2, Len(t))
        OBVIOUS
      <4>3. 2 \in 1 .. Len(t) + 1 /\ Len(t) \in Nat
        BY <1>3, <1>6
      <4>4. w \in Seq(DnsEntry) /\ Len(w) = Len(b) /\ \A i \in 1 .. Len(b) : w[i] = t[i + 1]
        BY <1>3, <1>6, <4>2, <4>3
      <4>5. ASSUME NEW i \in 1 .. Len(b) PROVE w[i] = u[i]
        <5>1. CASE i = Len(b)
          BY <1>3, <1>6, <3>2, <3>3, <4>4, <5>1
        <5>2. CASE i # Len(b)
          <6>1. i \in 1 .. Len(b) - 1 /\ i \in 1 .. Len(c) /\ i + 1 \in 1 .. Len(b)
            BY <1>3, <3>2, <5>2
          <6> QED BY <1>6, <3>2, <3>3, <4>4, <6>1
        <5> QED BY <5>1, <5>2
      <4>6. Len(u) = Len(b)
        BY <1>3, <3>2, <3>3
      <4>7. w = u
        BY <3>3, <4>4, <4>5, <4>6, SeqEqual
      <4>8. dnsCache' = SubSeq(t, 2, Len(t))
        BY <1>7, <4>1
      <4> QED BY <4>2, <4>7, <4>8
    <3>5. DnsEntries' = InFront(AsItem(e), Shown(c))
      BY <3>2, <3>3, <3>4, DnsShownNext, ShownAppend
    <3>6. Shown(c) = Cut(Shown(b), Len(b))
      <4>1. Shown(Cut(b, 1)) = Cut(Shown(b), Len(b) + 1 - 1)
        BY <3>1, ShownCut
      <4> QED BY <3>1, <3>2, <4>1
    <3>7. Dns!RemoveAt(Shown(b), Len(b)) = Cut(Shown(b), Len(b))
      <4>1. Len(b) \in 1 .. Len(Shown(b))
        BY <1>9, <3>1
      <4>2. RemoveAt(Shown(b), Len(b)) = Cut(Shown(b), Len(b))
        BY <1>9, <4>1, RemoveAtIs
      <4> QED BY <4>2 DEF RemoveAt, Dns!RemoveAt
    <3> QED BY <1>9, <2>2, <3>5, <3>6, <3>7
  <2> QED BY <2>1, <2>2
<1>11. Dns!Victim(Shown(b)) = Len(Shown(b))
  BY DEF Dns!Victim
<1> QED BY <1>5, <1>8, <1>10, <1>11 DEF Dns!Insert, InFront

LEMMA DnsRefines ==
  /\ DnsInit => Dns!Init
  /\ DnsInv /\ [DnsNext]_dnsVars => [Dns!Next]_<<DnsEntries, dnsAnswer>>
<1>1. DnsInit => Dns!Init
  <2> SUFFICES ASSUME DnsInit PROVE Dns!Init
    OBVIOUS
  <2>1. dnsCache \in Seq(DnsEntry) /\ Len(dnsCache) = 0
    BY DEF DnsInit
  <2>2. /\ DnsEntries \in Seq(DnsItem) /\ Len(DnsEntries) = 0
    BY <2>1, DnsShown, ShownIs
  <2>3. DnsEntries = << >>
    BY <2>2
  <2> QED BY <2>3 DEF DnsInit, Dns!Init
<1>2. ASSUME DnsInv, [DnsNext]_dnsVars PROVE [Dns!Next]_<<DnsEntries, dnsAnswer>>
  <2>1. UNCHANGED <<dnsCache, dnsAnswer>> => UNCHANGED <<DnsEntries, dnsAnswer>>
    BY DEF DnsEntries
  <2>2. ASSUME NEW d \in Domains, CacheHit(d) \/ CacheMiss(d) PROVE Dns!Next
    BY <1>2, <2>2, DnsHits, DnsMisses DEF Dns!Next
  <2>3. ASSUME NEW p \in Resolvers, Resolved(p) PROVE Dns!Next
    <3>1. dnsPc[p] = "query" /\ wanted[p] \in Domains /\ UNCHANGED dnsAnswer
      BY <1>2, <2>3 DEF Resolved, DnsGoes, DnsInv
    <3>2. PICK d \in Domains, ip \in Addresses : d = wanted[p] /\ CacheSet(d, ip)
      BY <2>3, <3>1 DEF Resolved
    <3>3. Live(d) = {}
      BY <1>2, <3>1, <3>2, LiveIs DEF DnsInv
    <3> QED BY <1>2, <3>1, <3>2, <3>3, DnsInserts DEF Dns!Next
  <2>4. CASE UNCHANGED dnsVars
    BY <2>1, <2>4 DEF dnsVars
  <2>5. CASE DnsTick \/ \E p \in Resolvers : ResolveFails(p)
    BY <2>1, <2>5 DEF DnsTick, ResolveFails
  <2>6. ASSUME NEW p \in Resolvers, NEW d \in Domains, FindFirst(p, d) \/ MissFirst(p, d)
        PROVE  Dns!Next
    BY <2>2, <2>6 DEF FindFirst, MissFirst
  <2>7. ASSUME NEW p \in Resolvers, FindAgain(p) \/ MissAgain(p) PROVE Dns!Next
    <3>1. wanted[p] \in Domains
      BY <1>2, <2>7 DEF FindAgain, MissAgain, DnsGoes, DnsInv
    <3> QED BY <2>2, <2>7, <3>1 DEF FindAgain, MissAgain
  <2> QED BY <1>2, <2>3, <2>4, <2>5, <2>6, <2>7 DEF DnsNext
<1> QED BY <1>1, <1>2

\* For a cache of any size and any threads that race to fill it: the resolver's cache holds
\* what was resolved last, forgets the key that was used longest ago and finds no entry that
\* is too old; and a thread that queries a name does so while there is no good entry for it.
THEOREM ResolverCaches ==
  DnsInit /\ [][DnsNext]_dnsVars => Dns!Spec /\ []NoNeedlessQuery
BY DnsStarts, DnsKept, DnsQueries, DnsRefines, PTL DEF Dns!Spec
-----------------------------------------------------------------------------
(* Keys and their entries, as the LRU and LFU caches show them *)

\* The entries of the keys c, by the table r.
Lists(c, r) == [i \in 1 .. Len(c) |-> r[c[i]]]

\* r has an entry of the set T for each key of K.
TableOf(r, K, T) == \A k \in K : r[k] \in T /\ r[k].key = k

Tabled(c, r, K, T) == c \in Seq(K) /\ TableOf(r, K, T)

LEMMA ListsAre ==
  ASSUME NEW K, NEW T, NEW c \in Seq(K), NEW r, TableOf(r, K, T)
  PROVE  /\ Lists(c, r) \in Seq(T) /\ Len(Lists(c, r)) = Len(c)
         /\ \A i \in 1 .. Len(c) : c[i] \in K /\ Lists(c, r)[i] = r[c[i]]
<1>1. Len(c) \in Nat /\ \A i \in 1 .. Len(c) : c[i] \in K /\ r[c[i]] \in T
  BY DEF TableOf
<1> QED BY <1>1 DEF Lists

LEMMA CutDistinct ==
  ASSUME NEW K, NEW c \in Seq(K), Distinct(c), NEW p \in 1 .. Len(c)
  PROVE  /\ Cut(c, p) \in Seq(K) /\ Len(Cut(c, p)) = Len(c) - 1
         /\ Distinct(Cut(c, p))
         /\ \A x : In(Cut(c, p), x) <=> In(c, x) /\ x # c[p]
<1>1. PICK d \in Seq(K) :
        /\ d = Cut(c, p) /\ Len(d) = Len(c) - 1
        /\ \A j \in 1 .. Len(c) - 1 : d[j] = IF j < p THEN c[j] ELSE c[j + 1]
  BY RemoveAtIs
<1>2. Len(c) \in Nat
  OBVIOUS
<1> DEFINE up(j) == IF j < p THEN j ELSE j + 1
<1>3. \A j \in 1 .. Len(c) - 1 : /\ up(j) \in 1 .. Len(c) /\ up(j) # p /\ d[j] = c[up(j)]
                                 /\ \A i \in 1 .. Len(c) - 1 : up(i) = up(j) => i = j
  BY <1>1, <1>2
<1>4. \A i \in 1 .. Len(c) : i # p => \E j \in 1 .. Len(c) - 1 : up(j) = i
  <2> SUFFICES ASSUME NEW i \in 1 .. Len(c), i # p PROVE \E j \in 1 .. Len(c) - 1 : up(j) = i
    OBVIOUS
  <2>1. CASE i < p
    <3>1. i \in 1 .. Len(c) - 1 /\ up(i) = i
      BY <1>2, <2>1
    <3> QED BY <3>1
  <2>2. CASE i > p
    <3>1. i - 1 \in 1 .. Len(c) - 1 /\ up(i - 1) = i
      BY <1>2, <2>2
    <3> QED BY <3>1
  <2> QED BY <1>2, <2>1, <2>2
<1> HIDE DEF up
<1>5. Distinct(d)
  <2> SUFFICES ASSUME NEW i \in 1 .. Len(d), NEW j \in 1 .. Len(d), d[i] = d[j] PROVE i = j
    BY DEF Distinct
  <2>1. up(i) = up(j)
    BY <1>1, <1>3 DEF Distinct
  <2> QED BY <1>1, <1>3, <2>1
<1>6. ASSUME NEW x PROVE In(d, x) <=> In(c, x) /\ x # c[p]
  <2>1. In(d, x) => In(c, x) /\ x # c[p]
    BY <1>1, <1>3 DEF In, Distinct
  <2>2. ASSUME NEW i \in 1 .. Len(c), c[i] = x, x # c[p] PROVE In(d, x)
    <3>1. PICK j \in 1 .. Len(c) - 1 : up(j) = i
      BY <1>4, <2>2
    <3>2. d[j] = x
      BY <1>3, <2>2, <3>1
    <3> QED BY <1>1, <3>2 DEF In
  <2> QED BY <2>1, <2>2 DEF In
<1> QED BY <1>1, <1>5, <1>6

LEMMA FrontDistinct ==
  ASSUME NEW K, NEW c \in Seq(K), Distinct(c), NEW k \in K, ~In(c, k)
  PROVE  /\ InFront(k, c) \in Seq(K) /\ Len(InFront(k, c)) = Len(c) + 1
         /\ Distinct(InFront(k, c))
         /\ \A x : In(InFront(k, c), x) <=> In(c, x) \/ x = k
<1>1. PICK e \in Seq(K) :
        /\ e = InFront(k, c) /\ Len(e) = Len(c) + 1 /\ e[1] = k
        /\ \A j \in 1 .. Len(c) : e[j + 1] = c[j]
  <2>1. /\ InFront(k, c) \in Seq(K) /\ Len(InFront(k, c)) = Len(c) + 1
        /\ InFront(k, c)[1] = k /\ \A j \in 1 .. Len(c) : InFront(k, c)[j + 1] = c[j]
    BY FrontIs
  <2> QED BY <2>1
<1>2. Len(c) \in Nat
  OBVIOUS
<1>3. \A i \in 1 .. Len(e) : i = 1 \/ \E j \in 1 .. Len(c) : i = j + 1
  <2> SUFFICES ASSUME NEW i \in 1 .. Len(e), i # 1 PROVE \E j \in 1 .. Len(c) : i = j + 1
    OBVIOUS
  <2>1. i - 1 \in 1 .. Len(c) /\ i = (i - 1) + 1
    BY <1>1, <1>2
  <2> QED BY <2>1
<1>4. \A j \in 1 .. Len(c) : j + 1 \in 1 .. Len(e) /\ e[j + 1] # k
  BY <1>1, <1>2 DEF In
<1>5. Distinct(e)
  <2> SUFFICES ASSUME NEW i \in 1 .. Len(e), NEW j \in 1 .. Len(e), e[i] = e[j] PROVE i = j
    BY DEF Distinct
  <2>1. CASE i = 1 \/ j = 1
    BY <1>1, <1>3, <1>4, <2>1
  <2>2. CASE i # 1 /\ j # 1
    <3>1. PICK a \in 1 .. Len(c), b \in 1 .. Len(c) : i = a + 1 /\ j = b + 1
      BY <1>3, <2>2
    <3>2. a = b
      BY <1>1, <3>1 DEF Distinct
    <3> QED BY <3>1, <3>2
  <2> QED BY <2>1, <2>2
<1>6. ASSUME NEW x PROVE In(e, x) <=> In(c, x) \/ x = k
  <2>1. ASSUME In(e, x) PROVE In(c, x) \/ x = k
    <3>1. PICK i \in 1 .. Len(e) : e[i] = x
      BY <2>1 DEF In
    <3>2. CASE i = 1
      BY <1>1, <3>1, <3>2
    <3>3. ASSUME NEW j \in 1 .. Len(c), i = j + 1 PROVE In(c, x)
      <4>1. c[j] = x
        BY <1>1, <3>1, <3>3
      <4> QED BY <4>1 DEF In
    <3> QED BY <1>3, <3>2, <3>3
  <2>2. In(c, x) => In(e, x)
    BY <1>1, <1>4 DEF In
  <2>3. In(e, k)
    BY <1>1, <1>2 DEF In
  <2> QED BY <2>1, <2>2, <2>3
<1> QED BY <1>1, <1>5, <1>6

LEMMA ListsCut ==
  ASSUME NEW K, NEW T, NEW c, NEW r, Tabled(c, r, K, T), NEW p, p \in 1 .. Len(c)
  PROVE  Lists(Cut(c, p), r) = Cut(Lists(c, r), p)
<1>0. c \in Seq(K) /\ TableOf(r, K, T)
  BY DEF Tabled
<1>1. PICK d \in Seq(K) :
        /\ d = Cut(c, p) /\ Len(d) = Len(c) - 1
        /\ \A j \in 1 .. Len(c) - 1 : d[j] = IF j < p THEN c[j] ELSE c[j + 1]
  BY <1>0, RemoveAtIs
<1>2. PICK s \in Seq(T) :
        /\ s = Lists(c, r) /\ Len(s) = Len(c)
        /\ \A i \in 1 .. Len(c) : c[i] \in K /\ s[i] = r[c[i]]
  <2>1. /\ Lists(c, r) \in Seq(T) /\ Len(Lists(c, r)) = Len(c)
        /\ \A i \in 1 .. Len(c) : c[i] \in K /\ Lists(c, r)[i] = r[c[i]]
    BY <1>0, ListsAre
  <2> QED BY <2>1
<1>3. PICK t \in Seq(T) :
        /\ t = Cut(s, p) /\ Len(t) = Len(c) - 1
        /\ \A j \in 1 .. Len(c) - 1 : t[j] = IF j < p THEN s[j] ELSE s[j + 1]
  <2>1. p \in 1 .. Len(s)
    BY <1>2
  <2>2. /\ Cut(s, p) \in Seq(T) /\ Len(Cut(s, p)) = Len(s) - 1
        /\ \A j \in 1 .. Len(s) - 1 : Cut(s, p)[j] = IF j < p THEN s[j] ELSE s[j + 1]
    BY <2>1, RemoveAtIs
  <2> QED BY <1>2, <2>2
<1>4. PICK u \in Seq(T) :
        /\ u = Lists(d, r) /\ Len(u) = Len(d)
        /\ \A i \in 1 .. Len(d) : d[i] \in K /\ u[i] = r[d[i]]
  <2>1. /\ Lists(d, r) \in Seq(T) /\ Len(Lists(d, r)) = Len(d)
        /\ \A i \in 1 .. Len(d) : d[i] \in K /\ Lists(d, r)[i] = r[d[i]]
    BY <1>0, ListsAre
  <2> QED BY <2>1
<1>5. Len(c) \in Nat
  BY <1>0
<1>6. ASSUME NEW j \in 1 .. Len(c) - 1 PROVE u[j] = t[j]
  <2>1. j \in 1 .. Len(c) /\ j + 1 \in 1 .. Len(c) /\ j \in 1 .. Len(d)
    BY <1>1, <1>5
  <2>2. u[j] = r[d[j]] /\ s[j] = r[c[j]] /\ s[j + 1] = r[c[j + 1]]
    BY <1>2, <1>4, <2>1
  <2>3. d[j] = IF j < p THEN c[j] ELSE c[j + 1]
    BY <1>1
  <2>4. t[j] = IF j < p THEN s[j] ELSE s[j + 1]
    BY <1>3
  <2> QED BY <2>2, <2>3, <2>4
<1>7. u = t
  BY <1>1, <1>3, <1>4, <1>6, SeqEqual
<1> QED BY <1>1, <1>2, <1>3, <1>4, <1>7

LEMMA ListsSpared ==
  ASSUME NEW K, NEW T, NEW c \in Seq(K), Distinct(c), NEW r,
         TableOf(r, K, T)
  PROVE  /\ \A p \in 1 .. Len(c) : SparedKey(Lists(c, r), c[p]) = Lists(Cut(c, p), r)
         /\ \A k : ~In(c, k) => SparedKey(Lists(c, r), k) = Lists(c, r)
<1>1. PICK s \in Seq(T) :
        /\ s = Lists(c, r) /\ Len(s) = Len(c)
        /\ \A i \in 1 .. Len(c) : c[i] \in K /\ s[i] = r[c[i]]
  <2>1. /\ Lists(c, r) \in Seq(T) /\ Len(Lists(c, r)) = Len(c)
        /\ \A i \in 1 .. Len(c) : c[i] \in K /\ Lists(c, r)[i] = r[c[i]]
    BY ListsAre
  <2> QED BY <2>1
<1>2. \A i \in 1 .. Len(c) : s[i].key = c[i]
  BY <1>1 DEF TableOf
<1>3. \A i, j \in 1 .. Len(s) : s[i].key = s[j].key => i = j
  BY <1>1, <1>2 DEF Distinct
<1>4. ASSUME NEW k
      PROVE  /\ \A i \in 1 .. Len(s) : s[i].key = k => SparedKey(s, k) = Cut(s, i)
             /\ (\A i \in 1 .. Len(s) : s[i].key # k) => SparedKey(s, k) = s
  BY <1>3, SparedIs
<1>5. ASSUME NEW p \in 1 .. Len(c) PROVE SparedKey(s, c[p]) = Lists(Cut(c, p), r)
  <2>1. SparedKey(s, c[p]) = Cut(s, p)
    BY <1>1, <1>2, <1>4
  <2>2. Tabled(c, r, K, T)
    BY DEF Tabled
  <2>3. Lists(Cut(c, p), r) = Cut(Lists(c, r), p)
    BY <2>2, ListsCut
  <2> QED BY <1>1, <2>1, <2>3
<1>6. ASSUME NEW k, ~In(c, k) PROVE SparedKey(s, k) = s
  BY <1>1, <1>2, <1>4, <1>6 DEF In
<1> QED BY <1>1, <1>5, <1>6

\* The tables r and q have the same entries for the keys of c.
Agree(c, r, q, K, T) ==
  /\ c \in Seq(K) /\ TableOf(r, K, T) /\ TableOf(q, K, T)
  /\ \A i \in 1 .. Len(c) : q[c[i]] = r[c[i]]

LEMMA ListsFront ==
  ASSUME NEW K, NEW T, NEW k \in K, NEW c, NEW r, NEW q, Agree(c, r, q, K, T)
  PROVE  Lists(InFront(k, c), q) = InFront(q[k], Lists(c, r))
<1>0. c \in Seq(K) /\ TableOf(r, K, T) /\ TableOf(q, K, T)
  BY DEF Agree
<1>1. PICK e \in Seq(K) :
        /\ e = InFront(k, c) /\ Len(e) = Len(c) + 1 /\ e[1] = k
        /\ \A j \in 1 .. Len(c) : e[j + 1] = c[j]
  <2>1. /\ InFront(k, c) \in Seq(K) /\ Len(InFront(k, c)) = Len(c) + 1
        /\ InFront(k, c)[1] = k /\ \A j \in 1 .. Len(c) : InFront(k, c)[j + 1] = c[j]
    BY <1>0, FrontIs
  <2> QED BY <2>1
<1>2. PICK s \in Seq(T) :
        /\ s = Lists(c, r) /\ Len(s) = Len(c)
        /\ \A i \in 1 .. Len(c) : c[i] \in K /\ s[i] = r[c[i]]
  <2>1. /\ Lists(c, r) \in Seq(T) /\ Len(Lists(c, r)) = Len(c)
        /\ \A i \in 1 .. Len(c) : c[i] \in K /\ Lists(c, r)[i] = r[c[i]]
    BY <1>0, <1>1, ListsAre
  <2> QED BY <2>1
<1>3. PICK u \in Seq(T) :
        /\ u = Lists(e, q) /\ Len(u) = Len(e)
        /\ \A i \in 1 .. Len(e) : e[i] \in K /\ u[i] = q[e[i]]
  <2>1. /\ Lists(e, q) \in Seq(T) /\ Len(Lists(e, q)) = Len(e)
        /\ \A i \in 1 .. Len(e) : e[i] \in K /\ Lists(e, q)[i] = q[e[i]]
    BY <1>0, ListsAre
  <2> QED BY <2>1
<1>4. PICK t \in Seq(T) :
        /\ t = InFront(q[k], s) /\ Len(t) = Len(s) + 1 /\ t[1] = q[k]
        /\ \A j \in 1 .. Len(s) : t[j + 1] = s[j]
  <2>1. PICK x \in T : x = q[k]
    BY <1>0 DEF TableOf
  <2>2. /\ InFront(x, s) \in Seq(T) /\ Len(InFront(x, s)) = Len(s) + 1
        /\ InFront(x, s)[1] = x /\ \A j \in 1 .. Len(s) : InFront(x, s)[j + 1] = s[j]
    BY FrontIs
  <2> QED BY <2>1, <2>2
<1>5. Len(c) \in Nat
  BY <1>0
<1>6. ASSUME NEW i \in 1 .. Len(u) PROVE u[i] = t[i]
  <2>1. CASE i = 1
    <3>1. 1 \in 1 .. Len(e)
      BY <1>1, <1>5
    <3>2. u[1] = q[e[1]]
      BY <1>3, <3>1
    <3> QED BY <1>1, <1>4, <2>1, <3>2
  <2>2. CASE i # 1
    <3>1. PICK j \in 1 .. Len(c) : i = j + 1
      <4>1. i - 1 \in 1 .. Len(c) /\ i = (i - 1) + 1
        <5>1. i \in 1 .. Len(c) + 1
          BY <1>1, <1>3
        <5> QED BY <1>5, <2>2, <5>1
      <4> QED BY <4>1
    <3>2. u[j + 1] = q[e[j + 1]] /\ e[j + 1] = c[j]
      BY <1>1, <1>3, <3>1
    <3>3. t[j + 1] = s[j] /\ s[j] = r[c[j]] /\ q[c[j]] = r[c[j]]
      BY <1>2, <1>4 DEF Agree
    <3> QED BY <3>1, <3>2, <3>3
  <2> QED BY <2>1, <2>2
<1>7. Len(u) = Len(t)
  BY <1>1, <1>2, <1>3, <1>4
<1>8. u = t
  BY <1>3, <1>4, <1>6, <1>7, SeqEqual
<1> QED BY <1>1, <1>2, <1>3, <1>4, <1>8

-----------------------------------------------------------------------------
(* The LRU cache *)

\* The circle through the dummy: place 0 and place Len(c) + 1 are the dummy's.
Place(D, c, i) == IF i \in 1 .. Len(c) THEN c[i] ELSE D

Circle(D, l, c) == \A i \in 0 .. Len(c) : /\ l.next[Place(D, c, i)] = Place(D, c, i + 1)
                                          /\ l.prev[Place(D, c, i + 1)] = Place(D, c, i)

Links(K, D, R) == [prev : [K \cup {D} -> R], next : [K \cup {D} -> R]]

\* x linked in behind the dummy.
Fronted(D, l, x) ==
  LET first == l.next[D]
  IN  [prev |-> [l.prev EXCEPT ![x] = D, ![first] = x],
       next |-> [l.next EXCEPT ![x] = first, ![D] = x]]

LEMMA PlacesApart ==
  ASSUME NEW K, NEW D, D \notin K, NEW c \in Seq(K), Distinct(c)
  PROVE  /\ Len(c) \in Nat
         /\ Place(D, c, 0) = D /\ Place(D, c, Len(c) + 1) = D
         /\ \A i \in 1 .. Len(c) : Place(D, c, i) = c[i] /\ c[i] \in K /\ c[i] # D
         /\ \A i \in 0 .. Len(c) + 1 : Place(D, c, i) \in (K \cup {D})
         /\ \A i, j \in 0 .. Len(c) : Place(D, c, i) = Place(D, c, j) => i = j
         /\ \A i, j \in 1 .. Len(c) + 1 : Place(D, c, i) = Place(D, c, j) => i = j
<1>1. Len(c) \in Nat /\ \A i \in 1 .. Len(c) : c[i] \in K /\ c[i] # D
  OBVIOUS
<1>2. /\ \A i \in 1 .. Len(c) : Place(D, c, i) = c[i]
      /\ \A i \in Nat : i \notin 1 .. Len(c) => Place(D, c, i) = D
  BY DEF Place
<1>3. 0 \notin 1 .. Len(c) /\ Len(c) + 1 \notin 1 .. Len(c)
  BY <1>1
<1>4. \A i \in 0 .. Len(c) + 1 : Place(D, c, i) \in (K \cup {D})
  BY <1>1 DEF Place
<1>5. ASSUME NEW i \in 0 .. Len(c), NEW j \in 0 .. Len(c), Place(D, c, i) = Place(D, c, j) PROVE i = j
  <2>1. (i \in 1 .. Len(c) \/ i = 0) /\ (j \in 1 .. Len(c) \/ j = 0)
    BY <1>1
  <2> QED BY <1>1, <1>2, <1>3, <1>5, <2>1 DEF Distinct
<1>6. ASSUME NEW i \in 1 .. Len(c) + 1, NEW j \in 1 .. Len(c) + 1, Place(D, c, i) = Place(D, c, j)
      PROVE  i = j
  <2>1. (i \in 1 .. Len(c) \/ i = Len(c) + 1) /\ (j \in 1 .. Len(c) \/ j = Len(c) + 1)
    BY <1>1
  <2> QED BY <1>1, <1>2, <1>3, <1>6, <2>1 DEF Distinct
<1> QED BY <1>1, <1>2, <1>3, <1>4, <1>5, <1>6

LEMMA UnlinkCuts ==
  ASSUME NEW K, NEW D, D \notin K, NEW R, K \cup {D} \subseteq R,
         NEW c \in Seq(K), Distinct(c), NEW l \in Links(K, D, R), Circle(D, l, c),
         NEW p \in 1 .. Len(c)
  PROVE  Unlink(l, c[p]) \in Links(K, D, R) /\ Circle(D, Unlink(l, c[p]), Cut(c, p))
<1>1. /\ Len(c) \in Nat
      /\ Place(D, c, 0) = D /\ Place(D, c, Len(c) + 1) = D
      /\ \A i \in 1 .. Len(c) : Place(D, c, i) = c[i] /\ c[i] \in K /\ c[i] # D
      /\ \A i \in 0 .. Len(c) + 1 : Place(D, c, i) \in (K \cup {D})
      /\ \A i, j \in 0 .. Len(c) : Place(D, c, i) = Place(D, c, j) => i = j
      /\ \A i, j \in 1 .. Len(c) + 1 : Place(D, c, i) = Place(D, c, j) => i = j
  BY PlacesApart
<1>2. PICK a, b : a = Place(D, c, p - 1) /\ b = Place(D, c, p + 1)
  OBVIOUS
<1>3. p - 1 \in 0 .. Len(c) /\ p \in 0 .. Len(c) /\ (p - 1) + 1 = p
      /\ p - 1 \in 0 .. Len(c) + 1 /\ p + 1 \in 0 .. Len(c) + 1 /\ p + 1 \in 1 .. Len(c) + 1
  BY <1>1
<1>4. a \in (K \cup {D}) /\ b \in (K \cup {D})
  BY <1>1, <1>2, <1>3
<1>5. l.prev[c[p]] = a /\ l.next[c[p]] = b
  <2>1. l.prev[Place(D, c, (p - 1) + 1)] = Place(D, c, p - 1) /\ l.next[Place(D, c, p)] = Place(D, c, p + 1)
    BY <1>3 DEF Circle
  <2> QED BY <1>1, <1>2, <1>3, <2>1
<1>6. PICK u : u = Unlink(l, c[p])
  OBVIOUS
<1>7. /\ u.next = [l.next EXCEPT ![a] = b] /\ u.prev = [l.prev EXCEPT ![b] = a]
      /\ u \in Links(K, D, R)
  BY <1>4, <1>5, <1>6 DEF Unlink, Links
<1>8. /\ u.next[a] = b /\ \A x \in (K \cup {D}) : x # a => u.next[x] = l.next[x]
      /\ u.prev[b] = a /\ \A x \in (K \cup {D}) : x # b => u.prev[x] = l.prev[x]
  BY <1>4, <1>7 DEF Links
<1>9. PICK d \in Seq(K) :
        /\ d = Cut(c, p) /\ Len(d) = Len(c) - 1
        /\ \A j \in 1 .. Len(c) - 1 : d[j] = IF j < p THEN c[j] ELSE c[j + 1]
  BY RemoveAtIs
<1>10. ASSUME NEW i \in 0 .. Len(c)
       PROVE  Place(D, d, i) = IF i < p THEN Place(D, c, i) ELSE Place(D, c, i + 1)
  <2>1. CASE i \in 1 .. Len(c) - 1
    <3>1. i \in 1 .. Len(c) /\ i + 1 \in 1 .. Len(c) /\ i \in 1 .. Len(d)
      BY <1>1, <1>9, <2>1
    <3> QED BY <1>9, <2>1, <3>1 DEF Place
  <2>2. CASE i = 0
    <3>1. 0 \notin 1 .. Len(d) /\ 0 < p
      OBVIOUS
    <3> QED BY <1>1, <2>2, <3>1 DEF Place
  <2>3. CASE i = Len(c)
    <3>1. i \notin 1 .. Len(d) /\ ~(i < p)
      BY <1>1, <1>9, <2>3
    <3> QED BY <1>1, <2>3, <3>1 DEF Place
  <2> QED BY <1>1, <2>1, <2>2, <2>3
<1>11. ASSUME NEW i \in 0 .. Len(d)
       PROVE  u.next[Place(D, d, i)] = Place(D, d, i + 1) /\ u.prev[Place(D, d, i + 1)] = Place(D, d, i)
  <2>0. i \in 0 .. Len(c) /\ i + 1 \in 0 .. Len(c) /\ i + 1 \in 1 .. Len(c) + 1
        /\ i \in 0 .. Len(c) + 1 /\ i + 1 \in 0 .. Len(c) + 1 /\ i + 2 \in 0 .. Len(c) + 1
        /\ i + 2 \in 1 .. Len(c) + 1 /\ (i + 1) + 1 = i + 2
    BY <1>1, <1>9
  <2>1. CASE i < p - 1
    <3>1. i < p /\ i + 1 < p /\ i # p - 1 /\ i + 1 # p + 1
      BY <2>1, <2>0
    <3>2. Place(D, d, i) = Place(D, c, i) /\ Place(D, d, i + 1) = Place(D, c, i + 1)
      BY <1>10, <2>0, <3>1
    <3>3. Place(D, c, i) # a /\ Place(D, c, i + 1) # b
      BY <1>1, <1>2, <1>3, <2>0, <3>1
    <3>4. l.next[Place(D, c, i)] = Place(D, c, i + 1) /\ l.prev[Place(D, c, i + 1)] = Place(D, c, i)
      BY <2>0 DEF Circle
    <3>5. Place(D, c, i) \in (K \cup {D}) /\ Place(D, c, i + 1) \in (K \cup {D})
      BY <1>1, <2>0
    <3> QED BY <1>8, <3>2, <3>3, <3>4, <3>5
  <2>2. CASE i = p - 1
    <3>1. i < p /\ ~(i + 1 < p) /\ i + 2 = p + 1
      BY <2>2, <2>0
    <3>2. Place(D, d, i) = a /\ Place(D, d, i + 1) = b
      BY <1>2, <1>10, <2>0, <2>2, <3>1
    <3> QED BY <1>8, <3>2
  <2>3. CASE i > p - 1
    <3>1. ~(i < p) /\ ~(i + 1 < p) /\ i + 1 # p - 1 /\ i + 2 # p + 1
      BY <2>3, <2>0
    <3>2. Place(D, d, i) = Place(D, c, i + 1) /\ Place(D, d, i + 1) = Place(D, c, i + 2)
      BY <1>10, <2>0, <3>1
    <3>3. Place(D, c, i + 1) # a /\ Place(D, c, i + 2) # b
      BY <1>1, <1>2, <1>3, <2>0, <3>1
    <3>4. l.next[Place(D, c, i + 1)] = Place(D, c, i + 2) /\ l.prev[Place(D, c, i + 2)] = Place(D, c, i + 1)
      BY <2>0 DEF Circle
    <3>5. Place(D, c, i + 1) \in (K \cup {D}) /\ Place(D, c, i + 2) \in (K \cup {D})
      BY <1>1, <2>0
    <3> QED BY <1>8, <3>2, <3>3, <3>4, <3>5
  <2> QED BY <2>0, <2>1, <2>2, <2>3
<1>12. Circle(D, u, d)
  BY <1>11 DEF Circle
<1> QED BY <1>6, <1>7, <1>9, <1>12

LEMMA LinkFronts ==
  ASSUME NEW K, NEW D, D \notin K, NEW R, K \cup {D} \subseteq R,
         NEW c \in Seq(K), Distinct(c), NEW l \in Links(K, D, R), Circle(D, l, c),
         NEW x \in K, ~In(c, x)
  PROVE  Fronted(D, l, x) \in Links(K, D, R) /\ Circle(D, Fronted(D, l, x), InFront(x, c))
<1>1. /\ Len(c) \in Nat
      /\ Place(D, c, 0) = D /\ Place(D, c, Len(c) + 1) = D
      /\ \A i \in 1 .. Len(c) : Place(D, c, i) = c[i] /\ c[i] \in K /\ c[i] # D
      /\ \A i \in 0 .. Len(c) + 1 : Place(D, c, i) \in (K \cup {D})
      /\ \A i, j \in 1 .. Len(c) + 1 : Place(D, c, i) = Place(D, c, j) => i = j
  BY PlacesApart
<1>2. PICK f : f = Place(D, c, 1)
  OBVIOUS
<1>3. l.next[D] = f
  <2>1. l.next[Place(D, c, 0)] = Place(D, c, 0 + 1)
    BY <1>1 DEF Circle
  <2> QED BY <1>1, <1>2, <2>1
<1>4. x # D /\ x \in (K \cup {D}) /\ D \in (K \cup {D})
  OBVIOUS
<1>5. \A i \in 1 .. Len(c) + 1 : Place(D, c, i) # x
  <2> SUFFICES ASSUME NEW i \in 1 .. Len(c) + 1 PROVE Place(D, c, i) # x
    OBVIOUS
  <2>1. i \in 1 .. Len(c) \/ i = Len(c) + 1
    BY <1>1
  <2> QED BY <1>1, <1>4, <2>1 DEF In
<1>6. 1 \in 1 .. Len(c) + 1 /\ 1 \in 0 .. Len(c) + 1
  BY <1>1
<1>7. f \in (K \cup {D}) /\ f # x
  BY <1>1, <1>2, <1>5, <1>6
<1>8. PICK u : u = Fronted(D, l, x)
  OBVIOUS
<1>9. /\ u.prev = [l.prev EXCEPT ![x] = D, ![f] = x]
      /\ u.next = [l.next EXCEPT ![x] = f, ![D] = x]
      /\ u \in Links(K, D, R)
  BY <1>3, <1>4, <1>7, <1>8 DEF Fronted, Links
<1>10. /\ u.prev[x] = D /\ u.prev[f] = x /\ u.next[x] = f /\ u.next[D] = x
       /\ \A y \in (K \cup {D}) : y # x /\ y # f => u.prev[y] = l.prev[y]
       /\ \A y \in (K \cup {D}) : y # x /\ y # D => u.next[y] = l.next[y]
  BY <1>4, <1>7, <1>9 DEF Links
<1>11. PICK e \in Seq(K) :
         /\ e = InFront(x, c) /\ Len(e) = Len(c) + 1 /\ e[1] = x
         /\ \A j \in 1 .. Len(c) : e[j + 1] = c[j]
  <2>1. /\ InFront(x, c) \in Seq(K) /\ Len(InFront(x, c)) = Len(c) + 1
        /\ InFront(x, c)[1] = x /\ \A j \in 1 .. Len(c) : InFront(x, c)[j + 1] = c[j]
    BY FrontIs
  <2> QED BY <2>1
<1>12. Place(D, e, 0) = D /\ Place(D, e, 1) = x
  <2>1. 0 \notin 1 .. Len(e) /\ 1 \in 1 .. Len(e)
    BY <1>1, <1>11
  <2> QED BY <1>11, <2>1 DEF Place
<1>13. ASSUME NEW i \in 1 .. Len(c) + 1 PROVE Place(D, e, i + 1) = Place(D, c, i)
  <2>1. CASE i \in 1 .. Len(c)
    <3>1. i + 1 \in 1 .. Len(e)
      BY <1>1, <1>11, <2>1
    <3> QED BY <1>11, <2>1, <3>1 DEF Place
  <2>2. CASE i = Len(c) + 1
    <3>1. i + 1 \notin 1 .. Len(e) /\ i \notin 1 .. Len(c)
      BY <1>1, <1>11, <2>2
    <3> QED BY <3>1 DEF Place
  <2> QED BY <1>1, <2>1, <2>2
<1>14. ASSUME NEW i \in 0 .. Len(e)
       PROVE  u.next[Place(D, e, i)] = Place(D, e, i + 1) /\ u.prev[Place(D, e, i + 1)] = Place(D, e, i)
  <2>1. CASE i = 0
    BY <1>10, <1>12, <2>1
  <2>2. CASE i = 1
    <3>1. Place(D, e, 1 + 1) = f
      BY <1>2, <1>6, <1>13
    <3> QED BY <1>10, <1>12, <2>2, <3>1
  <2>3. CASE i > 1
    <3>1. PICK j \in 1 .. Len(c) : i = j + 1
      <4>1. i - 1 \in 1 .. Len(c) /\ i = (i - 1) + 1
        BY <1>1, <1>11, <2>3
      <4> QED BY <4>1
    <3>2. j \in 1 .. Len(c) + 1 /\ j + 1 \in 1 .. Len(c) + 1 /\ j \in 0 .. Len(c) + 1
          /\ j + 1 \in 0 .. Len(c) + 1 /\ j + 1 # 1 /\ j \in 0 .. Len(c)
      BY <1>1
    <3>3. Place(D, e, i) = Place(D, c, j) /\ Place(D, e, i + 1) = Place(D, c, j + 1)
      BY <1>13, <3>1, <3>2
    <3>4. l.next[Place(D, c, j)] = Place(D, c, j + 1) /\ l.prev[Place(D, c, j + 1)] = Place(D, c, j)
      BY <3>2 DEF Circle
    <3>5. /\ Place(D, c, j) \in (K \cup {D}) /\ Place(D, c, j + 1) \in (K \cup {D})
          /\ Place(D, c, j) # x /\ Place(D, c, j + 1) # x /\ Place(D, c, j) # D /\ Place(D, c, j + 1) # f
      BY <1>1, <1>2, <1>5, <1>6, <3>2
    <3> QED BY <1>10, <3>3, <3>4, <3>5
  <2> QED BY <1>1, <1>11, <2>1, <2>2, <2>3
<1>15. Circle(D, u, e)
  BY <1>14 DEF Circle
<1> QED BY <1>8, <1>9, <1>11, <1>15

\* The nodes from the dummy on are those of the list.
LEMMA ForwardIs ==
  ASSUME NEW c \in Seq(CacheKeys), NEW l, Circle(Dummy, l, c)
  PROVE  \A i \in 1 .. Len(c) :
           (CHOOSE g : g = [j \in 0 .. Len(c) |->
                              IF j = 0 THEN Dummy ELSE l.next[g[j - 1]]])[i] = c[i]
<1>1. Len(c) \in Nat
  OBVIOUS
<1> DEFINE m == Len(c)
           Is(g) == g = [j \in 0 .. m |-> IF j = 0 THEN Dummy ELSE l.next[g[j - 1]]]
           w == [j \in 0 .. m |-> Place(Dummy, c, j)]
<1>2. Place(Dummy, c, 0) = Dummy
  <2>1. 0 \notin 1 .. m
    OBVIOUS
  <2> QED BY <2>1 DEF Place
<1>3. \A j \in 0 .. m : j # 0 => j - 1 \in 0 .. m /\ (j - 1) + 1 = j
  BY <1>1
<1>4. \A j \in 0 .. m : l.next[Place(Dummy, c, j)] = Place(Dummy, c, j + 1)
  BY DEF Circle
<1>5. Is(w)
  <2>1. \A j \in 0 .. m : j # 0 => Place(Dummy, c, j) = l.next[w[j - 1]]
    BY <1>3, <1>4
  <2> QED BY <1>2, <2>1
<1>6. PICK g : g = CHOOSE h : Is(h)
  BY SMTT(30)
<1>7. Is(g)
  BY <1>5, <1>6
<1>8. g[0] = Dummy /\ \A j \in 1 .. m : g[j] = l.next[g[j - 1]]
  <2>1. \A j \in 0 .. m : g[j] = IF j = 0 THEN Dummy ELSE l.next[g[j - 1]]
    BY <1>7
  <2>2. 0 \in 0 .. m /\ \A j \in 1 .. m : j \in 0 .. m /\ j # 0
    BY <1>1
  <2> HIDE DEF Is, m
  <2> QED BY <2>1, <2>2
<1>9. \A j \in 0 .. m : g[j] = Place(Dummy, c, j)
  <2> DEFINE T == {j \in 0 .. m : g[j] # Place(Dummy, c, j)}
  <2> SUFFICES ASSUME T # {} PROVE FALSE
    OBVIOUS
  <2>1. PICK j \in T : \A i \in T : j <= i
    <3>1. T \in SUBSET Nat
      OBVIOUS
    <3> QED BY <3>1, NatMin
  <2>2. j # 0
    BY <1>2, <1>8, <2>1
  <2>3. j - 1 \in 0 .. m /\ (j - 1) + 1 = j /\ j \in 1 .. m /\ ~(j <= j - 1)
    BY <1>1, <1>3, <2>1, <2>2
  <2>4. g[j - 1] = Place(Dummy, c, j - 1)
    BY <2>1, <2>3
  <2>5. g[j] = Place(Dummy, c, j)
    BY <1>4, <1>8, <2>3, <2>4
  <2> QED BY <2>1, <2>5
<1>10. \A i \in 1 .. m : g[i] = c[i]
  BY <1>1, <1>9 DEF Place
<1> QED BY <1>6, <1>10

LruItem == [key : CacheKeys, val : CacheValues \cup {NotFound}, freq : {0}, stamp : Nat]

LruTable == [k \in CacheKeys |->
              [key |-> k, val |-> val[k], freq |-> 0, stamp |-> timestamp[k]]]

LruType == /\ capacity \in Nat \ {0} /\ ttl \in Nat \cup {Never}
           /\ keyToNode \subseteq CacheKeys
           /\ val \in [CacheKeys -> CacheValues \cup {NotFound}]
           /\ timestamp \in [CacheKeys -> Nat] /\ lruTime \in Nat

\* The circle is of the keys c, which are those of the map.
LruList(c) == /\ Distinct(c) /\ Len(c) <= capacity
              /\ \A x : In(c, x) <=> x \in keyToNode
              /\ links \in Links(CacheKeys, Dummy, LruNodes) /\ Circle(Dummy, links, c)

LruInv == LruType /\ \E c \in Seq(CacheKeys) : LruList(c)

LEMMA TableIs ==
  LruType => \A k \in CacheKeys : /\ LruTable[k] \in LruItem /\ LruTable[k].key = k
                                  /\ LruTable[k].val = val[k] /\ LruTable[k].freq = 0
                                  /\ LruTable[k].stamp = timestamp[k]
BY DEF LruType, LruTable, LruItem

LEMMA TableIsNext ==
  LruType' => \A k \in CacheKeys : /\ LruTable'[k] \in LruItem /\ LruTable'[k].key = k
                                   /\ LruTable'[k].val = val'[k] /\ LruTable'[k].freq = 0
                                   /\ LruTable'[k].stamp = timestamp'[k]
BY DEF LruType, LruTable, LruItem

LEMMA KeysCounted ==
  ASSUME NEW c \in Seq(CacheKeys), Distinct(c), NEW S, S \subseteq CacheKeys,
         \A x : In(c, x) <=> x \in S
  PROVE  Cardinality(S) = Len(c)
<1>1. S = {x \in CacheKeys : In(c, x)}
  OBVIOUS
<1> QED BY <1>1, DistinctCounts

LEMMA LruShown ==
  ASSUME NEW c \in Seq(CacheKeys), LruType, LruList(c)
  PROVE  LruEntries = Lists(c, LruTable)
<1>1. Cardinality(keyToNode) = Len(c)
  BY KeysCounted DEF LruType, LruList
<1>2. \A i \in 1 .. Len(c) : Forward[i] = c[i]
  BY <1>1, ForwardIs DEF LruList, Forward
<1>3. \A i \in 1 .. Len(c) : c[i] \in CacheKeys
  OBVIOUS
<1> QED BY <1>1, <1>2, <1>3 DEF LruEntries, Lists, LruTable

LEMMA LruShownNext ==
  ASSUME NEW c \in Seq(CacheKeys), LruType', LruList(c)'
  PROVE  LruEntries' = Lists(c, LruTable')
<1>1. Cardinality(keyToNode') = Len(c)
  BY KeysCounted DEF LruType, LruList
<1>2. \A i \in 1 .. Len(c) : Forward'[i] = c[i]
  BY <1>1, ForwardIs DEF LruList, Forward
<1>3. \A i \in 1 .. Len(c) : c[i] \in CacheKeys
  OBVIOUS
<1> QED BY <1>1, <1>2, <1>3 DEF LruEntries, Lists, LruTable

\* c without k, if it is there.
Bare(c, k, d) == \/ ~In(c, k) /\ d = c
                 \/ \E p \in 1 .. Len(c) : c[p] = k /\ d = Cut(c, p)

Bared(K, c, k, d) == /\ d \in Seq(K) /\ Bare(c, k, d) /\ Distinct(d)
                     /\ Len(d) \in Nat /\ Len(d) <= Len(c)
                     /\ In(c, k) => Len(d) = Len(c) - 1
                     /\ \A x : In(d, x) <=> In(c, x) /\ x # k

LEMMA BareIs ==
  ASSUME NEW K, NEW c \in Seq(K), Distinct(c), NEW k
  PROVE  \E d : Bared(K, c, k, d)
<1>1. Len(c) \in Nat
  OBVIOUS
<1>2. CASE ~In(c, k)
  <2>1. Bared(K, c, k, c)
    BY <1>1, <1>2 DEF Bared, Bare
  <2> QED BY <2>1
<1>3. CASE In(c, k)
  <2>1. PICK p \in 1 .. Len(c) : c[p] = k
    BY <1>3 DEF In
  <2>2. /\ Cut(c, p) \in Seq(K) /\ Len(Cut(c, p)) = Len(c) - 1
        /\ Distinct(Cut(c, p))
        /\ \A x : In(Cut(c, p), x) <=> In(c, x) /\ x # k
    BY <2>1, CutDistinct
  <2>3. Bare(c, k, Cut(c, p))
    BY <2>1 DEF Bare
  <2>4. Len(Cut(c, p)) <= Len(c)
    BY <1>1, <2>2
  <2>5. Bared(K, c, k, Cut(c, p))
    BY <1>1, <2>2, <2>3, <2>4 DEF Bared
  <2> QED BY <2>5
<1> QED BY <1>2, <1>3

LEMMA BareLists ==
  ASSUME NEW K, NEW T, NEW c \in Seq(K), Distinct(c), NEW r,
         TableOf(r, K, T), NEW k, NEW d, Bare(c, k, d)
  PROVE  SparedKey(Lists(c, r), k) = Lists(d, r)
<1>1. /\ \A p \in 1 .. Len(c) : SparedKey(Lists(c, r), c[p]) = Lists(Cut(c, p), r)
      /\ \A x : ~In(c, x) => SparedKey(Lists(c, r), x) = Lists(c, r)
  BY ListsSpared
<1> QED BY <1>1 DEF Bare

\* Swept is the list without the key.
LEMMA BareLinks ==
  ASSUME LruType, NEW c \in Seq(CacheKeys), LruList(c), NEW k \in CacheKeys, NEW d, Bare(c, k, d)
  PROVE  Swept(k) \in Links(CacheKeys, Dummy, LruNodes) /\ Circle(Dummy, Swept(k), d)
<1>1. CASE ~In(c, k) /\ d = c
  BY <1>1 DEF LruList, Swept
<1>2. CASE \E p \in 1 .. Len(c) : c[p] = k /\ d = Cut(c, p)
  <2>1. PICK p \in 1 .. Len(c) : c[p] = k /\ d = Cut(c, p)
    BY <1>2
  <2>2. k \in keyToNode
    BY <2>1 DEF LruList, In
  <2> QED BY <2>1, <2>2, UnlinkCuts, DummyAssumption DEF LruList, Swept, LruNodes
<1> QED BY <1>1, <1>2 DEF Bare

LEMMA LruOthers ==
  ASSUME LruType, NEW c \in Seq(CacheKeys), LruList(c), NEW k, NEW d, Bare(c, k, d)
  PROVE  Lru!Others(k) = Lists(d, LruTable)
<1>1. PICK r : r = LruTable
  OBVIOUS
<1>2. TableOf(r, CacheKeys, LruItem)
  BY <1>1, TableIs DEF TableOf
<1>3. Distinct(c)
  BY DEF LruList
<1>4. SparedKey(Lists(c, r), k) = Lists(d, r)
  BY <1>2, <1>3, BareLists
<1> QED BY <1>1, <1>4, OthersAre, LruShown

LEMMA LruFresh ==
  ASSUME LruType, NEW c \in Seq(CacheKeys), LruList(c), NEW k \in CacheKeys
  PROVE  /\ Found(k) => LruTable[k] \in Lru!Fresh(k)
         /\ ~Found(k) => Lru!Fresh(k) = {}
<1>1. PICK s : s = Lists(c, LruTable)
  OBVIOUS
<1>2. /\ s = LruEntries /\ s \in Seq(LruItem) /\ Len(s) = Len(c)
      /\ \A i \in 1 .. Len(c) : c[i] \in CacheKeys /\ s[i] = LruTable[c[i]]
  <2>1. PICK r : r = LruTable
    OBVIOUS
  <2>2. TableOf(r, CacheKeys, LruItem)
    BY <2>1, TableIs DEF TableOf
  <2>3. /\ Lists(c, r) \in Seq(LruItem) /\ Len(Lists(c, r)) = Len(c)
        /\ \A i \in 1 .. Len(c) : c[i] \in CacheKeys /\ Lists(c, r)[i] = r[c[i]]
    BY <2>2, ListsAre
  <2> QED BY <1>1, <2>1, <2>3, LruShown
<1>3. Lru!Range(s) = {s[i] : i \in 1 .. Len(c)}
  BY <1>2 DEF Lru!Range
<1>4. \A x : x \in Lru!Range(s) <=> \E i \in 1 .. Len(c) : x = LruTable[c[i]]
  BY <1>2, <1>3
<1>5. \A x : x \in Lru!Fresh(k) <=> /\ x \in Lru!Range(s) /\ x.key = k
                                    /\ ~(ttl # Never /\ lruTime - x.stamp > ttl)
  BY <1>2 DEF Lru!Fresh, Lru!Stale
<1>6. CASE Found(k)
  <2>1. PICK i \in 1 .. Len(c) : c[i] = k
    BY <1>6 DEF Found, LruList, In
  <2>2. LruTable[k] \in Lru!Range(s)
    BY <1>4, <2>1
  <2>3. LruTable[k].key = k /\ LruTable[k].stamp = timestamp[k]
    BY TableIs
  <2> QED BY <1>5, <1>6, <2>2, <2>3 DEF Found, Expired
<1>7. CASE ~Found(k)
  <2> SUFFICES ASSUME NEW x \in Lru!Fresh(k) PROVE FALSE
    BY <1>7
  <2>1. PICK i \in 1 .. Len(c) : x = LruTable[c[i]]
    BY <1>4, <1>5
  <2>2. c[i] = k /\ x.stamp = timestamp[k]
    BY <1>2, <1>5, <2>1, TableIs
  <2>3. k \in keyToNode
    BY <2>2 DEF LruList, In
  <2> QED BY <1>5, <1>7, <2>2, <2>3 DEF Found, Expired
<1> QED BY <1>6, <1>7

\* What is shown after a call that leaves k in front.
LEMMA LruShowsFront ==
  ASSUME NEW d \in Seq(CacheKeys), NEW k \in CacheKeys, ~In(d, k),
         LruType, LruType', LruList(InFront(k, d))', InFront(k, d) \in Seq(CacheKeys),
         \A x \in CacheKeys : x # k => val'[x] = val[x] /\ timestamp'[x] = timestamp[x]
  PROVE  LruEntries' = InFront(LruTable'[k], Lists(d, LruTable))
<1>1. LruEntries' = Lists(InFront(k, d), LruTable')
  BY LruShownNext
<1>2. PICK r, q : r = LruTable /\ q = LruTable'
  OBVIOUS
<1>3. TableOf(r, CacheKeys, LruItem) /\ TableOf(q, CacheKeys, LruItem)
  BY <1>2, TableIs, TableIsNext DEF TableOf
<1>4. \A i \in 1 .. Len(d) : d[i] \in CacheKeys /\ d[i] # k
  BY DEF In
<1>5. \A x \in CacheKeys : x # k => q[x] = r[x]
  BY <1>2 DEF LruTable
<1>6. Agree(d, r, q, CacheKeys, LruItem)
  BY <1>3, <1>4, <1>5 DEF Agree
<1>7. Lists(InFront(k, d), q) = InFront(q[k], Lists(d, r))
  BY <1>6, ListsFront
<1> QED BY <1>1, <1>2, <1>7

\* What a use makes of an entry.
Stamped(e, g, n) == [e EXCEPT !.freq = g, !.stamp = n]

Holding(e, v) == [e EXCEPT !.val = v]

LEMMA Restamped ==
  ASSUME NEW k, NEW a, NEW f, NEW t, NEW g, NEW n, NEW e,
         e = [key |-> k, val |-> a, freq |-> f, stamp |-> t]
  PROVE  /\ Stamped(e, g, n) = [key |-> k, val |-> a, freq |-> g, stamp |-> n]
         /\ \A v : Holding(Stamped(e, g, n), v) = [key |-> k, val |-> v, freq |-> g, stamp |-> n]
<1>1. PICK m : m = [e EXCEPT !.freq = g]
  OBVIOUS
<1>2. m = [key |-> k, val |-> a, freq |-> g, stamp |-> t]
  BY <1>1
<1>3. [m EXCEPT !.stamp = n] = [key |-> k, val |-> a, freq |-> g, stamp |-> n]
  BY <1>2
<1>4. [e EXCEPT !.freq = g, !.stamp = n] = [m EXCEPT !.stamp = n]
  BY <1>1
<1>5. PICK u : u = [key |-> k, val |-> a, freq |-> g, stamp |-> n]
  OBVIOUS
<1>6. \A v : [u EXCEPT !.val = v] = [key |-> k, val |-> v, freq |-> g, stamp |-> n]
  BY <1>5
<1> QED BY <1>3, <1>4, <1>5, <1>6 DEF Stamped, Holding

\* A key that is found comes to the front.
LEMMA LruTouches ==
  ASSUME LruInv, NEW k \in CacheKeys, Found(k), Touch(k),
         val' \in [CacheKeys -> CacheValues \cup {NotFound}],
         \A x \in CacheKeys : x # k => val'[x] = val[x],
         UNCHANGED <<capacity, ttl, lruTime>>
  PROVE  /\ LruInv'
         /\ LruEntries' = InFront(LruTable'[k], Lru!Others(k))
         /\ LruTable[k] \in Lru!Fresh(k)
<1>1. LruType /\ k \in keyToNode
  BY DEF LruInv, Found
<1>2. PICK c \in Seq(CacheKeys) : LruList(c)
  BY DEF LruInv
<1>3. Distinct(c) /\ In(c, k) /\ Len(c) \in Nat
  BY <1>1, <1>2 DEF LruList
<1>4. PICK d \in Seq(CacheKeys) :
        /\ Bare(c, k, d) /\ Distinct(d) /\ Len(d) = Len(c) - 1
        /\ \A x : In(d, x) <=> In(c, x) /\ x # k
  <2>1. PICK d : Bared(CacheKeys, c, k, d)
    BY <1>3, BareIs
  <2> QED BY <1>3, <2>1 DEF Bared
<1>5. Swept(k) = Unlink(links, k) /\ Swept(k) \in Links(CacheKeys, Dummy, LruNodes) /\ Circle(Dummy, Swept(k), d)
  BY <1>1, <1>2, <1>4, BareLinks DEF Swept
<1>6. ~In(d, k)
  BY <1>4
<1>7. links' \in Links(CacheKeys, Dummy, LruNodes) /\ Circle(Dummy, links', InFront(k, d))
  BY <1>4, <1>5, <1>6, LinkFronts, DummyAssumption DEF Touch, Link, LruNodes, Fronted
<1>8. /\ InFront(k, d) \in Seq(CacheKeys) /\ Len(InFront(k, d)) = Len(d) + 1
      /\ Distinct(InFront(k, d))
      /\ \A x : In(InFront(k, d), x) <=> In(d, x) \/ x = k
  BY <1>4, <1>6, FrontDistinct
<1>9. /\ timestamp' \in [CacheKeys -> Nat]
      /\ \A x \in CacheKeys : x # k => timestamp'[x] = timestamp[x]
  BY <1>1 DEF Touch, LruType
<1>10. LruType'
  BY <1>1, <1>9 DEF LruType, Touch
<1>11. Len(InFront(k, d)) <= capacity
  BY <1>2, <1>3, <1>4, <1>8 DEF LruList
<1>12. \A x : In(InFront(k, d), x) <=> x \in keyToNode'
  BY <1>1, <1>2, <1>4, <1>8 DEF LruList, Touch
<1>13. LruList(InFront(k, d))'
  BY <1>7, <1>8, <1>11, <1>12 DEF LruList
<1>14. LruInv'
  BY <1>8, <1>10, <1>13 DEF LruInv
<1>15. LruEntries' = InFront(LruTable'[k], Lists(d, LruTable))
  BY <1>1, <1>6, <1>8, <1>9, <1>10, <1>13, LruShowsFront
<1>16. Lru!Others(k) = Lists(d, LruTable)
  BY <1>1, <1>2, <1>4, LruOthers
<1> QED BY <1>1, <1>2, <1>14, <1>15, <1>16, LruFresh

LEMMA LruHits ==
  ASSUME LruInv, NEW k \in CacheKeys, LruHit(k), UNCHANGED <<capacity, ttl, lruTime>>
  PROVE  LruInv' /\ Lru!Hit(k)
<1>1. Found(k) /\ Touch(k) /\ lruAnswer' = val[k] /\ val' = val
  BY DEF LruHit
<1>2. LruType
  BY DEF LruInv
<1>3. LruInv' /\ LruEntries' = InFront(LruTable'[k], Lru!Others(k)) /\ LruTable[k] \in Lru!Fresh(k)
  BY <1>1, <1>2, LruTouches DEF LruType
<1>4. Lru!Used(LruTable[k]) = LruTable'[k] /\ LruTable[k].val = val[k]
  <2>1. timestamp'[k] = lruTime
    BY <1>1, <1>2 DEF Touch, LruType
  <2>2. LruTable[k] = [key |-> k, val |-> val[k], freq |-> 0, stamp |-> timestamp[k]]
    BY DEF LruTable
  <2>3. LruTable'[k] = [key |-> k, val |-> val[k], freq |-> 0, stamp |-> lruTime]
    BY <1>1, <2>1 DEF LruTable
  <2>4. \A e : Lru!Used(e) = Stamped(e, 0, lruTime)
    BY DEF Lru!Used, Lru!Touched, Lru!Uses, Stamped
  <2>5. Lru!Used(LruTable[k]) = [key |-> k, val |-> val[k], freq |-> 0, stamp |-> lruTime]
    BY <2>2, <2>4, Restamped
  <2> QED BY <2>2, <2>3, <2>5
<1> QED BY <1>1, <1>3, <1>4 DEF Lru!Hit, InFront

LEMMA LruReplaces ==
  ASSUME LruInv, NEW k \in CacheKeys, NEW v \in CacheValues, LruReplace(k, v),
         UNCHANGED <<capacity, ttl, lruTime>>
  PROVE  LruInv' /\ Lru!Replace(k, v) /\ UNCHANGED lruAnswer
<1>1. Found(k) /\ Touch(k) /\ lruAnswer' = lruAnswer /\ val' = [val EXCEPT ![k] = v]
  BY DEF LruReplace
<1>2. LruType
  BY DEF LruInv
<1>3. /\ val' \in [CacheKeys -> CacheValues \cup {NotFound}] /\ val'[k] = v
      /\ \A x \in CacheKeys : x # k => val'[x] = val[x]
  BY <1>1, <1>2 DEF LruType
<1>4. LruInv' /\ LruEntries' = InFront(LruTable'[k], Lru!Others(k)) /\ LruTable[k] \in Lru!Fresh(k)
  BY <1>1, <1>3, LruTouches
<1>5. Holding(Lru!Touched(LruTable[k]), v) = LruTable'[k]
  <2>1. timestamp'[k] = lruTime
    BY <1>1, <1>2 DEF Touch, LruType
  <2>2. LruTable[k] = [key |-> k, val |-> val[k], freq |-> 0, stamp |-> timestamp[k]]
    BY DEF LruTable
  <2>3. LruTable'[k] = [key |-> k, val |-> v, freq |-> 0, stamp |-> lruTime]
    BY <1>3, <2>1 DEF LruTable
  <2>4. \A e : Lru!Touched(e) = Stamped(e, 0, lruTime)
    BY DEF Lru!Touched, Lru!Uses, Stamped
  <2>5. Holding(Lru!Touched(LruTable[k]), v)
          = [key |-> k, val |-> v, freq |-> 0, stamp |-> lruTime]
    BY <2>2, <2>4, Restamped
  <2> QED BY <2>3, <2>5
<1> QED BY <1>1, <1>4, <1>5 DEF Lru!Replace, InFront, Holding

LEMMA LruMisses ==
  ASSUME LruInv, NEW k \in CacheKeys, LruMiss(k), UNCHANGED <<capacity, ttl, lruTime>>
  PROVE  LruInv' /\ Lru!Miss(k)
<1>1. /\ ~Found(k) /\ links' = Swept(k) /\ keyToNode' = keyToNode \ {k}
      /\ lruAnswer' = NotFound /\ val' = val /\ timestamp' = timestamp
  BY DEF LruMiss
<1>2. LruType
  BY DEF LruInv
<1>3. PICK c \in Seq(CacheKeys) : LruList(c)
  BY DEF LruInv
<1>4. Distinct(c) /\ Len(c) \in Nat
  BY <1>3 DEF LruList
<1>5. PICK d \in Seq(CacheKeys) :
        /\ Bare(c, k, d) /\ Distinct(d) /\ Len(d) <= Len(c)
        /\ \A x : In(d, x) <=> In(c, x) /\ x # k
  <2>1. PICK d : Bared(CacheKeys, c, k, d)
    BY <1>4, BareIs
  <2> QED BY <2>1 DEF Bared
<1>6. links' \in Links(CacheKeys, Dummy, LruNodes) /\ Circle(Dummy, links', d)
  BY <1>1, <1>2, <1>3, <1>5, BareLinks
<1>7. LruType'
  BY <1>1, <1>2 DEF LruType
<1>8. capacity \in Nat /\ Len(c) <= capacity /\ Len(d) \in Nat
  BY <1>2, <1>3 DEF LruType, LruList
<1>9. Len(d) <= capacity
  BY <1>4, <1>5, <1>8
<1>10. \A x : In(d, x) <=> x \in keyToNode'
  BY <1>1, <1>3, <1>5 DEF LruList
<1>11. LruList(d)'
  BY <1>5, <1>6, <1>9, <1>10 DEF LruList
<1>12. LruEntries' = Lists(d, LruTable)
  <2>1. LruTable' = LruTable
    BY <1>1 DEF LruTable
  <2> QED BY <1>7, <1>11, <2>1, LruShownNext
<1>13. Lru!Others(k) = Lists(d, LruTable) /\ Lru!Fresh(k) = {}
  BY <1>1, <1>2, <1>3, <1>5, LruOthers, LruFresh
<1> QED BY <1>1, <1>7, <1>11, <1>12, <1>13 DEF LruInv, Lru!Miss

\* The last of what k is put in front of.
LEMMA CutFront ==
  ASSUME NEW K, NEW d \in Seq(K), NEW k \in K, Len(d) # 0
  PROVE  /\ Len(d) \in 1 .. Len(d) /\ InFront(k, d)[Len(d) + 1] = d[Len(d)]
         /\ Cut(InFront(k, d), Len(d) + 1) = InFront(k, Cut(d, Len(d)))
<1>1. Len(d) \in Nat /\ Len(d) \in 1 .. Len(d)
  OBVIOUS
<1>2. PICK e \in Seq(K) :
        /\ e = InFront(k, d) /\ Len(e) = Len(d) + 1 /\ e[1] = k
        /\ \A j \in 1 .. Len(d) : e[j + 1] = d[j]
  <2>1. /\ InFront(k, d) \in Seq(K) /\ Len(InFront(k, d)) = Len(d) + 1
        /\ InFront(k, d)[1] = k /\ \A j \in 1 .. Len(d) : InFront(k, d)[j + 1] = d[j]
    BY FrontIs
  <2> QED BY <2>1
<1>3. PICK n : n = Len(d) + 1
  OBVIOUS
<1>4. n \in 1 .. Len(e)
  BY <1>1, <1>2, <1>3
<1>5. PICK f \in Seq(K) :
        /\ f = Cut(e, n) /\ Len(f) = Len(d)
        /\ \A j \in 1 .. Len(d) : f[j] = e[j]
  <2>1. /\ Cut(e, n) \in Seq(K) /\ Len(Cut(e, n)) = Len(e) - 1
        /\ \A j \in 1 .. Len(e) - 1 : Cut(e, n)[j] = IF j < n THEN e[j] ELSE e[j + 1]
    BY <1>4, RemoveAtIs
  <2>2. Len(e) - 1 = Len(d) /\ \A j \in 1 .. Len(d) : j < n
    BY <1>1, <1>2, <1>3
  <2> QED BY <2>1, <2>2
<1>6. PICK g \in Seq(K) :
        /\ g = Cut(d, Len(d)) /\ Len(g) = Len(d) - 1
        /\ \A j \in 1 .. Len(d) - 1 : g[j] = d[j]
  <2>1. /\ Cut(d, Len(d)) \in Seq(K) /\ Len(Cut(d, Len(d))) = Len(d) - 1
        /\ \A j \in 1 .. Len(d) - 1 : Cut(d, Len(d))[j] = IF j < Len(d) THEN d[j] ELSE d[j + 1]
    BY <1>1, RemoveAtIs
  <2>2. \A j \in 1 .. Len(d) - 1 : j < Len(d)
    BY <1>1
  <2> QED BY <2>1, <2>2
<1>7. PICK h \in Seq(K) :
        /\ h = InFront(k, g) /\ Len(h) = Len(g) + 1 /\ h[1] = k
        /\ \A j \in 1 .. Len(g) : h[j + 1] = g[j]
  <2>1. /\ InFront(k, g) \in Seq(K) /\ Len(InFront(k, g)) = Len(g) + 1
        /\ InFront(k, g)[1] = k /\ \A j \in 1 .. Len(g) : InFront(k, g)[j + 1] = g[j]
    BY FrontIs
  <2> QED BY <2>1
<1>8. ASSUME NEW i \in 1 .. Len(d) PROVE f[i] = h[i]
  <2>1. CASE i = 1
    BY <1>1, <1>2, <1>5, <1>7, <2>1
  <2>2. CASE i # 1
    <3>1. PICK j \in 1 .. Len(d) - 1 : i = j + 1
      <4>1. i - 1 \in 1 .. Len(d) - 1 /\ i = (i - 1) + 1
        BY <1>1, <2>2
      <4> QED BY <4>1
    <3>2. j \in 1 .. Len(d) /\ j \in 1 .. Len(g)
      BY <1>1, <1>6
    <3> QED BY <1>2, <1>5, <1>6, <1>7, <3>1, <3>2
  <2> QED BY <2>1, <2>2
<1>9. Len(h) = Len(d)
  BY <1>1, <1>6, <1>7
<1>10. f = h
  BY <1>5, <1>8, <1>9, SeqEqual
<1> QED BY <1>1, <1>2, <1>3, <1>5, <1>6, <1>7, <1>10

\* A new key comes first, and the last goes if there are too many.
LEMMA LruInserts ==
  ASSUME LruInv, NEW k \in CacheKeys, NEW v \in CacheValues, LruInsert(k, v),
         UNCHANGED <<capacity, ttl, lruTime>>
  PROVE  LruInv' /\ Lru!Insert(k, v) /\ UNCHANGED lruAnswer
<1>1. LruType /\ capacity \in Nat \ {0}
  BY DEF LruInv, LruType
<1>2. PICK c \in Seq(CacheKeys) : LruList(c)
  BY DEF LruInv
<1>3. Distinct(c) /\ Len(c) \in Nat /\ Len(c) <= capacity
  BY <1>2 DEF LruList
<1>4. PICK d \in Seq(CacheKeys) :
        /\ Bare(c, k, d) /\ Distinct(d) /\ Len(d) <= Len(c) /\ Len(d) \in Nat
        /\ \A x : In(d, x) <=> In(c, x) /\ x # k
  <2>1. PICK d : Bared(CacheKeys, c, k, d)
    BY <1>3, BareIs
  <2> QED BY <2>1 DEF Bared
<1>5. ~In(d, k) /\ Swept(k) \in Links(CacheKeys, Dummy, LruNodes) /\ Circle(Dummy, Swept(k), d)
  BY <1>1, <1>2, <1>4, BareLinks
<1>6. PICK l : l = Link(Swept(k), k)
  OBVIOUS
<1>7. PICK e : e = InFront(k, d)
  OBVIOUS
<1>8. /\ e \in Seq(CacheKeys) /\ Len(e) = Len(d) + 1 /\ Distinct(e)
      /\ \A x : In(e, x) <=> In(d, x) \/ x = k
  BY <1>4, <1>5, <1>7, FrontDistinct
<1>9. l \in Links(CacheKeys, Dummy, LruNodes) /\ Circle(Dummy, l, e)
  BY <1>4, <1>5, <1>6, <1>7, LinkFronts, DummyAssumption DEF Link, LruNodes, Fronted
<1>10. PICK all : all = keyToNode \cup {k}
  OBVIOUS
<1>11. all \subseteq CacheKeys /\ \A x : In(e, x) <=> x \in all
  BY <1>1, <1>2, <1>4, <1>8, <1>10 DEF LruType, LruList
<1>12. Cardinality(all) = Len(e)
  BY <1>8, <1>11, KeysCounted
<1>13. Len(e) \in 1 .. Len(e) /\ l.prev[Dummy] = e[Len(e)]
  <2>1. Len(e) \in 0 .. Len(e) /\ Len(e) \in 1 .. Len(e)
    BY <1>4, <1>8
  <2>2. Place(Dummy, e, Len(e)) = e[Len(e)] /\ Place(Dummy, e, Len(e) + 1) = Dummy
    BY <1>8, <2>1, PlacesApart, DummyAssumption
  <2>3. l.prev[Place(Dummy, e, Len(e) + 1)] = Place(Dummy, e, Len(e))
    BY <1>9, <2>1 DEF Circle
  <2> QED BY <2>1, <2>2, <2>3
<1>14. /\ IF Len(e) > capacity
          THEN links' = Unlink(l, e[Len(e)]) /\ keyToNode' = all \ {e[Len(e)]}
          ELSE links' = l /\ keyToNode' = all
       /\ val' = [val EXCEPT ![k] = v] /\ timestamp' = [timestamp EXCEPT ![k] = lruTime]
       /\ UNCHANGED lruAnswer /\ ~Found(k)
  BY <1>6, <1>10, <1>12, <1>13 DEF LruInsert
<1>15. /\ val' \in [CacheKeys -> CacheValues \cup {NotFound}]
       /\ timestamp' \in [CacheKeys -> Nat]
       /\ \A x \in CacheKeys : x # k => val'[x] = val[x] /\ timestamp'[x] = timestamp[x]
       /\ val'[k] = v /\ timestamp'[k] = lruTime
  BY <1>1, <1>14 DEF LruType
<1>16. keyToNode' \subseteq CacheKeys
  BY <1>11, <1>14
<1>17. LruType'
  BY <1>1, <1>15, <1>16 DEF LruType
<1>18. LruTable'[k] = [key |-> k, val |-> v, freq |-> Lru!Uses(1), stamp |-> lruTime]
  BY <1>15 DEF LruTable, Lru!Uses
<1>19. Lru!Fresh(k) = {} /\ Lru!Others(k) = Lists(d, LruTable)
  BY <1>1, <1>2, <1>4, <1>14, LruFresh, LruOthers
<1>20. PICK r : r = LruTable
  OBVIOUS
<1>21. TableOf(r, CacheKeys, LruItem)
  BY <1>1, <1>20, TableIs DEF TableOf
<1>22. PICK s : s = Lists(d, r)
  OBVIOUS
<1>23. s \in Seq(LruItem) /\ Len(s) = Len(d)
  BY <1>21, <1>22, ListsAre
<1>24. CASE ~(Len(e) > capacity)
  <2>1. Len(d) < capacity /\ Len(e) <= capacity
    BY <1>1, <1>4, <1>8, <1>24
  <2>2. links' = l /\ keyToNode' = all
    BY <1>14, <1>24
  <2>3. LruList(e)'
    BY <1>1, <1>8, <1>9, <1>11, <2>1, <2>2 DEF LruList
  <2>4. LruEntries' = InFront(LruTable'[k], s)
    BY <1>1, <1>5, <1>7, <1>8, <1>15, <1>17, <1>20, <1>22, <2>3, LruShowsFront
  <2>5. Lru!Insert(k, v)
    BY <1>18, <1>19, <1>20, <1>22, <1>23, <2>1, <2>4 DEF Lru!Insert, InFront
  <2> QED BY <1>8, <1>14, <1>17, <2>3, <2>5 DEF LruInv
<1>25. CASE Len(e) > capacity
  <2>1. Len(d) = capacity /\ ~(Len(d) < capacity) /\ Len(d) # 0
    BY <1>1, <1>3, <1>4, <1>8, <1>25
  <2>2. links' = Unlink(l, e[Len(e)]) /\ keyToNode' = all \ {e[Len(e)]}
    BY <1>14, <1>25
  <2>3. PICK f : f = Cut(e, Len(e))
    OBVIOUS
  <2>4. /\ f \in Seq(CacheKeys) /\ Len(f) = Len(e) - 1 /\ Distinct(f)
        /\ \A x : In(f, x) <=> In(e, x) /\ x # e[Len(e)]
    BY <1>8, <1>13, <2>3, CutDistinct
  <2>5. links' \in Links(CacheKeys, Dummy, LruNodes) /\ Circle(Dummy, links', f)
    BY <1>8, <1>9, <1>13, <2>2, <2>3, UnlinkCuts, DummyAssumption DEF LruNodes
  <2>6. Len(f) <= capacity
    BY <1>1, <1>4, <1>8, <2>1, <2>4
  <2>7. \A x : In(f, x) <=> x \in keyToNode'
    BY <1>11, <2>2, <2>4
  <2>8. LruList(f)'
    BY <1>1, <2>4, <2>5, <2>6, <2>7 DEF LruList
  <2>9. PICK g : g = Cut(d, Len(d))
    OBVIOUS
  <2>10. Len(d) \in 1 .. Len(d) /\ f = InFront(k, g)
    BY <1>7, <1>8, <2>1, <2>3, <2>9, CutFront
  <2>11. g \in Seq(CacheKeys) /\ ~In(g, k)
    BY <1>4, <1>5, <2>9, <2>10, CutDistinct
  <2>12. LruEntries' = InFront(LruTable'[k], Lists(g, LruTable))
    BY <1>1, <1>15, <1>17, <2>4, <2>8, <2>10, <2>11, LruShowsFront
  <2>13. Lists(g, LruTable) = Cut(s, Len(s))
    <3>1. Tabled(d, r, CacheKeys, LruItem)
      BY <1>21 DEF Tabled
    <3>2. Lists(Cut(d, Len(d)), r) = Cut(Lists(d, r), Len(d))
      BY <2>10, <3>1, ListsCut
    <3> QED BY <1>20, <1>22, <1>23, <2>9, <3>2
  <2>14. Lru!RemoveAt(s, Lru!Victim(s)) = Cut(s, Len(s))
    <3>1. Lru!Victim(s) = Len(s)
      BY DEF Lru!Victim
    <3>2. RemoveAt(s, Len(s)) = Cut(s, Len(s))
      BY <1>23, <2>10, RemoveAtIs
    <3> QED BY <3>1, <3>2 DEF RemoveAt, Lru!RemoveAt
  <2>15. Lru!Insert(k, v)
    BY <1>18, <1>19, <1>20, <1>22, <1>23, <2>1, <2>12, <2>13, <2>14 DEF Lru!Insert, InFront
  <2> QED BY <1>14, <1>17, <2>4, <2>8, <2>15 DEF LruInv
<1> QED BY <1>24, <1>25

LEMMA LruStarts == LruInit => LruInv /\ Lru!Init
<1> SUFFICES ASSUME LruInit PROVE LruInv /\ Lru!Init
  OBVIOUS
<1>1. LruType
  BY CapacityAssumption, TtlAssumption DEF LruInit, LruType
<1>2. PICK c \in Seq(CacheKeys) : Len(c) = 0
  <2>1. << >> \in Seq(CacheKeys) /\ Len(<< >>) = 0
    OBVIOUS
  <2> QED BY <2>1
<1>3. links \in Links(CacheKeys, Dummy, LruNodes) /\ links.next[Dummy] = Dummy /\ links.prev[Dummy] = Dummy
  BY DEF LruInit, Links, LruNodes
<1>4. Circle(Dummy, links, c)
  <2>1. \A i \in 0 .. Len(c) : Place(Dummy, c, i) = Dummy /\ Place(Dummy, c, i + 1) = Dummy
    <3>1. \A i : i \notin 1 .. Len(c)
      BY <1>2
    <3> QED BY <3>1 DEF Place
  <2> QED BY <1>3, <2>1 DEF Circle
<1>5. \A x : ~In(c, x)
  BY <1>2 DEF In
<1>6. Distinct(c) /\ Len(c) <= capacity
  BY <1>1, <1>2 DEF Distinct, LruType
<1>7. LruList(c)
  BY <1>3, <1>4, <1>5, <1>6 DEF LruInit, LruList
<1>8. LruEntries = Lists(c, LruTable)
  BY <1>1, <1>7, LruShown
<1>9. Lists(c, LruTable) = << >>
  BY <1>2 DEF Lists
<1> QED BY <1>1, <1>7, <1>8, <1>9 DEF LruInv, LruInit, Lru!Init

LEMMA LruKept ==
  LruInv /\ [LruNext]_lruVars => LruInv' /\ [Lru!Next]_<<LruEntries, lruAnswer>>
<1> SUFFICES ASSUME LruInv, [LruNext]_lruVars
             PROVE  LruInv' /\ [Lru!Next]_<<LruEntries, lruAnswer>>
  OBVIOUS
<1>1. CASE UNCHANGED lruVars
  BY <1>1 DEF lruVars, LruInv, LruType, LruList, LruEntries, Forward
<1>2. CASE LruTick /\ UNCHANGED <<capacity, ttl>>
  <2>1. lruTime' \in Nat
    BY <1>2 DEF LruTick, LruInv, LruType
  <2> QED BY <1>2, <2>1 DEF LruTick, LruInv, LruType, LruList, LruEntries, Forward
<1>3. ASSUME NEW k \in CacheKeys, LruHit(k) \/ LruMiss(k), UNCHANGED <<capacity, ttl, lruTime>>
      PROVE  LruInv' /\ [Lru!Next]_<<LruEntries, lruAnswer>>
  <2>1. LruInv' /\ (Lru!Hit(k) \/ Lru!Miss(k))
    BY <1>3, LruHits, LruMisses
  <2> QED BY <2>1 DEF Lru!Next
<1>4. ASSUME NEW k \in CacheKeys, NEW v \in CacheValues, LruReplace(k, v) \/ LruInsert(k, v),
             UNCHANGED <<capacity, ttl, lruTime>>
      PROVE  LruInv' /\ [Lru!Next]_<<LruEntries, lruAnswer>>
  <2>1. LruInv' /\ (Lru!Replace(k, v) \/ Lru!Insert(k, v)) /\ UNCHANGED lruAnswer
    BY <1>4, LruReplaces, LruInserts
  <2> QED BY <2>1 DEF Lru!Next
<1> QED BY <1>1, <1>2, <1>3, <1>4 DEF LruNext, LruCall

\* For any capacity and any time to live: the links of the LRU cache are a circle of just the
\* keys of its map in the order of their use, so that it drives out the key used longest ago.
THEOREM LruForgetsTheOldest == LruInit /\ [][LruNext]_lruVars => Lru!Spec
BY LruStarts, LruKept, PTL DEF Lru!Spec
-----------------------------------------------------------------------------
(* The LFU cache *)

LEMMA DropIs ==
  ASSUME NEW K, NEW c \in Seq(K), Distinct(c), NEW k
  PROVE  Bare(c, k, Drop(c, k))
<1>1. ASSUME NEW i \in 1 .. Len(c), c[i] = k PROVE Drop(c, k) = Cut(c, i)
  <2>1. {j \in 1 .. Len(c) : c[j] = k} = {i}
    BY <1>1 DEF Distinct
  <2>2. SelectInSeq(c, LAMBDA e : e = k) = i
    BY <2>1 DEF SelectInSeq, Min
  <2> QED BY <1>1, <2>2, RemoveAtIs DEF Drop, RemoveFirst
<1>2. ~In(c, k) => Drop(c, k) = c
  BY DEF Drop, RemoveFirst, In
<1> QED BY <1>1, <1>2 DEF Bare, In

\* x comes before y in s.
Before(s, x, y) == \E i, j \in 1 .. Len(s) : i < j /\ s[i] = x /\ s[j] = y

LEMMA BareBefore ==
  ASSUME NEW K, NEW c \in Seq(K), NEW k, NEW d, Bare(c, k, d), NEW x, NEW y
  PROVE  /\ Before(d, x, y) => Before(c, x, y)
         /\ x # k /\ y # k /\ Before(c, x, y) => Before(d, x, y)
<1>1. CASE d = c
  BY <1>1
<1>2. CASE \E p \in 1 .. Len(c) : c[p] = k /\ d = Cut(c, p)
  <2>1. PICK p \in 1 .. Len(c) : c[p] = k /\ d = Cut(c, p)
    BY <1>2
  <2>2. /\ d \in Seq(K) /\ Len(d) = Len(c) - 1 /\ Len(c) \in Nat
        /\ \A j \in 1 .. Len(c) - 1 : d[j] = IF j < p THEN c[j] ELSE c[j + 1]
    <3>1. /\ Len(Cut(c, p)) = Len(c) - 1 /\ Cut(c, p) \in Seq(K)
          /\ \A j \in 1 .. Len(c) - 1 : Cut(c, p)[j] = IF j < p THEN c[j] ELSE c[j + 1]
      BY RemoveAtIs
    <3>2. Len(c) \in Nat
      OBVIOUS
    <3> QED BY <2>1, <3>1, <3>2
  <2>3. ASSUME Before(d, x, y) PROVE Before(c, x, y)
    <3>1. PICK i \in 1 .. Len(c) - 1, j \in 1 .. Len(c) - 1 : i < j /\ d[i] = x /\ d[j] = y
      BY <2>2, <2>3 DEF Before
    <3>2. PICK a, b : /\ a = IF i < p THEN i ELSE i + 1
                      /\ b = IF j < p THEN j ELSE j + 1
      OBVIOUS
    <3>3. a \in 1 .. Len(c) /\ b \in 1 .. Len(c) /\ a < b
      BY <2>2, <3>1, <3>2
    <3>4. c[a] = x /\ c[b] = y
      BY <2>2, <3>1, <3>2
    <3> QED BY <3>3, <3>4 DEF Before
  <2>4. ASSUME x # k, y # k, Before(c, x, y) PROVE Before(d, x, y)
    <3>1. PICK i \in 1 .. Len(c), j \in 1 .. Len(c) : i < j /\ c[i] = x /\ c[j] = y
      BY <2>4 DEF Before
    <3>2. i # p /\ j # p
      BY <2>1, <2>4, <3>1
    <3>3. PICK a, b : /\ a = IF i < p THEN i ELSE i - 1
                      /\ b = IF j < p THEN j ELSE j - 1
      OBVIOUS
    <3>4. /\ a \in 1 .. Len(c) - 1 /\ b \in 1 .. Len(c) - 1 /\ a < b
          /\ i = IF a < p THEN a ELSE a + 1
          /\ j = IF b < p THEN b ELSE b + 1
      BY <2>2, <3>1, <3>2, <3>3
    <3>5. d[a] = x /\ d[b] = y
      BY <2>2, <3>1, <3>4
    <3> QED BY <2>2, <3>4, <3>5 DEF Before
  <2> QED BY <2>3, <2>4
<1> QED BY <1>1, <1>2 DEF Bare

LEMMA FrontBefore ==
  ASSUME NEW K, NEW c \in Seq(K), NEW k \in K, NEW x, NEW y
  PROVE  Before(InFront(k, c), x, y) <=> (x = k /\ In(c, y)) \/ Before(c, x, y)
<1>1. PICK e \in Seq(K) :
        /\ e = InFront(k, c) /\ Len(e) = Len(c) + 1 /\ e[1] = k
        /\ \A j \in 1 .. Len(c) : e[j + 1] = c[j]
  <2>1. /\ InFront(k, c) \in Seq(K) /\ Len(InFront(k, c)) = Len(c) + 1
        /\ InFront(k, c)[1] = k /\ \A j \in 1 .. Len(c) : InFront(k, c)[j + 1] = c[j]
    BY FrontIs
  <2> QED BY <2>1
<1>2. Len(c) \in Nat
  OBVIOUS
<1>3. ASSUME Before(e, x, y) PROVE (x = k /\ In(c, y)) \/ Before(c, x, y)
  <2>1. PICK i \in 1 .. Len(c) + 1, j \in 1 .. Len(c) + 1 : i < j /\ e[i] = x /\ e[j] = y
    BY <1>1, <1>3 DEF Before
  <2>2. PICK b \in 1 .. Len(c) : j = b + 1
    <3>1. j - 1 \in 1 .. Len(c) /\ j = (j - 1) + 1
      BY <1>2, <2>1
    <3> QED BY <3>1
  <2>3. c[b] = y
    BY <1>1, <2>1, <2>2
  <2>4. CASE i = 1
    BY <1>1, <2>1, <2>3, <2>4 DEF In
  <2>5. CASE i # 1
    <3>1. PICK a \in 1 .. Len(c) : i = a + 1
      <4>1. i - 1 \in 1 .. Len(c) /\ i = (i - 1) + 1
        BY <1>2, <2>1, <2>5
      <4> QED BY <4>1
    <3>2. c[a] = x /\ a < b
      BY <1>1, <2>1, <2>2, <3>1
    <3> QED BY <2>3, <3>2 DEF Before
  <2> QED BY <2>4, <2>5
<1>4. ASSUME In(c, y) PROVE Before(e, k, y)
  <2>1. PICK b \in 1 .. Len(c) : c[b] = y
    BY <1>4 DEF In
  <2>2. 1 \in 1 .. Len(e) /\ b + 1 \in 1 .. Len(e) /\ 1 < b + 1 /\ e[b + 1] = y
    BY <1>1, <1>2, <2>1
  <2> QED BY <1>1, <2>2 DEF Before
<1>5. ASSUME Before(c, x, y) PROVE Before(e, x, y)
  <2>1. PICK i \in 1 .. Len(c), j \in 1 .. Len(c) : i < j /\ c[i] = x /\ c[j] = y
    BY <1>5 DEF Before
  <2>2. i + 1 \in 1 .. Len(e) /\ j + 1 \in 1 .. Len(e) /\ i + 1 < j + 1
    BY <1>1, <1>2, <2>1
  <2>3. e[i + 1] = x /\ e[j + 1] = y
    BY <1>1, <2>1
  <2> QED BY <2>2, <2>3 DEF Before
<1> QED BY <1>1, <1>3, <1>4, <1>5

\* The keys u in the order of their uses and the lists L agree with the frequencies F.
FreqLists(u, L, F) ==
  /\ u \in Seq(LfuKeys) /\ L \in [1 .. MaxFreq -> Seq(LfuKeys)] /\ F \in [LfuKeys -> 0 .. MaxFreq]
  /\ Distinct(u) /\ \A x : In(u, x) <=> x \in LfuKeys /\ F[x] # 0
  /\ \A f \in 1 .. MaxFreq :
       /\ Distinct(L[f]) /\ \A x : In(L[f], x) <=> x \in LfuKeys /\ F[x] = f
       /\ \A x, y : Before(L[f], x, y) => Before(u, x, y)

LEMMA Removing ==
  ASSUME NEW u, NEW L, NEW F, FreqLists(u, L, F), NEW k \in LfuKeys, F[k] # 0
  PROVE  /\ FreqLists(Drop(u, k), [L EXCEPT ![F[k]] = Drop(@, k)], [F EXCEPT ![k] = 0])
         /\ Len(Drop(u, k)) = Len(u) - 1
         /\ Bare(u, k, Drop(u, k))
<1>1. /\ u \in Seq(LfuKeys) /\ L \in [1 .. MaxFreq -> Seq(LfuKeys)]
      /\ F \in [LfuKeys -> 0 .. MaxFreq] /\ MaxFreq \in Nat /\ Distinct(u)
      /\ F[k] \in 1 .. MaxFreq /\ In(u, k)
  <2>1. F[k] \in 0 .. MaxFreq /\ MaxFreq \in Nat
    BY FreqAssumption DEF FreqLists
  <2> QED BY <2>1 DEF FreqLists
<1>2. ASSUME NEW c \in Seq(LfuKeys), Distinct(c)
      PROVE  /\ Bare(c, k, Drop(c, k))
             /\ Drop(c, k) \in Seq(LfuKeys) /\ Distinct(Drop(c, k))
             /\ \A x : In(Drop(c, k), x) <=> In(c, x) /\ x # k
             /\ In(c, k) => Len(Drop(c, k)) = Len(c) - 1
  <2>1. Bare(c, k, Drop(c, k))
    BY <1>2, DropIs
  <2>2. CASE ~In(c, k) /\ Drop(c, k) = c
    BY <1>2, <2>1, <2>2
  <2>3. CASE \E p \in 1 .. Len(c) : c[p] = k /\ Drop(c, k) = Cut(c, p)
    <3>1. PICK p \in 1 .. Len(c) : c[p] = k /\ Drop(c, k) = Cut(c, p)
      BY <2>3
    <3>2. /\ Cut(c, p) \in Seq(LfuKeys) /\ Len(Cut(c, p)) = Len(c) - 1
          /\ Distinct(Cut(c, p))
          /\ \A x : In(Cut(c, p), x) <=> In(c, x) /\ x # c[p]
      BY <1>2, CutDistinct
    <3> QED BY <2>1, <3>1, <3>2
  <2> QED BY <2>1, <2>2, <2>3 DEF Bare
<1>3. PICK v : v = Drop(u, k)
  OBVIOUS
<1>4. /\ v \in Seq(LfuKeys) /\ Distinct(v) /\ Bare(u, k, v) /\ Len(v) = Len(u) - 1
      /\ \A x : In(v, x) <=> In(u, x) /\ x # k
  BY <1>1, <1>2, <1>3
<1>5. PICK M : M = [L EXCEPT ![F[k]] = Drop(@, k)]
  OBVIOUS
<1>6. PICK G : G = [F EXCEPT ![k] = 0]
  OBVIOUS
<1>7. /\ L[F[k]] \in Seq(LfuKeys) /\ Distinct(L[F[k]])
  BY <1>1 DEF FreqLists
<1>8. /\ M \in [1 .. MaxFreq -> Seq(LfuKeys)]
      /\ M[F[k]] = Drop(L[F[k]], k) /\ \A f \in 1 .. MaxFreq : f # F[k] => M[f] = L[f]
  BY <1>1, <1>2, <1>5, <1>7
<1>9. /\ G \in [LfuKeys -> 0 .. MaxFreq] /\ G[k] = 0
      /\ \A x \in LfuKeys : x # k => G[x] = F[x]
  BY <1>1, <1>6
<1>10. \A x : In(v, x) <=> x \in LfuKeys /\ G[x] # 0
  BY <1>4, <1>9 DEF FreqLists
<1>11. ASSUME NEW f \in 1 .. MaxFreq
       PROVE  /\ Distinct(M[f]) /\ \A x : In(M[f], x) <=> x \in LfuKeys /\ G[x] = f
              /\ \A x, y : Before(M[f], x, y) => Before(v, x, y)
  <2>1. /\ L[f] \in Seq(LfuKeys) /\ Distinct(L[f])
        /\ \A x : In(L[f], x) <=> x \in LfuKeys /\ F[x] = f
        /\ \A x, y : Before(L[f], x, y) => Before(u, x, y)
    BY <1>1 DEF FreqLists
  <2>2. Bare(L[f], k, M[f]) /\ Distinct(M[f]) /\ \A x : In(M[f], x) <=> In(L[f], x) /\ x # k
    <3>1. CASE f = F[k]
      BY <1>2, <1>8, <2>1, <3>1
    <3>2. CASE f # F[k]
      <4>1. M[f] = L[f] /\ ~In(L[f], k)
        BY <1>8, <2>1, <3>2
      <4> QED BY <2>1, <4>1 DEF Bare
    <3> QED BY <3>1, <3>2
  <2>3. \A x : In(M[f], x) <=> x \in LfuKeys /\ G[x] = f
    BY <1>9, <2>1, <2>2
  <2>4. ASSUME NEW x, NEW y, Before(M[f], x, y) PROVE Before(v, x, y)
    <3>1. Before(u, x, y)
      BY <2>1, <2>2, <2>4, BareBefore
    <3>2. x # k /\ y # k
      BY <2>2, <2>4 DEF Before, In
    <3> QED BY <1>1, <1>4, <3>1, <3>2, BareBefore
  <2> QED BY <2>2, <2>3, <2>4
<1>12. FreqLists(v, M, G)
  BY <1>4, <1>8, <1>9, <1>10, <1>11 DEF FreqLists
<1> QED BY <1>3, <1>4, <1>5, <1>6, <1>12

LEMMA Adding ==
  ASSUME NEW u, NEW L, NEW F, FreqLists(u, L, F), NEW k \in LfuKeys, F[k] = 0,
         NEW g \in 1 .. MaxFreq
  PROVE  FreqLists(InFront(k, u), [L EXCEPT ![g] = InFront(k, @)], [F EXCEPT ![k] = g])
<1>1. /\ u \in Seq(LfuKeys) /\ L \in [1 .. MaxFreq -> Seq(LfuKeys)]
      /\ F \in [LfuKeys -> 0 .. MaxFreq] /\ MaxFreq \in Nat /\ Distinct(u) /\ ~In(u, k)
  BY FreqAssumption DEF FreqLists
<1>2. PICK v : v = InFront(k, u)
  OBVIOUS
<1>3. /\ v \in Seq(LfuKeys) /\ Distinct(v)
      /\ \A x : In(v, x) <=> In(u, x) \/ x = k
  BY <1>1, <1>2, FrontDistinct
<1>4. PICK M : M = [L EXCEPT ![g] = InFront(k, @)]
  OBVIOUS
<1>5. PICK G : G = [F EXCEPT ![k] = g]
  OBVIOUS
<1>6. /\ L[g] \in Seq(LfuKeys) /\ Distinct(L[g]) /\ ~In(L[g], k)
  <2>1. F[k] # g
    BY <1>1
  <2> QED BY <1>1, <2>1 DEF FreqLists
<1>7. /\ InFront(k, L[g]) \in Seq(LfuKeys) /\ Distinct(InFront(k, L[g]))
      /\ \A x : In(InFront(k, L[g]), x) <=> In(L[g], x) \/ x = k
  BY <1>6, FrontDistinct
<1>8. /\ M \in [1 .. MaxFreq -> Seq(LfuKeys)]
      /\ M[g] = InFront(k, L[g]) /\ \A f \in 1 .. MaxFreq : f # g => M[f] = L[f]
  BY <1>1, <1>4, <1>7
<1>9. /\ G \in [LfuKeys -> 0 .. MaxFreq] /\ G[k] = g /\ g # 0
      /\ \A x \in LfuKeys : x # k => G[x] = F[x]
  <2>1. g \in 0 .. MaxFreq /\ g # 0
    BY <1>1
  <2> QED BY <1>1, <1>5, <2>1
<1>10. \A x : In(v, x) <=> x \in LfuKeys /\ G[x] # 0
  BY <1>3, <1>9 DEF FreqLists
<1>11. ASSUME NEW f \in 1 .. MaxFreq
       PROVE  /\ Distinct(M[f]) /\ \A x : In(M[f], x) <=> x \in LfuKeys /\ G[x] = f
              /\ \A x, y : Before(M[f], x, y) => Before(v, x, y)
  <2>1. /\ L[f] \in Seq(LfuKeys) /\ Distinct(L[f])
        /\ \A x : In(L[f], x) <=> x \in LfuKeys /\ F[x] = f
        /\ \A x, y : Before(L[f], x, y) => Before(u, x, y)
    BY <1>1 DEF FreqLists
  <2>2. \A x, y : Before(u, x, y) => Before(v, x, y)
    BY <1>1, <1>2, FrontBefore
  <2>3. CASE f # g
    <3>1. M[f] = L[f]
      BY <1>8, <2>3
    <3>2. \A x : In(M[f], x) <=> x \in LfuKeys /\ G[x] = f
      <4>1. F[k] # f
        BY <1>1
      <4> QED BY <1>9, <2>1, <2>3, <3>1, <4>1
    <3> QED BY <2>1, <2>2, <3>1, <3>2
  <2>4. CASE f = g
    <3>1. M[f] = InFront(k, L[f]) /\ Distinct(M[f])
      BY <1>7, <1>8, <2>4
    <3>2. \A x : In(M[f], x) <=> In(L[f], x) \/ x = k
      BY <1>7, <1>8, <2>4
    <3>3. \A x : In(M[f], x) <=> x \in LfuKeys /\ G[x] = f
      <4>1. F[k] # f
        BY <1>1
      <4> QED BY <1>9, <2>1, <2>4, <3>2, <4>1
    <3>4. ASSUME NEW x, NEW y, Before(M[f], x, y) PROVE Before(v, x, y)
      <4>1. (x = k /\ In(L[f], y)) \/ Before(L[f], x, y)
        BY <2>1, <3>1, <3>4, FrontBefore
      <4>2. In(L[f], y) => In(u, y)
        <5>1. f # 0
          BY <1>1
        <5> QED BY <2>1, <5>1 DEF FreqLists
      <4>3. x = k /\ In(u, y) => Before(v, x, y)
        BY <1>1, <1>2, FrontBefore
      <4> QED BY <2>1, <2>2, <4>1, <4>2, <4>3
    <3> QED BY <3>1, <3>3, <3>4
  <2> QED BY <2>3, <2>4
<1>12. FreqLists(v, M, G)
  BY <1>3, <1>8, <1>9, <1>10, <1>11 DEF FreqLists
<1> QED BY <1>2, <1>4, <1>5, <1>12

LfuItem == [key : LfuKeys, val : LfuValues \cup {LfuNone}, freq : 0 .. MaxFreq, stamp : {0}]

LfuTable == [k \in LfuKeys |-> [key |-> k, val |-> lfuVal[k], freq |-> freq[k], stamp |-> 0]]

\* m is the least of the frequencies F that are not 0, if there is one.
Least(m, F) == /\ m \in 1 .. MaxFreq
               /\ \A x \in LfuKeys : F[x] # 0 => m <= F[x] /\ \E y \in LfuKeys : F[y] = m

LfuInv == /\ FreqLists(uses, freqToList, freq) /\ Least(minFreq, freq)
          /\ lfuCapacity \in Nat \ {0} /\ Len(uses) <= lfuCapacity
          /\ lfuVal \in [LfuKeys -> LfuValues \cup {LfuNone}]

LEMMA LfuTableIs ==
  ASSUME freq \in [LfuKeys -> 0 .. MaxFreq], lfuVal \in [LfuKeys -> LfuValues \cup {LfuNone}]
  PROVE  \A k \in LfuKeys :
           /\ LfuTable[k] = [key |-> k, val |-> lfuVal[k], freq |-> freq[k], stamp |-> 0]
           /\ LfuTable[k] \in LfuItem
BY DEF LfuTable, LfuItem

LEMMA LfuTableIsNext ==
  ASSUME freq' \in [LfuKeys -> 0 .. MaxFreq], lfuVal' \in [LfuKeys -> LfuValues \cup {LfuNone}]
  PROVE  \A k \in LfuKeys :
           /\ LfuTable'[k] = [key |-> k, val |-> lfuVal'[k], freq |-> freq'[k], stamp |-> 0]
           /\ LfuTable'[k] \in LfuItem
BY DEF LfuTable, LfuItem

LEMMA LfuIsTable == LfuInv => TableOf(LfuTable, LfuKeys, LfuItem)
<1> SUFFICES ASSUME LfuInv, NEW k \in LfuKeys
             PROVE  LfuTable[k] \in LfuItem /\ LfuTable[k].key = k
  BY DEF TableOf
<1>1. /\ LfuTable[k] = [key |-> k, val |-> lfuVal[k], freq |-> freq[k], stamp |-> 0]
      /\ LfuTable[k] \in LfuItem
  BY LfuTableIs DEF LfuInv, FreqLists
<1> QED BY <1>1

LEMMA LfuShown == ASSUME LfuInv PROVE LfuEntries = Lists(uses, LfuTable)
<1>1. DOMAIN uses = 1 .. Len(uses) /\ \A i \in 1 .. Len(uses) : uses[i] \in LfuKeys
  BY DEF LfuInv, FreqLists
<1> QED BY <1>1 DEF LfuEntries, Lists, LfuTable

LEMMA LfuOthers ==
  ASSUME LfuInv, NEW k, NEW d, Bare(uses, k, d)
  PROVE  Lfu!Others(k) = Lists(d, LfuTable)
<1>1. PICK r : r = LfuTable
  OBVIOUS
<1>2. TableOf(r, LfuKeys, LfuItem)
  BY <1>1, LfuIsTable
<1>3. uses \in Seq(LfuKeys) /\ Distinct(uses)
  BY DEF LfuInv, FreqLists
<1>4. SparedKey(Lists(uses, r), k) = Lists(d, r)
  BY <1>2, <1>3, BareLists
<1> QED BY <1>1, <1>4, OthersAre, LfuShown

LEMMA LfuFresh ==
  ASSUME LfuInv, NEW k \in LfuKeys
  PROVE  /\ freq[k] # 0 => LfuTable[k] \in Lfu!Fresh(k)
         /\ freq[k] = 0 => Lfu!Fresh(k) = {}
<1>1. PICK s : s = Lists(uses, LfuTable)
  OBVIOUS
<1>2. uses \in Seq(LfuKeys) /\ \A x : In(uses, x) <=> x \in LfuKeys /\ freq[x] # 0
  BY DEF LfuInv, FreqLists
<1>3. /\ s = LfuEntries /\ s \in Seq(LfuItem) /\ Len(s) = Len(uses)
      /\ \A i \in 1 .. Len(uses) : uses[i] \in LfuKeys /\ s[i] = LfuTable[uses[i]]
  <2>1. PICK r : r = LfuTable
    OBVIOUS
  <2>2. TableOf(r, LfuKeys, LfuItem)
    BY <2>1, LfuIsTable
  <2>3. /\ Lists(uses, r) \in Seq(LfuItem) /\ Len(Lists(uses, r)) = Len(uses)
        /\ \A i \in 1 .. Len(uses) : uses[i] \in LfuKeys /\ Lists(uses, r)[i] = r[uses[i]]
    BY <1>2, <2>2, ListsAre
  <2> QED BY <1>1, <2>1, <2>3, LfuShown
<1>4. Lfu!Range(s) = {s[i] : i \in 1 .. Len(uses)}
  BY <1>3 DEF Lfu!Range
<1>5. \A x : x \in Lfu!Range(s) <=> \E i \in 1 .. Len(uses) : x = LfuTable[uses[i]]
  BY <1>3, <1>4
<1>6. \A x : x \in Lfu!Fresh(k) <=> x \in Lfu!Range(s) /\ x.key = k
  BY <1>3 DEF Lfu!Fresh, Lfu!Stale
<1>7. \A x \in LfuKeys : LfuTable[x].key = x
  BY LfuIsTable DEF TableOf
<1>8. ASSUME freq[k] # 0 PROVE LfuTable[k] \in Lfu!Fresh(k)
  <2>1. PICK i \in 1 .. Len(uses) : uses[i] = k
    BY <1>2, <1>8 DEF In
  <2> QED BY <1>5, <1>6, <1>7, <2>1
<1>9. ASSUME freq[k] = 0, NEW x \in Lfu!Fresh(k) PROVE FALSE
  <2>1. PICK i \in 1 .. Len(uses) : x = LfuTable[uses[i]]
    BY <1>5, <1>6
  <2>2. uses[i] = k
    BY <1>3, <1>6, <1>7, <2>1
  <2> QED BY <1>2, <1>9, <2>2 DEF In
<1> QED BY <1>8, <1>9

\* What is shown after a call that leaves k in front.
LEMMA LfuShowsFront ==
  ASSUME LfuInv, LfuInv', NEW d \in Seq(LfuKeys), NEW k \in LfuKeys, uses' = InFront(k, d),
         \A x \in LfuKeys : In(d, x) => lfuVal'[x] = lfuVal[x] /\ freq'[x] = freq[x]
  PROVE  LfuEntries' = InFront(LfuTable'[k], Lists(d, LfuTable))
<1>1. LfuEntries' = Lists(InFront(k, d), LfuTable')
  <2>1. DOMAIN uses' = 1 .. Len(uses') /\ \A i \in 1 .. Len(uses') : uses'[i] \in LfuKeys
    BY DEF LfuInv, FreqLists
  <2>2. LfuEntries' = Lists(uses', LfuTable')
    BY <2>1 DEF LfuEntries, Lists, LfuTable
  <2> QED BY <2>2
<1>2. PICK r, q : r = LfuTable /\ q = LfuTable'
  OBVIOUS
<1>3. TableOf(r, LfuKeys, LfuItem)
  BY <1>2, LfuIsTable
<1>4. TableOf(q, LfuKeys, LfuItem)
  <2> SUFFICES ASSUME NEW x \in LfuKeys PROVE q[x] \in LfuItem /\ q[x].key = x
    BY DEF TableOf
  <2>1. /\ LfuTable'[x] = [key |-> x, val |-> lfuVal'[x], freq |-> freq'[x], stamp |-> 0]
        /\ LfuTable'[x] \in LfuItem
    BY LfuTableIsNext DEF LfuInv, FreqLists
  <2> QED BY <1>2, <2>1
<1>5. \A i \in 1 .. Len(d) : d[i] \in LfuKeys /\ In(d, d[i])
  BY DEF In
<1>6. \A x \in LfuKeys : In(d, x) => q[x] = r[x]
  BY <1>2 DEF LfuTable
<1>7. Agree(d, r, q, LfuKeys, LfuItem)
  BY <1>3, <1>4, <1>5, <1>6 DEF Agree
<1>8. Lists(InFront(k, d), q) = InFront(q[k], Lists(d, r))
  BY <1>7, ListsFront
<1> QED BY <1>1, <1>2, <1>8

\* k is the only key of its frequency.
Alone(k, F) == \A x \in LfuKeys : x # k => F[x] # F[k]

\* A use of k makes H of the frequencies F, and n of the least one, m.
Moves(F, H, k, m, n) ==
  /\ F \in [LfuKeys -> 0 .. MaxFreq] /\ k \in LfuKeys /\ F[k] # 0 /\ F[k] + 1 \in 1 .. MaxFreq
  /\ H = [F EXCEPT ![k] = F[k] + 1]
  /\ n = IF Alone(k, F) /\ F[k] = m THEN m + 1 ELSE m

LEMMA LeastMoves ==
  ASSUME NEW F, NEW H, NEW k, NEW m, NEW n, Least(m, F), Moves(F, H, k, m, n)
  PROVE  Least(n, H)
<1> USE DEF Moves
<1>1. MaxFreq \in Nat /\ m \in 1 .. MaxFreq /\ \A x \in LfuKeys : F[x] \in 0 .. MaxFreq
  BY FreqAssumption DEF Least
<1>2. H[k] = F[k] + 1 /\ \A x \in LfuKeys : x # k => H[x] = F[x]
  OBVIOUS
<1>3. \A x \in LfuKeys : F[x] # 0 => m <= F[x]
  BY DEF Least
<1>4. CASE Alone(k, F) /\ F[k] = m
  <2>1. n = m + 1 /\ n \in 1 .. MaxFreq /\ H[k] = n
    BY <1>2, <1>4
  <2>2. ASSUME NEW x \in LfuKeys, H[x] # 0, x # k PROVE n <= H[x]
    <3>1. F[x] # 0 /\ F[x] # m /\ H[x] = F[x]
      BY <1>2, <1>4, <2>2 DEF Alone
    <3> QED BY <1>1, <1>3, <2>1, <3>1
  <2>3. n <= H[k]
    BY <1>1, <2>1
  <2> QED BY <2>1, <2>2, <2>3 DEF Least
<1>5. CASE ~(Alone(k, F) /\ F[k] = m)
  <2>1. n = m
    BY <1>5
  <2>2. \E y \in LfuKeys : H[y] = m
    <3>1. CASE F[k] = m
      BY <1>2, <1>5, <3>1 DEF Alone
    <3>2. CASE F[k] # m
      <4>1. PICK y \in LfuKeys : F[y] = m
        BY DEF Least
      <4> QED BY <1>2, <3>2, <4>1
    <3> QED BY <3>1, <3>2
  <2>3. ASSUME NEW x \in LfuKeys, H[x] # 0 PROVE m <= H[x]
    <3>1. m <= F[k]
      BY <1>3
    <3> QED BY <1>1, <1>2, <1>3, <2>3, <3>1
  <2> QED BY <1>1, <2>1, <2>2, <2>3 DEF Least
<1> QED BY <1>4, <1>5

\* A key that is used comes to the front.
LEMMA LfuTouches ==
  ASSUME LfuInv, NEW k \in LfuKeys, freq[k] \in 1 .. MaxFreq - 1, Touched(k),
         uses' = <<k>> \o Drop(uses, k), UNCHANGED lfuCapacity,
         lfuVal' \in [LfuKeys -> LfuValues \cup {LfuNone}],
         \A x \in LfuKeys : x # k => lfuVal'[x] = lfuVal[x]
  PROVE  /\ LfuInv' /\ freq'[k] = freq[k] + 1
         /\ LfuEntries' = InFront(LfuTable'[k], Lfu!Others(k))
         /\ LfuTable[k] \in Lfu!Fresh(k)
<1>1. PICK u, L, F, m : u = uses /\ L = freqToList /\ F = freq /\ m = minFreq
  OBVIOUS
<1>2. FreqLists(u, L, F) /\ Least(m, F) /\ u \in Seq(LfuKeys) /\ Distinct(u)
      /\ F \in [LfuKeys -> 0 .. MaxFreq]
  BY <1>1 DEF LfuInv, FreqLists
<1>3. /\ F[k] # 0 /\ F[k] \in 1 .. MaxFreq /\ F[k] + 1 \in 1 .. MaxFreq /\ F[k] + 1 # F[k]
      /\ MaxFreq \in Nat
  BY <1>1, FreqAssumption
<1>4. PICK v, M, G : /\ v = Drop(u, k) /\ M = [L EXCEPT ![F[k]] = Drop(@, k)]
                     /\ G = [F EXCEPT ![k] = 0]
  OBVIOUS
<1>5. FreqLists(v, M, G) /\ Len(v) = Len(u) - 1 /\ Bare(u, k, v)
  BY <1>2, <1>3, <1>4, Removing
<1>6. v \in Seq(LfuKeys) /\ Distinct(v) /\ G[k] = 0 /\ ~In(v, k)
  BY <1>2, <1>4, <1>5 DEF FreqLists
<1>7. PICK w, N, H : /\ w = InFront(k, v) /\ N = [M EXCEPT ![F[k] + 1] = InFront(k, @)]
                     /\ H = [G EXCEPT ![k] = F[k] + 1]
  OBVIOUS
<1>8. FreqLists(w, N, H)
  BY <1>3, <1>5, <1>6, <1>7, Adding
<1>9. H = [F EXCEPT ![k] = F[k] + 1]
  BY <1>2, <1>4, <1>7
<1>10. uses' = w /\ freqToList' = N /\ freq' = H
       /\ minFreq' = IF M[F[k]] = << >> /\ F[k] = m THEN m + 1 ELSE m
  BY <1>1, <1>4, <1>7, <1>9 DEF Touched, InFront
<1>11. M[F[k]] = << >> <=> Alone(k, F)
  <2>1. M[F[k]] \in Seq(LfuKeys) /\ \A x : In(M[F[k]], x) <=> x \in LfuKeys /\ G[x] = F[k]
    BY <1>3, <1>5 DEF FreqLists
  <2>2. M[F[k]] = << >> <=> \A x : ~In(M[F[k]], x)
    <3>1. PICK l \in Seq(LfuKeys) : l = M[F[k]]
      BY <2>1
    <3>2. l # << >> => Len(l) # 0 /\ 1 \in 1 .. Len(l)
      BY EmptySeq
    <3>3. l # << >> => In(l, l[1])
      BY <3>2 DEF In
    <3>4. l = << >> => \A x : ~In(l, x)
      BY DEF In
    <3> QED BY <3>1, <3>3, <3>4
  <2>3. \A x \in LfuKeys : G[x] = F[k] <=> x # k /\ F[x] = F[k]
    BY <1>2, <1>3, <1>4
  <2> QED BY <2>1, <2>2, <2>3 DEF Alone
<1>12. Least(minFreq', H)
  <2>1. PICK n : n = IF Alone(k, F) /\ F[k] = m THEN m + 1 ELSE m
    OBVIOUS
  <2>2. Moves(F, H, k, m, n)
    BY <1>2, <1>3, <1>9, <2>1 DEF Moves
  <2>3. Least(n, H)
    BY <1>2, <2>2, LeastMoves
  <2> QED BY <1>10, <1>11, <2>1, <2>3
<1>13. Len(w) = Len(u)
  <2>1. Len(w) = Len(v) + 1 /\ Len(u) \in Nat
    BY <1>2, <1>6, <1>7, FrontIs
  <2> QED BY <1>5, <2>1
<1>14. LfuInv'
  BY <1>1, <1>8, <1>10, <1>12, <1>13 DEF LfuInv
<1>15. \A x \in LfuKeys : In(v, x) => lfuVal'[x] = lfuVal[x] /\ freq'[x] = freq[x]
  BY <1>1, <1>2, <1>6, <1>9, <1>10
<1>16. LfuEntries' = InFront(LfuTable'[k], Lists(v, LfuTable))
  BY <1>6, <1>7, <1>10, <1>14, <1>15, LfuShowsFront
<1>17. Lfu!Others(k) = Lists(v, LfuTable)
  BY <1>1, <1>5, LfuOthers
<1>18. freq'[k] = freq[k] + 1
  BY <1>1, <1>2, <1>9, <1>10
<1> QED BY <1>1, <1>3, <1>14, <1>16, <1>17, <1>18, LfuFresh

LEMMA LfuHits ==
  ASSUME LfuInv, NEW k \in LfuKeys, LfuHit(k), UNCHANGED lfuCapacity
  PROVE  LfuInv' /\ Lfu!Hit(k)
<1>1. /\ freq[k] \in 1 .. MaxFreq - 1 /\ Touched(k) /\ uses' = <<k>> \o Drop(uses, k)
      /\ lfuAnswer' = lfuVal[k] /\ lfuVal' = lfuVal
  BY DEF LfuHit
<1>2. lfuVal \in [LfuKeys -> LfuValues \cup {LfuNone}] /\ freq \in [LfuKeys -> 0 .. MaxFreq]
  BY DEF LfuInv, FreqLists
<1>3. /\ LfuInv' /\ freq'[k] = freq[k] + 1
      /\ LfuEntries' = InFront(LfuTable'[k], Lfu!Others(k))
      /\ LfuTable[k] \in Lfu!Fresh(k)
  BY <1>1, <1>2, LfuTouches
<1>4. Lfu!Used(LfuTable[k]) = LfuTable'[k] /\ LfuTable[k].val = lfuVal[k]
  <2>1. LfuTable[k] = [key |-> k, val |-> lfuVal[k], freq |-> freq[k], stamp |-> 0]
    BY DEF LfuTable
  <2>2. LfuTable'[k] = [key |-> k, val |-> lfuVal[k], freq |-> freq[k] + 1, stamp |-> 0]
    BY <1>1, <1>3 DEF LfuTable
  <2>3. \A e : Lfu!Used(e) = Stamped(e, e.freq + 1, 0)
    BY DEF Lfu!Used, Lfu!Touched, Lfu!Uses, Stamped
  <2>4. LfuTable[k].freq = freq[k]
    BY <2>1
  <2>5. Stamped(LfuTable[k], freq[k] + 1, 0)
          = [key |-> k, val |-> lfuVal[k], freq |-> freq[k] + 1, stamp |-> 0]
    BY <2>1, Restamped
  <2> QED BY <2>1, <2>2, <2>3, <2>4, <2>5
<1> QED BY <1>1, <1>3, <1>4 DEF Lfu!Hit, InFront

LEMMA LfuReplaces ==
  ASSUME LfuInv, NEW k \in LfuKeys, NEW v \in LfuValues, LfuReplace(k, v), UNCHANGED lfuCapacity
  PROVE  LfuInv' /\ Lfu!Replace(k, v) /\ UNCHANGED lfuAnswer
<1>1. /\ freq[k] \in 1 .. MaxFreq - 1 /\ Touched(k) /\ uses' = <<k>> \o Drop(uses, k)
      /\ lfuAnswer' = lfuAnswer /\ lfuVal' = [lfuVal EXCEPT ![k] = v]
  BY DEF LfuReplace
<1>2. /\ lfuVal' \in [LfuKeys -> LfuValues \cup {LfuNone}] /\ lfuVal'[k] = v
      /\ \A x \in LfuKeys : x # k => lfuVal'[x] = lfuVal[x]
  BY <1>1 DEF LfuInv
<1>3. /\ LfuInv' /\ freq'[k] = freq[k] + 1
      /\ LfuEntries' = InFront(LfuTable'[k], Lfu!Others(k))
      /\ LfuTable[k] \in Lfu!Fresh(k)
  BY <1>1, <1>2, LfuTouches
<1>4. Holding(Lfu!Touched(LfuTable[k]), v) = LfuTable'[k]
  <2>1. LfuTable[k] = [key |-> k, val |-> lfuVal[k], freq |-> freq[k], stamp |-> 0]
    BY DEF LfuTable
  <2>2. LfuTable'[k] = [key |-> k, val |-> v, freq |-> freq[k] + 1, stamp |-> 0]
    BY <1>2, <1>3 DEF LfuTable
  <2>3. \A e : Lfu!Touched(e) = Stamped(e, e.freq + 1, 0)
    BY DEF Lfu!Touched, Lfu!Uses, Stamped
  <2>4. LfuTable[k].freq = freq[k]
    BY <2>1
  <2>5. Holding(Stamped(LfuTable[k], freq[k] + 1, 0), v)
          = [key |-> k, val |-> v, freq |-> freq[k] + 1, stamp |-> 0]
    BY <2>1, Restamped
  <2> QED BY <2>2, <2>3, <2>4, <2>5
<1> QED BY <1>1, <1>3, <1>4 DEF Lfu!Replace, InFront, Holding

LEMMA LfuMisses ==
  ASSUME LfuInv, NEW k \in LfuKeys, LfuMiss(k), UNCHANGED lfuCapacity
  PROVE  LfuInv' /\ Lfu!Miss(k)
<1>1. /\ freq[k] = 0 /\ lfuAnswer' = LfuNone
      /\ UNCHANGED <<freq, lfuVal, freqToList, minFreq, uses>>
  BY DEF LfuMiss
<1>2. LfuInv' /\ LfuEntries' = LfuEntries
  BY <1>1 DEF LfuInv, LfuEntries
<1>3. Lfu!Fresh(k) = {}
  BY <1>1, LfuFresh
<1>4. Bare(uses, k, uses)
  BY <1>1 DEF LfuInv, FreqLists, Bare
<1>5. Lfu!Others(k) = LfuEntries
  BY <1>4, LfuOthers, LfuShown
<1> QED BY <1>1, <1>2, <1>3, <1>5 DEF Lfu!Miss

\* There are as many keys in the map as uses lists.
LEMMA LfuCounted == LfuInv => Cardinality(Present) = Len(uses)
<1> SUFFICES ASSUME LfuInv PROVE Cardinality(Present) = Len(uses)
  OBVIOUS
<1>1. uses \in Seq(LfuKeys) /\ Distinct(uses) /\ Present = {x \in LfuKeys : In(uses, x)}
  BY DEF LfuInv, FreqLists, Present
<1> QED BY <1>1, DistinctCounts

\* The key that goes is there, and of those used least often it is the last in uses.
LEMMA EvictedIs ==
  ASSUME LfuInv, Len(uses) # 0
  PROVE  /\ Evicted \in LfuKeys /\ freq[Evicted] = minFreq /\ minFreq \in 1 .. MaxFreq
         /\ \E p \in 1 .. Len(uses) :
              /\ uses[p] = Evicted
              /\ \A i \in 1 .. Len(uses) : freq[uses[i]] = minFreq => i <= p
<1>1. /\ uses \in Seq(LfuKeys) /\ Distinct(uses) /\ Len(uses) \in Nat
      /\ \A x : In(uses, x) <=> x \in LfuKeys /\ freq[x] # 0
      /\ Least(minFreq, freq) /\ minFreq \in 1 .. MaxFreq
  BY DEF LfuInv, FreqLists, Least
<1>2. PICK l \in Seq(LfuKeys) :
        /\ l = freqToList[minFreq] /\ Len(l) \in Nat
        /\ \A x : In(l, x) <=> x \in LfuKeys /\ freq[x] = minFreq
        /\ \A x, y : Before(l, x, y) => Before(uses, x, y)
  <2>1. freqToList[minFreq] \in Seq(LfuKeys)
    BY <1>1 DEF LfuInv, FreqLists
  <2>2. \A x : In(freqToList[minFreq], x) <=> x \in LfuKeys /\ freq[x] = minFreq
    BY <1>1 DEF LfuInv, FreqLists
  <2>3. \A x, y : Before(freqToList[minFreq], x, y) => Before(uses, x, y)
    BY <1>1 DEF LfuInv, FreqLists
  <2> QED BY <2>1, <2>2, <2>3
<1>3. \E y \in LfuKeys : freq[y] = minFreq
  <2>1. 1 \in 1 .. Len(uses)
    BY <1>1
  <2>2. uses[1] \in LfuKeys /\ freq[uses[1]] # 0
    BY <1>1, <2>1 DEF In
  <2> QED BY <1>1, <2>2 DEF Least
<1>4. Len(l) \in 1 .. Len(l) /\ Evicted = l[Len(l)]
  <2>1. Len(l) # 0
    BY <1>2, <1>3 DEF In
  <2> QED BY <1>2, <2>1 DEF Evicted, Last
<1>5. Evicted \in LfuKeys /\ freq[Evicted] = minFreq
  BY <1>2, <1>4 DEF In
<1>6. minFreq # 0
  BY <1>1
<1>7. PICK p \in 1 .. Len(uses) : uses[p] = Evicted
  BY <1>1, <1>5, <1>6 DEF In
<1>8. ASSUME NEW i \in 1 .. Len(uses), freq[uses[i]] = minFreq PROVE i <= p
  <2>1. uses[i] \in LfuKeys
    BY <1>1
  <2>2. PICK a \in 1 .. Len(l) : l[a] = uses[i]
    BY <1>2, <1>8, <2>1 DEF In
  <2>3. CASE a = Len(l)
    <3>1. i = p
      BY <1>1, <1>4, <1>7, <2>2, <2>3 DEF Distinct
    <3> QED BY <1>1, <3>1
  <2>4. CASE a # Len(l)
    <3>1. a < Len(l)
      BY <1>2, <2>4
    <3>2. Before(l, uses[i], Evicted)
      BY <1>4, <2>2, <3>1 DEF Before
    <3>3. PICK b, c \in 1 .. Len(uses) : b < c /\ uses[b] = uses[i] /\ uses[c] = Evicted
      BY <1>2, <3>2, ZenonT(40) DEF Before
    <3>4. b = i /\ c = p
      BY <1>1, <1>7, <3>3 DEF Distinct
    <3> QED BY <3>3, <3>4
  <2> QED BY <2>3, <2>4
<1> QED BY <1>1, <1>5, <1>7, <1>8

\* It is the one that the abstract cache drives out.
LEMMA LfuVictim ==
  ASSUME LfuInv, NEW p \in 1 .. Len(uses), freq[uses[p]] = minFreq,
         \A i \in 1 .. Len(uses) : freq[uses[i]] = minFreq => i <= p
  PROVE  Lfu!Victim(Lists(uses, LfuTable)) = p
<1>1. /\ uses \in Seq(LfuKeys) /\ Len(uses) \in Nat
      /\ \A x : In(uses, x) <=> x \in LfuKeys /\ freq[x] # 0
      /\ Least(minFreq, freq) /\ freq \in [LfuKeys -> 0 .. MaxFreq]
      /\ MaxFreq \in Nat /\ minFreq \in 1 .. MaxFreq
  BY FreqAssumption DEF LfuInv, FreqLists, Least
<1>2. PICK r : r = LfuTable
  OBVIOUS
<1>3. TableOf(r, LfuKeys, LfuItem)
  BY <1>2, LfuIsTable
<1>4. PICK s \in Seq(LfuItem) :
        /\ s = Lists(uses, r) /\ Len(s) = Len(uses)
        /\ \A i \in 1 .. Len(uses) : uses[i] \in LfuKeys /\ s[i] = r[uses[i]]
  <2>1. /\ Lists(uses, r) \in Seq(LfuItem) /\ Len(Lists(uses, r)) = Len(uses)
        /\ \A i \in 1 .. Len(uses) : uses[i] \in LfuKeys /\ Lists(uses, r)[i] = r[uses[i]]
    BY <1>1, <1>3, ListsAre
  <2> QED BY <2>1
<1>5. \A i \in 1 .. Len(uses) : s[i].freq = freq[uses[i]]
  <2>1. \A x \in LfuKeys : r[x].freq = freq[x]
    BY <1>2 DEF LfuTable
  <2> QED BY <1>4, <2>1
<1>6. DOMAIN s = 1 .. Len(uses)
  BY <1>4
<1>7. PICK Q : Q = {s[i].freq : i \in DOMAIN s}
  OBVIOUS
<1>8. Q \subseteq 0 .. MaxFreq /\ minFreq \in Q /\ \A f \in Q : minFreq <= f
  <2>1. \A i \in 1 .. Len(uses) : freq[uses[i]] # 0 /\ freq[uses[i]] \in 0 .. MaxFreq
    BY <1>1, <1>4 DEF In
  <2>2. \A i \in 1 .. Len(uses) : minFreq <= freq[uses[i]]
    BY <1>1, <1>4, <2>1 DEF Least
  <2> QED BY <1>5, <1>6, <1>7, <2>1, <2>2, SMTT(30)
<1>9. Lfu!Min(Q) = minFreq
  <2>1. \A x \in Q : (\A y \in Q : x <= y) => x = minFreq
    BY <1>1, <1>8
  <2> QED BY <1>8, <2>1 DEF Lfu!Min
<1>10. PICK P : P = {i \in DOMAIN s : s[i].freq = minFreq}
  OBVIOUS
<1>11. P \subseteq 1 .. Len(uses) /\ p \in P /\ \A i \in P : i <= p
  BY <1>5, <1>6, <1>10
<1>12. Lfu!Max(P) = p
  <2>1. \A x \in P : (\A y \in P : x >= y) => x = p
    BY <1>1, <1>11
  <2>2. \A y \in P : p >= y
    BY <1>1, <1>11
  <2> QED BY <1>11, <2>1, <2>2 DEF Lfu!Max
<1>13. Lfu!Victim(s) = LET least == Lfu!Min(Q)
                       IN  Lfu!Max({i \in DOMAIN s : s[i].freq = least})
  BY <1>7 DEF Lfu!Victim
<1>14. Lfu!Victim(s) = p
  BY <1>9, <1>10, <1>12, <1>13
<1> QED BY <1>2, <1>4, <1>14

\* A new key comes first, and if the cache is full the least used goes.
LEMMA LfuInserts ==
  ASSUME LfuInv, NEW k \in LfuKeys, NEW v \in LfuValues, LfuInsert(k, v), UNCHANGED lfuCapacity
  PROVE  LfuInv' /\ Lfu!Insert(k, v) /\ UNCHANGED lfuAnswer
<1>1. PICK u, L, F : u = uses /\ L = freqToList /\ F = freq
  OBVIOUS
<1>2. /\ FreqLists(u, L, F) /\ u \in Seq(LfuKeys) /\ Distinct(u) /\ Len(u) \in Nat
      /\ F \in [LfuKeys -> 0 .. MaxFreq] /\ \A x : In(u, x) <=> x \in LfuKeys /\ F[x] # 0
      /\ lfuCapacity \in Nat \ {0} /\ Len(u) <= lfuCapacity
      /\ MaxFreq \in Nat /\ 1 \in 1 .. MaxFreq
  BY <1>1, FreqAssumption DEF LfuInv, FreqLists
<1>3. F[k] = 0 /\ minFreq' = 1 /\ UNCHANGED lfuAnswer /\ lfuVal' = [lfuVal EXCEPT ![k] = v]
  BY <1>1 DEF LfuInsert
<1>4. /\ lfuVal' \in [LfuKeys -> LfuValues \cup {LfuNone}] /\ lfuVal'[k] = v
      /\ \A x \in LfuKeys : x # k => lfuVal'[x] = lfuVal[x]
  BY <1>3 DEF LfuInv
<1>5. LfuFull <=> Len(u) = lfuCapacity
  BY <1>1, LfuCounted DEF LfuFull
<1>6. \* It is enough that the list v comes before k is put in front of it.
      ASSUME NEW d, NEW M, NEW G, FreqLists(d, M, G), G[k] = 0, Len(d) < lfuCapacity,
             uses' = <<k>> \o d, freqToList' = [M EXCEPT ![1] = <<k>> \o @],
             freq' = [G EXCEPT ![k] = 1],
             \A x \in LfuKeys : In(d, x) => G[x] = F[x]
      PROVE  LfuInv' /\ LfuEntries' = InFront(LfuTable'[k], Lists(d, LfuTable))
  <2>1. /\ d \in Seq(LfuKeys) /\ ~In(d, k) /\ Len(d) \in Nat
        /\ G \in [LfuKeys -> 0 .. MaxFreq]
    BY <1>6 DEF FreqLists
  <2>2. FreqLists(InFront(k, d), [M EXCEPT ![1] = InFront(k, @)], [G EXCEPT ![k] = 1])
    BY <1>2, <1>6, Adding
  <2>3. FreqLists(uses, freqToList, freq)'
    BY <1>6, <2>2 DEF InFront
  <2>4. Len(uses') = Len(d) + 1
    BY <1>6, <2>1, FrontIs DEF InFront
  <2>5. Len(uses') <= lfuCapacity
    BY <1>2, <1>6, <2>1, <2>4
  <2>6. freq'[k] = 1 /\ \A x \in LfuKeys : x # k => freq'[x] = G[x]
    BY <1>6, <2>1
  <2>7. freq' \in [LfuKeys -> 0 .. MaxFreq]
    BY <2>3 DEF FreqLists
  <2>8. \A x \in LfuKeys : freq'[x] # 0 => 1 <= freq'[x]
    BY <1>2, <2>7
  <2>9. Least(minFreq, freq)'
    BY <1>2, <1>3, <2>6, <2>8 DEF Least
  <2>10. LfuInv'
    BY <1>2, <1>4, <2>3, <2>5, <2>9 DEF LfuInv
  <2>11. \A x \in LfuKeys : In(d, x) => lfuVal'[x] = lfuVal[x] /\ freq'[x] = freq[x]
    BY <1>1, <1>4, <1>6, <2>1, <2>6
  <2>12. uses' = InFront(k, d)
    BY <1>6 DEF InFront
  <2> QED BY <2>1, <2>10, <2>11, <2>12, LfuShowsFront
<1>7. Lfu!Fresh(k) = {} /\ Lfu!Others(k) = Lists(u, LfuTable)
  <2>1. Bare(uses, k, u)
    BY <1>1, <1>2, <1>3 DEF Bare
  <2> QED BY <1>1, <1>3, <2>1, LfuFresh, LfuOthers
<1>8. PICK r : r = LfuTable
  OBVIOUS
<1>9. TableOf(r, LfuKeys, LfuItem)
  BY <1>8, LfuIsTable
<1>10. PICK s : s = Lists(u, r)
  OBVIOUS
<1>11. s \in Seq(LfuItem) /\ Len(s) = Len(u)
  BY <1>2, <1>9, <1>10, ListsAre, SMTT(30)
<1>12. freq'[k] = 1 => LfuTable'[k] = [key |-> k, val |-> v, freq |-> Lfu!Uses(1), stamp |-> 0]
  BY <1>4 DEF LfuTable, Lfu!Uses
<1>13. freq'[k] = 1
  BY DEF LfuInsert
<1>14. CASE ~LfuFull
  <2>1. Len(u) < lfuCapacity
    BY <1>2, <1>5, <1>14
  <2>2. freqToList' = [L EXCEPT ![1] = <<k>> \o @] /\ uses' = <<k>> \o u
    BY <1>1, <1>14 DEF LfuInsert
  <2>3. freq' = [F EXCEPT ![k] = 1]
    BY <1>1, <1>2, <1>14 DEF LfuInsert
  <2>4. LfuInv' /\ LfuEntries' = InFront(LfuTable'[k], s)
    BY <1>2, <1>3, <1>6, <1>8, <1>10, <2>1, <2>2, <2>3
  <2>5. Lfu!Insert(k, v)
    BY <1>7, <1>8, <1>10, <1>11, <1>12, <1>13, <2>1, <2>4 DEF Lfu!Insert, InFront
  <2> QED BY <1>3, <2>4, <2>5
<1>15. CASE LfuFull
  <2>1. Len(u) = lfuCapacity /\ Len(u) # 0 /\ ~(Len(u) < lfuCapacity)
    BY <1>2, <1>5, <1>15
  <2>2. PICK e \in LfuKeys : e = Evicted /\ F[e] = minFreq /\ minFreq \in 1 .. MaxFreq
    BY <1>1, <2>1, EvictedIs
  <2>3. PICK p \in 1 .. Len(u) :
          /\ u[p] = e /\ \A i \in 1 .. Len(u) : freq[u[i]] = minFreq => i <= p
    BY <1>1, <2>1, <2>2, EvictedIs
  <2>4. F[e] # 0 /\ e # k
    BY <1>3, <2>2
  <2>5. PICK d, M, G : /\ d = Drop(u, e) /\ M = [L EXCEPT ![F[e]] = Drop(@, e)]
                       /\ G = [F EXCEPT ![e] = 0]
    OBVIOUS
  <2>6. FreqLists(d, M, G) /\ Len(d) = Len(u) - 1 /\ Bare(u, e, d)
    BY <1>2, <2>4, <2>5, Removing
  <2>7. d = Cut(u, p)
    BY <1>2, <2>3, <2>6 DEF Bare, Distinct, In
  <2>8. freqToList' = [M EXCEPT ![1] = <<k>> \o @] /\ uses' = <<k>> \o d
    BY <1>1, <1>15, <2>2, <2>5 DEF LfuInsert
  <2>9. freq' = [G EXCEPT ![k] = 1]
    <3>1. freq' = [x \in LfuKeys |-> IF x = k THEN 1 ELSE IF x = e THEN 0 ELSE F[x]]
      BY <1>1, <1>15, <2>2 DEF LfuInsert
    <3>2. G = [x \in LfuKeys |-> IF x = e THEN 0 ELSE F[x]]
      BY <1>2, <2>5
    <3> QED BY <3>1, <3>2
  <2>10. /\ G[k] = 0 /\ Len(d) < lfuCapacity
         /\ \A x \in LfuKeys : In(d, x) => G[x] = F[x]
    <3>1. \A x : In(d, x) <=> x \in LfuKeys /\ G[x] # 0
      BY <2>6 DEF FreqLists
    <3>2. \A x \in LfuKeys : x # e => G[x] = F[x]
      BY <1>2, <2>5
    <3>3. G[e] = 0
      BY <1>2, <2>5
    <3>4. G[k] = 0
      BY <1>3, <2>4, <3>2
    <3>5. Len(d) < lfuCapacity
      BY <1>2, <2>1, <2>6
    <3> QED BY <3>1, <3>2, <3>3, <3>4, <3>5
  <2>11. LfuInv' /\ LfuEntries' = InFront(LfuTable'[k], Lists(d, LfuTable))
    BY <1>6, <2>6, <2>8, <2>9, <2>10
  <2>12. Lists(d, r) = Cut(s, p)
    <3>1. Tabled(u, r, LfuKeys, LfuItem)
      BY <1>2, <1>9 DEF Tabled
    <3>2. Lists(Cut(u, p), r) = Cut(Lists(u, r), p)
      BY <3>1, ListsCut
    <3> QED BY <1>10, <2>7, <3>2
  <2>13. Lfu!Victim(s) = p
    BY <1>1, <1>8, <1>10, <2>2, <2>3, LfuVictim
  <2>14. Lfu!RemoveAt(s, p) = Cut(s, p)
    <3>1. p \in 1 .. Len(s)
      BY <1>11
    <3>2. RemoveAt(s, p) = Cut(s, p)
      BY <1>11, <3>1, RemoveAtIs
    <3> QED BY <3>2 DEF RemoveAt, Lfu!RemoveAt
  <2>15. Lfu!Insert(k, v)
    BY <1>7, <1>8, <1>10, <1>11, <1>12, <1>13, <2>1, <2>11, <2>12, <2>13, <2>14
       DEF Lfu!Insert, InFront
  <2> QED BY <1>3, <2>11, <2>15
<1> QED BY <1>14, <1>15

LEMMA LfuStarts == LfuInit => LfuInv /\ Lfu!Init
<1> SUFFICES ASSUME LfuInit PROVE LfuInv /\ Lfu!Init
  OBVIOUS
<1>1. /\ lfuCapacity \in Nat \ {0} /\ uses = << >> /\ Len(uses) = 0
      /\ MaxFreq \in Nat /\ MaxFreq # 0
  BY LfuCapacityAssumption, FreqAssumption DEF LfuInit
<1>2. freqToList \in [1 .. MaxFreq -> Seq(LfuKeys)] /\ freq \in [LfuKeys -> 0 .. MaxFreq]
  BY <1>1 DEF LfuInit
<1>3. uses \in Seq(LfuKeys) /\ Distinct(uses) /\ \A x : ~In(uses, x)
  BY <1>1 DEF Distinct, In
<1>4. \A x \in LfuKeys : freq[x] = 0
  BY DEF LfuInit
<1>5. ASSUME NEW f \in 1 .. MaxFreq
      PROVE  /\ Distinct(freqToList[f]) /\ \A x : ~In(freqToList[f], x)
             /\ \A x, y : ~Before(freqToList[f], x, y)
             /\ f # 0
  <2>1. freqToList[f] = << >> /\ Len(freqToList[f]) = 0
    BY DEF LfuInit
  <2> QED BY <2>1 DEF Distinct, In, Before
<1>6. FreqLists(uses, freqToList, freq)
  BY <1>2, <1>3, <1>4, <1>5 DEF FreqLists
<1>7. Least(minFreq, freq)
  BY <1>1, <1>4 DEF LfuInit, Least
<1>8. lfuVal \in [LfuKeys -> LfuValues \cup {LfuNone}] /\ Len(uses) <= lfuCapacity
  BY <1>1 DEF LfuInit
<1>9. LfuInv
  BY <1>1, <1>6, <1>7, <1>8 DEF LfuInv
<1>10. LfuEntries = << >>
  BY <1>1 DEF LfuEntries
<1> QED BY <1>9, <1>10 DEF LfuInit, Lfu!Init

LEMMA LfuKept ==
  LfuInv /\ [LfuNext]_lfuVars => LfuInv' /\ [Lfu!Next]_<<LfuEntries, lfuAnswer>>
<1> SUFFICES ASSUME LfuInv, [LfuNext]_lfuVars
             PROVE  LfuInv' /\ [Lfu!Next]_<<LfuEntries, lfuAnswer>>
  OBVIOUS
<1>1. CASE UNCHANGED lfuVars
  BY <1>1 DEF lfuVars, LfuInv, LfuEntries
<1>2. ASSUME NEW k \in LfuKeys, LfuHit(k) \/ LfuMiss(k), UNCHANGED lfuCapacity
      PROVE  LfuInv' /\ [Lfu!Next]_<<LfuEntries, lfuAnswer>>
  <2>1. LfuInv' /\ (Lfu!Hit(k) \/ Lfu!Miss(k))
    BY <1>2, LfuHits, LfuMisses
  <2> QED BY <2>1 DEF Lfu!Next
<1>3. ASSUME NEW k \in LfuKeys, NEW v \in LfuValues, LfuReplace(k, v) \/ LfuInsert(k, v),
             UNCHANGED lfuCapacity
      PROVE  LfuInv' /\ [Lfu!Next]_<<LfuEntries, lfuAnswer>>
  <2>1. LfuInv' /\ (Lfu!Replace(k, v) \/ Lfu!Insert(k, v)) /\ UNCHANGED lfuAnswer
    BY <1>3, LfuReplaces, LfuInserts
  <2> QED BY <2>1 DEF Lfu!Next
<1> QED BY <1>1, <1>2, <1>3 DEF LfuNext

\* For any capacity: the lists by frequency of the LFU cache agree with the order of all uses,
\* so that of the keys used least often it drives out the one used longest ago.
THEOREM LfuForgetsTheLeastUsed == LfuInit /\ [][LfuNext]_lfuVars => Lfu!Spec
BY LfuStarts, LfuKept, PTL DEF Lfu!Spec
-----------------------------------------------------------------------------
(* The sharded cache *)

\* What the worker still has to do, and what one task makes of the list.
Pending == IF worker = "run" THEN InFront(task, tasks) ELSE tasks

Task == [op : {"front", "drop"}, node : CNodes] \cup [op : {"evict"}, bucket : Buckets]

Effect(t, c, d) == \/ t.op = "front" /\ \E e : Bared(CNodes, c, t.node, e) /\ d = InFront(t.node, e)
                   \/ t.op = "drop" /\ \E p \in 1 .. Len(c) : c[p] = t.node /\ d = Cut(c, p)
                   \/ t.op = "evict" /\ d = c

\* A list of nodes that are allocated and are there for different keys.
Proper(c, L, names) ==
  /\ c \in Seq(CNodes)
  /\ \A i \in 1 .. Len(c) : c[i] \in L /\ names[c[i]] \in ClruKeys
  /\ \A i, j \in 1 .. Len(c) : names[c[i]] = names[c[j]] => i = j

\* The lists after 0, 1, .. of the tasks P; a deleted node is in no later one.
Stages(S, P, L, names) ==
  /\ \A i \in 0 .. Len(P) : Proper(S[i], L, names)
  /\ \A i \in 1 .. Len(P) : Effect(P[i], S[i - 1], S[i])
  /\ \A i \in 1 .. Len(P) : P[i].op = "drop" => \A j \in i .. Len(P) : ~In(S[j], P[i].node)

\* The first is the list as it is, the last what the callers have asked for.
Ahead == \E S : /\ Stages(S, Pending, liveNodes, nodeKey)
                /\ Circle(CDummy, list, S[0]) /\ asked = S[Len(Pending)]
                /\ \A n \in liveNodes : In(S[0], n) \/ list.prev[n] = Null

Gone(k) == \E p \in Callers : at[p] = "erase" /\ Key(p) = k
Coming(k) == \E p \in Callers : at[p] = "async" /\ Op(p) = "put" /\ Key(p) = k
Going(n) == \E i \in 1 .. Len(Pending) : Pending[i].op = "drop" /\ Pending[i].node = n

CallerAt(p) ==
  at[p] # "idle" =>
    /\ p \in crew.callers /\ Op(p) \in crew.calls /\ Key(p) \in ClruKeys
    /\ at[p] # "lookup" => node[p] \in CNodes /\ node[p] = keys[Key(p)]
    /\ at[p] = "erase" => Op(p) = "del" /\ ~In(asked, node[p])

CallersAt == \A p \in Callers : CallerAt(p)

\* The maps' entries and what has been asked for.
EntriesAre ==
  /\ \A k \in ClruKeys :
       keys[k] # Null /\ ~Gone(k) =>
         /\ keys[k] \in liveNodes /\ nodeKey[keys[k]] = k /\ ~Going(keys[k])
         /\ ~Coming(k) => In(asked, keys[k])
  /\ \A n \in CNodes : In(asked, n) => keys[nodeKey[n]] = n

ClruType ==
  /\ tasks \in Seq(Task) /\ list \in Links(CNodes, CDummy, CNodes \cup {CDummy, Null})
  /\ worker \in {"test", "lock", "toWait", "wait", "run", "done", "joined"}
  /\ worker = "run" => task \in Task
  /\ keys \in [ClruKeys -> CNodes \cup {Null}] /\ nodeKey \in [CNodes -> ClruKeys \cup {Null}]
  /\ liveNodes \in SUBSET CNodes /\ asked \in Seq(CNodes)
  /\ at \in [Callers -> {"idle", "lookup", "async", "read", "shrink", "erase"}]
  /\ DOMAIN call = Callers /\ DOMAIN node = Callers
  /\ crew.calls \in SUBSET {"get", "put", "del", "clear"} /\ crew.cap \in Nat
  /\ bucketOf \in [ClruKeys -> Buckets]

Working == ClruType /\ CallersAt /\ EntriesAre /\ Ahead

ClruInv ==
  /\ ~fault
  /\ worker \in {"done", "joined"} => stop
  /\ stop => \A p \in Callers : at[p] = "idle"
  /\ worker # "joined" => Working

NodeLinks == Links(CNodes, CDummy, CNodes \cup {CDummy, Null})

LEMMA BareMeans ==
  ASSUME NEW K, NEW c \in Seq(K), Distinct(c), NEW k, NEW d, Bare(c, k, d)
  PROVE  Bared(K, c, k, d)
<1>1. Len(c) \in Nat
  OBVIOUS
<1>2. CASE ~In(c, k) /\ d = c
  BY <1>1, <1>2 DEF Bared
<1>3. ASSUME NEW p \in 1 .. Len(c), c[p] = k, d = Cut(c, p) PROVE Bared(K, c, k, d)
  <2>1. /\ d \in Seq(K) /\ Len(d) = Len(c) - 1 /\ Distinct(d)
        /\ \A x : In(d, x) <=> In(c, x) /\ x # k
    BY <1>3, CutDistinct
  <2>2. Len(d) \in Nat /\ Len(d) <= Len(c)
    BY <1>1, <2>1
  <2> QED BY <2>1, <2>2 DEF Bared
<1> QED BY <1>2, <1>3 DEF Bare

LEMMA WithoutIs ==
  ASSUME asked \in Seq(CNodes), Distinct(asked), NEW n
  PROVE  Bared(CNodes, asked, n, Without(n))
<1>1. Without(n) = Drop(asked, n)
  BY DEF Without, Drop
<1>2. Bare(asked, n, Without(n))
  BY <1>1, DropIs
<1> QED BY <1>2, BareMeans

\* The places of a proper list.
LEMMA ProperIs ==
  ASSUME NEW c, NEW L, NEW names, Proper(c, L, names)
  PROVE  /\ c \in Seq(CNodes) /\ Len(c) \in Nat /\ Distinct(c)
         /\ \A n : In(c, n) => n \in CNodes /\ n \in L /\ names[n] \in ClruKeys
         /\ \A n, m : In(c, n) /\ In(c, m) /\ names[n] = names[m] => n = m
<1>1. c \in Seq(CNodes) /\ Len(c) \in Nat
  BY DEF Proper
<1>2. Distinct(c)
  BY DEF Proper, Distinct
<1>3. ASSUME NEW n, In(c, n) PROVE n \in CNodes /\ n \in L /\ names[n] \in ClruKeys
  BY <1>1, <1>3 DEF Proper, In
<1>4. ASSUME NEW n, NEW m, In(c, n), In(c, m), names[n] = names[m] PROVE n = m
  BY <1>4 DEF Proper, In
<1> QED BY <1>1, <1>2, <1>3, <1>4

LEMMA ProperFrom ==
  ASSUME NEW c \in Seq(CNodes), NEW L, NEW names, Distinct(c),
         \A n : In(c, n) => n \in L /\ names[n] \in ClruKeys,
         \A n, m : In(c, n) /\ In(c, m) /\ names[n] = names[m] => n = m
  PROVE  Proper(c, L, names)
<1>1. \A i \in 1 .. Len(c) : In(c, c[i])
  BY DEF In
<1>2. \A i, j \in 1 .. Len(c) : names[c[i]] = names[c[j]] => i = j
  BY <1>1 DEF Distinct
<1> QED BY <1>1, <1>2 DEF Proper

LEMMA ProperStill ==
  ASSUME NEW c, NEW L, NEW names, Proper(c, L, names), NEW M, NEW others,
         \A n : In(c, n) => n \in M /\ others[n] = names[n]
  PROVE  Proper(c, M, others)
<1>1. /\ c \in Seq(CNodes) /\ Distinct(c)
      /\ \A n : In(c, n) => n \in CNodes /\ n \in L /\ names[n] \in ClruKeys
      /\ \A n, m : In(c, n) /\ In(c, m) /\ names[n] = names[m] => n = m
  BY ProperIs
<1>2. /\ \A n : In(c, n) => n \in M /\ others[n] \in ClruKeys
      /\ \A n, m : In(c, n) /\ In(c, m) /\ others[n] = others[m] => n = m
  BY <1>1
<1> QED BY <1>1, <1>2, ProperFrom

\* remove takes a node out of the list, if it is there.
LEMMA RemoveIs ==
  ASSUME NEW c \in Seq(CNodes), Distinct(c), NEW l \in NodeLinks, Circle(CDummy, l, c),
         NEW n \in CNodes, In(c, n) \/ l.prev[n] = Null, NEW d, Bare(c, n, d)
  PROVE  /\ Unlinked(l, n) \in NodeLinks /\ Circle(CDummy, Unlinked(l, n), d)
         /\ \A m \in CNodes : ~In(c, m) => Unlinked(l, n).prev[m] = l.prev[m]
<1>1. /\ CDummy \notin CNodes /\ Null \notin CNodes \cup {CDummy}
      /\ CNodes \cup {CDummy} \subseteq CNodes \cup {CDummy, Null}
  BY NodesAssumption
<1>2. /\ Len(c) \in Nat
      /\ \A i \in 1 .. Len(c) : Place(CDummy, c, i) = c[i] /\ c[i] \in CNodes /\ c[i] # CDummy
      /\ \A i \in 0 .. Len(c) + 1 : Place(CDummy, c, i) \in (CNodes \cup {CDummy})
  BY <1>1, PlacesApart
<1>3. CASE ~In(c, n) /\ d = c
  BY <1>3 DEF Unlinked
<1>4. ASSUME NEW p \in 1 .. Len(c), c[p] = n, d = Cut(c, p)
      PROVE  /\ Unlinked(l, n) \in NodeLinks /\ Circle(CDummy, Unlinked(l, n), d)
             /\ \A m \in CNodes : ~In(c, m) => Unlinked(l, n).prev[m] = l.prev[m]
  <2>1. p - 1 \in 0 .. Len(c) /\ p - 1 + 1 = p /\ p - 1 \in 0 .. Len(c) + 1
        /\ p \in 0 .. Len(c) /\ p + 1 \in 0 .. Len(c) + 1
    BY <1>2
  <2>2. l.prev[n] = Place(CDummy, c, p - 1) /\ l.next[n] = Place(CDummy, c, p + 1)
    <3>1. l.prev[Place(CDummy, c, p - 1 + 1)] = Place(CDummy, c, p - 1)
      BY <2>1 DEF Circle
    <3>2. l.next[Place(CDummy, c, p)] = Place(CDummy, c, p + 1)
      BY <2>1 DEF Circle
    <3> QED BY <1>2, <1>4, <2>1, <3>1, <3>2
  <2>3. l.prev[n] # Null
    BY <1>1, <1>2, <2>1, <2>2
  <2>4. Unlinked(l, n) = Unlink(l, n)
    BY <2>3 DEF Unlinked, Unlink
  <2>5. Unlink(l, n) \in NodeLinks /\ Circle(CDummy, Unlink(l, n), d)
    <3>1. /\ Unlink(l, c[p]) \in Links(CNodes, CDummy, CNodes \cup {CDummy, Null})
          /\ Circle(CDummy, Unlink(l, c[p]), Cut(c, p))
      BY <1>1, UnlinkCuts DEF NodeLinks
    <3> QED BY <1>4, <3>1 DEF NodeLinks
  <2>6. ASSUME NEW m \in CNodes, ~In(c, m) PROVE Unlinked(l, n).prev[m] = l.prev[m]
    <3>1. l.next[n] # m
      <4>1. CASE p + 1 \in 1 .. Len(c)
        BY <1>2, <2>2, <2>6, <4>1 DEF In
      <4>2. CASE p + 1 \notin 1 .. Len(c)
        BY <1>1, <2>2, <4>2 DEF Place
      <4> QED BY <4>1, <4>2
    <3>2. Unlink(l, n).prev = [l.prev EXCEPT ![l.next[n]] = l.prev[n]]
      BY DEF Unlink, NodeLinks, Links
    <3>3. DOMAIN l.prev = CNodes \cup {CDummy}
      BY DEF NodeLinks, Links
    <3> QED BY <2>4, <3>1, <3>2, <3>3
  <2> QED BY <2>4, <2>5, <2>6
<1> QED BY <1>3, <1>4 DEF Bare

\* pushFront links a node that is not in the list in at its front.
LEMMA PushIs ==
  ASSUME NEW c \in Seq(CNodes), Distinct(c), NEW l \in NodeLinks, Circle(CDummy, l, c),
         NEW n \in CNodes, ~In(c, n)
  PROVE  /\ pushFront(l, n) \in NodeLinks /\ Circle(CDummy, pushFront(l, n), InFront(n, c))
         /\ \A m \in CNodes : m # n /\ ~In(c, m) => pushFront(l, n).prev[m] = l.prev[m]
<1>1. /\ CDummy \notin CNodes
      /\ CNodes \cup {CDummy} \subseteq CNodes \cup {CDummy, Null}
  BY NodesAssumption
<1>2. pushFront(l, n) = Fronted(CDummy, l, n)
  BY DEF pushFront, Fronted
<1>3. Fronted(CDummy, l, n) \in NodeLinks /\ Circle(CDummy, Fronted(CDummy, l, n), InFront(n, c))
  BY <1>1, LinkFronts DEF NodeLinks
<1>4. ASSUME NEW m \in CNodes, m # n, ~In(c, m) PROVE pushFront(l, n).prev[m] = l.prev[m]
  <2>1. Len(c) \in Nat /\ Place(CDummy, c, 0) = CDummy
    BY <1>1, PlacesApart
  <2>2. l.next[CDummy] = Place(CDummy, c, 0 + 1)
    <3>1. 0 \in 0 .. Len(c)
      BY <2>1
    <3>2. l.next[Place(CDummy, c, 0)] = Place(CDummy, c, 0 + 1)
      BY <3>1 DEF Circle
    <3> QED BY <2>1, <3>2
  <2>3. l.next[CDummy] # m
    BY <1>1, <1>4, <2>2 DEF Place, In
  <2>4. pushFront(l, n).prev = [l.prev EXCEPT ![n] = CDummy, ![l.next[CDummy]] = n]
    BY DEF pushFront
  <2>5. DOMAIN l.prev = CNodes \cup {CDummy}
    BY DEF NodeLinks, Links
  <2> QED BY <1>4, <2>3, <2>4, <2>5
<1> QED BY <1>2, <1>3, <1>4

\* The worker is left one task more,
LEMMA StagesMore ==
  ASSUME NEW S, NEW P \in Seq(Task), NEW L, NEW names, Stages(S, P, L, names),
         NEW t \in Task, NEW d, Proper(d, L, names), Effect(t, S[Len(P)], d),
         t.op = "drop" => ~In(d, t.node),
         \A i \in 1 .. Len(P) : P[i].op = "drop" => ~In(d, P[i].node)
  PROVE  \E T : /\ Stages(T, Append(P, t), L, names)
                /\ T[0] = S[0] /\ T[Len(Append(P, t))] = d
<1> DEFINE m == Len(P)
           Q == Append(P, t)
           T == [i \in 0 .. m + 1 |-> IF i <= m THEN S[i] ELSE d]
<1>1. /\ m \in Nat /\ Len(Q) = m + 1 /\ Q[m + 1] = t
      /\ \A i \in 1 .. m : Q[i] = P[i]
  BY BackIs
<1>2. T[m + 1] = d /\ \A i \in 0 .. m : T[i] = S[i]
  BY <1>1
<1> HIDE DEF T, Q
<1>3. ASSUME NEW i \in 0 .. m + 1 PROVE Proper(T[i], L, names)
  <2>1. i \in 0 .. m \/ i = m + 1
    BY <1>1
  <2>2. \A j \in 0 .. m : Proper(S[j], L, names)
    BY DEF Stages
  <2> HIDE DEF m
  <2> QED BY <1>2, <2>1, <2>2
<1>4. ASSUME NEW i \in 1 .. m + 1 PROVE Effect(Q[i], T[i - 1], T[i])
  <2>1. CASE i \in 1 .. m
    <3>1. i - 1 \in 0 .. m /\ i \in 0 .. m
      BY <1>1, <2>1
    <3>2. Effect(P[i], S[i - 1], S[i])
      BY <2>1 DEF Stages
    <3> HIDE DEF m
    <3> QED BY <1>1, <1>2, <2>1, <3>1, <3>2
  <2>2. CASE i = m + 1
    <3>1. i - 1 = m /\ m \in 0 .. m
      BY <1>1, <2>2
    <3>2. Effect(t, S[m], d)
      OBVIOUS
    <3> HIDE DEF m
    <3> QED BY <1>1, <1>2, <2>2, <3>1, <3>2
  <2> QED BY <1>1, <2>1, <2>2
<1>5. ASSUME NEW i \in 1 .. m + 1, Q[i].op = "drop", NEW j \in i .. m + 1
      PROVE  ~In(T[j], Q[i].node)
  <2>1. CASE i \in 1 .. m /\ j \in i .. m
    <3>1. ~In(S[j], P[i].node)
      BY <1>1, <1>5, <2>1 DEF Stages
    <3>2. j \in 0 .. m
      BY <1>1, <2>1
    <3> QED BY <1>1, <1>2, <2>1, <3>1, <3>2
  <2>2. CASE i \in 1 .. m /\ j = m + 1
    BY <1>1, <1>2, <1>5, <2>2
  <2>3. CASE i = m + 1 /\ j = m + 1
    BY <1>1, <1>2, <1>5, <2>3
  <2> QED BY <1>1, <2>1, <2>2, <2>3
<1>6. Stages(T, Q, L, names)
  <2> HIDE DEF m
  <2> QED BY <1>1, <1>3, <1>4, <1>5 DEF Stages
<1>7. T[0] = S[0] /\ T[Len(Q)] = d
  BY <1>1, <1>2
<1> QED BY <1>6, <1>7 DEF Q

\* and does one.
Onward(S, t, Q, L, names) ==
  /\ Proper(S[0], L, names) /\ Proper(S[1], L, names) /\ Effect(t, S[0], S[1])
  /\ \E T : /\ Stages(T, Q, L, names)
            /\ T[0] = S[1] /\ T[Len(Q)] = S[Len(InFront(t, Q))]
            /\ t.op = "drop" => \A j \in 0 .. Len(Q) : ~In(T[j], t.node)

LEMMA StagesLess ==
  ASSUME NEW S, NEW t \in Task, NEW Q \in Seq(Task), NEW L, NEW names,
         Stages(S, InFront(t, Q), L, names)
  PROVE  Onward(S, t, Q, L, names)
<1> DEFINE m == Len(Q)
           P == InFront(t, Q)
           T == [i \in 0 .. m |-> S[i + 1]]
<1>1. /\ m \in Nat /\ Len(P) = m + 1 /\ P[1] = t
      /\ \A i \in 1 .. m : P[i + 1] = Q[i]
  <2>1. Len(Q) \in Nat
    OBVIOUS
  <2>2. /\ Len(InFront(t, Q)) = Len(Q) + 1 /\ InFront(t, Q)[1] = t
        /\ \A i \in 1 .. Len(Q) : InFront(t, Q)[i + 1] = Q[i]
    BY FrontIs
  <2> QED BY <2>1, <2>2
<1>2. \A i \in 0 .. m : T[i] = S[i + 1]
  OBVIOUS
<1> HIDE DEF T, P
<1>3. /\ \A i \in 0 .. m + 1 : Proper(S[i], L, names)
      /\ \A i \in 1 .. m + 1 : Effect(P[i], S[i - 1], S[i])
      /\ \A i \in 1 .. m + 1 : P[i].op = "drop" => \A j \in i .. m + 1 : ~In(S[j], P[i].node)
  BY <1>1 DEF Stages, P
<1> HIDE DEF m
<1>4. ASSUME NEW i \in 0 .. m PROVE Proper(T[i], L, names)
  <2>1. i + 1 \in 0 .. m + 1
    BY <1>1
  <2> QED BY <1>2, <1>3, <2>1
<1>5. ASSUME NEW i \in 1 .. m PROVE Effect(Q[i], T[i - 1], T[i])
  <2>1. i + 1 \in 1 .. m + 1 /\ i - 1 \in 0 .. m /\ i \in 0 .. m /\ (i + 1) - 1 = i /\ (i - 1) + 1 = i
    BY <1>1
  <2>2. Effect(P[i + 1], S[(i + 1) - 1], S[i + 1])
    BY <1>3, <2>1
  <2>3. T[i - 1] = S[i] /\ T[i] = S[i + 1] /\ P[i + 1] = Q[i]
    <3>1. T[i - 1] = S[(i - 1) + 1]
      BY <1>2, <2>1
    <3> QED BY <1>1, <1>2, <2>1, <3>1
  <2> QED BY <2>1, <2>2, <2>3
<1>6. ASSUME NEW i \in 1 .. m, Q[i].op = "drop", NEW j \in i .. m PROVE ~In(T[j], Q[i].node)
  <2>1. i + 1 \in 1 .. m + 1 /\ j + 1 \in i + 1 .. m + 1 /\ j \in 0 .. m
    BY <1>1
  <2>2. P[i + 1] = Q[i] /\ T[j] = S[j + 1]
    BY <1>1, <1>2, <2>1
  <2> QED BY <1>3, <1>6, <2>1, <2>2
<1>7. Stages(T, Q, L, names)
  BY <1>1, <1>4, <1>5, <1>6 DEF Stages, m
<1>8. T[0] = S[1] /\ T[m] = S[m + 1]
  BY <1>1, <1>2
<1>9. ASSUME t.op = "drop", NEW j \in 0 .. m PROVE ~In(T[j], t.node)
  <2>1. 1 \in 1 .. m + 1 /\ j + 1 \in 1 .. m + 1
    BY <1>1
  <2> QED BY <1>1, <1>2, <1>3, <1>9, <2>1
<1>10. Proper(S[0], L, names) /\ Proper(S[1], L, names) /\ Effect(t, S[0], S[1])
  <2>1. 0 \in 0 .. m + 1 /\ 1 \in 0 .. m + 1 /\ 1 \in 1 .. m + 1 /\ 1 - 1 = 0
    BY <1>1
  <2>2. Effect(P[1], S[1 - 1], S[1])
    BY <1>3, <2>1
  <2> QED BY <1>1, <1>3, <2>1, <2>2
<1>11. T[Len(Q)] = S[Len(InFront(t, Q))]
  BY <1>1, <1>8 DEF m, P
<1> QED BY <1>7, <1>8, <1>9, <1>10, <1>11 DEF m, Onward

\* Nodes are allocated or deleted, which no list has.
LEMMA StagesStill ==
  ASSUME NEW S, NEW P, NEW L, NEW names, Stages(S, P, L, names), NEW M, NEW others,
         \A i \in 0 .. Len(P) : \A n : In(S[i], n) => n \in M /\ others[n] = names[n]
  PROVE  Stages(S, P, M, others)
<1>1. ASSUME NEW i \in 0 .. Len(P) PROVE Proper(S[i], M, others)
  <2>1. Proper(S[i], L, names)
    BY DEF Stages
  <2>2. \A n : In(S[i], n) => n \in M /\ others[n] = names[n]
    OBVIOUS
  <2> QED BY <2>1, <2>2, ProperStill
<1> QED BY <1>1 DEF Stages

\* f is s with x before it.
Fore(K, x, s, f) == /\ f \in Seq(K) /\ Len(f) = Len(s) + 1 /\ f[1] = x
                    /\ \A j \in 1 .. Len(s) : f[j + 1] = s[j]

LEMMA ForeIs ==
  ASSUME NEW K, NEW s \in Seq(K), NEW x \in K
  PROVE  Fore(K, x, s, InFront(x, s))
BY FrontIs DEF Fore

LEMMA AppendFront ==
  ASSUME NEW K, NEW s \in Seq(K), NEW x \in K, NEW t \in K
  PROVE  InFront(x, Append(s, t)) = Append(InFront(x, s), t)
<1>1. PICK a \in Seq(K) : /\ a = Append(s, t) /\ Len(a) = Len(s) + 1 /\ a[Len(s) + 1] = t
                          /\ \A j \in 1 .. Len(s) : a[j] = s[j]
  <2>1. /\ Append(s, t) \in Seq(K) /\ Len(Append(s, t)) = Len(s) + 1
        /\ Append(s, t)[Len(s) + 1] = t /\ \A j \in 1 .. Len(s) : Append(s, t)[j] = s[j]
    BY BackIs
  <2> QED BY <2>1
<1>2. PICK b \in Seq(K) : /\ b = InFront(x, s) /\ Len(b) = Len(s) + 1 /\ b[1] = x
                          /\ \A j \in 1 .. Len(s) : b[j + 1] = s[j]
  BY ForeIs DEF Fore
<1>3. PICK c \in Seq(K) : /\ c = InFront(x, a) /\ Len(c) = Len(a) + 1 /\ c[1] = x
                          /\ \A j \in 1 .. Len(a) : c[j + 1] = a[j]
  <2>1. Fore(K, x, a, InFront(x, a))
    BY ForeIs
  <2> QED BY <2>1 DEF Fore
<1>4. PICK d \in Seq(K) : /\ d = Append(b, t) /\ Len(d) = Len(b) + 1 /\ d[Len(b) + 1] = t
                          /\ \A j \in 1 .. Len(b) : d[j] = b[j]
  <2>1. /\ Append(b, t) \in Seq(K) /\ Len(Append(b, t)) = Len(b) + 1
        /\ Append(b, t)[Len(b) + 1] = t /\ \A j \in 1 .. Len(b) : Append(b, t)[j] = b[j]
    BY BackIs
  <2> QED BY <2>1
<1>5. Len(s) \in Nat /\ Len(c) = Len(d)
  BY <1>1, <1>2, <1>3, <1>4
<1>6. ASSUME NEW i \in 1 .. Len(c) PROVE c[i] = d[i]
  <2>1. CASE i = 1
    <3>1. 1 \in 1 .. Len(b)
      BY <1>2, <1>5
    <3> QED BY <1>2, <1>3, <1>4, <2>1, <3>1
  <2>2. ASSUME NEW j \in 1 .. Len(s), i = j + 1 PROVE c[i] = d[i]
    <3>1. j \in 1 .. Len(a) /\ j + 1 \in 1 .. Len(b)
      BY <1>1, <1>2, <1>5
    <3> QED BY <1>1, <1>2, <1>3, <1>4, <2>2, <3>1
  <2>3. CASE i = Len(s) + 2
    <3>1. Len(s) + 1 \in 1 .. Len(a) /\ i = (Len(s) + 1) + 1
      BY <1>1, <1>5, <2>3
    <3> QED BY <1>1, <1>2, <1>3, <1>4, <3>1
  <2>4. i = 1 \/ (i - 1 \in 1 .. Len(s) /\ i = (i - 1) + 1) \/ i = Len(s) + 2
    BY <1>1, <1>3, <1>5
  <2> QED BY <2>1, <2>2, <2>3, <2>4
<1>7. c = d
  BY <1>5, <1>6, SeqEqual
<1> QED BY <1>1, <1>2, <1>3, <1>4, <1>7

LEMMA PendingIs ==
  ASSUME ClruType
  PROVE  Pending \in Seq(Task) /\ Len(Pending) \in Nat
<1>1. CASE worker = "run"
  <2>1. task \in Task /\ tasks \in Seq(Task)
    BY <1>1 DEF ClruType
  <2>2. InFront(task, tasks) \in Seq(Task)
    BY <2>1, FrontIs
  <2> QED BY <1>1, <2>2 DEF Pending
<1>2. CASE worker # "run"
  BY <1>2 DEF ClruType, Pending
<1> QED BY <1>1, <1>2

\* async appends to what the worker has to do, whatever it is doing.
LEMMA TaskLeft ==
  ASSUME ClruType, NEW t \in Task, Leave(t), task' = task
  PROVE  /\ Pending' = Append(Pending, t) /\ tasks' \in Seq(Task)
         /\ worker' = worker \/ (worker = "wait" /\ worker' = "lock")
<1>1. tasks \in Seq(Task) /\ tasks' = Append(tasks, t)
  BY DEF ClruType, Leave
<1>2. worker' = worker \/ (worker = "wait" /\ worker' = "lock")
  BY DEF Leave
<1>3. tasks' \in Seq(Task)
  BY <1>1
<1>4. CASE worker = "run"
  <2>1. worker' = "run" /\ task \in Task
    BY <1>2, <1>4 DEF ClruType
  <2>2. InFront(task, Append(tasks, t)) = Append(InFront(task, tasks), t)
    BY <1>1, <2>1, AppendFront
  <2>3. Pending' = InFront(task, tasks') /\ Pending = InFront(task, tasks)
    BY <1>4, <2>1 DEF Pending
  <2> QED BY <1>1, <1>2, <1>3, <2>2, <2>3
<1>5. CASE worker # "run"
  <2>1. worker' # "run"
    BY <1>2, <1>5
  <2>2. Pending' = tasks' /\ Pending = tasks
    BY <1>5, <2>1 DEF Pending
  <2> QED BY <1>1, <1>2, <1>3, <2>2
<1> QED BY <1>4, <1>5

\* What the callers have asked for is a proper list without the nodes that are to go.
LEMMA AskedIs ==
  ASSUME ClruType, Ahead
  PROVE  /\ Proper(asked, liveNodes, nodeKey)
         /\ \A n : Going(n) => n \in liveNodes /\ ~In(asked, n)
<1>1. PICK S : Stages(S, Pending, liveNodes, nodeKey) /\ asked = S[Len(Pending)]
  BY DEF Ahead
<1>2. Pending \in Seq(Task) /\ Len(Pending) \in Nat
  BY PendingIs
<1>3. Proper(asked, liveNodes, nodeKey)
  <2>1. Len(Pending) \in 0 .. Len(Pending)
    BY <1>2
  <2> QED BY <1>1, <2>1 DEF Stages
<1>4. ASSUME NEW n, Going(n) PROVE n \in liveNodes /\ ~In(asked, n)
  <2>1. PICK i \in 1 .. Len(Pending) : Pending[i].op = "drop" /\ Pending[i].node = n
    BY <1>4 DEF Going
  <2>2. i - 1 \in 0 .. Len(Pending) /\ Len(Pending) \in i .. Len(Pending)
    BY <1>2
  <2>3. ~In(asked, n)
    BY <1>1, <2>1, <2>2 DEF Stages
  <2>4. Effect(Pending[i], S[i - 1], S[i]) /\ Proper(S[i - 1], liveNodes, nodeKey)
    BY <1>1, <2>2 DEF Stages
  <2>5. In(S[i - 1], n)
    BY <2>1, <2>4 DEF Effect, In
  <2> QED BY <2>3, <2>4, <2>5, ProperIs
<1> QED BY <1>3, <1>4

LEMMA AheadStill ==
  ASSUME Ahead, Pending' = Pending, UNCHANGED <<list, liveNodes, nodeKey, asked>>
  PROVE  Ahead'
BY DEF Ahead

LEMMA AheadMore ==
  ASSUME ClruType, Ahead, NEW t \in Task, Leave(t), UNCHANGED <<list, liveNodes, nodeKey, task>>,
         Proper(asked', liveNodes, nodeKey), Effect(t, asked, asked'),
         \A n : Going(n) => ~In(asked', n), t.op = "drop" => ~In(asked', t.node)
  PROVE  Ahead'
<1>1. PICK S : /\ Stages(S, Pending, liveNodes, nodeKey) /\ asked = S[Len(Pending)]
               /\ Circle(CDummy, list, S[0])
               /\ \A n \in liveNodes : In(S[0], n) \/ list.prev[n] = Null
  BY DEF Ahead
<1>2. Pending \in Seq(Task) /\ Pending' = Append(Pending, t)
  BY PendingIs, TaskLeft
<1>3. PICK a : a = asked'
  OBVIOUS
<1>4. PICK P : P = Pending
  OBVIOUS
<1>5. \A i \in 1 .. Len(P) : P[i].op = "drop" => ~In(a, P[i].node)
  BY <1>3, <1>4 DEF Going
<1>6. PICK T : /\ Stages(T, Append(P, t), liveNodes, nodeKey)
               /\ T[0] = S[0] /\ T[Len(Append(P, t))] = a
  <2>1. /\ P \in Seq(Task) /\ Stages(S, P, liveNodes, nodeKey) /\ Proper(a, liveNodes, nodeKey)
        /\ Effect(t, S[Len(P)], a) /\ (t.op = "drop" => ~In(a, t.node))
    BY <1>1, <1>2, <1>3, <1>4
  <2> QED BY <1>5, <2>1, StagesMore
<1> QED BY <1>1, <1>2, <1>3, <1>4, <1>6 DEF Ahead

\* del is called where one thread makes all the calls.
LEMMA DelsAlone ==
  ASSUME Fits, CallersAt, NEW p \in Callers, at[p] # "idle", Op(p) = "del",
         NEW q \in Callers, at[q] # "idle"
  PROVE  p = q
BY DEF Fits, CallersAt, CallerAt

LEMMA EntriesStill ==
  ASSUME EntriesAre, UNCHANGED <<keys, nodeKey, asked>>,
         \A k \in ClruKeys : (Gone(k) => Gone(k)') /\ (Coming(k) => Coming(k)'),
         \A n : Going(n)' => Going(n),
         \A n \in liveNodes : n \in liveNodes' \/ Going(n)
  PROVE  EntriesAre'
<1>1. ASSUME NEW k \in ClruKeys, (keys[k] # Null /\ ~Gone(k))'
      PROVE  (/\ keys[k] \in liveNodes /\ nodeKey[keys[k]] = k /\ ~Going(keys[k])
              /\ ~Coming(k) => In(asked, keys[k]))'
  <2>1. keys' = keys /\ nodeKey' = nodeKey /\ asked' = asked
    OBVIOUS
  <2>2. /\ keys[k] \in liveNodes /\ nodeKey[keys[k]] = k /\ ~Going(keys[k])
        /\ ~Coming(k) => In(asked, keys[k])
    BY <1>1, <2>1 DEF EntriesAre
  <2>3. PICK n : n = keys[k]
    OBVIOUS
  <2>4. n \in liveNodes' /\ ~Going(n)'
    BY <2>2, <2>3
  <2>5. ~Going(keys[k])'
    BY <2>1, <2>3, <2>4 DEF Going
  <2> QED BY <2>1, <2>2, <2>3, <2>4, <2>5
<1>2. \A n \in CNodes : In(asked', n) => keys'[nodeKey'[n]] = n
  BY DEF EntriesAre
<1> QED BY <1>1, <1>2 DEF EntriesAre

\* The other callers have their nodes as before.
LEMMA OthersStay ==
  ASSUME CallersAt, UNCHANGED <<keys, crew>>, NEW p \in Callers, CallerAt(p)',
         \A q \in Callers : q # p => at'[q] = at[q] /\ node'[q] = node[q] /\ call'[q] = call[q],
         asked' = asked \/ \A q \in Callers : q # p => at[q] # "erase"
  PROVE  CallersAt'
<1>1. ASSUME NEW q \in Callers, q # p PROVE CallerAt(q)'
  BY <1>1 DEF CallersAt, CallerAt, Op, Key
<1> QED BY <1>1 DEF CallersAt

LEMMA CallerGoes ==
  ASSUME NEW p \in Callers, DOMAIN at = Callers, NEW a, NEW b, Go(p, a, b)
  PROVE  at[p] = a /\ at'[p] = b /\ \A q \in Callers : q # p => at'[q] = at[q]
BY DEF Go

\* The steps of the callers
LEMMA BeginKeeps ==
  ASSUME Fits, Working, ~fault, NEW p \in Callers, Begin(p), UNCHANGED <<task, stop, crew, bucketOf>>
  PROVE  Working' /\ ~fault'
<1>1. ClruType /\ CallersAt /\ EntriesAre /\ Ahead
  BY DEF Working
<1>2. /\ at[p] = "idle" /\ at'[p] = "lookup"
      /\ \A q \in Callers : q # p => at'[q] = at[q]
  BY <1>1, CallerGoes DEF Begin, ClruType
<1>3. PICK o \in crew.calls, k \in ClruKeys : call' = [call EXCEPT ![p] = <<o, k>>]
  BY DEF Begin
<1>4. call'[p] = <<o, k>> /\ \A q \in Callers : q # p => call'[q] = call[q]
  BY <1>1, <1>3 DEF ClruType
<1>5. UNCHANGED <<keys, nodeKey, list, liveNodes, tasks, worker, node, fault, asked>>
  BY DEF Begin
<1>6. Pending' = Pending
  BY <1>5 DEF Pending
<1>7. ClruType'
  <2>1. at' \in [Callers -> {"idle", "lookup", "async", "read", "shrink", "erase"}]
    BY <1>1 DEF ClruType, Begin, Go
  <2>2. DOMAIN call' = Callers
    BY <1>1, <1>3 DEF ClruType
  <2> QED BY <1>1, <1>5, <2>1, <2>2 DEF ClruType
<1>8. CallersAt'
  <2>1. p \in crew.callers
    BY DEF Begin
  <2>2. Op(p)' = o /\ Key(p)' = k
    BY <1>4 DEF Op, Key
  <2>3. CallerAt(p)'
    BY <1>2, <2>1, <2>2 DEF CallerAt
  <2> QED BY <1>1, <1>2, <1>4, <1>5, <2>3, OthersStay
<1>9. EntriesAre'
  <2>1. ASSUME NEW j \in ClruKeys PROVE (Gone(j) => Gone(j)') /\ (Coming(j) => Coming(j)')
    BY <1>2, <1>4 DEF Gone, Coming, Op, Key
  <2>2. \A n : Going(n)' => Going(n)
    BY <1>6 DEF Going
  <2> QED BY <1>1, <1>5, <2>1, <2>2, EntriesStill
<1>10. Ahead'
  BY <1>1, <1>5, <1>6, AheadStill
<1>11. ~fault'
  BY <1>5
<1> QED BY <1>7, <1>8, <1>9, <1>10, <1>11 DEF Working

\* What all later steps of a call leave alone.
CallStands == UNCHANGED <<call, calls, task, stop, crew, bucketOf>>

LEMMA NotGone ==
  ASSUME Fits, CallersAt, NEW p \in Callers, at[p] # "idle", at[p] # "erase", NEW k
  PROVE  ~Gone(k)
<1> SUFFICES ASSUME NEW q \in Callers, at[q] = "erase" PROVE FALSE
  BY DEF Gone
<1>1. Op(q) = "del" /\ at[q] # "idle"
  BY DEF CallersAt, CallerAt
<1> QED BY <1>1, DelsAlone

LEMMA LookupKeeps ==
  ASSUME Fits, Working, ~fault, NEW p \in Callers, Lookup(p), CallStands
  PROVE  Working' /\ ~fault'
<1> DEFINE k == Key(p)
<1>1. ClruType /\ CallersAt /\ EntriesAre /\ Ahead
  BY DEF Working
<1>2. /\ at[p] = "lookup" /\ at'[p] = "async"
      /\ \A q \in Callers : q # p => at'[q] = at[q]
  BY <1>1, CallerGoes DEF Lookup, ClruType
<1>3. /\ p \in crew.callers /\ Op(p) \in crew.calls /\ k \in ClruKeys
      /\ keys[k] # Null /\ keys[k] \in CNodes
  BY <1>1, <1>2 DEF CallersAt, CallerAt, ClruType, Lookup
<1>4. /\ node' = [node EXCEPT ![p] = keys[k]]
      /\ UNCHANGED <<keys, nodeKey, list, liveNodes, tasks, worker, asked, call, calls, task, stop,
                     crew, bucketOf>>
  BY DEF Lookup, CallStands
<1>5. node'[p] = keys[k] /\ \A q \in Callers : q # p => node'[q] = node[q]
  BY <1>1, <1>4 DEF ClruType
<1>6. Pending' = Pending /\ Op(p)' = Op(p) /\ Key(p)' = k
  BY <1>4 DEF Pending, Op, Key
<1>7. ClruType'
  <2>1. at' \in [Callers -> {"idle", "lookup", "async", "read", "shrink", "erase"}]
    BY <1>1 DEF ClruType, Lookup, Go
  <2>2. DOMAIN node' = Callers
    BY <1>1, <1>4 DEF ClruType
  <2> QED BY <1>1, <1>4, <2>1, <2>2 DEF ClruType
<1>8. CallersAt'
  <2>1. CallerAt(p)'
    BY <1>2, <1>3, <1>4, <1>5, <1>6 DEF CallerAt
  <2> QED BY <1>1, <1>2, <1>4, <1>5, <2>1, OthersStay
<1>9. EntriesAre'
  <2>1. ASSUME NEW j \in ClruKeys PROVE (Gone(j) => Gone(j)') /\ (Coming(j) => Coming(j)')
    BY <1>2, <1>4 DEF Gone, Coming, Op, Key
  <2>2. \A n : Going(n)' => Going(n)
    BY <1>6 DEF Going
  <2> QED BY <1>1, <1>4, <2>1, <2>2, EntriesStill
<1>10. Ahead'
  BY <1>1, <1>4, <1>6, AheadStill
<1>11. ~fault'
  <2>1. ~Gone(k)
    BY <1>1, <1>2, NotGone
  <2>2. keys[k] \in liveNodes
    BY <1>1, <1>3, <2>1 DEF EntriesAre
  <2> QED BY <2>2 DEF Lookup
<1> QED BY <1>7, <1>8, <1>9, <1>10, <1>11 DEF Working

\* A call that ends with the caller idle and changes nothing else.
LEMMA ReturnKeeps ==
  ASSUME Fits, Working, NEW p \in Callers, NEW a, Go(p, a, "idle"), a \in {"lookup", "read"},
         CallStands, UNCHANGED <<keys, nodeKey, list, liveNodes, tasks, worker, node, asked>>
  PROVE  Working'
<1>1. ClruType /\ CallersAt /\ EntriesAre /\ Ahead
  BY DEF Working
<1>2. /\ at[p] = a /\ at'[p] = "idle"
      /\ \A q \in Callers : q # p => at'[q] = at[q]
  BY <1>1, CallerGoes DEF ClruType
<1>3. UNCHANGED <<call, task, crew, bucketOf>> /\ Pending' = Pending
  BY DEF CallStands, Pending
<1>4. ClruType'
  <2>1. at' \in [Callers -> {"idle", "lookup", "async", "read", "shrink", "erase"}]
    BY <1>1 DEF ClruType, Go
  <2> QED BY <1>1, <1>3, <2>1 DEF ClruType
<1>5. CallersAt'
  <2>1. CallerAt(p)'
    BY <1>2 DEF CallerAt
  <2> QED BY <1>1, <1>2, <1>3, <2>1, OthersStay
<1>6. EntriesAre'
  <2>1. ASSUME NEW j \in ClruKeys PROVE (Gone(j) => Gone(j)') /\ (Coming(j) => Coming(j)')
    BY <1>2, <1>3 DEF Gone, Coming, Op, Key
  <2>2. \A n : Going(n)' => Going(n)
    BY <1>3 DEF Going
  <2> QED BY <1>1, <2>1, <2>2, EntriesStill
<1>7. Ahead'
  BY <1>1, <1>3, AheadStill
<1> QED BY <1>4, <1>5, <1>6, <1>7 DEF Working

LEMMA NotThereKeeps ==
  ASSUME Fits, Working, ~fault, NEW p \in Callers, NotThere(p), CallStands
  PROVE  Working' /\ ~fault'
BY ReturnKeeps DEF NotThere

LEMMA ReadKeeps ==
  ASSUME Fits, Working, ~fault, NEW p \in Callers, Read(p), CallStands
  PROVE  Working' /\ ~fault'
<1>1. Working'
  BY ReturnKeeps DEF Read
<1>2. ClruType /\ CallersAt /\ EntriesAre
  BY DEF Working
<1>3. at[p] = "read"
  BY DEF Read, Go
<1>4. ~Gone(Key(p))
  BY <1>2, <1>3, NotGone
<1>5. Key(p) \in ClruKeys /\ node[p] = keys[Key(p)] /\ node[p] # Null
  BY <1>2, <1>3, NodesAssumption DEF CallersAt, CallerAt
<1>6. node[p] \in liveNodes
  BY <1>2, <1>4, <1>5 DEF EntriesAre
<1> QED BY <1>1, <1>6 DEF Read

\* A new node is in no list.
LEMMA CircleFar ==
  ASSUME NEW c \in Seq(CNodes), Distinct(c), NEW l, Circle(CDummy, l, c), NEW n \in CNodes, ~In(c, n),
         NEW u, \A x \in CNodes \cup {CDummy} : x # n => u.prev[x] = l.prev[x] /\ u.next[x] = l.next[x]
  PROVE  Circle(CDummy, u, c)
<1>1. CDummy \notin CNodes
  BY NodesAssumption
<1>2. /\ Len(c) \in Nat
      /\ \A i \in 0 .. Len(c) + 1 : Place(CDummy, c, i) \in (CNodes \cup {CDummy})
  BY <1>1, PlacesApart
<1>3. \A i : Place(CDummy, c, i) # n
  BY <1>1 DEF Place, In
<1>4. ASSUME NEW i \in 0 .. Len(c)
      PROVE  /\ u.next[Place(CDummy, c, i)] = Place(CDummy, c, i + 1)
             /\ u.prev[Place(CDummy, c, i + 1)] = Place(CDummy, c, i)
  <2>1. i \in 0 .. Len(c) + 1 /\ i + 1 \in 0 .. Len(c) + 1
    BY <1>2
  <2>2. /\ l.next[Place(CDummy, c, i)] = Place(CDummy, c, i + 1)
        /\ l.prev[Place(CDummy, c, i + 1)] = Place(CDummy, c, i)
    BY DEF Circle
  <2> QED BY <1>2, <1>3, <2>1, <2>2
<1> QED BY <1>4 DEF Circle

LEMMA SetNewKeeps ==
  ASSUME Fits, Working, ~fault, NEW p \in Callers, SetNew(p), CallStands
  PROVE  Working' /\ ~fault'
<1> DEFINE k == Key(p)
<1>1. ClruType /\ CallersAt /\ EntriesAre /\ Ahead
  BY DEF Working
<1>2. /\ at[p] = "lookup" /\ at'[p] = "async"
      /\ \A q \in Callers : q # p => at'[q] = at[q]
  BY <1>1, CallerGoes DEF SetNew, ClruType
<1>3. PICK n \in CNodes \ liveNodes :
        /\ liveNodes' = liveNodes \cup {n}
        /\ keys' = [keys EXCEPT ![k] = n]
        /\ nodeKey' = [nodeKey EXCEPT ![n] = k]
        /\ list' = [list EXCEPT !.prev[n] = Null, !.next[n] = Null]
        /\ node' = [node EXCEPT ![p] = n]
  BY DEF SetNew
<1>4. /\ p \in crew.callers /\ Op(p) \in crew.calls /\ k \in ClruKeys
      /\ keys[k] = Null /\ Op(p) = "put"
      /\ UNCHANGED <<tasks, worker, asked, fault, call, calls, task, stop, crew, bucketOf>>
  BY <1>1, <1>2 DEF CallersAt, CallerAt, SetNew, CallStands
<1>5. Null \notin CNodes /\ CDummy \notin CNodes
  BY NodesAssumption
<1>6. /\ keys'[k] = n /\ \A j \in ClruKeys : j # k => keys'[j] = keys[j]
      /\ nodeKey'[n] = k /\ \A m \in CNodes : m # n => nodeKey'[m] = nodeKey[m]
      /\ node'[p] = n /\ \A q \in Callers : q # p => node'[q] = node[q]
  BY <1>1, <1>3, <1>4 DEF ClruType
<1>7. /\ list' \in NodeLinks /\ list'.prev[n] = Null
      /\ \A x \in CNodes \cup {CDummy} :
           x # n => list'.prev[x] = list.prev[x] /\ list'.next[x] = list.next[x]
  BY <1>1, <1>3 DEF ClruType, NodeLinks, Links
<1>8. Pending' = Pending /\ \A q \in Callers : Op(q)' = Op(q) /\ Key(q)' = Key(q)
  BY <1>4 DEF Pending, Op, Key
<1>9. ClruType'
  <2>1. at' \in [Callers -> {"idle", "lookup", "async", "read", "shrink", "erase"}]
    BY <1>1 DEF ClruType, SetNew, Go
  <2>2. /\ keys' \in [ClruKeys -> CNodes \cup {Null}] /\ nodeKey' \in [CNodes -> ClruKeys \cup {Null}]
        /\ liveNodes' \in SUBSET CNodes /\ DOMAIN node' = Callers
    BY <1>1, <1>3, <1>4 DEF ClruType
  <2>3. list' \in Links(CNodes, CDummy, CNodes \cup {CDummy, Null})
    BY <1>7 DEF NodeLinks
  <2> QED BY <1>1, <1>4, <2>1, <2>2, <2>3 DEF ClruType
<1>10. CallersAt'
  <2>1. CallerAt(p)'
    BY <1>2, <1>4, <1>6, <1>8 DEF CallerAt
  <2>2. ASSUME NEW q \in Callers, q # p PROVE CallerAt(q)'
    <3>1. at[q] \notin {"idle", "lookup"} => Key(q) # k
      BY <1>1, <1>4, <1>5 DEF CallersAt, CallerAt
    <3>2. CallerAt(q)
      BY <1>1 DEF CallersAt
    <3>3. /\ at'[q] = at[q] /\ node'[q] = node[q] /\ crew' = crew /\ asked' = asked
          /\ Op(q)' = Op(q) /\ Key(q)' = Key(q)
      BY <1>2, <1>4, <1>6, <1>8, <2>2
    <3>4. at[q] \notin {"idle", "lookup"} => keys'[Key(q)] = keys[Key(q)]
      BY <1>6, <3>1, <3>2 DEF CallerAt
    <3> HIDE DEF k
    <3> QED BY <3>2, <3>3, <3>4 DEF CallerAt
  <2> QED BY <2>1, <2>2 DEF CallersAt
<1>11. ~In(asked, n) /\ ~Going(n) /\ \A m : In(asked, m) => m \in CNodes /\ nodeKey[m] \in ClruKeys
  BY <1>1, AskedIs, ProperIs
<1>12. \A j : /\ Gone(j)' <=> Gone(j)
              /\ Coming(j) => Coming(j)'
  BY <1>2, <1>8 DEF Gone, Coming
<1>13. EntriesAre'
  <2>1. \A m : Going(m)' <=> Going(m)
    BY <1>8 DEF Going
  <2>2. ASSUME NEW j \in ClruKeys, (keys[j] # Null /\ ~Gone(j))'
        PROVE  (/\ keys[j] \in liveNodes /\ nodeKey[keys[j]] = j /\ ~Going(keys[j])
                /\ ~Coming(j) => In(asked, keys[j]))'
    <3>1. CASE j = k
      <4>1. Coming(j)'
        BY <1>2, <1>4, <1>8, <3>1 DEF Coming
      <4>2. ~Going(n)'
        BY <1>11, <2>1
      <4>3. keys'[j] = n /\ n \in liveNodes' /\ nodeKey'[n] = j
        BY <1>3, <1>6, <3>1
      <4>4. ~Going(keys[j])'
        BY <4>2, <4>3 DEF Going
      <4> QED BY <3>1, <4>1, <4>3, <4>4
    <3>2. CASE j # k
      <4>1. keys'[j] = keys[j] /\ ~Gone(j)
        BY <1>6, <1>12, <2>2, <3>2
      <4>2. /\ keys[j] \in liveNodes /\ nodeKey[keys[j]] = j /\ ~Going(keys[j])
            /\ ~Coming(j) => In(asked, keys[j])
        BY <1>1, <2>2, <4>1 DEF EntriesAre
      <4>3. keys[j] \in liveNodes' /\ nodeKey'[keys[j]] = j
        BY <1>1, <1>3, <1>6, <4>2 DEF ClruType
      <4>4. PICK m : m = keys[j]
        OBVIOUS
      <4>5. ~Going(m)'
        BY <2>1, <4>2, <4>4
      <4>6. ~Going(keys[j])'
        BY <4>1, <4>4, <4>5 DEF Going
      <4> QED BY <1>4, <1>12, <4>1, <4>2, <4>3, <4>6
    <3> QED BY <3>1, <3>2
  <2>3. ASSUME NEW m \in CNodes, In(asked', m) PROVE keys'[nodeKey'[m]] = m
    <3>1. In(asked, m) /\ m # n /\ nodeKey[m] \in ClruKeys
      BY <1>4, <1>11, <2>3
    <3>2. keys[nodeKey[m]] = m
      BY <1>1, <3>1 DEF EntriesAre
    <3>3. nodeKey[m] # k
      BY <1>4, <1>5, <3>2
    <3> QED BY <1>6, <3>1, <3>2, <3>3
  <2> QED BY <2>2, <2>3 DEF EntriesAre
<1>14. Ahead'
  <2>1. PICK S : /\ Stages(S, Pending, liveNodes, nodeKey)
                 /\ Circle(CDummy, list, S[0]) /\ asked = S[Len(Pending)]
                 /\ \A m \in liveNodes : In(S[0], m) \/ list.prev[m] = Null
    BY <1>1 DEF Ahead
  <2>2. \A i \in 0 .. Len(Pending) : Proper(S[i], liveNodes, nodeKey)
    BY <2>1 DEF Stages
  <2>3. \A i \in 0 .. Len(Pending) : \A m : In(S[i], m) => m \in liveNodes' /\ nodeKey'[m] = nodeKey[m]
    BY <1>3, <1>6, <2>2, ProperIs
  <2>4. Stages(S, Pending, liveNodes', nodeKey')
    BY <2>1, <2>3, StagesStill
  <2>5. S[0] \in Seq(CNodes) /\ Distinct(S[0]) /\ ~In(S[0], n)
    <3>1. 0 \in 0 .. Len(Pending)
      BY <1>1, PendingIs
    <3> QED BY <2>2, <3>1, ProperIs
  <2>6. Circle(CDummy, list', S[0])
    BY <1>7, <2>1, <2>5, CircleFar
  <2>7. \A m \in liveNodes' : In(S[0], m) \/ list'.prev[m] = Null
    BY <1>1, <1>3, <1>7, <2>1 DEF ClruType
  <2> QED BY <1>4, <1>8, <2>1, <2>4, <2>6, <2>7 DEF Ahead
<1> QED BY <1>4, <1>9, <1>10, <1>13, <1>14 DEF Working

\* What put and get leave for the worker comes first in what has been asked for,
LEMMA AsyncFronts ==
  ASSUME Fits, Working, ~fault, NEW p \in Callers, Async(p), CallStands, Op(p) # "del"
  PROVE  Working' /\ ~fault'
<1> DEFINE k == Key(p)
           n == node[p]
           t == [op |-> "front", node |-> n]
<1>1. ClruType /\ CallersAt /\ EntriesAre /\ Ahead
  BY DEF Working
<1>2. /\ at[p] = "async" /\ p \in crew.callers /\ Op(p) \in crew.calls /\ k \in ClruKeys
      /\ n \in CNodes /\ n = keys[k]
  BY <1>1 DEF CallersAt, CallerAt, Async
<1>3. Op(p) \in {"get", "put"} /\ "clear" \notin crew.calls
  BY <1>1, <1>2 DEF ClruType, Fits
<1>4. Go(p, "async", IF Op(p) = "get" THEN "read" ELSE "shrink")
  BY <1>3 DEF Async
<1>5. /\ at'[p] = (IF Op(p) = "get" THEN "read" ELSE "shrink")
      /\ \A q \in Callers : q # p => at'[q] = at[q]
  BY <1>1, <1>4, CallerGoes DEF ClruType
<1>6. /\ Leave(t) /\ asked' = InFront(n, Without(n))
      /\ UNCHANGED <<keys, nodeKey, list, liveNodes, node, fault, call, task, stop, crew, bucketOf>>
  BY DEF Async, CallStands, InFront
<1>7. /\ t \in Task /\ t.op = "front" /\ t.node = n
      /\ n # Null /\ ~Gone(k)
  BY <1>1, <1>2, NotGone, NodesAssumption DEF Task
<1> HIDE DEF k, n, t
<1>8. n \in liveNodes /\ nodeKey[n] = k /\ ~Going(n)
  BY <1>1, <1>2, <1>7 DEF EntriesAre, Going
<1>9. /\ Proper(asked, liveNodes, nodeKey) /\ asked \in Seq(CNodes) /\ Distinct(asked)
      /\ \A m : In(asked, m) => m \in CNodes /\ m \in liveNodes /\ nodeKey[m] \in ClruKeys
      /\ \A m, i : In(asked, m) /\ In(asked, i) /\ nodeKey[m] = nodeKey[i] => m = i
      /\ \A m : Going(m) => ~In(asked, m)
  BY <1>1, AskedIs, ProperIs
<1>10. PICK e : e = Without(n) /\ Bared(CNodes, asked, n, e)
  BY <1>9, WithoutIs
<1>11. /\ e \in Seq(CNodes) /\ Distinct(e) /\ \A x : In(e, x) <=> In(asked, x) /\ x # n
  BY <1>10 DEF Bared
<1>12. /\ InFront(n, e) \in Seq(CNodes) /\ Distinct(InFront(n, e))
       /\ \A x : In(InFront(n, e), x) <=> In(e, x) \/ x = n
  BY <1>2, <1>11, FrontDistinct
<1>13. PICK a : a = asked'
  OBVIOUS
<1>14. a \in Seq(CNodes) /\ Distinct(a) /\ \A x : In(a, x) <=> In(asked, x) \/ x = n
  BY <1>6, <1>10, <1>11, <1>12, <1>13
<1>15. ASSUME NEW m, NEW i, In(a, m), In(a, i), nodeKey[m] = nodeKey[i] PROVE m = i
  <2>1. ASSUME NEW x, In(asked, x), nodeKey[x] = k PROVE x = n
    BY <1>1, <1>2, <1>9, <2>1 DEF EntriesAre
  <2> QED BY <1>8, <1>9, <1>14, <1>15, <2>1
<1>16. Proper(a, liveNodes, nodeKey)
  <2>1. \A m : In(a, m) => m \in liveNodes /\ nodeKey[m] \in ClruKeys
    BY <1>2, <1>8, <1>9, <1>14
  <2> QED BY <1>14, <1>15, <2>1, ProperFrom
<1>17. /\ Pending' = Append(Pending, t) /\ tasks' \in Seq(Task)
       /\ worker' = worker \/ (worker = "wait" /\ worker' = "lock")
  BY <1>1, <1>6, <1>7, TaskLeft
<1>18. \A m : Going(m)' => Going(m)
  <2>1. /\ Len(Append(Pending, t)) = Len(Pending) + 1 /\ Append(Pending, t)[Len(Pending) + 1] = t
        /\ \A j \in 1 .. Len(Pending) : Append(Pending, t)[j] = Pending[j]
        /\ Len(Pending) \in Nat
    BY <1>1, <1>7, PendingIs, BackIs
  <2>2. ASSUME NEW i \in 1 .. Len(Pending) + 1, Append(Pending, t)[i].op = "drop"
        PROVE  i \in 1 .. Len(Pending) /\ Append(Pending, t)[i] = Pending[i]
    <3>1. i # Len(Pending) + 1
      BY <1>7, <2>1, <2>2
    <3>2. i \in 1 .. Len(Pending)
      BY <2>1, <3>1
    <3> QED BY <2>1, <3>2
  <2> QED BY <1>17, <2>1, <2>2 DEF Going
<1>19. Ahead'
  <2>1. Effect(t, asked, asked')
    BY <1>6, <1>7, <1>10 DEF Effect
  <2>2. \A m : Going(m) => ~In(asked', m)
    BY <1>8, <1>9, <1>13, <1>14
  <2>3. Proper(asked', liveNodes, nodeKey)
    BY <1>13, <1>16
  <2> QED BY <1>1, <1>6, <1>7, <2>1, <2>2, <2>3, AheadMore
<1>20. ClruType'
  <2>1. at' \in [Callers -> {"idle", "lookup", "async", "read", "shrink", "erase"}]
    BY <1>1, <1>4 DEF ClruType, Go
  <2>2. worker' \in {"test", "lock", "toWait", "wait", "run", "done", "joined"}
        /\ (worker' = "run" => task' \in Task)
    BY <1>1, <1>6, <1>17 DEF ClruType
  <2> QED BY <1>1, <1>6, <1>13, <1>14, <1>17, <2>1, <2>2 DEF ClruType
<1>21. \A q \in Callers : Op(q)' = Op(q) /\ Key(q)' = Key(q)
  BY <1>6 DEF Op, Key
<1>22. CallersAt'
  <2>1. CallerAt(p)'
    <3>1. at'[p] # "erase"
      BY <1>5
    <3>2. node'[p] = n /\ keys'[k] = n /\ Key(p)' = k /\ Op(p)' = Op(p) /\ crew' = crew
      BY <1>2, <1>6, <1>21 DEF k, n
    <3> QED BY <1>2, <3>1, <3>2 DEF CallerAt
  <2>2. \A q \in Callers : q # p => at[q] # "erase"
    BY <1>1, <1>2, DelsAlone DEF CallersAt, CallerAt
  <2> QED BY <1>1, <1>5, <1>6, <2>1, <2>2, OthersStay
<1>23. EntriesAre'
  <2>1. ASSUME NEW j \in ClruKeys, (keys[j] # Null /\ ~Gone(j))'
        PROVE  (/\ keys[j] \in liveNodes /\ nodeKey[keys[j]] = j /\ ~Going(keys[j])
                /\ ~Coming(j) => In(asked, keys[j]))'
    <3>1. keys' = keys /\ liveNodes' = liveNodes /\ nodeKey' = nodeKey
      BY <1>6
    <3>2. ~Gone(j)
      BY <1>2, <1>5, <1>21, <2>1 DEF Gone
    <3>3. /\ keys[j] \in liveNodes /\ nodeKey[keys[j]] = j /\ ~Going(keys[j])
          /\ ~Coming(j) => In(asked, keys[j])
      BY <1>1, <2>1, <3>1, <3>2 DEF EntriesAre
    <3>4. PICK m : m = keys[j]
      OBVIOUS
    <3>5. ~Going(m)'
      BY <1>18, <3>3, <3>4
    <3>6. ~Going(keys[j])'
      BY <3>1, <3>4, <3>5 DEF Going
    <3>7. ASSUME ~Coming(j)' PROVE In(a, m)
      <4>1. CASE j = k
        BY <1>2, <1>14, <3>4, <4>1
      <4>2. CASE j # k
        <5>1. ~Coming(j)
          BY <1>5, <1>21, <3>7, <4>2 DEF Coming, k
        <5> QED BY <1>14, <3>3, <3>4, <5>1
      <4> QED BY <4>1, <4>2
    <3> QED BY <1>13, <3>1, <3>3, <3>4, <3>6, <3>7
  <2>2. ASSUME NEW m \in CNodes, In(asked', m) PROVE keys'[nodeKey'[m]] = m
    <3>1. In(asked, m) \/ m = n
      BY <1>13, <1>14, <2>2
    <3> QED BY <1>1, <1>2, <1>6, <1>8, <3>1 DEF EntriesAre
  <2> QED BY <2>1, <2>2 DEF EntriesAre
<1> QED BY <1>6, <1>19, <1>20, <1>22, <1>23 DEF Working

\* and what del leaves is asked for no more.
LEMMA AsyncDrops ==
  ASSUME Fits, Working, ~fault, NEW p \in Callers, Async(p), CallStands, Op(p) = "del"
  PROVE  Working' /\ ~fault'
<1> DEFINE k == Key(p)
           n == node[p]
           t == [op |-> "drop", node |-> n]
<1>1. ClruType /\ CallersAt /\ EntriesAre /\ Ahead
  BY DEF Working
<1>2. /\ at[p] = "async" /\ p \in crew.callers /\ Op(p) \in crew.calls /\ k \in ClruKeys
      /\ n \in CNodes /\ n = keys[k]
  BY <1>1 DEF CallersAt, CallerAt, Async
<1>3. \A q \in Callers : q # p => at[q] = "idle"
  BY <1>1, <1>2, DelsAlone
<1>4. Go(p, "async", "erase")
  BY DEF Async
<1>5. at'[p] = "erase" /\ \A q \in Callers : q # p => at'[q] = at[q]
  BY <1>1, <1>4, CallerGoes DEF ClruType
<1>6. /\ Leave(t) /\ asked' = Without(n)
      /\ UNCHANGED <<keys, nodeKey, list, liveNodes, node, fault, call, task, stop, crew, bucketOf>>
  BY DEF Async, CallStands
<1>7. /\ t \in Task /\ t.op = "drop" /\ t.node = n
      /\ n # Null /\ ~Gone(k)
  BY <1>1, <1>2, NotGone, NodesAssumption DEF Task
<1>8. ~Coming(k)
  BY <1>3 DEF Coming
<1> HIDE DEF k, n, t
<1>9. n \in liveNodes /\ nodeKey[n] = k /\ ~Going(n) /\ In(asked, n)
  BY <1>1, <1>2, <1>7, <1>8 DEF EntriesAre, Going
<1>10. /\ Proper(asked, liveNodes, nodeKey) /\ asked \in Seq(CNodes) /\ Distinct(asked)
       /\ \A m : In(asked, m) => m \in CNodes /\ m \in liveNodes /\ nodeKey[m] \in ClruKeys
       /\ \A m, i : In(asked, m) /\ In(asked, i) /\ nodeKey[m] = nodeKey[i] => m = i
       /\ \A m : Going(m) => ~In(asked, m)
  BY <1>1, AskedIs, ProperIs
<1>11. Bared(CNodes, asked, n, asked')
  BY <1>6, <1>10, WithoutIs
<1>12. PICK a : a = asked'
  OBVIOUS
<1>13. a \in Seq(CNodes) /\ Distinct(a) /\ \A x : In(a, x) <=> In(asked, x) /\ x # n
  BY <1>11, <1>12 DEF Bared
<1>14. Proper(a, liveNodes, nodeKey)
  <2>1. \A m : In(a, m) => m \in liveNodes /\ nodeKey[m] \in ClruKeys
    BY <1>10, <1>13
  <2>2. \A m, i : In(a, m) /\ In(a, i) /\ nodeKey[m] = nodeKey[i] => m = i
    BY <1>10, <1>13
  <2> QED BY <1>13, <2>1, <2>2, ProperFrom
<1>15. /\ Pending' = Append(Pending, t) /\ tasks' \in Seq(Task)
       /\ worker' = worker \/ (worker = "wait" /\ worker' = "lock")
  BY <1>1, <1>6, <1>7, TaskLeft
<1>16. \A m : Going(m)' => Going(m) \/ m = n
  <2>1. /\ Len(Append(Pending, t)) = Len(Pending) + 1 /\ Append(Pending, t)[Len(Pending) + 1] = t
        /\ \A j \in 1 .. Len(Pending) : Append(Pending, t)[j] = Pending[j]
        /\ Len(Pending) \in Nat
    BY <1>1, <1>7, PendingIs, BackIs
  <2>2. ASSUME NEW i \in 1 .. Len(Pending) + 1
        PROVE  \/ i \in 1 .. Len(Pending) /\ Append(Pending, t)[i] = Pending[i]
               \/ Append(Pending, t)[i] = t
    <3>1. i = Len(Pending) + 1 \/ i \in 1 .. Len(Pending)
      BY <2>1
    <3> QED BY <2>1, <3>1
  <2> QED BY <1>7, <1>15, <2>1, <2>2 DEF Going
<1>17. Ahead'
  <2>1. Effect(t, asked, asked')
    <3>1. \E i \in 1 .. Len(asked) : asked[i] = n /\ asked' = Cut(asked, i)
      BY <1>9, <1>11 DEF Bared, Bare
    <3> QED BY <1>7, <3>1 DEF Effect
  <2>2. \A m : Going(m) => ~In(asked', m)
    BY <1>10, <1>12, <1>13
  <2>3. Proper(asked', liveNodes, nodeKey) /\ ~In(asked', t.node)
    BY <1>7, <1>12, <1>13, <1>14
  <2> QED BY <1>1, <1>6, <1>7, <2>1, <2>2, <2>3, AheadMore
<1>18. ClruType'
  <2>1. at' \in [Callers -> {"idle", "lookup", "async", "read", "shrink", "erase"}]
    BY <1>1, <1>4 DEF ClruType, Go
  <2>2. worker' \in {"test", "lock", "toWait", "wait", "run", "done", "joined"}
        /\ (worker' = "run" => task' \in Task)
    BY <1>1, <1>6, <1>15 DEF ClruType
  <2> QED BY <1>1, <1>6, <1>12, <1>13, <1>15, <2>1, <2>2 DEF ClruType
<1>19. \A q \in Callers : Op(q)' = Op(q) /\ Key(q)' = Key(q)
  BY <1>6 DEF Op, Key
<1>20. CallersAt'
  <2>1. CallerAt(p)'
    <3>1. node'[p] = n /\ keys'[k] = n /\ Key(p)' = k /\ Op(p)' = "del" /\ crew' = crew
          /\ Op(p) = "del"
      BY <1>2, <1>6, <1>19 DEF k, n
    <3>2. ~In(asked', n)
      BY <1>12, <1>13
    <3> QED BY <1>2, <1>5, <3>1, <3>2 DEF CallerAt
  <2>2. \A q \in Callers : q # p => at[q] # "erase"
    BY <1>3
  <2> QED BY <1>1, <1>5, <1>6, <2>1, <2>2, OthersStay
<1>21. EntriesAre'
  <2>1. ASSUME NEW j \in ClruKeys, (keys[j] # Null /\ ~Gone(j))'
        PROVE  (/\ keys[j] \in liveNodes /\ nodeKey[keys[j]] = j /\ ~Going(keys[j])
                /\ ~Coming(j) => In(asked, keys[j]))'
    <3>1. keys' = keys /\ liveNodes' = liveNodes /\ nodeKey' = nodeKey
      BY <1>6
    <3>2. ~Gone(j) /\ j # k
      BY <1>2, <1>5, <1>19, <2>1 DEF Gone, k
    <3>3. ~Coming(j)
      BY <1>3, <1>2 DEF Coming
    <3>4. /\ keys[j] \in liveNodes /\ nodeKey[keys[j]] = j /\ ~Going(keys[j])
          /\ In(asked, keys[j])
      BY <1>1, <2>1, <3>1, <3>2, <3>3 DEF EntriesAre
    <3>5. PICK m : m = keys[j]
      OBVIOUS
    <3>6. m # n
      BY <1>9, <3>2, <3>4, <3>5
    <3>7. ~Going(m)'
      BY <1>16, <3>4, <3>5, <3>6
    <3>8. ~Going(keys[j])'
      BY <3>1, <3>5, <3>7 DEF Going
    <3>9. In(a, m)
      BY <1>13, <3>4, <3>5, <3>6
    <3> QED BY <1>12, <3>1, <3>4, <3>5, <3>8, <3>9
  <2>2. ASSUME NEW m \in CNodes, In(asked', m) PROVE keys'[nodeKey'[m]] = m
    <3>1. In(asked, m)
      BY <1>12, <1>13, <2>2
    <3> QED BY <1>1, <1>6, <3>1 DEF EntriesAre
  <2> QED BY <2>1, <2>2 DEF EntriesAre
<1> QED BY <1>6, <1>17, <1>18, <1>20, <1>21 DEF Working

\* The eviction that put leaves changes nothing that has been asked for.
LEMMA ShrinkKeeps ==
  ASSUME Fits, Working, ~fault, NEW p \in Callers, Shrink(p), CallStands
  PROVE  Working' /\ ~fault'
<1> DEFINE t == [op |-> "evict", bucket |-> bucketOf[Key(p)]]
<1>1. ClruType /\ CallersAt /\ EntriesAre /\ Ahead
  BY DEF Working
<1>2. /\ at[p] = "shrink" /\ at'[p] = "idle"
      /\ \A q \in Callers : q # p => at'[q] = at[q]
  BY <1>1, CallerGoes DEF Shrink, ClruType
<1>3. Key(p) \in ClruKeys
  BY <1>1, <1>2 DEF CallersAt, CallerAt
<1>4. /\ Leave(t)
      /\ UNCHANGED <<keys, nodeKey, list, liveNodes, node, fault, asked, call, task, stop, crew, bucketOf>>
  BY DEF Shrink, CallStands
<1>5. t \in Task /\ t.op = "evict"
  <2>1. bucketOf[Key(p)] \in Buckets
    BY <1>1, <1>3 DEF ClruType
  <2> QED BY <2>1 DEF Task
<1> HIDE DEF t
<1>6. /\ Pending' = Append(Pending, t) /\ tasks' \in Seq(Task)
      /\ worker' = worker \/ (worker = "wait" /\ worker' = "lock")
  BY <1>1, <1>4, <1>5, TaskLeft
<1>7. \A m : Going(m)' => Going(m)
  <2>1. /\ Len(Append(Pending, t)) = Len(Pending) + 1 /\ Append(Pending, t)[Len(Pending) + 1] = t
        /\ \A j \in 1 .. Len(Pending) : Append(Pending, t)[j] = Pending[j]
        /\ Len(Pending) \in Nat
    BY <1>1, <1>5, PendingIs, BackIs
  <2>2. ASSUME NEW i \in 1 .. Len(Pending) + 1, Append(Pending, t)[i].op = "drop"
        PROVE  i \in 1 .. Len(Pending) /\ Append(Pending, t)[i] = Pending[i]
    <3>1. i # Len(Pending) + 1
      BY <1>5, <2>1, <2>2
    <3>2. i \in 1 .. Len(Pending)
      BY <2>1, <3>1
    <3> QED BY <2>1, <3>2
  <2> QED BY <1>6, <2>1, <2>2 DEF Going
<1>8. Ahead'
  <2>1. Proper(asked, liveNodes, nodeKey) /\ \A m : Going(m) => ~In(asked, m)
    BY <1>1, AskedIs
  <2>2. Effect(t, asked, asked') /\ Proper(asked', liveNodes, nodeKey)
    BY <1>4, <1>5, <2>1 DEF Effect
  <2>3. \A m : Going(m) => ~In(asked', m)
    BY <1>4, <2>1
  <2> QED BY <1>1, <1>4, <1>5, <2>2, <2>3, AheadMore
<1>9. ClruType'
  <2>1. at' \in [Callers -> {"idle", "lookup", "async", "read", "shrink", "erase"}]
    BY <1>1 DEF ClruType, Shrink, Go
  <2>2. worker' \in {"test", "lock", "toWait", "wait", "run", "done", "joined"}
        /\ (worker' = "run" => task' \in Task)
    BY <1>1, <1>4, <1>6 DEF ClruType
  <2> QED BY <1>1, <1>4, <1>6, <2>1, <2>2 DEF ClruType
<1>10. CallersAt'
  <2>1. CallerAt(p)'
    BY <1>2 DEF CallerAt
  <2> QED BY <1>1, <1>2, <1>4, <2>1, OthersStay
<1>11. EntriesAre'
  <2>1. ASSUME NEW j \in ClruKeys PROVE (Gone(j) => Gone(j)') /\ (Coming(j) => Coming(j)')
    BY <1>2, <1>4 DEF Gone, Coming, Op, Key
  <2> QED BY <1>1, <1>4, <1>7, <2>1, EntriesStill
<1> QED BY <1>4, <1>8, <1>9, <1>10, <1>11 DEF Working

\* del's entry goes; by then the node is asked for no more.
LEMMA EraseKeeps ==
  ASSUME Fits, Working, ~fault, NEW p \in Callers, Erase(p), CallStands
  PROVE  Working' /\ ~fault'
<1> DEFINE k == Key(p)
<1>1. ClruType /\ CallersAt /\ EntriesAre /\ Ahead
  BY DEF Working
<1>2. /\ at[p] = "erase" /\ at'[p] = "idle"
      /\ \A q \in Callers : q # p => at'[q] = at[q]
  BY <1>1, CallerGoes DEF Erase, ClruType
<1>3. /\ k \in ClruKeys /\ node[p] \in CNodes /\ node[p] = keys[k]
      /\ Op(p) = "del" /\ ~In(asked, node[p])
  BY <1>1, <1>2 DEF CallersAt, CallerAt
<1>4. \A q \in Callers : at[q] # "idle" => q = p
  BY <1>1, <1>2, <1>3, DelsAlone
<1>5. \A q \in Callers : at'[q] = "idle"
  BY <1>2, <1>4
<1>6. /\ keys' = [keys EXCEPT ![k] = Null]
      /\ UNCHANGED <<nodeKey, list, liveNodes, tasks, worker, node, fault, asked, call, task, crew, bucketOf>>
  BY DEF Erase, CallStands
<1>7. keys'[k] = Null /\ \A j \in ClruKeys : j # k => keys'[j] = keys[j]
  BY <1>1, <1>3, <1>6 DEF ClruType
<1>8. \A j \in ClruKeys : j # k => ~Gone(j) /\ ~Coming(j)
  BY <1>2, <1>4 DEF Gone, Coming
<1> HIDE DEF k
<1>9. Pending' = Pending
  BY <1>6 DEF Pending
<1>10. ClruType'
  <2>1. at' \in [Callers -> {"idle", "lookup", "async", "read", "shrink", "erase"}]
    BY <1>1 DEF ClruType, Erase, Go
  <2>2. keys' \in [ClruKeys -> CNodes \cup {Null}]
    BY <1>1, <1>6 DEF ClruType
  <2> QED BY <1>1, <1>6, <2>1, <2>2 DEF ClruType
<1>11. CallersAt'
  BY <1>5 DEF CallersAt, CallerAt
<1>12. Ahead'
  BY <1>1, <1>6, <1>9, AheadStill
<1>13. EntriesAre'
  <2>1. ASSUME NEW j \in ClruKeys, (keys[j] # Null /\ ~Gone(j))'
        PROVE  (/\ keys[j] \in liveNodes /\ nodeKey[keys[j]] = j /\ ~Going(keys[j])
                /\ ~Coming(j) => In(asked, keys[j]))'
    <3>1. j # k
      BY <1>7, <2>1
    <3>2. keys'[j] = keys[j] /\ ~Gone(j) /\ ~Coming(j)
      BY <1>7, <1>8, <3>1
    <3>3. /\ keys[j] \in liveNodes /\ nodeKey[keys[j]] = j /\ ~Going(keys[j])
          /\ In(asked, keys[j])
      BY <1>1, <2>1, <3>2 DEF EntriesAre
    <3>4. PICK m : m = keys[j]
      OBVIOUS
    <3>5. ~Going(m)'
      BY <1>9, <3>3, <3>4 DEF Going
    <3>6. ~Going(keys[j])'
      BY <3>2, <3>4, <3>5 DEF Going
    <3> QED BY <1>6, <3>2, <3>3, <3>6
  <2>2. ASSUME NEW m \in CNodes, In(asked', m) PROVE keys'[nodeKey'[m]] = m
    <3>1. In(asked, m) /\ nodeKey[m] \in ClruKeys
      BY <1>1, <1>6, <2>2, AskedIs, ProperIs
    <3>2. keys[nodeKey[m]] = m
      BY <1>1, <3>1 DEF EntriesAre
    <3>3. nodeKey[m] # k
      BY <1>3, <3>1, <3>2
    <3> QED BY <1>6, <1>7, <3>1, <3>2, <3>3
  <2> QED BY <2>1, <2>2 DEF EntriesAre
<1> QED BY <1>6, <1>10, <1>11, <1>12, <1>13 DEF Working

\* Nobody clears.
LEMMA CallersKeep ==
  ASSUME Fits, Working, ~fault, NEW p \in Callers, CallerStep(p), CallStands
  PROVE  Working' /\ ~fault'
<1>1. CASE Lookup(p)
  BY <1>1, LookupKeeps
<1>2. CASE NotThere(p)
  BY <1>2, NotThereKeeps
<1>3. CASE SetNew(p)
  BY <1>3, SetNewKeeps
<1>4. CASE Async(p)
  BY <1>4, AsyncFronts, AsyncDrops
<1>5. CASE Read(p)
  BY <1>5, ReadKeeps
<1>6. CASE Shrink(p)
  BY <1>6, ShrinkKeeps
<1>7. CASE Erase(p)
  BY <1>7, EraseKeeps
<1>8. CASE ClearKeys(p)
  <2>1. CallerAt(p) /\ at[p] = "lookup" /\ Op(p) = "clear"
    BY <1>8 DEF Working, CallersAt, ClearKeys, Go
  <2> QED BY <2>1 DEF CallerAt, Fits
<1>9. CASE ClearList(p)
  <2>1. at[p] = "clear" /\ at \in [Callers -> {"idle", "lookup", "async", "read", "shrink", "erase"}]
    BY <1>9 DEF Working, ClruType, ClearList, Go
  <2>2. at[p] \in {"idle", "lookup", "async", "read", "shrink", "erase"}
    BY <2>1
  <2> QED BY <2>1, <2>2
<1> QED BY <1>1, <1>2, <1>3, <1>4, <1>5, <1>6, <1>7, <1>8, <1>9 DEF CallerStep

\* The steps of the worker
WorkerAlone == UNCHANGED <<at, call, node, keys, nodeKey, crew, bucketOf, asked>>

LEMMA CallersRest ==
  ASSUME CallersAt, EntriesAre, WorkerAlone, \A n : Going(n)' => Going(n),
         \A n \in liveNodes : n \in liveNodes' \/ Going(n)
  PROVE  CallersAt' /\ EntriesAre'
<1>1. UNCHANGED <<at, call, node, keys, nodeKey, crew, asked>>
  BY DEF WorkerAlone
<1>2. CallersAt'
  BY <1>1 DEF CallersAt, CallerAt, Op, Key
<1>3. ASSUME NEW j \in ClruKeys PROVE (Gone(j) => Gone(j)') /\ (Coming(j) => Coming(j)')
  BY <1>1 DEF Gone, Coming, Op, Key
<1> QED BY <1>1, <1>2, <1>3, EntriesStill

LEMMA PendingStill ==
  ASSUME Working, WorkerAlone, Pending' = Pending, UNCHANGED <<list, liveNodes>>,
         tasks' \in Seq(Task), worker' = "run" => task' \in Task,
         worker' \in {"test", "lock", "toWait", "wait", "run", "done", "joined"}
  PROVE  Working'
<1>1. ClruType /\ CallersAt /\ EntriesAre /\ Ahead
  BY DEF Working
<1>2. CallersAt' /\ EntriesAre'
  <2>1. \A n : Going(n)' => Going(n)
    BY DEF Going
  <2> QED BY <1>1, <2>1, CallersRest
<1>3. Ahead'
  BY <1>1, AheadStill DEF WorkerAlone
<1>4. ClruType'
  BY <1>1 DEF ClruType, WorkerAlone
<1> QED BY <1>2, <1>3, <1>4 DEF Working

LEMMA HeadTail ==
  ASSUME NEW K, NEW s \in Seq(K), s # << >>
  PROVE  Head(s) \in K /\ Tail(s) \in Seq(K) /\ InFront(Head(s), Tail(s)) = s
<1>1. /\ Head(s) \in K /\ Tail(s) \in Seq(K) /\ Head(s) = s[1] /\ Len(s) \in Nat \ {0}
      /\ Len(Tail(s)) = Len(s) - 1 /\ \A i \in 1 .. Len(s) - 1 : Tail(s)[i] = s[i + 1]
  BY HeadTailProperties, SMTT(30)
<1>2. PICK h \in K, r \in Seq(K) :
        /\ h = Head(s) /\ r = Tail(s) /\ h = s[1]
        /\ Len(r) = Len(s) - 1 /\ \A i \in 1 .. Len(s) - 1 : r[i] = s[i + 1]
  BY <1>1
<1>3. PICK f : f = InFront(h, r) /\ Fore(K, h, r, f)
  BY ForeIs
<1>4. /\ f \in Seq(K) /\ Len(f) = Len(r) + 1 /\ f[1] = h
      /\ \A j \in 1 .. Len(r) : f[j + 1] = r[j]
  BY <1>3 DEF Fore
<1>5. Len(f) = Len(s)
  BY <1>1, <1>2, <1>4
<1>6. ASSUME NEW i \in 1 .. Len(f) PROVE f[i] = s[i]
  <2>1. i = 1 \/ (i - 1 \in 1 .. Len(s) - 1 /\ i = (i - 1) + 1)
    BY <1>1, <1>5
  <2>2. ASSUME NEW j \in 1 .. Len(s) - 1 PROVE f[j + 1] = s[j + 1]
    BY <1>1, <1>2, <1>4
  <2> QED BY <1>2, <1>4, <2>1, <2>2
<1>7. f = s
  BY <1>4, <1>5, <1>6, SeqEqual
<1> QED BY <1>1, <1>2, <1>3, <1>7

LEMMA WaitsKeep ==
  ASSUME Working, ~fault, WorkerWaits \/ SpuriousWakeup, WorkerAlone
  PROVE  Working' /\ ~fault'
<1>1. UNCHANGED <<list, liveNodes, tasks, task, fault>> /\ worker # "run" /\ worker' # "run"
      /\ worker' \in {"test", "lock", "toWait", "wait", "run", "done", "joined"}
  BY DEF WorkerWaits, SpuriousWakeup, Worker
<1>2. Pending' = Pending
  BY <1>1, SMTT(30) DEF Pending
<1>3. tasks' \in Seq(Task)
  BY <1>1 DEF Working, ClruType
<1> QED BY <1>1, <1>2, <1>3, PendingStill

LEMMA TakesKeep ==
  ASSUME Working, ~fault, WorkerTakes, WorkerAlone
  PROVE  Working' /\ ~fault'
<1>1. /\ worker = "lock" /\ worker' = "run" /\ tasks # << >>
      /\ task' = Head(tasks) /\ tasks' = Tail(tasks) /\ UNCHANGED <<list, liveNodes, fault>>
  BY DEF WorkerTakes, Worker
<1>2. tasks \in Seq(Task)
  BY DEF Working, ClruType
<1>3. Head(tasks) \in Task /\ Tail(tasks) \in Seq(Task) /\ InFront(Head(tasks), Tail(tasks)) = tasks
  BY <1>1, <1>2, HeadTail
<1>4. Pending' = Pending
  BY <1>1, <1>3 DEF Pending
<1> QED BY <1>1, <1>3, <1>4, PendingStill

LEMMA PendingFirst ==
  ASSUME ClruType, worker = "run"
  PROVE  /\ Pending[1] = task /\ Len(Pending) = Len(tasks) + 1 /\ Len(tasks) \in Nat
         /\ \A i \in 1 .. Len(tasks) : Pending[i + 1] = tasks[i]
<1>1. task \in Task /\ tasks \in Seq(Task)
  BY DEF ClruType
<1>2. Fore(Task, task, tasks, InFront(task, tasks))
  BY <1>1, ForeIs
<1>3. Len(tasks) \in Nat
  BY <1>1
<1> QED BY <1>2, <1>3 DEF Pending, Fore

\* A task that is done takes the list to its next stage.
LEMMA DoneKeeps ==
  ASSUME Working, WorkerAlone, Worker("run", "test"), tasks' = tasks, list' \in NodeLinks,
         NEW T, Stages(T, tasks, liveNodes', nodeKey), asked = T[Len(tasks)],
         Circle(CDummy, list', T[0]),
         \A n \in liveNodes' : In(T[0], n) \/ list'.prev[n] = Null,
         liveNodes' \subseteq liveNodes, \A n \in liveNodes : n \in liveNodes' \/ Going(n)
  PROVE  Working'
<1>1. ClruType /\ CallersAt /\ EntriesAre /\ worker = "run" /\ worker' = "test"
  BY DEF Working, Worker
<1>2. Pending = InFront(task, tasks) /\ Pending' = tasks /\ task \in Task /\ tasks \in Seq(Task)
  BY <1>1 DEF Pending, ClruType
<1>3. /\ Len(Pending) = Len(tasks) + 1 /\ Len(tasks) \in Nat
      /\ \A i \in 1 .. Len(tasks) : Pending[i + 1] = tasks[i]
  BY <1>1, PendingFirst
<1>4. ASSUME NEW n, Going(n)' PROVE Going(n)
  <2>1. PICK i \in 1 .. Len(tasks) : tasks[i].op = "drop" /\ tasks[i].node = n
    BY <1>2, <1>4 DEF Going
  <2>2. i + 1 \in 1 .. Len(Pending) /\ Pending[i + 1] = tasks[i]
    BY <1>3
  <2> QED BY <2>1, <2>2 DEF Going
<1>5. CallersAt' /\ EntriesAre'
  BY <1>1, <1>4, CallersRest
<1>6. Ahead'
  BY <1>2 DEF Ahead, WorkerAlone
<1>7. ClruType'
  BY <1>1 DEF ClruType, WorkerAlone, NodeLinks
<1> QED BY <1>5, <1>6, <1>7 DEF Working

\* The list as it is, as it will be, and the stages after that.
LEMMA NextStage ==
  ASSUME Working, worker = "run"
  PROVE  \E c, d, T :
           /\ Proper(c, liveNodes, nodeKey) /\ Proper(d, liveNodes, nodeKey) /\ Effect(task, c, d)
           /\ Circle(CDummy, list, c)
           /\ \A n \in liveNodes : In(c, n) \/ list.prev[n] = Null
           /\ Stages(T, tasks, liveNodes, nodeKey) /\ T[0] = d /\ asked = T[Len(tasks)]
           /\ task.op = "drop" => \A j \in 0 .. Len(tasks) : ~In(T[j], task.node)
<1>1. ClruType /\ Ahead
  BY DEF Working
<1>2. Pending = InFront(task, tasks) /\ task \in Task /\ tasks \in Seq(Task)
  BY <1>1 DEF Pending, ClruType
<1>3. PICK S : /\ Stages(S, Pending, liveNodes, nodeKey)
               /\ Circle(CDummy, list, S[0]) /\ asked = S[Len(Pending)]
               /\ \A n \in liveNodes : In(S[0], n) \/ list.prev[n] = Null
  BY <1>1 DEF Ahead
<1>4. Onward(S, task, tasks, liveNodes, nodeKey)
  <2>1. Stages(S, InFront(task, tasks), liveNodes, nodeKey)
    BY <1>2, <1>3
  <2> QED BY <1>2, <2>1, StagesLess
<1>5. PICK T : /\ Stages(T, tasks, liveNodes, nodeKey)
               /\ T[0] = S[1] /\ T[Len(tasks)] = S[Len(InFront(task, tasks))]
               /\ task.op = "drop" => \A j \in 0 .. Len(tasks) : ~In(T[j], task.node)
  BY <1>4 DEF Onward
<1> QED BY <1>2, <1>3, <1>4, <1>5 DEF Onward

LEMMA RunFrontKeeps ==
  ASSUME Working, ~fault, RunFront, WorkerAlone
  PROVE  Working' /\ ~fault'
<1> DEFINE n == task.node
           u == Unlinked(list, n)
<1>1. /\ Worker("run", "test") /\ worker = "run" /\ task.op = "front"
      /\ fault' = (n \notin liveNodes) /\ list' = pushFront(u, n)
      /\ UNCHANGED <<liveNodes, tasks, nodeKey>>
  BY DEF RunFront, Worker, WorkerAlone
<1>2. list \in NodeLinks
  BY DEF Working, ClruType, NodeLinks
<1> HIDE DEF n, u
<1>3. PICK c, d, T :
        /\ Proper(c, liveNodes, nodeKey) /\ Proper(d, liveNodes, nodeKey) /\ Effect(task, c, d)
        /\ Circle(CDummy, list, c)
        /\ \A m \in liveNodes : In(c, m) \/ list.prev[m] = Null
        /\ Stages(T, tasks, liveNodes, nodeKey) /\ T[0] = d /\ asked = T[Len(tasks)]
  BY <1>1, NextStage
<1>4. PICK e : Bared(CNodes, c, n, e) /\ d = InFront(n, e)
  BY <1>1, <1>3 DEF Effect, n
<1>5. c \in Seq(CNodes) /\ Distinct(c) /\ \A m : In(d, m) => m \in CNodes /\ m \in liveNodes
  BY <1>3, ProperIs
<1>6. e \in Seq(CNodes) /\ Distinct(e) /\ Bare(c, n, e) /\ \A x : In(e, x) <=> In(c, x) /\ x # n
  BY <1>4 DEF Bared
<1>7. d \in Seq(CNodes) /\ Len(d) \in Nat
  BY <1>3, ProperIs
<1>8. /\ n \in CNodes /\ n \in liveNodes /\ \A x : In(d, x) <=> In(e, x) \/ x = n
  <2>1. task \in Task
    BY <1>1 DEF Working, ClruType
  <2>2. n \in CNodes
    BY <1>1, <2>1 DEF Task, n
  <2>3. \A x : In(InFront(n, e), x) <=> In(e, x) \/ x = n
    BY <1>6, <2>2, FrontDistinct
  <2> QED BY <1>4, <1>5, <2>2, <2>3
<1>9. In(c, n) \/ list.prev[n] = Null
  BY <1>3, <1>8
<1>10. /\ u \in NodeLinks /\ Circle(CDummy, u, e)
       /\ \A m \in CNodes : ~In(c, m) => u.prev[m] = list.prev[m]
  BY <1>2, <1>3, <1>5, <1>6, <1>8, <1>9, RemoveIs DEF u
<1>11. /\ list' \in NodeLinks /\ Circle(CDummy, list', d)
       /\ \A m \in CNodes : m # n /\ ~In(e, m) => list'.prev[m] = u.prev[m]
  <2>1. ~In(e, n)
    BY <1>6
  <2>2. /\ pushFront(u, n) \in NodeLinks /\ Circle(CDummy, pushFront(u, n), InFront(n, e))
        /\ \A m \in CNodes : m # n /\ ~In(e, m) => pushFront(u, n).prev[m] = u.prev[m]
    BY <1>6, <1>8, <1>10, <2>1, PushIs
  <2> QED BY <1>1, <1>4, <2>2
<1>12. ASSUME NEW m \in liveNodes', ~In(d, m) PROVE list'.prev[m] = Null
  <2>1. m \in CNodes /\ m \in liveNodes /\ m # n /\ ~In(e, m) /\ ~In(c, m)
    BY <1>1, <1>6, <1>8, <1>12 DEF Working, ClruType
  <2> QED BY <1>3, <1>10, <1>11, <2>1
<1>13. Working'
  <2>1. /\ Stages(T, tasks, liveNodes', nodeKey) /\ Circle(CDummy, list', T[0])
        /\ \A m \in liveNodes' : In(T[0], m) \/ list'.prev[m] = Null
    BY <1>1, <1>3, <1>11, <1>12
  <2> QED BY <1>1, <1>3, <1>11, <2>1, DoneKeeps
<1> QED BY <1>1, <1>8, <1>13

LEMMA RunDropKeeps ==
  ASSUME Working, ~fault, RunDrop, WorkerAlone
  PROVE  Working' /\ ~fault'
<1> DEFINE n == task.node
<1>1. /\ Worker("run", "test") /\ worker = "run" /\ task.op = "drop"
      /\ fault' = (n \notin liveNodes) /\ list' = Unlinked(list, n)
      /\ liveNodes' = liveNodes \ {n} /\ UNCHANGED <<tasks, nodeKey>>
  BY DEF RunDrop, Worker, WorkerAlone
<1>2. list \in NodeLinks /\ liveNodes \subseteq CNodes /\ task \in Task /\ tasks \in Seq(Task)
  BY <1>1 DEF Working, ClruType, NodeLinks
<1>3. Going(n)
  <2>1. ClruType
    BY DEF Working
  <2>2. Pending[1] = task /\ Len(Pending) = Len(tasks) + 1 /\ Len(tasks) \in Nat
    BY <1>1, <2>1, PendingFirst
  <2>3. 1 \in 1 .. Len(Pending) /\ Pending[1] = task
    BY <2>2
  <2> QED BY <1>1, <2>3 DEF Going
<1> HIDE DEF n
<1>4. PICK c, d, T :
        /\ Proper(c, liveNodes, nodeKey) /\ Effect(task, c, d) /\ Circle(CDummy, list, c)
        /\ \A m \in liveNodes : In(c, m) \/ list.prev[m] = Null
        /\ Stages(T, tasks, liveNodes, nodeKey) /\ T[0] = d /\ asked = T[Len(tasks)]
        /\ task.op = "drop" => \A j \in 0 .. Len(tasks) : ~In(T[j], task.node)
  BY <1>1, NextStage
<1>5. PICK i \in 1 .. Len(c) : c[i] = n /\ d = Cut(c, i)
  BY <1>1, <1>4 DEF Effect, n
<1>6. c \in Seq(CNodes) /\ Distinct(c) /\ \A m : In(c, m) => m \in CNodes /\ m \in liveNodes
  BY <1>4, ProperIs
<1>7. In(c, n) /\ n \in CNodes /\ n \in liveNodes /\ Bare(c, n, d)
  BY <1>5, <1>6 DEF In, Bare
<1>8. \A x : In(d, x) <=> In(c, x) /\ x # n
  BY <1>5, <1>6, CutDistinct
<1>9. /\ list' \in NodeLinks /\ Circle(CDummy, list', d)
      /\ \A m \in CNodes : ~In(c, m) => list'.prev[m] = list.prev[m]
  BY <1>1, <1>2, <1>4, <1>6, <1>7, RemoveIs
<1>10. ASSUME NEW m \in liveNodes', ~In(d, m) PROVE list'.prev[m] = Null
  <2>1. m \in CNodes /\ m \in liveNodes /\ ~In(c, m)
    BY <1>1, <1>2, <1>8, <1>10
  <2> QED BY <1>4, <1>9, <2>1
<1>11. Stages(T, tasks, liveNodes', nodeKey)
  <2>1. ASSUME NEW j \in 0 .. Len(tasks), NEW m, In(T[j], m)
        PROVE  m \in liveNodes' /\ nodeKey[m] = nodeKey[m]
    <3>1. Proper(T[j], liveNodes, nodeKey)
      BY <1>4 DEF Stages
    <3>2. m \in liveNodes
      BY <2>1, <3>1, ProperIs
    <3>3. m # n
      BY <1>1, <1>4, <2>1 DEF n
    <3> QED BY <1>1, <3>2, <3>3
  <2> QED BY <1>4, <2>1, StagesStill
<1>12. Working'
  <2>1. /\ Circle(CDummy, list', T[0]) /\ asked = T[Len(tasks)]
        /\ \A m \in liveNodes' : In(T[0], m) \/ list'.prev[m] = Null
    BY <1>4, <1>9, <1>10
  <2>2. liveNodes' \subseteq liveNodes /\ \A m \in liveNodes : m \in liveNodes' \/ Going(m)
    BY <1>1, <1>3
  <2> QED BY <1>1, <1>9, <1>11, <2>1, <2>2, DoneKeeps
<1> QED BY <1>1, <1>7, <1>12

\* The walk along the list, as far as there are nodes.
LEMMA ChainIs ==
  ASSUME list \in NodeLinks
  PROVE  /\ Cardinality(CNodes) \in Nat /\ DOMAIN Chain = 0 .. Cardinality(CNodes) + 1
         /\ Chain[0] = CDummy
         /\ \A i \in 1 .. Cardinality(CNodes) + 1 :
              Chain[i] = IF Chain[i - 1] = Null THEN Null ELSE list.next[Chain[i - 1]]
<1> DEFINE m == Cardinality(CNodes) + 1
           S == CNodes \cup {CDummy, Null}
           F == [p \in (1 .. m) \X S |-> IF p[2] = Null THEN Null ELSE list.next[p[2]]]
           G(f) == [i \in 0 .. Cardinality(CNodes) + 1 |->
                      IF i = 0 THEN CDummy ELSE IF f[i - 1] = Null THEN Null ELSE list.next[f[i - 1]]]
<1>1. Cardinality(CNodes) \in Nat
  BY NodesAssumption, FS_CardinalityType
<1>2. m \in Nat /\ CDummy \in S
  BY <1>1
<1>3. F \in [(1 .. m) \X S -> S]
  <2>1. ASSUME NEW p \in (1 .. m) \X S PROVE F[p] \in S
    <3>1. p[2] \in S
      OBVIOUS
    <3>2. F[p] = IF p[2] = Null THEN Null ELSE list.next[p[2]]
      OBVIOUS
    <3>3. p[2] # Null => list.next[p[2]] \in S
      BY <3>1 DEF NodeLinks, Links
    <3> HIDE DEF F
    <3> QED BY <3>2, <3>3
  <2> QED BY <2>1
<1>4. PICK f \in [0 .. m -> S] : f[0] = CDummy /\ \A i \in 1 .. m : f[i] = F[<<i, f[i - 1]>>]
  <2> HIDE DEF F, m, S
  <2>1. Rec(m, S, CDummy, F) # {}
    BY <1>2, <1>3, Recursion
  <2> QED BY <2>1 DEF Rec
<1>5. ASSUME NEW i \in 1 .. m PROVE f[i] = IF f[i - 1] = Null THEN Null ELSE list.next[f[i - 1]]
  <2>1. i - 1 \in 0 .. m
    BY <1>2
  <2>2. f[i - 1] \in S
    BY <1>4, <2>1
  <2>3. <<i, f[i - 1]>> \in (1 .. m) \X S
    BY <2>2
  <2>4. F[<<i, f[i - 1]>>] = IF f[i - 1] = Null THEN Null ELSE list.next[f[i - 1]]
    BY <2>3
  <2> HIDE DEF F, m, S
  <2> QED BY <1>4, <2>4
<1>6. f = G(f)
  <2> HIDE DEF F, S
  <2>1. f = [i \in 0 .. m |-> f[i]]
    BY <1>4
  <2>2. \A i \in 0 .. m : i = 0 \/ i \in 1 .. m
    BY <1>2
  <2> QED BY <1>4, <1>5, <2>1, <2>2
<1>7. Chain = CHOOSE g : g = G(g)
  BY DEF Chain
<1>8. Chain = G(Chain)
  <2> HIDE DEF G
  <2> QED BY <1>6, <1>7
<1>9. DOMAIN Chain = 0 .. m
  BY <1>8
<1>10. \A i \in 0 .. m : Chain[i] = IF i = 0 THEN CDummy
                                    ELSE IF Chain[i - 1] = Null THEN Null ELSE list.next[Chain[i - 1]]
  BY <1>8
<1>11. 0 \in 0 .. m /\ \A i \in 1 .. m : i \in 0 .. m /\ i # 0
  BY <1>2
<1> HIDE DEF G, F, S
<1> QED BY <1>1, <1>9, <1>10, <1>11

\* It goes around the circle, and comes back to the dummy before it ends.
LEMMA ChainGoes ==
  ASSUME list \in NodeLinks, NEW c \in Seq(CNodes), Distinct(c), Circle(CDummy, list, c)
  PROVE  /\ Len(c) \in Nat /\ Len(c) <= Cardinality(CNodes) /\ Cardinality(CNodes) \in Nat
         /\ \A i \in 0 .. Len(c) + 1 : Chain[i] = Place(CDummy, c, i)
         /\ \A i \in 0 .. Cardinality(CNodes) + 1 : Chain[i] = CDummy \/ In(c, Chain[i])
         /\ DOMAIN Chain = 0 .. Cardinality(CNodes) + 1
<1> DEFINE m == Cardinality(CNodes) + 1
           k == Len(c)
           A == {i \in 0 .. k + 1 : Chain[i] = Place(CDummy, c, i)}
           B == {i \in 0 .. m : Chain[i] = CDummy \/ In(c, Chain[i])}
<1>1. CDummy \notin CNodes /\ Null \notin CNodes \cup {CDummy} /\ IsFiniteSet(CNodes)
  BY NodesAssumption
<1>2. /\ k \in Nat /\ Place(CDummy, c, 0) = CDummy /\ Place(CDummy, c, k + 1) = CDummy
      /\ \A i \in 1 .. k : Place(CDummy, c, i) = c[i] /\ c[i] \in CNodes
      /\ \A i \in 0 .. k + 1 : Place(CDummy, c, i) \in (CNodes \cup {CDummy})
  BY <1>1, PlacesApart
<1>3. /\ Cardinality(CNodes) \in Nat /\ DOMAIN Chain = 0 .. m /\ Chain[0] = CDummy
      /\ \A i \in 1 .. m : Chain[i] = IF Chain[i - 1] = Null THEN Null ELSE list.next[Chain[i - 1]]
  BY ChainIs
<1>4. k <= Cardinality(CNodes)
  <2>1. Cardinality({x \in CNodes : In(c, x)}) = k
    BY DistinctCounts
  <2>2. {x \in CNodes : In(c, x)} \in SUBSET CNodes
    OBVIOUS
  <2>3. Cardinality({x \in CNodes : In(c, x)}) <= Cardinality(CNodes)
    BY <1>1, <2>2, FS_Subset
  <2> QED BY <2>1, <2>3
<1>5. \A i \in 0 .. k : list.next[Place(CDummy, c, i)] = Place(CDummy, c, i + 1)
  BY DEF Circle
<1>6. \A i \in 0 .. k + 1 : i \in A
  <2>1. 0 \in A
    BY <1>2, <1>3
  <2>2. ASSUME NEW i \in 1 .. k + 1, i - 1 \in A PROVE i \in A
    <3>1. i - 1 \in 0 .. k /\ i - 1 \in 0 .. k + 1 /\ i \in 0 .. k + 1 /\ i \in 1 .. m /\ (i - 1) + 1 = i
      BY <1>2, <1>3, <1>4
    <3>2. Chain[i - 1] = Place(CDummy, c, i - 1)
      BY <2>2
    <3>3. Chain[i - 1] # Null
      BY <1>1, <1>2, <3>1, <3>2
    <3>4. list.next[Place(CDummy, c, i - 1)] = Place(CDummy, c, i)
      BY <1>5, <3>1
    <3> HIDE DEF k, m
    <3> QED BY <1>3, <3>1, <3>2, <3>3, <3>4
  <2>3. k + 1 \in Nat
    BY <1>2
  <2> HIDE DEF A, k, m
  <2> QED BY <2>1, <2>2, <2>3, ByInduction
<1>7. \A i \in 0 .. m : i \in B
  <2>1. 0 \in B
    BY <1>3
  <2>2. ASSUME NEW i \in 1 .. m, i - 1 \in B PROVE i \in B
    <3>1. Chain[i - 1] = CDummy \/ In(c, Chain[i - 1])
      BY <2>2
    <3>2. \E j \in 0 .. k : Chain[i - 1] = Place(CDummy, c, j)
      <4>1. CASE Chain[i - 1] = CDummy
        BY <1>2, <4>1
      <4>2. CASE In(c, Chain[i - 1])
        BY <1>2, <4>2 DEF In
      <4> QED BY <3>1, <4>1, <4>2
    <3>3. PICK j \in 0 .. k : Chain[i - 1] = Place(CDummy, c, j)
      BY <3>2
    <3>4. j \in 0 .. k + 1 /\ j + 1 \in 0 .. k + 1
      BY <1>2
    <3>5. Chain[i - 1] # Null
      BY <1>1, <1>2, <3>3, <3>4
    <3>6. Chain[i] = Place(CDummy, c, j + 1)
      <4> HIDE DEF k, m
      <4> QED BY <1>3, <1>5, <3>3, <3>5
    <3>7. Chain[i] = CDummy \/ In(c, Chain[i])
      BY <3>6 DEF Place, In
    <3>8. i \in 0 .. m
      BY <1>3
    <3> QED BY <3>7, <3>8
  <2>3. m \in Nat
    BY <1>3
  <2> HIDE DEF B, k, m
  <2> QED BY <2>1, <2>2, <2>3, ByInduction
<1> QED BY <1>2, <1>3, <1>4, <1>6, <1>7

\* A proper list is no longer than there are keys.
LEMMA ListFits ==
  ASSUME Fits, list \in NodeLinks, NEW c, Proper(c, liveNodes, nodeKey), Circle(CDummy, list, c),
         crew.cap \in Nat
  PROVE  Listed \subseteq liveNodes /\ ~Overfull
<1>1. /\ c \in Seq(CNodes) /\ Distinct(c)
      /\ \A n : In(c, n) => n \in CNodes /\ n \in liveNodes /\ nodeKey[n] \in ClruKeys
      /\ \A n, m : In(c, n) /\ In(c, m) /\ nodeKey[n] = nodeKey[m] => n = m
  BY ProperIs
<1>2. /\ \A i \in 0 .. Cardinality(CNodes) + 1 : Chain[i] = CDummy \/ In(c, Chain[i])
      /\ DOMAIN Chain = 0 .. Cardinality(CNodes) + 1
  BY <1>1, ChainGoes
<1>3. \A n \in Listed : In(c, n)
  BY <1>2 DEF Listed
<1> DEFINE f == [n \in Listed |-> nodeKey[n]]
<1>4. f \in Injection(Listed, ClruKeys)
  <2>1. f \in [Listed -> ClruKeys]
    BY <1>1, <1>3
  <2>2. ASSUME NEW n \in Listed, NEW m \in Listed, f[n] = f[m] PROVE n = m
    <3>1. nodeKey[n] = nodeKey[m]
      BY <2>2
    <3> QED BY <1>1, <1>3, <3>1
  <2> HIDE DEF f
  <2> QED BY <2>1, <2>2, Fun_IsInj
<1>5. IsFiniteSet(ClruKeys) /\ Cardinality(ClruKeys) <= crew.cap
  BY DEF Fits
<1>6. IsFiniteSet(Listed) /\ Cardinality(Listed) <= Cardinality(ClruKeys)
  <2> HIDE DEF f
  <2> QED BY <1>4, <1>5, FS_Injection
<1>7. Cardinality(Listed) \in Nat /\ Cardinality(ClruKeys) \in Nat
  BY <1>5, <1>6, FS_CardinalityType
<1>8. ~(Cardinality(Listed) > crew.cap)
  BY <1>5, <1>6, <1>7
<1>9. ~Overfull
  BY <1>8 DEF Overfull, size
<1> QED BY <1>1, <1>3, <1>9

\* The list is not longer than its capacity, so that nothing is to be evicted.
LEMMA RunEvictKeeps ==
  ASSUME Fits, Working, ~fault, RunEvict, UNCHANGED <<nodeKey, at, call, node, crew, bucketOf>>
  PROVE  Working' /\ ~fault' /\ worker' = "test"
<1>1. worker = "run" /\ task.op = "evict"
  BY DEF RunEvict, Worker
<1>2. list \in NodeLinks /\ crew.cap \in Nat
  BY DEF Working, ClruType, NodeLinks
<1>3. PICK c, d, T :
        /\ Proper(c, liveNodes, nodeKey) /\ Effect(task, c, d) /\ Circle(CDummy, list, c)
        /\ \A m \in liveNodes : In(c, m) \/ list.prev[m] = Null
        /\ Stages(T, tasks, liveNodes, nodeKey) /\ T[0] = d /\ asked = T[Len(tasks)]
  BY <1>1, NextStage
<1>4. d = c
  BY <1>1, <1>3 DEF Effect
<1>5. ~Overfull
  BY <1>2, <1>3, ListFits
<1>6. Worker("run", "test") /\ UNCHANGED <<list, keys, task, liveNodes, tasks, fault, asked>>
  BY <1>5 DEF RunEvict
<1>7. WorkerAlone
  BY <1>6 DEF WorkerAlone
<1>8. Working'
  <2>1. /\ Stages(T, tasks, liveNodes', nodeKey) /\ Circle(CDummy, list', T[0])
        /\ \A m \in liveNodes' : In(T[0], m) \/ list'.prev[m] = Null
        /\ list' \in NodeLinks /\ tasks' = tasks /\ liveNodes' \subseteq liveNodes
        /\ \A m \in liveNodes : m \in liveNodes' \/ Going(m)
    BY <1>2, <1>3, <1>4, <1>6
  <2> QED BY <1>3, <1>6, <1>7, <2>1, DoneKeeps
<1> QED BY <1>6, <1>8 DEF Worker

LEMMA WorkerKeeps ==
  ASSUME Fits, Working, ~fault, WorkerStep \/ SpuriousWakeup,
         UNCHANGED <<nodeKey, at, call, node, crew, bucketOf>>
  PROVE  Working' /\ ~fault' /\ worker' # "joined" /\ (worker' = "done" => stop)
<1>1. CASE WorkerWaits \/ SpuriousWakeup
  <2>1. WorkerAlone
    BY <1>1 DEF WorkerAlone, WorkerWaits, SpuriousWakeup
  <2>2. worker' # "joined" /\ (worker' = "done" => stop)
    BY <1>1 DEF WorkerWaits, SpuriousWakeup, Worker
  <2> QED BY <1>1, <2>1, <2>2, WaitsKeep
<1>2. CASE WorkerTakes
  BY <1>2, TakesKeep DEF WorkerTakes, WorkerAlone, Worker
<1>3. CASE RunFront
  BY <1>3, RunFrontKeeps DEF RunFront, WorkerAlone, Worker
<1>4. CASE RunDrop
  BY <1>4, RunDropKeeps DEF RunDrop, WorkerAlone, Worker
<1>5. CASE RunEvict
  BY <1>5, RunEvictKeeps
<1>6. CASE RunFree
  BY <1>6 DEF RunFree, Worker, Working, ClruType
<1> QED BY <1>1, <1>2, <1>3, <1>4, <1>5, <1>6 DEF WorkerStep

\* What the destructor frees has not been deleted.
LEMMA FreesKeep ==
  ASSUME Fits, Working, FreeList
  PROVE  ~fault'
<1>1. ClruType /\ Ahead
  BY DEF Working
<1>2. PICK S : Stages(S, Pending, liveNodes, nodeKey) /\ Circle(CDummy, list, S[0])
  BY <1>1 DEF Ahead
<1>3. 0 \in 0 .. Len(Pending)
  BY <1>1, PendingIs
<1>4. Proper(S[0], liveNodes, nodeKey)
  BY <1>2, <1>3 DEF Stages
<1>5. Listed \subseteq liveNodes
  BY <1>1, <1>2, <1>4, ListFits DEF ClruType, NodeLinks
<1> QED BY <1>5 DEF FreeList

LEMMA ClruStarts == ClruInit => (Fits => ClruInv)
<1> SUFFICES ASSUME ClruInit PROVE ClruInv
  OBVIOUS
<1>1. /\ crew.calls \in CallSets /\ crew.cap \in Caps /\ bucketOf \in [ClruKeys -> Buckets]
      /\ keys = [k \in ClruKeys |-> Null] /\ nodeKey = [n \in CNodes |-> Null]
      /\ liveNodes = {} /\ fault = FALSE /\ tasks = << >> /\ worker = "test" /\ stop = FALSE
      /\ at = [p \in Callers |-> "idle"] /\ call = [p \in Callers |-> << >>]
      /\ node = [p \in Callers |-> Null] /\ asked = << >>
  BY DEF ClruInit
<1>2. list \in NodeLinks /\ list.prev[CDummy] = CDummy /\ list.next[CDummy] = CDummy
  BY DEF ClruInit, NodeLinks, Links
<1>3. Pending = << >> /\ Len(<< >>) = 0 /\ << >> \in Seq(CNodes) /\ << >> \in Seq(Task)
  BY <1>1 DEF Pending
<1>4. ClruType
  BY <1>1, <1>2, <1>3, CrewsAssumption, CallsAssumption DEF ClruType, NodeLinks
<1>5. CallersAt
  BY <1>1 DEF CallersAt, CallerAt
<1>6. EntriesAre
  BY <1>1, <1>3 DEF EntriesAre, In
<1>7. Ahead
  <2> DEFINE S == [i \in 0 .. 0 |-> << >>]
  <2>1. S[0] = << >>
    OBVIOUS
  <2>2. Proper(<< >>, liveNodes, nodeKey)
    BY <1>3 DEF Proper
  <2>3. \A i \in 0 .. 0 : i = 0
    OBVIOUS
  <2> HIDE DEF S
  <2>4. Stages(S, Pending, liveNodes, nodeKey)
    BY <1>3, <2>1, <2>2, <2>3 DEF Stages
  <2>5. Circle(CDummy, list, << >>)
    BY <1>2, <1>3 DEF Circle, Place
  <2>6. asked = S[Len(Pending)]
    BY <1>1, <1>3, <2>1
  <2> QED BY <1>1, <2>1, <2>4, <2>5, <2>6 DEF Ahead
<1> QED BY <1>1, <1>4, <1>5, <1>6, <1>7 DEF ClruInv, Working

LEMMA CallerMoves ==
  ASSUME NEW p \in Callers, CallerStep(p)
  PROVE  at[p] # "idle" /\ (worker' = worker \/ worker' = "lock")
<1>1. at[p] # "idle"
  BY DEF CallerStep, Lookup, NotThere, SetNew, Async, Read, Shrink, Erase, ClearKeys, ClearList, Go
<1>2. worker' = worker \/ worker' = "lock"
  BY DEF CallerStep, Lookup, NotThere, SetNew, Async, Read, Shrink, Erase, ClearKeys, ClearList, Leave
<1> QED BY <1>1, <1>2, SMTT(30)

LEMMA ClruKept == (Fits => ClruInv) /\ [ClruNext]_clruVars => (Fits => ClruInv)'
<1> SUFFICES ASSUME Fits => ClruInv, [ClruNext]_clruVars, Fits' PROVE ClruInv'
  OBVIOUS
<1>1. Fits
  <2>1. crew' = crew
    BY DEF ClruNext, clruVars
  <2> QED BY <2>1 DEF Fits
<1>2. /\ ~fault /\ (worker \in {"done", "joined"} => stop)
      /\ (stop => \A p \in Callers : at[p] = "idle") /\ (worker # "joined" => Working)
  BY <1>1 DEF ClruInv
<1>3. CASE UNCHANGED clruVars
  <2>1. /\ UNCHANGED <<crew, bucketOf, keys, nodeKey, list, liveNodes, tasks, worker, task, stop>>
        /\ UNCHANGED <<at, call, node, calls, fault, asked>>
    BY <1>3 DEF clruVars, callers
  <2>2. Working => Working'
    <3> SUFFICES ASSUME Working PROVE Working'
      OBVIOUS
    <3>1. Pending' = Pending /\ WorkerAlone
      BY <2>1 DEF Pending, WorkerAlone
    <3>2. /\ tasks' \in Seq(Task) /\ (worker' = "run" => task' \in Task)
          /\ worker' \in {"test", "lock", "toWait", "wait", "run", "done", "joined"}
      BY <2>1 DEF Working, ClruType
    <3> QED BY <2>1, <3>1, <3>2, PendingStill
  <2> QED BY <1>2, <2>1, <2>2 DEF ClruInv
<1>4. ASSUME NEW p \in Callers, Begin(p), UNCHANGED <<task, stop, crew, bucketOf>> PROVE ClruInv'
  <2>1. ~stop /\ worker' = worker
    BY <1>4 DEF Begin
  <2>2. Working' /\ ~fault'
    BY <1>1, <1>2, <1>4, <2>1, BeginKeeps
  <2> QED BY <1>2, <1>4, <2>1, <2>2 DEF ClruInv
<1>5. ASSUME NEW p \in Callers, CallerStep(p), UNCHANGED <<call, calls, task, stop, crew, bucketOf>>
      PROVE  ClruInv'
  <2>1. ~stop /\ (worker' = worker \/ worker' = "lock")
    BY <1>2, <1>5, CallerMoves
  <2>2. Working' /\ ~fault'
    BY <1>1, <1>2, <1>5, <2>1, CallersKeep DEF CallStands
  <2> QED BY <1>2, <1>5, <2>1, <2>2 DEF ClruInv
<1>6. ASSUME WorkerStep \/ SpuriousWakeup, UNCHANGED <<nodeKey, stop, callers, crew, bucketOf>>
      PROVE  ClruInv'
  <2>1. worker # "joined"
    BY <1>6 DEF WorkerStep, SpuriousWakeup, WorkerWaits, WorkerTakes, RunFront, RunDrop, RunEvict,
                RunFree, Worker
  <2>2. Working' /\ ~fault' /\ worker' # "joined" /\ (worker' = "done" => stop)
    BY <1>1, <1>2, <1>6, <2>1, WorkerKeeps DEF callers
  <2> QED BY <1>2, <1>6, <2>2 DEF ClruInv, callers
<1>7. ASSUME Destroy, UNCHANGED <<nodeKey, tasks, task, callers, asked, crew, bucketOf>> PROVE ClruInv'
  <2>1. /\ \A p \in Callers : at'[p] = "idle"
        /\ ~stop /\ stop' /\ UNCHANGED <<keys, list, liveNodes, fault>>
        /\ (worker' = worker \/ (worker = "wait" /\ worker' = "lock"))
    BY <1>7 DEF Destroy, callers
  <2>2. Working
    BY <1>2, <2>1
  <2>3. Pending' = Pending /\ WorkerAlone
    BY <1>7, <2>1 DEF Pending, WorkerAlone, callers
  <2>4. /\ tasks' \in Seq(Task) /\ (worker' = "run" => task' \in Task)
        /\ worker' \in {"test", "lock", "toWait", "wait", "run", "done", "joined"}
    BY <1>7, <2>1, <2>2 DEF Working, ClruType
  <2>5. Working'
    BY <2>1, <2>2, <2>3, <2>4, PendingStill
  <2> QED BY <1>2, <2>1, <2>5 DEF ClruInv
<1>8. ASSUME FreeList, UNCHANGED <<nodeKey, tasks, task, callers, asked, crew, bucketOf>> PROVE ClruInv'
  <2>1. worker = "done" /\ worker' = "joined" /\ stop' = stop
    BY <1>8 DEF FreeList, Worker
  <2>2. ~fault'
    BY <1>1, <1>2, <1>8, <2>1, FreesKeep
  <2> QED BY <1>2, <1>8, <2>1, <2>2 DEF ClruInv, callers
<1> QED BY <1>3, <1>4, <1>5, <1>6, <1>7, <1>8 DEF ClruNext

\* When there is nothing left to do, the list as it is is what has been asked for.
LEMMA ClruFollows == (Fits => ClruInv) => FollowsTheCalls
<1> SUFFICES ASSUME Fits, ClruInv PROVE FollowsTheCalls
  BY DEF FollowsTheCalls
<1> SUFFICES ASSUME CaughtUp
             PROVE  LET n == Len(asked)
                    IN  /\ {asked[i] : i \in 1 .. n} = {keys[k] : k \in ClruKeys} \ {Null}
                        /\ \A i \in 1 .. n : Chain[i] = asked[i] /\ list.prev[Chain[i]] = Chain[i - 1]
                        /\ Chain[n + 1] = CDummy /\ list.prev[CDummy] = Chain[n]
  BY DEF FollowsTheCalls, ClruInv
<1> DEFINE n == Len(asked)
<1>1. tasks = << >> /\ worker # "run" /\ worker # "joined" /\ \A p \in Callers : at[p] = "idle"
  BY DEF CaughtUp
<1>2. ClruType /\ EntriesAre /\ Ahead
  BY <1>1 DEF ClruInv, Working
<1>3. Pending = << >> /\ Len(<< >>) = 0
  BY <1>1 DEF Pending
<1>4. Circle(CDummy, list, asked)
  <2>1. PICK S : Circle(CDummy, list, S[0]) /\ asked = S[Len(Pending)]
    BY <1>2 DEF Ahead
  <2> QED BY <1>3, <2>1
<1>5. /\ asked \in Seq(CNodes) /\ Distinct(asked)
      /\ \A m : In(asked, m) => m \in CNodes /\ nodeKey[m] \in ClruKeys
  BY <1>2, AskedIs, ProperIs
<1>6. list \in NodeLinks /\ keys \in [ClruKeys -> CNodes \cup {Null}] /\ Null \notin CNodes
      /\ CDummy \notin CNodes
  BY <1>2, NodesAssumption DEF ClruType, NodeLinks
<1>7. {asked[i] : i \in 1 .. n} = {keys[k] : k \in ClruKeys} \ {Null}
  <2>1. ASSUME NEW i \in 1 .. n PROVE \E k \in ClruKeys : asked[i] = keys[k] /\ keys[k] # Null
    <3>1. In(asked, asked[i])
      BY DEF In
    <3>2. asked[i] \in CNodes /\ nodeKey[asked[i]] \in ClruKeys /\ keys[nodeKey[asked[i]]] = asked[i]
      BY <1>2, <1>5, <3>1 DEF EntriesAre
    <3> QED BY <1>6, <3>2
  <2>2. ASSUME NEW k \in ClruKeys, keys[k] # Null PROVE \E i \in 1 .. n : asked[i] = keys[k]
    <3>1. ~Gone(k) /\ ~Coming(k)
      BY <1>1 DEF Gone, Coming
    <3>2. In(asked, keys[k])
      BY <1>2, <2>2, <3>1 DEF EntriesAre
    <3> QED BY <3>2 DEF In
  <2> HIDE DEF n
  <2> QED BY <2>1, <2>2
<1>8. /\ n \in Nat /\ \A i \in 0 .. n + 1 : Chain[i] = Place(CDummy, asked, i)
  BY <1>4, <1>5, <1>6, ChainGoes
<1>9. /\ Place(CDummy, asked, n + 1) = CDummy
      /\ \A i \in 1 .. n : Place(CDummy, asked, i) = asked[i]
  BY <1>5, <1>6, PlacesApart
<1>10. \A i \in 0 .. n : list.prev[Place(CDummy, asked, i + 1)] = Place(CDummy, asked, i)
  BY <1>4 DEF Circle
<1> HIDE DEF n
<1>11. ASSUME NEW i \in 1 .. n PROVE Chain[i] = asked[i] /\ list.prev[Chain[i]] = Chain[i - 1]
  <2>1. i \in 0 .. n + 1 /\ i - 1 \in 0 .. n + 1 /\ i - 1 \in 0 .. n /\ (i - 1) + 1 = i
    BY <1>8
  <2>2. list.prev[Place(CDummy, asked, (i - 1) + 1)] = Place(CDummy, asked, i - 1)
    BY <1>10, <2>1
  <2> QED BY <1>8, <1>9, <2>1, <2>2
<1>12. Chain[n + 1] = CDummy /\ list.prev[CDummy] = Chain[n]
  <2>1. n \in 0 .. n /\ n \in 0 .. n + 1 /\ n + 1 \in 0 .. n + 1
    BY <1>8
  <2> QED BY <1>8, <1>9, <1>10, <2>1
<1> QED BY <1>7, <1>11, <1>12 DEF n
-----------------------------------------------------------------------------
\* The three caches beside the other containers.
THEOREM CachesForget == Spec => CachesDriveOutTheRightKey
<1>1. Init => DnsInit /\ LruInit /\ LfuInit
  BY DEF Init
<1>2. [Next]_vars => [DnsNext]_dnsVars /\ [LruNext]_lruVars /\ [LfuNext]_lfuVars
  BY DEF Next, RingPart, LruPart, LfuPart, DnsPart, ClruPart, TablePart, SkipPart, ArenaPart,
         StringPart, vars, cacheVars
<1>3. Spec => DnsInit /\ [][DnsNext]_dnsVars
  BY <1>1, <1>2, PTL DEF Spec
<1>4. Spec => LruInit /\ [][LruNext]_lruVars
  BY <1>1, <1>2, PTL DEF Spec
<1>5. Spec => LfuInit /\ [][LfuNext]_lfuVars
  BY <1>1, <1>2, PTL DEF Spec
<1> QED BY <1>3, <1>4, <1>5, ResolverCaches, LruForgetsTheOldest, LfuForgetsTheLeastUsed
           DEF CachesDriveOutTheRightKey

\* A thread of the resolver that queries a name has found it expired under the lock: no other
\* has just resolved it.
THEOREM ResolverAsksWhenItMust == DnsInit /\ [][DnsNext]_dnsVars => []NoNeedlessQuery
BY DnsStarts, DnsKept, DnsQueries, PTL

\* The resolver, the table, the skip list, the arena and the strings beside the caches.
THEOREM CollectionsKeep == Spec => []ContainersKeep
<1>1. Init => DnsInit /\ TableInit /\ SkipInit /\ ArenaInit /\ StringInit
  BY DEF Init
<1>2. [Next]_vars => /\ [DnsNext]_dnsVars /\ [TableNext]_tableVars /\ [SkipNext]_skipVars
                     /\ [ArenaNext]_arenaVars /\ [StringNext]_stringVars
  BY DEF Next, RingPart, LruPart, LfuPart, DnsPart, ClruPart, TablePart, SkipPart, ArenaPart,
         StringPart, vars, cacheVars, collectionVars
<1>3. Spec => /\ DnsInit /\ [][DnsNext]_dnsVars /\ TableInit /\ [][TableNext]_tableVars
              /\ SkipInit /\ [][SkipNext]_skipVars /\ ArenaInit /\ [][ArenaNext]_arenaVars
              /\ StringInit /\ [][StringNext]_stringVars
  BY <1>1, <1>2, PTL DEF Spec
<1>4. NoNeedlessQuery /\ TableMaps /\ SkipHolds /\ ArenaApart /\ StringsHold => ContainersKeep
  BY DEF ContainersKeep
<1> QED BY <1>3, <1>4, ResolverAsksWhenItMust, TableIsAMap, SkipListHolds,
           ArenaKeepsPiecesApart, StringsHoldTheirTexts, PTL

\* The growing ring beside the other containers.
THEOREM RingAmongOthers == Spec => ImplementsFifo
<1>1. Init => RingInit
  BY DEF Init
<1>2. [Next]_vars => [RingNext]_ringVars
  BY DEF Next, RingPart, LruPart, LfuPart, DnsPart, ClruPart, TablePart, SkipPart, ArenaPart,
         StringPart, vars
<1>3. Init /\ [][Next]_vars => Ring!Init /\ [][Ring!Next]_Elements /\ []ReadsAgree
  BY <1>1, <1>2, RingStarts, RingSteps, RingReads, PTL
<1> QED BY <1>3 DEF Spec, ImplementsFifo, Ring!Spec

\* Where no more keys are used than the cache has room for, nobody clears it and deletes only
\* a thread that calls it alone, no deleted node is touched, and a worker that has caught up
\* has left the list in the order of the calls.
THEOREM CacheFollowsTheCalls == Spec => []FollowsTheCalls
<1>1. Init => ClruInit
  BY DEF Init
<1>2. [Next]_vars => [ClruNext]_clruVars
  BY DEF Next, RingPart, LruPart, LfuPart, DnsPart, ClruPart, TablePart, SkipPart, ArenaPart,
         StringPart, vars, cacheVars
<1>3. Spec => ClruInit /\ [][ClruNext]_clruVars
  BY <1>1, <1>2, PTL DEF Spec
<1>4. ClruInit /\ [][ClruNext]_clruVars => [](Fits => ClruInv)
  BY ClruStarts, ClruKept, PTL
<1> QED BY <1>3, <1>4, ClruFollows, PTL
=============================================================================
