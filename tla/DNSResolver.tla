---------------------------- MODULE DNSResolver ----------------------------
(***************************************************************************)
(* webcrawler/dns_resolver.py: the LRU cache with a time to live, and      *)
(* resolve, which looks a domain up in it before and after it takes        *)
(* _resolve_lock.  A method of the cache holds the cache's own lock.       *)
(***************************************************************************)
EXTENDS Integers, SequencesExt

CONSTANTS Resolvers,    \* the threads that resolve
          Domains, Addresses,
          Unresolved,   \* None
          DnsSizes,     \* what _max_size may be
          DnsTtl,       \* in ticks
          DnsEnd        \* bound: the time at which a behaviour stops

ASSUME DnsAssumption == DnsSizes \subseteq Nat \ {0} /\ DnsTtl \in Nat
ASSUME UnresolvedAssumption == Unresolved \notin Domains \cup Addresses \cup Resolvers

VARIABLES dnsSize,
          dnsCache,     \* the OrderedDict: [domain, ip, stamp], the oldest first
          dnsAnswer,    \* what the last get of the cache returned
          dnsTime,
          resolving,    \* who holds _resolve_lock
          dnsPc, wanted  \* where each resolve is, and its domain

dnsVars == <<dnsSize, dnsCache, dnsAnswer, dnsTime, resolving, dnsPc, wanted>>

DnsInit == /\ dnsSize \in DnsSizes /\ dnsCache = << >> /\ dnsAnswer = Unresolved
           /\ dnsTime = 0 /\ resolving = Unresolved
           /\ dnsPc = [p \in Resolvers |-> "idle"]
           /\ wanted = [p \in Resolvers |-> Unresolved]
-----------------------------------------------------------------------------
(* DNSCache *)

Live(d) == {e \in Range(dnsCache) : e.domain = d /\ dnsTime - e.stamp <= DnsTtl}

\* A dictionary holds a domain once.
ButFor(d) == RemoveFirstMatch(dnsCache, LAMBDA e : e.domain = d)

\* Mutant: no move_to_end, so that the cache is first in, first out.
HitStays(d) == \E e \in Live(d) : dnsAnswer' = e.ip /\ UNCHANGED dnsCache

CacheHit(d) == \E e \in Live(d) : /\ dnsAnswer' = e.ip
                                 /\ dnsCache' = Append(ButFor(d), e)

CacheMiss(d) == /\ Live(d) = {}
                /\ dnsAnswer' = Unresolved /\ dnsCache' = ButFor(d)

CacheSet(d, ip) ==
  LET s == Append(ButFor(d), [domain |-> d, ip |-> ip, stamp |-> dnsTime])
  IN  dnsCache' = IF Len(s) > dnsSize THEN SubSeq(s, Len(s) - dnsSize + 1, Len(s)) ELSE s
-----------------------------------------------------------------------------
(* resolve *)

DnsGoes(p, from, to) == dnsPc[p] = from /\ dnsPc' = [dnsPc EXCEPT ![p] = to]

FindFirst(p, d) == /\ dnsPc[p] = "idle" /\ CacheHit(d)
                   /\ UNCHANGED <<resolving, dnsPc, wanted>>

MissFirst(p, d) == /\ DnsGoes(p, "idle", "lock") /\ CacheMiss(d)
                   /\ wanted' = [wanted EXCEPT ![p] = d]
                   /\ UNCHANGED resolving

DnsReturns(p) == /\ wanted' = [wanted EXCEPT ![p] = Unresolved]
                 /\ resolving' = Unresolved

\* The second look, with the lock: another thread may have resolved the domain.
FindAgain(p) == /\ DnsGoes(p, "lock", "idle")
                /\ resolving = Unresolved /\ CacheHit(wanted[p])
                /\ DnsReturns(p)

\* Mutant: the second look is left out.
MissUnseen(p) == /\ DnsGoes(p, "lock", "query")
                 /\ resolving = Unresolved /\ resolving' = p
                 /\ UNCHANGED <<dnsCache, dnsAnswer, wanted>>

MissAgain(p) == /\ DnsGoes(p, "lock", "query")
                /\ resolving = Unresolved /\ resolving' = p
                /\ CacheMiss(wanted[p])
                /\ UNCHANGED wanted

\* gethostbyname returns, or raises.
Resolved(p) == /\ DnsGoes(p, "query", "idle")
               /\ \E ip \in Addresses : CacheSet(wanted[p], ip)
               /\ DnsReturns(p) /\ UNCHANGED dnsAnswer

ResolveFails(p) == /\ DnsGoes(p, "query", "idle") /\ DnsReturns(p)
                   /\ UNCHANGED <<dnsCache, dnsAnswer>>

DnsTick == /\ dnsTime < DnsEnd /\ dnsTime' = dnsTime + 1
           /\ UNCHANGED <<dnsCache, dnsAnswer, resolving, dnsPc, wanted>>

DnsNext ==
  /\ \/ DnsTick
     \/ /\ \E p \in Resolvers : \/ \E d \in Domains : FindFirst(p, d) \/ MissFirst(p, d)
                                \/ FindAgain(p) \/ MissAgain(p)
                                \/ Resolved(p) \/ ResolveFails(p)
        /\ UNCHANGED dnsTime
  /\ UNCHANGED dnsSize
-----------------------------------------------------------------------------
(* Properties *)

\* "Double check" (line 141): a thread that queries the name server for a domain does
\* so for want of an entry that is still good, whatever the others have done since
\* it first looked.
NoNeedlessQuery == \A p \in Resolvers : dnsPc[p] = "query" => Live(wanted[p]) = {}

\* The cache as EvictingCache has it, the most recently used first.
DnsEntries == Reverse([i \in DOMAIN dnsCache |->
                        [key |-> dnsCache[i].domain, val |-> dnsCache[i].ip,
                         freq |-> 0, stamp |-> dnsCache[i].stamp]])
=============================================================================
