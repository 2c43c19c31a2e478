---------------------------- MODULE MCContainers ----------------------------
(***************************************************************************)
(* The containers and the caches for TLC, side by side: a behaviour is one *)
(* of part, the others stay as they were made.                             *)
(***************************************************************************)
EXTENDS GrowingRing, LRUCache, LFUCache, CLRUCache, DNSResolver, Collections

CONSTANT Parts

VARIABLE part

cacheVars == <<lruVars, lfuVars, clruVars, dnsVars>>
collectionVars == <<tableVars, skipVars, arenaVars, stringVars>>

vars == <<part, ringVars, cacheVars, collectionVars>>

\* Two threads that get and put beside the worker, or one that makes all the calls.
Loads == {w \in [callers : Crews, calls : CallSets, cap : Caps] :
           /\ w.calls # {}
           /\ Cardinality(w.callers) = 2 => w.cap = Max(Caps) /\ "get" \in w.calls
           /\ Cardinality(w.callers) = 2 => "del" \notin w.calls}

\* What the constructors are given matters only to the part that runs.
Init == /\ part \in Parts
        /\ RingInit /\ (part # "ring" => Size = Min(InitialCells))
        /\ LruInit /\ (part # "lru" => capacity = Min(Capacities) /\ ttl = Never)
        /\ LfuInit /\ (part # "lfu" => lfuCapacity = Min(LfuCapacities))
        /\ DnsInit /\ (part # "dns" => dnsSize = Min(DnsSizes))
        /\ ClruInit /\ IF part = "clru" THEN crew \in Loads
                       ELSE /\ crew.callers = {} /\ crew.calls = {} /\ crew.cap = Min(Caps)
                            /\ bucketOf = CHOOSE b \in [ClruKeys -> Buckets] : TRUE
        /\ TableInit /\ (part # "table" => /\ hasher = [k \in TableKeys |-> Min(Hashes)]
                                          /\ Count(buckets) = Min(FirstBuckets))
        /\ SkipInit /\ ArenaInit /\ StringInit

RingPart == /\ part = "ring" /\ RingNext
            /\ UNCHANGED <<part, cacheVars, collectionVars>>
LruPart == /\ part = "lru" /\ LruNext
           /\ UNCHANGED <<part, ringVars, lfuVars, clruVars, dnsVars, collectionVars>>
LfuPart == /\ part = "lfu" /\ LfuNext
           /\ UNCHANGED <<part, ringVars, lruVars, clruVars, dnsVars, collectionVars>>
DnsPart == /\ part = "dns" /\ DnsNext
           /\ UNCHANGED <<part, ringVars, lruVars, lfuVars, clruVars, collectionVars>>
ClruPart(A) == /\ part = "clru" /\ A
               /\ UNCHANGED <<part, ringVars, lruVars, lfuVars, dnsVars, collectionVars>>
TablePart == /\ part = "table" /\ TableNext
             /\ UNCHANGED <<part, ringVars, cacheVars, skipVars, arenaVars, stringVars>>
SkipPart == /\ part = "skip" /\ SkipNext
            /\ UNCHANGED <<part, ringVars, cacheVars, tableVars, arenaVars, stringVars>>
ArenaPart == /\ part = "arena" /\ ArenaNext
             /\ UNCHANGED <<part, ringVars, cacheVars, tableVars, skipVars, stringVars>>
StringPart == /\ part = "string" /\ StringNext
              /\ UNCHANGED <<part, ringVars, cacheVars, tableVars, skipVars, arenaVars>>

Next == \/ RingPart \/ LruPart \/ LfuPart \/ DnsPart \/ ClruPart(ClruNext)
        \/ TablePart \/ SkipPart \/ ArenaPart \/ StringPart

\* The worker and the callers run, and get the mutexes they wait for.
Fairness == /\ WF_vars(ClruPart(ClruNext /\ WorkerStep))
            /\ \A p \in Callers : WF_vars(ClruPart(ClruNext /\ CallerStep(p)))

Spec == Init /\ [][Next]_vars /\ Fairness
-----------------------------------------------------------------------------
(* Properties *)

Lru == INSTANCE EvictingCache WITH
         ByFrequency <- FALSE, Renews <- TRUE,
         entries <- LruEntries, answer <- lruAnswer, time <- lruTime

Lfu == INSTANCE EvictingCache WITH
         CacheKeys <- LfuKeys, CacheValues <- LfuValues, NotFound <- LfuNone,
         ByFrequency <- TRUE, Renews <- TRUE, capacity <- lfuCapacity, ttl <- Never,
         entries <- LfuEntries, answer <- lfuAnswer, time <- 0

Dns == INSTANCE EvictingCache WITH
         CacheKeys <- Domains, CacheValues <- Addresses, NotFound <- Unresolved,
         ByFrequency <- FALSE, Renews <- FALSE, capacity <- dnsSize, ttl <- DnsTtl,
         entries <- DnsEntries, answer <- dnsAnswer, time <- dnsTime

\* get returns the value last put for a key that has not been driven out and has not
\* expired, and the key that is driven out is the one the cache is named for, through
\* whatever sequence of calls the lists have come about; so does the DNS cache, whose
\* threads race to fill it.
CachesDriveOutTheRightKey == Lru!Spec /\ Lfu!Spec /\ Dns!Spec

\* Each of the data structures is what the calls made it, and no thread queries a name
\* that another has just resolved.
ContainersKeep == /\ part = "dns" => NoNeedlessQuery
                  /\ part = "table" => TableMaps
                  /\ part = "skip" => SkipHolds
                  /\ part = "arena" => ArenaApart
                  /\ part = "string" => StringsHold
=============================================================================
