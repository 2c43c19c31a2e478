# Verification of Algorithm-Structure

This directory holds TLA+ models of the repository: first of what several threads,
goroutines or nodes use at once (a lock-free ring buffer, two thread-safe queues,
singleflight, an asynchronous LRU cache, shared pointers, singletons, five rate
limiters, the tables of two distributed hash tables, a URL shortener, a web crawler
with its DNS resolver and extensions, and four programs whose threads take turns), then
of the sequential containers with intricate links, and of the algorithms and hash
functions as operators that are compared with reference definitions. TLC checks all of
them on small instances; TLAPS proves the most important facts for every value of the
constants. A module names in its heading the file it models, and PROJECT.json ("map")
the lines of every definition.

Run the tools in this directory:

    tlc -workers 2 -config LockFreeRing.cfg LockFreeRing.tla
    tlapm LockFreeRing_proofs.tla

## 1. The repository

The repository is a collection: no program links its parts together, so each is a
component with callers of its own. What a component meets at its boundary is its
callers' threads, the clock, the Go, C++ or Python scheduler, the allocator.

| Component | State | Operations | What is hard about it | What makes it correct |
|---|---|---|---|---|
| Buffer/ringbuffer_lockfree.go | head, tail, a sequence number and a value per slot | Push, Pop, TryPush, TryPop, Discard, Len, Empty, Full, ForEach, ForEachReverse, Reset | every access is a separate atomic; the value itself is not atomic; stale positions, ABA | one FIFO queue; a slot has one owner; nothing lost; failures are true |
| Buffer/ringbuffer.go | buffer, head, tail | Push (which grows), Pop, Peek, Discard, Len, Full, Empty, ForEach, ForEachReverse | growing while wrapped, iterating across the wrap | FIFO; iterations agree with it; free cells are zeroed |
| Queue/ThreadSafeQueueWithAtomic.cc | a linked list with a dummy node, size | push, pop, try_pop, empty, get_size | nodes are deleted while others hold pointers to them; spurious CAS failures; size lags | FIFO, no access to a deleted node, no leak, for the uses its test covers |
| Queue/ThreadSafeQueueWithMutex.cc | a std::queue, a mutex, a condition variable | push, pop, empty | lost and spurious wakeups | items once and in order; joins return |
| singleflight/singleflight.go | map of calls in flight | Do | the mutex is released around fn; panics | one fn per key; every caller gets a finished result; the map is cleaned |
| Rate Limiter/* (five) | counters, logs, slots, tokens, a channel | Allow, AllowN, Wait, WaitN, Push, Start, Close, Reset | two clock readings, clocks set back, truncated durations, a Close racing ticks and pushes | the limit they promise, over the window they promise it for; callers get on |
| multithread/*, Go/multithread/* | a turn flag, a number or two channels | run of two threads | wakeups, spinning, the end of the run | the output alternates and the program ends |
| Smart Pointers/SharedPointer/ThreadSafeSharedPtr.cpp | a count on the heap, shared by pointers | constructors, both assignments, destructor, RefCount, Release | the count is changed apart from the pointers | the object is deleted once, after its last pointer |
| Singleton/*.cc | the instance, a flag or a mutex | getInstance, destroyInstance | the first call by several threads | one instance, seen whole by all |
| LRU/CLRUCache.cpp | buckets, a list of nodes, a queue of tasks | get, put, del, clear, the destructor | the caller uses a node outside the lock it found it under; the list follows the map by tasks of a worker; sleeping and stopping | no deleted node is touched; the list comes to follow the calls; the worker never sleeps on a task |
| LRU/LRU.cpp, LRU with TTL.cpp, LFU/LFU.cpp | a map, intrusive lists, timestamps, min_freq | get, put | two structures updated apart over long runs of calls | the last value put; the right key is driven out |
| Hash/HashTable.cc, SkipList/, Arena/, String/string.cc | buckets; levels of links; blocks; a buffer with a terminator | put, get, remove; insert, erase, search; Allocate, AllocateAligned; assign, append, move | rehashing, levels, alignment, capacities over long runs of calls | a map; a sorted set; ranges that never overlap; a string |
| DHT/Chord | finger tables, predecessors | NewNode, FindSuccessor, Stabilize, Notify, FixFingers | intervals on a circle; joins whose traces are repaired later | one ring; tables that come to be right |
| DHT/Kad | buckets by length of shared prefix | AddNode, FindClosestNodes | full buckets refuse nodes | a lookup gets nearer to its target |
| URLShortener/shortener.go | two maps | Shorten, Resolve, Stats, the storage's methods | check and save are separate critical sections; colliding hashes; retries | an answer resolves to its URL for ever |
| webcrawler/ crawler.py, frontier.py, dedup.py | the frontier's heap, the URLs and contents seen, the pool's jobs, the history | crawl, _crawl_page, stop; the frontier's add and get; check_and_mark | many workers on one frontier; check and mark apart; when to stop; timeouts | a content is stored once; nothing that was found is missed; the crawl ends |
| webcrawler/dns_resolver.py | a cache with a time to live, a lock | resolve; the cache's get and set | looked up before and after the lock | the least recently used goes; no query for what the cache has |
| webcrawler/extensions/ | the manager's queue and workers; the monitor's cache, status file and history | process, process_async, stop; the monitor's process, _load_history, _save_status | a write of a file cut short; a join on a queue; two threads on one file | what was saved is there after a restart; join waits for all that was put |
| Sort/, Binary Search/, Permutation/, Greedy/, Reservoir Sampling/, ... | an array | one function each | boundaries, equal elements, the loop's end | what a sort, a search, a sample is |
| GCD/, Prime/, Combination/, Bit Manipulation/, NQueens/, Interview/, Constructive Algorithm/ | numbers | one function each | overflow, remainders of negative numbers, pruning | the number that is meant |
| String/, Palindrome/, LCS/, Trie/, Hash/ | strings | one function each | borders, windows, hashes | what a search in all places gives |
| Graph/, BFS/, DP/, DSU/, Tree/, ConvexHull/ | a graph, a tree, points | one function each | orders of relaxation, path compression, unlinking a node | the paths, components, orders that there are |
| BloomFilter/ | a bit array | add, contains; build, KeyMayMatch | one hash per probe, signed characters | no key that was added is denied |
| BloomFilter/smhasher | | hash functions, blocks of bits, tests of hash functions | tails of keys, alignment, keys in pieces | the verification values of its own main.cpp |

Section 6 says what is not modelled.

## 2. The modules

A base module per component holds its variables, one action per method or per
atomic step of one, and its properties; modules of algorithms hold an operator per
function and, next to it, the definition it is compared with. `MC...` modules compose
components for TLC: a behaviour picks one (`part`, `program`, `family`) and the others
stay in their initial state. `..._proofs` modules hold the theorems about the components
they are named for (LockFreeRing, LinkedQueue) or about those of one `MC...` module
(Threads, Network, Containers, Services), of which Collections_proofs has the growing ring,
the hash table, the skip list, the arena and the string.

| Module | Models | How state and actions correspond to the code |
|---|---|---|
| LockFreeRing | Buffer/ringbuffer_lockfree.go | `head`, `tail`, `sequence`, `value` are the buffer's fields; `pc`, `pos`, `val`, `todo` a goroutine's place and locals. Push is CallPush, PushLoad (line 99), PushSeesFree / PushFull / PushYield (the comparison at 103-127), PushClaim / PushRetry (the CAS), PushWrite (the plain store), PushPublish; Pop and Discard likewise; Len is two loads. Reset is for a quiet buffer, as its comment says. |
| LockFreeRingIter | ForEach, ForEachReverse of the same file | Watchers load the two positions and visit slot after slot without atomics, beside the steps of LockFreeRing. The index is a number below `Word` and wraps, as a uint64 does; a reverse iteration that starts from a head of 0 when tail has moved is a place of its own, `revWrapped`. |
| BoundedQueue | (abstract) | A FIFO of at most Capacity values that takes effect at one instant between call and return. LockFreeRing implements it under the refinement `Abs`; LinkedQueue does too. |
| LinkedQueue | Queue/ThreadSafeQueueWithAtomic.cc | `head`, `tail`, `size` are the atomics, `next` and `data` the fields of the nodes; `live` are the allocated addresses. Each load, CAS and fetch_add is a step. A node that is deleted can be allocated again. An access to a deleted node sets `fault`, and nothing follows it: behaviour is undefined from there on. |
| MutexQueue | Queue/ThreadSafeQueueWithMutex.cc | What a call does under the mutex is a step; a waiting popper sits in the condition variable and may wake spuriously. |
| SingleFlight | singleflight/singleflight.go | `calls` are the call objects ever made, `m` the map. The steps are the sections under g.mu, fn (which may return or panic), wg.Done and the return from wg.Wait. |
| AlternatingPrint | multithread/*.cc, Go/multithread/method1, method2 | The four programs, each in the steps between its waits; two have the same structure and share the actions. Abstractly, `InTurn`: the output is 1 to MaxNumber, each number by the thread of its parity. |
| SharedPointer | ThreadSafeSharedPtr.cpp | A pointer is being used by one thread at a time; `count` is the counter on the heap; fetch_add and fetch_sub are steps apart from the pointer's own assignment. |
| Singletons | Singleton/*.cc | Eager, lazy with a mutex, Meyers' static, call_once; each test of the instance, each lock and the construction is a step. |
| Clock | time.Now | The true time; each limiter says how long it goes on. |
| FixedWindowCounter | Rate Limiter/Fixed Window Counter/code.go | Allow reads the clock twice (Now, then Since): the second reading may be later. |
| SlidingWindowLog | Rate Limiter/Sliding Window Log/code.go | The log holds UnixNano, which may be set back (`SetBack`); sort.Search on a log that is then unsorted is any end its binary search can come to. |
| SlidingWindowCounter | Rate Limiter/Sliding Window Counter/code.go | Slots by `nowNano \div SlotDuration`, the duration truncated as in the constructor. `nowNano` is the wall clock, which goes with the true time `now` or is set back (`SlotsClockSetBack`), though not to before 1970, where Go's % would give a negative index. |
| TokenBucket | Rate Limiter/Token Bucket/code.go | Allow takes the time before it gets the mutex, so it may be late when used. WaitN takes it under the mutex and tests the deadline by it (`WaitTimesOut`, `WaitOwes`); it arms its timer after the Unlock (`ArmTimer`, line 105) and sleeps outside the mutex. |
| LeakingBucket | Rate Limiter/Leaking Bucket/code.go | The channel, the ticker that holds one tick, Start's select and drain, Push's test and non-blocking send; the Close that clears running, and one that finds it cleared and returns at once (`CloseAgain`). |
| Chord | DHT/Chord/chordFingerTable.go | A node is its ID, a call with all it asks of other nodes is a step: the program has neither goroutines nor a network. FindSuccessor is a recursive function over the fingers. |
| Kademlia | DHT/Kad/kadRouter.go | An ID is its bits; `kBuckets` are sequences, `heard` remembers what AddNode was told. |
| FifoQueue | (abstract) | What GrowingRing implements: enqueue, dequeue, drop a number of elements, replace the first. |
| GrowingRing | Buffer/ringbuffer.go | One call, one step: the type has no lock. |
| EvictingCache | (abstract) | At most capacity entries, the most recently used first; which one a new key drives out; when an entry is stale. |
| LRUCache | LRU/LRU.cpp, LRU/LRU with TTL.cpp | One call, one step, on the links themselves (`links`); the two files differ by the time to live, `Never` in the first. |
| LFUCache | LFU/LFU.cpp | One call, one step; the list of a frequency is a sequence, `min_freq` is kept as the code keeps it. |
| CLRUCache | LRU/CLRUCache.cpp | Callers step by step: the lookup in the bucket, the tasks they leave, the read of the node; the worker: its test of stop_flag, the wait, each task with the locks it takes or does not take. `liveNodes` are the allocated nodes; an access to another sets `fault`. |
| DNSResolver | webcrawler/dns_resolver.py | The look-up without the lock, the one with it, the query, the entry; the cache as a sequence, the oldest first. |
| Collections | Hash/HashTable.cc, SkipList/Skiplist.cpp, Arena/, String/string.cc | One call, one step, each beside a history of what the calls so far amount to: of the arena, every place that was returned, also where AllocateAligned returns one of the current block (line 39). |
| URLShortener | URLShortener/shortener.go | The two maps, and Shorten as the sequence of storage calls it makes, each of which holds the storage's lock. The truncated hashes are any table (`hash`). |
| Crawler | webcrawler/crawler.py, frontier.py, dedup.py | `main` is where crawl is in its loop: get, the tests of depth and of the seen set, submit, the removal of done futures, the wait of a second, the executor's exit. A worker's _crawl_page is Mark (line 225), the download with check_and_mark, the save, then link by link the look-up and frontier.add. `site` is what is out there: links, contents (which may change between downloads), what normalises to what, what the filter lets through. |
| Extensions | webcrawler/extensions/base.py, web_monitor.py | A thread that processes a page looks up the cached status, appends to the history, loads the status file, empties it, writes it; the manager's queue, its count of unfinished tasks, workers and stop; `kills` cut a program off at any step and start it again from its files. |
| MCThreads, MCNetwork, MCContainers, MCServices | | Components side by side, for one run each. |
| Loops | | A loop that changes a state until a test fails, as a recursive operator; only what TLC alone uses extends it. |
| Sorts | Sort/*.cpp, Merge/, Binary Search/, Permutation/, Moore Voting/, Greedy/wiggleSort, Reservoir Sampling/, Knuth Shuffle/ | The function of an array; a function that draws random numbers is the set of its outcomes. |
| NumberTheory | GCD/, Prime/, Combination/, Gosper Hack/, Bit Manipulation/, NQueens/, Classical Problems/; Constructive Algorithm/, Greedy/Action Figures.cpp, Interview/ | The function of its input. Integer division and remainder as in C++, a narrower word for int, a small prime for 1'000'000'007. |
| Strings | String/KMP.cc, Z-func.cc, hash.h, Palindrome/, LCS/, Trie/, Hash/ | A string is a sequence of small numbers. |
| GraphsAndTrees | Graph/, BFS/, DP/, Sort/topologicalSort.cpp, DSU/, Tree/, ConvexHull/ | The functions of a graph, with the lists of neighbours in a fixed order. |
| Hashing | MurmurHash1-3, PMurHash, SuperFastHash, lookup3, crc, Hashes.cpp, md5.cpp, sha1.cpp, Spooky, City; the Bloom filters; Bitvec.cpp | Every function bit for bit. A machine word is a sequence of 16-bit digits, as TLC's integers have 32 bits, with its sums, products, shifts and rotations; MD5, SHA-1 and SpookyHash are contexts that are fed piece by piece. VerificationTest of KeysetTest.cpp. |
| MCAlgorithms | | A family of functions and one input of it is picked, one step computes; smhasher's verification values and the inputs' bounds are here. |

Data is abstract where only its identity matters: values, keys, URLs and results are
model values; hashes used as keys are arbitrary tables; the tokens of the bucket are
exact numbers where the code has floating point.

## 3. What is checked

Runs that pass (numbers in brackets are distinct states):

| Run | Shows | Bounds, and why they are enough |
|---|---|---|
| LockFreeRing (396,031, up to symmetry) | `SlotExclusive`, `ClaimsHaveOwners` (no slot is lost), the inductive invariant `SlotsAgree`, the refinement `ImplementsQueue`, and `FailuresAreTrueWhenQuiet` | three goroutines: one stalled between its steps, one that works, one that interferes. Capacity 2 and MaxPos 4 make two laps, so that a slot is reused while somebody still holds its old position. |
| LockFreeRingIter (265,247) | `VisitsSeeValues`: iterations beside writers visit positions that were pushed to, the reverse one none below the tail it loaded, but for one that starts from a head of 0 when tail has moved; and a visit to a buffered position while nobody is inside a slot sees a pushed value; `CallsReturn`: every Push, Pop and Discard returns | two writers and a watcher on one and a half laps; one value is enough, as what is visited is only told from the zero value. |
| Queues | of the linked queue `ImplementsLinkedQueue` in the uses its test has (one producer and one consumer, or producers only), and `NothingLost`: no access to a deleted node, no leak and no miscount of the size, in those uses | four nodes: the dummy, two linked ones and one that is freed and used again; a producer beside a consumer, or three producers, so that two help the third along. |
| Threads | `TakesTurns`: each of the four programs prints its numbers in turn (`InTurn`), and ends; of the mutex queue `InOrderOnce` and `JoinedEmpty`; of singleflight `OneFlight`, `ReturnsFinishedCall`, `JoinsWhileOwned`, `DoReturns`; `SharedOnce`: a shared object is deleted once and only after its last pointer (`CountsMatch`), and a singleton is made once (`OneInstance`) | MaxNumber is 100 where the code has 1'000 (C++) and 1_000_000 (Go): what the threads wait for depends only on the number's parity and on whether it is the last. Two pushers and two poppers, two items each: a notify can meet none, one and two sleepers. Three goroutines, two keys: an owner, a joiner and one that starts the key's next call; three executions of fn use the key again. Two threads, three pointers, two objects: a copy from a pointer whose target another thread gives up. Three askers; at most three instances made, so that the lazy one is destroyed and made again. |
| Network (337,550) | the limiters' limits: `AtMostTwiceTheLimit` (fixed window), `RollingLimit` (log), `NoWindowMiscounts` (no window limiter refuses needlessly; the slots' limit holds in every span of all slots but one, unless the wall clock is set back by more than that within it), `TokensAsPromised` (no more than the rate where nobody waits; whoever owes tokens is due by its deadline, its timer fires then but for the time it took to arm it, and those who owe since one reading of the clock wait for different tokens), `LeaksInTurn` (one item a tick, in order, none left behind by the Close that cleared running); `CallersGetOn`; of Chord `TablesKept` (there is always one ring, `OneRing`) and `RingCloses` (once joins cease every finger, predecessor and answer comes to be right); of Kademlia `TablesKept` (the table is what it was told of, and finds the K closest of it) and `RoutesOn` | limits of 2, so that one more is seen; behaviours of three windows and a bit; three slots of a window of 7 ticks, which the truncation cuts to 6, and a wall clock that starts at 12, so that it can go back by two rounds, and is set back by 3 (more than a slot, less than all but one) or 5 (more than all but one). Two callers of the token bucket, so that one owes while the other reads the clock or arms its timer; two of Close. Chord: 8 IDs, three members out of four nodes that lie side by side and across zero, so that two may join at once behind the same successor. Kademlia: three bits, two to a bucket, five of seven nodes heard, so that a bucket is full; localID is 0, as a table depends on IDs only through their XOR with it. |
| Containers (350,648) | of the growing ring `ImplementsFifo`; of the LRU, TTL and LFU caches and of the resolver's cache `CachesDriveOutTheRightKey`; of the asynchronous cache `TasksRun`, and `FollowsTheCalls` where no key is evicted or cleared and del has one caller; `ContainersKeep`: the ring's iterations agree with it, no thread queries a name another has just resolved (`NoNeedlessQuery`), the hash table is a map (`TableMaps`), the skip list sorted and linked on all levels (`SkipHolds`), what the arena hands out lies apart, within its blocks and aligned, but for what AllocateAligned returns in the current block (`ArenaApart`), the string is what was assigned and appended, terminated and within its capacity (`StringsHold`) | ring: from 1, 2 and 4 cells up to 7 elements: two growths, wrapped at every offset. Caches: three keys on capacities 1 and 2, so that the order of two decides; three ticks on a life of one; three uses of a key. Asynchronous cache: two callers, two keys, two nodes (one is freed and used again), three calls: two tasks and a third beside the worker. Hash table: three keys from one or three buckets: a rehash that parts and one that joins. Skip list: four nodes with equal values, two levels. Arena: blocks of 6 and requests of 1, 2 and 3, on both sides of a quarter and of the rest, multiples of the alignment, 2, and not. Strings: two, of at most three letters, from a capacity of one. |
| Services | of the shortener `AnswersResolve`; `StorageKept`: its maps agree, it fails only when all keys are taken, the monitor's file is its cache also after a kill and its history tells each change (`MonitorKeeps`), and the queue's join counts all (`JoinWaitsForAll`); of the crawler `EachPageOnce` (each content stored once, nothing found is missed); `ServicesGetOn`: every crawl ends and the workers process what was left for them | shortener: one caller with any hashes, or three whose hashes do not collide across URLs; three URLs and keys, two attempts: a chain of collisions that uses up the retries. Crawler: two workers beside crawl; four pages, so that one lies beyond a worker's links; MaxDepth 2 and MaxPages 4, each reached and each missed; three sites: links that meet a page from two depths, a page with two names and a content that changes, a delay that is longer than get's wait. Extensions: two pages, none, one or two threads or workers, one kill. |
| Algorithms (20,722) | `SortsSort`, `NumbersAndPuzzles`, `StringsMatch`, `GraphsRight`, `HashesRight`: each function's answer is that of its reference definition; hash functions give the verification values of smhasher's main.cpp, and the same value however a key is cut or aligned; the filters find what was put into them; shifts, turns and windows of bits agree by bits, bytes and words. `HashesRight` is about the step that asks for a hash: the words are not kept in a variable | every array of up to four of four numbers; all strings of up to six letters of two with patterns of three; all small graphs with weights in which a longer path is shorter; numbers on both sides of each place the functions branch at; keys with lengths on both sides of every block size. |

The limiters' type invariants are conjuncts of their properties here; those of
LockFreeRing and SingleFlight are part of what is proved (section 5).

Deadlock is checked in LockFreeRing and LockFreeRingIter. It is not in the others,
where the callers' work is finite and a state in which all has been done, or in which
a goroutine waits for a call whose fn has panicked, is a legitimate end; there the
liveness properties say who has to get on.

Runs that show a disagreement between the code and what the repository says of it
(`findings` in PROJECT.json):

| Run | What happens |
|---|---|
| TokenBucket_leaked_mutex | WaitN returns ErrWaitTimeout (line 97) without unlocking: no later call returns. |
| CLRUCache_evicts | The task that evicts looks for the evicted key in the bucket of the key that was put (line 200): the key's own bucket still has the deleted node, and so may tasks left before. |
| URLShortener_overwrite | Two URLs whose hashes collide, shortened at once: both find the key free and the second Save overwrites the first. |
| Crawler_gives_up | With the frontier empty and a page that takes longer than a second, as_completed raises TimeoutError (line 170), which nothing in crawl catches: the caller gets an exception where the docstring says statistics. |

### Seen while modelling

Read in the code while it was modelled. No run is about these, except where a property
named above states the part that does hold.

Concurrent parts:

* A lock-free ring of capacity 1, which the constructor accepts, takes a second element
  before the first is popped, as with one slot "filled" and "free for the next lap" are
  the same sequence number (the proofs assume Capacity >= 2 where it matters). Pop
  answers "empty" while a push has claimed its position and not published it, although
  later pushes are complete, and Push "full" while the pop of the slot at head has not
  released it. Len may be negative between its two loads. ForEachReverse that loads a head
  of 0 returns at line 243 while tail is 0 too; but when an element is pushed and popped
  between its two loads, head - 1 is the last uint64, which passes the test at line 247:
  the iteration visits position after position from there, practically for ever, unless fn
  ends it (`revWrapped`). ForEach reads values without an atomic (LOCKFREE_DESIGN.md, line
  276, calls it a snapshot).
* push of the linked queue publishes a null tail when compare_exchange_weak fails
  spuriously (line 60); two of its consumers use a node after one has deleted it (line
  101), and with two producers beside a consumer push follows `old_tail->next` of a
  deleted node (line 49).
* The sliding window counter finds its slots by the wall clock (line 49). Set back by more
  than all slots but one, it uses the slots of later rounds again and lets its limit
  through once more within a window; set back by less, it counts the requests whose
  readings lie ahead until the clock has caught up with them.
* concept.md, line 5, of the token bucket says that tokens are put in at a preset rate until
  the bucket is full. The code's refill replaces what was left by what came in since the
  last one (line 43): a bucket of 4 with 3 tokens left has 1 after the time of one token,
  and the debt of sleeping callers is wiped out. WaitN tests its deadline by a clock read
  under the mutex and arms the timer after the Unlock (line 105): a deadline that was
  accepted may be missed by the time in between, whereupon the context's end is what
  select finds.
* Push of the leaking bucket may be accepted after Close has drained (line 49). A second
  Close returns at line 106, before the first has drained the queue.
* The destructor of the asynchronous cache sets stop_flag without task_mtx (line 141), so
  that its worker may sleep through the notification, and its clear deletes nodes that
  tasks still name (line 227).
* FindSuccessor of Chord, asked at a node for that node's own ID, may answer its
  successor; a node that joins has at first a wrong successor or finger for it, which
  Stabilize and FixFingers repair (`RingCloses`).
* Kademlia's comments speak of the front of the list where the code appends at the
  end, and a full bucket refuses the new node. The example at kadRouter.go, line 34, gives
  1101001 and 1101010 a common prefix of 4 bits; they share 5, and PrefixLen returns that.
* Two threads may both query the DNS server for a name that neither finds.

The crawler:

* max_pages (README.md line 107, config.py line 15) is compared with the pages done, and
  every job already submitted is still carried out, so that more are crawled. A URL may
  be downloaded twice, as it is looked up at line 185 and marked at 225.
* `NothingMissed` holds but for two cases its statement names: a link that is found too
  deep sits in the frontier, makes add refuse the same link found less deep, and is then
  dropped (line 181), and a request_delay beyond get's five seconds ends the crawl with
  URLs still queued (line 165). request_delay holds between the frontier's gets, not
  between the downloads.
* A content is marked as seen (line 237) before it is parsed and stored, so that when
  either fails no other URL's copy is stored. pages_skipped is counted without the lock
  at line 186. What resolve_url returns is not used (downloader.py line 95).
* A worker of the extension manager that takes the None of stop never calls task_done,
  and tasks may be left once `_running` is False, so that `_task_queue.join()`
  (extensions/base.py line 216) never returns when there is a worker. Two threads that
  save the monitor's status lose each other's update, or leave a file that is no valid
  JSON, which _load_history drops without a word, with every status in it.

Containers:

* A TTL cache of capacity 0 writes to the node it has just deleted (line 92), an LFU cache
  of capacity 0 looks for a last node where there is none (line 84).
* HashTable::contains tests only the first node of a bucket. Skiplist.cpp does not
  compile as it stands; its height may be one more than kMaxHeight, past the end of the
  array of previous nodes, and rangeQuery leaves out the first node in the range. When the
  request fits the current block, the arena's AllocateAligned returns the place behind what
  it takes (line 39): the next Allocate returns the same place, or the caller writes past
  the block, and the assertion at line 45 fails, as for Allocate(1) and then
  AllocateAligned(1), unless the request is a multiple of the alignment, as all in
  arena_test.cc are. `ArenaApart` records these places and excepts them, and says when they
  are aligned. The arena's arrays are freed by `delete`. The string's move assignment
  leaves the capacity of a buffer it has given away, and its copies rely on a terminator
  that realloc_data does not write. unique_ptr::reset(get()) deletes the object it keeps.

Algorithms:

* The smallest number with no equal neighbours: 1098 gives 1100, and -222 gives -210.
  LargestLessThanK gives 22 for 222 with the digits 2 and 5. Numbers in Chinese lose 万
  at 1000000 and end in 零. The square root by Newton's method has abs around the
  comparison. The knight's tour prints open tours under the name of circuits.
  longestPalindrome gives 0 for one letter; the increasing subsequence it prints is the
  array of tails. 单向链表逆序输出.cpp does not compile. bm.go's shift is followed by
  the loop's own i++, which skips matches.
* String/hash.h: subHash returns bool and multiplies by base^(r-l), right only for l = 1;
  its words overflow; hash_table is never read.
* smhasher: SHA-1 writes to the keys it is given once they have a whole block beyond the
  first, so that hashing a key of 200 bytes twice gives two values, where KeysetTest.cpp
  says "Hashing the same key twice should always produce the same result"; Spooky's Final
  for less than 192 bytes takes its out parameters as seeds, which Spooky.h calls "out
  only"; Spooky's Short overwrites d by the length; Bitvec.h's rshift for other types
  calls lshift; Bitvec's popcount misplaces a parenthesis
  (`v + ((v >> 4) & 0xF0F0F0F)`), so that only the low four bits of its result count, and
  its asserts are compiled out without DEBUG; FactorSlices does not end;
  ProcessDifferentials never reports its last run.

## 4. Fairness

* Goroutines and threads: weak fairness of every step (`Step(p)`) says that the
  scheduler runs whoever can run. No fairness makes anybody call an operation.
* A mutex is got by somebody who waits for it; as critical sections are single
  steps, weak fairness says that. Starvation by barging is thereby excluded only
  where the callers' work is finite.
* Go's select takes one of the ready cases at random: strong fairness of the stop
  case in LeakingBucket, which may be ready again and again beside ticks. The ticker
  ticks and the clock goes on.
* fn of singleflight comes to an end (it returns or panics).
* Spurious wakeups happen but nothing relies on them: they have no fairness.
* The nodes of a Chord ring call Stabilize and FixFingers again and again (weak
  fairness of a step that changes a table, whichever it is); nobody has to join.
* The crawler: the threads run, a download ends (request_timeout), time passes. Neither
  the TimeoutError nor stop is forced: `ServicesGetOn` must hold without them. The
  extensions' workers run; kills and stop are not forced.
* The lock-free ring's `CallsReturn` holds although retries are unbounded in
  general, because a failed CAS means another goroutine's success and `MaxPos`
  bounds those; it shows that no call spins for ever on a slot nobody will release.

## 5. What is proved

TLAPS checks the following for every value of the constants that meets the assumptions
named in the modules: most of the safety invariants the runs check, the action property
of singleflight, and the refinements of BoundedQueue (twice), FifoQueue, EvictingCache
and InTurn. The proofs are by inductive invariants. Where a component runs beside others,
the theorem that states the run's property is about the composition (`Spec` of the
`MC...` module).

**LockFreeRing_proofs** (any number of goroutines, any Capacity; where it says so
Capacity >= 2).

* `TypeCorrect`; `SlotsAlwaysAgree`, the inductive invariant, from which follow
  `Exclusive`, `Bounded` (head - tail within 0..Capacity), `Cleared` (free slots hold no
  reference), `PopsPushed`, `LenBounded`, `NoSlotLost` and `QuietFailures`; and
  `Increasing`: no step but Reset takes a sequence number back. SlotExclusive is not
  inductive: that two goroutines do not claim one slot depends on what the sequence
  numbers of *all* positions of the current lap say (`FilledPart`, `FreePart`), on what a
  goroutine that has read one still knows when it gets to its CAS (`PusherKnows`,
  `PopperKnows`: if the position has not moved, neither has the slot), and on what owners
  know (`WriterOwns`, `ReaderOwns`, `OwnersApart`). The proof goes step by step: those
  that change only a goroutine's locals (`LocalStep`), the claims (`ClaimHead`,
  `ClaimTail`), the accesses of an owner to its slot (`OwnerStores`) and the hand-overs
  (`OwnerHandsOver`), on top of arithmetic lemmas that say that no two positions of one
  lap share a slot.
* `BufferIsAQueue`: the ring implements BoundedQueue. A push takes effect at its CAS on
  head, a pop at its CAS on tail; what a position between the two holds is what is
  published there or what the push that claimed it is going to write (`Holds`), and stays
  so until tail has passed it (`HoldsOn`, from `RefInv`).
* `RoomForPushes`, and `Visits`: beside writers an iteration visits positions that were
  pushed to, and a reverse one stays between the tail it loaded and head, so that its index
  never wraps at tail; one that starts from a head of 0 when tail has moved stays only
  above that tail. A visit to a buffered position while nobody is inside a Push, Pop or
  Discard sees a pushed value; nothing is said of other visits, which may find a slot
  cleared or not yet written. It needs where the positions may be (`BufferInv`) and where
  a watcher has got to (`BoundsInv`): that its index is no more than head when it has
  loaded only that, and never below the tail it has loaded after.

**LinkedQueue_proofs** (any nodes, values and threads). `LinkedInv` says that there are
nodes c[1] to c[n], no two the same, that are linked in this order from the dummy at head
on; that tail is one of them, and beside a consumer the last whenever nobody is to swing
it; where every other live node is (in the hands of the thread that will link or delete
it); and what each thread has loaded and still knows.
From it come `ListsNodesKept` (no access to a deleted node or through null, no leak, a
size that is off by the operations under way) and `ListIsAQueue`, the refinement of
BoundedQueue. Both are about the uses of the file's test, one producer and one consumer
or producers only; the accesses and the refinement are about processors whose
compare_exchange_weak fails only for a reason besides. With two consumers, with two
producers beside a consumer, or after a spurious failure the code goes wrong (section 3).

**Threads_proofs** (any number of threads).

* singleflight: `FlightInvariant`: the map points at the call of the goroutine that owns
  the key (`OwnersInMap`), and keys nobody owns belong to panicked calls; from it
  `NeverTwice`, `FinishedResults`, `DeletesOwn`, `OnlyPanicsStick` and the action
  property `NeverStale`.
* the queue with a mutex: `PopsInOrderOnce`, and beside the other programs
  `PopsBesideOthers`. `MutexInv` says that what each pusher has in the queue is in the
  order it was pushed in, and behind all of its items that have been popped.
* shared pointers and singletons: `CountsArePointers` and `SharedBesideOthers`. A count
  is the number of the pointers to its object and of the assignments that have changed
  the one and not yet the other (`PtrInv`). Of the singletons, whoever is about to make an
  instance holds the mutex or the static's guard, and the instance that is published is
  the only one there is (`SingletonInv`).
* the printers: `PrintersTakeTurns`: whichever of the four programs runs, it implements
  `InTurn`. `PrintInv` ties the next number to whose turn the flag, the spin variable or
  the message in a channel says it is (`CondInv`, `SpinInv`, `ChanInv`).

**Network_proofs** (any limits, windows, sizes and callers; any number of bits and any
nodes).

* fixed window: `FixedInvariant`: the admissions of consecutive windows lie apart; from
  it `TwiceAtMost`, `DroppedAtLimit`, `FixedTypeCorrect`.
* log: `LogInvariant`: it is the end of the history of admissions, and what was cut off
  is older than the window; from it `LogTypeCorrect` and `NeverOverLimit`: no more than
  the limit within any window. This holds however the clock is set back, which only makes
  the log's timestamps look younger than the admissions are. That no request is refused
  needlessly is claimed and proved only for a clock that was not set back (`Steady`).
* `WindowsCountRight`, with `SlotsInv` for the counter by slots, whose wall clock may be set
  back: each slot counts the requests of a set, all of which read a time in the slot's
  round, and these sets have every request that is of late: neither the time since nor
  what the clock has lost since is more than all slots but one (`Accounts`, `OfLate`).
  What the clock has lost only grows (`LossGrows`), so that a request that is not of late
  never is again. A round in which a request of late was counted is less than NumSlots
  rounds away from the clock's, so that its slot is used again only for itself.
* `TokensKept`, with `TokenInv`: without WaitN nothing is owed, and what was granted and
  what is left came from the full bucket and the refills; with it, whoever owes since the
  last refill is due when the debt is paid off at the latest (`DebtsKept`), so that the
  next to owe is due later by all that it asks for (`DebtsApart`). `DueByDeadline` says by
  how much a timer may be late, and no more than that is true of the code.
* `LeaksInOrder`, with `LeakInv`: what was accepted is what was handed over, then the queue,
  and what is handed over before Close was paid for by a tick; only the Close that cleared
  running waits, and is back when Start is done (`Waited`). Nothing is said of others.
* Kademlia: `TableFinds` and `LookupsGetOn`, of a table that hears of any nodes in any
  order. `TableInv` says of every bucket that its nodes are among those heard of that share
  exactly its number of bits with this one, each once and with the address told last, and
  that they are all of these or K (`BucketKept`). `FirstDifference` and `OnlyDifference` say
  what PrefixLen returns, `UpdatedIs` what Update keeps. That sorting by distance and cutting
  at K returns the K closest rests on the distances being a strict order (`NearerOrders`), of
  which K elements, or all, have fewer than K before them (`Ranked`).
* Chord: `RingStaysOne`: from the first node on, for any node of the ring asked to join
  and any order of Stabilize and FixFingers. `ChordInv` says that there is a node m0
  (the first) towards which all successors lead: that of a node lies closer to m0, going
  up, or is m0 (`Onward`, by `Rise`). It is not true of every node. One with the ID
  before m0 whose join asks m0 for m0's own ID is given m0's successor, which skips m0;
  such a node `Jumps`: it is no one's successor and not m0's predecessor, and stays so
  until a step of its own mends it. That a join or FixFingers gets an onward answer
  needs what FindSuccessor returns: the search ends, as each step is to a node from
  which the ID is less far (`FindSteps`, by `Far`), at a node in whose arc the ID lies,
  at one alone, or at a node with just that ID (`FindLands`). From `ChordInv` to
  `OneRing`: what lies ahead of a node is closed under successors and the least such set
  (`AheadIs`), so that m0 is ahead of every node; and the nodes met from m0 on come back
  to m0 in one round, with none of them between a node and its successor (`WayRound`).
* `TablesAlwaysKept` and `LookupsAlwaysGetOn`: so do they beside the limiters, where a step
  of another part leaves both tables as they are (`TablesOnTheirOwn`).

**Services_proofs**.

* shortener: `ShortenedResolve` and `StoredAsMeant` for any URLs, keys, hashes and
  callers, under the hypothesis `OneCollides`: where hashes collide across URLs, one
  caller at a time shortens. Without it the first is false, which the run
  URLShortener_overwrite shows. `ShortenerInv` says that the maps agree, that answers
  resolve, and what of the maps a caller still knows when it saves: if hashes collide, all
  it has found, as it is alone (`Alone`); if not, that a key belongs to one URL (`Apart`).
* extensions: `MonitorAndQueueKept`, with no such hypothesis (`MonitorInv`: what the file
  and its lines say at each step of the one thread, kills included).
* crawler: `PagesStoredOnce` for any number of workers and any bounds on the run's sites,
  and `CrawlsOnce` for any site. `CrawlInv` has four parts: the types; that a content is
  marked before it is stored, by one worker (`ContentInv`); where each URL that was found
  is, in the frontier, in a job, in a worker's remaining links or done (`FoundInv`); and
  that crawl ends only with nothing left in those places or for a reason that
  `NothingMissed` names (`EndInv`).

**Containers_proofs** (any capacities, keys and values).

* `RingAmongOthers`: the growing ring implements FifoQueue beside the other containers, by
  `RingIsAQueue` of the next module.
* `ResolverCaches`, `LruForgetsTheOldest`, `LfuForgetsTheLeastUsed` and, beside the other
  containers, `CachesForget`: the three implement EvictingCache. `DnsInv`: the ordered
  dictionary has a name once, and nobody queries a name for which it has a good entry.
  `LruInv`: the links, followed from the dummy, are a circle of exactly the keys of the
  map, in the order of their use, both ways. `LfuInv`: each frequency's list is the keys
  of that frequency in the order of their use (`FreqLists`), and min_freq is the least
  frequency there is (`Least`).

* `CacheFollowsTheCalls`: `FollowsTheCalls` of the asynchronous cache, for any keys, hash,
  nodes and callers, where `Fits` holds: room for every key, no clear, one caller of del.
  `ClruInv` says what the list will come to. There is a sequence of stages (`Ahead`,
  `Stages`): the first is the circle as it is linked now, each task that the worker has
  taken or that waits makes one stage of the one before (`Effect`), and the last is
  `asked`, the nodes in the order of the calls. A node that a task drops is in no later
  stage, and one that is allocated and not in the list has a prev of Null, by which the
  code tells. `EntriesAre` says of the maps that an entry's node is allocated, has that
  key, is not to be dropped, and is asked for once its caller has left the task. A step
  of the worker takes the first stage away and a call adds a last one, so that neither
  needs to know of the other's. A circle of nodes with keys of their own is no longer than
  there are keys, and the function that counts it goes all round it (`ChainGoes`): the
  list is never `Overfull` (`ListFits`), so that nothing is evicted.

* `ResolverAsksWhenItMust`, and `CollectionsKeep` beside the other containers: all of
  `ContainersKeep`, by the theorems of the next module.

**Collections_proofs** (any keys, hashes, values, heights, sizes and letters).

* `RingIsAQueue`: the growing ring implements FifoQueue. `RingInv` says that just the cells
  between head and tail hold elements and the others are zeroed; `Wraps`, `Around` and
  `StepsAhead` say what % does on the circle.
* `ArenaKeepsPiecesApart`: `ArenaInv` adds that what is left of the current block lies
  behind all that was given of it. Of the places that AllocateAligned returns in the
  current block it says that they lie in the block or at its end, and are aligned just
  when the request is a multiple of the alignment (`BehindAligned`); that their bytes lie
  apart is false of the code (section 3).
* `StringsHoldTheirTexts`: `StringInv` is a little more than the property: the capacity is
  a number also of a string that was moved from, which keeps it without an array.
* `TableIsAMap`: `TableInv` says that bucket j holds just the keys whose hash is j modulo
  the number of buckets (`Spread`); a key's bucket after a doubling is its old one or
  that one plus the old number (`HalfRest`), so that `Rehashed` asks one old bucket for
  each new one.
* `SkipListHolds`: `SkipInv` says that there is an order c of the nodes in use, sorted by
  value, in which the next of a node on a level is the first node behind it that is as
  high (`Skips`). Then the search's path down the levels ends at the last node below the
  target (`AlongIs`, `PrevIs`), adding behind it and unlinking the one behind it keep
  such an order (`AddLinks`, `EraseLinks`), and following a level visits just its nodes
  (`RowIs`). The functions that follow the links are recursive ones; `Recursion` shows
  that a function with the given first value and step exists, so that the CHOOSE in the
  definition of a recursive function means it.

### The assumptions

Beside what says that marks (None, Null, Stop, ...) are no values, and that bounds are
numbers, the proofs use these:

* sets of threads, nodes and pointers are finite, as they are in a program
  (`FiniteAssumption`, `NodesAssumption`, `RolesAssumption`, `CrawlAssumption`,
  `ExtensionsAssumption`), and a thread pushes or pops, or closes or pushes, but not both
  (`RolesAssumption`, `CallersAssumption`);
* a counter's word is wider than what `MaxPos` and the goroutines, or the nodes, can
  bring it to: 2^64 in the code (`WordAssumption`, in LockFreeRingIter and LinkedQueue);
* the wall clock of the sliding window counter starts at 1970 or later, and is never set back
  to before (`ReadingAssumption`, `SlotsClockSetBack`);
* an ID has at least one bit, Chord's nodes have IDs, and a bucket holds at least one node
  (`ChordAssumption`, `KademliaAssumption`): 160 bits and 4 nodes in the code;
* limits, sizes and capacities are positive. For the caches this excludes what section 3
  tells of capacity 0;
* crawls beside the other services are of the four pages the run's sites are drawn with
  (`WebAssumption`), which `CrawlsOnce` does not need.

### Only model-checked

* All liveness: fairness and ENABLED are beyond the prover's reach. So are `JoinedEmpty`,
  `CallersGetOn`, `RingCloses`, `TasksRun`, `ServicesGetOn`, `DoReturns`, `CallsReturn`,
  and of `TakesTurns` that the programs end.
* All algorithms: what a recursive definition computes for every input would need
  induction over data. Of the library's induction the proofs use the form about sets
  (the least element of a set of numbers), never an operator as parameter. For the same
  reason a sequence without one of its elements is written out by its indices
  (`RemoveFirst`, `RemoveFirstMatch`) and not as a filter, which is recursive.

## 6. Not modelled

* Sort/rust and Singleton/rust: the same algorithms again, and one call of a library's
  once cell or lock each.
* SharedPtr.cpp, uniquePtr.cpp and unique_ptr.h: for one thread, one assignment a method.
  Of ThreadSafeSharedPtr.cpp, reset and the accessors, which add nothing to the assignments.
* smhasher's statistics, timing and portability headers: what its tests promise is a
  quality of distribution over millions of keys in floating point, which no bounded
  check shows. CityHashCrc needs SSE 4.2; md5's file and HMAC functions are declared and
  not defined.
* Go programs of one function (base 62, the Merkle tree, interview questions) and
  estimates by random numbers: nothing that could go wrong in more than one step.
* Of the crawler, HTTP, HTML, regular expressions and the command line: what passes the
  filter, which links a page has and which contents are equal are constants of Crawler.
  The Bloom filters of its deduplicators are taken as sets; failures of a download, a
  parse or a save happen, their counters are left out, as are clear and clear_cache.
  URLStorage is used by nobody.
* Of the extensions: register and unregister, which are called before a crawl only, the
  counters, check_availability, and the image downloader, which looks at and adds to its
  set of URLs apart as the monitor does with its cache.
* Of the skip list, a height beyond its array and rangeQuery, which are told in section 3.
* Tests and benchmarks, which were read for what they promise.
