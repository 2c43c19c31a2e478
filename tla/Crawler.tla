------------------------------ MODULE Crawler ------------------------------
(***************************************************************************)
(* webcrawler/: the loop of crawler.py that hands URLs to a thread pool,   *)
(* the pages' workers, the frontier and the two deduplicators.  A method   *)
(* of frontier.py or dedup.py holds its lock throughout and is a step.     *)
(***************************************************************************)
EXTENDS Naturals, FiniteSets, SequencesExt

CONSTANTS Pages,        \* the URLs
          Workers,      \* the threads of the executor
          Nothing,
          MaxDepth, MaxPages

ASSUME NothingAssumption == Nothing \notin Pages
ASSUME CrawlAssumption == MaxDepth \in Nat /\ MaxPages \in Nat \ {0} /\ IsFiniteSet(Workers)

VARIABLES
  site,      \* what is out there, and what the crawl was set up with: see Site
  running,   \* _running
  main,      \* where crawl is
  item,      \* url_item
  queue,     \* the frontier's heap, {[url, depth]}
  recent,    \* the domains whose last access is less than request_delay ago
  pool,      \* the jobs that wait for a thread
  finished,  \* how many of futures are done
  at, job,   \* where each _crawl_page is, and its url_item
  page,      \* the content it has downloaded
  todo, link,    \* the links it has still to handle, and the one it handles
  visited,   \* the URLs that _dedup has seen, normalised
  contents,  \* the fingerprints that content_dedup has seen
  history,   \* the pages stored, as in url_history.jsonl
  crawled,   \* pages_crawled
  tooDeep    \* history variable: the URLs that were dropped for their depth

sawVars == <<visited, contents, history, crawled>>
\* What no step of main's changes, and what no step of a worker's does.
workVars == <<site, at, job, page, todo, link, sawVars>>
crawlOnly == <<site, running, main, item, recent, tooDeep>>
crawlVars == <<crawlOnly, queue, pool, finished, workVars>>

\* links: the links of a page that LinkExtractor calls internal; holds: what a
\* download may bring; canon: _normalize_url; domain: _get_domain; passing: what
\* the filter lets through; patient: request_delay is no more than get's timeout.
Site == [links : [Pages -> SUBSET Pages], holds : [Pages -> SUBSET Nat],
         canon : [Pages -> Pages], domain : [Pages -> Nat],
         passing : SUBSET Pages, seeds : SUBSET Pages, patient : BOOLEAN]

\* The seeds are added before crawl is called.
CrawlInit == /\ running = TRUE /\ main = "loop" /\ item = Nothing
             /\ queue = [url : site.seeds \cap site.passing, depth : {0}]
             /\ recent = {} /\ pool = << >> /\ finished = 0
             /\ at = [w \in Workers |-> "idle"]
             /\ job = [w \in Workers |-> Nothing]
             /\ page = [w \in Workers |-> Nothing]
             /\ todo = [w \in Workers |-> {}]
             /\ link = [w \in Workers |-> Nothing]
             /\ visited = {} /\ contents = {} /\ history = << >>
             /\ crawled = 0 /\ tooDeep = {}

\* add_seed_urls gives depth 0 priority 1, a page of depth d gives its links
\* priority min(d + 2, 10).
Priority(x) == IF x.depth = 0 THEN 1 ELSE IF x.depth < 10 THEN x.depth + 1 ELSE 10

Seen(u) == site.canon[u] \in visited

\* futures is not empty as long as main has not taken out the last done one.
Busy == pool # << >> \/ \E w \in Workers : at[w] # "idle"
NoFutures == finished = 0 /\ ~Busy
-----------------------------------------------------------------------------
(* crawl *)

MainGoes(from, to) == main = from /\ main' = to

Loop == /\ MainGoes("loop", IF running /\ crawled < MaxPages THEN "get" ELSE "drain")
        /\ UNCHANGED <<running, item, queue, recent, pool, finished, tooDeep>>

\* frontier.get: the first in the heap whose domain may be accessed, waiting for it.
Waits(x) == site.domain[x.url] \in recent

Get == /\ MainGoes("get", "test")
       /\ \E x \in queue :
            /\ ~Waits(x)
            /\ \A y \in queue : Priority(y) < Priority(x) => Waits(y)
            /\ queue' = queue \ {x} /\ item' = x
            /\ recent' = recent \cup {site.domain[x.url]}
       /\ UNCHANGED <<running, pool, finished, tooDeep>>

\* The heap is empty, or all of it waits for longer than get does.
GetNone == /\ MainGoes("get", "none")
           /\ queue # {} => ~site.patient /\ \A x \in queue : Waits(x)
           /\ UNCHANGED <<running, item, queue, recent, pool, finished, tooDeep>>

\* Mutant: done futures are not waited for, only the running ones.
BreakWhenIdle == /\ MainGoes("none", "drain") /\ ~Busy
                 /\ UNCHANGED <<running, item, queue, recent, pool, finished, tooDeep>>

Break == /\ MainGoes("none", "drain") /\ NoFutures
         /\ UNCHANGED <<running, item, queue, recent, pool, finished, tooDeep>>

\* as_completed yields a future that is done ...
AwaitOne == /\ MainGoes("none", "loop") /\ finished > 0
            /\ finished' = finished - 1
            /\ UNCHANGED <<running, item, queue, recent, pool, tooDeep>>

\* ... and raises TimeoutError when none is for a second, which nothing catches.
AwaitRaises == /\ MainGoes("none", "raising") /\ finished = 0 /\ Busy
               /\ UNCHANGED <<running, item, queue, recent, pool, finished, tooDeep>>

DropDeep == /\ MainGoes("test", "loop") /\ item.depth > MaxDepth
            /\ item' = Nothing
            /\ tooDeep' = tooDeep \cup {item.url}
            /\ UNCHANGED <<running, queue, recent, pool, finished>>

Skip == /\ MainGoes("test", "loop") /\ item.depth <= MaxDepth /\ Seen(item.url)
        /\ item' = Nothing
        /\ UNCHANGED <<running, queue, recent, pool, finished, tooDeep>>

Submit == /\ MainGoes("test", "clean") /\ item.depth <= MaxDepth /\ ~Seen(item.url)
          /\ pool' = Append(pool, item) /\ item' = Nothing
          /\ UNCHANGED <<running, queue, recent, finished, tooDeep>>

CleanDone == /\ MainGoes("clean", "loop") /\ finished' = 0
             /\ UNCHANGED <<running, item, queue, recent, pool, tooDeep>>

\* The last as_completed, and the executor's exit, with or without an exception.
Leave == /\ ~Busy
         /\ MainGoes("drain", "ended") \/ MainGoes("raising", "raised")
         /\ UNCHANGED <<running, item, queue, recent, pool, finished, tooDeep>>

\* stop, from a signal handler.
StopCrawl == /\ running /\ main \notin {"ended", "raised"} /\ running' = FALSE
             /\ UNCHANGED <<main, item, queue, recent, pool, finished, tooDeep>>

\* Mutant: to look at the time of the last access refreshes it.
ElapseNever(d) == /\ d \in recent /\ recent' = recent
                  /\ UNCHANGED <<running, main, item, queue, pool, finished, tooDeep>>

\* request_delay has passed since domain d was accessed.
Elapse(d) == /\ d \in recent /\ recent' = recent \ {d}
             /\ UNCHANGED <<running, main, item, queue, pool, finished, tooDeep>>

MainStep == Loop \/ Get \/ GetNone \/ Break \/ AwaitOne \/ DropDeep \/ Skip \/ Submit
            \/ CleanDone \/ Leave
-----------------------------------------------------------------------------
(* _crawl_page *)

Begin(w) == /\ at[w] = "idle" /\ pool # << >>
            /\ at' = [at EXCEPT ![w] = "mark"]
            /\ job' = [job EXCEPT ![w] = Head(pool)] /\ pool' = Tail(pool)
            /\ UNCHANGED <<queue, finished, page, todo, link, sawVars>>

Mark(w) == /\ at[w] = "mark" /\ at' = [at EXCEPT ![w] = "fetch"]
           /\ visited' = visited \cup {site.canon[job[w].url]}
           /\ UNCHANGED <<queue, pool, finished, job, page, todo, link, contents, history, crawled>>

\* The future is done, with a result or with an exception that nobody looks at.
Done(w) == /\ at' = [at EXCEPT ![w] = "idle"]
           /\ job' = [job EXCEPT ![w] = Nothing]
           /\ page' = [page EXCEPT ![w] = Nothing]
           /\ finished' = finished + 1
           /\ UNCHANGED <<queue, pool, todo, link, visited, contents, history>>

FetchFails(w) == at[w] = "fetch" /\ Done(w) /\ UNCHANGED crawled

FetchCopy(w) == /\ at[w] = "fetch"
                /\ site.holds[job[w].url] \cap contents # {}
                /\ Done(w) /\ UNCHANGED crawled

\* Mutant: the fingerprint is looked up but not marked.
FetchUnmarked(w) ==
  /\ at[w] = "fetch" /\ at' = [at EXCEPT ![w] = "save"]
  /\ \E c \in site.holds[job[w].url] \ contents : page' = [page EXCEPT ![w] = c]
  /\ UNCHANGED <<queue, pool, finished, job, todo, link, sawVars>>

\* The download and content_dedup.check_and_mark.
FetchNew(w) ==
  /\ at[w] = "fetch" /\ at' = [at EXCEPT ![w] = "save"]
  /\ \E c \in site.holds[job[w].url] \ contents :
       page' = [page EXCEPT ![w] = c] /\ contents' = contents \cup {c}
  /\ UNCHANGED <<queue, pool, finished, job, todo, link, visited, history, crawled>>

\* The page cannot be parsed, or save_page raises.
SaveFails(w) == at[w] = "save" /\ Done(w) /\ UNCHANGED crawled

SavePage(w) ==
  /\ at[w] = "save" /\ at' = [at EXCEPT ![w] = "links"]
  /\ history' = Append(history, [url |-> job[w].url, depth |-> job[w].depth,
                                 content |-> page[w]])
  /\ todo' = [todo EXCEPT ![w] = site.links[job[w].url]]
  /\ UNCHANGED <<queue, pool, finished, job, page, link, visited, contents, crawled>>

\* The filter and is_url_seen, for one link ...
Look(w, l) == /\ at[w] = "links" /\ l \in todo[w]
              /\ todo' = [todo EXCEPT ![w] = @ \ {l}]
              /\ IF l \in site.passing /\ ~Seen(l)
                 THEN /\ at' = [at EXCEPT ![w] = "add"]
                      /\ link' = [link EXCEPT ![w] = l]
                 ELSE UNCHANGED <<at, link>>
              /\ UNCHANGED <<queue, pool, finished, job, page, sawVars>>

\* ... and frontier.add, which refuses a URL that is in the queue.
AddLink(w) ==
  /\ at[w] = "add" /\ at' = [at EXCEPT ![w] = "links"]
  /\ queue' = IF link[w] \in {x.url : x \in queue} THEN queue
              ELSE queue \cup {[url |-> link[w], depth |-> job[w].depth + 1]}
  /\ link' = [link EXCEPT ![w] = Nothing]
  /\ UNCHANGED <<pool, finished, job, page, todo, sawVars>>

Count(w) == /\ at[w] = "links" /\ todo[w] = {}
            /\ crawled' = crawled + 1 /\ Done(w)

WorkerRuns(w) ==
  \/ Begin(w) \/ Mark(w)
  \/ FetchFails(w) \/ FetchCopy(w) \/ FetchNew(w)
  \/ SaveFails(w) \/ SavePage(w)
  \/ \E l \in todo[w] : Look(w, l)
  \/ AddLink(w) \/ Count(w)

CrawlNext ==
  \/ /\ MainStep \/ AwaitRaises \/ StopCrawl \/ \E d \in recent : Elapse(d)
     /\ UNCHANGED workVars
  \/ (\E w \in Workers : WorkerRuns(w)) /\ UNCHANGED crawlOnly
-----------------------------------------------------------------------------
(* Properties *)

\* README.md line 10, the deduplication of contents: however often a page is
\* downloaded and from however many URLs, what it holds is stored once, and in the
\* end pages_crawled says how many pages are stored.
EachContentOnce ==
  /\ \A i, j \in DOMAIN history : history[i].content = history[j].content => i = j
  /\ main = "ended" => crawled = Len(history)

\* When crawl finds "no more URLs to crawl" (line 165), not stopped, there are none:
\* the seeds and the links of every page stored have been visited if the filter lets
\* them through, but for those at which the depth limit cuts the crawl off.
NothingMissed ==
  LET found == site.seeds \cup
               UNION {site.links[history[i].url] :
                      i \in {j \in DOMAIN history : history[j].depth < MaxDepth}}
  IN  main = "ended" /\ running /\ crawled < MaxPages /\ site.patient =>
        \A u \in found \cap site.passing : Seen(u) \/ u \in tooDeep

\* The docstring of crawl, lines 142-143: it returns the statistics.
CrawlReturns == main # "raised"
=============================================================================
