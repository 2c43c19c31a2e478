---------------------------- MODULE MCServices ----------------------------
(***************************************************************************)
(* The URL shortener, the web crawler and its extensions for TLC, side by  *)
(* side: a behaviour is one of part, the others stay as they were made.    *)
(***************************************************************************)
EXTENDS URLShortener, Crawler, Extensions

CONSTANTS Parts, a, b, c, d

ASSUME WebAssumption == Pages = {a, b, c, d}

VARIABLE part

vars == <<part, shortenerVars, crawlVars, extVars>>

Web(la, lb, lc, ld) ==
  [p \in Pages |-> CASE p = a -> la [] p = b -> lb [] p = c -> lc [] p = d -> ld]

\* Four pages on two hosts, d at depth 2; two seeds on one host, a page that changes
\* and one that has two URLs and two names for them; a crawl whose delay is longer
\* than get waits, with a link and a seed that the filter keeps out.
Sites == {
  [links |-> Web({b, c}, {d}, {}, {c}), holds |-> Web({1}, {2}, {3}, {4}),
   canon |-> Web(a, b, c, d), domain |-> Web(1, 1, 2, 2),
   passing |-> Pages, seeds |-> {a}, patient |-> TRUE],
  [links |-> Web({c}, {d}, {a}, {b}), holds |-> Web({1, 2}, {2}, {3}, {3}),
   canon |-> Web(a, b, c, c), domain |-> Web(1, 1, 1, 1),
   passing |-> Pages, seeds |-> {a, b}, patient |-> TRUE],
  [links |-> Web({b, c}, {a}, {}, {}), holds |-> Web({1}, {2}, {3}, {4}),
   canon |-> Web(a, b, c, d), domain |-> Web(1, 1, 1, 1),
   passing |-> {a, b}, seeds |-> {a, d}, patient |-> FALSE]}

\* What the shortener's Init chooses matters only when it is the part that runs.
Init == /\ part \in Parts
        /\ site \in Sites /\ (part # "crawler" => ~site.patient) /\ CrawlInit
        /\ ShortenerInit
        /\ part # "shortener" =>
             callers = {} /\ \A u \in Urls : Range(hash[u]) = {CHOOSE k \in Keys : TRUE}
        /\ ExtensionsInit
        /\ part # "extensions" => ~managed /\ team = CHOOSE t \in Crews : TRUE

ShortenerPart == part = "shortener" /\ ShortenerNext /\ UNCHANGED <<part, crawlVars, extVars>>
CrawlerPart(A) == part = "crawler" /\ A /\ UNCHANGED <<part, shortenerVars, extVars>>
ExtensionsPart(A) == part = "extensions" /\ A /\ UNCHANGED <<part, shortenerVars, crawlVars>>

Next == ShortenerPart \/ CrawlerPart(CrawlNext) \/ ExtensionsPart(ExtensionsNext)

\* The threads run, a download comes to an end (request_timeout), and time passes.
\* Nothing makes main wait for more than a second, or stop.
Fairness ==
  /\ WF_vars(CrawlerPart(MainStep /\ UNCHANGED workVars))
  /\ \A w \in Workers : WF_vars(CrawlerPart(WorkerRuns(w) /\ UNCHANGED crawlOnly))
  /\ \A h \in {1, 2} : WF_vars(CrawlerPart(Elapse(h) /\ UNCHANGED workVars))
  /\ \A h \in Hands : WF_vars(ExtensionsPart(Runs(h)))

Spec == Init /\ [][Next]_vars /\ Fairness
-----------------------------------------------------------------------------
(* Properties *)

\* What is stored stays right: the shortener's two maps stay inverse to each other, and
\* Shorten gives up only when every key it may use is another URL's; the monitor's file
\* is what its cache says, and the manager's queue counts all that it waits for.
StorageKept == MapsAgree /\ FailsOnlyWhenAllTaken /\ MonitorKeeps /\ JoinWaitsForAll

\* No content is stored twice, and a crawl that ends for want of URLs has missed none.
EachPageOnce == EachContentOnce /\ NothingMissed

\* The crawl of a finite site comes to an end, however its pages link to each other;
\* and all that is left for the extensions' workers before stop is processed at last.
ServicesGetOn == <>[](/\ part = "crawler" => main \in {"ended", "raised"}
                      /\ part = "extensions" => NothingLeft)
=============================================================================
