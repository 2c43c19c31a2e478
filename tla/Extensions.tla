---------------------------- MODULE Extensions ----------------------------
(***************************************************************************)
(* webcrawler/extensions/: the manager of base.py, which runs the          *)
(* extensions on a page at once, on the thread that has it (as the crawler *)
(* does), or leaves the page in a queue for workers of its own; and the    *)
(* monitor of web_monitor.py among the extensions, whose cache, status     *)
(* file and history no lock protects.  The disk does not fail, but the     *)
(* program may be killed at any step and started again.                    *)
(***************************************************************************)
EXTENDS Naturals, FiniteSets, SequencesExt

CONSTANTS Hands, Crews,        \* the threads, and the sets of them there may be
          Watched, Hashes,     \* URLs, and what content_hash may be
          Stop, Unseen, Torn,  \* the None in the queue; no status; no valid JSON
          MaxHanded, MaxKills  \* bounds: the pages that come in, the kills

ASSUME ExtensionsAssumption == /\ MaxHanded \in Nat /\ MaxKills \in Nat
                               /\ IsFiniteSet(Hands) /\ Crews \subseteq SUBSET Hands
ASSUME MarksAssumption == /\ Unseen \notin Hashes \cup [url : Watched, hash : Hashes]
                          /\ Stop \notin [url : Watched, hash : Hashes]
                          /\ Torn \notin [Watched -> Hashes \cup {Unseen}]

VARIABLES managed,   \* _async_processing
          team,      \* the threads that call process, or the manager's _workers
          tasks,     \* _task_queue ...
          open,      \* ... and its unfinished_tasks
          on,        \* _running
          stopper,   \* where stop is
          hand,      \* where each thread is
          given,     \* the page it processes, [url, hash]
          before,    \* previous_status
          copy,      \* existing
          known,     \* _status_cache
          file,      \* latest_status.json
          lines,     \* history.jsonl
          handed, kills

manager == <<managed, team, tasks, open, on, stopper, handed, kills>>
disk == <<file, lines>>
extVars == <<manager, hand, given, before, copy, known, disk>>

Statuses == [Watched -> Hashes \cup {Unseen}]
NoStatus == [u \in Watched |-> Unseen]

\* _load_history, and the same in _save_status: a file that is not valid is none.
Loaded(f) == IF f = Torn THEN NoStatus ELSE f

\* Where a thread waits for its next page.
Rest == IF managed THEN "top" ELSE "idle"

ExtensionsInit == /\ managed \in BOOLEAN /\ team \in Crews
                  /\ tasks = << >> /\ open = 0 /\ on = managed /\ stopper = "no"
                  /\ hand = [h \in Hands |-> Rest]
                  /\ given = [h \in Hands |-> Unseen] /\ before = [h \in Hands |-> Unseen]
                  /\ copy = [h \in Hands |-> NoStatus]
                  /\ known = NoStatus /\ file = NoStatus /\ lines = << >>
                  /\ handed = 0 /\ kills = 0

HandGoes(h, from, to) == h \in team /\ hand[h] = from /\ hand' = [hand EXCEPT ![h] = to]
-----------------------------------------------------------------------------
(* ExtensionManager *)

NextPage(p) == /\ p \in [url : Watched, hash : Hashes]
               /\ handed < MaxHanded /\ handed' = handed + 1

\* process, called by a thread of the crawler.
ProcessNow(h, p) == /\ ~managed /\ NextPage(p)
                    /\ HandGoes(h, "idle", "look")
                    /\ given' = [given EXCEPT ![h] = p]
                    /\ UNCHANGED <<managed, team, tasks, open, on, stopper, kills>>
                    /\ UNCHANGED <<before, copy, known, disk>>

ProcessAsync(p) == /\ managed /\ NextPage(p)
                   /\ tasks' = Append(tasks, p) /\ open' = open + 1
                   /\ UNCHANGED <<managed, team, on, stopper, kills>>
                   /\ UNCHANGED <<hand, given, before, copy, known, disk>>

WorkerLoops(h) == /\ HandGoes(h, "top", IF on THEN "get" ELSE "left")
                  /\ UNCHANGED <<manager, given, before, copy, known, disk>>

Taken(h, from, to) == /\ tasks # << >> /\ HandGoes(h, from, to) /\ tasks' = Tail(tasks)
                      /\ UNCHANGED <<managed, team, open, on, stopper, handed, kills>>
                      /\ UNCHANGED <<before, copy, known, disk>>

GetTask(h) == /\ Taken(h, "get", "look") /\ Head(tasks) # Stop
              /\ given' = [given EXCEPT ![h] = Head(tasks)]

\* The None is taken without task_done.
GetStop(h) == Taken(h, "get", "left") /\ Head(tasks) = Stop /\ UNCHANGED given

\* Mutant: the worker leaves when the queue is empty for a second.
GetEmptyLeaves(h) == /\ tasks = << >> /\ HandGoes(h, "get", "left")
                     /\ UNCHANGED <<manager, given, before, copy, known, disk>>

GetEmpty(h) == /\ tasks = << >> /\ HandGoes(h, "get", "top")
               /\ UNCHANGED <<manager, given, before, copy, known, disk>>

\* What follows process: task_done, or the return to the crawler.
Processed(h) == /\ HandGoes(h, "done", Rest)
                /\ open' = IF managed THEN open - 1 ELSE open
                /\ given' = [given EXCEPT ![h] = Unseen]
                /\ before' = [before EXCEPT ![h] = Unseen]
                /\ copy' = [copy EXCEPT ![h] = NoStatus]
                /\ UNCHANGED <<managed, team, tasks, on, stopper, handed, kills>>
                /\ UNCHANGED <<known, disk>>

CallStop == /\ managed /\ stopper = "no" /\ stopper' = "put"
            /\ on' = FALSE
            /\ UNCHANGED <<managed, team, tasks, open, handed, kills>>
            /\ UNCHANGED <<hand, given, before, copy, known, disk>>

PutStops == /\ stopper = "put" /\ stopper' = "join"
            /\ tasks' = tasks \o [i \in 1 .. Cardinality(team) |-> Stop]
            /\ open' = open + Cardinality(team)
            /\ UNCHANGED <<managed, team, on, handed, kills>>
            /\ UNCHANGED <<hand, given, before, copy, known, disk>>

JoinReturns == /\ stopper = "join" /\ open = 0 /\ stopper' = "ended"
               /\ UNCHANGED <<managed, team, tasks, open, on, handed, kills>>
               /\ UNCHANGED <<hand, given, before, copy, known, disk>>

Kill == /\ kills < MaxKills /\ kills' = kills + 1
        /\ tasks' = << >> /\ open' = 0 /\ on' = managed /\ stopper' = "no"
        /\ UNCHANGED <<managed, team, handed, disk>>
        /\ hand' = [h \in Hands |-> Rest]
        /\ given' = [h \in Hands |-> Unseen] /\ before' = [h \in Hands |-> Unseen]
        /\ copy' = [h \in Hands |-> NoStatus]
        /\ known' = Loaded(file)
-----------------------------------------------------------------------------
(* WebMonitor.process *)

LookUp(h) == /\ HandGoes(h, "look", "remember")
             /\ before' = [before EXCEPT ![h] = known[given[h].url]]
             /\ UNCHANGED <<manager, given, copy, known, disk>>

Remember(h) == /\ HandGoes(h, "remember", "read")
               /\ known' = [known EXCEPT ![given[h].url] = given[h].hash]
               /\ UNCHANGED <<manager, given, before, copy, disk>>

\* Mutant: existing stays empty.
ReadNothing(h) == /\ HandGoes(h, "read", "open")
                  /\ UNCHANGED <<manager, given, before, copy, known, disk>>

ReadFile(h) == /\ HandGoes(h, "read", "open")
               /\ copy' = [copy EXCEPT ![h] = Loaded(file)]
               /\ UNCHANGED <<manager, given, before, known, disk>>

OpenFile(h) == /\ HandGoes(h, "open", "dump") /\ file' = Torn
               /\ UNCHANGED <<manager, given, before, copy, known, lines>>

\* Over what another thread has written since, the end of the longer text may stay.
Dump(h) == /\ HandGoes(h, "dump", "log")
           /\ \/ file' = [copy[h] EXCEPT ![given[h].url] = given[h].hash]
              \/ file # Torn /\ file' = Torn
           /\ UNCHANGED <<manager, given, before, copy, known, lines>>

ChangeType(h) == IF before[h] = Unseen THEN "new"
                 ELSE IF before[h] # given[h].hash THEN "modified" ELSE "unchanged"

Log(h) == /\ HandGoes(h, "log", "done")
          /\ lines' = Append(lines, [url |-> given[h].url, hash |-> given[h].hash,
                                     change |-> ChangeType(h)])
          /\ UNCHANGED <<manager, given, before, copy, known, file>>

Runs(h) == \/ WorkerLoops(h) \/ GetTask(h) \/ GetStop(h) \/ GetEmpty(h) \/ Processed(h)
           \/ LookUp(h) \/ Remember(h) \/ ReadFile(h) \/ OpenFile(h) \/ Dump(h) \/ Log(h)

ExtensionsNext ==
  \/ \E h \in Hands : Runs(h)
  \/ \E p \in [url : Watched, hash : Hashes] : ProcessAsync(p) \/ \E h \in Hands : ProcessNow(h, p)
  \/ CallStop \/ PutStops \/ JoinReturns \/ Kill
-----------------------------------------------------------------------------
(* Properties *)

\* With one thread that processes, between its pages the file says what the cache
\* says, also after the program was killed amid a save, and as long as it was not, a
\* line of the history tells how its page differs from the URL's line before.
MonitorKeeps ==
  Cardinality(team) = 1 =>
    /\ (\A h \in team : given[h] = Unseen) => Loaded(file) = known
    /\ kills = 0 => \A i \in DOMAIN lines :
         LET earlier == {j \in 1 .. i - 1 : lines[j].url = lines[i].url}
         IN  CASE lines[i].change = "new" -> earlier = {}
               [] lines[i].change = "modified" ->
                    earlier # {} /\ lines[Max(earlier)].hash # lines[i].hash
               [] OTHER -> earlier # {} /\ lines[Max(earlier)].hash = lines[i].hash

\* The queue never counts fewer tasks than there are: what join waits for covers the
\* pages queued, those being processed, and the signals to stop that were put.
JoinWaitsForAll ==
  managed => open >= Len(tasks) + Cardinality({h \in team : given[h] # Unseen})

\* Nothing is left for the workers and none is processing, unless stop has been called.
NothingLeft == \/ ~on \/ team = {}
               \/ tasks = << >> /\ \A h \in team : given[h] = Unseen
=============================================================================
