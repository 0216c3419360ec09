---------------------------- MODULE HelperPages ----------------------------
(***************************************************************************)
(* The helper pages by which a profile's localStorage is written into a    *)
(* browser and read from it (core/profile/helper-pool, inject-eager,       *)
(* inject-background, capture-full over WsCDPClient): a few tabs whose     *)
(* requests are answered with an empty page are sent from origin to        *)
(* origin, each with a deadline of its own after which the tab goes on to  *)
(* the next.  Late answers find nobody.                                    *)
(***************************************************************************)
EXTENDS Integers, Sequences, FiniteSets

CONSTANTS
  OriginCount,    \* the origins, in the order of the queue
  HelperCount,    \* helperPages
  MaxTimeouts,    \* bound: deadlines that pass
  MaxRefusals     \* bound: commands that fail

ASSUME HelperAssumption ==
  /\ OriginCount \in Nat \ {0} /\ HelperCount \in Nat \ {0}
  /\ MaxTimeouts \in Nat /\ MaxRefusals \in Nat

VARIABLES
  task,            \* "inject", "background" or "capture"
  transient,      \* the call has a connection of its own and a deadline
  link,           \* the connection: "up" or "lost"
  pool,           \* "opening", "working", "closing", "over"
  installed,      \* the handler of Fetch.requestPaused
  helpers,        \* the helper pages that were opened
  cursor,
  queue,          \* what is left to do, in order
  worker,         \* what each helper awaits, and for which origin
  frame,          \* each tab: its page, where it is going, whether that was served
  toHelper,       \* commands to each tab
  fromHelper,     \* answers of each tab
  content,        \* whose entries the localStorage of each origin holds, Before if as it was
  writers,        \* how often each was written
  fetched,        \* capture: what was read for each origin
  finished, missed,   \* onSuccess, onError
  alreadyInjected,
  verdict,        \* what the caller was told
  strays,         \* tabs left open by a command that failed
  timeouts, refusals

helperVars ==
  <<task, transient, link, pool, installed, helpers, cursor, queue, worker, frame, toHelper, fromHelper,
    content, writers, fetched, finished, missed, alreadyInjected, verdict, strays, timeouts, refusals>>

Origins == 1..OriginCount
Before == 0
Nowhere == 0          \* about:blank
ErrorPage == -1
Pool == 1..HelperCount
Smaller(m, n) == IF m < n THEN m ELSE n
Spare == [at |-> "free", origin |-> Nowhere]
Standing == [doc |-> Nowhere, going |-> Nowhere, served |-> FALSE]

HelpersInit ==
  /\ task \in {"inject", "background", "capture"} /\ transient \in BOOLEAN
  /\ link = "up" /\ pool = "opening" /\ installed = TRUE
  /\ helpers = {} /\ cursor = 0 /\ queue = [i \in Origins |-> i]
  /\ worker = [h \in Pool |-> Spare] /\ frame = [h \in Pool |-> Standing]
  /\ toHelper = [h \in Pool |-> <<>>] /\ fromHelper = [h \in Pool |-> <<>>]
  /\ content = [o \in Origins |-> Before] /\ writers = [o \in Origins |-> 0]
  /\ fetched = [o \in Origins |-> Before] /\ finished = {} /\ missed = {} /\ alreadyInjected = {}
  /\ verdict = "none" /\ strays = {} /\ timeouts = 0 /\ refusals = 0

jobKept == UNCHANGED <<task, transient>>
tabsKept == UNCHANGED <<frame, toHelper, fromHelper, content, writers>>

-----------------------------------------------------------------------------
(* openHelperPool: one page after the other.                               *)

\* The queue of the background phase leaves out what lazy hydration has taken
\* while the pages were opened, and takes the rest for itself.
Remaining == IF task = "background" THEN SelectSeq(queue, LAMBDA o : o \notin alreadyInjected) ELSE queue

StartsWork ==
  /\ pool' = "working" /\ queue' = Remaining
  /\ alreadyInjected' = IF task = "background" THEN Origins ELSE alreadyInjected

Wanted == Smaller(HelperCount, OriginCount)

OpensHelper ==
  /\ pool = "opening" /\ link = "up"
  /\ LET h == Cardinality(helpers) + 1 IN
       /\ helpers' = helpers \cup {h}
       /\ IF h = Wanted THEN StartsWork ELSE UNCHANGED <<pool, queue, alreadyInjected>>
  /\ UNCHANGED <<link, installed, cursor, worker, fetched, finished, missed, verdict, strays, timeouts,
                 refusals>>
  /\ jobKept /\ tabsKept

\* The first page that cannot be opened fails the call; with a later one the pool
\* is smaller.  Its target may have been created.
OpenFails ==
  /\ pool = "opening"
  /\ \/ link = "up" /\ refusals < MaxRefusals /\ refusals' = refusals + 1
        /\ \E s \in SUBSET {Cardinality(helpers) + 1} : strays' = strays \cup s
     \/ link = "lost" /\ UNCHANGED <<refusals, strays>>
  /\ IF helpers = {}
     THEN /\ pool' = "over" /\ verdict' = IF verdict = "none" THEN "failed" ELSE verdict
          /\ installed' = (task # "background")    \* openHelperPool is called before the try
          /\ UNCHANGED <<queue, alreadyInjected>>
     ELSE StartsWork /\ UNCHANGED <<verdict, installed>>
  /\ UNCHANGED <<link, helpers, cursor, worker, fetched, finished, missed, timeouts>> /\ jobKept /\ tabsKept

\* A page of the session is opened at one of the origins, and is hydrated.
HydrateLazily(o) ==
  /\ task = "background" /\ o \notin alreadyInjected
  /\ alreadyInjected' = alreadyInjected \cup {o}
  /\ content' = [content EXCEPT ![o] = o] /\ writers' = [writers EXCEPT ![o] = @ + 1]
  /\ UNCHANGED <<link, pool, installed, helpers, cursor, queue, worker, frame, toHelper, fromHelper, fetched,
                 finished, missed, verdict, strays, timeouts, refusals>>
  /\ jobKept

-----------------------------------------------------------------------------
(* runHelperPool and navigateAndEvaluate.                                  *)

poolKept == UNCHANGED <<link, pool, installed, helpers, queue, alreadyInjected, verdict, strays, refusals>>

Send(h, does, o) == toHelper' = [toHelper EXCEPT ![h] = Append(@, [does |-> does, origin |-> o])]

\* The next origin, or none is left.  A connection that is lost takes no command.
Takes(h) ==
  /\ pool = "working" /\ h \in helpers /\ worker[h].at = "free"
  /\ cursor' = cursor + 1
  /\ IF cursor' > Len(queue)
     THEN worker' = [worker EXCEPT ![h].at = "idle"] /\ UNCHANGED <<toHelper, missed>>
     ELSE LET o == queue[cursor'] IN
          IF link = "up"
          THEN /\ worker' = [worker EXCEPT ![h] = [at |-> "navigate", origin |-> o]]
               /\ Send(h, "navigate", o) /\ UNCHANGED missed
          ELSE missed' = missed \cup {o} /\ UNCHANGED <<worker, toHelper>>
  /\ UNCHANGED <<frame, fromHelper, content, writers, fetched, finished, timeouts>> /\ poolKept /\ jobKept

Fails(h) ==
  /\ missed' = missed \cup {worker[h].origin}
  /\ worker' = [worker EXCEPT ![h] = Spare]

\* raceTimeout
TimesOut(h) ==
  /\ worker[h].at \in {"navigate", "evaluate"}
  /\ timeouts < MaxTimeouts /\ timeouts' = timeouts + 1
  /\ Fails(h)
  /\ UNCHANGED <<cursor, toHelper, frame, fromHelper, content, writers, fetched, finished>>
  /\ poolKept /\ jobKept

Expected(h, m) == worker[h].at = m.answers /\ worker[h].origin = m.origin

\* The page has come: the script is run in it.
Arrived(h, m) == Expected(h, m) /\ m.answers = "navigate"

\* A page that shows an error has no storage: reading it fails, and a script that
\* writes reports what it could not write, which nobody looks at.
Evaluated(h, m) ==
  /\ Expected(h, m) /\ m.answers = "evaluate"
  /\ IF task = "capture" /\ m.from \notin Origins
     THEN Fails(h) /\ UNCHANGED <<finished, fetched>>
     ELSE /\ finished' = finished \cup {m.origin}
          /\ fetched' = IF task = "capture" THEN [fetched EXCEPT ![m.origin] = m.from] ELSE fetched
          /\ worker' = [worker EXCEPT ![h] = Spare] /\ UNCHANGED missed

AnswerComes(h) ==
  /\ fromHelper[h] # <<>> /\ fromHelper' = [fromHelper EXCEPT ![h] = Tail(@)]
  /\ LET m == Head(fromHelper[h]) IN
       \/ /\ Arrived(h, m)
          /\ worker' = [worker EXCEPT ![h].at = "evaluate"] /\ Send(h, "evaluate", worker[h].origin)
          /\ UNCHANGED <<finished, missed, fetched>>
       \/ /\ ~Arrived(h, m) /\ Evaluated(h, m)
          /\ UNCHANGED toHelper
       \/ /\ ~Arrived(h, m) /\ ~Expected(h, m)
          /\ UNCHANGED <<worker, toHelper, finished, missed, fetched>>
  /\ UNCHANGED <<cursor, frame, content, writers, timeouts>> /\ poolKept /\ jobKept

-----------------------------------------------------------------------------
(* The browser.                                                            *)

callKept == UNCHANGED <<cursor, worker, fetched, finished, missed, timeouts>> /\ poolKept /\ jobKept

Reports(h, answers, o, from) ==
  fromHelper' = [fromHelper EXCEPT ![h] = Append(@, [answers |-> answers, origin |-> o, from |-> from])]

\* A navigation that is under way ends when another begins; a script runs in the
\* page there is.
HelperTabTakes(h) ==
  /\ link = "up" /\ toHelper[h] # <<>> /\ toHelper' = [toHelper EXCEPT ![h] = Tail(@)]
  /\ LET c == Head(toHelper[h])
         p == frame[h].doc
     IN
       \/ /\ c.does = "navigate"
          /\ frame' = [frame EXCEPT ![h].going = c.origin, ![h].served = FALSE]
          /\ IF frame[h].going = Nowhere THEN UNCHANGED fromHelper ELSE Reports(h, "aborted", frame[h].going, p)
          /\ UNCHANGED <<content, writers>>
       \/ /\ c.does = "evaluate" /\ Reports(h, "evaluate", c.origin, p) /\ UNCHANGED frame
          /\ IF task # "capture" /\ p \in Origins
             THEN content' = [content EXCEPT ![p] = c.origin] /\ writers' = [writers EXCEPT ![p] = @ + 1]
             ELSE UNCHANGED <<content, writers>>
  /\ callKept

\* Fetch.requestPaused: the request of a helper is answered with an empty page.
Fulfills(h) ==
  /\ link = "up" /\ installed /\ h \in helpers /\ frame[h].going # Nowhere /\ ~frame[h].served
  /\ frame' = [frame EXCEPT ![h].served = TRUE]
  /\ UNCHANGED <<toHelper, fromHelper, content, writers>> /\ callKept

\* The page is there, or an error in its place.
HelperCommits(h) ==
  /\ link = "up" /\ frame[h].going # Nowhere
  /\ \/ frame[h].served /\ frame' = [frame EXCEPT ![h] = [Standing EXCEPT !.doc = frame[h].going]]
        /\ UNCHANGED refusals
     \/ refusals < MaxRefusals /\ refusals' = refusals + 1
        /\ frame' = [frame EXCEPT ![h] = [Standing EXCEPT !.doc = ErrorPage]]
  /\ Reports(h, "navigate", frame[h].going, frame[h].doc)
  /\ UNCHANGED <<toHelper, content, writers, cursor, worker, fetched, finished, missed, timeouts, link, pool,
                 installed, helpers, queue, alreadyInjected, verdict, strays>>
  /\ jobKept

\* The connection is lost: everything that is awaited is rejected.
LinkLost ==
  /\ link = "up" /\ pool # "over" /\ refusals < MaxRefusals /\ refusals' = refusals + 1
  /\ link' = "lost"
  /\ missed' = missed \cup {worker[h].origin : h \in {g \in Pool : worker[g].at \in {"navigate", "evaluate"}}}
  /\ worker' = [h \in Pool |-> IF worker[h].at \in {"navigate", "evaluate"} THEN Spare ELSE worker[h]]
  /\ toHelper' = [h \in Pool |-> <<>>] /\ fromHelper' = [h \in Pool |-> <<>>]
  /\ strays' = strays \cup helpers
  /\ UNCHANGED <<pool, installed, helpers, cursor, queue, frame, content, writers, fetched, finished,
                 alreadyInjected, verdict, timeouts>>
  /\ jobKept

-----------------------------------------------------------------------------
(* The end.                                                                *)

\* The finally block: the handler goes, then every page of the pool.
WorkEnds ==
  /\ pool = "working" /\ \A h \in helpers : worker[h].at = "idle"
  /\ pool' = "closing" /\ installed' = FALSE
  /\ UNCHANGED <<link, helpers, cursor, queue, worker, fetched, finished, missed, alreadyInjected, verdict,
                 strays, timeouts, refusals>>
  /\ jobKept /\ tabsKept

\* closeHelperPages: whatever becomes of it.
ClosesHelper(h) ==
  /\ pool = "closing" /\ h \in helpers
  /\ helpers' = helpers \ {h}
  /\ \/ UNCHANGED <<strays, refusals>>
     \/ link = "up" /\ refusals < MaxRefusals /\ refusals' = refusals + 1 /\ strays' = strays \cup {h}
  /\ toHelper' = [toHelper EXCEPT ![h] = <<>>] /\ fromHelper' = [fromHelper EXCEPT ![h] = <<>>]
  /\ UNCHANGED <<link, pool, installed, cursor, queue, worker, frame, content, writers, fetched, finished,
                 missed, alreadyInjected, verdict, timeouts>>
  /\ jobKept

PoolEnds ==
  /\ pool = "closing" /\ helpers = {}
  /\ pool' = "over" /\ verdict' = IF verdict = "none" THEN "done" ELSE verdict
  /\ UNCHANGED <<link, installed, helpers, cursor, queue, worker, fetched, finished, missed, alreadyInjected,
                 strays, timeouts, refusals>>
  /\ jobKept /\ tabsKept

\* withDeadline: the caller is told, the work goes on.
DeadlinePasses ==
  /\ transient /\ task # "background" /\ pool # "over" /\ verdict = "none"
  /\ timeouts < MaxTimeouts /\ timeouts' = timeouts + 1
  /\ verdict' = "failed"
  /\ UNCHANGED <<link, pool, installed, helpers, cursor, queue, worker, fetched, finished, missed,
                 alreadyInjected, strays, refusals>>
  /\ jobKept /\ tabsKept

HelpersNext ==
  \/ OpensHelper \/ OpenFails \/ LinkLost \/ WorkEnds \/ PoolEnds \/ DeadlinePasses
  \/ \E o \in Origins : HydrateLazily(o)
  \/ \E h \in Pool :
       \/ Takes(h) \/ TimesOut(h) \/ AnswerComes(h) \/ ClosesHelper(h)
       \/ HelperTabTakes(h) \/ Fulfills(h) \/ HelperCommits(h)

HelpersSpec == HelpersInit /\ [][HelpersNext]_helperVars

-----------------------------------------------------------------------------
(* Properties.                                                             *)

\* The script of an origin runs in a page of that origin, whatever timed out before
\* in the same tab: nothing is written to, or read from, another.
OwnEntries == \A o \in Origins : content[o] \in {Before, o} /\ fetched[o] \in {Before, o}

\* An origin hydrated by a page of the session, which may have changed it since, is
\* not written again.
WrittenOnce == \A o \in Origins : writers[o] =< 1

\* When the work is over every origin was done or reported as skipped, and not both.
EachAccounted ==
  /\ finished \cap missed = {}
  /\ pool = "closing" => finished \cup missed = {queue[i] : i \in DOMAIN queue}

\* No helper page stays open unless a command of its own failed.
HelpersGo == pool = "over" => helpers = {}

\* What a profile's storage relies on.
HelpersSound == OwnEntries /\ WrittenOnce /\ EachAccounted /\ HelpersGo
=============================================================================
