------------------------------ MODULE AgentActs ------------------------------
(***************************************************************************)
(* What one agent does with one tab (agent-tools/session.ts: act, goto,    *)
(* navigate, snapshot; tools browser_act, browser_navigate,                *)
(* browser_snapshot) while the page changes, loads, redirects and opens    *)
(* dialogs as it likes.  The browser answers and reports over one ordered  *)
(* connection.  A page's content is <<document, version>>; a diff against  *)
(* what the agent was told last is modelled by what it can tell from it.   *)
(* Beside it, with variables of its own, what the session notes of its     *)
(* pages (agent-tools/observe.ts): the ring of console lines, the ring of  *)
(* requests and the index by which an answer finds its request, and the    *)
(* two readers of the rings: one passes on the cursor it was given, the    *)
(* log tools of computer use share one.                                    *)
(***************************************************************************)
EXTENDS Naturals, Sequences, FiniteSets, SequencesExt

CONSTANTS MaxDocs,     \* documents the tab can show
          MaxVersions, \* changes of one document
          MaxCalls,    \* tool calls
          MaxSteps,    \* steps of one act
          LoopRepeats, \* loopGuardRepeats
          NoText, Muddled

ASSUME AgentActsAssumption == LoopRepeats \in Nat \ {0} /\ NoText # Muddled

VARIABLES
  shows,    \* the document, its version, and whether it is loaded
  dialog,   \* none, open (the page is frozen), or being answered
  feed,     \* what the browser has sent and the session has not read yet
  cmd,      \* the command under way: its kind, or where its answer is
  acting,   \* how far the tool call is
  acted,     \* the tool call
  ears,     \* what the load listeners of settle and waitForLoad heard
  retried,  \* PageWorld.call has rebuilt its world once
  steps,    \* the step that runs
  fails,    \* how often the same step has failed in a row
  before,   \* lastSnapshot when act began
  last,     \* tab.lastSnapshot
  told,     \* the page as the agent can tell it from what it was sent
  found,    \* a snapshot not sent yet
  owed,     \* a load the steps began has not ended
  ending,   \* how the last act ended
  acts     \* bound

actsVars == <<shows, dialog, feed, cmd, acting, acted, ears, retried, steps, fails, before, last, told,
              found, owed, ending, acts>>
pageVars == <<shows, dialog>>
knownVars == <<before, last, told, found>>

Deaf == [on |-> FALSE, navigated |-> FALSE, loading |-> FALSE, loaded |-> FALSE]
AllEars == [Deaf EXCEPT !.on = TRUE]
Text == <<shows.doc, shows.version>>

ActsInit ==
  /\ shows = [doc |-> 1, version |-> 0, load |-> "done"]
  /\ dialog = "none" /\ feed = <<>> /\ cmd = "none"
  /\ acting = "idle" /\ acted = "none" /\ ears = Deaf /\ retried = FALSE /\ steps = 0 /\ fails = 0
  /\ before = NoText /\ last = NoText /\ told = NoText /\ found = NoText
  /\ owed = FALSE /\ ending = "none" /\ acts = 0

----------------------------------------------------------------------------
(* The browser.  A frozen page answers nothing that runs in it. *)

Says(events) == feed' = feed \o events
Event(e) == <<e, NoText>>
Answer(a) == <<a, NoText>>

\* A load begins: by a step, by a command, or by the page itself.
LoadBegins == shows.doc < MaxDocs /\ shows' = [shows EXCEPT !.load = "begun"]

\* Script contexts of the old document answer with an error.
Commit ==
  /\ shows.load = "begun" /\ dialog = "none"
  /\ shows' = [doc |-> shows.doc + 1, version |-> 0, load |-> "shown"]
  /\ IF cmd \in {"quiet", "read", "wait", "evaluate"} THEN Says(<<Answer("lost")>>) /\ cmd' = "answered"
     ELSE IF cmd = "going" THEN Says(<<Answer("ok")>>) /\ cmd' = "answered"
     ELSE UNCHANGED <<feed, cmd>>
  /\ UNCHANGED <<dialog, acting, acted, ears, retried, steps, fails, knownVars, owed, ending, acts>>

LoadEnds ==
  /\ shows.load = "shown" /\ dialog = "none"
  /\ shows' = [shows EXCEPT !.load = "done"]
  /\ Says(<<Event("load")>>) /\ owed' = FALSE
  /\ UNCHANGED <<dialog, cmd, acting, acted, ears, retried, steps, fails, knownVars, ending, acts>>

\* The page changes, or redirects itself.
PageMoves ==
  /\ dialog = "none"
  /\ \/ /\ shows.version < MaxVersions /\ shows' = [shows EXCEPT !.version = @ + 1]
        /\ UNCHANGED feed
     \/ shows.load # "begun" /\ LoadBegins /\ Says(<<Event("start")>>)
  /\ UNCHANGED <<dialog, cmd, acting, acted, ears, retried, steps, fails, knownVars, owed,
                 ending, acts>>

\* The input of one step.  The report of a load it begins may come before or
\* after the answer.
StepObeyed ==
  /\ cmd = "input" /\ dialog = "none"
  /\ \/ /\ cmd' = "answered" /\ UNCHANGED <<dialog, owed>>
        /\ \/ UNCHANGED shows /\ \E a \in {"ok", "refused"} : Says(<<Answer(a)>>)
           \/ shows.version < MaxVersions /\ shows' = [shows EXCEPT !.version = @ + 1] /\ Says(<<Answer("ok")>>)
     \/ /\ cmd' = "answered" /\ UNCHANGED dialog
        /\ shows.load = "done" /\ LoadBegins /\ owed' = TRUE
        /\ Says(<<Event("start"), Answer("ok")>>) \/ Says(<<Answer("ok"), Event("start")>>)
     \/ /\ cmd' = "held" /\ dialog' = "open" /\ Says(<<Event("dialog")>>)
        /\ UNCHANGED <<shows, owed>>
  /\ UNCHANGED <<acting, acted, ears, retried, steps, fails, knownVars, ending, acts>>

\* Page.handleJavaScriptDialog reaches the browser.
DialogCloses ==
  /\ dialog = "answering" /\ dialog' = "none"
  /\ IF cmd = "held" THEN cmd' = "answered" /\ Says(<<Answer("ok")>>) ELSE UNCHANGED <<cmd, feed>>
  /\ UNCHANGED <<shows, acting, acted, ears, retried, steps, fails, knownVars, owed, ending, acts>>

\* QUIET_FN, SNAPSHOT_FN, WAIT_FN, READERS, the agent's own script.
ScriptAnswers ==
  /\ dialog = "none"
  /\ \/ cmd = "quiet" /\ Says(<<Answer("ok")>>)
     \/ cmd = "read" /\ Says(<< <<"text", Text>> >>)
     \/ cmd \in {"wait", "evaluate"} /\ \E a \in {"ok", "refused"} : Says(<<Answer(a)>>)
  /\ cmd' = "answered"
  /\ UNCHANGED <<pageVars, acting, acted, ears, retried, steps, fails, knownVars, owed, ending, acts>>

\* Page.navigate; a url that only moves within the document loads nothing.
Goes ==
  /\ cmd = "go"
  /\ \/ shows.load # "begun" /\ LoadBegins /\ Says(<<Event("start")>>) /\ cmd' = "going"
     \/ shows.load = "begun" /\ cmd' = "going" /\ UNCHANGED <<shows, feed>>
     \/ cmd' = "answered" /\ Says(<<Answer("ok")>>) /\ UNCHANGED shows
  /\ UNCHANGED <<dialog, acting, acted, ears, retried, steps, fails, knownVars, owed, ending, acts>>

----------------------------------------------------------------------------
(* Calls *)

Calls(t) == acting = "idle" /\ acts < MaxCalls /\ acts' = acts + 1 /\ acted' = t /\ retried' = FALSE

CallsAct ==
  /\ Calls("act") /\ acting' = "steps" /\ cmd' = "input" /\ steps' = 1 /\ before' = last /\ ears' = Deaf
  /\ ending' = "none"
  /\ UNCHANGED <<pageVars, feed, fails, last, told, found, owed>>

CallsNavigate ==
  /\ Calls("navigate") /\ acting' = "loading" /\ cmd' = "go" /\ last' = NoText /\ ears' = AllEars
  /\ UNCHANGED <<pageVars, feed, steps, fails, before, told, found, owed, ending>>

CallsSnapshot ==
  /\ \E t \in {"snapshot", "sinceLast"} : Calls(t)
  /\ acting' = "read" /\ cmd' = "read"
  /\ UNCHANGED <<pageVars, feed, ears, steps, fails, knownVars, owed, ending>>

\* browser_extract, browser_evaluate.
CallsRead ==
  /\ Calls("read") /\ acting' = "evaluate" /\ cmd' = "evaluate"
  /\ UNCHANGED <<pageVars, feed, ears, steps, fails, knownVars, owed, ending>>

CallsWait ==
  /\ Calls("wait") /\ acting' = "waitFor" /\ cmd' = "wait"
  /\ UNCHANGED <<pageVars, feed, ears, steps, fails, knownVars, owed, ending>>

\* fetch_page: goto, an optional wait, the content type, the content.
CallsFetch ==
  /\ Calls("fetch") /\ acting' = "loading" /\ cmd' = "go" /\ last' = NoText /\ ears' = AllEars
  /\ UNCHANGED <<pageVars, feed, steps, fails, before, told, found, owed, ending>>

\* The call ends with an error: what it had found is not sent.
Fails ==
  /\ acting' = "idle" /\ cmd' = "none" /\ ears' = Deaf
  /\ found' = NoText

----------------------------------------------------------------------------
(* The steps of act, and what follows them *)

\* settle, unless the caller asked for none.
StepsEnd ==
  \/ acting' = "quiet" /\ cmd' = "quiet" /\ ears' = AllEars /\ ending' = "settled"
     /\ UNCHANGED steps
  \/ acting' = "read" /\ cmd' = "read" /\ ears' = ears /\ ending' = "unsettled" /\ UNCHANGED steps

NextStep ==
  /\ steps < MaxSteps /\ steps' = steps + 1
  /\ acting' = "steps" /\ cmd' = "input" /\ UNCHANGED <<ears, ending>>

\* recordFailure, stopOnError.
StepFails ==
  \E n \in {1, fails + 1} :
    IF n >= LoopRepeats
    THEN fails' = 0 /\ Fails /\ UNCHANGED <<steps, ending>>
    ELSE fails' = n /\ (StepsEnd \/ NextStep) /\ UNCHANGED found

StepWorks == fails' = 0 /\ (StepsEnd \/ NextStep) /\ UNCHANGED found

\* The page is read: the tail of act, the snapshot of navigate.
Reads == acting' = "read" /\ cmd' = "read" /\ ears' = Deaf

\* LOAD_AFTER_ACTION_MS.
GivesUp == acting = "awaitLoad" /\ ~ears.loaded

\* After waitForQuiet: a load heard to begin is waited for, once.
QuietEnds ==
  IF ears.loading
  THEN acting' = "awaitLoad" /\ cmd' = "none" /\ UNCHANGED <<ears, last>>
  ELSE Reads /\ last' = IF ears.navigated THEN NoText ELSE last

SettleEnds ==
  /\ acting = "awaitLoad" /\ (ears.loaded \/ GivesUp)
  /\ ending' = IF ears.loaded THEN ending ELSE "gave up"
  /\ Reads /\ last' = IF ears.navigated THEN NoText ELSE last
  /\ UNCHANGED <<pageVars, feed, acted, retried, steps, fails, before, told, found, owed, acts>>

TimerEnds ==
  /\ acting = "timer" /\ QuietEnds
  /\ UNCHANGED <<pageVars, feed, acted, retried, steps, fails, before, told, found, owed,
                 ending, acts>>

\* diffSnapshots: without a base the whole text is sent.
Learns(text) == IF before = NoText \/ told = before THEN text ELSE Muddled

\* What a finished reading gives to whom.
ReadEnds(text) ==
  CASE acted = "act" ->
         /\ last' = text /\ told' = Learns(text)
         /\ ending' = IF ending = "settled" /\ owed THEN "mid-load" ELSE ending
         /\ acting' = "idle" /\ cmd' = "none" /\ UNCHANGED found
    [] acted = "sinceLast" /\ last = text ->
         acting' = "idle" /\ cmd' = "none" /\ UNCHANGED <<last, told, found, ending>>
    [] acted = "navigate" ->
         /\ last' = text
         /\ \/ acting' = "evaluate" /\ cmd' = "evaluate" /\ found' = text /\ UNCHANGED <<told>>
            \/ acting' = "idle" /\ cmd' = "none" /\ told' = text /\ UNCHANGED found
         /\ UNCHANGED ending
    [] OTHER ->
         /\ last' = text /\ told' = text
         /\ acting' = "idle" /\ cmd' = "none" /\ UNCHANGED <<found, ending>>

\* loadingVia: the answer and the load; then a snapshot, a script, or nothing.
Loaded ==
  /\ acting = "loading" /\ cmd = "none" /\ ears.loaded
  /\ \/ acted = "navigate" /\ Reads
     \/ acted = "navigate" /\ acting' = "evaluate" /\ cmd' = "evaluate" /\ ears' = Deaf
     \/ acted = "navigate" /\ acting' = "idle" /\ cmd' = "none" /\ ears' = Deaf
     \/ acted = "fetch" /\ acting' = "waitFor" /\ cmd' = "wait" /\ ears' = Deaf
     \/ acted = "fetch" /\ acting' = "probe" /\ cmd' = "evaluate" /\ ears' = Deaf
  /\ UNCHANGED <<pageVars, feed, acted, retried, steps, fails, knownVars, owed, ending, acts>>

----------------------------------------------------------------------------
(* The connection *)

\* The observers answer every dialog.
AnswersDialogs == TRUE

Heard(e) ==
  CASE e = "dialog" -> dialog' = (IF AnswersDialogs THEN "answering" ELSE dialog) /\ UNCHANGED ears
    [] e = "start" -> ears' = (IF ears.on THEN [ears EXCEPT !.loading = TRUE] ELSE ears) /\ UNCHANGED dialog
    [] e = "load" ->
         /\ ears' = IF ears.on THEN [ears EXCEPT !.navigated = TRUE, !.loading = FALSE, !.loaded = TRUE] ELSE ears
         /\ UNCHANGED dialog

EventRead ==
  /\ feed # <<>> /\ Head(feed)[1] \in {"start", "load", "dialog"}
  /\ feed' = Tail(feed) /\ Heard(Head(feed)[1])
  /\ UNCHANGED <<shows, cmd, acting, acted, retried, steps, fails, knownVars, owed, ending, acts>>

\* A command of this call is answered; one whose deadline passed is nobody's.
TakenAnswer(answers) == feed # <<>> /\ Head(feed)[1] \in answers /\ feed' = Tail(feed) /\ cmd = "answered"

StepAnswered ==
  /\ acting = "steps" /\ TakenAnswer({"ok", "refused"})
  /\ IF Head(feed)[1] = "ok" THEN StepWorks ELSE StepFails
  /\ UNCHANGED <<pageVars, acted, retried, before, last, told, owed, acts>>

QuietAnswered ==
  /\ acting = "quiet" /\ TakenAnswer({"ok", "lost"})
  /\ IF Head(feed)[1] = "ok" THEN QuietEnds /\ UNCHANGED retried
     ELSE /\ retried' = TRUE /\ UNCHANGED <<ears, last>>
          /\ IF retried THEN acting' = "timer" /\ cmd' = "none" ELSE cmd' = "quiet" /\ UNCHANGED acting
  /\ UNCHANGED <<pageVars, acted, steps, fails, before, told, found, owed, ending, acts>>

ReadAnswered ==
  /\ acting = "read" /\ TakenAnswer({"text", "lost"})
  /\ \/ /\ Head(feed)[1] = "text" /\ ReadEnds(Head(feed)[2]) /\ UNCHANGED <<ears, retried>>
     \/ /\ Head(feed)[1] = "lost" /\ ~retried /\ retried' = TRUE /\ cmd' = "read"
        /\ UNCHANGED <<acting, ears, last, told, found, ending>>
     \/ /\ Head(feed)[1] = "lost" /\ retried /\ Fails /\ UNCHANGED <<retried, last, told, ending>>
  /\ UNCHANGED <<pageVars, acted, steps, fails, before, owed, acts>>

NavigateAnswered ==
  /\ acting = "loading" /\ TakenAnswer({"ok"}) /\ cmd' = "none"
  /\ UNCHANGED <<pageVars, acting, acted, ears, retried, steps, fails, knownVars, owed, ending, acts>>

ScriptAnswered ==
  /\ acting = "evaluate" /\ TakenAnswer({"ok", "refused", "lost"})
  /\ IF Head(feed)[1] = "ok"
     THEN /\ acting' = "idle" /\ cmd' = "none" /\ found' = NoText
          /\ told' = (IF found = NoText THEN told ELSE found) /\ UNCHANGED ears
     ELSE Fails /\ UNCHANGED told
  /\ UNCHANGED <<pageVars, acted, retried, steps, fails, before, last, owed, ending, acts>>

\* waitForCondition: fetch_page goes on without the text it waited for.
WaitOver == IF acted = "fetch" THEN acting' = "probe" /\ cmd' = "evaluate" ELSE acting' = "idle" /\ cmd' = "none"

WaitAnswered ==
  /\ acting = "waitFor" /\ TakenAnswer({"ok", "refused", "lost"})
  /\ IF Head(feed)[1] = "lost" /\ ~retried
     THEN retried' = TRUE /\ cmd' = "wait" /\ UNCHANGED acting
     ELSE WaitOver /\ UNCHANGED retried
  /\ UNCHANGED <<pageVars, acted, ears, steps, fails, knownVars, owed, ending, acts>>

\* document.contentType: its failure is tolerated.
ProbeAnswered ==
  /\ acting = "probe" /\ TakenAnswer({"ok", "refused", "lost"})
  /\ acting' = "evaluate" /\ cmd' = "evaluate"
  /\ UNCHANGED <<pageVars, acted, ears, retried, steps, fails, knownVars, owed, ending, acts>>

\* commandTimeoutMs, navigationTimeoutMs.  (A late answer finds nobody: the
\* command is forgotten here, what it still does is what a page does by itself.)
TimesOut ==
  /\ cmd \in {"input", "held", "quiet", "read", "wait", "evaluate", "go", "going"} \/ (acting = "loading" /\ cmd = "none")
  /\ IF acting = "steps" THEN StepFails
     ELSE IF acting = "quiet" THEN acting' = "timer" /\ cmd' = "none" /\ UNCHANGED <<ears, steps, fails, found, ending>>
     ELSE IF acting = "waitFor" THEN WaitOver /\ UNCHANGED <<ears, steps, fails, found, ending>>
     ELSE IF acting = "probe" THEN acting' = "evaluate" /\ cmd' = "evaluate" /\ UNCHANGED <<ears, steps, fails, found, ending>>
     ELSE Fails /\ UNCHANGED <<steps, fails, ending>>
  /\ UNCHANGED <<pageVars, feed, acted, retried, before, last, told, owed, acts>>

SessionProgress ==
  \/ EventRead \/ StepAnswered \/ QuietAnswered \/ ReadAnswered \/ NavigateAnswered
  \/ ScriptAnswered \/ WaitAnswered \/ ProbeAnswered \/ TimesOut \/ TimerEnds \/ SettleEnds \/ Loaded \/ DialogCloses

ActsNext ==
  \/ CallsAct \/ CallsNavigate \/ CallsSnapshot \/ CallsRead \/ CallsWait \/ CallsFetch
  \/ Commit \/ LoadEnds \/ PageMoves \/ StepObeyed \/ ScriptAnswers \/ Goes
  \/ SessionProgress

\* Sockets are read and timers fire; a page may hang for good, an agent may leave.
ActsSpec == ActsInit /\ [][ActsNext]_actsVars /\ WF_actsVars(SessionProgress)

----------------------------------------------------------------------------
(* Properties *)

\* Every tool call returns, whatever the page does meanwhile: it may freeze on a
\* dialog, redirect under the script that watches it, or never finish loading.
CallsReturn == []<>(acting = "idle")

\* No dialog keeps the page frozen (observe.ts: "answered automatically so an
\* unanswered prompt can never freeze the page").
DialogsClose == []<>(dialog = "none")

\* What a snapshot is compared with is what the agent was told last: "unchanged",
\* and "only what changed", tell it the whole page.
UnchangedIsKnown == acting = "idle" => last \in {NoText, told}

\* "An action that started a page load finishes on the new page, not mid-load."
FinishesOnNewPage == ending # "mid-load"

----------------------------------------------------------------------------
(* What the session notes of its pages *)

CONSTANTS Requests,     \* request ids of the browser; a redirect uses its id again
          Limit, REQUEST_LIMIT_FACTOR,
          MaxSeq        \* entries recorded in all

ASSUME NotesAssumption == {Limit, REQUEST_LIMIT_FACTOR} \subseteq Nat /\ "console" \notin Requests

Readers == {"cursor", "tools"}

VARIABLES
  entries,       \* every entry object ever made, by its seq
  consoleRing, requestRing,   \* the seqs in observations.console and .requests
  requestsById,  \* the keys of the Map with the seq of each, in its order
  network,       \* what the browser knows of each request
  readTo,        \* the cursor of each reader
  heardBy,         \* the seqs each reader was given, and whether one came twice
  repeated

noteVars == <<entries, consoleRing, requestRing, requestsById, network, readTo, heardBy, repeated>>

NotesInit ==
  /\ entries = <<>> /\ consoleRing = <<>> /\ requestRing = <<>> /\ requestsById = <<>>
  /\ network = [r \in Requests |-> "unsent"]
  /\ readTo = [d \in Readers |-> 0]
  /\ heardBy = [d \in Readers |-> {}] /\ repeated = FALSE

\* push: the oldest of a full ring goes.
Push(ring, item, limit) ==
  LET longer == Append(ring, item) IN IF Len(longer) > limit THEN Tail(longer) ELSE longer

RequestLimit == Limit * REQUEST_LIMIT_FACTOR
NextSeq == Len(entries) + 1
\* The next request the browser sends (their ids say nothing).
Unsent(r) == network[r] = "unsent" /\ r = CHOOSE q \in Requests : network[q] = "unsent"
Keyed(map, r) == {i \in DOMAIN map : map[i].id = r}

\* Map.set: a key that is there keeps its place.
Rekeyed(map, r, n) ==
  IF Keyed(map, r) = {} THEN Append(map, [id |-> r, seq |-> n])
  ELSE [i \in DOMAIN map |-> IF map[i].id = r THEN [id |-> r, seq |-> n] ELSE map[i]]

----------------------------------------------------------------------------
(* Events of the pages *)

RecordConsole ==
  /\ NextSeq <= MaxSeq
  /\ entries' = Append(entries, [of |-> "console", outcome |-> "none"])
  /\ consoleRing' = Push(consoleRing, NextSeq, Limit)
  /\ UNCHANGED <<requestRing, requestsById, network, readTo, heardBy, repeated>>

\* Network.requestWillBeSent, the first time or after a redirect: the ring and the
\* index each lose their own oldest.
RecordRequest(r) ==
  LET map == Rekeyed(requestsById, r, NextSeq)
  IN /\ NextSeq <= MaxSeq
     /\ network[r] = "sent" \/ Unsent(r)
     /\ network' = [network EXCEPT ![r] = "sent"]
     /\ entries' = Append(entries, [of |-> r, outcome |-> "none"])
     /\ requestRing' = Push(requestRing, NextSeq, RequestLimit)
     /\ requestsById' = IF Len(map) > RequestLimit THEN Tail(map) ELSE map
     /\ UNCHANGED <<consoleRing, readTo, heardBy, repeated>>

\* responseReceived or loadingFailed: the entry the index still holds learns of it.
\* A request may be answered and fail afterwards.
RecordOutcome(r, how) ==
  /\ network[r] = "sent" \/ (network[r] = "answered" /\ how = "failed")
  /\ network' = [network EXCEPT ![r] = how]
  /\ entries' = [n \in DOMAIN entries |->
                   IF \E i \in Keyed(requestsById, r) : requestsById[i].seq = n
                   THEN [entries[n] EXCEPT !.outcome = how] ELSE entries[n]]
  /\ UNCHANGED <<consoleRing, requestRing, requestsById, readTo, heardBy, repeated>>

----------------------------------------------------------------------------
(* Readers *)

\* sinceCursor: both lists are filtered by the cursor, which then holds the last seq.
Since(ring, n) == {i \in Range(ring) : i > n}

ReadsRing(d, given) ==
  /\ heardBy' = [heardBy EXCEPT ![d] = @ \cup given]
  /\ repeated' = (repeated \/ given \cap heardBy[d] # {})
  /\ readTo' = [readTo EXCEPT ![d] = Len(entries)]
  /\ UNCHANGED <<entries, consoleRing, requestRing, requestsById, network>>

ReadLogs ==
  ReadsRing("cursor", Since(consoleRing, readTo["cursor"]) \cup Since(requestRing, readTo["cursor"]))

\* read_console and read_network each show one list and move the cursor of both.
ReadConsole == ReadsRing("tools", Since(consoleRing, readTo["tools"]))
ReadNetwork == ReadsRing("tools", Since(requestRing, readTo["tools"]))

NotesNext ==
  \/ RecordConsole
  \/ \E r \in Requests : RecordRequest(r) \/ \E how \in {"answered", "failed"} : RecordOutcome(r, how)
  \/ ReadLogs \/ ReadConsole \/ ReadNetwork

NotesSpec == NotesInit /\ [][NotesNext]_noteVars

----------------------------------------------------------------------------
(* Properties *)

Hops(r) == {n \in DOMAIN entries : entries[n].of = r}

\* A request that was never redirected tells its outcome for as long as it is in the
\* ring, though the index by id forgets on its own; and an entry shows no outcome
\* that its request has not had (one of a redirect stays as it was).
OutcomesLand ==
  \A n \in Range(requestRing) :
    LET r == entries[n].of
    IN /\ Hops(r) = {n} /\ network[r] \in {"answered", "failed"} => entries[n].outcome = network[r]
       /\ entries[n].outcome # "none" => network[r] \notin {"unsent", "sent"} /\ \A m \in Hops(r) : m <= n

\* A reader that passes its cursor on has been given everything up to it that the
\* rings still hold, and no reader is given the same entry twice.
CursorMissesNothing ==
  /\ \A n \in Range(consoleRing) \cup Range(requestRing) : n <= readTo["cursor"] => n \in heardBy["cursor"]
  /\ ~repeated

NotesAreTrue == OutcomesLand /\ CursorMissesNothing
=============================================================================
