------------------------------ MODULE LiveTab ------------------------------
(***************************************************************************)
(* The tab of a live view once its viewer may act                          *)
(* (ScreencastBridgePlugin): what the viewer asks, the address it is       *)
(* shown, and the watch for the password warning of the browser.  The      *)
(* warning opens after a login and blocks all input until the tab leaves   *)
(* the site, so after one the bridge moves the mouse and counts the moves  *)
(* the page sees; after Misses misses in a row it takes the tab to a blank *)
(* page and back.  Commands are awaited and answered in order, while       *)
(* other messages of the viewer are handled.                               *)
(***************************************************************************)
EXTENDS Integers, Sequences

CONSTANTS
  Sites,       \* the sites a tab can show
  Blank,       \* about:blank
  NoSite,      \* no address yet, no navigation under way
  Spots,       \* places of the viewer's pointer, in pixels
  Misses,      \* LOGIN_WATCH_MISSES
  Window,      \* LOGIN_WATCH_WINDOW_MS, in intervals of the watch
  MaxClicks, MaxPoints, MaxAsks,   \* bounds: what the viewer does
  MaxMoves                         \* bound: navigations of the page itself

ASSUME LiveTabAssumption ==
  /\ Blank \notin Sites /\ NoSite \notin Sites \cup {Blank}
  /\ Spots \subseteq Int /\ Misses \in Nat \ {0} /\ Window \in Nat \ {0}

VARIABLES
  viewed,       \* the page: its site, its document, whether input is blocked, moves it saw
  heading,      \* the navigation under way: where, and who asked
  cursor,       \* where the browser's mouse is
  toTab,        \* commands on their way
  fromTab,      \* answers and events on their way back
  lastTopUrl,
  recovering,
  watchLeft,    \* loginWatchUntil: intervals until it, Unset for 0
  watch,        \* where watchAfterLogin is, "off" if it is not running
  misses,
  aim,          \* the point and the count of the probe under way
  pageLoading,
  inputCount,
  pointer,
  probeOffset,
  notice,       \* refreshNoticeShown
  shownUrl,     \* the last address the viewer was sent
  asks,         \* each navigation of the viewer: what it is, how far
  clicks, points, moves,
  warned,       \* the browser has opened its warning
  tabClosed,    \* closed
  countedIn,    \* the document inputCount was read in
  excused,      \* every miss so far came from a page that blocks, or from another document
  slipped       \* the page moved by itself while the bridge was recovering it

tabVars ==
  <<viewed, heading, cursor, toTab, fromTab, lastTopUrl, recovering, watchLeft, watch, misses, aim,
    pageLoading, inputCount, pointer, probeOffset, notice, shownUrl, asks, clicks, points, moves,
    warned, tabClosed, countedIn, excused, slipped>>

Unset == -1

\* Who awaits an answer: a navigation of the viewer by its number, or one of these.
Watcher == 0
Detector == -1
Pointing == -2
Nobody == -3

NoAim == [x |-> 0, before |-> Unset]
Unasked == [does |-> "nothing", stage |-> "none", site |-> NoSite]

LiveTabInit ==
  /\ viewed = [site |-> Blank, doc |-> 1, blocked |-> FALSE, seen |-> 0]
  /\ heading = [site |-> NoSite, by |-> Nobody]
  /\ cursor = Unset /\ toTab = <<>> /\ fromTab = <<>>
  /\ lastTopUrl = NoSite /\ recovering = FALSE
  /\ watchLeft = Unset /\ watch = "off" /\ misses = 0 /\ aim = NoAim
  /\ pageLoading = FALSE /\ inputCount = Unset
  /\ pointer = 0 /\ probeOffset = FALSE
  /\ notice = FALSE /\ shownUrl = Blank
  /\ asks = [i \in 1..MaxAsks |-> Unasked]
  /\ clicks = 0 /\ points = 0 /\ moves = 0
  /\ warned = FALSE /\ tabClosed = FALSE /\ countedIn = 1 /\ excused = TRUE /\ slipped = FALSE

Command(command) == toTab' = Append(toTab, command)
SaysUp(messages) == fromTab' = fromTab \o messages

-----------------------------------------------------------------------------
(* The viewer.                                                             *)

viewerKept ==
  UNCHANGED <<viewed, heading, cursor, fromTab, lastTopUrl, recovering, watchLeft, watch, misses, aim,
              pageLoading, inputCount, notice, shownUrl, moves, warned, tabClosed, countedIn, excused, slipped>>

\* A click or Enter asks the page whether it submits a password.
Click ==
  /\ ~tabClosed /\ clicks < MaxClicks /\ clicks' = clicks + 1
  /\ Command([does |-> "login", by |-> Detector, x |-> 0])
  /\ UNCHANGED <<pointer, probeOffset, asks, points>> /\ viewerKept

\* A mouse event other than the wheel.
Point(x) ==
  /\ ~tabClosed /\ points < MaxPoints /\ points' = points + 1
  /\ pointer' = x /\ probeOffset' = FALSE
  /\ Command([does |-> "move", by |-> Pointing, x |-> x])
  /\ UNCHANGED <<asks, clicks>> /\ viewerKept

\* The viewer asks for a site, for the page again, or for the page before.
AskFor(i, does, site) ==
  /\ ~tabClosed /\ asks[i].stage = "none" /\ (i > 1 => asks[i - 1].stage # "none")
  /\ asks' = [asks EXCEPT ![i] =
       [does |-> does, site |-> site,
        stage |-> CASE does = "navigate" -> "saving" [] does = "reload" -> "sent"
                    [] does = "back" -> "asking"]]
  /\ IF does = "navigate" THEN UNCHANGED toTab
     ELSE Command([does |-> IF does = "reload" THEN "reload" ELSE "history", by |-> i, x |-> site])
  /\ UNCHANGED <<pointer, probeOffset, clicks, points>> /\ viewerKept

Asks(i) ==
  \/ \E s \in Sites : AskFor(i, "navigate", s)
  \/ AskFor(i, "reload", NoSite)
  \/ \E s \in Sites : AskFor(i, "back", s)

\* onBeforeNavigate is over, whatever became of it.
AskSaved(i) ==
  /\ ~tabClosed /\ asks[i].stage = "saving"
  /\ asks' = [asks EXCEPT ![i].stage = "sent"]
  /\ Command([does |-> "navigate", by |-> i, x |-> asks[i].site])
  /\ UNCHANGED <<pointer, probeOffset, clicks, points>> /\ viewerKept

-----------------------------------------------------------------------------
(* The browser.                                                            *)

bridgeKept ==
  UNCHANGED <<lastTopUrl, recovering, watchLeft, watch, misses, aim, pageLoading, inputCount,
              pointer, probeOffset, notice, shownUrl, asks, clicks, points, tabClosed, countedIn, excused>>

\* One that is under way ends when another begins.
Aborted == IF heading.by = Nobody THEN <<>> ELSE <<[says |-> "answer", to |-> heading.by, with |-> 0]>>

\* The warning stays until the tab shows another site.
Shows(site) == [site |-> site, doc |-> viewed.doc + 1, blocked |-> viewed.blocked /\ site = viewed.site, seen |-> 0]

\* The next command reaches the tab.
TabTakes ==
  /\ ~tabClosed /\ toTab # <<>>
  /\ LET c == Head(toTab)
         answer(v) == <<[says |-> "answer", to |-> c.by, with |-> v,
                         doc |-> viewed.doc, blocked |-> viewed.blocked]>>
         noticed == ~viewed.blocked /\ c.x # cursor
     IN
       /\ toTab' = Tail(toTab)
       /\ \/ c.does = "login" /\ SaysUp(answer(IF viewed.site # Blank /\ ~viewed.blocked THEN 1 ELSE 0))
             /\ UNCHANGED <<viewed, heading, cursor>>
          \/ c.does = "count" /\ SaysUp(answer(viewed.seen)) /\ UNCHANGED <<viewed, heading, cursor>>
          \* its context is gone in the middle of a navigation
          \/ c.does = "count" /\ heading.site # NoSite
             /\ SaysUp(answer(Unset)) /\ UNCHANGED <<viewed, heading, cursor>>
          \/ c.does = "move"
             /\ cursor' = c.x
             /\ viewed' = [viewed EXCEPT !.seen = @ + IF noticed THEN 1 ELSE 0]
             /\ SaysUp(answer(0)) /\ UNCHANGED heading
          \/ c.does = "history" /\ SaysUp(answer(0)) /\ UNCHANGED <<viewed, heading, cursor>>
          \/ c.does \in {"navigate", "reload"}
             /\ heading' = [site |-> IF c.does = "reload" THEN viewed.site ELSE c.x, by |-> c.by]
             /\ SaysUp(Aborted) /\ UNCHANGED <<viewed, cursor>>
  /\ UNCHANGED <<moves, warned, slipped>> /\ bridgeKept

\* A navigation arrives: its answer and its event in either order.  The site may be
\* out of reach: the browser then shows its own page for the address.
Commits ==
  /\ ~tabClosed /\ heading.site # NoSite
  /\ viewed' = Shows(heading.site)
  /\ heading' = [site |-> NoSite, by |-> Nobody]
  /\ LET event(says) == <<[says |-> says, to |-> heading.site, with |-> 0]>>
         answer == <<[says |-> "answer", to |-> heading.by, with |-> 0]>>
     IN \/ SaysUp(event("navigated") \o answer)
        \/ SaysUp(answer \o event("navigated"))
        \/ heading.by \in 1..MaxAsks /\ SaysUp(event("unreachable") \o answer)
  /\ UNCHANGED <<toTab, cursor, moves, warned, slipped>> /\ bridgeKept

Loads ==
  /\ ~tabClosed /\ pageLoading
  /\ ~\E k \in DOMAIN fromTab : fromTab[k].says = "loaded"
  /\ SaysUp(<<[says |-> "loaded", to |-> NoSite, with |-> 0]>>)
  /\ UNCHANGED <<viewed, heading, toTab, cursor, moves, warned, slipped>> /\ bridgeKept

\* The page moves by itself, as one does after a login.
PageMoves(site) ==
  /\ ~tabClosed /\ moves < MaxMoves /\ moves' = moves + 1
  /\ viewed.site # Blank /\ heading.site = NoSite
  /\ viewed' = Shows(site)
  /\ SaysUp(<<[says |-> "navigated", to |-> site, with |-> 0]>>)
  /\ slipped' = (slipped \/ recovering)
  /\ UNCHANGED <<heading, toTab, cursor, warned>> /\ bridgeKept

Warns ==
  /\ ~tabClosed /\ ~warned /\ watch # "off" /\ viewed.site # Blank
  /\ warned' = TRUE /\ viewed' = [viewed EXCEPT !.blocked = TRUE]
  /\ UNCHANGED <<heading, toTab, fromTab, cursor, moves, slipped>> /\ bridgeKept

-----------------------------------------------------------------------------
(* The bridge: what it reads, and its watch.                               *)

browserKept ==
  UNCHANGED <<viewed, heading, cursor, clicks, points, moves, warned, tabClosed, slipped>>

\* The loop goes on while its window is open; else the finally block.
GoOn(left) == IF left > 0 THEN "sleeping" ELSE "off"
LoopsWith(left, count, shown) ==
  /\ watch' = GoOn(left)
  /\ watchLeft' = IF GoOn(left) = "off" THEN Unset ELSE left
  /\ inputCount' = IF GoOn(left) = "off" THEN Unset ELSE count
  /\ notice' = (GoOn(left) # "off" /\ shown)

\* The probe alternates between the viewer's point and the one beside it: a mouse
\* that stays where it is gives the page nothing to count.
Nudge == IF probeOffset THEN 0 ELSE 1

\* The interval is over.
Wakes ==
  /\ ~tabClosed /\ watch = "sleeping"
  /\ LET left == IF watchLeft > 0 THEN watchLeft - 1 ELSE watchLeft IN
       IF pageLoading
       THEN /\ misses' = 0 /\ LoopsWith(left, Unset, notice)
            /\ UNCHANGED <<toTab, aim, probeOffset>>
       ELSE /\ aim' = [x |-> pointer, before |-> inputCount]
            /\ watchLeft' = left
            /\ IF inputCount = Unset
               THEN /\ watch' = "counting" /\ UNCHANGED probeOffset
                    /\ Command([does |-> "count", by |-> Watcher, x |-> 0])
               ELSE /\ watch' = "moving" /\ probeOffset' = ~probeOffset
                    /\ Command([does |-> "move", by |-> Watcher,
                             x |-> pointer + Nudge])
            /\ UNCHANGED <<misses, inputCount, notice>>
  /\ UNCHANGED <<fromTab, lastTopUrl, recovering, pageLoading, pointer, shownUrl, asks, countedIn, excused>>
  /\ browserKept

\* Time runs while it awaits an answer.
TimeRuns ==
  /\ watch # "off" /\ watchLeft > 0 /\ watchLeft' = watchLeft - 1
  /\ UNCHANGED <<viewed, heading, cursor, toTab, fromTab, lastTopUrl, recovering, watch, misses, aim,
                 pageLoading, inputCount, pointer, probeOffset, notice, shownUrl, asks, clicks,
                 points, moves, warned, tabClosed, countedIn, excused, slipped>>

Enough(n) == n >= Misses

\* A probe is over: the page did or did not see the mouse.
Judged(received, count, m) ==
  LET n == IF received THEN 0 ELSE misses + 1
      url == lastTopUrl
  IN
    /\ misses' = n
    /\ excused' = (received \/ (excused /\ (m.blocked \/ m.doc # countedIn)))
    /\ countedIn' = m.doc
    /\ IF Enough(n) /\ url \in Sites
       THEN /\ recovering' = TRUE /\ notice' = TRUE
            /\ watch' = "saving" /\ watchLeft' = Unset
            /\ aim' = [aim EXCEPT !.x = url] /\ inputCount' = count
       ELSE /\ UNCHANGED <<recovering, aim>>
            /\ LoopsWith(IF Enough(n) THEN 0 ELSE watchLeft, count,
                         IF n = 0 THEN FALSE ELSE n = 1 \/ notice)

\* recoverFromLoginWarning: snapshot, blank page, back.
WatchSaved ==
  /\ ~tabClosed /\ watch = "saving" /\ watch' = "blanking"
  /\ Command([does |-> "navigate", by |-> Watcher, x |-> Blank])
  /\ UNCHANGED <<fromTab, lastTopUrl, recovering, watchLeft, misses, aim, pageLoading, inputCount,
                 pointer, probeOffset, notice, shownUrl, asks, countedIn, excused>>
  /\ browserKept

GoesBack == /\ watch' = "returning" /\ Command([does |-> "navigate", by |-> Watcher, x |-> aim.x])
          /\ UNCHANGED <<recovering, watchLeft, inputCount, notice>>

Recovered == recovering' = FALSE /\ LoopsWith(watchLeft, Unset, FALSE) /\ UNCHANGED toTab

\* An answer to the watch.
WatchHears(m) ==
  LET v == m.with IN
  /\ \/ watch = "counting" /\ v # Unset
        /\ watch' = "moving" /\ probeOffset' = ~probeOffset
        /\ aim' = [aim EXCEPT !.before = v] /\ countedIn' = m.doc
        /\ Command([does |-> "move", by |-> Watcher, x |-> aim.x + Nudge])
        /\ UNCHANGED <<recovering, watchLeft, misses, inputCount, notice, excused>>
     \/ watch = "moving" /\ watch' = "checking"
        /\ Command([does |-> "count", by |-> Watcher, x |-> 0])
        /\ UNCHANGED <<recovering, watchLeft, misses, aim, inputCount, notice, probeOffset, countedIn, excused>>
     \/ watch = "checking" /\ v # Unset
        /\ Judged(v > aim.before, v, m) /\ UNCHANGED <<toTab, probeOffset>>
     \/ watch \in {"counting", "checking"} /\ v = Unset
        /\ Judged(TRUE, Unset, m) /\ UNCHANGED <<toTab, probeOffset>>
     \/ watch = "blanking" /\ GoesBack /\ UNCHANGED <<misses, aim, probeOffset, countedIn, excused>>
     \/ watch = "returning" /\ Recovered /\ UNCHANGED <<misses, aim, probeOffset, countedIn, excused>>
  /\ UNCHANGED <<lastTopUrl, pageLoading, pointer, shownUrl, asks>>

\* The answer to watchForLogin.
LoginKnown(v) ==
  /\ IF v = 1
     THEN /\ pageLoading' = FALSE /\ watchLeft' = Window
          /\ IF watch = "off" THEN watch' = "sleeping" /\ misses' = 0 ELSE UNCHANGED <<watch, misses>>
     ELSE UNCHANGED <<pageLoading, watchLeft, watch, misses>>
  /\ excused' = (excused \/ watch = "off")
  /\ UNCHANGED <<toTab, lastTopUrl, recovering, aim, inputCount, pointer, probeOffset, notice, shownUrl, asks,
                 countedIn>>

\* The history may have no page to go to; else its navigation comes, as for an address.
AskHears(i) ==
  /\ \E stage \in {"saving", "done"} :
       /\ stage = "saving" => asks[i].stage = "asking"
       /\ asks' = [asks EXCEPT ![i].stage = stage]
  /\ UNCHANGED <<toTab, lastTopUrl, recovering, watchLeft, watch, misses, aim, pageLoading,
                 inputCount, pointer, probeOffset, notice, shownUrl, countedIn, excused>>

\* Page.frameNavigated of the top frame, and Page.loadEventFired.
FrameNavigated(site) ==
  /\ IF recovering THEN UNCHANGED <<lastTopUrl, pageLoading, watchLeft, shownUrl>>
     ELSE /\ lastTopUrl' = site /\ shownUrl' = site
          /\ pageLoading' = (pageLoading \/ watchLeft # Unset)
          /\ watchLeft' = IF watchLeft # Unset THEN Window ELSE Unset
  /\ UNCHANGED <<toTab, recovering, watch, misses, aim, inputCount, pointer, probeOffset, notice,
                 asks, countedIn, excused>>

Unreachable(site) ==
  /\ shownUrl' = IF recovering THEN shownUrl ELSE site
  /\ UNCHANGED <<toTab, lastTopUrl, recovering, watchLeft, watch, misses, aim, pageLoading,
                 inputCount, pointer, probeOffset, notice, asks, countedIn, excused>>

LoadEventFired ==
  /\ pageLoading' = FALSE
  /\ UNCHANGED <<toTab, lastTopUrl, recovering, watchLeft, watch, misses, aim, inputCount, pointer,
                 probeOffset, notice, shownUrl, asks, countedIn, excused>>

Hears ==
  /\ ~tabClosed /\ fromTab # <<>>
  /\ fromTab' = Tail(fromTab)
  /\ LET m == Head(fromTab) IN
       \/ m.says = "answer" /\ m.to = Watcher /\ WatchHears(m)
       \/ m.says = "answer" /\ m.to = Detector /\ LoginKnown(m.with)
       \/ m.says = "answer" /\ m.to \in 1..MaxAsks /\ AskHears(m.to)
       \/ m.says = "answer" /\ m.to = Pointing
          /\ UNCHANGED <<toTab, lastTopUrl, recovering, watchLeft, watch, misses, aim, pageLoading,
                         inputCount, pointer, probeOffset, notice, shownUrl, asks, countedIn, excused>>
       \/ m.says = "navigated" /\ FrameNavigated(m.to)
       \/ m.says = "unreachable" /\ Unreachable(m.to)
       \/ m.says = "loaded" /\ LoadEventFired
  /\ browserKept

\* The session ends: closed is set, and every command that is awaited is refused,
\* which brings the watch and the handlers to their end.
TabEnds ==
  /\ ~tabClosed /\ tabClosed' = TRUE
  /\ watch' = "off" /\ watchLeft' = Unset /\ inputCount' = Unset
  /\ recovering' = FALSE /\ notice' = FALSE
  /\ asks' = [i \in 1..MaxAsks |-> IF asks[i].stage = "none" THEN asks[i] ELSE [asks[i] EXCEPT !.stage = "done"]]
  /\ toTab' = <<>> /\ fromTab' = <<>>
  /\ UNCHANGED <<viewed, heading, cursor, lastTopUrl, misses, aim, pageLoading, pointer, probeOffset,
                 shownUrl, clicks, points, moves, warned, countedIn, excused, slipped>>

LiveTabNext ==
  \/ Click
  \/ \E x \in Spots : Point(x)
  \/ \E i \in 1..MaxAsks : Asks(i) \/ AskSaved(i)
  \/ TabTakes \/ Commits \/ Loads
  \/ \E s \in Sites : PageMoves(s)
  \/ Warns
  \/ Wakes \/ TimeRuns \/ WatchSaved \/ Hears \/ TabEnds

LiveTabSpec == LiveTabInit /\ [][LiveTabNext]_tabVars

-----------------------------------------------------------------------------
(* Properties.                                                             *)

Quiet ==
  /\ toTab = <<>> /\ fromTab = <<>> /\ heading.site = NoSite /\ watch = "off"
  /\ \A i \in 1..MaxAsks : asks[i].stage \in {"none", "done"}

\* The notice that the page is being refreshed is up only while somebody will take
\* it down.
NoticeHasWatch == notice => watch # "off"

\* A page that takes input and stays where it is is never sent away: every miss
\* that led to a recovery came from a page that blocked or moved under the probe.
OnlyBlockedLeave == recovering => excused

\* When nothing is under way any more the viewer reads the address the tab has,
\* unless the page moved by itself under a recovery, when events are not followed.
AddressIsTrue == Quiet /\ ~tabClosed => shownUrl = viewed.site \/ slipped

\* The blank page of a recovery is passed through: the viewer is not left on it.
ComesBack == Quiet /\ ~tabClosed /\ lastTopUrl \in Sites => viewed.site # Blank

\* Away and back takes the warning off, unless the viewer's own navigation crossed it.
RecoveryHeals ==
  (watch = "returning" /\ toTab = <<>> /\ heading.site = NoSite) =>
    ~viewed.blocked \/ \E i \in 1..MaxAsks : asks[i].stage # "none"

\* What a viewer of a tab relies on.
TabSound == NoticeHasWatch /\ OnlyBlockedLeave /\ AddressIsTrue /\ ComesBack /\ RecoveryHeals
=============================================================================
