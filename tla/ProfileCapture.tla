--------------------------- MODULE ProfileCapture ---------------------------
(***************************************************************************)
(* What becomes of a profile's localStorage in one session: the most       *)
(* recent origins are written into the browser, pages write and move on,   *)
(* the profile plugin snapshots an origin when it sees it being left, and  *)
(* at the end the snapshots are merged over what was stored.  A REST call  *)
(* reads every stored origin of the browser instead.                       *)
(*                                                                         *)
(* The content of an origin is the set of its entries: <<o, 0>> is what    *)
(* the profile held, <<o, n>> the n-th write of the session.  The browser  *)
(* answers and reports on one socket, in the order in which it acts.       *)
(***************************************************************************)
EXTENDS Integers, Sequences, FiniteSets, SequencesExt

CONSTANTS
  Tabs, Sites,      \* Sites: the origins, http or https
  Blank,            \* a page without such an origin
  EagerLimit,       \* eagerOriginLimit
  MaxOrigins,       \* limits.maxOrigins
  HardCap,          \* limits.hardCapBytes, in entries
  StoredSites,      \* the origins of the profile that is loaded
  MaxWrites, MaxMoves, MaxFaults   \* bounds: writes, ways to leave a page, faults

ASSUME CaptureAssumption ==
  /\ StoredSites \subseteq Sites
  /\ IsFiniteSet(Tabs) /\ IsFiniteSet(Sites) /\ Blank \notin Sites
  /\ {EagerLimit, MaxOrigins, HardCap, MaxWrites, MaxMoves, MaxFaults} \subseteq Nat

VARIABLES
  route,     \* "plugin": a connected client; "rest": a REST call
  stored,    \* the origins of the loaded profile, the least recent first
  injected,  \* those whose entries were written into the browser
  live,      \* the content of each origin in the browser
  doc,       \* the origin each tab shows; "none" when there is no tab
  enabled,   \* tabs whose navigations are reported
  reported,  \* tabs whose present document was reported
  leaving,   \* where a page that follows a link goes
  down, up,  \* commands to each tab; answers and events of the browser
  pages,     \* ProfilePlugin.pages: activeOrigin of the tabs it knows
  snapshots, \* originsSnapshot
  visits,    \* origins by lastVisitedAt, the least recent first
  left,      \* leftByPageNavigation
  holds,     \* closing commands that wait for snapshots
  waits,     \* how many snapshots of each tab somebody still awaits
  phase,     \* of the session and its capture
  toRead,    \* origins to read through helper pages
  reread,    \* what these readings gave
  gone,      \* the browser cannot be reached any more
  outcome,   \* what was saved
  owed,      \* what an origin held when the client left it knowingly
  failed,    \* origins of which a reading failed
  unseen,    \* origins left in a way the plugin does not look at, or come back to during the end
  writes, moves, faults

captureVars == <<route, stored, injected, live, doc, enabled, reported, leaving, down, up, pages,
                 snapshots, visits, left, holds, waits, phase, toRead, reread, gone, outcome,
                 owed, failed, unseen, writes, moves, faults>>

browserVars == <<live, doc, enabled, reported, leaving, writes, moves>>
pluginVars == <<pages, snapshots, visits, left, holds, waits>>
endVars == <<phase, toRead, reread, gone, outcome>>
givenVars == <<route, stored, injected>>
historyVars == <<owed, failed, unseen>>

Waiters == Tabs \cup {"browser", "end"}
NoTab == "none"
NoWait == [t \in Tabs |-> 0]

Entries(o) == {<<o, n>> : n \in 0..MaxWrites}
Loaded == ToSet(stored)

\* The snapshots of a tab that are on their way.
Awaited(t) ==
  Len(SelectSeq(down[t], LAMBDA c : c[1] = "eval"))
  + Len(SelectSeq(up, LAMBDA e : e.kind = "answer" /\ e.tab = t))

CaptureTypeOK ==
  /\ route \in {"plugin", "rest"}
  /\ stored \in Seq(Sites) /\ injected \subseteq Loaded
  /\ \A o \in Sites : live[o] \subseteq Entries(o)
  /\ doc \in [Tabs -> Sites \cup {Blank, NoTab}]
  /\ enabled \subseteq Tabs /\ reported \subseteq Tabs
  /\ leaving \in [Tabs -> Sites \cup {Blank, NoTab}]
  /\ pages \in [Tabs -> Sites \cup {Blank, NoTab}]
  /\ DOMAIN snapshots \subseteq Sites
  /\ left \subseteq Sites /\ failed \subseteq Sites /\ unseen \subseteq Sites
  /\ holds \subseteq Tabs \cup {"browser"}
  /\ waits \in [Waiters -> [Tabs -> Nat]]
  /\ phase \in {"on", "drain", "active", "reread", "done"}
  /\ writes \in 0..MaxWrites /\ moves \in 0..MaxMoves /\ faults \in 0..MaxFaults

\* rankOrigins, injectEagerOrigins: the most recent ones, less those that failed.
Eager == {stored[i] : i \in {j \in DOMAIN stored : j + EagerLimit > Len(stored)}}

CaptureInit ==
  /\ route \in {"plugin", "rest"}
  /\ stored \in SetToSeqs(StoredSites)
  /\ injected \in SUBSET Eager
  /\ live = [o \in Sites |-> IF o \in injected THEN {<<o, 0>>} ELSE {}]
  /\ doc \in [Tabs -> Sites \cup {NoTab}]   \* pages opened, seen and not yet left
  /\ route = "rest" => doc = [t \in Tabs |-> NoTab]
  /\ pages = doc /\ enabled = {t \in Tabs : doc[t] # NoTab} /\ reported = enabled
  /\ leaving = [t \in Tabs |-> NoTab]
  /\ down = [t \in Tabs |-> << >>] /\ up = << >>
  /\ snapshots = << >> /\ visits = stored /\ left = {}
  /\ holds = {} /\ waits = [w \in Waiters |-> NoWait]
  /\ phase = "on" /\ toRead = {} /\ reread = << >> /\ gone = FALSE
  /\ outcome = [action |-> "none"]
  /\ owed = [o \in Sites |-> {}] /\ failed = {} /\ unseen = {}
  /\ writes = 0 /\ moves = 0 /\ faults = 0

\* Something goes wrong.
Fault == faults < MaxFaults /\ faults' = faults + 1

(***************************************************************************)
(* The browser.                                                            *)
(***************************************************************************)

Open(t) == ~gone /\ phase # "done" /\ doc[t] # NoTab
Content(o) == IF o \in Sites THEN live[o] ELSE {}

Event(kind, t, o) == [kind |-> kind, tab |-> t, site |-> o, expected |-> Blank, data |-> {}]
Answer(t, o) == [kind |-> "answer", tab |-> t, site |-> doc[t], expected |-> o, data |-> Content(doc[t])]

TabOpens(t, o) ==
  /\ ~gone /\ doc[t] = NoTab /\ pages[t] = NoTab /\ down[t] = << >> /\ phase = "on" /\ route = "plugin"
  /\ \A i \in DOMAIN up : up[i].tab # t
  /\ moves < MaxMoves /\ moves' = moves + 1
  /\ doc' = [doc EXCEPT ![t] = o]
  /\ up' = Append(up, Event("attached", t, o))
  /\ UNCHANGED <<givenVars, faults, live, enabled, reported, leaving, down, pluginVars, endVars,
                 owed, failed, unseen, writes>>

PageWrites(t) ==
  /\ Open(t) /\ doc[t] \in Sites
  /\ writes < MaxWrites /\ writes' = writes + 1
  /\ live' = [live EXCEPT ![doc[t]] = @ \cup {<<doc[t], writes + 1>>}]
  /\ UNCHANGED <<givenVars, faults, doc, enabled, reported, leaving, down, up, pluginVars, endVars,
                 owed, failed, unseen, moves>>

\* A link, a form, a script: announced, then carried out.
PageLeaves(t, o) ==
  /\ Open(t) /\ leaving[t] = NoTab /\ o # doc[t]
  /\ moves < MaxMoves /\ moves' = moves + 1
  /\ leaving' = [leaving EXCEPT ![t] = o]
  /\ up' = IF t \in enabled THEN Append(up, Event("requested", t, o)) ELSE up
  /\ UNCHANGED <<givenVars, faults, live, doc, enabled, reported, down, pluginVars, endVars,
                 owed, failed, unseen, writes>>

\* The client knows what the page it sees holds.
Owing(t) == IF t \in reported THEN {doc[t]} \cap Sites ELSE {}
Owe(os) == [o \in Sites |-> IF o \in os THEN owed[o] \cup live[o] ELSE owed[o]]

\* The tab shows o from now on.
Shows(t, o) ==
  /\ doc' = [doc EXCEPT ![t] = o]
  /\ reported' = IF t \in enabled THEN reported \cup {t} ELSE reported \ {t}
  /\ up' = IF t \in enabled THEN Append(up, Event("navigated", t, o)) ELSE up
  /\ unseen' = IF o = Blank THEN unseen \cup ({doc[t]} \cap Sites) ELSE unseen
  /\ leaving' = [leaving EXCEPT ![t] = NoTab]

PageArrives(t) ==
  /\ Open(t) /\ leaving[t] # NoTab
  /\ Shows(t, leaving[t])
  /\ owed' = IF phase = "on" /\ "browser" \notin holds THEN Owe(Owing(t)) ELSE owed
  /\ UNCHANGED <<givenVars, faults, live, enabled, down, pluginVars, endVars, failed, writes, moves>>

Lost(c) == IF c[1] = "eval" THEN {c[2]} ELSE {}
LostOf(s) == UNION {Lost(s[i]) : i \in DOMAIN s}

Settled(t) == [w \in Waiters |-> [waits[w] EXCEPT ![t] = IF @ = 0 THEN 0 ELSE @ - 1]]

\* The tab is gone, and the plugin is told.
TabEnds(t) ==
  /\ doc' = [doc EXCEPT ![t] = NoTab]
  /\ leaving' = [leaving EXCEPT ![t] = NoTab]
  /\ enabled' = enabled \ {t} /\ reported' = reported \ {t}
  /\ up' = Append(up, Event("detached", t, Blank))

\* By itself, or after a crash: what it shows is not owed to anybody.
TabCloses(t) ==
  /\ Open(t) /\ Fault
  /\ TabEnds(t)
  /\ unseen' = unseen \cup ({doc[t]} \cap Sites)
  /\ UNCHANGED <<givenVars, live, down, pluginVars, endVars, owed, failed, writes, moves>>

Does(t, c) ==
  \/ /\ c[1] = "enable" /\ enabled' = enabled \cup {t}
     /\ UNCHANGED <<doc, reported, leaving, up, unseen>>
  \/ /\ c[1] = "eval" /\ up' = Append(up, Answer(t, c[2]))
     /\ UNCHANGED <<doc, enabled, reported, leaving, unseen>>
  \/ c[1] = "navigate" /\ Shows(t, c[2]) /\ UNCHANGED enabled
  \/ c[1] = "close" /\ TabEnds(t) /\ UNCHANGED unseen

\* A command to a tab that is gone is answered with an error.
Refuses(t, c) ==
  /\ up' = IF c[1] = "eval" THEN Append(up, [Event("answer", t, Blank) EXCEPT !.expected = c[2]]) ELSE up
  /\ UNCHANGED <<doc, enabled, reported, leaving, unseen>>

BrowserTakes(t) ==
  /\ ~gone /\ phase # "done" /\ down[t] # << >>
  /\ down' = [down EXCEPT ![t] = Tail(@)]
  /\ IF doc[t] # NoTab THEN Does(t, Head(down[t])) ELSE Refuses(t, Head(down[t]))
  /\ failed' = IF doc[t] = NoTab THEN failed \cup Lost(Head(down[t])) ELSE failed
  /\ UNCHANGED <<givenVars, faults, live, pluginVars, endVars, owed, writes, moves>>

(***************************************************************************)
(* The plugin on the client's commands.                                    *)
(***************************************************************************)

Known(t) == pages[t] # NoTab

\* snapshotPage: nothing is asked of a page without a known origin.
SnapshotOf(t) == IF pages[t] \in Sites THEN <<<<"eval", pages[t]>>>> ELSE << >>

\* The client sees what the tab shows and has not sent it elsewhere.
InStep(t) ==
  /\ pages[t] = doc[t] /\ leaving[t] = NoTab
  /\ {t, "browser"} \cap holds = {} /\ \A i \in DOMAIN down[t] : down[t][i][1] \notin {"navigate", "close"}
  /\ \A i \in DOMAIN up : up[i].tab = t => up[i].kind = "answer"

\* snapshotBeforeNavigate.  Moves within an origin change nothing here.
ClientNavigates(t, o) ==
  /\ phase = "on" /\ ~gone /\ Known(t) /\ t \notin holds /\ o # doc[t]
  /\ moves < MaxMoves /\ moves' = moves + 1
  /\ down' = [down EXCEPT ![t] = @ \o (IF o \in Sites \ {pages[t]} THEN SnapshotOf(t) ELSE << >>)
                                    \o <<<<"navigate", o>>>>]
  /\ owed' = IF InStep(t) THEN Owe(Owing(t)) ELSE owed
  /\ unseen' = IF o = Blank THEN unseen \cup ({pages[t], doc[t]} \cap Sites) ELSE unseen
  /\ UNCHANGED <<givenVars, faults, live, doc, enabled, reported, leaving, up, pluginVars, endVars, failed, writes>>

\* By the history, or to a page of the same origin that redirects: no
\* snapshot is taken, and the browser announces nothing.
ClientGoes(t, o) ==
  /\ phase = "on" /\ ~gone /\ Known(t) /\ t \notin holds /\ o # doc[t]
  /\ moves < MaxMoves /\ moves' = moves + 1
  /\ down' = [down EXCEPT ![t] = Append(@, <<"navigate", o>>)]
  /\ owed' = IF InStep(t) THEN Owe(Owing(t)) ELSE owed
  /\ unseen' = unseen \cup ({pages[t], doc[t]} \cap Sites)
  /\ UNCHANGED <<givenVars, faults, live, doc, enabled, reported, leaving, up, pluginVars, endVars, failed, writes>>

\* holdUntilCaptured: a closing command waits for the snapshots of the pages it ends.
ClosesTab(t) ==
  /\ phase = "on" /\ ~gone /\ Known(t) /\ t \notin holds
  /\ moves < MaxMoves /\ moves' = moves + 1
  /\ owed' = IF InStep(t) THEN Owe(Owing(t)) ELSE owed
  /\ IF SnapshotOf(t) = << >>
     THEN down' = [down EXCEPT ![t] = Append(@, <<"close", Blank>>)] /\ UNCHANGED <<holds, waits>>
     ELSE /\ down' = [down EXCEPT ![t] = @ \o SnapshotOf(t)]
          /\ holds' = holds \cup {t}
          /\ waits' = [waits EXCEPT ![t][t] = Awaited(t) + 1]
  /\ UNCHANGED <<givenVars, faults, live, doc, enabled, reported, leaving, writes, up, pages, snapshots, visits, left, endVars, failed, unseen>>

TabHoldEnds(t) ==
  /\ t \in holds /\ waits[t] = NoWait /\ phase # "done"
  /\ holds' = holds \ {t}
  /\ down' = IF gone THEN down ELSE [down EXCEPT ![t] = Append(@, <<"close", Blank>>)]
  /\ UNCHANGED <<givenVars, faults, browserVars, up, pages, snapshots, visits, left, waits, endVars,
                 owed, failed, unseen>>

\* The cookies are read as well, so there is always something to wait for.
ClosesBrowser ==
  /\ phase = "on" /\ ~gone /\ "browser" \notin holds /\ route = "plugin"
  /\ owed' = Owe(UNION {Owing(t) : t \in {s \in Tabs : Open(s) /\ InStep(s)}})
  /\ down' = [t \in Tabs |-> down[t] \o SnapshotOf(t)]
  /\ holds' = holds \cup {"browser"}
  /\ waits' = [waits EXCEPT !["browser"] = [t \in Tabs |-> IF SnapshotOf(t) = << >> THEN 0 ELSE Awaited(t) + 1]]
  /\ UNCHANGED <<givenVars, faults, browserVars, up, pages, snapshots, visits, left, endVars, failed, unseen>>

(***************************************************************************)
(* The plugin on the browser's events and answers.                         *)
(***************************************************************************)

Recent(o) == Append(SelectSeq(visits, LAMBDA p : p # o), o)

\* snapshotAndStash: the page must still show what it showed.
Stash(e) ==
  IF e.site \in Sites /\ e.site = e.expected
  THEN /\ snapshots' = [o \in DOMAIN snapshots \cup {e.site} |-> IF o = e.site THEN e.data ELSE snapshots[o]]
       /\ visits' = Recent(e.site)
  ELSE UNCHANGED <<snapshots, visits>>

OnAnswer(e) ==
  /\ e.kind = "answer"
  /\ Stash(e)
  /\ waits' = Settled(e.tab)
  /\ UNCHANGED <<pages, left, down>>

OnAttached(e) ==
  /\ e.kind = "attached"
  /\ pages' = [pages EXCEPT ![e.tab] = Blank]
  /\ down' = [down EXCEPT ![e.tab] = Append(@, <<"enable", Blank>>)]
  /\ UNCHANGED <<snapshots, visits, left, waits>>

OnDetached(e) ==
  /\ e.kind = "detached"
  /\ pages' = [pages EXCEPT ![e.tab] = NoTab]
  /\ UNCHANGED <<snapshots, visits, left, waits, down>>

\* A page without an origin leaves activeOrigin as it was.
OnNavigated(e) ==
  /\ e.kind = "navigated"
  /\ pages' = IF e.site \in Sites THEN [pages EXCEPT ![e.tab] = e.site] ELSE pages
  /\ UNCHANGED <<snapshots, visits, left, waits, down>>

\* Mutant: the origin is not remembered as one to read again.
OnRequestedOnce(e) ==
  /\ e.kind = "requested"
  /\ down' = IF pages[e.tab] \in Sites \ {e.site} THEN [down EXCEPT ![e.tab] = @ \o SnapshotOf(e.tab)] ELSE down
  /\ UNCHANGED <<pages, snapshots, visits, left, waits>>

\* Page.frameRequestedNavigation: the snapshot may come too late.
OnRequested(e) ==
  /\ e.kind = "requested"
  /\ IF pages[e.tab] \in Sites \ {e.site}
     THEN /\ left' = left \cup {pages[e.tab]}
          /\ down' = [down EXCEPT ![e.tab] = @ \o SnapshotOf(e.tab)]
     ELSE UNCHANGED <<left, down>>
  /\ UNCHANGED <<pages, snapshots, visits, waits>>

\* The session is to end: a page that comes back to an origin now is read
\* neither as one that left it nor, for sure, as one that shows it.
Closing == phase # "on" \/ "browser" \in holds

OnEvent ==
  /\ phase # "done" /\ up # << >> /\ up' = Tail(up)
  /\ LET e == Head(up) IN
     /\ OnAnswer(e) \/ OnAttached(e) \/ OnDetached(e) \/ OnNavigated(e) \/ OnRequested(e)
     /\ unseen' = IF Closing /\ e.kind = "navigated" THEN unseen \cup ({e.site} \cap Sites) ELSE unseen
  /\ UNCHANGED <<givenVars, faults, browserVars, holds, endVars, owed, failed>>

\* The page is busy: the snapshot is given up after its deadline.
SnapshotTimesOut(t) ==
  /\ phase # "done" /\ Fault
  /\ \E i \in DOMAIN down[t] :
       /\ down[t][i][1] = "eval" /\ \A j \in 1..(i - 1) : down[t][j][1] # "eval"
       /\ failed' = failed \cup {down[t][i][2]}
       /\ down' = [down EXCEPT ![t] = RemoveAt(@, i)]
  /\ \A i \in DOMAIN up : ~(up[i].kind = "answer" /\ up[i].tab = t)
  /\ waits' = Settled(t)
  /\ UNCHANGED <<givenVars, browserVars, up, pages, snapshots, visits, left, holds, endVars, owed, unseen>>

(***************************************************************************)
(* The end of the session.                                                 *)
(***************************************************************************)

\* onSessionEnd waits for the snapshots that are on their way.
EndBegins ==
  /\ phase' = "drain"
  /\ waits' = [waits EXCEPT !["end"] = [t \in Tabs |-> Awaited(t)]]

ClientDisconnects ==
  /\ phase = "on" /\ ~gone /\ route = "plugin" /\ "browser" \notin holds
  /\ EndBegins
  /\ owed' = Owe(UNION {Owing(t) : t \in {s \in Tabs : Open(s) /\ InStep(s)}})
  /\ UNCHANGED <<givenVars, faults, browserVars, down, up, pages, snapshots, visits, left, holds,
                 toRead, reread, gone, outcome, failed, unseen>>

\* The socket is closed: whatever is awaited is rejected, and what is on its
\* way is lost.
BrowserLost ==
  /\ gone' = TRUE
  /\ failed' = failed \cup UNION {LostOf(down[t]) : t \in Tabs}
               \cup (UNION {{up[i].site, up[i].expected, pages[up[i].tab]} : i \in DOMAIN up} \cap Sites)
  /\ down' = [t \in Tabs |-> << >>] /\ up' = << >>
  /\ waits' = [w \in Waiters |-> NoWait]
  /\ phase' = IF phase = "on" THEN "drain" ELSE phase

\* The provider drops, or the end takes longer than its timer allows.
Drops ==
  /\ ~gone /\ route = "plugin" /\ phase # "done" /\ Fault
  /\ BrowserLost
  /\ unseen' = unseen \cup (({doc[t] : t \in Tabs} \cup {pages[t] : t \in Tabs}) \cap Sites)
  /\ UNCHANGED <<givenVars, browserVars, pages, snapshots, visits, left, holds,
                 toRead, reread, outcome, owed>>

\* The held Browser.close goes out, and the browser goes with its socket.
BrowserHoldEnds ==
  /\ "browser" \in holds /\ waits["browser"] = NoWait /\ ~gone /\ phase = "on"
  /\ BrowserLost
  /\ UNCHANGED <<givenVars, faults, browserVars, pages, snapshots, visits, left, holds,
                 toRead, reread, outcome, owed, unseen>>

Active == {pages[t] : t \in Tabs} \cap Sites

\* snapshotActivePages, unless Browser.close was held: it had them taken.
SnapshotActivePages ==
  /\ phase = "drain" /\ waits["end"] = NoWait
  /\ phase' = "active"
  /\ IF "browser" \in holds
     THEN UNCHANGED <<down, waits, failed>>
     ELSE IF gone
          THEN failed' = failed \cup Active /\ UNCHANGED <<down, waits>>
          ELSE /\ down' = [t \in Tabs |-> down[t] \o SnapshotOf(t)]
               /\ waits' = [waits EXCEPT !["end"] = [t \in Tabs |->
                    IF SnapshotOf(t) = << >> THEN 0 ELSE Awaited(t) + 1]]
               /\ UNCHANGED failed
  /\ UNCHANGED <<givenVars, faults, browserVars, up, pages, snapshots, visits, left, holds,
                 toRead, reread, gone, outcome, owed, unseen>>

\* rereadOriginsLeftByPageNavigation: not those some tab is still taken to show.
BeginReread ==
  /\ phase = "active" /\ waits["end"] = NoWait
  /\ phase' = "reread" /\ toRead' = left \ Active
  /\ UNCHANGED <<givenVars, faults, browserVars, down, up, pluginVars, reread, gone, outcome, owed, failed, unseen>>

\* A helper page is sent to the origin and dumps it, or fails.
ReadOrigin(o) ==
  /\ phase = "reread" /\ o \in toRead
  /\ toRead' = toRead \ {o}
  /\ \/ ~gone /\ reread' = [p \in DOMAIN reread \cup {o} |-> IF p = o THEN live[o] ELSE reread[p]]
        /\ visits' = Recent(o) /\ UNCHANGED <<failed, faults>>
     \/ (gone \/ faults < MaxFaults) /\ failed' = failed \cup {o}
        /\ faults' = (IF gone THEN faults ELSE faults + 1) /\ UNCHANGED <<reread, visits>>
  /\ UNCHANGED <<givenVars, browserVars, down, up, pages, snapshots, left, holds, waits,
                 phase, gone, outcome, owed, unseen>>

\* The REST call is over: every stored origin is read, and the origins its
\* cookies suggest; a call that failed releases the profile as it was.
RestEnds ==
  /\ route = "rest" /\ phase = "on"
  /\ \/ /\ phase' = "reread" /\ \E os \in SUBSET Sites : toRead' = Loaded \cup os
        /\ UNCHANGED outcome
     \/ phase' = "done" /\ outcome' = [action |-> "released"] /\ UNCHANGED toRead
  /\ UNCHANGED <<givenVars, faults, browserVars, down, up, pluginVars, reread, gone, owed, failed, unseen>>

\* The REST call's own page.
RestWrites(o) ==
  /\ route = "rest" /\ phase = "on"
  /\ writes < MaxWrites /\ writes' = writes + 1
  /\ live' = [live EXCEPT ![o] = @ \cup {<<o, writes + 1>>}]
  /\ UNCHANGED <<givenVars, faults, doc, enabled, reported, leaving, moves, down, up, pluginVars, endVars,
                 owed, failed, unseen>>

(***************************************************************************)
(* mergeAndPrepareProfile and enforceProfileLimits.                        *)
(***************************************************************************)

Captured == DOMAIN snapshots \cup DOMAIN reread

Merged(o) ==
  IF o \in DOMAIN reread THEN reread[o]
  ELSE IF o \in DOMAIN snapshots THEN snapshots[o]
  ELSE IF o \in Loaded THEN {<<o, 0>>} ELSE {}

\* Bytes: one for an origin, one for each entry.
Weight(os) == Cardinality(os) + Cardinality(UNION {Merged(o) : o \in os})

Latest(n) == {visits[i] : i \in {j \in DOMAIN visits : j + n > Len(visits)}}

\* The oldest origins are dropped until both limits are met.
Kept == LET fits == {n \in 0..Len(visits) : n <= MaxOrigins /\ Weight(Latest(n)) <= HardCap}
        IN Latest(CHOOSE n \in fits : \A k \in fits : k <= n)

\* Cookies: none came back, some did, or more than the cap allows.
Save(hadCookies, cookies) ==
  /\ phase = "reread" /\ toRead = {}
  /\ phase' = "done"
  /\ outcome' = IF cookies = "none" /\ hadCookies THEN [action |-> "preserved-empty-capture"]
                ELSE IF cookies = "many" THEN [action |-> "preserved-refused"]
                ELSE [action |-> "save", storage |-> [o \in Kept |-> Merged(o)]]
  /\ UNCHANGED <<givenVars, faults, browserVars, down, up, pluginVars, toRead, reread, gone, owed, failed, unseen>>

Pages == \E t \in Tabs :
  \/ PageWrites(t) \/ PageArrives(t) \/ TabCloses(t)
  \/ \E o \in Sites \cup {Blank} : TabOpens(t, o) \/ PageLeaves(t, o)
Client ==
  \/ ClosesBrowser \/ ClientDisconnects \/ RestEnds
  \/ \E o \in Sites : RestWrites(o)
  \/ \E t \in Tabs : ClosesTab(t) \/ \E o \in Sites \cup {Blank} : ClientNavigates(t, o) \/ ClientGoes(t, o)
CaptureProgress ==
  \/ OnEvent \/ BrowserHoldEnds \/ SnapshotActivePages \/ BeginReread
  \/ \E t \in Tabs : BrowserTakes(t) \/ TabHoldEnds(t) \/ SnapshotTimesOut(t)
  \/ \E o \in Sites : ReadOrigin(o)
  \/ \E had \in BOOLEAN, cookies \in {"none", "some", "many"} : Save(had, cookies)

CaptureNext == Pages \/ Client \/ Drops \/ CaptureProgress

CaptureSpec == CaptureInit /\ [][CaptureNext]_captureVars

(***************************************************************************)
(* Properties                                                              *)
(***************************************************************************)

SavedSites == IF outcome.action = "save" THEN DOMAIN outcome.storage ELSE {}
Evicted == (Loaded \cup Captured) \ SavedSites

\* What an origin held when the client knowingly left it is saved, whichever
\* tab left it, in whatever order the snapshots came back: but for origins
\* that were left unseen and those of which a reading failed.
NothingOwedIsLost ==
  \A o \in SavedSites \ (failed \cup unseen) : owed[o] \subseteq outcome.storage[o]

\* Nothing is saved for an origin but what was stored or written there
\* (profile.ts:476), even when a tab has moved on before it is read.
SavedUnderItsOrigin == \A o \in SavedSites : outcome.storage[o] \subseteq Entries(o)

\* What was written into the browser, or not touched at all, is still there.
InjectedSurvives ==
  \A o \in SavedSites \cap Loaded :
    o \in injected \/ o \notin Captured => <<o, 0>> \in outcome.storage[o]

\* An origin of this session gives way only when no older one is left.
OldestGiveWay ==
  outcome.action = "save" /\ Evicted \cap Captured # {} => SavedSites \subseteq Captured

\* What is saved is true: each origin has its own, and what was loaded.
CaptureIsTrue == SavedUnderItsOrigin /\ InjectedSurvives /\ OldestGiveWay

\* "cookies and localStorage are captured as you leave each page"
\* (README.md:117).
CapturedAsYouLeave == \A o \in SavedSites \ failed : owed[o] \subseteq outcome.storage[o]

\* "... and replayed on the next connect": a saved profile holds what it held.
NothingStoredIsLost == \A o \in SavedSites \cap Loaded : <<o, 0>> \in outcome.storage[o]
=============================================================================
