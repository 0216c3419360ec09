------------------------------ MODULE LiveView ------------------------------
(***************************************************************************)
(* One live view: the upgrade handler takes the profile's lock, accepts    *)
(* the viewer, opens the provider's socket and starts a pipeline without a *)
(* client.  The bridge plugin opens the page that is viewed and carries    *)
(* the viewer's input to it; the profile plugin, which starts after it,    *)
(* loads the profile and saves it at the end.                              *)
(*                                                                         *)
(* The start is a program of commands to the browser, each awaited.  Input *)
(* is numbered in the order in which the viewer sends it.                  *)
(***************************************************************************)
EXTENDS Naturals, Sequences, FiniteSets, SequencesExt

CONSTANTS
  EarlyLimit,  \* MAX_EARLY_VIEWER_MESSAGES
  MaxInput     \* bound: messages of the viewer

ASSUME LiveAssumption == EarlyLimit \in Nat /\ MaxInput \in Nat

VARIABLES
  live,        \* where the handler is
  wants,       \* what the view asks for: a profile that is saved, or none
  viewer,      \* the viewer's socket
  listening,   \* the bridge listens to it
  liveLock,    \* the profile's lock, as this view sees it
  cdp,         \* the provider's socket
  dropped,     \* the provider closed it
  step,        \* the start command that is awaited
  answer,      \* what became of it
  tab,         \* the page that is viewed
  jar,         \* whose cookies the browser holds
  saved,       \* whose cookies the profile was saved with
  over,        \* Pipeline.closed
  endStep,     \* the end hook that is awaited
  leftBehind,  \* end hooks whose timer ran out
  typed,       \* messages the viewer has sent
  early,       \* kept until somebody listens
  heldBack,        \* kept until every plugin has started
  overflow,    \* messages that found the early buffer full
  performed    \* messages carried out

liveVars == <<live, wants, viewer, listening, liveLock, cdp, dropped, step, answer, tab, jar, saved, over,
              endStep, leftBehind, typed, early, heldBack, overflow, performed>>

handlerVars == <<live, wants, liveLock, saved>>
setupVars == <<step, answer>>
endVars == <<over, endStep, leftBehind>>
inputVars == <<typed, early, heldBack, overflow, performed>>
socketVars == <<viewer, cdp, dropped, tab, jar>>

BridgeStart == <<"createTarget", "attach", "enable", "version", "viewport", "cast">>
ProfileLoad == <<"probe", "clear", "set", "mark">>
StartProgram == IF wants = "profile" THEN BridgeStart \o ProfileLoad ELSE BridgeStart

\* What the browser may refuse without failing the start.
Tolerated(command) == command \in {"version", "probe", "clear", "mark"}

ViewTypes ==
  /\ live \in {"idle", "resolving", "acquiring", "accepting", "dialing", "starting", "running",
               "ended", "refused", "stranded"}
  /\ wants \in {"nothing", "profile"}
  /\ viewer \in {"http", "gone", "open", "left", "shut"}
  /\ listening \in BOOLEAN /\ dropped \in BOOLEAN /\ over \in BOOLEAN
  /\ liveLock \in {"none", "held", "free"}
  /\ cdp \in {"none", "open", "closed"}
  /\ step \in 0..(Len(StartProgram) + 1)
  /\ answer \in {"none", "done", "residue", "refused", "rejected"}
  /\ jar \in {"foreign", "empty", "own", "mixed"} /\ saved \in {"none", "foreign", "own", "mixed"}
  /\ tab \in {"none", "open", "closed"}
  /\ endStep \in {"none", "profile", "bridge", "finish", "finished"}
  /\ leftBehind \subseteq {"profile"}

InputTypes ==
  /\ typed \in 0..MaxInput
  /\ overflow \subseteq 1..typed
  /\ \A s \in {early, heldBack, performed} : s \in Seq(1..typed)

LiveTypeOK == ViewTypes /\ InputTypes

LiveInit ==
  /\ live = "idle" /\ wants \in {"nothing", "profile"}
  /\ viewer = "http" /\ listening = FALSE
  /\ liveLock = "none" /\ cdp = "none" /\ dropped = FALSE
  /\ step = 0 /\ answer = "none" /\ tab = "none" /\ jar = "foreign" /\ saved = "none"
  /\ over = FALSE /\ endStep = "none" /\ leftBehind = {}
  /\ typed = 0 /\ early = << >> /\ heldBack = << >> /\ overflow = {} /\ performed = << >>

(***************************************************************************)
(* The handler, up to the start of the pipeline.                           *)
(***************************************************************************)

\* The checks that need no waiting: token, shutdown, provider, proxy.
LiveRequest ==
  /\ live = "idle"
  /\ live' \in {"resolving", "refused"}
  /\ viewer' = IF live' = "refused" THEN "shut" ELSE viewer
  /\ UNCHANGED <<wants, liveLock, saved, listening, cdp, dropped, tab, jar, setupVars, endVars, inputVars>>

\* The provider's address is resolved, or cannot be.
Resolved ==
  /\ live = "resolving"
  /\ \/ live' = (IF wants = "profile" THEN "acquiring" ELSE "accepting") /\ UNCHANGED viewer
     \/ live' = "refused" /\ viewer' = (IF viewer = "http" THEN "shut" ELSE viewer)
  /\ UNCHANGED <<wants, liveLock, saved, listening, cdp, dropped, tab, jar, setupVars, endVars, inputVars>>

\* acquire: no waiting for a lock that is held.
Acquired ==
  /\ live = "acquiring"
  /\ \/ live' = "accepting" /\ liveLock' = "held" /\ UNCHANGED viewer
     \/ live' = "refused" /\ viewer' = (IF viewer = "http" THEN "shut" ELSE viewer) /\ UNCHANGED liveLock
  /\ UNCHANGED <<wants, saved, listening, cdp, dropped, tab, jar, setupVars, endVars, inputVars>>

\* handleUpgrade never calls back for a viewer that has gone, and the handler
\* has nothing that would release the profile.
Accept ==
  /\ live = "accepting"
  /\ IF viewer = "http"
     THEN viewer' = "open" /\ live' = "dialing"
     ELSE live' = "stranded" /\ UNCHANGED viewer
  /\ UNCHANGED <<wants, liveLock, saved, listening, cdp, dropped, tab, jar, setupVars, endVars, inputVars>>

FreeLock == IF liveLock = "held" THEN "free" ELSE liveLock

\* The viewer is told, its socket closed and the profile released.
Refuse ==
  /\ live' = "refused" /\ liveLock' = FreeLock
  /\ viewer' = IF viewer = "open" THEN "shut" ELSE viewer

LiveDialFails ==
  /\ live = "dialing"
  /\ Refuse
  /\ UNCHANGED <<wants, saved, listening, cdp, dropped, tab, jar, setupVars, endVars, inputVars>>

LiveDialOpens ==
  /\ live = "dialing"
  /\ live' = "starting" /\ cdp' = "open" /\ step' = 1
  /\ UNCHANGED <<wants, liveLock, saved, viewer, listening, dropped, tab, jar, answer, endVars, inputVars>>

(***************************************************************************)
(* The start of the plugins.                                               *)
(***************************************************************************)

Awaited == live = "starting" /\ step \in 1..Len(StartProgram) /\ answer = "none"

\* What a command leaves in the browser's cookie jar.
JarAfter(command) ==
  CASE command = "clear" -> "empty"
    [] command = "set"   -> IF jar = "empty" THEN "own" ELSE "mixed"
    [] OTHER             -> jar

\* The browser does what it is asked, or refuses; the probe may find the
\* marker of another profile.
BrowserAnswers ==
  /\ Awaited /\ cdp = "open"
  /\ \/ /\ answer' = "done"
        /\ tab' = IF StartProgram[step] = "createTarget" THEN "open" ELSE tab
        /\ jar' = JarAfter(StartProgram[step])
     \/ answer' = "refused" /\ UNCHANGED <<tab, jar>>
     \/ StartProgram[step] = "probe" /\ answer' = "residue" /\ UNCHANGED <<tab, jar>>
  /\ UNCHANGED <<handlerVars, viewer, listening, cdp, dropped, step, endVars, inputVars>>

StartGoesOn ==
  answer = "done" \/ (answer \in {"refused", "rejected"} /\ Tolerated(StartProgram[step]))

\* attachViewer: what came early is delivered, and held until all have started.
DeliverEarly == heldBack' = early /\ early' = << >> /\ UNCHANGED performed

ClosedMeanwhile == over

\* The next command.  After the bridge's last one the viewer is listened to;
\* after the last of all what was held is flushed and run() follows.
StartProceeds ==
  /\ live = "starting" /\ ~ClosedMeanwhile /\ StartGoesOn
  /\ step' = step + 1 /\ answer' = "none"
  /\ listening' = (listening \/ step = Len(BridgeStart))
  /\ LET last == step = Len(StartProgram)
     IN /\ live' = IF last THEN "running" ELSE live
        /\ CASE step = Len(BridgeStart) /\ ~last -> DeliverEarly
             [] step = Len(BridgeStart) /\ last  -> performed' = early /\ early' = << >> /\ UNCHANGED heldBack
             [] step # Len(BridgeStart) /\ last  -> performed' = performed \o heldBack /\ heldBack' = << >> /\ UNCHANGED early
             [] OTHER                            -> UNCHANGED <<early, heldBack, performed>>
  /\ UNCHANGED <<wants, liveLock, saved, socketVars, endVars, typed, overflow>>

StartThrows ==
  /\ live = "starting"
  /\ \/ answer \in {"refused", "rejected"} /\ ~Tolerated(StartProgram[step])
     \/ answer = "residue"
     \/ Awaited                                 \* the hook's timer
     \/ ClosedMeanwhile /\ answer # "none"
  /\ Refuse
  /\ cdp' = "closed" /\ over' = TRUE
  /\ UNCHANGED <<wants, saved, listening, dropped, tab, jar, setupVars, endStep, leftBehind, inputVars>>

(***************************************************************************)
(* The viewer.                                                             *)
(***************************************************************************)

Arrives(n) ==
  CASE ~listening /\ Len(early) < EarlyLimit ->
         early' = Append(early, n) /\ UNCHANGED <<heldBack, overflow, performed>>
    [] ~listening /\ Len(early) >= EarlyLimit ->
         overflow' = overflow \cup {n} /\ UNCHANGED <<early, heldBack, performed>>
    [] listening /\ live # "running" ->
         heldBack' = Append(heldBack, n) /\ UNCHANGED <<early, overflow, performed>>
    [] OTHER ->
         performed' = Append(performed, n) /\ UNCHANGED <<early, heldBack, overflow>>

ViewerSends ==
  /\ viewer = "open" /\ live \in {"dialing", "starting", "running"} /\ ~over /\ typed < MaxInput
  /\ typed' = typed + 1
  /\ Arrives(typed + 1)
  /\ UNCHANGED <<handlerVars, listening, socketVars, setupVars, endVars>>

\* finalize: the end hooks run, the profile's first.  It counts as started
\* from the moment its start hook is called.
LiveFinalize ==
  IF over THEN UNCHANGED endVars
  ELSE /\ over' = TRUE
       /\ endStep' = IF liveLock = "held" /\ step > Len(BridgeStart) THEN "profile" ELSE "bridge"
       /\ UNCHANGED leftBehind

\* Only a bridge that listens hears of it.
ViewerLeaves ==
  /\ viewer = "open"
  /\ viewer' = "left"
  /\ IF listening THEN LiveFinalize ELSE UNCHANGED endVars
  /\ UNCHANGED <<handlerVars, listening, cdp, dropped, tab, jar, setupVars, inputVars>>

ViewerGivesUp ==
  /\ viewer = "http" /\ live \in {"resolving", "acquiring", "accepting"}
  /\ viewer' = "gone"
  /\ UNCHANGED <<handlerVars, listening, cdp, dropped, tab, jar, setupVars, endVars, inputVars>>

\* The keep-alive limit, or the viewer's own request.
ViewExpires ==
  /\ live = "running" /\ ~over
  /\ LiveFinalize
  /\ UNCHANGED <<handlerVars, listening, socketVars, setupVars, inputVars>>

ProviderDrops ==
  /\ cdp = "open"
  /\ cdp' = "closed" /\ dropped' = TRUE
  /\ LiveFinalize
  /\ UNCHANGED <<handlerVars, viewer, listening, tab, jar, setupVars, inputVars>>

(***************************************************************************)
(* The end hooks.                                                          *)
(***************************************************************************)

\* The profile is saved with the cookies the browser holds; when there are
\* none, or they cannot be read, it is left as it was.  Its lock is given back.
ProfileEnds ==
  /\ endStep = "profile"
  /\ saved' = IF cdp = "open" /\ jar # "empty" THEN jar ELSE saved
  /\ liveLock' = "free" /\ endStep' = "bridge"
  /\ UNCHANGED <<live, wants, listening, socketVars, setupVars, over, leftBehind, inputVars>>

\* The hook hangs on a browser that does not answer, and is given up.
ProfileEndTimer ==
  /\ endStep = "profile"
  /\ endStep' = "bridge" /\ leftBehind' = {"profile"}
  /\ UNCHANGED <<handlerVars, listening, socketVars, setupVars, over, inputVars>>

\* Mutant: the tab is left to the browser.
BridgeLeavesTab == UNCHANGED tab

BridgeClosesTab == tab' = IF tab = "open" /\ cdp = "open" THEN "closed" ELSE tab

BridgeEnds ==
  /\ endStep = "bridge"
  /\ endStep' = "finish"
  /\ BridgeClosesTab
  /\ viewer' = IF viewer = "open" THEN "shut" ELSE viewer
  /\ UNCHANGED <<handlerVars, listening, cdp, dropped, jar, setupVars, over, leftBehind, inputVars>>

RejectAwaited == answer' = IF Awaited THEN "rejected" ELSE answer

LiveFinish ==
  /\ endStep = "finish"
  /\ endStep' = "finished" /\ cdp' = "closed"
  /\ RejectAwaited
  /\ live' = IF live = "running" THEN "ended" ELSE live
  /\ UNCHANGED <<wants, liveLock, saved, viewer, listening, dropped, tab, jar, step, over, leftBehind, inputVars>>

LiveProgress ==
  \/ Resolved \/ Acquired \/ Accept \/ LiveDialFails
  \/ StartProceeds \/ StartThrows
  \/ ProfileEnds \/ ProfileEndTimer \/ BridgeEnds \/ LiveFinish

LiveNext ==
  \/ LiveProgress \/ LiveRequest \/ LiveDialOpens \/ BrowserAnswers
  \/ ViewerSends \/ ViewerLeaves \/ ViewerGivesUp \/ ViewExpires \/ ProviderDrops

LiveSpec == LiveInit /\ [][LiveNext]_liveVars /\ WF_liveVars(LiveProgress)

(***************************************************************************)
(* Properties                                                              *)
(***************************************************************************)

\* Input is carried out in the order in which it was sent, each message once,
\* and only what found the early buffer full is missing: nothing is lost
\* between the two buffers (viewer-buffer.ts, screencast-bridge.ts:231-235).
InputInOrder ==
  LET kept == performed \o heldBack \o early IN
  /\ Range(kept) = (1..typed) \ overflow
  /\ \A i, j \in DOMAIN kept : i < j => kept[i] < kept[j]

\* No input reaches the page before every plugin has started: a profile load
\* would clear what the page set (screencast-bridge.ts:231).
InputAfterLoad == performed # << >> => live \in {"running", "ended"}

\* A view that could not start gives its profile back and the viewer's socket
\* is closed, whoever left first and whichever command failed.
RefusedLetsGo == live = "refused" => liveLock # "held" /\ viewer # "open"

\* A view that ended over a living connection, no hook given up, has saved its
\* profile, closed the page it opened and let its viewer go.
EndedLetsGo ==
  live = "ended" /\ ~dropped /\ leftBehind = {} =>
    liveLock # "held" /\ tab = "closed" /\ viewer # "open"

\* A view that did run saves no cookies that were there before its profile
\* was loaded over them.
OwnStateSaved == live = "ended" => saved # "foreign"

\* What a view leaves behind, whichever way it went: its lock, its tab and its
\* viewer let go, and no foreign state saved.
ViewLetsGo == RefusedLetsGo /\ EndedLetsGo /\ OwnStateSaved

\* A viewer's input reaches the page in its order, and after the profile.
InputKept == InputInOrder /\ InputAfterLoad

\* A view does what its viewer asked, and lets go of what it took.
ViewSound == InputKept /\ ViewLetsGo

\* A viewer that is heard leaving ends the view (docs/PIPELINE.md:88); it does not
\* come back, and what is over stays so.
HeardLeavingEnds == []<>(viewer = "left" /\ over => live \in {"ended", "refused"})

\* The same of any viewer that leaves.
LeavingEnds == viewer = "left" ~> live \in {"ended", "refused"}

\* onSessionEnd does not run on a view that could not start (pipeline.ts:122),
\* least of all to save its profile.
RefusedSavesNothing == live = "refused" => saved = "none"

=============================================================================
