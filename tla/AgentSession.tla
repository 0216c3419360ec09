----------------------------- MODULE AgentSession -----------------------------
(***************************************************************************)
(* One agent session (agent-tools/session.ts): the tabs it opens in a      *)
(* browser it may share, the calls that work on them at the same time, the *)
(* popups it adopts, the idle clock and the end of it.  Every command may  *)
(* outlive its deadline: the call fails, the browser goes on.              *)
(***************************************************************************)
EXTENDS Naturals, Sequences, FiniteSets, SequencesExt

CONSTANTS Targets,     \* page targets the browser can open
          AgentCalls,  \* tool calls, any of them under way together
          NoTab,
          MaxLate      \* createTarget commands the browser may still obey late

ASSUME AgentAssumption == NoTab \notin Targets /\ MaxLate \in Nat

VARIABLES
  adopts,        \* opts.adoptPopups and keepLastTab, both set by computer use
  agentClosed,        \* session.closed
  expired,       \* session.expiredReason # null
  quiet,         \* nothing has touched the clock for idleMs
  tabs,          \* session.tabs, oldest first
  activeTab,     \* session.activeTabId
  page,          \* what the browser holds of each target
  agentCall,     \* how far each call is, and its tab
  adopting,      \* popups being registered
  closing,       \* tabs that close() still has to close
  unheard,       \* targets a command to which missed its deadline
  lateMade,      \* createTarget commands given up before the browser obeyed
  agentLink      \* the session's CDP connection

agentVars == <<adopts, agentClosed, expired, quiet, tabs, activeTab, page, agentCall, adopting,
               closing, unheard, lateMade, agentLink>>

NoCall == [step |-> "none", tab |-> NoTab, opens |-> FALSE]
Listed == Range(tabs)
\* The next target the browser opens (their names say nothing).
Fresh(t) == page[t] = "unopened" /\ t = CHOOSE u \in Targets : page[u] = "unopened"
FirstOf(seq) == IF seq = <<>> THEN NoTab ELSE seq[1]

AgentInit ==
  /\ adopts \in BOOLEAN
  /\ agentClosed = FALSE /\ expired = FALSE /\ quiet = FALSE
  /\ tabs = <<>> /\ activeTab = NoTab
  /\ page = [t \in Targets |-> "unopened"]
  /\ agentCall = [c \in AgentCalls |-> NoCall]
  /\ adopting = {} /\ closing = <<>> /\ unheard = {} /\ lateMade = 0
  /\ agentLink = "up"

----------------------------------------------------------------------------
(* The tabs of the session *)

\* registerTarget lists a tab even when the session closed meanwhile.
Register(t) == tabs' = Append(tabs, t)

Unlist(t) ==
  /\ IF t \in Listed THEN \E i \in DOMAIN tabs : tabs[i] = t /\ tabs' = RemoveAt(tabs, i)
                    ELSE UNCHANGED tabs
  /\ activeTab' = IF activeTab = t THEN FirstOf(tabs') ELSE activeTab

Ends(c) == agentCall' = [agentCall EXCEPT ![c] = NoCall]
OnTab(c, step, t) == agentCall' = [agentCall EXCEPT ![c].step = step, ![c].tab = t]

----------------------------------------------------------------------------
(* Calls *)

\* requireTab with a tab, or with none while one is active.
UseTab(c, t) ==
  /\ agentCall[c] = NoCall /\ ~agentClosed
  /\ t \in Listed
  /\ OnTab(c, "using", t)
  /\ quiet' = FALSE
  /\ UNCHANGED <<adopts, agentClosed, expired, tabs, activeTab, page, adopting, closing, unheard,
                 lateMade, agentLink>>

\* openTab, or requireTab when no tab is active: two such calls open two tabs.
BeginOpen(c, thenUses) ==
  /\ agentCall[c] = NoCall /\ ~agentClosed
  /\ thenUses => activeTab = NoTab
  /\ agentCall' = [agentCall EXCEPT ![c] = [step |-> "creating", tab |-> NoTab, opens |-> ~thenUses]]
  /\ quiet' = FALSE
  /\ UNCHANGED <<adopts, agentClosed, expired, tabs, activeTab, page, adopting, closing, unheard,
                 lateMade, agentLink>>

BrowserCreates(c, t) ==
  /\ agentCall[c].step = "creating" /\ agentLink = "up" /\ Fresh(t)
  /\ page' = [page EXCEPT ![t] = "open"]
  /\ OnTab(c, "attaching", t)
  /\ UNCHANGED <<adopts, agentClosed, expired, quiet, tabs, activeTab, adopting, closing, unheard,
                 lateMade, agentLink>>

\* The answer to the last command of registerTarget.
Attached(c) ==
  /\ agentCall[c].step = "attaching" /\ agentLink = "up" /\ page[agentCall[c].tab] = "open"
  /\ Register(agentCall[c].tab)
  /\ activeTab' = agentCall[c].tab
  /\ agentCall' = [agentCall EXCEPT ![c] = IF @.opens THEN NoCall ELSE [@ EXCEPT !.step = "using"]]
  /\ UNCHANGED <<adopts, agentClosed, expired, quiet, page, adopting, closing, unheard, lateMade,
                 agentLink>>

\* The browser answers with an error, since the target or the page has gone.
CommandFails(c) ==
  /\ agentCall[c].step \in {"attaching", "using"} /\ page[agentCall[c].tab] = "gone"
  /\ Ends(c)
  /\ UNCHANGED <<adopts, agentClosed, expired, quiet, tabs, activeTab, page, adopting, closing,
                 unheard, lateMade, agentLink>>

\* The commands of the call are answered; the clock starts again.
CallAnswered(c) ==
  /\ agentCall[c].step = "using" /\ agentLink = "up" /\ page[agentCall[c].tab] = "open"
  /\ Ends(c)
  /\ quiet' = FALSE
  /\ UNCHANGED <<adopts, agentClosed, expired, tabs, activeTab, page, adopting, closing, unheard,
                 lateMade, agentLink>>

HasDeadline(c) == agentCall[c].step \in {"creating", "attaching", "using", "shutting"}

\* send()'s race against its timer.
CommandTimesOut(c) ==
  /\ HasDeadline(c)
  /\ lateMade' = lateMade + (IF agentCall[c].step = "creating" /\ lateMade < MaxLate THEN 1 ELSE 0)
  /\ unheard' = IF agentCall[c].step \in {"attaching", "shutting"} THEN unheard \cup {agentCall[c].tab} ELSE unheard
  /\ Ends(c)
  /\ UNCHANGED <<adopts, agentClosed, expired, quiet, tabs, activeTab, page, adopting, closing, agentLink>>

\* The browser obeys a createTarget whose caller has left.
CreatedLate(t) ==
  /\ lateMade > 0 /\ agentLink = "up" /\ Fresh(t)
  /\ lateMade' = lateMade - 1
  /\ page' = [page EXCEPT ![t] = "open"]
  /\ unheard' = unheard \cup {t}
  /\ UNCHANGED <<adopts, agentClosed, expired, quiet, tabs, activeTab, agentCall, adopting, closing,
                 agentLink>>

\* closeTab: unlisted first, then closed in the browser.
CloseTab(c, t) ==
  /\ agentCall[c] = NoCall /\ t \in Listed
  /\ adopts => Len(tabs) > 1
  /\ Unlist(t)
  /\ OnTab(c, "shutting", t)
  /\ quiet' = FALSE
  /\ UNCHANGED <<adopts, agentClosed, expired, page, adopting, closing, unheard, lateMade, agentLink>>

SelectTab(c, t) ==
  /\ agentCall[c] = NoCall /\ t \in Listed
  /\ activeTab' = t
  /\ Ends(c)
  /\ UNCHANGED <<adopts, agentClosed, expired, quiet, tabs, page, adopting, closing, unheard,
                 lateMade, agentLink>>

----------------------------------------------------------------------------
(* The browser's own doings *)

\* Target.targetDestroyed: the tab is unlisted and input waiting on it ends.
TargetGone(t) ==
  /\ page' = [page EXCEPT ![t] = "gone"]
  /\ Unlist(t)

TargetCloses(t) ==
  /\ page[t] = "open" /\ agentLink = "up"
  /\ TargetGone(t)
  /\ agentCall' = [c \in AgentCalls |->
       IF agentCall[c].tab = t /\ agentCall[c].step \in {"using", "shutting"}
       THEN NoCall ELSE agentCall[c]]
  /\ UNCHANGED <<adopts, agentClosed, expired, quiet, adopting, closing, unheard, lateMade, agentLink>>

\* Target.targetCreated with an opener the session owns; a popup nobody adopts
\* stays a page of the browser only.
PopsUp(opener, t) ==
  /\ opener \in Listed /\ Fresh(t) /\ agentLink = "up"
  /\ page' = [page EXCEPT ![t] = "open"]
  /\ IF adopts THEN adopting' = adopting \cup {t} /\ UNCHANGED unheard
     ELSE unheard' = unheard \cup {t} /\ UNCHANGED adopting
  /\ UNCHANGED <<adopts, agentClosed, expired, quiet, tabs, activeTab, agentCall, closing, lateMade,
                 agentLink>>

Adopted(t) ==
  /\ t \in adopting /\ page[t] = "open" /\ agentLink = "up"
  /\ adopting' = adopting \ {t}
  /\ Register(t) /\ UNCHANGED activeTab
  /\ UNCHANGED <<adopts, agentClosed, expired, quiet, page, agentCall, closing, unheard, lateMade,
                 agentLink>>

\* An adoption that fails is forgotten, its popup with it.
AdoptionFails(t) ==
  /\ t \in adopting
  /\ adopting' = adopting \ {t}
  /\ unheard' = unheard \cup {t}
  /\ UNCHANGED <<adopts, agentClosed, expired, quiet, tabs, activeTab, page, agentCall, closing,
                 lateMade, agentLink>>

----------------------------------------------------------------------------
(* The end *)

\* Mutant: close() takes the active tab for the only one.
CloseActive ==
  /\ agentClosed' = TRUE
  /\ closing' = IF activeTab = NoTab THEN <<>> ELSE <<activeTab>>
  /\ tabs' = <<>> /\ activeTab' = NoTab
\* close() up to its first await.
CloseSession ==
  /\ agentClosed' = TRUE
  /\ closing' = tabs
  /\ tabs' = <<>> /\ activeTab' = NoTab

\* The session's owner releases it.
Release ==
  /\ ~agentClosed /\ CloseSession
  /\ UNCHANGED <<adopts, expired, quiet, page, agentCall, adopting, unheard, lateMade, agentLink>>

TimePasses ==
  /\ ~agentClosed /\ ~quiet /\ quiet' = TRUE
  /\ UNCHANGED <<adopts, agentClosed, expired, tabs, activeTab, page, agentCall, adopting, closing,
                 unheard, lateMade, agentLink>>

\* SessionPolicy.tick: the clock knows nothing of a call under way.
Expire ==
  /\ ~agentClosed /\ quiet
  /\ expired' = TRUE
  /\ CloseSession
  /\ UNCHANGED <<adopts, quiet, page, agentCall, adopting, unheard, lateMade, agentLink>>

\* One tab of close(): whatever goes wrong, the next one follows.
ClosesNext ==
  /\ closing # <<>>
  /\ closing' = Tail(closing)
  /\ \/ agentLink = "up" /\ page' = [page EXCEPT ![closing[1]] = "gone"] /\ UNCHANGED unheard
     \/ unheard' = unheard \cup {closing[1]} /\ UNCHANGED page
  /\ agentCall' = [c \in AgentCalls |->
       IF agentCall[c].tab = closing[1] /\ agentCall[c].step = "using" /\ page'[closing[1]] = "gone"
       THEN NoCall ELSE agentCall[c]]
  /\ UNCHANGED <<adopts, agentClosed, expired, quiet, tabs, activeTab, adopting, lateMade, agentLink>>

\* The owner closes the connection after close(), or the provider drops it:
\* whatever is pending is rejected, and the contexts go with the connection.
LinkEnds ==
  /\ agentLink = "up"
  /\ agentLink' = "down"
  /\ page' = [t \in Targets |-> IF page[t] = "open" THEN "gone" ELSE page[t]]
  /\ agentCall' = [c \in AgentCalls |-> NoCall]
  /\ UNCHANGED <<adopts, agentClosed, expired, quiet, tabs, activeTab, adopting, closing, unheard,
                 lateMade>>

AgentNext ==
  \/ \E c \in AgentCalls :
       \/ \E t \in Targets : UseTab(c, t) \/ CloseTab(c, t) \/ SelectTab(c, t) \/ BrowserCreates(c, t)
       \/ \E thenUses \in BOOLEAN : BeginOpen(c, thenUses)
       \/ Attached(c) \/ CommandFails(c) \/ CallAnswered(c) \/ CommandTimesOut(c)
  \/ \E t \in Targets :
       \/ CreatedLate(t) \/ TargetCloses(t) \/ Adopted(t) \/ AdoptionFails(t)
       \/ \E opener \in Targets : PopsUp(opener, t)
  \/ Release \/ TimePasses \/ Expire \/ ClosesNext \/ LinkEnds

\* Timers fire; nothing is assumed of the browser.
Deadline(c) == CommandTimesOut(c) \/ CommandFails(c)
AgentSpec == AgentInit /\ [][AgentNext]_agentVars /\ \A c \in AgentCalls : WF_agentVars(Deadline(c))

----------------------------------------------------------------------------
(* Properties *)

\* When close() is through, a page of the session is still open in the shared
\* browser only if somebody was opening it while the session closed, or a
\* command to it was given up: close() forgets no tab it could know of.
ClosedLeavesNone ==
  (agentClosed /\ closing = <<>>) =>
    \A t \in Targets : page[t] = "open" =>
      \/ t \in unheard \cup adopting \cup Listed
      \/ \E c \in AgentCalls : agentCall[c].tab = t /\ agentCall[c].step \in {"attaching", "shutting"}

\* An unnamed call works on a page that is there: the active tab is a listed
\* one, whoever closed the others, and there is one whenever a tab is listed,
\* unless all that is left is a popup the session adopted.
ActiveTabIsListed ==
  /\ activeTab # NoTab => activeTab \in Listed
  /\ (tabs # <<>> /\ activeTab = NoTab) => adopts

\* The session's list is true to the browser: while it works and when it closes.
TabsAreKept == ClosedLeavesNone /\ ActiveTabIsListed

\* Every call ends, though the browser may answer nothing: by its deadline, by
\* the tab's going, or with the connection.
CallsEnd == \A c \in AgentCalls : []<>(agentCall[c] = NoCall)
=============================================================================
