------------------------------ MODULE ComputerUse ------------------------------
(***************************************************************************)
(* agent-tools/computer-use: a model asked turn by turn, its computer-use  *)
(* calls run one after the other on the tabs of one agent session, and the *)
(* address policy.  Pages load, redirect and open others on their own; any *)
(* command may be refused or miss its deadline.                            *)
(***************************************************************************)
EXTENDS Naturals, Sequences, FiniteSets, SequencesExt

CONSTANTS
  FirstTab, Popup,   \* the tab the session opens, and one that comes later
  Keys,              \* a chord held down, the modifiers first
  MaxTurns,          \* maxTurns of the loop
  MaxAsks,          \* calls in one answer of the model
  MaxSlips           \* times a page goes elsewhere by itself

ASSUME ComputerUseAssumption ==
  /\ FirstTab # Popup /\ Keys \in Seq(STRING)
  /\ {MaxTurns, MaxAsks, MaxSlips} \subseteq Nat

VARIABLES
  vendor,     \* "browser", "computer" (Claude's tools) or "gemini"
  loop,       \* "asking", "running", or how the loop ended
  turn,       \* turns begun
  asks,       \* the calls of the turn
  replies,    \* how each was answered: "ok", "error" or "halt"
  doing,      \* how far the call under way is
  shown,      \* what its content, or the last observation, was read from
  toHold,     \* keys that hold_key has still to press
  toFree,     \* keys it has still to release, the next one first
  keysDown,   \* keys the page takes to be down
  keyRefused, \* a key command failed in this session
  address,    \* of each tab: "none" without a tab, "blank", "fine" or "forbidden"
  front,      \* the active tab
  slips,      \* bound
  slipped     \* a page went elsewhere after it was looked at

useVars == <<vendor, loop, turn, asks, replies, doing, shown, toHold, toFree, keysDown, keyRefused,
             address, front, slips, slipped>>
loopVars == <<vendor, loop, turn, asks>>
keyVars == <<toHold, toFree, keysDown, keyRefused>>

Tabs == {FirstTab, Popup}
Owned == {t \in Tabs : address[t] # "none"}
Ended == {"done", "max-turns", "declined", "threw"}

\* The calls of each tool, by what they do.  "bad" is one that is refused for its
\* arguments, "confirm" one that a person has to allow.
BrowserOffers == {"look", "go", "poke", "hold", "open", "switch", "shut", "bad"}
ComputerOffers == {"look", "poke", "hold", "bad"}
GeminiOffers == {"look", "go", "poke", "confirm", "bad"}
Offers == [browser |-> BrowserOffers, computer |-> ComputerOffers, gemini |-> GeminiOffers]

Asked == asks[Len(replies) + 1]
Halting == vendor # "gemini"       \* runBatch
More == Len(replies) < Len(asks)

UseInit ==
  /\ vendor \in DOMAIN Offers
  /\ loop = "asking" /\ turn = 0 /\ asks = <<>> /\ replies = <<>> /\ doing = "idle"
  /\ shown = "nothing" /\ toHold = <<>> /\ toFree = <<>> /\ keysDown = {} /\ keyRefused = FALSE
  /\ address \in {[t \in Tabs |-> IF t = FirstTab THEN a ELSE "none"] : a \in {"blank", "fine"}}
  /\ front = FirstTab /\ slips = 0 /\ slipped = FALSE

----------------------------------------------------------------------------
(* The loop *)

\* The model answers: with text alone it is done, else its calls are run.
ModelAnswers ==
  /\ loop = "asking" /\ turn < MaxTurns
  /\ turn' = turn + 1 /\ replies' = <<>> /\ doing' = "idle" /\ shown' = "nothing"
  /\ \/ loop' = "done" /\ asks' = <<>>
     \/ /\ loop' = "running"
        /\ \E n \in 1..MaxAsks : asks' \in [1..n -> Offers[vendor]]
  /\ UNCHANGED <<vendor, keyVars, address, front, slips, slipped>>

TurnsSpent ==
  /\ loop = "asking" /\ turn = MaxTurns /\ loop' = "max-turns"
  /\ UNCHANGED <<vendor, turn, asks, replies, doing, shown, keyVars, address, front, slips, slipped>>

\* The results are sent back.  A Gemini turn ends with one observation of the
\* page, and so does a browser turn that asks for it and did not fail.
TurnEnds ==
  /\ loop = "running" /\ doing = "idle" /\ ~More
  /\ \/ vendor # "gemini" /\ loop' = "asking" /\ UNCHANGED <<doing, shown>>
     \/ /\ vendor = "gemini" \/ (vendor = "browser" /\ "error" \notin Range(replies))
        /\ doing' = "observing" /\ shown' = "nothing" /\ UNCHANGED loop
  /\ UNCHANGED <<vendor, turn, asks, replies, keyVars, address, front, slips, slipped>>

\* A failed observation is left out of a browser turn, and ends a Gemini run.
Observed ==
  /\ doing = "observing" /\ doing' = "idle"
  /\ \/ shown' = address[front] /\ loop' = "asking"
     \/ shown' = "nothing" /\ loop' = IF vendor = "gemini" THEN "threw" ELSE "asking"
  /\ UNCHANGED <<vendor, turn, asks, replies, keyVars, address, front, slips, slipped>>

\* No confirmation: nothing else of the turn is run, and what was is observed.
Declined ==
  /\ loop = "running" /\ doing = "idle" /\ More /\ Asked = "confirm"
  /\ \/ shown' = "nothing" /\ loop' = IF replies = <<>> THEN "declined" ELSE "threw"
     \/ replies # <<>> /\ shown' = address[front] /\ loop' = "declined"
  /\ UNCHANGED <<vendor, turn, asks, replies, doing, keyVars, address, front, slips, slipped>>

----------------------------------------------------------------------------
(* One call *)

MayBegin == loop = "running" /\ doing = "idle" /\ More /\ (Halting => "error" \notin Range(replies))

CallBegins ==
  /\ MayBegin
  /\ doing' = IF vendor = "computer" THEN "guard" ELSE "acting"
  /\ shown' = "nothing" /\ slipped' = FALSE
  /\ UNCHANGED <<loopVars, replies, keyVars, address, front, slips>>

\* After the first failure the rest is answered with the halt text.
Halted ==
  /\ loop = "running" /\ doing = "idle" /\ More /\ ~MayBegin
  /\ replies' = Append(replies, "halt")
  /\ UNCHANGED <<loopVars, doing, shown, keyVars, address, front, slips, slipped>>

Replies(how) == replies' = Append(replies, how) /\ doing' = "idle"

\* A command fails: the result is an error.  (Holding has failures of its own.)
CallFails ==
  /\ doing \in {"guard", "acting", "collapse", "check"} /\ Replies("error")
  /\ UNCHANGED <<loopVars, shown, keyVars, address, front, slips, slipped>>

Then(step) == doing' = step /\ UNCHANGED <<loopVars, replies>>
\* What follows the action itself.
AfterAct == IF vendor = "gemini" THEN "collapse" ELSE "check"

Offending == {t \in Owned : address[t] = "forbidden"}

\* enforceUrlPolicy: the first tab that offends is blanked, if the browser obeys,
\* and the call fails.
Enforces ==
  /\ doing \in {"guard", "check"}
  /\ IF Offending = {}
     THEN /\ IF doing = "guard" THEN Then("acting") ELSE Replies("ok") /\ UNCHANGED loopVars
          /\ UNCHANGED address
     ELSE /\ LET first == IF FirstTab \in Offending THEN FirstTab ELSE Popup IN
             address' \in {address, [address EXCEPT ![first] = "blank"]}
          /\ Replies("error") /\ UNCHANGED loopVars
  /\ UNCHANGED <<shown, keyVars, front, slips, slipped>>

\* A screenshot, a region, the elements, the text: of the tab that is named.
Looks ==
  /\ doing = "acting" /\ Asked = "look"
  /\ \E t \in IF vendor = "browser" THEN Owned ELSE {front} : shown' = address[t]
  /\ Then(AfterAct) /\ UNCHANGED <<keyVars, address, front, slips, slipped>>

\* session.navigate: an address the policy forbids is not opened; one that
\* redirects to such is left again.  History is not looked at here.
GoesTo ==
  /\ doing = "acting" /\ Asked = "go"
  /\ \/ address' \in {[address EXCEPT ![front] = a] : a \in {"fine", "forbidden"}} /\ Then(AfterAct)
     \/ address' \in {[address EXCEPT ![front] = a] : a \in {"blank", "forbidden"}}
        /\ Replies("error") /\ UNCHANGED loopVars
  /\ UNCHANGED <<shown, keyVars, front, slips, slipped>>

\* Input: the page may go anywhere, and may open another.
Pokes ==
  /\ doing = "acting" /\ Asked \in {"poke", "confirm"}
  /\ \E a \in {address[front], "fine", "forbidden"}, b \in {address[Popup], "fine", "forbidden"} :
       address' = [address EXCEPT ![front] = a, ![Popup] = IF front = Popup \/ Popup \in Owned THEN @ ELSE b]
  /\ Then(AfterAct) /\ UNCHANGED <<shown, keyVars, front, slips, slipped>>

\* new_tab, switch_tab and close_tab.
ChangesTabs ==
  /\ doing = "acting"
  /\ \/ Asked = "open" /\ Popup \notin Owned /\ address' = [address EXCEPT ![Popup] = "blank"] /\ front' = Popup
     \/ Asked = "switch" /\ front' \in Owned /\ UNCHANGED address
     \/ Asked = "shut" /\ Popup \in Owned /\ address' = [address EXCEPT ![Popup] = "none"] /\ front' = FirstTab
  /\ Then(AfterAct) /\ UNCHANGED <<shown, keyVars, slips, slipped>>

\* Gemini works in one tab: what a page opened is closed and opened in its place.
Collapses ==
  /\ doing = "collapse"
  /\ LET extra == Owned \ {front} IN
     IF extra = {} THEN Then("check") /\ UNCHANGED <<address, front>>
     ELSE \E shut \in {extra, {}} :
          LET closed == [t \in Tabs |-> IF t \in shut THEN "none" ELSE address[t]]
              target == address[CHOOSE t \in extra : TRUE] IN
          /\ CASE target = "forbidden" -> address' = closed /\ Replies("error") /\ UNCHANGED loopVars
               [] target = "blank"     -> address' = closed /\ Then("check")
               [] OTHER -> \/ address' = [closed EXCEPT ![front] = "fine"] /\ Then("check")
                           \/ /\ \E a \in {"blank", "forbidden"} : address' = [closed EXCEPT ![front] = a]
                              /\ Replies("error") /\ UNCHANGED loopVars
          /\ UNCHANGED front
  /\ UNCHANGED <<shown, keyVars, slips, slipped>>

----------------------------------------------------------------------------
(* hold_key, and a drag or a scroll with keys held: withHeld *)

Holds ==
  /\ doing = "acting" /\ Asked = "hold"
  /\ Then("pressing") /\ toHold' = Keys /\ toFree' = <<>>
  /\ UNCHANGED <<shown, keysDown, keyRefused, address, front, slips, slipped>>

\* A key that is refused ends the call, with those before it still down.
Presses ==
  /\ doing = "pressing" /\ toHold # <<>>
  /\ \/ /\ keysDown' = keysDown \cup {Head(toHold)} /\ toHold' = Tail(toHold)
        /\ toFree' = <<Head(toHold)>> \o toFree
        /\ UNCHANGED <<loopVars, replies, doing, keyRefused>>
     \/ keyRefused' = TRUE /\ Replies("error") /\ UNCHANGED <<loopVars, toHold, toFree, keysDown>>
  /\ UNCHANGED <<shown, address, front, slips, slipped>>

\* Mutant: without the finally block a failed drag leaves its keys down.
HeldEndsAlone == (doing' = "releasing" /\ UNCHANGED replies) \/ Replies("error")
\* The delay is over, or the drag is done or failed: the keys are released.
HeldEnds == doing' \in {"releasing", "failing"} /\ UNCHANGED replies

Waits ==
  /\ doing = "pressing" /\ toHold = <<>> /\ HeldEnds
  /\ UNCHANGED <<loopVars, shown, keyVars, address, front, slips, slipped>>

Releases ==
  /\ doing \in {"releasing", "failing"}
  /\ \/ /\ toFree # <<>> /\ keysDown' = keysDown \ {Head(toFree)} /\ toFree' = Tail(toFree)
        /\ UNCHANGED <<loopVars, replies, doing, keyRefused>>
     \/ toFree # <<>> /\ keyRefused' = TRUE /\ Replies("error") /\ UNCHANGED <<loopVars, toFree, keysDown>>
     \/ /\ toFree = <<>> /\ UNCHANGED <<toFree, keysDown, keyRefused>>
        /\ IF doing = "failing" THEN Replies("error") /\ UNCHANGED loopVars ELSE Then(AfterAct)
  /\ UNCHANGED <<toHold, shown, address, front, slips, slipped>>

----------------------------------------------------------------------------

\* A page goes elsewhere by itself, or opens another that is adopted.
PageSlips ==
  /\ loop = "running" /\ slips < MaxSlips /\ slips' = slips + 1 /\ slipped' = TRUE
  /\ \E t \in Tabs, a \in {"fine", "forbidden"} :
       /\ t = Popup \/ t \in Owned
       /\ address' = [address EXCEPT ![t] = a]
  /\ UNCHANGED <<loopVars, replies, doing, shown, keyVars, front>>

UseProgress ==
  \/ ModelAnswers \/ TurnsSpent \/ TurnEnds \/ Observed \/ Declined
  \/ CallBegins \/ Halted \/ CallFails \/ Enforces
  \/ Looks \/ GoesTo \/ Pokes \/ ChangesTabs \/ Collapses
  \/ Holds \/ Presses \/ Waits \/ Releases

UseNext == UseProgress \/ PageSlips

UseSpec == UseInit /\ [][UseNext]_useVars /\ WF_useVars(UseProgress)

----------------------------------------------------------------------------
(* Properties *)

\* The model gets one answer for each call of a turn, in order, and behind the
\* first failure of a Claude turn only answers of calls that were not run.
OneAnswerEach ==
  /\ loop = "asking" /\ turn > 0 => Len(replies) = Len(asks)
  /\ Len(replies) <= Len(asks)
  /\ Halting => \A i, j \in DOMAIN replies : (i < j /\ replies[i] # "ok") => replies[j] = "halt"

\* No answer of a Claude tool that counts as good carries what was read on an
\* address the policy forbids, unless the page went there or away meanwhile.
ShownIsAllowed ==
  (Halting /\ doing = "idle" /\ shown = "forbidden" /\ ~slipped) => replies = <<>> \/ Last(replies) # "ok"

\* A call that holds keys down releases them however the action between ends;
\* only a refused key command leaves one behind.
HeldKeysReleased == doing = "idle" /\ ~keyRefused => keysDown = {}

\* The loop comes to an end.
LoopEnds == <>(loop \in Ended)

\* A turn of the model is answered call by call, shows nothing it may not show, and
\* leaves no key down: OneAnswerEach, ShownIsAllowed and HeldKeysReleased.
TurnsAreSound == OneAnswerEach /\ ShownIsAllowed /\ HeldKeysReleased
=============================================================================
