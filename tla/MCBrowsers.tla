----------------------------- MODULE MCBrowsers -----------------------------
(***************************************************************************)
(* Browsers that are kept and watched, for TLC: the pool of sessions that  *)
(* serves the REST requests, the recording of a session, and a live view:  *)
(* its tab, its picture, and the page of the dashboard that shows it.      *)
(* They share no state, so one run takes them side by side: `kept` says    *)
(* which is explored.                                                      *)
(***************************************************************************)
EXTENDS SessionPool, Recording, LiveTab, LiveScreen, Playground

\* Each request is tried twice.
TwiceEach == [r \in Requests |-> 2]

\* Nothing tells the sessions of the pool, or the recorded tabs, apart; the configuration
\* gives both sets the same members.
Alike == Permutations(Sessions \cup Tabs)

\* The user types another address than the first, as the server will report it or
\* something shorter.
First == CHOOSE u \in Urls : TRUE
AsTyped == [u \in Urls |-> IF u = First THEN {} ELSE {u, NoUrl}]

VARIABLE kept

keptVars == <<kept, vars, recordingVars, tabVars, screenVars, playgroundVars>>

Only(what) ==
  /\ kept = what /\ UNCHANGED kept
  /\ what # "pool" => UNCHANGED vars
  /\ what # "recording" => UNCHANGED recordingVars
  /\ what # "tab" => UNCHANGED tabVars
  /\ what # "screen" => UNCHANGED screenVars
  /\ what # "page" => UNCHANGED playgroundVars

\* One initial state of each part that is not explored.
KeptInit ==
  /\ kept \in {"pool", "recording", "tab", "screen", "page"}
  /\ Init /\ RecordingInit /\ LiveTabInit /\ LiveScreenInit /\ PlaygroundInit
  /\ kept # "screen" => ~stubborn
  /\ urlInput = First

KeptNext ==
  \/ Only("pool") /\ Next
  \/ Only("recording") /\ RecordingNext
  \/ Only("tab") /\ LiveTabNext
  \/ Only("screen") /\ LiveScreenNext
  \/ Only("page") /\ PlaygroundNext

KeptSpec == KeptInit /\ [][KeptNext]_keptVars

\* What somebody watches is what there is: the tab and its address, its picture, and
\* the page of the dashboard.
WatchedIsTrue == TabSound /\ ScreenIsTrue /\ PageIsCurrent
=============================================================================
