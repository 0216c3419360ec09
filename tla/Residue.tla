------------------------------ MODULE Residue ------------------------------
(***************************************************************************)
(* What a profile leaves in a browser that outlives its session, and the   *)
(* marks by which the next session is to notice it (pipeline/plugins/      *)
(* profile, core/profile/marker): a cookie and an entry of localStorage,   *)
(* both naming the profile that was put into the browser.  A session looks *)
(* for them, puts its profile in, plants its own, and saves what it finds  *)
(* when it ends.  One provider, whose browser keeps its cookies ("reused") *)
(* or gives every session a new context of which only the localStorage     *)
(* survives ("contexts").                                                  *)
(***************************************************************************)
EXTENDS Integers, FiniteSets

CONSTANTS
  Owners,         \* profiles
  Users,         \* sessions, each begun once
  Unmarked,       \* model value: no mark
  Mark,           \* model value: a mark, as an item among the data
  MaxFlaws        \* bound: commands that fail, sessions that break off

ASSUME ResidueAssumption ==
  /\ IsFiniteSet(Owners) /\ IsFiniteSet(Users) /\ MaxFlaws \in Nat
  /\ Unmarked \notin Owners /\ Mark \notin Owners

VARIABLES
  keeps,          \* "reused" or "contexts"
  stage,          \* of each session
  owner,          \* its profile
  surface,        \* of each session: the surfaces it has still to look at, or to mark
  found,          \* the marks it found
  jars,           \* cookies: the profiles they came from, Mark, and whose mark
  local,          \* localStorage likewise
  keptAs,         \* the profiles of which data is stored under each
  crossed,        \* a session started while another was between its look and its marks
  flaws, cut      \* history: commands that failed, starts that broke off

residueVars == <<keeps, stage, owner, surface, found, jars, local, keptAs, crossed, flaws, cut>>

Surfaces == {"cookie", "storage"}
Untouched == [data |-> {}, mark |-> Unmarked]
Shared == "shared"
Jar(s) == IF keeps = "reused" THEN Shared ELSE s
Starting == {s \in Users : stage[s] \in {"look", "found", "cookies", "entries", "plant"}}

ResidueInit ==
  /\ keeps \in {"reused", "contexts"}
  /\ stage = [s \in Users |-> "new"] /\ owner = [s \in Users |-> Unmarked]
  /\ surface = [s \in Users |-> {}]
  /\ found = [s \in Users |-> [k \in Surfaces |-> Unmarked]]
  /\ jars = [j \in Users \cup {Shared} |-> Untouched] /\ local = Untouched
  /\ keptAs = [p \in Owners |-> {p}]
  /\ crossed = FALSE /\ flaws = 0 /\ cut = FALSE

MarkOn(s, k) == IF k = "cookie" THEN jars[Jar(s)].mark ELSE local.mark
Flaw == flaws < MaxFlaws /\ flaws' = flaws + 1
MovesOn(s, to) == stage' = [stage EXCEPT ![s] = to]
browserKept == UNCHANGED <<keeps, jars, local, keptAs>>

\* The profile is locked, so no two sessions have it.
Start(s, p) ==
  /\ stage[s] = "new" /\ \A t \in Users : owner[t] = p => stage[t] = "over"
  /\ crossed' = (crossed \/ Starting # {})
  /\ owner' = [owner EXCEPT ![s] = p] /\ surface' = [surface EXCEPT ![s] = Surfaces]
  /\ MovesOn(s, "look")
  /\ browserKept /\ UNCHANGED <<found, flaws, cut>>

\* probeCookieMarker, probeStorageMarker
Found(s, k) == MarkOn(s, k)

\* Both surfaces are looked at, in either order; a look that fails finds nothing.
Look(s, k) ==
  /\ stage[s] = "look" /\ k \in surface[s]
  /\ surface' = [surface EXCEPT ![s] = @ \ {k}]
  /\ \/ found' = [found EXCEPT ![s][k] = Found(s, k)] /\ UNCHANGED flaws
     \/ Flaw /\ UNCHANGED found
  /\ IF surface'[s] = {} THEN MovesOn(s, "found") ELSE UNCHANGED stage
  /\ browserKept /\ UNCHANGED <<owner, crossed, cut>>

\* probeExistingMarker: the storage counts when the cookie is missing.
Existing(s) == IF found[s]["cookie"] # Unmarked THEN found[s]["cookie"] ELSE found[s]["storage"]

\* A browser that holds another profile is refused, another provider is tried.
Decide(s) ==
  /\ stage[s] = "found"
  /\ MovesOn(s, IF Existing(s) \in {Unmarked, owner[s]} THEN "cookies" ELSE "over")
  /\ browserKept /\ UNCHANGED <<owner, surface, found, crossed, flaws, cut>>

\* injectCookies: the old cookies go first, if that can be done.
InjectCookies(s) ==
  /\ stage[s] = "cookies"
  /\ LET p == owner[s] j == Jar(s) IN
       \/ jars' = [jars EXCEPT ![j] = [data |-> keptAs[p], mark |-> Unmarked]] /\ UNCHANGED flaws
       \/ Flaw /\ jars' = [jars EXCEPT ![j].data = @ \cup keptAs[p]]
  /\ MovesOn(s, "entries")
  /\ UNCHANGED <<keeps, owner, surface, found, local, keptAs, crossed, cut>>

\* The storage of the profile's origins is replaced, that of others stays; a write
\* that fails is skipped.
InjectEntries(s) ==
  /\ stage[s] = "entries"
  /\ \E left \in SUBSET local.data : local' = [local EXCEPT !.data = left \cup keptAs[owner[s]]]
  /\ MovesOn(s, "plant") /\ surface' = [surface EXCEPT ![s] = Surfaces]
  /\ UNCHANGED <<keeps, owner, found, jars, keptAs, crossed, flaws, cut>>

\* plantResidueMarker: both at once, each fails alone and in silence.
Plant(s, k) ==
  /\ stage[s] = "plant" /\ k \in surface[s]
  /\ surface' = [surface EXCEPT ![s] = @ \ {k}]
  /\ LET marked(x) == [data |-> x.data \cup {Mark}, mark |-> owner[s]] IN
       \/ k = "cookie" /\ jars' = [jars EXCEPT ![Jar(s)] = marked(@)] /\ UNCHANGED <<local, flaws>>
       \/ k = "storage" /\ local' = marked(local) /\ UNCHANGED <<jars, flaws>>
       \/ Flaw /\ UNCHANGED <<jars, local>>
  /\ IF surface'[s] = {} THEN MovesOn(s, "live") ELSE UNCHANGED stage
  /\ UNCHANGED <<keeps, owner, found, keptAs, crossed, cut>>

\* A start that fails or whose client leaves: nothing more is done, nothing saved.
\* The old cookies, and their mark, may have gone before the new ones were refused.
BreaksOff(s) ==
  /\ s \in Starting /\ Flaw
  /\ MovesOn(s, "over") /\ cut' = (cut \/ stage[s] \in {"entries", "plant"})
  /\ \/ UNCHANGED jars
     \/ stage[s] = "cookies" /\ jars' = [jars EXCEPT ![Jar(s)] = Untouched]
  /\ UNCHANGED <<keeps, local, keptAs, owner, surface, found, crossed>>

\* filterMarkerCookies, stripMarkerOrigin
Unmark(items) == items \ {Mark}

\* The session ends: its cookies are stored, and what it visited.  A context goes.
Saves(s) ==
  /\ stage[s] = "live" /\ MovesOn(s, "over")
  /\ \E visited \in SUBSET local.data :
       keptAs' = [keptAs EXCEPT ![owner[s]] = Unmark(jars[Jar(s)].data \cup visited)]
  /\ jars' = IF keeps = "contexts" THEN [jars EXCEPT ![s] = Untouched] ELSE jars
  /\ UNCHANGED <<keeps, owner, surface, found, local, crossed, flaws, cut>>

\* The browser itself is replaced while nobody uses it.
Replaced ==
  /\ \A s \in Users : stage[s] \in {"new", "over"}
  /\ jars' = [j \in Users \cup {Shared} |-> Untouched] /\ local' = Untouched
  /\ UNCHANGED <<keeps, stage, owner, surface, found, keptAs, crossed, flaws, cut>>

ResidueNext ==
  \/ \E s \in Users :
       \/ \E p \in Owners : Start(s, p)
       \/ \E k \in Surfaces : Look(s, k) \/ Plant(s, k)
       \/ Decide(s) \/ InjectCookies(s) \/ InjectEntries(s) \/ BreaksOff(s) \/ Saves(s)
  \/ Replaced

ResidueSpec == ResidueInit /\ [][ResidueNext]_residueVars

-----------------------------------------------------------------------------
\* How many failed commands the two marks make up for: where only the storage
\* survives there is one mark to rely on.
Tolerated == IF keeps = "reused" THEN 1 ELSE 0

\* Nothing of one profile is stored under another, as long as sessions start one
\* after the other and no start breaks off with its profile half put in.
KeptApart ==
  ~crossed /\ ~cut /\ flaws =< Tolerated => \A p \in Owners : keptAs[p] \subseteq {p}

\* The marks themselves are never stored, to be put into another browser.
MarksStay == \A p \in Owners : Mark \notin keptAs[p]

\* What the residue check promises.
ResidueSound == KeptApart /\ MarksStay
=============================================================================
