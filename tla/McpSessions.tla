----------------------------- MODULE McpSessions -----------------------------
(***************************************************************************)
(* The browser sessions of the MCP server (server/mcp): tool calls under   *)
(* way together reap what expired, create sessions over the providers in   *)
(* order or wait once for a slot, release them again, and shut down.  A    *)
(* session is named by the call that created it.                           *)
(***************************************************************************)
EXTENDS Naturals, Sequences, FiniteSets, SequencesExt

CONSTANTS McpCalls,   \* tool calls; each makes at most one session
          Route,      \* the providers in the order the selector offers them
          SlotLimit,  \* maxConcurrent of each
          NoRoute

ASSUME McpAssumption ==
  Route \in Seq(Range(Route)) /\ NoRoute \notin McpCalls \cup Range(Route) /\ SlotLimit \in Nat

VARIABLES
  tool,      \* what each call does: a session to keep, a one-shot, or a close
  call,      \* how far it is
  routes,    \* the providers its attempt has left
  waited,    \* whether it has waited for a slot
  visited,   \* the entries its walk over the sessions has passed
  awaited,   \* the session whose release it awaits
  sessions,  \* McpSessionManager.sessions, in order of insertion
  onRoute,   \* the provider of each session
  worn,      \* agent.expired # null
  giving,    \* releases in progress
  seats,     \* the slots MCP sessions hold
  foreign,   \* slots held by other traffic
  ready,     \* the lazy provider set-up
  halting    \* the shutdown: not begun, walking, or through

mcpVars == <<tool, call, routes, waited, visited, awaited, sessions, onRoute, worn, giving,
             seats, foreign, ready, halting>>

Providers == Range(Route)
Shutdown == NoRoute          \* the walk of releaseAll is keyed by no call
Walkers == McpCalls \cup {Shutdown}
Kept == Range(sessions)

McpInit ==
  /\ tool \in [McpCalls -> {"open", "shot", "close"}]
  /\ call = [c \in McpCalls |-> "new"]
  /\ routes = [c \in McpCalls |-> <<>>]
  /\ waited = [c \in McpCalls |-> FALSE]
  /\ visited = [w \in Walkers |-> {}]
  /\ awaited = [w \in Walkers |-> NoRoute]
  /\ sessions = <<>>
  /\ onRoute = [c \in McpCalls |-> NoRoute]
  /\ worn = [c \in McpCalls |-> FALSE]
  /\ giving = {}
  /\ seats = [p \in Providers |-> {}]
  /\ foreign = [p \in Providers |-> 0]
  /\ ready = "no" /\ halting = "no"

Moves(c, step) == call' = [call EXCEPT ![c] = step]

----------------------------------------------------------------------------
(* Slots *)

Taken(p) == Cardinality(seats[p]) + foreign[p]
Acquirable(p) == Taken(p) < SlotLimit

\* releaseSlot wakes the head of the queue; which of the waiting calls that is,
\* and whether other traffic stands before it, is left open.
Wakes ==
  \/ UNCHANGED call
  \/ \E c \in McpCalls : call[c] = "waiting" /\ Moves(c, "woken")

OthersTake(p) ==
  /\ Acquirable(p) /\ foreign' = [foreign EXCEPT ![p] = @ + 1]
  /\ UNCHANGED <<tool, call, routes, waited, visited, awaited, sessions, onRoute, worn,
                 giving, seats, ready, halting>>

OthersLeave(p) ==
  /\ foreign[p] > 0 /\ foreign' = [foreign EXCEPT ![p] = @ - 1]
  /\ Wakes
  /\ UNCHANGED <<tool, routes, waited, visited, awaited, sessions, onRoute, worn, giving,
                 seats, ready, halting>>

SeatLeft(c) ==
  /\ seats' = [seats EXCEPT ![onRoute[c]] = @ \ {c}]
  /\ onRoute' = [onRoute EXCEPT ![c] = NoRoute]

----------------------------------------------------------------------------
(* Releasing *)

\* releaseSession up to its first await: the entry goes first, so nobody
\* releases it twice.
ReleaseBegins(s) ==
  /\ giving' = giving \cup {s}
  /\ \E i \in DOMAIN sessions : sessions[i] = s /\ sessions' = RemoveAt(sessions, i)

\* agent.close() and cdp.close() are through, or failed: the slot is given back.
Released(s) ==
  /\ s \in giving
  /\ giving' = giving \ {s}
  /\ SeatLeft(s)
  /\ worn' = [worn EXCEPT ![s] = FALSE]
  /\ Wakes
  /\ UNCHANGED <<tool, routes, waited, visited, awaited, sessions, foreign, ready, halting>>

Unvisited(w, wanted) == \E i \in DOMAIN sessions : sessions[i] \in wanted \ visited[w]

\* The next entry of a walk over the live map, entries added meanwhile included.
WalkOn(w, wanted) ==
  \E at \in DOMAIN sessions :
    /\ sessions[at] \in wanted \ visited[w]
    /\ \A j \in 1 .. at - 1 : sessions[j] \notin wanted \ visited[w]
    /\ awaited' = [awaited EXCEPT ![w] = sessions[at]]
    /\ visited' = [visited EXCEPT ![w] = @ \cup {sessions[j] : j \in 1 .. at}]
    /\ ReleaseBegins(sessions[at])

\* The release it awaited is through.
Resumes(w) ==
  /\ awaited[w] # NoRoute /\ awaited[w] \notin giving
  /\ awaited' = [awaited EXCEPT ![w] = NoRoute]
  /\ IF w \in McpCalls /\ call[w] = "releasing" THEN Moves(w, "answered") ELSE UNCHANGED call
  /\ UNCHANGED <<tool, routes, waited, visited, sessions, onRoute, worn, giving, seats,
                 foreign, ready, halting>>

Worn == {s \in Kept : worn[s]}

----------------------------------------------------------------------------
(* A tool call *)

Begins(c) ==
  /\ call[c] = "new" /\ Moves(c, "reaping")
  /\ UNCHANGED <<tool, routes, waited, visited, awaited, sessions, onRoute, worn, giving, seats,
                 foreign, ready, halting>>

Reaps(c) ==
  /\ call[c] = "reaping" /\ awaited[c] = NoRoute
  /\ Unvisited(c, Worn) /\ WalkOn(c, Worn)
  /\ UNCHANGED <<tool, call, routes, waited, onRoute, worn, seats, foreign, ready, halting>>

\* The walk is over: create a session, or resolve the one to close.
Reaped(c) ==
  /\ call[c] = "reaping" /\ awaited[c] = NoRoute /\ ~Unvisited(c, Worn)
  /\ IF tool[c] # "close"
     THEN Moves(c, IF ready = "yes" THEN "choosing" ELSE "preparing") /\ UNCHANGED <<sessions, giving, awaited>>
     ELSE \/ \E s \in Kept : /\ ReleaseBegins(s) /\ awaited' = [awaited EXCEPT ![c] = s]
                             /\ Moves(c, "releasing")
          \/ /\ \/ Cardinality(Kept \ Worn) # 1 \/ Kept = {}
             /\ Moves(c, "answered") /\ UNCHANGED <<sessions, giving, awaited>>
  /\ visited' = [visited EXCEPT ![c] = {}]
  /\ UNCHANGED <<tool, routes, waited, onRoute, worn, seats, foreign, ready, halting>>

\* ensureProviders: one set-up for all who need it, begun again after it failed.
Prepares(c) ==
  /\ call[c] = "preparing"
  /\ CASE ready = "no" -> ready' = "starting" /\ UNCHANGED call
       [] ready = "yes" -> Moves(c, "choosing") /\ UNCHANGED ready
       [] OTHER -> FALSE
  /\ UNCHANGED <<tool, routes, waited, visited, awaited, sessions, onRoute, worn, giving,
                 seats, foreign, halting>>

SetupEnds ==
  /\ ready = "starting"
  /\ \/ ready' = "yes" /\ UNCHANGED call
     \/ /\ ready' = "no"
        /\ call' = [c \in McpCalls |-> IF call[c] = "preparing" THEN "answered" ELSE call[c]]
  /\ UNCHANGED <<tool, routes, waited, visited, awaited, sessions, onRoute, worn, giving,
                 seats, foreign, halting>>

\* selectProviderWithFallbacks, when the first attempt or the second begins.
Chooses(c) ==
  /\ call[c] \in {"choosing", "woken"}
  /\ routes' = [routes EXCEPT ![c] = Route]
  /\ Moves(c, "trying")
  /\ UNCHANGED <<tool, waited, visited, awaited, sessions, onRoute, worn, giving, seats,
                 foreign, ready, halting>>

Attempting(c) ==
  /\ call[c] = "trying" /\ routes[c] # <<>>
  /\ LET p == Head(routes[c]) IN
       /\ routes' = [routes EXCEPT ![c] = Tail(@)]
       /\ IF Acquirable(p)
          THEN /\ seats' = [seats EXCEPT ![p] = @ \cup {c}]
               /\ onRoute' = [onRoute EXCEPT ![c] = p]
               /\ Moves(c, "dialing")
          ELSE UNCHANGED <<seats, onRoute, call>>
  /\ UNCHANGED <<tool, waited, visited, awaited, sessions, worn, giving, foreign, ready, halting>>

Connects(c) ==
  /\ call[c] = "dialing"
  /\ sessions' = Append(sessions, c)
  /\ routes' = [routes EXCEPT ![c] = <<>>] /\ waited' = [waited EXCEPT ![c] = FALSE]
  /\ Moves(c, IF tool[c] = "shot" THEN "running" ELSE "answered")
  /\ UNCHANGED <<tool, visited, awaited, onRoute, worn, giving, seats,
                 foreign, ready, halting>>

\* The connection fails or its timeout passes: the slot goes back, the next one
\* is tried.  (The waiter woken here may be another call, not this one.)
DialRefused(c) ==
  /\ call[c] = "dialing"
  /\ SeatLeft(c)
  /\ \/ Moves(c, "trying")
     \/ \E w \in McpCalls : call[w] = "waiting" /\ call' = [call EXCEPT ![c] = "trying", ![w] = "woken"]
  /\ UNCHANGED <<tool, routes, waited, visited, awaited, sessions, worn, giving, foreign,
                 ready, halting>>

\* Nobody is left to try: wait once for a slot, then give up.
Exhausted(c) ==
  /\ call[c] = "trying" /\ routes[c] = <<>>
  /\ waited' = [waited EXCEPT ![c] = TRUE]
  /\ Moves(c, IF waited[c] THEN "answered" ELSE "waiting")
  /\ UNCHANGED <<tool, routes, visited, awaited, sessions, onRoute, worn, giving, seats,
                 foreign, ready, halting>>

\* Mutant: only a freed slot ends the wait.
WaitsOn(c) == FALSE
TimeoutDue(c) == call[c] = "waiting"
\* waitForSlot's timeout, or a queue that is full.
WaitEnds(c) ==
  /\ TimeoutDue(c) /\ Moves(c, "answered")
  /\ UNCHANGED <<tool, routes, waited, visited, awaited, sessions, onRoute, worn, giving,
                 seats, foreign, ready, halting>>

\* Mutant: a one-shot is released when its page was read.
ShotForgets(c) == FALSE
ShotReleases(c) == c \in Kept
\* oneShot's finally, whatever the page did; the session may have been reaped
\* or closed by another call already.
ShotEnds(c) ==
  /\ call[c] = "running"
  /\ IF ShotReleases(c)
     THEN ReleaseBegins(c) /\ awaited' = [awaited EXCEPT ![c] = c] /\ Moves(c, "releasing")
     ELSE Moves(c, "answered") /\ UNCHANGED <<sessions, giving, awaited>>
  /\ UNCHANGED <<tool, routes, waited, visited, onRoute, worn, seats, foreign, ready, halting>>

\* The policy's clock, in the middle of a long call as well.
WearsOut(s) ==
  /\ s \in Kept /\ ~worn[s]
  /\ worn' = [worn EXCEPT ![s] = TRUE]
  /\ UNCHANGED <<tool, call, routes, waited, visited, awaited, sessions, onRoute, giving,
                 seats, foreign, ready, halting>>

----------------------------------------------------------------------------
(* Shutdown *)

Halts ==
  /\ halting = "no" /\ halting' = "walking"
  /\ UNCHANGED <<tool, call, routes, waited, visited, awaited, sessions, onRoute, worn,
                 giving, seats, foreign, ready>>

\* releaseAll
ReleasesAll ==
  /\ halting = "walking" /\ awaited[Shutdown] = NoRoute
  /\ IF Unvisited(Shutdown, Kept)
     THEN WalkOn(Shutdown, Kept) /\ UNCHANGED halting
     ELSE halting' = "through" /\ UNCHANGED <<awaited, visited, sessions, giving>>
  /\ UNCHANGED <<tool, call, routes, waited, onRoute, worn, seats, foreign, ready>>

CallStep(c) ==
  \/ Begins(c) \/ Reaps(c) \/ Reaped(c) \/ Prepares(c) \/ Chooses(c) \/ Attempting(c) \/ Connects(c)
  \/ DialRefused(c) \/ Exhausted(c) \/ WaitEnds(c) \/ ShotEnds(c) \/ Resumes(c) \/ Released(c)

McpNext ==
  \/ \E c \in McpCalls : CallStep(c) \/ WearsOut(c)
  \/ SetupEnds \/ Halts \/ ReleasesAll \/ Resumes(Shutdown)
  \/ \E p \in Providers : OthersTake(p) \/ OthersLeave(p)

\* Dials, closes and waits have deadlines; the set-up ends.
McpProgress == \/ \E c \in McpCalls : CallStep(c)
               \/ SetupEnds \/ ReleasesAll \/ Resumes(Shutdown)

McpSpec == McpInit /\ [][McpNext]_mcpVars /\ WF_mcpVars(McpProgress)

----------------------------------------------------------------------------
(* Properties *)

McpTypeOK ==
  /\ tool \in [McpCalls -> {"open", "shot", "close"}]
  /\ call \in [McpCalls -> {"new", "reaping", "preparing", "choosing", "trying", "dialing", "waiting",
                            "woken", "running", "releasing", "answered"}]
  /\ routes \in [McpCalls -> Seq(Providers)] /\ waited \in [McpCalls -> BOOLEAN]
  /\ visited \in [Walkers -> SUBSET McpCalls] /\ awaited \in [Walkers -> McpCalls \cup {NoRoute}]
  /\ sessions \in Seq(McpCalls) /\ worn \in [McpCalls -> BOOLEAN] /\ giving \subseteq McpCalls
  /\ onRoute \in [McpCalls -> Providers \cup {NoRoute}]
  /\ seats \in [Providers -> SUBSET McpCalls] /\ foreign \in [Providers -> Nat]
  /\ ready \in {"no", "starting", "yes"} /\ halting \in {"no", "walking", "through"}

\* A slot is held exactly by the calls that dial with it, the sessions that are
\* listed and those being released: no path loses one, however calls, reaping,
\* closing and shutdown cross, and no session of the gateway holds two.
SeatsAccounted ==
  \A c \in McpCalls : \A p \in Providers :
    c \in seats[p] <=> /\ onRoute[c] = p
                       /\ call[c] = "dialing" \/ c \in Kept \cup giving

\* Every call is answered: dials, closes and waits all have an end.
CallsOver == \A c \in McpCalls : call[c] \in {"new", "answered"}
CallsAnswered == []<>CallsOver

\* What a one-shot opened does not outlive its answer.
ShotsLeaveNothing ==
  \A c \in McpCalls : (tool[c] = "shot" /\ call[c] = "answered") => \A p \in Providers : c \notin seats[p] \/ c \in giving

\* A slot is held by a session that is there, and by nothing else.
SeatsFollowSessions == SeatsAccounted /\ ShotsLeaveNothing
=============================================================================
