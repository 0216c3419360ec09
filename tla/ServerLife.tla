------------------------------- MODULE ServerLife -------------------------------
(***************************************************************************)
(* The life of the process (server/index.ts): `serve` with its shutdown in *)
(* stages, which every signal begins anew, and `mcp` over stdio, whose     *)
(* shutdown runs once, under a timer, and which may have launched a Chrome *)
(* of its own (mcp/local-chrome.ts).  Of the connections it knows only     *)
(* whether the tracker has them and whether their profile is being saved.  *)
(***************************************************************************)
EXTENDS Naturals, FiniteSets

CONSTANTS Conns,       \* connections to /v1/connect, or to a provider over stdio
          AgentConns,  \* those of MCP sessions: the session manager lists them
          PoolConns,   \* those of the session pool
          HttpClients, \* clients of /mcp
          MaxLaunches

ASSUME OwnConns == AgentConns \cap PoolConns = {} /\ AgentConns \cup PoolConns \subseteq Conns

Signals == 1..2

VARIABLES
  program,      \* "serve", or "stdio" in zero-config mode
  stage,        \* how far the shutdown of each signal is
  process,      \* "runs", or how it ended
  accepting,    \* the server accepts connections
  draining,     \* gateway.shuttingDown
  conn,         \* each connection
  managed,      \* sessionManager.sessions
  transport,    \* the /mcp transport of each client
  awaited,      \* the commits that the lifecycle.drain of each signal awaits
  cutShort,       \* a drain ran into its timeout
  chrome,       \* the Chrome of zero-config mode
  orphans,      \* Chromes that nobody knows any more
  ownAtSignal, trackedAtDrain    \* history: the first signal, the drain

serverVars == <<program, stage, process, accepting, draining, conn, managed, transport,
                awaited, cutShort, chrome, orphans, ownAtSignal, trackedAtDrain>>

ServerInit ==
  /\ program \in {"serve", "stdio"}
  /\ stage = [i \in Signals |-> "none"] /\ process = "runs"
  /\ accepting = (program = "serve") /\ draining = FALSE
  /\ conn = [c \in Conns |-> "none"] /\ managed = {}
  /\ transport = [h \in HttpClients |-> "none"]
  /\ awaited = [i \in Signals |-> {}] /\ cutShort = FALSE
  /\ chrome = "none" /\ orphans = 0
  /\ ownAtSignal = {} /\ trackedAtDrain = {}

Serves == process = "runs" /\ program = "serve"
Talks == process = "runs" /\ program = "stdio"
Tracked == {c \in Conns : conn[c] = "tracked"}
Signalled == {i \in Signals : stage[i] # "none"}
Stages(i, from, to) == stage[i] = from /\ stage' = [stage EXCEPT ![i] = to]

history == <<ownAtSignal, trackedAtDrain>>
gatewayState == <<program, accepting, draining, cutShort, awaited>>

----------------------------------------------------------------------------
(* Connections.  A session over stdio dials its provider: no tracker has it. *)

\* The upgrade is admitted, and the session enters the tracker some awaits later.
Admit(c) ==
  /\ Serves /\ accepting /\ ~draining /\ conn[c] = "none"
  /\ c \in PoolConns => \A i \in Signals : stage[i] \in {"none", "release", "transports", "pool"}
  /\ conn' = [conn EXCEPT ![c] = "admitted"]
  /\ UNCHANGED <<gatewayState, stage, process, managed, transport, chrome, orphans, history>>

Track(c) ==
  /\ Serves /\ conn[c] = "admitted" /\ conn' = [conn EXCEPT ![c] = "tracked"]
  /\ UNCHANGED <<gatewayState, stage, process, managed, transport, chrome, orphans, history>>

\* createSession has its connection.
Manage(c) ==
  /\ process = "runs" /\ c \in AgentConns \ managed
  /\ IF program = "serve" THEN conn[c] = "tracked" /\ UNCHANGED conn
     ELSE chrome \in {"known", "killed"} /\ conn[c] = "none" /\ conn' = [conn EXCEPT ![c] = "dialled"]
  /\ managed' = managed \cup {c}
  /\ UNCHANGED <<gatewayState, stage, process, transport, chrome, orphans, history>>

\* A connection of a profile leaves the tracker, and then begins its commit.  (An MCP
\* session that loses its connection stays in the map.)
Closed(c) == CASE conn[c] = "tracked" -> "closing" [] conn[c] = "dialled" -> "gone" [] OTHER -> conn[c]

ConnEnds(c) ==
  /\ Serves /\ conn[c] = "tracked" /\ conn' = [conn EXCEPT ![c] = Closed(c)]
  /\ UNCHANGED <<gatewayState, stage, process, managed, transport, chrome, orphans, history>>

SaveBegins(c) ==
  /\ Serves /\ conn[c] = "closing" /\ conn' = [conn EXCEPT ![c] = "saving"]
  /\ UNCHANGED <<gatewayState, stage, process, managed, transport, chrome, orphans, history>>

SaveEnds(c) ==
  /\ Serves /\ conn[c] = "saving" /\ conn' = [conn EXCEPT ![c] = "gone"]
  /\ UNCHANGED <<gatewayState, stage, process, managed, transport, chrome, orphans, history>>

\* POST /mcp without a known session id: a transport of its own, which enters the map
\* once it has handled the request; onclose and DELETE take it out again.
PostBegins(h) ==
  /\ Serves /\ accepting /\ transport[h] = "none"
  /\ transport' = [transport EXCEPT ![h] = "posted"]
  /\ UNCHANGED <<gatewayState, stage, process, conn, managed, chrome, orphans, history>>

PostEnds(h) ==
  /\ Serves /\ transport[h] = "posted" /\ transport' = [transport EXCEPT ![h] = "open"]
  /\ UNCHANGED <<gatewayState, stage, process, conn, managed, chrome, orphans, history>>

CloseOf(h) == transport[h] = "open" /\ transport' = [transport EXCEPT ![h] = "closed"]

Delete(h) ==
  /\ Serves /\ CloseOf(h)
  /\ UNCHANGED <<gatewayState, stage, process, conn, managed, chrome, orphans, history>>

----------------------------------------------------------------------------
(* The Chrome of zero-config mode, which the first tool call sets up *)

LaunchChrome ==
  /\ Talks /\ chrome = "none" /\ orphans < MaxLaunches /\ chrome' = "launching"
  /\ UNCHANGED <<gatewayState, stage, process, conn, managed, transport, orphans, history>>

\* No Chrome: process.exit(1).
LaunchFails ==
  /\ Talks /\ chrome = "launching" /\ chrome' = "none" /\ process' = "failed"
  /\ UNCHANGED <<gatewayState, stage, conn, managed, transport, orphans, history>>

ChromeLaunched ==
  /\ Talks /\ chrome = "launching" /\ chrome' = "fetching"
  /\ UNCHANGED <<gatewayState, stage, process, conn, managed, transport, orphans, history>>

\* instance and the "exit" handler; then the provider.
ChromeKnown ==
  /\ Talks /\ chrome = "fetching" /\ chrome' = "known"
  /\ UNCHANGED <<gatewayState, stage, process, conn, managed, transport, orphans, history>>

\* /json/version fails: the next call may launch another one.
FetchFails ==
  /\ Talks /\ chrome = "fetching" /\ chrome' = "none" /\ orphans' = orphans + 1
  /\ UNCHANGED <<gatewayState, stage, process, conn, managed, transport, history>>

----------------------------------------------------------------------------
(* Shutdown *)

\* Each signal to `serve` runs the whole of it; over stdio only the first one (or the
\* end of stdin) does.
Signal(i) ==
  /\ process = "runs" /\ stage[i] = "none" /\ \A j \in Signals : j < i => stage[j] # "none"
  /\ program = "stdio" => Signalled = {}
  /\ stage' = [stage EXCEPT ![i] = "release"]
  /\ ownAtSignal' = IF Signalled = {} THEN managed \cup (Tracked \cap PoolConns) ELSE ownAtSignal
  /\ UNCHANGED <<gatewayState, process, conn, managed, transport, chrome, orphans, trackedAtDrain>>

\* releaseAll walks the map, which also shows it what is added during the walk.
ReleaseManaged(i, c) ==
  /\ process = "runs" /\ stage[i] = "release" /\ c \in managed
  /\ managed' = managed \ {c} /\ conn' = [conn EXCEPT ![c] = Closed(c)]
  /\ UNCHANGED <<gatewayState, stage, process, transport, chrome, orphans, history>>

AllReleased(i) ==
  /\ process = "runs" /\ managed = {}
  /\ Stages(i, "release", IF program = "serve" THEN "transports" ELSE "chrome")
  /\ UNCHANGED <<gatewayState, process, conn, managed, transport, chrome, orphans, history>>

CloseTransport(i, h) ==
  /\ Serves /\ stage[i] = "transports" /\ CloseOf(h)
  /\ UNCHANGED <<gatewayState, stage, process, conn, managed, chrome, orphans, history>>

TransportsClosed(i) ==
  /\ Serves /\ Stages(i, "transports", "pool") /\ \A h \in HttpClients : transport[h] # "open"
  /\ UNCHANGED <<gatewayState, process, conn, managed, transport, chrome, orphans, history>>

\* pool.shutdown, and server.close in the same turn.
PoolStops(i) ==
  /\ Serves /\ Stages(i, "pool", "drain")
  /\ conn' = [c \in Conns |-> IF c \in PoolConns THEN Closed(c) ELSE conn[c]]
  /\ accepting' = FALSE
  /\ UNCHANGED <<program, draining, cutShort, awaited, process, managed, transport, chrome,
                 orphans, history>>

\* killLocalChrome.
KillChrome(i) ==
  /\ Talks /\ Stages(i, "chrome", "drain")
  /\ chrome' = IF chrome = "known" THEN "killed" ELSE chrome
  /\ UNCHANGED <<gatewayState, process, conn, managed, transport, orphans, history>>

\* gracefulShutdown: the second caller passes at once.
BeginDrain(i) ==
  /\ process = "runs"
  /\ Stages(i, "drain", IF draining \/ Tracked = {} THEN "profiles" ELSE "draining")
  /\ draining' = TRUE
  /\ trackedAtDrain' = IF draining THEN trackedAtDrain ELSE Tracked
  /\ UNCHANGED <<program, accepting, cutShort, awaited, process, conn, managed, transport, chrome,
                 orphans, ownAtSignal>>

DrainSeesNone(i) ==
  /\ Serves /\ Tracked = {} /\ Stages(i, "draining", "profiles")
  /\ UNCHANGED <<gatewayState, process, conn, managed, transport, chrome, orphans, history>>

GivesUpDrain(i) ==
  /\ Serves /\ Stages(i, "draining", "profiles") /\ cutShort' = TRUE
  /\ UNCHANGED <<program, accepting, draining, awaited, process, conn, managed, transport, chrome,
                 orphans, history>>

\* lifecycle.drain awaits the commits that are pending now (over stdio there are none).
AwaitSaves(i) ==
  /\ process = "runs" /\ Stages(i, "profiles", "saving")
  /\ awaited' = [awaited EXCEPT ![i] = {c \in Conns : conn[c] = "saving"}]
  /\ UNCHANGED <<program, accepting, draining, cutShort, process, conn, managed, transport, chrome,
                 orphans, history>>

SavesDone(i) == \A c \in awaited[i] : conn[c] = "gone"

\* process.exit(0): its handler kills the Chrome it knows.
Exit(how) ==
  /\ process' = how /\ chrome' = IF chrome = "known" THEN "killed" ELSE chrome
  /\ UNCHANGED <<program, accepting, draining, awaited, stage, conn, managed, transport,
                 orphans, history>>

EndsAfterSaves(i) == process = "runs" /\ stage[i] = "saving" /\ SavesDone(i) /\ Exit("ended") /\ UNCHANGED cutShort
GivesUpSaves(i) == Serves /\ stage[i] = "saving" /\ ~SavesDone(i) /\ Exit("ended") /\ cutShort' = TRUE
\* The 15 s timer of stdio.
ExitTimer == Talks /\ Signalled # {} /\ Exit("timer") /\ UNCHANGED cutShort

----------------------------------------------------------------------------

Connecting ==
  \E c \in Conns : Track(c) \/ SaveBegins(c) \/ SaveEnds(c)

Stopping ==
  \E i \in Signals :
     \/ \E c \in Conns : ReleaseManaged(i, c)
     \/ \E h \in HttpClients : CloseTransport(i, h)
     \/ AllReleased(i) \/ TransportsClosed(i) \/ PoolStops(i) \/ KillChrome(i) \/ BeginDrain(i)
     \/ DrainSeesNone(i) \/ GivesUpDrain(i) \/ AwaitSaves(i) \/ EndsAfterSaves(i) \/ GivesUpSaves(i)

ServerNext ==
  \/ Connecting \/ Stopping \/ ExitTimer
  \/ \E c \in Conns : Admit(c) \/ Manage(c) \/ ConnEnds(c)
  \/ \E h \in HttpClients : PostBegins(h) \/ PostEnds(h) \/ Delete(h)
  \/ LaunchChrome \/ LaunchFails \/ ChromeLaunched \/ ChromeKnown \/ FetchFails
  \/ \E i \in Signals : Signal(i)

\* The steps of a shutdown settle in `serve`, where nothing bounds the first three;
\* over stdio any of them may hang, and only the timer is fair.
ServerProgress == (program = "serve" /\ (Connecting \/ Stopping)) \/ ExitTimer

ServerSpec == ServerInit /\ [][ServerNext]_serverVars /\ WF_serverVars(ServerProgress)

----------------------------------------------------------------------------
(* Properties *)

\* A shutdown that no deadline cut short has waited for what it says it waits for
\* (index.ts:503): every commit pending when it looked is done, however many
\* signals ran beside each other; and with one signal nothing that was connected when
\* it began to drain is still connected.
ExitWaits ==
  process = "ended" /\ ~cutShort =>
    /\ \E i \in Signals : stage[i] = "saving" /\ \A c \in awaited[i] : conn[c] = "gone"
    /\ Cardinality(Signalled) = 1 => \A c \in trackedAtDrain : conn[c] \notin {"admitted", "tracked"}

\* The drain of the first signal waits for clients only: the sessions of the server
\* itself that were there at the signal have ended before (an MCP session or a
\* connection of the pool made during the shutdown may still be waited for).
DrainsClientsOnly ==
  (\E i \in Signals : stage[i] \in {"draining", "profiles", "saving"}) =>
    \A c \in ownAtSignal : conn[c] # "tracked" /\ c \notin managed

\* However the process ends, the Chrome that it knows ends with it.
ChromeEndsToo == process # "runs" => chrome # "known"

LifeSound == ExitWaits /\ DrainsClientsOnly /\ ChromeEndsToo

\* A process that was told to stop stops in the end (a signal is not taken back).
ServerStops == []<>(Signalled # {} => process # "runs")
=============================================================================
