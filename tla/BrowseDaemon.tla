----------------------------- MODULE BrowseDaemon -----------------------------
(***************************************************************************)
(* One named session of the command line (server/browse): every invocation *)
(* is a process that finds or spawns the daemon behind the session's       *)
(* socket path and sends it one line; daemons race for the path, expire    *)
(* when idle, lose their upstream connection, or are killed.               *)
(***************************************************************************)
EXTENDS Naturals, FiniteSets

CONSTANTS Invocations, Daemons,
          NoDaemon,
          MaxKills

VARIABLES
  verb,        \* what each invocation asks: "work", "status" or "close"
  cli,         \* how far it is
  sentTo,      \* the daemon that took its connection
  path,        \* whose socket the path names, if it exists
  daemon,      \* how far each daemon process is
  upstream,    \* its connection to the gateway
  idle,        \* nothing touched its session for idleMs
  outlived,    \* session.expired # null
  kills

browseVars == <<verb, cli, sentTo, path, daemon, upstream, idle, outlived, kills>>

BrowseInit ==
  /\ verb \in [Invocations -> {"work", "status", "close"}]
  /\ cli = [c \in Invocations |-> "new"]
  /\ sentTo = [c \in Invocations |-> NoDaemon]
  /\ path = NoDaemon
  /\ daemon = [d \in Daemons |-> "unborn"]
  /\ upstream = [d \in Daemons |-> "up"]
  /\ idle = [d \in Daemons |-> FALSE] /\ outlived = [d \in Daemons |-> FALSE]
  /\ kills = 0

CliMoves(c, step) == cli' = [cli EXCEPT ![c] = step]
DaemonMoves(d, step) == daemon' = [daemon EXCEPT ![d] = step]

\* A socket accepts until server.close(), the awaits of stop() included.
Listening(d) == d # NoDaemon /\ daemon[d] \in {"serving", "stopping"}

----------------------------------------------------------------------------
(* An invocation *)

\* runBrowseCli: close never spawns.
Invoked(c) ==
  /\ cli[c] = "new"
  /\ CliMoves(c, IF verb[c] = "close" THEN "ready" ELSE "looking")
  /\ UNCHANGED <<verb, sentTo, path, daemon, upstream, idle, outlived, kills>>

\* isAlive, before a daemon is spawned and while one is waited for.
CliLooks(c) ==
  /\ cli[c] \in {"looking", "polling"}
  /\ CASE Listening(path) -> CliMoves(c, "ready")
       [] path = NoDaemon /\ cli[c] = "looking" -> CliMoves(c, "spawning")
       [] path = NoDaemon /\ cli[c] = "polling" -> UNCHANGED cli
       [] OTHER -> CliMoves(c, IF cli[c] = "looking" THEN "refused" ELSE "refused again")
  /\ UNCHANGED <<verb, sentTo, path, daemon, upstream, idle, outlived, kills>>

\* The refusal is heard in a later callback: the path removed may by then be
\* that of another daemon.
RemovesRefused(c) ==
  /\ cli[c] \in {"refused", "refused again"}
  /\ path' = NoDaemon
  /\ CliMoves(c, IF cli[c] = "refused" THEN "spawning" ELSE "polling")
  /\ UNCHANGED <<verb, sentTo, daemon, upstream, idle, outlived, kills>>

Spawns(c) ==
  /\ cli[c] = "spawning"
  /\ path' = NoDaemon
  /\ \E d \in Daemons :
       /\ daemon[d] = "unborn" /\ d = CHOOSE e \in Daemons : daemon[e] = "unborn"
       /\ DaemonMoves(d, "connecting")
  /\ CliMoves(c, "polling")
  /\ UNCHANGED <<verb, sentTo, upstream, idle, outlived, kills>>

\* CONNECT_RETRIES are used up.
PollEnds(c) ==
  /\ cli[c] = "polling"
  /\ CliMoves(c, "failed")
  /\ UNCHANGED <<verb, sentTo, path, daemon, upstream, idle, outlived, kills>>

\* sendToDaemon
Sends(c) ==
  /\ cli[c] = "ready"
  /\ IF Listening(path)
     THEN CliMoves(c, "sent") /\ sentTo' = [sentTo EXCEPT ![c] = path]
     ELSE CliMoves(c, "failed") /\ UNCHANGED sentTo
  /\ UNCHANGED <<verb, path, daemon, upstream, idle, outlived, kills>>

----------------------------------------------------------------------------
(* A daemon *)

Dials(d) ==
  /\ daemon[d] = "connecting"
  /\ DaemonMoves(d, "clearing") \/ DaemonMoves(d, "gone")
  /\ UNCHANGED <<verb, cli, sentTo, path, upstream, idle, outlived, kills>>

\* rmSync of whatever is there
Clears(d) ==
  /\ daemon[d] = "clearing"
  /\ path' = NoDaemon
  /\ DaemonMoves(d, "binding")
  /\ UNCHANGED <<verb, cli, sentTo, upstream, idle, outlived, kills>>

\* listen; a path taken meanwhile is an uncaught error.
Binds(d) ==
  /\ daemon[d] = "binding"
  /\ IF path = NoDaemon THEN path' = d /\ DaemonMoves(d, "serving")
     ELSE DaemonMoves(d, "gone") /\ UNCHANGED path
  /\ UNCHANGED <<verb, cli, sentTo, upstream, idle, outlived, kills>>

\* handleLine: commands run side by side; close answers, then stops.
DaemonHandles(d, c) ==
  /\ cli[c] = "sent" /\ sentTo[c] = d /\ daemon[d] \in {"serving", "stopping", "gone"}
  /\ CASE verb[c] = "close" ->
            CliMoves(c, "answered") /\ DaemonMoves(d, IF daemon[d] = "gone" THEN "gone" ELSE "stopping") /\ UNCHANGED idle
       [] verb[c] = "status" -> CliMoves(c, "answered") /\ UNCHANGED <<daemon, idle>>
       [] OTHER -> CliMoves(c, "running") /\ UNCHANGED daemon
                   /\ idle' = [idle EXCEPT ![d] = outlived[d] /\ @]
  /\ UNCHANGED <<verb, sentTo, path, upstream, outlived, kills>>

CanAnswer(d) == daemon[d] # "killed"

\* The result, or the error of a session that is closed or cut off.
Answers(d, c) ==
  /\ cli[c] = "running" /\ sentTo[c] = d /\ CanAnswer(d)
  /\ CliMoves(c, "answered")
  /\ idle' = [idle EXCEPT ![d] = outlived[d] /\ @]
  /\ UNCHANGED <<verb, sentTo, path, daemon, upstream, outlived, kills>>

Quiet(d) ==
  /\ daemon[d] = "serving" /\ ~idle[d]
  /\ idle' = [idle EXCEPT ![d] = TRUE]
  /\ UNCHANGED <<verb, cli, sentTo, path, daemon, upstream, outlived, kills>>

\* SessionPolicy.tick
Expires(d) == daemon[d] = "serving" /\ idle[d] /\ ~outlived[d]

SessionExpires(d) ==
  /\ Expires(d)
  /\ outlived' = [outlived EXCEPT ![d] = TRUE]
  /\ UNCHANGED <<verb, cli, sentTo, path, daemon, upstream, idle, kills>>

\* The watchdog
DaemonStops(d) ==
  /\ daemon[d] = "serving" /\ outlived[d]
  /\ DaemonMoves(d, "stopping")
  /\ UNCHANGED <<verb, cli, sentTo, path, upstream, idle, outlived, kills>>

\* The end of stop(): the path is removed, whoever it belongs to.
Stopped(d) ==
  /\ daemon[d] = "stopping"
  /\ DaemonMoves(d, "gone")
  /\ path' = NoDaemon
  /\ UNCHANGED <<verb, cli, sentTo, upstream, idle, outlived, kills>>

UpstreamDrops(d) ==
  /\ daemon[d] = "serving" /\ upstream[d] = "up"
  /\ upstream' = [upstream EXCEPT ![d] = "dropped"]
  /\ UNCHANGED <<verb, cli, sentTo, path, daemon, idle, outlived, kills>>

\* The process dies and leaves its path; who waits for it hears nothing.
Killed(d) ==
  /\ daemon[d] \notin {"unborn", "gone", "killed"} /\ kills < MaxKills
  /\ kills' = kills + 1
  /\ DaemonMoves(d, "killed")
  /\ cli' = [c \in Invocations |->
       IF sentTo[c] = d /\ cli[c] \in {"sent", "running"} THEN "silent" ELSE cli[c]]
  /\ UNCHANGED <<verb, sentTo, path, upstream, idle, outlived>>

CliStep(c) == Invoked(c) \/ CliLooks(c) \/ RemovesRefused(c) \/ Spawns(c) \/ Sends(c)
DaemonStep(d) ==
  \/ Dials(d) \/ Clears(d) \/ Binds(d) \/ SessionExpires(d) \/ DaemonStops(d) \/ Stopped(d) \/ Quiet(d)
  \/ \E c \in Invocations : DaemonHandles(d, c) \/ Answers(d, c)

BrowseNext ==
  \/ \E c \in Invocations : CliStep(c) \/ PollEnds(c)
  \/ \E d \in Daemons : DaemonStep(d) \/ UpstreamDrops(d) \/ Killed(d)

\* Processes run, commands have deadlines, the clock goes on.
BrowseProgress == (\E c \in Invocations : CliStep(c) \/ PollEnds(c)) \/ \E d \in Daemons : DaemonStep(d)

BrowseSpec == BrowseInit /\ [][BrowseNext]_browseVars /\ WF_browseVars(BrowseProgress)

----------------------------------------------------------------------------
(* Properties *)

Over == {"answered", "failed", "silent"}

\* Every invocation ends: a daemon that never serves is given up, one that stops
\* still answers what it took, and one that is killed hangs up.
InvocationsEnd == []<>(\A c \in Invocations : cli[c] \in Over)

\* A daemon whose path another process removed or took cannot be told to close,
\* yet it does not keep its browser for good: nothing touches it any more, so its
\* idle clock ends it, its upstream connection up or not.
OrphansGo == []<>(\A d \in Daemons : daemon[d] = "serving" => path = d)

\* Nobody waits for good: not an invocation, and not a daemon nobody can reach.
BrowseSettles == InvocationsEnd /\ OrphansGo

\* "Drives one browser per named session" (cli.ts:140): at any time one daemon
\* at most serves the name.
OneBrowserPerName == Cardinality({d \in Daemons : daemon[d] = "serving" /\ ~outlived[d]}) <= 1
=============================================================================
