----------------------------- MODULE MCServing -----------------------------
(***************************************************************************)
(* What serves a connection, for TLC: the way it comes in, the transparent *)
(* relay, the plugin pipeline, the live view, the REST endpoints and the   *)
(* process around them.  They share no state, so one run takes them side   *)
(* by side: `serving` says which is explored.                              *)
(***************************************************************************)
EXTENDS Pipeline, LiveView, NodeRelay, RestRequests, ServerLife, Connect, TLC

CONSTANTS own, foreign, pf

\* A browserserve and a Chrome with an http URL, both marked injectProxy.
OwnAndForeign ==
  own :> [own |-> TRUE, proxies |-> TRUE, http |-> FALSE]
    @@ foreign :> [own |-> FALSE, proxies |-> TRUE, http |-> TRUE]

\* One proxy that a browser can use, and one that wants a login.
TwoProxies ==
  "direct" :> [scheme |-> "socks5", host |-> TRUE, tail |-> FALSE, login |-> FALSE]
    @@ "login" :> [scheme |-> "http", host |-> TRUE, tail |-> FALSE, login |-> TRUE]

\* A writer, a reader, a writer behind a proxy, and a connection without a profile.
FourWishes ==
  [wish : {[profile |-> pf, readOnly |-> mode, proxy |-> "absent", record |-> "absent"] : mode \in {"absent", "yes"}}
            \cup {[profile |-> pf, readOnly |-> "absent", proxy |-> "direct", record |-> "absent"],
                  [profile |-> "none", readOnly |-> "absent", proxy |-> "absent", record |-> "absent"]},
   pin : {Nothing}, resumes : BOOLEAN]

\* No session defaults, or recordings and a profile that is saved.
TwoDefaults ==
  {[record |-> FALSE, profile |-> Nothing, saveProfile |-> FALSE, proxy |-> "absent"],
   [record |-> TRUE, profile |-> pf, saveProfile |-> TRUE, proxy |-> "absent"]}

VARIABLE serving

servingVars == <<serving, pipelineVars, liveVars, relayVars, restVars, serverVars, connectVars>>

Only(what) ==
  /\ serving = what /\ UNCHANGED serving
  /\ what # "pipeline" => UNCHANGED pipelineVars
  /\ what # "live" => UNCHANGED liveVars
  /\ what # "relay" => UNCHANGED relayVars
  /\ what # "rest" => UNCHANGED restVars
  /\ what # "server" => UNCHANGED serverVars
  /\ what # "connect" => UNCHANGED connectVars

\* One initial state of each part that is not explored.
ServingInit ==
  /\ serving \in {"pipeline", "live", "relay", "rest", "server", "connect"}
  /\ PipelineInit /\ LiveInit /\ RelayInit /\ RestInit /\ ServerInit /\ ConnectInit
  /\ defaults \in TwoDefaults
  /\ serving # "pipeline" => asked = [proxy |-> TRUE, profile |-> "none", record |-> FALSE]
  /\ serving # "live" => wants = "nothing"
  /\ serving # "rest" => ask = [r \in Reqs |-> [profile |-> TRUE, proxied |-> FALSE, pinned |-> FALSE]]
  /\ serving # "server" => program = "serve"
  /\ serving # "connect" => parked = Nothing /\ ~defaults.record

ServingNext ==
  \/ Only("pipeline") /\ PipelineNext
  \/ Only("live") /\ LiveNext
  \/ Only("relay") /\ RelayNext
  \/ Only("rest") /\ RestNext
  \/ Only("server") /\ ServerNext
  \/ Only("connect") /\ ConnectNext

\* The fairness of each, which is the event loop's.
ServingProgress ==
  /\ WF_pipelineVars(serving = "pipeline" /\ PipelineProgress)
  /\ WF_liveVars(serving = "live" /\ LiveProgress)
  /\ WF_relayVars(serving = "relay" /\ RelayProgress)
  /\ WF_restVars(serving = "rest" /\ RestNext)
  /\ WF_serverVars(serving = "server" /\ ServerProgress)

ServingSpec == ServingInit /\ [][ServingNext]_servingVars /\ ServingProgress

\* The handler answers for what a connection takes with it, the pipeline for one that
\* it serves, the REST endpoints for a request, and the shutdown for what it waits for
\* (each is about a part, and one part is explored at a time).
ServedSound == ConnectSound /\ PipelineSound /\ RestSound /\ LifeSound

\* Whatever is asked of a connection comes to its end: its start and its close,
\* a viewer that is heard leaving, an attempt and a departure, the process that was
\* told to, and a request (RestSettles; the requests of a part that is not explored
\* are never made).
ServingSettles ==
  /\ PipelineSettles /\ HeardLeavingEnds /\ RelaysSettle /\ ServerStops
  /\ <>[](serving = "rest" => RestOver)
=============================================================================
