------------------------------ MODULE MCAgents ------------------------------
(***************************************************************************)
(* What drives a browser for somebody, for TLC: the sessions of the MCP    *)
(* server, the tabs of one of them, an agent's tools, the loop that lets a *)
(* model use the computer, the page runner, and the notes of what the      *)
(* pages said.  They share no state, so one run takes them side by side:   *)
(* `driver` says which is explored.                                        *)
(***************************************************************************)
EXTENDS McpSessions, AgentSession, AgentActs, ComputerUse, PageRunner

CONSTANTS north, south

\* The selector offers north before south; a chord of two keys.
TwoRoutes == <<north, south>>
Chord == <<"ctrl", "shift">>

VARIABLE driver

driverVars == <<driver, mcpVars, agentVars, actsVars, useVars, runnerVars, noteVars>>

Only(what) ==
  /\ driver = what /\ UNCHANGED driver
  /\ what # "mcp" => UNCHANGED mcpVars
  /\ what # "agent" => UNCHANGED agentVars
  /\ what # "tools" => UNCHANGED actsVars
  /\ what # "computer" => UNCHANGED useVars
  /\ what # "runner" => UNCHANGED runnerVars
  /\ what # "notes" => UNCHANGED noteVars

\* One initial state of each part that is not explored.
DriverInit ==
  /\ driver \in {"mcp", "agent", "tools", "computer", "runner", "notes"}
  /\ McpInit /\ AgentInit /\ ActsInit /\ UseInit /\ RunnerInit /\ NotesInit
  /\ driver # "mcp" => tool = [c \in McpCalls |-> "open"]
  /\ driver # "agent" => ~adopts
  /\ driver # "computer" => vendor = "browser" /\ address[FirstTab] = "blank"
  /\ driver # "runner" =>
       wants = [r \in Runs |-> [until |-> "load", selector |-> FALSE, tolerant |-> FALSE]]
  /\ \A r \in Runs : wants[r].tolerant => wants[r].until = "load"   \* read of a load only

DriverNext ==
  \/ Only("mcp") /\ McpNext
  \/ Only("agent") /\ AgentNext
  \/ Only("tools") /\ ActsNext
  \/ Only("computer") /\ UseNext
  \/ Only("runner") /\ RunnerNext
  \/ Only("notes") /\ NotesNext

\* The fairness of each: sockets are read, timers fire, the vendor answers.
DriverProgress ==
  /\ WF_mcpVars(driver = "mcp" /\ McpProgress)
  /\ WF_actsVars(driver = "tools" /\ SessionProgress)
  /\ WF_useVars(driver = "computer" /\ UseProgress)
  /\ WF_runnerVars(driver = "runner" /\ RunnerProgress)
  /\ \A c \in AgentCalls : WF_agentVars(driver = "agent" /\ Deadline(c))

DriverSpec == DriverInit /\ [][DriverNext]_driverVars /\ DriverProgress

\* The turns of an agent's tools are sound, and what it reads of its pages is true
\* (the two are about parts of which one is explored at a time).
ToolsAreSound == TurnsAreSound /\ NotesAreTrue

\* Every call, every run and the loop come to their end, and no dialog stays: in
\* one formula, CallsAnswered, CallsEnd, CallsReturn, DialogsClose, RunsEnd and
\* LoopEnds of the part that is explored.
DriversSettle ==
  \A c \in AgentCalls :
    []<>(/\ CallsOver /\ agentCall[c] = NoCall /\ acting = "idle" /\ RunsOver
         /\ dialog = "none"
         /\ driver = "computer" => loop \in Ended)
=============================================================================
