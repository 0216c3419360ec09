------------------------------ MODULE PageRunner ------------------------------
(***************************************************************************)
(* core/cdp: CdpProtocolClient, which matches answers with commands, and   *)
(* runPageAction, which sets a page up, navigates, waits and acts on it    *)
(* through that client.  Several runs, each on a page of its own, share    *)
(* one client.  A promise that settles and the code that awaited it are    *)
(* two steps: ws hands out all the frames of one read before the code goes *)
(* on.  The commands that set a page up are one command here.              *)
(***************************************************************************)
EXTENDS Naturals, Sequences, FiniteSets

CONSTANTS
  Runs,
  Plain,    \* runs that only wait for the load and act
  MaxLooks  \* the polls for a selector before its deadline

ASSUME PageRunnerAssumption == MaxLooks \in Nat \ {0} /\ Plain \subseteq Runs

VARIABLES
  wants,       \* PageOptions and runOpts of each run
  at,          \* where each run is
  settled,     \* how the promise it awaits settled, "no" while it has not
  outcome,     \* what runPageAction returned or threw
  looks,       \* polls of waitForSelector
  aborted,     \* runs whose signal is aborted
  responding,  \* runs with a handler of Network.responseReceived
  waiting,     \* runs with the handler, the timer and the listener of waitForNavigation
  racing,      \* runs with the timer of withTimeout
  calls,       \* CdpProtocolClient.pending
  inbox,       \* frames of the browser, not handed out yet
  open,        \* the client is not closed
  loads        \* pages that navigate and have not loaded

runnerVars == <<wants, at, settled, outcome, looks, aborted, responding, waiting, racing, calls, inbox, open, loads>>

Options == [until : {"load", "commit"}, selector : BOOLEAN, tolerant : BOOLEAN]

Failures == {"refused", "closed", "timeout", "abort", "fault"}

RunnerInit ==
  /\ wants \in [Runs -> Options]
  /\ \A r \in Plain : wants[r] = [until |-> "load", selector |-> FALSE, tolerant |-> FALSE]
  /\ at = [r \in Runs |-> "new"] /\ settled = [r \in Runs |-> "no"]
  /\ outcome = [r \in Runs |-> "none"] /\ looks = [r \in Runs |-> 0]
  /\ aborted = {} /\ responding = {} /\ waiting = {} /\ racing = {}
  /\ calls = {} /\ inbox = <<>> /\ open = TRUE /\ loads = {}

----------------------------------------------------------------------------
(* The client *)

Frame(r, what, ok) == [of |-> r, what |-> what, ok |-> ok]

\* sendOn: a closed client throws, which the caller awaits like an answer.
Send(r, method) ==
  /\ calls' = IF open THEN calls \cup {[of |-> r, method |-> method]} ELSE calls
  /\ settled' = [settled EXCEPT ![r] = IF open THEN "no" ELSE "closed"]

\* The browser answers a command; a navigation it accepts begins a load.
AnswerCall(call) ==
  /\ open /\ call \in calls
  /\ \A i \in DOMAIN inbox : inbox[i].of = call.of => inbox[i].what # call.method
  /\ \E ok \in BOOLEAN :
       /\ inbox' = Append(inbox, Frame(call.of, call.method, ok))
       /\ loads' = IF ok /\ call.method = "navigate" THEN loads \cup {call.of} ELSE loads
  /\ UNCHANGED <<wants, at, settled, outcome, looks, aborted, responding, waiting, racing, calls, open>>

\* Page.loadEventFired of a page.
Loads(r) ==
  /\ open /\ r \in loads
  /\ loads' = loads \ {r}
  /\ inbox' = Append(inbox, Frame(r, "load", TRUE))
  /\ UNCHANGED <<wants, at, settled, outcome, looks, aborted, responding, waiting, racing, calls, open>>

\* What awaits the answer to a command of a run: the action is raced.
Awaits(r, method) ==
  CASE method = "act" -> at[r] = "acting" /\ r \in racing
    [] OTHER -> at[r] = method

\* handleMessage, dispatchCdpResponse.  Handlers are told of the events of every
\* session and a load event names no frame: it ends the wait of every run.
HandleMessage ==
  LET frame == Head(inbox) call == [of |-> frame.of, method |-> frame.what] IN
  /\ open /\ inbox # <<>>
  /\ inbox' = Tail(inbox)
  /\ calls' = calls \ {call}
  /\ waiting' = IF frame.what = "load" THEN {} ELSE waiting
  /\ settled' = [r \in Runs |->
       CASE frame.what = "load" /\ r \in waiting -> "ok"
         [] frame.what # "load" /\ r = frame.of /\ call \in calls /\ Awaits(r, frame.what) ->
              IF frame.ok THEN "ok" ELSE "refused"
         [] OTHER -> settled[r]]
  /\ racing' = IF frame.what = "act" THEN racing \ {frame.of} ELSE racing
  /\ UNCHANGED <<wants, at, outcome, looks, aborted, responding, open, loads>>

\* rejectAllPending.
Rejected == [r \in Runs |-> IF \E call \in calls : call.of = r /\ Awaits(r, call.method) THEN "closed" ELSE settled[r]]

\* handleClose, close: what was not handed out is lost.
Closes ==
  /\ open /\ open' = FALSE
  /\ inbox' = <<>> /\ loads' = {}
  /\ settled' = Rejected
  /\ racing' = racing \ {call.of : call \in {c \in calls : c.method = "act"}}
  /\ calls' = {}
  /\ UNCHANGED <<wants, at, outcome, looks, aborted, responding, waiting>>

----------------------------------------------------------------------------
(* The run *)

GoesOn(r, to) == at' = [at EXCEPT ![r] = to] /\ UNCHANGED <<outcome, racing>>

\* The finally block of the navigation.
LetGo(r) == responding \ {r}

\* What ends a run: withTimeout clears its timer, the navigation its handler.
EndsRun(r, how) ==
  /\ at' = [at EXCEPT ![r] = "ended"]
  /\ outcome' = [outcome EXCEPT ![r] = how]
  /\ settled' = [settled EXCEPT ![r] = "no"]
  /\ responding' = LetGo(r)
  /\ racing' = racing \ {r}
  /\ UNCHANGED <<looks, waiting, calls>>

Steps(r) == UNCHANGED <<wants, aborted, inbox, open, loads>>

Passed(r, stage) == at[r] = stage /\ settled[r] = "ok"

\* The navigation is over, or its end does not matter.
Navigated(r) ==
  \/ Passed(r, "navigate") /\ wants[r].until = "commit"
  \/ at[r] = "loading" /\ (settled[r] = "ok" \/ (settled[r] # "no" /\ wants[r].tolerant))

\* Where runPageAction looks at the signal before it goes on.
Checked(r) ==
  \/ at[r] \in {"new", "pausing"}
  \/ \E stage \in {"setup", "look", "locate"} : Passed(r, stage)
  \/ Navigated(r)

\* Mutant: the signal is not looked at again before the action.
LooksAtSignalEarly(r) == r \in aborted /\ at[r] # "locate"
LooksAtSignal(r) == r \in aborted

\* checkAborted.
Leaves(r) == Checked(r) /\ LooksAtSignal(r) /\ EndsRun(r, "abort") /\ Steps(r)

Proceeds(r) == ~LooksAtSignal(r)

Opens(r) ==
  /\ at[r] = "new" /\ Proceeds(r)
  /\ Send(r, "setup") /\ GoesOn(r, "setup")
  /\ UNCHANGED <<looks, responding, waiting>> /\ Steps(r)

Navigates(r) ==
  /\ Passed(r, "setup") /\ Proceeds(r)
  /\ responding' = responding \cup {r}
  /\ Send(r, "navigate") /\ GoesOn(r, "navigate")
  /\ UNCHANGED <<looks, waiting>> /\ Steps(r)

\* waitForNavigation: a signal aborted while the navigation was sent makes it
\* call cleanup(), which reads `handler` before it is initialised.
WaitsForLoad(r) ==
  /\ Passed(r, "navigate") /\ wants[r].until = "load"
  /\ GoesOn(r, "loading")
  /\ waiting' = IF r \in aborted THEN waiting ELSE waiting \cup {r}
  /\ settled' = [settled EXCEPT ![r] = IF r \in aborted THEN "fault" ELSE "no"]
  /\ UNCHANGED <<looks, responding, calls>> /\ Steps(r)

\* The page is there: waitForSelector polls it, or its address is read.
AfterNavigation(r) ==
  /\ Navigated(r) /\ Proceeds(r)
  /\ responding' = LetGo(r)
  /\ LET next == IF wants[r].selector THEN "look" ELSE "locate" IN Send(r, next) /\ GoesOn(r, next)
  /\ looks' = [looks EXCEPT ![r] = IF wants[r].selector THEN 1 ELSE 0]
  /\ UNCHANGED waiting /\ Steps(r)

Absent(r) ==
  /\ Passed(r, "look")
  /\ GoesOn(r, "pausing") /\ settled' = [settled EXCEPT ![r] = "no"]
  /\ UNCHANGED <<looks, responding, waiting, calls>> /\ Steps(r)

LooksAgain(r) ==
  /\ at[r] = "pausing" /\ looks[r] < MaxLooks /\ Proceeds(r)
  /\ looks' = [looks EXCEPT ![r] = @ + 1]
  /\ Send(r, "look") /\ GoesOn(r, "look")
  /\ UNCHANGED <<responding, waiting>> /\ Steps(r)

NotFound(r) == at[r] = "pausing" /\ looks[r] = MaxLooks /\ EndsRun(r, "timeout") /\ Steps(r)

Locates(r) ==
  /\ Passed(r, "look") /\ Proceeds(r)
  /\ Send(r, "locate") /\ GoesOn(r, "locate")
  /\ UNCHANGED <<looks, responding, waiting>> /\ Steps(r)

\* The action, a command of its own, raced with a timer and the signal.
Acts(r) ==
  /\ Passed(r, "locate") /\ Proceeds(r)
  /\ at' = [at EXCEPT ![r] = "acting"]
  /\ racing' = IF open THEN racing \cup {r} ELSE racing
  /\ Send(r, "act")
  /\ UNCHANGED <<outcome, looks, responding, waiting>> /\ Steps(r)

Returns(r) == Passed(r, "acting") /\ EndsRun(r, "value") /\ Steps(r)

\* What is thrown is passed on, but for a navigation whose end is tolerated.
Throws(r) ==
  /\ settled[r] \in Failures
  /\ ~(at[r] = "loading" /\ wants[r].tolerant)
  /\ EndsRun(r, settled[r]) /\ Steps(r)

\* Mutant: a wait that times out keeps its handler.
TimedOutKeeps(r) == waiting
TimedOut(r) == waiting \ {r}

\* The timers of waitForNavigation and withTimeout.
Timer(r) ==
  /\ r \in waiting \cup racing
  /\ settled' = [settled EXCEPT ![r] = "timeout"]
  /\ waiting' = TimedOut(r) /\ racing' = racing \ {r}
  /\ UNCHANGED <<wants, at, outcome, looks, aborted, responding, calls, inbox, open, loads>>

\* The caller leaves: a wait and a race listen to the signal.
Abort(r) ==
  /\ at[r] # "ended" /\ r \notin aborted
  /\ aborted' = aborted \cup {r}
  /\ settled' = [settled EXCEPT ![r] = IF r \in waiting \cup racing THEN "abort" ELSE @]
  /\ waiting' = waiting \ {r} /\ racing' = racing \ {r}
  /\ UNCHANGED <<wants, at, outcome, looks, responding, calls, inbox, open, loads>>

\* The code of a run that goes on.
Continues(r) ==
  \/ Leaves(r) \/ Opens(r) \/ Navigates(r) \/ WaitsForLoad(r) \/ AfterNavigation(r)
  \/ Absent(r) \/ LooksAgain(r) \/ NotFound(r) \/ Locates(r) \/ Acts(r) \/ Returns(r) \/ Throws(r)

RunnerNext ==
  \/ HandleMessage \/ Closes
  \/ \E call \in calls : AnswerCall(call)
  \/ \E r \in Runs : Loads(r) \/ Continues(r) \/ Timer(r) \/ Abort(r)

\* The event loop goes on and timers fire; a browser that is connected answers.
RunnerProgress == HandleMessage \/ (\E call \in calls : AnswerCall(call)) \/ \E r \in Runs : Continues(r) \/ Timer(r)

RunnerSpec == RunnerInit /\ [][RunnerNext]_runnerVars /\ WF_runnerVars(RunnerProgress)

----------------------------------------------------------------------------
(* Properties *)

\* A run that has ended has left nothing on the client it shares: no handler,
\* no timer, no command but the action it gave up on.
NothingLeftBehind ==
  \A r \in Runs : at[r] = "ended" =>
    /\ r \notin responding \cup waiting \cup racing
    /\ \A call \in calls : call.of = r => call.method = "act"

\* The action is never begun for a caller that had left before it: not even
\* where the error of the wait it interrupted is tolerated.
DepartedNeverActs == [][\A r \in aborted : at'[r] = "acting" => at[r] = "acting"]_runnerVars

\* Every run ends, whoever refuses, stays silent, leaves or hangs up.
RunsOver == \A r \in Runs : at[r] \in {"new", "ended"}
RunsEnd == []<>RunsOver

\* A caller that leaves is told AbortError, which servers answer with 499: a run
\* ends with a value, with AbortError, or with what the browser or a timer did.
AbortIsAbortError == \A r \in Runs : outcome[r] # "fault"
=============================================================================
