------------------------------ MODULE Pipeline ------------------------------
(***************************************************************************)
(* One connection served through the plugin pipeline: handlePipelineRelay  *)
(* opens the provider's socket, the plugins' start hooks run over it, the  *)
(* client is upgraded, messages flow, and whatever ends the session makes  *)
(* the end hooks run before the two sockets are closed.                    *)
(*                                                                         *)
(* Hooks are programs of CDP commands that the gateway sends over the      *)
(* client's own connection; the k-th command of hook h is named <<h, k>>,  *)
(* which stands for the internal id it is given.  What a command carries   *)
(* is left out; which of them have a deadline of their own, and which may  *)
(* fail without failing the hook, is kept.                                 *)
(***************************************************************************)
EXTENDS Naturals, Sequences, FiniteSets, SequencesExt

VARIABLES
  relay,      \* where handlePipelineRelay is
  asked,      \* what the connection asks for: a proxy, a profile, a recording
  position,   \* the start hook that start() awaits, counted in Starters
  ending,     \* the end hook that finalize() awaits, counted in Enders; 0: none
  closed,     \* Pipeline.closed
  finished,   \* finalize() has closed the sockets
  at,         \* of each hook: Idle, its command, Done or Failed
  reply,      \* of each hook: what became of the command it awaits
  pending,    \* InternalIdSpace.pending
  wire,       \* commands the browser has not answered
  upstream,   \* the provider's socket
  lost,       \* the provider closed it
  client,     \* the client's socket
  delivered,  \* answers the client was sent
  sent,       \* commands the client has sent
  gaveUp,     \* hooks whose timer ran out
  lock,       \* the profile's lock, as this session sees it
  cookies,    \* the profile plugin read the cookies before Browser.close
  context     \* the proxied browser context

pipelineVars == <<relay, asked, position, ending, closed, finished, at, reply, pending, wire,
                  upstream, lost, client, delivered, sent, gaveUp, lock, cookies, context>>

Plain == <<<<"client", "plain">>, 0>>
BrowserClose == <<<<"client", "close">>, 0>>
ClientCommands == {Plain, BrowserClose}

Hooks == {<<"proxy", "start">>, <<"profile", "start">>, <<"screencast", "start">>,
          <<"profile", "hold">>,
          <<"proxy", "end">>, <<"profile", "end">>, <<"screencast", "end">>}

ProxyStart == <<"proxy", "start">>
ProfileStart == <<"profile", "start">>
Hold == <<"profile", "hold">>
ProfileEnd == <<"profile", "end">>
ProxyEnd == <<"proxy", "end">>

\* Where a hook is: not called, at its k-th command, or through.
Idle == 0
Steps == 1..4
Done == 5
Failed == 6
InHook(h) == at[h] \in Steps

Given(plugin, wanted) == IF wanted THEN <<plugin>> ELSE << >>

\* The plugins a connection gets, in the order in which they see its messages.
Plugins ==
  Given("proxy", asked.proxy) \o Given("profile", asked.profile \in {"use", "readOnly"})
  \o Given("disconnect", asked.profile = "handOff") \o Given("screencast", asked.record)

Saves == asked.profile = "use"

\* Those of them that have hooks.
Starters ==
  Given("proxy", asked.proxy) \o Given("profile", asked.profile \in {"use", "readOnly"})
  \o Given("screencast", asked.record)
Enders == Reverse(Starters)

\* What a hook awaits, one after the other: commands, and files of the gateway.
Script(h) ==
  CASE h = ProxyStart   -> <<"createContext", "openTab", "closeBlanks">>
    [] h = ProfileStart -> <<"probe", "inject", "mark">>
    [] h = Hold         -> <<"cookies">>
    [] h = ProfileEnd   -> IF Saves THEN <<"snapshots", "cookies", "reread", "files">> ELSE << >>
    [] h = ProxyEnd     -> IF context = "known" \/ InHook(h) THEN <<"dispose">> ELSE << >>
    [] OTHER            -> IF h[2] = "start" \/ at[<<h[1], "start">>] = Done THEN <<"files">> ELSE << >>

Local(h, k) == Script(h)[k] = "files"

\* A failure of these fails the hook; every other failure is caught.
Fatal(h, k) == Script(h)[k] \in {"createContext", "openTab", "inject"} \/ h = <<"screencast", "start">>

\* isInternal: by the range of the id.
Internal(w) == w \notin ClientCommands

\* The ack of a frame, an auto-attach: sent with an id that is settled at once.
OneWay == <<<<"gateway", "oneWay">>, 0>>

InternalIds == Hooks \X Steps \cup {OneWay}

PipelineTypeOK ==
  /\ relay \in {"idle", "dialing", "starting", "running", "ended", "refused", "stranded"}
  /\ asked \in [proxy : BOOLEAN, profile : {"none", "use", "readOnly", "handOff"}, record : BOOLEAN]
  /\ position \in 0..4 /\ ending \in 0..4
  /\ closed \in BOOLEAN /\ finished \in BOOLEAN /\ lost \in BOOLEAN /\ cookies \in BOOLEAN
  /\ at \in [Hooks -> {Idle, Done, Failed} \cup Steps]
  /\ reply \in [Hooks -> {"none", "answered", "rejected"}]
  /\ pending \subseteq InternalIds
  /\ wire \subseteq InternalIds \cup ClientCommands
  /\ upstream \in {"none", "open", "closed"}
  /\ client \in {"http", "gone", "open", "closed"}
  /\ delivered \subseteq InternalIds \cup ClientCommands
  /\ sent \subseteq ClientCommands
  /\ gaveUp \subseteq Hooks
  /\ lock \in {"held", "free"}
  /\ context \in {"none", "created", "known", "disposed"}

PipelineInit ==
  /\ relay = "idle"
  /\ asked \in [proxy : BOOLEAN, profile : {"none", "use", "readOnly", "handOff"}, record : BOOLEAN]
  /\ Plugins # << >>
  /\ ~(asked.proxy /\ asked.profile = "handOff")   \* with a proxy no profile is handed off
  /\ position = 0 /\ ending = 0
  /\ closed = FALSE /\ finished = FALSE /\ lost = FALSE /\ cookies = FALSE
  /\ at = [h \in Hooks |-> Idle]
  /\ reply = [h \in Hooks |-> "none"]
  /\ pending = {} /\ wire = {} /\ delivered = {} /\ sent = {} /\ gaveUp = {}
  /\ upstream = "none" /\ client = "http" /\ context = "none"
  /\ lock = IF Saves THEN "held" ELSE "free"

(***************************************************************************)
(* Commands of the gateway itself.                                         *)
(***************************************************************************)

Written(ws) == IF upstream = "open" THEN wire \cup ws ELSE wire

\* sendInternal: a socket that is closed takes the command and says nothing.
Send(h, k) ==
  /\ at' = [at EXCEPT ![h] = k]
  /\ reply' = [reply EXCEPT ![h] = "none"]
  /\ IF Local(h, k)
     THEN UNCHANGED <<pending, wire>>
     ELSE pending' = pending \cup {<<h, k>>} /\ wire' = Written({<<h, k>>})

\* A hook is called, and runs to its first command.
Launch(h) ==
  IF Script(h) # << >>
  THEN Send(h, 1)
  ELSE /\ at' = [at EXCEPT ![h] = Done]
       /\ UNCHANGED <<reply, pending, wire>>

Starting == relay = "starting" /\ position <= Len(Starters)
StartHook == <<Starters[position], "start">>

Ending == ending \in 1..Len(Enders)
EndHook == <<Enders[ending], "end">>

\* The event loop turns to timers, sockets and files when no hook and no
\* loop over the hooks can go on.
Drained ==
  /\ relay = "starting" => Starting /\ InHook(StartHook)
  /\ Ending => InHook(EndHook)
  /\ ending > Len(Enders) => finished
  /\ \A h \in Hooks : reply[h] # "none" => ~InHook(h)

Awaits(id) == at[id[1]] = id[2]

\* rejectAll: whoever awaits an outstanding command gets an error.
RejectAll ==
  /\ pending' = {}
  /\ reply' = [h \in Hooks |-> IF \E id \in pending : id[1] = h /\ Awaits(id) THEN "rejected" ELSE reply[h]]

(***************************************************************************)
(* Phase 1: the provider's socket and the start hooks.                     *)
(***************************************************************************)

Request ==
  /\ relay = "idle"
  /\ relay' = "dialing"
  /\ UNCHANGED <<asked, position, ending, closed, finished, at, reply, pending, wire,
                 upstream, lost, client, delivered, sent, gaveUp, lock, cookies, context>>

\* The hand-off fails, or the provider refuses or does not answer in time.
DialFails ==
  /\ relay = "dialing"
  /\ relay' = "refused"
  /\ UNCHANGED <<asked, position, ending, closed, finished, at, reply, pending, wire,
                 upstream, lost, client, delivered, sent, gaveUp, lock, cookies, context>>

DialOpens ==
  /\ relay = "dialing"
  /\ relay' = "starting" /\ upstream' = "open" /\ position' = 1
  /\ UNCHANGED <<asked, ending, closed, finished, at, reply, pending, wire,
                 lost, client, delivered, sent, gaveUp, lock, cookies, context>>

CallStartHook ==
  /\ Starting /\ at[StartHook] = Idle
  /\ Launch(StartHook)
  /\ UNCHANGED <<relay, asked, position, ending, closed, finished,
                 upstream, lost, client, delivered, sent, gaveUp, lock, cookies, context>>

\* The hook is done; an upstream that closed meanwhile fails the start.
StartHookReturns ==
  /\ Starting /\ at[StartHook] = Done
  /\ IF closed
     THEN relay' = "refused" /\ UNCHANGED position
     ELSE position' = position + 1 /\ UNCHANGED relay
  /\ UNCHANGED <<asked, ending, closed, finished, at, reply, pending, wire,
                 upstream, lost, client, delivered, sent, gaveUp, lock, cookies, context>>

StartFails ==
  /\ relay' = "refused" /\ closed' = TRUE /\ upstream' = "closed" /\ wire' = {}
  /\ RejectAll
  /\ UNCHANGED <<asked, position, ending, finished, at, lost, client, delivered, sent,
                 lock, cookies, context>>

StartHookThrows ==
  /\ Starting /\ at[StartHook] = Failed
  /\ StartFails
  /\ UNCHANGED gaveUp

StartTimer ==
  /\ Starting /\ InHook(StartHook)
  /\ StartFails
  /\ gaveUp' = gaveUp \cup {StartHook}

\* The upgrade, the tracker and run() follow the last hook without a pause.
\* A client that has gone by then makes ws destroy its socket and never call
\* back, and the relay waits for good.
Upgrade ==
  /\ relay = "starting" /\ position > Len(Starters)
  /\ IF client = "http"
     THEN relay' = "running" /\ client' = "open"
     ELSE relay' = "stranded" /\ UNCHANGED client
  /\ UNCHANGED <<asked, position, ending, closed, finished, at, reply, pending, wire,
                 upstream, lost, delivered, sent, gaveUp, lock, cookies, context>>

(***************************************************************************)
(* Hooks go on when their command is settled, whether or not anybody still *)
(* waits for them.                                                         *)
(***************************************************************************)

\* The last command is settled: a profile is saved or left as it was, and
\* either way its lock is given back; a held Browser.close goes out.
HookEnds(h, outcome) ==
  /\ at' = [at EXCEPT ![h] = outcome]
  /\ reply' = [reply EXCEPT ![h] = "none"]
  /\ lock' = IF h = ProfileEnd THEN "free" ELSE lock
  /\ cookies' = (cookies \/ (h = Hold /\ reply[h] = "answered"))
  /\ wire' = IF h = Hold /\ ~closed THEN Written({BrowserClose}) ELSE wire
  /\ UNCHANGED pending

Served == client \in {"open", "closed"}

\* A reading of the origins that pages left by themselves, when there are any.
\* Without a hold the cookies are read first; a hold may have read them.
Following(h, k) ==
  IF h = ProfileEnd /\ (k = 2 \/ (k = 1 /\ cookies))
  THEN IF Served THEN {3, 4} ELSE {4}
  ELSE {k + 1}

HookResumes(h) ==
  /\ InHook(h) /\ reply[h] # "none"
  /\ LET k == at[h] IN
     \/ reply[h] = "rejected" /\ Fatal(h, k) /\ HookEnds(h, Failed)
     \* the browser holds the state of another profile
     \/ h = ProfileStart /\ k = 1 /\ reply[h] = "answered" /\ HookEnds(h, Failed)
     \/ /\ ~(reply[h] = "rejected" /\ Fatal(h, k))
        /\ \E n \in Following(h, k) :
             IF n > Len(Script(h)) THEN HookEnds(h, Done) ELSE Send(h, n) /\ UNCHANGED <<lock, cookies>>
  /\ context' = IF h = ProxyStart /\ at[h] = 1 /\ reply[h] = "answered" THEN "known" ELSE context
  /\ UNCHANGED <<relay, asked, position, ending, closed, finished,
                 upstream, lost, client, delivered, sent, gaveUp>>

FilesSettle(h) ==
  /\ InHook(h) /\ Local(h, at[h]) /\ reply[h] = "none"
  /\ \E r \in {"answered", "rejected"} : reply' = [reply EXCEPT ![h] = r]
  /\ UNCHANGED <<relay, asked, position, ending, closed, finished, at, pending, wire,
                 upstream, lost, client, delivered, sent, gaveUp, lock, cookies, context>>

\* Page snapshots have a deadline of their own; the pages are given up, and
\* a hold that is still reading the cookies is awaited without one.
SnapshotsTimeOut ==
  /\ at[ProfileEnd] = 1 /\ reply[ProfileEnd] = "none" /\ ~InHook(Hold)
  /\ reply' = [reply EXCEPT ![ProfileEnd] = "rejected"]
  /\ UNCHANGED <<relay, asked, position, ending, closed, finished, at, pending, wire,
                 upstream, lost, client, delivered, sent, gaveUp, lock, cookies, context>>

(***************************************************************************)
(* Phase 2: messages.  The browser may refuse any command but the disposal *)
(* of a context that is there.                                             *)
(***************************************************************************)

\* onClientMessage: the listener stays while the session ends.
ClientSends(c) ==
  /\ client = "open" /\ c \notin sent
  /\ sent' = sent \cup {c}
  /\ IF c = BrowserClose /\ Saves
     THEN Launch(Hold)
     ELSE wire' = Written({c}) /\ UNCHANGED <<at, reply, pending>>
  /\ UNCHANGED <<relay, asked, position, ending, closed, finished,
                 upstream, lost, client, delivered, gaveUp, lock, cookies, context>>

\* A frame is acknowledged, a new page is enabled: nobody awaits the answer.
Acknowledge ==
  /\ \/ asked.record /\ at[<<"screencast", "start">>] = Done
     \/ Saves /\ at[ProfileStart] = Done
  /\ upstream = "open"
  /\ OneWay \notin wire
  /\ wire' = wire \cup {OneWay}
  /\ UNCHANGED <<relay, asked, position, ending, closed, finished, at, reply, pending,
                 upstream, lost, client, delivered, sent, gaveUp, lock, cookies, context>>

\* finalize: the first reason ends the session, later ones are ignored.
Finalize ==
  IF closed THEN UNCHANGED <<closed, ending>>
  ELSE closed' = TRUE /\ ending' = 1

Settle(w, good) ==
  /\ pending' = pending \ {w}
  /\ reply' = IF Awaits(w) THEN [reply EXCEPT ![w[1]] = IF good THEN "answered" ELSE "rejected"] ELSE reply

\* What the browser did with a command, whether or not its answer is read.
Effect(w) ==
  context' = IF w = <<ProxyStart, 1>> THEN "created" ELSE IF w = <<ProxyEnd, 1>> THEN "disposed" ELSE context

Receives(w) == IF client = "open" THEN delivered \cup {w} ELSE delivered

\* The client's buffer is over the threshold: the frame is dropped unread.
Dropped(w) ==
  /\ client = "open"
  /\ UNCHANGED <<pending, reply, delivered, closed, ending>>

Owned(w, good) ==
  /\ w \in pending
  /\ Settle(w, good)
  /\ UNCHANGED <<delivered, closed, ending>>

Swallowed(w) ==
  /\ w \notin pending /\ Internal(w)
  /\ UNCHANGED <<pending, reply, delivered, closed, ending>>

\* The answer to a Browser.close that was turned into a version request ends
\* the session; like any answer it goes to the client.
Forwarded(w) ==
  /\ ~Internal(w)
  /\ delivered' = Receives(w)
  /\ IF w = BrowserClose /\ asked.profile = "handOff" THEN Finalize ELSE UNCHANGED <<closed, ending>>
  /\ UNCHANGED <<pending, reply>>

OnUpstreamMessage(w) ==
  /\ w \in wire /\ upstream = "open"
  /\ wire' = wire \ {w}
  /\ \/ Dropped(w) /\ Effect(w)
     \/ Owned(w, TRUE) /\ Effect(w)
     \/ w # <<ProxyEnd, 1>> /\ Owned(w, FALSE) /\ UNCHANGED context
     \/ Swallowed(w) /\ Effect(w)
     \/ Forwarded(w) /\ UNCHANGED context
  /\ UNCHANGED <<relay, asked, position, finished, at, upstream, lost, client, sent, gaveUp, lock, cookies>>

(***************************************************************************)
(* The end.                                                                *)
(***************************************************************************)

UpstreamCloses ==
  /\ upstream = "open"
  /\ upstream' = "closed" /\ lost' = TRUE /\ wire' = {}
  /\ Finalize
  /\ UNCHANGED <<relay, asked, position, finished, at, reply, pending,
                 client, delivered, sent, gaveUp, lock, cookies, context>>

\* By itself, or because the reconciler closed an idle session.
ClientCloses ==
  /\ client = "open"
  /\ client' = "closed"
  /\ Finalize
  /\ UNCHANGED <<relay, asked, position, finished, at, reply, pending, wire,
                 upstream, lost, delivered, sent, gaveUp, lock, cookies, context>>

\* Before the upgrade nobody listens to the client.
ClientLeaves ==
  /\ client = "http" /\ relay \in {"dialing", "starting"}
  /\ client' = "gone"
  /\ UNCHANGED <<relay, asked, position, ending, closed, finished, at, reply, pending, wire,
                 upstream, lost, delivered, sent, gaveUp, lock, cookies, context>>

CallEndHook ==
  /\ Ending /\ at[EndHook] = Idle
  /\ Launch(EndHook)
  /\ UNCHANGED <<relay, asked, position, ending, closed, finished,
                 upstream, lost, client, delivered, sent, gaveUp, lock, cookies, context>>

\* Mutant: the end hooks are not awaited.
EndHookUnawaited ==
  /\ Ending /\ at[EndHook] # Idle
  /\ ending' = ending + 1
  /\ UNCHANGED <<relay, asked, position, closed, finished, at, reply, pending, wire,
                 upstream, lost, client, delivered, sent, gaveUp, lock, cookies, context>>

EndHookSettles ==
  /\ Ending /\ at[EndHook] \in {Done, Failed}
  /\ ending' = ending + 1
  /\ UNCHANGED <<relay, asked, position, closed, finished, at, reply, pending, wire,
                 upstream, lost, client, delivered, sent, gaveUp, lock, cookies, context>>

EndTimer ==
  /\ Ending /\ InHook(EndHook)
  /\ ending' = ending + 1 /\ gaveUp' = gaveUp \cup {EndHook}
  /\ UNCHANGED <<relay, asked, position, closed, finished, at, reply, pending, wire,
                 upstream, lost, client, delivered, sent, lock, cookies, context>>

\* Mutant: the socket is closed only once every internal command is answered.
FinishWhenQuiet ==
  /\ ending > Len(Enders) /\ ~finished /\ pending = {}
  /\ finished' = TRUE /\ wire' = {} /\ upstream' = "closed"
  /\ RejectAll
  /\ client' = IF client = "open" THEN "closed" ELSE client
  /\ relay' = IF relay = "running" THEN "ended" ELSE relay
  /\ UNCHANGED <<asked, position, ending, closed, at, lost, delivered, sent, gaveUp, lock, cookies, context>>

\* The sockets are closed and run() resolves: the relay untracks the session
\* and releases its slot.
Finish ==
  /\ ending > Len(Enders) /\ ~finished
  /\ finished' = TRUE /\ wire' = {} /\ upstream' = "closed"
  /\ RejectAll
  /\ client' = IF client = "open" THEN "closed" ELSE client
  /\ relay' = IF relay = "running" THEN "ended" ELSE relay
  /\ UNCHANGED <<asked, position, ending, closed, at, lost, delivered, sent, gaveUp, lock, cookies, context>>

Hook == CallStartHook \/ StartHookReturns \/ StartHookThrows \/ Upgrade
        \/ CallEndHook \/ EndHookSettles \/ Finish \/ \E h \in Hooks : HookResumes(h)
Timers == StartTimer \/ EndTimer \/ SnapshotsTimeOut
Disk == \E h \in Hooks : FilesSettle(h)
Messages == Acknowledge \/ (\E c \in ClientCommands : ClientSends(c)) \/ (\E w \in wire : OnUpstreamMessage(w))
Peers == Request \/ DialFails \/ DialOpens \/ UpstreamCloses \/ ClientCloses \/ ClientLeaves

PipelineNext == Hook \/ (Drained /\ (Timers \/ Disk \/ Messages \/ Peers))

\* The event loop runs what is ready, and timers fire.
PipelineProgress == Hook \/ (Drained /\ (Timers \/ Disk \/ DialFails))

PipelineSpec == PipelineInit /\ [][PipelineNext]_pipelineVars
PipelineFairSpec == PipelineSpec /\ WF_pipelineVars(PipelineProgress)

(***************************************************************************)
(* Properties                                                              *)
(***************************************************************************)

\* The client is answered only what it asked: an internal command's answer
\* never reaches it, not even one that comes after its hook was given up
\* (pipeline.ts:280-285).
OnlyOwnAnswers == delivered \subseteq sent

\* The end hooks run on a session that failed to start only if the provider
\* closed it under the start (pipeline.ts:134-138), and a session that ended
\* has called every one of them, in the reverse order of the plugins.
EndHooksRun ==
  /\ relay = "refused" /\ ~lost => \A p \in ToSet(Enders) : at[<<p, "end">>] = Idle
  /\ \A i, j \in 1..Len(Enders) :
       i < j /\ at[<<Enders[j], "end">>] # Idle => at[<<Enders[i], "end">>] # Idle
  /\ relay = "ended" => \A p \in ToSet(Enders) : at[<<p, "end">>] # Idle

\* A session that ended over a living provider connection, with no hook given
\* up, has given its profile back and taken its proxied context down before
\* its slot was released.
OrderlyEnd ==
  relay = "ended" /\ ~lost /\ gaveUp = {} =>
    lock = "free" /\ context \in {"none", "disposed"}

\* The end of a connection runs its hooks in order and lets everything go.
EndsInOrder == EndHooksRun /\ OrderlyEnd

\* A client hears the answers to what it sent, and its end is an orderly one.
PipelineSound == OnlyOwnAnswers /\ EndsInOrder

\* A start that has begun comes to an end whatever the browser answers, and a
\* session that is closed releases its slot whatever its hooks wait for (it runs
\* until it has ended, and once closed it stays closed, so that it is enough to
\* say that it does not run for good).
StartSettles == []<>(relay \notin {"dialing", "starting"})
SessionSettles == []<>(closed => relay # "running")
PipelineSettles == StartSettles /\ SessionSettles

\* When the provider drops, lock and slot come back
\* (tests/integration/profile-failure-injection.test.ts:257).
ProviderDropReleases == Served /\ lost ~> lock = "free" /\ relay = "ended"
=============================================================================
