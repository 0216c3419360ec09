------------------------------ MODULE NodeRelay ------------------------------
(***************************************************************************)
(* NodeTcpPipeTransport.relay under pipeToProvider: one client socket, the *)
(* upstream sockets of the attempts the caller makes with it one after the *)
(* other, and the session the tracker keeps.  An action is one callback of *)
(* the event loop; a destroyed socket emits "close" in a later one.        *)
(*                                                                         *)
(* A client that leaves sends a FIN; its socket stays half-open (as the    *)
(* HTTP server creates it), and nothing happens before the pipe reads it.  *)
(***************************************************************************)
EXTENDS Naturals

CONSTANTS
  Attempts,    \* how many providers tryConnect has to try
  Silent,      \* upstreams that accept TCP and never answer the upgrade
  EarlyClose   \* upstreams that may close before they answer it

Tries == 1..Attempts

ASSUME RelayAssumption == Attempts \in Nat /\ Silent \cup EarlyClose \subseteq Tries

VARIABLES
  clientSocket,      \* "open", "fin" (the peer sent a FIN), "destroyed", "closed" (emitted)
  providerSocket,    \* upstream[a]: the providerSocket of attempt a
  timer,       \* timer[a]: the connect timer is armed
  result,      \* result[a]: what the promise of attempt a resolved to
  upgraded,    \* upgraded[a]: gotUpgrade
  cleaned,     \* cleaned[a]: cleanedUp
  closings,    \* closings[a]: the calls of opts.onClose
  tracked,     \* the tracker has the session
  closer       \* and its closer has not been used

relayVars == <<clientSocket, providerSocket, timer, result, upgraded, cleaned, closings, tracked, closer>>

Usable == {"connecting", "waiting", "open", "ended"}

RelayTypeOK ==
  /\ clientSocket \in {"open", "fin", "destroyed", "closed"}
  /\ providerSocket \in [Tries -> {"none", "destroyed", "closed"} \cup Usable]
  /\ timer \in [Tries -> BOOLEAN]
  /\ result \in [Tries -> {"none", "pending", "failed", "connected"}]
  /\ upgraded \in [Tries -> BOOLEAN]
  /\ cleaned \in [Tries -> BOOLEAN]
  /\ closings \in [Tries -> Nat]
  /\ tracked \in BOOLEAN /\ closer \in BOOLEAN

RelayInit ==
  /\ clientSocket = "open"
  /\ providerSocket = [a \in Tries |-> "none"]
  /\ timer = [a \in Tries |-> FALSE]
  /\ result = [a \in Tries |-> "none"]
  /\ upgraded = [a \in Tries |-> FALSE]
  /\ cleaned = [a \in Tries |-> FALSE]
  /\ closings = [a \in Tries |-> 0]
  /\ tracked = FALSE /\ closer = FALSE

-----------------------------------------------------------------------------

Destroyed(socket) == IF socket = "closed" THEN "closed" ELSE "destroyed"

\* Resolving a promise a second time has no effect.
Resolve(a, value) ==
  result' = IF result[a] = "pending" THEN [result EXCEPT ![a] = value] ELSE result

\* Mutant: the upstream socket is left to its peer.
EmitCloseClientOnly(a, cl, up) ==
  /\ cleaned' = [cleaned EXCEPT ![a] = TRUE]
  /\ closings' = [closings EXCEPT ![a] = IF cleaned[a] THEN @ ELSE @ + 1]
  /\ clientSocket' = Destroyed(cl)
  /\ providerSocket' = [providerSocket EXCEPT ![a] = up]
  /\ tracked' = FALSE /\ closer' = FALSE

\* emitPostUpgradeClose and the caller's onTerminalClose, with the sockets in
\* states cl and up after the event that led here.
EmitClose(a, cl, up) ==
  IF cleaned[a]
  THEN /\ clientSocket' = cl
       /\ providerSocket' = [providerSocket EXCEPT ![a] = up]
       /\ UNCHANGED <<cleaned, closings, tracked, closer>>
  ELSE /\ cleaned' = [cleaned EXCEPT ![a] = TRUE]
       /\ closings' = [closings EXCEPT ![a] = @ + 1]
       /\ clientSocket' = Destroyed(cl)
       /\ providerSocket' = [providerSocket EXCEPT ![a] = Destroyed(up)]
       /\ tracked' = FALSE /\ closer' = FALSE

-----------------------------------------------------------------------------
(* Before the upgrade. *)

\* Mutant: the next provider is tried while the last attempt is in flight.
StartEager(a) ==
  /\ result[a] = "none"
  /\ \A b \in 1..(a - 1) : result[b] \in {"failed", "pending"}
  /\ providerSocket' = [providerSocket EXCEPT ![a] = "connecting"]
  /\ timer' = [timer EXCEPT ![a] = TRUE]
  /\ result' = [result EXCEPT ![a] = "pending"]
  /\ UNCHANGED <<clientSocket, upgraded, cleaned, closings, tracked, closer>>

\* The caller goes on to the next provider when an attempt failed.
Start(a) ==
  /\ result[a] = "none"
  /\ \A b \in 1..(a - 1) : result[b] = "failed"
  /\ providerSocket' = [providerSocket EXCEPT ![a] = "connecting"]
  /\ timer' = [timer EXCEPT ![a] = TRUE]
  /\ result' = [result EXCEPT ![a] = "pending"]
  /\ UNCHANGED <<clientSocket, upgraded, cleaned, closings, tracked, closer>>

Timeout(a) ==
  /\ timer[a]
  /\ timer' = [timer EXCEPT ![a] = FALSE]
  /\ IF upgraded[a] THEN UNCHANGED <<providerSocket, result>>
     ELSE /\ providerSocket' = [providerSocket EXCEPT ![a] = Destroyed(@)]
          /\ Resolve(a, "failed")
  /\ UNCHANGED <<clientSocket, upgraded, cleaned, closings, tracked, closer>>

\* onConnect clears the timer and writes the upgrade request.
Connect(a) ==
  /\ providerSocket[a] = "connecting"
  /\ providerSocket' = [providerSocket EXCEPT ![a] = "waiting"]
  /\ timer' = [timer EXCEPT ![a] = FALSE]
  /\ UNCHANGED <<clientSocket, result, upgraded, cleaned, closings, tracked, closer>>

\* The response is a 101: onUpgrade creates the session, the client gets the
\* response, and from here on the relay owns the client's socket.
UpgradeAnswered(a) ==
  /\ providerSocket[a] = "waiting" /\ a \notin Silent
  /\ providerSocket' = [providerSocket EXCEPT ![a] = "open"]
  /\ upgraded' = [upgraded EXCEPT ![a] = TRUE]
  /\ tracked' = TRUE /\ closer' = TRUE
  /\ Resolve(a, "connected")
  /\ UNCHANGED <<clientSocket, timer, cleaned, closings>>

\* The response is not a 101.
Reject(a) ==
  /\ providerSocket[a] = "waiting" /\ a \notin Silent
  /\ providerSocket' = [providerSocket EXCEPT ![a] = "destroyed"]
  /\ Resolve(a, "failed")
  /\ UNCHANGED <<clientSocket, timer, upgraded, cleaned, closings, tracked, closer>>

-----------------------------------------------------------------------------
(* Events of the sockets. *)

\* "error" of the upstream socket, which destroys itself with it.
UpstreamError(a) ==
  /\ providerSocket[a] \in Usable
  /\ timer' = [timer EXCEPT ![a] = FALSE]
  /\ IF upgraded[a]
     THEN EmitClose(a, clientSocket, "destroyed") /\ UNCHANGED result
     ELSE /\ providerSocket' = [providerSocket EXCEPT ![a] = "destroyed"]
          /\ Resolve(a, "failed")
          /\ UNCHANGED <<clientSocket, cleaned, closings, tracked, closer>>
  /\ UNCHANGED upgraded

\* The upstream's peer closes: the socket ends its own side and is destroyed.
\* The pipe ends the client, which is destroyed when its peer had left as well.
UpstreamFin(a) ==
  /\ \/ providerSocket[a] \in {"open", "ended"}
     \/ providerSocket[a] = "waiting" /\ a \in EarlyClose
  /\ providerSocket' = [providerSocket EXCEPT ![a] = "destroyed"]
  /\ clientSocket' = IF providerSocket[a] = "ended" THEN Destroyed(clientSocket) ELSE clientSocket
  /\ UNCHANGED <<timer, result, upgraded, cleaned, closings, tracked, closer>>

\* "close" of the upstream; before the upgrade nobody listens for it.
UpstreamClose(a) ==
  /\ providerSocket[a] = "destroyed"
  /\ IF upgraded[a] THEN EmitClose(a, clientSocket, "closed")
     ELSE /\ providerSocket' = [providerSocket EXCEPT ![a] = "closed"]
          /\ UNCHANGED <<clientSocket, cleaned, closings, tracked, closer>>
  /\ UNCHANGED <<timer, result, upgraded>>

ClientFin ==
  /\ clientSocket = "open"
  /\ clientSocket' = "fin"
  /\ UNCHANGED <<providerSocket, timer, result, upgraded, cleaned, closings, tracked, closer>>

\* The pipe reads the client's FIN and ends the upstream socket.
PipeEnd(a) ==
  /\ providerSocket[a] = "open" /\ clientSocket = "fin"
  /\ providerSocket' = [providerSocket EXCEPT ![a] = "ended"]
  /\ UNCHANGED <<clientSocket, timer, result, upgraded, cleaned, closings, tracked, closer>>

\* "error" of the client's socket, which destroys itself with it.
ClientError(a) ==
  /\ upgraded[a] /\ clientSocket \in {"open", "fin"}
  /\ EmitClose(a, "destroyed", providerSocket[a])
  /\ UNCHANGED <<timer, result, upgraded>>

\* "close" of the client's socket.
ClientClose(a) ==
  /\ upgraded[a] /\ clientSocket = "destroyed"
  /\ EmitClose(a, "closed", providerSocket[a])
  /\ UNCHANGED <<timer, result, upgraded>>

\* The idle check of the gateway ends the session through its closer, once.
IdleCheck ==
  /\ tracked /\ closer
  /\ closer' = FALSE
  /\ clientSocket' = Destroyed(clientSocket)
  /\ UNCHANGED <<providerSocket, timer, result, upgraded, cleaned, closings, tracked>>

Attempt(a) ==
  \/ Start(a) \/ Timeout(a) \/ Connect(a) \/ UpgradeAnswered(a) \/ Reject(a)
  \/ UpstreamError(a) \/ UpstreamFin(a) \/ UpstreamClose(a)
  \/ PipeEnd(a) \/ ClientError(a) \/ ClientClose(a)

RelayNext == ClientFin \/ IdleCheck \/ \E a \in Tries : Attempt(a)

RelaySpec == RelayInit /\ [][RelayNext]_relayVars

\* The caller, the timers and the close events run; an upstream that is not
\* silent answers, and one whose connection was ended closes it.
RelayProgress ==
  \E a \in Tries :
    \/ Start(a) \/ Timeout(a) \/ PipeEnd(a) \/ UpgradeAnswered(a) \/ Reject(a)
    \/ UpstreamClose(a) \/ ClientClose(a)
    \/ providerSocket[a] = "ended" /\ UpstreamFin(a)

RelayFairSpec == RelaySpec /\ WF_relayVars(RelayProgress)

-----------------------------------------------------------------------------
(* Properties. *)

\* onClose runs at most once per relay, whatever order the errors and closes of
\* the two sockets arrive in, and only for a relay that came up.
ClosesOnce ==
  \A a \in Tries : closings[a] <= 1 /\ (closings[a] = 1 => result[a] = "connected")

\* The two sockets of a relay end together: neither outlives its onClose.
SocketsEndTogether ==
  \A a \in Tries : closings[a] > 0 =>
    clientSocket \notin {"open", "fin"} /\ providerSocket[a] \notin Usable

\* A failed attempt leaves the client to the caller, who tries the next provider
\* with it or answers with an error.
CallerKeepsClient ==
  (\A a \in Tries : result[a] # "connected") => clientSocket \in {"open", "fin"}

\* The tracker has the session exactly as long as a relay is up.
TrackedWhileUp ==
  tracked <=> \E a \in Tries : result[a] = "connected" /\ closings[a] = 0

\* Client, upstreams and tracker agree about which relay is up.
SocketsAgree == CallerKeepsClient /\ SocketsEndTogether /\ TrackedWhileUp

\* Seen through its promise and its callbacks, the transport is RelayContract.tla.
Phase(a) ==
  IF closings[a] > 0 THEN "closed"
  ELSE IF result[a] = "connected" THEN "up"
  ELSE IF result[a] = "none" THEN "idle"
  ELSE result[a]

Contract == INSTANCE RelayContract WITH phase <- [a \in Tries |-> Phase(a)]
ImplementsContract == Contract!Spec

\* Every attempt settles within its timeout, so that the caller can go on.
AttemptsSettle == \A a \in Tries : (result[a] = "pending") ~> (result[a] # "pending")

\* An attempt settles when its upstream answers, fails or cannot be reached; only
\* one that goes silent, or closes without an error, can leave it pending.
AnsweredAttemptsSettle ==
  \A a \in Tries \ (Silent \cup EarlyClose) : []<>(result[a] # "pending")

\* A client that leaves, or that the idle check drops, takes its session down:
\* neither socket nor closer comes back while it is tracked.
DepartureEndsSession == []<>(tracked => clientSocket = "open" /\ closer)

\* An attempt the upstream answers is settled, and a session whose client is
\* gone is taken down.
RelaysSettle == AnsweredAttemptsSettle /\ DepartureEndsSession
=============================================================================
