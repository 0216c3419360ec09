---------------------------- MODULE ServingProofs ----------------------------
(***************************************************************************)
(* Theorems about what serves a client, for every value of the constants.  *)
(* NodeRelay: onClose runs at most once, the transport implements          *)
(* RelayContract, and its sockets agree.  LiveView: a view carries out its *)
(* input in order and lets go of its profile, its tab and its viewer.      *)
(* Pipeline: a client hears only what it asked, and the end hooks run in   *)
(* order and give everything back.  RestRequests: a request works on the   *)
(* profile alone and once, and its answer says what became of it.          *)
(* ServerLife: the shutdown ends what it owns and waits for what it has    *)
(* to.  Connect: a profile travels one way, and is written by those only   *)
(* that may.  The last theorem puts the parts that ServedSound is about    *)
(* together, as the run of MCServing explores them.                        *)
(***************************************************************************)
EXTENDS MCServing, TLAPS, SequenceTheorems, FiniteSetTheorems

----------------------------------------------------------------------------
(* The relay *)

\* What ties the flags of an attempt together.  The timer is armed only while
\* the socket connects, and a socket that can still be upgraded has a pending
\* promise: that is why no event resolves or closes anything twice.
Attuned(a) ==
  /\ upgraded[a] <=> result[a] = "connected"
  /\ closings[a] = IF cleaned[a] THEN 1 ELSE 0
  /\ cleaned[a] => upgraded[a]
  /\ result[a] = "none" <=> providerSocket[a] = "none"
  /\ providerSocket[a] \in {"connecting", "waiting"} => result[a] = "pending"
  /\ providerSocket[a] \in {"open", "ended"} => upgraded[a]
  /\ timer[a] => providerSocket[a] = "connecting"

OneByOne ==
  \A a \in Tries : result[a] # "none" => \A b \in 1..(a - 1) : result[b] = "failed"

IInv == RelayTypeOK /\ (\A a \in Tries : Attuned(a)) /\ OneByOne

\* The invariant holds before the first attempt.
LEMMA InitIInv == RelayInit => IInv
<1> SUFFICES ASSUME RelayInit PROVE IInv
  OBVIOUS
<1>1. RelayTypeOK
  BY DEF RelayInit, RelayTypeOK
<1>2. \A a \in Tries : Attuned(a)
  BY DEF RelayInit, Attuned
<1>3. OneByOne
  BY DEF RelayInit, OneByOne
<1> QED BY <1>1, <1>2, <1>3 DEF IInv

\* A step of attempt a leaves the other attempts alone.
LEMMA OthersAlone ==
  ASSUME IInv, NEW a \in Tries, Attempt(a)
  PROVE  \A b \in Tries \ {a} :
           /\ providerSocket'[b] = providerSocket[b] /\ timer'[b] = timer[b]
           /\ result'[b] = result[b] /\ upgraded'[b] = upgraded[b]
           /\ cleaned'[b] = cleaned[b] /\ closings'[b] = closings[b]
BY DEF IInv, RelayTypeOK, Attempt, Start, Timeout, Connect, UpgradeAnswered, Reject, UpstreamError,
       UpstreamFin, UpstreamClose, PipeEnd, ClientError, ClientClose, EmitClose, Resolve

\* What emitPostUpgradeClose does to attempt a: once it closes, then nothing.
LEMMA EmitCloseEffect ==
  ASSUME IInv, NEW a \in Tries,
         NEW cl \in {"open", "fin", "destroyed", "closed"},
         NEW up \in {"none", "destroyed", "closed"} \cup Usable,
         EmitClose(a, cl, up)
  PROVE  /\ clientSocket' \in {"open", "fin", "destroyed", "closed"}
         /\ providerSocket' \in [Tries -> {"none", "destroyed", "closed"} \cup Usable]
         /\ cleaned' \in [Tries -> BOOLEAN] /\ closings' \in [Tries -> Nat]
         /\ tracked' \in BOOLEAN /\ closer' \in BOOLEAN
         /\ providerSocket'[a] \in {up, "destroyed", "closed"}
         /\ \/ cleaned[a] /\ cleaned'[a] /\ closings'[a] = closings[a]
            \/ ~cleaned[a] /\ cleaned'[a] /\ closings'[a] = closings[a] + 1
<1>1. CASE cleaned[a]
  BY <1>1 DEF EmitClose, IInv, RelayTypeOK, Attuned
<1>2. CASE ~cleaned[a]
  <2>1. Destroyed(cl) \in {"destroyed", "closed"} /\ Destroyed(up) \in {"destroyed", "closed"}
    BY DEF Destroyed
  <2>2. /\ cleaned' = [cleaned EXCEPT ![a] = TRUE]
        /\ closings' = [closings EXCEPT ![a] = @ + 1]
        /\ clientSocket' = Destroyed(cl) /\ providerSocket' = [providerSocket EXCEPT ![a] = Destroyed(up)]
        /\ tracked' = FALSE /\ closer' = FALSE
    BY <1>2 DEF EmitClose
  <2>3. /\ providerSocket \in [Tries -> {"none", "destroyed", "closed"} \cup Usable]
        /\ cleaned \in [Tries -> BOOLEAN] /\ closings \in [Tries -> Nat]
    BY DEF IInv, RelayTypeOK
  <2>4. /\ providerSocket' \in [Tries -> {"none", "destroyed", "closed"} \cup Usable]
        /\ providerSocket'[a] \in {"destroyed", "closed"}
    BY <2>1, <2>2, <2>3
  <2>5. /\ closings' \in [Tries -> Nat] /\ closings'[a] = closings[a] + 1
        /\ cleaned' \in [Tries -> BOOLEAN] /\ cleaned'[a]
    BY <2>2, <2>3
  <2> QED BY <1>2, <2>1, <2>2, <2>4, <2>5
<1> QED BY <1>1, <1>2

\* The types survive a step of an attempt.
LEMMA AttemptKeepsTypes ==
  ASSUME IInv, NEW a \in Tries, Attempt(a)
  PROVE  RelayTypeOK'
<1>1. result' \in [Tries -> {"none", "pending", "failed", "connected"}]
      /\ timer' \in [Tries -> BOOLEAN] /\ upgraded' \in [Tries -> BOOLEAN]
  BY DEF IInv, RelayTypeOK, Attempt, Start, Timeout, Connect, UpgradeAnswered, Reject, UpstreamError,
         UpstreamFin, UpstreamClose, PipeEnd, ClientError, ClientClose, Resolve
<1>2. CASE \E cl \in {clientSocket, "destroyed", "closed"}, up \in {providerSocket[a], "destroyed", "closed"} :
             EmitClose(a, cl, up)
  <2>1. providerSocket[a] \in {"none", "destroyed", "closed"} \cup Usable
        /\ clientSocket \in {"open", "fin", "destroyed", "closed"}
    BY DEF IInv, RelayTypeOK
  <2> QED BY <1>1, <1>2, <2>1, EmitCloseEffect DEF RelayTypeOK
<1>3. CASE /\ UNCHANGED <<cleaned, closings>>
           /\ clientSocket' \in {clientSocket, Destroyed(clientSocket)}
           /\ tracked' \in BOOLEAN /\ closer' \in BOOLEAN
           /\ \/ providerSocket' = providerSocket
              \/ \E up \in {"connecting", "waiting", "open", "ended", "destroyed", "closed"} :
                   providerSocket' = [providerSocket EXCEPT ![a] = up]
  BY <1>1, <1>3 DEF IInv, RelayTypeOK, Destroyed, Usable
<1>4. \/ UpstreamError(a) \/ UpstreamClose(a) \/ ClientError(a) \/ ClientClose(a)
      \/ Start(a) \/ Timeout(a) \/ Connect(a) \/ UpgradeAnswered(a) \/ Reject(a)
      \/ UpstreamFin(a) \/ PipeEnd(a)
  BY DEF Attempt
<1>5. CASE UpstreamError(a) \/ UpstreamClose(a) \/ ClientError(a) \/ ClientClose(a)
  BY <1>2, <1>3, <1>5
  DEF UpstreamError, UpstreamClose, ClientError, ClientClose, IInv, RelayTypeOK
<1>6. CASE Start(a) \/ Timeout(a) \/ Connect(a) \/ UpgradeAnswered(a) \/ Reject(a)
           \/ UpstreamFin(a) \/ PipeEnd(a)
  BY <1>3, <1>6
  DEF Start, Timeout, Connect, UpgradeAnswered, Reject, UpstreamFin, PipeEnd, IInv, RelayTypeOK, Destroyed
<1> QED BY <1>4, <1>5, <1>6

\* So do its flags.
LEMMA AttemptKeepsAttuned ==
  ASSUME IInv, NEW a \in Tries, Attempt(a)
  PROVE  Attuned(a)'
<1> USE DEF IInv, RelayTypeOK, Attuned, Destroyed, Usable, EmitClose, Resolve
<1>1. CASE Start(a)
  BY <1>1 DEF Start
<1>2. CASE Timeout(a)
  BY <1>2 DEF Timeout
<1>3. CASE Connect(a) \/ PipeEnd(a)
  BY <1>3 DEF Connect, PipeEnd
<1>4. CASE UpgradeAnswered(a) \/ Reject(a)
  BY <1>4 DEF UpgradeAnswered, Reject
<1>5. CASE UpstreamError(a)
  BY <1>5 DEF UpstreamError
<1>6. CASE UpstreamFin(a)
  BY <1>6 DEF UpstreamFin
<1>7. CASE UpstreamClose(a)
  BY <1>7 DEF UpstreamClose
<1>8. CASE ClientError(a) \/ ClientClose(a)
  BY <1>8 DEF ClientError, ClientClose
<1> QED BY <1>1, <1>2, <1>3, <1>4, <1>5, <1>6, <1>7, <1>8 DEF Attempt

\* What a step of an attempt does to its promise and to the calls of onClose.
LEMMA AttemptMoves ==
  ASSUME IInv, NEW a \in Tries, Attempt(a)
  PROVE  \/ result'[a] = result[a] /\ closings'[a] = closings[a]
         \/ /\ result[a] = "none" /\ result'[a] = "pending"
            /\ closings'[a] = closings[a]
            /\ \A b \in 1..(a - 1) : result[b] = "failed"
         \/ /\ result[a] = "pending" /\ result'[a] \in {"failed", "connected"}
            /\ closings'[a] = closings[a]
         \/ /\ result[a] = "connected" /\ result'[a] = "connected"
            /\ closings[a] = 0 /\ closings'[a] = 1
<1> USE DEF Resolve
<1>1. Attuned(a) /\ RelayTypeOK
  BY DEF IInv
<1>2. CASE Start(a)
  BY <1>1, <1>2 DEF Start, RelayTypeOK
<1>3. CASE Timeout(a) \/ Connect(a) \/ PipeEnd(a) \/ UpstreamFin(a) \/ UpgradeAnswered(a) \/ Reject(a)
  BY <1>1, <1>3 DEF Timeout, Connect, PipeEnd, UpstreamFin, UpgradeAnswered, Reject, RelayTypeOK
<1>4. CASE UNCHANGED result /\ upgraded[a]
           /\ \E cl \in {clientSocket, "destroyed", "closed"},
                 up \in {providerSocket[a], "destroyed", "closed"} : EmitClose(a, cl, up)
  BY <1>1, <1>4, EmitCloseEffect DEF Attuned, RelayTypeOK
<1>5. CASE UpstreamError(a)
  BY <1>1, <1>4, <1>5 DEF UpstreamError, RelayTypeOK
<1>6. CASE UpstreamClose(a)
  BY <1>1, <1>4, <1>6 DEF UpstreamClose, RelayTypeOK
<1>7. CASE ClientError(a) \/ ClientClose(a)
  BY <1>1, <1>4, <1>7 DEF ClientError, ClientClose, RelayTypeOK
<1> QED BY <1>2, <1>3, <1>5, <1>6, <1>7 DEF Attempt

\* An attempt that failed stays failed, and only Start begins one.
LEMMA AttemptKeepsOrder ==
  ASSUME IInv, NEW a \in Tries, Attempt(a)
  PROVE  OneByOne'
<1>1. /\ result[a] = "failed" => result'[a] = "failed"
      /\ result[a] # "none" \/ (\A b \in 1..(a - 1) : result[b] = "failed")
         \/ result'[a] = "none"
  BY AttemptMoves
<1>2. \A b \in Tries \ {a} : result'[b] = result[b]
  BY OthersAlone
<1>3. ASSUME NEW c \in Tries, result'[c] # "none", NEW b \in 1..(c - 1)
      PROVE  result'[b] = "failed"
  <2>1. b \in Tries
    BY RelayAssumption DEF Tries
  <2>2. result[b] = "failed"
    BY <1>1, <1>2, <1>3 DEF IInv, OneByOne
  <2> QED BY <1>1, <1>2, <2>1, <2>2
<1> QED BY <1>3 DEF OneByOne

\* Every step preserves the invariant.
LEMMA StepKeepsIInv == IInv /\ [RelayNext]_relayVars => IInv'
<1> SUFFICES ASSUME IInv, [RelayNext]_relayVars PROVE IInv'
  OBVIOUS
<1>1. ASSUME NEW a \in Tries, Attempt(a) PROVE IInv'
  <2>1. ASSUME NEW b \in Tries PROVE Attuned(b)'
    <3>1. CASE b = a
      BY <1>1, <3>1, AttemptKeepsAttuned
    <3>2. CASE b # a
      BY <1>1, <3>2, OthersAlone DEF IInv, Attuned
    <3> QED BY <3>1, <3>2
  <2> QED BY <1>1, <2>1, AttemptKeepsTypes, AttemptKeepsOrder DEF IInv
<1>2. CASE ClientFin \/ IdleCheck
  <2>1. /\ UNCHANGED <<providerSocket, timer, result, upgraded, cleaned, closings, tracked>>
        /\ clientSocket' \in {"fin", Destroyed(clientSocket)} /\ closer' \in {closer, FALSE}
    BY <1>2 DEF ClientFin, IdleCheck
  <2>2. RelayTypeOK'
    BY <2>1 DEF IInv, RelayTypeOK, Destroyed
  <2>3. \A a \in Tries : Attuned(a)'
    BY <2>1 DEF IInv, Attuned
  <2>4. OneByOne'
    BY <2>1 DEF IInv, OneByOne
  <2> QED BY <2>2, <2>3, <2>4 DEF IInv
<1>3. CASE UNCHANGED relayVars
  BY <1>3 DEF relayVars, IInv, RelayTypeOK, Attuned, OneByOne
<1> QED BY <1>1, <1>2, <1>3 DEF RelayNext

\* onClose runs at most once per relay, and only when the relay came up.
THEOREM RelayClosesOnce == RelaySpec => []ClosesOnce
<1>1. IInv => ClosesOnce
  BY DEF IInv, Attuned, ClosesOnce
<1> QED BY <1>1, InitIInv, StepKeepsIInv, PTL DEF RelaySpec

\* The transport keeps the contract of core/transport.ts: its attempts fail or
\* come up once, one after the other, and at most one relay comes up and closes.
THEOREM RelayImplementsContract == RelaySpec => ImplementsContract
<1> DEFINE bar == [a \in Tries |-> Phase(a)]
<1>1. RelayInit => Contract!Init
  BY DEF RelayInit, Contract!Init, Phase, Tries
<1>2. ASSUME IInv, [RelayNext]_relayVars PROVE [Contract!Next]_bar
  <2>1. ASSUME NEW a \in Tries, Attempt(a) PROVE [Contract!Next]_bar
    <3>1. \A b \in Tries \ {a} : Phase(b)' = Phase(b)
      BY <2>1, OthersAlone, <1>2 DEF Phase
    <3>2. \/ Phase(a)' = Phase(a)
          \/ /\ Phase(a) = "idle" /\ Phase(a)' = "pending"
             /\ \A b \in 1..(a - 1) : Phase(b) = "failed"
          \/ Phase(a) = "pending" /\ Phase(a)' \in {"failed", "up"}
          \/ Phase(a) = "up" /\ Phase(a)' = "closed"
      <4>1. closings[a] \in {0, 1} /\ (closings[a] = 1 => result[a] = "connected")
        BY <1>2 DEF IInv, Attuned
      <4>2. \A b \in 1..(a - 1) : result[b] = "failed" => Phase(b) = "failed"
        <5> TAKE b \in 1..(a - 1)
        <5>1. b \in Tries
          BY RelayAssumption DEF Tries
        <5>2. closings[b] > 0 => result[b] = "connected"
          BY <1>2, <5>1 DEF IInv, Attuned
        <5> QED BY <5>2 DEF Phase
      <4> QED BY <1>2, <2>1, <4>1, <4>2, AttemptMoves DEF Phase
    <3>3. bar' = [bar EXCEPT ![a] = Phase(a)']
      BY <3>1
    <3>4. bar[a] = Phase(a) /\ \A b \in 1..(a - 1) : bar[b] = Phase(b)
      <4>1. \A b \in 1..(a - 1) : b \in Tries
        BY RelayAssumption DEF Tries
      <4> QED BY <4>1
    <3>5. CASE Phase(a)' = Phase(a)
      BY <3>1, <3>5
    <3>6. CASE Phase(a) = "idle"  /\ Phase(a)' = "pending"
               /\ \A b \in 1..(a - 1) : Phase(b) = "failed"
      <4>1. Contract!Begin(a)
        BY <3>3, <3>4, <3>6 DEF Contract!Begin, Contract!Move
      <4> QED BY <4>1 DEF Contract!Next, Tries
    <3>7. CASE \/ Phase(a) = "pending" /\ Phase(a)' \in {"failed", "up"}
               \/ Phase(a) = "up" /\ Phase(a)' = "closed"
      <4>1. \/ Contract!Move(a, "pending", "failed") \/ Contract!Move(a, "pending", "up")
            \/ Contract!Move(a, "up", "closed")
        BY <3>3, <3>4, <3>7 DEF Contract!Move
      <4> QED BY <4>1 DEF Contract!Next, Tries
    <3> QED BY <3>2, <3>5, <3>6, <3>7
  <2>2. CASE ClientFin \/ IdleCheck \/ UNCHANGED relayVars
    BY <2>2 DEF ClientFin, IdleCheck, relayVars, Phase
  <2> QED BY <1>2, <2>1, <2>2 DEF RelayNext
<1> QED BY <1>1, <1>2, InitIInv, StepKeepsIInv, PTL DEF RelaySpec, ImplementsContract, Contract!Spec

\* Of two attempts at most one has come up.
LEMMA OneConnected ==
  ASSUME IInv, NEW a \in Tries, NEW b \in Tries,
         result[a] = "connected", result[b] = "connected"
  PROVE  a = b
<1>1. a \in Nat /\ b \in Nat /\ a >= 1 /\ b >= 1
  BY RelayAssumption DEF Tries
<1>2. CASE a < b
  <2>1. a \in 1..(b - 1)
    BY <1>1, <1>2
  <2> QED BY <2>1 DEF IInv, OneByOne
<1>3. CASE b < a
  <2>1. b \in 1..(a - 1)
    BY <1>1, <1>3
  <2> QED BY <2>1 DEF IInv, OneByOne
<1> QED BY <1>1, <1>2, <1>3

\* emitPostUpgradeClose of the relay that is up takes down both sockets and the
\* session; called again it changes nothing but the state of the socket it is told of.
LEMMA EmitCloseKeepsAgreement ==
  ASSUME IInv, SocketsAgree, NEW a \in Tries, upgraded[a],
         NEW cl \in {clientSocket, "destroyed", "closed"},
         NEW up \in {providerSocket[a], "destroyed", "closed"},
         EmitClose(a, cl, up), result' = result
  PROVE  SocketsAgree'
<1>1. /\ result[a] = "connected" /\ closings[a] = (IF cleaned[a] THEN 1 ELSE 0)
      /\ RelayTypeOK
  BY DEF IInv, Attuned
<1>2. \A b \in Tries \ {a} : closings[b] = 0 /\ result[b] # "connected"
  <2> TAKE b \in Tries \ {a}
  <2>1. result[b] # "connected"
    BY <1>1, OneConnected
  <2> QED BY <2>1 DEF IInv, Attuned
<1>3. CallerKeepsClient'
  BY <1>1 DEF CallerKeepsClient
<1>4. CASE cleaned[a]
  <2>1. /\ clientSocket' = cl /\ providerSocket'[a] = up
        /\ closings' = closings /\ tracked' = tracked
    BY <1>1, <1>4 DEF EmitClose, RelayTypeOK
  <2>2. clientSocket \notin {"open", "fin"} /\ providerSocket[a] \notin Usable
    BY <1>1, <1>4 DEF SocketsAgree, SocketsEndTogether
  <2>3. SocketsEndTogether'
    BY <1>2, <2>1, <2>2 DEF SocketsEndTogether, Usable
  <2>4. TrackedWhileUp'
    BY <2>1 DEF SocketsAgree, TrackedWhileUp
  <2> QED BY <1>3, <2>3, <2>4 DEF SocketsAgree
<1>5. CASE ~cleaned[a]
  <2>1. /\ clientSocket' = Destroyed(cl) /\ providerSocket'[a] = Destroyed(up)
        /\ closings'[a] = 1 /\ tracked' = FALSE
        /\ \A b \in Tries \ {a} : closings'[b] = closings[b]
    BY <1>1, <1>5 DEF EmitClose, RelayTypeOK
  <2>2. SocketsEndTogether'
    BY <1>2, <2>1 DEF SocketsEndTogether, Destroyed, Usable
  <2>3. TrackedWhileUp'
    BY <1>2, <2>1 DEF TrackedWhileUp
  <2> QED BY <1>3, <2>2, <2>3 DEF SocketsAgree
<1> QED BY <1>4, <1>5

\* Every callback of an attempt keeps the client, the upstreams and the tracker in
\* agreement.
LEMMA AttemptKeepsAgreement ==
  ASSUME IInv, SocketsAgree, NEW a \in Tries, Attempt(a)
  PROVE  SocketsAgree'
<1>1. RelayTypeOK /\ Attuned(a)
  BY DEF IInv
<1>2. CASE /\ UNCHANGED <<clientSocket, closings, tracked>>
           /\ \A b \in Tries : result'[b] = "connected" <=> result[b] = "connected"
           /\ \A b \in Tries : closings[b] > 0 => providerSocket'[b] \notin Usable
  <2>1. CallerKeepsClient' /\ SocketsEndTogether'
    BY <1>2 DEF SocketsAgree, CallerKeepsClient, SocketsEndTogether
  <2>2. TrackedWhileUp'
    BY <1>2 DEF SocketsAgree, TrackedWhileUp
  <2> QED BY <2>1, <2>2 DEF SocketsAgree
<1>3. closings[a] > 0 => /\ cleaned[a] /\ upgraded[a] /\ result[a] = "connected"
                         /\ providerSocket[a] \in {"destroyed", "closed"}
  BY <1>1 DEF Attuned, RelayTypeOK, SocketsAgree, SocketsEndTogether
<1>4. CASE Start(a) \/ Timeout(a) \/ Connect(a) \/ Reject(a) \/ PipeEnd(a)
  <2>1. UNCHANGED <<clientSocket, closings, tracked>>
    BY <1>4 DEF Start, Timeout, Connect, Reject, PipeEnd
  <2>2. \A b \in Tries : result'[b] = "connected" <=> result[b] = "connected"
    BY <1>1, <1>4 DEF Start, Timeout, Connect, Reject, PipeEnd, Resolve, RelayTypeOK, Attuned
  <2>3. ASSUME NEW b \in Tries, closings[b] > 0 PROVE providerSocket'[b] \notin Usable
    <3>1. CASE b # a
      BY <2>3, <3>1, OthersAlone DEF SocketsAgree, SocketsEndTogether
    <3>2. CASE b = a
      BY <1>1, <1>3, <1>4, <2>3, <3>2
      DEF Start, Timeout, Connect, Reject, PipeEnd, Destroyed, Usable, RelayTypeOK, Attuned
    <3> QED BY <3>1, <3>2
  <2> QED BY <1>2, <2>1, <2>2, <2>3
<1>5. CASE UpgradeAnswered(a)
  <2>1. /\ result'[a] = "connected" /\ closings[a] = 0 /\ closings' = closings
        /\ tracked' = TRUE /\ clientSocket' = clientSocket
        /\ \A b \in Tries \ {a} : providerSocket'[b] = providerSocket[b]
    BY <1>1, <1>3, <1>5 DEF UpgradeAnswered, Resolve, RelayTypeOK, Attuned
  <2>2. CallerKeepsClient' /\ TrackedWhileUp'
    BY <2>1 DEF CallerKeepsClient, TrackedWhileUp
  <2>3. SocketsEndTogether'
    BY <2>1 DEF SocketsAgree, SocketsEndTogether
  <2> QED BY <2>2, <2>3 DEF SocketsAgree
<1>6. CASE UpstreamFin(a)
  <2>1. /\ UNCHANGED <<result, closings, tracked>>
        /\ clientSocket' \in {clientSocket, Destroyed(clientSocket)}
        /\ providerSocket'[a] = "destroyed"
        /\ \A b \in Tries \ {a} : providerSocket'[b] = providerSocket[b]
    BY <1>1, <1>6 DEF UpstreamFin, RelayTypeOK
  <2>2. clientSocket' # clientSocket => result[a] = "connected"
    BY <1>1, <1>6 DEF UpstreamFin, Attuned
  <2>3. CallerKeepsClient'
    BY <2>1, <2>2 DEF SocketsAgree, CallerKeepsClient
  <2>4. SocketsEndTogether'
    BY <2>1 DEF SocketsAgree, SocketsEndTogether, Destroyed, Usable
  <2>5. TrackedWhileUp'
    BY <2>1 DEF SocketsAgree, TrackedWhileUp
  <2> QED BY <2>3, <2>4, <2>5 DEF SocketsAgree
<1>7. CASE UpstreamError(a)
  <2>1. CASE upgraded[a]
    BY <1>7, <2>1, EmitCloseKeepsAgreement DEF UpstreamError
  <2>2. CASE ~upgraded[a]
    <3>1. /\ UNCHANGED <<clientSocket, closings, tracked>>
          /\ \A b \in Tries : result'[b] = "connected" <=> result[b] = "connected"
          /\ providerSocket'[a] = "destroyed"
      BY <1>1, <1>7, <2>2 DEF UpstreamError, Resolve, RelayTypeOK
    <3>2. \A b \in Tries \ {a} : providerSocket'[b] = providerSocket[b]
      BY OthersAlone
    <3> QED BY <1>2, <3>1, <3>2 DEF SocketsAgree, SocketsEndTogether, Usable
  <2> QED BY <2>1, <2>2
<1>8. CASE UpstreamClose(a)
  <2>1. CASE upgraded[a]
    BY <1>8, <2>1, EmitCloseKeepsAgreement DEF UpstreamClose
  <2>2. CASE ~upgraded[a]
    <3>1. /\ UNCHANGED <<clientSocket, closings, tracked, result>>
          /\ providerSocket'[a] = "closed"
      BY <1>1, <1>8, <2>2 DEF UpstreamClose, RelayTypeOK
    <3>2. \A b \in Tries \ {a} : providerSocket'[b] = providerSocket[b]
      BY OthersAlone
    <3> QED BY <1>2, <3>1, <3>2 DEF SocketsAgree, SocketsEndTogether, Usable
  <2> QED BY <2>1, <2>2
<1>9. CASE ClientError(a) \/ ClientClose(a)
  BY <1>9, EmitCloseKeepsAgreement DEF ClientError, ClientClose
<1> QED BY <1>4, <1>5, <1>6, <1>7, <1>8, <1>9 DEF Attempt

\* The client's socket, the upstream sockets and the tracker agree about which relay is
\* up, for any number of attempts, any upstreams and any order of errors and closes:
\* the caller keeps the client while no attempt came up, the two sockets of a relay end
\* together, and the tracker has the session exactly while a relay is up.
THEOREM RelaySocketsAgree == RelaySpec => []SocketsAgree
<1>1. RelayInit => SocketsAgree
  BY DEF RelayInit, SocketsAgree, CallerKeepsClient, SocketsEndTogether, TrackedWhileUp
<1>2. ASSUME IInv, SocketsAgree, [RelayNext]_relayVars PROVE SocketsAgree'
  <2>1. ASSUME NEW a \in Tries, Attempt(a) PROVE SocketsAgree'
    BY <1>2, <2>1, AttemptKeepsAgreement
  <2>2. CASE ClientFin
    BY <1>2, <2>2
    DEF ClientFin, SocketsAgree, CallerKeepsClient, SocketsEndTogether, TrackedWhileUp
  <2>3. CASE IdleCheck
    <3>1. /\ tracked /\ clientSocket' = Destroyed(clientSocket)
          /\ UNCHANGED <<providerSocket, result, closings, tracked>>
      BY <2>3 DEF IdleCheck
    <3>2. \E a \in Tries : result[a] = "connected"
      BY <1>2, <3>1 DEF SocketsAgree, TrackedWhileUp
    <3> QED BY <1>2, <3>1, <3>2
            DEF SocketsAgree, CallerKeepsClient, SocketsEndTogether, TrackedWhileUp, Destroyed
  <2>4. CASE UNCHANGED relayVars
    BY <1>2, <2>4
    DEF relayVars, SocketsAgree, CallerKeepsClient, SocketsEndTogether, TrackedWhileUp
  <2> QED BY <1>2, <2>1, <2>2, <2>3, <2>4 DEF RelayNext
<1>3. IInv /\ SocketsAgree /\ [RelayNext]_relayVars => IInv' /\ SocketsAgree'
  BY <1>2, StepKeepsIInv
<1> QED BY <1>1, <1>3, InitIInv, PTL DEF RelaySpec

----------------------------------------------------------------------------
(* The live view *)

\* Where the viewer's messages are: before the bridge listens all are in the
\* early buffer, until every plugin has started the others are held back.
Buffers ==
  /\ ~listening => heldBack = << >>
  /\ listening => early = << >>
  /\ live \notin {"running", "ended"} => performed = << >>
  /\ live \in {"running", "ended"} => heldBack = << >> /\ listening

\* How far the start is.
StartFollows ==
  /\ listening <=> step > Len(BridgeStart)
  /\ live \in {"idle", "resolving", "acquiring", "accepting", "dialing"} => step = 0 /\ answer = "none"
  /\ live = "starting" => step \in 1..Len(StartProgram)
  /\ live \in {"running", "ended"} => step = Len(StartProgram) + 1
  /\ live = "starting" /\ ~over /\ (step > 1 \/ answer = "done") => tab = "open"
  /\ live = "starting" /\ ~over /\ wants = "profile" /\ (step > 9 \/ (step = 9 /\ answer = "done")) =>
       jar \in {"own", "mixed"}

\* What the handler and the view hold meanwhile.
ViewHolds ==
  /\ live \in {"idle", "resolving", "acquiring", "accepting", "stranded"} => viewer \in {"http", "gone"}
  /\ live \in {"idle", "resolving", "acquiring"} => liveLock = "none"
  /\ live = "acquiring" \/ liveLock = "held" \/ endStep = "profile" => wants = "profile"
  /\ live \in {"idle", "resolving", "acquiring", "accepting", "dialing", "stranded"} => cdp = "none" /\ ~over
  /\ live = "starting" /\ ~over => cdp = "open"
  /\ live = "refused" => cdp # "open"

\* The way a view that runs ends.
EndFollows ==
  /\ ~over => endStep = "none" /\ saved = "none"
  /\ live = "ended" => endStep = "finished"
  /\ live = "running" =>
       /\ ~over <=> endStep = "none"
       /\ endStep # "finished"
       /\ ~dropped => cdp = "open"
       /\ endStep \in {"none", "profile", "bridge"} => tab = "open"
       /\ wants = "profile" => jar \in {"own", "mixed"}
       /\ endStep \in {"bridge", "finish"} /\ leftBehind = {} => liveLock # "held"
       /\ endStep = "finish" => viewer # "open" /\ (~dropped => tab = "closed")
       /\ saved # "foreign"

ViewInv ==
  LiveTypeOK /\ Buffers /\ StartFollows /\ ViewHolds /\ EndFollows
  /\ InputInOrder /\ InputAfterLoad /\ ViewLetsGo

\* The commands that matter in the start.
LEMMA ProgramIs ==
  /\ Len(BridgeStart) = 6
  /\ Len(StartProgram) = IF wants = "profile" THEN 10 ELSE 6
  /\ StartProgram[1] = "createTarget"
  /\ wants = "profile" => StartProgram[9] = "set" /\ StartProgram[10] = "mark"
  /\ ~Tolerated("createTarget") /\ ~Tolerated("set")
<1> DEFINE C == {"createTarget", "attach", "enable", "version", "viewport", "cast",
                 "probe", "clear", "set", "mark"}
<1>1. BridgeStart \in Seq(C) /\ ProfileLoad \in Seq(C)
  <2>1. BridgeStart \in Seq(C)
    BY DEF BridgeStart
  <2>2. ProfileLoad \in Seq(C)
    BY DEF ProfileLoad
  <2> QED BY <2>1, <2>2
<1>4. Len(BridgeStart) = 6 /\ BridgeStart[1] = "createTarget"
  BY DEF BridgeStart
<1>5. Len(ProfileLoad) = 4 /\ ProfileLoad[3] = "set" /\ ProfileLoad[4] = "mark"
  BY DEF ProfileLoad
<1> HIDE DEF C
<1>2. /\ Len(BridgeStart \o ProfileLoad) = 10
      /\ (BridgeStart \o ProfileLoad)[1] = "createTarget"
      /\ (BridgeStart \o ProfileLoad)[9] = "set" /\ (BridgeStart \o ProfileLoad)[10] = "mark"
  <2>1. /\ Len(BridgeStart \o ProfileLoad) = 6 + 4
        /\ \A i \in 1..(6 + 4) : (BridgeStart \o ProfileLoad)[i] =
                                   IF i <= 6 THEN BridgeStart[i] ELSE ProfileLoad[i - 6]
    <3>1. /\ Len(BridgeStart \o ProfileLoad) = Len(BridgeStart) + Len(ProfileLoad)
          /\ \A i \in 1..(Len(BridgeStart) + Len(ProfileLoad)) : (BridgeStart \o ProfileLoad)[i] =
               IF i <= Len(BridgeStart) THEN BridgeStart[i] ELSE ProfileLoad[i - Len(BridgeStart)]
      BY <1>1, ConcatProperties
    <3> QED BY <1>4, <1>5, <3>1
  <2>2. 1 \in 1..(6 + 4) /\ 9 \in 1..(6 + 4) /\ 10 \in 1..(6 + 4) /\ ~(9 <= 6) /\ ~(10 <= 6) /\ 1 <= 6
        /\ 9 - 6 = 3 /\ 10 - 6 = 4
    OBVIOUS
  <2> QED BY <1>4, <1>5, <2>1, <2>2
<1>3. ~Tolerated("createTarget") /\ ~Tolerated("set")
  BY DEF Tolerated
<1> QED BY <1>2, <1>3, <1>4, <1>5 DEF StartProgram

\* What a view asks for never changes, nor does its program.
LEMMA ProgramStays == LiveNext => StartProgram' = StartProgram
<1>1. LiveNext => wants' = wants
  BY DEF LiveNext, LiveProgress, LiveRequest, Resolved, Acquired, Accept, LiveDialFails, LiveDialOpens,
         BrowserAnswers, StartProceeds, StartThrows, ViewerSends, ViewerLeaves, ViewerGivesUp,
         ViewExpires, ProviderDrops, ProfileEnds, ProfileEndTimer, BridgeEnds, LiveFinish, handlerVars
<1> QED BY <1>1 DEF StartProgram

\* The start goes on in order.
LEMMA StartFollowsStays ==
  ASSUME LiveTypeOK, Buffers, StartFollows, ViewHolds, EndFollows, LiveNext
  PROVE  StartFollows'
<1>1. CASE LiveRequest
  BY <1>1, ProgramIs, ProgramStays
  DEF LiveRequest, StartFollows, ViewHolds, handlerVars, setupVars, endVars, inputVars, socketVars
<1>2. CASE Resolved
  BY <1>2, ProgramIs, ProgramStays
  DEF Resolved, StartFollows, ViewHolds, handlerVars, setupVars, endVars, inputVars, socketVars
<1>3. CASE Acquired
  BY <1>3, ProgramIs, ProgramStays
  DEF Acquired, StartFollows, ViewHolds, handlerVars, setupVars, endVars, inputVars, socketVars
<1>4. CASE Accept
  BY <1>4, ProgramIs, ProgramStays
  DEF Accept, StartFollows, ViewHolds, handlerVars, setupVars, endVars, inputVars, socketVars
<1>5. CASE LiveDialFails
  BY <1>5, ProgramIs, ProgramStays
  DEF LiveDialFails, StartFollows, ViewHolds, handlerVars, setupVars, endVars, inputVars,
      socketVars, Refuse
<1>6. CASE LiveDialOpens
  BY <1>6, ProgramIs, ProgramStays
  DEF LiveDialOpens, StartFollows, ViewHolds, handlerVars, setupVars, endVars, inputVars,
      socketVars
<1>7. CASE BrowserAnswers
  <2>1. /\ live = "starting" /\ step \in 1..Len(StartProgram) /\ live' = live /\ step' = step
        /\ listening' = listening /\ over' = over /\ wants' = wants
        /\ \/ /\ answer' = "done"
              /\ tab' = IF StartProgram[step] = "createTarget" THEN "open" ELSE tab
              /\ jar' = JarAfter(StartProgram[step])
           \/ answer' # "done" /\ tab' = tab /\ jar' = jar
    BY <1>7 DEF BrowserAnswers, Awaited, handlerVars, endVars
  <2>2. \A c : c # "clear" /\ jar \in {"own", "mixed"} => JarAfter(c) \in {"own", "mixed"}
    BY DEF JarAfter
  <2>3. JarAfter("set") \in {"own", "mixed"}
    BY DEF JarAfter
  <2>4. step > 9 /\ wants = "profile" => step = 10
    BY <2>1, ProgramIs
  <2>5. live' = "starting" /\ ~over' /\ (step' > 1 \/ answer' = "done") => tab' = "open"
    BY <2>1, ProgramIs DEF StartFollows
  <2>6. live' = "starting" /\ ~over' /\ wants' = "profile" /\ (step' > 9 \/ (step' = 9 /\ answer' = "done"))
          => jar' \in {"own", "mixed"}
    <3>1. CASE step = 9
      BY <2>1, <2>3, <3>1, ProgramIs DEF StartFollows
    <3>2. CASE step > 9 /\ wants = "profile"
      BY <2>1, <2>2, <2>4, <3>2, ProgramIs DEF StartFollows
    <3> QED BY <2>1, <3>1, <3>2
  <2> QED BY <2>1, <2>5, <2>6, ProgramStays DEF StartFollows
<1>8. CASE StartProceeds
  <2>1. /\ live = "starting" /\ ~over /\ step' = step + 1 /\ answer' = "none"
        /\ listening' = (listening \/ step = Len(BridgeStart))
        /\ live' = IF step = Len(StartProgram) THEN "running" ELSE live
        /\ over' = over /\ wants' = wants /\ tab' = tab /\ jar' = jar
        /\ answer = "done" \/ Tolerated(StartProgram[step])
    BY <1>8 DEF StartProceeds, ClosedMeanwhile, StartGoesOn, socketVars, endVars
  <2>2. step \in Nat /\ step >= 1 /\ step <= Len(StartProgram)
    BY <2>1, ProgramIs DEF StartFollows
  <2>3. step = 1 => answer = "done"
    BY <2>1, ProgramIs
  <2>4. step = 9 /\ wants = "profile" => answer = "done"
    BY <2>1, ProgramIs
  <2>5. live' = "starting" => step' \in 1..Len(StartProgram)
    BY <2>1, <2>2, ProgramIs
  <2>6. listening' <=> step' > Len(BridgeStart)
    <3>1. listening' <=> listening \/ step = Len(BridgeStart)
      BY <2>1
    <3>2. listening <=> step > Len(BridgeStart)
      BY DEF StartFollows
    <3>3. step' > Len(BridgeStart) <=> step > Len(BridgeStart) \/ step = Len(BridgeStart)
      BY <2>1, <2>2, ProgramIs
    <3> QED BY <3>1, <3>2, <3>3
  <2>7. tab' = "open"
    BY <2>1, <2>2, <2>3 DEF StartFollows
  <2>8. wants = "profile" /\ step' > 9 => jar' \in {"own", "mixed"}
    BY <2>1, <2>2, <2>4 DEF StartFollows
  <2> QED BY <2>1, <2>2, <2>5, <2>6, <2>7, <2>8, ProgramIs, ProgramStays DEF StartFollows
<1>9. CASE StartThrows
  BY <1>9, ProgramIs, ProgramStays
  DEF StartThrows, StartFollows, ViewHolds, handlerVars, setupVars, endVars, inputVars, socketVars,
      Refuse, Awaited
<1>10. CASE ViewerSends
  BY <1>10, ProgramIs, ProgramStays
  DEF ViewerSends, StartFollows, ViewHolds, handlerVars, setupVars, endVars, inputVars, socketVars
<1>11. CASE ViewerLeaves
  BY <1>11, ProgramIs, ProgramStays
  DEF ViewerLeaves, StartFollows, ViewHolds, handlerVars, setupVars, endVars, inputVars,
      socketVars, LiveFinalize
<1>12. CASE ViewerGivesUp
  BY <1>12, ProgramIs, ProgramStays
  DEF ViewerGivesUp, StartFollows, ViewHolds, handlerVars, setupVars, endVars, inputVars,
      socketVars
<1>13. CASE ViewExpires
  BY <1>13, ProgramIs, ProgramStays
  DEF ViewExpires, StartFollows, ViewHolds, handlerVars, setupVars, endVars, inputVars, socketVars,
      LiveFinalize
<1>14. CASE ProviderDrops
  BY <1>14, ProgramIs, ProgramStays
  DEF ProviderDrops, StartFollows, ViewHolds, handlerVars, setupVars, endVars, inputVars,
      socketVars, LiveFinalize
<1>15. CASE ProfileEnds
  BY <1>15, ProgramIs, ProgramStays
  DEF ProfileEnds, StartFollows, ViewHolds, handlerVars, setupVars, endVars, inputVars, socketVars
<1>16. CASE ProfileEndTimer
  BY <1>16, ProgramIs, ProgramStays
  DEF ProfileEndTimer, StartFollows, ViewHolds, handlerVars, setupVars, endVars, inputVars,
      socketVars
<1>17. CASE BridgeEnds
  BY <1>17, ProgramIs, ProgramStays
  DEF BridgeEnds, StartFollows, ViewHolds, handlerVars, setupVars, endVars, inputVars, socketVars,
      BridgeClosesTab, EndFollows
<1>18. CASE LiveFinish
  BY <1>18, ProgramIs, ProgramStays
  DEF LiveFinish, StartFollows, ViewHolds, handlerVars, setupVars, endVars, inputVars, socketVars,
      RejectAwaited, Awaited
<1> QED BY <1>1, <1>2, <1>3, <1>4, <1>5, <1>6, <1>7, <1>8, <1>9, <1>10, <1>11, <1>12, <1>13, <1>14,
   <1>15, <1>16, <1>17, <1>18
DEF LiveNext, LiveProgress

\* So does what the view holds.
LEMMA ViewHoldsStays ==
  ASSUME LiveTypeOK, Buffers, StartFollows, ViewHolds, EndFollows, LiveNext
  PROVE  ViewHolds'
<1>1. CASE LiveRequest
  BY <1>1 DEF LiveRequest, ViewHolds, handlerVars, setupVars, endVars, inputVars, socketVars
<1>2. CASE Resolved
  BY <1>2 DEF Resolved, ViewHolds, handlerVars, setupVars, endVars, inputVars, socketVars
<1>3. CASE Acquired
  BY <1>3 DEF Acquired, ViewHolds, handlerVars, setupVars, endVars, inputVars, socketVars
<1>4. CASE Accept
  BY <1>4 DEF Accept, ViewHolds, handlerVars, setupVars, endVars, inputVars, socketVars
<1>5. CASE LiveDialFails
  BY <1>5
  DEF LiveDialFails, ViewHolds, handlerVars, setupVars, endVars, inputVars, socketVars, Refuse,
      FreeLock
<1>6. CASE LiveDialOpens
  BY <1>6 DEF LiveDialOpens, ViewHolds, handlerVars, setupVars, endVars, inputVars, socketVars
<1>7. CASE BrowserAnswers
  BY <1>7 DEF BrowserAnswers, ViewHolds, handlerVars, setupVars, endVars, inputVars, socketVars, Awaited
<1>8. CASE StartProceeds
  BY <1>8
  DEF StartProceeds, ViewHolds, handlerVars, setupVars, endVars, inputVars, socketVars,
      StartGoesOn, ClosedMeanwhile
<1>9. CASE StartThrows
  BY <1>9
  DEF StartThrows, ViewHolds, handlerVars, setupVars, endVars, inputVars, socketVars, Refuse,
      FreeLock, Awaited
<1>10. CASE ViewerSends
  BY <1>10 DEF ViewerSends, ViewHolds, handlerVars, setupVars, endVars, inputVars, socketVars
<1>11. CASE ViewerLeaves
  BY <1>11
  DEF ViewerLeaves, ViewHolds, handlerVars, setupVars, endVars, inputVars, socketVars,
      LiveFinalize, LiveTypeOK, ViewTypes, StartFollows, BridgeStart
<1>12. CASE ViewerGivesUp
  BY <1>12 DEF ViewerGivesUp, ViewHolds, handlerVars, setupVars, endVars, inputVars, socketVars
<1>13. CASE ViewExpires
  BY <1>13
  DEF ViewExpires, ViewHolds, handlerVars, setupVars, endVars, inputVars, socketVars, LiveFinalize,
      LiveTypeOK, ViewTypes
<1>14. CASE ProviderDrops
  BY <1>14
  DEF ProviderDrops, ViewHolds, handlerVars, setupVars, endVars, inputVars, socketVars,
      LiveFinalize, LiveTypeOK, ViewTypes
<1>15. CASE ProfileEnds
  BY <1>15
  DEF ProfileEnds, ViewHolds, handlerVars, setupVars, endVars, inputVars, socketVars, EndFollows
<1>16. CASE ProfileEndTimer
  BY <1>16
  DEF ProfileEndTimer, ViewHolds, handlerVars, setupVars, endVars, inputVars, socketVars,
      EndFollows
<1>17. CASE BridgeEnds
  BY <1>17
  DEF BridgeEnds, ViewHolds, handlerVars, setupVars, endVars, inputVars, socketVars,
      BridgeClosesTab, EndFollows
<1>18. CASE LiveFinish
  BY <1>18
  DEF LiveFinish, ViewHolds, handlerVars, setupVars, endVars, inputVars, socketVars, RejectAwaited,
      EndFollows
<1> QED BY <1>1, <1>2, <1>3, <1>4, <1>5, <1>6, <1>7, <1>8, <1>9, <1>10, <1>11, <1>12, <1>13, <1>14,
   <1>15, <1>16, <1>17, <1>18
DEF LiveNext, LiveProgress

\* And the way it ends.
LEMMA EndFollowsStays ==
  ASSUME LiveTypeOK, Buffers, StartFollows, ViewHolds, EndFollows, LiveNext
  PROVE  EndFollows'
<1>1. CASE LiveRequest
  BY <1>1, ProgramIs
  DEF LiveRequest, EndFollows, ViewHolds, StartFollows, handlerVars, setupVars, endVars, inputVars,
      socketVars
<1>2. CASE Resolved
  BY <1>2, ProgramIs
  DEF Resolved, EndFollows, ViewHolds, StartFollows, handlerVars, setupVars, endVars, inputVars,
      socketVars
<1>3. CASE Acquired
  BY <1>3, ProgramIs
  DEF Acquired, EndFollows, ViewHolds, StartFollows, handlerVars, setupVars, endVars, inputVars,
      socketVars
<1>4. CASE Accept
  BY <1>4, ProgramIs
  DEF Accept, EndFollows, ViewHolds, StartFollows, handlerVars, setupVars, endVars, inputVars,
      socketVars
<1>5. CASE LiveDialFails
  BY <1>5, ProgramIs
  DEF LiveDialFails, EndFollows, ViewHolds, StartFollows, handlerVars, setupVars, endVars,
      inputVars, socketVars, Refuse
<1>6. CASE LiveDialOpens
  BY <1>6, ProgramIs
  DEF LiveDialOpens, EndFollows, ViewHolds, StartFollows, handlerVars, setupVars, endVars,
      inputVars, socketVars
<1>7. CASE BrowserAnswers
  BY <1>7, ProgramIs
  DEF BrowserAnswers, EndFollows, ViewHolds, StartFollows, handlerVars, setupVars, endVars,
      inputVars, socketVars, Awaited
<1>8. CASE StartProceeds
  BY <1>8, ProgramIs
  DEF StartProceeds, EndFollows, ViewHolds, StartFollows, handlerVars, setupVars, endVars,
      inputVars, socketVars, StartGoesOn, ClosedMeanwhile, LiveTypeOK, ViewTypes
<1>9. CASE StartThrows
  BY <1>9, ProgramIs
  DEF StartThrows, EndFollows, ViewHolds, StartFollows, handlerVars, setupVars, endVars, inputVars,
      socketVars, Refuse, Awaited
<1>10. CASE ViewerSends
  BY <1>10, ProgramIs
  DEF ViewerSends, EndFollows, ViewHolds, StartFollows, handlerVars, setupVars, endVars, inputVars,
      socketVars
<1>11. CASE ViewerLeaves
  BY <1>11, ProgramIs
  DEF ViewerLeaves, EndFollows, ViewHolds, StartFollows, handlerVars, setupVars, endVars,
      inputVars, socketVars, LiveFinalize, LiveTypeOK, ViewTypes
<1>12. CASE ViewerGivesUp
  BY <1>12, ProgramIs
  DEF ViewerGivesUp, EndFollows, ViewHolds, StartFollows, handlerVars, setupVars, endVars,
      inputVars, socketVars
<1>13. CASE ViewExpires
  BY <1>13, ProgramIs
  DEF ViewExpires, EndFollows, ViewHolds, StartFollows, handlerVars, setupVars, endVars, inputVars,
      socketVars, LiveFinalize, LiveTypeOK, ViewTypes
<1>14. CASE ProviderDrops
  BY <1>14, ProgramIs
  DEF ProviderDrops, EndFollows, ViewHolds, StartFollows, handlerVars, setupVars, endVars,
      inputVars, socketVars, LiveFinalize, LiveTypeOK, ViewTypes
<1>15. CASE ProfileEnds
  BY <1>15, ProgramIs
  DEF ProfileEnds, EndFollows, ViewHolds, StartFollows, handlerVars, setupVars, endVars, inputVars,
      socketVars, LiveTypeOK, ViewTypes
<1>16. CASE ProfileEndTimer
  BY <1>16, ProgramIs
  DEF ProfileEndTimer, EndFollows, ViewHolds, StartFollows, handlerVars, setupVars, endVars,
      inputVars, socketVars
<1>17. CASE BridgeEnds
  BY <1>17, ProgramIs
  DEF BridgeEnds, EndFollows, ViewHolds, StartFollows, handlerVars, setupVars, endVars, inputVars,
      socketVars, BridgeClosesTab
<1>18. CASE LiveFinish
  BY <1>18, ProgramIs
  DEF LiveFinish, EndFollows, ViewHolds, StartFollows, handlerVars, setupVars, endVars, inputVars,
      socketVars, RejectAwaited
<1> QED BY <1>1, <1>2, <1>3, <1>4, <1>5, <1>6, <1>7, <1>8, <1>9, <1>10, <1>11, <1>12, <1>13, <1>14,
   <1>15, <1>16, <1>17, <1>18
DEF LiveNext, LiveProgress

\* So a view lets go of what it took.
LEMMA ViewLetsGoStays ==
  ASSUME LiveTypeOK, Buffers, StartFollows, ViewHolds, EndFollows, ViewLetsGo, LiveNext
  PROVE  ViewLetsGo'
<1>1. CASE LiveRequest
  BY <1>1
  DEF LiveRequest, ViewLetsGo, RefusedLetsGo, EndedLetsGo, OwnStateSaved, EndFollows, ViewHolds,
      handlerVars, setupVars, endVars, inputVars, socketVars
<1>2. CASE Resolved
  BY <1>2
  DEF Resolved, ViewLetsGo, RefusedLetsGo, EndedLetsGo, OwnStateSaved, EndFollows, ViewHolds,
      handlerVars, setupVars, endVars, inputVars, socketVars
<1>3. CASE Acquired
  BY <1>3
  DEF Acquired, ViewLetsGo, RefusedLetsGo, EndedLetsGo, OwnStateSaved, EndFollows, ViewHolds,
      handlerVars, setupVars, endVars, inputVars, socketVars
<1>4. CASE Accept
  BY <1>4
  DEF Accept, ViewLetsGo, RefusedLetsGo, EndedLetsGo, OwnStateSaved, EndFollows, ViewHolds,
      handlerVars, setupVars, endVars, inputVars, socketVars
<1>5. CASE LiveDialFails
  BY <1>5
  DEF LiveDialFails, ViewLetsGo, RefusedLetsGo, EndedLetsGo, OwnStateSaved, EndFollows, ViewHolds,
      handlerVars, setupVars, endVars, inputVars, socketVars, Refuse, FreeLock
<1>6. CASE LiveDialOpens
  BY <1>6
  DEF LiveDialOpens, ViewLetsGo, RefusedLetsGo, EndedLetsGo, OwnStateSaved, EndFollows, ViewHolds,
      handlerVars, setupVars, endVars, inputVars, socketVars
<1>7. CASE BrowserAnswers
  BY <1>7
  DEF BrowserAnswers, ViewLetsGo, RefusedLetsGo, EndedLetsGo, OwnStateSaved, EndFollows, ViewHolds,
      handlerVars, setupVars, endVars, inputVars, socketVars, Awaited
<1>8. CASE StartProceeds
  BY <1>8
  DEF StartProceeds, ViewLetsGo, RefusedLetsGo, EndedLetsGo, OwnStateSaved, EndFollows, ViewHolds,
      handlerVars, setupVars, endVars, inputVars, socketVars, StartGoesOn, ClosedMeanwhile
<1>9. CASE StartThrows
  BY <1>9
  DEF StartThrows, ViewLetsGo, RefusedLetsGo, EndedLetsGo, OwnStateSaved, EndFollows, ViewHolds,
      handlerVars, setupVars, endVars, inputVars, socketVars, Refuse, FreeLock, Awaited
<1>10. CASE ViewerSends
  BY <1>10
  DEF ViewerSends, ViewLetsGo, RefusedLetsGo, EndedLetsGo, OwnStateSaved, EndFollows, ViewHolds,
      handlerVars, setupVars, endVars, inputVars, socketVars
<1>11. CASE ViewerLeaves
  BY <1>11
  DEF ViewerLeaves, ViewLetsGo, RefusedLetsGo, EndedLetsGo, OwnStateSaved, EndFollows, ViewHolds,
      handlerVars, setupVars, endVars, inputVars, socketVars, LiveFinalize, LiveTypeOK, ViewTypes
<1>12. CASE ViewerGivesUp
  BY <1>12
  DEF ViewerGivesUp, ViewLetsGo, RefusedLetsGo, EndedLetsGo, OwnStateSaved, EndFollows, ViewHolds,
      handlerVars, setupVars, endVars, inputVars, socketVars
<1>13. CASE ViewExpires
  BY <1>13
  DEF ViewExpires, ViewLetsGo, RefusedLetsGo, EndedLetsGo, OwnStateSaved, EndFollows, ViewHolds,
      handlerVars, setupVars, endVars, inputVars, socketVars, LiveFinalize, LiveTypeOK, ViewTypes
<1>14. CASE ProviderDrops
  BY <1>14
  DEF ProviderDrops, ViewLetsGo, RefusedLetsGo, EndedLetsGo, OwnStateSaved, EndFollows, ViewHolds,
      handlerVars, setupVars, endVars, inputVars, socketVars, LiveFinalize, LiveTypeOK, ViewTypes
<1>15. CASE ProfileEnds
  BY <1>15
  DEF ProfileEnds, ViewLetsGo, RefusedLetsGo, EndedLetsGo, OwnStateSaved, EndFollows, ViewHolds,
      handlerVars, setupVars, endVars, inputVars, socketVars, LiveTypeOK, ViewTypes
<1>16. CASE ProfileEndTimer
  BY <1>16
  DEF ProfileEndTimer, ViewLetsGo, RefusedLetsGo, EndedLetsGo, OwnStateSaved, EndFollows,
      ViewHolds, handlerVars, setupVars, endVars, inputVars, socketVars
<1>17. CASE BridgeEnds
  BY <1>17
  DEF BridgeEnds, ViewLetsGo, RefusedLetsGo, EndedLetsGo, OwnStateSaved, EndFollows, ViewHolds,
      handlerVars, setupVars, endVars, inputVars, socketVars, BridgeClosesTab
<1>18. CASE LiveFinish
  BY <1>18
  DEF LiveFinish, ViewLetsGo, RefusedLetsGo, EndedLetsGo, OwnStateSaved, EndFollows, ViewHolds,
      handlerVars, setupVars, endVars, inputVars, socketVars, RejectAwaited, LiveTypeOK, ViewTypes
<1> QED BY <1>1, <1>2, <1>3, <1>4, <1>5, <1>6, <1>7, <1>8, <1>9, <1>10, <1>11, <1>12, <1>13, <1>14,
   <1>15, <1>16, <1>17, <1>18
DEF LiveNext, LiveProgress

\* The end hooks are begun once, or have begun.
LEMMA FinalizeTypes ==
  ASSUME ViewTypes, LiveFinalize \/ UNCHANGED endVars
  PROVE  /\ over' \in BOOLEAN /\ leftBehind' \subseteq {"profile"}
         /\ endStep' \in {"none", "profile", "bridge", "finish", "finished"}
<1>1. CASE UNCHANGED endVars
  BY <1>1 DEF endVars, ViewTypes
<1>2. CASE LiveFinalize /\ over
  BY <1>2 DEF LiveFinalize, endVars, ViewTypes
<1>3. CASE LiveFinalize /\ ~over
  BY <1>3 DEF LiveFinalize, ViewTypes
<1> QED BY <1>1, <1>2, <1>3

\* The view keeps its types.
LEMMA ViewTypesStay ==
  ASSUME LiveTypeOK, ViewTypes, Buffers, StartFollows, ViewHolds, EndFollows, LiveNext
  PROVE  ViewTypes'
<1>1. CASE LiveRequest
  BY <1>1, ProgramStays
  DEF LiveRequest, ViewTypes, handlerVars, setupVars, endVars, inputVars, socketVars
<1>2. CASE Resolved
  BY <1>2, ProgramStays DEF Resolved, ViewTypes, handlerVars, setupVars, endVars, inputVars, socketVars
<1>3. CASE Acquired
  BY <1>3, ProgramStays DEF Acquired, ViewTypes, handlerVars, setupVars, endVars, inputVars, socketVars
<1>4. CASE Accept
  BY <1>4, ProgramStays DEF Accept, ViewTypes, handlerVars, setupVars, endVars, inputVars, socketVars
<1>5. CASE LiveDialFails
  BY <1>5, ProgramStays
  DEF LiveDialFails, ViewTypes, handlerVars, setupVars, endVars, inputVars, socketVars, Refuse,
      FreeLock
<1>6. CASE LiveDialOpens
  BY <1>6, ProgramStays
  DEF LiveDialOpens, ViewTypes, handlerVars, setupVars, endVars, inputVars, socketVars
<1>7. CASE BrowserAnswers
  <2>1. \A c : JarAfter(c) \in {"foreign", "empty", "own", "mixed"}
    BY DEF JarAfter, ViewTypes
  <2>2. /\ tab' \in {"none", "open", "closed"}
        /\ jar' \in {"foreign", "empty", "own", "mixed"}
        /\ answer' \in {"none", "done", "residue", "refused", "rejected"}
    BY <1>7, <2>1 DEF BrowserAnswers, ViewTypes
  <2> QED BY <1>7, <2>2, ProgramStays DEF BrowserAnswers, ViewTypes, handlerVars, endVars, inputVars
<1>8. CASE StartProceeds
  <2>1. /\ live = "starting" /\ live' \in {"starting", "running"} /\ step' = step + 1 /\ answer' = "none"
        /\ listening' = (listening \/ step = Len(BridgeStart))
        /\ UNCHANGED <<wants, liveLock, saved, socketVars, endVars, typed, overflow>>
    BY <1>8 DEF StartProceeds
  <2>2. step' \in 0..(Len(StartProgram) + 1)
    BY <2>1, ProgramIs DEF StartFollows
  <2> QED BY <2>1, <2>2, ProgramStays DEF ViewTypes, socketVars, endVars
<1>9. CASE StartThrows
  BY <1>9, ProgramStays
  DEF StartThrows, ViewTypes, handlerVars, setupVars, endVars, inputVars, socketVars, Refuse,
      FreeLock
<1>10. CASE ViewerSends
  BY <1>10, ProgramStays
  DEF ViewerSends, ViewTypes, handlerVars, setupVars, endVars, inputVars, socketVars
<1>11. CASE ViewerLeaves
  BY <1>11, ProgramStays, FinalizeTypes
  DEF ViewerLeaves, ViewTypes, handlerVars, setupVars, endVars, inputVars, socketVars
<1>12. CASE ViewerGivesUp
  BY <1>12, ProgramStays
  DEF ViewerGivesUp, ViewTypes, handlerVars, setupVars, endVars, inputVars, socketVars
<1>13. CASE ViewExpires
  BY <1>13, ProgramStays, FinalizeTypes
  DEF ViewExpires, ViewTypes, handlerVars, setupVars, endVars, inputVars, socketVars
<1>14. CASE ProviderDrops
  BY <1>14, ProgramStays, FinalizeTypes
  DEF ProviderDrops, ViewTypes, handlerVars, setupVars, endVars, inputVars, socketVars
<1>15. CASE ProfileEnds
  BY <1>15, ProgramStays
  DEF ProfileEnds, ViewTypes, handlerVars, setupVars, endVars, inputVars, socketVars
<1>16. CASE ProfileEndTimer
  BY <1>16, ProgramStays
  DEF ProfileEndTimer, ViewTypes, handlerVars, setupVars, endVars, inputVars, socketVars
<1>17. CASE BridgeEnds
  BY <1>17, ProgramStays
  DEF BridgeEnds, ViewTypes, handlerVars, setupVars, endVars, inputVars, socketVars,
      BridgeClosesTab
<1>18. CASE LiveFinish
  BY <1>18, ProgramStays
  DEF LiveFinish, ViewTypes, handlerVars, setupVars, endVars, inputVars, socketVars, RejectAwaited
<1> QED BY <1>1, <1>2, <1>3, <1>4, <1>5, <1>6, <1>7, <1>8, <1>9, <1>10, <1>11, <1>12, <1>13, <1>14,
   <1>15, <1>16, <1>17, <1>18
DEF LiveNext, LiveProgress

\* So does its input.
LEMMA InputTypesStay ==
  ASSUME LiveTypeOK, InputTypes, Buffers, StartFollows, ViewHolds, EndFollows, LiveNext
  PROVE  InputTypes'
<1>1. CASE LiveRequest
  BY <1>1 DEF LiveRequest, InputTypes, handlerVars, setupVars, endVars, inputVars, socketVars
<1>2. CASE Resolved
  BY <1>2 DEF Resolved, InputTypes, handlerVars, setupVars, endVars, inputVars, socketVars
<1>3. CASE Acquired
  BY <1>3 DEF Acquired, InputTypes, handlerVars, setupVars, endVars, inputVars, socketVars
<1>4. CASE Accept
  BY <1>4 DEF Accept, InputTypes, handlerVars, setupVars, endVars, inputVars, socketVars
<1>5. CASE LiveDialFails
  BY <1>5 DEF LiveDialFails, InputTypes, handlerVars, setupVars, endVars, inputVars, socketVars
<1>6. CASE LiveDialOpens
  BY <1>6 DEF LiveDialOpens, InputTypes, handlerVars, setupVars, endVars, inputVars, socketVars
<1>7. CASE BrowserAnswers
  BY <1>7 DEF BrowserAnswers, InputTypes, handlerVars, setupVars, endVars, inputVars, socketVars
<1>8. CASE StartProceeds
  <2>1. performed \o heldBack \in Seq(1..typed) /\ << >> \in Seq(1..typed)
    BY ConcatProperties, EmptySeq DEF InputTypes
  <2>2. typed' = typed /\ overflow' = overflow
    BY <1>8 DEF StartProceeds
  <2>3. \A q \in {early', heldBack', performed'} : q \in Seq(1..typed)
    <3>1. CASE step = Len(BridgeStart) /\ step = Len(StartProgram)
      BY <1>8, <2>1, <3>1 DEF StartProceeds, InputTypes
    <3>2. CASE step = Len(BridgeStart) /\ step # Len(StartProgram)
      BY <1>8, <2>1, <3>2 DEF StartProceeds, DeliverEarly, InputTypes
    <3>3. CASE step # Len(BridgeStart) /\ step = Len(StartProgram)
      BY <1>8, <2>1, <3>3 DEF StartProceeds, InputTypes
    <3>4. CASE step # Len(BridgeStart) /\ step # Len(StartProgram)
      BY <1>8, <2>1, <3>4 DEF StartProceeds, InputTypes
    <3> QED BY <3>1, <3>2, <3>3, <3>4
  <2> QED BY <2>2, <2>3 DEF InputTypes
<1>9. CASE StartThrows
  BY <1>9 DEF StartThrows, InputTypes, handlerVars, setupVars, endVars, inputVars, socketVars
<1>10. CASE ViewerSends
  <2>1. typed' = typed + 1 /\ typed \in Nat /\ typed < MaxInput /\ Arrives(typed + 1)
        /\ UNCHANGED <<handlerVars, listening, socketVars, setupVars, endVars>>
    BY <1>10 DEF ViewerSends, LiveTypeOK, InputTypes
  <2>2. ASSUME NEW q \in Seq(1..typed)
        PROVE  q \in Seq(1..(typed + 1)) /\ Append(q, typed + 1) \in Seq(1..(typed + 1))
    <3>1. (1..typed) \subseteq 1..(typed + 1) /\ typed + 1 \in 1..(typed + 1)
      BY <2>1
    <3>2. q \in Seq(1..(typed + 1))
      BY <3>1, SeqMonotonic
    <3> QED BY <3>1, <3>2, AppendProperties
  <2>3. /\ early' \in {early, Append(early, typed + 1)}
        /\ heldBack' \in {heldBack, Append(heldBack, typed + 1)}
        /\ performed' \in {performed, Append(performed, typed + 1)}
        /\ overflow' \in {overflow, overflow \cup {typed + 1}}
    BY <2>1 DEF Arrives
  <2>4. \A q \in {early', heldBack', performed'} : q \in Seq(1..typed')
    BY <2>1, <2>2, <2>3 DEF LiveTypeOK, InputTypes
  <2>5. overflow' \subseteq 1..typed' /\ typed' \in 0..MaxInput
    BY <2>1, <2>3, LiveAssumption DEF LiveTypeOK, InputTypes
  <2> QED BY <2>1, <2>4, <2>5 DEF InputTypes
<1>11. CASE ViewerLeaves
  BY <1>11 DEF ViewerLeaves, InputTypes, handlerVars, setupVars, endVars, inputVars, socketVars
<1>12. CASE ViewerGivesUp
  BY <1>12 DEF ViewerGivesUp, InputTypes, handlerVars, setupVars, endVars, inputVars, socketVars
<1>13. CASE ViewExpires
  BY <1>13 DEF ViewExpires, InputTypes, handlerVars, setupVars, endVars, inputVars, socketVars
<1>14. CASE ProviderDrops
  BY <1>14 DEF ProviderDrops, InputTypes, handlerVars, setupVars, endVars, inputVars, socketVars
<1>15. CASE ProfileEnds
  BY <1>15 DEF ProfileEnds, InputTypes, handlerVars, setupVars, endVars, inputVars, socketVars
<1>16. CASE ProfileEndTimer
  BY <1>16 DEF ProfileEndTimer, InputTypes, handlerVars, setupVars, endVars, inputVars, socketVars
<1>17. CASE BridgeEnds
  BY <1>17 DEF BridgeEnds, InputTypes, handlerVars, setupVars, endVars, inputVars, socketVars
<1>18. CASE LiveFinish
  BY <1>18 DEF LiveFinish, InputTypes, handlerVars, setupVars, endVars, inputVars, socketVars
<1> QED BY <1>1, <1>2, <1>3, <1>4, <1>5, <1>6, <1>7, <1>8, <1>9, <1>10, <1>11, <1>12, <1>13, <1>14,
   <1>15, <1>16, <1>17, <1>18
DEF LiveNext, LiveProgress

\* Every message that is kept is in one place.
LEMMA BuffersStay ==
  ASSUME LiveTypeOK, Buffers, StartFollows, ViewHolds, EndFollows, LiveNext
  PROVE  Buffers'
<1>1. CASE LiveRequest
  BY <1>1 DEF LiveRequest, Buffers, handlerVars, setupVars, endVars, inputVars, socketVars, ViewHolds
<1>2. CASE Resolved
  BY <1>2 DEF Resolved, Buffers, handlerVars, setupVars, endVars, inputVars, socketVars
<1>3. CASE Acquired
  BY <1>3 DEF Acquired, Buffers, handlerVars, setupVars, endVars, inputVars, socketVars
<1>4. CASE Accept
  BY <1>4 DEF Accept, Buffers, handlerVars, setupVars, endVars, inputVars, socketVars
<1>5. CASE LiveDialFails
  BY <1>5 DEF LiveDialFails, Buffers, handlerVars, setupVars, endVars, inputVars, socketVars, Refuse
<1>6. CASE LiveDialOpens
  BY <1>6 DEF LiveDialOpens, Buffers, handlerVars, setupVars, endVars, inputVars, socketVars
<1>7. CASE BrowserAnswers
  BY <1>7 DEF BrowserAnswers, Buffers, handlerVars, setupVars, endVars, inputVars, socketVars
<1>8. CASE StartProceeds
  <2>1. /\ live = "starting" /\ performed = << >>
        /\ listening' <=> listening \/ step = Len(BridgeStart)
        /\ live' = IF step = Len(StartProgram) THEN "running" ELSE live
        /\ listening <=> step > Len(BridgeStart)
        /\ step \in 1..Len(StartProgram)
        /\ Len(BridgeStart) = 6 /\ Len(StartProgram) \in {6, 10}
    BY <1>8, ProgramIs DEF StartProceeds, StartFollows, Buffers
  <2>2. CASE step = Len(BridgeStart)
    BY <1>8, <2>1, <2>2 DEF StartProceeds, DeliverEarly, Buffers
  <2>3. CASE step # Len(BridgeStart) /\ step = Len(StartProgram)
    <3>1. step > 6
      BY <2>1, <2>3
    <3> QED BY <1>8, <2>1, <2>3, <3>1 DEF StartProceeds, Buffers
  <2>4. CASE step # Len(BridgeStart) /\ step # Len(StartProgram)
    BY <1>8, <2>1, <2>4 DEF StartProceeds, Buffers
  <2> QED BY <2>2, <2>3, <2>4
<1>9. CASE StartThrows
  BY <1>9 DEF StartThrows, Buffers, handlerVars, setupVars, endVars, inputVars, socketVars, Refuse
<1>10. CASE ViewerSends
  <2>1. live' = live /\ listening' = listening /\ Arrives(typed + 1) /\ live # "ended"
    BY <1>10 DEF ViewerSends, handlerVars
  <2>2. CASE ~listening
    <3>1. Len(early) < EarlyLimit \/ Len(early) >= EarlyLimit
      BY LenProperties, LiveAssumption DEF LiveTypeOK, InputTypes
    <3>2. heldBack' = heldBack /\ performed' = performed
      BY <2>1, <2>2, <3>1 DEF Arrives
    <3> QED BY <2>1, <2>2, <3>2 DEF Buffers
  <2>3. CASE listening /\ live # "running"
    BY <2>1, <2>3 DEF Arrives, Buffers
  <2>4. CASE listening /\ live = "running"
    BY <2>1, <2>4 DEF Arrives, Buffers
  <2> QED BY <2>2, <2>3, <2>4
<1>11. CASE ViewerLeaves
  BY <1>11 DEF ViewerLeaves, Buffers, handlerVars, setupVars, endVars, inputVars, socketVars
<1>12. CASE ViewerGivesUp
  BY <1>12 DEF ViewerGivesUp, Buffers, handlerVars, setupVars, endVars, inputVars, socketVars
<1>13. CASE ViewExpires
  BY <1>13 DEF ViewExpires, Buffers, handlerVars, setupVars, endVars, inputVars, socketVars
<1>14. CASE ProviderDrops
  BY <1>14 DEF ProviderDrops, Buffers, handlerVars, setupVars, endVars, inputVars, socketVars
<1>15. CASE ProfileEnds
  BY <1>15 DEF ProfileEnds, Buffers, handlerVars, setupVars, endVars, inputVars, socketVars
<1>16. CASE ProfileEndTimer
  BY <1>16 DEF ProfileEndTimer, Buffers, handlerVars, setupVars, endVars, inputVars, socketVars
<1>17. CASE BridgeEnds
  BY <1>17 DEF BridgeEnds, Buffers, handlerVars, setupVars, endVars, inputVars, socketVars
<1>18. CASE LiveFinish
  BY <1>18 DEF LiveFinish, Buffers, handlerVars, setupVars, endVars, inputVars, socketVars
<1> QED BY <1>1, <1>2, <1>3, <1>4, <1>5, <1>6, <1>7, <1>8, <1>9, <1>10, <1>11, <1>12, <1>13, <1>14,
   <1>15, <1>16, <1>17, <1>18
DEF LiveNext, LiveProgress

\* Messages in the order in which they were sent, but for those that were dropped.
InOrder(s, n, gone) ==
  Range(s) = (1..n) \ gone /\ \A i, j \in DOMAIN s : i < j => s[i] < s[j]

\* The next message goes to the end ...
LEMMA NextInOrder ==
  ASSUME NEW n \in Nat, NEW gone \in SUBSET (1..n), NEW s \in Seq(1..n), InOrder(s, n, gone)
  PROVE  InOrder(Append(s, n + 1), n + 1, gone)
<1> DEFINE t == Append(s, n + 1)
<1>1. /\ DOMAIN s = 1..Len(s) /\ Len(s) \in Nat
      /\ DOMAIN t = 1..(Len(s) + 1)
      /\ \A i \in 1..Len(s) : t[i] = s[i] /\ s[i] \in 1..n
      /\ t[Len(s) + 1] = n + 1
  <2>1. s \in Seq(Nat) /\ n + 1 \in Nat
    BY SeqMonotonic
  <2>2. t \in Seq(Nat) /\ Len(t) = Len(s) + 1 /\ t[Len(s) + 1] = n + 1 /\ \A i \in 1..Len(s) : t[i] = s[i]
    BY <2>1, AppendProperties
  <2> QED BY <2>2, LenProperties, ElementOfSeq
<1> HIDE DEF t
<1>2. Range(t) = (1..(n + 1)) \ gone
  <2>1. Range(t) = Range(s) \cup {n + 1}
    BY <1>1 DEF Range
  <2>2. Range(s) = (1..n) \ gone /\ n + 1 \notin gone
    BY DEF InOrder
  <2>3. 1..(n + 1) = (1..n) \cup {n + 1}
    OBVIOUS
  <2> QED BY <2>1, <2>2, <2>3
<1>3. ASSUME NEW i \in DOMAIN t, NEW j \in DOMAIN t, i < j PROVE t[i] < t[j]
  <2>1. i \in 1..Len(s) /\ t[i] = s[i]
    BY <1>1, <1>3
  <2>2. CASE j = Len(s) + 1
    BY <1>1, <2>1, <2>2
  <2>3. CASE j # Len(s) + 1
    <3>1. j \in 1..Len(s)
      BY <1>1, <2>3
    <3> QED BY <1>1, <1>3, <2>1, <3>1 DEF InOrder
  <2> QED BY <2>2, <2>3
<1> QED BY <1>2, <1>3 DEF InOrder, t

\* ... or is dropped.
LEMMA DroppedInOrder ==
  ASSUME NEW n \in Nat, NEW gone \in SUBSET (1..n), NEW s, InOrder(s, n, gone)
  PROVE  InOrder(s, n + 1, gone \cup {n + 1})
BY DEF InOrder

\* Empty buffers add nothing.
LEMMA OneBuffer ==
  ASSUME NEW S, NEW s \in Seq(S)
  PROVE  s \o << >> \o << >> = s /\ << >> \o s \o << >> = s /\ << >> \o << >> \o s = s
BY ConcatEmptySeq, EmptySeq

\* The buffer that is in use says it all.
LEMMA InputIsInOne ==
  ASSUME LiveTypeOK, Buffers
  PROVE  /\ ~listening => (InputInOrder <=> InOrder(early, typed, overflow))
         /\ listening /\ live \notin {"running", "ended"} => (InputInOrder <=> InOrder(heldBack, typed, overflow))
         /\ live \in {"running", "ended"} => (InputInOrder <=> InOrder(performed, typed, overflow))
<1>1. \A q \in {early, heldBack, performed} :
        q \o << >> \o << >> = q /\ << >> \o q \o << >> = q /\ << >> \o << >> \o q = q
  BY OneBuffer DEF LiveTypeOK, InputTypes
<1>2. InputInOrder <=> InOrder(performed \o heldBack \o early, typed, overflow)
  BY DEF InputInOrder, InOrder
<1> QED BY <1>1, <1>2 DEF Buffers

\* The viewer's input stays in its order.
LEMMA InputStaysInOrder ==
  ASSUME LiveTypeOK, Buffers, StartFollows, ViewHolds, EndFollows, InputInOrder, LiveNext
  PROVE  InputInOrder'
<1>1. LiveTypeOK' /\ Buffers'
  BY ViewTypesStay, InputTypesStay, BuffersStay DEF LiveTypeOK
<1>2. /\ ~listening' => (InputInOrder' <=> InOrder(early', typed', overflow'))
      /\ listening' /\ live' \notin {"running", "ended"} => (InputInOrder' <=> InOrder(heldBack', typed', overflow'))
      /\ live' \in {"running", "ended"} => (InputInOrder' <=> InOrder(performed', typed', overflow'))
  <2>1. \A q \in {early', heldBack', performed'} :
          q \o << >> \o << >> = q /\ << >> \o q \o << >> = q /\ << >> \o << >> \o q = q
    BY <1>1, OneBuffer DEF LiveTypeOK, InputTypes
  <2>2. InputInOrder' <=> InOrder(performed' \o heldBack' \o early', typed', overflow')
    BY DEF InputInOrder, InOrder
  <2> QED BY <1>1, <2>1, <2>2 DEF Buffers
<1>3. CASE LiveRequest
  BY <1>3 DEF LiveRequest, InputInOrder, handlerVars, setupVars, endVars, inputVars, socketVars
<1>4. CASE Resolved
  BY <1>4 DEF Resolved, InputInOrder, handlerVars, setupVars, endVars, inputVars, socketVars
<1>5. CASE Acquired
  BY <1>5 DEF Acquired, InputInOrder, handlerVars, setupVars, endVars, inputVars, socketVars
<1>6. CASE Accept
  BY <1>6 DEF Accept, InputInOrder, handlerVars, setupVars, endVars, inputVars, socketVars
<1>7. CASE LiveDialFails
  BY <1>7 DEF LiveDialFails, InputInOrder, handlerVars, setupVars, endVars, inputVars, socketVars
<1>8. CASE LiveDialOpens
  BY <1>8 DEF LiveDialOpens, InputInOrder, handlerVars, setupVars, endVars, inputVars, socketVars
<1>9. CASE BrowserAnswers
  BY <1>9 DEF BrowserAnswers, InputInOrder, handlerVars, setupVars, endVars, inputVars, socketVars
<1>10. CASE StartProceeds
  <2>1. /\ live = "starting" /\ performed = << >>
        /\ listening' <=> listening \/ step = Len(BridgeStart)
        /\ live' = IF step = Len(StartProgram) THEN "running" ELSE live
        /\ listening <=> step > Len(BridgeStart)
        /\ step \in 1..Len(StartProgram) /\ typed' = typed /\ overflow' = overflow
        /\ Len(BridgeStart) = 6 /\ Len(StartProgram) \in {6, 10}
    BY <1>10, ProgramIs DEF StartProceeds, StartFollows, Buffers
  <2>2. CASE step = Len(BridgeStart) /\ step = Len(StartProgram)
    <3>1. ~listening /\ live' = "running" /\ performed' = early
      BY <1>10, <2>1, <2>2 DEF StartProceeds
    <3> QED BY <2>1, <3>1, InputIsInOne, <1>1, <1>2
  <2>3. CASE step = Len(BridgeStart) /\ step # Len(StartProgram)
    <3>1. ~listening /\ listening' /\ live' = "starting" /\ heldBack' = early
      BY <1>10, <2>1, <2>3 DEF StartProceeds, DeliverEarly
    <3> QED BY <2>1, <3>1, InputIsInOne, <1>1, <1>2
  <2>4. CASE step # Len(BridgeStart) /\ step = Len(StartProgram)
    <3>1. listening /\ live' = "running" /\ performed' = performed \o heldBack
      BY <1>10, <2>1, <2>4 DEF StartProceeds
    <3>2. performed' = heldBack
      BY <2>1, <3>1, ConcatEmptySeq DEF LiveTypeOK, InputTypes
    <3> QED BY <2>1, <3>1, <3>2, InputIsInOne, <1>1, <1>2
  <2>5. CASE step # Len(BridgeStart) /\ step # Len(StartProgram)
    BY <1>10, <2>1, <2>5 DEF StartProceeds, InputInOrder
  <2> QED BY <2>2, <2>3, <2>4, <2>5
<1>11. CASE StartThrows
  BY <1>11 DEF StartThrows, InputInOrder, handlerVars, setupVars, endVars, inputVars, socketVars
<1>12. CASE ViewerSends
  <2>1. /\ live' = live /\ listening' = listening /\ Arrives(typed + 1) /\ typed' = typed + 1
        /\ live # "ended" /\ typed \in Nat /\ overflow \in SUBSET (1..typed)
        /\ \A q \in {early, heldBack, performed} : q \in Seq(1..typed)
    BY <1>12 DEF ViewerSends, handlerVars, LiveTypeOK, InputTypes
  <2>2. CASE ~listening /\ Len(early) < EarlyLimit
    <3>1. early' = Append(early, typed + 1) /\ overflow' = overflow
      <4>1. ~(Len(early) >= EarlyLimit)
        BY <2>1, <2>2, LenProperties, LiveAssumption
      <4> QED BY <2>1, <2>2, <4>1 DEF Arrives
    <3> QED BY <2>1, <2>2, <3>1, NextInOrder, InputIsInOne, <1>1, <1>2
  <2>3. CASE ~listening /\ ~(Len(early) < EarlyLimit)
    <3>1. early' = early /\ overflow' = overflow \cup {typed + 1}
      <4>1. Len(early) >= EarlyLimit
        BY <2>1, <2>3, LenProperties, LiveAssumption
      <4> QED BY <2>1, <2>3, <4>1 DEF Arrives
    <3> QED BY <2>1, <2>3, <3>1, DroppedInOrder, InputIsInOne, <1>1, <1>2
  <2>4. CASE listening /\ live # "running"
    <3>1. heldBack' = Append(heldBack, typed + 1) /\ overflow' = overflow
      BY <2>1, <2>4 DEF Arrives
    <3> QED BY <2>1, <2>4, <3>1, NextInOrder, InputIsInOne, <1>1, <1>2
  <2>5. CASE listening /\ live = "running"
    <3>1. performed' = Append(performed, typed + 1) /\ overflow' = overflow
      BY <2>1, <2>5 DEF Arrives
    <3> QED BY <2>1, <2>5, <3>1, NextInOrder, InputIsInOne, <1>1, <1>2
  <2> QED BY <2>2, <2>3, <2>4, <2>5
<1>13. CASE ViewerLeaves
  BY <1>13 DEF ViewerLeaves, InputInOrder, handlerVars, setupVars, endVars, inputVars, socketVars
<1>14. CASE ViewerGivesUp
  BY <1>14 DEF ViewerGivesUp, InputInOrder, handlerVars, setupVars, endVars, inputVars, socketVars
<1>15. CASE ViewExpires
  BY <1>15 DEF ViewExpires, InputInOrder, handlerVars, setupVars, endVars, inputVars, socketVars
<1>16. CASE ProviderDrops
  BY <1>16 DEF ProviderDrops, InputInOrder, handlerVars, setupVars, endVars, inputVars, socketVars
<1>17. CASE ProfileEnds
  BY <1>17 DEF ProfileEnds, InputInOrder, handlerVars, setupVars, endVars, inputVars, socketVars
<1>18. CASE ProfileEndTimer
  BY <1>18 DEF ProfileEndTimer, InputInOrder, handlerVars, setupVars, endVars, inputVars, socketVars
<1>19. CASE BridgeEnds
  BY <1>19 DEF BridgeEnds, InputInOrder, handlerVars, setupVars, endVars, inputVars, socketVars
<1>20. CASE LiveFinish
  BY <1>20 DEF LiveFinish, InputInOrder, handlerVars, setupVars, endVars, inputVars, socketVars
<1> QED BY <1>3, <1>4, <1>5, <1>6, <1>7, <1>8, <1>9, <1>10, <1>11, <1>12, <1>13, <1>14, <1>15,
   <1>16, <1>17, <1>18, <1>19, <1>20
DEF LiveNext, LiveProgress

\* Whatever the early buffer holds and however many messages the viewer sends, a live
\* view carries its input out in order and only after the profile was loaded, and it
\* lets go of its profile's lock, its tab and its viewer, saving no foreign cookies.
THEOREM ViewIsSound == LiveSpec => []ViewSound
<1>1. LiveInit => ViewInv
  <2> SUFFICES ASSUME LiveInit PROVE ViewInv
    OBVIOUS
  <2>1. LiveTypeOK
    <3>1. ViewTypes
      <4>1. 0 \in 0..(Len(StartProgram) + 1)
        BY ProgramIs
      <4> QED BY <4>1 DEF LiveInit, ViewTypes
    <3>2. InputTypes
      BY EmptySeq, LiveAssumption DEF LiveInit, InputTypes
    <3> QED BY <3>1, <3>2 DEF LiveTypeOK
  <2>2. Buffers /\ StartFollows /\ ViewHolds /\ EndFollows
    BY ProgramIs DEF LiveInit, Buffers, StartFollows, ViewHolds, EndFollows
  <2>3. InputInOrder
    <3>1. ~listening /\ early = << >> /\ typed = 0 /\ overflow = {}
      BY DEF LiveInit
    <3>2. InOrder(early, typed, overflow)
      BY <3>1 DEF InOrder, Range
    <3> QED BY <2>1, <2>2, <3>1, <3>2, InputIsInOne
  <2>4. InputAfterLoad /\ ViewLetsGo
    BY DEF LiveInit, InputAfterLoad, ViewLetsGo, RefusedLetsGo, EndedLetsGo, OwnStateSaved
  <2> QED BY <2>1, <2>2, <2>3, <2>4 DEF ViewInv
<1>2. ViewInv /\ [LiveNext]_liveVars => ViewInv'
  <2>1. ASSUME ViewInv, LiveNext PROVE ViewInv'
    <3>1. LiveTypeOK' /\ Buffers' /\ StartFollows' /\ ViewHolds' /\ EndFollows'
      BY <2>1, ViewTypesStay, InputTypesStay, BuffersStay, StartFollowsStays, ViewHoldsStays,
         EndFollowsStays
      DEF ViewInv, LiveTypeOK
    <3>2. InputInOrder' /\ ViewLetsGo'
      BY <2>1, InputStaysInOrder, ViewLetsGoStays DEF ViewInv
    <3>3. InputAfterLoad'
      BY <3>1 DEF Buffers, InputAfterLoad
    <3> QED BY <3>1, <3>2, <3>3 DEF ViewInv
  <2>2. ASSUME ViewInv, UNCHANGED liveVars PROVE ViewInv'
    <3>1. LiveTypeOK' /\ Buffers' /\ StartFollows' /\ ViewHolds' /\ EndFollows'
      BY <2>2
      DEF liveVars, ViewInv, LiveTypeOK, ViewTypes, InputTypes, Buffers, StartFollows,
          StartProgram, ViewHolds, EndFollows
    <3>2. InputInOrder' /\ InputAfterLoad' /\ ViewLetsGo'
      BY <2>2
      DEF liveVars, ViewInv, InputInOrder, InputAfterLoad, ViewLetsGo, RefusedLetsGo, EndedLetsGo,
          OwnStateSaved
    <3> QED BY <3>1, <3>2 DEF ViewInv
  <2> QED BY <2>1, <2>2
<1>3. ViewInv => ViewSound
  BY DEF ViewInv, ViewSound, InputKept
<1> QED BY <1>1, <1>2, <1>3, PTL DEF LiveSpec

----------------------------------------------------------------------------
(* The pipeline.  The hooks that start() and finalize() go through are     *)
(* known by position and ending; the invariant says what is true of those  *)
(* that are behind, and of the commands that are on the wire.              *)

Parts == {"proxy", "profile", "screencast"}
Requests == [proxy : BOOLEAN, profile : {"none", "use", "readOnly", "handOff"}, record : BOOLEAN]

\* The plugins with hooks are of three kinds, each at most once, and those that were asked for.
LEMMA StartersKnown ==
  ASSUME asked \in Requests
  PROVE  /\ Len(Starters) \in 0..3
         /\ \A i \in 1..Len(Starters) : Starters[i] \in Parts
         /\ \A i, j \in 1..Len(Starters) : i # j => Starters[i] # Starters[j]
         /\ asked.proxy <=> \E i \in 1..Len(Starters) : Starters[i] = "proxy"
         /\ asked.profile \in {"use", "readOnly"} <=> \E i \in 1..Len(Starters) : Starters[i] = "profile"
<1> DEFINE profiled == asked.profile \in {"use", "readOnly"}
<1>1. Starters = Given("proxy", asked.proxy) \o Given("profile", profiled) \o Given("screencast", asked.record)
  BY DEF Starters
<1>2. asked.proxy \in BOOLEAN /\ profiled \in BOOLEAN /\ asked.record \in BOOLEAN
  BY DEF Requests
<1> HIDE DEF profiled
<1>3. CASE asked.proxy /\ profiled /\ asked.record
  <2>1. Len(Starters) = 3 /\ Starters[1] = "proxy" /\ Starters[2] = "profile" /\ Starters[3] = "screencast"
    BY <1>1, <1>3 DEF Given
  <2> QED BY <1>3, <2>1 DEF Parts, profiled
<1>4. CASE asked.proxy /\ profiled /\ ~asked.record
  <2>1. Len(Starters) = 2 /\ Starters[1] = "proxy" /\ Starters[2] = "profile"
    BY <1>1, <1>4 DEF Given
  <2> QED BY <1>4, <2>1 DEF Parts, profiled
<1>5. CASE asked.proxy /\ ~profiled /\ asked.record
  <2>1. Len(Starters) = 2 /\ Starters[1] = "proxy" /\ Starters[2] = "screencast"
    BY <1>1, <1>5 DEF Given
  <2> QED BY <1>5, <2>1 DEF Parts, profiled
<1>6. CASE asked.proxy /\ ~profiled /\ ~asked.record
  <2>1. Len(Starters) = 1 /\ Starters[1] = "proxy"
    BY <1>1, <1>6 DEF Given
  <2> QED BY <1>6, <2>1 DEF Parts, profiled
<1>7. CASE ~asked.proxy /\ profiled /\ asked.record
  <2>1. Len(Starters) = 2 /\ Starters[1] = "profile" /\ Starters[2] = "screencast"
    BY <1>1, <1>7 DEF Given
  <2> QED BY <1>7, <2>1 DEF Parts, profiled
<1>8. CASE ~asked.proxy /\ profiled /\ ~asked.record
  <2>1. Len(Starters) = 1 /\ Starters[1] = "profile"
    BY <1>1, <1>8 DEF Given
  <2> QED BY <1>8, <2>1 DEF Parts, profiled
<1>9. CASE ~asked.proxy /\ ~profiled /\ asked.record
  <2>1. Len(Starters) = 1 /\ Starters[1] = "screencast"
    BY <1>1, <1>9 DEF Given
  <2> QED BY <1>9, <2>1 DEF Parts, profiled
<1>10. CASE ~asked.proxy /\ ~profiled /\ ~asked.record
  <2>1. Len(Starters) = 0
    BY <1>1, <1>10 DEF Given
  <2> QED BY <1>10, <2>1 DEF Parts, profiled
<1> QED BY <1>2, <1>3, <1>4, <1>5, <1>6, <1>7, <1>8, <1>9, <1>10

\* The end hooks are theirs, in the reverse order.
LEMMA EndersKnown ==
  ASSUME asked \in Requests
  PROVE  /\ Len(Enders) \in 0..3
         /\ \A i \in 1..Len(Enders) : Enders[i] \in Parts
         /\ \A i, j \in 1..Len(Enders) : i # j => Enders[i] # Enders[j]
         /\ asked.proxy => \E i \in 1..Len(Enders) : Enders[i] = "proxy"
         /\ asked.profile = "use" => \E i \in 1..Len(Enders) : Enders[i] = "profile"
<1>1. Len(Starters) \in 0..3
  BY StartersKnown
<1>2. Enders = [i \in 1..Len(Starters) |-> Starters[(Len(Starters) - i) + 1]]
  BY DEF Enders, Reverse
<1>3. Len(Enders) = Len(Starters)
  BY <1>1, <1>2
<1>4. \A i \in 1..Len(Starters) : (Len(Starters) - i) + 1 \in 1..Len(Starters)
  BY <1>1
<1>5. \A i \in 1..Len(Starters) : Enders[i] = Starters[(Len(Starters) - i) + 1] /\ Starters[i] = Enders[(Len(Starters) - i) + 1]
  BY <1>1, <1>2, <1>4
<1>6. \A i \in 1..Len(Enders) : Enders[i] \in Parts
  BY <1>3, <1>4, <1>5, StartersKnown
<1>7. \A i, j \in 1..Len(Enders) : i # j => Enders[i] # Enders[j]
  <2> SUFFICES ASSUME NEW i \in 1..Len(Enders), NEW j \in 1..Len(Enders), i # j PROVE Enders[i] # Enders[j]
    OBVIOUS
  <2> DEFINE k == (Len(Starters) - i) + 1
             l == (Len(Starters) - j) + 1
  <2>1. k # l
    BY <1>1, <1>3
  <2>2. k \in 1..Len(Starters) /\ Enders[i] = Starters[k]
    BY <1>3, <1>4, <1>5
  <2>3. l \in 1..Len(Starters) /\ Enders[j] = Starters[l]
    BY <1>3, <1>4, <1>5
  <2> HIDE DEF k, l
  <2>4. Starters[k] # Starters[l]
    BY <2>1, <2>2, <2>3, StartersKnown
  <2> QED BY <2>2, <2>3, <2>4
<1>8. ASSUME NEW part \in Parts, \E i \in 1..Len(Starters) : Starters[i] = part
      PROVE  \E i \in 1..Len(Enders) : Enders[i] = part
  BY <1>3, <1>4, <1>5, <1>8
<1> QED BY <1>1, <1>3, <1>6, <1>7, <1>8, StartersKnown DEF Parts

\* Nobody is answered, and nothing of a client is on the wire, but what a client sent.
ClientsOwn ==
  /\ delivered \subseteq sent /\ wire \cap ClientCommands \subseteq sent
  /\ at[Hold] # Idle => BrowserClose \in sent
  /\ relay \notin {"running", "ended"} => client \in {"http", "gone"} /\ sent = {}

\* How far the start is, and how far the end.
StartsDone ==
  /\ relay = "starting" => position # 0
  /\ \A i \in 1..Len(Starters) : i < position => at[<<Starters[i], "start">>] = Done
  /\ relay \in {"running", "ended"} => position > Len(Starters)
EndsCalled ==
  /\ ~closed => ending = 0
  /\ ending # 0 /\ relay \notin {"running", "ended", "stranded"} => lost
  /\ relay = "ended" => ending > Len(Enders)
  /\ \A i \in 1..Len(Enders) :
       /\ i < ending => \/ at[<<Enders[i], "end">>] \in {Done, Failed}
                        \/ at[<<Enders[i], "end">>] # Idle /\ <<Enders[i], "end">> \in gaveUp
       /\ i > ending => at[<<Enders[i], "end">>] = Idle

\* A profile is given back by the last command of its end hook.
LockGoes ==
  /\ ~Saves => lock = "free"
  /\ at[ProfileEnd] \in {Done, Failed} => lock = "free"

\* The command that creates the context is answered once, before the start goes on; the
\* one that disposes of it is never refused.
ContextGoes ==
  /\ \A h \in Hooks : at[h] = Idle => reply[h] = "none"
  /\ at[ProxyStart] = Idle => context = "none"
  /\ <<ProxyStart, 1>> \in wire => at[ProxyStart] = 1 /\ reply[ProxyStart] = "none"
  /\ <<ProxyEnd, 1>> \in wire => at[ProxyStart] # Idle
  /\ at[ProxyStart] \in {2, 3, 4, Done} => context \in {"known", "disposed"}
  /\ ~asked.proxy => at[ProxyStart] = Idle
  /\ at[ProxyEnd] \notin {2, 3, 4}
  /\ relay \in {"running", "ended"} /\ asked.proxy /\ ~lost /\ gaveUp = {} =>
       (at[ProxyEnd] \in {Done, Failed} \/ reply[ProxyEnd] # "none" => context = "disposed")

PipelineInv ==
  /\ PipelineTypeOK /\ pending \subseteq Hooks \X Steps
  /\ ClientsOwn /\ StartsDone /\ EndsCalled /\ LockGoes /\ ContextGoes

\* The scripts.
LEMMA ScriptsKnown ==
  /\ \A h \in Hooks : Len(Script(h)) \in 0..4
  /\ Script(ProxyStart) = <<"createContext", "openTab", "closeBlanks">>
  /\ Script(ProxyEnd) \in {<< >>, <<"dispose">>}
  /\ Script(ProxyEnd) # << >> <=> context = "known" \/ InHook(ProxyEnd)
  /\ Saves => Script(ProfileEnd) # << >>
<1>1. Script(ProxyStart) = <<"createContext", "openTab", "closeBlanks">>
  BY DEF Script, ProxyStart, ProfileStart, Hold, ProfileEnd, ProxyEnd
<1>2. Script(ProxyEnd) = IF context = "known" \/ InHook(ProxyEnd) THEN <<"dispose">> ELSE << >>
  BY DEF Script, ProxyStart, ProfileStart, Hold, ProfileEnd, ProxyEnd
<1>3. Script(ProfileEnd) = IF Saves THEN <<"snapshots", "cookies", "reread", "files">> ELSE << >>
  BY DEF Script, ProxyStart, ProfileStart, Hold, ProfileEnd, ProxyEnd
<1>4. ASSUME NEW h \in Hooks PROVE Len(Script(h)) \in 0..4
  <2>1. CASE h = ProxyStart
    BY <1>1, <2>1
  <2>2. CASE h = ProxyEnd
    BY <1>2, <2>2
  <2>3. CASE h = ProfileEnd
    BY <1>3, <2>3
  <2>4. CASE h = ProfileStart
    BY <2>4 DEF Script, ProxyStart, ProfileStart
  <2>5. CASE h = Hold
    BY <2>5 DEF Script, ProxyStart, ProfileStart, Hold
  <2>6. CASE h \notin {ProxyStart, ProxyEnd, ProfileEnd, ProfileStart, Hold}
    <3>1. Script(h) = IF h[2] = "start" \/ at[<<h[1], "start">>] = Done THEN <<"files">> ELSE << >>
      BY <2>6 DEF Script
    <3> QED BY <3>1
  <2> QED BY <2>1, <2>2, <2>3, <2>4, <2>5, <2>6
<1> QED BY <1>1, <1>2, <1>3, <1>4

\* Hook h sends its k-th command, or is through.
SendsNext(h, k) ==
  /\ at' = [at EXCEPT ![h] = k] /\ reply' = [reply EXCEPT ![h] = "none"]
  /\ pending' \in {pending, pending \cup {<<h, k>>}} /\ wire' \in {wire, wire \cup {<<h, k>>}}

\* sendInternal registers the command and writes it to a socket that is open.
LEMMA SendEffect ==
  ASSUME NEW h, NEW k, Send(h, k)
  PROVE  SendsNext(h, k)
BY DEF Send, SendsNext, Written

\* A hook is called: it sends its first command, or has none.
LEMMA LaunchEffect ==
  ASSUME NEW h, Launch(h)
  PROVE  \/ Script(h) # << >> /\ SendsNext(h, 1)
         \/ Script(h) = << >> /\ at' = [at EXCEPT ![h] = Done] /\ UNCHANGED <<reply, pending, wire>>
BY SendEffect DEF Launch

\* A hook that goes on.
LEMMA ResumeEffect ==
  ASSUME NEW h \in Hooks, HookResumes(h), PipelineTypeOK
  PROVE  \/ \E k \in 2..4 : k <= Len(Script(h)) /\ SendsNext(h, k) /\ lock' = lock /\ (h = ProxyStart => reply[h] = "answered" \/ at[h] # 1)
         \/ \E outcome \in {Done, Failed} :
              /\ at' = [at EXCEPT ![h] = outcome] /\ reply' = [reply EXCEPT ![h] = "none"]
              /\ lock' = IF h = ProfileEnd THEN "free" ELSE lock
              /\ wire' \in {wire, IF h = Hold THEN wire \cup {BrowserClose} ELSE wire} /\ pending' = pending
              /\ h = ProxyStart /\ outcome = Done => at[h] # 1
<1>1. at[h] \in Steps /\ reply[h] \in {"answered", "rejected"}
  BY DEF HookResumes, InHook, PipelineTypeOK
<1>2. ASSUME NEW outcome \in {Done, Failed}, HookEnds(h, outcome)
      PROVE  /\ at' = [at EXCEPT ![h] = outcome] /\ reply' = [reply EXCEPT ![h] = "none"]
             /\ lock' = IF h = ProfileEnd THEN "free" ELSE lock
             /\ wire' \in {wire, IF h = Hold THEN wire \cup {BrowserClose} ELSE wire} /\ pending' = pending
  BY <1>2 DEF HookEnds, Written
<1>3. CASE reply[h] = "rejected" /\ Fatal(h, at[h]) /\ HookEnds(h, Failed)
  BY <1>2, <1>3 DEF Done, Failed
<1>4. CASE h = ProfileStart /\ at[h] = 1 /\ reply[h] = "answered" /\ HookEnds(h, Failed)
  BY <1>2, <1>4 DEF Done, Failed
<1>5. ASSUME ~(reply[h] = "rejected" /\ Fatal(h, at[h])), NEW n \in Following(h, at[h]),
             IF n > Len(Script(h)) THEN HookEnds(h, Done) ELSE Send(h, n) /\ UNCHANGED <<lock, cookies>>
      PROVE  \/ \E k \in 2..4 : k <= Len(Script(h)) /\ SendsNext(h, k) /\ lock' = lock /\ (h = ProxyStart => reply[h] = "answered" \/ at[h] # 1)
             \/ /\ at' = [at EXCEPT ![h] = Done] /\ reply' = [reply EXCEPT ![h] = "none"]
                /\ lock' = IF h = ProfileEnd THEN "free" ELSE lock
                /\ wire' \in {wire, IF h = Hold THEN wire \cup {BrowserClose} ELSE wire} /\ pending' = pending
                /\ h = ProxyStart => at[h] # 1
  <2>1. n \in 2..5
    BY <1>1, <1>5 DEF Following, Steps
  <2>2. Len(Script(h)) \in 0..4
    BY ScriptsKnown
  <2>3. h = ProxyStart /\ at[h] = 1 => reply[h] = "answered" /\ n = 2 /\ Len(Script(h)) = 3
    <3> SUFFICES ASSUME h = ProxyStart, at[h] = 1 PROVE reply[h] = "answered" /\ n = 2 /\ Len(Script(h)) = 3
      OBVIOUS
    <3>1. Script(h) = <<"createContext", "openTab", "closeBlanks">>
      BY ScriptsKnown
    <3>2. Fatal(h, 1)
      BY <3>1 DEF Fatal
    <3>3. n = 2
      <4>1. h # ProfileEnd
        BY DEF ProxyStart, ProfileEnd
      <4>2. n \in {at[h] + 1}
        BY <1>5, <4>1 DEF Following
      <4> QED BY <4>2
    <3>4. Len(Script(h)) = 3
      BY <3>1
    <3>5. at[h] = 1 /\ Fatal(h, at[h])
      BY <3>2
    <3> QED BY <1>1, <1>5, <3>3, <3>4, <3>5
  <2>4. CASE n > Len(Script(h))
    <3>1. HookEnds(h, Done)
      BY <1>5, <2>4
    <3>2. h = ProxyStart => at[h] # 1
      BY <2>3, <2>4
    <3> QED BY <1>2, <3>1, <3>2
  <2>5. CASE ~(n > Len(Script(h)))
    <3>1. SendsNext(h, n) /\ lock' = lock
      BY <1>5, <2>5, SendEffect
    <3>2. n \in 2..4 /\ n <= Len(Script(h))
      <4>1. ASSUME NEW l \in 0..4, NEW m \in 2..5, ~(m > l) PROVE m \in 2..4 /\ m <= l
        BY <4>1
      <4> QED BY <2>1, <2>2, <2>5, <4>1
    <3> QED BY <2>3, <3>1, <3>2
  <2> QED BY <2>4, <2>5
<1> QED BY <1>3, <1>4, <1>5 DEF HookResumes

\* The types, without what a connection asks for, which stays.
Typed == PipelineTypeOK /\ pending \subseteq Hooks \X Steps

\* The next command of a hook is one of those there are.
LEMMA SendTyped ==
  ASSUME Typed, NEW h \in Hooks, NEW k \in 1..4, SendsNext(h, k)
  PROVE  /\ at' \in [Hooks -> {Idle, Done, Failed} \cup Steps]
         /\ reply' \in [Hooks -> {"none", "answered", "rejected"}]
         /\ pending' \subseteq Hooks \X Steps /\ pending' \subseteq InternalIds
         /\ wire' \subseteq InternalIds \cup ClientCommands
<1>1. <<h, k>> \in Hooks \X Steps
  BY DEF Steps
<1>2. at' \in [Hooks -> {Idle, Done, Failed} \cup Steps]
  BY DEF SendsNext, Typed, PipelineTypeOK, Steps
<1>3. reply' \in [Hooks -> {"none", "answered", "rejected"}]
  BY DEF SendsNext, Typed, PipelineTypeOK
<1> QED BY <1>1, <1>2, <1>3 DEF SendsNext, Typed, PipelineTypeOK, InternalIds

\* A hook that is through.
LEMMA ThroughTyped ==
  ASSUME Typed, NEW h \in Hooks, NEW outcome \in {Done, Failed}, at' = [at EXCEPT ![h] = outcome]
  PROVE  at' \in [Hooks -> {Idle, Done, Failed} \cup Steps]
BY DEF Typed, PipelineTypeOK

\* A hook that is called.
LEMMA LaunchTyped ==
  ASSUME Typed, NEW h \in Hooks, Launch(h)
  PROVE  /\ at' \in [Hooks -> {Idle, Done, Failed} \cup Steps]
         /\ reply' \in [Hooks -> {"none", "answered", "rejected"}]
         /\ pending' \subseteq Hooks \X Steps /\ pending' \subseteq InternalIds
         /\ wire' \subseteq InternalIds \cup ClientCommands
<1>1. CASE SendsNext(h, 1)
  BY <1>1, SendTyped
<1>2. CASE at' = [at EXCEPT ![h] = Done] /\ UNCHANGED <<reply, pending, wire>>
  BY <1>2, ThroughTyped DEF Typed, PipelineTypeOK
<1> QED BY <1>1, <1>2, LaunchEffect

\* Nothing is outstanding after rejectAll.
LEMMA RejectTyped ==
  ASSUME Typed, RejectAll
  PROVE  reply' \in [Hooks -> {"none", "answered", "rejected"}] /\ pending' = {}
BY DEF RejectAll, Typed, PipelineTypeOK

\* The hook that start() awaits is one of the plugins'.
LEMMA StartHookIn ==
  ASSUME Typed, StartsDone, Starting
  PROVE  position \in 1..Len(Starters) /\ Starters[position] \in Parts /\ StartHook \in Hooks
<1>1. asked \in Requests
  BY DEF Typed, PipelineTypeOK, Requests
<1>2. position \in 1..Len(Starters)
  BY <1>1, StartersKnown DEF Starting, StartsDone, Typed, PipelineTypeOK
<1>3. Starters[position] \in Parts
  BY <1>1, <1>2, StartersKnown
<1> QED BY <1>2, <1>3 DEF StartHook, Parts, Hooks

\* So is the one that finalize() awaits.
LEMMA EndHookIn ==
  ASSUME Typed, Ending
  PROVE  ending \in 1..Len(Enders) /\ Enders[ending] \in Parts /\ EndHook \in Hooks /\ Len(Enders) \in 0..3
<1>1. asked \in Requests
  BY DEF Typed, PipelineTypeOK, Requests
<1>2. ending \in 1..Len(Enders)
  BY DEF Ending
<1>3. Enders[ending] \in Parts /\ Len(Enders) \in 0..3
  BY <1>1, <1>2, EndersKnown
<1> QED BY <1>2, <1>3 DEF EndHook, Parts, Hooks

\* The end begins with its first hook.
LEMMA FinalizeTyped ==
  ASSUME Typed, Finalize
  PROVE  closed' \in BOOLEAN /\ ending' \in 0..4
<1>1. closed \in BOOLEAN /\ ending \in 0..4
  BY DEF Typed, PipelineTypeOK
<1>2. CASE closed
  BY <1>1, <1>2 DEF Finalize
<1>3. CASE ~closed
  BY <1>1, <1>3 DEF Finalize
<1> QED BY <1>2, <1>3

\* A step, whether or not the event loop would take it now.
PipelineStep ==
  \/ Hook \/ Timers \/ Disk \/ Messages \/ Peers

\* Every step keeps the types.
LEMMA PipelineTypes ==
  ASSUME Typed, StartsDone, PipelineStep
  PROVE  Typed'
<1>a. PipelineTypeOK /\ pending \subseteq Hooks \X Steps
  BY DEF Typed
<1>1. CASE Request \/ DialFails \/ DialOpens
  BY <1>a, <1>1 DEF Request, DialFails, DialOpens, Typed, PipelineTypeOK
<1>2. CASE CallStartHook
  BY <1>a, <1>2, StartHookIn, LaunchTyped DEF CallStartHook, Typed, PipelineTypeOK
<1>3. CASE StartHookReturns
  <2>1. position' \in 0..4
    <3>1. asked \in Requests
      BY <1>a DEF PipelineTypeOK, Requests
    <3>2. position + 1 \in 0..4
      BY <1>3, <3>1, StartHookIn, StartersKnown DEF StartHookReturns
    <3> QED BY <1>a, <1>3, <3>2 DEF StartHookReturns, PipelineTypeOK
  <2> QED BY <1>a, <1>3, <2>1 DEF StartHookReturns, Typed, PipelineTypeOK
<1>4. ASSUME StartFails, gaveUp' \subseteq Hooks PROVE Typed'
  BY <1>a, <1>4, RejectTyped DEF StartFails, Typed, PipelineTypeOK
<1>5. CASE StartHookThrows
  BY <1>a, <1>4, <1>5 DEF StartHookThrows, PipelineTypeOK
<1>6. CASE StartTimer
  BY <1>a, <1>4, <1>6, StartHookIn DEF StartTimer, PipelineTypeOK
<1>7. CASE Upgrade
  BY <1>a, <1>7 DEF Upgrade, Typed, PipelineTypeOK
<1>8. CASE CallEndHook
  BY <1>a, <1>8, EndHookIn, LaunchTyped DEF CallEndHook, Typed, PipelineTypeOK
<1>9. CASE EndHookSettles \/ EndTimer
  <2>1. ending' \in 0..4 /\ gaveUp' \subseteq Hooks
    BY <1>a, <1>9, EndHookIn DEF EndHookSettles, EndTimer, PipelineTypeOK
  <2> QED BY <1>a, <1>9, <2>1 DEF EndHookSettles, EndTimer, Typed, PipelineTypeOK
<1>10. CASE Finish
  <2>1. client' \in {"http", "gone", "open", "closed"} /\ reply' \in [Hooks -> {"none", "answered", "rejected"}] /\ pending' = {}
        /\ relay' \in {"idle", "dialing", "starting", "running", "ended", "refused", "stranded"}
    BY <1>a, <1>10, RejectTyped DEF Finish, PipelineTypeOK
  <2> QED BY <1>a, <1>10, <2>1 DEF Finish, Typed, PipelineTypeOK
<1>11. ASSUME NEW h \in Hooks, HookResumes(h) PROVE Typed'
  <2>1. /\ at' \in [Hooks -> {Idle, Done, Failed} \cup Steps]
        /\ reply' \in [Hooks -> {"none", "answered", "rejected"}]
        /\ pending' \subseteq Hooks \X Steps /\ pending' \subseteq InternalIds
        /\ wire' \subseteq InternalIds \cup ClientCommands /\ lock' \in {"held", "free"}
    <3>1. ASSUME NEW k \in 2..4, SendsNext(h, k), lock' = lock PROVE <2>1
      BY <1>a, <3>1, SendTyped DEF PipelineTypeOK
    <3>2. ASSUME NEW outcome \in {Done, Failed}, at' = [at EXCEPT ![h] = outcome],
                 reply' = [reply EXCEPT ![h] = "none"], lock' \in {"free", lock},
                 wire' \in {wire, wire \cup {BrowserClose}}, pending' = pending
          PROVE  <2>1
      <4>1. at' \in [Hooks -> {Idle, Done, Failed} \cup Steps]
        BY <3>2, ThroughTyped
      <4>2. reply' \in [Hooks -> {"none", "answered", "rejected"}]
        BY <1>a, <3>2 DEF PipelineTypeOK
      <4> QED BY <1>a, <3>2, <4>1, <4>2 DEF PipelineTypeOK, ClientCommands
    <3> QED BY <1>a, <1>11, <3>1, <3>2, ResumeEffect
  <2>2. context' \in {"none", "created", "known", "disposed"} /\ cookies' \in BOOLEAN
    <3>1. cookies' \in BOOLEAN
      BY <1>a, <1>11 DEF HookResumes, HookEnds, PipelineTypeOK
    <3> QED BY <1>a, <1>11, <3>1 DEF HookResumes, PipelineTypeOK
  <2> QED BY <1>a, <1>11, <2>1, <2>2 DEF HookResumes, Typed, PipelineTypeOK
<1>12. ASSUME NEW h \in Hooks, FilesSettle(h) PROVE Typed'
  <2>1. reply' \in [Hooks -> {"none", "answered", "rejected"}]
    BY <1>a, <1>12 DEF FilesSettle, PipelineTypeOK
  <2> QED BY <1>a, <1>12, <2>1 DEF FilesSettle, Typed, PipelineTypeOK
<1>13. CASE SnapshotsTimeOut
  <2>1. reply' \in [Hooks -> {"none", "answered", "rejected"}]
    BY <1>a, <1>13 DEF SnapshotsTimeOut, PipelineTypeOK
  <2> QED BY <1>a, <1>13, <2>1 DEF SnapshotsTimeOut, Typed, PipelineTypeOK
<1>14. CASE Acknowledge
  BY <1>a, <1>14 DEF Acknowledge, Typed, PipelineTypeOK, InternalIds
<1>15. ASSUME NEW c \in ClientCommands, ClientSends(c) PROVE Typed'
  <2>1. Hold \in Hooks
    BY DEF Hold, Hooks
  <2>2. CASE Launch(Hold)
    BY <1>a, <1>15, <2>1, <2>2, LaunchTyped DEF ClientSends, Typed, PipelineTypeOK
  <2>3. CASE wire' = Written({c}) /\ UNCHANGED <<at, reply, pending>>
    BY <1>a, <1>15, <2>3 DEF ClientSends, Written, Typed, PipelineTypeOK
  <2> QED BY <1>15, <2>2, <2>3 DEF ClientSends
<1>16. ASSUME NEW w \in wire, OnUpstreamMessage(w) PROVE Typed'
  <2>1. /\ pending' \subseteq pending /\ reply' \in [Hooks -> {"none", "answered", "rejected"}]
        /\ delivered' \subseteq InternalIds \cup ClientCommands /\ closed' \in BOOLEAN /\ ending' \in 0..4
        /\ context' \in {"none", "created", "known", "disposed"}
    <3>1. CASE Dropped(w) /\ Effect(w)
      BY <1>a, <3>1 DEF Dropped, Effect, PipelineTypeOK
    <3>2. ASSUME NEW good \in BOOLEAN, Owned(w, good), Effect(w) \/ UNCHANGED context PROVE <2>1
      <4>1. reply' \in [Hooks -> {"none", "answered", "rejected"}]
        BY <1>a, <3>2 DEF Owned, Settle, PipelineTypeOK
      <4> QED BY <1>a, <3>2, <4>1 DEF Owned, Settle, Effect, PipelineTypeOK
    <3>3. CASE Swallowed(w) /\ Effect(w)
      BY <1>a, <3>3 DEF Swallowed, Effect, PipelineTypeOK
    <3>4. CASE Forwarded(w) /\ UNCHANGED context
      <4>1. closed' \in BOOLEAN /\ ending' \in 0..4
        BY <1>a, <3>4, FinalizeTyped DEF Forwarded, PipelineTypeOK
      <4>2. delivered' \subseteq InternalIds \cup ClientCommands
        BY <1>a, <3>4 DEF Forwarded, Receives, PipelineTypeOK
      <4>3. pending' = pending /\ reply' = reply /\ context' = context
        BY <3>4 DEF Forwarded
      <4> QED BY <1>a, <4>1, <4>2, <4>3 DEF PipelineTypeOK
    <3> QED BY <1>16, <3>1, <3>2, <3>3, <3>4 DEF OnUpstreamMessage
  <2> QED BY <1>a, <1>16, <2>1 DEF OnUpstreamMessage, Typed, PipelineTypeOK
<1>17. CASE UpstreamCloses \/ ClientCloses \/ ClientLeaves
  <2>1. closed' \in BOOLEAN /\ ending' \in 0..4
    BY <1>a, <1>17, FinalizeTyped DEF UpstreamCloses, ClientCloses, ClientLeaves, PipelineTypeOK
  <2>2. CASE UpstreamCloses
    BY <1>a, <2>1, <2>2 DEF UpstreamCloses, Typed, PipelineTypeOK
  <2>3. CASE ClientCloses
    BY <1>a, <2>1, <2>3 DEF ClientCloses, Typed, PipelineTypeOK
  <2>4. CASE ClientLeaves
    BY <1>a, <2>1, <2>4 DEF ClientLeaves, Typed, PipelineTypeOK
  <2> QED BY <1>17, <2>2, <2>3, <2>4
<1> QED BY <1>1, <1>2, <1>3, <1>5, <1>6, <1>7, <1>8, <1>9, <1>10, <1>11, <1>12, <1>13, <1>14, <1>15, <1>16, <1>17
        DEF PipelineStep, Hook, Timers, Disk, Messages, Peers

\* What a step may do to each part of the state.
RelayMoves ==
  \/ relay' = relay
  \/ relay = "idle" /\ relay' = "dialing"
  \/ relay = "dialing" /\ relay' = "refused"
  \/ relay = "dialing" /\ relay' = "starting" /\ position' = 1
  \/ relay = "starting" /\ relay' = "refused"
  \/ relay = "starting" /\ relay' \in {"running", "stranded"} /\ position > Len(Starters) /\ position' = position
  \/ relay = "running" /\ relay' = "ended" /\ ending > Len(Enders) /\ ending' = ending /\ position' = position

PositionMoves ==
  \/ position' = position
  \/ relay = "dialing" /\ relay' = "starting" /\ position' = 1
  \/ Starting /\ at[StartHook] = Done /\ position' = position + 1

EndingMoves ==
  \/ ending' = ending /\ (closed' = closed \/ closed')
  \/ /\ ~closed /\ closed' /\ ending' = 1 /\ relay' = relay
     /\ lost' \/ relay \in {"running", "ended"}
  \/ /\ Ending /\ ending' = ending + 1 /\ closed' = closed
     /\ \/ at[EndHook] \in {Done, Failed}
        \/ at[EndHook] \in Steps /\ EndHook \in gaveUp'

Grows ==
  /\ asked' = asked /\ gaveUp \subseteq gaveUp' /\ sent \subseteq sent'
  /\ lost => lost'
  /\ \A w \in delivered' : w \in delivered \/ (w \in wire /\ w \in ClientCommands)
  /\ \/ client = "open"
     \/ sent' = sent /\ (client' \in {client, "gone"} \/ relay' = "running")

Called(h) ==
  \/ Starting /\ h = StartHook
  \/ Ending /\ h = EndHook
  \/ h = Hold /\ BrowserClose \in sent'

HookMoves(h) ==
  \/ at'[h] = at[h]
  \/ /\ at[h] = Idle /\ Called(h)
     /\ \/ at'[h] = 1 /\ Script(h) # << >>
        \/ at'[h] = Done /\ Script(h) = << >>
  \/ /\ at[h] \in Steps /\ reply[h] # "none"
     /\ \/ at'[h] \in 2..4 /\ at'[h] <= Len(Script(h))
        \/ at'[h] \in {Done, Failed} /\ (h = ProfileEnd => lock' = "free")
     /\ h = ProxyStart /\ at[h] = 1 /\ at'[h] # Failed => context' = "known"

ReplyMoves(h) ==
  \/ reply'[h] \in {reply[h], "none"}
  \/ at[h] \in Steps /\ at'[h] = at[h]

WireMoves ==
  \A w \in wire' :
    \/ w \in wire \/ w = OneWay
    \/ w \in ClientCommands /\ (w \in sent' \/ (w = BrowserClose /\ at[Hold] # Idle))
    \/ \E h \in Hooks : /\ w = <<h, at'[h]>> /\ reply'[h] = "none" /\ at'[h] \in Steps
                        /\ (at[h] = Idle /\ Script(h) # << >>) \/ at'[h] # 1

ContextMoves ==
  \/ context' = context
  \/ at[ProxyStart] = 1 /\ at'[ProxyStart] # Done /\ context' \in {"created", "known"}
  \/ <<ProxyEnd, 1>> \in wire /\ context' = "disposed"

ProxyMoves ==
  /\ <<ProxyStart, 1>> \in wire /\ <<ProxyStart, 1>> \in wire' =>
       at'[ProxyStart] = at[ProxyStart] /\ reply'[ProxyStart] = "none"
  /\ reply'[ProxyEnd] # "none" /\ reply[ProxyEnd] = "none" =>
       context' = "disposed" \/ relay' = "refused" \/ ending > Len(Enders)

\* A step that is not about a hook.
Still == UNCHANGED <<at, reply, context, lock>> /\ wire' \subseteq wire

\* It moves no hook.
LEMMA StillMoves ==
  ASSUME Typed, ContextGoes, Still
  PROVE  /\ \A h \in Hooks : HookMoves(h) /\ ReplyMoves(h)
         /\ WireMoves /\ ContextMoves /\ ProxyMoves /\ lock' \in {lock, "free"}
BY DEF Still, HookMoves, ReplyMoves, WireMoves, ContextMoves, ProxyMoves, ContextGoes

\* The hooks that are named are different ones, and no command of theirs is a client's.
LEMMA HooksDiffer ==
  /\ {ProxyStart, ProfileStart, Hold, ProfileEnd, ProxyEnd} \subseteq Hooks
  /\ ProxyStart # ProfileStart /\ ProxyStart # Hold /\ ProxyStart # ProfileEnd /\ ProxyStart # ProxyEnd
  /\ ProxyEnd # ProfileEnd /\ ProxyEnd # Hold /\ ProxyEnd # ProfileStart /\ Hold # ProfileEnd
  /\ \A s : Hold # <<s, "start">> /\ Hold # <<s, "end">> /\ ProxyStart # <<s, "end">> /\ ProxyEnd # <<s, "start">>
  /\ \A h, k : h \in Hooks => <<h, k>> \notin ClientCommands /\ <<h, k>> # OneWay
BY DEF ProxyStart, ProfileStart, Hold, ProfileEnd, ProxyEnd, Hooks, ClientCommands, Plain, BrowserClose, OneWay

\* A hook that is called sends its first command, or is through when it has none.
LEMMA CallMoves ==
  ASSUME PipelineInv, NEW h \in Hooks, at[h] = Idle, Called(h), Launch(h), context' = context, lock' = lock
  PROVE  /\ \A g \in Hooks : HookMoves(g) /\ ReplyMoves(g)
         /\ WireMoves /\ ContextMoves /\ ProxyMoves /\ lock' \in {lock, "free"}
<1>1. CASE Script(h) # << >> /\ SendsNext(h, 1)
  <2>1. at'[h] = 1 /\ reply'[h] = "none" /\ (\A g \in Hooks : g # h => at'[g] = at[g] /\ reply'[g] = reply[g])
    BY <1>1 DEF SendsNext, PipelineInv, PipelineTypeOK
  <2>2. \A g \in Hooks : HookMoves(g) /\ ReplyMoves(g)
    BY <1>1, <2>1 DEF HookMoves, ReplyMoves
  <2>3. WireMoves
    BY <1>1, <2>1 DEF SendsNext, WireMoves, Steps
  <2>4. ContextMoves /\ ProxyMoves
    BY <2>1, HooksDiffer DEF ContextMoves, ProxyMoves, PipelineInv, ContextGoes, Idle
  <2> QED BY <2>2, <2>3, <2>4
<1>2. CASE Script(h) = << >> /\ at' = [at EXCEPT ![h] = Done] /\ UNCHANGED <<reply, pending, wire>>
  <2>1. at'[h] = Done /\ reply' = reply /\ wire' = wire /\ (\A g \in Hooks : g # h => at'[g] = at[g])
    BY <1>2 DEF PipelineInv, PipelineTypeOK
  <2>2. \A g \in Hooks : HookMoves(g) /\ ReplyMoves(g)
    BY <1>2, <2>1 DEF HookMoves, ReplyMoves
  <2>3. WireMoves
    BY <2>1 DEF WireMoves
  <2>4. ContextMoves /\ ProxyMoves
    BY <2>1, HooksDiffer DEF ContextMoves, ProxyMoves, PipelineInv, ContextGoes, Idle
  <2> QED BY <2>2, <2>3, <2>4
<1> QED BY <1>1, <1>2, LaunchEffect

\* A hook goes on when its command is settled: to the next one, or to its end.
LEMMA GoesOnMoves ==
  ASSUME PipelineInv, NEW h \in Hooks, HookResumes(h)
  PROVE  /\ \A g \in Hooks : HookMoves(g) /\ ReplyMoves(g)
         /\ WireMoves /\ ContextMoves /\ ProxyMoves /\ lock' \in {lock, "free"}
<1>1. at[h] \in Steps /\ reply[h] # "none" /\ context' = IF h = ProxyStart /\ at[h] = 1 /\ reply[h] = "answered" THEN "known" ELSE context
  BY DEF HookResumes, InHook
<1>2. ASSUME NEW k \in 2..4, k <= Len(Script(h)), SendsNext(h, k), lock' = lock, h = ProxyStart => reply[h] = "answered" \/ at[h] # 1
      PROVE  /\ \A g \in Hooks : HookMoves(g) /\ ReplyMoves(g)
             /\ WireMoves /\ ContextMoves /\ ProxyMoves /\ lock' \in {lock, "free"}
  <2>1. at'[h] = k /\ reply'[h] = "none" /\ (\A g \in Hooks : g # h => at'[g] = at[g] /\ reply'[g] = reply[g])
    BY <1>2 DEF SendsNext, PipelineInv, PipelineTypeOK
  <2>2. k \in Steps /\ k # 1 /\ k # Done
    BY DEF Steps, Done
  <2>3. \A g \in Hooks : HookMoves(g) /\ ReplyMoves(g)
    BY <1>1, <1>2, <2>1 DEF HookMoves, ReplyMoves
  <2>4. WireMoves
    BY <1>2, <2>1, <2>2 DEF SendsNext, WireMoves
  <2>5. ContextMoves
    BY <1>1, <2>1, <2>2, HooksDiffer DEF ContextMoves
  <2>6. ProxyMoves
    BY <1>1, <2>1, HooksDiffer DEF ProxyMoves, PipelineInv, ContextGoes
  <2> QED BY <1>2, <2>3, <2>4, <2>5, <2>6
<1>3. ASSUME NEW outcome \in {Done, Failed}, at' = [at EXCEPT ![h] = outcome], reply' = [reply EXCEPT ![h] = "none"],
             lock' = IF h = ProfileEnd THEN "free" ELSE lock,
             wire' \in {wire, IF h = Hold THEN wire \cup {BrowserClose} ELSE wire},
             h = ProxyStart /\ outcome = Done => at[h] # 1
      PROVE  /\ \A g \in Hooks : HookMoves(g) /\ ReplyMoves(g)
             /\ WireMoves /\ ContextMoves /\ ProxyMoves /\ lock' \in {lock, "free"}
  <2>1. at'[h] = outcome /\ reply'[h] = "none" /\ (\A g \in Hooks : g # h => at'[g] = at[g] /\ reply'[g] = reply[g])
    BY <1>3 DEF PipelineInv, PipelineTypeOK
  <2>3. \A g \in Hooks : HookMoves(g) /\ ReplyMoves(g)
    BY <1>1, <1>3, <2>1 DEF HookMoves, ReplyMoves
  <2>4. WireMoves
    <3>1. h = Hold => at[Hold] # Idle /\ BrowserClose \in ClientCommands
      BY <1>1 DEF Idle, Steps, ClientCommands
    <3> QED BY <1>3, <3>1 DEF WireMoves
  <2>5. ContextMoves
    BY <1>1, <1>3, <2>1, HooksDiffer DEF ContextMoves
  <2>6. ProxyMoves
    BY <1>1, <2>1, HooksDiffer DEF ProxyMoves, PipelineInv, ContextGoes
  <2> QED BY <1>3, <2>3, <2>4, <2>5, <2>6
<1> QED BY <1>2, <1>3, ResumeEffect DEF PipelineInv

\* What a step does to the hooks.
HooksMove ==
  /\ \A g \in Hooks : HookMoves(g) /\ ReplyMoves(g)
  /\ WireMoves /\ ContextMoves /\ ProxyMoves /\ lock' \in {lock, "free"}

\* rejectAll answers hooks and moves none.
LEMMA RejectMoves ==
  ASSUME PipelineInv, RejectAll, UNCHANGED <<at, context, lock>>, wire' = {}, relay' = "refused" \/ ending > Len(Enders)
  PROVE  HooksMove
<1>1. \A h \in Hooks : reply'[h] = reply[h] \/ at[h] \in Steps
  <2> SUFFICES ASSUME NEW h \in Hooks, reply'[h] # reply[h] PROVE at[h] \in Steps
    OBVIOUS
  <2>1. PICK id \in pending : id[1] = h /\ at[id[1]] = id[2]
    BY DEF RejectAll, Awaits
  <2>2. id[2] \in Steps
    BY <2>1 DEF PipelineInv
  <2> QED BY <2>1, <2>2
<1> QED BY <1>1 DEF HooksMove, HookMoves, ReplyMoves, WireMoves, ContextMoves, ProxyMoves

\* An answer, or what stands for one.
LEMMA ReplyOneMoves ==
  ASSUME PipelineInv, NEW h \in Hooks, at[h] \in Steps, NEW r, reply' = [reply EXCEPT ![h] = r],
         UNCHANGED <<at, lock>>, ContextMoves, wire' \subseteq wire,
         h = ProxyStart => <<ProxyStart, 1>> \notin wire', h = ProxyEnd => context' = "disposed"
  PROVE  HooksMove
BY HooksDiffer DEF HooksMove, HookMoves, ReplyMoves, WireMoves, ContextMoves, ProxyMoves, PipelineInv, PipelineTypeOK, ContextGoes

\* What the browser sends answers the hook that awaits it; a context that is disposed of is gone.
LEMMA AnswerMoves ==
  ASSUME PipelineInv, NEW w \in wire, OnUpstreamMessage(w)
  PROVE  HooksMove
<1>1. wire' = wire \ {w} /\ at' = at /\ lock' = lock
  BY DEF OnUpstreamMessage
<1>2. ASSUME Effect(w) PROVE ContextMoves
  BY <1>1, <1>2, HooksDiffer DEF Effect, ContextMoves, PipelineInv, ContextGoes, Done
<1>3. context' = context \/ Effect(w)
  BY DEF OnUpstreamMessage
<1>4. ContextMoves
  BY <1>2, <1>3 DEF ContextMoves
<1>5. ASSUME reply' = reply PROVE HooksMove
  BY <1>1, <1>4, <1>5 DEF HooksMove, HookMoves, ReplyMoves, WireMoves, ContextMoves, ProxyMoves, PipelineInv, ContextGoes
<1>6. ASSUME NEW good \in BOOLEAN, Owned(w, good), w = <<ProxyEnd, 1>> => good /\ Effect(w) PROVE HooksMove
  <2>1. CASE ~Awaits(w)
    BY <1>5, <1>6, <2>1 DEF Owned, Settle
  <2>2. CASE Awaits(w)
    <3>1. PICK h \in Hooks, k \in Steps : w = <<h, k>>
      BY <1>6 DEF Owned, PipelineInv
    <3>2. at[h] = k /\ reply' = [reply EXCEPT ![h] = IF good THEN "answered" ELSE "rejected"]
      BY <1>6, <2>2, <3>1 DEF Owned, Settle, Awaits
    <3>3. h = ProxyStart => <<ProxyStart, 1>> \notin wire'
      BY <1>1, <3>1, <3>2 DEF PipelineInv, ContextGoes
    <3>4. h = ProxyEnd => context' = "disposed"
      <4> SUFFICES ASSUME h = ProxyEnd PROVE context' = "disposed"
        OBVIOUS
      <4>1. k = 1
        BY <3>1, <3>2 DEF PipelineInv, ContextGoes, Steps
      <4>2. w = <<ProxyEnd, 1>> /\ w # <<ProxyStart, 1>>
        BY <3>1, <4>1, HooksDiffer
      <4> QED BY <1>6, <4>2 DEF Effect
    <3> QED BY <1>1, <1>4, <3>1, <3>2, <3>3, <3>4, ReplyOneMoves
  <2> QED BY <2>1, <2>2
<1>7. CASE Dropped(w)
  BY <1>5, <1>7 DEF Dropped
<1>8. CASE Owned(w, TRUE) /\ Effect(w)
  BY <1>6, <1>8
<1>9. CASE w # <<ProxyEnd, 1>> /\ Owned(w, FALSE)
  BY <1>6, <1>9
<1>10. CASE Swallowed(w)
  BY <1>5, <1>10 DEF Swallowed
<1>11. CASE Forwarded(w)
  BY <1>5, <1>11 DEF Forwarded
<1> QED BY <1>7, <1>8, <1>9, <1>10, <1>11 DEF OnUpstreamMessage

\* The rest of it.
OthersMove == RelayMoves /\ PositionMoves /\ EndingMoves /\ Grows

\* The first reason ends the session.
LEMMA FinalizeMoves ==
  ASSUME PipelineInv, Finalize, relay' = relay, lost' \/ relay \in {"running", "ended"}
  PROVE  EndingMoves
BY DEF Finalize, EndingMoves, PipelineInv, PipelineTypeOK

\* Every action is such a step.
LEMMA PipelineMoves ==
  ASSUME PipelineInv, PipelineStep
  PROVE  HooksMove /\ OthersMove
<1>t. Typed /\ StartsDone /\ ContextGoes
  BY DEF PipelineInv, Typed
<1>s. ASSUME Still PROVE HooksMove
  BY <1>t, <1>s, StillMoves DEF HooksMove
<1>1. CASE Request \/ DialFails \/ DialOpens
  <2>1. HooksMove
    BY <1>1, <1>s DEF Request, DialFails, DialOpens, Still
  <2>2. OthersMove
    BY <1>1 DEF Request, DialFails, DialOpens, OthersMove, RelayMoves, PositionMoves, EndingMoves, Grows
  <2> QED BY <2>1, <2>2
<1>2. CASE CallStartHook
  <2>1. HooksMove
    BY <1>2, <1>t, StartHookIn, CallMoves DEF CallStartHook, HooksMove, Called
  <2>2. OthersMove
    BY <1>2 DEF CallStartHook, OthersMove, RelayMoves, PositionMoves, EndingMoves, Grows
  <2> QED BY <2>1, <2>2
<1>3. CASE StartHookReturns
  <2>1. HooksMove
    BY <1>3, <1>s DEF StartHookReturns, Still
  <2>2. OthersMove
    BY <1>3 DEF StartHookReturns, Starting, OthersMove, RelayMoves, PositionMoves, EndingMoves, Grows
  <2> QED BY <2>1, <2>2
<1>4. CASE StartHookThrows \/ StartTimer
  <2>1. HooksMove
    BY <1>4, RejectMoves DEF StartHookThrows, StartTimer, StartFails
  <2>2. OthersMove
    BY <1>4 DEF StartHookThrows, StartTimer, StartFails, Starting, OthersMove, RelayMoves, PositionMoves, EndingMoves, Grows
  <2> QED BY <2>1, <2>2
<1>5. CASE Upgrade
  <2>1. HooksMove
    BY <1>5, <1>s DEF Upgrade, Still
  <2>2. OthersMove
    BY <1>5 DEF Upgrade, OthersMove, RelayMoves, PositionMoves, EndingMoves, Grows
  <2> QED BY <2>1, <2>2
<1>6. CASE CallEndHook
  <2>1. HooksMove
    BY <1>6, <1>t, EndHookIn, CallMoves DEF CallEndHook, HooksMove, Called
  <2>2. OthersMove
    BY <1>6 DEF CallEndHook, OthersMove, RelayMoves, PositionMoves, EndingMoves, Grows
  <2> QED BY <2>1, <2>2
<1>7. CASE EndHookSettles \/ EndTimer
  <2>1. HooksMove
    BY <1>7, <1>s DEF EndHookSettles, EndTimer, Still
  <2>2. OthersMove
    BY <1>7 DEF EndHookSettles, EndTimer, InHook, OthersMove, RelayMoves, PositionMoves, EndingMoves, Grows
  <2> QED BY <2>1, <2>2
<1>8. CASE Finish
  <2>1. HooksMove
    BY <1>8, RejectMoves DEF Finish
  <2>2. OthersMove
    BY <1>8 DEF Finish, OthersMove, RelayMoves, PositionMoves, EndingMoves, Grows
  <2> QED BY <2>1, <2>2
<1>9. ASSUME NEW h \in Hooks, HookResumes(h) PROVE HooksMove /\ OthersMove
  <2>1. HooksMove
    BY <1>9, GoesOnMoves DEF HooksMove
  <2>2. OthersMove
    BY <1>9 DEF HookResumes, OthersMove, RelayMoves, PositionMoves, EndingMoves, Grows
  <2> QED BY <2>1, <2>2
<1>10. ASSUME NEW h \in Hooks, FilesSettle(h) PROVE HooksMove /\ OthersMove
  <2>1. HooksMove
    <3>1. at[h] \in Steps /\ Script(h)[at[h]] = "files" /\ UNCHANGED <<at, lock, wire, context>>
      BY <1>10 DEF FilesSettle, InHook, Local
    <3>2. PICK r : reply' = [reply EXCEPT ![h] = r]
      BY <1>10 DEF FilesSettle
    <3>3. h = ProxyStart => <<ProxyStart, 1>> \notin wire'
      BY <3>1, <1>t, ScriptsKnown DEF ContextGoes
    <3>4. h # ProxyEnd
      <4>1. at[ProxyEnd] = 1 => Script(ProxyEnd)[at[ProxyEnd]] # "files"
        <5>1. at[ProxyEnd] = 1 => Script(ProxyEnd) = <<"dispose">>
          BY ScriptsKnown DEF InHook, Steps
        <5> QED BY <5>1
      <4>2. at[ProxyEnd] \notin {2, 3, 4}
        BY <1>t DEF ContextGoes
      <4> QED BY <3>1, <4>1, <4>2 DEF Steps
    <3> QED BY <3>1, <3>2, <3>3, <3>4, ReplyOneMoves DEF ContextMoves
  <2>2. OthersMove
    BY <1>10 DEF FilesSettle, OthersMove, RelayMoves, PositionMoves, EndingMoves, Grows
  <2> QED BY <2>1, <2>2
<1>11. CASE SnapshotsTimeOut
  <2>1. HooksMove
    <3>1. at[ProfileEnd] \in Steps
      BY <1>11 DEF SnapshotsTimeOut, Steps
    <3> QED BY <1>11, <3>1, HooksDiffer, ReplyOneMoves DEF SnapshotsTimeOut, ContextMoves
  <2>2. OthersMove
    BY <1>11 DEF SnapshotsTimeOut, OthersMove, RelayMoves, PositionMoves, EndingMoves, Grows
  <2> QED BY <2>1, <2>2
<1>12. CASE Acknowledge
  <2>1. HooksMove
    BY <1>12, HooksDiffer DEF Acknowledge, HooksMove, HookMoves, ReplyMoves, WireMoves, ContextMoves, ProxyMoves, PipelineInv, ContextGoes
  <2>2. OthersMove
    BY <1>12 DEF Acknowledge, OthersMove, RelayMoves, PositionMoves, EndingMoves, Grows
  <2> QED BY <2>1, <2>2
<1>13. ASSUME NEW c \in ClientCommands, ClientSends(c) PROVE HooksMove /\ OthersMove
  <2>1. CASE c = BrowserClose /\ Saves
    <3>1. at[Hold] = Idle /\ Called(Hold) /\ Launch(Hold)
      BY <1>13, <2>1 DEF ClientSends, PipelineInv, ClientsOwn, Called
    <3> QED BY <1>13, <3>1, CallMoves, HooksDiffer DEF HooksMove, ClientSends, OthersMove, RelayMoves, PositionMoves, EndingMoves, Grows
  <2>2. CASE ~(c = BrowserClose /\ Saves)
    <3>1. wire' \subseteq wire \cup {c} /\ UNCHANGED <<at, reply, pending, lock, context>> /\ c \in sent'
      BY <1>13, <2>2 DEF ClientSends, Written
    <3>2. HooksMove
      BY <3>1, HooksDiffer DEF HooksMove, HookMoves, ReplyMoves, WireMoves, ContextMoves, ProxyMoves, PipelineInv, ContextGoes
    <3> QED BY <1>13, <3>2 DEF ClientSends, OthersMove, RelayMoves, PositionMoves, EndingMoves, Grows
  <2> QED BY <2>1, <2>2
<1>14. ASSUME NEW w \in wire, OnUpstreamMessage(w) PROVE HooksMove /\ OthersMove
  <2>1. HooksMove
    BY <1>14, AnswerMoves
  <2>2. RelayMoves /\ PositionMoves
    BY <1>14 DEF OnUpstreamMessage, RelayMoves, PositionMoves
  <2>3. Grows
    BY <1>14 DEF OnUpstreamMessage, Dropped, Owned, Swallowed, Forwarded, Receives, Internal, Grows
  <2>4. EndingMoves
    <3>1. CASE Forwarded(w) /\ w = BrowserClose
      <4>1. BrowserClose \in sent
        BY <1>14, <3>1 DEF PipelineInv, ClientsOwn, ClientCommands
      <4>2. relay \in {"running", "ended"} /\ relay' = relay
        BY <1>14, <4>1 DEF PipelineInv, ClientsOwn, OnUpstreamMessage
      <4> QED BY <3>1, <4>2, FinalizeMoves DEF Forwarded, EndingMoves
    <3>2. CASE ~(Forwarded(w) /\ w = BrowserClose)
      BY <1>14, <3>2 DEF OnUpstreamMessage, Dropped, Owned, Swallowed, Forwarded, EndingMoves
    <3> QED BY <3>1, <3>2
  <2> QED BY <2>1, <2>2, <2>3, <2>4 DEF OthersMove
<1>15. CASE UpstreamCloses
  <2>1. HooksMove
    BY <1>15, <1>s DEF UpstreamCloses, Still
  <2> QED BY <1>15, <2>1, FinalizeMoves DEF UpstreamCloses, OthersMove, RelayMoves, PositionMoves, Grows
<1>16. CASE ClientCloses
  <2>1. HooksMove
    BY <1>16, <1>s DEF ClientCloses, Still
  <2>2. relay \in {"running", "ended"}
    BY <1>16 DEF ClientCloses, PipelineInv, ClientsOwn
  <2> QED BY <1>16, <2>1, <2>2, FinalizeMoves DEF ClientCloses, OthersMove, RelayMoves, PositionMoves, Grows
<1>17. CASE ClientLeaves
  <2>1. HooksMove
    BY <1>17, <1>s DEF ClientLeaves, Still
  <2> QED BY <1>17, <2>1 DEF ClientLeaves, OthersMove, RelayMoves, PositionMoves, EndingMoves, Grows
<1> QED BY <1>1, <1>2, <1>3, <1>4, <1>5, <1>6, <1>7, <1>8, <1>9, <1>10, <1>11, <1>12, <1>13, <1>14, <1>15, <1>16, <1>17
        DEF PipelineStep, Hook, Timers, Disk, Messages, Peers

\* The hooks of a plugin.
LEMMA HooksNamed ==
  /\ \A part \in Parts : <<part, "start">> \in Hooks /\ <<part, "end">> \in Hooks
  /\ ProxyStart = <<"proxy", "start">> /\ ProxyEnd = <<"proxy", "end">> /\ ProfileEnd = <<"profile", "end">>
BY DEF Parts, Hooks, ProxyStart, ProxyEnd, ProfileEnd

\* What a connection asks for stays, and with it the order of its hooks.
LEMMA AskedStays ==
  ASSUME asked' = asked
  PROVE  Starters' = Starters /\ Enders' = Enders /\ Saves' = Saves
BY DEF Starters, Enders, Saves, Given, Reverse

\* The start goes past a hook that is done, and a hook that is done stays so.
LEMMA StartsDoneStays ==
  ASSUME PipelineInv, HooksMove, OthersMove
  PROVE  StartsDone'
<1>1. Starters' = Starters
  BY AskedStays DEF OthersMove, Grows
<1>2. asked \in Requests /\ position \in 0..4
  BY DEF PipelineInv, PipelineTypeOK, Requests
<1>3. Len(Starters) \in 0..3 /\ \A i \in 1..Len(Starters) : Starters[i] \in Parts
  BY <1>2, StartersKnown
<1>4. relay' = "starting" => position' # 0
  BY <1>2 DEF OthersMove, RelayMoves, PositionMoves, PipelineInv, StartsDone
<1>5. \A h \in Hooks : at[h] = Done => at'[h] = Done
  BY DEF HooksMove, HookMoves, Done, Idle, Steps
<1>6. ASSUME NEW i \in 1..Len(Starters), i < position' PROVE at'[<<Starters[i], "start">>] = Done
  <2>1. <<Starters[i], "start">> \in Hooks
    BY <1>3, HooksNamed
  <2>2. i < position \/ (i = position /\ at[StartHook] = Done)
    BY <1>2, <1>3, <1>6 DEF OthersMove, PositionMoves
  <2>3. at[<<Starters[i], "start">>] = Done
    BY <2>2 DEF StartHook, PipelineInv, StartsDone
  <2> QED BY <1>5, <2>1, <2>3
<1>7. relay' \in {"running", "ended"} => position' > Len(Starters)
  BY <1>2, <1>3 DEF OthersMove, RelayMoves, PositionMoves, PipelineInv, StartsDone, Starting
<1> QED BY <1>1, <1>4, <1>6, <1>7 DEF StartsDone

\* The end goes past a hook that settled or was given up; no other hook is called meanwhile.
LEMMA EndsCalledStays ==
  ASSUME PipelineInv, HooksMove, OthersMove
  PROVE  EndsCalled'
<1>1. Enders' = Enders
  BY AskedStays DEF OthersMove, Grows
<1>2. asked \in Requests /\ ending \in 0..4 /\ closed \in BOOLEAN
  BY DEF PipelineInv, PipelineTypeOK, Requests
<1>3. Len(Enders) \in 0..3 /\ \A i \in 1..Len(Enders) : Enders[i] \in Parts
  BY <1>2, EndersKnown
<1>c. EndsCalled
  BY DEF PipelineInv
<1>4. ~closed' => ending' = 0
  BY <1>2, <1>c DEF OthersMove, EndingMoves, EndsCalled, Ending
<1>5. ending' # 0 /\ relay' \notin {"running", "ended", "stranded"} => lost'
  BY <1>2, <1>c DEF OthersMove, EndingMoves, EndsCalled, RelayMoves, Grows, Ending
<1>6. relay' = "ended" => ending' > Len(Enders)
  BY <1>2, <1>3, <1>c DEF OthersMove, EndingMoves, EndsCalled, RelayMoves, Ending
<1>7. \A h \in Hooks : /\ at[h] \in {Done, Failed} => at'[h] \in {Done, Failed}
                       /\ at[h] # Idle => at'[h] # Idle
  BY DEF HooksMove, HookMoves, Done, Failed, Idle, Steps
<1>8. gaveUp \subseteq gaveUp'
  BY DEF OthersMove, Grows
<1>9. ASSUME NEW i \in 1..Len(Enders), i < ending'
      PROVE  \/ at'[<<Enders[i], "end">>] \in {Done, Failed}
             \/ at'[<<Enders[i], "end">>] # Idle /\ <<Enders[i], "end">> \in gaveUp'
  <2>1. <<Enders[i], "end">> \in Hooks
    BY <1>3, HooksNamed
  <2>2. \/ i < ending
        \/ i = ending /\ (at[EndHook] \in {Done, Failed} \/ (at[EndHook] \in Steps /\ EndHook \in gaveUp'))
    BY <1>2, <1>3, <1>9 DEF OthersMove, EndingMoves
  <2>3. \/ at[<<Enders[i], "end">>] \in {Done, Failed}
        \/ at[<<Enders[i], "end">>] # Idle /\ <<Enders[i], "end">> \in gaveUp'
    BY <1>c, <1>8, <2>2 DEF EndHook, EndsCalled, Idle, Steps
  <2> QED BY <1>7, <2>1, <2>3
<1>10. ASSUME NEW i \in 1..Len(Enders), i > ending' PROVE at'[<<Enders[i], "end">>] = Idle
  <2>1. <<Enders[i], "end">> \in Hooks
    BY <1>3, HooksNamed
  <2>2. i > ending
    BY <1>2, <1>3, <1>c, <1>10 DEF OthersMove, EndingMoves, EndsCalled
  <2>3. at[<<Enders[i], "end">>] = Idle
    BY <1>c, <2>2 DEF EndsCalled
  <2>4. ~Called(<<Enders[i], "end">>)
    <3>1. <<Enders[i], "end">> # StartHook /\ <<Enders[i], "end">> # Hold
      BY HooksDiffer DEF StartHook
    <3>2. ASSUME Ending PROVE Enders[i] # Enders[ending]
      BY <1>2, <2>2, <3>2, EndersKnown DEF Ending
    <3> QED BY <3>1, <3>2 DEF Called, EndHook
  <2> QED BY <2>1, <2>3, <2>4 DEF HooksMove, HookMoves, Idle, Steps
<1> QED BY <1>1, <1>4, <1>5, <1>6, <1>9, <1>10 DEF EndsCalled

\* What goes to a client was on the wire as its own command.
LEMMA ClientsOwnStays ==
  ASSUME PipelineInv, HooksMove, OthersMove
  PROVE  ClientsOwn'
<1>1. ClientsOwn /\ Grows
  BY DEF PipelineInv, OthersMove
<1>2. delivered' \subseteq sent'
  BY <1>1 DEF ClientsOwn, Grows
<1>3. at'[Hold] # Idle => BrowserClose \in sent'
  <2>1. HookMoves(Hold)
    BY HooksDiffer DEF HooksMove
  <2>2. Called(Hold) => BrowserClose \in sent'
    BY HooksDiffer DEF Called, StartHook, EndHook
  <2> QED BY <1>1, <2>1, <2>2 DEF HookMoves, ClientsOwn, Grows, Idle, Steps
<1>4. wire' \cap ClientCommands \subseteq sent'
  <2> SUFFICES ASSUME NEW w \in wire', w \in ClientCommands PROVE w \in sent'
    OBVIOUS
  <2>1. \A h \in Hooks : w # <<h, at'[h]>>
    BY HooksDiffer
  <2>2. w # OneWay
    BY DEF ClientCommands, Plain, BrowserClose, OneWay
  <2> QED BY <1>1, <2>1, <2>2 DEF HooksMove, WireMoves, ClientsOwn, Grows
<1>5. relay' \notin {"running", "ended"} => client' \in {"http", "gone"} /\ sent' = {}
  BY <1>1 DEF ClientsOwn, Grows, OthersMove, RelayMoves
<1> QED BY <1>2, <1>3, <1>4, <1>5 DEF ClientsOwn

\* The end hook of a profile is through only with its last command, which gives the lock back.
LEMMA LockGoesStays ==
  ASSUME PipelineInv, HooksMove, OthersMove
  PROVE  LockGoes'
<1>1. Saves' = Saves /\ LockGoes
  BY AskedStays DEF OthersMove, Grows, PipelineInv
<1>2. HookMoves(ProfileEnd) /\ lock' \in {lock, "free"}
  BY HooksDiffer DEF HooksMove
<1>3. at'[ProfileEnd] \in {Done, Failed} => lock' = "free"
  BY <1>1, <1>2, ScriptsKnown DEF HookMoves, LockGoes, Done, Failed
<1> QED BY <1>1, <1>2, <1>3 DEF LockGoes

\* Once the start is over the proxy's start hook is done, and before the end its end hook idles.
LEMMA ProxyStarted ==
  ASSUME PipelineInv, asked.proxy
  PROVE  /\ relay \in {"running", "ended"} => at[ProxyStart] = Done
         /\ relay = "starting" /\ ~lost => at[ProxyEnd] = Idle
         /\ ending > Len(Enders) /\ gaveUp = {} => at[ProxyEnd] \in {Done, Failed}
<1>1. asked \in Requests /\ position \in 0..4 /\ ending \in 0..4
  BY DEF PipelineInv, PipelineTypeOK, Requests
<1>2. Len(Starters) \in 0..3 /\ Len(Enders) \in 0..3
  BY <1>1, StartersKnown, EndersKnown
<1>3. PICK i \in 1..Len(Starters) : Starters[i] = "proxy"
  BY <1>1, StartersKnown
<1>4. PICK j \in 1..Len(Enders) : Enders[j] = "proxy"
  BY <1>1, EndersKnown
<1>5. relay \in {"running", "ended"} => at[ProxyStart] = Done
  BY <1>1, <1>2, <1>3, HooksNamed DEF PipelineInv, StartsDone
<1>6. relay = "starting" /\ ~lost => at[ProxyEnd] = Idle
  BY <1>1, <1>2, <1>4, HooksNamed DEF PipelineInv, EndsCalled
<1>7. ending > Len(Enders) /\ gaveUp = {} => at[ProxyEnd] \in {Done, Failed}
  BY <1>1, <1>2, <1>4, HooksNamed DEF PipelineInv, EndsCalled
<1> QED BY <1>5, <1>6, <1>7

\* The context is known from the answer that lets the start go on, and its disposal is answered
\* only once it is disposed of.
LEMMA ContextGoesStays ==
  ASSUME PipelineInv, HooksMove, OthersMove
  PROVE  ContextGoes'
<1>1. ContextGoes /\ asked' = asked
  BY DEF PipelineInv, OthersMove, Grows
<1>2. HookMoves(ProxyStart) /\ ReplyMoves(ProxyStart) /\ HookMoves(ProxyEnd) /\ ReplyMoves(ProxyEnd)
  BY HooksDiffer DEF HooksMove
<1>3. asked \in Requests /\ Len(Starters) \in 0..3
  BY StartersKnown DEF PipelineInv, PipelineTypeOK, Requests
<1>4. Script(ProxyStart) # << >>
  BY ScriptsKnown
<1>5. \A h \in Hooks : at'[h] = Idle => reply'[h] = "none"
  BY <1>1 DEF HooksMove, HookMoves, ReplyMoves, ContextGoes, Idle, Steps, Done, Failed
<1>6. at'[ProxyStart] = Idle => context' = "none"
  BY <1>1, <1>2 DEF HooksMove, HookMoves, ContextMoves, ContextGoes, Idle, Steps, Done, Failed
<1>7. <<ProxyStart, 1>> \in wire' => at'[ProxyStart] = 1 /\ reply'[ProxyStart] = "none"
  <2> SUFFICES ASSUME <<ProxyStart, 1>> \in wire' PROVE at'[ProxyStart] = 1 /\ reply'[ProxyStart] = "none"
    OBVIOUS
  <2>1. CASE <<ProxyStart, 1>> \in wire
    BY <1>1, <2>1 DEF HooksMove, ProxyMoves, ContextGoes
  <2>2. CASE <<ProxyStart, 1>> \notin wire
    <3>1. PICK h \in Hooks : <<ProxyStart, 1>> = <<h, at'[h]>> /\ reply'[h] = "none"
      BY <2>2, HooksDiffer DEF HooksMove, WireMoves
    <3> QED BY <3>1
  <2> QED BY <2>1, <2>2
<1>8. <<ProxyEnd, 1>> \in wire' => at'[ProxyStart] # Idle
  <2> SUFFICES ASSUME <<ProxyEnd, 1>> \in wire' PROVE at'[ProxyStart] # Idle
    OBVIOUS
  <2>1. at[ProxyStart] # Idle
    <3>1. CASE <<ProxyEnd, 1>> \in wire
      BY <1>1, <3>1 DEF ContextGoes
    <3>2. CASE <<ProxyEnd, 1>> \notin wire
      <4>1. PICK h \in Hooks : /\ <<ProxyEnd, 1>> = <<h, at'[h]>>
                               /\ (at[h] = Idle /\ Script(h) # << >>) \/ at'[h] # 1
        BY <3>2, HooksDiffer DEF HooksMove, WireMoves
      <4>2. at[ProxyEnd] = Idle /\ Script(ProxyEnd) # << >>
        BY <4>1
      <4>3. context = "known"
        BY <4>2, ScriptsKnown DEF InHook, Idle, Steps
      <4> QED BY <1>1, <4>3 DEF ContextGoes
    <3> QED BY <3>1, <3>2
  <2> QED BY <1>2, <2>1 DEF HookMoves, Idle, Steps, Done, Failed
<1>9. at'[ProxyStart] \in {2, 3, 4, Done} => context' \in {"known", "disposed"}
  BY <1>1, <1>2, <1>4 DEF HooksMove, HookMoves, ContextMoves, ContextGoes, Idle, Steps, Done, Failed
<1>10. ~asked.proxy => at'[ProxyStart] = Idle
  <2> SUFFICES ASSUME ~asked.proxy PROVE at'[ProxyStart] = Idle
    OBVIOUS
  <2>1. ~Called(ProxyStart)
    <3>1. ProxyStart # EndHook /\ ProxyStart # Hold
      BY HooksDiffer DEF EndHook
    <3>2. ASSUME Starting PROVE ProxyStart # StartHook
      <4>1. position \in 1..Len(Starters)
        BY <3>2, StartHookIn DEF PipelineInv, Typed
      <4>2. Starters[position] # "proxy"
        BY <1>3, <4>1, StartersKnown
      <4> QED BY <4>2, HooksNamed DEF StartHook
    <3> QED BY <3>1, <3>2 DEF Called
  <2> QED BY <1>1, <1>2, <2>1 DEF HookMoves, ContextGoes, Idle, Steps
<1>11. at'[ProxyEnd] \notin {2, 3, 4}
  <2>1. Len(Script(ProxyEnd)) \in {0, 1}
    BY ScriptsKnown
  <2>2. ASSUME NEW l \in {0, 1}, NEW k \in 2..4 PROVE ~(k <= l)
    OBVIOUS
  <2>3. at'[ProxyEnd] \in {2, 3, 4} => at'[ProxyEnd] \in 2..4 /\ at'[ProxyEnd] <= Len(Script(ProxyEnd))
    BY <1>1, <1>2 DEF HookMoves, ContextGoes, Done, Failed
  <2> QED BY <2>1, <2>2, <2>3
<1>12. ASSUME relay' \in {"running", "ended"}, asked.proxy, ~lost', gaveUp' = {},
              at'[ProxyEnd] \in {Done, Failed} \/ reply'[ProxyEnd] # "none"
       PROVE  context' = "disposed"
  <2>1. ~lost /\ gaveUp = {}
    BY <1>12 DEF OthersMove, Grows
  <2>2. CASE relay = "starting"
    <3>1. at[ProxyEnd] = Idle /\ reply[ProxyEnd] = "none" /\ ending = 0
      BY <1>1, <1>12, <2>1, <2>2, ProxyStarted, HooksDiffer DEF ContextGoes, PipelineInv, EndsCalled
    <3>2. ~Called(ProxyEnd)
      BY <3>1, HooksDiffer DEF Called, StartHook, Ending
    <3>3. at'[ProxyEnd] = Idle
      BY <1>2, <3>1, <3>2 DEF HookMoves, Idle, Steps
    <3> QED BY <1>5, <1>12, <3>3, HooksDiffer DEF Idle, Done, Failed
  <2>3. CASE relay \in {"running", "ended"}
    <3>1. at[ProxyStart] = Done /\ context \in {"known", "disposed"}
      BY <1>1, <1>12, <2>3, ProxyStarted DEF ContextGoes
    <3>2. context = "disposed" => context' = "disposed"
      BY <3>1 DEF HooksMove, ContextMoves, Done
    <3>3. at[ProxyEnd] \in {Done, Failed} \/ reply[ProxyEnd] # "none" => context' = "disposed"
      BY <1>1, <1>12, <2>1, <2>3, <3>2 DEF ContextGoes
    <3>4. CASE at[ProxyEnd] \notin {Done, Failed} /\ reply[ProxyEnd] = "none"
      <4>1. CASE at'[ProxyEnd] \in {Done, Failed}
        <5>1. Script(ProxyEnd) = << >>
          BY <1>2, <3>4, <4>1 DEF HookMoves, Done, Failed
        <5> QED BY <3>1, <3>2, <5>1, ScriptsKnown
      <4>2. CASE reply'[ProxyEnd] # "none"
        <5>1. ending > Len(Enders) => context' = "disposed"
          BY <1>12, <2>1, <3>4, ProxyStarted
        <5> QED BY <1>12, <3>4, <4>2, <5>1 DEF HooksMove, ProxyMoves
      <4> QED BY <1>12, <4>1, <4>2
    <3> QED BY <3>3, <3>4
  <2> QED BY <1>12, <2>2, <2>3 DEF OthersMove, RelayMoves
<1> QED BY <1>1, <1>5, <1>6, <1>7, <1>8, <1>9, <1>10, <1>11, <1>12 DEF ContextGoes

\* Every step keeps the invariant,
LEMMA PipelineInvNext ==
  ASSUME PipelineInv, PipelineStep
  PROVE  PipelineInv'
<1>1. HooksMove /\ OthersMove
  BY PipelineMoves
<1>2. Typed'
  BY PipelineTypes DEF PipelineInv, Typed
<1> QED BY <1>1, <1>2, ClientsOwnStays, StartsDoneStays, EndsCalledStays, LockGoesStays, ContextGoesStays DEF PipelineInv, Typed

\* it holds before the request,
LEMMA PipelineInvInit ==
  ASSUME PipelineInit
  PROVE  PipelineInv
<1>1. asked \in Requests
  BY DEF PipelineInit, Requests
<1>2. Len(Starters) \in 0..3 /\ Len(Enders) \in 0..3 /\ \A i \in 1..Len(Enders) : Enders[i] \in Parts
  BY <1>1, StartersKnown, EndersKnown
<1>3. \A h \in Hooks : at[h] = Idle /\ reply[h] = "none"
  BY DEF PipelineInit
<1>4. PipelineTypeOK /\ pending \subseteq Hooks \X Steps
  <2>1. at \in [Hooks -> {Idle, Done, Failed} \cup Steps]
    BY DEF PipelineInit
  <2>2. reply \in [Hooks -> {"none", "answered", "rejected"}]
    BY DEF PipelineInit
  <2>3. lock \in {"held", "free"}
    BY DEF PipelineInit
  <2>4. asked \in [proxy : BOOLEAN, profile : {"none", "use", "readOnly", "handOff"}, record : BOOLEAN]
    BY DEF PipelineInit
  <2>5. /\ pending \subseteq InternalIds /\ wire \subseteq InternalIds \cup ClientCommands
        /\ delivered \subseteq InternalIds \cup ClientCommands
        /\ sent \subseteq ClientCommands /\ gaveUp \subseteq Hooks /\ pending \subseteq Hooks \X Steps
    BY DEF PipelineInit
  <2>6. position \in 0..4 /\ ending \in 0..4
    BY DEF PipelineInit
  <2>7. /\ closed \in BOOLEAN /\ finished \in BOOLEAN /\ lost \in BOOLEAN /\ cookies \in BOOLEAN
        /\ relay = "idle" /\ upstream = "none" /\ client = "http" /\ context = "none"
    BY DEF PipelineInit
  <2> QED BY <2>1, <2>2, <2>3, <2>4, <2>5, <2>6, <2>7 DEF PipelineTypeOK
<1>5. ClientsOwn
  BY <1>3, HooksDiffer DEF PipelineInit, ClientsOwn
<1>6. StartsDone
  BY <1>2 DEF PipelineInit, StartsDone
<1>7. EndsCalled
  <2>1. ending = 0 /\ relay = "idle"
    BY DEF PipelineInit
  <2>2. \A i \in 1..Len(Enders) : at[<<Enders[i], "end">>] = Idle
    BY <1>2, <1>3, HooksNamed
  <2>3. \A i \in 1..Len(Enders) : ~(i < ending)
    BY <1>2, <2>1
  <2> QED BY <2>1, <2>2, <2>3 DEF EndsCalled
<1>8. LockGoes
  BY <1>3, HooksDiffer DEF PipelineInit, LockGoes, Idle, Done, Failed
<1>9. ContextGoes
  BY <1>3, HooksDiffer DEF PipelineInit, ContextGoes, Idle, Done, Failed
<1> QED BY <1>4, <1>5, <1>6, <1>7, <1>8, <1>9 DEF PipelineInv

\* and where nothing changes.
LEMMA PipelineInvUnchanged ==
  ASSUME PipelineInv, UNCHANGED pipelineVars
  PROVE  PipelineInv'
<1>1. Starters' = Starters /\ Enders' = Enders /\ Saves' = Saves
  BY AskedStays DEF pipelineVars
<1>2. PipelineTypeOK' /\ (pending \subseteq Hooks \X Steps)'
  BY DEF pipelineVars, PipelineInv, PipelineTypeOK
<1>3. ClientsOwn' /\ StartsDone' /\ EndsCalled' /\ LockGoes' /\ ContextGoes'
  BY <1>1 DEF pipelineVars, PipelineInv, ClientsOwn, StartsDone, EndsCalled, LockGoes, ContextGoes
<1> QED BY <1>2, <1>3 DEF PipelineInv

\* How far the end is says which hooks were called, and their last commands say what they gave back.
LEMMA PipelineInvImplies ==
  ASSUME PipelineInv
  PROVE  PipelineSound
<1>1. asked \in Requests /\ ending \in 0..4
  BY DEF PipelineInv, PipelineTypeOK, Requests
<1>2. Len(Enders) \in 0..3 /\ \A i \in 1..Len(Enders) : Enders[i] \in Parts
  BY <1>1, EndersKnown
<1>3. OnlyOwnAnswers
  BY DEF PipelineInv, ClientsOwn, OnlyOwnAnswers
<1>4. ASSUME NEW p \in ToSet(Enders) PROVE \E i \in 1..Len(Enders) : p = Enders[i]
  BY <1>4 DEF ToSet
<1>5. ASSUME NEW i \in 1..Len(Enders), i < ending PROVE at[<<Enders[i], "end">>] # Idle
  BY <1>5 DEF PipelineInv, EndsCalled, Idle, Done, Failed
<1>6. relay = "refused" /\ ~lost => \A p \in ToSet(Enders) : at[<<p, "end">>] = Idle
  BY <1>1, <1>2, <1>4 DEF PipelineInv, EndsCalled
<1>7. \A i, j \in 1..Len(Enders) : i < j /\ at[<<Enders[j], "end">>] # Idle => at[<<Enders[i], "end">>] # Idle
  <2> SUFFICES ASSUME NEW i \in 1..Len(Enders), NEW j \in 1..Len(Enders), i < j, at[<<Enders[j], "end">>] # Idle
               PROVE  at[<<Enders[i], "end">>] # Idle
    OBVIOUS
  <2>1. ~(j > ending)
    BY DEF PipelineInv, EndsCalled
  <2> QED BY <1>1, <1>2, <1>5, <2>1
<1>8. relay = "ended" => \A p \in ToSet(Enders) : at[<<p, "end">>] # Idle
  <2> SUFFICES ASSUME relay = "ended", NEW p \in ToSet(Enders) PROVE at[<<p, "end">>] # Idle
    OBVIOUS
  <2>1. PICK i \in 1..Len(Enders) : p = Enders[i]
    BY <1>4
  <2>2. i < ending
    BY <1>1, <1>2 DEF PipelineInv, EndsCalled
  <2> QED BY <1>5, <2>1, <2>2
<1>9. ASSUME relay = "ended", ~lost, gaveUp = {} PROVE lock = "free" /\ context \in {"none", "disposed"}
  <2>1. \A i \in 1..Len(Enders) : at[<<Enders[i], "end">>] \in {Done, Failed}
    BY <1>1, <1>2, <1>9 DEF PipelineInv, EndsCalled
  <2>2. lock = "free"
    <3>1. Saves => \E i \in 1..Len(Enders) : Enders[i] = "profile"
      BY <1>1, EndersKnown DEF Saves
    <3> QED BY <2>1, <3>1, HooksNamed DEF PipelineInv, LockGoes
  <2>3. context \in {"none", "disposed"}
    <3>1. CASE asked.proxy
      <4>1. PICK i \in 1..Len(Enders) : Enders[i] = "proxy"
        BY <1>1, <3>1, EndersKnown
      <4> QED BY <1>9, <2>1, <3>1, <4>1, HooksNamed DEF PipelineInv, ContextGoes
    <3>2. CASE ~asked.proxy
      BY <3>2 DEF PipelineInv, ContextGoes
    <3> QED BY <3>1, <3>2
  <2> QED BY <2>2, <2>3
<1> QED BY <1>3, <1>6, <1>7, <1>8, <1>9 DEF PipelineSound, EndsInOrder, EndHooksRun, OrderlyEnd

\* The inductive invariant of the pipeline.
LEMMA PipelineStepInv == PipelineInv /\ [PipelineNext]_pipelineVars => PipelineInv'
BY PipelineInvNext, PipelineInvUnchanged DEF PipelineNext, PipelineStep

\* For any plugins a connection is given, whatever the browser answers and whenever anybody
\* leaves: the client hears only answers to what it sent, the end hooks run in the reverse
\* order of the plugins, and an end over a living connection gives the profile's lock back and
\* disposes of the proxied context (pipeline.ts, plugins/proxy and profile).
THEOREM PipelineStaysSound == PipelineSpec => []PipelineSound
<1>1. PipelineInit => PipelineInv
  BY PipelineInvInit
<1>2. PipelineInv => PipelineSound
  BY PipelineInvImplies
<1> QED BY <1>1, <1>2, PipelineStepInv, PTL DEF PipelineSpec

----------------------------------------------------------------------------
(* The REST endpoints.  Where a request is on its way says what it holds:  *)
(* its slot, its page, and the profile's lock.                             *)

Stations == {"new", "loading", "choose", "inject", "connect", "run", "commit", "leave",
          "attempt", "open", "release", "wait", "over"}

Course == [at : Stations, attempt : Nat \ {0}, on : Backends \cup {Nobody}, untried : SUBSET Backends,
           error : {"none", "timeout", "unavailable", "other", "final"}]

RestTypeOK ==
  /\ ask \in [Reqs -> [profile : BOOLEAN, proxied : BOOLEAN, pinned : BOOLEAN]]
  /\ rest \in [Reqs -> Course]
  /\ profileLock \in Reqs \cup {Nobody}
  /\ slots \in [Backends -> SUBSET Reqs]
  /\ page \in [Reqs -> BOOLEAN] /\ status \in [Reqs -> Nat] /\ acted \in [Reqs -> BOOLEAN]
  /\ runs \in [Reqs -> Nat] /\ saves \in [Reqs -> Nat]

\* The steps of withProfilePage are those of a request that is not of the pool, and
\* what it holds follows from where it is.
Standing(r) ==
  /\ rest[r].at \in {"loading", "choose", "inject", "connect", "commit", "leave"} => ~OfPool(r)
  /\ rest[r].at \in {"attempt", "open", "release", "wait"} => OfPool(r)
  /\ status[r] # 0 <=> rest[r].at = "over"
  /\ \A b \in Backends : r \in slots[b] =>
       rest[r].on = b /\ rest[r].at \in {"inject", "connect", "run", "commit", "leave"} /\ ~OfPool(r)
  /\ page[r] => rest[r].at \in {"run", "release", "commit", "leave"}
  /\ rest[r].at \in {"run", "release"} => page[r]

\* A request with a profile has one attempt, one run, one save, and the lock meanwhile.
Once(r) ==
  ask[r].profile =>
    /\ rest[r].at # "wait" /\ rest[r].attempt = 1
    /\ rest[r].at \in {"loading", "choose", "inject", "connect", "run", "commit"} => profileLock = r
    /\ runs[r] <= 1 /\ saves[r] <= 1
    /\ rest[r].at \in {"new", "attempt", "open", "loading", "choose", "inject", "connect"} => runs[r] = 0
    /\ rest[r].at \in {"new", "attempt", "open"} \/ profileLock = r => saves[r] = 0
    /\ ~ask[r].proxied => (rest[r].at = "commit" \/ saves[r] > 0 => acted[r])

Holds(r) ==
  profileLock = r =>
    /\ ask[r].profile
    /\ IF ask[r].proxied THEN rest[r].at \in {"run", "release", "over"}
       ELSE rest[r].at \in {"loading", "choose", "inject", "connect", "run", "commit"}

Placed(r) == Standing(r) /\ Once(r) /\ Holds(r)

RestInv == RestTypeOK /\ \A r \in Reqs : Placed(r)

\* The invariant holds before the first request.
LEMMA RestInitInv == RestInit => RestInv
<1> SUFFICES ASSUME RestInit PROVE RestInv
  OBVIOUS
<1>1. RestTypeOK
  BY DEF RestInit, RestTypeOK, Course, Stations, Fresh
<1>2. ASSUME NEW r \in Reqs PROVE Placed(r)
  BY <1>2, RestAssumption DEF RestInit, Fresh, Placed, Standing, Once, Holds
<1> QED BY <1>1, <1>2 DEF RestInv

\* The steps of one request.
RestStep(r) ==
  \/ GateRefuses(r) \/ PinRefuses(r) \/ ProxyRefuses(r)
  \/ DispatchToPool(r) \/ DispatchToProfile(r) \/ LoadFails(r)
  \/ \E candidates \in SUBSET Backends : Loaded(r, candidates)
  \/ \E b \in Backends : Choose(r, b)
  \/ GiveUp(r) \/ Inject(r) \/ ConnectTo(r) \/ Acts(r) \/ Leave(r)
  \/ \E error \in {"timeout", "other"} : InjectFails(r, error) \/ Fails(r, error)
  \/ \E error \in {"timeout", "unavailable", "other", "final"} : RunFails(r, error)
  \/ \E stored \in BOOLEAN : Commit(r, stored) \/ SessionEnds(r, stored)
  \/ BeginAttempt(r) \/ Opens(r) \/ Release(r) \/ Waited(r)
  \/ \E refused \in BOOLEAN : OpenFails(r, refused)

\* What a step of request r leaves alone: the others, and a lock that is not its own.
Alone(r) ==
  /\ ask' = ask
  /\ \A s \in Reqs \ {r} :
       /\ rest'[s] = rest[s] /\ page'[s] = page[s] /\ status'[s] = status[s] /\ acted'[s] = acted[s]
       /\ runs'[s] = runs[s] /\ saves'[s] = saves[s]
       /\ \A b \in Backends : s \in slots'[b] => s \in slots[b]
  /\ profileLock' \in {profileLock, r, Nobody}
  /\ profileLock' # profileLock => profileLock \in {r, Nobody}

\* Requests that another one leaves alone stay placed.
LEMMA OthersStayPlaced ==
  ASSUME RestInv, NEW r \in Reqs, Alone(r)
  PROVE  \A s \in Reqs \ {r} : Placed(s)'
<1> SUFFICES ASSUME NEW s \in Reqs \ {r} PROVE Placed(s)'
  OBVIOUS
<1>1. /\ rest'[s] = rest[s] /\ page'[s] = page[s] /\ status'[s] = status[s] /\ acted'[s] = acted[s]
      /\ runs'[s] = runs[s] /\ saves'[s] = saves[s] /\ ask' = ask
      /\ \A b \in Backends : s \in slots'[b] => s \in slots[b]
  BY DEF Alone
<1>2. profileLock' = s <=> profileLock = s
  BY RestAssumption DEF Alone
<1>3. Placed(s)
  BY DEF RestInv
<1>4. Standing(s)'
  BY <1>1, <1>3 DEF Placed, Standing, OfPool
<1>5. Once(s)'
  BY <1>1, <1>2, <1>3 DEF Placed, Once
<1>6. Holds(s)'
  BY <1>1, <1>2, <1>3 DEF Placed, Holds
<1> QED BY <1>4, <1>5, <1>6 DEF Placed

\* Where a step leaves request r on its way.
Turns(r, place, attempt, on) ==
  /\ rest' \in [Reqs -> Course]
  /\ rest'[r].at = place /\ rest'[r].attempt = attempt /\ rest'[r].on = on
  /\ \A s \in Reqs \ {r} : rest'[s] = rest[s]

\* A step to a place changes nothing else of where the request is.
LEMMA Moved ==
  ASSUME RestTypeOK, NEW r \in Reqs, NEW place \in Stations, Moves(r, place)
  PROVE  Turns(r, place, rest[r].attempt, rest[r].on)
<1>1. rest \in [Reqs -> Course]
  BY DEF RestTypeOK
<1> QED BY <1>1 DEF Moves, Turns, Course

\* What a step does to the request that makes it.
Kept(r) == RestTypeOK' /\ Alone(r) /\ Placed(r)'

\* Every step of a request keeps it in its place.
LEMMA RestStepKeeps ==
  ASSUME RestInv, NEW r \in Reqs, RestStep(r)
  PROVE  Kept(r)
<1>0. RestTypeOK /\ Standing(r) /\ Once(r) /\ Holds(r)
  BY DEF RestInv, Placed
<1> USE <1>0, RestAssumption
<1>1. ASSUME NEW code \in {400, 503}, Refuses(r, code)
      PROVE  Kept(r)
  <2>1. Turns(r, "over", rest[r].attempt, rest[r].on)
    BY <1>1, Moved DEF Refuses, Answers, Stations
  <2>2. RestTypeOK'
    <3>1. status' \in [Reqs -> Nat]
      BY <1>1 DEF Refuses, Answers, RestTypeOK
    <3> QED BY <1>1, <2>1, <3>1 DEF Refuses, Answers, RestTypeOK, Turns
  <2>3. Alone(r)
    BY <1>1, <2>1 DEF Refuses, Answers, RestTypeOK, Turns, Alone
  <2>4. Standing(r)'
    BY <1>1, <2>1 DEF Refuses, Answers, At, OfPool, RestTypeOK, Turns, Standing
  <2>5. Once(r)'
    BY <1>1, <2>1 DEF Refuses, Answers, At, OfPool, RestTypeOK, Turns, Standing, Once
  <2>6. Holds(r)'
    BY <1>1, <2>1 DEF Refuses, Answers, At, OfPool, RestTypeOK, Turns, Standing, Once, Holds
  <2> QED BY <2>2, <2>3, <2>4, <2>5, <2>6 DEF Kept, Placed
<1>2. CASE DispatchToPool(r)
  <2>1. Turns(r, "attempt", rest[r].attempt, rest[r].on)
    BY <1>2, Moved DEF DispatchToPool, Stations
  <2>2. RestTypeOK'
    BY <1>2, <2>1 DEF DispatchToPool, RestTypeOK, Turns
  <2>3. Alone(r)
    BY <1>2, <2>1 DEF DispatchToPool, RestTypeOK, Turns, Alone
  <2>4. Standing(r)'
    BY <1>2, <2>1 DEF DispatchToPool, At, OfPool, RestTypeOK, Turns, Standing
  <2>5. Once(r)'
    BY <1>2, <2>1 DEF DispatchToPool, At, OfPool, RestTypeOK, Turns, Standing, Once
  <2>6. Holds(r)'
    BY <1>2, <2>1 DEF DispatchToPool, At, OfPool, RestTypeOK, Turns, Standing, Once, Holds
  <2> QED BY <2>2, <2>3, <2>4, <2>5, <2>6 DEF Kept, Placed
<1>3. CASE DispatchToProfile(r)
  <2>1. CASE profileLock = Nobody
    <3>1. Turns(r, "loading", rest[r].attempt, rest[r].on)
      BY <1>3, <2>1, Moved DEF DispatchToProfile, Answers, Stations
    <3>2. RestTypeOK'
      <4>1. status' \in [Reqs -> Nat]
        BY <1>3, <2>1 DEF DispatchToProfile, Answers, RestTypeOK
      <4> QED BY <1>3, <2>1, <3>1, <4>1 DEF DispatchToProfile, Answers, RestTypeOK, Turns
    <3>3. Alone(r)
      BY <1>3, <2>1, <3>1 DEF DispatchToProfile, Answers, RestTypeOK, Turns, Alone
    <3>4. Standing(r)'
      BY <1>3, <2>1, <3>1 DEF DispatchToProfile, Answers, At, OfPool, RestTypeOK, Turns, Standing
    <3>5. Once(r)'
      BY <1>3, <2>1, <3>1 DEF DispatchToProfile, Answers, At, OfPool, RestTypeOK, Turns, Standing, Once
    <3>6. Holds(r)'
      BY <1>3, <2>1, <3>1 DEF DispatchToProfile, Answers, At, OfPool, RestTypeOK, Turns, Standing, Once, Holds
    <3> QED BY <3>2, <3>3, <3>4, <3>5, <3>6 DEF Kept, Placed
  <2>2. CASE profileLock # Nobody
    <3>1. Turns(r, "over", rest[r].attempt, rest[r].on)
      BY <1>3, <2>2, Moved DEF DispatchToProfile, Answers, Stations
    <3>2. RestTypeOK'
      <4>1. status' \in [Reqs -> Nat]
        BY <1>3, <2>2 DEF DispatchToProfile, Answers, RestTypeOK
      <4> QED BY <1>3, <2>2, <3>1, <4>1 DEF DispatchToProfile, Answers, RestTypeOK, Turns
    <3>3. Alone(r)
      BY <1>3, <2>2, <3>1 DEF DispatchToProfile, Answers, RestTypeOK, Turns, Alone
    <3>4. Standing(r)'
      BY <1>3, <2>2, <3>1 DEF DispatchToProfile, Answers, At, OfPool, RestTypeOK, Turns, Standing
    <3>5. Once(r)'
      BY <1>3, <2>2, <3>1 DEF DispatchToProfile, Answers, At, OfPool, RestTypeOK, Turns, Standing, Once
    <3>6. Holds(r)'
      BY <1>3, <2>2, <3>1 DEF DispatchToProfile, Answers, At, OfPool, RestTypeOK, Turns, Standing, Once, Holds
    <3> QED BY <3>2, <3>3, <3>4, <3>5, <3>6 DEF Kept, Placed
  <2> QED BY <2>1, <2>2
<1>4. CASE LoadFails(r)
  <2>1. Turns(r, "over", rest[r].attempt, rest[r].on)
    BY <1>4, Moved DEF LoadFails, Answers, Stations
  <2>2. RestTypeOK'
    <3>1. status' \in [Reqs -> Nat]
      BY <1>4 DEF LoadFails, Answers, RestTypeOK
    <3> QED BY <1>4, <2>1, <3>1 DEF LoadFails, Answers, RestTypeOK, Turns
  <2>3. Alone(r)
    BY <1>4, <2>1 DEF LoadFails, Answers, RestTypeOK, Turns, Alone, Standing, Once, At, OfPool
  <2>4. Standing(r)'
    BY <1>4, <2>1 DEF LoadFails, Answers, At, OfPool, RestTypeOK, Turns, Standing
  <2>5. Once(r)'
    BY <1>4, <2>1 DEF LoadFails, Answers, At, OfPool, RestTypeOK, Turns, Standing, Once
  <2>6. Holds(r)'
    BY <1>4, <2>1 DEF LoadFails, Answers, At, OfPool, RestTypeOK, Turns, Standing, Once, Holds
  <2> QED BY <2>2, <2>3, <2>4, <2>5, <2>6 DEF Kept, Placed
<1>5. ASSUME NEW candidates \in SUBSET Backends, Loaded(r, candidates)
      PROVE  Kept(r)
  <2>1. CASE candidates = {}
    <3>1. Turns(r, "over", rest[r].attempt, rest[r].on)
      BY <1>5, <2>1, Moved DEF Loaded, Answers, Stations
    <3>2. RestTypeOK'
      <4>1. status' \in [Reqs -> Nat]
        BY <1>5, <2>1 DEF Loaded, Answers, RestTypeOK
      <4> QED BY <1>5, <2>1, <3>1, <4>1 DEF Loaded, Answers, RestTypeOK, Turns
    <3>3. Alone(r)
      BY <1>5, <2>1, <3>1 DEF Loaded, Answers, RestTypeOK, Turns, Alone, Standing, Once, At, OfPool
    <3>4. Standing(r)'
      BY <1>5, <2>1, <3>1 DEF Loaded, Answers, At, OfPool, RestTypeOK, Turns, Standing
    <3>5. Once(r)'
      BY <1>5, <2>1, <3>1 DEF Loaded, Answers, At, OfPool, RestTypeOK, Turns, Standing, Once
    <3>6. Holds(r)'
      BY <1>5, <2>1, <3>1 DEF Loaded, Answers, At, OfPool, RestTypeOK, Turns, Standing, Once, Holds
    <3> QED BY <3>2, <3>3, <3>4, <3>5, <3>6 DEF Kept, Placed
  <2>2. CASE candidates # {}
    <3>1. Turns(r, "choose", rest[r].attempt, rest[r].on)
      <4>1. rest \in [Reqs -> Course]
        BY DEF RestTypeOK
      <4>2. rest' = [rest EXCEPT ![r].at = "choose", ![r].untried = candidates]
        BY <1>5, <2>2, <4>1 DEF Loaded
      <4> QED BY <1>5, <4>1, <4>2 DEF Turns, Course, Stations
    <3>2. RestTypeOK'
      <4>1. status' \in [Reqs -> Nat]
        BY <1>5, <2>2 DEF Loaded, Answers, RestTypeOK
      <4> QED BY <1>5, <2>2, <3>1, <4>1 DEF Loaded, Answers, RestTypeOK, Turns
    <3>3. Alone(r)
      BY <1>5, <2>2, <3>1 DEF Loaded, Answers, RestTypeOK, Turns, Alone, Standing, Once, At, OfPool
    <3>4. Standing(r)'
      BY <1>5, <2>2, <3>1 DEF Loaded, Answers, At, OfPool, RestTypeOK, Turns, Standing
    <3>5. Once(r)'
      BY <1>5, <2>2, <3>1 DEF Loaded, Answers, At, OfPool, RestTypeOK, Turns, Standing, Once
    <3>6. Holds(r)'
      BY <1>5, <2>2, <3>1 DEF Loaded, Answers, At, OfPool, RestTypeOK, Turns, Standing, Once, Holds
    <3> QED BY <3>2, <3>3, <3>4, <3>5, <3>6 DEF Kept, Placed
  <2> QED BY <2>1, <2>2
<1>6. ASSUME NEW b \in Backends, Choose(r, b)
      PROVE  Kept(r)
  <2>1. CASE Cardinality(slots[b]) < Room
    <3>1. Turns(r, "inject", rest[r].attempt, b)
      <4>1. rest[r].untried \ {b} \in SUBSET Backends
        BY DEF RestTypeOK, Course
      <4>2. rest' = [rest EXCEPT ![r] = [rest[r] EXCEPT !.at = "inject", !.on = b, !.untried = rest[r].untried \ {b}]]
        BY <1>6, <2>1, <4>1 DEF Choose, RestTypeOK
      <4>3. rest \in [Reqs -> Course] /\ rest[r] \in Course /\ "inject" \in Stations
        BY DEF RestTypeOK, Stations
      <4>5. [rest[r] EXCEPT !.at = "inject", !.on = b, !.untried = rest[r].untried \ {b}] \in Course
        BY <4>1, <4>3 DEF Course
      <4>6. /\ rest'[r] = [rest[r] EXCEPT !.at = "inject", !.on = b, !.untried = rest[r].untried \ {b}]
            /\ rest' \in [Reqs -> Course]
            /\ \A s \in Reqs \ {r} : rest'[s] = rest[s]
        BY <4>2, <4>3, <4>5
      <4> QED BY <4>3, <4>6 DEF Turns, Course
    <3>2. RestTypeOK'
      <4>1. slots' \in [Backends -> SUBSET Reqs]
        BY <1>6, <2>1 DEF Choose, RestTypeOK
      <4> QED BY <1>6, <2>1, <3>1, <4>1 DEF Choose, RestTypeOK, Turns
    <3>3. Alone(r)
      BY <1>6, <2>1, <3>1 DEF Choose, RestTypeOK, Turns, Alone
    <3>4. Standing(r)'
      BY <1>6, <2>1, <3>1 DEF Choose, At, OfPool, RestTypeOK, Turns, Standing
    <3>5. Once(r)'
      BY <1>6, <2>1, <3>1 DEF Choose, At, OfPool, RestTypeOK, Turns, Standing, Once
    <3>6. Holds(r)'
      BY <1>6, <2>1, <3>1 DEF Choose, At, OfPool, RestTypeOK, Turns, Standing, Once, Holds
    <3> QED BY <3>2, <3>3, <3>4, <3>5, <3>6 DEF Kept, Placed
  <2>2. CASE ~(Cardinality(slots[b]) < Room)
    <3>1. Turns(r, "choose", rest[r].attempt, rest[r].on)
      <4>1. rest[r].untried \ {b} \in SUBSET Backends
        BY DEF RestTypeOK, Course
      <4>2. rest' = [rest EXCEPT ![r].untried = rest[r].untried \ {b}]
        BY <1>6, <2>2, <4>1 DEF Choose
      <4>3. rest \in [Reqs -> Course] /\ rest[r].at = "choose"
        BY <1>6 DEF RestTypeOK, Choose, At
      <4>4. rest' \in [Reqs -> Course]
        BY <4>1, <4>2, <4>3 DEF Course
      <4>5. rest[r] \in Course
        BY <4>3
      <4> QED BY <4>2, <4>3, <4>4, <4>5 DEF Turns, Course
    <3>2. RestTypeOK'
      <4>1. slots' \in [Backends -> SUBSET Reqs]
        BY <1>6, <2>2 DEF Choose, RestTypeOK
      <4> QED BY <1>6, <2>2, <3>1, <4>1 DEF Choose, RestTypeOK, Turns
    <3>3. Alone(r)
      BY <1>6, <2>2, <3>1 DEF Choose, RestTypeOK, Turns, Alone
    <3>4. Standing(r)'
      BY <1>6, <2>2, <3>1 DEF Choose, At, OfPool, RestTypeOK, Turns, Standing
    <3>5. Once(r)'
      BY <1>6, <2>2, <3>1 DEF Choose, At, OfPool, RestTypeOK, Turns, Standing, Once
    <3>6. Holds(r)'
      BY <1>6, <2>2, <3>1 DEF Choose, At, OfPool, RestTypeOK, Turns, Standing, Once, Holds
    <3> QED BY <3>2, <3>3, <3>4, <3>5, <3>6 DEF Kept, Placed
  <2> QED BY <2>1, <2>2
<1>7. CASE GiveUp(r)
  <2>1. Turns(r, "over", rest[r].attempt, rest[r].on)
    BY <1>7, Moved DEF GiveUp, FinalStatus, Answers, Stations
  <2>2. RestTypeOK'
    <3>1. status' \in [Reqs -> Nat]
      BY <1>7 DEF GiveUp, FinalStatus, Answers, RestTypeOK
    <3> QED BY <1>7, <2>1, <3>1 DEF GiveUp, FinalStatus, Answers, RestTypeOK, Turns
  <2>3. Alone(r)
    BY <1>7, <2>1 DEF GiveUp, FinalStatus, Answers, RestTypeOK, Turns, Alone, Standing, Once, At, OfPool
  <2>4. Standing(r)'
    BY <1>7, <2>1 DEF GiveUp, FinalStatus, Answers, At, OfPool, RestTypeOK, Turns, Standing
  <2>5. Once(r)'
    BY <1>7, <2>1 DEF GiveUp, FinalStatus, Answers, At, OfPool, RestTypeOK, Turns, Standing, Once
  <2>6. Holds(r)'
    BY <1>7, <2>1 DEF GiveUp, FinalStatus, Answers, At, OfPool, RestTypeOK, Turns, Standing, Once, Holds
  <2> QED BY <2>2, <2>3, <2>4, <2>5, <2>6 DEF Kept, Placed
<1>8. CASE Inject(r)
  <2>1. Turns(r, "connect", rest[r].attempt, rest[r].on)
    BY <1>8, Moved DEF Inject, Stations
  <2>2. RestTypeOK'
    BY <1>8, <2>1 DEF Inject, RestTypeOK, Turns
  <2>3. Alone(r)
    BY <1>8, <2>1 DEF Inject, RestTypeOK, Turns, Alone
  <2>4. Standing(r)'
    BY <1>8, <2>1 DEF Inject, At, OfPool, RestTypeOK, Turns, Standing
  <2>5. Once(r)'
    BY <1>8, <2>1 DEF Inject, At, OfPool, RestTypeOK, Turns, Standing, Once
  <2>6. Holds(r)'
    BY <1>8, <2>1 DEF Inject, At, OfPool, RestTypeOK, Turns, Standing, Once, Holds
  <2> QED BY <2>2, <2>3, <2>4, <2>5, <2>6 DEF Kept, Placed
<1>9. CASE ConnectTo(r)
  <2>1. Turns(r, "run", rest[r].attempt, rest[r].on)
    BY <1>9, Moved DEF ConnectTo, BeginRun, Stations
  <2>2. RestTypeOK'
    <3>1. page' \in [Reqs -> BOOLEAN]
      BY <1>9 DEF ConnectTo, BeginRun, RestTypeOK
    <3>2. runs' \in [Reqs -> Nat]
      BY <1>9 DEF ConnectTo, BeginRun, RestTypeOK
    <3> QED BY <1>9, <2>1, <3>1, <3>2 DEF ConnectTo, BeginRun, RestTypeOK, Turns
  <2>3. Alone(r)
    BY <1>9, <2>1 DEF ConnectTo, BeginRun, RestTypeOK, Turns, Alone
  <2>4. Standing(r)'
    BY <1>9, <2>1 DEF ConnectTo, BeginRun, At, OfPool, RestTypeOK, Turns, Standing
  <2>5. Once(r)'
    BY <1>9, <2>1 DEF ConnectTo, BeginRun, At, OfPool, RestTypeOK, Turns, Standing, Once
  <2>6. Holds(r)'
    BY <1>9, <2>1 DEF ConnectTo, BeginRun, At, OfPool, RestTypeOK, Turns, Standing, Once, Holds
  <2> QED BY <2>2, <2>3, <2>4, <2>5, <2>6 DEF Kept, Placed
<1>10. CASE Acts(r)
  <2>1. CASE OfPool(r)
    <3>1. Turns(r, "release", rest[r].attempt, rest[r].on)
      BY <1>10, <2>1, Moved DEF Acts, Stations
    <3>2. RestTypeOK'
      <4>1. acted' \in [Reqs -> BOOLEAN]
        BY <1>10, <2>1 DEF Acts, RestTypeOK
      <4> QED BY <1>10, <2>1, <3>1, <4>1 DEF Acts, RestTypeOK, Turns
    <3>3. Alone(r)
      BY <1>10, <2>1, <3>1 DEF Acts, RestTypeOK, Turns, Alone
    <3>4. Standing(r)'
      BY <1>10, <2>1, <3>1 DEF Acts, At, OfPool, RestTypeOK, Turns, Standing
    <3>5. Once(r)'
      BY <1>10, <2>1, <3>1 DEF Acts, At, OfPool, RestTypeOK, Turns, Standing, Once
    <3>6. Holds(r)'
      BY <1>10, <2>1, <3>1 DEF Acts, At, OfPool, RestTypeOK, Turns, Standing, Once, Holds
    <3> QED BY <3>2, <3>3, <3>4, <3>5, <3>6 DEF Kept, Placed
  <2>2. CASE ~OfPool(r)
    <3>1. Turns(r, "commit", rest[r].attempt, rest[r].on)
      BY <1>10, <2>2, Moved DEF Acts, Stations
    <3>2. RestTypeOK'
      <4>1. acted' \in [Reqs -> BOOLEAN]
        BY <1>10, <2>2 DEF Acts, RestTypeOK
      <4> QED BY <1>10, <2>2, <3>1, <4>1 DEF Acts, RestTypeOK, Turns
    <3>3. Alone(r)
      BY <1>10, <2>2, <3>1 DEF Acts, RestTypeOK, Turns, Alone
    <3>4. Standing(r)'
      BY <1>10, <2>2, <3>1 DEF Acts, At, OfPool, RestTypeOK, Turns, Standing
    <3>5. Once(r)'
      BY <1>10, <2>2, <3>1 DEF Acts, At, OfPool, RestTypeOK, Turns, Standing, Once
    <3>6. Holds(r)'
      BY <1>10, <2>2, <3>1 DEF Acts, At, OfPool, RestTypeOK, Turns, Standing, Once, Holds
    <3> QED BY <3>2, <3>3, <3>4, <3>5, <3>6 DEF Kept, Placed
  <2> QED BY <2>1, <2>2
<1>11. CASE Leave(r)
  <2>1. Turns(r, "over", rest[r].attempt, rest[r].on)
    BY <1>11, Moved DEF Leave, FinalStatus, Answers, Stations
  <2>2. RestTypeOK'
    <3>1. status' \in [Reqs -> Nat]
      BY <1>11 DEF Leave, FinalStatus, Answers, RestTypeOK
    <3>2. page' \in [Reqs -> BOOLEAN]
      BY <1>11 DEF Leave, FinalStatus, Answers, RestTypeOK
    <3>3. slots' \in [Backends -> SUBSET Reqs]
      BY <1>11 DEF Leave, FinalStatus, Answers, RestTypeOK
    <3> QED BY <1>11, <2>1, <3>1, <3>2, <3>3 DEF Leave, FinalStatus, Answers, RestTypeOK, Turns
  <2>3. Alone(r)
    BY <1>11, <2>1 DEF Leave, FinalStatus, Answers, RestTypeOK, Turns, Alone
  <2>4. Standing(r)'
    BY <1>11, <2>1 DEF Leave, FinalStatus, Answers, At, OfPool, RestTypeOK, Turns, Standing
  <2>5. Once(r)'
    BY <1>11, <2>1 DEF Leave, FinalStatus, Answers, At, OfPool, RestTypeOK, Turns, Standing, Once
  <2>6. Holds(r)'
    BY <1>11, <2>1 DEF Leave, FinalStatus, Answers, At, OfPool, RestTypeOK, Turns, Standing, Once, Holds
  <2> QED BY <2>2, <2>3, <2>4, <2>5, <2>6 DEF Kept, Placed
<1>12. ASSUME NEW error \in {"timeout", "other"}, InjectFails(r, error)
      PROVE  Kept(r)
  <2>1. Turns(r, "choose", rest[r].attempt, Nobody)
    <3>1. rest \in [Reqs -> Course]
      BY DEF RestTypeOK
    <3>2. rest' = [rest EXCEPT ![r] = [rest[r] EXCEPT !.at = "choose", !.on = Nobody, !.error = error]]
      BY <1>12, <3>1 DEF InjectFails
    <3>3. rest[r] \in Course /\ "choose" \in Stations
      BY <3>1 DEF Stations
    <3>4. [rest[r] EXCEPT !.at = "choose", !.on = Nobody, !.error = error] \in Course
      BY <1>12, <3>3 DEF Course
    <3>5. /\ rest'[r] = [rest[r] EXCEPT !.at = "choose", !.on = Nobody, !.error = error]
          /\ rest' \in [Reqs -> Course]
          /\ \A s \in Reqs \ {r} : rest'[s] = rest[s]
      BY <3>1, <3>2, <3>4
    <3> QED BY <3>3, <3>5 DEF Turns, Course
  <2>2. RestTypeOK'
    <3>1. slots' \in [Backends -> SUBSET Reqs]
      BY <1>12 DEF InjectFails, RestTypeOK
    <3> QED BY <1>12, <2>1, <3>1 DEF InjectFails, RestTypeOK, Turns
  <2>3. Alone(r)
    BY <1>12, <2>1 DEF InjectFails, RestTypeOK, Turns, Alone
  <2>4. Standing(r)'
    BY <1>12, <2>1 DEF InjectFails, At, OfPool, RestTypeOK, Turns, Standing
  <2>5. Once(r)'
    BY <1>12, <2>1 DEF InjectFails, At, OfPool, RestTypeOK, Turns, Standing, Once
  <2>6. Holds(r)'
    BY <1>12, <2>1 DEF InjectFails, At, OfPool, RestTypeOK, Turns, Standing, Once, Holds
  <2> QED BY <2>2, <2>3, <2>4, <2>5, <2>6 DEF Kept, Placed
<1>13. ASSUME NEW error \in {"timeout", "other"}, Fails(r, error)
      PROVE  Kept(r)
  <2>1. Turns(r, "leave", rest[r].attempt, rest[r].on)
    <3>1. rest \in [Reqs -> Course]
      BY DEF RestTypeOK
    <3>2. rest' = [rest EXCEPT ![r].at = "leave", ![r].error = error]
      BY <1>13, <3>1 DEF Fails
    <3> QED BY <1>13, <3>1, <3>2 DEF Turns, Course, Stations
  <2>2. RestTypeOK'
    BY <1>13, <2>1 DEF Fails, RestTypeOK, Turns
  <2>3. Alone(r)
    BY <1>13, <2>1 DEF Fails, RestTypeOK, Turns, Alone, Standing, Once, At, OfPool
  <2>4. Standing(r)'
    BY <1>13, <2>1 DEF Fails, At, OfPool, RestTypeOK, Turns, Standing
  <2>5. Once(r)'
    BY <1>13, <2>1 DEF Fails, At, OfPool, RestTypeOK, Turns, Standing, Once
  <2>6. Holds(r)'
    BY <1>13, <2>1 DEF Fails, At, OfPool, RestTypeOK, Turns, Standing, Once, Holds
  <2> QED BY <2>2, <2>3, <2>4, <2>5, <2>6 DEF Kept, Placed
<1>14. ASSUME NEW error \in {"timeout", "unavailable", "other", "final"}, RunFails(r, error)
      PROVE  Kept(r)
  <2>1. Turns(r, "release", rest[r].attempt, rest[r].on)
    <3>1. rest \in [Reqs -> Course]
      BY DEF RestTypeOK
    <3>2. rest' = [rest EXCEPT ![r].at = "release", ![r].error = error]
      BY <1>14, <3>1 DEF RunFails
    <3> QED BY <1>14, <3>1, <3>2 DEF Turns, Course, Stations
  <2>2. RestTypeOK'
    BY <1>14, <2>1 DEF RunFails, RestTypeOK, Turns
  <2>3. Alone(r)
    BY <1>14, <2>1 DEF RunFails, RestTypeOK, Turns, Alone
  <2>4. Standing(r)'
    BY <1>14, <2>1 DEF RunFails, At, OfPool, RestTypeOK, Turns, Standing
  <2>5. Once(r)'
    BY <1>14, <2>1 DEF RunFails, At, OfPool, RestTypeOK, Turns, Standing, Once
  <2>6. Holds(r)'
    BY <1>14, <2>1 DEF RunFails, At, OfPool, RestTypeOK, Turns, Standing, Once, Holds
  <2> QED BY <2>2, <2>3, <2>4, <2>5, <2>6 DEF Kept, Placed
<1>15. ASSUME NEW stored \in BOOLEAN, Commit(r, stored)
      PROVE  Kept(r)
  <2>1. Turns(r, "leave", rest[r].attempt, rest[r].on)
    BY <1>15, Moved DEF Commit, Stations
  <2>2. RestTypeOK'
    <3>1. saves' \in [Reqs -> Nat]
      BY <1>15 DEF Commit, RestTypeOK
    <3> QED BY <1>15, <2>1, <3>1 DEF Commit, RestTypeOK, Turns
  <2>3. Alone(r)
    BY <1>15, <2>1 DEF Commit, RestTypeOK, Turns, Alone, Standing, Once, At, OfPool
  <2>4. Standing(r)'
    BY <1>15, <2>1 DEF Commit, At, OfPool, RestTypeOK, Turns, Standing
  <2>5. Once(r)'
    BY <1>15, <2>1 DEF Commit, At, OfPool, RestTypeOK, Turns, Standing, Once
  <2>6. Holds(r)'
    BY <1>15, <2>1 DEF Commit, At, OfPool, RestTypeOK, Turns, Standing, Once, Holds
  <2> QED BY <2>2, <2>3, <2>4, <2>5, <2>6 DEF Kept, Placed
<1>16. ASSUME NEW stored \in BOOLEAN, SessionEnds(r, stored)
      PROVE  Kept(r)
  <2>1. Turns(r, rest[r].at, rest[r].attempt, rest[r].on)
    <3>1. rest \in [Reqs -> Course]
      BY DEF RestTypeOK
    <3>2. rest' = rest
      BY <1>16, <3>1 DEF SessionEnds
    <3> QED BY <1>16, <3>1, <3>2 DEF Turns, Course, Stations
  <2>2. RestTypeOK'
    <3>1. saves' \in [Reqs -> Nat]
      BY <1>16 DEF SessionEnds, RestTypeOK
    <3> QED BY <1>16, <2>1, <3>1 DEF SessionEnds, RestTypeOK, Turns
  <2>3. Alone(r)
    BY <1>16, <2>1 DEF SessionEnds, RestTypeOK, Turns, Alone, Standing, Once, At, OfPool
  <2>4. Standing(r)'
    BY <1>16, <2>1 DEF SessionEnds, At, OfPool, RestTypeOK, Turns, Standing
  <2>5. Once(r)'
    BY <1>16, <2>1 DEF SessionEnds, At, OfPool, RestTypeOK, Turns, Standing, Once, Holds
  <2>6. Holds(r)'
    BY <1>16, <2>1 DEF SessionEnds, At, OfPool, RestTypeOK, Turns, Standing, Once, Holds
  <2> QED BY <2>2, <2>3, <2>4, <2>5, <2>6 DEF Kept, Placed
<1>17. CASE BeginAttempt(r)
  <2>1. Turns(r, "open", rest[r].attempt, rest[r].on)
    BY <1>17, Moved DEF BeginAttempt, Stations
  <2>2. RestTypeOK'
    BY <1>17, <2>1 DEF BeginAttempt, RestTypeOK, Turns
  <2>3. Alone(r)
    BY <1>17, <2>1 DEF BeginAttempt, RestTypeOK, Turns, Alone
  <2>4. Standing(r)'
    BY <1>17, <2>1 DEF BeginAttempt, At, OfPool, RestTypeOK, Turns, Standing
  <2>5. Once(r)'
    BY <1>17, <2>1 DEF BeginAttempt, At, OfPool, RestTypeOK, Turns, Standing, Once
  <2>6. Holds(r)'
    BY <1>17, <2>1 DEF BeginAttempt, At, OfPool, RestTypeOK, Turns, Standing, Once, Holds
  <2> QED BY <2>2, <2>3, <2>4, <2>5, <2>6 DEF Kept, Placed
<1>18. CASE Opens(r)
  <2>1. Turns(r, "run", rest[r].attempt, rest[r].on)
    BY <1>18, Moved DEF Opens, BeginRun, Stations
  <2>2. RestTypeOK'
    <3>1. page' \in [Reqs -> BOOLEAN]
      BY <1>18 DEF Opens, BeginRun, RestTypeOK
    <3>2. runs' \in [Reqs -> Nat]
      BY <1>18 DEF Opens, BeginRun, RestTypeOK
    <3> QED BY <1>18, <2>1, <3>1, <3>2 DEF Opens, BeginRun, RestTypeOK, Turns
  <2>3. Alone(r)
    BY <1>18, <2>1 DEF Opens, BeginRun, RestTypeOK, Turns, Alone
  <2>4. Standing(r)'
    BY <1>18, <2>1 DEF Opens, BeginRun, At, OfPool, RestTypeOK, Turns, Standing
  <2>5. Once(r)'
    BY <1>18, <2>1 DEF Opens, BeginRun, At, OfPool, RestTypeOK, Turns, Standing, Once
  <2>6. Holds(r)'
    BY <1>18, <2>1 DEF Opens, BeginRun, At, OfPool, RestTypeOK, Turns, Standing, Once, Holds
  <2> QED BY <2>2, <2>3, <2>4, <2>5, <2>6 DEF Kept, Placed
<1>19. CASE Release(r)
  <2>1. CASE acted[r]
    <3>1. Turns(r, "over", rest[r].attempt, rest[r].on)
      BY <1>19, <2>1, Moved DEF Release, FinalStatus, Answers, Stations
    <3>2. RestTypeOK'
      <4>1. status' \in [Reqs -> Nat]
        BY <1>19, <2>1 DEF Release, FinalStatus, Answers, RestTypeOK
      <4>2. page' \in [Reqs -> BOOLEAN]
        BY <1>19, <2>1 DEF Release, FinalStatus, Answers, RestTypeOK
      <4> QED BY <1>19, <2>1, <3>1, <4>1, <4>2 DEF Release, FinalStatus, Answers, RestTypeOK, Turns
    <3>3. Alone(r)
      BY <1>19, <2>1, <3>1 DEF Release, FinalStatus, Answers, RestTypeOK, Turns, Alone
    <3>4. Standing(r)'
      BY <1>19, <2>1, <3>1 DEF Release, FinalStatus, Answers, At, OfPool, RestTypeOK, Turns, Standing
    <3>5. Once(r)'
      BY <1>19, <2>1, <3>1 DEF Release, FinalStatus, Answers, MayRetry, MaxAttempts, At, OfPool, RestTypeOK, Turns, Standing, Once
    <3>6. Holds(r)'
      BY <1>19, <2>1, <3>1 DEF Release, FinalStatus, Answers, MayRetry, MaxAttempts, At, OfPool, RestTypeOK, Turns, Standing, Once, Holds
    <3> QED BY <3>2, <3>3, <3>4, <3>5, <3>6 DEF Kept, Placed
  <2>2. CASE ~acted[r] /\ MayRetry(r) /\ rest[r].error # "final"
    <3>1. Turns(r, "wait", rest[r].attempt, rest[r].on)
      BY <1>19, <2>2, Moved DEF Release, FinalStatus, Answers, Stations
    <3>2. RestTypeOK'
      <4>1. status' \in [Reqs -> Nat]
        BY <1>19, <2>2 DEF Release, FinalStatus, Answers, RestTypeOK
      <4>2. page' \in [Reqs -> BOOLEAN]
        BY <1>19, <2>2 DEF Release, FinalStatus, Answers, RestTypeOK
      <4> QED BY <1>19, <2>2, <3>1, <4>1, <4>2 DEF Release, FinalStatus, Answers, RestTypeOK, Turns
    <3>3. Alone(r)
      BY <1>19, <2>2, <3>1 DEF Release, FinalStatus, Answers, RestTypeOK, Turns, Alone
    <3>4. Standing(r)'
      BY <1>19, <2>2, <3>1 DEF Release, FinalStatus, Answers, At, OfPool, RestTypeOK, Turns, Standing
    <3>5. Once(r)'
      BY <1>19, <2>2, <3>1 DEF Release, FinalStatus, Answers, MayRetry, MaxAttempts, At, OfPool, RestTypeOK, Turns, Standing, Once
    <3>6. Holds(r)'
      BY <1>19, <2>2, <3>1 DEF Release, FinalStatus, Answers, MayRetry, MaxAttempts, At, OfPool, RestTypeOK, Turns, Standing, Once, Holds
    <3> QED BY <3>2, <3>3, <3>4, <3>5, <3>6 DEF Kept, Placed
  <2>3. CASE ~acted[r] /\ ~(MayRetry(r) /\ rest[r].error # "final")
    <3>1. Turns(r, "over", rest[r].attempt, rest[r].on)
      BY <1>19, <2>3, Moved DEF Release, FinalStatus, Answers, Stations
    <3>2. RestTypeOK'
      <4>1. status' \in [Reqs -> Nat]
        BY <1>19, <2>3 DEF Release, FinalStatus, Answers, RestTypeOK
      <4>2. page' \in [Reqs -> BOOLEAN]
        BY <1>19, <2>3 DEF Release, FinalStatus, Answers, RestTypeOK
      <4> QED BY <1>19, <2>3, <3>1, <4>1, <4>2 DEF Release, FinalStatus, Answers, RestTypeOK, Turns
    <3>3. Alone(r)
      BY <1>19, <2>3, <3>1 DEF Release, FinalStatus, Answers, RestTypeOK, Turns, Alone
    <3>4. Standing(r)'
      BY <1>19, <2>3, <3>1 DEF Release, FinalStatus, Answers, At, OfPool, RestTypeOK, Turns, Standing
    <3>5. Once(r)'
      BY <1>19, <2>3, <3>1 DEF Release, FinalStatus, Answers, MayRetry, MaxAttempts, At, OfPool, RestTypeOK, Turns, Standing, Once
    <3>6. Holds(r)'
      BY <1>19, <2>3, <3>1 DEF Release, FinalStatus, Answers, MayRetry, MaxAttempts, At, OfPool, RestTypeOK, Turns, Standing, Once, Holds
    <3> QED BY <3>2, <3>3, <3>4, <3>5, <3>6 DEF Kept, Placed
  <2> QED BY <2>1, <2>2, <2>3
<1>20. CASE Waited(r)
  <2>1. Turns(r, "attempt", rest[r].attempt + 1, rest[r].on)
    <3>1. rest \in [Reqs -> Course]
      BY DEF RestTypeOK
    <3>2. rest' = [rest EXCEPT ![r].at = "attempt", ![r].attempt = rest[r].attempt + 1]
      BY <1>20, <3>1 DEF Waited
    <3> QED BY <1>20, <3>1, <3>2 DEF Turns, Course, Stations
  <2>2. RestTypeOK'
    BY <1>20, <2>1 DEF Waited, RestTypeOK, Turns
  <2>3. Alone(r)
    BY <1>20, <2>1 DEF Waited, RestTypeOK, Turns, Alone
  <2>4. Standing(r)'
    BY <1>20, <2>1 DEF Waited, At, OfPool, RestTypeOK, Turns, Standing
  <2>5. Once(r)'
    BY <1>20, <2>1 DEF Waited, At, OfPool, RestTypeOK, Turns, Standing, Once
  <2>6. Holds(r)'
    BY <1>20, <2>1 DEF Waited, At, OfPool, RestTypeOK, Turns, Standing, Once, Holds
  <2> QED BY <2>2, <2>3, <2>4, <2>5, <2>6 DEF Kept, Placed
<1>21. ASSUME NEW refused \in BOOLEAN, OpenFails(r, refused)
      PROVE  Kept(r)
  <2>1. CASE MayRetry(r) /\ ~refused
    <3>1. Turns(r, "wait", rest[r].attempt, rest[r].on)
      BY <1>21, <2>1, Moved DEF OpenFails, Answers, Stations
    <3>2. RestTypeOK'
      <4>1. status' \in [Reqs -> Nat]
        BY <1>21, <2>1 DEF OpenFails, Answers, RestTypeOK
      <4> QED BY <1>21, <2>1, <3>1, <4>1 DEF OpenFails, Answers, RestTypeOK, Turns
    <3>3. Alone(r)
      BY <1>21, <2>1, <3>1 DEF OpenFails, Answers, RestTypeOK, Turns, Alone
    <3>4. Standing(r)'
      BY <1>21, <2>1, <3>1 DEF OpenFails, Answers, At, OfPool, RestTypeOK, Turns, Standing
    <3>5. Once(r)'
      BY <1>21, <2>1, <3>1 DEF OpenFails, Answers, MayRetry, MaxAttempts, At, OfPool, RestTypeOK, Turns, Standing, Once
    <3>6. Holds(r)'
      BY <1>21, <2>1, <3>1 DEF OpenFails, Answers, MayRetry, MaxAttempts, At, OfPool, RestTypeOK, Turns, Standing, Once, Holds
    <3> QED BY <3>2, <3>3, <3>4, <3>5, <3>6 DEF Kept, Placed
  <2>2. CASE ~(MayRetry(r) /\ ~refused)
    <3>1. Turns(r, "over", rest[r].attempt, rest[r].on)
      BY <1>21, <2>2, Moved DEF OpenFails, Answers, Stations
    <3>2. RestTypeOK'
      <4>1. status' \in [Reqs -> Nat]
        BY <1>21, <2>2 DEF OpenFails, Answers, RestTypeOK
      <4> QED BY <1>21, <2>2, <3>1, <4>1 DEF OpenFails, Answers, RestTypeOK, Turns
    <3>3. Alone(r)
      BY <1>21, <2>2, <3>1 DEF OpenFails, Answers, RestTypeOK, Turns, Alone
    <3>4. Standing(r)'
      BY <1>21, <2>2, <3>1 DEF OpenFails, Answers, At, OfPool, RestTypeOK, Turns, Standing
    <3>5. Once(r)'
      BY <1>21, <2>2, <3>1 DEF OpenFails, Answers, MayRetry, MaxAttempts, At, OfPool, RestTypeOK, Turns, Standing, Once
    <3>6. Holds(r)'
      BY <1>21, <2>2, <3>1 DEF OpenFails, Answers, MayRetry, MaxAttempts, At, OfPool, RestTypeOK, Turns, Standing, Once, Holds
    <3> QED BY <3>2, <3>3, <3>4, <3>5, <3>6 DEF Kept, Placed
  <2> QED BY <2>1, <2>2
<1> QED BY <1>1, <1>2, <1>3, <1>4, <1>5, <1>6, <1>7, <1>8, <1>9, <1>10, <1>11, <1>12, <1>13, <1>14, <1>15, <1>16,
           <1>17, <1>18, <1>19, <1>20, <1>21
        DEF RestStep, GateRefuses, PinRefuses, ProxyRefuses

\* The inductive invariant of the REST requests.
LEMMA RestStepInv == RestInv /\ [RestNext]_restVars => RestInv'
<1>1. ASSUME RestInv, NEW r \in Reqs, RestStep(r)
      PROVE  RestInv'
  BY <1>1, RestStepKeeps, OthersStayPlaced DEF RestInv, Kept
<1>2. CASE RestInv /\ UNCHANGED restVars
  BY <1>2 DEF RestInv, RestTypeOK, Placed, Standing, Once, Holds, OfPool, restVars
<1> QED BY <1>1, <1>2 DEF RestNext, RestStep

\* Where a request is says what it holds.
LEMMA RestImplies == RestInv => RestSound
<1> SUFFICES ASSUME RestInv PROVE RestSound
  OBVIOUS
<1>1. ASSUME NEW r \in Reqs, status[r] # 0
      PROVE  /\ ~page[r] /\ \A b \in Backends : r \notin slots[b]
             /\ profileLock = r => ask[r].profile /\ ask[r].proxied
  BY <1>1 DEF RestInv, RestTypeOK, Course, Stations, Placed, Standing, Holds
<1>2. ASSUME NEW r \in Reqs, ask[r].profile
      PROVE  /\ rest[r].at \in {"loading", "choose", "inject", "connect", "run", "commit"} => profileLock = r
             /\ runs[r] <= 1 /\ saves[r] <= 1
             /\ ~ask[r].proxied /\ saves[r] > 0 => acted[r]
  BY <1>2 DEF RestInv, RestTypeOK, Placed, Once
<1> QED BY <1>1, <1>2 DEF RestSound, AnsweredHoldsNothing, WorksUnderLock

\* For any requests, backends and retries: a request that has its answer holds no slot and
\* no page, and the lock only while the session of a proxied browser has yet to end; and one
\* that works on the profile has the lock, runs once and saves once (rest/dispatch.ts).
THEOREM RestStaysSound == RestSpec => []RestSound
<1> QED BY RestInitInv, RestStepInv, RestImplies, PTL DEF RestSpec

----------------------------------------------------------------------------
(* The process.  A shutdown goes through its stages one after the other;   *)
(* the invariant says what is over by each of them.                        *)

LifeTypeOK ==
  /\ program \in {"serve", "stdio"}
  /\ stage \in [Signals -> {"none", "release", "transports", "pool", "chrome", "drain", "draining",
                            "profiles", "saving"}]
  /\ process \in {"runs", "ended", "failed", "timer"}
  /\ accepting \in BOOLEAN /\ draining \in BOOLEAN /\ cutShort \in BOOLEAN
  /\ conn \in [Conns -> {"none", "admitted", "tracked", "dialled", "closing", "saving", "gone"}]
  /\ managed \subseteq AgentConns
  /\ awaited \in [Signals -> SUBSET Conns]
  /\ chrome \in {"none", "launching", "fetching", "known", "killed"}
  /\ ownAtSignal \subseteq AgentConns \cup PoolConns /\ trackedAtDrain \subseteq Conns

\* A connection that is over is not tracked again.
Past(c) == conn[c] \in {"closing", "saving", "gone"}

\* A session in the map has been connected; over stdio no tracker has it.
ManagedConnected ==
  /\ \A c \in managed : conn[c] \notin {"none", "admitted"}
  /\ program = "stdio" => \A c \in Conns : conn[c] \in {"none", "dialled", "gone"}

\* The server's own sessions of the first signal are in the map or over, and over once
\* the stage that ends them is: the walk of the map, the end of the pool.
OwnEnds ==
  /\ \A c \in ownAtSignal \cap AgentConns : c \in managed \/ Past(c)
  /\ \A c \in ownAtSignal \cap PoolConns : conn[c] = "tracked" \/ Past(c)
  /\ Signalled = {} => ownAtSignal = {}
  /\ \A i \in Signals : stage[i] \notin {"none", "release"} =>
       \A c \in ownAtSignal \cap AgentConns : Past(c) /\ c \notin managed
  /\ \A i \in Signals : stage[i] \in {"drain", "draining", "profiles", "saving"} =>
       \A c \in ownAtSignal \cap PoolConns : Past(c)

\* What was tracked when the drain began stays tracked or is over, and a shutdown that is
\* alone and was not cut short goes on when all of it is over.
DrainWaits ==
  /\ \A c \in trackedAtDrain : conn[c] = "tracked" \/ Past(c)
  /\ draining => \E i \in Signals : stage[i] \in {"draining", "profiles", "saving"}
  /\ \A i \in Signals :
       stage[i] \in {"profiles", "saving"} /\ ~cutShort /\ (\A j \in Signals \ {i} : stage[j] = "none")
         => \A c \in trackedAtDrain : Past(c)

LifeInv == LifeTypeOK /\ ManagedConnected /\ OwnEnds /\ DrainWaits /\ ExitWaits /\ ChromeEndsToo

\* The invariant holds when the process starts.
LEMMA LifeInit == ServerInit => LifeInv
<1> SUFFICES ASSUME ServerInit PROVE LifeInv
  OBVIOUS
<1>1. LifeTypeOK
  BY DEF ServerInit, LifeTypeOK, Signals
<1>2. ManagedConnected /\ OwnEnds /\ DrainWaits
  BY DEF ServerInit, ManagedConnected, OwnEnds, DrainWaits, Signals
<1>3. ExitWaits /\ ChromeEndsToo
  BY DEF ServerInit, ExitWaits, ChromeEndsToo
<1> QED BY <1>1, <1>2, <1>3 DEF LifeInv

\* Every step keeps the types.
LEMMA LifeTypes ==
  ASSUME LifeTypeOK, ServerNext
  PROVE  LifeTypeOK'
<1> USE DEF LifeTypeOK, gatewayState, history
<1>1. ASSUME NEW c \in Conns, Admit(c) \/ Track(c) \/ Manage(c) \/ ConnEnds(c) \/ SaveBegins(c) \/ SaveEnds(c)
      PROVE  LifeTypeOK'
  <2>1. CASE Admit(c) BY <2>1 DEF Admit
  <2>2. CASE Track(c) BY <2>2 DEF Track
  <2>3. CASE Manage(c) BY <2>3 DEF Manage
  <2>4. CASE ConnEnds(c) BY <2>4 DEF ConnEnds, Closed
  <2>5. CASE SaveBegins(c) BY <2>5 DEF SaveBegins
  <2>6. CASE SaveEnds(c) BY <2>6 DEF SaveEnds
  <2> QED BY <1>1, <2>1, <2>2, <2>3, <2>4, <2>5, <2>6
<1>2. ASSUME NEW h \in HttpClients, PostBegins(h) \/ PostEnds(h) \/ Delete(h)
      PROVE  LifeTypeOK'
  BY <1>2 DEF PostBegins, PostEnds, Delete, CloseOf
<1>3. CASE LaunchChrome \/ LaunchFails \/ ChromeLaunched \/ ChromeKnown \/ FetchFails
  BY <1>3 DEF LaunchChrome, LaunchFails, ChromeLaunched, ChromeKnown, FetchFails
<1>4. ASSUME NEW i \in Signals, Signal(i)
      PROVE  LifeTypeOK'
  BY <1>4, OwnConns DEF Signal, Tracked
<1>5. ASSUME NEW i \in Signals, NEW c \in Conns, ReleaseManaged(i, c)
      PROVE  LifeTypeOK'
  BY <1>5 DEF ReleaseManaged, Closed
<1>6. ASSUME NEW i \in Signals, AllReleased(i) \/ TransportsClosed(i) \/ DrainSeesNone(i) \/ GivesUpDrain(i)
      PROVE  LifeTypeOK'
  BY <1>6 DEF AllReleased, TransportsClosed, DrainSeesNone, GivesUpDrain, Stages
<1>7. ASSUME NEW i \in Signals, NEW h \in HttpClients, CloseTransport(i, h)
      PROVE  LifeTypeOK'
  BY <1>7 DEF CloseTransport, CloseOf
<1>8. ASSUME NEW i \in Signals, PoolStops(i)
      PROVE  LifeTypeOK'
  BY <1>8 DEF PoolStops, Stages, Closed
<1>9. ASSUME NEW i \in Signals, KillChrome(i) \/ BeginDrain(i)
      PROVE  LifeTypeOK'
  BY <1>9 DEF KillChrome, BeginDrain, Stages, Tracked
<1>10. ASSUME NEW i \in Signals, AwaitSaves(i)
       PROVE  LifeTypeOK'
  BY <1>10 DEF AwaitSaves, Stages
<1>11. ASSUME NEW i \in Signals, EndsAfterSaves(i) \/ GivesUpSaves(i)
       PROVE  LifeTypeOK'
  BY <1>11 DEF EndsAfterSaves, GivesUpSaves, Exit
<1>12. CASE ExitTimer
  BY <1>12 DEF ExitTimer, Exit
<1> QED BY <1>1, <1>2, <1>3, <1>4, <1>5, <1>6, <1>7, <1>8, <1>9, <1>10, <1>11, <1>12
        DEF ServerNext, Connecting, Stopping

\* What is over stays over, and only what was not connected yet becomes tracked.
LEMMA LifeGoesOn ==
  ASSUME LifeTypeOK, ManagedConnected, ServerNext
  PROVE  /\ process = "runs"
         /\ \A c \in Conns : /\ Past(c) => Past(c)'
                             /\ conn[c] = "tracked" => (conn'[c] = "tracked" \/ Past(c)')
                             /\ conn[c] \notin {"none", "admitted"} => conn'[c] \notin {"none", "admitted"}
                             /\ c \in managed' \ managed => (conn'[c] \notin {"none", "admitted"} /\ ~Past(c))
         /\ program' = program /\ (program = "stdio" => \A c \in Conns : conn'[c] \in {"none", "dialled", "gone"})
<1> USE DEF LifeTypeOK, ManagedConnected, Past, gatewayState, history
<1> DEFINE Goal ==
         /\ process = "runs"
         /\ \A c \in Conns : /\ Past(c) => Past(c)'
                             /\ conn[c] = "tracked" => (conn'[c] = "tracked" \/ Past(c)')
                             /\ conn[c] \notin {"none", "admitted"} => conn'[c] \notin {"none", "admitted"}
                             /\ c \in managed' \ managed => (conn'[c] \notin {"none", "admitted"} /\ ~Past(c))
         /\ program' = program /\ (program = "stdio" => \A c \in Conns : conn'[c] \in {"none", "dialled", "gone"})
<1>1. ASSUME NEW c \in Conns, Admit(c) \/ Track(c) \/ Manage(c) \/ ConnEnds(c) \/ SaveBegins(c) \/ SaveEnds(c)
      PROVE  Goal
  <2>1. CASE Admit(c) BY <2>1 DEF Admit, Serves
  <2>2. CASE Track(c) BY <2>2 DEF Track, Serves
  <2>3. CASE Manage(c) BY <2>3 DEF Manage
  <2>4. CASE ConnEnds(c) BY <2>4 DEF ConnEnds, Closed, Serves
  <2>5. CASE SaveBegins(c) BY <2>5 DEF SaveBegins, Serves
  <2>6. CASE SaveEnds(c) BY <2>6 DEF SaveEnds, Serves
  <2> QED BY <1>1, <2>1, <2>2, <2>3, <2>4, <2>5, <2>6
<1>2. ASSUME NEW i \in Signals, NEW c \in Conns, ReleaseManaged(i, c)
      PROVE  Goal
  BY <1>2 DEF ReleaseManaged, Closed
<1>3. ASSUME NEW i \in Signals, PoolStops(i)
      PROVE  Goal
  BY <1>3 DEF PoolStops, Closed, Serves
<1>4. CASE ServerNext /\ UNCHANGED conn
  <2>1. process = "runs" /\ program' = program
    BY <1>4 DEF ServerNext, Connecting, Stopping, Admit, Track, Manage, ConnEnds, SaveBegins, SaveEnds, PostBegins,
       PostEnds, Delete, LaunchChrome, LaunchFails, ChromeLaunched, ChromeKnown, FetchFails, Signal, ReleaseManaged,
       AllReleased, CloseTransport, TransportsClosed, PoolStops, KillChrome, BeginDrain, DrainSeesNone,
       GivesUpDrain, AwaitSaves, EndsAfterSaves, GivesUpSaves, ExitTimer, Exit, Serves, Talks
  <2>2. managed' \subseteq managed \/ \E c \in Conns : Manage(c)
    BY <1>4 DEF ServerNext, Connecting, Stopping, Admit, Track, ConnEnds, SaveBegins, SaveEnds, PostBegins,
       PostEnds, Delete, LaunchChrome, LaunchFails, ChromeLaunched, ChromeKnown, FetchFails, Signal, ReleaseManaged,
       AllReleased, CloseTransport, TransportsClosed, PoolStops, KillChrome, BeginDrain, DrainSeesNone,
       GivesUpDrain, AwaitSaves, EndsAfterSaves, GivesUpSaves, ExitTimer, Exit
  <2>3. CASE managed' \subseteq managed
    BY <1>4, <2>1, <2>3
  <2> QED BY <1>1, <2>2, <2>3
<1>5. \/ UNCHANGED conn
      \/ \E c \in Conns : \/ Admit(c) \/ Track(c) \/ Manage(c) \/ ConnEnds(c) \/ SaveBegins(c) \/ SaveEnds(c)
                          \/ \E i \in Signals : ReleaseManaged(i, c)
      \/ \E i \in Signals : PoolStops(i)
  BY DEF ServerNext, Connecting, Stopping, PostBegins, PostEnds, Delete, LaunchChrome, LaunchFails, ChromeLaunched,
     ChromeKnown, FetchFails, Signal, AllReleased, CloseTransport, TransportsClosed, KillChrome, BeginDrain,
     DrainSeesNone, GivesUpDrain, AwaitSaves, EndsAfterSaves, GivesUpSaves, ExitTimer, Exit
<1> QED BY <1>1, <1>2, <1>3, <1>4, <1>5

\* The map of the server's own sessions.
LEMMA LifeManaged ==
  ASSUME LifeTypeOK, ManagedConnected, ServerNext
  PROVE  ManagedConnected'
<1>1. managed \subseteq Conns /\ managed' \subseteq Conns
  BY LifeTypes, OwnConns DEF LifeTypeOK
<1> QED BY <1>1, LifeGoesOn DEF ManagedConnected

\* The server's own sessions of the first signal.
LEMMA LifeOwnEnds ==
  ASSUME LifeTypeOK, ManagedConnected, OwnEnds, ServerNext
  PROVE  OwnEnds'
<1> USE DEF LifeTypeOK
<1>1. /\ AgentConns \subseteq Conns /\ PoolConns \subseteq Conns /\ AgentConns \cap PoolConns = {}
      /\ LifeTypeOK' /\ ManagedConnected'
  BY OwnConns, LifeTypes, LifeManaged
\* Every step but these leaves the stages, the map and the history as they are.
<1>2. \/ UNCHANGED <<stage, managed, ownAtSignal>>
      \/ \E c \in Conns : Manage(c)
      \/ \E i \in Signals : Signal(i) \/ AllReleased(i) \/ PoolStops(i) \/ \E c \in Conns : ReleaseManaged(i, c)
      \/ /\ UNCHANGED <<conn, managed, ownAtSignal>>
         /\ \E i \in Signals : \/ TransportsClosed(i) \/ KillChrome(i) \/ BeginDrain(i) \/ DrainSeesNone(i)
                               \/ GivesUpDrain(i) \/ AwaitSaves(i)
  BY DEF ServerNext, Connecting, Stopping, Admit, Track, ConnEnds, SaveBegins, SaveEnds, PostBegins, PostEnds, Delete,
     LaunchChrome, LaunchFails, ChromeLaunched, ChromeKnown, FetchFails, CloseTransport, TransportsClosed, KillChrome,
     BeginDrain, DrainSeesNone, GivesUpDrain, AwaitSaves, EndsAfterSaves, GivesUpSaves, ExitTimer, Exit, history
<1>3. CASE UNCHANGED <<stage, managed, ownAtSignal>>
  BY <1>1, <1>3, LifeGoesOn DEF OwnEnds, Signalled
<1>4. ASSUME NEW c \in Conns, Manage(c)
      PROVE  OwnEnds'
  <2>1. UNCHANGED <<stage, ownAtSignal>> /\ managed' = managed \cup {c} /\ c \in AgentConns /\ ~Past(c)
    BY <1>4 DEF Manage, history, Past, ManagedConnected
  <2> QED BY <1>1, <2>1, LifeGoesOn DEF OwnEnds, Signalled
<1>5. ASSUME NEW i \in Signals, Signal(i)
      PROVE  OwnEnds'
  <2>1. UNCHANGED <<conn, managed>> /\ stage' = [stage EXCEPT ![i] = "release"] /\ stage[i] = "none"
    BY <1>5 DEF Signal
  <2>2. CASE Signalled = {}
    <3>1. ownAtSignal' = managed \cup (Tracked \cap PoolConns)
      BY <1>5, <2>2 DEF Signal
    <3>2. \A j \in Signals : stage[j] = "none"
      BY <2>2 DEF Signalled
    <3> QED BY <1>1, <2>1, <3>1, <3>2 DEF OwnEnds, Signalled, Tracked, Past
  <2>3. CASE Signalled # {}
    BY <1>1, <1>5, <2>1, <2>3 DEF OwnEnds, Signalled, Signal, Past
  <2> QED BY <2>2, <2>3
<1>6. ASSUME NEW i \in Signals, AllReleased(i)
      PROVE  OwnEnds'
  BY <1>1, <1>6 DEF OwnEnds, Signalled, AllReleased, Stages, history, Past
<1>7. ASSUME NEW i \in Signals, PoolStops(i)
      PROVE  OwnEnds'
  <2>1. /\ UNCHANGED <<managed, ownAtSignal>> /\ stage' = [stage EXCEPT ![i] = "drain"] /\ stage[i] = "pool"
        /\ \A c \in PoolConns : conn[c] = "tracked" => conn'[c] = "closing"
    BY <1>1, <1>7 DEF PoolStops, Stages, history, Closed
  <2>2. \A c \in ownAtSignal \cap PoolConns : Past(c)'
    BY <1>1, <2>1, LifeGoesOn DEF OwnEnds, Past
  <2> QED BY <1>1, <2>1, <2>2, LifeGoesOn DEF OwnEnds, Signalled
<1>8. ASSUME NEW i \in Signals, NEW c \in Conns, ReleaseManaged(i, c)
      PROVE  OwnEnds'
  <2>1. /\ UNCHANGED <<stage, ownAtSignal>> /\ managed' = managed \ {c} /\ c \in managed
        /\ conn' = [conn EXCEPT ![c] = Closed(c)]
    BY <1>8 DEF ReleaseManaged, history
  <2>2. Past(c)'
    BY <2>1 DEF Closed, Past, ManagedConnected
  <2> QED BY <1>1, <2>1, <2>2, LifeGoesOn DEF OwnEnds, Signalled
<1>9. ASSUME NEW i \in Signals, UNCHANGED <<conn, managed, ownAtSignal>>,
             \/ TransportsClosed(i) \/ KillChrome(i) \/ BeginDrain(i) \/ DrainSeesNone(i) \/ GivesUpDrain(i)
             \/ AwaitSaves(i)
      PROVE  OwnEnds'
  <2>1. CASE TransportsClosed(i) BY <1>9, <2>1 DEF OwnEnds, Signalled, TransportsClosed, Stages, Past
  <2>2. CASE KillChrome(i)
    <3>1. \A c \in ownAtSignal \cap PoolConns : Past(c)
      BY <1>1, <2>2 DEF KillChrome, Talks, ManagedConnected, OwnEnds, Past
    <3> QED BY <1>9, <2>2, <3>1 DEF OwnEnds, Signalled, KillChrome, Stages, Past
  <2>3. CASE BeginDrain(i) BY <1>9, <2>3 DEF OwnEnds, Signalled, BeginDrain, Stages, Past
  <2>4. CASE DrainSeesNone(i) BY <1>9, <2>4 DEF OwnEnds, Signalled, DrainSeesNone, Stages, Past
  <2>5. CASE GivesUpDrain(i) BY <1>9, <2>5 DEF OwnEnds, Signalled, GivesUpDrain, Stages, Past
  <2>6. CASE AwaitSaves(i) BY <1>9, <2>6 DEF OwnEnds, Signalled, AwaitSaves, Stages, Past
  <2> QED BY <1>9, <2>1, <2>2, <2>3, <2>4, <2>5, <2>6
<1> QED BY <1>2, <1>3, <1>4, <1>5, <1>6, <1>7, <1>8, <1>9

\* What the drains wait for.
LEMMA LifeDrainWaits ==
  ASSUME LifeTypeOK, ManagedConnected, DrainWaits, ServerNext
  PROVE  DrainWaits'
<1> USE DEF LifeTypeOK
<1>1. LifeTypeOK' /\ process = "runs"
  BY LifeTypes, LifeGoesOn
<1>2. \/ UNCHANGED <<stage, draining, cutShort, trackedAtDrain>>
      \/ \E i \in Signals :
            \/ Signal(i) \/ BeginDrain(i) \/ DrainSeesNone(i) \/ GivesUpDrain(i) \/ GivesUpSaves(i)
            \/ AllReleased(i) \/ TransportsClosed(i) \/ PoolStops(i) \/ KillChrome(i) \/ AwaitSaves(i)
  BY DEF ServerNext, Connecting, Stopping, Admit, Track, Manage, ConnEnds, SaveBegins, SaveEnds, PostBegins, PostEnds,
     Delete, LaunchChrome, LaunchFails, ChromeLaunched, ChromeKnown, FetchFails, ReleaseManaged, CloseTransport,
     EndsAfterSaves, ExitTimer, Exit, history, gatewayState
<1>3. CASE UNCHANGED <<stage, draining, cutShort, trackedAtDrain>>
  BY <1>1, <1>3, LifeGoesOn DEF DrainWaits
<1>4. ASSUME NEW i \in Signals, Signal(i)
      PROVE  DrainWaits'
  <2>1. /\ stage' = [stage EXCEPT ![i] = "release"] /\ stage[i] = "none"
        /\ UNCHANGED <<draining, cutShort, trackedAtDrain, conn>>
    BY <1>4 DEF Signal, gatewayState
  <2> QED BY <2>1 DEF DrainWaits, Past
<1>5. ASSUME NEW i \in Signals, BeginDrain(i)
      PROVE  DrainWaits'
  <2>1. UNCHANGED <<conn, cutShort>> /\ draining' /\ stage[i] = "drain"
    BY <1>5 DEF BeginDrain, Stages
  <2>2. CASE draining
    <3>1. stage' = [stage EXCEPT ![i] = "profiles"] /\ UNCHANGED trackedAtDrain
      BY <1>5, <2>2 DEF BeginDrain, Stages
    <3>2. PICK j \in Signals : stage[j] \in {"draining", "profiles", "saving"}
      BY <2>2 DEF DrainWaits
    <3>3. i # j /\ stage'[j] # "none"
      BY <2>1, <3>1, <3>2
    <3>4. ASSUME NEW k \in Signals, stage'[k] \in {"profiles", "saving"}, ~cutShort,
                 \A l \in Signals \ {k} : stage'[l] = "none"
          PROVE  FALSE
      BY <2>1, <3>1, <3>3, <3>4
    <3> QED BY <2>1, <3>1, <3>4 DEF DrainWaits, Past
  <2>3. CASE ~draining
    <3>1. /\ stage' = [stage EXCEPT ![i] = IF Tracked = {} THEN "profiles" ELSE "draining"]
          /\ trackedAtDrain' = Tracked
      BY <1>5, <2>3 DEF BeginDrain, Stages
    <3>2. ASSUME NEW k \in Signals, stage'[k] \in {"profiles", "saving"}, ~cutShort,
                 \A l \in Signals \ {k} : stage'[l] = "none"
          PROVE  Tracked = {}
      BY <2>1, <3>1, <3>2
    <3>3. \A c \in Tracked : conn'[c] = "tracked"
      BY <2>1 DEF Tracked
    <3>4. \E k \in Signals : stage'[k] \in {"draining", "profiles", "saving"}
      BY <3>1
    <3> QED BY <2>1, <3>1, <3>2, <3>3, <3>4 DEF DrainWaits
  <2> QED BY <2>2, <2>3
<1>6. ASSUME NEW i \in Signals, DrainSeesNone(i)
      PROVE  DrainWaits'
  <2>1. /\ stage' = [stage EXCEPT ![i] = "profiles"] /\ Tracked = {}
        /\ UNCHANGED <<draining, cutShort, trackedAtDrain, conn>>
    BY <1>6 DEF DrainSeesNone, Stages, gatewayState, history
  <2>2. \A c \in trackedAtDrain : Past(c)
    BY <2>1 DEF DrainWaits, Tracked
  <2> QED BY <2>1, <2>2 DEF DrainWaits, Past
<1>7. ASSUME NEW i \in Signals, GivesUpDrain(i)
      PROVE  DrainWaits'
  <2>1. /\ stage' = [stage EXCEPT ![i] = "profiles"] /\ cutShort'
        /\ UNCHANGED <<draining, trackedAtDrain, conn>>
    BY <1>7 DEF GivesUpDrain, Stages, history
  <2> QED BY <2>1 DEF DrainWaits, Past
<1>8. ASSUME NEW i \in Signals, GivesUpSaves(i)
      PROVE  DrainWaits'
  <2>1. cutShort' /\ UNCHANGED <<stage, draining, trackedAtDrain, conn>>
    BY <1>8 DEF GivesUpSaves, Exit, history
  <2> QED BY <2>1 DEF DrainWaits, Past
<1>9. ASSUME NEW i \in Signals, AllReleased(i) \/ TransportsClosed(i) \/ PoolStops(i) \/ KillChrome(i)
      PROVE  DrainWaits'
  <2>1. /\ \E s \in {"transports", "pool", "chrome", "drain"} : stage' = [stage EXCEPT ![i] = s]
        /\ stage[i] \in {"release", "transports", "pool", "chrome"}
        /\ UNCHANGED <<draining, cutShort, trackedAtDrain>>
    BY <1>9 DEF AllReleased, TransportsClosed, PoolStops, KillChrome, Stages, gatewayState, history
  <2>2. \A c \in trackedAtDrain' : conn'[c] = "tracked" \/ Past(c)'
    BY <2>1, LifeGoesOn DEF DrainWaits
  <2>3. draining' => \E j \in Signals : stage'[j] \in {"draining", "profiles", "saving"}
    BY <2>1 DEF DrainWaits
  <2>4. ASSUME NEW k \in Signals, stage'[k] \in {"profiles", "saving"}, ~cutShort',
               \A l \in Signals \ {k} : stage'[l] = "none"
        PROVE  FALSE
    <3>1. k # i /\ stage'[i] # "none"
      BY <2>1, <2>4
    <3> QED BY <2>4, <3>1
  <2> QED BY <2>2, <2>3, <2>4 DEF DrainWaits
<1>10. ASSUME NEW i \in Signals, AwaitSaves(i)
       PROVE  DrainWaits'
  <2>1. /\ stage' = [stage EXCEPT ![i] = "saving"] /\ stage[i] = "profiles"
        /\ UNCHANGED <<draining, cutShort, trackedAtDrain, conn>>
    BY <1>10 DEF AwaitSaves, Stages, history
  <2> QED BY <2>1 DEF DrainWaits, Past
<1> QED BY <1>2, <1>3, <1>4, <1>5, <1>6, <1>7, <1>8, <1>9, <1>10

\* The exit, and the Chrome.
LEMMA LifeExits ==
  ASSUME LifeTypeOK, ManagedConnected, DrainWaits, ExitWaits, ChromeEndsToo, ServerNext
  PROVE  ExitWaits' /\ ChromeEndsToo'
<1> USE DEF LifeTypeOK
<1>1. process = "runs"
  BY LifeGoesOn
<1>2. ChromeEndsToo'
  BY <1>1 DEF ChromeEndsToo, ServerNext, Connecting, Stopping, Admit, Track, Manage, ConnEnds, SaveBegins, SaveEnds,
     PostBegins, PostEnds, Delete, LaunchChrome, LaunchFails, ChromeLaunched, ChromeKnown, FetchFails, Signal,
     ReleaseManaged, AllReleased, CloseTransport, TransportsClosed, PoolStops, KillChrome, BeginDrain, DrainSeesNone,
     GivesUpDrain, AwaitSaves, EndsAfterSaves, GivesUpSaves, ExitTimer, Exit, Stages
<1>3. process' # "ended" \/ cutShort' \/ \E i \in Signals : EndsAfterSaves(i)
  BY <1>1 DEF ServerNext, Connecting, Stopping, Admit, Track, Manage, ConnEnds, SaveBegins, SaveEnds,
     PostBegins, PostEnds, Delete, LaunchChrome, LaunchFails, ChromeLaunched, ChromeKnown, FetchFails, Signal,
     ReleaseManaged, AllReleased, CloseTransport, TransportsClosed, PoolStops, KillChrome, BeginDrain, DrainSeesNone,
     GivesUpDrain, AwaitSaves, GivesUpSaves, ExitTimer, Exit
<1>4. ASSUME NEW i \in Signals, EndsAfterSaves(i), ~cutShort'
      PROVE  ExitWaits'
  <2>1. /\ stage[i] = "saving" /\ SavesDone(i) /\ ~cutShort
        /\ UNCHANGED <<stage, conn, awaited, trackedAtDrain, cutShort>>
    BY <1>4 DEF EndsAfterSaves, Exit, history
  <2>2. ASSUME Cardinality(Signalled) = 1
        PROVE  \A j \in Signals \ {i} : stage[j] = "none"
    <3>1. IsFiniteSet(Signals)
      <4>1. IsFiniteSet({1}) /\ IsFiniteSet({2})
        BY FS_Singleton
      <4>2. IsFiniteSet({1} \cup {2})
        BY <4>1, FS_Union
      <4>3. Signals = {1} \cup {2}
        BY DEF Signals
      <4> QED BY <4>2, <4>3
    <3>2. IsFiniteSet(Signalled)
      <4>1. Signalled \subseteq Signals
        BY DEF Signalled
      <4> QED BY <3>1, <4>1, FS_Subset
    <3>3. PICK s : Signalled = {s}
      BY <2>2, <3>2, FS_Singleton
    <3> QED BY <2>1, <3>3 DEF Signalled
  <2>3. Cardinality(Signalled) = 1 => \A c \in trackedAtDrain : Past(c)
    BY <2>1, <2>2 DEF DrainWaits
  <2>4. Signalled' = Signalled
    BY <2>1 DEF Signalled
  <2>5. \A c \in trackedAtDrain' : Past(c) => conn'[c] \notin {"admitted", "tracked"}
    BY <2>1 DEF Past
  <2> QED BY <2>1, <2>3, <2>4, <2>5 DEF ExitWaits, SavesDone
<1>5. ASSUME process' # "ended" \/ cutShort'
      PROVE  ExitWaits'
  BY <1>5 DEF ExitWaits
<1> QED BY <1>2, <1>3, <1>4, <1>5

\* The inductive invariant of the process.
LEMMA LifeStep == LifeInv /\ [ServerNext]_serverVars => LifeInv'
<1>1. CASE LifeInv /\ ServerNext
  BY <1>1, LifeTypes, LifeManaged, LifeOwnEnds, LifeDrainWaits, LifeExits DEF LifeInv
<1>2. CASE LifeInv /\ UNCHANGED serverVars
  BY <1>2 DEF LifeInv, LifeTypeOK, ManagedConnected, OwnEnds, DrainWaits, ExitWaits, ChromeEndsToo, Past, Signalled,
     serverVars
<1> QED BY <1>1, <1>2

\* What was said of each stage says it of the shutdown.
LEMMA LifeImplies == LifeInv => LifeSound
<1> SUFFICES ASSUME LifeInv PROVE DrainsClientsOnly
  BY DEF LifeInv, LifeSound
<1>1. ASSUME NEW i \in Signals, stage[i] \in {"draining", "profiles", "saving"}, NEW c \in ownAtSignal
      PROVE  conn[c] # "tracked" /\ c \notin managed
  <2>1. c \in AgentConns => Past(c) /\ c \notin managed
    BY <1>1 DEF LifeInv, OwnEnds
  <2>2. c \in PoolConns => Past(c) /\ c \notin managed
    BY <1>1, OwnConns DEF LifeInv, OwnEnds, LifeTypeOK
  <2> QED BY <2>1, <2>2 DEF LifeInv, LifeTypeOK, Past
<1> QED BY <1>1 DEF DrainsClientsOnly

\* However many signals run beside each other: an exit that no deadline forced has waited
\* for the saves it saw and for what was connected, the drain waits for clients only, and
\* the Chrome the process knows ends with it.
THEOREM LifeStaysSound == ServerSpec => []LifeSound
<1> QED BY LifeInit, LifeStep, LifeImplies, PTL DEF ServerSpec

----------------------------------------------------------------------------
(* The way in.  Where a connection is on its way says what it has been     *)
(* equipped with; a step of one connection leaves the others where they    *)
(* are, and lets the cache only forget endpoints or learn those of the     *)
(* browser that runs.                                                      *)

Before == {"new", "loading", "locking", "claiming"}
Underway == {"dialling", "handing", "opening"}

\* A connection, as far as it has come.
Places == Before \cup Underway \cup {"refused", "routing", "live", "fetching", "saving", "over"}
Wished == [profile : Profiles \cup {Nothing}, readOnly : {"absent", "yes", "no"},
           proxy : {"absent", "unknown"} \cup DOMAIN Proxies, record : {"absent", "yes", "no"}]
Travels == SUBSET {"channel", "inject", "plugin"}
Plugged == SUBSET {"proxy", "profile", "closing", "record"}
Found == SUBSET (Providers \X {1, 2})
Deposited == [1..MaxTries -> {"none", "dropped", "capturing", "there", "late", "lost"}]
Counts == 0..MaxTries
Paths == {"none", "resume", "pipe", "pipeline"}
Urls == 0..2

Journeys ==
  [pc : Places, wish : Wished, pin : Providers \cup {Nothing}, resumes : BOOLEAN,
   access : {"none", "reads", "writes"}, at : Providers \cup {Nothing},
   path : Paths, plugins : Plugged, tried : SUBSET Providers, rounds : {0, 1},
   n : Counts, url : Urls, burnt : Found, twice : BOOLEAN, ways : Travels, token : Counts, proxied : BOOLEAN,
   deposit : Deposited, outcome : {"none", "saved", "kept", "missed", "failed"}]

\* How the profile of a connection travels at its provider, and when.
Way(g) == IF Offers[g.at].own THEN "channel" ELSE "inject"
ByPlugin(g) == g.path = "pipeline" /\ ~Channel(g, g.at)

\* What an attempt has follows from its path.
Equipped(g) ==
  g.pc \in Underway \cup {"live"} =>
    /\ g.n # 0 /\ g.at \in Providers
    /\ g.path \in {"resume", "pipe", "pipeline"}
    /\ g.path = "resume" => g.plugins = {}
    /\ g.path # "resume" => g.plugins = PluginList(g, g.at) /\ (g.path = "pipe" <=> g.plugins = {})

\* The profile is on no way before the hand-off, and on one after it.
OnOneWay(g) ==
  /\ g.pc \in {"dialling", "handing"} => g.ways = {} /\ g.token = 0
  /\ g.pc = "opening" => g.ways = IF g.access = "none" \/ ByPlugin(g) THEN {} ELSE {Way(g)}
  /\ g.pc = "live" =>
       /\ g.ways = IF g.access = "none" THEN {} ELSE IF ByPlugin(g) THEN {"plugin"} ELSE {Way(g)}
       /\ g.proxied => "proxy" \in g.plugins

\* The token is that of the attempt; only a writer leaves a capture under it.
OneToken(g) ==
  /\ g.token \in {0, g.n}
  /\ g.pc = "fetching" => g.token # 0
  /\ g.outcome = "missed" => g.pc = "over" /\ g.n # 0 /\ g.deposit[g.n] # "there"
  /\ g.access = "reads" => \A i \in 1..MaxTries : g.deposit[i] \in {"none", "dropped"}

\* Nothing was tried before the first attempt, which is the one that resumes.
OnTime(g) ==
  /\ g.pc \in Before => g.n = 0 /\ g.burnt = {} /\ g.outcome = "none" /\ \A i \in 1..MaxTries : g.deposit[i] = "none"
  /\ g.path = "resume" /\ g.pc \in Underway => g.burnt = {}

Fits(g) == g \in Journeys /\ Equipped(g) /\ OnOneWay(g) /\ OneToken(g) /\ OnTime(g)

\* An endpoint that a connection found out is of an earlier browser, and if the cache
\* keeps it the connection goes there with plugins, which do not ask the cache.
Current(g, eras, kept) ==
  /\ g.at \in Providers => g.url <= eras[g.at]
  /\ \A q \in Providers, u \in {1, 2} : <<q, u>> \in g.burnt =>
       /\ u < eras[q]
       /\ kept[q] = u => PluginList(g, q) # {}
  /\ ~g.twice

ConnectInv ==
  /\ defaults \in Defaults /\ parked \in Providers \cup {Nothing}
  /\ era \in [Providers -> {1, 2}] /\ cached \in [Providers -> 0..2]
  /\ \A q \in Providers : cached[q] <= era[q]
  /\ guest \in [Guests -> Journeys]
  /\ \A c \in Guests : Fits(guest[c]) /\ Current(guest[c], era, cached)

\* What a request is served as is typed.
LEMMA EffectiveTyped ==
  ASSUME NEW w \in Wishes, NEW d \in Defaults
  PROVE  Effective(w, d) \in Wished
BY DEF Wished, Effective, Mode, Wishes, Defaults

\* Whatever passes the gates goes on without the gateway's token.
LEMMA TokenStays == TokenStaysHere
BY DEF TokenStaysHere, Envelopes, Entries, Passes, OriginAllowed, HostAllowed, Presented, Sent, Outbound, Forwards

\* Only a connection that was meant to write does.
LEMMA MeantWrites == WritesIfMeant
BY ConnectAssumption DEF WritesIfMeant, Effective, Mode, ReadsOnly, Wishes, Defaults

\* The invariant holds before the first connection.
LEMMA ConnectInitInv == ConnectInit => ConnectInv
<1> SUFFICES ASSUME ConnectInit PROVE ConnectInv
  OBVIOUS
<1>1. Newcomer \in Journeys
  BY ConnectAssumption DEF Newcomer, Journeys, Places, Wished, Travels, Plugged, Found, Deposited, Counts, Paths, Urls, Before, Underway
<1>2. Fits(Newcomer)
  BY <1>1, ConnectAssumption DEF Fits, Newcomer, Equipped, OnOneWay, OneToken, OnTime, Before, Underway
<1>3. Current(Newcomer, era, cached)
  BY ConnectAssumption DEF Newcomer, Current
<1> QED BY <1>1, <1>2, <1>3 DEF ConnectInit, ConnectInv

\* The plugins are of those there are.
LEMMA PluginsTyped ==
  ASSUME NEW g, NEW q
  PROVE  PluginList(g, q) \in Plugged
BY DEF PluginList, Plugged

\* A connection that is refused, or on to another provider.
LEMMA TurnsAway ==
  ASSUME NEW g, Fits(g),
         g.pc # "over", NEW place \in {"refused", "routing"}
  PROVE  Fits([g EXCEPT !.pc = place])
<1> DEFINE next == [g EXCEPT !.pc = place]
<1>0. g \in Journeys /\ Equipped(g) /\ OnOneWay(g) /\ OneToken(g) /\ OnTime(g)
  BY DEF Fits
<1>9. place \in Places
  BY <1>0, ConnectAssumption DEF Journeys, Places, Before, Underway
<1>1. next \in Journeys
  BY <1>0, <1>9, ConnectAssumption DEF Journeys
<1>2. /\ next.pc = place /\ next.wish = g.wish /\ next.pin = g.pin
      /\ next.resumes = g.resumes /\ next.access = g.access /\ next.at = g.at
      /\ next.path = g.path /\ next.plugins = g.plugins /\ next.tried = g.tried
      /\ next.rounds = g.rounds /\ next.n = g.n /\ next.url = g.url
      /\ next.burnt = g.burnt /\ next.twice = g.twice /\ next.ways = g.ways
      /\ next.token = g.token /\ next.proxied = g.proxied /\ next.deposit = g.deposit
      /\ next.outcome = g.outcome
  BY <1>0 DEF Journeys
<1> HIDE DEF next
<1>7. \A p : PluginList(next, p) = PluginList(g, p) /\ Channel(next, p) = Channel(g, p)
  BY <1>2 DEF PluginList, Channel
<1>3. Equipped(next)
  BY <1>0, <1>2, <1>7, <1>9 DEF Before, Underway, Equipped
<1>4. OnOneWay(next)
  BY <1>0, <1>2, <1>7 DEF Before, Underway, OnOneWay, Way, ByPlugin
<1>5. OneToken(next)
  BY <1>0, <1>2, ConnectAssumption DEF Journeys, Counts, Deposited, Before, Underway, OneToken
<1>6. OnTime(next)
  BY <1>0, <1>2 DEF Before, Underway, OnTime
<1> QED BY <1>1, <1>3, <1>4, <1>5, <1>6 DEF Fits, next

\* A request past the gates.
LEMMA ComesIn ==
  ASSUME NEW g, Fits(g),
         g.pc = "new", NEW w \in Wished, NEW pin \in Providers \cup {Nothing}, NEW resumes \in BOOLEAN,
         NEW place \in {"refused", "claiming", "loading", "locking"}
  PROVE  Fits([g EXCEPT !.wish = w, !.pin = pin, !.resumes = resumes, !.pc = place])
<1> DEFINE next == [g EXCEPT !.wish = w, !.pin = pin, !.resumes = resumes, !.pc = place]
<1>0. g \in Journeys /\ Equipped(g) /\ OnOneWay(g) /\ OneToken(g) /\ OnTime(g)
  BY DEF Fits
<1>9. /\ place \in Places
  BY <1>0, ConnectAssumption DEF Journeys, Places, Wished, Before, Underway
<1>1. next \in Journeys
  BY <1>0, <1>9, ConnectAssumption DEF Journeys
<1>2. /\ next.pc = place /\ next.wish = w /\ next.pin = pin
      /\ next.resumes = resumes /\ next.access = g.access /\ next.at = g.at
      /\ next.path = g.path /\ next.plugins = g.plugins /\ next.tried = g.tried
      /\ next.rounds = g.rounds /\ next.n = g.n /\ next.url = g.url
      /\ next.burnt = g.burnt /\ next.twice = g.twice /\ next.ways = g.ways
      /\ next.token = g.token /\ next.proxied = g.proxied /\ next.deposit = g.deposit
      /\ next.outcome = g.outcome
  BY <1>0 DEF Journeys
<1> HIDE DEF next
<1>3. Equipped(next)
  BY <1>0, <1>2, <1>9 DEF Before, Underway, Equipped
<1>4. OnOneWay(next)
  BY <1>0, <1>2 DEF Before, Underway, OnOneWay, Way, ByPlugin
<1>5. OneToken(next)
  BY <1>0, <1>2, ConnectAssumption DEF Journeys, Counts, Deposited, Before, Underway, OneToken
<1>6. OnTime(next)
  BY <1>0, <1>2 DEF Before, Underway, OnTime
<1> QED BY <1>1, <1>3, <1>4, <1>5, <1>6 DEF Fits, next

\* A profile that is loaded, or locked.
LEMMA TakesProfile ==
  ASSUME NEW g, Fits(g),
         g.pc \in {"loading", "locking"}, NEW way \in {"reads", "writes"}
  PROVE  Fits([g EXCEPT !.pc = "claiming", !.access = way])
<1> DEFINE next == [g EXCEPT !.pc = "claiming", !.access = way]
<1>0. g \in Journeys /\ Equipped(g) /\ OnOneWay(g) /\ OneToken(g) /\ OnTime(g)
  BY DEF Fits
<1>9. "claiming" \in Places
  BY <1>0, ConnectAssumption DEF Journeys, Places, Before, Underway
<1>1. next \in Journeys
  BY <1>0, <1>9, ConnectAssumption DEF Journeys
<1>2. /\ next.pc = "claiming" /\ next.wish = g.wish /\ next.pin = g.pin
      /\ next.resumes = g.resumes /\ next.access = way /\ next.at = g.at
      /\ next.path = g.path /\ next.plugins = g.plugins /\ next.tried = g.tried
      /\ next.rounds = g.rounds /\ next.n = g.n /\ next.url = g.url
      /\ next.burnt = g.burnt /\ next.twice = g.twice /\ next.ways = g.ways
      /\ next.token = g.token /\ next.proxied = g.proxied /\ next.deposit = g.deposit
      /\ next.outcome = g.outcome
  BY <1>0 DEF Journeys
<1> HIDE DEF next
<1>3. Equipped(next)
  BY <1>0, <1>2, <1>9 DEF Before, Underway, Equipped
<1>4. OnOneWay(next)
  BY <1>0, <1>2 DEF Before, Underway, OnOneWay, Way, ByPlugin
<1>5. OneToken(next)
  BY <1>0, <1>2, ConnectAssumption DEF Journeys, Counts, Deposited, Before, Underway, OneToken, OnTime
<1>6. OnTime(next)
  BY <1>0, <1>2 DEF Before, Underway, OnTime
<1> QED BY <1>1, <1>3, <1>4, <1>5, <1>6 DEF Fits, next

\* The first attempt of a session that was parked.
LEMMA Resumes ==
  ASSUME NEW g, Fits(g),
         g.pc = "claiming", g.n < MaxTries, NEW q \in Providers
  PROVE  Fits([g EXCEPT !.pc = "dialling", !.n = @ + 1, !.at = q, !.path = "resume", !.plugins = {},
                        !.tried = @, !.url = 0, !.ways = {}, !.token = 0])
<1> DEFINE next == [g EXCEPT !.pc = "dialling", !.n = @ + 1, !.at = q, !.path = "resume", !.plugins = {},
                        !.tried = @, !.url = 0, !.ways = {}, !.token = 0]
<1>0. g \in Journeys /\ Equipped(g) /\ OnOneWay(g) /\ OneToken(g) /\ OnTime(g)
  BY DEF Fits
<1>9. /\ "dialling" \in Places
      /\ "resume" \in Paths
      /\ {} \in Plugged
      /\ g.n + 1 \in Counts
      /\ 0 \in Urls
      /\ {} \in Travels
      /\ 0 \in Counts
      /\ g.n + 1 # 0
  BY <1>0, ConnectAssumption DEF Journeys, Paths, Places, Plugged, Travels, Counts, Urls, Before, Underway
<1>1. next \in Journeys
  BY <1>0, <1>9, ConnectAssumption DEF Journeys
<1>2. /\ next.pc = "dialling" /\ next.wish = g.wish /\ next.pin = g.pin
      /\ next.resumes = g.resumes /\ next.access = g.access /\ next.at = q
      /\ next.path = "resume" /\ next.plugins = {} /\ next.tried = g.tried
      /\ next.rounds = g.rounds /\ next.n = g.n + 1 /\ next.url = 0
      /\ next.burnt = g.burnt /\ next.twice = g.twice /\ next.ways = {}
      /\ next.token = 0 /\ next.proxied = g.proxied /\ next.deposit = g.deposit
      /\ next.outcome = g.outcome
  BY <1>0 DEF Journeys
<1> HIDE DEF next
<1>7. \A p : PluginList(next, p) = PluginList(g, p) /\ Channel(next, p) = Channel(g, p)
  BY <1>2 DEF PluginList, Channel
<1>3. Equipped(next)
  BY <1>0, <1>2, <1>7, <1>9 DEF Before, Underway, Equipped
<1>4. OnOneWay(next)
  BY <1>0, <1>2, <1>7 DEF Before, Underway, OnOneWay, Way, ByPlugin
<1>5. OneToken(next)
  BY <1>0, <1>2, ConnectAssumption DEF Journeys, Counts, Deposited, Before, Underway, OneToken
<1>6. OnTime(next)
  BY <1>0, <1>2 DEF Before, Underway, OnTime
<1> QED BY <1>1, <1>3, <1>4, <1>5, <1>6 DEF Fits, next

\* A provider without room, or in no second round.
LEMMA PassesOver ==
  ASSUME NEW g, Fits(g),
         g.pc = "routing", NEW tried \in SUBSET Providers, NEW rounds \in {0, 1}
  PROVE  Fits([g EXCEPT !.rounds = rounds, !.tried = tried])
<1> DEFINE next == [g EXCEPT !.rounds = rounds, !.tried = tried]
<1>0. g \in Journeys /\ Equipped(g) /\ OnOneWay(g) /\ OneToken(g) /\ OnTime(g)
  BY DEF Fits
<1>1. next \in Journeys
  BY <1>0, ConnectAssumption DEF Journeys
<1>2. /\ next.pc = g.pc /\ next.wish = g.wish /\ next.pin = g.pin
      /\ next.resumes = g.resumes /\ next.access = g.access /\ next.at = g.at
      /\ next.path = g.path /\ next.plugins = g.plugins /\ next.tried = tried
      /\ next.rounds = rounds /\ next.n = g.n /\ next.url = g.url
      /\ next.burnt = g.burnt /\ next.twice = g.twice /\ next.ways = g.ways
      /\ next.token = g.token /\ next.proxied = g.proxied /\ next.deposit = g.deposit
      /\ next.outcome = g.outcome
  BY <1>0 DEF Journeys
<1> HIDE DEF next
<1>7. \A p : PluginList(next, p) = PluginList(g, p) /\ Channel(next, p) = Channel(g, p)
  BY <1>2 DEF PluginList, Channel
<1>3. Equipped(next)
  BY <1>0, <1>2, <1>7 DEF Before, Underway, Equipped
<1>4. OnOneWay(next)
  BY <1>0, <1>2, <1>7 DEF Before, Underway, OnOneWay, Way, ByPlugin
<1>5. OneToken(next)
  BY <1>0, <1>2, ConnectAssumption DEF Journeys, Counts, Deposited, Before, Underway, OneToken
<1>6. OnTime(next)
  BY <1>0, <1>2 DEF Before, Underway, OnTime
<1> QED BY <1>1, <1>3, <1>4, <1>5, <1>6 DEF Fits, next

\* The next attempt at a provider.
LEMMA Attempted ==
  ASSUME NEW g, Fits(g),
         g.pc = "routing", g.n < MaxTries, NEW q \in Providers
  PROVE  Fits([g EXCEPT !.pc = "dialling", !.n = @ + 1, !.at = q, !.path = IF PluginList(g, q) = {} THEN "pipe" ELSE "pipeline", !.plugins = PluginList(g, q),
                        !.tried = @ \cup {q}, !.url = 0, !.ways = {}, !.token = 0])
<1> DEFINE next == [g EXCEPT !.pc = "dialling", !.n = @ + 1, !.at = q, !.path = IF PluginList(g, q) = {} THEN "pipe" ELSE "pipeline", !.plugins = PluginList(g, q),
                        !.tried = @ \cup {q}, !.url = 0, !.ways = {}, !.token = 0]
<1>0. g \in Journeys /\ Equipped(g) /\ OnOneWay(g) /\ OneToken(g) /\ OnTime(g)
  BY DEF Fits
<1>9. /\ "dialling" \in Places
      /\ (IF PluginList(g, q) = {} THEN "pipe" ELSE "pipeline") \in Paths
      /\ PluginList(g, q) \in Plugged
      /\ g.n + 1 \in Counts
      /\ 0 \in Urls
      /\ {} \in Travels
      /\ 0 \in Counts
      /\ g.n + 1 # 0
  BY <1>0, ConnectAssumption, PluginsTyped DEF Journeys, Paths, Places, Travels, Counts, Urls, Before, Underway
<1>1. next \in Journeys
  BY <1>0, <1>9, ConnectAssumption DEF Journeys
<1>2. /\ next.pc = "dialling" /\ next.wish = g.wish /\ next.pin = g.pin
      /\ next.resumes = g.resumes /\ next.access = g.access /\ next.at = q
      /\ next.path = (IF PluginList(g, q) = {} THEN "pipe" ELSE "pipeline") /\ next.plugins = PluginList(g, q) /\ next.tried = g.tried \cup {q}
      /\ next.rounds = g.rounds /\ next.n = g.n + 1 /\ next.url = 0
      /\ next.burnt = g.burnt /\ next.twice = g.twice /\ next.ways = {}
      /\ next.token = 0 /\ next.proxied = g.proxied /\ next.deposit = g.deposit
      /\ next.outcome = g.outcome
  BY <1>0 DEF Journeys
<1> HIDE DEF next
<1>7. \A p : PluginList(next, p) = PluginList(g, p) /\ Channel(next, p) = Channel(g, p)
  BY <1>2 DEF PluginList, Channel
<1>3. Equipped(next)
  BY <1>0, <1>2, <1>7, <1>9 DEF Before, Underway, Equipped
<1>4. OnOneWay(next)
  BY <1>0, <1>2, <1>7 DEF Before, Underway, OnOneWay, Way, ByPlugin
<1>5. OneToken(next)
  BY <1>0, <1>2, ConnectAssumption DEF Journeys, Counts, Deposited, Before, Underway, OneToken
<1>6. OnTime(next)
  BY <1>0, <1>2 DEF Before, Underway, OnTime
<1> QED BY <1>1, <1>3, <1>4, <1>5, <1>6 DEF Fits, next

\* A URL to dial.
LEMMA Dialled ==
  ASSUME NEW g, Fits(g),
         g.pc = "dialling", NEW u \in 0..2
  PROVE  Fits([g EXCEPT !.pc = "handing", !.url = u, !.twice = FALSE])
<1> DEFINE next == [g EXCEPT !.pc = "handing", !.url = u, !.twice = FALSE]
<1>0. g \in Journeys /\ Equipped(g) /\ OnOneWay(g) /\ OneToken(g) /\ OnTime(g)
  BY DEF Fits
<1>9. /\ "handing" \in Places
      /\ u \in Urls
  BY <1>0, ConnectAssumption DEF Journeys, Places, Urls, Before, Underway
<1>1. next \in Journeys
  BY <1>0, <1>9, ConnectAssumption DEF Journeys
<1>2. /\ next.pc = "handing" /\ next.wish = g.wish /\ next.pin = g.pin
      /\ next.resumes = g.resumes /\ next.access = g.access /\ next.at = g.at
      /\ next.path = g.path /\ next.plugins = g.plugins /\ next.tried = g.tried
      /\ next.rounds = g.rounds /\ next.n = g.n /\ next.url = u
      /\ next.burnt = g.burnt /\ next.twice = FALSE /\ next.ways = g.ways
      /\ next.token = g.token /\ next.proxied = g.proxied /\ next.deposit = g.deposit
      /\ next.outcome = g.outcome
  BY <1>0 DEF Journeys
<1> HIDE DEF next
<1>7. \A p : PluginList(next, p) = PluginList(g, p) /\ Channel(next, p) = Channel(g, p)
  BY <1>2 DEF PluginList, Channel
<1>3. Equipped(next)
  BY <1>0, <1>2, <1>7, <1>9 DEF Before, Underway, Equipped
<1>4. OnOneWay(next)
  BY <1>0, <1>2, <1>7 DEF Before, Underway, OnOneWay, Way, ByPlugin
<1>5. OneToken(next)
  BY <1>0, <1>2, ConnectAssumption DEF Journeys, Counts, Deposited, Before, Underway, OneToken
<1>6. OnTime(next)
  BY <1>0, <1>2 DEF Before, Underway, OnTime
<1> QED BY <1>1, <1>3, <1>4, <1>5, <1>6 DEF Fits, next

\* Nothing to hand over.
LEMMA HandsNothing ==
  ASSUME NEW g, Fits(g),
         g.pc = "handing",
         ~(IF g.path = "pipeline" THEN Channel(g, g.at) ELSE g.access # "none" /\ Offers[g.at].own),
         ~(g.path # "pipeline" /\ g.access # "none" /\ ~Offers[g.at].own)
  PROVE  Fits([g EXCEPT !.pc = "opening"])
<1> DEFINE next == [g EXCEPT !.pc = "opening"]
<1>0. g \in Journeys /\ Equipped(g) /\ OnOneWay(g) /\ OneToken(g) /\ OnTime(g)
  BY DEF Fits
<1>9. "opening" \in Places
  BY <1>0, ConnectAssumption DEF Journeys, Places, Before, Underway
<1>1. next \in Journeys
  BY <1>0, <1>9, ConnectAssumption DEF Journeys
<1>2. /\ next.pc = "opening" /\ next.wish = g.wish /\ next.pin = g.pin
      /\ next.resumes = g.resumes /\ next.access = g.access /\ next.at = g.at
      /\ next.path = g.path /\ next.plugins = g.plugins /\ next.tried = g.tried
      /\ next.rounds = g.rounds /\ next.n = g.n /\ next.url = g.url
      /\ next.burnt = g.burnt /\ next.twice = g.twice /\ next.ways = g.ways
      /\ next.token = g.token /\ next.proxied = g.proxied /\ next.deposit = g.deposit
      /\ next.outcome = g.outcome
  BY <1>0 DEF Journeys
<1> HIDE DEF next
<1>7. \A p : PluginList(next, p) = PluginList(g, p) /\ Channel(next, p) = Channel(g, p)
  BY <1>2 DEF PluginList, Channel
<1>3. Equipped(next)
  BY <1>0, <1>2, <1>7, <1>9 DEF Before, Underway, Equipped
<1>4. OnOneWay(next)
  BY <1>0, <1>2, <1>7 DEF Before, Underway, OnOneWay, Way, ByPlugin
<1>5. OneToken(next)
  BY <1>0, <1>2, ConnectAssumption DEF Journeys, Counts, Deposited, Before, Underway, OneToken
<1>6. OnTime(next)
  BY <1>0, <1>2 DEF Before, Underway, OnTime
<1> QED BY <1>1, <1>3, <1>4, <1>5, <1>6 DEF Fits, next

\* The profile is dropped off at its provider.
LEMMA HandsOff ==
  ASSUME NEW g, Fits(g),
         g.pc = "handing",
         IF g.path = "pipeline" THEN Channel(g, g.at) ELSE g.access # "none" /\ Offers[g.at].own
  PROVE  Fits([g EXCEPT !.pc = "opening", !.ways = {"channel"}, !.token = g.n, !.deposit = [@ EXCEPT ![g.n] = "dropped"]])
<1> DEFINE next == [g EXCEPT !.pc = "opening", !.ways = {"channel"}, !.token = g.n, !.deposit = [@ EXCEPT ![g.n] = "dropped"]]
<1>0. g \in Journeys /\ Equipped(g) /\ OnOneWay(g) /\ OneToken(g) /\ OnTime(g)
  BY DEF Fits
<1>9. /\ "opening" \in Places
      /\ {"channel"} \in Travels
      /\ g.n \in Counts
      /\ [g.deposit EXCEPT ![g.n] = "dropped"] \in Deposited
      /\ g.n \in 1..MaxTries
  BY <1>0, ConnectAssumption DEF Journeys, Deposited, Places, Travels, Counts, Before, Underway, Counts, Equipped, Underway
<1>8. Offers[g.at].own /\ ~ByPlugin(g) /\ g.access # "none"
  BY <1>0 DEF ByPlugin, Channel
<1>1. next \in Journeys
  BY <1>0, <1>9, ConnectAssumption DEF Journeys
<1>2. /\ next.pc = "opening" /\ next.wish = g.wish /\ next.pin = g.pin
      /\ next.resumes = g.resumes /\ next.access = g.access /\ next.at = g.at
      /\ next.path = g.path /\ next.plugins = g.plugins /\ next.tried = g.tried
      /\ next.rounds = g.rounds /\ next.n = g.n /\ next.url = g.url
      /\ next.burnt = g.burnt /\ next.twice = g.twice /\ next.ways = {"channel"}
      /\ next.token = g.n /\ next.proxied = g.proxied /\ next.deposit = [g.deposit EXCEPT ![g.n] = "dropped"]
      /\ next.outcome = g.outcome
  BY <1>0 DEF Journeys
<1> HIDE DEF next
<1>7. \A p : PluginList(next, p) = PluginList(g, p) /\ Channel(next, p) = Channel(g, p)
  BY <1>2 DEF PluginList, Channel
<1>3. Equipped(next)
  BY <1>0, <1>2, <1>7, <1>9 DEF Before, Underway, Equipped
<1>4. OnOneWay(next)
  BY <1>0, <1>2, <1>7, <1>8 DEF Before, Underway, OnOneWay, Way, ByPlugin
<1>5. OneToken(next)
  BY <1>0, <1>2, ConnectAssumption DEF Journeys, Counts, Deposited, Before, Underway, OneToken
<1>6. OnTime(next)
  BY <1>0, <1>2 DEF Before, Underway, OnTime
<1> QED BY <1>1, <1>3, <1>4, <1>5, <1>6 DEF Fits, next

\* The profile is put into the browser.
LEMMA Injects ==
  ASSUME NEW g, Fits(g),
         g.pc = "handing",
         g.path # "pipeline" /\ g.access # "none" /\ ~Offers[g.at].own
  PROVE  Fits([g EXCEPT !.pc = "opening", !.ways = {"inject"}])
<1> DEFINE next == [g EXCEPT !.pc = "opening", !.ways = {"inject"}]
<1>0. g \in Journeys /\ Equipped(g) /\ OnOneWay(g) /\ OneToken(g) /\ OnTime(g)
  BY DEF Fits
<1>9. /\ "opening" \in Places
      /\ {"inject"} \in Travels
  BY <1>0, ConnectAssumption DEF Journeys, Places, Travels, Before, Underway
<1>1. next \in Journeys
  BY <1>0, <1>9, ConnectAssumption DEF Journeys
<1>2. /\ next.pc = "opening" /\ next.wish = g.wish /\ next.pin = g.pin
      /\ next.resumes = g.resumes /\ next.access = g.access /\ next.at = g.at
      /\ next.path = g.path /\ next.plugins = g.plugins /\ next.tried = g.tried
      /\ next.rounds = g.rounds /\ next.n = g.n /\ next.url = g.url
      /\ next.burnt = g.burnt /\ next.twice = g.twice /\ next.ways = {"inject"}
      /\ next.token = g.token /\ next.proxied = g.proxied /\ next.deposit = g.deposit
      /\ next.outcome = g.outcome
  BY <1>0 DEF Journeys
<1> HIDE DEF next
<1>7. \A p : PluginList(next, p) = PluginList(g, p) /\ Channel(next, p) = Channel(g, p)
  BY <1>2 DEF PluginList, Channel
<1>3. Equipped(next)
  BY <1>0, <1>2, <1>7, <1>9 DEF Before, Underway, Equipped
<1>4. OnOneWay(next)
  BY <1>0, <1>2, <1>7 DEF Before, Underway, OnOneWay, Way, ByPlugin
<1>5. OneToken(next)
  BY <1>0, <1>2, ConnectAssumption DEF Journeys, Counts, Deposited, Before, Underway, OneToken
<1>6. OnTime(next)
  BY <1>0, <1>2 DEF Before, Underway, OnTime
<1> QED BY <1>1, <1>3, <1>4, <1>5, <1>6 DEF Fits, next

\* The provider took the connection.
LEMMA GoesLive ==
  ASSUME NEW g, Fits(g),
         g.pc = "opening",
         NEW ways, ways = IF "profile" \in g.plugins THEN g.ways \cup {"plugin"} ELSE g.ways,
         NEW proxied, proxied = ("proxy" \in g.plugins)
  PROVE  Fits([g EXCEPT !.pc = "live", !.proxied = proxied, !.ways = ways])
<1> DEFINE next == [g EXCEPT !.pc = "live", !.proxied = proxied, !.ways = ways]
<1>0. g \in Journeys /\ Equipped(g) /\ OnOneWay(g) /\ OneToken(g) /\ OnTime(g)
  BY DEF Fits
<1>9. /\ "live" \in Places
      /\ ways \in Travels
      /\ proxied \in BOOLEAN
  BY <1>0, ConnectAssumption DEF Journeys, Places, Travels, Before, Underway
<1>8. IF g.access = "none" THEN "profile" \notin g.plugins ELSE "profile" \in g.plugins <=> ByPlugin(g)
  <2>1. /\ g.path = "resume" => g.plugins = {}
        /\ g.path # "resume" => g.plugins = PluginList(g, g.at) /\ (g.path = "pipe" <=> g.plugins = {})
        /\ g.path \in {"resume", "pipe", "pipeline"}
    BY <1>0 DEF Equipped, Underway
  <2>2. "profile" \in PluginList(g, g.at) <=> g.access # "none" /\ ~Channel(g, g.at)
    BY DEF PluginList
  <2>3. "profile" \in g.plugins <=> g.path = "pipeline" /\ g.access # "none" /\ ~Channel(g, g.at)
    BY <2>1, <2>2
  <2> QED BY <2>3 DEF ByPlugin
<1>1. next \in Journeys
  BY <1>0, <1>9, ConnectAssumption DEF Journeys
<1>2. /\ next.pc = "live" /\ next.wish = g.wish /\ next.pin = g.pin
      /\ next.resumes = g.resumes /\ next.access = g.access /\ next.at = g.at
      /\ next.path = g.path /\ next.plugins = g.plugins /\ next.tried = g.tried
      /\ next.rounds = g.rounds /\ next.n = g.n /\ next.url = g.url
      /\ next.burnt = g.burnt /\ next.twice = g.twice /\ next.ways = ways
      /\ next.token = g.token /\ next.proxied = proxied /\ next.deposit = g.deposit
      /\ next.outcome = g.outcome
  BY <1>0 DEF Journeys
<1> HIDE DEF next
<1>7. \A p : PluginList(next, p) = PluginList(g, p) /\ Channel(next, p) = Channel(g, p)
  BY <1>2 DEF PluginList, Channel
<1>3. Equipped(next)
  BY <1>0, <1>2, <1>7, <1>9 DEF Before, Underway, Equipped
<1>4. OnOneWay(next)
  BY <1>0, <1>2, <1>7, <1>8 DEF Before, Underway, OnOneWay, Way, ByPlugin, Equipped
<1>5. OneToken(next)
  BY <1>0, <1>2, ConnectAssumption DEF Journeys, Counts, Deposited, Before, Underway, OneToken
<1>6. OnTime(next)
  BY <1>0, <1>2 DEF Before, Underway, OnTime
<1> QED BY <1>1, <1>3, <1>4, <1>5, <1>6 DEF Fits, next

\* The provider refused the connection.
LEMMA FindsOut ==
  ASSUME NEW g, Fits(g),
         g.pc = "opening", NEW burnt \in SUBSET (Providers \X {1, 2})
  PROVE  Fits([g EXCEPT !.pc = "routing", !.burnt = burnt])
<1> DEFINE next == [g EXCEPT !.pc = "routing", !.burnt = burnt]
<1>0. g \in Journeys /\ Equipped(g) /\ OnOneWay(g) /\ OneToken(g) /\ OnTime(g)
  BY DEF Fits
<1>9. /\ "routing" \in Places
      /\ burnt \in Found
  BY <1>0, ConnectAssumption DEF Journeys, Found, Places, Before, Underway
<1>1. next \in Journeys
  BY <1>0, <1>9, ConnectAssumption DEF Journeys
<1>2. /\ next.pc = "routing" /\ next.wish = g.wish /\ next.pin = g.pin
      /\ next.resumes = g.resumes /\ next.access = g.access /\ next.at = g.at
      /\ next.path = g.path /\ next.plugins = g.plugins /\ next.tried = g.tried
      /\ next.rounds = g.rounds /\ next.n = g.n /\ next.url = g.url
      /\ next.burnt = burnt /\ next.twice = g.twice /\ next.ways = g.ways
      /\ next.token = g.token /\ next.proxied = g.proxied /\ next.deposit = g.deposit
      /\ next.outcome = g.outcome
  BY <1>0 DEF Journeys
<1> HIDE DEF next
<1>7. \A p : PluginList(next, p) = PluginList(g, p) /\ Channel(next, p) = Channel(g, p)
  BY <1>2 DEF PluginList, Channel
<1>3. Equipped(next)
  BY <1>0, <1>2, <1>7, <1>9 DEF Before, Underway, Equipped
<1>4. OnOneWay(next)
  BY <1>0, <1>2, <1>7 DEF Before, Underway, OnOneWay, Way, ByPlugin
<1>5. OneToken(next)
  BY <1>0, <1>2, ConnectAssumption DEF Journeys, Counts, Deposited, Before, Underway, OneToken
<1>6. OnTime(next)
  BY <1>0, <1>2 DEF Before, Underway, OnTime
<1> QED BY <1>1, <1>3, <1>4, <1>5, <1>6 DEF Fits, next

\* What a connection that leaves may have left at its provider.
LEMMA DepartsTyped ==
  ASSUME NEW g \in Journeys, NEW place \in Places, NEW deposits \in Deposited
  PROVE  [g EXCEPT !.pc = place, !.deposit = deposits] \in Journeys
BY DEF Journeys

\* A client that leaves.
LEMMA Departs ==
  ASSUME NEW g, Fits(g),
         g.pc = "live", NEW killed \in BOOLEAN, NEW place, NEW deposits,
         place = IF g.access # "writes" THEN "over" ELSE IF g.token # 0 THEN "fetching" ELSE "saving",
         deposits = IF ~Deposits(g) THEN g.deposit ELSE [g.deposit EXCEPT ![g.n] = IF killed THEN "lost" ELSE "capturing"]
  PROVE  Fits([g EXCEPT !.pc = place, !.deposit = deposits])
<1> DEFINE next == [g EXCEPT !.pc = place, !.deposit = deposits]
<1>0. g \in Journeys /\ Equipped(g) /\ OnOneWay(g) /\ OneToken(g) /\ OnTime(g)
  BY DEF Fits
<1>8. place \in Places
  BY DEF Places
<1>9. deposits \in Deposited
  <2>1. g.deposit \in Deposited
    BY <1>0 DEF Journeys
  <2> QED BY <2>1 DEF Deposited
<1>1. next \in Journeys
  BY <1>0, <1>8, <1>9, DepartsTyped
<1>2. /\ next.pc = place /\ next.wish = g.wish /\ next.pin = g.pin
      /\ next.resumes = g.resumes /\ next.access = g.access /\ next.at = g.at
      /\ next.path = g.path /\ next.plugins = g.plugins /\ next.tried = g.tried
      /\ next.rounds = g.rounds /\ next.n = g.n /\ next.url = g.url
      /\ next.burnt = g.burnt /\ next.twice = g.twice /\ next.ways = g.ways
      /\ next.token = g.token /\ next.proxied = g.proxied /\ next.deposit = deposits
      /\ next.outcome = g.outcome
  BY <1>0 DEF Journeys
<1> HIDE DEF next
<1>7. \A p : PluginList(next, p) = PluginList(g, p) /\ Channel(next, p) = Channel(g, p)
  BY <1>2 DEF PluginList, Channel
<1>3. Equipped(next)
  BY <1>0, <1>2, <1>7, <1>9 DEF Before, Underway, Equipped
<1>4. OnOneWay(next)
  BY <1>0, <1>2, <1>7 DEF Before, Underway, OnOneWay, Way, ByPlugin
<1>5. OneToken(next)
  BY <1>0, <1>2, ConnectAssumption DEF Journeys, Counts, Deposited, Before, Underway, OneToken, Deposits, Equipped
<1>6. OnTime(next)
  BY <1>0, <1>2 DEF Before, Underway, OnTime
<1> QED BY <1>1, <1>3, <1>4, <1>5, <1>6 DEF Fits, next

\* browserserve has the capture, or never.
LEMMA Captured ==
  ASSUME NEW g, Fits(g),
         g.n # 0, g.deposit[g.n] = "capturing", NEW s \in {IF g.pc = "fetching" THEN "there" ELSE "late", "lost"}
  PROVE  Fits([g EXCEPT !.deposit = [@ EXCEPT ![g.n] = s]])
<1> DEFINE next == [g EXCEPT !.deposit = [@ EXCEPT ![g.n] = s]]
<1>0. g \in Journeys /\ Equipped(g) /\ OnOneWay(g) /\ OneToken(g) /\ OnTime(g)
  BY DEF Fits
<1>9. [g.deposit EXCEPT ![g.n] = s] \in Deposited
  BY <1>0, ConnectAssumption DEF Journeys, Deposited
<1>1. next \in Journeys
  BY <1>0, <1>9, ConnectAssumption DEF Journeys
<1>2. /\ next.pc = g.pc /\ next.wish = g.wish /\ next.pin = g.pin
      /\ next.resumes = g.resumes /\ next.access = g.access /\ next.at = g.at
      /\ next.path = g.path /\ next.plugins = g.plugins /\ next.tried = g.tried
      /\ next.rounds = g.rounds /\ next.n = g.n /\ next.url = g.url
      /\ next.burnt = g.burnt /\ next.twice = g.twice /\ next.ways = g.ways
      /\ next.token = g.token /\ next.proxied = g.proxied /\ next.deposit = [g.deposit EXCEPT ![g.n] = s]
      /\ next.outcome = g.outcome
  BY <1>0 DEF Journeys
<1> HIDE DEF next
<1>7. \A p : PluginList(next, p) = PluginList(g, p) /\ Channel(next, p) = Channel(g, p)
  BY <1>2 DEF PluginList, Channel
<1>3. Equipped(next)
  BY <1>0, <1>2, <1>7, <1>9 DEF Before, Underway, Equipped
<1>4. OnOneWay(next)
  BY <1>0, <1>2, <1>7 DEF Before, Underway, OnOneWay, Way, ByPlugin
<1>5. OneToken(next)
  BY <1>0, <1>2, ConnectAssumption DEF Journeys, Counts, Deposited, Before, Underway, OneToken
<1>6. OnTime(next)
  BY <1>0, <1>2 DEF Before, Underway, OnTime
<1> QED BY <1>1, <1>3, <1>4, <1>5, <1>6 DEF Fits, next

\* The end of the saving.
LEMMA Saved ==
  ASSUME NEW g, Fits(g),
         g.pc \in {"fetching", "saving"}, NEW outcome \in {"saved", "kept", "missed", "failed"},
         outcome = "missed" => g.pc = "fetching" /\ g.deposit[g.token] # "there"
  PROVE  Fits([g EXCEPT !.pc = "over", !.outcome = outcome])
<1> DEFINE next == [g EXCEPT !.pc = "over", !.outcome = outcome]
<1>0. g \in Journeys /\ Equipped(g) /\ OnOneWay(g) /\ OneToken(g) /\ OnTime(g)
  BY DEF Fits
<1>9. "over" \in Places
  BY <1>0, ConnectAssumption DEF Journeys, Places, Before, Underway
<1>1. next \in Journeys
  BY <1>0, <1>9, ConnectAssumption DEF Journeys
<1>2. /\ next.pc = "over" /\ next.wish = g.wish /\ next.pin = g.pin
      /\ next.resumes = g.resumes /\ next.access = g.access /\ next.at = g.at
      /\ next.path = g.path /\ next.plugins = g.plugins /\ next.tried = g.tried
      /\ next.rounds = g.rounds /\ next.n = g.n /\ next.url = g.url
      /\ next.burnt = g.burnt /\ next.twice = g.twice /\ next.ways = g.ways
      /\ next.token = g.token /\ next.proxied = g.proxied /\ next.deposit = g.deposit
      /\ next.outcome = outcome
  BY <1>0 DEF Journeys
<1> HIDE DEF next
<1>7. \A p : PluginList(next, p) = PluginList(g, p) /\ Channel(next, p) = Channel(g, p)
  BY <1>2 DEF PluginList, Channel
<1>3. Equipped(next)
  BY <1>0, <1>2, <1>7, <1>9 DEF Before, Underway, Equipped
<1>4. OnOneWay(next)
  BY <1>0, <1>2, <1>7 DEF Before, Underway, OnOneWay, Way, ByPlugin
<1>5. OneToken(next)
  BY <1>0, <1>2, ConnectAssumption DEF Journeys, Counts, Deposited, Before, Underway, OneToken
<1>6. OnTime(next)
  BY <1>0, <1>2 DEF Before, Underway, OnTime
<1> QED BY <1>1, <1>3, <1>4, <1>5, <1>6 DEF Fits, next

\* What may change around a connection that goes on.
World ==
  /\ defaults' = defaults /\ parked' \in Providers \cup {Nothing}
  /\ era' \in [Providers -> {1, 2}] /\ cached' \in [Providers -> 0..2]
  /\ \A q \in Providers : era[q] <= era'[q] /\ cached'[q] \in {cached[q], 0, era[q]}

\* Nobody else brings the endpoint of an earlier browser back into the cache.
LEMMA CurrentStays ==
  ASSUME ConnectInv, World, NEW g \in Journeys, Current(g, era, cached)
  PROVE  Current(g, era', cached')
<1>1. ASSUME g.at \in Providers PROVE g.url <= era'[g.at]
  <2>1. g.url \in 0..2
    BY DEF Journeys, Urls
  <2> QED BY <1>1, <2>1 DEF ConnectInv, World, Current
<1>2. ASSUME NEW q \in Providers, NEW u \in {1, 2}, <<q, u>> \in g.burnt
      PROVE  u < era'[q] /\ (cached'[q] = u => PluginList(g, q) # {})
  <2>1. u < era[q] /\ (cached[q] = u => PluginList(g, q) # {})
    BY <1>2 DEF Current
  <2>2. era[q] \in {1, 2} /\ era'[q] \in {1, 2} /\ era[q] <= era'[q] /\ cached'[q] \in {cached[q], 0, era[q]}
    BY DEF ConnectInv, World
  <2>3. u < era'[q]
    BY <2>1, <2>2
  <2>4. cached'[q] = u => cached[q] = u
    BY <2>1, <2>2
  <2> QED BY <2>1, <2>3, <2>4
<1> QED BY <1>1, <1>2 DEF Current

\* What is current says nothing of how far a connection is.
LEMMA CurrentAlike ==
  ASSUME NEW g, NEW next, NEW eras, NEW kept, Current(g, eras, kept),
         next.at = g.at, next.url = g.url, next.burnt = g.burnt, next.twice = g.twice,
         next.burnt = {} \/ (next.wish = g.wish /\ next.access = g.access)
  PROVE  Current(next, eras, kept)
<1>1. CASE next.burnt = {}
  BY <1>1 DEF Current
<1>2. CASE next.wish = g.wish /\ next.access = g.access
  <2>1. \A q : PluginList(next, q) = PluginList(g, q)
    BY <1>2 DEF PluginList, Channel
  <2> QED BY <2>1 DEF Current
<1> QED BY <1>1, <1>2

\* A step of one connection leaves the others as they are.
LEMMA Onward ==
  ASSUME ConnectInv, World, NEW c \in Guests, NEW next, Becomes(c, next),
         Fits(next), Current(next, era', cached')
  PROVE  ConnectInv'
<1>1. next \in Journeys
  BY DEF Fits
<1>2. guest' \in [Guests -> Journeys]
  BY <1>1 DEF ConnectInv, Becomes
<1>3. ASSUME NEW d \in Guests PROVE Fits(guest'[d]) /\ Current(guest'[d], era', cached')
  <2>1. CASE d = c
    BY <2>1 DEF ConnectInv, Becomes
  <2>2. CASE d # c
    <3>1. guest'[d] = guest[d] /\ guest[d] \in Journeys
      BY <2>2 DEF ConnectInv, Becomes
    <3>2. Fits(guest[d]) /\ Current(guest[d], era, cached)
      BY DEF ConnectInv
    <3> QED BY <3>1, <3>2, CurrentStays
  <2> QED BY <2>1, <2>2
<1>4. \A q \in Providers : cached'[q] <= era'[q]
  BY DEF ConnectInv, World
<1> QED BY <1>2, <1>3, <1>4 DEF ConnectInv, World

\* A step that leaves the endpoints alone.
LEMMA OnwardAlike ==
  ASSUME ConnectInv, UNCHANGED <<defaults, era, cached>>, parked' \in Providers \cup {Nothing},
         NEW c \in Guests, NEW next, Becomes(c, next), Fits(next),
         next.at = guest[c].at, next.url = guest[c].url, next.burnt = guest[c].burnt, next.twice = guest[c].twice,
         next.burnt = {} \/ (next.wish = guest[c].wish /\ next.access = guest[c].access)
  PROVE  ConnectInv'
<1>1. World
  BY DEF ConnectInv, World
<1>2. Current(next, era, cached)
  BY CurrentAlike DEF ConnectInv
<1>3. Current(next, era', cached')
  BY <1>2
<1> QED BY <1>1, <1>3, Onward

\* The steps of one connection.
ConnectStep(c) ==
  \/ \E r \in Asked : Comes(c, r)
  \/ LoadsShared(c) \/ Acquires(c) \/ Claims(c) \/ Exhausts(c)
  \/ \E q \in Providers : TriesProvider(c, q)
  \/ Dials(c) \/ HandsOver(c) \/ Connects(c)
  \/ \E closes \in BOOLEAN : Leaves(c, closes)
  \/ Captures(c) \/ Fetches(c) \/ SavesItself(c)

\* Every step of a connection keeps its place and what it knows of the endpoints.
LEMMA ConnectStepKeeps ==
  ASSUME ConnectInv, NEW c \in Guests, ConnectStep(c)
  PROVE  ConnectInv'
<1> DEFINE g == guest[c]
<1>a. g \in Journeys /\ Fits(g) /\ Current(g, era, cached)
  BY DEF ConnectInv
<1>b. Equipped(g) /\ OnOneWay(g) /\ OneToken(g) /\ OnTime(g)
  BY <1>a DEF Fits
<1>1. ASSUME NEW r \in Asked, Comes(c, r) PROVE ConnectInv'
  <2>1. r.wish \in Wishes /\ r.pin \in Providers \cup {Nothing} /\ r.resumes \in BOOLEAN
    BY AskedAssumption
  <2>2. PICK place \in {"refused", "claiming", "loading", "locking"} :
          Becomes(c, [g EXCEPT !.wish = Effective(r.wish, defaults), !.pin = r.pin, !.resumes = r.resumes, !.pc = place])
    BY <1>1 DEF Comes
  <2>3. g.pc = "new" /\ g.burnt = {} /\ UNCHANGED <<defaults, locked, author, parked, era, cached>>
    BY <1>1, <1>b DEF Comes, OnTime, Before
  <2> DEFINE next == [g EXCEPT !.wish = Effective(r.wish, defaults), !.pin = r.pin, !.resumes = r.resumes, !.pc = place]
  <2>4. Fits(next)
    <3>1. defaults \in Defaults
      BY DEF ConnectInv
    <3>2. Effective(r.wish, defaults) \in Wished
      BY <2>1, <3>1, EffectiveTyped
    <3>3. ASSUME NEW w \in Wished PROVE Fits([g EXCEPT !.wish = w, !.pin = r.pin, !.resumes = r.resumes, !.pc = place])
      <4>1. g.pc = "new"
        BY <2>3
      <4> HIDE DEF g
      <4> QED BY <1>a, <2>1, <3>3, <4>1, ComesIn
    <3> QED BY <3>2, <3>3
  <2>5. next.at = g.at /\ next.url = g.url /\ next.burnt = g.burnt /\ next.twice = g.twice
    BY <1>a DEF Journeys
  <2>6. Becomes(c, next)
    BY <2>2
  <2> HIDE DEF next
  <2> QED BY <2>3, <2>4, <2>5, <2>6, OnwardAlike DEF ConnectInv
<1>2. ASSUME NEW way \in {"reads", "writes"}, Becomes(c, [g EXCEPT !.pc = "claiming", !.access = way]),
             g.pc \in {"loading", "locking"}, UNCHANGED <<defaults, parked, era, cached>>
      PROVE  ConnectInv'
  <2> DEFINE next == [g EXCEPT !.pc = "claiming", !.access = way]
  <2>1. Fits(next)
    BY <1>a, <1>2, TakesProfile
  <2>2. /\ next.at = g.at /\ next.url = g.url /\ next.burnt = g.burnt /\ next.twice = g.twice
        /\ next.burnt = {}
    BY <1>a, <1>b, <1>2 DEF Journeys, OnTime, Before
  <2>3. Becomes(c, next)
    BY <1>2
  <2> HIDE DEF next
  <2> QED BY <1>2, <2>1, <2>2, <2>3, OnwardAlike DEF ConnectInv
<1>3. ASSUME NEW place \in {"refused", "routing"}, Goes(c, place), g.pc # "over",
             UNCHANGED <<defaults, era, cached>>, parked' \in Providers \cup {Nothing}
      PROVE  ConnectInv'
  <2> DEFINE next == [g EXCEPT !.pc = place]
  <2>1. Fits(next)
    BY <1>a, <1>3, TurnsAway
  <2>2. /\ next.at = g.at /\ next.url = g.url /\ next.burnt = g.burnt /\ next.twice = g.twice
        /\ next.wish = g.wish /\ next.access = g.access
    BY <1>a DEF Journeys
  <2>3. Becomes(c, next)
    BY <1>3 DEF Goes
  <2> HIDE DEF next
  <2> QED BY <1>3, <2>1, <2>2, <2>3, OnwardAlike
<1>4. CASE LoadsShared(c)
  BY <1>2, <1>3, <1>4 DEF LoadsShared, ConnectInv
<1>5. CASE Acquires(c)
  BY <1>2, <1>3, <1>5 DEF Acquires, ConnectInv
<1>6. CASE Claims(c)
  <2>1. CASE Goes(c, "routing")
    BY <1>3, <1>6, <2>1 DEF Claims, ConnectInv
  <2>2. CASE g.resumes /\ parked # Nothing /\ g.n < MaxTries /\ Becomes(c, NextAttempt(c, parked, "resume", {}))
    <3> DEFINE next == [g EXCEPT !.pc = "dialling", !.n = @ + 1, !.at = parked, !.path = "resume", !.plugins = {},
                                 !.tried = @, !.url = 0, !.ways = {}, !.token = 0]
    <3>1. Becomes(c, next) /\ g.pc = "claiming" /\ parked \in Providers
      BY <1>6, <2>2 DEF Claims, NextAttempt, ConnectInv
    <3>2. Fits(next)
      BY <1>a, <2>2, <3>1, Resumes
    <3>3. next.at = parked /\ next.url = 0 /\ next.burnt = {} /\ next.twice = FALSE
      BY <1>a, <1>b, <3>1 DEF Journeys, OnTime, Before, Current
    <3>4. World
      BY <1>6, ConnectAssumption DEF Claims, ConnectInv, World
    <3> HIDE DEF next
    <3>5. Current(next, era', cached')
      BY <3>3, <3>4 DEF Current, World
    <3> QED BY <3>1, <3>2, <3>4, <3>5, Onward
  <2> QED BY <1>6, <2>1, <2>2 DEF Claims
<1>7. ASSUME NEW tried \in SUBSET Providers, NEW rounds \in {0, 1}, g.pc = "routing",
             Becomes(c, [g EXCEPT !.rounds = rounds, !.tried = tried]), UNCHANGED <<defaults, parked, era, cached>>
      PROVE  ConnectInv'
  <2> DEFINE next == [g EXCEPT !.rounds = rounds, !.tried = tried]
  <2>1. Fits(next)
    BY <1>a, <1>7, PassesOver
  <2>2. /\ next.at = g.at /\ next.url = g.url /\ next.burnt = g.burnt /\ next.twice = g.twice
        /\ next.wish = g.wish /\ next.access = g.access
    BY <1>a DEF Journeys
  <2>3. Becomes(c, next)
    BY <1>7
  <2> HIDE DEF next
  <2> QED BY <1>7, <2>1, <2>2, <2>3, OnwardAlike DEF ConnectInv
<1>8. CASE Exhausts(c)
  <2>1. CASE Becomes(c, [g EXCEPT !.rounds = 1, !.tried = {}])
    BY <1>7, <1>8, <2>1 DEF Exhausts
  <2>2. CASE Goes(c, "refused")
    BY <1>3, <1>8, <2>2 DEF Exhausts, ConnectInv
  <2> QED BY <1>8, <2>1, <2>2 DEF Exhausts
<1>9. ASSUME NEW q \in Providers, TriesProvider(c, q) PROVE ConnectInv'
  <2>1. CASE Becomes(c, [g EXCEPT !.tried = @ \cup {q}])
    <3>1. [g EXCEPT !.tried = @ \cup {q}] = [g EXCEPT !.rounds = g.rounds, !.tried = g.tried \cup {q}]
      BY <1>a DEF Journeys
    <3>2. g.tried \cup {q} \in SUBSET Providers /\ g.rounds \in {0, 1}
      BY <1>a DEF Journeys
    <3> QED BY <1>7, <1>9, <2>1, <3>1, <3>2 DEF TriesProvider
  <2>2. CASE Becomes(c, NextAttempt(c, q, IF PluginList(g, q) = {} THEN "pipe" ELSE "pipeline", PluginList(g, q)))
    <3> DEFINE path == IF PluginList(g, q) = {} THEN "pipe" ELSE "pipeline"
               next == [g EXCEPT !.pc = "dialling", !.n = @ + 1, !.at = q,
                                 !.path = IF PluginList(g, q) = {} THEN "pipe" ELSE "pipeline",
                                 !.plugins = PluginList(g, q), !.tried = @ \cup {q}, !.url = 0, !.ways = {}, !.token = 0]
    <3>1. Becomes(c, next) /\ g.pc = "routing" /\ g.n < MaxTries
      BY <1>9, <2>2 DEF TriesProvider, NextAttempt
    <3>2. Fits(next)
      BY <1>a, <3>1, Attempted
    <3>3. /\ next.at = q /\ next.url = 0 /\ next.burnt = g.burnt /\ next.twice = g.twice
          /\ next.wish = g.wish /\ next.access = g.access
      BY <1>a DEF Journeys
    <3>4. World
      BY <1>9 DEF TriesProvider, ConnectInv, World
    <3> HIDE DEF next
    <3>5. \A p : PluginList(next, p) = PluginList(g, p)
      BY <3>3 DEF PluginList, Channel
    <3>6. Current(next, era, cached)
      BY <1>a, <3>3, <3>5 DEF Current, ConnectInv
    <3>7. next \in Journeys
      BY <3>2 DEF Fits
    <3> QED BY <3>1, <3>2, <3>4, <3>6, <3>7, CurrentStays, Onward
  <2> QED BY <1>9, <2>1, <2>2 DEF TriesProvider
<1>10. CASE Dials(c)
  <2>1. PICK u \in 0..2 :
          /\ Becomes(c, [g EXCEPT !.pc = "handing", !.url = u, !.twice = <<g.at, u>> \in g.burnt])
          /\ cached' = IF Offers[g.at].http /\ g.path # "pipeline" THEN [cached EXCEPT ![g.at] = u] ELSE cached
          /\ u \in {era[g.at], 0} \/ (g.path # "pipeline" /\ cached[g.at] # 0 /\ u = cached[g.at])
    <3>1. g.at \in Providers
      BY <1>b, <1>10 DEF Dials, Equipped, Underway
    <3>2. era[g.at] \in 0..2 /\ cached[g.at] \in 0..2
      BY <3>1 DEF ConnectInv
    <3>3. PICK u \in IF ~Offers[g.at].http THEN {era[g.at]}
                     ELSE IF g.path # "pipeline" /\ cached[g.at] # 0 THEN {cached[g.at]} ELSE {0, era[g.at]} :
            /\ Becomes(c, [g EXCEPT !.pc = "handing", !.url = u, !.twice = <<g.at, u>> \in g.burnt])
            /\ cached' = IF Offers[g.at].http /\ g.path # "pipeline" THEN [cached EXCEPT ![g.at] = u] ELSE cached
      BY <1>10 DEF Dials
    <3>4. u \in 0..2 /\ (u \in {era[g.at], 0} \/ (g.path # "pipeline" /\ cached[g.at] # 0 /\ u = cached[g.at]))
      BY <3>2, <3>3
    <3> QED BY <3>3, <3>4
  <2>2. g.pc = "dialling" /\ g.at \in Providers /\ UNCHANGED <<defaults, parked, era>>
    BY <1>b, <1>10 DEF Dials, Equipped, Underway
  <2>3. <<g.at, u>> \notin g.burnt
    <3>1. SUFFICES ASSUME <<g.at, u>> \in g.burnt PROVE FALSE
      OBVIOUS
    <3>2. u \in {1, 2}
      BY <1>a, <3>1 DEF Journeys, Found
    <3>3. u < era[g.at] /\ (cached[g.at] = u => PluginList(g, g.at) # {})
      BY <1>a, <2>2, <3>1, <3>2 DEF Current
    <3>4. g.path # "pipeline" /\ PluginList(g, g.at) # {}
      BY <2>1, <2>2, <3>2, <3>3 DEF ConnectInv
    <3>5. g.path = "resume"
      BY <1>b, <2>2, <3>4 DEF Equipped, Underway
    <3> QED BY <1>b, <2>2, <3>1, <3>5 DEF OnTime, Underway
  <2> DEFINE next == [g EXCEPT !.pc = "handing", !.url = u, !.twice = FALSE]
  <2>4. Becomes(c, next)
    <3>1. (<<g.at, u>> \in g.burnt) = FALSE
      BY <2>3
    <3> QED BY <2>1, <3>1
  <2>5. Fits(next)
    BY <1>a, <2>2, Dialled
  <2>6. /\ next.at = g.at /\ next.url = u /\ next.burnt = g.burnt /\ next.twice = FALSE
        /\ next.wish = g.wish /\ next.access = g.access
    BY <1>a DEF Journeys
  <2>7. World
    BY <2>1, <2>2 DEF ConnectInv, World
  <2>8. u <= era[g.at]
    BY <2>1, <2>2 DEF ConnectInv
  <2> HIDE DEF next
  <2>9. \A p : PluginList(next, p) = PluginList(g, p)
    BY <2>6 DEF PluginList, Channel
  <2>10. Current(next, era, cached)
    BY <1>a, <2>6, <2>8, <2>9 DEF Current
  <2>11. next \in Journeys
    BY <2>5 DEF Fits
  <2> QED BY <2>4, <2>5, <2>7, <2>10, <2>11, CurrentStays, Onward
<1>11. CASE HandsOver(c)
  <2> DEFINE channel == IF g.path = "pipeline" THEN Channel(g, g.at) ELSE g.access # "none" /\ Offers[g.at].own
             inject == g.path # "pipeline" /\ g.access # "none" /\ ~Offers[g.at].own
  <2>0. g.pc = "handing" /\ UNCHANGED <<defaults, parked, era, cached>>
    BY <1>11 DEF HandsOver
  <2>1. ASSUME NEW next, Becomes(c, next), Fits(next),
               /\ next.at = g.at /\ next.url = g.url /\ next.burnt = g.burnt /\ next.twice = g.twice
               /\ next.wish = g.wish /\ next.access = g.access
        PROVE  ConnectInv'
    BY <2>0, <2>1, OnwardAlike DEF ConnectInv
  <2>2. CASE channel /\ Becomes(c, [g EXCEPT !.pc = "opening", !.ways = {"channel"}, !.token = TokenOf(g),
                                             !.deposit = [@ EXCEPT ![g.n] = "dropped"]])
    <3> DEFINE next == [g EXCEPT !.pc = "opening", !.ways = {"channel"}, !.token = g.n,
                                 !.deposit = [@ EXCEPT ![g.n] = "dropped"]]
    <3>1. Fits(next)
      BY <1>a, <2>0, <2>2, HandsOff
    <3>2. /\ next.at = g.at /\ next.url = g.url /\ next.burnt = g.burnt /\ next.twice = g.twice
          /\ next.wish = g.wish /\ next.access = g.access
      BY <1>a DEF Journeys
    <3>3. Becomes(c, next)
      BY <2>2 DEF TokenOf
    <3> HIDE DEF next
    <3> QED BY <2>1, <3>1, <3>2, <3>3
  <2>3. CASE inject /\ Becomes(c, [g EXCEPT !.pc = "opening", !.ways = {"inject"}])
    <3> DEFINE next == [g EXCEPT !.pc = "opening", !.ways = {"inject"}]
    <3>1. Fits(next)
      BY <1>a, <2>0, <2>3, Injects
    <3>2. /\ next.at = g.at /\ next.url = g.url /\ next.burnt = g.burnt /\ next.twice = g.twice
          /\ next.wish = g.wish /\ next.access = g.access
      BY <1>a DEF Journeys
    <3>3. Becomes(c, next)
      BY <2>3
    <3> HIDE DEF next
    <3> QED BY <2>1, <3>1, <3>2, <3>3
  <2>4. CASE TryFails(c)
    BY <1>3, <2>0, <2>4 DEF TryFails, ConnectInv
  <2>5. CASE ~channel /\ ~inject /\ Goes(c, "opening")
    <3> DEFINE next == [g EXCEPT !.pc = "opening"]
    <3>1. Fits(next)
      BY <1>a, <2>0, <2>5, HandsNothing
    <3>2. /\ next.at = g.at /\ next.url = g.url /\ next.burnt = g.burnt /\ next.twice = g.twice
          /\ next.wish = g.wish /\ next.access = g.access
      BY <1>a DEF Journeys
    <3>3. Becomes(c, next)
      BY <2>5 DEF Goes
    <3> HIDE DEF next
    <3> QED BY <2>1, <3>1, <3>2, <3>3
  <2> QED BY <1>11, <2>2, <2>3, <2>4, <2>5 DEF HandsOver
<1>12. CASE Connects(c)
  <2>0. g.pc = "opening" /\ g.at \in Providers /\ UNCHANGED <<defaults, parked, era>>
    BY <1>b, <1>12 DEF Connects, Equipped, Underway
  <2>1. CASE /\ Becomes(c, [g EXCEPT !.pc = "live", !.proxied = "proxy" \in g.plugins,
                                     !.ways = IF "profile" \in g.plugins THEN @ \cup {"plugin"} ELSE @])
             /\ UNCHANGED cached
    <3> DEFINE next == [g EXCEPT !.pc = "live", !.proxied = "proxy" \in g.plugins,
                                 !.ways = IF "profile" \in g.plugins THEN @ \cup {"plugin"} ELSE @]
    <3>1. Fits(next)
      BY <1>a, <2>0, GoesLive
    <3>2. /\ next.at = g.at /\ next.url = g.url /\ next.burnt = g.burnt /\ next.twice = g.twice
          /\ next.wish = g.wish /\ next.access = g.access
      BY <1>a DEF Journeys
    <3>3. Becomes(c, next)
      BY <2>1
    <3> HIDE DEF next
    <3> QED BY <2>0, <2>1, <3>1, <3>2, <3>3, OnwardAlike DEF ConnectInv
  <2>2. CASE TryFails(c) /\ UNCHANGED cached
    BY <1>3, <2>0, <2>2 DEF TryFails, ConnectInv
  <2>3. CASE /\ Becomes(c, [g EXCEPT !.pc = "routing",
                                     !.burnt = IF g.url # era[g.at] /\ g.url # 0 THEN @ \cup {<<g.at, g.url>>} ELSE @])
             /\ cached' = DropsUrl(c)
    <3> DEFINE burnt == IF g.url # era[g.at] /\ g.url # 0 THEN g.burnt \cup {<<g.at, g.url>>} ELSE g.burnt
               next == [g EXCEPT !.pc = "routing", !.burnt = burnt]
    <3>1. burnt \in SUBSET (Providers \X {1, 2})
      <4>1. g.burnt \in SUBSET (Providers \X {1, 2}) /\ g.url \in 0..2
        BY <1>a DEF Journeys, Found, Urls
      <4> QED BY <2>0, <4>1
    <3>2. Becomes(c, next)
      BY <2>3
    <3> HIDE DEF burnt
    <3>3. Fits(next)
      BY <1>a, <2>0, <3>1, FindsOut
    <3>4. /\ next.at = g.at /\ next.url = g.url /\ next.burnt = burnt /\ next.twice = g.twice
          /\ next.wish = g.wish /\ next.access = g.access
      BY <1>a DEF Journeys
    <3>5. World
      BY <2>0, <2>3 DEF DropsUrl, ConnectInv, World
    <3>6. Current(g, era', cached') /\ era' = era
      BY <1>a, <2>0, <3>5, CurrentStays
    <3> HIDE DEF next
    <3>7. \A p : PluginList(next, p) = PluginList(g, p)
      BY <3>4 DEF PluginList, Channel
    <3>8. ASSUME g.url # era[g.at], g.url # 0
          PROVE  g.url < era[g.at] /\ (cached'[g.at] = g.url => PluginList(g, g.at) # {})
      <4>1. g.url <= era[g.at] /\ g.url \in 0..2 /\ era[g.at] \in {1, 2}
        BY <1>a, <2>0 DEF Current, Journeys, Urls, ConnectInv
      <4>2. CASE g.path = "pipeline"
        BY <1>b, <2>0, <3>8, <4>1, <4>2 DEF Equipped, Underway
      <4>3. CASE g.path # "pipeline"
        BY <2>0, <2>3, <3>8, <4>1, <4>3 DEF DropsUrl, ConnectInv
      <4> QED BY <4>2, <4>3
    <3>9. Current(next, era', cached')
      <4>1. ASSUME NEW q \in Providers, NEW u \in {1, 2}, <<q, u>> \in burnt
            PROVE  u < era'[q] /\ (cached'[q] = u => PluginList(g, q) # {})
        BY <2>0, <3>6, <3>8, <4>1 DEF burnt, Current
      <4> QED BY <3>4, <3>6, <3>7, <4>1 DEF Current
    <3> QED BY <3>2, <3>3, <3>5, <3>9, Onward
  <2> QED BY <1>12, <2>1, <2>2, <2>3 DEF Connects
<1>13. ASSUME NEW closes \in BOOLEAN, Leaves(c, closes) PROVE ConnectInv'
  <2> DEFINE killed == closes /\ "closing" \notin g.plugins
             next == [g EXCEPT !.pc = IF g.access # "writes" THEN "over" ELSE IF g.token # 0 THEN "fetching" ELSE "saving",
                               !.deposit = IF ~Deposits(g) THEN @ ELSE [@ EXCEPT ![g.n] = IF killed THEN "lost" ELSE "capturing"]]
  <2>0. g.pc = "live" /\ g.at \in Providers /\ UNCHANGED <<defaults, era, cached>> /\ parked' \in {g.at, parked}
    BY <1>b, <1>13 DEF Leaves, Equipped, Underway
  <2>1. killed \in BOOLEAN
    OBVIOUS
  <2>2. Becomes(c, next)
    BY <1>13 DEF Leaves
  <2> HIDE DEF killed
  <2>3. Fits(next)
    BY <1>a, <2>0, <2>1, Departs
  <2>4. /\ next.at = g.at /\ next.url = g.url /\ next.burnt = g.burnt /\ next.twice = g.twice
        /\ next.wish = g.wish /\ next.access = g.access
    BY <1>a DEF Journeys
  <2> HIDE DEF next
  <2> QED BY <2>0, <2>2, <2>3, <2>4, OnwardAlike DEF ConnectInv
<1>14. CASE Captures(c)
  <2>0. g.n # 0 /\ g.deposit[g.n] = "capturing" /\ UNCHANGED <<defaults, parked, era, cached>>
    BY <1>14 DEF Captures
  <2>1. PICK s \in {IF g.pc = "fetching" THEN "there" ELSE "late", "lost"} :
          Becomes(c, [g EXCEPT !.deposit = [@ EXCEPT ![g.n] = s]])
    BY <1>14 DEF Captures
  <2> DEFINE next == [g EXCEPT !.deposit = [@ EXCEPT ![g.n] = s]]
  <2>2. Fits(next)
    BY <1>a, <2>0, Captured
  <2>3. /\ next.at = g.at /\ next.url = g.url /\ next.burnt = g.burnt /\ next.twice = g.twice
        /\ next.wish = g.wish /\ next.access = g.access
    BY <1>a DEF Journeys
  <2>4. Becomes(c, next)
    BY <2>1
  <2> HIDE DEF next
  <2> QED BY <2>0, <2>2, <2>3, <2>4, OnwardAlike DEF ConnectInv
<1>15. ASSUME NEW outcome \in {"saved", "kept", "missed", "failed"}, Ends(c, outcome), g.pc \in {"fetching", "saving"},
              outcome = "missed" => g.pc = "fetching" /\ g.deposit[g.token] # "there"
       PROVE  ConnectInv'
  <2> DEFINE next == [g EXCEPT !.pc = "over", !.outcome = outcome]
  <2>1. Fits(next)
    BY <1>a, <1>15, Saved
  <2>2. /\ next.at = g.at /\ next.url = g.url /\ next.burnt = g.burnt /\ next.twice = g.twice
        /\ next.wish = g.wish /\ next.access = g.access
    BY <1>a DEF Journeys
  <2>3. Becomes(c, next) /\ UNCHANGED <<defaults, parked, era, cached>>
    BY <1>15 DEF Ends
  <2> HIDE DEF next
  <2> QED BY <2>1, <2>2, <2>3, OnwardAlike DEF ConnectInv
<1>16. CASE Fetches(c)
  BY <1>15, <1>16 DEF Fetches
<1>17. CASE SavesItself(c)
  BY <1>15, <1>17 DEF SavesItself
<1> QED BY <1>1, <1>4, <1>5, <1>6, <1>8, <1>9, <1>10, <1>11, <1>12, <1>13, <1>14, <1>16, <1>17 DEF ConnectStep

\* The inductive invariant of the way in.
LEMMA ConnectStepInv == ConnectInv /\ [ConnectNext]_connectVars => ConnectInv'
<1>1. ASSUME ConnectInv, NEW c \in Guests, ConnectStep(c) PROVE ConnectInv'
  BY <1>1, ConnectStepKeeps
<1>2. ASSUME ConnectInv, UNCHANGED guest, World PROVE ConnectInv'
  <2>1. ASSUME NEW d \in Guests PROVE Fits(guest'[d]) /\ Current(guest'[d], era', cached')
    BY <1>2, CurrentStays DEF ConnectInv
  <2> QED BY <1>2, <2>1 DEF ConnectInv, World
<1>3. ASSUME ConnectInv, NEW q \in Providers, Forgets(q) \/ Restarts(q) PROVE ConnectInv'
  <2>1. World
    BY <1>3 DEF Forgets, Restarts, ConnectInv, World
  <2> QED BY <1>2, <1>3, <2>1 DEF Forgets, Restarts
<1>4. CASE ConnectInv /\ UNCHANGED connectVars
  BY <1>4 DEF ConnectInv, connectVars
<1> QED BY <1>1, <1>3, <1>4 DEF ConnectNext, ConnectStep

\* What a connection is equipped with at each point of its way says the rest.
LEMMA ConnectImplies == ConnectInv => ConnectSound
<1> SUFFICES ASSUME ConnectInv PROVE ConnectSound
  OBVIOUS
<1>1. ASSUME NEW c \in Guests
      PROVE  /\ guest[c] \in Journeys /\ Equipped(guest[c]) /\ OnOneWay(guest[c]) /\ OneToken(guest[c])
             /\ ~guest[c].twice
  BY DEF ConnectInv, Fits, Current
<1>2. LoadedWhereUsed
  <2> SUFFICES ASSUME NEW c \in Guests, guest[c].pc = "live"
               PROVE  /\ Cardinality(guest[c].ways) = IF guest[c].access = "none" THEN 0 ELSE 1
                      /\ guest[c].proxied => guest[c].ways \subseteq {"plugin"}
    BY DEF LoadedWhereUsed
  <2> DEFINE g == guest[c]
  <2>1. g.access = "none" => g.ways = {}
    BY <1>1 DEF OnOneWay
  <2>2. g.access # "none" => \E way : g.ways = {way}
    BY <1>1 DEF OnOneWay
  <2>3. Cardinality(g.ways) = IF g.access = "none" THEN 0 ELSE 1
    BY <2>1, <2>2, FS_EmptySet, FS_Singleton
  <2>4. ASSUME g.proxied PROVE g.ways \subseteq {"plugin"}
    <3>1. "proxy" \in g.plugins /\ g.plugins = PluginList(g, g.at) /\ g.path = "pipeline"
      BY <1>1, <2>4 DEF OnOneWay, Equipped, Journeys, Paths
    <3>2. ByPlugin(g)
      BY <3>1 DEF PluginList, ByPlugin, Channel
    <3> QED BY <1>1, <3>2 DEF OnOneWay
  <2> QED BY <2>3, <2>4
<1>3. CapturesAreFetched
  BY <1>1 DEF CapturesAreFetched, OneToken
<1>4. ClosingStillSaves
  <2> SUFFICES ASSUME NEW c \in Guests, guest[c].pc = "live", guest[c].access = "writes",
                      "channel" \in guest[c].ways, guest[c].path # "resume"
               PROVE  "closing" \in guest[c].plugins
    BY DEF ClosingStillSaves
  <2> DEFINE g == guest[c]
  <2>1. g.plugins = PluginList(g, g.at) /\ (g.path = "pipe" <=> g.plugins = {}) /\ g.path \in {"pipe", "pipeline"}
    BY <1>1 DEF Equipped
  <2>2. ~ByPlugin(g)
    <3>1. OnOneWay(g) /\ g.pc = "live" /\ g.access # "none" /\ "channel" \in g.ways
      BY <1>1
    <3>2. "channel" \notin {"plugin"}
      OBVIOUS
    <3> QED BY <3>1, <3>2 DEF OnOneWay
  <2>3. CASE Channel(g, g.at)
    BY <2>1, <2>3 DEF PluginList
  <2>4. CASE ~Channel(g, g.at)
    <3>1. "profile" \in g.plugins
      BY <2>1, <2>4 DEF PluginList
    <3> QED BY <2>1, <2>2, <2>4, <3>1 DEF ByPlugin
  <2> QED BY <2>3, <2>4
<1>5. NotRefusedTwice
  BY <1>1 DEF NotRefusedTwice
<1> QED BY <1>2, <1>3, <1>4, <1>5, TokenStays, MeantWrites DEF ConnectSound

\* For any connections, providers and proxies, whichever browsers are replaced and attempts
\* fail: a connection that is live has its profile at one place, inside the proxied browser
\* when there is one; a save is missed only where the provider had no capture; a client that
\* closes its browser is still saved; an endpoint that was found out is not dialled again
\* (upgrade.ts); and no token goes further and no profile is written against the request.
THEOREM ConnectStaysSound == ConnectSpec => []ConnectSound
<1> QED BY ConnectInitInv, ConnectStepInv, ConnectImplies, PTL DEF ConnectSpec

----------------------------------------------------------------------------
(* The parts together *)

\* The invariants of the parts.
ServedInv == ConnectInv /\ PipelineInv /\ RestInv /\ LifeInv

\* One part takes a step, and the others stay as they are.
LEMMA ServedStep == ServedInv /\ [ServingNext]_servingVars => ServedInv'
<1> SUFFICES ASSUME ServedInv, [ServingNext]_servingVars PROVE ServedInv'
  OBVIOUS
<1>1. [PipelineNext]_pipelineVars
  BY DEF ServingNext, Only, servingVars
<1>2. [RestNext]_restVars
  BY DEF ServingNext, Only, servingVars
<1>3. [ServerNext]_serverVars
  BY DEF ServingNext, Only, servingVars
<1>4. [ConnectNext]_connectVars
  BY DEF ServingNext, Only, servingVars
<1>5. PipelineInv'
  BY <1>1, PipelineStepInv DEF ServedInv
<1>6. RestInv'
  BY <1>2, RestStepInv DEF ServedInv
<1>7. LifeInv'
  BY <1>3, LifeStep DEF ServedInv
<1>8. ConnectInv'
  BY <1>4, ConnectStepInv DEF ServedInv
<1> QED BY <1>5, <1>6, <1>7, <1>8 DEF ServedInv

\* What serves a connection is sound, part by part: what the run of MCServing checks of one
\* connection, two requests and two signals holds of any number of connections, providers,
\* requests, backends and sessions.
THEOREM ServedStaysSound == ServingSpec => []ServedSound
<1>1. ServingInit => ServedInv
  BY PipelineInvInit, RestInitInv, LifeInit, ConnectInitInv DEF ServingInit, ServedInv
<1>2. ServedInv => ServedSound
  BY PipelineInvImplies, RestImplies, LifeImplies, ConnectImplies DEF ServedInv, ServedSound
<1> QED BY <1>1, <1>2, ServedStep, PTL DEF ServingSpec
==============================================================================
