------------------------------ MODULE AgentProofs ------------------------------
(***************************************************************************)
(* Theorems about what drives a browser for somebody.  McpSessions, for    *)
(* any tool calls, providers and limits: a slot is held by a session that  *)
(* is there and by nothing else.  AgentSession, for any calls and targets: *)
(* the tabs it lists are true to the browser.  PageRunner, for any runs    *)
(* that share a client: those that end leave nothing on it, and none acts  *)
(* for a caller that has left.  ComputerUse, for any number of turns and   *)
(* calls: each call has its answer, and nothing the model may not see is   *)
(* shown to it.  The notes of AgentActs, for any requests and limits: what *)
(* is read of them is true.  PageRefs, for any elements, calls and refs:   *)
(* what a ref means.  HeldInput, for any buttons, keys and calls: what a   *)
(* tab takes to be down is what InputState says.                           *)
(***************************************************************************)
EXTENDS MCAgents, PageRefs, HeldInput, TLAPS, SequenceTheorems, FiniteSetTheorems, WellFoundedInduction

----------------------------------------------------------------------------
(* The sessions of the MCP server *)

\* A call that has not connected.
Unconnected == {"new", "reaping", "preparing", "choosing", "trying", "dialing", "waiting", "woken"}

\* A session is listed once, is not listed while it is released, and has the provider
\* of the slot it holds; a call has one only once it has connected.
SessionsPlaced ==
  /\ \A i, j \in DOMAIN sessions : sessions[i] = sessions[j] => i = j
  /\ Kept \cap giving = {}
  /\ \A c \in McpCalls : onRoute[c] # NoRoute <=> (call[c] = "dialing" \/ c \in Kept \cup giving)
  /\ \A c \in McpCalls : call[c] \in Unconnected => c \notin Kept \cup giving

\* A one-shot that has begun to release its session, or has nothing to release,
\* has none listed.
ShotsReleased ==
  \A c \in McpCalls : (tool[c] = "shot" /\ call[c] \in {"releasing", "answered"}) => c \notin Kept

McpInv == McpTypeOK /\ SessionsPlaced /\ SeatsAccounted /\ ShotsReleased

\* The calls that are as far as they were, or have moved on without a connection.
CallsGoOn ==
  \A c \in McpCalls :
    \/ call'[c] = call[c]
    \/ call[c] \in Unconnected \ {"dialing"} /\ call'[c] \in (Unconnected \ {"dialing"}) \cup {"answered"}
    \/ call[c] = "releasing" /\ call'[c] = "answered"

\* One element is taken out of a sequence, and one that was there once is gone ...
LEMMA RemovesOne ==
  ASSUME NEW S, NEW s \in Seq(S), NEW k \in DOMAIN s
  PROVE  /\ RemoveAt(s, k) \in Seq(S)
         /\ Range(RemoveAt(s, k)) \subseteq Range(s) /\ Range(s) \ {s[k]} \subseteq Range(RemoveAt(s, k))
         /\ (\A i, j \in DOMAIN s : s[i] = s[j] => i = j) =>
              /\ Range(RemoveAt(s, k)) = Range(s) \ {s[k]}
              /\ \A i, j \in DOMAIN RemoveAt(s, k) : RemoveAt(s, k)[i] = RemoveAt(s, k)[j] => i = j
<1> DEFINE n == Len(s)
           t == RemoveAt(s, k)
           from(i) == IF i < k THEN i ELSE i + 1
<1>1. /\ n \in Nat /\ DOMAIN s = 1..n /\ k \in 1..n /\ \A i \in 1..n : s[i] \in S
  BY LenProperties, ElementOfSeq
<1> HIDE DEF n
<1>2. /\ SubSeq(s, 1, k - 1) \in Seq(S) /\ Len(SubSeq(s, 1, k - 1)) = k - 1
      /\ \A i \in 1..(k - 1) : SubSeq(s, 1, k - 1)[i] = s[i]
  <2>1. 1 \in Int /\ k - 1 \in Int /\ \A i \in 1..(k - 1) : s[i] \in S
    BY <1>1
  <2>2. /\ SubSeq(s, 1, k - 1) \in Seq(S)
        /\ Len(SubSeq(s, 1, k - 1)) = IF 1 <= k - 1 THEN (k - 1) - 1 + 1 ELSE 0
        /\ \A i \in 1..((k - 1) - 1 + 1) : SubSeq(s, 1, k - 1)[i] = s[1 + i - 1]
    BY <2>1, SubSeqProperties
  <2> QED BY <1>1, <2>2
<1>3. /\ SubSeq(s, k + 1, n) \in Seq(S) /\ Len(SubSeq(s, k + 1, n)) = n - k
      /\ \A i \in 1..(n - k) : SubSeq(s, k + 1, n)[i] = s[k + i]
  <2>1. k + 1 \in Int /\ n \in Int /\ \A i \in (k + 1)..n : s[i] \in S
    BY <1>1
  <2>2. /\ SubSeq(s, k + 1, n) \in Seq(S)
        /\ Len(SubSeq(s, k + 1, n)) = IF k + 1 <= n THEN n - (k + 1) + 1 ELSE 0
        /\ \A i \in 1..(n - (k + 1) + 1) : SubSeq(s, k + 1, n)[i] = s[(k + 1) + i - 1]
    BY <2>1, SubSeqProperties
  <2> QED BY <1>1, <2>2
<1>4. /\ t \in Seq(S) /\ Len(t) = n - 1
      /\ \A i \in 1..(n - 1) : t[i] = s[from(i)]
  <2>1. t = SubSeq(s, 1, k - 1) \o SubSeq(s, k + 1, n)
    BY DEF RemoveAt, n
  <2>2. /\ t \in Seq(S) /\ Len(t) = (k - 1) + (n - k)
        /\ \A i \in 1..((k - 1) + (n - k)) :
             t[i] = IF i <= k - 1 THEN SubSeq(s, 1, k - 1)[i] ELSE SubSeq(s, k + 1, n)[i - (k - 1)]
    <3> DEFINE u == SubSeq(s, 1, k - 1)
               v == SubSeq(s, k + 1, n)
    <3>1. u \in Seq(S) /\ v \in Seq(S) /\ t = u \o v /\ Len(u) = k - 1 /\ Len(v) = n - k
      BY <1>2, <1>3, <2>1
    <3> HIDE DEF u, v, t
    <3>2. /\ u \o v \in Seq(S) /\ Len(u \o v) = Len(u) + Len(v)
          /\ \A i \in 1..(Len(u) + Len(v)) : (u \o v)[i] = IF i <= Len(u) THEN u[i] ELSE v[i - Len(u)]
      BY <3>1, ConcatProperties
    <3>3. /\ t \in Seq(S) /\ Len(t) = (k - 1) + (n - k)
          /\ \A i \in 1..((k - 1) + (n - k)) : t[i] = IF i <= k - 1 THEN u[i] ELSE v[i - (k - 1)]
      BY <3>1, <3>2
    <3> QED BY <3>3 DEF u, v
  <2>3. ASSUME NEW i \in 1..(n - 1) PROVE t[i] = s[from(i)]
    <3>1. CASE i < k
      BY <1>1, <1>2, <2>2, <3>1
    <3>2. CASE i >= k
      <4>1. i - (k - 1) \in 1..(n - k) /\ k + (i - (k - 1)) = i + 1
        BY <1>1, <3>2
      <4>2. SubSeq(s, k + 1, n)[i - (k - 1)] = s[i + 1]
        BY <1>3, <4>1
      <4> QED BY <1>1, <2>2, <3>2, <4>2
    <3> QED BY <1>1, <3>1, <3>2
  <2> QED BY <1>1, <2>2, <2>3
<1>5. DOMAIN t = 1..(n - 1)
  BY <1>4, LenProperties
<1> HIDE DEF t
<1> DEFINE Unrepeated == \A i, j \in DOMAIN s : s[i] = s[j] => i = j
<1>6. /\ Range(t) \subseteq Range(s) /\ Range(s) \ {s[k]} \subseteq Range(t)
      /\ Unrepeated => Range(t) = Range(s) \ {s[k]}
  <2>1. ASSUME NEW i \in 1..(n - 1) PROVE t[i] \in Range(s) /\ (Unrepeated => t[i] # s[k])
    <3>1. from(i) \in 1..n /\ from(i) # k
      BY <1>1
    <3> QED BY <1>1, <1>4, <3>1 DEF Range
  <2>2. ASSUME NEW i \in 1..n, s[i] # s[k] PROVE \E j \in 1..(n - 1) : t[j] = s[i]
    <3>1. CASE i < k
      <4>1. i \in 1..(n - 1) /\ from(i) = i
        BY <1>1, <3>1
      <4> QED BY <1>4, <4>1
    <3>2. CASE i > k
      <4>1. i - 1 \in 1..(n - 1) /\ from(i - 1) = i
        BY <1>1, <3>2
      <4> QED BY <1>4, <4>1
    <3> QED BY <1>1, <2>2, <3>1, <3>2
  <2>3. Range(t) \subseteq Range(s) /\ (Unrepeated => Range(t) \subseteq Range(s) \ {s[k]})
    BY <1>5, <2>1 DEF Range
  <2>4. Range(s) \ {s[k]} \subseteq Range(t)
    BY <1>1, <1>5, <2>2 DEF Range
  <2> QED BY <2>3, <2>4
<1>7. ASSUME Unrepeated, NEW i \in DOMAIN t, NEW j \in DOMAIN t, t[i] = t[j] PROVE i = j
  <2>1. from(i) \in 1..n /\ from(j) \in 1..n /\ s[from(i)] = s[from(j)]
    BY <1>1, <1>4, <1>5, <1>7
  <2>2. from(i) = from(j)
    BY <1>1, <1>7, <2>1
  <2> QED BY <1>1, <1>5, <2>2
<1> QED BY <1>4, <1>6, <1>7 DEF t

\* ... and one is put at its end.
LEMMA AppendsOne ==
  ASSUME NEW S, NEW s \in Seq(S), NEW x \in S
  PROVE  /\ Append(s, x) \in Seq(S)
         /\ Range(Append(s, x)) = Range(s) \cup {x}
         /\ (x \notin Range(s) /\ \A i, j \in DOMAIN s : s[i] = s[j] => i = j) =>
              \A i, j \in DOMAIN Append(s, x) : Append(s, x)[i] = Append(s, x)[j] => i = j
<1> DEFINE t == Append(s, x)
<1>1. /\ t \in Seq(S) /\ Len(s) \in Nat /\ DOMAIN s = 1..Len(s) /\ DOMAIN t = 1..(Len(s) + 1)
      /\ \A i \in 1..Len(s) : t[i] = s[i]
      /\ t[Len(s) + 1] = x
  <2>1. t \in Seq(S) /\ Len(t) = Len(s) + 1 /\ t[Len(s) + 1] = x /\ \A i \in 1..Len(s) : t[i] = s[i]
    BY AppendProperties
  <2> QED BY <2>1, LenProperties
<1> HIDE DEF t
<1>2. Range(t) = Range(s) \cup {x}
  BY <1>1 DEF Range
<1>3. ASSUME x \notin Range(s), \A i, j \in DOMAIN s : s[i] = s[j] => i = j,
             NEW i \in DOMAIN t, NEW j \in DOMAIN t, t[i] = t[j]
      PROVE  i = j
  <2>1. \A l \in 1..Len(s) : s[l] # x
    BY <1>1, <1>3 DEF Range
  <2>2. CASE i \in 1..Len(s) /\ j \in 1..Len(s)
    BY <1>1, <1>3, <2>2
  <2>3. CASE i \notin 1..Len(s) \/ j \notin 1..Len(s)
    BY <1>1, <1>3, <2>1, <2>3
  <2> QED BY <2>2, <2>3
<1> QED BY <1>1, <1>2, <1>3 DEF t

\* The beginning of a release takes the session out of the list.
LEMMA ReleaseTakesOut ==
  ASSUME McpTypeOK, SessionsPlaced, NEW s, ReleaseBegins(s)
  PROVE  /\ s \in Kept /\ s \in McpCalls /\ Kept' = Kept \ {s} /\ giving' = giving \cup {s}
         /\ sessions' \in Seq(McpCalls)
         /\ \A i, j \in DOMAIN sessions' : sessions'[i] = sessions'[j] => i = j
<1>1. PICK k \in DOMAIN sessions : sessions[k] = s /\ sessions' = RemoveAt(sessions, k)
  BY DEF ReleaseBegins
<1>2. sessions \in Seq(McpCalls) /\ \A i, j \in DOMAIN sessions : sessions[i] = sessions[j] => i = j
  BY DEF McpTypeOK, SessionsPlaced
<1>3. /\ RemoveAt(sessions, k) \in Seq(McpCalls)
      /\ Range(RemoveAt(sessions, k)) = Range(sessions) \ {sessions[k]}
      /\ \A i, j \in DOMAIN RemoveAt(sessions, k) :
           RemoveAt(sessions, k)[i] = RemoveAt(sessions, k)[j] => i = j
  BY <1>2, RemovesOne
<1>4. s \in Range(sessions) /\ s \in McpCalls
  BY <1>1, <1>2, LenProperties DEF Range
<1> QED BY <1>1, <1>3, <1>4 DEF ReleaseBegins, Kept

----------------------------------------------------------------------------
(* What the steps do to the sessions and their slots *)

\* A step that leaves them alone, and moves calls that have none.
LEMMA QuietKeepsSeats ==
  ASSUME McpInv, UNCHANGED <<tool, sessions, onRoute, giving, seats>>, CallsGoOn
  PROVE  SessionsPlaced' /\ SeatsAccounted' /\ ShotsReleased'
<1>1. Kept' = Kept
  BY DEF Kept
<1>2. \A c \in McpCalls : /\ call'[c] = "dialing" <=> call[c] = "dialing"
                          /\ call'[c] \in Unconnected => call[c] \in Unconnected
  BY DEF CallsGoOn, Unconnected
<1>3. SessionsPlaced'
  BY <1>1, <1>2 DEF McpInv, SessionsPlaced
<1>4. SeatsAccounted'
  BY <1>1, <1>2 DEF McpInv, SeatsAccounted
<1>5. \A c \in McpCalls : call'[c] \in {"releasing", "answered"} =>
                            call[c] \in {"releasing", "answered"} \/ call[c] \in Unconnected
  BY DEF CallsGoOn, Unconnected
<1>6. ShotsReleased'
  BY <1>1, <1>5 DEF McpInv, ShotsReleased, SessionsPlaced
<1> QED BY <1>3, <1>4, <1>6

\* A step that begins a release, for a call that awaits it or for the shutdown.
LEMMA ReleaseKeepsSeats ==
  ASSUME McpInv, NEW s, ReleaseBegins(s), UNCHANGED <<tool, onRoute, seats>>,
         \A c \in McpCalls : \/ call'[c] = call[c]
                             \/ /\ call'[c] = "releasing" /\ call[c] \in {"reaping", "running"}
                                /\ tool[c] = "shot" => c = s
  PROVE  SessionsPlaced' /\ SeatsAccounted' /\ ShotsReleased'
<1>1. /\ s \in Kept /\ Kept' = Kept \ {s} /\ giving' = giving \cup {s}
      /\ \A i, j \in DOMAIN sessions' : sessions'[i] = sessions'[j] => i = j
  BY ReleaseTakesOut DEF McpInv
<1>2. Kept' \cup giving' = Kept \cup giving
  BY <1>1
<1>3. \A c \in McpCalls : /\ call'[c] = "dialing" <=> call[c] = "dialing"
                          /\ call'[c] \in Unconnected => call[c] \in Unconnected
  BY DEF Unconnected
<1>4. SessionsPlaced'
  <2>1. Kept' \cap giving' = {}
    BY <1>1 DEF McpInv, SessionsPlaced
  <2> QED BY <1>1, <1>2, <1>3, <2>1 DEF McpInv, SessionsPlaced
<1>5. SeatsAccounted'
  BY <1>2, <1>3 DEF McpInv, SeatsAccounted
<1>6. ShotsReleased'
  BY <1>1 DEF McpInv, ShotsReleased
<1> QED BY <1>4, <1>5, <1>6

\* A slot is given back by a call that dials or a session that is released.
LEMMA SeatGivenBack ==
  ASSUME McpInv, NEW c \in McpCalls, onRoute[c] # NoRoute, SeatLeft(c)
  PROVE  /\ \A d \in McpCalls : onRoute'[d] = IF d = c THEN NoRoute ELSE onRoute[d]
         /\ \A d \in McpCalls, p \in Providers : d \in seats'[p] <=> d \in seats[p] /\ d # c
         /\ onRoute' \in [McpCalls -> Providers \cup {NoRoute}]
         /\ seats' \in [Providers -> SUBSET McpCalls]
<1>1. /\ onRoute \in [McpCalls -> Providers \cup {NoRoute}] /\ seats \in [Providers -> SUBSET McpCalls]
      /\ onRoute[c] \in Providers
  BY DEF McpInv, McpTypeOK
<1>2. \A p \in Providers : c \in seats[p] => p = onRoute[c]
  BY DEF McpInv, SeatsAccounted
<1>3. /\ onRoute' = [onRoute EXCEPT ![c] = NoRoute]
      /\ seats' = [seats EXCEPT ![onRoute[c]] = @ \ {c}]
  BY DEF SeatLeft
<1> QED BY <1>1, <1>2, <1>3

\* A step in which calls wait on or are woken.
LEMMA WakingGoesOn ==
  ASSUME McpTypeOK, Wakes
  PROVE  /\ call' \in [McpCalls -> {"new", "reaping", "preparing", "choosing", "trying", "dialing",
                                    "waiting", "woken", "running", "releasing", "answered"}]
         /\ \A c \in McpCalls : call'[c] = call[c] \/ (call[c] = "waiting" /\ call'[c] = "woken")
BY DEF McpTypeOK, Wakes, Moves

\* A session's slot is given back when its release is through.
LEMMA ReleasedKeepsSeats ==
  ASSUME McpInv, NEW s \in McpCalls, Released(s)
  PROVE  SessionsPlaced' /\ SeatsAccounted' /\ ShotsReleased'
<1>1. /\ s \in giving /\ giving' = giving \ {s} /\ SeatLeft(s) /\ Wakes
      /\ sessions' = sessions /\ tool' = tool
  BY DEF Released
<1>2. Kept' = Kept /\ s \notin Kept /\ onRoute[s] # NoRoute /\ call[s] \notin Unconnected
  BY <1>1 DEF Kept, McpInv, SessionsPlaced
<1>3. \A c \in McpCalls : call'[c] = call[c] \/ (call[c] = "waiting" /\ call'[c] = "woken")
  BY <1>1, WakingGoesOn DEF McpInv
<1>4. /\ \A d \in McpCalls : onRoute'[d] = IF d = s THEN NoRoute ELSE onRoute[d]
      /\ \A d \in McpCalls, p \in Providers : d \in seats'[p] <=> d \in seats[p] /\ d # s
  BY <1>1, <1>2, SeatGivenBack
<1>5. \A c \in McpCalls : /\ call'[c] = "dialing" <=> call[c] = "dialing"
                          /\ call'[c] \in Unconnected => call[c] \in Unconnected
                          /\ call'[c] \in {"releasing", "answered"} => call'[c] = call[c]
  BY <1>3 DEF Unconnected
<1>6. call'[s] # "dialing"
  BY <1>2, <1>5 DEF Unconnected
<1>7. SessionsPlaced'
  BY <1>1, <1>2, <1>4, <1>5, <1>6 DEF McpInv, SessionsPlaced
<1>8. SeatsAccounted'
  <2> SUFFICES ASSUME NEW d \in McpCalls, NEW p \in Providers
               PROVE  d \in seats'[p] <=> onRoute'[d] = p /\ (call'[d] = "dialing" \/ d \in Kept' \cup giving')
    BY DEF SeatsAccounted
  <2>1. CASE d = s
    BY <1>4, <2>1, McpAssumption DEF Providers
  <2>2. CASE d # s
    BY <1>1, <1>2, <1>4, <1>5, <2>2 DEF McpInv, SeatsAccounted
  <2> QED BY <2>1, <2>2
<1>9. ShotsReleased'
  BY <1>1, <1>2, <1>5 DEF McpInv, ShotsReleased
<1> QED BY <1>7, <1>8, <1>9

\* So is that of a call whose connection fails.
LEMMA RefusalKeepsSeats ==
  ASSUME McpInv, NEW c \in McpCalls, DialRefused(c)
  PROVE  SessionsPlaced' /\ SeatsAccounted' /\ ShotsReleased'
<1>1. /\ call[c] = "dialing" /\ SeatLeft(c) /\ giving' = giving /\ sessions' = sessions /\ tool' = tool
  BY DEF DialRefused
<1>2. Kept' = Kept /\ c \notin Kept \cup giving /\ onRoute[c] # NoRoute
  BY <1>1 DEF Kept, McpInv, SessionsPlaced, Unconnected
<1>3. /\ call'[c] = "trying"
      /\ \A d \in McpCalls \ {c} : call'[d] = call[d] \/ (call[d] = "waiting" /\ call'[d] = "woken")
  <2>1. call \in [McpCalls -> {"new", "reaping", "preparing", "choosing", "trying", "dialing",
                               "waiting", "woken", "running", "releasing", "answered"}]
    BY DEF McpInv, McpTypeOK
  <2>2. CASE Moves(c, "trying")
    BY <2>1, <2>2 DEF Moves
  <2>3. CASE \E w \in McpCalls : call[w] = "waiting" /\ call' = [call EXCEPT ![c] = "trying", ![w] = "woken"]
    BY <1>1, <2>1, <2>3
  <2> QED BY <2>2, <2>3 DEF DialRefused
<1>4. /\ \A d \in McpCalls : onRoute'[d] = IF d = c THEN NoRoute ELSE onRoute[d]
      /\ \A d \in McpCalls, p \in Providers : d \in seats'[p] <=> d \in seats[p] /\ d # c
  BY <1>1, <1>2, SeatGivenBack
<1>5. \A d \in McpCalls : /\ call'[d] = "dialing" <=> call[d] = "dialing" /\ d # c
                          /\ call'[d] \in Unconnected => call[d] \in Unconnected
                          /\ call'[d] \in {"releasing", "answered"} => call'[d] = call[d]
  BY <1>1, <1>3 DEF Unconnected
<1>6. SessionsPlaced'
  BY <1>1, <1>2, <1>4, <1>5 DEF McpInv, SessionsPlaced
<1>7. SeatsAccounted'
  <2> SUFFICES ASSUME NEW d \in McpCalls, NEW p \in Providers
               PROVE  d \in seats'[p] <=> onRoute'[d] = p /\ (call'[d] = "dialing" \/ d \in Kept' \cup giving')
    BY DEF SeatsAccounted
  <2>1. CASE d = c
    BY <1>4, <2>1, McpAssumption DEF Providers
  <2>2. CASE d # c
    BY <1>1, <1>2, <1>4, <1>5, <2>2 DEF McpInv, SeatsAccounted
  <2> QED BY <2>1, <2>2
<1>8. ShotsReleased'
  BY <1>1, <1>2, <1>5 DEF McpInv, ShotsReleased
<1> QED BY <1>6, <1>7, <1>8

\* An attempt takes a slot of the provider it dials.
LEMMA AttemptKeepsSeats ==
  ASSUME McpInv, NEW c \in McpCalls, Attempting(c)
  PROVE  SessionsPlaced' /\ SeatsAccounted' /\ ShotsReleased'
<1>1. /\ call[c] = "trying" /\ routes[c] # << >>
      /\ UNCHANGED <<tool, sessions, giving>>
  BY DEF Attempting
<1>2. PICK p : p = Head(routes[c])
  OBVIOUS
<1>3. p \in Providers
  <2>1. routes[c] \in Seq(Providers)
    BY DEF McpInv, McpTypeOK
  <2> QED BY <1>1, <1>2, <2>1, HeadTailProperties
<1>4. CASE ~Acquirable(p)
  <2>1. UNCHANGED <<seats, onRoute, call>>
    BY <1>2, <1>4 DEF Attempting
  <2> QED BY <1>1, <2>1, QuietKeepsSeats DEF CallsGoOn
<1>5. CASE Acquirable(p)
  <2>1. /\ seats' = [seats EXCEPT ![p] = @ \cup {c}]
        /\ onRoute' = [onRoute EXCEPT ![c] = p]
        /\ call' = [call EXCEPT ![c] = "dialing"]
    BY <1>2, <1>5 DEF Attempting, Moves
  <2>2. /\ onRoute \in [McpCalls -> Providers \cup {NoRoute}] /\ seats \in [Providers -> SUBSET McpCalls]
        /\ call \in [McpCalls -> {"new", "reaping", "preparing", "choosing", "trying", "dialing",
                                  "waiting", "woken", "running", "releasing", "answered"}]
    BY DEF McpInv, McpTypeOK
  <2>3. Kept' = Kept /\ c \notin Kept \cup giving
    BY <1>1 DEF Kept, McpInv, SessionsPlaced, Unconnected
  <2>4. p # NoRoute
    BY <1>3, McpAssumption DEF Providers
  <2>5. \A d \in McpCalls : /\ call'[d] = IF d = c THEN "dialing" ELSE call[d]
                            /\ onRoute'[d] = IF d = c THEN p ELSE onRoute[d]
    BY <2>1, <2>2
  <2>6. SessionsPlaced'
    BY <1>1, <2>3, <2>4, <2>5 DEF McpInv, SessionsPlaced, Unconnected
  <2>7. SeatsAccounted'
    <3> SUFFICES ASSUME NEW d \in McpCalls, NEW q \in Providers
                 PROVE  d \in seats'[q] <=> onRoute'[d] = q /\ (call'[d] = "dialing" \/ d \in Kept' \cup giving')
      BY DEF SeatsAccounted
    <3>1. d \in seats'[q] <=> d \in seats[q] \/ (d = c /\ q = p)
      BY <1>3, <2>1, <2>2
    <3>2. CASE d = c
      <4>1. c \notin seats[q]
        BY <1>1, <2>3 DEF McpInv, SeatsAccounted
      <4> QED BY <2>5, <3>1, <3>2, <4>1
    <3>3. CASE d # c
      BY <1>1, <2>3, <2>5, <3>1, <3>3 DEF McpInv, SeatsAccounted
    <3> QED BY <3>2, <3>3
  <2>8. ShotsReleased'
    BY <1>1, <2>3, <2>5 DEF McpInv, ShotsReleased
  <2> QED BY <2>6, <2>7, <2>8
<1> QED BY <1>4, <1>5

\* A connection that comes up is listed under the slot it was dialled with.
LEMMA ConnectKeepsSeats ==
  ASSUME McpInv, NEW c \in McpCalls, Connects(c)
  PROVE  SessionsPlaced' /\ SeatsAccounted' /\ ShotsReleased'
<1>1. /\ call[c] = "dialing" /\ sessions' = Append(sessions, c)
      /\ UNCHANGED <<tool, onRoute, giving, seats>>
  BY DEF Connects
<1>2. \A d \in McpCalls : call'[d] = IF d = c THEN (IF tool[c] = "shot" THEN "running" ELSE "answered")
                                              ELSE call[d]
  BY DEF Connects, Moves, McpInv, McpTypeOK
<1>3. sessions \in Seq(McpCalls) /\ (\A i, j \in DOMAIN sessions : sessions[i] = sessions[j] => i = j)
      /\ c \notin Range(sessions)
  BY <1>1 DEF McpInv, McpTypeOK, SessionsPlaced, Kept, Unconnected
<1>4. /\ Kept' = Kept \cup {c} /\ c \notin giving
      /\ \A i, j \in DOMAIN sessions' : sessions'[i] = sessions'[j] => i = j
  <2>1. c \notin giving
    BY <1>1 DEF McpInv, SessionsPlaced, Unconnected
  <2> QED BY <1>1, <1>3, <2>1, AppendsOne DEF Kept
<1>5. \A d \in McpCalls : d # c => (d \in Kept' <=> d \in Kept)
  BY <1>4
<1>6. SessionsPlaced'
  <2>1. Kept' \cap giving' = {}
    BY <1>1, <1>4 DEF McpInv, SessionsPlaced
  <2>2. \A d \in McpCalls : onRoute'[d] # NoRoute <=> (call'[d] = "dialing" \/ d \in Kept' \cup giving')
    BY <1>1, <1>2, <1>4, <1>5 DEF McpInv, SessionsPlaced
  <2>3. \A d \in McpCalls : call'[d] \in Unconnected => d \notin Kept' \cup giving'
    BY <1>1, <1>2, <1>4, <1>5 DEF McpInv, SessionsPlaced, Unconnected
  <2> QED BY <1>4, <2>1, <2>2, <2>3 DEF SessionsPlaced
<1>7. SeatsAccounted'
  BY <1>1, <1>2, <1>4, <1>5 DEF McpInv, SeatsAccounted
<1>8. ShotsReleased'
  BY <1>1, <1>2, <1>4, <1>5 DEF McpInv, ShotsReleased
<1> QED BY <1>6, <1>7, <1>8

----------------------------------------------------------------------------
(* The types *)

\* Where a call can be.
CallSteps == Unconnected \cup {"running", "releasing", "answered"}

\* A walk notes what it passed and waits for a session that was listed.
LEMMA WalksStayTyped ==
  ASSUME McpTypeOK, SessionsPlaced, NEW w \in Walkers, NEW wanted, WalkOn(w, wanted)
  PROVE  /\ visited' \in [Walkers -> SUBSET McpCalls] /\ awaited' \in [Walkers -> McpCalls \cup {NoRoute}]
         /\ sessions' \in Seq(McpCalls) /\ giving' \subseteq McpCalls
<1>1. PICK place \in DOMAIN sessions :
        /\ awaited' = [awaited EXCEPT ![w] = sessions[place]]
        /\ visited' = [visited EXCEPT ![w] = @ \cup {sessions[j] : j \in 1 .. place}]
        /\ ReleaseBegins(sessions[place])
  BY DEF WalkOn
<1>2. sessions \in Seq(McpCalls) /\ Len(sessions) \in Nat /\ DOMAIN sessions = 1..Len(sessions)
      /\ \A j \in 1..Len(sessions) : sessions[j] \in McpCalls
  BY LenProperties, ElementOfSeq DEF McpTypeOK
<1>3. sessions[place] \in McpCalls /\ {sessions[j] : j \in 1 .. place} \subseteq McpCalls
  BY <1>1, <1>2
<1>4. awaited' \in [Walkers -> McpCalls \cup {NoRoute}]
  BY <1>1, <1>3 DEF McpTypeOK
<1>5. visited' \in [Walkers -> SUBSET McpCalls]
  BY <1>1, <1>3 DEF McpTypeOK
<1>6. sessions' \in Seq(McpCalls) /\ giving' = giving \cup {sessions[place]}
  BY <1>1, ReleaseTakesOut
<1> QED BY <1>3, <1>4, <1>5, <1>6 DEF McpTypeOK

\* No step leaves them.
LEMMA McpTypesStay ==
  ASSUME McpInv, McpNext
  PROVE  McpTypeOK'
<1> DEFINE Places == [McpCalls -> CallSteps]
<1>0. /\ McpTypeOK /\ SessionsPlaced /\ call \in Places
      /\ McpTypeOK' <=> /\ tool' \in [McpCalls -> {"open", "shot", "close"}]
                        /\ call' \in Places
                        /\ routes' \in [McpCalls -> Seq(Providers)] /\ waited' \in [McpCalls -> BOOLEAN]
                        /\ visited' \in [Walkers -> SUBSET McpCalls]
                        /\ awaited' \in [Walkers -> McpCalls \cup {NoRoute}]
                        /\ sessions' \in Seq(McpCalls) /\ worn' \in [McpCalls -> BOOLEAN]
                        /\ giving' \subseteq McpCalls
                        /\ onRoute' \in [McpCalls -> Providers \cup {NoRoute}]
                        /\ seats' \in [Providers -> SUBSET McpCalls] /\ foreign' \in [Providers -> Nat]
                        /\ ready' \in {"no", "starting", "yes"} /\ halting' \in {"no", "walking", "through"}
  <2>1. CallSteps = {"new", "reaping", "preparing", "choosing", "trying", "dialing", "waiting",
                     "woken", "running", "releasing", "answered"}
    BY DEF CallSteps, Unconnected
  <2> QED BY <2>1 DEF McpInv, McpTypeOK, Providers, Walkers, Shutdown
<1>t. /\ tool \in [McpCalls -> {"open", "shot", "close"}]
      /\ routes \in [McpCalls -> Seq(Providers)] /\ waited \in [McpCalls -> BOOLEAN]
      /\ visited \in [Walkers -> SUBSET McpCalls]
      /\ awaited \in [Walkers -> McpCalls \cup {NoRoute}]
      /\ sessions \in Seq(McpCalls) /\ worn \in [McpCalls -> BOOLEAN]
      /\ giving \subseteq McpCalls
      /\ onRoute \in [McpCalls -> Providers \cup {NoRoute}]
      /\ seats \in [Providers -> SUBSET McpCalls] /\ foreign \in [Providers -> Nat]
      /\ ready \in {"no", "starting", "yes"} /\ halting \in {"no", "walking", "through"}
  BY <1>0 DEF McpTypeOK
<1>w. McpCalls \subseteq Walkers /\ Shutdown \in Walkers
  BY DEF Walkers
<1>m. ASSUME NEW c \in McpCalls, NEW step \in CallSteps, Moves(c, step) PROVE call' \in Places
  BY <1>0, <1>m DEF Moves
<1>k. ASSUME Wakes PROVE call' \in Places
  BY <1>0, <1>k, WakingGoesOn DEF CallSteps, Unconnected
<1>1. ASSUME NEW p \in Providers, OthersTake(p) PROVE McpTypeOK'
  <2>1. foreign' \in [Providers -> Nat]
    BY <1>1, <1>t DEF OthersTake
  <2> QED BY <1>0, <1>1, <1>t, <2>1 DEF OthersTake
<1>2. ASSUME NEW p \in Providers, OthersLeave(p) PROVE McpTypeOK'
  <2>1. foreign[p] \in Nat
    BY <1>t
  <2>2. foreign' \in [Providers -> Nat]
    BY <1>2, <1>t, <2>1 DEF OthersLeave
  <2>3. call' \in Places
    BY <1>2, <1>k DEF OthersLeave
  <2> QED BY <1>0, <1>2, <1>t, <2>2, <2>3 DEF OthersLeave
<1>3. ASSUME NEW c \in McpCalls, Released(c) PROVE McpTypeOK'
  <2>1. onRoute[c] # NoRoute /\ SeatLeft(c) /\ Wakes
    BY <1>0, <1>3 DEF Released, SessionsPlaced
  <2>2. /\ onRoute' \in [McpCalls -> Providers \cup {NoRoute}] /\ seats' \in [Providers -> SUBSET McpCalls]
    BY <2>1, SeatGivenBack
  <2>3. call' \in Places
    BY <1>k, <2>1
  <2> QED BY <1>0, <1>3, <1>t, <2>2, <2>3 DEF Released
<1>4. ASSUME NEW w \in Walkers, Resumes(w) PROVE McpTypeOK'
  <2>1. awaited' \in [Walkers -> McpCalls \cup {NoRoute}]
    BY <1>4, <1>t DEF Resumes
  <2>2. call' \in Places
    BY <1>0, <1>4, <1>m DEF Resumes, CallSteps
  <2> QED BY <1>0, <1>4, <1>t, <2>1, <2>2 DEF Resumes
<1>5. ASSUME NEW c \in McpCalls, Begins(c) PROVE McpTypeOK'
  <2>1. call' \in Places
    BY <1>5, <1>m DEF Begins, CallSteps, Unconnected
  <2> QED BY <1>0, <1>5, <1>t, <2>1 DEF Begins
<1>6. ASSUME NEW c \in McpCalls, Reaps(c) PROVE McpTypeOK'
  <2>1. WalkOn(c, Worn) /\ c \in Walkers
    BY <1>6, <1>w DEF Reaps
  <2>2. /\ visited' \in [Walkers -> SUBSET McpCalls] /\ awaited' \in [Walkers -> McpCalls \cup {NoRoute}]
        /\ sessions' \in Seq(McpCalls) /\ giving' \subseteq McpCalls
    BY <1>0, <2>1, WalksStayTyped
  <2> QED BY <1>0, <1>6, <1>t, <2>2 DEF Reaps
<1>7. ASSUME NEW c \in McpCalls, Reaped(c) PROVE McpTypeOK'
  <2>1. visited' \in [Walkers -> SUBSET McpCalls]
    BY <1>7, <1>t DEF Reaped
  <2>2. /\ call' \in Places /\ awaited' \in [Walkers -> McpCalls \cup {NoRoute}]
        /\ sessions' \in Seq(McpCalls) /\ giving' \subseteq McpCalls
    <3>1. CASE tool[c] # "close"
      <4>1. Moves(c, IF ready = "yes" THEN "choosing" ELSE "preparing") /\ UNCHANGED <<sessions, giving, awaited>>
        BY <1>7, <3>1 DEF Reaped
      <4>2. (IF ready = "yes" THEN "choosing" ELSE "preparing") \in CallSteps
        BY DEF CallSteps, Unconnected
      <4> QED BY <1>m, <1>t, <4>1, <4>2
    <3>2. CASE \E s \in Kept : ReleaseBegins(s) /\ awaited' = [awaited EXCEPT ![c] = s] /\ Moves(c, "releasing")
      <4>1. PICK s \in Kept : ReleaseBegins(s) /\ awaited' = [awaited EXCEPT ![c] = s] /\ Moves(c, "releasing")
        BY <3>2
      <4>2. s \in McpCalls /\ sessions' \in Seq(McpCalls) /\ giving' = giving \cup {s}
        BY <1>0, <4>1, ReleaseTakesOut
      <4>3. call' \in Places
        BY <1>m, <4>1 DEF CallSteps
      <4> QED BY <1>t, <4>1, <4>2, <4>3
    <3>3. CASE Moves(c, "answered") /\ UNCHANGED <<sessions, giving, awaited>>
      <4>1. call' \in Places
        BY <1>m, <3>3 DEF CallSteps
      <4> QED BY <1>t, <3>3, <4>1
    <3> QED BY <1>7, <3>1, <3>2, <3>3 DEF Reaped
  <2> QED BY <1>0, <1>7, <1>t, <2>1, <2>2 DEF Reaped
<1>8. ASSUME NEW c \in McpCalls, Prepares(c) PROVE McpTypeOK'
  <2>1. call' \in Places /\ ready' \in {"no", "starting", "yes"}
    <3>1. \/ ready' = "starting" /\ UNCHANGED call
          \/ Moves(c, "choosing") /\ UNCHANGED ready
      BY <1>8, <1>t DEF Prepares
    <3> QED BY <1>0, <1>m, <1>t, <3>1 DEF CallSteps, Unconnected
  <2> QED BY <1>0, <1>8, <1>t, <2>1 DEF Prepares
<1>9. ASSUME SetupEnds PROVE McpTypeOK'
  <2>1. call' \in Places /\ ready' \in {"no", "starting", "yes"}
    <3>1. CASE ready' = "yes" /\ UNCHANGED call
      BY <1>0, <3>1
    <3>2. CASE ready' = "no" /\ call' = [c \in McpCalls |-> IF call[c] = "preparing" THEN "answered" ELSE call[c]]
      BY <1>0, <3>2 DEF CallSteps
    <3> QED BY <1>9, <3>1, <3>2 DEF SetupEnds
  <2> QED BY <1>0, <1>9, <1>t, <2>1 DEF SetupEnds
<1>10. ASSUME NEW c \in McpCalls, Chooses(c) PROVE McpTypeOK'
  <2>1. call' \in Places
    BY <1>10, <1>m DEF Chooses, CallSteps, Unconnected
  <2>2. routes' \in [McpCalls -> Seq(Providers)]
    BY <1>10, <1>t, McpAssumption DEF Chooses, Providers
  <2> QED BY <1>0, <1>10, <1>t, <2>1, <2>2 DEF Chooses
<1>11. ASSUME NEW c \in McpCalls, Attempting(c) PROVE McpTypeOK'
  <2>1. routes[c] \in Seq(Providers) /\ routes[c] # << >>
    BY <1>11, <1>t DEF Attempting
  <2>2. Head(routes[c]) \in Providers /\ Tail(routes[c]) \in Seq(Providers)
    BY <2>1, HeadTailProperties
  <2>3. routes' \in [McpCalls -> Seq(Providers)]
    BY <1>11, <1>t, <2>2 DEF Attempting
  <2>4. /\ call' \in Places /\ onRoute' \in [McpCalls -> Providers \cup {NoRoute}]
        /\ seats' \in [Providers -> SUBSET McpCalls]
    <3>1. PICK p : p = Head(routes[c])
      OBVIOUS
    <3>2. CASE ~Acquirable(p)
      BY <1>0, <1>11, <1>t, <3>1, <3>2 DEF Attempting
    <3>3. CASE Acquirable(p)
      <4>1. /\ seats' = [seats EXCEPT ![p] = @ \cup {c}]
            /\ onRoute' = [onRoute EXCEPT ![c] = p]
            /\ Moves(c, "dialing")
        BY <1>11, <3>1, <3>3 DEF Attempting
      <4>2. call' \in Places
        BY <1>m, <4>1 DEF CallSteps, Unconnected
      <4>3. onRoute' \in [McpCalls -> Providers \cup {NoRoute}]
        BY <1>t, <2>2, <3>1, <4>1
      <4>4. seats' \in [Providers -> SUBSET McpCalls]
        BY <1>t, <2>2, <3>1, <4>1
      <4> QED BY <4>2, <4>3, <4>4
    <3> QED BY <3>2, <3>3
  <2> QED BY <1>0, <1>11, <1>t, <2>3, <2>4 DEF Attempting
<1>12. ASSUME NEW c \in McpCalls, Connects(c) PROVE McpTypeOK'
  <2>1. call' \in Places
    BY <1>12, <1>m DEF Connects, CallSteps
  <2>2. sessions' \in Seq(McpCalls)
    BY <1>12, <1>t, AppendProperties DEF Connects
  <2>3. routes' \in [McpCalls -> Seq(Providers)] /\ waited' \in [McpCalls -> BOOLEAN]
    <3>1. << >> \in Seq(Providers)
      OBVIOUS
    <3> QED BY <1>12, <1>t, <3>1 DEF Connects
  <2> QED BY <1>0, <1>12, <1>t, <2>1, <2>2, <2>3 DEF Connects
<1>13. ASSUME NEW c \in McpCalls, DialRefused(c) PROVE McpTypeOK'
  <2>1. onRoute[c] # NoRoute /\ SeatLeft(c)
    BY <1>0, <1>13 DEF DialRefused, SessionsPlaced
  <2>2. /\ onRoute' \in [McpCalls -> Providers \cup {NoRoute}] /\ seats' \in [Providers -> SUBSET McpCalls]
    BY <2>1, SeatGivenBack
  <2>3. call' \in Places
    <3>1. CASE Moves(c, "trying")
      BY <1>m, <3>1 DEF CallSteps, Unconnected
    <3>2. CASE \E w \in McpCalls : call[w] = "waiting" /\ call' = [call EXCEPT ![c] = "trying", ![w] = "woken"]
      BY <1>0, <3>2 DEF CallSteps, Unconnected
    <3> QED BY <1>13, <3>1, <3>2 DEF DialRefused
  <2> QED BY <1>0, <1>13, <1>t, <2>2, <2>3 DEF DialRefused
<1>14. ASSUME NEW c \in McpCalls, Exhausted(c) PROVE McpTypeOK'
  <2>1. call' \in Places
    BY <1>14, <1>m DEF Exhausted, CallSteps, Unconnected
  <2>2. waited' \in [McpCalls -> BOOLEAN]
    BY <1>14, <1>t DEF Exhausted
  <2> QED BY <1>0, <1>14, <1>t, <2>1, <2>2 DEF Exhausted
<1>15. ASSUME NEW c \in McpCalls, WaitEnds(c) PROVE McpTypeOK'
  <2>1. call' \in Places
    BY <1>15, <1>m DEF WaitEnds, CallSteps
  <2> QED BY <1>0, <1>15, <1>t, <2>1 DEF WaitEnds
<1>16. ASSUME NEW c \in McpCalls, ShotEnds(c) PROVE McpTypeOK'
  <2>1. CASE ShotReleases(c)
    <3>1. ReleaseBegins(c) /\ awaited' = [awaited EXCEPT ![c] = c] /\ Moves(c, "releasing")
      BY <1>16, <2>1 DEF ShotEnds
    <3>2. sessions' \in Seq(McpCalls) /\ giving' = giving \cup {c}
      BY <1>0, <3>1, ReleaseTakesOut
    <3>3. call' \in Places
      BY <1>m, <3>1 DEF CallSteps
    <3>4. awaited' \in [Walkers -> McpCalls \cup {NoRoute}]
      BY <1>t, <3>1
    <3> QED BY <1>0, <1>16, <1>t, <3>2, <3>3, <3>4 DEF ShotEnds
  <2>2. CASE ~ShotReleases(c)
    <3>1. call' \in Places
      BY <1>16, <1>m, <2>2 DEF ShotEnds, CallSteps
    <3> QED BY <1>0, <1>16, <1>t, <2>2, <3>1 DEF ShotEnds
  <2> QED BY <2>1, <2>2
<1>17. ASSUME NEW c \in McpCalls, WearsOut(c) PROVE McpTypeOK'
  <2>1. worn' \in [McpCalls -> BOOLEAN]
    BY <1>17, <1>t DEF WearsOut
  <2> QED BY <1>0, <1>17, <1>t, <2>1 DEF WearsOut
<1>18. ASSUME Halts PROVE McpTypeOK'
  BY <1>0, <1>18, <1>t DEF Halts
<1>19. ASSUME ReleasesAll PROVE McpTypeOK'
  <2>1. CASE Unvisited(Shutdown, Kept)
    <3>1. WalkOn(Shutdown, Kept) /\ UNCHANGED halting
      BY <1>19, <2>1 DEF ReleasesAll
    <3>2. /\ visited' \in [Walkers -> SUBSET McpCalls] /\ awaited' \in [Walkers -> McpCalls \cup {NoRoute}]
          /\ sessions' \in Seq(McpCalls) /\ giving' \subseteq McpCalls
      BY <1>0, <1>w, <3>1, WalksStayTyped
    <3> QED BY <1>0, <1>19, <1>t, <3>1, <3>2 DEF ReleasesAll
  <2>2. CASE ~Unvisited(Shutdown, Kept)
    BY <1>0, <1>19, <1>t, <2>2 DEF ReleasesAll
  <2> QED BY <2>1, <2>2
<1> QED
  BY <1>1, <1>2, <1>3, <1>4, <1>5, <1>6, <1>7, <1>8, <1>9, <1>10, <1>11, <1>12, <1>13, <1>14, <1>15,
     <1>16, <1>17, <1>18, <1>19, <1>w DEF McpNext, CallStep

----------------------------------------------------------------------------
(* The invariant *)

\* No step loses a slot or holds one for nobody.
LEMMA McpStepKeepsSeats ==
  ASSUME McpInv, McpNext
  PROVE  SessionsPlaced' /\ SeatsAccounted' /\ ShotsReleased'
<1> DEFINE Goal == SessionsPlaced' /\ SeatsAccounted' /\ ShotsReleased'
<1>c. call \in [McpCalls -> CallSteps]
  BY DEF McpInv, McpTypeOK, CallSteps, Unconnected
<1>q. ASSUME UNCHANGED <<tool, sessions, onRoute, giving, seats>>, CallsGoOn PROVE Goal
  BY <1>q, QuietKeepsSeats
<1>m. ASSUME NEW c \in McpCalls, NEW step, Moves(c, step)
      PROVE  \A d \in McpCalls : call'[d] = IF d = c THEN step ELSE call[d]
  BY <1>c, <1>m DEF Moves
<1>u. (UNCHANGED call) => CallsGoOn
  BY DEF CallsGoOn
<1>k. Wakes => CallsGoOn
  BY WakingGoesOn DEF McpInv, CallsGoOn, Unconnected
<1>r. ASSUME NEW s, ReleaseBegins(s), UNCHANGED <<tool, onRoute, seats>>,
             \A c \in McpCalls : \/ call'[c] = call[c]
                                 \/ /\ call'[c] = "releasing" /\ call[c] \in {"reaping", "running"}
                                    /\ tool[c] = "shot" => c = s
      PROVE  Goal
  BY <1>r, ReleaseKeepsSeats
<1>w. ASSUME NEW w, NEW wanted, WalkOn(w, wanted), UNCHANGED <<tool, call, onRoute, seats>> PROVE Goal
  <2>1. PICK place \in DOMAIN sessions : ReleaseBegins(sessions[place])
    BY <1>w DEF WalkOn
  <2> QED BY <1>r, <1>w, <2>1
<1> HIDE DEF Goal
<1>1. ASSUME NEW p \in Providers, OthersTake(p) \/ OthersLeave(p) PROVE Goal
  BY <1>1, <1>q, <1>u, <1>k DEF OthersTake, OthersLeave
<1>2. ASSUME NEW w, Resumes(w) PROVE Goal
  <2>1. CASE w \in McpCalls /\ call[w] = "releasing"
    <3>1. Moves(w, "answered") /\ UNCHANGED <<tool, sessions, onRoute, giving, seats>>
      BY <1>2, <2>1 DEF Resumes
    <3>2. CallsGoOn
      BY <1>m, <2>1, <3>1 DEF CallsGoOn
    <3> QED BY <1>q, <3>1, <3>2
  <2>2. CASE ~(w \in McpCalls /\ call[w] = "releasing")
    BY <1>2, <1>q, <1>u, <2>2 DEF Resumes
  <2> QED BY <2>1, <2>2
<1>3. ASSUME NEW c \in McpCalls,
             Begins(c) \/ Chooses(c) \/ Exhausted(c) \/ WaitEnds(c)
      PROVE  Goal
  <2>1. UNCHANGED <<tool, sessions, onRoute, giving, seats>>
    BY <1>3 DEF Begins, Chooses, Exhausted, WaitEnds
  <2>2. PICK step : /\ Moves(c, step) /\ step \in (Unconnected \ {"dialing"}) \cup {"answered"}
                    /\ call[c] \in Unconnected \ {"dialing"}
    BY <1>3 DEF Begins, Chooses, Exhausted, WaitEnds, TimeoutDue, Unconnected
  <2>3. CallsGoOn
    BY <1>m, <2>2 DEF CallsGoOn
  <2> QED BY <1>q, <2>1, <2>3
<1>4. ASSUME NEW c \in McpCalls, Prepares(c) PROVE Goal
  <2>1. CASE Moves(c, "choosing")
    <3>1. CallsGoOn
      BY <1>4, <1>m, <2>1 DEF CallsGoOn, Prepares, Unconnected
    <3> QED BY <1>4, <1>q, <3>1 DEF Prepares
  <2>2. CASE UNCHANGED call
    BY <1>4, <1>q, <1>u, <2>2 DEF Prepares
  <2> QED BY <1>4, <2>1, <2>2 DEF Prepares
<1>5. ASSUME SetupEnds PROVE Goal
  <2>1. CallsGoOn
    BY <1>5, <1>c DEF SetupEnds, CallsGoOn, Unconnected
  <2> QED BY <1>5, <1>q, <2>1 DEF SetupEnds
<1>6. ASSUME NEW c \in McpCalls, WearsOut(c) PROVE Goal
  BY <1>6, <1>q, <1>u DEF WearsOut
<1>7. ASSUME Halts PROVE Goal
  BY <1>7, <1>q, <1>u DEF Halts
<1>8. ASSUME NEW c \in McpCalls, Reaps(c) PROVE Goal
  BY <1>8, <1>w DEF Reaps
<1>9. ASSUME ReleasesAll PROVE Goal
  <2>1. CASE Unvisited(Shutdown, Kept)
    BY <1>9, <1>w, <2>1 DEF ReleasesAll
  <2>2. CASE ~Unvisited(Shutdown, Kept)
    BY <1>9, <1>q, <1>u, <2>2 DEF ReleasesAll
  <2> QED BY <2>1, <2>2
<1>10. ASSUME NEW c \in McpCalls, Reaped(c) PROVE Goal
  <2>0. call[c] = "reaping" /\ UNCHANGED <<tool, onRoute, seats>>
    BY <1>10 DEF Reaped
  <2>1. CASE tool[c] # "close"
    <3>1. Moves(c, IF ready = "yes" THEN "choosing" ELSE "preparing") /\ UNCHANGED <<sessions, giving>>
      BY <1>10, <2>1 DEF Reaped
    <3>2. (IF ready = "yes" THEN "choosing" ELSE "preparing") \in Unconnected \ {"dialing"}
      BY DEF Unconnected
    <3>3. CallsGoOn
      BY <1>m, <2>0, <3>1, <3>2 DEF CallsGoOn, Unconnected
    <3> QED BY <1>q, <2>0, <3>1, <3>3
  <2>2. CASE tool[c] = "close" /\ \E s \in Kept : ReleaseBegins(s) /\ Moves(c, "releasing")
    <3>1. PICK s \in Kept : ReleaseBegins(s) /\ Moves(c, "releasing")
      BY <2>2
    <3>2. \A d \in McpCalls : \/ call'[d] = call[d]
                              \/ /\ call'[d] = "releasing" /\ call[d] \in {"reaping", "running"}
                                 /\ tool[d] = "shot" => d = s
      BY <1>m, <2>0, <2>2, <3>1
    <3> QED BY <1>r, <2>0, <3>1, <3>2
  <2>3. CASE Moves(c, "answered") /\ UNCHANGED <<sessions, giving>>
    <3>1. CallsGoOn
      BY <1>m, <2>0, <2>3 DEF CallsGoOn, Unconnected
    <3> QED BY <1>q, <2>0, <2>3, <3>1
  <2> QED BY <1>10, <2>1, <2>2, <2>3 DEF Reaped
<1>11. ASSUME NEW c \in McpCalls, ShotEnds(c) PROVE Goal
  <2>0. call[c] = "running" /\ UNCHANGED <<tool, onRoute, seats>>
    BY <1>11 DEF ShotEnds
  <2>1. CASE c \in Kept
    <3>1. ReleaseBegins(c) /\ Moves(c, "releasing")
      BY <1>11, <2>1 DEF ShotEnds, ShotReleases
    <3>2. \A d \in McpCalls : \/ call'[d] = call[d]
                              \/ /\ call'[d] = "releasing" /\ call[d] \in {"reaping", "running"}
                                 /\ tool[d] = "shot" => d = c
      BY <1>m, <2>0, <3>1
    <3> QED BY <1>r, <2>0, <3>1, <3>2
  <2>2. CASE c \notin Kept
    <3>1. Moves(c, "answered") /\ UNCHANGED <<sessions, giving>>
      BY <1>11, <2>2 DEF ShotEnds, ShotReleases
    <3>2. \A d \in McpCalls : call'[d] = IF d = c THEN "answered" ELSE call[d]
      BY <1>m, <3>1
    <3>3. Kept' = Kept
      BY <3>1 DEF Kept
    <3>4. SessionsPlaced'
      BY <2>0, <3>1, <3>2, <3>3 DEF McpInv, SessionsPlaced, Unconnected
    <3>5. SeatsAccounted'
      BY <2>0, <3>1, <3>2, <3>3 DEF McpInv, SeatsAccounted
    <3>6. ShotsReleased'
      BY <2>0, <2>2, <3>2, <3>3 DEF McpInv, ShotsReleased
    <3> QED BY <3>4, <3>5, <3>6 DEF Goal
  <2> QED BY <2>1, <2>2
<1>12. ASSUME NEW c \in McpCalls, Released(c) PROVE Goal
  BY <1>12, ReleasedKeepsSeats DEF Goal
<1>13. ASSUME NEW c \in McpCalls, DialRefused(c) PROVE Goal
  BY <1>13, RefusalKeepsSeats DEF Goal
<1>14. ASSUME NEW c \in McpCalls, Attempting(c) PROVE Goal
  BY <1>14, AttemptKeepsSeats DEF Goal
<1>15. ASSUME NEW c \in McpCalls, Connects(c) PROVE Goal
  BY <1>15, ConnectKeepsSeats DEF Goal
<1>16. Goal
  BY <1>1, <1>2, <1>3, <1>4, <1>5, <1>6, <1>7, <1>8, <1>9, <1>10, <1>11, <1>12, <1>13, <1>14, <1>15
     DEF McpNext, CallStep
<1> QED BY <1>16 DEF Goal

\* At first there is neither a session nor a slot.
LEMMA McpBegins == ASSUME McpInit PROVE McpInv
<1>1. Kept = {} /\ DOMAIN sessions = {}
  BY DEF McpInit, Kept, Range
<1>2. McpTypeOK
  <2>1. << >> \in Seq(Providers) /\ << >> \in Seq(McpCalls)
    OBVIOUS
  <2> QED BY <2>1 DEF McpInit, McpTypeOK
<1>3. SessionsPlaced
  BY <1>1 DEF McpInit, SessionsPlaced
<1>4. SeatsAccounted
  BY <1>1 DEF McpInit, SeatsAccounted
<1>5. ShotsReleased
  BY <1>1 DEF ShotsReleased
<1> QED BY <1>2, <1>3, <1>4, <1>5 DEF McpInv

\* Every step keeps the invariant.
LEMMA McpKeeps == ASSUME McpInv, [McpNext]_mcpVars PROVE McpInv'
<1>1. CASE McpNext
  BY <1>1, McpTypesStay, McpStepKeepsSeats DEF McpInv
<1>2. CASE UNCHANGED mcpVars
  <2>1. UNCHANGED <<tool, sessions, onRoute, giving, seats>> /\ CallsGoOn
    BY <1>2 DEF mcpVars, CallsGoOn
  <2>2. McpTypeOK'
    BY <1>2 DEF mcpVars, McpInv, McpTypeOK, Providers, Walkers, Shutdown
  <2> QED BY <2>1, <2>2, QuietKeepsSeats DEF McpInv
<1> QED BY <1>1, <1>2

\* A slot is held by the sessions that are there and by nothing else, for any calls,
\* providers and limits: releaseSession runs once for each session (sessions.ts), whoever
\* reaps, closes or shuts down.
THEOREM SeatsAreFollowed == McpSpec => []SeatsFollowSessions
<1>1. McpInit => McpInv
  BY McpBegins
<1>2. McpInv /\ [McpNext]_mcpVars => McpInv'
  BY McpKeeps
<1>3. McpInv => SeatsFollowSessions
  <2> SUFFICES ASSUME McpInv PROVE ShotsLeaveNothing
    BY DEF McpInv, SeatsFollowSessions
  <2>1. ASSUME NEW c \in McpCalls, tool[c] = "shot", call[c] = "answered", NEW p \in Providers
        PROVE  c \notin seats[p] \/ c \in giving
    BY <2>1 DEF McpInv, ShotsReleased, SeatsAccounted
  <2> QED BY <2>1 DEF ShotsLeaveNothing
<1> QED BY <1>1, <1>2, <1>3, PTL DEF McpSpec

----------------------------------------------------------------------------
(* The tabs of an agent session *)

\* What a call of the session can be doing.
TabCalls ==
  [step : {"none", "using", "creating", "attaching", "shutting"}, tab : Targets \cup {NoTab}, opens : BOOLEAN]

AgentTypes ==
  /\ adopts \in BOOLEAN /\ agentClosed \in BOOLEAN /\ activeTab \in Targets \cup {NoTab}
  /\ tabs \in Seq(Targets) /\ closing \in Seq(Targets)
  /\ page \in [Targets -> {"unopened", "open", "gone"}]
  /\ agentCall \in [AgentCalls -> TabCalls]
  /\ adopting \subseteq Targets /\ unheard \subseteq Targets
  /\ \A c \in AgentCalls : agentCall[c].step \in {"using", "attaching", "shutting"} => agentCall[c].tab \in Targets

\* Every open page is accounted for, before the session closes as well, and while it does.
OpenPagesKnown ==
  \A t \in Targets : page[t] = "open" =>
    \/ t \in unheard \cup adopting \cup Listed \cup Range(closing)
    \/ \E c \in AgentCalls : agentCall[c].tab = t /\ agentCall[c].step \in {"attaching", "shutting"}

\* close() has something to close only once it was called; only a session that adopts
\* popups is adopting one.
CloseAndAdopt == (~agentClosed => closing = <<>>) /\ (adopting # {} => adopts)

AgentInv == AgentTypes /\ OpenPagesKnown /\ CloseAndAdopt /\ ActiveTabIsListed

\* A tab that leaves the list leaves the others, and the active one with them.
LEMMA UnlistingKeeps ==
  ASSUME AgentTypes, ActiveTabIsListed, NEW t \in Targets, Unlist(t)
  PROVE  /\ tabs' \in Seq(Targets) /\ activeTab' \in Targets \cup {NoTab}
         /\ Range(tabs') \subseteq Listed /\ Listed \ {t} \subseteq Range(tabs')
         /\ activeTab' # NoTab => activeTab' \in Range(tabs')
         /\ (tabs' # <<>> /\ activeTab' = NoTab) => adopts
<1>1. /\ tabs' \in Seq(Targets) /\ Range(tabs') \subseteq Listed /\ Listed \ {t} \subseteq Range(tabs')
      /\ t \notin Listed => tabs' = tabs
  <2>1. CASE t \notin Listed
    BY <2>1 DEF Unlist, AgentTypes, Listed
  <2>2. CASE t \in Listed
    <3>1. PICK i \in DOMAIN tabs : tabs[i] = t /\ tabs' = RemoveAt(tabs, i)
      BY <2>2 DEF Unlist
    <3>2. /\ RemoveAt(tabs, i) \in Seq(Targets)
          /\ Range(RemoveAt(tabs, i)) \subseteq Range(tabs)
          /\ Range(tabs) \ {tabs[i]} \subseteq Range(RemoveAt(tabs, i))
      BY RemovesOne DEF AgentTypes
    <3> QED BY <2>2, <3>1, <3>2 DEF Listed
  <2> QED BY <2>1, <2>2
<1>2. Len(tabs') \in Nat /\ DOMAIN tabs' = 1..Len(tabs') /\ (tabs' # <<>> => Len(tabs') # 0)
      /\ \A i \in 1..Len(tabs') : tabs'[i] \in Targets
  BY <1>1, LenProperties, EmptySeq, ElementOfSeq
<1>3. tabs' # <<>> => tabs'[1] \in Range(tabs') /\ tabs'[1] \in Targets
  BY <1>2 DEF Range
<1>4. activeTab' = IF activeTab = t THEN (IF tabs' = <<>> THEN NoTab ELSE tabs'[1]) ELSE activeTab
  BY DEF Unlist, FirstOf
<1>5. CASE activeTab = t
  BY <1>1, <1>3, <1>4, <1>5, AgentAssumption
<1>6. CASE activeTab # t
  <2>1. activeTab' = activeTab
    BY <1>4, <1>6
  <2>2. (tabs' # <<>> /\ activeTab = NoTab) => tabs # <<>>
    <3>1. tabs = <<>> => Listed = {}
      BY DEF Listed, Range
    <3> QED BY <1>1, <1>3, <3>1
  <2> QED BY <1>1, <1>6, <2>1, <2>2 DEF ActiveTabIsListed, AgentTypes
<1> QED BY <1>5, <1>6, <1>1

\* A new tab is listed with the others.
LEMMA RegisteringKeeps ==
  ASSUME AgentTypes, NEW t \in Targets, Register(t)
  PROVE  tabs' \in Seq(Targets) /\ Range(tabs') = Listed \cup {t} /\ tabs' # <<>>
<1>1. tabs \in Seq(Targets) /\ tabs' = Append(tabs, t)
  BY DEF AgentTypes, Register
<1>2. tabs' \in Seq(Targets) /\ Range(tabs') = Range(tabs) \cup {t}
  BY <1>1, AppendsOne
<1>3. tabs' # <<>>
  <2>1. Range(<< >>) = {}
    BY DEF Range
  <2> QED BY <1>2, <2>1
<1> QED BY <1>2, <1>3 DEF Listed

\* How a step may change what each call does, and what stays known by that.
LEMMA CallsStayTyped ==
  ASSUME AgentTypes, NEW c \in AgentCalls, NEW next \in TabCalls,
         next.step \in {"using", "attaching", "shutting"} => next.tab \in Targets,
         agentCall' = [agentCall EXCEPT ![c] = next]
  PROVE  /\ agentCall' \in [AgentCalls -> TabCalls]
         /\ \A d \in AgentCalls : agentCall'[d] = IF d = c THEN next ELSE agentCall[d]
         /\ \A d \in AgentCalls :
              agentCall'[d].step \in {"using", "attaching", "shutting"} => agentCall'[d].tab \in Targets
<1>1. \A d \in AgentCalls : agentCall'[d] = IF d = c THEN next ELSE agentCall[d]
  BY DEF AgentTypes
<1> QED BY <1>1 DEF AgentTypes

\* OnTab writes two fields of a call.
LEMMA OnTabIs ==
  ASSUME AgentTypes, NEW c \in AgentCalls, NEW t \in Targets,
         NEW step \in {"using", "attaching", "shutting"}, OnTab(c, step, t)
  PROVE  \E next \in TabCalls : /\ agentCall' = [agentCall EXCEPT ![c] = next]
                                /\ next.step = step /\ next.tab = t
<1>1. agentCall[c] \in TabCalls
  BY DEF AgentTypes
<1>2. [agentCall[c] EXCEPT !.step = step, !.tab = t] \in TabCalls
  BY <1>1 DEF TabCalls
<1>3. agentCall' = [agentCall EXCEPT ![c] = [agentCall[c] EXCEPT !.step = step, !.tab = t]]
  BY DEF OnTab, AgentTypes
<1>4. [agentCall[c] EXCEPT !.step = step, !.tab = t].step = step
      /\ [agentCall[c] EXCEPT !.step = step, !.tab = t].tab = t
  BY <1>1 DEF TabCalls
<1> QED BY <1>2, <1>3, <1>4

\* Some of the calls end.
LEMMA CallsEndingKeeps ==
  ASSUME AgentTypes, NEW S,
         agentCall' = [c \in AgentCalls |-> IF c \in S THEN NoCall ELSE agentCall[c]]
  PROVE  /\ agentCall' \in [AgentCalls -> TabCalls]
         /\ \A d \in AgentCalls : agentCall'[d] = IF d \in S THEN NoCall ELSE agentCall[d]
         /\ \A d \in AgentCalls :
              agentCall'[d].step \in {"using", "attaching", "shutting"} => agentCall'[d].tab \in Targets
<1>1. NoCall \in TabCalls /\ NoCall.step = "none"
  BY DEF NoCall, TabCalls
<1> QED BY <1>1 DEF AgentTypes

\* What a step may do: every page that is open after it was known, or becomes known by it.
LEMMA KnownPagesKeep ==
  ASSUME OpenPagesKnown,
         \A t \in Targets : page'[t] = "open" =>
           \/ t \in unheard' \cup adopting' \cup Range(tabs') \cup Range(closing')
           \/ \E c \in AgentCalls : agentCall'[c].tab = t /\ agentCall'[c].step \in {"attaching", "shutting"}
  PROVE  OpenPagesKnown'
BY DEF OpenPagesKnown, Listed

\* Each step of a call.
LEMMA CallStepsKeepTabs ==
  ASSUME AgentInv, NEW c \in AgentCalls,
         \/ \E t \in Targets : UseTab(c, t) \/ CloseTab(c, t) \/ SelectTab(c, t) \/ BrowserCreates(c, t)
         \/ \E thenUses \in BOOLEAN : BeginOpen(c, thenUses)
         \/ Attached(c) \/ CommandFails(c) \/ CallAnswered(c) \/ CommandTimesOut(c)
  PROVE  AgentInv'
<1>t. AgentTypes /\ OpenPagesKnown /\ CloseAndAdopt /\ ActiveTabIsListed
  BY DEF AgentInv
<1>n. NoCall \in TabCalls /\ NoCall.step = "none"
  BY DEF NoCall, TabCalls
<1>d. Listed = Range(tabs) /\ Listed' = Range(tabs')
  BY DEF Listed
<1>1. ASSUME NEW t \in Targets, UseTab(c, t) PROVE AgentInv'
  <2>1. /\ agentCall[c] = NoCall /\ OnTab(c, "using", t)
        /\ UNCHANGED <<adopts, agentClosed, tabs, activeTab, page, adopting, closing, unheard>>
    BY <1>1 DEF UseTab
  <2>2. PICK next \in TabCalls : agentCall' = [agentCall EXCEPT ![c] = next] /\ next.step = "using" /\ next.tab = t
    BY <1>t, <2>1, OnTabIs
  <2>3. /\ agentCall' \in [AgentCalls -> TabCalls]
        /\ \A d \in AgentCalls : agentCall'[d] = IF d = c THEN next ELSE agentCall[d]
        /\ \A d \in AgentCalls :
             agentCall'[d].step \in {"using", "attaching", "shutting"} => agentCall'[d].tab \in Targets
    BY <1>t, <2>2, CallsStayTyped
  <2>4. AgentTypes' /\ CloseAndAdopt' /\ ActiveTabIsListed'
    BY <1>t, <2>1, <2>3 DEF AgentTypes, CloseAndAdopt, ActiveTabIsListed, Listed
  <2>5. OpenPagesKnown'
    BY <1>n, <1>t, <2>1, <2>3 DEF OpenPagesKnown, Listed
  <2> QED BY <2>4, <2>5 DEF AgentInv
<1>2. ASSUME NEW t \in Targets, CloseTab(c, t) PROVE AgentInv'
  <2>1. /\ agentCall[c] = NoCall /\ Unlist(t) /\ OnTab(c, "shutting", t)
        /\ UNCHANGED <<adopts, agentClosed, page, adopting, closing, unheard>>
    BY <1>2 DEF CloseTab
  <2>2. PICK next \in TabCalls : agentCall' = [agentCall EXCEPT ![c] = next] /\ next.step = "shutting" /\ next.tab = t
    BY <1>t, <2>1, OnTabIs
  <2>3. /\ agentCall' \in [AgentCalls -> TabCalls]
        /\ \A d \in AgentCalls : agentCall'[d] = IF d = c THEN next ELSE agentCall[d]
        /\ \A d \in AgentCalls :
             agentCall'[d].step \in {"using", "attaching", "shutting"} => agentCall'[d].tab \in Targets
    BY <1>t, <2>2, CallsStayTyped
  <2>4. /\ tabs' \in Seq(Targets) /\ activeTab' \in Targets \cup {NoTab}
        /\ Listed \ {t} \subseteq Range(tabs')
        /\ activeTab' # NoTab => activeTab' \in Range(tabs')
        /\ (tabs' # <<>> /\ activeTab' = NoTab) => adopts
    BY <1>t, <2>1, UnlistingKeeps
  <2>5. AgentTypes' /\ CloseAndAdopt' /\ ActiveTabIsListed'
    BY <1>d, <1>t, <2>1, <2>3, <2>4 DEF AgentTypes, CloseAndAdopt, ActiveTabIsListed
  <2>6. agentCall'[c].tab = t /\ agentCall'[c].step = "shutting"
    BY <2>2, <2>3
  <2>7. OpenPagesKnown'
    BY <1>d, <1>n, <1>t, <2>1, <2>3, <2>4, <2>6 DEF OpenPagesKnown
  <2> QED BY <2>5, <2>7 DEF AgentInv
<1>3. ASSUME NEW t \in Targets, SelectTab(c, t) PROVE AgentInv'
  <2>1. /\ agentCall[c] = NoCall /\ t \in Listed /\ activeTab' = t
        /\ agentCall' = [agentCall EXCEPT ![c] = NoCall]
        /\ UNCHANGED <<adopts, agentClosed, tabs, page, adopting, closing, unheard>>
    BY <1>3 DEF SelectTab, Ends
  <2>2. agentCall' = agentCall
    BY <1>t, <2>1 DEF AgentTypes
  <2>3. t # NoTab
    BY AgentAssumption
  <2>4. AgentTypes' /\ CloseAndAdopt' /\ ActiveTabIsListed'
    BY <1>t, <2>1, <2>2, <2>3 DEF AgentTypes, CloseAndAdopt, ActiveTabIsListed, Listed
  <2>5. OpenPagesKnown'
    BY <1>t, <2>1, <2>2 DEF OpenPagesKnown, Listed
  <2> QED BY <2>4, <2>5 DEF AgentInv
<1>4. ASSUME NEW t \in Targets, BrowserCreates(c, t) PROVE AgentInv'
  <2>1. /\ agentCall[c].step = "creating" /\ OnTab(c, "attaching", t)
        /\ page' = [page EXCEPT ![t] = "open"]
        /\ UNCHANGED <<adopts, agentClosed, tabs, activeTab, adopting, closing, unheard>>
    BY <1>4 DEF BrowserCreates
  <2>2. PICK next \in TabCalls : agentCall' = [agentCall EXCEPT ![c] = next] /\ next.step = "attaching" /\ next.tab = t
    BY <1>t, <2>1, OnTabIs
  <2>3. /\ agentCall' \in [AgentCalls -> TabCalls]
        /\ \A d \in AgentCalls : agentCall'[d] = IF d = c THEN next ELSE agentCall[d]
        /\ \A d \in AgentCalls :
             agentCall'[d].step \in {"using", "attaching", "shutting"} => agentCall'[d].tab \in Targets
    BY <1>t, <2>2, CallsStayTyped
  <2>4. /\ page' \in [Targets -> {"unopened", "open", "gone"}]
        /\ \A u \in Targets : page'[u] = IF u = t THEN "open" ELSE page[u]
    BY <1>t, <2>1 DEF AgentTypes
  <2>5. AgentTypes' /\ CloseAndAdopt' /\ ActiveTabIsListed'
    BY <1>t, <2>1, <2>3, <2>4 DEF AgentTypes, CloseAndAdopt, ActiveTabIsListed, Listed
  <2>6. agentCall'[c].tab = t /\ agentCall'[c].step = "attaching"
    BY <2>2, <2>3
  <2>7. OpenPagesKnown'
    BY <1>d, <1>t, <2>1, <2>3, <2>4, <2>6 DEF OpenPagesKnown
  <2> QED BY <2>5, <2>7 DEF AgentInv
<1>5. ASSUME NEW thenUses \in BOOLEAN, BeginOpen(c, thenUses) PROVE AgentInv'
  <2> DEFINE next == [step |-> "creating", tab |-> NoTab, opens |-> ~thenUses]
  <2>1. /\ agentCall[c] = NoCall /\ agentCall' = [agentCall EXCEPT ![c] = next]
        /\ UNCHANGED <<adopts, agentClosed, tabs, activeTab, page, adopting, closing, unheard>>
    BY <1>5 DEF BeginOpen
  <2>2. next \in TabCalls /\ next.step = "creating"
    BY DEF TabCalls
  <2> HIDE DEF next
  <2>3. /\ agentCall' \in [AgentCalls -> TabCalls]
        /\ \A d \in AgentCalls : agentCall'[d] = IF d = c THEN next ELSE agentCall[d]
        /\ \A d \in AgentCalls :
             agentCall'[d].step \in {"using", "attaching", "shutting"} => agentCall'[d].tab \in Targets
    BY <1>t, <2>1, <2>2, CallsStayTyped
  <2>4. AgentTypes' /\ CloseAndAdopt' /\ ActiveTabIsListed'
    BY <1>t, <2>1, <2>3 DEF AgentTypes, CloseAndAdopt, ActiveTabIsListed, Listed
  <2>5. OpenPagesKnown'
    BY <1>n, <1>t, <2>1, <2>3 DEF OpenPagesKnown, Listed
  <2> QED BY <2>4, <2>5 DEF AgentInv
<1>6. ASSUME Attached(c) PROVE AgentInv'
  <2> DEFINE t == agentCall[c].tab
  <2>1. /\ agentCall[c].step = "attaching" /\ t \in Targets /\ Register(t) /\ activeTab' = t
        /\ UNCHANGED <<adopts, agentClosed, page, adopting, closing, unheard>>
    BY <1>6, <1>t DEF Attached, AgentTypes
  <2>2. PICK next \in TabCalls : /\ agentCall' = [agentCall EXCEPT ![c] = next]
                                 /\ next = NoCall \/ (next.step = "using" /\ next.tab = t)
    <3>1. agentCall[c] \in TabCalls
      BY <1>t DEF AgentTypes
    <3>2. CASE agentCall[c].opens
      BY <1>6, <1>n, <3>2 DEF Attached
    <3>3. CASE ~agentCall[c].opens
      <4>1. agentCall' = [agentCall EXCEPT ![c] = [agentCall[c] EXCEPT !.step = "using"]]
        BY <1>6, <1>t, <3>3 DEF Attached, AgentTypes
      <4>2. /\ [agentCall[c] EXCEPT !.step = "using"] \in TabCalls
            /\ [agentCall[c] EXCEPT !.step = "using"].step = "using"
            /\ [agentCall[c] EXCEPT !.step = "using"].tab = agentCall[c].tab
        BY <3>1 DEF TabCalls
      <4> QED BY <4>1, <4>2
    <3> QED BY <3>2, <3>3
  <2> HIDE DEF t
  <2>3. /\ agentCall' \in [AgentCalls -> TabCalls]
        /\ \A d \in AgentCalls : agentCall'[d] = IF d = c THEN next ELSE agentCall[d]
        /\ \A d \in AgentCalls :
             agentCall'[d].step \in {"using", "attaching", "shutting"} => agentCall'[d].tab \in Targets
    <3>1. next.step \in {"using", "attaching", "shutting"} => next.tab \in Targets
      BY <1>n, <2>1, <2>2
    <3> QED BY <1>t, <2>2, <3>1, CallsStayTyped
  <2>4. tabs' \in Seq(Targets) /\ Range(tabs') = Listed \cup {t} /\ tabs' # <<>>
    BY <1>t, <2>1, RegisteringKeeps
  <2>5. t # NoTab
    BY <2>1, AgentAssumption
  <2>6. AgentTypes' /\ CloseAndAdopt' /\ ActiveTabIsListed'
    BY <1>d, <1>t, <2>1, <2>3, <2>4, <2>5 DEF AgentTypes, CloseAndAdopt, ActiveTabIsListed
  <2>7. OpenPagesKnown'
    BY <1>d, <1>t, <2>1, <2>3, <2>4 DEF OpenPagesKnown, t
  <2> QED BY <2>6, <2>7 DEF AgentInv
<1>e. ASSUME Ends(c)
      PROVE  /\ agentCall' \in [AgentCalls -> TabCalls]
             /\ \A d \in AgentCalls : agentCall'[d] = IF d = c THEN NoCall ELSE agentCall[d]
             /\ \A d \in AgentCalls :
                  agentCall'[d].step \in {"using", "attaching", "shutting"} => agentCall'[d].tab \in Targets
  BY <1>e, <1>n, <1>t, CallsStayTyped DEF Ends
<1>7. ASSUME CommandFails(c) \/ CallAnswered(c) PROVE AgentInv'
  <2>1. /\ Ends(c) /\ (agentCall[c].step = "using" \/ page[agentCall[c].tab] = "gone")
        /\ UNCHANGED <<adopts, agentClosed, tabs, activeTab, page, adopting, closing, unheard>>
    BY <1>7 DEF CommandFails, CallAnswered
  <2>2. AgentTypes' /\ CloseAndAdopt' /\ ActiveTabIsListed'
    BY <1>e, <1>t, <2>1 DEF AgentTypes, CloseAndAdopt, ActiveTabIsListed, Listed
  <2>3. OpenPagesKnown'
    BY <1>d, <1>e, <1>t, <2>1 DEF OpenPagesKnown
  <2> QED BY <2>2, <2>3 DEF AgentInv
<1>8. ASSUME CommandTimesOut(c) PROVE AgentInv'
  <2>1. /\ Ends(c)
        /\ unheard' = IF agentCall[c].step \in {"attaching", "shutting"} THEN unheard \cup {agentCall[c].tab} ELSE unheard
        /\ UNCHANGED <<adopts, agentClosed, tabs, activeTab, page, adopting, closing>>
    BY <1>8 DEF CommandTimesOut
  <2>2. unheard' \subseteq Targets
    BY <1>t, <2>1 DEF AgentTypes
  <2>3. AgentTypes' /\ CloseAndAdopt' /\ ActiveTabIsListed'
    BY <1>e, <1>t, <2>1, <2>2 DEF AgentTypes, CloseAndAdopt, ActiveTabIsListed, Listed
  <2>4. OpenPagesKnown'
    BY <1>d, <1>e, <1>t, <2>1 DEF OpenPagesKnown
  <2> QED BY <2>3, <2>4 DEF AgentInv
<1> QED BY <1>1, <1>2, <1>3, <1>4, <1>5, <1>6, <1>7, <1>8

\* Each doing of the browser.
LEMMA BrowserKeepsTabs ==
  ASSUME AgentInv, NEW t \in Targets,
         \/ CreatedLate(t) \/ TargetCloses(t) \/ Adopted(t) \/ AdoptionFails(t)
         \/ \E opener \in Targets : PopsUp(opener, t)
  PROVE  AgentInv'
<1>t. AgentTypes /\ OpenPagesKnown /\ CloseAndAdopt /\ ActiveTabIsListed
  BY DEF AgentInv
<1>n. NoCall \in TabCalls /\ NoCall.step = "none"
  BY DEF NoCall, TabCalls
<1>d. Listed = Range(tabs) /\ Listed' = Range(tabs')
  BY DEF Listed
<1>p. ASSUME NEW state \in {"open", "gone"}, page' = [page EXCEPT ![t] = state]
      PROVE  /\ page' \in [Targets -> {"unopened", "open", "gone"}]
             /\ \A u \in Targets : page'[u] = IF u = t THEN state ELSE page[u]
  BY <1>p, <1>t DEF AgentTypes
<1>1. CASE CreatedLate(t)
  <2>1. /\ page' = [page EXCEPT ![t] = "open"] /\ unheard' = unheard \cup {t}
        /\ UNCHANGED <<adopts, agentClosed, tabs, activeTab, agentCall, adopting, closing>>
    BY <1>1 DEF CreatedLate
  <2>2. AgentTypes' /\ CloseAndAdopt' /\ ActiveTabIsListed'
    BY <1>p, <1>t, <2>1 DEF AgentTypes, CloseAndAdopt, ActiveTabIsListed, Listed
  <2>3. OpenPagesKnown'
    BY <1>d, <1>p, <1>t, <2>1 DEF OpenPagesKnown
  <2> QED BY <2>2, <2>3 DEF AgentInv
<1>2. CASE TargetCloses(t)
  <2> DEFINE S == {c \in AgentCalls : agentCall[c].tab = t /\ agentCall[c].step \in {"using", "shutting"}}
  <2>1. /\ page' = [page EXCEPT ![t] = "gone"] /\ Unlist(t)
        /\ agentCall' = [c \in AgentCalls |->
             IF agentCall[c].tab = t /\ agentCall[c].step \in {"using", "shutting"} THEN NoCall ELSE agentCall[c]]
        /\ UNCHANGED <<adopts, agentClosed, adopting, closing, unheard>>
    BY <1>2 DEF TargetCloses, TargetGone
  <2>2. agentCall' = [c \in AgentCalls |-> IF c \in S THEN NoCall ELSE agentCall[c]]
    BY <2>1
  <2>3. /\ agentCall' \in [AgentCalls -> TabCalls]
        /\ \A d \in AgentCalls : agentCall'[d] = IF d \in S THEN NoCall ELSE agentCall[d]
        /\ \A d \in AgentCalls :
             agentCall'[d].step \in {"using", "attaching", "shutting"} => agentCall'[d].tab \in Targets
    BY <1>t, <2>2, CallsEndingKeeps
  <2>4. /\ tabs' \in Seq(Targets) /\ activeTab' \in Targets \cup {NoTab}
        /\ Listed \ {t} \subseteq Range(tabs')
        /\ activeTab' # NoTab => activeTab' \in Range(tabs')
        /\ (tabs' # <<>> /\ activeTab' = NoTab) => adopts
    BY <1>t, <2>1, UnlistingKeeps
  <2>5. AgentTypes' /\ CloseAndAdopt' /\ ActiveTabIsListed'
    BY <1>d, <1>p, <1>t, <2>1, <2>3, <2>4 DEF AgentTypes, CloseAndAdopt, ActiveTabIsListed
  <2>6. \A u \in Targets : page'[u] = "open" => u # t /\ page[u] = "open"
    BY <1>p, <2>1
  <2>7. OpenPagesKnown'
    BY <1>d, <1>t, <2>1, <2>3, <2>4, <2>6 DEF OpenPagesKnown
  <2> QED BY <2>5, <2>7 DEF AgentInv
<1>3. CASE Adopted(t)
  <2>1. /\ t \in adopting /\ adopting' = adopting \ {t} /\ Register(t)
        /\ UNCHANGED <<activeTab, adopts, agentClosed, page, agentCall, closing, unheard>>
    BY <1>3 DEF Adopted
  <2>2. tabs' \in Seq(Targets) /\ Range(tabs') = Listed \cup {t}
    BY <1>t, <2>1, RegisteringKeeps
  <2>3. AgentTypes' /\ CloseAndAdopt' /\ ActiveTabIsListed'
    BY <1>d, <1>t, <2>1, <2>2 DEF AgentTypes, CloseAndAdopt, ActiveTabIsListed
  <2>4. OpenPagesKnown'
    BY <1>d, <1>t, <2>1, <2>2 DEF OpenPagesKnown
  <2> QED BY <2>3, <2>4 DEF AgentInv
<1>4. CASE AdoptionFails(t)
  <2>1. /\ adopting' = adopting \ {t} /\ unheard' = unheard \cup {t}
        /\ UNCHANGED <<adopts, agentClosed, tabs, activeTab, page, agentCall, closing>>
    BY <1>4 DEF AdoptionFails
  <2>2. AgentTypes' /\ CloseAndAdopt' /\ ActiveTabIsListed'
    BY <1>t, <2>1 DEF AgentTypes, CloseAndAdopt, ActiveTabIsListed, Listed
  <2>3. OpenPagesKnown'
    BY <1>d, <1>t, <2>1 DEF OpenPagesKnown
  <2> QED BY <2>2, <2>3 DEF AgentInv
<1>5. ASSUME NEW opener \in Targets, PopsUp(opener, t) PROVE AgentInv'
  <2>1. /\ page' = [page EXCEPT ![t] = "open"]
        /\ \/ adopts /\ adopting' = adopting \cup {t} /\ unheard' = unheard
           \/ adopting' = adopting /\ unheard' = unheard \cup {t}
        /\ UNCHANGED <<adopts, agentClosed, tabs, activeTab, agentCall, closing>>
    BY <1>5 DEF PopsUp
  <2>2. AgentTypes' /\ CloseAndAdopt' /\ ActiveTabIsListed'
    BY <1>p, <1>t, <2>1 DEF AgentTypes, CloseAndAdopt, ActiveTabIsListed, Listed
  <2>3. OpenPagesKnown'
    BY <1>d, <1>p, <1>t, <2>1 DEF OpenPagesKnown
  <2> QED BY <2>2, <2>3 DEF AgentInv
<1> QED BY <1>1, <1>2, <1>3, <1>4, <1>5

\* The end of the session, and of its connection.
LEMMA EndKeepsTabs ==
  ASSUME AgentInv, Release \/ TimePasses \/ Expire \/ ClosesNext \/ LinkEnds
  PROVE  AgentInv'
<1>t. AgentTypes /\ OpenPagesKnown /\ CloseAndAdopt /\ ActiveTabIsListed
  BY DEF AgentInv
<1>n. NoCall \in TabCalls /\ NoCall.step = "none"
  BY DEF NoCall, TabCalls
<1>d. Listed = Range(tabs) /\ Listed' = Range(tabs')
  BY DEF Listed
<1>1. CASE Release \/ Expire
  <2>1. /\ ~agentClosed /\ agentClosed' = TRUE /\ closing' = tabs /\ tabs' = <<>> /\ activeTab' = NoTab
        /\ UNCHANGED <<adopts, page, agentCall, adopting, unheard>>
    BY <1>1 DEF Release, Expire, CloseSession
  <2>2. closing = <<>> /\ Range(closing) = {} /\ Range(closing') = Listed
    BY <1>t, <2>1 DEF CloseAndAdopt, Range, Listed
  <2>3. AgentTypes' /\ CloseAndAdopt' /\ ActiveTabIsListed'
    BY <1>t, <2>1 DEF AgentTypes, CloseAndAdopt, ActiveTabIsListed
  <2>4. OpenPagesKnown'
    BY <1>t, <2>1, <2>2 DEF OpenPagesKnown
  <2> QED BY <2>3, <2>4 DEF AgentInv
<1>2. CASE TimePasses
  <2>1. UNCHANGED <<adopts, agentClosed, tabs, activeTab, page, agentCall, adopting, closing, unheard>>
    BY <1>2 DEF TimePasses
  <2> QED BY <1>t, <2>1
  DEF AgentInv, AgentTypes, OpenPagesKnown, CloseAndAdopt, ActiveTabIsListed, Listed
<1>3. CASE ClosesNext
  <2> DEFINE S == {c \in AgentCalls : agentCall[c].tab = closing[1] /\ agentCall[c].step = "using"
                                      /\ page'[closing[1]] = "gone"}
  <2>1. /\ closing # <<>> /\ closing' = Tail(closing)
        /\ \/ page' = [page EXCEPT ![closing[1]] = "gone"] /\ unheard' = unheard
           \/ unheard' = unheard \cup {closing[1]} /\ page' = page
        /\ agentCall' = [c \in AgentCalls |->
             IF agentCall[c].tab = closing[1] /\ agentCall[c].step = "using" /\ page'[closing[1]] = "gone"
             THEN NoCall ELSE agentCall[c]]
        /\ UNCHANGED <<adopts, agentClosed, tabs, activeTab, adopting>>
    BY <1>3 DEF ClosesNext
  <2>2. agentCall' = [c \in AgentCalls |-> IF c \in S THEN NoCall ELSE agentCall[c]]
    BY <2>1
  <2>3. /\ agentCall' \in [AgentCalls -> TabCalls]
        /\ \A d \in AgentCalls : agentCall'[d] = IF d \in S THEN NoCall ELSE agentCall[d]
        /\ \A d \in AgentCalls :
             agentCall'[d].step \in {"using", "attaching", "shutting"} => agentCall'[d].tab \in Targets
    BY <1>t, <2>2, CallsEndingKeeps
  <2>4. PICK t : t = closing[1]
    OBVIOUS
  <2>5. closing' \in Seq(Targets) /\ Range(closing) = {t} \cup Range(closing') /\ t \in Targets
    <3>1. closing \in Seq(Targets) /\ Len(closing) \in Nat /\ DOMAIN closing = 1..Len(closing) /\ Len(closing) # 0
          /\ \A i \in 1..Len(closing) : closing[i] \in Targets
      BY <1>t, <2>1, LenProperties, EmptySeq, ElementOfSeq DEF AgentTypes
    <3>2. /\ Tail(closing) \in Seq(Targets) /\ Len(Tail(closing)) = Len(closing) - 1
          /\ \A i \in 1..Len(Tail(closing)) : Tail(closing)[i] = closing[i + 1]
      BY <2>1, <3>1, HeadTailProperties
    <3>3. DOMAIN closing' = 1..(Len(closing) - 1) /\ \A i \in 1..(Len(closing) - 1) : closing'[i] = closing[i + 1]
      BY <2>1, <3>2, LenProperties
    <3>4. Range(closing') \subseteq Range(closing)
      BY <3>1, <3>3 DEF Range
    <3>5. ASSUME NEW i \in 1..Len(closing), i # 1 PROVE closing[i] \in Range(closing')
      <4>1. i - 1 \in 1..(Len(closing) - 1) /\ closing'[i - 1] = closing[i]
        BY <3>1, <3>3, <3>5
      <4> QED BY <3>3, <4>1 DEF Range
    <3>6. t \in Range(closing) /\ t \in Targets
      BY <2>4, <3>1 DEF Range
    <3>7. Range(closing) \subseteq {t} \cup Range(closing')
      BY <2>4, <3>1, <3>5 DEF Range
    <3> QED BY <2>1, <3>2, <3>4, <3>6, <3>7
  <2>6. /\ page' \in [Targets -> {"unopened", "open", "gone"}] /\ unheard' \subseteq Targets
        /\ unheard \subseteq unheard'
        /\ \A u \in Targets : page'[u] = "open" => page[u] = "open" /\ (u # t \/ u \in unheard')
    BY <1>t, <2>1, <2>4, <2>5 DEF AgentTypes
  <2>7. agentClosed
    BY <1>t, <2>1 DEF CloseAndAdopt
  <2>8. AgentTypes' /\ CloseAndAdopt' /\ ActiveTabIsListed'
    BY <1>t, <2>1, <2>3, <2>5, <2>6, <2>7 DEF AgentTypes, CloseAndAdopt, ActiveTabIsListed, Listed
  <2>9. \A d \in AgentCalls : agentCall[d].step \in {"attaching", "shutting"} => agentCall'[d] = agentCall[d]
    BY <2>3
  <2>10. OpenPagesKnown'
    BY <1>d, <1>t, <2>1, <2>5, <2>6, <2>9 DEF OpenPagesKnown
  <2> QED BY <2>8, <2>10 DEF AgentInv
<1>4. CASE LinkEnds
  <2>1. /\ page' = [t \in Targets |-> IF page[t] = "open" THEN "gone" ELSE page[t]]
        /\ agentCall' = [c \in AgentCalls |-> NoCall]
        /\ UNCHANGED <<adopts, agentClosed, tabs, activeTab, adopting, closing, unheard>>
    BY <1>4 DEF LinkEnds
  <2>2. AgentTypes' /\ CloseAndAdopt' /\ ActiveTabIsListed'
    BY <1>n, <1>t, <2>1 DEF AgentTypes, CloseAndAdopt, ActiveTabIsListed, Listed
  <2>3. OpenPagesKnown'
    BY <2>1 DEF OpenPagesKnown
  <2> QED BY <2>2, <2>3 DEF AgentInv
<1> QED BY <1>1, <1>2, <1>3, <1>4

\* At first there is no tab.
LEMMA AgentBegins == ASSUME AgentInit PROVE AgentInv
<1>1. << >> \in Seq(Targets) /\ Range(<< >>) = {}
  BY DEF Range
<1>2. NoCall \in TabCalls /\ NoCall.step = "none"
  BY DEF NoCall, TabCalls
<1>3. AgentTypes
  BY <1>1, <1>2 DEF AgentInit, AgentTypes
<1> QED BY <1>3 DEF AgentInit, AgentInv, OpenPagesKnown, CloseAndAdopt, ActiveTabIsListed

\* However calls, popups, timers and the end of the session cross: its list is true to the
\* browser, and close() forgets no tab it could know of (session.ts).
THEOREM TabsStayKept == AgentSpec => []TabsAreKept
<1>1. AgentInit => AgentInv
  BY AgentBegins
<1>2. AgentInv /\ [AgentNext]_agentVars => AgentInv'
  <2> SUFFICES ASSUME AgentInv, [AgentNext]_agentVars PROVE AgentInv'
    OBVIOUS
  <2>1. CASE AgentNext
    BY <2>1, CallStepsKeepTabs, BrowserKeepsTabs, EndKeepsTabs DEF AgentNext
  <2>2. CASE UNCHANGED agentVars
    BY <2>2
    DEF agentVars, AgentInv, AgentTypes, OpenPagesKnown, CloseAndAdopt, ActiveTabIsListed, Listed
  <2> QED BY <2>1, <2>2
<1>3. AgentInv => TabsAreKept
  <2> SUFFICES ASSUME AgentInv PROVE ClosedLeavesNone
    BY DEF AgentInv, TabsAreKept
  <2>1. closing = <<>> => Range(closing) = {}
    BY DEF Range
  <2> QED BY <2>1 DEF AgentInv, OpenPagesKnown, ClosedLeavesNone
<1> QED BY <1>1, <1>2, <1>3, PTL DEF AgentSpec

----------------------------------------------------------------------------
(* The page runner *)

Methods == {"setup", "navigate", "look", "locate", "act"}

RunnerTypes ==
  /\ wants \in [Runs -> Options]
  /\ at \in [Runs -> {"new", "loading", "pausing", "acting", "ended"} \cup Methods]
  /\ settled \in [Runs -> {"no", "ok"} \cup Failures]
  /\ calls \subseteq [of : Runs, method : Methods]
  /\ aborted \subseteq Runs /\ responding \subseteq Runs /\ waiting \subseteq Runs /\ racing \subseteq Runs

\* A handler and a timer belong to a run that is where it needs them; a command that is
\* not answered is the one its run awaits, or an action it gave up on.
RunnerBusy ==
  /\ \A r \in responding : at[r] \in {"navigate", "loading"}
  /\ \A r \in waiting : at[r] = "loading" /\ settled[r] = "no"
  /\ \A r \in racing : at[r] = "acting"
  /\ \A sent \in calls :
       IF sent.method = "act" THEN at[sent.of] \in {"acting", "ended"}
                              ELSE at[sent.of] = sent.method /\ settled[sent.of] = "no"

RunnerInv == RunnerTypes /\ RunnerBusy

\* The steps of the code of a run that send nothing and hold nothing.
LEMMA EndKeepsBusy ==
  ASSUME RunnerInv, NEW r \in Runs, NEW how, EndsRun(r, how), Steps(r),
         r \notin waiting, \A sent \in calls : sent.of = r => sent.method = "act"
  PROVE  RunnerInv'
<1>1. /\ at' = [at EXCEPT ![r] = "ended"] /\ settled' = [settled EXCEPT ![r] = "no"]
      /\ responding' = responding \ {r} /\ racing' = racing \ {r}
      /\ UNCHANGED <<waiting, calls, wants, aborted>>
  BY DEF EndsRun, Steps, LetGo
<1>2. RunnerTypes'
  BY <1>1 DEF RunnerInv, RunnerTypes
<1>3. \A q \in Runs : at'[q] = (IF q = r THEN "ended" ELSE at[q]) /\ (q # r => settled'[q] = settled[q])
  BY <1>1 DEF RunnerInv, RunnerTypes
<1>4. ASSUME NEW sent \in calls' PROVE IF sent.method = "act" THEN at'[sent.of] \in {"acting", "ended"}
                                       ELSE at'[sent.of] = sent.method /\ settled'[sent.of] = "no"
  <2>1. sent \in calls /\ sent.of \in Runs
    BY <1>1, <1>4 DEF RunnerInv, RunnerTypes
  <2>2. CASE sent.of = r
    BY <1>3, <2>1, <2>2
  <2>3. CASE sent.of # r
    BY <1>3, <2>1, <2>3 DEF RunnerInv, RunnerBusy
  <2> QED BY <2>2, <2>3
<1>5. RunnerBusy'
  BY <1>1, <1>3, <1>4 DEF RunnerInv, RunnerTypes, RunnerBusy
<1> QED BY <1>2, <1>5 DEF RunnerInv

\* A command is sent when none of the run is under way.
LEMMA SendKeepsBusy ==
  ASSUME RunnerInv, NEW r \in Runs, NEW method \in Methods, Send(r, method), Steps(r),
         at' = [at EXCEPT ![r] = IF method = "act" THEN "acting" ELSE method],
         \A sent \in calls : sent.of # r,
         r \notin waiting \cup racing,
         waiting' = waiting,
         racing' = racing \/ (method = "act" /\ racing' = racing \cup {r}),
         responding' = responding \ {r} \/ (method = "navigate" /\ responding' = responding \cup {r})
  PROVE  RunnerInv'
<1> DEFINE new == [of |-> r, method |-> method]
           spot == IF method = "act" THEN "acting" ELSE method
<1>1. /\ calls' \subseteq calls \cup {new} /\ (new \in calls' => settled'[r] = "no")
      /\ settled' \in [Runs -> {"no", "ok"} \cup Failures]
      /\ \A q \in Runs : q # r => settled'[q] = settled[q]
  <2>0. settled \in [Runs -> {"no", "ok"} \cup Failures] /\ "closed" \in Failures /\ new \notin calls
    BY DEF RunnerInv, RunnerTypes, Failures
  <2>1. CASE open
    BY <2>0, <2>1 DEF Send
  <2>2. CASE ~open
    BY <2>0, <2>2 DEF Send
  <2> QED BY <2>1, <2>2
<1>2. \A q \in Runs : at'[q] = IF q = r THEN spot ELSE at[q]
  BY DEF RunnerInv, RunnerTypes
<1>3. at' \in [Runs -> {"new", "loading", "pausing", "acting", "ended"} \cup Methods]
  BY DEF RunnerInv, RunnerTypes
<1>4. RunnerTypes'
  BY <1>1, <1>3 DEF RunnerInv, RunnerTypes, Steps
<1>5. \A q \in responding' : at'[q] \in {"navigate", "loading"}
  BY <1>2 DEF RunnerInv, RunnerTypes, RunnerBusy
<1>6. \A q \in waiting' : at'[q] = "loading" /\ settled'[q] = "no"
  BY <1>1, <1>2 DEF RunnerInv, RunnerTypes, RunnerBusy
<1>7. \A q \in racing' : at'[q] = "acting"
  BY <1>2 DEF RunnerInv, RunnerTypes, RunnerBusy
<1>8. ASSUME NEW sent \in calls' PROVE IF sent.method = "act" THEN at'[sent.of] \in {"acting", "ended"}
                                       ELSE at'[sent.of] = sent.method /\ settled'[sent.of] = "no"
  <2>1. CASE sent = new
    <3>1. sent.of = r /\ sent.method = method
      BY <2>1
    <3> QED BY <1>1, <1>2, <1>8, <2>1, <3>1
  <2>2. CASE sent \in calls
    <3>1. sent.of \in Runs /\ sent.of # r
      BY <2>2 DEF RunnerInv, RunnerTypes
    <3> QED BY <1>1, <1>2, <2>2, <3>1 DEF RunnerInv, RunnerBusy
  <2> QED BY <1>1, <1>8, <2>1, <2>2
<1>9. RunnerBusy'
  BY <1>5, <1>6, <1>7, <1>8 DEF RunnerBusy
<1> QED BY <1>4, <1>9 DEF RunnerInv

\* Where a run goes on, none of its commands is under way but an action, and its wait is over.
LEMMA GoingOnIsIdle ==
  ASSUME RunnerInv, NEW r \in Runs
  PROVE  /\ settled[r] # "no" => r \notin waiting
         /\ at[r] # "loading" => r \notin waiting
         /\ at[r] # "acting" => r \notin racing
         /\ at[r] \notin {"navigate", "loading"} => r \notin responding
         /\ (settled[r] # "no" \/ at[r] \in {"new", "pausing", "loading", "acting", "ended"}) =>
              \A sent \in calls : sent.of = r => sent.method = "act" /\ at[r] \in {"acting", "ended"}
<1>1. \A sent \in calls : sent.method \in Methods
  BY DEF RunnerInv, RunnerTypes
<1> QED BY <1>1 DEF RunnerInv, RunnerBusy, Methods

\* Every step of the code of a run.
LEMMA ContinuingKeepsBusy ==
  ASSUME RunnerInv, NEW r \in Runs, Continues(r)
  PROVE  RunnerInv'
<1>t. RunnerTypes
  BY DEF RunnerInv
<1>f. "no" \notin Failures /\ "ok" \notin Failures
  BY DEF Failures
<1>g. /\ settled[r] # "no" => r \notin waiting
      /\ at[r] # "loading" => r \notin waiting
      /\ at[r] # "acting" => r \notin racing
      /\ at[r] \notin {"navigate", "loading"} => r \notin responding
      /\ (settled[r] # "no" \/ at[r] \in {"new", "pausing", "loading", "acting", "ended"}) =>
           \A sent \in calls : sent.of = r => sent.method = "act" /\ at[r] \in {"acting", "ended"}
  BY GoingOnIsIdle
<1>e. ASSUME NEW how, EndsRun(r, how), Steps(r), settled[r] # "no" \/ at[r] \in {"new", "pausing"}
      PROVE  RunnerInv'
  <2>1. r \notin waiting /\ \A sent \in calls : sent.of = r => sent.method = "act"
    BY <1>e, <1>g
  <2> QED BY <1>e, <2>1, EndKeepsBusy
<1>n. Navigated(r) => settled[r] # "no" /\ at[r] \in {"navigate", "loading"}
  BY <1>f DEF Navigated, Passed
<1>1. CASE Leaves(r)
  <2>1. settled[r] # "no" \/ at[r] \in {"new", "pausing"}
    BY <1>1, <1>n DEF Leaves, Checked, Passed
  <2> QED BY <1>1, <1>e, <2>1 DEF Leaves
<1>2. CASE Opens(r)
  <2>1. /\ at[r] = "new" /\ Send(r, "setup") /\ Steps(r) /\ at' = [at EXCEPT ![r] = "setup"]
        /\ UNCHANGED <<racing, responding, waiting>>
    BY <1>2 DEF Opens, GoesOn
  <2>2. (\A sent \in calls : sent.of # r) /\ r \notin waiting \cup racing /\ responding' = responding \ {r}
    BY <1>g, <2>1
  <2>3. RunnerInv'
    BY <2>1, <2>2, SendKeepsBusy DEF Methods
  <2> QED BY <2>3
<1>3. CASE Navigates(r)
  <2>1. /\ at[r] = "setup" /\ settled[r] = "ok" /\ Send(r, "navigate") /\ Steps(r)
        /\ at' = [at EXCEPT ![r] = "navigate"]
        /\ UNCHANGED <<racing, waiting>> /\ responding' = responding \cup {r}
    BY <1>3 DEF Navigates, GoesOn, Passed
  <2>2. (\A sent \in calls : sent.of # r) /\ r \notin waiting \cup racing
    BY <1>g, <2>1
  <2>3. RunnerInv'
    BY <2>1, <2>2, SendKeepsBusy DEF Methods
  <2> QED BY <2>3
<1>4. CASE WaitsForLoad(r)
  <2>1. /\ at[r] = "navigate" /\ settled[r] = "ok" /\ at' = [at EXCEPT ![r] = "loading"]
        /\ waiting' = (IF r \in aborted THEN waiting ELSE waiting \cup {r})
        /\ settled' = [settled EXCEPT ![r] = IF r \in aborted THEN "fault" ELSE "no"]
        /\ UNCHANGED <<racing, responding, calls, wants, aborted>>
    BY <1>4 DEF WaitsForLoad, Passed, GoesOn, Steps
  <2>2. (\A sent \in calls : sent.of # r) /\ r \notin waiting \cup racing
    BY <1>g, <2>1
  <2>3. RunnerTypes'
    BY <1>t, <2>1 DEF RunnerTypes, Failures
  <2>4. /\ \A q \in Runs : at'[q] = IF q = r THEN "loading" ELSE at[q]
        /\ \A q \in Runs : settled'[q] = IF q = r THEN (IF r \in aborted THEN "fault" ELSE "no") ELSE settled[q]
    BY <1>t, <2>1 DEF RunnerTypes
  <2>5. RunnerBusy'
    <3>1. \A q \in responding' : at'[q] \in {"navigate", "loading"}
      BY <1>t, <2>1, <2>4 DEF RunnerTypes, RunnerInv, RunnerBusy
    <3>2. \A q \in waiting' : at'[q] = "loading" /\ settled'[q] = "no"
      BY <1>t, <2>1, <2>2, <2>4 DEF RunnerTypes, RunnerInv, RunnerBusy
    <3>3. \A q \in racing' : at'[q] = "acting"
      BY <1>t, <2>1, <2>2, <2>4 DEF RunnerTypes, RunnerInv, RunnerBusy
    <3>4. \A sent \in calls' : /\ sent.of \in Runs /\ sent.of # r /\ sent \in calls
      BY <1>t, <2>1, <2>2 DEF RunnerTypes
    <3> QED BY <2>4, <3>1, <3>2, <3>3, <3>4 DEF RunnerInv, RunnerBusy
  <2> QED BY <2>3, <2>5 DEF RunnerInv
<1>5. CASE AfterNavigation(r)
  <2>1. /\ Navigated(r) /\ Steps(r) /\ UNCHANGED <<racing, waiting>> /\ responding' = responding \ {r}
        /\ \/ Send(r, "look") /\ at' = [at EXCEPT ![r] = "look"]
           \/ Send(r, "locate") /\ at' = [at EXCEPT ![r] = "locate"]
    <3>1. CASE wants[r].selector
      BY <1>5, <3>1 DEF AfterNavigation, GoesOn, LetGo
    <3>2. CASE ~wants[r].selector
      BY <1>5, <3>2 DEF AfterNavigation, GoesOn, LetGo
    <3> QED BY <3>1, <3>2
  <2>2. (\A sent \in calls : sent.of # r) /\ r \notin waiting \cup racing
    BY <1>g, <1>n, <2>1
  <2>3. CASE Send(r, "look") /\ at' = [at EXCEPT ![r] = "look"]
    BY <2>1, <2>2, <2>3, SendKeepsBusy DEF Methods
  <2>4. CASE Send(r, "locate") /\ at' = [at EXCEPT ![r] = "locate"]
    BY <2>1, <2>2, <2>4, SendKeepsBusy DEF Methods
  <2> QED BY <2>1, <2>3, <2>4
<1>6. CASE Absent(r)
  <2>1. /\ at[r] = "look" /\ settled[r] = "ok" /\ at' = [at EXCEPT ![r] = "pausing"]
        /\ settled' = [settled EXCEPT ![r] = "no"]
        /\ UNCHANGED <<racing, responding, waiting, calls, wants, aborted>>
    BY <1>6 DEF Absent, Passed, GoesOn, Steps
  <2>2. (\A sent \in calls : sent.of # r) /\ r \notin waiting \cup racing \cup responding
    BY <1>g, <2>1
  <2>3. RunnerTypes'
    BY <1>t, <2>1 DEF RunnerTypes
  <2>4. /\ \A q \in Runs : at'[q] = IF q = r THEN "pausing" ELSE at[q]
        /\ \A q \in Runs : settled'[q] = IF q = r THEN "no" ELSE settled[q]
    BY <1>t, <2>1 DEF RunnerTypes
  <2>5. \A sent \in calls' : /\ sent.of \in Runs /\ sent.of # r /\ sent \in calls
    BY <1>t, <2>1, <2>2 DEF RunnerTypes
  <2>6. RunnerBusy'
    BY <1>t, <2>1, <2>2, <2>4, <2>5 DEF RunnerTypes, RunnerInv, RunnerBusy
  <2> QED BY <2>3, <2>6 DEF RunnerInv
<1>7. CASE LooksAgain(r)
  <2>1. /\ at[r] = "pausing" /\ Send(r, "look") /\ Steps(r) /\ at' = [at EXCEPT ![r] = "look"]
        /\ UNCHANGED <<racing, responding, waiting>>
    BY <1>7 DEF LooksAgain, GoesOn
  <2>2. (\A sent \in calls : sent.of # r) /\ r \notin waiting \cup racing /\ responding' = responding \ {r}
    BY <1>g, <2>1
  <2>3. RunnerInv'
    BY <2>1, <2>2, SendKeepsBusy DEF Methods
  <2> QED BY <2>3
<1>8. CASE NotFound(r)
  BY <1>8, <1>e DEF NotFound
<1>9. CASE Locates(r)
  <2>1. /\ at[r] = "look" /\ settled[r] = "ok" /\ Send(r, "locate") /\ Steps(r)
        /\ at' = [at EXCEPT ![r] = "locate"]
        /\ UNCHANGED <<racing, responding, waiting>>
    BY <1>9 DEF Locates, GoesOn, Passed
  <2>2. (\A sent \in calls : sent.of # r) /\ r \notin waiting \cup racing /\ responding' = responding \ {r}
    BY <1>g, <2>1
  <2>3. RunnerInv'
    BY <2>1, <2>2, SendKeepsBusy DEF Methods
  <2> QED BY <2>3
<1>10. CASE Acts(r)
  <2>1. /\ at[r] = "locate" /\ settled[r] = "ok" /\ Send(r, "act") /\ Steps(r)
        /\ at' = [at EXCEPT ![r] = "acting"]
        /\ racing' = racing \/ racing' = racing \cup {r}
        /\ UNCHANGED <<responding, waiting>>
    BY <1>10 DEF Acts, Passed
  <2>2. (\A sent \in calls : sent.of # r) /\ r \notin waiting \cup racing /\ responding' = responding \ {r}
    BY <1>g, <2>1
  <2>3. RunnerInv'
    BY <2>1, <2>2, SendKeepsBusy DEF Methods
  <2> QED BY <2>3
<1>11. CASE Returns(r)
  BY <1>11, <1>e DEF Returns, Passed
<1>12. CASE Throws(r)
  BY <1>12, <1>e, <1>f DEF Throws
<1> QED
  BY <1>1, <1>2, <1>3, <1>4, <1>5, <1>6, <1>7, <1>8, <1>9, <1>10, <1>11, <1>12 DEF Continues

\* What the client does when a frame comes or it closes.
LEMMA ClientKeepsBusy ==
  ASSUME RunnerInv, HandleMessage \/ Closes
  PROVE  RunnerInv'
<1>t. RunnerTypes
  BY DEF RunnerInv
<1>m. /\ \A sent \in calls : sent.of \in Runs /\ sent.method \in Methods
      /\ "load" \notin Methods /\ "loading" \notin Methods /\ "acting" \notin Methods /\ "ended" \notin Methods
  BY <1>t DEF RunnerTypes, Methods
<1>1. CASE HandleMessage
  <2>1. PICK frame : frame = Head(inbox)
    OBVIOUS
  <2>2. PICK answered : answered = [of |-> frame.of, method |-> frame.what]
    OBVIOUS
  <2>3. /\ calls' = calls \ {answered}
        /\ waiting' = IF frame.what = "load" THEN {} ELSE waiting
        /\ settled' = [r \in Runs |->
             CASE frame.what = "load" /\ r \in waiting -> "ok"
               [] frame.what # "load" /\ r = frame.of /\ answered \in calls /\ Awaits(r, frame.what) ->
                    IF frame.ok THEN "ok" ELSE "refused"
               [] OTHER -> settled[r]]
        /\ racing' = IF frame.what = "act" THEN racing \ {frame.of} ELSE racing
        /\ UNCHANGED <<wants, at, aborted, responding>>
    BY <1>1, <2>1, <2>2 DEF HandleMessage
  <2>4. \A r \in Runs :
          \/ settled'[r] = settled[r]
          \/ settled'[r] \in {"ok", "refused"} /\ frame.what = "load" /\ r \in waiting
          \/ /\ settled'[r] \in {"ok", "refused"}
             /\ frame.what # "load" /\ r = frame.of /\ answered \in calls /\ Awaits(r, frame.what)
    BY <2>3
  <2>5. settled' \in [Runs -> {"no", "ok"} \cup Failures]
    <3>1. \A r \in Runs : settled'[r] \in {"no", "ok"} \cup Failures
      BY <1>t, <2>4 DEF RunnerTypes, Failures
    <3>2. settled' = [r \in Runs |-> settled'[r]]
      BY <2>3
    <3> QED BY <3>1, <3>2
  <2>6. RunnerTypes'
    BY <1>t, <2>3, <2>5 DEF RunnerTypes
  <2>7. \A r \in waiting' : at'[r] = "loading" /\ settled'[r] = "no"
    <3> SUFFICES ASSUME NEW r \in waiting' PROVE at'[r] = "loading" /\ settled'[r] = "no"
      OBVIOUS
    <3>1. r \in waiting /\ frame.what # "load" /\ r \in Runs /\ at[r] = "loading" /\ settled[r] = "no"
      BY <1>t, <2>3 DEF RunnerTypes, RunnerInv, RunnerBusy
    <3>2. ~(r = frame.of /\ answered \in calls /\ Awaits(r, frame.what))
      BY <1>m, <2>2, <3>1 DEF Awaits
    <3> QED BY <2>3, <2>4, <3>1, <3>2
  <2>8. ASSUME NEW sent \in calls'
        PROVE  IF sent.method = "act" THEN at'[sent.of] \in {"acting", "ended"}
               ELSE at'[sent.of] = sent.method /\ settled'[sent.of] = "no"
    <3>1. sent \in calls /\ sent # answered /\ sent.of \in Runs /\ at' = at
      BY <1>m, <2>3, <2>8
    <3>2. CASE sent.method = "act"
      BY <3>1, <3>2 DEF RunnerInv, RunnerBusy
    <3>3. CASE sent.method # "act"
      <4>1. at[sent.of] = sent.method /\ settled[sent.of] = "no"
        BY <3>1, <3>3 DEF RunnerInv, RunnerBusy
      <4>2. sent.of \notin waiting
        BY <1>m, <3>1, <4>1 DEF RunnerInv, RunnerBusy
      <4>3. ~(sent.of = frame.of /\ answered \in calls /\ Awaits(sent.of, frame.what))
        <5> SUFFICES ASSUME sent.of = frame.of, answered \in calls, Awaits(sent.of, frame.what) PROVE FALSE
          OBVIOUS
        <5>1. CASE frame.what = "act"
          <6>1. at[sent.of] = "acting"
            BY <5>1 DEF Awaits
          <6> QED BY <1>m, <3>1, <4>1, <6>1
        <5>2. CASE frame.what # "act"
          <6>1. at[sent.of] = frame.what
            BY <5>2 DEF Awaits
          <6>2. sent = [of |-> frame.of, method |-> frame.what]
            BY <1>t, <3>1, <4>1, <6>1 DEF RunnerTypes
          <6> QED BY <2>2, <3>1, <6>2
        <5> QED BY <5>1, <5>2
      <4>4. settled'[sent.of] = settled[sent.of]
        BY <2>4, <3>1, <4>2, <4>3
      <4> QED BY <3>1, <3>3, <4>1, <4>4
    <3> QED BY <3>2, <3>3
  <2>9. RunnerBusy'
    BY <2>3, <2>7, <2>8 DEF RunnerInv, RunnerBusy
  <2> QED BY <2>6, <2>9 DEF RunnerInv
<1>2. CASE Closes
  <2>1. /\ settled' = [r \in Runs |-> IF \E sent \in calls : sent.of = r /\ Awaits(r, sent.method)
                                      THEN "closed" ELSE settled[r]]
        /\ racing' \subseteq racing /\ calls' = {}
        /\ UNCHANGED <<wants, at, aborted, responding, waiting>>
    BY <1>2 DEF Closes, Rejected
  <2>2. settled' \in [Runs -> {"no", "ok"} \cup Failures]
    BY <1>t, <2>1 DEF RunnerTypes, Failures
  <2>3. RunnerTypes'
    BY <1>t, <2>1, <2>2 DEF RunnerTypes
  <2>4. ASSUME NEW r \in waiting PROVE settled'[r] = settled[r]
    <3>1. r \in Runs /\ at[r] = "loading"
      BY <1>t, <2>4 DEF RunnerTypes, RunnerInv, RunnerBusy
    <3>2. \A sent \in calls : ~Awaits(r, sent.method)
      BY <1>m, <3>1 DEF Awaits
    <3> QED BY <2>1, <3>1, <3>2
  <2>5. RunnerBusy'
    BY <2>1, <2>4 DEF RunnerInv, RunnerBusy
  <2> QED BY <2>3, <2>5 DEF RunnerInv
<1> QED BY <1>1, <1>2

\* A timer that fires, and a caller that leaves, end a wait or a race.
LEMMA EndingWaitsKeepsBusy ==
  ASSUME RunnerInv, NEW r \in Runs, Timer(r) \/ Abort(r)
  PROVE  RunnerInv'
<1>t. RunnerTypes
  BY DEF RunnerInv
<1>1. /\ settled' \in [Runs -> {"no", "ok"} \cup Failures]
      /\ \A q \in Runs : settled'[q] = settled[q] \/ (q = r /\ r \in waiting \cup racing)
      /\ waiting' = waiting \ {r} /\ racing' = racing \ {r}
      /\ aborted' \subseteq Runs /\ UNCHANGED <<wants, at, responding, calls>>
  <2>1. CASE Timer(r)
    BY <1>t, <2>1 DEF Timer, TimedOut, RunnerTypes, Failures
  <2>2. CASE Abort(r)
    BY <1>t, <2>2 DEF Abort, RunnerTypes, Failures
  <2> QED BY <2>1, <2>2
<1>2. RunnerTypes'
  BY <1>t, <1>1 DEF RunnerTypes
<1>3. ASSUME NEW sent \in calls, sent.method # "act" PROVE settled'[sent.of] = settled[sent.of]
  <2>1. sent.of \in Runs /\ sent.method \in Methods /\ at[sent.of] = sent.method
    BY <1>3, <1>t DEF RunnerTypes, RunnerInv, RunnerBusy
  <2>2. sent.of \notin waiting \cup racing
    BY <2>1 DEF Methods, RunnerInv, RunnerBusy
  <2> QED BY <1>1, <2>1, <2>2
<1>4. RunnerBusy'
  BY <1>t, <1>1, <1>3 DEF RunnerTypes, RunnerInv, RunnerBusy
<1> QED BY <1>2, <1>4 DEF RunnerInv

\* At first no run has begun.
LEMMA RunnerBegins == ASSUME RunnerInit PROVE RunnerInv
BY DEF RunnerInit, RunnerInv, RunnerTypes, RunnerBusy

\* Every step keeps the invariant.
LEMMA RunnerKeeps == ASSUME RunnerInv, [RunnerNext]_runnerVars PROVE RunnerInv'
<1>0. ASSUME UNCHANGED <<wants, at, settled, calls, aborted, responding, waiting, racing>> PROVE RunnerInv'
  BY <1>0 DEF RunnerInv, RunnerTypes, RunnerBusy
<1>1. CASE HandleMessage \/ Closes
  BY <1>1, ClientKeepsBusy
<1>2. ASSUME NEW sent \in calls, AnswerCall(sent) PROVE RunnerInv'
  BY <1>0, <1>2 DEF AnswerCall
<1>3. ASSUME NEW r \in Runs, Loads(r) PROVE RunnerInv'
  BY <1>0, <1>3 DEF Loads
<1>4. ASSUME NEW r \in Runs, Continues(r) PROVE RunnerInv'
  BY <1>4, ContinuingKeepsBusy
<1>5. ASSUME NEW r \in Runs, Timer(r) \/ Abort(r) PROVE RunnerInv'
  BY <1>5, EndingWaitsKeepsBusy
<1>6. CASE UNCHANGED runnerVars
  BY <1>0, <1>6 DEF runnerVars
<1> QED BY <1>1, <1>2, <1>3, <1>4, <1>5, <1>6 DEF RunnerNext

\* However many runs share a client, whichever of its frames, timers and callers come first:
\* a run that has ended has left no handler, timer or command on it but the action it gave
\* up on (page-runner.ts, the finally blocks and cleanup()).
THEOREM RunsLeaveNothing == RunnerSpec => []NothingLeftBehind
<1>1. RunnerInit => RunnerInv
  BY RunnerBegins
<1>2. RunnerInv /\ [RunnerNext]_runnerVars => RunnerInv'
  BY RunnerKeeps
<1>3. RunnerInv => NothingLeftBehind
  <2> SUFFICES ASSUME RunnerInv, NEW r \in Runs, at[r] = "ended"
               PROVE  /\ r \notin responding \cup waiting \cup racing
                      /\ \A sent \in calls : sent.of = r => sent.method = "act"
    BY DEF NothingLeftBehind
  <2> QED BY GoingOnIsIdle
<1> QED BY <1>1, <1>2, <1>3, PTL DEF RunnerSpec

\* No run begins its action for a caller that left before it (checkAborted before the
\* action, page-runner.ts).
THEOREM DepartedStayOut == RunnerSpec => DepartedNeverActs
<1> DEFINE Stays == \A r \in aborted : at'[r] = "acting" => at[r] = "acting"
<1>1. RunnerInit => RunnerInv
  BY RunnerBegins
<1>2. RunnerInv /\ [RunnerNext]_runnerVars => RunnerInv'
  BY RunnerKeeps
<1>3. ASSUME RunnerInv, [RunnerNext]_runnerVars PROVE [Stays]_runnerVars
  <2>0. at \in [Runs -> {"new", "loading", "pausing", "acting", "ended"} \cup Methods] /\ aborted \subseteq Runs
    BY <1>3 DEF RunnerInv, RunnerTypes
  <2>1. ASSUME NEW q \in Runs, Continues(q) PROVE Stays
    <3>1. PICK stage : at' = [at EXCEPT ![q] = stage] /\ (stage = "acting" => q \notin aborted)
      <4>1. CASE Leaves(q) \/ NotFound(q) \/ Returns(q) \/ Throws(q)
        BY <4>1 DEF Leaves, NotFound, Returns, Throws, EndsRun
      <4>2. CASE Opens(q) \/ Navigates(q) \/ WaitsForLoad(q) \/ Absent(q) \/ LooksAgain(q) \/ Locates(q)
        BY <4>2 DEF Opens, Navigates, WaitsForLoad, Absent, LooksAgain, Locates, GoesOn
      <4>3. CASE AfterNavigation(q)
        <5>1. CASE wants[q].selector
          <6>1. at' = [at EXCEPT ![q] = "look"]
            BY <4>3, <5>1 DEF AfterNavigation, GoesOn
          <6> WITNESS "look"
          <6> QED BY <6>1
        <5>2. CASE ~wants[q].selector
          <6>1. at' = [at EXCEPT ![q] = "locate"]
            BY <4>3, <5>2 DEF AfterNavigation, GoesOn
          <6> WITNESS "locate"
          <6> QED BY <6>1
        <5> QED BY <5>1, <5>2
      <4>4. CASE Acts(q)
        BY <4>4 DEF Acts, Proceeds, LooksAtSignal
      <4> QED BY <2>1, <4>1, <4>2, <4>3, <4>4 DEF Continues
    <3> QED BY <2>0, <3>1
  <2>2. CASE at' = at
    BY <2>2
  <2>3. ASSUME RunnerNext PROVE at' = at \/ \E q \in Runs : Continues(q)
    BY <2>3 DEF RunnerNext, HandleMessage, Closes, AnswerCall, Loads, Timer, Abort
  <2> QED BY <1>3, <2>1, <2>2, <2>3 DEF runnerVars
<1> HIDE DEF Stays
<1>4. RunnerSpec => [][Stays]_runnerVars
  BY <1>1, <1>2, <1>3, PTL DEF RunnerSpec
<1> QED BY <1>4 DEF DepartedNeverActs, Stays

----------------------------------------------------------------------------
(* The turns of a model that uses a computer *)

\* What a sequence is with one element more.
LEMMA Appended ==
  ASSUME NEW S, NEW s \in Seq(S), NEW x \in S
  PROVE  /\ Append(s, x) \in Seq(S) /\ Len(Append(s, x)) = Len(s) + 1 /\ Len(s) \in Nat
         /\ DOMAIN Append(s, x) = 1..(Len(s) + 1) /\ DOMAIN s = 1..Len(s)
         /\ \A i \in 1..Len(s) : Append(s, x)[i] = s[i]
         /\ Append(s, x)[Len(s) + 1] = x /\ Last(Append(s, x)) = x
  BY AppendProperties, LenProperties DEF Last

\* The types of the loop, and how far a call can be.
Addresses == {"none", "blank", "fine", "forbidden"}
Answers == {"ok", "error", "halt"}
CallStages == {"guard", "acting", "collapse", "check", "pressing", "releasing", "failing"}

UseTypeOK ==
  /\ vendor \in DOMAIN Offers /\ loop \in {"asking", "running"} \cup Ended /\ turn \in Nat
  /\ asks \in Seq(Offers[vendor]) /\ replies \in Seq(Answers)
  /\ doing \in CallStages \cup {"idle", "observing"}
  /\ toHold \in Seq(STRING) /\ toFree \in Seq(STRING) /\ keyRefused \in BOOLEAN
  /\ address \in [Tabs -> Addresses] /\ front \in Tabs /\ slipped \in BOOLEAN

\* Every call so far was good.
AllGood == \A i \in DOMAIN replies : replies[i] = "ok"

\* A call is under way only if there is one to answer and, of Claude's, if none
\* before it failed; nothing is under way unless the turn is.
CallsInOrder ==
  /\ Len(replies) <= Len(asks)
  /\ loop = "asking" /\ turn > 0 => Len(replies) = Len(asks)
  /\ loop # "running" => doing = "idle"
  /\ doing \in CallStages => Len(replies) < Len(asks) /\ (Halting => AllGood)
  /\ doing = "observing" => Len(replies) = Len(asks) /\ (Halting => AllGood)
  /\ Halting => \/ AllGood
                \/ \E i \in DOMAIN replies : replies[i] = "error"
  /\ Halting => \A i, j \in DOMAIN replies : (i < j /\ replies[i] # "ok") => replies[j] = "halt"

\* What a Claude call shows of a forbidden address is noticed before it counts as
\* good, and when one does there was no such address.
ShownIsChecked ==
  Halting =>
    /\ doing \in CallStages \ {"check"} => doing # "collapse" /\ shown # "forbidden"
    /\ doing = "check" /\ shown = "forbidden" /\ ~slipped => Offending # {}
    /\ (doing \notin CallStages /\ replies # <<>> /\ Last(replies) = "ok" /\ ~slipped) =>
         Offending = {} /\ (doing = "idle" => shown # "forbidden")

\* The keys that are down are those to be released, which are none outside a hold.
KeysAccounted ==
  ~keyRefused =>
    /\ keysDown \subseteq Range(toFree)
    /\ doing \notin {"pressing", "releasing", "failing"} => keysDown = {}

\* What the loop keeps.
UseInv == UseTypeOK /\ CallsInOrder /\ ShownIsChecked /\ KeysAccounted

\* Before the first turn.
LEMMA InitUse == UseInit => UseInv
<1> SUFFICES ASSUME UseInit PROVE UseInv
  OBVIOUS
<1>1. UseTypeOK
  BY EmptySeq DEF UseInit, UseTypeOK, Addresses, Offers, Tabs
<1>2. CallsInOrder
  BY EmptySeq DEF UseInit, CallsInOrder, AllGood, CallStages
<1>3. ShownIsChecked
  BY DEF UseInit, ShownIsChecked, CallStages
<1>4. KeysAccounted
  BY DEF UseInit, KeysAccounted
<1> QED BY <1>1, <1>2, <1>3, <1>4 DEF UseInv

\* What a step does to the tabs.
LEMMA UseAddresses == UseTypeOK /\ UseNext => address' \in [Tabs -> Addresses] /\ front' \in Tabs
<1> SUFFICES ASSUME UseTypeOK, UseNext PROVE address' \in [Tabs -> Addresses] /\ front' \in Tabs
  OBVIOUS
<1>0. /\ address \in [Tabs -> Addresses] /\ front \in Tabs /\ Tabs = {FirstTab, Popup} /\ Owned \subseteq Tabs
      /\ {"none", "blank", "fine", "forbidden"} = Addresses
  BY DEF UseTypeOK, Tabs, Owned, Addresses
<1>1. CASE UNCHANGED <<address, front>>
  BY <1>0, <1>1
<1>2. CASE Enforces
  BY <1>0, <1>2 DEF Enforces, keyVars
<1>3. CASE GoesTo
  BY <1>0, <1>3 DEF GoesTo, keyVars
<1>4. CASE Pokes
  BY <1>0, <1>4 DEF Pokes, keyVars
<1>5. CASE ChangesTabs
  BY <1>0, <1>5 DEF ChangesTabs, keyVars
<1>6. CASE Collapses
  <2> DEFINE extra == Owned \ {front}
             target == address[CHOOSE t \in extra : TRUE]
  <2>1. CASE extra = {}
    BY <1>0, <1>6, <2>1 DEF Collapses
  <2>2. CASE extra # {}
    <3>1. PICK shut \in {extra, {}} :
            LET closed == [t \in Tabs |-> IF t \in shut THEN "none" ELSE address[t]] IN
            /\ \/ address' = closed
               \/ \E a \in {"fine", "blank", "forbidden"} : address' = [closed EXCEPT ![front] = a]
            /\ front' = front
      BY <1>6, <2>2 DEF Collapses
    <3> DEFINE closed == [t \in Tabs |-> IF t \in shut THEN "none" ELSE address[t]]
    <3>2. closed \in [Tabs -> Addresses]
      BY <1>0
    <3> HIDE DEF closed
    <3>3. front' = front /\ (address' = closed \/ \E a \in {"fine", "blank", "forbidden"} : address' = [closed EXCEPT ![front] = a])
      BY <3>1 DEF closed
    <3> QED BY <1>0, <3>2, <3>3
  <2> QED BY <2>1, <2>2
<1>7. CASE PageSlips
  BY <1>0, <1>7 DEF PageSlips
<1> QED
  BY <1>1, <1>2, <1>3, <1>4, <1>5, <1>6, <1>7 DEF UseNext, UseProgress, ModelAnswers, TurnsSpent, TurnEnds, Observed,
     Declined, CallBegins, Halted, CallFails, Looks, Holds, Presses, Waits, Releases

\* What a step does to the keys.
LEMMA UseKeys ==
  UseTypeOK /\ UseNext => toHold' \in Seq(STRING) /\ toFree' \in Seq(STRING) /\ keyRefused' \in BOOLEAN
<1> SUFFICES ASSUME UseTypeOK, UseNext
             PROVE toHold' \in Seq(STRING) /\ toFree' \in Seq(STRING) /\ keyRefused' \in BOOLEAN
  OBVIOUS
<1>0. /\ toHold \in Seq(STRING) /\ toFree \in Seq(STRING) /\ keyRefused \in BOOLEAN /\ Keys \in Seq(STRING)
  BY ComputerUseAssumption DEF UseTypeOK
<1>1. CASE UNCHANGED keyVars
  BY <1>0, <1>1 DEF keyVars
<1>2. CASE Holds
  BY <1>0, <1>2, EmptySeq DEF Holds
<1>3. CASE Presses
  <2>1. toHold # <<>> => Head(toHold) \in STRING /\ Tail(toHold) \in Seq(STRING) /\ <<Head(toHold)>> \in Seq(STRING)
    BY <1>0, HeadTailProperties
  <2>2. toHold # <<>> => <<Head(toHold)>> \o toFree \in Seq(STRING)
    BY <1>0, <2>1, ConcatProperties
  <2> QED BY <1>0, <1>3, <2>1, <2>2 DEF Presses, Replies
<1>4. CASE Releases
  <2>1. toFree # <<>> => Tail(toFree) \in Seq(STRING)
    BY <1>0, HeadTailProperties
  <2>2. toHold' = toHold /\ keyRefused' \in {keyRefused, TRUE} /\ (toFree' = toFree \/ (toFree # <<>> /\ toFree' = Tail(toFree)))
    BY <1>4 DEF Releases
  <2> QED BY <1>0, <2>1, <2>2
<1> QED
  BY <1>1, <1>2, <1>3, <1>4 DEF UseNext, UseProgress, ModelAnswers, TurnsSpent, TurnEnds, Observed, keyVars,
     Declined, CallBegins, Halted, CallFails, Looks, Waits, Enforces, GoesTo, Pokes, ChangesTabs, Collapses, PageSlips

\* What a step does to the turn: a call goes on or is answered, the rest of a turn is
\* answered or given up, a turn ends or begins.
TurnGoesOn ==
  /\ UNCHANGED <<loop, turn, asks, replies>>
  /\ doing \in CallStages /\ doing' \in CallStages

IsAnswered(how) ==
  /\ UNCHANGED <<loop, turn, asks>>
  /\ doing \in CallStages /\ replies' = Append(replies, how) /\ doing' = "idle"

\* What a step does to the turn.
LEMMA UseTurns ==
  ASSUME UseTypeOK, UseNext
  PROVE  /\ UNCHANGED vendor
         /\ \/ UNCHANGED <<loop, turn, asks, replies, doing>>
            \/ TurnGoesOn \/ (\E how \in {"ok", "error"} : IsAnswered(how))
            \/ ModelAnswers \/ TurnsSpent \/ TurnEnds \/ Observed \/ Declined \/ CallBegins \/ Halted
<1> USE DEF CallStages
<1>1. CASE CallFails
  BY <1>1 DEF CallFails, Replies, IsAnswered, loopVars
<1>2. CASE Enforces
  BY <1>2 DEF Enforces, Then, Replies, TurnGoesOn, IsAnswered, loopVars
<1>3. CASE Looks
  BY <1>3 DEF Looks, Then, AfterAct, TurnGoesOn, loopVars
<1>4. CASE GoesTo
  BY <1>4 DEF GoesTo, Then, AfterAct, Replies, TurnGoesOn, IsAnswered, loopVars
<1>5. CASE Pokes
  BY <1>5 DEF Pokes, Then, AfterAct, TurnGoesOn, loopVars
<1>6. CASE ChangesTabs
  BY <1>6 DEF ChangesTabs, Then, AfterAct, TurnGoesOn, loopVars
<1>7. CASE Collapses
  <2>1. \/ Then("check")
        \/ Replies("error") /\ UNCHANGED loopVars
    BY <1>7 DEF Collapses
  <2> QED BY <1>7, <2>1 DEF Collapses, Then, Replies, TurnGoesOn, IsAnswered, loopVars
<1>8. CASE Holds
  BY <1>8 DEF Holds, Then, TurnGoesOn, loopVars
<1>9. CASE Presses
  BY <1>9 DEF Presses, Replies, TurnGoesOn, IsAnswered, loopVars
<1>10. CASE Waits
  BY <1>10 DEF Waits, HeldEnds, TurnGoesOn, loopVars
<1>11. CASE Releases
  BY <1>11 DEF Releases, Then, AfterAct, Replies, TurnGoesOn, IsAnswered, loopVars
<1>12. CASE PageSlips
  BY <1>12 DEF PageSlips, loopVars
<1>13. CASE ModelAnswers \/ TurnsSpent \/ TurnEnds \/ Observed \/ Declined \/ CallBegins \/ Halted
  BY <1>13 DEF ModelAnswers, TurnsSpent, TurnEnds, Observed, Declined, CallBegins, Halted, loopVars
<1> QED
  BY <1>1, <1>2, <1>3, <1>4, <1>5, <1>6, <1>7, <1>8, <1>9, <1>10, <1>11, <1>12, <1>13 DEF UseNext, UseProgress

\* What the loop keeps stays of its type.
LEMMA UseTypes == UseTypeOK /\ UseNext => UseTypeOK'
<1> SUFFICES ASSUME UseTypeOK, UseNext PROVE UseTypeOK'
  OBVIOUS
<1>0. /\ vendor \in DOMAIN Offers /\ loop \in {"asking", "running"} \cup Ended /\ turn \in Nat
      /\ asks \in Seq(Offers[vendor]) /\ replies \in Seq(Answers) /\ doing \in CallStages \cup {"idle", "observing"}
  BY DEF UseTypeOK
<1>1. /\ address' \in [Tabs -> Addresses] /\ front' \in Tabs
      /\ toHold' \in Seq(STRING) /\ toFree' \in Seq(STRING) /\ keyRefused' \in BOOLEAN
  BY UseAddresses, UseKeys
<1>2. slipped' \in BOOLEAN
  <2>1. slipped' \in {slipped, TRUE, FALSE}
    BY DEF UseNext, UseProgress, ModelAnswers, TurnsSpent, TurnEnds, Observed, keyVars,
           Declined, CallBegins, Halted, CallFails, Looks, Waits, Enforces, GoesTo, Pokes, ChangesTabs, Collapses, PageSlips,
           Holds, Presses, Releases
  <2> QED BY <2>1 DEF UseTypeOK
<1>3. vendor' = vendor
  BY UseTurns
<1>4. loop' \in {"asking", "running"} \cup Ended /\ turn' \in Nat
  <2>1. turn' \in {turn, turn + 1}
    BY UseTurns DEF TurnGoesOn, IsAnswered, ModelAnswers, TurnsSpent, TurnEnds, Observed, Declined, CallBegins, Halted, loopVars
  <2>2. loop' = loop \/ loop' \in {"asking", "running"} \cup Ended
    <3>1. CASE Observed
      BY <3>1 DEF Observed, Ended
    <3>2. CASE Declined
      BY <3>2 DEF Declined, Ended
    <3>3. CASE ModelAnswers \/ TurnsSpent \/ TurnEnds
      BY <3>3 DEF ModelAnswers, TurnsSpent, TurnEnds, Ended
    <3> QED BY <3>1, <3>2, <3>3, UseTurns DEF TurnGoesOn, IsAnswered, CallBegins, Halted, loopVars
  <2> QED BY <1>0, <2>1, <2>2
<1>5. asks' \in Seq(Offers[vendor'])
  <2>1. CASE ModelAnswers
    <3>1. asks' = <<>> \/ \E n \in 1..MaxAsks : asks' \in [1..n -> Offers[vendor]]
      BY <2>1 DEF ModelAnswers
    <3>2. ASSUME NEW n \in 1..MaxAsks, asks' \in [1..n -> Offers[vendor]] PROVE asks' \in Seq(Offers[vendor])
      <4>1. n \in Nat
        BY ComputerUseAssumption
      <4> QED BY <3>2, <4>1, IsASeq, \A f \in [1..n -> Offers[vendor]] : f = [i \in 1..n |-> f[i]]
    <3> QED BY <1>3, <3>1, <3>2, EmptySeq
  <2>2. CASE ~ModelAnswers
    <3>1. asks' = asks
      BY <2>2, UseTurns DEF TurnGoesOn, IsAnswered, TurnsSpent, TurnEnds, Observed, Declined, CallBegins, Halted, loopVars
    <3> QED BY <1>0, <1>3, <3>1
  <2> QED BY <2>1, <2>2
<1>6. replies' \in Seq(Answers)
  <2>1. replies' \in {replies, <<>>} \/ \E how \in Answers : replies' = Append(replies, how)
    BY UseTurns DEF TurnGoesOn, IsAnswered, ModelAnswers, TurnsSpent, TurnEnds, Observed, Declined, CallBegins, Halted, Answers
  <2>2. \A how \in Answers : Append(replies, how) \in Seq(Answers)
    BY <1>0, AppendProperties
  <2> QED BY <1>0, <2>1, <2>2, EmptySeq
<1>7. doing' \in CallStages \cup {"idle", "observing"}
  BY <1>0, UseTurns DEF TurnGoesOn, IsAnswered, ModelAnswers, TurnsSpent, TurnEnds, Observed, Declined, CallBegins, Halted, CallStages
<1> QED BY <1>1, <1>2, <1>3, <1>4, <1>5, <1>6, <1>7 DEF UseTypeOK

\* One more answer is in order.
LEMMA OneMore ==
  ASSUME NEW s \in Seq(Answers), NEW n \in Nat, Len(s) < n, NEW x \in Answers,
         \/ \A i \in DOMAIN s : s[i] = "ok"
         \/ x = "halt" /\ (\E i \in DOMAIN s : s[i] = "error")
            /\ \A i, j \in DOMAIN s : (i < j /\ s[i] # "ok") => s[j] = "halt"
  PROVE  LET t == Append(s, x) IN
         /\ Len(t) <= n
         /\ (\A i \in DOMAIN t : t[i] = "ok") \/ (\E i \in DOMAIN t : t[i] = "error") \/ (x = "halt" /\ \A i \in DOMAIN s : s[i] = "ok")
         /\ \A i, j \in DOMAIN t : (i < j /\ t[i] # "ok") => t[j] = "halt"
<1> DEFINE t == Append(s, x)
           m == Len(s)
<1>1. /\ Len(t) = m + 1 /\ m \in Nat /\ DOMAIN t = 1..(m + 1) /\ DOMAIN s = 1..m
      /\ (\A i \in 1..m : t[i] = s[i]) /\ t[m + 1] = x
  BY Appended
<1> HIDE DEF t, m
<1>2. Len(t) <= n
  BY <1>1 DEF m
<1>3. (\A i \in DOMAIN t : t[i] = "ok") \/ (\E i \in DOMAIN t : t[i] = "error") \/ (x = "halt" /\ \A i \in DOMAIN s : s[i] = "ok")
  <2>1. CASE \A i \in DOMAIN s : s[i] = "ok"
    <3>1. \A i \in 1..m : t[i] = "ok"
      BY <1>1, <2>1
    <3>2. x \in {"ok", "error", "halt"} /\ m + 1 \in 1..(m + 1) /\ \A i \in 1..(m + 1) : i \in 1..m \/ i = m + 1
      BY <1>1 DEF Answers
    <3> QED BY <1>1, <2>1, <3>1, <3>2
  <2>2. CASE \E i \in DOMAIN s : s[i] = "error"
    <3>1. PICK i \in 1..m : s[i] = "error"
      BY <1>1, <2>2
    <3>2. i \in 1..(m + 1)
      BY <1>1
    <3> QED BY <1>1, <3>1, <3>2
  <2> QED BY <2>1, <2>2
<1>4. ASSUME NEW i \in DOMAIN t, NEW j \in DOMAIN t, i < j, t[i] # "ok" PROVE t[j] = "halt"
  <2>1. i \in 1..m /\ t[i] = s[i] /\ (j \in 1..m \/ j = m + 1)
    BY <1>1, <1>4
  <2>2. x = "halt" /\ \A a, b \in DOMAIN s : (a < b /\ s[a] # "ok") => s[b] = "halt"
    BY <1>1, <1>4, <2>1
  <2> QED BY <1>1, <1>4, <2>1, <2>2
<1> QED BY <1>2, <1>3, <1>4 DEF t

\* The calls of a turn are answered in their order.
LEMMA UseOrders == UseTypeOK /\ CallsInOrder /\ UseNext => CallsInOrder'
<1> SUFFICES ASSUME UseTypeOK, CallsInOrder, UseNext PROVE CallsInOrder'
  OBVIOUS
<1>0. /\ replies \in Seq(Answers) /\ asks \in Seq(Offers[vendor]) /\ Len(replies) \in Nat /\ Len(asks) \in Nat
      /\ turn \in Nat /\ "idle" \notin CallStages /\ "observing" \notin CallStages /\ {"ok", "error", "halt"} = Answers
      /\ (loop = "asking" => loop # "running") /\ vendor' = vendor
      /\ \A i \in DOMAIN replies : replies[i] \in Answers
  BY UseTurns, LenProperties, ElementOfSeq DEF UseTypeOK, CallStages, Answers
<1> DEFINE Ordered(s) == \A i, j \in DOMAIN s : (i < j /\ s[i] # "ok") => s[j] = "halt"
           Fine(s) == (\A i \in DOMAIN s : s[i] = "ok") \/ (\E i \in DOMAIN s : s[i] = "error")
<1>1. CASE UNCHANGED <<loop, turn, asks, replies, doing>>
  BY <1>0, <1>1 DEF CallsInOrder, Halting, AllGood
<1>2. CASE TurnGoesOn
  BY <1>0, <1>2 DEF CallsInOrder, TurnGoesOn, Halting, AllGood
<1>3. ASSUME NEW how \in {"ok", "error"}, IsAnswered(how) PROVE CallsInOrder'
  <2>1. /\ loop' = loop /\ turn' = turn /\ asks' = asks /\ doing' = "idle" /\ replies' = Append(replies, how)
        /\ loop = "running" /\ Len(replies) < Len(asks) /\ (Halting => AllGood)
    BY <1>0, <1>3 DEF IsAnswered, CallsInOrder
  <2>2. Len(replies') = Len(replies) + 1
    BY <1>0, <2>1, Appended
  <2>3. Halting => Ordered(replies') /\ Fine(replies')
    <3> SUFFICES ASSUME Halting PROVE Ordered(replies') /\ Fine(replies')
      OBVIOUS
    <3>1. \A i \in DOMAIN replies : replies[i] = "ok"
      BY <2>1 DEF AllGood
    <3>2. how \in Answers /\ how # "halt"
      BY <1>0
    <3> QED BY <1>0, <2>1, <3>1, <3>2, OneMore
  <2> HIDE DEF Ordered, Fine
  <2>4. Halting' = Halting /\ (Fine(replies') <=> (AllGood' \/ \E i \in DOMAIN replies' : replies'[i] = "error"))
    BY <1>0 DEF Fine, AllGood, Halting
  <2>5. Ordered(replies') <=> (\A i, j \in DOMAIN replies' : (i < j /\ replies'[i] # "ok") => replies'[j] = "halt")
    BY DEF Ordered
  <2> QED BY <1>0, <2>1, <2>2, <2>3, <2>4, <2>5 DEF CallsInOrder
<1>4. CASE ModelAnswers
  <2>1. replies' = <<>> /\ doing' = "idle" /\ loop' \in {"done", "running"} /\ Len(asks') \in Nat
    BY <1>4, UseTypes, LenProperties DEF ModelAnswers, UseTypeOK
  <2>2. DOMAIN replies' = {} /\ Len(replies') = 0
    BY <2>1, EmptySeq
  <2> QED BY <1>0, <2>1, <2>2 DEF CallsInOrder, AllGood
<1>5. CASE TurnsSpent
  BY <1>0, <1>5 DEF TurnsSpent, CallsInOrder, Halting, AllGood
<1>6. CASE TurnEnds
  <2>1. /\ UNCHANGED <<turn, asks, replies>> /\ loop = "running" /\ doing = "idle" /\ Len(replies) = Len(asks)
        /\ \/ loop' = "asking" /\ doing' = "idle"
           \/ loop' = loop /\ doing' = "observing" /\ (Halting => "error" \notin Range(replies))
    BY <1>0, <1>6 DEF TurnEnds, More, CallsInOrder, Halting
  <2>2. "error" \notin Range(replies) => \A i \in DOMAIN replies : replies[i] # "error"
    BY DEF Range
  <2> QED BY <1>0, <2>1, <2>2 DEF CallsInOrder, Halting, AllGood
<1>7. CASE Observed
  <2>1. /\ UNCHANGED <<turn, asks, replies>> /\ doing = "observing" /\ doing' = "idle" /\ loop' \in {"asking", "threw"}
    BY <1>7 DEF Observed
  <2> QED BY <1>0, <2>1 DEF CallsInOrder, Halting, AllGood
<1>8. CASE Declined
  <2>1. /\ UNCHANGED <<turn, asks, replies, doing>> /\ doing = "idle" /\ loop' \in {"declined", "threw"}
    BY <1>8 DEF Declined
  <2> QED BY <1>0, <2>1 DEF CallsInOrder, Halting, AllGood
<1>9. CASE CallBegins
  <2>1. /\ UNCHANGED <<loop, turn, asks, replies>> /\ loop = "running" /\ doing' \in {"guard", "acting"} /\ Len(replies) < Len(asks)
        /\ (Halting => "error" \notin Range(replies))
    BY <1>9 DEF CallBegins, MayBegin, More, loopVars
  <2>2. "error" \notin Range(replies) => \A i \in DOMAIN replies : replies[i] # "error"
    BY DEF Range
  <2> QED BY <1>0, <2>1, <2>2 DEF CallsInOrder, Halting, AllGood
<1>10. CASE Halted
  <2>1. /\ UNCHANGED <<loop, turn, asks, doing>> /\ loop = "running" /\ doing = "idle" /\ Len(replies) < Len(asks)
        /\ Halting /\ "error" \in Range(replies) /\ replies' = Append(replies, "halt")
    BY <1>10 DEF Halted, MayBegin, More, loopVars
  <2>2. \E i \in DOMAIN replies : replies[i] = "error"
    BY <2>1 DEF Range
  <2>3. Ordered(replies)
    BY <2>1 DEF CallsInOrder
  <2>4. Len(replies') <= Len(asks) /\ Ordered(replies') /\ ~\A i \in DOMAIN replies : replies[i] = "ok"
    BY <1>0, <2>1, <2>2, <2>3, OneMore
  <2>5. Fine(replies')
    BY <1>0, <2>1, <2>2, <2>3, <2>4, OneMore
  <2> HIDE DEF Ordered, Fine
  <2>6. Halting' = Halting /\ (Fine(replies') <=> (AllGood' \/ \E i \in DOMAIN replies' : replies'[i] = "error"))
    BY <1>0 DEF Fine, AllGood, Halting
  <2>7. Ordered(replies') <=> (\A i, j \in DOMAIN replies' : (i < j /\ replies'[i] # "ok") => replies'[j] = "halt")
    BY DEF Ordered
  <2> QED BY <1>0, <2>1, <2>4, <2>5, <2>6, <2>7 DEF CallsInOrder
<1> QED BY <1>1, <1>2, <1>3, <1>4, <1>5, <1>6, <1>7, <1>8, <1>9, <1>10, UseTurns

\* What is shown is looked at first.
LEMMA UseShows == UseTypeOK /\ CallsInOrder /\ ShownIsChecked /\ UseNext => ShownIsChecked'
<1> SUFFICES ASSUME UseTypeOK, CallsInOrder, ShownIsChecked, UseNext, Halting PROVE ShownIsChecked'
  BY UseTurns DEF Halting, ShownIsChecked
<1>0. /\ Halting' /\ AfterAct = "check" /\ vendor \in {"browser", "computer"} /\ front \in Tabs
      /\ {"ok", "error", "halt"} = Answers /\ replies \in Seq(Answers) /\ doing # "collapse"
      /\ doing \in CallStages \cup {"idle", "observing"} /\ slipped \in BOOLEAN
  BY UseTurns DEF Halting, AfterAct, UseTypeOK, Offers, ShownIsChecked, Answers, CallStages
<1>a. \A how \in Answers : Append(replies, how) # <<>> /\ Last(Append(replies, how)) = how
  BY <1>0, Appended, EmptySeq
<1>b. \A t \in Tabs : address[t] = "forbidden" => Offending # {}
  BY DEF Offending, Owned
<1>c. ASSUME replies' = Append(replies, "error") \/ replies' = Append(replies, "halt"), doing' = "idle" PROVE ShownIsChecked'
  BY <1>0, <1>a, <1>c DEF ShownIsChecked, CallStages
<1>d. ASSUME doing \in CallStages, shown' = shown, doing' \in CallStages \ {"check", "collapse"}, doing # "check" PROVE ShownIsChecked'
  BY <1>0, <1>d DEF ShownIsChecked, CallStages
<1>e. ASSUME doing \in CallStages \ {"check"}, shown' = shown, doing' = "check" PROVE ShownIsChecked'
  BY <1>0, <1>e DEF ShownIsChecked, CallStages
<1>f. Offending' = Offending \/ address' # address
  BY DEF Offending, Owned
<1>1. CASE ModelAnswers
  BY <1>1 DEF ModelAnswers, ShownIsChecked, CallStages
<1>2. CASE TurnsSpent
  BY <1>0, <1>2, <1>f DEF TurnsSpent, ShownIsChecked
<1>3. CASE TurnEnds
  BY <1>0, <1>3, <1>f DEF TurnEnds, ShownIsChecked, CallStages
<1>4. CASE Observed
  BY <1>0, <1>4, <1>b, <1>f DEF Observed, ShownIsChecked, CallStages
<1>5. CASE Declined
  <2>1. asks \in Seq(Offers[vendor]) /\ Len(replies) + 1 \in 1..Len(asks)
    BY <1>0, <1>5, LenProperties DEF Declined, More, UseTypeOK
  <2>2. Asked \in Offers[vendor]
    BY <2>1, ElementOfSeq DEF Asked
  <2> QED BY <1>0, <1>5, <2>2 DEF Declined, Offers, BrowserOffers, ComputerOffers
<1>6. CASE CallBegins
  BY <1>6 DEF CallBegins, ShownIsChecked, CallStages
<1>7. CASE Halted
  BY <1>7, <1>c DEF Halted
<1>8. CASE CallFails
  BY <1>8, <1>c DEF CallFails, Replies
<1>9. CASE Enforces
  <2>1. CASE Offending = {} /\ doing = "guard"
    BY <1>9, <1>d, <2>1 DEF Enforces, Then, CallStages
  <2>2. CASE Offending = {} /\ doing = "check"
    BY <1>0, <1>9, <1>f, <2>2 DEF Enforces, Replies, ShownIsChecked, CallStages
  <2>3. CASE Offending # {}
    BY <1>9, <1>c, <2>3 DEF Enforces, Replies
  <2> QED BY <1>9, <2>1, <2>2, <2>3 DEF Enforces
<1>10. CASE Looks
  <2>1. PICK t \in Tabs : shown' = address[t]
    BY <1>0, <1>10 DEF Looks, Owned
  <2> QED BY <1>0, <1>10, <1>b, <1>f, <2>1 DEF Looks, Then, ShownIsChecked, CallStages
<1>11. CASE GoesTo
  BY <1>0, <1>11, <1>c, <1>e DEF GoesTo, Then, Replies, CallStages
<1>12. CASE Pokes
  BY <1>0, <1>12, <1>e DEF Pokes, Then, CallStages
<1>13. CASE ChangesTabs
  BY <1>0, <1>13, <1>e DEF ChangesTabs, Then, CallStages
<1>14. CASE Collapses
  BY <1>0, <1>14 DEF Collapses
<1>15. CASE Holds
  BY <1>15, <1>d DEF Holds, Then, CallStages
<1>16. CASE Presses
  BY <1>16, <1>c, <1>d DEF Presses, Replies, CallStages
<1>17. CASE Waits
  BY <1>17, <1>d DEF Waits, HeldEnds, CallStages
<1>18. CASE Releases
  BY <1>0, <1>18, <1>c, <1>d, <1>e DEF Releases, Replies, Then, CallStages
<1>19. CASE PageSlips
  BY <1>0, <1>19 DEF PageSlips, ShownIsChecked
<1> QED
  BY <1>1, <1>2, <1>3, <1>4, <1>5, <1>6, <1>7, <1>8, <1>9, <1>10, <1>11, <1>12, <1>13, <1>14, <1>15, <1>16,
     <1>17, <1>18, <1>19 DEF UseNext, UseProgress

\* What a sequence holds is its head and what its tail holds.
LEMMA HeadOrTail ==
  ASSUME NEW S, NEW s \in Seq(S), s # <<>>
  PROVE  Range(s) = {Head(s)} \cup Range(Tail(s))
<1>1. /\ Len(s) \in Nat \ {0} /\ DOMAIN s = 1..Len(s) /\ Head(s) = s[1] /\ Tail(s) \in Seq(S)
      /\ DOMAIN Tail(s) = 1..(Len(s) - 1) /\ \A i \in 1..(Len(s) - 1) : Tail(s)[i] = s[i + 1]
  BY HeadTailProperties, LenProperties, EmptySeq
<1>2. ASSUME NEW x \in Range(s) PROVE x \in {Head(s)} \cup Range(Tail(s))
  <2>1. PICK i \in 1..Len(s) : x = s[i]
    BY <1>1 DEF Range
  <2>2. CASE i = 1
    BY <1>1, <2>1, <2>2
  <2>3. CASE i # 1
    <3>1. i - 1 \in 1..(Len(s) - 1) /\ (i - 1) + 1 = i
      BY <1>1, <2>1, <2>3
    <3>2. Tail(s)[i - 1] = x
      BY <1>1, <2>1, <3>1
    <3> QED BY <1>1, <3>1, <3>2 DEF Range
  <2> QED BY <2>2, <2>3
<1>3. ASSUME NEW x \in {Head(s)} \cup Range(Tail(s)) PROVE x \in Range(s)
  <2>1. CASE x = Head(s)
    <3>1. 1 \in DOMAIN s /\ x = s[1]
      BY <1>1, <2>1
    <3> QED BY <3>1 DEF Range
  <2>2. CASE x \in Range(Tail(s))
    <3>1. PICK i \in 1..(Len(s) - 1) : x = Tail(s)[i]
      BY <1>1, <2>2 DEF Range
    <3>2. i + 1 \in DOMAIN s /\ x = s[i + 1]
      BY <1>1, <3>1
    <3> QED BY <3>2 DEF Range
  <2> QED BY <1>3, <2>1, <2>2
<1> QED BY <1>2, <1>3

\* ... and one that is put before another adds what it holds.
LEMMA PutFirst ==
  ASSUME NEW S, NEW s \in Seq(S), NEW u \in Seq(S)
  PROVE  Range(u \o s) = Range(u) \cup Range(s)
  BY RangeConcatenation

\* The keys that are down stay accounted for.
LEMMA UseAccounts == UseTypeOK /\ CallsInOrder /\ KeysAccounted /\ UseNext => KeysAccounted'
<1> SUFFICES ASSUME UseTypeOK, CallsInOrder, KeysAccounted, UseNext, ~keyRefused' PROVE KeysAccounted'
  BY DEF KeysAccounted
<1>0. toHold \in Seq(STRING) /\ toFree \in Seq(STRING)
  BY DEF UseTypeOK
<1> DEFINE Holding == {"pressing", "releasing", "failing"}
<1>1. CASE UNCHANGED keyVars /\ (doing \in Holding => doing' \in Holding)
  <2>1. /\ toFree' = toFree /\ keysDown' = keysDown /\ keyRefused' = keyRefused
        /\ (doing' \notin Holding => doing \notin Holding)
    BY <1>1 DEF keyVars
  <2>2. keysDown \subseteq Range(toFree) /\ (doing \notin Holding => keysDown = {})
    BY <2>1 DEF KeysAccounted
  <2> QED BY <1>1, <2>1, <2>2 DEF KeysAccounted
<1>2. CASE Holds
  BY <1>2 DEF Holds, KeysAccounted, Then
<1>3. CASE Presses
  <2>1. /\ keysDown' = keysDown \cup {Head(toHold)} /\ toFree' = <<Head(toHold)>> \o toFree /\ toHold # <<>>
        /\ doing' = "pressing" /\ keysDown \subseteq Range(toFree)
    BY <1>3 DEF Presses, KeysAccounted
  <2>2. <<Head(toHold)>> \in Seq(STRING) /\ Range(<<Head(toHold)>>) = {Head(toHold)}
    BY <1>0, <2>1, HeadTailProperties DEF Range
  <2>3. Range(<<Head(toHold)>> \o toFree) = Range(<<Head(toHold)>>) \cup Range(toFree)
    BY <1>0, <2>2, PutFirst
  <2> QED BY <2>1, <2>2, <2>3 DEF KeysAccounted
<1>4. CASE Waits
  BY <1>4 DEF Waits, HeldEnds, KeysAccounted, keyVars
<1>5. CASE Releases
  <2>1. CASE toFree # <<>>
    <3>1. keysDown' = keysDown \ {Head(toFree)} /\ toFree' = Tail(toFree) /\ doing' \in {"releasing", "failing"}
          /\ keysDown \subseteq Range(toFree)
      BY <1>5, <2>1 DEF Releases, KeysAccounted
    <3>2. Range(toFree) = {Head(toFree)} \cup Range(Tail(toFree))
      BY <1>0, <2>1, HeadOrTail
    <3> QED BY <3>1, <3>2 DEF KeysAccounted
  <2>2. CASE toFree = <<>>
    <3>1. UNCHANGED <<toFree, keysDown, keyRefused>> /\ keysDown = {}
      <4>1. Range(toFree) = {}
        BY <2>2 DEF Range
      <4> QED BY <1>5, <2>2, <4>1 DEF Releases, KeysAccounted
    <3> QED BY <3>1 DEF KeysAccounted
  <2> QED BY <2>1, <2>2
<1>6. CASE \/ ModelAnswers \/ TurnsSpent \/ TurnEnds \/ Observed \/ Declined \/ CallBegins \/ Halted \/ CallFails \/ PageSlips
  <2>1. UNCHANGED keyVars
    BY <1>6 DEF ModelAnswers, TurnsSpent, TurnEnds, Observed, Declined, CallBegins, Halted, CallFails, PageSlips
  <2>2. doing \in Holding => doing' \in Holding
    BY <1>6 DEF ModelAnswers, TurnsSpent, TurnEnds, Observed, Declined, CallBegins, MayBegin, Halted, CallFails, PageSlips, CallsInOrder
  <2> QED BY <1>1, <2>1, <2>2
<1>7. CASE Enforces \/ Looks \/ GoesTo \/ Pokes \/ ChangesTabs \/ Collapses
  BY <1>1, <1>7 DEF Enforces, Looks, GoesTo, Pokes, ChangesTabs, Collapses
<1> QED BY <1>2, <1>3, <1>4, <1>5, <1>6, <1>7 DEF UseNext, UseProgress

\* No step of the loop breaks it.
LEMMA UseStep == UseInv /\ [UseNext]_useVars => UseInv'
<1> SUFFICES ASSUME UseInv, [UseNext]_useVars PROVE UseInv'
  OBVIOUS
<1>1. CASE UseNext
  BY <1>1, UseTypes, UseOrders, UseShows, UseAccounts DEF UseInv
<1>2. CASE UNCHANGED useVars
  BY <1>2 DEF useVars, keyVars, UseInv, UseTypeOK, CallsInOrder, ShownIsChecked, KeysAccounted, AllGood, Halting, Offending, Owned
<1> QED BY <1>1, <1>2

\* What the invariant says of the turns.
LEMMA UseInvIsEnough == UseInv => TurnsAreSound
<1> SUFFICES ASSUME UseInv PROVE TurnsAreSound
  OBVIOUS
<1>1. OneAnswerEach
  BY DEF UseInv, CallsInOrder, OneAnswerEach
<1>2. ShownIsAllowed
  BY DEF UseInv, ShownIsChecked, ShownIsAllowed, CallStages
<1>3. HeldKeysReleased
  BY DEF UseInv, KeysAccounted, HeldKeysReleased
<1> QED BY <1>1, <1>2, <1>3 DEF TurnsAreSound

\* In the loop that lets a model use a computer each call has one answer, in order;
\* no forbidden address is shown unless the page slipped there after it was looked at;
\* and no key stays down unless a key command failed.
THEOREM TurnsStaySound == UseSpec => []TurnsAreSound
<1> QED BY InitUse, UseStep, UseInvIsEnough, PTL DEF UseSpec

----------------------------------------------------------------------------
(* The notes of the pages *)

\* A ring holds the latest of the notes it is for, in their order.
RingOf(ring, notes, limit) ==
  /\ ring \in Seq(Nat) /\ Len(ring) <= limit /\ Range(ring) \subseteq notes
  /\ \A i, j \in DOMAIN ring : i < j => ring[i] < ring[j]
  /\ \A n \in notes, i \in DOMAIN ring : ring[i] < n => n \in Range(ring)

\* The index has each request once, with its latest note; and in the order of their
\* notes all that were sent once.
Entry == [id : Requests, seq : Nat]
IndexOf(map, hops) ==
  /\ map \in Seq(Entry)
  /\ \A i \in DOMAIN map : map[i].seq \in hops[map[i].id] /\ \A m \in hops[map[i].id] : m <= map[i].seq
  /\ \A i, j \in DOMAIN map : map[i].id = map[j].id => i = j
  /\ \A i, j \in DOMAIN map : (i < j /\ hops[map[i].id] = {map[i].seq}) => map[i].seq < map[j].seq

Note == [of : Requests \cup {"console"}, outcome : {"none", "answered", "failed"}]
NotesTypeOK ==
  /\ entries \in Seq(Note) /\ consoleRing \in Seq(Nat)
  /\ network \in [Requests -> {"unsent", "sent", "answered", "failed"}]
  /\ readTo \in [Readers -> Nat] /\ heardBy \in [Readers -> SUBSET Nat] /\ repeated \in BOOLEAN

\* The entries of the requests, and of each request.
Sendings == {n \in DOMAIN entries : entries[n].of \in Requests}
HopsOf == [r \in Requests |-> Hops(r)]

\* A request that is in its ring, and was sent once, is in the index.
RingIsKeyed ==
  \A q \in Requests, n \in Range(requestRing) : HopsOf[q] = {n} => Keyed(requestsById, q) # {}

\* An entry shows the outcome of the last hop of its request, if any.
OutcomesTold ==
  /\ \A q \in Requests, n \in Range(requestRing) :
       (HopsOf[q] = {n} /\ network[q] \in {"answered", "failed"}) => entries[n].outcome = network[q]
  /\ \A n \in DOMAIN entries : entries[n].outcome # "none" => entries[n].of \in Requests
  /\ \A q \in Requests : \A n \in HopsOf[q] : entries[n].outcome # "none" =>
       network[q] \notin {"unsent", "sent"} /\ \A m \in HopsOf[q] : m <= n

\* A reader has heard nothing it has not read up to.
CursorsKept ==
  /\ CursorMissesNothing
  /\ \A d \in Readers : readTo[d] <= Len(entries) /\ \A n \in heardBy[d] : n <= readTo[d]

\* What the notes keep.
NotesInv ==
  /\ NotesTypeOK
  /\ RingOf(requestRing, Sendings, RequestLimit) /\ Range(consoleRing) \subseteq DOMAIN entries
  /\ IndexOf(requestsById, HopsOf) /\ Len(requestsById) <= RequestLimit
  /\ RingIsKeyed /\ OutcomesTold /\ CursorsKept

\* What is left of a sequence without its head.
LEMMA Tailed ==
  ASSUME NEW S, NEW s \in Seq(S), s # <<>>
  PROVE  /\ Tail(s) \in Seq(S) /\ Len(s) \in Nat \ {0} /\ Len(Tail(s)) = Len(s) - 1
         /\ DOMAIN s = 1..Len(s) /\ DOMAIN Tail(s) = 1..(Len(s) - 1)
         /\ \A i \in 1..(Len(s) - 1) : Tail(s)[i] = s[i + 1] /\ i + 1 \in 1..Len(s)
         /\ Range(Tail(s)) \subseteq Range(s)
         /\ \A x \in Range(s) : x # s[1] => x \in Range(Tail(s))
<1>1. /\ Tail(s) \in Seq(S) /\ Len(s) \in Nat \ {0} /\ Len(Tail(s)) = Len(s) - 1
      /\ DOMAIN s = 1..Len(s) /\ DOMAIN Tail(s) = 1..(Len(s) - 1)
      /\ \A i \in 1..(Len(s) - 1) : Tail(s)[i] = s[i + 1]
  BY HeadTailProperties, LenProperties, EmptySeq
<1>2. \A i \in 1..(Len(s) - 1) : i + 1 \in 1..Len(s)
  BY <1>1
<1>3. ASSUME NEW x \in Range(Tail(s)) PROVE x \in Range(s)
  <2>1. PICK i \in 1..(Len(s) - 1) : x = Tail(s)[i]
    BY <1>1 DEF Range
  <2>2. i + 1 \in DOMAIN s /\ x = s[i + 1]
    BY <1>1, <1>2, <2>1
  <2> QED BY <2>2 DEF Range
<1>4. ASSUME NEW x \in Range(s), x # s[1] PROVE x \in Range(Tail(s))
  <2>1. PICK i \in 1..Len(s) : x = s[i]
    BY <1>1 DEF Range
  <2>2. i - 1 \in 1..(Len(s) - 1) /\ (i - 1) + 1 = i
    BY <1>1, <1>4, <2>1
  <2>3. i - 1 \in DOMAIN Tail(s) /\ x = Tail(s)[i - 1]
    BY <1>1, <2>1, <2>2
  <2> QED BY <2>3 DEF Range
<1> QED BY <1>1, <1>2, <1>3, <1>4

\* What a sequence holds with one element more.
LEMMA Longer ==
  ASSUME NEW S, NEW s \in Seq(S), NEW x \in S
  PROVE  Range(Append(s, x)) = Range(s) \cup {x}
<1>1. /\ DOMAIN Append(s, x) = 1..(Len(s) + 1) /\ DOMAIN s = 1..Len(s) /\ Len(s) \in Nat
      /\ \A i \in 1..Len(s) : Append(s, x)[i] = s[i]
      /\ Append(s, x)[Len(s) + 1] = x
  BY Appended
<1>2. \A i \in 1..(Len(s) + 1) : i \in 1..Len(s) \/ i = Len(s) + 1
  BY <1>1
<1>3. \A i \in 1..(Len(s) + 1) : Append(s, x)[i] \in Range(s) \cup {x}
  BY <1>1, <1>2 DEF Range
<1>4. x \in Range(Append(s, x))
  <2>1. Len(s) + 1 \in DOMAIN Append(s, x)
    BY <1>1
  <2> QED BY <1>1, <2>1 DEF Range
<1>5. ASSUME NEW i \in 1..Len(s) PROVE s[i] \in Range(Append(s, x))
  <2>1. i \in DOMAIN Append(s, x) /\ Append(s, x)[i] = s[i]
    BY <1>1
  <2> QED BY <2>1 DEF Range
<1> QED BY <1>1, <1>3, <1>4, <1>5 DEF Range

\* The newest note goes into its ring, and the oldest goes when there are too many.
LEMMA RingPushed ==
  ASSUME NEW notes \in SUBSET Nat, NEW limit \in Nat, NEW ring, RingOf(ring, notes, limit),
         NEW new \in Nat, \A n \in notes : n < new
  PROVE  RingOf(Push(ring, new, limit), notes \cup {new}, limit)
<1> DEFINE longer == Append(ring, new)
           k == Len(ring)
<1>1. /\ ring \in Seq(Nat) /\ k \in Nat /\ k <= limit /\ DOMAIN ring = 1..k /\ Range(ring) \subseteq notes
      /\ \A i, j \in 1..k : i < j => ring[i] < ring[j]
      /\ \A n \in notes, i \in 1..k : ring[i] < n => n \in Range(ring)
      /\ \A i \in 1..k : ring[i] \in notes
  BY LenProperties DEF RingOf, Range
<1>2. /\ longer \in Seq(Nat) /\ Len(longer) = k + 1 /\ DOMAIN longer = 1..(k + 1)
      /\ (\A i \in 1..k : longer[i] = ring[i]) /\ longer[k + 1] = new /\ Range(longer) = Range(ring) \cup {new}
  BY <1>1, Appended, Longer
<1> HIDE DEF longer, k
<1>3. \A i, j \in 1..(k + 1) : i < j => longer[i] < longer[j]
  <2> SUFFICES ASSUME NEW i \in 1..(k + 1), NEW j \in 1..(k + 1), i < j PROVE longer[i] < longer[j]
    OBVIOUS
  <2>1. i \in 1..k /\ longer[i] = ring[i] /\ (j \in 1..k \/ j = k + 1)
    BY <1>1, <1>2
  <2> QED BY <1>1, <1>2, <2>1
<1>4. \A n \in notes \cup {new}, i \in 1..(k + 1) : longer[i] < n => n \in Range(longer)
  <2> SUFFICES ASSUME NEW n \in notes \cup {new}, NEW i \in 1..(k + 1), longer[i] < n PROVE n \in Range(longer)
    OBVIOUS
  <2>1. CASE n = new
    BY <1>2, <2>1
  <2>2. CASE n \in notes /\ i \in 1..k
    BY <1>1, <1>2, <2>2
  <2>3. CASE n \in notes /\ i = k + 1
    <3>1. n < new /\ new < n /\ n \in Nat
      BY <1>2, <2>3
    <3> QED BY <3>1
  <2> QED BY <1>1, <2>1, <2>2, <2>3
<1>5. CASE k + 1 <= limit
  <2>1. Push(ring, new, limit) = longer
    BY <1>1, <1>2, <1>5 DEF Push, longer
  <2> QED BY <1>1, <1>2, <1>3, <1>4, <1>5, <2>1 DEF RingOf
<1>6. CASE k + 1 > limit
  <2> DEFINE t == Tail(longer)
  <2>1. Push(ring, new, limit) = t
    BY <1>1, <1>2, <1>6 DEF Push, longer
  <2>2. longer # <<>>
    BY <1>1, <1>2, EmptySeq
  <2>3. /\ t \in Seq(Nat) /\ Len(t) = k /\ DOMAIN t = 1..k
        /\ \A i \in 1..k : t[i] = longer[i + 1] /\ i + 1 \in 1..(k + 1)
        /\ Range(t) \subseteq Range(longer)
        /\ \A x \in Range(longer) : x # longer[1] => x \in Range(t)
    <3>1. (k + 1) - 1 = k
      BY <1>1
    <3> QED BY <1>1, <1>2, <2>2, <3>1, Tailed
  <2> HIDE DEF t
  <2>4. \A i, j \in 1..k : i < j => t[i] < t[j]
    <3> SUFFICES ASSUME NEW i \in 1..k, NEW j \in 1..k, i < j PROVE t[i] < t[j]
      OBVIOUS
    <3>1. i + 1 < j + 1 /\ i + 1 \in 1..(k + 1) /\ j + 1 \in 1..(k + 1)
      BY <1>1
    <3> QED BY <1>3, <2>3, <3>1
  <2>5. \A n \in notes \cup {new}, i \in 1..k : t[i] < n => n \in Range(t)
    <3> SUFFICES ASSUME NEW n \in notes \cup {new}, NEW i \in 1..k, t[i] < n PROVE n \in Range(t)
      OBVIOUS
    <3>1. i + 1 \in 1..(k + 1) /\ t[i] = longer[i + 1] /\ 1 \in 1..(k + 1) /\ 1 < i + 1
      BY <1>1, <2>3
    <3>2. n \in Range(longer) /\ longer[1] < longer[i + 1]
      BY <1>3, <1>4, <3>1
    <3>3. longer[1] \in Nat /\ longer[i + 1] \in Nat /\ n \in Nat
      BY <1>1, <1>2, <3>1, ElementOfSeq
    <3>4. n # longer[1]
      BY <3>1, <3>2, <3>3
    <3> QED BY <2>3, <3>2, <3>4
  <2> QED BY <1>1, <1>2, <2>1, <2>3, <2>4, <2>5 DEF RingOf
<1> QED BY <1>1, <1>5, <1>6

\* What it says, over the positions of the index.
LEMMA IndexOver ==
  ASSUME NEW map, NEW hops, NEW D, DOMAIN map = D
  PROVE  IndexOf(map, hops) <=>
           /\ map \in Seq(Entry)
           /\ \A i \in D : map[i].seq \in hops[map[i].id] /\ \A m \in hops[map[i].id] : m <= map[i].seq
           /\ \A i, j \in D : map[i].id = map[j].id => i = j
           /\ \A i, j \in D : (i < j /\ hops[map[i].id] = {map[i].seq}) => map[i].seq < map[j].seq
  BY Zenon DEF IndexOf

\* The entries of an index.
LEMMA EntryFields ==
  ASSUME NEW map \in Seq(Entry)
  PROVE  /\ Len(map) \in Nat /\ DOMAIN map = 1..Len(map)
         /\ \A i \in 1..Len(map) : map[i] \in Entry /\ map[i].id \in Requests /\ map[i].seq \in Nat
<1>1. \A i \in 1..Len(map) : map[i] \in Entry
  BY ElementOfSeq
<1>2. \A e \in Entry : e.id \in Requests /\ e.seq \in Nat
  BY DEF Entry
<1> QED BY <1>1, <1>2, LenProperties

\* A request that is sent, once more or for the first time, is indexed by its new note.
LEMMA IndexRekeyed ==
  ASSUME NEW hops \in [Requests -> SUBSET Nat], NEW map, IndexOf(map, hops), NEW r \in Requests, NEW new \in Nat,
         \A q \in Requests : \A m \in hops[q] : m < new
  PROVE  LET map2 == Rekeyed(map, r, new)
             hops2 == [hops EXCEPT ![r] = @ \cup {new}] IN
         /\ IndexOf(map2, hops2) /\ Len(map2) <= Len(map) + 1 /\ Len(map2) \in Nat
         /\ \A q \in Requests : Keyed(map2, q) # {} <=> q = r \/ Keyed(map, q) # {}
<1> DEFINE k == Len(map)
           map2 == Rekeyed(map, r, new)
           hops2 == [hops EXCEPT ![r] = @ \cup {new}]
           one == [id |-> r, seq |-> new]
<1>1. /\ map \in Seq(Entry) /\ k \in Nat /\ DOMAIN map = 1..k
      /\ \A i \in 1..k : map[i] \in Entry /\ map[i].id \in Requests /\ map[i].seq \in Nat
      /\ \A i \in 1..k : map[i].seq \in hops[map[i].id] /\ \A m \in hops[map[i].id] : m <= map[i].seq
      /\ \A i, j \in 1..k : map[i].id = map[j].id => i = j
      /\ \A i, j \in 1..k : (i < j /\ hops[map[i].id] = {map[i].seq}) => map[i].seq < map[j].seq
  <2>1. map \in Seq(Entry)
    BY DEF IndexOf
  <2>2. k \in Nat /\ DOMAIN map = 1..k
    BY <2>1, LenProperties
  <2>3. \A i \in 1..k : map[i] \in Entry /\ map[i].id \in Requests /\ map[i].seq \in Nat
    BY <2>1, EntryFields
  <2> QED BY <2>1, <2>2, <2>3, IndexOver
<1>2. /\ hops2[r] = hops[r] \cup {new} /\ \A q \in Requests : q # r => hops2[q] = hops[q]
      /\ one \in Entry /\ one.id = r /\ one.seq = new
      /\ \A m \in hops2[r] : m <= new
  BY DEF Entry
<1>3. \A q : Keyed(map, q) = {i \in 1..k : map[i].id = q}
  BY <1>1 DEF Keyed
<1>4. CASE Keyed(map, r) = {}
  <2>1. map2 = Append(map, one) /\ \A i \in 1..k : map[i].id # r
    BY <1>3, <1>4 DEF Rekeyed
  <2>2. /\ map2 \in Seq(Entry) /\ Len(map2) = k + 1 /\ DOMAIN map2 = 1..(k + 1)
        /\ (\A i \in 1..k : map2[i] = map[i]) /\ map2[k + 1] = one
    BY <1>1, <1>2, <2>1, Appended
  <2> HIDE DEF map2, hops2, one, k
  <2>3. \A i \in 1..(k + 1) : i \in 1..k \/ i = k + 1
    BY <1>1
  <2>4. \A i \in 1..k : hops2[map[i].id] = hops[map[i].id]
    BY <1>1, <1>2, <2>1
  <2>5. \A i \in 1..(k + 1) : map2[i].seq \in hops2[map2[i].id] /\ \A m \in hops2[map2[i].id] : m <= map2[i].seq
    <3> TAKE i \in 1..(k + 1)
    <3>1. CASE i \in 1..k
      BY <1>1, <2>2, <2>4, <3>1
    <3>2. CASE i = k + 1
      BY <1>2, <2>2, <3>2
    <3> QED BY <2>3, <3>1, <3>2
  <2>6. \A i, j \in 1..(k + 1) : map2[i].id = map2[j].id => i = j
    <3> TAKE i, j \in 1..(k + 1)
    <3>1. CASE i \in 1..k /\ j \in 1..k
      BY <1>1, <2>2, <3>1
    <3>2. CASE i = k + 1 \/ j = k + 1
      BY <1>2, <2>1, <2>2, <2>3, <3>2
    <3> QED BY <2>3, <3>1, <3>2
  <2>7. \A i, j \in 1..(k + 1) : (i < j /\ hops2[map2[i].id] = {map2[i].seq}) => map2[i].seq < map2[j].seq
    <3> SUFFICES ASSUME NEW i \in 1..(k + 1), NEW j \in 1..(k + 1), i < j, hops2[map2[i].id] = {map2[i].seq}
                 PROVE map2[i].seq < map2[j].seq
      OBVIOUS
    <3>1. i \in 1..k
      BY <1>1
    <3>2. CASE j \in 1..k
      BY <1>1, <2>2, <2>4, <3>1, <3>2
    <3>3. CASE j = k + 1
      <4>1. map2[i] = map[i] /\ map[i].seq \in hops[map[i].id] /\ map[i].id \in Requests /\ map2[j].seq = new
        BY <1>1, <1>2, <2>2, <3>1, <3>3
      <4> QED BY <4>1
    <3> QED BY <2>3, <3>2, <3>3
  <2>8. \A q \in Requests : Keyed(map2, q) # {} <=> q = r \/ Keyed(map, q) # {}
    <3> TAKE q \in Requests
    <3>1. Keyed(map2, q) = {i \in 1..(k + 1) : map2[i].id = q}
      BY <2>2 DEF Keyed
    <3>2. k + 1 \in 1..(k + 1) /\ \A i \in 1..k : i \in 1..(k + 1)
      BY <1>1
    <3>3. CASE q = r
      BY <1>2, <2>2, <3>1, <3>2, <3>3
    <3>4. CASE q # r
      <4>1. \A i \in 1..(k + 1) : map2[i].id = q => i \in 1..k /\ map[i].id = q
        BY <1>2, <2>2, <2>3, <3>4
      <4>2. \A i \in 1..k : map[i].id = q => map2[i].id = q
        BY <2>2
      <4> QED BY <1>3, <3>1, <3>2, <3>4, <4>1, <4>2
    <3> QED BY <3>3, <3>4
  <2>9. IndexOf(map2, hops2) /\ Len(map2) <= k + 1 /\ Len(map2) \in Nat
    <3>1. IndexOf(map2, hops2)
      BY <2>2, <2>5, <2>6, <2>7, IndexOver
    <3> QED BY <1>1, <2>2, <3>1
  <2> QED BY <2>8, <2>9 DEF map2, hops2, k, one
<1>5. CASE Keyed(map, r) # {}
  <2>1. /\ map2 = [i \in 1..k |-> IF map[i].id = r THEN one ELSE map[i]]
        /\ \A i \in 1..k : map2[i] = IF map[i].id = r THEN one ELSE map[i]
    <3>1. map2 = [i \in DOMAIN map |-> IF map[i].id = r THEN one ELSE map[i]]
      BY <1>5 DEF Rekeyed
    <3>2. map2 = [i \in 1..k |-> IF map[i].id = r THEN one ELSE map[i]]
      BY <1>1, <3>1
    <3> HIDE DEF map2, one
    <3> QED BY <3>2
  <2>2. map2 \in Seq(Entry) /\ Len(map2) = k /\ DOMAIN map2 = 1..k
    <3>1. map2 \in [1..k -> Entry]
      BY <1>1, <1>2, <2>1
    <3>2. map2 \in Seq(Entry)
      BY <1>1, <3>1, SeqDef
    <3> QED BY <1>1, <3>1, <3>2, LenProperties
  <2>3. PICK p \in 1..k : map[p].id = r
    BY <1>3, <1>5
  <2> HIDE DEF map2, hops2, one, k
  <2>4. \A i \in 1..k : map2[i].id = map[i].id
    BY <1>2, <2>1
  <2>5. \A i \in 1..k : map[i].id # r => hops2[map[i].id] = hops[map[i].id] /\ map2[i].seq = map[i].seq
    BY <1>1, <1>2, <2>1
  <2>6. \A i \in 1..k : map[i].id = r => map2[i].seq = new /\ hops2[map[i].id] = hops[r] \cup {new}
    BY <1>2, <2>1
  <2>7. \A i \in 1..k : map2[i].seq \in hops2[map2[i].id] /\ \A m \in hops2[map2[i].id] : m <= map2[i].seq
    <3> TAKE i \in 1..k
    <3>1. CASE map[i].id = r
      BY <1>2, <2>4, <2>6, <3>1
    <3>2. CASE map[i].id # r
      BY <1>1, <2>4, <2>5, <3>2
    <3> QED BY <3>1, <3>2
  <2>8. \A i, j \in 1..k : map2[i].id = map2[j].id => i = j
    BY <1>1, <2>4
  <2>9. \A i, j \in 1..k : (i < j /\ hops2[map2[i].id] = {map2[i].seq}) => map2[i].seq < map2[j].seq
    <3> SUFFICES ASSUME NEW i \in 1..k, NEW j \in 1..k, i < j, hops2[map2[i].id] = {map2[i].seq}
                 PROVE map2[i].seq < map2[j].seq
      OBVIOUS
    <3>1. map[i].id # r
      <4> SUFFICES ASSUME map[i].id = r PROVE FALSE
        OBVIOUS
      <4>1. map[i].seq \in hops[r] /\ hops[r] \cup {new} = {new} /\ map[i].seq < new
        BY <1>1, <2>4, <2>6
      <4>2. map[i].seq = new /\ new \in Nat
        BY <4>1
      <4> QED BY <4>1, <4>2
    <3>2. CASE map[j].id = r
      <4>1. map[i].seq \in hops[map[i].id] /\ map[i].id \in Requests
        BY <1>1
      <4>2. map[i].seq < new
        BY <4>1
      <4>3. map2[i].seq = map[i].seq /\ map2[j].seq = new
        BY <2>5, <2>6, <3>1, <3>2
      <4> QED BY <4>2, <4>3, Zenon
    <3>3. CASE map[j].id # r
      <4>1. map2[i].seq = map[i].seq /\ map2[j].seq = map[j].seq /\ map2[i].id = map[i].id
        BY <2>4, <2>5, <3>1, <3>3
      <4>2. hops[map[i].id] = {map[i].seq}
        BY <2>5, <3>1, <4>1
      <4>3. map[i].seq < map[j].seq
        BY <1>1, <4>2
      <4> QED BY <4>1, <4>3, Zenon
    <3> QED BY <3>2, <3>3
  <2>10. \A q \in Requests : Keyed(map2, q) # {} <=> q = r \/ Keyed(map, q) # {}
    <3> TAKE q \in Requests
    <3>1. Keyed(map2, q) = {i \in 1..k : map2[i].id = q}
      BY <2>2 DEF Keyed
    <3>2. Keyed(map2, q) = Keyed(map, q)
      BY <1>3, <2>4, <3>1
    <3> QED BY <1>5, <3>2
  <2>11. IndexOf(map2, hops2) /\ Len(map2) <= k + 1 /\ Len(map2) \in Nat
    <3>1. IndexOf(map2, hops2)
      BY <2>2, <2>7, <2>8, <2>9, IndexOver
    <3> QED BY <1>1, <2>2, <3>1
  <2> QED BY <2>10, <2>11 DEF map2, hops2, k, one
<1> QED BY <1>4, <1>5

\* The index without its first entry.
LEMMA IndexEvicts ==
  ASSUME NEW hops \in [Requests -> SUBSET Nat], NEW map, IndexOf(map, hops), map # <<>>
  PROVE  /\ IndexOf(Tail(map), hops) /\ map[1].id \in Requests
         /\ \A q \in Requests : q # map[1].id /\ Keyed(map, q) # {} => Keyed(Tail(map), q) # {}
<1> DEFINE k == Len(map) - 1
           t == Tail(map)
<1>1. /\ map \in Seq(Entry) /\ t \in Seq(Entry) /\ k \in Nat /\ DOMAIN map = 1..(k + 1) /\ DOMAIN t = 1..k
      /\ \A i \in 1..k : t[i] = map[i + 1] /\ i + 1 \in 1..(k + 1)
  BY Tailed DEF IndexOf
<1>2. /\ \A i \in 1..(k + 1) : map[i].seq \in hops[map[i].id] /\ \A m \in hops[map[i].id] : m <= map[i].seq
      /\ \A i, j \in 1..(k + 1) : map[i].id = map[j].id => i = j
      /\ \A i, j \in 1..(k + 1) : (i < j /\ hops[map[i].id] = {map[i].seq}) => map[i].seq < map[j].seq
  BY <1>1 DEF IndexOf
<1> HIDE DEF k, t
<1>3. \A i \in 1..k : t[i].seq \in hops[t[i].id] /\ \A m \in hops[t[i].id] : m <= t[i].seq
  BY <1>1, <1>2
<1>4. \A i, j \in 1..k : t[i].id = t[j].id => i = j
  <2> TAKE i, j \in 1..k
  <2>1. t[i] = map[i + 1] /\ t[j] = map[j + 1] /\ i + 1 \in 1..(k + 1) /\ j + 1 \in 1..(k + 1)
    BY <1>1
  <2>2. t[i].id = t[j].id => i + 1 = j + 1
    BY <1>2, <2>1
  <2> QED BY <2>2
<1>5. \A i, j \in 1..k : (i < j /\ hops[t[i].id] = {t[i].seq}) => t[i].seq < t[j].seq
  <2> TAKE i, j \in 1..k
  <2>1. t[i] = map[i + 1] /\ t[j] = map[j + 1] /\ i + 1 \in 1..(k + 1) /\ j + 1 \in 1..(k + 1)
    BY <1>1
  <2>2. i < j => i + 1 < j + 1
    OBVIOUS
  <2> QED BY <1>2, <2>1, <2>2
<1>6. map[1].id \in Requests
  <2>1. 1 \in DOMAIN map
    BY <1>1
  <2> QED BY <1>1, <2>1, EntryFields
<1>7. ASSUME NEW q \in Requests, q # map[1].id, Keyed(map, q) # {} PROVE Keyed(t, q) # {}
  <2>1. PICK i \in 1..(k + 1) : map[i].id = q
    BY <1>1, <1>7 DEF Keyed
  <2>2. i - 1 \in 1..k /\ (i - 1) + 1 = i
    BY <1>1, <1>7, <2>1
  <2>3. t[i - 1] = map[i] /\ i - 1 \in DOMAIN t
    BY <1>1, <2>2
  <2> QED BY <2>1, <2>3 DEF Keyed
<1> QED BY <1>1, <1>3, <1>4, <1>5, <1>6, <1>7 DEF IndexOf, t

\* How many numbers there are up to one.
LEMMA Interval == ASSUME NEW m \in Nat PROVE IsFiniteSet(1..m) /\ Cardinality(1..m) = m
<1>1. 1 \in Int /\ m \in Int
  OBVIOUS
<1>2. IsFiniteSet(1..m) /\ Cardinality(1..m) = IF 1 > m THEN 0 ELSE m - 1 + 1
  BY <1>1, FS_Interval, Zenon
<1> QED BY <1>2

\* An index longer than a ring has forgotten by then what the ring has: the first of
\* its requests, if it was sent once, is older than all of the ring.
LEMMA FullIndexPasses ==
  ASSUME NEW hops \in [Requests -> SUBSET Nat], NEW notes \in SUBSET Nat, NEW limit \in Nat,
         NEW map, NEW ring, IndexOf(map, hops), RingOf(ring, notes, limit),
         \A q \in Requests : hops[q] \subseteq notes,
         \A p, q \in Requests : p # q => hops[p] \cap hops[q] = {},
         Len(map) > limit, hops[map[1].id] = {map[1].seq}
  PROVE  map[1].seq \notin Range(ring)
<1> SUFFICES ASSUME map[1].seq \in Range(ring) PROVE FALSE
  OBVIOUS
<1> DEFINE k == Len(map)
           l == Len(ring)
<1>1. /\ map \in Seq(Entry) /\ k \in Nat /\ DOMAIN map = 1..k
      /\ \A i \in 1..k : map[i].id \in Requests /\ map[i].seq \in Nat
  BY EntryFields DEF IndexOf
<1>2. /\ \A i \in 1..k : map[i].seq \in hops[map[i].id]
      /\ \A i, j \in 1..k : map[i].id = map[j].id => i = j
      /\ \A i, j \in 1..k : (i < j /\ hops[map[i].id] = {map[i].seq}) => map[i].seq < map[j].seq
  <2> DEFINE D == 1..k
  <2>1. DOMAIN map = D
    BY <1>1
  <2> HIDE DEF D
  <2>2. /\ \A i \in D : map[i].seq \in hops[map[i].id]
        /\ \A i, j \in D : map[i].id = map[j].id => i = j
        /\ \A i, j \in D : (i < j /\ hops[map[i].id] = {map[i].seq}) => map[i].seq < map[j].seq
    BY <2>1, IndexOver
  <2> QED BY <2>2 DEF D
<1>3. /\ l \in Nat /\ l <= limit /\ DOMAIN ring = 1..l
      /\ \A n \in notes, i \in 1..l : ring[i] < n => n \in Range(ring)
  BY LenProperties DEF RingOf
<1> HIDE DEF k, l
<1>4. PICK p \in 1..l : ring[p] = map[1].seq
  BY <1>3 DEF Range
<1>5. l < k /\ 1 \in 1..k
  BY <1>1, <1>3 DEF k
<1>6. \A j \in 1..k : \E i \in 1..l : ring[i] = map[j].seq
  <2> TAKE j \in 1..k
  <2>1. CASE j = 1
    BY <1>4, <2>1
  <2>2. CASE j # 1
    <3>1. 1 < j
      BY <1>1, <2>2
    <3>2. map[1].seq < map[j].seq
      BY <1>2, <1>5, <3>1
    <3>3. map[j].seq \in notes
      BY <1>1, <1>2
    <3>4. map[j].seq \in Range(ring)
      BY <1>3, <1>4, <3>2, <3>3
    <3> QED BY <1>3, <3>4 DEF Range
  <2> QED BY <2>1, <2>2
<1> DEFINE place(j) == CHOOSE i \in 1..l : ring[i] = map[j].seq
           f == [j \in 1..k |-> place(j)]
<1>7. f \in [1..k -> 1..l] /\ \A j \in 1..k : ring[f[j]] = map[j].seq
  <2>1. \A j \in 1..k : place(j) \in 1..l /\ ring[place(j)] = map[j].seq
    BY <1>6
  <2> HIDE DEF place
  <2> QED BY <2>1
<1> HIDE DEF f
<1>8. /\ IsFiniteSet(1..k) /\ IsFiniteSet(1..l) /\ Cardinality(1..k) = k /\ Cardinality(1..l) = l
  BY <1>1, <1>3, Interval
<1>9. \E x, y \in 1..k : x # y /\ f[x] = f[y]
  <2> DEFINE A == 1..k
             B == 1..l
  <2>1. IsFiniteSet(A) /\ IsFiniteSet(B) /\ Cardinality(B) < Cardinality(A) /\ f \in [A -> B]
    BY <1>5, <1>7, <1>8
  <2> HIDE DEF A, B
  <2>2. \E x, y \in A : x # y /\ f[x] = f[y]
    BY <2>1, FS_PigeonHole
  <2> QED BY <2>2 DEF A
<1>10. PICK x \in 1..k, y \in 1..k : x # y /\ f[x] = f[y]
  BY <1>9
<1>11. map[x].seq = map[y].seq
  BY <1>7, <1>10
<1>12. map[x].id # map[y].id /\ map[x].seq \in hops[map[x].id] \cap hops[map[y].id]
  BY <1>2, <1>10, <1>11
<1> QED BY <1>1, <1>12

\* What is known of the notes whatever they are.
LEMMA NotesBasics ==
  ASSUME NotesTypeOK
  PROVE  /\ Len(entries) \in Nat /\ DOMAIN entries = 1..Len(entries) /\ NextSeq \in Nat
         /\ \A n \in DOMAIN entries : n \in Nat /\ n < NextSeq /\ entries[n].of \in Requests \cup {"console"}
         /\ HopsOf \in [Requests -> SUBSET Nat] /\ Sendings \in SUBSET Nat /\ RequestLimit \in Nat
         /\ \A q \in Requests : HopsOf[q] \subseteq Sendings /\ \A n : n \in HopsOf[q] <=> (n \in DOMAIN entries /\ entries[n].of = q)
         /\ \A p, q \in Requests : p # q => HopsOf[p] \cap HopsOf[q] = {}
         /\ \A n \in Sendings : n < NextSeq
<1>1. Len(entries) \in Nat /\ DOMAIN entries = 1..Len(entries) /\ NextSeq \in Nat
  BY LenProperties DEF NotesTypeOK, NextSeq
<1>2. \A n \in DOMAIN entries : n \in Nat /\ n < NextSeq
  BY <1>1 DEF NextSeq
<1>3. \A n \in DOMAIN entries : entries[n].of \in Requests \cup {"console"}
  <2>1. \A n \in DOMAIN entries : entries[n] \in Note
    BY <1>1, ElementOfSeq DEF NotesTypeOK
  <2> QED BY <2>1 DEF Note
<1>4. HopsOf \in [Requests -> SUBSET Nat] /\ Sendings \in SUBSET Nat /\ \A n \in Sendings : n < NextSeq
  BY <1>2 DEF HopsOf, Hops, Sendings
<1>5. \A q \in Requests : HopsOf[q] \subseteq Sendings /\ \A n : n \in HopsOf[q] <=> (n \in DOMAIN entries /\ entries[n].of = q)
  BY DEF HopsOf, Hops, Sendings
<1>6. \A p, q \in Requests : p # q => HopsOf[p] \cap HopsOf[q] = {}
  BY <1>5
<1>7. RequestLimit \in Nat
  <2>1. Limit \in Nat /\ REQUEST_LIMIT_FACTOR \in Nat
    BY NotesAssumption
  <2>2. \A a, b \in Nat : a * b \in Nat
    OBVIOUS
  <2> QED BY <2>1, <2>2 DEF RequestLimit
<1> QED BY <1>1, <1>2, <1>3, <1>4, <1>5, <1>6, <1>7

\* What one note more changes.
LEMMA NotesGrow ==
  ASSUME NotesTypeOK, NEW x \in Requests \cup {"console"}, entries' = Append(entries, [of |-> x, outcome |-> "none"])
  PROVE  /\ entries' \in Seq(Note) /\ Len(entries') = Len(entries) + 1
         /\ DOMAIN entries' = DOMAIN entries \cup {NextSeq} /\ NextSeq \notin DOMAIN entries
         /\ (\A n \in DOMAIN entries : entries'[n] = entries[n])
         /\ entries'[NextSeq].of = x /\ entries'[NextSeq].outcome = "none"
         /\ \A q \in Requests : HopsOf'[q] = IF q = x THEN HopsOf[q] \cup {NextSeq} ELSE HopsOf[q]
         /\ Sendings' = IF x \in Requests THEN Sendings \cup {NextSeq} ELSE Sendings
<1> DEFINE e == [of |-> x, outcome |-> "none"]
<1>1. e \in Note /\ e.of = x /\ e.outcome = "none" /\ entries \in Seq(Note) /\ entries' = Append(entries, e)
  BY DEF Note, NotesTypeOK
<1> HIDE DEF e
<1>2. /\ entries' \in Seq(Note) /\ Len(entries') = Len(entries) + 1 /\ Len(entries) \in Nat
      /\ DOMAIN entries' = 1..(Len(entries) + 1) /\ DOMAIN entries = 1..Len(entries)
      /\ (\A n \in 1..Len(entries) : entries'[n] = entries[n]) /\ entries'[Len(entries) + 1] = e
  BY <1>1, Appended
<1>3. /\ DOMAIN entries' = DOMAIN entries \cup {NextSeq} /\ NextSeq \notin DOMAIN entries
      /\ \A n \in DOMAIN entries : entries'[n] = entries[n]
      /\ entries'[NextSeq] = e
  BY <1>2 DEF NextSeq
<1>4. \A q \in Requests : HopsOf'[q] = IF q = x THEN HopsOf[q] \cup {NextSeq} ELSE HopsOf[q]
  <2> TAKE q \in Requests
  <2>1. HopsOf'[q] = {n \in DOMAIN entries' : entries'[n].of = q}
    BY DEF HopsOf, Hops
  <2>2. HopsOf[q] = {n \in DOMAIN entries : entries[n].of = q}
    BY DEF HopsOf, Hops
  <2> QED BY <1>1, <1>3, <2>1, <2>2
<1>5. Sendings' = IF x \in Requests THEN Sendings \cup {NextSeq} ELSE Sendings
  <2>1. Sendings' = {n \in DOMAIN entries' : entries'[n].of \in Requests}
    BY DEF Sendings
  <2>2. Sendings = {n \in DOMAIN entries : entries[n].of \in Requests}
    BY DEF Sendings
  <2> QED BY <1>1, <1>3, <2>1, <2>2
<1> QED BY <1>1, <1>2, <1>3, <1>4, <1>5

\* What is put into a ring, and may stay there.
LEMMA PushHolds ==
  ASSUME NEW s \in Seq(Nat), NEW x \in Nat, NEW limit
  PROVE  Push(s, x, limit) \in Seq(Nat) /\ Range(Push(s, x, limit)) \subseteq Range(s) \cup {x}
<1> DEFINE longer == Append(s, x)
<1>1. longer \in Seq(Nat) /\ Range(longer) = Range(s) \cup {x} /\ longer # <<>>
  <2>1. Len(longer) = Len(s) + 1 /\ Len(s) \in Nat
    BY Appended
  <2> QED BY <2>1, Appended, Longer, EmptySeq
<1>2. Push(s, x, limit) \in {longer, Tail(longer)}
  BY DEF Push
<1> HIDE DEF longer
<1>3. Tail(longer) \in Seq(Nat) /\ Range(Tail(longer)) \subseteq Range(longer)
  BY <1>1, Tailed
<1> QED BY <1>1, <1>2, <1>3

\* What an index says of the requests it has.
LEMMA KeyedMeans == \A q : Keyed(requestsById, q)' = {i \in DOMAIN requestsById' : requestsById'[i].id = q}
  BY DEF Keyed

\* The readers' part of it when a note is added.
LEMMA CursorsStay ==
  ASSUME NotesTypeOK, CursorsKept, NextSeq \in Nat, Len(entries) \in Nat, Len(entries') = Len(entries) + 1,
         UNCHANGED <<readTo, heardBy, repeated>>,
         Range(consoleRing') \cup Range(requestRing') \subseteq Range(consoleRing) \cup Range(requestRing) \cup {NextSeq}
  PROVE  CursorsKept'
<1>1. \A d \in Readers : readTo[d] \in Nat /\ readTo[d] < NextSeq /\ readTo[d] <= Len(entries')
  BY DEF CursorsKept, NotesTypeOK, NextSeq
<1>2. "cursor" \in Readers
  BY DEF Readers
<1>3. ASSUME NEW n \in Range(consoleRing') \cup Range(requestRing'), n <= readTo'["cursor"] PROVE n \in heardBy'["cursor"]
  <2>1. n # NextSeq
    BY <1>1, <1>2, <1>3
  <2> QED BY <1>3, <2>1 DEF CursorsKept, CursorMissesNothing
<1>4. ~repeated' /\ \A d \in Readers : readTo'[d] <= Len(entries') /\ \A n \in heardBy'[d] : n <= readTo'[d]
  BY <1>1 DEF CursorsKept, CursorMissesNothing
<1> QED BY <1>3, <1>4 DEF CursorsKept, CursorMissesNothing

\* A line of the console is noted.
LEMMA NotesConsole ==
  ASSUME NotesInv, RecordConsole
  PROVE  NotesInv'
<1>0. NotesTypeOK
  BY DEF NotesInv
<1>1. /\ entries' = Append(entries, [of |-> "console", outcome |-> "none"]) /\ consoleRing' = Push(consoleRing, NextSeq, Limit)
      /\ UNCHANGED <<requestRing, requestsById, network, readTo, heardBy, repeated>>
  BY DEF RecordConsole
<1>2. /\ entries' \in Seq(Note) /\ Len(entries') = Len(entries) + 1 /\ Len(entries) \in Nat
      /\ DOMAIN entries' = DOMAIN entries \cup {NextSeq} /\ NextSeq \notin DOMAIN entries
      /\ (\A n \in DOMAIN entries : entries'[n] = entries[n])
      /\ entries'[NextSeq].of = "console" /\ entries'[NextSeq].outcome = "none"
      /\ \A q \in Requests : HopsOf'[q] = HopsOf[q]
      /\ Sendings' = Sendings
  BY <1>0, <1>1, NotesGrow, NotesBasics, NotesAssumption
<1>3. NotesTypeOK'
  <2>1. consoleRing' \in Seq(Nat)
    BY <1>0, <1>1, NotesBasics, PushHolds DEF NotesTypeOK
  <2> QED BY <1>0, <1>1, <1>2, <2>1 DEF NotesTypeOK
<1>4. RingOf(requestRing, Sendings, RequestLimit)' /\ Range(consoleRing') \subseteq DOMAIN entries'
  <2>1. Range(consoleRing') \subseteq Range(consoleRing) \cup {NextSeq}
    BY <1>0, <1>1, NotesBasics, PushHolds DEF NotesTypeOK
  <2> QED BY <1>1, <1>2, <2>1 DEF NotesInv
<1>5. IndexOf(requestsById, HopsOf)' /\ Len(requestsById') <= RequestLimit
  <2>1. HopsOf' = HopsOf
    <3>1. HopsOf' = [q \in Requests |-> HopsOf'[q]] /\ HopsOf = [q \in Requests |-> HopsOf[q]]
      BY DEF HopsOf
    <3> QED BY <1>2, <3>1
  <2> QED BY <1>1, <2>1 DEF NotesInv
<1>6. \A n \in Range(requestRing) : n \in DOMAIN entries /\ entries'[n] = entries[n]
  BY <1>2 DEF NotesInv, RingOf, Sendings
<1>7. RingIsKeyed'
  <2> SUFFICES ASSUME NEW q \in Requests, NEW n \in Range(requestRing'), HopsOf'[q] = {n} PROVE Keyed(requestsById, q)' # {}
    BY DEF RingIsKeyed
  <2>1. Keyed(requestsById, q) # {}
    BY <1>1, <1>2 DEF NotesInv, RingIsKeyed
  <2> QED BY <1>1, <2>1 DEF Keyed
<1>8. OutcomesTold'
  <2>1. \A q \in Requests, n \in Range(requestRing') :
          (HopsOf'[q] = {n} /\ network'[q] \in {"answered", "failed"}) => entries'[n].outcome = network'[q]
    BY <1>1, <1>2, <1>6 DEF NotesInv, OutcomesTold
  <2>2. \A n \in DOMAIN entries' : entries'[n].outcome # "none" => entries'[n].of \in Requests
    BY <1>2 DEF NotesInv, OutcomesTold
  <2>3. \A q \in Requests : \A n \in HopsOf'[q] : entries'[n].outcome # "none" =>
          network'[q] \notin {"unsent", "sent"} /\ \A m \in HopsOf'[q] : m <= n
    <3>1. \A q \in Requests : HopsOf[q] \subseteq DOMAIN entries
      BY DEF HopsOf, Hops
    <3> QED BY <1>1, <1>2, <3>1 DEF NotesInv, OutcomesTold
  <2> QED BY <2>1, <2>2, <2>3 DEF OutcomesTold
<1>9. CursorsKept'
  <2>1. Range(consoleRing') \subseteq Range(consoleRing) \cup {NextSeq}
    BY <1>0, <1>1, NotesBasics, PushHolds DEF NotesTypeOK
  <2> QED BY <1>0, <1>1, <1>2, <2>1, NotesBasics, CursorsStay DEF NotesInv
<1>10. RequestLimit' = RequestLimit
  BY DEF RequestLimit
<1> QED BY <1>3, <1>4, <1>5, <1>7, <1>8, <1>9, <1>10 DEF NotesInv

\* A request is noted, the first time or after a redirect.
LEMMA NotesRequest ==
  ASSUME NotesInv, NEW r \in Requests, RecordRequest(r)
  PROVE  NotesInv'
<1>0. NotesTypeOK /\ NextSeq \in Nat
  BY NotesBasics DEF NotesInv
<1> DEFINE map == Rekeyed(requestsById, r, NextSeq)
           hops == [HopsOf EXCEPT ![r] = @ \cup {NextSeq}]
<1>1. /\ entries' = Append(entries, [of |-> r, outcome |-> "none"]) /\ requestRing' = Push(requestRing, NextSeq, RequestLimit)
      /\ network' = [network EXCEPT ![r] = "sent"] /\ network[r] \in {"sent", "unsent"}
      /\ requestsById' = IF Len(map) > RequestLimit THEN Tail(map) ELSE map
      /\ UNCHANGED <<consoleRing, readTo, heardBy, repeated>>
  BY DEF RecordRequest, Unsent
<1>2. /\ entries' \in Seq(Note) /\ Len(entries') = Len(entries) + 1 /\ Len(entries) \in Nat
      /\ DOMAIN entries' = DOMAIN entries \cup {NextSeq} /\ NextSeq \notin DOMAIN entries
      /\ (\A n \in DOMAIN entries : entries'[n] = entries[n])
      /\ entries'[NextSeq].of = r /\ entries'[NextSeq].outcome = "none"
      /\ HopsOf'[r] = HopsOf[r] \cup {NextSeq} /\ \A q \in Requests : q # r => HopsOf'[q] = HopsOf[q]
      /\ Sendings' = Sendings \cup {NextSeq}
  BY <1>0, <1>1, NotesGrow, NotesBasics
<1>3. RingOf(requestRing', Sendings', RequestLimit)
  BY <1>0, <1>1, <1>2, NotesBasics, RingPushed DEF NotesInv
<1>4. NotesTypeOK'
  BY <1>0, <1>1, <1>2 DEF NotesTypeOK
<1>5. /\ HopsOf' = hops /\ HopsOf' \in [Requests -> SUBSET Nat] /\ Sendings' \in SUBSET Nat /\ RequestLimit \in Nat
      /\ \A q \in Requests : HopsOf'[q] \subseteq Sendings'
      /\ \A p, q \in Requests : p # q => HopsOf'[p] \cap HopsOf'[q] = {}
  <2>1. /\ HopsOf \in [Requests -> SUBSET Nat] /\ Sendings \in SUBSET Nat /\ RequestLimit \in Nat
        /\ \A q \in Requests : HopsOf[q] \subseteq Sendings
        /\ \A p, q \in Requests : p # q => HopsOf[p] \cap HopsOf[q] = {}
        /\ \A n \in Sendings : n < NextSeq
    BY <1>0, NotesBasics
  <2>2. \A q \in Requests : NextSeq \notin HopsOf[q]
    BY <1>0, <2>1
  <2>3. HopsOf' = hops
    <3>1. HopsOf' = [q \in Requests |-> HopsOf'[q]] /\ HopsOf = [q \in Requests |-> HopsOf[q]]
      BY DEF HopsOf
    <3> QED BY <1>2, <3>1
  <2>4. \A q \in Requests : HopsOf'[q] \subseteq Sendings' /\ HopsOf'[q] \subseteq HopsOf[q] \cup {NextSeq} /\ (q # r => NextSeq \notin HopsOf'[q])
    BY <1>2, <2>1, <2>2
  <2>5. \A p, q \in Requests : p # q => HopsOf'[p] \cap HopsOf'[q] = {}
    <3> TAKE p, q \in Requests
    <3>1. p # q => p # r \/ q # r
      OBVIOUS
    <3> QED BY <1>2, <2>1, <2>2, <2>4, <3>1
  <2>6. hops \in [Requests -> SUBSET Nat] /\ Sendings' \in SUBSET Nat
    BY <1>0, <1>2, <2>1
  <2> QED BY <2>1, <2>3, <2>4, <2>5, <2>6
<1>6. /\ IndexOf(map, HopsOf') /\ Len(map) <= Len(requestsById) + 1 /\ Len(map) \in Nat
      /\ \A q \in Requests : Keyed(map, q) # {} <=> q = r \/ Keyed(requestsById, q) # {}
  <2>1. /\ HopsOf \in [Requests -> SUBSET Nat] /\ \A q \in Requests : \A m \in HopsOf[q] : m < NextSeq
    BY <1>0, NotesBasics
  <2>2. IndexOf(requestsById, HopsOf)
    BY DEF NotesInv
  <2>3. LET map2 == Rekeyed(requestsById, r, NextSeq)
            hops2 == [HopsOf EXCEPT ![r] = @ \cup {NextSeq}] IN
         /\ IndexOf(map2, hops2) /\ Len(map2) <= Len(requestsById) + 1 /\ Len(map2) \in Nat
         /\ \A q \in Requests : Keyed(map2, q) # {} <=> q = r \/ Keyed(requestsById, q) # {}
    BY <1>0, <2>1, <2>2, IndexRekeyed
  <2> QED BY <1>5, <2>3
<1> HIDE DEF map, hops
<1>7. Len(requestsById) \in Nat /\ Len(requestsById) <= RequestLimit
  BY EntryFields DEF NotesInv, IndexOf
<1>8. /\ IndexOf(requestsById', HopsOf') /\ Len(requestsById') <= RequestLimit
      /\ \A q \in Requests : \/ Keyed(requestsById', q) # {} <=> q = r \/ Keyed(requestsById, q) # {}
                             \/ \A n \in Range(requestRing') : HopsOf'[q] # {n}
  <2>1. CASE Len(map) > RequestLimit
    <3>1. map # <<>>
      BY <1>5, <2>1, EmptySeq
    <3>2. /\ IndexOf(Tail(map), HopsOf') /\ map[1].id \in Requests
          /\ \A q \in Requests : q # map[1].id /\ Keyed(map, q) # {} => Keyed(Tail(map), q) # {}
      BY <1>5, <1>6, <3>1, IndexEvicts
    <3>3. HopsOf'[map[1].id] = {map[1].seq} => map[1].seq \notin Range(requestRing')
      BY <1>3, <1>5, <1>6, <2>1, FullIndexPasses
    <3>4. requestsById' = Tail(map) /\ Len(Tail(map)) = Len(map) - 1
      BY <1>1, <1>6, <2>1, <3>1, Tailed DEF IndexOf
    <3>5. 1 \in DOMAIN map /\ map[1].seq \in HopsOf'[map[1].id]
      <4>1. map \in Seq(Entry) /\ DOMAIN map = 1..Len(map) /\ Len(map) > 0
        BY <1>5, <1>6, <2>1, LenProperties DEF IndexOf
      <4>2. 1 \in DOMAIN map
        BY <1>6, <4>1
      <4> QED BY <1>6, <4>2 DEF IndexOf
    <3>6. ASSUME NEW q \in Requests
          PROVE  \/ Keyed(requestsById', q) # {} <=> q = r \/ Keyed(requestsById, q) # {}
                 \/ \A n \in Range(requestRing') : HopsOf'[q] # {n}
      <4>1. CASE q = map[1].id
        <5>1. \A n : HopsOf'[q] = {n} => n = map[1].seq
          BY <3>5, <4>1
        <5> QED BY <3>3, <4>1, <5>1
      <4>2. CASE q # map[1].id
        <5>1. Keyed(Tail(map), q) # {} => Keyed(map, q) # {}
          <6>1. /\ DOMAIN map = 1..Len(map) /\ DOMAIN Tail(map) = 1..(Len(map) - 1)
                /\ \A i \in 1..(Len(map) - 1) : Tail(map)[i] = map[i + 1] /\ i + 1 \in 1..Len(map)
            BY <1>6, <3>1, Tailed DEF IndexOf
          <6> QED BY <6>1 DEF Keyed
        <5> QED BY <1>6, <3>2, <3>4, <4>2, <5>1
      <4> QED BY <4>1, <4>2
    <3>7. Len(Tail(map)) <= RequestLimit
      BY <1>5, <1>6, <1>7, <3>4
    <3> QED BY <3>2, <3>4, <3>6, <3>7
  <2>2. CASE ~(Len(map) > RequestLimit)
    BY <1>1, <1>5, <1>6, <2>2
  <2> QED BY <2>1, <2>2
<1>9. Range(requestRing') \subseteq Range(requestRing) \cup {NextSeq}
  <2>1. requestRing \in Seq(Nat)
    BY DEF NotesInv, RingOf
  <2> QED BY <1>0, <1>1, <2>1, PushHolds
<1>10. \A q \in Requests : \A n \in HopsOf'[q] : n \in DOMAIN entries' /\ (n # NextSeq => entries'[n] = entries[n] /\ n \in HopsOf[q])
  <2>1. \A q \in Requests : HopsOf[q] \subseteq DOMAIN entries
    BY DEF HopsOf, Hops
  <2>2. \A q \in Requests : HopsOf'[q] \subseteq HopsOf[q] \cup {NextSeq}
    BY <1>2
  <2> QED BY <1>2, <2>1, <2>2
<1>11. RingIsKeyed'
  <2> SUFFICES ASSUME NEW q \in Requests, NEW n \in Range(requestRing'), HopsOf'[q] = {n} PROVE Keyed(requestsById', q) # {}
    BY KeyedMeans DEF RingIsKeyed, Keyed
  <2>1. q = r \/ Keyed(requestsById, q) # {}
    <3> SUFFICES ASSUME q # r PROVE Keyed(requestsById, q) # {}
      OBVIOUS
    <3>1. HopsOf[q] = {n} /\ n \in DOMAIN entries
      <4>1. HopsOf[q] \subseteq DOMAIN entries
        BY DEF HopsOf, Hops
      <4> QED BY <1>2, <4>1
    <3>2. n \in Range(requestRing)
      BY <1>2, <1>9, <3>1
    <3> QED BY <3>1, <3>2 DEF NotesInv, RingIsKeyed
  <2> QED BY <1>8, <2>1
<1>12. OutcomesTold' /\ CursorsKept'
  <2>1. \A q \in Requests, n \in Range(requestRing') :
          (HopsOf'[q] = {n} /\ network'[q] \in {"answered", "failed"}) => entries'[n].outcome = network'[q]
    <3> SUFFICES ASSUME NEW q \in Requests, NEW n \in Range(requestRing'), HopsOf'[q] = {n}, network'[q] \in {"answered", "failed"}
                 PROVE entries'[n].outcome = network'[q]
      OBVIOUS
    <3>1. q # r /\ network'[q] = network[q]
      BY <1>0, <1>1 DEF NotesTypeOK
    <3>2. HopsOf[q] = {n} /\ n \in DOMAIN entries
      <4>1. HopsOf[q] \subseteq DOMAIN entries
        BY DEF HopsOf, Hops
      <4> QED BY <1>2, <3>1, <4>1
    <3>3. n \in Range(requestRing) /\ entries'[n] = entries[n]
      BY <1>2, <1>9, <3>2
    <3> QED BY <3>1, <3>2, <3>3 DEF NotesInv, OutcomesTold
  <2>2. \A n \in DOMAIN entries' : entries'[n].outcome # "none" => entries'[n].of \in Requests
    BY <1>2 DEF NotesInv, OutcomesTold
  <2>3. \A q \in Requests : \A n \in HopsOf'[q] : entries'[n].outcome # "none" =>
          network'[q] \notin {"unsent", "sent"} /\ \A m \in HopsOf'[q] : m <= n
    <3> SUFFICES ASSUME NEW q \in Requests, NEW n \in HopsOf'[q], entries'[n].outcome # "none"
                 PROVE network'[q] \notin {"unsent", "sent"} /\ \A m \in HopsOf'[q] : m <= n
      OBVIOUS
    <3>1. n # NextSeq
      BY <1>2
    <3>2. entries'[n] = entries[n] /\ n \in HopsOf[q]
      BY <1>10, <3>1
    <3>3. network[q] \notin {"unsent", "sent"} /\ \A m \in HopsOf[q] : m <= n
      BY <3>2 DEF NotesInv, OutcomesTold
    <3>4. q # r
      BY <1>1, <3>3
    <3> QED BY <1>0, <1>1, <1>2, <3>3, <3>4 DEF NotesTypeOK
  <2>4. OutcomesTold'
    BY <2>1, <2>2, <2>3 DEF OutcomesTold
  <2>5. CursorsKept'
    BY <1>0, <1>1, <1>2, <1>9, CursorsStay DEF NotesInv
  <2> QED BY <2>4, <2>5
<1>13. RequestLimit' = RequestLimit /\ Range(consoleRing') \subseteq DOMAIN entries'
  BY <1>1, <1>2 DEF RequestLimit, NotesInv
<1> QED BY <1>3, <1>4, <1>8, <1>11, <1>12, <1>13 DEF NotesInv

\* A request has its answer, or fails.
LEMMA NotesOutcome ==
  ASSUME NotesInv, NEW r \in Requests, NEW how \in {"answered", "failed"}, RecordOutcome(r, how)
  PROVE  NotesInv'
<1> DEFINE Touched(n) == \E i \in Keyed(requestsById, r) : requestsById[i].seq = n
<1>0. NotesTypeOK /\ entries \in Seq(Note) /\ network \in [Requests -> {"unsent", "sent", "answered", "failed"}]
  BY DEF NotesInv, NotesTypeOK
<1>1. /\ network[r] \in {"sent", "answered"} /\ network' = [network EXCEPT ![r] = how]
      /\ entries' = [n \in DOMAIN entries |-> IF Touched(n) THEN [entries[n] EXCEPT !.outcome = how] ELSE entries[n]]
      /\ UNCHANGED <<consoleRing, requestRing, requestsById, readTo, heardBy, repeated>>
  BY DEF RecordOutcome
<1>2. network'[r] = how /\ \A q \in Requests : q # r => network'[q] = network[q]
  BY <1>0, <1>1
<1>3. ASSUME NEW n, Touched(n) PROVE n \in HopsOf[r] /\ \A m \in HopsOf[r] : m <= n
  <2>1. PICK i \in DOMAIN requestsById : requestsById[i].id = r /\ requestsById[i].seq = n
    BY <1>3 DEF Keyed
  <2> QED BY <2>1 DEF NotesInv, IndexOf
<1>4. \A n \in DOMAIN entries : entries[n] \in Note
  BY <1>0, NotesBasics, ElementOfSeq
<1>5. ASSUME NEW e \in Note
      PROVE  LET e2 == [e EXCEPT !.outcome = how] IN e2 \in Note /\ e2.of = e.of /\ e2.outcome = how
  BY DEF Note
<1> HIDE DEF Touched
<1>6. /\ DOMAIN entries' = DOMAIN entries
      /\ \A n \in DOMAIN entries : entries'[n] \in Note /\ entries'[n].of = entries[n].of
      /\ \A n \in DOMAIN entries : entries'[n].outcome = IF Touched(n) THEN how ELSE entries[n].outcome
  BY <1>1, <1>4, <1>5
<1>7. entries' \in Seq(Note) /\ Len(entries') = Len(entries)
  <2>1. DOMAIN entries = 1..Len(entries) /\ Len(entries) \in Nat
    BY <1>0, NotesBasics
  <2>2. entries' \in [1..Len(entries) -> Note]
    <3>1. entries' = [n \in DOMAIN entries' |-> entries'[n]]
      BY <1>1
    <3>2. entries' = [n \in 1..Len(entries) |-> entries'[n]] /\ \A n \in 1..Len(entries) : entries'[n] \in Note
      BY <1>6, <2>1, <3>1
    <3> QED BY <3>2
  <2>3. entries' \in Seq(Note)
    BY <2>1, <2>2, SeqDef
  <2> QED BY <2>1, <2>2, <2>3, LenProperties
<1>8. HopsOf' = HopsOf /\ Sendings' = Sendings
  <2>1. \A q : {n \in DOMAIN entries' : entries'[n].of = q} = {n \in DOMAIN entries : entries[n].of = q}
    BY <1>6
  <2>2. {n \in DOMAIN entries' : entries'[n].of \in Requests} = {n \in DOMAIN entries : entries[n].of \in Requests}
    BY <1>6
  <2> QED BY <2>1, <2>2 DEF HopsOf, Hops, Sendings
<1>9. /\ \A q \in Requests : HopsOf[q] \subseteq DOMAIN entries
      /\ \A q \in Requests : q # r => HopsOf[q] \cap HopsOf[r] = {}
  BY <1>0, NotesBasics
<1>10. OutcomesTold'
  <2>1. \A q \in Requests, n \in Range(requestRing') :
          (HopsOf'[q] = {n} /\ network'[q] \in {"answered", "failed"}) => entries'[n].outcome = network'[q]
    <3> SUFFICES ASSUME NEW q \in Requests, NEW n \in Range(requestRing), HopsOf[q] = {n}, network'[q] \in {"answered", "failed"}
                 PROVE entries'[n].outcome = network'[q]
      BY <1>1, <1>8
    <3>0. n \in DOMAIN entries
      BY <1>9
    <3>1. CASE q = r
      <4>1. Keyed(requestsById, r) # {}
        BY <3>1 DEF NotesInv, RingIsKeyed
      <4>2. PICK i \in Keyed(requestsById, r) : TRUE
        BY <4>1
      <4>3. Touched(requestsById[i].seq)
        BY <4>2 DEF Touched
      <4>4. requestsById[i].seq = n
        BY <1>3, <3>1, <4>3
      <4> QED BY <1>2, <1>6, <3>0, <3>1, <4>3, <4>4
    <3>2. CASE q # r
      <4>1. ~Touched(n)
        BY <1>3, <1>9, <3>2
      <4>2. entries[n].outcome = network[q]
        BY <1>2, <3>2 DEF NotesInv, OutcomesTold
      <4> QED BY <1>2, <1>6, <3>0, <3>2, <4>1, <4>2
    <3> QED BY <3>1, <3>2
  <2>2. \A n \in DOMAIN entries' : entries'[n].outcome # "none" => entries'[n].of \in Requests
    <3> SUFFICES ASSUME NEW n \in DOMAIN entries, entries'[n].outcome # "none" PROVE entries[n].of \in Requests
      BY <1>6
    <3>1. CASE Touched(n)
      BY <1>0, <1>3, <3>1, NotesBasics
    <3>2. CASE ~Touched(n)
      BY <1>6, <3>2 DEF NotesInv, OutcomesTold
    <3> QED BY <3>1, <3>2
  <2>3. \A q \in Requests : \A n \in HopsOf'[q] : entries'[n].outcome # "none" =>
          network'[q] \notin {"unsent", "sent"} /\ \A m \in HopsOf'[q] : m <= n
    <3> SUFFICES ASSUME NEW q \in Requests, NEW n \in HopsOf[q], entries'[n].outcome # "none"
                 PROVE network'[q] \notin {"unsent", "sent"} /\ \A m \in HopsOf[q] : m <= n
      BY <1>8
    <3>0. n \in DOMAIN entries
      BY <1>9
    <3>1. CASE Touched(n)
      <4>1. q = r /\ \A m \in HopsOf[r] : m <= n
        BY <1>3, <1>9, <3>1
      <4> QED BY <1>2, <4>1
    <3>2. CASE ~Touched(n)
      <4>1. network[q] \notin {"unsent", "sent"} /\ \A m \in HopsOf[q] : m <= n
        BY <1>6, <3>0, <3>2 DEF NotesInv, OutcomesTold
      <4> QED BY <1>2, <4>1
    <3> QED BY <3>1, <3>2
  <2> QED BY <2>1, <2>2, <2>3 DEF OutcomesTold
<1>11. CursorsKept'
  BY <1>1, <1>7 DEF NotesInv, CursorsKept, CursorMissesNothing
<1>12. RingIsKeyed'
  <2> SUFFICES ASSUME NEW q \in Requests, NEW n \in Range(requestRing), HopsOf[q] = {n} PROVE Keyed(requestsById', q) # {}
    BY <1>1, <1>8, KeyedMeans DEF RingIsKeyed, Keyed
  <2>1. Keyed(requestsById, q) # {}
    BY DEF NotesInv, RingIsKeyed
  <2> QED BY <1>1, <2>1
<1>13. NotesTypeOK'
  <2>1. network' \in [Requests -> {"unsent", "sent", "answered", "failed"}]
    BY <1>0, <1>1
  <2> QED BY <1>0, <1>1, <1>7, <2>1 DEF NotesTypeOK
<1>14. /\ RingOf(requestRing', Sendings', RequestLimit) /\ Range(consoleRing') \subseteq DOMAIN entries'
       /\ IndexOf(requestsById', HopsOf') /\ Len(requestsById') <= RequestLimit /\ RequestLimit' = RequestLimit
  BY <1>1, <1>6, <1>8 DEF NotesInv, RequestLimit
<1> QED BY <1>10, <1>11, <1>12, <1>13, <1>14 DEF NotesInv

\* A reader reads what of the rings it was to be given.
LEMMA NotesReads ==
  ASSUME NotesInv, NEW d \in Readers, NEW handed, ReadsRing(d, handed),
         handed \subseteq Range(consoleRing) \cup Range(requestRing), \A n \in handed : n > readTo[d],
         d = "cursor" => \A n \in Range(consoleRing) \cup Range(requestRing) : n > readTo[d] => n \in handed
  PROVE  NotesInv'
<1>0. /\ NotesTypeOK /\ Len(entries) \in Nat /\ DOMAIN entries = 1..Len(entries)
      /\ readTo \in [Readers -> Nat] /\ heardBy \in [Readers -> SUBSET Nat] /\ ~repeated
      /\ \A n \in Range(consoleRing) \cup Range(requestRing) : n \in DOMAIN entries
      /\ \A c \in Readers : readTo[c] <= Len(entries) /\ \A n \in heardBy[c] : n <= readTo[c]
  BY NotesBasics DEF NotesInv, NotesTypeOK, CursorsKept, CursorMissesNothing, RingOf, Sendings
<1>1. /\ heardBy' = [heardBy EXCEPT ![d] = @ \cup handed] /\ repeated' = (repeated \/ handed \cap heardBy[d] # {})
      /\ readTo' = [readTo EXCEPT ![d] = Len(entries)]
      /\ UNCHANGED <<entries, consoleRing, requestRing, requestsById, network>>
  BY DEF ReadsRing
<1>2. \A n \in handed : n \in Nat /\ n <= Len(entries)
  BY <1>0
<1>3. ~repeated'
  <2>1. \A n \in handed : n \notin heardBy[d]
    BY <1>0, <1>2
  <2> QED BY <1>0, <1>1, <2>1
<1>4. NotesTypeOK'
  <2>1. readTo' \in [Readers -> Nat] /\ heardBy' \in [Readers -> SUBSET Nat] /\ repeated' \in BOOLEAN
    BY <1>0, <1>1, <1>2, <1>3
  <2> QED BY <1>0, <1>1, <2>1 DEF NotesTypeOK
<1>5. /\ readTo'[d] = Len(entries) /\ heardBy'[d] = heardBy[d] \cup handed
      /\ \A c \in Readers : c # d => readTo'[c] = readTo[c] /\ heardBy'[c] = heardBy[c]
  BY <1>0, <1>1
<1>6. \A c \in Readers : readTo'[c] <= Len(entries') /\ \A n \in heardBy'[c] : n <= readTo'[c]
  <2> TAKE c \in Readers
  <2>1. CASE c = d
    <3>1. \A n \in heardBy[d] : n <= Len(entries)
      BY <1>0
    <3> QED BY <1>0, <1>1, <1>2, <1>5, <2>1, <3>1
  <2>2. CASE c # d
    BY <1>0, <1>1, <1>5, <2>2
  <2> QED BY <2>1, <2>2
<1>7. \A n \in Range(consoleRing) \cup Range(requestRing) : n <= readTo'["cursor"] => n \in heardBy'["cursor"]
  <2> TAKE n \in Range(consoleRing) \cup Range(requestRing)
  <2>0. "cursor" \in Readers /\ n \in Nat /\ (n <= readTo["cursor"] => n \in heardBy["cursor"])
    BY <1>0 DEF Readers, NotesInv, CursorsKept, CursorMissesNothing
  <2>1. CASE d = "cursor"
    <3>1. n > readTo["cursor"] => n \in handed
      BY <2>1
    <3> QED BY <1>0, <1>5, <2>0, <2>1, <3>1
  <2>2. CASE d # "cursor"
    BY <1>5, <2>0, <2>2
  <2> QED BY <2>1, <2>2
<1>8. CursorsKept'
  BY <1>1, <1>3, <1>6, <1>7 DEF CursorsKept, CursorMissesNothing
<1>9. HopsOf' = HopsOf /\ Sendings' = Sendings /\ RequestLimit' = RequestLimit
  BY <1>1 DEF HopsOf, Hops, Sendings, RequestLimit
<1>10. RingIsKeyed' /\ OutcomesTold'
  <2>1. RingIsKeyed'
    <3> SUFFICES ASSUME NEW q \in Requests, NEW n \in Range(requestRing), HopsOf[q] = {n} PROVE Keyed(requestsById', q) # {}
      BY <1>1, <1>9, KeyedMeans DEF RingIsKeyed, Keyed
    <3>1. Keyed(requestsById, q) # {}
      BY DEF NotesInv, RingIsKeyed
    <3> QED BY <1>1, <3>1
  <2>2. OutcomesTold'
    BY <1>1, <1>9 DEF NotesInv, OutcomesTold
  <2> QED BY <2>1, <2>2
<1>11. /\ RingOf(requestRing', Sendings', RequestLimit) /\ Range(consoleRing') \subseteq DOMAIN entries'
       /\ IndexOf(requestsById', HopsOf') /\ Len(requestsById') <= RequestLimit
  BY <1>1, <1>9 DEF NotesInv
<1> QED BY <1>4, <1>8, <1>9, <1>10, <1>11 DEF NotesInv

\* Before anything is noted.
LEMMA InitNotes == NotesInit => NotesInv
<1> SUFFICES ASSUME NotesInit PROVE NotesInv
  OBVIOUS
<1>1. /\ entries = <<>> /\ consoleRing = <<>> /\ requestRing = <<>> /\ requestsById = <<>>
      /\ network = [r \in Requests |-> "unsent"] /\ readTo = [d \in Readers |-> 0]
      /\ heardBy = [d \in Readers |-> {}] /\ repeated = FALSE
  BY DEF NotesInit
<1>2. NotesTypeOK
  BY <1>1, EmptySeq DEF NotesTypeOK
<1>3. /\ RequestLimit \in Nat /\ DOMAIN <<>> = {} /\ Range(<<>>) = {} /\ Len(<<>>) = 0
      /\ <<>> \in Seq(Nat) /\ <<>> \in Seq(Entry)
  BY <1>2, NotesBasics, EmptySeq DEF Range
<1>4. HopsOf = [r \in Requests |-> {}]
  BY <1>1, <1>3 DEF HopsOf, Hops
<1>5. RingOf(requestRing, Sendings, RequestLimit) /\ Range(consoleRing) \subseteq DOMAIN entries
  BY <1>1, <1>3 DEF RingOf
<1>6. IndexOf(requestsById, HopsOf) /\ Len(requestsById) <= RequestLimit
  BY <1>1, <1>3 DEF IndexOf
<1>7. RingIsKeyed /\ OutcomesTold
  BY <1>1, <1>3, <1>4 DEF RingIsKeyed, OutcomesTold
<1>8. CursorsKept
  BY <1>1, <1>3 DEF CursorsKept, CursorMissesNothing
<1> QED BY <1>2, <1>5, <1>6, <1>7, <1>8 DEF NotesInv

\* No step of the session's notes breaks it.
LEMMA NotesStep == NotesInv /\ [NotesNext]_noteVars => NotesInv'
<1> SUFFICES ASSUME NotesInv, [NotesNext]_noteVars PROVE NotesInv'
  OBVIOUS
<1>1. CASE RecordConsole
  BY <1>1, NotesConsole
<1>2. CASE \E r \in Requests : RecordRequest(r)
  BY <1>2, NotesRequest
<1>3. CASE \E r \in Requests : \E how \in {"answered", "failed"} : RecordOutcome(r, how)
  BY <1>3, NotesOutcome
<1>4. CASE ReadLogs
  BY <1>4, NotesReads DEF ReadLogs, Since, Readers
<1>5. CASE ReadConsole
  BY <1>5, NotesReads DEF ReadConsole, Since, Readers
<1>6. CASE ReadNetwork
  BY <1>6, NotesReads DEF ReadNetwork, Since, Readers
<1>7. CASE UNCHANGED noteVars
  <2>1. HopsOf' = HopsOf /\ Sendings' = Sendings /\ RequestLimit' = RequestLimit /\ UNCHANGED noteVars
    BY <1>7 DEF HopsOf, Hops, Sendings, RequestLimit, noteVars
  <2>2. NotesTypeOK' /\ CursorsKept'
    BY <1>7 DEF noteVars, NotesInv, NotesTypeOK, CursorsKept, CursorMissesNothing
  <2>3. RingIsKeyed' /\ OutcomesTold'
    BY <2>1 DEF noteVars, NotesInv, RingIsKeyed, OutcomesTold, Keyed
  <2> QED BY <2>1, <2>2, <2>3 DEF noteVars, NotesInv
<1> QED BY <1>1, <1>2, <1>3, <1>4, <1>5, <1>6, <1>7 DEF NotesNext

\* And it says that what is read is true.
LEMMA NotesInvIsEnough == NotesInv => NotesAreTrue
<1> SUFFICES ASSUME NotesInv PROVE NotesAreTrue
  OBVIOUS
<1>1. /\ \A q \in Requests : HopsOf[q] = Hops(q) /\ \A n : n \in Hops(q) <=> (n \in DOMAIN entries /\ entries[n].of = q)
  BY DEF HopsOf, Hops
<1>2. \A n \in Range(requestRing) : n \in DOMAIN entries /\ entries[n].of \in Requests
  BY DEF NotesInv, RingOf, Sendings
<1>3. OutcomesLand
  <2> SUFFICES ASSUME NEW n \in Range(requestRing)
               PROVE  LET r == entries[n].of
                      IN /\ Hops(r) = {n} /\ network[r] \in {"answered", "failed"} => entries[n].outcome = network[r]
                         /\ entries[n].outcome # "none" => network[r] \notin {"unsent", "sent"} /\ \A m \in Hops(r) : m <= n
    BY DEF OutcomesLand
  <2> DEFINE r == entries[n].of
  <2>1. r \in Requests /\ n \in Hops(r) /\ HopsOf[r] = Hops(r)
    BY <1>1, <1>2
  <2> QED BY <2>1 DEF NotesInv, OutcomesTold
<1>4. CursorMissesNothing
  BY DEF NotesInv, CursorsKept
<1> QED BY <1>3, <1>4 DEF NotesAreTrue

\* What a session noted of its pages is true of them, and its readers miss none of
\* it and are told nothing twice.
THEOREM NotesStayTrue == NotesSpec => []NotesAreTrue
<1>1. NotesInit => NotesInv
  BY InitNotes
<1>2. NotesInv /\ [NotesNext]_noteVars => NotesInv'
  BY NotesStep
<1> QED BY <1>1, <1>2, NotesInvIsEnough, PTL DEF NotesSpec

----------------------------------------------------------------------------
(* The two together *)

\* A step of what drives browsers is one of each part, or leaves that part as it is.
LEMMA DriversStep == [DriverNext]_driverVars => [UseNext]_useVars /\ [NotesNext]_noteVars
  BY DEF DriverNext, Only, driverVars

\* Whichever part is explored, the turns of the tools are sound and what was noted of
\* the pages is true.
THEOREM ToolsStaySound == DriverSpec => []ToolsAreSound
<1>1. DriverInit => UseInv /\ NotesInv
  BY InitUse, InitNotes DEF DriverInit
<1>2. UseInv /\ NotesInv /\ [DriverNext]_driverVars => UseInv' /\ NotesInv'
  BY DriversStep, UseStep, NotesStep
<1>3. UseInv /\ NotesInv => ToolsAreSound
  BY UseInvIsEnough, NotesInvIsEnough DEF ToolsAreSound
<1> QED BY <1>1, <1>2, <1>3, PTL DEF DriverSpec

----------------------------------------------------------------------------
(* The refs of a page *)

RefsTypeOK ==
  /\ seq \in 0 .. MaxRef
  /\ dom \in SUBSET Elements /\ valid \in SUBSET Elements
  /\ mark \in [Elements -> 0 .. MaxRef]
  /\ byRef \in [Refs -> Elements \cup {Nothing}]
  /\ given \in [Refs -> SUBSET Elements] /\ moved \in [Refs -> SUBSET Elements]
  /\ refEntries \in SUBSET (0 .. MaxRef)
  /\ world \in {"none", "live", "lost"}
  /\ job \in [Callers -> [does : {"nothing", "snapshot", "read", "act", "fill"}, ref : 0 .. MaxRef,
                          runs : 0 .. 4, reply : SUBSET (0 .. MaxRef)]]

\* A read may have listed a ref that the world has not minted only after a fill had
\* brought it from an earlier document.
UnmintedAreMoved == \A r \in Refs : r > seq => given[r] \subseteq moved[r]
\* A mark and an entry of the world are of a ref that the element was listed for or
\* given by a fill.
MarksAreKnown == \A e \in Elements : \A r \in Refs : mark[e] = r => e \in given[r] \cup moved[r]
EntriesAreKnown == \A r \in Refs : byRef[r] # Nothing => byRef[r] \in given[r] \cup moved[r]
ListedOnce == \A r \in Refs : moved[r] = {} => \A e, f \in given[r] : e = f

RefsInv == RefsTypeOK /\ UnmintedAreMoved /\ MarksAreKnown /\ EntriesAreKnown /\ ListedOnce

\* A read gives the elements it shows refs of their own, in any order of the page.
LEMMA ReadKeeps ==
  ASSUME RefsInv, NEW listed \in SUBSET dom, Matches(listed), UNCHANGED <<dom, moved>>
  PROVE  /\ seq' \in 0 .. MaxRef /\ valid' \in SUBSET Elements
         /\ mark' \in [Elements -> 0 .. MaxRef] /\ byRef' \in [Refs -> Elements \cup {Nothing}]
         /\ given' \in [Refs -> SUBSET Elements]
         /\ UnmintedAreMoved' /\ MarksAreKnown' /\ EntriesAreKnown' /\ ListedOnce'
<1>1. PICK order \in SetToSeqs(listed \ valid) : Mint(order)
  BY DEF Matches
<1>2. listed \in SUBSET Elements /\ IsFiniteSet(listed \ valid)
  BY RefsAssumption, FS_Subset DEF RefsInv, RefsTypeOK
<1>3. PICK n \in Nat : n = Cardinality(listed \ valid)
  BY <1>2, FS_CardinalityType
<1>4. order \in [1 .. n -> listed \ valid] /\ \A i, j \in 1 .. n : i # j => order[i] # order[j]
  BY <1>1, <1>3 DEF SetToSeqs
<1>5. DOMAIN order = 1 .. n /\ Len(order) = n
  BY <1>3, <1>4
<1>6. seq' = seq + n /\ seq + n <= MaxRef
  BY <1>1, <1>5 DEF Mint
<1>7. seq \in Nat /\ MaxRef \in Nat /\ Refs = 1 .. MaxRef
  BY RefsAssumption DEF RefsInv, RefsTypeOK, Refs
<1>8. ASSUME NEW i \in 1 .. n
      PROVE  /\ order[i] \in listed \ valid /\ order[i] \in Elements
             /\ mark'[order[i]] = seq + i
  <2>1. order[i] \in listed \ valid /\ order[i] \in Elements
    BY <1>2, <1>4
  <2>2. order[i] \in Range(order)
    BY <1>4, <1>5 DEF Range
  <2>3. (CHOOSE j \in DOMAIN order : order[j] = order[i]) = i
    BY <1>4, <1>5
  <2> QED BY <1>1, <2>1, <2>2, <2>3 DEF Mint
<1>9. ASSUME NEW e \in Elements
      PROVE  \/ \E i \in 1 .. n : order[i] = e /\ mark'[e] = seq + i
             \/ mark'[e] = mark[e]
  <2>1. CASE e \in Range(order)
    <3>1. PICK i \in 1 .. n : order[i] = e
      BY <1>5, <2>1 DEF Range
    <3> QED BY <1>8, <3>1
  <2>2. CASE e \notin Range(order)
    BY <1>1, <2>2 DEF Mint
  <2> QED BY <2>1, <2>2
<1>10. seq' \in 0 .. MaxRef
  BY <1>3, <1>6, <1>7
<1>11. valid' \in SUBSET Elements
  BY <1>2 DEF Matches, RefsInv, RefsTypeOK
<1>12. mark' \in [Elements -> 0 .. MaxRef]
  <2>1. \A e \in Elements : mark[e] \in 0 .. MaxRef
    BY DEF RefsInv, RefsTypeOK
  <2>2. ASSUME NEW e \in Elements PROVE mark'[e] \in 0 .. MaxRef
    <3>1. CASE mark'[e] = mark[e]
      BY <2>1, <3>1
    <3>2. CASE \E i \in 1 .. n : mark'[e] = seq + i
      <4>1. PICK i \in 1 .. n : mark'[e] = seq + i
        BY <3>2
      <4> QED BY <1>3, <1>6, <1>7, <4>1
    <3> QED BY <1>9, <3>1, <3>2
  <2>3. mark' = [e \in Elements |-> mark'[e]]
    BY <1>1 DEF Mint
  <2> QED BY <2>2, <2>3
<1>13. \A r \in Refs : byRef'[r] = IF r - seq \in 1 .. n THEN order[r - seq] ELSE byRef[r]
  BY <1>1, <1>5 DEF Mint
<1>14. byRef' \in [Refs -> Elements \cup {Nothing}]
  <2>1. \A r \in Refs : byRef[r] \in Elements \cup {Nothing}
    BY DEF RefsInv, RefsTypeOK
  <2>2. \A r \in Refs : byRef'[r] \in Elements \cup {Nothing}
    BY <1>8, <1>13, <2>1
  <2>3. byRef' = [r \in Refs |-> byRef'[r]]
    BY <1>1 DEF Mint
  <2> QED BY <2>2, <2>3
<1>15. \A r \in Refs : given'[r] = given[r] \cup {e \in listed : mark'[e] = r}
  BY DEF Matches
<1>16. given' \in [Refs -> SUBSET Elements]
  <2>1. \A r \in Refs : given'[r] \in SUBSET Elements
    BY <1>2, <1>15 DEF RefsInv, RefsTypeOK
  <2>2. given' = [r \in Refs |-> given'[r]]
    BY DEF Matches
  <2> QED BY <2>1, <2>2
<1>17. moved' = moved
  OBVIOUS
<1>18. UnmintedAreMoved'
  <2> SUFFICES ASSUME NEW r \in Refs, r > seq', NEW e \in given'[r] PROVE e \in moved[r]
    BY <1>17 DEF UnmintedAreMoved
  <2>1. r > seq /\ r \in Nat
    BY <1>3, <1>6, <1>7
  <2>2. CASE e \in given[r]
    BY <2>1, <2>2 DEF RefsInv, UnmintedAreMoved
  <2>3. CASE e \in listed /\ mark'[e] = r
    <3>1. mark[e] = r
      <4>1. e \in Elements
        BY <1>2, <2>3
      <4>2. ASSUME NEW i \in 1 .. n PROVE r # seq + i
        BY <1>3, <1>6, <1>7, <2>1
      <4> QED BY <1>9, <2>3, <4>1, <4>2
    <3>2. e \in given[r] \cup moved[r]
      BY <1>2, <2>3, <3>1 DEF RefsInv, MarksAreKnown
    <3> QED BY <2>1, <3>2 DEF RefsInv, UnmintedAreMoved
  <2> QED BY <1>15, <2>2, <2>3
<1>19. MarksAreKnown'
  <2> SUFFICES ASSUME NEW e \in Elements, NEW r \in Refs, mark'[e] = r PROVE e \in given'[r] \cup moved[r]
    BY <1>17 DEF MarksAreKnown
  <2>1. CASE \E i \in 1 .. n : order[i] = e
    <3>1. e \in listed
      BY <1>8, <2>1
    <3> QED BY <1>15, <3>1
  <2>2. CASE mark'[e] = mark[e]
    <3>1. e \in given[r] \cup moved[r]
      BY <2>2 DEF RefsInv, MarksAreKnown
    <3> QED BY <1>15, <3>1
  <2> QED BY <1>9, <2>1, <2>2
<1>20. EntriesAreKnown'
  <2> SUFFICES ASSUME NEW r \in Refs, byRef'[r] # Nothing PROVE byRef'[r] \in given'[r] \cup moved[r]
    BY <1>17 DEF EntriesAreKnown
  <2>1. CASE r - seq \in 1 .. n
    <3>1. byRef'[r] = order[r - seq] /\ order[r - seq] \in listed /\ mark'[order[r - seq]] = seq + (r - seq)
      BY <1>8, <1>13, <2>1
    <3>2. seq + (r - seq) = r
      BY <1>7
    <3> QED BY <1>15, <3>1, <3>2
  <2>2. CASE r - seq \notin 1 .. n
    <3>1. byRef'[r] = byRef[r]
      BY <1>13, <2>2
    <3>2. byRef[r] \in given[r] \cup moved[r]
      BY <3>1 DEF RefsInv, EntriesAreKnown
    <3> QED BY <1>15, <3>1, <3>2
  <2> QED BY <2>1, <2>2
<1>21. ListedOnce'
  <2> SUFFICES ASSUME NEW r \in Refs, moved[r] = {}, NEW e \in given'[r], NEW f \in given'[r] PROVE e = f
    BY <1>17 DEF ListedOnce
  <2>1. ASSUME NEW g \in given'[r]
        PROVE  g \in given[r] \/ (r - seq \in 1 .. n /\ order[r - seq] = g)
    <3>1. CASE g \in given[r]
      BY <3>1
    <3>2. CASE g \in listed /\ mark'[g] = r
      <4>1. CASE mark[g] = r
        BY <1>2, <3>2, <4>1 DEF RefsInv, MarksAreKnown
      <4>2. CASE mark[g] # r
        <5>1. PICK i \in 1 .. n : order[i] = g /\ r = seq + i
          BY <1>2, <1>9, <3>2, <4>2
        <5>2. r - seq = i
          BY <1>3, <1>7, <5>1
        <5> QED BY <5>1, <5>2
      <4> QED BY <4>1, <4>2
    <3> QED BY <1>15, <3>1, <3>2
  <2>2. r - seq \in 1 .. n => given[r] = {}
    <3>1. r - seq \in 1 .. n => r > seq
      BY <1>3, <1>7
    <3> QED BY <3>1 DEF RefsInv, UnmintedAreMoved
  <2>3. \A x, y \in given[r] : x = y
    BY DEF RefsInv, ListedOnce
  <2>4. (e \in given[r]) \/ (r - seq \in 1 .. n /\ order[r - seq] = e)
    BY <2>1
  <2>5. (f \in given[r]) \/ (r - seq \in 1 .. n /\ order[r - seq] = f)
    BY <2>1
  <2> QED BY <2>2, <2>3, <2>4, <2>5
<1> QED BY <1>10, <1>11, <1>12, <1>14, <1>16, <1>18, <1>19, <1>20, <1>21

\* A fill takes a ref nothing else answers to, and notes where it went.
LEMMA RebindKeeps ==
  ASSUME RefsInv, NEW r \in 0 .. MaxRef, NEW focused \in dom, Rebind(r, focused),
         UNCHANGED <<dom, seq, valid, given>>
  PROVE  /\ mark' \in [Elements -> 0 .. MaxRef] /\ byRef' \in [Refs -> Elements \cup {Nothing}]
         /\ moved' \in [Refs -> SUBSET Elements]
         /\ UnmintedAreMoved' /\ MarksAreKnown' /\ EntriesAreKnown' /\ ListedOnce'
<1>1. focused \in Elements
  BY DEF RefsInv, RefsTypeOK
<1>2. /\ mark' = [mark EXCEPT ![focused] = r]
      /\ byRef' = [byRef EXCEPT ![r] = focused]
      /\ moved' = [moved EXCEPT ![r] = @ \cup {focused}]
      /\ seq' = seq /\ given' = given
  BY DEF Rebind
<1>3. mark' \in [Elements -> 0 .. MaxRef] /\ byRef' \in [Refs -> Elements \cup {Nothing}]
      /\ moved' \in [Refs -> SUBSET Elements]
  BY <1>1, <1>2 DEF RefsInv, RefsTypeOK
<1>4. \A q \in Refs : moved[q] \subseteq moved'[q] /\ (q = r => focused \in moved'[q])
  BY <1>2 DEF RefsInv, RefsTypeOK
<1>5. UnmintedAreMoved'
  BY <1>2, <1>4 DEF RefsInv, UnmintedAreMoved
<1>6. MarksAreKnown'
  <2> SUFFICES ASSUME NEW e \in Elements, NEW q \in Refs, mark'[e] = q PROVE e \in given[q] \cup moved'[q]
    BY <1>2 DEF MarksAreKnown
  <2>1. CASE e = focused
    <3>1. q = r
      BY <1>1, <1>2, <2>1 DEF RefsInv, RefsTypeOK
    <3> QED BY <1>4, <2>1, <3>1
  <2>2. CASE e # focused
    <3>1. mark[e] = q
      BY <1>2, <2>2 DEF RefsInv, RefsTypeOK
    <3> QED BY <1>4, <3>1 DEF RefsInv, MarksAreKnown
  <2> QED BY <2>1, <2>2
<1>7. EntriesAreKnown'
  <2> SUFFICES ASSUME NEW q \in Refs, byRef'[q] # Nothing PROVE byRef'[q] \in given[q] \cup moved'[q]
    BY <1>2 DEF EntriesAreKnown
  <2>1. CASE q = r
    <3>1. byRef'[q] = focused
      BY <1>2, <2>1 DEF RefsInv, RefsTypeOK
    <3> QED BY <1>4, <2>1, <3>1
  <2>2. CASE q # r
    <3>1. byRef'[q] = byRef[q]
      BY <1>2, <2>2 DEF RefsInv, RefsTypeOK
    <3> QED BY <1>4, <3>1 DEF RefsInv, EntriesAreKnown
  <2> QED BY <2>1, <2>2
<1>8. ListedOnce'
  <2> SUFFICES ASSUME NEW q \in Refs, moved'[q] = {} PROVE \A e, f \in given[q] : e = f
    BY <1>2 DEF ListedOnce
  <2>1. moved[q] = {}
    BY <1>4
  <2> QED BY <2>1 DEF RefsInv, ListedOnce
<1> QED BY <1>3, <1>5, <1>6, <1>7, <1>8

\* A new document has no refs.
LEMMA NewDocumentKeeps ==
  ASSUME RefsInv, NewDocument
  PROVE  /\ seq' \in 0 .. MaxRef /\ dom' \in SUBSET Elements /\ valid' \in SUBSET Elements
         /\ mark' \in [Elements -> 0 .. MaxRef] /\ byRef' \in [Refs -> Elements \cup {Nothing}]
         /\ given' \in [Refs -> SUBSET Elements] /\ moved' \in [Refs -> SUBSET Elements]
         /\ UnmintedAreMoved' /\ MarksAreKnown' /\ EntriesAreKnown' /\ ListedOnce'
<1>1. MaxRef \in Nat
  BY RefsAssumption
<1>2. /\ seq' = 0 /\ dom' = {} /\ valid' = {}
      /\ \A e \in Elements : mark'[e] = 0
      /\ \A r \in Refs : byRef'[r] = Nothing /\ given'[r] = {} /\ moved'[r] = {}
  BY DEF NewDocument
<1>3. /\ mark' \in [Elements -> 0 .. MaxRef] /\ byRef' \in [Refs -> Elements \cup {Nothing}]
      /\ given' \in [Refs -> SUBSET Elements] /\ moved' \in [Refs -> SUBSET Elements]
  BY <1>1 DEF NewDocument
<1>4. UnmintedAreMoved' /\ EntriesAreKnown' /\ ListedOnce'
  BY <1>2 DEF UnmintedAreMoved, EntriesAreKnown, ListedOnce
<1>5. MarksAreKnown'
  BY <1>1, <1>2 DEF MarksAreKnown, Refs
<1> QED BY <1>1, <1>2, <1>3, <1>4, <1>5

\* The invariant does not look at the calls, the table and the world but for their types.
LEMMA RestIsTyped ==
  ASSUME RefsInv, UNCHANGED <<seq, mark, byRef, given, moved>>,
         dom' \in SUBSET Elements, valid' \in SUBSET Elements,
         refEntries' \in SUBSET (0 .. MaxRef), world' \in {"none", "live", "lost"},
         job' \in [Callers -> [does : {"nothing", "snapshot", "read", "act", "fill"}, ref : 0 .. MaxRef,
                               runs : 0 .. 4, reply : SUBSET (0 .. MaxRef)]]
  PROVE  RefsInv'
BY DEF RefsInv, RefsTypeOK, UnmintedAreMoved, MarksAreKnown, EntriesAreKnown, ListedOnce

\* A step of the page keeps the invariant.
LEMMA PageKeeps ==
  ASSUME RefsInv,
         \/ \E e \in Elements : Appears(e) \/ Disconnects(e) \/ Renamed(e)
         \/ PageNavigates \/ TableCleared \/ GotoLoads
  PROVE  RefsInv'
<1>1. ASSUME NEW e \in Elements, Appears(e) \/ Disconnects(e) \/ Renamed(e) PROVE RefsInv'
  <2>1. /\ UNCHANGED <<seq, mark, byRef, given, moved, refEntries, world, job>>
        /\ dom' \in SUBSET Elements /\ valid' \in SUBSET Elements
    BY <1>1 DEF Appears, Disconnects, Renamed, RefsInv, RefsTypeOK
  <2> QED BY <2>1, RestIsTyped DEF RefsInv, RefsTypeOK
<1>2. CASE PageNavigates
  <2>1. world' \in {"none", "live", "lost"} /\ refEntries' \in SUBSET (0 .. MaxRef) /\ job' = job
    BY <1>2 DEF PageNavigates, RefsInv, RefsTypeOK
  <2>2. NewDocument
    BY <1>2 DEF PageNavigates
  <2> QED BY <2>1, <2>2, NewDocumentKeeps DEF RefsInv, RefsTypeOK
<1>3. CASE GotoLoads
  <2>1. world' \in {"none", "live", "lost"} /\ refEntries' \in SUBSET (0 .. MaxRef) /\ job' = job
    BY <1>3 DEF GotoLoads
  <2>2. NewDocument
    BY <1>3 DEF GotoLoads
  <2> QED BY <2>1, <2>2, NewDocumentKeeps DEF RefsInv, RefsTypeOK
<1>4. CASE TableCleared
  <2>1. /\ UNCHANGED <<seq, mark, byRef, given, moved, dom, valid, job>>
        /\ refEntries' = {} /\ world' = "none"
    BY <1>4 DEF TableCleared
  <2> QED BY <2>1, RestIsTyped DEF RefsInv, RefsTypeOK
<1> QED BY <1>1, <1>2, <1>3, <1>4

\* A step of a call keeps the invariant.
LEMMA CallKeeps ==
  ASSUME RefsInv, NEW c \in Callers,
         \/ \E does \in {"snapshot", "read", "act", "fill"} : \E r \in Refs \cup {0} : ToolBegins(c, does, r)
         \/ ContextLost(c) \/ Snapshots(c) \/ ReadsTree(c) \/ ReadReplied(c) \/ Resolves(c) \/ FillTypes(c)
  PROVE  RefsInv'
<1> DEFINE Jobs == [does : {"nothing", "snapshot", "read", "act", "fill"}, ref : 0 .. MaxRef,
                    runs : 0 .. 4, reply : SUBSET (0 .. MaxRef)]
<1>1. MaxRef \in Nat /\ Refs \cup {0} \subseteq 0 .. MaxRef
  BY RefsAssumption DEF Refs
<1>2. job \in [Callers -> Jobs] /\ job[c] \in Jobs
  BY DEF RefsInv, RefsTypeOK
<1>3. Resting \in Jobs
  BY <1>1 DEF Resting
<1>4. ASSUME End(c) PROVE job' \in [Callers -> Jobs]
  BY <1>2, <1>3, <1>4 DEF End
<1>5. ASSUME NEW k \in 0 .. 4, job' = [job EXCEPT ![c].runs = k] PROVE job' \in [Callers -> Jobs]
  BY <1>2, <1>5
<1>6. ASSUME NEW does \in {"snapshot", "read", "act", "fill"}, NEW r \in Refs \cup {0}, ToolBegins(c, does, r)
      PROVE  RefsInv'
  <2>1. [does |-> does, ref |-> r, runs |-> 1, reply |-> {}] \in Jobs
    BY <1>1
  <2>2. job' \in [Callers -> Jobs]
    BY <1>2, <1>6, <2>1 DEF ToolBegins, Begin
  <2>3. UNCHANGED <<seq, mark, byRef, given, moved, dom, valid, refEntries, world>>
    BY <1>6 DEF ToolBegins
  <2> QED BY <2>2, <2>3, RestIsTyped DEF RefsInv, RefsTypeOK
<1>7. CASE ContextLost(c)
  <2>1. job' \in [Callers -> Jobs]
    <3>1. CASE job[c].runs \in {1, 3}
      <4>1. job[c].runs + 1 \in 0 .. 4
        BY <3>1
      <4>2. job' = [job EXCEPT ![c].runs = job[c].runs + 1]
        BY <1>2, <1>7, <3>1 DEF ContextLost
      <4> QED BY <1>5, <4>1, <4>2
    <3>2. CASE job[c].runs \notin {1, 3}
      BY <1>4, <1>7, <3>2 DEF ContextLost
    <3> QED BY <3>1, <3>2
  <2>2. UNCHANGED <<seq, mark, byRef, given, moved, dom, valid, refEntries>> /\ world' = "none"
    BY <1>7 DEF ContextLost
  <2> QED BY <2>1, <2>2, RestIsTyped DEF RefsInv, RefsTypeOK
<1>8. ASSUME ReadsPage(c) PROVE RefsInv'
  <2>1. PICK listed \in SUBSET dom :
          Matches(listed) /\ Answered(c, {mark'[e] : e \in listed})
    BY <1>8 DEF ReadsPage
  <2>2. UNCHANGED <<dom, refEntries, moved>> /\ world' = "live"
    BY <1>8 DEF ReadsPage, RunsInWorld
  <2>3. /\ seq' \in 0 .. MaxRef /\ valid' \in SUBSET Elements
        /\ mark' \in [Elements -> 0 .. MaxRef] /\ byRef' \in [Refs -> Elements \cup {Nothing}]
        /\ given' \in [Refs -> SUBSET Elements]
        /\ UnmintedAreMoved' /\ MarksAreKnown' /\ EntriesAreKnown' /\ ListedOnce'
    BY <2>1, <2>2, ReadKeeps
  <2>4. {mark'[e] : e \in listed} \in SUBSET (0 .. MaxRef)
    BY <2>3 DEF RefsInv, RefsTypeOK
  <2>5. ASSUME NEW reply \in SUBSET (0 .. MaxRef), Answered(c, reply) PROVE job' \in [Callers -> Jobs]
    <3>1. [does |-> job[c].does, ref |-> 0, runs |-> 3, reply |-> reply] \in Jobs
      BY <1>1, <1>2
    <3> QED BY <1>2, <2>5, <3>1 DEF Answered
  <2>6. job' \in [Callers -> Jobs]
    BY <2>1, <2>4, <2>5
  <2> QED BY <2>2, <2>3, <2>6 DEF RefsInv, RefsTypeOK
<1>9. CASE Snapshots(c) \/ ReadsTree(c)
  BY <1>8, <1>9 DEF Snapshots, ReadsTree
<1>10. CASE ReadReplied(c)
  <2>1. job' \in [Callers -> Jobs]
    BY <1>4, <1>10 DEF ReadReplied
  <2>2. job[c].reply \in SUBSET (0 .. MaxRef)
    BY <1>2
  <2>3. refEntries' \in SUBSET (0 .. MaxRef)
    BY <1>10, <2>2 DEF ReadReplied, RefsInv, RefsTypeOK
  <2>4. UNCHANGED <<seq, mark, byRef, given, moved, dom, valid, world>>
    BY <1>10 DEF ReadReplied
  <2> QED BY <2>1, <2>3, <2>4, RestIsTyped DEF RefsInv, RefsTypeOK
<1>11. CASE Resolves(c)
  <2>1. job' \in [Callers -> Jobs]
    BY <1>4, <1>5, <1>11 DEF Resolves
  <2>2. UNCHANGED <<seq, mark, byRef, given, moved, dom, valid, refEntries>> /\ world' = "live"
    BY <1>11 DEF Resolves, RunsInWorld
  <2> QED BY <2>1, <2>2, RestIsTyped DEF RefsInv, RefsTypeOK
<1>12. CASE FillTypes(c)
  <2>1. job' \in [Callers -> Jobs]
    BY <1>4, <1>12 DEF FillTypes
  <2>2. UNCHANGED <<dom, valid, seq, refEntries, given>> /\ world' = "live"
    BY <1>12 DEF FillTypes, RunsInWorld
  <2>3. CASE UNCHANGED <<mark, byRef, moved>>
    BY <2>1, <2>2, <2>3, RestIsTyped DEF RefsInv, RefsTypeOK
  <2>4. CASE \E focused \in dom : Rebind(job[c].ref, focused)
    <3>1. PICK focused \in dom : Rebind(job[c].ref, focused)
      BY <2>4
    <3>2. job[c].ref \in 0 .. MaxRef
      BY <1>2
    <3>3. /\ mark' \in [Elements -> 0 .. MaxRef] /\ byRef' \in [Refs -> Elements \cup {Nothing}]
          /\ moved' \in [Refs -> SUBSET Elements]
          /\ UnmintedAreMoved' /\ MarksAreKnown' /\ EntriesAreKnown' /\ ListedOnce'
      BY <2>2, <3>1, <3>2, RebindKeeps
    <3> QED BY <2>1, <2>2, <3>3 DEF RefsInv, RefsTypeOK
  <2> QED BY <1>12, <2>3, <2>4 DEF FillTypes
<1> QED BY <1>6, <1>7, <1>9, <1>10, <1>11, <1>12

\* The initial states: no document has been read.
LEMMA RefsStart == RefsInit => RefsInv
<1> SUFFICES ASSUME RefsInit PROVE RefsInv
  OBVIOUS
<1>1. MaxRef \in Nat
  BY RefsAssumption
<1>2. Resting \in [does : {"nothing", "snapshot", "read", "act", "fill"}, ref : 0 .. MaxRef,
                   runs : 0 .. 4, reply : SUBSET (0 .. MaxRef)]
  BY <1>1 DEF Resting
<1>3. RefsTypeOK
  BY <1>1, <1>2 DEF RefsInit, RefsTypeOK
<1>4. UnmintedAreMoved /\ EntriesAreKnown /\ ListedOnce
  BY DEF RefsInit, UnmintedAreMoved, EntriesAreKnown, ListedOnce
<1>5. MarksAreKnown
  BY <1>1 DEF RefsInit, MarksAreKnown, Refs
<1> QED BY <1>3, <1>4, <1>5 DEF RefsInv

\* What the invariant says of a ref that is looked up.
LEMMA RefsAreMeant == RefsInv => RefMeansItsElement
<1> SUFFICES ASSUME RefsInv, NEW r \in Refs
             PROVE  /\ FindByRef(r) # Nothing => FindByRef(r) \in given[r] \cup moved[r]
                    /\ moved[r] = {} => \A e, f \in given[r] : e = f
  BY DEF RefMeansItsElement
<1>1. dom \in SUBSET Elements /\ Nothing \notin Elements
  BY RefsAssumption DEF RefsInv, RefsTypeOK
<1>2. CASE byRef[r] \in dom
  <2>1. byRef[r] # Nothing
    BY <1>1, <1>2
  <2> QED BY <1>2, <2>1 DEF FindByRef, RefsInv, EntriesAreKnown, ListedOnce
<1>3. CASE byRef[r] \notin dom /\ \E e \in dom : mark[e] = r
  <2>1. PICK e : e = FindByRef(r) /\ e \in dom /\ mark[e] = r
    BY <1>3 DEF FindByRef
  <2>2. e \in given[r] \cup moved[r]
    BY <1>1, <2>1 DEF RefsInv, MarksAreKnown
  <2> QED BY <2>1, <2>2 DEF RefsInv, ListedOnce
<1>4. CASE byRef[r] \notin dom /\ ~ \E e \in dom : mark[e] = r
  <2>1. FindByRef(r) = Nothing
    BY <1>4 DEF FindByRef
  <2> QED BY <2>1 DEF RefsInv, ListedOnce
<1> QED BY <1>2, <1>3, <1>4

\* However the page takes elements out, renames and puts them back and calls cross,
\* a ref answers to the element it was listed for, or to one a fill gave it to.
THEOREM RefsKeepTheirElements == RefsSpec => []RefMeansItsElement
<1>1. RefsInv /\ [RefsNext]_refVars => RefsInv'
  <2> SUFFICES ASSUME RefsInv, [RefsNext]_refVars PROVE RefsInv'
    OBVIOUS
  <2>1. CASE UNCHANGED refVars
    BY <2>1, RestIsTyped DEF refVars, RefsInv, RefsTypeOK
  <2>2. CASE RefsNext
    BY <2>2, PageKeeps, CallKeeps DEF RefsNext
  <2> QED BY <2>1, <2>2
<1> QED BY <1>1, RefsStart, RefsAreMeant, PTL DEF RefsSpec

----------------------------------------------------------------------------
(* The input that is held down *)

Things == Buttons \cup Modifiers
Events == [of : Hands \cup {"nobody"}, type : {"press", "release", "move"}, what : Things]

----------------------------------------------------------------------------
(* Sequences of events *)

\* A set put in a sequence: each element once.
LEMMA SetToSeqListsAll ==
  ASSUME NEW S, IsFiniteSet(S)
  PROVE  \E n \in Nat : /\ SetToSeq(S) \in [1 .. n -> S] /\ SetToSeq(S) \in Seq(S)
                        /\ DOMAIN SetToSeq(S) = 1 .. n /\ Len(SetToSeq(S)) = n
                        /\ \A i, j \in 1 .. n : SetToSeq(S)[i] = SetToSeq(S)[j] => i = j
                        /\ \A x \in S : \E i \in 1 .. n : SetToSeq(S)[i] = x
<1>1. PICK n \in Nat : ExistsBijection(1 .. n, S)
  BY FS_NatBijection
<1>2. Cardinality(S) = n
  BY <1>1, FS_CountingElements
<1>3. PICK f \in [1 .. n -> S] : \A i, j \in 1 .. n : f[i] = f[j] => i = j
  <2>1. PICK D : D = 1 .. n
    OBVIOUS
  <2>2. ExistsBijection(D, S)
    BY <1>1, <2>1
  <2>3. PICK f : f \in Bijection(D, S)
    BY <2>2 DEF ExistsBijection
  <2>4. f \in [D -> S] /\ \A i, j \in D : f[i] = f[j] => i = j
    BY <2>3 DEF Bijection, Injection, IsInjective
  <2> QED BY <2>1, <2>4
<1>4. IsInjective(f)
  BY <1>3 DEF IsInjective
<1>5. PICK g : g = SetToSeq(S)
  OBVIOUS
<1>6. g \in [1 .. n -> S] /\ IsInjective(g)
  BY <1>2, <1>3, <1>4, <1>5 DEF SetToSeq
<1>7. \A i, j \in 1 .. n : g[i] = g[j] => i = j
  BY <1>6 DEF IsInjective
<1>8. ASSUME NEW x \in S PROVE \E i \in 1 .. n : g[i] = x
  <2> SUFFICES ASSUME \A i \in 1 .. n : g[i] # x PROVE FALSE
    OBVIOUS
  <2>1. PICK T : T = S \ {x}
    OBVIOUS
  <2>2. IsFiniteSet(T) /\ Cardinality(T) = n - 1
    BY <1>2, <1>8, <2>1, FS_RemoveElement
  <2>3. PICK D : D = 1 .. n
    OBVIOUS
  <2>4. IsFiniteSet(D) /\ Cardinality(D) = n
    <3>1. 1 \in Int /\ n \in Int
      OBVIOUS
    <3>2. IsFiniteSet(1 .. n) /\ Cardinality(1 .. n) = IF 1 > n THEN 0 ELSE n - 1 + 1
      BY <3>1, FS_Interval, Zenon
    <3> QED BY <2>3, <3>2
  <2>5. g \in [D -> T]
    BY <1>6, <2>1, <2>3
  <2>6. Cardinality(T) < Cardinality(D)
    BY <2>2, <2>4
  <2>7. \E i, j \in D : i # j /\ g[i] = g[j]
    BY <2>2, <2>4, <2>5, <2>6, FS_PigeonHole
  <2> QED BY <1>7, <2>3, <2>7
<1>9. g \in Seq(S) /\ DOMAIN g = 1 .. n /\ Len(g) = n
  BY <1>6
<1> QED BY <1>5, <1>6, <1>7, <1>8, <1>9

\* Nothing more is down or up when nothing is on the wire.
LEMMA DownAfterNone ==
  ASSUME NEW down \in SUBSET Things
  PROVE  DownAfter(<< >>, down) = down
BY DEF DownAfter, Things

\* The events of w apply before one that is appended.
LEMMA DownAfterAppend ==
  ASSUME NEW w \in Seq(Events), NEW e \in Events, NEW down
  PROVE  DownAfter(Append(w, e), down) = Applied(DownAfter(w, down), e)
<1> DEFINE n == Len(w)
           v == Append(w, e)
<1>1. n \in Nat /\ DOMAIN w = 1 .. n /\ DOMAIN v = 1 .. n + 1
  OBVIOUS
<1>2. (\A i \in 1 .. n : v[i] = w[i]) /\ v[n + 1] = e
  OBVIOUS
<1>3. \A i \in 1 .. n + 1 : i \in 1 .. n \/ i = n + 1
  BY <1>1
<1>4. \A i \in 1 .. n : n + 1 > i /\ i \in 1 .. n + 1
  BY <1>1
<1>5. e.type \in {"press", "release", "move"} /\ e.what \in Things
  BY DEF Events
<1> HIDE DEF n, v
<1>6. ASSUME NEW x \in Things
      PROVE  x \in DownAfter(v, down) <=> x \in Applied(DownAfter(w, down), e)
  <2>1. CASE Turns(e, x)
    <3>1. x \in Applied(DownAfter(w, down), e) <=> e.type = "press"
      BY <2>1 DEF Turns, Applied
    <3>2. e.type = "press" => x \in DownAfter(v, down)
      <4> SUFFICES ASSUME e.type = "press" PROVE x \in DownAfter(v, down)
        OBVIOUS
      <4>1. n + 1 \in DOMAIN v /\ v[n + 1].what = x /\ v[n + 1].type = "press"
        BY <1>1, <1>2, <2>1 DEF Turns
      <4>2. \A j \in DOMAIN v : ~(j > n + 1)
        BY <1>1
      <4> QED BY <4>1, <4>2 DEF DownAfter, Things
    <3>3. x \in DownAfter(v, down) => e.type = "press"
      <4> SUFFICES ASSUME x \in DownAfter(v, down) PROVE e.type = "press"
        OBVIOUS
      <4>1. n + 1 \in DOMAIN v /\ Turns(v[n + 1], x)
        BY <1>1, <1>2, <2>1
      <4>2. PICK i \in DOMAIN v : /\ v[i].what = x /\ v[i].type = "press"
                                  /\ \A j \in DOMAIN v : j > i => ~Turns(v[j], x)
        BY <4>1 DEF DownAfter
      <4>3. i = n + 1
        BY <1>1, <1>3, <1>4, <4>1, <4>2
      <4> QED BY <1>2, <4>2, <4>3
    <3> QED BY <3>1, <3>2, <3>3
  <2>2. CASE ~Turns(e, x)
    <3>1. x \in Applied(DownAfter(w, down), e) <=> x \in DownAfter(w, down)
      BY <1>5, <2>2 DEF Turns, Applied
    <3>2. ASSUME x \in DownAfter(w, down) PROVE x \in DownAfter(v, down)
      <4>1. CASE x \in down /\ \A i \in DOMAIN w : ~Turns(w[i], x)
        <5>1. \A i \in DOMAIN v : ~Turns(v[i], x)
          BY <1>1, <1>2, <1>3, <2>2, <4>1
        <5> QED BY <4>1, <5>1 DEF DownAfter, Things
      <4>2. CASE \E i \in DOMAIN w : /\ w[i].what = x /\ w[i].type = "press"
                                     /\ \A j \in DOMAIN w : j > i => ~Turns(w[j], x)
        <5>1. PICK i \in 1 .. n : /\ w[i].what = x /\ w[i].type = "press"
                                  /\ \A j \in 1 .. n : j > i => ~Turns(w[j], x)
          BY <1>1, <4>2
        <5>2. i \in DOMAIN v /\ v[i].what = x /\ v[i].type = "press"
          BY <1>1, <1>2, <1>4, <5>1
        <5>3. \A j \in DOMAIN v : j > i => ~Turns(v[j], x)
          BY <1>1, <1>2, <1>3, <2>2, <5>1
        <5> QED BY <5>2, <5>3 DEF DownAfter, Things
      <4> QED BY <3>2, <4>1, <4>2 DEF DownAfter
    <3>3. ASSUME x \in DownAfter(v, down) PROVE x \in DownAfter(w, down)
      <4>1. CASE x \in down /\ \A i \in DOMAIN v : ~Turns(v[i], x)
        <5>1. \A i \in DOMAIN w : ~Turns(w[i], x)
          BY <1>1, <1>2, <1>4, <4>1
        <5> QED BY <4>1, <5>1 DEF DownAfter, Things
      <4>2. CASE \E i \in DOMAIN v : /\ v[i].what = x /\ v[i].type = "press"
                                     /\ \A j \in DOMAIN v : j > i => ~Turns(v[j], x)
        <5>1. PICK i \in DOMAIN v : /\ v[i].what = x /\ v[i].type = "press"
                                    /\ \A j \in DOMAIN v : j > i => ~Turns(v[j], x)
          BY <4>2
        <5>2. i # n + 1
          BY <1>2, <2>2, <5>1 DEF Turns
        <5>3. i \in 1 .. n
          BY <1>1, <1>3, <5>1, <5>2
        <5>4. i \in DOMAIN w /\ w[i].what = x /\ w[i].type = "press"
          BY <1>1, <1>2, <5>1, <5>3
        <5>5. \A j \in DOMAIN w : j > i => ~Turns(w[j], x)
          BY <1>1, <1>2, <1>4, <5>1
        <5> QED BY <5>4, <5>5 DEF DownAfter, Things
      <4> QED BY <3>3, <4>1, <4>2 DEF DownAfter
    <3> QED BY <3>1, <3>2, <3>3
  <2> QED BY <2>1, <2>2
<1>7. DownAfter(v, down) \subseteq Things /\ DownAfter(w, down) \subseteq Things
  BY DEF DownAfter, Things
<1>8. Applied(DownAfter(w, down), e) \subseteq Things
  BY <1>5, <1>7 DEF Applied
<1> QED BY <1>6, <1>7, <1>8 DEF v

\* The browser takes the first event: what is down in the end stays.
LEMMA DownAfterTail ==
  ASSUME NEW w \in Seq(Events), w # << >>, NEW down \in SUBSET Things
  PROVE  DownAfter(Tail(w), Applied(down, Head(w))) = DownAfter(w, down)
<1> DEFINE n == Len(w)
           t == Tail(w)
           e == Head(w)
<1>1. n \in Nat /\ n >= 1 /\ DOMAIN w = 1 .. n /\ DOMAIN t = 1 .. n - 1
  OBVIOUS
<1>2. (\A i \in 1 .. n - 1 : t[i] = w[i + 1]) /\ w[1] = e
  OBVIOUS
<1>3. e \in Events
  BY <1>1, <1>2
<1>4. e.type \in {"press", "release", "move"} /\ e.what \in Things
  BY <1>3 DEF Events
<1>5. \A i \in 1 .. n : i = 1 \/ (i - 1 \in 1 .. n - 1 /\ t[i - 1] = w[i])
  BY <1>1, <1>2
<1>6. \A i \in 1 .. n - 1 : i + 1 \in 1 .. n /\ i + 1 > 1
  BY <1>1
<1> HIDE DEF n, t, e
<1>7. ASSUME NEW x \in Things
      PROVE  x \in DownAfter(t, Applied(down, e)) <=> x \in DownAfter(w, down)
  <2>1. CASE \E i \in 1 .. n - 1 : Turns(t[i], x)
    <3>1. ~ \A i \in DOMAIN t : ~Turns(t[i], x)
      BY <1>1, <2>1
    <3>2. ~ \A i \in DOMAIN w : ~Turns(w[i], x)
      BY <1>1, <1>2, <1>6, <2>1
    <3>3. ASSUME x \in DownAfter(t, Applied(down, e)) PROVE x \in DownAfter(w, down)
      <4>1. PICK i \in 1 .. n - 1 : /\ t[i].what = x /\ t[i].type = "press"
                                    /\ \A j \in 1 .. n - 1 : j > i => ~Turns(t[j], x)
        BY <1>1, <3>1, <3>3 DEF DownAfter
      <4>2. i + 1 \in DOMAIN w /\ w[i + 1].what = x /\ w[i + 1].type = "press"
        BY <1>1, <1>2, <1>6, <4>1
      <4>3. ASSUME NEW j \in DOMAIN w, j > i + 1 PROVE ~Turns(w[j], x)
        <5>1. j - 1 \in 1 .. n - 1 /\ t[j - 1] = w[j] /\ j - 1 > i
          BY <1>1, <1>5, <4>3
        <5> QED BY <4>1, <5>1
      <4> QED BY <4>2, <4>3 DEF DownAfter, Things
    <3>4. ASSUME x \in DownAfter(w, down) PROVE x \in DownAfter(t, Applied(down, e))
      <4>1. PICK i \in 1 .. n : /\ w[i].what = x /\ w[i].type = "press"
                                /\ \A j \in 1 .. n : j > i => ~Turns(w[j], x)
        BY <1>1, <3>2, <3>4 DEF DownAfter
      <4>2. PICK k \in 1 .. n - 1 : Turns(t[k], x)
        BY <2>1
      <4>3. i # 1
        BY <1>2, <1>6, <4>1, <4>2
      <4>4. i - 1 \in DOMAIN t /\ t[i - 1].what = x /\ t[i - 1].type = "press"
        BY <1>1, <1>5, <4>1, <4>3
      <4>5. ASSUME NEW j \in DOMAIN t, j > i - 1 PROVE ~Turns(t[j], x)
        <5>1. j + 1 \in 1 .. n /\ t[j] = w[j + 1] /\ j + 1 > i
          BY <1>1, <1>2, <1>6, <4>5
        <5> QED BY <4>1, <5>1
      <4> QED BY <4>4, <4>5 DEF DownAfter, Things
    <3> QED BY <3>3, <3>4
  <2>2. CASE \A i \in 1 .. n - 1 : ~Turns(t[i], x)
    <3>1. x \in DownAfter(t, Applied(down, e)) <=> x \in Applied(down, e)
      BY <1>1, <2>2 DEF DownAfter, Things, Turns
    <3>2. \A i \in 1 .. n : i # 1 => ~Turns(w[i], x)
      BY <1>1, <1>5, <2>2
    <3>3. CASE Turns(e, x)
      <4>1. x \in Applied(down, e) <=> e.type = "press"
        BY <3>3 DEF Turns, Applied
      <4>2. 1 \in DOMAIN w /\ w[1] = e
        BY <1>1, <1>2
      <4>3. ASSUME e.type = "press" PROVE x \in DownAfter(w, down)
        <5>1. \A j \in DOMAIN w : j > 1 => ~Turns(w[j], x)
          BY <1>1, <3>2
        <5> QED BY <3>3, <4>2, <4>3, <5>1 DEF DownAfter, Things, Turns
      <4>4. ASSUME x \in DownAfter(w, down) PROVE e.type = "press"
        <5>1. PICK i \in DOMAIN w : w[i].what = x /\ w[i].type = "press"
          BY <3>3, <4>2, <4>4 DEF DownAfter
        <5>2. i = 1
          BY <1>1, <3>2, <5>1 DEF Turns
        <5> QED BY <4>2, <5>1, <5>2
      <4> QED BY <3>1, <4>1, <4>3, <4>4
    <3>4. CASE ~Turns(e, x)
      <4>1. x \in Applied(down, e) <=> x \in down
        BY <1>4, <3>4 DEF Turns, Applied
      <4>2. \A i \in DOMAIN w : ~Turns(w[i], x)
        BY <1>1, <1>2, <3>2, <3>4
      <4>3. x \in DownAfter(w, down) <=> x \in down
        BY <4>2 DEF DownAfter, Things, Turns
      <4> QED BY <3>1, <4>1, <4>3
    <3> QED BY <3>3, <3>4
  <2> QED BY <2>1, <2>2
<1>8. DownAfter(t, Applied(down, e)) \subseteq Things /\ DownAfter(w, down) \subseteq Things
  BY DEF DownAfter, Things
<1> QED BY <1>7, <1>8 DEF t, e

\* What a chord writes.
ChordEvents(c, set) == Each(c, "press", set) \o Each(c, "release", set)

\* Each element of a set is pressed and let go again: nothing else turns, and they
\* are up.
LEMMA DownAfterChord ==
  ASSUME NEW w \in Seq(Events), NEW c \in Hands, NEW set \in SUBSET Things, IsFiniteSet(set), NEW down
  PROVE  /\ ChordEvents(c, set) \in Seq(Events)
         /\ \A i \in DOMAIN ChordEvents(c, set) : ChordEvents(c, set)[i].of = c
         /\ DownAfter(w \o ChordEvents(c, set), down) = DownAfter(w, down) \ set
<1>1. PICK n \in Nat : /\ SetToSeq(set) \in [1 .. n -> set] /\ DOMAIN SetToSeq(set) = 1 .. n
                       /\ \A i, j \in 1 .. n : SetToSeq(set)[i] = SetToSeq(set)[j] => i = j
                       /\ \A x \in set : \E i \in 1 .. n : SetToSeq(set)[i] = x
  BY SetToSeqListsAll
<1>2. PICK order : order = SetToSeq(set)
  OBVIOUS
<1>3. PICK p : p = Each(c, "press", set)
  OBVIOUS
<1>4. PICK q : q = Each(c, "release", set)
  OBVIOUS
<1>5. /\ p = [i \in 1 .. n |-> InputEvent(c, "press", order[i])]
      /\ q = [i \in 1 .. n |-> InputEvent(c, "release", order[i])]
  BY <1>1, <1>2, <1>3, <1>4 DEF Each
<1>6. \A i \in 1 .. n : order[i] \in set
  BY <1>1, <1>2
<1>7. \A i \in 1 .. n : InputEvent(c, "press", order[i]) \in Events /\ InputEvent(c, "release", order[i]) \in Events
  BY <1>6 DEF InputEvent, Events
<1>8. p \in Seq(Events) /\ q \in Seq(Events) /\ Len(p) = n /\ Len(q) = n
  BY <1>5, <1>7
<1>9. PICK v : v = p \o q
  OBVIOUS
<1>10. v \in Seq(Events) /\ DOMAIN v = 1 .. n + n /\ Len(v) = n + n
  <2>1. v \in Seq(Events) /\ Len(v) = Len(p) + Len(q)
    BY <1>8, <1>9, ConcatProperties
  <2> QED BY <1>8, <2>1
<1>11. /\ \A i \in 1 .. n : v[i] = p[i]
       /\ \A i \in n + 1 .. n + n : v[i] = q[i - n]
  BY <1>8, <1>9
<1>12. ASSUME NEW i \in 1 .. n
       PROVE  p[i].of = c /\ p[i].what = order[i] /\ q[i].of = c /\ q[i].what = order[i] /\ q[i].type = "release"
  BY <1>5 DEF InputEvent
<1>13. ASSUME NEW i \in 1 .. n + n PROVE v[i].of = c /\ v[i].what \in set
  <2>1. CASE i \in 1 .. n
    BY <1>6, <1>11, <1>12, <2>1
  <2>2. CASE i \in n + 1 .. n + n
    <3>1. i - n \in 1 .. n
      BY <2>2
    <3> QED BY <1>6, <1>11, <1>12, <2>2, <3>1
  <2> QED BY <2>1, <2>2
<1>14. ASSUME NEW x \in set
       PROVE  \E i \in 1 .. n + n : /\ v[i].what = x /\ v[i].type = "release"
                                    /\ \A j \in 1 .. n + n : j > i => v[j].what # x
  <2>1. PICK k \in 1 .. n : order[k] = x
    BY <1>1, <1>2
  <2>2. n + k \in 1 .. n + n /\ n + k \in n + 1 .. n + n /\ n + k - n = k
    OBVIOUS
  <2>3. v[n + k].what = x /\ v[n + k].type = "release"
    BY <1>11, <1>12, <2>1, <2>2
  <2>4. ASSUME NEW j \in 1 .. n + n, j > n + k PROVE v[j].what # x
    <3>1. j - n \in 1 .. n /\ j - n # k /\ j \in n + 1 .. n + n
      BY <2>4
    <3>2. v[j].what = order[j - n]
      BY <1>11, <1>12, <3>1
    <3> QED BY <1>1, <1>2, <2>1, <3>1, <3>2
  <2> QED BY <2>2, <2>3, <2>4
<1>15. PICK m \in Nat : Len(w) = m /\ DOMAIN w = 1 .. m
  OBVIOUS
<1>16. PICK l \in Nat : l = n + n
  OBVIOUS
<1>17. PICK u : u = w \o v
  OBVIOUS
<1>18. /\ DOMAIN u = 1 .. m + l
       /\ \A i \in 1 .. m : u[i] = w[i]
       /\ \A i \in 1 .. l : u[m + i] = v[i]
  <2>1. u \in Seq(Events) /\ Len(u) = Len(w) + Len(v)
    BY <1>10, <1>17, ConcatProperties
  <2>2. Len(u) = m + l
    BY <1>10, <1>15, <1>16, <2>1
  <2>3. \A i \in 1 .. Len(w) + Len(v) : u[i] = IF i <= Len(w) THEN w[i] ELSE v[i - Len(w)]
    BY <1>10, <1>17, ConcatProperties
  <2>4. DOMAIN u = 1 .. m + l
    BY <2>1, <2>2
  <2>5. ASSUME NEW i \in 1 .. m PROVE u[i] = w[i]
    BY <1>10, <1>15, <1>16, <2>3
  <2>6. ASSUME NEW i \in 1 .. l PROVE u[m + i] = v[i]
    <3>1. m + i \in 1 .. Len(w) + Len(v) /\ ~(m + i <= Len(w)) /\ m + i - Len(w) = i
      BY <1>10, <1>15, <1>16
    <3> QED BY <2>3, <3>1
  <2> QED BY <2>4, <2>5, <2>6
<1>19. \A i \in 1 .. m + l : i \in 1 .. m \/ (i - m \in 1 .. l /\ m + (i - m) = i)
  BY <1>15, <1>16
<1>20. (\A i \in 1 .. m : i \in 1 .. m + l) /\ \A i \in 1 .. l : m + i \in 1 .. m + l
  BY <1>15, <1>16
<1>21. ASSUME NEW x \in set PROVE x \notin DownAfter(u, down)
  <2>1. PICK k \in 1 .. l : /\ v[k].what = x /\ v[k].type = "release"
                            /\ \A j \in 1 .. l : j > k => v[j].what # x
    BY <1>14, <1>16
  <2>2. m + k \in DOMAIN u /\ Turns(u[m + k], x) /\ u[m + k].type = "release"
    BY <1>18, <1>20, <2>1 DEF Turns
  <2>3. SUFFICES ASSUME NEW i \in DOMAIN u, u[i].what = x, u[i].type = "press",
                        \A j \in DOMAIN u : j > i => ~Turns(u[j], x)
                 PROVE  FALSE
    BY <2>2 DEF DownAfter
  <2>4. ~(m + k > i) /\ i # m + k
    BY <2>2, <2>3
  <2>5. i - m \in 1 .. l /\ m + (i - m) = i /\ i - m > k
    <3>1. m \in Nat /\ l \in Nat /\ k \in 1 .. l /\ i \in 1 .. m + l
      BY <1>15, <1>16, <1>18, <2>3
    <3> QED BY ONLY <2>4, <3>1
  <2>6. v[i - m].what = x
    BY <1>18, <2>3, <2>5
  <2> QED BY <2>1, <2>5, <2>6
<1>22. ASSUME NEW x \in Things \ set PROVE x \in DownAfter(u, down) <=> x \in DownAfter(w, down)
  <2>1. \A i \in 1 .. l : ~Turns(u[m + i], x) /\ u[m + i].what # x
    BY <1>13, <1>16, <1>18 DEF Turns
  <2>2. \A i \in DOMAIN u : i \notin 1 .. m => ~Turns(u[i], x) /\ u[i].what # x
    BY <1>18, <1>19, <2>1
  <2>3. (\A i \in DOMAIN u : ~Turns(u[i], x)) <=> \A i \in DOMAIN w : ~Turns(w[i], x)
    BY <1>15, <1>18, <1>20, <2>2
  <2>4. ASSUME NEW i \in DOMAIN u, u[i].what = x, u[i].type = "press", \A j \in DOMAIN u : j > i => ~Turns(u[j], x)
        PROVE  /\ i \in DOMAIN w /\ w[i].what = x /\ w[i].type = "press"
               /\ \A j \in DOMAIN w : j > i => ~Turns(w[j], x)
    <3>1. i \in DOMAIN w /\ w[i] = u[i]
      BY <1>15, <1>18, <2>2, <2>4
    <3>2. \A j \in DOMAIN w : j \in DOMAIN u /\ w[j] = u[j]
      BY <1>15, <1>18, <1>20
    <3> QED BY <2>4, <3>1, <3>2
  <2>5. ASSUME NEW i \in DOMAIN w, w[i].what = x, w[i].type = "press", \A j \in DOMAIN w : j > i => ~Turns(w[j], x)
        PROVE  /\ i \in DOMAIN u /\ u[i].what = x /\ u[i].type = "press"
               /\ \A j \in DOMAIN u : j > i => ~Turns(u[j], x)
    <3>1. i \in DOMAIN u /\ u[i] = w[i]
      BY <1>15, <1>18, <1>20
    <3>2. ASSUME NEW j \in DOMAIN u, j > i PROVE ~Turns(u[j], x)
      <4>1. CASE j \in 1 .. m
        BY <1>15, <1>18, <2>5, <3>2, <4>1
      <4>2. CASE j \notin 1 .. m
        BY <2>2, <4>2
      <4> QED BY <4>1, <4>2
    <3> QED BY <2>5, <3>1, <3>2
  <2> QED BY <2>3, <2>4, <2>5 DEF DownAfter
<1>23. DownAfter(u, down) \subseteq Things /\ DownAfter(w, down) \subseteq Things
  BY DEF DownAfter, Things
<1>24. DownAfter(u, down) = DownAfter(w, down) \ set
  BY <1>21, <1>22, <1>23
<1>25. v = ChordEvents(c, set)
  BY <1>3, <1>4, <1>9 DEF ChordEvents
<1>26. w \o ChordEvents(c, set) = u
  BY <1>17, <1>25
<1>27. v \in Seq(Events) /\ \A i \in DOMAIN v : v[i].of = c
  BY <1>10, <1>13
<1> QED BY <1>24, <1>25, <1>26, <1>27

----------------------------------------------------------------------------
(* The invariant *)

Doings == {"nothing", "click", "down", "up", "drag", "moves", "chord", "keyDown", "keyUp",
           "releaseAll", "released", "releaseKeys"}
HandStates == [does : Doings, what : SUBSET Things, left : Int, later : SUBSET Buttons]

HeldTypeOK ==
  /\ buttons \in SUBSET Buttons /\ heldKeys \in SUBSET Modifiers /\ pressed \in SUBSET Things
  /\ wire \in Seq(Events)
  /\ hand \in [Hands -> HandStates]
  /\ overlapped \in BOOLEAN /\ refused \in BOOLEAN

\* What holds the button of one turn, and when all turns up to it are out of a set.
HoldsATurn(what) == \E j \in DOMAIN ButtonOrder : what = {ButtonOrder[j]}
TurnsPassed(what, set) ==
  \E j \in DOMAIN ButtonOrder : what = {ButtonOrder[j]} /\ \A i \in 1 .. j : ButtonOrder[i] \notin set

\* What a gesture of several steps needs to go on.
GesturesAreWhole ==
  \A c \in Hands :
    /\ hand[c].does \in {"drag", "moves"} => \E b \in Buttons : hand[c].what = {b}
    /\ hand[c].does \in {"releaseAll", "released"} => HoldsATurn(hand[c].what)

Busy(c) == hand[c].does # "nothing"
\* A call that assigns to state.buttons when its events are answered.
AssignsLater(c) == hand[c].does \in {"down", "up", "drag", "releaseAll"}

\* A call that has the tab to itself: nothing on the way is of another, and what
\* will be down is what it writes in the end.
OneAtATime == \A c, d \in Hands : Busy(c) /\ Busy(d) => c = d
EventsHaveOwners == \A i \in DOMAIN wire : wire[i].of \in Hands /\ Busy(wire[i].of)
AnswersCounted == \A c \in Hands : Busy(c) => hand[c].left = Len(wire)
ButtonsAreMeant ==
  /\ (\A c \in Hands : ~AssignsLater(c)) => DownAfter(wire, pressed) \cap Buttons = buttons
  /\ \A c \in Hands : AssignsLater(c) => DownAfter(wire, pressed) \cap Buttons = hand[c].later
\* releaseAll leaves no button behind that it has passed, and lists every key.
ReleasesInOrder ==
  \A c \in Hands :
    /\ hand[c].does = "releaseAll" => \A i \in 1 .. TurnOf(c) : ButtonOrder[i] \notin hand[c].later
    /\ hand[c].does = "released" => \A i \in 1 .. TurnOf(c) : ButtonOrder[i] \notin buttons
    /\ hand[c].does = "releaseKeys" => buttons = {} /\ heldKeys \subseteq hand[c].what

AloneInv ==
  (~refused /\ ~overlapped) =>
    OneAtATime /\ EventsHaveOwners /\ AnswersCounted /\ ButtonsAreMeant /\ ReleasesInOrder

HeldInv == HeldTypeOK /\ GesturesAreWhole /\ KeysFollow /\ AloneInv

\* The buttons have an order, each a turn of its own.
LEMMA EveryButtonHasATurn ==
  \E n \in Nat : /\ ButtonOrder \in [1 .. n -> Buttons] /\ DOMAIN ButtonOrder = 1 .. n /\ Len(ButtonOrder) = n
                 /\ \A i, j \in 1 .. n : ButtonOrder[i] = ButtonOrder[j] => i = j
                 /\ \A b \in Buttons : \E i \in 1 .. n : ButtonOrder[i] = b
BY HeldInputAssumption, SetToSeqListsAll DEF ButtonOrder

\* The turn of a call is that of the button it holds.
LEMMA TurnIsKnown ==
  ASSUME NEW c \in Hands, NEW j \in DOMAIN ButtonOrder, hand[c].what = {ButtonOrder[j]}
  PROVE  TurnOf(c) = j
<1>1. PICK n \in Nat : /\ DOMAIN ButtonOrder = 1 .. n /\ Len(ButtonOrder) = n
                       /\ \A i, k \in 1 .. n : ButtonOrder[i] = ButtonOrder[k] => i = k
  BY EveryButtonHasATurn
<1>2. j \in 1 .. Len(ButtonOrder) /\ ButtonOrder[j] \in hand[c].what
  BY <1>1
<1>3. \A i \in 1 .. Len(ButtonOrder) : ButtonOrder[i] \in hand[c].what => i = j
  BY <1>1
<1> QED BY <1>2, <1>3 DEF TurnOf

\* The next button held has its turn first.
LEMMA NextTurn ==
  ASSUME HeldTypeOK, NEW i \in Nat, HeldAfter(i) # {}
  PROVE  \E j \in DOMAIN ButtonOrder :
           /\ j = Min(HeldAfter(i)) /\ j \in Nat /\ ButtonOrder[j] \in buttons
           /\ \A k \in 1 .. j : k > i => (k = j \/ ButtonOrder[k] \notin buttons)
<1>1. PICK n \in Nat : DOMAIN ButtonOrder = 1 .. n /\ Len(ButtonOrder) = n
  BY EveryButtonHasATurn
<1>2. PICK H : H = HeldAfter(i)
  OBVIOUS
<1>3. H \subseteq Nat /\ H # {}
  BY <1>1, <1>2 DEF HeldAfter
<1>4. PICK m \in H : \A k \in H : <<k, m>> \notin {ss \in Nat \X Nat : ss[1] < ss[2]}
  BY <1>3, NatLessThanWellFounded, WFMin DEF OpToRel
<1>5. ASSUME NEW k \in H PROVE m <= k
  <2> DEFINE pair == <<k, m>>
  <2>1. m \in Nat /\ k \in Nat
    BY <1>3
  <2>2. pair \in Nat \X Nat /\ pair[1] = k /\ pair[2] = m
    BY <2>1
  <2>3. ~ (pair[1] < pair[2])
    <3> HIDE DEF pair
    <3> QED BY <1>4, <2>2
  <2> QED BY <2>1, <2>2, <2>3
<1>6. PICK l : l = Min(H)
  OBVIOUS
<1>7. l \in H /\ \A k \in H : l <= k
  BY <1>4, <1>5, <1>6 DEF Min
<1>8. l \in DOMAIN ButtonOrder /\ ButtonOrder[l] \in buttons /\ l \in Nat
  BY <1>1, <1>2, <1>3, <1>7 DEF HeldAfter
<1>9. ASSUME NEW k \in 1 .. l, k > i, k # l PROVE ButtonOrder[k] \notin buttons
  <2> SUFFICES ASSUME ButtonOrder[k] \in buttons PROVE FALSE
    OBVIOUS
  <2>1. k \in i + 1 .. Len(ButtonOrder)
    BY <1>1, <1>8, <1>9
  <2>2. k \in H
    BY <1>2, <2>1 DEF HeldAfter
  <2> QED BY <1>7, <1>8, <1>9, <2>2
<1> QED BY <1>2, <1>6, <1>8, <1>9

\* When no turn is left, no button is.
LEMMA NoButtonLeft ==
  ASSUME HeldTypeOK, NEW past \in Nat, HeldAfter(past) = {}, \A i \in 1 .. past : ButtonOrder[i] \notin buttons
  PROVE  buttons = {}
<1>1. PICK n \in Nat : Len(ButtonOrder) = n /\ \A b \in Buttons : \E i \in 1 .. n : ButtonOrder[i] = b
  BY EveryButtonHasATurn
<1> SUFFICES ASSUME NEW b \in buttons PROVE FALSE
  OBVIOUS
<1>2. b \in Buttons
  BY DEF HeldTypeOK
<1>3. PICK i \in 1 .. n : ButtonOrder[i] = b
  BY <1>1, <1>2
<1>4. CASE i \in 1 .. past
  BY <1>3, <1>4
<1>5. CASE i \notin 1 .. past
  <2>1. i \in past + 1 .. n
    BY <1>5
  <2> QED BY <1>1, <1>3, <2>1 DEF HeldAfter
<1> QED BY <1>4, <1>5

\* What a call writes to the wire and notes keeps the types.
LEMMA DispatchIsTyped ==
  ASSUME HeldTypeOK, NEW c \in Hands, NEW does \in Doings, NEW what \in SUBSET Things,
         NEW events \in Seq(Events), NEW later \in SUBSET Buttons, Dispatch(c, does, what, events, later)
  PROVE  /\ wire' \in Seq(Events) /\ hand' \in [Hands -> HandStates]
         /\ wire' = wire \o events
         /\ hand'[c].does = does /\ hand'[c].what = what /\ hand'[c].left = Len(events)
         /\ hand'[c].later = later
         /\ \A d \in Hands \ {c} : hand'[d] = hand[d]
<1>1. Len(events) \in Int
  OBVIOUS
<1>2. [does |-> does, what |-> what, left |-> Len(events), later |-> later] \in HandStates
  BY <1>1 DEF HandStates
<1>3. wire' \in Seq(Events)
  BY ConcatProperties DEF HeldTypeOK, Dispatch
<1>4. hand \in [Hands -> HandStates]
  BY DEF HeldTypeOK
<1>5. /\ hand' = [hand EXCEPT ![c] = [does |-> does, what |-> what, left |-> Len(events), later |-> later]]
      /\ wire' = wire \o events
  BY DEF Dispatch
<1>6. hand'[c] = [does |-> does, what |-> what, left |-> Len(events), later |-> later]
  BY <1>4, <1>5
<1> QED BY <1>2, <1>3, <1>4, <1>5, <1>6

\* A call that begins has the tab to itself unless two are under way at once.
LEMMA BegunAlone ==
  ASSUME HeldInv, NEW c \in Hands, hand[c] = Free, ~refused,
         overlapped' = (overlapped \/ \E d \in Hands \ {c} : hand[d] # Free), ~overlapped'
  PROVE  /\ ~overlapped /\ wire = << >> /\ \A d \in Hands \ {c} : ~Busy(d)
         /\ pressed \cap Buttons = buttons
<1>1. ~overlapped /\ \A d \in Hands : hand[d] = Free
  OBVIOUS
<1>2. \A d \in Hands : ~Busy(d) /\ ~AssignsLater(d)
  BY <1>1 DEF Busy, AssignsLater, Free
<1>3. EventsHaveOwners /\ ButtonsAreMeant
  BY <1>1 DEF HeldInv, AloneInv
<1>4. DOMAIN wire = {}
  BY <1>2, <1>3 DEF EventsHaveOwners
<1>5. wire = << >>
  BY <1>4 DEF HeldInv, HeldTypeOK
<1>6. DownAfter(wire, pressed) = pressed
  BY <1>5, DownAfterNone DEF HeldInv, HeldTypeOK
<1> QED BY <1>1, <1>2, <1>3, <1>5, <1>6 DEF ButtonsAreMeant

\* So has one that is answered, and the browser has what it meant.
LEMMA OverAlone ==
  ASSUME HeldInv, NEW c \in Hands, Over(c), Busy(c), ~refused, ~overlapped
  PROVE  /\ wire = << >> /\ \A d \in Hands \ {c} : ~Busy(d)
         /\ pressed \cap Buttons = IF AssignsLater(c) THEN hand[c].later ELSE buttons
<1>1. OneAtATime /\ AnswersCounted /\ ButtonsAreMeant
  BY DEF HeldInv, AloneInv
<1>2. \A d \in Hands \ {c} : ~Busy(d)
  BY <1>1 DEF OneAtATime
<1>3. Len(wire) = 0
  BY <1>1 DEF AnswersCounted, Over
<1>4. wire = << >>
  BY <1>3, EmptySeq DEF HeldInv, HeldTypeOK
<1>5. DownAfter(wire, pressed) = pressed
  BY <1>4, DownAfterNone DEF HeldInv, HeldTypeOK
<1>6. \A d \in Hands : AssignsLater(d) => Busy(d)
  BY DEF AssignsLater, Busy
<1>7. CASE AssignsLater(c)
  BY <1>1, <1>2, <1>4, <1>5, <1>7 DEF ButtonsAreMeant
<1>8. CASE ~AssignsLater(c)
  BY <1>1, <1>2, <1>4, <1>5, <1>6, <1>8 DEF ButtonsAreMeant
<1> QED BY <1>7, <1>8

----------------------------------------------------------------------------
(* The steps *)

\* A call sends the events of its gesture, or of the next part of it.
LEMMA SendKeeps ==
  ASSUME HeldInv, NEW c \in Hands, NEW does \in Doings \ {"nothing", "released"}, NEW what \in SUBSET Things,
         NEW events \in Seq(Events), NEW later \in SUBSET Buttons, Dispatch(c, does, what, events, later),
         \A i \in DOMAIN events : events[i].of = c,
         buttons' \in SUBSET Buttons, heldKeys' \in SUBSET Modifiers, UNCHANGED <<pressed, refused>>,
         overlapped' \in BOOLEAN,
         does \in {"drag", "moves"} => \E b \in Buttons : what = {b},
         does = "releaseAll" => HoldsATurn(what),
         ~refused => DownAfter(wire \o events, pressed) \cap Modifiers = heldKeys',
         (~refused /\ ~overlapped') =>
           /\ wire = << >> /\ \A d \in Hands \ {c} : ~Busy(d)
           /\ DownAfter(events, pressed) \cap Buttons
                = IF does \in {"down", "up", "drag", "releaseAll"} THEN later ELSE buttons'
           /\ does = "releaseAll" => TurnsPassed(what, later)
           /\ does = "releaseKeys" => buttons' = {} /\ heldKeys' \subseteq what
  PROVE  HeldInv'
<1>1. HeldTypeOK /\ does \in Doings
  BY DEF HeldInv
<1>2. /\ wire' \in Seq(Events) /\ hand' \in [Hands -> HandStates] /\ wire' = wire \o events
      /\ hand'[c].does = does /\ hand'[c].what = what /\ hand'[c].left = Len(events)
      /\ hand'[c].later = later
      /\ \A d \in Hands \ {c} : hand'[d] = hand[d]
  BY <1>1, DispatchIsTyped
<1>3. HeldTypeOK'
  BY <1>1, <1>2 DEF HeldInv, HeldTypeOK
<1>4. GesturesAreWhole'
  <2> SUFFICES ASSUME NEW d \in Hands
      PROVE  /\ hand'[d].does \in {"drag", "moves"} => \E b \in Buttons : hand'[d].what = {b}
             /\ hand'[d].does \in {"releaseAll", "released"} => HoldsATurn(hand'[d].what)
    BY DEF GesturesAreWhole, HoldsATurn, ButtonOrder
  <2>1. CASE d = c
    BY <1>2, <2>1
  <2>2. CASE d # c
    <3>1. GesturesAreWhole /\ hand'[d] = hand[d]
      BY <1>2, <2>2 DEF HeldInv
    <3> QED BY <3>1 DEF GesturesAreWhole
  <2> QED BY <2>1, <2>2
<1>5. KeysFollow'
  BY <1>1, <1>2 DEF KeysFollow
<1>6. AloneInv'
  <2> SUFFICES ASSUME ~refused, ~overlapped'
      PROVE (OneAtATime /\ EventsHaveOwners /\ AnswersCounted /\ ButtonsAreMeant /\ ReleasesInOrder)'
    BY DEF AloneInv
  <2>1. \A d \in Hands \ {c} : hand'[d].does = "nothing"
    BY <1>1, <1>2 DEF Busy
  <2>2. wire' = events
    BY <1>1, <1>2, ConcatEmptySeq
  <2>3. OneAtATime'
    BY <2>1 DEF OneAtATime, Busy
  <2>4. EventsHaveOwners'
    BY <1>2, <2>2 DEF EventsHaveOwners, Busy
  <2>5. AnswersCounted'
    BY <1>2, <2>1, <2>2 DEF AnswersCounted, Busy
  <2>6. \A d \in Hands : AssignsLater(d)' => d = c
    BY <2>1 DEF AssignsLater
  <2>7. AssignsLater(c)' <=> does \in {"down", "up", "drag", "releaseAll"}
    BY <1>2 DEF AssignsLater
  <2>8. ButtonsAreMeant'
    BY <1>2, <2>2, <2>6, <2>7 DEF ButtonsAreMeant
  <2>9. ASSUME NEW d \in Hands
        PROVE  /\ hand'[d].does = "releaseAll" => \A i \in 1 .. TurnOf(d)' : ButtonOrder[i] \notin hand'[d].later
               /\ hand'[d].does = "released" => \A i \in 1 .. TurnOf(d)' : ButtonOrder[i] \notin buttons'
               /\ hand'[d].does = "releaseKeys" => buttons' = {} /\ heldKeys' \subseteq hand'[d].what
    <3>1. CASE d # c
      BY <2>1, <3>1
    <3>2. CASE d = c /\ does = "releaseAll"
      <4>1. PICK j \in DOMAIN ButtonOrder : what = {ButtonOrder[j]} /\ \A i \in 1 .. j : ButtonOrder[i] \notin later
        BY <3>2 DEF TurnsPassed
      <4>2. TurnOf(c)' = j
        <5>1. PICK n \in Nat : /\ DOMAIN ButtonOrder = 1 .. n /\ Len(ButtonOrder) = n
                               /\ \A i, k \in 1 .. n : ButtonOrder[i] = ButtonOrder[k] => i = k
          BY EveryButtonHasATurn
        <5>2. j \in 1 .. Len(ButtonOrder) /\ ButtonOrder[j] \in hand'[c].what
          BY <1>2, <4>1, <5>1
        <5>3. \A i \in 1 .. Len(ButtonOrder) : ButtonOrder[i] \in hand'[c].what => i = j
          BY <1>2, <4>1, <5>1
        <5> QED BY <5>2, <5>3 DEF TurnOf, ButtonOrder
      <4> QED BY <1>2, <3>2, <4>1, <4>2
    <3>3. CASE d = c /\ does # "releaseAll"
      BY <1>2, <3>3
    <3> QED BY <3>1, <3>2, <3>3
  <2>10. ReleasesInOrder'
    BY <2>9 DEF ReleasesInOrder, ButtonOrder
  <2> QED BY <2>3, <2>4, <2>5, <2>8, <2>10
<1> QED BY <1>3, <1>4, <1>5, <1>6 DEF HeldInv

\* A call goes on without a word to the browser, or is over.
LEMMA HandsMoveKeeps ==
  ASSUME HeldInv, NEW c \in Hands, NEW becomes \in HandStates, hand' = [hand EXCEPT ![c] = becomes],
         becomes.does \in {"nothing", "released"},
         becomes.does = "released" => HoldsATurn(becomes.what),
         buttons' \in SUBSET Buttons, UNCHANGED <<heldKeys, pressed, wire, refused>>, overlapped' \in BOOLEAN,
         (~refused /\ ~overlapped') =>
           /\ wire = << >> /\ \A d \in Hands \ {c} : ~Busy(d)
           /\ pressed \cap Buttons = buttons'
           /\ becomes.does = "released" =>
                /\ becomes.left = 0
                /\ TurnsPassed(becomes.what, buttons')
  PROVE  HeldInv'
<1>1. hand' \in [Hands -> HandStates] /\ hand'[c] = becomes /\ \A d \in Hands \ {c} : hand'[d] = hand[d]
  BY DEF HeldInv, HeldTypeOK
<1>2. HeldTypeOK'
  BY <1>1 DEF HeldInv, HeldTypeOK
<1>3. GesturesAreWhole'
  <2> SUFFICES ASSUME NEW d \in Hands
      PROVE  /\ hand'[d].does \in {"drag", "moves"} => \E b \in Buttons : hand'[d].what = {b}
             /\ hand'[d].does \in {"releaseAll", "released"} => HoldsATurn(hand'[d].what)
    BY DEF GesturesAreWhole, HoldsATurn, ButtonOrder
  <2>1. CASE d = c
    BY <1>1, <2>1
  <2>2. CASE d # c
    <3>1. GesturesAreWhole /\ hand'[d] = hand[d]
      BY <1>1, <2>2 DEF HeldInv
    <3> QED BY <3>1 DEF GesturesAreWhole
  <2> QED BY <2>1, <2>2
<1>4. KeysFollow'
  BY DEF HeldInv, KeysFollow
<1>5. AloneInv'
  <2> SUFFICES ASSUME ~refused, ~overlapped'
      PROVE (OneAtATime /\ EventsHaveOwners /\ AnswersCounted /\ ButtonsAreMeant /\ ReleasesInOrder)'
    BY DEF AloneInv
  <2>1. \A d \in Hands \ {c} : hand'[d].does = "nothing"
    BY <1>1 DEF Busy
  <2>2. wire' = << >>
    OBVIOUS
  <2>3. OneAtATime' /\ EventsHaveOwners'
    BY <2>1, <2>2 DEF OneAtATime, EventsHaveOwners, Busy
  <2>4. AnswersCounted'
    BY <1>1, <2>1, <2>2 DEF AnswersCounted, Busy
  <2>5. \A d \in Hands : ~AssignsLater(d)'
    BY <1>1, <2>1 DEF AssignsLater
  <2>6. DownAfter(wire', pressed') = pressed
    BY <2>2, DownAfterNone DEF HeldInv, HeldTypeOK
  <2>7. ButtonsAreMeant'
    BY <2>5, <2>6 DEF ButtonsAreMeant
  <2>8. ASSUME NEW d \in Hands
        PROVE  /\ hand'[d].does = "releaseAll" => \A i \in 1 .. TurnOf(d)' : ButtonOrder[i] \notin hand'[d].later
               /\ hand'[d].does = "released" => \A i \in 1 .. TurnOf(d)' : ButtonOrder[i] \notin buttons'
               /\ hand'[d].does = "releaseKeys" => buttons' = {} /\ heldKeys' \subseteq hand'[d].what
    <3>1. CASE d # c
      BY <2>1, <3>1
    <3>2. CASE d = c /\ becomes.does = "released"
      <4>1. PICK j \in DOMAIN ButtonOrder :
              becomes.what = {ButtonOrder[j]} /\ \A i \in 1 .. j : ButtonOrder[i] \notin buttons'
        BY <3>2 DEF TurnsPassed
      <4>2. TurnOf(c)' = j
        <5>1. PICK n \in Nat : /\ DOMAIN ButtonOrder = 1 .. n /\ Len(ButtonOrder) = n
                               /\ \A i, k \in 1 .. n : ButtonOrder[i] = ButtonOrder[k] => i = k
          BY EveryButtonHasATurn
        <5>2. j \in 1 .. Len(ButtonOrder) /\ ButtonOrder[j] \in hand'[c].what
          BY <1>1, <4>1, <5>1
        <5>3. \A i \in 1 .. Len(ButtonOrder) : ButtonOrder[i] \in hand'[c].what => i = j
          BY <1>1, <4>1, <5>1
        <5> QED BY <5>2, <5>3 DEF TurnOf, ButtonOrder
      <4> QED BY <1>1, <3>2, <4>1, <4>2
    <3>3. CASE d = c /\ becomes.does = "nothing"
      BY <1>1, <3>3
    <3> QED BY <3>1, <3>2, <3>3
  <2>9. ReleasesInOrder'
    BY <2>8 DEF ReleasesInOrder, ButtonOrder
  <2> QED BY <2>3, <2>4, <2>7, <2>9
<1> QED BY <1>2, <1>3, <1>4, <1>5 DEF HeldInv

\* One event applies to what is down in the end, and to what is down when it is the
\* only one.
LEMMA OneEvent ==
  ASSUME HeldTypeOK, NEW c \in Hands, NEW type \in {"press", "release", "move"}, NEW what \in Things
  PROVE  LET e == InputEvent(c, type, what) IN
           /\ <<e>> \in Seq(Events) /\ Len(<<e>>) = 1 /\ \A i \in DOMAIN <<e>> : <<e>>[i].of = c
           /\ e.type = type /\ e.what = what
           /\ DownAfter(wire \o <<e>>, pressed) = Applied(DownAfter(wire, pressed), e)
           /\ DownAfter(<<e>>, pressed) = Applied(pressed, e)
<1>1. PICK e : e = InputEvent(c, type, what)
  OBVIOUS
<1>2. e \in Events /\ e.type = type /\ e.what = what /\ e.of = c
  BY <1>1 DEF InputEvent, Events
<1>3. wire \in Seq(Events) /\ pressed \in SUBSET Things
  BY DEF HeldTypeOK
<1>4. <<e>> \in Seq(Events) /\ Len(<<e>>) = 1 /\ \A i \in DOMAIN <<e>> : <<e>>[i].of = c
  BY <1>2
<1>5. wire \o <<e>> = Append(wire, e) /\ <<e>> = Append(<< >>, e) /\ << >> \in Seq(Events)
  BY <1>2, <1>3
<1>6. DownAfter(wire \o <<e>>, pressed) = Applied(DownAfter(wire, pressed), e)
  BY <1>2, <1>3, <1>5, DownAfterAppend
<1>7. DownAfter(<<e>>, pressed) = Applied(DownAfter(<< >>, pressed), e)
  BY <1>2, <1>5, DownAfterAppend
<1>8. DownAfter(<< >>, pressed) = pressed
  BY <1>3, DownAfterNone
<1> QED BY <1>1, <1>2, <1>4, <1>6, <1>7, <1>8

\* What a gesture finds when it begins.
LEMMA Begun ==
  ASSUME HeldInv, NEW c \in Hands, NEW gesture, GestureBegins(c, gesture)
  PROVE  /\ gesture /\ UNCHANGED <<buttons, pressed, refused>> /\ overlapped' \in BOOLEAN
         /\ buttons' \in SUBSET Buttons /\ hand[c].does = "nothing" /\ HeldTypeOK
         /\ ~refused => DownAfter(wire, pressed) \cap Modifiers = heldKeys
         /\ (~refused /\ ~overlapped') =>
               wire = << >> /\ (\A d \in Hands \ {c} : ~Busy(d)) /\ pressed \cap Buttons = buttons
<1>1. /\ gesture /\ UNCHANGED <<buttons, pressed, refused>> /\ hand[c] = Free
      /\ overlapped' = (overlapped \/ \E d \in Hands \ {c} : hand[d] # Free)
  BY DEF GestureBegins
<1>2. (~refused /\ ~overlapped') =>
        wire = << >> /\ (\A d \in Hands \ {c} : ~Busy(d)) /\ pressed \cap Buttons = buttons
  BY <1>1, BegunAlone
<1>3. overlapped' \in BOOLEAN
  BY <1>1 DEF HeldInv, HeldTypeOK
<1>4. HeldTypeOK /\ (~refused => DownAfter(wire, pressed) \cap Modifiers = heldKeys)
  BY DEF HeldInv, KeysFollow
<1>5. buttons' \in SUBSET Buttons /\ hand[c].does = "nothing"
  BY <1>1, <1>4 DEF HeldTypeOK, Free
<1> QED BY <1>1, <1>2, <1>3, <1>4, <1>5

\* A click presses and releases.
LEMMA ClickKeeps ==
  ASSUME HeldInv, NEW c \in Hands, NEW b \in Buttons, GestureBegins(c, Click(c, b))
  PROVE  HeldInv'
<1>1. /\ Click(c, b) /\ UNCHANGED <<buttons, pressed, refused>> /\ overlapped' \in BOOLEAN
      /\ buttons' \in SUBSET Buttons /\ HeldTypeOK
      /\ ~refused => DownAfter(wire, pressed) \cap Modifiers = heldKeys
      /\ (~refused /\ ~overlapped') =>
            wire = << >> /\ (\A d \in Hands \ {c} : ~Busy(d)) /\ pressed \cap Buttons = buttons
  BY Begun
<1>2. PICK p : p = InputEvent(c, "press", b)
  OBVIOUS
<1>3. PICK r : r = InputEvent(c, "release", b)
  OBVIOUS
<1>4. b \in Things /\ b \notin Modifiers
  BY HeldInputAssumption DEF Things
<1>5. /\ p \in Events /\ p.type = "press" /\ p.what = b /\ p.of = c
      /\ r \in Events /\ r.type = "release" /\ r.what = b /\ r.of = c
  BY <1>2, <1>3, <1>4 DEF InputEvent, Events
<1>6. wire \in Seq(Events) /\ pressed \in SUBSET Things /\ heldKeys \in SUBSET Modifiers
  BY <1>1 DEF HeldTypeOK
<1>7. ASSUME NEW w \in Seq(Events) PROVE DownAfter(w \o <<p, r>>, pressed) = DownAfter(w, pressed) \ {b}
  <2>1. Append(w, p) \in Seq(Events) /\ w \o <<p, r>> = Append(Append(w, p), r)
    BY <1>5
  <2>2. DownAfter(Append(w, p), pressed) = Applied(DownAfter(w, pressed), p)
    BY <1>5, DownAfterAppend
  <2>3. DownAfter(Append(Append(w, p), r), pressed) = Applied(DownAfter(Append(w, p), pressed), r)
    BY <1>5, <2>1, DownAfterAppend
  <2> QED BY <1>5, <2>1, <2>2, <2>3 DEF Applied
<1>8. <<p, r>> \in Seq(Events) /\ \A i \in DOMAIN <<p, r>> : <<p, r>>[i].of = c
  BY <1>5
<1>9. /\ b \notin buttons /\ UNCHANGED heldKeys
      /\ Dispatch(c, "click", {b}, <<p, r>>, {})
  BY <1>1, <1>2, <1>3 DEF Click
<1>10. ~refused => DownAfter(wire \o <<p, r>>, pressed) \cap Modifiers = heldKeys'
  BY <1>1, <1>4, <1>6, <1>7, <1>9
<1>11. DownAfter(<<p, r>>, pressed) = pressed \ {b}
  <2>1. << >> \in Seq(Events) /\ << >> \o <<p, r>> = <<p, r>>
    BY <1>8, ConcatEmptySeq
  <2>2. DownAfter(<< >>, pressed) = pressed
    BY <1>6, DownAfterNone
  <2> QED BY <1>7, <2>1, <2>2
<1>12. (~refused /\ ~overlapped') =>
         wire = << >> /\ (\A d \in Hands \ {c} : ~Busy(d)) /\ DownAfter(<<p, r>>, pressed) \cap Buttons = buttons'
  BY <1>1, <1>9, <1>11
<1>13. "click" \in Doings \ {"nothing", "released"} /\ {b} \in SUBSET Things /\ {} \in SUBSET Buttons
       /\ heldKeys' \in SUBSET Modifiers
  BY <1>4, <1>6, <1>9 DEF Doings
<1> QED BY <1>1, <1>8, <1>9, <1>10, <1>12, <1>13, SendKeeps

\* A button goes down: in a gesture of its own, or as the first part of a drag.
LEMMA MouseDownKeeps ==
  ASSUME HeldInv, NEW c \in Hands, NEW b \in Buttons, NEW does \in {"down", "drag"},
         GestureBegins(c, MouseDown(c, does, b))
  PROVE  HeldInv'
<1>1. /\ MouseDown(c, does, b) /\ UNCHANGED <<buttons, pressed, refused>> /\ overlapped' \in BOOLEAN
      /\ buttons' \in SUBSET Buttons /\ HeldTypeOK
      /\ ~refused => DownAfter(wire, pressed) \cap Modifiers = heldKeys
      /\ (~refused /\ ~overlapped') =>
            wire = << >> /\ (\A d \in Hands \ {c} : ~Busy(d)) /\ pressed \cap Buttons = buttons
  BY Begun
<1>2. PICK e : e = InputEvent(c, "press", b)
  OBVIOUS
<1>3. b \in Things /\ b \notin Modifiers
  BY HeldInputAssumption DEF Things
<1>4. /\ <<e>> \in Seq(Events) /\ \A i \in DOMAIN <<e>> : <<e>>[i].of = c
      /\ e.type = "press" /\ e.what = b
      /\ DownAfter(wire \o <<e>>, pressed) = Applied(DownAfter(wire, pressed), e)
      /\ DownAfter(<<e>>, pressed) = Applied(pressed, e)
  BY <1>1, <1>2, <1>3, OneEvent
<1>5. heldKeys \in SUBSET Modifiers /\ buttons \cup {b} \in SUBSET Buttons
  BY <1>1 DEF HeldTypeOK
<1>6. UNCHANGED heldKeys /\ Dispatch(c, does, {b}, <<e>>, buttons \cup {b})
  BY <1>1, <1>2 DEF MouseDown
<1>7. ~refused => DownAfter(wire \o <<e>>, pressed) \cap Modifiers = heldKeys'
  BY <1>1, <1>3, <1>4, <1>6 DEF Applied
<1>8. (~refused /\ ~overlapped') => /\ wire = << >> /\ \A d \in Hands \ {c} : ~Busy(d)
                                   /\ DownAfter(<<e>>, pressed) \cap Buttons = buttons \cup {b}
  BY <1>1, <1>4 DEF Applied
<1>9. does \in Doings \ {"nothing", "released"} /\ {b} \in SUBSET Things /\ heldKeys' \in SUBSET Modifiers
      /\ does # "releaseAll" /\ does # "releaseKeys" /\ does \in {"down", "up", "drag", "releaseAll"}
  BY <1>3, <1>5, <1>6 DEF Doings
<1> QED BY <1>1, <1>4, <1>5, <1>6, <1>7, <1>8, <1>9, SendKeeps

\* A button is let go, composed of what is held now.
LEMMA MouseUpKeeps ==
  ASSUME HeldInv, NEW c \in Hands, NEW b \in Buttons, MouseUp(c, "up", b),
         UNCHANGED <<buttons, pressed, refused>>, overlapped' \in BOOLEAN,
         (~refused /\ ~overlapped') =>
           wire = << >> /\ (\A d \in Hands \ {c} : ~Busy(d)) /\ pressed \cap Buttons = buttons
  PROVE  HeldInv'
<1>1. HeldTypeOK /\ (~refused => DownAfter(wire, pressed) \cap Modifiers = heldKeys)
  BY DEF HeldInv, KeysFollow
<1>2. PICK e : e = InputEvent(c, "release", b)
  OBVIOUS
<1>3. b \in Things /\ b \notin Modifiers
  BY HeldInputAssumption DEF Things
<1>4. /\ <<e>> \in Seq(Events) /\ \A i \in DOMAIN <<e>> : <<e>>[i].of = c
      /\ e.type = "release" /\ e.what = b
      /\ DownAfter(wire \o <<e>>, pressed) = Applied(DownAfter(wire, pressed), e)
      /\ DownAfter(<<e>>, pressed) = Applied(pressed, e)
  BY <1>1, <1>2, <1>3, OneEvent
<1>5. heldKeys \in SUBSET Modifiers /\ buttons \ {b} \in SUBSET Buttons /\ buttons' \in SUBSET Buttons
  BY <1>1 DEF HeldTypeOK
<1>6. UNCHANGED heldKeys /\ Dispatch(c, "up", {b}, <<e>>, buttons \ {b})
  BY <1>2 DEF MouseUp
<1>7. ~refused => DownAfter(wire \o <<e>>, pressed) \cap Modifiers = heldKeys'
  BY <1>1, <1>3, <1>4, <1>5, <1>6 DEF Applied
<1>8. (~refused /\ ~overlapped') => /\ wire = << >> /\ \A d \in Hands \ {c} : ~Busy(d)
                                   /\ DownAfter(<<e>>, pressed) \cap Buttons = buttons \ {b}
  BY <1>1, <1>4 DEF Applied
<1>9. "up" \in Doings \ {"nothing", "released"} /\ {b} \in SUBSET Things /\ heldKeys' \in SUBSET Modifiers
  BY <1>3, <1>5, <1>6 DEF Doings
<1> QED BY <1>4, <1>5, <1>6, <1>7, <1>8, <1>9, SendKeeps

\* A chord presses what is not held, and lets it go again.
LEMMA PressChordKeeps ==
  ASSUME HeldInv, NEW c \in Hands, NEW mods \in SUBSET Modifiers, GestureBegins(c, PressChord(c, mods))
  PROVE  HeldInv'
<1>1. /\ PressChord(c, mods) /\ UNCHANGED <<buttons, pressed, refused>> /\ overlapped' \in BOOLEAN
      /\ buttons' \in SUBSET Buttons /\ HeldTypeOK
      /\ ~refused => DownAfter(wire, pressed) \cap Modifiers = heldKeys
      /\ (~refused /\ ~overlapped') =>
            wire = << >> /\ (\A d \in Hands \ {c} : ~Busy(d)) /\ pressed \cap Buttons = buttons
  BY Begun
<1>2. PICK set : set = NotYetHeld(mods)
  OBVIOUS
<1>3. set \in SUBSET Things /\ IsFiniteSet(set) /\ set \cap Buttons = {} /\ set \cap heldKeys = {}
  <2>1. set \subseteq Modifiers
    BY <1>2 DEF NotYetHeld
  <2> QED BY <1>2, <2>1, HeldInputAssumption, FS_Subset DEF NotYetHeld, Things
<1>4. PICK events : events = ChordEvents(c, set)
  OBVIOUS
<1>5. wire \in Seq(Events) /\ << >> \in Seq(Events) /\ pressed \in SUBSET Things /\ heldKeys \in SUBSET Modifiers
  BY <1>1 DEF HeldTypeOK
<1>6. /\ events \in Seq(Events) /\ \A i \in DOMAIN events : events[i].of = c
      /\ \A w \in Seq(Events) : DownAfter(w \o events, pressed) = DownAfter(w, pressed) \ set
  BY <1>3, <1>4, <1>5, DownAfterChord
<1>7. DownAfter(events, pressed) = pressed \ set
  <2>1. DownAfter(<< >> \o events, pressed) = DownAfter(<< >>, pressed) \ set
    BY <1>5, <1>6
  <2>2. << >> \o events = events
    BY <1>6, ConcatEmptySeq
  <2>3. DownAfter(<< >>, pressed) = pressed
    BY <1>5, DownAfterNone
  <2> QED BY <2>1, <2>2, <2>3
<1>8. UNCHANGED heldKeys /\ Dispatch(c, "chord", mods, events, {})
  BY <1>1, <1>2, <1>4 DEF PressChord, ChordEvents
<1>9. ~refused => DownAfter(wire \o events, pressed) \cap Modifiers = heldKeys'
  BY <1>1, <1>3, <1>5, <1>6, <1>8
<1>10. (~refused /\ ~overlapped') => /\ wire = << >> /\ \A d \in Hands \ {c} : ~Busy(d)
                                    /\ DownAfter(events, pressed) \cap Buttons = buttons'
  BY <1>1, <1>3, <1>7
<1>11. "chord" \in Doings \ {"nothing", "released"} /\ mods \in SUBSET Things /\ {} \in SUBSET Buttons
       /\ heldKeys' \in SUBSET Modifiers
  BY <1>5, <1>8 DEF Doings, Things
<1> QED BY <1>1, <1>6, <1>8, <1>9, <1>10, <1>11, SendKeeps

\* A key goes down and stays, or up: noted before it is sent.
LEMMA KeyKeeps ==
  ASSUME HeldInv, NEW c \in Hands, NEW k \in Modifiers, GestureBegins(c, KeyDown(c, k)) \/ GestureBegins(c, KeyUp(c, k))
  PROVE  HeldInv'
<1>1. /\ KeyDown(c, k) \/ KeyUp(c, k)
      /\ UNCHANGED <<buttons, pressed, refused>> /\ overlapped' \in BOOLEAN
      /\ buttons' \in SUBSET Buttons /\ HeldTypeOK
      /\ ~refused => DownAfter(wire, pressed) \cap Modifiers = heldKeys
      /\ (~refused /\ ~overlapped') =>
            wire = << >> /\ (\A d \in Hands \ {c} : ~Busy(d)) /\ pressed \cap Buttons = buttons
  <2>1. CASE GestureBegins(c, KeyDown(c, k))
    BY <2>1, Begun
  <2>2. CASE GestureBegins(c, KeyUp(c, k))
    BY <2>2, Begun
  <2> QED BY <2>1, <2>2
<1>2. k \in Things /\ k \notin Buttons
  BY HeldInputAssumption DEF Things
<1>3. heldKeys \in SUBSET Modifiers
  BY <1>1 DEF HeldTypeOK
<1>4. {k} \in SUBSET Things /\ {} \in SUBSET Buttons
      /\ {"keyDown", "keyUp"} \subseteq Doings \ {"nothing", "released"}
  BY <1>2 DEF Doings
<1>5. CASE KeyDown(c, k)
  <2>1. PICK e : e = InputEvent(c, "press", k)
    OBVIOUS
  <2>2. /\ <<e>> \in Seq(Events) /\ \A i \in DOMAIN <<e>> : <<e>>[i].of = c
        /\ e.type = "press" /\ e.what = k
        /\ DownAfter(wire \o <<e>>, pressed) = Applied(DownAfter(wire, pressed), e)
        /\ DownAfter(<<e>>, pressed) = Applied(pressed, e)
    BY <1>1, <1>2, <2>1, OneEvent
  <2>3. heldKeys' = heldKeys \cup {k} /\ Dispatch(c, "keyDown", {k}, <<e>>, {})
    BY <1>5, <2>1 DEF KeyDown
  <2>4. ~refused => DownAfter(wire \o <<e>>, pressed) \cap Modifiers = heldKeys'
    BY <1>1, <2>2, <2>3 DEF Applied
  <2>5. (~refused /\ ~overlapped') => /\ wire = << >> /\ \A d \in Hands \ {c} : ~Busy(d)
                                     /\ DownAfter(<<e>>, pressed) \cap Buttons = buttons'
    BY <1>1, <1>2, <2>2 DEF Applied
  <2>6. heldKeys' \in SUBSET Modifiers
    BY <1>3, <2>3
  <2> QED BY <1>1, <1>4, <2>2, <2>3, <2>4, <2>5, <2>6, SendKeeps
<1>6. CASE KeyUp(c, k)
  <2>1. PICK e : e = InputEvent(c, "release", k)
    OBVIOUS
  <2>2. /\ <<e>> \in Seq(Events) /\ \A i \in DOMAIN <<e>> : <<e>>[i].of = c
        /\ e.type = "release" /\ e.what = k
        /\ DownAfter(wire \o <<e>>, pressed) = Applied(DownAfter(wire, pressed), e)
        /\ DownAfter(<<e>>, pressed) = Applied(pressed, e)
    BY <1>1, <1>2, <2>1, OneEvent
  <2>3. heldKeys' = heldKeys \ {k} /\ Dispatch(c, "keyUp", {k}, <<e>>, {})
    BY <1>6, <2>1 DEF KeyUp
  <2>4. ~refused => DownAfter(wire \o <<e>>, pressed) \cap Modifiers = heldKeys'
    BY <1>1, <2>2, <2>3 DEF Applied
  <2>5. (~refused /\ ~overlapped') => /\ wire = << >> /\ \A d \in Hands \ {c} : ~Busy(d)
                                     /\ DownAfter(<<e>>, pressed) \cap Buttons = buttons'
    BY <1>1, <1>2, <2>2 DEF Applied
  <2>6. heldKeys' \in SUBSET Modifiers
    BY <1>3, <2>3
  <2> QED BY <1>1, <1>4, <2>2, <2>3, <2>4, <2>5, <2>6, SendKeeps
<1> QED BY <1>1, <1>5, <1>6

\* releaseAll: the next button that is held is let go.
LEMMA ReleasesButtonKeeps ==
  ASSUME HeldInv, NEW c \in Hands, NEW past \in Nat, ReleasesButton(c, past),
         UNCHANGED <<buttons, pressed, refused>>, overlapped' \in BOOLEAN,
         (~refused /\ ~overlapped') =>
           /\ wire = << >> /\ (\A d \in Hands \ {c} : ~Busy(d)) /\ pressed \cap Buttons = buttons
           /\ \A i \in 1 .. past : ButtonOrder[i] \notin buttons
  PROVE  HeldInv'
<1>1. HeldTypeOK /\ (~refused => DownAfter(wire, pressed) \cap Modifiers = heldKeys)
  BY DEF HeldInv, KeysFollow
<1>2. HeldAfter(past) # {}
  BY DEF ReleasesButton
<1>3. PICK j \in DOMAIN ButtonOrder :
        /\ j = Min(HeldAfter(past)) /\ j \in Nat /\ ButtonOrder[j] \in buttons
        /\ \A k \in 1 .. j : k > past => (k = j \/ ButtonOrder[k] \notin buttons)
  BY <1>1, <1>2, NextTurn
<1>4. PICK b : b = ButtonOrder[j]
  OBVIOUS
<1>5. b \in Buttons /\ b \in Things /\ b \notin Modifiers
  BY <1>1, <1>3, <1>4, HeldInputAssumption DEF HeldTypeOK, Things
<1>6. PICK e : e = InputEvent(c, "release", b)
  OBVIOUS
<1>7. /\ <<e>> \in Seq(Events) /\ Len(<<e>>) = 1 /\ \A i \in DOMAIN <<e>> : <<e>>[i].of = c
      /\ e.type = "release" /\ e.what = b
      /\ DownAfter(wire \o <<e>>, pressed) = Applied(DownAfter(wire, pressed), e)
      /\ DownAfter(<<e>>, pressed) = Applied(pressed, e)
  BY <1>1, <1>5, <1>6, OneEvent
<1>8. heldKeys \in SUBSET Modifiers /\ buttons \ {b} \in SUBSET Buttons /\ buttons' \in SUBSET Buttons
  BY <1>1 DEF HeldTypeOK
<1>9. UNCHANGED heldKeys /\ Dispatch(c, "releaseAll", {b}, <<e>>, buttons \ {b})
  <2>1. /\ wire' = Append(wire, e) /\ UNCHANGED heldKeys
        /\ hand' = [hand EXCEPT ![c] = [does |-> "releaseAll", what |-> {b}, left |-> 1, later |-> buttons \ {b}]]
    BY <1>3, <1>4, <1>6 DEF ReleasesButton
  <2>2. wire \o <<e>> = Append(wire, e)
    BY <1>1, <1>7 DEF HeldTypeOK
  <2> QED BY <1>7, <2>1, <2>2 DEF Dispatch
<1>10. ~refused => DownAfter(wire \o <<e>>, pressed) \cap Modifiers = heldKeys'
  BY <1>1, <1>5, <1>7, <1>8, <1>9 DEF Applied
<1>11. (~refused /\ ~overlapped') => /\ wire = << >> /\ \A d \in Hands \ {c} : ~Busy(d)
                                    /\ DownAfter(<<e>>, pressed) \cap Buttons = buttons \ {b}
  BY <1>1, <1>7 DEF Applied
<1>12. (~refused /\ ~overlapped') => \A i \in 1 .. j : ButtonOrder[i] \notin buttons \ {b}
  <2> SUFFICES ASSUME ~refused, ~overlapped', NEW i \in 1 .. j PROVE ButtonOrder[i] \notin buttons \ {b}
    OBVIOUS
  <2>1. CASE i > past
    BY <1>3, <1>4, <2>1
  <2>2. CASE ~(i > past)
    <3>1. i \in 1 .. past
      BY <1>3, <2>2
    <3> QED BY <3>1
  <2> QED BY <2>1, <2>2
<1>13. "releaseAll" \in Doings \ {"nothing", "released"} /\ {b} \in SUBSET Things /\ heldKeys' \in SUBSET Modifiers
  BY <1>5, <1>8, <1>9 DEF Doings
<1>14. PICK what : what = {b}
  OBVIOUS
<1>15. what = {ButtonOrder[j]} /\ what \in SUBSET Things
  BY <1>4, <1>13, <1>14
<1>16. (~refused /\ ~overlapped') =>
         /\ wire = << >> /\ \A d \in Hands \ {c} : ~Busy(d)
         /\ DownAfter(<<e>>, pressed) \cap Buttons = buttons \ {b}
         /\ TurnsPassed(what, buttons \ {b})
  BY <1>3, <1>11, <1>12, <1>15 DEF TurnsPassed
<1>17. Dispatch(c, "releaseAll", what, <<e>>, buttons \ {b}) /\ HoldsATurn(what)
  BY <1>3, <1>9, <1>14, <1>15 DEF HoldsATurn
<1>18. "releaseAll" \notin {"drag", "moves"} /\ "releaseAll" # "releaseKeys"
  OBVIOUS
<1> QED BY <1>7, <1>8, <1>10, <1>13, <1>15, <1>16, <1>17, <1>18, SendKeeps

\* releaseAll: the next key that is held is let go, or all is done.
LEMMA ReleasesKeyKeeps ==
  ASSUME HeldInv, NEW c \in Hands, NEW keys \in SUBSET Things, ReleasesKey(c, keys),
         UNCHANGED <<buttons, pressed, refused>>, overlapped' \in BOOLEAN,
         (~refused /\ ~overlapped') =>
           /\ wire = << >> /\ (\A d \in Hands \ {c} : ~Busy(d)) /\ pressed \cap Buttons = buttons
           /\ buttons = {} /\ heldKeys \subseteq keys
  PROVE  HeldInv'
<1>1. HeldTypeOK /\ (~refused => DownAfter(wire, pressed) \cap Modifiers = heldKeys)
  BY DEF HeldInv, KeysFollow
<1>2. buttons' \in SUBSET Buttons /\ heldKeys \in SUBSET Modifiers
  BY <1>1 DEF HeldTypeOK
<1>3. CASE keys \cap heldKeys = {}
  <2>1. Free \in HandStates /\ Free.does = "nothing"
    BY DEF Free, HandStates, Doings
  <2>2. hand' = [hand EXCEPT ![c] = Free] /\ UNCHANGED <<wire, heldKeys>>
    BY <1>3 DEF ReleasesKey
  <2> QED BY <1>2, <2>1, <2>2, HandsMoveKeeps
<1>4. CASE keys \cap heldKeys # {}
  <2>1. PICK k : k = CHOOSE key \in Modifiers : key \in keys \cap heldKeys
    OBVIOUS
  <2>2. k \in Modifiers /\ k \in keys /\ k \in heldKeys
    BY <1>2, <1>4, <2>1
  <2>3. k \in Things /\ k \notin Buttons
    BY <2>2, HeldInputAssumption DEF Things
  <2>4. PICK e : e = InputEvent(c, "release", k)
    OBVIOUS
  <2>5. /\ <<e>> \in Seq(Events) /\ \A i \in DOMAIN <<e>> : <<e>>[i].of = c
        /\ e.type = "release" /\ e.what = k
        /\ DownAfter(wire \o <<e>>, pressed) = Applied(DownAfter(wire, pressed), e)
        /\ DownAfter(<<e>>, pressed) = Applied(pressed, e)
    BY <1>1, <2>3, <2>4, OneEvent
  <2>6. heldKeys' = heldKeys \ {k} /\ Dispatch(c, "releaseKeys", keys \ {k}, <<e>>, {})
    BY <1>4, <2>1, <2>4 DEF ReleasesKey
  <2>7. ~refused => DownAfter(wire \o <<e>>, pressed) \cap Modifiers = heldKeys'
    BY <1>1, <2>5, <2>6 DEF Applied
  <2>8. (~refused /\ ~overlapped') => /\ wire = << >> /\ \A d \in Hands \ {c} : ~Busy(d)
                                     /\ DownAfter(<<e>>, pressed) \cap Buttons = buttons'
                                     /\ buttons' = {} /\ heldKeys' \subseteq keys \ {k}
    BY <2>3, <2>5, <2>6 DEF Applied
  <2>9. "releaseKeys" \in Doings \ {"nothing", "released"} /\ keys \ {k} \in SUBSET Things
        /\ {} \in SUBSET Buttons /\ heldKeys' \in SUBSET Modifiers
    BY <1>2, <2>6 DEF Doings
  <2> QED BY <1>2, <2>5, <2>6, <2>7, <2>8, <2>9, SendKeeps
<1> QED BY <1>3, <1>4

\* releaseAll begins.
LEMMA ReleaseAllKeeps ==
  ASSUME HeldInv, NEW c \in Hands, GestureBegins(c, ReleaseAll(c))
  PROVE  HeldInv'
<1>1. /\ ReleaseAll(c) /\ UNCHANGED <<buttons, pressed, refused>> /\ overlapped' \in BOOLEAN
      /\ HeldTypeOK
      /\ (~refused /\ ~overlapped') =>
            wire = << >> /\ (\A d \in Hands \ {c} : ~Busy(d)) /\ pressed \cap Buttons = buttons
  BY Begun
<1>2. CASE ReleasesButton(c, 0)
  <2>1. \A i \in 1 .. 0 : ButtonOrder[i] \notin buttons
    OBVIOUS
  <2> QED BY <1>1, <1>2, <2>1, ReleasesButtonKeeps
<1>3. CASE buttons = {} /\ ReleasesKey(c, heldKeys)
  <2>1. heldKeys \in SUBSET Things
    BY <1>1 DEF HeldTypeOK, Things
  <2> QED BY <1>1, <1>3, <2>1, ReleasesKeyKeeps
<1> QED BY <1>1, <1>2, <1>3 DEF ReleaseAll

\* A gesture that noted nothing for later ends.
LEMMA GestureEndsKeeps ==
  ASSUME HeldInv, NEW c \in Hands, GestureEnds(c)
  PROVE  HeldInv'
<1>1. Free \in HandStates /\ Free.does = "nothing"
  BY DEF Free, HandStates, Doings
<1>2. /\ hand' = [hand EXCEPT ![c] = Free] /\ Over(c)
      /\ UNCHANGED <<buttons, heldKeys, pressed, wire, overlapped, refused>>
  BY DEF GestureEnds
<1>3. Busy(c) /\ ~AssignsLater(c)
  BY DEF GestureEnds, Busy, AssignsLater
<1>4. buttons' \in SUBSET Buttons /\ overlapped' \in BOOLEAN
  BY <1>2 DEF HeldInv, HeldTypeOK
<1>5. (~refused /\ ~overlapped') =>
        wire = << >> /\ (\A d \in Hands \ {c} : ~Busy(d)) /\ pressed \cap Buttons = buttons'
  BY <1>2, <1>3, OverAlone
<1> QED BY <1>1, <1>2, <1>4, <1>5, HandsMoveKeeps

\* A mouse gesture ends with what it assigns to state.buttons.
LEMMA MouseEndsKeeps ==
  ASSUME HeldInv, NEW c \in Hands, MouseEnds(c)
  PROVE  HeldInv'
<1>1. Free \in HandStates /\ Free.does = "nothing"
  BY DEF Free, HandStates, Doings
<1>2. /\ hand' = [hand EXCEPT ![c] = Free] /\ Over(c) /\ buttons' = hand[c].later
      /\ UNCHANGED <<heldKeys, pressed, wire, overlapped, refused>>
  BY DEF MouseEnds
<1>3. Busy(c) /\ AssignsLater(c)
  BY DEF MouseEnds, Busy, AssignsLater
<1>4. buttons' \in SUBSET Buttons /\ overlapped' \in BOOLEAN
  BY <1>2 DEF HeldInv, HeldTypeOK, HandStates
<1>5. (~refused /\ ~overlapped') =>
        wire = << >> /\ (\A d \in Hands \ {c} : ~Busy(d)) /\ pressed \cap Buttons = buttons'
  BY <1>2, <1>3, OverAlone
<1> QED BY <1>1, <1>2, <1>4, <1>5, HandsMoveKeeps

\* A drag has its press and moves.
LEMMA DragMovesKeeps ==
  ASSUME HeldInv, NEW c \in Hands, DragMoves(c)
  PROVE  HeldInv'
<1>1. PICK b \in Buttons : hand[c].what = {b}
  BY DEF DragMoves, HeldInv, GesturesAreWhole
<1>2. b = CHOOSE bb \in Buttons : bb \in hand[c].what
  BY <1>1
<1>3. PICK e : e = InputEvent(c, "move", b)
  OBVIOUS
<1>4. HeldTypeOK /\ b \in Things
  BY DEF HeldInv, Things
<1>5. /\ <<e>> \in Seq(Events) /\ \A i \in DOMAIN <<e>> : <<e>>[i].of = c
      /\ e.type = "move"
      /\ DownAfter(wire \o <<e>>, pressed) = Applied(DownAfter(wire, pressed), e)
      /\ DownAfter(<<e>>, pressed) = Applied(pressed, e)
  BY <1>3, <1>4, OneEvent
<1>6. /\ Over(c) /\ buttons' = hand[c].later /\ Dispatch(c, "moves", {b}, <<e>>, {})
      /\ UNCHANGED <<heldKeys, pressed, overlapped, refused>>
  BY <1>1, <1>2, <1>3 DEF DragMoves
<1>7. Busy(c) /\ AssignsLater(c)
  BY DEF DragMoves, Busy, AssignsLater
<1>8. /\ buttons' \in SUBSET Buttons /\ overlapped' \in BOOLEAN /\ heldKeys' \in SUBSET Modifiers
      /\ {b} \in SUBSET Things /\ {} \in SUBSET Buttons
      /\ "moves" \in Doings \ {"nothing", "released"}
  BY <1>4, <1>6 DEF HeldTypeOK, HandStates, Doings
<1>9. ~refused => DownAfter(wire \o <<e>>, pressed) \cap Modifiers = heldKeys'
  BY <1>5, <1>6 DEF HeldInv, KeysFollow, Applied
<1>10. (~refused /\ ~overlapped') =>
         wire = << >> /\ (\A d \in Hands \ {c} : ~Busy(d)) /\ DownAfter(<<e>>, pressed) \cap Buttons = buttons'
  BY <1>5, <1>6, <1>7, OverAlone DEF Applied
<1> QED BY <1>5, <1>6, <1>8, <1>9, <1>10, SendKeeps

\* And drops what it holds.
LEMMA DragDropsKeeps ==
  ASSUME HeldInv, NEW c \in Hands, DragDrops(c)
  PROVE  HeldInv'
<1>1. PICK b \in Buttons : hand[c].what = {b}
  BY DEF DragDrops, HeldInv, GesturesAreWhole
<1>2. b = CHOOSE bb \in Buttons : bb \in hand[c].what
  BY <1>1
<1>3. Over(c) /\ MouseUp(c, "up", b) /\ UNCHANGED <<buttons, pressed, overlapped, refused>>
  BY <1>2 DEF DragDrops
<1>4. Busy(c) /\ ~AssignsLater(c)
  BY DEF DragDrops, Busy, AssignsLater
<1>5. overlapped' \in BOOLEAN
  BY <1>3 DEF HeldInv, HeldTypeOK
<1>6. (~refused /\ ~overlapped') =>
        wire = << >> /\ (\A d \in Hands \ {c} : ~Busy(d)) /\ pressed \cap Buttons = buttons
  BY <1>3, <1>4, OverAlone
<1> QED BY <1>3, <1>5, <1>6, MouseUpKeeps

\* releaseAll has let a button go and looks for the next.
LEMMA ReleaseGoesOnKeeps ==
  ASSUME HeldInv, NEW c \in Hands, ReleaseGoesOn(c)
  PROVE  HeldInv'
<1>1. PICK j \in DOMAIN ButtonOrder : hand[c].what = {ButtonOrder[j]}
  BY DEF ReleaseGoesOn, HeldInv, GesturesAreWhole, HoldsATurn
<1>2. TurnOf(c) = j
  BY <1>1, TurnIsKnown
<1>3. hand[c] \in HandStates /\ hand[c].does = "releaseAll" /\ hand[c].left = 0
  BY DEF ReleaseGoesOn, HeldInv, HeldTypeOK, Over
<1>4. PICK becomes : becomes = [hand[c] EXCEPT !.does = "released"]
  OBVIOUS
<1>5. /\ becomes \in HandStates /\ becomes.does = "released" /\ becomes.what = hand[c].what
      /\ becomes.left = 0
  BY <1>3, <1>4 DEF HandStates, Doings
<1>6. /\ hand' = [hand EXCEPT ![c] = becomes] /\ Over(c) /\ buttons' = hand[c].later
      /\ UNCHANGED <<heldKeys, pressed, wire, overlapped, refused>>
  BY <1>4 DEF ReleaseGoesOn
<1>7. Busy(c) /\ AssignsLater(c)
  BY <1>3 DEF Busy, AssignsLater
<1>8. buttons' \in SUBSET Buttons /\ overlapped' \in BOOLEAN
  BY <1>3, <1>6 DEF HeldInv, HeldTypeOK, HandStates
<1>9. (~refused /\ ~overlapped') =>
        wire = << >> /\ (\A d \in Hands \ {c} : ~Busy(d)) /\ pressed \cap Buttons = buttons'
  BY <1>6, <1>7, OverAlone
<1>10. (~refused /\ ~overlapped') => \A i \in 1 .. j : ButtonOrder[i] \notin buttons'
  BY <1>2, <1>3, <1>6 DEF HeldInv, AloneInv, ReleasesInOrder
<1>11. becomes.what = {ButtonOrder[j]}
  BY <1>1, <1>5
<1>12. HoldsATurn(becomes.what) /\ ((~refused /\ ~overlapped') => TurnsPassed(becomes.what, buttons'))
  BY <1>10, <1>11 DEF HoldsATurn, TurnsPassed
<1> QED BY <1>5, <1>6, <1>8, <1>9, <1>12, HandsMoveKeeps

\* The next button, or the next key, or the end of it.
LEMMA ReleasesNextKeeps ==
  ASSUME HeldInv, NEW c \in Hands, ReleasesNext(c)
  PROVE  HeldInv'
<1>1. Over(c) /\ UNCHANGED <<buttons, pressed, overlapped, refused>>
  BY DEF ReleasesNext
<1>2. hand[c].does \in {"released", "releaseKeys"} /\ hand[c].what \in SUBSET Things /\ overlapped' \in BOOLEAN
  BY <1>1 DEF ReleasesNext, HeldInv, HeldTypeOK, HandStates
<1>3. Busy(c) /\ ~AssignsLater(c)
  BY <1>2 DEF Busy, AssignsLater
<1>4. (~refused /\ ~overlapped') =>
        /\ wire = << >> /\ (\A d \in Hands \ {c} : ~Busy(d)) /\ pressed \cap Buttons = buttons
        /\ ReleasesInOrder
  BY <1>1, <1>3, OverAlone DEF HeldInv, AloneInv
<1>5. CASE hand[c].does = "released"
  <2>1. PICK j \in DOMAIN ButtonOrder : hand[c].what = {ButtonOrder[j]}
    BY <1>5 DEF HeldInv, GesturesAreWhole, HoldsATurn
  <2>2. TurnOf(c) = j /\ j \in Nat
    BY <2>1, TurnIsKnown, EveryButtonHasATurn
  <2>3. (~refused /\ ~overlapped') => \A i \in 1 .. TurnOf(c) : ButtonOrder[i] \notin buttons
    BY <1>4, <1>5 DEF ReleasesInOrder
  <2>4. CASE ReleasesButton(c, TurnOf(c))
    BY <1>1, <1>2, <1>4, <2>2, <2>3, <2>4, ReleasesButtonKeeps
  <2>5. CASE HeldAfter(TurnOf(c)) = {} /\ ReleasesKey(c, heldKeys)
    <3>1. (~refused /\ ~overlapped') => buttons = {}
      BY <2>2, <2>3, <2>5, NoButtonLeft DEF HeldInv
    <3>2. heldKeys \in SUBSET Things
      BY DEF HeldInv, HeldTypeOK, Things
    <3> QED BY <1>1, <1>2, <1>4, <2>5, <3>1, <3>2, ReleasesKeyKeeps
  <2> QED BY <1>5, <2>4, <2>5 DEF ReleasesNext
<1>6. CASE hand[c].does = "releaseKeys"
  <2>1. ReleasesKey(c, hand[c].what)
    BY <1>6 DEF ReleasesNext
  <2>2. (~refused /\ ~overlapped') => buttons = {} /\ heldKeys \subseteq hand[c].what
    BY <1>4, <1>6 DEF ReleasesInOrder
  <2> QED BY <1>1, <1>2, <1>4, <2>1, <2>2, ReleasesKeyKeeps
<1> QED BY <1>2, <1>5, <1>6

\* The browser takes an event, and its call has one answer more.
LEMMA InputTakesKeeps ==
  ASSUME HeldInv, InputTakes
  PROVE  HeldInv'
<1>1. HeldTypeOK /\ wire \in Seq(Events) /\ wire # << >> /\ pressed \in SUBSET Things
  BY DEF InputTakes, HeldInv, HeldTypeOK
<1>2. PICK t : t = Tail(wire)
  OBVIOUS
<1>3. PICK e : e = Head(wire)
  OBVIOUS
<1>4. /\ wire' = t /\ pressed' = Applied(pressed, e)
      /\ hand' = [d \in Hands |-> IF d = e.of THEN [hand[d] EXCEPT !.left = @ - 1] ELSE hand[d]]
      /\ UNCHANGED <<buttons, heldKeys, overlapped, refused>>
  BY <1>2, <1>3 DEF InputTakes
<1>5. PICK n \in Nat : n + 1 = Len(wire) /\ DOMAIN wire = 1 .. n + 1
  <2>1. Len(wire) \in Nat /\ Len(wire) # 0 /\ DOMAIN wire = 1 .. Len(wire)
    BY <1>1, EmptySeq
  <2>2. Len(wire) - 1 \in Nat /\ Len(wire) - 1 + 1 = Len(wire)
    BY <2>1
  <2> QED BY <2>1, <2>2
<1>6. /\ t \in Seq(Events) /\ Len(t) = n /\ DOMAIN t = 1 .. n
      /\ (\A i \in 1 .. n : t[i] = wire[i + 1]) /\ wire[1] = e
  <2>1. t \in Seq(Events) /\ Len(t) = Len(wire) - 1
    BY <1>1, <1>2
  <2>2. Len(t) = n
    BY <1>5, <2>1
  <2>3. \A i \in 1 .. n : t[i] = wire[i + 1]
    BY <1>1, <1>2, <1>5
  <2> QED BY <1>1, <1>3, <2>1, <2>2, <2>3
<1>7. e \in Events /\ 1 \in DOMAIN wire
  BY <1>1, <1>5, <1>6
<1>8. e.type \in {"press", "release", "move"} /\ e.what \in Things
  BY <1>7 DEF Events
<1>9. DownAfter(t, Applied(pressed, e)) = DownAfter(wire, pressed)
  BY <1>1, <1>2, <1>3, DownAfterTail
<1>10. ASSUME NEW d \in Hands
       PROVE  /\ hand'[d] \in HandStates /\ hand'[d].does = hand[d].does /\ hand'[d].what = hand[d].what
              /\ hand'[d].later = hand[d].later
              /\ hand'[d].left = IF d = e.of THEN hand[d].left - 1 ELSE hand[d].left
  <2>1. hand[d] \in HandStates
    BY <1>1 DEF HeldTypeOK
  <2>2. hand'[d] = IF d = e.of THEN [hand[d] EXCEPT !.left = @ - 1] ELSE hand[d]
    BY <1>4
  <2> QED BY <2>1, <2>2 DEF HandStates
<1>11. HeldTypeOK'
  <2>1. pressed' \in SUBSET Things
    BY <1>1, <1>4, <1>8 DEF Applied
  <2>2. hand' \in [Hands -> HandStates]
    BY <1>4, <1>10
  <2> QED BY <1>1, <1>4, <1>6, <2>1, <2>2 DEF HeldTypeOK
<1>12. GesturesAreWhole'
  <2> SUFFICES ASSUME NEW d \in Hands
      PROVE  /\ hand'[d].does \in {"drag", "moves"} => \E b \in Buttons : hand'[d].what = {b}
             /\ hand'[d].does \in {"releaseAll", "released"} => HoldsATurn(hand'[d].what)
    BY DEF GesturesAreWhole, HoldsATurn, ButtonOrder
  <2> QED BY <1>10 DEF HeldInv, GesturesAreWhole
<1>13. KeysFollow'
  BY <1>4, <1>9 DEF HeldInv, KeysFollow
<1>14. AloneInv'
  <2> SUFFICES ASSUME ~refused, ~overlapped
      PROVE (OneAtATime /\ EventsHaveOwners /\ AnswersCounted /\ ButtonsAreMeant /\ ReleasesInOrder)'
    BY <1>4 DEF AloneInv
  <2>1. OneAtATime /\ EventsHaveOwners /\ AnswersCounted /\ ButtonsAreMeant /\ ReleasesInOrder
    BY DEF HeldInv, AloneInv
  <2>2. \A d \in Hands : Busy(d)' <=> Busy(d)
    BY <1>10 DEF Busy
  <2>3. OneAtATime'
    BY <2>1, <2>2 DEF OneAtATime
  <2>4. EventsHaveOwners'
    <3> SUFFICES ASSUME NEW i \in 1 .. n PROVE t[i].of \in Hands /\ Busy(t[i].of)'
      BY <1>4, <1>6 DEF EventsHaveOwners
    <3>1. i + 1 \in DOMAIN wire /\ t[i] = wire[i + 1]
      BY <1>5, <1>6
    <3>2. t[i].of \in Hands /\ Busy(t[i].of)
      BY <2>1, <3>1 DEF EventsHaveOwners
    <3> QED BY <2>2, <3>2
  <2>5. AnswersCounted'
    <3> SUFFICES ASSUME NEW d \in Hands, Busy(d) PROVE hand'[d].left = n
      BY <1>4, <1>6, <2>2 DEF AnswersCounted
    <3>1. e.of \in Hands /\ Busy(e.of)
      BY <1>6, <1>7, <2>1 DEF EventsHaveOwners
    <3>2. d = e.of
      BY <2>1, <3>1 DEF OneAtATime
    <3>3. hand[d].left = n + 1
      BY <1>5, <2>1 DEF AnswersCounted
    <3> QED BY <1>10, <3>2, <3>3
  <2>6. \A d \in Hands : AssignsLater(d)' <=> AssignsLater(d)
    BY <1>10 DEF AssignsLater
  <2>7. ButtonsAreMeant'
    BY <1>4, <1>9, <1>10, <2>1, <2>6 DEF ButtonsAreMeant
  <2>8. \A d \in Hands : TurnOf(d)' = TurnOf(d)
    BY <1>10 DEF TurnOf, ButtonOrder
  <2>9. ReleasesInOrder'
    BY <1>4, <1>10, <2>1, <2>8 DEF ReleasesInOrder, ButtonOrder
  <2> QED BY <2>3, <2>4, <2>5, <2>7, <2>9
<1> QED BY <1>11, <1>12, <1>13, <1>14 DEF HeldInv

\* After a refusal nothing is promised but the types.
LEMMA BrowserRefusesKeeps ==
  ASSUME HeldInv, BrowserRefuses
  PROVE  HeldInv'
<1>1. HeldTypeOK /\ GesturesAreWhole
  BY DEF HeldInv
<1>2. PICK owner : owner = Head(wire).of
  OBVIOUS
<1>3. PICK n \in Nat : n = Len(wire)
  BY <1>1 DEF HeldTypeOK
<1>4. /\ wire \in Seq(Events) /\ wire # << >> /\ refused' = TRUE
      /\ wire' = [i \in 1 .. n - 1 |->
                    IF wire[i + 1].of = owner THEN [wire[i + 1] EXCEPT !.of = "nobody"] ELSE wire[i + 1]]
      /\ hand' = [d \in Hands |-> IF d = owner THEN Free ELSE hand[d]]
      /\ UNCHANGED <<buttons, heldKeys, pressed, overlapped>>
  BY <1>1, <1>2, <1>3 DEF BrowserRefuses, HeldTypeOK
<1>5. n - 1 \in Nat
  BY <1>3, <1>4, EmptySeq
<1>6. ASSUME NEW i \in 1 .. n - 1 PROVE wire'[i] \in Events
  <2>1. wire[i + 1] \in Events
    BY <1>3, <1>4
  <2>2. [wire[i + 1] EXCEPT !.of = "nobody"] \in Events
    BY <2>1 DEF Events
  <2> QED BY <1>4, <2>1, <2>2
<1>7. wire' \in Seq(Events)
  <2>1. DOMAIN wire' = 1 .. n - 1 /\ wire' = [i \in 1 .. n - 1 |-> wire'[i]]
    BY <1>4
  <2>2. wire' \in [1 .. n - 1 -> Events]
    BY <1>6, <2>1
  <2> QED BY <1>5, <2>2
<1>8. Free \in HandStates /\ Free.does = "nothing"
  BY DEF Free, HandStates, Doings
<1>9. \A d \in Hands : hand'[d] = Free \/ hand'[d] = hand[d]
  BY <1>4
<1>10. hand' \in [Hands -> HandStates]
  BY <1>1, <1>4, <1>8 DEF HeldTypeOK
<1>11. HeldTypeOK'
  BY <1>1, <1>4, <1>7, <1>10 DEF HeldTypeOK
<1>12. GesturesAreWhole'
  <2> SUFFICES ASSUME NEW d \in Hands
      PROVE  /\ hand'[d].does \in {"drag", "moves"} => \E b \in Buttons : hand'[d].what = {b}
             /\ hand'[d].does \in {"releaseAll", "released"} => HoldsATurn(hand'[d].what)
    BY DEF GesturesAreWhole, HoldsATurn, ButtonOrder
  <2>1. CASE hand'[d] = Free
    BY <1>8, <2>1
  <2>2. CASE hand'[d] = hand[d]
    BY <1>1, <2>2 DEF GesturesAreWhole
  <2> QED BY <1>9, <2>1, <2>2
<1> QED BY <1>4, <1>11, <1>12 DEF HeldInv, KeysFollow, AloneInv

----------------------------------------------------------------------------
(* The theorems *)

\* With no call yet, nothing is down.
LEMMA HeldStart == HeldInit => HeldInv
<1> SUFFICES ASSUME HeldInit PROVE HeldInv
  OBVIOUS
<1>1. Free \in HandStates /\ Free.does = "nothing"
  BY DEF Free, HandStates, Doings
<1>2. \A c \in Hands : hand[c] = Free
  BY DEF HeldInit
<1>3. wire = << >> /\ << >> \in Seq(Events) /\ DOMAIN wire = {}
  BY DEF HeldInit
<1>4. HeldTypeOK
  BY <1>1, <1>3 DEF HeldInit, HeldTypeOK
<1>5. DownAfter(wire, pressed) = {}
  BY <1>3, <1>4, DownAfterNone DEF HeldInit, HeldTypeOK
<1>6. GesturesAreWhole
  BY <1>1, <1>2 DEF GesturesAreWhole
<1>7. KeysFollow
  BY <1>5 DEF HeldInit, KeysFollow
<1>8. AloneInv
  BY <1>1, <1>2, <1>3, <1>5
     DEF HeldInit, AloneInv, OneAtATime, EventsHaveOwners, AnswersCounted, ButtonsAreMeant, ReleasesInOrder, Busy,
         AssignsLater
<1> QED BY <1>4, <1>6, <1>7, <1>8 DEF HeldInv

\* The invariant says what the property does.
LEMMA HeldInvSays ==
  ASSUME HeldInv
  PROVE  HeldIsKnown
<1>1. ASSUME ~refused, ~overlapped, \A c \in Hands : hand[c] = Free PROVE pressed \cap Buttons = buttons
  <2>1. \A c \in Hands : ~Busy(c) /\ ~AssignsLater(c)
    BY <1>1 DEF Busy, AssignsLater, Free
  <2>2. EventsHaveOwners /\ ButtonsAreMeant
    BY <1>1 DEF HeldInv, AloneInv
  <2>3. wire = << >>
    BY <2>1, <2>2 DEF EventsHaveOwners, HeldInv, HeldTypeOK
  <2>4. DownAfter(wire, pressed) = pressed
    BY <2>3, DownAfterNone DEF HeldInv, HeldTypeOK
  <2> QED BY <2>1, <2>2, <2>4 DEF ButtonsAreMeant
<1> QED BY <1>1 DEF HeldInv, HeldIsKnown, ButtonsFollow

\* Every step of a call and of the browser keeps the invariant.
LEMMA HeldSteps == HeldInv /\ [HeldNext]_inputVars => HeldInv'
<1> SUFFICES ASSUME HeldInv, [HeldNext]_inputVars PROVE HeldInv'
  OBVIOUS
<1>1. ASSUME NEW c \in Hands, NEW b \in Buttons,
             \/ GestureBegins(c, Click(c, b)) \/ GestureBegins(c, MouseDown(c, "down", b))
             \/ GestureBegins(c, MouseUp(c, "up", b)) \/ GestureBegins(c, MouseDown(c, "drag", b))
      PROVE  HeldInv'
  <2>1. CASE GestureBegins(c, Click(c, b))
    BY <2>1, ClickKeeps
  <2>2. CASE GestureBegins(c, MouseDown(c, "down", b))
    BY <2>2, MouseDownKeeps
  <2>3. CASE GestureBegins(c, MouseUp(c, "up", b))
    BY <2>3, Begun, MouseUpKeeps
  <2>4. CASE GestureBegins(c, MouseDown(c, "drag", b))
    BY <2>4, MouseDownKeeps
  <2> QED BY <1>1, <2>1, <2>2, <2>3, <2>4
<1>2. ASSUME NEW c \in Hands, NEW k \in Modifiers, GestureBegins(c, KeyDown(c, k)) \/ GestureBegins(c, KeyUp(c, k))
      PROVE  HeldInv'
  BY <1>2, KeyKeeps
<1>3. ASSUME NEW c \in Hands, NEW mods \in SUBSET Modifiers \ {{}}, GestureBegins(c, PressChord(c, mods))
      PROVE  HeldInv'
  BY <1>3, PressChordKeeps
<1>4. ASSUME NEW c \in Hands, GestureBegins(c, ReleaseAll(c)) PROVE HeldInv'
  BY <1>4, ReleaseAllKeeps
<1>5. ASSUME NEW c \in Hands, GestureEnds(c) PROVE HeldInv'
  BY <1>5, GestureEndsKeeps
<1>6. ASSUME NEW c \in Hands, MouseEnds(c) PROVE HeldInv'
  BY <1>6, MouseEndsKeeps
<1>7. ASSUME NEW c \in Hands, DragMoves(c) PROVE HeldInv'
  BY <1>7, DragMovesKeeps
<1>8. ASSUME NEW c \in Hands, DragDrops(c) PROVE HeldInv'
  BY <1>8, DragDropsKeeps
<1>9. ASSUME NEW c \in Hands, ReleaseGoesOn(c) PROVE HeldInv'
  BY <1>9, ReleaseGoesOnKeeps
<1>10. ASSUME NEW c \in Hands, ReleasesNext(c) PROVE HeldInv'
  BY <1>10, ReleasesNextKeeps
<1>11. CASE InputTakes
  BY <1>11, InputTakesKeeps
<1>12. CASE BrowserRefuses
  BY <1>12, BrowserRefusesKeeps
<1>13. CASE UNCHANGED inputVars
  BY <1>13 DEF inputVars, HeldInv, HeldTypeOK, GesturesAreWhole, HoldsATurn, KeysFollow, AloneInv,
       OneAtATime, EventsHaveOwners, AnswersCounted, ButtonsAreMeant, ReleasesInOrder, Busy, AssignsLater, TurnOf, ButtonOrder
<1> QED BY <1>1, <1>2, <1>3, <1>4, <1>5, <1>6, <1>7, <1>8, <1>9, <1>10, <1>11, <1>12, <1>13 DEF HeldNext

\* The invariant holds of every state.
LEMMA HeldIsInvariant == HeldSpec => []HeldInv
BY HeldStart, HeldSteps, PTL DEF HeldSpec

\* What is down in the page is what InputState says: the keys whichever calls run
\* side by side, the buttons if none did, until a command is refused.
THEOREM HeldStaysKnown == HeldSpec => []HeldIsKnown
<1>1. HeldInv => HeldIsKnown
  BY HeldInvSays
<1> QED BY <1>1, HeldIsInvariant, PTL

\* What a call writes and notes leaves the other calls alone.
LEMMA DispatchLeavesOthers ==
  ASSUME HeldTypeOK, NEW d \in Hands, NEW c \in Hands \ {d}, NEW does, NEW what, NEW events, NEW later,
         Dispatch(d, does, what, events, later)
  PROVE  hand'[c] = hand[c]
BY DEF Dispatch, HeldTypeOK

\* So does letting go of a button or a key.
LEMMA ReleasesLeaveOthers ==
  ASSUME HeldTypeOK, NEW d \in Hands, NEW c \in Hands \ {d}, NEW past, NEW keys,
         ReleasesButton(d, past) \/ ReleasesKey(d, keys)
  PROVE  hand'[c] = hand[c]
<1>1. CASE ReleasesButton(d, past)
  BY <1>1 DEF ReleasesButton, HeldTypeOK
<1>2. CASE ReleasesKey(d, keys)
  <2>1. CASE keys \cap heldKeys = {}
    BY <1>2, <2>1 DEF ReleasesKey, HeldTypeOK
  <2>2. CASE keys \cap heldKeys # {}
    BY <1>2, <2>2, DispatchLeavesOthers DEF ReleasesKey
  <2> QED BY <2>1, <2>2
<1> QED BY <1>1, <1>2

\* A call that is letting things go is touched by no gesture that begins.
LEMMA BeginningsLeaveIt ==
  ASSUME HeldTypeOK, NEW c \in Hands, Busy(c), NEW d \in Hands,
         \/ \E b \in Buttons : \/ GestureBegins(d, Click(d, b)) \/ GestureBegins(d, MouseDown(d, "down", b))
                               \/ GestureBegins(d, MouseUp(d, "up", b)) \/ GestureBegins(d, MouseDown(d, "drag", b))
         \/ \E k \in Modifiers : GestureBegins(d, KeyDown(d, k)) \/ GestureBegins(d, KeyUp(d, k))
         \/ \E mods \in SUBSET Modifiers \ {{}} : GestureBegins(d, PressChord(d, mods))
         \/ GestureBegins(d, ReleaseAll(d))
  PROVE  hand'[c] = hand[c]
<1>1. hand[d] = Free
  BY DEF GestureBegins
<1>2. c \in Hands \ {d}
  BY <1>1 DEF Busy, Free
<1>3. ASSUME NEW b \in Buttons, GestureBegins(d, Click(d, b)) PROVE hand'[c] = hand[c]
  <2>1. Click(d, b)
    BY <1>3 DEF GestureBegins
  <2> QED BY <1>2, <2>1, DispatchLeavesOthers DEF Click
<1>4. ASSUME NEW b \in Buttons, NEW does, GestureBegins(d, MouseDown(d, does, b)) PROVE hand'[c] = hand[c]
  <2>1. MouseDown(d, does, b)
    BY <1>4 DEF GestureBegins
  <2> QED BY <1>2, <2>1, DispatchLeavesOthers DEF MouseDown
<1>5. ASSUME NEW b \in Buttons, GestureBegins(d, MouseUp(d, "up", b)) PROVE hand'[c] = hand[c]
  <2>1. MouseUp(d, "up", b)
    BY <1>5 DEF GestureBegins
  <2> QED BY <1>2, <2>1, DispatchLeavesOthers DEF MouseUp
<1>6. ASSUME NEW k \in Modifiers, GestureBegins(d, KeyDown(d, k)) PROVE hand'[c] = hand[c]
  <2>1. KeyDown(d, k)
    BY <1>6 DEF GestureBegins
  <2> QED BY <1>2, <2>1, DispatchLeavesOthers DEF KeyDown
<1>7. ASSUME NEW k \in Modifiers, GestureBegins(d, KeyUp(d, k)) PROVE hand'[c] = hand[c]
  <2>1. KeyUp(d, k)
    BY <1>7 DEF GestureBegins
  <2> QED BY <1>2, <2>1, DispatchLeavesOthers DEF KeyUp
<1>8. ASSUME NEW mods, GestureBegins(d, PressChord(d, mods)) PROVE hand'[c] = hand[c]
  <2>1. PressChord(d, mods)
    BY <1>8 DEF GestureBegins
  <2> QED BY <1>2, <2>1, DispatchLeavesOthers DEF PressChord
<1>9. ASSUME GestureBegins(d, ReleaseAll(d)) PROVE hand'[c] = hand[c]
  <2>1. ReleasesButton(d, 0) \/ ReleasesKey(d, heldKeys)
    BY <1>9 DEF GestureBegins, ReleaseAll
  <2> QED BY <1>2, <2>1, ReleasesLeaveOthers
<1> QED BY <1>3, <1>4, <1>5, <1>6, <1>7, <1>8, <1>9

\* A call that lets its last key go, alone on the tab, finds nothing pressed.
LEMMA LastReleaseEmpties ==
  ASSUME HeldInv, NEW c \in Hands, ReleasesNext(c), hand'[c] = Free, ~refused, ~overlapped
  PROVE  pressed = {}
<1>1. Over(c) /\ HeldTypeOK /\ hand[c].does \in {"released", "releaseKeys"}
  BY DEF ReleasesNext, HeldInv
<1>2. Busy(c) /\ ~AssignsLater(c)
  BY <1>1 DEF Busy, AssignsLater
<1>3. wire = << >> /\ pressed \cap Buttons = buttons /\ ReleasesInOrder
  BY <1>1, <1>2, OverAlone DEF HeldInv, AloneInv
<1>4. ASSUME NEW past, ReleasesButton(c, past) PROVE FALSE
  <2>1. hand'[c].does = "releaseAll"
    BY <1>1, <1>4 DEF ReleasesButton, HeldTypeOK
  <2> QED BY <2>1 DEF Free
<1>5. ASSUME NEW keys, ReleasesKey(c, keys) PROVE keys \cap heldKeys = {}
  <2> SUFFICES ASSUME keys \cap heldKeys # {} PROVE FALSE
    OBVIOUS
  <2>1. hand'[c].does = "releaseKeys"
    BY <1>1, <1>5 DEF ReleasesKey, Dispatch, HeldTypeOK
  <2> QED BY <2>1 DEF Free
<1>6. buttons = {} /\ heldKeys = {}
  <2>1. CASE hand[c].does = "released"
    <3>1. PICK j \in DOMAIN ButtonOrder : hand[c].what = {ButtonOrder[j]}
      BY <2>1 DEF HeldInv, GesturesAreWhole, HoldsATurn
    <3>2. TurnOf(c) = j /\ j \in Nat
      BY <3>1, TurnIsKnown, EveryButtonHasATurn
    <3>3. \A i \in 1 .. TurnOf(c) : ButtonOrder[i] \notin buttons
      BY <1>3, <2>1 DEF ReleasesInOrder
    <3>4. HeldAfter(TurnOf(c)) = {} /\ ReleasesKey(c, heldKeys)
      BY <1>4, <2>1 DEF ReleasesNext
    <3>5. buttons = {}
      BY <1>1, <3>2, <3>3, <3>4, NoButtonLeft
    <3> QED BY <1>5, <3>4, <3>5
  <2>2. CASE hand[c].does = "releaseKeys"
    <3>1. ReleasesKey(c, hand[c].what)
      BY <2>2 DEF ReleasesNext
    <3>2. buttons = {} /\ heldKeys \subseteq hand[c].what
      BY <1>3, <2>2 DEF ReleasesInOrder
    <3> QED BY <1>5, <3>1, <3>2
  <2> QED BY <1>1, <2>1, <2>2
<1>7. pressed \in SUBSET Things /\ DownAfter(wire, pressed) = pressed
  BY <1>1, <1>3, DownAfterNone DEF HeldTypeOK
<1>8. pressed \cap Modifiers = {}
  BY <1>6, <1>7 DEF HeldInv, KeysFollow
<1> QED BY <1>3, <1>6, <1>7, <1>8 DEF Things

\* Nothing else ends a call that is letting things go, but a refusal.
LEMMA OnlyReleasesEnd ==
  ASSUME HeldTypeOK, HeldNext, NEW c \in Hands, hand[c].does \in {"released", "releaseKeys"}, hand'[c] = Free,
         ~refused'
  PROVE  ReleasesNext(c)
<1>1. Busy(c) /\ hand'[c] # hand[c]
  BY DEF Busy, Free
<1>2. ASSUME NEW d \in Hands,
             \/ GestureEnds(d) \/ MouseEnds(d) \/ DragMoves(d) \/ DragDrops(d) \/ ReleaseGoesOn(d)
      PROVE  FALSE
  <2>1. d # c
    BY <1>2 DEF GestureEnds, MouseEnds, DragMoves, DragDrops, ReleaseGoesOn
  <2>2. CASE GestureEnds(d)
    BY <1>1, <2>1, <2>2 DEF GestureEnds, HeldTypeOK
  <2>3. CASE MouseEnds(d)
    BY <1>1, <2>1, <2>3 DEF MouseEnds, HeldTypeOK
  <2>4. CASE DragMoves(d)
    BY <1>1, <2>1, <2>4, DispatchLeavesOthers DEF DragMoves
  <2>5. CASE DragDrops(d)
    BY <1>1, <2>1, <2>5, DispatchLeavesOthers DEF DragDrops, MouseUp
  <2>6. CASE ReleaseGoesOn(d)
    <3>1. hand' = [hand EXCEPT ![d] = [hand[d] EXCEPT !.does = "released"]]
      BY <2>6 DEF ReleaseGoesOn
    <3>2. hand'[c] = hand[c]
      BY <2>1, <3>1 DEF HeldTypeOK
    <3> QED BY <1>1, <3>2
  <2> QED BY <1>2, <2>2, <2>3, <2>4, <2>5, <2>6
<1>3. ASSUME NEW d \in Hands, ReleasesNext(d), d # c PROVE FALSE
  <2>1. PICK past, keys : ReleasesButton(d, past) \/ ReleasesKey(d, keys)
    BY <1>3 DEF ReleasesNext
  <2> QED BY <1>1, <1>3, <2>1, ReleasesLeaveOthers
<1>4. ~InputTakes
  <2> SUFFICES ASSUME InputTakes PROVE FALSE
    OBVIOUS
  <2>1. PICK e : e = Head(wire)
    OBVIOUS
  <2>2. hand'[c] = IF c = e.of THEN [hand[c] EXCEPT !.left = @ - 1] ELSE hand[c]
    BY <2>1 DEF InputTakes
  <2>3. hand[c] \in HandStates
    BY DEF HeldTypeOK
  <2>4. hand'[c].does = hand[c].does
    BY <2>2, <2>3 DEF HandStates
  <2> QED BY <2>4 DEF Free
<1>5. ~BrowserRefuses
  BY DEF BrowserRefuses
<1>6. ASSUME NEW d \in Hands,
             \/ \E b \in Buttons : \/ GestureBegins(d, Click(d, b)) \/ GestureBegins(d, MouseDown(d, "down", b))
                                   \/ GestureBegins(d, MouseUp(d, "up", b)) \/ GestureBegins(d, MouseDown(d, "drag", b))
             \/ \E k \in Modifiers : GestureBegins(d, KeyDown(d, k)) \/ GestureBegins(d, KeyUp(d, k))
             \/ \E mods \in SUBSET Modifiers \ {{}} : GestureBegins(d, PressChord(d, mods))
             \/ GestureBegins(d, ReleaseAll(d))
      PROVE  FALSE
  BY <1>1, <1>6, BeginningsLeaveIt
<1> QED BY <1>2, <1>3, <1>4, <1>5, <1>6 DEF HeldNext

\* A releaseAll that ends, alone on the tab and without a refusal, leaves nothing
\* pressed in the page.
THEOREM ReleaseLeavesNothing == HeldSpec => ReleaseEmpties
<1>1. HeldInv /\ [HeldNext]_inputVars =>
        [\A c \in Hands : (/\ hand[c].does \in {"released", "releaseKeys"} /\ hand'[c] = Free
                           /\ ~refused' /\ ~overlapped') => pressed' = {}]_inputVars
  <2> SUFFICES ASSUME HeldInv, HeldNext, NEW c \in Hands, hand[c].does \in {"released", "releaseKeys"},
                      hand'[c] = Free, ~refused', ~overlapped'
               PROVE  pressed' = {}
    OBVIOUS
  <2>1. ReleasesNext(c)
    BY OnlyReleasesEnd DEF HeldInv
  <2>2. UNCHANGED <<pressed, overlapped, refused>>
    BY <2>1 DEF ReleasesNext
  <2> QED BY <2>1, <2>2, LastReleaseEmpties
<1> QED BY <1>1, HeldIsInvariant, PTL DEF HeldSpec, ReleaseEmpties
=============================================================================
