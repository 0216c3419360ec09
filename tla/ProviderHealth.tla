--------------------------- MODULE ProviderHealth ---------------------------
(***************************************************************************)
(* Whether a provider is offered: the sliding window of its failures and   *)
(* successes, the cooldown they start, the health check, and the two ways  *)
(* in which traffic meets them.  A websocket goes through the selector,    *)
(* which ends a cooldown that has run out as it looks; a REST request must *)
(* first pass providerGate, which only looks.                              *)
(*                                                                         *)
(* Times are relative, so that time may go on for ever: an entry of the    *)
(* window has an age, a cooldown the ticks that are left of it.            *)
(***************************************************************************)
EXTENDS Naturals, FiniteSets, FiniteSetsExt, TLAPS

CONSTANTS
  Pool,         \* providers
  Traffic,      \* how clients come: "socket", "rest"
  WindowTicks,  \* windowMs
  CoolTicks,    \* cooldown.defaultMs
  MinVolume,    \* minRequestVolume
  RateOver,     \* failureThreshold is RateOver / RateUnder
  RateUnder,
  Strikes,      \* failureThreshold of the health checker
  MaxPerTick    \* bound: outcomes of a kind recorded in a tick

ASSUME HealthAssumption ==
  /\ IsFiniteSet(Pool) /\ Traffic \subseteq {"socket", "rest"}
  /\ {WindowTicks, CoolTicks, MinVolume, RateUnder, Strikes} \subseteq Nat \ {0}
  /\ {RateOver, MaxPerTick} \subseteq Nat

VARIABLES
  failures,   \* of each provider and age, failures in the window
  successes,
  cooling,    \* ticks left of a cooldown; Expired: it ran out, nobody has looked; None
  healthy,
  strikes,    \* consecutiveFailures
  checking,   \* health checks under way
  attempting, \* connections that have been offered the provider
  answering,  \* the provider answers
  checker     \* the health checker runs

healthVars == <<failures, successes, cooling, healthy, strikes, checking, attempting, answering, checker>>

Ages == 0..(WindowTicks - 1)
NotCooling == CoolTicks + 1
Expired == 0
Recorded(w, p) == MapThenSumSet(LAMBDA age : w[p][age], Ages)

HealthTypeOK ==
  /\ {failures, successes} \subseteq [Pool -> [Ages -> 0..MaxPerTick]]
  /\ cooling \in [Pool -> 0..NotCooling]
  /\ healthy \in [Pool -> BOOLEAN]
  /\ strikes \in [Pool -> 0..Strikes]
  /\ {checking, attempting, answering} \subseteq SUBSET Pool
  /\ checker \in BOOLEAN

\* The checker is started if a provider is registered by then.
HealthInit ==
  /\ failures = [p \in Pool |-> [age \in Ages |-> 0]]
  /\ successes = failures
  /\ cooling = [p \in Pool |-> NotCooling]
  /\ healthy = [p \in Pool |-> TRUE]
  /\ strikes = [p \in Pool |-> 0]
  /\ checking = {} /\ attempting = {} /\ answering = Pool
  /\ checker \in BOOLEAN

(***************************************************************************)
(* The cooldown tracker.                                                   *)
(***************************************************************************)

\* isInCooldown, which clears a cooldown that has run out.
InCooldown(p) == cooling[p] \notin {NotCooling, Expired}

Looked(p) == cooling[p] = Expired

Noted(w, p) == [w EXCEPT ![p][0] = IF @ < MaxPerTick THEN @ + 1 ELSE @]

\* Whether failures reach the threshold once there is enough to judge by.
Coolable(fails, wins) ==
  /\ fails + wins >= MinVolume
  /\ fails * RateUnder >= RateOver * (fails + wins)

RecordFailure(p) ==
  LET fails == Recorded(Noted(failures, p), p)
      cools == Coolable(fails, Recorded(successes, p))
  IN /\ failures' = Noted(failures, p)
     /\ cooling' = IF cools THEN [cooling EXCEPT ![p] = CoolTicks] ELSE cooling
     /\ healthy' = IF cools THEN [healthy EXCEPT ![p] = FALSE] ELSE healthy

RecordSuccess(p) ==
  /\ successes' = Noted(successes, p)
  /\ cooling' = IF cooling[p] = Expired THEN [cooling EXCEPT ![p] = NotCooling] ELSE cooling
  /\ healthy' = IF cooling[p] = Expired THEN [healthy EXCEPT ![p] = TRUE] ELSE healthy

(***************************************************************************)
(* Traffic.                                                                *)
(***************************************************************************)

\* getCandidates looks at every provider; the connection is tried on one.
Offer(p) ==
  /\ ~InCooldown(p) /\ p \notin attempting
  /\ cooling' = [q \in Pool |-> IF Looked(q) THEN NotCooling ELSE cooling[q]]
  /\ healthy' = [q \in Pool |-> healthy[q] \/ Looked(q)]
  /\ attempting' = attempting \cup {p}
  /\ UNCHANGED <<failures, successes, strikes, checking, answering, checker>>

SocketArrives(p) == "socket" \in Traffic /\ Offer(p)

\* providerGate: refused when every provider cools down or is not healthy.
GateOpen == \E p \in Pool : ~InCooldown(p) /\ healthy[p]

RestArrives(p) == "rest" \in Traffic /\ GateOpen /\ Offer(p)

\* A session that was served is recorded when it ends.
AttemptFails(p) ==
  /\ p \in attempting /\ p \notin answering
  /\ attempting' = attempting \ {p}
  /\ RecordFailure(p)
  /\ UNCHANGED <<successes, strikes, checking, answering, checker>>

AttemptServed(p) ==
  /\ p \in attempting /\ p \in answering
  /\ attempting' = attempting \ {p}
  /\ RecordSuccess(p)
  /\ UNCHANGED <<failures, strikes, checking, answering, checker>>

(***************************************************************************)
(* The health checker.                                                     *)
(***************************************************************************)

CheckBegins(p) ==
  /\ checker /\ p \notin checking
  /\ checking' = checking \cup {p}
  /\ UNCHANGED <<failures, successes, cooling, healthy, strikes, attempting, answering, checker>>

\* Mutant: the check recovers a provider that is cooling down.
CheckPassesAlways(p) ==
  /\ p \in checking /\ p \in answering
  /\ checking' = checking \ {p}
  /\ strikes' = [strikes EXCEPT ![p] = 0]
  /\ healthy' = [healthy EXCEPT ![p] = TRUE]
  /\ UNCHANGED <<failures, successes, cooling, attempting, answering, checker>>

CheckPasses(p) ==
  /\ p \in checking /\ p \in answering
  /\ checking' = checking \ {p}
  /\ strikes' = [strikes EXCEPT ![p] = 0]
  /\ healthy' = [healthy EXCEPT ![p] = @ \/ cooling[p] = NotCooling]
  /\ UNCHANGED <<failures, successes, cooling, attempting, answering, checker>>

Struck(p) == IF strikes[p] < Strikes THEN strikes[p] + 1 ELSE strikes[p]

CheckFails(p) ==
  /\ p \in checking /\ p \notin answering
  /\ checking' = checking \ {p}
  /\ strikes' = [strikes EXCEPT ![p] = Struck(p)]
  /\ healthy' = [healthy EXCEPT ![p] = @ /\ Struck(p) < Strikes]
  /\ UNCHANGED <<failures, successes, cooling, attempting, answering, checker>>

(***************************************************************************)
(* Time and the provider.                                                  *)
(***************************************************************************)

Aged(w) == [p \in Pool |-> [age \in Ages |-> IF age = 0 THEN 0 ELSE w[p][age - 1]]]

Tick ==
  /\ failures' = Aged(failures) /\ successes' = Aged(successes)
  /\ cooling' = [p \in Pool |-> IF InCooldown(p) THEN cooling[p] - 1 ELSE cooling[p]]
  /\ UNCHANGED <<healthy, strikes, checking, attempting, answering, checker>>

Turns(p) ==
  /\ answering' = IF p \in answering THEN answering \ {p} ELSE answering \cup {p}
  /\ UNCHANGED <<failures, successes, cooling, healthy, strikes, checking, attempting, checker>>

Arrives(p) == SocketArrives(p) \/ RestArrives(p)
Settles(p) == AttemptFails(p) \/ AttemptServed(p)
Checks(p) == CheckBegins(p) \/ CheckPasses(p) \/ CheckFails(p)
Calls == \E p \in Pool : Arrives(p) \/ Settles(p)

HealthNext == Tick \/ Calls \/ \E p \in Pool : Checks(p) \/ Turns(p)

\* Clients keep coming, attempts and checks come to an end, time passes.
HealthSpec ==
  /\ HealthInit /\ [][HealthNext]_healthVars
  /\ WF_healthVars(Tick) /\ WF_healthVars(Calls) /\ \A p \in Pool : WF_healthVars(Checks(p))

(***************************************************************************)
(* Properties                                                              *)
(***************************************************************************)

\* A provider that is cooling down is not shown as healthy, though the tracker
\* and the health checker both write the mark: a live view goes by it alone
\* (cooldown.ts:41, health.ts:53, live/upgrade.ts:82).
CoolingIsUnhealthy == \A p \in Pool : InCooldown(p) => ~healthy[p]

\* A provider that no longer answers is marked again and again, though every
\* cooldown that runs out takes the mark from it (health.ts:61).
DeadIsMarked ==
  checker => \A p \in Pool : <>[](p \notin answering) => []<>(~healthy[p])

\* A failing provider is skipped and recovers by itself (README.md:101): once
\* it answers, REST requests are let through again.
RestComesBack == <>[](Pool \subseteq answering) => []<>GateOpen

\* The marks follow the provider: it is held back while it is away, and let
\* through again when it is back.
MarksFollow == DeadIsMarked /\ RestComesBack

----------------------------------------------------------------------------
(* Proofs *)

\* What the marks are, and what they say of each other.
MarksInv ==
  /\ cooling \in [Pool -> 0..NotCooling] /\ healthy \in [Pool -> BOOLEAN]
  /\ CoolingIsUnhealthy

\* A step that leaves the marks of the others alone, and those of one provider right.
LEMMA OneMarkKeeps ==
  ASSUME MarksInv, NEW p \in Pool, NEW ticks \in 0..NotCooling, NEW mark \in BOOLEAN,
         ticks \notin {NotCooling, Expired} => ~mark,
         cooling' = [cooling EXCEPT ![p] = ticks], healthy' = [healthy EXCEPT ![p] = mark]
  PROVE  MarksInv'
<1>1. /\ cooling' \in [Pool -> 0..NotCooling] /\ healthy' \in [Pool -> BOOLEAN]
      /\ \A q \in Pool : /\ cooling'[q] = IF q = p THEN ticks ELSE cooling[q]
                         /\ healthy'[q] = IF q = p THEN mark ELSE healthy[q]
  BY DEF MarksInv
<1>2. \A q \in Pool : cooling'[q] \notin {NotCooling, Expired} => ~healthy'[q]
  BY <1>1 DEF MarksInv, CoolingIsUnhealthy, InCooldown
<1> QED BY <1>1, <1>2 DEF MarksInv, CoolingIsUnhealthy, InCooldown

\* Every step keeps them.
LEMMA MarksKeep == ASSUME MarksInv, [HealthNext]_healthVars PROVE MarksInv'
<1>0. /\ CoolTicks \in Nat /\ CoolTicks # 0 /\ NotCooling = CoolTicks + 1 /\ Expired = 0
      /\ cooling \in [Pool -> 0..NotCooling] /\ healthy \in [Pool -> BOOLEAN]
  BY HealthAssumption DEF NotCooling, Expired, MarksInv
<1>s. (UNCHANGED <<cooling, healthy>>) => MarksInv'
  BY DEF MarksInv, CoolingIsUnhealthy, InCooldown
<1>1. ASSUME NEW p \in Pool, AttemptFails(p) PROVE MarksInv'
  <2>1. \/ UNCHANGED <<cooling, healthy>>
        \/ cooling' = [cooling EXCEPT ![p] = CoolTicks] /\ healthy' = [healthy EXCEPT ![p] = FALSE]
    BY <1>1 DEF AttemptFails, RecordFailure
  <2>2. CoolTicks \in 0..NotCooling
    BY <1>0
  <2> QED BY <1>s, <2>1, <2>2, OneMarkKeeps
<1>2. ASSUME NEW p \in Pool, AttemptServed(p) PROVE MarksInv'
  <2>1. \/ UNCHANGED <<cooling, healthy>>
        \/ cooling' = [cooling EXCEPT ![p] = NotCooling] /\ healthy' = [healthy EXCEPT ![p] = TRUE]
    BY <1>2 DEF AttemptServed, RecordSuccess
  <2>2. NotCooling \in 0..NotCooling
    BY <1>0
  <2> QED BY <1>s, <2>1, <2>2, OneMarkKeeps
<1>3. ASSUME NEW p \in Pool, Offer(p) PROVE MarksInv'
  <2>1. /\ cooling' = [q \in Pool |-> IF cooling[q] = Expired THEN NotCooling ELSE cooling[q]]
        /\ healthy' = [q \in Pool |-> healthy[q] \/ cooling[q] = Expired]
    BY <1>3 DEF Offer, Looked
  <2>2. cooling' \in [Pool -> 0..NotCooling]
    BY <1>0, <2>1
  <2>3. healthy' \in [Pool -> BOOLEAN]
    BY <1>0, <2>1
  <2>4. ASSUME NEW q \in Pool, cooling'[q] \notin {NotCooling, Expired} PROVE ~healthy'[q]
    <3>1. /\ cooling[q] \notin {NotCooling, Expired}
          /\ healthy'[q] <=> (healthy[q] \/ cooling[q] = Expired)
      BY <1>0, <2>1, <2>4
    <3> QED BY <3>1 DEF MarksInv, CoolingIsUnhealthy, InCooldown
  <2> QED BY <2>2, <2>3, <2>4 DEF MarksInv, CoolingIsUnhealthy, InCooldown
<1>4. ASSUME NEW p \in Pool, CheckPasses(p) PROVE MarksInv'
  <2>1. /\ cooling' = cooling
        /\ healthy' = [healthy EXCEPT ![p] = healthy[p] \/ cooling[p] = NotCooling]
    BY <1>0, <1>4 DEF CheckPasses
  <2>2. healthy' \in [Pool -> BOOLEAN]
    BY <1>0, <2>1
  <2>3. ASSUME NEW q \in Pool, cooling[q] \notin {NotCooling, Expired} PROVE ~healthy'[q]
    <3>1. ~healthy[q]
      BY <2>3 DEF MarksInv, CoolingIsUnhealthy, InCooldown
    <3> QED BY <1>0, <2>1, <2>3, <3>1
  <2> QED BY <1>0, <2>1, <2>2, <2>3 DEF MarksInv, CoolingIsUnhealthy, InCooldown
<1>5. ASSUME NEW p \in Pool, CheckFails(p) PROVE MarksInv'
  <2>1. PICK passed \in BOOLEAN : cooling' = cooling /\ healthy' = [healthy EXCEPT ![p] = healthy[p] /\ passed]
    BY <1>0, <1>5 DEF CheckFails
  <2>2. healthy' \in [Pool -> BOOLEAN]
    BY <1>0, <2>1
  <2>3. \A q \in Pool : healthy'[q] => healthy[q]
    BY <1>0, <2>1
  <2> QED BY <1>0, <2>1, <2>2, <2>3 DEF MarksInv, CoolingIsUnhealthy, InCooldown
<1>6. ASSUME Tick PROVE MarksInv'
  <2>1. /\ cooling' = [q \in Pool |-> IF cooling[q] \notin {NotCooling, Expired} THEN cooling[q] - 1 ELSE cooling[q]]
        /\ healthy' = healthy
    BY <1>6 DEF Tick, InCooldown
  <2>2. cooling' \in [Pool -> 0..NotCooling]
    <3>1. \A q \in Pool : cooling'[q] \in 0..NotCooling
      BY <1>0, <2>1
    <3> QED BY <2>1, <3>1
  <2>3. \A q \in Pool : cooling'[q] \notin {NotCooling, Expired} => cooling[q] \notin {NotCooling, Expired}
    BY <1>0, <2>1
  <2> QED BY <1>0, <2>1, <2>2, <2>3 DEF MarksInv, CoolingIsUnhealthy, InCooldown
<1>7. ASSUME NEW p \in Pool, CheckBegins(p) \/ Turns(p) PROVE MarksInv'
  BY <1>7, <1>s DEF CheckBegins, Turns
<1>8. CASE UNCHANGED healthVars
  BY <1>8, <1>s DEF healthVars
<1> QED
  BY <1>1, <1>2, <1>3, <1>4, <1>5, <1>6, <1>7, <1>8
     DEF HealthNext, Calls, Arrives, SocketArrives, RestArrives, Settles, Checks

\* The tracker and the health checker, whose steps cross as they like, never show a provider
\* that cools down as healthy, for any providers, window, threshold and cooldown.
THEOREM CoolingStaysUnhealthy == HealthSpec => []CoolingIsUnhealthy
<1>1. HealthInit => MarksInv
  <2> SUFFICES ASSUME HealthInit PROVE MarksInv
    OBVIOUS
  <2>1. CoolTicks \in Nat /\ NotCooling = CoolTicks + 1
    BY HealthAssumption DEF NotCooling
  <2> QED BY <2>1 DEF HealthInit, MarksInv, CoolingIsUnhealthy, InCooldown
<1>2. MarksInv /\ [HealthNext]_healthVars => MarksInv'
  BY MarksKeep
<1>3. MarksInv => CoolingIsUnhealthy
  BY DEF MarksInv
<1> QED BY <1>1, <1>2, <1>3, PTL DEF HealthSpec
=============================================================================
