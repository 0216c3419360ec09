------------------------------- MODULE PoolProofs -------------------------------
(***************************************************************************)
(* Theorems about SessionPool for any requests, sessions and limits: the   *)
(* sessions and their pages stay within their limits, the counts of pages  *)
(* are right up to the pages given back twice, nobody waits for a page     *)
(* that is free, the acquire lock is never lost, and no session is closed  *)
(* under a page.  Theorems about Recording for any tabs, pictures and      *)
(* limits: a replay holds what its tabs showed.                            *)
(***************************************************************************)
EXTENDS SessionPool, Recording, TLAPS, FiniteSetTheorems, WellFoundedInduction

-----------------------------------------------------------------------------
(* The inductive invariant, in parts. *)

\* Only the first in line is past it; it stays there until it has its page.
First == {"polling", "creating", "queued", "opening"}
InLine == First \cup {"line"}

\* The owner of a page waits for releasePage to return.
Returning == {"finishing", "failing", "stopping", "retrying"}

\* Every request is in line once.
LineOnce == \A i, j \in DOMAIN line : line[i] = line[j] => i = j

\* A session in the map is on its way or connected, one that is not is not counted.
SessionsPlaced ==
  /\ connecting \cap open = {}
  /\ \A b \in Sessions :
       /\ b \notin pool \/ b \in connecting => activePages[b] = 0 /\ late[b] = 0
       /\ b \in pool => b \in connecting \cup open
       /\ b \in pool /\ state[b] = "active" => b \in open
       /\ b \in pool \cap connecting /\ stage = "open" => state[b] = "starting"

\* Where a request refers to a page of its session.
Paged == {"opening", "using", "failing", "paused"}

\* What is held or on its way back is of a connected session, or of none.
PagesPlaced ==
  /\ \A r \in handles : pc[r] = "using"
  /\ \A x \in releases : x.at \in open \cup {None}
  /\ \A r \in Requests :
       /\ pc[r] \in {"idle", "connecting", "retrying"} => at[r] = None
       /\ pc[r] \in Paged => at[r] \in open \cup {None}
       /\ pc[r] = "opening" /\ at[r] \in pool => activePages[at[r]] < MaxPages

\* A page is given back once by its owner, and once by the pool.
ReleasedOnce ==
  /\ IsFiniteSet(releases)
  /\ \A x \in releases :
       /\ x.try <= tries[x.of]
       /\ x.by = "owner" => pc[x.of] \in Returning
       /\ x.by = "pool" /\ x.try = tries[x.of] =>
            x.of \notin handles /\ pc[x.of] \notin InLine \cup {"connecting"}
       /\ \A y \in releases : x.by = "owner" /\ y.by = "owner" /\ x.of = y.of => x = y

\* No count is above the limit.
PagesCapped == \A b \in Sessions : activePages[b] <= MaxPages

\* No session has room, as the head of the line sees it.
Full == \A b \in pool : state[b] = "active" => activePages[b] >= MaxPages
WaitsOnlyWhenFull == \A r \in Requests : pc[r] = "queued" => Full

LineInv == LineOnce /\ LockPassesOn

Accounts == SessionsPlaced /\ PagesPlaced /\ ReleasedOnce /\ PagesCapped

PoolInv ==
  /\ TypeOK /\ LineInv
  /\ Accounts /\ PagesAccounted
  /\ SessionsWithinLimit /\ WaitsOnlyWhenFull

-----------------------------------------------------------------------------
(* What the helpers of the model do. *)

\* ensureCapacity changes the map as if one session were created, or not at all.
Grows(st) ==
  \/ state' = st /\ UNCHANGED <<pool, connecting, creating>>
  \/ \E c \in Unused :
       /\ Managed(st) < MaxSessions
       /\ state' = [st EXCEPT ![c] = "starting"]
       /\ pool' = pool \cup {c} /\ connecting' = connecting \cup {c}
       /\ creating' = TRUE

\* A session is created only for one that is missing.
LEMMA CapacityGrows ==
  ASSUME NEW st, NEW n, EnsureCapacity(st, n)
  PROVE  Grows(st)
<1>1. CASE /\ stage = "open" /\ ~creating /\ Unused # {}
           /\ Managed(st) < MaxSessions /\ Room(st, n) < Threshold
  <2>1. CreateSession(st, CHOOSE b \in Unused : TRUE)
    BY <1>1 DEF EnsureCapacity
  <2>2. (CHOOSE b \in Unused : TRUE) \in Unused
    BY <1>1
  <2> QED BY <1>1, <2>1, <2>2 DEF CreateSession, Grows
<1>2. CASE ~( /\ stage = "open" /\ ~creating /\ Unused # {}
              /\ Managed(st) < MaxSessions /\ Room(st, n) < Threshold)
  <2> QED BY <1>2 DEF EnsureCapacity, Grows
<1> QED BY <1>1, <1>2

\* The first in line that has nothing yet creates a session or waits for one.
Creates(r) ==
  /\ \/ /\ Grows(state) /\ pool' # pool
        /\ \E c \in Unused : pool' = pool \cup {c} /\ connecting' = connecting \cup {c}
                             /\ at' = [at EXCEPT ![r] = c]
        /\ pc' = [pc EXCEPT ![r] = "creating"]
     \/ /\ UNCHANGED <<state, pool, connecting, creating, at>>
        /\ pc' = [pc EXCEPT ![r] = "queued"]
  /\ Best = {}
  /\ UNCHANGED <<activePages, served, late, open, line, tries, pageVars, stage>>

\* The step of a request at the head of the line that has no page yet.
LEMMA HeadMoves ==
  ASSUME TypeOK, NEW r \in Requests, DoAcquirePage(r) \/ Poll(r)
  PROVE  /\ pc[r] \in {"line", "polling"}
         /\ pc[r] = "line" => Holds(r)
         /\ \/ Take(r) /\ UNCHANGED creating
            \/ /\ pc' = [pc EXCEPT ![r] = "polling"]
               /\ UNCHANGED <<sessionVars, line, at, tries, pageVars, stage>>
            \/ Creates(r)
<1>1. ASSUME Best = {}, CreateOrWait(r)
      PROVE  Creates(r)
  <2>1. CASE Managed(state) < MaxSessions
    <3>1. PICK c \in Unused : CreateSession(state, c) /\ at' = [at EXCEPT ![r] = c]
      BY <1>1, <2>1 DEF CreateOrWait
    <3>2. c \notin pool
      BY DEF Unused
    <3> QED BY <1>1, <2>1, <3>1, <3>2 DEF CreateOrWait, CreateSession, Creates, Grows, Goto, pageVars
  <2>2. CASE ~(Managed(state) < MaxSessions)
    BY <1>1, <2>2 DEF CreateOrWait, Creates, Goto, sessionVars, pageVars
  <2> QED BY <2>1, <2>2
<1> QED BY <1>1 DEF DoAcquirePage, Poll, Take, sessionVars, Goto

\* Somebody is the least loaded.
LEMMA SomeLeast ==
  ASSUME NEW S, NEW f, S # {}, \A b \in S : f[b] \in Nat
  PROVE  \E b \in S : \A c \in S : f[b] <= f[c]
<1> DEFINE T == {f[b] : b \in S}
<1>1. T \subseteq Nat /\ T # {}
  OBVIOUS
<1>2. PICK m \in T : \A n \in T : <<n, m>> \notin {ss \in Nat \X Nat : ss[1] < ss[2]}
  BY <1>1, NatLessThanWellFounded, WFMin DEF OpToRel
<1>3. ASSUME NEW n \in T
      PROVE  m <= n
  <2> DEFINE p == <<n, m>>
  <2>1. m \in Nat /\ n \in Nat
    BY <1>1
  <2>2. p \in Nat \X Nat /\ p[1] = n /\ p[2] = m
    BY <2>1
  <2>3. ~ (p[1] < p[2])
    <3> HIDE DEF p
    <3> QED BY <1>2, <2>2
  <2> QED BY <2>1, <2>2, <2>3
<1> QED BY <1>3

-----------------------------------------------------------------------------
(* The steps, one after the other, and what each keeps. *)

\* A queue that moves on gives its head one of the sessions.
LEMMA DequeueMoves ==
  ASSUME NEW p, NEW a, TypeOK, pool' \subseteq Sessions, DequeueNext(p, a)
  PROVE  \/ pc' = p /\ at' = a /\ (line # <<>> /\ p[Head(line)] = "queued" => Best' = {})
         \/ \E b \in Best' :
              /\ line # <<>> /\ p[Head(line)] = "queued"
              /\ pc' = [p EXCEPT ![Head(line)] = "opening"]
              /\ at' = [a EXCEPT ![Head(line)] = b]
BY DEF DequeueNext

\* Requests go on to a known place, with a session or none.
LEMMA DequeueTypes ==
  ASSUME NEW p, NEW a, TypeOK, pool' \subseteq Sessions, DequeueNext(p, a),
         a \in [Requests -> Sessions \cup {None}],
         p \in [Requests -> Places]
  PROVE  pc' \in [Requests -> Places] /\ at' \in [Requests -> Sessions \cup {None}]
<1>1. Best' \subseteq Sessions
  BY DEF Best, ActiveSessions
<1>2. "opening" \in Places
  BY DEF Places
<1> QED BY <1>1, <1>2, DequeueMoves

\* The types are kept by every step.
LEMMA StepKeepsTypes ==
  ASSUME TypeOK, LockPassesOn, ReleasedOnce, Next
  PROVE  TypeOK'
<1> USE DEF Places
<1>00. UNCHANGED pinned
  BY DEF Next
<1> USE <1>00
<1>0. Best \subseteq Sessions
  BY PoolAssumption DEF Best, ActiveSessions, TypeOK
<1>1. ASSUME NEW st \in [Sessions -> {"starting", "active", "retiring", "closed"}], Grows(st)
      PROVE  /\ state' \in [Sessions -> {"starting", "active", "retiring", "closed"}]
             /\ pool' \subseteq Sessions /\ connecting' \subseteq Sessions /\ creating' \in BOOLEAN
  BY <1>1 DEF Grows, Unused, TypeOK
<1>2. ASSUME NEW r \in Requests, AcquirePage(r) PROVE TypeOK'
  <2>1. Grows(state)
    BY <1>2, CapacityGrows DEF AcquirePage
  <2> QED BY <1>1, <1>2, <2>1 DEF AcquirePage, Goto, TypeOK, pageVars
<1>3. ASSUME NEW r \in Requests, Refuse(r) \/ AcquireOneShot(r) PROVE TypeOK'
  <2>1. CASE Refuse(r)
    BY <2>1 DEF Refuse, Goto, TypeOK, pageVars, sessionVars
  <2>2. CASE AcquireOneShot(r)
    BY <2>2 DEF AcquireOneShot, Goto, TypeOK, pageVars, sessionVars
  <2> QED BY <1>3, <2>1, <2>2
<1>4. ASSUME NEW r \in Requests, DoAcquirePage(r) \/ Poll(r) PROVE TypeOK'
  <2>1. CASE Take(r)
    BY <1>0, <2>1 DEF Take, Goto, TypeOK, pageVars, sessionVars
  <2>2. CASE /\ pc' = [pc EXCEPT ![r] = "polling"]
             /\ UNCHANGED <<sessionVars, line, at, tries, pageVars, stage>>
    BY <2>2 DEF TypeOK, pageVars, sessionVars
  <2>3. CASE Creates(r)
    BY <1>1, <2>3 DEF Creates, Unused, TypeOK, pageVars
  <2> QED BY <1>4, <2>1, <2>2, <2>3, HeadMoves
<1>5. ASSUME NEW r \in Requests, QueueTimeout(r) \/ OpenFails(r) PROVE TypeOK'
  <2>1. line # <<>>
    BY <1>5 DEF QueueTimeout, OpenFails, LockPassesOn, TypeOK
  <2>2. AcquireFails(r) /\ line' = Tail(line) /\ UNCHANGED <<sessionVars, tries, pageVars, stage>>
    BY <1>5 DEF QueueTimeout, OpenFails
  <2> QED BY <2>1, <2>2 DEF AcquireFails, Goto, TypeOK, pageVars, sessionVars
<1>6. ASSUME NEW r \in Requests, OpenPage(r) PROVE TypeOK'
  <2>1. line # <<>>
    BY <1>6 DEF OpenPage, LockPassesOn, TypeOK
  <2>2. PICK st \in [Sessions -> {"starting", "active", "retiring", "closed"}] : Grows(st)
    BY <1>6, CapacityGrows DEF OpenPage, TypeOK
  <2> QED BY <1>1, <1>6, <2>1, <2>2 DEF OpenPage, Goto, TypeOK
<1>7. ASSUME NEW r \in Requests, OneShotOpens(r) \/ OneShotFails(r) PROVE TypeOK'
  BY <1>7 DEF OneShotOpens, OneShotFails, AcquireFails, Goto, TypeOK, pageVars, sessionVars
<1>8. ASSUME NEW r \in Requests, Succeed(r) \/ Fail(r) \/ AfterFailure(r) PROVE TypeOK'
  <2>1. Call(r, "owner") \in Release
    BY DEF Call, Release, TypeOK
  <2> QED BY <1>8, <2>1 DEF Succeed, Fail, AfterFailure, ReleasePage, Goto, TypeOK, sessionVars, pageVars
<1>9. ASSUME NEW b \in Sessions, SessionReady(b) PROVE TypeOK'
  <2> DEFINE p == [r \in Requests |-> IF pc[r] = "creating" /\ at[r] = b THEN "opening" ELSE pc[r]]
  <2>1. p \in [Requests -> Places] /\ pool' \subseteq Sessions
    BY <1>9 DEF SessionReady, TypeOK
  <2>2. pc' \in [Requests -> Places] /\ at' \in [Requests -> Sessions \cup {None}]
    BY <1>9, <2>1, DequeueTypes DEF SessionReady, TypeOK
  <2> QED BY <1>9, <2>2 DEF SessionReady, TypeOK, pageVars
<1>10. ASSUME NEW b \in Sessions, SessionFails(b) PROVE TypeOK'
  <2>1. line # <<>> => Head(line) \in Requests /\ Tail(line) \in Seq(Requests)
    BY DEF TypeOK
  <2> QED BY <1>10, <2>1 DEF SessionFails, Close, AcquireFails, Goto, TypeOK, pageVars
<1>11. ASSUME NEW b \in Sessions, Disconnected(b) PROVE TypeOK'
  <2> DEFINE a == [r \in Requests |-> IF at[r] = b THEN None ELSE at[r]]
  <2>1. a \in [Requests -> Sessions \cup {None}] /\ pool' \subseteq Sessions
    BY <1>11 DEF Disconnected, Close, TypeOK
  <2>2. pc' \in [Requests -> Places] /\ at' \in [Requests -> Sessions \cup {None}]
    BY <1>11, <2>1, DequeueTypes DEF Disconnected, TypeOK
  <2>3. releases' \subseteq Release
    <3>1. ASSUME NEW x \in releases
          PROVE  (IF x.at = b THEN [x EXCEPT !.at = None] ELSE x) \in Release
      BY DEF Release, TypeOK
    <3>2. releases' = {IF x.at = b THEN [x EXCEPT !.at = None] ELSE x : x \in releases}
      BY <1>11 DEF Disconnected
    <3> QED BY <3>1, <3>2
  <2> QED BY <1>11, <2>2, <2>3 DEF Disconnected, Close, TypeOK
<1>12. ASSUME NEW x \in releases PROVE Returned(x) \in [Requests -> Places]
  <2>1. CASE x.by = "owner"
    <3>1. x.of \in Requests /\ WhereTo(pc[x.of]) \in Places
      BY <2>1 DEF WhereTo, ReleasedOnce, Returning, Release, TypeOK
    <3> QED BY <2>1, <3>1 DEF Returned, TypeOK
  <2> QED BY <2>1 DEF Returned, TypeOK
<1>13. ASSUME NEW x \in releases, ContextClosed(x) PROVE TypeOK'
  <2>1. x \in Release /\ [x EXCEPT !.step = "reaping"] \in Release /\ x.at \in Sessions
    BY <1>13 DEF ContextClosed, Release, TypeOK
  <2>2. /\ state' \in [Sessions -> {"starting", "active", "retiring", "closed"}]
        /\ activePages' \in [Sessions -> Nat] /\ served' \in [Sessions -> Nat]
        /\ late' \in [Sessions -> Nat] /\ pool' \subseteq Sessions
    BY <1>13, <2>1 DEF ContextClosed, Close, TypeOK
  <2>3. releases' \subseteq Release
    <3>1. releases' \subseteq releases \cup {[x EXCEPT !.step = "reaping"]}
      BY <1>13 DEF ContextClosed
    <3> QED BY <2>1, <3>1 DEF TypeOK
  <2>4. pc' \in [Requests -> Places] /\ at' \in [Requests -> Sessions \cup {None}]
    <3>1. DequeueNext(Returned(x), at) \/ UNCHANGED <<pc, at>>
      BY <1>13 DEF ContextClosed
    <3>2. Returned(x) \in [Requests -> Places]
      BY <1>12
    <3> QED BY <2>2, <3>1, <3>2, DequeueTypes DEF TypeOK
  <2> QED BY <1>13, <2>2, <2>3, <2>4 DEF ContextClosed, TypeOK
<1>14. ASSUME NEW x \in releases, ReturnUncounted(x) \/ Reaped(x) PROVE TypeOK'
  <2>1. pc' \in [Requests -> Places] /\ at' \in [Requests -> Sessions \cup {None}]
    <3>1. CASE ReturnUncounted(x)
      BY <1>12, <3>1 DEF ReturnUncounted, TypeOK
    <3>2. CASE Reaped(x)
      BY <1>12, <3>2, DequeueTypes DEF Reaped, TypeOK, sessionVars
    <3> QED BY <1>14, <3>1, <3>2
  <2> QED BY <1>14, <2>1 DEF ReturnUncounted, Reaped, TypeOK, sessionVars
<1>15. CASE Maintenance
  <2>1. PICK old \in SUBSET ActiveSessions, stale \in SUBSET (handles \cap Slow) :
          \E idle \in SUBSET ActiveSessions : Maintain(old, idle, stale)
    BY <1>15 DEF Maintenance
  <2>2. \A r \in stale : Call(r, "pool") \in Release
    BY <2>1 DEF Call, Release, TypeOK
  <2> QED BY <1>15, <2>1, <2>2 DEF Maintain, Maintenance, requestVars, TypeOK
<1>16. CASE Shutdown
  <2>1. line # <<>> => Head(line) \in Requests /\ Tail(line) \in Seq(Requests)
    BY DEF TypeOK
  <2> QED BY <1>16, <2>1 DEF Shutdown, AcquireFails, Goto, TypeOK, pageVars
<1>17. CASE CloseAll
  BY <1>17 DEF CloseAll, Close, TypeOK, requestVars
<1> QED BY <1>2, <1>3, <1>4, <1>5, <1>6, <1>7, <1>8, <1>9, <1>10, <1>11, <1>13, <1>14,
           <1>15, <1>16, <1>17 DEF Next, Step, Acquire, Connect, Return

-----------------------------------------------------------------------------
(* The acquire lock. *)

\* A request that is not last in line when it takes a step stays in line, as do the others.
LEMMA LineStays ==
  ASSUME TypeOK, LineInv, TypeOK', line' = line,
         \A r \in Requests :
           /\ pc'[r] \in InLine <=> pc[r] \in InLine
           /\ pc'[r] \in First => pc[r] \in First \/ Holds(r)
           /\ pc'[r] = "creating" => at'[r] \in connecting'
  PROVE  LineInv'
<1>1. ASSUME NEW r \in Requests, pc[r] \in First
      PROVE  line # <<>> /\ Head(line) = r
  BY <1>1 DEF LineInv, LockPassesOn, First, TypeOK
<1>2. ASSUME NEW r \in Requests, pc'[r] \in First
      PROVE  Head(line) = r
  BY <1>1, <1>2 DEF Holds
<1> QED BY <1>2 DEF LineInv, LineOnce, LockPassesOn, InLine, First

\* The first in line leaves, and takes the lock with it to the next.
LEMMA LineAdvances ==
  ASSUME TypeOK, LineInv, NEW r \in Requests, pc[r] \in First,
         line' = Tail(line), pc'[r] \notin InLine,
         \A q \in Requests \ {r} : pc'[q] = pc[q]
  PROVE  LineInv'
<1>1. line # <<>> /\ line[1] = r /\ Head(line) = r
  BY DEF LineInv, LockPassesOn, First, TypeOK
<1>2. /\ Len(line') = Len(line) - 1
      /\ \A i \in DOMAIN line' : line'[i] = line[i + 1] /\ i + 1 \in DOMAIN line
  BY <1>1 DEF TypeOK
<1>0. line' \in Seq(Requests)
  BY <1>1 DEF TypeOK
<1>3. LineOnce'
  BY <1>2 DEF LineInv, LineOnce, TypeOK
<1>4. ASSUME NEW q \in Requests
      PROVE  (\E i \in DOMAIN line' : line'[i] = q) <=> q # r /\ \E i \in DOMAIN line : line[i] = q
  <2>1. ASSUME NEW i \in DOMAIN line', line'[i] = q
        PROVE  q # r /\ i + 1 \in DOMAIN line /\ line[i + 1] = q
    <3>1. i + 1 \in DOMAIN line /\ line[i + 1] = q
      BY <1>2, <2>1
    <3>2. 1 \in DOMAIN line /\ i \in Nat \ {0}
      BY <1>0, <1>1, <2>1 DEF TypeOK
    <3>3. i + 1 # 1
      BY <3>2
    <3> QED BY <1>1, <3>1, <3>2, <3>3 DEF LineInv, LineOnce
  <2>2. ASSUME q # r, NEW i \in DOMAIN line, line[i] = q
        PROVE  i - 1 \in DOMAIN line' /\ line'[i - 1] = q
    BY <1>1, <1>2, <2>2 DEF TypeOK
  <2> QED BY <2>1, <2>2
<1>5. \A q \in Requests \ {r} : pc[q] \notin First
  BY <1>1 DEF LineInv, LockPassesOn, First
<1>6. LockPassesOn'
  BY <1>4, <1>5 DEF LineInv, LockPassesOn, InLine, First
<1> QED BY <1>3, <1>6 DEF LineInv

\* What a queue that moves on leaves as it is.
LEMMA DequeueKeepsLine ==
  ASSUME NEW p, NEW a, TypeOK, LineInv, TypeOK', DequeueNext(p, a), line' = line,
         p \in [Requests -> Places],
         \A r \in Requests :
           /\ p[r] \in InLine <=> pc[r] \in InLine
           /\ p[r] \in First => pc[r] \in First \/ Holds(r)
           /\ p[r] = "creating" => a[r] \in connecting'
  PROVE  LineInv'
<1>1. CASE pc' = p /\ at' = a
  BY <1>1, LineStays
<1>2. ASSUME NEW b \in Best', line # <<>>, p[Head(line)] = "queued",
             pc' = [p EXCEPT ![Head(line)] = "opening"],
             at' = [a EXCEPT ![Head(line)] = b]
      PROVE  LineInv'
  <2>1. Head(line) \in Requests
    BY <1>2 DEF TypeOK
  <2>2. \A r \in Requests \ {Head(line)} : pc'[r] = p[r] /\ (p[r] = "creating" => at'[r] = a[r])
    <3>1. ASSUME NEW r \in Requests \ {Head(line)} PROVE p[r] # "creating"
      BY <3>1 DEF First, Holds, LineInv, LockPassesOn
    <3> QED BY <1>2, <3>1
  <2>3. pc'[Head(line)] = "opening"
    BY <1>2, <2>1
  <2>4. p[Head(line)] \in InLine /\ pc'[Head(line)] \in InLine /\ Holds(Head(line))
    BY <1>2, <2>3 DEF InLine, First, Holds
  <2> QED BY <1>2, <2>1, <2>2, <2>3, <2>4, LineStays
<1>3. pool' \subseteq Sessions
  BY DEF TypeOK
<1> QED BY <1>1, <1>2, <1>3, DequeueMoves

\* A release that returns sends its owner on, outside the line.
LEMMA ReturnsOutside ==
  ASSUME TypeOK, ReleasedOnce, NEW x \in releases
  PROVE  /\ Returned(x) \in [Requests -> Places]
         /\ \A r \in Requests :
              \/ Returned(x)[r] = pc[r]
              \/ /\ x.by = "owner" /\ r = x.of /\ pc[r] \in Returning
                 /\ Returned(x)[r] = WhereTo(pc[r])
                 /\ Returned(x)[r] \in {"done", "paused", "idle"}
<1>1. ASSUME x.by = "owner"
      PROVE  /\ x.of \in Requests /\ pc[x.of] \in Returning
             /\ WhereTo(pc[x.of]) \in {"done", "paused", "idle"}
  BY <1>1 DEF WhereTo, ReleasedOnce, Returning, Release, TypeOK
<1>2. CASE x.by = "owner"
  BY <1>1, <1>2 DEF Returned, TypeOK, Places
<1> QED BY <1>2 DEF Returned, TypeOK

\* The lock passes on with every step.
LEMMA StepKeepsLine ==
  ASSUME TypeOK, LineInv, SessionsPlaced, ReleasedOnce, Next
  PROVE  LineInv'
<1> USE DEF LineInv
<1>0. TypeOK'
  BY StepKeepsTypes
<1>1. \A r \in Requests : pc[r] = "creating" => at[r] \in connecting
  BY DEF LockPassesOn
<1>2. ASSUME NEW r \in Requests, AcquirePage(r) PROVE LineInv'
  <2>1. connecting \subseteq connecting'
    <3>1. Grows(state)
      BY <1>2, CapacityGrows DEF AcquirePage
    <3> QED BY <3>1 DEF Grows
  <2>2. pc[r] = "idle" /\ pc' = [pc EXCEPT ![r] = "line"] /\ line' = Append(line, r) /\ at' = at
    BY <1>2 DEF AcquirePage, Goto
  <2>3. \A i \in DOMAIN line : line[i] # r
    BY <2>2 DEF LockPassesOn
  <2>4. /\ Len(line') = Len(line) + 1 /\ line'[Len(line) + 1] = r
        /\ \A i \in DOMAIN line : line'[i] = line[i] /\ i \in DOMAIN line'
        /\ \A i \in DOMAIN line' : i \in DOMAIN line \/ i = Len(line) + 1
        /\ Len(line) + 1 \in DOMAIN line'
    BY <2>2 DEF TypeOK
  <2>5. LineOnce'
    BY <2>3, <2>4 DEF LineOnce
  <2>6. \A q \in Requests : (\E i \in DOMAIN line' : line'[i] = q)
                               <=> q = r \/ \E i \in DOMAIN line : line[i] = q
    BY <2>4
  <2>7. ASSUME NEW q \in Requests, pc'[q] \in First
        PROVE  Head(line') = q
    <3>1. pc[q] \in First
      BY <2>2, <2>7 DEF First, TypeOK
    <3>2. line # <<>> /\ Head(line) = q
      BY <3>1 DEF First, LockPassesOn, TypeOK
    <3> QED BY <2>2, <3>2 DEF TypeOK
  <2>8. LockPassesOn'
    BY <1>1, <2>1, <2>2, <2>6, <2>7 DEF LockPassesOn, First, TypeOK
  <2> QED BY <2>5, <2>8
<1>3. ASSUME NEW r \in Requests,
             Refuse(r) \/ AcquireOneShot(r) \/ OneShotOpens(r) \/ OneShotFails(r)
      PROVE  LineInv'
  <2>1. /\ pc[r] \in {"idle", "connecting"}
        /\ \E place \in {"idle", "done", "connecting", "using"} : pc' = [pc EXCEPT ![r] = place]
        /\ line' = line /\ connecting' = connecting /\ \A q \in Requests \ {r} : at'[q] = at[q]
    BY <1>3 DEF Refuse, AcquireOneShot, OneShotOpens, OneShotFails, AcquireFails, Goto, sessionVars, TypeOK
  <2> QED BY <1>0, <1>1, <2>1, LineStays DEF InLine, First, TypeOK
<1>4. ASSUME NEW r \in Requests, DoAcquirePage(r) \/ Poll(r) PROVE LineInv'
  <2>1. pc[r] \in {"line", "polling"} /\ line' = line /\ connecting \subseteq connecting' /\ Holds(r)
    <3>1. Creates(r) => connecting \subseteq connecting' /\ line' = line
      BY DEF Creates
    <3>2. pc[r] = "polling" => Holds(r)
      BY DEF LockPassesOn, Holds, TypeOK
    <3> QED BY <1>4, <3>1, <3>2, HeadMoves DEF Take, sessionVars
  <2>2. \E place \in First : /\ pc' = [pc EXCEPT ![r] = place]
                             /\ place = "creating" => at'[r] \in connecting'
    BY <1>4, HeadMoves DEF Take, Creates, Goto, First, TypeOK
  <2>3. \A q \in Requests \ {r} : at'[q] = at[q]
    <3>1. at' = at \/ \E b : at' = [at EXCEPT ![r] = b]
      BY <1>4, HeadMoves DEF Take, Creates
    <3> QED BY <3>1 DEF TypeOK
  <2>4. ASSUME NEW q \in Requests
        PROVE  /\ pc'[q] \in InLine <=> pc[q] \in InLine
               /\ pc'[q] \in First => pc[q] \in First \/ Holds(q)
               /\ pc'[q] = "creating" => at'[q] \in connecting'
    <3>1. CASE q = r
      BY <2>1, <2>2, <3>1 DEF InLine, First, TypeOK
    <3>2. CASE q # r
      BY <1>1, <2>1, <2>2, <2>3, <3>2 DEF TypeOK
    <3> QED BY <3>1, <3>2
  <2> QED BY <1>0, <2>1, <2>4, LineStays
<1>5. ASSUME NEW r \in Requests, QueueTimeout(r) \/ OpenFails(r) \/ OpenPage(r) PROVE LineInv'
  <2>1. /\ pc[r] \in First /\ line' = Tail(line)
        /\ \E place \in {"idle", "done", "using"} : pc' = [pc EXCEPT ![r] = place]
    BY <1>5 DEF QueueTimeout, OpenFails, OpenPage, AcquireFails, Goto, First
  <2> QED BY <2>1, LineAdvances DEF InLine, First, TypeOK
<1>6. ASSUME NEW r \in Requests, Succeed(r) \/ Fail(r) \/ AfterFailure(r) PROVE LineInv'
  <2>1. /\ pc[r] \in {"using", "paused"}
        /\ \E place \in Returning \cup {"done"} : pc' = [pc EXCEPT ![r] = place]
        /\ line' = line /\ connecting' = connecting /\ \A q \in Requests \ {r} : at'[q] = at[q]
    BY <1>6 DEF Succeed, Fail, AfterFailure, ReleasePage, Goto, sessionVars, Returning, TypeOK
  <2> QED BY <1>0, <1>1, <2>1, LineStays DEF InLine, First, Returning, TypeOK
<1>7. ASSUME NEW b \in Sessions, SessionReady(b) PROVE LineInv'
  <2> DEFINE p == [r \in Requests |-> IF pc[r] = "creating" /\ at[r] = b THEN "opening" ELSE pc[r]]
  <2>1. p \in [Requests -> Places]
    BY DEF Places, TypeOK
  <2>2. \A r \in Requests : /\ p[r] \in InLine <=> pc[r] \in InLine
                            /\ p[r] \in First => pc[r] \in First \/ Holds(r)
                            /\ p[r] = "creating" => at[r] \in connecting'
    BY <1>1, <1>7 DEF SessionReady, InLine, First
  <2>3. DequeueNext(p, at) /\ line' = line
    BY <1>7 DEF SessionReady
  <2> HIDE DEF p
  <2> QED BY <1>0, <2>1, <2>2, <2>3, DequeueKeepsLine
<1>8. ASSUME NEW b \in Sessions, SessionFails(b) PROVE LineInv'
  <2> DEFINE h == Head(line)
  <2>1. CASE line # <<>> /\ pc[h] = "creating" /\ at[h] = b
    <3>1. h \in Requests
      BY <2>1 DEF TypeOK
    <3>2. \E place \in {"idle", "done"} : pc' = [pc EXCEPT ![h] = place]
      BY <1>8, <2>1 DEF SessionFails, AcquireFails, Goto
    <3> QED BY <1>8, <2>1, <3>1, <3>2, LineAdvances DEF SessionFails, InLine, First, TypeOK
  <2>2. CASE ~ (line # <<>> /\ pc[h] = "creating" /\ at[h] = b)
    <3>1. line' = line /\ pc' = pc /\ at' = at /\ connecting' = connecting \ {b}
      BY <1>8, <2>2 DEF SessionFails
    <3>2. ASSUME NEW r \in Requests, pc[r] = "creating" PROVE at[r] \in connecting'
      <4>1. Head(line) = r /\ line # <<>>
        BY <3>2 DEF LockPassesOn, TypeOK
      <4> QED BY <1>1, <2>2, <3>1, <3>2, <4>1
    <3> QED BY <1>0, <3>1, <3>2, LineStays
  <2> QED BY <2>1, <2>2
<1>9. ASSUME NEW b \in Sessions, Disconnected(b) PROVE LineInv'
  <2> DEFINE a == [r \in Requests |-> IF at[r] = b THEN None ELSE at[r]]
  <2>1. /\ DequeueNext(pc, a) /\ line' = line /\ connecting' = connecting /\ b \in open
    BY <1>9 DEF Disconnected
  <2>2. \A r \in Requests : pc[r] = "creating" => a[r] \in connecting'
    BY <1>1, <2>1 DEF SessionsPlaced
  <2>3. pc \in [Requests -> Places]
    BY DEF TypeOK
  <2> HIDE DEF a
  <2> QED BY <1>0, <2>1, <2>2, <2>3, DequeueKeepsLine
<1>10. ASSUME NEW x \in releases, Return(x) PROVE LineInv'
  <2>1. /\ Returned(x) \in [Requests -> Places]
        /\ \A r \in Requests : /\ Returned(x)[r] \in InLine <=> pc[r] \in InLine
                               /\ Returned(x)[r] \in First => pc[r] \in First
                               /\ Returned(x)[r] = "creating" => at[r] \in connecting
    BY <1>1, ReturnsOutside DEF InLine, First, Returning
  <2>2. line' = line /\ connecting' = connecting
    BY <1>10 DEF Return, ContextClosed, ReturnUncounted, Reaped, sessionVars
  <2>3. CASE DequeueNext(Returned(x), at)
    BY <1>0, <2>1, <2>2, <2>3, DequeueKeepsLine
  <2>4. CASE pc' = Returned(x) /\ at' = at
    BY <1>0, <2>1, <2>2, <2>4, LineStays
  <2>5. CASE pc' = pc /\ at' = at
    BY <1>0, <1>1, <2>2, <2>5, LineStays
  <2>6. DequeueNext(Returned(x), at) \/ (pc' = Returned(x) /\ at' = at) \/ (pc' = pc /\ at' = at)
    BY <1>10 DEF Return, ContextClosed, ReturnUncounted, Reaped
  <2> QED BY <2>3, <2>4, <2>5, <2>6
<1>11. CASE Maintenance \/ CloseAll
  <2>1. line' = line /\ pc' = pc /\ at' = at /\ connecting' = connecting
    BY <1>11 DEF Maintenance, Maintain, CloseAll, requestVars
  <2> QED BY <1>0, <1>1, <2>1, LineStays
<1>12. CASE Shutdown
  <2> DEFINE h == Head(line)
  <2>1. CASE line # <<>> /\ pc[h] = "queued"
    <3>1. h \in Requests
      BY <2>1 DEF TypeOK
    <3>2. \E place \in {"idle", "done"} : pc' = [pc EXCEPT ![h] = place]
      BY <1>12, <2>1 DEF Shutdown, AcquireFails, Goto
    <3> QED BY <1>12, <2>1, <3>1, <3>2, LineAdvances DEF Shutdown, InLine, First, TypeOK
  <2>2. CASE ~ (line # <<>> /\ pc[h] = "queued")
    <3>1. line' = line /\ pc' = pc /\ at' = at /\ connecting' = connecting
      BY <1>12, <2>2 DEF Shutdown
    <3> QED BY <1>0, <1>1, <3>1, LineStays
  <2> QED BY <2>1, <2>2
<1> QED BY <1>2, <1>3, <1>4, <1>5, <1>6, <1>7, <1>8, <1>9, <1>10, <1>11, <1>12
        DEF Next, Step, Acquire, Connect

-----------------------------------------------------------------------------
(* Sessions and their pages. *)

\* Sessions keep their place when the map grows.
LEMMA GrowthKeepsSessions ==
  ASSUME TypeOK, SessionsPlaced, NEW st, Grows(st),
         st \in [Sessions -> {"starting", "active", "retiring", "closed"}],
         \A b \in Sessions : st[b] = state[b] \/ (b \notin connecting /\ st[b] = "retiring"),
         UNCHANGED <<activePages, late, open, stage>>
  PROVE  SessionsPlaced'
BY DEF Grows, Unused, SessionsPlaced, TypeOK

\* Sessions that are closed leave nothing counted.
LEMMA ClosingKeepsSessions ==
  ASSUME TypeOK, SessionsPlaced, NEW bs \in SUBSET Sessions, NEW n, NEW l, Close(bs, n, l),
         \A b \in Sessions : (n[b] = activePages[b] /\ l[b] = late[b])
                               \/ (b \in pool /\ b \notin connecting),
         \A b \in Sessions \ bs :
           (b \in connecting' <=> b \in connecting) /\ (b \in open' <=> b \in open),
         connecting' \subseteq connecting, open' \subseteq open,
         stage' = stage \/ stage' # "open"
  PROVE  SessionsPlaced'
BY DEF Close, SessionsPlaced, TypeOK

\* Every step keeps the sessions in their place.
LEMMA StepKeepsSessions ==
  ASSUME TypeOK, LineInv, SessionsPlaced, PagesPlaced, ReleasedOnce, Next
  PROVE  SessionsPlaced'
<1>1. ASSUME UNCHANGED <<state, pool, activePages, late, connecting, open, stage>>
      PROVE  SessionsPlaced'
  BY <1>1 DEF SessionsPlaced
<1>2. ASSUME NEW r \in Requests, AcquirePage(r) PROVE SessionsPlaced'
  <2>1. Grows(state)
    BY <1>2, CapacityGrows DEF AcquirePage
  <2> QED BY <1>2, <2>1, GrowthKeepsSessions DEF AcquirePage, TypeOK
<1>3. ASSUME NEW r \in Requests,
             \/ Refuse(r) \/ AcquireOneShot(r) \/ OneShotOpens(r) \/ OneShotFails(r)
             \/ QueueTimeout(r) \/ OpenFails(r) \/ Succeed(r) \/ Fail(r) \/ AfterFailure(r)
      PROVE  SessionsPlaced'
  BY <1>1, <1>3 DEF Refuse, AcquireOneShot, OneShotOpens, OneShotFails, QueueTimeout, OpenFails,
                    Succeed, Fail, AfterFailure, ReleasePage, sessionVars
<1>4. ASSUME NEW r \in Requests, DoAcquirePage(r) \/ Poll(r) PROVE SessionsPlaced'
  <2>1. CASE Creates(r) /\ Grows(state)
    BY <2>1, GrowthKeepsSessions DEF Creates, TypeOK
  <2>2. CASE UNCHANGED <<state, pool, connecting, activePages, late, open, stage>>
    BY <1>1, <2>2
  <2> QED BY <1>4, <2>1, <2>2, HeadMoves DEF Creates, Take, sessionVars
<1>5. ASSUME NEW r \in Requests, OpenPage(r) PROVE SessionsPlaced'
  <2> DEFINE b == at[r]
             n == IF b \in pool THEN [activePages EXCEPT ![b] = @ + 1] ELSE activePages
             retires == b \in pool /\ state[b] = "active" /\ served[b] + 1 >= RetireAfter
             st == IF retires THEN [state EXCEPT ![b] = "retiring"] ELSE state
  <2>1. b \in open /\ b \notin connecting /\ b \in Sessions
    BY <1>5 DEF OpenPage, SessionsPlaced, TypeOK
  <2>2. EnsureCapacity(st, n) /\ activePages' = n /\ UNCHANGED <<late, open, stage>>
    BY <1>5 DEF OpenPage
  <2>3. Grows(st)
    BY <2>2, CapacityGrows
  <2>4. /\ st \in [Sessions -> {"starting", "active", "retiring", "closed"}]
        /\ \A c \in Sessions : st[c] = state[c] \/ (c \notin connecting /\ st[c] = "retiring")
    BY <2>1 DEF TypeOK
  <2>5. \A c \in Sessions : n[c] = activePages[c] \/ (c \in pool /\ c \notin connecting)
    BY <2>1 DEF TypeOK
  <2> HIDE DEF st, n
  <2> QED BY <2>2, <2>3, <2>4, <2>5 DEF Grows, Unused, SessionsPlaced, TypeOK
<1>6. ASSUME NEW b \in Sessions, SessionReady(b) PROVE SessionsPlaced'
  BY <1>6 DEF SessionReady, SessionsPlaced, TypeOK
<1>7. ASSUME NEW b \in Sessions, SessionFails(b) PROVE SessionsPlaced'
  BY <1>7, ClosingKeepsSessions DEF SessionFails, SessionsPlaced
<1>8. ASSUME NEW b \in Sessions, Disconnected(b) PROVE SessionsPlaced'
  <2>1. b \notin connecting
    BY <1>8 DEF Disconnected, SessionsPlaced
  <2> QED BY <1>8, <2>1, ClosingKeepsSessions DEF Disconnected, SessionsPlaced
<1>9. ASSUME NEW x \in releases, ContextClosed(x) PROVE SessionsPlaced'
  <2> DEFINE n == [activePages EXCEPT ![x.at] = IF @ > 0 THEN @ - 1 ELSE 0]
             l == IF x.again THEN [late EXCEPT ![x.at] = @ + 1] ELSE late
             empty == {b \in {x.at} : state[b] = "retiring" /\ n[b] = 0}
  <2>1. /\ Close(empty, n, l)
        /\ UNCHANGED <<connecting, open, creating, line, tries, handles, stage>> /\ x.at \in pool
    BY <1>9 DEF ContextClosed
  <2>2. x.at \in Sessions /\ x.at \notin connecting
    BY <2>1, PoolAssumption DEF SessionsPlaced, PagesPlaced, TypeOK
  <2>3. empty \in SUBSET Sessions
    BY <2>2
  <2>4. \A b \in Sessions : (n[b] = activePages[b] /\ l[b] = late[b])
            \/ (b \in pool /\ b \notin connecting)
    BY <2>1, <2>2 DEF TypeOK
  <2> HIDE DEF empty, n, l
  <2> QED BY <2>1, <2>3, <2>4, ClosingKeepsSessions
<1>10. ASSUME NEW x \in releases, ReturnUncounted(x) \/ Reaped(x) PROVE SessionsPlaced'
  BY <1>1, <1>10 DEF ReturnUncounted, Reaped, sessionVars
<1>11. CASE Maintenance
  <2>1. PICK old \in SUBSET ActiveSessions, stale \in SUBSET (handles \cap Slow) :
          \E idle \in SUBSET ActiveSessions : Maintain(old, idle, stale)
    BY <1>11 DEF Maintenance
  <2>2. PICK idle \in SUBSET ActiveSessions : Maintain(old, idle, stale)
    BY <2>1
  <2> DEFINE retiring == old \cup idle \cup {b \in pool : state[b] = "retiring"}
             empty == {b \in retiring : activePages[b] = 0}
  <2>3. /\ stage = "open" /\ stage' = stage /\ pool' = pool \ empty
        /\ UNCHANGED <<activePages, connecting, open>>
    BY <1>11, <2>2 DEF Maintain, Maintenance
  <2>7. \A b \in Sessions : /\ state'[b] = IF b \in empty THEN "closed"
                                           ELSE IF b \in retiring THEN "retiring" ELSE state[b]
                            /\ late'[b] = IF b \in empty THEN 0 ELSE late[b]
    BY <2>2 DEF Maintain
  <2>4. retiring \cap connecting = {} /\ retiring \subseteq pool
    BY <2>3 DEF SessionsPlaced, ActiveSessions, TypeOK
  <2>5. \A b \in empty : activePages[b] = 0
    OBVIOUS
  <2> HIDE DEF empty, retiring
  <2>6. empty \subseteq retiring
    BY DEF empty
  <2> QED BY <2>3, <2>4, <2>5, <2>6, <2>7 DEF SessionsPlaced, TypeOK
<1>12. CASE Shutdown
  BY <1>12 DEF Shutdown, SessionsPlaced, TypeOK
<1>13. CASE CloseAll
  BY <1>13 DEF CloseAll, Close, SessionsPlaced, TypeOK
<1> QED BY <1>2, <1>3, <1>4, <1>5, <1>6, <1>7, <1>8, <1>9, <1>10, <1>11, <1>12, <1>13
        DEF Next, Step, Acquire, Connect, Return

\* A queue that moves on sends its head to a session that has room.
LEMMA DequeueKeepsPages ==
  ASSUME NEW p, NEW a, TypeOK, TypeOK', SessionsPlaced', DequeueNext(p, a),
         \A r \in handles' : p[r] = "using",
         \A x \in releases' : x.at \in open' \cup {None},
         p \in [Requests -> Places], a \in [Requests -> Sessions \cup {None}],
         \A r \in Requests :
           /\ p[r] \in {"idle", "connecting", "retrying"} => a[r] = None
           /\ p[r] \in Paged => a[r] \in open' \cup {None}
           /\ p[r] = "opening" /\ a[r] \in pool' => activePages'[a[r]] < MaxPages
  PROVE  PagesPlaced'
<1>1. CASE pc' = p /\ at' = a
  BY <1>1 DEF PagesPlaced
<1>2. ASSUME NEW b \in Best', line # <<>>, p[Head(line)] = "queued",
             pc' = [p EXCEPT ![Head(line)] = "opening"],
             at' = [a EXCEPT ![Head(line)] = b]
      PROVE  PagesPlaced'
  <2>1. b \in open' /\ activePages'[b] < MaxPages
    BY DEF Best, ActiveSessions, SessionsPlaced, TypeOK
  <2>2. Head(line) \in Requests /\ Head(line) \notin handles'
    BY <1>2 DEF TypeOK
  <2>3. pc'[Head(line)] = "opening" /\ at'[Head(line)] = b
    BY <1>2, <2>2
  <2>4. \A r \in Requests \ {Head(line)} : pc'[r] = p[r] /\ at'[r] = a[r]
    BY <1>2
  <2>5. handles' \subseteq Requests
    BY DEF TypeOK
  <2> QED BY <2>1, <2>2, <2>3, <2>4, <2>5 DEF PagesPlaced
<1>3. pool' \subseteq Sessions
  BY DEF TypeOK
<1> QED BY <1>1, <1>2, <1>3, DequeueMoves

\* Every step keeps the pages where their sessions are.
LEMMA StepKeepsPages ==
  ASSUME TypeOK, LineInv, SessionsPlaced, PagesPlaced, ReleasedOnce, Next
  PROVE  PagesPlaced'
<1>0. TypeOK' /\ SessionsPlaced'
  BY StepKeepsTypes, StepKeepsSessions DEF LineInv
<1>1. ASSUME NEW st, Grows(st)
      PROVE  \A s \in open : s \in pool' => s \in pool
  BY <1>1 DEF Grows, Unused
<1>2. ASSUME NEW r \in Requests, AcquirePage(r) PROVE PagesPlaced'
  <2>1. Grows(state)
    BY <1>2, CapacityGrows DEF AcquirePage
  <2>2. \A s \in open : s \in pool' => s \in pool
    BY <1>1, <1>2, <2>1 DEF AcquirePage
  <2>3. /\ pc[r] = "idle" /\ pc' = [pc EXCEPT ![r] = "line"]
        /\ UNCHANGED <<open, at, handles, releases, activePages>>
    BY <1>2 DEF AcquirePage, Goto, pageVars
  <2> QED BY <1>0, <2>2, <2>3, PoolAssumption DEF PagesPlaced, Paged, TypeOK
<1>3. ASSUME NEW r \in Requests, Refuse(r) PROVE PagesPlaced'
  BY <1>3 DEF Refuse, Goto, sessionVars, pageVars, PagesPlaced, Paged, TypeOK
<1>4. ASSUME NEW r \in Requests, AcquireOneShot(r) PROVE PagesPlaced'
  BY <1>4 DEF AcquireOneShot, Goto, sessionVars, pageVars, PagesPlaced, Paged, TypeOK
<1>5. ASSUME NEW r \in Requests, OneShotOpens(r) PROVE PagesPlaced'
  BY <1>5 DEF OneShotOpens, Goto, sessionVars, pageVars, PagesPlaced, Paged, TypeOK
<1>6. ASSUME NEW r \in Requests,
             pc[r] \in First \cup {"connecting"}, AcquireFails(r),
             UNCHANGED <<pool, activePages, open, handles, releases>>
      PROVE  PagesPlaced'
  <2>1. r \notin handles
    BY <1>6 DEF PagesPlaced, First
  <2>2. PICK place \in {"idle", "done"} : pc' = [pc EXCEPT ![r] = place]
    BY <1>6 DEF AcquireFails, Goto
  <2>3. at' = [at EXCEPT ![r] = None]
    BY <1>6 DEF AcquireFails
  <2> QED BY <1>6, <2>1, <2>2, <2>3 DEF PagesPlaced, Paged, TypeOK
<1>7. ASSUME NEW r \in Requests, QueueTimeout(r) \/ OpenFails(r) \/ OneShotFails(r) PROVE PagesPlaced'
  BY <1>6, <1>7 DEF QueueTimeout, OpenFails, OneShotFails, sessionVars, pageVars, First
<1>8. ASSUME NEW r \in Requests, DoAcquirePage(r) \/ Poll(r) PROVE PagesPlaced'
  <2>0. pc[r] \in {"line", "polling"} /\ r \notin handles
    BY <1>8, HeadMoves DEF PagesPlaced
  <2>1. CASE Take(r)
    <3>1. PICK b \in Best : at' = [at EXCEPT ![r] = b]
      BY <2>1 DEF Take
    <3>2. b \in open /\ activePages[b] < MaxPages
      BY DEF Best, ActiveSessions, SessionsPlaced, TypeOK
    <3> QED BY <2>0, <2>1, <3>1, <3>2 DEF Take, Goto, sessionVars, pageVars, PagesPlaced, Paged, TypeOK
  <2>2. CASE /\ pc' = [pc EXCEPT ![r] = "polling"]
             /\ UNCHANGED <<sessionVars, line, at, tries, pageVars, stage>>
    BY <2>0, <2>2 DEF sessionVars, pageVars, PagesPlaced, Paged, TypeOK
  <2>3. CASE Creates(r) /\ pc' = [pc EXCEPT ![r] = "creating"]
    <3>1. PICK c \in Unused : pool' = pool \cup {c} /\ at' = [at EXCEPT ![r] = c]
      BY <2>0, <2>3 DEF Creates, TypeOK
    <3>2. c \notin open
      BY DEF Unused
    <3>3. UNCHANGED <<activePages, open, handles, releases>>
      BY <2>3 DEF Creates, pageVars
    <3>4. ASSUME NEW q \in Requests \ {r}
          PROVE  pc'[q] = pc[q] /\ at'[q] = at[q]
      BY <2>3, <3>1
    <3> QED BY <2>0, <2>3, <3>1, <3>2, <3>3, <3>4, PoolAssumption DEF PagesPlaced, Paged, TypeOK, Unused
  <2>4. CASE Creates(r) /\ pc' = [pc EXCEPT ![r] = "queued"] /\ UNCHANGED <<pool, at>>
    BY <2>0, <2>4 DEF Creates, pageVars, PagesPlaced, Paged, TypeOK
  <2> QED BY <1>8, <2>1, <2>2, <2>3, <2>4, HeadMoves DEF Creates
<1>9. ASSUME NEW r \in Requests, OpenPage(r) PROVE PagesPlaced'
  <2>1. /\ pc[r] = "opening" /\ at[r] \in open /\ handles' = handles \cup {r}
        /\ pc' = [pc EXCEPT ![r] = "using"] /\ UNCHANGED <<at, open, releases>>
    BY <1>9 DEF OpenPage, Goto
  <2>2. \A q \in Requests \ {r} : pc'[q] = pc[q] /\ pc[q] # "opening"
    BY <2>1 DEF LineInv, LockPassesOn
  <2> QED BY <2>1, <2>2 DEF PagesPlaced, Paged, TypeOK
<1>10. ASSUME NEW r \in Requests, Succeed(r) \/ Fail(r) \/ AfterFailure(r) PROVE PagesPlaced'
  <2>1. CASE /\ pc[r] = "paused" /\ Goto(r, "done") /\ at' = [at EXCEPT ![r] = None]
             /\ UNCHANGED <<sessionVars, line, tries, pageVars, stage>>
    BY <2>1 DEF Goto, sessionVars, pageVars, PagesPlaced, Paged, TypeOK
  <2>2. ASSUME NEW place \in Returning, ReleasePage(r, place), pc[r] \in {"using", "paused"},
               pc[r] = "paused" => place # "failing"
        PROVE  PagesPlaced'
    <3>1. Call(r, "owner").at = at[r]
      BY DEF Call
    <3>2. at[r] \in open \cup {None}
      BY <2>2 DEF PagesPlaced, Paged
    <3> QED BY <2>2, <3>1, <3>2 DEF ReleasePage, Goto, Returning, sessionVars, PagesPlaced, Paged, TypeOK
  <2> QED BY <1>10, <2>1, <2>2 DEF Succeed, Fail, AfterFailure, Returning
<1>11. ASSUME NEW b \in Sessions, SessionReady(b) PROVE PagesPlaced'
  <2> DEFINE p == [r \in Requests |-> IF pc[r] = "creating" /\ at[r] = b THEN "opening" ELSE pc[r]]
  <2>1. /\ b \in connecting /\ open' = open \cup {b} /\ DequeueNext(p, at)
        /\ UNCHANGED <<pool, activePages, handles, releases>>
    BY <1>11 DEF SessionReady, pageVars
  <2>2. p \in [Requests -> Places] /\ at \in [Requests -> Sessions \cup {None}]
    BY DEF Places, TypeOK
  <2>3. activePages[b] < MaxPages
    BY <2>1, PoolAssumption DEF SessionsPlaced
  <2>4. \A r \in handles' : p[r] = "using"
    BY <2>1 DEF PagesPlaced, TypeOK
  <2>5. ASSUME NEW r \in Requests
        PROVE  /\ p[r] \in {"idle", "connecting", "retrying"} => at[r] = None
               /\ p[r] \in Paged => at[r] \in open' \cup {None}
               /\ p[r] = "opening" /\ at[r] \in pool' => activePages'[at[r]] < MaxPages
    <3>1. CASE pc[r] = "creating" /\ at[r] = b
      BY <2>1, <2>3, <3>1
    <3>2. CASE ~ (pc[r] = "creating" /\ at[r] = b)
      BY <2>1, <3>2 DEF PagesPlaced
    <3> QED BY <3>1, <3>2
  <2>6. \A x \in releases' : x.at \in open' \cup {None}
    BY <2>1 DEF PagesPlaced
  <2> HIDE DEF p
  <2> QED BY <1>0, <2>1, <2>2, <2>4, <2>5, <2>6, DequeueKeepsPages
<1>12. ASSUME NEW b \in Sessions, SessionFails(b) PROVE PagesPlaced'
  <2>1. /\ pool' = pool \ {b} /\ UNCHANGED <<open, handles, releases>>
        /\ \A c \in Sessions \ {b} : activePages'[c] = activePages[c]
    BY <1>12 DEF SessionFails, Close, pageVars
  <2>2. ASSUME line # <<>>, pc[Head(line)] = "creating", AcquireFails(Head(line))
        PROVE  PagesPlaced'
    <3>1. PICK h \in Requests : h = Head(line)
      BY <2>2 DEF TypeOK
    <3>2. PICK place \in {"idle", "done"} : pc' = [pc EXCEPT ![h] = place]
      BY <2>2, <3>1 DEF AcquireFails, Goto
    <3>3. at' = [at EXCEPT ![h] = None] /\ pc[h] = "creating"
      BY <2>2, <3>1 DEF AcquireFails
    <3> QED BY <2>1, <3>2, <3>3 DEF PagesPlaced, Paged, TypeOK
  <2>3. CASE UNCHANGED <<line, pc, at>>
    BY <2>1, <2>3 DEF PagesPlaced, Paged, TypeOK
  <2> QED BY <1>12, <2>2, <2>3 DEF SessionFails
<1>13. ASSUME NEW b \in Sessions, Disconnected(b) PROVE PagesPlaced'
  <2> DEFINE a == [r \in Requests |-> IF at[r] = b THEN None ELSE at[r]]
  <2>1. /\ pool' = pool \ {b} /\ open' = open \ {b} /\ DequeueNext(pc, a)
        /\ handles' \subseteq handles
        /\ \A c \in Sessions \ {b} : activePages'[c] = activePages[c]
    BY <1>13 DEF Disconnected, Close
  <2>2. pc \in [Requests -> Places] /\ a \in [Requests -> Sessions \cup {None}]
    BY DEF TypeOK
  <2>3. \A r \in Requests : a[r] = IF at[r] = b THEN None ELSE at[r]
    OBVIOUS
  <2>4. ASSUME NEW x \in releases' PROVE x.at \in open' \cup {None}
    <3>1. PICK y \in releases : x = IF y.at = b THEN [y EXCEPT !.at = None] ELSE y
      BY <1>13, <2>4 DEF Disconnected
    <3> QED BY <2>1, <3>1 DEF PagesPlaced, TypeOK, Release
  <2> HIDE DEF a
  <2>5. \A r \in handles' : pc[r] = "using"
    BY <2>1 DEF PagesPlaced
  <2>6. \A r \in Requests :
          /\ pc[r] \in {"idle", "connecting", "retrying"} => a[r] = None
          /\ pc[r] \in Paged => a[r] \in open' \cup {None}
          /\ pc[r] = "opening" /\ a[r] \in pool' => activePages'[a[r]] < MaxPages
    <3> TAKE r \in Requests
    <3>1. pc[r] \in {"idle", "connecting", "retrying"} => a[r] = None
      BY <2>1, <2>3, PoolAssumption DEF PagesPlaced
    <3>2. pc[r] \in Paged => a[r] \in open' \cup {None}
      BY <2>1, <2>3 DEF PagesPlaced
    <3>3. ASSUME pc[r] = "opening", a[r] \in pool' PROVE activePages'[a[r]] < MaxPages
      <4>1. a[r] \in Sessions \ {b} /\ a[r] \in pool /\ None \notin Sessions
        BY <2>1, <3>3, PoolAssumption DEF TypeOK
      <4>2. a[r] = at[r]
        BY <2>3, <4>1
      <4>3. activePages[at[r]] < MaxPages
        BY <3>3, <4>1, <4>2 DEF PagesPlaced
      <4> QED BY <2>1, <4>1, <4>2, <4>3
    <3> QED BY <3>1, <3>2, <3>3
  <2> QED BY <1>0, <2>1, <2>2, <2>4, <2>5, <2>6, DequeueKeepsPages
<1>14. ASSUME NEW x \in releases, Return(x) PROVE PagesPlaced'
  <2>1. /\ pool' \subseteq pool /\ UNCHANGED <<open, handles>>
        /\ \A c \in pool' : activePages'[c] <= activePages[c]
        /\ \A y \in releases' : \E z \in releases : y.at = z.at
    <3>1. CASE ContextClosed(x)
      <4>1. x.at \in Sessions /\ x \in Release
        BY <3>1 DEF ContextClosed, TypeOK
      <4>2. \A c \in pool' : activePages'[c] <= activePages[c]
        BY <3>1, <4>1 DEF ContextClosed, Close, TypeOK
      <4> QED BY <3>1, <4>1, <4>2 DEF ContextClosed, Close, Release
    <3>2. CASE ReturnUncounted(x) \/ Reaped(x)
      BY <3>2 DEF ReturnUncounted, Reaped, sessionVars, TypeOK
    <3> QED BY <1>14, <3>1, <3>2 DEF Return
  <2>2. /\ Returned(x) \in [Requests -> Places]
        /\ \A r \in Requests :
             \/ Returned(x)[r] = pc[r]
             \/ /\ pc[r] \in Returning /\ Returned(x)[r] = WhereTo(pc[r])
                /\ Returned(x)[r] \in {"done", "paused", "idle"}
    BY ReturnsOutside
  <2>3. \A y \in releases' : y.at \in open' \cup {None}
    BY <2>1 DEF PagesPlaced
  <2>4. ASSUME NEW r \in Requests
        PROVE  /\ r \in handles => Returned(x)[r] = "using"
               /\ Returned(x)[r] \in {"idle", "connecting", "retrying"} => at[r] = None
               /\ Returned(x)[r] \in Paged => at[r] \in open \cup {None}
               /\ Returned(x)[r] = "opening" => pc[r] = "opening"
    <3>1. CASE Returned(x)[r] = pc[r]
      BY <3>1 DEF PagesPlaced
    <3>2. CASE /\ pc[r] \in Returning /\ Returned(x)[r] = WhereTo(pc[r])
               /\ Returned(x)[r] \in {"done", "paused", "idle"}
      BY <3>2 DEF PagesPlaced, WhereTo, Returning, Paged
    <3> QED BY <2>2, <3>1, <3>2
  <2>5. \A r \in Requests :
          Returned(x)[r] = "opening" /\ at[r] \in pool' => activePages'[at[r]] < MaxPages
    BY <1>0, <2>1, <2>4, PoolAssumption DEF PagesPlaced, TypeOK
  <2>6. CASE DequeueNext(Returned(x), at)
    BY <1>0, <2>1, <2>2, <2>3, <2>4, <2>5, <2>6, DequeueKeepsPages DEF TypeOK
  <2>7. CASE pc' = Returned(x) /\ at' = at
    BY <2>1, <2>3, <2>4, <2>5, <2>7 DEF PagesPlaced, TypeOK
  <2>8. CASE pc' = pc /\ at' = at
    BY <1>0, <2>1, <2>3, <2>8, PoolAssumption DEF PagesPlaced, TypeOK
  <2>9. DequeueNext(Returned(x), at) \/ (pc' = Returned(x) /\ at' = at) \/ (pc' = pc /\ at' = at)
    BY <1>14 DEF Return, ContextClosed, ReturnUncounted, Reaped
  <2> QED BY <2>6, <2>7, <2>8, <2>9
<1>15. CASE Maintenance
  <2>1. PICK old \in SUBSET ActiveSessions, stale \in SUBSET (handles \cap Slow) :
          \E idle \in SUBSET ActiveSessions : Maintain(old, idle, stale)
    BY <1>15 DEF Maintenance
  <2>2. /\ pool' \subseteq pool /\ UNCHANGED <<activePages, open, pc, at>>
        /\ handles' = handles \ stale /\ releases' = releases \cup {Call(r, "pool") : r \in stale}
    BY <2>1 DEF Maintain, requestVars
  <2>3. \A r \in stale : Call(r, "pool").at = at[r] /\ at[r] \in open \cup {None}
    BY DEF Call, PagesPlaced, Paged, TypeOK
  <2>4. ASSUME NEW x \in releases' PROVE x.at \in open \cup {None}
    BY <2>2, <2>3, <2>4 DEF PagesPlaced
  <2> QED BY <2>2, <2>4 DEF PagesPlaced, TypeOK
<1>16. CASE Shutdown
  <2>1. UNCHANGED <<pool, activePages, open, handles, releases>>
    BY <1>16 DEF Shutdown, pageVars
  <2>2. CASE line # <<>> /\ pc[Head(line)] = "queued"
    <3>1. PICK h \in Requests : h = Head(line)
      BY <2>2 DEF TypeOK
    <3> QED BY <1>6, <1>16, <2>1, <2>2, <3>1 DEF Shutdown, First
  <2>3. CASE UNCHANGED <<line, pc, at>>
    BY <2>1, <2>3 DEF PagesPlaced
  <2> QED BY <1>16, <2>2, <2>3 DEF Shutdown
<1>17. CASE CloseAll
  BY <1>17 DEF CloseAll, Close, requestVars, PagesPlaced
<1> QED BY <1>2, <1>3, <1>4, <1>5, <1>7, <1>8, <1>9, <1>10, <1>11, <1>12, <1>13, <1>14,
           <1>15, <1>16, <1>17 DEF Next, Step, Acquire, Connect
-----------------------------------------------------------------------------
(* Giving pages back. *)

\* Where a request has, or is about to get, a page of its current attempt.
Using(r) == r \in handles \/ pc[r] \in InLine \cup {"connecting"}

\* No release is new, and no page is given again without another attempt.
LEMMA ReleasesStay ==
  ASSUME TypeOK, TypeOK', ReleasedOnce, releases' \subseteq releases,
         \A r \in Requests :
           /\ tries'[r] >= tries[r]
           /\ pc[r] \in Returning /\ pc'[r] \notin Returning =>
                \A x \in releases' : x.by = "owner" => x.of # r
           /\ Using(r)' => Using(r) \/ tries'[r] > tries[r]
  PROVE  ReleasedOnce'
<1>1. IsFiniteSet(releases')
  BY FS_Subset DEF ReleasedOnce
<1>2. ASSUME NEW x \in releases'
      PROVE  /\ x.try <= tries'[x.of]
             /\ x.by = "owner" => pc'[x.of] \in Returning
             /\ x.by = "pool" /\ x.try = tries'[x.of] =>
                  x.of \notin handles' /\ pc'[x.of] \notin InLine \cup {"connecting"}
  <2>1. x \in releases /\ x.of \in Requests /\ x.try \in Nat
    BY DEF TypeOK, Release
  <2>2. tries[x.of] \in Nat /\ tries'[x.of] \in Nat
    BY <2>1 DEF TypeOK
  <2> QED BY <2>1, <2>2 DEF ReleasedOnce, Using
<1>3. \A x, y \in releases' : x.by = "owner" /\ y.by = "owner" /\ x.of = y.of => x = y
  BY DEF ReleasedOnce
<1> QED BY <1>1, <1>2, <1>3 DEF ReleasedOnce

\* The head of a queue that moves on was in line already.
LEMMA DequeueStaysInLine ==
  ASSUME NEW p, NEW a, TypeOK, pool' \subseteq Sessions, DequeueNext(p, a),
         p \in [Requests -> Places]
  PROVE  \A r \in Requests :
           \/ pc'[r] = p[r]
           \/ p[r] = "queued" /\ pc'[r] = "opening"
<1>1. line # <<>> => Head(line) \in Requests
  BY DEF TypeOK
<1> QED BY <1>1, DequeueMoves

\* Every step keeps the releases apart.
LEMMA StepKeepsReleases ==
  ASSUME TypeOK, LineInv, SessionsPlaced, PagesPlaced, ReleasedOnce, Next
  PROVE  ReleasedOnce'
<1>0. TypeOK' /\ \A r \in Requests : tries[r] >= tries[r] /\ tries[r] + 1 > tries[r]
  BY StepKeepsTypes DEF LineInv, TypeOK
<1>1. ASSUME NEW r \in Requests, AcquirePage(r) \/ AcquireOneShot(r) PROVE ReleasedOnce'
  <2>1. /\ pc[r] = "idle" /\ tries' = [tries EXCEPT ![r] = @ + 1]
        /\ UNCHANGED <<handles, releases>>
        /\ \E place \in {"line", "connecting"} : pc' = [pc EXCEPT ![r] = place]
    BY <1>1 DEF AcquirePage, AcquireOneShot, Goto, pageVars
  <2>2. \A q \in Requests : tries'[q] = IF q = r THEN tries[q] + 1 ELSE tries[q]
    BY <2>1 DEF TypeOK
  <2>3. \A q \in Requests : /\ pc[q] \in Returning => q # r
                            /\ q # r => pc'[q] = pc[q]
    BY <2>1 DEF Returning, TypeOK
  <2>4. ASSUME NEW q \in Requests
        PROVE  /\ tries'[q] >= tries[q]
               /\ pc[q] \in Returning => pc'[q] \in Returning
               /\ Using(q)' => Using(q) \/ tries'[q] > tries[q]
    <3>1. CASE q = r
      <4>1. tries'[q] = tries[q] + 1 /\ pc[q] \notin Returning
        BY <2>2, <2>3, <3>1
      <4>2. tries[q] \in Nat
        BY DEF TypeOK
      <4>3. tries'[q] > tries[q] /\ tries'[q] >= tries[q]
        BY <4>1, <4>2
      <4> QED BY <4>1, <4>3
    <3>2. CASE q # r
      <4>1. tries'[q] = tries[q] /\ pc'[q] = pc[q] /\ handles' = handles
        BY <2>1, <2>2, <2>3, <3>2
      <4> QED BY <1>0, <4>1 DEF Using
    <3> QED BY <3>1, <3>2
  <2> QED BY <1>0, <2>1, <2>4, ReleasesStay
<1>2. ASSUME NEW r \in Requests,
             \/ Refuse(r) \/ OneShotOpens(r) \/ OneShotFails(r)
             \/ QueueTimeout(r) \/ OpenFails(r) \/ OpenPage(r)
      PROVE  ReleasedOnce'
  <2>1. /\ pc[r] = "idle" \/ Using(r)
        /\ UNCHANGED <<tries, releases>>
        /\ \/ /\ \E place \in {"done", "idle"} : pc' = [pc EXCEPT ![r] = place]
              /\ handles' = handles
           \/ /\ Using(r) /\ pc' = [pc EXCEPT ![r] = "using"]
              /\ handles' = handles \cup {r}
    BY <1>2 DEF Refuse, OneShotOpens, OneShotFails, QueueTimeout, OpenFails, OpenPage, AcquireFails,
                Goto, pageVars, Using, InLine, First
  <2>2. pc[r] \notin Returning
    <3>1. ASSUME r \in handles PROVE pc[r] = "using"
      BY <3>1 DEF PagesPlaced
    <3> QED BY <2>1, <3>1 DEF Using, Returning, InLine, First
  <2>3. ASSUME NEW q \in Requests, Using(q)'
        PROVE  Using(q)
    BY <2>1, <2>3 DEF Using, InLine, First, TypeOK
  <2> QED BY <1>0, <2>1, <2>2, <2>3, ReleasesStay DEF TypeOK
<1>3. ASSUME NEW r \in Requests, DoAcquirePage(r) \/ Poll(r) PROVE ReleasedOnce'
  <2>1. /\ pc[r] \in InLine \ Returning
        /\ \E place \in First : pc' = [pc EXCEPT ![r] = place]
        /\ UNCHANGED <<tries, handles, releases>>
    BY <1>3, HeadMoves DEF Take, Creates, Goto, pageVars, InLine, First, Returning
  <2>2. ASSUME NEW q \in Requests, Using(q)'
        PROVE  Using(q)
    BY <2>1, <2>2 DEF Using, TypeOK
  <2> QED BY <1>0, <2>1, <2>2, ReleasesStay DEF TypeOK
<1>4. ASSUME NEW r \in Requests, Succeed(r) \/ Fail(r) \/ AfterFailure(r) PROVE ReleasedOnce'
  <2>1. CASE /\ pc[r] = "paused" /\ Goto(r, "done")
             /\ UNCHANGED <<sessionVars, line, tries, pageVars, stage>>
    <3>1. UNCHANGED <<tries, releases, handles>> /\ pc' = [pc EXCEPT ![r] = "done"]
      BY <2>1 DEF Goto, pageVars
    <3>2. \A q \in Requests : Using(q)' => Using(q)
      BY <3>1 DEF Using, InLine, First, TypeOK
    <3> QED BY <1>0, <2>1, <3>1, <3>2, ReleasesStay DEF TypeOK, Returning
  <2>2. ASSUME NEW place \in Returning, ReleasePage(r, place), pc[r] \in {"using", "paused"}
        PROVE  ReleasedOnce'
    <3> DEFINE x == Call(r, "owner")
    <3>1. /\ handles' = handles \ {r} /\ releases' = releases \cup {x}
          /\ pc' = [pc EXCEPT ![r] = place] /\ tries' = tries
      BY <2>2 DEF ReleasePage, Goto
    <3>2. x.of = r /\ x.by = "owner" /\ x.try = tries[r]
      BY DEF Call
    <3> HIDE DEF x
    <3>3. IsFiniteSet(releases')
      BY <3>1, FS_AddElement DEF ReleasedOnce
    <3>4. \A y \in releases : y.by = "owner" => y.of # r
      BY <2>2 DEF ReleasedOnce, Returning
    <3>5. ASSUME NEW y \in releases
          PROVE  /\ y.try <= tries'[y.of]
                 /\ y.by = "owner" => pc'[y.of] \in Returning
                 /\ y.by = "pool" /\ y.try = tries'[y.of] =>
                      y.of \notin handles' /\ pc'[y.of] \notin InLine \cup {"connecting"}
      <4>1. y.of \in Requests
        BY DEF TypeOK, Release
      <4> QED BY <2>2, <3>1, <4>1 DEF ReleasedOnce, Returning, InLine, First, TypeOK
    <3>6. x.try <= tries'[x.of] /\ pc'[x.of] \in Returning
      BY <1>0, <2>2, <3>1, <3>2 DEF TypeOK
    <3>7. \A y, z \in releases' : y.by = "owner" /\ z.by = "owner" /\ y.of = z.of => y = z
      BY <3>1, <3>2, <3>4 DEF ReleasedOnce
    <3> QED BY <3>1, <3>2, <3>3, <3>5, <3>6, <3>7 DEF ReleasedOnce
  <2> QED BY <1>4, <2>1, <2>2 DEF Succeed, Fail, AfterFailure, Returning
<1>5. ASSUME NEW b \in Sessions, SessionReady(b) PROVE ReleasedOnce'
  <2> DEFINE p == [r \in Requests |-> IF pc[r] = "creating" /\ at[r] = b THEN "opening" ELSE pc[r]]
  <2>1. DequeueNext(p, at) /\ UNCHANGED <<pool, tries, handles, releases>>
    BY <1>5 DEF SessionReady, pageVars
  <2>2. p \in [Requests -> Places] /\ pool' \subseteq Sessions
    BY <2>1 DEF Places, TypeOK
  <2>3. \A r \in Requests : p[r] = pc[r] \/ (pc[r] = "creating" /\ p[r] = "opening")
    OBVIOUS
  <2> HIDE DEF p
  <2>4. \A r \in Requests : \/ pc'[r] = pc[r]
                            \/ pc[r] \in First /\ pc'[r] \in First
    BY <2>1, <2>2, <2>3, DequeueStaysInLine DEF First
  <2>5. \A r \in Requests : Using(r)' => Using(r)
    BY <2>1, <2>4 DEF Using, InLine
  <2> QED BY <1>0, <2>1, <2>4, <2>5, ReleasesStay DEF TypeOK, Returning, First
<1>6. CASE \/ \E b \in Sessions : SessionFails(b)
           \/ Shutdown
  <2>1. UNCHANGED <<tries, handles, releases>>
    BY <1>6 DEF SessionFails, Shutdown, pageVars
  <2>2. \A r \in Requests : pc'[r] = pc[r] \/ (pc[r] \in First /\ pc'[r] \in {"idle", "done"})
    BY <1>6 DEF SessionFails, Shutdown, AcquireFails, Goto, First, TypeOK
  <2>3. \A r \in Requests : Using(r)' => Using(r)
    BY <2>1, <2>2 DEF Using, InLine, First
  <2> QED BY <1>0, <2>1, <2>2, <2>3, ReleasesStay DEF TypeOK, Returning, First
<1>7. ASSUME NEW b \in Sessions, Disconnected(b) PROVE ReleasedOnce'
  <2> DEFINE a == [r \in Requests |-> IF at[r] = b THEN None ELSE at[r]]
             drop == [x \in releases |-> IF x.at = b THEN [x EXCEPT !.at = None] ELSE x]
  <2>1. /\ DequeueNext(pc, a) /\ handles' \subseteq handles /\ tries' = tries
        /\ releases' = {drop[x] : x \in releases} /\ pool' \subseteq Sessions
    BY <1>7 DEF Disconnected, Close, TypeOK
  <2>2. \A r \in Requests : pc'[r] = pc[r] \/ (pc[r] = "queued" /\ pc'[r] = "opening")
    BY <2>1, DequeueStaysInLine DEF TypeOK
  <2>3. \A x \in releases : /\ drop[x].of = x.of /\ drop[x].by = x.by /\ drop[x].try = x.try
    BY DEF TypeOK, Release
  <2> HIDE DEF drop
  <2>4. IsFiniteSet(releases')
    <3>1. drop \in Surjection(releases, releases')
      BY <2>1 DEF Surjection, drop
    <3> QED BY <3>1, FS_Surjection DEF ReleasedOnce
  <2>5. ASSUME NEW x \in releases
        PROVE  /\ x.try <= tries'[x.of]
               /\ x.by = "owner" => pc'[x.of] \in Returning
               /\ x.by = "pool" /\ x.try = tries'[x.of] =>
                    x.of \notin handles' /\ pc'[x.of] \notin InLine \cup {"connecting"}
    <3>1. x.of \in Requests
      BY DEF TypeOK, Release
    <3> QED BY <2>1, <2>2, <3>1 DEF ReleasedOnce, Returning, InLine, First
  <2>6. ASSUME NEW x \in releases, NEW y \in releases,
               drop[x].by = "owner", drop[y].by = "owner", drop[x].of = drop[y].of
        PROVE  drop[x] = drop[y]
    BY <2>3, <2>6 DEF ReleasedOnce
  <2> QED BY <2>1, <2>3, <2>4, <2>5, <2>6 DEF ReleasedOnce
<1>8. ASSUME NEW x \in releases, Return(x) PROVE ReleasedOnce'
  <2>1. UNCHANGED <<tries, handles>> /\ pool' \subseteq Sessions
    BY <1>8 DEF Return, ContextClosed, ReturnUncounted, Reaped, Close, sessionVars, TypeOK
  <2>2. /\ Returned(x) \in [Requests -> Places]
        /\ \A r \in Requests :
             \/ Returned(x)[r] = pc[r]
             \/ /\ x.by = "owner" /\ r = x.of /\ pc[r] \in Returning
                /\ Returned(x)[r] \in {"done", "paused", "idle"}
    BY ReturnsOutside
  <2>3. CASE releases' = releases \ {x}
    <3>1. \/ DequeueNext(Returned(x), at)
          \/ pc' = Returned(x)
          \/ pc' = pc
      BY <1>8 DEF Return, ContextClosed, ReturnUncounted, Reaped
    <3>2. \A r \in Requests : \/ pc'[r] = Returned(x)[r]
                              \/ Returned(x)[r] = "queued" /\ pc'[r] = "opening"
                              \/ pc'[r] = pc[r]
      BY <2>1, <2>2, <3>1, DequeueStaysInLine
    <3>3. \A r \in Requests : Using(r)' => Using(r)
      BY <2>1, <2>2, <3>2 DEF Using, InLine, First
    <3>4. ASSUME NEW r \in Requests, pc[r] \in Returning, pc'[r] \notin Returning
          PROVE  x.by = "owner" /\ r = x.of
      BY <2>2, <3>2, <3>4 DEF Returning
    <3>5. \A r \in Requests : pc[r] \in Returning /\ pc'[r] \notin Returning =>
                                \A y \in releases' : y.by = "owner" => y.of # r
      BY <2>3, <3>4 DEF ReleasedOnce
    <3> QED BY <1>0, <2>1, <2>3, <3>3, <3>5, ReleasesStay DEF TypeOK
  <2>4. CASE /\ releases' = (releases \ {x}) \cup {[x EXCEPT !.step = "reaping"]}
             /\ UNCHANGED <<pc, at>>
    <3> DEFINE y == [x EXCEPT !.step = "reaping"]
    <3>1. y.of = x.of /\ y.by = x.by /\ y.try = x.try
      BY DEF TypeOK, Release
    <3> HIDE DEF y
    <3>2. releases' = (releases \ {x}) \cup {y} /\ pc' = pc
      BY <2>4 DEF y
    <3>3. IsFiniteSet(releases')
      BY <3>2, FS_AddElement, FS_RemoveElement DEF ReleasedOnce
    <3> QED BY <2>1, <3>1, <3>2, <3>3 DEF ReleasedOnce
  <2> QED BY <1>8, <2>3, <2>4 DEF Return, ContextClosed, ReturnUncounted, Reaped
<1>9. CASE Maintenance
  <2>1. PICK old \in SUBSET ActiveSessions, stale \in SUBSET (handles \cap Slow) :
          \E idle \in SUBSET ActiveSessions : Maintain(old, idle, stale)
    BY <1>9 DEF Maintenance
  <2> DEFINE taken == [r \in stale |-> Call(r, "pool")]
  <2>2. /\ handles' = handles \ stale /\ releases' = releases \cup {taken[r] : r \in stale}
        /\ UNCHANGED <<pc, tries>>
    BY <2>1 DEF Maintain, requestVars
  <2>3. \A r \in stale : /\ r \in Requests /\ pc[r] = "using"
                         /\ taken[r].of = r /\ taken[r].by = "pool" /\ taken[r].try = tries[r]
    BY DEF Call, PagesPlaced, TypeOK
  <2>4. IsFiniteSet(releases')
    <3>1. IsFiniteSet(stale)
      BY PoolAssumption, FS_Subset DEF TypeOK
    <3>2. taken \in Surjection(stale, {taken[r] : r \in stale})
      BY DEF Surjection
    <3> HIDE DEF taken
    <3> QED BY <2>2, <3>1, <3>2, FS_Surjection, FS_Union DEF ReleasedOnce
  <2> HIDE DEF taken
  <2>5. ASSUME NEW r \in stale
        PROVE  /\ taken[r].try <= tries'[taken[r].of] /\ taken[r].by # "owner"
               /\ taken[r].of \notin handles' /\ pc'[taken[r].of] \notin InLine \cup {"connecting"}
    BY <1>0, <2>2, <2>3 DEF InLine, First, TypeOK
  <2> QED BY <2>2, <2>4, <2>5 DEF ReleasedOnce
<1>10. CASE CloseAll
  <2>1. UNCHANGED <<pc, tries, releases>> /\ handles' = {}
    BY <1>10 DEF CloseAll, requestVars
  <2> QED BY <2>1 DEF ReleasedOnce
<1> QED BY <1>1, <1>2, <1>3, <1>4, <1>5, <1>6, <1>7, <1>8, <1>9, <1>10
        DEF Next, Step, Acquire, Connect

-----------------------------------------------------------------------------
(* The counts. *)

\* Pages are finitely many, so they are counted with natural numbers.
LEMMA CountIsNat ==
  ASSUME TypeOK, ReleasedOnce, NEW b
  PROVE  /\ IsFiniteSet(HeldOf(b)) /\ IsFiniteSet(BackOf(b))
         /\ Cardinality(HeldOf(b)) \in Nat /\ Cardinality(BackOf(b)) \in Nat
         /\ Counted(b) \in Nat
<1>1. IsFiniteSet(handles) /\ HeldOf(b) \subseteq handles
  BY PoolAssumption, FS_Subset DEF TypeOK, HeldOf
<1>2. IsFiniteSet(releases) /\ BackOf(b) \subseteq releases
  BY DEF ReleasedOnce, BackOf
<1>3. IsFiniteSet(HeldOf(b)) /\ IsFiniteSet(BackOf(b))
  BY <1>1, <1>2, FS_Subset
<1> QED BY <1>3, FS_CardinalityType DEF Counted

\* A session that is new in the map is on its way, and has no pages.
LEMMA CountsStay ==
  ASSUME SessionsPlaced', PagesPlaced', TypeOK', PagesAccounted,
         \A b \in pool' : \/ b \in connecting'
                          \/ /\ b \in pool /\ Counted(b)' = Counted(b)
                             /\ activePages'[b] = activePages[b] /\ late'[b] = late[b]
  PROVE  PagesAccounted'
<1>1. ASSUME NEW b \in pool', b \in connecting'
      PROVE  /\ activePages'[b] <= Counted(b)'
             /\ Counted(b)' <= activePages'[b] + late'[b]
  <2>1. b \notin open' /\ b # None /\ activePages'[b] = 0 /\ late'[b] = 0
    BY <1>1, PoolAssumption DEF SessionsPlaced, TypeOK
  <2>2. HeldOf(b)' = {} /\ BackOf(b)' = {}
    BY <2>1 DEF HeldOf, BackOf, PagesPlaced, Paged, TypeOK
  <2>3. Counted(b)' = 0
    BY <2>2, FS_EmptySet DEF Counted
  <2> QED BY <2>1, <2>3
<1> QED BY <1>1 DEF PagesAccounted

\* Nothing is counted anew where no page is given or taken back.
LEMMA CountsUntouched ==
  ASSUME SessionsPlaced', PagesPlaced', TypeOK', PagesAccounted,
         UNCHANGED <<handles, releases>>, \A r \in handles : at'[r] = at[r],
         \A b \in pool' : \/ b \in connecting'
                          \/ /\ b \in pool
                             /\ activePages'[b] = activePages[b] /\ late'[b] = late[b]
  PROVE  PagesAccounted'
<1>1. \A b : HeldOf(b)' = HeldOf(b) /\ BackOf(b)' = BackOf(b)
  BY DEF HeldOf, BackOf
<1>2. \A b : Counted(b)' = Counted(b)
  BY <1>1 DEF Counted
<1> QED BY <1>2, CountsStay

\* Where the map grows, the new session is on its way.
LEMMA GrowthIsConnecting ==
  ASSUME NEW st, Grows(st)
  PROVE  pool \subseteq pool' /\ \A b \in pool' : b \in pool \/ b \in connecting'
BY DEF Grows

\* A page that is opened is counted.
LEMMA OpenKeepsCounts ==
  ASSUME TypeOK, LineInv, Accounts, PagesAccounted, SessionsPlaced', PagesPlaced', TypeOK',
         NEW r \in Requests, OpenPage(r)
  PROVE  PagesAccounted' /\ PagesCapped'
<1>0. PICK b \in Sessions : b = at[r]
  BY DEF OpenPage, TypeOK
<1> DEFINE n == IF b \in pool THEN [activePages EXCEPT ![b] = @ + 1] ELSE activePages
<1>1. /\ pc[r] = "opening" /\ b \in open /\ handles' = handles \cup {r} /\ b = at[r]
      /\ activePages' = n /\ UNCHANGED <<late, at, releases, open>>
  BY <1>0 DEF OpenPage
<1>2. \E st : Grows(st)
  BY CapacityGrows DEF OpenPage
<1>3. \A c \in pool' : c \in pool \/ c \in connecting'
  BY <1>2, GrowthIsConnecting
<1>4. r \notin handles
  BY <1>1 DEF Accounts, PagesPlaced
<1>5. \A c : BackOf(c)' = BackOf(c)
  BY <1>1 DEF BackOf
<1>6. \A c : HeldOf(c)' = IF c = b THEN HeldOf(c) \cup {r} ELSE HeldOf(c)
  BY <1>1 DEF HeldOf
<1>7. \A c : IsFiniteSet(HeldOf(c)) /\ Cardinality(HeldOf(c)) \in Nat /\ Cardinality(BackOf(c)) \in Nat
  BY CountIsNat DEF Accounts
<1>8. \A c : r \notin HeldOf(c)
  BY <1>4 DEF HeldOf
<1>9. Counted(b)' = Counted(b) + 1
  <2>1. Cardinality(HeldOf(b) \cup {r}) = Cardinality(HeldOf(b)) + 1
    BY <1>7, <1>8, FS_AddElement
  <2>2. HeldOf(b)' = HeldOf(b) \cup {r} /\ BackOf(b)' = BackOf(b)
    BY <1>5, <1>6
  <2> QED BY <1>7, <2>1, <2>2 DEF Counted
<1>10. \A c : c # b => Counted(c)' = Counted(c)
  BY <1>5, <1>6 DEF Counted
<1>11. PagesCapped'
  <2>1. b \in pool => activePages[b] < MaxPages
    BY <1>1 DEF Accounts, PagesPlaced
  <2> QED BY <1>1, <1>4, <2>1, PoolAssumption DEF Accounts, PagesCapped, TypeOK
<1>12. ASSUME NEW c \in pool', c \notin connecting'
       PROVE  /\ activePages'[c] <= Counted(c)'
              /\ Counted(c)' <= activePages'[c] + late'[c]
  <2>1. c \in pool /\ c \in Sessions
    BY <1>3, <1>12 DEF TypeOK
  <2>2. activePages[c] \in Nat /\ late[c] \in Nat /\ Counted(c) \in Nat
    BY <2>1, CountIsNat DEF TypeOK, Accounts
  <2>3. activePages'[c] = (IF c = b THEN activePages[c] + 1 ELSE activePages[c]) /\ late'[c] = late[c]
    BY <1>1, <1>4, <2>1 DEF TypeOK
  <2>4. Counted(c)' = IF c = b THEN Counted(c) + 1 ELSE Counted(c)
    BY <1>9, <1>10
  <2> QED BY <2>1, <2>2, <2>3, <2>4 DEF PagesAccounted
<1>13. ASSUME NEW c \in pool', c \in connecting'
       PROVE  activePages'[c] = 0 /\ late'[c] = 0 /\ Counted(c)' = 0
  <2>1. c \notin open' /\ c # None /\ activePages'[c] = 0 /\ late'[c] = 0
    BY <1>13, PoolAssumption DEF SessionsPlaced, TypeOK
  <2>2. HeldOf(c)' = {} /\ BackOf(c)' = {}
    BY <2>1 DEF HeldOf, BackOf, PagesPlaced, Paged, TypeOK
  <2> QED BY <2>1, <2>2, FS_EmptySet DEF Counted
<1> QED BY <1>11, <1>12, <1>13 DEF PagesAccounted

\* A page that is given back is counted until its context is closed.
LEMMA GiveBackKeepsCounts ==
  ASSUME TypeOK, Accounts, PagesAccounted, SessionsPlaced', PagesPlaced', TypeOK',
         NEW r \in Requests, NEW place \in Returning, ReleasePage(r, place),
         pc[r] \in {"using", "paused"}
  PROVE  PagesAccounted'
<1> DEFINE x == Call(r, "owner")
<1>1. /\ handles' = handles \ {r} /\ releases' = releases \cup {x}
      /\ UNCHANGED <<pool, activePages, late>> /\ \A q \in Requests \ {r} : at'[q] = at[q]
  BY DEF ReleasePage, sessionVars, TypeOK
<1>2. /\ x.of = r /\ x.by = "owner" /\ x.at = at[r] /\ x.step = "closing" /\ x.again = (r \notin handles)
  BY DEF Call
<1>3. x \notin releases
  BY <1>2 DEF Accounts, ReleasedOnce, Returning
<1> HIDE DEF x
<1>4. handles \subseteq Requests
  BY DEF TypeOK
<1>5. \A b : /\ HeldOf(b)' = HeldOf(b) \ {r}
             /\ BackOf(b)' = IF at[r] = b /\ r \in handles THEN BackOf(b) \cup {x} ELSE BackOf(b)
  BY <1>1, <1>2, <1>4 DEF HeldOf, BackOf
<1>6. \A b : /\ r \in HeldOf(b) <=> at[r] = b /\ r \in handles
             /\ x \notin BackOf(b)
  BY <1>3 DEF HeldOf, BackOf
<1>7. \A b : /\ IsFiniteSet(HeldOf(b)) /\ IsFiniteSet(BackOf(b))
             /\ Cardinality(HeldOf(b)) \in Nat /\ Cardinality(BackOf(b)) \in Nat
  BY CountIsNat DEF Accounts
<1>8. ASSUME NEW b
      PROVE  Counted(b)' = Counted(b)
  <2>1. CASE at[r] = b /\ r \in handles
    <3>1. Cardinality(HeldOf(b) \ {r}) = Cardinality(HeldOf(b)) - 1
      BY <1>6, <1>7, <2>1, FS_RemoveElement
    <3>2. Cardinality(BackOf(b) \cup {x}) = Cardinality(BackOf(b)) + 1
      BY <1>6, <1>7, <2>1, FS_AddElement
    <3>3. HeldOf(b)' = HeldOf(b) \ {r} /\ BackOf(b)' = BackOf(b) \cup {x}
      BY <1>5, <2>1
    <3> QED BY <1>7, <3>1, <3>2, <3>3 DEF Counted
  <2>2. CASE ~ (at[r] = b /\ r \in handles)
    <3>1. HeldOf(b)' = HeldOf(b) /\ BackOf(b)' = BackOf(b)
      BY <1>5, <1>6, <2>2
    <3> QED BY <3>1 DEF Counted
  <2> QED BY <2>1, <2>2
<1> QED BY <1>1, <1>8, CountsStay

\* A context that is closed is counted down, once too often when it was given back twice.
LEMMA CloseKeepsCounts ==
  ASSUME TypeOK, Accounts, PagesAccounted, SessionsPlaced', PagesPlaced', TypeOK',
         NEW x \in releases, ContextClosed(x)
  PROVE  PagesAccounted'
<1> DEFINE b == x.at
           n == [activePages EXCEPT ![b] = IF @ > 0 THEN @ - 1 ELSE 0]
           l == IF x.again THEN [late EXCEPT ![b] = @ + 1] ELSE late
           empty == {c \in {b} : state[c] = "retiring" /\ n[c] = 0}
<1>1. /\ x.step = "closing" /\ b \in pool /\ b \in Sessions /\ x \in Release
      /\ Close(empty, n, l) /\ handles' = handles
  BY DEF ContextClosed, TypeOK
<1>2. /\ releases' = releases \ {x} \/ releases' = (releases \ {x}) \cup {[x EXCEPT !.step = "reaping"]}
      /\ \A r \in handles : at'[r] = at[r]
  <2>1. CASE empty = {}
    <3>1. releases' = releases \ {x} /\ DequeueNext(Returned(x), at)
      BY <2>1 DEF ContextClosed
    <3>2. Returned(x) \in [Requests -> Places] /\ \A r \in handles : Returned(x)[r] = "using"
      <4>1. \A r \in handles : r \in Requests /\ pc[r] = "using"
        BY DEF Accounts, PagesPlaced, TypeOK
      <4> QED BY <4>1, ReturnsOutside DEF Accounts, Returning
    <3>3. pool' \subseteq Sessions
      BY DEF TypeOK
    <3>4. \A r \in handles : at'[r] = at[r]
      <4>1. CASE at' = at
        BY <4>1
      <4>2. ASSUME NEW c \in Best', line # <<>>, Returned(x)[Head(line)] = "queued",
                   at' = [at EXCEPT ![Head(line)] = c]
            PROVE  \A r \in handles : at'[r] = at[r]
        BY <3>2, <4>2
      <4> QED BY <3>1, <3>3, <4>1, <4>2, DequeueMoves
    <3> QED BY <3>1, <3>4
  <2>2. CASE empty # {}
    BY <2>2 DEF ContextClosed
  <2> QED BY <2>1, <2>2
<1>3. \A c : HeldOf(c)' = HeldOf(c)
  BY <1>1, <1>2 DEF HeldOf
<1>4. \A c : BackOf(c)' = BackOf(c) \ {x}
  <2>1. [x EXCEPT !.step = "reaping"].step = "reaping"
    BY <1>1 DEF Release
  <2> QED BY <1>2, <2>1 DEF BackOf
<1>5. \A c : x \in BackOf(c) <=> c = b /\ ~x.again
  BY <1>1 DEF BackOf
<1>6. \A c : /\ IsFiniteSet(BackOf(c))
             /\ Cardinality(HeldOf(c)) \in Nat /\ Cardinality(BackOf(c)) \in Nat
  BY CountIsNat DEF Accounts
<1>7. ASSUME NEW c
      PROVE  Counted(c)' = IF c = b /\ ~x.again THEN Counted(c) - 1 ELSE Counted(c)
  <2>1. HeldOf(c)' = HeldOf(c) /\ BackOf(c)' = BackOf(c) \ {x}
    BY <1>3, <1>4
  <2>2. Cardinality(BackOf(c) \ {x}) = IF c = b /\ ~x.again THEN Cardinality(BackOf(c)) - 1
                                       ELSE Cardinality(BackOf(c))
    BY <1>5, <1>6, FS_RemoveElement
  <2> QED BY <1>6, <2>1, <2>2 DEF Counted
<1>8. ASSUME NEW c \in pool'
      PROVE  /\ activePages'[c] <= Counted(c)'
             /\ Counted(c)' <= activePages'[c] + late'[c]
  <2>1. c \in pool \ empty /\ c \in Sessions
    BY <1>1 DEF Close, TypeOK
  <2>2. activePages'[c] = n[c] /\ late'[c] = l[c]
    BY <1>1, <2>1 DEF Close
  <2>3. activePages[c] \in Nat /\ late[c] \in Nat /\ Counted(c) \in Nat
    BY <2>1, CountIsNat DEF TypeOK, Accounts
  <2>4. n[c] = IF c = b /\ activePages[c] > 0 THEN activePages[c] - 1 ELSE activePages[c]
    <3>1. activePages \in [Sessions -> Nat]
      BY DEF TypeOK
    <3> QED BY <2>1, <3>1
  <2>5. l[c] = IF c = b /\ x.again THEN late[c] + 1 ELSE late[c]
    BY <1>1, <2>1, <2>3 DEF TypeOK
  <2>6. activePages[c] <= Counted(c) /\ Counted(c) <= activePages[c] + late[c]
    BY <2>1 DEF PagesAccounted
  <2>7. c = b /\ ~x.again => Counted(c) >= 1
    <3>1. c = b /\ ~x.again => BackOf(c) # {}
      BY <1>5
    <3> QED BY <1>6, <3>1, FS_EmptySet DEF Counted
  <2> HIDE DEF n, l
  <2> QED BY <1>7, <2>2, <2>3, <2>4, <2>5, <2>6, <2>7
<1> QED BY <1>8 DEF PagesAccounted

\* Pages that the pool takes back are counted until their contexts are closed.
LEMMA TakeBackKeepsCounts ==
  ASSUME TypeOK, Accounts, PagesAccounted, SessionsPlaced', PagesPlaced', TypeOK', Maintenance
  PROVE  PagesAccounted'
<1>1. PICK old \in SUBSET ActiveSessions, stale \in SUBSET (handles \cap Slow) :
        \E idle \in SUBSET ActiveSessions : Maintain(old, idle, stale)
  BY DEF Maintenance
<1> DEFINE taken == [r \in stale |-> Call(r, "pool")]
<1>2. /\ handles' = handles \ stale /\ releases' = releases \cup {taken[r] : r \in stale}
      /\ UNCHANGED <<at, activePages>> /\ pool' \subseteq pool
      /\ \A b \in pool' : late'[b] = late[b]
  BY <1>1 DEF Maintain, requestVars, TypeOK
<1>3. \A r \in stale : /\ r \in handles /\ r \in Requests /\ taken[r].of = r /\ taken[r].by = "pool"
                       /\ taken[r].try = tries[r] /\ taken[r].at = at[r]
                       /\ taken[r].step = "closing" /\ ~taken[r].again
  BY DEF Call, TypeOK
<1> HIDE DEF taken
<1>4. \A r \in stale : taken[r] \notin releases
  BY <1>3 DEF Accounts, ReleasedOnce
<1>5. ASSUME NEW b
      PROVE  Counted(b)' = Counted(b)
  <2> DEFINE S == {r \in stale : at[r] = b}
             T == {taken[r] : r \in S}
  <2>1. S \subseteq HeldOf(b) /\ HeldOf(b)' = HeldOf(b) \ S
    BY <1>2, <1>3 DEF HeldOf
  <2>2. BackOf(b)' = BackOf(b) \cup T
    BY <1>2, <1>3 DEF BackOf
  <2>3. BackOf(b) \cap T = {}
    BY <1>4 DEF BackOf
  <2>4. /\ IsFiniteSet(HeldOf(b)) /\ IsFiniteSet(BackOf(b))
        /\ Cardinality(HeldOf(b)) \in Nat /\ Cardinality(BackOf(b)) \in Nat
    BY CountIsNat DEF Accounts
  <2>5. IsFiniteSet(S) /\ Cardinality(S) \in Nat
    BY <2>1, <2>4, FS_Subset, FS_CardinalityType
  <2>6. IsFiniteSet(T) /\ Cardinality(T) = Cardinality(S)
    <3> DEFINE f == [r \in S |-> taken[r]]
    <3>1. f \in Bijection(S, T)
      BY <1>3 DEF Bijection, Injection, IsInjective, Surjection
    <3> HIDE DEF S, T
    <3>2. ExistsBijection(S, T)
      BY <3>1 DEF ExistsBijection
    <3> QED BY <2>5, <3>2, FS_Bijection
  <2>7. Cardinality(HeldOf(b) \ S) = Cardinality(HeldOf(b)) - Cardinality(S)
    <3>1. HeldOf(b) \cap S = S
      BY <2>1
    <3> HIDE DEF S
    <3>2. Cardinality(HeldOf(b) \ S) = Cardinality(HeldOf(b)) - Cardinality(HeldOf(b) \cap S)
      BY <2>4, FS_Difference
    <3> QED BY <3>1, <3>2
  <2>8. Cardinality(BackOf(b) \cup T) = Cardinality(BackOf(b)) + Cardinality(T)
    <3> HIDE DEF S, T
    <3>1. Cardinality(BackOf(b) \cup T) = Cardinality(BackOf(b)) + Cardinality(T) - Cardinality({})
      BY <2>3, <2>4, <2>6, FS_Union
    <3> QED BY <2>4, <2>5, <2>6, <3>1, FS_EmptySet
  <2> HIDE DEF S, T
  <2> QED BY <2>1, <2>2, <2>4, <2>5, <2>6, <2>7, <2>8 DEF Counted
<1> QED BY <1>2, <1>5, CountsStay

\* The page of a crashed session is of no session; the others keep theirs.
LEMMA CrashKeepsCounts ==
  ASSUME TypeOK, Accounts, PagesAccounted, SessionsPlaced', PagesPlaced', TypeOK',
         NEW b \in Sessions, Disconnected(b)
  PROVE  PagesAccounted'
<1> DEFINE a == [r \in Requests |-> IF at[r] = b THEN None ELSE at[r]]
<1>1. /\ DequeueNext(pc, a) /\ pool' = pool \ {b} /\ handles' = {r \in handles : at[r] # b}
      /\ releases' = {IF x.at = b THEN [x EXCEPT !.at = None] ELSE x : x \in releases}
      /\ \A c \in Sessions \ {b} : activePages'[c] = activePages[c] /\ late'[c] = late[c]
  BY DEF Disconnected, Close
<1>2. ASSUME NEW r \in handles'
      PROVE  at'[r] = at[r]
  <2>1. pc[r] = "using" /\ a[r] = at[r]
    BY <1>1 DEF Accounts, PagesPlaced, TypeOK
  <2>2. pool' \subseteq Sessions
    BY DEF TypeOK
  <2>3. CASE at' = a
    BY <2>1, <2>3
  <2>4. ASSUME NEW c \in Best', line # <<>>, pc[Head(line)] = "queued",
               at' = [a EXCEPT ![Head(line)] = c]
        PROVE  at'[r] = at[r]
    BY <2>1, <2>4
  <2> QED BY <1>1, <2>2, <2>3, <2>4, DequeueMoves
<1>3. ASSUME NEW c \in pool'
      PROVE  Counted(c)' = Counted(c)
  <2>1. c # b /\ c # None
    BY <1>1, <1>3, PoolAssumption DEF TypeOK
  <2>2. HeldOf(c)' = HeldOf(c)
    BY <1>1, <1>2, <2>1 DEF HeldOf
  <2>3. \A x \in releases : x.at = b => [x EXCEPT !.at = None].at = None
    BY DEF TypeOK, Release
  <2>4. BackOf(c)' = BackOf(c)
    BY <1>1, <2>1, <2>3 DEF BackOf
  <2> QED BY <2>2, <2>4 DEF Counted
<1>4. \A c \in pool' : c \in pool /\ c \in Sessions \ {b}
  BY <1>1 DEF TypeOK
<1> QED BY <1>1, <1>3, <1>4, CountsStay

\* Every step counts right, and no count passes the limit.
LEMMA StepKeepsCounts ==
  ASSUME TypeOK, LineInv, Accounts, PagesAccounted, Next
  PROVE  PagesAccounted' /\ PagesCapped'
<1> USE DEF Accounts
<1>0. TypeOK' /\ SessionsPlaced' /\ PagesPlaced'
  BY StepKeepsTypes, StepKeepsSessions, StepKeepsPages DEF LineInv
<1>1. ASSUME \A b \in Sessions : activePages'[b] <= activePages[b] \/ activePages'[b] = 0
      PROVE  PagesCapped'
  <2>1. ASSUME NEW b \in Sessions
        PROVE  activePages'[b] <= MaxPages
    <3>1. activePages[b] \in Nat /\ activePages'[b] \in Nat /\ activePages[b] <= MaxPages
      BY <1>0 DEF PagesCapped, TypeOK
    <3> QED BY <1>1, <3>1, PoolAssumption
  <2> QED BY <2>1 DEF PagesCapped
<1>2. ASSUME UNCHANGED <<activePages, late, handles, releases>>, \A r \in handles : at'[r] = at[r],
             \A b \in pool' : b \in pool \/ b \in connecting'
      PROVE  PagesAccounted' /\ PagesCapped'
  BY <1>0, <1>1, <1>2, CountsUntouched DEF TypeOK
<1>3. ASSUME NEW r \in Requests, AcquirePage(r) PROVE PagesAccounted' /\ PagesCapped'
  <2>1. \A b \in pool' : b \in pool \/ b \in connecting'
    BY <1>3, CapacityGrows, GrowthIsConnecting DEF AcquirePage
  <2> QED BY <1>2, <1>3, <2>1 DEF AcquirePage, pageVars
<1>4. ASSUME NEW r \in Requests,
             \/ Refuse(r) \/ AcquireOneShot(r) \/ OneShotFails(r) \/ QueueTimeout(r) \/ OpenFails(r)
      PROVE  PagesAccounted' /\ PagesCapped'
  <2>1. r \notin handles
    BY <1>4 DEF PagesPlaced, Refuse, AcquireOneShot, OneShotFails, QueueTimeout, OpenFails
  <2>2. UNCHANGED <<pool, activePages, late, handles, releases>> /\ \A q \in handles : at'[q] = at[q]
    BY <1>4, <2>1 DEF Refuse, AcquireOneShot, OneShotFails, QueueTimeout, OpenFails, AcquireFails,
                      sessionVars, pageVars, TypeOK
  <2> QED BY <1>2, <2>2
<1>5. ASSUME NEW r \in Requests, OneShotOpens(r) PROVE PagesAccounted' /\ PagesCapped'
  <2>1. /\ pc[r] = "connecting" /\ at[r] = None /\ handles' = handles \cup {r}
        /\ UNCHANGED <<pool, activePages, late, at, releases>>
    BY <1>5 DEF OneShotOpens, sessionVars, PagesPlaced
  <2>2. ASSUME NEW b \in pool
        PROVE  Counted(b)' = Counted(b)
    <3>1. b # None
      BY PoolAssumption DEF TypeOK
    <3>2. HeldOf(b)' = HeldOf(b) /\ BackOf(b)' = BackOf(b)
      BY <2>1, <3>1 DEF HeldOf, BackOf
    <3> QED BY <3>2 DEF Counted
  <2>3. PagesAccounted'
    BY <1>0, <2>1, <2>2, CountsStay
  <2> QED BY <1>1, <2>1, <2>3 DEF TypeOK
<1>6. ASSUME NEW r \in Requests, DoAcquirePage(r) \/ Poll(r) PROVE PagesAccounted' /\ PagesCapped'
  <2>1. r \notin handles /\ pc[r] \in {"line", "polling"}
    BY <1>6, HeadMoves DEF PagesPlaced
  <2>2. /\ UNCHANGED <<activePages, late, handles, releases>>
        /\ \A q \in handles : at'[q] = at[q]
        /\ \A b \in pool' : b \in pool \/ b \in connecting'
    BY <1>6, <2>1, HeadMoves DEF Take, Creates, sessionVars, pageVars, TypeOK
  <2> QED BY <1>2, <2>2
<1>7. ASSUME NEW r \in Requests, OpenPage(r) PROVE PagesAccounted' /\ PagesCapped'
  BY <1>0, <1>7, OpenKeepsCounts
<1>8. ASSUME NEW r \in Requests, Succeed(r) \/ Fail(r) \/ AfterFailure(r)
      PROVE  PagesAccounted' /\ PagesCapped'
  <2>1. PagesCapped'
    BY <1>1, <1>8 DEF Succeed, Fail, AfterFailure, ReleasePage, sessionVars, TypeOK
  <2>2. CASE /\ pc[r] = "paused" /\ at' = [at EXCEPT ![r] = None]
             /\ UNCHANGED <<sessionVars, line, tries, pageVars, stage>>
    <3>1. r \notin handles
      BY <2>2 DEF PagesPlaced
    <3> QED BY <1>2, <2>2, <3>1 DEF sessionVars, pageVars, TypeOK
  <2>3. ASSUME NEW place \in Returning, ReleasePage(r, place), pc[r] \in {"using", "paused"}
        PROVE  PagesAccounted'
    BY <1>0, <2>3, GiveBackKeepsCounts
  <2> QED BY <1>8, <2>1, <2>2, <2>3 DEF Succeed, Fail, AfterFailure, Returning
<1>9. ASSUME NEW b \in Sessions, SessionReady(b) PROVE PagesAccounted' /\ PagesCapped'
  <2> DEFINE p == [r \in Requests |-> IF pc[r] = "creating" /\ at[r] = b THEN "opening" ELSE pc[r]]
  <2>1. DequeueNext(p, at) /\ UNCHANGED <<pool, activePages, late, handles, releases>>
    BY <1>9 DEF SessionReady, pageVars
  <2>2. \A r \in handles : p[r] = "using"
    BY DEF PagesPlaced, TypeOK
  <2> HIDE DEF p
  <2>3. pool' \subseteq Sessions
    BY <1>0 DEF TypeOK
  <2>4. ASSUME NEW r \in handles
        PROVE  at'[r] = at[r]
    <3>1. ASSUME NEW c \in Best', p[Head(line)] = "queued", at' = [at EXCEPT ![Head(line)] = c]
          PROVE  at'[r] = at[r]
      BY <2>2, <3>1
    <3> QED BY <2>1, <2>3, <3>1, DequeueMoves
  <2> QED BY <1>2, <2>1, <2>4
<1>10. ASSUME NEW b \in Sessions, SessionFails(b) PROVE PagesAccounted' /\ PagesCapped'
  <2>1. /\ pool' = pool \ {b} /\ UNCHANGED <<handles, releases>>
        /\ \A c \in Sessions \ {b} : activePages'[c] = activePages[c] /\ late'[c] = late[c]
        /\ activePages'[b] = 0
    BY <1>10 DEF SessionFails, Close, pageVars
  <2>2. \A r \in handles : at'[r] = at[r]
    <3>1. \A r \in handles : pc[r] = "using"
      BY DEF PagesPlaced
    <3> QED BY <1>10, <3>1 DEF SessionFails, AcquireFails, TypeOK
  <2>3. PagesAccounted'
    BY <1>0, <2>1, <2>2, CountsUntouched DEF TypeOK
  <2>4. \A c \in Sessions : activePages'[c] <= activePages[c] \/ activePages'[c] = 0
    <3>1. \A c \in Sessions : activePages[c] <= activePages[c]
      BY DEF TypeOK
    <3> QED BY <2>1, <3>1
  <2>5. PagesCapped'
    BY <1>1, <2>4
  <2> QED BY <2>3, <2>5
<1>11. ASSUME NEW b \in Sessions, Disconnected(b) PROVE PagesAccounted' /\ PagesCapped'
  <2>1. PagesCapped'
    BY <1>1, <1>11 DEF Disconnected, Close, TypeOK
  <2> QED BY <1>0, <1>11, <2>1, CrashKeepsCounts
<1>12. ASSUME NEW x \in releases, ContextClosed(x) PROVE PagesAccounted' /\ PagesCapped'
  <2>1. PagesCapped'
    <3>1. x.at \in Sessions
      BY <1>12 DEF ContextClosed, TypeOK
    <3> QED BY <1>1, <1>12, <3>1 DEF ContextClosed, Close, TypeOK
  <2> QED BY <1>0, <1>12, <2>1, CloseKeepsCounts
<1>13. ASSUME NEW x \in releases, ReturnUncounted(x) \/ Reaped(x) PROVE PagesAccounted' /\ PagesCapped'
  <2>1. /\ UNCHANGED <<pool, activePages, late, handles>> /\ releases' = releases \ {x}
        /\ x.step = "reaping" \/ x.at \notin pool
    BY <1>13 DEF ReturnUncounted, Reaped, sessionVars
  <2>2. ASSUME NEW r \in handles
        PROVE  at'[r] = at[r]
    <3>1. pc[r] = "using" /\ r \in Requests
      BY DEF PagesPlaced, TypeOK
    <3>2. Returned(x)[r] = "using"
      BY <3>1, ReturnsOutside DEF Returning
    <3>3. pool' \subseteq Sessions
      BY <1>0 DEF TypeOK
    <3>4. ASSUME NEW c \in Best', Returned(x)[Head(line)] = "queued",
                 at' = [at EXCEPT ![Head(line)] = c]
          PROVE  at'[r] = at[r]
      BY <3>2, <3>4
    <3> QED BY <1>13, <3>3, <3>4, DequeueMoves DEF ReturnUncounted, Reaped
  <2>3. ASSUME NEW b \in pool
        PROVE  Counted(b)' = Counted(b)
    <3>1. HeldOf(b)' = HeldOf(b) /\ BackOf(b)' = BackOf(b)
      BY <2>1, <2>2 DEF HeldOf, BackOf
    <3> QED BY <3>1 DEF Counted
  <2>4. PagesAccounted'
    BY <1>0, <2>1, <2>3, CountsStay
  <2> QED BY <1>1, <2>1, <2>4 DEF TypeOK
<1>14. CASE Maintenance
  <2>1. activePages' = activePages
    BY <1>14 DEF Maintenance, Maintain
  <2> QED BY <1>0, <1>1, <1>14, <2>1, TakeBackKeepsCounts DEF TypeOK
<1>15. CASE Shutdown
  <2>1. UNCHANGED <<pool, activePages, late, handles, releases>>
    BY <1>15 DEF Shutdown, pageVars
  <2>2. \A r \in handles : at'[r] = at[r]
    <3>1. \A r \in handles : pc[r] = "using"
      BY DEF PagesPlaced
    <3> QED BY <1>15, <3>1 DEF Shutdown, AcquireFails, TypeOK
  <2> QED BY <1>2, <2>1, <2>2
<1>16. CASE CloseAll
  <2>1. pool' = {} /\ \A b \in Sessions : activePages'[b] = activePages[b] \/ activePages'[b] = 0
    BY <1>16 DEF CloseAll, Close
  <2> QED BY <1>1, <2>1 DEF PagesAccounted, TypeOK
<1> QED BY <1>3, <1>4, <1>5, <1>6, <1>7, <1>8, <1>9, <1>10, <1>11, <1>12, <1>13, <1>14,
           <1>15, <1>16 DEF Next, Step, Acquire, Connect, Return

-----------------------------------------------------------------------------
(* The limit of sessions, and those who wait. *)

\* The sessions that count.
Working == {b \in pool : state[b] \in {"active", "starting"}}

\* Where no session begins to count, there are not more of them.
LEMMA NoneBegins ==
  ASSUME TypeOK, SessionsWithinLimit, Working' \subseteq Working, stage' = "open" => stage = "open"
  PROVE  SessionsWithinLimit'
<1>1. IsFiniteSet(Working)
  BY PoolAssumption, FS_Subset DEF TypeOK, Working
<1>2. /\ Cardinality(Working) \in Nat /\ Cardinality(Working') \in Nat
      /\ Cardinality(Working') <= Cardinality(Working)
  BY <1>1, FS_Subset, FS_CardinalityType
<1>3. stage = "open" => Cardinality(Working) <= Limit
  BY DEF SessionsWithinLimit, Working
<1>4. stage' = "open" => Cardinality(Working') <= Limit
  BY <1>2, <1>3, PoolAssumption DEF Limit
<1> QED BY <1>4 DEF SessionsWithinLimit, Working

\* A session is created while there are fewer than maxSessions.
LEMMA GrowthWithinLimit ==
  ASSUME TypeOK, SessionsWithinLimit, NEW st, Grows(st),
         st \in [Sessions -> {"starting", "active", "retiring", "closed"}],
         \A b \in Sessions : st[b] = state[b] \/ st[b] = "retiring",
         stage' = stage
  PROVE  SessionsWithinLimit'
<1> DEFINE W == {b \in pool : st[b] \in {"active", "starting"}}
<1>1. IsFiniteSet(W) /\ Cardinality(W) = Managed(st) /\ Cardinality(W) \in Nat
  BY PoolAssumption, FS_Subset, FS_CardinalityType DEF TypeOK, Managed
<1>2. CASE state' = st /\ UNCHANGED <<pool, connecting, creating>>
  BY <1>2, NoneBegins DEF Working, TypeOK
<1>3. ASSUME NEW c \in Unused, Managed(st) < MaxSessions,
             state' = [st EXCEPT ![c] = "starting"], pool' = pool \cup {c}
      PROVE  SessionsWithinLimit'
  <2>1. Working' = W \cup {c} /\ c \notin W
    BY <1>3 DEF Working, Unused, TypeOK
  <2>2. Cardinality(Working') = Cardinality(W) + 1
    BY <1>1, <2>1, FS_AddElement
  <2>3. Cardinality(Working') <= Limit
    BY <1>1, <1>3, <2>2, PoolAssumption DEF Limit
  <2> QED BY <2>3 DEF SessionsWithinLimit, Working
<1> QED BY <1>2, <1>3 DEF Grows

\* A page that is opened may retire its session, and then another is created.
LEMMA OpenGrows ==
  ASSUME TypeOK, NEW r \in Requests, OpenPage(r)
  PROVE  \E st \in [Sessions -> {"starting", "active", "retiring", "closed"}] :
           Grows(st) /\ \A b \in Sessions : st[b] = state[b] \/ st[b] = "retiring"
<1> DEFINE b == at[r]
           n == IF b \in pool THEN [activePages EXCEPT ![b] = @ + 1] ELSE activePages
           retires == b \in pool /\ state[b] = "active" /\ served[b] + 1 >= RetireAfter
           st == IF retires THEN [state EXCEPT ![b] = "retiring"] ELSE state
<1>1. EnsureCapacity(st, n)
  BY DEF OpenPage
<1>2. Grows(st)
  BY <1>1, CapacityGrows
<1>3. /\ st \in [Sessions -> {"starting", "active", "retiring", "closed"}]
      /\ \A c \in Sessions : st[c] = state[c] \/ st[c] = "retiring"
  BY DEF TypeOK
<1> HIDE DEF st
<1> QED BY <1>2, <1>3

\* No step takes the sessions over their limit.
LEMMA StepKeepsLimit ==
  ASSUME TypeOK, LineInv, Accounts, SessionsWithinLimit, Next
  PROVE  SessionsWithinLimit'
<1>1. ASSUME UNCHANGED <<state, pool, stage>>
      PROVE  SessionsWithinLimit'
  BY <1>1, NoneBegins DEF Working
<1>2. ASSUME NEW r \in Requests, AcquirePage(r) PROVE SessionsWithinLimit'
  <2>1. Grows(state)
    BY <1>2, CapacityGrows DEF AcquirePage
  <2> QED BY <1>2, <2>1, GrowthWithinLimit DEF AcquirePage, TypeOK
<1>3. ASSUME NEW r \in Requests,
             \/ Refuse(r) \/ AcquireOneShot(r) \/ OneShotOpens(r) \/ OneShotFails(r)
             \/ QueueTimeout(r) \/ OpenFails(r) \/ Succeed(r) \/ Fail(r) \/ AfterFailure(r)
      PROVE  SessionsWithinLimit'
  BY <1>1, <1>3 DEF Refuse, AcquireOneShot, OneShotOpens, OneShotFails, QueueTimeout, OpenFails,
                    Succeed, Fail, AfterFailure, ReleasePage, sessionVars
<1>4. ASSUME NEW r \in Requests, DoAcquirePage(r) \/ Poll(r) PROVE SessionsWithinLimit'
  <2>1. CASE Creates(r) /\ Grows(state)
    BY <2>1, GrowthWithinLimit DEF Creates, TypeOK
  <2>2. CASE UNCHANGED <<state, pool, stage>>
    BY <1>1, <2>2
  <2> QED BY <1>4, <2>1, <2>2, HeadMoves DEF Creates, Take, sessionVars
<1>5. ASSUME NEW r \in Requests, OpenPage(r) PROVE SessionsWithinLimit'
  <2>1. PICK st \in [Sessions -> {"starting", "active", "retiring", "closed"}] :
          Grows(st) /\ \A b \in Sessions : st[b] = state[b] \/ st[b] = "retiring"
    BY <1>5, OpenGrows
  <2> QED BY <1>5, <2>1, GrowthWithinLimit DEF OpenPage
<1>6. ASSUME NEW b \in Sessions, SessionReady(b) PROVE SessionsWithinLimit'
  <2>1. CASE stage = "open"
    BY <1>6, <2>1, NoneBegins DEF SessionReady, Working, Accounts, SessionsPlaced, TypeOK
  <2>2. CASE stage # "open"
    BY <1>6, <2>2 DEF SessionReady, SessionsWithinLimit
  <2> QED BY <2>1, <2>2
<1>7. ASSUME NEW bs, NEW n, NEW l, Close(bs, n, l), stage' = stage PROVE SessionsWithinLimit'
  BY <1>7, NoneBegins DEF Close, Working, TypeOK
<1>8. CASE \E b \in Sessions : SessionFails(b) \/ Disconnected(b)
  BY <1>7, <1>8 DEF SessionFails, Disconnected
<1>9. ASSUME NEW x \in releases, Return(x) PROVE SessionsWithinLimit'
  BY <1>1, <1>7, <1>9 DEF Return, ContextClosed, ReturnUncounted, Reaped, sessionVars
<1>10. CASE Maintenance
  <2>1. PICK old \in SUBSET ActiveSessions, stale \in SUBSET (handles \cap Slow) :
          \E idle \in SUBSET ActiveSessions : Maintain(old, idle, stale)
    BY <1>10 DEF Maintenance
  <2>2. Working' \subseteq Working /\ stage' = stage
    BY <2>1 DEF Maintain, Working, TypeOK
  <2> QED BY <2>2, NoneBegins
<1>11. CASE Shutdown \/ CloseAll
  BY <1>11 DEF Shutdown, CloseAll, SessionsWithinLimit
<1> QED BY <1>2, <1>3, <1>4, <1>5, <1>6, <1>8, <1>9, <1>10, <1>11 DEF Next, Step, Acquire, Connect

\* A queue that moves on leaves nobody waiting for a page that is free.
LEMMA DequeueServes ==
  ASSUME NEW p, NEW a, TypeOK, TypeOK', LineInv, DequeueNext(p, a), p \in [Requests -> Places],
         \A r \in Requests : p[r] = "queued" => pc[r] = "queued"
  PROVE  WaitsOnlyWhenFull'
<1>1. ASSUME NEW r \in Requests, pc[r] = "queued"
      PROVE  line # <<>> /\ Head(line) = r
  BY <1>1 DEF LineInv, LockPassesOn, TypeOK
<1>2. pool' \subseteq Sessions /\ \A b \in pool' : activePages'[b] \in Nat
  BY DEF TypeOK
<1>3. Best' = {} => Full'
  <2>1. ASSUME NEW b \in pool', state'[b] = "active", activePages'[b] < MaxPages
        PROVE  Best' # {}
    <3> DEFINE A == {c \in pool' : state'[c] = "active"}
    <3>1. b \in A /\ \A c \in A : activePages'[c] \in Nat
      BY <1>2, <2>1
    <3> HIDE DEF A
    <3>2. PICK d \in A : \A c \in A : activePages'[d] <= activePages'[c]
      BY <3>1, SomeLeast
    <3>3. activePages'[d] < MaxPages
      BY <2>1, <3>1, <3>2, PoolAssumption
    <3>4. d \in Best'
      BY <3>2, <3>3 DEF Best, ActiveSessions, A
    <3> QED BY <3>4
  <2>2. \A b \in pool' : activePages'[b] < MaxPages \/ activePages'[b] >= MaxPages
    BY <1>2, PoolAssumption
  <2> QED BY <2>1, <2>2 DEF Full
<1>4. CASE pc' = p /\ at' = a /\ (line # <<>> /\ p[Head(line)] = "queued" => Best' = {})
  BY <1>1, <1>3, <1>4 DEF WaitsOnlyWhenFull
<1>5. CASE /\ line # <<>> /\ p[Head(line)] = "queued"
           /\ pc' = [p EXCEPT ![Head(line)] = "opening"]
  BY <1>1, <1>5 DEF WaitsOnlyWhenFull
<1> QED BY <1>2, <1>4, <1>5, DequeueMoves

\* Where nobody begins to wait and no session gets room, nobody waits for nothing.
LEMMA WaitersStay ==
  ASSUME TypeOK, TypeOK', WaitsOnlyWhenFull,
         \A r \in Requests : pc'[r] = "queued" => pc[r] = "queued",
         \A b \in pool' : state'[b] = "active" =>
           b \in pool /\ state[b] = "active" /\ activePages'[b] >= activePages[b]
  PROVE  WaitsOnlyWhenFull'
<1>1. ASSUME Full
      PROVE  Full'
  <2>1. ASSUME NEW b \in pool', state'[b] = "active"
        PROVE  activePages'[b] >= MaxPages
    <3>1. activePages[b] >= MaxPages /\ activePages'[b] >= activePages[b]
      BY <1>1, <2>1 DEF Full
    <3>2. activePages[b] \in Nat /\ activePages'[b] \in Nat
      BY <2>1 DEF TypeOK
    <3> QED BY <3>1, <3>2, PoolAssumption
  <2> QED BY <2>1 DEF Full
<1> QED BY <1>1 DEF WaitsOnlyWhenFull

\* No step leaves somebody waiting for what is free.
LEMMA StepKeepsWaiters ==
  ASSUME TypeOK, LineInv, Accounts, WaitsOnlyWhenFull, Next
  PROVE  WaitsOnlyWhenFull'
<1>0. TypeOK' /\ \A b \in Sessions : activePages[b] >= activePages[b]
  BY StepKeepsTypes DEF LineInv, Accounts, TypeOK
<1>1. ASSUME UNCHANGED <<state, pool, activePages>>,
             \A r \in Requests : pc'[r] = "queued" => pc[r] = "queued"
      PROVE  WaitsOnlyWhenFull'
  BY <1>0, <1>1, WaitersStay DEF TypeOK
<1>2. ASSUME NEW st, Grows(st), \A b \in Sessions : st[b] = "active" => state[b] = "active",
             st \in [Sessions -> {"starting", "active", "retiring", "closed"}],
             \A b \in Sessions : activePages'[b] >= activePages[b],
             \A r \in Requests : pc'[r] = "queued" => pc[r] = "queued"
      PROVE  WaitsOnlyWhenFull'
  <2>1. \A b \in pool' : state'[b] = "active" => b \in pool /\ state[b] = "active"
    BY <1>2 DEF Grows, Unused, TypeOK
  <2> QED BY <1>0, <1>2, <2>1, WaitersStay DEF TypeOK
<1>3. ASSUME NEW r \in Requests, AcquirePage(r) PROVE WaitsOnlyWhenFull'
  <2>1. Grows(state)
    BY <1>3, CapacityGrows DEF AcquirePage
  <2> QED BY <1>0, <1>2, <1>3, <2>1 DEF AcquirePage, Goto, TypeOK
<1>4. ASSUME NEW r \in Requests,
             \/ Refuse(r) \/ AcquireOneShot(r) \/ OneShotOpens(r) \/ OneShotFails(r)
             \/ QueueTimeout(r) \/ OpenFails(r)
      PROVE  WaitsOnlyWhenFull'
  <2>1. /\ UNCHANGED <<state, pool, activePages>>
        /\ \E place \in {"idle", "done", "connecting", "using"} : pc' = [pc EXCEPT ![r] = place]
    BY <1>4 DEF Refuse, AcquireOneShot, OneShotOpens, OneShotFails, QueueTimeout, OpenFails,
                AcquireFails, Goto, sessionVars
  <2> QED BY <1>1, <2>1 DEF TypeOK
<1>5. ASSUME NEW r \in Requests, DoAcquirePage(r) \/ Poll(r) PROVE WaitsOnlyWhenFull'
  <2>1. CASE /\ UNCHANGED <<state, pool, activePages>>
             /\ \E place \in {"opening", "polling"} : pc' = [pc EXCEPT ![r] = place]
    BY <1>1, <2>1 DEF TypeOK
  <2>2. CASE Creates(r) /\ pc' = [pc EXCEPT ![r] = "creating"] /\ Grows(state)
    BY <1>0, <1>2, <2>2 DEF Creates, TypeOK
  <2>3. CASE Creates(r) /\ UNCHANGED <<state, pool>>
    <3>1. Best = {} /\ \A b \in ActiveSessions : activePages[b] \in Nat
      BY <2>3 DEF Creates, TypeOK, ActiveSessions
    <3>2. \A b \in ActiveSessions : activePages[b] >= MaxPages
      <4>1. ASSUME NEW c \in ActiveSessions, activePages[c] < MaxPages
            PROVE  FALSE
        <5>1. PICK b \in ActiveSessions : \A d \in ActiveSessions : activePages[b] <= activePages[d]
          BY <3>1, SomeLeast
        <5>2. activePages[b] < MaxPages
          BY <3>1, <4>1, <5>1, PoolAssumption
        <5> QED BY <3>1, <5>1, <5>2 DEF Best
      <4> QED BY <3>1, <4>1, PoolAssumption
    <3>3. Full
      BY <3>2 DEF Full, ActiveSessions
    <3> QED BY <2>3, <3>3 DEF Creates, Full, WaitsOnlyWhenFull
  <2> QED BY <1>5, <2>1, <2>2, <2>3, HeadMoves DEF Creates, Take, Goto, sessionVars
<1>6. ASSUME NEW r \in Requests, OpenPage(r) PROVE WaitsOnlyWhenFull'
  <2>1. PICK st \in [Sessions -> {"starting", "active", "retiring", "closed"}] :
          Grows(st) /\ \A b \in Sessions : st[b] = "active" => state[b] = "active"
    BY <1>6, OpenGrows
  <2>2. \A b \in Sessions : activePages'[b] >= activePages[b]
    BY <1>6 DEF OpenPage, TypeOK
  <2> QED BY <1>2, <1>6, <2>1, <2>2 DEF OpenPage, Goto, TypeOK
<1>7. ASSUME NEW r \in Requests, Succeed(r) \/ Fail(r) \/ AfterFailure(r) PROVE WaitsOnlyWhenFull'
  <2>1. /\ UNCHANGED <<state, pool, activePages>>
        /\ \E place \in Returning \cup {"done"} : pc' = [pc EXCEPT ![r] = place]
    BY <1>7 DEF Succeed, Fail, AfterFailure, ReleasePage, Goto, sessionVars, Returning
  <2> QED BY <1>1, <2>1 DEF TypeOK, Returning
<1>8. ASSUME NEW b \in Sessions, SessionReady(b) PROVE WaitsOnlyWhenFull'
  <2> DEFINE p == [r \in Requests |-> IF pc[r] = "creating" /\ at[r] = b THEN "opening" ELSE pc[r]]
  <2>1. DequeueNext(p, at)
    BY <1>8 DEF SessionReady
  <2>2. p \in [Requests -> Places] /\ \A r \in Requests : p[r] = "queued" => pc[r] = "queued"
    BY DEF TypeOK, Places
  <2> HIDE DEF p
  <2> QED BY <1>0, <2>1, <2>2, DequeueServes
<1>9. ASSUME NEW b \in Sessions, SessionFails(b) PROVE WaitsOnlyWhenFull'
  <2>1. \A r \in Requests : pc'[r] = "queued" => pc[r] = "queued"
    BY <1>9 DEF SessionFails, AcquireFails, Goto, TypeOK
  <2>2. \A c \in pool' : c \in pool \ {b} /\ c \in Sessions /\ state'[c] = state[c]
                          /\ activePages'[c] = activePages[c]
    BY <1>9 DEF SessionFails, Close, TypeOK
  <2> QED BY <1>0, <2>1, <2>2, WaitersStay
<1>10. ASSUME NEW b \in Sessions, Disconnected(b) PROVE WaitsOnlyWhenFull'
  <2> DEFINE a == [r \in Requests |-> IF at[r] = b THEN None ELSE at[r]]
  <2>1. DequeueNext(pc, a)
    BY <1>10 DEF Disconnected
  <2> HIDE DEF a
  <2> QED BY <1>0, <2>1, DequeueServes DEF TypeOK
<1>11. ASSUME NEW x \in releases, Return(x) PROVE WaitsOnlyWhenFull'
  <2>1. /\ Returned(x) \in [Requests -> Places]
        /\ \A r \in Requests : Returned(x)[r] = "queued" => pc[r] = "queued"
    BY ReturnsOutside DEF Accounts
  <2>2. CASE DequeueNext(Returned(x), at)
    BY <1>0, <2>1, <2>2, DequeueServes
  <2>3. CASE ReturnUncounted(x)
    BY <1>1, <2>1, <2>3 DEF ReturnUncounted, sessionVars
  <2>4. CASE ContextClosed(x) /\ ~DequeueNext(Returned(x), at)
    <3> DEFINE n == [activePages EXCEPT ![x.at] = IF @ > 0 THEN @ - 1 ELSE 0]
               empty == {b \in {x.at} : state[b] = "retiring" /\ n[b] = 0}
    <3>1. empty # {} /\ pc' = pc
      BY <2>4 DEF ContextClosed
    <3>2. \E l : Close(empty, n, l)
      BY <2>4 DEF ContextClosed
    <3>3. empty = {x.at}
      BY <3>1
    <3>4. \A c \in pool' : c \in pool /\ c \in Sessions \ {x.at} /\ state'[c] = state[c]
                             /\ activePages'[c] = activePages[c]
      BY <3>2, <3>3 DEF Close, TypeOK
    <3> QED BY <1>0, <3>1, <3>4, WaitersStay
  <2> QED BY <1>11, <2>2, <2>3, <2>4 DEF Return, Reaped
<1>12. CASE Maintenance
  <2>1. PICK old \in SUBSET ActiveSessions, stale \in SUBSET (handles \cap Slow) :
          \E idle \in SUBSET ActiveSessions : Maintain(old, idle, stale)
    BY <1>12 DEF Maintenance
  <2>2. /\ UNCHANGED <<pc, activePages>> /\ pool' \subseteq pool
        /\ \A b \in Sessions : state'[b] = "active" => state[b] = "active"
    BY <2>1 DEF Maintain, requestVars, TypeOK
  <2> QED BY <1>0, <2>2, WaitersStay DEF TypeOK
<1>13. CASE Shutdown
  <2>1. \A b \in pool' : state'[b] = "retiring"
    BY <1>13 DEF Shutdown, TypeOK
  <2> QED BY <2>1 DEF WaitsOnlyWhenFull, Full
<1>14. CASE CloseAll
  BY <1>14 DEF CloseAll, Close, WaitsOnlyWhenFull, Full
<1> QED BY <1>3, <1>4, <1>5, <1>6, <1>7, <1>8, <1>9, <1>10, <1>11, <1>12, <1>13, <1>14
        DEF Next, Step, Acquire, Connect

-----------------------------------------------------------------------------
(* What holds from the start on. *)

\* start() begins with minSessions sessions on their way.
LEMMA InitPool == Init => PoolInv
<1> SUFFICES ASSUME Init PROVE PoolInv
  OBVIOUS
<1>1. Warm \in SUBSET Sessions /\ Cardinality(Warm) = MinSessions
  BY PoolAssumption DEF Warm
<1>2. TypeOK
  BY <1>1 DEF Init, TypeOK, Places
<1>3. LineInv
  BY DEF Init, LineInv, LineOnce, LockPassesOn
<1>4. SessionsPlaced /\ PagesPlaced /\ PagesCapped /\ WaitsOnlyWhenFull
  BY <1>1, PoolAssumption
     DEF Init, SessionsPlaced, PagesPlaced, PagesCapped, WaitsOnlyWhenFull, Paged
<1>5. ReleasedOnce
  BY FS_EmptySet DEF Init, ReleasedOnce
<1>6. PagesAccounted
  <2>1. \A b : HeldOf(b) = {} /\ BackOf(b) = {}
    BY DEF Init, HeldOf, BackOf
  <2>2. \A b : Counted(b) = 0
    BY <2>1, FS_EmptySet DEF Counted
  <2> QED BY <1>1, <2>2 DEF Init, PagesAccounted
<1>7. SessionsWithinLimit
  <2>1. {b \in pool : state[b] \in {"active", "starting"}} = Warm
    BY <1>1 DEF Init
  <2> QED BY <1>1, <2>1, PoolAssumption DEF SessionsWithinLimit, Limit
<1> QED BY <1>2, <1>3, <1>4, <1>5, <1>6, <1>7 DEF PoolInv, Accounts

\* Every step keeps the invariant.
LEMMA StepKeepsPool == PoolInv /\ [Next]_vars => PoolInv'
<1> SUFFICES ASSUME PoolInv, [Next]_vars PROVE PoolInv'
  OBVIOUS
<1> USE DEF PoolInv
<1>1. CASE Next
  <2>1. TypeOK' /\ LineInv' /\ SessionsPlaced' /\ PagesPlaced' /\ ReleasedOnce'
    BY <1>1, StepKeepsTypes, StepKeepsLine, StepKeepsSessions, StepKeepsPages, StepKeepsReleases
       DEF Accounts, LineInv
  <2> QED BY <1>1, <2>1, StepKeepsCounts, StepKeepsLimit, StepKeepsWaiters DEF Accounts
<1>2. CASE UNCHANGED vars
  <2> USE <1>2 DEF vars, sessionVars, requestVars, pageVars
  <2>1. TypeOK' /\ LineInv'
    BY DEF TypeOK, LineInv, LineOnce, LockPassesOn
  <2>2. Accounts'
    BY DEF Accounts, SessionsPlaced, PagesPlaced, ReleasedOnce, PagesCapped
  <2>3. \A b : Counted(b)' = Counted(b)
    BY DEF Counted, HeldOf, BackOf
  <2>4. PagesAccounted' /\ SessionsWithinLimit' /\ WaitsOnlyWhenFull'
    BY <2>3 DEF PagesAccounted, SessionsWithinLimit, WaitsOnlyWhenFull, Full
  <2> QED BY <2>1, <2>2, <2>4
<1> QED BY <1>1, <1>2

\* The inductive invariant of the pool.
THEOREM PoolInvariant == Spec => []PoolInv
<1> QED BY InitPool, StepKeepsPool, PTL DEF Spec

\* The types hold for any requests, sessions and limits.
THEOREM PoolTypes == Spec => []TypeOK
<1>1. PoolInv => TypeOK
  BY DEF PoolInv
<1> QED BY <1>1, PoolInvariant, PTL

\* Never more than maxSessions sessions, or those of the start, are at work before the
\* shutdown, and none
\* serves more than maxPagesPerSession pages, except for those given back twice.
THEOREM PoolWithinLimits == Spec => []WithinLimits
<1>1. PoolInv => WithinLimits
  <2> SUFFICES ASSUME PoolInv PROVE WithinLimits
    OBVIOUS
  <2>1. ASSUME NEW b \in pool
        PROVE  Counted(b) <= MaxPages + late[b]
    <3>1. Counted(b) <= activePages[b] + late[b] /\ activePages[b] <= MaxPages
      BY DEF PoolInv, PagesAccounted, Accounts, PagesCapped, TypeOK
    <3>2. activePages[b] \in Nat /\ late[b] \in Nat /\ Counted(b) \in Nat
      BY CountIsNat DEF PoolInv, Accounts, TypeOK
    <3> QED BY <3>1, <3>2, PoolAssumption
  <2>2. SessionsWithinLimit /\ PagesAccounted
    BY DEF PoolInv
  <2> QED BY <2>1, <2>2 DEF WithinLimits, PagesWithinLimitButLate
<1> QED BY <1>1, PoolInvariant, PTL

\* activePages misses no page but those given back twice, and counts none that is back.
THEOREM PoolCountsPages == Spec => []PagesAccounted
<1>1. PoolInv => PagesAccounted
  BY DEF PoolInv
<1> QED BY <1>1, PoolInvariant, PTL

\* Nobody waits for a page that is free, and the acquire lock is always held by a
\* request that waits for something that will come.
THEOREM PoolPassesOn == Spec => []AcquirePassesOn
<1>1. PoolInv => AcquirePassesOn
  <2> SUFFICES ASSUME PoolInv PROVE AcquirePassesOn
    OBVIOUS
  <2>1. ASSUME line # <<>>, pc[Head(line)] = "queued"
        PROVE  Best = {}
    <3>1. Head(line) \in Requests
      BY <2>1 DEF PoolInv, TypeOK
    <3>2. Full
      BY <2>1, <3>1 DEF PoolInv, WaitsOnlyWhenFull
    <3>3. \A b \in pool : activePages[b] \in Nat
      BY DEF PoolInv, TypeOK
    <3> QED BY <3>2, <3>3, PoolAssumption DEF Best, ActiveSessions, Full
  <2> QED BY <2>1 DEF PoolInv, LineInv, AcquirePassesOn, NoStrandedWaiter
<1> QED BY <1>1, PoolInvariant, PTL

\* No session is closed under a page, unless one of its pages was given back twice.
THEOREM PoolClosesEmpty == Spec => ClosedWhenEmpty
<1> DEFINE Empty == \A b \in pool \ pool' :
                      /\ b \in open' /\ stage' # "down"
                      /\ late[b] = 0 /\ \A x \in releases : x.at = b => ~x.again
                      => \A r \in handles : at[r] # b
<1>1. ASSUME PoolInv, Next
      PROVE  Empty
  <2>1. SUFFICES ASSUME NEW b \in pool, b \notin pool', b \in open', stage' # "down", late[b] = 0,
                        \A x \in releases : x.at = b => ~x.again
                 PROVE  HeldOf(b) = {}
    BY DEF HeldOf
  <2>2. /\ b \in Sessions /\ activePages[b] \in Nat /\ late[b] = 0
        /\ activePages[b] <= Counted(b) /\ Counted(b) <= activePages[b] + late[b]
    BY <1>1, <2>1 DEF PoolInv, PagesAccounted, TypeOK
  <2>3. /\ IsFiniteSet(HeldOf(b)) /\ IsFiniteSet(BackOf(b))
        /\ Cardinality(HeldOf(b)) \in Nat /\ Cardinality(BackOf(b)) \in Nat
        /\ Counted(b) = Cardinality(HeldOf(b)) + Cardinality(BackOf(b))
    BY <1>1, CountIsNat DEF PoolInv, Accounts, Counted
  <2>4. CASE activePages[b] = 0
    <3>1. Cardinality(HeldOf(b)) = 0
      BY <2>2, <2>3, <2>4
    <3> QED BY <2>3, <3>1, FS_EmptySet
  <2>5. CASE /\ BackOf(b) # {} /\ activePages[b] <= 1
    <3>1. Cardinality(BackOf(b)) # 0
      BY <2>3, <2>5, FS_EmptySet
    <3>2. Cardinality(HeldOf(b)) = 0
      BY <2>2, <2>3, <2>5, <3>1
    <3> QED BY <2>3, <3>2, FS_EmptySet
  <2>6. ASSUME NEW st, Grows(st)
        PROVE  FALSE
    BY <2>1, <2>6 DEF Grows
  <2>7. pool' # pool
    BY <2>1
  <2>8. ASSUME NEW x \in releases, ContextClosed(x)
        PROVE  BackOf(b) # {} /\ activePages[b] <= 1
    <3> DEFINE n == [activePages EXCEPT ![x.at] = IF @ > 0 THEN @ - 1 ELSE 0]
               empty == {c \in {x.at} : state[c] = "retiring" /\ n[c] = 0}
    <3>1. /\ x.step = "closing" /\ x.at \in pool /\ pool' = pool \ empty
      BY <2>8 DEF ContextClosed, Close
    <3>2. x.at = b /\ n[b] = 0
      BY <2>1, <3>1
    <3>3. x \in BackOf(b)
      BY <2>1, <3>1, <3>2 DEF BackOf
    <3>4. activePages[b] <= 1
      BY <1>1, <2>2, <3>2 DEF PoolInv, TypeOK
    <3> QED BY <3>3, <3>4
  <2>9. CASE Maintenance
    <3>1. PICK old \in SUBSET ActiveSessions, stale \in SUBSET (handles \cap Slow) :
            \E idle \in SUBSET ActiveSessions : Maintain(old, idle, stale)
      BY <2>9 DEF Maintenance
    <3>2. activePages[b] = 0
      BY <2>1, <3>1 DEF Maintain
    <3> QED BY <2>4, <3>2
  <2>10. ASSUME NEW c \in Sessions, Connect(c) \/ Disconnected(c)
         PROVE  FALSE
    <3>1. CASE SessionReady(c)
      BY <2>7, <3>1 DEF SessionReady
    <3>2. CASE SessionFails(c)
      BY <1>1, <2>1, <3>2 DEF SessionFails, Close, PoolInv, Accounts, SessionsPlaced, TypeOK
    <3>3. CASE Disconnected(c)
      BY <2>1, <3>3 DEF Disconnected, Close
    <3> QED BY <2>10, <3>1, <3>2, <3>3 DEF Connect
  <2>11. ASSUME NEW r \in Requests,
                \/ AcquirePage(r) \/ Refuse(r) \/ Acquire(r)
                \/ AcquireOneShot(r) \/ OneShotOpens(r) \/ OneShotFails(r)
                \/ Succeed(r) \/ Fail(r) \/ AfterFailure(r)
         PROVE  FALSE
    <3>1. ASSUME AcquirePage(r) \/ OpenPage(r) PROVE FALSE
      <4>1. \E st, n : EnsureCapacity(st, n)
        BY <3>1 DEF AcquirePage, OpenPage
      <4> QED BY <2>6, <4>1, CapacityGrows
    <3>2. ASSUME DoAcquirePage(r) \/ Poll(r) PROVE FALSE
      BY <1>1, <2>6, <2>7, <3>2, HeadMoves DEF PoolInv, Take, Creates, sessionVars
    <3> QED BY <2>7, <2>11, <3>1, <3>2
            DEF Refuse, Acquire, AcquireOneShot, OneShotOpens, OneShotFails, QueueTimeout, OpenFails,
                Succeed, Fail, AfterFailure, ReleasePage, sessionVars
  <2>12. ASSUME NEW x \in releases, ReturnUncounted(x) \/ Reaped(x)
         PROVE  FALSE
    BY <2>7, <2>12 DEF ReturnUncounted, Reaped, sessionVars
  <2>13. CASE Shutdown \/ CloseAll
    BY <2>1, <2>7, <2>13 DEF Shutdown, CloseAll
  <2> QED BY <1>1, <2>5, <2>8, <2>9, <2>10, <2>11, <2>12, <2>13 DEF Next, Step, Return
<1>2. PoolInv /\ [Next]_vars => [Empty]_vars
  BY <1>1
<1> QED BY <1>2, PoolInvariant, PTL DEF Spec, ClosedWhenEmpty

-----------------------------------------------------------------------------
(* Recordings: the inductive invariant, in parts. *)

\* What a chunk holds: every frame that was recorded for it, where it was recorded.
Holding(data, c) ==
  \A n \in DOMAIN frames : frames[n].chunk = c =>
    frames[n].offset < Len(data) /\ data[frames[n].offset + 1] = n

\* The chunk being filled, those being written and those on disk.
ChunksHold ==
  /\ frames \in Seq(Records) /\ buffer \in Seq(Nat) /\ chunk \in Nat
  /\ \A n \in DOMAIN frames : frames[n].chunk <= chunk
  /\ Holding(buffer, chunk)
  /\ \A w \in writes : w.chunk \in Nat /\ w.chunk < chunk /\ Holding(w.data, w.chunk)
  /\ \A c \in DOMAIN parts : c \in Nat /\ c < chunk /\ Holding(parts[c], c)

Ended == {"complete", "over", "failed", "dead"}

\* No chunk is forgotten: one that was flushed is on disk or lost, or it is being written.
ChunksAccounted ==
  /\ recorder \in {"idle", "making", "meta"} => chunk = 0
  /\ recorder \in {"ending", "manifest", "complete", "over"} => buffer = << >>
  /\ recorder \in {"manifest", "complete", "over"} => writes = {}
  /\ files["dir"] = "whole" /\ recorder \notin {"failed", "dead"} =>
       \A c \in 0..chunk : c < chunk => c \in lostChunks \cup DOMAIN parts \/ \E w \in writes : w.chunk = c

\* A manifest that is there names what is on disk, and nothing is written any more.
ManifestIsTrue ==
  /\ files \in [FileNames -> {"none", "torn", "whole"}]
  /\ files["manifest"] # "none" => files["dir"] = "whole" /\ recorder \in Ended \cup {"manifest"}
  /\ files["complete"] # "none" => files["manifest"] = "whole"
  /\ files["manifest"] = "whole" =>
       /\ recorder \in Ended /\ writes = {} /\ manifest = Named
       /\ \A n \in Named : frames[n].chunk \in DOMAIN parts

\* The picture last kept of a tab is its last in the recording, and the last read
\* unless one was dropped.
LastIsShown ==
  /\ shown \in [Tabs -> Pictures \cup {NoPicture}] /\ latest \in [Tabs -> Pictures \cup {NoPicture}]
  /\ \A t \in Tabs \ missed : latest[t] # NoPicture => shown[t] = latest[t]
  /\ \A t \in Tabs : shown[t] # NoPicture =>
       \E n \in DOMAIN frames : /\ frames[n].tab = t /\ frames[n].picture = shown[t]
                                /\ \A m \in DOMAIN frames : frames[m].tab = t => m <= n

\* The messages of a tab, in its life.  It is armed once, and only one that is gone
\* has left.
TabsInOrder ==
  /\ up \in Seq(Messages)
  /\ page \in [Tabs -> {"none", "open", "casting", "gone"}]
  /\ target \in [Tabs -> {"none", "arming", "armed"}]
  /\ \A i \in DOMAIN up : page[up[i][2]] # "none"
  /\ \A i \in DOMAIN up : up[i][1] = "detached" => page[up[i][2]] = "gone"
  /\ \A i \in DOMAIN up : up[i][1] = "sized" /\ Live(up[i][2]) => target[up[i][2]] = "arming"
  /\ \A i, j \in DOMAIN up :
       up[i][1] \in {"attached", "sized"} /\ up[j][1] \in {"attached", "sized"} /\ up[i][2] = up[j][2] => i = j
  /\ \A t \in Tabs : page[t] = "casting" => target[t] # "none"

\* Once the cap stopped them, only tabs that were being armed can cast.
StoppedStayStopped ==
  stopped => \A t \in Tabs \ lateArm : page[t] # "casting" /\ target[t] # "arming"

\* What the browser waits for.
Waiting ==
  /\ unacked \in [Tabs -> Nat] /\ skips \in Nat
  /\ \A t \in Tabs :
       /\ Unread(t) <= unacked[t]
       /\ ~stopped /\ page[t] \in {"none", "open"} => unacked[t] = 0
       /\ ~stopped /\ skips = 0 /\ page[t] = "casting" => unacked[t] = Unread(t)

-----------------------------------------------------------------------------
(* Recordings: messages, and how many of them are frames of a tab. *)

\* What a message is.
LEMMA MessageForms ==
  ASSUME NEW m \in Messages
  PROVE  /\ m[1] \in {"attached", "detached", "sized", "frame"} /\ m[2] \in Tabs
         /\ m[1] = "frame" => m[3] \in Pictures
         /\ \A t \in Tabs : m \in FramesOf(t) <=> m[1] = "frame" /\ m[2] = t
<1>1. CASE m \in {"attached", "detached", "sized"} \X Tabs
  <2>1. m[1] \in {"attached", "detached", "sized"} /\ m[2] \in Tabs
    BY <1>1
  <2>2. ASSUME NEW t \in Tabs PROVE m \notin FramesOf(t)
    <3>1. \A f \in FramesOf(t) : f[1] = "frame"
      BY DEF FramesOf
    <3> QED BY <2>1, <3>1
  <2> QED BY <2>1, <2>2
<1>2. CASE m \in {"frame"} \X Tabs \X Pictures
  <2>1. PICK t \in Tabs, p \in Pictures : m = <<"frame", t, p>>
    BY <1>2
  <2> QED BY <2>1 DEF FramesOf
<1> QED BY <1>1, <1>2 DEF Messages

\* The places of a sequence where a set is met.
Spots(s, P) == {i \in DOMAIN s : s[i] \in P}
Occurring(s, P) == Cardinality(Spots(s, P))

\* They are finitely many.
LEMMA SpotsFinite ==
  ASSUME NEW S, NEW s \in Seq(S), NEW P
  PROVE  IsFiniteSet(Spots(s, P)) /\ Occurring(s, P) \in Nat
<1>1. IsFiniteSet(1..Len(s)) /\ Spots(s, P) \subseteq 1..Len(s)
  BY FS_Interval DEF Spots
<1> QED BY <1>1, FS_Subset, FS_CardinalityType DEF Occurring

\* An element at the end counts, if it is one ...
LEMMA OccurringAppend ==
  ASSUME NEW S, NEW s \in Seq(S), NEW m \in S, NEW P
  PROVE  Occurring(Append(s, m), P) = IF m \in P THEN Occurring(s, P) + 1 ELSE Occurring(s, P)
<1> DEFINE last == Len(s) + 1
<1>1. IsFiniteSet(Spots(s, P)) /\ Occurring(s, P) \in Nat /\ last \notin Spots(s, P)
  BY SpotsFinite DEF Spots
<1>2. Spots(Append(s, m), P) = IF m \in P THEN Spots(s, P) \cup {last} ELSE Spots(s, P)
  BY DEF Spots
<1> HIDE DEF last
<1>3. Cardinality(Spots(s, P) \cup {last}) = Cardinality(Spots(s, P)) + 1
  BY <1>1, FS_AddElement
<1> QED BY <1>2, <1>3 DEF Occurring

\* ... and so does one that leaves at the front.
LEMMA OccurringTail ==
  ASSUME NEW S, NEW s \in Seq(S), s # << >>, NEW P
  PROVE  Occurring(s, P) = IF Head(s) \in P THEN Occurring(Tail(s), P) + 1 ELSE Occurring(Tail(s), P)
<1> DEFINE T == Spots(Tail(s), P)
           U == {i \in Spots(s, P) : i # 1}
           f == [i \in T |-> i + 1]
<1>1. Tail(s) \in Seq(S) /\ Len(s) \in Nat \ {0} /\ Len(Tail(s)) = Len(s) - 1
      /\ \A i \in 1..(Len(s) - 1) : Tail(s)[i] = s[i + 1]
  OBVIOUS
<1>2. IsFiniteSet(T) /\ Occurring(Tail(s), P) \in Nat /\ IsFiniteSet(Spots(s, P))
  BY <1>1, SpotsFinite
<1>3. \A i : i \in T <=> i \in 1..(Len(s) - 1) /\ s[i + 1] \in P
  BY <1>1 DEF Spots
<1>4. \A j : j \in U <=> j \in 2..Len(s) /\ s[j] \in P
  BY <1>1 DEF Spots
<1>5. f \in Bijection(T, U)
  <2>1. \A i \in T : i \in Nat /\ f[i] = i + 1 /\ f[i] \in U
    BY <1>1, <1>3, <1>4
  <2>2. \A j \in U : j - 1 \in T /\ f[j - 1] = j
    BY <1>1, <1>3, <1>4
  <2>3. f \in [T -> U] /\ \A i, j \in T : f[i] = f[j] => i = j
    BY <2>1
  <2> QED BY <2>2, <2>3 DEF Bijection, Injection, IsInjective, Surjection
<1> HIDE DEF T, U, f
<1>6. Cardinality(U) = Cardinality(T)
  <2>1. ExistsBijection(T, U)
    BY <1>5 DEF ExistsBijection
  <2> QED BY <1>2, <2>1, FS_Bijection
<1>7. CASE Head(s) \in P
  <2>1. 1 \in Spots(s, P) /\ U = Spots(s, P) \ {1}
    BY <1>1, <1>7 DEF Spots, U
  <2>2. Cardinality(U) = Cardinality(Spots(s, P)) - 1 /\ Cardinality(Spots(s, P)) \in Nat
    BY <1>2, <2>1, FS_RemoveElement, FS_CardinalityType
  <2> QED BY <1>2, <1>6, <1>7, <2>2 DEF Occurring, T
<1>8. CASE Head(s) \notin P
  <2>1. U = Spots(s, P)
    BY <1>1, <1>8 DEF Spots, U
  <2> QED BY <1>6, <1>8, <2>1 DEF Occurring, T
<1> QED BY <1>7, <1>8

-----------------------------------------------------------------------------
(* Recordings: chunks, writes and the manifest. *)

\* What is recorded, being recorded and on disk.
ChunkState == <<recorder, frames, buffer, chunk, writes, lostChunks, parts, files, manifest>>

\* The frame that is kept goes where its record says; what was recorded before stays.
LEMMA KeepHolds ==
  ASSUME NEW t \in Tabs, NEW p \in Pictures, ChunksHold, AppendFrame(t, p), UNCHANGED parts
  PROVE  /\ ChunksHold'
         /\ frames' \in Seq(Records) /\ Len(frames') = Len(frames) + 1
         /\ frames'[Len(frames) + 1].tab = t /\ frames'[Len(frames) + 1].picture = p
         /\ \A n \in DOMAIN frames : n \in DOMAIN frames' /\ frames'[n] = frames[n]
         /\ \/ chunk' = chunk /\ writes' = writes
            \/ chunk' = chunk + 1 /\ writes' = writes \cup {[chunk |-> chunk, data |-> buffer]}
<1> DEFINE last == Len(frames) + 1
<1>1. PICK full \in BOOLEAN :
        /\ IF full THEN Flushed(buffer) ELSE UNCHANGED <<writes, chunk>>
        /\ Keep(t, p, full)
  BY DEF AppendFrame
<1> DEFINE room == IF full THEN << >> ELSE buffer
           rec == [tab |-> t, picture |-> p, chunk |-> chunk', offset |-> Len(room)]
<1>2. /\ chunk \in Nat /\ frames \in Seq(Records) /\ buffer \in Seq(Nat) /\ room \in Seq(Nat)
      /\ chunk' \in Nat /\ chunk' = (IF full THEN chunk + 1 ELSE chunk)
      /\ frames' = Append(frames, rec) /\ buffer' = Append(room, last)
  BY <1>1 DEF ChunksHold, Flushed, Keep
<1>3. rec \in Records
  BY <1>2 DEF Records
<1>4. /\ frames' \in Seq(Records) /\ Len(frames') = last /\ frames'[last] = rec
      /\ \A n \in DOMAIN frames : n \in DOMAIN frames' /\ frames'[n] = frames[n] /\ n \in Nat
      /\ \A n \in DOMAIN frames' : n = last \/ n \in DOMAIN frames
  BY <1>2, <1>3
<1>5. /\ buffer' \in Seq(Nat) /\ Len(buffer') = Len(room) + 1 /\ buffer'[Len(room) + 1] = last
      /\ \A i \in 1..Len(room) : buffer'[i] = room[i]
      /\ Len(room) \in Nat
  <2>1. last \in Nat
    BY <1>2
  <2> HIDE DEF last, room
  <2> QED BY <1>2, <2>1
<1>6. /\ rec.chunk = chunk' /\ rec.offset = Len(room) /\ rec.tab = t /\ rec.picture = p
      /\ \A n \in DOMAIN frames : frames[n].chunk \in Nat /\ frames[n].offset \in Nat /\ frames[n].chunk <= chunk
  <2>1. \A r \in Records : r.chunk \in Nat /\ r.offset \in Nat
    BY DEF Records
  <2>2. \A n \in DOMAIN frames : frames[n] \in Records
    BY <1>2
  <2> QED BY <2>1, <2>2 DEF ChunksHold
<1>7. \A n \in DOMAIN frames : frames[n].chunk = chunk' =>
        frames[n].offset < Len(room) /\ room[frames[n].offset + 1] = n
  <2>1. CASE full
    BY <1>2, <1>6, <2>1
  <2>2. CASE ~full
    <3>1. room = buffer /\ chunk' = chunk /\ Holding(buffer, chunk)
      BY <1>2, <2>2 DEF ChunksHold
    <3> QED BY <3>1 DEF Holding
  <2> QED BY <2>1, <2>2
<1> HIDE DEF room, rec, last
<1>8. Holding(buffer, chunk)'
  <2> SUFFICES ASSUME NEW n \in DOMAIN frames', frames'[n].chunk = chunk'
               PROVE  frames'[n].offset < Len(buffer') /\ buffer'[frames'[n].offset + 1] = n
    BY DEF Holding
  <2>1. CASE n = last
    BY <1>4, <1>5, <1>6, <2>1
  <2>2. CASE n \in DOMAIN frames
    <3>1. frames[n].offset \in Nat /\ frames[n].offset < Len(room) /\ room[frames[n].offset + 1] = n
      BY <1>4, <1>6, <1>7, <2>2
    <3>2. frames[n].offset + 1 \in 1..Len(room)
      BY <1>5, <3>1
    <3> QED BY <1>4, <1>5, <2>2, <3>1, <3>2
  <2> QED BY <1>4, <2>1, <2>2
<1>9. ASSUME NEW data, NEW c \in Nat, c < chunk', Holding(data, c)
      PROVE  \A n \in DOMAIN frames' : frames'[n].chunk = c =>
               frames'[n].offset < Len(data) /\ data[frames'[n].offset + 1] = n
  BY <1>2, <1>4, <1>6, <1>9 DEF Holding
<1>10. \A w \in writes' : w.chunk \in Nat /\ w.chunk < chunk' /\ Holding(w.data, w.chunk)
  <2>1. ASSUME NEW w \in writes PROVE w.chunk \in Nat /\ w.chunk < chunk' /\ Holding(w.data, w.chunk)
    BY <1>2 DEF ChunksHold
  <2>2. Holding(buffer, chunk)
    BY DEF ChunksHold
  <2>3. writes' = IF full THEN writes \cup {[chunk |-> chunk, data |-> buffer]} ELSE writes
    BY <1>1 DEF Flushed
  <2> QED BY <1>2, <2>1, <2>2, <2>3
<1>11. \A c \in DOMAIN parts : c \in Nat /\ c < chunk' /\ Holding(parts[c], c)
  BY <1>2 DEF ChunksHold
<1>12. \A n \in DOMAIN frames' : frames'[n].chunk <= chunk'
  BY <1>2, <1>4, <1>6
<1>13. \A w \in writes' : (Holding(w.data, w.chunk))'
  BY <1>9, <1>10 DEF Holding
<1>14. \A c \in DOMAIN parts' : (Holding(parts[c], c))'
  <2>1. ASSUME NEW c \in DOMAIN parts
        PROVE  \A n \in DOMAIN frames' : frames'[n].chunk = c =>
                 frames'[n].offset < Len(parts[c]) /\ parts[c][frames'[n].offset + 1] = n
    BY <1>9, <1>11
  <2> QED BY <2>1 DEF Holding
<1>15. ChunksHold'
  BY <1>2, <1>4, <1>5, <1>8, <1>10, <1>11, <1>12, <1>13, <1>14 DEF ChunksHold
<1>16. \/ chunk' = chunk /\ writes' = writes
       \/ chunk' = chunk + 1 /\ writes' = writes \cup {[chunk |-> chunk, data |-> buffer]}
  BY <1>1 DEF Flushed
<1> QED BY <1>4, <1>6, <1>15, <1>16 DEF last

\* The parts of the invariant about the recording.
ChunksSound == ChunksHold /\ ChunksAccounted /\ ManifestIsTrue

\* Browser and messages do not touch the chunks.
LEMMA ChunksStutter ==
  ASSUME ChunksSound, UNCHANGED ChunkState
  PROVE  ChunksSound'
<1>1. ChunksHold'
  BY DEF ChunksSound, ChunksHold, Holding, ChunkState
<1>2. ChunksAccounted'
  BY DEF ChunksSound, ChunksAccounted, ChunkState
<1>3. ManifestIsTrue'
  BY DEF ChunksSound, ManifestIsTrue, ChunkState, Named, Ended
<1> QED BY <1>1, <1>2, <1>3 DEF ChunksSound

\* What leaves the chunks where they are.
LEMMA HoldsStutter ==
  ASSUME ChunksHold, UNCHANGED <<frames, buffer, chunk>>, writes' \subseteq writes, UNCHANGED parts
  PROVE  ChunksHold'
BY DEF ChunksHold, Holding

\* At the start there is no chunk yet.
LEMMA StartKeepsChunks ==
  ASSUME ChunksSound, OnSessionStart \/ StorageMade \/ Started \/ StorageFails
  PROVE  ChunksSound'
<1>1. ChunksHold'
  BY HoldsStutter DEF ChunksSound, OnSessionStart, StorageMade, Started, StorageFails, chunkVars, diskVars
<1>2. ChunksAccounted'
  <2>1. UNCHANGED <<buffer, chunk, writes, lostChunks, parts>> /\ chunk = 0
    BY DEF ChunksSound, ChunksAccounted, OnSessionStart, StorageMade, Started, StorageFails, chunkVars, diskVars
  <2>2. \A c \in 0..chunk : ~(c < chunk)
    BY <2>1
  <2>3. recorder' \in {"making", "meta", "recording", "failed"}
    BY DEF OnSessionStart, StorageMade, Started, StorageFails
  <2> QED BY <2>1, <2>2, <2>3 DEF ChunksAccounted
<1>3. ManifestIsTrue'
  <2>1. /\ recorder \in {"idle", "making", "meta"}
        /\ UNCHANGED <<frames, lostChunks, parts, manifest>>
    BY DEF OnSessionStart, StorageMade, Started, StorageFails, chunkVars, diskVars
  <2>2. files["manifest"] = "none" /\ files["complete"] = "none"
    BY <2>1 DEF ChunksSound, ManifestIsTrue, Ended, FileNames
  <2>3. files' \in [FileNames -> {"none", "torn", "whole"}] /\ files'["manifest"] = "none" /\ files'["complete"] = "none"
    BY <2>2 DEF ChunksSound, ManifestIsTrue, FileNames, OnSessionStart, StorageMade, Started, StorageFails, diskVars
  <2> QED BY <2>3 DEF ManifestIsTrue
<1> QED BY <1>1, <1>2, <1>3 DEF ChunksSound

\* A directory that is removed holds nothing.
LEMMA RemovalKeepsChunks ==
  ASSUME ChunksSound, Removed
  PROVE  ChunksSound'
<1>1. /\ files' = Absent /\ DOMAIN parts' = {} /\ UNCHANGED <<recorder, frames, buffer, chunk, writes, lostChunks>>
  BY DEF Removed, chunkVars
<1>2. /\ Absent \in [FileNames -> {"none", "torn", "whole"}]
      /\ Absent["dir"] = "none" /\ Absent["manifest"] = "none" /\ Absent["complete"] = "none"
  BY DEF Absent, FileNames
<1>3. ChunksHold'
  BY <1>1 DEF ChunksSound, ChunksHold, Holding
<1>4. ChunksAccounted'
  BY <1>1, <1>2 DEF ChunksSound, ChunksAccounted
<1>5. ManifestIsTrue'
  BY <1>1, <1>2 DEF ManifestIsTrue
<1> QED BY <1>3, <1>4, <1>5 DEF ChunksSound

\* A frame fills the chunk, and may flush it first.
LEMMA FrameKeepsChunks ==
  ASSUME ChunksSound, up \in Seq(Messages), OnFrame
  PROVE  ChunksSound'
<1>1. CASE UNCHANGED chunkVars
  BY <1>1, ChunksStutter DEF OnFrame, ChunkState, chunkVars, diskVars
<1>2. CASE ~UNCHANGED chunkVars
  <2>1. PICK t, p : AppendFrame(t, p) /\ t = Head(up)[2] /\ p = Head(up)[3]
    BY <1>2 DEF OnFrame
  <2>2. /\ up # << >> /\ Head(up)[1] = "frame" /\ recorder = "recording"
        /\ UNCHANGED <<recorder, lostChunks, parts, files, manifest>>
    BY DEF OnFrame, Reads, diskVars
  <2>3. Head(up) \in Messages
    BY <2>2
  <2>4. t \in Tabs /\ p \in Pictures
    BY <2>1, <2>2, <2>3, MessageForms
  <2>5. /\ ChunksHold'
        /\ \/ chunk' = chunk /\ writes' = writes
           \/ chunk' = chunk + 1 /\ writes' = writes \cup {[chunk |-> chunk, data |-> buffer]}
    BY <2>1, <2>2, <2>4, KeepHolds DEF ChunksSound
  <2>6. ChunksAccounted'
    <3>1. ASSUME NEW c \in 0..chunk', c < chunk', files["dir"] = "whole"
          PROVE  c \in lostChunks \cup DOMAIN parts \/ \E w \in writes' : w.chunk = c
      <4>1. chunk \in Nat
        BY DEF ChunksSound, ChunksHold
      <4>2. CASE c \in 0..chunk /\ c < chunk
        <5>1. c \in lostChunks \cup DOMAIN parts \/ \E w \in writes : w.chunk = c
          BY <2>2, <3>1, <4>2 DEF ChunksSound, ChunksAccounted
        <5> QED BY <2>5, <5>1
      <4>3. CASE c = chunk
        <5>1. [chunk |-> chunk, data |-> buffer] \in writes'
          BY <2>5, <3>1, <4>1, <4>3
        <5> QED BY <4>3, <5>1
      <4> QED BY <2>5, <3>1, <4>1, <4>2, <4>3
    <3> QED BY <2>2, <3>1 DEF ChunksAccounted
  <2>7. ManifestIsTrue'
    BY <2>2 DEF ChunksSound, ManifestIsTrue, Ended
  <2> QED BY <2>5, <2>6, <2>7 DEF ChunksSound
<1> QED BY <1>1, <1>2

\* A write that ends leaves its chunk on disk, or lost.
LEMMA WriteKeepsChunks ==
  ASSUME ChunksSound, NEW w \in writes, ChunkWritten(w)
  PROVE  ChunksSound'
<1>1. /\ writes' = writes \ {w} /\ UNCHANGED <<recorder, frames, buffer, chunk, files, manifest>>
      /\ \/ DOMAIN parts' = DOMAIN parts \cup {w.chunk} /\ UNCHANGED lostChunks
            /\ \A c \in DOMAIN parts' : parts'[c] = IF c = w.chunk THEN w.data ELSE parts[c]
         \/ lostChunks' = lostChunks \cup {w.chunk} /\ UNCHANGED parts
  BY DEF ChunkWritten
<1>2. w.chunk \in Nat /\ w.chunk < chunk /\ Holding(w.data, w.chunk)
  BY DEF ChunksSound, ChunksHold
<1>3. \A c \in DOMAIN parts' : c \in Nat /\ c < chunk /\ Holding(parts'[c], c)
  BY <1>1, <1>2 DEF ChunksSound, ChunksHold
<1>4. ChunksHold'
  <2>1. (\A c \in DOMAIN parts : c \in Nat /\ c < chunk /\ Holding(parts[c], c))'
    BY <1>1, <1>3 DEF Holding
  <2>2. (\A v \in writes : v.chunk \in Nat /\ v.chunk < chunk /\ Holding(v.data, v.chunk))'
    BY <1>1 DEF ChunksSound, ChunksHold, Holding
  <2>3. Holding(buffer, chunk)'
    BY <1>1 DEF ChunksSound, ChunksHold, Holding
  <2> QED BY <1>1, <2>1, <2>2, <2>3 DEF ChunksSound, ChunksHold
<1>5. ChunksAccounted'
  BY <1>1 DEF ChunksSound, ChunksAccounted
<1>6. ManifestIsTrue'
  <2>1. files["manifest"] # "whole"
    BY DEF ChunksSound, ManifestIsTrue
  <2> QED BY <1>1, <2>1 DEF ChunksSound, ManifestIsTrue
<1> QED BY <1>4, <1>5, <1>6 DEF ChunksSound

\* The end flushes what is left.
LEMMA EndKeepsChunks ==
  ASSUME ChunksSound, OnSessionEnd
  PROVE  ChunksSound'
<1>1. /\ recorder = "recording" /\ recorder' = "ending" /\ buffer' = << >>
      /\ UNCHANGED <<frames, lostChunks, parts, files, manifest>>
      /\ IF buffer # << >> THEN Flushed(buffer) ELSE UNCHANGED <<writes, chunk>>
  BY DEF OnSessionEnd, diskVars
<1>2. /\ chunk \in Nat /\ chunk' \in Nat
      /\ \/ buffer = << >> /\ chunk' = chunk /\ writes' = writes
         \/ chunk' = chunk + 1 /\ writes' = writes \cup {[chunk |-> chunk, data |-> buffer]}
  BY <1>1 DEF ChunksSound, ChunksHold, Flushed
<1>3. \A n \in DOMAIN frames : frames[n].chunk \in Nat /\ frames[n].chunk <= chunk
  <2>1. frames \in Seq(Records) /\ \A r \in Records : r.chunk \in Nat
    BY DEF ChunksSound, ChunksHold, Records
  <2> QED BY <2>1 DEF ChunksSound, ChunksHold
<1>4. ChunksHold'
  <2>1. Holding(buffer, chunk)'
    <3>1. CASE buffer = << >> /\ chunk' = chunk
      BY <1>1, <3>1 DEF ChunksSound, ChunksHold, Holding
    <3>2. CASE chunk' = chunk + 1
      BY <1>1, <1>2, <1>3, <3>2 DEF Holding
    <3> QED BY <1>2, <3>1, <3>2
  <2>2. (\A w \in writes : w.chunk \in Nat /\ w.chunk < chunk /\ Holding(w.data, w.chunk))'
    <3>1. \A w \in writes' : w.chunk \in Nat /\ w.chunk < chunk' /\ Holding(w.data, w.chunk)
      <4>1. ASSUME NEW w \in writes PROVE w.chunk \in Nat /\ w.chunk < chunk' /\ Holding(w.data, w.chunk)
        BY <1>2 DEF ChunksSound, ChunksHold
      <4>2. Holding(buffer, chunk)
        BY DEF ChunksSound, ChunksHold
      <4> QED BY <1>2, <4>1, <4>2
    <3> QED BY <1>1, <3>1 DEF Holding
  <2>3. (\A c \in DOMAIN parts : c \in Nat /\ c < chunk /\ Holding(parts[c], c))'
    BY <1>1, <1>2 DEF ChunksSound, ChunksHold, Holding
  <2>4. (\A n \in DOMAIN frames : frames[n].chunk <= chunk)'
    BY <1>1, <1>2, <1>3
  <2> QED BY <1>1, <1>2, <2>1, <2>2, <2>3, <2>4 DEF ChunksSound, ChunksHold
<1>5. ChunksAccounted'
  <2>1. ASSUME NEW c \in 0..chunk', c < chunk', files["dir"] = "whole"
        PROVE  c \in lostChunks \cup DOMAIN parts \/ \E w \in writes' : w.chunk = c
    <3>1. CASE c \in 0..chunk /\ c < chunk
      <4>1. c \in lostChunks \cup DOMAIN parts \/ \E w \in writes : w.chunk = c
        BY <1>1, <2>1, <3>1 DEF ChunksSound, ChunksAccounted
      <4> QED BY <1>2, <4>1
    <3>2. CASE c = chunk
      <4>1. [chunk |-> chunk, data |-> buffer] \in writes'
        BY <1>2, <2>1, <3>2
      <4> QED BY <3>2, <4>1
    <3> QED BY <1>2, <2>1, <3>1, <3>2
  <2> QED BY <1>1, <2>1 DEF ChunksAccounted
<1>6. ManifestIsTrue'
  BY <1>1 DEF ChunksSound, ManifestIsTrue, Ended
<1> QED BY <1>4, <1>5, <1>6 DEF ChunksSound

\* The manifest is written when every write is through, so that what it names is there.
LEMMA ManifestKeepsChunks ==
  ASSUME ChunksSound, BeginManifest \/ ManifestWritten \/ CompleteWritten \/ FinalizeFails
  PROVE  ChunksSound'
<1>1. /\ UNCHANGED <<frames, buffer, chunk, writes, lostChunks, parts>>
      /\ files \in [FileNames -> {"none", "torn", "whole"}]
  BY DEF ChunksSound, ManifestIsTrue, BeginManifest, ManifestWritten, CompleteWritten, FinalizeFails, chunkVars, diskVars
<1>2. ChunksHold'
  BY <1>1, HoldsStutter DEF ChunksSound
<1>3. ASSUME BeginManifest
      PROVE  ChunksAccounted' /\ ManifestIsTrue'
  <2>1. recorder = "ending" /\ writes = {} /\ buffer = << >> /\ manifest' = manifest
    BY <1>3 DEF BeginManifest, WritesSettled, ChunksSound, ChunksAccounted
  <2>2. files["manifest"] = "none" /\ files["complete"] = "none"
    BY <1>1, <2>1 DEF ChunksSound, ManifestIsTrue, Ended, FileNames
  <2>3. CASE files["dir"] = "whole"
    <3>1. /\ recorder' = "manifest" /\ files' = [files EXCEPT !["manifest"] = "torn"]
      BY <1>3, <2>3 DEF BeginManifest
    <3>2. /\ files' \in [FileNames -> {"none", "torn", "whole"}] /\ files'["dir"] = "whole"
          /\ files'["manifest"] = "torn" /\ files'["complete"] = "none"
      BY <1>1, <2>2, <2>3, <3>1 DEF FileNames
    <3>3. \A c \in 0..chunk : c < chunk => c \in lostChunks \cup DOMAIN parts
      BY <2>1, <2>3 DEF ChunksSound, ChunksAccounted
    <3>4. ChunksAccounted'
      BY <1>1, <2>1, <3>1, <3>3 DEF ChunksAccounted
    <3> QED BY <3>1, <3>2, <3>4 DEF ManifestIsTrue
  <2>4. CASE files["dir"] # "whole"
    <3>1. recorder' = "failed" /\ files' = files
      BY <1>3, <2>4 DEF BeginManifest
    <3> QED BY <1>1, <2>1, <2>2, <3>1 DEF ChunksAccounted, ManifestIsTrue
  <2> QED BY <2>3, <2>4
<1>4. ASSUME ManifestWritten
      PROVE  ChunksAccounted' /\ ManifestIsTrue'
  <2>1. recorder = "manifest" /\ writes = {} /\ buffer = << >>
    BY <1>4 DEF ManifestWritten, ChunksSound, ChunksAccounted
  <2>2. CASE files["manifest"] = "torn"
    <3>1. /\ recorder' = "complete" /\ manifest' = Named /\ files["dir"] = "whole"
          /\ files' = [files EXCEPT !["manifest"] = "whole", !["complete"] = "torn"]
      BY <1>4, <2>2 DEF ManifestWritten, ChunksSound, ManifestIsTrue
    <3>2. /\ files' \in [FileNames -> {"none", "torn", "whole"}] /\ files'["dir"] = "whole"
          /\ files'["manifest"] = "whole" /\ files'["complete"] = "torn"
      BY <1>1, <3>1 DEF FileNames
    <3>3. \A c \in 0..chunk : c < chunk => c \in lostChunks \cup DOMAIN parts
      BY <2>1, <3>1 DEF ChunksSound, ChunksAccounted
    <3>4. ChunksAccounted'
      BY <1>1, <2>1, <3>1, <3>3 DEF ChunksAccounted
    <3>5. \A n \in Named : frames[n].chunk \in DOMAIN parts
      <4> SUFFICES ASSUME NEW n \in Named PROVE frames[n].chunk \in DOMAIN parts
        OBVIOUS
      <4>1. /\ frames \in Seq(Records) /\ chunk \in Nat /\ n \in DOMAIN frames /\ frames[n].chunk <= chunk
            /\ Holding(buffer, chunk) /\ frames[n].chunk \notin lostChunks
        BY DEF ChunksSound, ChunksHold, Named
      <4>2. frames[n].chunk \in Nat /\ frames[n].offset \in Nat
        <5>1. \A r \in Records : r.chunk \in Nat /\ r.offset \in Nat
          BY DEF Records
        <5> QED BY <4>1, <5>1
      <4>3. frames[n].chunk # chunk
        BY <2>1, <4>1, <4>2 DEF Holding
      <4> QED BY <3>3, <4>1, <4>2, <4>3
    <3>6. Named' = Named
      BY <1>1 DEF Named
    <3> QED BY <1>1, <2>1, <3>1, <3>2, <3>4, <3>5, <3>6 DEF ManifestIsTrue, Ended
  <2>3. CASE files["manifest"] # "torn"
    <3>1. recorder' = "failed" /\ files' = files /\ manifest' = manifest
      BY <1>4, <2>3 DEF ManifestWritten
    <3> QED BY <1>1, <2>1, <3>1 DEF ChunksSound, ChunksAccounted, ManifestIsTrue, Ended, Named
  <2> QED BY <2>2, <2>3
<1>5. ASSUME CompleteWritten
      PROVE  ChunksAccounted' /\ ManifestIsTrue'
  <2>1. /\ recorder = "complete" /\ recorder' = "over" /\ writes = {} /\ buffer = << >> /\ manifest' = manifest
        /\ files' = IF files["complete"] = "torn" THEN [files EXCEPT !["complete"] = "whole"] ELSE files
    BY <1>5 DEF CompleteWritten, ChunksSound, ChunksAccounted
  <2>2. /\ files' \in [FileNames -> {"none", "torn", "whole"}]
        /\ files'["dir"] = files["dir"] /\ files'["manifest"] = files["manifest"]
        /\ files'["complete"] # "none" => files["complete"] # "none"
    BY <1>1, <2>1 DEF FileNames
  <2>3. ChunksAccounted'
    BY <1>1, <2>1, <2>2 DEF ChunksSound, ChunksAccounted
  <2> QED BY <1>1, <2>1, <2>2, <2>3 DEF ChunksSound, ManifestIsTrue, Ended, Named
<1>6. ASSUME FinalizeFails
      PROVE  ChunksAccounted' /\ ManifestIsTrue'
  <2>1. /\ recorder \in {"manifest", "complete"} /\ recorder' = "failed" /\ files' = files /\ manifest' = manifest
    BY <1>6 DEF FinalizeFails, diskVars
  <2> QED BY <1>1, <2>1 DEF ChunksSound, ChunksAccounted, ManifestIsTrue, Ended, Named
<1> QED BY <1>2, <1>3, <1>4, <1>5, <1>6 DEF ChunksSound

\* Death leaves the disk alone.
LEMMA DeathKeepsChunks ==
  ASSUME ChunksSound, Dies
  PROVE  ChunksSound'
<1>1. /\ recorder' = "dead" /\ writes' = {}
      /\ UNCHANGED <<frames, buffer, chunk, lostChunks, parts, files, manifest>>
  BY DEF Dies, diskVars
<1>2. ChunksHold'
  BY <1>1, HoldsStutter DEF ChunksSound
<1>3. ChunksAccounted'
  BY <1>1 DEF ChunksAccounted
<1>4. ManifestIsTrue'
  BY <1>1 DEF ChunksSound, ManifestIsTrue, Ended, Named
<1> QED BY <1>2, <1>3, <1>4 DEF ChunksSound

\* What is on disk, being written and in memory agrees, whatever happens.
LEMMA StepKeepsChunks ==
  ASSUME ChunksSound, up \in Seq(Messages), [RecordingNext]_recordingVars
  PROVE  ChunksSound'
<1>1. CASE UNCHANGED recordingVars
  BY <1>1, ChunksStutter DEF recordingVars, ChunkState
<1>2. ASSUME NEW t \in Tabs, TabAttached(t) \/ TabDetached(t) \/ Draws(t)
      PROVE  ChunksSound'
  BY <1>2, ChunksStutter DEF TabAttached, TabDetached, Draws, ChunkState, chunkVars, diskVars
<1>3. CASE OnAttached \/ OnSized \/ OnDetached \/ ClientSlow
  BY <1>3, ChunksStutter DEF OnAttached, OnSized, OnDetached, ClientSlow, ChunkState, chunkVars, diskVars
<1>4. CASE OnFrame
  BY <1>4, FrameKeepsChunks
<1>5. CASE OnSessionStart \/ StorageMade \/ Started \/ StorageFails
  BY <1>5, StartKeepsChunks
<1>6. ASSUME NEW w \in writes, ChunkWritten(w)
      PROVE  ChunksSound'
  BY <1>6, WriteKeepsChunks
<1>7. CASE BeginManifest \/ ManifestWritten \/ CompleteWritten \/ FinalizeFails
  BY <1>7, ManifestKeepsChunks
<1>8. CASE OnSessionEnd \/ Dies
  BY <1>8, EndKeepsChunks, DeathKeepsChunks
<1>9. CASE DeleteReplay \/ PurgeReplay
  BY <1>9, RemovalKeepsChunks DEF DeleteReplay, PurgeReplay
<1> QED BY <1>1, <1>2, <1>3, <1>4, <1>5, <1>6, <1>7, <1>8, <1>9
        DEF RecordingNext, BrowserSteps, PluginSteps, DiskSteps

-----------------------------------------------------------------------------
(* Recordings: the last picture. *)

\* The last picture of a tab, whatever happens to its frames.
LEMMA StepKeepsLast ==
  ASSUME LastIsShown, ChunksSound, up \in Seq(Messages), [RecordingNext]_recordingVars
  PROVE  LastIsShown'
<1>1. ASSUME UNCHANGED <<shown, latest, frames>>, missed \subseteq missed'
      PROVE  LastIsShown'
  BY <1>1 DEF LastIsShown
<1>2. CASE UNCHANGED <<shown, latest, frames, missed>>
  BY <1>1, <1>2
<1>3. CASE ClientSlow
  BY <1>1, <1>3 DEF ClientSlow, chunkVars
<1>4. CASE OnFrame /\ ~UNCHANGED <<shown, latest, frames, missed>>
  <2> DEFINE t == Head(up)[2]
             p == Head(up)[3]
  <2>1. up # << >> /\ Head(up)[1] = "frame" /\ Head(up) \in Messages /\ UNCHANGED parts
    BY <1>4 DEF OnFrame, Reads, diskVars
  <2>2. t \in Tabs /\ p \in Pictures
    BY <2>1, MessageForms
  <2>3. /\ latest' = [latest EXCEPT ![t] = p]
        /\ \/ shown' = shown /\ frames' = frames /\ (missed' = missed \cup {t} \/ (missed' = missed /\ shown[t] = p))
           \/ AppendFrame(t, p) /\ missed' = missed \ {t}
    <3>1. ~(stopped \/ target[t] = "none")
      BY <1>4 DEF OnFrame, chunkVars, ghostVars
    <3>2. latest' = [latest EXCEPT ![t] = p]
      BY <1>4, <3>1 DEF OnFrame
    <3>3. CASE shown' = shown /\ chunkVars' = chunkVars /\ missed' = missed \cup {t}
      BY <3>2, <3>3 DEF chunkVars
    <3>4. CASE shown' = shown /\ chunkVars' = chunkVars /\ missed' = missed /\ SamePicture(t, p)
      BY <3>2, <3>4 DEF chunkVars, SamePicture
    <3>5. CASE AppendFrame(t, p) /\ missed' = missed \ {t}
      BY <3>2, <3>5
    <3>6. \/ shown' = shown /\ chunkVars' = chunkVars /\ missed' = missed \cup {t}
          \/ shown' = shown /\ chunkVars' = chunkVars /\ missed' = missed /\ SamePicture(t, p)
          \/ AppendFrame(t, p) /\ missed' = missed \ {t}
      BY <1>4, <3>1, Zenon DEF OnFrame
    <3> QED BY <3>3, <3>4, <3>5, <3>6
  <2> HIDE DEF t, p
  <2>4. /\ latest' \in [Tabs -> Pictures \cup {NoPicture}] /\ latest'[t] = p
        /\ \A s \in Tabs : s # t => latest'[s] = latest[s]
    BY <2>2, <2>3 DEF LastIsShown
  <2>5. CASE shown' = shown /\ frames' = frames /\ (missed' = missed \cup {t} \/ (missed' = missed /\ shown[t] = p))
    BY <2>4, <2>5 DEF LastIsShown
  <2>6. CASE AppendFrame(t, p) /\ missed' = missed \ {t}
    <3>1. /\ shown' \in [Tabs -> Pictures \cup {NoPicture}] /\ shown'[t] = p
          /\ \A s \in Tabs : s # t => shown'[s] = shown[s]
      BY <2>2, <2>6 DEF AppendFrame, LastIsShown
    <3> DEFINE last == Len(frames) + 1
    <3>2. /\ frames' \in Seq(Records) /\ Len(frames') = last
          /\ frames'[last].tab = t /\ frames'[last].picture = p
          /\ \A n \in DOMAIN frames : n \in DOMAIN frames' /\ frames'[n] = frames[n]
      BY <2>1, <2>2, <2>6, KeepHolds DEF ChunksSound
    <3>3. /\ last \in DOMAIN frames' /\ \A n \in DOMAIN frames' : n <= last /\ (n = last \/ n \in DOMAIN frames)
      <4>1. frames \in Seq(Records)
        BY DEF ChunksSound, ChunksHold
      <4> QED BY <3>2, <4>1
    <3> HIDE DEF last
    <3>4. \A s \in Tabs \ missed' : latest'[s] # NoPicture => shown'[s] = latest'[s]
      BY <2>4, <2>6, <3>1 DEF LastIsShown
    <3>5. ASSUME NEW s \in Tabs, shown'[s] # NoPicture
          PROVE  \E n \in DOMAIN frames' : /\ frames'[n].tab = s /\ frames'[n].picture = shown'[s]
                                           /\ \A m \in DOMAIN frames' : frames'[m].tab = s => m <= n
      <4>1. CASE s = t
        BY <3>1, <3>2, <3>3, <4>1
      <4>2. CASE s # t
        <5>1. shown'[s] = shown[s]
          BY <3>1, <4>2
        <5>2. PICK n \in DOMAIN frames : /\ frames[n].tab = s /\ frames[n].picture = shown[s]
                                         /\ \A m \in DOMAIN frames : frames[m].tab = s => m <= n
          BY <3>5, <5>1 DEF LastIsShown
        <5>3. frames'[n].tab = s /\ frames'[n].picture = shown'[s] /\ n \in DOMAIN frames'
          BY <3>2, <5>1, <5>2
        <5>4. \A m \in DOMAIN frames' : frames'[m].tab = s => m <= n
          BY <3>2, <3>3, <4>2, <5>2
        <5> QED BY <5>3, <5>4
      <4> QED BY <4>1, <4>2
    <3> QED BY <2>4, <3>1, <3>4, <3>5 DEF LastIsShown
  <2> QED BY <2>3, <2>5, <2>6
<1>5. UNCHANGED <<shown, latest, frames, missed>> \/ ClientSlow \/ OnFrame
  <2>1. CASE UNCHANGED recordingVars
    BY <2>1 DEF recordingVars
  <2>2. ASSUME NEW t \in Tabs, TabAttached(t) \/ TabDetached(t) \/ Draws(t)
        PROVE  UNCHANGED <<shown, latest, frames, missed>>
    BY <2>2 DEF TabAttached, TabDetached, Draws, chunkVars, ghostVars
  <2>3. ASSUME NEW w \in writes, ChunkWritten(w)
        PROVE  UNCHANGED <<shown, latest, frames, missed>>
    BY <2>3 DEF ChunkWritten, ghostVars
  <2>4. CASE OnAttached \/ OnSized \/ OnDetached
    BY <2>4 DEF OnAttached, OnSized, OnDetached, chunkVars, ghostVars
  <2>5. CASE OnSessionStart \/ StorageMade \/ Started \/ StorageFails
    BY <2>5 DEF OnSessionStart, StorageMade, Started, StorageFails, chunkVars, ghostVars
  <2>6. CASE BeginManifest \/ ManifestWritten \/ CompleteWritten \/ FinalizeFails
    BY <2>6 DEF BeginManifest, ManifestWritten, CompleteWritten, FinalizeFails, chunkVars, ghostVars
  <2>7. CASE OnSessionEnd \/ Dies \/ DeleteReplay \/ PurgeReplay
    BY <2>7 DEF OnSessionEnd, Dies, DeleteReplay, PurgeReplay, Removed, chunkVars, ghostVars
  <2> QED BY <2>1, <2>2, <2>3, <2>4, <2>5, <2>6, <2>7
          DEF RecordingNext, BrowserSteps, PluginSteps, DiskSteps
<1> QED BY <1>2, <1>3, <1>4, <1>5

-----------------------------------------------------------------------------
(* Recordings: tabs and what is on its way from them. *)

\* The tabs, their messages and the cap.
TabState == <<page, unacked, up, target, stopped, skips, lateArm>>

\* The parts of the invariant about them.
TabsSound == TabsInOrder /\ StoppedStayStopped /\ Waiting

\* The messages that are left when the first was read.
LEMMA ReadOne ==
  ASSUME NEW S, NEW s \in Seq(S), s # << >>
  PROVE  /\ Head(s) \in S /\ Tail(s) \in Seq(S) /\ 1 \in DOMAIN s /\ s[1] = Head(s)
         /\ \A i \in DOMAIN Tail(s) : i \in Nat /\ i + 1 \in DOMAIN s /\ i + 1 # 1 /\ Tail(s)[i] = s[i + 1]
OBVIOUS

\* The messages when one more was sent.
LEMMA SentOne ==
  ASSUME NEW S, NEW s \in Seq(S), NEW m \in S
  PROVE  /\ Append(s, m) \in Seq(S)
         /\ \A i \in DOMAIN Append(s, m) :
              \/ i \in DOMAIN s /\ Append(s, m)[i] = s[i]
              \/ i = Len(s) + 1 /\ Append(s, m)[i] = m
OBVIOUS

\* Messages in flight keep what holds of them as long as their tabs do.
MessageHolds(pg, tg, m) ==
  /\ pg[m[2]] # "none"
  /\ m[1] = "detached" => pg[m[2]] = "gone"
  /\ m[1] = "sized" /\ pg[m[2]] \in {"open", "casting"} => tg[m[2]] = "arming"

\* A tab is armed by one message at a time.
Arming(m) == m[1] \in {"attached", "sized"}

OncePerTab(s) ==
  \A i, j \in DOMAIN s : Arming(s[i]) /\ Arming(s[j]) /\ s[i][2] = s[j][2] => i = j

\* The same invariant, message by message.
LEMMA TabsInOrderIs ==
  TabsInOrder <=>
    /\ up \in Seq(Messages)
    /\ page \in [Tabs -> {"none", "open", "casting", "gone"}]
    /\ target \in [Tabs -> {"none", "arming", "armed"}]
    /\ \A i \in DOMAIN up : MessageHolds(page, target, up[i])
    /\ OncePerTab(up)
    /\ \A t \in Tabs : page[t] = "casting" => target[t] # "none"
BY DEF TabsInOrder, MessageHolds, OncePerTab, Arming, Live

\* When a message was read, no other arms its tab.
LEMMA TailKeepsOnce ==
  ASSUME NEW s \in Seq(Messages), s # << >>, OncePerTab(s)
  PROVE  /\ OncePerTab(Tail(s))
         /\ Arming(Head(s)) => \A i \in DOMAIN Tail(s) : ~(Arming(Tail(s)[i]) /\ Tail(s)[i][2] = Head(s)[2])
<1>1. /\ 1 \in DOMAIN s /\ s[1] = Head(s)
      /\ \A i \in DOMAIN Tail(s) : i \in Nat /\ i + 1 \in DOMAIN s /\ i + 1 # 1 /\ Tail(s)[i] = s[i + 1]
  BY ReadOne
<1>2. ASSUME NEW i \in DOMAIN Tail(s), NEW j \in DOMAIN Tail(s), Arming(Tail(s)[i]), Arming(Tail(s)[j]),
             Tail(s)[i][2] = Tail(s)[j][2]
      PROVE  i = j
  <2>1. i + 1 = j + 1 /\ i \in Nat /\ j \in Nat
    BY <1>1, <1>2 DEF OncePerTab
  <2> QED BY <2>1
<1> QED BY <1>1, <1>2 DEF OncePerTab

\* A tab that nothing in flight arms may be armed.
LEMMA AppendKeepsOnce ==
  ASSUME NEW s \in Seq(Messages), OncePerTab(s), NEW m \in Messages,
         Arming(m) => \A i \in DOMAIN s : ~(Arming(s[i]) /\ s[i][2] = m[2])
  PROVE  OncePerTab(Append(s, m))
<1>1. \A i \in DOMAIN Append(s, m) :
        \/ i \in DOMAIN s /\ Append(s, m)[i] = s[i]
        \/ i = Len(s) + 1 /\ Append(s, m)[i] = m
  BY SentOne
<1> QED BY <1>1 DEF OncePerTab

\* What is sent is unread ...
LEMMA UnreadSent ==
  ASSUME up \in Seq(Messages), NEW m \in Messages, up' = Append(up, m), NEW t \in Tabs
  PROVE  /\ Unread(t) \in Nat
         /\ Unread(t)' = IF m[1] = "frame" /\ m[2] = t THEN Unread(t) + 1 ELSE Unread(t)
<1>1. Unread(t)' = Occurring(up', FramesOf(t)) /\ Unread(t) = Occurring(up, FramesOf(t))
  BY DEF Unread, Occurring, Spots
<1>2. m \in FramesOf(t) <=> m[1] = "frame" /\ m[2] = t
  BY MessageForms
<1> QED BY <1>1, <1>2, OccurringAppend, SpotsFinite

\* ... until it is read ...
LEMMA UnreadRead ==
  ASSUME up \in Seq(Messages), up # << >>, up' = Tail(up), NEW t \in Tabs
  PROVE  /\ Unread(t)' \in Nat
         /\ Unread(t) = IF Head(up)[1] = "frame" /\ Head(up)[2] = t THEN Unread(t)' + 1 ELSE Unread(t)'
<1>1. Unread(t)' = Occurring(up', FramesOf(t)) /\ Unread(t) = Occurring(up, FramesOf(t))
  BY DEF Unread, Occurring, Spots
<1>2. Head(up) \in Messages /\ up' \in Seq(Messages)
  OBVIOUS
<1>3. Head(up) \in FramesOf(t) <=> Head(up)[1] = "frame" /\ Head(up)[2] = t
  BY <1>2, MessageForms
<1>4. Occurring(up', FramesOf(t)) \in Nat
  BY <1>2, SpotsFinite
<1>5. Occurring(up, FramesOf(t)) = IF Head(up) \in FramesOf(t) THEN Occurring(Tail(up), FramesOf(t)) + 1
                                   ELSE Occurring(Tail(up), FramesOf(t))
  BY OccurringTail
<1> QED BY <1>1, <1>3, <1>4, <1>5

\* ... or thrown away.
LEMMA UnreadNone ==
  ASSUME up' = << >>, NEW t \in Tabs
  PROVE  Unread(t)' = 0
<1>1. {i \in DOMAIN up' : up'[i] \in FramesOf(t)} = {}
  OBVIOUS
<1> QED BY <1>1, FS_EmptySet DEF Unread

\* Storage does not touch the tabs.
LEMMA TabsStutter ==
  ASSUME TabsSound, UNCHANGED TabState
  PROVE  TabsSound'
<1>1. TabsInOrder'
  BY DEF TabsSound, TabsInOrder, TabState, Live
<1>2. StoppedStayStopped'
  BY DEF TabsSound, StoppedStayStopped, TabState
<1>3. \A t \in Tabs : Unread(t)' = Unread(t)
  BY DEF Unread, TabState
<1>4. Waiting'
  BY <1>3 DEF TabsSound, Waiting, TabState
<1> QED BY <1>1, <1>2, <1>4 DEF TabsSound

\* What the browser sends: a tab's first message, its last and its frames.
LEMMA BrowserKeepsTabs ==
  ASSUME TabsSound, NEW t \in Tabs, TabAttached(t) \/ TabDetached(t) \/ Draws(t)
  PROVE  TabsSound'
<1>1. PICK m \in Messages :
        /\ up' = Append(up, m) /\ m[2] = t
        /\ UNCHANGED <<target, stopped, skips, lateArm>>
        /\ \/ /\ m[1] = "attached" /\ page[t] = "none" /\ page' = [page EXCEPT ![t] = "open"]
              /\ unacked' = unacked
           \/ /\ m[1] = "detached" /\ page[t] \in {"open", "casting"} /\ page' = [page EXCEPT ![t] = "gone"]
              /\ unacked' = unacked
           \/ /\ m[1] = "frame" /\ page[t] = "casting" /\ page' = page
              /\ unacked' = [unacked EXCEPT ![t] = @ + 1]
  <2>1. <<"attached", t>> \in Messages /\ <<"detached", t>> \in Messages
        /\ \A p \in Pictures : <<"frame", t, p>> \in Messages
    BY DEF Messages
  <2>2. CASE TabAttached(t)
    <3>1. <<"attached", t>> \in Messages
      BY <2>1
    <3> WITNESS <<"attached", t>> \in Messages
    <3> QED BY <2>2 DEF TabAttached, ghostVars
  <2>3. CASE TabDetached(t)
    <3>1. <<"detached", t>> \in Messages
      BY <2>1
    <3> WITNESS <<"detached", t>> \in Messages
    <3> QED BY <2>3 DEF TabDetached, ghostVars
  <2>4. CASE Draws(t)
    <3>1. PICK p \in Pictures : up' = Append(up, <<"frame", t, p>>)
      BY <2>4 DEF Draws
    <3>2. <<"frame", t, p>> \in Messages
      BY <2>1
    <3> WITNESS <<"frame", t, p>> \in Messages
    <3> QED BY <2>4, <3>1 DEF Draws, ghostVars
  <2> QED BY <2>2, <2>3, <2>4
<1>2. /\ up \in Seq(Messages) /\ OncePerTab(up) /\ \A i \in DOMAIN up : MessageHolds(page, target, up[i])
      /\ page \in [Tabs -> {"none", "open", "casting", "gone"}]
      /\ target \in [Tabs -> {"none", "arming", "armed"}]
      /\ \A s \in Tabs : page[s] = "casting" => target[s] # "none"
      /\ \A i \in DOMAIN up : up[i] \in Messages /\ up[i][2] \in Tabs
  <2>1. \A n \in Messages : n[2] \in Tabs
    BY MessageForms
  <2>2. up \in Seq(Messages)
    BY TabsInOrderIs DEF TabsSound
  <2> QED BY <2>1, <2>2, TabsInOrderIs DEF TabsSound
<1>3. /\ page' \in [Tabs -> {"none", "open", "casting", "gone"}]
      /\ \A s \in Tabs : s # t => page'[s] = page[s]
      /\ page'[t] = CASE m[1] = "attached" -> "open" [] m[1] = "detached" -> "gone" [] OTHER -> "casting"
  BY <1>1, <1>2
<1>4. TabsInOrder'
  <2>1. OncePerTab(up')
    <3>1. Arming(m) => \A i \in DOMAIN up : up[i][2] # t
      BY <1>1, <1>2 DEF Arming, MessageHolds
    <3> QED BY <1>1, <1>2, <3>1, AppendKeepsOnce
  <2>2. \A i \in DOMAIN up' : \/ i \in DOMAIN up /\ up'[i] = up[i]
                              \/ up'[i] = m
    BY <1>1, <1>2, SentOne
  <2>3. \A i \in DOMAIN up : MessageHolds(page', target, up[i])
    BY <1>1, <1>2, <1>3 DEF MessageHolds
  <2>4. MessageHolds(page', target, m)
    BY <1>1, <1>3 DEF MessageHolds
  <2>5. \A i \in DOMAIN up' : MessageHolds(page', target', up'[i])
    BY <1>1, <2>2, <2>3, <2>4
  <2>6. up' \in Seq(Messages)
    BY <1>1, <1>2
  <2>7. \A s \in Tabs : page'[s] = "casting" => target'[s] # "none"
    BY <1>1, <1>2, <1>3
  <2> QED BY <1>1, <1>2, <1>3, <2>1, <2>5, <2>6, <2>7
          DEF TabsInOrder, MessageHolds, OncePerTab, Arming, Live
<1>5. StoppedStayStopped'
  BY <1>1, <1>3 DEF TabsSound, StoppedStayStopped
<1>6. Waiting'
  <2>1. \A s \in Tabs : /\ Unread(s) \in Nat
                        /\ Unread(s)' = IF m[1] = "frame" /\ s = t THEN Unread(s) + 1 ELSE Unread(s)
    BY <1>1, <1>2, UnreadSent
  <2>2. /\ unacked \in [Tabs -> Nat] /\ unacked' \in [Tabs -> Nat] /\ skips' \in Nat
        /\ \A s \in Tabs : unacked'[s] = IF m[1] = "frame" /\ s = t THEN unacked[s] + 1 ELSE unacked[s]
    BY <1>1 DEF TabsSound, Waiting
  <2>3. ASSUME NEW s \in Tabs
        PROVE  /\ Unread(s)' <= unacked'[s]
               /\ ~stopped' /\ page'[s] \in {"none", "open"} => unacked'[s] = 0
               /\ ~stopped' /\ skips' = 0 /\ page'[s] = "casting" => unacked'[s] = Unread(s)'
    BY <1>1, <1>3, <2>1, <2>2 DEF TabsSound, Waiting
  <2> QED BY <2>2, <2>3 DEF Waiting
<1> QED BY <1>4, <1>5, <1>6 DEF TabsSound

\* What holds before a message is read, of it and of those behind it.
LEMMA BeforeReading ==
  ASSUME TabsSound, up # << >>
  PROVE  /\ up \in Seq(Messages) /\ Head(up) \in Messages /\ Head(up)[2] \in Tabs
         /\ Tail(up) \in Seq(Messages) /\ OncePerTab(Tail(up))
         /\ Arming(Head(up)) => \A i \in DOMAIN Tail(up) : ~(Arming(Tail(up)[i]) /\ Tail(up)[i][2] = Head(up)[2])
         /\ MessageHolds(page, target, Head(up))
         /\ \A i \in DOMAIN Tail(up) : /\ Tail(up)[i] \in Messages /\ Tail(up)[i][2] \in Tabs
                                       /\ MessageHolds(page, target, Tail(up)[i])
         /\ page \in [Tabs -> {"none", "open", "casting", "gone"}]
         /\ target \in [Tabs -> {"none", "arming", "armed"}]
         /\ \A s \in Tabs : page[s] = "casting" => target[s] # "none"
<1>1. /\ up \in Seq(Messages) /\ OncePerTab(up) /\ \A i \in DOMAIN up : MessageHolds(page, target, up[i])
      /\ page \in [Tabs -> {"none", "open", "casting", "gone"}]
      /\ target \in [Tabs -> {"none", "arming", "armed"}]
      /\ \A s \in Tabs : page[s] = "casting" => target[s] # "none"
  BY TabsInOrderIs DEF TabsSound
<1>2. \A n \in Messages : n[2] \in Tabs
  BY MessageForms
<1>3. /\ Head(up) \in Messages /\ Tail(up) \in Seq(Messages) /\ 1 \in DOMAIN up /\ up[1] = Head(up)
      /\ \A i \in DOMAIN Tail(up) : i \in Nat /\ i + 1 \in DOMAIN up /\ i + 1 # 1 /\ Tail(up)[i] = up[i + 1]
  BY <1>1, ReadOne
<1>4. \A i \in DOMAIN Tail(up) : Tail(up)[i] \in Messages /\ MessageHolds(page, target, Tail(up)[i])
  BY <1>1, <1>3
<1>5. MessageHolds(page, target, Head(up))
  BY <1>1, <1>3
<1> QED BY <1>1, <1>2, <1>3, <1>4, <1>5, TailKeepsOnce

\* The messages that are left, when only tabs nobody speaks for changed.
LEMMA AfterReading ==
  ASSUME TabsSound, up # << >>, up' = Tail(up),
         page' \in [Tabs -> {"none", "open", "casting", "gone"}],
         target' \in [Tabs -> {"none", "arming", "armed"}],
         \A s \in Tabs : page'[s] = "casting" => target'[s] # "none",
         \A i \in DOMAIN Tail(up) : MessageHolds(page', target', Tail(up)[i])
  PROVE  TabsInOrder'
<1>1. Tail(up) \in Seq(Messages) /\ OncePerTab(Tail(up))
  BY BeforeReading
<1> QED BY <1>1 DEF TabsInOrder, MessageHolds, OncePerTab, Arming, Live

\* A tab is armed, if the capture still runs.
LEMMA AttachedKeepsTabs ==
  ASSUME TabsSound, OnAttached
  PROVE  TabsSound'
<1> DEFINE t == Head(up)[2]
           m == <<"sized", t>>
<1>1. /\ up # << >> /\ Head(up)[1] = "attached" /\ UNCHANGED <<page, unacked, stopped, skips, lateArm>>
      /\ IF stopped \/ target[t] # "none" THEN target' = target /\ up' = Tail(up)
         ELSE /\ target' = [target EXCEPT ![t] = "arming"]
              /\ up' = IF Live(t) THEN Append(Tail(up), m) ELSE Tail(up)
  BY DEF OnAttached, browserVars, ghostVars
<1>2. /\ t \in Tabs /\ m \in Messages /\ m[1] = "sized" /\ m[2] = t
      /\ Tail(up) \in Seq(Messages) /\ OncePerTab(Tail(up)) /\ Arming(Head(up))
      /\ \A i \in DOMAIN Tail(up) : ~(Arming(Tail(up)[i]) /\ Tail(up)[i][2] = t)
  BY <1>1, BeforeReading DEF Messages, Arming
<1>3. /\ page \in [Tabs -> {"none", "open", "casting", "gone"}]
      /\ target \in [Tabs -> {"none", "arming", "armed"}]
      /\ \A s \in Tabs : page[s] = "casting" => target[s] # "none"
      /\ \A i \in DOMAIN Tail(up) : Tail(up)[i][2] \in Tabs /\ MessageHolds(page, target, Tail(up)[i])
  BY <1>1, BeforeReading
<1> HIDE DEF t, m
<1>4. /\ target' \in [Tabs -> {"none", "arming", "armed"}]
      /\ \A s \in Tabs : s # t => target'[s] = target[s]
      /\ target'[t] = target[t] \/ (~stopped /\ target'[t] = "arming")
  BY <1>1, <1>2, <1>3
<1>5. \A i \in DOMAIN Tail(up) : MessageHolds(page', target', Tail(up)[i])
  BY <1>1, <1>2, <1>3, <1>4 DEF MessageHolds, Arming
<1>6. \A s \in Tabs : page'[s] = "casting" => target'[s] # "none"
  BY <1>1, <1>3, <1>4
<1>7. StoppedStayStopped'
  BY <1>1, <1>4 DEF TabsSound, StoppedStayStopped
<1>8. ASSUME NEW s \in Tabs
      PROVE  Unread(s)' = Unread(s) /\ Unread(s) \in Nat
  <2>1. Unread(s) = Occurring(up, FramesOf(s)) /\ Unread(s)' = Occurring(up', FramesOf(s))
    BY DEF Unread, Occurring, Spots
  <2>2. /\ up \in Seq(Messages) /\ Head(up) \in Messages
        /\ Head(up) \notin FramesOf(s) /\ m \notin FramesOf(s)
    BY <1>1, <1>2, BeforeReading, MessageForms
  <2>3. Occurring(up, FramesOf(s)) = Occurring(Tail(up), FramesOf(s))
    BY <1>1, <2>2, OccurringTail
  <2>4. Occurring(Append(Tail(up), m), FramesOf(s)) = Occurring(Tail(up), FramesOf(s))
    BY <1>2, <2>2, OccurringAppend
  <2>5. Occurring(up, FramesOf(s)) \in Nat
    BY <2>2, SpotsFinite
  <2> QED BY <1>1, <2>1, <2>3, <2>4, <2>5
<1>9. Waiting'
  BY <1>1, <1>8 DEF TabsSound, Waiting
<1>10. CASE up' = Tail(up)
  <2>1. TabsInOrder'
    BY <1>1, <1>3, <1>4, <1>5, <1>6, <1>10, AfterReading
  <2> QED BY <1>7, <1>9, <2>1 DEF TabsSound
<1>11. CASE up' = Append(Tail(up), m) /\ target'[t] = "arming" /\ Live(t)
  <2>1. OncePerTab(up') /\ up' \in Seq(Messages)
    <3>1. Append(Tail(up), m) \in Seq(Messages)
      BY <1>2, SentOne
    <3>2. \A i \in DOMAIN Tail(up) : ~(Arming(Tail(up)[i]) /\ Tail(up)[i][2] = m[2])
      BY <1>2
    <3>3. OncePerTab(Append(Tail(up), m))
      BY <1>2, <3>2, AppendKeepsOnce
    <3> QED BY <1>11, <3>1, <3>3
  <2>2. \A i \in DOMAIN up' : \/ i \in DOMAIN Tail(up) /\ up'[i] = Tail(up)[i]
                              \/ up'[i] = m
    BY <1>2, <1>11, SentOne
  <2>3. MessageHolds(page', target', m)
    BY <1>1, <1>2, <1>11 DEF MessageHolds, Live
  <2>4. \A i \in DOMAIN up' : MessageHolds(page', target', up'[i])
    BY <1>5, <2>2, <2>3
  <2>5. TabsInOrder'
    BY <1>1, <1>3, <1>4, <1>6, <2>1, <2>4 DEF TabsInOrder, MessageHolds, OncePerTab, Arming, Live
  <2> QED BY <1>7, <1>9, <2>5 DEF TabsSound
<1>12. up' = Tail(up) \/ (up' = Append(Tail(up), m) /\ target'[t] = "arming" /\ Live(t))
  BY <1>1, <1>2, <1>3
<1> QED BY <1>10, <1>11, <1>12

\* A tab that is still there casts, stopped or not.
LEMMA SizedKeepsTabs ==
  ASSUME TabsSound, OnSized
  PROVE  TabsSound'
<1> DEFINE t == Head(up)[2]
<1>1. /\ up # << >> /\ Head(up)[1] = "sized" /\ up' = Tail(up)
      /\ UNCHANGED <<unacked, stopped, skips, lateArm>>
      /\ page' = IF Live(t) THEN [page EXCEPT ![t] = "casting"] ELSE page
      /\ target' = IF target[t] = "arming" THEN [target EXCEPT ![t] = "armed"] ELSE target
  BY DEF OnSized, Reads, StartCast, ghostVars
<1>2. /\ t \in Tabs /\ up \in Seq(Messages) /\ Arming(Head(up))
      /\ \A i \in DOMAIN Tail(up) : ~(Arming(Tail(up)[i]) /\ Tail(up)[i][2] = t)
      /\ page \in [Tabs -> {"none", "open", "casting", "gone"}]
      /\ target \in [Tabs -> {"none", "arming", "armed"}]
      /\ \A s \in Tabs : page[s] = "casting" => target[s] # "none"
      /\ \A i \in DOMAIN Tail(up) : Tail(up)[i][2] \in Tabs /\ MessageHolds(page, target, Tail(up)[i])
      /\ Live(t) => target[t] = "arming"
  BY <1>1, BeforeReading DEF Arming, MessageHolds, Live
<1> HIDE DEF t
<1>3. /\ page' \in [Tabs -> {"none", "open", "casting", "gone"}]
      /\ target' \in [Tabs -> {"none", "arming", "armed"}]
      /\ \A s \in Tabs : s # t => page'[s] = page[s] /\ target'[s] = target[s]
      /\ \/ page[t] \in {"open", "casting"} /\ page'[t] = "casting" /\ target[t] = "arming" /\ target'[t] = "armed"
         \/ page[t] \notin {"open", "casting"} /\ page'[t] = page[t] /\ target'[t] # "arming"
  BY <1>1, <1>2 DEF Live
<1>4. \A i \in DOMAIN Tail(up) : MessageHolds(page', target', Tail(up)[i])
  BY <1>2, <1>3 DEF MessageHolds, Arming
<1>5. TabsInOrder'
  BY <1>1, <1>2, <1>3, <1>4, AfterReading
<1>6. StoppedStayStopped'
  BY <1>1, <1>2, <1>3 DEF TabsSound, StoppedStayStopped
<1>7. \A s \in Tabs : Unread(s)' = Unread(s) /\ Unread(s) \in Nat
  BY <1>1, <1>2, UnreadRead
<1>8. Waiting'
  BY <1>1, <1>2, <1>3, <1>7 DEF TabsSound, Waiting
<1> QED BY <1>5, <1>6, <1>8 DEF TabsSound

\* A tab is forgotten.
LEMMA DetachedKeepsTabs ==
  ASSUME TabsSound, OnDetached
  PROVE  TabsSound'
<1> DEFINE t == Head(up)[2]
<1>1. /\ up # << >> /\ Head(up)[1] = "detached" /\ up' = Tail(up)
      /\ UNCHANGED <<page, unacked, stopped, skips, lateArm>>
      /\ target' = IF stopped THEN target ELSE [target EXCEPT ![t] = "none"]
  BY DEF OnDetached, Reads, browserVars, ghostVars
<1>2. /\ t \in Tabs /\ up \in Seq(Messages)
      /\ page \in [Tabs -> {"none", "open", "casting", "gone"}]
      /\ target \in [Tabs -> {"none", "arming", "armed"}]
      /\ \A s \in Tabs : page[s] = "casting" => target[s] # "none"
      /\ \A i \in DOMAIN Tail(up) : Tail(up)[i][2] \in Tabs /\ MessageHolds(page, target, Tail(up)[i])
      /\ page[t] = "gone"
  BY <1>1, BeforeReading DEF MessageHolds
<1> HIDE DEF t
<1>3. /\ target' \in [Tabs -> {"none", "arming", "armed"}]
      /\ \A s \in Tabs : s # t => target'[s] = target[s]
      /\ stopped => target' = target
  BY <1>1, <1>2
<1>4. \A i \in DOMAIN Tail(up) : MessageHolds(page', target', Tail(up)[i])
  BY <1>1, <1>2, <1>3 DEF MessageHolds
<1>5. TabsInOrder'
  BY <1>1, <1>2, <1>3, <1>4, AfterReading
<1>6. StoppedStayStopped'
  BY <1>1, <1>3 DEF TabsSound, StoppedStayStopped
<1>7. \A s \in Tabs : Unread(s)' = Unread(s) /\ Unread(s) \in Nat
  BY <1>1, <1>2, UnreadRead
<1>8. Waiting'
  BY <1>1, <1>7 DEF TabsSound, Waiting
<1> QED BY <1>5, <1>6, <1>8 DEF TabsSound

\* A frame is acknowledged, and one beyond the cap stops every tab.
LEMMA FrameKeepsTabs ==
  ASSUME TabsSound, OnFrame
  PROVE  TabsSound'
<1> DEFINE t == Head(up)[2]
<1>1. /\ up # << >> /\ Head(up)[1] = "frame" /\ up' = Tail(up) /\ UNCHANGED <<target, skips>>
  BY DEF OnFrame, Reads
<1>2. \/ /\ stopped \/ target[t] = "none"
         /\ UNCHANGED <<page, unacked, stopped, lateArm>>
      \/ /\ ~stopped /\ target[t] # "none" /\ unacked' = [unacked EXCEPT ![t] = @ - 1]
         /\ UNCHANGED <<page, stopped, lateArm>>
      \/ /\ ~stopped /\ target[t] # "none" /\ unacked' = [unacked EXCEPT ![t] = @ - 1]
         /\ stopped' = TRUE /\ lateArm' = {s \in Tabs : target[s] = "arming"}
         /\ page' = [s \in Tabs |-> IF s \in Known /\ Live(s) THEN "open" ELSE page[s]]
  <2>1. CASE stopped \/ target[t] = "none"
    <3>1. UNCHANGED <<page, unacked, stopped, ghostVars>>
      BY <2>1 DEF OnFrame
    <3> QED BY <2>1, <3>1 DEF ghostVars
  <2>2. CASE ~(stopped \/ target[t] = "none")
    <3>1. unacked' = [unacked EXCEPT ![t] = @ - 1]
      BY <2>2 DEF OnFrame, AcknowledgeFrame, Acked
    <3>2. \/ UNCHANGED <<page, stopped, lateArm>>
          \/ stopped' = TRUE /\ StopCapture /\ lateArm' = {s \in Tabs : target[s] = "arming"}
      BY <2>2 DEF OnFrame
    <3> QED BY <2>2, <3>1, <3>2 DEF StopCapture, StopCasts
  <2> QED BY <2>1, <2>2
<1>3. /\ t \in Tabs /\ up \in Seq(Messages)
      /\ page \in [Tabs -> {"none", "open", "casting", "gone"}]
      /\ target \in [Tabs -> {"none", "arming", "armed"}]
      /\ \A s \in Tabs : page[s] = "casting" => target[s] # "none"
      /\ \A i \in DOMAIN Tail(up) : Tail(up)[i][2] \in Tabs /\ MessageHolds(page, target, Tail(up)[i])
  BY <1>1, BeforeReading
<1> HIDE DEF t
<1>4. /\ page' \in [Tabs -> {"none", "open", "casting", "gone"}]
      /\ \A s \in Tabs : \/ page'[s] = page[s]
                         \/ page[s] \in {"open", "casting"} /\ page'[s] = "open"
  BY <1>2, <1>3 DEF Live
<1>5. \A i \in DOMAIN Tail(up) : MessageHolds(page', target', Tail(up)[i])
  BY <1>1, <1>3, <1>4 DEF MessageHolds
<1>6. \A s \in Tabs : page'[s] = "casting" => target'[s] # "none"
  BY <1>1, <1>3, <1>4
<1>7. TabsInOrder'
  BY <1>1, <1>3, <1>4, <1>5, <1>6, AfterReading
<1>8. StoppedStayStopped'
  BY <1>1, <1>2, <1>3 DEF TabsSound, StoppedStayStopped, Known, Live
<1>9. \A s \in Tabs : /\ Unread(s)' \in Nat
                      /\ Unread(s) = IF s = t THEN Unread(s)' + 1 ELSE Unread(s)'
  BY <1>1, <1>3, UnreadRead DEF t
<1>10. /\ unacked \in [Tabs -> Nat] /\ skips \in Nat /\ unacked[t] \in Nat \ {0}
       /\ \A s \in Tabs : Unread(s) <= unacked[s]
  BY <1>3, <1>9 DEF TabsSound, Waiting
<1>11. /\ unacked' \in [Tabs -> Nat]
       /\ \A s \in Tabs : s # t => unacked'[s] = unacked[s]
       /\ unacked'[t] = IF stopped \/ target[t] = "none" THEN unacked[t] ELSE unacked[t] - 1
  BY <1>2, <1>3, <1>10
<1>12. ASSUME NEW s \in Tabs
       PROVE  /\ Unread(s)' <= unacked'[s]
              /\ ~stopped' /\ page'[s] \in {"none", "open"} => unacked'[s] = 0
              /\ ~stopped' /\ skips' = 0 /\ page'[s] = "casting" => unacked'[s] = Unread(s)'
  <2>1. Unread(s)' <= unacked'[s]
    BY <1>9, <1>10, <1>11
  <2>2. ~stopped' => ~stopped /\ page' = page
    BY <1>2
  <2>3. ~stopped => /\ page[s] \in {"none", "open"} => unacked[s] = 0
                    /\ skips = 0 /\ page[s] = "casting" => unacked[s] = Unread(s)
    BY DEF TabsSound, Waiting
  <2>4. CASE s = t
    BY <1>1, <1>3, <1>9, <1>10, <1>11, <2>1, <2>2, <2>3, <2>4
  <2>5. CASE s # t
    BY <1>1, <1>9, <1>11, <2>1, <2>2, <2>3, <2>5
  <2> QED BY <2>4, <2>5
<1>13. Waiting'
  BY <1>1, <1>10, <1>11, <1>12 DEF Waiting
<1> QED BY <1>7, <1>8, <1>13 DEF TabsSound

\* A message dropped for a slow client is not acknowledged.
LEMMA SlowKeepsTabs ==
  ASSUME TabsSound, ClientSlow
  PROVE  TabsSound'
<1>1. /\ up # << >> /\ up' = Tail(up) /\ skips' = skips + 1
      /\ UNCHANGED <<page, unacked, target, stopped, lateArm>>
  BY DEF ClientSlow, browserVars
<1>2. TabsInOrder'
  BY <1>1, BeforeReading, AfterReading
<1>3. StoppedStayStopped'
  BY <1>1 DEF TabsSound, StoppedStayStopped
<1>4. \A s \in Tabs : Unread(s)' \in Nat /\ Unread(s)' <= Unread(s)
  BY <1>1, BeforeReading, UnreadRead
<1>5. skips \in Nat /\ unacked \in [Tabs -> Nat] /\ \A s \in Tabs : Unread(s) \in Nat /\ Unread(s) <= unacked[s]
  BY <1>1, BeforeReading, UnreadRead DEF TabsSound, Waiting
<1>6. skips' \in Nat /\ skips' # 0 /\ \A s \in Tabs : Unread(s)' <= unacked'[s]
  BY <1>1, <1>4, <1>5
<1>7. Waiting'
  BY <1>1, <1>6 DEF TabsSound, Waiting
<1> QED BY <1>2, <1>3, <1>7 DEF TabsSound

\* The session is over, or the process: nothing is sent any more.
LEMMA EndKeepsTabs ==
  ASSUME TabsSound, OnSessionEnd \/ Dies
  PROVE  TabsSound'
<1>1. /\ up' = << >> /\ page' = [t \in Tabs |-> "none"] /\ unacked' = [t \in Tabs |-> 0]
      /\ target' = [t \in Tabs |-> "none"] /\ UNCHANGED <<stopped, skips, lateArm>>
  BY DEF OnSessionEnd, Dies, ghostVars
<1>2. TabsInOrder'
  BY <1>1 DEF TabsInOrder
<1>3. StoppedStayStopped'
  BY <1>1 DEF StoppedStayStopped
<1>4. \A t \in Tabs : Unread(t)' = 0
  BY <1>1, UnreadNone
<1>5. Waiting'
  BY <1>1, <1>4 DEF TabsSound, Waiting
<1> QED BY <1>2, <1>3, <1>5 DEF TabsSound

\* Tabs and messages, whatever happens.
LEMMA StepKeepsTabs ==
  ASSUME TabsSound, [RecordingNext]_recordingVars
  PROVE  TabsSound'
<1>1. CASE UNCHANGED recordingVars
  BY <1>1, TabsStutter DEF recordingVars, TabState
<1>2. ASSUME NEW t \in Tabs, TabAttached(t) \/ TabDetached(t) \/ Draws(t)
      PROVE  TabsSound'
  BY <1>2, BrowserKeepsTabs
<1>3. CASE OnAttached \/ OnSized \/ OnDetached \/ OnFrame \/ ClientSlow
  BY <1>3, AttachedKeepsTabs, SizedKeepsTabs, DetachedKeepsTabs, FrameKeepsTabs, SlowKeepsTabs
<1>4. ASSUME NEW w \in writes, ChunkWritten(w)
      PROVE  TabsSound'
  BY <1>4, TabsStutter DEF ChunkWritten, TabState, browserVars, channelVars, ghostVars
<1>5. CASE OnSessionStart \/ StorageMade \/ Started \/ StorageFails
  BY <1>5, TabsStutter
     DEF OnSessionStart, StorageMade, Started, StorageFails, TabState, browserVars, channelVars, ghostVars
<1>6. CASE BeginManifest \/ ManifestWritten \/ CompleteWritten \/ FinalizeFails
  BY <1>6, TabsStutter
     DEF BeginManifest, ManifestWritten, CompleteWritten, FinalizeFails, TabState, browserVars, channelVars, ghostVars
<1>7. CASE DeleteReplay \/ PurgeReplay
  BY <1>7, TabsStutter DEF DeleteReplay, PurgeReplay, Removed, TabState, browserVars, channelVars, ghostVars
<1>8. CASE OnSessionEnd \/ Dies
  BY <1>8, EndKeepsTabs
<1> QED BY <1>1, <1>2, <1>3, <1>4, <1>5, <1>6, <1>7, <1>8
        DEF RecordingNext, BrowserSteps, PluginSteps, DiskSteps

-----------------------------------------------------------------------------
(* Recordings: what holds from the start on. *)

\* The inductive invariant of a recording.
RecordingInv == ChunksSound /\ LastIsShown /\ TabsSound

\* Before the start.
LEMMA InitHolds ==
  ASSUME RecordingInit
  PROVE  RecordingInv
<1>1. /\ Absent \in [FileNames -> {"none", "torn", "whole"}]
      /\ Absent["dir"] = "none" /\ Absent["manifest"] = "none" /\ Absent["complete"] = "none"
  BY DEF Absent, FileNames
<1>2. ChunksHold
  BY DEF RecordingInit, ChunksHold, Holding
<1>3. ChunksAccounted /\ ManifestIsTrue
  BY <1>1 DEF RecordingInit, ChunksAccounted, ManifestIsTrue
<1>4. LastIsShown
  BY DEF RecordingInit, LastIsShown
<1>5. TabsInOrder /\ StoppedStayStopped
  BY DEF RecordingInit, TabsInOrder, StoppedStayStopped
<1>6. \A t \in Tabs : Unread(t) = 0
  <2>1. \A t \in Tabs : {i \in DOMAIN up : up[i] \in FramesOf(t)} = {}
    BY DEF RecordingInit
  <2> QED BY <2>1, FS_EmptySet DEF Unread
<1>7. Waiting
  BY <1>6 DEF RecordingInit, Waiting
<1> QED BY <1>2, <1>3, <1>4, <1>5, <1>7 DEF RecordingInv, ChunksSound, TabsSound

\* The invariant says all that the property says.
LEMMA InvIsEnough ==
  ASSUME RecordingInv
  PROVE  RecordingSound
<1>1. ReplayReadable
  <2> SUFFICES ASSUME NEW n \in ReadManifest PROVE ReadFrame(n) = n
    BY DEF ReplayReadable
  <2>1. /\ files["manifest"] = "whole" /\ manifest = Named /\ n \in Named
        /\ frames[n].chunk \in DOMAIN parts
    BY DEF ReadManifest, RecordingInv, ChunksSound, ManifestIsTrue
  <2> DEFINE r == frames[n]
             part == parts[r.chunk]
  <2>2. n \in DOMAIN frames /\ Holding(part, r.chunk)
    BY <2>1 DEF Named, RecordingInv, ChunksSound, ChunksHold
  <2>3. r.offset < Len(part) /\ part[r.offset + 1] = n
    BY <2>2 DEF Holding
  <2>4. ServedPart(r.chunk) = part
    BY <2>1 DEF ServedPart
  <2> QED BY <2>3, <2>4 DEF ReadFrame
<1>2. files["complete"] # "none" => files["manifest"] = "whole" /\ manifest = Named /\ writes = {}
  BY DEF RecordingInv, ChunksSound, ManifestIsTrue
<1>3. CompleteHasAll
  BY <1>2 DEF CompleteHasAll, ReadMeta, ReadManifest, ReplayTargets
<1>4. LastPictureKept
  <2> SUFFICES ASSUME files["complete"] # "none", lostChunks = {},
                      NEW t \in Tabs \ missed, latest[t] # NoPicture
               PROVE  \E n \in manifest : /\ frames[n].tab = t /\ frames[n].picture = latest[t]
                                          /\ \A m \in manifest : frames[m].tab = t => m <= n
    BY DEF LastPictureKept
  <2>1. manifest = DOMAIN frames
    <3>1. frames \in Seq(Records)
      BY DEF RecordingInv, ChunksSound, ChunksHold
    <3>2. Named = 1..Len(frames)
      BY DEF Named
    <3>3. DOMAIN frames = 1..Len(frames)
      BY <3>1
    <3> QED BY <1>2, <3>2, <3>3
  <2> QED BY <2>1 DEF RecordingInv, LastIsShown
<1>5. CastGoesOn
  BY DEF CastGoesOn, RecordingInv, TabsSound, Waiting
<1>6. CapStopsTabs
  BY DEF CapStopsTabs, RecordingInv, TabsSound, StoppedStayStopped
<1> QED BY <1>1, <1>3, <1>4, <1>5, <1>6 DEF RecordingSound

\* Whatever is dropped, lost or removed, wherever the recorder dies, a replay
\* reads back what its manifest names, has all of it when it is complete, ends
\* each tab with the picture last shown, and a cast neither runs dry nor
\* outlives the cap.
THEOREM RecordingStaysSound == RecordingSpec => []RecordingSound
<1>1. RecordingInit => RecordingInv
  BY InitHolds
<1>2. RecordingInv /\ [RecordingNext]_recordingVars => RecordingInv'
  <2>1. RecordingInv => up \in Seq(Messages)
    BY DEF RecordingInv, TabsSound, TabsInOrder
  <2> QED BY <2>1, StepKeepsChunks, StepKeepsLast, StepKeepsTabs DEF RecordingInv
<1>3. RecordingInv => RecordingSound
  BY InvIsEnough
<1> QED BY <1>1, <1>2, <1>3, PTL DEF RecordingSpec

=============================================================================
