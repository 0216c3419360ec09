----------------------------- MODULE SessionPool -----------------------------
(***************************************************************************)
(* The pool of browser sessions behind the REST endpoints: pages acquired  *)
(* one request at a time, sessions created when there is room for more,    *)
(* retired and closed when they are empty, pages taken back when they are  *)
(* held too long, and the shutdown.  The requests are the REST executor's: *)
(* it retries, and releases a page after a failure and once more at the    *)
(* end of the attempt.                                                     *)
(*                                                                         *)
(* A session identifier is used again when nothing refers to it any more.  *)
(***************************************************************************)
EXTENDS Integers, Sequences, FiniteSets, FiniteSetsExt

CONSTANTS
  Sessions,      \* identifiers of sessions: a bound on those that coexist
  Requests,
  None,
  MinSessions, MaxSessions, MaxPages,
  RetireAfter,   \* retireAfterPages
  MaxTries,      \* MaxTries[r]: attempts of r, options.retries + 1
  OneShot,       \* requests that may be pinned to a provider, a proxy or a profile
  Failing,       \* requests whose page action may fail on a page that is there
  Slow           \* requests that may hold a page for longer than 2 * pageTimeoutMs

ASSUME PoolAssumption ==
  /\ None \notin Sessions
  /\ MinSessions \in Nat /\ MaxSessions \in Nat \ {0} /\ MaxPages \in Nat \ {0}
  /\ RetireAfter \in Nat \ {0} /\ MaxTries \in [Requests -> Nat \ {0}]
  /\ IsFiniteSet(Requests) /\ IsFiniteSet(Sessions)
  /\ \E W \in SUBSET Sessions : Cardinality(W) = MinSessions

VARIABLES
  state,       \* session.state; "closed" also for one that was never created
  pool,        \* the keys of the map of sessions
  activePages,       \* activePages, of the sessions in the map
  served,      \* totalPagesServed, of the sessions in the map
  late,        \* releases of a page that had been released before, per session
  connecting,  \* sessions whose connectOverCDP is pending
  open,        \* sessions whose browser is connected
  creating,    \* creatingSession
  line,        \* acquireLock: the requests in doAcquirePage, the first is running
  pc, at,      \* where a request is, and the session of its page
  tries,       \* attempts begun
  handles,     \* activeHandles, as the requests they were given to
  releases,    \* calls of releasePage that have not returned
  pinned,      \* the requests that are pinned, in all their attempts
  stage        \* "open", "draining", "down"

sessionVars == <<state, pool, activePages, served, late, connecting, open, creating>>
requestVars == <<line, pc, at, tries>>
pageVars == <<handles, releases>>
vars == <<sessionVars, requestVars, pageVars, pinned, stage>>

Release == [of : Requests, try : Nat, by : {"owner", "pool"},
            at : Sessions \cup {None}, again : BOOLEAN, step : {"closing", "reaping"}]

Places == {"idle", "line", "polling", "creating", "queued", "opening", "connecting", "using",
           "finishing", "failing", "paused", "retrying", "stopping", "done"}

TypeOK ==
  /\ state \in [Sessions -> {"starting", "active", "retiring", "closed"}]
  /\ pool \subseteq Sessions /\ connecting \subseteq Sessions /\ open \subseteq Sessions
  /\ activePages \in [Sessions -> Nat] /\ served \in [Sessions -> Nat] /\ late \in [Sessions -> Nat]
  /\ creating \in BOOLEAN
  /\ line \in Seq(Requests)
  /\ pc \in [Requests -> Places]
  /\ at \in [Requests -> Sessions \cup {None}]
  /\ tries \in [Requests -> Nat]
  /\ handles \subseteq Requests /\ releases \subseteq Release /\ pinned \subseteq OneShot
  /\ stage \in {"open", "draining", "down"}

\* start() creates minSessions sessions at once.
Warm == CHOOSE W \in SUBSET Sessions : Cardinality(W) = MinSessions

Init ==
  /\ state = [b \in Sessions |-> IF b \in Warm THEN "starting" ELSE "closed"]
  /\ pool = Warm /\ connecting = Warm /\ open = {}
  /\ activePages = [b \in Sessions |-> 0]
  /\ served = [b \in Sessions |-> 0]
  /\ late = [b \in Sessions |-> 0]
  /\ creating = (MinSessions > 0)
  /\ line = <<>>
  /\ pc = [r \in Requests |-> "idle"]
  /\ at = [r \in Requests |-> None]
  /\ tries = [r \in Requests |-> 0]
  /\ handles = {} /\ releases = {} /\ pinned \in SUBSET OneShot
  /\ stage = "open"

-----------------------------------------------------------------------------
(* Sessions. *)

ActiveSessions == {b \in pool : state[b] = "active"}

\* Mutant: sessions that are being created do not count.
ManagedWhenActive(st) == Cardinality({b \in pool : st[b] = "active"})

\* countSessionsByState("active") + countSessionsByState("starting")
Managed(st) == Cardinality({b \in pool : st[b] \in {"active", "starting"}})

\* findAvailableSession: the least loaded.
Best == {b \in ActiveSessions : activePages[b] < MaxPages /\ \A c \in ActiveSessions : activePages[b] <= activePages[c]}

Unused == Sessions \ (pool \cup connecting \cup open)

Threshold == LET third == (3 * MaxPages) \div 10 IN IF third > 3 THEN third ELSE 3

\* Pages that the active sessions have room for.
Room(st, n) ==
  FoldSet(LAMBDA b, sum : sum + (MaxPages - n[b]), 0, {b \in pool : st[b] = "active"})

CreateSession(st, b) ==
  /\ state' = [st EXCEPT ![b] = "starting"]
  /\ pool' = pool \cup {b} /\ connecting' = connecting \cup {b}
  /\ creating' = TRUE

\* ensureCapacity, when the sessions are in the states st and serve n pages.
EnsureCapacity(st, n) ==
  IF /\ stage = "open" /\ ~creating /\ Unused # {}
     /\ Managed(st) < MaxSessions /\ Room(st, n) < Threshold
  THEN CreateSession(st, CHOOSE b \in Unused : TRUE)
  ELSE state' = st /\ UNCHANGED <<pool, connecting, creating>>

\* The sessions bs leave the map, whose others have n pages, and l late releases.
Close(bs, n, l) ==
  /\ state' = [b \in Sessions |-> IF b \in bs THEN "closed" ELSE state[b]]
  /\ pool' = pool \ bs
  /\ activePages' = [b \in Sessions |-> IF b \in bs THEN 0 ELSE n[b]]
  /\ late' = [b \in Sessions |-> IF b \in bs THEN 0 ELSE l[b]]
  /\ served' = [b \in Sessions |-> IF b \in bs THEN 0 ELSE served[b]]

\* dequeueNext, after a step that left the requests at p and their pages at a: the
\* one that waits has the lock, and goes on before anything else happens.
DequeueNext(p, a) ==
  IF Best' # {} /\ line # <<>> /\ p[Head(line)] = "queued"
  THEN \E b \in Best' : /\ pc' = [p EXCEPT ![Head(line)] = "opening"]
                        /\ at' = [a EXCEPT ![Head(line)] = b]
  ELSE pc' = p /\ at' = a

-----------------------------------------------------------------------------
(* Acquiring. *)

Goto(r, place) == pc' = [pc EXCEPT ![r] = place]

\* A failed acquisition is tried again, unless the client is gone or it was the
\* last attempt.  The lock goes to the next request.
AcquireFails(r) ==
  /\ \E place \in {"idle", "done"} :
       (place = "idle" => tries[r] < MaxTries[r]) /\ Goto(r, place)
  /\ at' = [at EXCEPT ![r] = None]

AcquirePage(r) ==
  /\ pc[r] = "idle" /\ r \notin pinned /\ tries[r] < MaxTries[r] /\ stage = "open"
  /\ tries' = [tries EXCEPT ![r] = @ + 1]
  /\ Goto(r, "line") /\ line' = Append(line, r)
  /\ EnsureCapacity(state, activePages)
  /\ UNCHANGED <<activePages, served, late, open, at, pageVars, stage>>

\* "Pool is shut down", or the client has gone before the attempt.
Refuse(r) ==
  /\ pc[r] = "idle"
  /\ Goto(r, "done")
  /\ UNCHANGED <<sessionVars, line, at, tries, pageVars, stage>>

Holds(r) == line # <<>> /\ Head(line) = r

Take(r) ==
  /\ \E b \in Best : at' = [at EXCEPT ![r] = b]
  /\ Goto(r, "opening")
  /\ UNCHANGED <<sessionVars, line, tries, pageVars, stage>>

\* No session and none on its way: create one, or wait for a slot.
CreateOrWait(r) ==
  IF Managed(state) < MaxSessions
  THEN /\ \E b \in {c \in Unused : c = CHOOSE d \in Unused : TRUE} :
            CreateSession(state, b) /\ at' = [at EXCEPT ![r] = b]
       /\ Goto(r, "creating")
       /\ UNCHANGED <<activePages, served, late, open, line, tries, pageVars, stage>>
  ELSE /\ Goto(r, "queued")
       /\ UNCHANGED <<sessionVars, line, at, tries, pageVars, stage>>

DoAcquirePage(r) ==
  /\ pc[r] = "line" /\ Holds(r)
  /\ \/ Take(r)
     \/ /\ Best = {} /\ creating
        /\ Goto(r, "polling")
        /\ UNCHANGED <<sessionVars, line, at, tries, pageVars, stage>>
     \/ Best = {} /\ ~creating /\ CreateOrWait(r)

\* 20 looks, 250 ms apart.
Poll(r) ==
  /\ pc[r] = "polling"
  /\ Take(r) \/ (Best = {} /\ CreateOrWait(r))

\* Mutant: a session that is ready is not announced to the queue.
SessionReadyQuietly(b) ==
  /\ b \in connecting
  /\ connecting' = connecting \ {b} /\ open' = open \cup {b}
  /\ state' = [state EXCEPT ![b] = "active"]
  /\ creating' = FALSE
  /\ pc' = [r \in Requests |-> IF pc[r] = "creating" /\ at[r] = b THEN "opening" ELSE pc[r]]
  /\ UNCHANGED <<pool, activePages, served, late, line, at, tries, pageVars, stage>>

\* Also after the pool was shut down and the session closed.
SessionReady(b) ==
  /\ b \in connecting
  /\ connecting' = connecting \ {b} /\ open' = open \cup {b}
  /\ state' = [state EXCEPT ![b] = "active"]
  /\ creating' = FALSE
  /\ UNCHANGED <<pool, activePages, served, late, line, tries, pageVars, stage>>
  /\ DequeueNext([r \in Requests |-> IF pc[r] = "creating" /\ at[r] = b THEN "opening" ELSE pc[r]], at)

SessionFails(b) ==
  /\ b \in connecting
  /\ connecting' = connecting \ {b} /\ Close({b}, activePages, late) /\ creating' = FALSE
  /\ IF line # <<>> /\ pc[Head(line)] = "creating" /\ at[Head(line)] = b
     THEN AcquireFails(Head(line)) /\ line' = Tail(line)
     ELSE UNCHANGED <<line, pc, at>>
  /\ UNCHANGED <<open, tries, pageVars, stage>>

QueueTimeout(r) ==
  /\ pc[r] = "queued"
  /\ AcquireFails(r) /\ line' = Tail(line)
  /\ UNCHANGED <<sessionVars, tries, pageVars, stage>>

\* newContext and newPage returned.  The counts of a session that has left the map,
\* and totalPagesServed of one that retires, are never read.
OpenPage(r) ==
  /\ pc[r] = "opening" /\ at[r] \in open
  /\ handles' = handles \cup {r}
  /\ Goto(r, "using") /\ line' = Tail(line)
  /\ LET b == at[r]
         n == IF b \in pool THEN [activePages EXCEPT ![b] = @ + 1] ELSE activePages
         retires == b \in pool /\ state[b] = "active" /\ served[b] + 1 >= RetireAfter
     IN  /\ activePages' = n
         /\ served' = IF b \in pool /\ ~retires THEN [served EXCEPT ![b] = @ + 1] ELSE served
         /\ EnsureCapacity(IF retires THEN [state EXCEPT ![b] = "retiring"] ELSE state, n)
  /\ UNCHANGED <<late, open, at, tries, releases, stage>>

OpenFails(r) ==
  /\ pc[r] = "opening"
  /\ AcquireFails(r) /\ line' = Tail(line)
  /\ UNCHANGED <<sessionVars, tries, pageVars, stage>>

-----------------------------------------------------------------------------
(* One-shot sessions: a connection of their own, outside the map. *)

AcquireOneShot(r) ==
  /\ pc[r] = "idle" /\ r \in pinned /\ tries[r] < MaxTries[r] /\ stage = "open"
  /\ tries' = [tries EXCEPT ![r] = @ + 1]
  /\ Goto(r, "connecting")
  /\ UNCHANGED <<sessionVars, line, at, pageVars, stage>>

OneShotOpens(r) ==
  /\ pc[r] = "connecting"
  /\ Goto(r, "using") /\ handles' = handles \cup {r}
  /\ UNCHANGED <<sessionVars, line, at, tries, releases, stage>>

OneShotFails(r) ==
  /\ pc[r] = "connecting"
  /\ AcquireFails(r)
  /\ UNCHANGED <<sessionVars, line, tries, pageVars, stage>>

-----------------------------------------------------------------------------
(* Releasing. *)

Call(r, by) ==
  [of |-> r, try |-> tries[r], by |-> by, at |-> at[r], again |-> r \notin handles,
   step |-> "closing"]

\* releasePage, up to its first await.
ReleasePage(r, place) ==
  /\ handles' = handles \ {r}
  /\ releases' = releases \cup {Call(r, "owner")}
  /\ Goto(r, place)
  /\ at' = [at EXCEPT ![r] = IF place = "failing" THEN @ ELSE None]
  /\ UNCHANGED <<sessionVars, line, tries, stage>>

Succeed(r) == pc[r] = "using" /\ ReleasePage(r, "finishing")

\* The action fails, surely when the page was closed under it.
Fail(r) == pc[r] = "using" /\ (r \in Failing \/ r \notin handles) /\ ReleasePage(r, "failing")

\* break and continue leave the attempt through its finally block, which
\* releases the page again; only the exhausted request clears the handle.
AfterFailure(r) ==
  /\ pc[r] = "paused"
  /\ \/ ReleasePage(r, "stopping")
     \/ tries[r] < MaxTries[r] /\ ReleasePage(r, "retrying")
     \/ /\ Goto(r, "done") /\ at' = [at EXCEPT ![r] = None]
        /\ UNCHANGED <<sessionVars, line, tries, pageVars, stage>>

WhereTo(place) ==
  CASE place = "finishing" -> "done"
    [] place = "failing"   -> "paused"
    [] place = "stopping"  -> "done"
    [] place = "retrying"  -> "idle"

\* The call x returns; its caller goes on.
Returned(x) == IF x.by = "owner" THEN [pc EXCEPT ![x.of] = WhereTo(@)] ELSE pc

\* Mutant: a retiring session is closed with the first page given back.
ContextClosedEarly(x) ==
  /\ x \in releases /\ x.step = "closing" /\ x.at \in pool
  /\ LET n == [activePages EXCEPT ![x.at] = IF @ > 0 THEN @ - 1 ELSE 0]
     IN  Close({b \in {x.at} : state[b] = "retiring"}, n, late)
  /\ releases' = releases \ {x}
  /\ UNCHANGED <<connecting, open, creating, line, tries, handles, stage>>
  /\ DequeueNext(Returned(x), at)

\* The context is closed and the page not counted any more; a retiring session
\* that is empty is closed, and awaited before the queue is looked at.
ContextClosed(x) ==
  /\ x \in releases /\ x.step = "closing" /\ x.at \in pool
  /\ LET n == [activePages EXCEPT ![x.at] = IF @ > 0 THEN @ - 1 ELSE 0]
         l == IF x.again THEN [late EXCEPT ![x.at] = @ + 1] ELSE late
         empty == {b \in {x.at} : state[b] = "retiring" /\ n[b] = 0}
     IN  /\ Close(empty, n, l)
         /\ UNCHANGED <<connecting, open, creating, line, tries, handles, stage>>
         /\ IF empty = {}
            THEN releases' = releases \ {x} /\ DequeueNext(Returned(x), at)
            ELSE /\ releases' = (releases \ {x}) \cup {[x EXCEPT !.step = "reaping"]}
                 /\ UNCHANGED <<pc, at>>

\* A one-shot page, or one whose session is gone: nothing is counted.
ReturnUncounted(x) ==
  /\ x \in releases /\ x.step = "closing" /\ x.at \notin pool
  /\ releases' = releases \ {x} /\ pc' = Returned(x)
  /\ UNCHANGED <<sessionVars, line, at, tries, handles, stage>>

Reaped(x) ==
  /\ x \in releases /\ x.step = "reaping"
  /\ releases' = releases \ {x}
  /\ UNCHANGED <<sessionVars, line, tries, handles, stage>>
  /\ DequeueNext(Returned(x), at)

-----------------------------------------------------------------------------
(* Disconnection, maintenance, shutdown. *)

\* A browser that is closed, or crashes: its pages are dropped from the table, and
\* what is done with them later finds no session.
Disconnected(b) ==
  /\ b \in open
  /\ open' = open \ {b} /\ Close({b}, activePages, late)
  /\ handles' = {r \in handles : at[r] # b}
  /\ releases' = {IF x.at = b THEN [x EXCEPT !.at = None] ELSE x : x \in releases}
  /\ UNCHANGED <<connecting, creating, line, tries, stage>>
  /\ DequeueNext(pc, [r \in Requests |-> IF at[r] = b THEN None ELSE at[r]])

\* The sessions in old have lived for retireAfterMs, those in idle had no page
\* for idleTimeoutMs, and the requests in stale hold their pages for too long.
\* Idle sessions are retired while more than minSessions are active; the map is in
\* the order of creation, so the old ones have been retired by then.
Maintain(old, idle, stale) ==
  /\ idle # {} => Cardinality(ActiveSessions \ old) - Cardinality(idle) >= MinSessions
  /\ LET retiring == old \cup idle \cup {b \in pool : state[b] = "retiring"}
         empty == {b \in retiring : activePages[b] = 0}
     IN  /\ state' = [b \in Sessions |-> IF b \in empty THEN "closed"
                                       ELSE IF b \in retiring THEN "retiring" ELSE state[b]]
         /\ pool' = pool \ empty
         /\ served' = [b \in Sessions |-> IF b \in empty THEN 0 ELSE served[b]]
         /\ late' = [b \in Sessions |-> IF b \in empty THEN 0 ELSE late[b]]
  /\ handles' = handles \ stale
  /\ releases' = releases \cup {Call(r, "pool") : r \in stale}
  /\ UNCHANGED <<activePages, connecting, open, creating, requestVars, stage>>

Maintenance ==
  /\ stage = "open"
  /\ \E old \in SUBSET ActiveSessions, stale \in SUBSET (handles \cap Slow) :
       \E idle \in SUBSET {b \in ActiveSessions \ old : activePages[b] = 0} :
         /\ old \cup idle \cup stale \cup {b \in pool : state[b] = "retiring" /\ activePages[b] = 0} # {}
         /\ Maintain(old, idle, stale)

Shutdown ==
  /\ stage = "open" /\ stage' = "draining"
  /\ state' = [b \in Sessions |-> IF b \in pool THEN "retiring" ELSE state[b]]
  /\ IF line # <<>> /\ pc[Head(line)] = "queued"
     THEN AcquireFails(Head(line)) /\ line' = Tail(line)
     ELSE UNCHANGED <<line, pc, at>>
  /\ UNCHANGED <<pool, activePages, served, late, connecting, open, creating, tries, pageVars>>

\* No page is held, or ten seconds are over: what is still held is closed.
CloseAll ==
  /\ stage = "draining" /\ stage' = "down"
  /\ handles' = {} /\ Close(pool, activePages, late)
  /\ UNCHANGED <<connecting, open, creating, requestVars, releases>>

-----------------------------------------------------------------------------

Acquire(r) ==
  \/ DoAcquirePage(r) \/ Poll(r) \/ QueueTimeout(r) \/ OpenPage(r) \/ OpenFails(r)

Connect(b) == SessionReady(b) \/ SessionFails(b)

Return(x) == ContextClosed(x) \/ ReturnUncounted(x) \/ Reaped(x)

Step ==
  \/ \E r \in Requests : \/ AcquirePage(r) \/ Refuse(r) \/ Acquire(r)
                        \/ AcquireOneShot(r) \/ OneShotOpens(r) \/ OneShotFails(r)
                        \/ Succeed(r) \/ Fail(r) \/ AfterFailure(r)
  \/ \E b \in Sessions : Connect(b) \/ Disconnected(b)
  \/ \E x \in releases : Return(x)
  \/ Maintenance \/ Shutdown \/ CloseAll

\* What a request asks for is the same in all its attempts.
Next == Step /\ UNCHANGED pinned

Spec == Init /\ [][Next]_vars

-----------------------------------------------------------------------------
(* Properties. *)

\* Pages of b that are held, and that are on their way back.
HeldOf(b) == {r \in handles : at[r] = b}
BackOf(b) == {x \in releases : x.at = b /\ x.step = "closing" /\ ~x.again}

Counted(b) == Cardinality(HeldOf(b)) + Cardinality(BackOf(b))

\* The configuration may ask for more sessions to start with than maxSessions.
Limit == IF MinSessions > MaxSessions THEN MinSessions ELSE MaxSessions

\* Warm-ups, requests and proactive scaling together never have more than
\* maxSessions sessions at work, or those of the start, before the shutdown.
SessionsWithinLimit ==
  stage = "open" => Cardinality({b \in pool : state[b] \in {"active", "starting"}}) <= Limit

\* activePages misses no page but those released twice, and counts none that is
\* back: a count that is too high would keep a session from ever being closed.
PagesAccounted ==
  \A b \in pool :
    /\ activePages[b] <= Counted(b)
    /\ Counted(b) <= activePages[b] + late[b]

\* A browser serves at most maxPagesPerSession pages, and one more for each page
\* that was released twice.
PagesWithinLimitButLate ==
  \A b \in pool : Counted(b) <= MaxPages + late[b]

\* A browser serves at most maxPagesPerSession pages.
PagesWithinLimit ==
  \A b \in pool : Counted(b) <= MaxPages

\* Retirement, idle sweep and release close a session only when nobody holds a
\* page of it, unless a page of it was, or is being, released twice.
ClosedWhenEmpty ==
  [][\A b \in pool \ pool' :
       /\ b \in open' /\ stage' # "down"
       /\ late[b] = 0 /\ \A x \in releases : x.at = b => ~x.again
       => \A r \in handles : at[r] # b]_vars

\* While a request waits for a slot no session has one free.
NoStrandedWaiter ==
  line # <<>> /\ pc[Head(line)] = "queued" => Best = {}

\* The acquire lock is held by a request that waits for something that will come:
\* its turn, a session, a slot or its timer, a page.  Whoever leaves the first
\* place, served or refused, leaves it to the next.
LockPassesOn ==
  \A r \in Requests :
    /\ pc[r] \in {"line", "polling", "creating", "queued", "opening"}
         <=> \E i \in DOMAIN line : line[i] = r
    /\ pc[r] \in {"polling", "creating", "queued", "opening"} => Head(line) = r
    /\ pc[r] = "creating" => at[r] \in connecting

\* The pool's limits, of sessions and of the pages of each, and the counts by which
\* the code enforces them.
WithinLimits == SessionsWithinLimit /\ PagesWithinLimitButLate /\ PagesAccounted

\* Nobody waits for what is free: a slot, or the lock.
AcquirePassesOn == NoStrandedWaiter /\ LockPassesOn
=============================================================================
