------------------------------- MODULE Gateway -------------------------------
(***************************************************************************)
(* The routing core: one handleUpgrade per client connection, the          *)
(* concurrency slots of the providers, the wait queue, reconnection by     *)
(* session id, the stale-slot reconciler, provider administration and the  *)
(* graceful shutdown.                                                      *)
(*                                                                         *)
(* The program is single-threaded, so a handler is atomic between two      *)
(* awaits.  A handler whose promise has been resolved continues in a       *)
(* microtask, before any new socket event, timer or HTTP request: such a   *)
(* handler is at a Runnable control point, and every action that starts    *)
(* from an event of the outside waits until nobody is (Settled).           *)
(***************************************************************************)
EXTENDS Naturals, FiniteSets, SequencesExt

CONSTANTS
  Providers,   \* provider ids
  Requests,    \* client connections; a request is also its own random session id
  Keys,        \* the session keys clients choose for themselves
  None,
  Limit,       \* Limit[p]: effective maxConcurrent of p, 0 when unlimited
  MaxQueue,    \* gateway.queue.maxSize
  Key,         \* Key[r]: the well-formed ?sessionKey of r, or None
  ResumeId,    \* ResumeId[r]: the ?sessionId of r, or None
  Pin,         \* Pin[r]: the ?provider of r, or None
  Serves,      \* Serves[r]: providers isEligibleProviderForProfile admits for r
  MayServe,    \* MayServe[r]: providers isEligibleForProfile admits for r
  ReadOnly,    \* requests that load their profile read-only
  ProxyOk,     \* ProxyOk[r]: providers able to apply the proxy of r
  Flaky,       \* providers whose connection attempts may fail
  Coolable,    \* providers whose failures may reach the cooldown threshold
  Managed,     \* providers an operator disables, enables, deletes and adds
  Outliving    \* requests whose session may outlive 2 * idleTimeoutMs

Sids == Requests \cup Keys

ASSUME GatewayAssumption ==
  /\ IsFiniteSet(Requests) /\ IsFiniteSet(Keys) /\ IsFiniteSet(Providers)
  /\ Requests \cap Keys = {}
  /\ None \notin Providers \cup Sids
  /\ Limit \in [Providers -> Nat]
  /\ MaxQueue \in Nat
  /\ Key \in [Requests -> Keys \cup {None}]
  /\ ResumeId \in [Requests -> Sids \cup {None}]
  /\ Pin \in [Requests -> Providers \cup {None}]
  /\ Serves \in [Requests -> SUBSET Providers]
  /\ MayServe \in [Requests -> SUBSET Providers]
  /\ ProxyOk \in [Requests -> SUBSET Providers]
  /\ ReadOnly \cup Outliving \subseteq Requests
  /\ Flaky \cup Coolable \cup Managed \subseteq Providers

VARIABLES
  status,    \* registry: "enabled", "disabled" or "absent" for each provider
  active,    \* ProviderState.active
  cooling,   \* the providers whose cooldownUntil is in the future
  slot,      \* ConcurrencyTracker.sessions: the provider of a session's entry
  aged,      \* the sessions whose entry is older than 2 * idleTimeoutMs
  tracked,   \* SessionTracker.sessions
  parked,    \* ReconnectRegistry.parked: the provider of a parked session
  queue,     \* Gateway.queue
  pc,        \* where each handler is
  sid,       \* the session id it connects with
  at,        \* the provider it holds a slot of
  cands,     \* the fallbacks the current tryConnect has left
  tries,     \* the tryConnect calls it has made
  shutdown   \* "no", "draining", "drained" (count was 0) or "forced" (timer)

registryVars == <<status, cooling>>
slotVars == <<active, slot, aged>>
handlerVars == <<sid, at, cands, tries>>
vars == <<status, active, cooling, slot, aged, tracked, parked, queue, pc,
          sid, at, cands, tries, shutdown>>

Runnable == {"routing", "trying", "asking", "woken"}
Holding == {"connecting", "reconnecting", "live"}
Answered == {"live", "ended", "refused"}

Holders(p) == {r \in Requests : pc[r] \in Holding /\ at[r] = p}
Settled == \A r \in Requests : pc[r] \notin Runnable

TypeOK ==
  /\ status \in [Providers -> {"enabled", "disabled", "absent"}]
  /\ active \in [Providers -> Nat]
  /\ cooling \subseteq Providers
  /\ slot \in [Sids -> Providers \cup {None}]
  /\ aged \subseteq Sids
  /\ tracked \subseteq Sids
  /\ parked \in [Sids -> Providers \cup {None}]
  /\ queue \in Seq(Requests)
  /\ pc \in [Requests -> {"new", "queued"} \cup Runnable \cup Holding \cup Answered]
  /\ sid \in [Requests -> Sids \cup {None}]
  /\ at \in [Requests -> Providers \cup {None}]
  /\ cands \in [Requests -> SUBSET Providers]
  /\ tries \in [Requests -> 0..2]
  /\ shutdown \in {"no", "draining", "drained", "forced"}

Init ==
  /\ status \in [Providers -> {"enabled", "disabled"}]
  /\ \A p \in Providers \ Managed : status[p] = "enabled"
  /\ active = [p \in Providers |-> 0]
  /\ cooling = {}
  /\ slot = [s \in Sids |-> None]
  /\ aged = {}
  /\ tracked = {}
  /\ parked = [s \in Sids |-> None]
  /\ queue = <<>>
  /\ pc = [r \in Requests |-> "new"]
  /\ sid = [r \in Requests |-> None]
  /\ at = [r \in Requests |-> None]
  /\ cands = [r \in Requests |-> {}]
  /\ tries = [r \in Requests |-> 0]
  /\ shutdown = "no"

-----------------------------------------------------------------------------
(* Selection.  A strategy only orders the candidates; the set is enough here, *)
(* and a handler tries its members in any order.                              *)

HasFreeSlot(p, act) == Limit[p] = 0 \/ act[p] < Limit[p]

Candidates(pin, eligible, act) ==
  {p \in eligible : /\ pin \in {None, p}
                    /\ status[p] = "enabled"
                    /\ p \notin cooling
                    /\ HasFreeSlot(p, act)}

\* What tryConnect selects from; a read-only request skips the profile check.
ConnectCandidates(r) ==
  Candidates(Pin[r], IF r \in ReadOnly THEN Providers ELSE Serves[r], active)

\* What waitForSlot and dequeueNext select from; readOnly is not passed on.
QueueCandidates(r, act) == Candidates(Pin[r], Serves[r], act)

-----------------------------------------------------------------------------
(* Slots. *)

\* Mutant: acquire without the check against maxConcurrent.
CanAcquireBeyondLimit(p) == status[p] = "enabled"

CanAcquire(p) == status[p] = "enabled" /\ HasFreeSlot(p, active)

\* Mutant: acquire records the entry and forgets the counter.
AcquireSlotUncounted(s, p) ==
  /\ slot' = [slot EXCEPT ![s] = p]
  /\ aged' = aged \ {s}
  /\ UNCHANGED active

AcquireSlot(s, p) ==
  /\ slot' = [slot EXCEPT ![s] = p]
  /\ active' = [active EXCEPT ![p] = @ + 1]
  /\ aged' = aged \ {s}

\* ProviderState.active after the session's entry, if there is one, is released.
Released(s, p) ==
  IF slot[s] = None THEN active
  ELSE [active EXCEPT ![p] = IF @ = 0 THEN 0 ELSE @ - 1]

\* Mutant: only the head of the queue is looked at.
WakeableHead(act) == {i \in DOMAIN queue : i = 1 /\ QueueCandidates(queue[i], act) # {}}

\* The queue positions a release may wake.
Wakeable(act) == {i \in DOMAIN queue : QueueCandidates(queue[i], act) # {}}

\* Mutant: only an enabled provider can release.
ReleaseSlotIfEnabled(r, next) ==
  /\ pc' = [pc EXCEPT ![r] = next]
  /\ IF status[at[r]] = "enabled"
     THEN /\ slot' = [slot EXCEPT ![sid[r]] = None]
          /\ active' = Released(sid[r], at[r])
          /\ aged' = aged \ {sid[r]}
     ELSE UNCHANGED slotVars
  /\ UNCHANGED queue

\* Handler r gives its slot back and goes on at `next`; the first waiter that
\* has a candidate leaves the queue.  A deleted provider releases nothing.
ReleaseSlot(r, next) ==
  LET act == Released(sid[r], at[r])
  IN  IF status[at[r]] = "absent"
      THEN /\ pc' = [pc EXCEPT ![r] = next]
           /\ UNCHANGED <<slotVars, queue>>
      ELSE /\ slot' = [slot EXCEPT ![sid[r]] = None]
           /\ active' = act
           /\ aged' = aged \ {sid[r]}
           /\ \/ /\ Wakeable(act) = {}
                 /\ pc' = [pc EXCEPT ![r] = next]
                 /\ UNCHANGED queue
              \/ \E i \in Wakeable(act) :
                   /\ \A j \in Wakeable(act) : i <= j
                   /\ pc' = [pc EXCEPT ![r] = next, ![queue[i]] = "woken"]
                   /\ queue' = RemoveAt(queue, i)

\* Whether the failure rate of the window reaches the threshold is left open:
\* either outcome is possible.
RecordFailure(p) ==
  \/ UNCHANGED cooling
  \/ /\ p \in Coolable /\ status[p] = "enabled"
     /\ cooling' = cooling \cup {p}

-----------------------------------------------------------------------------
(* handleUpgrade. *)

ReconnectId(r) == IF ResumeId[r] # None THEN ResumeId[r] ELSE Key[r]
Parked(r) == ReconnectId(r) # None /\ parked[ReconnectId(r)] # None

\* The parked entry is removed whether or not its provider can be used.
ClaimParked(r) ==
  IF Parked(r) THEN parked' = [parked EXCEPT ![ReconnectId(r)] = None]
  ELSE UNCHANGED parked

ArriveAtShutdown(r) ==
  /\ pc[r] = "new" /\ Settled
  /\ shutdown # "no"
  /\ pc' = [pc EXCEPT ![r] = "refused"]
  /\ UNCHANGED <<registryVars, slotVars, tracked, parked, queue, handlerVars, shutdown>>

Arrive(r) ==
  /\ pc[r] = "new" /\ Settled
  /\ shutdown = "no"
  /\ Parked(r) => ~CanAcquire(parked[ReconnectId(r)])
  /\ ClaimParked(r)
  /\ pc' = [pc EXCEPT ![r] = "routing"]
  /\ UNCHANGED <<registryVars, slotVars, tracked, queue, handlerVars, shutdown>>

\* The claimed session keeps its id and its provider, whatever the cooldown.
ArriveToReconnect(r) ==
  /\ pc[r] = "new" /\ Settled
  /\ shutdown = "no"
  /\ Parked(r) /\ CanAcquire(parked[ReconnectId(r)])
  /\ ClaimParked(r)
  /\ AcquireSlot(ReconnectId(r), parked[ReconnectId(r)])
  /\ sid' = [sid EXCEPT ![r] = ReconnectId(r)]
  /\ at' = [at EXCEPT ![r] = parked[ReconnectId(r)]]
  /\ pc' = [pc EXCEPT ![r] = "reconnecting"]
  /\ UNCHANGED <<registryVars, tracked, queue, cands, tries, shutdown>>

PinMissing(r) == Pin[r] # None /\ status[Pin[r]] # "enabled"

RefusePin(r) ==
  /\ pc[r] = "routing"
  /\ PinMissing(r)
  /\ pc' = [pc EXCEPT ![r] = "refused"]
  /\ UNCHANGED <<registryVars, slotVars, tracked, parked, queue, handlerVars, shutdown>>

\* Chooses the session id and starts the first tryConnect.
Route(r) ==
  /\ pc[r] = "routing"
  /\ ~PinMissing(r)
  /\ sid' = [sid EXCEPT ![r] =
               IF Key[r] # None /\ Key[r] \notin tracked THEN Key[r] ELSE r]
  /\ cands' = [cands EXCEPT ![r] = ConnectCandidates(r)]
  /\ tries' = [tries EXCEPT ![r] = 1]
  /\ pc' = [pc EXCEPT ![r] = "trying"]
  /\ UNCHANGED <<registryVars, slotVars, tracked, parked, queue, at, shutdown>>

\* One iteration of the loop of tryConnect: the provider is skipped when it
\* cannot apply the proxy or lost its free slot; the cooldown is not read again.
TryCandidate(r) ==
  /\ pc[r] = "trying"
  /\ \E p \in cands[r] :
       /\ cands' = [cands EXCEPT ![r] = @ \ {p}]
       /\ IF p \in ProxyOk[r] /\ CanAcquire(p)
          THEN /\ AcquireSlot(sid[r], p)
               /\ at' = [at EXCEPT ![r] = p]
               /\ pc' = [pc EXCEPT ![r] = "connecting"]
          ELSE UNCHANGED <<slotVars, at, pc>>
  /\ UNCHANGED <<registryVars, tracked, parked, queue, sid, tries, shutdown>>

\* tryConnect returned false: wait for a slot once, then give up.
ExhaustCandidates(r) ==
  /\ pc[r] = "trying" /\ cands[r] = {}
  /\ pc' = [pc EXCEPT ![r] = IF tries[r] = 1 THEN "asking" ELSE "refused"]
  /\ UNCHANGED <<registryVars, slotVars, tracked, parked, queue, handlerVars, shutdown>>

-----------------------------------------------------------------------------
(* waitForSlot and what ends the wait. *)

NeverServable(r) ==
  \/ PinMissing(r) \/ Pin[r] \in cooling
  \/ \A p \in MayServe[r] : status[p] # "enabled"

\* Mutant: a handler that gets here after the shutdown began still queues.
WaitForSlotAtShutdown(r) ==
  /\ pc[r] = "asking"
  /\ IF ~NeverServable(r) /\ Len(queue) < MaxQueue
     THEN pc' = [pc EXCEPT ![r] = "queued"] /\ queue' = Append(queue, r)
     ELSE pc' = [pc EXCEPT ![r] = "refused"] /\ UNCHANGED queue
  /\ UNCHANGED <<registryVars, slotVars, tracked, parked, handlerVars, shutdown>>

WaitForSlot(r) ==
  /\ pc[r] = "asking"
  /\ \/ /\ shutdown = "no" /\ QueueCandidates(r, active) # {}
        /\ pc' = [pc EXCEPT ![r] = "woken"]
        /\ UNCHANGED queue
     \/ /\ \/ shutdown # "no"
           \/ /\ QueueCandidates(r, active) = {}
              /\ NeverServable(r) \/ Len(queue) >= MaxQueue
        /\ pc' = [pc EXCEPT ![r] = "refused"]
        /\ UNCHANGED queue
     \/ /\ shutdown = "no" /\ QueueCandidates(r, active) = {}
        /\ ~NeverServable(r) /\ Len(queue) < MaxQueue
        /\ pc' = [pc EXCEPT ![r] = "queued"]
        /\ queue' = Append(queue, r)
  /\ UNCHANGED <<registryVars, slotVars, tracked, parked, handlerVars, shutdown>>

\* The second tryConnect, with a fresh candidate list.
Retry(r) ==
  /\ pc[r] = "woken"
  /\ cands' = [cands EXCEPT ![r] = ConnectCandidates(r)]
  /\ tries' = [tries EXCEPT ![r] = 2]
  /\ pc' = [pc EXCEPT ![r] = "trying"]
  /\ UNCHANGED <<registryVars, slotVars, tracked, parked, queue, sid, at, shutdown>>

\* Mutants: the timer rejects and leaves the entry; it removes the entry and
\* never rejects.
QueueTimeoutKeepsEntry(r) ==
  /\ pc[r] = "queued" /\ Settled
  /\ pc' = [pc EXCEPT ![r] = "refused"]
  /\ UNCHANGED <<registryVars, slotVars, tracked, parked, queue, handlerVars, shutdown>>

QueueTimeoutSilent(r) ==
  /\ pc[r] = "queued" /\ Settled
  /\ \E i \in DOMAIN queue : queue[i] = r /\ queue' = RemoveAt(queue, i)
  /\ UNCHANGED <<registryVars, slotVars, tracked, parked, pc, handlerVars, shutdown>>

QueueTimeout(r) ==
  /\ pc[r] = "queued" /\ Settled
  /\ \E i \in DOMAIN queue : queue[i] = r /\ queue' = RemoveAt(queue, i)
  /\ pc' = [pc EXCEPT ![r] = "refused"]
  /\ UNCHANGED <<registryVars, slotVars, tracked, parked, handlerVars, shutdown>>

-----------------------------------------------------------------------------
(* The transport's answers: pipeToProvider, handlePipelineRelay. *)

ConnectUp(r) ==
  /\ pc[r] \in {"connecting", "reconnecting"} /\ Settled
  /\ pc' = [pc EXCEPT ![r] = "live"]
  /\ tracked' = tracked \cup {sid[r]}
  /\ UNCHANGED <<registryVars, slotVars, parked, queue, handlerVars, shutdown>>

\* The slot is released, and a waiter woken, before the failure is recorded.
ConnectFails(r) ==
  /\ pc[r] \in {"connecting", "reconnecting"} /\ Settled
  /\ at[r] \in Flaky
  /\ ReleaseSlot(r, IF pc[r] = "connecting" THEN "trying" ELSE "routing")
  /\ RecordFailure(at[r])
  /\ UNCHANGED <<status, tracked, parked, handlerVars, shutdown>>

\* Either side leaves, or the idle check closes the session.
SessionEnds(r) ==
  /\ pc[r] = "live" /\ Settled
  /\ ReleaseSlot(r, "ended")
  /\ tracked' = tracked \ {sid[r]}
  /\ parked' = IF sid[r] \in tracked THEN [parked EXCEPT ![sid[r]] = at[r]] ELSE parked
  /\ UNCHANGED <<registryVars, handlerVars, shutdown>>

ParkedExpires(s) ==
  /\ parked[s] # None /\ Settled
  /\ parked' = [parked EXCEPT ![s] = None]
  /\ UNCHANGED <<registryVars, slotVars, tracked, queue, pc, handlerVars, shutdown>>

-----------------------------------------------------------------------------
(* Time: cooldowns expire, entries age, the reconciler runs. *)

CooldownExpires(p) ==
  /\ p \in cooling /\ Settled
  /\ cooling' = cooling \ {p}
  /\ UNCHANGED <<status, slotVars, tracked, parked, queue, pc, handlerVars, shutdown>>

Age(r) ==
  /\ r \in Outliving /\ pc[r] = "live" /\ Settled
  /\ slot[sid[r]] # None /\ sid[r] \notin aged
  /\ aged' = aged \cup {sid[r]}
  /\ UNCHANGED <<registryVars, active, slot, tracked, parked, queue, pc, handlerVars, shutdown>>

\* Mutant: the reconciler counts down and keeps the entries.
ReconcileKeepsEntries ==
  /\ aged # {} /\ Settled
  /\ shutdown \in {"no", "draining"}
  /\ active' = [p \in Providers |->
       LET n == Cardinality({s \in aged : slot[s] = p})
       IN  IF status[p] # "enabled" THEN active[p]
           ELSE IF active[p] > n THEN active[p] - n ELSE 0]
  /\ aged' = {}
  /\ UNCHANGED <<registryVars, slot, tracked, parked, queue, pc, handlerVars, shutdown>>

\* Every aged entry goes; only an enabled provider gets its count back, and
\* no waiter is woken.
Reconcile ==
  /\ aged # {} /\ Settled
  /\ shutdown \in {"no", "draining"}
  /\ active' = [p \in Providers |->
       LET n == Cardinality({s \in aged : slot[s] = p})
       IN  IF status[p] # "enabled" THEN active[p]
           ELSE IF active[p] > n THEN active[p] - n ELSE 0]
  /\ slot' = [s \in Sids |-> IF s \in aged THEN None ELSE slot[s]]
  /\ aged' = {}
  /\ UNCHANGED <<registryVars, tracked, parked, queue, pc, handlerVars, shutdown>>

-----------------------------------------------------------------------------
(* Provider administration; none of it wakes a waiter. *)

SetEnabled(p) ==
  /\ p \in Managed /\ status[p] # "absent" /\ Settled
  /\ status' = [status EXCEPT ![p] = IF @ = "enabled" THEN "disabled" ELSE "enabled"]
  /\ UNCHANGED <<cooling, slotVars, tracked, parked, queue, pc, handlerVars, shutdown>>

\* DELETE refuses while the provider counts active sessions.
DeleteProvider(p) ==
  /\ p \in Managed /\ status[p] # "absent" /\ Settled
  /\ active[p] = 0
  /\ status' = [status EXCEPT ![p] = "absent"]
  /\ UNCHANGED <<cooling, slotVars, tracked, parked, queue, pc, handlerVars, shutdown>>

\* A new provider gets a fresh state: no count, no cooldown.
AddProvider(p) ==
  /\ status[p] = "absent" /\ Settled
  /\ \E st \in {"enabled", "disabled"} : status' = [status EXCEPT ![p] = st]
  /\ active' = [active EXCEPT ![p] = 0]
  /\ cooling' = cooling \ {p}
  /\ UNCHANGED <<slot, aged, tracked, parked, queue, pc, handlerVars, shutdown>>

-----------------------------------------------------------------------------
(* gracefulShutdown. *)

BeginShutdown ==
  /\ shutdown = "no" /\ Settled
  /\ pc' = [r \in Requests |-> IF r \in ToSet(queue) THEN "refused" ELSE pc[r]]
  /\ queue' = <<>>
  /\ shutdown' = IF tracked = {} THEN "drained" ELSE "draining"
  /\ UNCHANGED <<registryVars, slotVars, tracked, parked, handlerVars>>

\* With sessions to drain, it ends when none is tracked or when its timer fires.
EndDrain ==
  /\ shutdown = "draining" /\ Settled
  /\ shutdown' = IF tracked = {} THEN "drained" ELSE "forced"
  /\ UNCHANGED <<registryVars, slotVars, tracked, parked, queue, pc, handlerVars>>

-----------------------------------------------------------------------------

Continue(r) ==
  \/ RefusePin(r) \/ Route(r) \/ TryCandidate(r) \/ ExhaustCandidates(r)
  \/ WaitForSlot(r) \/ Retry(r)

Answer(r) == ConnectUp(r) \/ ConnectFails(r)

Handle(r) ==
  \/ ArriveAtShutdown(r) \/ Arrive(r) \/ ArriveToReconnect(r)
  \/ Continue(r) \/ Answer(r) \/ QueueTimeout(r) \/ SessionEnds(r) \/ Age(r)

Administer(p) == SetEnabled(p) \/ DeleteProvider(p) \/ AddProvider(p)

Next ==
  \/ \E r \in Requests : Handle(r)
  \/ \E p \in Providers : Administer(p) \/ CooldownExpires(p)
  \/ \E s \in Sids : ParkedExpires(s)
  \/ Reconcile \/ BeginShutdown \/ EndDrain

Spec == Init /\ [][Next]_vars

\* Microtasks always run; queue timers fire; the transport answers a connection
\* attempt (NodeRelay.tla says when it does not); the drain timer fires.
Fairness ==
  /\ \A r \in Requests : /\ WF_vars(Continue(r))
                         /\ WF_vars(Answer(r))
                         /\ WF_vars(QueueTimeout(r))
  /\ WF_vars(EndDrain)

FairSpec == Spec /\ Fairness

-----------------------------------------------------------------------------
(* Properties. *)

\* The queue holds exactly the handlers suspended in waitForSlot, each once:
\* a timer, a wake-up and the shutdown never leave an entry behind, drop one
\* or resolve it twice (Gateway.queue against the pending promises).
QueueMatchesWaiters ==
  /\ IsInjective(queue)
  /\ ToSet(queue) = {r \in Requests : pc[r] = "queued"}

\* maxConcurrent bounds the connections a provider really has, connecting or
\* live, and not only the counter the gateway keeps of them.
CapacityRespected ==
  \A p \in Providers : Limit[p] # 0 => Cardinality(Holders(p)) <= Limit[p]

\* Beyond maxConcurrent there are only sessions whose entry the reconciler took:
\* the connections that still have an entry never exceed the limit.
OnlyReclaimedExceed ==
  \A p \in Providers : Limit[p] # 0 =>
    Cardinality({r \in Holders(p) : slot[sid[r]] = p}) <= Limit[p]

\* A slot counted on a provider belongs to a connection that is still there:
\* whatever path a handler leaves by, its slot comes back.
NoLeakedSlot ==
  \A p \in Providers : active[p] <= Cardinality(Holders(p))

\* gracefulShutdown and the idle check see every live relay, and only those.
TrackerSeesEveryRelay ==
  tracked = {sid[r] : r \in {q \in Requests : pc[q] = "live"}}

\* No two connections share a session id, so neither takes over the other's
\* slot entry, tracker entry or parked entry.
DistinctSessionIds ==
  \A r, q \in Requests :
    pc[r] \in Holding /\ pc[q] \in Holding /\ sid[r] = sid[q] => r = q

\* Slots, tracker and session ids tell the same story of who is served.
SlotsFollowRelays == NoLeakedSlot /\ TrackerSeesEveryRelay /\ DistinctSessionIds

\* No lost wake-up: once the handlers have settled, nobody waits in the queue
\* for a slot that is free.
NoStrandedWaiter ==
  Settled => \A r \in ToSet(queue) : QueueCandidates(r, active) = {}

\* Nobody is left waiting once the shutdown has begun, though a handler may
\* reach waitForSlot after the queue was drained.
NoWaiterAtShutdown == shutdown # "no" => queue = <<>>

\* Seen through the connections that hold a slot, the gateway is the allocator
\* of SlotAllocation.tla: no step over-grants, and none moves two connections.
Allocation == INSTANCE SlotAllocation WITH held <- [p \in Providers |-> Holders(p)]
ImplementsAllocation == Allocation!Spec

\* Every client that arrived gets its connection or an error response (one that
\* has arrived is never new again).
EveryRequestAnswered ==
  \A r \in Requests : []<>(pc[r] # "new" => pc[r] \in Answered)
=============================================================================
