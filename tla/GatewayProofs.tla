----------------------------- MODULE GatewayProofs -----------------------------
(***************************************************************************)
(* Theorems about Gateway for every set of providers, requests and keys,   *)
(* every limit and every pin: the types and the wait queue, the bound on   *)
(* the connections of a provider and the refinement of SlotAllocation; the *)
(* slots, session ids and tracker entries, which tell one story as long as *)
(* no two connections race for a session key; and the wake-ups of the      *)
(* queue, none of which is lost as long as slots open by releases only.    *)
(***************************************************************************)
EXTENDS Gateway, TLAPS, FiniteSetTheorems, SequenceTheorems

-----------------------------------------------------------------------------
(* The queue helper. *)

\* Removing one position of a sequence keeps the others, in their order.
LEMMA RemoveAtKeepsRest ==
  ASSUME NEW S, NEW q \in Seq(S), NEW i \in 1..Len(q)
  PROVE  /\ RemoveAt(q, i) \in Seq(S)
         /\ Len(RemoveAt(q, i)) = Len(q) - 1
         /\ \A j \in 1..(Len(q) - 1) :
              RemoveAt(q, i)[j] = IF j < i THEN q[j] ELSE q[j + 1]
<1> DEFINE front == SubSeq(q, 1, i - 1)
           back == SubSeq(q, i + 1, Len(q))
<1>1. /\ front \in Seq(S) /\ Len(front) = i - 1
      /\ \A j \in 1..(i - 1) : front[j] = q[j]
  <2>1. /\ 1 \in Int /\ i - 1 \in Int
        /\ \A j \in 1..(i - 1) : q[j] \in S
    OBVIOUS
  <2>2. /\ front \in Seq(S)
        /\ Len(front) = IF 1 <= i - 1 THEN (i - 1) - 1 + 1 ELSE 0
        /\ \A j \in 1..((i - 1) - 1 + 1) : front[j] = q[1 + j - 1]
    BY <2>1, SubSeqProperties
  <2> QED BY <2>2
<1>2. /\ back \in Seq(S) /\ Len(back) = Len(q) - i
      /\ \A j \in 1..(Len(q) - i) : back[j] = q[i + j]
  <2>1. /\ i + 1 \in Int /\ Len(q) \in Int
        /\ \A j \in (i + 1)..Len(q) : q[j] \in S
    OBVIOUS
  <2>2. /\ back \in Seq(S)
        /\ Len(back) = IF i + 1 <= Len(q) THEN Len(q) - (i + 1) + 1 ELSE 0
        /\ \A j \in 1..(Len(q) - (i + 1) + 1) : back[j] = q[(i + 1) + j - 1]
    BY <2>1, SubSeqProperties
  <2> QED BY <2>2
<1>3. RemoveAt(q, i) = front \o back
  BY DEF RemoveAt
<1> HIDE DEF front, back
<1>4. /\ front \o back \in Seq(S)
      /\ Len(front \o back) = Len(front) + Len(back)
      /\ \A j \in 1..(Len(front) + Len(back)) : (front \o back)[j] =
           IF j <= Len(front) THEN front[j] ELSE back[j - Len(front)]
  BY <1>1, <1>2, ConcatProperties
<1> QED BY <1>1, <1>2, <1>3, <1>4

\* From a sequence without duplicates exactly that element goes.
LEMMA RemoveAtDropsOne ==
  ASSUME NEW S, NEW q \in Seq(S), IsInjective(q), NEW i \in 1..Len(q)
  PROVE  /\ IsInjective(RemoveAt(q, i))
         /\ ToSet(RemoveAt(q, i)) = ToSet(q) \ {q[i]}
<1> DEFINE rest == RemoveAt(q, i)
<1>1. /\ rest \in Seq(S) /\ Len(rest) = Len(q) - 1
      /\ \A j \in 1..(Len(q) - 1) : rest[j] = IF j < i THEN q[j] ELSE q[j + 1]
  BY RemoveAtKeepsRest
<1> HIDE DEF rest
<1>2. DOMAIN rest = 1..(Len(q) - 1) /\ DOMAIN q = 1..Len(q)
  BY <1>1
<1>3. IsInjective(rest)
  <2> SUFFICES ASSUME NEW j \in 1..(Len(q) - 1), NEW k \in 1..(Len(q) - 1), rest[j] = rest[k]
               PROVE  j = k
    BY <1>2 DEF IsInjective
  <2> DEFINE old(n) == IF n < i THEN n ELSE n + 1
  <2>1. /\ old(j) \in 1..Len(q) /\ old(k) \in 1..Len(q)
        /\ rest[j] = q[old(j)] /\ rest[k] = q[old(k)]
        /\ old(j) = old(k) => j = k
    BY <1>1
  <2>2. \A m, n \in 1..Len(q) : q[m] = q[n] => m = n
    BY <1>2 DEF IsInjective
  <2> HIDE DEF old
  <2> QED BY <2>1, <2>2
<1>4. ASSUME NEW x \in ToSet(rest) PROVE x \in ToSet(q) \ {q[i]}
  <2>1. PICK j \in 1..(Len(q) - 1) : x = rest[j]
    BY <1>2 DEF ToSet
  <2>2. \E k \in 1..Len(q) : k # i /\ x = q[k]
    BY <1>1, <2>1
  <2> QED BY <1>2, <2>2 DEF ToSet, IsInjective
<1>5. ASSUME NEW x \in ToSet(q) \ {q[i]} PROVE x \in ToSet(rest)
  <2>1. PICK k \in 1..Len(q) : x = q[k] /\ k # i
    BY <1>2 DEF ToSet
  <2>2. CASE k < i
    <3>1. k \in 1..(Len(q) - 1) /\ rest[k] = q[k]
      BY <1>1, <2>1, <2>2
    <3> QED BY <1>2, <2>1, <3>1 DEF ToSet
  <2>3. CASE k > i
    <3>1. k - 1 \in 1..(Len(q) - 1) /\ rest[k - 1] = q[k]
      BY <1>1, <2>1, <2>3
    <3> QED BY <1>2, <2>1, <3>1 DEF ToSet
  <2> QED BY <2>1, <2>2, <2>3
<1> QED BY <1>3, <1>4, <1>5 DEF rest

-----------------------------------------------------------------------------
(* Type correctness. *)

\* A handler past the choice of its session id has one.
SidChosen ==
  \A r \in Requests :
    pc[r] \in Holding \cup {"trying", "asking", "queued", "woken"} => sid[r] \in Sids

\* A handler that holds a slot knows whose.
HolderHasProvider ==
  \A r \in Requests : pc[r] \in Holding => at[r] \in Providers

TypeInv == TypeOK /\ SidChosen /\ HolderHasProvider /\ QueueMatchesWaiters

\* What the release of a slot may do to the control points and the queue.
LEMMA ReleaseSlotType ==
  ASSUME TypeInv, NEW r \in Requests, at[r] \in Providers, pc[r] \in Holding,
         NEW next \in {"trying", "routing", "ended"}, ReleaseSlot(r, next)
  PROVE  /\ active' \in [Providers -> Nat]
         /\ slot' \in [Sids -> Providers \cup {None}]
         /\ aged' \subseteq aged
         /\ queue' \in Seq(Requests)
         /\ pc' \in [Requests -> {"new", "queued"} \cup Runnable \cup Holding \cup Answered]
         /\ pc'[r] = next
         /\ \A q \in Requests \ {r} : pc'[q] = pc[q] \/ (pc'[q] = "woken" /\ pc[q] = "queued")
         /\ QueueMatchesWaiters'
<1> DEFINE act == Released(sid[r], at[r])
<1>1. act \in [Providers -> Nat]
  BY DEF Released, TypeInv, TypeOK
<1>2. pc[r] # "queued" /\ next # "queued"
  BY DEF Holding
<1>3. CASE /\ pc' = [pc EXCEPT ![r] = next]
           /\ UNCHANGED <<slotVars, queue>>
  BY <1>2, <1>3 DEF TypeInv, TypeOK, slotVars, Runnable, Answered, QueueMatchesWaiters
<1>4. CASE /\ slot' = [slot EXCEPT ![sid[r]] = None]
           /\ active' = act
           /\ aged' = aged \ {sid[r]}
           /\ pc' = [pc EXCEPT ![r] = next]
           /\ UNCHANGED queue
  BY <1>1, <1>2, <1>4 DEF TypeInv, TypeOK, Runnable, Answered, QueueMatchesWaiters
<1>5. ASSUME NEW i \in Wakeable(act),
             slot' = [slot EXCEPT ![sid[r]] = None],
             active' = act,
             aged' = aged \ {sid[r]},
             pc' = [pc EXCEPT ![r] = next, ![queue[i]] = "woken"],
             queue' = RemoveAt(queue, i)
      PROVE  /\ queue' \in Seq(Requests)
             /\ pc' \in [Requests -> {"new", "queued"} \cup Runnable \cup Holding \cup Answered]
             /\ pc'[r] = next
             /\ \A q \in Requests \ {r} :
                  pc'[q] = pc[q] \/ (pc'[q] = "woken" /\ pc[q] = "queued")
             /\ QueueMatchesWaiters'
  <2>1. i \in 1..Len(queue) /\ queue \in Seq(Requests)
    BY <1>5 DEF Wakeable, TypeInv, TypeOK
  <2>2. /\ IsInjective(queue)
        /\ ToSet(queue) = {q \in Requests : pc[q] = "queued"}
    BY DEF TypeInv, QueueMatchesWaiters
  <2>3. /\ queue' \in Seq(Requests)
        /\ IsInjective(queue')
        /\ ToSet(queue') = ToSet(queue) \ {queue[i]}
    BY <1>5, <2>1, <2>2, RemoveAtKeepsRest, RemoveAtDropsOne
  <2>4. queue[i] \in ToSet(queue)
    BY <2>1 DEF ToSet
  <2>5. queue[i] \in Requests /\ pc[queue[i]] = "queued" /\ queue[i] # r
    BY <1>2, <2>2, <2>4
  <2>6. /\ pc \in [Requests -> {"new", "queued"} \cup Runnable \cup Holding \cup Answered]
        /\ \A q \in Requests : pc'[q] = IF q = r THEN next
                                       ELSE IF q = queue[i] THEN "woken" ELSE pc[q]
    BY <1>5, <2>5 DEF TypeInv, TypeOK
  <2>7. pc' \in [Requests -> {"new", "queued"} \cup Runnable \cup Holding \cup Answered]
    BY <1>5, <2>5, <2>6 DEF Runnable, Answered
  <2>8. ToSet(queue') = {q \in Requests : pc'[q] = "queued"}
    BY <1>2, <2>2, <2>3, <2>5, <2>6
  <2> QED BY <2>3, <2>5, <2>6, <2>7, <2>8 DEF QueueMatchesWaiters
<1>6. CASE status[at[r]] = "absent"
  BY <1>3, <1>6 DEF ReleaseSlot
<1>7. CASE /\ status[at[r]] # "absent"
           /\ \E i \in Wakeable(act) :
                /\ pc' = [pc EXCEPT ![r] = next, ![queue[i]] = "woken"]
                /\ queue' = RemoveAt(queue, i)
  <2>1. /\ slot' = [slot EXCEPT ![sid[r]] = None]
        /\ active' = act
        /\ aged' = aged \ {sid[r]}
    BY <1>7 DEF ReleaseSlot
  <2>2. PICK i \in Wakeable(act) :
             /\ pc' = [pc EXCEPT ![r] = next, ![queue[i]] = "woken"]
             /\ queue' = RemoveAt(queue, i)
    BY <1>7
  <2>3. /\ active' \in [Providers -> Nat]
        /\ slot' \in [Sids -> Providers \cup {None}]
        /\ aged' \subseteq aged
    BY <1>1, <2>1 DEF TypeInv, TypeOK
  <2> QED BY <1>5, <2>1, <2>2, <2>3
<1> QED BY <1>4, <1>6, <1>7 DEF ReleaseSlot

\* A failed connection attempt (upgrade.ts, the lines after pipeToProvider) keeps
\* the types, with or without waking a waiter.
LEMMA ConnectFailsKeepsTypes ==
  ASSUME TypeInv, NEW r \in Requests, ConnectFails(r)
  PROVE  TypeInv'
<1> DEFINE next == IF pc[r] = "connecting" THEN "trying" ELSE "routing"
<1>1. /\ at[r] \in Providers /\ next \in {"trying", "routing", "ended"}
      /\ ReleaseSlot(r, next) /\ RecordFailure(at[r])
      /\ UNCHANGED <<status, tracked, parked, sid, at, cands, tries, shutdown>>
      /\ pc[r] \in Holding
  BY DEF ConnectFails, TypeInv, HolderHasProvider, SidChosen, Holding, handlerVars
<1>2. cooling' \subseteq Providers
  BY <1>1 DEF RecordFailure, TypeInv, TypeOK
<1> HIDE DEF next
<1>3. /\ active' \in [Providers -> Nat]
      /\ slot' \in [Sids -> Providers \cup {None}]
      /\ aged' \subseteq aged
      /\ queue' \in Seq(Requests)
      /\ pc' \in [Requests -> {"new", "queued"} \cup Runnable \cup Holding \cup Answered]
      /\ pc'[r] = next
      /\ \A q \in Requests \ {r} : pc'[q] = pc[q] \/ (pc'[q] = "woken" /\ pc[q] = "queued")
      /\ QueueMatchesWaiters'
  BY <1>1, ReleaseSlotType
<1>4. TypeOK'
  BY <1>1, <1>2, <1>3 DEF TypeInv, TypeOK
<1>5. SidChosen' /\ HolderHasProvider'
  BY <1>1, <1>3 DEF TypeInv, SidChosen, HolderHasProvider, Holding, next
<1> QED BY <1>3, <1>4, <1>5 DEF TypeInv

\* So does the end of a session, which releases in the close callback.
LEMMA SessionEndsKeepsTypes ==
  ASSUME TypeInv, NEW r \in Requests, SessionEnds(r)
  PROVE  TypeInv'
<1>1. /\ at[r] \in Providers /\ ReleaseSlot(r, "ended") /\ pc[r] \in Holding
      /\ UNCHANGED <<status, cooling, sid, at, cands, tries, shutdown>>
      /\ tracked' \subseteq tracked
      /\ parked' \in [Sids -> Providers \cup {None}]
  BY DEF SessionEnds, TypeInv, TypeOK, HolderHasProvider, Holding, registryVars, handlerVars
<1>2. /\ active' \in [Providers -> Nat]
      /\ slot' \in [Sids -> Providers \cup {None}]
      /\ aged' \subseteq aged
      /\ queue' \in Seq(Requests)
      /\ pc' \in [Requests -> {"new", "queued"} \cup Runnable \cup Holding \cup Answered]
      /\ pc'[r] = "ended"
      /\ \A q \in Requests \ {r} : pc'[q] = pc[q] \/ (pc'[q] = "woken" /\ pc[q] = "queued")
      /\ QueueMatchesWaiters'
  BY <1>1, ReleaseSlotType
<1>3. TypeOK'
  BY <1>1, <1>2 DEF TypeInv, TypeOK
<1>4. SidChosen' /\ HolderHasProvider'
  BY <1>1, <1>2 DEF SessionEnds, TypeInv, SidChosen, HolderHasProvider, Holding
<1> QED BY <1>2, <1>3, <1>4 DEF TypeInv

\* A step that leaves the queue alone and moves a handler that does not wait
\* in it, to a point where it does not wait either.
LEMMA QueueUntouched ==
  ASSUME TypeInv, NEW r \in Requests, NEW next, pc[r] # "queued", next # "queued",
         pc' = [pc EXCEPT ![r] = next], queue' = queue
  PROVE  QueueMatchesWaiters'
BY DEF TypeInv, TypeOK, QueueMatchesWaiters

\* waitForSlot appends a handler that is not in the queue yet.
LEMMA WaitForSlotKeepsTypes ==
  ASSUME TypeInv, NEW r \in Requests, WaitForSlot(r)
  PROVE  TypeInv'
<1>1. /\ pc[r] = "asking" /\ queue \in Seq(Requests)
      /\ UNCHANGED <<status, cooling, active, slot, aged, tracked, parked, sid, at,
                     cands, tries, shutdown>>
  BY DEF WaitForSlot, TypeInv, TypeOK, registryVars, slotVars, handlerVars
<1>2. \E next \in {"woken", "refused", "queued"} : pc' = [pc EXCEPT ![r] = next]
  BY DEF WaitForSlot
<1>3. queue' \in Seq(Requests)
  BY <1>1, AppendProperties DEF WaitForSlot
<1>4. TypeOK'
  BY <1>1, <1>2, <1>3 DEF TypeInv, TypeOK, Runnable, Answered
<1>5. SidChosen' /\ HolderHasProvider'
  BY <1>1, <1>2 DEF TypeInv, TypeOK, SidChosen, HolderHasProvider, Holding
<1>6. QueueMatchesWaiters'
  <2>1. CASE queue' = queue /\ \E next \in {"woken", "refused"} : pc' = [pc EXCEPT ![r] = next]
    BY <1>1, <2>1, QueueUntouched
  <2>2. CASE queue' = Append(queue, r) /\ pc' = [pc EXCEPT ![r] = "queued"]
    <3>1. /\ Len(queue') = Len(queue) + 1
          /\ \A i \in 1..Len(queue) : queue'[i] = queue[i]
          /\ queue'[Len(queue) + 1] = r
          /\ DOMAIN queue = 1..Len(queue) /\ DOMAIN queue' = 1..(Len(queue) + 1)
      BY <1>1, <1>3, <2>2, AppendProperties
    <3>2. /\ IsInjective(queue)
          /\ ToSet(queue) = {q \in Requests : pc[q] = "queued"}
      BY DEF TypeInv, QueueMatchesWaiters
    <3>3. ToSet(queue') = ToSet(queue) \cup {r}
      BY <3>1 DEF ToSet
    <3>4. IsInjective(queue')
      BY <1>1, <3>1, <3>2 DEF ToSet, IsInjective
    <3>5. {q \in Requests : pc'[q] = "queued"} = {q \in Requests : pc[q] = "queued"} \cup {r}
      BY <2>2 DEF TypeInv, TypeOK
    <3> QED BY <3>2, <3>3, <3>4, <3>5 DEF QueueMatchesWaiters
  <2> QED BY <2>1, <2>2 DEF WaitForSlot
<1> QED BY <1>4, <1>5, <1>6 DEF TypeInv

\* The queue timer removes its own entry and no other.
LEMMA QueueTimeoutKeepsTypes ==
  ASSUME TypeInv, NEW r \in Requests, QueueTimeout(r)
  PROVE  TypeInv'
<1>1. /\ pc[r] = "queued" /\ queue \in Seq(Requests)
      /\ pc' = [pc EXCEPT ![r] = "refused"]
      /\ UNCHANGED <<status, cooling, active, slot, aged, tracked, parked, sid, at,
                     cands, tries, shutdown>>
  BY DEF QueueTimeout, TypeInv, TypeOK, registryVars, slotVars, handlerVars
<1>2. PICK i \in 1..Len(queue) : queue[i] = r /\ queue' = RemoveAt(queue, i)
  BY <1>1 DEF QueueTimeout
<1>3. /\ IsInjective(queue)
      /\ ToSet(queue) = {q \in Requests : pc[q] = "queued"}
  BY DEF TypeInv, QueueMatchesWaiters
<1>4. /\ queue' \in Seq(Requests)
      /\ IsInjective(queue')
      /\ ToSet(queue') = ToSet(queue) \ {r}
  BY <1>1, <1>2, <1>3, RemoveAtKeepsRest, RemoveAtDropsOne
<1>5. TypeOK' /\ SidChosen' /\ HolderHasProvider'
  BY <1>1, <1>4 DEF TypeInv, TypeOK, SidChosen, HolderHasProvider, Holding, Answered
<1>6. {q \in Requests : pc'[q] = "queued"} = {q \in Requests : pc[q] = "queued"} \ {r}
  BY <1>1 DEF TypeInv, TypeOK
<1> QED BY <1>3, <1>4, <1>5, <1>6 DEF TypeInv, QueueMatchesWaiters

\* The steps of a handler that do not involve the queue.
LEMMA RoutingKeepsTypes ==
  ASSUME TypeInv, NEW r \in Requests,
         \/ ArriveAtShutdown(r) \/ Arrive(r) \/ ArriveToReconnect(r) \/ RefusePin(r) \/ Route(r)
         \/ TryCandidate(r) \/ ExhaustCandidates(r) \/ Retry(r) \/ ConnectUp(r) \/ Age(r)
  PROVE  TypeInv'
<1> DEFINE Types == TypeOK /\ SidChosen /\ HolderHasProvider
<1>1. Types
  BY DEF TypeInv
<1>2. ConnectCandidates(r) \subseteq Providers
  BY <1>1, GatewayAssumption DEF ConnectCandidates, Candidates
<1> USE DEF TypeOK, SidChosen, HolderHasProvider, registryVars, slotVars, handlerVars
<1>3. CASE ArriveAtShutdown(r)
  <2>1. Types'
    BY <1>1, <1>3 DEF ArriveAtShutdown, Runnable, Holding, Answered
  <2> QED BY <1>3, <2>1, QueueUntouched DEF ArriveAtShutdown, TypeInv
<1>4. CASE Arrive(r)
  <2>1. parked' \in [Sids -> Providers \cup {None}]
    BY <1>1, <1>4 DEF Arrive, ClaimParked
  <2>2. Types'
    BY <1>1, <1>4, <2>1 DEF Arrive, Runnable, Holding, Answered
  <2> QED BY <1>4, <2>2, QueueUntouched DEF Arrive, TypeInv
<1>5. CASE ArriveToReconnect(r)
  <2>1. /\ ReconnectId(r) \in Sids /\ parked[ReconnectId(r)] \in Providers
    BY <1>1, <1>5, GatewayAssumption DEF ArriveToReconnect, Parked, ReconnectId, Sids
  <2>2. /\ active' \in [Providers -> Nat]
        /\ slot' \in [Sids -> Providers \cup {None}]
        /\ aged' \subseteq Sids
    BY <1>1, <1>5, <2>1 DEF ArriveToReconnect, AcquireSlot
  <2>4. parked' \in [Sids -> Providers \cup {None}]
    BY <1>1, <1>5 DEF ArriveToReconnect, ClaimParked
  <2>3. Types'
    BY <1>1, <1>5, <2>1, <2>2, <2>4 DEF ArriveToReconnect, Runnable, Holding, Answered
  <2> QED BY <1>5, <2>3, QueueUntouched DEF ArriveToReconnect, TypeInv
<1>12. CASE RefusePin(r)
  <2>1. Types'
    BY <1>1, <1>12 DEF RefusePin, Runnable, Holding, Answered
  <2> QED BY <1>12, <2>1, QueueUntouched DEF RefusePin, TypeInv
<1>6. CASE Route(r)
  <2>1. sid' \in [Requests -> Sids \cup {None}] /\ sid'[r] \in Sids
        /\ \A q \in Requests \ {r} : sid'[q] = sid[q]
    BY <1>1, <1>6, GatewayAssumption DEF Route, Sids
  <2>2. Types'
    BY <1>1, <1>2, <1>6, <2>1 DEF Route, Runnable, Holding, Answered
  <2> QED BY <1>6, <2>2, QueueUntouched DEF Route, TypeInv
<1>7. CASE TryCandidate(r)
  <2>1. PICK p \in cands[r] :
          /\ cands' = [cands EXCEPT ![r] = @ \ {p}]
          /\ IF p \in ProxyOk[r] /\ CanAcquire(p)
             THEN /\ AcquireSlot(sid[r], p)
                  /\ at' = [at EXCEPT ![r] = p]
                  /\ pc' = [pc EXCEPT ![r] = "connecting"]
             ELSE UNCHANGED <<slotVars, at, pc>>
    BY <1>7 DEF TryCandidate
  <2>2. p \in Providers /\ sid[r] \in Sids /\ cands' \in [Requests -> SUBSET Providers]
    BY <1>1, <1>7, <2>1 DEF TryCandidate
  <2>3. CASE UNCHANGED <<active, slot, aged, at, pc>>
    BY <1>1, <1>7, <2>1, <2>2, <2>3 DEF TryCandidate, TypeInv, QueueMatchesWaiters
  <2>4. CASE /\ AcquireSlot(sid[r], p)
             /\ at' = [at EXCEPT ![r] = p]
             /\ pc' = [pc EXCEPT ![r] = "connecting"]
    <3>1. Types'
      BY <1>1, <1>7, <2>2, <2>4 DEF TryCandidate, AcquireSlot, Runnable, Holding, Answered
    <3> QED BY <1>7, <2>4, <3>1, QueueUntouched DEF TryCandidate, TypeInv
  <2> QED BY <2>1, <2>3, <2>4
<1>8. CASE ExhaustCandidates(r)
  <2>1. \E next \in {"asking", "refused"} : pc' = [pc EXCEPT ![r] = next]
    BY <1>8 DEF ExhaustCandidates
  <2>2. Types'
    BY <1>1, <1>8, <2>1 DEF ExhaustCandidates, Runnable, Holding, Answered
  <2> QED BY <1>8, <2>1, <2>2, QueueUntouched DEF ExhaustCandidates, TypeInv
<1>9. CASE Retry(r)
  <2>1. Types'
    BY <1>1, <1>2, <1>9 DEF Retry, Runnable, Holding, Answered
  <2> QED BY <1>9, <2>1, QueueUntouched DEF Retry, TypeInv
<1>10. CASE ConnectUp(r)
  <2>1. Types'
    BY <1>1, <1>10 DEF ConnectUp, Runnable, Holding, Answered
  <2> QED BY <1>10, <2>1, QueueUntouched DEF ConnectUp, TypeInv
<1>11. CASE Age(r)
  <2>1. Types'
    BY <1>1, <1>11 DEF Age, Holding
  <2> QED BY <1>11, <2>1 DEF Age, TypeInv, QueueMatchesWaiters
<1> QED BY <1>3, <1>4, <1>5, <1>6, <1>7, <1>8, <1>9, <1>10, <1>11, <1>12

\* Every step of a handler keeps the types.
LEMMA HandleKeepsTypes ==
  ASSUME TypeInv, NEW r \in Requests, Handle(r)
  PROVE  TypeInv'
BY RoutingKeepsTypes, WaitForSlotKeepsTypes, QueueTimeoutKeepsTypes,
   ConnectFailsKeepsTypes, SessionEndsKeepsTypes DEF Handle, Continue, Answer

\* The steps of time, of the operator and of the shutdown.
Environment ==
  \/ \E p \in Providers : Administer(p) \/ CooldownExpires(p)
  \/ \E s \in Sids : ParkedExpires(s)
  \/ Reconcile \/ BeginShutdown \/ EndDrain

\* The environment keeps the types: of its actions only the shutdown moves
\* handlers, from the queue to a refusal.
LEMMA EnvironmentKeepsTypes ==
  ASSUME TypeInv, Environment
  PROVE  TypeInv'
<1> USE DEF TypeInv, TypeOK, SidChosen, HolderHasProvider, QueueMatchesWaiters,
            registryVars, slotVars, handlerVars
<1>1. ASSUME NEW p \in Providers, Administer(p) PROVE TypeInv'
  <2>1. CASE SetEnabled(p)
    BY <2>1 DEF SetEnabled
  <2>2. CASE DeleteProvider(p)
    BY <2>2 DEF DeleteProvider
  <2>3. CASE AddProvider(p)
    BY <2>3 DEF AddProvider
  <2> QED BY <1>1, <2>1, <2>2, <2>3 DEF Administer
<1>2. ASSUME NEW p \in Providers, CooldownExpires(p) PROVE TypeInv'
  BY <1>2 DEF CooldownExpires
<1>3. ASSUME NEW s \in Sids, ParkedExpires(s) PROVE TypeInv'
  BY <1>3 DEF ParkedExpires
<1>4. CASE Reconcile
  <2>1. \A p \in Providers : {s \in aged : slot[s] = p} \in SUBSET Sids
    OBVIOUS
  <2>2. IsFiniteSet(Sids)
    BY GatewayAssumption, FS_Union DEF Sids
  <2>3. \A p \in Providers : Cardinality({s \in aged : slot[s] = p}) \in Nat
    BY <2>1, <2>2, FS_Subset, FS_CardinalityType
  <2>4. active' \in [Providers -> Nat]
    BY <1>4, <2>3 DEF Reconcile
  <2>5. slot' \in [Sids -> Providers \cup {None}]
    BY <1>4 DEF Reconcile
  <2> QED BY <1>4, <2>4, <2>5 DEF Reconcile
<1>5. CASE BeginShutdown
  <2>1. /\ pc' = [r \in Requests |-> IF r \in ToSet(queue) THEN "refused" ELSE pc[r]]
        /\ queue' = <<>>
    BY <1>5 DEF BeginShutdown
  <2>2. QueueMatchesWaiters'
    <3>1. ToSet(<<>>) = {} /\ IsInjective(<<>>)
      BY DEF ToSet, IsInjective
    <3> QED BY <2>1, <3>1
  <2>3. (TypeOK /\ SidChosen /\ HolderHasProvider)'
    BY <1>5, <2>1 DEF BeginShutdown, Runnable, Holding, Answered
  <2> QED BY <2>2, <2>3
<1>6. CASE EndDrain
  BY <1>6 DEF EndDrain
<1> QED BY <1>1, <1>2, <1>3, <1>4, <1>5, <1>6 DEF Environment

\* The constructor establishes the invariant.
LEMMA InitTypes == Init => TypeInv
<1> SUFFICES ASSUME Init PROVE TypeInv
  OBVIOUS
<1>1. TypeOK
  BY DEF Init, TypeOK
<1>2. SidChosen /\ HolderHasProvider
  BY DEF Init, SidChosen, HolderHasProvider, Holding
<1>3. QueueMatchesWaiters
  BY DEF Init, QueueMatchesWaiters, ToSet, IsInjective
<1> QED BY <1>1, <1>2, <1>3 DEF TypeInv

\* Every step preserves it: one case for the handlers, one for the environment.
LEMMA StepKeepsTypes == TypeInv /\ [Next]_vars => TypeInv'
<1> SUFFICES ASSUME TypeInv, [Next]_vars PROVE TypeInv'
  OBVIOUS
<1>1. ASSUME NEW r \in Requests, Handle(r) PROVE TypeInv'
  BY <1>1, HandleKeepsTypes
<1>2. CASE Environment
  BY <1>2, EnvironmentKeepsTypes
<1>3. CASE UNCHANGED vars
  BY <1>3 DEF vars, TypeInv, TypeOK, SidChosen, HolderHasProvider, QueueMatchesWaiters,
              Holding, Runnable
<1> QED BY <1>1, <1>2, <1>3 DEF Next, Environment

\* Every variable keeps its type, whatever the providers, limits and pins.
THEOREM TypeCorrect == Spec => []TypeOK
<1>1. Spec => []TypeInv
  BY InitTypes, StepKeepsTypes, PTL DEF Spec
<1> QED BY <1>1, PTL DEF TypeInv

\* The wait queue and the suspended handlers always agree: waitForSlot, its
\* timer, dequeueNext and drainQueue never lose or duplicate a waiter.
THEOREM QueueIsExact == Spec => []QueueMatchesWaiters
<1>1. Spec => []TypeInv
  BY InitTypes, StepKeepsTypes, PTL DEF Spec
<1> QED BY <1>1, PTL DEF TypeInv

\* The queue is empty from the start of the shutdown on.
LEMMA StepKeepsNoWaiter ==
  ASSUME TypeInv, NoWaiterAtShutdown, [Next]_vars
  PROVE  NoWaiterAtShutdown'
<1> USE DEF NoWaiterAtShutdown
<1>1. ASSUME NEW r \in Requests, Handle(r) PROVE NoWaiterAtShutdown'
  <2>1. shutdown' = shutdown
    BY <1>1
    DEF Handle, Continue, Answer, ArriveAtShutdown, Arrive, ArriveToReconnect, RefusePin,
        Route, TryCandidate, ExhaustCandidates, WaitForSlot, Retry, QueueTimeout, ConnectUp,
        ConnectFails, SessionEnds, Age
  <2>2. CASE shutdown = "no"
    BY <2>1, <2>2
  <2>3. CASE shutdown # "no"
    <3>1. queue = <<>>
      BY <2>3
    <3>2. Wakeable(Released(sid[r], at[r])) = {} /\ DOMAIN queue = {}
      BY <3>1 DEF Wakeable
    <3>3. queue' = queue
      BY <1>1, <2>3, <3>2
      DEF Handle, Continue, Answer, ArriveAtShutdown, Arrive, ArriveToReconnect, RefusePin,
          Route, TryCandidate, ExhaustCandidates, WaitForSlot, Retry, QueueTimeout, ConnectUp,
          ConnectFails, SessionEnds, Age, ReleaseSlot
    <3> QED BY <3>1, <3>3
  <2> QED BY <2>2, <2>3
<1>2. CASE BeginShutdown
  BY <1>2 DEF BeginShutdown
<1>3. CASE EndDrain
  BY <1>3 DEF EndDrain
<1>4. CASE UNCHANGED <<queue, shutdown>>
  BY <1>4
<1> QED
  BY <1>1, <1>2, <1>3, <1>4
  DEF Next, Administer, SetEnabled, DeleteProvider, AddProvider, CooldownExpires,
      ParkedExpires, Reconcile, vars

\* Nobody waits in the queue once the shutdown has begun: drainQueue empties it
\* and waitForSlot, reached later by a handler that was connecting, refuses.
THEOREM NobodyWaitsAtShutdown == Spec => []NoWaiterAtShutdown
<1>1. Init => NoWaiterAtShutdown
  BY DEF Init, NoWaiterAtShutdown
<1>2. TypeInv /\ NoWaiterAtShutdown /\ [Next]_vars => TypeInv' /\ NoWaiterAtShutdown'
  BY StepKeepsTypes, StepKeepsNoWaiter
<1> QED BY <1>1, <1>2, InitTypes, PTL DEF Spec

-----------------------------------------------------------------------------
(* The bound on the connections of a provider, when no session outlives the *)
(* reconciler.  The counter `active` may exceed the connections (two of them *)
(* may share a session key), but never falls below them: that is what makes  *)
(* the guard of acquire sufficient.                                          *)

CountInv ==
  /\ aged = {}
  /\ \A p \in Providers : Cardinality(Holders(p)) <= active[p]
  /\ \A p \in Providers : Limit[p] # 0 => active[p] <= Limit[p]
  /\ \A p \in Providers : status[p] = "absent" => active[p] = 0

\* What a step does to the connections that hold a slot.
HoldersKept == \A p \in Providers : Holders(p)' = Holders(p)

HolderAdded(r, p) ==
  /\ \A q \in Providers : r \notin Holders(q)
  /\ HasFreeSlot(p, active)
  /\ \A q \in Providers : Holders(q)' = IF q = p THEN Holders(p) \cup {r} ELSE Holders(q)

HolderRemoved(r, p) ==
  /\ r \in Holders(p)
  /\ \A q \in Providers : Holders(q)' = IF q = p THEN Holders(p) \ {r} ELSE Holders(q)

\* The holders of a provider are finitely many.
LEMMA HoldersFinite ==
  \A p : IsFiniteSet(Holders(p)) /\ Cardinality(Holders(p)) \in Nat
<1> TAKE p
<1>1. Holders(p) \in SUBSET Requests
  BY DEF Holders
<1> QED BY <1>1, GatewayAssumption, FS_Subset, FS_CardinalityType

\* A step that moves no connection and no counter keeps the count.
LEMMA KeptHoldersKeepCount ==
  ASSUME TypeInv, CountInv, HoldersKept, active' = active, aged' = {},
         \A p \in Providers : status'[p] = "absent" => active[p] = 0
  PROVE  CountInv'
BY DEF CountInv, HoldersKept

\* acquire adds one connection and one to the counter, below the limit.
LEMMA AcquireKeepsCount ==
  ASSUME TypeInv, CountInv, NEW r \in Requests, NEW s \in Sids, NEW p \in Providers,
         NEW next \in Holding,
         CanAcquire(p), AcquireSlot(s, p), pc[r] \notin Holding,
         pc' = [pc EXCEPT ![r] = next], at' = [at EXCEPT ![r] = p], status' = status
  PROVE  CountInv' /\ HolderAdded(r, p)
<1>1. /\ \A q \in Providers : r \notin Holders(q)
      /\ HasFreeSlot(p, active)
  BY DEF Holders, CanAcquire
<1>2. \A q \in Providers : Holders(q)' = IF q = p THEN Holders(p) \cup {r} ELSE Holders(q)
  BY DEF Holders, TypeInv, TypeOK
<1>3. \A q \in Providers : active'[q] = IF q = p THEN active[p] + 1 ELSE active[q]
  BY DEF AcquireSlot, TypeInv, TypeOK
<1>0. \A q \in Providers : active[q] \in Nat /\ Limit[q] \in Nat
  BY GatewayAssumption DEF TypeInv, TypeOK
<1>4. ASSUME NEW q \in Providers PROVE Cardinality(Holders(q)') <= active'[q]
  <2>1. CASE q = p
    <3>1. Cardinality(Holders(p) \cup {r}) = Cardinality(Holders(p)) + 1
      BY <1>1, HoldersFinite, FS_AddElement
    <3>2. Holders(q)' = Holders(p) \cup {r} /\ active'[q] = active[p] + 1
      BY <1>2, <1>3, <2>1
    <3>3. Cardinality(Holders(p)) <= active[p] /\ Cardinality(Holders(p)) \in Nat
      BY HoldersFinite DEF CountInv
    <3> QED BY <1>0, <3>1, <3>2, <3>3
  <2>2. CASE q # p
    BY <1>2, <1>3, <2>2 DEF CountInv
  <2> QED BY <2>1, <2>2
<1>5. ASSUME NEW q \in Providers, Limit[q] # 0 PROVE active'[q] <= Limit[q]
  <2>1. CASE q = p
    BY <1>1, <1>3, <1>5, <1>0, <2>1 DEF HasFreeSlot
  <2>2. CASE q # p
    BY <1>3, <1>5, <2>2 DEF CountInv
  <2> QED BY <2>1, <2>2
<1>6. ASSUME NEW q \in Providers, status'[q] = "absent" PROVE active'[q] = 0
  BY <1>3, <1>6 DEF CountInv, CanAcquire
<1>7. aged' = {}
  BY DEF AcquireSlot, CountInv
<1> QED BY <1>1, <1>2, <1>4, <1>5, <1>6, <1>7 DEF CountInv, HolderAdded

\* release takes one connection away and at most one from the counter.
LEMMA ReleaseKeepsCount ==
  ASSUME TypeInv, CountInv, NEW r \in Requests, at[r] \in Providers, pc[r] \in Holding,
         NEW next \in {"trying", "routing", "ended"}, ReleaseSlot(r, next),
         at' = at, status' = status
  PROVE  CountInv' /\ HolderRemoved(r, at[r])
<1> DEFINE p == at[r]
<1>1. /\ pc'[r] = next /\ aged' \subseteq aged
      /\ \A q \in Requests \ {r} : pc'[q] = pc[q] \/ (pc'[q] = "woken" /\ pc[q] = "queued")
  BY ReleaseSlotType
<1>2. r \in Holders(p)
  BY DEF Holders
<1>3. \A q \in Providers : Holders(q)' = IF q = p THEN Holders(p) \ {r} ELSE Holders(q)
  BY <1>1 DEF Holders, Holding
<1>4. Cardinality(Holders(p) \ {r}) = Cardinality(Holders(p)) - 1
      /\ Cardinality(Holders(p)) \in Nat
  BY <1>2, HoldersFinite, FS_RemoveElement
<1>5. active' = active \/ active' = [active EXCEPT ![p] = IF @ = 0 THEN 0 ELSE @ - 1]
  BY DEF ReleaseSlot, Released, slotVars
<1>6. \A q \in Providers : /\ active'[q] \in Nat /\ active[q] \in Nat
                           /\ active'[q] <= active[q]
                           /\ q # p => active'[q] = active[q]
                           /\ active[p] - 1 <= active'[p]
  BY <1>5 DEF TypeInv, TypeOK
<1>7. \A q \in Providers : Cardinality(Holders(q)') <= active'[q]
  <2> TAKE q \in Providers
  <2>1. CASE q = p
    <3>1. Cardinality(Holders(q)') = Cardinality(Holders(p)) - 1
      BY <1>3, <1>4, <2>1
    <3>2. Cardinality(Holders(p)) <= active[p]
      BY DEF CountInv
    <3> HIDE DEF p
    <3> QED BY <1>4, <1>6, <2>1, <3>1, <3>2
  <2>2. CASE q # p
    BY <1>3, <1>6, <2>2 DEF CountInv
  <2> QED BY <2>1, <2>2
<1>8. \A q \in Providers : Limit[q] # 0 => active'[q] <= Limit[q]
  BY <1>6, GatewayAssumption DEF CountInv
<1>9. \A q \in Providers : status'[q] = "absent" => active'[q] = 0
  BY <1>6 DEF CountInv
<1> QED BY <1>1, <1>2, <1>3, <1>7, <1>8, <1>9 DEF CountInv, HolderRemoved

\* A step of a handler acquires one slot, releases one, or neither.
LEMMA HandleKeepsCount ==
  ASSUME TypeInv, CountInv, Outliving = {}, NEW r \in Requests, Handle(r)
  PROVE  /\ CountInv'
         /\ \/ HoldersKept
            \/ \E p \in Providers : HolderAdded(r, p) \/ HolderRemoved(r, p)
<1> USE DEF registryVars, slotVars, handlerVars
<1>1. CASE /\ \E b \in {"refused", "routing", "trying", "asking", "woken", "queued"} :
                  pc' = [pc EXCEPT ![r] = b]
           /\ pc[r] \notin Holding
           /\ UNCHANGED <<active, aged, status, at>>
  <2>1. HoldersKept
    BY <1>1 DEF HoldersKept, Holders, Holding, TypeInv, TypeOK
  <2> QED BY <1>1, <2>1, KeptHoldersKeepCount DEF CountInv
<1>2. CASE ArriveToReconnect(r)
  <2>1. /\ ReconnectId(r) \in Sids /\ parked[ReconnectId(r)] \in Providers
    BY <1>2, GatewayAssumption DEF ArriveToReconnect, Parked, ReconnectId, Sids, TypeInv, TypeOK
  <2>2. /\ pc[r] \notin Holding /\ "reconnecting" \in Holding
        /\ CanAcquire(parked[ReconnectId(r)])
        /\ AcquireSlot(ReconnectId(r), parked[ReconnectId(r)])
        /\ pc' = [pc EXCEPT ![r] = "reconnecting"]
        /\ at' = [at EXCEPT ![r] = parked[ReconnectId(r)]]
        /\ status' = status
    BY <1>2 DEF ArriveToReconnect, Holding
  <2> QED BY <2>1, <2>2, AcquireKeepsCount
<1>3. CASE TryCandidate(r)
  <2>1. PICK p \in cands[r] :
          IF p \in ProxyOk[r] /\ CanAcquire(p)
          THEN /\ AcquireSlot(sid[r], p)
               /\ at' = [at EXCEPT ![r] = p]
               /\ pc' = [pc EXCEPT ![r] = "connecting"]
          ELSE UNCHANGED <<slotVars, at, pc>>
    BY <1>3 DEF TryCandidate
  <2>2. /\ pc[r] = "trying" /\ p \in Providers /\ sid[r] \in Sids /\ status' = status
    BY <1>3, <2>1 DEF TryCandidate, TypeInv, TypeOK, SidChosen
  <2>3. CASE p \in ProxyOk[r] /\ CanAcquire(p)
    <3>1. pc[r] \notin Holding /\ "connecting" \in Holding
      BY <2>2 DEF Holding
    <3> QED BY <2>1, <2>2, <2>3, <3>1, AcquireKeepsCount
  <2>4. CASE ~(p \in ProxyOk[r] /\ CanAcquire(p))
    <3>1. HoldersKept
      BY <2>1, <2>4 DEF HoldersKept, Holders
    <3> QED BY <2>1, <2>2, <2>4, <3>1, KeptHoldersKeepCount DEF CountInv
  <2> QED BY <2>3, <2>4
<1>4. CASE ConnectUp(r)
  <2>1. HoldersKept
    BY <1>4 DEF ConnectUp, HoldersKept, Holders, Holding, TypeInv, TypeOK
  <2> QED BY <1>4, <2>1, KeptHoldersKeepCount DEF ConnectUp, CountInv
<1>5. CASE ConnectFails(r)
  <2> DEFINE next == IF pc[r] = "connecting" THEN "trying" ELSE "routing"
  <2>1. /\ at[r] \in Providers /\ next \in {"trying", "routing", "ended"}
        /\ ReleaseSlot(r, next) /\ pc[r] \in Holding /\ at' = at /\ status' = status
    BY <1>5 DEF ConnectFails, TypeInv, HolderHasProvider, Holding
  <2> HIDE DEF next
  <2> QED BY <2>1, ReleaseKeepsCount
<1>6. CASE SessionEnds(r)
  <2>1. /\ at[r] \in Providers /\ ReleaseSlot(r, "ended")
        /\ pc[r] \in Holding /\ at' = at /\ status' = status
    BY <1>6 DEF SessionEnds, TypeInv, HolderHasProvider, Holding
  <2> QED BY <2>1, ReleaseKeepsCount
<1>7. CASE Age(r)
  BY <1>7 DEF Age
<1> QED
  BY <1>1, <1>2, <1>3, <1>4, <1>5, <1>6, <1>7
  DEF Handle, Continue, Answer, ArriveAtShutdown, Arrive, RefusePin, Route,
      ExhaustCandidates, WaitForSlot, Retry, QueueTimeout, Holding

\* Administration, timers and the shutdown move no connection; a deleted provider
\* counted none.
LEMMA EnvironmentKeepsCount ==
  ASSUME TypeInv, CountInv, Environment
  PROVE  CountInv' /\ HoldersKept
<1> USE DEF registryVars, slotVars, handlerVars
<1>1. ASSUME NEW p \in Providers, Administer(p) PROVE CountInv' /\ HoldersKept
  <2>1. HoldersKept
    BY <1>1 DEF Administer, SetEnabled, DeleteProvider, AddProvider, HoldersKept, Holders
  <2>2. active' = active /\ aged' = {}
    BY <1>1 DEF Administer, SetEnabled, DeleteProvider, AddProvider, CountInv, TypeInv, TypeOK
  <2>3. \A q \in Providers : status'[q] = "absent" => active[q] = 0
    BY <1>1 DEF Administer, SetEnabled, DeleteProvider, AddProvider, CountInv, TypeInv, TypeOK
  <2> QED BY <2>1, <2>2, <2>3, KeptHoldersKeepCount
<1>2. CASE BeginShutdown
  <2>1. \A r \in ToSet(queue) : pc[r] = "queued"
    BY DEF TypeInv, QueueMatchesWaiters
  <2>2. HoldersKept
    BY <1>2, <2>1 DEF BeginShutdown, HoldersKept, Holders, Holding
  <2> QED BY <1>2, <2>2, KeptHoldersKeepCount DEF BeginShutdown, CountInv
<1>3. CASE Reconcile
  BY <1>3 DEF Reconcile, CountInv
<1>4. CASE UNCHANGED <<active, aged, status, pc, at>>
  <2>1. HoldersKept
    BY <1>4 DEF HoldersKept, Holders
  <2> QED BY <1>4, <2>1, KeptHoldersKeepCount DEF CountInv
<1> QED BY <1>1, <1>2, <1>3, <1>4 DEF Environment, CooldownExpires, ParkedExpires, EndDrain

\* There is no connection initially.
LEMMA InitCount == Init => CountInv
<1> SUFFICES ASSUME Init PROVE CountInv
  OBVIOUS
<1>1. \A p \in Providers : Holders(p) = {}
  BY DEF Init, Holders, Holding
<1>2. \A p \in Providers : Cardinality(Holders(p)) = 0 /\ active[p] = 0 /\ Limit[p] \in Nat
  BY <1>1, FS_EmptySet, GatewayAssumption DEF Init
<1> QED BY <1>2 DEF Init, CountInv

\* Every step keeps the count and moves at most one connection.
LEMMA StepKeepsCount ==
  ASSUME Outliving = {}, TypeInv, CountInv, [Next]_vars
  PROVE  /\ CountInv'
         /\ \/ HoldersKept
            \/ \E r \in Requests, p \in Providers : HolderAdded(r, p) \/ HolderRemoved(r, p)
<1>1. ASSUME NEW r \in Requests, Handle(r)
      PROVE  /\ CountInv'
             /\ \/ HoldersKept
                \/ \E p \in Providers : HolderAdded(r, p) \/ HolderRemoved(r, p)
  BY <1>1, HandleKeepsCount
<1>2. CASE Environment
  BY <1>2, EnvironmentKeepsCount
<1>3. CASE UNCHANGED vars
  <2>1. HoldersKept
    BY <1>3 DEF vars, HoldersKept, Holders
  <2> QED BY <1>3, <2>1, KeptHoldersKeepCount DEF vars, CountInv
<1> QED BY <1>1, <1>2, <1>3 DEF Next, Environment

\* As long as no session outlives the reconciler, a provider never has more
\* connections, connecting or live, than its effective maxConcurrent: for any
\* session keys, shared ones included, and any administration of the providers.
THEOREM CapacityIsRespected ==
  ASSUME Outliving = {}
  PROVE  Spec => []CapacityRespected
<1>1. TypeInv /\ CountInv => CapacityRespected
  BY HoldersFinite, GatewayAssumption DEF TypeInv, TypeOK, CountInv, CapacityRespected
<1>2. TypeInv /\ CountInv /\ [Next]_vars => TypeInv' /\ CountInv'
  BY StepKeepsTypes, StepKeepsCount
<1> QED BY <1>1, <1>2, InitTypes, InitCount, PTL DEF Spec

\* Under the same assumption the gateway implements the abstract allocator.
THEOREM GatewayImplementsAllocation ==
  ASSUME Outliving = {}
  PROVE  Spec => ImplementsAllocation
<1> DEFINE bar == [p \in Providers |-> Holders(p)]
<1>1. Init => Allocation!Init
  BY DEF Init, Allocation!Init, Holders, Holding
<1>2. ASSUME TypeInv, CountInv, [Next]_vars
      PROVE  [Allocation!Next]_bar
  <2>1. CASE HoldersKept
    BY <2>1 DEF HoldersKept
  <2>2. ASSUME NEW r \in Requests, NEW p \in Providers, HolderAdded(r, p)
        PROVE  Allocation!Grant(r, p)
    <3>1. Limit[p] = 0 \/ Cardinality(Holders(p)) < Limit[p]
      BY <1>2, <2>2, HoldersFinite, GatewayAssumption
      DEF HolderAdded, HasFreeSlot, CountInv, TypeInv, TypeOK
    <3>2. bar' = [bar EXCEPT ![p] = @ \cup {r}]
      BY <2>2 DEF HolderAdded
    <3>3. Allocation!Cardinality(bar[p]) = Cardinality(Holders(p))
      BY DEF Allocation!Cardinality, Cardinality
    <3> QED BY <2>2, <3>1, <3>2, <3>3 DEF HolderAdded, Allocation!Grant
  <2>3. ASSUME NEW r \in Requests, NEW p \in Providers, HolderRemoved(r, p)
        PROVE  Allocation!Return(r, p)
    BY <2>3 DEF HolderRemoved, Allocation!Return
  <2> QED BY <1>2, <2>1, <2>2, <2>3, StepKeepsCount DEF Allocation!Next
<1>3. TypeInv /\ CountInv /\ [Next]_vars => TypeInv' /\ CountInv'
  BY StepKeepsTypes, StepKeepsCount
<1> QED
  BY <1>1, <1>2, <1>3, InitTypes, InitCount, PTL
  DEF Spec, ImplementsAllocation, Allocation!Spec

-----------------------------------------------------------------------------
(* Session ids.  Nothing in the types says that two connections differ in    *)
(* their id, on which the tracker, the slot entry and the parked entry of a  *)
(* session are keyed; it follows from where an id can come from: the random  *)
(* id, the client's own key, or a parked entry, claimed once.  The one way   *)
(* for it to fail is a client that brings a key while another connection     *)
(* under that key is on its way: the check of the key against the tracker    *)
(* comes before the entry into it.                                           *)

\* A handler that has chosen its session id and may still be served under it.
Bearing(r) == pc[r] \in Holding \cup {"trying", "asking", "queued", "woken"}

\* A handler that may still choose one.
MayChoose(r) == pc[r] \in {"new", "routing", "reconnecting"}

\* Nobody is served under an id, and nobody can claim it.
Unused(s) == parked[s] = None /\ \A q \in Requests : Bearing(q) => sid[q] # s

\* A key that is about to be chosen is not the key of a connection on its way.
NoKeyRace ==
  \A r \in Requests : pc[r] = "routing" /\ Key[r] \notin tracked \cup {None} => Unused(Key[r])

\* An id is borne by one handler, or parked, or not chosen yet.
OneBearer ==
  \A r, q \in Requests : Bearing(r) /\ Bearing(q) /\ sid[r] = sid[q] => r = q
BorneNotParked == \A r \in Requests : Bearing(r) => parked[sid[r]] = None
OwnIdUnused == \A r \in Requests : MayChoose(r) => Unused(r)

IdInv == OneBearer /\ BorneNotParked /\ OwnIdUnused /\ TrackerSeesEveryRelay

\* What the release of a slot does to the handlers.
LEMMA ReleaseMovesOne ==
  ASSUME TypeInv, NEW r \in Requests, at[r] \in Providers, pc[r] \in Holding,
         NEW next \in {"trying", "routing", "ended"}, ReleaseSlot(r, next)
  PROVE  /\ pc'[r] = next
         /\ \A q \in Requests \ {r} : /\ Bearing(q)' <=> Bearing(q)
                                      /\ MayChoose(q)' <=> MayChoose(q)
                                      /\ pc'[q] \in Holding <=> pc[q] \in Holding
                                      /\ pc'[q] = "live" <=> pc[q] = "live"
BY ReleaseSlotType DEF Bearing, MayChoose, Holding

\* A step that starts or ends no relay, parks nothing, and after which nobody bears an
\* id or may choose one that did not before.
IdsUntouched ==
  /\ sid' = sid /\ tracked' = tracked
  /\ \A s \in Sids : parked'[s] \in {parked[s], None}
  /\ \A q \in Requests : /\ Bearing(q)' => Bearing(q)
                         /\ MayChoose(q)' => MayChoose(q)
                         /\ pc'[q] = "live" <=> pc[q] = "live"

\* Such a step keeps the ids apart.
LEMMA UntouchedKeepsIds ==
  ASSUME TypeInv, IdInv, IdsUntouched
  PROVE  IdInv' /\ \A s \in Sids : Unused(s) => Unused(s)'
<1>1. \A r \in Requests : r \in Sids /\ (Bearing(r) => sid[r] \in Sids)
  BY DEF TypeInv, SidChosen, Bearing, Sids
<1>2. \A s \in Sids : Unused(s) => Unused(s)'
  BY DEF IdsUntouched, Unused
<1>3. OneBearer' /\ BorneNotParked'
  BY <1>1 DEF IdsUntouched, IdInv, OneBearer, BorneNotParked
<1>4. OwnIdUnused'
  BY <1>1, <1>2 DEF IdsUntouched, IdInv, OwnIdUnused
<1>5. TrackerSeesEveryRelay'
  BY DEF IdsUntouched, IdInv, TrackerSeesEveryRelay
<1> QED BY <1>2, <1>3, <1>4, <1>5 DEF IdInv

\* Most steps of a handler are of that kind.
LEMMA HandlerLeavesIds ==
  ASSUME TypeInv, NEW r \in Requests, Handle(r),
         ~ArriveToReconnect(r), ~Route(r), ~ConnectUp(r), ~SessionEnds(r)
  PROVE  IdsUntouched
<1> USE DEF handlerVars
<1>1. CASE \/ ArriveAtShutdown(r) \/ Arrive(r) \/ RefusePin(r) \/ TryCandidate(r)
           \/ ExhaustCandidates(r) \/ WaitForSlot(r) \/ Retry(r) \/ QueueTimeout(r)
  <2>1. sid' = sid /\ tracked' = tracked
    BY <1>1 DEF ArriveAtShutdown, Arrive, RefusePin, TryCandidate, ExhaustCandidates,
                WaitForSlot, Retry, QueueTimeout
  <2>2. \A s \in Sids : parked'[s] \in {parked[s], None}
    BY <1>1 DEF ArriveAtShutdown, Arrive, RefusePin, TryCandidate, ExhaustCandidates,
                WaitForSlot, Retry, QueueTimeout, ClaimParked, TypeInv, TypeOK
  <2>3. \A q \in Requests \ {r} : pc'[q] = pc[q]
    BY <1>1 DEF ArriveAtShutdown, Arrive, RefusePin, TryCandidate, ExhaustCandidates,
                WaitForSlot, Retry, QueueTimeout, TypeInv, TypeOK
  <2>4. /\ Bearing(r)' => Bearing(r)
        /\ MayChoose(r)' => MayChoose(r)
        /\ pc'[r] = "live" <=> pc[r] = "live"
    BY <1>1 DEF ArriveAtShutdown, Arrive, RefusePin, TryCandidate, ExhaustCandidates,
                WaitForSlot, Retry, QueueTimeout, TypeInv, TypeOK, Bearing, MayChoose, Holding
  <2>5. \A q \in Requests \ {r} : (Bearing(q)' <=> Bearing(q)) /\ (MayChoose(q)' <=> MayChoose(q))
    BY <2>3 DEF Bearing, MayChoose
  <2> QED BY <2>1, <2>2, <2>3, <2>4, <2>5 DEF IdsUntouched
<1>2. CASE ConnectFails(r)
  <2> DEFINE next == IF pc[r] = "connecting" THEN "trying" ELSE "routing"
  <2>1. /\ at[r] \in Providers /\ next \in {"trying", "routing", "ended"}
        /\ ReleaseSlot(r, next) /\ pc[r] \in {"connecting", "reconnecting"}
        /\ sid' = sid /\ tracked' = tracked /\ parked' = parked /\ pc[r] \in Holding
    BY <1>2 DEF ConnectFails, TypeInv, HolderHasProvider, Holding
  <2>2. /\ pc'[r] = next
        /\ \A q \in Requests \ {r} : /\ Bearing(q)' <=> Bearing(q)
                                     /\ MayChoose(q)' <=> MayChoose(q)
                                     /\ pc'[q] = "live" <=> pc[q] = "live"
    <3> HIDE DEF next
    <3> QED BY <2>1, ReleaseMovesOne
  <2>3. /\ Bearing(r)' => Bearing(r)
        /\ MayChoose(r)' => MayChoose(r)
        /\ pc'[r] = "live" <=> pc[r] = "live"
    BY <2>1, <2>2 DEF Bearing, MayChoose, Holding
  <2> QED BY <2>1, <2>2, <2>3 DEF IdsUntouched
<1>3. CASE Age(r)
  BY <1>3 DEF Age, IdsUntouched, Bearing, MayChoose
<1> QED BY <1>1, <1>2, <1>3 DEF Handle, Continue, Answer

\* So are those of the environment.
LEMMA EnvironmentLeavesIds ==
  ASSUME TypeInv, Environment \/ UNCHANGED vars
  PROVE  IdsUntouched
<1>1. CASE BeginShutdown
  <2>1. \A r \in ToSet(queue) : pc[r] = "queued"
    BY DEF TypeInv, QueueMatchesWaiters
  <2>2. \A r \in Requests : pc'[r] = pc[r] \/ (pc[r] = "queued" /\ pc'[r] = "refused")
    <3>1. \A r \in Requests : pc'[r] = IF r \in ToSet(queue) THEN "refused" ELSE pc[r]
      BY <1>1 DEF BeginShutdown
    <3> QED BY <2>1, <3>1
  <2>3. sid' = sid /\ tracked' = tracked /\ parked' = parked
    BY <1>1 DEF BeginShutdown, handlerVars
  <2> QED BY <2>2, <2>3 DEF IdsUntouched, Bearing, MayChoose, Holding
<1>2. CASE ~BeginShutdown
  <2>1. sid' = sid /\ tracked' = tracked /\ pc' = pc
    BY <1>2 DEF Environment, Administer, SetEnabled, DeleteProvider, AddProvider,
                CooldownExpires, ParkedExpires, Reconcile, EndDrain, vars, handlerVars
  <2>2. \A s \in Sids : parked'[s] \in {parked[s], None}
    BY <1>2 DEF Environment, Administer, SetEnabled, DeleteProvider, AddProvider,
                CooldownExpires, ParkedExpires, Reconcile, EndDrain, vars, TypeInv, TypeOK
  <2> QED BY <2>1, <2>2 DEF IdsUntouched, Bearing, MayChoose
<1> QED BY <1>1, <1>2

\* A reconnection takes over the id of an entry that nobody else can claim.
LEMMA ReconnectKeepsIds ==
  ASSUME TypeInv, IdInv, NEW r \in Requests, ArriveToReconnect(r)
  PROVE  IdInv' /\ \A s \in Sids : Unused(s) => Unused(s)'
<1> DEFINE id == ReconnectId(r)
<1>1. id \in Sids /\ parked[id] \in Providers /\ parked[id] # None
  BY GatewayAssumption DEF ArriveToReconnect, Parked, ReconnectId, Sids, TypeInv, TypeOK
<1>2. /\ pc[r] = "new" /\ tracked' = tracked
      /\ parked' = [parked EXCEPT ![id] = None]
      /\ sid' = [sid EXCEPT ![r] = id]
      /\ pc' = [pc EXCEPT ![r] = "reconnecting"]
  BY DEF ArriveToReconnect, ClaimParked
<1> HIDE DEF id
<1>3. /\ sid'[r] = id /\ pc'[r] = "reconnecting" /\ Bearing(r)'
      /\ \A q \in Requests \ {r} : sid'[q] = sid[q] /\ pc'[q] = pc[q]
      /\ parked'[id] = None /\ \A x \in Sids \ {id} : parked'[x] = parked[x]
  BY <1>1, <1>2 DEF TypeInv, TypeOK, Bearing, Holding
<1>4. \A q \in Requests \ {r} : (Bearing(q)' <=> Bearing(q)) /\ (MayChoose(q)' <=> MayChoose(q))
  BY <1>3 DEF Bearing, MayChoose
<1>5. \A q \in Requests : Bearing(q) => sid[q] \in Sids \ {id}
  BY <1>1 DEF IdInv, BorneNotParked, TypeInv, SidChosen, Bearing
<1>6. \A s \in Sids : Unused(s) => s # id /\ Unused(s)'
  BY <1>1, <1>3, <1>4 DEF Unused
<1>7. OneBearer'
  BY <1>3, <1>4, <1>5 DEF IdInv, OneBearer
<1>8. BorneNotParked'
  BY <1>3, <1>4, <1>5 DEF IdInv, BorneNotParked
<1>9. OwnIdUnused'
  BY <1>2, <1>4, <1>6 DEF IdInv, OwnIdUnused, MayChoose, Sids
<1>10. TrackerSeesEveryRelay'
  BY <1>2, <1>3 DEF IdInv, TrackerSeesEveryRelay
<1> QED BY <1>6, <1>7, <1>8, <1>9, <1>10 DEF IdInv

\* A handler chooses an id that nobody bears: its random one, or its key.
LEMMA RouteKeepsIds ==
  ASSUME NoKeyRace, TypeInv, IdInv, NEW r \in Requests, Route(r)
  PROVE  /\ IdInv'
         /\ sid'[r] \in {r, Key[r]} \ {None}
         /\ \A s \in Sids \ {sid'[r]} : Unused(s) => Unused(s)'
<1>1. /\ pc[r] = "routing" /\ tracked' = tracked /\ parked' = parked
      /\ sid' = [sid EXCEPT ![r] = IF Key[r] # None /\ Key[r] \notin tracked THEN Key[r] ELSE r]
      /\ pc' = [pc EXCEPT ![r] = "trying"]
  BY DEF Route
<1>2. /\ sid'[r] \in {r, Key[r]} \ {None} /\ pc'[r] = "trying" /\ Bearing(r)'
      /\ \A q \in Requests \ {r} : sid'[q] = sid[q] /\ pc'[q] = pc[q]
  BY <1>1, GatewayAssumption DEF TypeInv, TypeOK, Bearing, Sids
<1>3. \A q \in Requests \ {r} : (Bearing(q)' <=> Bearing(q)) /\ (MayChoose(q)' <=> MayChoose(q))
  BY <1>2 DEF Bearing, MayChoose
<1>4. Unused(sid'[r])
  <2>1. CASE sid'[r] = r
    BY <1>1, <2>1 DEF IdInv, OwnIdUnused, MayChoose
  <2>2. CASE sid'[r] # r
    <3>1. sid'[r] = Key[r] /\ Key[r] \notin tracked \cup {None}
      BY <1>1, <2>2 DEF TypeInv, TypeOK
    <3> QED BY <1>1, <3>1 DEF NoKeyRace
  <2> QED BY <2>1, <2>2
<1>5. parked[sid'[r]] = None /\ \A q \in Requests : Bearing(q) => sid[q] # sid'[r]
  BY <1>4 DEF Unused
<1>6. \A s \in Sids \ {sid'[r]} : Unused(s) => Unused(s)'
  BY <1>1, <1>2, <1>3 DEF Unused
<1>7. OneBearer'
  BY <1>2, <1>3, <1>5 DEF IdInv, OneBearer
<1>8. BorneNotParked'
  BY <1>1, <1>2, <1>3, <1>5 DEF IdInv, BorneNotParked
<1>9. OwnIdUnused'
  <2> SUFFICES ASSUME NEW q \in Requests, MayChoose(q)' PROVE Unused(q)'
    BY DEF OwnIdUnused
  <2>1. q # r /\ MayChoose(q)
    BY <1>2, <1>3 DEF MayChoose
  <2>2. q \in Sids \ {sid'[r]}
    BY <1>2, <2>1, GatewayAssumption DEF Sids
  <2> QED BY <1>6, <2>1, <2>2 DEF IdInv, OwnIdUnused
<1>10. TrackerSeesEveryRelay'
  BY <1>1, <1>2 DEF IdInv, TrackerSeesEveryRelay
<1> QED BY <1>2, <1>6, <1>7, <1>8, <1>9, <1>10 DEF IdInv

\* A relay that comes up enters the tracker under its id.
LEMMA ConnectUpKeepsIds ==
  ASSUME TypeInv, IdInv, NEW r \in Requests, ConnectUp(r)
  PROVE  IdInv' /\ \A s \in Sids : Unused(s) => Unused(s)'
<1>1. /\ pc[r] \in {"connecting", "reconnecting"} /\ sid' = sid /\ parked' = parked
      /\ tracked' = tracked \cup {sid[r]}
      /\ pc'[r] = "live" /\ \A q \in Requests \ {r} : pc'[q] = pc[q]
  BY DEF ConnectUp, handlerVars, TypeInv, TypeOK
<1>2. \A q \in Requests : (Bearing(q)' => Bearing(q)) /\ (MayChoose(q)' => MayChoose(q))
  BY <1>1 DEF Bearing, MayChoose, Holding
<1>3. \A s : Unused(s) => Unused(s)'
  BY <1>1, <1>2 DEF Unused
<1>4. OneBearer' /\ BorneNotParked' /\ OwnIdUnused'
  BY <1>1, <1>2, <1>3 DEF IdInv, OneBearer, BorneNotParked, OwnIdUnused
<1>5. TrackerSeesEveryRelay'
  BY <1>1 DEF IdInv, TrackerSeesEveryRelay
<1> QED BY <1>3, <1>4, <1>5 DEF IdInv

\* A session that ends leaves the tracker and may be parked, under an id that
\* nobody else bears and nobody may choose any more.
LEMMA SessionEndsKeepsIds ==
  ASSUME TypeInv, IdInv, NEW r \in Requests, SessionEnds(r)
  PROVE  IdInv' /\ \A s \in Sids : Unused(s) => Unused(s)'
<1>1. /\ pc[r] = "live" /\ sid' = sid /\ tracked' = tracked \ {sid[r]}
      /\ parked' = IF sid[r] \in tracked THEN [parked EXCEPT ![sid[r]] = at[r]] ELSE parked
      /\ at[r] \in Providers /\ sid[r] \in Sids /\ ReleaseSlot(r, "ended") /\ pc[r] \in Holding
  BY DEF SessionEnds, handlerVars, TypeInv, HolderHasProvider, SidChosen, Holding
<1>2. /\ pc'[r] = "ended"
      /\ \A q \in Requests \ {r} : /\ Bearing(q)' <=> Bearing(q)
                                   /\ MayChoose(q)' <=> MayChoose(q)
                                   /\ pc'[q] = "live" <=> pc[q] = "live"
  BY <1>1, ReleaseMovesOne
<1>3. Bearing(r) /\ ~Bearing(r)' /\ ~MayChoose(r)'
  BY <1>1, <1>2 DEF Bearing, MayChoose, Holding
<1>4. \A x \in Sids \ {sid[r]} : parked'[x] = parked[x]
  BY <1>1 DEF TypeInv, TypeOK
<1>5. \A q \in Requests : Bearing(q)' => Bearing(q) /\ sid[q] \in Sids \ {sid[r]}
  BY <1>2, <1>3 DEF IdInv, OneBearer, TypeInv, SidChosen, Bearing
<1>6. \A s \in Sids : Unused(s) => Unused(s)'
  BY <1>1, <1>3, <1>4, <1>5 DEF Unused
<1>7. OneBearer' /\ BorneNotParked'
  BY <1>1, <1>4, <1>5 DEF IdInv, OneBearer, BorneNotParked
<1>8. OwnIdUnused'
  BY <1>2, <1>3, <1>6 DEF IdInv, OwnIdUnused, Sids
<1>9. TrackerSeesEveryRelay'
  <2>1. \A q \in Requests : pc'[q] = "live" <=> q # r /\ pc[q] = "live"
    BY <1>1, <1>2
  <2>2. \A q \in Requests : pc[q] = "live" /\ sid[q] = sid[r] => q = r
    BY <1>3 DEF IdInv, OneBearer, Bearing, Holding
  <2> QED BY <1>1, <2>1, <2>2 DEF IdInv, TrackerSeesEveryRelay
<1> QED BY <1>6, <1>7, <1>8, <1>9 DEF IdInv

\* Initially the ids are apart, and every step keeps them so unless two connections
\* race for a key; an unused id comes into use when a handler chooses it.
LEMMA StepKeepsIds ==
  ASSUME NoKeyRace, TypeInv, IdInv, [Next]_vars
  PROVE  /\ IdInv'
         /\ \A s \in Sids : Unused(s) =>
              \/ Unused(s)'
              \/ \E q \in Requests : /\ pc[q] = "routing" /\ pc'[q] = "trying"
                                     /\ sid'[q] = s /\ s \in {q, Key[q]}
<1>1. ASSUME NEW r \in Requests, Route(r)
      PROVE  pc[r] = "routing" /\ pc'[r] = "trying"
  BY <1>1 DEF Route, TypeInv, TypeOK
<1>2. CASE \E r \in Requests : Handle(r)
  BY <1>1, <1>2, HandlerLeavesIds, UntouchedKeepsIds, ReconnectKeepsIds, RouteKeepsIds,
     ConnectUpKeepsIds, SessionEndsKeepsIds
<1>3. CASE Environment \/ UNCHANGED vars
  BY <1>3, EnvironmentLeavesIds, UntouchedKeepsIds
<1> QED BY <1>2, <1>3 DEF Next, Environment

\* No client has connected.
LEMMA InitIds == Init => IdInv /\ \A s \in Sids : Unused(s)
<1> SUFFICES ASSUME Init PROVE IdInv /\ \A s \in Sids : Unused(s)
  OBVIOUS
<1>1. \A r \in Requests : ~Bearing(r) /\ pc[r] # "live"
  BY DEF Init, Bearing, Holding
<1>2. \A s \in Sids : Unused(s)
  BY <1>1 DEF Init, Unused
<1> QED BY <1>1, <1>2
        DEF Init, IdInv, OneBearer, BorneNotParked, OwnIdUnused, TrackerSeesEveryRelay, Sids

\* No two clients bring the same session key.
KeysNotShared ==
  \A r, q \in Requests : Key[r] = Key[q] /\ Key[r] # None => r = q

\* The key of a client that has not chosen yet.
OwnKeyUnused == \A r \in Requests : MayChoose(r) /\ Key[r] # None => Unused(Key[r])

\* If no two clients bring the same session key then none race for one, whatever the
\* ids that reconnecting clients bring.
THEOREM OwnKeysNeverRace ==
  ASSUME KeysNotShared
  PROVE  Spec => []NoKeyRace
<1>1. OwnKeyUnused => NoKeyRace
  BY DEF OwnKeyUnused, NoKeyRace, MayChoose
<1>2. Init => OwnKeyUnused
  BY InitIds, GatewayAssumption DEF OwnKeyUnused, Sids
<1>3. ASSUME TypeInv, IdInv, OwnKeyUnused, [Next]_vars PROVE OwnKeyUnused'
  <2> SUFFICES ASSUME NEW r \in Requests, MayChoose(r)', Key[r] # None PROVE Unused(Key[r])'
    BY DEF OwnKeyUnused
  <2>1. MayChoose(r)
    <3>1. CASE Environment \/ UNCHANGED vars
      BY <1>3, <3>1, EnvironmentLeavesIds DEF IdsUntouched
    <3>2. ASSUME NEW q \in Requests, Handle(q) PROVE MayChoose(r)
      <4>1. CASE ArriveToReconnect(q) \/ Route(q) \/ ConnectUp(q)
        BY <1>3, <4>1 DEF ArriveToReconnect, Route, ConnectUp, MayChoose, TypeInv, TypeOK
      <4>2. CASE SessionEnds(q)
        <5>1. /\ at[q] \in Providers /\ ReleaseSlot(q, "ended") /\ pc[q] \in Holding
          BY <1>3, <4>2 DEF SessionEnds, TypeInv, HolderHasProvider, Holding
        <5>2. pc'[q] = "ended" /\ \A b \in Requests \ {q} : MayChoose(b)' <=> MayChoose(b)
          BY <1>3, <5>1, ReleaseMovesOne
        <5> QED BY <5>2 DEF MayChoose
      <4> QED BY <1>3, <3>2, <4>1, <4>2, HandlerLeavesIds DEF IdsUntouched
    <3> QED BY <1>3, <3>1, <3>2 DEF Next, Environment
  <2>2. Unused(Key[r]) /\ Key[r] \in Sids /\ Key[r] \notin Requests
    BY <1>3, <2>1, GatewayAssumption DEF OwnKeyUnused, Sids
  <2>3. \A q \in Requests : Key[r] \in {q, Key[q]} => q = r
    BY <2>2 DEF KeysNotShared
  <2> QED BY <1>1, <1>3, <2>2, <2>3, StepKeepsIds DEF MayChoose
<1>4. TypeInv /\ IdInv /\ OwnKeyUnused /\ [Next]_vars => TypeInv' /\ IdInv' /\ OwnKeyUnused'
  BY <1>1, <1>3, StepKeepsTypes, StepKeepsIds
<1>5. Init => TypeInv /\ IdInv
  BY InitTypes, InitIds
<1> QED BY <1>1, <1>2, <1>4, <1>5, PTL DEF Spec

-----------------------------------------------------------------------------
(* Slots.  With ids that are told apart, the counter `active` and the entries *)
(* of ConcurrencyTracker agree: an entry belongs to a connection of its       *)
(* provider, and is counted.  The reconciler may take entries away from live  *)
(* connections, so there may be fewer entries than connections, never more.   *)

\* The sessions whose entry names a provider.
Entries(p) == {s \in Sids : slot[s] = p}

\* An entry belongs to a connection of its provider.
EntriesOwned ==
  \A s \in Sids : slot[s] # None =>
    \E r \in Requests : pc[r] \in Holding /\ at[r] = slot[s] /\ sid[r] = s

\* Entries are counted, and the count respects the limit.
EntriesCounted ==
  \A p \in Providers : /\ Cardinality(Entries(p)) <= active[p]
                       /\ Limit[p] # 0 => active[p] <= Limit[p]
                       /\ status[p] = "absent" => active[p] = 0

\* The counter is exact unless the reconciler meets a disabled provider: there it
\* takes the entry and leaves the count.
CountExact ==
  Outliving = {} \/ Managed = {} => \A p \in Providers : active[p] = Cardinality(Entries(p))

\* Without sessions that outlive the reconciler nothing ages; without an operator
\* every provider stays enabled.
Idle ==
  /\ Outliving = {} => aged = {}
  /\ Managed = {} => \A p \in Providers : status[p] = "enabled"

EntryInv == EntriesOwned /\ EntriesCounted /\ CountExact /\ Idle

\* The entries are finitely many.
LEMMA EntriesFinite ==
  \A p : IsFiniteSet(Entries(p)) /\ Cardinality(Entries(p)) \in Nat
<1> TAKE p
<1>1. Entries(p) \in SUBSET Sids
  BY DEF Entries
<1>2. IsFiniteSet(Sids)
  BY GatewayAssumption, FS_Union DEF Sids
<1> QED BY <1>1, <1>2, FS_Subset, FS_CardinalityType

\* A step that leaves the slots alone and takes no connection away.
LEMMA EntriesUntouched ==
  ASSUME TypeInv, EntryInv, slot' = slot, active' = active,
         \A r \in Requests : pc[r] \in Holding =>
           pc'[r] \in Holding /\ at'[r] = at[r] /\ sid'[r] = sid[r],
         \A p \in Providers : status'[p] = "absent" => active[p] = 0,
         Managed = {} => status' = status,
         Outliving = {} => aged' = {}
  PROVE  EntryInv'
<1>1. \A p : Entries(p)' = Entries(p)
  BY DEF Entries
<1>2. EntriesOwned'
  BY DEF EntryInv, EntriesOwned
<1>3. EntriesCounted' /\ CountExact'
  BY <1>1 DEF EntryInv, EntriesCounted, CountExact
<1>4. Idle'
  BY DEF EntryInv, Idle
<1> QED BY <1>2, <1>3, <1>4 DEF EntryInv

\* acquire makes an entry for a session that had none, and counts it.
LEMMA AcquireKeepsEntries ==
  ASSUME TypeInv, EntryInv, NEW r \in Requests, NEW s \in Sids, NEW p \in Providers,
         NEW next \in Holding, slot[s] = None,
         CanAcquire(p), AcquireSlot(s, p), pc[r] \notin Holding, sid'[r] = s,
         \A q \in Requests \ {r} : sid'[q] = sid[q],
         pc' = [pc EXCEPT ![r] = next], at' = [at EXCEPT ![r] = p], status' = status
  PROVE  EntryInv'
<1>0. \A q \in Providers : active[q] \in Nat /\ Limit[q] \in Nat /\ q # None
  BY GatewayAssumption DEF TypeInv, TypeOK
<1>1. /\ \A q \in Providers : active'[q] = IF q = p THEN active[p] + 1 ELSE active[q]
      /\ \A x \in Sids : slot'[x] = IF x = s THEN p ELSE slot[x]
      /\ aged' \subseteq aged
  BY DEF AcquireSlot, TypeInv, TypeOK
<1>2. \A q \in Providers : Entries(q)' = IF q = p THEN Entries(p) \cup {s} ELSE Entries(q)
  BY <1>0, <1>1 DEF Entries
<1>3. s \notin Entries(p)
  BY <1>0 DEF Entries
<1>4. Cardinality(Entries(p) \cup {s}) = Cardinality(Entries(p)) + 1
  BY <1>3, EntriesFinite, FS_AddElement
<1>5. \A q \in Providers : q # p => Cardinality(Entries(q)') = Cardinality(Entries(q))
  BY <1>2
<1>6. Cardinality(Entries(p)') = Cardinality(Entries(p)) + 1
  BY <1>2, <1>4
<1>7. /\ pc'[r] \in Holding /\ at'[r] = p
      /\ \A q \in Requests \ {r} : pc'[q] = pc[q] /\ at'[q] = at[q]
  BY DEF TypeInv, TypeOK
<1>8. EntriesOwned'
  <2> SUFFICES ASSUME NEW x \in Sids, slot'[x] # None
               PROVE  \E q \in Requests : pc'[q] \in Holding /\ at'[q] = slot'[x] /\ sid'[q] = x
    BY DEF EntriesOwned
  <2>1. CASE x = s
    BY <1>1, <1>7, <2>1
  <2>2. CASE x # s
    <3>1. PICK q \in Requests : pc[q] \in Holding /\ at[q] = slot[x] /\ sid[q] = x
      BY <1>1, <2>2 DEF EntryInv, EntriesOwned
    <3> QED BY <1>1, <1>7, <2>2, <3>1
  <2> QED BY <2>1, <2>2
<1>9. \A q \in Providers : /\ Cardinality(Entries(q)) \in Nat
                           /\ Cardinality(Entries(q)) <= active[q]
                           /\ Limit[q] # 0 => active[q] <= Limit[q]
                           /\ status[q] = "absent" => active[q] = 0
  BY EntriesFinite DEF EntryInv, EntriesCounted
<1>10. \A q \in Providers : Cardinality(Entries(q)') <= active'[q]
  BY <1>0, <1>1, <1>5, <1>6, <1>9
<1>11. \A q \in Providers : Limit[q] # 0 => active'[q] <= Limit[q]
  BY <1>0, <1>1, <1>9 DEF CanAcquire, HasFreeSlot
<1>12. \A q \in Providers : status'[q] = "absent" => active'[q] = 0
  BY <1>1, <1>9 DEF CanAcquire
<1>13. CountExact'
  BY <1>1, <1>5, <1>6 DEF EntryInv, CountExact
<1>14. Idle'
  BY <1>1 DEF EntryInv, Idle
<1> QED BY <1>8, <1>10, <1>11, <1>12, <1>13, <1>14 DEF EntryInv, EntriesCounted

\* release takes the entry of its session away, unless the reconciler did, and
\* counts down only if there was one.
LEMMA ReleaseKeepsEntries ==
  ASSUME TypeInv, IdInv, EntryInv, NEW r \in Requests, at[r] \in Providers, pc[r] \in Holding,
         NEW next \in {"trying", "routing", "ended"}, ReleaseSlot(r, next),
         sid' = sid, at' = at, status' = status
  PROVE  EntryInv'
<1> DEFINE p == at[r]
           s == sid[r]
<1>0. s \in Sids /\ p \in Providers /\ p # None
      /\ \A q \in Providers : active[q] \in Nat /\ Limit[q] \in Nat
  BY GatewayAssumption DEF TypeInv, TypeOK, SidChosen
<1>1. /\ pc'[r] = next
      /\ \A q \in Requests \ {r} : pc'[q] \in Holding <=> pc[q] \in Holding
  BY ReleaseMovesOne
<1>3. slot[s] \in {None, p}
  <2> SUFFICES ASSUME slot[s] # None PROVE slot[s] = p
    OBVIOUS
  <2>1. PICK q \in Requests : pc[q] \in Holding /\ at[q] = slot[s] /\ sid[q] = s
    BY <1>0 DEF EntryInv, EntriesOwned
  <2>2. q = r
    BY <2>1 DEF IdInv, OneBearer, Bearing
  <2> QED BY <2>1, <2>2
<1>4. /\ slot' = [slot EXCEPT ![s] = None]
      /\ active' = IF slot[s] = None THEN active ELSE [active EXCEPT ![p] = active[p] - 1]
      /\ aged' \subseteq aged
      /\ slot[s] = p => active[p] > 0 /\ Cardinality(Entries(p)) > 0
  <2>1. slot[s] = p => Cardinality(Entries(p)) > 0
    <3> SUFFICES ASSUME slot[s] = p PROVE Cardinality(Entries(p)) > 0
      OBVIOUS
    <3>1. s \in Entries(p)
      BY <1>0 DEF Entries
    <3>2. Cardinality(Entries(p)) # 0
      BY <3>1, EntriesFinite, FS_EmptySet
    <3> QED BY <3>2, EntriesFinite
  <2>2. slot[s] = p => active[p] > 0
    BY <1>0, <2>1, EntriesFinite DEF EntryInv, EntriesCounted
  <2>3. CASE status[p] = "absent"
    <3>1. active[p] = 0
      BY <1>0, <2>3 DEF EntryInv, EntriesCounted
    <3>2. slot[s] = None
      BY <1>3, <2>2, <3>1
    <3>3. slot' = slot /\ active' = active /\ aged' = aged
      BY <2>3 DEF ReleaseSlot, slotVars
    <3>4. [slot EXCEPT ![s] = None] = slot
      BY <1>0, <3>2 DEF TypeInv, TypeOK
    <3> QED BY <2>1, <2>2, <3>2, <3>3, <3>4
  <2>4. CASE status[p] # "absent"
    <3>1. slot' = [slot EXCEPT ![s] = None] /\ active' = Released(s, p) /\ aged' = aged \ {s}
      BY <2>4 DEF ReleaseSlot
    <3>2. slot[s] = None => active' = active
      BY <3>1 DEF Released
    <3>3. slot[s] # None => active' = [active EXCEPT ![p] = active[p] - 1]
      <4> SUFFICES ASSUME slot[s] # None PROVE active' = [active EXCEPT ![p] = active[p] - 1]
        OBVIOUS
      <4>1. active[p] # 0
        BY <1>0, <1>3, <2>2
      <4>2. active' = [active EXCEPT ![p] = IF active[p] = 0 THEN 0 ELSE active[p] - 1]
        BY <3>1 DEF Released
      <4> QED BY <4>1, <4>2
    <3> QED BY <2>1, <2>2, <3>1, <3>2, <3>3
  <2> QED BY <2>3, <2>4
<1> HIDE DEF p, s
<1>5. \A x \in Sids : slot'[x] = IF x = s THEN None ELSE slot[x]
  BY <1>4 DEF TypeInv, TypeOK
<1>6. \A q \in Providers : Entries(q)' = Entries(q) \ {s}
  BY <1>5, GatewayAssumption DEF Entries
<1>7. \A q \in Providers :
        Cardinality(Entries(q)') =
          IF s \in Entries(q) THEN Cardinality(Entries(q)) - 1 ELSE Cardinality(Entries(q))
  BY <1>6, EntriesFinite, FS_RemoveElement
<1>8. \A q \in Providers : s \in Entries(q) <=> slot[s] = p /\ q = p
  BY <1>0, <1>3, GatewayAssumption DEF Entries
<1>9. \A q \in Providers : active'[q] = IF slot[s] = p /\ q = p THEN active[q] - 1 ELSE active[q]
  BY <1>0, <1>3, <1>4 DEF TypeInv, TypeOK
<1>10. \A q \in Providers : /\ Cardinality(Entries(q)) \in Nat
                            /\ Cardinality(Entries(q)) <= active[q]
                            /\ Limit[q] # 0 => active[q] <= Limit[q]
                            /\ status[q] = "absent" => active[q] = 0
  BY EntriesFinite DEF EntryInv, EntriesCounted
<1>11. \A q \in Providers : /\ Cardinality(Entries(q)') <= active'[q]
                            /\ Limit[q] # 0 => active'[q] <= Limit[q]
                            /\ status'[q] = "absent" => active'[q] = 0
  BY <1>0, <1>4, <1>7, <1>8, <1>9, <1>10
<1>12. CountExact'
  BY <1>7, <1>8, <1>9 DEF EntryInv, CountExact
<1>13. EntriesOwned'
  <2> SUFFICES ASSUME NEW x \in Sids, slot'[x] # None
               PROVE  \E q \in Requests : pc'[q] \in Holding /\ at'[q] = slot'[x] /\ sid'[q] = x
    BY DEF EntriesOwned
  <2>1. x # s /\ slot'[x] = slot[x]
    BY <1>5
  <2>2. PICK q \in Requests : pc[q] \in Holding /\ at[q] = slot[x] /\ sid[q] = x
    BY <2>1 DEF EntryInv, EntriesOwned
  <2>3. q # r
    BY <2>1, <2>2 DEF s
  <2> QED BY <1>1, <2>1, <2>2, <2>3
<1>14. Idle'
  BY <1>4 DEF EntryInv, Idle
<1> QED BY <1>11, <1>12, <1>13, <1>14 DEF EntryInv, EntriesCounted

\* The reconciler takes the aged entries away, and their count where the provider
\* is enabled.
LEMMA ReconcileTakesEntries ==
  ASSUME TypeInv, EntryInv, Reconcile
  PROVE  EntryInv'
<1> DEFINE n(p) == Cardinality({s \in aged : slot[s] = p})
<1>1. /\ \A p \in Providers :
           active'[p] = IF status[p] # "enabled" THEN active[p]
                        ELSE IF active[p] > n(p) THEN active[p] - n(p) ELSE 0
      /\ \A s \in Sids : slot'[s] = IF s \in aged THEN None ELSE slot[s]
      /\ aged' = {} /\ aged # {}
      /\ status' = status /\ pc' = pc /\ sid' = sid /\ at' = at
  BY DEF Reconcile, registryVars, handlerVars
<1>2. \A p \in Providers : Entries(p)' = Entries(p) \ aged
  BY <1>1, GatewayAssumption DEF Entries
<1>3. \A p : {s \in aged : slot[s] = p} = Entries(p) \cap aged
  BY DEF Entries, TypeInv, TypeOK
<1>4. \A p \in Providers : /\ n(p) \in Nat
                           /\ n(p) <= Cardinality(Entries(p))
                           /\ Cardinality(Entries(p)') = Cardinality(Entries(p)) - n(p)
  <2> TAKE p \in Providers
  <2>1. /\ IsFiniteSet(Entries(p)) /\ Cardinality(Entries(p)) \in Nat
        /\ Entries(p)' = Entries(p) \ aged /\ n(p) = Cardinality(Entries(p) \cap aged)
    BY <1>2, <1>3, EntriesFinite, FS_CardinalityType
  <2> HIDE DEF n
  <2>2. n(p) \in Nat /\ n(p) <= Cardinality(Entries(p))
    BY <2>1, FS_Intersection, FS_CardinalityType
  <2>3. Cardinality(Entries(p) \ aged) = Cardinality(Entries(p)) - n(p)
    BY <2>1, FS_Difference
  <2> QED BY <2>1, <2>2, <2>3
<1> HIDE DEF n
<1>5. \A p \in Providers : /\ active[p] \in Nat /\ Limit[p] \in Nat
                           /\ Cardinality(Entries(p)) \in Nat
                           /\ Cardinality(Entries(p)) <= active[p]
                           /\ Limit[p] # 0 => active[p] <= Limit[p]
                           /\ status[p] = "absent" => active[p] = 0
  BY EntriesFinite, GatewayAssumption DEF EntryInv, EntriesCounted, TypeInv, TypeOK
<1>6. \A p \in Providers : /\ Cardinality(Entries(p)') <= active'[p]
                           /\ Limit[p] # 0 => active'[p] <= Limit[p]
                           /\ status'[p] = "absent" => active'[p] = 0
  BY <1>1, <1>4, <1>5
<1>7. CountExact'
  <2>1. CASE Outliving = {}
    BY <1>1, <2>1 DEF EntryInv, Idle
  <2>2. CASE Managed = {}
    BY <1>1, <1>4, <1>5, <2>2 DEF EntryInv, CountExact, Idle
  <2> QED BY <2>1, <2>2 DEF CountExact
<1>8. EntriesOwned'
  BY <1>1 DEF EntryInv, EntriesOwned
<1>9. Idle'
  BY <1>1 DEF EntryInv, Idle
<1> QED BY <1>6, <1>7, <1>8, <1>9 DEF EntryInv, EntriesCounted

\* Every step of a handler keeps the entries.
LEMMA HandleKeepsEntries ==
  ASSUME TypeInv, IdInv, EntryInv, NEW r \in Requests, Handle(r)
  PROVE  EntryInv'
<1> USE DEF registryVars, slotVars, handlerVars
<1>1. CASE /\ pc[r] \notin Holding
           /\ \E b \in {"refused", "routing", "trying", "asking", "woken", "queued"} :
                pc' = [pc EXCEPT ![r] = b]
           /\ \A q \in Requests \ {r} : sid'[q] = sid[q]
           /\ UNCHANGED <<active, slot, aged, status, at>>
  <2>1. \A q \in Requests : pc[q] \in Holding =>
          pc'[q] \in Holding /\ at'[q] = at[q] /\ sid'[q] = sid[q]
    BY <1>1 DEF TypeInv, TypeOK
  <2> QED BY <1>1, <2>1, EntriesUntouched DEF EntryInv, EntriesCounted, Idle
<1>2. CASE ArriveToReconnect(r)
  <2> DEFINE s == ReconnectId(r)
  <2>1. s \in Sids /\ parked[s] \in Providers /\ parked[s] # None
    BY <1>2, GatewayAssumption DEF ArriveToReconnect, Parked, ReconnectId, Sids, TypeInv, TypeOK
  <2>2. slot[s] = None
    BY <2>1 DEF EntryInv, EntriesOwned, IdInv, BorneNotParked, Bearing
  <2>3. /\ pc[r] \notin Holding /\ "reconnecting" \in Holding
        /\ CanAcquire(parked[s]) /\ AcquireSlot(s, parked[s])
        /\ sid'[r] = s /\ \A q \in Requests \ {r} : sid'[q] = sid[q]
        /\ pc' = [pc EXCEPT ![r] = "reconnecting"]
        /\ at' = [at EXCEPT ![r] = parked[s]]
        /\ status' = status
    BY <1>2 DEF ArriveToReconnect, Holding, TypeInv, TypeOK
  <2> HIDE DEF s
  <2> QED BY <2>1, <2>2, <2>3, AcquireKeepsEntries
<1>3. CASE TryCandidate(r)
  <2>1. PICK p \in cands[r] :
          IF p \in ProxyOk[r] /\ CanAcquire(p)
          THEN /\ AcquireSlot(sid[r], p)
               /\ at' = [at EXCEPT ![r] = p]
               /\ pc' = [pc EXCEPT ![r] = "connecting"]
          ELSE UNCHANGED <<slotVars, at, pc>>
    BY <1>3 DEF TryCandidate
  <2>2. /\ pc[r] = "trying" /\ p \in Providers /\ sid[r] \in Sids
        /\ status' = status /\ sid' = sid
    BY <1>3, <2>1 DEF TryCandidate, TypeInv, TypeOK, SidChosen
  <2>3. slot[sid[r]] = None
    <3> SUFFICES ASSUME slot[sid[r]] # None PROVE FALSE
      OBVIOUS
    <3>1. PICK q \in Requests : pc[q] \in Holding /\ sid[q] = sid[r]
      BY <2>2 DEF EntryInv, EntriesOwned
    <3>2. Bearing(q) /\ Bearing(r)
      BY <2>2, <3>1 DEF Bearing
    <3>3. q = r
      BY <3>1, <3>2 DEF IdInv, OneBearer
    <3> QED BY <2>2, <3>1, <3>3 DEF Holding
  <2>4. CASE p \in ProxyOk[r] /\ CanAcquire(p)
    <3>1. pc[r] \notin Holding /\ "connecting" \in Holding
      BY <2>2 DEF Holding
    <3> QED BY <2>1, <2>2, <2>3, <2>4, <3>1, AcquireKeepsEntries
  <2>5. CASE ~(p \in ProxyOk[r] /\ CanAcquire(p))
    <3>1. /\ slot' = slot /\ active' = active /\ aged' = aged /\ pc' = pc /\ at' = at
      BY <2>1, <2>5
    <3> QED BY <2>2, <3>1, EntriesUntouched DEF EntryInv, EntriesCounted, Idle
  <2> QED BY <2>4, <2>5
<1>4. CASE ConnectUp(r)
  <2>1. \A q \in Requests : pc[q] \in Holding => pc'[q] \in Holding
    BY <1>4 DEF ConnectUp, Holding, TypeInv, TypeOK
  <2> QED BY <1>4, <2>1, EntriesUntouched DEF ConnectUp, EntryInv, EntriesCounted, Idle
<1>5. CASE ConnectFails(r)
  <2> DEFINE next == IF pc[r] = "connecting" THEN "trying" ELSE "routing"
  <2>1. /\ at[r] \in Providers /\ next \in {"trying", "routing", "ended"}
        /\ ReleaseSlot(r, next) /\ pc[r] \in Holding /\ sid' = sid /\ at' = at /\ status' = status
    BY <1>5 DEF ConnectFails, TypeInv, HolderHasProvider, Holding
  <2> HIDE DEF next
  <2> QED BY <2>1, ReleaseKeepsEntries
<1>6. CASE SessionEnds(r)
  <2>1. /\ at[r] \in Providers /\ ReleaseSlot(r, "ended")
        /\ pc[r] \in Holding /\ sid' = sid /\ at' = at /\ status' = status
    BY <1>6 DEF SessionEnds, TypeInv, HolderHasProvider, Holding
  <2> QED BY <2>1, ReleaseKeepsEntries
<1>7. CASE Age(r)
  BY <1>7, EntriesUntouched DEF Age, EntryInv, EntriesCounted
<1>8. CASE \/ ArriveAtShutdown(r) \/ Arrive(r) \/ RefusePin(r) \/ Route(r) \/ ExhaustCandidates(r)
           \/ WaitForSlot(r) \/ Retry(r) \/ QueueTimeout(r)
  <2>1. \A q \in Requests \ {r} : sid'[q] = sid[q]
    BY <1>8 DEF ArriveAtShutdown, Arrive, RefusePin, Route, ExhaustCandidates, WaitForSlot,
                Retry, QueueTimeout, TypeInv, TypeOK
  <2>2. /\ pc[r] \notin Holding
        /\ \E b \in {"refused", "routing", "trying", "asking", "woken", "queued"} :
             pc' = [pc EXCEPT ![r] = b]
        /\ UNCHANGED <<active, slot, aged, status, at>>
    BY <1>8 DEF ArriveAtShutdown, Arrive, RefusePin, Route, ExhaustCandidates, WaitForSlot,
                Retry, QueueTimeout, Holding
  <2> QED BY <1>1, <2>1, <2>2
<1> QED
  BY <1>2, <1>3, <1>4, <1>5, <1>6, <1>7, <1>8 DEF Handle, Continue, Answer

\* Initially, and at every step.
LEMMA StepKeepsEntries ==
  /\ Init => EntryInv
  /\ TypeInv /\ IdInv /\ EntryInv /\ [Next]_vars => EntryInv'
<1>1. ASSUME Init PROVE EntryInv
  <2>1. \A p \in Providers : Entries(p) = {}
    BY <1>1, GatewayAssumption DEF Init, Entries
  <2>2. \A p \in Providers : Cardinality(Entries(p)) = 0 /\ Limit[p] \in Nat
    BY <2>1, FS_EmptySet, GatewayAssumption
  <2> QED BY <1>1, <2>2 DEF Init, EntryInv, EntriesOwned, EntriesCounted, CountExact, Idle
<1>2. ASSUME TypeInv, IdInv, EntryInv, [Next]_vars PROVE EntryInv'
  <2> USE DEF registryVars, slotVars, handlerVars
  <2>1. ASSUME NEW r \in Requests, Handle(r) PROVE EntryInv'
    BY <1>2, <2>1, HandleKeepsEntries
  <2>2. ASSUME NEW p \in Providers, Administer(p) PROVE EntryInv'
    <3>1. slot' = slot /\ sid' = sid /\ aged' = aged /\ pc' = pc /\ at' = at
      BY <2>2 DEF Administer, SetEnabled, DeleteProvider, AddProvider
    <3>2. active' = active
      BY <1>2, <2>2 DEF Administer, SetEnabled, DeleteProvider, AddProvider, EntryInv,
                            EntriesCounted, TypeInv, TypeOK
    <3>3. \A q \in Providers : status'[q] = "absent" => active[q] = 0
      BY <1>2, <2>2 DEF Administer, SetEnabled, DeleteProvider, AddProvider, EntryInv,
                            EntriesCounted, TypeInv, TypeOK
    <3>4. Managed = {} => status' = status
      BY <1>2, <2>2 DEF Administer, SetEnabled, DeleteProvider, AddProvider, EntryInv, Idle
    <3> QED BY <1>2, <3>1, <3>2, <3>3, <3>4, EntriesUntouched DEF EntryInv, Idle
  <2>3. CASE BeginShutdown
    <3>1. \A r \in ToSet(queue) : pc[r] = "queued"
      BY <1>2 DEF TypeInv, QueueMatchesWaiters
    <3>2. \A q \in Requests : pc[q] \in Holding => pc'[q] = pc[q]
      BY <2>3, <3>1 DEF BeginShutdown, Holding
    <3> QED BY <1>2, <2>3, <3>2, EntriesUntouched
            DEF BeginShutdown, EntryInv, EntriesCounted, Idle
  <2>4. CASE \/ \E p \in Providers : CooldownExpires(p)
             \/ \E s \in Sids : ParkedExpires(s)
             \/ EndDrain \/ UNCHANGED vars
    <3>1. /\ slot' = slot /\ active' = active /\ sid' = sid /\ aged' = aged
          /\ status' = status /\ pc' = pc /\ at' = at
      BY <2>4 DEF CooldownExpires, ParkedExpires, EndDrain, vars
    <3> QED BY <1>2, <3>1, EntriesUntouched DEF EntryInv, EntriesCounted, Idle
  <2> QED BY <1>2, <2>1, <2>2, <2>3, <2>4, ReconcileTakesEntries DEF Next
<1> QED BY <1>1, <1>2

\* The three invariants together.
LEMMA SlotsInvariant == Spec /\ []NoKeyRace => [](TypeInv /\ IdInv /\ EntryInv)
<1>1. Init => IdInv /\ EntryInv
  BY InitIds, StepKeepsEntries
<1>2. NoKeyRace /\ TypeInv /\ IdInv /\ EntryInv /\ [Next]_vars => TypeInv' /\ IdInv' /\ EntryInv'
  BY StepKeepsTypes, StepKeepsIds, StepKeepsEntries
<1> QED BY <1>1, <1>2, InitTypes, PTL DEF Spec

\* No more entries than connections: each entry belongs to a connection of its own.
LEMMA EntriesBelongToHolders ==
  ASSUME TypeInv, EntryInv, NEW p \in Providers
  PROVE  Cardinality(Entries(p)) <= Cardinality(Holders(p))
<1> DEFINE f == [s \in Entries(p) |-> CHOOSE r \in Holders(p) : sid[r] = s]
<1>1. \A s \in Entries(p) : f[s] \in Holders(p) /\ sid[f[s]] = s
  BY GatewayAssumption DEF EntryInv, EntriesOwned, Entries, Holders
<1>2. f \in Injection(Entries(p), Holders(p))
  BY <1>1 DEF Injection, IsInjective
<1> QED BY <1>2, HoldersFinite, FS_Injection

\* A slot counted on a provider belongs to a connection that is there, every live
\* relay is in the tracker and nothing else is, and no two connections share an id:
\* for any providers, limits, pins and reconnections, as long as no two connections
\* race for a session key and the reconciler never meets a disabled provider.
THEOREM SlotsAreExact ==
  ASSUME Outliving = {} \/ Managed = {}
  PROVE  Spec /\ []NoKeyRace => []SlotsFollowRelays
<1>1. ASSUME TypeInv, IdInv, EntryInv PROVE SlotsFollowRelays
  <2>1. NoLeakedSlot
    BY <1>1, EntriesBelongToHolders DEF NoLeakedSlot, EntryInv, CountExact
  <2>2. TrackerSeesEveryRelay /\ DistinctSessionIds
    BY <1>1 DEF IdInv, OneBearer, DistinctSessionIds, Bearing
  <2> QED BY <2>1, <2>2 DEF SlotsFollowRelays
<1> QED BY <1>1, SlotsInvariant, PTL

\* Whatever the reconciler takes, and whatever an operator does meanwhile, the
\* connections that still have an entry respect maxConcurrent.
THEOREM EntriesRespectLimit == Spec /\ []NoKeyRace => []OnlyReclaimedExceed
<1>1. ASSUME TypeInv, IdInv, EntryInv PROVE OnlyReclaimedExceed
  <2> SUFFICES ASSUME NEW p \in Providers, Limit[p] # 0
               PROVE  Cardinality({r \in Holders(p) : slot[sid[r]] = p}) <= Limit[p]
    BY DEF OnlyReclaimedExceed
  <2> DEFINE S == {r \in Holders(p) : slot[sid[r]] = p}
             f == [r \in S |-> sid[r]]
  <2>1. \A r \in S : f[r] \in Entries(p)
    BY <1>1 DEF Entries, Holders, TypeInv, SidChosen
  <2>2. \A r, q \in S : f[r] = f[q] => r = q
    BY <1>1 DEF IdInv, OneBearer, Bearing, Holders
  <2>3. f \in Injection(S, Entries(p))
    BY <2>1, <2>2 DEF Injection, IsInjective
  <2> HIDE DEF f
  <2>4. IsFiniteSet(S) /\ Cardinality(S) <= Cardinality(Entries(p))
    BY <2>3, EntriesFinite, FS_Injection
  <2>5. Cardinality(S) \in Nat
    BY <2>4, FS_CardinalityType
  <2> HIDE DEF S
  <2>6. Cardinality(S) <= Limit[p]
    BY <1>1, <2>4, <2>5, EntriesFinite, GatewayAssumption DEF EntryInv, EntriesCounted, TypeInv, TypeOK
  <2> QED BY <2>6 DEF S
<1> QED BY <1>1, SlotsInvariant, PTL

-----------------------------------------------------------------------------
(* No lost wake-up.  A release wakes one waiter and not all that could use the *)
(* slot, so "nobody waits for a free slot" does not survive the release: until *)
(* the woken handler has run, others wait for the slot it is about to take.    *)
(* The invariant names that handler.                                           *)

\* A release is the only way a slot opens: no cooldown, operator or reconciler
\* opens one.  A waiter connects to what it was woken for: the provider applies its
\* proxy, and a read-only waiter is not offered more when it retries.
OnlyReleasesOpen ==
  /\ Coolable = {} /\ Managed = {} /\ Outliving = {}
  /\ \A r \in Requests : Serves[r] \subseteq ProxyOk[r]
  /\ \A r \in ReadOnly : Serves[r] = Providers

\* A handler that runs next and takes a slot of p, and of nothing else.
Committed(w, p) ==
  \/ pc[w] = "woken" /\ QueueCandidates(w, active) = {p}
  \/ pc[w] = "trying" /\ cands[w] = {p} /\ p \in ProxyOk[w]

\* A slot somebody waits for is the only free one of its provider, and spoken for.
SpokenFor ==
  \A r \in Requests : pc[r] = "queued" =>
    \A p \in QueueCandidates(r, active) : /\ Limit[p] = active[p] + 1
                                          /\ \E w \in Requests : Committed(w, p)

WakeInv ==
  /\ cooling = {}
  /\ \A p \in Providers : status[p] = "enabled"
  /\ SpokenFor

\* What can be used, once every provider is enabled and none cools down.
LEMMA CandidatesAreFree ==
  ASSUME TypeInv, WakeInv, NEW r \in Requests, NEW act
  PROVE  QueueCandidates(r, act) =
           {p \in Serves[r] : Pin[r] \in {None, p} /\ HasFreeSlot(p, act)}
BY GatewayAssumption DEF WakeInv, QueueCandidates, Candidates

\* When all have settled nobody waits for a free slot.
LEMMA SettledMeansServed ==
  ASSUME WakeInv, Settled, NEW r \in Requests, pc[r] = "queued"
  PROVE  QueueCandidates(r, active) = {}
BY DEF WakeInv, SpokenFor, Settled, Committed, Runnable

\* A step of r that opens no slot and queues r only if there is nothing for it.
LEMMA WakeUntouched ==
  ASSUME TypeInv, WakeInv, NEW r \in Requests,
         active' = active, cooling' = cooling, status' = status,
         \A q \in Requests \ {r} : pc'[q] = pc[q] /\ cands'[q] = cands[q],
         pc'[r] = "queued" => pc[r] = "queued" \/ QueueCandidates(r, active) = {},
         \A p \in Providers : HasFreeSlot(p, active) /\ Committed(r, p) => Committed(r, p)'
  PROVE  WakeInv'
<1>1. \A q \in Requests : QueueCandidates(q, active)' = QueueCandidates(q, active)
  BY DEF QueueCandidates, Candidates
<1>2. \A q \in Requests \ {r} : \A p : Committed(q, p) => Committed(q, p)'
  BY <1>1 DEF Committed
<1>3. ASSUME NEW q \in Requests, pc'[q] = "queued", NEW p \in QueueCandidates(q, active)
      PROVE  Limit[p] = active[p] + 1 /\ \E w \in Requests : Committed(w, p)'
  <2>1. pc[q] = "queued"
    BY <1>3
  <2>2. Limit[p] = active[p] + 1
    BY <1>3, <2>1 DEF WakeInv, SpokenFor
  <2>3. PICK w \in Requests : Committed(w, p)
    BY <1>3, <2>1 DEF WakeInv, SpokenFor
  <2>4. p \in Providers /\ HasFreeSlot(p, active)
    BY <1>3, GatewayAssumption DEF QueueCandidates, Candidates
  <2> QED BY <1>2, <2>2, <2>3, <2>4
<1>4. SpokenFor'
  BY <1>1, <1>3 DEF SpokenFor
<1> QED BY <1>4 DEF WakeInv

\* acquire: the slot that is taken is the one it was spoken for, or another.
LEMMA AcquireKeepsWake ==
  ASSUME TypeInv, WakeInv, NEW r \in Requests, NEW s \in Sids, NEW p \in Providers,
         AcquireSlot(s, p), cooling' = cooling, status' = status, pc'[r] # "queued",
         \A q \in Requests \ {r} : pc'[q] = pc[q] /\ cands'[q] = cands[q],
         \A b \in Providers : Committed(r, b) => b = p
  PROVE  WakeInv'
<1>1. \A b \in Providers : /\ active'[b] = IF b = p THEN active[p] + 1 ELSE active[b]
                           /\ active[b] \in Nat /\ Limit[b] \in Nat
  BY GatewayAssumption DEF AcquireSlot, TypeInv, TypeOK
<1>2. \A b \in Providers : HasFreeSlot(b, active') => HasFreeSlot(b, active)
  BY <1>1 DEF HasFreeSlot
<1>3. ASSUME NEW q \in Requests
      PROVE  /\ QueueCandidates(q, active)' \subseteq QueueCandidates(q, active)
             /\ \A b \in QueueCandidates(q, active) :
                  b # p => b \in QueueCandidates(q, active)'
             /\ QueueCandidates(q, active) \subseteq Providers
  <2>1. QueueCandidates(q, active) =
          {b \in Serves[q] : Pin[q] \in {None, b} /\ HasFreeSlot(b, active)}
    BY CandidatesAreFree
  <2>2. QueueCandidates(q, active)' =
          {b \in Serves[q] : Pin[q] \in {None, b} /\ HasFreeSlot(b, active')}
    BY GatewayAssumption DEF WakeInv, QueueCandidates, Candidates, HasFreeSlot
  <2>3. \A b \in Providers : b # p => (HasFreeSlot(b, active') <=> HasFreeSlot(b, active))
    BY <1>1 DEF HasFreeSlot
  <2> QED BY <1>2, <2>1, <2>2, <2>3, GatewayAssumption
<1>4. ASSUME NEW q \in Requests, pc'[q] = "queued", NEW b \in QueueCandidates(q, active)'
      PROVE  Limit[b] = active'[b] + 1 /\ \E w \in Requests : Committed(w, b)'
  <2>1. pc[q] = "queued" /\ b \in QueueCandidates(q, active) /\ b \in Providers
    BY <1>3, <1>4
  <2>2. Limit[b] = active[b] + 1
    BY <2>1 DEF WakeInv, SpokenFor
  <2>3. HasFreeSlot(b, active')
    BY <1>4 DEF QueueCandidates, Candidates, HasFreeSlot
  <2>4. b # p
    BY <1>1, <2>1, <2>2, <2>3 DEF HasFreeSlot
  <2>5. PICK w \in Requests : Committed(w, b)
    BY <2>1 DEF WakeInv, SpokenFor
  <2>6. w # r
    BY <2>1, <2>4, <2>5
  <2>7. Committed(w, b)'
    <3>1. CASE pc[w] = "woken" /\ QueueCandidates(w, active) = {b}
      <4>1. QueueCandidates(w, active)' = {b}
        BY <1>3, <2>4, <3>1
      <4> QED BY <2>6, <3>1, <4>1 DEF Committed
    <3>2. CASE pc[w] = "trying" /\ cands[w] = {b} /\ b \in ProxyOk[w]
      BY <2>6, <3>2 DEF Committed
    <3> QED BY <2>5, <3>1, <3>2 DEF Committed
  <2> QED BY <1>1, <2>1, <2>2, <2>4, <2>7
<1>5. SpokenFor'
  BY <1>4 DEF SpokenFor
<1> QED BY <1>5 DEF WakeInv

\* release: the waiter that is woken is committed to the slot that was freed,
\* because nobody could use any other.
LEMMA ReleaseKeepsWake ==
  ASSUME TypeInv, CountInv, WakeInv, Settled, NEW r \in Requests, at[r] \in Providers,
         pc[r] \in Holding, NEW next \in {"trying", "routing", "ended"}, ReleaseSlot(r, next),
         cooling' = cooling, status' = status
  PROVE  WakeInv'
<1> DEFINE p == at[r]
           act == Released(sid[r], at[r])
<1>1. /\ pc'[r] = next
      /\ \A q \in Requests \ {r} : pc'[q] = pc[q] \/ (pc'[q] = "woken" /\ pc[q] = "queued")
  BY ReleaseSlotType
<1>2. active' = act
      /\ \/ Wakeable(act) = {}
         \/ \E i \in Wakeable(act) : pc' = [pc EXCEPT ![r] = next, ![queue[i]] = "woken"]
  BY DEF ReleaseSlot, WakeInv
<1>3. \A b \in Providers : /\ active[b] \in Nat /\ active'[b] \in Nat /\ Limit[b] \in Nat
                           /\ b # p => active'[b] = active[b]
                           /\ active'[p] \in {active[p], active[p] - 1}
                           /\ Limit[b] # 0 => active[b] <= Limit[b]
  <2>1. active' = active \/ active' = [active EXCEPT ![p] = IF @ = 0 THEN 0 ELSE @ - 1]
    BY <1>2 DEF Released
  <2> QED BY <2>1, GatewayAssumption DEF TypeInv, TypeOK, CountInv
<1> HIDE DEF p, act
<1>4. ASSUME NEW q \in Requests, pc[q] = "queued", NEW b \in QueueCandidates(q, act)
      PROVE  b = p /\ Limit[p] = active'[p] + 1
  <2>1. b \in Providers /\ b \in Serves[q] /\ Pin[q] \in {None, b} /\ HasFreeSlot(b, active')
    BY <1>2, <1>4, CandidatesAreFree, GatewayAssumption
  <2>2. QueueCandidates(q, active) = {}
    BY <1>4, SettledMeansServed
  <2>3. ~HasFreeSlot(b, active)
    BY <2>1, <2>2, CandidatesAreFree
  <2> QED BY <1>3, <2>1, <2>3 DEF HasFreeSlot
<1>5. \A q \in Requests : QueueCandidates(q, active)' = QueueCandidates(q, act)
  BY <1>2 DEF QueueCandidates, Candidates
<1>6. \A q \in Requests : pc[q] = "queued" <=> \E i \in DOMAIN queue : q = queue[i]
  BY DEF TypeInv, QueueMatchesWaiters, ToSet
<1>7. \A q \in Requests : pc'[q] = "queued" => pc[q] = "queued"
  BY <1>1
<1>8. CASE Wakeable(act) = {}
  <2>1. \A q \in Requests : pc'[q] = "queued" => QueueCandidates(q, act) = {}
    BY <1>6, <1>7, <1>8 DEF Wakeable
  <2>2. SpokenFor'
    BY <1>5, <2>1 DEF SpokenFor
  <2> QED BY <2>2 DEF WakeInv
<1>9. ASSUME NEW i \in Wakeable(act), pc' = [pc EXCEPT ![r] = next, ![queue[i]] = "woken"]
      PROVE  WakeInv'
  <2> DEFINE w == queue[i]
  <2>1. i \in DOMAIN queue /\ w \in Requests /\ QueueCandidates(w, act) # {}
    BY DEF Wakeable, TypeInv, TypeOK
  <2>2. pc[w] = "queued" /\ w # r
    BY <1>6, <2>1 DEF Holding
  <2>3. pc'[w] = "woken"
    BY <1>9, <2>1, <2>2 DEF TypeInv, TypeOK
  <2> HIDE DEF w
  <2>4. QueueCandidates(w, act) = {p}
    BY <1>4, <2>1, <2>2
  <2>5. p \in Providers
    BY DEF p
  <2>6. PICK c \in Requests, d \in Providers : c = w /\ d = p
    BY <2>1, <2>5
  <2>7. Committed(c, d)'
    BY <1>5, <2>3, <2>4, <2>6 DEF Committed
  <2>8. ASSUME NEW q \in Requests, pc'[q] = "queued", NEW b \in QueueCandidates(q, active)'
        PROVE  Limit[b] = active'[b] + 1 /\ \E x \in Requests : Committed(x, b)'
    <3>1. b \in QueueCandidates(q, act) /\ pc[q] = "queued"
      BY <1>5, <1>7, <2>8
    <3>2. b = d /\ Limit[b] = active'[b] + 1
      BY <1>4, <2>6, <3>1
    <3> QED BY <2>7, <3>2
  <2>9. SpokenFor'
    BY <2>8 DEF SpokenFor
  <2> QED BY <2>9 DEF WakeInv
<1> QED BY <1>2, <1>8, <1>9

\* Every step of a handler keeps it.
LEMMA HandleKeepsWake ==
  ASSUME OnlyReleasesOpen, TypeInv, CountInv, WakeInv, NEW r \in Requests, Handle(r)
  PROVE  WakeInv'
<1> USE DEF registryVars, slotVars, handlerVars
<1>1. CASE \/ ArriveAtShutdown(r) \/ Arrive(r) \/ RefusePin(r) \/ Route(r) \/ ExhaustCandidates(r)
           \/ WaitForSlot(r) \/ QueueTimeout(r) \/ ConnectUp(r) \/ Age(r)
  <2>1. /\ active' = active /\ cooling' = cooling /\ status' = status
        /\ \A q \in Requests \ {r} : pc'[q] = pc[q] /\ cands'[q] = cands[q]
    BY <1>1 DEF ArriveAtShutdown, Arrive, RefusePin, Route, ExhaustCandidates, WaitForSlot,
                QueueTimeout, ConnectUp, Age, TypeInv, TypeOK
  <2>2. pc'[r] = "queued" => pc[r] = "queued" \/ QueueCandidates(r, active) = {}
    BY <1>1 DEF ArriveAtShutdown, Arrive, RefusePin, Route, ExhaustCandidates, WaitForSlot,
                QueueTimeout, ConnectUp, Age, TypeInv, TypeOK
  <2>3. \A p : ~Committed(r, p)
    BY <1>1 DEF ArriveAtShutdown, Arrive, RefusePin, Route, ExhaustCandidates, WaitForSlot,
                QueueTimeout, ConnectUp, Age, Committed
  <2> QED BY <2>1, <2>2, <2>3, WakeUntouched
<1>2. CASE ArriveToReconnect(r)
  <2>1. /\ ReconnectId(r) \in Sids /\ parked[ReconnectId(r)] \in Providers
    BY <1>2, GatewayAssumption DEF ArriveToReconnect, Parked, ReconnectId, Sids, TypeInv, TypeOK
  <2>2. /\ AcquireSlot(ReconnectId(r), parked[ReconnectId(r)])
        /\ cooling' = cooling /\ status' = status /\ pc'[r] # "queued"
        /\ \A q \in Requests \ {r} : pc'[q] = pc[q] /\ cands'[q] = cands[q]
    BY <1>2 DEF ArriveToReconnect, TypeInv, TypeOK
  <2>3. \A b : ~Committed(r, b)
    BY <1>2 DEF ArriveToReconnect, Committed
  <2> QED BY <2>1, <2>2, <2>3, AcquireKeepsWake
<1>3. CASE TryCandidate(r)
  <2>1. PICK p \in cands[r] :
          /\ cands' = [cands EXCEPT ![r] = @ \ {p}]
          /\ IF p \in ProxyOk[r] /\ CanAcquire(p)
             THEN /\ AcquireSlot(sid[r], p)
                  /\ at' = [at EXCEPT ![r] = p]
                  /\ pc' = [pc EXCEPT ![r] = "connecting"]
             ELSE UNCHANGED <<slotVars, at, pc>>
    BY <1>3 DEF TryCandidate
  <2>2. /\ pc[r] = "trying" /\ p \in Providers /\ sid[r] \in Sids
        /\ cooling' = cooling /\ status' = status
    BY <1>3, <2>1 DEF TryCandidate, TypeInv, TypeOK, SidChosen
  <2>3. \A b : Committed(r, b) => b = p /\ p \in ProxyOk[r]
    BY <2>1, <2>2 DEF Committed
  <2>4. CASE p \in ProxyOk[r] /\ CanAcquire(p)
    <3>1. /\ pc'[r] # "queued"
          /\ \A q \in Requests \ {r} : pc'[q] = pc[q] /\ cands'[q] = cands[q]
      BY <2>1, <2>4 DEF TypeInv, TypeOK
    <3> QED BY <2>1, <2>2, <2>3, <2>4, <3>1, AcquireKeepsWake
  <2>5. CASE ~(p \in ProxyOk[r] /\ CanAcquire(p))
    <3>1. /\ active' = active /\ pc' = pc
          /\ \A q \in Requests \ {r} : pc'[q] = pc[q] /\ cands'[q] = cands[q]
      BY <2>1, <2>5 DEF TypeInv, TypeOK
    <3>2. \A b \in Providers : ~(HasFreeSlot(b, active) /\ Committed(r, b))
      BY <2>2, <2>3, <2>5 DEF CanAcquire, WakeInv
    <3> QED BY <2>2, <3>1, <3>2, WakeUntouched
  <2> QED BY <2>4, <2>5
<1>4. CASE Retry(r)
  <2>1. /\ pc[r] = "woken" /\ pc'[r] = "trying" /\ cands'[r] = ConnectCandidates(r)
        /\ active' = active /\ cooling' = cooling /\ status' = status
        /\ \A q \in Requests \ {r} : pc'[q] = pc[q] /\ cands'[q] = cands[q]
    BY <1>4 DEF Retry, TypeInv, TypeOK
  <2>2. ConnectCandidates(r) = QueueCandidates(r, active)
    BY DEF ConnectCandidates, QueueCandidates, OnlyReleasesOpen
  <2>3. \A p \in QueueCandidates(r, active) : p \in ProxyOk[r]
    BY DEF QueueCandidates, Candidates, OnlyReleasesOpen
  <2>4. \A p \in Providers : Committed(r, p) => Committed(r, p)'
    BY <2>1, <2>2, <2>3 DEF Committed
  <2> QED BY <2>1, <2>4, WakeUntouched
<1>5. CASE ConnectFails(r)
  <2> DEFINE next == IF pc[r] = "connecting" THEN "trying" ELSE "routing"
  <2>1. /\ at[r] \in Providers /\ next \in {"trying", "routing", "ended"} /\ Settled
        /\ ReleaseSlot(r, next) /\ pc[r] \in Holding /\ status' = status /\ cooling' = cooling
    BY <1>5 DEF ConnectFails, TypeInv, HolderHasProvider, Holding, RecordFailure, OnlyReleasesOpen
  <2> HIDE DEF next
  <2> QED BY <2>1, ReleaseKeepsWake
<1>6. CASE SessionEnds(r)
  <2>1. /\ at[r] \in Providers /\ ReleaseSlot(r, "ended") /\ Settled
        /\ pc[r] \in Holding /\ status' = status /\ cooling' = cooling
    BY <1>6 DEF SessionEnds, TypeInv, HolderHasProvider, Holding
  <2> QED BY <2>1, ReleaseKeepsWake
<1> QED
  BY <1>1, <1>2, <1>3, <1>4, <1>5, <1>6 DEF Handle, Continue, Answer

\* Initially, and at every step.
LEMMA StepKeepsWake ==
  ASSUME OnlyReleasesOpen
  PROVE  /\ Init => WakeInv
         /\ TypeInv /\ CountInv /\ WakeInv /\ [Next]_vars => WakeInv'
<1>1. Init => WakeInv
  BY DEF Init, WakeInv, SpokenFor, OnlyReleasesOpen
<1>2. ASSUME TypeInv, CountInv, WakeInv, [Next]_vars PROVE WakeInv'
  <2> USE DEF registryVars, slotVars, handlerVars
  <2>1. ASSUME NEW r \in Requests, Handle(r) PROVE WakeInv'
    BY <1>2, <2>1, HandleKeepsWake
  <2>2. CASE BeginShutdown
    <3>1. \A r \in ToSet(queue) : pc[r] = "queued"
      BY <1>2 DEF TypeInv, QueueMatchesWaiters
    <3>2. \A r \in Requests : pc'[r] # "queued"
      BY <1>2, <2>2 DEF BeginShutdown, TypeInv, QueueMatchesWaiters
    <3>3. SpokenFor'
      BY <3>2 DEF SpokenFor
    <3> QED BY <1>2, <2>2, <3>3 DEF BeginShutdown, WakeInv
  <2>3. ~(\E p \in Providers : Administer(p) \/ CooldownExpires(p)) /\ ~Reconcile
    BY <1>2 DEF Administer, SetEnabled, DeleteProvider, AddProvider, CooldownExpires, Reconcile,
                WakeInv, CountInv, OnlyReleasesOpen
  <2>4. CASE (\E s \in Sids : ParkedExpires(s)) \/ EndDrain \/ UNCHANGED vars
    <3>1. /\ active' = active /\ cooling' = cooling /\ status' = status
          /\ pc' = pc /\ cands' = cands
      BY <2>4 DEF ParkedExpires, EndDrain, vars
    <3>2. SpokenFor'
      BY <1>2, <3>1 DEF WakeInv, SpokenFor, Committed, QueueCandidates, Candidates
    <3> QED BY <1>2, <3>1, <3>2 DEF WakeInv
  <2> QED BY <1>2, <2>1, <2>2, <2>3, <2>4 DEF Next
<1> QED BY <1>1, <1>2

\* Once the handlers have settled nobody waits in the queue for a slot that is free,
\* for any number of providers, slots and waiters and any pins: dequeueNext, which
\* wakes only the first waiter it finds a candidate for, loses no wake-up as long as
\* slots open by releases only.
THEOREM NoWakeUpIsLost ==
  ASSUME OnlyReleasesOpen
  PROVE  Spec => []NoStrandedWaiter
<1>1. ASSUME TypeInv, WakeInv PROVE NoStrandedWaiter
  BY <1>1, SettledMeansServed DEF NoStrandedWaiter, TypeInv, QueueMatchesWaiters
<1>2. Outliving = {}
  BY DEF OnlyReleasesOpen
<1>3. Init => WakeInv
  BY StepKeepsWake
<1>4. TypeInv /\ CountInv /\ WakeInv /\ [Next]_vars => TypeInv' /\ CountInv' /\ WakeInv'
  BY <1>2, StepKeepsTypes, StepKeepsCount, StepKeepsWake
<1> QED BY <1>1, <1>3, <1>4, InitTypes, InitCount, PTL DEF Spec
=============================================================================
