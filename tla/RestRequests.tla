----------------------------- MODULE RestRequests -----------------------------
(***************************************************************************)
(* The REST requests (server/rest): the gates, the way a request is served *)
(* -- over a page of the pool, with retries, or once with a profile over   *)
(* the providers one after the other --, what it holds on that way, and    *)
(* the answer.  The pool's inside is SessionPool's; a proxied request with *)
(* a profile takes a page of its own, which saves the profile as it ends.  *)
(* The server hands the handlers a Request without a signal                *)
(* (index.ts:428), so the looks at options.signal never find it aborted.   *)
(***************************************************************************)
EXTENDS Naturals, FiniteSets

CONSTANTS Reqs, Backends,
          Nobody,
          Room,          \* slots of a backend
          Retries        \* body.retries of a request without a profile

\* The schema of a body takes a whole number of retries (rest-schemas/index.ts:39).
ASSUME RestAssumption == Nobody \notin Reqs /\ Retries \in Nat

VARIABLES
  ask,        \* the body: profile, proxy and provider pin
  rest,       \* how far each request is
  profileLock,       \* who holds the profile: a request, or a pooled session it left
  slots,      \* requests that hold a slot of each backend
  page,       \* the connection a request has to a browser
  status,     \* the answer, 0 before it
  acted,      \* the action came to its end
  runs,       \* page runs begun for a request
  saves       \* times the profile was saved for it

restVars == <<ask, rest, profileLock, slots, page, status, acted, runs, saves>>

Fresh == [at |-> "new", attempt |-> 1, on |-> Nobody, untried |-> {}, error |-> "none"]

RestInit ==
  /\ ask \in [Reqs -> [profile : BOOLEAN, proxied : BOOLEAN, pinned : BOOLEAN]]
  /\ rest = [r \in Reqs |-> Fresh]
  /\ profileLock = Nobody
  /\ slots = [b \in Backends |-> {}]
  /\ page = [r \in Reqs |-> FALSE]
  /\ status = [r \in Reqs |-> 0]
  /\ acted = [r \in Reqs |-> FALSE]
  /\ runs = [r \in Reqs |-> 0] /\ saves = [r \in Reqs |-> 0]

At(r, step) == rest[r].at = step
Moves(r, step) == rest' = [rest EXCEPT ![r].at = step]
Answers(r, code) == status' = [status EXCEPT ![r] = code] /\ Moves(r, "over")
OfPool(r) == ask[r].proxied \/ ~ask[r].profile
\* withProfilePage and a proxied profile try once.
MaxAttempts(r) == IF ask[r].profile THEN 1 ELSE Retries + 1
\* Only withBrowserPage answers that the providers were unavailable.
FinalStatus(error) == CASE error = "timeout" -> 408 [] error = "unavailable" -> 503 [] OTHER -> 500

----------------------------------------------------------------------------
(* Gates and dispatch *)

Refuses(r, code) ==
  /\ At(r, "new") /\ Answers(r, code)
  /\ UNCHANGED <<ask, profileLock, slots, page, acted, saves, runs>>

\* The target is unsafe or the body invalid; no provider is up, or the gateway stops.
GateRefuses(r) == Refuses(r, 400) \/ Refuses(r, 503)

\* The pinned provider is not configured, or cannot serve a profile.
PinRefuses(r) == ask[r].pinned /\ Refuses(r, 400)

\* The proxy is unknown, or the pinned provider cannot serve it.
ProxyRefuses(r) == ask[r].proxied /\ (Refuses(r, 400) \/ Refuses(r, 503))

DispatchToPool(r) ==
  /\ At(r, "new") /\ OfPool(r) /\ Moves(r, "attempt")
  /\ UNCHANGED <<ask, profileLock, slots, page, status, acted, saves, runs>>

\* lifecycle.acquire: 409 while another has the lock; a profile that cannot be read
\* is unlocked again before the answer.
DispatchToProfile(r) ==
  /\ At(r, "new") /\ ~OfPool(r)
  /\ IF profileLock # Nobody
     THEN Answers(r, 409) /\ UNCHANGED profileLock
     ELSE profileLock' = r /\ Moves(r, "loading") /\ UNCHANGED status
  /\ UNCHANGED <<ask, slots, page, acted, saves, runs>>

\* selectProviderWithFallbacks offers any set of backends; a pinned request has one.
Loaded(r, candidates) ==
  /\ At(r, "loading")
  /\ ask[r].pinned => Cardinality(candidates) <= 1
  /\ IF candidates = {}
     THEN profileLock' = Nobody /\ Answers(r, 503)
     ELSE /\ rest' = [rest EXCEPT ![r].at = "choose", ![r].untried = candidates]
          /\ UNCHANGED <<profileLock, status>>
  /\ UNCHANGED <<ask, slots, page, acted, saves, runs>>

LoadFails(r) ==
  /\ At(r, "loading") /\ profileLock' = Nobody /\ Answers(r, 500)
  /\ UNCHANGED <<ask, slots, page, acted, saves, runs>>

----------------------------------------------------------------------------
(* withProfilePage *)

\* The next candidate: one without room is passed over.
Choose(r, b) ==
  /\ At(r, "choose") /\ b \in rest[r].untried
  /\ IF Cardinality(slots[b]) < Room
     THEN /\ slots' = [slots EXCEPT ![b] = @ \cup {r}]
          /\ rest' = [rest EXCEPT ![r].at = "inject", ![r].on = b, ![r].untried = @ \ {b}]
     ELSE /\ rest' = [rest EXCEPT ![r].untried = @ \ {b}]
          /\ UNCHANGED slots
  /\ UNCHANGED <<ask, profileLock, page, status, acted, saves, runs>>

\* No candidate remains.
GiveUp(r) ==
  /\ At(r, "choose") /\ rest[r].untried = {}
  /\ profileLock' = Nobody /\ Answers(r, FinalStatus(rest[r].error))
  /\ UNCHANGED <<ask, slots, page, acted, saves, runs>>

\* Only a failed injection goes on to the next backend.  The slot is released here
\* and in the finally block; the second time finds no entry.
InjectFails(r, error) ==
  /\ At(r, "inject")
  /\ slots' = [slots EXCEPT ![rest[r].on] = @ \ {r}]
  /\ rest' = [rest EXCEPT ![r].at = "choose", ![r].on = Nobody, ![r].error = error]
  /\ UNCHANGED <<ask, profileLock, page, status, acted, saves, runs>>

Inject(r) ==
  /\ At(r, "inject") /\ Moves(r, "connect")
  /\ UNCHANGED <<ask, profileLock, slots, page, status, acted, saves, runs>>

BeginRun(r) ==
  /\ page' = [page EXCEPT ![r] = TRUE]
  /\ runs' = [runs EXCEPT ![r] = @ + 1]

ConnectTo(r) ==
  /\ At(r, "connect") /\ Moves(r, "run") /\ BeginRun(r)
  /\ UNCHANGED <<ask, profileLock, slots, status, acted, saves>>

\* The catch block: the lock goes back without a save, then the finally block.  The
\* websocket url, the connection and the page end here too, with no other backend.
Fails(r, error) ==
  /\ At(r, "inject") \/ At(r, "connect") \/ (At(r, "run") /\ ~OfPool(r))
  /\ profileLock' = Nobody
  /\ rest' = [rest EXCEPT ![r].at = "leave", ![r].error = error]
  /\ UNCHANGED <<ask, slots, page, status, acted, saves, runs>>

Acts(r) ==
  /\ At(r, "run") /\ acted' = [acted EXCEPT ![r] = TRUE]
  /\ Moves(r, IF OfPool(r) THEN "release" ELSE "commit")
  /\ UNCHANGED <<ask, profileLock, slots, page, status, saves, runs>>

\* commit never throws and always unlocks; what it captured may be refused.
Commit(r, stored) ==
  /\ At(r, "commit")
  /\ saves' = [saves EXCEPT ![r] = IF stored THEN @ + 1 ELSE @]
  /\ profileLock' = Nobody
  /\ Moves(r, "leave")
  /\ UNCHANGED <<ask, slots, page, status, acted, runs>>

\* The finally block, then the result of the action or the error.
Leave(r) ==
  /\ At(r, "leave")
  /\ page' = [page EXCEPT ![r] = FALSE]
  /\ slots' = [slots EXCEPT ![rest[r].on] = @ \ {r}]
  /\ Answers(r, IF acted[r] THEN 200 ELSE FinalStatus(rest[r].error))
  /\ UNCHANGED <<ask, profileLock, acted, saves, runs>>

----------------------------------------------------------------------------
(* withBrowserPage *)

BeginAttempt(r) ==
  /\ At(r, "attempt") /\ Moves(r, "open")
  /\ UNCHANGED <<ask, profileLock, slots, page, status, acted, saves, runs>>

\* A page of the pool, or a connection of its own, which takes the profile's lock.
Opens(r) ==
  /\ At(r, "open") /\ Moves(r, "run") /\ BeginRun(r)
  /\ ask[r].profile => profileLock = Nobody
  /\ profileLock' = IF ask[r].profile THEN r ELSE profileLock
  /\ UNCHANGED <<ask, slots, status, acted, saves>>

MayRetry(r) == rest[r].attempt < MaxAttempts(r)

\* The gateway's own refusal is final.
OpenFails(r, refused) ==
  /\ At(r, "open")
  /\ IF MayRetry(r) /\ ~refused
     THEN Moves(r, "wait") /\ UNCHANGED status
     ELSE Answers(r, 503)
  /\ UNCHANGED <<ask, profileLock, slots, page, acted, saves, runs>>

RunFails(r, error) ==
  /\ At(r, "run") /\ OfPool(r)
  /\ rest' = [rest EXCEPT ![r].at = "release", ![r].error = error]
  /\ UNCHANGED <<ask, profileLock, slots, page, status, acted, saves, runs>>

\* releasePage, whose failure is swallowed: then the answer, or the wait for the next
\* attempt, after which the same handle is released again.
Release(r) ==
  /\ At(r, "release")
  /\ page' = [page EXCEPT ![r] = FALSE]
  /\ IF acted[r] THEN Answers(r, 200)
     ELSE IF MayRetry(r) /\ rest[r].error # "final" THEN Moves(r, "wait") /\ UNCHANGED status
     ELSE Answers(r, FinalStatus(rest[r].error))
  /\ UNCHANGED <<ask, profileLock, slots, acted, saves, runs>>

Waited(r) ==
  /\ At(r, "wait")
  /\ rest' = [rest EXCEPT ![r].at = "attempt", ![r].attempt = @ + 1]
  /\ UNCHANGED <<ask, profileLock, slots, page, status, acted, saves, runs>>

\* The proxied session saves its profile after its page is gone, acted or not.
SessionEnds(r, stored) ==
  /\ profileLock = r /\ ask[r].proxied /\ ~page[r]
  /\ profileLock' = Nobody
  /\ saves' = [saves EXCEPT ![r] = IF stored THEN @ + 1 ELSE @]
  /\ UNCHANGED <<ask, rest, slots, page, status, acted, runs>>

RestNext ==
  \E r \in Reqs :
       \/ GateRefuses(r) \/ PinRefuses(r) \/ ProxyRefuses(r)
       \/ DispatchToPool(r) \/ DispatchToProfile(r) \/ LoadFails(r)
       \/ \E candidates \in SUBSET Backends : Loaded(r, candidates)
       \/ \E b \in Backends : Choose(r, b)
       \/ GiveUp(r) \/ Inject(r) \/ ConnectTo(r) \/ Acts(r) \/ Leave(r)
       \/ \E error \in {"timeout", "other"} : InjectFails(r, error) \/ Fails(r, error)
       \/ \E error \in {"timeout", "unavailable", "other", "final"} : RunFails(r, error)
       \/ \E stored \in BOOLEAN : Commit(r, stored) \/ SessionEnds(r, stored)
       \/ BeginAttempt(r) \/ Opens(r) \/ Release(r) \/ Waited(r)
       \/ \E refused \in BOOLEAN : OpenFails(r, refused)

RestSpec == RestInit /\ [][RestNext]_restVars /\ WF_restVars(RestNext)

----------------------------------------------------------------------------
(* Properties *)

\* A request that has its answer holds nothing: no slot, no connection, and no lock
\* but that of a proxied session that is still saving.
AnsweredHoldsNothing ==
  \A r \in Reqs : status[r] # 0 =>
    /\ ~page[r] /\ \A b \in Backends : r \notin slots[b]
    /\ profileLock = r => ask[r].profile /\ ask[r].proxied

\* While a request works on the profile it has the lock, from its load to its save,
\* on one page run at most: so no two do, nothing is saved twice ("Retrying could
\* double-commit state", profile-executor.ts:23), and what a failed request did
\* half is not saved (155).
WorksUnderLock ==
  \A r \in Reqs : ask[r].profile =>
    /\ rest[r].at \in {"loading", "choose", "inject", "connect", "run", "commit"} => profileLock = r
    /\ runs[r] <= 1 /\ saves[r] <= 1
    /\ ~ask[r].proxied /\ saves[r] > 0 => acted[r]

RestSound == AnsweredHoldsNothing /\ WorksUnderLock

\* Every request has its answer, and the profile is free again in the end.
RestOver == (\A r \in Reqs : status[r] # 0) /\ profileLock = Nobody
RestSettles == <>[]RestOver
=============================================================================
