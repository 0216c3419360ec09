---------------------------- MODULE ProfileProofs ----------------------------
(***************************************************************************)
(* Proofs about ProfileSessions, for sessions whose upstream stays up      *)
(* while the plugins start (or that only read): the lock is held from the  *)
(* load to the end of the save; with a fragile start the plugins' finalize *)
(* releases it before the next attempt.  And about ProfileStore: the       *)
(* directory keeps its key and what was stored with it, for any clients    *)
(* and bounds, wherever the process dies.                                  *)
(***************************************************************************)
EXTENDS ProfileSessions, ProfileStore, TLAPS

Sturdy == FragileStart \subseteq ReadOnly

Connected == {"loading", "routing", "starting", "live"}

\* A handler that may save holds the lock from the load to the session's end.
HandlerHolds ==
  \A s \in Sessions \ ReadOnly : pc[s] \in Connected => held[Profile[s]] = s

\* Then the save of its last attempt holds it, and no other save is in flight.
SaverHolds ==
  \A s \in Sessions : \A n \in AttemptsOf(s) :
    save[s][n] \in InFlight =>
      /\ s \notin ReadOnly /\ n = turn[s]
      /\ pc[s] \in {"ending", "ended"}
      /\ held[Profile[s]] = s

\* Until it is saved, the state a session loaded is the one that is stored.
LoadedIsCurrent ==
  \A s \in Sessions \ ReadOnly :
    (\/ pc[s] \in {"routing", "starting", "live"}
     \/ \E n \in AttemptsOf(s) : save[s][n] \in {"polling", "capturing", "writing"})
    => loaded[s] = blob[Profile[s]].version

\* A session that is being connected has begun an attempt.
AttemptBegun ==
  \A s \in Sessions : pc[s] \in {"starting", "live"} => turn[s] \in AttemptsOf(s)

IInv == TypeOK /\ HandlerHolds /\ SaverHolds /\ LoadedIsCurrent /\ AttemptBegun

-----------------------------------------------------------------------------
(* The helpers. *)

\* Attempts are numbered, and every session has a profile.
LEMMA SessionFacts ==
  \A s \in Sessions :
    /\ Profile[s] \in Profiles /\ s # None
    /\ Len(Paths[s]) \in Nat
    /\ \A n \in Nat : n \in AttemptsOf(s) <=> n >= 1 /\ n <= Len(Paths[s])
    /\ AttemptsOf(s) \subseteq Nat
  <1> SUFFICES ASSUME NEW s \in Sessions
               PROVE  /\ Profile[s] \in Profiles /\ s # None
                      /\ Len(Paths[s]) \in Nat
                      /\ \A n \in Nat : n \in AttemptsOf(s) <=> n >= 1 /\ n <= Len(Paths[s])
                      /\ AttemptsOf(s) \subseteq Nat
    OBVIOUS
  <1>1. Paths[s] \in Seq(Kinds) BY ProfileAssumption
  <1>2. Profile[s] \in Profiles /\ s # None BY ProfileAssumption
  <1> QED BY <1>1, <1>2 DEF AttemptsOf

\* Unlock takes the lock of s away from s, and touches no other.
LEMMA UnlockEffect ==
  ASSUME NEW s \in Sessions, held \in [Profiles -> Sessions \cup {None}], Unlock(s)
  PROVE  /\ held' \in [Profiles -> Sessions \cup {None}]
         /\ \A p \in Profiles, t \in Sessions : t # s /\ held[p] = t => held'[p] = t
  BY DEF Unlock

\* A handler that moves changes its own place only.
LEMMA GotoEffect ==
  ASSUME TypeOK, NEW s \in Sessions, NEW place, Goto(s, place)
  PROVE  /\ pc'[s] = place
         /\ \A t \in Sessions : t # s => pc'[t] = pc[t]
  BY DEF Goto, TypeOK

\* A step of one save changes the state of that save only.
LEMMA SavingEffect ==
  ASSUME TypeOK, NEW s \in Sessions, NEW n \in AttemptsOf(s), NEW step \in InFlight \cup {"idle", "done"},
         Saving(s, n, step)
  PROVE  /\ save' = [t \in Sessions |-> save'[t]]
         /\ \A t \in Sessions : save'[t] \in [AttemptsOf(t) -> {"idle", "done"} \cup InFlight]
         /\ save'[s][n] = step
         /\ \A t \in Sessions : \A m \in AttemptsOf(t) : t # s \/ m # n => save'[t][m] = save[t][m]
  <1>1. save' = [save EXCEPT ![s] = [save[s] EXCEPT ![n] = step]] BY DEF Saving
  <1>2. save = [t \in Sessions |-> save[t]] /\ \A t \in Sessions : save[t] \in [AttemptsOf(t) -> {"idle", "done"} \cup InFlight]
    BY DEF TypeOK
  <1>3. DOMAIN save = Sessions BY <1>2
  <1>4. save' = [t \in Sessions |-> IF t = s THEN [save[s] EXCEPT ![n] = step] ELSE save[t]]
    BY <1>1, <1>3
  <1>5. /\ save'[s] = [save[s] EXCEPT ![n] = step]
        /\ \A t \in Sessions : t # s => save'[t] = save[t]
    BY <1>4
  <1>6. save' = [t \in Sessions |-> save'[t]] BY <1>4
  <1> QED BY <1>2, <1>5, <1>6

-----------------------------------------------------------------------------
(* Handlers. *)

\* A handler that moves without touching locks, files or saves keeps IInv.
LEMMA MoveKeepsIInv ==
  ASSUME IInv, NEW s \in Sessions,
         \/ Arrive(s) \/ ArriveReadOnly(s) \/ GiveUp(s) \/ RefusePin(s) \/ Begin(s)
         \/ AttemptFails(s) \/ Up(s) \/ Untrack(s)
  PROVE  IInv'
  <1> USE DEF IInv
  <1>1. blob' = blob /\ held' = held /\ save' = save /\ process' = process
    BY DEF Arrive, ArriveReadOnly, GiveUp, RefusePin, Begin, AttemptFails, Up, Untrack,
           storeVars, processVars
  <1>2. \A t \in Sessions : t # s => pc'[t] = pc[t] /\ loaded'[t] = loaded[t] /\ turn'[t] = turn[t]
    BY DEF Arrive, ArriveReadOnly, GiveUp, RefusePin, Begin, AttemptFails, Up, Untrack, Goto, TypeOK
  <1>3. TypeOK'
    <2>1. pc' \in [Sessions -> {"new", "locking", "loading", "routing", "starting", "live",
                                "ending", "ended", "refused", "lost"}]
      BY DEF Arrive, ArriveReadOnly, GiveUp, RefusePin, Begin, AttemptFails, Up, Untrack, Goto, TypeOK
    <2>2. loaded' \in [Sessions -> Nat]
      BY SessionFacts
      DEF Arrive, ArriveReadOnly, GiveUp, RefusePin, Begin, AttemptFails, Up, Untrack, TypeOK
    <2>3. turn' \in [Sessions -> Nat] /\ \A t \in Sessions : turn'[t] <= Len(Paths[t])
      <3>1. CASE turn' = turn BY <3>1 DEF TypeOK
      <3>2. CASE Begin(s) BY <3>2, SessionFacts DEF Begin, TypeOK
      <3> QED BY <3>1, <3>2 DEF Arrive, ArriveReadOnly, GiveUp, RefusePin, AttemptFails, Up, Untrack
    <2> QED BY <1>1, <2>1, <2>2, <2>3 DEF TypeOK
  <1>4. HandlerHolds'
    <2>1. s \notin ReadOnly /\ pc'[s] \in Connected => pc[s] \in Connected
      BY DEF Arrive, ArriveReadOnly, GiveUp, RefusePin, Begin, AttemptFails, Up, Untrack, Goto,
         TypeOK, Connected
    <2> QED BY <1>1, <1>2, <2>1 DEF HandlerHolds
  <1>5. SaverHolds'
    <2>1. pc[s] \in {"ending", "ended"} => pc'[s] = "ended" /\ turn'[s] = turn[s]
      BY DEF Arrive, ArriveReadOnly, GiveUp, RefusePin, Begin, AttemptFails, Up, Untrack, Goto, TypeOK
    <2> QED BY <1>1, <1>2, <2>1 DEF SaverHolds
  <1>6. LoadedIsCurrent'
    <2>1. s \notin ReadOnly => loaded'[s] = loaded[s]
      BY DEF Arrive, ArriveReadOnly, GiveUp, RefusePin, Begin, AttemptFails, Up, Untrack
    <2>2. s \notin ReadOnly /\ pc'[s] \in {"routing", "starting", "live"}
          => pc[s] \in {"routing", "starting", "live"}
      BY DEF Arrive, ArriveReadOnly, GiveUp, RefusePin, Begin, AttemptFails, Up, Untrack, Goto, TypeOK
    <2> QED BY <1>1, <1>2, <2>1, <2>2 DEF LoadedIsCurrent
  <1>7. AttemptBegun'
    <2>1. CASE Begin(s)
      <3>0. turn[s] \in Nat /\ turn[s] < Len(Paths[s]) /\ turn'[s] = turn[s] + 1
        BY <2>1 DEF Begin, TypeOK
      <3>1. turn'[s] \in AttemptsOf(s)
        BY <3>0, SessionFacts
      <3> QED BY <1>2, <3>1 DEF AttemptBegun
    <2>2. CASE ~Begin(s)
      <3>0. turn' = turn
        BY <2>2 DEF Arrive, ArriveReadOnly, GiveUp, RefusePin, AttemptFails, Up, Untrack
      <3>1. turn'[s] = turn[s] /\ (pc'[s] \in {"starting", "live"} => pc[s] \in {"starting", "live"})
        BY <2>2, <3>0
        DEF Arrive, ArriveReadOnly, GiveUp, RefusePin, AttemptFails, Up, Untrack, Goto, TypeOK
      <3> QED BY <1>2, <3>1 DEF AttemptBegun
    <2> QED BY <2>1, <2>2
  <1> QED BY <1>3, <1>4, <1>5, <1>6, <1>7

\* A free lock is nobody's, or a lost session's.
LEMMA LockKeepsIInv ==
  ASSUME IInv, NEW s \in Sessions, Lock(s)
  PROVE  IInv'
  <1> USE DEF IInv
  <1>1. /\ UNCHANGED <<blob, loaded, turn, save, process>>
        /\ pc[s] = "locking" /\ held' = [held EXCEPT ![Profile[s]] = s]
        /\ held[Profile[s]] = None \/ (held[Profile[s]] \in Sessions /\ pc[held[Profile[s]]] = "lost")
    BY DEF Lock, Free, Lost, processVars
  <1>2. /\ pc'[s] = "loading"
        /\ \A t \in Sessions : t # s => pc'[t] = pc[t]
    BY GotoEffect DEF Lock
  <1>3. held' \in [Profiles -> Sessions \cup {None}] /\ held'[Profile[s]] = s
    BY <1>1, SessionFacts DEF TypeOK
  <1>4. \A t \in Sessions : t # s /\ held[Profile[t]] = t /\ pc[t] # "lost" => held'[Profile[t]] = t
    BY <1>1, SessionFacts DEF TypeOK
  <1>5. TypeOK'
    <2>1. pc' \in [Sessions -> {"new", "locking", "loading", "routing", "starting", "live",
                                "ending", "ended", "refused", "lost"}]
      BY DEF Lock, Goto, TypeOK
    <2> QED BY <1>1, <1>3, <2>1 DEF TypeOK
  <1>6. HandlerHolds' BY <1>2, <1>3, <1>4 DEF HandlerHolds, Connected
  <1>7. SaverHolds' BY <1>1, <1>2, <1>4 DEF SaverHolds
  <1>8. LoadedIsCurrent' BY <1>1, <1>2 DEF LoadedIsCurrent
  <1>9. AttemptBegun' BY <1>1, <1>2 DEF AttemptBegun
  <1> QED BY <1>5, <1>6, <1>7, <1>8, <1>9

\* A handler that gives up after the lock saves nothing.
LEMMA RefusalKeepsIInv ==
  ASSUME IInv, NEW s \in Sessions, pc[s] \in Connected, Goto(s, "refused"), Unlock(s),
         UNCHANGED <<blob, loaded, turn, save, processVars>>
  PROVE  IInv'
  <1> USE DEF IInv
  <1>1. pc'[s] = "refused" /\ \A t \in Sessions : t # s => pc'[t] = pc[t]
    BY GotoEffect
  <1>2. /\ held' \in [Profiles -> Sessions \cup {None}]
        /\ \A t \in Sessions : t # s /\ held[Profile[t]] = t => held'[Profile[t]] = t
    BY UnlockEffect, SessionFacts DEF TypeOK
  <1>3. TypeOK'
    <2>1. pc' \in [Sessions -> {"new", "locking", "loading", "routing", "starting", "live",
                                "ending", "ended", "refused", "lost"}]
      BY DEF Goto, TypeOK
    <2> QED BY <1>2, <2>1 DEF TypeOK, processVars
  <1>4. HandlerHolds' BY <1>1, <1>2 DEF HandlerHolds, Connected
  <1>5. SaverHolds'
    <2>1. \A n \in AttemptsOf(s) : save[s][n] \notin InFlight BY DEF SaverHolds, Connected
    <2> QED BY <1>1, <1>2, <2>1 DEF SaverHolds
  <1>6. LoadedIsCurrent' BY <1>1 DEF LoadedIsCurrent
  <1>7. AttemptBegun' BY <1>1 DEF AttemptBegun
  <1> QED BY <1>3, <1>4, <1>5, <1>6, <1>7

\* What is loaded under the lock is what is stored.
LEMMA LoadKeepsIInv ==
  ASSUME IInv, NEW s \in Sessions, Load(s)
  PROVE  IInv'
  <1> USE DEF IInv
  <1>1. CASE Goto(s, "refused") /\ Unlock(s) /\ UNCHANGED loaded
    BY <1>1, RefusalKeepsIInv DEF Load, Connected
  <1>2. CASE /\ Goto(s, "routing")
             /\ loaded' = [loaded EXCEPT ![s] = blob[Profile[s]].version]
             /\ UNCHANGED held
    <2>1. pc'[s] = "routing" /\ pc[s] = "loading" /\ \A t \in Sessions : t # s => pc'[t] = pc[t]
      BY <1>2, GotoEffect DEF Load
    <2>2. blob' = blob /\ held' = held /\ save' = save /\ process' = process /\ turn' = turn
      BY <1>2 DEF Load, processVars
    <2>3. /\ loaded' \in [Sessions -> Nat] /\ loaded'[s] = blob[Profile[s]].version
          /\ \A t \in Sessions : t # s => loaded'[t] = loaded[t]
      BY <1>2, SessionFacts DEF TypeOK
    <2>4. TypeOK'
      <3>1. pc' \in [Sessions -> {"new", "locking", "loading", "routing", "starting", "live",
                                  "ending", "ended", "refused", "lost"}]
        BY <1>2 DEF Goto, TypeOK
      <3> QED BY <2>2, <2>3, <3>1 DEF TypeOK
    <2>5. HandlerHolds' BY <2>1, <2>2 DEF HandlerHolds, Connected
    <2>6. SaverHolds' BY <2>1, <2>2 DEF SaverHolds
    <2>7. LoadedIsCurrent' BY <2>1, <2>2, <2>3 DEF LoadedIsCurrent
    <2>8. AttemptBegun' BY <2>1, <2>2 DEF AttemptBegun
    <2> QED BY <2>4, <2>5, <2>6, <2>7, <2>8
  <1> QED BY <1>1, <1>2 DEF Load

\* The saving side starts with the lock in hand.
LEMMA EndKeepsIInv ==
  ASSUME IInv, NEW s \in Sessions, End(s)
  PROVE  IInv'
  <1> USE DEF IInv
  <1> DEFINE n == turn[s]
             step == IF Path(s) = "handoff" THEN "polling" ELSE "capturing"
  <1>1. /\ UNCHANGED <<blob, held, loaded, turn, process>>
        /\ pc[s] = "live" /\ n \in AttemptsOf(s)
    BY DEF End, storeVars, processVars, AttemptBegun
  <1>2. pc'[s] \in {"ending", "ended"} /\ \A t \in Sessions : t # s => pc'[t] = pc[t]
    BY GotoEffect DEF End
  <1>3. pc' \in [Sessions -> {"new", "locking", "loading", "routing", "starting", "live",
                              "ending", "ended", "refused", "lost"}]
    BY DEF End, Goto, TypeOK
  <1>4. \A m \in AttemptsOf(s) : save[s][m] \notin InFlight BY <1>1 DEF SaverHolds
  <1>5. CASE s \in ReadOnly
    <2>1. save' = save BY <1>5 DEF End
    <2>2. TypeOK' BY <1>1, <1>3, <2>1 DEF TypeOK
    <2>3. HandlerHolds' BY <1>1, <1>2, <2>1 DEF HandlerHolds, Connected
    <2>4. SaverHolds' BY <1>1, <1>2, <1>4, <2>1 DEF SaverHolds
    <2>5. LoadedIsCurrent' BY <1>1, <1>2, <2>1 DEF LoadedIsCurrent
    <2>6. AttemptBegun' BY <1>1, <1>2 DEF AttemptBegun
    <2> QED BY <2>2, <2>3, <2>4, <2>5, <2>6
  <1>6. CASE s \notin ReadOnly
    <2>1. step \in InFlight BY DEF InFlight
    <2>2. Saving(s, n, step) BY <1>6 DEF End
    <2> HIDE DEF step
    <2>3. /\ save' = [t \in Sessions |-> save'[t]]
          /\ \A t \in Sessions : save'[t] \in [AttemptsOf(t) -> {"idle", "done"} \cup InFlight]
          /\ \A t \in Sessions : \A m \in AttemptsOf(t) : t # s \/ m # n => save'[t][m] = save[t][m]
      BY <1>1, <2>1, <2>2, SavingEffect
    <2>4. held[Profile[s]] = s /\ loaded[s] = blob[Profile[s]].version
      BY <1>1, <1>6 DEF HandlerHolds, LoadedIsCurrent, Connected
    <2>5. TypeOK' BY <1>1, <1>3, <2>3 DEF TypeOK
    <2>6. HandlerHolds' BY <1>1, <1>2 DEF HandlerHolds, Connected
    <2>7. SaverHolds'
      <3> SUFFICES ASSUME NEW t \in Sessions, NEW m \in AttemptsOf(t), save'[t][m] \in InFlight
                   PROVE  t \notin ReadOnly /\ m = turn'[t] /\ pc'[t] \in {"ending", "ended"}
                          /\ held'[Profile[t]] = t
        BY DEF SaverHolds
      <3>1. CASE t = s BY <1>1, <1>2, <1>4, <1>6, <2>3, <2>4, <3>1
      <3>2. CASE t # s BY <1>1, <1>2, <2>3, <3>2 DEF SaverHolds
      <3> QED BY <3>1, <3>2
    <2>8. LoadedIsCurrent' BY <1>1, <1>2, <2>3, <2>4 DEF LoadedIsCurrent
    <2>9. AttemptBegun' BY <1>1, <1>2 DEF AttemptBegun
    <2> QED BY <2>5, <2>6, <2>7, <2>8, <2>9
  <1> QED BY <1>5, <1>6

\* An upstream lost during the start saves nothing of a session that only reads.
LEMMA UpstreamLostKeepsIInv ==
  ASSUME Sturdy, IInv, NEW s \in Sessions, UpstreamLost(s)
  PROVE  IInv'
  <1> USE DEF IInv
  <1>1. /\ UNCHANGED <<blob, held, pc, loaded, turn, process>>
        /\ turn[s] \in AttemptsOf(s) /\ s \in ReadOnly /\ Saving(s, turn[s], "done")
    BY DEF UpstreamLost, storeVars, sessionVars, processVars, AttemptBegun, Sturdy
  <1>2. /\ save' = [t \in Sessions |-> save'[t]]
        /\ \A t \in Sessions : save'[t] \in [AttemptsOf(t) -> {"idle", "done"} \cup InFlight]
        /\ save'[s][turn[s]] = "done"
        /\ \A t \in Sessions : \A m \in AttemptsOf(t) : t # s \/ m # turn[s] => save'[t][m] = save[t][m]
    BY <1>1, SavingEffect
  <1>3. TypeOK' BY <1>1, <1>2 DEF TypeOK
  <1>4. HandlerHolds' BY <1>1 DEF HandlerHolds
  <1>5. SaverHolds' BY <1>1, <1>2 DEF SaverHolds, InFlight
  <1>6. LoadedIsCurrent' BY <1>1, <1>2 DEF LoadedIsCurrent
  <1>7. AttemptBegun' BY <1>1 DEF AttemptBegun
  <1> QED BY <1>3, <1>4, <1>5, <1>6, <1>7

-----------------------------------------------------------------------------
(* Saves. *)

\* A capture goes on to its write or its release under the same lock.
LEMMA CaptureKeepsIInv ==
  ASSUME IInv, NEW s \in Sessions, NEW n \in AttemptsOf(s), PickUp(s, n) \/ Capture(s, n)
  PROVE  IInv'
  <1> USE DEF IInv
  <1>1. PICK step \in {"writing", "releasing"} :
          Saving(s, n, step) /\ UNCHANGED <<blob, held, pc, loaded, turn, process>>
    BY DEF PickUp, Capture, storeVars, sessionVars, processVars
  <1>2. save[s][n] \in {"polling", "capturing"} BY DEF PickUp, Capture
  <1>3. /\ save' = [t \in Sessions |-> save'[t]]
        /\ \A t \in Sessions : save'[t] \in [AttemptsOf(t) -> {"idle", "done"} \cup InFlight]
        /\ save'[s][n] = step
        /\ \A t \in Sessions : \A m \in AttemptsOf(t) : t # s \/ m # n => save'[t][m] = save[t][m]
    BY <1>1, SavingEffect DEF InFlight
  <1>4. TypeOK' BY <1>1, <1>3 DEF TypeOK
  <1>5. HandlerHolds' BY <1>1 DEF HandlerHolds
  <1>6. SaverHolds'
    <2> SUFFICES ASSUME NEW t \in Sessions, NEW m \in AttemptsOf(t), save'[t][m] \in InFlight
                 PROVE  t \notin ReadOnly /\ m = turn'[t] /\ pc'[t] \in {"ending", "ended"}
                        /\ held'[Profile[t]] = t
      BY DEF SaverHolds
    <2>1. save[t][m] \in InFlight BY <1>2, <1>3 DEF InFlight
    <2> QED BY <1>1, <2>1 DEF SaverHolds
  <1>7. LoadedIsCurrent'
    <2>1. \A t \in Sessions : \A m \in AttemptsOf(t) : save'[t][m] \in {"polling", "capturing", "writing"}
            => save[t][m] \in {"polling", "capturing", "writing"}
      BY <1>2, <1>3
    <2> QED BY <1>1, <2>1 DEF LoadedIsCurrent
  <1>8. AttemptBegun' BY <1>1 DEF AttemptBegun
  <1> QED BY <1>4, <1>5, <1>6, <1>7, <1>8

\* A write makes the state of its session the stored one; no other session that
\* has loaded the profile may save it.
LEMMA WriteKeepsIInv ==
  ASSUME IInv, NEW s \in Sessions, NEW n \in AttemptsOf(s), Write(s, n)
  PROVE  IInv'
  <1> USE DEF IInv
  <1>1. Saving(s, n, "releasing") /\ UNCHANGED <<held, pc, loaded, turn, process>>
    BY DEF Write, sessionVars, processVars
  <1>2. save[s][n] = "writing" BY DEF Write
  <1>3. s \notin ReadOnly /\ n = turn[s] /\ pc[s] \in {"ending", "ended"} /\ held[Profile[s]] = s
    BY <1>2 DEF SaverHolds, InFlight
  <1>4. /\ save' = [t \in Sessions |-> save'[t]]
        /\ \A t \in Sessions : save'[t] \in [AttemptsOf(t) -> {"idle", "done"} \cup InFlight]
        /\ save'[s][n] = "releasing"
        /\ \A t \in Sessions : \A m \in AttemptsOf(t) : t # s \/ m # n => save'[t][m] = save[t][m]
    BY <1>1, SavingEffect DEF InFlight
  <1>5. /\ blob' \in [Profiles -> [version : Nat, by : Sessions \cup {None}]]
        /\ \A p \in Profiles : p # Profile[s] => blob'[p] = blob[p]
    <2>1. CASE blob' = blob BY <2>1 DEF TypeOK
    <2>2. CASE blob' = [blob EXCEPT ![Profile[s]] = [version |-> @.version + 1, by |-> s]]
      <3>1. Profile[s] \in Profiles BY SessionFacts
      <3>2. blob[Profile[s]].version + 1 \in Nat BY <3>1 DEF TypeOK
      <3> QED BY <2>2, <3>1, <3>2 DEF TypeOK
    <2> QED BY <2>1, <2>2 DEF Write
  <1>6. TypeOK' BY <1>1, <1>4, <1>5 DEF TypeOK
  <1>7. HandlerHolds' BY <1>1 DEF HandlerHolds
  <1>8. SaverHolds'
    <2>1. \A t \in Sessions : \A m \in AttemptsOf(t) : save'[t][m] \in InFlight => save[t][m] \in InFlight
      BY <1>2, <1>4 DEF InFlight
    <2> QED BY <1>1, <2>1 DEF SaverHolds
  <1>9. LoadedIsCurrent'
    <2> SUFFICES ASSUME NEW t \in Sessions \ ReadOnly,
                        \/ pc'[t] \in {"routing", "starting", "live"}
                        \/ \E m \in AttemptsOf(t) : save'[t][m] \in {"polling", "capturing", "writing"}
                 PROVE  loaded'[t] = blob'[Profile[t]].version
      BY DEF LoadedIsCurrent
    <2>1. t # s
      <3>1. \A m \in AttemptsOf(s) : m # n => save[s][m] \notin InFlight BY <1>3 DEF SaverHolds
      <3>2. \A m \in AttemptsOf(s) : save'[s][m] \notin {"polling", "capturing", "writing"}
        BY <1>4, <3>1 DEF InFlight
      <3> QED BY <1>1, <1>3, <3>2
    <2>2. /\ held[Profile[t]] = t
          /\ \/ pc[t] \in {"routing", "starting", "live"}
             \/ \E m \in AttemptsOf(t) : save[t][m] \in {"polling", "capturing", "writing"}
      BY <1>1, <1>4, <2>1 DEF HandlerHolds, SaverHolds, Connected, InFlight
    <2>3. Profile[t] # Profile[s] BY <1>3, <2>1, <2>2
    <2> QED BY <1>1, <1>5, <2>2, <2>3, SessionFacts DEF LoadedIsCurrent
  <1>10. AttemptBegun' BY <1>1 DEF AttemptBegun
  <1> QED BY <1>6, <1>7, <1>8, <1>9, <1>10

\* The last step of a save takes away no lock but its own.
LEMMA ReleaseKeepsIInv ==
  ASSUME IInv, NEW s \in Sessions, NEW n \in AttemptsOf(s), Release(s, n)
  PROVE  IInv'
  <1> USE DEF IInv
  <1>1. Unlock(s) /\ Saving(s, n, "done") /\ UNCHANGED <<blob, pc, loaded, turn, process>>
    BY DEF Release, sessionVars, processVars
  <1>2. s \notin ReadOnly /\ n = turn[s] /\ pc[s] \in {"ending", "ended"}
    BY DEF Release, SaverHolds, InFlight
  <1>3. /\ save' = [t \in Sessions |-> save'[t]]
        /\ \A t \in Sessions : save'[t] \in [AttemptsOf(t) -> {"idle", "done"} \cup InFlight]
        /\ save'[s][n] = "done"
        /\ \A t \in Sessions : \A m \in AttemptsOf(t) : t # s \/ m # n => save'[t][m] = save[t][m]
    BY <1>1, SavingEffect DEF InFlight
  <1>4. /\ held' \in [Profiles -> Sessions \cup {None}]
        /\ \A t \in Sessions : t # s /\ held[Profile[t]] = t => held'[Profile[t]] = t
    BY <1>1, UnlockEffect, SessionFacts DEF TypeOK
  <1>5. TypeOK' BY <1>1, <1>3, <1>4 DEF TypeOK
  <1>6. HandlerHolds' BY <1>1, <1>2, <1>4 DEF HandlerHolds, Connected
  <1>7. \A m \in AttemptsOf(s) : save'[s][m] \notin InFlight
    BY <1>2, <1>3 DEF SaverHolds, InFlight
  <1>8. SaverHolds' BY <1>1, <1>3, <1>4, <1>7 DEF SaverHolds
  <1>9. LoadedIsCurrent' BY <1>1, <1>3 DEF LoadedIsCurrent, InFlight
  <1>10. AttemptBegun' BY <1>1 DEF AttemptBegun
  <1> QED BY <1>5, <1>6, <1>8, <1>9, <1>10

-----------------------------------------------------------------------------
(* The invariant. *)

\* The process that ends, or starts again, leaves locks and files alone.
LEMMA ProcessKeepsIInv ==
  ASSUME IInv, BeginDrain \/ Exit \/ Kill \/ Restart
  PROVE  IInv'
  <1> USE DEF IInv
  <1>1. CASE Restart
    <2>1. /\ UNCHANGED <<blob, held, loaded, turn>> /\ process' = "up"
          /\ \A s \in Sessions : pc'[s] \in {"new", "lost"}
          /\ save' = [s \in Sessions |-> [n \in AttemptsOf(s) |-> "idle"]]
      BY <1>1 DEF Restart, storeVars
    <2>2. /\ save' = [t \in Sessions |-> save'[t]]
          /\ \A t \in Sessions : save'[t] \in [AttemptsOf(t) -> {"idle", "done"} \cup InFlight]
          /\ \A t \in Sessions : \A m \in AttemptsOf(t) : save'[t][m] = "idle"
      BY <2>1
    <2>3. pc' \in [Sessions -> {"new", "locking", "loading", "routing", "starting", "live",
                                "ending", "ended", "refused", "lost"}]
      BY <1>1 DEF Restart
    <2>4. TypeOK' BY <2>1, <2>2, <2>3 DEF TypeOK
    <2>5. HandlerHolds' BY <2>1 DEF HandlerHolds, Connected
    <2>6. SaverHolds' BY <2>2 DEF SaverHolds, InFlight
    <2>7. LoadedIsCurrent' BY <2>1, <2>2 DEF LoadedIsCurrent
    <2>8. AttemptBegun' BY <2>1 DEF AttemptBegun
    <2> QED BY <2>4, <2>5, <2>6, <2>7, <2>8
  <1>2. CASE BeginDrain \/ Exit \/ Kill
    <2>1. UNCHANGED <<blob, held, pc, loaded, turn, save>> /\ process' \in {"draining", "exited", "killed"}
      BY <1>2 DEF BeginDrain, Exit, Kill, storeVars, sessionVars
    <2> QED BY <2>1 DEF TypeOK, HandlerHolds, SaverHolds, LoadedIsCurrent, AttemptBegun
  <1> QED BY <1>1, <1>2

\* One step for each action of the handlers, the saves and the process.
LEMMA StepKeepsIInv ==
  ASSUME Sturdy, IInv, [Next]_vars
  PROVE  IInv'
  <1>1. ASSUME NEW s \in Sessions, Handle(s) PROVE IInv'
    <2>1. CASE \/ Arrive(s) \/ ArriveReadOnly(s) \/ GiveUp(s) \/ RefusePin(s) \/ Begin(s)
               \/ AttemptFails(s) \/ Up(s) \/ Untrack(s)
      BY <2>1, MoveKeepsIInv
    <2>2. CASE Lock(s) BY <2>2, LockKeepsIInv
    <2>3. CASE Load(s) BY <2>3, LoadKeepsIInv
    <2>4. CASE UpstreamLost(s) BY <2>4, UpstreamLostKeepsIInv
    <2>5. CASE RestFails(s) \/ Exhaust(s)
      BY <2>5, RefusalKeepsIInv DEF RestFails, Exhaust, Connected
    <2>6. CASE End(s) BY <2>6, EndKeepsIInv
    <2> QED BY <1>1, <2>1, <2>2, <2>3, <2>4, <2>5, <2>6 DEF Handle
  <1>2. ASSUME NEW s \in Sessions, NEW n \in AttemptsOf(s), Persist(s, n) PROVE IInv'
    BY <1>2, CaptureKeepsIInv, WriteKeepsIInv, ReleaseKeepsIInv DEF Persist
  <1>3. CASE BeginDrain \/ Exit \/ Kill \/ Restart BY <1>3, ProcessKeepsIInv
  <1>4. CASE UNCHANGED vars
    BY <1>4 DEF vars, IInv, TypeOK, HandlerHolds, SaverHolds, LoadedIsCurrent, AttemptBegun
  <1> QED BY <1>1, <1>2, <1>3, <1>4 DEF Next

\* Nobody is connected and nothing is being saved at first.
LEMMA InitIInv == Init => IInv
  <1> SUFFICES ASSUME Init PROVE IInv
    OBVIOUS
  <1>1. \A s \in Sessions : save[s] = [n \in AttemptsOf(s) |-> "idle"] BY DEF Init
  <1>2. /\ save = [s \in Sessions |-> save[s]]
        /\ \A s \in Sessions : save[s] \in [AttemptsOf(s) -> {"idle", "done"} \cup InFlight]
        /\ \A s \in Sessions : \A n \in AttemptsOf(s) : save[s][n] = "idle"
    BY <1>1 DEF Init
  <1>3. TypeOK BY <1>2, SessionFacts DEF Init, TypeOK
  <1>4. HandlerHolds /\ LoadedIsCurrent /\ AttemptBegun
    BY <1>2 DEF Init, HandlerHolds, LoadedIsCurrent, AttemptBegun, Connected
  <1>5. SaverHolds BY <1>2 DEF SaverHolds, InFlight
  <1> QED BY <1>3, <1>4, <1>5 DEF IInv

\* The lock protects a profile from its load to the end of its save.
THEOREM LockCoversSave == ASSUME Sturdy PROVE Spec => []IInv
  <1>1. Init => IInv BY InitIInv
  <1>2. IInv /\ [Next]_vars => IInv' BY StepKeepsIInv
  <1> QED BY <1>1, <1>2, PTL DEF Spec

\* Two sessions that may save the same profile both hold its one lock.
THEOREM OneSessionAtATime == ASSUME Sturdy PROVE Spec => []OneSessionPerProfile
  <1>1. IInv => OneSessionPerProfile
    BY DEF IInv, HandlerHolds, OneSessionPerProfile, Connected
  <1> QED BY <1>1, LockCoversSave, PTL

-----------------------------------------------------------------------------
(* What steps do to the store. *)

\* Only the author of a save changes a profile.
LEMMA OnlyWritesChangeBlobs ==
  ASSUME [Next]_vars, blob' # blob
  PROVE  \E s \in Sessions : \E n \in AttemptsOf(s) : Write(s, n)
  <1>1. ASSUME NEW s \in Sessions, Handle(s) PROVE blob' = blob
    BY <1>1 DEF Handle, Arrive, ArriveReadOnly, Lock, GiveUp, Load, RefusePin, Begin, AttemptFails,
                UpstreamLost, Up, RestFails, Exhaust, End, Untrack, storeVars
  <1>2. ASSUME NEW s \in Sessions, NEW n \in AttemptsOf(s), Persist(s, n) PROVE blob' = blob \/ Write(s, n)
    BY <1>2 DEF Persist, PickUp, Capture, Release, storeVars
  <1>3. BeginDrain \/ Exit \/ Kill \/ Restart \/ UNCHANGED vars => blob' = blob
    BY DEF BeginDrain, Exit, Kill, Restart, vars, storeVars
  <1> QED BY <1>1, <1>2, <1>3 DEF Next

\* A save never replaces a state that its session had not loaded.
THEOREM NothingSavedIsLost == ASSUME Sturdy PROVE Spec => NoLostUpdate
  <1> DEFINE Fresh == \A s \in Sessions :
                 blob'[Profile[s]] # blob[Profile[s]] /\ blob'[Profile[s]].by = s
                   => loaded[s] = blob[Profile[s]].version
  <1>1. IInv /\ [Next]_vars => [Fresh]_vars
    <2> SUFFICES ASSUME IInv, [Next]_vars, NEW s \in Sessions,
                        blob'[Profile[s]] # blob[Profile[s]], blob'[Profile[s]].by = s
                 PROVE  loaded[s] = blob[Profile[s]].version
      OBVIOUS
    <2>1. PICK t \in Sessions : \E n \in AttemptsOf(t) : Write(t, n) BY OnlyWritesChangeBlobs
    <2>2. PICK n \in AttemptsOf(t) : Write(t, n) BY <2>1
    <2>3. save[t][n] = "writing" /\ t \notin ReadOnly
      BY <2>2 DEF Write, IInv, SaverHolds, InFlight
    <2>4. blob' = [blob EXCEPT ![Profile[t]] = [version |-> blob[Profile[t]].version + 1, by |-> t]]
      BY <2>2 DEF Write
    <2>5. blob'[Profile[s]].by = t
      <3>1. Profile[s] \in Profiles /\ Profile[t] \in Profiles BY SessionFacts
      <3>2. DOMAIN blob = Profiles BY DEF IInv, TypeOK
      <3>3. Profile[s] = Profile[t] BY <2>4, <3>1, <3>2
      <3> QED BY <2>4, <3>1, <3>2, <3>3
    <2>6. s = t BY <2>5
    <2> QED BY <2>2, <2>3, <2>6 DEF IInv, LoadedIsCurrent
  <1> QED BY <1>1, LockCoversSave, PTL DEF Spec, NoLostUpdate

\* Only a restart loses sessions, and a lost one takes no step.
LEMMA LostStays ==
  ASSUME IInv, NEW s \in Sessions, Handle(s)
  PROVE  Lost' = Lost /\ s \notin Lost
  <1>1. pc[s] # "lost" /\ (pc' = pc \/ \E place \in {"locking", "loading", "routing", "starting", "live",
                                 "ending", "ended", "refused"} : Goto(s, place))
    BY DEF Handle, Arrive, ArriveReadOnly, Lock, GiveUp, Load, RefusePin, Begin, AttemptFails,
                UpstreamLost, Up, RestFails, Exhaust, End, Untrack, sessionVars
  <1>2. \A t \in Sessions : t # s => pc'[t] = pc[t]
    BY <1>1, GotoEffect DEF IInv
  <1>3. pc'[s] # "lost" BY <1>1, GotoEffect DEF IInv
  <1> QED BY <1>1, <1>2, <1>3 DEF Lost

\* Giving a lock back closes the profile, if it was open.
LEMMA UnlockCloses ==
  ASSUME TypeOK, NEW s \in Sessions, Unlock(s), blob' = blob, Lost' = Lost
  PROVE  [Register!Next]_<<held, blob, Lost>>
  <1>1. Profile[s] \in Profiles BY SessionFacts
  <1>2. CASE held[Profile[s]] = s
    <2>1. held' = [held EXCEPT ![Profile[s]] = None] BY <1>2 DEF Unlock, TypeOK
    <2>2. Register!Close(Profile[s]) BY <2>1 DEF Register!Close
    <2> QED BY <1>1, <2>2 DEF Register!Next
  <1>3. CASE held[Profile[s]] # s
    <2>1. held' = held BY <1>3 DEF Unlock, TypeOK
    <2> QED BY <2>1
  <1> QED BY <1>2, <1>3

\* Every step of the sessions is a step of the register, or none.
LEMMA StepRefines ==
  ASSUME IInv, [Next]_vars
  PROVE  [Register!Next]_<<held, blob, Lost>>
  <1>1. ASSUME NEW s \in Sessions, Handle(s) PROVE [Register!Next]_<<held, blob, Lost>>
    <2>1. Lost' = Lost /\ s \notin Lost BY <1>1, LostStays
    <2>2. CASE Lock(s)
      <3>1. Register!Open(Profile[s], s) BY <2>1, <2>2 DEF Lock, Free, Register!Open
      <3> QED BY <2>1, <3>1, SessionFacts DEF Register!Next
    <2>3. CASE Unlock(s) /\ blob' = blob BY <2>1, <2>3, UnlockCloses DEF IInv
    <2>4. CASE UNCHANGED storeVars BY <2>1, <2>4 DEF storeVars
    <2>5. Lock(s) \/ (Unlock(s) /\ blob' = blob) \/ UNCHANGED storeVars
      BY <1>1 DEF Handle, Arrive, ArriveReadOnly, GiveUp, Load, RefusePin, Begin, AttemptFails,
                  UpstreamLost, Up, RestFails, Exhaust, End, Untrack, storeVars
    <2> QED BY <2>2, <2>3, <2>4, <2>5
  <1>2. ASSUME NEW s \in Sessions, NEW n \in AttemptsOf(s), Persist(s, n)
        PROVE  [Register!Next]_<<held, blob, Lost>>
    <2>1. Lost' = Lost
      BY <1>2 DEF Persist, PickUp, Capture, Write, Release, sessionVars, Lost
    <2>2. CASE Write(s, n)
      <3>1. CASE blob' = blob BY <2>1, <2>2, <3>1 DEF Write
      <3>2. CASE blob' = [blob EXCEPT ![Profile[s]] = [version |-> @.version + 1, by |-> s]]
        <4>1. held[Profile[s]] = s /\ s \notin Lost
          BY <2>2 DEF Write, IInv, SaverHolds, InFlight, Lost
        <4>2. held' = held BY <2>2 DEF Write
        <4>3. Register!Save(Profile[s]) BY <2>1, <3>2, <4>1, <4>2 DEF Register!Save
        <4> QED BY <4>3, SessionFacts DEF Register!Next
      <3> QED BY <2>2, <3>1, <3>2 DEF Write
    <2>3. CASE Release(s, n) BY <2>1, <2>3, UnlockCloses DEF Release, IInv
    <2>4. CASE PickUp(s, n) \/ Capture(s, n) BY <2>1, <2>4 DEF PickUp, Capture, storeVars
    <2> QED BY <1>2, <2>2, <2>3, <2>4 DEF Persist
  <1>3. CASE Restart
    <2>1. Lost \subseteq Lost' /\ Lost' \in SUBSET Sessions BY <1>3 DEF Restart, Lost
    <2>2. Register!Perish BY <1>3, <2>1 DEF Restart, storeVars, Register!Perish
    <2> QED BY <2>2 DEF Register!Next
  <1>4. CASE BeginDrain \/ Exit \/ Kill \/ UNCHANGED vars
    BY <1>4 DEF BeginDrain, Exit, Kill, vars, storeVars, sessionVars, Lost
  <1> QED BY <1>1, <1>2, <1>3, <1>4 DEF Next

\* Locks and files are a register with one writer, for every set of sessions,
\* whatever they ask for and however often the process crashes.
THEOREM SessionsImplementRegister == ASSUME Sturdy PROVE Spec => ImplementsRegister
  <1>1. Init => Register!Init
    BY DEF Init, Lost, Register!Init
  <1>2. IInv /\ [Next]_vars => [Register!Next]_<<held, blob, Lost>>
    BY StepRefines
  <1> QED BY <1>1, <1>2, LockCoversSave, PTL DEF Spec, ImplementsRegister, Register!Spec

----------------------------------------------------------------------------
(* The directory of the encrypted profiles *)

Blobs == [dek : Nat, holds : Nat]

Doings == {"nothing", "session", "delete", "import", "create"}
Stages == {"nowhere", "locked", "runs", "stored", "checked", "listed"}

StoreTypes ==
  /\ gateway \in {"down", "resolving", "persisting", "opening", "up", "disabled"}
  /\ envKey \in {0, EnvKey} /\ keyFile \in Nat /\ secret \in Nat
  /\ keycheck \in [kek : Nat, dek : Nat] /\ ring \in Nat
  /\ data \in Blobs /\ exported \subseteq Blobs
  /\ client \in [Clients -> [does : Doings, at : Stages, blob : Blobs]]
  /\ lock \in Clients \cup {"free", "left"}
  /\ keys \in Nat /\ contents \in Nat
  /\ envMoved \in BOOLEAN /\ wiped \in BOOLEAN /\ created \in BOOLEAN

\* The key the next start would find, 0 if it would make one.
FoundKey == IF envKey # 0 THEN envKey ELSE keyFile

\* The key a start opens the store with is one the next start finds again; the one
\* being written is so only after that.
SecretIsKept ==
  /\ gateway = "opening" => secret = FoundKey /\ secret # 0
  /\ gateway = "persisting" => secret # 0 /\ envKey = 0 /\ keyFile = 0

\* The store was closed with that key.
CheckOpens ==
  /\ (keycheck # NoCheck /\ ~envMoved) => keycheck.kek = FoundKey /\ FoundKey # 0
  /\ gateway = "disabled" => envMoved

\* The ring is the directory's key, and all that was stored was encrypted with it.
RingOpens ==
  /\ gateway = "up" => keycheck # NoCheck /\ ring = keycheck.dek
  /\ (data # NoBlob /\ ~wiped) => keycheck # NoCheck /\ data.dek = keycheck.dek
  /\ \A c \in Clients :
       (client[c].does = "import" /\ client[c].at \in {"checked", "locked"}) => client[c].blob.dek = ring

\* Only a gateway that is up serves anybody, and who may write has the lock.
HolderWrites ==
  /\ \A c \in Clients : client[c] # Away => gateway = "up"
  /\ \A c \in Clients :
       (client[c].does # "create" /\ client[c].at \in {"locked", "runs", "stored"}) => lock = c

StoreInv == StoreTypes /\ SecretIsKept /\ CheckOpens /\ RingOpens /\ HolderWrites /\ SessionKeepsProfile

\* Every step of the directory, its gateway, its operator and its clients keeps the
\* invariant.
LEMMA StoreStep == StoreInv /\ [StoreNext]_profileStoreVars => StoreInv'
<1> SUFFICES ASSUME StoreInv, [StoreNext]_profileStoreVars PROVE StoreInv'
  OBVIOUS
<1> USE StoreAssumption DEF EnvKey, NoCheck, NoBlob, Blobs, Doings, Stages, Away
<1>1. CASE Starts
  BY <1>1
  DEF Starts, keyVars, directoryVars, StoreInv, StoreTypes, SecretIsKept, CheckOpens, RingOpens,
      HolderWrites, SessionKeepsProfile, FoundKey
<1>2. CASE ResolveKey
  BY <1>2
  DEF ResolveKey, keyVars, directoryVars, StoreInv, StoreTypes, SecretIsKept, CheckOpens,
      RingOpens, HolderWrites, SessionKeepsProfile, FoundKey
<1>3. CASE PersistKey
  BY <1>3
  DEF PersistKey, keyVars, directoryVars, StoreInv, StoreTypes, SecretIsKept, CheckOpens,
      RingOpens, HolderWrites, SessionKeepsProfile, FoundKey
<1>4. CASE OpenStore
  BY <1>4
  DEF OpenStore, InitStore, Opens, keyVars, directoryVars, StoreInv, StoreTypes, SecretIsKept,
      CheckOpens, RingOpens, HolderWrites, SessionKeepsProfile, FoundKey
<1>5. CASE GatewayDies
  BY <1>5
  DEF GatewayDies, keyVars, directoryVars, StoreInv, StoreTypes, SecretIsKept, CheckOpens,
      RingOpens, HolderWrites, SessionKeepsProfile, FoundKey
<1>6. CASE MovesEnv
  <2>1. StoreTypes'
    BY <1>6 DEF MovesEnv, keyVars, directoryVars, StoreInv, StoreTypes
  <2>2. SecretIsKept'
    BY <1>6 DEF MovesEnv, keyVars, directoryVars, StoreInv, StoreTypes, SecretIsKept, FoundKey
  <2>3. CheckOpens'
    BY <1>6
    DEF MovesEnv, keyVars, directoryVars, StoreInv, StoreTypes, SecretIsKept, CheckOpens, FoundKey
  <2>4. RingOpens'
    BY <1>6 DEF MovesEnv, keyVars, directoryVars, StoreInv, StoreTypes, RingOpens, HolderWrites
  <2>5. HolderWrites'
    BY <1>6 DEF MovesEnv, keyVars, directoryVars, StoreInv, StoreTypes, HolderWrites
  <2>6. SessionKeepsProfile'
    BY <1>6
    DEF MovesEnv, keyVars, directoryVars, StoreInv, StoreTypes, HolderWrites, SessionKeepsProfile
  <2> QED BY <2>1, <2>2, <2>3, <2>4, <2>5, <2>6 DEF StoreInv
<1>7. CASE StartsOver
  BY <1>7
  DEF StartsOver, keyVars, directoryVars, StoreInv, StoreTypes, SecretIsKept, CheckOpens,
      RingOpens, HolderWrites, SessionKeepsProfile, FoundKey
<1>8. CASE LockAges
  BY <1>8
  DEF LockAges, keyVars, directoryVars, StoreInv, StoreTypes, SecretIsKept, CheckOpens, RingOpens,
      HolderWrites, SessionKeepsProfile, FoundKey
<1>9. CASE Exports
  BY <1>9
  DEF Exports, keyVars, directoryVars, StoreInv, StoreTypes, SecretIsKept, CheckOpens, RingOpens,
      HolderWrites, SessionKeepsProfile, FoundKey
<1>10. ASSUME NEW c \in Clients, Acquires(c) PROVE StoreInv'
  BY <1>10
  DEF Acquires, TakesLock, Goes, keyVars, directoryVars, StoreInv, StoreTypes, SecretIsKept,
      CheckOpens, RingOpens, HolderWrites, SessionKeepsProfile, FoundKey
<1>11. ASSUME NEW c \in Clients, Loads(c) PROVE StoreInv'
  <2>1. CASE data = NoBlob \/ Readable(data)
    <3>1. StoreTypes'
      BY <1>11, <2>1
      DEF Loads, Goes, Rests, LetsGo, Readable, keyVars, directoryVars, StoreInv, StoreTypes
    <3>2. SecretIsKept'
      BY <1>11, <2>1
      DEF Loads, Goes, Rests, LetsGo, Readable, keyVars, directoryVars, StoreInv, StoreTypes,
          SecretIsKept, FoundKey
    <3>3. CheckOpens'
      BY <1>11, <2>1
      DEF Loads, Goes, Rests, LetsGo, Readable, keyVars, directoryVars, StoreInv, StoreTypes,
          SecretIsKept, CheckOpens, FoundKey
    <3>4. RingOpens'
      BY <1>11, <2>1
      DEF Loads, Goes, Rests, LetsGo, Readable, keyVars, directoryVars, StoreInv, StoreTypes,
          RingOpens, HolderWrites
    <3>5. HolderWrites'
      BY <1>11, <2>1
      DEF Loads, Goes, Rests, LetsGo, Readable, keyVars, directoryVars, StoreInv, StoreTypes,
          HolderWrites
    <3>6. SessionKeepsProfile'
      BY <1>11, <2>1
      DEF Loads, Goes, Rests, LetsGo, Readable, keyVars, directoryVars, StoreInv, StoreTypes,
          HolderWrites, SessionKeepsProfile
    <3> QED BY <3>1, <3>2, <3>3, <3>4, <3>5, <3>6 DEF StoreInv
  <2>2. CASE ~(data = NoBlob \/ Readable(data))
    <3>1. StoreTypes'
      BY <1>11, <2>2
      DEF Loads, Goes, Rests, LetsGo, Readable, keyVars, directoryVars, StoreInv, StoreTypes
    <3>2. SecretIsKept'
      BY <1>11, <2>2
      DEF Loads, Goes, Rests, LetsGo, Readable, keyVars, directoryVars, StoreInv, StoreTypes,
          SecretIsKept, FoundKey
    <3>3. CheckOpens'
      BY <1>11, <2>2
      DEF Loads, Goes, Rests, LetsGo, Readable, keyVars, directoryVars, StoreInv, StoreTypes,
          SecretIsKept, CheckOpens, FoundKey
    <3>4. RingOpens'
      BY <1>11, <2>2
      DEF Loads, Goes, Rests, LetsGo, Readable, keyVars, directoryVars, StoreInv, StoreTypes,
          RingOpens, HolderWrites
    <3>5. HolderWrites'
      BY <1>11, <2>2
      DEF Loads, Goes, Rests, LetsGo, Readable, keyVars, directoryVars, StoreInv, StoreTypes,
          HolderWrites
    <3>6. SessionKeepsProfile'
      BY <1>11, <2>2
      DEF Loads, Goes, Rests, LetsGo, Readable, keyVars, directoryVars, StoreInv, StoreTypes,
          HolderWrites, SessionKeepsProfile
    <3> QED BY <3>1, <3>2, <3>3, <3>4, <3>5, <3>6 DEF StoreInv
  <2> QED BY <1>11, <2>1, <2>2 DEF Loads
<1>12. ASSUME NEW c \in Clients, Commits(c) PROVE StoreInv'
  BY <1>12
  DEF Commits, Goes, keyVars, directoryVars, StoreInv, StoreTypes, SecretIsKept, CheckOpens,
      RingOpens, HolderWrites, SessionKeepsProfile, FoundKey
<1>13. ASSUME NEW c \in Clients, Unlocks(c) PROVE StoreInv'
  BY <1>13
  DEF Unlocks, LetsGo, Rests, keyVars, directoryVars, StoreInv, StoreTypes, SecretIsKept,
      CheckOpens, RingOpens, HolderWrites, SessionKeepsProfile, FoundKey
<1>14. ASSUME NEW c \in Clients, DeleteLocks(c) PROVE StoreInv'
  BY <1>14
  DEF DeleteLocks, TakesLock, Goes, keyVars, directoryVars, StoreInv, StoreTypes, SecretIsKept,
      CheckOpens, RingOpens, HolderWrites, SessionKeepsProfile, FoundKey
<1>15. ASSUME NEW c \in Clients, Deletes(c) PROVE StoreInv'
  BY <1>15
  DEF Deletes, Goes, keyVars, directoryVars, StoreInv, StoreTypes, SecretIsKept, CheckOpens,
      RingOpens, HolderWrites, SessionKeepsProfile, FoundKey
<1>16. ASSUME NEW c \in Clients, ImportBegins(c) PROVE StoreInv'
  <2>1. CASE \E b \in exported : Accepted(b) /\ Goes(c, "import", "checked", b) /\ UNCHANGED contents
    <3>1. StoreTypes'
      BY <1>16, <2>1
      DEF ImportBegins, Accepted, Readable, Goes, keyVars, directoryVars, StoreInv, StoreTypes
    <3>2. SecretIsKept'
      BY <1>16, <2>1
      DEF ImportBegins, Accepted, Readable, Goes, keyVars, directoryVars, StoreInv, StoreTypes,
          SecretIsKept, FoundKey
    <3>3. CheckOpens'
      BY <1>16, <2>1
      DEF ImportBegins, Accepted, Readable, Goes, keyVars, directoryVars, StoreInv, StoreTypes,
          SecretIsKept, CheckOpens, FoundKey
    <3>4. RingOpens'
      BY <1>16, <2>1
      DEF ImportBegins, Accepted, Readable, Goes, keyVars, directoryVars, StoreInv, StoreTypes,
          RingOpens, HolderWrites
    <3>5. HolderWrites'
      BY <1>16, <2>1
      DEF ImportBegins, Accepted, Readable, Goes, keyVars, directoryVars, StoreInv, StoreTypes,
          HolderWrites
    <3>6. SessionKeepsProfile'
      BY <1>16, <2>1
      DEF ImportBegins, Accepted, Readable, Goes, keyVars, directoryVars, StoreInv, StoreTypes,
          HolderWrites, SessionKeepsProfile
    <3> QED BY <3>1, <3>2, <3>3, <3>4, <3>5, <3>6 DEF StoreInv
  <2>2. CASE /\ contents' = contents + 1
            /\ Goes(c, "import", "checked", [dek |-> ring, holds |-> contents + 1])
    <3>1. StoreTypes'
      BY <1>16, <2>2
      DEF ImportBegins, Accepted, Readable, Goes, keyVars, directoryVars, StoreInv, StoreTypes
    <3>2. SecretIsKept'
      BY <1>16, <2>2
      DEF ImportBegins, Accepted, Readable, Goes, keyVars, directoryVars, StoreInv, StoreTypes,
          SecretIsKept, FoundKey
    <3>3. CheckOpens'
      BY <1>16, <2>2
      DEF ImportBegins, Accepted, Readable, Goes, keyVars, directoryVars, StoreInv, StoreTypes,
          SecretIsKept, CheckOpens, FoundKey
    <3>4. RingOpens'
      BY <1>16, <2>2
      DEF ImportBegins, Accepted, Readable, Goes, keyVars, directoryVars, StoreInv, StoreTypes,
          RingOpens, HolderWrites
    <3>5. HolderWrites'
      BY <1>16, <2>2
      DEF ImportBegins, Accepted, Readable, Goes, keyVars, directoryVars, StoreInv, StoreTypes,
          HolderWrites
    <3>6. SessionKeepsProfile'
      BY <1>16, <2>2
      DEF ImportBegins, Accepted, Readable, Goes, keyVars, directoryVars, StoreInv, StoreTypes,
          HolderWrites, SessionKeepsProfile
    <3> QED BY <3>1, <3>2, <3>3, <3>4, <3>5, <3>6 DEF StoreInv
  <2> QED BY <1>16, <2>1, <2>2 DEF ImportBegins
<1>17. ASSUME NEW c \in Clients, ImportLocks(c) PROVE StoreInv'
  <2>1. CASE TakesLock(c)
    <3>1. StoreTypes'
      BY <1>17, <2>1
      DEF ImportLocks, TakesLock, Goes, Rests, keyVars, directoryVars, StoreInv, StoreTypes
    <3>2. SecretIsKept'
      BY <1>17, <2>1
      DEF ImportLocks, TakesLock, Goes, Rests, keyVars, directoryVars, StoreInv, StoreTypes,
          SecretIsKept, FoundKey
    <3>3. CheckOpens'
      BY <1>17, <2>1
      DEF ImportLocks, TakesLock, Goes, Rests, keyVars, directoryVars, StoreInv, StoreTypes,
          SecretIsKept, CheckOpens, FoundKey
    <3>4. RingOpens'
      BY <1>17, <2>1
      DEF ImportLocks, TakesLock, Goes, Rests, keyVars, directoryVars, StoreInv, StoreTypes,
          RingOpens, HolderWrites
    <3>5. HolderWrites'
      BY <1>17, <2>1
      DEF ImportLocks, TakesLock, Goes, Rests, keyVars, directoryVars, StoreInv, StoreTypes,
          HolderWrites
    <3>6. SessionKeepsProfile'
      BY <1>17, <2>1
      DEF ImportLocks, TakesLock, Goes, Rests, keyVars, directoryVars, StoreInv, StoreTypes,
          HolderWrites, SessionKeepsProfile
    <3> QED BY <3>1, <3>2, <3>3, <3>4, <3>5, <3>6 DEF StoreInv
  <2>2. CASE Rests(c) /\ UNCHANGED lock
    <3>1. StoreTypes'
      BY <1>17, <2>2
      DEF ImportLocks, TakesLock, Goes, Rests, keyVars, directoryVars, StoreInv, StoreTypes
    <3>2. SecretIsKept'
      BY <1>17, <2>2
      DEF ImportLocks, TakesLock, Goes, Rests, keyVars, directoryVars, StoreInv, StoreTypes,
          SecretIsKept, FoundKey
    <3>3. CheckOpens'
      BY <1>17, <2>2
      DEF ImportLocks, TakesLock, Goes, Rests, keyVars, directoryVars, StoreInv, StoreTypes,
          SecretIsKept, CheckOpens, FoundKey
    <3>4. RingOpens'
      BY <1>17, <2>2
      DEF ImportLocks, TakesLock, Goes, Rests, keyVars, directoryVars, StoreInv, StoreTypes,
          RingOpens, HolderWrites
    <3>5. HolderWrites'
      BY <1>17, <2>2
      DEF ImportLocks, TakesLock, Goes, Rests, keyVars, directoryVars, StoreInv, StoreTypes,
          HolderWrites
    <3>6. SessionKeepsProfile'
      BY <1>17, <2>2
      DEF ImportLocks, TakesLock, Goes, Rests, keyVars, directoryVars, StoreInv, StoreTypes,
          HolderWrites, SessionKeepsProfile
    <3> QED BY <3>1, <3>2, <3>3, <3>4, <3>5, <3>6 DEF StoreInv
  <2> QED BY <1>17, <2>1, <2>2 DEF ImportLocks
<1>18. ASSUME NEW c \in Clients, Imports(c) PROVE StoreInv'
  BY <1>18
  DEF Imports, Goes, keyVars, directoryVars, StoreInv, StoreTypes, SecretIsKept, CheckOpens,
      RingOpens, HolderWrites, SessionKeepsProfile, FoundKey
<1>19. ASSUME NEW c \in Clients, CreateLists(c) PROVE StoreInv'
  BY <1>19
  DEF CreateLists, Goes, keyVars, directoryVars, StoreInv, StoreTypes, SecretIsKept, CheckOpens,
      RingOpens, HolderWrites, SessionKeepsProfile, FoundKey
<1>20. ASSUME NEW c \in Clients, CreateWrites(c) PROVE StoreInv'
  <2>1. StoreTypes'
    BY <1>20 DEF CreateWrites, Rests, keyVars, directoryVars, StoreInv, StoreTypes
  <2>2. SecretIsKept'
    BY <1>20
    DEF CreateWrites, Rests, keyVars, directoryVars, StoreInv, StoreTypes, SecretIsKept, FoundKey
  <2>3. CheckOpens'
    BY <1>20
    DEF CreateWrites, Rests, keyVars, directoryVars, StoreInv, StoreTypes, SecretIsKept,
        CheckOpens, FoundKey
  <2>4. RingOpens'
    BY <1>20
    DEF CreateWrites, Rests, keyVars, directoryVars, StoreInv, StoreTypes, RingOpens, HolderWrites
  <2>5. HolderWrites'
    BY <1>20 DEF CreateWrites, Rests, keyVars, directoryVars, StoreInv, StoreTypes, HolderWrites
  <2>6. SessionKeepsProfile'
    BY <1>20
    DEF CreateWrites, Rests, keyVars, directoryVars, StoreInv, StoreTypes, HolderWrites,
        SessionKeepsProfile
  <2> QED BY <2>1, <2>2, <2>3, <2>4, <2>5, <2>6 DEF StoreInv
<1>21. CASE UNCHANGED profileStoreVars
  BY <1>21
  DEF profileStoreVars, keyVars, directoryVars, StoreInv, StoreTypes, SecretIsKept, CheckOpens,
      RingOpens, HolderWrites, SessionKeepsProfile, FoundKey
<1> QED BY <1>1, <1>2, <1>3, <1>4, <1>5, <1>6, <1>7, <1>8, <1>9, <1>10, <1>11, <1>12, <1>13, <1>14,
   <1>15, <1>16, <1>17, <1>18, <1>19, <1>20, <1>21
DEF StoreNext

\* For any clients and however many keys and contents: a start finds the key of the
\* directory, the gateway that is up can read what is in it, and nobody replaces or
\* deletes a profile between the load and the save of a session.
THEOREM DirectoryKeepsProfiles == StoreSpec => []StoreKeeps
<1>1. ASSUME StoreInit PROVE StoreInv
  <2> USE StoreAssumption DEF EnvKey, NoCheck, NoBlob, Blobs, Doings, Stages
  <2>1. StoreTypes
    <3>1. Away \in [does : Doings, at : Stages, blob : Blobs]
      BY DEF Away
    <3>2. exported \subseteq Blobs
      BY <1>1 DEF StoreInit, Foreign
    <3> QED BY <1>1, <3>1, <3>2 DEF StoreInit, StoreTypes
  <2>2. \A c \in Clients : client[c] = Away
    BY <1>1 DEF StoreInit
  <2>3. SecretIsKept /\ CheckOpens
    BY <1>1 DEF StoreInit, SecretIsKept, CheckOpens
  <2>4. RingOpens /\ HolderWrites /\ SessionKeepsProfile
    BY <1>1, <2>2 DEF StoreInit, Away, RingOpens, HolderWrites, SessionKeepsProfile
  <2> QED BY <2>1, <2>3, <2>4 DEF StoreInv
<1>2. StoreInv => StoreKeeps
  BY DEF StoreInv, StoreKeeps, KeyOpensStore, StoredIsReadable, Readable, CheckOpens, RingOpens
<1> QED BY <1>1, <1>2, StoreStep, PTL DEF StoreSpec
=============================================================================
