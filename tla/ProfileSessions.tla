--------------------------- MODULE ProfileSessions ---------------------------
(***************************************************************************)
(* Sessions that open a profile: the lock taken on arrival, the attempts   *)
(* to connect with it, the capture that outlives the session, the lock     *)
(* given back, the drain at shutdown and a crash of the process.           *)
(*                                                                         *)
(* Four paths lead to a provider.  "plugin": the pipeline with a           *)
(* ProfilePlugin; "handoff": a browserserve provider, which is given the   *)
(* profile and asked for it afterwards; "inject": the byte pipe of a       *)
(* reconnection; "rest": the REST executor.  What a profile contains is    *)
(* left out: a save is told by its number and its author.                  *)
(***************************************************************************)
EXTENDS Naturals, Sequences, FiniteSets

CONSTANTS
  Sessions,      \* connections and REST requests that ask for a profile
  Profiles,
  None,
  Profile,       \* Profile[s]: the profile s asks for
  Paths,         \* Paths[s]: the paths of the attempts of s, in order
  ReadOnly,      \* sessions opened with readOnly=1
  UnknownPin,    \* sessions pinned to a provider that is not configured
  FragileStart   \* sessions whose upstream may close while the plugins start

Kinds == {"plugin", "handoff", "inject", "rest"}

ASSUME ProfileAssumption ==
  /\ None \notin Sessions
  /\ Profile \in [Sessions -> Profiles]
  /\ Paths \in [Sessions -> Seq(Kinds)]

VARIABLES
  blob,        \* blob[p]: data.enc, as the number of its save and its author
  held,        \* held[p]: the session whose token locks the profile directory
  pc,          \* pc[s]: where the handler of s is
  loaded,      \* loaded[s]: the number of the save that s decrypted
  turn,        \* turn[s]: how many attempts s has begun
  save,        \* save[s][n]: the saving side of attempt n, which outlives it
  awaited,     \* the commits drain() took a snapshot of
  process      \* "up", "draining", "exited" (after the drain), "killed"

vars == <<blob, held, pc, loaded, turn, save, awaited, process>>
sessionVars == <<pc, loaded, turn>>
storeVars == <<blob, held>>
processVars == <<awaited, process>>

AttemptsOf(s) == 1..Len(Paths[s])
Path(s) == Paths[s][turn[s]]

InFlight == {"polling", "capturing", "writing", "releasing"}

TypeOK ==
  /\ blob \in [Profiles -> [version : Nat, by : Sessions \cup {None}]]
  /\ held \in [Profiles -> Sessions \cup {None}]
  /\ pc \in [Sessions -> {"new", "locking", "loading", "routing", "starting", "live",
                          "ending", "ended", "refused", "lost"}]
  /\ loaded \in [Sessions -> Nat]
  /\ turn \in [Sessions -> Nat]
  /\ \A s \in Sessions : turn[s] <= Len(Paths[s])
  /\ save = [s \in Sessions |-> save[s]]
  /\ \A s \in Sessions : save[s] \in [AttemptsOf(s) -> {"idle", "done"} \cup InFlight]
  /\ process \in {"up", "draining", "exited", "killed"}

Init ==
  /\ blob = [p \in Profiles |-> [version |-> 0, by |-> None]]
  /\ held = [p \in Profiles |-> None]
  /\ pc = [s \in Sessions |-> "new"]
  /\ loaded = [s \in Sessions |-> 0]
  /\ turn = [s \in Sessions |-> 0]
  /\ save = [s \in Sessions |-> [n \in AttemptsOf(s) |-> "idle"]]
  /\ awaited = {}
  /\ process = "up"

Running == process \in {"up", "draining"}

Goto(s, place) == pc' = [pc EXCEPT ![s] = place]
Saving(s, n, step) == save' = [save EXCEPT ![s][n] = step]

-----------------------------------------------------------------------------
(* Locks. *)

\* release: nothing for a read-only session, or for a token given back before.
Unlock(s) == held' = [p \in Profiles |-> IF p = Profile[s] /\ held[p] = s THEN None ELSE held[p]]

\* The lock file of a process that ended is not refreshed and goes stale.
Lost == {s \in Sessions : pc[s] = "lost"}
Free(p) == held[p] \in {None} \cup Lost

Arrive(s) ==
  /\ pc[s] = "new" /\ process = "up" /\ s \notin ReadOnly
  /\ Goto(s, "locking")
  /\ UNCHANGED <<storeVars, loaded, turn, save, processVars>>

\* acquireReadOnly takes no lock; what it reads may be superseded at once.
ArriveReadOnly(s) ==
  /\ pc[s] = "new" /\ process = "up" /\ s \in ReadOnly
  /\ \/ Goto(s, "routing") /\ loaded' = [loaded EXCEPT ![s] = blob[Profile[s]].version]
     \/ Goto(s, "refused") /\ UNCHANGED loaded
  /\ UNCHANGED <<storeVars, turn, save, processVars>>

Lock(s) ==
  /\ pc[s] = "locking" /\ Running /\ Free(Profile[s])
  /\ held' = [held EXCEPT ![Profile[s]] = s]
  /\ Goto(s, "loading")
  /\ UNCHANGED <<blob, loaded, turn, save, processVars>>

\* LOCK_HELD until the deadline of the handler: HTTP 409.
GiveUp(s) ==
  /\ pc[s] = "locking" /\ Running /\ ~Free(Profile[s])
  /\ Goto(s, "refused")
  /\ UNCHANGED <<storeVars, loaded, turn, save, processVars>>

\* Mutant: a decrypted profile is kept from one session to the next.
LoadCached(s) ==
  /\ pc[s] = "loading" /\ Running
  /\ Goto(s, "routing")
  /\ UNCHANGED <<storeVars, loaded, turn, save, processVars>>

\* A blob that cannot be read or decrypted gives the lock back.
Load(s) ==
  /\ pc[s] = "loading" /\ Running
  /\ \/ /\ Goto(s, "routing")
        /\ loaded' = [loaded EXCEPT ![s] = blob[Profile[s]].version]
        /\ UNCHANGED held
     \/ Goto(s, "refused") /\ Unlock(s) /\ UNCHANGED loaded
  /\ UNCHANGED <<blob, turn, save, processVars>>

-----------------------------------------------------------------------------
(* Attempts. *)

\* The 400 for an unknown pin returns before the try block that releases.
RefusePin(s) ==
  /\ pc[s] = "routing" /\ Running /\ s \in UnknownPin
  /\ Goto(s, "refused")
  /\ UNCHANGED <<storeVars, loaded, turn, save, processVars>>

\* A reconnection is attempted before the pin is looked up.
Begin(s) ==
  /\ pc[s] = "routing" /\ Running
  /\ turn[s] < Len(Paths[s])
  /\ s \in UnknownPin => turn[s] = 0 /\ Paths[s][1] = "inject"
  /\ turn' = [turn EXCEPT ![s] = @ + 1]
  /\ Goto(s, "starting")
  /\ UNCHANGED <<storeVars, loaded, save, processVars>>

\* Mutant: an attempt that fails releases the profile.
AttemptFailsReleases(s) ==
  /\ pc[s] = "starting" /\ Running
  /\ Goto(s, "routing") /\ Unlock(s)
  /\ UNCHANGED <<blob, loaded, turn, save, processVars>>

\* The provider refuses, the injection or the drop-off fails, the browser holds
\* another profile: the next provider is tried.
AttemptFails(s) ==
  /\ pc[s] = "starting" /\ Running
  /\ Goto(s, "routing")
  /\ UNCHANGED <<storeVars, loaded, turn, save, processVars>>

\* finalize("upstream-closed") while start() is in onSessionStart runs every
\* plugin's onSessionEnd: a profile that may be saved is captured and released,
\* and start(), which has not returned yet, will fail.
UpstreamLost(s) ==
  /\ pc[s] = "starting" /\ Running /\ s \in FragileStart
  /\ Path(s) = "plugin" /\ save[s][turn[s]] = "idle"
  /\ Saving(s, turn[s], IF s \in ReadOnly THEN "done" ELSE "capturing")
  /\ UNCHANGED <<storeVars, sessionVars, processVars>>

Up(s) ==
  /\ pc[s] = "starting" /\ Running /\ save[s][turn[s]] = "idle"
  /\ Goto(s, "live")
  /\ UNCHANGED <<storeVars, loaded, turn, save, processVars>>

\* The REST executor gives the lock back when the action fails.
RestFails(s) ==
  /\ pc[s] \in {"starting", "live"} /\ Running /\ Path(s) = "rest"
  /\ Goto(s, "refused") /\ Unlock(s)
  /\ UNCHANGED <<blob, loaded, turn, save, processVars>>

\* All providers exhausted: the finally block releases.
Exhaust(s) ==
  /\ pc[s] = "routing" /\ Running /\ s \notin UnknownPin
  /\ turn[s] = Len(Paths[s])
  /\ Goto(s, "refused") /\ Unlock(s)
  /\ UNCHANGED <<blob, loaded, turn, save, processVars>>

\* Mutant: the lock is given back when the session ends, before the save.
EndReleases(s) ==
  /\ pc[s] = "live" /\ Running
  /\ Goto(s, IF Path(s) = "plugin" THEN "ending" ELSE "ended")
  /\ IF s \in ReadOnly THEN UNCHANGED save
     ELSE Saving(s, turn[s], IF Path(s) = "handoff" THEN "polling" ELSE "capturing")
  /\ Unlock(s)
  /\ UNCHANGED <<blob, loaded, turn, processVars>>

\* The session is over; a profile that may be saved is captured, or polled for.
End(s) ==
  /\ pc[s] = "live" /\ Running
  /\ Goto(s, IF Path(s) = "plugin" THEN "ending" ELSE "ended")
  /\ IF s \in ReadOnly THEN UNCHANGED save
     ELSE Saving(s, turn[s], IF Path(s) = "handoff" THEN "polling" ELSE "capturing")
  /\ UNCHANGED <<storeVars, loaded, turn, processVars>>

\* run() resolves when onSessionEnd is done, or after its 15 seconds.
Untrack(s) ==
  /\ pc[s] = "ending" /\ Running
  /\ Goto(s, "ended")
  /\ UNCHANGED <<storeVars, loaded, turn, save, processVars>>

-----------------------------------------------------------------------------
(* Saving. *)

\* pickUpProfile: the captured profile, or an error, or nothing in 20 seconds.
PickUp(s, n) ==
  /\ save[s][n] = "polling" /\ Running
  /\ \E step \in {"writing", "releasing"} : Saving(s, n, step)
  /\ UNCHANGED <<storeVars, sessionVars, processVars>>

\* Mutant: an empty capture returns at once.
CaptureKeepsLock(s, n) ==
  /\ save[s][n] = "capturing" /\ Running
  /\ \E step \in {"writing", "done"} : Saving(s, n, step)
  /\ UNCHANGED <<storeVars, sessionVars, processVars>>

\* A failed, empty or refused capture leaves the stored profile as it is.
Capture(s, n) ==
  /\ save[s][n] = "capturing" /\ Running
  /\ \E step \in {"writing", "releasing"} : Saving(s, n, step)
  /\ UNCHANGED <<storeVars, sessionVars, processVars>>

\* encodeAndStore: the file is replaced as a whole, or not at all.
Write(s, n) ==
  /\ save[s][n] = "writing" /\ Running
  /\ LET p == Profile[s]
     IN  \/ blob' = [blob EXCEPT ![p] = [version |-> @.version + 1, by |-> s]]
         \/ UNCHANGED blob
  /\ Saving(s, n, "releasing")
  /\ UNCHANGED <<held, sessionVars, processVars>>

Release(s, n) ==
  /\ save[s][n] = "releasing" /\ Running
  /\ Unlock(s) /\ Saving(s, n, "done")
  /\ UNCHANGED <<blob, sessionVars, processVars>>

-----------------------------------------------------------------------------
(* The process. *)

\* pendingCommits: commit() adds its promise, commitCaptured() does not.
PendingCommits ==
  {c \in UNION {{s} \X AttemptsOf(s) : s \in Sessions} :
     Paths[c[1]][c[2]] \in {"inject", "rest"} /\ save[c[1]][c[2]] \in InFlight}

\* gracefulShutdown found no tracked session; drain() takes its snapshot.
BeginDrain ==
  /\ process = "up"
  /\ \A s \in Sessions : pc[s] \in {"live", "ending"} => Path(s) = "rest"
  /\ process' = "draining" /\ awaited' = PendingCommits
  /\ UNCHANGED <<storeVars, sessionVars, save>>

Exit ==
  /\ process = "draining" /\ awaited \cap PendingCommits = {}
  /\ process' = "exited"
  /\ UNCHANGED <<storeVars, sessionVars, save, awaited>>

\* The drain times out, or the process crashes.
Kill ==
  /\ Running
  /\ process' = "killed"
  /\ UNCHANGED <<storeVars, sessionVars, save, awaited>>

\* Nothing of the old process is left but the files, locks included.
Restart ==
  /\ ~Running
  /\ process' = "up" /\ awaited' = {}
  /\ pc' = [s \in Sessions |-> IF pc[s] = "new" THEN "new" ELSE "lost"]
  /\ save' = [s \in Sessions |-> [n \in AttemptsOf(s) |-> "idle"]]
  /\ UNCHANGED <<storeVars, loaded, turn>>

-----------------------------------------------------------------------------

Handle(s) ==
  \/ Arrive(s) \/ ArriveReadOnly(s) \/ Lock(s) \/ GiveUp(s) \/ Load(s)
  \/ RefusePin(s) \/ Begin(s) \/ AttemptFails(s) \/ UpstreamLost(s) \/ Up(s)
  \/ RestFails(s) \/ Exhaust(s) \/ End(s) \/ Untrack(s)

Persist(s, n) == PickUp(s, n) \/ Capture(s, n) \/ Write(s, n) \/ Release(s, n)

Next ==
  \/ \E s \in Sessions : Handle(s) \/ \E n \in AttemptsOf(s) : Persist(s, n)
  \/ BeginDrain \/ Exit \/ Kill \/ Restart

Spec == Init /\ [][Next]_vars

\* Pick-ups and captures are bounded by timeouts, and the writes by the disk.
Persisting == \E s \in Sessions : \E n \in AttemptsOf(s) : Persist(s, n)

FairSpec == Spec /\ WF_vars(Persisting)

-----------------------------------------------------------------------------
(* Properties. *)

\* Of the sessions that may save a profile, one at a time is connected with it:
\* failover, the capture of an earlier session and a stale lock admit no second.
OneSessionPerProfile ==
  \A s, t \in Sessions \ ReadOnly :
    pc[s] = "live" /\ pc[t] = "live" /\ Profile[s] = Profile[t] => s = t

\* A save replaces the state its session had loaded, and no later one: what
\* another session saved in between is never lost.
NoLostUpdate ==
  [][\A s \in Sessions :
       blob'[Profile[s]] # blob[Profile[s]] /\ blob'[Profile[s]].by = s
         => loaded[s] = blob[Profile[s]].version]_vars

\* A session that is over, or was refused, gives its lock back, on whatever path
\* it left, unless the process ends first.
DepartedReleases ==
  \A s \in Sessions :
    pc[s] \in {"refused", "ended"} ~>
      held[Profile[s]] # s \/ pc[s] = "lost" \/ ~Running

\* A process that exits after the drain leaves no captured state unsaved.
DrainSavesAll ==
  process = "exited" =>
    \A s \in Sessions : \A n \in AttemptsOf(s) : save[s][n] \notin InFlight

\* Locks and files make a register with one writer (ProfileRegister.tla).
Register == INSTANCE ProfileRegister WITH
  writer <- held, state <- blob, gone <- Lost
ImplementsRegister == Register!Spec
=============================================================================
