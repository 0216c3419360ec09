------------------------------ MODULE Providers ------------------------------
(***************************************************************************)
(* One provider id through its life: the configuration's entry, the file   *)
(* it is written to, the registry that routing reads, the probe that finds *)
(* out what the provider can do, and the timer that probes again.  Admin   *)
(* requests read the entry, wait for their body, and save; the process may *)
(* die, also while it writes the file, and starts again from the file.     *)
(*                                                                         *)
(* A provider's configuration is its address, a number given when it is    *)
(* saved, and whether it is enabled.  A file that was truncated and not    *)
(* written reads as no configuration, one cut short may not be readable.   *)
(***************************************************************************)
EXTENDS Naturals, FiniteSets, TLAPS

CONSTANTS
  Admins,       \* requests that may be served at a time
  MaxReprobes,  \* MAX_REPROBE_ATTEMPTS
  MaxSaves,     \* bound: configurations that are saved
  MaxObjects    \* bound: provider states that are created

ASSUME ProvidersAssumption ==
  IsFiniteSet(Admins) /\ {MaxReprobes, MaxSaves, MaxObjects} \subseteq Nat

VARIABLES
  process,   \* up, down
  table,     \* config.providers[id]
  file,      \* what the configuration file says of it
  edit,      \* of each request: what it has read and is about to save
  saves,     \* addresses given so far
  entry,     \* where the registry holds the provider
  object,    \* its state: a number; 0: none
  found,     \* the address whose probe the state carries; 0: none
  record,    \* the capability record
  inflight,  \* inflightProbes
  probes,    \* probes that run
  attempts,  \* reprobeAttempts
  timers,    \* reprobe timers that are set
  warm,      \* the provider's browser answers probes
  objects,   \* states created so far
  apart,     \* the file and the entry have parted
  spent      \* the attempts that an earlier provider of this id has used

registryVars == <<entry, object, found, record, inflight, attempts, objects, spent>>
adminVars == <<table, file, edit, saves, apart>>
providersVars == <<process, adminVars, registryVars, probes, timers, warm>>

Absent == [url |-> 0, on |-> FALSE]
Unreadable == [url |-> 0, on |-> TRUE]

NoEdit == [kind |-> "none", was |-> Absent, next |-> Absent]
NoRecord == [status |-> "none", url |-> 0]

\* The registry as one value, so that a handler may change it twice.
Registry == [entry |-> entry, object |-> object, found |-> found, record |-> record,
             inflight |-> inflight, attempts |-> attempts, objects |-> objects,
             probes |-> probes, spent |-> spent]

Becomes(r) ==
  /\ entry' = r.entry /\ object' = r.object /\ found' = r.found /\ record' = r.record
  /\ inflight' = r.inflight /\ attempts' = r.attempts /\ objects' = r.objects
  /\ probes' = r.probes /\ spent' = r.spent

ProvidersInit ==
  /\ process = "down" /\ table = Absent
  /\ file \in {Absent, [url |-> 1, on |-> TRUE], [url |-> 1, on |-> FALSE]}
  /\ edit = [a \in Admins |-> NoEdit]
  /\ saves = 1
  /\ entry = "none" /\ object = 0 /\ found = 0 /\ record = NoRecord
  /\ inflight = 0 /\ probes = {} /\ attempts = 0 /\ timers = 0
  /\ warm \in BOOLEAN /\ objects = 0 /\ apart = FALSE /\ spent = 0

(***************************************************************************)
(* The registry.                                                           *)
(***************************************************************************)

\* probe(): one probe at a time, and of providers in routing only.
Probed(r, url) ==
  IF r.inflight # 0 \/ r.entry # "live" THEN r
  ELSE [r EXCEPT !.record = [status |-> "probing", url |-> r.record.url],
                 !.probes = @ \cup {[object |-> r.object, url |-> url]},
                 !.inflight = r.object]

\* freshState.
Fresh(r) == [r EXCEPT !.object = r.objects + 1, !.objects = r.objects + 1, !.found = 0]

Register(r, url) ==
  Probed([Fresh(r) EXCEPT !.entry = "live", !.record = [status |-> "pending", url |-> 0]], url)

Enable(r, url) ==
  CASE r.entry = "off" ->
         Probed([r EXCEPT !.entry = "live",
                          !.record = IF @.status = "none" THEN [status |-> "pending", url |-> 0] ELSE @], url)
    [] r.entry = "live" -> r
    [] r.entry = "none" -> Register(r, url)

Disable(r) ==
  [(IF r.entry = "none" THEN Fresh(r) ELSE r) EXCEPT !.entry = "off", !.inflight = 0, !.attempts = 0, !.spent = 0]

\* remove(): the attempts stay, and the next provider of this id inherits them.
RemoveProvider(r) ==
  [r EXCEPT !.entry = "none", !.object = 0, !.found = 0, !.record = NoRecord,
            !.inflight = 0, !.spent = r.attempts]

\* applyProviderConfig.
Applied(r, config) == IF config.on THEN Enable(r, config.url) ELSE Disable(r)

\* Mutant: a failure of the probe ends the matter.
NoReprobe == UNCHANGED <<attempts, timers>>

\* scheduleReprobe.
ScheduleReprobe ==
  IF attempts < MaxReprobes
  THEN attempts' = attempts + 1 /\ timers' = timers + 1
  ELSE UNCHANGED <<attempts, timers>>

\* What the steps of a probe add up to: a browser that is not up yet lets each of
\* them fail, and every capability stays unknown.
Verdict == IF warm THEN "ready" ELSE "failed"

\* A probe answers, for whatever is registered under the id by then.
ProbeAnswers(p) ==
  /\ process = "up" /\ p \in probes
  /\ probes' = probes \ {p}
  /\ inflight' = 0
  /\ found' = CASE p.object # object -> found [] warm -> p.url [] OTHER -> 0
  /\ record' = [status |-> Verdict, url |-> p.url]
  /\ IF warm THEN attempts' = 0 /\ spent' = 0 /\ UNCHANGED timers
             ELSE ScheduleReprobe /\ UNCHANGED spent
  /\ UNCHANGED <<process, adminVars, entry, object, objects, warm>>

ReprobeFires ==
  /\ process = "up" /\ timers > 0
  /\ timers' = timers - 1
  /\ Becomes(Probed(Registry, table.url))
  /\ UNCHANGED <<process, adminVars, warm>>

\* POST capabilities/revalidate.
Revalidate ==
  /\ process = "up" /\ table # Absent
  /\ Becomes(Probed(Registry, table.url))
  /\ UNCHANGED <<process, adminVars, timers, warm>>

Warms ==
  /\ ~warm /\ warm' = TRUE
  /\ UNCHANGED <<process, adminVars, registryVars, probes, timers>>

(***************************************************************************)
(* The requests.                                                           *)
(***************************************************************************)

NextConfig(on) == [url |-> saves + 1, on |-> on]

\* POST and PUT read the entry, then await the body and its validation.
AddBegins(a, on) ==
  /\ process = "up" /\ edit[a] = NoEdit /\ table = Absent /\ saves < MaxSaves
  /\ edit' = [edit EXCEPT ![a] = [kind |-> "add", was |-> Absent, next |-> NextConfig(on)]]
  /\ saves' = saves + 1
  /\ UNCHANGED <<process, table, file, apart, registryVars, probes, timers, warm>>

ChangeBegins(a, on) ==
  /\ process = "up" /\ edit[a] = NoEdit /\ table # Absent /\ saves < MaxSaves
  /\ edit' = [edit EXCEPT ![a] = [kind |-> "change", was |-> table, next |-> NextConfig(on)]]
  /\ saves' = saves + 1
  /\ UNCHANGED <<process, table, file, apart, registryVars, probes, timers, warm>>

\* The state that applying a configuration may have to create.
RoomFor(n) == objects + n <= MaxObjects

\* saveProvider: the entry, the registry and the file change in one step.
SaveEdit(a) ==
  /\ process = "up" /\ edit[a] # NoEdit /\ RoomFor(1)
  /\ table' = edit[a].next /\ file' = edit[a].next /\ apart' = FALSE
  /\ Becomes(Applied(Registry, edit[a].next))
  /\ edit' = [edit EXCEPT ![a] = NoEdit]
  /\ UNCHANGED <<process, saves, timers, warm>>

\* Mutant: the roll-back of a new provider leaves it in the registry.
UndoneInTable(r, was) == IF was = Absent THEN r ELSE Applied(r, was)

\* The roll-back of persistConfigOrRollback: the entry that this request read.
Undone(r, was) == IF was = Absent THEN RemoveProvider(r) ELSE Applied(r, was)

\* The file cannot be written: it is left alone, or truncated.
SaveFails(a, left) ==
  /\ process = "up" /\ edit[a] # NoEdit /\ RoomFor(2)
  /\ table' = edit[a].was
  /\ Becomes(Undone(Applied(Registry, edit[a].next), edit[a].was))
  /\ file' = left
  /\ apart' = (apart \/ left # edit[a].was)
  /\ edit' = [edit EXCEPT ![a] = NoEdit]
  /\ UNCHANGED <<process, saves, timers, warm>>

\* DELETE, of a provider without connections.
Delete ==
  /\ process = "up" /\ table # Absent
  /\ table' = Absent /\ file' = Absent /\ apart' = FALSE
  /\ Becomes(RemoveProvider(Registry))
  /\ UNCHANGED <<process, edit, saves, timers, warm>>

\* The same when the file cannot be written: nothing is put back.
DeleteFails(left) ==
  /\ process = "up" /\ table # Absent
  /\ table' = Absent /\ file' = left /\ apart' = (apart \/ left # Absent)
  /\ Becomes(RemoveProvider(Registry))
  /\ UNCHANGED <<process, edit, saves, timers, warm>>

(***************************************************************************)
(* The process.                                                            *)
(***************************************************************************)

Forgets ==
  /\ process' = "down" /\ table' = Absent
  /\ edit' = [a \in Admins |-> NoEdit]
  /\ entry' = "none" /\ object' = 0 /\ found' = 0 /\ record' = NoRecord
  /\ inflight' = 0 /\ attempts' = 0 /\ spent' = 0 /\ probes' = {} /\ timers' = 0
  /\ UNCHANGED <<saves, objects, warm>>

ProcessDies ==
  /\ process = "up" /\ Forgets
  /\ UNCHANGED <<file, apart>>

\* It dies while writeConfig writes, for this provider or any other setting:
\* after the truncation, or half way.
DiesWriting(left) ==
  /\ process = "up"
  /\ Forgets
  /\ file' = left /\ apart' = TRUE

\* loadConfig and the constructor of Gateway; an empty file is taken for none.
Boots ==
  /\ process = "down" /\ file # Unreadable /\ RoomFor(1)
  /\ process' = "up" /\ table' = file /\ apart' = FALSE
  /\ Becomes(IF file = Absent THEN Registry ELSE IF file.on THEN Register(Registry, file.url) ELSE Disable(Registry))
  /\ UNCHANGED <<file, edit, saves, timers, warm>>

\* What a write that is cut short leaves.
Torn == {Absent, Unreadable}

Requests ==
  \/ \E a \in Admins : \/ \E on \in BOOLEAN : AddBegins(a, on) \/ ChangeBegins(a, on)
                       \/ SaveEdit(a)
                       \/ \E left \in Torn \cup {file} : SaveFails(a, left)
  \/ Delete
  \/ \E left \in Torn \cup {file} : DeleteFails(left)
  \/ Revalidate

ProbeSteps == ReprobeFires \/ \E p \in probes : ProbeAnswers(p)

ProvidersNext ==
  \/ Requests \/ ProbeSteps \/ Warms
  \/ ProcessDies \/ (\E left \in Torn : DiesWriting(left)) \/ Boots

ProvidersSpec == ProvidersInit /\ [][ProvidersNext]_providersVars /\ WF_providersVars(ProbeSteps)

(***************************************************************************)
(* Properties                                                              *)
(***************************************************************************)

\* Routing knows a provider if and only if the configuration has it, and holds
\* it back if and only if it is disabled there, whichever of the requests that
\* overlapped was rolled back (app.ts:497-510, registry.ts:42-77).
RoutingFollowsTable ==
  entry = IF process = "down" \/ table = Absent THEN "none" ELSE IF table.on THEN "live" ELSE "off"

\* The file says what the configuration says, but after a write that failed
\* or was cut short (app.ts:146-157).
FileFollowsTable == process = "up" /\ ~apart => file = table

\* The configuration governs: what is routed and what is on disk are what it says.
TableGoverns == RoutingFollowsTable /\ FileFollowsTable

\* A provider that warms up is found out, as long as probes of its own are
\* left to it (registry.ts:125-143).
WarmIsDetected ==
  entry = "live" /\ warm /\ attempts < MaxReprobes ~> record.status = "ready" \/ entry # "live"

\* A probe that is announced is made: no client waits for a record that stays
\* pending or probing.
ProbesSettle ==
  entry = "live" /\ record.status \in {"pending", "probing"} ~>
    record.status \in {"ready", "failed"} \/ entry # "live"

\* Probes come through.
ProbesComeThrough == WarmIsDetected /\ ProbesSettle

\* What a record says is what the provider that it is about has answered.
RecordIsOwn == record.status = "ready" => record.url = found

(***************************************************************************)
(* Proofs.                                                                 *)
(***************************************************************************)

\* A configuration that was saved has an address.
Configs == [url : Nat, on : BOOLEAN]
Edits == [kind : {"none", "add", "change"}, was : Configs, next : Configs]

ProvidersInv ==
  /\ table \in Configs /\ edit \in [Admins -> Edits] /\ saves \in Nat
  /\ process \in {"up", "down"}
  /\ \A a \in Admins : edit[a] # NoEdit => edit[a].next # Absent
  /\ RoutingFollowsTable /\ FileFollowsTable

\* The registry is a record of these fields, whatever is in them.
IsRegistry(r) ==
  r = [entry |-> r.entry, object |-> r.object, found |-> r.found, record |-> r.record,
       inflight |-> r.inflight, attempts |-> r.attempts, objects |-> r.objects,
       probes |-> r.probes, spent |-> r.spent]

\* A new state and a probe leave the provider where it is.
LEMMA ProbingMovesNone ==
  ASSUME NEW r, IsRegistry(r), NEW url
  PROVE  /\ IsRegistry(Fresh(r)) /\ Fresh(r).entry = r.entry
         /\ IsRegistry(Probed(r, url)) /\ Probed(r, url).entry = r.entry
<1>1. IsRegistry(Fresh(r)) /\ Fresh(r).entry = r.entry
  <2>1. PICK new : new = r.objects + 1
    OBVIOUS
  <2>2. PICK f : f = [r EXCEPT !.object = new, !.objects = new, !.found = 0]
    OBVIOUS
  <2>3. IsRegistry(f) /\ f.entry = r.entry
    BY <2>2 DEF IsRegistry
  <2> QED BY <2>1, <2>2, <2>3 DEF Fresh
<1>2. IsRegistry(Probed(r, url)) /\ Probed(r, url).entry = r.entry
  <2>1. CASE r.inflight # 0 \/ r.entry # "live"
    BY <2>1 DEF Probed
  <2>2. CASE ~(r.inflight # 0 \/ r.entry # "live")
    BY <2>2 DEF Probed, IsRegistry
  <2> QED BY <2>1, <2>2
<1> QED BY <1>1, <1>2

\* What is applied is where its configuration wants it, whatever was there.
LEMMA AppliedIsPlaced ==
  ASSUME NEW r, IsRegistry(r), r.entry \in {"none", "live", "off"}, NEW config
  PROVE  /\ IsRegistry(Applied(r, config))
         /\ Applied(r, config).entry = IF config.on THEN "live" ELSE "off"
<1>1. ASSUME NEW url PROVE IsRegistry(Register(r, url)) /\ Register(r, url).entry = "live"
  <2>1. PICK f, pending : f = Fresh(r) /\ IsRegistry(f) /\ pending = [status |-> "pending", url |-> 0]
    BY ProbingMovesNone
  <2>2. PICK new : new = [f EXCEPT !.entry = "live", !.record = pending]
    OBVIOUS
  <2>3. IsRegistry(new) /\ new.entry = "live"
    BY <2>1, <2>2 DEF IsRegistry
  <2>4. Register(r, url) = Probed(new, url)
    BY <2>1, <2>2 DEF Register
  <2> QED BY <2>3, <2>4, ProbingMovesNone
<1>2. ASSUME NEW url PROVE IsRegistry(Enable(r, url)) /\ Enable(r, url).entry = "live"
  <2>1. CASE r.entry = "none"
    BY <1>1, <2>1 DEF Enable
  <2>2. CASE r.entry = "live"
    BY <2>2 DEF Enable
  <2>3. CASE r.entry = "off"
    <3>1. PICK new : new = [r EXCEPT !.entry = "live",
                              !.record = IF @.status = "none" THEN [status |-> "pending", url |-> 0] ELSE @]
      OBVIOUS
    <3>2. IsRegistry(new) /\ new.entry = "live"
      BY <3>1 DEF IsRegistry
    <3>3. Enable(r, url) = Probed(new, url)
      BY <2>3, <3>1 DEF Enable
    <3> QED BY <3>2, <3>3, ProbingMovesNone
  <2> QED BY <2>1, <2>2, <2>3
<1>3. IsRegistry(Disable(r)) /\ Disable(r).entry = "off"
  <2>1. CASE r.entry = "none"
    <3>1. IsRegistry(Fresh(r))
      BY ProbingMovesNone
    <3>2. Disable(r) = [Fresh(r) EXCEPT !.entry = "off", !.inflight = 0, !.attempts = 0, !.spent = 0]
      BY <2>1 DEF Disable
    <3> QED BY <3>1, <3>2 DEF IsRegistry
  <2>2. CASE r.entry # "none"
    <3>1. Disable(r) = [r EXCEPT !.entry = "off", !.inflight = 0, !.attempts = 0, !.spent = 0]
      BY <2>2 DEF Disable
    <3> QED BY <3>1 DEF IsRegistry
  <2> QED BY <2>1, <2>2
<1> QED BY <1>2, <1>3 DEF Applied

\* What is undone is where the entry read before wants it.
LEMMA UndoneIsPlaced ==
  ASSUME NEW r, IsRegistry(r), r.entry \in {"none", "live", "off"}, NEW was
  PROVE  Undone(r, was).entry = IF was = Absent THEN "none" ELSE IF was.on THEN "live" ELSE "off"
<1>1. RemoveProvider(r).entry = "none"
  BY DEF RemoveProvider, IsRegistry
<1> QED BY <1>1, AppliedIsPlaced DEF Undone

\* The registry that is there.
LEMMA RegistryIsOne ==
  ASSUME ProvidersInv
  PROVE  IsRegistry(Registry) /\ Registry.entry = entry /\ entry \in {"none", "live", "off"}
BY DEF ProvidersInv, RoutingFollowsTable, Registry, IsRegistry

\* Every step of a request keeps the invariant.
LEMMA RequestsKeepTable == ASSUME ProvidersInv, Requests PROVE ProvidersInv'
<1>0. /\ table \in Configs /\ edit \in [Admins -> Edits] /\ saves \in Nat /\ process \in {"up", "down"}
      /\ \A a \in Admins : edit[a] # NoEdit => edit[a].next # Absent
      /\ RoutingFollowsTable /\ FileFollowsTable
  BY DEF ProvidersInv
<1>n. NoEdit \in Edits /\ Absent \in Configs
  BY DEF NoEdit, Absent, Edits, Configs
<1>r. IsRegistry(Registry) /\ Registry.entry = entry /\ entry \in {"none", "live", "off"}
  BY RegistryIsOne
<1>b. ASSUME NEW a \in Admins, NEW kind \in {"add", "change"}, NEW was \in Configs, NEW on \in BOOLEAN,
             edit' = [edit EXCEPT ![a] = [kind |-> kind, was |-> was, next |-> NextConfig(on)]],
             saves' = saves + 1, UNCHANGED <<process, table, file, apart, entry>>
      PROVE  ProvidersInv'
  <2>1. NextConfig(on) \in Configs /\ NextConfig(on) # Absent
    <3>1. NextConfig(on) = [url |-> saves + 1, on |-> on] /\ saves + 1 \in Nat /\ saves + 1 # 0
      BY <1>0 DEF NextConfig
    <3>2. NextConfig(on).url = saves + 1 /\ Absent.url = 0
      BY <3>1 DEF Absent
    <3> QED BY <3>1, <3>2 DEF Configs
  <2> DEFINE new == [kind |-> kind, was |-> was, next |-> NextConfig(on)]
  <2>2. new \in Edits /\ new.next # Absent
    BY <2>1 DEF Edits
  <2>3. edit' = [edit EXCEPT ![a] = new]
    BY <1>b
  <2> HIDE DEF new
  <2>4. edit' \in [Admins -> Edits] /\ \A d \in Admins : edit'[d] = IF d = a THEN new ELSE edit[d]
    BY <1>0, <2>2, <2>3
  <2>5. saves' \in Nat
    BY <1>0, <1>b
  <2>6. RoutingFollowsTable' /\ FileFollowsTable'
    BY <1>0, <1>b DEF RoutingFollowsTable, FileFollowsTable
  <2> QED BY <1>0, <1>b, <2>2, <2>4, <2>5, <2>6 DEF ProvidersInv
<1>1. ASSUME NEW a \in Admins, NEW on \in BOOLEAN, AddBegins(a, on) \/ ChangeBegins(a, on) PROVE ProvidersInv'
  BY <1>0, <1>1, <1>b, <1>n DEF AddBegins, ChangeBegins, registryVars
<1>e. ASSUME NEW a \in Admins, edit' = [edit EXCEPT ![a] = NoEdit]
      PROVE  edit' \in [Admins -> Edits] /\ \A d \in Admins : edit'[d] # NoEdit => edit'[d].next # Absent
  BY <1>0, <1>e, <1>n
<1>2. ASSUME NEW a \in Admins, SaveEdit(a) PROVE ProvidersInv'
  <2>1. /\ process = "up" /\ process' = process /\ saves' = saves /\ apart' = FALSE
        /\ table' = edit[a].next /\ file' = edit[a].next /\ edit' = [edit EXCEPT ![a] = NoEdit]
        /\ entry' = Applied(Registry, edit[a].next).entry
        /\ edit[a].next # Absent
    BY <1>0, <1>2 DEF SaveEdit, Becomes
  <2>2. entry' = IF edit[a].next.on THEN "live" ELSE "off"
    BY <1>r, <2>1, AppliedIsPlaced
  <2>3. table' \in Configs
    BY <1>0, <2>1 DEF Edits
  <2>4. RoutingFollowsTable' /\ FileFollowsTable'
    BY <2>1, <2>2 DEF RoutingFollowsTable, FileFollowsTable
  <2> QED BY <1>0, <1>e, <2>1, <2>3, <2>4 DEF ProvidersInv
<1>3. ASSUME NEW a \in Admins, NEW left, SaveFails(a, left) PROVE ProvidersInv'
  <2>1. /\ process = "up" /\ process' = process /\ saves' = saves
        /\ table' = edit[a].was /\ file' = left /\ edit' = [edit EXCEPT ![a] = NoEdit]
        /\ entry' = Undone(Applied(Registry, edit[a].next), edit[a].was).entry
        /\ apart' = (apart \/ left # edit[a].was)
    BY <1>3 DEF SaveFails, Becomes
  <2>2. /\ IsRegistry(Applied(Registry, edit[a].next))
        /\ Applied(Registry, edit[a].next).entry \in {"none", "live", "off"}
    BY <1>r, AppliedIsPlaced
  <2>3. entry' = IF edit[a].was = Absent THEN "none" ELSE IF edit[a].was.on THEN "live" ELSE "off"
    BY <2>1, <2>2, UndoneIsPlaced
  <2>4. table' \in Configs
    BY <1>0, <2>1 DEF Edits
  <2>5. RoutingFollowsTable' /\ FileFollowsTable'
    BY <2>1, <2>3 DEF RoutingFollowsTable, FileFollowsTable
  <2> QED BY <1>0, <1>e, <2>1, <2>4, <2>5 DEF ProvidersInv
<1>4. ASSUME Delete \/ \E left \in Torn \cup {file} : DeleteFails(left) PROVE ProvidersInv'
  <2>1. PICK left : /\ process = "up" /\ UNCHANGED <<process, edit, saves>>
                    /\ table' = Absent /\ file' = left /\ entry' = RemoveProvider(Registry).entry
                    /\ ~apart' => left = Absent
    BY <1>4 DEF Delete, DeleteFails, Becomes
  <2>2. entry' = "none"
    BY <1>r, <2>1 DEF RemoveProvider, IsRegistry
  <2>3. RoutingFollowsTable' /\ FileFollowsTable'
    BY <2>1, <2>2 DEF RoutingFollowsTable, FileFollowsTable
  <2> QED BY <1>0, <1>n, <2>1, <2>3 DEF ProvidersInv
<1>5. ASSUME Revalidate PROVE ProvidersInv'
  <2>1. UNCHANGED <<process, table, file, edit, saves, apart>> /\ entry' = Probed(Registry, table.url).entry
    BY <1>5 DEF Revalidate, Becomes, adminVars
  <2>2. entry' = entry
    BY <1>r, <2>1, ProbingMovesNone
  <2> QED BY <1>0, <2>1, <2>2 DEF ProvidersInv, RoutingFollowsTable, FileFollowsTable
<1> QED BY <1>1, <1>2, <1>3, <1>4, <1>5 DEF Requests

\* So does every step of the probes and of the process.
LEMMA ProcessKeepsTable ==
  ASSUME ProvidersInv, file \in Configs,
         \/ ProbeSteps \/ Warms \/ ProcessDies \/ (\E left \in Torn : DiesWriting(left)) \/ Boots
         \/ UNCHANGED providersVars
  PROVE  ProvidersInv'
<1>0. /\ table \in Configs /\ edit \in [Admins -> Edits] /\ saves \in Nat /\ process \in {"up", "down"}
      /\ \A a \in Admins : edit[a] # NoEdit => edit[a].next # Absent
      /\ RoutingFollowsTable /\ FileFollowsTable
  BY DEF ProvidersInv
<1>n. NoEdit \in Edits /\ Absent \in Configs
  BY DEF NoEdit, Absent, Edits, Configs
<1>r. IsRegistry(Registry) /\ Registry.entry = entry /\ entry \in {"none", "live", "off"}
  BY RegistryIsOne
<1>s. (UNCHANGED <<process, table, file, edit, saves, apart, entry>>) => ProvidersInv'
  BY <1>0 DEF ProvidersInv, RoutingFollowsTable, FileFollowsTable
<1>1. ASSUME NEW p, ProbeAnswers(p) PROVE ProvidersInv'
  BY <1>1, <1>s DEF ProbeAnswers, adminVars
<1>2. CASE ReprobeFires
  <2>1. UNCHANGED <<process, table, file, edit, saves, apart>> /\ entry' = Probed(Registry, table.url).entry
    BY <1>2 DEF ReprobeFires, Becomes, adminVars
  <2>2. entry' = entry
    BY <1>r, <2>1, ProbingMovesNone
  <2> QED BY <1>s, <2>1, <2>2
<1>3. CASE Warms \/ UNCHANGED providersVars
  BY <1>3, <1>s DEF Warms, adminVars, registryVars, providersVars
<1>4. ASSUME Forgets PROVE ProvidersInv'
  <2>1. /\ process' = "down" /\ table' = Absent /\ entry' = "none" /\ saves' = saves
        /\ edit' = [a \in Admins |-> NoEdit]
    BY <1>4 DEF Forgets
  <2> QED BY <1>0, <1>n, <2>1 DEF ProvidersInv, RoutingFollowsTable, FileFollowsTable
<1>5. CASE ProcessDies \/ \E left \in Torn : DiesWriting(left)
  BY <1>4, <1>5 DEF ProcessDies, DiesWriting
<1>6. CASE Boots
  <2>1. /\ process = "down" /\ process' = "up" /\ table' = file /\ file' = file /\ edit' = edit /\ saves' = saves
        /\ entry' = (IF file = Absent THEN Registry
                     ELSE IF file.on THEN Register(Registry, file.url) ELSE Disable(Registry)).entry
    BY <1>6 DEF Boots, Becomes
  <2>2. entry = "none"
    BY <1>0, <2>1 DEF RoutingFollowsTable
  <2>3. entry' = IF file = Absent THEN "none" ELSE IF file.on THEN "live" ELSE "off"
    <3>1. CASE file = Absent
      BY <1>r, <2>1, <2>2, <3>1
    <3>2. CASE file # Absent /\ file.on
      <4>1. Applied(Registry, file) = Register(Registry, file.url)
        BY <1>r, <2>2, <3>2 DEF Applied, Enable
      <4> QED BY <1>r, <2>1, <3>2, <4>1, AppliedIsPlaced
    <3>3. CASE file # Absent /\ ~file.on
      <4>1. Applied(Registry, file) = Disable(Registry)
        BY <3>3 DEF Applied
      <4> QED BY <1>r, <2>1, <3>3, <4>1, AppliedIsPlaced
    <3> QED BY <3>1, <3>2, <3>3
  <2> QED BY <1>0, <2>1, <2>3 DEF ProvidersInv, RoutingFollowsTable, FileFollowsTable
<1> QED BY <1>1, <1>2, <1>3, <1>5, <1>6 DEF ProbeSteps

\* What is on disk is a configuration, however the write of it ended.
LEMMA FileStaysOne ==
  ASSUME ProvidersInv, file \in Configs, [ProvidersNext]_providersVars
  PROVE  file' \in Configs
<1>1. Torn \subseteq Configs /\ Absent \in Configs
  BY DEF Torn, Absent, Unreadable, Configs
<1>2. \A a \in Admins : edit[a].next \in Configs
  BY DEF ProvidersInv, Edits
<1> QED
  BY <1>1, <1>2
     DEF ProvidersNext, Requests, AddBegins, ChangeBegins, SaveEdit, SaveFails, Delete, DeleteFails, Revalidate,
         ProbeSteps, ReprobeFires, ProbeAnswers, Warms, ProcessDies, DiesWriting, Boots, adminVars, providersVars

\* Whichever of the requests that overlap is rolled back, whatever the file is left as and
\* wherever the process dies: routing and the file say what the configuration says
\* (app.ts:497-510, registry.ts:42-77).
THEOREM TableStaysGoverning == ProvidersSpec => []TableGoverns
<1>1. ProvidersInit => ProvidersInv /\ file \in Configs
  <2> SUFFICES ASSUME ProvidersInit PROVE ProvidersInv /\ file \in Configs
    OBVIOUS
  <2>1. NoEdit \in Edits /\ Absent \in Configs /\ [url |-> 1, on |-> TRUE] \in Configs
        /\ [url |-> 1, on |-> FALSE] \in Configs
    BY DEF NoEdit, Edits, Absent, Configs
  <2>2. edit \in [Admins -> Edits] /\ \A a \in Admins : edit[a] = NoEdit
    BY <2>1 DEF ProvidersInit
  <2> QED BY <2>1, <2>2 DEF ProvidersInit, ProvidersInv, RoutingFollowsTable, FileFollowsTable
<1>2. ProvidersInv /\ file \in Configs /\ [ProvidersNext]_providersVars => ProvidersInv' /\ (file \in Configs)'
  BY RequestsKeepTable, ProcessKeepsTable, FileStaysOne DEF ProvidersNext
<1>3. ProvidersInv => TableGoverns
  BY DEF ProvidersInv, TableGoverns
<1> QED BY <1>1, <1>2, <1>3, PTL DEF ProvidersSpec
=============================================================================
