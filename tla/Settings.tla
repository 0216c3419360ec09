------------------------------- MODULE Settings -------------------------------
(***************************************************************************)
(* The settings an administrator changes while the gateway runs (app.ts,   *)
(* rest/profiles.ts): proxies, session defaults, webhooks, the routing and *)
(* advanced settings, the profiles switch, the providers as far as the     *)
(* start looks at them, and the raw file.  gateway.config is the live      *)
(* record; every accepted change writes all of it to gateway.yml, which is *)
(* read again when the gateway starts.  A handler reads its body across an *)
(* await; only what it had read before that can be stale.                  *)
(***************************************************************************)
EXTENDS Naturals, Sequences, SequencesExt, TLAPS

CONSTANTS Editors,   \* requests under way
          Proxies, Hooks,
          NoProxy, Hole,
          MaxHooks, MaxChanges

ASSUME SettingsAssumption == NoProxy \notin Proxies /\ Hole \notin Hooks

VARIABLES
  config,   \* gateway.config of the running gateway
  yml,      \* gateway.yml
  server,   \* "down", "up", or "refused": the start ended with an error
  editing,  \* what a request that reads its body has looked up
  raw,      \* the file was edited by hand and waits for a restart
  adrift,   \* a change that was not saved was not taken back either
  changes   \* bound on the requests

settingsVars == <<config, yml, server, editing, raw, adrift, changes>>

\* `provider` stands for all of them: none, one in routing, or disabled ones.
SettingsConfigs ==
  [proxies : SUBSET Proxies, defaults : Proxies \cup {NoProxy}, hooks : UNION {[1..n -> Hooks] : n \in 0..MaxHooks},
   tuning : BOOLEAN, profiles : BOOLEAN, provider : {"none", "on", "off"}]

Idle == [of |-> "nothing"]

\* The file the gateway seeds on a fresh data directory.
Seed == [proxies |-> {}, defaults |-> NoProxy, hooks |-> <<>>, tuning |-> FALSE, profiles |-> FALSE, provider |-> "none"]

SettingsInit ==
  /\ yml = Seed /\ config = Seed
  /\ server = "down"
  /\ editing = [e \in Editors |-> Idle]
  /\ raw = FALSE /\ adrift = FALSE /\ changes = 0

----------------------------------------------------------------------------
(* The file *)

\* Mutant: the session defaults are written with the proxies only.
WithoutDefaults(c) == IF c.proxies = {} THEN c ELSE [c EXCEPT !.defaults = NoProxy]
\* writeConfig: what is left out is what loadConfig takes as the default.
Written(c) == c

\* persistConfigOrRollback: the change stays with the file, or is taken back.
Save(next, previous) ==
  \/ config' = next /\ yml' = Written(next) /\ raw' = FALSE /\ adrift' = FALSE
  \/ config' = previous /\ adrift' = (adrift \/ previous # config) /\ UNCHANGED <<yml, raw>>

\* The same without a rollback: DELETE of a provider, the profiles switch.
SaveOrDrift(next) ==
  \/ config' = next /\ yml' = Written(next) /\ raw' = FALSE /\ adrift' = FALSE
  \/ config' = next /\ adrift' = TRUE /\ UNCHANGED <<yml, raw>>

\* loadConfig: GatewayConfigSchema, validateProfileEligibility.
Loadable(c) ==
  /\ \A i \in DOMAIN c.hooks : c.hooks[i] # Hole
  /\ c.profiles => c.provider = "on"

Starts ==
  /\ server = "down" /\ Loadable(yml)
  /\ server' = "up" /\ config' = yml /\ raw' = FALSE /\ adrift' = FALSE
  /\ UNCHANGED <<yml, editing, changes>>

StartRefused ==
  /\ server = "down" /\ ~Loadable(yml)
  /\ server' = "refused"
  /\ UNCHANGED <<config, yml, editing, raw, adrift, changes>>

Stops ==
  /\ server = "up" /\ server' = "down"
  /\ editing' = [e \in Editors |-> Idle]
  /\ UNCHANGED <<config, yml, raw, adrift, changes>>

----------------------------------------------------------------------------
(* Requests that look their target up when they have their body *)

Handles ==
  /\ server = "up" /\ changes < MaxChanges /\ changes' = changes + 1
  /\ UNCHANGED <<server, editing>>

\* PUT /v1/config/strategy, /v1/config/advanced.
Tune == Handles /\ Save([config EXCEPT !.tuning = ~@], config)

\* parseSessionDefaultsBody.
Known(n, proxies) == n = NoProxy \/ n \in proxies

SetDefaults(n) == Handles /\ Known(n, config.proxies) /\ Save([config EXCEPT !.defaults = n], config)

AddProxy(n) ==
  /\ Handles /\ n \notin config.proxies
  /\ Save([config EXCEPT !.proxies = @ \cup {n}], config)

\* Mutant: the default proxy can be deleted.
InUseByNone(n) == FALSE
InUse(n) == config.defaults = n

DeleteProxy(n) ==
  /\ Handles /\ n \in config.proxies /\ ~InUse(n)
  /\ Save([config EXCEPT !.proxies = @ \ {n}], config)

AddHook(h) ==
  /\ Handles /\ Len(config.hooks) < MaxHooks
  /\ Save([config EXCEPT !.hooks = Append(@, h)], config)

DeleteHook(i) ==
  /\ Handles /\ i \in DOMAIN config.hooks
  /\ Save([config EXCEPT !.hooks = RemoveAt(@, i)], config)

\* enableProfilesFlow: a switch that is on already is not written again.
EnableProfiles ==
  /\ Handles
  /\ IF config.profiles THEN UNCHANGED <<config, yml, raw, adrift>> ELSE SaveOrDrift([config EXCEPT !.profiles = TRUE])

DisableProfiles ==
  /\ Handles
  /\ IF ~config.profiles THEN UNCHANGED <<config, yml, raw, adrift>> ELSE SaveOrDrift([config EXCEPT !.profiles = FALSE])

\* POST and PUT of a provider.
ChangeProvider(p) == Handles /\ p # "none" /\ Save([config EXCEPT !.provider = p], config)

DeleteProvider == Handles /\ config.provider # "none" /\ SaveOrDrift([config EXCEPT !.provider = "none"])

\* PUT /v1/config: the file is replaced and the live record is left alone.  The
\* schema lets a default proxy through that is not configured.
PutConfig(c) ==
  /\ Handles
  /\ yml' = c /\ raw' = TRUE /\ UNCHANGED <<config, adrift>>

----------------------------------------------------------------------------
(* Requests that look it up before they read their body *)

\* PUT /v1/webhooks/:index, PUT /v1/proxies/:name.
Looks(e, at) ==
  /\ server = "up" /\ editing[e] = Idle /\ changes < MaxChanges
  /\ changes' = changes + 1
  /\ \/ at.of = "hook" /\ at.index \in DOMAIN config.hooks
     \/ at.of = "proxy" /\ at.name \in config.proxies
  /\ editing' = [editing EXCEPT ![e] = at]
  /\ UNCHANGED <<config, yml, server, raw, adrift>>

\* webhooks[index] = ...: past the end of the array this leaves holes.
PutAt(hooks, i, h) == [j \in 1..(IF i > Len(hooks) THEN i ELSE Len(hooks)) |->
                         IF j = i THEN h ELSE IF j <= Len(hooks) THEN hooks[j] ELSE Hole]

PutHook(e, h) ==
  /\ server = "up" /\ editing[e].of = "hook"
  /\ LET i == editing[e].index IN
     Save([config EXCEPT !.hooks = PutAt(@, i, h)],
          [config EXCEPT !.hooks = IF i > Len(@) THEN PutAt(@, i, Hole) ELSE @])
  /\ editing' = [editing EXCEPT ![e] = Idle] /\ UNCHANGED <<server, changes>>

\* buildProxyConfig on the entry found before: it is put back if it was deleted.
PutProxy(e) ==
  /\ server = "up" /\ editing[e].of = "proxy"
  /\ LET back == [config EXCEPT !.proxies = @ \cup {editing[e].name}] IN Save(back, back)
  /\ editing' = [editing EXCEPT ![e] = Idle] /\ UNCHANGED <<server, changes>>

Lookups == [of : {"hook"}, index : 1..MaxHooks] \cup [of : {"proxy"}, name : Proxies]

RawFiles == {c \in SettingsConfigs : Len(c.hooks) = 0 /\ ~c.tuning}

SettingsNext ==
  \/ Starts \/ StartRefused \/ Stops \/ Tune \/ EnableProfiles \/ DisableProfiles \/ DeleteProvider
  \/ \E n \in Proxies \cup {NoProxy} : SetDefaults(n)
  \/ \E n \in Proxies : AddProxy(n) \/ DeleteProxy(n)
  \/ \E h \in Hooks : AddHook(h)
  \/ \E i \in 1..MaxHooks : DeleteHook(i)
  \/ \E p \in {"on", "off"} : ChangeProvider(p)
  \/ \E c \in RawFiles : PutConfig(c)
  \/ \E e \in Editors : \/ \E at \in Lookups : Looks(e, at)
                        \/ \E h \in Hooks : PutHook(e, h)
                        \/ PutProxy(e)

SettingsSpec == SettingsInit /\ [][SettingsNext]_settingsVars

----------------------------------------------------------------------------
(* Properties *)

DefaultKnown == Known(config.defaults, config.proxies)

\* No request leaves new sessions with a default proxy that is gone: not its
\* deletion, a change of the default, a late edit, nor a save that is taken back.
\* (A file edited by hand may name one the gateway then starts with.)
DefaultIsConfigured == [][server = "up" /\ DefaultKnown => DefaultKnown']_settingsVars

\* What the gateway runs with is what it would start with, unless the file was
\* edited by hand since or a save failed that the code does not take back.
FileSaysAll == server = "up" /\ ~raw /\ ~adrift => yml = config

\* A gateway that ran starts again on the file it kept.
StartsAgain == server # "refused"

----------------------------------------------------------------------------
(* Proofs *)

\* The settings are a record of these fields, whatever is in them.
IsSettings(c) ==
  c = [proxies |-> c.proxies, defaults |-> c.defaults, hooks |-> c.hooks,
       tuning |-> c.tuning, profiles |-> c.profiles, provider |-> c.provider]

SettingsInv == IsSettings(config) /\ IsSettings(yml) /\ FileSaysAll

\* What a change may be: its outcome has a known default if there was one before, and a
\* roll-back that differs from what was there is noted.
LEMMA SavingKeeps ==
  ASSUME SettingsInv, NEW next, NEW previous, IsSettings(next), IsSettings(previous),
         DefaultKnown => Known(next.defaults, next.proxies) /\ Known(previous.defaults, previous.proxies),
         Save(next, previous), server' = server
  PROVE  SettingsInv' /\ (DefaultKnown => DefaultKnown')
BY DEF SettingsInv, Save, Written, FileSaysAll, DefaultKnown, Known, IsSettings

\* So may one that is not rolled back.
LEMMA DriftingKeeps ==
  ASSUME SettingsInv, NEW next, IsSettings(next),
         DefaultKnown => Known(next.defaults, next.proxies), SaveOrDrift(next), server' = server
  PROVE  SettingsInv' /\ (DefaultKnown => DefaultKnown')
BY DEF SettingsInv, SaveOrDrift, Written, FileSaysAll, DefaultKnown, Known, IsSettings

\* One field is changed and the others are kept.
LEMMA FieldsKept ==
  ASSUME NEW c, IsSettings(c), NEW x, NEW n
  PROVE  /\ n = [c EXCEPT !.proxies = x] => IsSettings(n) /\ n.proxies = x /\ n.defaults = c.defaults
         /\ n = [c EXCEPT !.defaults = x] => IsSettings(n) /\ n.proxies = c.proxies /\ n.defaults = x
         /\ \/ n = [c EXCEPT !.hooks = x]
            \/ n = [c EXCEPT !.tuning = x]
            \/ n = [c EXCEPT !.profiles = x]
            \/ n = [c EXCEPT !.provider = x]
            => IsSettings(n) /\ n.proxies = c.proxies /\ n.defaults = c.defaults
BY DEF IsSettings

\* Every request keeps the invariant, and a default that is known.
LEMMA RequestsKeep ==
  ASSUME SettingsInv, SettingsNext, server = "up", ~Stops
  PROVE  SettingsInv' /\ (DefaultKnown => DefaultKnown')
<1> DEFINE Goal == SettingsInv' /\ (DefaultKnown => DefaultKnown')
<1>c. IsSettings(config) /\ (DefaultKnown <=> Known(config.defaults, config.proxies))
  BY DEF SettingsInv, DefaultKnown
<1>k. ASSUME NEW next, NEW previous, Save(next, previous), server' = server,
             IsSettings(next), IsSettings(previous), next.defaults = config.defaults, next.proxies = config.proxies,
             previous.defaults = config.defaults, previous.proxies = config.proxies
      PROVE  Goal
  BY <1>c, <1>k, SavingKeeps
<1>d. ASSUME NEW next, SaveOrDrift(next), server' = server,
             IsSettings(next), next.defaults = config.defaults, next.proxies = config.proxies
      PROVE  Goal
  BY <1>c, <1>d, DriftingKeeps
<1>s. (UNCHANGED <<config, yml, server, raw, adrift>>) => Goal
  BY DEF SettingsInv, FileSaysAll, DefaultKnown
<1> HIDE DEF Goal
<1>1. ASSUME Tune PROVE Goal
  <2>1. PICK next : next = [config EXCEPT !.tuning = ~config.tuning]
    OBVIOUS
  <2>2. server' = server /\ Save(next, config)
    BY <1>1, <2>1 DEF Tune, Handles
  <2>3. IsSettings(next) /\ next.proxies = config.proxies /\ next.defaults = config.defaults
    BY <1>c, <2>1, FieldsKept
  <2> QED BY <1>c, <1>k, <2>2, <2>3
<1>2. ASSUME EnableProfiles PROVE Goal
  <2>1. PICK next : next = [config EXCEPT !.profiles = TRUE]
    OBVIOUS
  <2>2. server' = server /\ (UNCHANGED <<config, yml, raw, adrift>> \/ SaveOrDrift(next))
    BY <1>2, <2>1 DEF EnableProfiles, Handles
  <2>3. IsSettings(next) /\ next.proxies = config.proxies /\ next.defaults = config.defaults
    BY <1>c, <2>1, FieldsKept
  <2>4. CASE UNCHANGED <<config, yml, raw, adrift>>
    BY <1>s, <2>2, <2>4
  <2>5. CASE SaveOrDrift(next)
    BY <1>d, <2>2, <2>3, <2>5
  <2> QED BY <2>2, <2>4, <2>5
<1>3. ASSUME DisableProfiles PROVE Goal
  <2>1. PICK next : next = [config EXCEPT !.profiles = FALSE]
    OBVIOUS
  <2>2. server' = server /\ (UNCHANGED <<config, yml, raw, adrift>> \/ SaveOrDrift(next))
    BY <1>3, <2>1 DEF DisableProfiles, Handles
  <2>3. IsSettings(next) /\ next.proxies = config.proxies /\ next.defaults = config.defaults
    BY <1>c, <2>1, FieldsKept
  <2>4. CASE UNCHANGED <<config, yml, raw, adrift>>
    BY <1>s, <2>2, <2>4
  <2>5. CASE SaveOrDrift(next)
    BY <1>d, <2>2, <2>3, <2>5
  <2> QED BY <2>2, <2>4, <2>5
<1>4. ASSUME DeleteProvider PROVE Goal
  <2>1. PICK next : next = [config EXCEPT !.provider = "none"]
    OBVIOUS
  <2>2. server' = server /\ SaveOrDrift(next)
    BY <1>4, <2>1 DEF DeleteProvider, Handles
  <2>3. IsSettings(next) /\ next.proxies = config.proxies /\ next.defaults = config.defaults
    BY <1>c, <2>1, FieldsKept
  <2> QED BY <1>d, <2>2, <2>3
<1>5. ASSUME NEW n \in Proxies \cup {NoProxy}, SetDefaults(n) PROVE Goal
  <2>1. PICK next : next = [config EXCEPT !.defaults = n]
    OBVIOUS
  <2>2. IsSettings(next) /\ next.proxies = config.proxies /\ next.defaults = n
    BY <1>c, <2>1, FieldsKept
  <2>3. Known(n, config.proxies) /\ Save(next, config) /\ server' = server
    BY <1>5, <2>1 DEF SetDefaults, Handles
  <2> QED BY <1>c, <2>2, <2>3, SavingKeeps DEF Goal
<1>6. ASSUME NEW n \in Proxies, AddProxy(n) PROVE Goal
  <2>1. PICK next : next = [config EXCEPT !.proxies = config.proxies \cup {n}]
    OBVIOUS
  <2>2. /\ IsSettings(next) /\ next.defaults = config.defaults /\ next.proxies = config.proxies \cup {n}
    BY <1>c, <2>1, FieldsKept
  <2>3. Save(next, config) /\ server' = server
    BY <1>6, <1>c, <2>1 DEF AddProxy, Handles, IsSettings
  <2>4. DefaultKnown => Known(next.defaults, next.proxies)
    BY <1>c, <2>2 DEF Known
  <2> QED BY <1>c, <2>2, <2>3, <2>4, SavingKeeps DEF Goal
<1>7. ASSUME NEW n \in Proxies, DeleteProxy(n) PROVE Goal
  <2>1. PICK next : next = [config EXCEPT !.proxies = config.proxies \ {n}]
    OBVIOUS
  <2>2. /\ IsSettings(next) /\ next.defaults = config.defaults /\ next.proxies = config.proxies \ {n}
    BY <1>c, <2>1, FieldsKept
  <2>3. Save(next, config) /\ server' = server /\ config.defaults # n
    BY <1>7, <1>c, <2>1 DEF DeleteProxy, Handles, InUse, IsSettings
  <2>4. DefaultKnown => Known(next.defaults, next.proxies)
    BY <1>c, <2>2, <2>3 DEF Known
  <2> QED BY <1>c, <2>2, <2>3, <2>4, SavingKeeps DEF Goal
<1>8. ASSUME NEW h \in Hooks, AddHook(h) PROVE Goal
  <2>1. PICK next : next = [config EXCEPT !.hooks = Append(config.hooks, h)]
    OBVIOUS
  <2>2. server' = server /\ Save(next, config)
    BY <1>8, <1>c, <2>1 DEF AddHook, Handles, IsSettings
  <2>3. IsSettings(next) /\ next.proxies = config.proxies /\ next.defaults = config.defaults
    BY <1>c, <2>1, FieldsKept
  <2> QED BY <1>c, <1>k, <2>2, <2>3
<1>9. ASSUME NEW i \in 1..MaxHooks, DeleteHook(i) PROVE Goal
  <2>1. PICK next : next = [config EXCEPT !.hooks = RemoveAt(config.hooks, i)]
    OBVIOUS
  <2>2. server' = server /\ Save(next, config)
    BY <1>9, <1>c, <2>1 DEF DeleteHook, Handles, IsSettings
  <2>3. IsSettings(next) /\ next.proxies = config.proxies /\ next.defaults = config.defaults
    BY <1>c, <2>1, FieldsKept
  <2> QED BY <1>c, <1>k, <2>2, <2>3
<1>10. ASSUME NEW p \in {"on", "off"}, ChangeProvider(p) PROVE Goal
  <2>1. PICK next : next = [config EXCEPT !.provider = p]
    OBVIOUS
  <2>2. server' = server /\ Save(next, config)
    BY <1>10, <1>c, <2>1 DEF ChangeProvider, Handles, IsSettings
  <2>3. IsSettings(next) /\ next.proxies = config.proxies /\ next.defaults = config.defaults
    BY <1>c, <2>1, FieldsKept
  <2> QED BY <1>c, <1>k, <2>2, <2>3
<1>11. ASSUME NEW c \in RawFiles, PutConfig(c) PROVE Goal
  <2>1. IsSettings(c)
    BY DEF RawFiles, SettingsConfigs, IsSettings
  <2>2. yml' = c /\ raw' = TRUE /\ UNCHANGED <<config, adrift, server>>
    BY <1>11 DEF PutConfig, Handles
  <2> QED BY <2>1, <2>2 DEF Goal, SettingsInv, FileSaysAll, DefaultKnown
<1>12. ASSUME NEW e \in Editors, NEW at \in Lookups, Looks(e, at) PROVE Goal
  BY <1>12, <1>s DEF Looks
<1>13. ASSUME NEW e \in Editors, NEW h \in Hooks, PutHook(e, h) PROVE Goal
  <2>1. PICK put, back, next, previous :
          /\ next = [config EXCEPT !.hooks = put] /\ previous = [config EXCEPT !.hooks = back]
          /\ Save(next, previous) /\ server' = server
    BY <1>13, <1>c DEF PutHook, IsSettings
  <2>2. /\ IsSettings(next) /\ next.proxies = config.proxies /\ next.defaults = config.defaults
        /\ IsSettings(previous) /\ previous.proxies = config.proxies /\ previous.defaults = config.defaults
    BY <1>c, <2>1, FieldsKept
  <2> QED BY <1>k, <2>1, <2>2
<1>14. ASSUME NEW e \in Editors, PutProxy(e) PROVE Goal
  <2>1. PICK back : back = [config EXCEPT !.proxies = config.proxies \cup {editing[e].name}]
    OBVIOUS
  <2>2. IsSettings(back) /\ back.defaults = config.defaults
        /\ back.proxies = config.proxies \cup {editing[e].name}
    BY <1>c, <2>1, FieldsKept
  <2>3. Save(back, back) /\ server' = server
    BY <1>14, <1>c, <2>1 DEF PutProxy, IsSettings
  <2>4. DefaultKnown => Known(back.defaults, back.proxies)
    BY <1>c, <2>2 DEF Known
  <2> QED BY <1>c, <2>2, <2>3, <2>4, SavingKeeps DEF Goal
<1>15. ~Starts /\ ~StartRefused
  BY DEF Starts, StartRefused
<1>16. Goal
  BY <1>1, <1>2, <1>3, <1>4, <1>5, <1>6, <1>7, <1>8, <1>9, <1>10, <1>11, <1>12, <1>13, <1>14, <1>15
     DEF SettingsNext
<1> QED BY <1>16 DEF Goal

\* So does every step.
LEMMA SettingsKeep == ASSUME SettingsInv, [SettingsNext]_settingsVars PROVE SettingsInv'
<1>1. CASE SettingsNext /\ server = "up" /\ ~Stops
  BY <1>1, RequestsKeep
<1>2. CASE Starts
  BY <1>2 DEF Starts, SettingsInv, FileSaysAll, IsSettings
<1>3. CASE StartRefused \/ Stops \/ UNCHANGED settingsVars
  BY <1>3 DEF StartRefused, Stops, settingsVars, SettingsInv, FileSaysAll, IsSettings
<1>4. SettingsNext => server = "up" \/ Starts \/ StartRefused
  BY DEF SettingsNext, Stops, Tune, EnableProfiles, DisableProfiles, DeleteProvider, SetDefaults,
     AddProxy,
         DeleteProxy, AddHook, DeleteHook, ChangeProvider, PutConfig, Looks, PutHook, PutProxy, Handles
<1> QED BY <1>1, <1>2, <1>3, <1>4

\* What the gateway runs with is what it would start with, but for a file edited by hand and
\* a failed save that app.ts does not take back.
THEOREM FileStaysTrue == SettingsSpec => []FileSaysAll
<1>1. SettingsInit => SettingsInv
  BY DEF SettingsInit, Seed, SettingsInv, FileSaysAll, IsSettings
<1>2. SettingsInv /\ [SettingsNext]_settingsVars => SettingsInv'
  BY SettingsKeep
<1>3. SettingsInv => FileSaysAll
  BY DEF SettingsInv
<1> QED BY <1>1, <1>2, <1>3, PTL DEF SettingsSpec

\* No request, however late its body, and no roll-back leaves the session defaults with a
\* proxy that is not configured (app.ts, the handlers of /v1/proxies and /v1/config).
THEOREM DefaultStaysConfigured == SettingsSpec => DefaultIsConfigured
<1> DEFINE Stays == server = "up" /\ DefaultKnown => DefaultKnown'
<1>1. SettingsInit => SettingsInv
  BY DEF SettingsInit, Seed, SettingsInv, FileSaysAll, IsSettings
<1>2. SettingsInv /\ [SettingsNext]_settingsVars => SettingsInv'
  BY SettingsKeep
<1>3. ASSUME SettingsInv, [SettingsNext]_settingsVars PROVE [Stays]_settingsVars
  <2>1. CASE SettingsNext /\ server = "up" /\ ~Stops
    BY <1>3, <2>1, RequestsKeep
  <2>2. CASE Stops
    BY <2>2 DEF Stops, DefaultKnown
  <2> QED BY <1>3, <2>1, <2>2
<1> HIDE DEF Stays
<1>4. SettingsSpec => [][Stays]_settingsVars
  BY <1>1, <1>2, <1>3, PTL DEF SettingsSpec
<1> QED BY <1>4 DEF DefaultIsConfigured, Stays
=============================================================================
