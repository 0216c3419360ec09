----------------------------- MODULE MCControl -----------------------------
(***************************************************************************)
(* What decides where a session goes, for TLC: the provider table and its  *)
(* probes, the marks and cooldowns of the providers, the selection, the    *)
(* settings, the dashboard, and the daemon behind the browse command.      *)
(* They share no state, so one run takes them side by side: `subject` says *)
(* which is explored.                                                      *)
(***************************************************************************)
EXTENDS Providers, ProviderHealth, Selector, Settings, Dashboard, BrowseDaemon, TLC

CONSTANTS a, b, c

\* By priority a, b, c, and weighing 3, 2, 1.
ThreeByPriority == <<a, b, c>>
ThreeTwoOne == a :> 3 @@ b :> 2 @@ c :> 1

VARIABLE subject

controlVars == <<subject, providersVars, healthVars, selectorVars, settingsVars, signVars, formVars,
                 listVars, browseVars>>

Subjects == {"table", "health", "selection", "settings", "sign", "form", "list", "browse"}

Only(what) ==
  /\ subject = what /\ UNCHANGED subject
  /\ what # "table" => UNCHANGED providersVars
  /\ what # "health" => UNCHANGED healthVars
  /\ what # "selection" => UNCHANGED selectorVars
  /\ what # "settings" => UNCHANGED settingsVars
  /\ what # "sign" => UNCHANGED signVars
  /\ what # "form" => UNCHANGED formVars
  /\ what # "list" => UNCHANGED listVars
  /\ what # "browse" => UNCHANGED browseVars

\* Which browser the first tab is in, which address is edited, and which invocation
\* asks what of the two, does not matter: one case of each is enough.
UpToNames ==
  LET tab == CHOOSE t \in DashTabs : TRUE
      first == CHOOSE i \in Invocations : TRUE IN
  /\ browserOf[tab] = CHOOSE w \in Browsers : TRUE
  /\ saved \in {NoAnswer, CHOOSE u \in FormUrls \ HalfTyped : TRUE}
  /\ \A i \in Invocations : verb[first] = "work" \/ verb[i] \in {verb[first], "close"}

\* One initial state of each part that is not explored.
ControlInit ==
  /\ subject \in Subjects
  /\ ProvidersInit /\ HealthInit /\ SelectorInit /\ SettingsInit /\ SignInit /\ FormInit /\ ListInit /\ BrowseInit
  /\ UpToNames
  /\ subject # "table" => file = Absent /\ ~warm
  /\ subject # "health" => ~checker
  /\ subject # "selection" => strategy = "weighted"
  /\ subject # "sign" => browserOf = [t \in DashTabs |-> CHOOSE w \in Browsers : TRUE]
  /\ subject # "form" => saved = CHOOSE u \in FormUrls \ HalfTyped : TRUE
  /\ subject # "browse" => verb = [i \in Invocations |-> "work"]

ControlNext ==
  \/ Only("table") /\ ProvidersNext
  \/ Only("health") /\ HealthNext
  \/ Only("selection") /\ SelectorNext
  \/ Only("settings") /\ SettingsNext
  \/ Only("sign") /\ SignNext
  \/ Only("form") /\ FormNext
  \/ Only("list") /\ ListNext
  \/ Only("browse") /\ BrowseNext

\* The fairness of each part: probes and processes come to an end; clients keep
\* coming, attempts and checks end, time passes; a page polls its list.
ControlProgress ==
  /\ WF_providersVars(subject = "table" /\ ProbeSteps)
  /\ WF_listVars(subject = "list" /\ ListProgress)
  /\ WF_browseVars(subject = "browse" /\ BrowseProgress)
  /\ WF_healthVars(subject = "health" /\ Calls)
  /\ WF_healthVars(subject = "health" /\ Tick)
  /\ \A p \in Pool : WF_healthVars(subject = "health" /\ Checks(p))

ControlSpec == ControlInit /\ [][ControlNext]_controlVars /\ ControlProgress

\* Nothing waits for good: a probe, a provider that is back, a list, a command, a
\* daemon.
ControlSettles ==
  /\ subject = "table" => ProbesComeThrough
  /\ subject = "health" => MarksFollow
  /\ subject = "list" => ListCatchesUp
  /\ subject = "browse" => BrowseSettles
=============================================================================
