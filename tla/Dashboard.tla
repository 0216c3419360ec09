------------------------------ MODULE Dashboard ------------------------------
(***************************************************************************)
(* The dashboard beside its settings (app.ts, web/src): who is signed in   *)
(* to it, the form for a provider, and the list of profiles.  A tab sends  *)
(* its requests with the cookie its browser holds then; the answers come   *)
(* back in any order, and a cookie lands with the answer that carries it.  *)
(* The three parts share no state and have variables of their own.         *)
(***************************************************************************)
EXTENDS Naturals

CONSTANTS
  DashTabs,     \* tabs with the dashboard
  Browsers,     \* each with one cookie jar
  MaxAge,       \* SESSION_MAX_AGE, in ticks
  MaxEpochs, MaxClock,     \* bounds: sign-outs and starts; ticks
  FormUrls,     \* addresses a user may type
  HalfTyped,    \* those of them that isProbeableUrl and validateProviderUrl refuse
  MaxEdits,     \* bound: edits of the form
  Readings,     \* requests for the list that may be under way beside each other
  MaxChanged, MaxFailed,   \* bounds: changes of the list, requests that fail
  NoAnswer

ASSUME DashboardAssumption == HalfTyped \subseteq FormUrls /\ NoAnswer \notin FormUrls /\ "open" \notin FormUrls /\ "left" \notin FormUrls

VARIABLES
  epoch,        \* createSessionEpoch: random, so each is new; a number here
  clock,
  browserOf,    \* the browser of each tab
  jar,          \* the cookie bg_session of each browser: the set of it, or none
  face,         \* AuthProvider of each tab: "loading", "form", "stuck" or "inside"
  asked,        \* what each tab has asked the server, and its answer
  gatewayToken, \* `cached` of the module: "unread", "none" or "token"
  retired,      \* history: cookies issued before the last sign-out or start
  vouched       \* history: nothing has happened since the tab was told it is in

signVars == <<epoch, clock, browserOf, jar, face, asked, gatewayToken, retired, vouched>>

VARIABLES
  field,        \* the address in the form, and which headers
  ranFor,       \* what the probe's effect last ran for
  armed,        \* its timer
  probing,      \* the request under way
  probe,        \* what the form says of it
  probeCache,
  saved,        \* the address of the provider that is edited, at the gateway
  trial,        \* the address a test is under way for, and whether another was typed since
  trialShown,   \* the answer of a test
  form,         \* "open", the address that is being saved, or "left"
  leaving,      \* router.push was called
  edits

formVars == <<field, ranFor, armed, probing, probe, probeCache, saved, trial, trialShown, form, leaving, edits>>

VARIABLES
  stored,       \* the list as the server has it, by the number of changes
  reading,      \* each request for it: "none", "sent", or "read" with what it read
  listed,       \* the list the page shows
  busy,         \* the page deletes: "none", "deleting", or the request that reloads
  mishaps

listVars == <<stored, reading, listed, busy, mishaps>>

----------------------------------------------------------------------------
(* Signing in *)

Unasked == [of |-> "nothing"]

SignInit ==
  /\ epoch = 0 /\ clock = 0
  /\ browserOf \in [DashTabs -> Browsers]
  /\ jar = [b \in Browsers |-> {}]
  /\ face = [t \in DashTabs |-> "loading"] /\ asked = [t \in DashTabs |-> Unasked]
  /\ gatewayToken = [t \in DashTabs |-> "unread"]
  /\ retired = {} /\ vouched = [t \in DashTabs |-> FALSE]

\* signSession and verifySession: signed under an epoch, with its time.
SignSession == [epoch |-> epoch, at |-> clock]
VerifySession(c) == c.epoch = epoch /\ clock <= c.at + MaxAge

Authentic(cookies) == \E c \in cookies : VerifySession(c)

\* Cookies that are somewhere: in a jar, with a request, or in an answer under way.
Granted(t) == asked[t].of = "login" /\ asked[t].state = "granted"
Sent(t) == asked[t] # Unasked /\ asked[t].state = "sent"
Cookies == UNION {jar[b] : b \in Browsers} \cup UNION {asked[t].sent : t \in {s \in DashTabs : Sent(s)}}
             \cup {asked[t].cookie : t \in {s \in DashTabs : Granted(s)}}

\* A request takes the cookie of the moment.
Asks(t, what) ==
  /\ asked[t] = Unasked
  /\ asked' = [asked EXCEPT ![t] = [of |-> what, state |-> "sent", sent |-> jar[browserOf[t]]]]
  /\ UNCHANGED <<epoch, clock, browserOf, jar, face, gatewayToken, retired, vouched>>

\* checkAuth on load; login; logout, which no page offers; fetchAuthInfo, once.
CheckAuth(t) == face[t] = "loading" /\ Asks(t, "check")
Login(t) == face[t] = "form" /\ Asks(t, "login")
Logout(t) == face[t] = "inside" /\ Asks(t, "logout")
FetchAuthInfo(t) == face[t] = "inside" /\ gatewayToken[t] = "unread" /\ Asks(t, "info")

\* An answer for this browser is under way that sets or clears its cookie.
CookieOnItsWay(t) ==
  \E s \in DashTabs \ {t} : browserOf[s] = browserOf[t] /\ (Granted(s) \/ asked[s].of = "logout")

Replies(t, answer) == asked' = [asked EXCEPT ![t] = answer]
Vouches(t) == vouched' = [vouched EXCEPT ![t] = ~CookieOnItsWay(t)]

signKept == UNCHANGED <<clock, browserOf, jar, face, gatewayToken>>

HandleCheck(t) ==
  /\ asked[t].of = "check" /\ Sent(t)
  /\ LET in == Authentic(asked[t].sent) IN
     /\ Replies(t, [of |-> "check", state |-> IF in THEN "in" ELSE "out"])
     /\ IF in /\ Authentic(jar[browserOf[t]]) THEN Vouches(t) ELSE UNCHANGED vouched
  /\ UNCHANGED <<epoch, retired>> /\ signKept

HandleLogin(t) ==
  /\ asked[t].of = "login" /\ Sent(t)
  /\ \/ Replies(t, [of |-> "login", state |-> "refused"]) /\ UNCHANGED vouched
     \/ Replies(t, [of |-> "login", state |-> "granted", cookie |-> SignSession]) /\ Vouches(t)
  /\ UNCHANGED <<epoch, retired>> /\ signKept

\* sessionEpoch.rotate.
Rotate == epoch' = epoch + 1

\* Whoever is signed in anywhere is so no more.
SignsAllOut ==
  /\ epoch < MaxEpochs /\ Rotate
  /\ retired' = retired \cup Cookies
  /\ vouched' = [t \in DashTabs |-> FALSE]

HandleLogout(t) ==
  /\ asked[t].of = "logout" /\ Sent(t)
  /\ SignsAllOut /\ Replies(t, [of |-> "logout", state |-> "done"])
  /\ signKept

\* GET /v1/auth/info: the middleware refuses, or the cookie is shown the token.
HandleInfo(t) ==
  /\ asked[t].of = "info" /\ Sent(t)
  /\ Replies(t, [of |-> "info", state |-> IF Authentic(asked[t].sent) THEN "token" ELSE "none"])
  /\ UNCHANGED <<epoch, retired, vouched>> /\ signKept

\* The gateway starts anew: what was not answered fails.
GatewayRestarts ==
  /\ SignsAllOut
  /\ asked' = [t \in DashTabs |-> IF Sent(t) THEN [of |-> asked[t].of, state |-> "lost"] ELSE asked[t]]
  /\ signKept

\* The answer arrives, first at the browser and then at the page.  A check that fails
\* lets the page in; a login that fails leaves the form waiting for good.
CookieLands(t) ==
  jar' = CASE Granted(t) -> [jar EXCEPT ![browserOf[t]] = {asked[t].cookie}]
           [] asked[t].of = "logout" /\ asked[t].state = "done" -> [jar EXCEPT ![browserOf[t]] = {}]
           [] OTHER -> jar

FaceAfter(t) ==
  CASE asked[t].of = "check" -> (IF asked[t].state = "out" THEN "form" ELSE "inside")
    [] asked[t].of = "login" -> (CASE asked[t].state = "granted" -> "inside"
                                   [] asked[t].state = "lost" -> "stuck" [] OTHER -> "form")
    [] asked[t].of = "logout" /\ asked[t].state = "done" -> "form"
    [] OTHER -> face[t]

AnswerLands(t) ==
  /\ asked[t] # Unasked /\ ~Sent(t)
  /\ CookieLands(t) /\ face' = [face EXCEPT ![t] = FaceAfter(t)]
  /\ gatewayToken' = IF asked[t].of # "info" THEN gatewayToken
                     ELSE [gatewayToken EXCEPT ![t] = IF asked[t].state = "token" THEN "token" ELSE "none"]
  /\ asked' = [asked EXCEPT ![t] = Unasked]
  /\ UNCHANGED <<epoch, clock, browserOf, retired, vouched>>

\* The user loads the page again.
Reload(t) ==
  /\ face[t] # "loading" /\ asked[t] = Unasked
  /\ face' = [face EXCEPT ![t] = "loading"] /\ gatewayToken' = [gatewayToken EXCEPT ![t] = "unread"]
  /\ vouched' = [vouched EXCEPT ![t] = FALSE]
  /\ UNCHANGED <<epoch, clock, browserOf, jar, asked, retired>>

ClockTicks == clock < MaxClock /\ clock' = clock + 1 /\ UNCHANGED <<epoch, browserOf, jar, face, asked, gatewayToken, retired, vouched>>

SignNext ==
  \/ GatewayRestarts \/ ClockTicks
  \/ \E t \in DashTabs : \/ CheckAuth(t) \/ Login(t) \/ Logout(t) \/ FetchAuthInfo(t)
                         \/ HandleCheck(t) \/ HandleLogin(t) \/ HandleLogout(t) \/ HandleInfo(t)
                         \/ AnswerLands(t) \/ Reload(t)

----------------------------------------------------------------------------
(* The form for a provider *)

\* Refused by isProbeableUrl: nothing is asked.  Refused by validateProviderUrl: nothing
\* is sent.
Probeable(u) == u \notin HalfTyped
ValidProviderUrl(u) == u \notin HalfTyped

\* The form is for a new provider, or for one the gateway has.
IsEdit == saved # NoAnswer

FormInit ==
  /\ saved \in (FormUrls \ HalfTyped) \cup {NoAnswer}
  /\ field \in [url : IF IsEdit THEN {saved} ELSE FormUrls, headers : {0}] /\ ranFor = NoAnswer
  /\ armed = FALSE /\ probing = NoAnswer /\ probe = [status |-> "idle", of |-> NoAnswer] /\ probeCache = {}
  /\ trial = NoAnswer /\ trialShown = NoAnswer
  /\ form = "open" /\ leaving = FALSE /\ edits = 0

EditsForm == form # "left" /\ edits < MaxEdits /\ edits' = edits + 1

SetUrl(u) ==
  /\ EditsForm /\ field' = [field EXCEPT !.url = u] /\ trialShown' = NoAnswer
  /\ trial' = IF trial = NoAnswer THEN trial ELSE [trial EXCEPT !.edited = TRUE]
  /\ UNCHANGED <<ranFor, armed, probing, probe, probeCache, saved, form, leaving>>

SetHeaders ==
  /\ EditsForm /\ field' = [field EXCEPT !.headers = 1 - @]
  /\ UNCHANGED <<ranFor, armed, probing, probe, probeCache, saved, trial, trialShown, form, leaving>>

\* Mutant: the clean-up clears the timer only.
NotAborted == probing
\* controller.abort().
Aborted == NoAnswer

\* The effect's clean-up clears the timer and aborts the request; then it runs anew.
ProbeEffect ==
  /\ form # "left" /\ ranFor # field /\ ranFor' = field
  /\ probing' = Aborted
  /\ LET cached == {p \in probeCache : p.of = field} IN
     \/ ~Probeable(field.url) /\ probe' = [status |-> "idle", of |-> field] /\ armed' = FALSE
     \/ Probeable(field.url) /\ cached # {} /\ probe' \in cached /\ armed' = FALSE
     \/ Probeable(field.url) /\ cached = {} /\ armed' = TRUE /\ UNCHANGED probe
  /\ UNCHANGED <<field, probeCache, saved, trial, trialShown, form, leaving, edits>>

\* The 500 ms are over.
ProbeBegins ==
  /\ armed /\ armed' = FALSE /\ probing' = ranFor /\ probe' = [status |-> "probing", of |-> ranFor]
  /\ UNCHANGED <<field, ranFor, probeCache, saved, trial, trialShown, form, leaving, edits>>

\* An answer, or a failure that is no abort: both are kept for this key.
ProbeHeard(status) ==
  /\ probing # NoAnswer /\ probing' = NoAnswer
  /\ probe' = [status |-> status, of |-> probing] /\ probeCache' = probeCache \cup {probe'}
  /\ UNCHANGED <<field, ranFor, armed, saved, trial, trialShown, form, leaving, edits>>

\* runTest.  The test of a provider that is edited names it only, and the gateway takes
\* the address it has saved, whatever is in the form.
RunTest ==
  /\ form # "left" /\ trial = NoAnswer /\ trialShown' = NoAnswer
  /\ trial' = [of |-> IF IsEdit THEN saved ELSE field.url, edited |-> FALSE]
  /\ UNCHANGED <<field, ranFor, armed, probing, probe, probeCache, saved, form, leaving, edits>>

\* Nobody looks whether the address has changed since.
TestAnswers ==
  /\ trial # NoAnswer /\ trialShown' = trial /\ trial' = NoAnswer
  /\ UNCHANGED <<field, ranFor, armed, probing, probe, probeCache, saved, form, leaving, edits>>

\* handleSubmit: the address is refused, or the form is sent.  The form stays editable.
Submit ==
  /\ form = "open" /\ ValidProviderUrl(field.url) /\ form' = field.url
  /\ UNCHANGED <<field, ranFor, armed, probing, probe, probeCache, saved, trial, trialShown, leaving, edits>>

\* The page is told to leave when it is saved, and may be used until it has.
SaveAnswers(ok) ==
  /\ form \in FormUrls /\ form' = "open" /\ leaving' = (leaving \/ ok)
  /\ saved' = IF ok /\ IsEdit THEN form ELSE saved
  /\ UNCHANGED <<field, ranFor, armed, probing, probe, probeCache, trial, trialShown, edits>>

Cancel ==
  /\ form = "open" /\ leaving' = TRUE
  /\ UNCHANGED <<field, ranFor, armed, probing, probe, probeCache, saved, trial, trialShown, form, edits>>

Unmounts ==
  /\ leaving /\ form # "left" /\ form' = "left" /\ armed' = FALSE /\ probing' = Aborted
  /\ UNCHANGED <<field, ranFor, probe, probeCache, saved, trial, trialShown, leaving, edits>>

FormNext ==
  \/ \E u \in FormUrls : SetUrl(u)
  \/ \E s \in {"done", "unknown"} : ProbeHeard(s)
  \/ \E ok \in BOOLEAN : SaveAnswers(ok)
  \/ SetHeaders \/ ProbeEffect \/ ProbeBegins \/ RunTest \/ TestAnswers \/ Submit \/ Cancel \/ Unmounts

----------------------------------------------------------------------------
(* The list of profiles *)

Unread == [state |-> "none", list |-> 0]

ListInit ==
  /\ stored = 0 /\ listed = 0 /\ busy = "none" /\ mishaps = 0
  /\ reading = [r \in Readings |-> Unread]

\* reload, every 5 s or after a deletion, whatever is still under way.
ReadBegins(r) == reading[r] = Unread /\ reading' = [reading EXCEPT ![r].state = "sent"]

Polls(r) == ReadBegins(r) /\ UNCHANGED <<stored, listed, busy, mishaps>>

ReadHandled(r) ==
  /\ reading[r].state = "sent" /\ reading' = [reading EXCEPT ![r] = [state |-> "read", list |-> stored]]
  /\ UNCHANGED <<stored, listed, busy, mishaps>>

\* The page shows what came last; the reload of a deletion ends it.
ReadLands(r) ==
  /\ reading[r].state = "read"
  /\ listed' = reading[r].list /\ reading' = [reading EXCEPT ![r] = Unread]
  /\ busy' = IF busy = r THEN "none" ELSE busy
  /\ UNCHANGED <<stored, mishaps>>

ReadFails(r) ==
  /\ reading[r].state = "sent" /\ mishaps < MaxFailed /\ mishaps' = mishaps + 1
  /\ reading' = [reading EXCEPT ![r] = Unread] /\ busy' = IF busy = r THEN "none" ELSE busy
  /\ UNCHANGED <<stored, listed>>

\* A session that ends, another administrator, or the handler of a deletion.
ListChanges ==
  /\ stored < MaxChanged /\ stored' = stored + 1
  /\ UNCHANGED <<reading, listed, busy, mishaps>>

\* handleDelete: nothing else can be begun until its reload is over.
Deletes == busy = "none" /\ busy' = "deleting" /\ UNCHANGED <<stored, reading, listed, mishaps>>

DeletionLands(r) == busy = "deleting" /\ ReadBegins(r) /\ busy' = r /\ UNCHANGED <<stored, listed, mishaps>>
DeletionFails == busy = "deleting" /\ busy' = "none" /\ UNCHANGED <<stored, reading, listed, mishaps>>

ListProgress == \E r \in Readings : Polls(r) \/ ReadHandled(r) \/ ReadLands(r)

ListNext ==
  \/ ListProgress \/ ListChanges \/ Deletes \/ DeletionFails
  \/ \E r \in Readings : ReadFails(r) \/ DeletionLands(r)

----------------------------------------------------------------------------
(* Properties *)

\* Signing out ends every session of the dashboard, in whichever browser it is and
\* however late an answer with an older cookie lands; so does a restart.
SignedOutStaysOut == \A c \in retired : ~VerifySession(c)

\* A tab that was told it is in holds a cookie of the present epoch, unless somebody
\* signed out or the gateway restarted since, or an answer overtook this one.
SignedInIsTrue ==
  \A t \in DashTabs : face[t] = "inside" /\ vouched[t] => \E c \in jar[browserOf[t]] : c.epoch = epoch

\* What the form says of a provider is of the address and headers in it once the pause
\* after an edit is over; it waits for an answer only while one comes; and a form that
\* was left asks nothing more.
ProbeIsCurrent ==
  /\ form # "left" /\ ranFor = field /\ ~armed => probe.of = field /\ (~Probeable(field.url) => probe.status = "idle")
  /\ form # "left" /\ probe.status = "probing" => armed \/ probing # NoAnswer \/ ranFor # field
  /\ form = "left" => ~armed /\ probing = NoAnswer

\* The answer of a test is of the address in the form, if that was not edited meanwhile
\* (of a provider that is edited it is of a saved one).
TestIsOfUrl == trialShown # NoAnswer /\ ~IsEdit => trialShown.of = field.url \/ trialShown.edited

DashboardSound == SignedOutStaysOut /\ SignedInIsTrue /\ ProbeIsCurrent /\ TestIsOfUrl

\* Whatever order its requests were answered in, the page shows the list in the end.
ListCatchesUp == <>[](listed = stored)
=============================================================================
