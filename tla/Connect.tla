------------------------------- MODULE Connect -------------------------------
(***************************************************************************)
(* What a connection to /v1/connect takes with it (ws/upgrade.ts): its     *)
(* headers past the gates, the session defaults, the proxy it names, the   *)
(* profile, and for each provider it tries the plugins it needs, the URL   *)
(* it dials and the way the profile travels.  A browserserve provider is   *)
(* given the profile before the connection and asked for it afterwards,    *)
(* under a token of one use; the others get it through the browser.        *)
(* Slots, the order of the providers and the lock itself are in Gateway,   *)
(* Selector and ProfileSessions.                                           *)
(***************************************************************************)
EXTENDS Naturals, FiniteSets

CONSTANTS
  Guests,        \* connections
  Asked,         \* the requests they may bring
  Profiles,
  Nothing,
  Providers,
  Proxies,       \* the URL of each configured proxy, by name
  Offers,        \* Offers[q]: [own : browserserve, proxies : injectProxy, http : an http URL]
  MaxTries

\* A proxy's URL as far as parseProxyUrl looks at it.
ProxyUrls ==
  [scheme : {"http", "https", "socks5", "socks5h", "other"}, host : BOOLEAN, tail : BOOLEAN, login : BOOLEAN]

ASSUME ConnectAssumption ==
  /\ \A name \in DOMAIN Proxies : Proxies[name] \in ProxyUrls
  /\ DOMAIN Proxies \cap {"absent", "none", "unknown"} = {}
  /\ Nothing \notin Guests \cup Profiles \cup Providers
  /\ Offers \in [Providers -> [own : BOOLEAN, proxies : BOOLEAN, http : BOOLEAN]]
  /\ MaxTries \in Nat

VARIABLES
  defaults,   \* gateway.config.sessionDefaults
  locked,     \* who locks each profile
  author,     \* who saved each profile last
  parked,     \* the provider of the session parked under the key that clients use
  era,        \* how often the browser of a provider was restarted
  cached,     \* cdpUrlCache: the era of the URL it keeps, 0: none
  guest       \* each connection

connectVars == <<defaults, locked, author, parked, era, cached, guest>>

----------------------------------------------------------------------------
(* The gates *)

\* A request as far as the gates look at it: how its Origin and its Host relate to
\* the gateway, its Authorization header and its ?token=.
Envelopes ==
  [origin : {"none", "listed", "same", "otherScheme", "foreign"},
   host : {"loopback", "listed", "foreign"},
   bearer : {"none", "gateway", "other"}, query : {"none", "gateway", "other"}]

\* isOriginAllowed, isHostAllowed
OriginAllowed(e) == e.origin \in {"none", "listed", "same"}
HostAllowed(e) == e.host \in {"loopback", "listed"}

\* queryToken ?? bearerToken
Presented(e) == IF e.query # "none" THEN e.query ELSE e.bearer

Passes(e, secured) ==
  /\ OriginAllowed(e)
  /\ IF secured THEN Presented(e) = "gateway" ELSE HostAllowed(e)

\* The Authorization header that is left of the client's: stripRequestHeader takes off
\* the gateway's own token, and nothing else.
Forwards(e, secured) == IF secured /\ e.bearer = "gateway" THEN "none" ELSE e.bearer

\* What a provider's entry says of Authorization: among its headers, in its URL.
Entries == [header : BOOLEAN, userinfo : BOOLEAN]

\* resolveProviderOutbound: the header of the entry, or one made of the URL's userinfo.
Outbound(entry) == IF entry.header THEN "header" ELSE IF entry.userinfo THEN "userinfo" ELSE "none"

\* buildUpgradeRequest: the entry's header in the place of the client's.
Sent(e, secured, entry) == IF Outbound(entry) # "none" THEN Outbound(entry) ELSE Forwards(e, secured)

----------------------------------------------------------------------------
(* The session defaults *)

Defaults ==
  [record : BOOLEAN, profile : Profiles \cup {Nothing}, saveProfile : BOOLEAN,
   proxy : {"absent"} \cup DOMAIN Proxies]

\* What the URL says; "none" takes a default away.
Wishes ==
  [profile : Profiles \cup {"none", Nothing}, readOnly : {"absent", "yes", "no"},
   proxy : {"absent", "none", "unknown"} \cup DOMAIN Proxies, record : {"absent", "yes", "no"}]

\* What a request says is what a URL can say, and a pin names a provider.
ASSUME AskedAssumption == Asked \subseteq [wish : Wishes, pin : Providers \cup {Nothing}, resumes : BOOLEAN]

\* A default profile is read, unless saveProfile is on or the URL says otherwise.
Mode(w, d) == IF w.readOnly # "absent" THEN w.readOnly ELSE IF d.saveProfile THEN "no" ELSE "yes"

\* applySessionDefaults
Effective(w, d) ==
  LET none == w.profile = "none"
      taken == w.profile = Nothing /\ d.profile # Nothing
  IN  [profile |-> IF none THEN Nothing ELSE IF taken THEN d.profile ELSE w.profile,
       readOnly |-> IF none THEN "absent" ELSE IF taken THEN Mode(w, d) ELSE w.readOnly,
       proxy |-> IF w.proxy = "none" THEN "absent" ELSE IF w.proxy = "absent" THEN d.proxy ELSE w.proxy,
       record |-> IF d.record /\ w.record = "absent" THEN "yes" ELSE w.record]

\* isReadOnlyProfileRequest
ReadsOnly(w) == w.readOnly = "yes"

\* parseProxyUrl: scheme://[user:password@]host:port and nothing more.
Parses(url) == url.scheme # "other" /\ url.host /\ ~url.tail

\* isDirectBrowserProxy: what a browser can use on its own.
Direct(url) == url.scheme # "https" /\ ~url.login

\* isEligibleProviderForProxy
Applies(q, proxy) == proxy = "absent" \/ (Offers[q].proxies /\ Direct(Proxies[proxy]))

\* resolveRequestedProxy: unknown, not parsed, with a login, or nobody to apply it.
ProxyResolved(w, pin) ==
  \/ w.proxy = "absent"
  \/ /\ w.proxy \in DOMAIN Proxies
     /\ Parses(Proxies[w.proxy]) /\ Direct(Proxies[w.proxy])
     /\ \E q \in Providers : Applies(q, w.proxy) /\ pin \in {Nothing, q}

----------------------------------------------------------------------------
(* An attempt *)

\* isBrowserserveProfile: the profile travels by the channel.  With a proxy the pages
\* live in a context of their own, which only the plugin reaches.
Channel(g, q) == g.access # "none" /\ Offers[q].own /\ g.wish.proxy = "absent"

\* buildPluginList; none of them: the byte pipe.
PluginList(g, q) ==
  {h \in {"proxy", "profile", "closing", "record"} :
     CASE h = "proxy" -> g.wish.proxy # "absent"
       [] h = "profile" -> g.access # "none" /\ ~Channel(g, q)
       [] h = "closing" -> g.access = "writes" /\ Channel(g, q)
       [] h = "record" -> g.wish.record = "yes"}

Newcomer ==
  [pc |-> "new", wish |-> [profile |-> Nothing, readOnly |-> "absent", proxy |-> "absent", record |-> "absent"],
   pin |-> Nothing, resumes |-> FALSE, access |-> "none",
   at |-> Nothing, path |-> "none", plugins |-> {}, tried |-> {}, rounds |-> 0, n |-> 0,
   url |-> 0, burnt |-> {}, twice |-> FALSE, ways |-> {}, token |-> 0, proxied |-> FALSE,
   deposit |-> [i \in 1..MaxTries |-> "none"], outcome |-> "none"]

ConnectInit ==
  /\ defaults \in Defaults
  /\ locked = [p \in Profiles |-> Nothing] /\ author = [p \in Profiles |-> Nothing]
  /\ parked \in Providers \cup {Nothing}
  /\ era = [q \in Providers |-> 1] /\ cached = [q \in Providers |-> 0]
  /\ guest = [c \in Guests |-> Newcomer]

\* Connection c goes on as `next`.
Becomes(c, next) == guest' = [guest EXCEPT ![c] = next]
Goes(c, place) == Becomes(c, [guest[c] EXCEPT !.pc = place])
Freed(g) == [p \in Profiles |-> IF g.access = "writes" /\ p = g.wish.profile THEN Nothing ELSE locked[p]]

\* A request past the gates, with its defaults: refused for its proxy, or on to its profile.
Comes(c, r) ==
  LET w == Effective(r.wish, defaults)
      g == [guest[c] EXCEPT !.wish = w, !.pin = r.pin, !.resumes = r.resumes]
  IN  /\ guest[c].pc = "new"
      /\ Becomes(c, [g EXCEPT !.pc = IF ~ProxyResolved(w, r.pin) THEN "refused"
                                     ELSE IF w.profile = Nothing THEN "claiming"
                                     ELSE IF ReadsOnly(w) THEN "loading" ELSE "locking"])
      /\ UNCHANGED <<defaults, locked, author, parked, era, cached>>

\* acquireReadOnly: without the lock.
LoadsShared(c) ==
  /\ guest[c].pc = "loading"
  /\ \/ Becomes(c, [guest[c] EXCEPT !.pc = "claiming", !.access = "reads"])
     \/ Goes(c, "refused")
  /\ UNCHANGED <<defaults, locked, author, parked, era, cached>>

\* acquire, within its 15 seconds: a profile that cannot be decrypted gives the lock back.
Acquires(c) ==
  LET p == guest[c].wish.profile
  IN  /\ guest[c].pc = "locking"
      /\ \/ /\ locked[p] = Nothing
            /\ locked' = [locked EXCEPT ![p] = c]
            /\ Becomes(c, [guest[c] EXCEPT !.pc = "claiming", !.access = "writes"])
         \/ Goes(c, "refused") /\ UNCHANGED locked
      /\ UNCHANGED <<defaults, author, parked, era, cached>>

\* The next attempt, at provider q: what the last one left is of no use to it.
NextAttempt(c, q, path, plugins) ==
  [guest[c] EXCEPT !.pc = "dialling", !.n = @ + 1, !.at = q, !.path = path, !.plugins = plugins,
                   !.tried = IF path = "resume" THEN @ ELSE @ \cup {q}, !.url = 0, !.ways = {}, !.token = 0]

\* A parked session is claimed once, and reconnects over the byte pipe: without the
\* plugins a new session would have.
Claims(c) ==
  LET g == guest[c]
  IN  /\ g.pc = "claiming"
      /\ \/ /\ g.resumes /\ parked # Nothing /\ g.n < MaxTries
            /\ Becomes(c, NextAttempt(c, parked, "resume", {}))
         \/ /\ Goes(c, "routing")
      /\ parked' = IF g.resumes THEN Nothing ELSE parked
      /\ UNCHANGED <<defaults, locked, author, era, cached>>

Left(g) == {q \in Providers \ g.tried : Applies(q, g.wish.proxy) /\ g.pin \in {Nothing, q}}

\* A candidate is at its limit, or tried.
TriesProvider(c, q) ==
  LET g == guest[c]
      plugins == PluginList(g, q)
  IN  /\ g.pc = "routing" /\ q \in Left(g) /\ g.n < MaxTries
      /\ \/ Becomes(c, [g EXCEPT !.tried = @ \cup {q}])
         \/ Becomes(c, NextAttempt(c, q, IF plugins = {} THEN "pipe" ELSE "pipeline", plugins))
      /\ UNCHANGED <<defaults, locked, author, parked, era, cached>>

\* waitForSlot and a second round, or the end: what was acquired is released.
Exhausts(c) ==
  LET g == guest[c]
  IN  /\ g.pc = "routing" /\ (Left(g) = {} \/ g.n = MaxTries)
      /\ \/ g.rounds = 0 /\ g.n < MaxTries /\ Becomes(c, [g EXCEPT !.rounds = 1, !.tried = {}]) /\ UNCHANGED locked
         \/ Goes(c, "refused") /\ locked' = Freed(g)
      /\ UNCHANGED <<defaults, author, parked, era, cached>>

\* The URL to dial: the byte pipe asks the cache first, the pipeline the provider.
\* One that does not answer is dialled by its http URL, which is no endpoint.
Dials(c) ==
  LET g == guest[c]
      q == g.at
      kept == g.path # "pipeline" /\ cached[q] # 0
  IN  /\ g.pc = "dialling"
      /\ \E u \in IF ~Offers[q].http THEN {era[q]} ELSE IF kept THEN {cached[q]} ELSE {0, era[q]} :
           /\ Becomes(c, [g EXCEPT !.pc = "handing", !.url = u, !.twice = <<q, u>> \in g.burnt])
           /\ cached' = IF Offers[q].http /\ g.path # "pipeline" THEN [cached EXCEPT ![q] = u] ELSE cached
      /\ UNCHANGED <<defaults, locked, author, parked, era>>

\* CDP_CACHE_TTL
Forgets(q) ==
  /\ cached[q] # 0 /\ cached' = [cached EXCEPT ![q] = 0]
  /\ UNCHANGED <<defaults, locked, author, parked, era, guest>>

\* The browser behind an http URL is restarted: its endpoint is another.
Restarts(q) ==
  /\ Offers[q].http /\ era[q] = 1
  /\ era' = [era EXCEPT ![q] = 2]
  /\ UNCHANGED <<defaults, locked, author, parked, cached, guest>>

\* The attempt is over; the next provider is tried.
TryFails(c) == Goes(c, "routing")

\* The hand-off belongs to the attempt.
TokenOf(g) == g.n

\* handOffBrowserserveProfile, profileLifecycle.inject, or nothing to hand over.
HandsOver(c) ==
  LET g == guest[c]
      channel == IF g.path = "pipeline" THEN Channel(g, g.at) ELSE g.access # "none" /\ Offers[g.at].own
      inject == g.path # "pipeline" /\ g.access # "none" /\ ~Offers[g.at].own
  IN  /\ g.pc = "handing"
      /\ \/ /\ channel
            /\ Becomes(c, [g EXCEPT !.pc = "opening", !.ways = {"channel"}, !.token = TokenOf(g),
                                    !.deposit = [@ EXCEPT ![g.n] = "dropped"]])
         \/ inject /\ Becomes(c, [g EXCEPT !.pc = "opening", !.ways = {"inject"}])
         \/ (channel \/ inject) /\ TryFails(c)
         \/ ~channel /\ ~inject /\ Goes(c, "opening")
      /\ UNCHANGED <<defaults, locked, author, parked, era, cached>>

\* upstream-rejected: the URL is looked up anew the next time.
DropsUrl(c) == IF guest[c].path = "pipeline" THEN cached ELSE [cached EXCEPT ![guest[c].at] = 0]

\* The provider takes the connection and the plugins start; or it does not answer;
\* or it refuses, as a browser that was restarted does.
Connects(c) ==
  LET g == guest[c]
      stale == g.url # era[g.at]
  IN  /\ g.pc = "opening"
      /\ \/ /\ ~stale
            /\ Becomes(c, [g EXCEPT !.pc = "live", !.proxied = "proxy" \in g.plugins,
                                    !.ways = IF "profile" \in g.plugins THEN @ \cup {"plugin"} ELSE @])
            /\ UNCHANGED cached
         \/ TryFails(c) /\ UNCHANGED cached
         \/ /\ Becomes(c, [g EXCEPT !.pc = "routing", !.burnt = IF stale /\ g.url # 0 THEN @ \cup {<<g.at, g.url>>} ELSE @])
            /\ cached' = DropsUrl(c)
      /\ UNCHANGED <<defaults, locked, author, parked, era>>

----------------------------------------------------------------------------
(* The end of a session *)

\* readOnly=1 tells browserserve to skip the capture.
Deposits(g) == "channel" \in g.ways /\ g.access = "writes"

\* The client leaves, or closes its browser.  BrowserCloseAsDisconnectPlugin makes of
\* the second the first; without it the browser is gone before it can save.  The session
\* is parked, under the key or under an id that nobody asks for.
Leaves(c, closes) ==
  LET g == guest[c]
      killed == closes /\ "closing" \notin g.plugins
  IN  /\ g.pc = "live"
      /\ Becomes(c, [g EXCEPT !.pc = IF g.access # "writes" THEN "over" ELSE IF g.token # 0 THEN "fetching" ELSE "saving",
                              !.deposit = IF ~Deposits(g) THEN @ ELSE [@ EXCEPT ![g.n] = IF killed THEN "lost" ELSE "capturing"]])
      /\ parked' \in {g.at, parked}
      /\ UNCHANGED <<defaults, locked, author, era, cached>>

\* browserserve has the capture ready, or never.
Captures(c) ==
  LET g == guest[c]
  IN  /\ g.n # 0 /\ g.deposit[g.n] = "capturing"
      /\ \E s \in {IF g.pc = "fetching" THEN "there" ELSE "late", "lost"} :
           Becomes(c, [g EXCEPT !.deposit = [@ EXCEPT ![g.n] = s]])
      /\ UNCHANGED <<defaults, locked, author, parked, era, cached>>

\* The end of the saving: the profile written, or kept as it was; released all the same.
Ends(c, outcome) ==
  /\ Becomes(c, [guest[c] EXCEPT !.pc = "over", !.outcome = outcome])
  /\ author' = IF outcome = "saved" THEN [author EXCEPT ![guest[c].wish.profile] = c] ELSE author
  /\ locked' = Freed(guest[c])
  /\ UNCHANGED <<defaults, parked, era, cached>>

\* pickUpProfile polls past 404 until its deadline; any other answer ends it.
\* commitCaptured keeps what it has if there is no cookie, or no room.
Fetches(c) ==
  LET g == guest[c]
  IN  /\ g.pc = "fetching"
      /\ \/ g.deposit[g.token] = "there" /\ \E outcome \in {"saved", "kept"} : Ends(c, outcome)
         \/ g.deposit[g.token] # "there" /\ Ends(c, "missed")
         \/ Ends(c, "failed")

\* ProfilePlugin's onSave or onEmptyCapture, and commit of a reconnected session.
SavesItself(c) ==
  /\ guest[c].pc = "saving" /\ \E outcome \in {"saved", "kept"} : Ends(c, outcome)

----------------------------------------------------------------------------

ConnectNext ==
  \/ \E c \in Guests :
       \/ \E r \in Asked : Comes(c, r)
       \/ LoadsShared(c) \/ Acquires(c) \/ Claims(c) \/ Exhausts(c)
       \/ \E q \in Providers : TriesProvider(c, q)
       \/ Dials(c) \/ HandsOver(c) \/ Connects(c)
       \/ \E closes \in BOOLEAN : Leaves(c, closes)
       \/ Captures(c) \/ Fetches(c) \/ SavesItself(c)
  \/ \E q \in Providers : Forgets(q) \/ Restarts(q)

ConnectSpec == ConnectInit /\ [][ConnectNext]_connectVars

----------------------------------------------------------------------------
(* Properties *)

\* The gateway's token goes no further than the gateway, however the request that
\* passed its gates carried it; and a provider with credentials of its own is given
\* those, whatever the client brought.
TokenStaysHere ==
  \A e \in Envelopes, secured \in BOOLEAN, entry \in Entries :
    secured /\ Passes(e, secured) =>
      /\ Sent(e, secured, entry) # "gateway"
      /\ entry.header \/ entry.userinfo => Sent(e, secured, entry) \in {"header", "userinfo"}

\* A profile is written by connections that named it and did not say readOnly, or that
\* took the default in a gateway that saves, or against its will to read.
WritesIfMeant ==
  \A w \in Wishes, d \in Defaults :
    Effective(w, d).profile # Nothing /\ ~ReadsOnly(Effective(w, d)) =>
      /\ w.readOnly # "yes"
      /\ w.profile = Nothing => d.saveProfile \/ w.readOnly = "no"

\* A connected session has its profile, in one way, and in the pages it will see: those
\* of the proxied context are not reached by the channel.
LoadedWhereUsed ==
  \A c \in Guests : LET g == guest[c] IN
    g.pc = "live" =>
      /\ Cardinality(g.ways) = IF g.access = "none" THEN 0 ELSE 1
      /\ g.proxied => g.ways \subseteq {"plugin"}

\* What a browser captured is fetched by the session that left it, under the token it
\* had connected with, whatever was dropped off at providers that failed; and only
\* writers leave a capture.
CapturesAreFetched ==
  \A c \in Guests : LET g == guest[c] IN
    /\ g.outcome = "missed" => g.deposit[g.n] # "there"
    /\ g.access = "reads" => \A i \in 1..MaxTries : g.deposit[i] \in {"none", "dropped"}

\* A session that brings a profile to browserserve and means to save it may close its
\* browser: only a session that was resumed loses its capture that way.
ClosingStillSaves ==
  \A c \in Guests : \A closes \in BOOLEAN : LET g == guest[c] IN
    g.pc = "live" /\ g.access = "writes" /\ "channel" \in g.ways /\ g.path # "resume" => "closing" \in g.plugins

\* An endpoint that turned out to be of an earlier browser is not dialled again by the
\* connection that found out.
NotRefusedTwice == \A c \in Guests : ~guest[c].twice

ConnectSound ==
  TokenStaysHere /\ WritesIfMeant /\ LoadedWhereUsed /\ CapturesAreFetched /\ ClosingStillSaves /\ NotRefusedTwice
=============================================================================
