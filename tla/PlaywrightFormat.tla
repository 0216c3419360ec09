---------------------------- MODULE PlaywrightFormat ----------------------------
(***************************************************************************)
(* Profiles as other tools write them (core/profile/playwright-format.ts): *)
(* what a pasted payload becomes as a profile, what a profile becomes as a *)
(* storageState, and what of either a session injects                      *)
(* (core/profile/cookie-helpers.ts).  Every cookie is converted by itself, *)
(* so the interesting inputs are single cookies and lists of origins.      *)
(***************************************************************************)
EXTENDS Naturals, Sequences, FiniteSets, SequencesExt

CONSTANTS SheetOrigins, SheetValues

Unset == "unset"

\* A cookie of a payload: "" where a field is missing; a url has the domain `d` and the
\* path /p.  Expiry is a number: "session" stands for -1.
RawCookies ==
  [name : {"", "plain", "__Host-", "__Secure-"}, domain : {"", "d"}, path : {"", "/", "/p"},
   url : BOOLEAN, expires : {Unset, "session", "past", "future"},
   expirationDate : {Unset, "future"}, secure : BOOLEAN, httpOnly : BOOLEAN,
   sameSite : {Unset, "lax", "Strict", "no_restriction", "unspecified", "None", "other"},
   oversized : {FALSE}]

\* A cookie of a browser (Storage.getCookies).
BrowserCookies ==
  [name : {"", "plain", "__Host-", "__Secure-"}, domain : {"d", ".d"}, path : {"/", "/p"},
   expires : {"session", "zero", "past", "future"}, secure : BOOLEAN, httpOnly : BOOLEAN,
   sameSite : {Unset, "Strict", "Lax", "None"}, partition : {"none", "key", "opaque"},
   oversized : BOOLEAN]

VARIABLES
  format,   \* how far the conversion is
  payload,  \* what was pasted, or what the profile was exported as
  asProfile,   \* the profile
  before    \* the profile that was exported, or the one before the first export

formatVars == <<format, payload, asProfile, before>>

NoProfile == [cookies |-> {}, storage |-> << >>]
OfOrigins(entries) == [cookies |-> {}, origins |-> entries]
OfCookie(c) == [cookies |-> {c}, origins |-> << >>]

OriginEntries == [origin : SheetOrigins, localStorage : SheetValues]
Storages == UNION {[S -> [local : SheetValues, session : SheetValues]] : S \in SUBSET SheetOrigins}

FormatInit ==
  /\ before = NoProfile
  /\ \/ /\ format = "pasted" /\ asProfile = NoProfile
        /\ payload \in {OfCookie(c) : c \in RawCookies} \cup {OfOrigins(s) : s \in SeqOf(OriginEntries, 2)}
     \/ /\ format = "captured" /\ payload = OfOrigins(<< >>)
        /\ asProfile \in {[cookies |-> {c}, storage |-> << >>] : c \in BrowserCookies}
                      \cup {[cookies |-> {}, storage |-> s] : s \in Storages}

----------------------------------------------------------------------------
(* From a payload to a profile *)

\* normaliseCookie: the spellings of Puppeteer and of the cookie editors.
SpelledSameSite(s) ==
  CASE s \in {"lax", "Lax"} -> "Lax"
    [] s = "Strict" -> "Strict"
    [] s \in {"None", "no_restriction"} -> "None"
    [] s = "unspecified" -> Unset
    [] OTHER -> s

Normalised(c) ==
  [c EXCEPT !.expires = IF c.expires = Unset THEN c.expirationDate ELSE @,
            !.domain = IF @ = "" /\ c.url THEN "d" ELSE @,
            !.path = IF @ = "" /\ c.url THEN "/p" ELSE @,
            !.sameSite = SpelledSameSite(@)]

\* PlaywrightCookieSchema: one cookie that does not fit refuses the whole payload.
FitsSchema(c) ==
  /\ c.name # ""
  /\ c.url \/ (c.domain # "" /\ c.path # "")
  /\ c.sameSite \in {Unset, "Strict", "Lax", "None"}

PlaywrightCookieToCdp(c) ==
  [name |-> c.name, domain |-> c.domain, path |-> c.path,
   expires |-> IF c.expires = "session" THEN Unset ELSE c.expires,
   secure |-> c.secure, httpOnly |-> c.httpOnly,
   sameSite |-> IF c.sameSite = Unset THEN "Lax" ELSE c.sameSite,
   partition |-> "none", oversized |-> c.oversized]

\* The last entry of an origin counts.
StoredOrigins(entries) ==
  [o \in {entries[i].origin : i \in DOMAIN entries} |->
     LET last == SelectLastInSeq(entries, LAMBDA e : e.origin = o)
     IN [local |-> entries[last].localStorage, session |-> "none"]]

\* A bare array is its cookies; anything of another shape is an empty state.
StorageStateToCapturedProfile(state) ==
  [cookies |-> {PlaywrightCookieToCdp(Normalised(c)) : c \in state.cookies},
   storage |-> StoredOrigins(state.origins)]

AllFit(state) == \A c \in state.cookies : FitsSchema(Normalised(c))

Import ==
  /\ format \in {"pasted", "exported"}
  /\ IF AllFit(payload)
     THEN asProfile' = StorageStateToCapturedProfile(payload) /\ format' = "imported"
     ELSE format' = "refused" /\ UNCHANGED asProfile
  /\ UNCHANGED <<payload, before>>

----------------------------------------------------------------------------
(* From a profile to a storageState *)

\* What Playwright has no field for goes: the partition, sessionStorage.
CdpCookieToPlaywright(c) ==
  [name |-> c.name, domain |-> c.domain, path |-> c.path, url |-> FALSE,
   expires |-> IF c.expires = Unset THEN "session" ELSE c.expires, expirationDate |-> Unset,
   secure |-> c.secure, httpOnly |-> c.httpOnly, sameSite |-> c.sameSite,
   oversized |-> c.oversized]

CapturedProfileToStorageState(p) ==
  [cookies |-> {CdpCookieToPlaywright(c) : c \in p.cookies},
   origins |-> SetToSeq({[origin |-> o, localStorage |-> p.storage[o].local] : o \in DOMAIN p.storage})]

Export ==
  /\ format \in {"captured", "imported"} /\ before = NoProfile
  /\ payload' = CapturedProfileToStorageState(asProfile)
  /\ before' = asProfile /\ format' = "exported"
  /\ UNCHANGED asProfile

FormatNext == Import \/ Export

FormatSpec == FormatInit /\ [][FormatNext]_formatVars

----------------------------------------------------------------------------
(* What a session injects of a profile *)

\* isInjectableCookie: a cookie the browser would refuse, or that could only be set with
\* a wider scope, is left out.
IsInjectableCookie(c) ==
  /\ c.sameSite = "None" => c.secure
  /\ c.expires # "past"
  /\ c.partition # "opaque"
  /\ c.name = "__Host-" => c.secure /\ c.path = "/" /\ c.domain # ".d"
  /\ c.name = "__Secure-" => c.secure
  /\ ~c.oversized

PrepareCookieForInject(c) ==
  [c EXCEPT !.expires = IF @ \in {"past", "future"} THEN @ ELSE Unset]

SanitizeCookiesForInject(cookies) ==
  {PrepareCookieForInject(c) : c \in {d \in cookies : IsInjectableCookie(d)}}

----------------------------------------------------------------------------
(* Properties *)

\* What the way over the format may change of a cookie that was captured: an unset
\* sameSite is Lax, and the partition is gone.
Declared(c) == [c EXCEPT !.sameSite = IF @ = Unset THEN "Lax" ELSE @, !.partition = "none"]
LocalOnly(storage) == [o \in DOMAIN storage |-> storage[o].local]

\* An exported profile that is imported again injects what it injected before, but for
\* what the format cannot say (playwright-format.ts:43-48), and a partitioned cookie,
\* which comes back wider than it was; and it has the same localStorage.
RoundTripInjects ==
  format = "imported" /\ before # NoProfile =>
    /\ SanitizeCookiesForInject(asProfile.cookies) =
         SanitizeCookiesForInject({Declared(c) : c \in before.cookies})
    /\ LocalOnly(asProfile.storage) = LocalOnly(before.storage)

\* What was imported once is a fixed point: exporting and importing it changes nothing
\* at all, and what is exported can be imported, unless a cookie has no name.
RoundTripIsFixed ==
  /\ format = "imported" /\ before # NoProfile
       /\ (\A c \in before.cookies : c.sameSite # Unset /\ c.partition = "none"
                                       /\ c.expires # "session")
       /\ (\A o \in DOMAIN before.storage : before.storage[o].session = "none")
     => asProfile = before
  /\ format = "refused" /\ before # NoProfile => \E c \in before.cookies : c.name = ""

FormatSound == RoundTripInjects /\ RoundTripIsFixed
=============================================================================
