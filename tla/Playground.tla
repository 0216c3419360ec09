---------------------------- MODULE Playground ----------------------------
(***************************************************************************)
(* The playground page of the dashboard with the LiveClient of each        *)
(* session it opens (live-client/client).  A client that was closed        *)
(* answers no message any more, but a frame it was decoding still comes    *)
(* out.  What the page shows is state of React: a message sees the address *)
(* bar as it was when effects last ran.  After a session with a profile    *)
(* the page polls the profile's date until it changes.                     *)
(***************************************************************************)
EXTENDS Integers, Sequences

CONSTANTS
  Urls,         \* addresses as the server reports them
  Typed,        \* what the user types for each: an address too, or something shorter
  NoUrl,
  MaxVisits,  \* bound: sessions
  MaxMessages,  \* bound: messages of the server in one session
  MaxTyped,     \* bound: addresses typed
  Polls         \* SAVE_CHECK_TIMEOUT_MS / SAVE_CHECK_INTERVAL_MS

ASSUME PlaygroundAssumption ==
  NoUrl \notin Urls /\ Typed \in [Urls -> SUBSET (Urls \cup {NoUrl})] /\ Polls \in Nat \ {0}

VARIABLES
  status,
  shownSession,       \* clientRef: the session of the page, 0 if there is none
  begun,        \* sessions so far
  sock,         \* the socket of each
  deaf,         \* LiveClient.closed
  inbox,        \* events of each socket
  picture,      \* each client is decoding a frame
  told,         \* messages sent in each
  urlInput, urlInputRef, lastServerUrl,
  going,        \* the address the user asked for and the server has not reported
  editing,      \* the user typed and has not submitted
  typings,
  refreshing,
  saveWatch,    \* saveWatchRef
  checking,     \* polls under way
  known,        \* the date of the profile in the page's list
  savedDate,        \* the date the server has
  owes,         \* sessions that ended and whose profile is still to be saved
  reports       \* how often the end of each session was reported

playgroundVars ==
  <<status, shownSession, begun, sock, deaf, inbox, picture, told, urlInput, urlInputRef, lastServerUrl, going,
    editing, typings, refreshing, saveWatch, checking, known, savedDate, owes, reports>>

All == 1..MaxVisits
NoWatch == [of |-> 0, saving |-> FALSE, before |-> 0, live |-> FALSE]

PlaygroundInit ==
  /\ status = "idle" /\ shownSession = 0 /\ begun = 0
  /\ sock = [n \in All |-> "none"] /\ deaf = [n \in All |-> FALSE]
  /\ inbox = [n \in All |-> <<>>] /\ picture = [n \in All |-> FALSE] /\ told = [n \in All |-> 0]
  /\ urlInput \in Urls /\ urlInputRef = urlInput /\ lastServerUrl = NoUrl
  /\ going = NoUrl /\ editing = FALSE /\ typings = 0
  /\ refreshing = FALSE /\ saveWatch = NoWatch /\ checking = {} /\ known = 0 /\ savedDate = 0
  /\ owes = {} /\ reports = [n \in All |-> 0]

barKept == UNCHANGED <<urlInput, urlInputRef, going, editing, typings>>

-----------------------------------------------------------------------------
(* What the user does.                                                     *)

\* LiveClient.close: the client is deaf from now on.
Deafened == IF shownSession = 0 THEN deaf ELSE [deaf EXCEPT ![shownSession] = TRUE]

\* The server sees the socket close; a session that shows a profile is saved then.
Leaves(n) == IF n = 0 THEN sock ELSE [sock EXCEPT ![n] = "closed"]

\* reportSave: what the watch has to say, once.
ReportSave ==
  /\ saveWatch' = NoWatch
  /\ reports' = IF saveWatch.live THEN [reports EXCEPT ![saveWatch.of] = @ + 1] ELSE reports
  /\ checking' = IF saveWatch.live /\ saveWatch.saving
                 THEN checking \cup {[of |-> saveWatch.of, before |-> saveWatch.before, left |-> Polls]}
                 ELSE checking

HandleStart(saving) ==
  /\ status \notin {"connecting", "live"} /\ begun < MaxVisits
  /\ deaf' = Deafened
  /\ sock' = [Leaves(shownSession) EXCEPT ![begun + 1] = "connecting"]
  /\ begun' = begun + 1 /\ shownSession' = begun + 1
  /\ status' = "connecting" /\ lastServerUrl' = NoUrl
  /\ saveWatch' = [of |-> begun + 1, saving |-> saving, before |-> known, live |-> FALSE]
  /\ owes' = owes \cup IF saving THEN {begun + 1} ELSE {}
  /\ UNCHANGED <<inbox, picture, told, refreshing, checking, known, savedDate, reports>> /\ barKept

HandleStop ==
  /\ status \in {"connecting", "live"}
  /\ deaf' = Deafened /\ sock' = Leaves(shownSession) /\ shownSession' = 0
  /\ status' = "idle" /\ lastServerUrl' = NoUrl
  /\ ReportSave
  /\ UNCHANGED <<begun, inbox, picture, told, refreshing, known, savedDate, owes>> /\ barKept

pageKept ==
  UNCHANGED <<status, shownSession, begun, sock, deaf, inbox, picture, told, lastServerUrl, refreshing,
              saveWatch, checking, known, savedDate, owes, reports>>

\* The user writes what stands for u.
Type(u, text) ==
  /\ typings < MaxTyped /\ typings' = typings + 1 /\ text \in Typed[u]
  /\ urlInput' = text /\ editing' = TRUE /\ going' = u
  /\ UNCHANGED urlInputRef /\ pageKept

OnSubmitUrl ==
  /\ editing /\ status = "live" /\ editing' = FALSE
  /\ UNCHANGED <<urlInput, urlInputRef, going, typings>> /\ pageKept

\* React renders and runs its effects.
Renders ==
  /\ urlInputRef # urlInput /\ urlInputRef' = urlInput
  /\ UNCHANGED <<urlInput, going, editing, typings>> /\ pageKept

-----------------------------------------------------------------------------
(* The server, as the socket of a session shows it.                        *)

Says(n, event) == inbox' = [inbox EXCEPT ![n] = Append(@, event)]

serverKept ==
  UNCHANGED <<status, shownSession, begun, deaf, picture, urlInput, urlInputRef, lastServerUrl, editing,
              typings, refreshing, saveWatch, checking, known, owes, reports>>

Opens(n) ==
  /\ sock[n] = "connecting" /\ sock' = [sock EXCEPT ![n] = "open"]
  /\ Says(n, [type |-> "open", url |-> NoUrl])
  /\ UNCHANGED <<told, going, savedDate>> /\ serverKept

Tells(n) ==
  /\ sock[n] = "open" /\ inbox[n] = <<>> /\ told[n] < MaxMessages /\ told' = [told EXCEPT ![n] = @ + 1]
  /\ \/ \E type \in {"frame", "refresh", "done", "error", "expired"} :
          Says(n, [type |-> type, url |-> NoUrl]) /\ UNCHANGED going
     \/ \E u \in Urls : Says(n, [type |-> "url", url |-> u]) /\ UNCHANGED going
     \/ /\ going # NoUrl /\ ~editing
        /\ Says(n, [type |-> "url", url |-> going]) /\ going' = NoUrl
  /\ UNCHANGED <<sock, savedDate>> /\ serverKept

Closes(n) ==
  /\ sock[n] \in {"connecting", "open"} /\ sock' = [sock EXCEPT ![n] = "closed"]
  /\ Says(n, [type |-> "close", url |-> NoUrl])
  /\ UNCHANGED <<told, going, savedDate>> /\ serverKept

\* The profile of a session that ended is saved, or it is not.
ProfileSaved(n) ==
  /\ n \in owes /\ sock[n] = "closed"
  /\ owes' = owes \ {n}
  /\ savedDate' \in {savedDate, savedDate + 1}
  /\ UNCHANGED <<status, shownSession, begun, sock, deaf, inbox, picture, told, lastServerUrl, refreshing,
                 saveWatch, checking, known, reports>>
  /\ barKept

-----------------------------------------------------------------------------
(* What the page does with it.                                             *)

\* Mutant: the last event of a closed client is still heard.
IgnoresAllButClose(n) == deaf[n] /\ Head(inbox[n]).type # "close"

\* LiveClient's handlers return at once when it is closed.
Ignores(n) == deaf[n]

\* The address bar follows the tab unless the user is writing in it.
OnUrl(u) ==
  /\ urlInput' = IF urlInputRef = lastServerUrl \/ lastServerUrl = NoUrl THEN u ELSE urlInput
  /\ lastServerUrl' = u

OnClose(n) ==
  /\ deaf' = [deaf EXCEPT ![n] = TRUE]
  /\ refreshing' = FALSE /\ status' = "closed"
  /\ ReportSave

PageReceives(n) ==
  /\ inbox[n] # <<>> /\ inbox' = [inbox EXCEPT ![n] = Tail(@)]
  /\ LET m == Head(inbox[n])
         quiet == UNCHANGED <<saveWatch, checking, reports>>
     IN
       \/ /\ Ignores(n)
          /\ UNCHANGED <<status, deaf, picture, urlInput, lastServerUrl, refreshing>> /\ quiet
       \/ /\ ~Ignores(n) /\ m.type = "open" /\ status' = "live"
          /\ UNCHANGED <<deaf, picture, urlInput, lastServerUrl, refreshing>> /\ quiet
       \/ /\ ~Ignores(n) /\ m.type \in {"error", "expired"}
          /\ status' = IF m.type = "error" THEN "error" ELSE "closed"
          /\ UNCHANGED <<deaf, picture, urlInput, lastServerUrl, refreshing>> /\ quiet
       \/ /\ ~Ignores(n) /\ m.type = "url" /\ OnUrl(m.url)
          /\ UNCHANGED <<status, deaf, picture, refreshing>> /\ quiet
       \/ /\ ~Ignores(n) /\ m.type = "frame" /\ picture' = [picture EXCEPT ![n] = TRUE]
          /\ UNCHANGED <<status, deaf, urlInput, lastServerUrl, refreshing>> /\ quiet
       \/ /\ ~Ignores(n) /\ m.type \in {"refresh", "done"} /\ refreshing' = (m.type = "refresh")
          /\ UNCHANGED <<status, deaf, picture, urlInput, lastServerUrl>> /\ quiet
       \/ /\ ~Ignores(n) /\ m.type = "close" /\ OnClose(n)
          /\ UNCHANGED <<picture, urlInput, lastServerUrl>>
  /\ UNCHANGED <<shownSession, begun, sock, told, urlInputRef, going, editing, typings, known, savedDate, owes>>

\* decodeAndDeliver asks nobody whether the client is closed.
FrameDecoded(n) ==
  /\ picture[n] /\ picture' = [picture EXCEPT ![n] = FALSE]
  /\ saveWatch' = IF saveWatch.of = 0 THEN saveWatch ELSE [saveWatch EXCEPT !.live = TRUE]
  /\ UNCHANGED <<status, shownSession, begun, sock, deaf, inbox, told, lastServerUrl, refreshing, checking,
                 known, savedDate, owes, reports>>
  /\ barKept

\* One check of a poll: the date has changed, or time is up, or another try.
Check(c) ==
  /\ c \in checking
  /\ checking' = (checking \ {c}) \cup
       IF savedDate # c.before \/ c.left = 0 THEN {} ELSE {[c EXCEPT !.left = @ - 1]}
  /\ known' = IF savedDate # c.before THEN savedDate ELSE known
  /\ UNCHANGED <<status, shownSession, begun, sock, deaf, inbox, picture, told, lastServerUrl, refreshing,
                 saveWatch, savedDate, owes, reports>>
  /\ barKept

PlaygroundNext ==
  \/ \E s \in BOOLEAN : HandleStart(s)
  \/ HandleStop \/ OnSubmitUrl \/ Renders
  \/ \E u \in Urls, t \in Urls \cup {NoUrl} : Type(u, t)
  \/ \E n \in All : Opens(n) \/ Tells(n) \/ Closes(n) \/ ProfileSaved(n) \/ PageReceives(n) \/ FrameDecoded(n)
  \/ \E c \in checking : Check(c)

PlaygroundSpec == PlaygroundInit /\ [][PlaygroundNext]_playgroundVars

-----------------------------------------------------------------------------
(* Properties.                                                             *)

\* The page says "live" or "connecting" of the session it holds, never because of
\* a message of an earlier one.
StatusIsCurrent ==
  status \in {"connecting", "live"} =>
    /\ shownSession # 0 /\ ~deaf[shownSession]
    /\ status = "live" => sock[shownSession] = "open" \/ inbox[shownSession] # <<>>

\* The end of a session is reported once at most, whoever ends it first.
OneReport == \A n \in All : reports[n] =< 1

\* Only a session that ended is being looked up, and nobody looks for a save of a
\* session opened to be read.
ChecksAreOfEnded == \A c \in checking : sock[c.of] = "closed"

PageIsCurrent == StatusIsCurrent /\ OneReport /\ ChecksAreOfEnded
=============================================================================
