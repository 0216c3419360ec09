----------------------------- MODULE Recording -----------------------------
(***************************************************************************)
(* The screencast plugin records a session over the client's own CDP       *)
(* connection and writes it, chunk by chunk, into a directory that the     *)
(* replay routes read and the retention sweep removes.  The browser's      *)
(* messages keep their order; a command is obeyed as it is sent, for what  *)
(* the browser draws meanwhile it might as well draw before.               *)
(*                                                                         *)
(* A frame has size one; an offset in a chunk counts the frames before it. *)
(* A file that is being written is torn until the write is through.        *)
(***************************************************************************)
EXTENDS Naturals, Sequences, FiniteSets, SequencesExt

CONSTANTS
  Tabs,         \* CDP sessions of pages
  Pictures,     \* what a page looks like
  ChunkFrames,  \* chunkMaxBytes
  FrameCap,     \* maxBytesPerSession
  MaxInFlight,  \* writes outstanding above which frames are dropped
  MaxDrawn,     \* bound: frames the browser sends
  MaxSkips      \* bound: messages dropped because the client is slow

ASSUME RecordingAssumption ==
  /\ IsFiniteSet(Tabs) /\ IsFiniteSet(Pictures)
  /\ {ChunkFrames, FrameCap, MaxInFlight} \subseteq Nat \ {0}
  /\ {MaxDrawn, MaxSkips} \subseteq Nat

VARIABLES
  recorder,  \* where the plugin and its storage are
  page,      \* the browser's side of each tab: none, open, casting, gone
  unacked,   \* frames of each tab the browser has no acknowledgement for
  up,        \* messages on their way to the gateway
  target,    \* the plugin's targets: none, arming, armed
  shown,     \* the picture last kept of each tab; NoPicture: none
  frames,    \* the records of the frames kept
  buffer,    \* the chunk being filled: frame numbers
  chunk,     \* its index
  writes,    \* chunk writes outstanding
  lostChunks,\* failedChunks
  stopped,   \* capStopped
  parts,     \* chunks on disk
  files,     \* the other files on disk
  manifest,  \* the frames named by manifest.json
  drawn, skips,
  latest,    \* the picture last read of each tab
  missed,    \* tabs a frame of which was dropped
  lateArm    \* tabs that were being armed when the capture stopped

recordingVars == <<recorder, page, unacked, up, target, shown, frames, buffer, chunk, writes,
                   lostChunks, stopped, parts, files, manifest, drawn, skips, latest, missed, lateArm>>

browserVars == <<page, unacked, drawn>>
channelVars == <<up, skips>>
chunkVars == <<frames, buffer, chunk, writes>>
diskVars == <<parts, files, manifest>>
ghostVars == <<latest, missed, lateArm>>

NoPicture == "none"
FileNames == {"dir", "meta", "manifest", "complete"}
Absent == [f \in FileNames |-> "none"]

Messages == {"attached", "detached", "sized"} \X Tabs \cup {"frame"} \X Tabs \X Pictures

Records == [tab : Tabs, picture : Pictures, chunk : Nat, offset : Nat]

RecordingTypeOK ==
  /\ recorder \in {"idle", "making", "meta", "recording", "ending", "manifest", "complete",
                   "over", "failed", "dead"}
  /\ page \in [Tabs -> {"none", "open", "casting", "gone"}]
  /\ unacked \in [Tabs -> 0..2]
  /\ up \in Seq(Messages)
  /\ target \in [Tabs -> {"none", "arming", "armed"}]
  /\ shown \in [Tabs -> Pictures \cup {NoPicture}]
  /\ latest \in [Tabs -> Pictures \cup {NoPicture}]
  /\ frames \in Seq(Records) /\ buffer \in Seq(1..Len(frames))
  /\ chunk \in Nat /\ lostChunks \subseteq 0..chunk
  /\ \A w \in writes : w.chunk < chunk
  /\ stopped \in BOOLEAN
  /\ files \in [FileNames -> {"none", "torn", "whole"}]
  /\ manifest \subseteq 1..Len(frames)
  /\ missed \subseteq Tabs /\ lateArm \subseteq Tabs

RecordingInit ==
  /\ recorder = "idle"
  /\ page = [t \in Tabs |-> "none"] /\ unacked = [t \in Tabs |-> 0]
  /\ up = << >>
  /\ target = [t \in Tabs |-> "none"]
  /\ shown = [t \in Tabs |-> NoPicture] /\ latest = [t \in Tabs |-> NoPicture]
  /\ frames = << >> /\ buffer = << >> /\ chunk = 0 /\ writes = {} /\ lostChunks = {}
  /\ stopped = FALSE
  /\ parts = << >> /\ files = Absent /\ manifest = {}
  /\ drawn = 0 /\ skips = 0 /\ missed = {} /\ lateArm = {}

Alive == recorder \notin {"idle", "over", "failed", "dead"}
Connected == recorder \in {"making", "meta", "recording"}

(***************************************************************************)
(* The browser.                                                            *)
(***************************************************************************)

TabAttached(t) ==
  /\ recorder = "recording" /\ page[t] = "none"
  /\ page' = [page EXCEPT ![t] = "open"]
  /\ up' = Append(up, <<"attached", t>>)
  /\ UNCHANGED <<recorder, unacked, target, shown, lostChunks, stopped, drawn, skips>>
  /\ UNCHANGED <<chunkVars, diskVars, ghostVars>>

TabDetached(t) ==
  /\ recorder = "recording" /\ page[t] \in {"open", "casting"}
  /\ page' = [page EXCEPT ![t] = "gone"]
  /\ up' = Append(up, <<"detached", t>>)
  /\ UNCHANGED <<recorder, unacked, target, shown, lostChunks, stopped, drawn, skips>>
  /\ UNCHANGED <<chunkVars, diskVars, ghostVars>>

\* The browser sends no third frame before one is acknowledged.
Draws(t) ==
  /\ recorder = "recording"
  /\ page[t] = "casting" /\ unacked[t] < 2 /\ drawn < MaxDrawn
  /\ \E p \in Pictures : up' = Append(up, <<"frame", t, p>>)
  /\ unacked' = [unacked EXCEPT ![t] = @ + 1]
  /\ drawn' = drawn + 1
  /\ UNCHANGED <<recorder, page, target, shown, lostChunks, stopped, skips>>
  /\ UNCHANGED <<chunkVars, diskVars, ghostVars>>

\* A command to a tab that is gone is refused and changes nothing.
Live(t) == page[t] \in {"open", "casting"}
StartCast(t) == page' = IF Live(t) THEN [page EXCEPT ![t] = "casting"] ELSE page
StopCasts(ts) == page' = [t \in Tabs |-> IF t \in ts /\ Live(t) THEN "open" ELSE page[t]]
Acked(t) == [unacked EXCEPT ![t] = @ - 1]

(***************************************************************************)
(* The start of a session: the directory, then meta.json.                  *)
(***************************************************************************)

OnSessionStart ==
  /\ recorder = "idle"
  /\ recorder' = "making"
  /\ UNCHANGED <<target, shown, lostChunks, stopped, browserVars, channelVars, chunkVars, diskVars, ghostVars>>

StorageMade ==
  /\ recorder = "making"
  /\ recorder' = "meta"
  /\ files' = [files EXCEPT !["dir"] = "whole", !["meta"] = "torn"]
  /\ UNCHANGED <<target, shown, lostChunks, stopped, parts, manifest>>
  /\ UNCHANGED <<browserVars, channelVars, chunkVars, ghostVars>>

Started ==
  /\ recorder = "meta"
  /\ recorder' = "recording"
  /\ files' = [files EXCEPT !["meta"] = "whole"]
  /\ UNCHANGED <<target, shown, lostChunks, stopped, parts, manifest>>
  /\ UNCHANGED <<browserVars, channelVars, chunkVars, ghostVars>>

\* init throws, and the session is refused.
StorageFails ==
  /\ recorder \in {"making", "meta"}
  /\ recorder' = "failed"
  /\ UNCHANGED <<target, shown, lostChunks, stopped, browserVars, channelVars, chunkVars, diskVars, ghostVars>>

(***************************************************************************)
(* Messages.                                                               *)
(***************************************************************************)

Reads(kind) == recorder = "recording" /\ up # << >> /\ Head(up)[1] = kind /\ up' = Tail(up)

\* armTarget: the metrics first, and the screencast once they are answered.
OnAttached ==
  /\ recorder = "recording" /\ up # << >> /\ Head(up)[1] = "attached"
  /\ LET t == Head(up)[2] IN
     IF stopped \/ target[t] # "none"
     THEN UNCHANGED target /\ up' = Tail(up)
     ELSE /\ target' = [target EXCEPT ![t] = "arming"]
          /\ up' = IF Live(t) THEN Append(Tail(up), <<"sized", t>>) ELSE Tail(up)
  /\ UNCHANGED <<recorder, shown, lostChunks, stopped, skips, browserVars, chunkVars, diskVars, ghostVars>>

\* The promise goes on, whether or not the target is still wanted.
OnSized ==
  /\ Reads("sized")
  /\ LET t == Head(up)[2] IN
     /\ StartCast(t)
     /\ target' = IF target[t] = "arming" THEN [target EXCEPT ![t] = "armed"] ELSE target
  /\ UNCHANGED <<recorder, unacked, drawn, shown, lostChunks, stopped, skips, chunkVars, diskVars, ghostVars>>

OnDetached ==
  /\ Reads("detached")
  /\ target' = IF stopped THEN target ELSE [target EXCEPT ![Head(up)[2]] = "none"]
  /\ UNCHANGED <<recorder, shown, lostChunks, stopped, skips, browserVars, chunkVars, diskVars, ghostVars>>

Known == {t \in Tabs : target[t] # "none"}

StopCapture == StopCasts(Known)

\* flushChunk, of a buffer that is not empty.
Flushed(written) ==
  /\ writes' = writes \cup {[chunk |-> chunk, data |-> written]}
  /\ chunk' = chunk + 1

\* Mutant: the offset is that of the chunk just flushed.
KeepAtOldOffset(t, p, full) ==
  /\ frames' = Append(frames, [tab |-> t, picture |-> p, chunk |-> chunk', offset |-> Len(buffer)])
  /\ buffer' = Append(IF full THEN << >> ELSE buffer, Len(frames) + 1)

\* The frame is appended to the chunk, and recorded where it went.
Keep(t, p, full) ==
  LET room == IF full THEN << >> ELSE buffer
  IN /\ frames' = Append(frames, [tab |-> t, picture |-> p, chunk |-> chunk', offset |-> Len(room)])
     /\ buffer' = Append(room, Len(frames) + 1)

\* appendFrameToBuffer: a chunk that is full, or has been open too long, is
\* flushed first.
AppendFrame(t, p) ==
  /\ \E old \in BOOLEAN :
       LET full == buffer # << >> /\ (old \/ Len(buffer) + 1 > ChunkFrames)
       IN /\ IF full THEN Flushed(buffer) ELSE UNCHANGED <<writes, chunk>>
          /\ Keep(t, p, full)
  /\ shown' = [shown EXCEPT ![t] = p]

AcknowledgeFrame(t, p) == unacked' = Acked(t)

\* The cap is looked at before the frame that exceeds it, so the frame that
\* reaches it is kept.
CapReached == Len(frames) >= FrameCap

Busy == Cardinality(writes) >= MaxInFlight

SamePicture(t, p) == shown[t] = p

OnFrame ==
  /\ Reads("frame")
  /\ LET t == Head(up)[2]
         p == Head(up)[3]
     IN IF stopped \/ target[t] = "none"
        THEN UNCHANGED <<page, unacked, shown, stopped, chunkVars, ghostVars>>
        ELSE /\ AcknowledgeFrame(t, p)
             /\ latest' = [latest EXCEPT ![t] = p]
             /\ \/ /\ CapReached
                   /\ stopped' = TRUE /\ StopCapture
                   /\ lateArm' = {s \in Tabs : target[s] = "arming"}
                   /\ missed' = missed \cup {t}
                   /\ UNCHANGED <<shown, chunkVars>>
                \/ /\ ~CapReached /\ Busy
                   /\ missed' = missed \cup {t}
                   /\ UNCHANGED <<page, shown, stopped, lateArm, chunkVars>>
                \/ /\ ~CapReached /\ ~Busy /\ SamePicture(t, p)
                   /\ UNCHANGED <<page, shown, stopped, missed, lateArm, chunkVars>>
                \/ /\ ~CapReached /\ ~Busy /\ ~SamePicture(t, p)
                   /\ AppendFrame(t, p)
                   /\ missed' = missed \ {t}
                   /\ UNCHANGED <<page, stopped, lateArm>>
  /\ UNCHANGED <<recorder, target, lostChunks, skips, drawn, diskVars>>

\* The client's buffer is over its threshold: the pipeline drops the message
\* before the plugins see it.
ClientSlow ==
  /\ recorder = "recording" /\ up # << >> /\ skips < MaxSkips
  /\ up' = Tail(up) /\ skips' = skips + 1
  /\ missed' = IF Head(up)[1] = "frame" THEN missed \cup {Head(up)[2]} ELSE missed
  /\ UNCHANGED <<recorder, target, shown, lostChunks, stopped, latest, lateArm>>
  /\ UNCHANGED <<browserVars, chunkVars, diskVars>>

(***************************************************************************)
(* The disk.  A write into a directory that was removed fails.             *)
(***************************************************************************)

ChunkWritten(w) ==
  /\ writes' = writes \ {w}
  /\ \/ /\ files["dir"] = "whole"
        /\ parts' = [c \in DOMAIN parts \cup {w.chunk} |-> IF c = w.chunk THEN w.data ELSE parts[c]]
        /\ UNCHANGED lostChunks
     \/ lostChunks' = lostChunks \cup {w.chunk} /\ UNCHANGED parts
  /\ UNCHANGED <<recorder, target, shown, frames, buffer, chunk, stopped, files, manifest>>
  /\ UNCHANGED <<browserVars, channelVars, ghostVars>>

(***************************************************************************)
(* The readers (server/replay/store.ts), and what removes a replay.        *)
(***************************************************************************)

\* readMeta: a directory without a readable meta.json is no replay; a complete.json
\* that cannot be parsed still says that the replay is complete.
ReadMeta ==
  IF files["meta"] # "whole" THEN "absent"
  ELSE IF files["complete"] # "none" THEN "complete" ELSE "incomplete"

ReadManifest == IF files["manifest"] = "whole" THEN manifest ELSE {}

\* GET /replays/:id/parts/:part, whole or torn.
ServedPart(c) == IF c \in DOMAIN parts THEN parts[c] ELSE << >>

\* The bytes at the offset the manifest tells, whichever frame's they are; 0: 404.
ReadFrame(n) ==
  IF n \notin ReadManifest THEN 0
  ELSE LET r == frames[n]
           part == ServedPart(r.chunk)
       IN IF r.offset < Len(part) THEN part[r.offset + 1] ELSE 0

\* get: the tabs the manifest has frames of.
ReplayTargets == {frames[n].tab : n \in ReadManifest}

Removed ==
  /\ files' = Absent /\ parts' = << >> /\ manifest' = {}
  /\ UNCHANGED <<recorder, target, shown, lostChunks, stopped>>
  /\ UNCHANGED <<browserVars, channelVars, chunkVars, ghostVars>>

\* DELETE /replays/:id does not ask whether the session still records.
DeleteReplay == ReadMeta # "absent" /\ Removed

\* Nor does the sweep, for which a replay is old by its end, or by its start and the
\* grace when it has none; any replay may be that old.
PurgeReplay == ReadMeta \in {"complete", "incomplete"} /\ Removed

(***************************************************************************)
(* The end of a session, and of the process.                               *)
(***************************************************************************)

\* The tabs are not asked for any more.
OnSessionEnd ==
  /\ recorder = "recording"
  /\ recorder' = "ending"
  /\ IF buffer # << >> THEN Flushed(buffer) /\ buffer' = << >> ELSE UNCHANGED <<writes, chunk, buffer>>
  /\ up' = << >>
  /\ page' = [t \in Tabs |-> "none"] /\ unacked' = [t \in Tabs |-> 0] /\ target' = [t \in Tabs |-> "none"]
  /\ UNCHANGED <<shown, frames, lostChunks, stopped, drawn, skips, diskVars, ghostVars>>

Named == {n \in 1..Len(frames) : frames[n].chunk \notin lostChunks}

WritesSettled == writes = {}

BeginManifest ==
  /\ recorder = "ending" /\ WritesSettled
  /\ IF files["dir"] = "whole"
     THEN recorder' = "manifest" /\ files' = [files EXCEPT !["manifest"] = "torn"]
     ELSE recorder' = "failed" /\ UNCHANGED files
  /\ UNCHANGED <<target, shown, lostChunks, stopped, parts, manifest>>
  /\ UNCHANGED <<browserVars, channelVars, chunkVars, ghostVars>>

\* A file that was removed while it was written has no name any more.
ManifestWritten ==
  /\ recorder = "manifest"
  /\ IF files["manifest"] = "torn"
     THEN /\ recorder' = "complete" /\ manifest' = Named
          /\ files' = [files EXCEPT !["manifest"] = "whole", !["complete"] = "torn"]
     ELSE recorder' = "failed" /\ UNCHANGED <<manifest, files>>
  /\ UNCHANGED <<target, shown, lostChunks, stopped, parts>>
  /\ UNCHANGED <<browserVars, channelVars, chunkVars, ghostVars>>

CompleteWritten ==
  /\ recorder = "complete"
  /\ recorder' = "over"
  /\ files' = IF files["complete"] = "torn" THEN [files EXCEPT !["complete"] = "whole"] ELSE files
  /\ UNCHANGED <<target, shown, lostChunks, stopped, parts, manifest>>
  /\ UNCHANGED <<browserVars, channelVars, chunkVars, ghostVars>>

FinalizeFails ==
  /\ recorder \in {"manifest", "complete"}
  /\ recorder' = "failed"
  /\ UNCHANGED <<target, shown, lostChunks, stopped, browserVars, channelVars, chunkVars, diskVars, ghostVars>>

\* The process dies; what is on disk stays.
Dies ==
  /\ Alive
  /\ recorder' = "dead" /\ writes' = {} /\ up' = << >>
  /\ page' = [t \in Tabs |-> "none"] /\ unacked' = [t \in Tabs |-> 0] /\ target' = [t \in Tabs |-> "none"]
  /\ UNCHANGED <<shown, frames, buffer, chunk, lostChunks, stopped, drawn, skips, diskVars, ghostVars>>

BrowserSteps == \E t \in Tabs : TabAttached(t) \/ TabDetached(t) \/ Draws(t)
PluginSteps == OnAttached \/ OnSized \/ OnDetached \/ OnFrame \/ ClientSlow
DiskSteps ==
  \/ StorageMade \/ Started \/ StorageFails
  \/ \E w \in writes : ChunkWritten(w)
  \/ BeginManifest \/ ManifestWritten \/ CompleteWritten \/ FinalizeFails

RecordingNext == OnSessionStart \/ BrowserSteps \/ PluginSteps \/ DiskSteps \/ OnSessionEnd \/ DeleteReplay \/ PurgeReplay \/ Dies

RecordingSpec == RecordingInit /\ [][RecordingNext]_recordingVars /\ WF_recordingVars(DiskSteps)

(***************************************************************************)
(* Properties                                                              *)
(***************************************************************************)

\* readFrame answers with the frame that was asked for: whatever writes
\* failed, whatever was removed and wherever the process died, every frame
\* that manifest.json names is where it says (store.ts:90-99).
ReplayReadable == \A n \in ReadManifest : ReadFrame(n) = n

\* A replay that is listed as complete has its manifest, with every frame that
\* was kept but those of chunks that could not be written; and nobody writes into it
\* any more, for its parts are served as immutable (replays.ts:98).
CompleteHasAll ==
  ReadMeta = "complete" =>
    /\ ReadManifest = Named /\ writes = {}
    /\ ReplayTargets = {frames[n].tab : n \in Named}

\* The frames of a tab that the gateway has yet to read.
FramesOf(t) == {"frame"} \X {t} \X Pictures
Unread(t) == Cardinality({i \in DOMAIN up : up[i] \in FramesOf(t)})

\* A tab's screencast does not run dry: while the session records, the browser
\* waits for no acknowledgement but of frames the gateway has yet to read, or
\* that were dropped for a slow client.
CastGoesOn ==
  recorder = "recording" /\ ~stopped /\ skips = 0 =>
    \A t \in Tabs :
      page[t] = "casting" /\ target[t] = "armed" =>
        unacked[t] = Unread(t)

\* When the byte cap stops the capture every tab stops, but those that were
\* just being armed.
CapStopsTabs ==
  recorder = "recording" /\ stopped /\ up = << >> /\ skips = 0 =>
    \A t \in Tabs \ lateArm : page[t] # "casting"

\* The last picture of a tab is in the replay, unless frames were dropped or a
\* chunk was lost.
LastPictureKept ==
  files["complete"] # "none" /\ lostChunks = {} =>
    \A t \in Tabs \ missed :
      latest[t] # NoPicture =>
        \E n \in manifest : /\ frames[n].tab = t /\ frames[n].picture = latest[t]
                            /\ \A m \in manifest : frames[m].tab = t => m <= n

\* A recording holds what its tabs showed, and goes on while they show it.
RecordingSound ==
  ReplayReadable /\ CompleteHasAll /\ LastPictureKept /\ CastGoesOn /\ CapStopsTabs

\* A session that ends writes its replay or gives it up.
RecordingSettles == recorder = "ending" ~> recorder \in {"over", "failed", "dead"}
=============================================================================
