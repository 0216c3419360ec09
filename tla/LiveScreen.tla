---------------------------- MODULE LiveScreen ----------------------------
(***************************************************************************)
(* What a viewer sees of its tab: the size of the page                     *)
(* (ScreencastBridgePlugin.applyViewport), the frames the bridge passes on *)
(* and the LiveClient that decodes them.  Some browsers replace the size   *)
(* they are asked for with one of their own; then the window is resized.   *)
(* Commands are awaited, and another wish of the viewer may be handled     *)
(* meanwhile.                                                              *)
(***************************************************************************)
EXTENDS Integers, Sequences

CONSTANTS
  Sizes,      \* page sizes a viewer asks for
  OwnSize,    \* the one a stubborn browser puts in their place
  Unsized,    \* no size
  MaxSizes,   \* bound: the size at the start and the viewer's wishes
  MaxFrames,  \* bound: frames
  Backlog     \* frames in the viewer's socket above which the bridge drops

ASSUME LiveScreenAssumption ==
  OwnSize \notin Sizes /\ Unsized \notin Sizes \cup {OwnSize} /\ MaxFrames \in Nat /\ Backlog \in Nat \ {0}

VARIABLES
  stubborn,      \* the browser replaces the sizes it is asked for
  metrics,       \* its metrics override, Unsized if there is none
  windowSize,    \* what the page gets without one
  toPage,        \* commands on their way
  fromPage,      \* answers and frames on their way back
  sizing,        \* each applyViewport: its size, where it is, tries left
  sizeByWindow,
  casting,       \* the screencast runs
  captured,      \* frames captured
  lastMeta,      \* the metadata last sent
  toViewer,      \* what is in the viewer's socket
  currentMeta,   \* of the client
  decoding, pendingFrame,
  onCanvas,      \* the picture and the metadata it is drawn with
  got,           \* the last frame the client got
  overlapped,    \* two sizes were being applied at once
  lastDropped    \* the last frame was dropped

screenVars ==
  <<stubborn, metrics, windowSize, toPage, fromPage, sizing, sizeByWindow, casting, captured, lastMeta,
    toViewer, currentMeta, decoding, pendingFrame, onCanvas, got, overlapped, lastDropped>>

NoFrame == [n |-> 0, size |-> Unsized]
NoWish == [size |-> Unsized, stage |-> "none", tries |-> 0]
Applying == {i \in 1..MaxSizes : sizing[i].stage \notin {"none", "done"}}

LiveScreenInit ==
  /\ stubborn \in BOOLEAN
  /\ metrics = Unsized /\ windowSize = OwnSize
  /\ toPage = <<>> /\ fromPage = <<>>
  /\ sizing = [i \in 1..MaxSizes |-> NoWish] /\ sizeByWindow = FALSE
  /\ casting = FALSE /\ captured = 0 /\ lastMeta = Unsized /\ toViewer = <<>>
  /\ currentMeta = Unsized /\ decoding = NoFrame /\ pendingFrame = NoFrame
  /\ onCanvas = [frame |-> NoFrame, meta |-> Unsized] /\ got = NoFrame
  /\ overlapped = FALSE /\ lastDropped = FALSE

PageSize == IF metrics = Unsized THEN windowSize ELSE IF stubborn THEN OwnSize ELSE metrics

clientKept == UNCHANGED <<currentMeta, decoding, pendingFrame, onCanvas, got>>
pictureKept == clientKept /\ UNCHANGED <<lastMeta, toViewer, lastDropped>>

-----------------------------------------------------------------------------
(* The size.                                                               *)

SizeCommand(i, does) == [by |-> i, does |-> does, size |-> sizing[i].size]

\* applyViewport of one wish: the first when the session starts, then the viewer's.
SizeAsked(i, size) ==
  /\ sizing[i].stage = "none"
  /\ i = 2 => sizing[1].stage = "done"
  /\ i > 2 => sizing[i - 1].stage # "none"
  /\ LET stage == IF sizeByWindow THEN "window" ELSE "override" IN
       /\ sizing' = [sizing EXCEPT ![i] = [size |-> size, stage |-> stage, tries |-> 2]]
       /\ toPage' = Append(toPage, [by |-> i, does |-> stage, size |-> size])
  /\ overlapped' = (overlapped \/ Applying # {})
  /\ UNCHANGED <<stubborn, metrics, windowSize, fromPage, sizeByWindow, casting, captured>> /\ pictureKept

\* What the browser does with a command, and the answer.
PageTakes ==
  /\ toPage # <<>> /\ toPage' = Tail(toPage)
  /\ LET c == Head(toPage) IN
       /\ metrics' = CASE c.does = "override" -> c.size [] c.does = "clear" -> Unsized [] OTHER -> metrics
       /\ windowSize' = IF c.does = "bounds" THEN c.size ELSE windowSize
       /\ casting' = IF c.does = "cast" THEN TRUE ELSE casting
       /\ fromPage' = Append(fromPage, [by |-> c.by, size |-> PageSize, n |-> 0])
  /\ UNCHANGED <<stubborn, sizing, sizeByWindow, captured, overlapped>> /\ pictureKept

Then(i, stage) ==
  /\ sizing' = [sizing EXCEPT ![i].stage = stage]
  /\ toPage' = Append(toPage, SizeCommand(i, stage))

\* sizeMatches
Matches(measured, i) == measured = sizing[i].size

\* An answer to applyViewport, resizeWindow or the new start of the screencast.
Proceeds(i, measured) ==
  LET at == sizing[i].stage IN
    \/ at = "override" /\ Then(i, "measure") /\ UNCHANGED sizeByWindow
    \/ at = "measure" /\ Matches(measured, i) /\ Then(i, "cast") /\ UNCHANGED sizeByWindow
    \/ at = "measure" /\ ~Matches(measured, i) /\ Then(i, "clear") /\ sizeByWindow' = TRUE
    \/ at = "clear" /\ Then(i, "window") /\ UNCHANGED sizeByWindow
    \/ at = "window" /\ Then(i, "bounds") /\ UNCHANGED sizeByWindow
    \/ at = "bounds" /\ Then(i, "check") /\ UNCHANGED sizeByWindow
    \/ at = "check"
       /\ sizing' = [sizing EXCEPT ![i].stage =
                       IF Matches(measured, i) \/ sizing[i].tries = 1 THEN "cast" ELSE "bounds",
                     ![i].tries = @ - 1]
       /\ toPage' = Append(toPage, SizeCommand(i, sizing'[i].stage))
       /\ UNCHANGED sizeByWindow
    \/ at = "cast" /\ sizing' = [sizing EXCEPT ![i].stage = "done"] /\ UNCHANGED <<toPage, sizeByWindow>>

-----------------------------------------------------------------------------
(* The picture.                                                            *)

Captures ==
  /\ casting /\ captured < MaxFrames /\ captured' = captured + 1
  /\ fromPage' = Append(fromPage, [by |-> 0, size |-> PageSize, n |-> captured + 1])
  /\ UNCHANGED <<stubborn, metrics, windowSize, toPage, sizing, sizeByWindow, casting, overlapped>>
  /\ pictureKept

\* maybeSendFrameMeta, then forwardFrame: metadata is sent when it changed, and a
\* frame unless too much is buffered.
Buffered == Len(SelectSeq(toViewer, LAMBDA m : m.n > 0))
MetaFirst(m) == IF m.size = lastMeta THEN <<>> ELSE <<[n |-> 0, size |-> m.size]>>
Forwards(m) ==
  /\ lastMeta' = m.size
  /\ lastDropped' = (Buffered > Backlog)
  /\ toViewer' = toViewer \o MetaFirst(m) \o IF Buffered > Backlog THEN <<>> ELSE <<m>>

BridgeHears ==
  /\ fromPage # <<>> /\ fromPage' = Tail(fromPage)
  /\ LET m == Head(fromPage) IN
       \/ /\ m.by # 0 /\ Proceeds(m.by, m.size)
          /\ UNCHANGED <<lastMeta, toViewer, lastDropped>>
       \/ /\ m.by = 0 /\ Forwards([n |-> m.n, size |-> m.size])
          /\ UNCHANGED <<sizing, toPage, sizeByWindow>>
  /\ UNCHANGED <<stubborn, metrics, windowSize, casting, captured, overlapped>> /\ clientKept

\* handleControlMessage, handleBinaryFrame: while a frame is being decoded the
\* newest one waits and replaces the one that waited.
Queued(m) ==
  IF decoding = NoFrame THEN decoding' = m /\ UNCHANGED pendingFrame
  ELSE pendingFrame' = m /\ UNCHANGED decoding

screenKept ==
  UNCHANGED <<stubborn, metrics, windowSize, toPage, fromPage, sizing, sizeByWindow, casting, captured,
              lastMeta, overlapped, lastDropped>>

ClientReads ==
  /\ toViewer # <<>> /\ toViewer' = Tail(toViewer)
  /\ LET m == Head(toViewer) IN
       IF m.n = 0 THEN currentMeta' = m.size /\ UNCHANGED <<decoding, pendingFrame, got>>
       ELSE got' = m /\ Queued(m) /\ UNCHANGED currentMeta
  /\ UNCHANGED onCanvas /\ screenKept

\* decodeAndDeliver, and the loop of drainFrames.
Delivered ==
  onCanvas' = [frame |-> decoding, meta |-> IF currentMeta = Unsized THEN decoding.size ELSE currentMeta]

Decodes ==
  /\ decoding # NoFrame
  /\ Delivered
  /\ decoding' = pendingFrame /\ pendingFrame' = NoFrame
  /\ UNCHANGED <<currentMeta, toViewer, got>> /\ screenKept

LiveScreenNext ==
  \/ \E i \in 1..MaxSizes, s \in Sizes : SizeAsked(i, s)
  \/ PageTakes \/ Captures \/ BridgeHears \/ ClientReads \/ Decodes

LiveScreenSpec == LiveScreenInit /\ [][LiveScreenNext]_screenVars

-----------------------------------------------------------------------------
(* Properties.                                                             *)

LastAsked == CHOOSE i \in 1..MaxSizes :
  sizing[i].stage # "none" /\ \A j \in i + 1..MaxSizes : sizing[j].stage = "none"

\* Once every wish is applied the page has the size the viewer asked for last, on a
\* browser that does as it is told and on one that has to be resized, if no two
\* wishes were applied at once.
ViewportFollows ==
  (Applying = {} /\ sizing[1].stage = "done" /\ ~overlapped) => PageSize = sizing[LastAsked].size

AtRest == toViewer = <<>> /\ decoding = NoFrame

\* The client ends up drawing the last frame it got, however many came while it
\* was decoding.
LastFrameIsDrawn == AtRest => pendingFrame = NoFrame /\ onCanvas.frame = got

\* At rest the picture has its own metadata, by which the viewer's mouse is scaled,
\* unless the frame that belongs to the metadata was dropped.
PictureFitsMeta ==
  (AtRest /\ fromPage = <<>> /\ ~lastDropped /\ got # NoFrame) => onCanvas.meta = onCanvas.frame.size

\* What a viewer sees.
ScreenIsTrue == ViewportFollows /\ LastFrameIsDrawn /\ PictureFitsMeta
=============================================================================
