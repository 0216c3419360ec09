------------------------------- MODULE HeldInput -------------------------------
(***************************************************************************)
(* The buttons and keys an agent holds down in a tab (agent-tools/input,   *)
(* keys): InputState is read when a gesture is composed, its events are    *)
(* written back to back, and some of it is written when they are answered. *)
(* Calls on one tab run side by side; a command may be refused.            *)
(***************************************************************************)
EXTENDS Naturals, Sequences, FiniteSets, SequencesExt

CONSTANTS Buttons, Modifiers,  \* the mouse buttons, the keys
          Hands,               \* calls under way on the tab
          MaxGestures

ASSUME HeldInputAssumption ==
  Buttons \cap Modifiers = {} /\ IsFiniteSet(Buttons) /\ IsFiniteSet(Modifiers) /\ MaxGestures \in Nat

VARIABLES
  buttons,            \* InputState.buttons
  heldKeys,           \* InputState.heldKeys
  pressed,            \* what the browser takes to be down
  wire,               \* events on their way to it
  hand,               \* each call: what it does and how far
  gestures,           \* bound on the calls
  overlapped,         \* two calls were under way at once
  refused             \* a command was refused

inputVars == <<buttons, heldKeys, pressed, wire, hand, gestures, overlapped, refused>>

Free == [does |-> "nothing", what |-> {}, left |-> 0, later |-> {}]

InputEvent(c, type, what) == [of |-> c, type |-> type, what |-> what]
Each(c, type, set) == LET order == SetToSeq(set) IN [i \in DOMAIN order |-> InputEvent(c, type, order[i])]

HeldInit ==
  /\ buttons = {} /\ heldKeys = {} /\ pressed = {} /\ wire = <<>>
  /\ hand = [c \in Hands |-> Free]
  /\ gestures = 0 /\ overlapped = FALSE /\ refused = FALSE

----------------------------------------------------------------------------
(* Gestures *)

\* dispatchAll: the events are written now, and the call waits for all answers;
\* `later` is what a mouse gesture assigns to state.buttons when it has them.
Dispatch(c, does, what, events, later) ==
  /\ wire' = wire \o events
  /\ hand' = [hand EXCEPT ![c] = [does |-> does, what |-> what, left |-> Len(events), later |-> later]]

\* A press and a release that leave InputState alone.  (Of a button that is not
\* held: what a page makes of a click of a held one is not modelled.)
Click(c, b) ==
  /\ b \notin buttons
  /\ Dispatch(c, "click", {b}, <<InputEvent(c, "press", b), InputEvent(c, "release", b)>>, {})
  /\ UNCHANGED heldKeys

MouseDown(c, does, b) ==
  /\ Dispatch(c, does, {b}, <<InputEvent(c, "press", b)>>, buttons \cup {b})
  /\ UNCHANGED heldKeys

MouseUp(c, does, b) ==
  /\ Dispatch(c, does, {b}, <<InputEvent(c, "release", b)>>, buttons \ {b})
  /\ UNCHANGED heldKeys

\* Mutant: a modifier that is held is pressed and let go with the chord.
NotYetHeldAll(mods) == mods
NotYetHeld(mods) == mods \ heldKeys

\* pressChord: the modifiers that are not held, the key, and back.
PressChord(c, mods) ==
  /\ Dispatch(c, "chord", mods, Each(c, "press", NotYetHeld(mods)) \o Each(c, "release", NotYetHeld(mods)), {})
  /\ UNCHANGED heldKeys

\* keyDown and keyUp write InputState before they send.
KeyDown(c, k) ==
  /\ k \notin heldKeys /\ heldKeys' = heldKeys \cup {k}
  /\ Dispatch(c, "keyDown", {k}, <<InputEvent(c, "press", k)>>, {})

KeyUp(c, k) ==
  /\ k \in heldKeys /\ heldKeys' = heldKeys \ {k}
  /\ Dispatch(c, "keyUp", {k}, <<InputEvent(c, "release", k)>>, {})

\* releaseAll: the buttons in their order, each if it is held when its turn
\* comes, then the keys that are held when the buttons are done.
ButtonOrder == SetToSeq(Buttons)
TurnOf(c) == CHOOSE i \in 1..Len(ButtonOrder) : ButtonOrder[i] \in hand[c].what
HeldAfter(i) == {j \in i + 1 .. Len(ButtonOrder) : ButtonOrder[j] \in buttons}

ReleasesButton(c, i) ==
  /\ HeldAfter(i) # {}
  /\ LET j == Min(HeldAfter(i)) IN
       /\ wire' = Append(wire, InputEvent(c, "release", ButtonOrder[j]))
       /\ hand' = [hand EXCEPT ![c] = [does |-> "releaseAll", what |-> {ButtonOrder[j]}, left |-> 1,
                                     later |-> buttons \ {ButtonOrder[j]}]]
  /\ UNCHANGED heldKeys

\* Mutant: the keys are let go only if no button was held.
ReleasesKeyAlone(c, keys) ==
  hand' = [hand EXCEPT ![c] = Free] /\ UNCHANGED <<wire, heldKeys>>
\* keyUp of the next of `keys` that is held still; with none the call is over.
ReleasesKey(c, keys) ==
  IF keys \cap heldKeys = {} THEN hand' = [hand EXCEPT ![c] = Free] /\ UNCHANGED <<wire, heldKeys>>
  ELSE LET k == CHOOSE k \in Modifiers : k \in keys \cap heldKeys IN
       /\ heldKeys' = heldKeys \ {k}
       /\ Dispatch(c, "releaseKeys", keys \ {k}, <<InputEvent(c, "release", k)>>, {})

ReleaseAll(c) == ReleasesButton(c, 0) \/ (buttons = {} /\ ReleasesKey(c, heldKeys))

\* withInput: a call begins with the events of its gesture.
GestureBegins(c, gesture) ==
  /\ hand[c] = Free /\ gestures < MaxGestures
  /\ gesture
  /\ gestures' = gestures + 1
  /\ overlapped' = (overlapped \/ \E d \in Hands \ {c} : hand[d] # Free)
  /\ UNCHANGED <<buttons, pressed, refused>>

\* The call has its answers.
Over(c) == hand[c] # Free /\ hand[c].left = 0

GestureEnds(c) ==
  /\ Over(c) /\ hand[c].does \in {"click", "chord", "keyDown", "keyUp"}
  /\ hand' = [hand EXCEPT ![c] = Free]
  /\ UNCHANGED <<buttons, heldKeys, pressed, wire, gestures, overlapped, refused>>

MouseEnds(c) ==
  /\ Over(c) /\ hand[c].does \in {"down", "up"}
  /\ buttons' = hand[c].later
  /\ hand' = [hand EXCEPT ![c] = Free]
  /\ UNCHANGED <<heldKeys, pressed, wire, gestures, overlapped, refused>>

\* drag: the press is answered, the moves follow, then the release, which is
\* composed from the state of that moment.
DragMoves(c) ==
  /\ Over(c) /\ hand[c].does = "drag"
  /\ buttons' = hand[c].later
  /\ Dispatch(c, "moves", hand[c].what, <<InputEvent(c, "move", CHOOSE b \in Buttons : b \in hand[c].what)>>, {})
  /\ UNCHANGED <<heldKeys, pressed, gestures, overlapped, refused>>

DragDrops(c) ==
  /\ Over(c) /\ hand[c].does = "moves"
  /\ MouseUp(c, "up", CHOOSE b \in Buttons : b \in hand[c].what)
  /\ UNCHANGED <<buttons, pressed, gestures, overlapped, refused>>

\* The button is up, and the next one's turn has come.
ReleaseGoesOn(c) ==
  /\ Over(c) /\ hand[c].does = "releaseAll"
  /\ buttons' = hand[c].later
  /\ hand' = [hand EXCEPT ![c].does = "released"]
  /\ UNCHANGED <<heldKeys, pressed, wire, gestures, overlapped, refused>>

ReleasesNext(c) ==
  /\ Over(c)
  /\ \/ /\ hand[c].does = "released"
        /\ \/ ReleasesButton(c, TurnOf(c))
           \/ HeldAfter(TurnOf(c)) = {} /\ ReleasesKey(c, heldKeys)
     \/ hand[c].does = "releaseKeys" /\ ReleasesKey(c, hand[c].what)
  /\ UNCHANGED <<buttons, pressed, gestures, overlapped, refused>>

----------------------------------------------------------------------------
(* The browser *)

Applied(down, e) ==
  CASE e.type = "press" -> down \cup {e.what} [] e.type = "release" -> down \ {e.what} [] OTHER -> down

InputTakes ==
  /\ wire # <<>> /\ wire' = Tail(wire)
  /\ pressed' = Applied(pressed, Head(wire))
  /\ hand' = [c \in Hands |-> IF c = Head(wire).of THEN [hand[c] EXCEPT !.left = @ - 1] ELSE hand[c]]
  /\ UNCHANGED <<buttons, heldKeys, gestures, overlapped, refused>>

\* A command is refused: the call fails, its other events are on their way.
BrowserRefuses ==
  /\ wire # <<>> /\ ~refused /\ refused' = TRUE
  /\ wire' = [i \in 1 .. Len(wire) - 1 |->
                IF wire[i + 1].of = Head(wire).of THEN [wire[i + 1] EXCEPT !.of = "nobody"] ELSE wire[i + 1]]
  /\ hand' = [c \in Hands |-> IF c = Head(wire).of THEN Free ELSE hand[c]]
  /\ UNCHANGED <<buttons, heldKeys, pressed, gestures, overlapped>>

HeldNext ==
  \/ \E c \in Hands :
       \/ \E b \in Buttons : \/ GestureBegins(c, Click(c, b)) \/ GestureBegins(c, MouseDown(c, "down", b))
                             \/ GestureBegins(c, MouseUp(c, "up", b)) \/ GestureBegins(c, MouseDown(c, "drag", b))
       \/ \E k \in Modifiers : GestureBegins(c, KeyDown(c, k)) \/ GestureBegins(c, KeyUp(c, k))
       \/ \E mods \in SUBSET Modifiers \ {{}} : GestureBegins(c, PressChord(c, mods))
       \/ GestureBegins(c, ReleaseAll(c))
       \/ GestureEnds(c) \/ MouseEnds(c) \/ DragMoves(c) \/ DragDrops(c) \/ ReleaseGoesOn(c) \/ ReleasesNext(c)
  \/ InputTakes \/ BrowserRefuses

HeldSpec == HeldInit /\ [][HeldNext]_inputVars

----------------------------------------------------------------------------
(* Properties *)

Turns(e, x) == e.what = x /\ e.type \in {"press", "release"}

\* What is down when a browser where `down` is has taken the events of w: what the
\* last event that turns it presses, or what is down and stays so.
DownAfter(w, down) ==
  {x \in Buttons \cup Modifiers :
     \/ x \in down /\ \A i \in DOMAIN w : ~Turns(w[i], x)
     \/ \E i \in DOMAIN w : /\ w[i].what = x /\ w[i].type = "press"
                          /\ \A j \in DOMAIN w : j > i => ~Turns(w[j], x)}

\* While no command was refused, the keys the page will have when it has taken
\* all that was sent are the held ones and no other, whichever calls run side by
\* side (input.ts 191, 233-244).
KeysFollow == ~refused => DownAfter(wire, pressed) \cap Modifiers = heldKeys

\* The same of the buttons between two calls, if none ran beside another
\* (input.ts 79-131: state.buttons is read before the await and written after it).
ButtonsFollow ==
  (~refused /\ ~overlapped /\ \A c \in Hands : hand[c] = Free) => pressed \cap Buttons = buttons

\* What is down in the page is what InputState says, so a later call can release it
\* (input.ts 9-11).
HeldIsKnown == KeysFollow /\ ButtonsFollow

\* A releaseAll that ends, by itself and without a refusal, leaves nothing pressed
\* in the page: no stuck modifier, no drag in progress (input.ts 246-253).
ReleaseEmpties ==
  [][\A c \in Hands : (/\ hand[c].does \in {"released", "releaseKeys"} /\ hand'[c] = Free
                       /\ ~refused' /\ ~overlapped') => pressed' = {}]_inputVars
=============================================================================
