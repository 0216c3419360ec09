--------------------------- MODULE ProfileRegister ---------------------------
(***************************************************************************)
(* What a profile store promises: a profile has one writer at a time, only *)
(* that writer saves it, and a writer that is gone may be replaced.        *)
(***************************************************************************)
EXTENDS Naturals

CONSTANTS Sessions, Profiles, None

VARIABLES
  writer,      \* writer[p]: the session that has the profile open to save it
  state,       \* state[p]: which save it is, and whose
  gone         \* sessions whose process ended

Init ==
  /\ writer = [p \in Profiles |-> None]
  /\ state = [p \in Profiles |-> [version |-> 0, by |-> None]]
  /\ gone = {}

Open(p, s) ==
  /\ writer[p] \in {None} \cup gone
  /\ writer' = [writer EXCEPT ![p] = s]
  /\ UNCHANGED <<state, gone>>

Save(p) ==
  /\ writer[p] \in Sessions \ gone
  /\ state' = [state EXCEPT ![p] = [version |-> @.version + 1, by |-> writer[p]]]
  /\ UNCHANGED <<writer, gone>>

Close(p) ==
  /\ writer' = [writer EXCEPT ![p] = None]
  /\ UNCHANGED <<state, gone>>

Perish ==
  /\ gone' \in SUBSET Sessions /\ gone \subseteq gone'
  /\ UNCHANGED <<writer, state>>

Next ==
  \/ Perish
  \/ \E p \in Profiles : Save(p) \/ Close(p) \/ \E s \in Sessions \ gone : Open(p, s)

Spec == Init /\ [][Next]_<<writer, state, gone>>
=============================================================================
