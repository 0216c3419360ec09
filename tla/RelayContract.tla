---------------------------- MODULE RelayContract ----------------------------
(***************************************************************************)
(* What core/transport.ts asks of a RelayTransport: attempts are made one  *)
(* after the other, each fails or comes up once, and the one that comes up *)
(* is closed at most once and is the last.                                 *)
(***************************************************************************)
EXTENDS Naturals

CONSTANT Attempts        \* how many providers the caller tries, one by one

VARIABLE phase           \* phase[a]: "idle", "pending", "failed", "up", "closed"

Init == phase = [a \in 1..Attempts |-> "idle"]

Move(a, from, to) == phase[a] = from /\ phase' = [phase EXCEPT ![a] = to]

Begin(a) == (\A b \in 1..(a - 1) : phase[b] = "failed") /\ Move(a, "idle", "pending")

Next == \E a \in 1..Attempts :
  Begin(a) \/ Move(a, "pending", "failed") \/ Move(a, "pending", "up") \/ Move(a, "up", "closed")

Spec == Init /\ [][Next]_phase
=============================================================================
