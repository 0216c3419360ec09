---------------------------- MODULE SlotAllocation ----------------------------
(***************************************************************************)
(* What the gateway promises about maxConcurrent: every provider is a pool *)
(* of slots, a connection holds at most one slot of one provider, and a    *)
(* slot is granted only while the provider has one left.                   *)
(***************************************************************************)
EXTENDS Naturals, FiniteSets

CONSTANTS Providers, Requests,
          Limit      \* Limit[p]: slots of p, 0 when unlimited

VARIABLE held        \* held[p]: the requests that hold a slot of p

Init == held = [p \in Providers |-> {}]

Grant(r, p) ==
  /\ \A q \in Providers : r \notin held[q]
  /\ Limit[p] = 0 \/ Cardinality(held[p]) < Limit[p]
  /\ held' = [held EXCEPT ![p] = @ \cup {r}]

Return(r, p) ==
  /\ r \in held[p]
  /\ held' = [held EXCEPT ![p] = @ \ {r}]

Next == \E r \in Requests, p \in Providers : Grant(r, p) \/ Return(r, p)

Spec == Init /\ [][Next]_held
=============================================================================
