------------------------------ MODULE MCGateway ------------------------------
(***************************************************************************)
(* Instances of Gateway for TLC: the values a .cfg cannot write, chosen by *)
(* name from the configurations.                                           *)
(***************************************************************************)
EXTENDS Gateway, TLC

CONSTANTS r1, r2, r3, r4, p1, p2, k1, k2

Nobody == [r \in Requests |-> None]
Everywhere == [r \in Requests |-> Providers]

OneSlotEach == [p \in Providers |-> 1]

\* r1 and r2 bring keys of their own; r3 reconnects under the key of r1.
OwnKeys == r1 :> k1 @@ r2 :> k2 @@ Nobody
ResumeFirstKey == r3 :> k1 @@ Nobody

\* r1 is pinned to p1, which an operator manages.
PinFirst == r1 :> p1 @@ Nobody

\* r2 is pinned to p1, r3 to p2.
PinTwo == r2 :> p1 @@ r3 :> p2 @@ Nobody

\* p1 is pinned to a profile only r2 asks for; r3 can use p2 only.
ProfilePins == r3 :> {p2} @@ r4 :> {p2} @@ Everywhere

\* r3 asks for a profile that p2 alone serves.
ProfileOfThird == r3 :> {p2} @@ Everywhere

\* r2 needs a proxy only p2 applies.
ProxyOnP2 == r2 :> {p2} @@ Everywhere
=============================================================================
