------------------------------ MODULE Selector ------------------------------
(***************************************************************************)
(* The order in which ProviderSelector offers the providers that are       *)
(* available, by each of its strategies, over a run of selections in which *)
(* providers come and go, take connections and change their latency.       *)
(***************************************************************************)
EXTENDS Integers, Sequences, FiniteSets, FiniteSetsExt, SequencesExt

CONSTANTS
  ByPriority,      \* the providers, in the order of their priority: a sequence
  Weight,       \* config.weight
  MaxLoad,      \* bound: connections of a provider
  Strategies    \* those the run takes up

ASSUME SelectorAssumption ==
  /\ ByPriority \in Seq(ToSet(ByPriority)) /\ Len(ByPriority) = Cardinality(ToSet(ByPriority))
  /\ Weight \in [ToSet(ByPriority) -> Nat \ {0}]

VARIABLES
  strategy,   \* defaultStrategy
  turn,       \* roundRobinIndex
  weights,    \* weightedState
  load,       \* active
  latency,    \* avgLatencyMs, as far as its order matters; 0: not known
  offered,    \* the order of the last selection
  available,  \* the providers it was made from
  leading,    \* selections in a row from the same providers
  picks       \* how often each of them came first meanwhile

selectorVars == <<strategy, turn, weights, load, latency, offered, available, leading, picks>>

Ids == ToSet(ByPriority)
Total(set) == MapThenSumSet(LAMBDA p : Weight[p], set)

SelectorInit ==
  /\ strategy \in Strategies
  /\ turn = 0 /\ weights = [p \in Ids |-> 0]
  /\ load = [p \in Ids |-> 0] /\ latency = [p \in Ids |-> 0]
  /\ offered = << >> /\ available = {}
  /\ leading = 0 /\ picks = [p \in Ids |-> 0]

\* Candidates in the order of priority.
InOrder(set) == SelectSeq(ByPriority, LAMBDA p : p \in set)

\* The first, then the others as fallbacks.
Before(p, order) == <<p>> \o SelectSeq(order, LAMBDA q : q # p)

\* A stable sort.
Sorted(order, Less(_, _)) ==
  FoldLeft(LAMBDA done, p :
             LET later == {i \in 1..Len(done) : Less(p, done[i])}
                 at == IF later = {} THEN Len(done) + 1 ELSE Min(later)
             IN InsertAt(done, at, p), << >>, order)

\* Least connections, and the least latency with unknown ones last.
LessLoaded(p, q) == load[p] < load[q]
Faster(p, q) == latency[p] # 0 /\ (latency[q] = 0 \/ latency[p] < latency[q])

\* Smooth weighted round robin: everybody gains its weight, the heaviest is
\* taken, the first of several, and pays for all.
Gained(set) == [p \in Ids |-> weights[p] + (IF p \in set THEN Weight[p] ELSE 0)]
Heaviest(order, w) ==
  FoldLeft(LAMBDA best, p : IF w[p] > w[best] THEN p ELSE best, Head(order), order)

\* Mutant: the provider taken pays its own weight only.
PaidOwn(w, best, set) == [w EXCEPT ![best] = @ - Weight[best]]

Paid(w, best, set) == [w EXCEPT ![best] = @ - Total(set)]

ApplyStrategy(set) ==
  LET order == InOrder(set)
  IN CASE strategy = "priority-chain" -> order
       [] strategy = "round-robin" -> Before(order[(turn % Len(order)) + 1], order)
       [] strategy = "least-connections" -> Sorted(order, LessLoaded)
       [] strategy = "latency-optimized" -> Sorted(order, Faster)
       [] strategy = "weighted" -> Before(Heaviest(order, Gained(set)), order)

\* The index of the round robin counts on; a multiple of every number of
\* candidates makes no difference to it.
AnyMultiple == 60

\* A selection; no candidates, no change.
Select(set) ==
  LET cycle == Total(set)
      round == IF set = available /\ leading < cycle THEN leading ELSE 0
      counted == IF round = 0 THEN [p \in Ids |-> 0] ELSE picks
  IN /\ set # {}
     /\ offered' = ApplyStrategy(set) /\ available' = set
     /\ turn' = IF strategy = "round-robin" THEN (turn + 1) % AnyMultiple ELSE turn
     /\ weights' = IF strategy = "weighted"
                   THEN Paid(Gained(set), Heaviest(InOrder(set), Gained(set)), set)
                   ELSE weights
     /\ leading' = round + 1
     /\ picks' = [counted EXCEPT ![offered'[1]] = @ + 1]
     /\ UNCHANGED <<strategy, load, latency>>

Connects(p) ==
  /\ strategy = "least-connections"
  /\ load[p] < MaxLoad
  /\ load' = [load EXCEPT ![p] = @ + 1]
  /\ UNCHANGED <<strategy, turn, weights, latency, offered, available, leading, picks>>

Leaves(p) ==
  /\ load[p] > 0
  /\ load' = [load EXCEPT ![p] = @ - 1]
  /\ UNCHANGED <<strategy, turn, weights, latency, offered, available, leading, picks>>

Measured(p, ms) ==
  /\ strategy = "latency-optimized"
  /\ latency' = [latency EXCEPT ![p] = ms]
  /\ UNCHANGED <<strategy, turn, weights, load, offered, available, leading, picks>>

SelectorNext ==
  \/ \E set \in SUBSET Ids : Select(set)
  \/ \E p \in Ids : Connects(p) \/ Leaves(p) \/ \E ms \in 1..2 : Measured(p, ms)

SelectorSpec == SelectorInit /\ [][SelectorNext]_selectorVars

(***************************************************************************)
(* Properties                                                              *)
(***************************************************************************)

\* Every provider that is available is offered, once.
EveryoneOffered == ToSet(offered) = available /\ Len(offered) = Cardinality(available)

\* Weights are honoured: in a cycle of selections from the same providers each
\* comes first as often as it weighs, give or take one for what earlier
\* selections from other providers have left it with (selector.ts:112).
WeightsHonoured ==
  strategy = "weighted" /\ leading = Total(available) =>
    \A p \in available : picks[p] \in (Weight[p] - 1)..(Weight[p] + 1)

\* A selection leaves nobody out and favours nobody.
SelectionFair == EveryoneOffered /\ WeightsHonoured
=============================================================================
