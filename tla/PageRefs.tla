------------------------------- MODULE PageRefs -------------------------------
(***************************************************************************)
(* The element references an agent acts by (agent-tools/refs, world,       *)
(* page-script, snapshot, actions): minted in an isolated world of the     *)
(* document, listed by the session, used by a later call.  The document    *)
(* may change under any of it, and calls on one tab run side by side.      *)
(***************************************************************************)
EXTENDS Naturals, Sequences, FiniteSets, SequencesExt

CONSTANTS Elements,   \* elements of the document that is shown
          Callers,    \* calls under way on the tab
          MaxRef,     \* bound on the refs of one document
          Nothing

ASSUME RefsAssumption == IsFiniteSet(Elements) /\ Nothing \notin Elements /\ MaxRef \in Nat

VARIABLES
  dom,           \* elements connected to the document that is shown
  mark,          \* el.__bgRef.id, 0 if it has none
  valid,         \* elements whose role and name are those of the mark
  seq, byRef,    \* S of the document's isolated world
  refEntries,    \* RefTable.entries
  world,         \* PageWorld.contextId: none, one of the document, or one lost with an earlier document
  job,           \* each call: what it does, how far, the refs of its reply
  given,         \* history: the elements reads of this document listed a ref for
  moved          \* history: the fields fills of this document gave a ref to

refVars == <<dom, mark, valid, seq, byRef, refEntries, world, job, given, moved>>

Refs == 1 .. MaxRef
Resting == [does |-> "nothing", ref |-> 0, runs |-> 0, reply |-> {}]

RefsInit ==
  /\ dom = {} /\ valid = {}
  /\ mark = [e \in Elements |-> 0]
  /\ seq = 0 /\ byRef = [r \in Refs |-> Nothing]
  /\ refEntries = {} /\ world = "none"
  /\ job = [c \in Callers |-> Resting]
  /\ given = [r \in Refs |-> {}] /\ moved = [r \in Refs |-> {}]

----------------------------------------------------------------------------
(* The page *)

\* An element is inserted, for the first time or again.
Appears(e) ==
  /\ e \notin dom /\ dom' = dom \cup {e}
  /\ UNCHANGED <<mark, valid, seq, byRef, refEntries, world, job, given, moved>>

Disconnects(e) ==
  /\ e \in dom /\ dom' = dom \ {e}
  /\ UNCHANGED <<mark, valid, seq, byRef, refEntries, world, job, given, moved>>

\* The role or the name of an element changes, away from what a read noted of it
\* or back.  The mark and the entry of the world stay.
Renamed(e) ==
  /\ e \in dom /\ \E r \in Refs : e \in given[r]
  /\ valid' = IF e \in valid THEN valid \ {e} ELSE valid \cup {e}
  /\ UNCHANGED <<dom, mark, seq, byRef, refEntries, world, job, given, moved>>

\* A new document: a world of its own, where nothing is marked.
NewDocument ==
  /\ dom' = {} /\ valid' = {} /\ seq' = 0
  /\ mark' = [e \in Elements |-> 0]
  /\ byRef' = [r \in Refs |-> Nothing]
  /\ given' = [r \in Refs |-> {}] /\ moved' = [r \in Refs |-> {}]

PageNavigates ==
  /\ NewDocument
  /\ world' = IF world = "live" THEN "lost" ELSE world
  /\ UNCHANGED <<refEntries, job>>

----------------------------------------------------------------------------
(* What the page scripts do *)

\* Mutant: a read numbers its elements from one again.
MintAnew(order) ==
  /\ seq' = Len(order)
  /\ mark' = [e \in Elements |-> IF e \in Range(order) THEN CHOOSE i \in DOMAIN order : order[i] = e ELSE mark[e]]
  /\ byRef' = [r \in Refs |-> IF r \in DOMAIN order THEN order[r] ELSE byRef[r]]
\* refFor of the elements whose mark is not valid, in the order of the document.
Mint(order) ==
  /\ seq + Len(order) <= MaxRef
  /\ seq' = seq + Len(order)
  /\ mark' = [e \in Elements |-> IF e \in Range(order)
                                  THEN seq + (CHOOSE i \in DOMAIN order : order[i] = e) ELSE mark[e]]
  /\ byRef' = [r \in Refs |-> IF r - seq \in DOMAIN order THEN order[r - seq] ELSE byRef[r]]

Matches(shown) ==
  /\ \E order \in SetToSeqs(shown \ valid) : Mint(order)
  /\ valid' = valid \cup shown
  /\ given' = [r \in Refs |-> given[r] \cup {e \in shown : mark'[e] = r}]

\* findByRef: the world's own map first, then a walk over the document.
FindByRef(r) ==
  IF byRef[r] \in dom THEN byRef[r]
  ELSE IF \E e \in dom : mark[e] = r THEN CHOOSE e \in dom : mark[e] = r ELSE Nothing

----------------------------------------------------------------------------
(* Calls *)

Begin(c, does, r) == job' = [job EXCEPT ![c] = [does |-> does, ref |-> r, runs |-> 1, reply |-> {}]]
Answered(c, reply) == job' = [job EXCEPT ![c] = [does |-> job[c].does, ref |-> 0, runs |-> 3, reply |-> reply]]
End(c) == job' = [job EXCEPT ![c] = Resting]

\* snapshot, readPage (find reads all of the page), and the steps of act: a ref
\* the table does not hold is refused without asking the page.
ToolBegins(c, does, r) ==
  /\ job[c] = Resting
  /\ does \in {"snapshot", "read"} => r = 0
  /\ does \in {"act", "fill"} => r \in refEntries
  /\ Begin(c, does, r)
  /\ UNCHANGED <<dom, mark, valid, seq, byRef, refEntries, world, given, moved>>

\* The script of a call has not run yet: its first, or the second of a fill; each
\* is sent once more when its context was lost.
Asks(c) == job[c].runs \in {1, 2}
AsksAgain(c) == job[c].does = "fill" /\ job[c].runs \in {3, 4}

\* PageWorld.call when the context it holds died with its document: invalidate,
\* and run once more.
ContextLost(c) ==
  /\ Asks(c) \/ AsksAgain(c)
  /\ world = "lost" /\ world' = "none"
  /\ IF job[c].runs \in {1, 3} THEN job' = [job EXCEPT ![c].runs = @ + 1] ELSE End(c)
  /\ UNCHANGED <<dom, mark, valid, seq, byRef, refEntries, given, moved>>

\* A script runs in the world of the document, made if there is none.
RunsInWorld == world # "lost" /\ world' = "live"

\* A page script that reads: a viewport, a filter or a cap hide any part of the
\* page from it.
ReadsPage(c) ==
  /\ Asks(c) /\ RunsInWorld
  /\ \E shown \in SUBSET dom :
       /\ Matches(shown)
       /\ Answered(c, {mark'[e] : e \in shown})
  /\ UNCHANGED <<dom, refEntries, moved>>

\* SNAPSHOT_FN and READ_TREE_FN.
Snapshots(c) == job[c].does = "snapshot" /\ ReadsPage(c)
ReadsTree(c) == job[c].does = "read" /\ ReadsPage(c)

\* The reply arrives: a snapshot replaces the table, a read adds to it.
ReadReplied(c) ==
  /\ job[c].does \in {"snapshot", "read"} /\ job[c].runs = 3
  /\ refEntries' = IF job[c].does = "snapshot" THEN job[c].reply ELSE refEntries \cup job[c].reply
  /\ End(c)
  /\ UNCHANGED <<dom, mark, valid, seq, byRef, world, given, moved>>

\* RESOLVE_FN: stale, or the element of the ref; but for a fill, its input is
\* all that is left of the call.
Resolves(c) ==
  /\ job[c].does \in {"act", "fill"} /\ Asks(c) /\ RunsInWorld
  /\ IF FindByRef(job[c].ref) = Nothing \/ job[c].does = "act" THEN End(c) ELSE job' = [job EXCEPT ![c].runs = 3]
  /\ UNCHANGED <<dom, mark, valid, seq, byRef, refEntries, given, moved>>

\* acceptFocused: the ref goes to the field that has focus, which keeps the role
\* and the name it is noted with.
Rebind(r, focused) ==
  /\ mark' = [mark EXCEPT ![focused] = r]
  /\ byRef' = [byRef EXCEPT ![r] = focused]
  /\ moved' = [moved EXCEPT ![r] = @ \cup {focused}]

\* fill resolves again after its click: a field the page swapped out is taken to
\* be the one that has focus now, if one has.
FillTypes(c) ==
  /\ AsksAgain(c) /\ RunsInWorld
  /\ \/ UNCHANGED <<mark, byRef, moved>>
     \/ FindByRef(job[c].ref) = Nothing /\ \E focused \in dom : Rebind(job[c].ref, focused)
  /\ End(c)
  /\ UNCHANGED <<dom, valid, seq, refEntries, given>>

\* goto clears the table before its load and warms the new world after it; so
\* does settle when it saw a load.
TableCleared ==
  /\ refEntries # {} /\ refEntries' = {} /\ world' = "none"
  /\ UNCHANGED <<dom, mark, valid, seq, byRef, job, given, moved>>

GotoLoads ==
  /\ NewDocument /\ refEntries' = {} /\ world' = "live"
  /\ UNCHANGED job

RefsNext ==
  \/ \E e \in Elements : Appears(e) \/ Disconnects(e) \/ Renamed(e)
  \/ PageNavigates \/ TableCleared \/ GotoLoads
  \/ \E c \in Callers :
       \/ \E does \in {"snapshot", "read", "act", "fill"} : \E r \in Refs \cup {0} : ToolBegins(c, does, r)
       \/ ContextLost(c) \/ Snapshots(c) \/ ReadsTree(c) \/ ReadReplied(c) \/ Resolves(c) \/ FillTypes(c)

RefsSpec == RefsInit /\ [][RefsNext]_refVars

----------------------------------------------------------------------------
(* Properties *)

\* A ref finds nothing, or an element that reads of this document listed it for or
\* a fill gave it to, and reads list no second element for a ref that no fill has
\* moved: however the page takes elements out, renames and puts them back, nothing
\* else ever answers to it (refFor and findByRef, page-script.ts 162-190).
RefMeansItsElement ==
  \A r \in Refs :
    /\ FindByRef(r) # Nothing => FindByRef(r) \in given[r] \cup moved[r]
    /\ moved[r] = {} => \A e, f \in given[r] : e = f

\* "Every ref minted before it is void" (world.ts 22): a world knows no ref that it
\* has not minted.
EarlierRefsAreVoid == \A r \in Refs : byRef[r] # Nothing => r <= seq
=============================================================================
