------------------------------- MODULE MCPages -------------------------------
(***************************************************************************)
(* What sessions keep of pages, for TLC: the profile a session captures    *)
(* and the directory it is stored in, the refs and the held input of an    *)
(* agent's tab, the helper pages that write and read a profile, what a     *)
(* profile leaves behind in a browser, and its way over the format of      *)
(* Playwright.  They share no state, so one run takes them side by side:   *)
(* `part` says which of them is explored.                                  *)
(***************************************************************************)
EXTENDS ProfileCapture, ProfileStore, PageRefs, HeldInput, HelperPages, Residue, PlaywrightFormat

VARIABLE part

pagesVars == <<part, captureVars, profileStoreVars, refVars, inputVars, helperVars, residueVars,
               formatVars>>

\* Which of the origins of a profile was visited last does not matter.
PagesInit ==
  /\ part \in {"capture", "store", "refs", "input", "helpers", "residue", "format"}
  /\ CaptureInit /\ StoreInit /\ RefsInit /\ HeldInit /\ HelpersInit /\ ResidueInit
  /\ stored = SetToSeq(StoredSites)
  /\ part # "capture" => route = "rest" /\ injected = {}
  /\ part # "helpers" => task = "inject" /\ transient
  /\ part # "residue" => keeps = "reused"
  /\ IF part = "format" THEN FormatInit
     ELSE format = "captured" /\ payload = OfOrigins(<< >>) /\ asProfile = NoProfile /\ before = NoProfile

\* Every part but one stays as it is.
Only(what) ==
  /\ part = what /\ UNCHANGED part
  /\ what # "capture" => UNCHANGED captureVars
  /\ what # "store" => UNCHANGED profileStoreVars
  /\ what # "refs" => UNCHANGED refVars
  /\ what # "input" => UNCHANGED inputVars
  /\ what # "helpers" => UNCHANGED helperVars
  /\ what # "residue" => UNCHANGED residueVars
  /\ what # "format" => UNCHANGED formatVars

PagesNext ==
  \/ Only("capture") /\ CaptureNext
  \/ Only("store") /\ StoreNext
  \/ Only("refs") /\ RefsNext
  \/ Only("input") /\ HeldNext
  \/ Only("helpers") /\ HelpersNext
  \/ Only("residue") /\ ResidueNext
  \/ Only("format") /\ FormatNext

PagesSpec == PagesInit /\ [][PagesNext]_pagesVars

\* A profile is what its own sessions made it: what a page held is what is captured
\* and nothing owed to the profile is lost, the helper pages write and read each origin
\* for itself, nothing that another profile left in the browser is taken for its own,
\* and another tool's format keeps it.
ProfileIsTrue == NothingOwedIsLost /\ CaptureIsTrue /\ HelpersSound /\ ResidueSound /\ FormatSound

\* Tabs are interchangeable, and so are clients, elements and sessions.
TabsAlike == Permutations(Tabs)
=============================================================================
