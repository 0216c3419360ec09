\* A profile of two origins of which the most recent is injected, two tabs, one
\* write, one way to leave a page and one fault, and a cap that evicts.  Two
\* clients of a stored profile.  Two elements of a page that changes under a call.
\* Two calls that share the input of a tab.
\* Two helper pages for three origins.  Three sessions of two profiles on one browser.
\* Every cookie of a payload and of a browser, and lists of two origins.
\* Clients, elements and sessions have the tabs for members, so that the one
\* permutation of the tabs exchanges them too.
SPECIFICATION PagesSpec
CONSTANTS
  Tabs = {t1, t2}
  Sites = {a, b}
  Blank = Blank
  StoredSites = {a, b}
  EagerLimit = 1
  MaxOrigins = 2
  HardCap = 4
  MaxWrites = 1
  MaxMoves = 1
  MaxFaults = 1
  Clients = {t1, t2}
  MaxKeys = 4
  MaxContents = 2
  Elements = {t1, t2}
  Callers = {k1}
  MaxRef = 2
  Nothing = Nothing
  Buttons = {left, right}
  Modifiers = {shift, ctrl}
  Hands = {c1, c2}
  MaxGestures = 3
  OriginCount = 3
  HelperCount = 2
  MaxTimeouts = 1
  MaxRefusals = 1
  Owners = {p1, p2}
  Users = {t1, t2, s3}
  Unmarked = Unmarked
  Mark = Mark
  MaxFlaws = 1
  SheetOrigins = {o1, o2}
  SheetValues = {v1, v2}
INVARIANTS
  ProfileIsTrue
  StoreKeeps
  RefMeansItsElement
  HeldIsKnown
PROPERTY
  ReleaseEmpties
SYMMETRY TabsAlike
CHECK_DEADLOCK FALSE
