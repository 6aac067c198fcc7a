\* One request, two bidders, two calls at once, any of which may die. No
\* symmetry: liveness is checked.
SPECIFICATION LiveSpec
CONSTANTS
  q1 = q1 s1 = s1 s2 = s2 c1 = c1 c2 = c2
  NoPrice = NoPrice
  Requests = {q1}
  Suppliers = {s1, s2}
  Prices = {1, 2}
  Calls = {c1, c2}
  MayCrash = TRUE
INVARIANTS AwardedOnce AcceptedIsTheOrder WinnerIsReal
PROPERTIES RevisionUndoesNoAward DecisionsStand KeepsTender EveryCallEnds
\* A closed request stays closed: with nothing left to do, the instance stops.
CHECK_DEADLOCK FALSE
