SPECIFICATION Spec
CONSTANTS
  Horizon = 2
  MinNew = 2
  WindowCount = 2
  FirstLabeled = 12
  MaxVersions = 4
  MaxLabeled = 17
INVARIANT PointerIsChampion
INVARIANT RecordsAgree
INVARIANT NewPointsBetweenRuns
INVARIANT TestedOnUnseen
