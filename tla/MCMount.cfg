SPECIFICATION Spec
CONSTANTS
  Journals = {TRUE, FALSE}
  Copies = {"none", "set", "clear"}
  Flips = TRUE
INVARIANT TornIsNotClean
INVARIANT NothingOverwritten
INVARIANT MarkerHeld
