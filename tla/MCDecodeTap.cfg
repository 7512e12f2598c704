SPECIFICATION MCSpec
CONSTANTS
  Ctx = "Tap"
  Uncompressed = {}
  BadInscriptions = {"bad"}
  InscriptionSize = 10
  MAX_RECURSION_DEPTH = 6
  LeafTerms <- MCLeaves
  FreeWrappers = {}
  InscribedWith = {"i"}
  Scripts <- ShortScripts
  MaxWeight = 4
  MaxBroken = 8
  MaxShort = 2
INVARIANTS
  RoundTrip
  Complete
CHECK_DEADLOCK FALSE
