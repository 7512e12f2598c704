SPECIFICATION MCSpec
CONSTANTS
  Ctx = "Segwitv0"
  Uncompressed = {}
  BadInscriptions = {"bad"}
  InscriptionSize = 10
  MAX_RECURSION_DEPTH = 6
  LeafTerms <- MCLeaves
  FreeWrappers = {}
  InscribedWith = {"i"}
  Scripts <- ShortScripts
  MaxWeight = 5
  MaxBroken = 5
  MaxShort = 2
INVARIANTS
  NoPanic
  SanityChecks
  RoundTrip
  Complete
PROPERTY
  Terminates
CHECK_DEADLOCK FALSE
