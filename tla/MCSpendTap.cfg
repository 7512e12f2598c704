SPECIFICATION SpendSpec
CONSTANTS
  Ctx = "Tap"
  Uncompressed = {}
  BadInscriptions = {"bad"}
  InscriptionSize = 10
  MAX_RECURSION_DEPTH = 10
  LeafTerms <- TapLeaves
  FreeWrappers = {"Check", "Swap", "Verify", "Alt"}
  InscribedWith = {"i"}
  MaxWeight = 3
  Keys = {"A", "B", "C", "D"}
  LockTimes = {0, 18}
  Sequences = {1, 2}
  Templates = {"T"}
  RawLookups <- NoLookup
INVARIANTS
  SatisfierSound
  SaneTimelocksReported
CHECK_DEADLOCK FALSE
