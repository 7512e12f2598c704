SPECIFICATION SpendSpec
CONSTANTS
  Ctx = "Segwitv0"
  Uncompressed = {}
  BadInscriptions = {"bad"}
  InscriptionSize = 10
  MAX_RECURSION_DEPTH = 10
  LeafTerms <- SegwitLeaves
  FreeWrappers = {"Check", "Swap", "Verify", "Alt"}
  InscribedWith = {}
  MaxWeight = 3
  Keys = {"A", "B", "C", "D"}
  LockTimes = {0, 17}
  Sequences = {1}
  Templates = {"T"}
  RawLookups <- KeyLookups
INVARIANTS
  SatisfierSound
  MalleableComplete
  NonMalleableComplete
  NonMalleable
  WitnessBounded
CHECK_DEADLOCK FALSE
