SPECIFICATION RedeemSpec
CONSTANTS
  Ctx = "Tap"
  Uncompressed = {}
  BadInscriptions = {"bad"}
  InscriptionSize = 10
  MAX_RECURSION_DEPTH = 10
  LeafTerms <- TapLeaves
  FreeWrappers = {"Check", "Verify"}
  InscribedWith = {"i"}
  MaxWeight = 2
  Keys = {"A", "B", "C"}
  LockTimes = {17}
  Sequences <- MCSequences
  Templates = {"T"}
INVARIANTS
  InterpreterExact
CHECK_DEADLOCK FALSE
