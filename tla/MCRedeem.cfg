SPECIFICATION RedeemSpec
CONSTANTS
  Ctx = "Segwitv0"
  Uncompressed = {}
  BadInscriptions = {"bad"}
  InscriptionSize = 10
  MAX_RECURSION_DEPTH = 10
  LeafTerms <- SegwitLeaves
  FreeWrappers = {"Check", "Verify"}
  InscribedWith = {"i"}
  MaxWeight = 3
  Keys = {"A", "B", "C"}
  LockTimes = {17}
  Sequences = {2}
  Templates = {"T"}
INVARIANTS
  InterpreterExact
  PolicyMet
  Resumable
  Backed
PROPERTY Terminates
CHECK_DEADLOCK FALSE
