SPECIFICATION CompileSpec
INVARIANTS
    LiftsAsPolicy
    CandidateSound
    CompilableComplete
    TrKeepsMeaning
    HuffmanOptimal
CONSTANTS
    NameOrder <- MCNames
    ENTAILMENT_MAX_TERMINALS = 20
    ProbOne = 864
    BadInscriptions = {}
    MAX_COMPILATION_LEAVES = 12
    SigType = "Ecdsa"
    MaxMulti = 20
    Sources <- MCSources
    MaxCasts <- MCMaxCasts
    Unspendable = "U"
    TrSources <- MCTrSources
    TAPROOT_CONTROL_MAX_NODE_COUNT = 128
CHECK_DEADLOCK FALSE
