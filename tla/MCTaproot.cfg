SPECIFICATION TaprootSpec
INVARIANTS
    GrammarExact
    TreeFaithful
    ControlBlocksVerify
CONSTANTS
    MAX_RECURSION_DEPTH = 4
    TAPROOT_CONTROL_MAX_NODE_COUNT = 3
    MayWrite <- MCMayWrite
    MaxLen = 17
    ShortLen = 7
CHECK_DEADLOCK FALSE
