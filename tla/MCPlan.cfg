SPECIFICATION PlanSpec
CONSTANTS
    TAPROOT_CONTROL_MAX_NODE_COUNT = 128
    Key <- MCKey
    Descriptors <- MCDescriptors
    KeyOrder <- MCKeyOrder
    KeySets <- MCKeySets
    Custom <- MCCustom
    Olders = {5}
    Afters = {7}
    MaxPlans = 2
INVARIANTS
    PlanKept
    
    InputUpdated
CHECK_DEADLOCK FALSE
