SPECIFICATION PoliciesSpec
INVARIANTS
    MeaningKept
    EntailsExact
    TextRoundTrip
    TimelocksExact
CONSTANTS
    NameOrder <- MCNames
    ENTAILMENT_MAX_TERMINALS = 20
    ProbOne = 12
    BadInscriptions = {}
    MAX_COMPILATION_LEAVES = 1024
    Terminals <- MCTerminals
    Inscriptions = {"I"}
    Probs <- MCProbs
    Ages <- MCAges
    Heights <- MCHeights
    Renaming <- MCRenaming
    MaxLeaves = 3
CHECK_DEADLOCK FALSE
