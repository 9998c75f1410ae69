\* Construction, create_optimal and the three helpers over boundary arguments.
CONSTANTS
    Sizes <- MCSizes
    HashCounts <- MCHashCounts
    ElementCounts <- MCElementCounts
    Rates <- MCRates
    LnMicro <- MCLnMicro
SPECIFICATION Spec
INVARIANTS
    StandaloneFormulasRejectInvalid
