\* create_optimal over expected_elements in -1..3 and six rates.
CONSTANTS
    Sizes <- MCSizes
    HashCounts <- MCHashCounts
    ElementCounts <- MCElementCounts
    Rates <- MCRates
    LnMicro <- MCLnMicro
SPECIFICATION Spec
INVARIANTS
    CreateOptimalRaisesOnlyOnInvalid
