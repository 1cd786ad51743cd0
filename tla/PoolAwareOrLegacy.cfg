SPECIFICATION Spec
CONSTANTS
    MaxNones = 1
    MaxKeywords = 0
INVARIANTS
    PoolAwareOrLegacy
