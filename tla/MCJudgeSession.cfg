SPECIFICATION Spec
CONSTANTS
    Vars = {v1, v2}
    MaxOutput = 2
    MaxPrints = 3
SYMMETRY Symmetry
INVARIANTS
    PassedMeansRight
    VerdictIsExact
    OutputIsBounded
