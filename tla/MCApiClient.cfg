SPECIFICATION Spec
CONSTANTS
    Calls = {c1, c2, c3}
    Catalogue = {k1}
    Unknown = Unknown
    Routings <- Deployed
    None = None
INVARIANTS
    OneDetection
    NullMeansUnknown
    RetriesAreForQueries
    ModeIsRight
PROPERTIES
    EveryCallSettles
    ImplementsTwoModeClient
