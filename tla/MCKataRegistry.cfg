SPECIFICATION Spec
CONSTANTS
    Threads = {t1, t2, t3}
    Resetters = {t1, t2}
    Nobody = nobody
    MaxFailures = 2
    MaxResets = 2
INVARIANTS
    LockIsExclusive
    BuiltAtMostOncePerReset
    SlowPathReturnsCatalogue
PROPERTIES
    EveryCallEnds
    ImplementsCatalogueCell
