SPECIFICATION Spec
CONSTANTS
    Calls = {c1, c2, c3}
    Catalogue = {k1}
    Unknown = Unknown
    Routings <- DevServer
    None = None
INVARIANT ModeIsRight
