SPECIFICATION Spec
CONSTANTS
    NumKatas = 2
    Prerequisites <- Chain
    Former = {0}
    Tabs = {t1, t2}
    Absent = Absent
    Garbage = Garbage
    NumHints <- FewHints
    MaxStored = 2
    None = None
SYMMETRY TabSymmetry
INVARIANTS
    StoredIsEarned
    SomethingIsOpen
    NextHintAppearsUnfolded
PROPERTIES
    LastCompletionIsCelebrated
    HintsAreOnlyAdded
