SPECIFICATION Spec
CONSTANTS
    Katas = {k1, k2}
    Edits = {e1}
    Slots = {s1, s2}
    Home = Home
    None = None
INVARIANT ResultBelongsToKata
