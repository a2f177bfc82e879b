SPECIFICATION Spec
CONSTANT MaxLines = 5
INVARIANTS
    DiagramIsExact
