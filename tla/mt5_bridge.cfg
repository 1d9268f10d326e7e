SPECIFICATION Spec
CONSTANTS
    s1 = s1
    s2 = s2
    Symbols = {s1, s2}
    MaxCommands = 3
INVARIANTS TypeOK ExecutedInOrder FillsAreReal
CHECK_DEADLOCK FALSE
