SPECIFICATION Spec
CONSTANTS
    MaxVersion = 4
INVARIANTS PointerIsWhole
PROPERTIES KeepsPromise
