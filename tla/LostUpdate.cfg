SPECIFICATION Spec
CONSTANTS
    Epochs <- MCEpochs
    Slots <- MCSlots
    SigningRoots = {r1, r2}
    Imports <- NoImports
    MaxDuties = 3
    MaxFailures = 0
INVARIANTS NeverContradicted
CHECK_DEADLOCK FALSE
