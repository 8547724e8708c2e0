SPECIFICATION Spec
CONSTANTS
    Epochs <- MCEpochs
    Slots <- MCSlots
    SigningRoots = {r1, r2}
    Imports <- MCImports
    MaxDuties = 3
    MaxFailures = 1
INVARIANTS AttestationsSafe BlocksSafe
CHECK_DEADLOCK FALSE
