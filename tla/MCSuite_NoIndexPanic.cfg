CONSTANTS
    NumTestObjects <- MCNumTestObjects
    Setups <- MCSetupsReuseExtended
INIT Init
NEXT Next
INVARIANTS
    NoIndexPanic
CHECK_DEADLOCK FALSE
