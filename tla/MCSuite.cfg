CONSTANTS
    NumTestObjects <- MCNumTestObjects
    Setups <- MCSetups
INIT Init
NEXT Next
INVARIANTS
    TypeOK
    NoIndexPanic
CHECK_DEADLOCK FALSE
