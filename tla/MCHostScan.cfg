SPECIFICATION Spec
CONSTANT
    Plans <- MCPlans
INVARIANTS
    ReadyWasUnused
    ReadyIsOneDrive
    UseWasReal
    IdentityIsUndisputed
    QuietScansDecide
