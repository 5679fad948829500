SPECIFICATION Spec
CONSTANTS
    Documents <- MCDocuments
    MaxEdits <- MCMaxEdits
    Effects <- MCEffects
    Kept <- MCKept
    Chosen <- TakenNames
    Adopting = TRUE
INVARIANT ConfirmedBeforeDestroyed
CHECK_DEADLOCK FALSE
