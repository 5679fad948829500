SPECIFICATION Spec
CONSTANTS
    Documents <- MCDocuments
    MaxEdits <- MCMaxEdits
    Effects <- MCEffects
    Kept <- MCKept
    Chosen <- MCChosen
    Adopting = TRUE
PROPERTY RejectionStands
CHECK_DEADLOCK FALSE
