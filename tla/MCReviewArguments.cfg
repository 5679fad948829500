SPECIFICATION Spec
CONSTANTS
    Documents <- Ledgers
    MaxEdits <- MCMaxEdits
    Effects = {}
    Kept = {}
    Chosen = {}
    Adopting = TRUE
INVARIANT ArgumentsArrive
CHECK_DEADLOCK FALSE
