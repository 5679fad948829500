SPECIFICATION Spec
CONSTANTS
    Documents <- MCDocuments
    MaxEdits <- MCMaxEdits
    Effects <- MCEffects
    Kept <- MCKept
    Chosen <- MCChosen
    Adopting = TRUE
INVARIANTS TypeOK ApprovalsAreVouched NothingVanishes NamesTellApart ClassifiedBeforeServed
           UngovernedNeverServed ReadOnlyReads ConfirmedBeforeDestroyed
PROPERTIES KeepsRelease DriftBlocks
CHECK_DEADLOCK FALSE
