SPECIFICATION Spec
CONSTANTS
    Settings <- MCSettings
    Tasks <- MCTasks
    Values <- MCValues
    Bodies <- MCBodies
    Suffixed <- MCSuffixed
INVARIANTS TypeOK ReadsChangeNothing OneConfirmationOneAction CallsRunInOrder ProhibitedIsCounted
CHECK_DEADLOCK FALSE
