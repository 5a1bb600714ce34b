SPECIFICATION PollingSpec
CONSTANTS
    InRunLoop = TRUE
    IoFails = TRUE
    NChunks = 2
    MaxSaves = 2
    MaxEdits = 1
    MaxForeign = 1
INVARIANTS TypeOK DiskComplete ReportedSaved PristineSaved SavesDoNotOverlap ReportsInOrder
PROPERTY ResultPickedUp
