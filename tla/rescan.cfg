SPECIFICATION FairRescanSpec
CONSTANTS
    Browsers = {b1, b2}
    Runner = runner
    Nobody = nobody
    Scannable = TRUE
    Periodic = TRUE
INVARIANTS
    ForcedScanNeverWaits
    NoTickSkipped
PROPERTIES
    RescanServed
    ClickAnswered
    LoopEnds
