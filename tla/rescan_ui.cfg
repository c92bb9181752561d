SPECIFICATION RescanSpec
CONSTANTS
    Browsers = {b1, b2}
    Runner = runner
    Nobody = nobody
    Scannable = TRUE
    Periodic = TRUE
INVARIANT
    RefreshShowsRescan
