SPECIFICATION FairSpec

CONSTANTS
    Targets = {a, b, c, x}
    Unsafe = {x}
    Parallel = 2
    Timeout = 2

INVARIANTS
    ScrapeInv
    InTime

PROPERTIES
    Returns
    Collects

\* The daemon may stop between two calls; a call that is stuck breaks Returns.
CHECK_DEADLOCK FALSE
