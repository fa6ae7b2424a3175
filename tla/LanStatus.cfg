CONSTANTS
    h1 = h1  p1 = p1  m1 = m1  m2 = m2  plain = plain  custom = custom
    None = None
    NoRuntime = plain
    Handlers <- MCHandlers
    Procs <- MCProcs
    Models <- MCModels
    Admitted <- MCModels
    Names <- MCModels
    Runtimes <- MCRuntimes
    Supported <- MCRuntimes
    MaxRequests = 1
    Unkillable = TRUE
    StateDirMayFail = TRUE
SPECIFICATION StatusSpec
INVARIANT QuietStatusIsExact
