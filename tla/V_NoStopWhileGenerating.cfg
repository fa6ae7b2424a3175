CONSTANTS
    h1 = h1  h2 = h2
    p1 = p1  p2 = p2
    m1 = m1  m2 = m2  m3 = m3  ghost = ghost
    plain = plain  custom = custom  rejected = rejected
    None = None
    NoRuntime = plain
    Handlers <- MCHandlers
    Procs <- MCProcs
    Models <- MCModels
    Admitted <- MCAdmitted
    Names <- MCNames
    Runtimes <- MCRuntimes
    Supported <- MCSupported
    MaxRequests = 1
    Unkillable = FALSE
    StateDirMayFail = FALSE
SPECIFICATION Spec
PROPERTY NoStopWhileGenerating
