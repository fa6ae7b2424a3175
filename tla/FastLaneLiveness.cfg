CONSTANTS
    s1 = s1  m1 = m1  m2 = m2
    None = None
    Flash = Flash
    Switchers <- OneSwitcher
    FlashOps = {}
    Models <- MCModels
    MayInterrupt = TRUE
    StopMayFail = TRUE
    DiskMayFail = TRUE
    RollbackMayFail = TRUE
SPECIFICATION FairSpec
PROPERTY SwitchEnds
