CONSTANTS
    s1 = s1  s2 = s2  g1 = g1  c1 = c1  m1 = m1  m2 = m2
    None = None
    Flash = Flash
    Switchers <- OneSwitcher
    FlashOps <- MCFlashOps
    Clients <- MCClients
    Models <- MCModels
    MayInterrupt = FALSE
    StopMayFail = FALSE
    DiskMayFail = FALSE
    RollbackMayFail = FALSE
SPECIFICATION GatewaySpec
PROPERTY QuietAnswerIsAsked
