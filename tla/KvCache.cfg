CONSTANTS
    c1 = c1  c2 = c2  s1 = s1  s2 = s2
    plain = plain  cyber = cyber  p1 = p1  p2 = p2
    None = None
    Commands <- MCCommands
    Sessions <- MCSessions
    Identities <- MCIdentities
    Ephemeral <- MCEphemeral
    Contents <- MCContents
    Quota = 1
    MaxUpsets = 1
    MaxServes = 2
SPECIFICATION Spec
SYMMETRY Symmetry
INVARIANTS
    CheckpointSound
    LiveIsOfIdentity
PROPERTIES
    PayloadStays
    PruneSpares
    PruneDelivers
