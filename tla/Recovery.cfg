CONSTANTS
    c1 = c1  c2 = c2  m1 = m1  w1 = w1  w2 = w2  t = t
    b1 = b1  b2 = b2  f1 = f1  f2 = f2
    None = None
    Garbage = Garbage
    Factory = Factory
    Commands <- MCCommands
    Models <- MCModels
    Digests <- MCDigests
    Manifests <- MCManifests
    Bundles <- MCBundles
    RuntimeFiles <- MCRuntimeFiles
    SourceMayChange = TRUE
    MaxStarts = 4
    MaxKills = 1
    Wipes = 1
SPECIFICATION Spec
SYMMETRY Symmetry
INVARIANTS
    TypeOK
    StoreSound
    SoloBundleImports
    LinksComplete
PROPERTIES
    ImportDelivers
    WayBack
    RecoveryDelivers
