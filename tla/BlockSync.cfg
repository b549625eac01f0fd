SPECIFICATION FairSpec
CONSTANTS
    a = a
    b = b
    NoPeer = NoPeer
    Gone = Gone
    Peers = {a, b}
    Top = 4
    StartHeight <- MixedHeights
    PeerBase <- BootstrappedB
    Archive = {a}
    FastSync = TRUE
    PruneDepth = 2
    BatchSize = 3
    MaxInflight = 1
    Window = 2
    FarBehind = 1
    MaxStalls = 1
    SnapInterval = 1
    SnapDelay = 1
    SnapChunks = 2
    MaxFaults = 2
INVARIANTS
    DownloadsSound
PROPERTIES
    Synced
