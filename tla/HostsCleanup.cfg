CONSTANTS
    MaxVersion = 2
    MaxNotes = 1
    Services <- TwoServices
    Files <- SomeFiles
    Slugged <- Tunnels
    Src = "svc"
    Dst = "kubetunnel-svc"
    SrcLine <- Ours
    DstLine <- Server
SPECIFICATION Spec
INVARIANT CleanupRemovesAll
