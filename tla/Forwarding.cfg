\* A service of two versions whose selector comes and goes, under an ordinary or
\* a kubetunnel name, while its server's forward, or the one it is the server of,
\* comes and goes; and hosts files that the user and an earlier run left.
CONSTANTS
    MaxVersion = 2
    MaxNotes = 1
    Services <- TwoServices
    Files <- SomeFiles
    Slugged <- Tunnels
    Src = "svc"
    Dst = "kubetunnel-svc"
    SrcLine <- Ours
    DstLine <- Server
SPECIFICATION FairSpec
INVARIANTS
    ForwardIsCurrent
    NothingAfterCleanExit
    ListedServerIsFound
PROPERTIES
    ShutdownCompletes
    CleanupSparesOthers
    SrcFollowsDst
    OthersKept
