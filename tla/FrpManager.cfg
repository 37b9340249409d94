\* Two clients one after another: the first may still be closing while the
\* second one runs; a third round is refused by the bound only.
CONSTANTS
    MaxRounds = 2
    ServicePorts <- SomePorts
    Mappings <- SomeMappings
    Decodes = 2
SPECIFICATION FairSpec
INVARIANTS
    ClosedOnce
    CancelReturnsLate
    OldClientIsClosing
    PanicAfterStart
    TunnelEndsMeet
PROPERTIES
    NoServiceNoClient
    ClientReplaced
    DogEnds
    ImplementsClientSupply
