SPECIFICATION Spec
CONSTANTS
    Client = client
    Server = server
    Sizes <- MCSizes
    Wrap = 8
    SentSize = 2
    ReceivedSize = 2
    ReassemblySize = 2
    AckBits = 2
    AckSize = 1
    Lifetime <- MCLifetime
    MaxLost = 2
    MaxAhead = 1
INVARIANTS
    TypeOK
    
    Remembered
PROPERTIES
    
    OnlyWhole
