SPECIFICATION FairSpec
CONSTANTS
    c1 = c1
    c2 = c2
    Clients <- MCClients
    Server = server
    Nobody = Nobody
    NumSlots <- MCNumSlots
    NumMappings = 2
    NumServers <- MCNumServers
    Timeout = 1
    MaxLate <- MCMaxLate
    MaxTokens <- MCMaxTokens
    MaxBatch = 2
\* A server that was stopped for good, and clients without tokens.
CHECK_DEADLOCK FALSE
INVARIANTS
    TypeOK
    OneSlotEach
    MappingKept
    
PROPERTY SidesAgree
