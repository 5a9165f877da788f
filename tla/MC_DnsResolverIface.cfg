CONSTANTS
    MaxMxrr = 2
    MaxPtrrr = 2
    NameChars = {"a", "b", "."}
    LookupMsgs <- MCLookupMsgsFull
    MaxAlloc = 3
    Clients <- MCClients
    Cidrs <- MCCidrs
    AMsgs <- MCAMsgs
    MxMsgs <- MCMxMsgs
    MxZones <- MCMxZones
    PtrMsgs <- MCPtrMsgs
    PtrZones <- MCPtrZones
    Domains <- MCDomains
    Beyond = {0, 255}
    PtrFams = {4, 6}
    MxCidrs = {25, 32}

SPECIFICATION Spec

INVARIANTS
    ResolverPerInterface

\* Each lookup or mechanism returns once; the call really ends there.
CHECK_DEADLOCK FALSE
