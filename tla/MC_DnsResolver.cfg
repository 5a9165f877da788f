CONSTANTS
    MaxMxrr = 2
    MaxPtrrr = 2
    NameChars = {"a", "b", "."}
    LookupMsgs <- MCLookupMsgs
    MaxAlloc = 3
    Clients <- MCClients
    Cidrs <- MCCidrs
    AMsgs <- MCAMsgs
    MxMsgs <- MCMxMsgs
    MxZones <- MCMxZones
    PtrMsgs <- MCPtrMsgs
    PtrZones <- MCPtrZones
    Domains <- MCDomains
    Beyond = {0, 255}
    PtrFams = {4}
    MxCidrs = {25, 32}

SPECIFICATION Spec

INVARIANTS
    TypeOK
    ResolverPerInterface
    NoLeak
    AddrMechPerRFC
    PtrMechPerRFC

\* Each lookup or mechanism returns once; the call really ends there.
CHECK_DEADLOCK FALSE
