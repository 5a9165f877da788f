CONSTANTS
    NoDom = NoDom
    NoDomain <- NoDom
    Tokens <- MCTokens
    Folding <- MCFolding
    SenderLocal <- SenderLocalV
    SenderDomain <- DomainV
    Domain <- DomainV
    Helo <- HeloV
    Ip4Text <- Ip4V
    Ip6Text <- Ip6V
    CheckingDomain = NoDom
    Timestamp <- TsV
    PtrNames <- MCPtrNames
    MaxPtrAnswer = 3
    PtrMax = 2
    PriorLen = 10
    ExpansionLimit = 30

SPECIFICATION Spec

INVARIANTS
    MacroTransformPerRFC

\* One call, then the harness has nothing left to do.
CHECK_DEADLOCK FALSE
