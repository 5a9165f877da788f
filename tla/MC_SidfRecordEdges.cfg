CONSTANTS
    Ip4Lit <- MCIp4Lit
    Ip6Lit <- MCIp6Lit
    Bodies <- MCEdgeBodies
    MaxAlloc = 0

SPECIFICATION Spec

INVARIANTS
    BuildsPerRFC

CHECK_DEADLOCK FALSE
