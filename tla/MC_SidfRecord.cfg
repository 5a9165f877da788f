CONSTANTS
    Ip4Lit <- MCIp4Lit
    Ip6Lit <- MCIp6Lit
    Bodies <- MCBodies
    MaxAlloc = 10

SPECIFICATION Spec

INVARIANTS
    TypeOK
    BuildsPerRFC

\* SidfRecord_build returns once; the harness really ends there.
CHECK_DEADLOCK FALSE
