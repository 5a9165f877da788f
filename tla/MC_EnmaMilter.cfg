CONSTANTS
    Argvs <- MCArgvs
    Files <- MCFiles
    Folding <- MCFolding
    Headers <- MCHeaders
    Failures <- MCFailures
    MaxMsgs = 2
    MaxHdrs = 3
    MaxHelo = 2

SPECIFICATION Spec

INVARIANTS
    TypeOK
    NoLeak
    ForgedHeadersRemoved
    AuthResultsOfThisMessage

PROPERTIES
    ConfigPrecedence

\* A failed load exits, and mfi_close ends the connection; nothing follows.
CHECK_DEADLOCK FALSE
