CONSTANTS
    Argvs <- MCArgvsDoc
    Files <- MCFilesDoc
    Folding <- MCFolding
    Headers <- MCHeaders
    Failures <- MCAllFailures
    MaxMsgs = 2
    MaxHdrs = 3
    MaxHelo = 2

SPECIFICATION Spec

PROPERTIES
    EnmaPerSpec

\* A failed load exits, and mfi_close ends the connection; nothing follows.
CHECK_DEADLOCK FALSE
