CONSTANTS
    Alphabet <- MCAlphabet
    Folding <- MCFolding
    MaxLen = 4
    NoDom = NoDom
    NoDomain <- NoDom

SPECIFICATION Spec

INVARIANTS
    TypeOK
    ParentIsLabelSuffix
    TruncatesAtLabels

\* One call of each function, then nothing is left to do.
CHECK_DEADLOCK FALSE
