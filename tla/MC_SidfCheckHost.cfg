CONSTANTS
    d1 = d1
    d2 = d2
    d3 = d3
    d4 = d4
    NoDom = NoDom
    NoDomain <- NoDom
    Domains <- MCDomains
    MalformedDomains <- MCMalformed
    MaxDnsMech = 2
    LookupExp = TRUE
    Policies <- MCPolicies
    LocalPolicyExp = "ok"
    Zones <- MCZones
    SenderChoices <- MCSenders
    HeloChoices <- MCHelos
    SinFamilies <- MCFamilies
    MaxResets = 1
SPECIFICATION Spec
INVARIANTS
    TypeOK
    StackDiscipline
    LookupBudget
PROPERTIES
    ExplanationSetOnce
    RefinesEvalSpec
    EvalReturns
CHECK_DEADLOCK FALSE
