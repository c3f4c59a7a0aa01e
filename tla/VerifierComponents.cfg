CONSTANTS
    i1 = i1
    i2 = i2
    None = None
    Torn = Torn
    Instances = {i1, i2}
    Setups <- MCSetups
    MaxTime = 3
    ReportDataLen = 2
    HostDataLen = 1
    ConfigIdLen = 2
SPECIFICATION Spec
CHECK_DEADLOCK FALSE
INVARIANTS
    SnpEndorsed
    AcceptedAreBound
    TdxHeals
    AcceptedAreCurrent
PROPERTIES
    VcekFilesStay
