CONSTANTS
    n1 = n1
    n2 = n2
    raw = raw
    zeros = zeros
    secret = secret
    None = None
    Bad = Bad
    NotText = NotText
    ClaimNames = {"hardware", "executables"}
    Requests <- MCRequests
    PolicyResults <- MCPolicyResults
    Registered <- MCRegistered
    IndexMod = 2
    ExtraPaths <- MCExtraPaths
SPECIFICATION Spec
CHECK_DEADLOCK FALSE
INVARIANTS
    ClaimsAreBound
    
    KeyAttested
    
    ItaSeesAll
