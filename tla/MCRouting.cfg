CONSTANTS
    n1 = n1  n2 = n2  e1 = e1  e2 = e2
    Endpoint = {e1, e2}
    NoEndpoint = NoEndpoint
    NoToken = NoToken
    NoTenant = NoTenant
    Threshold = 2
    ShedRate = 2
    Denominator = 10
    MinConns = 1
    Node = {n1, n2}
    Request = {r1}
    Message <- Messages
    verifier <- Verifier
    served = e1
    MaxConns = 4
    AdminMessage <- AdminMessages
    config <- Config
    NoVerifier = NoVerifier
    NoPassword = NoPassword
    NoSession = NoSession
    NoForward = NoForward
    Other = Other
    MaxHops = 3
SPECIFICATION AdminSpec
CHECK_DEADLOCK FALSE
INVARIANTS OneHop  ServedIsPermitted AnsweredByTarget LoopsOnlyIfReplaced
 
