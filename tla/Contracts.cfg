SPECIFICATION ContractsSpec
CONSTANTS
    NotAString = NotAString
    None = None
    Phrases <- MCPhrases
    MaxText = 4
    Catalog <- MCCatalog
    Rules <- MCRules
    Declared <- MCDeclared
    Segments <- MCSegments
    MaxSegments = 3
    ResultRows <- MCRows
    MaxRows = 2
    Columns = {1, 2}
    Policies <- MCPolicies
    PermissionRules <- MCPermissionRules
    PermissionRequests <- MCPermissionRequests
    BoundaryRequests <- MCBoundaryRequests
    CredentialRequests <- MCCredentialRequests
    CredentialPolicies <- MCCredentialPolicies
    Approvers = {a1, a2, a3}
    Requester = a1
    MaxLog = 3
    MaxFaults = 2
INVARIANTS ScansLikeSQL ReadsAreReads StarIsCovered ApprovedByQuorum BreakIsFound
PROPERTIES NeverMilder
CHECK_DEADLOCK FALSE
