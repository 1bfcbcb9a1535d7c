SPECIFICATION Spec
CONSTANTS
    MaxDigits = 3
    MaxRequests = 4
    MaxFields = 2
    MaxFieldName = 1
    MaxFieldValue = 3
    MaxBody = 200
    Requests <- MCRequests
    Listed <- MCListed
    Order <- MCOrder
    Styles = {"plain", "spaced", "ascii"}
    Grants <- MCGrants
    RetryHeaders <- MCRetryHeaders
    Users <- MCUsers
    Matches <- MCMatches
    Servers <- MCServers
    SessionId <- Session
    Provisional = dev
    MaxAttempts = 5
    MaxNonce = 2
    Budgets <- MCBudgets
INVARIANTS
    ScanIsFaithful
    FulfilMatches
    UploadsAsGranted
    RetryIsPolite
