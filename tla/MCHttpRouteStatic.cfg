SPECIFICATION Spec
CONSTANTS
    Patterns <- MCPatterns
    Handlers = {"Hello", "PutFile"}
    Requests <- MCRequests
    Intended <- MCIntended
    IndexHtml <- IndexName
    MaxRoutes = 1
    MaxRequests = 2
    MaxParams = 3
INVARIANTS StaticResourceFound
CHECK_DEADLOCK FALSE
