CONSTANTS
    AgentCreds <- MCAgentCreds
    Creds <- MCCreds
    Methods <- MCMethods
    Queries <- MCQueries
    Hosts <- MCHosts
    ForgedValues <- MCForgedValues
    MaxTime <- MCMaxTime
    DayLength <- MCDayLength
    MaxSigned <- MCMaxSigned
    Requests <- MCRequests
    Paths <- MCPaths
SPECIFICATION Spec
INVARIANTS
    TypeOK
    NoForgery
    SignedRequestAccepted
