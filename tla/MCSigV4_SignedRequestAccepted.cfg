CONSTANTS
    AgentCreds <- MCAgentCreds
    Creds <- MCCreds
    Methods <- MCMethods
    Queries <- MCQueries
    Hosts <- MCHosts
    ForgedValues <- MCForgedValues
    MaxTime <- MCMaxTime
    DayLength <- MCDayLength
    MaxSigned <- MCMaxSigned
    Requests <- MCRequestsMultiValued
    Paths <- MCPaths
SPECIFICATION Spec
INVARIANT
    SignedRequestAccepted
