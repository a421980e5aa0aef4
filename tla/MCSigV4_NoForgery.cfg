CONSTANTS
    AgentCreds <- MCAgentCreds
    Creds <- MCCreds
    Methods <- MCMethods
    Queries <- MCQueries
    Hosts <- MCHosts
    ForgedValues <- MCForgedValues
    MaxTime <- MCMaxTime
    DayLength <- MCDayLength
    MaxSigned <- MCMaxSigned
    Requests <- MCRequestsInvalidPath
    Paths <- MCPathsInvalid
SPECIFICATION Spec
INVARIANT
    NoForgery
