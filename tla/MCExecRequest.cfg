CONSTANTS
    MaxRetry <- MCMaxRetry
    Unit <- MCUnit
    MaxNetDelay <- MCMaxNetDelay
    Statuses <- MCStatuses
    Codes <- MCCodes
    InnerNetErrors <- MCInnerNetErrors
SPECIFICATION Spec
\* A call ends when execRequest has returned; the model then has no step.
CHECK_DEADLOCK FALSE
INVARIANTS
    TypeOK
    ExhaustedAfterMaxRetry
    ResultDefined
PROPERTIES
    RetryAfterBackoff
    CallReturns
    ImplementsRetryPolicy
