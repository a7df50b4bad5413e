CONSTANTS
    q1 = q1
    q2 = q2
    Requests <- TwoRequests
    Inputs <- CallerAndAny
    Configs <- AnyConfig
    Messages <- MCMessages
    Known <- MCKnown
    StaticRank <- StaticTokens
    HasIntrospection = TRUE
    BetterAuthRank = 2
    MaxRequests = 1
    Window = 1
    Horizon = 1
SPECIFICATION FairSpec
INVARIANTS EffectsVouchedAndAudited CountedOnce
PROPERTIES LimiterRefined EveryRequestAnswered
\* every request has been answered
CHECK_DEADLOCK FALSE
