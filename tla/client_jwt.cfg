CONSTANTS
    get = get
    post = post
    NoToken = NoToken
    Requests <- OneEach
    Retryable <- OnlyGet
    RetryAttempts = 1
    TokenKind = "jwt"
    HasToken = TRUE
    HasCredentials = TRUE
    MaxTokens = 2
SPECIFICATION Spec
INVARIANTS TypeOK SingleFlight UnauthorizedAfterTwoTokens AtMostOnce FetchBudget HonestOutcome
PROPERTIES TokenNeverRegresses
\* all calls settle and every message is gone: the system stops
CHECK_DEADLOCK FALSE
