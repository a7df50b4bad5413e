CONSTANTS
    Requests = {q1, q2}
    Messages <- AllMessages
    Known <- KnownMethods
SPECIFICATION FairDispatchSpec
INVARIANTS AuditBeforeEffect AnswerTellsTheTruth
PROPERTY EveryMessageAnswered
\* all requests are answered and all handlers have returned
CHECK_DEADLOCK FALSE
