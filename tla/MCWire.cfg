CONSTANTS
    Conns = {c1}
    Agents = {"a", "b"}
    Tokens = {"t"}
    Identities <- MCIdentities
    Hellos <- MCHellos
    Calls <- MCCalls
    Transport = "tcp"
    AllowAll = FALSE
    MaxRequests = 3
SPECIFICATION FairSpec
INVARIANTS
    RepliesInOrder
    AnswerLagBounded
    OkMeansDone
    ServedAsAuthenticated
PROPERTIES
    RequestsResolved
    HandlersEnd
CHECK_DEADLOCK FALSE
