CONSTANTS
    a1 = a1
    a2 = a2
    Agents <- TwoAgents
    Ids = {1}
    QoS = {0}
    TellTopics <- OneTopic
    ObserveTopics <- OnePattern
    HandlerPatterns <- NoPatterns
    VerbHandlings <- NoHandlings
    TopicHandlings <- NoHandlings
    Calls = {"ping"}
    SendsFail = FALSE
    MaxCalls = 1
    MaxDuplicates = 0
    MaxLosses = 0
    MaxHop = 2
SPECIFICATION Spec
CHECK_DEADLOCK FALSE
INVARIANTS
    ResponsesAreNotAnswered
