CONSTANTS
    a1 = a1
    a2 = a2
    Agents <- TwoAgents
    Ids = {1}
    QoS = {1}
    TellTopics <- OneTopic
    ObserveTopics <- TwoPatterns
    HandlerPatterns <- StarThenExact
    VerbHandlings <- SomeVerbHandlings
    TopicHandlings <- SomeTopicHandlings
    Calls = {"ping", "tell", "ask", "observe", "notify", "handler", "discover", "registry", "restart"}
    SendsFail = FALSE
    MaxCalls = 2
    MaxDuplicates = 1
    MaxLosses = 1
    MaxHop = 2
SPECIFICATION FairSpec
CHECK_DEADLOCK FALSE
INVARIANTS
    TypeOK
    SubscriptionsRequested
    NotifiedAsked
    TellExchangesEnd
PROPERTIES
    NamesStay
    SubscriptionTakesHold
