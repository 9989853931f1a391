CONSTANTS
    Users = {u1}
    Receiver = r
    VerbScripts = {"nothing"}
    TopicScripts = {"nothing"}
    TopicsChange = TRUE
    MaxCalls = 2
    NoThread = NoThread
SPECIFICATION Spec
CHECK_DEADLOCK FALSE
INVARIANTS
    TopicHandlerLives
