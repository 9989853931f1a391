CONSTANTS
    Users = {u1, u2}
    Receiver = r
    VerbScripts = {"nothing", "notifies"}
    TopicScripts = {"nothing", "registers", "notifies"}
    TopicsChange = TRUE
    MaxCalls = 3
    NoThread = NoThread
SPECIFICATION FairSpec
INVARIANTS
    TypeOK
    LocksMatchCode
    VerbHandlerLives
PROPERTIES
    MessagesHandled
    CallsReturn
