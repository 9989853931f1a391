\* One message, packed, unpacked, forwarded and answered.
CONSTANTS
    Verbs = {0, 2, 3}
    Ids <- MCIds
    QoSLevels = {0, 2, 3}
    Options <- MCOptions
    Topics <- MCTopics
    Payloads <- MCPayloads
    HeaderValues <- MCHeaderValues
    Datagrams <- MCDatagrams
    MaxMessageSize = 530
SPECIFICATION FairSpec
INVARIANTS
    TypeOK
    OneOfEachType
    RoundTrip
    NothingLost
PROPERTY
    Decodes
