CONSTANTS
    Transports = {t1, t2, t3}
    Sockets = {f1, f2, f3}
    PortArguments = {0, 1}
    PortModulus = 4
    EphemeralPorts = {2, 3}
    Groups = {g1, g2}
    Movable = {t1, t2}
    NoSocket = NoSocket
    NoGroup = NoGroup
SPECIFICATION Spec
SYMMETRY Symmetry
INVARIANTS
    TypeOK
    SocketsOwned
    MembershipTracked
    FieldsHonest
