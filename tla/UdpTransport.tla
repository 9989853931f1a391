---------------------------- MODULE UdpTransport ----------------------------
(***************************************************************************)
(* UACPUdpTransport objects (src/src/udp_transport.cpp) and the sockets of *)
(* the kernel they hold: bind, close, enableBroadcast, enableMulticast,    *)
(* construction, move construction, move assignment and destruction.       *)
(*                                                                         *)
(* A socket is the file descriptor that names it: the kernel hands out one *)
(* that is not open, so descriptors come back.  Abstracted: sends and      *)
(* receives change no field (AgentNetwork has them); the local address;    *)
(* getsockname does not fail on a socket just bound.  An object is used by *)
(* one thread at a time (AgentLifecycle has the threads).                  *)
(***************************************************************************)
EXTENDS Integers, FiniteSets

CONSTANTS
    Transports,      \* the objects
    Sockets,         \* the descriptors the kernel hands out
    PortArguments,   \* the ports that bind() is called with
    PortModulus,     \* 2^16: htons takes the port modulo it
    EphemeralPorts,  \* the ports the kernel may choose for port 0
    Groups,          \* the multicast groups
    Movable,         \* the objects that moves read or write
    NoSocket, NoGroup

ASSUME TransportAssumption ==
    /\ NoSocket \notin Sockets /\ NoGroup \notin Groups
    /\ PortArguments \subseteq Nat
    /\ PortModulus \in Nat \ {0}
    /\ EphemeralPorts \subseteq 1..(PortModulus - 1)
    /\ Movable \subseteq Transports

VARIABLES
    alive,             \* the objects constructed and not destroyed
    socket_fd,         \* socket_fd_
    local_port,        \* local_port_
    is_bound,          \* is_bound_
    broadcast_enabled, \* broadcast_enabled_
    multicast_group,   \* multicast_group_
    open,              \* kernel: the sockets that are open
    boundTo,           \* kernel: the port of each socket
    mayBroadcast,      \* kernel: the sockets with SO_BROADCAST
    joined             \* kernel: the groups each socket is a member of

fields == <<socket_fd, local_port, is_bound, broadcast_enabled, multicast_group>>
kernel == <<open, boundTo, mayBroadcast, joined>>
vars == <<alive, fields, kernel>>

Init ==
    /\ alive = {}
    /\ socket_fd = [t \in Transports |-> NoSocket]
    /\ local_port = [t \in Transports |-> 0]
    /\ is_bound = [t \in Transports |-> FALSE]
    /\ broadcast_enabled = [t \in Transports |-> FALSE]
    /\ multicast_group = [t \in Transports |-> NoGroup]
    /\ open = {}
    /\ boundTo = [f \in Sockets |-> 0]
    /\ mayBroadcast = {}
    /\ joined = [f \in Sockets |-> {}]

-----------------------------------------------------------------------------
(* bind() and close() *)

\* What is closed leaves its groups and loses its options.
kernelClose(f) ==
    /\ open' = open \ {f}
    /\ mayBroadcast' = mayBroadcast \ {f}
    /\ joined' = [g \in Sockets |-> IF g = f THEN {} ELSE joined[g]]
    /\ boundTo' = [g \in Sockets |-> IF g = f THEN 0 ELSE boundTo[g]]

\* The port a socket gets when bind() asks for this one.
kernelPorts(port) ==
    IF port % PortModulus = 0 THEN EphemeralPorts ELSE {port % PortModulus}

Construct(t) ==
    /\ t \notin alive
    /\ alive' = alive \cup {t}
    /\ socket_fd' = [socket_fd EXCEPT ![t] = NoSocket]
    /\ local_port' = [local_port EXCEPT ![t] = 0]
    /\ is_bound' = [is_bound EXCEPT ![t] = FALSE]
    /\ broadcast_enabled' = [broadcast_enabled EXCEPT ![t] = FALSE]
    /\ multicast_group' = [multicast_group EXCEPT ![t] = NoGroup]
    /\ UNCHANGED kernel

Bind(t) ==
    /\ t \in alive /\ ~is_bound[t]
    /\ \E f \in Sockets \ open, port \in PortArguments :
       \E p \in kernelPorts(port) :
        /\ socket_fd' = [socket_fd EXCEPT ![t] = f]
        /\ local_port' = [local_port EXCEPT ![t] = IF port = 0 THEN p ELSE port]
        /\ open' = open \cup {f}
        /\ boundTo' = [boundTo EXCEPT ![f] = p]
    /\ is_bound' = [is_bound EXCEPT ![t] = TRUE]
    /\ UNCHANGED <<alive, broadcast_enabled, multicast_group, mayBroadcast, joined>>

\* socket() failed, or the new socket was closed again because the address
\* did not parse or the kernel refused it.
BindFails(t) ==
    /\ t \in alive /\ ~is_bound[t]
    /\ socket_fd' = [socket_fd EXCEPT ![t] = NoSocket]
    /\ UNCHANGED <<alive, local_port, is_bound, broadcast_enabled, multicast_group, kernel>>

\* Mutant: close() keeps the broadcast flag.
Bug_CloseKeepsBroadcast(t) ==
    /\ is_bound' = [is_bound EXCEPT ![t] = FALSE]
    /\ local_port' = [local_port EXCEPT ![t] = 0]
    /\ UNCHANGED broadcast_enabled

\* What close() does to the fields of t, all but the descriptor.
closeFields(t) ==
    /\ is_bound' = [is_bound EXCEPT ![t] = FALSE]
    /\ broadcast_enabled' = [broadcast_enabled EXCEPT ![t] = FALSE]
    /\ local_port' = [local_port EXCEPT ![t] = 0]

\* close() on a transport with a socket.
Close(t) ==
    /\ t \in alive /\ socket_fd[t] # NoSocket
    /\ socket_fd' = [socket_fd EXCEPT ![t] = NoSocket]
    /\ multicast_group' = [multicast_group EXCEPT ![t] = NoGroup]
    /\ kernelClose(socket_fd[t])
    /\ closeFields(t)
    /\ UNCHANGED alive

\* close() on a transport without one: the group, if any, stays.
CloseWithoutSocket(t) ==
    /\ t \in alive /\ socket_fd[t] = NoSocket
    /\ closeFields(t)
    /\ UNCHANGED <<alive, socket_fd, multicast_group, kernel>>

Destroy(t) ==
    /\ t \in alive
    /\ alive' = alive \ {t}
    /\ socket_fd' = [socket_fd EXCEPT ![t] = NoSocket]
    /\ multicast_group' = [multicast_group EXCEPT ![t] = NoGroup]
    /\ closeFields(t)
    /\ IF socket_fd[t] # NoSocket THEN kernelClose(socket_fd[t]) ELSE UNCHANGED kernel

-----------------------------------------------------------------------------
(* Moves *)

\* The fields of t become those of u; u keeps its port and its broadcast
\* flag, and its group is what the library leaves in a moved-from string.
takeFields(t, u) ==
    /\ socket_fd' = [socket_fd EXCEPT ![t] = socket_fd[u], ![u] = NoSocket]
    /\ local_port' = [local_port EXCEPT ![t] = local_port[u]]
    /\ is_bound' = [is_bound EXCEPT ![t] = is_bound[u], ![u] = FALSE]
    /\ broadcast_enabled' = [broadcast_enabled EXCEPT ![t] = broadcast_enabled[u]]
    /\ \E left \in {NoGroup, multicast_group[u]} :
          multicast_group' = [multicast_group EXCEPT ![t] = multicast_group[u], ![u] = left]

MoveConstruct(t, u) ==
    /\ t \in Movable \ alive /\ u \in Movable \cap alive
    /\ alive' = alive \cup {t}
    /\ takeFields(t, u)
    /\ UNCHANGED kernel

\* Mutant: the target's socket is not closed.
Bug_AssignLeaks(t, u) ==
    /\ t \in Movable \cap alive /\ u \in Movable \cap alive /\ t # u
    /\ takeFields(t, u)
    /\ UNCHANGED <<alive, kernel>>

MoveAssign(t, u) ==
    /\ t \in Movable \cap alive /\ u \in Movable \cap alive /\ t # u
    /\ takeFields(t, u)
    /\ IF socket_fd[t] # NoSocket THEN kernelClose(socket_fd[t]) ELSE UNCHANGED kernel
    /\ UNCHANGED alive

-----------------------------------------------------------------------------
(* enableBroadcast() and enableMulticast() *)

\* Mutant: is_bound_ is not looked at.
Bug_BroadcastUnbound(t) ==
    /\ t \in alive
    /\ mayBroadcast' = mayBroadcast \cup {socket_fd[t]}
    /\ broadcast_enabled' = [broadcast_enabled EXCEPT ![t] = TRUE]
    /\ UNCHANGED <<alive, socket_fd, local_port, is_bound, multicast_group,
                   open, boundTo, joined>>

\* setsockopt succeeds; when it does not, nothing changes.
EnableBroadcast(t) ==
    /\ t \in alive /\ is_bound[t]
    /\ mayBroadcast' = mayBroadcast \cup {socket_fd[t]}
    /\ broadcast_enabled' = [broadcast_enabled EXCEPT ![t] = TRUE]
    /\ UNCHANGED <<alive, socket_fd, local_port, is_bound, multicast_group,
                   open, boundTo, joined>>

\* The groups t's socket is left with when it leaves the group it has.
leaveGroup(t) == joined[socket_fd[t]] \ {multicast_group[t]}

\* Mutant: the group that t has is not left.
Bug_JoinWithoutLeaving(t) ==
    /\ t \in alive /\ is_bound[t]
    /\ \E group \in Groups :
        /\ joined' = [joined EXCEPT ![socket_fd[t]] = @ \cup {group}]
        /\ multicast_group' = [multicast_group EXCEPT ![t] = group]
    /\ UNCHANGED <<alive, socket_fd, local_port, is_bound, broadcast_enabled,
                   open, boundTo, mayBroadcast>>

EnableMulticast(t) ==
    /\ t \in alive /\ is_bound[t]
    /\ \E group \in Groups :
        /\ joined' = [joined EXCEPT ![socket_fd[t]] = leaveGroup(t) \cup {group}]
        /\ multicast_group' = [multicast_group EXCEPT ![t] = group]
    /\ UNCHANGED <<alive, socket_fd, local_port, is_bound, broadcast_enabled,
                   open, boundTo, mayBroadcast>>

\* The address does not parse, or the kernel refuses the new membership: the
\* old group is left all the same, and multicast_group_ still names it.
EnableMulticastFails(t) ==
    /\ t \in alive /\ is_bound[t]
    /\ joined' = [joined EXCEPT ![socket_fd[t]] = leaveGroup(t)]
    /\ UNCHANGED <<alive, fields, open, boundTo, mayBroadcast>>

Next ==
    \/ \E t \in Transports :
        \/ Construct(t) \/ Bind(t) \/ BindFails(t)
        \/ Close(t) \/ CloseWithoutSocket(t) \/ Destroy(t)
        \/ EnableBroadcast(t) \/ EnableMulticast(t) \/ EnableMulticastFails(t)
    \/ \E t, u \in Transports : MoveConstruct(t, u) \/ MoveAssign(t, u)

Spec == Init /\ [][Next]_vars

-----------------------------------------------------------------------------
(* Properties *)

TypeOK ==
    /\ alive \subseteq Transports
    /\ socket_fd \in [Transports -> Sockets \cup {NoSocket}]
    /\ local_port \in [Transports -> Nat]
    /\ is_bound \in [Transports -> BOOLEAN]
    /\ broadcast_enabled \in [Transports -> BOOLEAN]
    /\ multicast_group \in [Transports -> Groups \cup {NoGroup}]
    /\ open \subseteq Sockets /\ mayBroadcast \subseteq open
    /\ boundTo \in [Sockets -> 0..(PortModulus - 1)]
    /\ joined \in [Sockets -> SUBSET Groups]

(***************************************************************************)
(* Every open socket belongs to exactly one transport and every transport  *)
(* that names a socket names an open one: nothing leaks, nothing is closed *)
(* twice and no object closes or uses a descriptor that the kernel gave to *)
(* another (udp_transport.cpp:32-62, 64-113, 115-133).                     *)
(***************************************************************************)
SocketsOwned ==
    /\ \A f \in open : \E t \in alive : socket_fd[t] = f
    /\ \A t \in alive : socket_fd[t] # NoSocket => socket_fd[t] \in open
    /\ \A t, u \in alive : socket_fd[t] = socket_fd[u] => t = u \/ socket_fd[t] = NoSocket

\* A socket is a member of no group but the one its transport will leave
\* (udp_transport.cpp:116-126, 257-287).
MembershipTracked ==
    \A t \in alive : is_bound[t] => joined[socket_fd[t]] \subseteq {multicast_group[t]}

\* The port of a bound transport is the port of its socket, wherever the
\* object was moved, if bind() is only asked for ports of 16 bits: a wider one
\* is truncated on its way to the socket only (udp_transport.cpp:81, 98-109).
PortIsReal ==
    \A t \in alive : is_bound[t] => local_port[t] = boundTo[socket_fd[t]]

(***************************************************************************)
(* An object that no move touches says what it is not: it has no port      *)
(* before bind() and after close() ("Port number, or 0 if not bound",      *)
(* udp_transport.h:100).  A moved-from one keeps the port it gave away     *)
(* (udp_transport.cpp:36-46).                                              *)
(***************************************************************************)
PortZeroWhenNotBound ==
    \A t \in alive \ Movable : ~is_bound[t] => local_port[t] = 0

(***************************************************************************)
(* sendBroadcast goes on only where the kernel lets it, on an object that  *)
(* no move touches: close() and bind() between two calls do not leave a    *)
(* flag behind that a new socket has not (udp_transport.cpp:131, 230-237). *)
(***************************************************************************)
BroadcastFlagHonest ==
    \A t \in alive \ Movable :
        is_bound[t] /\ broadcast_enabled[t] => socket_fd[t] \in mayBroadcast

\* All three: what a transport says of its socket is true of it, for 16-bit
\* ports and, as to port 0 and broadcast, for objects that no move touches
\* (udp_transport.cpp:98-133, 230-237).
FieldsHonest == PortIsReal /\ PortZeroWhenNotBound /\ BroadcastFlagHonest
=============================================================================
