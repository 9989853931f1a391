------------------------ MODULE UdpTransport_proofs ------------------------
(***************************************************************************)
(* Proofs about UdpTransport, for any number of objects, descriptors,      *)
(* ports and groups, with and without moves.                               *)
(***************************************************************************)
EXTENDS UdpTransport, TLAPS

USE TransportAssumption

(***************************************************************************)
(* The inductive invariant.  bind() refuses a bound transport, so a        *)
(* descriptor is overwritten only if is_bound_ and socket_fd_ can disagree *)
(* (BoundHasSocket); a descriptor that the kernel hands out again carries  *)
(* no membership (ClosedIsClean).                                          *)
(***************************************************************************)
BoundHasSocket == \A t \in alive : is_bound[t] <=> socket_fd[t] # NoSocket

ClosedIsClean == \A f \in Sockets \ open : joined[f] = {}

Inv == TypeOK /\ SocketsOwned /\ BoundHasSocket /\ ClosedIsClean /\ MembershipTracked

\* What the kernel gives bind() is a port (udp_transport.cpp:81, 98-106).
LEMMA KernelPortType ==
  ASSUME NEW port \in PortArguments, NEW p \in kernelPorts(port)
  PROVE  p \in 0..(PortModulus - 1) /\ p \in Nat /\ port \in Nat
<1>1. port \in Nat
  BY TransportAssumption
<1>2. port % PortModulus \in 0..(PortModulus - 1)
  BY <1>1
<1>3. p \in 0..(PortModulus - 1)
  BY <1>2 DEF kernelPorts
<1>4. QED
  BY <1>1, <1>3

\* Nothing is constructed and no socket is open at first.
LEMMA InitInv == Init => Inv
  BY DEF Init, Inv, TypeOK, SocketsOwned, BoundHasSocket, ClosedIsClean, MembershipTracked

\* The disjuncts of Next, one per operation.
LEMMA NextCases ==
  ASSUME [Next]_vars
  PROVE  \/ \E t \in Transports :
              \/ Construct(t) \/ Bind(t) \/ BindFails(t)
              \/ Close(t) \/ CloseWithoutSocket(t) \/ Destroy(t)
              \/ EnableBroadcast(t) \/ EnableMulticast(t) \/ EnableMulticastFails(t)
         \/ \E t, u \in Transports : MoveConstruct(t, u) \/ MoveAssign(t, u)
         \/ UNCHANGED vars
  BY DEF Next

\* Every operation keeps the types.
LEMMA StepType == Inv /\ [Next]_vars => TypeOK'
<1> SUFFICES ASSUME Inv, [Next]_vars PROVE TypeOK'
  OBVIOUS
<1>0. TypeOK
  BY DEF Inv
<1> USE <1>0 DEF TypeOK
<1>1. ASSUME NEW t \in Transports, Construct(t) PROVE TypeOK'
  BY <1>1 DEF Construct, kernel
<1>2. ASSUME NEW t \in Transports, Bind(t) PROVE TypeOK'
  <2>1. PICK f \in Sockets \ open, port \in PortArguments : \E p \in kernelPorts(port) :
          /\ socket_fd' = [socket_fd EXCEPT ![t] = f]
          /\ local_port' = [local_port EXCEPT ![t] = IF port = 0 THEN p ELSE port]
          /\ open' = open \cup {f}
          /\ boundTo' = [boundTo EXCEPT ![f] = p]
    BY <1>2 DEF Bind
  <2>2. PICK p \in kernelPorts(port) :
          /\ local_port' = [local_port EXCEPT ![t] = IF port = 0 THEN p ELSE port]
          /\ boundTo' = [boundTo EXCEPT ![f] = p]
    BY <2>1
  <2>3. p \in 0..(PortModulus - 1) /\ p \in Nat /\ port \in Nat
    BY KernelPortType
  <2>4. local_port' \in [Transports -> Nat] /\ boundTo' \in [Sockets -> 0..(PortModulus - 1)]
    BY <2>2, <2>3
  <2>5. QED
    BY <1>2, <2>1, <2>4 DEF Bind
<1>3. ASSUME NEW t \in Transports, BindFails(t) PROVE TypeOK'
  BY <1>3 DEF BindFails, kernel
<1>4. ASSUME NEW t \in Transports, Close(t) PROVE TypeOK'
  BY <1>4 DEF Close, closeFields, kernelClose
<1>5. ASSUME NEW t \in Transports, CloseWithoutSocket(t) PROVE TypeOK'
  BY <1>5 DEF CloseWithoutSocket, closeFields, kernel
<1>6. ASSUME NEW t \in Transports, Destroy(t) PROVE TypeOK'
  BY <1>6 DEF Destroy, closeFields, kernelClose, kernel
<1>7. ASSUME NEW t \in Transports, EnableBroadcast(t) PROVE TypeOK'
  <2>1. mayBroadcast' \subseteq open'
    BY <1>7 DEF EnableBroadcast, Inv, SocketsOwned, BoundHasSocket
  <2>2. QED
    BY <1>7, <2>1 DEF EnableBroadcast
<1>8. ASSUME NEW t \in Transports, EnableMulticast(t) PROVE TypeOK'
  <2>1. PICK group \in Groups :
          /\ joined' = [joined EXCEPT ![socket_fd[t]] = leaveGroup(t) \cup {group}]
          /\ multicast_group' = [multicast_group EXCEPT ![t] = group]
    BY <1>8 DEF EnableMulticast
  <2>2. socket_fd[t] \in Sockets
    BY <1>8 DEF EnableMulticast, Inv, BoundHasSocket
  <2>3. leaveGroup(t) \subseteq Groups
    BY <2>2 DEF leaveGroup
  <2>4. joined' \in [Sockets -> SUBSET Groups]
    BY <2>1, <2>2, <2>3
  <2>5. QED
    BY <1>8, <2>1, <2>4 DEF EnableMulticast
<1>9. ASSUME NEW t \in Transports, EnableMulticastFails(t) PROVE TypeOK'
  BY <1>9 DEF EnableMulticastFails, leaveGroup, fields
<1>10. ASSUME NEW t \in Transports, NEW u \in Transports, MoveConstruct(t, u) PROVE TypeOK'
  BY <1>10 DEF MoveConstruct, takeFields, kernel
<1>11. ASSUME NEW t \in Transports, NEW u \in Transports, MoveAssign(t, u) PROVE TypeOK'
  BY <1>11 DEF MoveAssign, takeFields, kernelClose, kernel
<1>12. CASE UNCHANGED vars
  BY <1>12 DEF vars, fields, kernel
<1>13. QED
  BY <1>1, <1>2, <1>3, <1>4, <1>5, <1>6, <1>7, <1>8, <1>9, <1>10, <1>11, <1>12, NextCases

(***************************************************************************)
(* Sockets: an operation gives an object a fresh socket, takes its socket  *)
(* away and closes it, hands it over, or leaves it alone.                  *)
(***************************************************************************)
Ownership == SocketsOwned /\ BoundHasSocket /\ ClosedIsClean

\* Every operation keeps the ownership of sockets.
LEMMA StepOwnership == Inv /\ [Next]_vars => Ownership'
<1> SUFFICES ASSUME Inv, [Next]_vars PROVE Ownership'
  OBVIOUS
<1>0. TypeOK /\ SocketsOwned /\ BoundHasSocket /\ ClosedIsClean
  BY DEF Inv
<1> USE <1>0 DEF TypeOK, SocketsOwned, BoundHasSocket, ClosedIsClean, Ownership
<1>1. ASSUME NEW t \in Transports, Construct(t) PROVE Ownership'
  BY <1>1 DEF Construct, kernel
<1>2. ASSUME NEW t \in Transports, Bind(t) PROVE Ownership'
  <2>1. PICK f \in Sockets \ open :
          /\ socket_fd' = [socket_fd EXCEPT ![t] = f]
          /\ open' = open \cup {f}
    BY <1>2 DEF Bind
  <2>2. t \in alive /\ socket_fd[t] = NoSocket /\ alive' = alive /\ joined' = joined
    BY <1>2 DEF Bind
  <2>3. is_bound' = [is_bound EXCEPT ![t] = TRUE]
    BY <1>2 DEF Bind
  <2>4. f # NoSocket
    BY TransportAssumption
  <2>5. SocketsOwned'
    BY <2>1, <2>2, <2>4
  <2>6. BoundHasSocket'
    BY <2>1, <2>2, <2>3, <2>4
  <2>7. QED
    BY <2>1, <2>2, <2>5, <2>6
<1>3. ASSUME NEW t \in Transports, BindFails(t) PROVE Ownership'
  BY <1>3 DEF BindFails, kernel
<1>4. ASSUME NEW t \in Transports, Close(t) PROVE Ownership'
  BY <1>4 DEF Close, closeFields, kernelClose
<1>5. ASSUME NEW t \in Transports, CloseWithoutSocket(t) PROVE Ownership'
  BY <1>5 DEF CloseWithoutSocket, closeFields, kernel
<1>6. ASSUME NEW t \in Transports, Destroy(t) PROVE Ownership'
  BY <1>6 DEF Destroy, closeFields, kernelClose, kernel
<1>7. ASSUME NEW t \in Transports, EnableBroadcast(t) PROVE Ownership'
  BY <1>7 DEF EnableBroadcast
<1>8. ASSUME NEW t \in Transports, EnableMulticast(t) PROVE Ownership'
  <2>1. socket_fd[t] \in open
    BY <1>8 DEF EnableMulticast
  <2>2. \A f \in Sockets \ open : joined'[f] = joined[f]
    BY <1>8, <2>1 DEF EnableMulticast
  <2>3. QED
    BY <1>8, <2>2 DEF EnableMulticast
<1>9. ASSUME NEW t \in Transports, EnableMulticastFails(t) PROVE Ownership'
  BY <1>9 DEF EnableMulticastFails, leaveGroup, fields
<1>10. ASSUME NEW t \in Transports, NEW u \in Transports, MoveConstruct(t, u)
       PROVE  Ownership'
  BY <1>10 DEF MoveConstruct, takeFields, kernel
<1>11. ASSUME NEW t \in Transports, NEW u \in Transports, MoveAssign(t, u)
       PROVE  Ownership'
  BY <1>11 DEF MoveAssign, takeFields, kernelClose, kernel
<1>12. CASE UNCHANGED vars
  BY <1>12 DEF vars, fields, kernel
<1>13. QED
  BY <1>1, <1>2, <1>3, <1>4, <1>5, <1>6, <1>7, <1>8, <1>9, <1>10, <1>11, <1>12, NextCases

\* Every operation keeps track of the group that a socket is a member of.
LEMMA StepMembership == Inv /\ [Next]_vars => MembershipTracked'
<1> SUFFICES ASSUME Inv, [Next]_vars PROVE MembershipTracked'
  OBVIOUS
<1>0. TypeOK /\ SocketsOwned /\ BoundHasSocket /\ ClosedIsClean /\ MembershipTracked
  BY DEF Inv
<1> USE <1>0 DEF TypeOK, SocketsOwned, BoundHasSocket, MembershipTracked
<1>1. ASSUME NEW t \in Transports, Construct(t) PROVE MembershipTracked'
  BY <1>1 DEF Construct, kernel
<1>2. ASSUME NEW t \in Transports, Bind(t) PROVE MembershipTracked'
  <2>1. PICK f \in Sockets \ open :
          /\ socket_fd' = [socket_fd EXCEPT ![t] = f]
          /\ open' = open \cup {f}
    BY <1>2 DEF Bind
  <2>2. joined[f] = {}
    BY DEF ClosedIsClean
  <2>3. QED
    BY <1>2, <2>1, <2>2 DEF Bind
<1>3. ASSUME NEW t \in Transports, BindFails(t) PROVE MembershipTracked'
  BY <1>3 DEF BindFails, kernel
<1>4. ASSUME NEW t \in Transports, Close(t) PROVE MembershipTracked'
  BY <1>4 DEF Close, closeFields, kernelClose
<1>5. ASSUME NEW t \in Transports, CloseWithoutSocket(t) PROVE MembershipTracked'
  BY <1>5 DEF CloseWithoutSocket, closeFields, kernel
<1>6. ASSUME NEW t \in Transports, Destroy(t) PROVE MembershipTracked'
  BY <1>6 DEF Destroy, closeFields, kernelClose, kernel
<1>7. ASSUME NEW t \in Transports, EnableBroadcast(t) PROVE MembershipTracked'
  BY <1>7 DEF EnableBroadcast
<1>8. ASSUME NEW t \in Transports, EnableMulticast(t) PROVE MembershipTracked'
  <2>1. PICK group \in Groups :
          /\ joined' = [joined EXCEPT ![socket_fd[t]] = leaveGroup(t) \cup {group}]
          /\ multicast_group' = [multicast_group EXCEPT ![t] = group]
    BY <1>8 DEF EnableMulticast
  <2>2. leaveGroup(t) = {}
    BY <1>8 DEF EnableMulticast, leaveGroup
  <2>3. QED
    BY <1>8, <2>1, <2>2 DEF EnableMulticast
<1>9. ASSUME NEW t \in Transports, EnableMulticastFails(t) PROVE MembershipTracked'
  <2>1. leaveGroup(t) = {}
    BY <1>9 DEF EnableMulticastFails, leaveGroup
  <2>2. QED
    BY <1>9, <2>1 DEF EnableMulticastFails, fields
<1>10. ASSUME NEW t \in Transports, NEW u \in Transports, MoveConstruct(t, u)
       PROVE  MembershipTracked'
  BY <1>10 DEF MoveConstruct, takeFields, kernel
<1>11. ASSUME NEW t \in Transports, NEW u \in Transports, MoveAssign(t, u)
       PROVE  MembershipTracked'
  BY <1>11 DEF MoveAssign, takeFields, kernelClose, kernel
<1>12. CASE UNCHANGED vars
  BY <1>12 DEF vars, fields, kernel
<1>13. QED
  BY <1>1, <1>2, <1>3, <1>4, <1>5, <1>6, <1>7, <1>8, <1>9, <1>10, <1>11, <1>12, NextCases

\* The invariant is inductive.
LEMMA StepInv == Inv /\ [Next]_vars => Inv'
  BY StepType, StepOwnership, StepMembership DEF Inv, Ownership

\* Every field keeps its type, whatever is moved, rebound or refused.
THEOREM TypeCorrect == Spec => []TypeOK
<1>1. Inv => TypeOK
  BY DEF Inv
<1>2. QED
  BY <1>1, InitInv, StepInv, PTL DEF Spec

\* Every open socket has exactly one owner and no object names a closed one,
\* through every failure of bind() and every move (udp_transport.cpp:32-133).
THEOREM OwnersUnique == Spec => []SocketsOwned
<1>1. Inv => SocketsOwned
  BY DEF Inv
<1>2. QED
  BY <1>1, InitInv, StepInv, PTL DEF Spec

\* No socket stays in a group that its transport has forgotten
\* (udp_transport.cpp:257-287).
THEOREM MembershipKnown == Spec => []MembershipTracked
<1>1. Inv => MembershipTracked
  BY DEF Inv
<1>2. QED
  BY <1>1, InitInv, StepInv, PTL DEF Spec

PortInv == Inv /\ PortIsReal

\* A port below 2^16 is the port that the kernel binds.
LEMMA KernelPort ==
  ASSUME PortArguments \subseteq 0..(PortModulus - 1),
         NEW port \in PortArguments, NEW p \in kernelPorts(port)
  PROVE  p = IF port = 0 THEN p ELSE port
<1>1. port \in Nat /\ port < PortModulus
  OBVIOUS
<1>2. port % PortModulus = port
  BY <1>1
<1>3. QED
  BY <1>2 DEF kernelPorts

\* Every operation keeps the port of a bound transport the port of its socket.
LEMMA StepPort ==
  ASSUME PortArguments \subseteq 0..(PortModulus - 1)
  PROVE  PortInv /\ [Next]_vars => PortInv'
<1> SUFFICES ASSUME PortInv, [Next]_vars PROVE PortIsReal'
  BY StepInv DEF PortInv
<1>0. TypeOK /\ SocketsOwned /\ BoundHasSocket /\ PortIsReal
  BY DEF PortInv, Inv
<1> USE <1>0 DEF TypeOK, SocketsOwned, BoundHasSocket, PortIsReal
<1>1. ASSUME NEW t \in Transports, Construct(t) PROVE PortIsReal'
  BY <1>1 DEF Construct, kernel
<1>2. ASSUME NEW t \in Transports, Bind(t) PROVE PortIsReal'
  <2>1. PICK f \in Sockets \ open, port \in PortArguments : \E p \in kernelPorts(port) :
          /\ socket_fd' = [socket_fd EXCEPT ![t] = f]
          /\ local_port' = [local_port EXCEPT ![t] = IF port = 0 THEN p ELSE port]
          /\ boundTo' = [boundTo EXCEPT ![f] = p]
    BY <1>2 DEF Bind
  <2>2. PICK p \in kernelPorts(port) :
          /\ local_port' = [local_port EXCEPT ![t] = IF port = 0 THEN p ELSE port]
          /\ boundTo' = [boundTo EXCEPT ![f] = p]
    BY <2>1
  <2>3. p = IF port = 0 THEN p ELSE port
    BY KernelPort
  <2>4. local_port'[t] = boundTo'[f] /\ socket_fd'[t] = f
    BY <2>1, <2>2, <2>3
  <2>5. \A u \in alive : u # t /\ is_bound[u] => socket_fd[u] # f
    BY <2>1
  <2>6. QED
    BY <1>2, <2>1, <2>2, <2>4, <2>5 DEF Bind
<1>3. ASSUME NEW t \in Transports, BindFails(t) PROVE PortIsReal'
  BY <1>3 DEF BindFails, kernel
<1>4. ASSUME NEW t \in Transports, Close(t) PROVE PortIsReal'
  BY <1>4 DEF Close, closeFields, kernelClose
<1>5. ASSUME NEW t \in Transports, CloseWithoutSocket(t) PROVE PortIsReal'
  BY <1>5 DEF CloseWithoutSocket, closeFields, kernel
<1>6. ASSUME NEW t \in Transports, Destroy(t) PROVE PortIsReal'
  BY <1>6 DEF Destroy, closeFields, kernelClose, kernel
<1>7. ASSUME NEW t \in Transports,
             EnableBroadcast(t) \/ EnableMulticast(t) \/ EnableMulticastFails(t)
      PROVE  PortIsReal'
  BY <1>7 DEF EnableBroadcast, EnableMulticast, EnableMulticastFails, fields
<1>8. ASSUME NEW t \in Transports, NEW u \in Transports, MoveConstruct(t, u)
      PROVE  PortIsReal'
  BY <1>8 DEF MoveConstruct, takeFields, kernel
<1>9. ASSUME NEW t \in Transports, NEW u \in Transports, MoveAssign(t, u)
      PROVE  PortIsReal'
  BY <1>9 DEF MoveAssign, takeFields, kernelClose, kernel
<1>10. CASE UNCHANGED vars
  BY <1>10 DEF vars, fields, kernel
<1>11. QED
  BY <1>1, <1>2, <1>3, <1>4, <1>5, <1>6, <1>7, <1>8, <1>9, <1>10, NextCases

\* As long as bind() is called with ports below 2^16, the port of a bound
\* transport is the port of its socket, wherever the object was moved
\* (udp_transport.cpp:81, 98-109).
THEOREM PortsReal ==
  ASSUME PortArguments \subseteq 0..(PortModulus - 1)
  PROVE  Spec => []PortIsReal
<1>1. Init => PortInv
  BY InitInv DEF Init, PortInv, PortIsReal
<1>2. PortInv => PortIsReal
  BY DEF PortInv
<1>3. PortInv /\ [Next]_vars => PortInv'
  BY StepPort
<1>4. QED
  BY <1>1, <1>2, <1>3, PTL DEF Spec

(***************************************************************************)
(* Objects that no move touches: a bound one is honest about its flag only *)
(* because one that is not bound has no flag that bind() could leave on a  *)
(* fresh socket (FlagOffWhenNotBound).                                     *)
(***************************************************************************)
FlagOffWhenNotBound ==
    \A t \in alive \ Movable : ~is_bound[t] => ~broadcast_enabled[t]

Unmoved == PortZeroWhenNotBound /\ FlagOffWhenNotBound /\ BroadcastFlagHonest
UnmovedInv == Inv /\ Unmoved

\* Every operation keeps the port and the flag of an object not moved honest.
LEMMA StepUnmoved == UnmovedInv /\ [Next]_vars => UnmovedInv'
<1> SUFFICES ASSUME UnmovedInv, [Next]_vars
             PROVE  Unmoved'
  BY StepInv DEF UnmovedInv
<1>0. TypeOK /\ SocketsOwned /\ BoundHasSocket /\ Unmoved
  BY DEF UnmovedInv, Inv
<1> USE <1>0 DEF TypeOK, SocketsOwned, BoundHasSocket, Unmoved, PortZeroWhenNotBound,
        FlagOffWhenNotBound, BroadcastFlagHonest
<1>1. ASSUME NEW t \in Transports, Construct(t) PROVE Unmoved'
  BY <1>1 DEF Construct, kernel
<1>2. ASSUME NEW t \in Transports, Bind(t) PROVE Unmoved'
  <2>1. t \in alive /\ ~is_bound[t] /\ UNCHANGED <<alive, broadcast_enabled, mayBroadcast>>
    BY <1>2 DEF Bind
  <2>2. \A u \in alive : u # t => is_bound'[u] = is_bound[u]
                                /\ local_port'[u] = local_port[u]
                                /\ socket_fd'[u] = socket_fd[u]
    BY <1>2 DEF Bind
  <2>3. is_bound'[t]
    BY <1>2 DEF Bind
  <2>4. t \notin Movable => ~broadcast_enabled[t]
    BY <2>1
  <2>5. QED
    BY <2>1, <2>2, <2>3, <2>4
<1>3. ASSUME NEW t \in Transports, BindFails(t) PROVE Unmoved'
  BY <1>3 DEF BindFails, kernel
<1>4. ASSUME NEW t \in Transports, Close(t) PROVE Unmoved'
  BY <1>4 DEF Close, closeFields, kernelClose
<1>5. ASSUME NEW t \in Transports, CloseWithoutSocket(t) PROVE Unmoved'
  BY <1>5 DEF CloseWithoutSocket, closeFields, kernel
<1>6. ASSUME NEW t \in Transports, Destroy(t) PROVE Unmoved'
  BY <1>6 DEF Destroy, closeFields, kernelClose, kernel
<1>7. ASSUME NEW t \in Transports,
             EnableBroadcast(t) \/ EnableMulticast(t) \/ EnableMulticastFails(t)
      PROVE  Unmoved'
  BY <1>7 DEF EnableBroadcast, EnableMulticast, EnableMulticastFails, fields
<1>8. ASSUME NEW t \in Transports, NEW u \in Transports, MoveConstruct(t, u)
      PROVE  Unmoved'
  BY <1>8 DEF MoveConstruct, takeFields, kernel
<1>9. ASSUME NEW t \in Transports, NEW u \in Transports, MoveAssign(t, u)
      PROVE  Unmoved'
  BY <1>9 DEF MoveAssign, takeFields, kernelClose, kernel
<1>10. CASE UNCHANGED vars
  BY <1>10 DEF vars, fields, kernel
<1>11. QED
  BY <1>1, <1>2, <1>3, <1>4, <1>5, <1>6, <1>7, <1>8, <1>9, <1>10, NextCases

\* An object that no move touches has port 0 whenever it is not bound
\* (udp_transport.cpp:98-133).
THEOREM UnmovedPort == Spec => []PortZeroWhenNotBound
<1>1. Init => UnmovedInv
  BY InitInv DEF Init, UnmovedInv, Unmoved, PortZeroWhenNotBound, FlagOffWhenNotBound,
     BroadcastFlagHonest
<1>2. UnmovedInv => PortZeroWhenNotBound
  BY DEF UnmovedInv, Unmoved
<1>3. QED
  BY <1>1, <1>2, StepUnmoved, PTL DEF Spec

\* Nor does it believe that it may broadcast when its socket may not
\* (udp_transport.cpp:131, 220-237).
THEOREM UnmovedBroadcast == Spec => []BroadcastFlagHonest
<1>1. Init => UnmovedInv
  BY InitInv DEF Init, UnmovedInv, Unmoved, PortZeroWhenNotBound, FlagOffWhenNotBound,
     BroadcastFlagHonest
<1>2. UnmovedInv => BroadcastFlagHonest
  BY DEF UnmovedInv, Unmoved
<1>3. QED
  BY <1>1, <1>2, StepUnmoved, PTL DEF Spec

\* With ports of 16 bits, what a transport says of its socket is true
\* (udp_transport.cpp:81, 98-133, 230-237).
THEOREM TransportsHonest ==
  ASSUME PortArguments \subseteq 0..(PortModulus - 1)
  PROVE  Spec => []FieldsHonest
<1>1. PortIsReal /\ PortZeroWhenNotBound /\ BroadcastFlagHonest => FieldsHonest
  BY DEF FieldsHonest
<1>2. QED
  BY <1>1, PortsReal, UnmovedPort, UnmovedBroadcast, PTL
=============================================================================
