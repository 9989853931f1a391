--------------------------- MODULE AgentResources ---------------------------
(***************************************************************************)
(* What the lifecycle of an agent promises about its two resources, the    *)
(* transport's socket and the receiver thread: the thread is created after *)
(* the socket is opened and joined before the socket is closed, so that no *)
(* receiver ever runs over a closed socket.  AgentLifecycle implements it. *)
(***************************************************************************)

VARIABLES socket,   \* the transport holds an open, bound socket
          worker    \* the agent owns a receiver thread it has not joined

OpenSocket ==
    /\ ~socket /\ ~worker
    /\ socket' = TRUE
    /\ UNCHANGED worker

CreateWorker ==
    /\ socket /\ ~worker
    /\ worker' = TRUE
    /\ UNCHANGED socket

JoinWorker ==
    /\ worker
    /\ worker' = FALSE
    /\ UNCHANGED socket

CloseSocket ==
    /\ socket /\ ~worker
    /\ socket' = FALSE
    /\ UNCHANGED worker

Init == socket = FALSE /\ worker = FALSE

Next == OpenSocket \/ CreateWorker \/ JoinWorker \/ CloseSocket

Spec == Init /\ [][Next]_<<socket, worker>>
=============================================================================
