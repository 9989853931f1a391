--------------------------- MODULE MCUdpTransport ---------------------------
(* Transports and sockets for model checking UdpTransport.                 *)
EXTENDS UdpTransport, TLC

\* The objects that moves touch are interchangeable, and so are the others.
Symmetry ==
    Permutations(Movable) \cup Permutations(Sockets) \cup Permutations(Groups)
=============================================================================
