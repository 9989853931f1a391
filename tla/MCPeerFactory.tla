--------------------------- MODULE MCPeerFactory ---------------------------
(* Two stations for model checking PeerFactory.                            *)
EXTENDS PeerFactory

TwoStations == <<"robot", "warehouse">>
=============================================================================
