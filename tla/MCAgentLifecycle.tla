------------------------- MODULE MCAgentLifecycle -------------------------
(* Model values for AgentLifecycle: user threads and receiver threads.     *)
EXTENDS AgentLifecycle

CONSTANTS c1, c2, r1, r2, r3

OneCaller == {c1}
TwoCallers == {c1, c2}
ThreeReceivers == {r1, r2, r3}
TwoPorts == {50000, 50001}
=============================================================================
