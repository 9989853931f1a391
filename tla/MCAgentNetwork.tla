--------------------------- MODULE MCAgentNetwork ---------------------------
(* Agents, topics and handlers for model checking AgentNetwork.            *)
EXTENDS AgentNetwork, TLC

CONSTANTS a1, a2

TwoAgents == {a1, a2}
Symmetry == Permutations(Agents)

TopicA == <<"a">>
TopicAB == <<"a", "b">>
Star == <<"a", "*">>

OneTopic == {TopicAB}
TwoPatterns == {TopicA, Star}
OnePattern == {Star}
StarThenExact == <<Star, TopicAB>>
NoPatterns == <<>>
NoHandlings == {}
SomeVerbHandlings == {<<"TELL", "silent">>, <<"ASK", "throw">>}
SomeTopicHandlings == {<<1, "reply">>}
=============================================================================
