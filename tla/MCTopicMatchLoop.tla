-------------------------- MODULE MCTopicMatchLoop --------------------------
(* Patterns and topics of one to MaxLevels levels for TopicMatchLoop.      *)
EXTENDS TopicMatchLoop

CONSTANT MaxLevels

Pieces == {"#", "*", "", "a", "b"}
ShortStrings == UNION {[1..n -> Levels] : n \in 1..MaxLevels}
=============================================================================
