--------------------------- MODULE TopicMatchLoop ---------------------------
(***************************************************************************)
(* The body of UACPAgent::topicMatches (src/src/agent.cpp:508-540): the    *)
(* tests before the loop, then one action per branch of the loop.          *)
(***************************************************************************)
EXTENDS TopicMatch

CONSTANTS Levels,    \* the pieces topics and patterns are made of
          Strings    \* the topics and patterns; an empty string is one empty piece

ASSUME StringsAssumption == Strings \subseteq Seq(Levels) \ {<<>>}

VARIABLES pattern, topic,   \* the arguments
          pos,              \* the indices p and t, which are equal, from 1
          answer            \* "open" until the function returns

vars == <<pattern, topic, pos, answer>>

pattern_parts == splitString(pattern)
topic_parts == splitString(topic)

InLoop == pos <= Len(pattern_parts) /\ pos <= Len(topic_parts)

Return(yes) ==
    /\ answer' = IF yes THEN "yes" ELSE "no"
    /\ UNCHANGED <<pattern, topic, pos>>

\* The test before the loop: equal strings, or the pattern that is a lone #.
Call ==
    /\ pattern \in Strings /\ topic \in Strings
    /\ pos = 1
    /\ answer = IF pattern = topic \/ pattern = <<"#">> THEN "yes" ELSE "open"

Hash ==
    /\ answer = "open" /\ InLoop
    /\ pattern_parts[pos] = "#"
    /\ Return(TRUE)

\* Mutant: a level that matches does not move the indices.
Bug_AdvanceForgotten ==
    /\ answer = "open" /\ InLoop
    /\ pattern_parts[pos] # "#"
    /\ pattern_parts[pos] \in {"*", topic_parts[pos]}
    /\ UNCHANGED vars

\* Mutant: * and an equal level each move the indices, with "if" in the
\* place of "||": two equal stars move them twice.
Bug_AdvanceTwice ==
    /\ answer = "open" /\ InLoop
    /\ pattern_parts[pos] # "#"
    /\ pattern_parts[pos] \in {"*", topic_parts[pos]}
    /\ pos' = pos + IF pattern_parts[pos] = "*" /\ topic_parts[pos] = "*" THEN 2 ELSE 1
    /\ UNCHANGED <<pattern, topic, answer>>

Advance ==
    /\ answer = "open" /\ InLoop
    /\ pattern_parts[pos] # "#"
    /\ pattern_parts[pos] \in {"*", topic_parts[pos]}
    /\ pos' = pos + 1
    /\ UNCHANGED <<pattern, topic, answer>>

\* Mutant: * is compared like any other level.
Bug_MismatchStar ==
    /\ answer = "open" /\ InLoop
    /\ pattern_parts[pos] \notin {"#", topic_parts[pos]}
    /\ Return(FALSE)

Mismatch ==
    /\ answer = "open" /\ InLoop
    /\ pattern_parts[pos] \notin {"#", "*", topic_parts[pos]}
    /\ Return(FALSE)

Done ==
    /\ answer = "open" /\ ~InLoop
    /\ Return(pos = Len(pattern_parts) + 1 /\ pos = Len(topic_parts) + 1)

Next == Hash \/ Advance \/ Mismatch \/ Done

Spec == Call /\ [][Next]_vars

\* The function runs on its caller's thread, without waiting for anyone.
FairSpec == Spec /\ WF_vars(Next)

-----------------------------------------------------------------------------
(* Properties *)

\* The indices never pass the end of the shorter sequence, so that the test
\* for equality with the sizes after the loop is right (agent.cpp:528, 539).
TypeOK ==
    /\ pattern \in Strings /\ topic \in Strings
    /\ pos \in 1..(Len(pattern_parts) + 1) /\ pos <= Len(topic_parts) + 1
    /\ answer \in {"open", "yes", "no"}

\* Whatever path the loop takes, its answer is the one the closed form
\* topicMatches of TopicMatch gives (agent.cpp:527-539).
AnswerIsMatch ==
    answer # "open" => (answer = "yes" <=> topicMatches(pattern, topic))

\* A pattern without wildcards matches only the topic itself, up to one
\* slash at its end (agent.cpp:509, 527-539).
ExactWithoutWildcards ==
    (\A i \in 1..Len(pattern) : pattern[i] \notin {"#", "*"}) /\ answer = "yes"
        => pattern_parts = topic_parts

\* The function returns for every pattern and topic (agent.cpp:528-537).
Returns == <>(answer # "open")
=============================================================================
