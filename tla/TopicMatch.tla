----------------------------- MODULE TopicMatch -----------------------------
(***************************************************************************)
(* What UACPAgent::topicMatches (src/src/agent.cpp:508-540) answers: does  *)
(* a topic match a pattern with the wildcards * (one level) and # (all     *)
(* that is left)?  TopicMatchLoop is the function's loop, which is shown   *)
(* to answer exactly this.                                                 *)
(*                                                                         *)
(* A topic or a pattern is the sequence of the pieces of its string        *)
(* between slashes: "a/b" is <<"a", "b">>, "a/" is <<"a", "">>.            *)
(***************************************************************************)
EXTENDS Integers, Sequences

\* std::getline yields no last token when nothing follows the last slash.
splitString(string) ==
    IF string[Len(string)] = ""
    THEN SubSeq(string, 1, Len(string) - 1)
    ELSE string

\* The two sequences agree on their first n levels, up to *.
Agree(ps, ts, n) == \A i \in 1..n : ps[i] = "*" \/ ps[i] = ts[i]

(***************************************************************************)
(* The two indices p and t of the loop always move together, so a pattern  *)
(* matches when it agrees with the topic to the end of both, or up to a #  *)
(* that still has a level of the topic to stand for.                       *)
(***************************************************************************)
topicMatches(pattern, topic) ==
    \/ pattern = topic
    \/ pattern = <<"#">>
    \/ LET ps == splitString(pattern)
           ts == splitString(topic)
       IN  \/ Len(ps) = Len(ts) /\ Agree(ps, ts, Len(ps))
           \/ \E i \in 1..Len(ps) :
                i <= Len(ts) /\ ps[i] = "#" /\ Agree(ps, ts, i - 1)
=============================================================================
