----------------------- MODULE TopicMatchLoop_proofs -----------------------
(***************************************************************************)
(* The loop of topicMatches answers what its closed form says, for every   *)
(* pattern and every topic.                                                *)
(***************************************************************************)
EXTENDS TopicMatchLoop, SequenceTheorems, TLAPS

\* While the loop runs, the levels before pos agree and none of them is #.
LoopInv ==
    /\ TypeOK
    /\ answer = "open" =>
        /\ pattern # topic /\ pattern # <<"#">>
        /\ Agree(pattern_parts, topic_parts, pos - 1)
        /\ \A i \in 1..(pos - 1) : pattern_parts[i] # "#"
    /\ AnswerIsMatch

\* splitString keeps a sequence or drops its last element (agent.cpp:514-522).
LEMMA SplitType ==
  ASSUME NEW s \in Strings
  PROVE  splitString(s) \in Seq(Levels)
<1>1. s \in Seq(Levels) /\ Len(s) \in Nat /\ \A i \in 1..Len(s) : s[i] \in Levels
  BY StringsAssumption
<1>2. SubSeq(s, 1, Len(s) - 1) \in Seq(Levels)
  <2>1. \A i \in 1..(Len(s) - 1) : s[i] \in Levels
    BY <1>1
  <2>2. Len(s) - 1 \in Int
    BY <1>1
  <2>3. QED
    BY <2>1, <2>2, SubSeqProperties
<1>3. QED
  BY <1>1, <1>2 DEF splitString

\* A call starts with no level compared (agent.cpp:508-526).
LEMMA LoopInit == Call => LoopInv
<1> SUFFICES ASSUME Call PROVE LoopInv
  OBVIOUS
<1>1. pattern_parts \in Seq(Levels) /\ topic_parts \in Seq(Levels)
  BY SplitType DEF Call, pattern_parts, topic_parts
<1>2. Len(pattern_parts) \in Nat /\ Len(topic_parts) \in Nat
  BY <1>1
<1>3. QED
  BY <1>2 DEF Call, LoopInv, TypeOK, AnswerIsMatch, topicMatches, Agree

\* Every branch of the loop keeps what the levels seen so far say, and the
\* branches that return give the closed form's answer (agent.cpp:527-539).
LEMMA LoopStep == LoopInv /\ [Next]_vars => LoopInv'
<1> SUFFICES ASSUME LoopInv, [Next]_vars PROVE LoopInv'
  OBVIOUS
<1>t. pattern_parts \in Seq(Levels) /\ topic_parts \in Seq(Levels)
  BY SplitType DEF LoopInv, TypeOK, pattern_parts, topic_parts
<1>l. Len(pattern_parts) \in Nat /\ Len(topic_parts) \in Nat
  BY <1>t
<1>m. topicMatches(pattern, topic) <=>
        \/ pattern = topic
        \/ pattern = <<"#">>
        \/ Len(pattern_parts) = Len(topic_parts)
             /\ Agree(pattern_parts, topic_parts, Len(pattern_parts))
        \/ \E i \in 1..Len(pattern_parts) :
             /\ i <= Len(topic_parts) /\ pattern_parts[i] = "#"
             /\ Agree(pattern_parts, topic_parts, i - 1)
  BY DEF topicMatches, pattern_parts, topic_parts
<1>1. CASE Hash
  <2>1. topicMatches(pattern, topic)
    <3>1. pos \in 1..Len(pattern_parts) /\ pos <= Len(topic_parts)
      BY <1>1, <1>l DEF Hash, InLoop, LoopInv, TypeOK
    <3>2. QED
      BY <1>1, <1>m, <3>1 DEF Hash, LoopInv
  <2>2. topicMatches(pattern, topic)'
    BY <1>1, <2>1 DEF Hash, Return, topicMatches
  <2>3. QED
    BY <1>1, <2>2 DEF Hash, Return, LoopInv, TypeOK, AnswerIsMatch, pattern_parts, topic_parts
<1>2. CASE Advance
  <2>1. /\ pattern' = pattern /\ topic' = topic /\ answer' = answer
        /\ pos' = pos + 1 /\ answer = "open" /\ pos \in Nat \ {0}
        /\ pattern_parts' = pattern_parts /\ topic_parts' = topic_parts
    BY <1>2 DEF Advance, LoopInv, TypeOK, pattern_parts, topic_parts
  <2>2. Agree(pattern_parts, topic_parts, pos)
    BY <1>2, <2>1 DEF Advance, LoopInv, Agree
  <2>3. pos <= Len(pattern_parts) /\ pos <= Len(topic_parts)
    BY <1>2 DEF Advance, InLoop
  <2>4. Agree(pattern_parts, topic_parts, pos - 1)'
    BY <2>1, <2>2 DEF Agree
  <2>5. \A i \in 1..pos : pattern_parts[i] # "#"
    BY <1>2, <2>1 DEF Advance, LoopInv
  <2>6. QED
    BY <1>l, <2>1, <2>3, <2>4, <2>5 DEF LoopInv, TypeOK, AnswerIsMatch
<1>3. CASE Mismatch
  <2>1. pos \in 1..Len(pattern_parts) /\ pos \in 1..Len(topic_parts)
    BY <1>3, <1>l DEF Mismatch, InLoop, LoopInv, TypeOK
  <2>2. ~Agree(pattern_parts, topic_parts, Len(pattern_parts))
    BY <1>3, <1>l, <2>1 DEF Mismatch, Agree
  <2>3. ASSUME NEW i \in 1..Len(pattern_parts), pattern_parts[i] = "#",
               Agree(pattern_parts, topic_parts, i - 1)
        PROVE  FALSE
    <3>1. CASE i < pos
      BY <1>3, <1>l, <2>1, <2>3, <3>1 DEF Mismatch, LoopInv
    <3>2. CASE i = pos
      BY <1>3, <2>3, <3>2 DEF Mismatch
    <3>3. CASE i > pos
      BY <1>3, <1>l, <2>1, <2>3, <3>3 DEF Mismatch, Agree
    <3>4. QED
      BY <1>l, <2>1, <3>1, <3>2, <3>3
  <2>4. ~topicMatches(pattern, topic)
    BY <1>3, <1>m, <2>2, <2>3 DEF Mismatch, LoopInv
  <2>5. ~topicMatches(pattern, topic)'
    BY <1>3, <2>4 DEF Mismatch, Return, topicMatches
  <2>6. QED
    BY <1>3, <2>5 DEF Mismatch, Return, LoopInv, TypeOK, AnswerIsMatch, pattern_parts, topic_parts
<1>4. CASE Done
  <2> DEFINE both == pos = Len(pattern_parts) + 1 /\ pos = Len(topic_parts) + 1
  <2>1. both => Len(pattern_parts) = Len(topic_parts) /\ pos - 1 = Len(pattern_parts)
    BY <1>4, <1>l DEF Done, LoopInv, TypeOK
  <2>2. both => topicMatches(pattern, topic)
    BY <1>4, <1>m, <2>1 DEF Done, LoopInv
  <2>3. ~both => Len(pattern_parts) # Len(topic_parts)
    BY <1>4, <1>l DEF Done, InLoop, LoopInv, TypeOK
  <2>4. ASSUME NEW i \in 1..Len(pattern_parts), i <= Len(topic_parts),
               pattern_parts[i] = "#"
        PROVE  FALSE
    BY <1>4, <1>l, <2>4 DEF Done, InLoop, LoopInv, TypeOK
  <2>5. topicMatches(pattern, topic) <=> both
    BY <1>4, <1>m, <2>2, <2>3, <2>4 DEF Done, LoopInv
  <2>6. topicMatches(pattern, topic)' <=> topicMatches(pattern, topic)
    BY <1>4 DEF Done, Return, topicMatches
  <2>7. QED
    BY <1>4, <2>5, <2>6 DEF Done, Return, LoopInv, TypeOK, AnswerIsMatch, pattern_parts, topic_parts
<1>5. CASE UNCHANGED vars
  BY <1>5 DEF vars, LoopInv, TypeOK, AnswerIsMatch, pattern_parts, topic_parts
<1>6. QED
  BY <1>1, <1>2, <1>3, <1>4, <1>5 DEF Next

\* For strings of any length, the indices stay within both sequences or one
\* past the end of the shorter (agent.cpp:528-540).
THEOREM TypeCorrect == Spec => []TypeOK
<1>1. LoopInv => TypeOK
  BY DEF LoopInv
<1>2. QED
  BY <1>1, LoopInit, LoopStep, PTL DEF Spec

\* For every pattern and topic, the loop's answer is the closed form's
\* (agent.cpp:508-540).
THEOREM LoopAnswers == Spec => []AnswerIsMatch
<1>1. LoopInv => AnswerIsMatch
  BY DEF LoopInv
<1>2. QED
  BY <1>1, LoopInit, LoopStep, PTL DEF Spec

(***************************************************************************)
(* A pattern that holds no wildcard matches only the topic whose levels it *)
(* names (agent.cpp:527-539).                                              *)
(***************************************************************************)
THEOREM OnlyWildcardsWiden == Spec => []ExactWithoutWildcards
<1>1. LoopInv => ExactWithoutWildcards
  <2> SUFFICES ASSUME LoopInv, answer = "yes",
                      \A i \in 1..Len(pattern) : pattern[i] \notin {"#", "*"}
               PROVE  pattern_parts = topic_parts
    BY DEF ExactWithoutWildcards
  <2>t. /\ pattern_parts \in Seq(Levels) /\ topic_parts \in Seq(Levels)
        /\ pattern \in Seq(Levels) /\ pattern # <<>>
    BY SplitType, StringsAssumption DEF LoopInv, TypeOK, pattern_parts, topic_parts
  <2>1. topicMatches(pattern, topic)
    BY DEF LoopInv, AnswerIsMatch
  <2>exact. \A i \in 1..Len(pattern_parts) : pattern_parts[i] \notin {"#", "*"}
    <3>1. Len(pattern) \in Nat \ {0} /\ Len(pattern) - 1 \in Int
      BY <2>t, EmptySeq
    <3>2. CASE pattern[Len(pattern)] = ""
      <4>1. pattern_parts = SubSeq(pattern, 1, Len(pattern) - 1)
        BY <3>2 DEF pattern_parts, splitString
      <4>2. \A i \in 1..(Len(pattern) - 1) : pattern[i] \in Levels
        BY <2>t, <3>1
      <4>3. /\ Len(pattern_parts) = IF 1 <= Len(pattern) - 1 THEN Len(pattern) - 1 - 1 + 1 ELSE 0
            /\ \A i \in 1..(Len(pattern) - 1 - 1 + 1) : pattern_parts[i] = pattern[1 + i - 1]
        BY <3>1, <4>1, <4>2, SubSeqProperties
      <4>4. QED
        BY <3>1, <4>3
    <3>3. CASE pattern[Len(pattern)] # ""
      BY <3>3 DEF pattern_parts, splitString
    <3>4. QED
      BY <3>2, <3>3
  <2>3. CASE pattern = topic
    BY <2>3 DEF pattern_parts, topic_parts
  <2>4. CASE pattern = <<"#">>
    BY <2>4
  <2>5. CASE /\ Len(pattern_parts) = Len(topic_parts)
             /\ Agree(pattern_parts, topic_parts, Len(pattern_parts))
    BY <2>exact, <2>5, <2>t DEF Agree
  <2>6. QED
    BY <2>1, <2>exact, <2>3, <2>4, <2>5 DEF topicMatches, pattern_parts, topic_parts
<1> QED
  BY <1>1, LoopInit, LoopStep, PTL DEF Spec
-----------------------------------------------------------------------------
(* The loop ends *)

\* The most steps that an open loop can still take.
StepsLeft == IF answer = "open" THEN Len(pattern_parts) + 2 - pos ELSE 0

(***************************************************************************)
(* The function returns, for strings of any length: every step of the loop *)
(* lowers a number that is positive as long as no answer is there          *)
(* (agent.cpp:528-537).  That a step is taken is what Returns assumes.     *)
(***************************************************************************)
THEOREM LoopShrinks ==
    Spec => /\ [](StepsLeft \in Nat /\ (answer = "open" => StepsLeft > 0))
            /\ [][StepsLeft' < StepsLeft]_vars
<1> DEFINE Bounded == StepsLeft \in Nat /\ (answer = "open" => StepsLeft > 0)
<1>1. ASSUME LoopInv
      PROVE  /\ Len(pattern_parts) \in Nat /\ pos \in Nat /\ answer \in {"open", "yes", "no"}
             /\ answer = "open" => pos <= Len(pattern_parts) + 1
  <2>1. pattern_parts \in Seq(Levels)
    BY <1>1, SplitType DEF LoopInv, TypeOK, pattern_parts
  <2>2. QED
    BY <1>1, <2>1 DEF LoopInv, TypeOK
<1>2. LoopInv => Bounded
  BY <1>1 DEF StepsLeft
<1>3. LoopInv /\ [Next]_vars => [StepsLeft' < StepsLeft]_vars
  <2> SUFFICES ASSUME LoopInv, Next PROVE StepsLeft' < StepsLeft
    OBVIOUS
  <2>1. answer = "open" /\ pattern' = pattern
    BY DEF Next, Hash, Advance, Mismatch, Done, Return
  <2>2. Len(pattern_parts)' = Len(pattern_parts)
    BY <2>1 DEF pattern_parts
  <2>3. CASE Advance
    BY <1>1, <2>1, <2>2, <2>3 DEF Advance, StepsLeft
  <2>4. CASE Hash \/ Mismatch \/ Done
    <3>1. answer' # "open"
      BY <2>4 DEF Hash, Mismatch, Done, Return
    <3>2. QED
      BY <1>1, <2>1, <3>1 DEF StepsLeft
  <2>5. QED
    BY <2>3, <2>4 DEF Next
<1>4. QED
  BY <1>2, <1>3, LoopInit, LoopStep, PTL DEF Spec
=============================================================================
