------------------------- MODULE MCQuestionService -------------------------
EXTENDS QuestionService, TLC

CONSTANTS r1, r2, r3

MCBank ==
  [q1 |-> [type |-> Single, topic |-> "t1", subject |-> "s1", correct |-> <<"a">>],
   q2 |-> [type |-> Single, topic |-> "t2", subject |-> "s2", correct |-> <<"a">>]]

MCTrueSpellings == {"true"}

\* "t3" is a topic the table does not hold.
MCTopics == {"t1", "t2"}
MCTopicChoices == {{"t1"}, {"t1", "t2"}, {"t3"}}

\* Right for "q1", and foreign to a session that holds "q2" alone or was read
\* without "q1".
MCSubmissions == {<<[id |-> "q1", sel |-> <<"a">>]>>}

\* Also no answers at all, perhaps to a session that was read without questions.
MCSubmissionsOrNone == MCSubmissions \cup {<<>>}

\* At the start, and at and after the limit in effect, ten thousand minutes; the
\* last two are readings of the same day.
MCInstants == {0, 10000, 10001}

\* At the start, and after the documented limit of ten minutes.
MCShortInstants == {0, 11}

MCOneTopic == {{"t1"}}

RequestSymmetry == Permutations(Requests)
=============================================================================
