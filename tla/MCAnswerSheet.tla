--------------------------- MODULE MCAnswerSheet ---------------------------
(* A bank of five questions, so that three right answers are exactly 60%. *)
EXTENDS AnswerSheet

MCBank ==
  [q1 |-> [type |-> Single, topic |-> "t1", subject |-> "s1", correct |-> <<"a">>],
   q2 |-> [type |-> Multi, topic |-> "t1", subject |-> "s2", correct |-> <<"b", "a">>],
   q3 |-> [type |-> TrueOrFalse, topic |-> "t1", subject |-> "s3", correct |-> <<"true">>],
   q4 |-> [type |-> TrueOrFalse, topic |-> "t2", subject |-> "s4", correct |-> <<"false">>],
   q5 |-> [type |-> Single, topic |-> "t2", subject |-> "s5", correct |-> <<"b">>]]

MCTrueSpellings == {"true", "TRUE"}

\* The last one: the rows of the questions ended before the first.
MCSheets == {{"q1", "q2", "q3", "q4", "q5"}, {"q1", "q2", "q3"}, {"q2"}, {}}

MCSelections ==
  {<<>>, <<"a">>, <<"b">>, <<"a", "b">>, <<"b", "b">>, <<"a", "b", "b">>, <<"TRUE">>}
=============================================================================
