------------------------------ MODULE Grading ------------------------------
(***************************************************************************)
(* How one list of answers is graded: the three question types and         *)
(* CompletedSessionState.processingResult (question/internal/entities).    *)
(*                                                                         *)
(* A question is a record of the question bank; a user's answer is a       *)
(* question id with the sequence of options the user selected.  Options    *)
(* are opaque values; the texts strings.ToLower maps to "true" are the     *)
(* members of TrueSpellings.                                               *)
(***************************************************************************)
EXTENDS Integers, Sequences, FiniteSets

CONSTANTS
  Bank,           \* question id -> [type, topic, subject, correct]
  TrueSpellings   \* the options whose lower-case form is "true"

Single == "single selection"
Multi == "multi selection"
TrueOrFalse == "true or false"

\* The passing border, in percent of the session's questions.
DefaultBorderResult == 60

QuestionIds == DOMAIN Bank

(* What QuestionFactory.NewQuestion accepts of a row of kvs.questions. *)
NewQuestionAccepts(q) ==
  \/ q.type = Single /\ Len(q.correct) = 1
  \/ q.type = Multi /\ Len(q.correct) >= 1
  \/ q.type = TrueOrFalse /\ Len(q.correct) = 1

ASSUME BankAssumption ==
  /\ IsFiniteSet(QuestionIds)
  /\ \A id \in QuestionIds : NewQuestionAccepts(Bank[id])

-----------------------------------------------------------------------------
(* IsAnswerCorrect, one operator per question type. *)

Occurrences(o, s) == Cardinality({i \in DOMAIN s : s[i] = o})

SingleCorrect(q, sel) == Len(sel) = 1 /\ sel[1] = q.correct[1]

\* A plausible slip: the length test dropped, the selections compared as sets.
MultiCorrectAsSets(q, sel) ==
  {sel[i] : i \in DOMAIN sel} = {q.correct[i] : i \in DOMAIN q.correct}

\* Both slices are sorted and compared: equal lengths, and every option the
\* same number of times in each.
MultiCorrect(q, sel) ==
  /\ Len(sel) = Len(q.correct)
  /\ \A i \in DOMAIN sel : Occurrences(sel[i], sel) = Occurrences(sel[i], q.correct)

\* Any text other than a spelling of "true" is read as false, on both sides.
TrueOrFalseCorrect(q, sel) ==
  /\ Len(sel) = 1
  /\ (q.correct[1] \in TrueSpellings) = (sel[1] \in TrueSpellings)

IsAnswerCorrect(q, sel) ==
  \/ q.type = Single /\ SingleCorrect(q, sel)
  \/ q.type = Multi /\ MultiCorrect(q, sel)
  \/ q.type = TrueOrFalse /\ TrueOrFalseCorrect(q, sel)

-----------------------------------------------------------------------------
(* processingResult: every entry of the list is counted, whatever ids the   *)
(* other entries carry.                                                     *)

HasUnknownId(questions, answers) ==
  \E i \in DOMAIN answers : answers[i].id \notin questions

CorrectEntries(answers) ==
  {i \in DOMAIN answers : IsAnswerCorrect(Bank[answers[i].id], answers[i].sel)}

CountOfCorrectUserAnswers(answers) == Cardinality(CorrectEntries(answers))

\* percent >= DefaultBorderResult, without the division: the float quotient times
\* 100 compares as this does, but for no answer to no question, whose percent is
\* NaN and reaches nothing.
ReachesBorder(count, total) ==
  /\ count + total > 0
  /\ 100 * count >= DefaultBorderResult * total

\* The map subject -> answer of the result: a later entry of a subject
\* overwrites an earlier one.
UserAnswersMap(answers) ==
  LET Subject(i) == Bank[answers[i].id].subject
      LastOf(i) == \A j \in DOMAIN answers : j > i => Subject(j) # Subject(i)
      kept == {i \in DOMAIN answers : LastOf(i)}
  IN [s \in {Subject(i) : i \in kept} |->
        answers[CHOOSE i \in kept : Subject(i) = s].sel]

ProcessingResult(questions, answers) ==
  [questions    |-> {Bank[id].subject : id \in questions},
   user_answers |-> UserAnswersMap(answers),
   is_expire    |-> FALSE,
   is_success   |-> ReachesBorder(CountOfCorrectUserAnswers(answers),
                                  Cardinality(questions)),
   correct      |-> CountOfCorrectUserAnswers(answers),
   total        |-> Cardinality(questions)]
=============================================================================
