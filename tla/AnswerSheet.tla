---------------------------- MODULE AnswerSheet ----------------------------
(***************************************************************************)
(* A list of answers as the CompleteSession handler builds it: decoded     *)
(* entry by entry (question/internal/port/http/public/server.go), then     *)
(* graded against the questions of the session.  The module ranges over    *)
(* every list of up to MaxAnswers entries, so that Grading is compared     *)
(* with a reference definition of the documented rule.                     *)
(***************************************************************************)
EXTENDS Grading

CONSTANTS
  Sheets,       \* the question sets a session may hold
  Selections,   \* the option sequences a user may send
  ForeignId,    \* an id of no question of the bank
  EmptyId,      \* the empty string as an id
  MaxAnswers    \* bound on the length of a list

ASSUME SheetsAssumption ==
  /\ \A qs \in Sheets : qs \subseteq QuestionIds
  /\ ForeignId \notin QuestionIds
  /\ EmptyId \notin QuestionIds
  /\ Selections \subseteq Seq(STRING)
  /\ \A id \in QuestionIds : Bank[id].correct \in Seq(STRING)
  /\ MaxAnswers \in Nat

VARIABLES
  questions,    \* the ids of the session's questions
  answers,      \* the entries decoded so far
  reply         \* "none", "invalid" or "graded"

vars == <<questions, answers, reply>>

Entries == [id : QuestionIds \cup {ForeignId}, sel : Selections]

TypeOK ==
  /\ questions \in Sheets
  /\ answers \in Seq(Entries) /\ Len(answers) <= MaxAnswers
  /\ reply \in {"none", "invalid", "graded"}

Init ==
  /\ questions \in Sheets
  /\ answers = <<>>
  /\ reply = "none"

\* A slip: the entry joins the list without the check of NewUserAnswer.
DecodeAnswerUnchecked(id, sel) ==
  /\ reply = "none"
  /\ Len(answers) < MaxAnswers
  /\ answers' = Append(answers, [id |-> id, sel |-> sel])
  /\ UNCHANGED <<questions, reply>>

(* NewUserAnswer accepts the entry; it joins the list. *)
DecodeAnswer(id, sel) ==
  /\ reply = "none"
  /\ id # EmptyId
  /\ Len(answers) < MaxAnswers
  /\ answers' = Append(answers, [id |-> id, sel |-> sel])
  /\ UNCHANGED <<questions, reply>>

(* NewUserAnswer refuses an empty id and the handler answers 400. *)
RejectEntry ==
  /\ reply = "none"
  /\ reply' = "invalid"
  /\ UNCHANGED <<questions, answers>>

(* The whole list is graded; an id of another session is refused. *)
Grade ==
  /\ reply = "none"
  /\ reply' = IF HasUnknownId(questions, answers) THEN "invalid" ELSE "graded"
  /\ UNCHANGED <<questions, answers>>

Next ==
  \/ \E id \in QuestionIds \cup {ForeignId, EmptyId}, sel \in Selections :
       DecodeAnswer(id, sel)
  \/ RejectEntry
  \/ Grade

Spec == Init /\ [][Next]_vars

-----------------------------------------------------------------------------
Result == ProcessingResult(questions, answers)

DistinctIds ==
  \A i, j \in DOMAIN answers : answers[i].id = answers[j].id => i = j

(* The documented rule, question by question: a question is answered right *)
(* when some entry for it selects exactly its key, in any order.           *)
SelectsKey(q, sel) ==
  \E p \in [DOMAIN q.correct -> DOMAIN sel] :
    /\ Len(sel) = Len(q.correct)
    /\ \A i, j \in DOMAIN p : p[i] = p[j] => i = j
    /\ \A i \in DOMAIN p : \/ sel[p[i]] = q.correct[i]
                           \/ /\ q.type = TrueOrFalse
                              /\ (sel[p[i]] \in TrueSpellings)
                                   = (q.correct[i] \in TrueSpellings)

AnsweredRight ==
  {q \in questions : \E i \in DOMAIN answers :
     answers[i].id = q /\ SelectsKey(Bank[q], answers[i].sel)}

\* The grade is the share of the session's questions answered right, and the
\* session is passed exactly from six tenths on, if no question is answered twice:
\* processingResult against docs/API.md, "correct / all questions".  Whatever a
\* list repeats, nobody is graded below that share, or for more than was sent; and a
\* session that was read without questions is not passed by sending no answers.
GradeIsShareOfQuestions ==
  LET right == Cardinality(AnsweredRight)
      enough == questions # {} /\ 10 * right >= 6 * Cardinality(questions)
  IN reply = "graded" =>
       /\ Result.total = Cardinality(questions)
       /\ right <= Result.correct /\ Result.correct <= Len(answers)
       /\ enough => Result.is_success
       /\ DistinctIds => Result.correct = right /\ (Result.is_success => enough)

\* The share of questions answered right cannot exceed the whole, whatever list
\* of answers is graded: what docs/API.md:220 says a grade is.
GradeWithinWhole ==
  reply = "graded" => Result.correct <= Result.total
=============================================================================
