---------------------------- MODULE SessionState ----------------------------
(***************************************************************************)
(* The Session entity and its three states (question/internal/entities:    *)
(* session.go, init_session_state.go, active_session_state.go,             *)
(* completed_session_state.go).                                            *)
(*                                                                         *)
(* A session is a record; each method of the State interface is an         *)
(* operator Op giving the session after the call, with a predicate         *)
(* OpAccepts that is false where the code returns an error.  A method the  *)
(* current state does not support returns ErrInvalidState and changes      *)
(* nothing.  Time is in minutes.                                           *)
(***************************************************************************)
EXTENDS Grading

InitState == "init state"
ActiveState == "active state"
CompletedState == "completed state"

(* NewSession refuses an empty list of topics.  The generated id is a       *)
(* random 64-bit number, taken here as fresh.                               *)
NewSessionAccepts(topics) == topics # {}

NewSession(sid, user, topics) ==
  [sid |-> sid, user |-> user, topics |-> topics, state |-> InitState,
   questions |-> {}, started |-> 0, limit |-> 0, answers |-> <<>>,
   expired |-> FALSE]

SetQuestionsAccepts(s, qs) == s.state = InitState /\ qs # {}

SetQuestions(s, qs, duration, now) ==
  [s EXCEPT !.state = ActiveState, !.questions = qs, !.started = now,
            !.limit = duration]

SetUserAnswerAccepts(s) == s.state = ActiveState

\* A slip in the comparison: the code's After is strict.
DeadlinePassedEarly(s, now) == now >= s.started + s.limit

DeadlinePassed(s, now) == now > s.started + s.limit

SetUserAnswer(s, answers, now) ==
  [s EXCEPT !.state = CompletedState, !.answers = answers,
            !.expired = DeadlinePassed(s, now)]

\* A slip: the ids are checked against the bank and not the session.
GetSessionResultAcceptsAny(s) ==
  /\ s.state = CompletedState
  /\ s.expired \/ ~HasUnknownId(QuestionIds, s.answers)

(* Only a completed session has a result, and a list with a foreign id has  *)
(* none unless the session expired: then the answers are never looked at.   *)
GetSessionResultAccepts(s) ==
  /\ s.state = CompletedState
  /\ s.expired \/ ~HasUnknownId(s.questions, s.answers)

\* The result of an expired session carries the grade "session expired" and
\* nothing else; its IsExpire field keeps the zero value.
ExpiredResult ==
  [questions |-> {}, user_answers |-> <<>>, is_expire |-> FALSE,
   is_success |-> FALSE, correct |-> 0, total |-> 0]

GetSessionResult(s) ==
  IF s.expired THEN ExpiredResult ELSE ProcessingResult(s.questions, s.answers)
=============================================================================
