----------------------- MODULE QuestionServiceProofs ------------------------
(***************************************************************************)
(* Theorems about QuestionService, for every set of requests, users,       *)
(* topics and answer lists, every question bank and every clock.           *)
(***************************************************************************)
EXTENDS QuestionService, WellFoundedInduction, TLAPS

-----------------------------------------------------------------------------
(* What the small steps of a request do to the function of requests.       *)

LEMMA GotoEffect ==
  ASSUME requests \in [Requests -> RequestType], NEW r \in Requests,
         NEW pc \in {"idle", "done"} \cup Waiting, Goto(r, pc)
  PROVE  /\ requests' \in [Requests -> RequestType]
         /\ requests'[r] = [requests[r] EXCEPT !.pc = pc]
         /\ \A q \in Requests \ {r} : requests'[q] = requests[q]
BY DEF Goto, RequestType

LEMMA GotoWithEffect ==
  ASSUME requests \in [Requests -> RequestType], NEW r \in Requests,
         NEW pc \in {"idle", "done"} \cup Waiting, NEW s \in Session,
         GotoWith(r, s, pc)
  PROVE  /\ requests' \in [Requests -> RequestType]
         /\ requests'[r] = [requests[r] EXCEPT !.pc = pc, !.session = s]
         /\ \A q \in Requests \ {r} : requests'[q] = requests[q]
BY DEF GotoWith, RequestType

LEMMA AnswerEffect ==
  ASSUME requests \in [Requests -> RequestType], NEW r \in Requests,
         NEW reply \in Replies, Answer(r, reply)
  PROVE  /\ requests' \in [Requests -> RequestType]
         /\ requests'[r] = [requests[r] EXCEPT !.pc = "done", !.reply = reply]
         /\ \A q \in Requests \ {r} : requests'[q] = requests[q]
BY DEF Answer, RequestType

LEMMA ArriveEffect ==
  ASSUME requests \in [Requests -> RequestType], sessions \in Seq(RowType),
         clock \in Nat, NEW r \in Requests,
         NEW kind \in {"none", "create", "complete", "list"},
         NEW pc \in {"idle", "done"} \cup Waiting, NEW s \in Session,
         NEW answers \in Submissions \cup {<<>>}, Arrive(r, kind, pc, s, answers)
  PROVE  /\ requests' \in [Requests -> RequestType]
         /\ requests'[r] = [kind |-> kind, pc |-> pc, session |-> s,
                            answers |-> answers, begun |-> Len(sessions),
                            sent |-> clock, reply |-> "none"]
         /\ \A q \in Requests \ {r} : requests'[q] = requests[q]
<1>1. Len(sessions) \in Nat
  OBVIOUS
<1>2. "none" \in Replies
  BY DEF Replies
<1>3. QED
  BY <1>1, <1>2 DEF Arrive, RequestType

LEMMA ListEffect ==
  ASSUME requests \in [Requests -> RequestType], NEW r \in Requests,
         NEW user \in Users, ListCompleted(r, user)
  PROVE  /\ requests' \in [Requests -> RequestType]
         /\ \E reply \in {"aborted", "listed", "internal"} :
              requests'[r] = [requests[r] EXCEPT !.kind = "list", !.pc = "done",
                                                 !.reply = reply]
         /\ \A q \in Requests \ {r} : requests'[q] = requests[q]
<1>1. PICK reply \in {"aborted", "listed", "internal"} :
        requests' = [requests EXCEPT ![r].kind = "list", ![r].pc = "done",
                                     ![r].reply = reply]
  BY DEF ListCompleted, ListReplies
<1>2. {"aborted", "listed", "internal"} \subseteq Replies
  BY DEF Replies
<1>3. QED
  BY <1>1, <1>2 DEF RequestType

LEMMA CrashEffect ==
  ASSUME requests \in [Requests -> RequestType], Crash
  PROVE  /\ requests' \in [Requests -> RequestType]
         /\ \A q \in Requests :
              \/ requests'[q] = requests[q] /\ requests[q].pc \notin Waiting
              \/ requests'[q] = [requests[q] EXCEPT !.pc = "done", !.reply = "aborted"]
<1>1. ASSUME NEW q \in Requests
      PROVE  /\ [requests[q] EXCEPT !.pc = "done", !.reply = "aborted"] \in RequestType
             /\ requests[q] \in RequestType
  BY DEF RequestType, Replies
<1>2. requests' = [r \in Requests |->
        IF requests[r].pc \in Waiting
          THEN [requests[r] EXCEPT !.pc = "done", !.reply = "aborted"]
          ELSE requests[r]]
  BY DEF Crash
<1>3. QED
  BY <1>1, <1>2

-----------------------------------------------------------------------------
(* Types of the sessions and rows the operators build.                     *)

LEMMA NewSessionType ==
  ASSUME NEW sid \in SessionIds, NEW user \in Users \cup {NoUser},
         NEW topics \in SUBSET UNION TopicChoices
  PROVE  NewSession(sid, user, topics) \in Session
BY DEF NewSession, Session, States

LEMMA SetQuestionsType ==
  ASSUME NEW s \in Session, clock \in Nat,
         NEW qs \in UNION {QuestionsRead(all) : all \in GetQuestions(s.topics)}
  PROVE  SetQuestions(s, qs, TopicDuration, clock) \in Session
<1>1. qs \subseteq QuestionIds
  BY DEF GetQuestions, QuestionsOf, QuestionsRead
<1>2. QED
  BY <1>1, ServiceAssumption DEF SetQuestions, Session, States

LEMMA SetUserAnswerType ==
  ASSUME NEW s \in Session, NEW answers \in Submissions \cup {<<>>}, clock \in Nat
  PROVE  SetUserAnswer(s, answers, clock) \in Session
<1>1. DeadlinePassed(s, clock) \in BOOLEAN
  BY DEF DeadlinePassed, Session
<1>2. CompletedState \in States
  BY DEF States
<1>3. QED
  BY <1>1, <1>2 DEF SetUserAnswer, Session

LEMMA RowIsTyped ==
  ASSUME NEW s \in Session, NEW r \in Requests, clock \in Nat
  PROVE  Row(s, r, clock) \in RowType
BY DEF Row, RowType, Session

LEMMA AppendedRow ==
  ASSUME sessions \in Seq(RowType), NEW row \in RowType,
         sessions' = Append(sessions, row)
  PROVE  /\ sessions' \in Seq(RowType)
         /\ Len(sessions') = Len(sessions) + 1
         /\ DOMAIN sessions' = 1 .. Len(sessions) + 1
         /\ \A i \in DOMAIN sessions : sessions'[i] = sessions[i]
         /\ sessions'[Len(sessions) + 1] = row
OBVIOUS

(* A non-empty set of natural numbers has a least element.                  *)
LEMMA LeastNatural ==
  ASSUME NEW T, T \subseteq Nat, T # {}
  PROVE  \E m \in T : \A k \in T : m <= k
<1> DEFINE R == {ss \in Nat \X Nat : ss[1] < ss[2]}
<1>1. IsWellFoundedOn(R, Nat)
  BY NatLessThanWellFounded DEF OpToRel
<1> HIDE DEF R
<1>2. PICK x \in T : \A y \in T : ~ (<<y, x>> \in R)
  BY <1>1, WFMin
<1>3. ASSUME NEW y \in T PROVE x <= y
  <2>1. <<y, x>> \notin R /\ x \in Nat /\ y \in Nat
    BY <1>2
  <2>2. ~ (y < x)
    BY <2>1 DEF R
  <2>3. QED
    BY <2>1, <2>2
<1>4. QED
  BY <1>3

(* The latest row of a session exists as soon as it has a row.              *)
LEMMA LatestRowExists ==
  ASSUME sessions \in Seq(RowType), NEW sid, RowsOf(sid) # {}
  PROVE  \E i \in RowsOf(sid) : /\ LatestRow(sid) = sessions[i]
                                /\ \A j \in RowsOf(sid) : j <= i
<1> DEFINE Back == {k \in Nat : Len(sessions) - k \in RowsOf(sid)}
<1>1. Len(sessions) \in Nat /\ RowsOf(sid) \subseteq 1 .. Len(sessions)
  BY DEF RowsOf
<1>2. PICK i \in RowsOf(sid) : TRUE
  OBVIOUS
<1>3. Len(sessions) - i \in Back
  BY <1>1, <1>2
<1>4. PICK k \in Back : \A m \in Back : k <= m
  <2>1. Back \subseteq Nat /\ Back # {}
    BY <1>3
  <2>2. QED
    BY <2>1, LeastNatural
<1>5. \A j \in RowsOf(sid) : j <= Len(sessions) - k
  <2> SUFFICES ASSUME NEW j \in RowsOf(sid)
               PROVE  j <= Len(sessions) - k
    OBVIOUS
  <2>1. Len(sessions) - j \in Back
    BY <1>1
  <2>2. k <= Len(sessions) - j
    BY <1>4, <2>1
  <2>3. QED
    BY <1>1, <2>2
<1>6. \E m \in RowsOf(sid) : \A j \in RowsOf(sid) : j <= m
  BY <1>4, <1>5
<1>7. QED
  BY <1>6 DEF LatestRow

LEMMA RecoverType ==
  ASSUME sessions \in Seq(RowType), NEW i \in DOMAIN sessions,
         NEW qs \in QuestionsRead(sessions[i].questions)
  PROVE  Recover(sessions[i], qs) \in Session
<1>1. sessions[i] \in RowType /\ qs \subseteq sessions[i].questions
  BY DEF QuestionsRead
<1>2. LimitScale * sessions[i].limit \in Nat
  BY <1>1 DEF LimitScale, RowType
<1>3. QED
  BY <1>1, <1>2 DEF Recover, RowType, Session

LEMMA LoadedType ==
  ASSUME sessions \in Seq(RowType), NEW sid, RowsOf(sid) # {},
         NEW qs \in QuestionsRead(LatestRow(sid).questions)
  PROVE  Recover(LatestRow(sid), qs) \in Session
BY LatestRowExists, RecoverType DEF RowsOf

-----------------------------------------------------------------------------
(* Type correctness.                                                       *)

LEMMA InitTypeOK == Init => TypeOK
<1> SUFFICES ASSUME Init PROVE TypeOK
  OBVIOUS
<1>1. clock \in Nat
  BY ServiceAssumption DEF Init
<1>2. Unloaded(UnknownSession) \in Session
  BY NewSessionType DEF Unloaded, SessionIds
<1>3. NewRequest \in RequestType
  BY <1>2 DEF NewRequest, RequestType, Replies
<1>4. QED
  BY <1>1, <1>3 DEF Init, TypeOK

LEMMA NextTypeOK == TypeOK /\ [Next]_vars => TypeOK'
<1> SUFFICES ASSUME TypeOK, [Next]_vars PROVE TypeOK'
  OBVIOUS
<1> USE DEF TypeOK
<1>1. ASSUME NEW r \in Requests, NEW user \in Users, NEW topics \in TopicChoices,
             BeginCreate(r, user, topics)
      PROVE  TypeOK'
  <2>1. NewSession(r, user, topics) \in Session
    BY NewSessionType DEF SessionIds
  <2>2. requests' \in [Requests -> RequestType]
    BY <1>1, <2>1, ArriveEffect DEF BeginCreate, Waiting
  <2>3. QED
    BY <1>1, <2>2 DEF BeginCreate
<1>2. ASSUME NEW r \in Requests, NEW sid \in IssuedSessions \cup {UnknownSession},
             NEW answers \in Submissions, BeginComplete(r, sid, answers)
      PROVE  TypeOK'
  <2>1. Unloaded(sid) \in Session
    BY NewSessionType DEF Unloaded, SessionIds, IssuedSessions
  <2>2. requests' \in [Requests -> RequestType]
    BY <1>2, <2>1, ArriveEffect DEF BeginComplete, Waiting
  <2>3. QED
    BY <1>2, <2>2 DEF BeginComplete
<1>3. ASSUME NEW r \in Requests, NEW user \in Users, ListCompleted(r, user)
      PROVE  TypeOK'
  BY <1>3, ListEffect DEF ListCompleted
<1>4. ASSUME NEW r \in Requests, RefuseRequest(r) PROVE TypeOK'
  BY <1>4, AnswerEffect DEF RefuseRequest, Replies
<1>5. ASSUME NEW r \in Requests, CheckDailyLimit(r) PROVE TypeOK'
  BY <1>5, AnswerEffect, GotoEffect DEF CheckDailyLimit, Replies, Waiting
<1>6. ASSUME NEW r \in Requests, SelectQuestions(r) PROVE TypeOK'
  <2> DEFINE s == requests[r].session
  <2>1. s \in Session
    BY DEF RequestType
  <2>2. CASE Answer(r, "not found") \/ Answer(r, "invalid parameter")
    BY <1>6, <2>2, AnswerEffect DEF SelectQuestions, Replies
  <2>3. CASE \E qs \in UNION {QuestionsRead(all) : all \in GetQuestions(s.topics)} :
               GotoWith(r, SetQuestions(s, qs, TopicDuration, clock), "store")
    BY <1>6, <2>1, <2>3, SetQuestionsType, GotoWithEffect DEF SelectQuestions, Waiting
  <2>4. QED
    BY <1>6, <2>2, <2>3 DEF SelectQuestions
<1>7. ASSUME NEW r \in Requests, StoreActive(r) PROVE TypeOK'
  <2>1. Row(requests[r].session, r, clock) \in RowType
    BY RowIsTyped DEF RequestType
  <2>2. sessions' \in Seq(RowType)
    BY <1>7, <2>1, AppendedRow DEF StoreActive
  <2>3. QED
    BY <1>7, <2>2, AnswerEffect DEF StoreActive, Replies
<1>8. ASSUME NEW r \in Requests, LoadSession(r) PROVE TypeOK'
  <2> DEFINE sid == requests[r].session.sid
  <2>1. CASE Answer(r, "not found")
    BY <1>8, <2>1, AnswerEffect DEF LoadSession, Replies
  <2>2. CASE /\ RowsOf(sid) # {}
             /\ \E qs \in QuestionsRead(LatestRow(sid).questions) :
                  GotoWith(r, Recover(LatestRow(sid), qs), "apply")
    BY <1>8, <2>2, LoadedType, GotoWithEffect DEF LoadSession, Waiting
  <2>3. QED
    BY <1>8, <2>1, <2>2 DEF LoadSession
<1>9. ASSUME NEW r \in Requests, ApplyAnswers(r) PROVE TypeOK'
  <2> DEFINE t == SetUserAnswer(requests[r].session, requests[r].answers, clock)
  <2>1. t \in Session
    BY SetUserAnswerType DEF RequestType
  <2>2. CASE Answer(r, "invalid state") \/ Answer(r, "invalid parameter")
    BY <1>9, <2>2, AnswerEffect DEF ApplyAnswers, Replies
  <2>3. CASE GotoWith(r, t, "store result")
    BY <1>9, <2>1, <2>3, GotoWithEffect DEF ApplyAnswers, Waiting
  <2>4. QED
    BY <1>9, <2>2, <2>3 DEF ApplyAnswers
<1>10. ASSUME NEW r \in Requests, StoreResult(r) PROVE TypeOK'
  <2>1. Row(requests[r].session, r, clock) \in RowType
    BY RowIsTyped DEF RequestType
  <2>2. sessions' \in Seq(RowType)
    BY <1>10, <2>1, AppendedRow DEF StoreResult
  <2>3. requests' \in [Requests -> RequestType]
    BY <1>10, AnswerEffect DEF StoreResult, Replies
  <2>4. QED
    BY <1>10, <2>2, <2>3 DEF StoreResult
<1>11. ASSUME NEW r \in Requests, CallFails(r) PROVE TypeOK'
  BY <1>11, AnswerEffect DEF CallFails, Replies
<1>12. ASSUME NEW r \in Requests, Publish(r) PROVE TypeOK'
  BY <1>12 DEF Publish, Event
<1>13. ASSUME NEW r \in Requests, PublishFails(r) PROVE TypeOK'
  BY <1>13 DEF PublishFails
<1>14. CASE Crash
  BY <1>14, CrashEffect DEF Crash
<1>15. CASE Tick
  BY <1>15, ServiceAssumption DEF Tick
<1>16. CASE UNCHANGED vars
  BY <1>16 DEF vars
<1>17. QED
  BY <1>1, <1>2, <1>3, <1>4, <1>5, <1>6, <1>7, <1>8, <1>9, <1>10, <1>11, <1>12,
     <1>13, <1>14, <1>15, <1>16
  DEF Next, Begin, Serve

\* Whatever the requests do, fail at or lose, the variables keep their types; in
\* particular a recovered session has a known state and a stored row is complete.
THEOREM TypeCorrect == Spec => []TypeOK
BY InitTypeOK, NextTypeOK, PTL DEF Spec

-----------------------------------------------------------------------------
(* Preservation of IInv.                                                   *)

(* A step of one request that is not done, which leaves the table, the      *)
(* goroutines and the broker alone and acknowledges nothing.                *)
LEMMA QuietStep ==
  ASSUME IInv, TypeOK', NEW r \in Requests, requests[r].pc # "done",
         UNCHANGED <<sessions, publishing, events>>,
         \A q \in Requests \ {r} : requests'[q] = requests[q],
         requests'[r].reply \notin {"created", "completed"},
         RequestInv(r)'
  PROVE  IInv'
<1>1. \A i \in DOMAIN sessions :
        sessions[i].by \in Requests /\ sessions[i].by # r
  <2>1. \A i \in DOMAIN sessions : sessions[i] \in RowType
    BY DEF IInv, TypeOK
  <2>2. \A i \in DOMAIN sessions : requests[sessions[i].by].pc = "done"
    BY DEF IInv, RowsHaveWriters
  <2>3. QED
    BY <2>1, <2>2 DEF RowType
<1>2. r \notin publishing
  BY DEF IInv, PublishedIsStored
<1>3. ASSUME NEW q \in Requests PROVE RequestInv(q)'
  <2>1. CASE q = r
    BY <2>1
  <2>2. CASE q # r
    <3>1. requests'[q] = requests[q] /\ RequestInv(q)
      BY <2>2 DEF IInv
    <3>2. HeldState(q)'
      BY <3>1 DEF RequestInv, HeldState
    <3>3. HeldStarted(q)'
      BY <3>1 DEF RequestInv, HeldStarted, HoldsTest, IsActive
    <3>4. AttemptIsEarly(q)'
      BY <3>1 DEF RequestInv, AttemptIsEarly, Attempting, IsCompleted
    <3>5. QED
      BY <3>2, <3>3, <3>4 DEF RequestInv
  <2>3. QED
    BY <2>1, <2>2
<1>4. RowsHaveWriters'
  BY <1>1 DEF IInv, RowsHaveWriters, IsActive, IsCompleted
<1>5. OneActiveRow' /\ StartedBefore'
  BY DEF IInv, OneActiveRow, StartedBefore, IsActive, IsCompleted, SameSession, SameTest
<1>6. SecondCompletionOnlyInFlight'
  BY <1>1 DEF IInv, SecondCompletionOnlyInFlight, IsCompleted, SameSession
<1>7. AcknowledgedIsStored'
  <2>1. AcknowledgedIsStored
    BY DEF IInv, PublishedIsStored
  <2>2. QED
    BY <2>1 DEF AcknowledgedIsStored, IsActive, IsCompleted
<1>8. PublishedIsStored'
  BY <1>2, <1>7 DEF IInv, TypeOK, PublishedIsStored, IsCompleted
<1>9. UnreadableRowsAreExpired'
  BY DEF IInv, UnreadableRowsAreExpired, IsCompleted, Unreadable
<1>10. QED
  BY <1>3, <1>4, <1>5, <1>6, <1>8, <1>9 DEF IInv

(* A request that is done satisfies RequestInv without regard to the table. *)
LEMMA DoneRequestInv ==
  ASSUME NEW r \in Requests, requests'[r].pc = "done",
         requests'[r].begun <= Len(sessions')
  PROVE  RequestInv(r)'
BY DEF RequestInv, HeldState, HeldStarted, AttemptIsEarly, Attempting

(* A request ends with a reply that acknowledges nothing.                   *)
LEMMA RefusalStep ==
  ASSUME IInv, TypeOK', NEW r \in Requests, requests[r].pc # "done",
         UNCHANGED <<sessions, publishing, events>>,
         NEW reply \in Replies \ {"created", "completed"}, Answer(r, reply)
  PROVE  IInv'
<1>1. requests \in [Requests -> RequestType] /\ RequestInv(r)
  BY DEF IInv, TypeOK
<1>2. /\ requests'[r] = [requests[r] EXCEPT !.pc = "done", !.reply = reply]
      /\ \A q \in Requests \ {r} : requests'[q] = requests[q]
  BY <1>1, AnswerEffect
<1>3. /\ requests'[r].pc = "done"
      /\ requests'[r].reply = reply
      /\ requests'[r].begun = requests[r].begun
  BY <1>1, <1>2 DEF RequestType
<1>4. RequestInv(r)'
  BY <1>1, <1>3, DoneRequestInv DEF RequestInv, HeldState
<1>5. QED
  BY <1>2, <1>3, <1>4, QuietStep

(* A request moves on without a reply.                                      *)
LEMMA WaitingStep ==
  ASSUME IInv, TypeOK', NEW r \in Requests, requests[r].pc \in Waiting,
         UNCHANGED <<sessions, publishing, events>>,
         \A q \in Requests \ {r} : requests'[q] = requests[q],
         requests'[r].reply = requests[r].reply,
         RequestInv(r)'
  PROVE  IInv'
<1>1. requests[r].reply = "none"
  BY DEF IInv, RequestInv, HeldState, Waiting
<1>2. requests[r].pc # "done"
  BY DEF Waiting
<1>3. QED
  BY <1>1, <1>2, QuietStep

(* A request that holds no loaded session satisfies it without the table too. *)
LEMMA UnloadedRequestInv ==
  ASSUME NEW r \in Requests, NEW pc \in {"idle", "limit", "questions", "store", "load"},
         requests'[r].pc = pc,
         pc \in {"limit", "questions"} => requests'[r].session.state = InitState,
         pc = "store" => requests'[r].session.state = ActiveState,
         pc \in {"limit", "questions", "store"} => requests'[r].session.sid = r,
         requests'[r].begun <= Len(sessions'), requests'[r].reply = "none"
  PROVE  RequestInv(r)'
<1>1. HeldState(r)'
  BY DEF HeldState
<1>2. HeldStarted(r)'
  BY DEF HeldStarted
<1>3. AttemptIsEarly(r)'
  BY DEF AttemptIsEarly, Attempting
<1>4. QED
  BY <1>1, <1>2, <1>3 DEF RequestInv

LEMMA InitIInv == Init => IInv
<1> SUFFICES ASSUME Init PROVE IInv
  OBVIOUS
<1>1. TypeOK
  BY InitTypeOK
<1>2. ASSUME NEW r \in Requests PROVE RequestInv(r)
  <2>1. /\ requests[r].pc = "idle" /\ requests[r].begun = 0
        /\ requests[r].reply = "none"
    BY DEF Init, NewRequest
  <2>2. Len(sessions) = 0
    BY DEF Init
  <2>3. HeldState(r)
    BY <2>1, <2>2 DEF HeldState
  <2>4. HeldStarted(r) /\ AttemptIsEarly(r)
    BY <2>1 DEF HeldStarted, AttemptIsEarly, Attempting
  <2>5. QED
    BY <2>3, <2>4 DEF RequestInv
<1>3. RowsHaveWriters /\ OneActiveRow /\ StartedBefore
  BY DEF Init, RowsHaveWriters, OneActiveRow, StartedBefore
<1>4. SecondCompletionOnlyInFlight /\ UnreadableRowsAreExpired
  BY DEF Init, SecondCompletionOnlyInFlight, UnreadableRowsAreExpired
<1>5. PublishedIsStored
  BY DEF Init, NewRequest, PublishedIsStored, AcknowledgedIsStored
<1>6. QED
  BY <1>1, <1>2, <1>3, <1>4, <1>5 DEF IInv

LEMMA BeginIInv ==
  ASSUME IInv, TypeOK', NEW r \in Requests, Begin(r)
  PROVE  IInv'
<1>1. /\ requests \in [Requests -> RequestType] /\ sessions \in Seq(RowType)
      /\ clock \in Nat /\ RequestInv(r)
  BY DEF IInv, TypeOK
<1>2. Len(sessions) \in Nat
  BY <1>1
<1>3. ASSUME NEW user \in Users, NEW topics \in TopicChoices,
             BeginCreate(r, user, topics)
      PROVE  IInv'
  <2> DEFINE s == NewSession(r, user, topics)
  <2>1. s \in Session /\ s.state = InitState /\ s.sid = r
    BY NewSessionType DEF SessionIds, NewSession
  <2>2. Arrive(r, "create", "limit", s, <<>>)
    BY <1>3 DEF BeginCreate
  <2> HIDE DEF s
  <2>3. /\ requests'[r] = [kind |-> "create", pc |-> "limit", session |-> s,
                           answers |-> <<>>, begun |-> Len(sessions),
                           sent |-> clock, reply |-> "none"]
        /\ \A q \in Requests \ {r} : requests'[q] = requests[q]
    BY <1>1, <2>2 DEF Arrive
  <2>4. UNCHANGED <<sessions, publishing, events>> /\ requests[r].pc # "done"
    BY <1>3 DEF BeginCreate
  <2>5. /\ requests'[r].pc = "limit" /\ requests'[r].session = s
        /\ requests'[r].reply = "none" /\ requests'[r].begun <= Len(sessions')
    BY <1>2, <2>3, <2>4
  <2>6. RequestInv(r)'
    BY <2>1, <2>5, UnloadedRequestInv
  <2>7. QED
    BY <2>3, <2>4, <2>5, <2>6, QuietStep
<1>4. ASSUME NEW sid \in IssuedSessions \cup {UnknownSession},
             NEW answers \in Submissions, BeginComplete(r, sid, answers)
      PROVE  IInv'
  <2> DEFINE s == Unloaded(sid)
  <2>1. s \in Session
    BY NewSessionType DEF Unloaded, SessionIds, IssuedSessions
  <2>2. Arrive(r, "complete", "load", s, answers)
    BY <1>4 DEF BeginComplete
  <2> HIDE DEF s
  <2>3. /\ requests'[r] = [kind |-> "complete", pc |-> "load", session |-> s,
                           answers |-> answers, begun |-> Len(sessions),
                           sent |-> clock, reply |-> "none"]
        /\ \A q \in Requests \ {r} : requests'[q] = requests[q]
    BY <1>1, <2>2 DEF Arrive
  <2>4. UNCHANGED <<sessions, publishing, events>> /\ requests[r].pc # "done"
    BY <1>4 DEF BeginComplete
  <2>5. /\ requests'[r].pc = "load" /\ requests'[r].reply = "none"
        /\ requests'[r].begun <= Len(sessions')
    BY <1>2, <2>3, <2>4
  <2>6. RequestInv(r)'
    BY <2>5, UnloadedRequestInv
  <2>7. QED
    BY <2>3, <2>4, <2>5, <2>6, QuietStep
<1>5. ASSUME NEW user \in Users, ListCompleted(r, user)
      PROVE  IInv'
  <2>1. PICK reply \in {"aborted", "listed", "internal"} :
          requests'[r] = [requests[r] EXCEPT !.kind = "list", !.pc = "done",
                                             !.reply = reply]
    BY <1>1, <1>5, ListEffect
  <2>2. \A q \in Requests \ {r} : requests'[q] = requests[q]
    BY <1>1, <1>5, ListEffect
  <2>3. /\ requests'[r].pc = "done" /\ requests'[r].reply = reply
        /\ requests'[r].begun = requests[r].begun
    BY <1>1, <2>1 DEF RequestType
  <2>4. UNCHANGED <<sessions, publishing, events>> /\ requests[r].pc # "done"
    BY <1>5 DEF ListCompleted
  <2>5. RequestInv(r)'
    BY <1>1, <2>3, <2>4, DoneRequestInv DEF RequestInv, HeldState
  <2>6. QED
    BY <2>2, <2>3, <2>4, <2>5, QuietStep
<1>6. ASSUME RefuseRequest(r) PROVE IInv'
  BY <1>6, RefusalStep DEF RefuseRequest, Replies
<1>7. QED
  BY <1>3, <1>4, <1>5, <1>6 DEF Begin
LEMMA LimitIInv ==
  ASSUME IInv, TypeOK', NEW r \in Requests, CheckDailyLimit(r)
  PROVE  IInv'
<1>1. /\ requests \in [Requests -> RequestType] /\ requests[r].pc = "limit"
      /\ RequestInv(r) /\ UNCHANGED <<sessions, publishing, events>>
  BY DEF IInv, TypeOK, CheckDailyLimit
<1>2. CASE Answer(r, "forbidden")
  BY <1>1, <1>2, RefusalStep DEF Replies
<1>3. CASE Goto(r, "questions")
  <2>1. /\ requests'[r] = [requests[r] EXCEPT !.pc = "questions"]
        /\ \A q \in Requests \ {r} : requests'[q] = requests[q]
    BY <1>1, <1>3 DEF Goto
  <2>2. /\ requests'[r].pc = "questions"
        /\ requests'[r].session = requests[r].session
        /\ requests'[r].begun = requests[r].begun
        /\ requests'[r].reply = requests[r].reply
        /\ requests[r].reply = "none"
    BY <1>1, <2>1 DEF RequestType, RequestInv, HeldState
  <2>3. RequestInv(r)'
    BY <1>1, <2>2, UnloadedRequestInv DEF RequestInv, HeldState
  <2>4. QED
    BY <1>1, <2>1, <2>2, <2>3, WaitingStep DEF Waiting
<1>4. QED
  BY <1>2, <1>3 DEF CheckDailyLimit

LEMMA SelectIInv ==
  ASSUME IInv, TypeOK', NEW r \in Requests, SelectQuestions(r)
  PROVE  IInv'
<1> DEFINE s == requests[r].session
<1>1. /\ requests \in [Requests -> RequestType] /\ requests[r].pc = "questions"
      /\ RequestInv(r) /\ UNCHANGED <<sessions, publishing, events>>
      /\ s \in Session
  BY DEF IInv, TypeOK, SelectQuestions, RequestType
<1>2. CASE Answer(r, "not found") \/ Answer(r, "invalid parameter")
  BY <1>1, <1>2, RefusalStep DEF Replies
<1>3. CASE \E qs \in UNION {QuestionsRead(all) : all \in GetQuestions(s.topics)} :
             GotoWith(r, SetQuestions(s, qs, TopicDuration, clock), "store")
  <2> PICK qs \in UNION {QuestionsRead(all) : all \in GetQuestions(s.topics)} :
             GotoWith(r, SetQuestions(s, qs, TopicDuration, clock), "store")
    BY <1>3
  <2> DEFINE t == SetQuestions(s, qs, TopicDuration, clock)
  <2>1. t.state = ActiveState /\ t.sid = s.sid
    BY <1>1 DEF SetQuestions, Session
  <2>2. GotoWith(r, t, "store")
    OBVIOUS
  <2> HIDE DEF t
  <2>3. /\ requests'[r] = [requests[r] EXCEPT !.pc = "store", !.session = t]
        /\ \A q \in Requests \ {r} : requests'[q] = requests[q]
    BY <1>1, <2>2 DEF GotoWith
  <2>4. /\ requests'[r].pc = "store" /\ requests'[r].session = t
        /\ requests'[r].begun = requests[r].begun
        /\ requests'[r].reply = requests[r].reply
        /\ requests[r].reply = "none"
    BY <1>1, <2>3 DEF RequestType, RequestInv, HeldState
  <2>5. RequestInv(r)'
    BY <1>1, <2>1, <2>4, UnloadedRequestInv DEF RequestInv, HeldState
  <2>6. QED
    BY <1>1, <2>3, <2>4, <2>5, WaitingStep DEF Waiting
<1>4. QED
  BY <1>2, <1>3 DEF SelectQuestions

(* The latest row of a session is active only if the session is not yet     *)
(* completed.                                                               *)
LEMMA LatestActive ==
  ASSUME IInv, NEW sid, NEW i \in RowsOf(sid), \A j \in RowsOf(sid) : j <= i,
         IsActive(i)
  PROVE  \A j \in RowsOf(sid) : ~IsCompleted(j)
<1> SUFFICES ASSUME NEW j \in RowsOf(sid), IsCompleted(j) PROVE FALSE
  OBVIOUS
<1>1. RowsOf(sid) \subseteq DOMAIN sessions /\ DOMAIN sessions \subseteq Nat
  BY DEF IInv, TypeOK, RowsOf
<1>2. PICK k \in DOMAIN sessions : k < j /\ IsActive(k) /\ SameSession(j, k)
  BY <1>1 DEF IInv, StartedBefore
<1>3. SameSession(k, i)
  BY <1>2 DEF RowsOf, SameSession
<1>4. k = i
  BY <1>1, <1>2, <1>3 DEF IInv, OneActiveRow
<1>5. QED
  BY <1>1, <1>2, <1>4

LEMMA LoadIInv ==
  ASSUME IInv, TypeOK', NEW r \in Requests, LoadSession(r)
  PROVE  IInv'
<1> DEFINE sid == requests[r].session.sid
<1>1. /\ requests \in [Requests -> RequestType] /\ requests[r].pc = "load"
      /\ RequestInv(r) /\ UNCHANGED <<sessions, publishing, events>>
      /\ sessions \in Seq(RowType)
  BY DEF IInv, TypeOK, LoadSession
<1>2. CASE Answer(r, "not found")
  BY <1>1, <1>2, RefusalStep DEF Replies
<1>3. CASE /\ RowsOf(sid) # {}
           /\ \E qs \in QuestionsRead(LatestRow(sid).questions) :
                GotoWith(r, Recover(LatestRow(sid), qs), "apply")
  <2>1. PICK i \in RowsOf(sid) : /\ LatestRow(sid) = sessions[i]
                                /\ \A j \in RowsOf(sid) : j <= i
    BY <1>1, <1>3, LatestRowExists
  <2> PICK qs \in QuestionsRead(sessions[i].questions) :
             GotoWith(r, Recover(sessions[i], qs), "apply")
    BY <1>3, <2>1
  <2> DEFINE t == Recover(sessions[i], qs)
  <2>2. /\ t.sid = sessions[i].sid /\ t.user = sessions[i].user
        /\ t.topics = sessions[i].topics /\ t.state = sessions[i].state
        /\ t.questions \subseteq sessions[i].questions
        /\ t.started = sessions[i].started
    BY DEF Recover, QuestionsRead
  <2>3. GotoWith(r, t, "apply")
    OBVIOUS
  <2> HIDE DEF t
  <2>4. /\ requests'[r] = [requests[r] EXCEPT !.pc = "apply", !.session = t]
        /\ \A q \in Requests \ {r} : requests'[q] = requests[q]
    BY <1>1, <2>3 DEF GotoWith
  <2>5. /\ requests'[r].pc = "apply" /\ requests'[r].session = t
        /\ requests'[r].begun = requests[r].begun
        /\ requests'[r].reply = requests[r].reply
        /\ requests[r].reply = "none" /\ requests[r].begun <= Len(sessions)
    BY <1>1, <2>4 DEF RequestType, RequestInv, HeldState
  <2>6. i \in DOMAIN sessions /\ sessions[i].sid = sid
    BY DEF RowsOf
  <2>7. HeldState(r)'
    BY <1>1, <2>5 DEF HeldState
  <2>8. HeldStarted(r)'
    <3>1. \E j \in DOMAIN sessions : IsActive(j) /\ SameSession(i, j) /\ SameTest(i, j)
      <4>1. CASE IsActive(i)
        BY <2>6, <4>1 DEF SameSession, SameTest
      <4>2. CASE IsCompleted(i)
        BY <2>6, <4>2 DEF IInv, StartedBefore
      <4>3. QED
        BY <2>6, <4>1, <4>2 DEF IInv, RowsHaveWriters
    <3>2. \E j \in DOMAIN sessions : HoldsTest(r, j)'
      BY <1>1, <2>2, <2>5, <3>1 DEF HoldsTest, IsActive, SameSession, SameTest
    <3>3. QED
      BY <1>1, <3>2 DEF HeldStarted
  <2>9. AttemptIsEarly(r)'
    <3>1. CASE IsActive(i)
      <4>1. \A j \in RowsOf(sid) : ~IsCompleted(j)
        BY <2>1, <3>1, LatestActive
      <4>2. QED
        BY <1>1, <2>2, <2>5, <2>6, <4>1 DEF AttemptIsEarly, RowsOf, IsCompleted
    <3>2. CASE ~IsActive(i)
      BY <2>2, <2>5, <3>2 DEF AttemptIsEarly, Attempting, IsActive
    <3>3. QED
      BY <3>1, <3>2
  <2>10. RequestInv(r)'
    BY <2>7, <2>8, <2>9 DEF RequestInv
  <2>11. QED
    BY <1>1, <2>4, <2>5, <2>10, WaitingStep DEF Waiting
<1>4. QED
  BY <1>2, <1>3 DEF LoadSession

LEMMA ApplyIInv ==
  ASSUME IInv, TypeOK', NEW r \in Requests, ApplyAnswers(r)
  PROVE  IInv'
<1> DEFINE s == requests[r].session
           t == SetUserAnswer(s, requests[r].answers, clock)
<1>1. /\ requests \in [Requests -> RequestType] /\ requests[r].pc = "apply"
      /\ RequestInv(r) /\ UNCHANGED <<sessions, publishing, events>>
      /\ s \in Session
  BY DEF IInv, TypeOK, ApplyAnswers, RequestType
<1>2. CASE Answer(r, "invalid state") \/ Answer(r, "invalid parameter")
  BY <1>1, <1>2, RefusalStep DEF Replies
<1>3. CASE /\ SetUserAnswerAccepts(s) /\ GetSessionResultAccepts(t)
           /\ GotoWith(r, t, "store result")
  <2>1. /\ t.sid = s.sid /\ t.user = s.user /\ t.topics = s.topics
        /\ t.questions = s.questions /\ t.started = s.started
    BY <1>1 DEF SetUserAnswer, Session
  <2>2. GotoWith(r, t, "store result") /\ GetSessionResultAccepts(t)
    BY <1>3
  <2> HIDE DEF t
  <2>3. /\ requests'[r] = [requests[r] EXCEPT !.pc = "store result", !.session = t]
        /\ \A q \in Requests \ {r} : requests'[q] = requests[q]
    BY <1>1, <2>2 DEF GotoWith
  <2>4. /\ requests'[r].pc = "store result" /\ requests'[r].session = t
        /\ requests'[r].begun = requests[r].begun
        /\ requests'[r].reply = requests[r].reply
        /\ requests[r].reply = "none" /\ requests[r].begun <= Len(sessions)
    BY <1>1, <2>3 DEF RequestType, RequestInv, HeldState
  <2>5. HeldState(r)'
    BY <1>1, <2>2, <2>4 DEF HeldState
  <2>6. HeldStarted(r)'
    <3>1. PICK j \in DOMAIN sessions : HoldsTest(r, j)
      BY <1>1 DEF RequestInv, HeldStarted
    <3>2. HoldsTest(r, j)'
      BY <1>1, <2>1, <2>4, <3>1 DEF HoldsTest, IsActive
    <3>3. QED
      BY <1>1, <3>2 DEF HeldStarted
  <2>7. AttemptIsEarly(r)'
    <3>1. Attempting(r) /\ AttemptIsEarly(r)
      BY <1>1, <1>3 DEF RequestInv, Attempting, SetUserAnswerAccepts
    <3>2. QED
      BY <1>1, <2>1, <2>4, <3>1 DEF AttemptIsEarly, IsCompleted
  <2>8. RequestInv(r)'
    BY <2>5, <2>6, <2>7 DEF RequestInv
  <2>9. QED
    BY <1>1, <2>3, <2>4, <2>8, WaitingStep DEF Waiting
<1>4. QED
  BY <1>2, <1>3 DEF ApplyAnswers

(* An insert by r leaves the other requests in order: rows are only added,  *)
(* and a completed row comes after every request has arrived.               *)
LEMMA InsertKeepsOthers ==
  ASSUME IInv, TypeOK', NEW r \in Requests, requests[r].pc # "done",
         NEW row \in RowType, sessions' = Append(sessions, row),
         \A q \in Requests \ {r} : requests'[q] = requests[q]
  PROVE  /\ \A q \in Requests \ {r} : RequestInv(q)'
         /\ \A i \in DOMAIN sessions :
              /\ sessions[i].by \in Requests /\ sessions[i].by # r
              /\ requests'[sessions[i].by] = requests[sessions[i].by]
<1>1. sessions \in Seq(RowType) /\ requests \in [Requests -> RequestType]
  BY DEF IInv, TypeOK
<1> DEFINE n == Len(sessions) + 1
<1>2. /\ n \in Nat /\ Len(sessions') = n /\ DOMAIN sessions = 1 .. n - 1
      /\ DOMAIN sessions' = 1 .. n
      /\ \A i \in DOMAIN sessions : sessions'[i] = sessions[i]
  BY <1>1, AppendedRow
<1> HIDE DEF n
<1>3. ASSUME NEW q \in Requests \ {r} PROVE RequestInv(q)'
  <2>1. requests'[q] = requests[q] /\ RequestInv(q)
    BY DEF IInv
  <2>2. HeldState(q) /\ HeldStarted(q) /\ AttemptIsEarly(q)
    BY <2>1 DEF RequestInv
  <2>3. requests[q].begun <= Len(sessions) /\ requests[q].begun \in Nat
    BY <1>1, <2>2 DEF HeldState, RequestType
  <2>4. requests[q].begun <= n - 1 /\ requests[q].begun <= Len(sessions')
    BY <1>1, <1>2, <2>3 DEF n
  <2>5. HeldState(q)'
    BY <2>1, <2>2, <2>4 DEF HeldState
  <2>6. HeldStarted(q)'
    <3>1. CASE requests[q].pc \in {"apply", "store result"}
      <4>1. PICK j \in DOMAIN sessions : HoldsTest(q, j)
        BY <2>2, <3>1 DEF HeldStarted
      <4>2. HoldsTest(q, j)' /\ j \in DOMAIN sessions'
        BY <1>2, <2>1, <4>1 DEF HoldsTest, IsActive
      <4>3. QED
        BY <4>2 DEF HeldStarted
    <3>2. CASE requests[q].pc \notin {"apply", "store result"}
      BY <2>1, <3>2 DEF HeldStarted
    <3>3. QED
      BY <3>1, <3>2
  <2>7. AttemptIsEarly(q)'
    <3> SUFFICES ASSUME Attempting(q)', NEW i \in DOMAIN sessions', IsCompleted(i)',
                        sessions'[i].sid = requests'[q].session.sid
                 PROVE  requests'[q].begun < i
      BY DEF AttemptIsEarly
    <3>1. CASE i = n
      BY <1>2, <2>1, <2>3, <2>4, <3>1
    <3>2. CASE i # n
      <4>1. i \in DOMAIN sessions /\ sessions'[i] = sessions[i]
        BY <1>2, <3>2
      <4>2. Attempting(q) /\ IsCompleted(i) /\ sessions[i].sid = requests[q].session.sid
        BY <2>1, <4>1 DEF Attempting, IsCompleted
      <4>3. QED
        BY <2>1, <2>2, <4>1, <4>2 DEF AttemptIsEarly
    <3>3. QED
      BY <3>1, <3>2
  <2>8. QED
    BY <2>5, <2>6, <2>7 DEF RequestInv
<1>4. ASSUME NEW i \in DOMAIN sessions
      PROVE  sessions[i].by \in Requests /\ sessions[i].by # r
  <2>1. sessions[i] \in RowType
    BY <1>1
  <2>2. requests[sessions[i].by].pc = "done"
    BY DEF IInv, RowsHaveWriters
  <2>3. QED
    BY <2>1, <2>2 DEF RowType
<1>5. QED
  BY <1>3, <1>4

LEMMA StoreActiveIInv ==
  ASSUME IInv, TypeOK', NEW r \in Requests, StoreActive(r)
  PROVE  IInv'
<1> DEFINE s == requests[r].session
           row == Row(s, r, clock)
           n == Len(sessions) + 1
<1>1. /\ requests \in [Requests -> RequestType] /\ requests[r].pc = "store"
      /\ RequestInv(r) /\ UNCHANGED <<publishing, events>>
      /\ s \in Session /\ sessions \in Seq(RowType) /\ clock \in Nat
      /\ s.state = ActiveState /\ s.sid = r
  BY DEF IInv, TypeOK, StoreActive, RequestType, RequestInv, HeldState
<1>2. row \in RowType /\ row.state = ActiveState /\ row.sid = r /\ row.by = r
  BY <1>1, RowIsTyped DEF Row
<1>3. sessions' = Append(sessions, row)
  BY DEF StoreActive
<1> HIDE DEF row
<1>4. /\ n \in Nat /\ Len(sessions') = n /\ DOMAIN sessions = 1 .. n - 1
      /\ DOMAIN sessions' = 1 .. n /\ n \in DOMAIN sessions' /\ sessions'[n] = row
      /\ \A i \in DOMAIN sessions : sessions'[i] = sessions[i]
  BY <1>1, <1>2, <1>3, AppendedRow
<1>5. /\ requests'[r].pc = "done" /\ requests'[r].reply # "completed"
      /\ requests'[r].begun = requests[r].begun
      /\ \A q \in Requests \ {r} : requests'[q] = requests[q]
  BY <1>1 DEF StoreActive, Answer, RequestType
<1>6. /\ \A q \in Requests \ {r} : RequestInv(q)'
      /\ \A i \in DOMAIN sessions :
           /\ sessions[i].by \in Requests /\ sessions[i].by # r
           /\ requests'[sessions[i].by] = requests[sessions[i].by]
  BY <1>1, <1>2, <1>3, <1>5, InsertKeepsOthers
<1>7. RequestInv(r)'
  <2>1. requests[r].begun \in Nat /\ requests[r].begun <= n - 1
    BY <1>1 DEF RequestType, RequestInv, HeldState
  <2>2. requests'[r].begun <= Len(sessions')
    BY <1>4, <1>5, <2>1
  <2>3. QED
    BY <1>5, <2>2, DoneRequestInv
<1> HIDE DEF n
<1>8. ASSUME NEW i \in DOMAIN sessions'
      PROVE  \/ i = n /\ IsActive(i)' /\ ~IsCompleted(i)' /\ sessions'[i] = row
             \/ /\ i \in DOMAIN sessions /\ i < n /\ sessions'[i] = sessions[i]
                /\ IsActive(i)' <=> IsActive(i)
                /\ IsCompleted(i)' <=> IsCompleted(i)
  <2>1. CASE i = n
    BY <1>2, <1>4, <2>1 DEF IsActive, IsCompleted, ActiveState, CompletedState
  <2>2. CASE i # n
    <3>1. i \in DOMAIN sessions /\ i < n /\ sessions'[i] = sessions[i]
      BY <1>4, <2>2
    <3>2. (IsActive(i)' <=> IsActive(i)) /\ (IsCompleted(i)' <=> IsCompleted(i))
      BY <3>1 DEF IsActive, IsCompleted
    <3>3. QED
      BY <3>1, <3>2
  <2>3. QED
    BY <2>1, <2>2
<1>9. RowsHaveWriters'
  BY <1>2, <1>5, <1>6, <1>8 DEF IInv, RowsHaveWriters
<1>10. OneActiveRow'
  <2>1. \A i \in DOMAIN sessions : IsActive(i) => sessions[i].sid # r
    BY <1>6 DEF IInv, RowsHaveWriters
  <2>2. QED
    BY <1>2, <1>8, <2>1 DEF IInv, OneActiveRow, SameSession
<1>11. StartedBefore'
  BY <1>4, <1>8 DEF IInv, StartedBefore, SameSession, SameTest
<1>12. SecondCompletionOnlyInFlight'
  BY <1>6, <1>8 DEF IInv, SecondCompletionOnlyInFlight, SameSession
<1>13. AcknowledgedIsStored'
  <2>1. AcknowledgedIsStored
    BY DEF IInv, PublishedIsStored
  <2>2. ASSUME NEW q \in Requests, requests'[q].reply = "created"
        PROVE  \E i \in DOMAIN sessions' : IsActive(i)' /\ sessions'[i].sid = q
    <3>1. CASE q = r
      <4>1. \E i \in DOMAIN sessions' : sessions'[i] = row
        BY <1>4
      <4>2. QED
        BY <1>2, <3>1, <4>1 DEF IsActive
    <3>2. CASE q # r
      BY <1>4, <1>5, <2>1, <2>2, <3>2 DEF AcknowledgedIsStored, IsActive
    <3>3. QED
      BY <3>1, <3>2
  <2>3. ASSUME NEW q \in Requests, requests'[q].reply = "completed"
        PROVE  \E i \in DOMAIN sessions' : IsCompleted(i)' /\ sessions'[i].by = q
    BY <1>4, <1>5, <2>1, <2>3 DEF AcknowledgedIsStored, IsCompleted
  <2>4. ASSUME NEW e \in events'
        PROVE  \E i \in DOMAIN sessions' :
                 /\ IsCompleted(i)' /\ sessions'[i].by = e.by
                 /\ sessions'[i].user = e.user /\ sessions'[i].topics = e.topics
                 /\ (sessions'[i].passed <=> e.result.is_success)
    BY <1>1, <1>4, <2>1 DEF AcknowledgedIsStored, IsCompleted
  <2>5. QED
    BY <2>2, <2>3, <2>4 DEF AcknowledgedIsStored
<1>14. PublishedIsStored'
  <2>1. \A q \in publishing : q \in Requests /\ q # r /\ requests'[q] = requests[q]
    BY <1>1, <1>5 DEF IInv, TypeOK, PublishedIsStored
  <2>2. QED
    BY <1>1, <1>4, <1>13, <2>1 DEF IInv, PublishedIsStored, IsCompleted
<1>15. UnreadableRowsAreExpired'
  BY <1>8 DEF IInv, UnreadableRowsAreExpired, Unreadable
<1>16. QED
  BY <1>6, <1>7, <1>9, <1>10, <1>11, <1>12, <1>14, <1>15 DEF IInv

LEMMA StoreResultIInv ==
  ASSUME IInv, TypeOK', NEW r \in Requests, StoreResult(r)
  PROVE  IInv'
<1> DEFINE s == requests[r].session
           row == Row(s, r, clock)
           n == Len(sessions) + 1
<1>1. /\ requests \in [Requests -> RequestType] /\ requests[r].pc = "store result"
      /\ RequestInv(r) /\ UNCHANGED events
      /\ s \in Session /\ sessions \in Seq(RowType) /\ clock \in Nat
      /\ GetSessionResultAccepts(s) /\ s.state = CompletedState
  BY DEF IInv, TypeOK, StoreResult, RequestType, RequestInv, HeldState,
         GetSessionResultAccepts
<1>2. /\ row \in RowType /\ row.state = CompletedState /\ row.by = r
      /\ row.sid = s.sid /\ row.user = s.user /\ row.topics = s.topics
      /\ row.questions = s.questions /\ row.started = s.started
      /\ row.answers = s.answers /\ row.expired = s.expired
      /\ row.passed <=> GetSessionResult(s).is_success
  <2>1. row \in RowType
    BY <1>1, RowIsTyped
  <2>2. row.passed <=> GetSessionResult(s).is_success
    BY <1>1 DEF Row
  <2>3. QED
    BY <1>1, <2>1, <2>2 DEF Row
<1>3. sessions' = Append(sessions, row)
  BY DEF StoreResult
<1> HIDE DEF row
<1>4. /\ n \in Nat /\ Len(sessions') = n /\ DOMAIN sessions = 1 .. n - 1
      /\ DOMAIN sessions' = 1 .. n /\ n \in DOMAIN sessions' /\ sessions'[n] = row
      /\ \A i \in DOMAIN sessions : sessions'[i] = sessions[i]
  <2>1. sessions \in Seq(RowType) /\ row \in RowType
    BY <1>1, <1>2
  <2>2. QED
    BY <1>3, <2>1, AppendedRow
<1>5. /\ requests'[r].pc = "done" /\ requests'[r].reply # "created"
      /\ requests'[r].begun = requests[r].begun /\ requests'[r].session = s
      /\ \A q \in Requests \ {r} : requests'[q] = requests[q]
  <2>1. PICK reply \in {"completed", "internal"} : Answer(r, reply)
    BY DEF StoreResult
  <2>2. /\ requests'[r] = [requests[r] EXCEPT !.pc = "done", !.reply = reply]
        /\ \A q \in Requests \ {r} : requests'[q] = requests[q]
    BY <1>1, <2>1 DEF Answer
  <2>3. requests[r] \in RequestType
    BY <1>1
  <2>4. QED
    BY <2>2, <2>3 DEF RequestType
<1>6. /\ \A q \in Requests \ {r} : RequestInv(q)'
      /\ \A i \in DOMAIN sessions :
           /\ sessions[i].by \in Requests /\ sessions[i].by # r
           /\ requests'[sessions[i].by] = requests[sessions[i].by]
  BY <1>1, <1>2, <1>3, <1>5, InsertKeepsOthers
<1>7. RequestInv(r)'
  <2>1. requests[r].begun \in Nat /\ requests[r].begun <= n - 1
    <3>1. requests[r].begun \in Nat /\ Len(sessions) \in Nat
      <4>1. requests[r] \in RequestType /\ sessions \in Seq(RowType)
        BY <1>1
      <4>2. QED
        BY <4>1 DEF RequestType
    <3>2. requests[r].begun <= Len(sessions)
      BY <1>1 DEF RequestInv, HeldState
    <3>3. QED
      BY <3>1, <3>2
  <2>2. requests'[r].begun <= Len(sessions')
    BY <1>4, <1>5, <2>1
  <2>3. QED
    BY <1>5, <2>2, DoneRequestInv
<1> HIDE DEF n
<1>8. ASSUME NEW i \in DOMAIN sessions'
      PROVE  \/ i = n /\ IsCompleted(i)' /\ ~IsActive(i)' /\ sessions'[i] = row
             \/ /\ i \in DOMAIN sessions /\ i < n /\ sessions'[i] = sessions[i]
                /\ IsActive(i)' <=> IsActive(i)
                /\ IsCompleted(i)' <=> IsCompleted(i)
  <2>1. CASE i = n
    BY <1>2, <1>4, <2>1 DEF IsActive, IsCompleted, ActiveState, CompletedState
  <2>2. CASE i # n
    <3>1. i \in DOMAIN sessions /\ i < n /\ sessions'[i] = sessions[i]
      BY <1>4, <2>2
    <3>2. (IsActive(i)' <=> IsActive(i)) /\ (IsCompleted(i)' <=> IsCompleted(i))
      BY <3>1 DEF IsActive, IsCompleted
    <3>3. QED
      BY <3>1, <3>2
  <2>3. QED
    BY <2>1, <2>2
<1>9. RowsHaveWriters'
  BY <1>2, <1>5, <1>6, <1>8 DEF IInv, RowsHaveWriters
<1>10. OneActiveRow'
  BY <1>8 DEF IInv, OneActiveRow, SameSession
<1>11. StartedBefore'
  <2>1. PICK k \in DOMAIN sessions : HoldsTest(r, k)
    BY <1>1 DEF RequestInv, HeldStarted
  <2> SUFFICES ASSUME NEW i \in DOMAIN sessions', IsCompleted(i)'
               PROVE  \E j \in DOMAIN sessions' :
                        /\ j < i /\ IsActive(j)' /\ SameSession(i, j)'
                        /\ SameTest(i, j)'
    BY DEF StartedBefore
  <2>2. CASE i = n /\ sessions'[i] = row
    BY <1>2, <1>4, <2>1, <2>2 DEF HoldsTest, IsActive, SameSession, SameTest
  <2>3. CASE i \in DOMAIN sessions
    <3>1. i < n /\ IsCompleted(i)
      BY <1>4, <1>8, <2>3
    <3>2. PICK j \in DOMAIN sessions :
            j < i /\ IsActive(j) /\ SameSession(i, j) /\ SameTest(i, j)
      BY <2>3, <3>1 DEF IInv, StartedBefore
    <3>3. QED
      BY <1>4, <2>3, <3>2 DEF IsActive, SameSession, SameTest
  <2>4. QED
    BY <1>8, <2>2, <2>3
<1>12. SecondCompletionOnlyInFlight'
  <2> SUFFICES ASSUME NEW i \in DOMAIN sessions', NEW j \in DOMAIN sessions', i < j,
                      IsCompleted(i)', IsCompleted(j)', SameSession(i, j)'
               PROVE  requests'[sessions'[j].by].begun < i
    BY DEF SecondCompletionOnlyInFlight
  <2>1. i \in DOMAIN sessions /\ IsCompleted(i) /\ sessions'[i] = sessions[i]
    BY <1>4, <1>8
  <2>2. CASE j = n /\ sessions'[j] = row
    <3>1. sessions[i].sid = s.sid
      BY <1>2, <2>1, <2>2 DEF SameSession
    <3>2. requests[r].begun < i
      BY <1>1, <2>1, <3>1 DEF RequestInv, AttemptIsEarly, Attempting
    <3>3. QED
      BY <1>2, <1>5, <2>2, <3>2
  <2>3. CASE j \in DOMAIN sessions /\ sessions'[j] = sessions[j] /\ IsCompleted(j)
    BY <1>6, <2>1, <2>3 DEF IInv, SecondCompletionOnlyInFlight, SameSession
  <2>4. QED
    BY <1>8, <2>2, <2>3
<1>13. AcknowledgedIsStored'
  <2>1. AcknowledgedIsStored
    BY DEF IInv, PublishedIsStored
  <2>2. ASSUME NEW q \in Requests, requests'[q].reply = "created"
        PROVE  \E i \in DOMAIN sessions' : IsActive(i)' /\ sessions'[i].sid = q
    BY <1>4, <1>5, <2>1, <2>2 DEF AcknowledgedIsStored, IsActive
  <2>3. ASSUME NEW q \in Requests, requests'[q].reply = "completed"
        PROVE  \E i \in DOMAIN sessions' : IsCompleted(i)' /\ sessions'[i].by = q
    <3>1. CASE q = r
      <4>1. \E i \in DOMAIN sessions' : sessions'[i] = row
        BY <1>4
      <4>2. QED
        BY <1>2, <3>1, <4>1 DEF IsCompleted
    <3>2. CASE q # r
      BY <1>4, <1>5, <2>1, <2>3, <3>2 DEF AcknowledgedIsStored, IsCompleted
    <3>3. QED
      BY <3>1, <3>2
  <2>4. ASSUME NEW e \in events'
        PROVE  \E i \in DOMAIN sessions' :
                 /\ IsCompleted(i)' /\ sessions'[i].by = e.by
                 /\ sessions'[i].user = e.user /\ sessions'[i].topics = e.topics
                 /\ (sessions'[i].passed <=> e.result.is_success)
    <3>1. e \in events
      BY <1>1
    <3>2. PICK i \in DOMAIN sessions :
            /\ IsCompleted(i) /\ sessions[i].by = e.by
            /\ sessions[i].user = e.user /\ sessions[i].topics = e.topics
            /\ (sessions[i].passed <=> e.result.is_success)
      BY <2>1, <3>1 DEF AcknowledgedIsStored
    <3>3. i \in DOMAIN sessions' /\ sessions'[i] = sessions[i]
      BY <1>4
    <3>4. QED
      BY <3>2, <3>3 DEF IsCompleted
  <2>5. QED
    BY <2>2, <2>3, <2>4 DEF AcknowledgedIsStored
<1>14. PublishedIsStored'
  <2> SUFFICES ASSUME NEW q \in publishing'
               PROVE  /\ requests'[q].pc = "done"
                      /\ \E i \in DOMAIN sessions' :
                           /\ IsCompleted(i)' /\ sessions'[i].by = q
                           /\ sessions'[i].user = requests'[q].session.user
                           /\ sessions'[i].topics = requests'[q].session.topics
                           /\ (sessions'[i].passed <=>
                                 GetSessionResult(requests'[q].session).is_success)
    BY <1>13 DEF PublishedIsStored
  <2>1. CASE q = r
    <3>1. \E i \in DOMAIN sessions' : sessions'[i] = row
      BY <1>4
    <3>2. QED
      BY <1>2, <1>5, <2>1, <3>1 DEF IsCompleted
  <2>2. CASE q # r
    <3>1. q \in publishing
      BY <2>2 DEF StoreResult
    <3>2. requests'[q] = requests[q]
      BY <1>5, <2>2, <3>1 DEF IInv, TypeOK
    <3>3. QED
      BY <1>4, <3>1, <3>2 DEF IInv, PublishedIsStored, IsCompleted
  <2>3. QED
    BY <2>1, <2>2
<1>15. UnreadableRowsAreExpired'
  BY <1>1, <1>2, <1>8
  DEF IInv, UnreadableRowsAreExpired, Unreadable, GetSessionResultAccepts
<1>16. QED
  BY <1>6, <1>7, <1>9, <1>10, <1>11, <1>12, <1>14, <1>15 DEF IInv

(* Steps that leave the table and the requests alone.                       *)
LEMMA BackgroundStep ==
  ASSUME IInv, TypeOK', UNCHANGED <<sessions, requests>>, PublishedIsStored'
  PROVE  IInv'
<1>1. ASSUME NEW q \in Requests PROVE RequestInv(q)'
  <2>1. RequestInv(q)
    BY DEF IInv
  <2>2. QED
    BY <2>1 DEF RequestInv, HeldState, HeldStarted, HoldsTest, AttemptIsEarly,
                Attempting, IsActive, IsCompleted
<1>2. RowsHaveWriters' /\ OneActiveRow'
  BY DEF IInv, RowsHaveWriters, OneActiveRow, IsActive, IsCompleted, SameSession
<1>3. StartedBefore'
  BY DEF IInv, StartedBefore, IsActive, IsCompleted, SameSession, SameTest
<1>4. SecondCompletionOnlyInFlight' /\ UnreadableRowsAreExpired'
  BY DEF IInv, SecondCompletionOnlyInFlight, UnreadableRowsAreExpired, IsCompleted,
         SameSession, Unreadable
<1>5. QED
  BY <1>1, <1>2, <1>3, <1>4 DEF IInv

LEMMA PublishIInv ==
  ASSUME IInv, TypeOK', NEW r \in Requests, Publish(r)
  PROVE  IInv'
<1>1. /\ r \in publishing /\ publishing' \subseteq publishing
      /\ events' = events \cup {Event(r)} /\ UNCHANGED <<sessions, requests>>
  BY DEF Publish
<1>2. PICK i \in DOMAIN sessions :
        /\ IsCompleted(i) /\ sessions[i].by = r
        /\ sessions[i].user = requests[r].session.user
        /\ sessions[i].topics = requests[r].session.topics
        /\ (sessions[i].passed <=> GetSessionResult(requests[r].session).is_success)
  BY <1>1 DEF IInv, PublishedIsStored
<1>3. ASSUME NEW e \in events'
      PROVE  \E k \in DOMAIN sessions :
               /\ IsCompleted(k) /\ sessions[k].by = e.by
               /\ sessions[k].user = e.user /\ sessions[k].topics = e.topics
               /\ (sessions[k].passed <=> e.result.is_success)
  <2>1. CASE e \in events
    BY <2>1 DEF IInv, PublishedIsStored, AcknowledgedIsStored
  <2>2. CASE e = Event(r)
    <3>1. /\ e.by = r /\ e.user = requests[r].session.user
          /\ e.topics = requests[r].session.topics
          /\ e.result = GetSessionResult(requests[r].session)
      BY <2>2 DEF Event
    <3>2. QED
      BY <1>2, <3>1
  <2>3. QED
    BY <1>1, <2>1, <2>2
<1>4. AcknowledgedIsStored'
  BY <1>1, <1>3 DEF IInv, PublishedIsStored, AcknowledgedIsStored, IsActive, IsCompleted
<1>5. PublishedIsStored'
  BY <1>1, <1>4 DEF IInv, PublishedIsStored, IsCompleted
<1>6. QED
  BY <1>1, <1>5, BackgroundStep

LEMMA PublishFailsIInv ==
  ASSUME IInv, TypeOK', NEW r \in Requests, PublishFails(r)
  PROVE  IInv'
<1>1. /\ publishing' \subseteq publishing /\ UNCHANGED <<sessions, requests, events>>
  BY DEF PublishFails
<1>2. PublishedIsStored'
  BY <1>1
  DEF IInv, PublishedIsStored, AcknowledgedIsStored, IsActive, IsCompleted
<1>3. QED
  BY <1>1, <1>2, BackgroundStep

LEMMA IdleIInv ==
  ASSUME IInv, TypeOK', UNCHANGED <<sessions, requests, publishing, events>>
  PROVE  IInv'
<1>1. PublishedIsStored'
  BY DEF IInv, PublishedIsStored, AcknowledgedIsStored, IsActive, IsCompleted
<1>2. QED
  BY <1>1, BackgroundStep

LEMMA CrashIInv ==
  ASSUME IInv, TypeOK', Crash
  PROVE  IInv'
<1>1. /\ requests \in [Requests -> RequestType] /\ sessions \in Seq(RowType)
      /\ UNCHANGED <<sessions, events>> /\ publishing' = {}
  BY DEF IInv, TypeOK, Crash
<1>2. ASSUME NEW q \in Requests
      PROVE  \/ requests'[q] = requests[q]
             \/ /\ requests[q].pc # "done" /\ requests'[q].pc = "done"
                /\ requests'[q].reply = "aborted"
                /\ requests'[q].begun = requests[q].begun
  <2>1. requests[q] \in RequestType
    BY <1>1
  <2>2. QED
    BY <1>1, <2>1 DEF Crash, RequestType, Waiting
<1>3. ASSUME NEW q \in Requests PROVE RequestInv(q)'
  <2>1. RequestInv(q)
    BY DEF IInv
  <2>2. CASE requests'[q] = requests[q]
    BY <1>1, <2>1, <2>2
    DEF RequestInv, HeldState, HeldStarted, HoldsTest, AttemptIsEarly, Attempting,
        IsActive, IsCompleted
  <2>3. CASE requests'[q].pc = "done" /\ requests'[q].begun = requests[q].begun
    BY <1>1, <2>1, <2>3, DoneRequestInv DEF RequestInv, HeldState
  <2>4. QED
    BY <1>2, <2>2, <2>3
<1>4. \A i \in DOMAIN sessions :
        /\ sessions[i].by \in Requests
        /\ requests'[sessions[i].by] = requests[sessions[i].by]
  <2> SUFFICES ASSUME NEW i \in DOMAIN sessions
               PROVE  /\ sessions[i].by \in Requests
                      /\ requests'[sessions[i].by] = requests[sessions[i].by]
    OBVIOUS
  <2>1. sessions[i] \in RowType /\ requests[sessions[i].by].pc = "done"
    BY <1>1 DEF IInv, RowsHaveWriters
  <2>2. sessions[i].by \in Requests
    BY <2>1 DEF RowType
  <2>3. QED
    BY <1>2, <2>1, <2>2
<1>5. RowsHaveWriters' /\ OneActiveRow'
  BY <1>1, <1>4
  DEF IInv, RowsHaveWriters, OneActiveRow, IsActive, IsCompleted, SameSession
<1>6. StartedBefore' /\ UnreadableRowsAreExpired'
  BY <1>1
  DEF IInv, StartedBefore, UnreadableRowsAreExpired, IsActive, IsCompleted,
      SameSession, SameTest, Unreadable
<1>7. SecondCompletionOnlyInFlight'
  BY <1>1, <1>4 DEF IInv, SecondCompletionOnlyInFlight, IsCompleted, SameSession
<1>8. PublishedIsStored'
  <2>1. \A q \in Requests :
          requests'[q].reply = requests[q].reply \/ requests'[q].reply = "aborted"
    BY <1>2
  <2>2. AcknowledgedIsStored'
    BY <1>1, <2>1
    DEF IInv, PublishedIsStored, AcknowledgedIsStored, IsActive, IsCompleted
  <2>3. QED
    BY <1>1, <2>2 DEF PublishedIsStored
<1>9. QED
  BY <1>3, <1>5, <1>6, <1>7, <1>8 DEF IInv

LEMMA NextIInv == IInv /\ [Next]_vars => IInv'
<1> SUFFICES ASSUME IInv, [Next]_vars PROVE IInv'
  OBVIOUS
<1>1. TypeOK'
  BY NextTypeOK DEF IInv
<1>2. ASSUME NEW r \in Requests, Begin(r) PROVE IInv'
  BY <1>1, <1>2, BeginIInv
<1>3. ASSUME NEW r \in Requests, Serve(r) PROVE IInv'
  <2>1. CASE CallFails(r)
    BY <1>1, <2>1, RefusalStep DEF CallFails, Waiting, Replies
  <2>2. QED
    BY <1>1, <1>3, <2>1, LimitIInv, SelectIInv, StoreActiveIInv, LoadIInv, ApplyIInv,
       StoreResultIInv
    DEF Serve
<1>4. ASSUME NEW r \in Requests, Publish(r) \/ PublishFails(r) PROVE IInv'
  BY <1>1, <1>4, PublishIInv, PublishFailsIInv
<1>5. CASE Crash
  BY <1>1, <1>5, CrashIInv
<1>6. CASE Tick \/ UNCHANGED vars
  BY <1>1, <1>6, IdleIInv DEF Tick, vars
<1>7. QED
  BY <1>2, <1>3, <1>4, <1>5, <1>6 DEF Next

\* The inductive invariant: what a request holds of its session, who wrote a row
\* and in which order stay consistent through every interleaving and crash.
THEOREM InductiveInvariant == Spec => []IInv
BY InitIInv, NextIInv, PTL DEF Spec

\* However requests interleave, fail or are cut off, the end of a test is stored
\* only after its one start, for the same user, topics, questions and start time.
THEOREM CompletedWasStarted == Spec => []CompletedSessionWasStarted
<1>1. IInv => CompletedSessionWasStarted
  <2> SUFFICES ASSUME IInv, NEW i \in DOMAIN sessions, IsCompleted(i)
               PROVE  \E j \in 1 .. i - 1 :
                        /\ IsActive(j) /\ SameSession(i, j) /\ SameTest(i, j)
                        /\ \A k \in DOMAIN sessions :
                             IsActive(k) /\ SameSession(i, k) => k = j
    BY DEF CompletedSessionWasStarted
  <2>1. sessions \in Seq(RowType)
    BY DEF IInv, TypeOK
  <2>2. PICK j \in DOMAIN sessions :
          j < i /\ IsActive(j) /\ SameSession(i, j) /\ SameTest(i, j)
    BY DEF IInv, StartedBefore
  <2>3. j \in 1 .. i - 1
    BY <2>1, <2>2
  <2>4. \A k \in DOMAIN sessions : IsActive(k) /\ SameSession(i, k) => k = j
    BY <2>2 DEF IInv, OneActiveRow, SameSession
  <2>5. QED
    BY <2>2, <2>3, <2>4
<1>2. QED
  BY <1>1, InductiveInvariant, PTL

\* Only a request that had arrived before a session's first completion was stored
\* can store another: reading the latest row back shuts out every later request.
THEOREM SecondCompletionInFlight == Spec => []SecondCompletionOnlyInFlight
<1>1. IInv => SecondCompletionOnlyInFlight
  BY DEF IInv
<1>2. QED
  BY <1>1, InductiveInvariant, PTL

\* A session a client was told about is in the table, and an event the broker
\* holds tells the verdict of a stored completion.
THEOREM AcknowledgedStored == Spec => []AcknowledgedIsStored
<1>1. IInv => AcknowledgedIsStored
  BY DEF IInv, PublishedIsStored
<1>2. QED
  BY <1>1, InductiveInvariant, PTL

\* Answers to foreign questions are stored only with an expired session.
THEOREM UnreadableExpired == Spec => []UnreadableRowsAreExpired
<1>1. IInv => UnreadableRowsAreExpired
  BY DEF IInv
<1>2. QED
  BY <1>1, InductiveInvariant, PTL

-----------------------------------------------------------------------------
(* How far a request is from its end.                                       *)

LEMMA RankOfPc ==
  ASSUME NEW q
  PROVE  /\ q.pc = "idle" => RequestRank(q) = 4
         /\ q.pc \in {"limit", "load"} => RequestRank(q) = 3
         /\ q.pc \in {"questions", "apply"} => RequestRank(q) = 2
         /\ q.pc \in Inserting => RequestRank(q) = 1
         /\ q.pc = "done" => RequestRank(q) = 0
BY DEF RequestRank, Inserting

LEMMA RankIsNatural ==
  ASSUME NEW q \in RequestType
  PROVE  RequestRank(q) \in 0 .. 4 /\ (q.pc # "done" => RequestRank(q) >= 1)
<1>1. \/ q.pc \in {"idle", "done", "limit", "load", "questions", "apply"}
      \/ q.pc \in Inserting
  BY DEF RequestType, Waiting, Inserting
<1>2. q.pc \in Inserting => q.pc # "done"
  BY DEF Inserting
<1>3. QED
  BY <1>1, <1>2, RankOfPc

(* Every step of a request takes it nearer to its end and leaves the others *)
(* where they are.                                                          *)
LEMMA StepAdvances ==
  ASSUME TypeOK, NEW r \in Requests, Begin(r) \/ Serve(r)
  PROVE  /\ RequestRank(requests'[r]) < RequestRank(requests[r])
         /\ \A q \in Requests \ {r} : requests'[q] = requests[q]
<1> DEFINE pc == requests[r].pc
           next == requests'[r].pc
           Others == \A q \in Requests \ {r} : requests'[q] = requests[q]
<1>1. requests \in [Requests -> RequestType] /\ requests[r] \in RequestType
  BY DEF TypeOK
<1>2. ASSUME NEW reply \in Replies, Answer(r, reply) PROVE next = "done" /\ Others
  <2>1. /\ requests'[r] = [requests[r] EXCEPT !.pc = "done", !.reply = reply]
        /\ Others
    BY <1>1, <1>2, AnswerEffect
  <2>2. QED
    BY <1>1, <2>1 DEF RequestType
<1>3. ASSUME NEW t, NEW to, GotoWith(r, t, to) PROVE next = to /\ Others
  BY <1>1, <1>3 DEF GotoWith, RequestType
<1>4. CASE Begin(r)
  <2>1. ASSUME NEW user \in Users, ListCompleted(r, user)
        PROVE  next = "done" /\ Others
    <3>1. PICK reply \in {"aborted", "listed", "internal"} :
            requests'[r] = [requests[r] EXCEPT !.kind = "list", !.pc = "done",
                                               !.reply = reply]
      BY <1>1, <2>1, ListEffect
    <3>2. next = "done"
      BY <1>1, <3>1 DEF RequestType
    <3>3. QED
      BY <1>1, <2>1, <3>2, ListEffect
  <2>2. ASSUME NEW user, NEW topics, BeginCreate(r, user, topics)
        PROVE  next = "limit" /\ Others
    BY <1>1, <2>2 DEF BeginCreate, Arrive
  <2>3. ASSUME NEW sid, NEW answers, BeginComplete(r, sid, answers)
        PROVE  next = "load" /\ Others
    BY <1>1, <2>3 DEF BeginComplete, Arrive
  <2>4. ASSUME RefuseRequest(r) PROVE next = "done" /\ Others
    BY <1>2, <2>4 DEF RefuseRequest, Replies
  <2>5. next \in {"limit", "load", "done"} /\ Others
    BY <1>4, <2>1, <2>2, <2>3, <2>4
    DEF Begin
  <2>6. pc = "idle"
    BY <1>4 DEF Begin, BeginCreate, BeginComplete, ListCompleted, RefuseRequest
  <2>7. QED
    BY <2>5, <2>6, RankOfPc
<1>5. CASE CheckDailyLimit(r)
  <2>1. pc = "limit"
    BY <1>5 DEF CheckDailyLimit
  <2>2. Goto(r, "questions") => next = "questions" /\ Others
    BY <1>1 DEF Goto, RequestType
  <2>3. next \in {"questions", "done"} /\ Others
    BY <1>2, <1>5, <2>2 DEF CheckDailyLimit, Replies
  <2>4. QED
    BY <2>1, <2>3, RankOfPc
<1>6. CASE SelectQuestions(r)
  <2>1. pc = "questions" /\ (next \in Inserting \/ next = "done") /\ Others
    BY <1>2, <1>3, <1>6 DEF SelectQuestions, Replies, Inserting
  <2>2. QED
    BY <2>1, RankOfPc
<1>7. CASE LoadSession(r)
  <2>1. pc = "load" /\ next \in {"apply", "done"} /\ Others
    BY <1>2, <1>3, <1>7 DEF LoadSession, Replies
  <2>2. QED
    BY <2>1, RankOfPc
<1>8. CASE ApplyAnswers(r)
  <2>1. pc = "apply" /\ (next \in Inserting \/ next = "done") /\ Others
    BY <1>2, <1>3, <1>8 DEF ApplyAnswers, Replies, Inserting
  <2>2. QED
    BY <2>1, RankOfPc
<1>9. CASE StoreActive(r) \/ StoreResult(r) \/ CallFails(r)
  <2>1. pc # "done" /\ next = "done" /\ Others
    BY <1>2, <1>9 DEF StoreActive, StoreResult, CallFails, Replies, Waiting
  <2>2. QED
    BY <1>1, <2>1, RankOfPc, RankIsNatural
<1>10. QED
  BY <1>4, <1>5, <1>6, <1>7, <1>8, <1>9 DEF Serve

LEMMA NextAdvances ==
  ASSUME IInv, [Next]_vars, NEW r \in Requests,
         requests'[r] # requests[r] \/ IsPublishing(r)' # IsPublishing(r)
  PROVE  StepsOf(r)' < StepsOf(r)
<1> DEFINE before == RequestRank(requests[r])
           after == RequestRank(requests'[r])
<1>1. TypeOK /\ TypeOK' /\ requests[r] \in RequestType /\ requests'[r] \in RequestType
  BY NextTypeOK DEF IInv, TypeOK
<1>2. before \in 0 .. 4 /\ after \in 0 .. 4
  BY <1>1, RankIsNatural
<1>3. requests[r].pc # "done" => before >= 1 /\ IsPublishing(r) = 0
  <2>1. r \in publishing => requests[r].pc = "done"
    BY DEF IInv, PublishedIsStored
  <2>2. QED
    BY <1>1, <2>1, RankIsNatural DEF IsPublishing
<1>4. IsPublishing(r) \in 0 .. 1 /\ IsPublishing(r)' \in 0 .. 1
  BY DEF IsPublishing
<1>5. StepsOf(r) = 2 * before + IsPublishing(r) /\ StepsOf(r)' = 2 * after + IsPublishing(r)'
  BY DEF StepsOf
<1> HIDE DEF before, after
\* Two steps for a rank pay for the goroutine.
<1>6. ASSUME after < before PROVE StepsOf(r)' < StepsOf(r)
  <2>1. CASE IsPublishing(r)' <= IsPublishing(r)
    BY <1>2, <1>4, <1>5, <1>6, <2>1
  <2>2. CASE IsPublishing(r)' > IsPublishing(r)
    BY <1>2, <1>4, <1>5, <1>6, <2>2
  <2>3. QED
    BY <1>4, <2>1, <2>2
<1>7. ASSUME after = before, IsPublishing(r) = 1, IsPublishing(r)' = 0
      PROVE  StepsOf(r)' < StepsOf(r)
  BY <1>2, <1>5, <1>7
<1>8. ASSUME NEW q \in Requests, Begin(q) \/ Serve(q) PROVE StepsOf(r)' < StepsOf(r)
  <2>1. CASE q = r
    BY <1>1, <1>6, <1>8, <2>1, StepAdvances DEF before, after
  <2>2. CASE q # r
    <3>1. requests'[r] = requests[r]
      BY <1>1, <1>8, <2>2, StepAdvances
    <3>2. r \in publishing' <=> r \in publishing
      BY <1>8, <2>2 DEF Begin, Serve, BeginCreate, BeginComplete, ListCompleted,
         RefuseRequest, CheckDailyLimit, SelectQuestions, StoreActive, LoadSession,
         ApplyAnswers, StoreResult, CallFails
    <3>3. QED
      BY <3>1, <3>2 DEF IsPublishing
  <2>3. QED
    BY <2>1, <2>2
<1>9. ASSUME NEW q \in Requests, Publish(q) \/ PublishFails(q)
      PROVE  StepsOf(r)' < StepsOf(r)
  <2>1. requests'[r] = requests[r] /\ publishing' = publishing \ {q}
    BY <1>9 DEF Publish, PublishFails
  <2>2. IsPublishing(r) = 1 /\ IsPublishing(r)' = 0
    BY <2>1 DEF IsPublishing
  <2>3. QED
    BY <1>7, <2>1, <2>2 DEF before, after
<1>10. CASE Crash
  <2>1. \/ requests'[r] = requests[r] /\ requests[r].pc \notin Waiting
        \/ requests'[r] = [requests[r] EXCEPT !.pc = "done", !.reply = "aborted"]
    BY <1>1, <1>10, CrashEffect DEF TypeOK
  <2>2. IsPublishing(r)' = 0
    BY <1>10 DEF Crash, IsPublishing
  <2>3. CASE requests'[r] = requests[r]
    BY <1>4, <1>7, <2>2, <2>3 DEF before, after
  <2>4. CASE requests'[r] # requests[r]
    <3>1. requests'[r].pc = "done" /\ requests[r].pc # "done"
      <4>1. requests[r].pc \in Waiting
        BY <1>1, <1>10, <2>4 DEF Crash, TypeOK
      <4>2. QED
        BY <1>1, <2>1, <2>4, <4>1 DEF RequestType, Waiting
    <3>2. after = 0
      BY <3>1, RankOfPc DEF after
    <3>3. QED
      BY <1>2, <1>3, <1>6, <3>1, <3>2
  <2>5. QED
    BY <2>3, <2>4
<1>11. CASE Tick \/ UNCHANGED vars
  <2>1. requests' = requests /\ publishing' = publishing
    BY <1>11 DEF Tick, vars
  <2>2. QED
    BY <2>1 DEF IsPublishing
<1>12. QED
  BY <1>8, <1>9, <1>10, <1>11 DEF Next

\* A request and its publishing goroutine take nine steps at most, and each takes
\* them nearer to their end, whatever the others do: the decreasing half of
\* RequestsAreAnswered.  At most one goroutine is started for a request, so no
\* request publishes twice.
THEOREM ServiceOnlyAdvances == Spec => NothingStartsOver
<1>1. IInv /\ [Next]_vars =>
        [\A r \in Requests :
           requests'[r] # requests[r] \/ IsPublishing(r)' # IsPublishing(r) =>
             StepsOf(r)' < StepsOf(r)]_vars
  BY NextAdvances
<1>2. QED
  BY <1>1, InductiveInvariant, PTL DEF Spec, NothingStartsOver
=============================================================================
