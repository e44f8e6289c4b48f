--------------------------- MODULE QuestionService --------------------------
(***************************************************************************)
(* The question service: HTTP requests that run concurrently over the      *)
(* append-only table kvs.sessions, and the goroutines that publish results *)
(* to the message broker.  Sources: question/internal/cases, the Postgres  *)
(* adapter, and the handlers of question/internal/port/http/public.        *)
(*                                                                         *)
(* A request is a process: it keeps a program counter and the session it   *)
(* holds in memory, and every database call is a step of its own, so that  *)
(* other requests, the clock, a failing call and a crash come in between.  *)
(* A request is also the name of the session it creates.                   *)
(***************************************************************************)
EXTENDS SessionState

CONSTANTS
  Requests,        \* the HTTP requests of one behaviour
  Users,
  Topics,          \* the names in kvs.topics
  TopicChoices,    \* the topic sets a client may ask for
  Submissions,     \* the answer lists a client may send
  UnknownSession,  \* a session id the service never issued
  NoUser,          \* the user of a request that has loaded no session yet
  TopicDuration,   \* defaultTopicDuration, in minutes
  QuestionsLimit,  \* questions taken per topic
  DayLength,       \* minutes in a calendar day
  Instants         \* the readings of the clock

ASSUME ServiceAssumption ==
  /\ UnknownSession \notin Requests
  /\ NoUser \notin Users
  /\ Submissions \subseteq Seq([id : STRING, sel : Seq(STRING)])
  /\ TopicDuration \in Nat
  /\ QuestionsLimit \in Nat
  /\ DayLength \in Nat \ {0}
  /\ Instants \subseteq Nat

\* StoreSession writes the limit in nanoseconds, recoverSession reads the
\* number as microseconds.
LimitScale == 1000

VARIABLES
  clock,        \* minutes since the first midnight
  sessions,     \* the rows of kvs.sessions, in order of updated_at
  requests,     \* request -> its program counter, locals and reply
  publishing,   \* requests whose publishing goroutine is running
  events        \* what the broker accepted

vars == <<clock, sessions, requests, publishing, events>>

Day(t) == t \div DayLength

-----------------------------------------------------------------------------
(* The table.                                                              *)

(* StoreSession: one more row, whatever rows the session already has.  The  *)
(* result of a completed session is computed again for is_passed.  Only an  *)
(* active row carries the limit; the others get the column's serial, which  *)
(* nothing reads.  by is the request that wrote the row (a history          *)
(* variable).                                                               *)
Row(s, r, now) ==
  [sid |-> s.sid, user |-> s.user, topics |-> s.topics, state |-> s.state,
   questions |-> s.questions, started |-> s.started,
   limit |-> IF s.state = ActiveState THEN s.limit ELSE 0,
   answers |-> s.answers, expired |-> s.expired,
   passed |-> s.state = CompletedState /\ GetSessionResult(s).is_success,
   updated |-> now, by |-> r]

RowsOf(sid) == {i \in DOMAIN sessions : sessions[i].sid = sid}

\* A slip: ascending order, so that the oldest row is read back.
OldestRow(sid) ==
  sessions[CHOOSE i \in RowsOf(sid) : \A j \in RowsOf(sid) : i <= j]

\* ORDER BY updated_at DESC LIMIT 1.
LatestRow(sid) ==
  sessions[CHOOSE i \in RowsOf(sid) : \A j \in RowsOf(sid) : j <= i]

(* processingQuestionsRows: every row, or those read before the connection  *)
(* was lost, since rows.Err is not looked at.                               *)
QuestionsRead(qs) == SUBSET qs

\* A slip: WithNilState, and no ChangeState after it.
RecoverNilState(row, qs) ==
  [sid |-> row.sid, user |-> row.user, topics |-> row.topics,
   state |-> "nil", questions |-> qs, started |-> row.started,
   limit |-> LimitScale * row.limit, answers |-> row.answers,
   expired |-> row.expired]

\* A slip: WithStartedAt left out, so that the test begins when it is loaded.
RecoverFreshStart(row, qs) ==
  [sid |-> row.sid, user |-> row.user, topics |-> row.topics,
   state |-> row.state, questions |-> qs, started |-> clock,
   limit |-> LimitScale * row.limit, answers |-> row.answers,
   expired |-> row.expired]

(* recoverSession: the session of a row with the questions that could be    *)
(* read, its limit taken in another unit.                                   *)
Recover(row, qs) ==
  [sid |-> row.sid, user |-> row.user, topics |-> row.topics,
   state |-> row.state, questions |-> qs, started |-> row.started,
   limit |-> LimitScale * row.limit, answers |-> row.answers,
   expired |-> row.expired]

CompletedToday(i, user, topics, now) ==
  /\ sessions[i].state = CompletedState
  /\ sessions[i].user = user
  /\ sessions[i].topics \cap topics # {}
  /\ Day(sessions[i].updated) >= Day(now)

\* A slip: equality of the topic lists in place of their overlap.
DailyLimitSameTopics(user, topics, now) ==
  \E i \in DOMAIN sessions : /\ CompletedToday(i, user, topics, now)
                             /\ sessions[i].topics = topics

IsDailySessionLimitReached(user, topics, now) ==
  \E i \in DOMAIN sessions : CompletedToday(i, user, topics, now)

(* checkTopics.                                                             *)
TopicsExist(topics) == topics \subseteq Topics

(* GetQuesions: at most QuestionsLimit random questions of every topic.     *)
QuestionsOf(topic) == {q \in QuestionIds : Bank[q].topic = topic}

GetQuestions(topics) ==
  {qs \in SUBSET UNION {QuestionsOf(t) : t \in topics} :
     \A t \in topics :
       LET n == Cardinality(QuestionsOf(t))
       IN Cardinality(qs \cap QuestionsOf(t))
            = IF n <= QuestionsLimit THEN n ELSE QuestionsLimit}

-----------------------------------------------------------------------------
(* Requests.                                                               *)

(* What a request holds of a session before it has loaded it.               *)
Unloaded(sid) == NewSession(sid, NoUser, {})

NewRequest ==
  [kind |-> "none", pc |-> "idle", session |-> Unloaded(UnknownSession), answers |-> <<>>,
   begun |-> 0, sent |-> 0, reply |-> "none"]

Replies == {"none", "created", "completed", "listed", "forbidden", "not found",
            "invalid parameter", "invalid state", "internal", "aborted"}

Waiting == {"limit", "questions", "store", "load", "apply", "store result"}

Goto(r, pc) == requests' = [requests EXCEPT ![r].pc = pc]

GotoWith(r, s, pc) ==
  requests' = [requests EXCEPT ![r].pc = pc, ![r].session = s]

Answer(r, reply) ==
  requests' = [requests EXCEPT ![r].pc = "done", ![r].reply = reply]

(* A request arrives.  begun and sent (history variables) are the number of *)
(* rows and the time at that moment.                                        *)
Arrive(r, kind, pc, s, answers) ==
  requests' = [requests EXCEPT ![r] =
    [kind |-> kind, pc |-> pc, session |-> s, answers |-> answers,
     begun |-> Len(sessions), sent |-> clock, reply |-> "none"]]

(* The session ids a client can hold: those a reply carried.                *)
IssuedSessions == {q \in Requests : requests[q].reply = "created"}

-----------------------------------------------------------------------------
(* CreateSession.                                                          *)

BeginCreate(r, user, topics) ==
  /\ requests[r].pc = "idle"
  /\ NewSessionAccepts(topics)
  /\ Arrive(r, "create", "limit", NewSession(r, user, topics), <<>>)
  /\ UNCHANGED <<clock, sessions, publishing, events>>

\* An undecodable body, an empty list of topics, an answer with an empty id.
RefuseRequest(r) ==
  /\ requests[r].pc = "idle"
  /\ Answer(r, "invalid parameter")
  /\ UNCHANGED <<clock, sessions, publishing, events>>

CheckDailyLimit(r) ==
  LET s == requests[r].session
  IN /\ requests[r].pc = "limit"
     /\ IF IsDailySessionLimitReached(s.user, s.topics, clock)
          THEN Answer(r, "forbidden")
          ELSE Goto(r, "questions")
     /\ UNCHANGED <<clock, sessions, publishing, events>>

(* GetQuesions with checkTopics and the random choice, then SetQuestions,   *)
(* which starts the clock of the session.                                   *)
SelectQuestions(r) ==
  LET s == requests[r].session
  IN /\ requests[r].pc = "questions"
     /\ \/ /\ ~TopicsExist(s.topics)
           /\ Answer(r, "not found")
        \/ /\ TopicsExist(s.topics)
           /\ \E qs \in UNION {QuestionsRead(all) : all \in GetQuestions(s.topics)} :
                IF SetQuestionsAccepts(s, qs)
                  THEN GotoWith(r, SetQuestions(s, qs, TopicDuration, clock), "store")
                  ELSE Answer(r, "invalid parameter")
     /\ UNCHANGED <<clock, sessions, publishing, events>>

(* The insert; its answer may be lost to the timeout of the request.        *)
StoreActive(r) ==
  /\ requests[r].pc = "store"
  /\ sessions' = Append(sessions, Row(requests[r].session, r, clock))
  /\ \E reply \in {"created", "internal"} : Answer(r, reply)
  /\ UNCHANGED <<clock, publishing, events>>

-----------------------------------------------------------------------------
(* CompleteSession.                                                        *)

BeginComplete(r, sid, answers) ==
  /\ requests[r].pc = "idle"
  /\ Arrive(r, "complete", "load", Unloaded(sid), answers)
  /\ UNCHANGED <<clock, sessions, publishing, events>>

LoadSession(r) ==
  LET sid == requests[r].session.sid
  IN /\ requests[r].pc = "load"
     /\ \/ /\ RowsOf(sid) = {}
           /\ Answer(r, "not found")
        \/ /\ RowsOf(sid) # {}
           /\ \E qs \in QuestionsRead(LatestRow(sid).questions) :
                GotoWith(r, Recover(LatestRow(sid), qs), "apply")
     /\ UNCHANGED <<clock, sessions, publishing, events>>

(* SetUserAnswer and GetSessionResult on the loaded session, by the clock   *)
(* of this moment.                                                          *)
ApplyAnswers(r) ==
  LET s == requests[r].session
      t == SetUserAnswer(s, requests[r].answers, clock)
  IN /\ requests[r].pc = "apply"
     /\ \/ /\ ~SetUserAnswerAccepts(s)
           /\ Answer(r, "invalid state")
        \/ /\ SetUserAnswerAccepts(s)
           /\ IF GetSessionResultAccepts(t)
                THEN GotoWith(r, t, "store result")
                ELSE Answer(r, "invalid parameter")
     /\ UNCHANGED <<clock, sessions, publishing, events>>

\* A slip: the goroutine is started whether or not the insert answered.
StoreResultAlwaysPublish(r) ==
  /\ requests[r].pc = "store result"
  /\ \/ sessions' = Append(sessions, Row(requests[r].session, r, clock))
     \/ UNCHANGED sessions
  /\ publishing' = publishing \cup {r}
  /\ \E reply \in {"completed", "internal"} : Answer(r, reply)
  /\ UNCHANGED <<clock, events>>

(* The insert; on success the decorator starts the publishing goroutine     *)
(* before the reply.  An insert whose answer is lost publishes nothing.     *)
StoreResult(r) ==
  /\ requests[r].pc = "store result"
  /\ sessions' = Append(sessions, Row(requests[r].session, r, clock))
  /\ \/ /\ publishing' = publishing \cup {r}
        /\ Answer(r, "completed")
     \/ /\ UNCHANGED publishing
        /\ Answer(r, "internal")
  /\ UNCHANGED <<clock, events>>

-----------------------------------------------------------------------------
(* Publishing, failures, the other reads, and time.                        *)

Event(r) ==
  LET s == requests[r].session
  IN [by |-> r, user |-> s.user, topics |-> s.topics,
      result |-> GetSessionResult(s)]

\* The goroutine of SessionServiceBusDecorator.CompleteSession.
Publish(r) ==
  /\ r \in publishing
  /\ publishing' = publishing \ {r}
  /\ events' = events \cup {Event(r)}
  /\ UNCHANGED <<clock, sessions, requests>>

\* The broker refuses, or the goroutine's timeout expires: the error is logged.
PublishFails(r) ==
  /\ r \in publishing
  /\ publishing' = publishing \ {r}
  /\ UNCHANGED <<clock, sessions, requests, events>>

\* A slip: the request starts over when a call fails.
CallFailsRetries(r) ==
  /\ requests[r].pc \in Waiting
  /\ Goto(r, IF requests[r].kind = "create" THEN "limit" ELSE "load")
  /\ UNCHANGED <<clock, sessions, publishing, events>>

(* A database call fails, or its context has expired, without effect.       *)
CallFails(r) ==
  /\ requests[r].pc \in Waiting
  /\ Answer(r, "internal")
  /\ UNCHANGED <<clock, sessions, publishing, events>>

CompletedRowsOf(user) ==
  {i \in DOMAIN sessions : /\ sessions[i].user = user
                           /\ sessions[i].state = CompletedState}

(* The handler's loop over the sessions of those rows: an answer whose      *)
(* question is not among the session's own, or was not read, has no subject *)
(* to look up, and the handler panics (the reply is cut off).               *)
Unreadable(i) == HasUnknownId(sessions[i].questions, sessions[i].answers)

ListReplies(rows) ==
  {"internal"}
  \cup (IF \E i \in rows : Unreadable(i) THEN {} ELSE {"listed"})
  \cup (IF \E i \in rows : \E qs \in QuestionsRead(sessions[i].questions) :
             HasUnknownId(qs, sessions[i].answers) THEN {"aborted"} ELSE {})

ListCompleted(r, user) ==
  /\ requests[r].pc = "idle"
  /\ \E reply \in ListReplies(CompletedRowsOf(user)) :
       requests' = [requests EXCEPT ![r].kind = "list", ![r].pc = "done",
                                    ![r].reply = reply]
  /\ UNCHANGED <<clock, sessions, publishing, events>>

(* The process dies and is started again: requests in flight are cut off,   *)
(* goroutines vanish, the table and the broker stay.                        *)
Crash ==
  /\ \/ publishing # {}
     \/ \E r \in Requests : requests[r].pc \in Waiting
  /\ requests' = [r \in Requests |->
       IF requests[r].pc \in Waiting
         THEN [requests[r] EXCEPT !.pc = "done", !.reply = "aborted"]
         ELSE requests[r]]
  /\ publishing' = {}
  /\ UNCHANGED <<clock, sessions, events>>

Tick ==
  /\ \E t \in Instants : t > clock /\ clock' = t
  /\ UNCHANGED <<sessions, requests, publishing, events>>

Init ==
  /\ clock \in {t \in Instants : \A u \in Instants : t <= u}
  /\ sessions = <<>>
  /\ requests = [r \in Requests |-> NewRequest]
  /\ publishing = {}
  /\ events = {}

\* The steps a request takes once it has arrived.
Serve(r) ==
  \/ CheckDailyLimit(r)
  \/ SelectQuestions(r)
  \/ StoreActive(r)
  \/ LoadSession(r)
  \/ ApplyAnswers(r)
  \/ StoreResult(r)
  \/ CallFails(r)

Begin(r) ==
  \/ \E user \in Users, topics \in TopicChoices : BeginCreate(r, user, topics)
  \/ \E sid \in IssuedSessions \cup {UnknownSession}, answers \in Submissions :
       BeginComplete(r, sid, answers)
  \/ \E user \in Users : ListCompleted(r, user)
  \/ RefuseRequest(r)

Next ==
  \/ \E r \in Requests : \/ Begin(r)
                         \/ Serve(r)
                         \/ Publish(r)
                         \/ PublishFails(r)
  \/ Crash
  \/ Tick

Spec == Init /\ [][Next]_vars

(* Every call of a request and of a publishing goroutine runs under a       *)
(* context with a timeout, so it ends: with its effect or with an error.    *)
Fairness ==
  \A r \in Requests : WF_vars(Serve(r)) /\ WF_vars(Publish(r) \/ PublishFails(r))

FairSpec == Spec /\ Fairness

-----------------------------------------------------------------------------
(* Types.                                                                  *)

States == {InitState, ActiveState, CompletedState}

SessionIds == Requests \cup {UnknownSession}

Session ==
  [sid : SessionIds, user : Users \cup {NoUser},
   topics : SUBSET UNION TopicChoices, state : States,
   questions : SUBSET QuestionIds, started : Nat, limit : Nat,
   answers : Submissions \cup {<<>>}, expired : BOOLEAN]

RowType ==
  [sid : SessionIds, user : Users \cup {NoUser},
   topics : SUBSET UNION TopicChoices, state : States,
   questions : SUBSET QuestionIds, started : Nat, limit : Nat,
   answers : Submissions \cup {<<>>}, expired : BOOLEAN,
   passed : BOOLEAN, updated : Nat, by : Requests]

RequestType ==
  [kind : {"none", "create", "complete", "list"}, pc : {"idle", "done"} \cup Waiting,
   session : Session, answers : Submissions \cup {<<>>}, begun : Nat,
   sent : Nat, reply : Replies]

TypeOK ==
  /\ clock \in Nat
  /\ sessions \in Seq(RowType)
  /\ requests \in [Requests -> RequestType]
  /\ publishing \subseteq Requests
  /\ \A e \in events : e.by \in Requests

-----------------------------------------------------------------------------
(* Properties.                                                             *)

IsActive(i) == sessions[i].state = ActiveState
IsCompleted(i) == sessions[i].state = CompletedState
SameSession(i, j) == sessions[i].sid = sessions[j].sid

\* What the completion i may not change of the session begun with row j.
SameTest(i, j) ==
  /\ sessions[i].user = sessions[j].user
  /\ sessions[i].topics = sessions[j].topics
  /\ sessions[i].questions \subseteq sessions[j].questions
  /\ sessions[i].started = sessions[j].started

\* Every completed row stands after the one active row of its session, for the
\* same user, topics and start and no question the session did not have: however
\* requests interleave, fail or are cut off, StoreSession never records the end
\* of a test nobody began.
CompletedSessionWasStarted ==
  \A i \in DOMAIN sessions : IsCompleted(i) =>
    \E j \in 1 .. i - 1 :
      /\ IsActive(j) /\ SameSession(i, j) /\ SameTest(i, j)
      /\ \A k \in DOMAIN sessions : IsActive(k) /\ SameSession(i, k) => k = j

\* A session is completed a second time only by a request that had arrived
\* before the first completion was stored: the read of the latest row and
\* ErrInvalidState shut out every later one.
SecondCompletionOnlyInFlight ==
  \A i, j \in DOMAIN sessions :
    i < j /\ IsCompleted(i) /\ IsCompleted(j) /\ SameSession(i, j) =>
      requests[sessions[j].by].begun < i

\* The answers of a completed session are not modified (docs/DIAGRAMS.md, state
\* CompletedState): a session has one completed row.
CompletedOnce ==
  \A i, j \in DOMAIN sessions :
    IsCompleted(i) /\ IsCompleted(j) /\ SameSession(i, j) => i = j

\* A client that was told its session is created or completed finds it in the
\* table, and every event the broker holds tells the verdict of a completed row
\* of the same user and topics, written by the request that published it.
AcknowledgedIsStored ==
  /\ \A r \in Requests :
       /\ requests[r].reply = "created" =>
            \E i \in DOMAIN sessions : IsActive(i) /\ sessions[i].sid = r
       /\ requests[r].reply = "completed" =>
            \E i \in DOMAIN sessions : IsCompleted(i) /\ sessions[i].by = r
  /\ \A e \in events : \E i \in DOMAIN sessions :
       /\ IsCompleted(i) /\ sessions[i].by = e.by
       /\ sessions[i].user = e.user /\ sessions[i].topics = e.topics
       /\ (sessions[i].passed <=> e.result.is_success)

\* Two rows that count against the same daily limit.
SameLimit(i, j) ==
  /\ sessions[i].user = sessions[j].user
  /\ sessions[i].topics \cap sessions[j].topics # {}
  /\ Day(sessions[i].updated) = Day(sessions[j].updated)

\* Once a test is completed, no request that arrives later the same day starts
\* one for the same user with a topic in common: the limit check is made steps
\* before the insert and against the calendar day of its own moment
\* (test/l2/question_l2_test.go:306 expects 403).
NoStartAfterCompletion ==
  \A i, j \in DOMAIN sessions :
    /\ IsCompleted(i) /\ IsActive(j) /\ SameLimit(i, j)
    => requests[sessions[j].by].begun < i

\* The effective limit: answers that arrive after it are stored as expired, and
\* what is stored as expired was stored after it and did not pass.
ExpiryIsSound ==
  \A i, j \in DOMAIN sessions :
    IsActive(j) /\ IsCompleted(i) /\ SameSession(i, j) =>
      LET deadline == sessions[j].started + LimitScale * sessions[j].limit
      IN /\ requests[sessions[i].by].sent > deadline => sessions[i].expired
         /\ sessions[i].expired =>
              sessions[i].updated > deadline /\ ~sessions[i].passed

\* The documented limit (docs/API.md:213-215): answers sent more than
\* TopicDuration minutes after the start end the session as expired.
LateAnswersExpire ==
  \A i \in DOMAIN sessions :
    /\ IsCompleted(i)
    /\ requests[sessions[i].by].sent > sessions[i].started + TopicDuration
    => sessions[i].expired

\* Only an expired session is stored with answers to questions that are not its
\* own: the list of completed tests is cut off by no other row.
UnreadableRowsAreExpired ==
  \A i \in DOMAIN sessions :
    IsCompleted(i) /\ Unreadable(i) => sessions[i].expired

\* A request for the completed tests of a user is answered with the list (the
\* handler documents 200, 400, 404 and 500).
ListIsAnswered ==
  \A r \in Requests : requests[r].kind = "list" => requests[r].reply # "aborted"

(* The inductive invariant behind these properties.                         *)

\* The state of the session a request holds fits what the request does next, and
\* a session about to be stored as completed has a result.
HeldState(r) ==
  LET q == requests[r]
  IN /\ q.pc \in {"limit", "questions"} => q.session.state = InitState
     /\ q.pc = "store" => q.session.state = ActiveState
     /\ q.pc \in {"limit", "questions", "store"} => q.session.sid = r
     /\ q.pc = "store result" => GetSessionResultAccepts(q.session)
     /\ q.begun <= Len(sessions)
     /\ q.pc # "done" => q.reply = "none"

\* Row j is the active row of the session request r holds.
HoldsTest(r, j) ==
  /\ IsActive(j)
  /\ sessions[j].sid = requests[r].session.sid
  /\ sessions[j].user = requests[r].session.user
  /\ sessions[j].topics = requests[r].session.topics
  /\ requests[r].session.questions \subseteq sessions[j].questions
  /\ sessions[j].started = requests[r].session.started

HeldStarted(r) ==
  requests[r].pc \in {"apply", "store result"} =>
    \E j \in DOMAIN sessions : HoldsTest(r, j)

\* A request that holds an active session arrived before any completion of it.
Attempting(r) ==
  \/ requests[r].pc = "apply" /\ requests[r].session.state = ActiveState
  \/ requests[r].pc = "store result"

AttemptIsEarly(r) ==
  Attempting(r) =>
    \A i \in DOMAIN sessions :
      IsCompleted(i) /\ sessions[i].sid = requests[r].session.sid =>
        requests[r].begun < i

RequestInv(r) == HeldState(r) /\ HeldStarted(r) /\ AttemptIsEarly(r)

\* Only active and completed sessions are stored, by requests that are done; an
\* active row is written by the request that created the session.
RowsHaveWriters ==
  \A i \in DOMAIN sessions :
    /\ IsActive(i) \/ IsCompleted(i)
    /\ requests[sessions[i].by].pc = "done"
    /\ IsActive(i) => sessions[i].sid = sessions[i].by

OneActiveRow ==
  \A i, j \in DOMAIN sessions :
    IsActive(i) /\ IsActive(j) /\ SameSession(i, j) => i = j

StartedBefore ==
  \A i \in DOMAIN sessions : IsCompleted(i) =>
    \E j \in DOMAIN sessions :
      j < i /\ IsActive(j) /\ SameSession(i, j) /\ SameTest(i, j)

\* What a publishing goroutine or an event tells is in the table.
PublishedIsStored ==
  /\ \A r \in publishing :
       /\ requests[r].pc = "done"
       /\ \E i \in DOMAIN sessions :
            /\ IsCompleted(i) /\ sessions[i].by = r
            /\ sessions[i].user = requests[r].session.user
            /\ sessions[i].topics = requests[r].session.topics
            /\ (sessions[i].passed <=> GetSessionResult(requests[r].session).is_success)
  /\ AcknowledgedIsStored

\* The conjunction is inductive: it implies CompletedSessionWasStarted,
\* SecondCompletionOnlyInFlight, AcknowledgedIsStored and
\* UnreadableRowsAreExpired, none of which is preserved on its own.
IInv ==
  /\ TypeOK
  /\ \A r \in Requests : RequestInv(r)
  /\ RowsHaveWriters
  /\ OneActiveRow
  /\ StartedBefore
  /\ SecondCompletionOnlyInFlight
  /\ PublishedIsStored
  /\ UnreadableRowsAreExpired

(* What the requests know of the time, inductive together with IInv.        *)

\* Between the check of the daily limit and the insert, every completed row that
\* would now refuse the request came after the request had arrived.
LimitStillHolds(r) ==
  LET q == requests[r]
  IN q.pc \in {"questions", "store"} =>
       \A i \in DOMAIN sessions :
         CompletedToday(i, q.session.user, q.session.topics, clock) => q.begun < i

\* A loaded session keeps the deadline of its active row, and a session about to
\* be stored as completed is expired if the answers arrived after the deadline,
\* and only if the deadline has passed.
DeadlineIsHeld(r) ==
  LET q == requests[r]
      deadline == q.session.started + q.session.limit
  IN /\ q.sent <= clock
     /\ Attempting(r) =>
          \A j \in DOMAIN sessions :
            IsActive(j) /\ sessions[j].sid = q.session.sid =>
              q.session.limit = LimitScale * sessions[j].limit
     /\ q.pc = "store result" =>
          /\ q.sent > deadline => q.session.expired
          /\ q.session.expired => clock > deadline

\* With IInv it implies NoStartAfterCompletion and ExpiryIsSound, which are not
\* inductive: between the check or the load and the insert, time passes and other
\* requests write.
TimeInv ==
  /\ \A r \in Requests : LimitStillHolds(r) /\ DeadlineIsHeld(r)
  /\ NoStartAfterCompletion
  /\ ExpiryIsSound

-----------------------------------------------------------------------------
(* How far a request is from its end.                                       *)

Inserting == {"store", "store result"}

RequestRank(q) ==
  CASE q.pc = "idle" -> 4
    [] q.pc \in {"limit", "load"} -> 3
    [] q.pc \in {"questions", "apply"} -> 2
    [] q.pc \in Inserting -> 1
    [] q.pc = "done" -> 0

IsPublishing(r) == IF r \in publishing THEN 1 ELSE 0

\* The steps that a request and its publishing goroutine have still to take, at
\* most.
StepsOf(r) == 2 * RequestRank(requests[r]) + IsPublishing(r)

\* No call is tried again, whoever fails or is cut off, and a goroutine is started
\* only by a request that ends with that step.
NothingStartsOver ==
  [][\A r \in Requests :
       requests'[r] # requests[r] \/ IsPublishing(r)' # IsPublishing(r) =>
         StepsOf(r)' < StepsOf(r)]_vars

-----------------------------------------------------------------------------
(* The service as an implementation of SessionLifecycle: the status of a    *)
(* session is the state of its latest row, an attempt is a request that     *)
(* loaded it active and has not stored a result, a verdict is a completed   *)
(* row, and an announced verdict is an event.                               *)
StatusOf(sid) ==
  IF RowsOf(sid) = {} THEN "none"
  ELSE IF \E i \in RowsOf(sid) : IsCompleted(i) THEN "completed" ELSE "active"

LifecycleStatus == [sid \in Requests |-> StatusOf(sid)]

LifecycleAttempts ==
  {<<requests[r].session.sid, r>> : r \in {q \in Requests : Attempting(q)}}

LifecycleVerdicts ==
  {<<sessions[i].sid, sessions[i].by, sessions[i].passed>> :
     i \in {j \in DOMAIN sessions : IsCompleted(j)}}

LifecycleAnnounced ==
  {<<requests[e.by].session.sid, e.by, e.result.is_success>> : e \in events}

Lifecycle ==
  INSTANCE SessionLifecycle WITH
    Sessions <- Requests,         Attempts  <- Requests,
    status   <- LifecycleStatus,  attempts  <- LifecycleAttempts,
    verdicts <- LifecycleVerdicts, announced <- LifecycleAnnounced

\* The service implements SessionLifecycle: through interleaved requests, failed
\* calls and crashes, sessions start once, no completion begins after a verdict,
\* and what is published was recorded.
ImplementsLifecycle == Lifecycle!Spec

\* Every request that arrives is replied to, and every publishing goroutine
\* ends: no call waits on another request.
RequestsAreAnswered ==
  \A r \in Requests :
    /\ requests[r].pc \in Waiting ~> requests[r].pc = "done"
    /\ r \in publishing ~> r \notin publishing
=============================================================================
