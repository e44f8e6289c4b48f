--------------------- MODULE QuestionServiceTimeProofs ----------------------
(***************************************************************************)
(* Theorems about the question service and time: the daily limit and the   *)
(* deadline of a session, for every clock, day length and duration.        *)
(***************************************************************************)
EXTENDS QuestionServiceProofs

-----------------------------------------------------------------------------
(* Calendar days.                                                          *)

LEMMA DayMonotone ==
  ASSUME NEW a \in Nat, NEW b \in Nat, a <= b
  PROVE  Day(a) <= Day(b) /\ Day(a) \in Nat /\ Day(b) \in Nat
<1> DEFINE d == DayLength
           x == a \div d
           y == b \div d
<1>1. d \in Nat \ {0}
  BY ServiceAssumption
<1>2. x \in Nat /\ y \in Nat
  BY <1>1
<1>3. d * x <= a /\ b < d * y + d
  BY <1>1
<1> HIDE DEF d, x, y
<1>4. d * x < d * (y + 1)
  <2>1. d * (y + 1) = d * y + d /\ d * x \in Nat /\ d * y \in Nat
    BY <1>1, <1>2
  <2>2. QED
    BY <1>1, <1>2, <1>3, <2>1
<1>5. x <= y
  <2> SUFFICES ASSUME y + 1 <= x PROVE FALSE
    BY <1>2
  <2>1. d * (y + 1) <= d * x
    BY <1>1, <1>2
  <2>2. QED
    BY <1>1, <1>2, <1>4, <2>1
<1>6. QED
  BY <1>2, <1>5 DEF Day, d, x, y

(* A completed row of an earlier day stays one of an earlier day.           *)
LEMMA CompletedTodayShrinks ==
  ASSUME TypeOK, clock' \in Nat, clock <= clock', NEW i \in DOMAIN sessions,
         NEW user, NEW topics, CompletedToday(i, user, topics, clock')
  PROVE  CompletedToday(i, user, topics, clock)
<1>1. sessions[i] \in RowType /\ clock \in Nat
  BY DEF TypeOK
<1>2. Day(clock) <= Day(clock') /\ Day(clock) \in Nat /\ Day(clock') \in Nat
  BY <1>1, DayMonotone
<1>3. sessions[i].updated \in Nat
  BY <1>1 DEF RowType
<1>4. Day(sessions[i].updated) \in Nat
  BY <1>3, DayMonotone
<1>5. Day(sessions[i].updated) >= Day(clock)
  BY <1>2, <1>4 DEF CompletedToday
<1>6. QED
  BY <1>5 DEF CompletedToday

-----------------------------------------------------------------------------
(* Requests that keep, or no longer need, what they know of the time.       *)

TimedRequest(r) == LimitStillHolds(r) /\ DeadlineIsHeld(r)

LEMMA IdleTimed ==
  ASSUME NEW r \in Requests, requests'[r].sent <= clock',
         requests'[r].pc \in {"idle", "limit", "load", "done"}
  PROVE  TimedRequest(r)'
BY DEF TimedRequest, LimitStillHolds, DeadlineIsHeld, Attempting

(* Time passes, and the request does nothing.                               *)
LEMMA KeptTimed ==
  ASSUME TypeOK, TypeOK', NEW r \in Requests, TimedRequest(r),
         clock <= clock', UNCHANGED sessions, requests'[r] = requests[r]
  PROVE  TimedRequest(r)'
<1> DEFINE q == requests[r]
           deadline == q.session.started + q.session.limit
<1>1. q \in RequestType /\ clock \in Nat /\ clock' \in Nat
  BY DEF TypeOK
<1>2. q.sent \in Nat /\ q.session \in Session
  BY <1>1 DEF RequestType
<1>3. deadline \in Nat
  BY <1>2 DEF Session
<1>4. LimitStillHolds(r)'
  <2> SUFFICES ASSUME q.pc \in {"questions", "store"}, NEW i \in DOMAIN sessions,
                      CompletedToday(i, q.session.user, q.session.topics, clock')
               PROVE  q.begun < i
    BY DEF LimitStillHolds, CompletedToday
  <2>1. CompletedToday(i, q.session.user, q.session.topics, clock)
    BY <1>1, CompletedTodayShrinks
  <2>2. QED
    BY <2>1 DEF TimedRequest, LimitStillHolds
<1>5. DeadlineIsHeld(r)'
  <2>1. q.sent <= clock'
    <3>1. q.sent <= clock
      BY DEF TimedRequest, DeadlineIsHeld
    <3>2. QED
      BY <1>1, <1>2, <3>1
  <2>2. ASSUME Attempting(r)', NEW j \in DOMAIN sessions, IsActive(j)',
               sessions[j].sid = q.session.sid
        PROVE  q.session.limit = LimitScale * sessions[j].limit
    BY <2>2 DEF TimedRequest, DeadlineIsHeld, Attempting, IsActive
  <2>3. q.pc = "store result" =>
          /\ q.sent > deadline => q.session.expired
          /\ q.session.expired => clock' > deadline
    <3>1. q.pc = "store result" =>
            /\ q.sent > deadline => q.session.expired
            /\ q.session.expired => clock > deadline
      BY DEF TimedRequest, DeadlineIsHeld
    <3>2. clock > deadline => clock' > deadline
      <4> HIDE DEF deadline
      <4>1. QED
        BY <1>1, <1>3
    <3>3. QED
      BY <3>1, <3>2
  <2>4. QED
    BY <2>1, <2>2, <2>3 DEF DeadlineIsHeld
<1>6. QED
  BY <1>4, <1>5 DEF TimedRequest

(* The writers of rows are done, and a step that stores nothing changes     *)
(* neither when they arrived nor the rows.                                  *)
LEMMA TableKept ==
  ASSUME IInv, TimeInv, UNCHANGED sessions,
         \A i \in DOMAIN sessions :
           requests'[sessions[i].by].begun = requests[sessions[i].by].begun
           /\ requests'[sessions[i].by].sent = requests[sessions[i].by].sent
  PROVE  NoStartAfterCompletion' /\ ExpiryIsSound'
<1>1. NoStartAfterCompletion'
  BY DEF TimeInv, NoStartAfterCompletion, IsCompleted, IsActive, SameLimit
<1>2. ExpiryIsSound'
  BY DEF TimeInv, ExpiryIsSound, IsCompleted, IsActive, SameSession
<1>3. QED
  BY <1>1, <1>2

(* A step of one request that is not done and stores nothing.               *)
LEMMA QuietTime ==
  ASSUME IInv, TimeInv, TypeOK', NEW r \in Requests, requests[r].pc # "done",
         UNCHANGED <<sessions, clock>>,
         \A q \in Requests \ {r} : requests'[q] = requests[q],
         TimedRequest(r)'
  PROVE  TimeInv'
<1>1. \A i \in DOMAIN sessions :
        sessions[i].by \in Requests /\ sessions[i].by # r
  <2>1. \A i \in DOMAIN sessions : sessions[i] \in RowType
    BY DEF IInv, TypeOK
  <2>2. \A i \in DOMAIN sessions : requests[sessions[i].by].pc = "done"
    BY DEF IInv, RowsHaveWriters
  <2>3. QED
    BY <2>1, <2>2 DEF RowType
<1>2. NoStartAfterCompletion' /\ ExpiryIsSound'
  BY <1>1, TableKept
<1>3. ASSUME NEW q \in Requests PROVE TimedRequest(q)'
  <2>1. CASE q = r
    BY <2>1
  <2>2. CASE q # r
    <3>1. TimedRequest(q) /\ requests'[q] = requests[q] /\ TypeOK
      BY <2>2 DEF TimeInv, TimedRequest, IInv
    <3>2. clock <= clock'
      BY DEF IInv, TypeOK
    <3>3. QED
      BY <3>1, <3>2, KeptTimed
  <2>3. QED
    BY <2>1, <2>2
<1>4. QED
  BY <1>2, <1>3 DEF TimeInv, TimedRequest

(* A request that ends without a row.                                       *)
LEMMA EndedTime ==
  ASSUME IInv, TimeInv, TypeOK', NEW r \in Requests, requests[r].pc # "done",
         UNCHANGED <<sessions, clock>>, NEW reply \in Replies, Answer(r, reply)
  PROVE  TimeInv'
<1>1. requests \in [Requests -> RequestType] /\ requests[r].sent <= clock
  BY DEF IInv, TypeOK, TimeInv, DeadlineIsHeld
<1>2. /\ requests'[r] = [requests[r] EXCEPT !.pc = "done", !.reply = reply]
      /\ \A q \in Requests \ {r} : requests'[q] = requests[q]
  BY <1>1, AnswerEffect
<1>3. requests'[r].pc = "done" /\ requests'[r].sent = requests[r].sent
  BY <1>1, <1>2 DEF RequestType
<1>4. TimedRequest(r)'
  BY <1>1, <1>3, IdleTimed
<1>5. QED
  BY <1>2, <1>4, QuietTime

-----------------------------------------------------------------------------
(* The steps of a request.                                                 *)

LEMMA InitTime == Init => TimeInv
<1> SUFFICES ASSUME Init PROVE TimeInv
  OBVIOUS
<1>1. /\ clock \in Nat /\ sessions = <<>>
      /\ \A r \in Requests : requests[r].pc = "idle" /\ requests[r].sent = 0
  BY ServiceAssumption DEF Init, NewRequest
<1>2. ASSUME NEW r \in Requests
      PROVE  LimitStillHolds(r) /\ DeadlineIsHeld(r)
  <2>1. requests[r].pc = "idle" /\ requests[r].sent <= clock
    BY <1>1
  <2>2. LimitStillHolds(r)
    BY <2>1 DEF LimitStillHolds
  <2>3. DeadlineIsHeld(r)
    BY <2>1 DEF DeadlineIsHeld, Attempting
  <2>4. QED
    BY <2>2, <2>3
<1>3. NoStartAfterCompletion /\ ExpiryIsSound
  BY <1>1 DEF NoStartAfterCompletion, ExpiryIsSound
<1>4. QED
  BY <1>2, <1>3 DEF TimeInv

LEMMA BeginTime ==
  ASSUME IInv, TimeInv, TypeOK', NEW r \in Requests, Begin(r)
  PROVE  TimeInv'
<1>1. /\ requests \in [Requests -> RequestType] /\ sessions \in Seq(RowType)
      /\ clock \in Nat /\ requests[r].sent <= clock
  BY DEF IInv, TypeOK, TimeInv, DeadlineIsHeld
<1>2. ASSUME NEW user \in Users, NEW topics \in TopicChoices,
             BeginCreate(r, user, topics)
      PROVE  TimeInv'
  <2>1. /\ requests'[r].pc = "limit" /\ requests'[r].sent = clock
        /\ \A q \in Requests \ {r} : requests'[q] = requests[q]
    BY <1>1, <1>2 DEF BeginCreate, Arrive
  <2>2. TimedRequest(r)'
    BY <1>1, <1>2, <2>1, IdleTimed DEF BeginCreate
  <2>3. QED
    BY <1>2, <2>1, <2>2, QuietTime DEF BeginCreate
<1>3. ASSUME NEW sid \in IssuedSessions \cup {UnknownSession},
             NEW answers \in Submissions, BeginComplete(r, sid, answers)
      PROVE  TimeInv'
  <2>1. /\ requests'[r].pc = "load" /\ requests'[r].sent = clock
        /\ \A q \in Requests \ {r} : requests'[q] = requests[q]
    BY <1>1, <1>3 DEF BeginComplete, Arrive
  <2>2. TimedRequest(r)'
    BY <1>1, <1>3, <2>1, IdleTimed DEF BeginComplete
  <2>3. QED
    BY <1>3, <2>1, <2>2, QuietTime DEF BeginComplete
<1>4. ASSUME NEW user \in Users, ListCompleted(r, user)
      PROVE  TimeInv'
  <2>1. PICK reply \in {"aborted", "listed", "internal"} :
          requests'[r] = [requests[r] EXCEPT !.kind = "list", !.pc = "done",
                                             !.reply = reply]
    BY <1>1, <1>4, ListEffect
  <2>2. \A q \in Requests \ {r} : requests'[q] = requests[q]
    BY <1>1, <1>4, ListEffect
  <2>3. requests'[r].pc = "done" /\ requests'[r].sent = requests[r].sent
    BY <1>1, <2>1 DEF RequestType
  <2>4. TimedRequest(r)'
    BY <1>1, <1>4, <2>3, IdleTimed DEF ListCompleted
  <2>5. QED
    BY <1>4, <2>2, <2>4, QuietTime DEF ListCompleted
<1>5. ASSUME RefuseRequest(r) PROVE TimeInv'
  BY <1>5, EndedTime DEF RefuseRequest, Replies
<1>6. QED
  BY <1>2, <1>3, <1>4, <1>5 DEF Begin

(* A request that passed the check arrived before every completed row that  *)
(* is stored later.                                                         *)
LEMMA LimitTime ==
  ASSUME IInv, TimeInv, TypeOK', NEW r \in Requests, CheckDailyLimit(r)
  PROVE  TimeInv'
<1> DEFINE s == requests[r].session
<1>1. /\ requests \in [Requests -> RequestType] /\ requests[r].pc = "limit"
      /\ UNCHANGED <<clock, sessions>> /\ requests[r].sent <= clock
  BY DEF IInv, TypeOK, CheckDailyLimit, TimeInv, DeadlineIsHeld
<1>2. CASE Answer(r, "forbidden")
  BY <1>1, <1>2, EndedTime DEF Replies
<1>3. CASE /\ ~IsDailySessionLimitReached(s.user, s.topics, clock)
           /\ Goto(r, "questions")
  <2>1. /\ requests'[r].pc = "questions" /\ requests'[r].session = s
        /\ requests'[r].sent = requests[r].sent
        /\ \A q \in Requests \ {r} : requests'[q] = requests[q]
    BY <1>1, <1>3 DEF Goto, RequestType
  <2>2. \A i \in DOMAIN sessions : ~CompletedToday(i, s.user, s.topics, clock)
    BY <1>3 DEF IsDailySessionLimitReached
  <2>3. LimitStillHolds(r)'
    BY <1>1, <2>1, <2>2 DEF LimitStillHolds, CompletedToday
  <2>4. DeadlineIsHeld(r)'
    BY <1>1, <2>1 DEF DeadlineIsHeld, Attempting
  <2>5. QED
    BY <1>1, <2>1, <2>3, <2>4, QuietTime DEF TimedRequest
<1>4. QED
  BY <1>2, <1>3 DEF CheckDailyLimit

LEMMA SelectTime ==
  ASSUME IInv, TimeInv, TypeOK', NEW r \in Requests, SelectQuestions(r)
  PROVE  TimeInv'
<1> DEFINE s == requests[r].session
<1>1. /\ requests \in [Requests -> RequestType] /\ requests[r].pc = "questions"
      /\ UNCHANGED <<clock, sessions>> /\ s \in Session
      /\ LimitStillHolds(r) /\ requests[r].sent <= clock
  BY DEF IInv, TypeOK, SelectQuestions, RequestType, TimeInv, DeadlineIsHeld
<1>2. CASE Answer(r, "not found") \/ Answer(r, "invalid parameter")
  BY <1>1, <1>2, EndedTime DEF Replies
<1>3. CASE \E qs \in UNION {QuestionsRead(all) : all \in GetQuestions(s.topics)} :
             GotoWith(r, SetQuestions(s, qs, TopicDuration, clock), "store")
  <2> PICK qs \in UNION {QuestionsRead(all) : all \in GetQuestions(s.topics)} :
             GotoWith(r, SetQuestions(s, qs, TopicDuration, clock), "store")
    BY <1>3
  <2> DEFINE t == SetQuestions(s, qs, TopicDuration, clock)
  <2>1. t.user = s.user /\ t.topics = s.topics
    BY <1>1 DEF SetQuestions, Session
  <2>2. GotoWith(r, t, "store")
    OBVIOUS
  <2> HIDE DEF t
  <2>3. /\ requests'[r].pc = "store" /\ requests'[r].session = t
        /\ requests'[r].sent = requests[r].sent
        /\ requests'[r].begun = requests[r].begun
        /\ \A q \in Requests \ {r} : requests'[q] = requests[q]
    BY <1>1, <2>2 DEF GotoWith, RequestType
  <2>4. LimitStillHolds(r)'
    BY <1>1, <2>1, <2>3 DEF LimitStillHolds, CompletedToday
  <2>5. DeadlineIsHeld(r)'
    BY <1>1, <2>3 DEF DeadlineIsHeld, Attempting
  <2>6. QED
    BY <1>1, <2>3, <2>4, <2>5, QuietTime DEF TimedRequest
<1>4. QED
  BY <1>2, <1>3 DEF SelectQuestions

(* The limit of the active row is the one the request reads back, in the    *)
(* other unit.                                                              *)
LEMMA LoadTime ==
  ASSUME IInv, TimeInv, TypeOK', NEW r \in Requests, LoadSession(r)
  PROVE  TimeInv'
<1> DEFINE sid == requests[r].session.sid
<1>1. /\ requests \in [Requests -> RequestType] /\ requests[r].pc = "load"
      /\ UNCHANGED <<clock, sessions>> /\ sessions \in Seq(RowType)
      /\ requests[r].sent <= clock
  BY DEF IInv, TypeOK, LoadSession, TimeInv, DeadlineIsHeld
<1>2. CASE Answer(r, "not found")
  BY <1>1, <1>2, EndedTime DEF Replies
<1>3. CASE /\ RowsOf(sid) # {}
           /\ \E qs \in QuestionsRead(LatestRow(sid).questions) :
                GotoWith(r, Recover(LatestRow(sid), qs), "apply")
  <2>1. PICK i \in RowsOf(sid) : LatestRow(sid) = sessions[i]
    BY <1>1, <1>3, LatestRowExists
  <2> PICK qs \in QuestionsRead(sessions[i].questions) :
             GotoWith(r, Recover(sessions[i], qs), "apply")
    BY <1>3, <2>1
  <2> DEFINE t == Recover(sessions[i], qs)
  <2>2. /\ t.sid = sessions[i].sid /\ t.state = sessions[i].state
        /\ t.limit = LimitScale * sessions[i].limit
    BY DEF Recover
  <2>3. GotoWith(r, t, "apply")
    OBVIOUS
  <2> HIDE DEF t
  <2>4. /\ requests'[r].pc = "apply" /\ requests'[r].session = t
        /\ requests'[r].sent = requests[r].sent
        /\ \A q \in Requests \ {r} : requests'[q] = requests[q]
    BY <1>1, <2>3 DEF GotoWith, RequestType
  <2>5. ASSUME Attempting(r)', NEW j \in DOMAIN sessions, IsActive(j),
               sessions[j].sid = t.sid
        PROVE  t.limit = LimitScale * sessions[j].limit
    <3>1. IsActive(i) /\ SameSession(i, j) /\ i \in DOMAIN sessions
      BY <2>2, <2>4, <2>5 DEF Attempting, IsActive, SameSession, RowsOf
    <3>2. i = j
      BY <2>5, <3>1 DEF IInv, OneActiveRow
    <3>3. QED
      BY <2>2, <3>2
  <2>6. LimitStillHolds(r)'
    BY <2>4 DEF LimitStillHolds
  <2>7. DeadlineIsHeld(r)'
    BY <1>1, <2>4, <2>5 DEF DeadlineIsHeld, IsActive
  <2>8. QED
    BY <1>1, <2>4, <2>6, <2>7, QuietTime DEF TimedRequest
<1>4. QED
  BY <1>2, <1>3 DEF LoadSession

LEMMA ApplyTime ==
  ASSUME IInv, TimeInv, TypeOK', NEW r \in Requests, ApplyAnswers(r)
  PROVE  TimeInv'
<1> DEFINE s == requests[r].session
           t == SetUserAnswer(s, requests[r].answers, clock)
           deadline == s.started + s.limit
<1>1. /\ requests \in [Requests -> RequestType] /\ requests[r].pc = "apply"
      /\ UNCHANGED <<clock, sessions>> /\ s \in Session
      /\ requests[r].sent \in Nat /\ clock \in Nat
      /\ DeadlineIsHeld(r) /\ requests[r].sent <= clock
  BY DEF IInv, TypeOK, ApplyAnswers, RequestType, TimeInv, DeadlineIsHeld
<1>2. CASE Answer(r, "invalid state") \/ Answer(r, "invalid parameter")
  BY <1>1, <1>2, EndedTime DEF Replies
<1>3. CASE SetUserAnswerAccepts(s) /\ GotoWith(r, t, "store result")
  <2>1. /\ t.sid = s.sid /\ t.started = s.started /\ t.limit = s.limit
        /\ t.expired = DeadlinePassed(s, clock)
    BY <1>1 DEF SetUserAnswer, Session
  <2>2. deadline \in Nat
    BY <1>1 DEF Session
  <2>3. (t.expired <=> clock > deadline) /\ t.started + t.limit = deadline
    BY <2>1 DEF DeadlinePassed
  <2> HIDE DEF t
  <2>4. /\ requests'[r].pc = "store result" /\ requests'[r].session = t
        /\ requests'[r].sent = requests[r].sent
        /\ \A q \in Requests \ {r} : requests'[q] = requests[q]
    BY <1>1, <1>3 DEF GotoWith, RequestType
  <2>5. Attempting(r)
    BY <1>1, <1>3 DEF Attempting, SetUserAnswerAccepts
  <2>6. \A j \in DOMAIN sessions :
          IsActive(j) /\ sessions[j].sid = t.sid =>
            t.limit = LimitScale * sessions[j].limit
    BY <1>1, <2>1, <2>5 DEF DeadlineIsHeld
  <2>7. requests[r].sent > deadline => t.expired
    <3> HIDE DEF deadline
    <3>1. requests[r].sent > deadline => clock > deadline
      BY <1>1, <2>2
    <3>2. QED
      BY <2>3, <3>1
  <2>8. LimitStillHolds(r)'
    BY <2>4 DEF LimitStillHolds
  <2>9. DeadlineIsHeld(r)'
    BY <1>1, <2>3, <2>4, <2>6, <2>7 DEF DeadlineIsHeld, IsActive
  <2>10. QED
    BY <1>1, <2>4, <2>8, <2>9, QuietTime DEF TimedRequest
<1>4. QED
  BY <1>2, <1>3 DEF ApplyAnswers

-----------------------------------------------------------------------------
(* The inserts.                                                            *)

(* What the other requests know of the time survives a new row: it is the   *)
(* row of a session they do not hold, or a completed one.                   *)
LEMMA InsertKeepsTimed ==
  ASSUME IInv, TypeOK', NEW q \in Requests, TimedRequest(q),
         requests'[q] = requests[q], UNCHANGED clock,
         NEW row \in RowType, sessions' = Append(sessions, row),
         row.state = ActiveState => row.sid # requests[q].session.sid \/ ~Attempting(q)
  PROVE  TimedRequest(q)'
<1> DEFINE n == Len(sessions) + 1
<1>1. requests[q].begun \in Nat /\ requests[q].begun <= Len(sessions)
      /\ sessions \in Seq(RowType)
  BY DEF IInv, TypeOK, RequestType, RequestInv, HeldState
<1>2. /\ n \in Nat /\ requests[q].begun < n
      /\ DOMAIN sessions = 1 .. n - 1 /\ DOMAIN sessions' = 1 .. n
      /\ \A i \in DOMAIN sessions : sessions'[i] = sessions[i]
      /\ sessions'[n] = row
  BY <1>1, AppendedRow
<1> HIDE DEF n
<1>3. LimitStillHolds(q)'
  <2> SUFFICES ASSUME requests[q].pc \in {"questions", "store"}, NEW i \in DOMAIN sessions',
                      CompletedToday(i, requests[q].session.user,
                                     requests[q].session.topics, clock)'
               PROVE  requests[q].begun < i
    BY DEF LimitStillHolds
  <2>1. CASE i = n
    BY <1>2, <2>1
  <2>2. CASE i # n
    <3>1. i \in DOMAIN sessions /\ sessions'[i] = sessions[i]
      BY <1>2, <2>2
    <3>2. CompletedToday(i, requests[q].session.user, requests[q].session.topics, clock)
      BY <3>1 DEF CompletedToday
    <3>3. QED
      BY <3>1, <3>2 DEF TimedRequest, LimitStillHolds
  <2>3. QED
    BY <2>1, <2>2
<1>4. ASSUME Attempting(q)', NEW j \in DOMAIN sessions', IsActive(j)',
             sessions'[j].sid = requests[q].session.sid
      PROVE  requests[q].session.limit = LimitScale * sessions'[j].limit
  <2>1. Attempting(q)
    BY <1>4 DEF Attempting
  <2>2. j # n
    BY <1>2, <1>4, <2>1 DEF IsActive
  <2>3. j \in DOMAIN sessions /\ sessions'[j] = sessions[j]
    BY <1>2, <2>2
  <2>4. QED
    BY <1>4, <2>1, <2>3 DEF TimedRequest, DeadlineIsHeld, IsActive
<1>5. DeadlineIsHeld(q)'
  BY <1>4 DEF TimedRequest, DeadlineIsHeld
<1>6. QED
  BY <1>3, <1>5 DEF TimedRequest

LEMMA StoreActiveTime ==
  ASSUME IInv, IInv', TimeInv, NEW r \in Requests, StoreActive(r)
  PROVE  TimeInv'
<1> DEFINE s == requests[r].session
           row == Row(s, r, clock)
           n == Len(sessions) + 1
<1>1. /\ requests \in [Requests -> RequestType] /\ requests[r].pc = "store"
      /\ UNCHANGED clock /\ s \in Session /\ sessions \in Seq(RowType)
      /\ clock \in Nat /\ s.state = ActiveState /\ s.sid = r
      /\ LimitStillHolds(r) /\ requests[r].sent <= clock
  BY DEF IInv, TypeOK, StoreActive, RequestType, RequestInv, HeldState, TimeInv,
         DeadlineIsHeld
<1>2. /\ row \in RowType /\ row.state = ActiveState /\ row.sid = r /\ row.by = r
      /\ row.user = s.user /\ row.topics = s.topics /\ row.updated = clock
  BY <1>1, RowIsTyped DEF Row
<1>3. sessions' = Append(sessions, row)
  BY DEF StoreActive
<1> HIDE DEF row
<1>4. /\ n \in Nat /\ DOMAIN sessions = 1 .. n - 1
      /\ DOMAIN sessions' = 1 .. n /\ sessions'[n] = row
      /\ \A i \in DOMAIN sessions : sessions'[i] = sessions[i]
  BY <1>1, <1>2, <1>3, AppendedRow
<1> HIDE DEF n
<1>5. /\ requests'[r].pc = "done" /\ requests'[r].sent = requests[r].sent
      /\ requests'[r].begun = requests[r].begun
      /\ \A q \in Requests \ {r} : requests'[q] = requests[q]
  BY <1>1 DEF StoreActive, Answer, RequestType
<1>6. \A i \in DOMAIN sessions :
        /\ sessions[i].by \in Requests /\ sessions[i].by # r
        /\ requests'[sessions[i].by] = requests[sessions[i].by]
  BY <1>1, <1>2, <1>3, <1>5, InsertKeepsOthers DEF IInv
<1>7. ASSUME NEW i \in DOMAIN sessions'
      PROVE  \/ i = n /\ IsActive(i)' /\ ~IsCompleted(i)' /\ sessions'[i] = row
             \/ /\ i \in DOMAIN sessions /\ sessions'[i] = sessions[i]
                /\ IsActive(i)' <=> IsActive(i)
                /\ IsCompleted(i)' <=> IsCompleted(i)
  <2>1. CASE i = n
    BY <1>2, <1>4, <2>1 DEF IsActive, IsCompleted, ActiveState, CompletedState
  <2>2. CASE i # n
    <3>1. i \in DOMAIN sessions /\ sessions'[i] = sessions[i]
      BY <1>4, <2>2
    <3>2. QED
      BY <3>1 DEF IsActive, IsCompleted
  <2>3. QED
    BY <2>1, <2>2
<1>8. ASSUME NEW q \in Requests PROVE TimedRequest(q)'
  <2>1. CASE q = r
    BY <1>1, <1>5, <2>1, IdleTimed
  <2>2. CASE q # r
    <3>1. TimedRequest(q) /\ requests'[q] = requests[q]
      BY <1>5, <2>2 DEF TimeInv, TimedRequest
    <3>2. Attempting(q) => requests[q].session.sid # r
      <4> SUFFICES ASSUME Attempting(q) PROVE requests[q].session.sid # r
        OBVIOUS
      <4>1. PICK j \in DOMAIN sessions : HoldsTest(q, j)
        BY DEF IInv, RequestInv, HeldStarted, Attempting
      <4>2. sessions[j].sid = sessions[j].by
        BY <4>1 DEF IInv, RowsHaveWriters, HoldsTest
      <4>3. QED
        BY <1>6, <4>1, <4>2 DEF HoldsTest
    <3>3. QED
      BY <1>1, <1>2, <1>3, <3>1, <3>2, InsertKeepsTimed DEF IInv
  <2>3. QED
    BY <2>1, <2>2
<1>9. NoStartAfterCompletion'
  <2> SUFFICES ASSUME NEW i \in DOMAIN sessions', NEW j \in DOMAIN sessions',
                      IsCompleted(i)', IsActive(j)', SameLimit(i, j)'
               PROVE  requests'[sessions'[j].by].begun < i
    BY DEF NoStartAfterCompletion
  <2>1. i \in DOMAIN sessions /\ sessions'[i] = sessions[i] /\ IsCompleted(i)
    BY <1>7
  <2>2. CASE j = n /\ sessions'[j] = row
    <3>1. /\ sessions[i].user = s.user /\ sessions[i].topics \cap s.topics # {}
          /\ Day(sessions[i].updated) = Day(clock)
      BY <1>2, <2>1, <2>2 DEF SameLimit
    <3>2. Day(sessions[i].updated) >= Day(clock)
      <4>1. Day(clock) \in Nat
        BY <1>1, DayMonotone
      <4>2. QED
        BY <3>1, <4>1
    <3>3. CompletedToday(i, s.user, s.topics, clock)
      BY <2>1, <3>1, <3>2 DEF CompletedToday, IsCompleted
    <3>4. requests[r].begun < i
      BY <1>1, <2>1, <3>3 DEF LimitStillHolds
    <3>5. QED
      BY <1>2, <1>5, <2>2, <3>4
  <2>3. CASE j \in DOMAIN sessions /\ sessions'[j] = sessions[j] /\ IsActive(j)
    <3>1. SameLimit(i, j)
      BY <2>1, <2>3 DEF SameLimit
    <3>2. QED
      BY <1>6, <2>1, <2>3, <3>1 DEF TimeInv, NoStartAfterCompletion
  <2>4. QED
    BY <1>7, <2>2, <2>3
<1>10. ExpiryIsSound'
  <2>1. ASSUME NEW i \in DOMAIN sessions', NEW j \in DOMAIN sessions',
               IsCompleted(i)', IsActive(j)', SameSession(i, j)'
        PROVE  /\ i \in DOMAIN sessions /\ sessions'[i] = sessions[i] /\ IsCompleted(i)
               /\ j \in DOMAIN sessions /\ sessions'[j] = sessions[j] /\ IsActive(j)
    <3>1. i \in DOMAIN sessions /\ sessions'[i] = sessions[i] /\ IsCompleted(i)
      BY <1>7, <2>1
    <3>2. PICK k \in DOMAIN sessions : IsActive(k) /\ SameSession(i, k)
      BY <3>1 DEF IInv, StartedBefore
    <3>3. sessions[i].sid # r
      BY <1>6, <3>2 DEF IInv, RowsHaveWriters, SameSession
    <3>4. j # n
      BY <1>2, <1>4, <2>1, <3>1, <3>3 DEF SameSession
    <3>5. QED
      BY <1>7, <2>1, <3>1, <3>4
  <2>2. ASSUME NEW i \in DOMAIN sessions', NEW j \in DOMAIN sessions',
               IsActive(j)', IsCompleted(i)', SameSession(i, j)'
        PROVE  LET deadline == sessions'[j].started + LimitScale * sessions'[j].limit
               IN /\ requests'[sessions'[i].by].sent > deadline => sessions'[i].expired
                  /\ sessions'[i].expired =>
                       sessions'[i].updated > deadline /\ ~sessions'[i].passed
    <3>1. /\ i \in DOMAIN sessions /\ sessions'[i] = sessions[i] /\ IsCompleted(i)
          /\ j \in DOMAIN sessions /\ sessions'[j] = sessions[j] /\ IsActive(j)
      BY <2>1, <2>2
    <3>2. SameSession(i, j) /\ requests'[sessions[i].by] = requests[sessions[i].by]
      BY <1>6, <2>2, <3>1 DEF SameSession
    <3>3. QED
      BY <3>1, <3>2 DEF TimeInv, ExpiryIsSound
  <2>3. QED
    BY <2>2 DEF ExpiryIsSound
<1>11. QED
  BY <1>8, <1>9, <1>10 DEF TimeInv, TimedRequest

LEMMA StoreResultTime ==
  ASSUME IInv, IInv', TimeInv, NEW r \in Requests, StoreResult(r)
  PROVE  TimeInv'
<1> DEFINE s == requests[r].session
           row == Row(s, r, clock)
           n == Len(sessions) + 1
           deadline == s.started + s.limit
<1>1. /\ requests \in [Requests -> RequestType] /\ requests[r].pc = "store result"
      /\ UNCHANGED clock /\ s \in Session /\ sessions \in Seq(RowType)
      /\ clock \in Nat /\ GetSessionResultAccepts(s) /\ s.state = CompletedState
      /\ requests[r].sent <= clock
  BY DEF IInv, TypeOK, StoreResult, RequestType, RequestInv, HeldState,
         GetSessionResultAccepts, TimeInv, DeadlineIsHeld
<1>2. /\ row \in RowType /\ row.state = CompletedState /\ row.by = r
      /\ row.sid = s.sid /\ row.updated = clock /\ row.expired = s.expired
  BY <1>1, RowIsTyped DEF Row
<1>3. row.expired => ~row.passed
  BY <1>1 DEF Row, GetSessionResult, ExpiredResult
<1>4. sessions' = Append(sessions, row)
  BY DEF StoreResult
<1> HIDE DEF row
<1>5. /\ n \in Nat /\ DOMAIN sessions = 1 .. n - 1
      /\ DOMAIN sessions' = 1 .. n /\ sessions'[n] = row
      /\ \A i \in DOMAIN sessions : sessions'[i] = sessions[i]
  <2>1. sessions \in Seq(RowType) /\ row \in RowType
    BY <1>1, <1>2
  <2>2. QED
    BY <1>4, <2>1, AppendedRow
<1>6. /\ requests'[r].pc = "done" /\ requests'[r].sent = requests[r].sent
      /\ requests'[r].begun = requests[r].begun
      /\ \A q \in Requests \ {r} : requests'[q] = requests[q]
  <2>1. PICK reply \in {"completed", "internal"} : Answer(r, reply)
    BY DEF StoreResult
  <2>2. /\ requests'[r] = [requests[r] EXCEPT !.pc = "done", !.reply = reply]
        /\ \A q \in Requests \ {r} : requests'[q] = requests[q]
    BY <1>1, <2>1 DEF Answer
  <2>3. requests[r] \in RequestType
    BY <1>1
  <2>4. QED
    BY <2>2, <2>3 DEF RequestType
<1>7. \A i \in DOMAIN sessions :
        /\ sessions[i].by \in Requests /\ sessions[i].by # r
        /\ requests'[sessions[i].by] = requests[sessions[i].by]
  BY <1>1, <1>2, <1>4, <1>6, InsertKeepsOthers DEF IInv
<1>8. ASSUME NEW i \in DOMAIN sessions'
      PROVE  \/ i = n /\ IsCompleted(i)' /\ ~IsActive(i)' /\ sessions'[i] = row
             \/ /\ i \in DOMAIN sessions /\ sessions'[i] = sessions[i]
                /\ IsActive(i)' <=> IsActive(i)
                /\ IsCompleted(i)' <=> IsCompleted(i)
  <2>1. CASE i = n
    BY <1>2, <1>5, <2>1 DEF IsActive, IsCompleted, ActiveState, CompletedState
  <2>2. CASE i # n
    <3>1. i \in DOMAIN sessions /\ sessions'[i] = sessions[i]
      BY <1>5, <2>2
    <3>2. QED
      BY <3>1 DEF IsActive, IsCompleted
  <2>3. QED
    BY <2>1, <2>2
<1>9. ASSUME NEW q \in Requests PROVE TimedRequest(q)'
  <2>1. CASE q = r
    BY <1>1, <1>6, <2>1, IdleTimed
  <2>2. CASE q # r
    <3>1. TimedRequest(q) /\ requests'[q] = requests[q]
      BY <1>6, <2>2 DEF TimeInv, TimedRequest
    <3>2. row.state # ActiveState
      BY <1>2 DEF ActiveState, CompletedState
    <3>3. QED
      BY <1>1, <1>2, <1>4, <3>1, <3>2, InsertKeepsTimed DEF IInv
  <2>3. QED
    BY <2>1, <2>2
<1>10. NoStartAfterCompletion'
  <2> SUFFICES ASSUME NEW i \in DOMAIN sessions', NEW j \in DOMAIN sessions',
                      IsCompleted(i)', IsActive(j)', SameLimit(i, j)'
               PROVE  requests'[sessions'[j].by].begun < i
    BY DEF NoStartAfterCompletion
  <2>1. /\ j \in DOMAIN sessions /\ sessions'[j] = sessions[j] /\ IsActive(j)
        /\ sessions[j].by \in Requests
        /\ requests'[sessions[j].by] = requests[sessions[j].by]
    BY <1>7, <1>8
  <2>2. CASE i = n
    <3>1. requests[sessions[j].by] \in RequestType
      BY <1>1, <2>1
    <3>2. requests[sessions[j].by].begun \in Nat
      BY <3>1 DEF RequestType
    <3>3. requests[sessions[j].by].begun <= Len(sessions)
      BY <2>1 DEF IInv, RequestInv, HeldState
    <3>4. requests[sessions[j].by].begun < n
      <4>1. Len(sessions) \in Nat
        <5>1. sessions \in Seq(RowType)
          BY <1>1
        <5>2. QED
          BY <5>1
      <4>2. QED
        BY <3>2, <3>3, <4>1
    <3>5. QED
      BY <2>1, <2>2, <3>4
  <2>3. CASE i \in DOMAIN sessions /\ sessions'[i] = sessions[i] /\ IsCompleted(i)
    <3>1. SameLimit(i, j)
      BY <2>1, <2>3 DEF SameLimit
    <3>2. QED
      BY <2>1, <2>3, <3>1 DEF TimeInv, NoStartAfterCompletion
  <2>4. QED
    BY <1>8, <2>2, <2>3
<1> HIDE DEF n
<1>11. ExpiryIsSound'
  <2>1. ASSUME NEW i \in DOMAIN sessions', NEW j \in DOMAIN sessions',
               IsActive(j)', IsCompleted(i)', SameSession(i, j)'
        PROVE  LET end == sessions'[j].started + LimitScale * sessions'[j].limit
               IN /\ requests'[sessions'[i].by].sent > end => sessions'[i].expired
                  /\ sessions'[i].expired =>
                       sessions'[i].updated > end /\ ~sessions'[i].passed
    <3>1. j \in DOMAIN sessions /\ sessions'[j] = sessions[j] /\ IsActive(j)
      BY <1>8, <2>1
    <3>2. CASE i = n /\ sessions'[i] = row
      <4>1. sessions[j].sid = s.sid
        BY <1>2, <2>1, <3>1, <3>2 DEF SameSession
      <4>2. PICK k \in DOMAIN sessions : HoldsTest(r, k)
        BY <1>1 DEF IInv, RequestInv, HeldStarted
      <4>3. k = j
        BY <3>1, <4>1, <4>2 DEF IInv, OneActiveRow, HoldsTest, SameSession
      <4>4. sessions[j].started + LimitScale * sessions[j].limit = deadline
        <5>1. sessions[j].started = s.started
          BY <4>2, <4>3 DEF HoldsTest
        <5>2. s.limit = LimitScale * sessions[j].limit
          BY <1>1, <3>1, <4>1 DEF TimeInv, DeadlineIsHeld, Attempting
        <5>3. QED
          BY <5>1, <5>2
      <4>5. /\ requests[r].sent > deadline => s.expired
            /\ s.expired => clock > deadline
        BY <1>1 DEF TimeInv, DeadlineIsHeld
      <4> HIDE DEF deadline, s
      <4>6. requests'[sessions'[i].by].sent = requests[r].sent
        BY <1>2, <1>6, <3>2
      <4>7. QED
        BY <1>2, <1>3, <3>1, <3>2, <4>4, <4>5, <4>6
    <3>3. CASE i \in DOMAIN sessions /\ sessions'[i] = sessions[i] /\ IsCompleted(i)
      <4>1. SameSession(i, j) /\ requests'[sessions[i].by] = requests[sessions[i].by]
        BY <1>7, <2>1, <3>1, <3>3 DEF SameSession
      <4>2. QED
        BY <3>1, <3>3, <4>1 DEF TimeInv, ExpiryIsSound
    <3>4. QED
      BY <1>8, <2>1, <3>2, <3>3
  <2>2. QED
    BY <2>1 DEF ExpiryIsSound
<1>12. QED
  BY <1>9, <1>10, <1>11 DEF TimeInv, TimedRequest

-----------------------------------------------------------------------------
(* Publishing, crashes and the clock.                                      *)

LEMMA CrashTime ==
  ASSUME IInv, TimeInv, TypeOK', Crash
  PROVE  TimeInv'
<1>1. /\ requests \in [Requests -> RequestType] /\ sessions \in Seq(RowType)
      /\ UNCHANGED <<clock, sessions>> /\ clock \in Nat
  BY DEF IInv, TypeOK, Crash
<1>2. ASSUME NEW q \in Requests
      PROVE  /\ requests'[q].begun = requests[q].begun
             /\ requests'[q].sent = requests[q].sent
             /\ requests'[q] = requests[q] \/ requests'[q].pc = "done"
  <2>1. requests[q] \in RequestType
    BY <1>1
  <2>2. QED
    BY <1>1, <2>1 DEF Crash, RequestType
<1>3. ASSUME NEW q \in Requests PROVE TimedRequest(q)'
  <2>1. TimedRequest(q)
    BY DEF TimeInv, TimedRequest
  <2>2. CASE requests'[q] = requests[q]
    BY <1>1, <2>1, <2>2, KeptTimed DEF IInv
  <2>3. CASE requests'[q].pc = "done"
    BY <1>1, <1>2, <2>1, <2>3, IdleTimed DEF TimedRequest, DeadlineIsHeld
  <2>4. QED
    BY <1>2, <2>2, <2>3
<1>4. ASSUME NEW i \in DOMAIN sessions PROVE sessions[i].by \in Requests
  <2>1. sessions[i] \in RowType
    BY <1>1
  <2>2. QED
    BY <2>1 DEF RowType
<1>5. NoStartAfterCompletion' /\ ExpiryIsSound'
  BY <1>1, <1>2, <1>4, TableKept
<1>6. QED
  BY <1>3, <1>5 DEF TimeInv, TimedRequest

LEMMA PassingTime ==
  ASSUME IInv, TimeInv, TypeOK', UNCHANGED <<sessions, requests>>, clock <= clock'
  PROVE  TimeInv'
<1>1. ASSUME NEW q \in Requests PROVE TimedRequest(q)'
  <2>1. TimedRequest(q) /\ TypeOK
    BY DEF TimeInv, TimedRequest, IInv
  <2>2. QED
    BY <2>1, KeptTimed
<1>2. NoStartAfterCompletion' /\ ExpiryIsSound'
  BY TableKept
<1>3. QED
  BY <1>1, <1>2 DEF TimeInv, TimedRequest

LEMMA NextTime == IInv /\ TimeInv /\ [Next]_vars => TimeInv'
<1> SUFFICES ASSUME IInv, TimeInv, [Next]_vars PROVE TimeInv'
  OBVIOUS
<1>1. IInv' /\ TypeOK' /\ clock \in Nat /\ clock' \in Nat
  BY NextIInv DEF IInv, TypeOK
<1>2. ASSUME NEW r \in Requests, Begin(r) PROVE TimeInv'
  BY <1>1, <1>2, BeginTime
<1>3. ASSUME NEW r \in Requests, Serve(r) PROVE TimeInv'
  <2>1. CASE CallFails(r)
    BY <1>1, <2>1, EndedTime DEF CallFails, Waiting, Replies
  <2>2. QED
    BY <1>1, <1>3, <2>1, LimitTime, SelectTime, StoreActiveTime, LoadTime, ApplyTime,
       StoreResultTime
    DEF Serve
<1>4. ASSUME NEW r \in Requests, Publish(r) \/ PublishFails(r) PROVE TimeInv'
  BY <1>1, <1>4, PassingTime DEF Publish, PublishFails
<1>5. CASE Crash
  BY <1>1, <1>5, CrashTime
<1>6. CASE Tick \/ UNCHANGED vars
  <2>1. UNCHANGED <<sessions, requests>> /\ clock <= clock'
    BY <1>1, <1>6, ServiceAssumption DEF Tick, vars
  <2>2. QED
    BY <1>1, <2>1, PassingTime
<1>7. QED
  BY <1>2, <1>3, <1>4, <1>5, <1>6 DEF Next

\* Requests keep a sound view of the daily limit and of their deadlines while time
\* passes and other requests write between their steps.
THEOREM TimeInvariant == Spec => []TimeInv
BY InitIInv, NextIInv, InitTime, NextTime, PTL DEF Spec

\* Whatever is stored between the check of the daily limit and the insert, no
\* request that arrives after a completion starts a test it should refuse that day.
THEOREM NoStartAfterCompleted == Spec => []NoStartAfterCompletion
<1>1. TimeInv => NoStartAfterCompletion
  BY DEF TimeInv
<1>2. QED
  BY <1>1, TimeInvariant, PTL

\* Answers that arrive after the effective deadline are stored as expired, and an
\* expired session was stored after its deadline and did not pass.
THEOREM ExpirySound == Spec => []ExpiryIsSound
<1>1. TimeInv => ExpiryIsSound
  BY DEF TimeInv
<1>2. QED
  BY <1>1, TimeInvariant, PTL

-----------------------------------------------------------------------------
(* The limit in effect.  Every test is given TopicDuration minutes, however *)
(* many topics it has; the limit it is held to is that number in the other  *)
(* unit.                                                                    *)

HoldsTopicLimit(q) ==
  requests[q].pc = "store" => requests[q].session.limit = TopicDuration

HasTopicLimit(i) == IsActive(i) => sessions[i].limit = TopicDuration

ActiveLimit ==
  /\ \A q \in Requests : HoldsTopicLimit(q)
  /\ \A i \in DOMAIN sessions : HasTopicLimit(i)

\* No session is stored as expired before its start plus LimitScale times the
\* documented limit.
ExpiresLate ==
  \A i \in DOMAIN sessions :
    IsCompleted(i) /\ sessions[i].expired =>
      sessions[i].updated > sessions[i].started + LimitScale * TopicDuration

LEMMA InitLimit == Init => ActiveLimit
BY DEF Init, NewRequest, ActiveLimit, HoldsTopicLimit

(* A request that takes a step holds no session to insert, or one whose     *)
(* limit SetQuestions has just set.                                         *)
LEMMA StepLimit ==
  ASSUME TypeOK, NEW r \in Requests, Begin(r) \/ Serve(r)
  PROVE  /\ HoldsTopicLimit(r)'
         /\ \A q \in Requests \ {r} : requests'[q] = requests[q]
<1> DEFINE s == requests[r].session
           Goal == /\ HoldsTopicLimit(r)'
                   /\ \A q \in Requests \ {r} : requests'[q] = requests[q]
<1>1. /\ requests \in [Requests -> RequestType] /\ requests[r] \in RequestType
      /\ s \in Session
  BY DEF TypeOK, RequestType
<1>2. ASSUME NEW reply \in Replies, Answer(r, reply) PROVE Goal
  <2>1. /\ requests'[r] = [requests[r] EXCEPT !.pc = "done", !.reply = reply]
        /\ \A q \in Requests \ {r} : requests'[q] = requests[q]
    BY <1>1, <1>2, AnswerEffect
  <2>2. requests'[r].pc = "done"
    BY <1>1, <2>1 DEF RequestType
  <2>3. QED
    BY <2>1, <2>2 DEF HoldsTopicLimit
<1>3. ASSUME NEW kind, NEW pc \in {"limit", "load"}, NEW t, NEW answers,
             Arrive(r, kind, pc, t, answers)
      PROVE  Goal
  BY <1>1, <1>3 DEF Arrive, HoldsTopicLimit
<1>4. ASSUME NEW t, NEW pc, pc # "store", GotoWith(r, t, pc) PROVE Goal
  <2>1. /\ requests'[r].pc = pc
        /\ \A q \in Requests \ {r} : requests'[q] = requests[q]
    BY <1>1, <1>4 DEF GotoWith, RequestType
  <2>2. QED
    BY <1>4, <2>1 DEF HoldsTopicLimit
<1>5. ASSUME Begin(r) PROVE Goal
  <2>1. ASSUME NEW user \in Users, ListCompleted(r, user) PROVE Goal
    <3>1. PICK reply \in {"aborted", "listed", "internal"} :
            requests'[r] = [requests[r] EXCEPT !.kind = "list", !.pc = "done",
                                               !.reply = reply]
      BY <1>1, <2>1, ListEffect
    <3>2. requests'[r].pc = "done"
      BY <1>1, <3>1 DEF RequestType
    <3>3. \A q \in Requests \ {r} : requests'[q] = requests[q]
      BY <1>1, <2>1, ListEffect
    <3>4. QED
      BY <3>2, <3>3 DEF HoldsTopicLimit
  <2>2. ASSUME NEW user \in Users, NEW topics \in TopicChoices,
               BeginCreate(r, user, topics)
        PROVE  Goal
    BY <1>3, <2>2 DEF BeginCreate
  <2>3. ASSUME NEW sid, NEW answers, BeginComplete(r, sid, answers) PROVE Goal
    BY <1>3, <2>3 DEF BeginComplete
  <2>4. CASE RefuseRequest(r)
    BY <1>2, <2>4 DEF RefuseRequest, Replies
  <2>5. QED
    BY <1>5, <2>1, <2>2, <2>3, <2>4 DEF Begin
<1>6. CASE CheckDailyLimit(r)
  <2>1. ASSUME Goto(r, "questions") PROVE Goal
    <3>1. requests'[r].pc = "questions"
      BY <1>1, <2>1 DEF Goto, RequestType
    <3>2. \A q \in Requests \ {r} : requests'[q] = requests[q]
      BY <1>1, <2>1 DEF Goto
    <3>3. QED
      BY <3>1, <3>2 DEF HoldsTopicLimit
  <2>2. QED
    BY <1>2, <1>6, <2>1 DEF CheckDailyLimit, Replies
<1>7. CASE SelectQuestions(r)
  <2>1. ASSUME NEW qs, GotoWith(r, SetQuestions(s, qs, TopicDuration, clock), "store")
        PROVE  Goal
    <3> DEFINE t == SetQuestions(s, qs, TopicDuration, clock)
    <3>1. t.limit = TopicDuration
      BY <1>1 DEF SetQuestions, Session
    <3>2. GotoWith(r, t, "store")
      BY <2>1
    <3> HIDE DEF t
    <3>3. /\ requests'[r].session = t
          /\ \A q \in Requests \ {r} : requests'[q] = requests[q]
      BY <1>1, <3>2 DEF GotoWith, RequestType
    <3>4. QED
      BY <3>1, <3>3 DEF HoldsTopicLimit
  <2>2. QED
    BY <1>2, <1>7, <2>1 DEF SelectQuestions, Replies
<1>8. CASE LoadSession(r)
  BY <1>2, <1>4, <1>8 DEF LoadSession, Replies
<1>9. CASE ApplyAnswers(r)
  BY <1>2, <1>4, <1>9 DEF ApplyAnswers, Replies
<1>10. CASE StoreActive(r) \/ StoreResult(r) \/ CallFails(r)
  BY <1>2, <1>10 DEF StoreActive, StoreResult, CallFails, Replies
<1>11. QED
  BY <1>5, <1>6, <1>7, <1>8, <1>9, <1>10 DEF Serve

(* The row a request inserts carries the limit of the session it holds.     *)
LEMMA InsertLimit ==
  ASSUME IInv, ActiveLimit, NEW r \in Requests, StoreActive(r) \/ StoreResult(r)
  PROVE  \A i \in DOMAIN sessions' : HasTopicLimit(i)'
<1> DEFINE s == requests[r].session
           row == Row(s, r, clock)
           n == Len(sessions) + 1
<1>1. /\ requests[r].pc \in {"store", "store result"} /\ s \in Session
      /\ sessions \in Seq(RowType) /\ clock \in Nat /\ sessions' = Append(sessions, row)
  BY DEF IInv, TypeOK, RequestType, StoreActive, StoreResult
<1>2. row.state = s.state /\ row \in RowType
  BY <1>1, RowIsTyped DEF Row
<1>3. row.state = ActiveState => row.limit = TopicDuration
  <2>1. s.state = ActiveState => row.limit = s.limit
    BY DEF Row
  <2>2. StoreResult(r) => s.state = CompletedState
    BY DEF StoreResult, IInv, RequestInv, HeldState, GetSessionResultAccepts
  <2>3. StoreActive(r) => s.limit = TopicDuration
    BY DEF StoreActive, ActiveLimit, HoldsTopicLimit
  <2>4. ActiveState # CompletedState
    BY DEF ActiveState, CompletedState
  <2>5. QED
    BY <1>2, <2>1, <2>2, <2>3, <2>4
<1> HIDE DEF row
<1>4. /\ n \in Nat /\ DOMAIN sessions = 1 .. n - 1
      /\ DOMAIN sessions' = 1 .. n /\ sessions'[n] = row
      /\ \A i \in DOMAIN sessions : sessions'[i] = sessions[i]
  <2>1. sessions \in Seq(RowType) /\ row \in RowType
    BY <1>1, <1>2
  <2>2. sessions' = Append(sessions, row)
    BY <1>1
  <2>3. QED
    BY <2>1, <2>2, AppendedRow
<1> HIDE DEF n
<1>5. ASSUME NEW i \in DOMAIN sessions', IsActive(i)'
      PROVE  sessions'[i].limit = TopicDuration
  <2>1. CASE i = n
    BY <1>3, <1>4, <1>5, <2>1 DEF IsActive
  <2>2. CASE i # n
    <3>1. i \in DOMAIN sessions /\ sessions'[i] = sessions[i]
      BY <1>4, <2>2
    <3>2. QED
      BY <1>5, <3>1 DEF IsActive, ActiveLimit, HasTopicLimit
  <2>3. QED
    BY <2>1, <2>2
<1>6. QED
  BY <1>5 DEF HasTopicLimit

LEMMA NextLimit == IInv /\ ActiveLimit /\ [Next]_vars => ActiveLimit'
<1> SUFFICES ASSUME IInv, ActiveLimit, [Next]_vars PROVE ActiveLimit'
  OBVIOUS
<1>1. TypeOK
  BY DEF IInv
<1>2. ASSUME NEW q \in Requests, requests'[q] = requests[q] PROVE HoldsTopicLimit(q)'
  BY <1>2 DEF ActiveLimit, HoldsTopicLimit
<1>3. ASSUME UNCHANGED sessions PROVE \A i \in DOMAIN sessions' : HasTopicLimit(i)'
  BY <1>3 DEF ActiveLimit, HasTopicLimit, IsActive
<1>4. ASSUME NEW r \in Requests, Begin(r) \/ Serve(r) PROVE ActiveLimit'
  <2>1. \A q \in Requests : HoldsTopicLimit(q)'
    BY <1>1, <1>2, <1>4, StepLimit
  <2>2. CASE StoreActive(r) \/ StoreResult(r)
    BY <2>1, <2>2, InsertLimit DEF ActiveLimit
  <2>3. CASE ~(StoreActive(r) \/ StoreResult(r))
    <3>1. UNCHANGED sessions
      BY <1>4, <2>3 DEF Begin, Serve, BeginCreate, BeginComplete, ListCompleted,
         RefuseRequest, CheckDailyLimit, SelectQuestions, LoadSession, ApplyAnswers,
         CallFails
    <3>2. QED
      BY <1>3, <2>1, <3>1 DEF ActiveLimit
  <2>4. QED
    BY <2>2, <2>3
<1>5. CASE Crash
  <2>1. ASSUME NEW q \in Requests PROVE HoldsTopicLimit(q)'
    <3>1. \/ requests'[q] = requests[q]
          \/ requests'[q] = [requests[q] EXCEPT !.pc = "done", !.reply = "aborted"]
      BY <1>1, <1>5, CrashEffect DEF TypeOK
    <3>2. CASE requests'[q] # requests[q]
      <4>1. requests[q] \in RequestType
        BY <1>1 DEF TypeOK
      <4>2. requests'[q].pc = "done"
        BY <3>1, <3>2, <4>1 DEF RequestType
      <4>3. QED
        BY <4>2 DEF HoldsTopicLimit
    <3>3. QED
      BY <1>2, <3>2
  <2>2. QED
    BY <1>3, <1>5, <2>1 DEF Crash, ActiveLimit
<1>6. ASSUME UNCHANGED <<sessions, requests>> PROVE ActiveLimit'
  BY <1>2, <1>3, <1>6 DEF ActiveLimit
<1>7. QED
  BY <1>4, <1>5, <1>6 DEF Next, Publish, PublishFails, Tick, vars

\* The limit in effect, in every behaviour and for every TopicDuration: no session
\* is stored as expired before LimitScale times the documented limit has passed
\* since its start, so answers stored between the two are graded, however late
\* (LateAnswersExpire; the run LateAnswers shows a first case).
THEOREM LimitIsScaled == Spec => []ExpiresLate
<1>1. ASSUME IInv, TimeInv, ActiveLimit, NEW i \in DOMAIN sessions,
             IsCompleted(i), sessions[i].expired
      PROVE  sessions[i].updated > sessions[i].started + LimitScale * TopicDuration
  <2>1. PICK j \in DOMAIN sessions : IsActive(j) /\ SameSession(i, j) /\ SameTest(i, j)
    BY <1>1 DEF IInv, StartedBefore
  <2>2. sessions[j].limit = TopicDuration /\ sessions[i].started = sessions[j].started
    BY <1>1, <2>1 DEF ActiveLimit, HasTopicLimit, SameTest
  <2>3. QED
    BY <1>1, <2>1, <2>2 DEF TimeInv, ExpiryIsSound
<1>2. IInv /\ TimeInv /\ ActiveLimit => ExpiresLate
  BY <1>1 DEF ExpiresLate
<1>3. QED
  BY <1>2, InitIInv, NextIInv, InitTime, NextTime, InitLimit, NextLimit, PTL DEF Spec
=============================================================================
