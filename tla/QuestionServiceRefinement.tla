---------------------- MODULE QuestionServiceRefinement ----------------------
(***************************************************************************)
(* The question service implements SessionLifecycle, for every set of      *)
(* requests, users, topics and answer lists.                               *)
(***************************************************************************)
EXTENDS QuestionServiceProofs, FiniteSetTheorems

-----------------------------------------------------------------------------
(* A row belongs to the session its writer holds; with IInv it is inductive *)
(* and ties the events to the verdicts they announce.                       *)
RowsFitWriters ==
  \A i \in DOMAIN sessions : sessions[i].sid = requests[sessions[i].by].session.sid

Refinable == IInv /\ RowsFitWriters

LEMMA WriterIsDone ==
  ASSUME IInv, NEW i \in DOMAIN sessions
  PROVE  sessions[i].by \in Requests /\ requests[sessions[i].by].pc = "done"
<1>1. sessions[i] \in RowType
  BY DEF IInv, TypeOK
<1>2. QED
  BY <1>1 DEF IInv, RowsHaveWriters, RowType

LEMMA AnnouncerIsDone ==
  ASSUME IInv, NEW e \in events
  PROVE  e.by \in Requests /\ requests[e.by].pc = "done"
<1>1. PICK i \in DOMAIN sessions : sessions[i].by = e.by
  BY DEF IInv, PublishedIsStored, AcknowledgedIsStored
<1>2. QED
  BY <1>1, WriterIsDone

(* A request that is done keeps its session for ever.                       *)
LEMMA DoneKeepsSession ==
  ASSUME IInv, [Next]_vars, NEW q \in Requests, requests[q].pc = "done"
  PROVE  requests'[q].session = requests[q].session
<1>1. requests \in [Requests -> RequestType]
  BY DEF IInv, TypeOK
<1>2. ASSUME NEW r \in Requests, Begin(r) \/ Serve(r)
      PROVE  requests'[q] = requests[q]
  <2>1. r # q
    BY <1>2 DEF Begin, BeginCreate, BeginComplete, ListCompleted, RefuseRequest, Serve,
                CheckDailyLimit, SelectQuestions, StoreActive, LoadSession, ApplyAnswers,
                StoreResult, CallFails, Waiting
  <2>2. CASE Begin(r)
    BY <1>1, <2>1, <2>2 DEF Begin, BeginCreate, BeginComplete, ListCompleted,
                            RefuseRequest, Arrive, Answer
  <2>3. CASE Serve(r)
    BY <1>1, <2>1, <2>3 DEF Serve, CheckDailyLimit, SelectQuestions, StoreActive,
                            LoadSession, ApplyAnswers, StoreResult, CallFails,
                            Answer, Goto, GotoWith
  <2>4. QED
    BY <1>2, <2>2, <2>3
<1>3. CASE Crash
  BY <1>1, <1>3 DEF Crash, Waiting
<1>4. CASE UNCHANGED requests
  BY <1>4
<1>5. QED
  BY <1>2, <1>3, <1>4 DEF Next, Publish, PublishFails, Tick, vars

(* A step appends a row of its request, or leaves the table alone.          *)
LEMMA RowsStep ==
  ASSUME IInv, [Next]_vars
  PROVE  \/ UNCHANGED sessions
         \/ \E r \in Requests :
              /\ StoreActive(r) \/ StoreResult(r)
              /\ sessions' = Append(sessions, Row(requests[r].session, r, clock))
BY DEF Next, vars, Begin, BeginCreate, BeginComplete, ListCompleted, RefuseRequest,
       Serve, CheckDailyLimit, SelectQuestions, StoreActive, LoadSession, ApplyAnswers,
       StoreResult, CallFails, Publish, PublishFails, Crash, Tick

LEMMA NextRefinable == Refinable /\ [Next]_vars => Refinable'
<1> SUFFICES ASSUME Refinable, [Next]_vars PROVE Refinable'
  OBVIOUS
<1>1. IInv /\ IInv' /\ sessions \in Seq(RowType) /\ clock \in Nat
  BY NextIInv DEF Refinable, IInv, TypeOK
<1>2. ASSUME NEW i \in DOMAIN sessions
      PROVE  sessions[i].sid = requests'[sessions[i].by].session.sid
  BY <1>1, WriterIsDone, DoneKeepsSession DEF Refinable, RowsFitWriters
<1>3. CASE UNCHANGED sessions
  BY <1>1, <1>2, <1>3 DEF Refinable, RowsFitWriters
<1>4. ASSUME NEW r \in Requests, StoreActive(r) \/ StoreResult(r),
             sessions' = Append(sessions, Row(requests[r].session, r, clock))
      PROVE  Refinable'
  <2> DEFINE row == Row(requests[r].session, r, clock)
             n == Len(sessions) + 1
  <2>1. requests \in [Requests -> RequestType]
    BY <1>1 DEF IInv, TypeOK
  <2>2. row \in RowType /\ row.by = r /\ row.sid = requests[r].session.sid
    BY <1>1, <2>1, RowIsTyped DEF Row, RequestType
  <2>3. requests'[r].session = requests[r].session
    <3>1. PICK reply : Answer(r, reply)
      BY <1>4 DEF StoreActive, StoreResult
    <3>2. requests'[r] = [requests[r] EXCEPT !.pc = "done", !.reply = reply]
      BY <2>1, <3>1 DEF Answer
    <3>3. requests[r] \in RequestType
      BY <2>1
    <3>4. QED
      BY <3>2, <3>3 DEF RequestType
  <2> HIDE DEF row
  <2>4. /\ DOMAIN sessions = 1 .. n - 1 /\ DOMAIN sessions' = 1 .. n
        /\ sessions'[n] = row /\ n \in Nat
        /\ \A i \in DOMAIN sessions : sessions'[i] = sessions[i]
    <3>1. sessions' = Append(sessions, row)
      BY <1>4 DEF row
    <3>2. QED
      BY <1>1, <2>2, <3>1, AppendedRow
  <2>5. ASSUME NEW i \in DOMAIN sessions'
        PROVE  sessions'[i].sid = requests'[sessions'[i].by].session.sid
    <3>1. CASE i = n
      BY <2>2, <2>3, <2>4, <3>1
    <3>2. CASE i # n
      BY <1>2, <2>4, <3>2
    <3>3. QED
      BY <3>1, <3>2
  <2>6. QED
    BY <1>1, <2>5 DEF Refinable, RowsFitWriters
<1>5. QED
  BY <1>1, <1>3, <1>4, RowsStep

-----------------------------------------------------------------------------
(* The abstract state, element by element.                                  *)

LEMMA AttemptElement ==
  ASSUME NEW sid, NEW q
  PROVE  <<sid, q>> \in LifecycleAttempts <=>
           q \in Requests /\ Attempting(q) /\ sid = requests[q].session.sid
BY DEF LifecycleAttempts

LEMMA AnnouncedKept ==
  ASSUME IInv, [Next]_vars, UNCHANGED events
  PROVE  UNCHANGED LifecycleAnnounced
<1>1. \A e \in events : requests'[e.by].session = requests[e.by].session
  BY AnnouncerIsDone, DoneKeepsSession
<1>2. QED
  BY <1>1 DEF LifecycleAnnounced

LEMMA TableKept ==
  ASSUME UNCHANGED sessions
  PROVE  UNCHANGED <<LifecycleStatus, LifecycleVerdicts>>
BY DEF LifecycleStatus, LifecycleVerdicts, StatusOf, RowsOf, IsCompleted

-----------------------------------------------------------------------------
(* Steps that store nothing and announce nothing.                          *)

(* No request begins an attempt: some attempts are given up, often none.    *)
LEMMA GiveUpStep ==
  ASSUME IInv, [Next]_vars, UNCHANGED <<sessions, events>>,
         \A q \in Requests : Attempting(q)' =>
           Attempting(q) /\ requests'[q].session.sid = requests[q].session.sid
  PROVE  Lifecycle!Next
<1>1. UNCHANGED <<LifecycleStatus, LifecycleVerdicts, LifecycleAnnounced>>
  BY TableKept, AnnouncedKept
<1>2. LifecycleAttempts' \subseteq LifecycleAttempts
  BY DEF LifecycleAttempts
<1>3. Lifecycle!GiveUp(LifecycleAttempts \ LifecycleAttempts')
  BY <1>1, <1>2 DEF Lifecycle!GiveUp
<1>4. LifecycleAttempts \ LifecycleAttempts' \in SUBSET LifecycleAttempts
  OBVIOUS
<1>5. QED
  BY <1>3, <1>4 DEF Lifecycle!Next

(* The same for a step of one request.                                      *)
LEMMA RequestGivesUp ==
  ASSUME IInv, [Next]_vars, UNCHANGED <<sessions, events>>, NEW r \in Requests,
         \A q \in Requests \ {r} : requests'[q] = requests[q],
         \/ requests'[r].pc \notin {"apply", "store result"}
         \/ /\ Attempting(r)
            /\ requests'[r].session.sid = requests[r].session.sid
         \/ requests'[r].pc = "apply" /\ requests'[r].session.state # ActiveState
  PROVE  Lifecycle!Next
<1>1. ASSUME NEW q \in Requests, Attempting(q)'
      PROVE  Attempting(q) /\ requests'[q].session.sid = requests[q].session.sid
  <2>1. CASE q = r
    BY <1>1, <2>1 DEF Attempting
  <2>2. CASE q # r
    BY <1>1, <2>2 DEF Attempting
  <2>3. QED
    BY <2>1, <2>2
<1>2. QED
  BY <1>1, GiveUpStep

LEMMA AnswerGivesUp ==
  ASSUME IInv, [Next]_vars, UNCHANGED <<sessions, events>>, NEW r \in Requests,
         NEW reply \in Replies, Answer(r, reply)
  PROVE  Lifecycle!Next
<1>1. requests \in [Requests -> RequestType]
  BY DEF IInv, TypeOK
<1>2. /\ requests'[r] = [requests[r] EXCEPT !.pc = "done", !.reply = reply]
      /\ \A q \in Requests \ {r} : requests'[q] = requests[q]
  BY <1>1, AnswerEffect
<1>3. requests'[r].pc = "done"
  BY <1>1, <1>2 DEF RequestType
<1>4. QED
  BY <1>2, <1>3, RequestGivesUp

LEMMA BeginRefines ==
  ASSUME IInv, [Next]_vars, NEW r \in Requests, Begin(r)
  PROVE  Lifecycle!Next
<1>1. requests \in [Requests -> RequestType] /\ UNCHANGED <<sessions, events>>
  BY DEF IInv, TypeOK, Begin, BeginCreate, BeginComplete, ListCompleted, RefuseRequest
<1>2. requests'[r].pc \in {"limit", "load", "done"}
  <2>1. requests[r] \in RequestType
    BY <1>1
  <2>2. ASSUME NEW user \in Users, NEW topics \in TopicChoices,
               BeginCreate(r, user, topics)
        PROVE  requests'[r].pc = "limit"
    BY <1>1, <2>2 DEF BeginCreate, Arrive
  <2>3. ASSUME NEW sid \in IssuedSessions \cup {UnknownSession},
               NEW answers \in Submissions, BeginComplete(r, sid, answers)
        PROVE  requests'[r].pc = "load"
    BY <1>1, <2>3 DEF BeginComplete, Arrive
  <2>4. ASSUME NEW user \in Users, ListCompleted(r, user)
        PROVE  requests'[r].pc = "done"
    BY <1>1, <2>1, <2>4, ListEffect DEF RequestType
  <2>5. ASSUME RefuseRequest(r) PROVE requests'[r].pc = "done"
    BY <1>1, <2>1, <2>5 DEF RefuseRequest, Answer, RequestType
  <2>6. QED
    BY <2>2, <2>3, <2>4, <2>5 DEF Begin
<1>3. \A q \in Requests \ {r} : requests'[q] = requests[q]
  BY <1>1 DEF Begin, BeginCreate, BeginComplete, ListCompleted, RefuseRequest, Arrive,
              Answer
<1>4. QED
  BY <1>1, <1>2, <1>3, RequestGivesUp

LEMMA CreateRefines ==
  ASSUME IInv, [Next]_vars, NEW r \in Requests, CheckDailyLimit(r) \/ SelectQuestions(r)
  PROVE  Lifecycle!Next
<1>1. requests \in [Requests -> RequestType] /\ UNCHANGED <<sessions, events>>
  BY DEF IInv, TypeOK, CheckDailyLimit, SelectQuestions
<1>2. /\ requests'[r].pc \in {"questions", "store", "done"}
      /\ \A q \in Requests \ {r} : requests'[q] = requests[q]
  <2>1. requests[r] \in RequestType
    BY <1>1
  <2>2. ASSUME NEW reply, Answer(r, reply)
        PROVE  /\ requests'[r].pc = "done"
               /\ \A q \in Requests \ {r} : requests'[q] = requests[q]
    BY <1>1, <2>1, <2>2 DEF Answer, RequestType
  <2>3. ASSUME Goto(r, "questions")
        PROVE  /\ requests'[r].pc = "questions"
               /\ \A q \in Requests \ {r} : requests'[q] = requests[q]
    BY <1>1, <2>1, <2>3 DEF Goto, RequestType
  <2>4. ASSUME NEW s, GotoWith(r, s, "store")
        PROVE  /\ requests'[r].pc = "store"
               /\ \A q \in Requests \ {r} : requests'[q] = requests[q]
    BY <1>1, <2>1, <2>4 DEF GotoWith, RequestType
  <2>5. CASE CheckDailyLimit(r)
    <3>1. Answer(r, "forbidden") \/ Goto(r, "questions")
      BY <2>5 DEF CheckDailyLimit
    <3>2. QED
      BY <3>1, <2>2, <2>3
  <2>6. CASE SelectQuestions(r)
    <3>1. \/ \E reply : Answer(r, reply)
          \/ \E s : GotoWith(r, s, "store")
      BY <2>6 DEF SelectQuestions
    <3>2. QED
      BY <3>1, <2>2, <2>4
  <2>7. QED
    BY <2>5, <2>6
<1>3. QED
  BY <1>1, <1>2, RequestGivesUp

LEMMA ApplyRefines ==
  ASSUME IInv, [Next]_vars, NEW r \in Requests, ApplyAnswers(r)
  PROVE  Lifecycle!Next
<1> DEFINE s == requests[r].session
           t == SetUserAnswer(s, requests[r].answers, clock)
<1>1. /\ requests \in [Requests -> RequestType] /\ requests[r].pc = "apply"
      /\ UNCHANGED <<sessions, events>> /\ s \in Session
  BY DEF IInv, TypeOK, ApplyAnswers, RequestType
<1>2. CASE Answer(r, "invalid state") \/ Answer(r, "invalid parameter")
  BY <1>1, <1>2, AnswerGivesUp DEF Replies
<1>3. CASE SetUserAnswerAccepts(s) /\ GotoWith(r, t, "store result")
  <2>1. t.sid = s.sid
    BY <1>1 DEF SetUserAnswer, Session
  <2> HIDE DEF t
  <2>2. /\ requests'[r].session = t
        /\ \A q \in Requests \ {r} : requests'[q] = requests[q]
    BY <1>1, <1>3 DEF GotoWith, RequestType
  <2>3. Attempting(r)
    BY <1>1, <1>3 DEF Attempting, SetUserAnswerAccepts
  <2>4. QED
    BY <1>1, <2>1, <2>2, <2>3, RequestGivesUp
<1>4. QED
  BY <1>2, <1>3 DEF ApplyAnswers

LEMMA CrashRefines ==
  ASSUME IInv, [Next]_vars, Crash
  PROVE  Lifecycle!Next
<1>1. requests \in [Requests -> RequestType] /\ UNCHANGED <<sessions, events>>
  BY DEF IInv, TypeOK, Crash
<1>2. ASSUME NEW q \in Requests
      PROVE  requests'[q] = requests[q] \/ requests'[q].pc = "done"
  <2>1. requests[q] \in RequestType
    BY <1>1
  <2>2. QED
    BY <1>1, <2>1 DEF Crash, RequestType
<1>3. \A q \in Requests : Attempting(q)' =>
        Attempting(q) /\ requests'[q].session.sid = requests[q].session.sid
  BY <1>2 DEF Attempting
<1>4. QED
  BY <1>1, <1>3, GiveUpStep

-----------------------------------------------------------------------------
(* The steps that start, attempt, complete and announce.                   *)

(* The status of a session by the rows of its id.                           *)
LEMMA ActiveStatus ==
  ASSUME IInv, NEW sid, NEW i \in RowsOf(sid), \A j \in RowsOf(sid) : ~IsCompleted(j)
  PROVE  StatusOf(sid) = "active"
BY DEF StatusOf

LEMMA LoadRefines ==
  ASSUME IInv, [Next]_vars, NEW r \in Requests, LoadSession(r)
  PROVE  Lifecycle!Next
<1> DEFINE sid == requests[r].session.sid
<1>1. /\ requests \in [Requests -> RequestType] /\ requests[r].pc = "load"
      /\ UNCHANGED <<sessions, events>> /\ sessions \in Seq(RowType)
  BY DEF IInv, TypeOK, LoadSession
<1>2. CASE Answer(r, "not found")
  BY <1>1, <1>2, AnswerGivesUp DEF Replies
<1>3. CASE /\ RowsOf(sid) # {}
           /\ \E qs \in QuestionsRead(LatestRow(sid).questions) :
                GotoWith(r, Recover(LatestRow(sid), qs), "apply")
  <2>1. PICK i \in RowsOf(sid) : /\ LatestRow(sid) = sessions[i]
                                /\ \A j \in RowsOf(sid) : j <= i
    BY <1>1, <1>3, LatestRowExists
  <2> PICK qs \in QuestionsRead(sessions[i].questions) :
             GotoWith(r, Recover(sessions[i], qs), "apply")
    BY <1>3, <2>1
  <2> DEFINE t == Recover(sessions[i], qs)
  <2>2. i \in DOMAIN sessions /\ sessions[i].sid = sid
    BY DEF RowsOf
  <2>3. t.sid = sid /\ t.state = sessions[i].state
    BY <2>2 DEF Recover
  <2>4. GotoWith(r, t, "apply")
    OBVIOUS
  <2> HIDE DEF t
  <2>5. /\ requests'[r].pc = "apply" /\ requests'[r].session = t
        /\ \A q \in Requests \ {r} : requests'[q] = requests[q]
    BY <1>1, <2>4 DEF GotoWith, RequestType
  <2>6. CASE ~IsActive(i)
    BY <1>1, <2>3, <2>5, <2>6, RequestGivesUp DEF IsActive
  <2>7. CASE IsActive(i)
    <3>1. sid \in Requests
      BY <2>2, <2>7, WriterIsDone DEF IInv, RowsHaveWriters
    <3>2. LifecycleStatus[sid] = "active"
      BY <2>1, <2>7, <3>1, LatestActive, ActiveStatus DEF LifecycleStatus
    <3>3. \A x : <<x, r>> \notin LifecycleAttempts
      BY <1>1, AttemptElement DEF Attempting
    <3>4. LifecycleAttempts' = LifecycleAttempts \cup {<<sid, r>>}
      <4>1. Attempting(r)' /\ requests'[r].session.sid = sid
        BY <2>3, <2>5, <2>7 DEF Attempting, IsActive
      <4>2. \A q \in Requests \ {r} :
              /\ Attempting(q)' <=> Attempting(q)
              /\ requests'[q].session.sid = requests[q].session.sid
        BY <2>5 DEF Attempting
      <4>3. ~Attempting(r)
        BY <1>1 DEF Attempting
      <4>4. QED
        BY <4>1, <4>2, <4>3 DEF LifecycleAttempts
    <3>5. UNCHANGED <<LifecycleStatus, LifecycleVerdicts, LifecycleAnnounced>>
      BY <1>1, TableKept, AnnouncedKept
    <3>6. Lifecycle!BeginAttempt(sid, r)
      BY <3>2, <3>3, <3>4, <3>5 DEF Lifecycle!BeginAttempt
    <3>7. QED
      BY <3>1, <3>6 DEF Lifecycle!Next
  <2>8. QED
    BY <2>6, <2>7
<1>4. QED
  BY <1>2, <1>3 DEF LoadSession

(* The row of an insert, and its place in the table.                        *)
LEMMA InsertedRow ==
  ASSUME sessions \in Seq(RowType), NEW row \in RowType, sessions' = Append(sessions, row)
  PROVE  \E n \in Nat :
           /\ DOMAIN sessions = 1 .. n - 1 /\ DOMAIN sessions' = 1 .. n
           /\ n \in DOMAIN sessions' /\ sessions'[n] = row
           /\ \A i \in DOMAIN sessions : sessions'[i] = sessions[i]
<1> DEFINE n == Len(sessions) + 1
<1>1. /\ DOMAIN sessions = 1 .. n - 1 /\ DOMAIN sessions' = 1 .. n
      /\ n \in DOMAIN sessions' /\ sessions'[n] = row /\ n \in Nat
      /\ \A i \in DOMAIN sessions : sessions'[i] = sessions[i]
  BY AppendedRow
<1> HIDE DEF n
<1>2. QED
  BY <1>1

LEMMA StoreActiveRefines ==
  ASSUME IInv, [Next]_vars, NEW r \in Requests, StoreActive(r)
  PROVE  Lifecycle!Next
<1> DEFINE s == requests[r].session
<1>1. /\ requests \in [Requests -> RequestType] /\ requests[r].pc = "store"
      /\ UNCHANGED events /\ s \in Session /\ sessions \in Seq(RowType)
      /\ clock \in Nat /\ s.state = ActiveState /\ s.sid = r
  BY DEF IInv, TypeOK, StoreActive, RequestType, RequestInv, HeldState
<1>2. PICK row \in RowType :
        /\ row.state = ActiveState /\ row.sid = r
        /\ sessions' = Append(sessions, row)
  <2>1. Row(s, r, clock) \in RowType
    BY <1>1, RowIsTyped
  <2>2. Row(s, r, clock).state = ActiveState /\ Row(s, r, clock).sid = r
    BY <1>1 DEF Row
  <2>3. QED
    BY <2>1, <2>2 DEF StoreActive
<1>3. PICK n \in Nat :
        /\ DOMAIN sessions = 1 .. n - 1 /\ DOMAIN sessions' = 1 .. n
        /\ n \in DOMAIN sessions' /\ sessions'[n] = row
        /\ \A i \in DOMAIN sessions : sessions'[i] = sessions[i]
  BY <1>1, <1>2, InsertedRow
<1>4. sessions'[n].state = ActiveState /\ sessions'[n].sid = r
  BY <1>2, <1>3
<1>5. /\ requests'[r].pc = "done"
      /\ \A q \in Requests \ {r} : requests'[q] = requests[q]
  BY <1>1 DEF StoreActive, Answer, RequestType
<1>6. RowsOf(r) = {}
  <2> SUFFICES ASSUME NEW i \in DOMAIN sessions, sessions[i].sid = r PROVE FALSE
    BY DEF RowsOf
  <2>1. PICK j \in DOMAIN sessions : IsActive(j) /\ sessions[j].sid = r
    BY DEF IInv, RowsHaveWriters, StartedBefore, SameSession
  <2>2. sessions[j].by = r
    BY <2>1 DEF IInv, RowsHaveWriters
  <2>3. QED
    BY <1>1, <2>2, WriterIsDone
<1>7. RowsOf(r)' = {n} /\ ~IsCompleted(n)'
  <2>1. \A i \in DOMAIN sessions' : sessions'[i].sid = r <=> i = n
    BY <1>3, <1>4, <1>6 DEF RowsOf
  <2>2. RowsOf(r)' = {n}
    BY <1>3, <2>1 DEF RowsOf
  <2>3. ~IsCompleted(n)'
    BY <1>3, <1>4 DEF IsCompleted, ActiveState, CompletedState
  <2>4. QED
    BY <2>2, <2>3
<1>8. ASSUME NEW q \in Requests \ {r} PROVE StatusOf(q)' = StatusOf(q)
  <2>1. RowsOf(q)' = RowsOf(q)
    BY <1>3, <1>4 DEF RowsOf
  <2>2. \A i \in RowsOf(q) : IsCompleted(i)' <=> IsCompleted(i)
    BY <1>3 DEF RowsOf, IsCompleted
  <2>3. QED
    BY <2>1, <2>2 DEF StatusOf
<1>9. StatusOf(r) = "none" /\ StatusOf(r)' = "active"
  BY <1>6, <1>7 DEF StatusOf
<1>10. /\ LifecycleStatus[r] = "none"
       /\ LifecycleStatus' = [LifecycleStatus EXCEPT ![r] = "active"]
  BY <1>8, <1>9 DEF LifecycleStatus
<1>11. LifecycleVerdicts' = LifecycleVerdicts
  <2>1. {i \in DOMAIN sessions' : IsCompleted(i)'} = {i \in DOMAIN sessions : IsCompleted(i)}
    <3>1. ~IsCompleted(n)'
      BY <1>4 DEF IsCompleted, ActiveState, CompletedState
    <3>2. \A i \in DOMAIN sessions : IsCompleted(i)' <=> IsCompleted(i)
      BY <1>3 DEF IsCompleted
    <3>3. QED
      BY <1>3, <3>1, <3>2
  <2>2. QED
    BY <1>3, <2>1 DEF LifecycleVerdicts
<1>12. LifecycleAttempts' = LifecycleAttempts
  BY <1>1, <1>5 DEF LifecycleAttempts, Attempting
<1>13. LifecycleAnnounced' = LifecycleAnnounced
  BY <1>1, AnnouncedKept
<1>14. Lifecycle!Start(r)
  BY <1>10, <1>11, <1>12, <1>13 DEF Lifecycle!Start
<1>15. QED
  BY <1>14 DEF Lifecycle!Next

LEMMA StoreResultRefines ==
  ASSUME IInv, [Next]_vars, NEW r \in Requests, StoreResult(r)
  PROVE  Lifecycle!Next
<1> DEFINE s == requests[r].session
<1>1. /\ requests \in [Requests -> RequestType] /\ requests[r].pc = "store result"
      /\ UNCHANGED events /\ s \in Session /\ sessions \in Seq(RowType)
      /\ clock \in Nat /\ s.state = CompletedState
  BY DEF IInv, TypeOK, StoreResult, RequestType, RequestInv, HeldState,
         GetSessionResultAccepts
<1>2. PICK row \in RowType :
        /\ row.state = CompletedState /\ row.by = r /\ row.sid = s.sid
        /\ sessions' = Append(sessions, row)
  <2>1. Row(s, r, clock) \in RowType
    BY <1>1, RowIsTyped
  <2>2. /\ Row(s, r, clock).state = CompletedState /\ Row(s, r, clock).by = r
        /\ Row(s, r, clock).sid = s.sid
    BY <1>1 DEF Row
  <2>3. QED
    BY <2>1, <2>2 DEF StoreResult
<1>3. PICK n \in Nat :
        /\ DOMAIN sessions = 1 .. n - 1 /\ DOMAIN sessions' = 1 .. n
        /\ n \in DOMAIN sessions' /\ sessions'[n] = row
        /\ \A i \in DOMAIN sessions : sessions'[i] = sessions[i]
  <2>1. sessions \in Seq(RowType) /\ sessions' = Append(sessions, row)
    BY <1>1, <1>2
  <2>2. QED
    BY <2>1, InsertedRow
<1>4. /\ requests'[r].pc = "done"
      /\ \A q \in Requests \ {r} : requests'[q] = requests[q]
  <2>1. PICK reply : Answer(r, reply)
    BY DEF StoreResult
  <2>2. requests[r] \in RequestType
    BY <1>1
  <2>3. QED
    BY <1>1, <2>1, <2>2 DEF Answer, RequestType
<1>5. PICK sid \in Requests : sid = s.sid
  <2>1. PICK j \in DOMAIN sessions : HoldsTest(r, j)
    BY <1>1 DEF IInv, RequestInv, HeldStarted
  <2>2. s.sid \in Requests
    BY <2>1, WriterIsDone DEF HoldsTest, IInv, RowsHaveWriters
  <2>3. QED
    BY <2>2
<1>6. /\ sessions'[n].state = CompletedState /\ sessions'[n].by = r
      /\ sessions'[n].sid = sid /\ sessions'[n].passed = row.passed
  BY <1>2, <1>3, <1>5
<1>7. \A i \in DOMAIN sessions : IsCompleted(i)' <=> IsCompleted(i)
  BY <1>3 DEF IsCompleted
<1>8. ASSUME NEW q \in Requests \ {sid} PROVE StatusOf(q)' = StatusOf(q)
  <2>1. RowsOf(q)' = RowsOf(q)
    BY <1>3, <1>6 DEF RowsOf
  <2>2. \A i \in RowsOf(q) : IsCompleted(i)' <=> IsCompleted(i)
    BY <1>7 DEF RowsOf
  <2>3. QED
    BY <2>1, <2>2 DEF StatusOf
<1>9. StatusOf(sid)' = "completed"
  <2>1. n \in RowsOf(sid)' /\ IsCompleted(n)'
    BY <1>3, <1>6 DEF RowsOf, IsCompleted
  <2>2. QED
    BY <2>1 DEF StatusOf
<1>10. LifecycleStatus' = [LifecycleStatus EXCEPT ![sid] = "completed"]
  BY <1>5, <1>8, <1>9 DEF LifecycleStatus
<1>11. LifecycleVerdicts' = LifecycleVerdicts \cup {<<sid, r, row.passed>>}
  <2>1. {i \in DOMAIN sessions' : IsCompleted(i)'}
          = {i \in DOMAIN sessions : IsCompleted(i)} \cup {n}
    <3>1. n \in DOMAIN sessions' /\ IsCompleted(n)'
      BY <1>3, <1>6 DEF IsCompleted
    <3>2. QED
      BY <1>3, <1>7, <3>1
  <2>2. QED
    BY <1>3, <1>6, <2>1 DEF LifecycleVerdicts
<1>12. LifecycleAttempts' = LifecycleAttempts \ {<<sid, r>>}
  <2>1. ~Attempting(r)'
    BY <1>4 DEF Attempting
  <2>2. \A q \in Requests \ {r} :
          /\ Attempting(q)' <=> Attempting(q)
          /\ requests'[q].session.sid = requests[q].session.sid
    BY <1>4 DEF Attempting
  <2>3. QED
    BY <1>5, <2>1, <2>2 DEF LifecycleAttempts
<1>13. LifecycleAnnounced' = LifecycleAnnounced
  BY <1>1, AnnouncedKept
<1>14. <<sid, r>> \in LifecycleAttempts
  BY <1>1, <1>5, AttemptElement DEF Attempting
<1>15. Lifecycle!Complete(sid, r, row.passed)
  BY <1>10, <1>11, <1>12, <1>13, <1>14 DEF Lifecycle!Complete
<1>16. row.passed \in BOOLEAN
  BY DEF RowType
<1>17. QED
  BY <1>5, <1>15, <1>16 DEF Lifecycle!Next

(* The comparison with the border is one of numbers.                        *)
LEMMA VerdictIsBoolean ==
  ASSUME NEW s \in Session
  PROVE  GetSessionResult(s).is_success \in BOOLEAN
<1> DEFINE entries == [id : STRING, sel : Seq(STRING)]
<1>1. s.answers \in Seq(entries) /\ s.questions \subseteq QuestionIds
  <2>1. Submissions \subseteq Seq(entries)
    BY ServiceAssumption
  <2> HIDE DEF entries
  <2>2. <<>> \in Seq(entries)
    OBVIOUS
  <2>3. QED
    BY <2>1, <2>2 DEF Session
<1> HIDE DEF entries
<1>2. Cardinality(s.questions) \in Nat
  BY <1>1, BankAssumption, FS_Subset, FS_CardinalityType
<1>3. CountOfCorrectUserAnswers(s.answers) \in Nat
  <2>1. CorrectEntries(s.answers) \subseteq 1 .. Len(s.answers)
    BY <1>1 DEF CorrectEntries
  <2>2. IsFiniteSet(1 .. Len(s.answers))
    <3>1. Len(s.answers) \in Nat
      BY <1>1
    <3>2. 1 \in Int /\ Len(s.answers) \in Int
      BY <3>1
    <3>3. QED
      BY <3>2, FS_Interval
  <2>3. QED
    BY <2>1, <2>2, FS_Subset, FS_CardinalityType DEF CountOfCorrectUserAnswers
<1>4. ReachesBorder(CountOfCorrectUserAnswers(s.answers), Cardinality(s.questions))
        \in BOOLEAN
  BY <1>2, <1>3 DEF ReachesBorder
<1>5. QED
  BY <1>4 DEF GetSessionResult, ExpiredResult, ProcessingResult

(* The verdict a goroutine announces is that of the row its request wrote,  *)
(* and the row's session is the one the request holds.                      *)
LEMMA PublishRefines ==
  ASSUME Refinable, [Next]_vars, NEW r \in Requests, Publish(r)
  PROVE  Lifecycle!Next
<1> DEFINE v == <<requests[r].session.sid, r,
                  GetSessionResult(requests[r].session).is_success>>
<1>1. /\ r \in publishing /\ UNCHANGED <<sessions, requests>>
      /\ events' = events \cup {Event(r)} /\ IInv
  BY DEF Publish, Refinable
<1>2. PICK i \in DOMAIN sessions :
        /\ IsCompleted(i) /\ sessions[i].by = r
        /\ (sessions[i].passed <=> GetSessionResult(requests[r].session).is_success)
  BY <1>1 DEF IInv, PublishedIsStored
<1>3. sessions[i].sid = requests[r].session.sid
  BY <1>2 DEF Refinable, RowsFitWriters
<1>4. v \in LifecycleVerdicts
  <2>1. sessions[i].passed = GetSessionResult(requests[r].session).is_success
    <3>1. requests[r].session \in Session /\ sessions[i].passed \in BOOLEAN
      <4>1. requests[r] \in RequestType /\ sessions[i] \in RowType
        BY <1>1, <1>2, WriterIsDone DEF IInv, TypeOK
      <4>2. QED
        BY <4>1 DEF RequestType, RowType
    <3>2. GetSessionResult(requests[r].session).is_success \in BOOLEAN
      BY <3>1, VerdictIsBoolean
    <3>3. QED
      BY <1>2, <3>1, <3>2
  <2>2. QED
    BY <1>2, <1>3, <2>1 DEF LifecycleVerdicts
<1>5. LifecycleAnnounced' = LifecycleAnnounced \cup {v}
  <2>1. v = <<requests[Event(r).by].session.sid, Event(r).by,
              Event(r).result.is_success>>
    BY DEF Event
  <2> HIDE DEF v
  <2>2. QED
    BY <1>1, <2>1 DEF LifecycleAnnounced
<1>6. UNCHANGED <<LifecycleStatus, LifecycleVerdicts, LifecycleAttempts>>
  BY <1>1, TableKept DEF LifecycleAttempts, Attempting
<1>7. Lifecycle!Announce(v)
  BY <1>4, <1>5, <1>6 DEF Lifecycle!Announce
<1>8. QED
  BY <1>4, <1>7 DEF Lifecycle!Next

-----------------------------------------------------------------------------
(* The refinement.                                                         *)

LEMMA InitRefines == Init => Refinable /\ Lifecycle!Init
<1> SUFFICES ASSUME Init PROVE Refinable /\ Lifecycle!Init
  OBVIOUS
<1>1. sessions = <<>> /\ events = {} /\ \A r \in Requests : requests[r].pc = "idle"
  BY DEF Init, NewRequest
<1>2. Refinable
  BY <1>1, InitIInv DEF Refinable, RowsFitWriters
<1>3. LifecycleStatus = [sid \in Requests |-> "none"]
  BY <1>1 DEF LifecycleStatus, StatusOf, RowsOf
<1>4. LifecycleAttempts = {} /\ LifecycleVerdicts = {} /\ LifecycleAnnounced = {}
  <2>1. \A r \in Requests : ~Attempting(r)
    BY <1>1 DEF Attempting
  <2>2. LifecycleAttempts = {}
    BY <2>1 DEF LifecycleAttempts
  <2>3. LifecycleVerdicts = {}
    BY <1>1 DEF LifecycleVerdicts
  <2>4. LifecycleAnnounced = {}
    BY <1>1 DEF LifecycleAnnounced
  <2>5. QED
    BY <2>2, <2>3, <2>4
<1>5. QED
  BY <1>2, <1>3, <1>4 DEF Lifecycle!Init

LEMMA NextRefines == Refinable /\ [Next]_vars => [Lifecycle!Next]_Lifecycle!vars
<1> SUFFICES ASSUME Refinable, [Next]_vars PROVE [Lifecycle!Next]_Lifecycle!vars
  OBVIOUS
<1>1. IInv
  BY DEF Refinable
<1>2. ASSUME NEW r \in Requests, Begin(r) PROVE Lifecycle!Next
  BY <1>1, <1>2, BeginRefines
<1>3. ASSUME NEW r \in Requests, Serve(r) PROVE Lifecycle!Next
  <2>1. CASE CallFails(r)
    BY <1>1, <2>1, AnswerGivesUp DEF CallFails, Replies
  <2>2. QED
    BY <1>1, <1>3, <2>1, CreateRefines, StoreActiveRefines, LoadRefines, ApplyRefines,
       StoreResultRefines
    DEF Serve
<1>4. ASSUME NEW r \in Requests, Publish(r) PROVE Lifecycle!Next
  BY <1>4, PublishRefines
<1>5. CASE Crash
  BY <1>1, <1>5, CrashRefines
<1>6. CASE UNCHANGED <<sessions, requests, events>>
  <2>1. UNCHANGED <<LifecycleStatus, LifecycleVerdicts, LifecycleAttempts,
                    LifecycleAnnounced>>
    BY <1>6, TableKept DEF LifecycleAttempts, LifecycleAnnounced, Attempting
  <2>2. QED
    BY <2>1 DEF Lifecycle!vars
<1>7. QED
  BY <1>2, <1>3, <1>4, <1>5, <1>6 DEF Next, PublishFails, Tick, vars

\* The service implements SessionLifecycle: whatever interleaves, fails or is cut
\* off, a session is started once, no completion begins after a verdict, and what
\* the broker holds is a recorded verdict.
THEOREM ServiceImplementsLifecycle == Spec => ImplementsLifecycle
BY InitRefines, NextRefinable, NextRefines, PTL DEF Spec, ImplementsLifecycle, Lifecycle!Spec
=============================================================================
