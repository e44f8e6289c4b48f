------------------------ MODULE ServiceProcessProofs -------------------------
(***************************************************************************)
(* Theorems about ServiceProcess, for pools of any size and any number of  *)
(* requests, calls, rows and signals.                                      *)
(***************************************************************************)
EXTENDS ServiceProcess, FiniteSetTheorems, TLAPS

-----------------------------------------------------------------------------
(* Counting connections.                                                   *)

HeldBy(r, n) == {h \in {r} \X {1, 2} : h[2] <= n}

HeldByOthers(r) == {h \in Held : h[1] # r}

LEMMA CountOfOne ==
  ASSUME NEW r, NEW n \in 0 .. 2
  PROVE  IsFiniteSet(HeldBy(r, n)) /\ Cardinality(HeldBy(r, n)) = n
<1>1. CASE n = 0
  <2>1. HeldBy(r, n) = {}
    BY <1>1 DEF HeldBy
  <2>2. QED
    BY <1>1, <2>1, FS_EmptySet
<1>2. HeldBy(r, 1) = {<<r, 1>>}
  BY DEF HeldBy
<1>3. IsFiniteSet({<<r, 1>>}) /\ Cardinality({<<r, 1>>}) = 1
  <2>1. IsFiniteSet({}) /\ Cardinality({}) = 0 /\ <<r, 1>> \notin {}
    BY FS_EmptySet
  <2>2. IsFiniteSet({} \cup {<<r, 1>>}) /\ Cardinality({} \cup {<<r, 1>>}) = 0 + 1
    BY <2>1, FS_AddElement
  <2>3. {} \cup {<<r, 1>>} = {<<r, 1>>}
    OBVIOUS
  <2>4. QED
    BY <2>2, <2>3
<1>4. CASE n = 1
  BY <1>2, <1>3, <1>4
<1>5. CASE n = 2
  <2>1. HeldBy(r, 2) = {<<r, 1>>} \cup {<<r, 2>>} /\ <<r, 2>> \notin {<<r, 1>>}
    BY DEF HeldBy
  <2>2. QED
    <3>1. Cardinality({<<r, 1>>} \cup {<<r, 2>>}) = 1 + 1
          /\ IsFiniteSet({<<r, 1>>} \cup {<<r, 2>>})
      BY <1>3, <2>1, FS_AddElement
    <3>2. QED
      BY <1>5, <2>1, <3>1
<1>6. QED
  BY <1>1, <1>4, <1>5

LEMMA HeldIsFinite == IsFiniteSet(Held)
<1>1. IsFiniteSet({1, 2})
  <2>1. {1, 2} = 1 .. 2 /\ 1 \in Int /\ 2 \in Int
    OBVIOUS
  <2>2. QED
    BY <2>1, FS_Interval
<1>2. IsFiniteSet(Requests \X {1, 2})
  BY <1>1, PoolAssumption, FS_Product
<1>3. Held \subseteq Requests \X {1, 2}
  BY DEF Held
<1>4. QED
  BY <1>2, <1>3, FS_Subset

LEMMA HeldSplits ==
  ASSUME NEW r \in Requests, requests[r].conns \in 0 .. 2
  PROVE  /\ IsFiniteSet(HeldByOthers(r)) /\ Cardinality(HeldByOthers(r)) \in Nat
         /\ Cardinality(Held) = Cardinality(HeldByOthers(r)) + requests[r].conns
<1>1. PICK n \in 0 .. 2 : n = requests[r].conns
  OBVIOUS
<1>2. Held = HeldByOthers(r) \cup HeldBy(r, n) /\ HeldByOthers(r) \cap HeldBy(r, n) = {}
  BY <1>1 DEF Held, HeldByOthers, HeldBy
<1>3. IsFiniteSet(HeldByOthers(r)) /\ Cardinality(HeldByOthers(r)) \in Nat
  <2>1. HeldByOthers(r) \subseteq Held
    BY DEF HeldByOthers
  <2>2. QED
    BY <2>1, HeldIsFinite, FS_Subset, FS_CardinalityType
<1>4. IsFiniteSet(HeldBy(r, n)) /\ Cardinality(HeldBy(r, n)) = n
  BY CountOfOne
<1>5. Cardinality({}) = 0
  BY FS_EmptySet
<1>6. Cardinality(Held) = Cardinality(HeldByOthers(r)) + n - 0
  BY <1>2, <1>3, <1>4, <1>5, FS_Union
<1>7. QED
  BY <1>1, <1>3, <1>6

-----------------------------------------------------------------------------
(* One step of one request, as the pool and the process see it.             *)

GivenBack(q) ==
  q.pc = "done" => q.conns = 0 \/ (q.kind = "list" /\ q.reply = "error" /\ q.conns = 1)

IsFlying(q) == q.pc \notin {"idle", "done"}

PoolStep(r, q) ==
  /\ q \in RequestType /\ ConnectionsFit(q) /\ GivenBack(q)
  /\ q.pc # "idle" /\ (requests[r].pc # "idle" => q.kind = requests[r].kind)
  /\ requests' = [requests EXCEPT ![r] = q]
  /\ idle' = idle + requests[r].conns - q.conns /\ idle' \in Nat

LEMMA PoolStepCounts ==
  ASSUME IInv, NEW r \in Requests, NEW q, PoolStep(r, q)
  PROVE  (PoolTypeOK /\ PoolIsKept /\ \A s \in Requests : ConnectionsFit(requests[s]))'
<1>1. /\ requests \in [Requests -> RequestType] /\ idle \in 0 .. MaxConns
      /\ requests[r] \in RequestType /\ MaxConns \in Nat /\ q \in RequestType
  BY PoolAssumption DEF IInv, TypeOK, PoolTypeOK, PoolStep
<1>2. requests[r].conns \in 0 .. 2 /\ q.conns \in 0 .. 2
  BY <1>1 DEF RequestType
<1>3. requests' \in [Requests -> RequestType] /\ requests'[r] = q
  BY <1>1 DEF PoolStep
<1>4. \A s \in Requests : s # r => requests'[s] = requests[s]
  BY <1>1 DEF PoolStep
<1>5. HeldByOthers(r)' = HeldByOthers(r)
  BY <1>4 DEF HeldByOthers, Held
<1>6. /\ Cardinality(HeldByOthers(r)) \in Nat
      /\ Cardinality(Held) = Cardinality(HeldByOthers(r)) + requests[r].conns
  BY <1>2, HeldSplits
<1>7. Cardinality(Held') = Cardinality(HeldByOthers(r)) + q.conns
  <2>1. Held' = HeldByOthers(r) \cup HeldBy(r, q.conns)
    BY <1>3, <1>4 DEF Held, HeldByOthers, HeldBy
  <2>2. HeldByOthers(r) \cap HeldBy(r, q.conns) = {}
    BY DEF HeldByOthers, HeldBy
  <2>3. IsFiniteSet(HeldByOthers(r))
    BY <1>2, HeldSplits
  <2>4. IsFiniteSet(HeldBy(r, q.conns)) /\ Cardinality(HeldBy(r, q.conns)) = q.conns
    BY <1>2, CountOfOne
  <2>5. Cardinality({}) = 0
    BY FS_EmptySet
  <2>6. Cardinality(HeldByOthers(r) \cup HeldBy(r, q.conns))
          = Cardinality(HeldByOthers(r)) + q.conns - 0
    BY <2>2, <2>3, <2>4, <2>5, FS_Union
  <2>7. QED
    BY <1>2, <1>6, <2>1, <2>6
<1>8. idle + Cardinality(Held) = MaxConns
  BY DEF IInv, PoolIsKept
<1>9. idle' + Cardinality(Held') = MaxConns /\ idle' \in 0 .. MaxConns
  BY <1>1, <1>2, <1>6, <1>7, <1>8 DEF PoolStep
<1>10. ASSUME NEW s \in Requests
       PROVE  ConnectionsFit(requests[s])' /\ GivenBack(requests[s])'
  <2>1. CASE s = r
    BY <1>3, <2>1 DEF PoolStep, ConnectionsFit, GivenBack
  <2>2. CASE s # r
    BY <1>4, <2>2 DEF IInv, PoolIsKept, ConnectionsFit, GivenBack
  <2>3. QED
    BY <2>1, <2>2
<1>11. PoolIsKept'
  BY <1>9, <1>10 DEF PoolIsKept, GivenBack
<1>12. QED
  BY <1>3, <1>9, <1>10, <1>11 DEF PoolTypeOK

(* A request in flight goes on, or one arrives at the server for its kind.   *)
LEMMA PoolStepInv ==
  ASSUME IInv, NEW r \in Requests, NEW q, PoolStep(r, q), UNCHANGED process,
         \/ IsFlying(requests[r])
         \/ requests[r].pc = "idle" /\ q.kind # "rpc" /\ listener = "open"
         \/ requests[r].pc = "idle" /\ q.kind = "rpc" /\ private = "serving"
  PROVE  IInv'
<1>1. requests \in [Requests -> RequestType] /\ cut \subseteq Requests
  BY DEF IInv, TypeOK, PoolTypeOK
<1>2. UNCHANGED <<app, public, private, listener, signals, notices, passed, cut>>
  BY DEF process
<1>3. \A s \in Requests : requests'[s] = IF s = r THEN q ELSE requests[s]
  BY <1>1 DEF PoolStep
<1>4. (PoolTypeOK /\ PoolIsKept /\ \A s \in Requests : ConnectionsFit(requests[s]))'
  BY PoolStepCounts
<1>5. TypeOK'
  BY <1>2, <1>4 DEF IInv, TypeOK
<1>6. IsFlying(requests[r]) => q.kind = requests[r].kind
  BY DEF PoolStep, IsFlying
<1>7. OverHttp = {} /\ listener # "open" => OverHttp' = {}
  BY <1>3, <1>6 DEF OverHttp, OverGrpc, InFlight, IsFlying
<1>8. OverGrpc \subseteq cut /\ private # "serving" => OverGrpc' \subseteq cut
  BY <1>3, <1>6 DEF OverGrpc, InFlight, IsFlying
<1>9. listener \in {"none", "open", "failed", "closed"}
  BY DEF IInv, TypeOK
<1>10. \A s \in cut : requests'[s].kind = "rpc" /\ requests'[s].pc # "idle"
  BY <1>1, <1>3 DEF PoolStep, IInv, RequestsFitServer
<1>11. RequestsFitServer'
  <2>1. app \in {"waiting", "graceful"} => OverHttp' = {} \/ "shutdown" \in passed
    BY <1>7 DEF IInv, RequestsFitServer
  <2>2. listener = "none" => OverHttp' = {}
    BY <1>7 DEF IInv, RequestsFitServer
  <2>3. private # "serving" => OverGrpc' \subseteq cut
    BY <1>8 DEF IInv, RequestsFitServer
  <2>4. QED
    BY <1>2, <1>10, <2>1, <2>2, <2>3 DEF IInv, RequestsFitServer
<1>12. QED
  BY <1>4, <1>5, <1>11 DEF IInv

-----------------------------------------------------------------------------
(* The steps of a request, one by one.                                     *)

LEMMA Asked ==
  ASSUME IInv, NEW r \in Requests
  PROVE  /\ requests[r] \in RequestType /\ ConnectionsFit(requests[r])
         /\ requests[r].conns \in 0 .. 2 /\ idle \in Nat
         /\ requests \in [Requests -> RequestType]
<1>1. requests[r] \in RequestType /\ requests \in [Requests -> RequestType] /\ idle \in Nat
  <2>1. requests \in [Requests -> RequestType] /\ idle \in 0 .. MaxConns
    BY DEF IInv, TypeOK, PoolTypeOK
  <2>2. QED
    BY <2>1
<1>2. requests[r].conns \in 0 .. 2
  BY <1>1 DEF RequestType
<1>3. QED
  BY <1>1, <1>2 DEF IInv

LEMMA MaxLeftBounds ==
  MaxLeft \in Nat /\ 0 .. MaxCalls \subseteq 0 .. MaxLeft /\ 0 .. MaxRows \subseteq 0 .. MaxLeft
<1>1. MaxLeft \in Nat /\ MaxCalls <= MaxLeft /\ MaxRows <= MaxLeft
  BY PoolAssumption DEF MaxLeft
<1>2. QED
  BY <1>1, PoolAssumption

LEMMA LeftBound ==
  ASSUME NEW q \in RequestType, q.left > 0
  PROVE  q.left - 1 \in 0 .. MaxLeft
<1>1. q.left \in 0 .. MaxLeft
  BY DEF RequestType
<1>2. QED
  BY <1>1, MaxLeftBounds

LEMMA AnswerStep ==
  ASSUME IInv, NEW r \in Requests, NEW reply \in {"ok", "error"}, NEW kept \in 0 .. 2,
         kept <= requests[r].conns, Answer(r, reply, kept),
         kept = 0 \/ (kept = 1 /\ requests[r].kind = "list" /\ reply = "error")
  PROVE  \E q : PoolStep(r, q)
<1>1. PICK q : q = [NewRequest EXCEPT !.kind = requests[r].kind, !.pc = "done",
                                     !.conns = kept, !.reply = reply]
  OBVIOUS
<1>2. 0 \in 0 .. MaxLeft
  BY MaxLeftBounds
<1>3. requests[r].kind \in {"call", "list", "rpc"}
  BY Asked DEF RequestType
<1>4. q \in RequestType
  BY <1>1, <1>2, <1>3 DEF NewRequest, RequestType
<1>5. /\ q.kind = requests[r].kind /\ q.pc = "done" /\ q.conns = kept /\ q.reply = reply
  BY <1>1 DEF NewRequest
<1>6. ConnectionsFit(q) /\ GivenBack(q)
  BY <1>5 DEF ConnectionsFit, GivenBack
<1>7. requests' = [requests EXCEPT ![r] = q]
  BY <1>1 DEF Answer
<1>8. idle' = idle + requests[r].conns - q.conns /\ idle' \in Nat
  BY <1>5, Asked DEF Answer
<1>9. QED
  BY <1>4, <1>5, <1>6, <1>7, <1>8 DEF PoolStep

LEMMA AcquireStep ==
  ASSUME IInv, NEW r \in Requests, NEW pc \in {"use", "rows", "row_use"}, Acquire(r, pc),
         NEW had \in 0 .. 1, had = requests[r].conns,
         had = 1 <=> pc = "row_use",
         pc = "use" => requests[r].kind # "list" /\ requests[r].left > 0,
         pc # "use" => requests[r].kind = "list"
  PROVE  \E q : PoolStep(r, q)
<1>1. PICK has \in 1 .. 2 : has = had + 1
  OBVIOUS
<1>2. PICK q : q = [requests[r] EXCEPT !.pc = pc, !.conns = has]
  OBVIOUS
<1>3. requests[r] \in RequestType /\ requests \in [Requests -> RequestType] /\ has \in 0 .. 2
  BY Asked, <1>1
<1>4. q \in RequestType
  BY <1>2, <1>3 DEF RequestType
<1>5. /\ q.kind = requests[r].kind /\ q.pc = pc /\ q.conns = has
      /\ q.left = requests[r].left
  BY <1>2, <1>3 DEF RequestType
<1>6. has = IF pc = "row_use" THEN 2 ELSE 1
  BY <1>1
<1>7. ConnectionsFit(q) /\ GivenBack(q)
  BY <1>5, <1>6 DEF ConnectionsFit, GivenBack
<1>8. requests' = [requests EXCEPT ![r] = q]
  BY <1>1, <1>2, <1>3 DEF Acquire
<1>9. PICK n \in Nat : n = idle /\ n > 0 /\ idle' = n - 1
  BY Asked DEF Acquire
<1>10. idle' = n + had - has /\ idle' \in Nat
  BY <1>1, <1>9
<1>11. QED
  BY <1>4, <1>5, <1>7, <1>8, <1>9, <1>10 DEF PoolStep

(* The other steps: the request goes on, with fewer connections or as many.  *)
LEMMA GoOnStep ==
  ASSUME IInv, NEW r \in Requests,
         NEW pc \in {"call", "rows", "row_call", "row_read"},
         NEW left \in 0 .. MaxLeft, NEW had \in 0 .. 2, NEW has \in 0 .. 1,
         had = requests[r].conns, has <= had,
         requests' = [requests EXCEPT ![r] =
                        [requests[r] EXCEPT !.pc = pc, !.left = left, !.conns = has]],
         idle' = idle + (had - has),
         pc = "call" => has = 0,
         pc # "call" => has = 1 /\ requests[r].kind = "list"
  PROVE  \E q : PoolStep(r, q)
<1>1. PICK q : q = [requests[r] EXCEPT !.pc = pc, !.left = left, !.conns = has]
  OBVIOUS
<1>2. requests[r] \in RequestType /\ has \in 0 .. 2
  BY Asked
<1>3. q \in RequestType
  BY <1>1, <1>2 DEF RequestType
<1>4. q.kind = requests[r].kind /\ q.pc = pc /\ q.conns = has
  BY <1>1, <1>2 DEF RequestType
<1>5. ConnectionsFit(q) /\ GivenBack(q)
  BY <1>4 DEF ConnectionsFit, GivenBack
<1>6. PICK n \in Nat : n = idle
  BY Asked
<1>7. idle' = n + had - has /\ idle' \in Nat
  BY <1>6
<1>8. QED
  BY <1>1, <1>3, <1>4, <1>5, <1>6, <1>7 DEF PoolStep

LEMMA ProgressStep ==
  ASSUME IInv, NEW r \in Requests, Progress(r)
  PROVE  IsFlying(requests[r]) /\ \E q : PoolStep(r, q)
<1>1. /\ requests[r] \in RequestType /\ ConnectionsFit(requests[r])
      /\ requests[r].conns \in 0 .. 2 /\ idle \in Nat
      /\ requests \in [Requests -> RequestType]
  BY Asked
<1>2. CASE BeginCall(r)
  <2>1. /\ Acquire(r, "use") /\ requests[r].kind # "list" /\ requests[r].left > 0
        /\ requests[r].conns = 0 /\ requests[r].pc = "call"
    BY <1>1, <1>2 DEF BeginCall, ConnectionsFit
  <2>2. QED
    BY <2>1, AcquireStep DEF IsFlying
<1>3. CASE EndCall(r)
  <2>1. requests[r].conns = 1 /\ requests[r].left > 0 /\ requests[r].pc = "use"
    BY <1>1, <1>3 DEF EndCall, ConnectionsFit
  <2>2. PICK left \in 0 .. MaxLeft : left = requests[r].left - 1
    BY <1>1, <2>1, LeftBound
  <2>3. requests[r].conns - 1 = 0
    BY <2>1
  <2>4. requests' = [requests EXCEPT ![r] =
                      [requests[r] EXCEPT !.pc = "call", !.left = left, !.conns = 0]]
    BY <1>1, <1>3, <2>2, <2>3 DEF EndCall
  <2>5. PICK had \in 0 .. 2, has \in 0 .. 1 : had = 1 /\ has = 0 /\ had - has = 1
    OBVIOUS
  <2>6. idle' = idle + (had - has)
    BY <1>3, <2>5 DEF EndCall
  <2>7. requests' = [requests EXCEPT ![r] =
                      [requests[r] EXCEPT !.pc = "call", !.left = left, !.conns = has]]
    BY <2>4, <2>5
  <2>8. requests[r].conns = had /\ has <= had
    BY <2>1, <2>5
  <2>9. \E q : PoolStep(r, q)
    BY <2>1, <2>5, <2>6, <2>7, <2>8, GoOnStep
  <2>10. QED
    BY <2>1, <2>9 DEF IsFlying
<1>4. CASE CallFails(r)
  BY <1>1, <1>4, AnswerStep DEF CallFails, IsFlying
<1>5. CASE Reply(r)
  <2>1. requests[r].conns = 0 /\ requests[r].pc = "call"
    BY <1>1, <1>5 DEF Reply, ConnectionsFit
  <2>2. Answer(r, "ok", 0) \/ Answer(r, "error", 0)
    BY <1>5, <2>1 DEF Reply
  <2>3. QED
    BY <2>1, <2>2, AnswerStep DEF IsFlying
<1>6. CASE QuerySessions(r)
  <2>1. /\ Acquire(r, "rows") /\ requests[r].kind = "list"
        /\ requests[r].conns = 0 /\ requests[r].pc = "call"
    BY <1>1, <1>6 DEF QuerySessions, ConnectionsFit
  <2>2. QED
    BY <2>1, AcquireStep DEF IsFlying
<1>7. CASE NextRow(r)
  <2>1. /\ requests[r].conns = 1 /\ requests[r].left > 0 /\ requests[r].pc = "rows"
        /\ requests[r].kind = "list"
    BY <1>1, <1>7 DEF NextRow, ConnectionsFit
  <2>2. PICK left \in 0 .. MaxLeft : left = requests[r].left - 1
    BY <1>1, <2>1, LeftBound
  <2>3. requests' = [requests EXCEPT ![r] =
                      [requests[r] EXCEPT !.pc = "row_call", !.left = left, !.conns = 1]]
    BY <1>1, <1>7, <2>1, <2>2 DEF NextRow, RequestType
  <2>4. PICK had \in 0 .. 2, has \in 0 .. 1 : had = 1 /\ has = 1 /\ had - has = 0
    OBVIOUS
  <2>5. idle' = idle + (had - has)
    BY <1>1, <1>7, <2>4 DEF NextRow
  <2>6. requests' = [requests EXCEPT ![r] =
                      [requests[r] EXCEPT !.pc = "row_call", !.left = left, !.conns = has]]
    BY <2>3, <2>4
  <2>7. requests[r].conns = had /\ has <= had
    BY <2>1, <2>4
  <2>8. \E q : PoolStep(r, q)
    BY <2>1, <2>4, <2>5, <2>6, <2>7, GoOnStep
  <2>9. QED
    BY <2>1, <2>8 DEF IsFlying
<1>8. CASE ScanFails(r)
  BY <1>1, <1>8, AnswerStep DEF ScanFails, IsFlying
<1>9. CASE EndOfRows(r)
  BY <1>1, <1>9, AnswerStep DEF EndOfRows, IsFlying
<1>10. CASE QueryQuestions(r)
  <2>1. /\ Acquire(r, "row_use") /\ requests[r].kind = "list"
        /\ requests[r].conns = 1 /\ requests[r].pc = "row_call"
    BY <1>1, <1>10 DEF QueryQuestions, ConnectionsFit
  <2>2. QED
    BY <2>1, AcquireStep DEF IsFlying
<1>11. CASE EndOfQuestions(r)
  <2>1. requests[r].conns = 2 /\ requests[r].pc = "row_use" /\ requests[r].kind = "list"
    BY <1>1, <1>11 DEF EndOfQuestions, ConnectionsFit
  <2>2. PICK left \in 0 .. MaxLeft : left = requests[r].left
    BY <1>1 DEF RequestType
  <2>3. requests[r].conns - 1 = 1
    BY <2>1
  <2>4. requests' = [requests EXCEPT ![r] =
                      [requests[r] EXCEPT !.pc = "row_read", !.left = left, !.conns = 1]]
    BY <1>1, <1>11, <2>2, <2>3 DEF EndOfQuestions, RequestType
  <2>5. PICK had \in 0 .. 2, has \in 0 .. 1 : had = 2 /\ has = 1 /\ had - has = 1
    OBVIOUS
  <2>6. idle' = idle + (had - has)
    BY <1>11, <2>5 DEF EndOfQuestions
  <2>7. requests' = [requests EXCEPT ![r] =
                      [requests[r] EXCEPT !.pc = "row_read", !.left = left, !.conns = has]]
    BY <2>4, <2>5
  <2>8. requests[r].conns = had /\ has <= had
    BY <2>1, <2>5
  <2>9. \E q : PoolStep(r, q)
    BY <2>1, <2>5, <2>6, <2>7, <2>8, GoOnStep
  <2>10. QED
    BY <2>1, <2>9 DEF IsFlying
<1>12. CASE QuestionsFail(r)
  <2>1. /\ Answer(r, "error", 1) /\ requests[r].conns = 2 /\ requests[r].pc = "row_use"
        /\ requests[r].kind = "list"
    BY <1>1, <1>12 DEF QuestionsFail, ConnectionsFit
  <2>2. QED
    BY <2>1, AnswerStep DEF IsFlying
<1>13. CASE ReadRow(r)
  <2>1. requests[r].conns = 1 /\ requests[r].pc = "row_read" /\ requests[r].kind = "list"
    BY <1>1, <1>13 DEF ReadRow, ConnectionsFit
  <2>2. PICK left \in 0 .. MaxLeft : left = requests[r].left
    BY <1>1 DEF RequestType
  <2>3. requests' = [requests EXCEPT ![r] =
                      [requests[r] EXCEPT !.pc = "rows", !.left = left, !.conns = 1]]
    BY <1>1, <1>13, <2>1, <2>2 DEF ReadRow, Goto, RequestType
  <2>4. PICK had \in 0 .. 2, has \in 0 .. 1 : had = 1 /\ has = 1 /\ had - has = 0
    OBVIOUS
  <2>5. idle' = idle + (had - has)
    BY <1>1, <1>13, <2>4 DEF ReadRow
  <2>6. requests' = [requests EXCEPT ![r] =
                      [requests[r] EXCEPT !.pc = "rows", !.left = left, !.conns = has]]
    BY <2>3, <2>4
  <2>7. requests[r].conns = had /\ has <= had
    BY <2>1, <2>4
  <2>8. \E q : PoolStep(r, q)
    BY <2>1, <2>4, <2>5, <2>6, <2>7, GoOnStep
  <2>9. QED
    BY <2>1, <2>8 DEF IsFlying
<1>14. CASE UnreadableRow(r)
  <2>1. /\ Answer(r, "error", 1) /\ requests[r].conns = 1 /\ requests[r].pc = "row_read"
        /\ requests[r].kind = "list"
    BY <1>1, <1>14 DEF UnreadableRow, ConnectionsFit
  <2>2. QED
    BY <2>1, AnswerStep DEF IsFlying
<1>15. CASE TimesOut(r)
  <2>1. /\ requests[r].conns = 0 \/ (requests[r].conns = 1 /\ requests[r].kind = "list")
        /\ requests[r].pc \in {"call", "row_call"}
    BY <1>1, <1>15 DEF TimesOut, ConnectionsFit
  <2>2. CASE requests[r].conns = 0
    <3>1. Answer(r, "error", 0)
      BY <1>15, <2>2 DEF TimesOut
    <3>2. QED
      BY <2>1, <2>2, <3>1, AnswerStep DEF IsFlying
  <2>3. CASE requests[r].conns = 1 /\ requests[r].kind = "list"
    <3>1. Answer(r, "error", 1)
      BY <1>15, <2>3 DEF TimesOut
    <3>2. QED
      BY <2>1, <2>3, <3>1, AnswerStep DEF IsFlying
  <2>4. QED
    BY <2>1, <2>2, <2>3
<1>16. QED
  BY <1>2, <1>3, <1>4, <1>5, <1>6, <1>7, <1>8, <1>9, <1>10, <1>11, <1>12, <1>13, <1>14, <1>15
  DEF Progress

LEMMA ExpireStep ==
  ASSUME IInv, NEW r \in Requests, Expire(r)
  PROVE  IsFlying(requests[r]) /\ \E q : PoolStep(r, q)
<1>1. /\ requests[r] \in RequestType /\ ConnectionsFit(requests[r])
      /\ requests[r].conns \in 0 .. 2 /\ idle \in Nat
      /\ requests \in [Requests -> RequestType] /\ IsFlying(requests[r])
  BY Asked DEF Expire, InFlight, IsFlying
<1>2. PICK q : q = [requests[r] EXCEPT !.expired = TRUE]
  OBVIOUS
<1>3. q \in RequestType
  BY <1>1, <1>2 DEF RequestType
<1>4. /\ q.kind = requests[r].kind /\ q.pc = requests[r].pc /\ q.left = requests[r].left
      /\ q.conns = requests[r].conns
  BY <1>1, <1>2 DEF RequestType
<1>5. ConnectionsFit(q) /\ GivenBack(q)
  BY <1>1, <1>4 DEF ConnectionsFit, GivenBack, IsFlying
<1>6. requests' = [requests EXCEPT ![r] = q] /\ idle' = idle
  BY <1>1, <1>2 DEF Expire
<1>7. idle' = idle + requests[r].conns - q.conns /\ idle' \in Nat
  <2>1. PICK n \in Nat, had \in 0 .. 2 : n = idle /\ had = requests[r].conns
    BY <1>1
  <2>2. n = n + had - had
    OBVIOUS
  <2>3. QED
    BY <1>4, <1>6, <2>1, <2>2
<1>8. QED
  BY <1>1, <1>3, <1>4, <1>5, <1>6, <1>7 DEF PoolStep, IsFlying

(* An arrival of any kind.                                                  *)
LEMMA ArrivalStep ==
  ASSUME IInv, NEW r \in Requests, requests[r].pc = "idle", UNCHANGED idle,
         NEW kind \in {"call", "list", "rpc"}, NEW left \in 0 .. MaxLeft,
         requests' = [requests EXCEPT ![r].kind = kind, ![r].pc = "call", ![r].left = left]
  PROVE  \E q : PoolStep(r, q) /\ q.kind = kind
<1>1. /\ requests[r] \in RequestType /\ requests[r].conns = 0 /\ idle \in Nat
      /\ requests \in [Requests -> RequestType]
  BY Asked DEF ConnectionsFit
<1>2. PICK q : q = [requests[r] EXCEPT !.kind = kind, !.pc = "call", !.left = left]
  OBVIOUS
<1>3. q \in RequestType
  BY <1>1, <1>2 DEF RequestType
<1>4. q.pc = "call" /\ q.conns = 0 /\ q.kind = kind
  BY <1>1, <1>2 DEF RequestType
<1>5. ConnectionsFit(q) /\ GivenBack(q)
  BY <1>4 DEF ConnectionsFit, GivenBack
<1>6. requests' = [requests EXCEPT ![r] = q]
  BY <1>1, <1>2
<1>7. idle' = idle + requests[r].conns - q.conns /\ idle' \in Nat
  <2>1. PICK n \in Nat : n = idle
    BY <1>1
  <2>2. n = n + 0 - 0
    OBVIOUS
  <2>3. QED
    BY <1>1, <1>4, <2>1, <2>2
<1>8. QED
  BY <1>3, <1>4, <1>5, <1>6, <1>7 DEF PoolStep

LEMMA ArriveStep ==
  ASSUME IInv, NEW r \in Requests, Arrive(r)
  PROVE  \E q : PoolStep(r, q) /\ q.kind # "rpc" /\ requests[r].pc = "idle"
<1>1. requests[r].pc = "idle" /\ UNCHANGED idle
  BY DEF Arrive
<1>2. PICK kind \in {"call", "list"}, left \in 0 .. MaxLeft :
        requests' = [requests EXCEPT ![r].kind = kind, ![r].pc = "call", ![r].left = left]
  BY MaxLeftBounds DEF Arrive
<1>3. QED
  BY <1>1, <1>2, ArrivalStep

LEMMA ArriveCallStep ==
  ASSUME IInv, NEW r \in Requests, ArriveCall(r)
  PROVE  \E q : PoolStep(r, q) /\ q.kind = "rpc" /\ requests[r].pc = "idle"
<1>1. requests[r].pc = "idle" /\ UNCHANGED idle
  BY DEF ArriveCall
<1>2. {0, 1} \subseteq 0 .. MaxLeft
  BY PoolAssumption, MaxLeftBounds
<1>3. PICK left \in 0 .. MaxLeft :
        requests' = [requests EXCEPT ![r].kind = "rpc", ![r].pc = "call", ![r].left = left]
  BY <1>2 DEF ArriveCall
<1>4. QED
  BY <1>1, <1>3, ArrivalStep

-----------------------------------------------------------------------------
(* The steps of the process, one by one.                                   *)

LEMMA ProcessStep ==
  ASSUME IInv, UNCHANGED pool, TypeOK', RequestsFitServer'
  PROVE  IInv'
<1>1. UNCHANGED <<idle, requests>>
  BY DEF pool
<1>2. PoolIsKept' /\ (\A r \in Requests : ConnectionsFit(requests[r]))'
  BY <1>1 DEF IInv, PoolIsKept, Held, ConnectionsFit
<1>3. QED
  BY <1>2 DEF IInv

(* Types and the pool, for a step that leaves the requests alone.            *)
LEMMA PoolUntouched ==
  ASSUME IInv, UNCHANGED pool
  PROVE  PoolTypeOK' /\ requests' = requests /\ OverHttp' = OverHttp /\ OverGrpc' = OverGrpc
BY DEF IInv, TypeOK, PoolTypeOK, OverHttp, OverGrpc, InFlight, pool

LEMMA StartStep ==
  ASSUME IInv, Alive, Start
  PROVE  IInv'
<1>1. UNCHANGED pool
  BY DEF Start, BuildServer, Subscribe, Listen, ServePrivate
<1>2. PoolTypeOK' /\ requests' = requests /\ OverHttp' = OverHttp /\ OverGrpc' = OverGrpc
  BY <1>1, PoolUntouched
<1>3. CASE BuildServer
  BY <1>1, <1>2, <1>3, ProcessStep DEF IInv, TypeOK, RequestsFitServer, BuildServer
<1>4. CASE Subscribe
  BY <1>1, <1>2, <1>4, ProcessStep DEF IInv, TypeOK, RequestsFitServer, Subscribe
<1>5. CASE Listen
  BY <1>1, <1>2, <1>5, ProcessStep DEF IInv, TypeOK, RequestsFitServer, Listen, Alive
<1>6. CASE ServePrivate
  BY <1>1, <1>2, <1>6, ProcessStep DEF IInv, TypeOK, RequestsFitServer, ServePrivate
<1>7. QED
  BY <1>3, <1>4, <1>5, <1>6 DEF Start

(* Stop of the private server: nothing moves between pool and requests.      *)
LEMMA StopPrivateStep ==
  ASSUME IInv, StopPrivate
  PROVE  IInv'
<1>1. requests \in [Requests -> RequestType] /\ idle' = idle
  BY DEF IInv, TypeOK, PoolTypeOK, StopPrivate
<1>2. ASSUME NEW r \in Requests
      PROVE  /\ requests'[r] \in RequestType
             /\ requests'[r].kind = requests[r].kind /\ requests'[r].pc = requests[r].pc
             /\ requests'[r].left = requests[r].left /\ requests'[r].conns = requests[r].conns
             /\ requests'[r].reply = requests[r].reply
  <2>1. PICK over \in BOOLEAN : over <=> (requests[r].expired \/ r \in OverGrpc)
    OBVIOUS
  <2>2. requests[r] \in RequestType
    BY <1>1
  <2>3. requests'[r] = [requests[r] EXCEPT !.expired = over]
    <3>1. requests'[r] = [requests[r] EXCEPT !.expired = requests[r].expired \/ r \in OverGrpc]
      BY DEF StopPrivate
    <3>2. over = (requests[r].expired \/ r \in OverGrpc)
      BY <2>1, <2>2 DEF RequestType
    <3>3. QED
      BY <3>1, <3>2
  <2>4. QED
    BY <2>2, <2>3 DEF RequestType
<1>3. PoolTypeOK'
  <2>1. requests' \in [Requests -> RequestType]
    BY <1>2 DEF StopPrivate
  <2>2. QED
    BY <1>1, <2>1 DEF IInv, TypeOK, PoolTypeOK
<1>4. \A r \in Requests : ConnectionsFit(requests[r])'
  BY <1>2 DEF IInv, ConnectionsFit
<1>5. PoolIsKept'
  <2>1. Held' = Held
    BY <1>2 DEF Held
  <2>2. QED
    BY <1>1, <1>2, <2>1 DEF IInv, PoolIsKept
<1>6. OverHttp' = OverHttp /\ OverGrpc' = OverGrpc /\ OverGrpc \subseteq Requests
  BY <1>2 DEF OverHttp, OverGrpc, InFlight
<1>7. TypeOK'
  BY <1>3, <1>6 DEF IInv, TypeOK, StopPrivate
<1>8. \A r \in cut' : requests'[r].kind = "rpc" /\ requests'[r].pc # "idle"
  <2>1. \A r \in OverGrpc : requests[r].kind = "rpc" /\ requests[r].pc # "idle"
    BY DEF OverGrpc, InFlight
  <2>2. \A r \in cut : requests[r].kind = "rpc" /\ requests[r].pc # "idle"
    BY DEF IInv, RequestsFitServer
  <2>3. cut' = cut \cup OverGrpc /\ cut' \subseteq Requests
    BY <1>6 DEF IInv, TypeOK, StopPrivate
  <2>4. QED
    BY <1>2, <2>1, <2>2, <2>3
<1>9. RequestsFitServer'
  BY <1>6, <1>8 DEF IInv, TypeOK, RequestsFitServer, StopPrivate
<1>10. QED
  BY <1>4, <1>5, <1>7, <1>9 DEF IInv

(* The steps of Shutdown that leave the requests alone.                      *)
LEMMA OtherShutdownStep ==
  ASSUME IInv, Alive, Shutdown, ~StopPrivate
  PROVE  IInv'
<1>1. UNCHANGED pool
  BY DEF Shutdown, ServerStops, ServerReturns, PrivateReturns, BeginShutdown,
         StopPublic, StopReturns, AwaitServersOrDeadline
<1>2. PoolTypeOK' /\ requests' = requests /\ OverHttp' = OverHttp /\ OverGrpc' = OverGrpc
  BY <1>1, PoolUntouched
<1>3. CASE ServerStops
  BY <1>1, <1>2, <1>3, ProcessStep DEF IInv, TypeOK, RequestsFitServer, ServerStops, Alive
<1>4. CASE ServerReturns
  BY <1>1, <1>2, <1>4, ProcessStep DEF IInv, TypeOK, RequestsFitServer, ServerReturns
<1>5. CASE PrivateReturns
  BY <1>1, <1>2, <1>5, ProcessStep DEF IInv, TypeOK, RequestsFitServer, PrivateReturns
<1>6. CASE BeginShutdown
  BY <1>1, <1>2, <1>6, ProcessStep DEF IInv, TypeOK, RequestsFitServer, BeginShutdown
<1>7. CASE StopPublic
  BY <1>1, <1>2, <1>7, ProcessStep DEF IInv, TypeOK, RequestsFitServer, StopPublic
<1>8. CASE StopReturns
  BY <1>1, <1>2, <1>8, ProcessStep DEF IInv, TypeOK, RequestsFitServer, StopReturns
<1>9. CASE AwaitServersOrDeadline
  BY <1>1, <1>2, <1>9, ProcessStep
  DEF IInv, TypeOK, RequestsFitServer, AwaitServersOrDeadline
<1>10. QED
  BY <1>3, <1>4, <1>5, <1>6, <1>7, <1>8, <1>9 DEF Shutdown

LEMMA ShutdownStep ==
  ASSUME IInv, Alive, Shutdown
  PROVE  IInv'
BY StopPrivateStep, OtherShutdownStep

LEMMA WorldStep ==
  ASSUME IInv, Signal \/ CancelApp \/ DeadlinePasses
  PROVE  IInv'
<1>1. UNCHANGED pool
  BY DEF Signal, CancelApp, DeadlinePasses
<1>2. PoolTypeOK' /\ requests' = requests /\ OverHttp' = OverHttp /\ OverGrpc' = OverGrpc
  BY <1>1, PoolUntouched
<1>3. CASE Signal
  <2>1. signals' \in 0 .. MaxSignals
    BY <1>3, ProcessAssumption DEF IInv, TypeOK, Signal
  <2>2. notices' \subseteq {"app", "public"}
    BY <1>3 DEF IInv, TypeOK, Signal
  <2>3. UNCHANGED <<app, public, private, listener, passed, cut>>
    BY <1>3 DEF Signal
  <2>4. TypeOK' /\ RequestsFitServer'
    BY <1>2, <2>1, <2>2, <2>3 DEF IInv, TypeOK, RequestsFitServer
  <2>5. QED
    BY <1>1, <2>4, ProcessStep
<1>4. CASE CancelApp
  BY <1>1, <1>2, <1>4, ProcessStep DEF IInv, TypeOK, RequestsFitServer, CancelApp
<1>5. CASE DeadlinePasses
  <2>1. UNCHANGED <<app, public, private, listener, signals, notices, cut>>
    BY <1>5 DEF DeadlinePasses
  <2>2. /\ passed \subseteq passed' /\ passed' \subseteq {"shutdown", "stop", "public"}
        /\ "stop" \in passed' => "shutdown" \in passed'
    BY <1>5 DEF IInv, TypeOK, RequestsFitServer, DeadlinePasses
  <2>3. TypeOK' /\ RequestsFitServer'
    BY <1>2, <2>1, <2>2 DEF IInv, TypeOK, RequestsFitServer
  <2>4. QED
    BY <1>1, <2>3, ProcessStep
<1>6. QED
  BY <1>3, <1>4, <1>5

-----------------------------------------------------------------------------
(* The theorems.                                                           *)

LEMMA Initially == Init => IInv
<1> SUFFICES ASSUME Init PROVE IInv
  OBVIOUS
<1>1. /\ idle = MaxConns /\ MaxConns \in Nat
      /\ requests = [r \in Requests |-> NewRequest]
  BY PoolAssumption DEF Init, PoolInit
<1>2. NewRequest \in RequestType
  <2>1. 0 \in 0 .. MaxLeft
    BY MaxLeftBounds
  <2>2. QED
    BY <2>1 DEF NewRequest, RequestType
<1>3. /\ NewRequest.pc = "idle" /\ NewRequest.conns = 0
  BY DEF NewRequest
<1>4. PoolTypeOK
  BY <1>1, <1>2 DEF PoolTypeOK
<1>5. Held = {}
  BY <1>1, <1>3 DEF Held
<1>6. PoolIsKept
  <2>1. Cardinality(Held) = 0
    BY <1>5, FS_EmptySet
  <2>2. QED
    BY <1>1, <1>3, <2>1 DEF PoolIsKept
<1>7. \A r \in Requests : ConnectionsFit(requests[r])
  BY <1>1, <1>3 DEF ConnectionsFit
<1>8. OverHttp = {} /\ OverGrpc = {}
  BY <1>1, <1>3 DEF OverHttp, OverGrpc, InFlight
<1>9. TypeOK
  BY <1>4, ProcessAssumption DEF Init, TypeOK
<1>10. RequestsFitServer
  BY <1>8 DEF Init, RequestsFitServer
<1>11. QED
  BY <1>6, <1>7, <1>9, <1>10 DEF IInv

LEMMA Stuttering ==
  ASSUME IInv, UNCHANGED vars
  PROVE  IInv'
<1>1. UNCHANGED pool /\ UNCHANGED <<app, public, private, listener, signals, notices, passed, cut>>
  BY DEF vars, pool
<1>2. PoolTypeOK' /\ requests' = requests /\ OverHttp' = OverHttp /\ OverGrpc' = OverGrpc
  BY <1>1, PoolUntouched
<1>3. TypeOK' /\ RequestsFitServer'
  BY <1>1, <1>2 DEF IInv, TypeOK, RequestsFitServer
<1>4. QED
  BY <1>1, <1>3, ProcessStep

LEMMA Stepwise == IInv /\ [Next]_vars => IInv'
<1> SUFFICES ASSUME IInv, [Next]_vars PROVE IInv'
  OBVIOUS
<1>1. CASE UNCHANGED vars
  BY <1>1, Stuttering
<1>2. ASSUME NEW r \in Requests, AcceptRequest(r) PROVE IInv'
  <2>1. listener = "open" /\ Arrive(r) /\ UNCHANGED process
    BY <1>2 DEF AcceptRequest
  <2>2. PICK q : PoolStep(r, q) /\ q.kind # "rpc" /\ requests[r].pc = "idle"
    BY <2>1, ArriveStep
  <2>3. QED
    BY <2>1, <2>2, PoolStepInv
<1>3. ASSUME NEW r \in Requests, AcceptCall(r) PROVE IInv'
  <2>1. private = "serving" /\ ArriveCall(r) /\ UNCHANGED process
    BY <1>3 DEF AcceptCall
  <2>2. PICK q : PoolStep(r, q) /\ q.kind = "rpc" /\ requests[r].pc = "idle"
    BY <2>1, ArriveCallStep
  <2>3. QED
    BY <2>1, <2>2, PoolStepInv
<1>4. ASSUME NEW r \in Requests, ServeRequest(r) PROVE IInv'
  <2>1. Progress(r) /\ UNCHANGED process
    BY <1>4 DEF ServeRequest
  <2>2. PICK q : PoolStep(r, q)
    BY <2>1, ProgressStep
  <2>3. QED
    BY <2>1, <2>2, ProgressStep, PoolStepInv
<1>5. ASSUME NEW r \in Requests, RequestExpires(r) PROVE IInv'
  <2>1. Expire(r) /\ UNCHANGED process
    BY <1>5 DEF RequestExpires
  <2>2. PICK q : PoolStep(r, q)
    BY <2>1, ExpireStep
  <2>3. QED
    BY <2>1, <2>2, ExpireStep, PoolStepInv
<1>6. ASSUME Alive, Start PROVE IInv'
  BY <1>6, StartStep
<1>7. ASSUME Alive, Shutdown PROVE IInv'
  BY <1>7, ShutdownStep
<1>8. CASE Signal \/ CancelApp \/ DeadlinePasses
  BY <1>8, WorldStep
<1>9. QED
  BY <1>1, <1>2, <1>3, <1>4, <1>5, <1>6, <1>7, <1>8 DEF Next

\* Every connection is idle or held by a request at a step that needs it, and the
\* server, the deadlines and the requests fit together, through every signal.
THEOREM InductiveInvariant == Spec => []IInv
  BY Initially, Stepwise, PTL DEF Spec

\* The pool never gives out more than it has nor takes back more than it gave.
THEOREM TypeCorrect == Spec => []TypeOK
<1>1. IInv => TypeOK
  BY DEF IInv
<1>2. QED
  BY <1>1, InductiveInvariant, PTL

\* The storage: no connection is lost or given back twice, and only a list that
\* broke off in the middle of its rows takes one with it, the one of its rows.
THEOREM PoolKept == Spec => []PoolIsKept
<1>1. IInv => PoolIsKept
  BY DEF IInv
<1>2. QED
  BY <1>1, InductiveInvariant, PTL

LEMMA ExhaustedByLists == IInv => OnlyListsExhaustPool
<1> DEFINE Lists == {r \in Requests : requests[r].kind = "list" /\ requests[r].conns > 0}
<1> SUFFICES ASSUME IInv, idle = 0, \A r \in InFlight : requests[r].pc \in {"call", "row_call"}
             PROVE  MaxConns <= Cardinality(Lists)
  BY DEF OnlyListsExhaustPool
<1>1. MaxConns \in Nat /\ Cardinality(Held) = MaxConns
  <2>1. Cardinality(Held) \in Nat
    BY HeldIsFinite, FS_CardinalityType
  <2>2. QED
    BY <2>1, PoolAssumption DEF IInv, PoolIsKept
<1>2. ASSUME NEW r \in Requests
      PROVE  \/ requests[r].conns = 0
             \/ requests[r].conns = 1 /\ requests[r].kind = "list"
  <2>1. ConnectionsFit(requests[r]) /\ GivenBack(requests[r])
    BY DEF IInv, PoolIsKept, GivenBack
  <2>2. requests[r].pc \in {"idle", "done", "call", "row_call"}
    BY DEF InFlight
  <2>3. QED
    BY <2>1, <2>2 DEF ConnectionsFit, GivenBack
<1>3. ASSUME NEW h \in Held
      PROVE  h[1] \in Lists /\ h = <<h[1], 1>>
  <2>1. PICK r \in Requests, n \in {1, 2} : h = <<r, n>> /\ n <= requests[r].conns
    BY DEF Held
  <2>2. requests[r].conns = 1 /\ requests[r].kind = "list" /\ n = 1
    BY <1>2, <2>1
  <2>3. QED
    BY <2>1, <2>2
<1>4. IsFiniteSet(Lists) /\ Cardinality(Lists) \in Nat
  BY PoolAssumption, FS_Subset, FS_CardinalityType
<1>5. ASSUME Cardinality(Lists) < MaxConns PROVE FALSE
  <2>1. PICK f \in [Held -> Lists] : \A h \in Held : f[h] = h[1]
    <3>1. [h \in Held |-> h[1]] \in [Held -> Lists]
      BY <1>3
    <3>2. QED
      BY <3>1
  <2> HIDE DEF Lists
  <2>2. Cardinality(Lists) < Cardinality(Held)
    BY <1>1, <1>5
  <2>3. PICK x \in Held, y \in Held : x # y /\ x[1] = y[1]
    <3>1. \E x, y \in Held : x # y /\ f[x] = f[y]
      BY <1>4, <2>1, <2>2, HeldIsFinite, FS_PigeonHole
    <3>2. QED
      BY <2>1, <3>1
  <2>4. x = <<x[1], 1>> /\ y = <<y[1], 1>>
    BY <1>3
  <2>5. QED
    BY <2>3, <2>4
<1>6. QED
  BY <1>1, <1>4, <1>5

\* GetAllCompletedUserSessions: requests that use one connection at a time never
\* bring each other to a halt; if everybody waits, lists hold the whole pool.
THEOREM ListsExhaustPool == Spec => []OnlyListsExhaustPool
  BY ExhaustedByLists, InductiveInvariant, PTL

\* shutdown: until its deadline has passed the process answers every request its
\* public server took, for signals at any moment of the start and of the shutdown;
\* what it leaves unanswered are Introspect calls that grpc's Stop broke off.
THEOREM CutByDeadline == Spec => []CutOnlyByDeadline
<1>1. ASSUME IInv, ~Alive, "shutdown" \notin passed, NEW r \in InFlight \cup cut
      PROVE  r \in cut /\ requests[r].kind = "rpc"
  <2>1. app \in {"graceful", "crashed"}
    BY <1>1 DEF IInv, RequestsFitServer, Alive
  <2>2. OverHttp = {}
    BY <1>1, <2>1 DEF IInv, RequestsFitServer
  <2>3. private \notin {"starting", "serving"} /\ OverGrpc \subseteq cut
    BY <1>1, <2>1 DEF IInv, RequestsFitServer
  <2>4. r \in cut
    BY <1>1, <2>2, <2>3 DEF OverHttp
  <2>5. QED
    BY <1>1, <2>4 DEF IInv, RequestsFitServer
<1>2. IInv => CutOnlyByDeadline
  BY <1>1 DEF CutOnlyByDeadline
<1>3. QED
  BY <1>2, InductiveInvariant, PTL

-----------------------------------------------------------------------------
(* How far a request is from its end.                                      *)

\* The bound on the steps left is a number, and positive until the end.
LEMMA StepsLeftCounts ==
  ASSUME NEW q \in RequestType, ConnectionsFit(q)
  PROVE  StepsLeft(q) \in Nat /\ (IsFlying(q) => StepsLeft(q) > 0)
<1>1. q.left \in Nat
  BY MaxLeftBounds DEF RequestType
<1> QED
  BY <1>1 DEF RequestType, ConnectionsFit, StepsLeft, IsFlying

\* The step of a request in terms of its record.
Shrinks(r) ==
  \E q : /\ requests' = [requests EXCEPT ![r] = q]
         /\ IsFlying(requests[r])
         /\ StepsLeft(q) < StepsLeft(requests[r])

LEMMA AnswerShrinks ==
  ASSUME IInv, NEW r \in Requests, NEW reply, NEW kept, Answer(r, reply, kept),
         IsFlying(requests[r])
  PROVE  Shrinks(r)
<1>1. PICK q : q = [NewRequest EXCEPT !.kind = requests[r].kind, !.pc = "done",
                                      !.conns = kept, !.reply = reply]
  OBVIOUS
<1>2. q.pc = "done"
  BY <1>1 DEF NewRequest
<1>3. StepsLeft(q) = 0
  BY <1>2 DEF StepsLeft
<1>4. StepsLeft(requests[r]) > 0
  BY Asked, StepsLeftCounts
<1> QED
  BY <1>1, <1>3, <1>4 DEF Answer, Shrinks

\* A request that goes on: the step it is at, and the rows or calls left.
LEMMA GoesOnShrinks ==
  ASSUME IInv, NEW r \in Requests, NEW q, requests' = [requests EXCEPT ![r] = q],
         IsFlying(requests[r]), q.kind = requests[r].kind,
         \/ /\ requests[r].pc = "call" /\ q.left = requests[r].left
            /\ \/ requests[r].kind # "list" /\ q.pc = "use"
               \/ requests[r].kind = "list" /\ q.pc = "rows"
         \/ /\ requests[r].pc = "use" /\ requests[r].kind # "list" /\ q.pc = "call"
            /\ q.left = requests[r].left - 1
         \/ requests[r].pc = "rows" /\ q.pc = "row_call" /\ q.left = requests[r].left - 1
         \/ /\ q.left = requests[r].left
            /\ \/ requests[r].pc = "row_call" /\ q.pc = "row_use"
               \/ requests[r].pc = "row_use" /\ q.pc = "row_read"
               \/ requests[r].pc = "row_read" /\ q.pc = "rows"
  PROVE  Shrinks(r)
<1>1. PICK left \in Nat : left = requests[r].left
  BY Asked, MaxLeftBounds DEF RequestType
<1>2. StepsLeft(q) < StepsLeft(requests[r])
  BY <1>1 DEF StepsLeft
<1> QED
  BY <1>2 DEF Shrinks

LEMMA ProgressShrinks ==
  ASSUME IInv, NEW r \in Requests, Progress(r)
  PROVE  Shrinks(r)
<1>1. requests[r] \in RequestType /\ ConnectionsFit(requests[r]) /\ IsFlying(requests[r])
  BY Asked, ProgressStep
<1>2. CASE CallFails(r) \/ Reply(r) \/ ScanFails(r) \/ EndOfRows(r) \/ QuestionsFail(r)
           \/ UnreadableRow(r) \/ TimesOut(r)
  BY <1>1, <1>2, AnswerShrinks DEF CallFails, Reply, ScanFails, EndOfRows, QuestionsFail,
                                   UnreadableRow, TimesOut
<1>3. CASE BeginCall(r) \/ QuerySessions(r) \/ QueryQuestions(r)
  <2>1. PICK pc \in {"use", "rows", "row_use"} :
          /\ Acquire(r, pc)
          /\ \/ requests[r].pc = "call" /\ requests[r].kind # "list" /\ pc = "use"
             \/ requests[r].pc = "call" /\ requests[r].kind = "list" /\ pc = "rows"
             \/ requests[r].pc = "row_call" /\ pc = "row_use"
    BY <1>3 DEF BeginCall, QuerySessions, QueryQuestions
  <2>2. PICK q : q = [requests[r] EXCEPT !.pc = pc, !.conns = requests[r].conns + 1]
    OBVIOUS
  <2>3. q.pc = pc /\ q.left = requests[r].left /\ q.kind = requests[r].kind
    BY <1>1, <2>2 DEF RequestType
  <2>4. requests' = [requests EXCEPT ![r] = q]
    BY <2>1, <2>2, Asked DEF Acquire
  <2> QED
    BY <1>1, <2>1, <2>3, <2>4, GoesOnShrinks
<1>4. CASE EndCall(r)
  <2>1. PICK q : q = [requests[r] EXCEPT !.pc = "call", !.left = requests[r].left - 1,
                                         !.conns = requests[r].conns - 1]
    OBVIOUS
  <2>2. /\ q.pc = "call" /\ q.left = requests[r].left - 1 /\ q.kind = requests[r].kind
        /\ requests[r].pc = "use" /\ requests[r].kind # "list"
    BY <1>1, <1>4, <2>1 DEF RequestType, EndCall, ConnectionsFit
  <2>3. requests' = [requests EXCEPT ![r] = q]
    BY <1>4, <2>1, Asked DEF EndCall
  <2> QED
    BY <1>1, <2>2, <2>3, GoesOnShrinks
<1>5. CASE NextRow(r)
  <2>1. PICK q : q = [requests[r] EXCEPT !.pc = "row_call", !.left = requests[r].left - 1]
    OBVIOUS
  <2>2. /\ q.pc = "row_call" /\ q.left = requests[r].left - 1 /\ q.kind = requests[r].kind
        /\ requests[r].pc = "rows"
    BY <1>1, <1>5, <2>1 DEF RequestType, NextRow
  <2>3. requests' = [requests EXCEPT ![r] = q]
    BY <1>5, <2>1, Asked DEF NextRow
  <2> QED
    BY <1>1, <2>2, <2>3, GoesOnShrinks
<1>6. CASE EndOfQuestions(r)
  <2>1. PICK q : q = [requests[r] EXCEPT !.pc = "row_read", !.conns = requests[r].conns - 1]
    OBVIOUS
  <2>2. /\ q.pc = "row_read" /\ q.left = requests[r].left /\ q.kind = requests[r].kind
        /\ requests[r].pc = "row_use"
    BY <1>1, <1>6, <2>1 DEF RequestType, EndOfQuestions
  <2>3. requests' = [requests EXCEPT ![r] = q]
    BY <1>6, <2>1, Asked DEF EndOfQuestions
  <2> QED
    BY <1>1, <2>2, <2>3, GoesOnShrinks
<1>7. CASE ReadRow(r)
  <2>1. PICK q : q = [requests[r] EXCEPT !.pc = "rows"]
    OBVIOUS
  <2>2. /\ q.pc = "rows" /\ q.left = requests[r].left /\ q.kind = requests[r].kind
        /\ requests[r].pc = "row_read"
    BY <1>1, <1>7, <2>1 DEF RequestType, ReadRow
  <2>3. requests' = [requests EXCEPT ![r] = q]
    BY <1>7, <2>1, Asked DEF ReadRow, Goto
  <2> QED
    BY <1>1, <2>2, <2>3, GoesOnShrinks
<1> QED
  BY <1>2, <1>3, <1>4, <1>5, <1>6, <1>7 DEF Progress

\* Every other step leaves the requests in flight where they are, and nothing
\* touches one that is answered.
LEMMA AdvanceStep ==
  ASSUME IInv, [Next]_vars, NEW r \in Requests
  PROVE  Advances(r)
<1>1. requests \in [Requests -> RequestType] /\ requests[r] \in RequestType
  BY Asked
<1>2. CASE UNCHANGED requests
  BY <1>2 DEF Advances
<1>3. ASSUME NEW s \in Requests, Progress(s) PROVE Advances(r)
  <2>1. PICK q : /\ requests' = [requests EXCEPT ![s] = q]
                 /\ IsFlying(requests[s])
                 /\ StepsLeft(q) < StepsLeft(requests[s])
    BY <1>3, ProgressShrinks DEF Shrinks
  <2>2. CASE r = s
    BY <1>1, <2>1, <2>2 DEF Advances, IsFlying
  <2>3. CASE r # s
    BY <1>1, <2>1, <2>3 DEF Advances
  <2> QED
    BY <2>2, <2>3
<1>4. ASSUME NEW s \in Requests, Expire(s) PROVE Advances(r)
  BY <1>1, <1>4 DEF Expire, Advances, InFlight
<1>5. ASSUME NEW s \in Requests, Arrive(s) \/ ArriveCall(s) PROVE Advances(r)
  <2>1. /\ requests[s].pc = "idle"
        /\ \A t \in Requests : t # s => requests'[t] = requests[t]
    BY <1>1, <1>5 DEF Arrive, ArriveCall
  <2> QED
    BY <2>1 DEF Advances, InFlight
<1>6. CASE StopPrivate
  <2>1. requests'[r].pc = requests[r].pc
    BY <1>1, <1>6 DEF StopPrivate, RequestType
  <2>2. ASSUME requests[r].pc = "done" PROVE requests'[r] = requests[r]
    <3>1. PICK over \in BOOLEAN : over = requests[r].expired
      BY <1>1 DEF RequestType
    <3>2. r \notin OverGrpc
      BY <2>2 DEF OverGrpc, InFlight
    <3>3. (over \/ r \in OverGrpc) = over
      BY <3>2
    <3>4. requests'[r] = [requests[r] EXCEPT !.expired = over]
      BY <1>6, <3>1, <3>3 DEF StopPrivate
    <3>5. QED
      BY <1>1, <3>1, <3>4 DEF RequestType
  <2> QED
    BY <2>1, <2>2 DEF Advances
<1>7. CASE Start \/ Shutdown \/ Signal \/ CancelApp \/ DeadlinePasses \/ UNCHANGED vars
  <2>1. StopPrivate \/ UNCHANGED requests
    BY <1>7 DEF Start, BuildServer, Subscribe, Listen, ServePrivate, Shutdown, ServerStops,
       ServerReturns, PrivateReturns, BeginShutdown, StopPublic, StopReturns,
       AwaitServersOrDeadline, Signal, CancelApp, DeadlinePasses, pool, vars
  <2> QED
    BY <1>2, <1>6, <2>1
<1> QED
  BY <1>3, <1>4, <1>5, <1>7 DEF Next, AcceptRequest, AcceptCall, ServeRequest, RequestExpires

\* The storage and its callers: no call is made again, so every request ends
\* after as many steps as it has calls and rows, if it need not wait for ever; and
\* what an answered list did not give back is lost.
THEOREM RequestsOnlyAdvance == Spec => RequestsAdvance
<1>1. IInv /\ [Next]_vars => [\A r \in Requests : Advances(r)]_vars
  BY AdvanceStep
<1> QED
  BY <1>1, InductiveInvariant, PTL DEF Spec, RequestsAdvance
==============================================================================
