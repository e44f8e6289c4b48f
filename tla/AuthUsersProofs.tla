--------------------------- MODULE AuthUsersProofs ---------------------------
(***************************************************************************)
(* Proofs about AuthUsers, for every set of requests, users, forms and     *)
(* rights, every seeded table and every clock.                             *)
(***************************************************************************)
EXTENDS AuthUsers, TLAPS

Tables == <<clock, inserted, deleted>>

-----------------------------------------------------------------------------
(* The initial state.                                                      *)

\* A request that has not arrived fits any table that has nothing of it: it has
\* seen nothing and done nothing.
LEMMA InitInvariant == Init => IInv
<1> SUFFICES ASSUME Init PROVE IInv
  OBVIOUS
<1> USE AuthAssumption
<1>1. TypeOK
  <2>1. NewRequest \in RequestType
    BY DEF NewRequest, RequestType, NoToken, NoForm, Kinds, Replies
  <2>2. clock \in Nat /\ inserted \in Seq(Row) /\ requests \in [Requests -> RequestType]
    BY <2>1 DEF Init
  <2> QED
    BY <2>2 DEF Init, TypeOK
<1>2. TableFits
  BY DEF Init, TableFits
<1>3. ASSUME NEW r \in Requests PROVE RequestFits(r, requests[r])
  <2>1. requests[r] = NewRequest /\ deleted = {} /\ inserted = SeedRows /\ clock \in Nat
    BY DEF Init
  <2>2. AddedBy(r) = {} /\ RemovedBy(r) = {}
    BY <2>1 DEF AddedBy, RemovedBy
  <2>3. Len(inserted) \in Nat
    BY <2>1
  <2>4. ProgressFits(NewRequest) /\ EffectsFit(r, NewRequest) /\ GateWasPassed(r, NewRequest)
    BY <2>2 DEF ProgressFits, EffectsFit, GateWasPassed, NewRequest, Admitted
  <2>5. HistoryIsPast(NewRequest) /\ NameWasFree(r, NewRequest)
    BY <2>1, <2>2, <2>3 DEF HistoryIsPast, NameWasFree, NewRequest
  <2> QED
    BY <2>1, <2>4, <2>5 DEF RequestFits
<1> QED
  BY <1>1, <1>2, <1>3 DEF IInv

-----------------------------------------------------------------------------
(* Steps that leave the table alone.                                       *)

\* A request that has not been answered has added and removed nothing.
LEMMA NoEffectInFlight ==
  ASSUME IInv, NEW r \in Requests, requests[r].pc # "done"
  PROVE  AddedBy(r) = {} /\ RemovedBy(r) = {}
BY DEF IInv, RequestFits, EffectsFit

\* A step that changes one request keeps the invariant if what the request
\* becomes fits the table.
LEMMA QuietStep ==
  ASSUME IInv, NEW r \in Requests, NEW q \in RequestType, RequestFits(r, q),
         requests' = [requests EXCEPT ![r] = q], UNCHANGED Tables,
         tokens' \subseteq TokenType
  PROVE  IInv'
<1>1. requests \in [Requests -> RequestType] /\ TypeOK
  BY DEF IInv, TypeOK
<1>2. TypeOK'
  BY <1>1 DEF TypeOK, Tables
<1>3. TableFits'
  BY DEF IInv, TableFits, Tables
<1>4. ASSUME NEW s \in Requests PROVE RequestFits(s, requests[s])'
  <2>1. PICK x \in RequestType : x = requests'[s] /\ RequestFits(s, x)
    BY <1>1 DEF IInv
  <2>2. ProgressFits(requests[s])' /\ HistoryIsPast(requests[s])'
    BY <2>1 DEF RequestFits, ProgressFits, HistoryIsPast, Removed, Tables
  <2>3. EffectsFit(s, requests[s])'
    BY <2>1 DEF RequestFits, EffectsFit, AddedBy, RemovedBy, Tables
  <2>4. GateWasPassed(s, requests[s])'
    BY <2>1 DEF RequestFits, GateWasPassed, AddedBy, RemovedBy, Tables
  <2>5. NameWasFree(s, requests[s])'
    BY <2>1 DEF RequestFits, NameWasFree, AddedBy, Live, Removed, Tables
  <2> QED
    BY <2>2, <2>3, <2>4, <2>5 DEF RequestFits
<1> QED
  BY <1>2, <1>3, <1>4 DEF IInv

\* Answering a request is such a step, if the reply is justified.
LEMMA AnswerStep ==
  ASSUME IInv, NEW r \in Requests, requests[r].pc # "done",
         NEW reply \in Replies \ {"none", "deleted"}, Answer(r, reply),
         reply = "served" => /\ requests[r].sent < requests[r].token.exp
                             /\ requests[r].token.sub \notin requests[r].gone,
         reply = "conflict" =>
           \E i \in DOMAIN inserted : /\ inserted[i].name = requests[r].form.name
                                      /\ inserted[i].uid \notin requests[r].gone,
         UNCHANGED Tables, tokens' \subseteq TokenType
  PROVE  IInv'
<1> DEFINE q == [requests[r] EXCEPT !.pc = "done", !.reply = reply]
<1>1. requests[r] \in RequestType /\ RequestFits(r, requests[r])
  BY DEF IInv, TypeOK
<1>2. q \in RequestType
  BY <1>1 DEF RequestType
<1>3. requests' = [requests EXCEPT ![r] = q]
  BY DEF Answer
<1>4. AddedBy(r) = {} /\ RemovedBy(r) = {}
  BY NoEffectInFlight
<1>5. ProgressFits(q) /\ HistoryIsPast(q)
  BY <1>1 DEF RequestFits, ProgressFits, HistoryIsPast, RequestType
<1>6. EffectsFit(r, q)
  BY <1>1, <1>4 DEF EffectsFit, RequestType
<1>7. GateWasPassed(r, q)
  BY <1>1, <1>4 DEF GateWasPassed, Admitted, RequestType
<1>8. NameWasFree(r, q)
  BY <1>1, <1>4 DEF NameWasFree, RequestType
<1> HIDE DEF q
<1> QED
  BY <1>2, <1>3, <1>5, <1>6, <1>7, <1>8, QuietStep DEF RequestFits

\* So is going on to another step without a note of what was read, if the request
\* may be there.
LEMMA GotoStep ==
  ASSUME IInv, NEW r \in Requests, requests[r].pc # "done",
         NEW pc \in Waiting \ {"sign", "insert"}, Goto(r, pc),
         pc \in {"lookup", "check"} => requests[r].kind = "add",
         pc = "remove" => requests[r].kind = "delete",
         pc \in Admitted \cup {"caller"} => requests[r].sent < requests[r].token.exp,
         pc \in Admitted => requests[r].token.sub \notin requests[r].gone,
         UNCHANGED Tables, UNCHANGED tokens
  PROVE  IInv'
<1> DEFINE q == [requests[r] EXCEPT !.pc = pc]
<1>1. requests[r] \in RequestType /\ RequestFits(r, requests[r]) /\ tokens \subseteq TokenType
  BY DEF IInv, TypeOK
<1>2. q \in RequestType
  BY <1>1 DEF RequestType
<1>3. requests' = [requests EXCEPT ![r] = q]
  BY DEF Goto
<1>4. AddedBy(r) = {} /\ RemovedBy(r) = {}
  BY NoEffectInFlight
<1>5. ProgressFits(q) /\ HistoryIsPast(q)
  BY <1>1 DEF RequestFits, ProgressFits, HistoryIsPast, RequestType, Waiting, Calling
<1>6. EffectsFit(r, q)
  BY <1>1, <1>4 DEF RequestFits, ProgressFits, EffectsFit, RequestType
<1>7. GateWasPassed(r, q)
  BY <1>1, <1>4 DEF RequestFits, ProgressFits, GateWasPassed, RequestType
<1>8. NameWasFree(r, q)
  BY <1>1, <1>4 DEF NameWasFree, RequestType
<1> HIDE DEF q
<1> QED
  BY <1>1, <1>2, <1>3, <1>5, <1>6, <1>7, <1>8, QuietStep DEF RequestFits

-----------------------------------------------------------------------------
(* The actions of a request that leave the table alone.                    *)

LEMMA RefuseRequestStep ==
  ASSUME IInv, NEW r \in Requests, RefuseRequest(r)
  PROVE  IInv'
<1>1. PICK reply \in {"forbidden", "invalid parameter"} : Answer(r, reply)
  BY DEF RefuseRequest
<1> QED
  BY <1>1, AnswerStep DEF RefuseRequest, Tables, Replies, IInv, TypeOK

\* A request arrives with what it was given, and has seen who is removed.
LEMMA ArriveStep ==
  ASSUME IInv, NEW r \in Requests, NEW kind \in {"signin", "add", "delete", "use"},
         NEW pc \in {"account", "token"}, NEW token \in TokenType \cup {NoToken},
         NEW form \in Forms \cup {NoForm}, NEW target \in UserIds \cup {Nobody},
         kind = "add" => form \in Forms, kind = "delete" => target \in UserIds,
         Arrive(r, kind, pc, token, form, target)
  PROVE  IInv'
<1> DEFINE q == [kind |-> kind, pc |-> pc, token |-> token, form |-> form,
                 target |-> target, row |-> 0, checked |-> 0,
                 gone |-> {uid \in UserIds : Removed(uid)}, sent |-> clock,
                 reply |-> "none"]
<1>1. /\ requests[r].pc = "idle"
      /\ requests' = [requests EXCEPT ![r] = q]
      /\ UNCHANGED Tables /\ UNCHANGED tokens
  BY DEF Arrive, Tables
<1>2. clock \in Nat /\ Len(inserted) \in Nat /\ tokens \subseteq TokenType
  BY DEF IInv, TypeOK
<1>3. q \in RequestType
  BY <1>2 DEF RequestType, Kinds, Waiting, Calling, Replies
<1>4. AddedBy(r) = {} /\ RemovedBy(r) = {}
  BY <1>1, NoEffectInFlight
<1>5. ProgressFits(q) /\ HistoryIsPast(q)
  BY <1>2 DEF ProgressFits, HistoryIsPast
<1>6. EffectsFit(r, q) /\ GateWasPassed(r, q) /\ NameWasFree(r, q)
  BY <1>4 DEF EffectsFit, GateWasPassed, NameWasFree, Admitted
<1> HIDE DEF q
<1> QED
  BY <1>1, <1>2, <1>3, <1>5, <1>6, QuietStep DEF RequestFits

LEMMA FindAccountStep ==
  ASSUME IInv, NEW r \in Requests, FindAccount(r)
  PROVE  IInv'
<1>1. /\ requests[r].pc = "account" /\ UNCHANGED Tables /\ UNCHANGED tokens
      /\ tokens' \subseteq TokenType
  BY DEF FindAccount, Tables, IInv, TypeOK
<1>2. CASE Answer(r, "not found")
  BY <1>1, <1>2, AnswerStep DEF Replies
<1>3. ASSUME NEW i \in RowsNamed(requests[r].form.name),
             requests' = [requests EXCEPT ![r].pc = "sign", ![r].row = i]
      PROVE  IInv'
  <2> DEFINE q == [requests[r] EXCEPT !.pc = "sign", !.row = i]
  <2>1. requests[r] \in RequestType /\ RequestFits(r, requests[r]) /\ inserted \in Seq(Row)
    BY DEF IInv, TypeOK
  <2>2. i \in DOMAIN inserted /\ i \in Nat
    BY <2>1 DEF RowsNamed
  <2>3. q \in RequestType
    BY <2>1, <2>2 DEF RequestType, Waiting
  <2>4. requests' = [requests EXCEPT ![r] = q]
    BY <1>3
  <2>5. AddedBy(r) = {} /\ RemovedBy(r) = {}
    BY <1>1, NoEffectInFlight
  <2>6. ProgressFits(q) /\ HistoryIsPast(q)
    BY <1>1, <2>1, <2>2 DEF RequestFits, ProgressFits, HistoryIsPast, RequestType
  <2>7. EffectsFit(r, q) /\ GateWasPassed(r, q) /\ NameWasFree(r, q)
    BY <1>1, <2>1, <2>5 DEF RequestFits, ProgressFits, EffectsFit, GateWasPassed,
                            NameWasFree, Admitted, RequestType
  <2> HIDE DEF q
  <2> QED
    BY <1>1, <2>3, <2>4, <2>6, <2>7, QuietStep DEF RequestFits
<1> QED
  BY <1>2, <1>3 DEF FindAccount

LEMMA SignTokenStep ==
  ASSUME IInv, NEW r \in Requests, SignToken(r)
  PROVE  IInv'
<1> USE AuthAssumption
<1>1. requests[r].pc = "sign" /\ UNCHANGED Tables
  BY DEF SignToken, Tables
<1>2. requests[r].row \in DOMAIN inserted /\ inserted \in Seq(Row) /\ clock \in Nat
      /\ tokens \subseteq TokenType
  BY <1>1 DEF IInv, TypeOK, RequestFits, ProgressFits
<1>3. inserted[requests[r].row] \in Row
  BY <1>2
<1>4. TokenFor(inserted[requests[r].row], clock) \in TokenType
  BY <1>2, <1>3 DEF TokenFor, TokenType, Row
<1>5. tokens' \subseteq TokenType
  BY <1>2, <1>4 DEF SignToken
<1>6. Answer(r, "token") \/ Answer(r, "internal")
  BY DEF SignToken
<1> QED
  BY <1>1, <1>5, <1>6, AnswerStep DEF Replies

\* The refusal that is told of any reason to introspect unsuccessfully.
LEMMA RefusalStep ==
  ASSUME IInv, NEW r \in Requests, requests[r].pc # "done",
         NEW reply \in {"internal", "not found", "forbidden"}, Answer(r, Refusal(r, reply)),
         UNCHANGED Tables, UNCHANGED tokens
  PROVE  IInv'
<1>1. tokens' \subseteq TokenType
  BY DEF IInv, TypeOK
<1>2. PICK x \in {"internal", "not found", "forbidden"} : Answer(r, x)
  BY DEF Refusal
<1> QED
  BY <1>1, <1>2, AnswerStep DEF Replies

\* Time only passes, so a token that is not expired now was not at the arrival.
LEMMA VerifyTokenStep ==
  ASSUME IInv, NEW r \in Requests, VerifyToken(r)
  PROVE  IInv'
<1>1. requests[r].pc = "token" /\ UNCHANGED Tables /\ UNCHANGED tokens
  BY DEF VerifyToken, Tables
<1>2. CASE IsValid(requests[r].token, clock) /\ Goto(r, "caller")
  <2>1. requests[r] \in RequestType /\ clock \in Nat /\ requests[r].sent <= clock
    BY DEF IInv, TypeOK, RequestFits, HistoryIsPast
  <2>2. requests[r].sent \in Nat /\ requests[r].token.exp \in Nat
    BY <2>1 DEF RequestType, TokenType, NoToken
  <2>3. requests[r].sent < requests[r].token.exp
    BY <1>2, <2>1, <2>2 DEF IsValid
  <2> QED
    BY <1>1, <1>2, <2>3, GotoStep DEF Waiting, Calling, Admitted
<1>3. CASE Answer(r, Refusal(r, "internal"))
  BY <1>1, <1>3, RefusalStep
<1> QED
  BY <1>2, <1>3 DEF VerifyToken

\* A holder that is found now is not removed, and was not at the arrival.
LEMMA LoadCallerStep ==
  ASSUME IInv, NEW r \in Requests, LoadCaller(r)
  PROVE  IInv'
<1>1. /\ requests[r].pc = "caller" /\ UNCHANGED Tables /\ UNCHANGED tokens
      /\ tokens' \subseteq TokenType
  BY DEF LoadCaller, Tables, IInv, TypeOK
<1>2. CASE \E reply \in {"not found", "forbidden"} :
             Answer(r, Refusal(r, reply)) \/ Answer(r, reply)
  BY <1>1, <1>2, RefusalStep, AnswerStep DEF Replies
<1>3. CASE IntrospectAccepts(requests[r].token) /\ Admit(r)
  <2>1. requests[r].sent < requests[r].token.exp
    BY <1>1 DEF IInv, RequestFits, GateWasPassed
  <2>2. requests[r].token.sub \notin requests[r].gone
    BY <1>3 DEF IntrospectAccepts, RowsOfUser, Live, IInv, RequestFits, HistoryIsPast
  <2>3. CASE \E reply \in {"served", "invalid parameter"} : Answer(r, reply)
    BY <1>1, <2>1, <2>2, <2>3, AnswerStep DEF Replies
  <2>4. CASE requests[r].kind = "delete" /\ Goto(r, "remove")
    BY <1>1, <2>1, <2>2, <2>4, GotoStep DEF Waiting, Calling, Admitted
  <2>5. CASE requests[r].kind = "add" /\ Goto(r, "lookup")
    BY <1>1, <2>1, <2>2, <2>5, GotoStep DEF Waiting, Calling, Admitted
  <2> QED
    BY <1>3, <2>3, <2>4, <2>5 DEF Admit
<1> QED
  BY <1>2, <1>3 DEF LoadCaller

\* A user of the name who is there now was not removed at the arrival.
LEMMA TakenNameJustifies ==
  ASSUME IInv, NEW r \in Requests, NEW i \in RowsNamed(requests[r].form.name)
  PROVE  /\ i \in DOMAIN inserted
         /\ inserted[i].name = requests[r].form.name
         /\ inserted[i].uid \notin requests[r].gone
BY DEF RowsNamed, Live, IInv, RequestFits, HistoryIsPast

LEMMA LookUpNameStep ==
  ASSUME IInv, NEW r \in Requests, LookUpName(r)
  PROVE  IInv'
<1>1. /\ requests[r].pc = "lookup" /\ UNCHANGED Tables /\ UNCHANGED tokens
      /\ tokens' \subseteq TokenType
  BY DEF LookUpName, Tables, IInv, TypeOK
<1>2. CASE RowsNamed(requests[r].form.name) # {} /\ Answer(r, "conflict")
  <2>1. \E i \in DOMAIN inserted : /\ inserted[i].name = requests[r].form.name
                                   /\ inserted[i].uid \notin requests[r].gone
    BY <1>2, TakenNameJustifies
  <2> QED
    BY <1>1, <1>2, <2>1, AnswerStep DEF Replies
<1>3. CASE Goto(r, "check")
  <2>1. /\ requests[r].kind = "add" /\ requests[r].sent < requests[r].token.exp
        /\ requests[r].token.sub \notin requests[r].gone
    BY <1>1 DEF IInv, RequestFits, ProgressFits, GateWasPassed, Admitted
  <2> QED
    BY <1>1, <1>3, <2>1, GotoStep DEF Waiting, Calling, Admitted
<1> QED
  BY <1>2, <1>3 DEF LookUpName

\* The transaction of StoreUser finds the name taken, or none of the rows there
\* are has it; it never finds its own uid.
LEMMA CheckTakenStep ==
  ASSUME IInv, NEW r \in Requests, CheckTaken(r)
  PROVE  IInv'
<1>1. /\ requests[r].pc = "check" /\ UNCHANGED Tables /\ UNCHANGED tokens
      /\ tokens' \subseteq TokenType
  BY DEF CheckTaken, Tables, IInv, TypeOK
<1>2. AddedBy(r) = {} /\ RemovedBy(r) = {}
  BY <1>1, NoEffectInFlight
<1>3. CASE IsTaken(r, requests[r].form.name) /\ Answer(r, "conflict")
  <2>1. RowsOfUser(r) = {}
    BY <1>2 DEF RowsOfUser, AddedBy
  <2>2. \E i \in DOMAIN inserted : /\ inserted[i].name = requests[r].form.name
                                   /\ inserted[i].uid \notin requests[r].gone
    BY <1>3, <2>1, TakenNameJustifies DEF IsTaken
  <2> QED
    BY <1>1, <1>3, <2>2, AnswerStep DEF Replies
<1>4. ASSUME ~IsTaken(r, requests[r].form.name),
             requests' = [requests EXCEPT ![r].pc = "insert", ![r].checked = Len(inserted)]
      PROVE  IInv'
  <2> DEFINE q == [requests[r] EXCEPT !.pc = "insert", !.checked = Len(inserted)]
  <2>1. /\ requests[r] \in RequestType /\ RequestFits(r, requests[r])
        /\ inserted \in Seq(Row) /\ Len(inserted) \in Nat
    BY DEF IInv, TypeOK
  <2>2. q \in RequestType
    BY <2>1 DEF RequestType, Waiting, Calling
  <2>3. requests' = [requests EXCEPT ![r] = q]
    BY <1>4
  <2>4. ProgressFits(q) /\ HistoryIsPast(q)
    BY <1>1, <2>1 DEF RequestFits, ProgressFits, HistoryIsPast, RequestType
  <2>5. EffectsFit(r, q) /\ GateWasPassed(r, q)
    BY <1>1, <1>2, <2>1 DEF RequestFits, ProgressFits, EffectsFit, GateWasPassed,
                            Admitted, RequestType
  <2>6. RowsNamed(q.form.name) = {}
    BY <1>4, <2>1 DEF IsTaken, RequestType
  <2>7. NameWasFree(r, q)
    BY <1>2, <2>6 DEF NameWasFree, RowsNamed
  <2> HIDE DEF q
  <2> QED
    BY <1>1, <2>2, <2>3, <2>4, <2>5, <2>7, QuietStep DEF RequestFits
<1> QED
  BY <1>3, <1>4 DEF CheckTaken

LEMMA FailureStep ==
  ASSUME IInv, NEW r \in Requests, BeginFails(r) \/ CallFails(r)
  PROVE  IInv'
<1>1. /\ requests[r].pc # "done" /\ UNCHANGED Tables /\ UNCHANGED tokens
      /\ tokens' \subseteq TokenType
  BY DEF BeginFails, CallFails, Calling, Tables, IInv, TypeOK
<1>2. CASE Answer(r, "aborted")
  BY <1>1, <1>2, AnswerStep DEF Replies
<1>3. CASE Answer(r, Refusal(r, "internal"))
  BY <1>1, <1>3, RefusalStep
<1> QED
  BY <1>2, <1>3 DEF BeginFails, CallFails

-----------------------------------------------------------------------------
(* Steps that change the table or the clock.                               *)

\* The committed row is the newest: what other requests had checked lies below.
LEMMA CommitUserStep ==
  ASSUME IInv, NEW r \in Requests, CommitUser(r)
  PROVE  IInv'
<1> DEFINE row == [uid |-> r, name |-> requests[r].form.name,
                   password |-> requests[r].form.password,
                   rights |-> requests[r].form.rights]
           n == Len(inserted)
<1>1. /\ requests[r].pc = "insert" /\ requests[r] \in RequestType
      /\ RequestFits(r, requests[r]) /\ requests[r].form \in Forms
      /\ inserted \in Seq(Row) /\ n \in Nat /\ DOMAIN inserted = 1 .. n
      /\ requests \in [Requests -> RequestType]
  BY DEF CommitUser, IInv, TypeOK, RequestFits, ProgressFits
<1>2. row \in Row
  BY <1>1, AuthAssumption DEF Row, UserIds
<1> HIDE DEF row
<1>3. inserted' = Append(inserted, row) /\ UNCHANGED <<clock, deleted, tokens>>
  BY DEF CommitUser, row
<1>4. /\ inserted' \in Seq(Row) /\ Len(inserted') = n + 1 /\ DOMAIN inserted' = 1 .. n + 1
      /\ inserted'[n + 1] = row
      /\ \A i \in DOMAIN inserted : i \in DOMAIN inserted' /\ inserted'[i] = inserted[i]
  BY <1>1, <1>2, <1>3
<1>5. PICK reply \in {"created", "internal"} : Answer(r, reply)
  BY DEF CommitUser
<1> DEFINE q == [requests[r] EXCEPT !.pc = "done", !.reply = reply]
<1>6. q \in RequestType /\ requests' = [requests EXCEPT ![r] = q]
  BY <1>1, <1>5 DEF Answer, RequestType, Replies
<1>7. AddedBy(r) = {} /\ RemovedBy(r) = {}
  BY <1>1, NoEffectInFlight
<1>8. row.uid = r /\ row.name = requests[r].form.name
  BY DEF row
<1>9. \A i \in 1 .. n : Live(i)' <=> Live(i)
  BY <1>1, <1>3, <1>4 DEF Live, Removed
<1>10. TypeOK'
  <2>1. requests' \in [Requests -> RequestType]
    BY <1>1, <1>6
  <2> QED
    BY <1>3, <1>4, <2>1 DEF IInv, TypeOK
<1>11. TableFits'
  <2>1. row.uid \notin SeedUsers
    BY <1>8, AuthAssumption
  <2> QED
    BY <1>1, <1>3, <1>4, <2>1 DEF IInv, TableFits
<1>12. ASSUME NEW s \in Requests, s # r PROVE RequestFits(s, requests[s])'
  <2>1. PICK x \in RequestType : x = requests[s] /\ x = requests'[s] /\ RequestFits(s, x)
    BY <1>1, <1>6, <1>12 DEF IInv
  <2>2. AddedBy(s)' = AddedBy(s) /\ RemovedBy(s)' = RemovedBy(s)
    BY <1>1, <1>3, <1>4, <1>8, <1>12 DEF AddedBy, RemovedBy
  <2>3. ProgressFits(requests[s])'
    BY <1>1, <1>4, <2>1 DEF RequestFits, ProgressFits
  <2>4. HistoryIsPast(requests[s])'
    <3>1. x.sent <= clock /\ x.checked <= n + 1
      BY <1>1, <2>1 DEF RequestFits, HistoryIsPast, RequestType
    <3>2. \A uid \in x.gone : Removed(uid)'
      BY <1>3, <2>1 DEF RequestFits, HistoryIsPast, Removed
    <3> QED
      BY <1>3, <1>4, <2>1, <3>1, <3>2 DEF HistoryIsPast
  <2>5. EffectsFit(s, requests[s])'
    BY <1>4, <2>1, <2>2 DEF RequestFits, EffectsFit
  <2>6. GateWasPassed(s, requests[s])'
    BY <2>1, <2>2 DEF RequestFits, GateWasPassed
  <2>7. NameWasFree(s, requests[s])'
    <3>1. x.checked < n + 1
      BY <1>1, <2>1 DEF RequestFits, HistoryIsPast, RequestType
    <3>2. ASSUME NEW i \in DOMAIN inserted', x.pc = "insert",
                 inserted'[i].name = x.form.name, Live(i)'
          PROVE  x.checked < i
      <4>1. CASE i = n + 1
        BY <3>1, <4>1
      <4>2. CASE i \in 1 .. n
        BY <1>1, <1>4, <1>9, <2>1, <3>2, <4>2 DEF RequestFits, NameWasFree
      <4> QED
        BY <1>1, <1>4, <4>1, <4>2
    <3>3. ASSUME NEW j \in AddedBy(s), NEW i \in 1 .. j - 1,
                 inserted'[i].name = inserted'[j].name, Live(i)'
          PROVE  x.checked < i
      <4>1. j \in 1 .. n /\ i \in 1 .. n
        BY <1>1 DEF AddedBy
      <4>2. inserted[i].name = inserted[j].name /\ Live(i)
        BY <1>1, <1>4, <1>9, <3>3, <4>1
      <4> QED
        BY <2>1, <4>2 DEF RequestFits, NameWasFree
    <3> QED
      BY <2>1, <2>2, <3>2, <3>3 DEF NameWasFree
  <2> QED
    BY <2>3, <2>4, <2>5, <2>6, <2>7 DEF RequestFits
<1>13. RequestFits(r, requests[r])'
  <2>1. requests'[r] = q
    BY <1>1, <1>6
  <2>2. /\ q.pc = "done" /\ q.reply \in {"created", "internal"} /\ q.kind = requests[r].kind
        /\ q.form = requests[r].form /\ q.target = requests[r].target
        /\ q.token = requests[r].token /\ q.gone = requests[r].gone
        /\ q.sent = requests[r].sent /\ q.checked = requests[r].checked
    BY <1>1 DEF RequestType
  <2> HIDE DEF q
  <2>3. AddedBy(r)' = {n + 1} /\ RemovedBy(r)' = {}
    BY <1>1, <1>3, <1>4, <1>7, <1>8 DEF AddedBy, RemovedBy
  <2>4. ProgressFits(requests[r])'
    BY <1>1, <2>1, <2>2 DEF RequestFits, ProgressFits
  <2>5. HistoryIsPast(requests[r])'
    BY <1>1, <1>3, <1>4, <2>1, <2>2 DEF RequestFits, HistoryIsPast, Removed, RequestType
  <2>6. EffectsFit(r, requests[r])'
    BY <2>1, <2>2, <2>3 DEF EffectsFit
  <2>7. GateWasPassed(r, requests[r])'
    BY <1>1, <2>1, <2>2 DEF RequestFits, GateWasPassed, Admitted
  <2>8. NameWasFree(r, requests[r])'
    <3>1. ASSUME NEW i \in 1 .. n, inserted'[i].name = inserted'[n + 1].name, Live(i)'
          PROVE  requests[r].checked < i
      BY <1>1, <1>4, <1>8, <1>9, <3>1 DEF RequestFits, NameWasFree
    <3> QED
      BY <1>1, <2>1, <2>2, <2>3, <3>1 DEF NameWasFree
  <2> QED
    BY <2>4, <2>5, <2>6, <2>7, <2>8 DEF RequestFits
<1> QED
  BY <1>10, <1>11, <1>12, <1>13 DEF IInv

\* Only rows that are there are removed, so nobody is removed twice; what was
\* removed before stays so.
LEMMA RemoveUserStep ==
  ASSUME IInv, NEW r \in Requests, RemoveUser(r)
  PROVE  IInv'
<1> DEFINE u == requests[r].target
<1>1. /\ requests[r].pc = "remove" /\ requests[r] \in RequestType
      /\ RequestFits(r, requests[r]) /\ u \in UserIds
      /\ requests \in [Requests -> RequestType] /\ tokens \subseteq TokenType
      /\ UNCHANGED <<clock, inserted, tokens>>
  BY DEF RemoveUser, IInv, TypeOK, RequestFits, ProgressFits
<1>2. CASE UNCHANGED deleted /\ Answer(r, "not found")
  BY <1>1, <1>2, AnswerStep DEF Replies, Tables
<1>3. ASSUME RowsOfUser(u) # {}, deleted' = deleted \cup {<<u, r>>},
             NEW reply \in {"deleted", "internal"}, Answer(r, reply)
      PROVE  IInv'
  <2> DEFINE q == [requests[r] EXCEPT !.pc = "done", !.reply = reply]
  <2>1. q \in RequestType /\ requests' = [requests EXCEPT ![r] = q]
    BY <1>1, <1>3 DEF Answer, RequestType, Replies
  <2>2. AddedBy(r) = {} /\ RemovedBy(r) = {}
    BY <1>1, NoEffectInFlight
  <2>3. \A s \in Requests : <<u, s>> \notin deleted
    BY <1>3 DEF RowsOfUser, Live, Removed
  <2>4. /\ \A uid : Removed(uid) => Removed(uid)'
        /\ \A i : Live(i)' => Live(i)
    BY <1>1, <1>3 DEF Live, Removed
  <2>5. TypeOK'
    <3>1. requests' \in [Requests -> RequestType]
      BY <1>1, <2>1
    <3> QED
      BY <1>1, <1>3, <3>1 DEF IInv, TypeOK
  <2>6. TableFits'
    <3>1. \E i \in DOMAIN inserted : inserted[i].uid = u
      BY <1>3 DEF RowsOfUser
    <3> QED
      BY <1>1, <1>3, <2>3, <3>1 DEF IInv, TableFits
  <2>7. ASSUME NEW s \in Requests, s # r PROVE RequestFits(s, requests[s])'
    <3>1. PICK x \in RequestType : x = requests[s] /\ x = requests'[s] /\ RequestFits(s, x)
      BY <1>1, <2>1, <2>7 DEF IInv
    <3>2. AddedBy(s)' = AddedBy(s) /\ RemovedBy(s)' = RemovedBy(s)
      BY <1>1, <1>3, <2>7 DEF AddedBy, RemovedBy
    <3>3. ProgressFits(requests[s])' /\ HistoryIsPast(requests[s])'
      BY <1>1, <2>4, <3>1 DEF RequestFits, ProgressFits, HistoryIsPast
    <3>4. EffectsFit(s, requests[s])'
      BY <1>1, <3>1, <3>2 DEF RequestFits, EffectsFit
    <3>5. GateWasPassed(s, requests[s])'
      BY <3>1, <3>2 DEF RequestFits, GateWasPassed
    <3>6. NameWasFree(s, requests[s])'
      BY <1>1, <2>4, <3>1, <3>2 DEF RequestFits, NameWasFree
    <3> QED
      BY <3>3, <3>4, <3>5, <3>6 DEF RequestFits
  <2>8. RequestFits(r, requests[r])'
    <3>1. requests'[r] = q
      BY <1>1, <2>1
    <3>2. /\ q.pc = "done" /\ q.reply = reply /\ q.kind = requests[r].kind
          /\ q.form = requests[r].form /\ q.target = u
          /\ q.token = requests[r].token /\ q.gone = requests[r].gone
          /\ q.sent = requests[r].sent /\ q.checked = requests[r].checked
      BY <1>1 DEF RequestType
    <3> HIDE DEF q
    <3>3. AddedBy(r)' = {} /\ RemovedBy(r)' = {u}
      BY <1>1, <1>3, <2>2 DEF AddedBy, RemovedBy
    <3>4. ProgressFits(requests[r])' /\ HistoryIsPast(requests[r])'
      BY <1>1, <2>4, <3>1, <3>2 DEF RequestFits, ProgressFits, HistoryIsPast
    <3>5. EffectsFit(r, requests[r])'
      BY <3>1, <3>2, <3>3 DEF EffectsFit
    <3>6. GateWasPassed(r, requests[r])'
      BY <1>1, <3>1, <3>2 DEF RequestFits, GateWasPassed, Admitted
    <3>7. NameWasFree(r, requests[r])'
      BY <3>1, <3>2, <3>3 DEF NameWasFree
    <3> QED
      BY <3>4, <3>5, <3>6, <3>7 DEF RequestFits
  <2> QED
    BY <2>5, <2>6, <2>7, <2>8 DEF IInv
<1> QED
  BY <1>2, <1>3 DEF RemoveUser

\* Nothing that concerns a request ends because time passes, or nothing happens.
LEMMA TimeStep ==
  ASSUME IInv, Tick \/ UNCHANGED vars
  PROVE  IInv'
<1>1. /\ clock \in Nat /\ clock' \in Nat /\ clock <= clock'
      /\ UNCHANGED <<inserted, deleted, tokens, requests>>
  BY AuthAssumption DEF Tick, vars, IInv, TypeOK
<1>2. TypeOK' /\ TableFits'
  BY <1>1 DEF IInv, TypeOK, TableFits
<1>3. ASSUME NEW s \in Requests PROVE RequestFits(s, requests[s])'
  <2>1. PICK x \in RequestType : x = requests[s] /\ x = requests'[s] /\ RequestFits(s, x)
    BY <1>1 DEF IInv, TypeOK
  <2>2. HistoryIsPast(requests[s])'
    <3>1. x.sent <= clock'
      BY <1>1, <2>1 DEF RequestFits, HistoryIsPast, RequestType
    <3> QED
      BY <1>1, <2>1, <3>1 DEF RequestFits, HistoryIsPast, Removed
  <2>3. ProgressFits(requests[s])' /\ EffectsFit(s, requests[s])'
    BY <1>1, <2>1 DEF RequestFits, ProgressFits, EffectsFit, AddedBy, RemovedBy
  <2>4. GateWasPassed(s, requests[s])' /\ NameWasFree(s, requests[s])'
    BY <1>1, <2>1 DEF RequestFits, GateWasPassed, NameWasFree, AddedBy, RemovedBy,
                      Live, Removed
  <2> QED
    BY <2>2, <2>3, <2>4 DEF RequestFits
<1> QED
  BY <1>2, <1>3 DEF IInv

-----------------------------------------------------------------------------
(* Every step.                                                             *)

LEMMA BeginStep ==
  ASSUME IInv, NEW r \in Requests, Begin(r)
  PROVE  IInv'
<1>1. tokens \subseteq TokenType /\ KnownUsers \subseteq UserIds
  <2>1. inserted \in Seq(Row) /\ tokens \subseteq TokenType
    BY DEF IInv, TypeOK
  <2>2. \A i \in DOMAIN inserted : inserted[i] \in Row
    BY <2>1
  <2> QED
    BY <2>1, <2>2 DEF KnownUsers, Row
<1>2. CASE RefuseRequest(r)
  BY <1>2, RefuseRequestStep
<1>3. ASSUME NEW form \in Forms, Arrive(r, "signin", "account", NoToken, form, Nobody)
      PROVE  IInv'
  BY <1>3, ArriveStep
<1>4. ASSUME NEW token \in tokens, NEW form \in Forms,
             Arrive(r, "add", "token", token, form, Nobody)
      PROVE  IInv'
  BY <1>1, <1>4, ArriveStep
<1>5. ASSUME NEW token \in tokens, NEW uid \in KnownUsers,
             Arrive(r, "delete", "token", token, NoForm, uid)
      PROVE  IInv'
  BY <1>1, <1>5, ArriveStep
<1>6. ASSUME NEW token \in tokens, Arrive(r, "use", "token", token, NoForm, Nobody)
      PROVE  IInv'
  BY <1>1, <1>6, ArriveStep
<1> QED
  BY <1>2, <1>3, <1>4, <1>5, <1>6 DEF Begin

LEMMA NextInvariant == IInv /\ [Next]_vars => IInv'
<1> SUFFICES ASSUME IInv, [Next]_vars PROVE IInv'
  OBVIOUS
<1>1. CASE Tick \/ UNCHANGED vars
  BY <1>1, TimeStep
<1>2. ASSUME NEW r \in Requests, Begin(r) PROVE IInv'
  BY <1>2, BeginStep
<1>3. ASSUME NEW r \in Requests, Serve(r) PROVE IInv'
  BY <1>3, FindAccountStep, SignTokenStep, VerifyTokenStep, LoadCallerStep,
     LookUpNameStep, CheckTakenStep, FailureStep, CommitUserStep, RemoveUserStep
     DEF Serve
<1> QED
  BY <1>1, <1>2, <1>3 DEF Next

\* The inductive invariant holds throughout: what a request in flight knows is
\* what it was let through with, and every row, removal and reply has its request.
THEOREM InductiveInvariant == Spec => []IInv
BY InitInvariant, NextInvariant, PTL DEF Spec

-----------------------------------------------------------------------------
(* The properties.                                                         *)

\* The variables have their types: a row is only made from a form a client sent,
\* and a removal only of a user who is known.
THEOREM TypeCorrect == Spec => []TypeOK
<1>1. IInv => TypeOK
  BY DEF IInv
<1> QED
  BY <1>1, InductiveInvariant, PTL

\* Two live users share a name only if the second one's check in StoreUser came
\* before the first one's commit.
THEOREM DuplicatesOnlyInWindow == Spec => []DuplicateNamesOnlyInWindow
<1>1. IInv => DuplicateNamesOnlyInWindow
  <2> SUFFICES ASSUME IInv, NEW i \in DOMAIN inserted, NEW j \in DOMAIN inserted, i < j,
                      inserted[i].name = inserted[j].name, Live(i)
               PROVE  requests[inserted[j].uid].checked < i
    BY DEF DuplicateNamesOnlyInWindow
  <2>1. /\ inserted \in Seq(Row) /\ i \in 1 .. j - 1 /\ inserted[j] \in Row
        /\ SeedRows \in Seq(Row)
    BY AuthAssumption DEF IInv, TypeOK
  <2>2. CASE inserted[j].uid \in Requests
    BY <2>1, <2>2 DEF IInv, RequestFits, NameWasFree, AddedBy
  <2>3. CASE inserted[j].uid \in SeedUsers
    <3>1. j \in DOMAIN SeedRows
      BY <2>3 DEF IInv, TableFits
    <3>2. i \in DOMAIN SeedRows
      BY <2>1, <3>1
    <3>3. SeedRows[i].name = SeedRows[j].name
      BY <3>1, <3>2 DEF IInv, TableFits
    <3>4. i = j
      BY <3>1, <3>2, <3>3, AuthAssumption
    <3> QED
      BY <2>1, <3>4
  <2> QED
    BY <2>1, <2>2, <2>3 DEF Row, UserIds
<1> QED
  BY <1>1, InductiveInvariant, PTL

\* No request has an effect for a holder who had been deleted, or a token that
\* had expired, when it arrived.
THEOREM DeletionBites == Spec => []NoEffectAfterDeletion
<1>1. IInv => NoEffectAfterDeletion
  <2> SUFFICES ASSUME IInv, NEW r \in Requests, HasEffect(r)
               PROVE  /\ requests[r].token.sub \notin requests[r].gone
                      /\ requests[r].sent < requests[r].token.exp
    BY DEF NoEffectAfterDeletion
  <2>1. requests[r].reply = "served" \/ AddedBy(r) # {} \/ RemovedBy(r) # {}
    BY DEF HasEffect, AddedBy, RemovedBy
  <2> QED
    BY <2>1 DEF IInv, RequestFits, GateWasPassed
<1> QED
  BY <1>1, InductiveInvariant, PTL

\* A client is told of a conflict only because of a user of that name who was
\* there while its request ran.
THEOREM ConflictJustified == Spec => []ConflictIsJustified
<1>1. IInv => ConflictIsJustified
  BY DEF IInv, RequestFits, EffectsFit, ConflictIsJustified
<1> QED
  BY <1>1, InductiveInvariant, PTL

\* At most one request is told that it deleted a user, and it did.
THEOREM DeletedAtMostOnce == Spec => []DeletedOnce
<1>1. IInv => DeletedOnce
  <2> SUFFICES ASSUME IInv PROVE DeletedOnce
    OBVIOUS
  <2>1. ASSUME NEW r \in Requests, requests[r].reply = "deleted"
        PROVE  requests[r].target \in UserIds /\ <<requests[r].target, r>> \in deleted
    BY <2>1 DEF IInv, RequestFits, EffectsFit, RemovedBy
  <2> QED
    BY <2>1 DEF DeletedOnce, IInv, TableFits
<1> QED
  BY <1>1, InductiveInvariant, PTL

-----------------------------------------------------------------------------
(* auth implements Accounts: every step is a step of Accounts or none.     *)

LEMMA StagesOfSteps ==
  /\ \A q : q.pc \in {"idle", "account"} => StageOf(q) = "new"
  /\ \A q : q.pc = "sign" => StageOf(q) = "identified"
  /\ \A q : q.pc \in {"token", "caller"} => StageOf(q) = "presented"
  /\ \A q : q.pc \in Admitted => StageOf(q) = "admitted"
  /\ \A q : q.pc = "done" => StageOf(q) = "over"
BY DEF StageOf, Admitted

\* What the mapping makes of one request.
LEMMA SubjectsOfSteps ==
  /\ \A q : q.pc \in {"idle", "account", "done"} => SubjectOf(q) = Nobody
  /\ \A q : q.pc = "sign" => SubjectOf(q) = inserted[q.row].uid
  /\ \A q : q.pc \in {"token", "caller"} \cup Admitted => SubjectOf(q) = q.token.sub
<1>1. \A q : q.pc \in Admitted => q.pc \notin {"sign", "idle", "account", "done"}
  BY DEF Admitted
<1> QED
  BY <1>1, StagesOfSteps DEF SubjectOf

LEMMA InitRefines == Init => Account!Init
<1> SUFFICES ASSUME Init PROVE Account!Init
  OBVIOUS
<1>1. /\ inserted = SeedRows /\ deleted = {} /\ tokens = {}
      /\ requests = [r \in Requests |-> NewRequest] /\ SeedRows \in Seq(Row)
  BY AuthAssumption DEF Init
<1>2. AccountMembers = AccountSeeded
  <2>1. \A i \in DOMAIN SeedRows : SeedRows[i].uid \in UserIds
    BY AuthAssumption DEF UserIds
  <2>2. \A uid : RowsOfUser(uid) = {i \in DOMAIN SeedRows : SeedRows[i].uid = uid}
    BY <1>1 DEF RowsOfUser, Live, Removed
  <2> QED
    BY <2>1, <2>2 DEF AccountMembers, AccountSeeded
<1>3. AccountFormer = {} /\ AccountGranted = {}
  BY <1>1 DEF AccountFormer, AccountGranted, Removed
<1>4. NewRequest.pc = "idle" /\ NewRequest.reply = "none"
  BY DEF NewRequest
<1>5. AccountServed = {}
  BY <1>1, <1>4 DEF AccountServed
<1>6. AccountStage = [r \in Requests |-> "new"]
  BY <1>1, <1>4, StagesOfSteps DEF AccountStage
<1>7. AccountSubject = [r \in Requests |-> Nobody]
  BY <1>1, <1>4, SubjectsOfSteps DEF AccountSubject
<1> QED
  BY <1>2, <1>3, <1>5, <1>6, <1>7 DEF Account!Init

\* A step that makes q of request r moves it alone, whatever row it adds.
LEMMA RequestMoves ==
  ASSUME IInv, NEW r \in Requests, NEW q \in RequestType,
         requests' = [requests EXCEPT ![r] = q],
         \A i \in DOMAIN inserted : i \in DOMAIN inserted' /\ inserted'[i] = inserted[i]
  PROVE  /\ AccountStage' = [AccountStage EXCEPT ![r] = StageOf(q)]
         /\ AccountSubject' = [AccountSubject EXCEPT ![r] = SubjectOf(q)']
         /\ q.reply = requests[r].reply => UNCHANGED AccountServed
         /\ q.reply = "served" => AccountServed' = AccountServed \cup {r}
         /\ q.reply # "served" /\ requests[r].reply = "none" => UNCHANGED AccountServed
<1>1. requests \in [Requests -> RequestType]
  BY DEF IInv, TypeOK
<1>2. \A s \in Requests : requests'[s] = IF s = r THEN q ELSE requests[s]
  BY <1>1
<1>3. \A s \in Requests : s # r => SubjectOf(requests[s])' = SubjectOf(requests[s])
  <2> SUFFICES ASSUME NEW s \in Requests, s # r
               PROVE  SubjectOf(requests[s])' = SubjectOf(requests[s])
    OBVIOUS
  <2>1. requests'[s] = requests[s]
    BY <1>2
  <2>2. requests[s].pc = "sign" => inserted'[requests[s].row] = inserted[requests[s].row]
    BY DEF IInv, RequestFits, ProgressFits
  <2> QED
    BY <2>1, <2>2 DEF SubjectOf
<1>4. AccountStage' = [AccountStage EXCEPT ![r] = StageOf(q)]
  <2>1. \A s \in Requests :
          StageOf(requests[s])' = IF s = r THEN StageOf(q) ELSE StageOf(requests[s])
    <3> SUFFICES ASSUME NEW s \in Requests
                 PROVE  StageOf(requests[s])' = IF s = r THEN StageOf(q)
                                                ELSE StageOf(requests[s])
      OBVIOUS
    <3>1. PICK x : x = requests'[s] /\ x = IF s = r THEN q ELSE requests[s]
      BY <1>2
    <3>2. StageOf(requests[s])' = StageOf(x)
      BY <3>1 DEF StageOf
    <3> QED
      BY <3>1, <3>2
  <2> QED
    BY <2>1 DEF AccountStage
<1>5. AccountSubject' = [AccountSubject EXCEPT ![r] = SubjectOf(q)']
  <2>1. SubjectOf(requests[r])' = SubjectOf(q)'
    <3>1. PICK x : x = requests'[r] /\ x = q
      BY <1>2
    <3>2. SubjectOf(requests[r])' = SubjectOf(x)'
      BY <3>1 DEF SubjectOf, StageOf
    <3> QED
      BY <3>1, <3>2
  <2> QED
    BY <1>3, <2>1 DEF AccountSubject
<1>6. AccountServed' = IF q.reply = "served" THEN AccountServed \cup {r}
                                             ELSE AccountServed \ {r}
  BY <1>2 DEF AccountServed
<1>7. r \in AccountServed <=> requests[r].reply = "served"
  BY DEF AccountServed
<1> QED
  BY <1>4, <1>5, <1>6, <1>7

LEMMA TablesMap ==
  ASSUME UNCHANGED <<inserted, deleted>>
  PROVE  UNCHANGED <<AccountMembers, AccountFormer>>
BY DEF AccountMembers, AccountFormer, RowsOfUser, Live, Removed

LEMMA StagesBeforeDone ==
  ASSUME NEW q \in RequestType, q.pc # "done"
  PROVE  StageOf(q) \in {"new", "identified", "presented", "admitted"}
<1>1. q.pc \in {"idle", "account", "sign", "token", "caller"} \cup Admitted
  BY DEF RequestType, Waiting, Calling, Admitted
<1> QED
  BY <1>1, StagesOfSteps

LEMMA MovesAccount ==
  ASSUME IInv, NEW r \in Requests, NEW q \in RequestType, NEW to, NEW user,
         requests' = [requests EXCEPT ![r] = q],
         \A i \in DOMAIN inserted : i \in DOMAIN inserted' /\ inserted'[i] = inserted[i],
         StageOf(q) = to, SubjectOf(q)' = user
  PROVE  Account!Move(r, StageOf(requests[r]), to, user)
<1>1. AccountStage[r] = StageOf(requests[r])
  BY DEF AccountStage
<1> QED
  BY <1>1, RequestMoves DEF Account!Move

\* A reply other than "served" ends the request, as far as Accounts goes.
LEMMA EndRefines ==
  ASSUME IInv, NEW r \in Requests, requests[r].pc # "done",
         NEW reply \in Replies \ {"served"}, Answer(r, reply),
         UNCHANGED <<inserted, deleted, tokens>>
  PROVE  Account!End(r)
<1>1. requests[r] \in RequestType /\ requests[r].reply = "none"
  BY DEF IInv, TypeOK, RequestFits, ProgressFits
<1>2. PICK q : q = [requests[r] EXCEPT !.pc = "done", !.reply = reply]
  OBVIOUS
<1>3. /\ q \in RequestType /\ q.pc = "done" /\ q.reply = reply
      /\ requests' = [requests EXCEPT ![r] = q]
  BY <1>1, <1>2 DEF RequestType, Answer
<1>4. StageOf(q) = "over" /\ SubjectOf(q)' = Nobody
  <2>1. StageOf(q) = "over"
    BY <1>3, StagesOfSteps
  <2> QED
    BY <1>3, <2>1 DEF SubjectOf
<1>5. Account!Move(r, StageOf(requests[r]), "over", Nobody)
  BY <1>3, <1>4, MovesAccount
<1>6. AccountStage[r] = StageOf(requests[r]) /\ StageOf(requests[r]) # "over"
  BY <1>1, StagesBeforeDone DEF AccountStage
<1>7. UNCHANGED <<AccountMembers, AccountFormer, AccountGranted, AccountServed>>
  BY <1>1, <1>3, RequestMoves, TablesMap DEF AccountGranted
<1> QED
  BY <1>5, <1>6, <1>7 DEF Account!End

\* A step within one stage, with the same subject, is none of Accounts.
LEMMA StayRefines ==
  ASSUME IInv, NEW r \in Requests, NEW q \in RequestType,
         requests' = [requests EXCEPT ![r] = q],
         StageOf(q) = StageOf(requests[r]), SubjectOf(q) = SubjectOf(requests[r]),
         q.reply = requests[r].reply, UNCHANGED <<inserted, deleted, tokens>>
  PROVE  UNCHANGED Account!vars
<1>1. SubjectOf(q)' = SubjectOf(q)
  BY DEF SubjectOf
<1>2. /\ AccountStage' = [AccountStage EXCEPT ![r] = AccountStage[r]]
      /\ AccountSubject' = [AccountSubject EXCEPT ![r] = AccountSubject[r]]
      /\ UNCHANGED AccountServed
  BY <1>1, RequestMoves DEF AccountStage, AccountSubject
<1>3. UNCHANGED <<AccountStage, AccountSubject>>
  <2>1. /\ AccountStage \in [Requests -> {StageOf(requests[s]) : s \in Requests}]
        /\ AccountSubject \in [Requests -> {SubjectOf(requests[s]) : s \in Requests}]
    BY DEF AccountStage, AccountSubject
  <2> QED
    BY <1>2, <2>1
<1> QED
  BY <1>2, <1>3, TablesMap DEF AccountGranted, Account!vars

LEMMA GotoRefines ==
  ASSUME IInv, NEW r \in Requests, NEW pc,
         \/ requests[r].pc = "token" /\ pc = "caller"
         \/ requests[r].pc \in Admitted /\ pc \in Admitted,
         Goto(r, pc), UNCHANGED <<inserted, deleted, tokens>>
  PROVE  UNCHANGED Account!vars
<1>1. requests[r] \in RequestType
  BY DEF IInv, TypeOK
<1>2. PICK q : q = [requests[r] EXCEPT !.pc = pc]
  OBVIOUS
<1>3. /\ q \in RequestType /\ q.pc = pc /\ q.reply = requests[r].reply
      /\ q.token = requests[r].token /\ requests' = [requests EXCEPT ![r] = q]
  BY <1>1, <1>2 DEF RequestType, Goto, Waiting, Calling, Admitted
<1>4. StageOf(q) = StageOf(requests[r]) /\ SubjectOf(q) = SubjectOf(requests[r])
  BY <1>3, StagesOfSteps, SubjectsOfSteps
<1> QED
  BY <1>3, <1>4, StayRefines

LEMMA ArriveRefines ==
  ASSUME IInv, NEW r \in Requests, NEW kind \in {"signin", "add", "delete", "use"},
         NEW pc, NEW token \in tokens \cup {NoToken}, NEW form \in Forms \cup {NoForm},
         NEW target \in UserIds \cup {Nobody},
         pc = "account" \/ (pc = "token" /\ token \in tokens),
         Arrive(r, kind, pc, token, form, target)
  PROVE  \/ \E user \in UserIds : Account!Present(r, user)
         \/ UNCHANGED Account!vars
<1> DEFINE a == [kind |-> kind, pc |-> pc, token |-> token, form |-> form,
                 target |-> target, row |-> 0, checked |-> 0,
                 gone |-> {uid \in UserIds : Removed(uid)}, sent |-> clock,
                 reply |-> "none"]
<1>1. /\ requests[r] \in RequestType /\ requests[r].pc = "idle"
      /\ requests[r].reply = "none" /\ tokens \subseteq TokenType /\ clock \in Nat
      /\ UNCHANGED <<clock, inserted, deleted, tokens>>
  BY DEF Arrive, IInv, TypeOK, RequestFits, ProgressFits
<1>2. PICK q : q = a
  OBVIOUS
<1>3. /\ q \in RequestType /\ q.pc = pc /\ q.token = token /\ q.reply = "none"
      /\ requests' = [requests EXCEPT ![r] = q]
  BY <1>1, <1>2 DEF RequestType, Arrive, Kinds, Waiting, Calling, Replies
<1> HIDE DEF a
<1>4. CASE pc = "account"
  <2>1. StageOf(q) = StageOf(requests[r]) /\ SubjectOf(q) = SubjectOf(requests[r])
    BY <1>1, <1>3, <1>4, StagesOfSteps, SubjectsOfSteps
  <2> QED
    BY <1>1, <1>3, <2>1, StayRefines
<1>5. CASE pc = "token" /\ token \in tokens
  <2>1. StageOf(q) = "presented" /\ StageOf(requests[r]) = "new"
    BY <1>1, <1>3, <1>5, StagesOfSteps
  <2>2. SubjectOf(q)' = token.sub
    BY <1>3, <1>5, <2>1 DEF SubjectOf
  <2>3. Account!Move(r, "new", "presented", token.sub)
    BY <1>1, <1>3, <2>1, <2>2, MovesAccount
  <2>4. token.sub \in UserIds /\ token.sub \in AccountGranted
    BY <1>1, <1>5 DEF TokenType, AccountGranted
  <2>5. UNCHANGED <<AccountMembers, AccountFormer, AccountGranted, AccountServed>>
    BY <1>1, <1>3, RequestMoves, TablesMap DEF AccountGranted
  <2> QED
    BY <2>3, <2>4, <2>5 DEF Account!Present
<1> QED
  BY <1>4, <1>5

LEMMA BeginRefines ==
  ASSUME IInv, NEW r \in Requests, Begin(r)
  PROVE  [Account!Next]_(Account!vars)
<1>1. KnownUsers \subseteq UserIds
  <2>1. \A i \in DOMAIN inserted : inserted[i] \in Row
    BY DEF IInv, TypeOK
  <2> QED
    BY <2>1 DEF KnownUsers, Row
<1>2. CASE RefuseRequest(r)
  <2>1. PICK reply \in {"forbidden", "invalid parameter"} : Answer(r, reply)
    BY <1>2 DEF RefuseRequest
  <2>2. requests[r].pc = "idle" /\ UNCHANGED <<inserted, deleted, tokens>>
    BY <1>2 DEF RefuseRequest
  <2>3. Account!End(r)
    BY <2>1, <2>2, EndRefines DEF Replies
  <2> QED
    BY <2>3 DEF Account!Next
<1>3. ASSUME NEW form \in Forms, Arrive(r, "signin", "account", NoToken, form, Nobody)
      PROVE  [Account!Next]_(Account!vars)
  BY <1>3, ArriveRefines DEF Account!Next
<1>4. ASSUME NEW token \in tokens, NEW form \in Forms,
             Arrive(r, "add", "token", token, form, Nobody)
      PROVE  [Account!Next]_(Account!vars)
  BY <1>4, ArriveRefines DEF Account!Next
<1>5. ASSUME NEW token \in tokens, NEW uid \in KnownUsers,
             Arrive(r, "delete", "token", token, NoForm, uid)
      PROVE  [Account!Next]_(Account!vars)
  BY <1>1, <1>5, ArriveRefines DEF Account!Next
<1>6. ASSUME NEW token \in tokens, Arrive(r, "use", "token", token, NoForm, Nobody)
      PROVE  [Account!Next]_(Account!vars)
  BY <1>6, ArriveRefines DEF Account!Next
<1> QED
  BY <1>2, <1>3, <1>4, <1>5, <1>6 DEF Begin

LEMMA FindAccountRefines ==
  ASSUME IInv, NEW r \in Requests, FindAccount(r)
  PROVE  Account!Next
<1>1. /\ requests[r] \in RequestType /\ requests[r].pc = "account"
      /\ inserted \in Seq(Row) /\ UNCHANGED <<inserted, deleted, tokens>>
  BY DEF FindAccount, IInv, TypeOK
<1>2. CASE Answer(r, "not found")
  BY <1>1, <1>2, EndRefines DEF Account!Next, Replies
<1>3. ASSUME NEW i \in RowsNamed(requests[r].form.name),
             requests' = [requests EXCEPT ![r].pc = "sign", ![r].row = i]
      PROVE  Account!Next
  <2>1. i \in DOMAIN inserted /\ i \in Nat /\ inserted[i].uid \in UserIds /\ Live(i)
    <3>1. i \in DOMAIN inserted /\ Live(i)
      BY DEF RowsNamed
    <3>2. i \in Nat /\ inserted[i] \in Row
      BY <1>1, <3>1
    <3> QED
      BY <3>1, <3>2 DEF Row
  <2>2. PICK q : q = [requests[r] EXCEPT !.pc = "sign", !.row = i]
    OBVIOUS
  <2>3. /\ q \in RequestType /\ q.pc = "sign" /\ q.row = i /\ q.reply = requests[r].reply
        /\ requests' = [requests EXCEPT ![r] = q]
    BY <1>1, <1>3, <2>1, <2>2 DEF RequestType, Waiting
  <2>4. StageOf(requests[r]) = "new" /\ StageOf(q) = "identified"
    BY <1>1, <2>3, StagesOfSteps
  <2>5. SubjectOf(q)' = inserted[i].uid
    BY <1>1, <2>3 DEF SubjectOf
  <2>6. Account!Move(r, "new", "identified", inserted[i].uid)
    BY <1>1, <2>3, <2>4, <2>5, MovesAccount
  <2>7. inserted[i].uid \in AccountMembers
    BY <2>1 DEF AccountMembers, RowsOfUser
  <2>8. UNCHANGED <<AccountMembers, AccountFormer, AccountGranted, AccountServed>>
    BY <1>1, <2>3, RequestMoves, TablesMap DEF AccountGranted
  <2>9. Account!Identify(r, inserted[i].uid)
    BY <2>6, <2>7, <2>8 DEF Account!Identify
  <2> QED
    BY <2>1, <2>9 DEF Account!Next
<1> QED
  BY <1>2, <1>3 DEF FindAccount

LEMMA SignTokenRefines ==
  ASSUME IInv, NEW r \in Requests, SignToken(r)
  PROVE  Account!Next
<1>1. /\ requests[r] \in RequestType /\ requests[r].pc = "sign"
      /\ requests[r].reply = "none" /\ UNCHANGED <<inserted, deleted>>
  BY DEF SignToken, IInv, TypeOK, RequestFits, ProgressFits
<1>2. CASE UNCHANGED tokens /\ Answer(r, "internal")
  BY <1>1, <1>2, EndRefines DEF Account!Next, Replies
<1>3. CASE tokens' = tokens \cup {TokenFor(inserted[requests[r].row], clock)}
           /\ Answer(r, "token")
  <2>1. PICK q : q = [requests[r] EXCEPT !.pc = "done", !.reply = "token"]
    OBVIOUS
  <2>2. /\ q \in RequestType /\ q.pc = "done" /\ q.reply = "token"
        /\ requests' = [requests EXCEPT ![r] = q]
    BY <1>1, <1>3, <2>1 DEF RequestType, Replies, Answer
  <2>3. StageOf(requests[r]) = "identified" /\ StageOf(q) = "over"
    BY <1>1, <2>2, StagesOfSteps
  <2>4. SubjectOf(q)' = Nobody
    BY <2>2, <2>3 DEF SubjectOf
  <2>5. Account!Move(r, "identified", "over", Nobody)
    BY <1>1, <2>2, <2>3, <2>4, MovesAccount
  <2>6. AccountSubject[r] = inserted[requests[r].row].uid
    BY <1>1, SubjectsOfSteps DEF AccountSubject
  <2>7. AccountGranted' = AccountGranted \cup {AccountSubject[r]}
    <3>1. PICK t : t = TokenFor(inserted[requests[r].row], clock)
      OBVIOUS
    <3>2. tokens' = tokens \cup {t} /\ t.sub = AccountSubject[r]
      BY <1>3, <2>6, <3>1 DEF TokenFor
    <3> QED
      BY <3>2 DEF AccountGranted
  <2>8. UNCHANGED <<AccountMembers, AccountFormer, AccountServed>>
    BY <1>1, <2>2, RequestMoves, TablesMap
  <2>9. Account!Grant(r)
    BY <2>5, <2>7, <2>8 DEF Account!Grant
  <2> QED
    BY <2>9 DEF Account!Next
<1> QED
  BY <1>2, <1>3 DEF SignToken

LEMMA LoadCallerRefines ==
  ASSUME IInv, NEW r \in Requests, LoadCaller(r)
  PROVE  Account!Next
<1>1. /\ requests[r] \in RequestType /\ requests[r].pc = "caller"
      /\ requests[r].reply = "none" /\ UNCHANGED <<inserted, deleted, tokens>>
  BY DEF LoadCaller, IInv, TypeOK, RequestFits, ProgressFits
<1>2. CASE \E reply \in {"not found", "forbidden", "invalid parameter"} : Answer(r, reply)
  BY <1>1, <1>2, EndRefines DEF Account!Next, Replies
<1>3. CASE IntrospectAccepts(requests[r].token) /\ Admit(r)
  <2>1. /\ AccountSubject[r] = requests[r].token.sub
        /\ StageOf(requests[r]) = "presented"
    BY <1>1, StagesOfSteps, SubjectsOfSteps DEF AccountSubject
  <2>2. AccountSubject[r] \in AccountMembers
    <3>1. PICK i \in RowsOfUser(requests[r].token.sub) : TRUE
      BY <1>3 DEF IntrospectAccepts
    <3>2. i \in DOMAIN inserted /\ inserted[i].uid = requests[r].token.sub
      BY DEF RowsOfUser
    <3>3. inserted[i] \in Row
      BY <3>2 DEF IInv, TypeOK
    <3> QED
      BY <2>1, <3>1, <3>2, <3>3 DEF Row, AccountMembers
  <2>3. CASE Answer(r, "served")
    <3>1. PICK q : q = [requests[r] EXCEPT !.pc = "done", !.reply = "served"]
      OBVIOUS
    <3>2. /\ q \in RequestType /\ q.pc = "done" /\ q.reply = "served"
          /\ requests' = [requests EXCEPT ![r] = q]
      BY <1>1, <2>3, <3>1 DEF RequestType, Replies, Answer
    <3>3. StageOf(q) = "over"
      BY <3>2, StagesOfSteps
    <3>4. SubjectOf(q)' = Nobody
      BY <3>2, <3>3 DEF SubjectOf
    <3>5. Account!Move(r, "presented", "over", Nobody)
      BY <1>1, <2>1, <3>2, <3>3, <3>4, MovesAccount
    <3>6. /\ AccountServed' = AccountServed \cup {r}
          /\ UNCHANGED <<AccountMembers, AccountFormer, AccountGranted>>
      BY <1>1, <3>2, RequestMoves, TablesMap DEF AccountGranted
    <3>7. Account!Serve(r)
      BY <2>2, <3>5, <3>6 DEF Account!Serve
    <3> QED
      BY <3>7 DEF Account!Next
  <2>4. ASSUME NEW pc \in {"remove", "lookup"}, Goto(r, pc) PROVE Account!Next
    <3>1. PICK q : q = [requests[r] EXCEPT !.pc = pc]
      OBVIOUS
    <3>2. /\ q \in RequestType /\ q.pc \in Admitted /\ q.reply = requests[r].reply
          /\ q.token = requests[r].token /\ requests' = [requests EXCEPT ![r] = q]
      BY <1>1, <2>4, <3>1 DEF RequestType, Waiting, Calling, Goto, Admitted
    <3>3. StageOf(q) = "admitted"
      BY <3>2, StagesOfSteps
    <3>4. SubjectOf(q)' = AccountSubject[r]
      <4>1. q.pc # "sign"
        BY <3>2 DEF Admitted
      <4> QED
        BY <2>1, <3>2, <3>3, <4>1 DEF SubjectOf
    <3>5. Account!Move(r, "presented", "admitted", AccountSubject[r])
      BY <1>1, <2>1, <3>2, <3>3, <3>4, MovesAccount
    <3>6. UNCHANGED <<AccountServed, AccountMembers, AccountFormer, AccountGranted>>
      BY <1>1, <3>2, RequestMoves, TablesMap DEF AccountGranted
    <3>7. Account!Admit(r)
      BY <2>2, <3>5, <3>6 DEF Account!Admit
    <3> QED
      BY <3>7 DEF Account!Next
  <2> QED
    BY <1>2, <1>3, <2>3, <2>4 DEF Admit
<1> QED
  BY <1>2, <1>3 DEF LoadCaller, Refusal

\* The row of a new user is the only one with its uid, which nobody had removed.
LEMMA CommitUserRefines ==
  ASSUME IInv, NEW r \in Requests, CommitUser(r)
  PROVE  Account!Next
<1>1. /\ requests[r] \in RequestType /\ requests[r].pc = "insert"
      /\ requests[r].reply = "none" /\ requests[r].form \in Forms
      /\ inserted \in Seq(Row) /\ UNCHANGED <<deleted, tokens>>
  BY DEF CommitUser, IInv, TypeOK, RequestFits, ProgressFits
<1>2. PICK row : row = [uid |-> r, name |-> requests[r].form.name,
                        password |-> requests[r].form.password,
                        rights |-> requests[r].form.rights]
  OBVIOUS
<1>3. row \in Row /\ row.uid = r /\ inserted' = Append(inserted, row)
  BY <1>1, <1>2, AuthAssumption DEF CommitUser, Row, UserIds
<1>n. PICK n : n = Len(inserted)
  OBVIOUS
<1>4. /\ n \in Nat /\ DOMAIN inserted = 1 .. n /\ DOMAIN inserted' = 1 .. n + 1
      /\ \A i \in DOMAIN inserted : i \in DOMAIN inserted' /\ inserted'[i] = inserted[i]
      /\ inserted'[n + 1] = row
  BY <1>n, <1>1, <1>3
<1>5. /\ \A i \in DOMAIN inserted : inserted[i].uid # r
      /\ ~Removed(r)
  <2>1. AddedBy(r) = {}
    BY <1>1, NoEffectInFlight
  <2>2. r \in UserIds
    BY DEF UserIds
  <2> QED
    BY <2>1, <2>2 DEF AddedBy, IInv, TableFits, Removed
<1>6. \A uid : Removed(uid)' <=> Removed(uid)
  BY <1>1 DEF Removed
<1>7. ASSUME NEW uid \in UserIds
      PROVE  RowsOfUser(uid)' = RowsOfUser(uid) \cup (IF uid = r THEN {n + 1} ELSE {})
  <2>1. \A i \in 1 .. n : Live(i)' <=> Live(i)
    BY <1>4, <1>6 DEF Live
  <2>2. Live(n + 1)'
    <3>1. inserted'[n + 1].uid = r
      BY <1>3, <1>4
    <3>2. Live(n + 1)' <=> ~\E q \in Requests : <<inserted'[n + 1].uid, q>> \in deleted'
      BY DEF Live, Removed
    <3>3. Live(n + 1)' <=> ~\E q \in Requests : <<r, q>> \in deleted
      BY <1>1, <3>1, <3>2
    <3> QED
      BY <1>5, <3>3 DEF Removed
  <2>3. RowsOfUser(uid)' = {i \in 1 .. n + 1 : inserted'[i].uid = uid /\ Live(i)'}
    BY <1>4 DEF RowsOfUser
  <2>4. \A i \in 1 .. n + 1 : i \in RowsOfUser(uid)' <=>
          i \in RowsOfUser(uid) \/ i \in (IF uid = r THEN {n + 1} ELSE {})
    <3>1. \A i \in 1 .. n : i \in RowsOfUser(uid)' <=> i \in RowsOfUser(uid)
      BY <1>4, <2>1, <2>3 DEF RowsOfUser
    <3>2. n + 1 \in RowsOfUser(uid)' <=> uid = r
      BY <1>3, <1>4, <2>2, <2>3
    <3>3. \A i \in 1 .. n : i # n + 1
      BY <1>4
    <3>4. n + 1 \notin RowsOfUser(uid)
      BY <1>4, <3>3 DEF RowsOfUser
    <3> QED
      BY <1>4, <3>1, <3>2, <3>3, <3>4
  <2> QED
    BY <1>4, <2>3, <2>4 DEF RowsOfUser
<1>8. AccountMembers' = AccountMembers \cup {r} /\ UNCHANGED AccountFormer
  <2>1. r \in UserIds
    BY DEF UserIds
  <2>2. AccountMembers' = AccountMembers \cup {r}
    BY <1>7, <2>1 DEF AccountMembers
  <2> QED
    BY <1>6, <2>2 DEF AccountFormer
<1>9. r \notin AccountMembers \cup AccountFormer
  BY <1>5 DEF AccountMembers, AccountFormer, RowsOfUser
<1>10. PICK reply \in {"created", "internal"} : Answer(r, reply)
  BY DEF CommitUser
<1>11. PICK q : q = [requests[r] EXCEPT !.pc = "done", !.reply = reply]
  OBVIOUS
<1>12. /\ q \in RequestType /\ q.pc = "done" /\ q.reply = reply
       /\ requests' = [requests EXCEPT ![r] = q]
  BY <1>1, <1>10, <1>11 DEF RequestType, Replies, Answer
<1>13. StageOf(requests[r]) = "admitted" /\ StageOf(q) = "over"
  BY <1>1, <1>12, StagesOfSteps DEF Admitted
<1>14. SubjectOf(q)' = Nobody
  BY <1>12, <1>13 DEF SubjectOf
<1>15. Account!Move(r, "admitted", "over", Nobody)
  BY <1>4, <1>12, <1>13, <1>14, MovesAccount
<1>16. UNCHANGED <<AccountGranted, AccountServed>>
  BY <1>1, <1>4, <1>12, RequestMoves DEF AccountGranted
<1>17. Account!Add(r)
  BY <1>8, <1>9, <1>15, <1>16 DEF Account!Add
<1> QED
  BY <1>17 DEF Account!Next

LEMMA RemoveUserRefines ==
  ASSUME IInv, NEW r \in Requests, RemoveUser(r)
  PROVE  Account!Next
<1> DEFINE u == requests[r].target
<1>1. /\ requests[r] \in RequestType /\ requests[r].pc = "remove"
      /\ requests[r].reply = "none" /\ u \in UserIds /\ UNCHANGED <<inserted, tokens>>
  BY DEF RemoveUser, IInv, TypeOK, RequestFits, ProgressFits
<1>2. CASE UNCHANGED deleted /\ Answer(r, "not found")
  BY <1>1, <1>2, EndRefines DEF Account!Next, Replies
<1>3. ASSUME RowsOfUser(u) # {}, deleted' = deleted \cup {<<u, r>>},
             NEW reply \in {"deleted", "internal"}, Answer(r, reply)
      PROVE  Account!Next
  <2>1. \A uid : Removed(uid)' <=> Removed(uid) \/ uid = u
    BY <1>3 DEF Removed
  <2>2. \A uid : RowsOfUser(uid)' = IF uid = u THEN {} ELSE RowsOfUser(uid)
    BY <1>1, <2>1 DEF RowsOfUser, Live
  <2>3. /\ u \in AccountMembers
        /\ AccountMembers' = AccountMembers \ {u}
        /\ AccountFormer' = AccountFormer \cup {u}
    BY <1>1, <1>3, <2>1, <2>2 DEF AccountMembers, AccountFormer
  <2>4. PICK q : q = [requests[r] EXCEPT !.pc = "done", !.reply = reply]
    OBVIOUS
  <2>5. /\ q \in RequestType /\ q.pc = "done" /\ q.reply = reply
        /\ requests' = [requests EXCEPT ![r] = q]
    BY <1>1, <1>3, <2>4 DEF RequestType, Replies, Answer
  <2>6. StageOf(requests[r]) = "admitted" /\ StageOf(q) = "over"
    BY <1>1, <2>5, StagesOfSteps DEF Admitted
  <2>7. SubjectOf(q)' = Nobody
    BY <2>5, <2>6 DEF SubjectOf
  <2>8. Account!Move(r, "admitted", "over", Nobody)
    BY <1>1, <2>5, <2>6, <2>7, MovesAccount
  <2>9. UNCHANGED <<AccountGranted, AccountServed>>
    BY <1>1, <2>5, RequestMoves DEF AccountGranted
  <2>10. Account!Remove(r, u)
    BY <2>3, <2>8, <2>9 DEF Account!Remove
  <2> QED
    BY <1>1, <2>10 DEF Account!Next
<1> QED
  BY <1>2, <1>3 DEF RemoveUser

\* The remaining steps of a request either end it, or go on where it is.
LEMMA QuietRefines ==
  ASSUME IInv, NEW r \in Requests,
         \/ VerifyToken(r) \/ LookUpName(r) \/ CheckTaken(r)
         \/ BeginFails(r) \/ CallFails(r)
  PROVE  [Account!Next]_(Account!vars)
<1>1. /\ UNCHANGED <<inserted, deleted, tokens>>
      /\ requests[r].pc # "done" /\ requests[r] \in RequestType
  BY DEF VerifyToken, LookUpName, CheckTaken, BeginFails, CallFails, Calling, IInv, TypeOK
<1>2. CASE \E reply \in {"internal", "forbidden", "conflict", "aborted"} : Answer(r, reply)
  BY <1>1, <1>2, EndRefines DEF Account!Next, Replies
<1>3. CASE \/ requests[r].pc = "token" /\ Goto(r, "caller")
           \/ requests[r].pc = "lookup" /\ Goto(r, "check")
  BY <1>1, <1>3, GotoRefines DEF Admitted
<1>4. CASE /\ requests[r].pc = "check"
           /\ requests' = [requests EXCEPT ![r].pc = "insert", ![r].checked = Len(inserted)]
  <2>1. Len(inserted) \in Nat
    BY DEF IInv, TypeOK
  <2>2. PICK q : q = [requests[r] EXCEPT !.pc = "insert", !.checked = Len(inserted)]
    OBVIOUS
  <2>3. /\ q \in RequestType /\ q.pc = "insert" /\ q.reply = requests[r].reply
        /\ q.token = requests[r].token /\ requests' = [requests EXCEPT ![r] = q]
    BY <1>1, <1>4, <2>1, <2>2 DEF RequestType, Waiting, Calling
  <2>4. StageOf(q) = StageOf(requests[r]) /\ SubjectOf(q) = SubjectOf(requests[r])
    BY <1>4, <2>3, StagesOfSteps, SubjectsOfSteps DEF Admitted
  <2> QED
    BY <1>1, <2>3, <2>4, StayRefines
<1> QED
  BY <1>2, <1>3, <1>4
     DEF VerifyToken, LookUpName, CheckTaken, BeginFails, CallFails, Refusal

LEMMA NextRefines ==
  IInv /\ [Next]_vars => [Account!Next]_(Account!vars)
<1> SUFFICES ASSUME IInv, [Next]_vars PROVE [Account!Next]_(Account!vars)
  OBVIOUS
<1>1. CASE Tick \/ UNCHANGED vars
  <2>1. UNCHANGED <<inserted, deleted, tokens, requests>>
    BY <1>1 DEF Tick, vars
  <2>2. UNCHANGED <<AccountStage, AccountSubject>>
    BY <2>1 DEF AccountStage, AccountSubject, StageOf, SubjectOf
  <2> QED
    BY <2>1, <2>2, TablesMap DEF AccountGranted, AccountServed, Account!vars
<1>2. ASSUME NEW r \in Requests, Begin(r) PROVE [Account!Next]_(Account!vars)
  BY <1>2, BeginRefines
<1>3. ASSUME NEW r \in Requests, Serve(r) PROVE [Account!Next]_(Account!vars)
  BY <1>3, FindAccountRefines, SignTokenRefines, LoadCallerRefines, CommitUserRefines,
     RemoveUserRefines, QuietRefines DEF Serve
<1> QED
  BY <1>1, <1>2, <1>3 DEF Next

\* auth implements Accounts, for any number of requests, users and tokens: who is
\* signed in, let in or served has a row at one moment of the request, and users
\* come once and leave for ever.
THEOREM AuthImplementsAccounts == Spec => ImplementsAccounts
<1>1. Init => Account!Init
  BY InitRefines
<1>2. IInv /\ [Next]_vars => [Account!Next]_(Account!vars)
  BY NextRefines
<1> QED
  BY <1>1, <1>2, InductiveInvariant, PTL DEF Spec, ImplementsAccounts, Account!Spec
=============================================================================
