---------------------------- MODULE ConnectionPool ----------------------------
(***************************************************************************)
(* Requests that share the connections of one pgxpool.  Most calls of the  *)
(* storage take a connection and give it back before they return; the list *)
(* of completed sessions keeps one for its rows while it asks for a second *)
(* with every row, and keeps it for ever when it returns from the middle   *)
(* of its rows.  Sources: question/internal/adapter/storage/postgres, the  *)
(* timeout of question/internal/port/http/public, and the two ports of     *)
(* auth/internal/port.                                                     *)
(*                                                                         *)
(* External: pgxpool, whose Acquire waits until a connection is idle or    *)
(* the context is over, and pgx, which gives a connection back when its    *)
(* rows are closed, read to their end, or could not be scanned.            *)
(***************************************************************************)
EXTENDS Integers, FiniteSets

CONSTANTS
  Requests,
  MaxConns,   \* the size of the pool
  MaxCalls,   \* bound: calls of the storage one HTTP request makes
  MaxRows     \* bound: rows of a list

ASSUME PoolAssumption ==
  /\ IsFiniteSet(Requests)
  /\ MaxConns \in Nat \ {0}
  /\ MaxCalls \in Nat \ {0}
  /\ MaxRows \in Nat

VARIABLES
  idle,      \* connections nobody holds
  requests   \* request -> where it is, and the connections it holds

-----------------------------------------------------------------------------

NewRequest ==
  [kind |-> "call", pc |-> "idle", left |-> 0, conns |-> 0, expired |-> FALSE,
   reply |-> "none"]

InFlight == {r \in Requests : requests[r].pc \notin {"idle", "done"}}

Goto(r, pc) == requests' = [requests EXCEPT ![r].pc = pc]

(* The request takes a connection: the pool has one, and there is still time.*)
Acquire(r, pc) ==
  /\ idle > 0 /\ ~requests[r].expired
  /\ idle' = idle - 1
  /\ requests' = [requests EXCEPT ![r].pc = pc, ![r].conns = @ + 1]

(* The request is answered, and has given back all but kept connections.    *)
Answer(r, reply, kept) ==
  /\ idle' = idle + requests[r].conns - kept
  /\ requests' = [requests EXCEPT ![r] =
       [NewRequest EXCEPT !.kind = requests[r].kind, !.pc = "done",
                          !.conns = kept, !.reply = reply]]

(* timeoutMiddleware: the context of a request is over after a time.  That  *)
(* of Introspect carries the time of the request it is called for.          *)
Expire(r) ==
  /\ r \in InFlight /\ ~requests[r].expired
  /\ requests' = [requests EXCEPT ![r].expired = TRUE]
  /\ UNCHANGED idle

(* A request to the handler of the list, or to another one, which calls the *)
(* storage a number of times.                                               *)
Arrive(r) ==
  /\ requests[r].pc = "idle"
  /\ \/ \E n \in 0 .. MaxCalls :
          requests' = [requests EXCEPT ![r].kind = "call", ![r].pc = "call",
                                       ![r].left = n]
     \/ \E n \in 0 .. MaxRows :
          requests' = [requests EXCEPT ![r].kind = "list", ![r].pc = "call",
                                       ![r].left = n]
  /\ UNCHANGED idle

(* Introspect, over gRPC: a token that is refused at once, or one whose user *)
(* is looked up.                                                            *)
ArriveCall(r) ==
  /\ requests[r].pc = "idle"
  /\ \E n \in {0, 1} :
       requests' = [requests EXCEPT ![r].kind = "rpc", ![r].pc = "call", ![r].left = n]
  /\ UNCHANGED idle

\* A slip: the second query of a list does not get the context of the request.
TimesOutBetweenCalls(r) ==
  /\ requests[r].pc = "call"
  /\ requests[r].expired
  /\ Answer(r, "error", requests[r].conns)

(* Acquire returns the error of the context that is over; the rows of a     *)
(* list stay open.                                                          *)
TimesOut(r) ==
  /\ requests[r].pc \in {"call", "row_call"}
  /\ requests[r].expired
  /\ Answer(r, "error", requests[r].conns)

-----------------------------------------------------------------------------
(* Calls that use one connection each.                                      *)

BeginCall(r) ==
  /\ requests[r].kind # "list" /\ requests[r].pc = "call" /\ requests[r].left > 0
  /\ Acquire(r, "use")

\* A slip: the row is scanned after the next call.
EndCallLate(r) ==
  /\ requests[r].pc = "use"
  /\ requests' = [requests EXCEPT ![r].pc = "call", ![r].left = @ - 1]
  /\ UNCHANGED idle

\* A slip: the rows are closed twice, and the connection given back twice.
EndCallTwice(r) ==
  /\ requests[r].pc = "use"
  /\ idle' = idle + 2
  /\ requests' = [requests EXCEPT ![r].pc = "call", ![r].left = @ - 1,
                                  ![r].conns = @ - 1]

(* Scan, Exec, or the deferred rows.Close.                                  *)
EndCall(r) ==
  /\ requests[r].pc = "use"
  /\ idle' = idle + 1
  /\ requests' = [requests EXCEPT ![r].pc = "call", ![r].left = @ - 1,
                                  ![r].conns = @ - 1]

\* A slip: a failed call is made again, as long as it fails.
CallRetried(r) ==
  /\ requests[r].pc = "use"
  /\ idle' = idle + 1
  /\ requests' = [requests EXCEPT ![r].pc = "call", ![r].conns = @ - 1]

CallFails(r) ==
  /\ requests[r].pc = "use"
  /\ Answer(r, "error", 0)

(* Every call was made, or a check between two calls refused the request.   *)
Reply(r) ==
  /\ requests[r].kind # "list" /\ requests[r].pc = "call"
  /\ \/ requests[r].left = 0 /\ Answer(r, "ok", requests[r].conns)
     \/ Answer(r, "error", requests[r].conns)

-----------------------------------------------------------------------------
(* GetAllCompletedUserSessions.                                             *)

(* The query; its connection is given back with the end of the rows.        *)
QuerySessions(r) ==
  /\ requests[r].kind = "list" /\ requests[r].pc = "call"
  /\ Acquire(r, "rows")

NextRow(r) ==
  /\ requests[r].pc = "rows" /\ requests[r].left > 0
  /\ requests' = [requests EXCEPT ![r].pc = "row_call", ![r].left = @ - 1]
  /\ UNCHANGED idle

(* rows.Scan fails and closes the rows, or they end, with or without an     *)
(* error.                                                                   *)
ScanFails(r) ==
  /\ requests[r].pc = "rows" /\ requests[r].left > 0
  /\ Answer(r, "error", 0)

EndOfRows(r) ==
  /\ requests[r].pc = "rows"
  /\ \/ requests[r].left = 0 /\ Answer(r, "ok", 0)
     \/ Answer(r, "error", 0)

\* getQuestionsByID of the row.
QueryQuestions(r) ==
  /\ requests[r].pc = "row_call"
  /\ Acquire(r, "row_use")

EndOfQuestions(r) ==
  /\ requests[r].pc = "row_use"
  /\ idle' = idle + 1
  /\ requests' = [requests EXCEPT ![r].pc = "row_read", ![r].conns = @ - 1]

\* A slip: the connection of the questions is not given back either.
QuestionsFailOpen(r) ==
  /\ requests[r].pc = "row_use"
  /\ Answer(r, "error", 2)

(* The return at 667: the questions' rows are closed, the sessions' are not.*)
QuestionsFail(r) ==
  /\ requests[r].pc = "row_use"
  /\ Answer(r, "error", 1)

ReadRow(r) == requests[r].pc = "row_read" /\ Goto(r, "rows") /\ UNCHANGED idle

(* The returns at 660, 679 and 688: a session, its answers or one of them   *)
(* cannot be made from the row.                                             *)
UnreadableRow(r) ==
  /\ requests[r].pc = "row_read"
  /\ Answer(r, "error", 1)

-----------------------------------------------------------------------------

PoolInit ==
  /\ idle = MaxConns
  /\ requests = [r \in Requests |-> NewRequest]

(* The steps of a request that has arrived; Progress are those its handler  *)
(* takes by itself, once it has the connection it waits for.                *)
Progress(r) ==
  \/ BeginCall(r) \/ EndCall(r) \/ CallFails(r) \/ Reply(r)
  \/ QuerySessions(r) \/ NextRow(r) \/ ScanFails(r) \/ EndOfRows(r)
  \/ QueryQuestions(r) \/ EndOfQuestions(r) \/ QuestionsFail(r)
  \/ ReadRow(r) \/ UnreadableRow(r)
  \/ TimesOut(r)

-----------------------------------------------------------------------------
(* Types and properties.                                                   *)

MaxLeft == IF MaxCalls > MaxRows THEN MaxCalls ELSE MaxRows

RequestType ==
  [kind : {"call", "list", "rpc"},
   pc : {"idle", "call", "use", "rows", "row_call", "row_use", "row_read", "done"},
   left : 0 .. MaxLeft,
   conns : 0 .. 2, expired : BOOLEAN, reply : {"none", "ok", "error"}]

PoolTypeOK == idle \in 0 .. MaxConns /\ requests \in [Requests -> RequestType]

\* The connections that are held: one pair for the first, one for the second of
\* a request.
Held == {h \in Requests \X {1, 2} : h[2] <= requests[h[1]].conns}

\* No connection is lost or given back twice, and the only requests that take
\* one with them are lists that broke off in the middle of their rows, which
\* take the one of their rows and not that of the questions.
PoolIsKept ==
  /\ idle + Cardinality(Held) = MaxConns
  /\ \A r \in Requests : requests[r].pc = "done" =>
       \/ requests[r].conns = 0
       \/ requests[r].kind = "list" /\ requests[r].reply = "error" /\ requests[r].conns = 1

\* The steps a request has still to take, at most: two for each call with one
\* connection, four for each row of a list.
StepsLeft(q) ==
  CASE q.pc \in {"idle", "done"} -> 0
    [] q.pc = "call" -> IF q.kind = "list" THEN 4 * q.left + 2 ELSE 2 * q.left + 1
    [] q.pc = "use" -> 2 * q.left
    [] q.pc = "rows" -> 4 * q.left + 1
    [] q.pc = "row_call" -> 4 * q.left + 4
    [] q.pc = "row_use" -> 4 * q.left + 3
    [] q.pc = "row_read" -> 4 * q.left + 2

\* The pool runs dry with nobody left to give a connection back only if lists
\* hold them all, each the one of its rows, waiting for a second one or gone:
\* requests that use one connection at a time never bring each other to a halt.
OnlyListsExhaustPool ==
  (/\ idle = 0
   /\ \A r \in InFlight : requests[r].pc \in {"call", "row_call"})
  => MaxConns <= Cardinality({r \in Requests : requests[r].kind = "list"
                                               /\ requests[r].conns > 0})
=============================================================================
