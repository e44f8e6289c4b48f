---------------------------- MODULE ServiceProcess ----------------------------
(***************************************************************************)
(* The process of a service around its requests: the start of its servers, *)
(* signals that arrive at any moment of it, and the graceful shutdown, in  *)
(* which the application and the public server itself both stop the        *)
(* latter.  The question service has a public server, the auth service a   *)
(* private one besides, which answers Introspect over the same pool.       *)
(* Sources: pkg/application and internal/port of both services.            *)
(*                                                                         *)
(* External: net/http, whose Shutdown closes the listener, also of a       *)
(* server that does not listen yet, and waits for the requests it has; and *)
(* grpc, whose Stop waits for nothing: it ends Serve, closes the           *)
(* connections and cancels the contexts of the calls it has, while their   *)
(* handlers go on until they notice.                                       *)
(***************************************************************************)
EXTENDS ConnectionPool

CONSTANTS
  MaxSignals   \* bound: signals the process is sent

ASSUME ProcessAssumption == MaxSignals \in Nat

VARIABLES
  app,        \* startWithGracefulShutdown and shutdown
  public,     \* the goroutine of the public server's Start
  private,    \* that of the private one, which only the auth service has
  listener,   \* the public server's
  signals,    \* signals sent
  notices,    \* the channels a signal waits in: the application's, the server's
  passed,     \* the deadlines that have passed
  cut         \* Introspect calls whose connection was closed unanswered

pool == <<idle, requests>>
process == <<app, public, private, listener, signals, notices, passed, cut>>
vars == <<idle, requests, app, public, private, listener, signals, notices, passed, cut>>

Alive == app \notin {"graceful", "forced", "crashed"}

\* The requests in flight, by the server they came to.
OverGrpc == {r \in InFlight : requests[r].kind = "rpc"}
OverHttp == InFlight \ OverGrpc

-----------------------------------------------------------------------------
(* The world.                                                               *)

\* The application is subscribed from the beginning, the server as of Subscribe.
Signal ==
  /\ signals < MaxSignals
  /\ signals' = signals + 1
  /\ notices' = {"app"} \cup (IF public \in {"starting", "built"} THEN notices
                              ELSE notices \cup {"public"})
  /\ UNCHANGED <<pool, app, public, private, listener, passed, cut>>

(* shutdown takes its deadline before it calls Stop, which takes one as     *)
(* long.                                                                    *)
DeadlinePasses ==
  /\ \/ /\ app \notin {"running"}
        /\ passed' = passed \cup {"shutdown"}
     \/ /\ app = "draining" /\ "shutdown" \in passed
        /\ passed' = passed \cup {"stop"}
     \/ /\ public = "stopping"
        /\ passed' = passed \cup {"public"}
  /\ passed' # passed
  /\ UNCHANGED <<pool, app, public, private, listener, signals, notices, cut>>

-----------------------------------------------------------------------------
(* The public server's Start.                                               *)

BuildServer ==
  /\ public = "starting"
  /\ public' = "built"
  /\ UNCHANGED <<pool, app, private, listener, signals, notices, passed, cut>>

Subscribe ==
  /\ public = "built"
  /\ public' = "subscribed"
  /\ UNCHANGED <<pool, app, private, listener, signals, notices, passed, cut>>

(* ListenAndServe in its goroutine; a failure is logged and nothing more.   *)
Listen ==
  /\ public \notin {"starting", "built"}
  /\ listener = "none"
  /\ listener' \in {"open", "failed"}
  /\ UNCHANGED <<pool, app, public, private, signals, notices, passed, cut>>

ServerStops ==
  /\ public = "subscribed" /\ "public" \in notices
  /\ public' = "stopping"
  /\ listener' = "closed"
  /\ notices' = notices \ {"public"}
  /\ UNCHANGED <<pool, app, private, signals, passed, cut>>

(* Shutdown returns, with an error if the deadline came first.              *)
ServerReturns ==
  /\ public = "stopping"
  /\ OverHttp = {} \/ "public" \in passed
  /\ public' = "returned"
  /\ UNCHANGED <<pool, app, private, listener, signals, notices, passed, cut>>

(* The private server's StartServer, whose Listen may fail, and Serve,      *)
(* which returns after Stop.                                                *)
ServePrivate ==
  /\ private = "starting"
  /\ private' \in {"serving", "returned"}
  /\ UNCHANGED <<pool, app, public, listener, signals, notices, passed, cut>>

PrivateReturns ==
  /\ private = "stopped"
  /\ private' = "returned"
  /\ UNCHANGED <<pool, app, public, listener, signals, notices, passed, cut>>

-----------------------------------------------------------------------------
(* The application.                                                         *)

BeginShutdown ==
  /\ app = "running" /\ "app" \in notices
  /\ app' = "stop_private"
  /\ notices' = notices \ {"app"}
  /\ UNCHANGED <<pool, public, private, listener, signals, passed, cut>>

(* App.Stop cancels the context; no signal is sent.                         *)
CancelApp ==
  /\ app = "running"
  /\ app' = "stop_private"
  /\ UNCHANGED <<pool, public, private, listener, signals, notices, passed, cut>>

(* grpc's Stop, not GracefulStop: no call is waited for.                     *)
StopPrivate ==
  /\ app = "stop_private"
  /\ app' = "stop_public"
  /\ private' = IF private \in {"starting", "serving"} THEN "stopped" ELSE private
  /\ cut' = cut \cup OverGrpc
  /\ requests' = [r \in Requests |-> [requests[r] EXCEPT !.expired = @ \/ r \in OverGrpc]]
  /\ UNCHANGED <<idle, public, listener, signals, notices, passed>>

\* A slip: the public server is left to stop by itself.
LeavePublic ==
  /\ app = "stop_public"
  /\ app' = "waiting"
  /\ UNCHANGED <<pool, public, private, listener, signals, notices, passed, cut>>

(* Stop of a server that Start has not built yet is a nil dereference.      *)
StopPublic ==
  /\ app = "stop_public"
  /\ IF public = "starting"
       THEN app' = "crashed" /\ UNCHANGED listener
       ELSE app' = "draining" /\ listener' = "closed"
  /\ UNCHANGED <<pool, public, private, signals, notices, passed, cut>>

StopReturns ==
  /\ app = "draining"
  /\ OverHttp = {} \/ "stop" \in passed
  /\ app' = "waiting"
  /\ UNCHANGED <<pool, public, private, listener, signals, notices, passed, cut>>

ServersReturned == public = "returned" /\ private \in {"absent", "returned"}

\* A slip: the wait group without the deadline.
AwaitServers ==
  /\ app = "waiting"
  /\ ServersReturned /\ app' = "graceful"
  /\ UNCHANGED <<pool, public, private, listener, signals, notices, passed, cut>>

(* The select at the end of shutdown, after which main returns.             *)
AwaitServersOrDeadline ==
  /\ app = "waiting"
  /\ \/ ServersReturned /\ app' = "graceful"
     \/ "shutdown" \in passed /\ app' = "forced"
  /\ UNCHANGED <<pool, public, private, listener, signals, notices, passed, cut>>

-----------------------------------------------------------------------------

Start == BuildServer \/ Subscribe \/ Listen \/ ServePrivate

Shutdown ==
  \/ ServerStops \/ ServerReturns \/ PrivateReturns
  \/ BeginShutdown \/ StopPrivate \/ StopPublic \/ StopReturns
  \/ AwaitServersOrDeadline

AcceptRequest(r) ==
  /\ listener = "open"
  /\ Arrive(r)
  /\ private # "absent" => requests'[r].kind = "call"
  /\ UNCHANGED process

AcceptCall(r) ==
  /\ private = "serving"
  /\ ArriveCall(r)
  /\ UNCHANGED process

Init ==
  /\ PoolInit
  /\ app = "running"
  /\ public = "starting"
  /\ private \in {"absent", "starting"}
  /\ listener = "none"
  /\ signals = 0
  /\ notices = {}
  /\ passed = {}
  /\ cut = {}

ServeRequest(r) == Progress(r) /\ UNCHANGED process

RequestExpires(r) == Expire(r) /\ UNCHANGED process

Next ==
  /\ Alive
  /\ \/ \E r \in Requests : AcceptRequest(r) \/ AcceptCall(r)
     \/ \E r \in Requests : ServeRequest(r) \/ RequestExpires(r)
     \/ Start \/ Shutdown
     \/ Signal \/ CancelApp \/ DeadlinePasses

Spec == Init /\ [][Next]_vars

(* Goroutines run, timers fire, and a query ends: its context breaks it off.*)
Fairness ==
  /\ \A r \in Requests : WF_vars(Alive /\ ServeRequest(r)) /\ WF_vars(Alive /\ RequestExpires(r))
  /\ WF_vars(Alive /\ Start) /\ WF_vars(Alive /\ DeadlinePasses)
  /\ WF_vars(Alive /\ BeginShutdown) /\ WF_vars(Alive /\ StopPrivate)
  /\ WF_vars(Alive /\ StopPublic) /\ WF_vars(Alive /\ StopReturns)
  /\ WF_vars(Alive /\ AwaitServersOrDeadline)

FairSpec == Spec /\ Fairness

-----------------------------------------------------------------------------
(* Types.                                                                  *)

TypeOK ==
  /\ PoolTypeOK
  /\ app \in {"running", "stop_private", "stop_public", "draining", "waiting",
              "graceful", "forced", "crashed"}
  /\ public \in {"starting", "built", "subscribed", "stopping", "returned"}
  /\ private \in {"absent", "starting", "serving", "stopped", "returned"}
  /\ listener \in {"none", "open", "failed", "closed"}
  /\ signals \in 0 .. MaxSignals
  /\ notices \subseteq {"app", "public"}
  /\ passed \subseteq {"shutdown", "stop", "public"}
  /\ cut \subseteq Requests

-----------------------------------------------------------------------------
(* Properties.                                                             *)

\* What the process leaves unanswered before the two seconds of its shutdown are
\* over: never a request to the public server, because one of its two Stops was
\* done first; only Introspect calls, which the private server's Stop broke off,
\* and which a shutdown that calls itself graceful does not wait for.
CutOnlyByDeadline ==
  ~Alive /\ "shutdown" \notin passed =>
    \A r \in InFlight \cup cut : r \in cut /\ requests[r].kind = "rpc"

(* The inductive invariant behind these properties.                         *)

\* How many connections a request holds, by the step it is at; only a list asks
\* for a second one while it keeps the first.
ConnectionsFit(q) ==
  /\ q.pc \in {"idle", "call"} => q.conns = 0
  /\ q.pc \in {"use", "rows", "row_call", "row_read"} => q.conns = 1
  /\ q.pc = "row_use" => q.conns = 2
  /\ q.pc = "use" => q.kind # "list" /\ q.left > 0
  /\ q.pc \in {"rows", "row_call", "row_use", "row_read"} => q.kind = "list"

\* The public server takes no request before it listens nor once the application
\* has stopped it, and the application goes on only when there is none left or
\* the deadline is over.  The private one takes no call before it serves nor once
\* it is stopped, which comes first; those it had are cut.
RequestsFitServer ==
  /\ public = "starting" => listener = "none"
  /\ listener = "none" => OverHttp = {}
  /\ app \in {"draining", "waiting", "graceful", "forced"} => listener = "closed"
  /\ "stop" \in passed => "shutdown" \in passed
  /\ app \in {"waiting", "graceful"} => OverHttp = {} \/ "shutdown" \in passed
  /\ app = "forced" => "shutdown" \in passed
  /\ app = "crashed" => listener = "none"
  /\ private # "serving" => OverGrpc \subseteq cut
  /\ app \notin {"running", "stop_private"} => private \notin {"starting", "serving"}
  /\ \A r \in cut : requests[r].kind = "rpc" /\ requests[r].pc # "idle"

\* With it PoolIsKept becomes inductive; OnlyListsExhaustPool and
\* CutOnlyByDeadline follow.
IInv ==
  /\ TypeOK
  /\ PoolIsKept
  /\ \A r \in Requests : ConnectionsFit(requests[r])
  /\ RequestsFitServer

\* Every request is answered in the end, also when lists hold all connections
\* and wait for one more: the timeout of the request breaks the deadlock.
RequestsEnd ==
  \A r \in Requests : r \in InFlight ~> r \notin InFlight \/ ~Alive

\* A signal ends the process, whenever it comes: also when the public server was
\* not subscribed yet and will wait for ever, and when a request never ends.
SignalEndsProcess == signals > 0 ~> ~Alive

Advances(r) ==
  /\ r \in InFlight /\ requests'[r].pc # requests[r].pc =>
       StepsLeft(requests'[r]) < StepsLeft(requests[r])
  /\ requests[r].pc = "done" => requests'[r] = requests[r]

\* Every step of a request brings it nearer to its end, however requests wait
\* for each other's connections and calls fail: nothing is tried again, so only
\* waiting can keep a request from ending.  An answered request has ended: it is
\* not answered again, and a connection that a broken list took with it never
\* comes back.
RequestsAdvance == [][\A r \in Requests : Advances(r)]_vars
=============================================================================
