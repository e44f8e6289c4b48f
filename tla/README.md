# Erudite: models and proofs

TLA+ models of the services in this repository, the TLC configurations that
check them on small instances, and proofs of their main invariants. Paths below
are relative to the repository; `PROJECT.json` maps every definition that models
code to its lines.

## The system

| Part | State | Operations | What is hard |
|---|---|---|---|
| **question** entities | a session in memory: one of three states | `SetQuestions`, `SetUserAnswer`, `GetSessionResult` | which call is legal when, the deadline, grading |
| **question** service and storage | table `kvs.sessions`, append-only: every change of a session is a new row, the latest row is the session | `CreateSession`, `CompleteSession`, `GetAllCompletedUserSessions`, `ShowTopics` | several database calls per request with no transaction around them; failing and half-read calls |
| **question** bus decorator | one goroutine per completed session | publish the result to NATS | runs beside the reply, may fail, dies with the process |
| **question** connections | a `pgxpool` of a fixed size | acquire, release | a request that holds one connection and waits for another; rows left open |
| **question** HTTP port | per request: token claims, a context with a timeout | introspection, rights, the handlers, mapping of errors | a handler that panics cuts the reply off |
| **question**, **auth** process | servers, a wait group, two signal channels | start, graceful shutdown with a deadline | a signal before the server is there; two Stops of one server; auth's gRPC server, whose Stop waits for nothing |
| **auth** | table of users; JWTs carry their own expiry | add, delete, sign in, introspect | check-then-insert without a unique name; tokens that outlive a user |
| **notificationhub** | NATS consumer, one handler per message, a chain of notifiers | fetch, decode, look the recipient up, send, ack or nak | redelivery, stop during a handler; its `main` is empty, so it is wired nowhere yet |
| **toolkit** stream migrations | the stream and its consumer in NATS | up, down, status | a run of which one step fails, runs that overlap, an exit code that hides it |
| **toolkit**, rest | – | rights, gRPC client of auth, NATS publisher | – |

The question service asks auth over gRPC who the caller is, stores sessions in
Postgres, and publishes a finished session to a NATS stream the hub consumes.

What makes each part correct:

* entities: a method a state does not support changes nothing; a result exists
  only for a completed session, and is the share of its questions answered right.
* service: a session starts once; it is completed only after its start and for
  the same test; a completed session is not completed again by a later request;
  what clients and the broker are told is in the table; the daily limit holds for
  every request that arrives after a completion; expiry is sound.
* publishing: no event without a stored result; every goroutine ends.
* hub: a message is acknowledged only after it was delivered; after `Stop`
  returns nothing is handled.
* auth: one user per name; a token is accepted only for a user that exists and
  until it expires; a deletion is confirmed once.
* connections: none is given back twice, and none is lost but the one a list of
  completed sessions takes with it when it breaks off in its rows; requests do not
  bring each other to a halt for ever.
* process: a signal ends it, whenever it comes; requests to the public server are
  cut off only by the deadline, Introspect calls also by the private server's `Stop`.
* migrations: success means the streams are there; a run that failed can be
  repeated; events survive.

## Modules

| Module | What it is |
|---|---|
| `Grading` | constant-level: the three question types and `processingResult` |
| `AnswerSheet`, `MCAnswerSheet` | every answer list the handler can build, graded and compared with a reference definition |
| `AnswerSheetProofs` | the theorems about grading |
| `SessionState` | constant-level: the session record and the methods of its three states |
| `QuestionService`, `MCQuestionService` | requests, table, clock, publishing goroutines, failures and crashes |
| `SessionLifecycle` | the abstract promise: a session is started once, attempts begin only before the first verdict, only recorded verdicts are announced |
| `QuestionServiceProofs` | the theorems about `QuestionService` and its table |
| `QuestionServiceTimeProofs` | the theorems about the daily limit and the deadline |
| `QuestionServiceRefinement` | the proof that `QuestionService` implements `SessionLifecycle` |
| `AuthUsers`, `MCAuthUsers` | concurrent requests to auth, and the gate of the question service: sign-in, introspection, rights, adding and deleting users |
| `Accounts` | the abstract promise of auth: members join once and leave for ever, and only a present member is signed in, let in or served |
| `AuthUsersProofs` | the theorems about `AuthUsers`, and that it implements `Accounts` |
| `EventWire` | constant-level: the event as the question service marshals it and as the hub reads it |
| `NotificationHub`, `MCNotificationHub` | stream, durable consumer, handler, notifiers, stop, crash and restart |
| `EventDelivery` | the abstract promise of the hub: what may be told, when, and what counts as settled |
| `NotificationHubProofs` | the theorems about `NotificationHub`, and that it implements `EventDelivery` |
| `StreamMigrations`, `MCStreamMigrations` | overlapping runs of the migration tool, the stream, and the question service that publishes |
| `StreamMigrationsProofs` | the theorems about `StreamMigrations` |
| `ConnectionPool` | requests of the question service or of auth and the connections they hold |
| `ServiceProcess` | start and shutdown of the process around those requests |
| `ServiceProcessProofs` | the theorems about the pool and the process |

`QuestionService` extends `SessionState`, which extends `Grading`, so the results
stored and published are the graded ones. The abstract modules are instantiated in
the modules that implement them with a refinement mapping: `SessionLifecycle` in
`QuestionService`, `Accounts` in `AuthUsers`, `EventDelivery` in `NotificationHub`;
each mapping is checked by TLC and proved. `NotificationHub` extends `EventWire`,
in which both ends of the wire meet. `ServiceProcess` extends `ConnectionPool`: its
requests are the pool's, accepted by the server it starts and cut off by the
shutdown. It is checked as it is, with constants that need no module of their own.

### QuestionService and the code

| Variable | Code |
|---|---|
| `sessions` | the rows of `kvs.sessions`, in the order of `updated_at` |
| `requests[r]` | one HTTP request: `pc` is the call it will make next, `session` the `entities.Session` it holds, `reply` what it answered |
| `publishing` | the goroutines of `SessionServiceBusDecorator.CompleteSession` |
| `events` | what the stream accepted |
| `clock` | `time.Now` and the `NOW()` of the database, one clock, in minutes |

A request takes one step per database call: `CheckDailyLimit`, `SelectQuestions`,
`StoreActive` for `CreateSession`; `LoadSession`, `ApplyAnswers`, `StoreResult` for
`CompleteSession`. The in-memory work between two calls belongs to the step of the
call that follows or precedes it, where the code does it; `ApplyAnswers` is a step
without a call, since `SetUserAnswer` reads the clock there. Any step may be
replaced by `CallFails` (the call returns an error, or its context has expired,
without effect); `StoreActive` and `StoreResult` may also take effect and be
answered with an error. Reading questions may end early (`QuestionsRead`), since
`processingQuestionsRows` never looks at `rows.Err`. `Crash` cuts off all requests
and goroutines: a kill, or a graceful stop whose two seconds have passed.

The fields `begun`, `sent` (of a request) and `by` (of a row) are history
variables: how many rows and what time there were when the request arrived, and
who wrote the row. No action reads them.

A session's id is the name of the request that creates it: generated ids are
random 64-bit numbers and taken to be fresh. The database checks and writes within
one call are atomic; `updated_at` gives rows the order of their insertion; the
question bank does not change. Rights and tokens are not in this module: every
request here has passed them. The publishing goroutines are in no
wait group, so a graceful stop cuts them off as a kill does; when it cuts off requests
is in `ServiceProcess`.

### AuthUsers and the code

| Variable | Code |
|---|---|
| `inserted` | every row `auth.users` ever held, in the order of the commits; a row is there (`Live`) unless its uid was deleted |
| `deleted` | who removed which user |
| `tokens` | the JWTs clients hold |
| `requests[r]` | one request to auth, or to the question service (`kind` "use"): `pc` is the call of the storage it makes next |
| `clock` | `time.Now` of the JWT provider |

One step per call: `FindAccount` and `SignToken` sign in; `VerifyToken` and
`LoadCaller` are `IntrospectCommand.Exec` behind `getValidatedAuthContext`, or behind
gRPC and `introspectMiddleware` of the question service; `LookUpName`, `CheckTaken`
and `CommitUser` are `AddUserCommand.Exec` with the transaction of `StoreUser`;
`RemoveUser` is the DELETE. A commit or DELETE may take effect and be answered with
an error; `CallFails` is any call that fails without effect. `BeginFails`: the
deferred rollback meets a nil transaction and the handler panics.

A user that is added has the name of the request that adds it: its generated uid is
fresh. Passwords are compared as they are; bcrypt and the signature of a JWT are
taken to do what they promise. `UpdateUser` of the storage is called by no command
and is left out. `gone`, `sent` and `checked` are history variables.

### NotificationHub and the code

| Variable | Code |
|---|---|
| `stream`, `consumer`, `acked`, `pending` | JetStream: the messages, the durable and what it knows of them (external) |
| `inbox`, `attached` | the subscription and its queue, in the client library (external) |
| `handler` | the running `handleMessage`, from the moment the library has taken the message |
| `wg`, `hub` | the wait group, and how far `Stop` is |
| `mails` | what the mail server took |
| `skipped`, `faults`, `replayed` | history: why a message may be settled without a mail, or mailed twice |

What is external is modelled from how `consumer.go` uses it: `Subscribe` is called
without `nats.ManualAck`, so the library acknowledges a message whose handler
returns without an answer, which happens when a handler meets the cancelled
context; and a durable that `Subscribe` created is deleted by `Unsubscribe`.
`NewMailNotifier` ignores its `next` parameter and the chain is set afterwards; it is
taken as a constant length. The hub's `main` is empty, so `Start` and `Stop` are what
a `main` would call.

### StreamMigrations, ConnectionPool, ServiceProcess and the code

`StreamMigrations`: `runs[r]` is one run of `cmd/main.go` with the list it still has
to do, `stream`, `consumer` and `held` are JetStream's (external), `service` whether
docker-compose has started the question service. Inspecting and changing are two
steps, as they are two calls. The consumer of the migrations has a `Name` and no
`Durable`; the hub makes a durable of its own, so the two are not related here.

`ConnectionPool`: `idle` is what the pool has left, `requests[r].conns` what a request
holds, `left` the calls or rows it has yet to do, `expired` its context. The list of
completed sessions is the request of kind "list"; every other HTTP handler is a number
of calls with one connection each (kind "call"), and auth's `Introspect` at most one
(kind "rpc"). The returns in the middle of `GetAllCompletedUserSessions`
(`storage.go:660`-`688`) leave its rows open: the request is answered, and its
connection never comes back (`QuestionsFail`, `UnreadableRow`, `TimesOut`).

`ServiceProcess`: `app` is the position of `startWithGracefulShutdown` and `shutdown`,
`public` and `private` the goroutines of the servers, `notices` the channels a signal
waits in (`signal.Notify` is called twice: by the application and by the public
server), `passed` the deadlines that are over, `cut` the Introspect calls whose
connection was closed before they were answered. With `private = "absent"` it is the
question service, else auth, which has no lists and takes calls over gRPC besides
(`AcceptCall`). The two servers stop differently. `http.Server.Shutdown` waits for
the requests it has (`OverHttp`). `grpc.Server.Stop` (`StopPrivate`), which the
shutdown calls first, closes the connections and cancels the contexts of the calls
it has (`OverGrpc`) at once; their handlers run on, and give their connection of the
pool back, until they meet the cancelled context or the process ends.

## Runs

| Run | Shows |
|---|---|
| `AnswerSheet` | all lists of up to three entries over five questions, four sheets, one of them without questions, and seven selections: the grade is the share of the questions answered right and 60% is the border (three of five is exactly 60%), if no question is answered twice; nobody is graded below it, or for more than was sent, if one is; without questions nobody passes |
| `AnswerSheetWhole` | *violated*: a repeated right answer is counted again, a grade above 100% |
| `QuestionService` | three requests of one user; all safety properties of the service and the two inductive invariants |
| `ServiceProgress` | under fairness: implements `SessionLifecycle`, every request and goroutine ends, and none takes a step back |
| `CompletedOnce` | *violated*: overlapping completions are both stored |
| `LateAnswers` | *violated*: the documented ten minutes are not what is enforced |
| `ListAnswered` | *violated*: the list of completed tests is cut off by a stored answer without a question |
| `AuthUsers` | four requests: names are doubled only in the window of `StoreUser`, deletion and expiry bite at once, conflicts have a cause, a user is deleted once; implements `Accounts`; the inductive invariant |
| `NotificationHub` | three messages, one unreadable, one without an address: what is acknowledged is settled, nothing is mailed twice by itself, nothing after `Stop`; every readable event is mailed and `Stop` returns, after a bounded number of steps of the handler; implements `EventDelivery`; the inductive invariant |
| `PublishedEvents` | *violated*: what the question service publishes the hub gives back |
| `StreamMigrations` | three runs in both directions: success is effective, failure has a cause, events survive, a service without a stream has a reason; the inductive invariant |
| `ServiceProcess` | two requests (over HTTP or, to auth, gRPC), two connections, two signals: what a request takes with it, what can exhaust the pool, which requests are left unanswered and by whom; every request and, after a signal, the process ends; no request takes a step back; the inductive invariant |

An inductive invariant `IInv` contains `TypeOK`, which is listed by itself only in
the runs `AnswerSheet` and `QuestionService`.

Bounds. Three requests are enough for the shortest histories of interest: a start
and two overlapping completions, or a test completed while another is being
started. One request is one call of the API, so a longer life of the service is
more requests, which the proofs cover. The clock has a reading at the start, one
exactly at the limit in effect (10 000 minutes) and one after it on the same
calendar day (`QuestionService`), or one just after the documented limit
(`ServiceProgress` and the violated runs). `DayLength` is a real day. Topic choices
overlap without being equal, and one names a topic the table does not have.
Answers are one right answer, which is foreign to the other sessions, and in
`ServiceProgress` also none at all, perhaps to a session read without questions.
Requests are interchangeable and the runs without temporal properties use that
symmetry. `CHECK_DEADLOCK FALSE`: when every request is answered and the clock is
at its last reading the model stops, as the service idles.

`AuthUsers`: four requests are what a doubled name takes (the administrator signs in,
two add a name, a fourth uses or deletes), over a seeded administrator and a
student; the clock jumps past the lifetime of a token. `NotificationHub`: one message
of each kind, two notifiers, and one fault, which with redelivery gives two mails;
faults, stops and restarts come in any order, and `MaxMails` only folds three mails
into two. The proofs cover any number of each. `StreamMigrations`: three runs are a
failed one, its repetition and one that disturbs them; two faults. `ServiceProcess`:
two requests can hold both connections and wait for each other's; one row per list
is enough, since a list asks for a second connection with its first row; a second
signal finds the channels already read.

Fairness. `WF(Serve(r))`: a request that waits on a call gets an answer, because
its context has the server's timeout (`timeoutMiddleware`) and a call on an expired
context returns an error. `WF(Publish(r) \/ PublishFails(r))`: the goroutine's
context has a timeout of its own. Nothing is assumed of arrivals, crashes or the
clock, and neither a successful call nor a successful publish is promised.
`NotificationHub`: the server delivers and its wait for an acknowledgement ends; a
handler goes on, which is an assumption about the mail server and auth, because
neither `smtp.SendMail` nor `GetRecipientByID` has a deadline; `Stop`, once called,
runs to its end. Delivery is fair for each message, as the server goes through its
stream in order and comes back to rejected ones. `ServiceProcess`: goroutines run and
timers fire; a step of a request ends since its query has the request's context
(that of an Introspect call has the deadline of the request it is called for, or is
cancelled by `Stop`). The
pool itself promises nothing: a connection may always go to another request. That is
why `RequestsEnd` rests on the timeout.

What the violated runs mean for the code:

* **Limit.** `StoreSession` writes nanoseconds, `recoverSession` reads
  microseconds (`storage.go:360`), so a test of ten minutes can be handed in for
  about a week. `ExpiryIsSound` says that the limit *in effect* is enforced: answers
  sent after it are stored as expired and do not pass. The API document also says
  ten minutes *per topic*; the code sets ten minutes for the whole session.
  `LimitIsScaled` (proved) is the general case: whatever the duration, no session is
  stored as expired before a thousand times that duration has passed.
* **Completions.** The table accepts a second completed row. What does hold, and
  is proved: only a request that had arrived before the first completion was
  stored can still do that (`SecondCompletionOnlyInFlight`).
* **Daily limit.** Only completed tests count. `NoStartAfterCompletion` is what
  holds; two tests started before either is completed can both be completed.
* **List.** Answers of an expired session are stored unchecked and a shortened
  read drops questions; `extractDataFromCompleteSession` then calls a method on a
  question that is not there. `UnreadableRowsAreExpired` (proved): only expired
  sessions are stored in that form.
* **Events.** The publisher wraps the result in `payload` and names its fields
  differently, so the hub finds every field empty. `EventsAreMailed` is therefore
  about events in the hub's own form. `PublishedNeverMailed` (proved) is the general
  case: if all messages come from the publisher, nothing is ever mailed, and only
  what a stopping hub skips is acknowledged.

Seen while modelling and not made a run: a failed migration exits with 0
(`cmd/main.go`), so docker-compose starts the services (`RefusedOnlyAfterFailure` states what
follows); a signal before the public server is built makes `Stop` dereference nil
(`StopPublic`); "All services stopped gracefully" can be logged when the server's own
deadline cut requests off, and, by auth, when Introspect calls were broken off and their
handlers are still running, because its gRPC server is stopped with `Stop` and not
`GracefulStop` (`CutOnlyByDeadline` states what is left: these calls and no others
go unanswered before the deadline); a list of completed sessions that breaks off in
its rows takes a connection out of the pool for good, and as many such lists as the
pool has connections stop the service's storage (`PoolIsKept` and
`OnlyListsExhaustPool` say that nothing else does);
`notification_hub_docs.md:89-94` counts "no contact" among the failures after which
the hub is to log or retry, while the code acknowledges such an event, which
`AckedIsSettled` and `EventDelivery` therefore count as settled; a session whose
questions were not read and that is completed with an empty list is stored as failed
with the grade "NaN percents" (`ReachesBorder`); `getValidatedAuthContext` answers a
failed check twice; a wrong password and an invalid token are answered with 500,
where the API description says 401; the last administrator can be deleted.

## Proofs

Everything is proved for every value of the constants that satisfies the named
assumptions (`ServiceAssumption`, `BankAssumption`, `SheetsAssumption`,
`AuthAssumption`, `HubAssumption`, `MigrationsAssumption`, `PoolAssumption`,
`ProcessAssumption`: numbers where there must be numbers, sequences of options,
sentinels that differ from real ids, a seeded table without doubles, finitely many
requests); TLC evaluates them.

### AnswerSheetProofs

`TypeCorrect` and `GradeIsShare`. `MatchesKey` takes the three `IsAnswerCorrect`
methods to the documented rule, "selects exactly the key in any order". For a
question with several answers the code compares sorted lists, that is, how often
each option occurs: `SameOptions` builds the matching of the two lists from the
bijections between the places of each option, `SameOccurrences` is the way back.
`EntriesMatchQuestions`: taking an entry to the question it answers maps the right
entries onto the questions answered right, so there are at least as many; if ids do
not repeat the map is a bijection. It needs that a graded list names no question of
another session, which is what `Graded` adds to the type invariant. `BorderInTenths`
takes the comparison with 60% to tenths; a session without questions is the one case
in which it is not enough to compare (0/0 is NaN in the code).

### QuestionServiceProofs

* `TypeCorrect`: `Spec => []TypeOK`;
* `InductiveInvariant`: `Spec => []IInv`, and from it `CompletedWasStarted`,
  `SecondCompletionInFlight`, `AcknowledgedStored` and `UnreadableExpired`.

None of the four properties is preserved by itself. That a completed row follows
its active row needs to know what a request *holds* between two calls
(`HeldStarted`: the session it loaded has an active row for the same test) and that
the active row is unique, which in turn needs that an active row is only written by
the request that created the session, before it is done (`RowsHaveWriters`,
`HeldState`). `SecondCompletionOnlyInFlight` needs `AttemptIsEarly`: while a request
holds a session it loaded as active, every completion of that session was stored
after the request arrived. That is established when the latest row is read: if it
is active no completed row exists, since a completed row stands after the unique
active one (`LatestActive`); it is kept by later inserts because they come at a
higher index. `AcknowledgedIsStored` needs what a running goroutine will publish to
be in the table already (`PublishedIsStored`). `LatestRow` is a `CHOOSE`; that it
exists rests on `LeastNatural`. The lemmas go action by action: steps that touch one
request only (`QuietStep`, `RefusalStep`, `WaitingStep`), the two inserts, and the
steps that leave requests alone (`BackgroundStep`).

`ServiceOnlyAdvances`: `Spec => NothingStartsOver`. `RequestRank` counts the steps a
request has left; `StepAdvances` shows that each of its steps lowers it, `NextAdvances`
that a goroutine, which appears only with the last step of its request, is paid for
by that step. It needs of the invariant that a goroutine's request is done. It is the decreasing half of
`RequestsAreAnswered`: a request can fail to end only by not taking a step.

### QuestionServiceTimeProofs

`TimeInvariant`: `Spec => []TimeInv`, and from it `NoStartAfterCompleted` and
`ExpirySound`. Both properties speak of a row that is written steps after it was
decided on, so neither is preserved by itself. `LimitStillHolds`: a request past
`CheckDailyLimit` sees no completed test of today that was there before it arrived;
later rows have a higher index (`InsertKeepsTimed`), and as time passes a row can
only cease to be of today (`CompletedTodayShrinks`, from `DayMonotone`: calendar days
grow with the clock, for any length of the day). `DeadlineIsHeld`: a session that was
loaded has the limit of its active row times `LimitScale`, the factor between what
`StoreSession` writes and `recoverSession` reads, and what is about to be stored is
expired if the answers arrived late, and only if the deadline had passed.

`LimitIsScaled`: `ActiveLimit`, inductive beside `IInv`, says that every active row,
and every session about to be stored as one, has the limit `TopicDuration`, for any
number of topics; with the active row that `StartedBefore` gives a completed one,
`ExpiryIsSound` then bounds when a session can be stored as expired.

### QuestionServiceRefinement

`ServiceImplementsLifecycle`: `Spec => ImplementsLifecycle`. `InitRefines` and
`NextRefines` are the two halves. `StoreActive` is `Start`; `LoadSession`, when the
latest row is active, is `BeginAttempt`; `StoreResult` is `Complete`; `Publish` is
`Announce`; what ends requests is `GiveUp`, of all of them in a `Crash`, of none in a
step that the table does not show (`GiveUpStep`). That a start finds no row, and an
attempt no verdict, rests on the inductive invariant of the table; that an
announced verdict was recorded, on `PublishedIsStored` and on `RowsFitWriters`, which
the mapping needs since an event names its session only through its writer.

### AuthUsersProofs

`TypeCorrect`, `InductiveInvariant`, and from it `DuplicatesOnlyInWindow`,
`DeletionBites`, `ConflictJustified` and `DeletedAtMostOnce`. The properties speak of
requests that are done, so the invariant says what a request *in flight* carries:
`GateWasPassed` (past `VerifyToken` the token outlived the arrival, past `LoadCaller`
its holder was not deleted at the arrival, since a deletion is for ever),
`NameWasFree` (no live row among those it could see has the name it is about to
insert; rows that come later have a higher index), `EffectsFit` (rows and removals
have their author, who is done), `ProgressFits` and `HistoryIsPast`; `TableFits` keeps
the seeded rows first and removals unique. Steps that leave the table alone all go
through `QuietStep`; `CommitUserStep`, `RemoveUserStep` and `TimeStep` are the others.

`AuthImplementsAccounts`: `Spec => ImplementsAccounts`. A member is a user with a live
row, and the stage of a request is read off its `pc`; the steps of `AddUser` before
the commit are stutters (`GotoRefines`). `FindAccount` is `Identify`, `SignToken`
is `Grant`, and `LoadCaller` is `Admit` or `Serve`, the one moment at which the code
looks whether the holder of a token is still there. That a new user was never a
member before rests on `EffectsFit` and on the conjunct of `TableFits` that only
users with a row are removed.

### NotificationHubProofs

`TypeCorrect`, `InductiveInvariant`, `AckedSettled`, `MailedAtMostOnce` and
`StoppedQuiet`, for any number of messages, notifiers and faults. `HandlerFits` says
what a handler has found out by the step it is at; `WaitGroupCounts` that the wait
group is one exactly between its first and its last statement, so that the end of
`Stop` finds no handler past its check; `HeldOnce` that, without a fault and with the
first durable, a message is in the queue or the handler once and only while the
server waits for it, which keeps a mailed one from coming again; `HeldIsPublished`
that what the hub has in its hands came from the stream, and that a hub that waits
for its handlers takes nothing more.

* `StopWaitsBounded`: while `Stop` waits, every step of the handler lowers
  `HandlerRank`, and no handler starts. The bound is `Notifiers` plus seven.
* `HubImplementsDelivery`: `SendMail` is `Tell`, taking the acknowledgement is `Settle`
  (`HandlerFits`: what the handler acknowledges was mailed or has nobody to be mailed
  to), a handler that meets the cancelled context is `PassOver`, and `Unsubscribe`,
  which deletes the durable, is `Forget`; redelivery, refusals and failures are stutters.
* `PublishedNeverMailed`, from `MailedOnce` and `AckedIsSettled`: what the publisher
  marshals is never acceptable to the hub (`PublishedIsRefused`), while the hub's own
  form is (`FlatIsAccepted`): the envelope and the names of the fields are refused, not
  the contents.

### StreamMigrationsProofs

`TypeCorrect`, `InductiveInvariant`, `CompletedRunsEffective`, `FailuresHaveCause`,
`EventsSurvive` and `RefusedAfterFailure`, for any number of runs, events and faults.
Whether a run ends in success or failure depends on what it found steps before:
`KnowsServer` says what a run that nobody has disturbed still knows of the server,
`ListFits` what it has left to do, `ServerHasHistory` that only a rollback disturbs a
run upwards. Every action is a step of one run (`QuietStep`, or `ChangingStep` when it
changes the server); `RunStep` shows once what that means for the others: what they
rely on is untouched, or they are disturbed (`Disturbs`, `MarkedFits`).

### ServiceProcessProofs

`TypeCorrect`, `InductiveInvariant`, `PoolKept`, `ListsExhaustPool` and
`CutByDeadline`, for a pool of any size, any finite number of requests and signals
at any moment. What the requests hold together is the number of pairs of a request
and its first or second connection (`Held`), so the counting is about one finite
set: `HeldSplits` divides it by request, `PoolStepCounts` gives the balance of every
step. `ConnectionsFit` says how many connections a request holds at each step, and
`OnlyListsExhaustPool` follows by the pigeonhole principle: if nobody can go on,
all that is held is one connection of each of as many lists as the pool has
connections. `RequestsFitServer` ties the requests to the server that accepted them:
a request over HTTP is cut off by a deadline that has passed, and only then; a call
over gRPC that is still in flight when its server no longer serves is one that `Stop`
cut off (`StopPrivateStep`, the one step that touches several requests).
`CutOnlyByDeadline` follows, since the private server is stopped before the public one.

`RequestsOnlyAdvance`: `Spec => RequestsAdvance`. `StepsLeft` counts two steps for a
call and four for a row of a list; `GoesOnShrinks` and `AnswerShrinks` are the steps
that go on and those that end a request, `ProgressShrinks` puts them together. A
request can therefore fail to end only by waiting for a connection.

### Only model-checked

All liveness (`RequestsAreAnswered`, `EventsAreMailed`, `StopReturns`, `RequestsEnd`,
`SignalEndsProcess`), which is outside what TLAPS proves. Of `RequestsAreAnswered`,
the end of `Stop` in `StopReturns`, and `RequestsEnd` the decreasing half is proved
(`ServiceOnlyAdvances`, `StopWaitsBounded`, `RequestsOnlyAdvance`); that a step is
always possible and is taken is the half that needs fairness and `ENABLED`. Every
other property of a passing run has a theorem.

## Not modelled

Configuration, logging, generators and hashing have no state of their own; generated
code; the texts of replies and mails; the status mode of the migrations and
`ShowTopics`, which only read (the latter is a call of the pool); `UpdateUser`, which
nothing calls; of gRPC, all but the acceptance of a call, its deadline and what
`Stop` does to it (in `AuthUsers` a call that is broken off is one that fails);
the validation of the shape of requests beyond what a handler refuses.

## What is left

An abstract specification of the migrations; theorems about the abstract modules
themselves, to be carried over to the code's models by the refinements; the hub's
durable against the migration's consumer, once the hub is wired to a `main`.
