--------------------------- MODULE StreamMigrations ---------------------------
(***************************************************************************)
(* The migration tool for NATS, run once before the services start, again  *)
(* with every deployment, and by hand in the other direction; runs may     *)
(* overlap, and every call of JetStream may fail or lose its answer.       *)
(* Sources: toolkit/nats/migrations, its cmd/main.go, and the way          *)
(* docker-compose.yml lets the question service wait for the tool.         *)
(*                                                                         *)
(* External, and modelled from how the code uses it: JetStream.  Adding    *)
(* what is there with the same configuration succeeds, updating a stream   *)
(* keeps its events, deleting it deletes its consumers, and calls about a  *)
(* consumer of no stream fail with another error than "consumer not found".*)
(***************************************************************************)
EXTENDS Integers, Sequences, FiniteSets

CONSTANTS
  Runs,       \* the runs of the tool
  Events,     \* the events the question service publishes
  MaxFaults   \* bound: calls that fail or lose their answer

ASSUME MigrationsAssumption == MaxFaults \in Nat

VARIABLES
  stream,     \* whether session_stream exists
  consumer,   \* whether its session-consumer exists
  held,       \* the events the stream holds
  confirmed,  \* the events whose Publish succeeded
  refused,    \* the events no stream took
  runs,       \* run -> the state of the tool
  service,    \* whether the question service was started
  faults      \* faults so far

jetstream == <<stream, consumer, held>>
events == <<confirmed, refused>>
vars == <<stream, consumer, held, confirmed, refused, runs, service, faults>>

-----------------------------------------------------------------------------
(* loadMigrations, and the order of a run.  Every id has ten digits in      *)
(* front, so that the order of the strings is that of the numbers; both     *)
(* migrations are about the one stream.                                     *)

NewStreamMigration(id) == [id |-> id, type |-> "stream"]
NewConsumerMigration(id) == [id |-> id, type |-> "consumer"]

LoadedMigrations ==
  {NewStreamMigration(1754841234), NewConsumerMigration(1754841235)}

(* The sort.Slice of RunMigrations and of RollbackMigrations.               *)
Sorted(mode) ==
  CHOOSE list \in [1 .. Cardinality(LoadedMigrations) -> LoadedMigrations] :
    \A i, j \in DOMAIN list : i < j =>
      IF mode = "up" THEN list[i].id < list[j].id ELSE list[i].id > list[j].id

-----------------------------------------------------------------------------
(* One run of the tool.                                                     *)

NewRun == [mode |-> "none", pc |-> "idle", todo |-> <<>>, found |-> FALSE,
           exit |-> "none", failedCall |-> FALSE, began |-> FALSE,
           disturbed |-> FALSE]

At(r, pc, mode, type) ==
  /\ runs[r].pc = pc
  /\ runs[r].mode = mode
  /\ Head(runs[r].todo).type = type

(* The migration is done: the loop goes on, or main reports success.        *)
Advanced(run) ==
  IF Len(run.todo) = 1
    THEN [run EXCEPT !.pc = "done", !.todo = <<>>, !.exit = "completed"]
    ELSE [run EXCEPT !.pc = "inspect", !.todo = Tail(@)]

\* A slip: the error is logged, and the loop goes on.
FailedOnTheWay(run) == [run EXCEPT !.exit = "failed"]

(* The loop returns its error, which main logs; the process exits with 0.   *)
Failed(run) == [run EXCEPT !.pc = "done", !.exit = "failed"]

FailedCall(run) == [Failed(run) EXCEPT !.failedCall = TRUE]

SetRun(r, run) == runs' = [runs EXCEPT ![r] = run]

(* A run that changed the server, and disturbed (a history variable) those  *)
(* that had begun in a mode of modes; the answer may be lost.               *)
SetRunDisturbing(r, modes) ==
  \E run \in {Advanced(runs[r]), FailedCall(runs[r])} :
    /\ run.failedCall => faults < MaxFaults
    /\ faults' = IF run.failedCall THEN faults + 1 ELSE faults
    /\ runs' = [q \in Runs |-> IF q = r THEN run ELSE
                  [runs[q] EXCEPT !.disturbed = @ \/ runs[q].mode \in modes]]

-----------------------------------------------------------------------------
(* main.                                                                    *)

StartRun(r, mode) ==
  /\ runs[r].pc = "idle"
  /\ SetRun(r, [NewRun EXCEPT !.mode = mode, !.pc = "inspect", !.todo = Sorted(mode),
                              !.began = stream])
  /\ UNCHANGED <<jetstream, events, service, faults>>

\* log.Fatalf: the only exit the process reports as a failure.
ConnectFails(r) ==
  /\ runs[r].pc = "idle" /\ faults < MaxFaults
  /\ faults' = faults + 1
  /\ SetRun(r, [NewRun EXCEPT !.pc = "done", !.exit = "fatal"])
  /\ UNCHANGED <<jetstream, events, service>>

\* A slip: the error of a call is logged, and the migration counts as applied.
CallFailureIgnored(r) ==
  /\ runs[r].pc \in {"inspect", "change"} /\ faults < MaxFaults
  /\ faults' = faults + 1
  /\ SetRun(r, Advanced(runs[r]))
  /\ UNCHANGED <<jetstream, events, service>>

\* A call of any migration fails without effect.
CallFails(r) ==
  /\ runs[r].pc \in {"inspect", "change"} /\ faults < MaxFaults
  /\ faults' = faults + 1
  /\ SetRun(r, FailedCall(runs[r]))
  /\ UNCHANGED <<jetstream, events, service>>

-----------------------------------------------------------------------------
(* StreamMigration.                                                         *)

InspectStream(r) ==
  /\ At(r, "inspect", "up", "stream")
  /\ SetRun(r, [runs[r] EXCEPT !.pc = "change", !.found = stream])
  /\ UNCHANGED <<jetstream, events, service, faults>>

AddStream(r) ==
  /\ At(r, "change", "up", "stream") /\ ~runs[r].found
  /\ stream' = TRUE
  /\ SetRunDisturbing(r, {"down"})
  /\ UNCHANGED <<consumer, held, events, service>>

\* A slip: an existing stream is replaced.
ReplaceStream(r) ==
  /\ At(r, "change", "up", "stream") /\ runs[r].found
  /\ stream' = TRUE /\ consumer' = FALSE /\ held' = {}
  /\ SetRunDisturbing(r, {"down"})
  /\ UNCHANGED <<events, service>>

UpdateStream(r) ==
  /\ At(r, "change", "up", "stream") /\ runs[r].found
  /\ IF stream THEN SetRunDisturbing(r, {})
     ELSE SetRun(r, Failed(runs[r])) /\ UNCHANGED faults
  /\ UNCHANGED <<jetstream, events, service>>

DeleteStream(r) ==
  /\ At(r, "inspect", "down", "stream")
  /\ stream' = FALSE /\ consumer' = FALSE /\ held' = {}
  /\ SetRunDisturbing(r, {"up", "down"})
  /\ UNCHANGED <<events, service>>

-----------------------------------------------------------------------------
(* ConsumerMigration.                                                       *)

(* A missing stream is not ErrConsumerNotFound, and ends the run; a         *)
(* consumer that is there is left as it is.                                 *)
InspectConsumer(r) ==
  /\ At(r, "inspect", "up", "consumer")
  /\ SetRun(r, IF ~stream THEN Failed(runs[r])
               ELSE IF consumer THEN Advanced(runs[r])
               ELSE [runs[r] EXCEPT !.pc = "change"])
  /\ UNCHANGED <<jetstream, events, service, faults>>

AddConsumer(r) ==
  /\ At(r, "change", "up", "consumer")
  /\ IF stream
       THEN consumer' = TRUE /\ SetRunDisturbing(r, {"down"})
       ELSE /\ SetRun(r, Failed(runs[r]))
            /\ UNCHANGED <<consumer, faults>>
  /\ UNCHANGED <<stream, held, events, service>>

\* A slip: a consumer that is not there is an error.
DeleteExistingConsumer(r) ==
  /\ At(r, "inspect", "down", "consumer")
  /\ IF stream /\ consumer
       THEN consumer' = FALSE /\ SetRunDisturbing(r, {"up"})
       ELSE /\ SetRun(r, Failed(runs[r]))
            /\ UNCHANGED <<consumer, faults>>
  /\ UNCHANGED <<stream, held, events, service>>

DeleteConsumer(r) ==
  /\ At(r, "inspect", "down", "consumer")
  /\ IF stream
       THEN consumer' = FALSE /\ SetRunDisturbing(r, {"up"})
       ELSE /\ SetRun(r, Failed(runs[r]))
            /\ UNCHANGED <<consumer, faults>>
  /\ UNCHANGED <<stream, held, events, service>>

-----------------------------------------------------------------------------
(* The question service.                                                    *)

(* docker-compose.yml: service_completed_successfully, an exit code of 0.   *)
StartService ==
  /\ ~service
  /\ \E r \in Runs : runs[r].mode = "up" /\ runs[r].exit \in {"completed", "failed"}
  /\ service' = TRUE
  /\ UNCHANGED <<jetstream, events, runs, faults>>

(* A publish without a stream is refused, and the event given up.           *)
PublishEvent(e) ==
  /\ service
  /\ e \notin confirmed \cup refused
  /\ IF stream
       THEN /\ held' = held \cup {e}
            /\ confirmed' = confirmed \cup {e}
            /\ UNCHANGED refused
       ELSE /\ refused' = refused \cup {e}
            /\ UNCHANGED <<held, confirmed>>
  /\ UNCHANGED <<stream, consumer, runs, service, faults>>

-----------------------------------------------------------------------------

Migrate(r) ==
  \/ InspectStream(r) \/ AddStream(r) \/ UpdateStream(r) \/ DeleteStream(r)
  \/ InspectConsumer(r) \/ AddConsumer(r) \/ DeleteConsumer(r)
  \/ CallFails(r)

Init ==
  /\ stream = FALSE /\ consumer = FALSE /\ held = {}
  /\ confirmed = {} /\ refused = {}
  /\ runs = [r \in Runs |-> NewRun]
  /\ service = FALSE
  /\ faults = 0

Next ==
  \/ \E r \in Runs :
       \/ \E mode \in {"up", "down"} : StartRun(r, mode)
       \/ ConnectFails(r)
       \/ Migrate(r)
  \/ StartService
  \/ \E e \in Events : PublishEvent(e)

Spec == Init /\ [][Next]_vars

-----------------------------------------------------------------------------
(* Types.                                                                  *)

RunType ==
  [mode : {"none", "up", "down"}, pc : {"idle", "inspect", "change", "done"},
   todo : Seq(LoadedMigrations), found : BOOLEAN,
   exit : {"none", "completed", "failed", "fatal"}, failedCall : BOOLEAN,
   began : BOOLEAN, disturbed : BOOLEAN]

TypeOK ==
  /\ stream \in BOOLEAN
  /\ consumer \in BOOLEAN /\ (consumer => stream)
  /\ held \subseteq Events /\ (held # {} => stream)
  /\ confirmed \subseteq Events /\ refused \subseteq Events
  /\ runs \in [Runs -> RunType]
  /\ \A r \in Runs : /\ runs[r].pc = "done" <=> runs[r].exit # "none"
                     /\ runs[r].pc \in {"inspect", "change"} => runs[r].todo # <<>>
  /\ service \in BOOLEAN
  /\ faults \in 0 .. MaxFaults

-----------------------------------------------------------------------------
(* Properties.                                                             *)

\* A run that reports success has done the whole of its direction, whatever an
\* earlier run that failed half way had left behind, and whatever other runs in
\* the same direction do at the same time.
CompletedRunIsEffective ==
  \A r \in Runs : runs[r].exit = "completed" /\ ~runs[r].disturbed =>
    (runs[r].mode = "up") <=> (stream /\ consumer)

\* A run fails for a reason: a call of its own that failed, another run that
\* deleted what it had found, or a rollback of a stream that was never there.
\* Runs in one direction do not fail each other, and a run that failed half way
\* can be repeated.
FailureHasCause ==
  \A r \in Runs : runs[r].exit = "failed" =>
    \/ runs[r].failedCall
    \/ runs[r].disturbed
    \/ runs[r].mode = "down" /\ ~runs[r].began

\* Repeated, overlapping and failed runs upwards lose no event the stream has
\* confirmed: only a rollback does.
EventsSurviveMigration ==
  confirmed \subseteq held \/ \E r \in Runs : runs[r].mode = "down"

\* The question service finishes sessions without a stream to publish them in
\* only after a rollback, or because a run upwards had failed and exited with 0.
RefusedOnlyAfterFailure ==
  refused # {} =>
    \E r \in Runs : runs[r].mode = "down" \/ runs[r].exit = "failed"

(* The inductive invariant behind these properties.                         *)

IsRollback(r) == runs[r].mode = "down"
HasFailed(r) == runs[r].exit = "failed"

\* What is left to do is the whole list of the run's direction, or its last entry.
ListFits(run) ==
  /\ run.pc \in {"inspect", "change"} =>
       /\ run.mode \in {"up", "down"}
       /\ run.todo \in {Sorted(run.mode), Tail(Sorted(run.mode))}
  /\ run.pc = "change" => run.mode = "up"
  /\ run.pc = "idle" => run.mode = "none" /\ ~run.disturbed
  /\ run.exit \in {"completed", "failed"} => run.mode \in {"up", "down"}

\* What a run that nobody has disturbed knows of the server: what it found, what
\* it has done, or what was there when it began.
KnowsServer(run) ==
  LET DoesNow(type) == run.pc \in {"inspect", "change"} /\ Head(run.todo).type = type
  IN ~run.disturbed =>
       /\ run.mode = "up" /\ run.pc = "change" /\ run.found /\ DoesNow("stream") => stream
       /\ run.mode = "up" /\ DoesNow("consumer") => stream
       /\ run.mode = "down" /\ DoesNow("consumer") /\ run.began => stream
       /\ run.exit = "completed" =>
            IF run.mode = "up" THEN stream /\ consumer ELSE ~stream

\* Only a rollback disturbs a run upwards, and the service has its stream unless
\* a run has failed or there was a rollback.
ServerHasHistory ==
  /\ \A r \in Runs : runs[r].mode = "up" /\ runs[r].disturbed => \E q \in Runs : IsRollback(q)
  /\ service => stream \/ \E r \in Runs : IsRollback(r) \/ HasFailed(r)

\* Inductive, while of its consequences only FailureHasCause is a part: whether a
\* run may report success, or fail, depends on what it found steps before and on
\* who has changed it since.
IInv ==
  /\ TypeOK
  /\ \A r \in Runs : ListFits(runs[r]) /\ KnowsServer(runs[r])
  /\ ServerHasHistory
  /\ FailureHasCause
  /\ EventsSurviveMigration
  /\ RefusedOnlyAfterFailure
===============================================================================
