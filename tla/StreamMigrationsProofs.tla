----------------------- MODULE StreamMigrationsProofs ------------------------
(***************************************************************************)
(* Theorems about StreamMigrations, for any number of runs of the tool, of *)
(* events and of failing calls.                                            *)
(***************************************************************************)
EXTENDS StreamMigrations, FiniteSetTheorems, TLAPS

-----------------------------------------------------------------------------
(* The order of the migrations in either direction.                        *)

S == NewStreamMigration(1754841234)
C == NewConsumerMigration(1754841235)

LEMMA Loaded ==
  /\ LoadedMigrations = {S, C} /\ S.type = "stream" /\ C.type = "consumer"
  /\ S.id < C.id /\ S.id \in Nat /\ C.id \in Nat
BY DEF LoadedMigrations, S, C, NewStreamMigration, NewConsumerMigration

LEMMA TwoMigrations == Cardinality(LoadedMigrations) = 2
<1>1. Cardinality({}) = 0 /\ IsFiniteSet({})
  BY FS_EmptySet
<1>2. IsFiniteSet({S}) /\ Cardinality({S}) = 1
  <2>1. S \notin {} /\ {} \cup {S} = {S}
    OBVIOUS
  <2>2. IsFiniteSet({} \cup {S}) /\ Cardinality({} \cup {S}) = 0 + 1
    BY <1>1, <2>1, FS_AddElement
  <2>3. QED
    BY <2>1, <2>2
<1>3. C \notin {S} /\ {S} \cup {C} = LoadedMigrations
  BY Loaded
<1>4. Cardinality({S} \cup {C}) = 1 + 1
  BY <1>2, <1>3, FS_AddElement
<1>5. QED
  BY <1>3, <1>4

LEMMA TailOfTwo ==
  ASSUME NEW a \in LoadedMigrations, NEW b \in LoadedMigrations
  PROVE  Tail(<<a, b>>) = <<b>>
<1>1. <<a, b>> \in Seq(LoadedMigrations) /\ Len(<<a, b>>) = 2
  OBVIOUS
<1>2. /\ Tail(<<a, b>>) \in Seq(LoadedMigrations) /\ Len(Tail(<<a, b>>)) = 1
      /\ Tail(<<a, b>>)[1] = b
  BY <1>1
<1>3. QED
  BY <1>2

LEMMA SortedLists ==
  /\ Sorted("up") = <<S, C>> /\ Tail(Sorted("up")) = <<C>>
  /\ Sorted("down") = <<C, S>> /\ Tail(Sorted("down")) = <<S>>
<1> DEFINE Lists == [1 .. 2 -> LoadedMigrations]
           Up(list) == \A i, j \in DOMAIN list : i < j => list[i].id < list[j].id
           Down(list) == \A i, j \in DOMAIN list : i < j => list[i].id > list[j].id
<1>1. /\ Sorted("up") = CHOOSE list \in Lists : Up(list)
      /\ Sorted("down") = CHOOSE list \in Lists : Down(list)
  BY TwoMigrations DEF Sorted
<1>2. <<S, C>> \in Lists /\ <<C, S>> \in Lists
  BY Loaded
<1>3. Up(<<S, C>>) /\ Down(<<C, S>>)
  BY Loaded
<1>4. ASSUME NEW list \in Lists
      PROVE  /\ Up(list) => list[1] = S /\ list[2] = C
             /\ Down(list) => list[1] = C /\ list[2] = S
  BY Loaded
<1>5. ASSUME NEW list \in Lists
      PROVE  list = <<list[1], list[2]>>
  OBVIOUS
<1> HIDE DEF Lists, Up, Down
<1>6. Sorted("up") \in Lists /\ Up(Sorted("up"))
  BY <1>1, <1>2, <1>3
<1>7. Sorted("down") \in Lists /\ Down(Sorted("down"))
  BY <1>1, <1>2, <1>3
<1>8. Sorted("up") = <<S, C>> /\ Sorted("down") = <<C, S>>
  BY <1>4, <1>5, <1>6, <1>7
<1>9. QED
  BY <1>8, TailOfTwo, Loaded

(* What a run has left, by its direction.                                   *)
LEMMA LeftToDo ==
  ASSUME NEW run, ListFits(run), run.pc \in {"inspect", "change"}
  PROVE  \/ run.mode = "up" /\ run.todo = <<S, C>>
         \/ run.mode = "up" /\ run.todo = <<C>>
         \/ run.mode = "down" /\ run.todo = <<C, S>>
         \/ run.mode = "down" /\ run.todo = <<S>>
BY SortedLists DEF ListFits

-----------------------------------------------------------------------------
(* What a call does to the record of its run.                              *)

SameRun(x, y) ==
  /\ y.mode = x.mode /\ y.found = x.found /\ y.began = x.began
  /\ y.disturbed = x.disturbed

LEMMA AdvancedFits ==
  ASSUME NEW run \in RunType, ListFits(run), run.pc \in {"inspect", "change"},
         run.exit = "none"
  PROVE  /\ Advanced(run) \in RunType /\ SameRun(run, Advanced(run))
         /\ Advanced(run).failedCall = run.failedCall /\ ListFits(Advanced(run))
         /\ run.todo = <<S, C>> =>
              /\ Advanced(run).pc = "inspect" /\ Advanced(run).todo = <<C>>
              /\ Advanced(run).exit = "none"
         /\ run.todo = <<C, S>> =>
              /\ Advanced(run).pc = "inspect" /\ Advanced(run).todo = <<S>>
              /\ Advanced(run).exit = "none"
         /\ run.todo \in {<<S>>, <<C>>} =>
              Advanced(run).pc = "done" /\ Advanced(run).exit = "completed"
<1>1. CASE run.todo \in {<<S>>, <<C>>}
  <2>1. Len(run.todo) = 1 /\ run.todo # <<S, C>> /\ run.todo # <<C, S>>
    BY <1>1
  <2>2. Advanced(run) = [run EXCEPT !.pc = "done", !.todo = <<>>, !.exit = "completed"]
    BY <2>1 DEF Advanced
  <2>3. <<>> \in Seq(LoadedMigrations)
    OBVIOUS
  <2>4. Advanced(run) \in RunType
    BY <2>2, <2>3 DEF RunType
  <2>5. /\ SameRun(run, Advanced(run)) /\ Advanced(run).failedCall = run.failedCall
        /\ Advanced(run).pc = "done" /\ Advanced(run).exit = "completed"
    BY <2>2 DEF RunType, SameRun
  <2>6. ListFits(Advanced(run))
    BY <2>5 DEF ListFits, SameRun
  <2>7. QED
    BY <2>1, <2>4, <2>5, <2>6
<1>2. ASSUME NEW a \in LoadedMigrations, NEW b \in LoadedMigrations, run.todo = <<a, b>>
      PROVE  /\ Advanced(run) \in RunType /\ SameRun(run, Advanced(run))
             /\ Advanced(run).failedCall = run.failedCall
             /\ Advanced(run).pc = "inspect" /\ Advanced(run).exit = "none"
             /\ Advanced(run).todo = <<b>>
  <2>1. Len(run.todo) # 1 /\ run.todo \in Seq(LoadedMigrations)
    BY <1>2
  <2>2. Tail(run.todo) = <<b>>
    BY <1>2, TailOfTwo
  <2>3. Advanced(run) = [run EXCEPT !.pc = "inspect", !.todo = <<b>>]
    BY <2>1, <2>2 DEF Advanced
  <2>4. <<b>> \in Seq(LoadedMigrations)
    OBVIOUS
  <2>5. Advanced(run) \in RunType
    BY <2>3, <2>4 DEF RunType
  <2>6. QED
    BY <2>3, <2>5 DEF RunType, SameRun
<1>3. CASE run.mode = "up" /\ run.todo = <<S, C>>
  <2>1. /\ Advanced(run) \in RunType /\ SameRun(run, Advanced(run))
        /\ Advanced(run).failedCall = run.failedCall
        /\ Advanced(run).pc = "inspect" /\ Advanced(run).exit = "none"
        /\ Advanced(run).todo = <<C>>
    BY <1>2, <1>3, Loaded
  <2>2. ListFits(Advanced(run))
    BY <1>3, <2>1, SortedLists DEF ListFits, SameRun
  <2>3. S # C
    BY Loaded
  <2>4. run.todo # <<C, S>> /\ run.todo \notin {<<S>>, <<C>>}
    BY <1>3, <2>3
  <2>5. QED
    BY <2>1, <2>2, <2>4
<1>4. CASE run.mode = "down" /\ run.todo = <<C, S>>
  <2>1. /\ Advanced(run) \in RunType /\ SameRun(run, Advanced(run))
        /\ Advanced(run).failedCall = run.failedCall
        /\ Advanced(run).pc = "inspect" /\ Advanced(run).exit = "none"
        /\ Advanced(run).todo = <<S>>
    BY <1>2, <1>4, Loaded
  <2>2. ListFits(Advanced(run))
    BY <1>4, <2>1, SortedLists DEF ListFits, SameRun
  <2>3. S # C
    BY Loaded
  <2>4. run.todo # <<S, C>> /\ run.todo \notin {<<S>>, <<C>>}
    BY <1>4, <2>3
  <2>5. QED
    BY <2>1, <2>2, <2>4
<1>5. QED
  BY <1>1, <1>3, <1>4, LeftToDo

LEMMA FailedFits ==
  ASSUME NEW run \in RunType, ListFits(run), run.pc \in {"inspect", "change"},
         NEW failed \in {Failed(run), FailedCall(run)}
  PROVE  /\ failed \in RunType /\ SameRun(run, failed) /\ ListFits(failed)
         /\ failed.pc = "done" /\ failed.exit = "failed"
         /\ failed = FailedCall(run) => failed.failedCall
<1>1. \/ failed = [run EXCEPT !.pc = "done", !.exit = "failed"]
      \/ failed = [run EXCEPT !.pc = "done", !.exit = "failed", !.failedCall = TRUE]
  BY DEF Failed, FailedCall
<1>2. failed \in RunType
  BY <1>1 DEF RunType
<1>3. /\ SameRun(run, failed) /\ failed.pc = "done" /\ failed.exit = "failed"
  BY <1>1 DEF RunType, SameRun
<1>4. failed = FailedCall(run) => failed.failedCall
  BY DEF Failed, FailedCall, RunType
<1>5. ListFits(failed)
  BY <1>3 DEF ListFits, SameRun
<1>6. QED
  BY <1>2, <1>3, <1>4, <1>5

-----------------------------------------------------------------------------
(* One step of one run, as the other runs and the service see it.          *)

HasCause(run) ==
  run.failedCall \/ run.disturbed \/ (run.mode = "down" /\ ~run.began)

(* The run is as it was, but for being disturbed.                           *)
Marked(x, y, modes) ==
  /\ y.mode = x.mode /\ y.pc = x.pc /\ y.todo = x.todo /\ y.found = x.found
  /\ y.exit = x.exit /\ y.failedCall = x.failedCall /\ y.began = x.began
  /\ y.disturbed <=> x.disturbed \/ x.mode \in modes

(* Whoever takes away or adds what the others rely on disturbs them.        *)
Disturbs(modes) ==
  /\ stream /\ ~stream' => {"up", "down"} \subseteq modes
  /\ consumer /\ ~consumer' => "up" \in modes
  /\ ~stream /\ stream' => "down" \in modes

LEMMA MarkedFits ==
  ASSUME NEW x \in RunType, NEW y \in RunType, NEW modes \in SUBSET {"up", "down"},
         Marked(x, y, modes), Disturbs(modes), ListFits(x), KnowsServer(x),
         stream \in BOOLEAN, stream' \in BOOLEAN, consumer \in BOOLEAN, consumer' \in BOOLEAN
  PROVE  ListFits(y) /\ KnowsServer(y)'
<1>1. ListFits(y)
  BY DEF ListFits, Marked
<1>2. KnowsServer(y)'
  <2> SUFFICES ASSUME ~y.disturbed PROVE KnowsServer(y)'
    BY DEF KnowsServer
  <2>1. ~x.disturbed /\ x.mode \notin modes
    BY DEF Marked
  <2>2. CASE x.mode = "up"
    <3>1. (stream => stream') /\ (consumer => consumer')
      BY <2>1, <2>2 DEF Disturbs
    <3>2. QED
      BY <2>1, <2>2, <3>1 DEF KnowsServer, Marked
  <2>3. CASE x.mode = "down"
    <3>1. stream' <=> stream
      BY <2>1, <2>3 DEF Disturbs
    <3>2. QED
      BY <2>1, <2>3, <3>1 DEF KnowsServer, Marked
  <2>4. CASE x.mode \notin {"up", "down"}
    BY <2>4 DEF KnowsServer, Marked, ListFits
  <2>5. QED
    BY <2>2, <2>3, <2>4
<1>3. QED
  BY <1>1, <1>2

LEMMA RunStep ==
  ASSUME IInv, NEW r \in Runs, NEW run \in RunType, NEW modes \in SUBSET {"up", "down"},
         runs' \in [Runs -> RunType], runs'[r] = run,
         \A q \in Runs \ {r} : Marked(runs[q], runs'[q], modes), Disturbs(modes),
         stream' \in BOOLEAN, consumer' \in BOOLEAN, consumer' => stream',
         held' \subseteq Events, held' # {} => stream', faults' \in 0 .. MaxFaults,
         UNCHANGED <<confirmed, refused, service>>,
         "up" \in modes => run.mode = "down",
         held' = held \/ run.mode = "down", stream => stream' \/ run.mode = "down",
         runs[r].mode = run.mode \/ runs[r].pc = "idle", runs[r].exit = "none",
         run.pc = "done" <=> run.exit # "none",
         run.pc \in {"inspect", "change"} => run.todo # <<>>,
         ListFits(run), KnowsServer(run)', run.exit = "failed" => HasCause(run),
         run.disturbed => runs[r].disturbed
  PROVE  IInv'
<1>1. runs \in [Runs -> RunType] /\ stream \in BOOLEAN /\ consumer \in BOOLEAN
  BY DEF IInv, TypeOK
<1>2. \A q \in Runs : runs[q].mode = "down" => runs'[q].mode = "down"
  <2>1. runs[r].mode = "down" => runs'[r].mode = "down"
    BY DEF IInv, ListFits
  <2>2. QED
    BY <2>1 DEF Marked
<1>3. \A q \in Runs : runs[q].exit = "failed" => runs'[q].exit = "failed"
  BY DEF Marked
<1>4. TypeOK'
  <2>1. ASSUME NEW q \in Runs
        PROVE  /\ runs'[q].pc = "done" <=> runs'[q].exit # "none"
               /\ runs'[q].pc \in {"inspect", "change"} => runs'[q].todo # <<>>
    <3>1. CASE q = r
      BY <3>1
    <3>2. CASE q # r
      BY <3>2 DEF IInv, TypeOK, Marked
    <3>3. QED
      BY <3>1, <3>2
  <2>2. confirmed \subseteq Events /\ refused \subseteq Events /\ service \in BOOLEAN
    BY DEF IInv, TypeOK
  <2>3. QED
    BY <2>1, <2>2 DEF TypeOK
<1>5. ASSUME NEW q \in Runs PROVE (ListFits(runs[q]) /\ KnowsServer(runs[q]))'
  <2>1. \E x : x = runs'[q] /\ ListFits(x) /\ KnowsServer(x)'
    <3>1. CASE q = r
      BY <3>1
    <3>2. CASE q # r
      <4>1. /\ runs[q] \in RunType /\ runs'[q] \in RunType
            /\ Marked(runs[q], runs'[q], modes) /\ ListFits(runs[q]) /\ KnowsServer(runs[q])
        BY <1>1, <3>2 DEF IInv
      <4>2. PICK x, y : x = runs[q] /\ y = runs'[q]
        OBVIOUS
      <4>3. /\ x \in RunType /\ y \in RunType /\ Marked(x, y, modes)
            /\ ListFits(x) /\ KnowsServer(x)
        BY <4>1, <4>2
      <4>4. ListFits(y) /\ KnowsServer(y)'
        BY <1>1, <4>3, MarkedFits
      <4>5. QED
        BY <4>2, <4>4
    <3>3. QED
      BY <3>1, <3>2
  <2>2. PICK x : x = runs'[q] /\ ListFits(x) /\ KnowsServer(x)'
    BY <2>1
  <2>3. QED
    BY <2>2 DEF ListFits, KnowsServer
<1>6. ServerHasHistory'
  <2>1. ASSUME NEW q \in Runs, runs'[q].mode = "up", runs'[q].disturbed
        PROVE  \E p \in Runs : runs'[p].mode = "down"
    <3>1. CASE q # r /\ "up" \in modes
      BY <3>1
    <3>2. CASE runs[q].disturbed /\ runs[q].mode = "up"
      BY <1>2, <3>2 DEF IInv, ServerHasHistory, IsRollback
    <3>3. runs[r].pc = "idle" => ~runs[r].disturbed
      BY DEF IInv, ListFits
    <3>4. QED
      BY <2>1, <3>1, <3>2, <3>3 DEF Marked
  <2>2. service => stream' \/ \E q \in Runs : runs'[q].mode = "down" \/ runs'[q].exit = "failed"
    BY <1>2, <1>3 DEF IInv, ServerHasHistory, IsRollback, HasFailed
  <2>3. QED
    BY <2>1, <2>2 DEF ServerHasHistory, IsRollback, HasFailed
<1>7. FailureHasCause'
  <2>1. ASSUME NEW q \in Runs, runs'[q].exit = "failed" PROVE HasCause(runs'[q])
    <3>1. CASE q = r
      BY <2>1, <3>1
    <3>2. CASE q # r
      BY <2>1, <3>2 DEF IInv, FailureHasCause, HasCause, Marked
    <3>3. QED
      BY <3>1, <3>2
  <2>2. QED
    BY <2>1 DEF FailureHasCause, HasCause
<1>8. EventsSurviveMigration'
  BY <1>2 DEF IInv, EventsSurviveMigration
<1>9. RefusedOnlyAfterFailure'
  BY <1>2, <1>3 DEF IInv, RefusedOnlyAfterFailure
<1>10. QED
  BY <1>4, <1>5, <1>6, <1>7, <1>8, <1>9 DEF IInv

-----------------------------------------------------------------------------
(* The two ways in which an action writes the runs.                         *)

(* A run in the middle of its migrations, and where it stands.              *)
Busy(r) == runs[r].pc \in {"inspect", "change"}

LEMMA Heads ==
  /\ Head(<<S, C>>) = S /\ Head(<<C, S>>) = C /\ Head(<<S>>) = S /\ Head(<<C>>) = C
OBVIOUS

LEMMA WhereItStands ==
  ASSUME IInv, NEW r \in Runs, Busy(r)
  PROVE  /\ runs[r] \in RunType /\ ListFits(runs[r]) /\ KnowsServer(runs[r])
         /\ runs[r].exit = "none"
         /\ runs[r].mode = "up" /\ Head(runs[r].todo).type = "stream" =>
              runs[r].todo = <<S, C>>
         /\ runs[r].mode = "up" /\ Head(runs[r].todo).type = "consumer" =>
              runs[r].todo = <<C>>
         /\ runs[r].mode = "down" /\ Head(runs[r].todo).type = "stream" =>
              runs[r].todo = <<S>>
         /\ runs[r].mode = "down" /\ Head(runs[r].todo).type = "consumer" =>
              runs[r].todo = <<C, S>>
<1>1. runs[r] \in RunType /\ ListFits(runs[r]) /\ KnowsServer(runs[r])
  BY DEF IInv, TypeOK
<1>2. runs[r].exit = "none"
  BY DEF IInv, TypeOK, Busy
<1>3. S.type = "stream" /\ C.type = "consumer"
  BY Loaded
<1>4. QED
  BY <1>1, <1>2, <1>3, Heads, LeftToDo DEF Busy

(* A step that only the run itself can see.                                 *)
LEMMA QuietStep ==
  ASSUME IInv, NEW r \in Runs, NEW run \in RunType, SetRun(r, run),
         UNCHANGED <<jetstream, events, service>>, faults' \in 0 .. MaxFaults,
         runs[r].mode = run.mode \/ runs[r].pc = "idle", runs[r].exit = "none",
         run.pc = "done" <=> run.exit # "none",
         run.pc \in {"inspect", "change"} => run.todo # <<>>,
         ListFits(run), KnowsServer(run), run.exit = "failed" => HasCause(run),
         run.disturbed => runs[r].disturbed
  PROVE  IInv'
<1>1. /\ runs \in [Runs -> RunType] /\ stream \in BOOLEAN /\ consumer \in BOOLEAN
      /\ consumer => stream
      /\ held \subseteq Events /\ (held # {} => stream)
  BY DEF IInv, TypeOK
<1>2. UNCHANGED <<stream, consumer, held, confirmed, refused, service>>
  BY DEF jetstream, events
<1>3. runs' \in [Runs -> RunType] /\ runs'[r] = run
  BY <1>1 DEF SetRun
<1>4. PICK modes \in SUBSET {"up", "down"} : modes = {}
  OBVIOUS
<1>5. (\A q \in Runs \ {r} : Marked(runs[q], runs'[q], modes)) /\ Disturbs(modes)
  BY <1>1, <1>2, <1>4 DEF SetRun, Marked, RunType, Disturbs
<1>6. KnowsServer(run)'
  BY <1>2 DEF KnowsServer
<1>7. "up" \notin modes
  BY <1>4
<1>8. /\ stream' \in BOOLEAN /\ consumer' \in BOOLEAN /\ (consumer' => stream')
      /\ held' \subseteq Events /\ (held' # {} => stream') /\ held' = held
      /\ stream => stream'
  BY <1>1, <1>2
<1>9. QED
  BY <1>2, <1>3, <1>4, <1>5, <1>6, <1>7, <1>8, RunStep

(* A call that changes the server, whether or not its answer arrives.       *)
LEMMA ChangingStep ==
  ASSUME IInv, NEW r \in Runs, NEW modes \in SUBSET {"up", "down"}, Busy(r),
         SetRunDisturbing(r, modes), Disturbs(modes),
         stream' \in BOOLEAN, consumer' \in BOOLEAN, consumer' => stream',
         held' \subseteq Events, held' # {} => stream',
         UNCHANGED <<confirmed, refused, service>>,
         "up" \in modes => runs[r].mode = "down",
         held' = held \/ runs[r].mode = "down", stream => stream' \/ runs[r].mode = "down",
         NEW next, next = Advanced(runs[r]), KnowsServer(next)'
  PROVE  IInv'
<1>1. /\ runs \in [Runs -> RunType] /\ faults \in 0 .. MaxFaults
      /\ MaxFaults \in Nat
  BY MigrationsAssumption DEF IInv, TypeOK
<1>2. /\ runs[r] \in RunType /\ ListFits(runs[r]) /\ runs[r].exit = "none"
      /\ runs[r].pc \in {"inspect", "change"}
  BY WhereItStands DEF Busy
<1>3. PICK run \in {Advanced(runs[r]), FailedCall(runs[r])} :
        /\ run.failedCall => faults < MaxFaults
        /\ faults' = IF run.failedCall THEN faults + 1 ELSE faults
        /\ runs' = [q \in Runs |-> IF q = r THEN run ELSE
                      [runs[q] EXCEPT !.disturbed = @ \/ runs[q].mode \in modes]]
  BY DEF SetRunDisturbing
<1>4. faults' \in 0 .. MaxFaults
  BY <1>1, <1>3
<1>5. PICK was : was = runs[r]
  OBVIOUS
<1>6. /\ was \in RunType /\ ListFits(was) /\ was.exit = "none"
      /\ was.pc \in {"inspect", "change"} /\ run \in {Advanced(was), FailedCall(was)}
  BY <1>2, <1>5
<1>7. /\ run \in RunType /\ ListFits(run) /\ SameRun(was, run)
      /\ run.pc = "done" <=> run.exit # "none"
      /\ run.pc \in {"inspect", "change"} => run.todo # <<>>
      /\ run.exit = "failed" => run.failedCall
  <2>1. CASE run = Advanced(was)
    <3>1. /\ run \in RunType /\ ListFits(run) /\ SameRun(was, run)
      BY <1>6, <2>1, AdvancedFits
    <3>2. \/ run.pc = "done" /\ run.exit = "completed"
          \/ run.pc = "inspect" /\ run.exit = "none" /\ run.todo \in {<<S>>, <<C>>}
      BY <1>6, <2>1, AdvancedFits, LeftToDo
    <3>3. QED
      BY <3>1, <3>2
  <2>2. CASE run = FailedCall(was)
    BY <1>6, <2>2, FailedFits
  <2>3. QED
    BY <1>6, <2>1, <2>2
<1>8. KnowsServer(run)'
  <2>1. CASE run = next
    BY <2>1
  <2>2. CASE run = FailedCall(was)
    <3>1. run.pc = "done" /\ run.exit = "failed"
      BY <1>6, <2>2, FailedFits
    <3>2. QED
      BY <3>1 DEF KnowsServer
  <2>3. QED
    BY <1>3, <1>5, <2>1, <2>2
<1>9. runs' \in [Runs -> RunType] /\ runs'[r] = run
  <2>1. ASSUME NEW q \in Runs
        PROVE  [runs[q] EXCEPT !.disturbed = @ \/ runs[q].mode \in modes] \in RunType
    <3>1. runs[q] \in RunType
      BY <1>1
    <3>2. (runs[q].disturbed \/ runs[q].mode \in modes) \in BOOLEAN
      OBVIOUS
    <3>3. QED
      BY <3>1, <3>2 DEF RunType
  <2>2. QED
    BY <1>3, <1>7, <2>1
<1>10. ASSUME NEW q \in Runs \ {r} PROVE Marked(runs[q], runs'[q], modes)
  <2>1. runs[q] \in RunType
    BY <1>1
  <2>2. runs'[q] = [runs[q] EXCEPT !.disturbed = runs[q].disturbed \/ runs[q].mode \in modes]
    BY <1>3
  <2>3. QED
    BY <2>1, <2>2 DEF Marked, RunType
<1>11. /\ run.mode = runs[r].mode /\ run.disturbed = runs[r].disturbed
       /\ run.exit = "failed" => HasCause(run)
  BY <1>5, <1>7 DEF SameRun, HasCause
<1>12. /\ "up" \in modes => run.mode = "down"
       /\ held' = held \/ run.mode = "down"
       /\ stream => stream' \/ run.mode = "down"
  BY <1>11
<1>13. QED
  BY <1>2, <1>4, <1>7, <1>8, <1>9, <1>10, <1>11, <1>12, RunStep

-----------------------------------------------------------------------------
(* The actions, one by one.                                                *)

LEMMA StartRunStep ==
  ASSUME IInv, NEW r \in Runs, NEW mode \in {"up", "down"}, StartRun(r, mode)
  PROVE  IInv'
<1> DEFINE run == [NewRun EXCEPT !.mode = mode, !.pc = "inspect", !.todo = Sorted(mode),
                                 !.began = stream]
<1>1. /\ runs[r] \in RunType /\ runs[r].pc = "idle" /\ runs[r].exit = "none"
      /\ stream \in BOOLEAN /\ faults \in 0 .. MaxFaults
  BY DEF IInv, TypeOK, StartRun
<1>2. Sorted(mode) \in {<<S, C>>, <<C, S>>} /\ Sorted(mode) \in Seq(LoadedMigrations)
  <2>1. Sorted(mode) \in {<<S, C>>, <<C, S>>}
    BY SortedLists
  <2>2. S \in LoadedMigrations /\ C \in LoadedMigrations
    BY Loaded
  <2>3. <<S, C>> \in Seq(LoadedMigrations) /\ <<C, S>> \in Seq(LoadedMigrations)
    BY <2>2
  <2>4. QED
    BY <2>1, <2>3
<1>3. run \in RunType
  BY <1>1, <1>2 DEF NewRun, RunType
<1>4. /\ run.mode = mode /\ run.pc = "inspect" /\ run.todo = Sorted(mode)
      /\ run.began = stream /\ ~run.disturbed /\ run.exit = "none"
  BY DEF NewRun
<1>5. SetRun(r, run) /\ UNCHANGED <<jetstream, events, service, faults>>
  BY DEF StartRun
<1> HIDE DEF run
<1>6. ListFits(run) /\ run.todo # <<>>
  BY <1>2, <1>4 DEF ListFits
<1>7. KnowsServer(run)
  <2>1. run.mode = "up" => Head(run.todo).type = "stream"
    BY <1>4, SortedLists, Heads, Loaded
  <2>2. QED
    BY <1>4, <2>1 DEF KnowsServer
<1>8. QED
  BY <1>1, <1>3, <1>4, <1>5, <1>6, <1>7, QuietStep

LEMMA ConnectFailsStep ==
  ASSUME IInv, NEW r \in Runs, ConnectFails(r)
  PROVE  IInv'
<1> DEFINE run == [NewRun EXCEPT !.pc = "done", !.exit = "fatal"]
<1>1. /\ runs[r] \in RunType /\ runs[r].pc = "idle" /\ runs[r].exit = "none"
      /\ faults \in 0 .. MaxFaults /\ faults < MaxFaults /\ faults' = faults + 1
  BY DEF IInv, TypeOK, ConnectFails
<1>2. faults' \in 0 .. MaxFaults
  BY <1>1, MigrationsAssumption
<1>3. <<>> \in Seq(LoadedMigrations)
  OBVIOUS
<1>4. run \in RunType
  BY <1>3 DEF NewRun, RunType
<1>5. run.mode = "none" /\ run.pc = "done" /\ ~run.disturbed /\ run.exit = "fatal"
  BY DEF NewRun
<1>6. SetRun(r, run) /\ UNCHANGED <<jetstream, events, service>>
  BY DEF ConnectFails
<1> HIDE DEF run
<1>7. ListFits(run) /\ KnowsServer(run)
  BY <1>5 DEF ListFits, KnowsServer
<1>8. QED
  BY <1>1, <1>2, <1>4, <1>5, <1>6, <1>7, QuietStep

(* A run that gives up, for one of the reasons FailureHasCause allows.      *)
LEMMA GivingUp ==
  ASSUME IInv, NEW r \in Runs, Busy(r), NEW run \in {Failed(runs[r]), FailedCall(runs[r])},
         SetRun(r, run), UNCHANGED <<jetstream, events, service>>,
         faults' \in 0 .. MaxFaults, run = FailedCall(runs[r]) \/ HasCause(runs[r])
  PROVE  IInv'
<1>1. PICK was : was = runs[r]
  OBVIOUS
<1>2. /\ was \in RunType /\ ListFits(was) /\ was.exit = "none"
      /\ was.pc \in {"inspect", "change"} /\ run \in {Failed(was), FailedCall(was)}
  BY <1>1, WhereItStands DEF Busy
<1>3. /\ run \in RunType /\ SameRun(was, run) /\ ListFits(run)
      /\ run.pc = "done" /\ run.exit = "failed"
      /\ run = FailedCall(was) => run.failedCall
  BY <1>2, FailedFits
<1>4. KnowsServer(run)
  BY <1>3 DEF KnowsServer
<1>5. was.failedCall => run.failedCall
  BY <1>2 DEF Failed, FailedCall, RunType
<1>6. HasCause(run)
  BY <1>1, <1>3, <1>5 DEF HasCause, SameRun
<1>7. run.mode = runs[r].mode /\ (run.disturbed => runs[r].disturbed) /\ runs[r].exit = "none"
  BY <1>1, <1>2, <1>3 DEF SameRun
<1>8. QED
  BY <1>3, <1>4, <1>6, <1>7, QuietStep

LEMMA CallFailsStep ==
  ASSUME IInv, NEW r \in Runs, CallFails(r)
  PROVE  IInv'
<1>1. faults' \in 0 .. MaxFaults
  BY MigrationsAssumption DEF IInv, TypeOK, CallFails
<1>2. /\ Busy(r) /\ SetRun(r, FailedCall(runs[r]))
      /\ UNCHANGED <<jetstream, events, service>>
  BY DEF CallFails, Busy
<1>3. QED
  BY <1>1, <1>2, GivingUp

LEMMA Types ==
  ASSUME IInv
  PROVE  /\ stream \in BOOLEAN /\ consumer \in BOOLEAN /\ (consumer => stream)
         /\ held \subseteq Events /\ (held # {} => stream)
         /\ faults \in 0 .. MaxFaults
BY DEF IInv, TypeOK

LEMMA InspectStreamStep ==
  ASSUME IInv, NEW r \in Runs, InspectStream(r)
  PROVE  IInv'
<1> DEFINE run == [runs[r] EXCEPT !.pc = "change", !.found = stream]
<1>1. /\ Busy(r) /\ runs[r].mode = "up" /\ runs[r].todo = <<S, C>>
      /\ runs[r] \in RunType /\ ListFits(runs[r]) /\ runs[r].exit = "none"
  BY WhereItStands DEF InspectStream, At, Busy
<1>2. SetRun(r, run) /\ UNCHANGED <<jetstream, events, service, faults>>
  BY DEF InspectStream
<1>3. run \in RunType
  BY <1>1, Types DEF RunType
<1>4. /\ run.mode = "up" /\ run.pc = "change" /\ run.todo = <<S, C>> /\ run.found = stream
      /\ run.disturbed = runs[r].disturbed /\ run.exit = "none"
  BY <1>1 DEF RunType
<1> HIDE DEF run
<1>5. ListFits(run) /\ run.todo # <<>>
  BY <1>4, SortedLists DEF ListFits
<1>6. KnowsServer(run)
  <2>1. Head(run.todo).type = "stream"
    BY <1>4, Heads, Loaded
  <2>2. QED
    BY <1>4, <2>1 DEF KnowsServer
<1>7. QED
  BY <1>1, <1>2, <1>3, <1>4, <1>5, <1>6, Types, QuietStep

LEMMA AddStreamStep ==
  ASSUME IInv, NEW r \in Runs, AddStream(r)
  PROVE  IInv'
<1>1. /\ Busy(r) /\ runs[r].mode = "up" /\ runs[r].todo = <<S, C>>
      /\ runs[r] \in RunType /\ ListFits(runs[r]) /\ runs[r].exit = "none"
  BY WhereItStands DEF AddStream, At, Busy
<1>2. /\ stream' = TRUE /\ SetRunDisturbing(r, {"down"})
      /\ UNCHANGED <<consumer, held, confirmed, refused, service>>
  BY DEF AddStream, events
<1>3. Disturbs({"down"})
  BY <1>2 DEF Disturbs
<1>4. PICK next : next = Advanced(runs[r])
  OBVIOUS
<1>5. next.pc = "inspect" /\ next.todo = <<C>> /\ next.exit = "none" /\ next.mode = "up"
  BY <1>1, <1>4, AdvancedFits DEF Busy, SameRun
<1>6. KnowsServer(next)'
  BY <1>2, <1>5 DEF KnowsServer
<1>7. {"down"} \in SUBSET {"up", "down"} /\ "up" \notin {"down"}
  OBVIOUS
<1>8. QED
  BY <1>1, <1>2, <1>3, <1>4, <1>6, <1>7, Types, ChangingStep

LEMMA UpdateStreamStep ==
  ASSUME IInv, NEW r \in Runs, UpdateStream(r)
  PROVE  IInv'
<1>1. /\ Busy(r) /\ runs[r].mode = "up" /\ runs[r].todo = <<S, C>>
      /\ runs[r].pc = "change" /\ runs[r].found
      /\ runs[r] \in RunType /\ ListFits(runs[r]) /\ runs[r].exit = "none"
      /\ Head(runs[r].todo).type = "stream"
  BY WhereItStands DEF UpdateStream, At, Busy
<1>2. CASE stream
  <2>1. SetRunDisturbing(r, {}) /\ UNCHANGED <<jetstream, events, service>>
    BY <1>2 DEF UpdateStream
  <2>2. PICK modes \in SUBSET {"up", "down"} : modes = {}
    OBVIOUS
  <2>3. /\ SetRunDisturbing(r, modes)
        /\ UNCHANGED <<stream, consumer, held, confirmed, refused, service>>
    BY <2>1, <2>2 DEF jetstream, events
  <2>4. Disturbs(modes) /\ "up" \notin modes
    BY <2>2, <2>3 DEF Disturbs
  <2>5. PICK next : next = Advanced(runs[r])
    OBVIOUS
  <2>6. next.pc = "inspect" /\ next.todo = <<C>> /\ next.exit = "none"
    BY <1>1, <2>5, AdvancedFits
  <2>7. next.mode = "up"
    BY <1>1, <2>5, AdvancedFits DEF SameRun
  <2>8. KnowsServer(next)'
    BY <1>2, <2>3, <2>6, <2>7 DEF KnowsServer
  <2>9. /\ stream' \in BOOLEAN /\ consumer' \in BOOLEAN /\ (consumer' => stream')
        /\ held' \subseteq Events /\ (held' # {} => stream') /\ held' = held
        /\ stream => stream'
    BY <2>3, Types
  <2>10. QED
    BY <1>1, <2>3, <2>4, <2>5, <2>8, <2>9, ChangingStep
<1>3. CASE ~stream
  <2>1. SetRun(r, Failed(runs[r])) /\ UNCHANGED <<jetstream, events, service, faults>>
    BY <1>3 DEF UpdateStream
  <2>2. runs[r].disturbed
    BY <1>1, <1>3, WhereItStands DEF KnowsServer
  <2>3. QED
    BY <1>1, <2>1, <2>2, Types, GivingUp DEF HasCause
<1>4. QED
  BY <1>2, <1>3, Types

LEMMA DeleteStreamStep ==
  ASSUME IInv, NEW r \in Runs, DeleteStream(r)
  PROVE  IInv'
<1>1. /\ Busy(r) /\ runs[r].mode = "down" /\ runs[r].todo = <<S>>
      /\ runs[r] \in RunType /\ ListFits(runs[r]) /\ runs[r].exit = "none"
  BY WhereItStands DEF DeleteStream, At, Busy
<1>2. /\ stream' = FALSE /\ consumer' = FALSE /\ held' = {}
      /\ SetRunDisturbing(r, {"up", "down"})
      /\ UNCHANGED <<confirmed, refused, service>>
  BY DEF DeleteStream, events
<1>3. PICK modes \in SUBSET {"up", "down"} : modes = {"up", "down"}
  OBVIOUS
<1>4. SetRunDisturbing(r, modes) /\ Disturbs(modes)
  BY <1>2, <1>3 DEF Disturbs
<1>5. PICK next : next = Advanced(runs[r])
  OBVIOUS
<1>6. next.pc = "done" /\ next.exit = "completed"
  BY <1>1, <1>5, AdvancedFits DEF Busy
<1>7. next.mode = "down"
  BY <1>1, <1>5, AdvancedFits DEF Busy, SameRun
<1>8. KnowsServer(next)'
  BY <1>2, <1>6, <1>7 DEF KnowsServer
<1>9. /\ stream' \in BOOLEAN /\ consumer' \in BOOLEAN /\ (consumer' => stream')
      /\ held' \subseteq Events /\ (held' # {} => stream')
  BY <1>2
<1>10. QED
  BY <1>1, <1>2, <1>4, <1>5, <1>8, <1>9, ChangingStep

LEMMA InspectConsumerStep ==
  ASSUME IInv, NEW r \in Runs, InspectConsumer(r)
  PROVE  IInv'
<1>1. /\ Busy(r) /\ runs[r].mode = "up" /\ runs[r].todo = <<C>>
      /\ runs[r].pc \in {"inspect", "change"}
      /\ runs[r] \in RunType /\ ListFits(runs[r]) /\ runs[r].exit = "none"
      /\ Head(runs[r].todo).type = "consumer" /\ KnowsServer(runs[r])
  BY WhereItStands DEF InspectConsumer, At, Busy
<1>2. UNCHANGED <<jetstream, events, service, faults>>
  BY DEF InspectConsumer
<1>3. CASE ~stream
  <2>1. SetRun(r, Failed(runs[r]))
    BY <1>3 DEF InspectConsumer
  <2>2. runs[r].disturbed
    BY <1>1, <1>3 DEF KnowsServer
  <2>3. QED
    BY <1>1, <1>2, <2>1, <2>2, Types, GivingUp DEF HasCause
<1>4. CASE stream /\ consumer
  <2>1. PICK run : run = Advanced(runs[r])
    OBVIOUS
  <2>2. SetRun(r, run)
    BY <1>4, <2>1 DEF InspectConsumer
  <2>3. /\ run \in RunType /\ SameRun(runs[r], run) /\ ListFits(run)
        /\ run.pc = "done" /\ run.exit = "completed"
    BY <1>1, <2>1, AdvancedFits
  <2>4. run.mode = "up" /\ run.disturbed = runs[r].disturbed
    BY <1>1, <2>3 DEF SameRun
  <2>5. KnowsServer(run)
    BY <1>4, <2>3, <2>4 DEF KnowsServer
  <2>6. QED
    BY <1>1, <1>2, <2>2, <2>3, <2>4, <2>5, Types, QuietStep
<1>5. CASE stream /\ ~consumer
  <2>1. PICK run : run = [runs[r] EXCEPT !.pc = "change"]
    OBVIOUS
  <2>2. SetRun(r, run)
    BY <1>5, <2>1 DEF InspectConsumer
  <2>3. /\ run \in RunType /\ run.mode = "up" /\ run.pc = "change" /\ run.todo = <<C>>
        /\ run.disturbed = runs[r].disturbed /\ run.exit = "none"
    BY <1>1, <2>1 DEF RunType
  <2>4. ListFits(run) /\ run.todo # <<>>
    BY <2>3, SortedLists DEF ListFits
  <2>5. KnowsServer(run)
    BY <1>5, <2>3 DEF KnowsServer
  <2>6. QED
    BY <1>1, <1>2, <2>2, <2>3, <2>4, <2>5, Types, QuietStep
<1>6. QED
  BY <1>3, <1>4, <1>5, Types

LEMMA AddConsumerStep ==
  ASSUME IInv, NEW r \in Runs, AddConsumer(r)
  PROVE  IInv'
<1>1. /\ Busy(r) /\ runs[r].mode = "up" /\ runs[r].todo = <<C>>
      /\ runs[r].pc \in {"inspect", "change"}
      /\ runs[r] \in RunType /\ ListFits(runs[r]) /\ runs[r].exit = "none"
      /\ Head(runs[r].todo).type = "consumer" /\ KnowsServer(runs[r])
  BY WhereItStands DEF AddConsumer, At, Busy
<1>2. UNCHANGED <<stream, held, confirmed, refused, service>>
  BY DEF AddConsumer, events
<1>3. CASE stream
  <2>1. consumer' = TRUE /\ SetRunDisturbing(r, {"down"})
    BY <1>3 DEF AddConsumer
  <2>2. {"down"} \in SUBSET {"up", "down"} /\ "up" \notin {"down"} /\ Disturbs({"down"})
    BY <1>2, <2>1 DEF Disturbs
  <2>3. PICK next : next = Advanced(runs[r])
    OBVIOUS
  <2>4. next.pc = "done" /\ next.exit = "completed"
    BY <1>1, <2>3, AdvancedFits
  <2>5. next.mode = "up"
    BY <1>1, <2>3, AdvancedFits DEF SameRun
  <2>6. KnowsServer(next)'
    BY <1>2, <1>3, <2>1, <2>4, <2>5 DEF KnowsServer
  <2>7. /\ stream' \in BOOLEAN /\ consumer' \in BOOLEAN /\ (consumer' => stream')
        /\ held' \subseteq Events /\ (held' # {} => stream') /\ held' = held
        /\ stream => stream'
    BY <1>2, <1>3, <2>1, Types
  <2>8. QED
    BY <1>1, <1>2, <2>1, <2>2, <2>3, <2>6, <2>7, ChangingStep
<1>4. CASE ~stream
  <2>1. SetRun(r, Failed(runs[r])) /\ UNCHANGED <<jetstream, events, service, faults>>
    BY <1>4 DEF AddConsumer, jetstream
  <2>2. runs[r].disturbed
    BY <1>1, <1>4 DEF KnowsServer
  <2>3. QED
    BY <1>1, <2>1, <2>2, Types, GivingUp DEF HasCause
<1>5. QED
  BY <1>3, <1>4, Types

LEMMA DeleteConsumerStep ==
  ASSUME IInv, NEW r \in Runs, DeleteConsumer(r)
  PROVE  IInv'
<1>1. /\ Busy(r) /\ runs[r].mode = "down" /\ runs[r].todo = <<C, S>>
      /\ runs[r].pc \in {"inspect", "change"}
      /\ runs[r] \in RunType /\ ListFits(runs[r]) /\ runs[r].exit = "none"
      /\ Head(runs[r].todo).type = "consumer" /\ KnowsServer(runs[r])
  BY WhereItStands DEF DeleteConsumer, At, Busy
<1>2. UNCHANGED <<stream, held, confirmed, refused, service>>
  BY DEF DeleteConsumer, events
<1>3. CASE stream
  <2>1. consumer' = FALSE /\ SetRunDisturbing(r, {"up"})
    BY <1>3 DEF DeleteConsumer
  <2>2. {"up"} \in SUBSET {"up", "down"} /\ Disturbs({"up"})
    BY <1>2, <1>3, <2>1 DEF Disturbs
  <2>3. PICK next : next = Advanced(runs[r])
    OBVIOUS
  <2>4. next.pc = "inspect" /\ next.exit = "none" /\ next.todo = <<S>>
    BY <1>1, <2>3, AdvancedFits
  <2>5. next.mode = "down" /\ Head(next.todo).type = "stream"
    BY <1>1, <2>3, <2>4, AdvancedFits, Heads, Loaded DEF SameRun
  <2>6. KnowsServer(next)'
    BY <2>4, <2>5 DEF KnowsServer
  <2>7. /\ stream' \in BOOLEAN /\ consumer' \in BOOLEAN /\ (consumer' => stream')
        /\ held' \subseteq Events /\ (held' # {} => stream')
    BY <1>2, <1>3, <2>1, Types
  <2>8. QED
    BY <1>1, <1>2, <2>1, <2>2, <2>3, <2>6, <2>7, ChangingStep
<1>4. CASE ~stream
  <2>1. SetRun(r, Failed(runs[r])) /\ UNCHANGED <<jetstream, events, service, faults>>
    BY <1>4 DEF DeleteConsumer, jetstream
  <2>2. runs[r].disturbed \/ ~runs[r].began
    BY <1>1, <1>4 DEF KnowsServer
  <2>3. QED
    BY <1>1, <2>1, <2>2, Types, GivingUp DEF HasCause
<1>5. QED
  BY <1>3, <1>4, Types

(* The question service.                                                    *)

LEMMA StartServiceStep ==
  ASSUME IInv, StartService
  PROVE  IInv'
<1>1. /\ UNCHANGED <<stream, consumer, held, confirmed, refused, runs, faults>>
      /\ service' = TRUE
  BY DEF StartService, jetstream, events
<1>2. PICK r \in Runs : runs[r].mode = "up" /\ runs[r].exit \in {"completed", "failed"}
  BY DEF StartService
<1>3. stream \/ \E q \in Runs : IsRollback(q) \/ HasFailed(q)
  <2>1. CASE runs[r].exit = "failed"
    BY <2>1 DEF HasFailed
  <2>2. CASE runs[r].disturbed
    BY <1>2, <2>2 DEF IInv, ServerHasHistory
  <2>3. CASE runs[r].exit = "completed" /\ ~runs[r].disturbed
    <3>1. KnowsServer(runs[r])
      BY DEF IInv
    <3>2. QED
      BY <1>2, <2>3, <3>1 DEF KnowsServer
  <2>4. QED
    BY <1>2, <2>1, <2>2, <2>3
<1>4. TypeOK'
  BY <1>1 DEF IInv, TypeOK
<1>5. (\A q \in Runs : ListFits(runs[q]) /\ KnowsServer(runs[q]))'
  BY <1>1 DEF IInv, ListFits, KnowsServer
<1>6. ServerHasHistory'
  BY <1>1, <1>3 DEF IInv, ServerHasHistory, IsRollback, HasFailed
<1>7. FailureHasCause' /\ EventsSurviveMigration' /\ RefusedOnlyAfterFailure'
  BY <1>1 DEF IInv, FailureHasCause, EventsSurviveMigration, RefusedOnlyAfterFailure
<1>8. QED
  BY <1>4, <1>5, <1>6, <1>7 DEF IInv

LEMMA PublishEventStep ==
  ASSUME IInv, NEW e \in Events, PublishEvent(e)
  PROVE  IInv'
<1>1. UNCHANGED <<stream, consumer, runs, service, faults>>
  BY DEF PublishEvent
<1>2. \/ stream /\ held' = held \cup {e} /\ confirmed' = confirmed \cup {e} /\ refused' = refused
      \/ ~stream /\ service /\ refused' = refused \cup {e} /\ held' = held
         /\ confirmed' = confirmed
  BY DEF PublishEvent
<1>3. TypeOK'
  BY <1>1, <1>2 DEF IInv, TypeOK
<1>4. (\A q \in Runs : ListFits(runs[q]) /\ KnowsServer(runs[q]))'
  BY <1>1 DEF IInv, ListFits, KnowsServer
<1>5. ServerHasHistory' /\ FailureHasCause'
  BY <1>1 DEF IInv, ServerHasHistory, FailureHasCause, IsRollback, HasFailed
<1>6. EventsSurviveMigration'
  BY <1>1, <1>2 DEF IInv, EventsSurviveMigration
<1>7. RefusedOnlyAfterFailure'
  BY <1>1, <1>2 DEF IInv, RefusedOnlyAfterFailure, ServerHasHistory, IsRollback, HasFailed
<1>8. QED
  BY <1>3, <1>4, <1>5, <1>6, <1>7 DEF IInv

-----------------------------------------------------------------------------
(* The theorems.                                                           *)

LEMMA Initially == Init => IInv
<1> SUFFICES ASSUME Init PROVE IInv
  OBVIOUS
<1>1. NewRun \in RunType
  <2>1. <<>> \in Seq(LoadedMigrations)
    OBVIOUS
  <2>2. QED
    BY <2>1 DEF NewRun, RunType
<1>2. \A r \in Runs : runs[r] = NewRun
  BY DEF Init
<1>3. /\ NewRun.pc = "idle" /\ NewRun.mode = "none" /\ NewRun.exit = "none"
      /\ ~NewRun.disturbed
  BY DEF NewRun
<1>4. TypeOK
  <2>1. runs \in [Runs -> RunType]
    BY <1>1 DEF Init
  <2>2. faults \in 0 .. MaxFaults
    BY MigrationsAssumption DEF Init
  <2>3. QED
    BY <1>2, <1>3, <2>1, <2>2 DEF Init, TypeOK
<1>5. ListFits(NewRun) /\ KnowsServer(NewRun)
  BY <1>3 DEF ListFits, KnowsServer
<1>6. \A r \in Runs : ListFits(runs[r]) /\ KnowsServer(runs[r])
  BY <1>2, <1>5
<1>7. ServerHasHistory /\ FailureHasCause
  BY <1>2, <1>3 DEF Init, ServerHasHistory, FailureHasCause
<1>8. EventsSurviveMigration /\ RefusedOnlyAfterFailure
  BY DEF Init, EventsSurviveMigration, RefusedOnlyAfterFailure
<1>9. QED
  BY <1>4, <1>6, <1>7, <1>8 DEF IInv

LEMMA Stuttering ==
  ASSUME IInv, UNCHANGED vars
  PROVE  IInv'
<1>1. UNCHANGED <<stream, consumer, held, confirmed, refused, runs, service, faults>>
  BY DEF vars
<1>2. TypeOK'
  BY <1>1 DEF IInv, TypeOK
<1>3. (\A q \in Runs : ListFits(runs[q]) /\ KnowsServer(runs[q]))'
  BY <1>1 DEF IInv, ListFits, KnowsServer
<1>4. ServerHasHistory' /\ FailureHasCause'
  BY <1>1 DEF IInv, ServerHasHistory, FailureHasCause, IsRollback, HasFailed
<1>5. EventsSurviveMigration' /\ RefusedOnlyAfterFailure'
  BY <1>1 DEF IInv, EventsSurviveMigration, RefusedOnlyAfterFailure
<1>6. QED
  BY <1>2, <1>3, <1>4, <1>5 DEF IInv

LEMMA MigrateStep ==
  ASSUME IInv, NEW r \in Runs, Migrate(r)
  PROVE  IInv'
BY InspectStreamStep, AddStreamStep, UpdateStreamStep, DeleteStreamStep,
   InspectConsumerStep, AddConsumerStep, DeleteConsumerStep, CallFailsStep
DEF Migrate

LEMMA Stepwise ==
  ASSUME IInv, [Next]_vars
  PROVE  IInv'
<1>1. CASE UNCHANGED vars
  BY <1>1, Stuttering
<1>2. ASSUME NEW r \in Runs, NEW mode \in {"up", "down"}, StartRun(r, mode) PROVE IInv'
  BY <1>2, StartRunStep
<1>3. ASSUME NEW r \in Runs, ConnectFails(r) PROVE IInv'
  BY <1>3, ConnectFailsStep
<1>4. ASSUME NEW r \in Runs, Migrate(r) PROVE IInv'
  BY <1>4, MigrateStep
<1>5. CASE StartService
  BY <1>5, StartServiceStep
<1>6. ASSUME NEW e \in Events, PublishEvent(e) PROVE IInv'
  BY <1>6, PublishEventStep
<1>7. QED
  BY <1>1, <1>2, <1>3, <1>4, <1>5, <1>6 DEF Next

\* What a run has found, done and seen at its start stays true of the server
\* until a run in the other direction changes it, through every step of every
\* run of the tool and every call that fails or loses its answer.
THEOREM InductiveInvariant == Spec => []IInv
<1>1. Init => IInv
  BY Initially
<1>2. IInv /\ [Next]_vars => IInv'
  BY Stepwise
<1>3. QED
  BY <1>1, <1>2, PTL DEF Spec

\* The runs, the server and the events keep their types: no consumer and no
\* event without its stream, and a migration to apply in the middle of a run.
THEOREM TypeCorrect == Spec => []TypeOK
<1>1. IInv => TypeOK
  BY DEF IInv
<1>2. QED
  BY <1>1, InductiveInvariant, PTL

\* RunMigrations and RollbackMigrations: a run that reports success and that
\* nobody disturbed has done the whole of its direction, however many runs
\* overlap and whatever earlier runs had left behind.
THEOREM CompletedRunsEffective == Spec => []CompletedRunIsEffective
<1>1. IInv => CompletedRunIsEffective
  <2> SUFFICES ASSUME IInv, NEW r \in Runs, runs[r].exit = "completed", ~runs[r].disturbed
               PROVE  (runs[r].mode = "up") <=> (stream /\ consumer)
    BY DEF CompletedRunIsEffective
  <2>1. KnowsServer(runs[r]) /\ stream \in BOOLEAN /\ consumer \in BOOLEAN
    BY DEF IInv, TypeOK
  <2>2. QED
    BY <2>1 DEF KnowsServer
<1>2. QED
  BY <1>1, InductiveInvariant, PTL

\* A run fails because a call of it failed, because another run took away what
\* it had found, or because it rolls back a stream that was never there.
THEOREM FailuresHaveCause == Spec => []FailureHasCause
<1>1. IInv => FailureHasCause
  BY DEF IInv
<1>2. QED
  BY <1>1, InductiveInvariant, PTL

\* Without a rollback no run of the tool loses an event the stream has confirmed.
THEOREM EventsSurvive == Spec => []EventsSurviveMigration
<1>1. IInv => EventsSurviveMigration
  BY DEF IInv
<1>2. QED
  BY <1>1, InductiveInvariant, PTL

\* Started as docker-compose.yml starts it, the question service lacks its
\* stream only after a rollback or after a run that failed and exited with 0.
THEOREM RefusedAfterFailure == Spec => []RefusedOnlyAfterFailure
<1>1. IInv => RefusedOnlyAfterFailure
  BY DEF IInv
<1>2. QED
  BY <1>1, InductiveInvariant, PTL
==============================================================================
