-------------------------------- MODULE Training --------------------------------
(***************************************************************************)
(* The training of the E11 classifier (ops/engine_context.py,              *)
(* train_classifier and train_classifier_bounded).  A worker process walks *)
(* the cells, labels every bar after a delay, and keeps the samples of     *)
(* each completed cell in a cache file; the supervisor follows it through  *)
(* a pipe, gives up at the deadline and kills it.  The next invocation     *)
(* resumes from the files whose input identity still matches.              *)
(*                                                                         *)
(* A cell's consumed rows are one of a few sequences of bars; the feature  *)
(* vector of a bar, its rule-tree label and its structural confirmation    *)
(* are attributes of the bar.  The fit is left out.                        *)
(***************************************************************************)
EXTENDS Integers, Sequences, FiniteSets, FiniteSetsExt, SequencesExt

CONSTANTS
  TrainedCells,     \* the cells of the scope, in order
  RowsOf,           \* RowsOf[cell]: the row sequences the store may hold
  LabelDelay,       \* candles after which a label is final (48)
  RequiredClasses,  \* FIT_REQUIRED_CLASSES
  MaxInvocations,   \* times the owner starts the training
  MaxStoreChanges   \* times the rows of a cell change

ASSUME TrainingBounds ==
  /\ LabelDelay \in Nat \ {0} /\ {MaxInvocations, MaxStoreChanges} \subseteq Nat
  /\ TrainedCells \in Seq(DOMAIN RowsOf)
  /\ \A c \in DOMAIN RowsOf : \A w \in RowsOf[c] : w \in Seq(Range(w))

VARIABLES
  rows,        \* the rows of each cell in the store
  cellCache,   \* cache file of each cell: none, or its input hash and samples
  worker,      \* dead, or where the worker is
  pipe,        \* messages on their way to the supervisor
  supervisor,  \* idle, or what it has seen of this invocation
  artifact,    \* none, or the rows and samples the written classifier was fitted on
  lastReport,  \* none, or the cells completed that the last timeout reported
  invocations, storeChanges

trainingVars == <<rows, cellCache, worker, pipe, supervisor, artifact, lastReport,
                  invocations, storeChanges>>

NoFile == [hash |-> <<>>, samples |-> <<>>, there |-> FALSE]
DeadWorker == [cell |-> 0]
NoSupervisor == [busy |-> FALSE, completed |-> <<>>]
Nothing == <<>>

TrainingInit ==
  /\ rows \in [Range(TrainedCells) -> UNION {RowsOf[c] : c \in DOMAIN RowsOf}]
  /\ \A c \in DOMAIN rows : rows[c] \in RowsOf[c]
  /\ cellCache = [c \in Range(TrainedCells) |-> NoFile]
  /\ worker = DeadWorker /\ pipe = <<>> /\ supervisor = NoSupervisor
  /\ artifact = Nothing /\ lastReport = Nothing /\ invocations = 0 /\ storeChanges = 0

-----------------------------------------------------------------------------
\* contiguous_label_horizon: each of the LabelDelay candles after i closes where
\* the one before it ends.
Contiguous(w, i) ==
  i + LabelDelay <= Len(w) /\ \A j \in i .. i + LabelDelay - 1 : w[j].adjoins

\* What the delayed label of bar i is, with the confirmations of `later'; a
\* sample, or none.
Labelled(w, i, later) ==
  IF /\ w[i].vector /\ Contiguous(w, i)
     /\ \A k \in DOMAIN later : w[later[k]].confirmed # "unknown"
  THEN <<[at |-> i, label |-> IF \E k \in DOMAIN later : w[later[k]].confirmed = "yes"
                              THEN w[i].rule0 ELSE "TRANSITION"]>>
  ELSE <<>>

\* delayed_training_labels: the definition the streamed labels are measured by.
SamplesOf(w) ==
  FlattenSeq([i \in 1 .. Max({0, Len(w) - LabelDelay}) |->
                Labelled(w, i, [k \in 1 .. LabelDelay |-> i + k])])

\* cell_input_hash identifies the rows that were consumed.
InputHash(w) == w

\* Mutant of CacheHit: the cache-only mode of the fit study, which takes the
\* recorded identity as it is.
CacheOfAnyRows(c, w) == cellCache[c].there

\* read_cell_cache: a completed cell is reloaded when its identity matches.
CacheHit(c, w) == cellCache[c].there /\ cellCache[c].hash = InputHash(w)

-----------------------------------------------------------------------------
\* The owner starts the training: the supervisor spawns a worker.
InvocationStarts ==
  /\ ~supervisor.busy /\ invocations < MaxInvocations
  /\ supervisor' = [busy |-> TRUE, completed |-> <<>>]
  /\ worker' = [cell |-> 1, window |-> <<>>, bar |-> 0, pending |-> <<>>, samples |-> <<>>,
                cells |-> [c \in Range(TrainedCells) |-> [rows |-> <<>>, samples |-> <<>>]], stage |-> "next"]
  /\ pipe' = <<>> /\ invocations' = invocations + 1 /\ lastReport' = Nothing
  /\ UNCHANGED <<rows, cellCache, artifact, storeChanges>>

Alive == worker.cell > 0
Current == TrainedCells[worker.cell]
Send(message) == pipe' = Append(pipe, message)
CellDone(w, samples) ==
  worker' = [worker EXCEPT !.cell = @ + 1, !.stage = "next",
                           !.cells[Current] = [rows |-> w, samples |-> samples]]

\* A cell: its rows are read; no rows and a cached cell are done at once, for any
\* other its bars are replayed.
CellStarts ==
  /\ Alive /\ worker.cell <= Len(TrainedCells) /\ worker.stage = "next"
  /\ LET w == rows[Current] IN
     IF w = <<>> THEN CellDone(w, <<>>) /\ Send([kind |-> "cell", cell |-> Current])
     ELSE IF CacheHit(Current, w)
     THEN CellDone(w, cellCache[Current].samples) /\ Send([kind |-> "cell", cell |-> Current])
     ELSE /\ worker' = [worker EXCEPT !.window = w, !.bar = 0, !.pending = <<>>,
                                      !.samples = <<>>, !.stage = "replay"]
          /\ pipe' = pipe
  /\ UNCHANGED <<rows, cellCache, supervisor, artifact, lastReport, invocations, storeChanges>>

\* Mutant of Ripe: the label of a bar is taken one candle early.
RipeEarly(pending) == Len(pending) >= LabelDelay

\* A candidate is labelled when LabelDelay items stand behind it.
Ripe(pending) == Len(pending) > LabelDelay

\* One item of the timeline joins the candidates; the oldest leaves with its label.
BarLabelled ==
  /\ Alive /\ worker.stage = "replay" /\ worker.bar < Len(worker.window)
  /\ LET pending == Append(worker.pending, worker.bar + 1)
         ripe == Ripe(pending)
     IN worker' = [worker EXCEPT
          !.bar = @ + 1,
          !.pending = IF ripe THEN Tail(pending) ELSE pending,
          !.samples = IF ripe THEN @ \o Labelled(worker.window, Head(pending), Tail(pending))
                      ELSE @]
  /\ UNCHANGED <<rows, cellCache, pipe, supervisor, artifact, lastReport, invocations,
                 storeChanges>>

\* write_cell_cache replaces the file atomically; the cell is reported after it.
CellCached ==
  /\ Alive /\ worker.stage = "replay" /\ worker.bar = Len(worker.window)
  /\ cellCache' = [cellCache EXCEPT ![Current] =
       [hash |-> InputHash(worker.window), samples |-> worker.samples, there |-> TRUE]]
  /\ worker' = [worker EXCEPT !.stage = "cached"]
  /\ UNCHANGED <<rows, pipe, supervisor, artifact, lastReport, invocations, storeChanges>>
CellReported ==
  /\ Alive /\ worker.stage = "cached"
  /\ CellDone(worker.window, worker.samples) /\ Send([kind |-> "cell", cell |-> Current])
  /\ UNCHANGED <<rows, cellCache, supervisor, artifact, lastReport, invocations, storeChanges>>

\* After the last cell: an empty required class refuses, otherwise the fit.
ClassesOf(cells) == {s.label : s \in UNION {Range(cells[c].samples) : c \in DOMAIN cells}}
WorkerFinishes ==
  /\ Alive /\ worker.cell = Len(TrainedCells) + 1
  /\ Send(IF RequiredClasses \subseteq ClassesOf(worker.cells)
          THEN [kind |-> "result", cells |-> worker.cells] ELSE [kind |-> "degenerate"])
  /\ worker' = DeadWorker
  /\ UNCHANGED <<rows, cellCache, supervisor, artifact, lastReport, invocations, storeChanges>>

\* check_deadline of the worker itself, and any other failure of it.
WorkerGivesUp ==
  /\ Alive /\ \E why \in {"TRAINING_TIME_LIMIT", "TRAINING_WORKER_FAILED"} :
       Send([kind |-> "error", reason |-> why])
  /\ worker' = DeadWorker
  /\ UNCHANGED <<rows, cellCache, supervisor, artifact, lastReport, invocations, storeChanges>>

-----------------------------------------------------------------------------
\* The end of an invocation: the worker is terminated whatever it does, what is
\* still in the pipe is lost.
Ends(report) ==
  /\ supervisor' = NoSupervisor /\ worker' = DeadWorker /\ pipe' = <<>>
  /\ lastReport' = report

\* The deadline: TrainingTimeout with the cells completed so far.
DeadlinePasses ==
  /\ supervisor.busy /\ Ends(supervisor.completed)
  /\ UNCHANGED <<rows, cellCache, artifact, invocations, storeChanges>>

\* One message of the pipe before the deadline.
MessageReceived ==
  /\ supervisor.busy /\ pipe # <<>>
  /\ LET message == Head(pipe) IN
     CASE message.kind = "cell" ->
            /\ supervisor' = [supervisor EXCEPT !.completed =
                                IF message.cell \in Range(@) THEN @ ELSE Append(@, message.cell)]
            /\ pipe' = Tail(pipe) /\ UNCHANGED <<worker, lastReport, artifact>>
       [] message.kind = "error" ->
            /\ Ends(IF message.reason = "TRAINING_TIME_LIMIT" THEN supervisor.completed
                    ELSE Nothing)
            /\ artifact' = artifact
       [] message.kind = "degenerate" -> Ends(Nothing) /\ artifact' = artifact
       [] message.kind = "result" -> Ends(Nothing) /\ artifact' = message.cells
  /\ UNCHANGED <<rows, cellCache, invocations, storeChanges>>

\* The program goes on while a training runs: rows arrive and are corrected.
StoreChanges ==
  /\ storeChanges < MaxStoreChanges /\ storeChanges' = storeChanges + 1
  /\ \E c \in DOMAIN rows : \E w \in RowsOf[c] \ {rows[c]} : rows' = [rows EXCEPT ![c] = w]
  /\ UNCHANGED <<cellCache, worker, pipe, supervisor, artifact, lastReport, invocations>>

TrainingNext ==
  \/ InvocationStarts \/ CellStarts \/ BarLabelled \/ CellCached \/ CellReported
  \/ WorkerFinishes \/ WorkerGivesUp \/ DeadlinePasses \/ MessageReceived \/ StoreChanges

-----------------------------------------------------------------------------
\* Every cell that goes into a fit, replayed now or reloaded from an earlier
\* invocation, carries the delayed labels of the rows this invocation read, and a
\* classifier is written only with every required class in it.
TrainedOnItsRows ==
  artifact # Nothing =>
     /\ RequiredClasses \subseteq ClassesOf(artifact)
     /\ \A c \in DOMAIN artifact : artifact[c].samples = SamplesOf(artifact[c].rows)
=============================================================================
