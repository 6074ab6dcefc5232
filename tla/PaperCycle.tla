------------------------------ MODULE PaperCycle ------------------------------
(***************************************************************************)
(* ops/paper_loop.py run_cycle and scheduler/clock.py run_cell: which cells *)
(* run on a cycle, how their coroutines share the semaphore and the trade  *)
(* budget, and how the durable cursor follows what was decided.            *)
(*                                                                         *)
(* What a cell decides inside is TradeLifecycle; here a run is refused     *)
(* (HALTED), blocked by drift, or admitted to execution.                   *)
(***************************************************************************)
EXTENDS Integers, FiniteSets

CONSTANTS
  Cells,           \* (symbol, timeframe) pairs of the scheduler
  Semaphore,       \* SCHEDULER_SEMAPHORE
  MaxTrades,       \* max_trades_per_cycle
  MaxClose         \* bound: closes of a cell's timeframe

ASSUME CycleAssumption ==
  /\ IsFiniteSet(Cells)
  /\ Semaphore \in Nat \ {0} /\ MaxTrades \in Nat /\ MaxClose \in Nat

VARIABLES
  close,           \* the market: latest close boundary of each cell
  cursor,          \* durable: cell_cursor, mirrored by _last_close
  decided,         \* history: (cell, close) pairs this process has decided
  drifting,        \* the scheduler was given a drift beyond tolerance
  moment,          \* the closes at the instant the cycle started
  failed,          \* cells whose catch-up or preparation failed this cycle
  run,             \* where each cell of this cycle stands
  recorded,        \* cells of this cycle whose cursor was written
  taken            \* _budget_taken

cycle == <<moment, failed, run, recorded, taken>>

Closes == 0..MaxClose
RunStates == {"none", "due", "running", "executing", "complete", "unsubmitted",
              "halted", "blocked"}
Settled == {"complete", "unsubmitted", "halted", "blocked"}

IdleCycle ==
  /\ moment' = [c \in Cells |-> 0]
  /\ failed' = {}
  /\ run' = [c \in Cells |-> "none"]
  /\ recorded' = {}
  /\ taken' = 0

CycleInit ==
  /\ close = [c \in Cells |-> 0] /\ cursor = [c \in Cells |-> 0]
  /\ decided = {}
  /\ drifting \in BOOLEAN
  /\ moment = [c \in Cells |-> 0]
  /\ failed = {}
  /\ run = [c \in Cells |-> "none"]
  /\ recorded = {}
  /\ taken = 0

InState(s) == {c \in Cells : run[c] = s}

-----------------------------------------------------------------------------
\* The cycle reads the clock once, resets the budget and catches up.
BeginCycle(stale) ==
  /\ moment' = close
  /\ taken' = 0
  /\ failed' = stale
  /\ run' = [c \in Cells |-> "none"]
  /\ recorded' = {}
  /\ UNCHANGED <<close, cursor, decided, drifting>>

\* Mutant of NotYetDecided: a close equal to the cursor is due again.
NotYetDecidedOrEqual(c) == moment[c] > 0 /\ moment[c] >= cursor[c]

NotYetDecided(c) == moment[c] > cursor[c]

\* due_cells, the already-decided filter, and the preparation of the rest.
SelectDue(unprepared) ==
  LET due == {c \in Cells : NotYetDecided(c)}
  IN  /\ unprepared \subseteq due \ failed
      /\ failed' = failed \cup unprepared
      /\ run' = [c \in Cells |-> IF c \in due THEN "due" ELSE "none"]
      /\ UNCHANGED <<close, cursor, decided, drifting, moment, recorded, taken>>

\* Mutant of Decides: a cell whose sources failed counts as decided.
DecidesAnyway(c) == TRUE

\* A run decides its close unless its sources failed.
Decides(c) == c \notin failed

Settle(c, s) ==
  /\ run' = [run EXCEPT ![c] = s]
  /\ decided' = IF c \in failed THEN decided
                ELSE decided \cup {<<c, moment[c]>>}

EnterCell(c) ==
  /\ run[c] = "due"
  /\ Cardinality(InState("running") \cup InState("executing")) < Semaphore
  /\ run' = [run EXCEPT ![c] = "running"]
  /\ UNCHANGED <<close, cursor, decided, drifting, moment, failed, recorded,
                 taken>>

\* Drift beyond tolerance: not one stage of the cell runs.
BlockCell(c) ==
  /\ run[c] = "running" /\ drifting
  /\ Settle(c, "blocked")
  /\ UNCHANGED <<close, cursor, drifting, moment, failed, recorded, taken>>

\* Any stage may refuse; a cell whose sources failed always ends here.
HaltCell(c) ==
  /\ run[c] = "running" /\ ~drifting
  /\ Settle(c, "halted")
  /\ UNCHANGED <<close, cursor, drifting, moment, failed, recorded, taken>>

\* Mutant of TakeBudget: the check and the reservation are apart.
TakeBudgetUnchecked == taken' = taken + 1

\* _take_budget: check and increment without an await in between.
TakeBudget == taken < MaxTrades /\ taken' = taken + 1

AdmitCell(c) ==
  /\ run[c] = "running" /\ ~drifting /\ c \notin failed
  /\ TakeBudget
  /\ run' = [run EXCEPT ![c] = "executing"]
  /\ UNCHANGED <<close, cursor, decided, drifting, moment, failed, recorded>>

\* execute_plan returns; a request that did not leave gives its slot back.
FinishCell(c, submitted) ==
  /\ run[c] = "executing"
  /\ Settle(c, IF submitted THEN "complete" ELSE "unsubmitted")
  /\ taken' = IF submitted THEN taken ELSE taken - 1
  /\ UNCHANGED <<close, cursor, drifting, moment, failed, recorded>>

\* execute_plan raises: the stage fails and the slot stays taken.
FailCell(c) ==
  /\ run[c] = "executing"
  /\ Settle(c, "halted")
  /\ UNCHANGED <<close, cursor, drifting, moment, failed, recorded, taken>>

CellRunStep(c) ==
  \/ EnterCell(c) \/ BlockCell(c) \/ HaltCell(c) \/ AdmitCell(c) \/ FailCell(c)
  \/ \E submitted \in BOOLEAN : FinishCell(c, submitted)

\* asyncio.gather has returned.
CellsGathered == \A c \in Cells : run[c] \in Settled \cup {"none"}

Recordable == {c \in Cells : run[c] \in Settled /\ Decides(c)}

\* upsert_cell_cursor for one run; a HALTED or BLOCKED close is used up too.
RecordCursor(c) ==
  /\ c \in Recordable \ recorded
  /\ cursor' = [cursor EXCEPT ![c] =
                  IF moment[c] > @ THEN moment[c] ELSE @]
  /\ recorded' = recorded \cup {c}
  /\ UNCHANGED <<close, decided, drifting, moment, failed, run, taken>>

\* A timeframe boundary passes.
BarCloses(c) ==
  /\ close[c] < MaxClose
  /\ close' = [close EXCEPT ![c] = @ + 1]
  /\ UNCHANGED <<cursor, decided, drifting, cycle>>

CycleTypeOK ==
  /\ close \in [Cells -> Closes] /\ cursor \in [Cells -> Closes]
  /\ moment \in [Cells -> Closes]
  /\ decided \subseteq Cells \X Closes
  /\ drifting \in BOOLEAN
  /\ failed \subseteq Cells /\ recorded \subseteq Cells
  /\ run \in [Cells -> RunStates]
  /\ taken \in 0..MaxTrades
=============================================================================
