--------------------------- MODULE TradeLifecycle ----------------------------
(***************************************************************************)
(* One governed plan, end to end, as the composition of                    *)
(*   - the cell pipeline (ops/paper_loop.py execute_plan and the gates     *)
(*     that admit a plan to it),                                           *)
(*   - the execution state machine (execution/fsm.py ExecutionFSM),        *)
(*   - the durable tables it writes through the ledger writer,             *)
(*   - exit management (ops/paper_loop.py manage_positions),               *)
(*   - and the venue, known only through the adapter's answers.            *)
(*                                                                         *)
(* Every action is the code between two awaits that other coroutines, the  *)
(* venue or a crash can observe.  Cell coroutines of different intents     *)
(* interleave; manage_positions runs only when all of them have returned   *)
(* (run_cycle gathers them first) and handles one position at a time.      *)
(* All plans are LONG: a SHORT is its mirror image under side_for.         *)
(***************************************************************************)
EXTENDS Integers, FiniteSetsExt, FsmMatrix

CONSTANTS
  Intents,            \* intent_id_for(plan, close): one FSM and one order each
  Proposals,          \* proposal_id: primary key of the trade_plan table
  ProposalOf,         \* the plan each intent executes
  Symbols, SymbolOf,  \* the contract each intent trades
  Quantity,           \* plan.sized_quantity, in lots
  Tolerance,          \* RECONCILE_DELTA_TOLERANCE_UNITS
  FillPollAttempts,   \* PaperRuntime.fill_poll_attempts
  OrderTables,        \* deployments: the order kinds their wire table knows
  MaxRestarts         \* bound: how often the process is started again

ASSUME OrdersAssumption ==
  /\ ProposalOf \in [Intents -> Proposals]
  /\ SymbolOf \in [Intents -> Symbols]
  /\ Quantity \in Nat \ {0}
  /\ FillPollAttempts \in Nat \ {0}
  /\ Tolerance \in Nat
  /\ MaxRestarts \in Nat

VARIABLES
  \* durable, in the SQLite file
  planRow,            \* proposals with a trade_plan row
  row,                \* to_state of the intent's last FSM_TRANSITION record
  bought, sold,       \* lots of the intent's entry and exit FILL records
  \* the venue
  sends,              \* entry requests that left the process, per intent
  order,              \* status of the entry order
  filled,             \* lots executed on the entry order
  legs, fired,        \* reduce-only orders accepted, and those executed
  position,           \* net position per symbol (ONE_WAY mode)
  \* the market
  reached,            \* the last closed bar is at the stop or the target
  \* the process
  table,              \* order kinds of params/toobit_wire: fixed at start
  proc,               \* "up", "halted" by its own exception, "down" by a crash
  trading,            \* boot landed in READY
  pc,                 \* where the intent's coroutine stands
  fsm,                \* ExecutionFSM._state
  polls, seen,        \* _observe_fill: attempts made, lots reported
  legsOk,             \* place_protection: all(r.ok for r in results) so far
  working,            \* PaperRuntime.working
  exitAsked,          \* exit ids the adapter has recorded an answer for
  restarts

durable == <<planRow, row, bought, sold>>
venue == <<sends, order, filled, legs, fired, position>>
process == <<proc, trading, pc, fsm, polls, seen, legsOk, working, exitAsked>>
vars == <<durable, venue, process, reached, table, restarts>>

Legs == {"stop", "target", "exit"}
WorkingStatus == {"NEW", "PARTIALLY_FILLED"}
EndedStatus == {"CANCELED", "EXPIRED", "REJECTED"}

CellSteps == {"planned", "submitting", "sent", "poll", "book", "stop",
              "target", "conclude", "activate"}
ExitSteps == {"exitbook", "exitclose", "exitreconcile"}
Locations == {"idle", "done"} \cup CellSteps \cup ExitSteps

Init ==
  /\ planRow = {}
  /\ row = [i \in Intents |-> "READY"]
  /\ bought = [i \in Intents |-> 0]
  /\ sold = [i \in Intents |-> 0]
  /\ sends = [i \in Intents |-> 0]
  /\ order = [i \in Intents |-> "NONE"]
  /\ filled = [i \in Intents |-> 0]
  /\ legs = [i \in Intents |-> {}]
  /\ fired = [i \in Intents |-> {}]
  /\ position = [s \in Symbols |-> 0]
  /\ reached = {}
  /\ table \in OrderTables
  /\ proc = "up"
  /\ trading = TRUE
  /\ pc = [i \in Intents |-> "idle"]
  /\ fsm = [i \in Intents |-> "READY"]
  /\ polls = [i \in Intents |-> 0]
  /\ seen = [i \in Intents |-> 0]
  /\ legsOk = [i \in Intents |-> TRUE]
  /\ working = {}
  /\ exitAsked = {}
  /\ restarts = 0

-----------------------------------------------------------------------------
\* Shared vocabulary

\* positions_from_ledger: the net quantity the FILL records add up to.
LedgerNet(s) ==
  MapThenSumSet(LAMBDA i : bought[i] - sold[i],
                {i \in Intents : SymbolOf[i] = s})

\* abs(exchange - ledger) <= RECONCILE_DELTA_TOLERANCE_UNITS.
WithinTolerance(a, b) == a - b <= Tolerance /\ b - a <= Tolerance

\* A coroutine continues at location l.
Goto(i, l) == pc' = [pc EXCEPT ![i] = l]

\* Mutant of Advance: the matrix is not consulted for the source state.
AdvanceUnchecked(i, trigger) ==
  \E e \in LegalTransitions :
    /\ e[2] = trigger
    /\ fsm' = [fsm EXCEPT ![i] = e[3]]
    /\ row' = [row EXCEPT ![i] = e[3]]

\* ExecutionFSM.advance: the record is appended, then _state is assigned.
Advance(i, trigger) ==
  /\ IsLegal(fsm[i], trigger)
  /\ fsm' = [fsm EXCEPT ![i] = Destination(fsm[i], trigger)]
  /\ row' = [row EXCEPT ![i] = Destination(fsm[i], trigger)]

\* The trigger apply_adapter_result fires for an adapter outcome.
TriggerFor(outcome) ==
  CASE outcome = "ACKNOWLEDGED" -> "EXCHANGE_ACK"
    [] outcome = "PARTIAL" -> "PARTIAL_FILL"
    [] outcome = "FILLED" -> "FULL_FILL"
    [] outcome = "REJECTED" -> "EXCHANGE_REJECT"
    [] outcome = "CANCELLED" -> "CANCEL_CONFIRMED"
    [] outcome = "UNKNOWN" -> "UNKNOWN_OUTCOME"

\* EXCHANGE_STATUS_MAP; EXPIRED stands for every literal mapped to UNKNOWN.
OutcomeOf(status) ==
  CASE status = "NEW" -> "ACKNOWLEDGED"
    [] status = "PARTIALLY_FILLED" -> "PARTIAL"
    [] status = "FILLED" -> "FILLED"
    [] status = "CANCELED" -> "CANCELLED"
    [] status = "REJECTED" -> "REJECTED"
    [] status = "EXPIRED" -> "UNKNOWN"

\* What the adapter may report of an order.  UNKNOWN is a timeout, a
\* transport fault, an exhausted rate limit or an unmapped code; an accepted
\* request whose body carries no status literal reads ACKNOWLEDGED; a request
\* or query the venue refused by code (-1022, -1120) reads REJECTED, whatever
\* became of the order.
Answers(i) ==
  {"UNKNOWN", "REJECTED"} \cup
  IF order[i] = "NONE" THEN {} ELSE {"ACKNOWLEDGED", OutcomeOf(order[i])}

\* No cell coroutine is running, and no position is being closed.
CellsReturned == \A i \in Intents : pc[i] \notin CellSteps
NoExitInProgress == \A i \in Intents : pc[i] \notin ExitSteps

\* run_cell: one coroutine per cell at a time, so two intents of one plan
\* (two closes of its cell) never run together.
CellIdle(i) ==
  \A j \in Intents : ProposalOf[j] = ProposalOf[i] => pc[j] \notin CellSteps

-----------------------------------------------------------------------------
\* The cell pipeline: gates, plan row, submission

\* Mutant of Admissible: the materialized_ids gate is dropped.
AdmissibleUngated(i) ==
  /\ proc = "up" /\ trading
  /\ pc[i] = "idle"
  /\ CellIdle(i) /\ NoExitInProgress

\* A cell admits the plan: the boot verdict and the materialized_ids gate.
Admissible(i) ==
  /\ proc = "up" /\ trading
  /\ pc[i] = "idle"
  /\ CellIdle(i) /\ NoExitInProgress
  /\ ProposalOf[i] \notin planRow

\* append_trade_plan: the row is committed before anything else is written.
Materialize(i) ==
  /\ Admissible(i)
  /\ planRow' = planRow \cup {ProposalOf[i]}
  /\ Goto(i, "planned")
  /\ UNCHANGED <<row, bought, sold, venue, proc, trading, fsm, polls, seen,
                 legsOk, working, exitAsked, reached, table, restarts>>

\* pre_submission_validation refuses: a READY -> REJECTED record, no plan row.
RefuseValidation(i) ==
  /\ Admissible(i)
  /\ Advance(i, "VALIDATION_FAILED")
  /\ Goto(i, "done")
  /\ UNCHANGED <<planRow, bought, sold, venue, proc, trading, polls, seen,
                 legsOk, working, exitAsked, reached, table, restarts>>

\* Mutant of Announce: the request leaves before the SUBMIT_ORDER record.
AnnounceLate(i) ==
  /\ proc = "up" /\ pc[i] = "planned"
  /\ Goto(i, "submitting")
  /\ UNCHANGED <<durable, venue, proc, trading, fsm, polls, seen, legsOk,
                 working, exitAsked, reached, table, restarts>>

\* The TRADE_PLAN record and the SUBMIT_ORDER transition.
Announce(i) ==
  /\ proc = "up" /\ pc[i] = "planned"
  /\ Advance(i, "SUBMIT_ORDER")
  /\ Goto(i, "submitting")
  /\ UNCHANGED <<planRow, bought, sold, venue, proc, trading, polls, seen,
                 legsOk, working, exitAsked, reached, table, restarts>>

\* The adapter refuses before any exchange call: EXCHANGE_REJECT, nothing sent.
RefuseLocally(i) ==
  /\ proc = "up" /\ pc[i] = "submitting"
  /\ Advance(i, "EXCHANGE_REJECT")
  /\ Goto(i, "done")
  /\ UNCHANGED <<planRow, bought, sold, venue, proc, trading, polls, seen,
                 legsOk, working, exitAsked, reached, table, restarts>>

\* The adapter raises before the request (no credentials, a quantization
\* error): the stage fails and the machine is dropped in SUBMITTING.
AbortLocally(i) ==
  /\ proc = "up" /\ pc[i] = "submitting"
  /\ Goto(i, "done")
  /\ UNCHANGED <<durable, venue, proc, trading, fsm, polls, seen, legsOk,
                 working, exitAsked, reached, table, restarts>>

\* Mutant of Observe: the sized quantity is booked, not the executed one.
ObserveSized(i, complete) ==
  IF complete
  THEN seen' = [seen EXCEPT ![i] = Quantity] /\ Goto(i, "book")
  ELSE Goto(i, "done") /\ UNCHANGED seen

\* fill_from_result: the executed lots, if the answer carries both numbers;
\* otherwise FILL_DATA_INCOMPLETE ends the coroutine.
Observe(i, complete) ==
  IF complete
  THEN seen' = [seen EXCEPT ![i] = filled[i]] /\ Goto(i, "book")
  ELSE Goto(i, "done") /\ UNCHANGED seen

\* The signed POST leaves.  It may never reach the venue, or be refused there.
Transmit(i, accepted) ==
  /\ proc = "up" /\ pc[i] = "submitting"
  /\ sends' = [sends EXCEPT ![i] = @ + 1]
  /\ order' = [order EXCEPT ![i] = IF accepted THEN "NEW" ELSE @]
  /\ Goto(i, "sent")
  /\ UNCHANGED <<durable, filled, legs, fired, position, proc, trading, fsm,
                 polls, seen, legsOk, working, exitAsked, reached, table,
                 restarts>>

\* The answer to the submission: a full fill is taken from it, any other
\* outcome is polled.
Answer(i, outcome, complete) ==
  /\ proc = "up" /\ pc[i] = "sent"
  /\ outcome \in Answers(i)
  /\ Advance(i, TriggerFor(outcome))
  /\ IF outcome = "FILLED" THEN Observe(i, complete)
     ELSE Goto(i, "poll") /\ UNCHANGED seen
  /\ UNCHANGED <<planRow, bought, sold, venue, proc, trading, polls, legsOk,
                 working, exitAsked, reached, table, restarts>>

-----------------------------------------------------------------------------
\* _observe_fill: at most FillPollAttempts keyed queries

LeavePoll(i) == polls' = [polls EXCEPT ![i] = 0]

\* Mutant of PollAgain: one attempt too many.
PollOnceMore(i) ==
  IF polls[i] < FillPollAttempts
  THEN polls' = [polls EXCEPT ![i] = @ + 1] /\ UNCHANGED pc
  ELSE LeavePoll(i) /\ Goto(i, "done")

\* The attempt is spent; the loop goes on or falls through to
\* FILL_NOT_OBSERVED_YET, which ends the coroutine without a working entry.
PollAgain(i) ==
  IF polls[i] + 1 < FillPollAttempts
  THEN polls' = [polls EXCEPT ![i] = @ + 1] /\ UNCHANGED pc
  ELSE LeavePoll(i) /\ Goto(i, "done")

\* A repeated ACK is not a second transition.  After a PARTIAL it is read as
\* a fill without numbers, and ends the coroutine.
PollAcknowledged(i) ==
  /\ proc = "up" /\ pc[i] = "poll"
  /\ "ACKNOWLEDGED" \in Answers(i)
  /\ \/ fsm[i] = "ACKNOWLEDGED" /\ PollAgain(i)
     \/ fsm[i] = "PARTIAL" /\ Goto(i, "done") /\ LeavePoll(i)
  /\ UNCHANGED <<durable, venue, proc, trading, fsm, seen, legsOk, working,
                 exitAsked, reached, table, restarts>>

\* Any other answer is applied through the matrix.
PollApplied(i, outcome, complete) ==
  /\ proc = "up" /\ pc[i] = "poll"
  /\ outcome \in Answers(i)
  /\ outcome = "ACKNOWLEDGED" => fsm[i] \notin {"ACKNOWLEDGED", "PARTIAL"}
  /\ Advance(i, TriggerFor(outcome))
  /\ \/ /\ outcome \in {"ACKNOWLEDGED", "UNKNOWN"}
        /\ PollAgain(i)
        /\ UNCHANGED seen
     \/ /\ outcome \in {"FILLED", "PARTIAL"}
        /\ Observe(i, complete)
        /\ LeavePoll(i)
     \/ /\ outcome \in {"REJECTED", "CANCELLED"}
        /\ Goto(i, "done")
        /\ LeavePoll(i)
        /\ UNCHANGED seen
  /\ UNCHANGED <<planRow, bought, sold, venue, proc, trading, legsOk, working,
                 exitAsked, reached, table, restarts>>

\* IllegalTransitionError: the stage fails and the machine is dropped.
PollRaises(i, outcome) ==
  /\ proc = "up" /\ pc[i] = "poll"
  /\ outcome \in Answers(i)
  /\ outcome = "ACKNOWLEDGED" => fsm[i] \notin {"ACKNOWLEDGED", "PARTIAL"}
  /\ ~IsLegal(fsm[i], TriggerFor(outcome))
  /\ Goto(i, "done")
  /\ LeavePoll(i)
  /\ UNCHANGED <<durable, venue, proc, trading, fsm, seen, legsOk,
                 working, exitAsked, reached, table, restarts>>

\* record_fill: the entry FILL record, with the executed quantity reported.
Book(i) ==
  /\ proc = "up" /\ pc[i] = "book"
  /\ bought' = [bought EXCEPT ![i] = seen[i]]
  /\ Goto(i, "stop")
  /\ UNCHANGED <<planRow, row, sold, venue, proc, trading, fsm, polls, seen,
                 legsOk, working, exitAsked, reached, table, restarts>>

-----------------------------------------------------------------------------
\* place_protection and activate_management

\* One protective leg: the venue may or may not hold it afterwards (live),
\* and the answer may or may not be classified OK.  The two are independent:
\* a timed-out request may have been accepted, and a code-0 body may carry
\* the status REJECTED or EXPIRED.
PlaceLeg(i, leg, live, ok) ==
  /\ proc = "up" /\ pc[i] = leg /\ leg \in {"stop", "target"}
  /\ legs' = [legs EXCEPT ![i] = IF live THEN @ \cup {leg} ELSE @]
  /\ legsOk' = [legsOk EXCEPT ![i] = @ /\ ok]
  /\ Goto(i, IF leg = "stop" THEN "target" ELSE "conclude")
  /\ UNCHANGED <<durable, sends, order, filled, fired, position, proc,
                 trading, fsm, polls, seen, working, exitAsked, reached,
                 table, restarts>>

\* A plan may carry neither stop nor target (normalize_plan only refuses one
\* without the other): quantizing the stop price raises, after the fill.
StopPriceMissing(i) ==
  /\ proc = "up" /\ pc[i] = "stop"
  /\ Goto(i, "done")
  /\ UNCHANGED <<durable, venue, proc, trading, fsm, polls, seen, legsOk,
                 working, exitAsked, reached, table, restarts>>

\* PROTECTION_PLACED: both results were OK.
ProtectionPlaced(i) ==
  /\ proc = "up" /\ pc[i] = "conclude" /\ legsOk[i]
  /\ Advance(i, "PROTECTION_PLACED")
  /\ Goto(i, "activate")
  /\ UNCHANGED <<planRow, bought, sold, venue, proc, trading, polls, seen,
                 legsOk, working, exitAsked, reached, table, restarts>>

\* The machine is kept in `working` even though nothing protects it.
ProtectionFailed(i) ==
  /\ proc = "up" /\ pc[i] = "conclude" /\ ~legsOk[i]
  /\ Advance(i, "PROTECTION_FAILED")
  /\ working' = working \cup {i}
  /\ Goto(i, "done")
  /\ UNCHANGED <<planRow, bought, sold, venue, proc, trading, polls, seen,
                 legsOk, exitAsked, reached, table, restarts>>

\* Mutant of ProtectionRaises: the legs are placed again until they are taken.
ProtectionRetries(i) ==
  /\ proc = "up" /\ pc[i] = "conclude" /\ ~legsOk[i]
  /\ ~IsLegal(fsm[i], "PROTECTION_FAILED")
  /\ Goto(i, "stop")
  /\ legsOk' = [legsOk EXCEPT ![i] = TRUE]
  /\ UNCHANGED <<durable, venue, proc, trading, fsm, polls, seen, working,
                 exitAsked, reached, table, restarts>>

\* From PARTIAL the matrix has no PROTECTION_FAILED: the stage raises before
\* the machine is registered.
ProtectionRaises(i) ==
  /\ proc = "up" /\ pc[i] = "conclude" /\ ~legsOk[i]
  /\ ~IsLegal(fsm[i], "PROTECTION_FAILED")
  /\ Goto(i, "done")
  /\ UNCHANGED <<durable, venue, proc, trading, fsm, polls, seen, legsOk,
                 working, exitAsked, reached, table, restarts>>

Activate(i) ==
  /\ proc = "up" /\ pc[i] = "activate"
  /\ Advance(i, "MANAGEMENT_ACTIVE")
  /\ working' = working \cup {i}
  /\ Goto(i, "done")
  /\ UNCHANGED <<planRow, bought, sold, venue, proc, trading, polls, seen,
                 legsOk, exitAsked, reached, table, restarts>>

-----------------------------------------------------------------------------
\* manage_positions: one position at a time, after the cells have returned

ExitDue(i) ==
  /\ proc = "up"
  /\ CellsReturned /\ NoExitInProgress
  /\ i \in working /\ fsm[i] = "MANAGED" /\ i \in reached

\* order_defaults("exit") raises when the wire table has no such kind; the
\* exception leaves manage_positions, run_cycle, run and the serve entry.
ExitKindUnknown(i) ==
  /\ ExitDue(i)
  /\ i \notin exitAsked
  /\ "exit" \notin table
  /\ proc' = "halted"
  /\ UNCHANGED <<durable, venue, trading, pc, fsm, polls, seen, legsOk,
                 working, exitAsked, reached, table, restarts>>

\* Mutant of ExitFillSeen: the exit is booked on a guess.
ExitFillGuessed(n, heard) == heard

\* An exit fill is taken from the answer only if it carries one.
ExitFillSeen(n, heard) == heard /\ n > 0

\* The reduce-only exit is sent; n lots execute before the answer, and the
\* answer is heard with its numbers or not.  The adapter records the answer
\* under the exit id, so the request is never made again.
ExitSent(i, n, heard) ==
  /\ ExitDue(i)
  /\ i \notin exitAsked
  /\ "exit" \in table
  /\ n <= position[SymbolOf[i]]
  /\ position' = [position EXCEPT ![SymbolOf[i]] = @ - n]
  /\ legs' = [legs EXCEPT ![i] = @ \cup {"exit"}]
  /\ fired' = [fired EXCEPT ![i] = IF n > 0 THEN @ \cup {"exit"} ELSE @]
  /\ exitAsked' = exitAsked \cup {i}
  /\ IF ExitFillSeen(n, heard)
     THEN seen' = [seen EXCEPT ![i] = n] /\ Goto(i, "exitbook")
     ELSE UNCHANGED <<seen, pc>>
  /\ UNCHANGED <<durable, sends, order, filled, proc, trading, fsm, polls,
                 legsOk, working, reached, table, restarts>>

\* record_fill for the exit.
ExitBook(i) ==
  /\ proc = "up" /\ pc[i] = "exitbook"
  /\ sold' = [sold EXCEPT ![i] = seen[i]]
  /\ Goto(i, "exitclose")
  /\ UNCHANGED <<planRow, row, bought, venue, proc, trading, fsm, polls, seen,
                 legsOk, working, exitAsked, reached, table, restarts>>

\* close_position: POSITION_CLOSED and the outcome row.
ExitClose(i) ==
  /\ proc = "up" /\ pc[i] = "exitclose"
  /\ Advance(i, "POSITION_CLOSED")
  /\ Goto(i, "exitreconcile")
  /\ UNCHANGED <<planRow, bought, sold, venue, proc, trading, polls, seen,
                 legsOk, working, exitAsked, reached, table, restarts>>

\* reconcile: an UNKNOWN order query diverges at once; the position query's
\* outcome is not examined, so an UNKNOWN one reads as an empty position.
ExitReconcile(i, orderKnown, positionKnown) ==
  /\ proc = "up" /\ pc[i] = "exitreconcile"
  /\ LET reported == IF positionKnown THEN position[SymbolOf[i]] ELSE 0
         agree == WithinTolerance(reported, LedgerNet(SymbolOf[i]))
     IN  Advance(i, IF orderKnown /\ agree THEN "RECONCILE_MATCH"
                    ELSE "RECONCILE_DIVERGENCE")
  /\ working' = working \ {i}
  /\ Goto(i, "done")
  /\ UNCHANGED <<planRow, bought, sold, venue, proc, trading, polls, seen,
                 legsOk, exitAsked, reached, table, restarts>>

-----------------------------------------------------------------------------
\* The venue and the market

\* An accepted entry executes n more lots.
VenueFills(i, n) ==
  /\ order[i] \in WorkingStatus
  /\ filled[i] + n <= Quantity
  /\ filled' = [filled EXCEPT ![i] = @ + n]
  /\ position' = [position EXCEPT ![SymbolOf[i]] = @ + n]
  /\ order' = [order EXCEPT ![i] =
                 IF filled[i] + n = Quantity THEN "FILLED"
                 ELSE "PARTIALLY_FILLED"]
  /\ UNCHANGED <<durable, sends, legs, fired, process, reached, table,
                 restarts>>

\* The remainder of an IOC entry ends without executing.
VenueEnds(i, status) ==
  /\ order[i] \in WorkingStatus
  /\ status \in EndedStatus
  /\ status = "REJECTED" => filled[i] = 0
  /\ order' = [order EXCEPT ![i] = status]
  /\ UNCHANGED <<durable, sends, filled, legs, fired, position, process,
                 reached, table, restarts>>

\* A resting reduce-only order executes; it never turns the position around.
LegFires(i, leg) ==
  /\ leg \in legs[i] \ fired[i]
  /\ position[SymbolOf[i]] > 0
  /\ fired' = [fired EXCEPT ![i] = @ \cup {leg}]
  /\ position' = [position EXCEPT ![SymbolOf[i]] =
                    IF @ > Quantity THEN @ - Quantity ELSE 0]
  /\ UNCHANGED <<durable, sends, order, filled, legs, process, reached,
                 table, restarts>>

\* A closed bar reaches the stop or the target of a managed plan.
PriceReaches(i) ==
  /\ i \notin reached /\ fsm[i] = "MANAGED"
  /\ reached' = reached \cup {i}
  /\ UNCHANGED <<durable, venue, process, table, restarts>>

-----------------------------------------------------------------------------
\* Crash and restart

\* Every machine, the working set and the adapter's record of answers live
\* in the process only (and `reached` is only ever asked about them).
ForgetProcess ==
  /\ pc' = [i \in Intents |-> "idle"]
  /\ fsm' = [i \in Intents |-> "READY"]
  /\ polls' = [i \in Intents |-> 0]
  /\ seen' = [i \in Intents |-> 0]
  /\ legsOk' = [i \in Intents |-> TRUE]
  /\ working' = {}
  /\ exitAsked' = {}
  /\ reached' = {}

\* The process is killed; the database and the venue are not touched.
Crash ==
  /\ proc = "up"
  /\ proc' = "down"
  /\ trading' = FALSE
  /\ ForgetProcess
  /\ UNCHANGED <<durable, venue, table, restarts>>

\* What the boot is told of the account.  An answer refused outright passes,
\* and shows no position.
BootAnswers == {"answered", "refused", "UNKNOWN"}

\* StartupReconciliation: trading only if the positions shown agree with the
\* ledger.  Working orders and fills are queried, not compared.  "UNKNOWN" is
\* a boot that does not trade: an unanswered query, a failed self test, or a
\* contract the venue leaves out while the ledger is not flat.
Boot(answer) ==
  /\ proc # "up" /\ restarts < MaxRestarts
  /\ restarts' = restarts + 1
  /\ proc' = "up"
  /\ trading' = (answer # "UNKNOWN"
                   /\ \A s \in Symbols :
                        WithinTolerance(IF answer = "answered" THEN position[s] ELSE 0,
                                        LedgerNet(s)))
  /\ ForgetProcess
  /\ UNCHANGED <<durable, venue, table>>

-----------------------------------------------------------------------------
Outcomes == {"ACKNOWLEDGED", "PARTIAL", "FILLED", "REJECTED", "CANCELLED",
             "UNKNOWN"}

\* The steps of the intent's cell coroutine, in program order.
CellStep(i) ==
  \/ Announce(i)
  \/ RefuseLocally(i) \/ AbortLocally(i)
  \/ \E accepted \in BOOLEAN : Transmit(i, accepted)
  \/ \E outcome \in Outcomes, complete \in BOOLEAN :
       Answer(i, outcome, complete) \/ PollApplied(i, outcome, complete)
  \/ PollAcknowledged(i)
  \/ \E outcome \in Outcomes : PollRaises(i, outcome)
  \/ Book(i)
  \/ \E leg \in {"stop", "target"}, live, ok \in BOOLEAN :
       PlaceLeg(i, leg, live, ok)
  \/ StopPriceMissing(i)
  \/ ProtectionPlaced(i) \/ ProtectionFailed(i) \/ ProtectionRaises(i)
  \/ Activate(i)

\* The steps of manage_positions for the intent's position.
ExitStep(i) ==
  \/ ExitKindUnknown(i)
  \/ \E n \in 0..Quantity, heard \in BOOLEAN : ExitSent(i, n, heard)
  \/ ExitBook(i) \/ ExitClose(i)
  \/ \E orderKnown, positionKnown \in BOOLEAN :
       ExitReconcile(i, orderKnown, positionKnown)

VenueStep(i) ==
  \/ \E n \in 1..Quantity : VenueFills(i, n)
  \/ \E status \in EndedStatus : VenueEnds(i, status)
  \/ \E leg \in Legs : LegFires(i, leg)
  \/ PriceReaches(i)

Next ==
  \/ \E i \in Intents :
       \/ Materialize(i) \/ RefuseValidation(i)
       \/ CellStep(i) \/ ExitStep(i) \/ VenueStep(i)
  \/ Crash
  \/ \E answer \in BootAnswers : Boot(answer)

Spec == Init /\ [][Next]_vars

\* The event loop runs every ready coroutine.  Nothing is assumed of the
\* venue, of the market, or of when a plan is offered.
Fairness == \A i \in Intents : WF_vars(CellStep(i)) /\ WF_vars(ExitStep(i))

FairSpec == Spec /\ Fairness

-----------------------------------------------------------------------------
\* Properties

TypeOK ==
  /\ planRow \subseteq Proposals
  /\ row \in [Intents -> FsmStates] /\ fsm \in [Intents -> FsmStates]
  /\ bought \in [Intents -> 0..Quantity] /\ sold \in [Intents -> 0..Quantity]
  /\ sends \in [Intents -> Nat]
  /\ order \in [Intents -> {"NONE", "FILLED"} \cup WorkingStatus \cup EndedStatus]
  /\ filled \in [Intents -> 0..Quantity]
  /\ legs \in [Intents -> SUBSET Legs] /\ fired \in [Intents -> SUBSET Legs]
  /\ position \in [Symbols -> Nat]
  /\ reached \subseteq Intents
  /\ table \in OrderTables
  /\ proc \in {"up", "halted", "down"} /\ trading \in BOOLEAN
  /\ pc \in [Intents -> Locations]
  /\ polls \in [Intents -> 0..(FillPollAttempts - 1)]
  /\ seen \in [Intents -> 0..Quantity]
  /\ legsOk \in [Intents -> BOOLEAN]
  /\ working \subseteq Intents /\ exitAsked \subseteq Intents
  /\ restarts \in 0..MaxRestarts

\* Over every interleaving of crashes and restarts, at most one entry request
\* ever leaves for a plan, whichever of its closes decided it ("never send a
\* plan twice", _stage_gates).
OneEntryPerPlan ==
  \A i, j \in Intents :
    /\ sends[i] <= 1
    /\ sends[i] > 0 /\ sends[j] > 0 /\ ProposalOf[i] = ProposalOf[j] => i = j

\* A venue order can always be traced: before the request leaves, the plan row
\* and the SUBMIT_ORDER record are durable (submit, Ch.16 comment).
EntryIsTraceable ==
  \A i \in Intents :
    sends[i] > 0 => ProposalOf[i] \in planRow /\ row[i] # "READY"

\* A reduce-only order never stands at the venue for a fill the ledger does
\* not know, and the ledger never books more than the venue executed, even
\* when the order goes on filling while the answer is being applied.
LegsFollowBookedFill ==
  \A i \in Intents :
    /\ legs[i] # {} => bought[i] > 0
    /\ bought[i] <= filled[i]

\* A CLOSED or RECONCILED record of an executed plan has both FILL records
\* before it, whatever crashed in between; and what an exit sold, the venue
\* really executed on that exit.
CloseIsBooked ==
  \A i \in Intents :
    /\ row[i] \in {"CLOSED", "RECONCILED"} => bought[i] > 0 /\ sold[i] > 0
    /\ sold[i] > 0 => "exit" \in fired[i]

\* Every new FSM record of an intent leaves the state of its previous record
\* along the frozen matrix; only an intent nothing was ever sent for may start
\* again at READY (after a restart).
RowsFollowMatrix ==
  [][\A i \in Intents :
       row'[i] # row[i] =>
         \E t \in Triggers :
           \/ <<row[i], t, row'[i]>> \in LegalTransitions
           \/ sends[i] = 0 /\ <<"READY", t, row'[i]>> \in LegalTransitions]_vars

\* A cell coroutine that wrote its plan row always returns: the polls are
\* bounded, no answer leaves it without a next step, and so manage_positions,
\* which waits for all cells, is never starved by one order.
PipelineReturns ==
  \A i \in Intents : pc[i] \in CellSteps ~> pc[i] \in {"done", "idle"}

-----------------------------------------------------------------------------
\* What the repository says of itself and the code does not do (README.md,
\* Divergences, says which has a run and with which constants the others fail).

\* "the position stays open and the next cycle re-evaluates" (manage_positions)
\* and the exit tests: a managed position whose price is reached gets closed,
\* diverges, or is at least still watched by a running process.
ReachedPositionIsWatched ==
  \A i \in Intents :
    i \in working /\ i \in reached => proc # "halted"

\* "the order then stays working and the next reconciliation owns it"
\* (fill_from_result): a reported fill without numbers is eventually booked or
\* moved on by a reconciliation, as long as the process lives.
UnbookedFillIsOwned ==
  \A i \in Intents :
    row[i] = "FILLED" /\ bought[i] = 0
      ~> bought[i] > 0 \/ row[i] # "FILLED" \/ proc = "down"

\* "PROTECTION_FAILED => RECOVERY_REQUIRED + P0 alert" (place_protection): a
\* booked entry whose coroutine has returned is managed or in recovery.
UnprotectedIsInRecovery ==
  \A i \in Intents :
    proc = "up" /\ pc[i] = "done" /\ bought[i] > 0 =>
      fsm[i] \in {"MANAGED", "CLOSED", "RECONCILED", "RECOVERY_REQUIRED"}

-----------------------------------------------------------------------------
\* The abstract promise, implemented.
Contract == INSTANCE OrderContract
  WITH recorded <- planRow, executed <- filled, booked <- bought,
       exited <- sold

ContractSpec == Contract!Spec
=============================================================================
