---------------------------- MODULE PaperAccount ----------------------------
(***************************************************************************)
(* The PAPER account as every plan decision sees it: a projection of the   *)
(* durable ledger at the close it decides for (ops/engine_context.py,      *)
(* paper_account_inputs and what it calls), the risk kernel's verdict on   *)
(* it, the plan row a submission leaves behind, and the execution rows     *)
(* that follow.  Every due cell is prepared before the first one runs, and *)
(* execution rows are written later than the close they are decided for:   *)
(* a close sees the plans and the rows of earlier closes only.  What the   *)
(* venue does with an order happens at the venue: a row may come late, or  *)
(* never.                                                                  *)
(***************************************************************************)
EXTENDS RiskKernel, FsmMatrix

CONSTANTS
  Proposals,        \* proposals, each for a symbol of its own
  DueAt,            \* proposal -> the close its cell decides it for
  ReadKeys,         \* proposal -> intents under which the reader looks for it
  IntentOf,         \* proposal -> intent under which the machine records it
  OutcomeNamed,     \* the machine names its outcome (outcome_id, exit_reason)
  Capital,          \* capital_usdt
  Results,          \* net results a closed trade may have
  ClosesPerDay, DaysPerWeek, LastClose

ASSUME AccountBounds ==
  /\ Capital \in Nat \ {0} /\ OutcomeNamed \in BOOLEAN
  /\ ClosesPerDay \in Nat \ {0} /\ DaysPerWeek \in Nat \ {0} /\ LastClose \in Nat
  /\ Results \subseteq Int

VARIABLES
  closeAt,    \* the newest close
  plans,      \* proposal -> what was decided for it: [decision, quantity]
  materialized, \* proposals with a trade_plan row
  history,    \* proposal -> the states of its FSM rows, oldest first
  booked,     \* proposal -> its fill rows [open, quantity], oldest first
  shown,      \* proposal -> rows of both that are not later than closeAt
  counted,    \* plans whose row the cells prepared for closeAt have seen
  results,    \* OUTCOME rows [of, pnl, at], in the order written
  order       \* proposal -> its lots at the venue: [sent, resting, filled, closed]

ledgerRows == <<materialized, history, booked, results>>
snapshot == <<closeAt, shown, counted>>
accountVars == <<plans, ledgerRows, snapshot, order>>

-----------------------------------------------------------------------------
NoPlan == [decision |-> "NONE", quantity |-> 0]
NotAtVenue == [sent |-> FALSE, resting |-> 0, filled |-> 0, closed |-> 0]

DayOf(t) == t \div ClosesPerDay
WeekOf(t) == DayOf(t) \div DaysPerWeek

\* Rows a decision for the close t can see: t is the newest close or the next.
RowsAt(p, t) == IF t > closeAt THEN history[p]
                ELSE SubSeq(history[p], 1, shown[p].rows)
FillsAt(p, t) == IF t > closeAt THEN booked[p]
                 ELSE SubSeq(booked[p], 1, shown[p].fills)
\* Outcome rows not later than t, by time: they are written in that order.
ResultsAt(t) ==
  SubSeq(results, 1, Max({0} \cup {i \in DOMAIN results : results[i].at <= t}))

SumOf(f) == MapThenSumSet(LAMBDA x : f[x], DOMAIN f)
SumOver(rows, Value(_)) == SumOf([i \in DOMAIN rows |-> Value(rows[i])])

\* The state paper_account_state takes for an order: of a reconciled one the
\* last settled state before.
SettledState(rows) ==
  LET last == rows[Len(rows)]
      settled == {i \in 1..Len(rows) :
                    rows[i] \in {"CLOSED", "CANCELLED", "REJECTED"}}
  IN  IF last # "RECONCILED" THEN last
      ELSE IF settled = {} THEN "NO_ORIGIN" ELSE rows[Max(settled)]

NetOf(p, t) ==
  SumOver(FillsAt(p, t), LAMBDA row : IF row.open THEN row.quantity
                                      ELSE -row.quantity)
OpenedLots(rows) == SumOver(rows, LAMBDA row : IF row.open THEN row.quantity ELSE 0)
ShutLots(rows) == SumOver(rows, LAMBDA row : IF row.open THEN 0 ELSE row.quantity)
FilledOf(p, t) == OpenedLots(FillsAt(p, t))

\* Mutant: an order in an unlisted state counts as no longer resting.
OrderReadableGuessing(p, t) == SettledState(RowsAt(p, t)) # "NO_ORIGIN"

\* paper_reservation_proxy, for one order: readable, and what it reserves.
OrderReadable(p, t) ==
  LET state == SettledState(RowsAt(p, t))
      remaining == plans[p].quantity - FilledOf(p, t)
  IN  /\ state \in OpenStates \cup {"CLOSED", "CANCELLED", "REJECTED"}
      /\ state \in {"FILLED", "PROTECTED", "MANAGED", "CLOSED"} => remaining = 0

PendingOf(p, t) ==
  LET rows == RowsAt(p, t) IN
    IF rows # <<>> /\ SettledState(rows) \in {"SUBMITTING", "ACKNOWLEDGED", "PARTIAL"}
    THEN plans[p].quantity - FilledOf(p, t) ELSE 0

\* The order rows of a plan row.
HasOrderRow(p, t) ==
  \E q \in Proposals : IntentOf[q] \in ReadKeys[p] /\ RowsAt(q, t) # <<>>

ShareOf(p, t) == NetOf(p, t) + PendingOf(p, t)
Reserved(t) == SumOf([p \in Proposals |-> ShareOf(p, t)])
Balance(t) == Capital + SumOver(ResultsAt(t), LAMBDA row : row.pnl)
BalanceAfter(rows, n) == Capital + SumOver(SubSeq(rows, 1, n), LAMBDA row : row.pnl)

\* paper_account_inputs, paper_account_state and realized_loss_projection: the
\* refusals.
Readable(t) ==
  /\ \A p \in counted : HasOrderRow(p, t)
  /\ \A p \in Proposals : RowsAt(p, t) # <<>> => OrderReadable(p, t)
  /\ ResultsAt(t) # <<>> => OutcomeNamed
  /\ \A n \in 0..Len(ResultsAt(t)) : BalanceAfter(ResultsAt(t), n) > 0
  /\ Reserved(t) <= Balance(t)

-----------------------------------------------------------------------------
\* realized_loss_projection: every outcome is replayed, so a limit broken and
\* recovered from is still found, at the moment it was broken.
LossIn(rows, n, Period(_)) ==
  LET same == SelectSeq(SubSeq(rows, 1, n),
                        LAMBDA row : Period(row.at) = Period(rows[n].at))
  IN  Max({0, -SumOver(same, LAMBDA row : row.pnl)})

StreakAt(rows, n) ==
  n - Max({0} \cup {i \in 1..n : rows[i].pnl >= 0})

Breaks(rows, n) ==
  {kind \in {"DAILY_LOSS_LIMIT", "WEEKLY_LOSS_LIMIT", "CONSECUTIVE_LOSSES"} :
     CASE kind = "DAILY_LOSS_LIMIT" ->
            100 * LossIn(rows, n, DayOf) > DailyCap * BalanceAfter(rows, n)
       [] kind = "WEEKLY_LOSS_LIMIT" ->
            100 * LossIn(rows, n, WeekOf) > WeeklyCap * BalanceAfter(rows, n)
       [] kind = "CONSECUTIVE_LOSSES" -> StreakAt(rows, n) > StreakHalt}

\* The newest outcome at which a limit was broken.
LastBreak(kind, rows) == Max({0} \cup {n \in 1..Len(rows) : kind \in Breaks(rows, n)})

\* Mutant of Latches: a weekly latch ends with its week, without a review.
LatchesOfPeriod(t) ==
  LET rows == ResultsAt(t) IN
    {kind \in UNION {Breaks(rows, n) : n \in 1..Len(rows)} :
       CASE kind = "DAILY_LOSS_LIMIT" -> DayOf(rows[LastBreak(kind, rows)].at) = DayOf(t)
         [] kind = "WEEKLY_LOSS_LIMIT" -> WeekOf(rows[LastBreak(kind, rows)].at) = WeekOf(t)
         [] OTHER -> TRUE}

\* The latches active at t; no owner review is ever passed to the replay.
Latches(t) ==
  LET rows == ResultsAt(t) IN
    {kind \in UNION {Breaks(rows, n) : n \in 1..Len(rows)} :
       kind = "DAILY_LOSS_LIMIT" =>
         DayOf(rows[LastBreak(kind, rows)].at) = DayOf(t)}

-----------------------------------------------------------------------------
\* native_size_request and _compose_bridge_context: what the kernel is asked.
RiskInput(p, t) ==
  LET c == Balance(t)
      rows == ResultsAt(t)
      open == SumOf([q \in Proposals |-> NetOf(q, t)])
      lossNow(Period(_)) ==
        LET same == SelectSeq(rows, LAMBDA row : Period(row.at) = Period(t))
        IN  Max({0, -SumOver(same, LAMBDA row : row.pnl)})
  IN [packageValid |-> TRUE, capital |-> c, exposure |-> open,
      proposed |-> (BudgetPermille * c) \div 1000, hardCap |-> (60 * c) \div 100,
      symbolExposure |-> NetOf(p, t), symbolCap |-> (20 * c) \div 100,
      portfolioCap |-> (60 * c) \div 100,
      raised |-> IF Latches(t) # {} THEN {4} ELSE {},
      dailyLoss |-> lossNow(DayOf), weeklyLoss |-> lossNow(WeekOf),
      streak |-> IF rows = <<>> THEN 0 ELSE StreakAt(rows, Len(rows)),
      perpetual |-> TRUE, expiryDays |-> 0, paper |-> TRUE,
      free |-> c - Reserved(t),
      declared |-> 1, cvarHigh |-> FALSE, rho |-> 0, openNotional |-> 0,
      stop |-> 1, mult |-> 1, atr |-> 0]

\* A cell's decision for the newest close, on the account as it was prepared.
Decide(p) ==
  /\ plans[p] = NoPlan /\ closeAt = DueAt[p]
  /\ Readable(closeAt)
  /\ LET risk == Adjudicate(RiskInput(p, closeAt)) IN
       plans' = [plans EXCEPT ![p] = [decision |-> risk.decision,
                                      quantity |-> risk.quantity]]
  /\ UNCHANGED <<ledgerRows, snapshot, order>>

NextClose ==
  /\ closeAt < LastClose
  /\ closeAt' = closeAt + 1
  /\ shown' = [p \in Proposals |-> [rows |-> Len(history[p]),
                                    fills |-> Len(booked[p])]]
  /\ counted' = materialized
  /\ UNCHANGED <<plans, ledgerRows, order>>

-----------------------------------------------------------------------------
\* The execution machine of a plan, and the rows it writes.

StateOf(p) == IF history[p] = <<>> THEN "READY"
              ELSE Last(history[p])

\* _stage_risk and _stage_execution let such a plan reach the machine.
Submittable(p) == plans[p].decision \in {"ALLOW", "REDUCE"} /\ plans[p].quantity > 0

\* submit: the plan row is durable before anything else is written.
Materialize(p) ==
  /\ Submittable(p) /\ history[p] = <<>>
  /\ materialized' = materialized \cup {p}
  /\ UNCHANGED <<plans, history, booked, results, snapshot, order>>

\* What apply_adapter_result can be told of the entry while it is polled.  A
\* refused or unanswered request says nothing of the order.
HeardOf(p, trigger) ==
  \/ trigger \in {"EXCHANGE_REJECT", "UNKNOWN_OUTCOME"}
  \/ trigger = "EXCHANGE_ACK" /\ order[p].sent
  \/ trigger = "PARTIAL_FILL" /\ order[p].filled > 0
  \/ trigger = "FULL_FILL" /\ order[p].filled = plans[p].quantity
  \/ trigger = "CANCEL_CONFIRMED" /\ order[p].sent /\ order[p].resting = 0
       /\ order[p].filled < plans[p].quantity

\* The transitions the runtime asks for: submission, the answers until a fill is
\* booked, protection, management, the close after a booked exit, reconciliation.
Fires(p, from, trigger) ==
  \/ /\ from = "READY" /\ Submittable(p)
     /\ trigger = IF p \in materialized THEN "SUBMIT_ORDER" ELSE "VALIDATION_FAILED"
  \/ /\ from \in {"SUBMITTING", "ACKNOWLEDGED", "PARTIAL"} /\ booked[p] = <<>>
     /\ HeardOf(p, trigger)
  \/ /\ from \in {"PARTIAL", "FILLED"} /\ booked[p] # <<>>
     /\ trigger \in {"PROTECTION_PLACED", "PROTECTION_FAILED"}
  \/ from = "PROTECTED" /\ trigger = "MANAGEMENT_ACTIVE"
  \/ /\ from = "MANAGED" /\ trigger = "POSITION_CLOSED"
     /\ ShutLots(booked[p]) > 0
  \/ from = "CLOSED" /\ trigger \in {"RECONCILE_MATCH", "RECONCILE_DIVERGENCE"}

Advance(p, edge) ==
  /\ edge[1] = StateOf(p) /\ Fires(p, edge[1], edge[2])
  /\ history' = [history EXCEPT ![p] = Append(@, edge[3])]
  /\ UNCHANGED <<plans, materialized, booked, results, snapshot, order>>

\* record_fill: a row of its own, for the lots the answer reported.  An answer
\* without numbers leaves no row (FILL_DATA_INCOMPLETE), and nobody asks again.
Booked(p, opens, q) ==
  /\ booked' = [booked EXCEPT ![p] = Append(@, [open |-> opens, quantity |-> q])]
  /\ UNCHANGED <<plans, materialized, history, results, snapshot, order>>

BookEntry(p, q) ==
  /\ StateOf(p) \in {"PARTIAL", "FILLED"} /\ booked[p] = <<>>
  /\ q <= order[p].filled
  /\ StateOf(p) = "FILLED" => q = plans[p].quantity
  /\ Booked(p, TRUE, q)

BookExit(p, q) ==
  /\ StateOf(p) = "MANAGED" /\ ShutLots(booked[p]) = 0
  /\ q <= order[p].closed
  /\ Booked(p, FALSE, q)

\* close_position: the OUTCOME row follows the POSITION_CLOSED row.
BookOutcome(p, pnl) ==
  /\ StateOf(p) = "CLOSED" /\ \A i \in DOMAIN results : results[i].of # p
  /\ results' = Append(results, [of |-> p, pnl |-> pnl, at |-> closeAt + 1])
  /\ UNCHANGED <<plans, materialized, history, booked, snapshot, order>>

-----------------------------------------------------------------------------
\* The venue.

VenueMoves(p, lots) ==
  /\ order' = [order EXCEPT ![p] = lots]
  /\ UNCHANGED <<plans, ledgerRows, snapshot>>

\* The entry request arrives.
EntryRests(p) ==
  /\ StateOf(p) = "SUBMITTING" /\ ~order[p].sent
  /\ VenueMoves(p, [sent |-> TRUE, resting |-> plans[p].quantity, filled |-> 0,
                    closed |-> 0])

EntryExecutes(p, q) ==
  /\ q <= order[p].resting
  /\ VenueMoves(p, [sent |-> order[p].sent, resting |-> order[p].resting - q,
                    filled |-> order[p].filled + q, closed |-> order[p].closed])

\* The remainder of an IOC entry ends without executing.
EntryEnds(p) ==
  /\ order[p].resting > 0
  /\ VenueMoves(p, [order[p] EXCEPT !.resting = 0])

\* A protective leg or the exit order executes: they follow a booked entry.
LotsClose(p, q) ==
  /\ booked[p] # <<>> /\ q <= order[p].filled - order[p].closed
  /\ VenueMoves(p, [order[p] EXCEPT !.closed = @ + q])

AccountInit ==
  /\ closeAt = 0
  /\ plans = [p \in Proposals |-> NoPlan]
  /\ materialized = {}
  /\ history = [p \in Proposals |-> <<>>]
  /\ booked = [p \in Proposals |-> <<>>]
  /\ shown = [p \in Proposals |-> [rows |-> 0, fills |-> 0]]
  /\ counted = {}
  /\ results = <<>>
  /\ order = [p \in Proposals |-> NotAtVenue]

AccountNext ==
  \/ NextClose
  \/ \E p \in Proposals :
       \/ Decide(p) \/ Materialize(p)
       \/ \E edge \in LegalTransitions : Advance(p, edge)
       \/ \E q \in 1..plans[p].quantity :
            BookEntry(p, q) \/ BookExit(p, q) \/ EntryExecutes(p, q) \/ LotsClose(p, q)
       \/ \E pnl \in Results : BookOutcome(p, pnl)
       \/ EntryRests(p) \/ EntryEnds(p)

-----------------------------------------------------------------------------
\* The rows have the order end without a position.
EndedByItsRows(p, t) ==
  RowsAt(p, t) # <<>> /\ SettledState(RowsAt(p, t)) \in {"CANCELLED", "REJECTED"}

(* An account that can be read never reserves less for an order than the   *)
(* venue still has resting and holds of it, however late rows are, unless  *)
(* the rows say it ended without a position; and once every executed lot   *)
(* is booked, and the order either goes on as a whole or has really ended, *)
(* it reserves exactly that.  An order whose fate is unknown, or a full    *)
(* fill without its fill row, makes the account unreadable instead         *)
(* (engine_context.py 680-731, 734-833).                                   *)
AccountIsTrue ==
  Readable(closeAt + 1) =>
    \A p \in Proposals :
      LET o == order[p]
          ended == EndedByItsRows(p, closeAt + 1)
          atVenue == o.resting + o.filled - o.closed
      IN  /\ ~ended => ShareOf(p, closeAt + 1) >= atVenue
          /\ /\ OpenedLots(booked[p]) = o.filled /\ ShutLots(booked[p]) = o.closed
             /\ o.resting = IF ended THEN 0 ELSE plans[p].quantity - o.filled
             => ShareOf(p, closeAt + 1) = atVenue

\* No order is in an unknown state, no weekly or streak limit was ever broken,
\* and no daily one today.
AccountIsKnown ==
  /\ \A q \in Proposals : RowsAt(q, closeAt) # <<>> =>
       Last(RowsAt(q, closeAt)) # "RECOVERY_REQUIRED"
  /\ LET rows == ResultsAt(closeAt) IN
       \A n \in 1..Len(rows) :
         /\ Breaks(rows, n) \subseteq {"DAILY_LOSS_LIMIT"}
         /\ Breaks(rows, n) # {} => DayOf(rows[n].at) # DayOf(closeAt)

(* A plan is admitted only while no earlier order is in an unknown state,  *)
(* and never again after a weekly or streak limit was broken, even when    *)
(* later profits recovered the loss (247-314: latches are replayed and no  *)
(* owner review reaches the replay); a daily limit holds for its day.      *)
AdmittedOnKnownAccount ==
  [][\A p \in Proposals : plans[p] = NoPlan /\ plans'[p].decision = "ALLOW" =>
       AccountIsKnown]_accountVars

(* Once every admitted plan has its order rows, and each of those orders   *)
(* is settled, the account can be read (tests/unit/test_engine_context.py  *)
(* 1013-1037).                                                             *)
SettledAccountIsReadable ==
  (\A p \in counted :
     RowsAt(p, closeAt) # <<>> /\ StateOf(p) \in {"CANCELLED", "REJECTED"})
    => Readable(closeAt)
=============================================================================
