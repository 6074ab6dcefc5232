----------------------------- MODULE RiskKernel -----------------------------
(***************************************************************************)
(* The risk kernel (risk/kernel.py): fourteen numbered vetoes, then the    *)
(* budget ladder, then the sizing machine; and the append-only table of    *)
(* ladder revisions with its emergency ratchet, as the context producer    *)
(* reads it back (ops/engine_context.py, ladder_input).                    *)
(* Amounts are whole units of capital, limits are whole percents of it.    *)
(***************************************************************************)
EXTENDS Integers, Sequences, FiniteSets, FiniteSetsExt, SequencesExt

CONSTANTS
  BudgetPermille,      \* budget_per_trade, in thousandths of the capital
  DailyCap, WeeklyCap, \* loss caps, percent of the capital
  StreakHalt,          \* consecutive_loss_halt
  MaxRevisions         \* bound of the model: rows of the ladder table

ASSUME RiskBounds ==
  /\ BudgetPermille \in Nat \ {0} /\ StreakHalt \in Nat
  /\ DailyCap \in 0..100 /\ WeeklyCap \in 0..100
  /\ MaxRevisions \in Nat

Emergency == <<"NORMAL", "L1_PAUSE", "L2_DISABLE_NEW", "L3_CANCEL_ALL",
               "L4_CLOSE_ALL", "L5_SAFE_MODE">>

VARIABLE
  ladder    \* rows of apex_risk_ladder_state: [emergency, parent, stated, owner]

ladderVars == <<ladder>>

-----------------------------------------------------------------------------
\* 1 NoRisk, 2 LowRisk, 3 MediumRisk, 4 HighRisk, 5 CriticalRisk.
LadderState(used, capital) ==
  1 + Cardinality({k \in 0..3 : IF k = 0 THEN used > 0
                                ELSE 4 * used >= k * capital})

\* RISK_LADDER_BANDS in quarters of the budget: which bands hold the fraction.
BandsOf(used, capital) ==
  LET u == 4 * used IN
    {b \in 1..5 : CASE b = 1 -> used = 0
                    [] b = 2 -> 0 < used /\ u < capital
                    [] b = 3 -> capital <= u /\ u < 2 * capital
                    [] b = 4 -> 2 * capital <= u /\ u < 3 * capital
                    [] b = 5 -> 3 * capital <= u /\ used <= capital}

\* ladder_multiplier in quarters; one level down when the weekly CVaR is high.
Quarters(state) == <<4, 4, 3, 2, 0>>[state]
CvarDowngrade(state, cvarHigh) == IF cvarHigh THEN Min({5, state + 1}) ELSE state

\* margin_health_state of the free share of the capital: the PAPER proxy is
\* strictly below its thresholds, the other environments at them too.
MarginLevel(free, capital, paper) ==
  LET below(t) == \/ 100 * free < t * capital
                  \/ ~paper /\ 100 * free = t * capital IN
    IF below(20) THEN "LIQUIDATION_APPROACH"
    ELSE IF below(40) THEN "ACTION"
    ELSE IF below(60) THEN "WARNING" ELSE "OK"

\* The vetoes that fire for a measured input, all evaluated, in order.  The
\* conditions another component measured (quality, PIT, breaker, conflict,
\* staleness, OI lag, rising uncertainty) arrive as the set r.raised.
FiredVetoes(r) ==
  LET fires == [n \in {3, 5, 10, 11, 12, 13, 14} |->
        CASE n = 3  -> r.exposure + r.proposed > r.hardCap
          [] n = 5  -> r.symbolExposure > r.symbolCap \/ r.exposure > r.portfolioCap
          [] n = 10 -> 100 * r.dailyLoss > DailyCap * r.capital
          [] n = 11 -> 100 * r.weeklyLoss > WeeklyCap * r.capital
          [] n = 12 -> r.streak > StreakHalt
          [] n = 13 -> ~r.perpetual /\ r.expiryDays < 7
          [] n = 14 -> MarginLevel(r.free, r.capital, r.paper)
                         \in {"ACTION", "LIQUIDATION_APPROACH"}]
  IN  (r.raised \cap {1, 2, 4, 6, 7, 8, 9}) \cup {n \in DOMAIN fires : fires[n]}

\* correlation_exposure: the notional left for a proposal at a correlation
\* above the cap of 70 percent (the target is a ratio, never an amount).
CorrelationLeaves(rho, open, proposed) ==
  IF rho <= 70 THEN proposed
  ELSE Max({0, Min({proposed, (70 \div rho) - open})})

\* The quantity the budget and the attention bound allow, in whole exchange
\* steps.  The step is one unit; r.atr = 0 stands for a request without a bound.
BoundedQuantity(r, state) ==
  LET byRisk == (BudgetPermille * r.capital * Quarters(state))
                  \div (4000 * r.stop * r.mult)
      byAtr == IF r.atr = 0 THEN byRisk ELSE r.capital \div (4 * r.atr * r.mult)
  IN  Max({0, Min({byRisk, byAtr})})

\* What the correlation with the open positions leaves of a quantity.
ReducedQuantity(r, q) ==
  CorrelationLeaves(r.rho, r.openNotional, q * r.stop * r.mult) \div (r.stop * r.mult)

\* size(): the rejections in their order, then the quantity.
Size(r, state) ==
  LET left == ReducedQuantity(r, BoundedQuantity(r, CvarDowngrade(state, r.cvarHigh)))
  IN  IF r.capital <= 0 THEN <<"CAPITAL_NON_POSITIVE", 0>>
      ELSE IF r.stop <= 0 THEN <<"STOP_DISTANCE_INVALID", 0>>
      ELSE IF r.mult <= 0 THEN <<"CONTRACT_MULTIPLIER_INVALID", 0>>
      ELSE IF left <= 0 THEN <<"PORTFOLIO_CAPACITY", 0>>
      ELSE <<IF r.rho > 70 THEN "REDUCE" ELSE "ALLOW", left>>

\* adjudicate(): parameter package, vetoes, ladder (a declared state is only a
\* floor), sizing; a critical budget rejects whatever the sizing said.
Adjudicate(r) ==
  LET derived == IF r.capital <= 0 THEN 5
                 ELSE LadderState(Min({r.exposure, r.capital}), r.capital)
      state == Max({r.declared, derived})
      sized == Size(r, state)
      reject(why) == [decision |-> "REJECT", quantity |-> 0, why |-> why]
  IN  IF ~r.packageValid THEN reject("PARAMETER_PACKAGE_INVALID")
      ELSE IF FiredVetoes(r) # {} THEN reject("HARD_VETO")
      ELSE IF state = 5 THEN reject("PORTFOLIO_CAPACITY")
      ELSE IF sized[1] \in {"ALLOW", "REDUCE"}
        THEN [decision |-> sized[1], quantity |-> sized[2], why |-> "SIZED"]
      ELSE reject(sized[1])

\* effective_leverage: the ceiling of a timeframe, lowered by the owner's.
LeverageWithin(notional, allocated, systemCap, ownerCap) ==
  allocated > 0 /\ notional <= Min({systemCap, ownerCap}) * allocated

\* circuit_breaker_reset.
ResetAllowed(kind, rollover, reviewed) ==
  CASE kind = "DAILY_LOSS_LIMIT" -> rollover
    [] kind = "WEEKLY_LOSS_LIMIT" -> rollover
    [] kind = "CONSECUTIVE_LOSSES" -> reviewed

\* Mutant of Ratchet: any step down counts as the owner's.
RatchetAnyUp(src, dst, ownerConfirmed) ==
  IF dst < src THEN "OWNER_RESUME" ELSE "ESCALATION"

-----------------------------------------------------------------------------
\* ratchet_allow: "RAISED" is the refusal by exception.
Ratchet(src, dst, ownerConfirmed) ==
  IF src = dst THEN "NOOP"
  ELSE IF src = 2 /\ dst = 1
    THEN IF ownerConfirmed THEN "OWNER_RESUME" ELSE "RAISED"
  ELSE IF dst > src THEN "ESCALATION" ELSE "DOWNGRADE"

Permitted(verdict) == verdict \in {"NOOP", "OWNER_RESUME", "ESCALATION"}

\* ladder_revision and append_ladder_revision, for a caller that read the table
\* when it had base rows.  The ratchet is asked only if the caller states the
\* level it starts from; nothing compares the row with the table.
AppendRevision(base, level, stated, owner) ==
  /\ Len(ladder) < MaxRevisions
  /\ owner => stated
  /\ stated /\ base # 0 => Permitted(Ratchet(ladder[base].emergency, level, owner))
  /\ ladder' = Append(ladder, [emergency |-> level, parent |-> base,
                               stated |-> stated, owner |-> owner])

\* ladder_input: the newest revision, checked only against the one before it,
\* and without the owner's confirmation.
LadderReadable ==
  LET n == Len(ladder) IN
    /\ n > 0
    /\ n > 1 => /\ ladder[n].parent = n - 1
                /\ Permitted(Ratchet(ladder[n - 1].emergency,
                                     ladder[n].emergency, FALSE))

\* engine_context: the level that engages the circuit breaker.
LadderEngaged == ladder[Len(ladder)].emergency # 1

LadderInit == ladder = <<>>

LadderNext ==
  \E base \in 0..Len(ladder), level \in 1..Len(Emergency),
     stated \in BOOLEAN, owner \in BOOLEAN :
    AppendRevision(base, level, stated, owner)

-----------------------------------------------------------------------------
\* The ratchet was asked for the n-th revision, and about the one before it.
Checked(n) == ladder[n].stated /\ ladder[n].parent = n - 1

(* The promise of the ratchet, read back by the account, which compares    *)
(* the two newest revisions only: the level acted on is never below one    *)
(* recorded before it (kernel.py 331-355, "downgrades inside the emergency *)
(* ladder are blocked outright"), unless the owner resumed from a pause in *)
(* between, or a revision written after it and before the newest was not   *)
(* checked against its predecessor (kernel.py 661: a caller that states no *)
(* previous level, or a level of an older row).                            *)
LadderNeverSoftens ==
  LET n == Len(ladder) IN
    LadderReadable =>
      \A i \in 1..n :
        \/ ladder[i].emergency <= ladder[n].emergency
        \/ ladder[i].emergency = 2 /\ \E j \in i..n :
             ladder[j].emergency = 1 /\ ladder[j].owner
        \/ \E j \in i + 1..n - 1 : ~Checked(j)

(* The two forms of the budget ladder, the thresholds and the band table,  *)
(* name the same state for every fraction (kernel.py 198-211 and 313-322). *)
LadderFormsAgree(capital) ==
  \A used \in 0..capital : BandsOf(used, capital) = {LadderState(used, capital)}
=============================================================================
