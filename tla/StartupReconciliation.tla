------------------------ MODULE StartupReconciliation -------------------------
(***************************************************************************)
(* The boot of a process: self test, then the comparison of the positions  *)
(* the ledger implies with the positions the venue reports, then one       *)
(* verdict that allows or forbids new trades until the next boot.  The     *)
(* ledger is read first and the venue is asked three times after it, while *)
(* resting orders go on filling; the process may die at any point.         *)
(***************************************************************************)
EXTENDS Integers, FiniteSets, FiniteSetsExt

CONSTANTS BootSymbols,    \* contracts as the ledger names them
          RowName,        \* what a venue row's symbol becomes once its suffix is cut
          BootTolerance,  \* RECONCILE_DELTA_TOLERANCE_UNITS
          Lots,           \* bound: net quantities the model follows
          AdapterWired,   \* FALSE without signed access
          ProvidersWired, \* FALSE in production: no replay or pattern provider
          MaxBoots        \* bound: processes started

ASSUME BootAssumption ==
  /\ DOMAIN RowName = BootSymbols
  /\ BootTolerance \in Nat /\ Lots \subseteq Int /\ 0 \in Lots
  /\ AdapterWired \in BOOLEAN /\ ProvidersWired \in BOOLEAN /\ MaxBoots \in Nat \ {0}

VARIABLES bootState,   \* StartupReconciliation.state
          bootAt,      \* where run() stands
          ledgerRead, venueRead, ordersKnown,  \* its locals
          netLedger, netVenue,                 \* what is true
          corrections, \* symbols with a BOOT_BROKER_LEDGER_DELTA entry of this boot
          positionsShown, \* history: the venue did answer with its positions
          settled,     \* history: the venue has not moved since it was read
          recovery, recoveryChecks,  \* AI.9: none, running or its action; all passed so far
          boots

bootLocals == <<ledgerRead, venueRead, ordersKnown>>
recoveryVars == <<recovery, recoveryChecks>>
bootHistory == <<positionsShown, settled>>
bootVars == <<bootState, bootAt, bootLocals, netLedger, netVenue, corrections, bootHistory, recoveryVars, boots>>

Flat == [s \in BootSymbols |-> 0]

BootInit ==
  /\ bootState = "STARTING" /\ bootAt = "self_test"
  /\ ledgerRead = Flat /\ venueRead = Flat /\ ordersKnown = FALSE
  /\ netLedger \in [BootSymbols -> Lots] /\ netVenue \in [BootSymbols -> Lots]
  /\ corrections = {} /\ positionsShown = FALSE /\ settled = FALSE
  /\ recovery = "none" /\ recoveryChecks = TRUE
  /\ boots = 1

-----------------------------------------------------------------------------
BootTransitions ==
  [STARTING |-> [SELF_TEST_BEGIN |-> "SELF_TEST"],
   SELF_TEST |-> [SELF_TEST_PASS |-> "RECONCILING", SELF_TEST_FAIL |-> "RECOVERY_REQUIRED",
                  DRIFT_BEYOND_TOLERANCE |-> "DEGRADED"],
   RECONCILING |-> [RECONCILE_MATCH |-> "READY", RECONCILE_DIVERGENCE |-> "RECOVERY_REQUIRED",
                    DEPENDENCY_UNAVAILABLE |-> "DEGRADED"],
   RECOVERY_REQUIRED |-> [RECONCILE_MATCH |-> "READY", RECONCILE_DIVERGENCE |-> "RECOVERY_REQUIRED"],
   DEGRADED |-> [RECONCILE_MATCH |-> "READY", RECONCILE_DIVERGENCE |-> "RECOVERY_REQUIRED"]]

BootAdvance(trigger) == bootState' = BootTransitions[bootState][trigger]

\* run() turns what reconcile_boot returns into a transition; the recovery
\* into one of its seven checks.
ReconcileReturns(agree, trigger) ==
  IF recovery = "running"
  THEN /\ recoveryChecks' = (recoveryChecks /\ agree)
       /\ bootAt' = "recheck" /\ UNCHANGED <<bootState, recovery>>
  ELSE BootAdvance(trigger) /\ bootAt' = "verdict" /\ UNCHANGED recoveryVars

\* An unmeasured clock is never taken for a synchronised one.
ClockCheck(drift) ==
  CASE drift = "unmeasured" -> "UNAVAILABLE"
    [] drift \in {"over_tolerance", "over_e12"} -> "DEGRADED"
    [] drift = "small" -> "PASS"

SchemaCheck(ledgerWired, readable, missing) ==
  IF ledgerWired /\ readable /\ missing = 0 THEN "PASS" ELSE "FAIL"

SelfTestTrigger(checks) ==
  IF \E c \in DOMAIN checks : checks[c] = "FAIL" THEN "SELF_TEST_FAIL"
  ELSE IF \A c \in DOMAIN checks : checks[c] = "PASS" THEN "SELF_TEST_PASS"
  ELSE "DRIFT_BEYOND_TOLERANCE"

\* run() and self_test(): the four checks, then one transition.
SelfTestBegins ==
  /\ bootAt = "self_test" /\ bootState = "STARTING"
  /\ BootAdvance("SELF_TEST_BEGIN")
  /\ UNCHANGED <<bootAt, bootLocals, netLedger, netVenue, corrections, bootHistory, recoveryVars, boots>>

SelfTestEnds ==
  /\ bootAt = "self_test" /\ bootState = "SELF_TEST"
  /\ \E dependencies, ladder \in {"PASS", "FAIL"},
        drift \in {"unmeasured", "over_tolerance", "over_e12", "small"},
        readable \in BOOLEAN, missing \in {0, 1} :
       BootAdvance(SelfTestTrigger(<<dependencies, SchemaCheck(TRUE, readable, missing),
                                     ClockCheck(drift), ladder>>))
  /\ bootAt' = IF bootState' = "RECONCILING" THEN "read_ledger" ELSE "verdict"
  /\ UNCHANGED <<bootLocals, netLedger, netVenue, corrections, bootHistory, recoveryVars, boots>>

-----------------------------------------------------------------------------
(* reconcile_boot, await by await.                                         *)

ReadLedger ==
  /\ bootAt = "read_ledger"
  /\ ledgerRead' = netLedger
  /\ IF AdapterWired
     THEN bootAt' = "ask_positions" /\ UNCHANGED <<bootState, recoveryVars>>
     ELSE ReconcileReturns(FALSE, "DEPENDENCY_UNAVAILABLE")
  /\ UNCHANGED <<venueRead, ordersKnown, netLedger, netVenue, corrections, bootHistory, boots>>

\* A query is answered, refused outright (codes -1022 and -1120), or its outcome
\* is UNKNOWN.  Only the last is turned back; what a refusal carries has no
\* position row and reads as a flat account.
Answers == {"answered", "refused", "UNKNOWN"}

AskPositions ==
  /\ bootAt = "ask_positions"
  /\ \E answer \in Answers :
       /\ ordersKnown' = (answer # "UNKNOWN")
       /\ venueRead' = IF answer = "answered" THEN netVenue ELSE Flat
       /\ positionsShown' = (answer = "answered")
  /\ settled' = TRUE
  /\ bootAt' = "ask_orders"
  /\ UNCHANGED <<bootState, ledgerRead, netLedger, netVenue, corrections, recoveryVars, boots>>

\* Working orders and recent fills are asked for; of their answers only the
\* outcome is looked at.
AskOrders ==
  /\ bootAt = "ask_orders"
  /\ \E orders, fills \in Answers :
       ordersKnown' = (ordersKnown /\ "UNKNOWN" \notin {orders, fills})
  /\ bootAt' = "compare"
  /\ UNCHANGED <<bootState, ledgerRead, venueRead, netLedger, netVenue, corrections, bootHistory, recoveryVars, boots>>

\* Quantities are compared under the names both sides use: a venue row counts
\* for the ledger's symbol only if its cut name is that symbol.
QtyUnder(name, venue) ==
  MapThenSumSet(LAMBDA s : venue[s], {s \in BootSymbols : RowName[s] = name})
LedgerQty(name, ledger) == IF name \in BootSymbols THEN ledger[name] ELSE 0
Named(venue) == BootSymbols \cup {RowName[s] : s \in {t \in BootSymbols : venue[t] # 0}}
ApartBy(a, b, units) == a - b > units \/ b - a > units
Disagreeing(ledger, venue) ==
  {name \in Named(venue) : ApartBy(QtyUnder(name, venue), LedgerQty(name, ledger), BootTolerance)}

\* Mutant of Deltas: only what the ledger holds is looked up at the venue.
DeltasOfLedger == {name \in Disagreeing(ledgerRead, venueRead) : LedgerQty(name, ledgerRead) # 0}
Deltas == Disagreeing(ledgerRead, venueRead)

CompareUnknown ==
  /\ bootAt = "compare" /\ ~ordersKnown
  /\ ReconcileReturns(FALSE, "RECONCILE_DIVERGENCE")
  /\ UNCHANGED <<bootLocals, netLedger, netVenue, corrections, bootHistory, boots>>

\* One correction entry per divergence, each awaited, before the verdict.
RecordDelta(name) ==
  /\ bootAt = "compare" /\ ordersKnown
  /\ name \notin corrections
  /\ corrections' = corrections \cup {name}
  /\ UNCHANGED <<bootState, bootAt, bootLocals, netLedger, netVenue, bootHistory, recoveryVars, boots>>

CompareEnds ==
  /\ bootAt = "compare" /\ ordersKnown
  /\ Deltas \subseteq corrections
  /\ ReconcileReturns(Deltas = {}, IF Deltas = {} THEN "RECONCILE_MATCH" ELSE "RECONCILE_DIVERGENCE")
  /\ UNCHANGED <<bootLocals, netLedger, netVenue, corrections, bootHistory, boots>>

\* PaperRuntime.trading_enabled.
TradingEnabled == bootAt = "verdict" /\ bootState = "READY"

-----------------------------------------------------------------------------
(* run_recovery_reconciliation: seven checks after a boot that failed      *)
(* closed; the third is reconcile_boot once more.  Its verdict is only     *)
(* returned: it moves no state of the boot machine.                        *)

\* The chain of the ledger is verified; of the raw store only that it can be
\* read.
RecoveryBegins ==
  /\ bootAt = "verdict" /\ bootState # "READY" /\ recovery = "none"
  /\ recovery' = "running"
  /\ \E intact, readable \in BOOLEAN : recoveryChecks' = (intact /\ readable)
  /\ bootAt' = "read_ledger"
  /\ corrections' = {} /\ positionsShown' = FALSE /\ settled' = FALSE
  /\ UNCHANGED <<bootState, bootLocals, netLedger, netVenue, boots>>

\* A provider that is not wired leaves its check UNAVAILABLE; the plans are
\* held against the leverage caps; the state of the FSM always passes.
ProviderPasses(consistent) == ProvidersWired /\ consistent
RecoveryEnds ==
  /\ bootAt = "recheck"
  /\ \E replayed, reevaluated, withinCaps \in BOOLEAN :
       recovery' = IF recoveryChecks /\ ProviderPasses(replayed)
                      /\ ProviderPasses(reevaluated) /\ withinCaps
                   THEN "RESUME" ELSE "HALT_AND_ESCALATE_MANUAL"
  /\ bootAt' = "recovered"
  /\ UNCHANGED <<bootState, bootLocals, netLedger, netVenue, corrections, bootHistory, recoveryChecks, boots>>

-----------------------------------------------------------------------------
(* An order that rested at the venue through the restart fills.            *)
RestingOrderFills ==
  /\ \E s \in BootSymbols, lot \in {-1, 1} :
       /\ netVenue[s] + lot \in Lots
       /\ netVenue' = [netVenue EXCEPT ![s] = @ + lot]
  /\ settled' = FALSE
  /\ UNCHANGED <<bootState, bootAt, bootLocals, netLedger, corrections, positionsShown, recoveryVars, boots>>

BootAgain ==
  /\ boots < MaxBoots
  /\ boots' = boots + 1
  /\ bootState' = "STARTING" /\ bootAt' = "self_test"
  /\ ledgerRead' = Flat /\ venueRead' = Flat /\ ordersKnown' = FALSE
  /\ corrections' = {} /\ positionsShown' = FALSE /\ settled' = FALSE
  /\ recovery' = "none" /\ recoveryChecks' = TRUE
  /\ UNCHANGED <<netLedger, netVenue>>

BootStep ==
  \/ SelfTestBegins \/ SelfTestEnds \/ ReadLedger \/ AskPositions \/ AskOrders
  \/ CompareUnknown \/ CompareEnds
  \/ \E name \in Deltas : RecordDelta(name)

BootNext == BootStep \/ RecoveryBegins \/ RecoveryEnds \/ RestingOrderFills \/ BootAgain

-----------------------------------------------------------------------------
DivergentSymbols ==
  {s \in BootSymbols : ApartBy(venueRead[s], ledgerRead[s], BootTolerance)}

\* A boot that found every position at the venue as the ledger has it is not
\* kept from READY by a delta (the "T_MATCH" of the reconciliation).
DivergenceIsReal ==
  (bootAt = "verdict" /\ bootState = "RECOVERY_REQUIRED" /\ ordersKnown) =>
    DivergentSymbols # {}

(* A process may trade, and a recovery resumes, only on grounds: both      *)
(* sides agreed, under every name either uses, when they were read; and,   *)
(* unless the venue refused to show its positions, they agreed in truth,   *)
(* whatever fills meanwhile.  A boot is kept from trading by a divergence  *)
(* only if there is one, with its correction on record.                    *)
Grounded ==
  /\ AdapterWired /\ ordersKnown
  /\ Disagreeing(ledgerRead, venueRead) = {}
  /\ positionsShown /\ settled => Disagreeing(netLedger, netVenue) = {}

VerdictIsTrue ==
  /\ TradingEnabled \/ recovery = "RESUME" => Grounded
  /\ (bootAt = "verdict" /\ bootState = "RECOVERY_REQUIRED" /\ ordersKnown) =>
       /\ Disagreeing(ledgerRead, venueRead) # {}
       /\ Disagreeing(ledgerRead, venueRead) \subseteq corrections
=============================================================================
