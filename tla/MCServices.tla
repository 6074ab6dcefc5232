----------------------------- MODULE MCServices ------------------------------
(***************************************************************************)
(* Small instances for TLC of the services around the decision: venue      *)
(* adapter, boot reconciliation, event bus, signaling, bootstrap, raw      *)
(* store, risk ladder, paper account, watchdog and backup, command line.   *)
(* They share no variable with one another; a behaviour chooses one of     *)
(* them (focus) and lets it move, so that one run checks them all and the  *)
(* number of states is the sum of theirs.                                  *)
(***************************************************************************)
EXTENDS ToobitAdapter, StartupReconciliation, EventBus, Signaling, BootstrapService,
        RawStore, PaperAccount, Watchdog, RunApex

CONSTANTS Foci,     \* the services this instance looks at
          LateRows  \* bound: machine rows of a plan made at the last close

VARIABLE focus

servicesVars == <<focus, adapterVars, bootVars, busVars, signalVars, bootstrapVars,
                  rawStoreVars, ladderVars, accountVars, watchdogVars, rootVars>>

\* Choices of an initial state that belong to a service nobody looks at are fixed.
ServicesInit ==
  /\ focus \in Foci
  /\ AdapterInit
  /\ BootInit /\ (focus # "boot" => netLedger = Flat /\ netVenue = Flat)
  /\ BusInit /\ (focus # "lanes" => priority = CHOOSE m \in Mixes : TRUE)
  /\ SignalInit
  /\ BootstrapInit /\ (focus # "bootstrap" => malformed = {})
  /\ RawStoreInit
  /\ focus # "store" => db = OlderStore(1..2, {2}) /\ evidence = [b \in StoredBars |-> "none"]
  /\ LadderInit /\ AccountInit /\ WatchdogInit /\ RootInit

Turn(f) ==
  /\ focus = f /\ UNCHANGED focus
  /\ f # "adapter" => UNCHANGED adapterVars
  /\ f # "boot" => UNCHANGED bootVars
  /\ f \notin {"lanes", "candles"} => UNCHANGED busVars
  /\ f # "signals" => UNCHANGED signalVars
  /\ f # "bootstrap" => UNCHANGED bootstrapVars
  /\ f # "store" => UNCHANGED rawStoreVars
  /\ f # "ladder" => UNCHANGED ladderVars
  /\ f # "account" => UNCHANGED accountVars
  /\ f \notin {"watch", "backup"} => UNCHANGED watchdogVars
  /\ f # "root" => UNCHANGED rootVars

ServicesNext ==
  \/ Turn("adapter") /\ AdapterNext
  \/ Turn("boot") /\ BootNext
  \/ Turn("lanes") /\ LanesNext
  \/ Turn("candles") /\ CandlesNext
  \/ Turn("signals") /\ SignalNext
  \/ Turn("bootstrap") /\ BootstrapNext
  \/ Turn("store") /\ RawStoreNext
  \/ Turn("ladder") /\ LadderNext
  \/ Turn("account") /\ AccountNext
     /\ \A p \in Proposals : DueAt[p] = LastClose => Len(history'[p]) <= LateRows
  \/ Turn("watch") /\ LogNext
  \/ Turn("backup") /\ BackupNext
  \/ Turn("root") /\ RootNext

ServicesSpec == ServicesInit /\ [][ServicesNext]_servicesVars

-----------------------------------------------------------------------------
(* Values of the constants.                                                *)

AllFoci == {"adapter", "boot", "lanes", "candles", "signals", "bootstrap", "store",
            "ladder", "account", "watch", "backup", "root"}
AccountFocus == {"account"}
BootFocus == {"boot"}

\* One order, every attempt of it.
OneOrder == {"o1"}
OneWireCell == {"btc5m"}
SameCell == [o \in OneOrder |-> "btc5m"]
Asked == [o \in OneOrder |-> 3]
AskedAt == [o \in OneOrder |-> 7]

\* Venue rows whose symbol is cut to the base asset and rows that carry the
\* ledger's name.
BootContracts == {"A", "B"}
SameNames == [s \in BootContracts |-> s]
CutNames == [s \in BootContracts |-> "BTC"]
NetLots == 0..2
Mix(a, b, c, d) == [e \in {"a", "b", "c", "d"} |->
                      CASE e = "a" -> a [] e = "b" -> b [] e = "c" -> c [] OTHER -> d]
TwoMixes == {Mix(0, 1, 2, 3), Mix(1, 1, 2, 3)}
TwoConsumers == <<"x", "y">>
FourEvents == {"a", "b", "c", "d"}

OneCell == <<"x">>

\* A proposal's intent is a digest; the reader looks under the proposal's tail.
TwoProposals == {"p1", "p2"}
FirstAndLastClose == [p \in TwoProposals |-> IF p = "p1" THEN 0 ELSE 2]
Intents == [p \in TwoProposals |-> p]
ReadUnderIntent == [p \in TwoProposals |-> {p}]
ReadUnderTail == [p \in TwoProposals |-> {"tail-of-" \o p}]
SomeResults == {-30}

TwoOpenOrders == [o1 |-> "ENTRY", o2 |-> "STOP_LOSS"]
RootCellNames == {"x", "y"}
PartialRowNames == {"r1", "r2"}
TwoSenders == {"c1", "c2"}
SetupSignals == {[key |-> "setup", state |-> "CONFIRMED", qOk |-> TRUE, blocked |-> FALSE, chatOk |-> TRUE],
                 [key |-> "weak", state |-> "DETECTED", qOk |-> TRUE, blocked |-> FALSE, chatOk |-> TRUE],
                 [key |-> "lost", state |-> "CONFIRMED", qOk |-> TRUE, blocked |-> FALSE, chatOk |-> FALSE]}
Alerts == {[key |-> "drift", alert |-> "DRIFT"], [key |-> "open", alert |-> "CIRCUIT_OPEN"]}
=============================================================================
