------------------------------- MODULE RunApex --------------------------------
(***************************************************************************)
(* The entry point: one process runs one command.  It may refuse the       *)
(* command outright, opens what the command needs one thing after another, *)
(* works, closes in a fixed order and ends with an exit code the owner's   *)
(* scripts go by.  Anything can fail in between, the owner can interrupt   *)
(* it, and what it did to the data, the artifact and the reports stays.    *)
(***************************************************************************)
EXTENDS Integers, Sequences, FiniteSets, SequencesExt

CONSTANTS RootCells,    \* the cells of the raw store
          PartialRows,  \* bars stored before they closed
          MaxCommands   \* bound: commands given

ASSUME RootAssumption == MaxCommands \in Nat \ {0}

VARIABLES verb, config, rootAt,   \* the command, its options, where it stands
          opened,                 \* what the process holds
          code,                   \* the exit code
          cellsDone, partialRows, artifact, reports,  \* what stays
          before,                 \* history: what was there when it began
          verdictOf,              \* history: what the work came to
          commands

rootDurable == <<cellsDone, partialRows, artifact, reports>>
rootVars == <<verb, config, rootAt, opened, code, rootDurable, before, verdictOf, commands>>

Verbs == {"boot", "bootstrap", "status", "repair-partial", "serve", "train-e11",
          "fit-study", "publish-quality-backfill"}

\* The options that change what a command does.
Configs ==
  [env : {"PAPER", "LIVE"}, gate : BOOLEAN, signed : BOOLEAN,
   cells : {"unknown"} \cup {"all", "some"}, apply : BOOLEAN]

Plain == [env |-> "PAPER", gate |-> FALSE, signed |-> TRUE, cells |-> "all", apply |-> FALSE]
ConfigsOf(v) ==
  CASE v = "serve" -> {[Plain EXCEPT !.env = e, !.gate = g, !.signed = s] :
                         e \in {"PAPER", "LIVE"}, g \in BOOLEAN, s \in BOOLEAN}
    [] v = "publish-quality-backfill" -> {[Plain EXCEPT !.env = e] : e \in {"PAPER", "LIVE"}}
    [] v = "bootstrap" -> {[Plain EXCEPT !.cells = c] : c \in {"unknown", "all", "some"}}
    [] v = "repair-partial" -> {[Plain EXCEPT !.cells = c, !.apply = a] :
                                  c \in {"unknown", "all"}, a \in BOOLEAN}
    [] OTHER -> {Plain}

RootInit ==
  /\ verb = "none" /\ config = Plain /\ rootAt = "ended"
  /\ opened = {} /\ code = "NONE"
  /\ cellsDone = {} /\ partialRows = PartialRows /\ artifact = 0 /\ reports = 0
  /\ before = [artifact |-> 0, rows |-> PartialRows] /\ verdictOf = "none"
  /\ commands = 0

-----------------------------------------------------------------------------
(* What a command opens, in order, before the try whose finally closes it, *)
(* and what its finally closes, in order.                                  *)

RuntimeStarts == <<"store", "ledger", "bus">>
RuntimeStops == <<"bus", "ledger", "store">>
ServiceCloses == <<"source", "checkpoints">>

Opening(v) ==
  CASE v = "boot" -> RuntimeStarts
    [] v = "serve" -> RuntimeStarts \o <<"checkpoints">>
    [] v \in {"bootstrap", "status"} -> <<"store", "checkpoints">>
    [] v \in {"repair-partial", "publish-quality-backfill"} -> <<"store">>
    [] OTHER -> <<>>

Closing(v) ==
  CASE v = "boot" -> RuntimeStops
    [] v = "serve" -> <<"gateway">> \o ServiceCloses \o RuntimeStops
    [] v \in {"bootstrap", "status"} -> ServiceCloses \o <<"store">>
    [] OTHER -> Opening(v)

\* A store and a checkpoint file are each served by a thread that keeps the
\* interpreter from ending until they are closed.
Threads == {"store", "checkpoints"}

\* An unknown cell is an error before anything is opened; the two guarded
\* commands are refused before anything is opened.
ParseCells(c) == c.cells # "unknown"
ServeRefused(c) == (c.env = "LIVE" /\ ~c.gate) \/ ~c.signed
BackfillRefused(c) == c.env # "PAPER"
Refused(v, c) ==
  \/ v = "serve" /\ ServeRefused(c)
  \/ v = "publish-quality-backfill" /\ BackfillRefused(c)

\* main: the exception a command ends with becomes its code.
CodeOf(exception) ==
  IF exception = "AdapterError" THEN "DEGRADED" ELSE "ERROR"

\* The process cannot end while such a thread is open: it hangs.
EndOf(held) == IF held \cap Threads = {} THEN "ended" ELSE "hung"

Invoke(v, c) ==
  /\ rootAt = "ended" /\ commands < MaxCommands
  /\ commands' = commands + 1
  /\ verb' = v /\ config' = c /\ opened' = {} /\ verdictOf' = "none"
  /\ before' = [artifact |-> artifact, rows |-> partialRows]
  /\ \/ /\ ~ParseCells(c)
        /\ code' = CodeOf("ValueError") /\ rootAt' = "ended"
     \/ /\ ParseCells(c) /\ Refused(v, c)
        /\ code' = "DEGRADED" /\ rootAt' = "ended"
     \/ /\ ParseCells(c) /\ ~Refused(v, c)
        /\ code' = "NONE"
        /\ rootAt' = IF Opening(v) = <<>> THEN "work" ELSE "open"
  /\ UNCHANGED rootDurable

\* The n-th of the sequence is the first of it that is in the set.
FirstAmong(seq, n, set) == seq[n] \in set /\ \A m \in 1..(n - 1) : seq[m] \notin set

\* A step of the prologue works, or fails: nothing closes what is open.
OpenNext ==
  /\ rootAt = "open"
  /\ \E n \in DOMAIN Opening(verb) :
       /\ FirstAmong(Opening(verb), n, Range(Opening(verb)) \ opened)
       /\ opened' = opened \cup {Opening(verb)[n]}
       /\ rootAt' = IF n = Len(Opening(verb)) THEN "work" ELSE "open"
  /\ UNCHANGED <<verb, config, code, rootDurable, before, verdictOf, commands>>

OpenFails ==
  /\ rootAt = "open"
  /\ code' = CodeOf("OSError")
  /\ rootAt' = EndOf(opened)
  /\ UNCHANGED <<verb, config, opened, rootDurable, before, verdictOf, commands>>

-----------------------------------------------------------------------------
(* The work.  Each command leaves a code, what it came to, and its effects.*)

Leaves(c, verdict) == code' = c /\ verdictOf' = verdict
NothingStays == UNCHANGED rootDurable

BootBody ==
  \E state \in {"READY", "DEGRADED", "RECOVERY_REQUIRED"} :
    /\ Leaves(CASE state = "READY" -> "READY" [] state = "DEGRADED" -> "DEGRADED"
                [] OTHER -> "RECOVERY", state)
    /\ NothingStays

Selected(c) == IF c.cells = "some" THEN {CHOOSE cell \in RootCells : TRUE} ELSE RootCells

BootstrapCode(status) ==
  CASE status = "COMPLETE" -> "READY"
    [] status \in {"PAUSED", "BUDGET_REACHED", "STOPPED"} -> "DEGRADED"
    [] OTHER -> "RECOVERY"

\* A run that was not stopped leaves every selected cell complete; any other
\* leaves the cell it was at in progress.  A failing venue is no error.
BootstrapBody ==
  \E status \in {"COMPLETE", "PAUSED", "BUDGET_REACHED", "STOPPED", "VENUE_FAILED"},
     more \in SUBSET Selected(config), at \in Selected(config) :
    /\ Leaves(IF status = "VENUE_FAILED" THEN "DEGRADED" ELSE BootstrapCode(status), status)
    /\ cellsDone' = IF status = "COMPLETE" THEN cellsDone \cup Selected(config)
                    ELSE (cellsDone \cup more) \ {at}
    /\ UNCHANGED <<partialRows, artifact, reports>>

StatusBody ==
  /\ Leaves(IF RootCells \subseteq cellsDone THEN "READY" ELSE "DEGRADED", "told")
  /\ NothingStays

\* Every candidate gets a verdict; only an applied repair writes.
RowVerdicts == {"VERIFIED_CLOSED", "REPAIRED", "UNREPAIRABLE", "REFUSED", "STILL_OPEN"}
RepairCode(verdicts) ==
  IF verdicts \cap {"UNREPAIRABLE", "REFUSED"} = {} THEN "READY" ELSE "DEGRADED"

RepairBody ==
  \/ \E verdict \in [partialRows -> RowVerdicts] :
       /\ Leaves(RepairCode({verdict[r] : r \in partialRows}), "reported")
       /\ partialRows' = IF config.apply THEN {r \in partialRows : verdict[r] # "REPAIRED"}
                         ELSE partialRows
       /\ reports' \in {reports, reports + 1}
       /\ UNCHANGED <<cellsDone, artifact>>
  \/ Leaves("ERROR", "evidence_refused") /\ NothingStays

BackfillBody == Leaves("READY", "published") /\ NothingStays

WriteClassifier == artifact' = commands

TrainRefusedAfterWrite(why) == Leaves("DEGRADED", why) /\ WriteClassifier /\ UNCHANGED reports

TrainRefusals == {"DEGENERATE", "TIMEOUT", "BRIDGE"}
TrainRefused(why) == Leaves("DEGRADED", why) /\ UNCHANGED <<artifact, reports>>

\* Trained: the artifact is replaced, then the report is written.
TrainBody ==
  /\ \/ \E why \in TrainRefusals : TrainRefused(why)
     \/ Leaves("READY", "TRAINED") /\ WriteClassifier /\ reports' = reports + 1
     \/ Leaves(CodeOf("OSError"), "report_failed") /\ WriteClassifier /\ UNCHANGED reports
  /\ UNCHANGED <<cellsDone, partialRows>>

\* The study reads the training cache only.
FitStudyBody ==
  /\ \/ Leaves("DEGRADED", "FIT_STUDY_REQUIRES_CACHE") /\ UNCHANGED reports
     \/ Leaves("READY", "FIT_STUDY") /\ reports' = reports + 1
  /\ UNCHANGED <<cellsDone, partialRows, artifact>>

\* serve: the boot, then cycles until the owner stops it or they are spent.
\* The code is the boot's, whatever the cycles came to.
ServeBody ==
  \E state \in {"READY", "DEGRADED", "RECOVERY_REQUIRED"} :
    /\ Leaves(IF state = "READY" THEN "READY" ELSE "DEGRADED", state)
    /\ NothingStays

Body(v) ==
  CASE v = "boot" -> BootBody [] v = "bootstrap" -> BootstrapBody
    [] v = "status" -> StatusBody [] v = "repair-partial" -> RepairBody
    [] v = "serve" -> ServeBody [] v = "train-e11" -> TrainBody
    [] v = "fit-study" -> FitStudyBody [] OTHER -> BackfillBody

\* What a command comes to hold while it works.
Wired(v) ==
  CASE v = "serve" -> SUBSET {"gateway", "source"}
    [] v = "bootstrap" -> {{}, {"source"}}
    [] OTHER -> {{}}

Works ==
  /\ rootAt = "work"
  /\ Body(verb)
  /\ \E more \in Wired(verb) : opened' = opened \cup more
  /\ rootAt' = IF Opening(verb) = <<>> THEN "ended" ELSE "close"
  /\ UNCHANGED <<verb, config, before, commands>>

\* The work raises or the owner interrupts it: pages and rows written so far
\* stay, the finally runs and the exception gives the code.
WorkRaises ==
  /\ rootAt = "work"
  /\ \E exception \in {"AdapterError", "KeyboardInterrupt", "Exception"} :
       code' = CodeOf(exception)
  /\ verdictOf' = "raised"
  /\ \E more \in Wired(verb) : opened' = opened \cup more
  /\ cellsDone' \in IF verb = "bootstrap" THEN {cellsDone \ {c} : c \in Selected(config)} \cup {cellsDone}
                    ELSE {cellsDone}
  /\ partialRows' \in IF verb = "repair-partial" /\ config.apply THEN SUBSET partialRows
                      ELSE {partialRows}
  /\ rootAt' = IF Opening(verb) = <<>> THEN "ended" ELSE "close"
  /\ UNCHANGED <<verb, config, artifact, reports, before, commands>>

CloseNext ==
  /\ rootAt = "close"
  /\ \/ \E n \in DOMAIN Closing(verb) :
          /\ FirstAmong(Closing(verb), n, opened)
          /\ opened' = opened \ {Closing(verb)[n]} /\ UNCHANGED rootAt
     \/ /\ Range(Closing(verb)) \cap opened = {}
        /\ rootAt' = EndOf(opened) /\ UNCHANGED opened
  /\ UNCHANGED <<verb, config, code, rootDurable, before, verdictOf, commands>>

\* A close that raises leaves the rest of the finally undone.
CloseFails ==
  /\ rootAt = "close"
  /\ \E r \in opened : r \in Range(Closing(verb))
  /\ code' = CodeOf("OSError")
  /\ rootAt' = EndOf(opened)
  /\ UNCHANGED <<verb, config, opened, rootDurable, before, verdictOf, commands>>

RootNext ==
  \/ \E v \in Verbs : \E c \in ConfigsOf(v) : Invoke(v, c)
  \/ OpenNext \/ OpenFails \/ Works \/ WorkRaises \/ CloseNext \/ CloseFails

-----------------------------------------------------------------------------
(* The exit code can be relied on.  A command that says READY has done all *)
(* it was asked for and holds nothing; one that says DEGRADED can simply be*)
(* given again: it holds nothing and the classifier is the one it found;   *)
(* and whatever a command says, rows a repair may not touch are untouched. *)
ExitCodeIsTrue ==
  rootAt = "ended" =>
    /\ code \in {"READY", "DEGRADED", "RECOVERY"} => opened = {}
    /\ code = "READY" =>
         CASE verb = "bootstrap" -> Selected(config) \subseteq cellsDone
           [] verb = "status" -> RootCells \subseteq cellsDone
           [] verb = "train-e11" -> artifact = commands /\ reports > 0
           [] OTHER -> TRUE
    /\ code = "DEGRADED" => artifact = before.artifact
    /\ partialRows # before.rows => verb = "repair-partial" /\ config.apply
    /\ artifact # before.artifact => verb = "train-e11"

\* The composition root is "always closed": no command leaves a thread open.
AlwaysClosed == rootAt # "hung"

\* The codes of the usage text: 3 for RECOVERY_REQUIRED.
RecoveryIsThree ==
  (rootAt = "ended" /\ verdictOf = "RECOVERY_REQUIRED" /\ code # "ERROR") => code = "RECOVERY"

\* "Exit 0 when nothing is left unrepaired".
RepairedWhenZero ==
  (rootAt = "ended" /\ verb = "repair-partial" /\ code = "READY") => partialRows = {}
=============================================================================
