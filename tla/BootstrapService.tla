--------------------------- MODULE BootstrapService ---------------------------
(***************************************************************************)
(* The two writers of the candle history: the bootstrap run (one process   *)
(* per run, cell after cell, page after page, a durable cursor per cell)   *)
(* and the catch-up of the serving process (a fresh frontier per cell,     *)
(* failures isolated, a boundary per timeframe).  Both page through one    *)
(* kline source, which walks the venue backward, drops invalid bars and    *)
(* serves what is above the stored frontier, was not served yet and has    *)
(* closed.  Bar b opens at time b and closes at b + 1.                     *)
(***************************************************************************)
EXTENDS Naturals, Sequences, SequencesExt, FiniteSetsExt

CONSTANTS CellOrder,     \* the cells, in the order both writers visit them
          LastMoment,    \* bound on the clock
          PageLimit,     \* PAGE_LIMIT of the venue and of a served page
          PageBudget,    \* --max-pages
          MaxRuns,       \* bound: bootstrap processes
          MaxFaults      \* bound: refused fetches, failed rows, lost mirrors, deaths

ASSUME BootstrapAssumption ==
  /\ CellOrder \in Seq(ToSet(CellOrder)) /\ IsInjective(CellOrder)
  /\ PageLimit \in Nat \ {0}
  /\ {LastMoment, PageBudget, MaxRuns, MaxFaults} \subseteq Nat

VARIABLES moment,      \* the clock
          malformed,   \* bars the venue serves with broken OHLC, fixed
          stored,      \* cell -> bars in raw_observation
          checkpoint,  \* cell -> row of research_bootstrap_progress
          mirror,      \* cell -> cursor of bootstrap_progress
          source,      \* writer -> cell -> state of its ToobitKlineSource
          writer,      \* writer -> where it stands
          runs, faults

bootstrapVars == <<moment, malformed, stored, checkpoint, mirror, source, writer, runs,
                   faults>>
durable == <<stored, checkpoint, mirror>>

DataCells == ToSet(CellOrder)
Bars == 1..LastMoment
Writers == {"run", "catchUp"}
ClosedBy(end) == {b \in Bars : b + 1 <= end}
Newest(bars) == IF bars = {} THEN 0 ELSE Max(bars)

NoCheckpoint == [status |-> "none", cursor |-> 0, dropped |-> 0]
FreshSource == [frontier |-> 0, floor |-> 0, served |-> 0, walked |-> FALSE,
                walkedTo |-> 0, history |-> {}, dropped |-> 0]
Resting == [at |-> "rest", index |-> 1, cursor |-> 0, end |-> 0, rows |-> {},
            next |-> 0, to |-> 0, seen |-> {}, pages |-> 0, allWell |-> TRUE,
            boundary |-> 0]

BootstrapInit ==
  /\ moment = 2
  /\ malformed \in SUBSET ClosedBy(LastMoment)
  /\ stored = [c \in DataCells |-> {}]
  /\ checkpoint = [c \in DataCells |-> NoCheckpoint]
  /\ mirror = [c \in DataCells |-> 0]
  /\ source = [w \in Writers |-> [c \in DataCells |-> FreshSource]]
  /\ writer = [w \in Writers |-> Resting]
  /\ runs = 0 /\ faults = 0

Fault == faults < MaxFaults /\ faults' = faults + 1
InCell(w) == CellOrder[writer[w].index]
At(w, place) == writer[w].at = place /\ writer[w].index <= Len(CellOrder)
Goes(w, place) == writer' = [writer EXCEPT ![w].at = place]

ClockTick ==
  /\ moment < LastMoment /\ moment' = moment + 1
  /\ UNCHANGED <<malformed, durable, source, writer, runs, faults>>

-----------------------------------------------------------------------------
(* The kline source.                                                       *)

(* One page of the backward walk: the tail of what opened up to `to`.      *)
VenuePage(to) ==
  {b \in 1..to : Cardinality({d \in 1..to : d > b}) < PageLimit}

(* The bar still open at the end of the walk is in the history and is not  *)
(* served.                                                                 *)
Eligible(s, end) ==
  {b \in s.history : b > s.frontier /\ b > s.served /\ b \in ClosedBy(end)}

(* The oldest of them, in the order of their open times.                   *)
ServedPage(s, end) ==
  {b \in Eligible(s, end) : Cardinality({d \in Eligible(s, end) : d < b}) < PageLimit}

NextCursor(page, cursor, end) ==
  IF page = {} THEN end ELSE Max({Max(page) + 1, cursor + 1})

ServedMarkKept(s, frontier) ==
  [s EXCEPT !.frontier = frontier, !.floor = frontier, !.walked = FALSE, !.history = {}]

BeginCatchUp(s, frontier) ==
  [s EXCEPT !.frontier = frontier, !.floor = frontier, !.served = 0,
            !.walked = FALSE, !.history = {}]

SetFrontier(s, frontier) == [s EXCEPT !.frontier = frontier]

StartWalk(me) == [me EXCEPT !.at = "walk", !.to = me.end, !.seen = {}]

TakePage(me, page, read) ==
  [me EXCEPT !.at = "ingest", !.rows = page, !.next = NextCursor(page, me.cursor, me.end),
             !.pages = @ + read]

Fetch(w) ==
  LET me == writer[w]  c == InCell(w)  s == source[w][c]
      page == ServedPage(s, me.end)
  IN /\ At(w, "page") /\ (w = "run" => me.cursor < me.end /\ me.pages < PageBudget)
     /\ IF ~s.walked \/ me.end > s.walkedTo
        THEN writer' = [writer EXCEPT ![w] = StartWalk(@)] /\ UNCHANGED source
        ELSE /\ writer' = [writer EXCEPT ![w] = TakePage(@, page, IF w = "run" THEN 1 ELSE 0)]
             /\ source' = [source EXCEPT ![w][c].served =
                                            IF page = {} THEN @ ELSE Max({@, Max(page)})]
     /\ UNCHANGED <<moment, malformed, durable, runs, faults>>

Walked(s, me) ==
  [s EXCEPT !.walked = TRUE, !.walkedTo = me.end, !.history = me.seen \ malformed]
WalkDone(me) == [me EXCEPT !.at = "page", !.to = 0, !.seen = {}]
WalkOn(me, page) == [me EXCEPT !.to = Min(page) - 1, !.seen = @ \cup page]

(* One request of the walk: it ends at the floor or at the empty page, and *)
(* only then does the history become the source's.                         *)
WalkPage(w) ==
  LET me == writer[w]  c == InCell(w)  page == VenuePage(me.to)
  IN /\ At(w, "walk")
     /\ IF me.to < source[w][c].floor \/ page = {}
        THEN /\ source' = [source EXCEPT ![w][c] = Walked(@, me)]
             /\ writer' = [writer EXCEPT ![w] = WalkDone(@)]
        ELSE /\ source' = [source EXCEPT ![w][c].dropped =
                                            @ + Cardinality(page \cap malformed)]
             /\ writer' = [writer EXCEPT ![w] = WalkOn(@, page)]
     /\ UNCHANGED <<moment, malformed, durable, runs, faults>>

-----------------------------------------------------------------------------
(* What both writers do with a page.                                       *)

RowKept(me, row) ==
  [me EXCEPT !.rows = @ \ {row}, !.at = IF me.rows = {row} THEN "kept" ELSE @]

IngestRow(w) ==
  LET me == writer[w]  row == Min(me.rows)
  IN /\ At(w, "ingest") /\ me.rows # {}
     /\ stored' = [stored EXCEPT ![InCell(w)] = @ \cup {row}]
     /\ writer' = [writer EXCEPT ![w] = RowKept(@, row)]
     /\ UNCHANGED <<moment, malformed, checkpoint, mirror, source, runs, faults>>

ProcessGone(w) == source' = [source EXCEPT ![w] = [c \in DataCells |-> FreshSource]]

PageFrom(me, cursor) == [me EXCEPT !.at = "page", !.cursor = cursor, !.next = 0]

NextCell(me) == [me EXCEPT !.at = "cell", !.index = @ + 1]
Cleared(me) == [me EXCEPT !.next = 0, !.cursor = 0, !.to = 0, !.seen = {}]

RefusalForgotten(me) == [me EXCEPT !.at = "next", !.rows = {}]

CellRefused(me) == [me EXCEPT !.at = "next", !.rows = {}, !.allWell = FALSE]

(* A refused fetch or a failing row: it ends the run's process, and only   *)
(* the cell in the catch-up.                                               *)
CellFails(w) ==
  /\ writer[w].at \in {"walk", "ingest"} /\ Fault
  /\ writer' = [writer EXCEPT ![w] = IF w = "run" THEN Resting ELSE CellRefused(@)]
  /\ IF w = "run" THEN ProcessGone(w) ELSE UNCHANGED source
  /\ UNCHANGED <<moment, malformed, durable, runs>>

(* The venue's rate limit outlasts the walk's retries: the run asks again  *)
(* from the same cursor, the catch-up gives the cell up.                   *)
RateLimited(w) ==
  /\ At(w, "walk") /\ w = "run" /\ Fault
  /\ Goes(w, "page")
  /\ UNCHANGED <<moment, malformed, durable, source, runs>>

-----------------------------------------------------------------------------
(* The bootstrap run.                                                      *)

StartRun ==
  /\ writer["run"].at = "rest" /\ runs < MaxRuns /\ runs' = runs + 1
  /\ source' = [source EXCEPT !["run"] =
                   [c \in DataCells |-> SetFrontier(FreshSource, Newest(stored[c]))]]
  /\ writer' = [writer EXCEPT !["run"] = [Resting EXCEPT !.at = "cell", !.end = moment]]
  /\ UNCHANGED <<moment, malformed, durable, faults>>

(* Drop evidence a save writes: COMPLETE merges what the walk counted, any *)
(* other status carries the row's own forward.                             *)
DropEvidence(c, status) ==
  LET s == source["run"][c]
  IN IF status = "COMPLETE" /\ s.walked THEN Max({s.dropped, checkpoint[c].dropped})
     ELSE checkpoint[c].dropped

(* The research row first; the canonical mirror may fail and is let go.    *)
SaveBootstrap(c, status, cursor) ==
  /\ checkpoint' = [checkpoint EXCEPT ![c] =
                      [status |-> status, cursor |-> Max({@.cursor, cursor}),
                       dropped |-> DropEvidence(c, status)]]
  /\ \/ mirror' = [mirror EXCEPT ![c] = Max({@, cursor})] /\ UNCHANGED faults
     \/ UNCHANGED mirror /\ Fault

EnterCell ==
  LET c == InCell("run")
  IN /\ At("run", "cell")
     /\ SaveBootstrap(c, "IN_PROGRESS", checkpoint[c].cursor)
     /\ writer' = [writer EXCEPT !["run"] = PageFrom(@, checkpoint[c].cursor)]
     /\ UNCHANGED <<moment, malformed, stored, source, runs>>

PageSaved ==
  LET me == writer["run"]
  IN /\ At("run", "kept") \/ (At("run", "ingest") /\ me.rows = {})
     /\ SaveBootstrap(InCell("run"), "IN_PROGRESS", me.next)
     /\ writer' = [writer EXCEPT !["run"] = PageFrom(@, me.next)]
     /\ UNCHANGED <<moment, malformed, stored, source, runs>>

BudgetReached ==
  LET me == writer["run"]
  IN /\ At("run", "page") /\ me.cursor < me.end /\ me.pages >= PageBudget
     /\ writer' = [writer EXCEPT !["run"] = Resting] /\ ProcessGone("run")
     /\ UNCHANGED <<moment, malformed, durable, runs, faults>>

CellComplete ==
  LET me == writer["run"]
  IN /\ At("run", "page") /\ me.cursor >= me.end
     /\ SaveBootstrap(InCell("run"), "COMPLETE", me.cursor)
     /\ writer' = [writer EXCEPT !["run"] = NextCell(@)]
     /\ UNCHANGED <<moment, malformed, stored, source, runs>>

RunEnds ==
  /\ writer["run"].index > Len(CellOrder)
  /\ writer' = [writer EXCEPT !["run"] = Resting] /\ ProcessGone("run")
  /\ UNCHANGED <<moment, malformed, durable, runs, faults>>

-----------------------------------------------------------------------------
(* The catch-up of the serving process.                                    *)

CatchUpDue ==
  /\ writer["catchUp"].at = "rest" /\ moment > writer["catchUp"].boundary
  /\ writer' = [writer EXCEPT !["catchUp"] = [@ EXCEPT !.at = "cell", !.end = moment]]
  /\ UNCHANGED <<moment, malformed, durable, source, runs, faults>>

CatchUpCell ==
  LET c == InCell("catchUp")
  IN /\ At("catchUp", "cell")
     /\ source' = [source EXCEPT !["catchUp"][c] = BeginCatchUp(@, Newest(stored[c]))]
     /\ writer' = [writer EXCEPT !["catchUp"] = PageFrom(@, Newest(stored[c]))]
     /\ UNCHANGED <<moment, malformed, durable, runs, faults>>

CatchUpPageDone ==
  LET me == writer["catchUp"]
  IN /\ \/ At("catchUp", "kept")
           /\ writer' = [writer EXCEPT !["catchUp"] = PageFrom(@, me.next)]
        \/ At("catchUp", "ingest") /\ me.rows = {} /\ Goes("catchUp", "next")
     /\ UNCHANGED <<moment, malformed, durable, source, runs, faults>>

CatchUpNextCell ==
  /\ At("catchUp", "next")
  /\ writer' = [writer EXCEPT !["catchUp"] = Cleared(NextCell(@))]
  /\ UNCHANGED <<moment, malformed, durable, source, runs, faults>>

(* The boundary moves only when every cell of the timeframe went well.     *)
CatchUpEnds ==
  LET me == writer["catchUp"]
  IN /\ me.index > Len(CellOrder)
     /\ writer' = [writer EXCEPT !["catchUp"] =
                     [Resting EXCEPT !.boundary = IF me.allWell THEN me.end ELSE me.boundary]]
     /\ UNCHANGED <<moment, malformed, durable, source, runs, faults>>

-----------------------------------------------------------------------------
(* A process dies: its source and its place are gone, the store stays.     *)
WriterDies(w) ==
  /\ Fault /\ writer[w] # Resting
  /\ writer' = [writer EXCEPT ![w] = Resting] /\ ProcessGone(w)
  /\ UNCHANGED <<moment, malformed, durable, runs>>

BootstrapNext ==
  \/ ClockTick
  \/ \E w \in Writers : Fetch(w) \/ WalkPage(w) \/ IngestRow(w) \/ CellFails(w)
                         \/ RateLimited(w) \/ WriterDies(w)
  \/ StartRun \/ EnterCell \/ PageSaved \/ BudgetReached \/ CellComplete \/ RunEnds
  \/ CatchUpDue \/ CatchUpCell \/ CatchUpPageDone \/ CatchUpNextCell \/ CatchUpEnds

BootstrapSpec == BootstrapInit /\ [][BootstrapNext]_bootstrapVars

-----------------------------------------------------------------------------
(* Whatever page fails, whichever process dies and however the two writers *)
(* interleave, the stored history of a cell is the closed, well-formed     *)
(* bars up to its newest one: no bar is jumped over (the frontier rule     *)
(* would never come back to it) and none is stored before its close.  And  *)
(* what the durable rows and the boundary claim is in the store: a cell    *)
(* marked COMPLETE holds every good bar closed by its cursor, a timeframe  *)
(* whose boundary moved needs no second look at what closed before it, and *)
(* the mirrored cursor is never ahead of the row it mirrors.               *)
HistoryIsWhole ==
  \A c \in DataCells :
    /\ stored[c] = ClosedBy(Newest(stored[c]) + 1) \ malformed
    /\ stored[c] \subseteq ClosedBy(moment)
    /\ checkpoint[c].status = "COMPLETE" =>
         ClosedBy(checkpoint[c].cursor) \ malformed \subseteq stored[c]
    /\ ClosedBy(writer["catchUp"].boundary) \ malformed \subseteq stored[c]
    /\ mirror[c] <= checkpoint[c].cursor
=============================================================================
