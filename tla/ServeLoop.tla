------------------------------ MODULE ServeLoop ------------------------------
(***************************************************************************)
(* ops/paper_loop.py PaperRuntime.run: one process that polls Telegram,    *)
(* runs the due cells and manages positions, in that order, once per       *)
(* cycle.  The control plane and the cell cycle are composed here with the *)
(* gateway's polling offset, the Telegram server, crashes and restarts.    *)
(***************************************************************************)
EXTENDS ControlPlane, PaperCycle

CONSTANTS
  BatchLimit,      \* TelegramGateway.poll_limit
  MaxRestarts      \* bound: processes started after the first

\* The replay table outlives a batch (4096 against 100).
ASSUME ServeAssumption ==
  /\ BatchLimit \in Nat \ {0} /\ BatchLimit <= DedupSize
  /\ MaxRestarts \in Nat
  /\ MaxNonces >= MaxUpdates * (MaxRestarts + 1)

VARIABLES
  inbox,           \* Telegram: updates no later poll has confirmed
  sent,            \* Telegram: number of updates so far
  offset,          \* TelegramGateway.offset, 0 for None
  batch,           \* what is left of the last poll
  bar,             \* a managed position's last touching bar: "none", "new"
                   \* (after this cycle's as_of), "current"
  at,              \* where the loop stands
  proc,            \* "up", "raised" (by an update) or "down" (killed)
  restarts

cells == <<close, cursor, decided, drifting, cycle>>
telegram == <<inbox, sent>>
loop == <<offset, batch, at>>
vars == <<control, cells, telegram, loop, bar, proc, restarts>>

Places == {"top", "poll", "updates", "select", "cells", "cursor", "manage"}

Init ==
  /\ ControlInit /\ CycleInit
  /\ inbox = <<>> /\ sent = 0
  /\ offset = 0 /\ batch = <<>>
  /\ bar = "none"
  /\ at = "top"
  /\ proc = "up" /\ restarts = 0

\* PaperRuntime._control_paused.
ControlPaused == paused \/ newDisabled

-----------------------------------------------------------------------------
\* The loop

\* A paused loop only sleeps: nothing below happens any more.
Begin(stale) ==
  /\ proc = "up" /\ at = "top" /\ ~ControlPaused
  /\ BeginCycle(stale)
  /\ bar' = IF bar = "none" THEN "none" ELSE "current"
  /\ at' = "poll"
  /\ UNCHANGED <<control, telegram, offset, batch, proc, restarts>>

\* getUpdates(offset) confirms everything below it and returns the rest in
\* order.  Telegram delivers at least once: the batch may repeat an update.
PollAnswered(repeats) ==
  /\ proc = "up" /\ at = "poll"
  /\ \E first \in 1..(Len(inbox) + 1) :
       /\ \A k \in DOMAIN inbox : inbox[k].id >= offset <=> k >= first
       /\ LET rest == SubSeq(inbox, first, Len(inbox))
              new == SubSeq(rest, 1, IF Len(rest) < BatchLimit THEN Len(rest)
                                     ELSE BatchLimit)
          IN  /\ inbox' = rest
              /\ batch' = IF repeats THEN new \o new ELSE new
  /\ at' = "updates"
  /\ UNCHANGED <<control, cells, sent, offset, bar, proc, restarts>>

\* A failing poll is contained.
PollFails ==
  /\ proc = "up" /\ at = "poll"
  /\ at' = "select"
  /\ UNCHANGED <<control, cells, telegram, offset, batch, bar, proc, restarts>>

\* One update is handled, then the offset moves past it.
Handle ==
  /\ proc = "up" /\ at = "updates" /\ batch # <<>>
  /\ HandleUpdate(Head(batch))
  /\ batch' = Tail(batch)
  /\ offset' = IF Head(batch).id + 1 > offset THEN Head(batch).id + 1 ELSE offset
  /\ UNCHANGED <<cells, telegram, at, bar, proc, restarts>>

\* The handler raises: nobody up to the entry point catches it, and the offset
\* has not moved.
HandleRaises ==
  /\ proc = "up" /\ at = "updates" /\ batch # <<>>
  /\ Raises(Head(batch))
  /\ proc' = "raised"
  /\ UNCHANGED <<control, cells, telegram, loop, bar, restarts>>

UpdatesHandled ==
  /\ proc = "up" /\ at = "updates" /\ batch = <<>>
  /\ at' = "select"
  /\ UNCHANGED <<control, cells, telegram, offset, batch, bar, proc, restarts>>

Select(unprepared) ==
  /\ proc = "up" /\ at = "select"
  /\ SelectDue(unprepared)
  /\ at' = "cells"
  /\ UNCHANGED <<control, telegram, offset, batch, bar, proc, restarts>>

RunCell ==
  /\ proc = "up" /\ at = "cells"
  /\ \E c \in Cells : CellRunStep(c)
  /\ UNCHANGED <<control, telegram, loop, bar, proc, restarts>>

Gathered ==
  /\ proc = "up" /\ at = "cells" /\ CellsGathered
  /\ at' = "cursor"
  /\ UNCHANGED <<control, cells, telegram, offset, batch, bar, proc, restarts>>

WriteCursor ==
  /\ proc = "up" /\ at = "cursor"
  /\ \E c \in Cells : RecordCursor(c)
  /\ UNCHANGED <<control, telegram, loop, bar, proc, restarts>>

CursorWritten ==
  /\ proc = "up" /\ at = "cursor" /\ Recordable \subseteq recorded
  /\ at' = "manage"
  /\ UNCHANGED <<control, cells, telegram, offset, batch, bar, proc, restarts>>

\* Mutant of Manage: only bars newer than the cycle are looked at.
ManageNewOnly ==
  /\ proc = "up" /\ at = "manage"
  /\ bar' = IF bar = "new" THEN "none" ELSE bar
  /\ at' = "top"
  /\ UNCHANGED <<control, cells, telegram, offset, batch, proc, restarts>>

\* manage_positions looks at the bars its cycle's as_of can see.
Manage ==
  /\ proc = "up" /\ at = "manage"
  /\ bar' = IF bar = "current" THEN "none" ELSE bar
  /\ at' = "top"
  /\ UNCHANGED <<control, cells, telegram, offset, batch, proc, restarts>>

-----------------------------------------------------------------------------
\* Around the loop

\* Somebody writes to the bot; a confirmation quotes a key that was issued.
Send(chat, body) ==
  /\ sent < MaxUpdates
  /\ body.kind = "confirm" => body.key <= issued
  /\ sent' = sent + 1
  /\ inbox' = Append(inbox, [id |-> sent + 1, chat |-> chat, body |-> body])
  /\ UNCHANGED <<control, cells, loop, bar, proc, restarts>>

NonceExpires ==
  /\ proc = "up"
  /\ \E n \in nonces : Expire(n)
  /\ UNCHANGED <<cells, telegram, loop, bar, proc, restarts>>

MarketCloses(c) ==
  /\ BarCloses(c)
  /\ UNCHANGED <<control, telegram, loop, bar, proc, restarts>>

\* A closed bar touches the stop or the target of a managed position (which
\* some cell opened).
BarTouches ==
  /\ bar = "none" /\ Cells # {}
  /\ bar' = "new"
  /\ UNCHANGED <<control, cells, telegram, loop, proc, restarts>>

ForgetProcess ==
  /\ ResetControl /\ IdleCycle
  /\ decided' = {}
  /\ offset' = 0 /\ batch' = <<>> /\ at' = "top"

\* Killed; a crash that no restart would follow is not taken (MaxRestarts).
Crash ==
  /\ proc = "up" /\ restarts < MaxRestarts
  /\ proc' = "down"
  /\ UNCHANGED <<control, cells, telegram, loop, bar, restarts>>

\* A new process on the same database: every flag, level, lock, confirmation
\* and replay record is gone, and the drift is measured anew.
Restart ==
  /\ proc # "up" /\ restarts < MaxRestarts
  /\ restarts' = restarts + 1
  /\ proc' = "up"
  /\ drifting' \in BOOLEAN
  /\ ForgetProcess
  /\ UNCHANGED <<close, cursor, telegram, bar>>

LoopStep ==
  \/ \E stale \in SUBSET Cells : Begin(stale)
  \/ \E repeats \in BOOLEAN : PollAnswered(repeats)
  \/ PollFails
  \/ Handle \/ HandleRaises \/ UpdatesHandled
  \/ \E unprepared \in SUBSET Cells : Select(unprepared)
  \/ RunCell \/ Gathered
  \/ WriteCursor \/ CursorWritten
  \/ Manage

Next ==
  \/ LoopStep
  \/ \E chat \in Chats, body \in Bodies : Send(chat, body)
  \/ NonceExpires
  \/ \E c \in Cells : MarketCloses(c)
  \/ BarTouches
  \/ Crash \/ Restart

Spec == Init /\ [][Next]_vars

\* The event loop runs the one coroutine of the loop and its cells.
Fairness == WF_vars(LoopStep)

FairSpec == Spec /\ Fairness

-----------------------------------------------------------------------------
\* Properties

TypeOK ==
  /\ ControlTypeOK /\ CycleTypeOK
  /\ inbox \in Seq([id : Ids, chat : Chats, body : Bodies])
  /\ batch \in Seq([id : Ids, chat : Chats, body : Bodies])
  /\ sent \in 0..MaxUpdates /\ offset \in 0..(MaxUpdates + 1)
  /\ bar \in {"none", "new", "current"}
  /\ at \in Places
  /\ proc \in {"up", "raised", "down"} /\ restarts \in 0..MaxRestarts

\* A level acts only by spending a live confirmation that an owner asked for,
\* for the level then standing, with the Panic Lock off ("an expired, foreign
\* or already consumed nonce never authorizes an action").
ActsBySpendingNonce ==
  [][(paused' /\ ~paused) \/ (newDisabled' /\ ~newDisabled) =>
       /\ ~locked
       /\ \E n \in nonces :
            /\ n.state = "fresh" /\ n.chat \in Owners /\ n.level = level'
            /\ [n EXCEPT !.state = "consumed"] \in nonces']_vars

\* While the Panic Lock stays on, no level moves, no confirmation is issued or
\* spent, no flag is set and nothing but a refused /unlock is executed, by
\* command, callback or bootstrap word.
LockIsQuiet ==
  [][locked /\ locked' =>
       /\ UNCHANGED <<level, issued, flags>>
       /\ {n \in nonces' : n.state = "consumed"} \subseteq nonces
       /\ ran' # ran => Head(batch).body.kind = "unlock"]_vars

\* Inside a process the level falls only when an owner recovers.
OnlyRecoveryLowers ==
  [][proc' = "up" /\ proc = "up" /\ level' < level =>
       Head(batch).body.kind = "recover" /\ Head(batch).chat \in Owners]_vars

\* However Telegram repeats updates, a process executes each at most once
\* ("a duplicated inbound update is never re-executed").
ExecutedOnce == \A i \in Ids : ran[i] <= 1

\* A process decides a close of a cell at most once (D50).
DecidedOnce ==
  [][\A c \in Cells :
       run[c] = "due" /\ run'[c] = "running" => <<c, moment[c]>> \notin decided]_vars

\* The durable cursor moves only to closes this process decided with fresh
\* sources: a cell whose catch-up or preparation failed stays due.
CursorIsEarned ==
  [][\A c \in Cells :
       cursor'[c] # cursor[c] => <<c, cursor'[c]>> \in decided]_vars

\* However the cell coroutines interleave, no more requests are admitted or
\* submitted in a cycle than its budget.
BudgetRespected ==
  Cardinality(InState("executing") \cup InState("complete")) <= MaxTrades

\* A bar that touches a managed position is looked at while the process lives:
\* no poll, cell or cursor keeps manage_positions away for ever.  With nothing
\* in the inbox this holds; with a confirmed L1 or L2 it does not, although
\* "existing positions continue to be managed" then (APEX_GEN5.md).
PositionsAreManaged == bar # "none" ~> bar = "none" \/ proc # "up"

-----------------------------------------------------------------------------
\* What the repository says of itself and the code does not do (README.md,
\* Divergences); so is PositionsAreManaged above.

\* "Back/Home is ALWAYS reachable" (ControlPlane.render): no button the plane
\* renders ends the loop.
ButtonsAreServed == proc # "raised"

\* "only OWNER can recover from an Emergency state" (EmergencyRatchet): a level
\* falls only when an owner recovers, also from one process to the next.
OnlyOwnerRecovers ==
  [][level' < level =>
       /\ at = "updates" /\ batch # <<>>
       /\ Head(batch).body.kind = "recover" /\ Head(batch).chat \in Owners]_vars
=============================================================================
