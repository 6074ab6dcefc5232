----------------------------- MODULE ControlPlane -----------------------------
(***************************************************************************)
(* telegram/control_plane.py: what one inbound update does to the control  *)
(* plane.  The handlers are reached one at a time (gateway.run_once awaits *)
(* each), so each is one step.  Screens, /myid, exports and the busy guard *)
(* of a backtest leave nothing behind between two updates ("other" below). *)
(*                                                                         *)
(* Nothing here is durable: ResetControl is what a new process starts with.*)
(***************************************************************************)
EXTENDS Integers, Sequences, FiniteSets, SequencesExt

CONSTANTS
  Chats, Owners,   \* chat ids, and those AccessControl calls OWNER
  Levels,          \* emergency levels in use, a subset of 1..5 (0: none)
  DedupSize,       \* UpdateDeduplicator._max
  MaxUpdates,      \* bound: updates ever sent
  MaxNonces        \* bound: confirmations ever issued (one per update and process)

ASSUME ControlAssumption ==
  /\ Owners \subseteq Chats
  /\ Levels \subseteq 1..5
  /\ DedupSize \in Nat \ {0} /\ MaxUpdates \in Nat /\ MaxNonces \in Nat

VARIABLES
  level,          \* EmergencyRatchet._level as an index, 0 for None
  nonces,         \* issued confirmations of this process
  paused, newDisabled, safeMode,   \* the flags the levels set
  locked,         \* the Panic Lock
  seen,           \* UpdateDeduplicator._seen: recorded ids, oldest first
  issued,         \* confirmations ever issued (their keys never repeat)
  ran             \* history: how often this process executed each update

emergency == <<level, nonces, issued>>
flags == <<paused, newDisabled, safeMode>>
control == <<emergency, flags, locked, seen, ran>>

Ids == 1..MaxUpdates
Keys == 1..MaxNonces
Nonces == [key : Keys, level : Levels, chat : Chats,
           state : {"fresh", "expired", "consumed"}]

\* What an update can ask for.  "word" is one of the bootstrap words, "back"
\* a global button of the emergency screen.
Bodies ==
  [kind : {"level"}, level : Levels]
    \cup [kind : {"confirm"}, key : Keys, level : Levels, yes : BOOLEAN]
    \cup [kind : {"recover", "lock", "unlock", "word", "back", "other"}]

ResetControl ==
  /\ level' = 0 /\ nonces' = {}
  /\ paused' = FALSE /\ newDisabled' = FALSE /\ safeMode' = FALSE
  /\ locked' = FALSE
  /\ seen' = <<>>
  /\ ran' = [i \in Ids |-> 0]
  /\ UNCHANGED issued

ControlInit ==
  /\ level = 0 /\ nonces = {} /\ issued = 0
  /\ paused = FALSE /\ newDisabled = FALSE /\ safeMode = FALSE
  /\ locked = FALSE
  /\ seen = <<>>
  /\ ran = [i \in Ids |-> 0]

-----------------------------------------------------------------------------
\* Guards shared by the handlers

IsReplay(u) == Contains(seen, u.id)

\* Mutants of Recorded: a full table keeps its old entries; the table grows.
RecordedWhileRoom(u) ==
  IF Len(seen) < DedupSize THEN Append(seen, u.id) ELSE seen
RecordedForever(u) == Append(seen, u.id)

\* UpdateDeduplicator.record: the oldest entry goes when the table is full.
Recorded(u) ==
  IF Len(seen) < DedupSize THEN Append(seen, u.id)
  ELSE Append(Tail(seen), u.id)

Executed(u) ==
  /\ ran' = [ran EXCEPT ![u.id] = @ + 1]
  /\ seen' = Recorded(u)

IsOwner(u) == u.chat \in Owners

\* Mutant of LockAdmits: only commands are locked, callbacks are not.
LockAdmitsCallbacks(u) == ~locked \/ u.body.kind \notin {"lock", "other"}

\* The Panic Lock serves /unlock (and /myid) only.
LockAdmits(u) == ~locked \/ u.body.kind = "unlock"

\* A handler is entered: not a replay, and the lock lets it through.
Served(u, kind) ==
  /\ u.body.kind = kind
  /\ ~IsReplay(u) /\ LockAdmits(u)

\* EmergencyRatchet.request: never strictly down.
RatchetAllows(l) == l >= level

-----------------------------------------------------------------------------
\* Handlers

\* A recorded update is answered from the record; a locked one is refused and
\* recorded (a bootstrap word is refused before the record is consulted).
Skipped(u) ==
  /\ IsReplay(u) \/ ~LockAdmits(u)
  /\ seen' = IF IsReplay(u) \/ u.body.kind = "word" THEN seen ELSE Recorded(u)
  /\ UNCHANGED <<emergency, flags, locked, ran>>

\* EMERGENCY:<level>: the ratchet moves at once, the effect waits for a nonce.
AskLevel(u) ==
  /\ Served(u, "level")
  /\ IF IsOwner(u) /\ RatchetAllows(u.body.level)
     THEN /\ level' = u.body.level
          /\ issued' = issued + 1
          /\ nonces' = nonces \cup {[key |-> issued + 1, level |-> u.body.level,
                                     chat |-> u.chat, state |-> "fresh"]}
     ELSE UNCHANGED emergency
  /\ Executed(u)
  /\ UNCHANGED <<flags, locked>>

\* Mutant of Consumable: the ttl is not looked at.
ConsumableLate(n, u) ==
  /\ n.key = u.body.key /\ n.chat = u.chat /\ n.level = u.body.level
  /\ n.state # "consumed"

\* ConfirmationRegistry.consume would mark this nonce consumed.
Consumable(n, u) ==
  /\ n.key = u.body.key /\ n.chat = u.chat /\ n.level = u.body.level
  /\ n.state = "fresh"

Consume(n) == (nonces \ {n}) \cup {[n EXCEPT !.state = "consumed"]}

\* _emergency_effect.  What L3 and L4 dispatch is a handler that only records
\* the request, so they leave no trace here.
Effect(l) ==
  /\ paused' = (paused \/ l \in {1, 5})
  /\ newDisabled' = (newDisabled \/ l \in {2, 5})
  /\ safeMode' = (safeMode \/ l = 5)

\* CONFIRM:<key>:<choice>:EMERGENCY_<level>.  A YES asks the ratchet again: a
\* level raised meanwhile refuses it, and the nonce is spent all the same.
Confirm(u) ==
  /\ Served(u, "confirm")
  /\ \/ \E n \in nonces :
          /\ Consumable(n, u)
          /\ nonces' = Consume(n)
          /\ IF u.body.yes /\ IsOwner(u) /\ RatchetAllows(n.level)
             THEN level' = n.level /\ Effect(n.level)
             ELSE UNCHANGED <<level, flags>>
     \/ /\ \A n \in nonces : ~Consumable(n, u)
        /\ UNCHANGED <<level, nonces, flags>>
  /\ Executed(u)
  /\ UNCHANGED <<issued, locked>>

\* Mutant of Recover: recovery needs no role.
RecoverByAnyone(u) ==
  /\ Served(u, "recover")
  /\ level' = 0
  /\ Executed(u)
  /\ UNCHANGED <<nonces, issued, flags, locked>>

\* RECOVER clears the ratchet; no handler ever clears the flags.
Recover(u) ==
  /\ Served(u, "recover")
  /\ level' = IF IsOwner(u) THEN 0 ELSE level
  /\ Executed(u)
  /\ UNCHANGED <<nonces, issued, flags, locked>>

\* /lock by anyone; /unlock by an owner.
Lock(u) ==
  /\ Served(u, "lock")
  /\ locked' = TRUE
  /\ Executed(u)
  /\ UNCHANGED <<emergency, flags>>

Unlock(u) ==
  /\ Served(u, "unlock")
  /\ locked' = (locked /\ ~IsOwner(u))
  /\ Executed(u)
  /\ UNCHANGED <<emergency, flags>>

\* gateway._bootstrap: role, lock, replay, dispatch, record.  A USER's word is
\* refused without a record.
Word(u) ==
  /\ Served(u, "word")
  /\ IF IsOwner(u) THEN Executed(u) ELSE UNCHANGED <<seen, ran>>
  /\ UNCHANGED <<emergency, flags, locked>>

\* Screens, exports, unknown actions, and "back" from a USER (access denied).
Other(u) ==
  /\ \/ Served(u, "other")
     \/ Served(u, "back") /\ ~IsOwner(u)
  /\ Executed(u)
  /\ UNCHANGED <<emergency, flags, locked>>

\* An owner's Back or Home button on the emergency screen carries
\* EMERGENCY:BACK: no level has that name, and the ratchet raises.
Raises(u) == Served(u, "back") /\ IsOwner(u)

HandleUpdate(u) ==
  \/ Skipped(u)
  \/ AskLevel(u) \/ Confirm(u) \/ Recover(u)
  \/ Lock(u) \/ Unlock(u)
  \/ Word(u) \/ Other(u)

\* 90 seconds pass after a nonce was issued.
Expire(n) ==
  /\ n \in nonces /\ n.state = "fresh"
  /\ nonces' = (nonces \ {n}) \cup {[n EXCEPT !.state = "expired"]}
  /\ UNCHANGED <<level, issued, flags, locked, seen, ran>>

ControlTypeOK ==
  /\ level \in Levels \cup {0}
  /\ nonces \subseteq Nonces /\ issued \in 0..MaxNonces
  /\ paused \in BOOLEAN /\ newDisabled \in BOOLEAN /\ safeMode \in BOOLEAN
  /\ locked \in BOOLEAN
  /\ seen \in Seq(Ids) /\ Len(seen) <= DedupSize
  /\ ran \in [Ids -> Nat]
=============================================================================
