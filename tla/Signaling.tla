------------------------------- MODULE Signaling ------------------------------
(***************************************************************************)
(* The outbound plane: setup signals pass an emission gate, alerts pass a  *)
(* duplicate filter and the ledger, and both are then sent with a rate     *)
(* limit and up to three attempts.  Every send is a coroutine of its own;  *)
(* the gate is read before its awaits and the key is stored after them.    *)
(* All state is in memory.                                                 *)
(***************************************************************************)
EXTENDS Naturals, Sequences, SequencesExt, FiniteSets

CONSTANTS Signals,       \* setup signals: [key, state, qOk, blocked, chatOk]
          PolicyAlerts,  \* [key, alert]: the key is the fingerprint of name and value
          Senders,       \* coroutines that may be sending at the same time
          Capacity,      \* tokens of a chat's bucket
          RetryTimes,    \* 3
          Window,        \* ALERT_DEDUP_WINDOW_SECONDS, in ticks
          KeyTtl,        \* IDEMPOTENCY_KEY_TTL_SECONDS, in ticks
          MaxTicks, MaxOffers  \* bounds: time, and messages offered

ASSUME SignalingAssumption ==
  /\ Capacity \in Nat \ {0} /\ RetryTimes \in Nat \ {0}
  /\ Window \in Nat /\ KeyTtl \in Nat /\ MaxTicks \in Nat /\ MaxOffers \in Nat

\* Keys are hashes: of an alert's name with what was observed, of a signal's
\* id with its time and chat.
ASSUME KeysAreHashes ==
  \A a \in PolicyAlerts :
    /\ \A b \in PolicyAlerts : a.key = b.key => a.alert = b.alert
    /\ \A s \in Signals : a.key # s.key

VARIABLES ticks,
          chatTokens,  \* MessageTokenBucket
          storedKeys,  \* IdempotencyRegistry: key -> when it was stored
          lastAlert,   \* fingerprint -> when it was last asked for
          sender,      \* per coroutine: where it is and what it sends
          outbox,      \* [what, status]
          trail,       \* ALERT entries of the ledger (durable)
          received,    \* what Telegram has put in the chat, repeats counted
          offers       \* how many messages were offered

signalVars == <<ticks, chatTokens, storedKeys, lastAlert, sender, outbox, trail, received, offers>>

NotSending == [pc |-> "idle", what |-> "none", attempt |-> 0, suppressed |-> FALSE]
Never == MaxTicks + 1

What == {m.key : m \in Signals \cup PolicyAlerts}

SignalInit ==
  /\ ticks = 0 /\ chatTokens = Capacity
  /\ storedKeys = [w \in What |-> Never]
  /\ lastAlert = [w \in What |-> Never]
  /\ sender = [c \in Senders |-> NotSending]
  /\ outbox = << >> /\ trail = << >>
  /\ received = [w \in What |-> 0]
  /\ offers = 0

-----------------------------------------------------------------------------
Within(then, span) == then # Never /\ ticks - then <= span

KeyExists(key) == Within(storedKeys[key], KeyTtl)

\* calc_telegram_message: an empty bucket queues, it does not refuse.
Emits(s) == s.state = "CONFIRMED" /\ s.qOk /\ ~s.blocked /\ ~KeyExists(s.key)

Boxed(what, status) == outbox' = Append(outbox, [what |-> what, status |-> status])

GoTo(c, pc) == sender' = [sender EXCEPT ![c].pc = pc]
Ends(c) == sender' = [sender EXCEPT ![c] = NotSending]

\* send(), up to its first await.  A refused identity leaves no outbox record.
SendSignal(c, s) ==
  /\ sender[c].pc = "idle" /\ offers < MaxOffers
  /\ offers' = offers + 1
  /\ CASE ~Emits(s) -> Boxed(s.key, "SKIPPED") /\ UNCHANGED sender
       [] Emits(s) /\ ~s.chatOk -> UNCHANGED <<outbox, sender>>
       [] Emits(s) /\ s.chatOk ->
            /\ sender' = [sender EXCEPT ![c] = [NotSending EXCEPT !.pc = "bucket", !.what = s.key]]
            /\ UNCHANGED outbox
  /\ UNCHANGED <<ticks, chatTokens, storedKeys, lastAlert, trail, received>>

Exempt == {"EXEC_RECOVERY", "CIRCUIT_OPEN"}

Suppressed(a) == a.alert \notin Exempt /\ Within(lastAlert[a.key], Window)

\* emit_alert, up to the ledger: the time is noted whether or not it is sent.
EmitAlert(c, a) ==
  /\ sender[c].pc = "idle" /\ offers < MaxOffers
  /\ offers' = offers + 1
  /\ lastAlert' = [lastAlert EXCEPT ![a.key] = ticks]
  /\ sender' = [sender EXCEPT ![c] = [NotSending EXCEPT !.pc = "ledger", !.what = a.key,
                                                        !.suppressed = Suppressed(a)]]
  /\ UNCHANGED <<ticks, chatTokens, storedKeys, outbox, trail, received>>

AlertAppended(c) ==
  /\ sender[c].pc = "ledger"
  /\ trail' = Append(trail, [what |-> sender[c].what, suppressed |-> sender[c].suppressed])
  /\ IF sender[c].suppressed THEN Ends(c) ELSE GoTo(c, "bucket")
  /\ UNCHANGED <<ticks, chatTokens, storedKeys, lastAlert, outbox, received, offers>>

\* Mutant of AlertAppendRaises: the error is swallowed and the alert goes out.
AlertSentAnyway(c) ==
  /\ sender[c].pc = "ledger"
  /\ GoTo(c, "bucket")
  /\ UNCHANGED <<ticks, chatTokens, storedKeys, lastAlert, outbox, trail, received, offers>>

\* The ledger refuses, and emit_alert raises before anything is sent.
AlertAppendRaises(c) ==
  /\ sender[c].pc = "ledger"
  /\ Ends(c)
  /\ UNCHANGED <<ticks, chatTokens, storedKeys, lastAlert, outbox, trail, received, offers>>

-----------------------------------------------------------------------------
AcquireChatToken(c) ==
  /\ sender[c].pc = "bucket" /\ chatTokens > 0
  /\ chatTokens' = chatTokens - 1
  /\ sender' = [sender EXCEPT ![c].pc = "attempt", ![c].attempt = 1]
  /\ UNCHANGED <<ticks, storedKeys, lastAlert, outbox, trail, received, offers>>

\* No bot token in the environment: transport() raises out of send().
TransportMissing(c) ==
  /\ sender[c].pc = "attempt" /\ sender[c].attempt = 1
  /\ Ends(c)
  /\ UNCHANGED <<ticks, chatTokens, storedKeys, lastAlert, outbox, trail, received, offers>>

\* One attempt.  Telegram may have put the message in the chat although the
\* call raised; after the last attempt the item is only recorded.
Attempt(c, delivered, answered) ==
  LET what == sender[c].what IN
  /\ sender[c].pc = "attempt"
  /\ answered => delivered
  /\ received' = IF delivered THEN [received EXCEPT ![what] = @ + 1] ELSE received
  /\ CASE answered ->
            /\ storedKeys' = [storedKeys EXCEPT ![what] = ticks]
            /\ Boxed(what, "SENT") /\ Ends(c)
       [] ~answered /\ sender[c].attempt < RetryTimes ->
            GoTo(c, "backoff") /\ UNCHANGED <<storedKeys, outbox>>
       [] OTHER -> Boxed(what, "FAILED") /\ Ends(c) /\ UNCHANGED storedKeys
  /\ UNCHANGED <<ticks, chatTokens, lastAlert, trail, offers>>

BackoffOver(c) ==
  /\ sender[c].pc = "backoff"
  /\ sender' = [sender EXCEPT ![c].pc = "attempt", ![c].attempt = @ + 1]
  /\ UNCHANGED <<ticks, chatTokens, storedKeys, lastAlert, outbox, trail, received, offers>>

-----------------------------------------------------------------------------
Tick ==
  /\ ticks < MaxTicks
  /\ ticks' = ticks + 1 /\ chatTokens' = Capacity
  /\ UNCHANGED <<storedKeys, lastAlert, sender, outbox, trail, received, offers>>

\* The process restarts: only the ledger and the chat remember.
SignalRestart ==
  /\ \E c \in Senders : sender[c].pc # "idle"
  /\ sender' = [c \in Senders |-> NotSending]
  /\ storedKeys' = [w \in What |-> Never]
  /\ lastAlert' = [w \in What |-> Never]
  /\ outbox' = << >> /\ chatTokens' = Capacity
  /\ UNCHANGED <<ticks, trail, received, offers>>

SenderStep(c) ==
  \/ AlertAppended(c) \/ AlertAppendRaises(c)
  \/ AcquireChatToken(c) \/ TransportMissing(c) \/ BackoffOver(c)
  \/ \E delivered, answered \in BOOLEAN : Attempt(c, delivered, answered)

SignalNext ==
  \/ \E c \in Senders :
       \/ \E s \in Signals : SendSignal(c, s)
       \/ \E a \in PolicyAlerts : EmitAlert(c, a)
       \/ SenderStep(c)
  \/ Tick \/ SignalRestart

-----------------------------------------------------------------------------
(* What reached the owner is traceable: every alert in the chat has its    *)
(* entry on the ledger, across restarts; every SENT record is a delivery;  *)
(* and an alert that is exempt from suppression is never filtered out,     *)
(* whatever came before it.                                                *)
CountOf(seq, Test(_)) == Cardinality({n \in DOMAIN seq : Test(seq[n])})

DeliveriesAreTraceable ==
  /\ \A a \in PolicyAlerts :
       received[a.key] > 0 => CountOf(trail, LAMBDA r : r.what = a.key /\ ~r.suppressed) > 0
  /\ \A w \in What :
       CountOf(outbox, LAMBDA r : r.what = w /\ r.status = "SENT") <= received[w]
  /\ \A n \in DOMAIN trail, a \in PolicyAlerts :
       trail[n].what = a.key /\ trail[n].suppressed => a.alert \notin Exempt

\* signaling.py: "identical alerts within a governed window (default 30 min)
\* are suppressed": an alert is filtered only if its twin was put on its way.
SuppressedAfterTwin ==
  \A n \in DOMAIN trail : trail[n].suppressed =>
    \E m \in 1..(n - 1) : trail[m].what = trail[n].what /\ ~trail[m].suppressed
=============================================================================
