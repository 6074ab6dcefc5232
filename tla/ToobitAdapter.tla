---------------------------- MODULE ToobitAdapter ----------------------------
(***************************************************************************)
(* The venue adapter: what happens between submit_order and an answer.     *)
(* A request waits for a token of its endpoint, leaves, and is answered,   *)
(* refused or times out; a request that timed out may still reach the      *)
(* venue later.  Only the venue's explicit "back off" is tried again.  The *)
(* answer of a submission is kept under its client order id and given back *)
(* instead of a second request.  The venue side (Deliver, Refill) is       *)
(* modelled from how the adapter reads its answers.                        *)
(***************************************************************************)
EXTENDS Naturals, Sequences, SequencesExt, FiniteSets

CONSTANTS Orders,         \* client order ids (intent ids)
          WireCells,      \* <<symbol, timeframe>> pairs
          WireCell,       \* the cell each order belongs to
          AskedQuantity,  \* what each submission asks for, before the lattice
          AskedPrice,
          QuantityStep, TickSize, MinNotional,
          RetryAttempts,  \* 3
          BucketCapacity, \* tokens of the endpoint's bucket
          MaxRequests     \* bound: requests of one order the model follows

ASSUME AdapterAssumption ==
  /\ WireCell \in [Orders -> WireCells]
  /\ AskedQuantity \in [Orders -> Nat] /\ AskedPrice \in [Orders -> Nat]
  /\ QuantityStep \in Nat \ {0} /\ TickSize \in Nat \ {0} /\ MinNotional \in Nat
  /\ RetryAttempts \in Nat \ {0} /\ BucketCapacity \in Nat \ {0}
  /\ MaxRequests \in Nat \ {0}

VARIABLES duplicates,  \* recorded outcome per order id, or "none"
          disabled,    \* cells the venue answered -1120 for
          call,        \* the coroutine working for an order id
          tokens,      \* whole tokens in the bucket
          line,        \* order ids waiting for the bucket's lock, oldest first
          wire,        \* requests on their way to the venue
          held         \* orders the venue has accepted and not cancelled

adapterVars == <<duplicates, disabled, call, tokens, line, wire, held>>

Idle == [pc |-> "idle", kind |-> "none", attempt |-> 0, reply |-> "none"]

AdapterInit ==
  /\ duplicates = [o \in Orders |-> "none"]
  /\ disabled = {}
  /\ call = [o \in Orders |-> Idle]
  /\ tokens = BucketCapacity
  /\ line = << >>
  /\ wire = [o \in Orders |-> << >>]
  /\ held = {}

-----------------------------------------------------------------------------
(* What an answer means.  code is the class of the business code in the    *)
(* body; a success code only counts with HTTP 200.                         *)

Classify(code, http200) ==
  CASE code = "success" -> IF http200 THEN "OK" ELSE "UNKNOWN"
    [] code \in {"timeout", "unknown"} -> "UNKNOWN"
    [] code = "-1120" -> "INTERVAL_UNSUPPORTED"
    [] code = "-1022" -> "ABORT"
    [] code = "-1003" -> "BACKOFF"
    [] OTHER -> "UNMAPPED"

StatusOutcome ==
  [NEW |-> "ACKNOWLEDGED", PARTIALLY_FILLED |-> "PARTIAL", FILLED |-> "FILLED",
   CANCELED |-> "CANCELLED", REJECTED |-> "REJECTED", EXPIRED |-> "UNKNOWN"]

OutcomeFor(class, status) ==
  CASE class = "OK" /\ status = "none" -> "ACKNOWLEDGED"
    [] class = "OK" /\ status # "none" -> StatusOutcome[status]
    [] class \in {"INTERVAL_UNSUPPORTED", "ABORT"} -> "REJECTED"
    [] OTHER -> "UNKNOWN"

TriedOnDoubt(class, attempt) == class \in {"BACKOFF", "UNKNOWN"} /\ attempt < RetryAttempts
\* No silent retry: only a request the venue says it did not take is repeated.
TriedAgain(class, attempt) == class = "BACKOFF" /\ attempt < RetryAttempts

-----------------------------------------------------------------------------
Quantize(value, step) == (value \div step) * step

MinNotionalMet(price, quantity) == price * quantity >= MinNotional

\* Refused before any exchange call; a refusal is not recorded.
RefusedLocally(o) ==
  LET quantity == Quantize(AskedQuantity[o], QuantityStep)
      price == Quantize(AskedPrice[o], TickSize)
  IN  ~MinNotionalMet(price, quantity) \/ quantity = 0

Start(o, kind) ==
  /\ call' = [call EXCEPT ![o] = [Idle EXCEPT !.pc = "queued", !.kind = kind, !.attempt = 1]]
  /\ line' = Append(line, o)
  /\ UNCHANGED <<duplicates, disabled, tokens, wire, held>>

\* submit_order, down to the call of _execute.  A repeated id never starts
\* another request; a caller has one submission of an id under way at a time.
SubmitOrder(o) ==
  /\ call[o].pc = "idle"
  /\ WireCell[o] \notin disabled
  /\ duplicates[o] = "none"
  /\ ~RefusedLocally(o)
  /\ Start(o, "submit")

CancelOrder(o) == call[o].pc = "idle" /\ duplicates[o] # "none" /\ Start(o, "cancel")
QueryOrder(o)  == call[o].pc = "idle" /\ duplicates[o] # "none" /\ Start(o, "query")

-----------------------------------------------------------------------------
(* _execute, one attempt.  The bucket's lock is first come, first served,  *)
(* and is held while its owner waits for a token.                          *)

Recorded(o, outcome) ==
  IF call[o].kind = "submit" THEN [duplicates EXCEPT ![o] = outcome] ELSE duplicates

AcquireToken(o) ==
  /\ line # << >> /\ Head(line) = o
  /\ tokens > 0
  /\ Len(wire[o]) < MaxRequests
  /\ tokens' = tokens - 1
  /\ line' = Tail(line)
  /\ wire' = [wire EXCEPT ![o] = Append(@, call[o].kind)]
  /\ call' = [call EXCEPT ![o].pc = "sent"]
  /\ UNCHANGED <<duplicates, disabled, held>>

\* The bounded wait expired: nothing was sent, and the id still gets a record.
AcquireTimesOut(o) ==
  /\ line # << >> /\ Head(line) = o
  /\ tokens = 0
  /\ line' = Tail(line)
  /\ duplicates' = Recorded(o, "UNKNOWN")
  /\ call' = [call EXCEPT ![o] = Idle]
  /\ UNCHANGED <<disabled, tokens, wire, held>>

Conclude(o, code, http200, status) ==
  LET class == Classify(code, http200) IN
  IF TriedAgain(class, call[o].attempt)
  THEN /\ call' = [call EXCEPT ![o] = [Idle EXCEPT !.pc = "backoff", !.kind = call[o].kind,
                                                   !.attempt = call[o].attempt + 1]]
       /\ UNCHANGED <<duplicates, disabled, line>>
  ELSE /\ call' = [call EXCEPT ![o] = Idle]
       /\ duplicates' = Recorded(o, OutcomeFor(class, status))
       /\ disabled' = IF class = "INTERVAL_UNSUPPORTED" /\ call[o].kind = "submit"
                      THEN disabled \cup {WireCell[o]} ELSE disabled
       /\ UNCHANGED line

\* What the venue may say when it took the request, and when it did not.
TookIt == {[code |-> "success", http200 |-> TRUE, status |-> s] :
             s \in {"none", "NEW", "PARTIALLY_FILLED", "FILLED", "CANCELED", "EXPIRED"}}
Unclear == {[code |-> c, http200 |-> h, status |-> "none"] :
              c \in {"unknown", "other"}, h \in BOOLEAN}
           \cup {[code |-> "success", http200 |-> FALSE, status |-> "none"]}
LeftIt == {[code |-> c, http200 |-> TRUE, status |-> "none"] : c \in {"-1120", "-1022", "-1003"}}
          \cup {[code |-> "success", http200 |-> TRUE, status |-> "REJECTED"]}

Answered(o) ==
  /\ call[o].pc = "sent"
  /\ call[o].reply # "none"
  /\ \E a \in Unclear \cup (IF call[o].reply = "took" THEN TookIt ELSE LeftIt) :
       Conclude(o, a.code, a.http200, a.status)
  /\ UNCHANGED <<tokens, wire, held>>

\* The transport's timeout, or any other fault of the transport.
RequestTimesOut(o) ==
  /\ call[o].pc = "sent"
  /\ Conclude(o, "timeout", FALSE, "none")
  /\ UNCHANGED <<tokens, wire, held>>

BackoffElapsed(o) ==
  /\ call[o].pc = "backoff"
  /\ call' = [call EXCEPT ![o].pc = "queued"]
  /\ line' = Append(line, o)
  /\ UNCHANGED <<duplicates, disabled, tokens, wire, held>>

-----------------------------------------------------------------------------
(* The venue and the clock.                                                *)

Deliver(o) ==
  /\ wire[o] # << >>
  /\ \E took \in BOOLEAN :
       /\ held' = CASE took /\ Head(wire[o]) = "submit" -> held \cup {o}
                    [] took /\ Head(wire[o]) = "cancel" -> held \ {o}
                    [] OTHER -> held
       \* the caller reads this reply only while it still waits for this request
       /\ call' = IF call[o].pc = "sent" /\ Len(wire[o]) = 1
                  THEN [call EXCEPT ![o].reply = IF took THEN "took" ELSE "left"]
                  ELSE call
  /\ wire' = [wire EXCEPT ![o] = Tail(@)]
  /\ UNCHANGED <<duplicates, disabled, tokens, line>>

Refill ==
  /\ tokens < BucketCapacity
  /\ tokens' = tokens + 1
  /\ UNCHANGED <<duplicates, disabled, call, line, wire, held>>

AdapterStep(o) ==
  \/ AcquireToken(o) \/ AcquireTimesOut(o)
  \/ Answered(o) \/ RequestTimesOut(o) \/ BackoffElapsed(o)

AdapterNext ==
  \/ \E o \in Orders :
       \/ SubmitOrder(o) \/ CancelOrder(o) \/ QueryOrder(o)
       \/ AdapterStep(o) \/ Deliver(o)
  \/ Refill

-----------------------------------------------------------------------------
(* A submission recorded as REJECTED (execution_fsm ends the intent on it) *)
(* was not taken by the venue and no request of it is still travelling:    *)
(* the adapter never reports a refusal for an order that may exist.        *)
RefusalMeansNoOrder ==
  \A o \in Orders :
    duplicates[o] = "REJECTED" =>
      o \notin held /\ \A n \in DOMAIN wire[o] : wire[o][n] # "submit"
=============================================================================
