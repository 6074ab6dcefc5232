---------------------------- MODULE OrderContract ----------------------------
(***************************************************************************)
(* What the execution path promises about entry orders, told without any   *)
(* of its machinery: a plan is recorded before anything is sent for it,    *)
(* at most one entry request ever leaves for a proposal, the venue only    *)
(* executes what was sent, the ledger books an entry once and never more   *)
(* than the venue executed, and an exit is booked only against a booked    *)
(* entry.  Crashes and restarts are not visible here: the promise holds    *)
(* across them.  TradeLifecycle is shown to implement it.                  *)
(***************************************************************************)
EXTENDS Naturals

CONSTANTS Intents,      \* order identities (clientOrderId)
          Proposals,    \* governed plans (proposal_id)
          ProposalOf,   \* the plan each intent executes
          Quantity      \* sized quantity of every plan, in lots

VARIABLES recorded,     \* proposals with a durable plan row
          sends,        \* entry requests that left, per intent
          executed,     \* lots the venue executed for the entry
          booked,       \* lots of the entry FILL record in the ledger
          exited        \* lots of the exit FILL record in the ledger

vars == <<recorded, sends, executed, booked, exited>>

Siblings(i) == {j \in Intents : ProposalOf[j] = ProposalOf[i]}

Init ==
  /\ recorded = {}
  /\ sends = [i \in Intents |-> 0]
  /\ executed = [i \in Intents |-> 0]
  /\ booked = [i \in Intents |-> 0]
  /\ exited = [i \in Intents |-> 0]

Record(p) ==
  /\ p \notin recorded
  /\ recorded' = recorded \cup {p}
  /\ UNCHANGED <<sends, executed, booked, exited>>

Send(i) ==
  /\ ProposalOf[i] \in recorded
  /\ \A j \in Siblings(i) : sends[j] = 0
  /\ sends' = [sends EXCEPT ![i] = 1]
  /\ UNCHANGED <<recorded, executed, booked, exited>>

Execute(i, n) ==
  /\ sends[i] > 0
  /\ executed[i] + n <= Quantity
  /\ executed' = [executed EXCEPT ![i] = @ + n]
  /\ UNCHANGED <<recorded, sends, booked, exited>>

Book(i, n) ==
  /\ booked[i] = 0
  /\ n <= executed[i]
  /\ booked' = [booked EXCEPT ![i] = n]
  /\ UNCHANGED <<recorded, sends, executed, exited>>

BookExit(i, n) ==
  /\ booked[i] > 0
  /\ exited[i] = 0
  /\ exited' = [exited EXCEPT ![i] = n]
  /\ UNCHANGED <<recorded, sends, executed, booked>>

Next ==
  \/ \E p \in Proposals : Record(p)
  \/ \E i \in Intents :
       \/ Send(i)
       \/ \E n \in 1..Quantity : Execute(i, n) \/ Book(i, n) \/ BookExit(i, n)

Spec == Init /\ [][Next]_vars
=============================================================================
