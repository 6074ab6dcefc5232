------------------------------ MODULE AppendLog ------------------------------
(***************************************************************************)
(* What LedgerWriter promises its callers: records become durable in one   *)
(* order that never changes, none of them twice; an append is answered     *)
(* once; one that returns is in the log, one that is refused never will    *)
(* be.  Of one that raised nothing is promised: it may be in the log, and  *)
(* it may still get there, ahead of a record written later.                *)
(***************************************************************************)
EXTENDS Sequences, Naturals

CONSTANT Records

VARIABLES log,        \* the durable records, oldest first
          returned,   \* appends that returned to their caller
          refused,    \* appends that raised with nothing written
          raised      \* appends that raised with something written

answers == <<returned, refused, raised>>
vars == <<log, returned, refused, raised>>

Logged == {log[k] : k \in DOMAIN log}
Answered == returned \cup refused \cup raised

Init == log = <<>> /\ returned = {} /\ refused = {} /\ raised = {}

\* The log grows: by one record, and by any that raised earlier and had been
\* left unfinished before it.
Persist ==
  LET new == DOMAIN log' \ DOMAIN log IN
  /\ log' \in Seq(Records) /\ new # {}
  /\ \A k \in DOMAIN log : k \in DOMAIN log' /\ log'[k] = log[k]
  /\ \A k \in new : log'[k] \notin Logged \cup refused
  /\ \A j, k \in new : log'[j] = log'[k] => j = k
  /\ \A k \in new : k = Len(log') \/ log'[k] \in raised
  /\ UNCHANGED answers

Return(r) ==
  /\ r \in Logged \ Answered
  /\ returned' = returned \cup {r}
  /\ UNCHANGED <<log, refused, raised>>

Refuse(r) ==
  /\ r \notin Logged \cup Answered
  /\ refused' = refused \cup {r}
  /\ UNCHANGED <<log, returned, raised>>

Raise(r) ==
  /\ r \notin Answered
  /\ raised' = raised \cup {r}
  /\ UNCHANGED <<log, returned, refused>>

Next == Persist \/ \E r \in Records : Return(r) \/ Refuse(r) \/ Raise(r)

Spec == Init /\ [][Next]_vars
=============================================================================
