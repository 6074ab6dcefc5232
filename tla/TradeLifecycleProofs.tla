------------------------- MODULE TradeLifecycleProofs -------------------------
(***************************************************************************)
(* Proofs about TradeLifecycle, for every set of intents, plans and         *)
(* symbols, every quantity and tolerance, any number of polls and restarts. *)
(***************************************************************************)
EXTENDS TradeLifecycle, TLAPS

-----------------------------------------------------------------------------
(* Facts about the frozen transition matrix.                               *)

\* Every edge of the matrix joins two states, and none leads back to READY:
\* an intent that has left READY never validates again.
LEMMA EdgesJoinStates ==
  ASSUME NEW src, NEW trigger, NEW dst,
         <<src, trigger, dst>> \in LegalTransitions
  PROVE  src \in FsmStates /\ dst \in FsmStates /\ dst # "READY"
BY DEF LegalTransitions, Edges, FsmStates, OpenStates

\* RECONCILED is terminal (TERMINAL_STATES).
THEOREM ReconciledIsTerminal ==
  ASSUME NEW trigger
  PROVE  ~IsLegal("RECONCILED", trigger)
BY DEF IsLegal, LegalTransitions, Edges, FsmStates, OpenStates

\* CLOSED and RECONCILED are entered only by closing a position or by a
\* reconciliation, MANAGED only from PROTECTED or by a reconciliation.
LEMMA WhoEnters ==
  ASSUME NEW src, NEW trigger, NEW dst,
         <<src, trigger, dst>> \in LegalTransitions
  PROVE  /\ dst = "CLOSED" =>
              trigger \in {"POSITION_CLOSED", "RECONCILE_RESOLVED_CLOSED"}
         /\ dst = "RECONCILED" => trigger = "RECONCILE_MATCH"
         /\ dst = "MANAGED" =>
              trigger \in {"MANAGEMENT_ACTIVE", "RECONCILE_RESOLVED_MANAGED"}
BY DEF LegalTransitions, Edges, OpenStates

\* Destination is the edge that IsLegal promises.
LEMMA DestinationIsEdge ==
  ASSUME NEW src, NEW trigger, IsLegal(src, trigger)
  PROVE  <<src, trigger, Destination(src, trigger)>> \in LegalTransitions
BY DEF IsLegal, Destination

-----------------------------------------------------------------------------
\* Type correctness

\* advance moves the machine along one edge of the matrix, writes the same
\* state into the ledger, and touches no other intent.
LEMMA AdvanceFollowsEdge ==
  ASSUME TypeOK, NEW i \in Intents, NEW trigger, Advance(i, trigger)
  PROVE  /\ row' \in [Intents -> FsmStates] /\ fsm' \in [Intents -> FsmStates]
         /\ <<fsm[i], trigger, row'[i]>> \in LegalTransitions
         /\ row'[i] = fsm'[i] /\ row'[i] # "READY"
         /\ \A j \in Intents \ {i} : row'[j] = row[j] /\ fsm'[j] = fsm[j]
<1>1. <<fsm[i], trigger, Destination(fsm[i], trigger)>> \in LegalTransitions
  BY DestinationIsEdge DEF Advance
<1>2. /\ Destination(fsm[i], trigger) \in FsmStates
      /\ Destination(fsm[i], trigger) # "READY"
  BY <1>1, EdgesJoinStates
<1>3. row'[i] = Destination(fsm[i], trigger) /\ fsm'[i] = row'[i]
  BY DEF Advance, TypeOK
<1> QED
  BY <1>1, <1>2, <1>3 DEF Advance, TypeOK

\* A process that starts anew starts in a typed state.
LEMMA ForgettingIsTyped ==
  ASSUME ForgetProcess
  PROVE  /\ pc' \in [Intents -> Locations] /\ fsm' \in [Intents -> FsmStates]
         /\ polls' \in [Intents -> 0..(FillPollAttempts - 1)]
         /\ seen' \in [Intents -> 0..Quantity]
         /\ legsOk' \in [Intents -> BOOLEAN]
         /\ working' = {} /\ exitAsked' = {} /\ reached' = {}
<1>1. 0 \in 0..(FillPollAttempts - 1) /\ 0 \in 0..Quantity
  BY OrdersAssumption
<1> QED
  BY <1>1 DEF ForgetProcess, Locations, FsmStates

\* Every step keeps every variable in its type.
LEMMA TypeStep == TypeOK /\ [Next]_vars => TypeOK'
<1> SUFFICES ASSUME TypeOK, [Next]_vars PROVE TypeOK'
  OBVIOUS
<1> USE OrdersAssumption DEF durable, venue, process
<1>1. ASSUME NEW i \in Intents,
             Materialize(i)
      PROVE  TypeOK'
  BY <1>1 DEF TypeOK, Materialize, Admissible, Goto, Locations, CellSteps,
     ExitSteps
<1>2. ASSUME NEW i \in Intents,
             RefuseValidation(i)
      PROVE  TypeOK'
  BY <1>2, AdvanceFollowsEdge
  DEF TypeOK, RefuseValidation, Goto, Locations, CellSteps, ExitSteps
<1>3. ASSUME NEW i \in Intents,
             Announce(i)
      PROVE  TypeOK'
  BY <1>3, AdvanceFollowsEdge
  DEF TypeOK, Announce, Goto, Locations, CellSteps, ExitSteps
<1>4. ASSUME NEW i \in Intents,
             RefuseLocally(i)
      PROVE  TypeOK'
  BY <1>4, AdvanceFollowsEdge
  DEF TypeOK, RefuseLocally, Goto, Locations, CellSteps, ExitSteps
<1>5. ASSUME NEW i \in Intents,
             AbortLocally(i)
      PROVE  TypeOK'
  BY <1>5 DEF TypeOK, AbortLocally, Goto, Locations, CellSteps, ExitSteps
<1>6. ASSUME NEW i \in Intents, NEW accepted \in BOOLEAN,
             Transmit(i, accepted)
      PROVE  TypeOK'
  BY <1>6 DEF TypeOK, Transmit, Goto, WorkingStatus, Locations, CellSteps,
     ExitSteps
<1>7. ASSUME NEW i \in Intents, NEW outcome \in Outcomes, NEW complete \in BOOLEAN,
             Answer(i, outcome, complete)
      PROVE  TypeOK'
  BY ZenonT(40), <1>7, AdvanceFollowsEdge
  DEF TypeOK, Answer, Observe, Goto, Locations, CellSteps, ExitSteps
<1>8. ASSUME NEW i \in Intents, NEW outcome \in Outcomes, NEW complete \in BOOLEAN,
             PollApplied(i, outcome, complete)
      PROVE  TypeOK'
  <2>1. row' \in [Intents -> FsmStates] /\ fsm' \in [Intents -> FsmStates]
    BY <1>8, AdvanceFollowsEdge DEF PollApplied
  <2>2. /\ pc' \in [Intents -> Locations]
        /\ polls' \in [Intents -> 0..(FillPollAttempts - 1)]
        /\ seen' \in [Intents -> 0..Quantity]
    <3>1. CASE outcome \in {"ACKNOWLEDGED", "UNKNOWN"}
      BY <1>8, <3>1 DEF TypeOK, PollApplied, PollAgain, LeavePoll, Goto,
         Locations, CellSteps
    <3>2. CASE outcome \in {"FILLED", "PARTIAL"}
      BY <1>8, <3>2 DEF TypeOK, PollApplied, LeavePoll, Observe, Goto,
         Locations, CellSteps
    <3>3. CASE outcome \in {"REJECTED", "CANCELLED"}
      BY <1>8, <3>3 DEF TypeOK, PollApplied, LeavePoll, Goto, Locations
    <3> QED
      BY <3>1, <3>2, <3>3 DEF Outcomes
  <2> QED
    BY <1>8, <2>1, <2>2 DEF TypeOK, PollApplied
<1>9. ASSUME NEW i \in Intents,
             PollAcknowledged(i)
      PROVE  TypeOK'
  BY <1>9 DEF TypeOK, PollAcknowledged, PollAgain, LeavePoll, Goto, Locations,
     CellSteps, ExitSteps
<1>10. ASSUME NEW i \in Intents, NEW outcome \in Outcomes,
             PollRaises(i, outcome)
      PROVE  TypeOK'
  BY <1>10 DEF TypeOK, PollRaises, LeavePoll, Goto, Locations, CellSteps,
     ExitSteps
<1>11. ASSUME NEW i \in Intents,
             Book(i)
      PROVE  TypeOK'
  BY <1>11 DEF TypeOK, Book, Goto, Locations, CellSteps, ExitSteps
<1>12. ASSUME NEW i \in Intents, NEW leg \in {"stop", "target"}, NEW live \in BOOLEAN,
           NEW ok \in BOOLEAN,
             PlaceLeg(i, leg, live, ok)
      PROVE  TypeOK'
  BY <1>12 DEF TypeOK, PlaceLeg, Legs, Goto, Locations, CellSteps, ExitSteps
<1>13. ASSUME NEW i \in Intents,
             ProtectionPlaced(i)
      PROVE  TypeOK'
  BY <1>13, AdvanceFollowsEdge
  DEF TypeOK, ProtectionPlaced, Goto, Locations, CellSteps, ExitSteps
<1>14. ASSUME NEW i \in Intents,
             ProtectionFailed(i)
      PROVE  TypeOK'
  BY <1>14, AdvanceFollowsEdge
  DEF TypeOK, ProtectionFailed, Goto, Locations, CellSteps, ExitSteps
<1>15. ASSUME NEW i \in Intents,
             ProtectionRaises(i)
      PROVE  TypeOK'
  BY <1>15 DEF TypeOK, ProtectionRaises, Goto, Locations, CellSteps, ExitSteps
<1>16. ASSUME NEW i \in Intents,
             Activate(i)
      PROVE  TypeOK'
  BY <1>16, AdvanceFollowsEdge
  DEF TypeOK, Activate, Goto, Locations, CellSteps, ExitSteps
<1>17. ASSUME NEW i \in Intents,
             ExitKindUnknown(i)
      PROVE  TypeOK'
  BY <1>17 DEF TypeOK, ExitKindUnknown, Locations, CellSteps, ExitSteps
<1>18. ASSUME NEW i \in Intents, NEW n \in 0..Quantity, NEW heard \in BOOLEAN,
             ExitSent(i, n, heard)
      PROVE  TypeOK'
  BY <1>18 DEF TypeOK, ExitSent, ExitFillSeen, Legs, Goto, Locations, CellSteps,
     ExitSteps
<1>19. ASSUME NEW i \in Intents,
             ExitBook(i)
      PROVE  TypeOK'
  BY <1>19 DEF TypeOK, ExitBook, Goto, Locations, CellSteps, ExitSteps
<1>20. ASSUME NEW i \in Intents,
             ExitClose(i)
      PROVE  TypeOK'
  BY <1>20, AdvanceFollowsEdge
  DEF TypeOK, ExitClose, Goto, Locations, CellSteps, ExitSteps
<1>21. ASSUME NEW i \in Intents, NEW orderKnown \in BOOLEAN, NEW positionKnown \in BOOLEAN,
             ExitReconcile(i, orderKnown, positionKnown)
      PROVE  TypeOK'
  BY <1>21, AdvanceFollowsEdge
  DEF TypeOK, ExitReconcile, Goto, Locations, CellSteps, ExitSteps
<1>22. ASSUME NEW i \in Intents, NEW n \in 1..Quantity,
             VenueFills(i, n)
      PROVE  TypeOK'
  BY <1>22 DEF TypeOK, VenueFills, WorkingStatus, Locations, CellSteps,
     ExitSteps
<1>23. ASSUME NEW i \in Intents, NEW status \in EndedStatus,
             VenueEnds(i, status)
      PROVE  TypeOK'
  BY <1>23 DEF TypeOK, VenueEnds, EndedStatus, Locations, CellSteps, ExitSteps
<1>24. ASSUME NEW i \in Intents, NEW leg \in Legs,
             LegFires(i, leg)
      PROVE  TypeOK'
  BY <1>24 DEF TypeOK, LegFires, Locations, CellSteps, ExitSteps
<1>25. ASSUME NEW i \in Intents,
             PriceReaches(i)
      PROVE  TypeOK'
  BY <1>25 DEF TypeOK, PriceReaches, Locations, CellSteps, ExitSteps
<1>26. CASE Crash
  BY <1>26, ForgettingIsTyped DEF TypeOK, Crash
<1>27. ASSUME NEW answer \in BootAnswers, Boot(answer)
      PROVE  TypeOK'
  BY <1>27, ForgettingIsTyped DEF TypeOK, Boot
<1>28. CASE UNCHANGED vars
  BY <1>28 DEF TypeOK, vars
<1>29. ASSUME NEW i \in Intents,
             StopPriceMissing(i)
      PROVE  TypeOK'
  BY <1>29 DEF TypeOK, StopPriceMissing, Goto, Locations, CellSteps, ExitSteps
<1> QED
  BY <1>1, <1>2, <1>3, <1>4, <1>5, <1>6, <1>7, <1>8, <1>9, <1>10, <1>11, <1>12,
     <1>13, <1>14, <1>15, <1>16, <1>17, <1>18, <1>19, <1>20, <1>21, <1>22,
     <1>23, <1>24, <1>25, <1>26, <1>27, <1>28, <1>29
  DEF Next, CellStep, ExitStep, VenueStep

\* Every reachable state is well typed, over any number of crashes and restarts.
THEOREM TypeCorrect == Spec => []TypeOK
<1>1. Init => TypeOK
  BY OrdersAssumption DEF Init, TypeOK, Locations, FsmStates
<1> QED
  BY <1>1, TypeStep, PTL DEF Spec

-----------------------------------------------------------------------------
\* The inductive invariant, part by part

\* A cell coroutine is only at work on a plan it has materialized.
WorkHasPlanRow ==
  \A i \in Intents : pc[i] \in CellSteps => ProposalOf[i] \in planRow

\* A plan has one coroutine: no two closes of a cell work on it together.
OneCoroutine ==
  \A i, j \in Intents :
    /\ ProposalOf[i] = ProposalOf[j]
    /\ pc[i] \in CellSteps /\ pc[j] \in CellSteps
    => i = j

\* Until the request leaves, nothing was ever sent for the plan.
NothingSentYet ==
  \A i, j \in Intents :
    pc[i] \in {"planned", "submitting"} /\ ProposalOf[i] = ProposalOf[j]
      => sends[j] = 0

\* Whatever was sent has its plan row and its SUBMIT_ORDER record.
SentIsRecorded ==
  \A i \in Intents :
    /\ sends[i] > 0 => ProposalOf[i] \in planRow /\ row[i] # "READY"
    /\ pc[i] \in CellSteps \ {"planned"} => row[i] # "READY"

EntryInv ==
  TypeOK /\ WorkHasPlanRow /\ OneCoroutine /\ NothingSentYet
    /\ SentIsRecorded /\ OneEntryPerPlan

\* A step that sends nothing and records no plan: coroutines go on, return or
\* vanish, and no record goes back to READY.
Continues ==
  /\ UNCHANGED <<planRow, sends>>
  /\ \A j \in Intents : row'[j] = row[j] \/ row'[j] # "READY"
  /\ \A j \in Intents :
       \/ pc'[j] = pc[j]
       \/ pc'[j] \notin CellSteps
       \/ /\ pc'[j] \notin {"planned", "submitting"}
          /\ pc[j] \in CellSteps \ {"planned"}

\* Only three steps matter to the entry: every other one continues.
LEMMA OtherStepsContinue ==
  ASSUME TypeOK, [Next]_vars,
         \A i \in Intents :
           /\ ~Materialize(i) /\ ~Announce(i)
           /\ \A accepted \in BOOLEAN : ~Transmit(i, accepted)
  PROVE  Continues
<1> USE DEF durable, venue, process
<1>1. ASSUME NEW i \in Intents,
             RefuseValidation(i)
      PROVE  Continues
  BY <1>1, AdvanceFollowsEdge
  DEF Continues, TypeOK, RefuseValidation, Goto, CellSteps
<1>2. ASSUME NEW i \in Intents,
             RefuseLocally(i)
      PROVE  Continues
  BY <1>2, AdvanceFollowsEdge
  DEF Continues, TypeOK, RefuseLocally, Goto, CellSteps
<1>3. ASSUME NEW i \in Intents,
             AbortLocally(i)
      PROVE  Continues
  BY <1>3
  DEF Continues, TypeOK, AbortLocally, Goto, CellSteps
<1>4. ASSUME NEW i \in Intents, NEW outcome \in Outcomes, NEW complete \in BOOLEAN,
             Answer(i, outcome, complete)
      PROVE  Continues
  BY <1>4, AdvanceFollowsEdge
  DEF Continues, TypeOK, Answer, Observe, Goto, CellSteps
<1>5. ASSUME NEW i \in Intents, NEW outcome \in Outcomes, NEW complete \in BOOLEAN,
             PollApplied(i, outcome, complete)
      PROVE  Continues
  BY ZenonT(40), <1>5, AdvanceFollowsEdge
  DEF Continues, TypeOK, PollApplied, Observe, PollAgain, LeavePoll, Goto,
     CellSteps
<1>6. ASSUME NEW i \in Intents,
             PollAcknowledged(i)
      PROVE  Continues
  BY <1>6
  DEF Continues, TypeOK, PollAcknowledged, PollAgain, LeavePoll, Goto, CellSteps
<1>7. ASSUME NEW i \in Intents, NEW outcome \in Outcomes,
             PollRaises(i, outcome)
      PROVE  Continues
  BY <1>7
  DEF Continues, TypeOK, PollRaises, LeavePoll, Goto, CellSteps
<1>8. ASSUME NEW i \in Intents,
             Book(i)
      PROVE  Continues
  BY <1>8
  DEF Continues, TypeOK, Book, Goto, CellSteps
<1>9. ASSUME NEW i \in Intents, NEW leg \in {"stop", "target"}, NEW live \in BOOLEAN, NEW ok \in BOOLEAN,
             PlaceLeg(i, leg, live, ok)
      PROVE  Continues
  BY <1>9
  DEF Continues, TypeOK, PlaceLeg, Goto, CellSteps
<1>10. ASSUME NEW i \in Intents,
             ProtectionPlaced(i)
      PROVE  Continues
  BY <1>10, AdvanceFollowsEdge
  DEF Continues, TypeOK, ProtectionPlaced, Goto, CellSteps
<1>11. ASSUME NEW i \in Intents,
             ProtectionFailed(i)
      PROVE  Continues
  BY <1>11, AdvanceFollowsEdge
  DEF Continues, TypeOK, ProtectionFailed, Goto, CellSteps
<1>12. ASSUME NEW i \in Intents,
             ProtectionRaises(i)
      PROVE  Continues
  BY <1>12
  DEF Continues, TypeOK, ProtectionRaises, Goto, CellSteps
<1>13. ASSUME NEW i \in Intents,
             Activate(i)
      PROVE  Continues
  BY <1>13, AdvanceFollowsEdge
  DEF Continues, TypeOK, Activate, Goto, CellSteps
<1>14. ASSUME NEW i \in Intents,
             ExitKindUnknown(i)
      PROVE  Continues
  BY <1>14
  DEF Continues, TypeOK, ExitKindUnknown, Goto, CellSteps
<1>15. ASSUME NEW i \in Intents, NEW n \in 0..Quantity, NEW heard \in BOOLEAN,
             ExitSent(i, n, heard)
      PROVE  Continues
  BY <1>15
  DEF Continues, TypeOK, ExitSent, Goto, CellSteps
<1>16. ASSUME NEW i \in Intents,
             ExitBook(i)
      PROVE  Continues
  BY <1>16
  DEF Continues, TypeOK, ExitBook, Goto, CellSteps
<1>17. ASSUME NEW i \in Intents,
             ExitClose(i)
      PROVE  Continues
  BY <1>17, AdvanceFollowsEdge
  DEF Continues, TypeOK, ExitClose, Goto, CellSteps
<1>18. ASSUME NEW i \in Intents, NEW orderKnown \in BOOLEAN, NEW positionKnown \in BOOLEAN,
             ExitReconcile(i, orderKnown, positionKnown)
      PROVE  Continues
  BY <1>18, AdvanceFollowsEdge
  DEF Continues, TypeOK, ExitReconcile, Goto, CellSteps
<1>19. ASSUME NEW i \in Intents, NEW n \in 1..Quantity,
             VenueFills(i, n)
      PROVE  Continues
  BY <1>19
  DEF Continues, TypeOK, VenueFills, Goto, CellSteps
<1>20. ASSUME NEW i \in Intents, NEW status \in EndedStatus,
             VenueEnds(i, status)
      PROVE  Continues
  BY <1>20
  DEF Continues, TypeOK, VenueEnds, Goto, CellSteps
<1>21. ASSUME NEW i \in Intents, NEW leg \in Legs,
             LegFires(i, leg)
      PROVE  Continues
  BY <1>21
  DEF Continues, TypeOK, LegFires, Goto, CellSteps
<1>22. ASSUME NEW i \in Intents,
             PriceReaches(i)
      PROVE  Continues
  BY <1>22
  DEF Continues, TypeOK, PriceReaches, Goto, CellSteps
<1>23. CASE Crash
  BY <1>23 DEF Continues, Crash, ForgetProcess, CellSteps
<1>24. ASSUME NEW answer \in BootAnswers, Boot(answer)
      PROVE  Continues
  BY <1>24 DEF Continues, Boot, ForgetProcess, CellSteps
<1>25. CASE UNCHANGED vars
  BY <1>25 DEF Continues, vars
<1>26. ASSUME NEW i \in Intents,
             StopPriceMissing(i)
      PROVE  Continues
  BY <1>26
  DEF Continues, TypeOK, StopPriceMissing, Goto, CellSteps
<1> QED
  BY <1>1, <1>2, <1>3, <1>4, <1>5, <1>6, <1>7, <1>8, <1>9, <1>10, <1>11, <1>12,
     <1>13, <1>14, <1>15, <1>16, <1>17, <1>18, <1>19, <1>20, <1>21, <1>22,
     <1>23, <1>24, <1>25, <1>26
  DEF Next, CellStep, ExitStep, VenueStep

\* A coroutine past its submission cannot disturb what was sent.
LEMMA ContinuingKeepsEntry ==
  ASSUME EntryInv, TypeOK', Continues
  PROVE  EntryInv'
<1>1. WorkHasPlanRow'
  BY DEF EntryInv, WorkHasPlanRow, Continues
<1>2. OneCoroutine'
  BY DEF EntryInv, OneCoroutine, Continues
<1>3. NothingSentYet'
  BY DEF EntryInv, NothingSentYet, Continues, CellSteps
<1>4. SentIsRecorded'
  BY DEF EntryInv, SentIsRecorded, Continues, CellSteps
<1>5. OneEntryPerPlan'
  BY DEF EntryInv, OneEntryPerPlan, Continues
<1> QED
  BY <1>1, <1>2, <1>3, <1>4, <1>5 DEF EntryInv

\* Admission: the materialized_ids gate lets a plan in once, and whatever was
\* sent for it had its row, so nothing was.
LEMMA MaterializeKeepsEntry ==
  ASSUME EntryInv, TypeOK', NEW i \in Intents, Materialize(i)
  PROVE  EntryInv'
<1> USE OrdersAssumption DEF Materialize, Admissible, Goto, venue
<1>1. WorkHasPlanRow'
  BY DEF EntryInv, TypeOK, WorkHasPlanRow
<1>2. OneCoroutine'
  BY DEF EntryInv, TypeOK, OneCoroutine, CellIdle
<1>3. NothingSentYet'
  <2>1. \A j \in Intents : ProposalOf[j] = ProposalOf[i] => sends[j] = 0
    BY DEF EntryInv, TypeOK, SentIsRecorded
  <2> QED
    BY <2>1 DEF EntryInv, TypeOK, NothingSentYet
<1>4. SentIsRecorded'
  BY DEF EntryInv, TypeOK, SentIsRecorded, CellSteps
<1>5. OneEntryPerPlan'
  BY DEF EntryInv, OneEntryPerPlan
<1> QED
  BY <1>1, <1>2, <1>3, <1>4, <1>5 DEF EntryInv

\* Announce records the submission while nothing has been sent yet.
LEMMA AnnounceKeepsEntry ==
  ASSUME EntryInv, TypeOK', NEW i \in Intents, Announce(i)
  PROVE  EntryInv'
<1> USE OrdersAssumption DEF Goto, venue
<1>1. /\ row'[i] # "READY" /\ \A j \in Intents \ {i} : row'[j] = row[j]
      /\ pc[i] = "planned" /\ pc' = [pc EXCEPT ![i] = "submitting"]
      /\ UNCHANGED <<planRow, sends>>
  BY AdvanceFollowsEdge DEF EntryInv, Announce
<1>2. WorkHasPlanRow' /\ OneCoroutine'
  BY <1>1 DEF EntryInv, TypeOK, WorkHasPlanRow, OneCoroutine, CellSteps
<1>3. NothingSentYet'
  BY <1>1 DEF EntryInv, TypeOK, NothingSentYet
<1>4. SentIsRecorded'
  BY <1>1 DEF EntryInv, TypeOK, SentIsRecorded
<1>5. OneEntryPerPlan'
  BY <1>1 DEF EntryInv, OneEntryPerPlan
<1> QED
  BY <1>2, <1>3, <1>4, <1>5 DEF EntryInv

\* The request leaves: it is the first of its plan, and no sibling coroutine
\* is left that could send another.
LEMMA TransmitKeepsEntry ==
  ASSUME EntryInv, TypeOK', NEW i \in Intents, NEW accepted \in BOOLEAN,
         Transmit(i, accepted)
  PROVE  EntryInv'
<1> USE OrdersAssumption DEF Goto, durable
<1>1. /\ pc[i] = "submitting" /\ pc' = [pc EXCEPT ![i] = "sent"]
      /\ sends' = [sends EXCEPT ![i] = @ + 1]
      /\ UNCHANGED <<planRow, row>>
  BY DEF Transmit
<1>2. \A j \in Intents : ProposalOf[j] = ProposalOf[i] => sends[j] = 0
  BY <1>1 DEF EntryInv, NothingSentYet
<1>3. WorkHasPlanRow' /\ OneCoroutine'
  BY <1>1 DEF EntryInv, TypeOK, WorkHasPlanRow, OneCoroutine, CellSteps
<1>4. NothingSentYet'
  <2> SUFFICES ASSUME NEW k \in Intents, NEW j \in Intents,
                      pc'[k] \in {"planned", "submitting"},
                      ProposalOf[k] = ProposalOf[j]
               PROVE  sends'[j] = 0
    BY DEF NothingSentYet
  <2>1. k # i /\ pc[k] \in {"planned", "submitting"}
    BY <1>1 DEF EntryInv, TypeOK
  <2>2. j # i
    BY <1>1, <2>1 DEF EntryInv, OneCoroutine, CellSteps
  <2> QED
    BY <1>1, <2>1, <2>2 DEF EntryInv, TypeOK, NothingSentYet
<1>5. SentIsRecorded'
  BY <1>1 DEF EntryInv, TypeOK, SentIsRecorded, WorkHasPlanRow, CellSteps
<1>6. OneEntryPerPlan'
  BY <1>1, <1>2 DEF EntryInv, TypeOK, OneEntryPerPlan
<1> QED
  BY <1>3, <1>4, <1>5, <1>6 DEF EntryInv

\* Every step keeps the inductive invariant about entries.
LEMMA EntryStep == EntryInv /\ [Next]_vars => EntryInv'
<1> SUFFICES ASSUME EntryInv, [Next]_vars PROVE EntryInv'
  OBVIOUS
<1>1. TypeOK /\ TypeOK'
  BY TypeStep DEF EntryInv
<1>2. CASE \E i \in Intents : Materialize(i)
  BY <1>1, <1>2, MaterializeKeepsEntry
<1>3. CASE \E i \in Intents : Announce(i)
  BY <1>1, <1>3, AnnounceKeepsEntry
<1>4. CASE \E i \in Intents, accepted \in BOOLEAN : Transmit(i, accepted)
  BY <1>1, <1>4, TransmitKeepsEntry
<1>5. CASE \A i \in Intents :
             /\ ~Materialize(i) /\ ~Announce(i)
             /\ \A accepted \in BOOLEAN : ~Transmit(i, accepted)
  <2>1. Continues
    BY <1>1, <1>5, OtherStepsContinue
  <2> QED
    BY <1>1, <2>1, ContinuingKeepsEntry
<1> QED
  BY <1>2, <1>3, <1>4, <1>5

\* No plan row, no coroutine and no request at the start.
LEMMA EntryInitially == Init => EntryInv
<1> SUFFICES ASSUME Init PROVE EntryInv
  OBVIOUS
<1>1. TypeOK
  BY OrdersAssumption DEF Init, TypeOK, Locations, FsmStates
<1> QED
  BY <1>1 DEF EntryInv, Init, WorkHasPlanRow, OneCoroutine, NothingSentYet,
     SentIsRecorded, OneEntryPerPlan, CellSteps

\* "never send a plan twice": at most one entry request ever leaves for a plan,
\* over any interleaving of its closes, any crashes and any restarts.
THEOREM PlanSentOnce == Spec => []OneEntryPerPlan
<1>1. EntryInv => OneEntryPerPlan
  BY DEF EntryInv
<1> QED
  BY <1>1, EntryInitially, EntryStep, PTL DEF Spec

\* Whatever reaches the venue can be traced to a plan row and an FSM record
\* that were durable before the request left.
THEOREM EntryTraceable == Spec => []EntryIsTraceable
<1>1. EntryInv => EntryIsTraceable
  BY DEF EntryInv, SentIsRecorded, EntryIsTraceable
<1> QED
  BY <1>1, EntryInitially, EntryStep, PTL DEF Spec

-----------------------------------------------------------------------------
(* What the ledger books against what the venue executed: the invariant    *)
(* behind LegsFollowBookedFill and CloseIsBooked, and the refinement of    *)
(* OrderContract.  It rests on EntryInv: a plan is worked on only once.    *)

\* Steps before the entry fill is booked, and steps after.
BeforeBooking == {"planned", "submitting", "sent", "poll", "book"}
AfterBooking == {"stop", "target", "conclude", "activate"}

\* The venue executes only what was sent, and a status that reports a fill has
\* lots behind it.
VenueInv ==
  \A i \in Intents :
    /\ order[i] = "NONE" => filled[i] = 0
    /\ order[i] # "NONE" => sends[i] > 0
    /\ order[i] \in {"PARTIALLY_FILLED", "FILLED"} => filled[i] > 0

\* The entry is booked once, with lots the venue had executed when it answered;
\* protective legs come after it.
BookingInv ==
  \A i \in Intents :
    /\ bought[i] <= filled[i]
    /\ bought[i] > 0 => sends[i] > 0
    /\ pc[i] \in BeforeBooking => bought[i] = 0
    /\ pc[i] = "book" => seen[i] > 0 /\ seen[i] <= filled[i]
    /\ pc[i] \in AfterBooking => bought[i] > 0 /\ sold[i] = 0
    /\ legs[i] # {} => bought[i] > 0

\* A managed machine has a booked entry and no booked exit until its own exit
\* is being booked.
ExitInv ==
  \A i \in Intents :
    /\ i \in working => /\ bought[i] > 0
                        /\ pc[i] \in {"done"} \cup ExitSteps
                        /\ pc[i] \in {"done", "exitbook"} => sold[i] = 0
    /\ pc[i] \in ExitSteps => i \in working
    /\ pc[i] = "exitbook" => seen[i] > 0 /\ "exit" \in fired[i]
    /\ pc[i] \in {"exitclose", "exitreconcile"} => sold[i] > 0
    /\ sold[i] > 0 => bought[i] > 0 /\ "exit" \in fired[i]
    /\ row[i] \in {"CLOSED", "RECONCILED"} => bought[i] > 0 /\ sold[i] > 0

TradeInv == EntryInv /\ VenueInv /\ BookingInv /\ ExitInv

\* Only closing and reconciling reach CLOSED and RECONCILED.
LEMMA OrdinaryAdvance ==
  ASSUME TypeOK, NEW i \in Intents, NEW trigger, Advance(i, trigger),
         trigger \notin {"POSITION_CLOSED", "RECONCILE_MATCH",
                         "RECONCILE_RESOLVED_CLOSED"}
  PROVE  row'[i] \notin {"CLOSED", "RECONCILED"}
BY AdvanceFollowsEdge, WhoEnters

\* The triggers of apply_adapter_result are ordinary.
LEMMA AnswerTriggers ==
  ASSUME NEW outcome \in Outcomes
  PROVE  TriggerFor(outcome) \notin {"POSITION_CLOSED", "RECONCILE_MATCH",
                                     "RECONCILE_RESOLVED_CLOSED"}
BY DEF Outcomes, TriggerFor

\* An answer that reports a fill is about an order with executed lots.
LEMMA ReportedFillIsReal ==
  ASSUME TypeOK, VenueInv, NEW i \in Intents,
         NEW outcome \in {"FILLED", "PARTIAL"}, outcome \in Answers(i)
  PROVE  filled[i] > 0
<1>1. order[i] # "NONE" /\ outcome = OutcomeOf(order[i])
  BY DEF Answers
<1>2. order[i] \in {"NONE", "FILLED"} \cup WorkingStatus \cup EndedStatus
  BY DEF TypeOK
<1>3. order[i] \in {"FILLED", "PARTIALLY_FILLED"}
  BY <1>1, <1>2 DEF OutcomeOf, WorkingStatus, EndedStatus
<1> QED
  BY <1>3 DEF VenueInv

\* Every step keeps the books consistent with the venue and with the control
\* state of the coroutines.
LEMMA BookingStep ==
  ASSUME TypeOK, TypeOK', EntryInv, VenueInv, BookingInv, ExitInv, [Next]_vars
  PROVE  VenueInv' /\ BookingInv' /\ ExitInv'
<1> DEFINE Goal == VenueInv' /\ BookingInv' /\ ExitInv'
<1> USE OrdersAssumption DEF durable, venue, process
<1>1. ASSUME NEW i \in Intents,
             Materialize(i)
      PROVE  Goal
  <2>1. bought[i] = 0
    BY <1>1 DEF Materialize, Admissible, EntryInv, SentIsRecorded, BookingInv,
       TypeOK
  <2> QED
    BY <1>1, <2>1
    DEF Materialize, Admissible, TypeOK, VenueInv, BookingInv, ExitInv,
       BeforeBooking, AfterBooking, CellSteps, ExitSteps, Goto
<1>2. ASSUME NEW i \in Intents,
             RefuseValidation(i)
      PROVE  Goal
  <2>1. /\ row'[i] \notin {"CLOSED", "RECONCILED"}
        /\ \A j \in Intents \ {i} : row'[j] = row[j]
    BY <1>2, AdvanceFollowsEdge, OrdinaryAdvance DEF RefuseValidation
  <2> QED
    BY <1>2, <2>1
    DEF RefuseValidation, Admissible, TypeOK, VenueInv, BookingInv, ExitInv,
       BeforeBooking, AfterBooking, CellSteps, ExitSteps, Goto
<1>3. ASSUME NEW i \in Intents,
             Announce(i)
      PROVE  Goal
  <2>1. /\ row'[i] \notin {"CLOSED", "RECONCILED"}
        /\ \A j \in Intents \ {i} : row'[j] = row[j]
    BY <1>3, AdvanceFollowsEdge, OrdinaryAdvance DEF Announce
  <2> QED
    BY <1>3, <2>1
    DEF Announce, TypeOK, VenueInv, BookingInv, ExitInv, BeforeBooking,
       AfterBooking, CellSteps, ExitSteps, Goto
<1>4. ASSUME NEW i \in Intents,
             RefuseLocally(i)
      PROVE  Goal
  <2>1. /\ row'[i] \notin {"CLOSED", "RECONCILED"}
        /\ \A j \in Intents \ {i} : row'[j] = row[j]
    BY <1>4, AdvanceFollowsEdge, OrdinaryAdvance DEF RefuseLocally
  <2> QED
    BY <1>4, <2>1
    DEF RefuseLocally, TypeOK, VenueInv, BookingInv, ExitInv, BeforeBooking,
       AfterBooking, CellSteps, ExitSteps, Goto
<1>5. ASSUME NEW i \in Intents,
             AbortLocally(i)
      PROVE  Goal
  BY <1>5
  DEF AbortLocally, TypeOK, VenueInv, BookingInv, ExitInv, BeforeBooking,
     AfterBooking, CellSteps, ExitSteps, Goto
<1>6. ASSUME NEW i \in Intents, NEW accepted \in BOOLEAN,
             Transmit(i, accepted)
      PROVE  Goal
  BY <1>6
  DEF Transmit, WorkingStatus, TypeOK, VenueInv, BookingInv, ExitInv,
     BeforeBooking, AfterBooking, CellSteps, ExitSteps, Goto
<1>7. ASSUME NEW i \in Intents, NEW outcome \in Outcomes, NEW complete \in BOOLEAN,
             Answer(i, outcome, complete)
      PROVE  Goal
  <2>1. /\ row'[i] \notin {"CLOSED", "RECONCILED"}
        /\ \A j \in Intents \ {i} : row'[j] = row[j]
    BY <1>7, AdvanceFollowsEdge, OrdinaryAdvance, AnswerTriggers DEF Answer
  <2>2. outcome \in {"FILLED", "PARTIAL"} => filled[i] > 0
    BY <1>7, ReportedFillIsReal DEF Answer
  <2> QED
    BY <1>7, <2>1, <2>2
    DEF Answer, Observe, Answers, TypeOK, VenueInv, BookingInv, ExitInv,
       BeforeBooking, AfterBooking, CellSteps, ExitSteps, Goto
<1>8. ASSUME NEW i \in Intents, NEW outcome \in Outcomes, NEW complete \in BOOLEAN,
             PollApplied(i, outcome, complete)
      PROVE  Goal
  <2>1. /\ row'[i] \notin {"CLOSED", "RECONCILED"}
        /\ \A j \in Intents \ {i} : row'[j] = row[j]
    BY <1>8, AdvanceFollowsEdge, OrdinaryAdvance, AnswerTriggers DEF PollApplied
  <2>2. outcome \in {"FILLED", "PARTIAL"} => filled[i] > 0
    BY <1>8, ReportedFillIsReal DEF PollApplied
  <2> QED
    BY <1>8, <2>1, <2>2
    DEF PollApplied, Observe, PollAgain, LeavePoll, TypeOK, VenueInv,
       BookingInv, ExitInv, BeforeBooking, AfterBooking, CellSteps, ExitSteps,
       Goto
<1>9. ASSUME NEW i \in Intents,
             PollAcknowledged(i)
      PROVE  Goal
  BY <1>9
  DEF PollAcknowledged, PollAgain, LeavePoll, TypeOK, VenueInv, BookingInv,
     ExitInv, BeforeBooking, AfterBooking, CellSteps, ExitSteps, Goto
<1>10. ASSUME NEW i \in Intents, NEW outcome \in Outcomes,
             PollRaises(i, outcome)
      PROVE  Goal
  BY <1>10
  DEF PollRaises, LeavePoll, TypeOK, VenueInv, BookingInv, ExitInv,
     BeforeBooking, AfterBooking, CellSteps, ExitSteps, Goto
<1>11. ASSUME NEW i \in Intents,
             Book(i)
      PROVE  Goal
  BY <1>11
  DEF Book, TypeOK, VenueInv, BookingInv, ExitInv, BeforeBooking, AfterBooking,
     CellSteps, ExitSteps, Goto
<1>12. ASSUME NEW i \in Intents, NEW leg \in {"stop", "target"}, NEW live \in BOOLEAN, NEW ok \in BOOLEAN,
             PlaceLeg(i, leg, live, ok)
      PROVE  Goal
  BY <1>12
  DEF PlaceLeg, TypeOK, VenueInv, BookingInv, ExitInv, BeforeBooking,
     AfterBooking, CellSteps, ExitSteps, Goto
<1>13. ASSUME NEW i \in Intents,
             ProtectionPlaced(i)
      PROVE  Goal
  <2>1. /\ row'[i] \notin {"CLOSED", "RECONCILED"}
        /\ \A j \in Intents \ {i} : row'[j] = row[j]
    BY <1>13, AdvanceFollowsEdge, OrdinaryAdvance DEF ProtectionPlaced
  <2> QED
    BY <1>13, <2>1
    DEF ProtectionPlaced, TypeOK, VenueInv, BookingInv, ExitInv, BeforeBooking,
       AfterBooking, CellSteps, ExitSteps, Goto
<1>14. ASSUME NEW i \in Intents,
             ProtectionFailed(i)
      PROVE  Goal
  <2>1. /\ row'[i] \notin {"CLOSED", "RECONCILED"}
        /\ \A j \in Intents \ {i} : row'[j] = row[j]
    BY <1>14, AdvanceFollowsEdge, OrdinaryAdvance DEF ProtectionFailed
  <2> QED
    BY <1>14, <2>1
    DEF ProtectionFailed, TypeOK, VenueInv, BookingInv, ExitInv, BeforeBooking,
       AfterBooking, CellSteps, ExitSteps, Goto
<1>15. ASSUME NEW i \in Intents,
             ProtectionRaises(i)
      PROVE  Goal
  BY <1>15
  DEF ProtectionRaises, TypeOK, VenueInv, BookingInv, ExitInv, BeforeBooking,
     AfterBooking, CellSteps, ExitSteps, Goto
<1>16. ASSUME NEW i \in Intents,
             Activate(i)
      PROVE  Goal
  <2>1. /\ row'[i] \notin {"CLOSED", "RECONCILED"}
        /\ \A j \in Intents \ {i} : row'[j] = row[j]
    BY <1>16, AdvanceFollowsEdge, OrdinaryAdvance DEF Activate
  <2> QED
    BY <1>16, <2>1
    DEF Activate, TypeOK, VenueInv, BookingInv, ExitInv, BeforeBooking,
       AfterBooking, CellSteps, ExitSteps, Goto
<1>17. ASSUME NEW i \in Intents,
             ExitKindUnknown(i)
      PROVE  Goal
  BY <1>17
  DEF ExitKindUnknown, TypeOK, VenueInv, BookingInv, ExitInv, BeforeBooking,
     AfterBooking, CellSteps, ExitSteps, Goto
<1>18. ASSUME NEW i \in Intents, NEW n \in 0..Quantity, NEW heard \in BOOLEAN,
             ExitSent(i, n, heard)
      PROVE  Goal
  BY <1>18
  DEF ExitSent, ExitDue, ExitFillSeen, CellsReturned, NoExitInProgress, Legs,
     TypeOK, VenueInv, BookingInv, ExitInv, BeforeBooking, AfterBooking,
     CellSteps, ExitSteps, Goto
<1>19. ASSUME NEW i \in Intents,
             ExitBook(i)
      PROVE  Goal
  BY <1>19
  DEF ExitBook, TypeOK, VenueInv, BookingInv, ExitInv, BeforeBooking,
     AfterBooking, CellSteps, ExitSteps, Goto
<1>20. ASSUME NEW i \in Intents,
             ExitClose(i)
      PROVE  Goal
  <2>1. /\ \A j \in Intents \ {i} : row'[j] = row[j]
    BY <1>20, AdvanceFollowsEdge DEF ExitClose
  <2> QED
    BY <1>20, <2>1
    DEF ExitClose, TypeOK, VenueInv, BookingInv, ExitInv, BeforeBooking,
       AfterBooking, CellSteps, ExitSteps, Goto
<1>21. ASSUME NEW i \in Intents, NEW orderKnown \in BOOLEAN, NEW positionKnown \in BOOLEAN,
             ExitReconcile(i, orderKnown, positionKnown)
      PROVE  Goal
  <2>1. /\ \A j \in Intents \ {i} : row'[j] = row[j]
    BY <1>21, AdvanceFollowsEdge DEF ExitReconcile
  <2> QED
    BY <1>21, <2>1
    DEF ExitReconcile, TypeOK, VenueInv, BookingInv, ExitInv, BeforeBooking,
       AfterBooking, CellSteps, ExitSteps, Goto
<1>22. ASSUME NEW i \in Intents, NEW n \in 1..Quantity,
             VenueFills(i, n)
      PROVE  Goal
  BY <1>22
  DEF VenueFills, WorkingStatus, TypeOK, VenueInv, BookingInv, ExitInv,
     BeforeBooking, AfterBooking, CellSteps, ExitSteps, Goto
<1>23. ASSUME NEW i \in Intents, NEW status \in EndedStatus,
             VenueEnds(i, status)
      PROVE  Goal
  BY <1>23
  DEF VenueEnds, WorkingStatus, EndedStatus, TypeOK, VenueInv, BookingInv,
     ExitInv, BeforeBooking, AfterBooking, CellSteps, ExitSteps, Goto
<1>24. ASSUME NEW i \in Intents, NEW leg \in Legs,
             LegFires(i, leg)
      PROVE  Goal
  BY <1>24
  DEF LegFires, TypeOK, VenueInv, BookingInv, ExitInv, BeforeBooking,
     AfterBooking, CellSteps, ExitSteps, Goto
<1>25. ASSUME NEW i \in Intents,
             PriceReaches(i)
      PROVE  Goal
  BY <1>25
  DEF PriceReaches, TypeOK, VenueInv, BookingInv, ExitInv, BeforeBooking,
     AfterBooking, CellSteps, ExitSteps, Goto
<1>26. CASE Crash
  BY <1>26 DEF Crash, ForgetProcess, TypeOK, VenueInv, BookingInv, ExitInv,
     BeforeBooking, AfterBooking, CellSteps, ExitSteps, Goto
<1>27. ASSUME NEW answer \in BootAnswers, Boot(answer)
      PROVE  Goal
  BY <1>27 DEF Boot, ForgetProcess, TypeOK, VenueInv, BookingInv, ExitInv,
     BeforeBooking, AfterBooking, CellSteps, ExitSteps, Goto
<1>28. CASE UNCHANGED vars
  BY <1>28 DEF vars, TypeOK, VenueInv, BookingInv, ExitInv, BeforeBooking,
     AfterBooking, CellSteps, ExitSteps, Goto
<1>29. ASSUME NEW i \in Intents,
             StopPriceMissing(i)
      PROVE  Goal
  BY <1>29
  DEF StopPriceMissing, TypeOK, VenueInv, BookingInv, ExitInv, BeforeBooking,
     AfterBooking, CellSteps, ExitSteps, Goto
<1> QED
  BY <1>1, <1>2, <1>3, <1>4, <1>5, <1>6, <1>7, <1>8, <1>9, <1>10, <1>11, <1>12,
     <1>13, <1>14, <1>15, <1>16, <1>17, <1>18, <1>19, <1>20, <1>21, <1>22,
     <1>23, <1>24, <1>25, <1>26, <1>27, <1>28, <1>29
  DEF Next, CellStep, ExitStep, VenueStep

\* Nothing is sent, booked or exited at the start.
LEMMA BookingInitially == Init => VenueInv /\ BookingInv /\ ExitInv
BY OrdersAssumption DEF Init, VenueInv, BookingInv, ExitInv, BeforeBooking,
   AfterBooking, ExitSteps

\* All four parts of the inductive invariant hold throughout.
LEMMA TradeInductive == Spec => []TradeInv
<1>1. Init => TradeInv
  BY EntryInitially, BookingInitially DEF TradeInv
<1>2. TradeInv /\ [Next]_vars => TradeInv'
  <2> SUFFICES ASSUME TradeInv, [Next]_vars PROVE TradeInv'
    OBVIOUS
  <2>1. EntryInv'
    BY EntryStep DEF TradeInv
  <2>2. TypeOK /\ TypeOK'
    BY <2>1 DEF TradeInv, EntryInv
  <2> QED
    BY <2>1, <2>2, BookingStep DEF TradeInv
<1> QED
  BY <1>1, <1>2, PTL DEF Spec

\* A reduce-only order stands only for a booked fill, and no interleaving of
\* fills, answers and crashes books more than the venue executed.
THEOREM LegsAfterBookedFill == Spec => []LegsFollowBookedFill
<1>1. TradeInv => LegsFollowBookedFill
  BY DEF TradeInv, BookingInv, LegsFollowBookedFill
<1> QED
  BY <1>1, TradeInductive, PTL

\* Whatever crashes in between, an executed plan is only ever recorded CLOSED or
\* RECONCILED with both its fills booked and its exit executed.
THEOREM ClosedIsBooked == Spec => []CloseIsBooked
<1>1. TradeInv => CloseIsBooked
  BY DEF TradeInv, ExitInv, CloseIsBooked
<1> QED
  BY <1>1, TradeInductive, PTL

-----------------------------------------------------------------------------
\* The refinement of OrderContract

\* Every step is a step of the contract, or one it does not see.
LEMMA ContractStep ==
  ASSUME TradeInv, TradeInv', [Next]_vars
  PROVE  [Contract!Next]_(Contract!vars)
<1> DEFINE Unseen == UNCHANGED <<planRow, sends, filled, bought, sold>>
<1> USE OrdersAssumption DEF durable, venue, process
<1>1. CASE \E i \in Intents : Materialize(i)
  <2>1. PICK i \in Intents : Materialize(i)
    BY <1>1
  <2>2. ProposalOf[i] \in Proposals /\ Contract!Record(ProposalOf[i])
    BY <2>1 DEF Materialize, Admissible, Contract!Record
  <2> QED
    BY <2>2 DEF Contract!Next
<1>2. CASE \E i \in Intents, accepted \in BOOLEAN : Transmit(i, accepted)
  <2>1. PICK i \in Intents, accepted \in BOOLEAN : Transmit(i, accepted)
    BY <1>2
  <2>2. ProposalOf[i] \in planRow
    BY <2>1 DEF Transmit, TradeInv, EntryInv, WorkHasPlanRow, CellSteps
  <2>3. \A j \in Intents : ProposalOf[j] = ProposalOf[i] => sends[j] = 0
    BY <2>1 DEF Transmit, TradeInv, EntryInv, NothingSentYet
  <2>4. sends' = [sends EXCEPT ![i] = 1]
    <3>1. sends[i] + 1 = 1
      BY <2>3
    <3>2. sends' = [sends EXCEPT ![i] = sends[i] + 1]
      BY <2>1 DEF Transmit
    <3> QED
      BY <3>1, <3>2
  <2>5. Contract!Send(i)
    BY <2>1, <2>2, <2>3, <2>4 DEF Transmit, Contract!Send, Contract!Siblings
  <2> QED
    BY <2>5 DEF Contract!Next
<1>3. CASE \E i \in Intents : Book(i)
  <2>1. PICK i \in Intents : Book(i)
    BY <1>3
  <2>2. bought[i] = 0 /\ seen[i] \in 1..Quantity /\ seen[i] <= filled[i]
    BY <2>1 DEF Book, TradeInv, EntryInv, TypeOK, BookingInv, BeforeBooking
  <2>3. Contract!Book(i, seen[i])
    BY <2>1, <2>2 DEF Book, Contract!Book
  <2> QED
    BY <2>2, <2>3 DEF Contract!Next
<1>4. CASE \E i \in Intents : ExitBook(i)
  <2>1. PICK i \in Intents : ExitBook(i)
    BY <1>4
  <2>2. bought[i] > 0 /\ sold[i] = 0 /\ seen[i] \in 1..Quantity
    BY <2>1 DEF ExitBook, TradeInv, EntryInv, TypeOK, ExitInv, ExitSteps
  <2>3. Contract!BookExit(i, seen[i])
    BY <2>1, <2>2 DEF ExitBook, Contract!BookExit
  <2> QED
    BY <2>2, <2>3 DEF Contract!Next
<1>5. CASE \E i \in Intents, n \in 1..Quantity : VenueFills(i, n)
  <2>1. PICK i \in Intents, n \in 1..Quantity : VenueFills(i, n)
    BY <1>5
  <2>2. sends[i] > 0
    BY <2>1 DEF VenueFills, WorkingStatus, TradeInv, VenueInv
  <2>3. Contract!Execute(i, n)
    BY <2>1, <2>2 DEF VenueFills, Contract!Execute
  <2> QED
    BY <2>3 DEF Contract!Next
<1>6. CASE /\ \A i \in Intents :
                /\ ~Materialize(i) /\ ~Book(i) /\ ~ExitBook(i)
                /\ \A accepted \in BOOLEAN : ~Transmit(i, accepted)
                /\ \A n \in 1..Quantity : ~VenueFills(i, n)
  <2>1. Unseen
    BY <1>6
    DEF Next, CellStep, ExitStep, VenueStep, vars,
        RefuseValidation, Announce, RefuseLocally, AbortLocally, Answer,
        PollApplied, PollAcknowledged, PollRaises, PlaceLeg, StopPriceMissing, ProtectionPlaced,
        ProtectionFailed, ProtectionRaises, Activate, ExitKindUnknown, ExitSent,
        ExitClose, ExitReconcile, VenueEnds, LegFires, PriceReaches, Crash, Boot
  <2> QED
    BY <2>1 DEF Contract!vars
<1> QED
  BY <1>1, <1>2, <1>3, <1>4, <1>5, <1>6

\* The whole pipeline, with its crashes and restarts, keeps the promise of
\* OrderContract.
THEOREM ImplementsContract == Spec => ContractSpec
<1>1. Init => Contract!Init
  BY DEF Init, Contract!Init
<1>2. TradeInv /\ TradeInv' /\ [Next]_vars => [Contract!Next]_(Contract!vars)
  BY ContractStep
<1> QED
  BY <1>1, <1>2, TradeInductive, PTL DEF Spec, ContractSpec, Contract!Spec

-----------------------------------------------------------------------------
\* The records of an intent follow the matrix

\* While a coroutine is past its announcement, or manage_positions holds the
\* machine, _state and the last FSM record agree; before it, _state is READY.
RowInv ==
  \A i \in Intents :
    /\ \/ pc[i] \in (CellSteps \ {"planned"}) \cup ExitSteps
       \/ i \in working
       => fsm[i] = row[i]
    /\ pc[i] \in {"idle", "planned"} => fsm[i] = "READY"

\* One new record: an edge that leaves the previous record, or leaves READY
\* for an intent nothing was sent for.
RowsMove ==
  \A i \in Intents :
    row'[i] # row[i] =>
      \E t \in Triggers :
        \/ <<row[i], t, row'[i]>> \in LegalTransitions
        \/ sends[i] = 0 /\ <<"READY", t, row'[i]>> \in LegalTransitions

\* advance makes one move of the rows, when _state and the record agree or
\* nothing was sent for a machine still in READY.
LEMMA AdvanceMovesRow ==
  ASSUME TypeOK, NEW i \in Intents, NEW trigger, Advance(i, trigger),
         fsm[i] = row[i] \/ (sends[i] = 0 /\ fsm[i] = "READY")
  PROVE  RowsMove
<1>1. <<fsm[i], trigger, row'[i]>> \in LegalTransitions
  BY AdvanceFollowsEdge
<1>2. trigger \in Triggers
  <2>1. <<fsm[i], trigger, row'[i]>>[2] = trigger
    OBVIOUS
  <2> QED
    BY <1>1, <2>1 DEF Triggers
<1>3. \A j \in Intents \ {i} : row'[j] = row[j]
  BY AdvanceFollowsEdge
<1> QED
  BY <1>1, <1>2, <1>3 DEF RowsMove

\* One step keeps the durable record and the live machine in agreement.
LEMMA RowStep ==
  ASSUME TypeOK, EntryInv, RowInv, [Next]_vars
  PROVE  RowInv' /\ RowsMove
<1> DEFINE Goal == RowInv' /\ RowsMove
<1> USE OrdersAssumption DEF durable, venue, process
<1>1. ASSUME NEW i \in Intents,
             Materialize(i)
      PROVE  Goal
  BY <1>1 DEF RowInv, RowsMove, Materialize, Admissible, Goto, CellSteps,
     ExitSteps, TypeOK
<1>2. ASSUME NEW i \in Intents,
             RefuseValidation(i)
      PROVE  Goal
  <2>1. fsm[i] = row[i] \/ (sends[i] = 0 /\ fsm[i] = "READY")
    BY <1>2 DEF RowInv, EntryInv, SentIsRecorded, TypeOK, Admissible,
       RefuseValidation
  <2>2. RowsMove
    BY <1>2, <2>1, AdvanceMovesRow DEF RefuseValidation
  <2>3. row'[i] = fsm'[i] /\ \A j \in Intents \ {i} : row'[j] = row[j] /\ fsm'[j] = fsm[j]
    BY <1>2, AdvanceFollowsEdge DEF RefuseValidation
  <2>4. RowInv'
    BY <1>2, <2>3 DEF RowInv, RefuseValidation, Goto, CellSteps, ExitSteps,
       TypeOK
  <2> QED
    BY <2>2, <2>4
<1>3. ASSUME NEW i \in Intents,
             Announce(i)
      PROVE  Goal
  <2>1. fsm[i] = row[i] \/ (sends[i] = 0 /\ fsm[i] = "READY")
    BY <1>3 DEF RowInv, EntryInv, NothingSentYet, Announce
  <2>2. RowsMove
    BY <1>3, <2>1, AdvanceMovesRow DEF Announce
  <2>3. row'[i] = fsm'[i] /\ \A j \in Intents \ {i} : row'[j] = row[j] /\ fsm'[j] = fsm[j]
    BY <1>3, AdvanceFollowsEdge DEF Announce
  <2>4. RowInv'
    BY <1>3, <2>3 DEF RowInv, Announce, Goto, CellSteps, ExitSteps, TypeOK
  <2> QED
    BY <2>2, <2>4
<1>4. ASSUME NEW i \in Intents,
             RefuseLocally(i)
      PROVE  Goal
  <2>1. fsm[i] = row[i] \/ (sends[i] = 0 /\ fsm[i] = "READY")
    BY <1>4 DEF RowInv, CellSteps, ExitSteps, RefuseLocally
  <2>2. RowsMove
    BY <1>4, <2>1, AdvanceMovesRow DEF RefuseLocally
  <2>3. row'[i] = fsm'[i] /\ \A j \in Intents \ {i} : row'[j] = row[j] /\ fsm'[j] = fsm[j]
    BY <1>4, AdvanceFollowsEdge DEF RefuseLocally
  <2>4. RowInv'
    BY <1>4, <2>3 DEF RowInv, RefuseLocally, Goto, CellSteps, ExitSteps, TypeOK
  <2> QED
    BY <2>2, <2>4
<1>5. ASSUME NEW i \in Intents,
             AbortLocally(i)
      PROVE  Goal
  BY <1>5 DEF RowInv, RowsMove, AbortLocally, Goto, CellSteps, ExitSteps, TypeOK
<1>6. ASSUME NEW i \in Intents, NEW accepted \in BOOLEAN,
             Transmit(i, accepted)
      PROVE  Goal
  BY <1>6 DEF RowInv, RowsMove, Transmit, Goto, CellSteps, ExitSteps, TypeOK
<1>7. ASSUME NEW i \in Intents, NEW outcome \in Outcomes, NEW complete \in BOOLEAN,
             Answer(i, outcome, complete)
      PROVE  Goal
  <2>1. fsm[i] = row[i] \/ (sends[i] = 0 /\ fsm[i] = "READY")
    BY <1>7 DEF RowInv, CellSteps, ExitSteps, Answer
  <2>2. RowsMove
    BY <1>7, <2>1, AdvanceMovesRow DEF Answer
  <2>3. row'[i] = fsm'[i] /\ \A j \in Intents \ {i} : row'[j] = row[j] /\ fsm'[j] = fsm[j]
    BY <1>7, AdvanceFollowsEdge DEF Answer
  <2>4. RowInv'
    BY <1>7, <2>3 DEF RowInv, Answer, Observe, Goto, CellSteps, ExitSteps,
       TypeOK
  <2> QED
    BY <2>2, <2>4
<1>8. ASSUME NEW i \in Intents, NEW outcome \in Outcomes, NEW complete \in BOOLEAN,
             PollApplied(i, outcome, complete)
      PROVE  Goal
  <2>1. fsm[i] = row[i] \/ (sends[i] = 0 /\ fsm[i] = "READY")
    BY <1>8 DEF RowInv, CellSteps, ExitSteps, PollApplied
  <2>2. RowsMove
    BY <1>8, <2>1, AdvanceMovesRow DEF PollApplied
  <2>3. row'[i] = fsm'[i] /\ \A j \in Intents \ {i} : row'[j] = row[j] /\ fsm'[j] = fsm[j]
    BY <1>8, AdvanceFollowsEdge DEF PollApplied
  <2>4. RowInv'
    BY <1>8, <2>3 DEF RowInv, PollApplied, Observe, PollAgain, LeavePoll, Goto,
       CellSteps, ExitSteps, TypeOK
  <2> QED
    BY <2>2, <2>4
<1>9. ASSUME NEW i \in Intents,
             PollAcknowledged(i)
      PROVE  Goal
  BY <1>9 DEF RowInv, RowsMove, PollAcknowledged, PollAgain, LeavePoll, Goto,
     CellSteps, ExitSteps, TypeOK
<1>10. ASSUME NEW i \in Intents, NEW outcome \in Outcomes,
             PollRaises(i, outcome)
      PROVE  Goal
  BY <1>10 DEF RowInv, RowsMove, PollRaises, LeavePoll, Goto, CellSteps,
     ExitSteps, TypeOK
<1>11. ASSUME NEW i \in Intents,
             Book(i)
      PROVE  Goal
  BY <1>11 DEF RowInv, RowsMove, Book, Goto, CellSteps, ExitSteps, TypeOK
<1>12. ASSUME NEW i \in Intents, NEW leg \in {"stop", "target"}, NEW live \in BOOLEAN, NEW ok \in BOOLEAN,
             PlaceLeg(i, leg, live, ok)
      PROVE  Goal
  BY <1>12 DEF RowInv, RowsMove, PlaceLeg, Goto, CellSteps, ExitSteps, TypeOK
<1>13. ASSUME NEW i \in Intents,
             StopPriceMissing(i)
      PROVE  Goal
  BY <1>13 DEF RowInv, RowsMove, StopPriceMissing, Goto, CellSteps, ExitSteps,
     TypeOK
<1>14. ASSUME NEW i \in Intents,
             ProtectionPlaced(i)
      PROVE  Goal
  <2>1. fsm[i] = row[i] \/ (sends[i] = 0 /\ fsm[i] = "READY")
    BY <1>14 DEF RowInv, CellSteps, ExitSteps, ProtectionPlaced
  <2>2. RowsMove
    BY <1>14, <2>1, AdvanceMovesRow DEF ProtectionPlaced
  <2>3. row'[i] = fsm'[i] /\ \A j \in Intents \ {i} : row'[j] = row[j] /\ fsm'[j] = fsm[j]
    BY <1>14, AdvanceFollowsEdge DEF ProtectionPlaced
  <2>4. RowInv'
    BY <1>14, <2>3 DEF RowInv, ProtectionPlaced, Goto, CellSteps, ExitSteps,
       TypeOK
  <2> QED
    BY <2>2, <2>4
<1>15. ASSUME NEW i \in Intents,
             ProtectionFailed(i)
      PROVE  Goal
  <2>1. fsm[i] = row[i] \/ (sends[i] = 0 /\ fsm[i] = "READY")
    BY <1>15 DEF RowInv, CellSteps, ExitSteps, ProtectionFailed
  <2>2. RowsMove
    BY <1>15, <2>1, AdvanceMovesRow DEF ProtectionFailed
  <2>3. row'[i] = fsm'[i] /\ \A j \in Intents \ {i} : row'[j] = row[j] /\ fsm'[j] = fsm[j]
    BY <1>15, AdvanceFollowsEdge DEF ProtectionFailed
  <2>4. RowInv'
    BY <1>15, <2>3 DEF RowInv, ProtectionFailed, Goto, CellSteps, ExitSteps,
       TypeOK
  <2> QED
    BY <2>2, <2>4
<1>16. ASSUME NEW i \in Intents,
             ProtectionRaises(i)
      PROVE  Goal
  BY <1>16 DEF RowInv, RowsMove, ProtectionRaises, Goto, CellSteps, ExitSteps,
     TypeOK
<1>17. ASSUME NEW i \in Intents,
             Activate(i)
      PROVE  Goal
  <2>1. fsm[i] = row[i] \/ (sends[i] = 0 /\ fsm[i] = "READY")
    BY <1>17 DEF RowInv, CellSteps, ExitSteps, Activate
  <2>2. RowsMove
    BY <1>17, <2>1, AdvanceMovesRow DEF Activate
  <2>3. row'[i] = fsm'[i] /\ \A j \in Intents \ {i} : row'[j] = row[j] /\ fsm'[j] = fsm[j]
    BY <1>17, AdvanceFollowsEdge DEF Activate
  <2>4. RowInv'
    BY <1>17, <2>3 DEF RowInv, Activate, Goto, CellSteps, ExitSteps, TypeOK
  <2> QED
    BY <2>2, <2>4
<1>18. ASSUME NEW i \in Intents,
             ExitKindUnknown(i)
      PROVE  Goal
  BY <1>18 DEF RowInv, RowsMove, ExitKindUnknown, Goto, CellSteps, ExitSteps,
     TypeOK
<1>19. ASSUME NEW i \in Intents, NEW n \in 0..Quantity, NEW heard \in BOOLEAN,
             ExitSent(i, n, heard)
      PROVE  Goal
  BY <1>19 DEF RowInv, RowsMove, ExitSent, ExitDue, Goto, CellSteps, ExitSteps,
     TypeOK
<1>20. ASSUME NEW i \in Intents,
             ExitBook(i)
      PROVE  Goal
  BY <1>20 DEF RowInv, RowsMove, ExitBook, Goto, CellSteps, ExitSteps, TypeOK
<1>21. ASSUME NEW i \in Intents,
             ExitClose(i)
      PROVE  Goal
  <2>1. fsm[i] = row[i] \/ (sends[i] = 0 /\ fsm[i] = "READY")
    BY <1>21 DEF RowInv, CellSteps, ExitSteps, ExitClose
  <2>2. RowsMove
    BY <1>21, <2>1, AdvanceMovesRow DEF ExitClose
  <2>3. row'[i] = fsm'[i] /\ \A j \in Intents \ {i} : row'[j] = row[j] /\ fsm'[j] = fsm[j]
    BY <1>21, AdvanceFollowsEdge DEF ExitClose
  <2>4. RowInv'
    BY <1>21, <2>3 DEF RowInv, ExitClose, Goto, CellSteps, ExitSteps, TypeOK
  <2> QED
    BY <2>2, <2>4
<1>22. ASSUME NEW i \in Intents, NEW orderKnown \in BOOLEAN, NEW positionKnown \in BOOLEAN,
             ExitReconcile(i, orderKnown, positionKnown)
      PROVE  Goal
  <2>1. fsm[i] = row[i] \/ (sends[i] = 0 /\ fsm[i] = "READY")
    BY <1>22 DEF RowInv, CellSteps, ExitSteps, ExitReconcile
  <2>2. RowsMove
    BY <1>22, <2>1, AdvanceMovesRow DEF ExitReconcile
  <2>3. row'[i] = fsm'[i] /\ \A j \in Intents \ {i} : row'[j] = row[j] /\ fsm'[j] = fsm[j]
    BY <1>22, AdvanceFollowsEdge DEF ExitReconcile
  <2>4. RowInv'
    BY <1>22, <2>3 DEF RowInv, ExitReconcile, Goto, CellSteps, ExitSteps, TypeOK
  <2> QED
    BY <2>2, <2>4
<1>23. ASSUME NEW i \in Intents, NEW n \in 1..Quantity,
             VenueFills(i, n)
      PROVE  Goal
  BY <1>23 DEF RowInv, RowsMove, VenueFills, Goto, CellSteps, ExitSteps, TypeOK
<1>24. ASSUME NEW i \in Intents, NEW status \in EndedStatus,
             VenueEnds(i, status)
      PROVE  Goal
  BY <1>24 DEF RowInv, RowsMove, VenueEnds, Goto, CellSteps, ExitSteps, TypeOK
<1>25. ASSUME NEW i \in Intents, NEW leg \in Legs,
             LegFires(i, leg)
      PROVE  Goal
  BY <1>25 DEF RowInv, RowsMove, LegFires, Goto, CellSteps, ExitSteps, TypeOK
<1>26. ASSUME NEW i \in Intents,
             PriceReaches(i)
      PROVE  Goal
  BY <1>26 DEF RowInv, RowsMove, PriceReaches, Goto, CellSteps, ExitSteps,
     TypeOK
<1>27. CASE Crash
  BY <1>27 DEF RowInv, RowsMove, Crash, ForgetProcess, CellSteps, ExitSteps
<1>28. ASSUME NEW answer \in BootAnswers, Boot(answer)
      PROVE  Goal
  BY <1>28 DEF RowInv, RowsMove, Boot, ForgetProcess, CellSteps, ExitSteps
<1>29. CASE UNCHANGED vars
  BY <1>29 DEF RowInv, RowsMove, vars
<1> QED
  BY <1>1, <1>2, <1>3, <1>4, <1>5, <1>6, <1>7, <1>8, <1>9, <1>10, <1>11, <1>12,
     <1>13, <1>14, <1>15, <1>16, <1>17, <1>18, <1>19, <1>20, <1>21, <1>22,
     <1>23, <1>24, <1>25, <1>26, <1>27, <1>28, <1>29
  DEF Next, CellStep, ExitStep, VenueStep

\* Over crashes and restarts, the FSM records of an intent walk the frozen
\* matrix; only an intent nothing was sent for starts again at READY.
THEOREM RowsAlongMatrix == Spec => RowsFollowMatrix
<1>1. Init => EntryInv /\ RowInv
  BY EntryInitially DEF Init, RowInv
<1>2. EntryInv /\ RowInv /\ [Next]_vars => (EntryInv /\ RowInv)' /\ RowsMove
  BY EntryStep, RowStep DEF EntryInv
<1> QED
  BY <1>1, <1>2, PTL DEF Spec, RowsFollowMatrix, RowsMove
================================================================================
