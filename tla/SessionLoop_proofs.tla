------------------------- MODULE SessionLoop_proofs -------------------------
(***************************************************************************)
(* The drain, for every value of the constants: it implements the delivery *)
(* ledger, and its variables keep their types.                             *)
(***************************************************************************)
EXTENDS SessionLoopProperties, FiniteSetTheorems, TLAPS

Statuses == {"absent", "deferred", "routed", "dropped", "done"}
Places == {"idle", "created", "record", "gate", "stamped", "unpause",
           "ensure", "dispatch", "turn"}

\* The drain works on deferred deliveries only: the rest of its pass and the
\* one in hand are deferred, and the one in hand has been given to an agent
\* when the drain waits for its turn to end.
InHand ==
    /\ received \in 0 .. MaxDeliveries
    /\ status \in [Deliveries -> Statuses]
    /\ turnsFor \in [Deliveries -> Nat]
    /\ pc \in Places
    /\ \A d \in Deliveries : d > received => status[d] = "absent"
    /\ batch \subseteq {d \in Deliveries : status[d] = "deferred"}
    /\ pc \notin {"idle", "created"} =>
            job.d \in Deliveries /\ status[job.d] = "deferred"
    /\ pc = "turn" => turnsFor[job.d] > 0

\* What a step that is not about a turn does to the ledger.
Kept == status' = status /\ turnsFor' = turnsFor /\ pc # "turn" /\ pc' # "turn"

Closed(d) ==
    /\ pc # "turn" /\ pc' = "idle"
    /\ status[d] = "deferred" /\ turnsFor' = turnsFor
    /\ \E outcome \in {"dropped", "done"} :
            status' = [status EXCEPT ![d] = outcome]

LEMMA InHandInit == Init => InHand
  BY BoundsAssumption DEF Init, InHand, Deliveries, Statuses, Places

\* Every way of taking a delivery up keeps InHand and never runs a turn.
LEMMA PickStep ==
    ASSUME InHand, received' = received, NEW d \in Deliveries, Pick(d)
    PROVE  InHand' /\ (Kept \/ Closed(d))
<1> USE DEF InHand, Places, Statuses, Kept, Closed, NoJob, Back
<1>1. CASE DropSessionless(d)
  BY <1>1 DEF DropSessionless, AtFront, Settle
<1>2. CASE CreateSession(d)
  BY <1>2 DEF CreateSession, AtFront, RefuseStructurally, Settle, Leave
<1>3. CASE IgnorePart(d)
  BY <1>3 DEF IgnorePart, Known, AtFront, Settle
<1>4. CASE LiftHold(d)
  BY <1>4 DEF LiftHold, Known, AtFront, Settle
<1>5. CASE BudgetBreach(d)
  BY <1>5 DEF BudgetBreach, Cue, Known, AtFront, Settle
<1>6. CASE Superseded(d)
  BY <1>6 DEF Superseded, HasRead, Within, Cue, Known, AtFront, Settle
<1>7. CASE VerifyLater(d)
  BY <1>7 DEF VerifyLater, HasRead, Within, Cue, Known, AtFront, Settle, Leave
<1>8. CASE VerifyFails(d)
  BY <1>8 DEF VerifyFails, HasRead, Within, Cue, Known, AtFront, Settle
<1>9. CASE DropUntrackedMerge(d)
  BY <1>9 DEF DropUntrackedMerge, Within, Cue, Known, AtFront, Settle
<1>10. CASE FeatureMergedElsewhere(d)
  BY <1>10 DEF FeatureMergedElsewhere, Within, Cue, Known, AtFront, Settle
<1>11. CASE \E k \in Kinds : Defer(d, k)
  BY <1>11 DEF Defer, Routable, Within, Cue, Known, AtFront, Settle, Leave
<1>12. CASE \E k \in Kinds : IgnoreReply(d, k)
  BY <1>12 DEF IgnoreReply, Routable, Within, Cue, Known, AtFront, Settle
<1>13. CASE \E k \in Kinds : BeginResume(d, k)
  <2> PICK k \in Kinds : BeginResume(d, k)
    BY <1>13
  <2>1. /\ AtFront(d) /\ job'.d = d
        /\ pc' \in {"unpause", "record"}
        /\ UNCHANGED <<status, batch, turnsFor>>
    BY DEF BeginResume, JobFor, Routable, Within, Cue, Known, trace
  <2> QED
    BY <2>1 DEF AtFront
<1>14. CASE \E k \in Kinds : Admit(d, k)
  <2> PICK k \in Kinds : Admit(d, k)
    BY <1>14
  <2>1. /\ AtFront(d) /\ job'.d = d
        /\ pc' \in {"unpause", "record"}
        /\ UNCHANGED <<status, batch, turnsFor>>
    BY DEF Admit, JobFor, Routable, Within, Cue, Known, trace
  <2> QED
    BY <2>1 DEF AtFront
<1>15. CASE ReadsReviews(d)
  BY <1>15 DEF ReadsReviews, Within, Cue, Known, AtFront, trace
<1> QED
  BY <1>1, <1>2, <1>3, <1>4, <1>5, <1>6, <1>7, <1>8, <1>9, <1>10, <1>11,
       <1>12, <1>13, <1>14, <1>15 DEF Pick

\* So does every later stage, up to the dispatch.
LEMMA ContinueStep ==
    ASSUME InHand, received' = received, Continue, ~StartTurn
    PROVE  InHand' /\ (Kept \/ (job.d \in Deliveries /\ Closed(job.d)))
<1> USE DEF InHand, Places, Statuses, Kept, Closed, NoJob, Back
<1>1. CASE FinishCreate
  BY <1>1 DEF FinishCreate, trace
<1>2. CASE SkipSpentHead
  BY <1>2 DEF SkipSpentHead, Settle
<1>3. CASE Record
  BY <1>3 DEF Record
<1>4. CASE GateNoTurn
  BY <1>4 DEF GateNoTurn, Settle
<1>5. CASE StampHead
  BY <1>5 DEF StampHead
<1>6. CASE SkipHeld
  BY <1>6 DEF SkipHeld, Settle
<1>7. CASE AwaitRole
  BY <1>7 DEF AwaitRole, Leave
<1>8. CASE DropTurn
  BY <1>8 DEF DropTurn, Passes, Settle
<1>9. CASE ObserveRound
  BY <1>9 DEF ObserveRound, Passes, Settle
<1>10. CASE ToDispatch
  BY <1>10 DEF ToDispatch, Passes, trace
<1>11. CASE Unpause
  BY <1>11 DEF Unpause, trace
<1>12. CASE EnsureOnResume
  BY <1>12 DEF EnsureOnResume, RefuseStructurally, Settle, Leave
<1>13. CASE RoleBusy
  BY <1>13 DEF RoleBusy, Leave
<1>14. CASE NoRunner
  BY <1>14 DEF NoRunner, RetryOrGiveUp, RefuseStructurally, Settle, Leave
<1> QED
  BY <1>1, <1>2, <1>3, <1>4, <1>5, <1>6, <1>7, <1>8, <1>9, <1>10, <1>11,
       <1>12, <1>13, <1>14 DEF Continue

\* A turn starts for the delivery in hand, and only one that is deferred.
LEMMA StartStep ==
    ASSUME InHand, received' = received, StartTurn
    PROVE  /\ InHand'
           /\ job.d \in Deliveries /\ job'.d = job.d
           /\ pc # "turn" /\ pc' = "turn"
           /\ status[job.d] = "deferred" /\ status' = status
           /\ turnsFor' = [turnsFor EXCEPT ![job.d] = @ + 1]
<1>1. job'.d = job.d
  BY DEF StartTurn
<1> QED
  BY <1>1 DEF InHand, Places, Statuses, StartTurn

\* An answer gives the delivery back or settles it; the turn is over.
LEMMA AnswerStep ==
    ASSUME InHand, received' = received, Answer
    PROVE  /\ InHand'
           /\ job.d \in Deliveries /\ turnsFor[job.d] > 0
           /\ pc = "turn" /\ pc' = "idle"
           /\ \/ /\ status' = status
                 /\ turnsFor' = [turnsFor EXCEPT ![job.d] = @ - 1]
              \/ /\ turnsFor' = turnsFor
                 /\ \E outcome \in {"routed", "done"} :
                        status' = [status EXCEPT ![job.d] = outcome]
<1> USE DEF InHand, Places, Statuses, NoJob, Back
<1>1. CASE TurnRefused
  BY <1>1 DEF TurnRefused, Leave
<1>2. CASE TurnTimesOut
  BY <1>2 DEF TurnTimesOut, Settle
<1>3. CASE TurnDone
  BY <1>3 DEF TurnDone, Settle
<1>4. CASE TurnFailed
  BY <1>4 DEF TurnFailed, Settle
<1>5. CASE TurnNeedsHuman
  BY <1>5 DEF TurnNeedsHuman, Settle
<1> QED
  BY <1>1, <1>2, <1>3, <1>4, <1>5 DEF Answer

\* What is not the drain: the wire delivers, a pass begins, a kill interrupts.
LEMMA OtherStep ==
    ASSUME InHand, GitHub \/ Sibling \/ StartPass \/ Clocks
    PROVE  InHand' /\ UNCHANGED <<status, turnsFor, pc, job>>
<1> USE DEF InHand, Places, Statuses
<1>1. CASE GitHub
  <2>1. UNCHANGED <<received, status, turnsFor, pc, batch, job>>
  BY <1>1 DEF GitHub, rows, memory, trace
  <2> QED
    BY <2>1
<1>2. CASE Sibling
  BY <1>2 DEF Sibling, queue, memory, trace
<1>3. CASE StartPass
  BY <1>3 DEF StartPass, Oldest, Eligible, queue, rows, memory, trace
<1>4. CASE Clocks
  BY <1>4 DEF Clocks, ClockElapses, HoldExpires, queue, rows, memory, trace
<1> QED
  BY <1>1, <1>2, <1>3, <1>4

\* The bound on deliveries counts those still on the wire.
Bounded == /\ IsFiniteSet(wire)
           /\ received + Cardinality(wire) <= MaxDeliveries

LEMMA SendBounded ==
    ASSUME InHand, Bounded, NEW e, Send(e), received' = received
    PROVE  Bounded'
<1>1. /\ IsFiniteSet(wire \cup {e})
      /\ Cardinality(wire \cup {e}) <= Cardinality(wire) + 1
      /\ Cardinality(wire) \in Nat /\ Cardinality(wire \cup {e}) \in Nat
  BY FS_AddElement, FS_CardinalityType DEF Bounded
<1> QED
  BY <1>1, BoundsAssumption DEF Bounded, Send, InHand

LEMMA ArriveBounded ==
    ASSUME InHand, Bounded, Arrive
    PROVE  Bounded' /\ received' = received + 1 /\ received' <= MaxDeliveries
<1> PICK e \in wire : wire' = wire \ {e} /\ received' = received + 1
  BY DEF Arrive
<1>1. /\ IsFiniteSet(wire \ {e})
      /\ Cardinality(wire \ {e}) = Cardinality(wire) - 1
      /\ Cardinality(wire) \in Nat /\ Cardinality(wire \ {e}) \in Nat
  BY FS_RemoveElement, FS_CardinalityType DEF Bounded
<1> QED
  BY <1>1, BoundsAssumption DEF Bounded, InHand

LEMMA BoundedStep ==
    ASSUME InHand, Bounded, [Next]_vars
    PROVE  Bounded'
<1>1. CASE GitHub
  <2>1. received' = received
  BY <1>1 DEF GitHub
  <2>2. wire' = wire \/ \E e : Send(e)
  BY <1>1 DEF GitHub, OpenPR, Push, Crowd, MergePR, Resync, Review, Talk
  <2> QED
    BY <2>1, <2>2, SendBounded DEF Bounded
<1>2. CASE Arrive
  BY <1>2, ArriveBounded
<1>3. CASE Sibling \/ StartPass \/ Clocks \/ Drain \/ Crash \/ UNCHANGED vars
  BY <1>3 DEF Sibling, StartPass, Clocks, ClockElapses, HoldExpires, Drain,
     Crash, vars, queue, Bounded
<1> QED
  BY <1>1, <1>2, <1>3 DEF Next

LEMMA ArriveStep ==
    ASSUME InHand, Bounded, Arrive
    PROVE  /\ InHand'
           /\ UNCHANGED <<turnsFor, pc, job>>
           /\ \E d \in Deliveries :
                /\ status[d] = "absent"
                /\ status' = [status EXCEPT ![d] = "deferred"]
<1>1. received' = received + 1 /\ received' <= MaxDeliveries
  BY ArriveBounded
<1>2. /\ received + 1 \in Deliveries /\ status[received + 1] = "absent"
      /\ status' = [status EXCEPT ![received + 1] = "deferred"]
      /\ UNCHANGED <<turnsFor, pc, job, batch>>
  BY <1>1, BoundsAssumption DEF InHand, Arrive, Deliveries, rows, memory, trace
<1>3. InHand'
  <2>1. /\ received' \in 0 .. MaxDeliveries /\ pc' \in Places
        /\ status' \in [Deliveries -> Statuses]
        /\ turnsFor' \in [Deliveries -> Nat]
    BY <1>1, <1>2, BoundsAssumption DEF InHand, Statuses
  <2>2. \A d \in Deliveries : d > received' => status'[d] = "absent"
    BY <1>1, <1>2, BoundsAssumption DEF InHand, Deliveries
  <2>3. \A d \in Deliveries : status[d] = "deferred" => status'[d] = "deferred"
    BY <1>2 DEF InHand
  <2> QED
    BY <1>2, <2>1, <2>2, <2>3 DEF InHand
<1> QED
  BY <1>2, <1>3

LEMMA CrashStep ==
    ASSUME InHand, Crash
    PROVE  InHand' /\ UNCHANGED <<status, turnsFor>> /\ pc' = "idle"
  BY DEF InHand, Places, Statuses, Crash, NoJob, queue, rows, trace

LEMMA InHandStep ==
    ASSUME InHand, Bounded, [Next]_vars
    PROVE  InHand'
<1>1. CASE Drain
  <2>1. received' = received
  BY <1>1 DEF Drain, queue
  <2> QED
    BY <1>1, <2>1, PickStep, ContinueStep, StartStep, AnswerStep DEF Drain
<1>2. CASE GitHub \/ Sibling \/ StartPass \/ Clocks
  BY <1>2, OtherStep
<1>3. CASE Arrive
  BY <1>3, ArriveStep
<1>4. CASE Crash
  BY <1>4, CrashStep
<1>5. CASE UNCHANGED vars
  BY <1>5 DEF vars, InHand, queue, trace
<1> QED
  BY <1>1, <1>2, <1>3, <1>4, <1>5 DEF Next

\* Whatever happens, and wherever the gateway is killed, the drain has only
\* deferred deliveries in hand.
THEOREM DrainHoldsDeferred == Spec => [](InHand /\ Bounded)
<1>1. Init => InHand /\ Bounded
  <2> SUFFICES ASSUME Init PROVE Bounded
    BY InHandInit
  <2> QED
    BY FS_EmptySet, BoundsAssumption DEF Init, Bounded
<1>2. InHand /\ Bounded /\ [Next]_vars => (InHand /\ Bounded)'
  BY InHandStep, BoundedStep
<1> QED
  BY <1>1, <1>2, PTL DEF Spec

-----------------------------------------------------------------------------
(* The drain implements the ledger.                                        *)

LEMMA LedgerInit == Init => Ledger!Init
  BY DEF Init, Ledger!Init

LEMMA LedgerStep ==
    ASSUME InHand, Bounded, [Next]_vars
    PROVE  [Ledger!Next]_(Ledger!ledger)
<1> USE DEF Ledger!Next, Ledger!ledger
<1>1. CASE Drain
  <2>1. received' = received
  BY <1>1 DEF Drain, queue
  <2>2. ASSUME Kept PROVE UNCHANGED Ledger!ledger
    BY <2>2 DEF Kept
  <2>3. ASSUME NEW d \in Deliveries, Closed(d) PROVE Ledger!Close(d)
    BY <2>3 DEF Closed, Ledger!Close
  <2>4. CASE \E d \in Deliveries : Pick(d)
    BY <2>1, <2>2, <2>3, <2>4, PickStep
  <2>5. CASE Continue /\ ~StartTurn
    BY <2>1, <2>2, <2>3, <2>5, ContinueStep
  <2>6. CASE StartTurn
    BY <2>1, <2>6, StartStep, BoundsAssumption
       DEF Ledger!Begin, Deliveries
  <2>7. CASE Answer
    BY <2>1, <2>7, AnswerStep DEF Ledger!Refuse, Ledger!Finish
  <2> QED
    BY <1>1, <2>4, <2>5, <2>6, <2>7 DEF Drain
<1>2. CASE GitHub \/ Sibling \/ StartPass \/ Clocks
  BY <1>2, OtherStep
<1>3. CASE Arrive
  BY <1>3, ArriveStep DEF Ledger!Receive
<1>4. CASE Crash
  BY <1>4, CrashStep DEF Ledger!Abandon
<1>5. CASE UNCHANGED vars
  BY <1>5 DEF vars, trace
<1> QED
  BY <1>1, <1>2, <1>3, <1>4, <1>5 DEF Next

\* The drain keeps the promises of DeliveryLedger for any number of
\* deliveries, pull requests, retries and kills.
THEOREM DrainImplementsLedger == Spec => LedgerSpec
<1>1. InHand /\ Bounded /\ [Next]_vars => [Ledger!Next]_(Ledger!ledger)
  BY LedgerStep
<1> QED
  BY <1>1, LedgerInit, DrainHoldsDeferred, PTL DEF Spec, LedgerSpec, Ledger!Spec

-----------------------------------------------------------------------------
(***************************************************************************)
(* Type correctness of the drain, one group of variables at a time.        *)
(***************************************************************************)

\* The kind the drain works under is the one the delivery carries, up to an
\* approval that was verified; so a head is only taken from a pull request.
JobFits ==
    pc \in {"record", "gate"} /\ job.kind \in TakesHead =>
        event[job.d].kind = job.kind

-----------------------------------------------------------------------------
(* Records under EXCEPT.                                                   *)

States == SessionStates \cup {None}
Reasons == {None, "plain", "hold"}

LEMMA RowState ==
    ASSUME NEW s \in SessionRow, NEW st \in States
    PROVE  /\ s.state \in States /\ s.resume \in States
           /\ [s EXCEPT !.state = st] \in SessionRow
           /\ [s EXCEPT !.endpoint = TRUE] \in SessionRow
           /\ [s EXCEPT !.state = st, !.endpoint = TRUE] \in SessionRow
  BY DEF SessionRow, States

LEMMA RowPause ==
    ASSUME NEW s \in SessionRow, NEW st \in States, NEW reason \in Reasons,
           NEW r \in States
    PROVE  [s EXCEPT !.state = st, !.paused = reason, !.resume = r] \in SessionRow
  BY DEF SessionRow, States, Reasons

LEMMA RowReason ==
    ASSUME NEW s \in SessionRow, NEW reason \in Reasons
    PROVE  [s EXCEPT !.paused = reason] \in SessionRow
  BY DEF SessionRow, Reasons

LEMMA RowPR ==
    ASSUME NEW s \in SessionRow, NEW st \in States,
           NEW h \in {"design", "feature"}, NEW p \in PRs \cup {None}
    PROVE  [s EXCEPT !.state = st, !.pr[h] = p] \in SessionRow
  BY DEF SessionRow, States

LEMMA RowHead ==
    ASSUME NEW s \in SessionRow, NEW h \in {"design", "feature"}, NEW n \in Heads
    PROVE  [s EXCEPT !.head[h] = n] \in SessionRow
  BY DEF SessionRow

LEMMA CountersAreNat ==
    ASSUME NEW c \in Counters
    PROVE  /\ c.turns \in Nat /\ c.consec \in Nat /\ c.silent \in Nat
           /\ c.rounds \in Nat /\ c.zero \in Nat
  BY DEF Counters

LEMMA CountersReset ==
    ASSUME NEW c \in Counters
    PROVE  [c EXCEPT !.consec = 0, !.silent = 0] \in Counters
  BY DEF Counters

LEMMA CountersRound ==
    ASSUME NEW c \in Counters, NEW z \in Nat
    PROVE  [c EXCEPT !.zero = z, !.rounds = @ + 1] \in Counters
<1>1. c.rounds + 1 \in Nat
  BY DEF Counters
<1>2. \A n \in Nat : [c EXCEPT !.zero = z, !.rounds = n] \in Counters
  BY DEF Counters
<1>3. [c EXCEPT !.zero = z, !.rounds = @ + 1]
        = [c EXCEPT !.zero = z, !.rounds = c.rounds + 1]
  BY DEF Counters
<1> QED
  BY <1>1, <1>2, <1>3

LEMMA CountersBump ==
    ASSUME count \in Counters, NEW n \in Nat
    PROVE  Bump(n) \in Counters
<1> DEFINE c == IF job.resumed THEN 1 ELSE count.consec + 1
<1>1. count.turns + 1 \in Nat /\ c \in Nat
  BY DEF Counters
<1>2. \A t, k \in Nat :
        [count EXCEPT !.turns = t, !.consec = k, !.silent = n] \in Counters
  BY DEF Counters
<1>3. Bump(n) = [count EXCEPT !.turns = count.turns + 1, !.consec = c, !.silent = n]
  BY DEF Counters, Bump
<1> HIDE DEF c
<1> QED
  BY <1>1, <1>2, <1>3

LEMMA StatesInclude ==
    {"INTAKE", "PLANNING", "PAUSED_HUMAN"} \subseteq SessionStates
  BY DEF SessionStates, DesignStates

LEMMA TransitionType ==
    ASSUME NEW s \in SessionStates \cup {None}, NEW k
    PROVE  Transition(s, k) \in SessionStates \cup {None}
<1>1. Table(s, k) \in SessionStates \cup {None}
  BY DEF Table, SessionStates, DesignStates, CodeStates, TerminalStates
<1> QED
  BY <1>1, StatesInclude
     DEF Transition, SessionStates, DesignStates, CodeStates, TerminalStates

LEMMA NoJobType == NoJob \in Job
  BY BoundsAssumption DEF NoJob, Job, Kinds, RawKinds, Roles, SessionStates,
     DesignStates, Unseen, Verdict, Heads

LEMMA JobForType ==
    ASSUME sess \in SessionRow, NEW d \in Deliveries, NEW k \in Kinds, NEW r \in Roles
    PROVE  JobFor(d, k, r) \in Job
<1>1. sess.state \in SessionStates \cup {None}
  BY DEF SessionRow
<1>2. Drops(event[d], r) \in BOOLEAN /\ IsHeld \in BOOLEAN
  BY DEF Drops, IsHeld
<1>3. /\ NoJob.prompt \in SessionStates
      /\ d \in 0 .. MaxDeliveries /\ 0 \in 0 .. MaxDeliveries
  BY StatesInclude, BoundsAssumption DEF Deliveries, NoJob
<1>4. /\ Unseen.of \in 0 .. MaxDeliveries /\ Unseen.head \in Heads
      /\ Unseen.shown \in Verdict
  BY BoundsAssumption DEF Unseen, Verdict, Heads
<1>5. Unseen \in [of : 0 .. MaxDeliveries, shown : Verdict, head : Heads]
  BY <1>4 DEF Unseen
<1> QED
  BY <1>1, <1>2, <1>3, <1>5 DEF JobFor, Job

-----------------------------------------------------------------------------
(* The sessions row.                                                       *)

LEMMA PauseRowType ==
    ASSUME NEW s \in SessionRow, NEW reason \in {None, "plain", "hold"}
    PROVE  PauseRow(s, reason) \in SessionRow
<1>1. s.state \in SessionStates \cup {None} /\ s.resume \in SessionStates \cup {None}
  BY DEF SessionRow
<1> DEFINE r == IF s.state # "PAUSED_HUMAN" THEN s.state
                ELSE IF s.resume = None THEN "PLANNING" ELSE s.resume
<1>2. r \in SessionStates \cup {None}
  BY <1>1, StatesInclude
<1>3. [s EXCEPT !.state = "PAUSED_HUMAN", !.paused = reason, !.resume = r] \in SessionRow
  BY <1>2, StatesInclude, RowPause DEF States, Reasons
<1> QED
  BY <1>3 DEF PauseRow

LEMMA EscalateType ==
    ASSUME RowsOK, NEW role \in Roles \cup {"system"}, Escalate(role)
    PROVE  sess' \in SessionRow /\ esc' \in Roles \cup {"system", None}
  BY PauseRowType DEF RowsOK, Escalate

LEMMA RefuseType ==
    ASSUME RowsOK, NEW d, RefuseStructurally(d)
    PROVE  /\ sess' \in SessionRow /\ esc' \in Roles \cup {"system", None}
           /\ block' = TRUE
<1> DEFINE row == IF sess.state = None
                  THEN [sess EXCEPT !.state = "PAUSED_HUMAN", !.paused = "plain",
                                    !.resume = "PLANNING"]
                  ELSE [sess EXCEPT !.state = "PAUSED_HUMAN", !.paused = "plain",
                                    !.resume = sess.state]
<1>1. sess \in SessionRow /\ sess.state \in SessionStates \cup {None}
  BY DEF RowsOK, SessionRow
<1>2. \A r \in States :
        [sess EXCEPT !.state = "PAUSED_HUMAN", !.paused = "plain", !.resume = r]
            \in SessionRow
  BY <1>1, RowPause, StatesInclude DEF States, Reasons
<1>3. row \in SessionRow
  BY <1>1, <1>2, StatesInclude DEF States
<1>4. PauseRow(row, "plain") \in SessionRow
  BY <1>3, PauseRowType
<1> QED
  BY <1>3, <1>4 DEF RefuseStructurally, RowsOK

LEMMA OwnerResetsType ==
    ASSUME RowsOK, NEW d, OwnerResets(d)
    PROVE  count' \in Counters
  BY CountersReset DEF RowsOK, OwnerResets

LEMMA PickRows ==
    ASSUME RowsOK, NEW d \in Deliveries, Pick(d)
    PROVE  RowsOK'
<1> USE DEF RowsOK, rows
<1>1. CASE \/ DropSessionless(d) \/ IgnorePart(d) \/ Superseded(d)
           \/ DropUntrackedMerge(d) \/ ReadsReviews(d)
           \/ \E k \in Kinds : Defer(d, k)
  BY <1>1 DEF DropSessionless, IgnorePart, Superseded, DropUntrackedMerge,
     ReadsReviews, Defer
<1>2. CASE CreateSession(d)
  <2>1. count' = count
    BY <1>2 DEF CreateSession
  <2>2. CASE RefuseStructurally(d)
    BY <2>1, <2>2, RefuseType
  <2>3. CASE ~RefuseStructurally(d)
    <3>1. esc' = esc /\ block' = block
      BY <1>2, <2>3 DEF CreateSession
    <3>2. sess' \in {sess, [sess EXCEPT !.state = "INTAKE", !.endpoint = TRUE],
                    [sess EXCEPT !.state = "INTAKE"]}
      BY <1>2, <2>3 DEF CreateSession
    <3>3. sess' \in SessionRow
      BY <3>2, RowState, StatesInclude DEF States
    <3> QED
      BY <2>1, <3>1, <3>3
  <2> QED
    BY <2>2, <2>3
<1>3. CASE LiftHold(d)
  BY <1>3, RowReason DEF LiftHold, Reasons
<1>4. CASE \/ BudgetBreach(d) \/ VerifyLater(d) \/ VerifyFails(d)
           \/ FeatureMergedElsewhere(d)
  BY <1>4, EscalateType
     DEF BudgetBreach, VerifyLater, VerifyFails, FeatureMergedElsewhere
<1>5. CASE \E k \in Kinds : IgnoreReply(d, k)
  BY <1>5, OwnerResetsType DEF IgnoreReply
<1>6. CASE \E k \in Kinds : BeginResume(d, k)
  BY <1>6, OwnerResetsType DEF BeginResume
<1>7. CASE \E k \in Kinds : Admit(d, k)
  BY <1>7, OwnerResetsType DEF Admit
<1> QED
  BY <1>1, <1>2, <1>3, <1>4, <1>5, <1>6, <1>7 DEF Pick

LEMMA ContinueRows ==
    ASSUME QueueOK, RowsOK, DrainOK, InHand, JobFits, Continue
    PROVE  RowsOK'
<1> USE DEF RowsOK, rows
<1>1. CASE \/ SkipSpentHead \/ GateNoTurn \/ SkipHeld \/ AwaitRole \/ DropTurn
           \/ ToDispatch \/ RoleBusy \/ StartTurn
  BY <1>1 DEF SkipSpentHead, GateNoTurn, SkipHeld, AwaitRole, DropTurn,
     ToDispatch, RoleBusy, StartTurn
<1>2. CASE FinishCreate
  BY <1>2, RowState, TransitionType, StatesInclude DEF FinishCreate, States
<1>3. CASE Record
  <2>1. job.state \in States /\ Transition(job.state, job.kind) \in States
    BY TransitionType DEF DrainOK, Job, States
  <2>2. Now.pr \in PRs \cup {None} /\ Half(job.kind) \in {"design", "feature"}
    BY <1>3 DEF Record, Now, QueueOK, InHand, Event, Half
  <2>3. sess' \in SessionRow
    BY <1>3, <2>1, <2>2, RowState, RowPR DEF Record
  <2> QED
    BY <1>3, <2>3 DEF Record
<1>4. CASE StampHead
  <2>1. ASSUME job.kind \in TakesHead PROVE Now.pr \in PRs
    <3>1. Now.kind \in TakesHead /\ Now \in Event
      BY <1>4, <2>1 DEF StampHead, JobFits, Now, InHand, QueueOK
    <3>2. TakesHead \cap OnIssue = {}
      BY DEF TakesHead, Opened, Revised, OnIssue
    <3> QED
      BY <3>1, <3>2 DEF Event
  <2>2. Now.sha \in Heads
    BY <1>4 DEF StampHead, Now, InHand, QueueOK, Event
  <2>3. \A p \in PRs : gh[p].head \in Heads
    BY DEF QueueOK, Forge
  <2>4. Half(job.kind) \in {"design", "feature"}
    BY DEF Half
  <2>5. sess' \in SessionRow
    BY <1>4, <2>1, <2>2, <2>3, <2>4, RowHead DEF StampHead
  <2> QED
    BY <1>4, <2>5 DEF StampHead
<1>5. CASE ObserveRound
  <2>1. \A seen : ZeroRounds(seen) \in Nat
    BY CountersAreNat DEF ZeroRounds
  <2> QED
    BY <1>5, <2>1, EscalateType, CountersRound DEF ObserveRound
<1>6. CASE Unpause
  <2>1. sess' \in SessionRow
    BY <1>6, RowState, RowPause, StatesInclude DEF Unpause, States, Reasons
  <2>2. count' \in Counters
    BY <1>6, CountersReset DEF Unpause
  <2> QED
    BY <1>6, <2>1, <2>2 DEF Unpause
<1>7. CASE EnsureOnResume
  BY <1>7, RefuseType, RowState, StatesInclude DEF EnsureOnResume, States
<1>8. CASE NoRunner
  BY <1>8, RefuseType, EscalateType DEF NoRunner, RetryOrGiveUp
<1> QED
  BY <1>1, <1>2, <1>3, <1>4, <1>5, <1>6, <1>7, <1>8 DEF Continue

LEMMA AnswerRows ==
    ASSUME RowsOK, DrainOK, Answer
    PROVE  RowsOK'
<1> USE DEF RowsOK, rows
<1>1. job.role \in Roles /\ count.silent \in Nat
  BY CountersAreNat DEF DrainOK, Job
<1>2. CASE TurnRefused \/ TurnTimesOut
  BY <1>2 DEF TurnRefused, TurnTimesOut
<1>3. CASE TurnDone
  <2> DEFINE n == IF job.resumed \/ Observed THEN 0 ELSE count.silent + 1
  <2>1. n \in Nat
    BY <1>1
  <2>2. count' = Bump(n)
    BY <1>3 DEF TurnDone
  <2>3. count' \in Counters
    BY <2>1, <2>2, CountersBump
  <2> QED
    BY <1>3, <2>3, EscalateType DEF TurnDone
<1>4. CASE TurnFailed
  BY <1>1, <1>4, CountersBump DEF TurnFailed
<1>5. CASE TurnNeedsHuman
  BY <1>1, <1>5, CountersBump, EscalateType DEF TurnNeedsHuman
<1> QED
  BY <1>2, <1>3, <1>4, <1>5 DEF Answer

-----------------------------------------------------------------------------
(* The local variables of process_one.                                     *)

\* A delivery taken up carries its own kind, and no turn is in it yet.
LEMMA PickJob ==
    ASSUME RowsOK, DrainOK, QueueOK, NEW d \in Deliveries, Pick(d),
           event' = event
    PROVE  job' \in Job /\ JobFits'
<1> USE DEF DrainOK, Back
<1>1. CASE \/ DropSessionless(d) \/ IgnorePart(d) \/ LiftHold(d)
           \/ BudgetBreach(d) \/ Superseded(d) \/ VerifyLater(d) \/ VerifyFails(d)
           \/ DropUntrackedMerge(d) \/ FeatureMergedElsewhere(d)
           \/ \E k \in Kinds : Defer(d, k) \/ IgnoreReply(d, k)
  <2>1. job' = NoJob /\ pc' = "idle"
    BY <1>1 DEF DropSessionless, IgnorePart, LiftHold, BudgetBreach,
       Superseded, VerifyLater, VerifyFails, DropUntrackedMerge,
       FeatureMergedElsewhere, Defer, IgnoreReply, Settle, Leave
  <2> QED
    BY <2>1, NoJobType DEF JobFits
<1>2. CASE CreateSession(d)
  <2>1. job' \in {job, NoJob} /\ pc' \in {"created", "idle"}
    BY <1>2 DEF CreateSession, RefuseStructurally, Settle, Leave
  <2> QED
    BY <2>1, NoJobType DEF JobFits
<1>3. ASSUME NEW k \in Kinds, BeginResume(d, k)
      PROVE  job' \in Job /\ JobFits'
  <2> DEFINE r == IF esc \in Roles THEN esc ELSE "architect"
  <2>1. JobFor(d, k, r) \in Job
    BY JobForType DEF RowsOK, Roles
  <2>2. job' = [JobFor(d, k, r) EXCEPT !.resumed = TRUE, !.drop = FALSE]
    BY <1>3 DEF BeginResume
  <2>3. pc' = "unpause"
    BY <1>3 DEF BeginResume
  <2> HIDE DEF r
  <2> QED
    BY <2>1, <2>2, <2>3 DEF Job, JobFits
<1>4. ASSUME NEW k \in Kinds, Admit(d, k)
      PROVE  job' \in Job /\ JobFits'
  <2> DEFINE r == Recipient(k, event[d].sender)
  <2>1. r \in Roles
    BY DEF Recipient, Roles
  <2>2. job' = JobFor(d, k, r) /\ Routable(d, k)
    BY <1>4 DEF Admit
  <2>3. job'.d = d /\ job'.kind = k
    BY <2>2 DEF JobFor
  <2>4. k \in TakesHead => event[d].kind = k
    BY <2>2 DEF Routable, Kind, TakesHead, Opened, Revised
  <2> QED
    BY <2>1, <2>2, <2>3, <2>4, JobForType DEF JobFits, RowsOK
<1>5. CASE ReadsReviews(d)
  <2> DEFINE pr == gh[event[d].pr]
             seen == [of |-> d, shown |-> pr.shown, head |-> pr.head]
  <2>1. event[d].pr \in PRs
    BY <1>5 DEF ReadsReviews, Kind, Unverified, OnIssue, QueueOK, Event
  <2>2. pr.shown \in Verdict /\ pr.head \in Heads
    BY <2>1 DEF QueueOK, Forge, Verdict
  <2>3. job' = [NoJob EXCEPT !.seen = seen] /\ pc' = pc /\ pc = "idle"
    BY <1>5 DEF ReadsReviews, Within, Cue, Known, AtFront
  <2>4. seen \in [of : 0 .. MaxDeliveries, shown : Verdict, head : Heads]
    BY <2>2, BoundsAssumption DEF Deliveries
  <2> HIDE DEF seen
  <2> QED
    BY <2>3, <2>4, NoJobType DEF Job, JobFits
<1> QED
  BY <1>1, <1>2, <1>3, <1>4, <1>5 DEF Pick

LEMMA ContinueJob ==
    ASSUME QueueOK, RowsOK, DrainOK, InHand, JobFits, Continue, event' = event
    PROVE  job' \in Job /\ JobFits'
<1> USE DEF DrainOK, Back
<1>1. CASE \/ SkipSpentHead \/ GateNoTurn \/ SkipHeld \/ AwaitRole
           \/ DropTurn \/ RoleBusy
  <2>1. job' = NoJob /\ pc' = "idle"
    BY <1>1 DEF SkipSpentHead, GateNoTurn, SkipHeld, AwaitRole, DropTurn,
       RoleBusy, Settle, Leave
  <2> QED
    BY <2>1, NoJobType DEF JobFits
<1>2. CASE \/ FinishCreate \/ ToDispatch \/ Unpause \/ StampHead
           \/ ObserveRound \/ EnsureOnResume \/ NoRunner
  <2>1. job' \in {job, NoJob} /\ pc' \in {"idle", "dispatch", "ensure", "stamped"}
    BY <1>2 DEF FinishCreate, ToDispatch, Unpause, StampHead, ObserveRound,
       EnsureOnResume, NoRunner, RetryOrGiveUp, RefuseStructurally, Settle, Leave
  <2> QED
    BY <2>1, NoJobType DEF JobFits
<1>3. CASE Record
  <2>1. /\ job' = [job EXCEPT !.state = Transition(job.state, job.kind)]
        /\ pc = "record"
    BY <1>3 DEF Record
  <2>2. Transition(job.state, job.kind) \in SessionStates \cup {None}
    BY TransitionType DEF Job
  <2>3. job' \in Job /\ job'.kind = job.kind /\ job'.d = job.d
    BY <2>1, <2>2 DEF Job
  <2> QED
    BY <2>1, <2>3 DEF JobFits
<1>4. CASE StartTurn
  <2>1. job' = [job EXCEPT !.mark = received, !.prompt = sess.state] /\ pc' = "turn"
    BY <1>4 DEF StartTurn
  <2>2. sess.state \in SessionStates \cup {None} /\ received \in 0 .. MaxDeliveries
    BY DEF RowsOK, SessionRow, InHand
  <2> QED
    BY <2>1, <2>2 DEF Job, JobFits
<1> QED
  BY <1>1, <1>2, <1>3, <1>4 DEF Continue

LEMMA AnswerJob == Answer => job' = NoJob /\ pc' = "idle"
  BY DEF Answer, TurnRefused, TurnTimesOut, TurnDone, TurnFailed,
     TurnNeedsHuman, Settle, Leave, Back

-----------------------------------------------------------------------------
(* Clocks, holds and attempts.                                             *)

LEMMA Reset ==
    ASSUME NEW N \in Nat, NEW f \in [Deliveries -> 0 .. N], NEW d
    PROVE  [f EXCEPT ![d] = 0] \in [Deliveries -> 0 .. N]
<1>1. 0 \in 0 .. N
  OBVIOUS
<1> QED
  BY <1>1

LEMMA Charge ==
    ASSUME NEW N \in Nat, NEW f \in [Deliveries -> 0 .. N],
           NEW d \in Deliveries, f[d] + 1 < N
    PROVE  [f EXCEPT ![d] = @ + 1] \in [Deliveries -> 0 .. N]
<1>1. f[d] + 1 \in 0 .. N
  OBVIOUS
<1> QED
  BY <1>1

LEMMA AttemptTypes ==
    ASSUME MemoryOK, NEW d
    PROVE  /\ [tries EXCEPT ![d] = 0] \in [Deliveries -> 0 .. DispatchMax]
           /\ [authTries EXCEPT ![d] = 0] \in [Deliveries -> 0 .. AuthMax]
           /\ [parked EXCEPT ![d] = TRUE] \in [Deliveries -> BOOLEAN]
           /\ d \in Deliveries /\ tries[d] + 1 < DispatchMax =>
                [tries EXCEPT ![d] = @ + 1] \in [Deliveries -> 0 .. DispatchMax]
           /\ d \in Deliveries /\ authTries[d] + 1 < AuthMax =>
                [authTries EXCEPT ![d] = @ + 1] \in [Deliveries -> 0 .. AuthMax]
<1>1. DispatchMax \in Nat /\ AuthMax \in Nat
  BY BoundsAssumption
<1>2. /\ [tries EXCEPT ![d] = 0] \in [Deliveries -> 0 .. DispatchMax]
      /\ [authTries EXCEPT ![d] = 0] \in [Deliveries -> 0 .. AuthMax]
  BY <1>1, Reset DEF MemoryOK
<1>3. [parked EXCEPT ![d] = TRUE] \in [Deliveries -> BOOLEAN]
  BY DEF MemoryOK
<1>4. d \in Deliveries /\ tries[d] + 1 < DispatchMax =>
        [tries EXCEPT ![d] = @ + 1] \in [Deliveries -> 0 .. DispatchMax]
  BY <1>1, Charge DEF MemoryOK
<1>5. d \in Deliveries /\ authTries[d] + 1 < AuthMax =>
        [authTries EXCEPT ![d] = @ + 1] \in [Deliveries -> 0 .. AuthMax]
  BY <1>1, Charge DEF MemoryOK
<1> QED
  BY <1>2, <1>3, <1>4, <1>5

LEMMA PickMemory ==
    ASSUME MemoryOK, took \in [Deliveries -> BOOLEAN], NEW d \in Deliveries, Pick(d)
    PROVE  MemoryOK' /\ took' = took
<1> USE DEF MemoryOK, memory, trace
<1>1. CASE \/ DropSessionless(d) \/ CreateSession(d) \/ IgnorePart(d) \/ LiftHold(d)
           \/ BudgetBreach(d) \/ DropUntrackedMerge(d) \/ FeatureMergedElsewhere(d)
           \/ ReadsReviews(d) \/ \E k \in Kinds : IgnoreReply(d, k)
  <2>1. CASE DropSessionless(d) \/ CreateSession(d) \/ IgnorePart(d) \/ LiftHold(d)
    BY <2>1 DEF DropSessionless, CreateSession, IgnorePart, LiftHold
  <2>2. CASE BudgetBreach(d) \/ DropUntrackedMerge(d) \/ FeatureMergedElsewhere(d)
    BY <2>2 DEF BudgetBreach, DropUntrackedMerge, FeatureMergedElsewhere
  <2>3. CASE ReadsReviews(d) \/ \E k \in Kinds : IgnoreReply(d, k)
    BY <2>3 DEF ReadsReviews, IgnoreReply
  <2> QED
    BY <1>1, <2>1, <2>2, <2>3
<1>2. CASE Superseded(d) \/ VerifyLater(d) \/ VerifyFails(d)
  <2>1. CASE Superseded(d)
    BY <2>1, AttemptTypes DEF Superseded
  <2>2. CASE VerifyLater(d)
    BY <2>2, AttemptTypes DEF VerifyLater
  <2>3. CASE VerifyFails(d)
    BY <2>3, AttemptTypes DEF VerifyFails
  <2> QED
    BY <1>2, <2>1, <2>2, <2>3
<1>3. CASE \E k \in Kinds : Defer(d, k)
  <2>1. /\ parked' \in {parked, [parked EXCEPT ![d] = TRUE]}
        /\ authTries' = [authTries EXCEPT ![d] = 0]
        /\ hold' = hold /\ tries' = tries /\ took' = took
    BY <1>3 DEF Defer, ForgetTries
  <2>2. authTries' \in [Deliveries -> 0 .. AuthMax] /\ parked' \in [Deliveries -> BOOLEAN]
    BY <2>1, AttemptTypes
  <2>3. \A e \in Deliveries : authTries'[e] = 0 \/ authTries'[e] = authTries[e]
    BY <2>1
  <2> QED
    BY <2>1, <2>2, <2>3
<1>4. CASE \E k \in Kinds : BeginResume(d, k)
  BY <1>4 DEF BeginResume
<1>5. CASE \E k \in Kinds : Admit(d, k)
  BY <1>5, AttemptTypes DEF Admit, ForgetTries
<1> QED
  BY <1>1, <1>2, <1>3, <1>4, <1>5 DEF Pick

LEMMA ContinueMemory ==
    ASSUME MemoryOK, took \in [Deliveries -> BOOLEAN], InHand, Continue
    PROVE  MemoryOK' /\ took' \in [Deliveries -> BOOLEAN]
<1> USE DEF MemoryOK, memory, trace
<1>1. CASE \/ FinishCreate \/ SkipSpentHead \/ GateNoTurn \/ SkipHeld \/ DropTurn
           \/ ObserveRound \/ ToDispatch \/ Unpause \/ EnsureOnResume \/ StartTurn
  BY <1>1 DEF FinishCreate, SkipSpentHead, GateNoTurn, SkipHeld, DropTurn,
     ObserveRound, ToDispatch, Unpause, EnsureOnResume, StartTurn
<1>2. CASE Record \/ StampHead
  <2>1. UNCHANGED <<parked, hold, tries, authTries>>
    BY <1>2 DEF Record, StampHead
  <2>2. CASE Record
    <3> DEFINE b == took[job.d] \/ Transition(job.state, job.kind) # job.state
    <3>1. took' = [took EXCEPT ![job.d] = b]
      BY <2>2 DEF Record
    <3>2. job.d \in Deliveries => b \in BOOLEAN
      OBVIOUS
    <3> QED
      BY <2>1, <3>1, <3>2
  <2>3. CASE StampHead
    BY <2>1, <2>3 DEF StampHead
  <2> QED
    BY <1>2, <2>2, <2>3
<1>3. CASE AwaitRole
  BY <1>3, AttemptTypes DEF AwaitRole
<1>4. CASE RoleBusy
  BY <1>4, AttemptTypes DEF RoleBusy
<1>5. CASE NoRunner
  <2>1. job.d \in Deliveries
    BY <1>5 DEF NoRunner, InHand
  <2> QED
    BY <1>5, <2>1, AttemptTypes DEF NoRunner, RetryOrGiveUp
<1> QED
  BY <1>1, <1>2, <1>3, <1>4, <1>5 DEF Continue

LEMMA AnswerMemory ==
    ASSUME MemoryOK, Answer
    PROVE  MemoryOK' /\ took' = took
<1>1. [hold EXCEPT ![job.role] = TRUE] \in [Roles -> BOOLEAN]
  BY DEF MemoryOK
<1>2. [tries EXCEPT ![job.d] = 0] \in [Deliveries -> 0 .. DispatchMax]
  BY AttemptTypes
<1>3. /\ tries' = [tries EXCEPT ![job.d] = 0]
      /\ hold' \in {hold, [hold EXCEPT ![job.role] = TRUE]}
      /\ UNCHANGED <<parked, authTries, took>>
  BY DEF Answer, TurnRefused, TurnTimesOut, TurnDone, TurnFailed,
     TurnNeedsHuman, Answered
<1> QED
  BY <1>1, <1>2, <1>3 DEF MemoryOK

-----------------------------------------------------------------------------
(* GitHub and the wire.                                                    *)

\* Everything GitHub sends is an event of the right shape.
LEMMA GitHubTypes ==
    ASSUME QueueOK, RowsOK, GitHub
    PROVE  gh' \in Forge /\ wire' \subseteq Event
<1> DEFINE Sent == \E e \in Event : wire' = wire \cup {e}
<1>1. \A k \in RawKinds \ OnIssue, r \in Senders, p \in PRs, h \in Heads, b \in BOOLEAN :
        /\ Webhook(k, r, p, h) \in Event
        /\ [Webhook(k, r, p, h) EXCEPT !.synth = TRUE] \in Event
  BY ChoicesAssumption DEF Webhook, Event, OnIssue
<1>2. \A k \in OnIssue, r \in Senders :
        (k = "owner_reply" => r = "owner") => Webhook(k, r, None, 0) \in Event
  BY BoundsAssumption DEF Webhook, Event, OnIssue, RawKinds, Heads
<1>3. \A p : Author(p) \in Senders /\ Other(Author(p)) \in Senders
  BY DEF Author, Other, Senders, Roles
<1>4. /\ Opened \cup Revised \cup Unverified \cup Changes \cup Merged
            \subseteq RawKinds \ OnIssue
      /\ {"review_part", "pr_comment"} \subseteq RawKinds \ OnIssue
  BY DEF Opened, Revised, Unverified, Changes, Merged, RawKinds, OnIssue
<1>5. 0 \in Heads /\ 1 \in Heads
  BY BoundsAssumption DEF Heads
<1>6. \A p \in PRs : gh[p].head \in Heads
  BY DEF QueueOK, Forge
<1>7. CASE \E p \in PRs : OpenPR(p) \/ Push(p) \/ MergePR(p) \/ Resync(p)
  <2> PICK p \in PRs : OpenPR(p) \/ Push(p) \/ MergePR(p) \/ Resync(p)
    BY <1>7
  <2>1. gh' \in Forge
    <3>1. gh[p].head + 1 \in Heads \/ ~Push(p)
      BY <1>6, BoundsAssumption DEF Push, Heads
    <3> QED
      BY <1>5, <1>6, <3>1
         DEF OpenPR, Push, MergePR, Resync, QueueOK, Forge
  <2>2. Sent
    <3>1. CASE OpenPR(p)
      BY <1>1, <1>3, <1>4, <1>5, <3>1 DEF OpenPR, Send, Opened
    <3>2. CASE Push(p)
      <4>1. gh[p].head + 1 \in Heads
        BY <1>6, <3>2, BoundsAssumption DEF Push, Heads
      <4> QED
        BY <1>1, <1>3, <1>4, <3>2, <4>1 DEF Push, Send, Revised
    <3>3. CASE MergePR(p)
      BY <1>1, <1>3, <1>4, <1>6, <3>3 DEF MergePR, Send, Merged
    <3>4. CASE Resync(p)
      BY <1>1, <1>3, <1>4, <1>6, <3>4 DEF Resync, Send, Revised
    <3> QED
      BY <3>1, <3>2, <3>3, <3>4
  <2> QED
    BY <2>1, <2>2 DEF QueueOK
<1>8. CASE \E p \in PRs : Review(p, "approved") \/ Review(p, "changes")
  <2> PICK p \in PRs, v \in {"approved", "changes"} : Review(p, v)
    BY <1>8
  <2>1. gh' \in Forge
    <3> DEFINE word == [said |-> v, at |-> gh[p].head]
               shown == IF gh[p].full THEN gh[p].shown ELSE word
    <3>1. gh' = [gh EXCEPT ![p].shown = shown]
      BY DEF Review
    <3>2. word \in Verdict /\ gh[p].shown \in Verdict
      BY <1>6 DEF Verdict, QueueOK, Forge
    <3>3. shown \in Verdict
      BY <3>2
    <3> HIDE DEF word, shown
    <3> DEFINE new == [gh[p] EXCEPT !.shown = shown]
    <3>4. new \in [phase : {None, "open", "merged", "closed"}, head : Heads,
                   shown : Verdict, full : BOOLEAN]
      BY <3>2, <3>3 DEF QueueOK, Forge
    <3>5. gh' = [gh EXCEPT ![p] = new]
      BY <3>1 DEF QueueOK, Forge
    <3> HIDE DEF new
    <3> QED
      BY <3>4, <3>5 DEF QueueOK, Forge
  <2>2. PICK k \in Unverified \cup Changes :
            Send(Webhook(k, Other(Author(p)), p, gh[p].head))
    BY DEF Review, Unverified, Changes, PRs
  <2>3. Sent
    BY <1>1, <1>3, <1>4, <1>6, <2>2 DEF Send
  <2> QED
    BY <2>1, <2>3 DEF QueueOK
<1>9. CASE Talk
  <2>1. Commenters \subseteq Senders
    BY ChoicesAssumption
  <2>2. Sent
    BY <1>1, <1>2, <1>4, <1>5, <1>9, <2>1 DEF Talk, Send, OnIssue
  <2> QED
    BY <1>9, <2>2 DEF Talk, QueueOK
<1>10. CASE \E p \in PRs : Crowd(p)
  BY <1>10 DEF Crowd, QueueOK, Forge
<1> QED
  BY <1>7, <1>8, <1>9, <1>10 DEF GitHub

-----------------------------------------------------------------------------

LEMMA TypeInit == Init => TypeOK /\ JobFits
<1> SUFFICES ASSUME Init PROVE TypeOK /\ JobFits
  OBVIOUS
<1>1. sess \in SessionRow /\ gh \in Forge
  BY ChoicesAssumption DEF Init
<1>2. NoEvent \in Event
  BY BoundsAssumption DEF NoEvent, Event, OnIssue, RawKinds, Senders, Heads
<1>3. QueueOK
  BY <1>1, <1>2, BoundsAssumption DEF Init, QueueOK
<1>4. RowsOK
  BY <1>1 DEF Init, RowsOK, Counters
<1>5. DrainOK
  BY NoJobType DEF Init, DrainOK
<1>6. MemoryOK
  BY BoundsAssumption DEF Init, MemoryOK
<1>7. TraceOK
  BY BoundsAssumption DEF Init, TraceOK
<1> QED
  BY <1>3, <1>4, <1>5, <1>6, <1>7 DEF Init, TypeOK, JobFits

LEMMA TypeStep ==
    ASSUME TypeOK, JobFits, InHand, InHand', [Next]_vars
    PROVE  TypeOK' /\ JobFits'
<1> USE DEF TypeOK
<1>1. CASE Drain
  <2>1. UNCHANGED <<gh, wire, received, event, crashes>>
    BY <1>1 DEF Drain, queue
  <2>2. took' \in [Deliveries -> BOOLEAN] => QueueOK' /\ TraceOK'
    BY <2>1 DEF QueueOK, TraceOK, InHand, Statuses
  <2>3. batch' \subseteq Deliveries /\ pc' \in Places
    BY DEF InHand
  <2>4. CASE \E d \in Deliveries : Pick(d)
    BY <2>1, <2>2, <2>3, <2>4, PickRows, PickJob, PickMemory
       DEF DrainOK, Places, TraceOK
  <2>5. CASE Continue
    BY <2>1, <2>2, <2>3, <2>5, ContinueRows, ContinueJob, ContinueMemory
       DEF DrainOK, Places, TraceOK
  <2>6. CASE Answer
    BY <2>1, <2>2, <2>3, <2>6, AnswerRows, AnswerJob, AnswerMemory, NoJobType
       DEF DrainOK, Places, TraceOK, JobFits
  <2> QED
    BY <1>1, <2>4, <2>5, <2>6 DEF Drain
<1>2. CASE GitHub
  <2>1. UNCHANGED <<received, event, status, parked, rows, batch, pc, job,
                    memory, trace, crashes>>
    BY <1>2 DEF GitHub
  <2> QED
    BY <1>2, <2>1, GitHubTypes DEF QueueOK, RowsOK, DrainOK, MemoryOK,
       TraceOK, JobFits, rows, memory, trace
<1>3. CASE Arrive
  <2>1. event' \in [Deliveries -> Event] /\ wire' \subseteq Event /\ gh' = gh
    BY <1>3 DEF Arrive, QueueOK
  <2>2. QueueOK'
    BY <2>1 DEF QueueOK, InHand, Statuses
  <2>3. UNCHANGED <<parked, sess, count, esc, block, batch, pc, job, hold,
                    tries, authTries, turnsFor, took, crashes>>
    BY <1>3 DEF Arrive, rows, memory, trace
  <2>4. pc \in {"record", "gate"} => event'[job.d] = event[job.d]
    <3>1. event' = [event EXCEPT ![received + 1] = event'[received + 1]]
          \/ \E e : event' = [event EXCEPT ![received + 1] = e]
      BY <1>3 DEF Arrive
    <3>2. pc \in {"record", "gate"} => job.d \in Deliveries /\ job.d <= received
      BY BoundsAssumption DEF InHand, Deliveries
    <3>3. pc \in {"record", "gate"} => job.d # received + 1
      BY <3>2, BoundsAssumption DEF InHand, Deliveries
    <3> QED
      BY <3>1, <3>2, <3>3 DEF QueueOK
  <2> QED
    BY <2>2, <2>3, <2>4 DEF RowsOK, DrainOK, MemoryOK, TraceOK, JobFits
<1>4. CASE Sibling \/ StartPass \/ Clocks \/ UNCHANGED vars
  <2>1. /\ UNCHANGED <<gh, wire, received, event, status, sess, count, esc, pc,
                       job, turnsFor, took, crashes, tries, authTries>>
        /\ block' \in BOOLEAN
    BY <1>4 DEF Sibling, StartPass, Clocks, ClockElapses, HoldExpires, vars,
       queue, rows, memory, trace, RowsOK
  <2>2. parked' \in [Deliveries -> BOOLEAN] /\ hold' \in [Roles -> BOOLEAN]
    BY <1>4 DEF Sibling, StartPass, Clocks, ClockElapses, HoldExpires, vars,
       memory, MemoryOK
  <2> QED
    BY <2>1, <2>2 DEF QueueOK, RowsOK, DrainOK, MemoryOK, TraceOK, InHand, JobFits
<1>5. CASE Crash
  <2>1. /\ UNCHANGED <<gh, wire, received, event, status, sess, count, esc, block,
                       turnsFor, took>>
        /\ batch' = {} /\ pc' = "idle" /\ job' = NoJob
        /\ hold' = [r \in Roles |-> FALSE]
        /\ tries' = [d \in Deliveries |-> 0]
        /\ authTries' = [d \in Deliveries |-> 0]
        /\ parked' = [d \in Deliveries |-> FALSE]
    BY <1>5 DEF Crash, queue, rows, trace
  <2>2. MemoryOK'
    BY <2>1, BoundsAssumption DEF MemoryOK
  <2>3. crashes' \in 0 .. MaxCrashes
    BY <1>5, BoundsAssumption DEF Crash, TraceOK
  <2> QED
    BY <2>1, <2>2, <2>3, NoJobType
       DEF QueueOK, RowsOK, DrainOK, TraceOK, JobFits
<1> QED
  BY <1>1, <1>2, <1>3, <1>4, <1>5 DEF Next

\* Every variable keeps its type, for every value of the constants.
THEOREM TypeCorrect == Spec => []TypeOK
<1>1. Init => TypeOK /\ JobFits
  BY TypeInit
<1>2. TypeOK /\ JobFits /\ InHand /\ InHand' /\ [Next]_vars => (TypeOK /\ JobFits)'
  BY TypeStep
<1> QED
  BY <1>1, <1>2, DrainHoldsDeferred, PTL DEF Spec

=============================================================================
