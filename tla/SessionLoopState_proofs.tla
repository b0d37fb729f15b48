---------------------- MODULE SessionLoopState_proofs -----------------------
(***************************************************************************)
(* The row of the session: who ends a pause, and for whom an agent works   *)
(* during one; what a pause remembers; that no issue is put aside without  *)
(* a row; and that the row is right about what has landed.  Then the turns *)
(* there can be: what pays for one, and that nothing is given out twice.   *)
(***************************************************************************)
EXTENDS SessionLoop_proofs

\* What the drain knows at each stage about the session it works for.
Fresh ==
    pc \in {"record", "gate", "stamped"} =>
        /\ ~job.resumed
        /\ job.state = sess.state
        /\ job.held = IsHeld
        /\ IsPaused /\ ~job.drop => event[job.d].sender = "owner"
        /\ pc = "record" /\ job.kind = "owner_reply" => ~IsPaused
        /\ pc = "stamped" => sess.state \notin TerminalStates

Answering ==
    pc = "unpause" =>
        /\ job.resumed /\ event[job.d].kind = "owner_reply"
        /\ ~IsHeld /\ esc = None

Working ==
    pc \in {"ensure", "dispatch", "turn"} =>
        /\ ~IsHeld
        /\ IsPaused => event[job.d].sender = "owner"
        /\ ~job.resumed => sess.state \notin TerminalStates
        /\ pc = "ensure" => job.resumed

Asked == /\ Fresh /\ Answering /\ Working
         /\ pc = "created" => sess.state = "INTAKE"

LEMMA AskedInit == Init => Asked
  BY DEF Init, Asked, Fresh, Answering, Working

\* No kind moves a paused session, and none pauses one.
LEMMA TransitionKeepsPause ==
    ASSUME NEW s, NEW k \in Kinds, k # "owner_reply"
    PROVE  (Transition(s, k) = "PAUSED_HUMAN") <=> (s = "PAUSED_HUMAN")
<1>1. k \notin {"escalation", "issues_closed"}
  BY DEF Kinds, RawKinds, Opened, Revised, Unverified, Changes, Merged
<1> QED
  BY <1>1 DEF Transition, Table

LEMMA OwnerReplyMovesNothing ==
    ASSUME NEW s, s # "PAUSED_HUMAN"
    PROVE  Transition(s, "owner_reply") = s
  BY DEF Transition, Table

LEMMA PickAsked ==
    ASSUME TypeOK, NEW d \in Deliveries, Pick(d), event' = event
    PROVE  /\ Asked'
           /\ sess.state = "PAUSED_HUMAN" => sess'.state = "PAUSED_HUMAN"
<1> USE DEF Asked, Fresh, Answering, Working
<1>1. CASE \/ DropSessionless(d) \/ IgnorePart(d) \/ Superseded(d)
           \/ DropUntrackedMerge(d)
           \/ \E k \in Kinds : Defer(d, k) \/ IgnoreReply(d, k)
  BY <1>1 DEF DropSessionless, IgnorePart, Superseded, DropUntrackedMerge,
     Defer, IgnoreReply, Settle, Leave, Back, rows
<1>7. CASE ReadsReviews(d)
  BY <1>7 DEF ReadsReviews, Within, Cue, Known, AtFront, rows
<1>2. CASE CreateSession(d)
  BY <1>2 DEF CreateSession, RefuseStructurally, PauseRow, Settle, Leave, Back,
     AtFront, TypeOK, RowsOK, SessionRow, None
<1>3. CASE LiftHold(d)
  BY <1>3 DEF LiftHold, Settle, Back, TypeOK, RowsOK, SessionRow
<1>4. CASE \/ BudgetBreach(d) \/ VerifyLater(d) \/ VerifyFails(d)
           \/ FeatureMergedElsewhere(d)
  BY <1>4 DEF BudgetBreach, VerifyLater, VerifyFails, FeatureMergedElsewhere,
     Settle, Leave, Back, Escalate, PauseRow, TypeOK, RowsOK, SessionRow
<1>5. ASSUME NEW k \in Kinds, BeginResume(d, k)
      PROVE  Asked' /\ sess' = sess
  <2>1. Routable(d, k) /\ Replies(k) /\ ~IsHeld /\ sess' = sess /\ esc' = None
        /\ pc' = "unpause"
    BY <1>5 DEF BeginResume
  <2>2. event[d].kind = "owner_reply"
    BY <2>1 DEF Replies, Routable, Kind
  <2>3. job'.d = d /\ job'.resumed = TRUE
    BY <1>5 DEF BeginResume, JobFor
  <2> QED
    BY <2>1, <2>2, <2>3 DEF IsHeld
<1>6. ASSUME NEW k \in Kinds, Admit(d, k)
      PROVE  Asked' /\ sess' = sess
  <2> DEFINE r == Recipient(k, event[d].sender)
  <2>1. /\ ~Replies(k) /\ ~Defers(event[d], r) /\ job' = JobFor(d, k, r)
        /\ sess' = sess /\ pc' = "record"
    BY <1>6 DEF Admit
  <2>2. /\ job'.d = d /\ job'.kind = k /\ job'.drop = Drops(event[d], r)
        /\ job'.state = sess.state /\ job'.held = IsHeld /\ job'.resumed = FALSE
    BY <2>1 DEF JobFor
  <2>3. IsPaused /\ ~Drops(event[d], r) => event[d].sender = "owner"
    BY <2>1 DEF Defers, Drops
  <2> HIDE DEF r
  <2> QED
    BY <2>1, <2>2, <2>3 DEF Replies, IsPaused, IsHeld
<1> QED
  BY <1>1, <1>2, <1>3, <1>4, <1>5, <1>6, <1>7 DEF Pick

\* What the step of Record does to the row and to the drain's copy of it.
LEMMA RecordAsked ==
    ASSUME TypeOK, Asked, Record, event' = event
    PROVE  /\ Asked'
           /\ sess.state = "PAUSED_HUMAN" => sess'.state = "PAUSED_HUMAN"
<1> DEFINE to == Transition(job.state, job.kind)
<1>1. /\ pc = "record" /\ pc' = "gate"
      /\ job.state = sess.state /\ job' = [job EXCEPT !.state = to]
      /\ ~job.resumed /\ job.held = IsHeld
      /\ IsPaused /\ ~job.drop => event[job.d].sender = "owner"
      /\ job.kind = "owner_reply" => ~IsPaused
  BY DEF Record, Asked, Fresh
<1>2. sess'.state = to /\ sess'.paused = sess.paused
  BY <1>1 DEF Record, TypeOK, RowsOK, SessionRow
<1>3. job \in Job /\ job.kind \in Kinds
  BY DEF TypeOK, DrainOK, Job
<1>4. to = "PAUSED_HUMAN" <=> sess.state = "PAUSED_HUMAN"
  <2>1. CASE job.kind = "owner_reply"
    BY <1>1, <2>1, OwnerReplyMovesNothing DEF IsPaused
  <2>2. CASE job.kind # "owner_reply"
    BY <1>1, <1>3, <2>2, TransitionKeepsPause
  <2> QED
    BY <2>1, <2>2
<1>5. /\ job'.state = to /\ job'.d = job.d /\ job'.resumed = job.resumed
      /\ job'.held = job.held /\ job'.drop = job.drop /\ job'.kind = job.kind
  BY <1>1, <1>3 DEF Job
<1> HIDE DEF to
<1> QED
  BY <1>1, <1>2, <1>4, <1>5
     DEF Asked, Fresh, Answering, Working, IsPaused, IsHeld

\* Only the step of Unpause ends a pause.
LEMMA ContinueAsked ==
    ASSUME TypeOK, Asked, Continue, event' = event
    PROVE  /\ Asked'
           /\ sess.state = "PAUSED_HUMAN" /\ pc # "unpause"
                => sess'.state = "PAUSED_HUMAN"
<1> USE DEF Asked, Fresh, Answering, Working
<1> sess \in SessionRow
  BY DEF TypeOK, RowsOK
<1>1. CASE \/ SkipSpentHead \/ GateNoTurn \/ SkipHeld \/ AwaitRole \/ DropTurn
           \/ RoleBusy
  BY <1>1 DEF SkipSpentHead, GateNoTurn, SkipHeld, AwaitRole, DropTurn, RoleBusy,
     Settle, Leave, Back, rows
<1>2. CASE FinishCreate
  BY <1>2 DEF FinishCreate
<1>3. CASE Record
  BY <1>3, RecordAsked
<1>4. CASE StampHead
  <2>1. /\ sess'.state = sess.state /\ sess'.paused = sess.paused
        /\ pc = "gate" /\ pc' = "stamped" /\ job' = job
        /\ job.state \notin TerminalStates
    BY <1>4 DEF StampHead, SessionRow
  <2> QED
    BY <2>1 DEF IsPaused, IsHeld
<1>5. CASE ObserveRound
  <2>1. CASE sess' = sess /\ job' = job
    BY <1>5, <2>1 DEF ObserveRound, Passes, Observes, Settle, Back, IsHeld, IsPaused
  <2>2. CASE Escalate("system") /\ pc' = "idle"
    BY <1>5, <2>2 DEF Escalate, PauseRow, SessionRow
  <2> QED
    BY <1>5, <2>1, <2>2 DEF ObserveRound, Settle, Back
<1>6. CASE ToDispatch
  BY <1>6 DEF ToDispatch, Passes, rows, IsHeld, IsPaused
<1>7. CASE Unpause
  <2>1. /\ pc = "unpause" /\ pc' \in {"dispatch", "ensure"} /\ job' = job
        /\ sess'.state # "PAUSED_HUMAN" /\ sess'.paused = None
    BY <1>7 DEF Unpause, SessionRow
  <2> QED
    BY <2>1 DEF IsHeld, IsPaused
<1>8. CASE EnsureOnResume
  <2>1. CASE pc' = "dispatch"
    <3>1. /\ sess'.state = sess.state /\ sess'.paused = sess.paused
          /\ pc = "ensure" /\ job' = job
      BY <1>8, <2>1 DEF EnsureOnResume, RefuseStructurally, Settle, Leave, Back,
         SessionRow
    <3> QED
      BY <2>1, <3>1 DEF IsHeld, IsPaused
  <2>2. CASE pc' = "idle"
    BY <1>8, <2>2 DEF EnsureOnResume, RefuseStructurally, PauseRow, SessionRow
  <2> QED
    BY <1>8, <2>1, <2>2 DEF EnsureOnResume, RefuseStructurally, Settle, Leave, Back
<1>9. CASE NoRunner
  BY <1>9 DEF NoRunner, RetryOrGiveUp, RefuseStructurally, Escalate, PauseRow,
     Settle, Leave, Back, SessionRow
<1>10. CASE StartTurn
  <2>1. /\ pc = "dispatch" /\ pc' = "turn" /\ sess' = sess
        /\ job'.d = job.d /\ job'.resumed = job.resumed
    BY <1>10 DEF StartTurn, rows, TypeOK, DrainOK, Job
  <2> QED
    BY <2>1 DEF IsHeld, IsPaused
<1> QED
  BY <1>1, <1>2, <1>3, <1>4, <1>5, <1>6, <1>7, <1>8, <1>9, <1>10 DEF Continue

LEMMA AnswerAsked ==
    ASSUME TypeOK, Answer
    PROVE  /\ Asked'
           /\ sess.state = "PAUSED_HUMAN" => sess'.state = "PAUSED_HUMAN"
<1>1. pc' = "idle"
  BY AnswerJob
<1>2. UNCHANGED sess \/ \E role \in Roles \cup {"system"} : Escalate(role)
  <2> job.role \in Roles
    BY DEF TypeOK, DrainOK, Job
  <2> QED
    BY DEF Answer, TurnRefused, TurnTimesOut, TurnDone, TurnFailed,
       TurnNeedsHuman, rows
<1> QED
  BY <1>1, <1>2 DEF Asked, Fresh, Answering, Working, Escalate, PauseRow, TypeOK,
     RowsOK, SessionRow

\* Nothing outside the drain touches the delivery it has in hand: one that
\* arrives is another.
LEMMA OutsideKeepsCue ==
    ASSUME TypeOK, InHand,
           GitHub \/ Sibling \/ StartPass \/ Clocks \/ Arrive \/ UNCHANGED vars
    PROVE  pc \notin {"idle", "created"} => event'[job.d] = event[job.d]
<1>1. CASE Arrive
  <2>1. PICK e \in wire : event' = [event EXCEPT ![received + 1] = e]
    BY <1>1 DEF Arrive
  <2>2. pc \notin {"idle", "created"} => job.d \in Deliveries /\ job.d # received + 1
    BY BoundsAssumption DEF InHand, Deliveries
  <2> QED
    BY <2>1, <2>2 DEF TypeOK, QueueOK
<1>2. CASE ~Arrive
  BY <1>2 DEF GitHub, Sibling, StartPass, Clocks, ClockElapses, HoldExpires,
     vars, queue
<1> QED
  BY <1>1, <1>2

LEMMA OutsideAsked ==
    ASSUME TypeOK, InHand, Asked,
           GitHub \/ Sibling \/ StartPass \/ Clocks \/ Arrive \/ UNCHANGED vars
    PROVE  Asked' /\ sess' = sess
<1>1. UNCHANGED <<sess, esc, pc, job>>
  BY DEF GitHub, Sibling, StartPass, Clocks, ClockElapses, HoldExpires, Arrive,
     vars, rows
<1> QED
  BY <1>1, OutsideKeepsCue DEF Asked, Fresh, Answering, Working, IsPaused, IsHeld

LEMMA CrashAsked == ASSUME Crash PROVE Asked' /\ sess' = sess
  BY DEF Crash, Asked, Fresh, Answering, Working, rows

LEMMA AskedStep ==
    ASSUME TypeOK, InHand, Asked, [Next]_vars
    PROVE  /\ Asked'
           /\ sess.state = "PAUSED_HUMAN" /\ sess'.state # "PAUSED_HUMAN"
                => pc = "unpause"
<1>1. CASE Drain
  <2>1. event' = event
    BY <1>1 DEF Drain, queue
  <2> QED
    BY <1>1, <2>1, PickAsked, ContinueAsked, AnswerAsked DEF Drain
<1>2. CASE GitHub \/ Sibling \/ StartPass \/ Clocks \/ Arrive \/ UNCHANGED vars
  BY <1>2, OutsideAsked
<1>3. CASE Crash
  BY <1>3, CrashAsked
<1> QED
  BY <1>1, <1>2, <1>3 DEF Next

LEMMA AskedAlways == Spec => []Asked
<1>1. TypeOK /\ InHand /\ Bounded /\ Asked /\ [Next]_vars => Asked'
  BY AskedStep
<1> QED
  BY <1>1, AskedInit, TypeCorrect, DrainHoldsDeferred, PTL DEF Spec

\* However webhooks are reordered and wherever the gateway is killed, an
\* agent works on a paused session only for its owner, and never on a held one.
THEOREM AgentsWorkWhenAsked == Spec => []TurnsAreAskedFor
<1>1. Asked => TurnsAreAskedFor
  BY DEF Asked, Working, TurnsAreAskedFor
<1> QED
  BY <1>1, AskedAlways, PTL

\* A pause ends with the owner's comment on the issue and with nothing else.
THEOREM PauseEndsByOwner == Spec => OwnerEndsPause
<1> DEFINE Ends == sess.state = "PAUSED_HUMAN" /\ sess'.state # "PAUSED_HUMAN"
                   => /\ event[job.d].kind = "owner_reply"
                      /\ status[job.d] = "deferred"
                      /\ esc = None /\ sess.paused # "hold"
<1>1. TypeOK /\ InHand /\ Bounded /\ Asked /\ [Next]_vars => [Ends]_vars
  <2> SUFFICES ASSUME TypeOK, InHand, Bounded, Asked, [Next]_vars,
                      sess.state = "PAUSED_HUMAN", sess'.state # "PAUSED_HUMAN"
               PROVE  /\ event[job.d].kind = "owner_reply"
                      /\ status[job.d] = "deferred"
                      /\ esc = None /\ sess.paused # "hold"
    OBVIOUS
  <2>1. pc = "unpause"
    BY AskedStep
  <2> QED
    BY <2>1 DEF Asked, Answering, InHand, IsHeld
<1> QED
  BY <1>1, AskedAlways, TypeCorrect, DrainHoldsDeferred, PTL
     DEF Spec, OwnerEndsPause

-----------------------------------------------------------------------------
(* What the row remembers.                                                 *)

\* The reviews in hand were read of a live head that no push has taken back,
\* and nobody reviews a head before it is pushed.
ReadBefore ==
    /\ \A p \in PRs : /\ gh[p].phase = None => gh[p].head = 0
                      /\ gh[p].shown.at <= gh[p].head
    /\ job.seen.of # 0 =>
            /\ job.seen.of \in Deliveries /\ job.seen.of <= received
            /\ event[job.seen.of].pr \in PRs
            /\ job.seen.shown.at <= job.seen.head
            /\ job.seen.head <= gh[event[job.seen.of].pr].head

LEMMA ForgeNumbers ==
    ASSUME TypeOK
    PROVE  /\ \A p \in PRs : gh[p].head \in Nat /\ gh[p].shown.at \in Nat
           /\ job.seen.head \in Nat /\ job.seen.shown.at \in Nat
<1>1. \A n \in Heads : n \in Nat
  BY BoundsAssumption DEF Heads
<1> QED
  BY <1>1 DEF TypeOK, QueueOK, DrainOK, Forge, Verdict, Job

LEMMA ReadBeforeInit == Init => ReadBefore
<1> SUFFICES ASSUME Init PROVE ReadBefore
  OBVIOUS
<1>1. job.seen.of = 0
  BY DEF Init, NoJob, Unseen
<1> QED
  BY <1>1, ReviewsAssumption DEF Init, ReadBefore

\* Whatever happens on GitHub, heads only grow and reviews are of the past.
LEMMA HeadsOnlyGrow ==
    ASSUME TypeOK, ReadBefore, GitHub
    PROVE  \A p \in PRs : /\ gh[p].head <= gh'[p].head
                          /\ gh'[p].phase = None => gh'[p].head = 0
                          /\ gh'[p].shown.at <= gh'[p].head
<1> DEFINE Grows == \A p \in PRs : /\ gh[p].head <= gh'[p].head
                                   /\ gh'[p].phase = None => gh'[p].head = 0
                                   /\ gh'[p].shown.at <= gh'[p].head
<1>1. gh \in Forge
  BY DEF TypeOK, QueueOK
<1>2. \A p \in PRs : /\ gh[p].head \in Nat /\ gh[p].shown.at \in Nat
                     /\ gh[p].phase = None => gh[p].head = 0
                     /\ gh[p].shown.at <= gh[p].head
  BY ForgeNumbers DEF ReadBefore
<1>3. CASE gh' = gh
  BY <1>2, <1>3
<1>4. ASSUME NEW p \in PRs, OpenPR(p) \/ Push(p) \/ Crowd(p) \/ MergePR(p)
      PROVE  Grows
  BY <1>1, <1>2, <1>4 DEF OpenPR, Push, Crowd, MergePR, Forge, None
<1>5. ASSUME NEW p \in PRs, NEW v, Review(p, v)
      PROVE  Grows
  <2> DEFINE word == [said |-> v, at |-> gh[p].head]
             shown == IF gh[p].full THEN gh[p].shown ELSE word
             new == [gh[p] EXCEPT !.shown = shown]
  <2>1. gh' = [gh EXCEPT ![p] = new]
    BY <1>1, <1>5 DEF Review, Forge
  <2>2. shown.at <= gh[p].head
    BY <1>2
  <2> HIDE DEF shown, word
  <2>3. new.head = gh[p].head /\ new.phase = gh[p].phase /\ new.shown = shown
    BY <1>1 DEF Forge
  <2> HIDE DEF new
  <2> QED
    BY <1>1, <1>2, <2>1, <2>2, <2>3 DEF Forge
<1> QED
  BY <1>3, <1>4, <1>5 DEF GitHub, Resync, Talk

\* The drain keeps what it has read, forgets it, or reads again.
LEMMA DrainReads ==
    ASSUME TypeOK, Drain
    PROVE  \/ job'.seen \in {job.seen, Unseen}
           \/ \E d \in Deliveries : ReadsReviews(d)
<1> job \in Job
  BY DEF TypeOK, DrainOK
<1>1. NoJob.seen = Unseen
  BY DEF NoJob
<1>2. ASSUME NEW d \in Deliveries, Pick(d), ~ReadsReviews(d)
      PROVE  job'.seen \in {job.seen, Unseen}
  <2>1. CASE \E k \in Kinds : BeginResume(d, k) \/ Admit(d, k)
    <3>1. \A k, r : JobFor(d, k, r).seen = Unseen
      BY DEF JobFor
    <3>2. \A k, r : [JobFor(d, k, r) EXCEPT !.resumed = TRUE, !.drop = FALSE].seen = Unseen
      BY DEF JobFor
    <3>3. CASE \E k \in Kinds : BeginResume(d, k)
      BY <3>2, <3>3 DEF BeginResume
    <3>4. CASE \E k \in Kinds : Admit(d, k)
      BY <3>1, <3>4 DEF Admit
    <3> QED
      BY <2>1, <3>3, <3>4
  <2>2. CASE ~\E k \in Kinds : BeginResume(d, k) \/ Admit(d, k)
    <3>1. job' \in {job, NoJob}
      BY <1>2, <2>2 DEF Pick, DropSessionless, CreateSession, IgnorePart, LiftHold,
         BudgetBreach, Superseded, VerifyLater, VerifyFails, DropUntrackedMerge,
         FeatureMergedElsewhere, Defer, IgnoreReply, RefuseStructurally, Settle,
         Leave, Back
    <3> QED
      BY <1>1, <3>1
  <2> QED
    BY <2>1, <2>2
<1>3. CASE Answer
  BY <1>1, <1>3, AnswerJob
<1>4. CASE Continue
  <2>1. CASE Record
    BY <2>1 DEF Record, Job
  <2>2. CASE StartTurn
    BY <2>2 DEF StartTurn, Job
  <2>3. CASE ~Record /\ ~StartTurn
    <3>1. job' \in {job, NoJob}
      BY <1>4, <2>3 DEF Continue, FinishCreate, SkipSpentHead, GateNoTurn, StampHead,
         SkipHeld, AwaitRole, DropTurn, ObserveRound, ToDispatch, Unpause,
         EnsureOnResume, RoleBusy, NoRunner, RetryOrGiveUp, RefuseStructurally,
         Settle, Leave, Back
    <3> QED
      BY <1>1, <3>1
  <2> QED
    BY <2>1, <2>2, <2>3
<1> QED
  BY <1>2, <1>3, <1>4 DEF Drain

LEMMA ReadBeforeStep ==
    ASSUME TypeOK, InHand, Bounded, ReadBefore, [Next]_vars
    PROVE  ReadBefore'
<1> received \in Nat
  BY BoundsAssumption DEF InHand
<1>1. CASE GitHub
  <2>1. UNCHANGED <<received, event, job>>
    BY <1>1 DEF GitHub
  <2>2. \A p \in PRs : gh'[p].head \in Nat \/ gh[p].head = gh'[p].head
    BY <1>1, GitHubTypes, BoundsAssumption DEF TypeOK, Forge, Heads
  <2>3. job.seen.of # 0 => job.seen.head <= gh'[event[job.seen.of].pr].head
    BY <1>1, <2>2, HeadsOnlyGrow, ForgeNumbers DEF ReadBefore
  <2> QED
    BY <1>1, <2>1, <2>3, HeadsOnlyGrow DEF ReadBefore
<1>2. CASE Arrive
  <2>1. /\ UNCHANGED <<gh, job>> /\ received' = received + 1
        /\ \E e : event' = [event EXCEPT ![received + 1] = e]
    BY <1>2 DEF Arrive
  <2>2. \A d \in Deliveries : d <= received => event'[d] = event[d]
    BY <2>1 DEF TypeOK, QueueOK, Deliveries
  <2>3. \A d \in Deliveries : d <= received => d <= received'
    BY <2>1 DEF Deliveries
  <2> QED
    BY <2>1, <2>2, <2>3 DEF ReadBefore
<1>3. CASE Drain
  <2>1. UNCHANGED <<gh, received, event>>
    BY <1>3 DEF Drain, queue
  <2>2. CASE job'.seen \in {job.seen, Unseen}
    BY <2>1, <2>2 DEF ReadBefore, Unseen
  <2>3. ASSUME NEW d \in Deliveries, ReadsReviews(d) PROVE ReadBefore'
    <3> DEFINE pr == gh[event[d].pr]
               seen == [of |-> d, shown |-> pr.shown, head |-> pr.head]
    <3>1. event[d].pr \in PRs
      BY <2>3 DEF ReadsReviews, Kind, Unverified, OnIssue, TypeOK, QueueOK, Event
    <3>2. d <= received
      <4>1. status[d] = "deferred"
        BY <2>3 DEF ReadsReviews, Within, Cue, Known, AtFront, InHand
      <4> QED
        BY <4>1 DEF InHand, Deliveries
    <3>3. job'.seen = seen
      BY <2>3 DEF ReadsReviews, NoJob
    <3>4. pr.shown.at <= pr.head /\ pr.head <= pr.head
      BY <3>1, ForgeNumbers DEF ReadBefore
    <3> QED
      BY <2>1, <3>1, <3>2, <3>3, <3>4 DEF ReadBefore
  <2> QED
    BY <1>3, <2>2, <2>3, DrainReads
<1>4. CASE Sibling \/ StartPass \/ Clocks \/ UNCHANGED vars
  <2>1. UNCHANGED <<gh, received, event, job>>
    BY <1>4 DEF Sibling, StartPass, Clocks, ClockElapses, HoldExpires, vars, queue
  <2> QED
    BY <2>1 DEF ReadBefore
<1>5. CASE Crash
  <2>1. UNCHANGED <<gh, received, event>> /\ job'.seen.of = 0
    BY <1>5 DEF Crash, queue, NoJob, Unseen
  <2> QED
    BY <2>1 DEF ReadBefore
<1> QED
  BY <1>1, <1>2, <1>3, <1>4, <1>5 DEF Next

\* What the drain acts on as an approval was one: the reviewer's word and the
\* live head agreed when the reviews were read, whatever is pushed or said
\* between that read and the next.
THEOREM ApprovalsStood == Spec => ApprovalStood
<1> DEFINE Seen == pc = "idle" /\ pc' = "record"
                   /\ job'.kind \in {"merge_authorized", "design_approved"}
                   => /\ job.seen.of = job'.d /\ job.seen.shown.said = "approved"
                      /\ job.seen.shown.at = job.seen.head
<1>1. TypeOK /\ InHand /\ ReadBefore /\ [Next]_vars => [Seen]_vars
  <2> SUFFICES ASSUME TypeOK, InHand, ReadBefore, [Next]_vars, pc = "idle",
                      pc' = "record",
                      job'.kind \in {"merge_authorized", "design_approved"}
               PROVE  /\ job.seen.of = job'.d /\ job.seen.shown.said = "approved"
                      /\ job.seen.shown.at = job.seen.head
    OBVIOUS
  <2>1. \E d \in Deliveries : Pick(d)
    <3>1. pc' = pc \/ pc' = "idle" \/ Drain
      BY DEF Next, GitHub, Sibling, StartPass, Clocks, ClockElapses,
         HoldExpires, Arrive, Crash, vars
    <3>2. ~Answer /\ ~Continue
      BY DEF Continue, FinishCreate, SkipSpentHead, Record, GateNoTurn, StampHead,
         SkipHeld, AwaitRole, DropTurn, ObserveRound, ToDispatch, Passes, Unpause,
         EnsureOnResume, RoleBusy, NoRunner, StartTurn, Answer, TurnRefused,
         TurnTimesOut, TurnDone, TurnFailed, TurnNeedsHuman
    <3> QED
      BY <3>1, <3>2 DEF Drain
  <2>2. PICK d \in Deliveries, k \in Kinds : Admit(d, k)
    BY <2>1 DEF Pick, DropSessionless, CreateSession, IgnorePart, LiftHold,
       BudgetBreach, ReadsReviews, Superseded, VerifyLater, VerifyFails,
       DropUntrackedMerge, FeatureMergedElsewhere, Defer, IgnoreReply, BeginResume,
       RefuseStructurally, Settle, Leave, Back
  <2>3. job'.d = d /\ job'.kind = k /\ Routable(d, k)
    BY <2>2 DEF Admit, JobFor
  <2>4. Kind(d) \in Unverified
    <3>1. k \notin RawKinds
      BY <2>3 DEF RawKinds, Opened, Revised, Unverified, Changes, Merged
    <3>2. Kind(d) \in RawKinds
      BY DEF TypeOK, QueueOK, Event, Kind, RawKinds
    <3> QED
      BY <2>3, <3>1, <3>2 DEF Routable
  <2>5. job.seen.of = d /\ "ok" \in Checks(d)
    BY <2>3, <2>4 DEF Routable, HasRead
  <2>6. Approval(d) = "ok"
    BY <2>5 DEF Checks
  <2>7. job.seen.shown.said \in {None, "approved", "changes"}
    BY DEF TypeOK, DrainOK, Job, Verdict
  <2>8. job.seen.shown.said = "approved" /\ job.seen.shown.at = gh[event[d].pr].head
    BY <2>6, <2>7 DEF Approval
  <2>9. d # 0
    BY DEF Deliveries
  <2>10. job.seen.shown.at <= job.seen.head /\ job.seen.head <= gh[event[d].pr].head
    BY <2>5, <2>9 DEF ReadBefore
  <2> QED
    BY <2>3, <2>5, <2>8, <2>10, ForgeNumbers
<1>2. Spec => []ReadBefore
  BY ReadBeforeInit, ReadBeforeStep, TypeCorrect, DrainHoldsDeferred, PTL DEF Spec
<1> QED
  BY <1>1, <1>2, TypeCorrect, DrainHoldsDeferred, PTL DEF Spec, ApprovalStood

\* The ways a step of the drain may move the row, Record apart.
Stays    == sess'.state = sess.state /\ sess'.resume = sess.resume
Begins   == sess'.state \in {"INTAKE", "PLANNING"}
Pauses   == /\ sess.state # None /\ sess'.state = "PAUSED_HUMAN"
            /\ sess'.resume = IF sess.state # "PAUSED_HUMAN" THEN sess.state
                              ELSE IF sess.resume = None THEN "PLANNING"
                              ELSE sess.resume
Refuses  == /\ "structural" \in Faults \/ block
            /\ sess'.state = "PAUSED_HUMAN"
            /\ sess'.resume = IF sess.state = None THEN "PLANNING" ELSE sess.state
Unpauses == sess'.state = IF /\ sess.state = "PAUSED_HUMAN"
                             /\ sess.resume \notin {None, "PAUSED_HUMAN"}
                          THEN sess.resume ELSE "PLANNING"

Moves == /\ sess'.pr = sess.pr
         /\ Stays \/ Begins \/ Pauses \/ Refuses \/ Unpauses

\* The drain is in the middle of a delivery only for a session that exists,
\* and what asks for one is settled only then.
Alive ==
    /\ pc # "idle" => sess.state # None
    /\ \A d \in Deliveries : status[d] = "absent" => why[d] = None
    /\ IssuesAreNotLost

LEMMA EscalateMoves ==
    ASSUME TypeOK, sess.state # None, NEW role, Escalate(role)
    PROVE  Moves
  BY DEF TypeOK, RowsOK, SessionRow, Escalate, PauseRow, Moves, Stays, Pauses

LEMMA RefuseMoves ==
    ASSUME TypeOK, "structural" \in Faults \/ block, NEW d, RefuseStructurally(d)
    PROVE  Moves
<1> DEFINE r == IF sess.state = None THEN "PLANNING" ELSE sess.state
           row == [sess EXCEPT !.state = "PAUSED_HUMAN", !.paused = "plain",
                               !.resume = r]
<1>1. sess' \in {row, PauseRow(row, "plain")}
  BY DEF RefuseStructurally
<1>2. row.state = "PAUSED_HUMAN" /\ row.resume = r /\ row.pr = sess.pr
      /\ r # None /\ row \in SessionRow
  BY StatesInclude DEF TypeOK, RowsOK, SessionRow, None
<1> HIDE DEF r, row
<1>3. sess'.state = "PAUSED_HUMAN" /\ sess'.resume = r /\ sess'.pr = sess.pr
  BY <1>1, <1>2 DEF PauseRow, SessionRow
<1> QED
  BY <1>3 DEF Moves, Refuses, r

LEMMA PickMoves ==
    ASSUME TypeOK, NEW d \in Deliveries, Pick(d)
    PROVE  Moves /\ (pc' # "idle" => sess'.state # None)
<1> USE DEF Moves
<1> sess \in SessionRow
  BY DEF TypeOK, RowsOK
<1>1. CASE \/ DropSessionless(d) \/ IgnorePart(d) \/ Superseded(d)
           \/ DropUntrackedMerge(d)
           \/ \E k \in Kinds : Defer(d, k) \/ IgnoreReply(d, k)
  <2>1. sess' = sess /\ pc' = "idle"
    BY <1>1 DEF DropSessionless, IgnorePart, Superseded, DropUntrackedMerge,
       Defer, IgnoreReply, Settle, Leave, Back, rows
  <2> QED
    BY <2>1 DEF Stays
<1>6. CASE ReadsReviews(d)
  BY <1>6 DEF ReadsReviews, Within, Cue, Known, AtFront, rows, Stays
<1>2. CASE CreateSession(d)
  <2>1. \/ /\ "structural" \in Faults \/ block
           /\ RefuseStructurally(d) /\ pc' = "idle"
        \/ sess' = sess /\ pc' = "idle"
        \/ sess' \in {[sess EXCEPT !.state = "INTAKE"],
                      [sess EXCEPT !.state = "INTAKE", !.endpoint = TRUE]}
    BY <1>2 DEF CreateSession, RefuseStructurally, Settle, Leave, Back
  <2> QED
    BY <2>1, RefuseMoves DEF Stays, Begins, SessionRow, None
<1>3. CASE LiftHold(d)
  BY <1>3 DEF LiftHold, Settle, Back, Stays, SessionRow
<1>4. CASE \/ BudgetBreach(d) \/ VerifyLater(d) \/ VerifyFails(d)
           \/ FeatureMergedElsewhere(d)
  <2>1. sess.state # None /\ pc' = "idle"
    BY <1>4 DEF BudgetBreach, VerifyLater, VerifyFails, FeatureMergedElsewhere,
       HasRead, Within, Cue, Known, Settle, Leave, Back
  <2>2. sess' = sess \/ Escalate("system")
    BY <1>4 DEF BudgetBreach, VerifyLater, VerifyFails, FeatureMergedElsewhere
  <2> QED
    BY <2>1, <2>2, EscalateMoves DEF Stays
<1>5. CASE \E k \in Kinds : BeginResume(d, k) \/ Admit(d, k)
  <2>1. sess' = sess /\ sess.state # None
    BY <1>5 DEF BeginResume, Admit, Routable, Within, Cue, Known
  <2> QED
    BY <2>1 DEF Stays
<1> QED
  BY <1>1, <1>2, <1>3, <1>4, <1>5, <1>6 DEF Pick

LEMMA ContinueMoves ==
    ASSUME TypeOK, Alive, Continue, ~Record
    PROVE  Moves
<1> USE DEF Moves
<1> sess \in SessionRow
  BY DEF TypeOK, RowsOK
<1>1. CASE FinishCreate
  BY <1>1 DEF FinishCreate, Begins, SessionRow, Transition, Table
<1>2. CASE \/ SkipSpentHead \/ GateNoTurn \/ SkipHeld \/ AwaitRole \/ DropTurn
           \/ ToDispatch \/ RoleBusy \/ StartTurn
  BY <1>2 DEF SkipSpentHead, GateNoTurn, SkipHeld, AwaitRole, DropTurn,
     ToDispatch, RoleBusy, StartTurn, rows, Stays
<1>3. CASE StampHead
  BY <1>3 DEF StampHead, Stays, SessionRow
<1>4. CASE ObserveRound
  <2>1. sess.state # None
    BY <1>4 DEF ObserveRound, Passes, Alive
  <2> QED
    BY <1>4, <2>1, EscalateMoves DEF ObserveRound, Stays
<1>5. CASE Unpause
  BY <1>5 DEF Unpause, Unpauses, SessionRow
<1>6. CASE EnsureOnResume
  BY <1>6, RefuseMoves DEF EnsureOnResume, Stays, SessionRow
<1>7. CASE NoRunner
  <2>1. sess.state # None
    BY <1>7 DEF NoRunner, Alive
  <2> QED
    BY <1>7, <2>1, EscalateMoves, RefuseMoves DEF NoRunner, RetryOrGiveUp, Stays
<1> QED
  BY <1>1, <1>2, <1>3, <1>4, <1>5, <1>6, <1>7 DEF Continue

LEMMA AnswerMoves ==
    ASSUME TypeOK, Alive, Answer
    PROVE  Moves
<1>1. sess.state # None
  BY DEF Alive, Answer, TurnRefused, TurnTimesOut, TurnDone, TurnFailed,
     TurnNeedsHuman
<1>2. sess' = sess \/ \E role : Escalate(role)
  BY DEF Answer, TurnRefused, TurnTimesOut, TurnDone, TurnFailed,
     TurnNeedsHuman, rows
<1> QED
  BY <1>1, <1>2, EscalateMoves DEF Moves, Stays

\* What is not the drain leaves the row alone.
LEMMA OutsideMoves ==
    ASSUME GitHub \/ Sibling \/ StartPass \/ Clocks \/ Arrive \/ Crash
           \/ UNCHANGED vars
    PROVE  sess' = sess /\ why' = why
  BY DEF GitHub, Sibling, StartPass, Clocks, ClockElapses, HoldExpires, Arrive,
     Crash, vars, rows, trace

LEMMA MovesAlive ==
    ASSUME TypeOK, Moves, sess.state # None
    PROVE  sess'.state # None
  BY DEF Moves, Stays, Begins, Pauses, Refuses, Unpauses, None

LEMMA RecordAlive ==
    ASSUME TypeOK, Asked, Record, sess.state # None
    PROVE  sess'.state # None
<1>1. job.state = sess.state
  BY DEF Record, Asked, Fresh
<1>2. Transition(sess.state, job.kind) # None
  BY DEF Transition, Table, None
<1> QED
  BY <1>1, <1>2 DEF Record, TypeOK, RowsOK, SessionRow

LEMMA AliveInit == Init => Alive
  BY DEF Init, Alive, IssuesAreNotLost

\* A reason is written for the delivery in hand, which is deferred.
LEMMA WhyStep ==
    ASSUME InHand, Drain
    PROVE  \/ why' = why
           \/ \E d \in Deliveries : /\ status[d] = "deferred"
                                    /\ \E reason : why' = [why EXCEPT ![d] = reason]
<1>1. ASSUME NEW d \in Deliveries, Pick(d)
      PROVE  why' = why \/ \E reason : why' = [why EXCEPT ![d] = reason]
  BY <1>1 DEF Pick, DropSessionless, CreateSession, IgnorePart, LiftHold,
     BudgetBreach, ReadsReviews, Superseded, VerifyLater, VerifyFails,
     DropUntrackedMerge, FeatureMergedElsewhere, Defer, IgnoreReply, BeginResume, Admit,
     RefuseStructurally, Settle, Leave, trace
<1>2. ASSUME NEW d \in Deliveries, Pick(d)
      PROVE  status[d] = "deferred"
  <2>1. AtFront(d)
    BY <1>2 DEF Pick, DropSessionless, CreateSession, IgnorePart, LiftHold,
       BudgetBreach, ReadsReviews, Superseded, VerifyLater, VerifyFails,
       DropUntrackedMerge, FeatureMergedElsewhere, Defer, IgnoreReply, BeginResume,
       Admit, Routable, HasRead, Within, Cue, Known
  <2> QED
    BY <2>1 DEF AtFront, InHand
<1>3. CASE Continue \/ Answer
  <2>1. why' = why \/ \E reason : why' = [why EXCEPT ![job.d] = reason]
    BY <1>3 DEF Continue, FinishCreate, SkipSpentHead, Record, GateNoTurn,
       StampHead, SkipHeld, AwaitRole, DropTurn, ObserveRound, ToDispatch,
       Unpause, EnsureOnResume, RoleBusy, NoRunner, StartTurn, RetryOrGiveUp,
       Answer, TurnRefused, TurnTimesOut, TurnDone, TurnFailed, TurnNeedsHuman,
       RefuseStructurally, Settle, Leave, trace
  <2>2. FinishCreate \/ pc \notin {"idle", "created"}
    BY <1>3 DEF Continue, SkipSpentHead, Record, GateNoTurn, StampHead, SkipHeld,
       AwaitRole, DropTurn, ObserveRound, ToDispatch, Passes, Unpause,
       EnsureOnResume, RoleBusy, NoRunner, StartTurn, Answer, TurnRefused,
       TurnTimesOut, TurnDone, TurnFailed, TurnNeedsHuman
  <2>3. FinishCreate => why' = why
    BY DEF FinishCreate, trace
  <2>4. CASE pc \notin {"idle", "created"}
    <3>1. job.d \in Deliveries /\ status[job.d] = "deferred"
      BY <2>4 DEF InHand
    <3> QED
      BY <2>1, <3>1
  <2> QED
    BY <2>2, <2>3, <2>4
<1> QED
  BY <1>1, <1>2, <1>3 DEF Drain

LEMMA AliveStep ==
    ASSUME TypeOK, InHand, Bounded, Asked, Alive, [Next]_vars
    PROVE  Alive'
<1>1. CASE Drain
  <2>1. event' = event /\ received' = received
    BY <1>1 DEF Drain, queue
  <2>2. \A d \in Deliveries : status'[d] = "absent" => why'[d] = None
    <3>1. \A d \in Deliveries : status'[d] = "absent" => status[d] = "absent"
      BY <1>1, <2>1, PickStep, ContinueStep, StartStep, AnswerStep
         DEF Drain, Kept, Closed, InHand
    <3>2. \A d \in Deliveries : status[d] = "absent" => why'[d] = why[d]
      <4>1. CASE why' = why
        BY <4>1
      <4>2. ASSUME NEW d \in Deliveries, NEW reason, status[d] = "deferred",
                   why' = [why EXCEPT ![d] = reason]
            PROVE  \A e \in Deliveries : status[e] = "absent" => why'[e] = why[e]
        <5>1. \A e \in Deliveries : status[e] = "absent" => e # d
          BY <4>2
        <5> QED
          BY <4>2, <5>1
      <4> QED
        BY <1>1, <4>1, <4>2, WhyStep
    <3> QED
      BY <3>1, <3>2 DEF Alive
  <2>3. CASE sess.state # None
    <3>1. sess'.state # None
      BY <1>1, <2>3, PickMoves, ContinueMoves, RecordAlive, AnswerMoves,
         MovesAlive DEF Drain
    <3> QED
      BY <2>2, <3>1 DEF Alive, IssuesAreNotLost
  <2>4. CASE sess.state = None
    <3>1. ~Continue /\ ~Answer
      BY <2>4 DEF Alive, Continue, FinishCreate, SkipSpentHead, Record, GateNoTurn,
         StampHead, SkipHeld, AwaitRole, DropTurn, ObserveRound, ToDispatch, Passes,
         Unpause, EnsureOnResume, RoleBusy, NoRunner, StartTurn, Answer,
         TurnRefused, TurnTimesOut, TurnDone, TurnFailed, TurnNeedsHuman
    <3>2. PICK d \in Deliveries : Pick(d)
      BY <1>1, <3>1 DEF Drain
    <3>3. DropSessionless(d) \/ CreateSession(d)
      BY <2>4, <3>2 DEF Pick, IgnorePart, LiftHold, BudgetBreach,
         ReadsReviews, Superseded, VerifyLater, VerifyFails, DropUntrackedMerge,
         FeatureMergedElsewhere, Defer, IgnoreReply, BeginResume, Admit, Routable,
         HasRead, Within, Cue, Known
    <3>4. pc' # "idle" => sess'.state # None
      BY <3>2, PickMoves
    <3>5. CASE DropSessionless(d)
      <4>1. /\ event[d].kind \notin {"issue_opened", "reopened"}
            /\ why' = [why EXCEPT ![d] = "no_session"]
        BY <3>5 DEF DropSessionless, Settle
      <4>2. \A e \in Deliveries : e # d => why'[e] = why[e]
        BY <4>1
      <4>3. IssuesAreNotLost'
        BY <2>1, <2>4, <4>1, <4>2 DEF Alive, IssuesAreNotLost
      <4> QED
        BY <2>2, <3>4, <4>3 DEF Alive
    <3>6. CASE CreateSession(d)
      <4>1. sess'.state # None \/ why' = why
        <5>1. CASE RefuseStructurally(d)
          <6>1. sess'.state = "PAUSED_HUMAN"
            BY <5>1 DEF RefuseStructurally, PauseRow, TypeOK, RowsOK, SessionRow
          <6> QED
            BY <6>1 DEF None
        <5>2. CASE ~RefuseStructurally(d)
          BY <3>6, <5>2 DEF CreateSession, Leave
        <5> QED
          BY <5>1, <5>2
      <4>2. IssuesAreNotLost'
        BY <2>1, <2>4, <4>1 DEF Alive, IssuesAreNotLost
      <4> QED
        BY <2>2, <3>4, <4>2 DEF Alive
    <3> QED
      BY <3>3, <3>5, <3>6
  <2> QED
    BY <2>3, <2>4
<1>2. CASE GitHub \/ Sibling \/ StartPass \/ Clocks \/ Crash \/ UNCHANGED vars
  <2>1. sess' = sess /\ why' = why /\ (pc' = pc \/ pc' = "idle")
    BY <1>2, OutsideMoves DEF GitHub, Sibling, StartPass, Clocks, ClockElapses,
       HoldExpires, Crash, vars
  <2>2. event' = event /\ status' = status
    BY <1>2 DEF GitHub, Sibling, StartPass, Clocks, ClockElapses, HoldExpires,
       Crash, vars, queue
  <2> QED
    BY <2>1, <2>2 DEF Alive, IssuesAreNotLost
<1>3. CASE Arrive
  <2>1. sess' = sess /\ why' = why /\ pc' = pc
    BY <1>3, OutsideMoves DEF Arrive
  <2>2. \A d \in Deliveries : status'[d] = "absent" => status[d] = "absent"
    BY <1>3, ArriveStep DEF InHand
  <2>3. /\ status[received + 1] = "absent" /\ received + 1 \in Deliveries
        /\ \E e : event' = [event EXCEPT ![received + 1] = e]
    <3>1. received' = received + 1 /\ received' <= MaxDeliveries
      BY <1>3, ArriveBounded
    <3>2. received + 1 \in Deliveries
      BY <3>1, BoundsAssumption DEF InHand, Deliveries
    <3>3. status[received + 1] = "absent"
      BY <3>2, BoundsAssumption DEF InHand
    <3>4. \E e : event' = [event EXCEPT ![received + 1] = e]
      BY <1>3 DEF Arrive
    <3> QED
      BY <3>2, <3>3, <3>4
  <2>4. \A d \in Deliveries : why[d] # None => event'[d] = event[d]
    BY <2>3 DEF Alive
  <2> QED
    BY <2>1, <2>2, <2>4 DEF Alive, IssuesAreNotLost
<1> QED
  BY <1>1, <1>2, <1>3 DEF Next

LEMMA AliveAlways == Spec => []Alive
<1>1. TypeOK /\ InHand /\ Bounded /\ Asked /\ Alive /\ [Next]_vars => Alive'
  BY AliveStep
<1> QED
  BY <1>1, AliveInit, AskedAlways, TypeCorrect, DrainHoldsDeferred, PTL DEF Spec

\* Whatever refuses or interrupts its creation, an issue that asks for a
\* session keeps its delivery until there is a row.
THEOREM IssuesAreKept == Spec => []IssuesAreNotLost
<1>1. Alive => IssuesAreNotLost
  BY DEF Alive
<1> QED
  BY <1>1, AliveAlways, PTL

-----------------------------------------------------------------------------
(* The state a pause covers.                                               *)

\* A structural refusal, of this issue or of another of its project, forgets
\* the state of a session that is paused; a run without them does not begin
\* with such a session.
Unrefused ==
    /\ "structural" \notin Faults /\ "sibling" \notin Happenings
    /\ \A s \in Starts : s.row.state = "PAUSED_HUMAN" =>
            s.row.resume \notin {None, "PAUSED_HUMAN"}

LEMMA RecordPause ==
    ASSUME TypeOK, Asked, Record
    PROVE  sess'.state = "PAUSED_HUMAN" =>
                sess.state = "PAUSED_HUMAN" /\ sess'.resume = sess.resume
<1>1. /\ job.state = sess.state /\ job.kind \in Kinds
      /\ job.kind = "owner_reply" => sess.state # "PAUSED_HUMAN"
  BY DEF Record, Asked, Fresh, IsPaused, TypeOK, DrainOK, Job
<1>2. Transition(sess.state, job.kind) = "PAUSED_HUMAN" => sess.state = "PAUSED_HUMAN"
  BY <1>1, TransitionKeepsPause, OwnerReplyMovesNothing
<1> QED
  BY <1>1, <1>2 DEF Record, TypeOK, RowsOK, SessionRow

\* A pause remembers the state its owner's reply restores, however many
\* questions are asked meanwhile.
THEOREM PausesRemember == ASSUME Unrefused PROVE Spec => []PauseRemembers
<1> DEFINE Remembers == PauseRemembers /\ ~block
<1>1. Init => Remembers
  BY DEF Init, Unrefused, PauseRemembers
<1>2. TypeOK /\ InHand /\ Bounded /\ Asked /\ Alive /\ Remembers /\ [Next]_vars
      => Remembers'
  <2> SUFFICES ASSUME TypeOK, InHand, Bounded, Asked, Alive, Remembers, [Next]_vars
               PROVE  Remembers'
    OBVIOUS
  <2>1. CASE Drain
    <3>1. ~block'
      BY <2>1 DEF Unrefused, Drain, Pick, DropSessionless, CreateSession,
         IgnorePart, LiftHold, BudgetBreach, ReadsReviews, Superseded, VerifyLater,
         VerifyFails, DropUntrackedMerge, FeatureMergedElsewhere, Defer, IgnoreReply,
         BeginResume, Admit, Continue, FinishCreate, SkipSpentHead, Record,
         GateNoTurn, StampHead, SkipHeld, AwaitRole, DropTurn, ObserveRound,
         ToDispatch, Unpause, EnsureOnResume, RoleBusy, NoRunner, StartTurn,
         Answer, TurnRefused, TurnTimesOut, TurnDone, TurnFailed, TurnNeedsHuman,
         rows
    <3>2. CASE Record
      BY <3>1, <3>2, RecordPause DEF PauseRemembers
    <3>3. CASE ~Record
      <4>1. Moves
        BY <2>1, <3>3, PickMoves, ContinueMoves, AnswerMoves DEF Drain
      <4>2. ~Refuses
        BY DEF Unrefused, Refuses
      <4> QED
        BY <3>1, <4>1, <4>2 DEF Moves, Stays, Begins, Pauses, Unpauses,
           PauseRemembers, None
    <3> QED
      BY <3>1, <3>2, <3>3
  <2>2. CASE GitHub \/ Sibling \/ StartPass \/ Clocks \/ Arrive \/ Crash
             \/ UNCHANGED vars
    <3>1. sess' = sess
      BY <2>2, OutsideMoves
    <3>2. block' = block
      BY <2>2 DEF Unrefused, GitHub, Sibling, StartPass, Clocks, ClockElapses,
         HoldExpires, Arrive, Crash, vars, rows
    <3> QED
      BY <3>1, <3>2 DEF PauseRemembers
  <2> QED
    BY <2>1, <2>2 DEF Next
<1>3. Remembers => PauseRemembers
  OBVIOUS
<1> HIDE DEF Remembers
<1> QED
  BY <1>1, <1>2, <1>3, AliveAlways, AskedAlways, TypeCorrect,
     DrainHoldsDeferred, PTL DEF Spec

-----------------------------------------------------------------------------
(* A half has landed when its pull request was merged.                     *)

\* The states that follow the merge of the design.
Past == {"IMPLEMENTING", "CODE_REVIEW", "CODE_REWORK", "MERGING",
         "AWAITING_VERIFICATION"}

LiveOf(row) == IF row.state = "PAUSED_HUMAN" THEN row.resume ELSE row.state

Merges(p, g) == p # None /\ g[p].phase = "merged"

Justified(row, g) ==
    /\ LiveOf(row) \in Past => row.pr["design"] = None \/ Merges(row.pr["design"], g)
    /\ LiveOf(row) = "AWAITING_VERIFICATION" => Merges(row.pr["feature"], g)

Tells(e) == e.kind \in Merged => e.pr \in PRs /\ Merges(e.pr, gh)

\* A report of a merge is true, and the merge in hand is of what is tracked.
Landing ==
    /\ \A e \in wire : Tells(e)
    /\ \A d \in Deliveries : Tells(event[d])
    /\ Justified(sess, gh)
    /\ pc = "record" /\ job.kind \in Merged =>
            /\ event[job.d].kind = job.kind
            /\ sess.pr[Half(job.kind)] = event[job.d].pr

\* A run begins with a row that is right about what has landed.
SoundStarts == \A s \in Starts : Justified(s.row, s.gh)

\* Into the states behind the design only its merge leads, and into
\* AWAITING_VERIFICATION only the merge of the feature.
LEMMA TransitionLands ==
    ASSUME NEW s, NEW k \in Kinds, k = "owner_reply" => s # "PAUSED_HUMAN",
           Transition(s, k) # s
    PROVE  /\ s # "PAUSED_HUMAN" /\ Transition(s, k) # "PAUSED_HUMAN"
           /\ Transition(s, k) \in Past => s \in Past \/ k = "design_merged"
           /\ Transition(s, k) = "AWAITING_VERIFICATION" => k = "feature_merged"
           /\ k = "design_pr_opened" => Transition(s, k) \notin Past
<1>1. k \notin {"escalation", "issues_closed"}
  BY DEF Kinds, RawKinds, Opened, Revised, Unverified, Changes, Merged
<1>2. Transition(s, k) = Table(s, k)
  BY <1>1 DEF Transition, Table
<1> QED
  BY <1>2 DEF Table, Past

LEMMA RecordLands ==
    ASSUME TypeOK, InHand, Asked, Landing, Record, UNCHANGED <<gh, event>>
    PROVE  Justified(sess, gh)'
<1> DEFINE to == Transition(job.state, job.kind)
<1>1. /\ job.state = sess.state /\ job.kind \in Kinds /\ pc = "record"
      /\ job.kind = "owner_reply" => sess.state # "PAUSED_HUMAN"
      /\ job.d \in Deliveries /\ sess \in SessionRow
  BY DEF Record, Asked, Fresh, IsPaused, InHand, TypeOK, RowsOK, DrainOK, Job
<1>2. CASE to = job.state
  BY <1>2 DEF Record, Landing
<1>3. CASE to # job.state
  <2>1. /\ sess.state # "PAUSED_HUMAN" /\ to # "PAUSED_HUMAN"
        /\ to \in Past => sess.state \in Past \/ job.kind = "design_merged"
        /\ to = "AWAITING_VERIFICATION" => job.kind = "feature_merged"
        /\ job.kind = "design_pr_opened" => to \notin Past
    BY <1>1, <1>3, TransitionLands
  <2>2. /\ sess' = IF job.kind \in Opened
                   THEN [sess EXCEPT !.state = to, !.pr[Half(job.kind)] = Now.pr]
                   ELSE [sess EXCEPT !.state = to]
    BY <1>3 DEF Record
  <2> HIDE DEF to
  <2>3. sess'.state = to
    BY <1>1, <2>2 DEF SessionRow
  <2>4. job.kind \notin Opened => sess'.pr = sess.pr
    BY <1>1, <2>2 DEF SessionRow
  <2>5. job.kind = "feature_pr_opened" => sess'.pr["design"] = sess.pr["design"]
    BY <1>1, <2>2 DEF SessionRow, Half
  <2>6. job.kind = "design_merged" => Merges(sess.pr["design"], gh)
    BY <1>1 DEF Landing, Tells, Merged, Half
  <2>7. job.kind = "feature_merged" => Merges(sess.pr["feature"], gh)
    BY <1>1 DEF Landing, Tells, Merged, Half
  <2>8. LiveOf(sess) = sess.state /\ LiveOf(sess') = to
    BY <2>1, <2>3 DEF LiveOf
  <2>9. Justified(sess, gh)
    BY DEF Landing
  <2>10. "feature_merged" \notin Opened /\ "design_merged" \notin Opened
         /\ Opened = {"design_pr_opened", "feature_pr_opened"}
    BY DEF Opened
  <2>11. to \in Past => sess'.pr["design"] = None \/ Merges(sess'.pr["design"], gh)
    BY <2>1, <2>4, <2>5, <2>6, <2>8, <2>9, <2>10 DEF Justified
  <2>12. to = "AWAITING_VERIFICATION" => Merges(sess'.pr["feature"], gh)
    BY <2>1, <2>4, <2>7, <2>10
  <2>13. gh' = gh
    OBVIOUS
  <2> QED
    BY <2>8, <2>11, <2>12, <2>13 DEF Justified
<1> QED
  BY <1>2, <1>3

\* The other steps of the drain keep the state a pause covers, or leave for
\* one in which nothing has landed.
LEMMA MovesLand ==
    ASSUME TypeOK, Moves, Justified(sess, gh), gh' = gh
    PROVE  Justified(sess, gh)'
<1>1. LiveOf(sess') = LiveOf(sess) \/ LiveOf(sess') \notin Past
  BY DEF Moves, Stays, Begins, Pauses, Refuses, Unpauses, LiveOf, Past
<1>2. sess'.pr = sess.pr
  BY DEF Moves
<1>3. "AWAITING_VERIFICATION" \in Past
  BY DEF Past
<1> QED
  BY <1>1, <1>2, <1>3 DEF Justified

LEMMA PickLands ==
    ASSUME TypeOK, NEW d \in Deliveries, Pick(d), event' = event
    PROVE  pc' = "record" /\ job'.kind \in Merged =>
                /\ event'[job'.d].kind = job'.kind
                /\ sess'.pr[Half(job'.kind)] = event'[job'.d].pr
<1> SUFFICES ASSUME pc' = "record", job'.kind \in Merged
             PROVE  /\ event'[job'.d].kind = job'.kind
                    /\ sess'.pr[Half(job'.kind)] = event'[job'.d].pr
  OBVIOUS
<1>1. PICK k \in Kinds : Admit(d, k)
  BY DEF Pick, DropSessionless, CreateSession, IgnorePart, LiftHold,
     BudgetBreach, ReadsReviews, Superseded, VerifyLater, VerifyFails,
     DropUntrackedMerge, FeatureMergedElsewhere, Defer, IgnoreReply, BeginResume,
     RefuseStructurally, Settle, Leave, Back, Within, Cue, Known, AtFront
<1>2. job'.d = d /\ job'.kind = k /\ Routable(d, k) /\ sess' = sess
  BY <1>1 DEF Admit, JobFor
<1>3. Kind(d) = k /\ event[d].kind = k
  BY <1>2 DEF Routable, Kind, Merged
<1>4. sess.pr[Half(k)] = event[d].pr
  BY <1>2, <1>3 DEF Routable, Untracked
<1> QED
  BY <1>2, <1>3, <1>4

\* The forge reports only merges it has made, and takes none back.
LEMMA GitHubLands ==
    ASSUME TypeOK, Landing, GitHub
    PROVE  Landing'
<1>1. UNCHANGED <<event, sess, pc, job>>
  BY DEF GitHub, rows
<1> DEFINE Lasts == \A p \in PRs : gh[p].phase = "merged" => gh'[p].phase = "merged"
           Honest == \/ wire' = wire
                     \/ \E e : /\ wire' = wire \cup {e}
                               /\ e.kind \in Merged =>
                                     e.pr \in PRs /\ gh'[e.pr].phase = "merged"
<1>2. Lasts /\ Honest
  <2> gh \in Forge
    BY DEF TypeOK, QueueOK
  <2>1. ASSUME NEW k, NEW s, NEW p, NEW n
        PROVE  Webhook(k, s, p, n).kind = k /\ Webhook(k, s, p, n).pr = p
    BY DEF Webhook
  <2>2. ASSUME NEW p \in PRs, OpenPR(p) PROVE Lasts /\ Honest
    BY <2>1, <2>2 DEF OpenPR, Send, Forge, Merged, None
  <2>3. ASSUME NEW p \in PRs, Push(p) PROVE Lasts /\ Honest
    BY <2>1, <2>3 DEF Push, Send, Forge, Merged
  <2>4. ASSUME NEW p \in PRs, NEW v, Review(p, v), v \in {"approved", "changes"}
        PROVE  Lasts /\ Honest
    <3>1. Lasts
      BY <2>4 DEF Review, Forge
    <3>2. p \in DesignPRs \/ p \in FeaturePRs
      BY DEF PRs
    <3>3. Honest
      BY <2>1, <2>4, <3>2 DEF Review, Send, Merged
    <3> QED
      BY <3>1, <3>3
  <2>5. ASSUME NEW p \in PRs, MergePR(p) PROVE Lasts /\ Honest
    <3>1. gh' = [gh EXCEPT ![p].phase = "merged"]
      BY <2>5 DEF MergePR
    <3>2. Lasts /\ gh'[p].phase = "merged"
      BY <3>1 DEF Forge
    <3>3. Honest
      BY <2>1, <2>5, <3>2 DEF MergePR, Send
    <3> QED
      BY <3>2, <3>3
  <2>6. ASSUME NEW p \in PRs, Resync(p) PROVE Lasts /\ Honest
    <3> DEFINE k == IF p \in DesignPRs THEN "design_revised" ELSE "feature_revised"
               e == [Webhook(k, Author(p), p, gh[p].head) EXCEPT !.synth = TRUE]
    <3>1. gh' = gh /\ wire' = wire \cup {e}
      BY <2>6 DEF Resync, Send
    <3>2. e.kind \notin Merged
      BY DEF Webhook, Merged
    <3> HIDE DEF e
    <3> QED
      BY <3>1, <3>2
  <2>7. ASSUME Talk PROVE Lasts /\ Honest
    BY <2>1, <2>7 DEF Talk, Send, Merged
  <2>8. ASSUME NEW p \in PRs, Crowd(p) PROVE Lasts /\ Honest
    BY <2>8 DEF Crowd, Forge
  <2> QED
    BY <2>2, <2>3, <2>4, <2>5, <2>6, <2>7, <2>8 DEF GitHub
<1>3. \A p \in PRs \cup {None} : Merges(p, gh) => Merges(p, gh')
  BY <1>2 DEF Merges
<1>4. None \notin PRs
  BY ChoicesAssumption
<1>5. \A e \in wire' : Tells(e)'
  BY <1>2, <1>3, <1>4 DEF Landing, Tells, Merges
<1>6. \A d \in Deliveries : Tells(event[d])'
  BY <1>1, <1>3 DEF Landing, Tells
<1>7. Justified(sess, gh)'
  <2>1. sess.pr["design"] \in PRs \cup {None} /\ sess.pr["feature"] \in PRs \cup {None}
    BY DEF TypeOK, RowsOK, SessionRow
  <2> QED
    BY <1>1, <1>3, <2>1 DEF Landing, Justified
<1> QED
  BY <1>1, <1>5, <1>6, <1>7 DEF Landing

LEMMA LandingStep ==
    ASSUME TypeOK, InHand, Bounded, Asked, Alive, Landing, [Next]_vars
    PROVE  Landing'
<1>1. CASE Drain
  <2>1. UNCHANGED <<gh, wire, event>>
    BY <1>1 DEF Drain, queue
  <2>2. Justified(sess, gh)'
    <3>1. CASE Record
      BY <2>1, <3>1, RecordLands
    <3>2. CASE ~Record
      <4>1. Moves
        BY <1>1, <3>2, PickMoves, ContinueMoves, AnswerMoves DEF Drain
      <4> QED
        BY <2>1, <4>1, MovesLand DEF Landing
    <3> QED
      BY <3>1, <3>2
  <2>3. pc' = "record" /\ job'.kind \in Merged =>
            /\ event'[job'.d].kind = job'.kind
            /\ sess'.pr[Half(job'.kind)] = event'[job'.d].pr
    <3>1. CASE Continue \/ Answer
      <4>1. pc' # "record"
        BY <3>1, AnswerJob DEF Continue, FinishCreate, SkipSpentHead, Record,
           GateNoTurn, StampHead, SkipHeld, AwaitRole, DropTurn, ObserveRound,
           ToDispatch, Unpause, EnsureOnResume, RoleBusy, NoRunner, StartTurn,
           RetryOrGiveUp, RefuseStructurally, Settle, Leave, Back
      <4> QED
        BY <4>1
    <3> QED
      BY <1>1, <2>1, <3>1, PickLands DEF Drain
  <2> QED
    BY <2>1, <2>2, <2>3 DEF Landing, Tells
<1>2. CASE GitHub
  BY <1>2, GitHubLands
<1>3. CASE Arrive
  <2>1. UNCHANGED <<gh, sess, pc, job>>
    BY <1>3 DEF Arrive, rows
  <2>2. PICK e \in wire : /\ wire' = wire \ {e}
                          /\ event' = [event EXCEPT ![received + 1] = e]
    BY <1>3 DEF Arrive
  <2>3. event \in [Deliveries -> Event]
    BY DEF TypeOK, QueueOK
  <2>4. \A d \in Deliveries : event'[d] \in {e, event[d]}
    BY <2>2, <2>3
  <2>5. pc = "record" => event'[job.d] = event[job.d]
    BY <1>3, OutsideKeepsCue
  <2> QED
    BY <2>1, <2>2, <2>4, <2>5 DEF Landing, Tells
<1>4. CASE Sibling \/ StartPass \/ Clocks \/ Crash \/ UNCHANGED vars
  <2>1. UNCHANGED <<gh, wire, event, sess>>
    BY <1>4 DEF Sibling, StartPass, Clocks, ClockElapses, HoldExpires, Crash,
       vars, queue, rows
  <2>2. UNCHANGED <<pc, job>> \/ pc' = "idle"
    BY <1>4 DEF Sibling, StartPass, Clocks, ClockElapses, HoldExpires, Crash, vars
  <2> QED
    BY <2>1, <2>2 DEF Landing, Tells
<1> QED
  BY <1>1, <1>2, <1>3, <1>4 DEF Next

\* In whatever order merges, openings and approvals are heard of, the session
\* moves past a merge only for the pull request it tracks, once it is merged.
THEOREM LandedIsMerged == ASSUME SoundStarts PROVE Spec => []LandedMeansMerged
<1>1. Init => Landing
  <2> SUFFICES ASSUME Init PROVE Landing
    OBVIOUS
  <2>1. Justified(sess, gh)
    BY DEF Init, SoundStarts
  <2>2. wire = {} /\ pc = "idle" /\ \A d \in Deliveries : event[d] = NoEvent
    BY DEF Init
  <2>3. NoEvent.kind \notin Merged
    BY DEF NoEvent, Merged
  <2> QED
    BY <2>1, <2>2, <2>3 DEF Landing, Tells
<1>2. TypeOK /\ InHand /\ Bounded /\ Asked /\ Alive /\ Landing /\ [Next]_vars
      => Landing'
  BY LandingStep
<1>3. Landing => LandedMeansMerged
  BY DEF Landing, Justified, LiveOf, Past, Merges, LandedMeansMerged, Live
<1> QED
  BY <1>1, <1>2, <1>3, AliveAlways, AskedAlways, TypeCorrect,
     DrainHoldsDeferred, PTL DEF Spec

-----------------------------------------------------------------------------
(***************************************************************************)
(* How many turns there can be.  Agents cannot keep a session running on   *)
(* their own: every turn beyond the budget is paid for by a delivery of    *)
(* the owner that it settles.  And nothing is given out twice: neither a   *)
(* delivery, short of a kill, nor a pushed head.                           *)
(***************************************************************************)

Settled(d) == status[d] \notin {"absent", "deferred"}

\* What the owner has sent and the drain has dealt with.
Paid == {d \in Deliveries : event[d].sender = "owner" /\ Settled(d)}

\* The turn the drain is about to give out is within the budget, or it is for
\* something the owner sent and that is not yet spent.
Funded ==
    /\ count.consec <= ConsecLimit
    /\ count.turns <= TurnLimit + Cardinality(Paid)
    /\ pc \in {"unpause", "ensure", "dispatch", "turn"} => ~job.drop
    /\ pc \notin {"idle", "created"} /\ ~job.drop =>
            /\ job.resumed \/ count.consec < ConsecLimit
            /\ count.turns < TurnLimit \/ event[job.d].sender = "owner"

LEMMA PaidFinite == IsFiniteSet(Paid) /\ Cardinality(Paid) \in Nat
<1>1. IsFiniteSet(Deliveries)
  BY FS_Interval, BoundsAssumption DEF Deliveries
<1>2. IsFiniteSet(Paid)
  BY <1>1, FS_Subset DEF Paid
<1> QED
  BY <1>2, FS_CardinalityType

LEMMA FundedInit == Init => Funded
<1> SUFFICES ASSUME Init PROVE Funded
  OBVIOUS
<1>1. count.turns = 0 /\ count.consec = 0 /\ pc = "idle"
  BY DEF Init
<1> QED
  BY <1>1, PaidFinite, BoundsAssumption DEF Funded

\* What is settled stays settled, and keeps its sender.
LEMMA PaidGrows ==
    ASSUME TypeOK, InHand, Bounded, [Next]_vars
    PROVE  /\ Cardinality(Paid) \in Nat /\ Cardinality(Paid') \in Nat
           /\ Cardinality(Paid) <= Cardinality(Paid')
           /\ \A d \in Deliveries :
                 /\ event'[d].sender = "owner" /\ ~Settled(d) /\ Settled(d)'
                 => Cardinality(Paid) + 1 <= Cardinality(Paid')
<1>1. \A d \in Deliveries : Settled(d) => status'[d] = status[d]
  <2>1. CASE Drain
    <3>1. received' = received
      BY <2>1 DEF Drain, queue
    <3> QED
      BY <2>1, <3>1, PickStep, ContinueStep, StartStep, AnswerStep
         DEF Drain, Kept, Closed, Settled, InHand
  <2>2. CASE GitHub \/ Sibling \/ StartPass \/ Clocks \/ Crash \/ UNCHANGED vars
    BY <2>2, OtherStep, CrashStep DEF vars
  <2>3. CASE Arrive
    BY <2>3, ArriveStep DEF Settled, InHand
  <2> QED
    BY <2>1, <2>2, <2>3 DEF Next
<1>2. \A d \in Deliveries : Settled(d) => event'[d] = event[d]
  <2>1. CASE Arrive
    <3>1. PICK e \in wire : event' = [event EXCEPT ![received + 1] = e]
      BY <2>1 DEF Arrive
    <3>2. \A d \in Deliveries : Settled(d) => d # received + 1
      BY BoundsAssumption DEF InHand, Deliveries, Settled
    <3> QED
      BY <3>1, <3>2 DEF TypeOK, QueueOK
  <2>2. CASE ~Arrive
    BY <2>2 DEF Next, GitHub, Sibling, StartPass, Clocks, ClockElapses,
       HoldExpires, Drain, Crash, vars, queue
  <2> QED
    BY <2>1, <2>2
<1>3. Paid \subseteq Paid'
  BY <1>1, <1>2 DEF Paid, Settled
<1>4. IsFiniteSet(Paid') /\ Cardinality(Paid') \in Nat
  <2>1. IsFiniteSet(Deliveries)
    BY FS_Interval, BoundsAssumption DEF Deliveries
  <2>2. IsFiniteSet(Paid')
    BY <2>1, FS_Subset DEF Paid
  <2> QED
    BY <2>2, FS_CardinalityType
<1>5. Cardinality(Paid) <= Cardinality(Paid')
  BY <1>3, <1>4, FS_Subset
<1>6. ASSUME NEW d \in Deliveries,
             event'[d].sender = "owner", ~Settled(d), Settled(d)'
      PROVE  Cardinality(Paid) + 1 <= Cardinality(Paid')
  <2>1. d \notin Paid /\ d \in Paid'
    BY <1>6 DEF Paid
  <2>2. /\ IsFiniteSet(Paid \cup {d})
        /\ Cardinality(Paid \cup {d}) = Cardinality(Paid) + 1
    BY <2>1, PaidFinite, FS_AddElement
  <2>3. Paid \cup {d} \subseteq Paid'
    BY <1>3, <2>1
  <2> QED
    BY <1>4, <2>2, <2>3, FS_Subset
<1> QED
  BY <1>4, <1>5, <1>6, PaidFinite

\* Taking a delivery up: an unpaused session is within its budget, and in a
\* paused one only the owner's deliveries go on, whose arrival resets the row
\* of turns.
LEMMA PickFunds ==
    ASSUME TypeOK, InHand, Funded, NEW d \in Deliveries, Pick(d), event' = event
    PROVE  /\ count'.consec <= ConsecLimit /\ count'.turns = count.turns
           /\ pc' \in {"unpause", "ensure", "dispatch", "turn"} => ~job'.drop
           /\ pc' \notin {"idle", "created"} /\ ~job'.drop =>
                /\ job'.resumed \/ count'.consec < ConsecLimit
                /\ count'.turns < TurnLimit \/ event[job'.d].sender = "owner"
<1> count \in Counters /\ event \in [Deliveries -> Event]
  BY DEF TypeOK, RowsOK, QueueOK
<1>2. CASE \/ DropSessionless(d) \/ CreateSession(d) \/ IgnorePart(d) \/ LiftHold(d)
           \/ BudgetBreach(d) \/ Superseded(d) \/ VerifyLater(d) \/ VerifyFails(d)
           \/ DropUntrackedMerge(d) \/ FeatureMergedElsewhere(d)
           \/ \E k \in Kinds : Defer(d, k)
  <2>1. count' = count
    BY <1>2 DEF DropSessionless, CreateSession, IgnorePart, LiftHold, BudgetBreach,
       Superseded, VerifyLater, VerifyFails, DropUntrackedMerge,
       FeatureMergedElsewhere, Defer, rows
  <2>2. pc' \in {"idle", "created"}
    BY <1>2 DEF DropSessionless, CreateSession, IgnorePart, LiftHold, BudgetBreach,
       Superseded, VerifyLater, VerifyFails, DropUntrackedMerge,
       FeatureMergedElsewhere, Defer, RefuseStructurally, Settle, Leave, Back
  <2> QED
    BY <2>1, <2>2 DEF Funded
<1>3. ASSUME OwnerResets(d)
      PROVE  /\ count'.turns = count.turns /\ count'.consec <= ConsecLimit
             /\ event[d].sender = "owner" => count'.consec = 0
             /\ event[d].sender # "owner" => count' = count
  BY <1>3, BoundsAssumption DEF OwnerResets, Funded, Counters
<1>4. CASE \E k \in Kinds : IgnoreReply(d, k)
  <2>1. OwnerResets(d) /\ pc' = "idle"
    BY <1>4 DEF IgnoreReply, Settle, Back
  <2> QED
    BY <1>3, <2>1
<1>5. CASE \E k \in Kinds : BeginResume(d, k)
  <2> PICK k \in Kinds : BeginResume(d, k)
    BY <1>5
  <2>1. OwnerResets(d) /\ pc' = "unpause" /\ Routable(d, k) /\ Replies(k)
    BY DEF BeginResume
  <2>2. job'.d = d /\ job'.resumed = TRUE /\ job'.drop = FALSE
    BY DEF BeginResume, JobFor
  <2>3. event[d].kind = "owner_reply"
    BY <2>1 DEF Routable, Replies, Kind
  <2>4. event[d].sender = "owner"
    BY <2>3 DEF Event
  <2> QED
    BY <1>3, <2>1, <2>2, <2>4
<1>6. CASE \E k \in Kinds : Admit(d, k)
  <2> PICK k \in Kinds : Admit(d, k)
    BY <1>6
  <2> DEFINE r == Recipient(k, event[d].sender)
  <2>1. /\ OwnerResets(d) /\ pc' = "record" /\ Routable(d, k)
        /\ ~Defers(event[d], r) /\ job' = JobFor(d, k, r)
    BY DEF Admit
  <2>2. job'.d = d /\ job'.drop = Drops(event[d], r)
    BY <2>1 DEF JobFor
  <2>3. CASE IsPaused
    <3>1. ~job'.drop => event[d].sender = "owner"
      BY <2>1, <2>2, <2>3 DEF Defers, Drops
    <3> QED
      BY <1>3, <2>1, <2>2, <3>1, BoundsAssumption
  <2>4. CASE ~IsPaused
    <3>1. ~Breached
      BY <2>1, <2>4 DEF Routable, Within
    <3>2. count.turns < TurnLimit /\ count.consec < ConsecLimit
      BY <3>1, BoundsAssumption DEF Breached, Counters
    <3> QED
      BY <1>3, <2>1, <2>2, <3>2, BoundsAssumption
  <2> QED
    BY <2>3, <2>4
<1>7. CASE ReadsReviews(d)
  BY <1>7 DEF ReadsReviews, Within, Cue, Known, AtFront, rows, Funded
<1> QED
  BY <1>2, <1>4, <1>5, <1>6, <1>7 DEF Pick

\* On the way to the turn the budget counters do not grow.
LEMMA ContinueFunds ==
    ASSUME TypeOK, Asked, Funded, Continue
    PROVE  /\ count'.consec <= ConsecLimit /\ count'.turns = count.turns
           /\ pc' \in {"unpause", "ensure", "dispatch", "turn"} => ~job'.drop
           /\ pc' \notin {"idle", "created"} =>
                /\ job'.d = job.d /\ job'.drop = job.drop
                /\ job'.resumed = job.resumed
                /\ pc \notin {"idle", "created"}
                /\ count'.consec = count.consec \/ count'.consec = 0
<1> count \in Counters /\ job \in Job
  BY DEF TypeOK, RowsOK, DrainOK
<1> USE DEF Funded
<1>1. CASE \/ FinishCreate \/ SkipSpentHead \/ GateNoTurn \/ SkipHeld \/ AwaitRole
           \/ DropTurn \/ RoleBusy \/ NoRunner
  <2>1. count' = count
    BY <1>1 DEF FinishCreate, SkipSpentHead, GateNoTurn, SkipHeld, AwaitRole,
       DropTurn, RoleBusy, NoRunner, rows
  <2>2. pc' = "idle"
    BY <1>1 DEF FinishCreate, SkipSpentHead, GateNoTurn, SkipHeld, AwaitRole,
       DropTurn, RoleBusy, NoRunner, RetryOrGiveUp, RefuseStructurally,
       Settle, Leave, Back
  <2> QED
    BY <2>1, <2>2
<1>2. CASE Record \/ StampHead \/ ToDispatch \/ StartTurn
  <2>1. count' = count
    BY <1>2 DEF Record, StampHead, ToDispatch, StartTurn, rows
  <2>2. /\ job'.d = job.d /\ job'.drop = job.drop /\ job'.resumed = job.resumed
        /\ pc \notin {"idle", "created"}
    BY <1>2 DEF Record, StampHead, ToDispatch, StartTurn, Passes, Job
  <2>3. pc' \in {"unpause", "ensure", "dispatch", "turn"} => ~job.drop
    BY <1>2 DEF Record, StampHead, ToDispatch, StartTurn
  <2> QED
    BY <2>1, <2>2, <2>3
<1>3. CASE ObserveRound
  <2>1. count'.consec = count.consec /\ count'.turns = count.turns
    BY <1>3 DEF ObserveRound, Counters
  <2>2. pc' = "idle" \/ (pc' = "dispatch" /\ job' = job /\ ~job.drop)
    BY <1>3 DEF ObserveRound, Observes, Settle, Back
  <2> QED
    BY <1>3, <2>1, <2>2 DEF ObserveRound, Passes
<1>4. CASE Unpause
  <2>1. count'.consec = 0 /\ count'.turns = count.turns
    BY <1>4 DEF Unpause, Counters
  <2>2. pc = "unpause" /\ job' = job /\ ~job.drop
    BY <1>4 DEF Unpause
  <2> QED
    BY <2>1, <2>2, BoundsAssumption
<1>5. CASE EnsureOnResume
  <2>1. count' = count /\ pc = "ensure"
    BY <1>5 DEF EnsureOnResume
  <2>2. pc' = "idle" \/ (pc' = "dispatch" /\ job' = job)
    BY <1>5 DEF EnsureOnResume, RefuseStructurally, Settle, Leave, Back
  <2> QED
    BY <2>1, <2>2
<1> QED
  BY <1>1, <1>2, <1>3, <1>4, <1>5 DEF Continue

\* An answer counts one turn and settles the delivery it was for, or neither.
LEMMA AnswerFunds ==
    ASSUME TypeOK, InHand, Funded, Answer
    PROVE  /\ pc' = "idle" /\ count'.consec <= ConsecLimit
           /\ \/ count'.turns = count.turns
              \/ /\ count'.turns = count.turns + 1
                 /\ ~Settled(job.d) /\ status'[job.d] \in {"routed", "done"}
                 /\ count.turns < TurnLimit \/ event[job.d].sender = "owner"
<1> count \in Counters /\ job.d \in Deliveries /\ status[job.d] = "deferred"
    /\ status \in [Deliveries -> Statuses] /\ pc = "turn"
  BY DEF TypeOK, RowsOK, InHand, Answer, TurnRefused, TurnTimesOut, TurnDone,
     TurnFailed, TurnNeedsHuman
<1>1. CASE TurnRefused \/ TurnTimesOut
  BY <1>1 DEF TurnRefused, TurnTimesOut, Settle, Leave, Back, rows, Funded
<1>2. CASE TurnDone \/ TurnFailed \/ TurnNeedsHuman
  <2>1. PICK n : count' = Bump(n)
    BY <1>2 DEF TurnDone, TurnFailed, TurnNeedsHuman
  <2>2. /\ count'.turns = count.turns + 1
        /\ count'.consec = IF job.resumed THEN 1 ELSE count.consec + 1
    BY <2>1 DEF Bump, Counters
  <2>3. count'.consec <= ConsecLimit
    BY <2>2, BoundsAssumption DEF Funded, Counters
  <2>4. pc' = "idle" /\ \E outcome \in {"routed", "done"} :
                            status' = [status EXCEPT ![job.d] = outcome]
    BY <1>2 DEF TurnDone, TurnFailed, TurnNeedsHuman, Settle, Back
  <2>5. ~Settled(job.d) /\ status'[job.d] \in {"routed", "done"}
    BY <2>4 DEF Settled
  <2>6. count.turns < TurnLimit \/ event[job.d].sender = "owner"
    BY DEF Funded
  <2> QED
    BY <2>2, <2>3, <2>4, <2>5, <2>6
<1> QED
  BY <1>1, <1>2 DEF Answer

LEMMA FundedStep ==
    ASSUME TypeOK, InHand, InHand', Bounded, Asked, Funded, [Next]_vars
    PROVE  Funded'
<1> DEFINE n == Cardinality(Paid)
           m == Cardinality(Paid')
<1>1. n \in Nat /\ m \in Nat /\ n <= m
  BY PaidGrows
<1> count.turns \in Nat /\ count.consec \in Nat
  BY CountersAreNat DEF TypeOK, RowsOK
<1>2. count.turns <= TurnLimit + n
  BY DEF Funded
<1> HIDE DEF n, m
<1>3. ASSUME count'.turns = count.turns PROVE count'.turns <= TurnLimit + m
  BY <1>1, <1>2, <1>3, BoundsAssumption
<1>4. CASE Drain
  <2>1. event' = event
    BY <1>4 DEF Drain, queue
  <2>2. CASE \E d \in Deliveries : Pick(d)
    BY <1>3, <2>1, <2>2, PickFunds DEF Funded, m
  <2>3. CASE Continue
    <3>1. /\ count'.consec <= ConsecLimit /\ count'.turns = count.turns
          /\ pc' \in {"unpause", "ensure", "dispatch", "turn"} => ~job'.drop
      BY <2>3, ContinueFunds
    <3>2. ASSUME pc' \notin {"idle", "created"}, ~job'.drop
          PROVE  /\ job'.resumed \/ count'.consec < ConsecLimit
                 /\ count'.turns < TurnLimit \/ event'[job'.d].sender = "owner"
      <4>1. /\ job'.d = job.d /\ job'.drop = job.drop /\ job'.resumed = job.resumed
            /\ pc \notin {"idle", "created"}
            /\ count'.consec = count.consec \/ count'.consec = 0
        BY <2>3, <3>2, ContinueFunds
      <4> QED
        BY <2>1, <3>1, <3>2, <4>1, BoundsAssumption DEF Funded
    <3> QED
      BY <1>3, <3>1, <3>2 DEF Funded, m
  <2>4. CASE Answer
    <3>1. pc' = "idle" /\ count'.consec <= ConsecLimit
      BY <2>4, AnswerFunds
    <3>2. count'.turns <= TurnLimit + m
      <4>1. CASE count'.turns = count.turns
        BY <1>3, <4>1
      <4>2. CASE count'.turns = count.turns + 1 /\ count.turns < TurnLimit
        BY <1>1, <4>2, BoundsAssumption
      <4>3. CASE /\ count'.turns = count.turns + 1
                 /\ event[job.d].sender = "owner"
                 /\ ~Settled(job.d) /\ status'[job.d] \in {"routed", "done"}
        <5>1. job.d \in Deliveries
          BY <2>4, AnswerStep, <1>4 DEF Drain, queue
        <5>2. n + 1 <= m
          <6>1. PICK d \in Deliveries : d = job.d
            BY <5>1
          <6>2. event'[d].sender = "owner" /\ ~Settled(d) /\ Settled(d)'
            BY <2>1, <4>3, <6>1 DEF Settled
          <6> QED
            BY <6>2, PaidGrows DEF n, m
        <5> QED
          BY <1>1, <1>2, <4>3, <5>2, BoundsAssumption
      <4> QED
        BY <2>4, <4>1, <4>2, <4>3, AnswerFunds
    <3> QED
      BY <3>1, <3>2 DEF Funded, m
  <2> QED
    BY <1>4, <2>2, <2>3, <2>4 DEF Drain
<1>5. CASE GitHub \/ Sibling \/ StartPass \/ Clocks \/ Arrive \/ UNCHANGED vars
  <2>1. UNCHANGED <<count, pc, job>>
    BY <1>5 DEF GitHub, Sibling, StartPass, Clocks, ClockElapses, HoldExpires,
       Arrive, vars, rows
  <2>2. pc \notin {"idle", "created"} => event'[job.d] = event[job.d]
    BY <1>5, OutsideKeepsCue
  <2> QED
    BY <1>3, <2>1, <2>2 DEF Funded, m
<1>6. CASE Crash
  <2>1. count' = count /\ pc' = "idle"
    BY <1>6 DEF Crash, rows
  <2> QED
    BY <1>3, <2>1 DEF Funded, m
<1> QED
  BY <1>4, <1>5, <1>6 DEF Next

\* For any number of deliveries, agents, kills and limits: at most ConsecLimit
\* turns in a row without the owner, and at most TurnLimit plus one for each
\* delivery the owner sent.
THEOREM BudgetAlwaysHolds == Spec => []BudgetHolds
<1>1. TypeOK /\ InHand /\ InHand' /\ Bounded /\ Asked /\ Funded /\ [Next]_vars
      => Funded'
  BY FundedStep
<1>2. TypeOK /\ InHand /\ Funded => BudgetHolds
  <2> SUFFICES ASSUME TypeOK, InHand, Funded PROVE BudgetHolds
    OBVIOUS
  <2> DEFINE sent == {d \in 1 .. received : event[d].sender = "owner"}
  <2>1. Paid \subseteq sent
    BY BoundsAssumption DEF Paid, Settled, InHand, Deliveries
  <2>2. IsFiniteSet(sent)
    <3>1. IsFiniteSet(1 .. received)
      BY FS_Interval, BoundsAssumption DEF InHand
    <3>2. sent \in SUBSET (1 .. received)
      OBVIOUS
    <3> HIDE DEF sent
    <3> QED
      BY <3>1, <3>2, FS_Subset
  <2>3. Cardinality(Paid) <= Cardinality(sent) /\ Cardinality(sent) \in Nat
    BY <2>1, <2>2, FS_Subset, FS_CardinalityType
  <2>4. count.turns \in Nat
    BY CountersAreNat DEF TypeOK, RowsOK
  <2> HIDE DEF sent
  <2>5. count.turns <= TurnLimit + Cardinality(sent)
    BY <2>3, <2>4, PaidFinite, BoundsAssumption DEF Funded
  <2> QED
    BY <2>5 DEF BudgetHolds, Funded, sent
<1> QED
  BY <1>1, <1>2, FundedInit, AskedAlways, TypeCorrect, DrainHoldsDeferred, PTL
     DEF Spec

-----------------------------------------------------------------------------
(* A delivery is given out once, and once more for each kill.              *)

\* A turn that is over has settled its delivery, unless a kill ended it.
Repaid ==
    \A d \in Deliveries :
        turnsFor[d] <= crashes + (IF Settled(d) \/ (pc = "turn" /\ job.d = d)
                                  THEN 1 ELSE 0)

LEMMA RepaidStep ==
    ASSUME TypeOK, InHand, Bounded, Repaid, [Next]_vars
    PROVE  Repaid'
<1> USE DEF Repaid, Settled
<1> crashes \in Nat /\ turnsFor \in [Deliveries -> Nat]
    /\ status \in [Deliveries -> Statuses]
  BY BoundsAssumption DEF TypeOK, TraceOK, InHand
<1>1. CASE Drain
  <2>1. received' = received /\ crashes' = crashes
    BY <1>1 DEF Drain, queue
  <2>2. ASSUME Kept PROVE Repaid'
    BY <2>1, <2>2 DEF Kept
  <2>3. ASSUME NEW d \in Deliveries, Closed(d) PROVE Repaid'
    BY <2>1, <2>3 DEF Closed
  <2>4. CASE \E d \in Deliveries : Pick(d)
    BY <2>1, <2>2, <2>3, <2>4, PickStep
  <2>5. CASE Continue /\ ~StartTurn
    BY <2>1, <2>2, <2>3, <2>5, ContinueStep
  <2>6. CASE StartTurn
    BY <2>1, <2>6, StartStep
  <2>7. CASE Answer
    BY <2>1, <2>7, AnswerStep
  <2> QED
    BY <1>1, <2>4, <2>5, <2>6, <2>7 DEF Drain
<1>2. CASE GitHub \/ Sibling \/ StartPass \/ Clocks
  <2>1. crashes' = crashes
    BY <1>2 DEF GitHub, Sibling, StartPass, Clocks, ClockElapses, HoldExpires
  <2> QED
    BY <1>2, <2>1, OtherStep
<1>3. CASE Arrive
  <2>1. crashes' = crashes
    BY <1>3 DEF Arrive
  <2> QED
    BY <1>3, <2>1, ArriveStep
<1>4. CASE Crash
  <2>1. crashes' = crashes + 1
    BY <1>4 DEF Crash
  <2> QED
    BY <1>4, <2>1, CrashStep
<1>5. CASE UNCHANGED vars
  BY <1>5 DEF vars, trace
<1> QED
  BY <1>1, <1>2, <1>3, <1>4, <1>5 DEF Next

\* However often a delivery is deferred, refused or retried, an agent gets it
\* a second time only because the gateway was killed.
THEOREM DeliveriesGivenOutOnce == Spec => []OneTurnPerDelivery
<1>1. Init => Repaid
  BY DEF Init, Repaid
<1>2. TypeOK /\ InHand /\ Bounded /\ Repaid /\ [Next]_vars => Repaid'
  BY RepaidStep
<1>3. TypeOK /\ InHand /\ Repaid => OneTurnPerDelivery
  BY BoundsAssumption DEF Repaid, OneTurnPerDelivery, TypeOK, TraceOK, InHand
<1> QED
  BY <1>1, <1>2, <1>3, TypeCorrect, DrainHoldsDeferred, PTL DEF Spec
-----------------------------------------------------------------------------
(* A pushed head is given out once.                                        *)

Halves == {"design", "feature"}
Line(h) == IF h = "design" THEN DesignPRs ELSE FeaturePRs

\* The row keeps one head for each half of the session, and the comparison
\* with the live head needs the forge to answer: with two pull requests in a
\* half, or a GET that fails, a late webhook may take the head back.
OneLine ==
    /\ "get" \notin Faults
    /\ \A h \in Halves : \A p, q \in Line(h) : p = q
    /\ \A s \in Starts, h \in Halves : \A p \in Line(h) :
            /\ s.row.head[h] <= s.gh[p].head
            /\ s.gh[p].phase = None => s.gh[p].head <= 1

Told(d) == event[d].kind \in Revised

Aligned(e) == e.kind \in TakesHead => e.pr \in Line(Half(e.kind))

\* What is reported of a half is about its pull request, whose head the row
\* never overtakes.
Behind ==
    /\ \A e \in wire : Aligned(e)
    /\ \A d \in Deliveries : Aligned(event[d])
    /\ \A h \in Halves : \A p \in Line(h) :
            /\ sess.head[h] <= gh[p].head
            /\ gh[p].phase = None => gh[p].head <= 1

\* What was given to an agent is not ahead of the row.
Given ==
    /\ \A d \in Deliveries : d > received => turnsFor[d] = 0
    /\ \A d \in Deliveries : Told(d) /\ turnsFor[d] > 0 =>
            event[d].sha <= sess.head[Half(event[d].kind)]
    /\ \A d, e \in Deliveries :
            /\ Told(d) /\ Told(e)
            /\ event[d].pr = event[e].pr /\ event[d].sha = event[e].sha
            => /\ turnsFor[d] <= 1
               /\ turnsFor[d] > 0 /\ turnsFor[e] > 0 => d = e

\* The push in hand is ahead of the row until it is stamped, is what the row
\* says from then on, and nobody has been given it.
Ahead ==
    /\ pc \notin {"idle", "created"} /\ (job.kind \in TakesHead \/ Told(job.d))
            => event[job.d].kind = job.kind
    /\ pc \in {"unpause", "ensure"} => job.kind \notin Revised
    /\ pc = "gate" /\ job.kind \in Revised =>
            /\ sess.head[Half(job.kind)] < Now.sha
            /\ Now.sha <= gh[Now.pr].head
    /\ pc \in {"stamped", "dispatch"} /\ job.kind \in Revised =>
            /\ Now.sha = sess.head[Half(job.kind)]
            /\ \A d \in Deliveries :
                  Told(d) /\ event[d].pr = Now.pr /\ event[d].sha = Now.sha
                  => turnsFor[d] = 0

LEMMA HalfFits ==
    /\ \A k : Half(k) \in Halves
    /\ Halves = {"design", "feature"}
    /\ \A h \in Halves : Line(h) \subseteq PRs
    /\ \A h, g \in Halves : Line(h) \cap Line(g) # {} => h = g
  BY ChoicesAssumption DEF Half, Halves, Line, PRs

LEMMA HeadsAreNat ==
    ASSUME TypeOK
    PROVE  /\ \A h \in Halves : sess.head[h] \in Nat
           /\ \A p \in PRs : gh[p].head \in Nat
           /\ \A d \in Deliveries : event[d].sha \in Nat
<1>1. Heads \subseteq Nat
  BY BoundsAssumption DEF Heads
<1>2. sess.head \in [Halves -> Heads]
  BY DEF TypeOK, RowsOK, SessionRow, Halves
<1>3. \A p \in PRs : gh[p].head \in Heads
  BY DEF TypeOK, QueueOK, Forge
<1>4. \A d \in Deliveries : event[d].sha \in Heads
  BY DEF TypeOK, QueueOK, Event
<1> QED
  BY <1>1, <1>2, <1>3, <1>4

LEMMA HeadsInit == ASSUME OneLine, Init PROVE Behind /\ Given /\ Ahead
<1>1. PICK s \in Starts : sess = s.row /\ gh = s.gh
  BY DEF Init
<1>2. \A d \in Deliveries : event[d] = NoEvent
  BY DEF Init
<1>3. NoEvent.kind = "comment"
  BY DEF NoEvent
<1>4. "comment" \notin TakesHead
  BY DEF TakesHead, Opened, Revised
<1>5. Behind
  BY <1>1, <1>2, <1>3, <1>4 DEF Init, OneLine, Behind, Aligned
<1>6. Given /\ Ahead
  BY <1>2, <1>3, <1>4 DEF Init, Given, Ahead, Told, TakesHead
<1> QED
  BY <1>5, <1>6

\* A pause leaves the heads of the row alone.
LEMMA PauseKeepsHead ==
    ASSUME NEW s \in SessionRow, NEW reason
    PROVE  PauseRow(s, reason).head = s.head
  BY DEF PauseRow, SessionRow

LEMMA RefusalKeepsHead ==
    ASSUME sess \in SessionRow, NEW d, RefuseStructurally(d)
    PROVE  sess'.head = sess.head
<1> DEFINE row(r) == [sess EXCEPT !.state = "PAUSED_HUMAN", !.paused = "plain",
                                  !.resume = r]
<1>1. \A r \in States : row(r) \in SessionRow /\ row(r).head = sess.head
  <2> SUFFICES ASSUME NEW r \in States
               PROVE  row(r) \in SessionRow /\ row(r).head = sess.head
    OBVIOUS
  <2>1. row(r) \in SessionRow
    BY RowPause, StatesInclude DEF States, Reasons
  <2>2. row(r).head = sess.head
    BY DEF SessionRow
  <2> QED
    BY <2>1, <2>2
<1>2. sess.state \in States /\ "PLANNING" \in States
  BY RowState, StatesInclude DEF States
<1>3. \E r \in States : sess' \in {row(r), PauseRow(row(r), "plain")}
  BY <1>2 DEF RefuseStructurally
<1> HIDE DEF row
<1> QED
  BY <1>1, <1>3, PauseKeepsHead

LEMMA EscalateKeepsHead ==
    ASSUME sess \in SessionRow, NEW role, Escalate(role)
    PROVE  sess'.head = sess.head
  BY PauseKeepsHead DEF Escalate

\* A step of the drain that gives nothing out and stamps nothing.
LEMMA QuietKeeps ==
    ASSUME Behind, Given, UNCHANGED <<gh, wire, received, event, turnsFor>>,
           sess'.head = sess.head
    PROVE  Behind' /\ Given'
  BY DEF Behind, Given, Told

LEMMA PickHeads ==
    ASSUME TypeOK, InHand, Behind, Given, NEW d \in Deliveries, Pick(d),
           UNCHANGED <<gh, wire, received, event>>
    PROVE  Behind' /\ Given' /\ Ahead'
<1> sess \in SessionRow
  BY DEF TypeOK, RowsOK
<1>1. turnsFor' = turnsFor
  BY PickStep DEF Kept, Closed
<1>2. CASE \/ DropSessionless(d) \/ CreateSession(d) \/ IgnorePart(d) \/ LiftHold(d)
           \/ BudgetBreach(d) \/ Superseded(d) \/ VerifyLater(d) \/ VerifyFails(d)
           \/ DropUntrackedMerge(d) \/ FeatureMergedElsewhere(d)
           \/ \E k \in Kinds : Defer(d, k) \/ IgnoreReply(d, k)
  <2>1. pc' \in {"idle", "created"}
    BY <1>2 DEF DropSessionless, CreateSession, IgnorePart, LiftHold, BudgetBreach,
       Superseded, VerifyLater, VerifyFails, DropUntrackedMerge,
       FeatureMergedElsewhere, Defer, IgnoreReply, RefuseStructurally, Settle,
       Leave, Back
  <2>2. sess'.head = sess.head
    <3>1. CASE \/ DropSessionless(d) \/ IgnorePart(d) \/ Superseded(d)
               \/ DropUntrackedMerge(d)
               \/ \E k \in Kinds : Defer(d, k) \/ IgnoreReply(d, k)
      BY <3>1 DEF DropSessionless, IgnorePart, Superseded, DropUntrackedMerge,
         Defer, IgnoreReply, rows
    <3>2. CASE CreateSession(d)
      <4>1. \/ RefuseStructurally(d)
            \/ sess' \in {sess, [sess EXCEPT !.state = "INTAKE"],
                          [sess EXCEPT !.state = "INTAKE", !.endpoint = TRUE]}
        BY <3>2 DEF CreateSession
      <4> QED
        BY <4>1, RefusalKeepsHead DEF SessionRow
    <3>3. CASE LiftHold(d)
      BY <3>3 DEF LiftHold, SessionRow
    <3>4. CASE \/ BudgetBreach(d) \/ VerifyLater(d) \/ VerifyFails(d)
               \/ FeatureMergedElsewhere(d)
      BY <3>4, EscalateKeepsHead
         DEF BudgetBreach, VerifyLater, VerifyFails, FeatureMergedElsewhere
    <3> QED
      BY <1>2, <3>1, <3>2, <3>3, <3>4
  <2>3. Ahead'
    BY <2>1 DEF Ahead
  <2> QED
    BY <1>1, <2>2, <2>3, QuietKeeps
<1>3. ASSUME NEW k \in Kinds, BeginResume(d, k) \/ Admit(d, k)
      PROVE  Behind' /\ Given' /\ Ahead'
  <2>1. sess' = sess
    BY <1>3 DEF BeginResume, Admit
  <2>2. Routable(d, k) /\ job'.d = d /\ job'.kind = k
    <3>1. CASE BeginResume(d, k)
      BY <3>1 DEF BeginResume, JobFor
    <3>2. CASE Admit(d, k)
      BY <3>2 DEF Admit, JobFor
    <3> QED
      BY <1>3, <3>1, <3>2
  <2>3. \/ pc' = "record"
        \/ pc' = "unpause" /\ k = "owner_reply"
    BY <1>3 DEF BeginResume, Admit, Replies
  <2>4. k \in TakesHead \/ event[d].kind \in Revised => event[d].kind = k
    BY <2>2 DEF Routable, Kind, TakesHead, Opened, Revised, Unverified
  <2>5. "owner_reply" \notin Revised
    BY DEF Revised
  <2>6. Ahead'
    BY <2>2, <2>3, <2>4, <2>5 DEF Ahead, Told
  <2> QED
    BY <1>1, <2>1, <2>6, QuietKeeps
<1>4. CASE ReadsReviews(d)
  <2>1. sess' = sess /\ pc' = "idle"
    BY <1>4 DEF ReadsReviews, Within, Cue, Known, AtFront, rows
  <2> QED
    BY <1>1, <2>1, QuietKeeps DEF Ahead
<1> QED
  BY <1>2, <1>3, <1>4 DEF Pick

\* The stamp only raises the row's head, and never past the live one.
LEMMA StampHeads ==
    ASSUME TypeOK, InHand, OneLine, Behind, Given, Ahead, StampHead,
           UNCHANGED <<gh, wire, received, event>>
    PROVE  Behind' /\ Given' /\ Ahead'
<1> DEFINE h == Half(job.kind)
<1>1. /\ pc = "gate" /\ pc' = "stamped" /\ job' = job /\ turnsFor' = turnsFor
      /\ job.d \in Deliveries /\ h \in Halves /\ sess \in SessionRow
  BY HalfFits DEF StampHead, InHand, TypeOK, RowsOK
<1>2. Gets = {TRUE}
  BY DEF OneLine, Gets
<1>3. CASE job.kind \notin TakesHead
  <2>1. sess' = sess /\ job.kind \notin Revised
    BY <1>3 DEF StampHead, TakesHead
  <2>2. Ahead'
    BY <1>1, <2>1 DEF Ahead, Told
  <2> QED
    BY <1>1, <2>1, <2>2, QuietKeeps
<1>4. CASE job.kind \in TakesHead
  <2> DEFINE n == IF job.kind \in Opened THEN gh[Now.pr].head ELSE Now.sha
  <2>1. sess' = [sess EXCEPT !.head[h] = n]
    BY <1>2, <1>4 DEF StampHead
  <2>2. Now.kind = job.kind /\ Now.pr \in Line(h) /\ Now.pr \in PRs
    BY <1>1, <1>4, HalfFits DEF Ahead, Behind, Aligned, Now
  <2>3. n <= gh[Now.pr].head /\ sess.head[h] <= n /\ n \in Nat
    <3>1. Opened \cap Revised = {} /\ TakesHead = Opened \cup Revised
      BY DEF Opened, Revised, TakesHead
    <3>2. sess.head[h] <= gh[Now.pr].head
      BY <1>1, <2>2 DEF Behind
    <3>3. /\ gh[Now.pr].head \in Nat /\ Now.sha \in Nat /\ sess.head[h] \in Nat
      BY <1>1, <2>2, HeadsAreNat DEF Now
    <3>4. job.kind \in Revised => sess.head[h] < Now.sha /\ Now.sha <= gh[Now.pr].head
      BY <1>1 DEF Ahead
    <3> QED
      BY <1>4, <3>1, <3>2, <3>3, <3>4
  <2>4. job.kind \in Revised => n = Now.sha /\ sess.head[h] < n
    BY <1>1 DEF Ahead, Opened, Revised
  <2> HIDE DEF n
  <2>5. sess'.head[h] = n /\ \A g \in Halves : g # h => sess'.head[g] = sess.head[g]
    BY <1>1, <2>1 DEF SessionRow, Halves
  <2>6. \A g \in Halves : sess.head[g] <= sess'.head[g] /\ sess'.head[g] \in Nat
    BY <2>3, <2>5, HeadsAreNat
  <2>7. Behind'
    <3>1. \A g \in Halves : \A p \in Line(g) : sess'.head[g] <= gh[p].head
      <4> SUFFICES ASSUME NEW g \in Halves, NEW p \in Line(g)
                   PROVE  sess'.head[g] <= gh[p].head
        OBVIOUS
      <4>1. CASE g = h
        <5>1. p = Now.pr
          BY <2>2, <4>1 DEF OneLine
        <5> QED
          BY <2>3, <2>5, <4>1, <5>1
      <4>2. CASE g # h
        BY <2>5, <4>2 DEF Behind
      <4> QED
        BY <4>1, <4>2
    <3> QED
      BY <3>1 DEF Behind
  <2>8. Given'
    <3>1. \A d \in Deliveries : Told(d) /\ turnsFor[d] > 0 =>
            event[d].sha <= sess'.head[Half(event[d].kind)]
      <4> SUFFICES ASSUME NEW d \in Deliveries, Told(d), turnsFor[d] > 0
                   PROVE  event[d].sha <= sess'.head[Half(event[d].kind)]
        OBVIOUS
      <4>1. event[d].sha <= sess.head[Half(event[d].kind)]
        BY DEF Given
      <4>2. Half(event[d].kind) \in Halves
        BY HalfFits
      <4> QED
        BY <2>6, <4>1, <4>2, HeadsAreNat
    <3> QED
      BY <1>1, <3>1 DEF Given, Told
  <2>9. Ahead'
    <3>1. ASSUME job.kind \in Revised, NEW d \in Deliveries, Told(d),
                 event[d].pr = Now.pr, event[d].sha = Now.sha
          PROVE  turnsFor[d] = 0
      <4>1. Aligned(event[d]) /\ event[d].kind \in TakesHead
        BY <3>1 DEF Behind, Told, TakesHead
      <4>2. Half(event[d].kind) = h
        BY <1>1, <2>2, <3>1, <4>1, HalfFits DEF Aligned
      <4>3. ~(event[d].sha <= sess.head[h])
        BY <1>1, <2>4, <3>1, HeadsAreNat
      <4> QED
        BY <3>1, <4>2, <4>3 DEF Given, InHand
    <3>2. job.kind \in Revised => Now.sha = sess'.head[h]
      BY <2>4, <2>5
    <3> QED
      BY <1>1, <2>2, <3>1, <3>2 DEF Ahead, Told, Now
  <2> QED
    BY <2>7, <2>8, <2>9
<1> QED
  BY <1>3, <1>4

\* Past the comparisons with the row and with the live head, a push is ahead
\* of the one and no further than the other.
LEMMA RecordHeads ==
    ASSUME TypeOK, InHand, OneLine, Behind, Given, Ahead, Record,
           UNCHANGED <<gh, wire, received, event>>
    PROVE  Behind' /\ Given' /\ Ahead'
<1> DEFINE h == Half(job.kind)
<1>1. /\ pc = "record" /\ pc' = "gate" /\ turnsFor' = turnsFor
      /\ job.d \in Deliveries /\ h \in Halves /\ sess \in SessionRow /\ job \in Job
  BY HalfFits DEF Record, InHand, TypeOK, RowsOK, DrainOK
<1>2. job'.d = job.d /\ job'.kind = job.kind
  BY <1>1 DEF Record, Job
<1>3. sess'.head = sess.head
  BY <1>1 DEF Record, SessionRow
<1>4. ASSUME job.kind \in Revised
      PROVE  sess.head[h] < Now.sha /\ Now.sha <= gh[Now.pr].head
  <2>1. gh[Now.pr].head = Now.sha /\ sess.head[h] # Now.sha
    BY <1>4 DEF Record, OneLine, Gets, StaleHead, DuplicateHead
  <2>2. Now.pr \in Line(h)
    BY <1>1, <1>4 DEF Ahead, Behind, Aligned, Now, TakesHead
  <2>3. sess.head[h] <= gh[Now.pr].head
    BY <1>1, <2>2 DEF Behind
  <2> QED
    BY <1>1, <2>1, <2>3, HeadsAreNat DEF Now
<1>5. Ahead'
  BY <1>1, <1>2, <1>3, <1>4 DEF Ahead, Told, Now
<1> QED
  BY <1>1, <1>3, <1>5, QuietKeeps

\* The other stages leave the row's head and the ledger alone.
LEMMA ContinueHeads ==
    ASSUME TypeOK, InHand, Asked, OneLine, Behind, Given, Ahead,
           Continue, ~StartTurn, UNCHANGED <<gh, wire, received, event>>
    PROVE  Behind' /\ Given' /\ Ahead'
<1> sess \in SessionRow
  BY DEF TypeOK, RowsOK
<1>1. turnsFor' = turnsFor
  BY ContinueStep DEF Kept, Closed
<1>2. CASE Record
  BY <1>2, RecordHeads
<1>3. CASE StampHead
  BY <1>3, StampHeads
<1>4. CASE \/ FinishCreate \/ SkipSpentHead \/ GateNoTurn \/ SkipHeld \/ AwaitRole
           \/ DropTurn \/ RoleBusy \/ NoRunner
  <2>1. pc' = "idle"
    BY <1>4 DEF FinishCreate, SkipSpentHead, GateNoTurn, SkipHeld, AwaitRole,
       DropTurn, RoleBusy, NoRunner, RetryOrGiveUp, RefuseStructurally, Settle,
       Leave, Back
  <2>2. sess'.head = sess.head
    <3>1. CASE FinishCreate
      BY <3>1 DEF FinishCreate, SessionRow
    <3>2. CASE NoRunner
      BY <3>2, EscalateKeepsHead, RefusalKeepsHead DEF NoRunner, RetryOrGiveUp
    <3>3. CASE ~FinishCreate /\ ~NoRunner
      BY <1>4, <3>3 DEF SkipSpentHead, GateNoTurn, SkipHeld, AwaitRole, DropTurn,
         RoleBusy, rows
    <3> QED
      BY <3>1, <3>2, <3>3
  <2>3. Ahead'
    BY <2>1 DEF Ahead
  <2> QED
    BY <1>1, <2>2, <2>3, QuietKeeps
<1>5. CASE ObserveRound \/ ToDispatch
  <2>1. pc = "stamped"
    BY <1>5 DEF ObserveRound, ToDispatch, Passes
  <2>2. \/ pc' = "dispatch" /\ job' = job /\ sess' = sess
        \/ pc' = "idle" /\ Escalate("system")
    BY <1>5 DEF ObserveRound, ToDispatch, Settle, Back, rows
  <2>3. sess'.head = sess.head
    BY <2>2, EscalateKeepsHead
  <2>4. Ahead'
    BY <1>1, <2>1, <2>2 DEF Ahead, Told, Now
  <2> QED
    BY <1>1, <2>3, <2>4, QuietKeeps
<1>6. CASE Unpause \/ EnsureOnResume
  <2>1. pc \in {"unpause", "ensure"} /\ job.kind \notin Revised
    BY <1>6 DEF Unpause, EnsureOnResume, Ahead
  <2>2. \/ pc' \in {"dispatch", "ensure"} /\ job' = job
        \/ pc' = "idle"
    BY <1>6 DEF Unpause, EnsureOnResume, RefuseStructurally, Settle, Leave, Back
  <2>3. sess'.head = sess.head
    <3>1. CASE Unpause
      BY <3>1 DEF Unpause, SessionRow
    <3>2. CASE EnsureOnResume
      BY <3>2, RefusalKeepsHead DEF EnsureOnResume, SessionRow
    <3> QED
      BY <1>6, <3>1, <3>2
  <2>4. Ahead'
    BY <2>1, <2>2 DEF Ahead, Told
  <2> QED
    BY <1>1, <2>3, <2>4, QuietKeeps
<1> QED
  BY <1>2, <1>3, <1>4, <1>5, <1>6 DEF Continue

\* The one step that gives a push to an agent.
LEMMA StartHeads ==
    ASSUME TypeOK, InHand, Behind, Given, Ahead, StartTurn,
           UNCHANGED <<gh, wire, received, event>>
    PROVE  Behind' /\ Given' /\ Ahead'
<1>1. /\ pc = "dispatch" /\ pc' = "turn" /\ sess' = sess
      /\ job.d \in Deliveries /\ job \in Job
      /\ turnsFor \in [Deliveries -> Nat]
      /\ turnsFor' = [turnsFor EXCEPT ![job.d] = @ + 1]
      /\ status[job.d] = "deferred"
  BY DEF StartTurn, InHand, TypeOK, DrainOK, rows
<1>2. job'.d = job.d /\ job'.kind = job.kind
  BY <1>1 DEF StartTurn, Job
<1>3. Behind'
  BY <1>1 DEF Behind
<1>4. ~(job.d > received)
  BY <1>1 DEF InHand
<1>5. ASSUME Told(job.d)
      PROVE  /\ event[job.d].sha <= sess.head[Half(event[job.d].kind)]
             /\ turnsFor[job.d] = 0
             /\ \A d \in Deliveries :
                  /\ Told(d) /\ event[d].pr = event[job.d].pr
                  /\ event[d].sha = event[job.d].sha
                  => turnsFor[d] = 0
  <2>1. job.kind = event[job.d].kind /\ job.kind \in Revised
    BY <1>1, <1>5 DEF Ahead, Told
  <2>2. event[job.d].sha = sess.head[Half(event[job.d].kind)]
    BY <1>1, <2>1 DEF Ahead, Now
  <2>3. \A d \in Deliveries :
            /\ Told(d) /\ event[d].pr = event[job.d].pr
            /\ event[d].sha = event[job.d].sha
            => turnsFor[d] = 0
    BY <1>1, <2>1 DEF Ahead, Now
  <2> QED
    BY <1>1, <1>5, <2>2, <2>3, HeadsAreNat
<1>6. Given'
  <2>1. \A d \in Deliveries : d > received => turnsFor'[d] = 0
    BY <1>1, <1>4 DEF Given
  <2>2. \A d \in Deliveries : Told(d) /\ turnsFor'[d] > 0 =>
            event[d].sha <= sess.head[Half(event[d].kind)]
    BY <1>1, <1>5 DEF Given
  <2>3. ASSUME NEW d \in Deliveries, NEW e \in Deliveries, Told(d), Told(e),
               event[d].pr = event[e].pr, event[d].sha = event[e].sha
        PROVE  /\ turnsFor'[d] <= 1
               /\ turnsFor'[d] > 0 /\ turnsFor'[e] > 0 => d = e
    BY <1>1, <1>5, <2>3 DEF Given
  <2> QED
    BY <1>1, <2>1, <2>2, <2>3 DEF Given, Told
<1>7. Ahead'
  BY <1>1, <1>2 DEF Ahead, Told
<1> QED
  BY <1>3, <1>6, <1>7

LEMMA AnswerHeads ==
    ASSUME TypeOK, InHand, Behind, Given, Answer,
           UNCHANGED <<gh, wire, received, event>>
    PROVE  Behind' /\ Given' /\ Ahead'
<1>1. pc' = "idle" /\ sess \in SessionRow
  BY AnswerJob DEF TypeOK, RowsOK
<1>2. sess'.head = sess.head
  BY <1>1, EscalateKeepsHead DEF Answer, TurnRefused, TurnTimesOut, TurnDone,
     TurnFailed, TurnNeedsHuman, rows
<1>3. /\ turnsFor' \in [Deliveries -> Nat] /\ turnsFor \in [Deliveries -> Nat]
      /\ \A d \in Deliveries : turnsFor'[d] <= turnsFor[d]
  BY AnswerStep DEF InHand
<1>4. Behind'
  BY <1>2 DEF Behind
<1>5. Given'
  <2>1. \A d \in Deliveries : d > received => turnsFor'[d] = 0
    BY <1>3 DEF Given
  <2>2. \A d \in Deliveries : turnsFor'[d] > 0 => turnsFor[d] > 0
    BY <1>3
  <2>3. \A d \in Deliveries : turnsFor[d] <= 1 => turnsFor'[d] <= 1
    BY <1>3
  <2> QED
    BY <1>2, <2>1, <2>2, <2>3 DEF Given, Told
<1> QED
  BY <1>1, <1>4, <1>5 DEF Ahead

\* The forge: heads only grow, and what it sends is about its own half.
LEMMA GitHubHeads ==
    ASSUME TypeOK, InHand, Behind, Given, Ahead, GitHub
    PROVE  Behind' /\ Given' /\ Ahead'
<1>1. UNCHANGED <<received, event, sess, pc, job, turnsFor>>
  BY DEF GitHub, rows, trace
<1>2. gh \in Forge /\ \A p \in PRs : gh[p].head \in Nat
  BY HeadsAreNat DEF TypeOK, QueueOK
<1> DEFINE Grows == \A p \in PRs : /\ gh[p].head <= gh'[p].head
                                   /\ gh'[p].phase = None => gh'[p].head <= 1
                                   /\ gh'[p].head \in Nat
           Reports == wire' = wire \/ \E e : wire' = wire \cup {e} /\ Aligned(e)
<1>3. Grows /\ Reports
  <2>1. \A p \in PRs : gh[p].phase = None => gh[p].head <= 1
    BY DEF Behind, PRs, Line, Halves
  <2>2. \A e : e.kind \notin TakesHead => Aligned(e)
    BY DEF Aligned
  <2>3. ASSUME NEW k, NEW s, NEW p, NEW n
        PROVE  Webhook(k, s, p, n).kind = k /\ Webhook(k, s, p, n).pr = p
    BY DEF Webhook
  <2>4. ASSUME NEW p \in PRs, OpenPR(p) PROVE Grows /\ Reports
    <3>1. gh' = [gh EXCEPT ![p].phase = "open", ![p].head = 1]
          /\ gh[p].phase = None
      BY <2>4 DEF OpenPR
    <3>2. Grows
      BY <1>2, <2>1, <3>1 DEF Forge, None
    <3>3. Reports
      BY <2>3, <2>4 DEF OpenPR, Send, Aligned, PRs, Line, Half
    <3> QED
      BY <3>2, <3>3
  <2>5. ASSUME NEW p \in PRs, Push(p) PROVE Grows /\ Reports
    <3>1. gh' = [gh EXCEPT ![p].head = @ + 1] /\ gh[p].phase = "open"
      BY <2>5 DEF Push
    <3>2. Grows
      BY <1>2, <2>1, <3>1 DEF Forge, None
    <3>3. Reports
      BY <2>3, <2>5 DEF Push, Send, Aligned, PRs, Line, Half
    <3> QED
      BY <3>2, <3>3
  <2>6. ASSUME NEW p \in PRs, NEW v, Review(p, v), v \in {"approved", "changes"}
        PROVE  Grows /\ Reports
    <3> DEFINE word == [said |-> v, at |-> gh[p].head]
               new == [gh[p] EXCEPT !.shown = IF gh[p].full THEN @ ELSE word]
    <3>1. gh' = [gh EXCEPT ![p] = new]
      BY <1>2, <2>6 DEF Review, Forge
    <3> HIDE DEF word
    <3>5. new.head = gh[p].head /\ new.phase = gh[p].phase
      BY <1>2 DEF Forge
    <3> HIDE DEF new
    <3>2. Grows
      BY <1>2, <2>1, <3>1, <3>5 DEF Forge
    <3>3. p \in DesignPRs \/ p \in FeaturePRs
      BY DEF PRs
    <3>4. Reports
      BY <2>3, <2>6, <3>3 DEF Review, Send, Aligned, TakesHead, Opened, Revised
    <3> QED
      BY <3>2, <3>4
  <2>7. ASSUME NEW p \in PRs, MergePR(p) PROVE Grows /\ Reports
    <3>1. gh' = [gh EXCEPT ![p].phase = "merged"]
      BY <2>7 DEF MergePR
    <3>2. Grows
      BY <1>2, <2>1, <3>1 DEF Forge, None
    <3>3. Reports
      BY <2>3, <2>7 DEF MergePR, Send, Aligned, TakesHead, Opened, Revised
    <3> QED
      BY <3>2, <3>3
  <2>8. ASSUME NEW p \in PRs, Resync(p) PROVE Grows /\ Reports
    <3> DEFINE k == IF p \in DesignPRs THEN "design_revised" ELSE "feature_revised"
               e == [Webhook(k, Author(p), p, gh[p].head) EXCEPT !.synth = TRUE]
    <3>1. gh' = gh /\ wire' = wire \cup {e}
      BY <2>8 DEF Resync, Send
    <3>2. e.kind = k /\ e.pr = p
      BY DEF Webhook
    <3>3. p \in Line(Half(k))
      BY DEF PRs, Line, Half
    <3>4. Aligned(e)
      BY <3>2, <3>3 DEF Aligned
    <3>5. Grows
      BY <1>2, <2>1, <3>1
    <3> HIDE DEF e
    <3>6. Reports
      BY <3>1, <3>4
    <3> QED
      BY <3>5, <3>6
  <2>9. ASSUME Talk PROVE Grows /\ Reports
    <3>1. gh' = gh
      BY <2>9 DEF Talk
    <3>2. Reports
      BY <2>3, <2>9 DEF Talk, Send, Aligned, TakesHead, Opened, Revised
    <3> QED
      BY <1>2, <2>1, <3>1, <3>2
  <2>10. ASSUME NEW p \in PRs, Crowd(p) PROVE Grows /\ Reports
    BY <1>2, <2>1, <2>10 DEF Crowd, Forge
  <2> QED
    BY <2>4, <2>5, <2>6, <2>7, <2>8, <2>9, <2>10 DEF GitHub
<1>4. Behind'
  <2>1. \A h \in Halves : \A p \in Line(h) :
            sess.head[h] <= gh'[p].head /\ (gh'[p].phase = None => gh'[p].head <= 1)
    <3> SUFFICES ASSUME NEW h \in Halves, NEW p \in Line(h)
                 PROVE  sess.head[h] <= gh'[p].head
                        /\ (gh'[p].phase = None => gh'[p].head <= 1)
      OBVIOUS
    <3>1. p \in PRs /\ sess.head[h] \in Nat /\ sess.head[h] <= gh[p].head
      BY HalfFits, HeadsAreNat DEF Behind
    <3> QED
      BY <1>2, <1>3, <3>1
  <2> QED
    BY <1>1, <1>3, <2>1 DEF Behind
<1>5. Given'
  BY <1>1 DEF Given, Told
<1>6. Ahead'
  <2>1. ASSUME pc = "gate", job.kind \in Revised
        PROVE  Now.sha <= gh'[Now.pr].head
    <3>1. job.d \in Deliveries /\ Now.pr \in PRs
      BY <2>1, HalfFits DEF InHand, Ahead, Behind, Aligned, Now, TakesHead
    <3>2. Now.sha <= gh[Now.pr].head /\ Now.sha \in Nat
      BY <2>1, <3>1, HeadsAreNat DEF Ahead, Now
    <3> QED
      BY <1>2, <1>3, <3>1, <3>2
  <2> QED
    BY <1>1, <2>1 DEF Ahead, Told, Now
<1> QED
  BY <1>4, <1>5, <1>6

\* What arrives has not been given to anyone.
LEMMA ArriveHeads ==
    ASSUME TypeOK, InHand, Bounded, Behind, Given, Ahead, Arrive
    PROVE  Behind' /\ Given' /\ Ahead'
<1> DEFINE n == received + 1
<1>1. PICK e \in wire : /\ wire' = wire \ {e} /\ received' = n
                        /\ event' = [event EXCEPT ![n] = e]
  BY DEF Arrive
<1>2. UNCHANGED <<gh, sess, pc, job, turnsFor>>
  BY DEF Arrive, rows, trace
<1>3. n \in Deliveries /\ turnsFor[n] = 0 /\ event \in [Deliveries -> Event]
  BY ArriveBounded, BoundsAssumption
     DEF InHand, Given, Deliveries, TypeOK, QueueOK
<1>4. pc \notin {"idle", "created"} => job.d \in Deliveries /\ job.d # n
  BY BoundsAssumption DEF InHand, Deliveries
<1>5. \A d \in Deliveries : event'[d] = IF d = n THEN e ELSE event[d]
  BY <1>1, <1>3
<1>6. Behind'
  BY <1>1, <1>2, <1>5 DEF Behind
<1>7. Given'
  <2>1. \A d \in Deliveries : d > n => d > received
    BY BoundsAssumption DEF Deliveries, InHand
  <2>2. \A d \in Deliveries : turnsFor[d] > 0 => event'[d] = event[d]
    BY <1>3, <1>5
  <2>3. \A d \in Deliveries : d > received' => turnsFor'[d] = 0
    BY <1>1, <1>2, <2>1 DEF Given
  <2>4. \A d \in Deliveries : Told(d)' /\ turnsFor'[d] > 0 =>
            event'[d].sha <= sess'.head[Half(event'[d].kind)]
    BY <1>2, <2>2 DEF Given, Told
  <2>5. ASSUME NEW d \in Deliveries, NEW f \in Deliveries, Told(d)', Told(f)',
               event'[d].pr = event'[f].pr, event'[d].sha = event'[f].sha
        PROVE  /\ turnsFor'[d] <= 1
               /\ turnsFor'[d] > 0 /\ turnsFor'[f] > 0 => d = f
    <3>1. turnsFor \in [Deliveries -> Nat]
      BY DEF InHand
    <3>2. CASE turnsFor[d] = 0
      BY <1>2, <3>2
    <3>3. CASE turnsFor[d] > 0 /\ turnsFor[f] > 0
      BY <1>2, <2>2, <2>5, <3>3 DEF Given, Told
    <3>4. CASE turnsFor[d] > 0 /\ turnsFor[f] = 0
      BY <1>2, <2>2, <2>5, <3>4 DEF Given, Told
    <3> QED
      BY <3>1, <3>2, <3>3, <3>4
  <2> QED
    BY <2>3, <2>4, <2>5 DEF Given
<1>8. Ahead'
  <2>1. pc \notin {"idle", "created"} => event'[job.d] = event[job.d]
    BY <1>4, <1>5
  <2>2. ASSUME NEW d \in Deliveries,
               pc \in {"stamped", "dispatch"}, job.kind \in Revised,
               Told(d)', event'[d].pr = Now.pr, event'[d].sha = Now.sha
        PROVE  turnsFor[d] = 0
    BY <1>3, <1>5, <2>2 DEF Ahead, Told
  <2> QED
    BY <1>2, <2>1, <2>2 DEF Ahead, Told, Now
<1> QED
  BY <1>6, <1>7, <1>8

LEMMA HeadsStep ==
    ASSUME TypeOK, InHand, Bounded, Asked, OneLine, Behind, Given, Ahead,
           [Next]_vars
    PROVE  Behind' /\ Given' /\ Ahead'
<1>1. CASE Drain
  <2>1. UNCHANGED <<gh, wire, received, event>>
    BY <1>1 DEF Drain, queue
  <2> QED
    BY <1>1, <2>1, PickHeads, ContinueHeads, StartHeads, AnswerHeads DEF Drain
<1>2. CASE GitHub
  BY <1>2, GitHubHeads
<1>3. CASE Arrive
  BY <1>3, ArriveHeads
<1>4. CASE Sibling \/ StartPass \/ Clocks \/ Crash \/ UNCHANGED vars
  <2>1. UNCHANGED <<gh, wire, received, event, sess, turnsFor>>
    BY <1>4 DEF Sibling, StartPass, Clocks, ClockElapses, HoldExpires, Crash,
       vars, queue, rows, trace
  <2>2. UNCHANGED <<pc, job>> \/ pc' = "idle"
    BY <1>4 DEF Sibling, StartPass, Clocks, ClockElapses, HoldExpires, Crash, vars
  <2>3. Ahead'
    BY <2>1, <2>2 DEF Ahead, Told, Now
  <2> QED
    BY <2>1, <2>3, QuietKeeps
<1> QED
  BY <1>1, <1>2, <1>3, <1>4 DEF Next

\* While the forge answers and a half has one pull request, however webhooks
\* are repeated and reordered and wherever the gateway is killed, a head and a
\* delivery are given out once.
THEOREM HeadsGivenOutOnce == ASSUME OneLine PROVE Spec => []GivenOutOnce
<1>1. Init => Behind /\ Given /\ Ahead
  BY HeadsInit
<1>2. TypeOK /\ InHand /\ Bounded /\ Asked /\ Behind /\ Given /\ Ahead
      /\ [Next]_vars => (Behind /\ Given /\ Ahead)'
  BY HeadsStep
<1>3. InHand /\ Given => OneTurnPerHead
  BY DEF InHand, Given, Told, OneTurnPerHead
<1>4. OneTurnPerHead /\ OneTurnPerDelivery => GivenOutOnce
  BY DEF GivenOutOnce
<1> QED
  BY <1>1, <1>2, <1>3, <1>4, AskedAlways, TypeCorrect, DrainHoldsDeferred,
     DeliveriesGivenOutOnce, PTL DEF Spec

=============================================================================
