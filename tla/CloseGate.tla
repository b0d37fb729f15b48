------------------------------ MODULE CloseGate ------------------------------
(***************************************************************************)
(* The end of a session.  The owner ticks a box in a block of the issue    *)
(* body and closes the issue; the gateway records the tick, undoes what    *)
(* agents do to the box, classifies the close, has the agents tear down    *)
(* what the session left behind, and archives it.  Three parties write:    *)
(* users and agents on GitHub, the drain, one delivery at a time, and the  *)
(* reconciler's sweep, from a session row and an issue read earlier.       *)
(*                                                                         *)
(* A body is reduced to what the verification block says in it; the text   *)
(* around the block and the comments the gateway posts are left out.       *)
(***************************************************************************)
EXTENDS Naturals, FiniteSets, Sequences

CONSTANTS
    MaxActs,      \* bound: things users and agents do on GitHub
    MaxTries,     \* _DELIVERY_MAX_ATTEMPTS
    Writes,       \* by user: the bodies they may leave behind
    Starts        \* issue, merge and session row a run may begin with, and
                  \* the world it runs in


None == "none"
Roles == {"developer", "architect"}
Users == {"owner", "agent"}

\* No block, a ticked line without a block, a body cut to less than half, a
\* block without its line, with the box down, with the box up.
Bodies == {"none", "bare", "collapsed", "noline", "down", "up"}
HasBlock(b) == b \in {"noline", "down", "up"}

\* checkbox_is_checked(strict=True)
Box(b) == IF b \in {"down", "up"} THEN b ELSE "absent"

Live == {"PLANNING", "MERGING", "AWAITING_VERIFICATION"}
Terminal == {"TEARDOWN", "CLOSED"}
States == Live \cup Terminal \cup {"PAUSED_HUMAN"}

Kinds == {"edited", "closed", "reopened", "reply"}
Deliveries == [kind : Kinds, by : Users \cup {"gateway"},
               prev : Bodies, now : Bodies]
MaxDeliveries == 2 * MaxActs   \* the gateway's own reopening is reported too
Ids == 1 .. MaxDeliveries

\* What a restore does to the body it reads.
Fixes == [op : {"reinsert", "set"}, to : {"noline", "down", "up"}]
         \cup {[op |-> "neutralize", to |-> "none"]}
NoFix == [op |-> "none", to |-> "none"]

\* What goes on around a run of the gateway, and what goes wrong.
Worlds == [acts : SUBSET {"edit", "close", "reopen", "reply"},
           lost : SUBSET Kinds,     \* events whose webhook may be lost
           faults : SUBSET {"get", "patch", "reopen", "ensure", "turn", "archive"},
           sweeping : BOOLEAN,      \* whether the reconciler runs
           crashes : Nat,           \* bound: kills of the gateway
           busy : Nat]              \* bound: teardown turns no runner takes

VARIABLES
    world,      \* chosen at the start, and kept
    body,       \* GitHub: the issue body
    open,       \* GitHub: whether the issue is open
    merged,     \* GitHub: whether the feature pull request is merged
    inbox,      \* deliveries in the order received
    waiting,    \* deliveries: those still deferred
    aged,       \* deliveries older than the grace period
    batch,      \* drain: what is left of its pass
    job,        \* drain: the delivery it is in the middle of
    tries,      \* drain: attempts by delivery, in memory
    sess,       \* the session row
    ledger,     \* roles whose artifacts have an open row
    sweep,      \* reconciler: how far it is and what it read
    acts, busy, crashes,   \* counters behind the bounds
    seen        \* history: see Memory

Memory == [vouched : BOOLEAN,      \* the owner left the box up once
           flipped : BOOLEAN,      \* the owner moved it up once
           closedByOwner : BOOLEAN,
           replied : BOOLEAN,      \* a reply ended a pause, the issue closed
           adopted : BOOLEAN,      \* a sweep overwrote the state
           cut : BOOLEAN]          \* a kill between a sweep's mark and its report

github == <<world, body, open, merged>>
queue == <<inbox, waiting, aged, batch>>
counters == <<acts, busy, crashes>>
vars == <<github, queue, job, tries, sess, ledger, sweep, counters, seen>>

\* verified_at, closed_issue_escalated_at and the open escalation are flags;
\* of paused_reason only the prefix of the hold matters.
Sessions == [state : States, paused : {None, "hold", "reason"},
             resume : Live \cup Terminal \cup {None},
             class : {None, "VERIFIED", "ABANDONED"},
             stamp : BOOLEAN, marker : BOOLEAN, asked : BOOLEAN]

Idle == [step |-> "idle", id |-> 0, fix |-> NoFix, got |-> "none",
         failed |-> FALSE]
Steps == {"idle", "get", "patch", "complain", "reread", "lower",
          "ensure", "developer", "architect", "tally", "archive"}
Jobs == [step : Steps, id : Ids \cup {0}, fix : Fixes \cup {NoFix},
         got : Bodies, failed : BOOLEAN]

Asleep == [at |-> "idle", state |-> "CLOSED", held |-> FALSE,
           marker |-> FALSE, open |-> TRUE, prev |-> "CLOSED"]
Sweeps == [at : {"idle", "listed", "fetched", "escalating", "adopting"},
           state : States, held : BOOLEAN, marker : BOOLEAN, open : BOOLEAN,
           prev : States]

ASSUME BoundsAssumption ==
    /\ MaxActs \in Nat /\ MaxTries \in Nat \ {0}
    /\ Writes \in [Users -> SUBSET Bodies]
    /\ Starts \subseteq [world : Worlds, body : Bodies, open : BOOLEAN,
                         merged : BOOLEAN, sess : Sessions]

\* A run begins before the close is classified and before any tick is recorded.
ASSUME StartsAssumption ==
    \A start \in Starts :
        /\ ~start.sess.stamp /\ start.sess.class = None
        /\ {start.sess.state, start.sess.resume} \cap Terminal = {}

Init ==
    /\ \E start \in Starts :
           /\ world = start.world /\ body = start.body /\ open = start.open
           /\ merged = start.merged /\ sess = start.sess
    /\ inbox = <<>> /\ waiting = {} /\ aged = {} /\ batch = {}
    /\ job = Idle /\ tries = [i \in Ids |-> 0]
    /\ ledger = Roles /\ sweep = Asleep
    /\ acts = 0 /\ busy = 0 /\ crashes = 0
    /\ seen = [vouched |-> FALSE, flipped |-> FALSE, closedByOwner |-> FALSE,
               replied |-> FALSE, adopted |-> FALSE, cut |-> FALSE]

-----------------------------------------------------------------------------
(* GitHub, its users and its webhook.                                      *)

Report(kind, by, prev, now) ==
    \/ /\ inbox' = Append(inbox, [kind |-> kind, by |-> by,
                                  prev |-> prev, now |-> now])
       /\ waiting' = waiting \cup {Len(inbox) + 1}
       /\ UNCHANGED <<aged, batch>>
    \/ /\ kind \in world.lost
       /\ UNCHANGED queue

Act(kind) ==
    /\ kind \in world.acts /\ acts < MaxActs /\ acts' = acts + 1
    /\ UNCHANGED <<world, merged, job, tries, sess, ledger, sweep, busy, crashes>>

\* An edit may leave the block as it was.
Edit(by, to) ==
    /\ Act("edit")
    /\ to \in Writes[by]
    /\ body' = to
    /\ seen' = [seen EXCEPT
                   !.vouched = @ \/ (by = "owner" /\ to = "up"),
                   !.flipped = @ \/ (by = "owner" /\ to = "up" /\ body # "up")]
    /\ Report("edited", by, body, to)
    /\ UNCHANGED open

Close(by) ==
    /\ Act("close")
    /\ open /\ open' = FALSE
    /\ seen' = [seen EXCEPT !.closedByOwner = @ \/ by = "owner"]
    /\ Report("closed", by, body, body)
    /\ UNCHANGED body

Reopen ==
    /\ Act("reopen")
    /\ ~open /\ open' = TRUE
    /\ Report("reopened", "owner", body, body)
    /\ UNCHANGED <<body, seen>>

Reply ==
    /\ Act("reply")
    /\ Report("reply", "owner", body, body)
    /\ UNCHANGED <<body, open, seen>>

GitHub == \/ \E by \in Users : Close(by) \/ \E to \in Bodies : Edit(by, to)
          \/ Reopen \/ Reply

\* received_at is more than CLOSE_RECONCILE_GRACE_S ago.
GraceElapses ==
    /\ \E i \in waiting \ aged :
           inbox[i].kind = "closed" /\ aged' = aged \cup {i}
    /\ UNCHANGED <<github, inbox, waiting, batch, job, tries, sess, ledger,
                   sweep, counters, seen>>

-----------------------------------------------------------------------------
(* The drain.                                                              *)

\* What every step of the drain leaves alone.
DrainOnly == UNCHANGED <<world, merged, aged, sweep, acts, crashes>>

StartPass ==
    /\ job = Idle /\ batch = {} /\ waiting # {}
    /\ batch' = waiting
    /\ UNCHANGED <<github, inbox, waiting, job, tries, sess, ledger, busy, seen>>
    /\ DrainOnly

Settled(i) == waiting' = waiting \ {i}
Deferred == UNCHANGED waiting

\* The step of a job that touches no more of GitHub than it says.
Quiet == UNCHANGED <<body, open, inbox>>

\* _escalate: a closed session is left alone.
Escalated(s, reason) ==
    IF s.state = "CLOSED" THEN s
    ELSE [s EXCEPT !.state = "PAUSED_HUMAN", !.paused = reason, !.asked = TRUE,
                   !.resume = IF s.state # "PAUSED_HUMAN" THEN s.state
                              ELSE IF @ = None THEN "PLANNING" ELSE @]

IsPaused(s) == s.state = "PAUSED_HUMAN" \/ s.paused # None
IsHeld(s) == s.state = "PAUSED_HUMAN" /\ s.paused = "hold"

Begin(step, i) == job' = [Idle EXCEPT !.step = step, !.id = i]

-----------------------------------------------------------------------------
(* issues.edited                                                           *)

\* Only an owner's edit is recorded: the box up and not recorded yet, or this
\* edit removed a tick.
Stamped(d) ==
    IF Box(d.now) = "up" THEN TRUE
    ELSE sess.stamp /\ Box(d.prev) # "up"

\* Mutant of CanRaise: the tick of the before-image is enough.
CanRaiseAnyTick == TRUE

\* ADR-16: no restore raises the box without a recorded tick.
CanRaise == sess.stamp

\* The branch of the restore this edit selects (B2, B3, B5, up, B4), or none.
FixFor(d) ==
    LET was == Box(d.prev)
        now == Box(d.now)
    IN  CASE HasBlock(d.prev) /\ ~HasBlock(d.now) ->
               [op |-> "reinsert",
                to |-> IF was = "up" /\ ~CanRaise THEN "down" ELSE d.prev]
          [] HasBlock(d.now) /\ now = "up" /\ was # "up" ->
               [op |-> "set", to |-> "down"]
          [] ~HasBlock(d.prev) /\ d.now = "bare" ->
               [op |-> "neutralize", to |-> "none"]
          [] was = "up" /\ d.now \in {"down", "noline"} ->
               IF CanRaise THEN [op |-> "set", to |-> "up"] ELSE NoFix
          [] was = "down" /\ d.now = "noline" -> [op |-> "set", to |-> "down"]
          [] OTHER -> NoFix

\* compose(current)
Fixed(fix, current) ==
    CASE fix.op = "reinsert" -> IF HasBlock(current) THEN current ELSE fix.to
      [] fix.op = "set" -> IF HasBlock(current) THEN fix.to ELSE current
      [] OTHER -> IF current = "bare" THEN "none" ELSE current

Edited(i) ==
    LET d == inbox[i]
        restores == d.by = "agent" /\ sess.state = "AWAITING_VERIFICATION"
    IN  /\ d.kind = "edited"
        /\ sess' = IF d.by = "owner" THEN [sess EXCEPT !.stamp = Stamped(d)]
                   ELSE sess
        /\ IF restores /\ FixFor(d) # NoFix
           THEN /\ job' = [Idle EXCEPT !.step = "get", !.id = i, !.fix = FixFor(d)]
                /\ Deferred
           ELSE Settled(i) /\ UNCHANGED job
        /\ Quiet /\ UNCHANGED <<tries, ledger, busy, seen>>

\* ADR-15: compose on a fresh read, unless the body collapsed or its box moved.
GetBody ==
    LET d == inbox[job.id]
        stop(s) == /\ sess' = s
                   /\ Settled(job.id) /\ job' = Idle
    IN  /\ job.step = "get"
        /\ \/ "get" \in world.faults /\ stop(sess)
           \/ IF body = "collapsed" /\ d.prev # "collapsed"
              THEN stop(Escalated(sess, "reason"))
              ELSE IF Box(body) # Box(d.now) \/ Fixed(job.fix, body) = body
              THEN stop(sess)
              ELSE /\ job' = [job EXCEPT !.step = "patch", !.got = body]
                   /\ UNCHANGED sess /\ Deferred
        /\ Quiet /\ UNCHANGED <<batch, tries, ledger, busy, seen>>
        /\ DrainOnly

PatchBody ==
    /\ job.step = "patch"
    /\ \/ body' = Fixed(job.fix, job.got)
       \/ "patch" \in world.faults /\ UNCHANGED body
    /\ Settled(job.id) /\ job' = Idle
    /\ UNCHANGED <<open, inbox, batch, tries, sess, ledger, busy, seen>>
    /\ DrainOnly

-----------------------------------------------------------------------------
(* issues.closed                                                           *)

\* Mutant of Unproven: the box is authority enough (no ADR-17).
UnprovenNever(b) == FALSE

\* ADR-17: the box is up and nobody recorded it.  ADR-19: the reverse.
Unproven(b) == Box(b) = "up" /\ ~sess.stamp
Withdrawn(b) == Box(b) # "up" /\ sess.stamp

ClassOf(b) == IF Box(b) = "up" THEN "VERIFIED" ELSE "ABANDONED"

\* A classification is never revised.
Classified(b) == IF sess.class = None THEN ClassOf(b) ELSE sess.class

\* Classify, close the escalation, enter TEARDOWN.
EnterTeardown(i, b) ==
    /\ sess' = [sess EXCEPT !.class = Classified(b), !.asked = FALSE,
                    !.state = "TEARDOWN",
                    !.paused = IF sess.state = "TEARDOWN" THEN @ ELSE None]
    /\ Begin(IF ledger = {} THEN "archive" ELSE "ensure", i)
    /\ Deferred

\* Mutant of MayClose: anyone may.
MayCloseAnyone(by) == TRUE

MayClose(by) == by = "owner"

Closed(i) ==
    LET d == inbox[i]
        known == sess.class # None \/ ~(Unproven(d.now) \/ Withdrawn(d.now))
    IN  /\ d.kind = "closed" /\ MayClose(d.by)
        /\ CASE sess.state = "CLOSED" ->
                  /\ sess' = [sess EXCEPT !.asked = FALSE]
                  /\ Settled(i) /\ UNCHANGED job
             [] sess.state # "CLOSED" /\ known -> EnterTeardown(i, d.now)
             [] sess.state # "CLOSED" /\ ~known /\ i \in aged ->
                  /\ Begin("reread", i)
                  /\ Deferred /\ UNCHANGED sess
             [] OTHER -> Deferred /\ UNCHANGED <<sess, job>>
        /\ Quiet /\ UNCHANGED <<tries, ledger, busy, seen>>

\* Someone else closed it: reopen, then ask the owner.
ClosedByOther(i) ==
    /\ inbox[i].kind = "closed" /\ ~MayClose(inbox[i].by)
    /\ \/ /\ open' = TRUE
          /\ IF open THEN UNCHANGED <<inbox, waiting>>
             ELSE /\ inbox' = Append(inbox, [kind |-> "reopened", by |-> "gateway",
                                             prev |-> body, now |-> body])
                  /\ waiting' = waiting \cup {Len(inbox) + 1}
       \/ "reopen" \in world.faults /\ UNCHANGED <<open, inbox, waiting>>
    /\ Begin("complain", i)
    /\ UNCHANGED <<body, tries, sess, ledger, busy, seen>>

Complain ==
    /\ job.step = "complain"
    /\ sess' = IF IsPaused(sess) THEN sess ELSE Escalated(sess, "reason")
    /\ Settled(job.id) /\ job' = Idle
    /\ Quiet /\ UNCHANGED <<batch, tries, ledger, busy, seen>>
    /\ DrainOnly

\* Nothing is classified: hold the session and ask the owner.
Hold == /\ sess' = Escalated(sess, "hold")
        /\ Settled(job.id) /\ job' = Idle

\* After the grace period, the issue itself; an open one cancels the close.
Reread ==
    LET d == inbox[job.id]
        unproven == Box(d.now) = "up"
        lower == IF Box(body) = "up"
                 THEN /\ job' = [job EXCEPT !.step = "lower", !.got = body]
                      /\ UNCHANGED sess /\ Deferred
                 ELSE Hold
    IN  /\ job.step = "reread"
        /\ \/ open /\ Settled(job.id) /\ job' = Idle /\ UNCHANGED sess
           \/ ~open /\ unproven /\ lower
           \/ ~open /\ ~unproven /\ EnterTeardown(job.id, body)
           \/ "get" \in world.faults /\ unproven /\ (Hold \/ lower)
           \/ "get" \in world.faults /\ ~unproven /\ EnterTeardown(job.id, d.now)
        /\ Quiet /\ UNCHANGED <<batch, tries, ledger, busy, seen>>
        /\ DrainOnly

Lower ==
    /\ job.step = "lower"
    /\ \/ body' = Fixed([op |-> "set", to |-> "down"], job.got)
       \/ "patch" \in world.faults /\ UNCHANGED body
    /\ Hold
    /\ UNCHANGED <<open, inbox, batch, tries, ledger, busy, seen>>
    /\ DrainOnly

-----------------------------------------------------------------------------
(* Teardown: the container, a turn of each role, the archive.              *)

\* Mutant of GivesUp: an exhausted delivery stays deferred.
GivesUpNever(i) == FALSE

GivesUp(i) == tries[i] + 1 = MaxTries

\* Mutant of Swept: an exhausted teardown is archived as it is.
SweptOrGivenUp(left) == TRUE

Swept(left) == left = {}

\* Mutant of RetryOrGiveUp: the attempt is not counted.
RetryUncounted(left, after) ==
    Deferred /\ job' = Idle /\ UNCHANGED <<tries, sess>>

\* _teardown_retry_or_give_up, of turns that leave these artifacts.
RetryOrGiveUp(left, after) ==
    IF ~GivesUp(job.id)
    THEN /\ tries' = [tries EXCEPT ![job.id] = @ + 1]
         /\ Deferred /\ job' = Idle /\ UNCHANGED sess
    ELSE /\ tries' = [tries EXCEPT ![job.id] = 0]
         /\ sess' = Escalated(sess, "reason")
         /\ IF after = "archive" /\ Swept(left)
            THEN job' = [job EXCEPT !.step = "archive"] /\ Deferred
            ELSE Settled(job.id) /\ job' = Idle

\* It may recreate the container, and with it the artifacts.
EnsureSession ==
    /\ job.step = "ensure"
    /\ \/ /\ ledger' \in {ledger, Roles}
          /\ sess' = [sess EXCEPT !.state = "TEARDOWN", !.paused = None]
          /\ job' = [job EXCEPT !.step = "developer"]
          /\ Deferred /\ UNCHANGED tries
       \/ "ensure" \in world.faults /\ RetryOrGiveUp(ledger, "archive") /\ UNCHANGED ledger
    /\ Quiet /\ UNCHANGED <<batch, busy, seen>>
    /\ DrainOnly

\* A turn may or may not remove what its role left; a row is closed only when
\* the gateway sees the thing gone.
Confirmed(role) == {ledger, ledger \ {role}}

TeardownTurn(role) ==
    /\ job.step = role
    /\ \E ok \in {TRUE} \cup (IF "turn" \in world.faults THEN {FALSE} ELSE {}) :
           job' = [job EXCEPT
                      !.step = IF role = "developer" THEN "architect" ELSE "tally",
                      !.failed = @ \/ ~ok]
    /\ ledger' \in Confirmed(role)
    /\ Quiet /\ UNCHANGED <<batch, tries, sess, waiting, busy, seen>>
    /\ DrainOnly

\* role_busy, a quota, or a host too full to start the container again.
NoTurn(role) ==
    /\ job.step = role
    /\ busy < world.busy /\ busy' = busy + 1
    /\ job' = Idle /\ Deferred
    /\ Quiet /\ UNCHANGED <<batch, tries, sess, ledger, seen>>
    /\ DrainOnly

Tally ==
    /\ job.step = "tally"
    /\ IF ~job.failed /\ ledger = {}
       THEN /\ job' = [job EXCEPT !.step = "archive"]
            /\ UNCHANGED <<tries, sess>> /\ Deferred
       ELSE RetryOrGiveUp(ledger, "archive")
    /\ Quiet /\ UNCHANGED <<batch, ledger, busy, seen>>
    /\ DrainOnly

\* Archive and purge, then CLOSED.
Archive ==
    /\ job.step = "archive"
    /\ \/ /\ sess' = [sess EXCEPT !.state = "CLOSED", !.paused = None]
          /\ tries' = [tries EXCEPT ![job.id] = 0]
          /\ Settled(job.id) /\ job' = Idle
       \/ "archive" \in world.faults /\ RetryOrGiveUp(ledger, "stop")
    /\ Quiet /\ UNCHANGED <<batch, ledger, busy, seen>>
    /\ DrainOnly

-----------------------------------------------------------------------------
(* issues.reopened and the owner's reply, as far as the hold goes.         *)

\* Mutant of Rearmed: only the sweep forgets that it reported a close.
RearmedBySweepOnly(s) == s

\* Every reopening lets the sweep report again.
Rearmed(s) == [s EXCEPT !.marker = FALSE]

Reopened(i) ==
    /\ inbox[i].kind = "reopened"
    /\ sess' = [Rearmed(sess) EXCEPT
                    !.paused = IF IsHeld(sess) THEN "reason" ELSE @]
    /\ Settled(i)
    /\ Quiet /\ UNCHANGED <<job, tries, ledger, busy, seen>>

\* A reply changes nothing while the session is held; otherwise it ends a
\* pause, and its turn may need the container, and the artifacts, again.
Replied(i) ==
    /\ inbox[i].kind = "reply"
    /\ IF IsPaused(sess) /\ ~IsHeld(sess) /\ sess.state \notin Terminal
       THEN /\ sess' = [sess EXCEPT
                           !.state = IF sess.resume = None THEN "PLANNING"
                                     ELSE sess.resume,
                           !.paused = None, !.resume = None, !.asked = FALSE]
            /\ ledger' \in {ledger, Roles}
            /\ seen' = [seen EXCEPT !.replied = @ \/ ~open]
       ELSE UNCHANGED <<sess, ledger, seen>>
    /\ Settled(i)
    /\ Quiet /\ UNCHANGED <<job, tries, busy>>

\* A pass takes its deliveries in the order received.
Pick ==
    /\ job = Idle
    /\ \E i \in batch :
           /\ \A j \in batch : i <= j
           /\ batch' = batch \ {i}
           /\ Edited(i) \/ Closed(i) \/ ClosedByOther(i) \/ Reopened(i) \/ Replied(i)
    /\ DrainOnly

Drain ==
    \/ StartPass \/ Pick
    \/ GetBody \/ PatchBody
    \/ Complain \/ Reread \/ Lower
    \/ EnsureSession \/ Tally \/ Archive
    \/ \E role \in Roles : TeardownTurn(role) \/ NoTurn(role)

-----------------------------------------------------------------------------
(* The reconciler's sweep.                                                 *)

SweepOnly ==
    UNCHANGED <<github, queue, job, tries, ledger, counters>>

SweepList ==
    /\ world.sweeping /\ sweep.at = "idle" /\ sess.state \notin Terminal
    /\ sweep' = [sweep EXCEPT !.at = "listed", !.state = sess.state,
                     !.held = IsHeld(sess), !.marker = sess.marker]
    /\ UNCHANGED <<sess, seen>> /\ SweepOnly

SweepFetch ==
    /\ sweep.at = "listed"
    /\ sweep' = [sweep EXCEPT !.at = "fetched", !.open = open]
    /\ UNCHANGED <<sess, seen>> /\ SweepOnly

\* A closed issue is reported once, until it is seen open again.
Notices == ~sweep.open /\ ~sweep.marker

\* _escalate reads the state, posts a comment, and writes.
SweepApply ==
    /\ sweep.at = "fetched"
    /\ sess' = [sess EXCEPT
                   !.marker = IF Notices THEN TRUE
                              ELSE IF sweep.open /\ sweep.marker THEN FALSE ELSE @,
                   !.paused = IF sweep.open /\ sweep.held THEN "reason" ELSE @]
    /\ sweep' = [sweep EXCEPT
                    !.at = IF Notices /\ sess.state # "CLOSED" THEN "escalating"
                           ELSE "adopting",
                    !.prev = sess.state]
    /\ UNCHANGED seen /\ SweepOnly

SweepEscalate ==
    /\ sweep.at = "escalating"
    /\ sess' = [Escalated([sess EXCEPT !.state = sweep.prev], "hold")
                   EXCEPT !.marker = sess.marker]
    /\ sweep' = [sweep EXCEPT !.at = "adopting"]
    /\ UNCHANGED seen /\ SweepOnly

\* The state it moves on from is the one it listed.
SweepAdopt ==
    /\ sweep.at = "adopting"
    /\ IF merged /\ sweep.state = "MERGING"
       THEN /\ sess' = [sess EXCEPT !.state = "AWAITING_VERIFICATION"]
            /\ seen' = [seen EXCEPT !.adopted = TRUE]
       ELSE UNCHANGED <<sess, seen>>
    /\ sweep' = Asleep
    /\ SweepOnly

Reconcile == SweepList \/ SweepFetch \/ SweepApply \/ SweepEscalate \/ SweepAdopt

-----------------------------------------------------------------------------

\* Memory holds the attempts, the pass and the sweep.
Crash ==
    /\ crashes < world.crashes /\ crashes' = crashes + 1
    /\ batch' = {} /\ job' = Idle /\ tries' = [i \in Ids |-> 0]
    /\ sweep' = Asleep
    /\ seen' = [seen EXCEPT !.cut = @ \/ sweep.at = "escalating"]
    /\ UNCHANGED <<github, inbox, waiting, aged, sess, ledger, acts, busy>>

Next == GitHub \/ GraceElapses \/ Drain \/ Reconcile \/ Crash

Fairness == WF_vars(Drain) /\ WF_vars(Reconcile) /\ WF_vars(GraceElapses)

Spec == Init /\ [][Next]_vars
FairSpec == Spec /\ Fairness

-----------------------------------------------------------------------------

\* Every variable has its type; no delivery outlives its attempts.
TypeOK ==
    /\ body \in Bodies /\ open \in BOOLEAN /\ merged \in BOOLEAN
    /\ inbox \in Seq(Deliveries) /\ Len(inbox) <= MaxDeliveries
    /\ waiting \subseteq DOMAIN inbox /\ aged \subseteq DOMAIN inbox
    /\ batch \subseteq waiting
    /\ job \in Jobs /\ (job.step = "idle" <=> job.id = 0)
    /\ tries \in [Ids -> 0 .. MaxTries - 1]
    /\ sess \in Sessions /\ ledger \subseteq Roles /\ sweep \in Sweeps
    /\ acts \in 0 .. MaxActs /\ busy \in 0 .. world.busy /\ crashes \in 0 .. world.crashes
    /\ seen \in Memory

\* Section 10.3 and ADR-17: no session is recorded as verified unless the
\* owner once left the box up, whatever agents write, whichever webhooks are
\* lost and whenever the gateway restores it.
NeverForged == sess.class = "VERIFIED" => seen.vouched

\* ADR-16: a restore raises the box only if the owner once left it up.
OnlyVouchedRaises ==
    [][PatchBody /\ body # "up" /\ body' = "up" => seen.vouched]_vars

\* A session is closed only once every artifact of it is seen gone.
ClosedIsSwept == sess.state = "CLOSED" => ledger = {}

\* Section 10.3: only a close by the owner classifies or tears down.
TornDownByOwner ==
    sess.class # None \/ {sess.state, sess.resume} \cap Terminal # {}
        => seen.closedByOwner

\* Every delivery about the issue is settled, the owner's close included:
\* through its grace period, retries, busy roles and restarts the drain runs
\* dry again and again.
EverySettles == []<>(waiting = {})

\* An issue that stays closed ends its session or puts a question to the
\* owner, even if no webhook tells; unless the owner replied to it closed, a
\* sweep overwrote the state, or a kill cut its report short.
CloseIsNoticed ==
    <>[]~open => <>[](\/ sess.state = "CLOSED" \/ IsPaused(sess)
                      \/ seen.replied \/ seen.adopted \/ seen.cut)

\* Section 10.2: a tick is recorded only for an edit of the owner that ticks
\* (violated: any edit of the owner over a box an agent has just ticked).
StampIsAFlip == sess.stamp => seen.flipped
=============================================================================
