---------------------------- MODULE SessionLoop ----------------------------
(***************************************************************************)
(* The drain: the single thread that takes deferred webhook deliveries one *)
(* at a time through the session loop and turns them into agent turns.     *)
(*                                                                         *)
(* One session (one issue) of one project is modelled.  A delivery passes  *)
(* through stages, and between two stages the process may be killed, which *)
(* loses the in-memory part of the state and nothing else:                 *)
(*                                                                         *)
(*   idle -> [created] -> record -> gate -> stamped -> dispatch -> turn    *)
(*   idle -> unpause -> [ensure] -> dispatch -> turn     (owner's reply)   *)
(*                                                                         *)
(* An approval is looked up on GitHub, in two reads, before it leaves idle.*)
(*                                                                         *)
(* issues.closed and issues.edited are not in this module.                 *)
(***************************************************************************)
EXTENDS Fsm, Naturals, FiniteSets

CONSTANTS
    MaxDeliveries,   \* bound: deliveries ever received
    MaxHead,         \* bound: pushes to one pull request
    PassLimit,       \* rows a pass lists
    MaxCrashes,      \* bound: kills of the gateway
    DesignPRs,       \* pull requests from the architect's branch
    FeaturePRs,      \* pull requests from the developer's branch
    DispatchMax,     \* _DELIVERY_MAX_ATTEMPTS
    AuthMax,         \* _MERGE_AUTH_MAX_ATTEMPTS
    SilentLimit,     \* config.silent_turn_limit
    TurnLimit,       \* BudgetState.max_turns
    ConsecLimit,     \* BudgetState.max_consec_agent
    RoundLimit,      \* BudgetState.max_review_rounds
    ZeroLimit,       \* StallTracker.zero_thread_threshold
    Happenings,      \* the things that may happen on GitHub in a run
    Commenters,      \* who may comment in a run
    TurnResults,     \* the statuses a runner may return in a run
    Faults,          \* the failures a run may inject
    Starts           \* the [row, gh] pairs a run may start from

Deliveries == 1 .. MaxDeliveries
Heads == 0 .. MaxHead
PRs == DesignPRs \cup FeaturePRs
Roles == {"architect", "developer"}
Senders == Roles \cup {"owner", "human", "gateway"}
None == "none"

AllHappenings == {"issue", "reopen", "open", "push", "resync", "review",
                  "merge", "comment", "part", "sibling", "crowd"}
AllFaults == {"capacity", "structural", "error", "get", "verify", "stalled"}
AllResults == {"done", "failed", "needs_human", "quota_exhausted",
               "gateway_timeout", "role_busy"}

Author(p) == IF p \in DesignPRs THEN "architect" ELSE "developer"
Other(r) == IF r = "architect" THEN "developer" ELSE "architect"

Opened == {"design_pr_opened", "feature_pr_opened"}
Revised == {"design_revised", "feature_revised"}
Unverified == {"design_approved_unverified", "feature_approved_unverified"}
Changes == {"design_changes_requested", "code_changes_requested"}
Merged == {"design_merged", "feature_merged"}

RawKinds == Opened \cup Revised \cup Unverified \cup Changes \cup Merged \cup
            {"issue_opened", "reopened", "owner_reply", "comment",
             "pr_comment", "review_part"}
Kinds == RawKinds \cup {"design_approved", "merge_authorized"}

\* _HEAD_WM: the kinds that take a head, and the session column they take.
TakesHead == Opened \cup Revised
Half(k) == IF k \in {"design_pr_opened", "design_revised", "design_merged",
                     "design_approved_unverified", "design_changes_requested"}
           THEN "design" ELSE "feature"

\* _OBSERVED_PROGRESS_KINDS
Progress == (Kinds \ Unverified) \ {"reopened", "comment", "pr_comment",
                                    "review_part"}

\* What is not said on a pull request is said on the issue.
OnIssue == {"issue_opened", "reopened", "owner_reply", "comment"}

\* synth: the reconciler's copy of a synchronize, under its own delivery id.
Event == {e \in [kind : RawKinds, sender : Senders, pr : PRs \cup {None},
                 sha : Heads, synth : BOOLEAN] :
             /\ e.pr = None <=> e.kind \in OnIssue
             /\ e.kind = "owner_reply" => e.sender = "owner"}

SessionRow == [state    : SessionStates \cup {None},
               paused   : {None, "plain", "hold"},   \* paused_reason
               resume   : SessionStates \cup {None},
               pr       : [{"design", "feature"} -> PRs \cup {None}],
               head     : [{"design", "feature"} -> Heads],
               endpoint : BOOLEAN]

\* The other role's last verdict on the first page of the reviews, and the head
\* it is of.  The list is oldest first: once others have filled the page, it
\* shows nothing new.
Verdict == [said : {None, "approved", "changes"}, at : Heads]
Forge == [PRs -> [phase  : {None, "open", "merged", "closed"},
                  head   : Heads,
                  shown  : Verdict,
                  full   : BOOLEAN]]

ASSUME BoundsAssumption ==
    /\ MaxDeliveries \in Nat /\ MaxHead \in Nat \ {0} /\ MaxCrashes \in Nat
    /\ PassLimit \in Nat \ {0}
    /\ DispatchMax \in Nat \ {0} /\ AuthMax \in Nat \ {0}
    /\ SilentLimit \in Nat \ {0} /\ TurnLimit \in Nat \ {0}
    /\ ConsecLimit \in Nat \ {0} /\ RoundLimit \in Nat \ {0}
    /\ ZeroLimit \in Nat \ {0}

ASSUME ChoicesAssumption ==
    /\ DesignPRs \cap FeaturePRs = {} /\ None \notin PRs
    /\ Happenings \subseteq AllHappenings /\ Commenters \subseteq Senders
    /\ TurnResults \subseteq AllResults /\ Faults \subseteq AllFaults
    /\ Starts \subseteq [row : SessionRow, gh : Forge]

\* Nothing is pushed before a pull request is opened, and no head is reviewed
\* before it is pushed.
ASSUME ReviewsAssumption ==
    \A start \in Starts : \A p \in PRs :
        LET pr == start.gh[p]
        IN  (pr.phase = None => pr.head = 0) /\ pr.shown.at <= pr.head

VARIABLES
    gh,         \* GitHub: the pull requests as they are
    wire,       \* webhooks GitHub has sent and the gateway has not received
    received,   \* number of deliveries in the table
    event,      \* deliveries.payload
    status,     \* deliveries.status
    parked,     \* deliveries.next_attempt_at lies in the future
    sess,       \* the sessions row
    count,      \* its loop-safety counters
    esc,        \* role of the latest open escalations row
    block,      \* an open project_blocks row
    batch,      \* rows of the pass that are still to be processed
    pc,         \* where in process_one the drain thread is
    job,        \* the local variables of process_one
    hold,       \* _role_busy_until[role] lies in the future
    tries,      \* _delivery_attempts
    authTries,  \* _merge_auth_attempts
    turnsFor,   \* history: turns the runner accepted for a delivery
    took,       \* history: the delivery moved the FSM or stamped its head
    why,        \* history: why a delivery was settled
    crashes     \* history: kills so far

queue  == <<wire, received, event>>
rows   == <<sess, count, esc, block>>
memory == <<hold, tries, authTries>>
trace  == <<turnsFor, took, why>>
vars   == <<gh, queue, status, parked, rows, batch, pc, job, memory, trace,
            crashes>>

NoEvent == [kind |-> "comment", sender |-> "human", pr |-> None, sha |-> 0,
            synth |-> FALSE]

\* The reviews that were read for delivery of; the live head at that moment is
\* history.
Unseen == [of |-> 0, shown |-> [said |-> None, at |-> 0], head |-> 0]

NoJob == [d |-> 0, kind |-> "comment", role |-> "architect", drop |-> FALSE,
          state |-> "PLANNING", held |-> FALSE, before |-> "PLANNING",
          resumed |-> FALSE, mark |-> 0, prompt |-> "PLANNING", seen |-> Unseen]

Job == [d : 0 .. MaxDeliveries, kind : Kinds, role : Roles, drop : BOOLEAN,
        state : SessionStates \cup {None}, held : BOOLEAN,
        before : SessionStates \cup {None}, resumed : BOOLEAN,
        mark : 0 .. MaxDeliveries, prompt : SessionStates \cup {None},
        seen : [of : 0 .. MaxDeliveries, shown : Verdict, head : Heads]]

Counters == [turns : Nat, consec : Nat, silent : Nat, rounds : Nat, zero : Nat]

Init ==
    /\ \E s \in Starts : sess = s.row /\ gh = s.gh
    /\ esc = IF sess.state = "PAUSED_HUMAN" THEN "system" ELSE None
    /\ wire = {} /\ received = 0
    /\ event = [d \in Deliveries |-> NoEvent]
    /\ status = [d \in Deliveries |-> "absent"]
    /\ parked = [d \in Deliveries |-> FALSE]
    /\ count = [turns |-> 0, consec |-> 0, silent |-> 0, rounds |-> 0, zero |-> 0]
    /\ block = FALSE
    /\ batch = {} /\ pc = "idle" /\ job = NoJob
    /\ hold = [r \in Roles |-> FALSE]
    /\ tries = [d \in Deliveries |-> 0]
    /\ authTries = [d \in Deliveries |-> 0]
    /\ turnsFor = [d \in Deliveries |-> 0]
    /\ took = [d \in Deliveries |-> FALSE]
    /\ why = [d \in Deliveries |-> None]
    /\ crashes = 0
-----------------------------------------------------------------------------
(* GitHub, its users and agents, and the wire.                             *)

Webhook(k, s, p, h) ==
    [kind |-> k, sender |-> s, pr |-> p, sha |-> h, synth |-> FALSE]

Send(e) ==
    /\ received + Cardinality(wire) < MaxDeliveries
    /\ wire' = wire \cup {e}

OpenPR(p) ==
    /\ "open" \in Happenings /\ gh[p].phase = None
    /\ gh' = [gh EXCEPT ![p].phase = "open", ![p].head = 1]
    /\ Send(Webhook(IF p \in DesignPRs THEN "design_pr_opened"
                    ELSE "feature_pr_opened", Author(p), p, 1))

Push(p) ==
    /\ "push" \in Happenings /\ gh[p].phase = "open" /\ gh[p].head < MaxHead
    /\ gh' = [gh EXCEPT ![p].head = @ + 1]
    /\ Send(Webhook(IF p \in DesignPRs THEN "design_revised"
                    ELSE "feature_revised", Author(p), p, gh[p].head + 1))

Review(p, verdict) ==
    /\ "review" \in Happenings /\ gh[p].phase = "open"
    /\ LET word == [said |-> verdict, at |-> gh[p].head]
       IN  gh' = [gh EXCEPT ![p].shown = IF gh[p].full THEN @ ELSE word]
    /\ Send(Webhook(
         CASE verdict = "approved" /\ p \in DesignPRs  -> "design_approved_unverified"
           [] verdict = "approved" /\ p \in FeaturePRs -> "feature_approved_unverified"
           [] verdict = "changes"  /\ p \in DesignPRs  -> "design_changes_requested"
           [] verdict = "changes"  /\ p \in FeaturePRs -> "code_changes_requested",
         Other(Author(p)), p, gh[p].head))

\* Others go on commenting until the page is full.
Crowd(p) ==
    /\ "crowd" \in Happenings /\ gh[p].phase = "open" /\ ~gh[p].full
    /\ gh' = [gh EXCEPT ![p].full = TRUE]
    /\ UNCHANGED wire

MergePR(p) ==
    /\ "merge" \in Happenings /\ gh[p].phase = "open"
    /\ gh' = [gh EXCEPT ![p].phase = "merged"]
    /\ Send(Webhook(IF p \in DesignPRs THEN "design_merged"
                    ELSE "feature_merged", Author(p), p, gh[p].head))

\* The reconciler saw a head the session never took and synthesizes the
\* synchronize GitHub did not deliver; its delivery id admits it once per head.
Resync(p) ==
    LET k == IF p \in DesignPRs THEN "design_revised" ELSE "feature_revised"
        e == [Webhook(k, Author(p), p, gh[p].head) EXCEPT !.synth = TRUE]
    IN  /\ "resync" \in Happenings /\ gh[p].phase = "open"
        /\ sess.pr[Half(k)] = p /\ sess.head[Half(k)] # gh[p].head
        /\ e \notin wire /\ \A d \in Deliveries : event[d] # e
        /\ Send(e) /\ UNCHANGED gh

Talk ==
    /\ \E s \in Commenters :
        \/ /\ "comment" \in Happenings
           /\ Send(Webhook(IF s = "owner" THEN "owner_reply" ELSE "comment",
                           s, None, 0))
        \/ "issue" \in Happenings /\ Send(Webhook("issue_opened", s, None, 0))
        \/ "reopen" \in Happenings /\ Send(Webhook("reopened", s, None, 0))
        \/ /\ "part" \in Happenings
           /\ \E p \in PRs : /\ gh[p].phase = "open"
                             /\ \/ Send(Webhook("review_part", s, p, 0))
                                \/ Send(Webhook("pr_comment", s, p, 0))
    /\ UNCHANGED gh

\* Another issue of the same project is refused for the same host fault, or
\* its owner answers: the project block is shared, this session's row is not.
Sibling ==
    /\ "sibling" \in Happenings
    /\ block' = ~block
    /\ UNCHANGED <<gh, queue, status, parked, sess, count, esc, batch, pc, job,
                   memory, trace, crashes>>

GitHub ==
    /\ \/ \E p \in PRs : \/ OpenPR(p) \/ Push(p) \/ Crowd(p) \/ MergePR(p) \/ Resync(p)
                         \/ Review(p, "approved") \/ Review(p, "changes")
       \/ Talk
    /\ UNCHANGED <<received, event, status, parked, rows, batch, pc, job,
                   memory, trace, crashes>>

\* A webhook is stored once and reaches status deferred; the wire reorders.
Arrive ==
    /\ \E e \in wire :
        /\ wire' = wire \ {e}
        /\ received' = received + 1
        /\ event' = [event EXCEPT ![received + 1] = e]
        /\ status' = [status EXCEPT ![received + 1] = "deferred"]
    /\ UNCHANGED <<gh, parked, rows, batch, pc, job, memory, trace, crashes>>

-----------------------------------------------------------------------------
(* The pass over the deferred rows.                                        *)

Eligible == {d \in Deliveries : status[d] = "deferred" /\ ~parked[d]}

Oldest(n, ids) == {d \in ids : Cardinality({e \in ids : e < d}) < n}

\* list_deferred: the batch is fixed here; rows that arrive later wait, and so
\* do rows beyond the limit.
StartPass ==
    /\ pc = "idle" /\ batch = {} /\ Eligible # {}
    /\ batch' = Oldest(PassLimit, Eligible)
    /\ UNCHANGED <<gh, queue, status, parked, rows, pc, job, memory, trace,
                   crashes>>

\* Oldest first.
AtFront(d) == pc = "idle" /\ d \in batch /\ \A x \in batch : d <= x

\* Mutant of Back: the row stays in the pass.
BackKeepingRow(d) == batch' = batch /\ pc' = "idle" /\ job' = NoJob

Back(d) == batch' = batch \ {d} /\ pc' = "idle" /\ job' = NoJob

Settle(d, st, reason) ==
    /\ status' = [status EXCEPT ![d] = st]
    /\ why' = [why EXCEPT ![d] = reason]
    /\ Back(d)

\* An early return that writes no status: the row is picked again.
Leave(d) == Back(d) /\ UNCHANGED <<status, why>>

ClockElapses(d) ==
    /\ parked[d]
    /\ parked' = [parked EXCEPT ![d] = FALSE]
    /\ UNCHANGED <<gh, queue, status, rows, batch, pc, job, memory, trace,
                   crashes>>

HoldExpires(r) ==
    /\ hold[r]
    /\ hold' = [hold EXCEPT ![r] = FALSE]
    /\ UNCHANGED <<gh, queue, status, parked, rows, batch, pc, job, tries,
                   authTries, trace, crashes>>

-----------------------------------------------------------------------------
(* Escalation and structural refusal.                                      *)

\* Mutant of PauseRow: a second pause remembers the first as the way back.
PauseRowAgain(s, reason) ==
    IF s.state = "CLOSED" THEN s
    ELSE [s EXCEPT !.state = "PAUSED_HUMAN", !.paused = reason,
                   !.resume = s.state]

PauseRow(s, reason) ==
    IF s.state = "CLOSED" THEN s
    ELSE [s EXCEPT !.state = "PAUSED_HUMAN", !.paused = reason,
                   !.resume = IF s.state # "PAUSED_HUMAN" THEN s.state
                              ELSE IF s.resume = None THEN "PLANNING"
                              ELSE s.resume]

Escalate(role) ==
    /\ sess' = PauseRow(sess, "plain")
    /\ esc' = IF sess.state = "CLOSED" THEN esc ELSE role

\* _handle_structural_refusal: one question per blocked project.
RefuseStructurally(d) ==
    LET row == IF sess.state = None
               THEN [sess EXCEPT !.state = "PAUSED_HUMAN", !.paused = "plain",
                                 !.resume = "PLANNING"]
               ELSE [sess EXCEPT !.state = "PAUSED_HUMAN", !.paused = "plain",
                                 !.resume = sess.state]
    IN  /\ IF block THEN sess' = row /\ esc' = esc
           ELSE sess' = PauseRow(row, "plain") /\ esc' = "system"
        /\ block' = TRUE
        /\ Settle(d, "done", "structural")

\* Mutant of RetryOrGiveUp: no limit.
RetryForEver(d) ==
    /\ tries' = [tries EXCEPT ![d] = @ + 1]
    /\ Leave(d)
    /\ UNCHANGED <<sess, esc>>

\* _retry_or_give_up
RetryOrGiveUp(d) ==
    IF tries[d] + 1 < DispatchMax
    THEN /\ tries' = [tries EXCEPT ![d] = @ + 1]
         /\ Leave(d)
         /\ UNCHANGED <<sess, esc>>
    ELSE /\ tries' = [tries EXCEPT ![d] = 0]
         /\ Escalate("system")
         /\ Settle(d, "done", "gave_up")

-----------------------------------------------------------------------------
(* process_one, from the row to the routing decision.                      *)

IsPaused == sess.state = "PAUSED_HUMAN" \/ sess.paused # None
IsHeld   == sess.state = "PAUSED_HUMAN" /\ sess.paused = "hold"

\* Mutant of Breached: one turn too many.
BreachedLate == \/ count.turns > TurnLimit
                \/ count.consec > ConsecLimit
                \/ count.rounds > RoundLimit

Breached == \/ count.turns >= TurnLimit
            \/ count.consec >= ConsecLimit
            \/ count.rounds >= RoundLimit

\* Parts of a review, and what a PR's author (not the owner) says on it.
NoCue(e) == \/ e.kind = "review_part"
            \/ e.kind = "pr_comment" /\ e.sender = Author(e.pr)

Lifts(e) == e.kind = "reopened" /\ IsHeld

\* Only an intake-passing issues event creates a session.
DropSessionless(d) ==
    /\ AtFront(d) /\ sess.state = None
    /\ event[d].kind \notin {"issue_opened", "reopened"}
    /\ Settle(d, "dropped", "no_session")
    /\ UNCHANGED <<parked, rows, memory, turnsFor, took>>

\* Mutant of CreateSession: a full host settles the delivery.
CreateSessionOnce(d) ==
    /\ AtFront(d) /\ sess.state = None
    /\ event[d].kind \in {"issue_opened", "reopened"}
    /\ \/ /\ ~block
          /\ sess' = [sess EXCEPT !.state = "INTAKE", !.endpoint = TRUE]
          /\ pc' = "created"
          /\ UNCHANGED <<status, why, batch, job, esc, block>>
       \/ /\ "capacity" \in Faults /\ ~block
          /\ Settle(d, "done", "capacity") /\ UNCHANGED <<sess, esc, block>>
    /\ UNCHANGED <<parked, count, memory, turnsFor, took>>

\* ensure_session made the row in INTAKE; the handler then moves it on.  A
\* failure may leave that row behind.
CreateSession(d) ==
    /\ AtFront(d) /\ sess.state = None
    /\ event[d].kind \in {"issue_opened", "reopened"}
    /\ \/ /\ ~block
          /\ sess' = [sess EXCEPT !.state = "INTAKE", !.endpoint = TRUE]
          /\ pc' = "created"
          /\ UNCHANGED <<status, why, batch, job, esc, block>>
       \/ /\ "capacity" \in Faults /\ ~block
          /\ Leave(d) /\ UNCHANGED <<sess, esc, block>>
       \/ /\ "error" \in Faults /\ ~block
          /\ \/ UNCHANGED sess
             \/ sess' = [sess EXCEPT !.state = "INTAKE"]
          /\ Leave(d) /\ UNCHANGED <<esc, block>>
       \/ /\ "structural" \in Faults \/ block
          /\ RefuseStructurally(d)
    /\ UNCHANGED <<parked, count, memory, turnsFor, took>>

FinishCreate ==
    /\ pc = "created"
    /\ sess' = [sess EXCEPT !.state = Transition("INTAKE", "session_created")]
    /\ pc' = "idle"
    /\ UNCHANGED <<status, parked, count, esc, block, batch, job, memory, trace>>

Known(d) == AtFront(d) /\ sess.state # None

IgnorePart(d) ==
    /\ Known(d) /\ NoCue(event[d])
    /\ Settle(d, "done", "no_cue")
    /\ UNCHANGED <<parked, rows, memory, turnsFor, took>>

\* _lift_close_reconcile_hold: strip the prefix, dispatch nothing.
LiftHold(d) ==
    /\ Known(d) /\ Lifts(event[d])
    /\ sess' = [sess EXCEPT !.paused = "plain"]
    /\ Settle(d, "done", "lifted")
    /\ UNCHANGED <<parked, count, esc, block, memory, turnsFor, took>>

Cue(d) == Known(d) /\ ~NoCue(event[d]) /\ ~Lifts(event[d])

BudgetBreach(d) ==
    /\ Cue(d) /\ ~IsPaused /\ Breached
    /\ Escalate("system")
    /\ Settle(d, "done", "budget")
    /\ UNCHANGED <<parked, count, block, memory, turnsFor, took>>

Within(d) == Cue(d) /\ (IsPaused \/ ~Breached)

Kind(d) == IF event[d].kind = "reopened" THEN "issue_opened" ELSE event[d].kind

\* verify.py reads the reviews first and the pull request after them.
ReadsReviews(d) ==
    /\ Within(d) /\ Kind(d) \in Unverified /\ job.seen.of # d
    /\ LET pr == gh[event[d].pr]
       IN  job' = [NoJob EXCEPT !.seen = [of |-> d, shown |-> pr.shown, head |-> pr.head]]
    /\ UNCHANGED <<status, parked, rows, batch, pc, memory, trace>>

HasRead(d) == Within(d) /\ Kind(d) \in Unverified /\ job.seen.of = d

\* Mutant of Approval: the head the webhook told of.
ApprovalOfEvent(d) ==
    CASE job.seen.shown.said = None -> "permanent"
      [] job.seen.shown.said = "changes" -> "superseded"
      [] job.seen.shown.said = "approved" /\ job.seen.shown.at # event[d].sha -> "superseded"
      [] OTHER -> "ok"

\* The counterpart's latest verdict against the live head, plus what the API,
\* the checks and mergeability can add.
Approval(d) ==
    CASE job.seen.shown.said = None -> "permanent"
      [] job.seen.shown.said = "changes" -> "superseded"
      [] job.seen.shown.said = "approved"
            /\ job.seen.shown.at # gh[event[d].pr].head -> "superseded"
      [] OTHER -> "ok"

Checks(d) ==
    {Approval(d)} \cup
    (IF "verify" \notin Faults THEN {}
     ELSE IF event[d].pr \in DesignPRs THEN {"permanent"}
     ELSE {"transient"} \cup (IF Approval(d) = "ok" THEN {"permanent"} ELSE {}))

Superseded(d) ==
    /\ HasRead(d) /\ "superseded" \in Checks(d)
    /\ authTries' = [authTries EXCEPT ![d] = 0]
    /\ Settle(d, "dropped", "superseded")
    /\ UNCHANGED <<parked, rows, hold, tries, turnsFor, took>>

\* Mutant of VerifyLater: a transient failure is never given up on.
VerifyForEver(d) ==
    /\ HasRead(d) /\ "transient" \in Checks(d)
    /\ Leave(d)
    /\ UNCHANGED <<sess, esc, parked, count, block, memory, turnsFor, took>>

VerifyLater(d) ==
    /\ HasRead(d) /\ "transient" \in Checks(d)
    /\ IF authTries[d] + 1 < AuthMax
       THEN /\ authTries' = [authTries EXCEPT ![d] = @ + 1]
            /\ Leave(d)
            /\ UNCHANGED <<sess, esc>>
       ELSE /\ authTries' = [authTries EXCEPT ![d] = 0]
            /\ Escalate("system")
            /\ Settle(d, "done", "unverified")
    /\ UNCHANGED <<parked, count, block, hold, tries, turnsFor, took>>

VerifyFails(d) ==
    /\ HasRead(d) /\ "permanent" \in Checks(d)
    /\ authTries' = [authTries EXCEPT ![d] = 0]
    /\ Escalate("system")
    /\ Settle(d, "done", "unverified")
    /\ UNCHANGED <<parked, count, block, hold, tries, turnsFor, took>>

\* Mutant of Untracked: whatever was merged will do.
NeverUntracked(d) == FALSE

Untracked(d) == Kind(d) \in Merged /\ sess.pr[Half(Kind(d))] # event[d].pr

DropUntrackedMerge(d) ==
    /\ Within(d) /\ Untracked(d)
    /\ Settle(d, "dropped", "untracked")
    /\ UNCHANGED <<parked, rows, memory, turnsFor, took>>

\* A merge of the tracked Feature PR counts only in MERGING, paused or not.
LateMerge(d) == /\ Kind(d) = "feature_merged" /\ ~Untracked(d)
                /\ sess.state # "MERGING"

FeatureMergedElsewhere(d) ==
    /\ Within(d) /\ LateMerge(d)
    /\ IF sess.state = "AWAITING_VERIFICATION"
       THEN UNCHANGED <<sess, esc>> /\ Settle(d, "done", "redelivered")
       ELSE Escalate("system") /\ Settle(d, "done", "unauthorized")
    /\ UNCHANGED <<parked, count, block, memory, turnsFor, took>>

\* d reaches the router as kind k.
Routable(d, k) ==
    /\ Within(d) /\ ~Untracked(d) /\ ~LateMerge(d)
    /\ IF Kind(d) \in Unverified
       THEN /\ HasRead(d) /\ "ok" \in Checks(d)
            /\ k = IF Kind(d) = "design_approved_unverified"
                   THEN "design_approved" ELSE "merge_authorized"
       ELSE k = Kind(d)

Recipient(k, sender) ==
    IF k \in {"issue_opened", "design_changes_requested", "design_approved",
              "feature_pr_opened", "feature_revised", "feature_merged"}
    THEN "architect"
    ELSE IF k \in {"design_pr_opened", "design_revised", "design_merged",
                   "code_changes_requested", "merge_authorized"}
    THEN "developer"
    ELSE IF sender = "architect" THEN "developer" ELSE "architect"

\* route_for_recipient; what neither defers nor drops is routed.
Drops(e, r)  == e.sender \in {r, "gateway"}
\* Mutant of Defers: only a close holds agents back.
DefersIfHeld(e, r) == IsHeld /\ e.sender \notin {r, "gateway", "owner"}
Defers(e, r) == IsPaused /\ e.sender \notin {r, "gateway", "owner"}

ForgetTries(d) == authTries' = [authTries EXCEPT ![d] = 0]

Defer(d, k) ==
    /\ Routable(d, k) /\ Defers(event[d], Recipient(k, event[d].sender))
    /\ ForgetTries(d)
    /\ IF sess.state \in TerminalStates
       THEN parked' = parked /\ Settle(d, "done", "terminal")
       ELSE parked' = [parked EXCEPT ![d] = TRUE] /\ Leave(d)
    /\ UNCHANGED <<rows, hold, tries, turnsFor, took>>

\* reset_consec: owner activity resets two counters, paused or not.
OwnerResets(d) ==
    count' = IF event[d].sender = "owner"
             THEN [count EXCEPT !.consec = 0, !.silent = 0] ELSE count

\* Mutant of Replies: anyone's comment answers the question.
RepliesByAnyone(k) == IsPaused /\ k \in {"owner_reply", "comment"}

Replies(k) == IsPaused /\ k = "owner_reply"

\* A held session, or one closed meanwhile, does not resume on a reply.
IgnoreReply(d, k) ==
    /\ Routable(d, k) /\ Replies(k)
    /\ OwnerResets(d)
    /\ \/ IsHeld /\ Settle(d, "done", "held")
       \/ sess.state \in TerminalStates /\ Settle(d, "done", "terminal")
    /\ UNCHANGED <<parked, sess, esc, block, memory, turnsFor, took>>

JobFor(d, k, r) ==
    [d |-> d, kind |-> k, role |-> r, drop |-> Drops(event[d], r),
     state |-> sess.state, held |-> IsHeld, before |-> sess.state,
     resumed |-> FALSE, mark |-> 0, prompt |-> NoJob.prompt, seen |-> Unseen]

\* _resume_from_escalation, first half: the question is answered, all clocks
\* are cleared, the project is unblocked.
BeginResume(d, k) ==
    /\ Routable(d, k) /\ Replies(k)
    /\ ~IsHeld /\ sess.state \notin TerminalStates
    /\ OwnerResets(d)
    /\ esc' = None /\ block' = FALSE
    /\ parked' = [x \in Deliveries |-> FALSE]
    /\ pc' = "unpause"
    /\ job' = [JobFor(d, k, IF esc \in Roles THEN esc ELSE "architect")
                  EXCEPT !.resumed = TRUE, !.drop = FALSE]
    /\ UNCHANGED <<status, sess, batch, memory, trace>>

Admit(d, k) ==
    /\ Routable(d, k) /\ ~Replies(k)
    /\ LET r == Recipient(k, event[d].sender)
       IN  /\ ~Defers(event[d], r)
           /\ job' = JobFor(d, k, r)
    /\ OwnerResets(d) /\ ForgetTries(d)
    /\ pc' = "record"
    /\ UNCHANGED <<status, parked, sess, esc, block, batch, hold, tries, trace>>

-----------------------------------------------------------------------------
(* process_one, from the spent-head gates to the state machine.            *)

\* What a GET of the live PR may return: its record, or nothing on failure.
Gets == IF "get" \in Faults THEN {TRUE, FALSE} ELSE {TRUE}

Now == event[job.d]

\* ADR-40: an opened PR that is already tracked.  ADR-37: a head already
\* taken, or no longer the live one.
AlreadyTracked == job.kind \in Opened /\ sess.pr[Half(job.kind)] = Now.pr
\* Mutant of DuplicateHead: only the reconciler repeats itself.
DuplicateSynthesis == /\ job.kind \in Revised /\ Now.synth
                      /\ sess.head[Half(job.kind)] = Now.sha
DuplicateHead  == job.kind \in Revised /\ sess.head[Half(job.kind)] = Now.sha
StaleHead(got) == job.kind \in Revised /\ got /\ gh[Now.pr].head # Now.sha

SkipSpentHead ==
    /\ pc = "record"
    /\ \/ AlreadyTracked /\ Settle(job.d, "done", "tracked")
       \/ DuplicateHead /\ Settle(job.d, "done", "duplicate")
       \/ /\ ~DuplicateHead /\ \E got \in Gets : StaleHead(got)
          /\ Settle(job.d, "done", "stale")
    /\ UNCHANGED <<parked, rows, memory, turnsFor, took>>

\* The FSM moves on what GitHub reports even if the turn is dropped below.
Record ==
    /\ pc = "record" /\ ~AlreadyTracked /\ ~DuplicateHead
    /\ \E got \in Gets : ~StaleHead(got)
    /\ LET to == Transition(job.state, job.kind)
       IN  /\ sess' = IF to = job.state THEN sess
                      ELSE IF job.kind \in Opened
                      THEN [sess EXCEPT !.state = to, !.pr[Half(job.kind)] = Now.pr]
                      ELSE [sess EXCEPT !.state = to]
           /\ job' = [job EXCEPT !.state = to]
           /\ took' = [took EXCEPT ![job.d] = @ \/ to # job.state]
    /\ pc' = "gate"
    /\ UNCHANGED <<status, parked, count, esc, block, batch, memory, turnsFor, why>>

Spent(got) == /\ job.kind \notin Merged /\ Now.pr # None
              /\ got /\ gh[Now.pr].phase \in {"merged", "closed"}

GateNoTurn ==
    /\ pc = "gate"
    /\ \/ job.state \in TerminalStates /\ Settle(job.d, "done", "terminal")
       \/ /\ job.state \notin TerminalStates
          /\ \E got \in Gets : Spent(got)
          /\ Settle(job.d, "done", "spent")
    /\ UNCHANGED <<parked, rows, memory, turnsFor, took>>

\* The head is stamped as taken before anything is dispatched.
StampHead ==
    /\ pc = "gate" /\ job.state \notin TerminalStates
    /\ \E got \in Gets :
        /\ ~Spent(got)
        /\ IF job.kind \in TakesHead
           THEN /\ sess' = [sess EXCEPT !.head[Half(job.kind)] =
                               IF job.kind \in Opened /\ got
                               THEN gh[Now.pr].head ELSE Now.sha]
                /\ took' = [took EXCEPT ![job.d] = TRUE]
           ELSE UNCHANGED <<sess, took>>
    /\ pc' = "stamped"
    /\ UNCHANGED <<status, parked, count, esc, block, batch, job, memory,
                   turnsFor, why>>

-----------------------------------------------------------------------------
(* process_one, from the stamp to the turn.                                *)

SkipHeld ==
    /\ pc = "stamped" /\ job.held
    /\ Settle(job.d, "done", "held")
    /\ UNCHANGED <<parked, rows, memory, turnsFor, took>>

\* The role is waiting out a quota or a timed-out turn: wait with it.
AwaitRole ==
    /\ pc = "stamped" /\ ~job.held /\ hold[job.role]
    /\ parked' = [parked EXCEPT ![job.d] = TRUE]
    /\ Leave(job.d)
    /\ UNCHANGED <<rows, memory, turnsFor, took>>

Passes == pc = "stamped" /\ ~job.held /\ ~hold[job.role]

Observes == ~job.drop /\ job.kind \in Changes \cup Revised

DropTurn ==
    /\ Passes /\ job.drop
    /\ Settle(job.d, "done", "not_routed")
    /\ UNCHANGED <<parked, rows, memory, turnsFor, took>>

\* _observe_stall_signals counts a round of design review, and the rounds in
\* a row that resolved no thread; a failed fetch leaves the latter alone.  The
\* fingerprint signal is in module StallSignals.
Threads == IF "stalled" \in Faults THEN {"resolved", "none", "unknown"}
           ELSE {"resolved"}

ZeroRounds(seen) == CASE seen = "resolved" -> 0
                      [] seen = "none"     -> count.zero + 1
                      [] OTHER             -> count.zero

ObserveRound ==
    LET round == job.kind = "design_changes_requested"
    IN  /\ Passes /\ Observes
        /\ \E seen \in Threads :
            IF round /\ seen = "none" /\ ZeroRounds(seen) >= ZeroLimit
            THEN /\ Escalate("system")
                 /\ Settle(job.d, "done", "stall")
                 /\ UNCHANGED count
            ELSE /\ count' = IF round
                             THEN [count EXCEPT !.zero = ZeroRounds(seen),
                                                !.rounds = @ + 1]
                             ELSE count
                 /\ pc' = "dispatch"
                 /\ UNCHANGED <<sess, esc, status, why, batch, job>>
        /\ UNCHANGED <<parked, block, memory, turnsFor, took>>

ToDispatch ==
    /\ Passes /\ ~job.drop /\ ~Observes
    /\ pc' = "dispatch"
    /\ UNCHANGED <<status, parked, rows, batch, job, memory, trace>>

\* Mutant of Unpause: the state the pause covered is not put back.
UnpauseReasonOnly ==
    /\ pc = "unpause"
    /\ sess' = [sess EXCEPT !.paused = None, !.resume = None]
    /\ count' = [count EXCEPT !.consec = 0, !.silent = 0]
    /\ pc' = IF sess.endpoint THEN "dispatch" ELSE "ensure"
    /\ UNCHANGED <<status, parked, esc, block, batch, job, memory, trace>>

\* _resume_from_escalation, second half.
Unpause ==
    /\ pc = "unpause"
    /\ sess' = [sess EXCEPT
            !.state = IF @ = "PAUSED_HUMAN" /\ sess.resume \notin {None, "PAUSED_HUMAN"}
                      THEN sess.resume ELSE "PLANNING",
            !.paused = None, !.resume = None]
    /\ count' = [count EXCEPT !.consec = 0, !.silent = 0]
    /\ pc' = IF sess.endpoint THEN "dispatch" ELSE "ensure"
    /\ UNCHANGED <<status, parked, esc, block, batch, job, memory, trace>>

\* A session paused before it ever had a runner gets one now.
EnsureOnResume ==
    /\ pc = "ensure"
    /\ \/ /\ ~block
          /\ sess' = [sess EXCEPT !.endpoint = TRUE]
          /\ pc' = "dispatch"
          /\ UNCHANGED <<status, why, batch, job, esc, block>>
       \/ /\ Faults \cap {"capacity", "error"} # {} /\ ~block
          /\ Leave(job.d) /\ UNCHANGED <<sess, esc, block>>
       \/ /\ "structural" \in Faults \/ block
          /\ RefuseStructurally(job.d)
    /\ UNCHANGED <<parked, count, memory, turnsFor, took>>

\* _dispatch_turn: a busy role is not waited for, and no attempt is charged.
RoleBusy ==
    /\ pc = "dispatch" /\ hold[job.role]
    /\ tries' = [tries EXCEPT ![job.d] = 0]
    /\ Leave(job.d)
    /\ UNCHANGED <<parked, rows, hold, authTries, turnsFor, took>>

\* No reachable runner, and ensure_session refused or failed.
NoRunner ==
    /\ pc = "dispatch" /\ ~hold[job.role]
    /\ \/ /\ Faults \cap {"capacity", "error"} # {} /\ ~block
          /\ RetryOrGiveUp(job.d)
          /\ UNCHANGED block
       \/ /\ "structural" \in Faults \/ block
          /\ RefuseStructurally(job.d)
          /\ UNCHANGED tries
    /\ UNCHANGED <<parked, count, hold, authTries, turnsFor, took>>

\* The turns row is inserted and turn.dispatch is sent.
StartTurn ==
    /\ pc = "dispatch" /\ ~hold[job.role]
    /\ job' = [job EXCEPT !.mark = received, !.prompt = sess.state]
    /\ turnsFor' = [turnsFor EXCEPT ![job.d] = @ + 1]
    /\ pc' = "turn"
    /\ UNCHANGED <<status, parked, rows, batch, memory, took, why>>

-----------------------------------------------------------------------------
(* What comes back from the runner.                                        *)

Answered == tries' = [tries EXCEPT ![job.d] = 0]

\* No turn happened: the row waits, and a quota refusal holds the role.
TurnRefused ==
    /\ pc = "turn"
    /\ \/ "role_busy" \in TurnResults /\ UNCHANGED hold
       \/ /\ "quota_exhausted" \in TurnResults
          /\ hold' = [hold EXCEPT ![job.role] = TRUE]
    /\ Answered /\ Leave(job.d)
    /\ turnsFor' = [turnsFor EXCEPT ![job.d] = @ - 1]
    /\ UNCHANGED <<parked, rows, authTries, took>>

\* The runner may still be inside the turn: hold the role, charge nothing.
TurnTimesOut ==
    /\ pc = "turn" /\ "gateway_timeout" \in TurnResults
    /\ hold' = [hold EXCEPT ![job.role] = TRUE]
    /\ Answered /\ Settle(job.d, "routed", "timeout")
    /\ UNCHANGED <<parked, rows, authTries, turnsFor, took>>

\* Progress GitHub reported: the cue itself, the FSM, or an event stored
\* while the turn ran.
Observed == \/ job.kind \in Progress
            \/ sess.state # job.before
            \/ \E d \in Deliveries : /\ d > job.mark /\ d <= received
                                     /\ Kind(d) \in Progress

Bump(silent) ==
    [count EXCEPT !.turns = @ + 1,
                  !.consec = IF job.resumed THEN 1 ELSE @ + 1,
                  !.silent = silent]

\* bump_turn_counters, and the silent-turn limit.
TurnDone ==
    LET silent == IF job.resumed \/ Observed THEN 0 ELSE count.silent + 1
    IN  /\ pc = "turn" /\ "done" \in TurnResults
        /\ count' = Bump(silent)
        /\ IF silent >= SilentLimit
           THEN Escalate("system") /\ Settle(job.d, "done", "silent")
           ELSE UNCHANGED <<sess, esc>> /\ Settle(job.d, "routed", "turn")
        /\ Answered
        /\ UNCHANGED <<parked, block, hold, authTries, turnsFor, took>>

TurnFailed ==
    /\ pc = "turn" /\ "failed" \in TurnResults
    /\ count' = Bump(IF job.resumed THEN 0 ELSE count.silent)
    /\ Answered /\ Settle(job.d, "routed", "turn")
    /\ UNCHANGED <<parked, sess, esc, block, hold, authTries, turnsFor, took>>

\* The agent asks for the owner; never on a closed issue.
TurnNeedsHuman ==
    /\ pc = "turn" /\ "needs_human" \in TurnResults
    /\ IF job.prompt = "TEARDOWN" THEN UNCHANGED <<sess, esc>>
       ELSE Escalate(job.role)
    /\ count' = Bump(IF job.resumed THEN 0 ELSE count.silent)
    /\ Answered /\ Settle(job.d, "routed", "turn")
    /\ UNCHANGED <<parked, block, hold, authTries, turnsFor, took>>

-----------------------------------------------------------------------------
\* kill -9 and restart: memory is lost, and startup clears every clock.
Crash ==
    /\ crashes < MaxCrashes
    /\ crashes' = crashes + 1
    /\ batch' = {} /\ pc' = "idle" /\ job' = NoJob
    /\ hold' = [r \in Roles |-> FALSE]
    /\ tries' = [d \in Deliveries |-> 0]
    /\ authTries' = [d \in Deliveries |-> 0]
    /\ parked' = [d \in Deliveries |-> FALSE]
    /\ UNCHANGED <<gh, queue, status, rows, trace>>

Pick(d) ==
    \/ DropSessionless(d) \/ CreateSession(d) \/ IgnorePart(d) \/ LiftHold(d)
    \/ BudgetBreach(d) \/ ReadsReviews(d)
    \/ Superseded(d) \/ VerifyLater(d) \/ VerifyFails(d)
    \/ DropUntrackedMerge(d) \/ FeatureMergedElsewhere(d)
    \/ \E k \in Kinds : \/ Defer(d, k) \/ IgnoreReply(d, k)
                        \/ BeginResume(d, k) \/ Admit(d, k)

Continue ==
    \/ FinishCreate \/ SkipSpentHead \/ Record \/ GateNoTurn \/ StampHead
    \/ SkipHeld \/ AwaitRole \/ DropTurn \/ ObserveRound \/ ToDispatch
    \/ Unpause \/ EnsureOnResume \/ RoleBusy \/ NoRunner \/ StartTurn

Answer == TurnRefused \/ TurnTimesOut \/ TurnDone \/ TurnFailed \/ TurnNeedsHuman

Drain == /\ \/ \E d \in Deliveries : Pick(d)
            \/ Continue \/ Answer
         /\ UNCHANGED <<gh, queue, crashes>>

Clocks == \/ \E d \in Deliveries : ClockElapses(d)
          \/ \E r \in Roles : HoldExpires(r)

Next == GitHub \/ Sibling \/ Arrive \/ StartPass \/ Clocks \/ Drain \/ Crash

Spec == Init /\ [][Next]_vars
=============================================================================
