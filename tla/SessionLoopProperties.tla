----------------------- MODULE SessionLoopProperties -----------------------
(***************************************************************************)
(* What the drain must never do, and what it must eventually do.           *)
(***************************************************************************)
EXTENDS SessionLoop

QueueOK ==
    /\ gh \in Forge
    /\ wire \subseteq Event
    /\ received \in 0 .. MaxDeliveries
    /\ event \in [Deliveries -> Event]
    /\ status \in [Deliveries -> {"absent", "deferred", "routed", "dropped", "done"}]

RowsOK ==
    /\ sess \in SessionRow
    /\ count \in Counters
    /\ esc \in Roles \cup {"system", None}
    /\ block \in BOOLEAN

DrainOK ==
    /\ batch \subseteq Deliveries
    /\ pc \in {"idle", "created", "record", "gate", "stamped", "unpause",
               "ensure", "dispatch", "turn"}
    /\ job \in Job

MemoryOK ==
    /\ parked \in [Deliveries -> BOOLEAN]
    /\ hold \in [Roles -> BOOLEAN]
    /\ tries \in [Deliveries -> 0 .. DispatchMax]
    /\ authTries \in [Deliveries -> 0 .. AuthMax]

TraceOK ==
    /\ turnsFor \in [Deliveries -> Nat]
    /\ took \in [Deliveries -> BOOLEAN]
    /\ crashes \in 0 .. MaxCrashes

\* Every variable of the queue, the rows, the drain, its memory and the
\* history has its type.
TypeOK == QueueOK /\ RowsOK /\ DrainOK /\ MemoryOK /\ TraceOK

-----------------------------------------------------------------------------
(* Safety.                                                                 *)

\* The drain implements the ledger: received once, one turn at a time,
\* settled for good, and never handed to an agent once settled.
Ledger == INSTANCE DeliveryLedger WITH
              turns <- turnsFor,
              running <- IF pc = "turn" THEN job.d ELSE 0
LedgerSpec == Ledger!Spec

\* A pushed head is given to an agent once, however often GitHub or the
\* reconciler reports it and whenever the gateway is killed (ADR-37).
OneTurnPerHead ==
    \A p \in PRs, h \in Heads :
        LET told == {d \in Deliveries : /\ event[d].kind \in Revised
                                        /\ event[d].pr = p /\ event[d].sha = h}
        IN  /\ \A d \in told : turnsFor[d] <= 1
            /\ \A d, e \in told : turnsFor[d] > 0 /\ turnsFor[e] > 0 => d = e

\* Any other delivery is given out again only because a kill interrupted it.
OneTurnPerDelivery == \A d \in Deliveries : turnsFor[d] <= 1 + crashes

\* No work is given out twice: neither a head nor a delivery.
GivenOutOnce == OneTurnPerHead /\ OneTurnPerDelivery

\* The state that counts: a pause only covers it.
Live == IF sess.state = "PAUSED_HUMAN" THEN sess.resume ELSE sess.state

\* The session says a half has landed only when the pull request it tracks
\* for that half was merged on GitHub.
LandedMeansMerged ==
    /\ Live = "AWAITING_VERIFICATION" =>
            /\ sess.pr["feature"] # None
            /\ gh[sess.pr["feature"]].phase = "merged"
    /\ Live = "IMPLEMENTING" /\ sess.pr["design"] # None =>
            gh[sess.pr["design"]].phase = "merged"

\* Agents alone cannot keep a session running: in a row they take at most
\* ConsecLimit turns, in all at most TurnLimit, and every turn beyond that
\* is paid for by something the owner sent.
BudgetHolds ==
    /\ count.consec <= ConsecLimit
    /\ count.turns <= TurnLimit +
            Cardinality({d \in 1 .. received : event[d].sender = "owner"})

\* An issue that asks for a session is not put aside without one: whatever
\* refuses it, the delivery stays or a session row says why.
IssuesAreNotLost ==
    \A d \in Deliveries :
        event[d].kind \in {"issue_opened", "reopened"} /\ why[d] # None
            => sess.state # None

\* While a turn runs, the session is live, or the owner asked for the turn.
TurnsAreAskedFor ==
    pc = "turn" =>
        /\ ~IsHeld
        /\ IsPaused => event[job.d].sender = "owner"
        /\ ~job.resumed => sess.state \notin TerminalStates

\* A paused session remembers the state its owner's reply restores.
PauseRemembers ==
    sess.state = "PAUSED_HUMAN" => sess.resume \notin {None, "PAUSED_HUMAN"}

\* Only the owner's comment on the issue ends a pause, and the owner's
\* question is not left open behind it.
OwnerEndsPause ==
    [][sess.state = "PAUSED_HUMAN" /\ sess'.state # "PAUSED_HUMAN"
        => /\ event[job.d].kind = "owner_reply" /\ status[job.d] = "deferred"
           /\ esc = None /\ sess.paused # "hold"]_vars

\* An approval the session acts on was in force, on a head that was live, at
\* one and the same moment, although the reviews and the head are read one
\* after the other and pushes and reviews come in between: the moment the
\* reviews were read.  Of the reviews, those of the first page.
ApprovalStood ==
    [][pc = "idle" /\ pc' = "record" /\ job'.kind \in {"merge_authorized", "design_approved"}
        => /\ job.seen.of = job'.d /\ job.seen.shown.said = "approved"
           /\ job.seen.shown.at = job.seen.head]_vars

-----------------------------------------------------------------------------
(* Liveness.                                                               *)

\* The dispatcher thread never stops, the clocks run, webhooks arrive.
Fairness ==
    /\ WF_vars(Arrive) /\ WF_vars(StartPass) /\ WF_vars(Drain)
    /\ \A d \in Deliveries : WF_vars(ClockElapses(d))
    /\ \A r \in Roles : WF_vars(HoldExpires(r))

FairSpec == Spec /\ Fairness

\* No delivery is deferred for ever, unless the session waits for its owner.
EverySettles ==
    \A d \in Deliveries :
        status[d] = "deferred" ~> status[d] # "deferred" \/ IsPaused

\* The owner's reply to a question ends the pause.
ReplyResumes ==
    \A d \in Deliveries :
        (/\ status[d] = "deferred" /\ event[d].kind = "owner_reply"
         /\ sess.state = "PAUSED_HUMAN" /\ ~IsHeld)
            ~> sess.state # "PAUSED_HUMAN"
=============================================================================
