------------------------------- MODULE Daemon -------------------------------
(***************************************************************************)
(* The worker threads of the gateway and what they share: the drain, woken *)
(* by a nudge; the reconciler, which every few minutes looks at the turns  *)
(* that are open; the governor, which opens and closes the disk breaker;   *)
(* and the collector, woken by the governor.                               *)
(*                                                                         *)
(* A turn row is open from its insertion to the end of the call.  A kill   *)
(* leaves it open; the reconciler then hands it to the drain, at most      *)
(* twice, or retires it when it is an hour old or its session is not       *)
(* running.  A turn in flight is known by the memory of this process.      *)
(*                                                                         *)
(* One session and one role.  What the drain makes of a delivery, apart    *)
(* from the turn, is the module SessionLoop.                               *)
(***************************************************************************)
EXTENDS Integers, FiniteSets

CONSTANTS MaxDeliveries, MaxTurns,    \* bounds: rows of the two tables
          MaxAttempts,                \* RESUME_MAX_ATTEMPTS
          QueueLimit, BatchLimit,     \* rows a pass lists, of the queue and of the deferred
          Scenes                      \* the tables a run starts from, and what may go wrong

Deliveries == 1..MaxDeliveries
TurnIds == 1..MaxTurns
Hitches == {"kills", "fails", "moves", "trips"}
Statuses == {"away", "queued", "deferred", "done"}
TurnRows == [st : {"none", "open", "resuming", "answered", "interrupted"},
             tries : 0..MaxAttempts, old : BOOLEAN]
ASSUME DaemonAssumption ==
    /\ MaxDeliveries \in Nat /\ MaxTurns \in Nat /\ MaxAttempts \in Nat \ {0}
    /\ QueueLimit \in Nat \ {0} /\ BatchLimit \in Nat \ {0}
    /\ Scenes \subseteq [deliveries : [Deliveries -> Statuses], row : [TurnIds -> TurnRows],
                         collector : {"off", "none"}, hitches : [Hitches -> Nat]]

\* Row ids are given out in order, and a run begins with no turn handed over.
NoRow == [st |-> "none", tries |-> 0, old |-> FALSE]
ASSUME ScenesAssumption == \A scene \in Scenes : \E n \in 0..MaxTurns : \A t \in TurnIds :
    /\ scene.row[t].st # "resuming"
    /\ IF t <= n THEN scene.row[t].st # "none" ELSE scene.row[t] = NoRow

VARIABLES
    deliveries,  \* their status
    pending,     \* handlers of webhooks between the insertion and the nudge
    nudge,       \* AgentdState.nudge
    session,     \* its state, as far as a turn may run in it
    row,         \* the table of turns
    inflight,    \* _inflight_turn_ids
    busy,        \* _role_busy_until lies ahead
    drain,       \* the dispatcher thread; skipped: rows its last pass has left queued
    recon,       \* the reconciler thread
    disk,        \* free space: below the floor, between, above the resume level
    breaker,     \* circuit_breaker.paused
    governor,    \* the governor thread
    collector,   \* the GC thread, and its nudge
    left,        \* how often each hitch may still come
    worked,      \* history: the calls of turn.resume for each turn
    killed,      \* history: the kills
    sinceTrip,   \* history: the rows taken off the queue since the breaker opened
    unswept      \* history: the breaker opened, and no pass has begun since

tables == <<deliveries, session, row>>
memory == <<inflight, busy>>
space == <<disk, breaker, governor, collector, unswept>>
history == <<worked, killed, sinceTrip>>
work == <<tables, pending, nudge, memory, drain, recon>>   \* all but the disk
vars == <<tables, pending, nudge, memory, drain, recon, space, left, history>>

None == 0
Open(t) == row[t].st \in {"open", "resuming"}
Used == {t \in TurnIds : row[t].st # "none"}
NewTurn == Cardinality(Used) + 1
In(st) == {d \in Deliveries : deliveries[d] = st}
First(i, ids) == i \in ids /\ \A j \in ids : i <= j
Oldest(n, ids) == {i \in ids : Cardinality({j \in ids : j < i}) < n}

Hitch(h) == left[h] > 0 /\ left' = [left EXCEPT ![h] = @ - 1]
DrainAt(pc) == drain.pc = pc
DrainGo(pc) == drain' = [drain EXCEPT !.pc = pc]
Starting == [pc |-> "start", rows |-> {}, turns |-> {}, t |-> None, kind |-> "none",
             skipped |-> {}]
Sleeping == [pc |-> "sleep", turns |-> {}, act |-> "none"]

Init ==
    /\ \E scene \in Scenes :
        /\ deliveries = scene.deliveries /\ row = scene.row /\ left = scene.hitches
        /\ collector = [pc |-> scene.collector, nudge |-> FALSE]
        /\ worked = [t \in TurnIds |-> scene.row[t].tries]
    /\ pending = {} /\ nudge = FALSE /\ session = "running"
    /\ inflight = {} /\ busy = FALSE
    /\ drain = Starting /\ recon = Sleeping
    /\ disk = "high" /\ breaker = FALSE /\ governor = "sample"
    /\ unswept = FALSE /\ killed = 0 /\ sinceTrip = 0

(***************************************************************************)
(* The table of turns.                                                     *)
(***************************************************************************)
Finish(t, how) == IF Open(t) THEN [row EXCEPT ![t].st = how] ELSE row
Mark(t) == IF Open(t) THEN [row EXCEPT ![t].st = "resuming", ![t].tries = @ + 1] ELSE row
Unmark(t) == IF row[t].st = "resuming" THEN [row EXCEPT ![t].st = "open"] ELSE row

Seen(t) == [t |-> t, resuming |-> row[t].st = "resuming", tries |-> row[t].tries,
            running |-> session = "running", old |-> row[t].old]
Snapshot == {Seen(t) : t \in {u \in TurnIds : Open(u)}}   \* list_open_turns
FirstSeen(h, turns) == h \in turns /\ \A g \in turns : h.t <= g.t

(***************************************************************************)
(* Webhooks.  Deliveries are numbered as they are received.                *)
(***************************************************************************)
Receives(d) ==
    /\ First(d, In("away"))
    /\ deliveries' = [deliveries EXCEPT ![d] = "queued"]
    /\ pending' = pending \union {d}
    /\ UNCHANGED <<session, row, nudge, memory, drain, recon, space, left, history>>

Nudges(d) ==
    /\ d \in pending
    /\ pending' = pending \ {d} /\ nudge' = TRUE
    /\ UNCHANGED <<tables, memory, drain, recon, space, left, history>>

(***************************************************************************)
(* The drain.                                                              *)
(***************************************************************************)
\* drain_once, nudge.wait, nudge.clear, and round again.
ThenClearedFirst(step) ==
    CASE step = "pass" -> "clear" [] step = "clear" -> "wait" [] step = "wait" -> "start"
Then(step) ==
    CASE step = "pass" -> "wait" [] step = "wait" -> "clear" [] step = "clear" -> "start"

\* Where an open breaker sends the drain.
PausedForGood == "stopped"
Paused == Then("pass")

BeginsPass ==
    /\ DrainAt("start")
    /\ drain' = IF breaker THEN [drain EXCEPT !.pc = Paused, !.skipped = In("queued")]
                ELSE LET rows == Oldest(QueueLimit, In("queued"))
                     IN  [drain EXCEPT !.pc = "rows", !.rows = rows,
                                       !.skipped = In("queued") \ rows]
    /\ UNCHANGED <<tables, pending, nudge, memory, recon, space, left, history>>

Settles(d) == \E st \in {"deferred", "done"} : deliveries' = [deliveries EXCEPT ![d] = st]

\* The breaker is asked again before every row.
RowsGoOnAnyway == drain.rows # {}
RowsGoOn == drain.rows # {} /\ ~breaker

ChecksRow ==
    /\ DrainAt("rows")
    /\ drain' = IF RowsGoOn THEN [drain EXCEPT !.pc = "row"]
                ELSE [drain EXCEPT !.pc = "loop", !.skipped = @ \union drain.rows]
    /\ UNCHANGED <<tables, pending, nudge, memory, recon, space, left, history>>

HandlesRow(d) ==
    /\ DrainAt("row") /\ First(d, drain.rows)
    /\ Settles(d) /\ drain' = [drain EXCEPT !.pc = "rows", !.rows = @ \ {d}]
    /\ sinceTrip' = IF breaker THEN sinceTrip + 1 ELSE sinceTrip
    /\ UNCHANGED <<session, row, pending, nudge, memory, recon, space, left, worked, killed>>

\* An exception of _handle leaves the pass: what is behind the row is not
\* looked at, and neither are the turns and the deferred rows.
RowFails ==
    /\ DrainAt("row") /\ Hitch("fails")
    /\ drain' = [drain EXCEPT !.pc = Then("pass"), !.rows = {},
                              !.skipped = @ \union drain.rows]
    /\ UNCHANGED <<tables, pending, nudge, memory, recon, space, history>>

EntersLoop ==
    /\ DrainAt("loop")
    /\ IF breaker THEN DrainGo(Paused)
       ELSE drain' = [drain EXCEPT !.pc = "resume", !.turns = {h \in Snapshot : h.resuming}]
    /\ UNCHANGED <<tables, pending, nudge, memory, recon, space, left, history>>

(***************************************************************************)
(* Turns that were interrupted.                                            *)
(***************************************************************************)
Listed(h) == DrainAt("resume") /\ FirstSeen(h, drain.turns)
PastListed(h) == [drain EXCEPT !.pc = "resume", !.turns = @ \ {h}, !.t = None, !.kind = "none"]

\* The session was read with the list; a busy role keeps the mark.
PassesOver(h) ==
    /\ Listed(h)
    /\ \/ ~h.running /\ row' = Unmark(h.t)
       \/ h.running /\ busy /\ row' = row
    /\ drain' = PastListed(h)
    /\ UNCHANGED <<deliveries, session, pending, nudge, memory, recon, space, left, history>>

\* Without a runner the call is not made.
ResumeFails(h) ==
    /\ IF h.tries >= MaxAttempts
       THEN row' = Finish(h.t, "interrupted") /\ session' = "paused"
       ELSE row' = Unmark(h.t) /\ UNCHANGED session
    /\ drain' = PastListed(h)
    /\ UNCHANGED <<deliveries, pending, nudge, recon, space, history>>

FindsNoRunner(h) ==
    /\ Listed(h) /\ h.running /\ ~busy
    /\ Hitch("fails") /\ ResumeFails(h) /\ UNCHANGED memory

CallsAgain(h) ==
    /\ Listed(h) /\ h.running /\ ~busy
    /\ drain' = [drain EXCEPT !.pc = "call", !.t = h.t, !.kind = "resume"]
    /\ inflight' = inflight \union {h.t}
    /\ worked' = [worked EXCEPT ![h.t] = @ + 1]
    /\ UNCHANGED <<tables, pending, nudge, busy, recon, space, left, killed, sinceTrip>>

\* The call is over, one way or the other.
StillInFlight(t) == inflight
Landed(t) == inflight \ {t}

\* Failed, or timed out: then the runner may be at work still.
ResumeReturns(h) ==
    /\ DrainAt("call") /\ drain.kind = "resume" /\ FirstSeen(h, drain.turns)
    /\ inflight' = Landed(h.t)
    /\ \/ /\ row' = Finish(h.t, "answered") /\ drain' = PastListed(h)
          /\ UNCHANGED <<deliveries, session, pending, nudge, busy, recon, space, left, history>>
       \/ /\ Hitch("fails") /\ ResumeFails(h)
          /\ busy' \in {busy, TRUE}

(***************************************************************************)
(* Deferred deliveries.                                                    *)
(***************************************************************************)
\* Which of their clocks have run out is not kept.
EntersBatch ==
    /\ DrainAt("resume") /\ drain.turns = {}
    /\ \E due \in SUBSET In("deferred") :
         drain' = [drain EXCEPT !.pc = "batch", !.rows = Oldest(BatchLimit, due)]
    /\ UNCHANGED <<tables, pending, nudge, memory, recon, space, left, history>>

BatchEnds ==
    /\ DrainAt("batch") /\ drain.rows = {}
    /\ DrainGo(Then("pass"))
    /\ UNCHANGED <<tables, pending, nudge, memory, recon, space, left, history>>

AtDelivery(d) == DrainAt("batch") /\ First(d, drain.rows)
PastDelivery(d) == [drain EXCEPT !.pc = "batch", !.rows = @ \ {d}, !.t = None, !.kind = "none"]

\* A delivery may be put off, or settled without a turn; it may pause the
\* session, resume it or begin its teardown.
Moves == \/ UNCHANGED <<session, left>>
         \/ Hitch("moves") /\ session' \in {"running", "paused", "teardown"} \ {session}

TakesDelivery(d) ==
    /\ AtDelivery(d) /\ Settles(d)
    /\ Moves /\ drain' = PastDelivery(d)
    /\ UNCHANGED <<row, pending, nudge, memory, recon, space, history>>

\* _dispatch_turn: the row is inserted first, and in flight a moment later.
InsertsTurn(d) ==
    /\ AtDelivery(d) /\ ~busy /\ NewTurn <= MaxTurns
    /\ Moves /\ session' # "paused"
    /\ row' = [row EXCEPT ![NewTurn].st = "open"]
    /\ drain' = [drain EXCEPT !.pc = "inserted", !.t = NewTurn,
                              !.kind = IF session' = "running" THEN "dispatch" ELSE "teardown"]
    /\ UNCHANGED <<deliveries, pending, nudge, memory, recon, space, history>>

CallsRunner ==
    /\ DrainAt("inserted")
    /\ inflight' = inflight \union {drain.t} /\ DrainGo("call")
    /\ UNCHANGED <<tables, pending, nudge, busy, recon, space, left, history>>

TurnReturns(d) ==
    /\ DrainAt("call") /\ drain.kind # "resume" /\ First(d, drain.rows)
    /\ row' = Finish(drain.t, "answered") /\ inflight' = Landed(drain.t)
    /\ \/ Moves /\ busy' = busy
       \/ Hitch("fails") /\ busy' = TRUE /\ UNCHANGED session
    /\ Settles(d) /\ drain' = PastDelivery(d)
    /\ UNCHANGED <<pending, nudge, recon, space, history>>

\* The wait also ends after five seconds.
Waits ==
    /\ DrainAt("wait") /\ nudge /\ DrainGo(Then("wait"))
    /\ UNCHANGED <<tables, pending, nudge, memory, recon, space, left, history>>
FiveSeconds ==
    /\ DrainAt("wait") /\ ~nudge /\ DrainGo(Then("wait"))
    /\ UNCHANGED <<tables, pending, nudge, memory, recon, space, left, history>>
Clears ==
    /\ DrainAt("clear") /\ nudge' = FALSE /\ DrainGo(Then("clear"))
    /\ UNCHANGED <<tables, pending, memory, recon, space, left, history>>

BusyEnds ==
    /\ busy /\ busy' = FALSE
    /\ UNCHANGED <<tables, pending, nudge, inflight, drain, recon, space, left, history>>

(***************************************************************************)
(* The reconciler: its sweep may hold the session; then the open turns.    *)
(***************************************************************************)
Sweeps ==
    /\ recon.pc = "sleep"
    /\ \/ UNCHANGED <<session, left>>
       \/ session = "running" /\ Hitch("moves") /\ session' = "paused"
    /\ recon' = [recon EXCEPT !.pc = "list"]
    /\ UNCHANGED <<deliveries, row, pending, nudge, memory, drain, space, history>>

ListsTurns ==
    /\ recon.pc = "list"
    /\ recon' = [recon EXCEPT !.pc = "check", !.turns = Snapshot]
    /\ UNCHANGED <<tables, pending, nudge, memory, drain, space, left, history>>

Judged(h) == FirstSeen(h, recon.turns)

\* A turn in flight is nobody else's business.
Interrupted(h) == TRUE
Orphaned(h) == h.t \notin inflight

\* Age and session come before the mark: a turn handed over long ago is
\* retired too.
VerdictMarkedFirst(h) ==
    IF h.resuming THEN "none"
    ELSE IF ~h.running \/ h.old THEN "retire"
    ELSE IF h.tries >= MaxAttempts THEN "ask" ELSE "mark"
Verdict(h) ==
    IF ~h.running \/ h.old THEN "retire"
    ELSE IF h.resuming THEN "none"
    ELSE IF h.tries >= MaxAttempts THEN "ask" ELSE "mark"

Judges(h) ==
    /\ recon.pc = "check" /\ Judged(h)
    /\ LET act == IF Orphaned(h) THEN Verdict(h) ELSE "none"
       IN  recon' = IF act = "none" THEN [recon EXCEPT !.turns = @ \ {h}]
                                    ELSE [recon EXCEPT !.pc = "act", !.act = act]
    /\ UNCHANGED <<tables, pending, nudge, memory, drain, space, left, history>>

MarkUncounted(t) == IF Open(t) THEN [row EXCEPT ![t].st = "resuming"] ELSE row
HandOver(t) == Mark(t)

Acts(h) ==
    /\ recon.pc = "act" /\ Judged(h)
    /\ row' = IF recon.act = "mark" THEN HandOver(h.t) ELSE Finish(h.t, "interrupted")
    /\ session' = IF recon.act = "ask" THEN "paused" ELSE session
    /\ recon' = [recon EXCEPT !.pc = "check", !.turns = @ \ {h}, !.act = "none"]
    /\ UNCHANGED <<deliveries, pending, nudge, memory, drain, space, left, history>>

PassEnds ==
    /\ recon.pc = "check" /\ recon.turns = {}
    /\ nudge' = TRUE /\ recon' = Sleeping
    /\ UNCHANGED <<tables, pending, memory, drain, space, left, history>>

\* An hour.  It does not go by between two statements of the drain.
Ages(t) ==
    /\ Open(t) /\ ~row[t].old
    /\ ~(DrainAt("inserted") /\ drain.t = t)
    /\ row' = [row EXCEPT ![t].old = TRUE]
    /\ UNCHANGED <<deliveries, session, pending, nudge, memory, drain, recon, space, left, history>>

(***************************************************************************)
(* Disk, governor and collector.                                           *)
(***************************************************************************)
DiskFills ==
    /\ disk # "low" /\ disk' \in {"mid", "low"} \ {disk} /\ Hitch("trips")
    /\ UNCHANGED <<work, breaker, governor, collector, unswept, history>>

Frees == disk' \in {disk, "mid", "high"} /\ (disk = "high" => disk' = "high")
DiskFrees ==
    /\ disk # "high" /\ Frees
    /\ UNCHANGED <<work, breaker, governor, collector, unswept, left, history>>

Trips == disk = "low" /\ ~breaker
Resets == disk = "high" /\ breaker

SamplesDisk ==
    /\ governor = "sample"
    /\ \/ /\ Trips
          /\ breaker' = TRUE /\ governor' = "tripped" /\ unswept' = TRUE /\ sinceTrip' = 0
       \/ /\ Resets
          /\ breaker' = FALSE /\ UNCHANGED <<governor, unswept, sinceTrip>>
    /\ UNCHANGED <<work, disk, collector, left, worked, killed>>

\* The governor starts before the collector it will signal, which may fail
\* to start.
SignalsTrip ==
    /\ governor = "tripped" /\ governor' = "sample"
    /\ collector' = [collector EXCEPT !.nudge = @ \/ collector.pc \notin {"off", "none"}]
    /\ UNCHANGED <<work, disk, breaker, unswept, left, history>>

StartsCollector ==
    /\ collector.pc = "off" /\ collector' = [collector EXCEPT !.pc = "clear"]
    /\ UNCHANGED <<work, disk, breaker, governor, unswept, left, history>>

ForgottenAfter == FALSE
KeptAfter == collector.nudge

CollectorRuns ==
    /\ \/ /\ collector.pc = "clear" /\ collector' = [pc |-> "begin", nudge |-> FALSE]
          /\ UNCHANGED <<disk, unswept>>
       \/ /\ collector.pc = "begin" /\ collector' = [collector EXCEPT !.pc = "collect"]
          /\ unswept' = FALSE /\ UNCHANGED disk
       \/ /\ collector.pc = "collect" /\ Frees
          /\ collector' = [pc |-> "wait", nudge |-> KeptAfter] /\ UNCHANGED unswept
       \/ /\ collector.pc = "wait" /\ collector.nudge
          /\ collector' = [collector EXCEPT !.pc = "clear"]
          /\ UNCHANGED <<disk, unswept>>
    /\ UNCHANGED <<work, breaker, governor, left, history>>

Hourly ==
    /\ collector.pc = "wait" /\ ~collector.nudge
    /\ collector' = [collector EXCEPT !.pc = "clear"]
    /\ UNCHANGED <<work, disk, breaker, governor, unswept, left, history>>

(***************************************************************************)
(* A kill leaves the tables and the breaker, and nothing else.             *)
(***************************************************************************)
Kill ==
    /\ Hitch("kills") /\ killed' = killed + 1
    /\ pending' = {} /\ nudge' = FALSE /\ inflight' = {} /\ busy' = FALSE
    /\ drain' = Starting /\ recon' = Sleeping /\ governor' = "sample"
    /\ collector' = [pc |-> IF collector.pc = "none" THEN "none" ELSE "off", nudge |-> FALSE]
    /\ UNCHANGED <<tables, disk, breaker, unswept, worked, sinceTrip>>

Drains ==
    \/ BeginsPass \/ ChecksRow \/ RowFails \/ EntersLoop \/ EntersBatch \/ BatchEnds
    \/ CallsRunner \/ Waits \/ Clears
    \/ \E d \in drain.rows :
         HandlesRow(d) \/ TakesDelivery(d) \/ InsertsTurn(d) \/ TurnReturns(d)
    \/ \E h \in drain.turns :
         PassesOver(h) \/ FindsNoRunner(h) \/ CallsAgain(h) \/ ResumeReturns(h)
Reconciles ==
    \/ Sweeps \/ ListsTurns \/ PassEnds
    \/ \E h \in recon.turns : Judges(h) \/ Acts(h)
Governs == SamplesDisk \/ SignalsTrip
Collects == StartsCollector \/ CollectorRuns

Next ==
    \/ \E d \in Deliveries : Receives(d) \/ Nudges(d)
    \/ Drains \/ FiveSeconds \/ BusyEnds
    \/ Reconciles \/ \E t \in TurnIds : Ages(t)
    \/ DiskFills \/ DiskFrees \/ Governs \/ Collects \/ Hourly
    \/ Kill

Spec == Init /\ [][Next]_vars

\* The threads run; calls of the runner end, as the socket has a timeout;
\* an hour passes.  Neither the five seconds of the drain, nor the hour of
\* the collector, nor an end of a busy role is needed.
FairSpec ==
    /\ Spec
    /\ WF_vars(Drains) /\ WF_vars(Reconciles) /\ WF_vars(Governs) /\ WF_vars(Collects)
    /\ \A t \in TurnIds : WF_vars(Ages(t))

(***************************************************************************)
(* Properties.                                                             *)
(***************************************************************************)
SeenTurns == [t : TurnIds, resuming : BOOLEAN, tries : Nat, running : BOOLEAN, old : BOOLEAN]
Drainings == [pc : {"start", "rows", "row", "loop", "resume", "call", "batch", "inserted",
                    "wait", "clear"},
              rows : SUBSET Deliveries, turns : SUBSET SeenTurns, t : TurnIds \union {None},
              kind : {"none", "resume", "dispatch", "teardown"},
              skipped : SUBSET Deliveries]
Reconcilings == [pc : {"sleep", "list", "check", "act"}, turns : SUBSET SeenTurns,
                 act : {"none", "retire", "mark", "ask"}]

\* Every variable keeps its shape, and what this process has in flight is
\* what its drain is calling.
TypeOK ==
    /\ deliveries \in [Deliveries -> Statuses]
    /\ pending \subseteq Deliveries /\ nudge \in BOOLEAN
    /\ session \in {"running", "paused", "teardown"}
    /\ row \in [TurnIds -> TurnRows]
    /\ inflight = (IF DrainAt("call") THEN {drain.t} ELSE {}) /\ busy \in BOOLEAN
    /\ drain \in Drainings /\ recon \in Reconcilings
    /\ disk \in {"low", "mid", "high"} /\ breaker \in BOOLEAN /\ governor \in {"sample", "tripped"}
    /\ collector \in [pc : {"none", "off", "clear", "begin", "collect", "wait"}, nudge : BOOLEAN]
    /\ left \in [Hitches -> Nat]
    /\ worked \in [TurnIds -> Nat] /\ killed \in Nat /\ sinceTrip \in Nat /\ unswept \in BOOLEAN

\* An interrupted turn is worked on again at most twice, and once more for
\* every kill, which leaves the mark of the attempt it cuts off.
ResumesCounted == \A t \in TurnIds : worked[t] <= row[t].tries + killed

\* A turn that is dispatched is closed by its own call and by nobody else,
\* as long as its session is running.
CallKeepsItsTurn ==
    [][\A t \in TurnIds :
         (DrainAt("call") /\ drain.kind = "dispatch" /\ drain.t = t /\ Open(t)
            /\ session = "running")
            => (row'[t].st \in {"open", "resuming"} \/ ~(drain'.pc = "call"))]_vars

\* Every turn row is closed in the end, whatever is killed, fails, is paused
\* or waits for disk.
EveryTurnCloses == []<>(\A t \in TurnIds : ~Open(t))

\* When the drain sleeps and nothing has called it, each row still queued has
\* a handler that is about to, or was there when its last pass listed the queue
\* and was left: by the limit of the list, behind a row that failed, or by the
\* breaker.  What arrives after the list is never left without a call.
NoWakeupLost == (DrainAt("wait") /\ ~nudge) => In("queued") \subseteq pending \union drain.skipped

\* With the breaker open at most the row in hand leaves the queue.
TripStopsIntake == sinceTrip <= 1

\* A trip is followed by a pass of the collector that begins after it,
\* without waiting for the hour.
TripIsSwept == unswept ~> ~unswept

\* When the disk has room for good, whatever is queued gets handled.
QueueEmpties == <>[](disk = "high") => []<>(In("queued") = {})
=============================================================================
