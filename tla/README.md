# Verification of agentd

agentd is a gateway between GitHub and two coding agents, an architect and a developer. A GitHub issue is a
*session*; a repository is a *project* with one runner container. Webhooks are stored as deliveries and drained
by one thread, which turns each into a move of the session's state machine and a turn of an agent.

This directory holds TLA+ models of that core, the TLC runs that check them, and proofs about them that TLAPS
checks. Paths are relative to `src/agentd/src/agentd/` unless they start with `src/`.
`PROJECT.json` has the same content as data: which lines each definition stands for (`map`), the runs, the
mutant of the code that breaks each property (`mutants`), findings, hazards and theorems.

## 1. Inventory

| Component | State it keeps | Operations | Talks to |
|---|---|---|---|
| HTTP ingress `server.py` | – | check signature, insert delivery, wake dispatcher | database |
| Delivery table `db.py` | deliveries: status, clock; sessions; turns; escalations; project blocks; runners; artifacts | one SQL statement or transaction each, under one connection lock | all threads |
| Dispatcher `dispatcher.py`, `intake.py` | a wake-up flag | queued → done, dropped or deferred; then open turns, then one pass over the deferred | session loop |
| Session loop `session_loop.py` | in memory: role holds, attempts, spent PRs, turns in flight | `_process_one`, resume after a question, edits and closes of the issue, teardown | supervisor, runner, GitHub |
| State machine `fsm.py` | – | `transition(state, event)` | session loop |
| Routing `routing.py` | – | deliver, drop or defer for a recipient | session loop |
| Approvals `verify.py` | – | is the approval in force on this head; is the PR mergeable | GitHub |
| Loop safety `loop_safety.py` | counters and stall columns of the session | budgets, silent turns, two stall signals | session loop |
| Verification block `verification.py` | a block in the issue body | extract, tick, restore | GitHub |
| Reconciler `reconciler.py` | – (a pass reads, then acts) | containers, runner rows, probes, sweep of GitHub, open turns | all of the above |
| Supervisor `supervisor.py` | docker; runner rows; the admit lock | ensure: adopt, promote, create | docker, runner |
| Garbage collection `gc.py` | a wake-up flag | ledger, branches, worktrees, `git gc` | admit lock |
| Disk governor `governor.py` | breaker | pause and resume with hysteresis | dispatcher, GC |
| Interrupted turns `session_loop.py`, `reconciler.py` | open rows of `turns`; in memory, the turns in flight | insert, mark as handed over, resume, retire | runner |
| Runner `src/agentd/docker/session-runner/` | initialised flag, role locks, registry of sessions, CLI processes and their pipes | init, resume, turns, teardown, ping | the CLIs |
| Operator CLI `agentctl` | – | reads and triggers | database |

**Threads.** Ingress, the drain (dispatcher), the reconciler (every five minutes), garbage collection
(hourly and on the breaker), the governor (every 30 s). They share the database, docker and the admit lock.
The drain is the only one that dispatches turns.

**What is hard.** Almost every handler is a row of separate writes with calls to GitHub, docker or a runner in
between. A kill in the middle leaves them half done, and a delivery that was not settled is picked again.
In-memory counters are lost then. The reconciler and the collector act on what they read earlier, without the
drain knowing. Agents, people and the gateway itself all write to the same issue, and their webhooks arrive late,
twice, in another order or never.

**What makes each part right.**

- Delivery table: a delivery is settled once, and only what an agent was given is `routed`.
- Session loop: no head and no delivery buys a second turn; a session moves on what GitHub says *now*; everything
  settles or asks the owner; only the owner ends a pause; two agents alone stop.
- Loop safety: rounds without progress end in a question, whatever fetches fail.
- Close gate: nothing is recorded as verified without the owner; a classification is final; nothing is archived
  that was not swept; a closed issue does not go unnoticed.
- Dispatcher, governor, collector: no wake-up is lost, an open breaker stops the intake, a trip is swept.
- Interrupted turns: a live turn is nobody else's, each is resumed a limited number of times, and every row closes.
- Runner: a turn hears the answer to its own prompt; a CLI that lives is held by somebody; every call is answered.
- Supervisor, reconciler, collector: the cap holds; a working turn keeps its container; what nobody answers for
  goes; who waits for a place gets one.

## 2. Modules

| Module | Models | Used by |
|---|---|---|
| `Fsm` | the transition table, as data | `SessionLoop` |
| `DeliveryLedger` | abstract: what the table promises of a delivery | refined by `SessionLoop` |
| `SessionLoop` | drain, `_process_one`, resume, dispatch, routing, approvals, budgets, project block | `SessionLoopProperties`, `SessionLoopClaims`, `MCSessionLoop` |
| `StallSignals` | `StallTracker` and how the session loop rebuilds and stores it | – |
| `CloseGate` | edits of the block, closes, grace period, teardown, archive, the sweep | `MCCloseGate` |
| `Fleet` | containers, runner rows and the admit lock between drain, reconciler, collector | `MCFleet` |
| `Daemon` | the threads of the gateway: drain loop and wake-ups, open turns and the reconciler's look at them, governor and breaker, collector loop | `MCDaemon` |
| `TurnService` | abstract: what the gateway counts on when it asks for a turn | refined by `Runner` |
| `Runner` | the runner's threads, locks, registry and CLI processes | `MCRunner` |
| `*_proofs` | proofs, section 5 | – |

**SessionLoop.** One session. Variables are the tables (`status`, `parked` for the clock, `sess`, `count`,
`esc`, `block`), the process memory (`hold`, `tries`, `authTries`, `batch`, and `pc`/`job` for the local variables
of `_process_one`), GitHub (`gh`, `wire`), and history (`turnsFor`, `took`, `why`, `crashes`). A delivery goes
through the stages named at the top of the module. Each stage is one action per path of the code: everything
between two points where a kill matters (a committed write whose successor has not been made yet) is one step.
`Crash` may come between any two; it clears what lives in memory and, as the startup code does, the clocks.
GitHub acts at any time, `wire` is a set, so webhooks are reordered, and the reconciler's copy of a push has an
id of its own. An approval takes two reads: `ReadsReviews` takes what the first page of the reviews shows, and `Approval`
compares it with the head of a later moment; pushes, reviews and other people's (`Crowd`) come in between.
A pass takes the `PassLimit` oldest deliveries that are due. A webhook arrives once: `INSERT OR IGNORE` on the delivery id makes redelivery a stutter.

**StallSignals.** One pull request. `row`, `prior` and `zero` are the session's columns; `Rebuilt` is what the
session loop makes of them for each event, which is not the tracker it stored. `resolved` and `barren`
are an ideal observer for the properties to compare with.

**CloseGate.** One session at its end. A body is reduced to what the block says (`Bodies`). `Edited`, `GetBody`
and `PatchBody` are three steps because the code decides, reads and writes in that order and GitHub offers no
conditional write. `Closed`, `Reread`, `Lower`, teardown turns, `Tally` and `Archive` follow
`_owner_close_teardown`. The sweep is five steps, with what it read in `sweep`.

**Fleet.** Several projects. `box` is docker (at most one container per project, because the name is the
project's), `row` the table `runners`, `live` and `open` what the reconciler reads of sessions and turns. The
drain's `ensure_session` is `Picks`/`Pings` (the row is read before the lock), `Inspects` (with the lock),
`Adopts`, `Attaches` and `Promotes`, `Refuses`, `Creates`, `Initialises`, `Claims`, with `FallsBack` and
`BreaksOff` for each way it fails half way. The reconciler is `Lists`, `ReadsLive`, `ReadsOpen`, `ReadsRows`, then
`Removes` and `ClearsRow` one at a time.

**Daemon.** `drain` is the dispatcher thread: `BeginsPass` lists the `QueueLimit` oldest queued rows, which are handled one
at a time (`ChecksRow`, `HandlesRow`; `RowFails` is an exception, which ends the pass), then the turns to resume (`CallsAgain`,
`ResumeReturns`), then the `BatchLimit` oldest of the deferred (`EntersBatch`, `InsertsTurn`, `CallsRunner`, `TurnReturns`).
`skipped` is what the pass has left in the queue: beyond the limit, behind a failed row, or because of the breaker. `Then` is the order of pass, wait and clear on which the wake-up rests. `recon` lists the open turns and judges them one by one from what it listed (`Verdict`).
`Governs` samples the disk and signals a trip in two steps, the collector clears its flag and sweeps in two.
A killed gateway (`Kill`) loses `inflight`, `nudge` and the breaker, and keeps the tables; a run starts from tables
a kill may have left (`Scenes`).

**Runner.** One record per call, that is, per thread of the server, one per session object, and one per CLI process
with its two pipes. A call goes through the role lock, the registry lock, and the session's own lock, in the code's order;
`poll` and `read` are two steps, since a CLI may exit between them. A gateway may be gone (`Abandons`) and its
thread goes on. A CLI answers when it likes, or never, exits, outlives a kill, or answers twice after an error.

**How they compose.** `Runner` is shown to implement `TurnService` (a turn is served from the moment it has the role lock until
it ends), and the answers `TurnService` allows are the ones `SessionLoop` and `Daemon` choose from when a
turn returns. `Daemon` reduces a delivery to its status and adds the threads around the pass that
`SessionLoop` models alone. `SessionLoop` is shown to implement `DeliveryLedger` under the mapping in
`SessionLoopProperties` (a turn is running exactly when `pc = "turn"`). `SessionLoop` uses the *results* of an
ensure (a runner, capacity, a structural refusal, an error), which `Fleet` models in full; `Fleet` uses the result of a
delivery (a turn, a retry, given up), which `SessionLoop` models in full. `SessionLoop` omits issues.closed
and issues.edited, `CloseGate` omits everything else.

## 3. Runs

`tlc -workers 2 -config X.cfg M`. Each takes less than four minutes alone.

| Run | Properties | What it shows |
|---|---|---|
| `SLdesign` | `GivenOutOnce`, `LedgerSpec` | A design under review, pushes, the reconciler repeating them, reviews, a busy or timed-out role, one kill: no head and no delivery buys two turns, and the drain implements the ledger. |
| `SLlanding` | `LandedMeansMerged`, `ApprovalStood` | Approvals, counter-reviews, pushes, merges, a second PR and another issue's project block, around the points where something lands: landed means merged, and an approval acted on was in force on a live head when the reviews were read. |
| `SLpause` | `TypeOK`, `TurnsAreAskedFor`, `PauseRemembers`, `BudgetHolds`, `IssuesAreNotLost`, `OwnerEndsPause` | Who may start a session, end a pause or work during one; what a pause remembers; that agents alone stop. |
| `SLlive` | `EverySettles`, `ReplyResumes` | With fairness: every delivery settles or the owner is asked, and the owner is heard. |
| `StallZero` | `Inv`, `BarrenRoundsPause` | The third round without a resolved thread pauses the session, whatever fetches failed. |
| `CGrun` | `TypeOK`, `NeverForged`, `ClosedIsSwept`, `TornDownByOwner`, `OnlyVouchedRaises`, `EverySettles`, `CloseIsNoticed` | Three worlds. In one, owner and agents edit the block and close, edits go unreported, every read and write may fail, one kill. In another the runner is busy and the gateway killed during the teardown. In the third, closes, reopenings and replies against the sweep, some closes unreported. |
| `FleetRun` | `TypeOK`, `HotWithinCap`, `PackedAlone`, `LiveTurnKept`, `LeftoversGo`, `Served` | Two projects, room for one, one failure anywhere. |
| `DaemonRun` | `TypeOK`, `ResumesCounted`, `NoWakeupLost`, `TripStopsIntake`, `CallKeepsItsTurn`, `EveryTurnCloses`, `TripIsSwept`, `QueueEmpties` | Seven tables a kill may leave: two interrupted turns, one killed again and again, a delivery interrupted in its turn, a session that is paused meanwhile, a disk that fills while webhooks arrive, an interrupted turn on a full disk, and a queue as long as a pass lists to which one more is added, with a row that fails. |
| `RunnerRun` | `TypeOK`, `NothingForgotten`, `TeardownTells`, `ServesTurns`, `EveryCallEnds` | Turns of one and of both roles, a teardown, a resume after it, a ping, with one fault and one gateway gone: a turn hears its own prompt, no CLI is forgotten, every call is answered. |
| `ClaimCues`, `ClaimIntake`, `ClaimStamp` | one each | Statements of the repository that the code does not meet, section 6. |

Every property of a passing run is broken by a mutant of a mapped definition, a plausible bug that stands
next to the definition in its module.

**Bounds, and why they are enough.** Counters of the code (attempts, silent turns, budgets, rounds) keep their
comparison but get limits of 1 to 3, so that every limit is reached and passed within the deliveries a run
allows. Three deliveries are enough for one to be in hand, one behind it in the pass and one to arrive meanwhile;
three heads for a stale, a repeated and a new one; one kill for a delivery to be interrupted and re-run; two pull requests
for one that is tracked and one that is not; two heads in `SLlanding` let one be pushed before, between and after the two reads
of an approval. The code lists 20 deferred deliveries in a pass: `PassLimit` is 2, so that with three a pass leaves one; in `SLlive`, which
has two, it leaves none. The runs of `SessionLoop` share its code and differ in what
happens, as one run with everything is out of reach; each starts from the states named in `MCSessionLoop` and
not only from an empty table. `StallZero`: two threads and three heads make a thread appear, resolve, and
appear again between rounds; the threshold is the code's 3, and seven rounds pass it twice with one that resolves
in between. `CloseGate`: three acts are an edit or a close by
each party and its answer; `Worlds` names what may go wrong in each start, as both at once are out of reach. `FleetRun`: with a cap of 1, two projects make one wait; two containers let
one replace another; the one fault may be a failed step, a mishap of a container or a kill.
`Daemon`: two turns, so that one is resumed while the list still holds the other; `MaxAttempts` is the code's 2; up to two kills cut off an
attempt and the one after it; the disk fills and is freed any number of times, the breaker trips once. `QueueLimit` is 2 and `BatchLimit` 1, where
the code has 100 and 20: three webhooks make a pass leave one.
`Runner`: three turns of a role make one run, one wait for the lock and one come after; one role answers by
request id and one by order (`Correlated`), as in the code; there is room for every object the calls can make,
which `TypeOK` checks.
CHECK_DEADLOCK is off where all that is bounded may simply have happened; `FleetRun` and `DaemonRun` check it.

**Fairness, and why the code justifies it.** The drain (`WF` on its steps, on the start of a pass, on arrivals):
the dispatcher loop catches every exception, wakes at least every few seconds and takes the oldest eligible rows, at most 20.
Clocks and role holds run out by themselves. In `Daemon` the five seconds of the drain's wait and the
collector's hour are *not* fair: what the flags promise must not rest on a timeout. A call of the runner ends, as the
socket has a deadline; an open turn grows old. In `Runner` only "some thread that can run does" is
assumed, deadlines included: a CLI need not answer. The sweep and the reconciler's pass: a thread on a timer.
`Fleet`: `SF(Picks(p))`, as a pass goes through every deferred row of its batch in turn, so the other project
cannot keep the drain. This assumes that a project is in the batch, that is, that fewer than twenty older deliveries are
put off time and again without a clock (section 6); a run of `Fleet` has one delivery for each project; `SF(TenMinutes)`, since time passes however often it is not the moment. Nothing is assumed
of GitHub, of its users, or of failures: these have no fairness, and failures are bounded, which is
where "eventually" rests on "not failing for ever".

**Assumptions on time in `Fleet`.** Ten minutes (the age below which a container is spared) do not go by between
a pass's listing and its last removal, nor while the drain acts on a row it has read, the wait for the lock
included. `LiveTurnKept` needs this: the row is read before the lock, and a pass may clear it during the wait.
The collector does not overtake a drain that waits for the lock. `Served` is stated while containers can still be
created, because each overlap of a pass with the writing of a row costs one.

## 4. Abstractions

Delivery payloads are records of what the code branches on. Digests, comments, logs, file layouts, credentials and docker
flags are left out; where such a step may fail, the failure is an action. GitHub reads
(mergeability, checks) are choices. Of the reviews, the first page is modelled as the counterpart's last word until others have filled it, and
unchanged from then on; every review carries its commit, and one read does not show the review and the next one hide it. In `Daemon` the rows keep the order of their ids,
which the code takes from `received_at`. `SessionLoop` runs
one session, so the project block is toggled by a `Sibling`. In `Fleet` turns a kill left open end
with the pass (`Daemon` has what becomes of them); creation is one step up to `docker start`; a `git gc` child that outlives a
killed daemon is left out; so is the pass after a failed inventory, which removes nothing.
`PauseRemembers` is checked without structural refusals, see section 6. `Daemon` has one session and one role, and its
disk has three levels; what a pass of the collector frees is a choice. `Runner` leaves out the one-shot CLI (no lock, no registry), changes
of model or adapter, and what an agent writes; a frame is text, a result or an error of some prompt.
`NothingForgotten` is stated for gateways that do not tear down or resume while a thread they gave up on still runs;
`TurnService` knows a role as spoiled while a session has a CLI that could not be killed, which is where the code owns up to mixed answers.

## 5. Proofs

`tlapm X_proofs.tla`. For all values of the constants, from the named assumptions of the modules, and for
three theorems of `SessionLoop` from a hypothesis on its worlds, which the run that checks the property satisfies:

- `SessionLoop_proofs`: **DrainImplementsLedger**, every behaviour of the drain is one of `DeliveryLedger`.
  The ledger settles only what is deferred and not at work; that the drain does so needs `InHand`: what it has
  in its batch or in hand is deferred, and a turn it waits for was counted. **DrainHoldsDeferred** states that.
  **TypeCorrect**: two parts of the type are not inductive: the attempt
  counters, which stay below their limit because the step that would reach it gives up, and the head a session takes,
  which needs that the kind in hand is the kind of its delivery (`JobFits`).
- `SessionLoopState_proofs`: **AgentsWorkWhenAsked** and **PauseEndsByOwner**. `Asked` says at each stage
  what the drain still knows of the session it read (`Fresh`), of the reply it follows (`Answering`) and of the
  turn (`Working`). **ApprovalsStood**: the
session compares the reviews it read with the head of a later moment, and the theorem is about the earlier one. `ReadBefore` says that
no review is of a head that was not pushed yet, so that what was read is of a head not ahead of the live one then, nor that
of the live one now; heads only grow, and if the first equals the last it equals the one between. **IssuesAreKept**: while a delivery is in hand its
  session exists (`Alive`). **PausesRemember**, under `Unrefused`: no structural refusal and no other issue of the
  project, which forget what a paused session returns to (section 6). **LandedIsMerged**, under `SoundStarts`:
  the session begins with a row that is right about what has landed. Its invariant `Landing` adds that reports of
  a merge are true and that the merge in hand is of the pull request the session tracks.
  Then the turns there can be. **BudgetAlwaysHolds**: the counters are read when a delivery is picked and bumped
  after the turn, so the bound is not inductive; `Funded` says that the turn in hand is within the budget or
  belongs to a delivery of the owner not yet counted as settled. **DeliveriesGivenOutOnce**: a turn that is over has
  settled its delivery or was ended by a kill (`Repaid`). **HeadsGivenOutOnce**: `GivenOutOnce` under the
  hypothesis `OneLine`, that a half of the session has one pull request and the live head can be read; without it the
  property does not hold (section 6). The argument is that the stored head never goes back: it is not ahead of the live one
  (`Behind`), nothing given out is ahead of it (`Given`), and a push in hand is ahead of it until it
  is stamped and equal to it until it is given out (`Ahead`).
- `Fleet_proofs`: **TypeCorrect** (with it, that the admit lock has one holder), **CapHolds**, **PacksAlone**.
  Between admission and the write of the row the drain has a place no row shows, and it may have been promised it
  by a row read before the lock that the reconciler deletes meanwhile. `Promised` says when it has such a
  place, `Funded` that the rows and that place together stay within the cap. **TurnsKeepTheirContainer**: a pass dooms
  a container for what a row said, and the drain may write that row before the removal. `AgeInv` says why it never
  writes the doomed container: what the drain holds and no row names is young (`StrayIsYoung`), for the ten minutes
  do not go by while it holds it, and a pass dooms nothing it listed as young (`OldIsNamed`, `DoomedUnnamed`).
- `StallSignals_proofs`: **CountKeepsUp**, **BarrenRoundsAlwaysPause**. `ZeroKeepsUp` is the strengthening: the
  stored count is never behind the ideal observer's, or both are at the threshold and the session has just been paused; and a thread
  that was seen open and is gone has been noticed.
- `CloseGate_proofs`: **TypeCorrect**, **NeverForgedHolds**, **OnlyVouchedRaisesHolds**, **ClosedIsSweptHolds**,
  **TornDownByOwnerHolds**, also from `StartsAssumption` (a run begins before the close is classified). `Typed` adds that the
  delivery in hand is in the inbox and no longer in the batch. `Inv`: what a webhook
  tells happened (`Told`); a record or a box a restore may raise was vouched for (`Vouched`, `Doubted`); a close at work is the
  owner's (`Owned`); and archiving follows a sweep of the ledger (`SweptFirst`).
- `Daemon_proofs`: **TypeCorrect**, **TripStopsIntakeHolds**, **NoWakeupLostHolds**, **ResumesCountedHolds**,
  **CallKeepsItsTurnHolds**, also from `ScenesAssumption`. `Typed` says that the turn in flight is the one the drain calls, that row ids
  are given out in order, and that what the reconciler has read of a turn's attempts stays true until it acts. **NoWakeupLostHolds** is for any
limits and any backlog; its invariant `Looked` says at each stage of the pass that a queued row is in the batch, was skipped, or has its handler or a nudge
still to come. For the last theorem, `Spared`: between the insertion of
  its row and the moment it is in flight the reconciler may take a turn for an orphan, but what it has read of it
  then only lets it mark the row, never close it.
- `Runner_proofs`: **TypeCorrect**, with it that every lock is held by a thread at work, from `RunnerAssumption` (roles are
  distinct and there is room for the sessions and CLIs a container starts with). `Shape` says that calls, sessions and
  CLIs are numbered as they are made, that where a thread is tells its kind of call, that no CLI belongs to two sessions,
  and that the registry names sessions of its roles; `Locked`, that whoever is past a lock holds it.
- `RunnerPromises_proofs`: **Refinement**, every behaviour of the runner is one of `TurnService`. What it needs is `Pipes`: as long
  as a CLI has survived no kill, what is on its pipes belongs to the one turn that waits for it, and before that
  turn has written its prompt there is nothing; a CLI that has survived one makes its role spoiled, which is
  when the abstract service lets a turn hear another. **TeardownTellsTrue**: of what a teardown saw running, each is dead, was
  replaced, or is still in a session it has to shut down, or its answer is a failure (`Tearing`); a replaced CLI
  belongs to no session, and a thread about to spawn has a session without a live CLI (`Tears`), so that no step loses track of
  one. **NoneForgotten**: the gateway waits for the one thread at work unless it has left one behind (`Waits`); then a thread with
  a session finds it in the registry, and a CLI that runs is there, or was replaced or torn down (`Forgets`). A step of a
  thread keeps what the others know because two at work serve two roles, and nothing is at work beside a teardown or
  a resume (`Alone`).

Two things came out of these proofs. The mapping to `TurnService` had a role spoiled only while the CLI that outlived a kill
ran: with a second fault, such a CLI answers, exits, and a turn reads from its pipe what it said to another; a
turn may therefore hear that for as long as a session has the CLI, and `Spoiled` now says so. And the roles of
`RoleOrder` must be distinct and the bounds leave room for `Init`, which `RunnerAssumption` now states.

Only model-checked: the properties under fairness (`EverySettles` twice, `ReplyResumes`, `CloseIsNoticed`, `LeftoversGo`, `Served`,
`EveryTurnCloses`, `TripIsSwept`, `QueueEmpties`, `EveryCallEnds`), as liveness is out of the prover's reach. Every other
property of a passing run is a theorem.

## 6. Findings

Runs with a counterexample, each against a sentence of the repository quoted in `PROJECT.json`:

- `ClaimCues`: a PR opening or a push whose dispatch meets a busy role, a full host or a quota has by then moved
  the session and stamped the head (`session_loop.py:1037`, `:1089`). Picked again, it looks like a repetition of
  itself (`:984`, `:997`) and is marked done. No agent is told. ADR-33 and the comment at `:1127` promise a retry.
- `ClaimIntake`: a kill between the row `ensure_session` inserts in INTAKE and the update that moves it on
  (`:582`) leaves the session in INTAKE for good: only the pick that creates a session moves it on.
- `ClaimStamp`: the owner's edit of the prose over a box an agent has just ticked is recorded as the
  owner's verification (`:2305`).

Met while modelling, kept as notes of `hazards` without a run:

- A second Feature PR opened from AWAITING_VERIFICATION ends in IMPLEMENTING, from where neither its review nor
  its approval is a transition; its merge is escalated (`fsm.py:88`).
- The reply to a failed teardown restores TEARDOWN and dispatches (`session_loop.py:3527`). `TurnsAreAskedFor` excuses it by name.
- An escalation of a held session overwrites the hold prefix (`:3486`), after which a comment of the owner resumes
  a session whose issue is closed. A structural refusal of a paused session loses the state to return to (`:2190`).
- A request for changes that waits is counted as a round on each pick (`:1146`); an empty snapshot
  of threads is taken for none resolved (`:2020`). The tracker is rebuilt for every event without its last head
  (`:1957`), so the fingerprint signal is never armed.
- The sweep writes its marker before its report (`reconciler.py:603`), moves a session on from the state it listed
  (`:665`), and lifts a hold by writing back the reason it listed (`:592`). `CloseIsNoticed` excuses these by name.
- When the live head cannot be read, a push is not compared with it (`:1007`): a late webhook for an earlier head is then
  stamped over a later one, and a repetition of the later one buys a second turn. ADR-37 names the late
  turn as the price of failing open; the second one it does not mention. `SLdesign` has no failing reads.
- An edit between the read and the write of a restore is overwritten (`session_loop.py:2571`); two agent edits
  faster than the drain undo an owner's tick (`:2552`).
- Running containers may exceed the cap until a pass removes what no row names (`supervisor.py:490`,
  `reconciler.py:344`). A project whose first session is opened on an old container after the
  pass has read the sessions may lose the container while it works (`reconciler.py:278`).
- Turns are resumed from a list read before the first of the resumes; a turn retired or grown old meanwhile is
  resumed all the same (`:461`). The mark of an attempt a kill cuts off survives, so that the attempt is made
  again and not counted, and a mark is spent although the session is paused when its turn comes (`:468`).
- A turn that is being called may be marked as resuming: its row exists (`:1455`) before it is in flight
  (`:1465`). ADR-27 excludes that; nothing worse follows, as `CallKeepsItsTurn` shows. A killed turn for a comment is both dispatched
  again, by its deferred delivery, and resumed.
- The reviews of an approval are read without a page size (`verify.py:240`, for a design `:177`), so the first thirty, oldest first, where
  `github_fetch.py:251` asks for a hundred. With more of them, an approval taken back on a later page counts as the latest verdict, which `:391` and
  ADR-38 do not want, and an approval given there is not found.
- A pass lists 100 queued rows and then waits, up to five seconds, although more may be queued (`dispatcher.py:66`), as after the breaker
  closes. An exception while a row is handled ends the pass (`:69`, `:82`), and since that row is the oldest of every pass, one that
  always fails keeps everything behind it, turns and deferred deliveries included, from ever being looked at.
- A full host or a failing creation puts a delivery that opens a session off, without a clock and uncounted (`session_loop.py:557`, `:577`). Twenty such
  deliveries fill every pass (`dispatcher.py:75`), and younger ones wait as long as they do.
- The breaker is asked between queued rows, not between deferred ones (`dispatcher.py:75`), so that turns go on starting
  on a full disk until the pass ends.
- In the runner, a turn asks whether the runner is initialised before it waits for its role (`server.py:524`,
  `:535`), and runs after a teardown that came during the wait. A CLI whose kill at the deadline failed is
  prompted again by the next turn (`cli_session.py:991`), although the comment there and ADR-35 say that the role is
  left un-reusable; that turn may then hear the answer to the earlier prompt. The poll before each
  read drops an answer that is queued behind the pipe of a CLI that has exited (`:1075`). The teardown of one session kills the
  CLIs the other sessions of the project share.

## 7. Not modelled, and the plan

What is left, in the order of use:

1. `SessionLoop` with several sessions of one project, so that the block and the role holds are shared for real, and the
   drain of `Daemon` composed with it: the two tables an interrupted comment turn leaves (section 6) meet only there.
2. `Runner`: the one-shot CLI, changes of model and adapter, and which conversation a new CLI re-enters.
3. `CloseGate`: completion comment, close without dispatch, the verification block at the merge.
4. Proofs: what becomes of a thread the gateway has left behind beside a teardown (`NoneForgotten` excludes it).

Left out for good: schema migrations and plain readers of `db.py`, `archive.py` and `gitops.py` (I/O on disk),
digests and formatting, `agentctl`, packaging, probes (they stamp a column nothing decides on), `demote_cold` (no caller),
and the sweeps of the collector over ledger, branches and worktrees.
