------------------------------- MODULE Fleet -------------------------------
(***************************************************************************)
(* Project containers and the rows that name them.  Four threads share     *)
(* docker and the database: the drain, which ensures a container before it *)
(* dispatches a turn (supervisor.py, under the admit lock); the            *)
(* reconciler, which removes containers and rows nobody answers for        *)
(* (reconciler.py, no lock); garbage collection, which packs the clones of *)
(* projects without a session (gc.py, under the admit lock); and the world,*)
(* which stops, restarts or removes containers and moves the image tag.    *)
(*                                                                         *)
(* A container is named after its project, so docker holds at most one per *)
(* project.  Rows are always hot: demote_cold has no caller in the daemon. *)
(* Layout, credentials and the image check are abstracted.                 *)
(***************************************************************************)
EXTENDS Integers, FiniteSets

CONSTANTS Projects,       \* repositories
          Nobody,         \* no project
          Cap,            \* max_hot_containers
          MaxMade,        \* bound: containers created
          MaxArrivals,    \* bound: deliveries
          MaxFaults       \* bound: failed steps, mishaps of containers, kills

ASSUME BoundsAssumption ==
    /\ IsFiniteSet(Projects) /\ Nobody \notin Projects
    /\ Cap \in Nat \ {0}
    /\ {MaxMade, MaxArrivals, MaxFaults} \subseteq Nat

Ids == 1..MaxMade
Nothing == 0                     \* no container id, no row

Boxes == [id : Ids, up : BOOLEAN, ready : BOOLEAN, old : BOOLEAN, fits : BOOLEAN]
NoBox == [id |-> Nothing]
Listings == [p : Projects, id : Ids, old : BOOLEAN]

VARIABLES
    box,      \* docker: the container of each project
    row,      \* table runners: the container each project's row names
    live,     \* projects with a session that is not CLOSED
    asks,     \* the deferred delivery of each project
    open,     \* projects with a turn row that has not ended
    drain,    \* the drain thread, its lock included
    pass,     \* the reconciler's pass and what it has read
    packs,    \* the project whose clone git gc packs, under the lock
    made, arrived, faults

fleet == <<box, row, live, open, made>>
bounds == <<arrived, faults>>
vars == <<box, row, live, asks, open, drain, pass, packs, made, arrived, faults>>

Idle == [pc |-> "idle", p |-> Nobody, seen |-> Nothing, then |-> "fetch"]
Resting == [pc |-> "resting", listed |-> {}, live |-> {}, open |-> {}, doomed |-> {}, stale |-> {}]

Exists(p) == box[p] # NoBox
Names(p, id) == Exists(p) /\ box[p].id = id
Serviceable(p, id) == Names(p, id) /\ box[p].up /\ box[p].ready

\* The container id the row of p names is the one docker holds.
RowHolds(p) == row[p] # Nothing /\ Names(p, row[p])

\* The admit lock: the drain holds it from its first look at docker to the
\* write of the runner row, git gc for the time it packs one clone.
DrainHolds == drain.pc \in {"adopt", "promote", "start", "admit", "init", "claim"}
LockFree == ~DrainHolds /\ packs = Nobody

Drains == [pc : {"idle", "ping", "wants", "adopt", "promote", "start", "admit",
                "init", "claim", "fetch", "works"},
           p : Projects \union {Nobody}, seen : Ids \union {Nothing},
           then : {"ping", "fetch"}]
Passes == [pc : {"resting", "listed", "knowsLive", "knowsOpen", "sweeps"},
           listed : SUBSET Listings, live : SUBSET Projects, open : SUBSET Projects,
           doomed : SUBSET Listings, stale : SUBSET Projects]

TypeOK ==
    /\ box \in [Projects -> Boxes \union {NoBox}]
    /\ row \in [Projects -> Ids \union {Nothing}]
    /\ live \subseteq Projects /\ open \subseteq Projects
    /\ asks \in [Projects -> {"none", "opens", "follows"}]
    /\ drain \in Drains /\ pass \in Passes
    /\ packs \in Projects \union {Nobody}
    /\ DrainHolds => packs = Nobody
    /\ made \in 0..MaxMade /\ arrived \in 0..MaxArrivals
    /\ faults \in 0..MaxFaults

Init ==
    /\ box = [p \in Projects |-> NoBox] /\ row = [p \in Projects |-> Nothing]
    /\ live = {} /\ open = {} /\ asks = [p \in Projects |-> "none"]
    /\ drain = Idle /\ pass = Resting /\ packs = Nobody
    /\ made = 0 /\ arrived = 0 /\ faults = 0

-----------------------------------------------------------------------------
(***************************************************************************)
(* The drain: one delivery at a time.                                      *)
(***************************************************************************)

Under == drain.p
To(pc) == drain' = [drain EXCEPT !.pc = pc]
Fault == faults < MaxFaults /\ faults' = faults + 1
NoFault == UNCHANGED faults

Arrives(p) ==
    /\ asks[p] = "none" /\ arrived < MaxArrivals
    /\ \E what \in {"opens", "follows"} :
          /\ what = "follows" => p \in live
          /\ asks' = [asks EXCEPT ![p] = what]
    /\ arrived' = arrived + 1
    /\ UNCHANGED <<fleet, drain, pass, packs, faults>>

\* The last open session of p closes; the drain thread does this too.
Closes(p) ==
    /\ drain = Idle /\ p \in live /\ asks[p] = "none"
    /\ live' = live \ {p}
    /\ UNCHANGED <<box, row, asks, open, drain, pass, packs, made, bounds>>

\* An issue that opens a session asks for a container at once, and the turn
\* that follows pings it again; any other delivery starts with the ping.
Picks(p) ==
    /\ drain = Idle
    /\ \/ /\ asks[p] = "opens"
          /\ drain' = [pc |-> "wants", p |-> p, seen |-> row[p], then |-> "ping"]
       \/ /\ asks[p] = "follows"
          /\ drain' = [pc |-> "ping", p |-> p, seen |-> Nothing, then |-> "fetch"]
    /\ UNCHANGED <<fleet, asks, pass, packs, bounds>>

\* A row is not reachability: ping first, ensure only when the ping fails.
\* ensure_session reads the row here, before it has the lock.
Pings ==
    /\ drain.pc = "ping"
    /\ drain' = IF Serviceable(Under, row[Under])
                  THEN [drain EXCEPT !.pc = "fetch", !.then = "fetch"]
                  ELSE [drain EXCEPT !.pc = "wants", !.then = "fetch", !.seen = row[Under]]
    /\ UNCHANGED <<fleet, asks, pass, packs, bounds>>

\* Mutant of MayEnter: the lock is not waited for.
EntersAtOnce == TRUE

MayEnter == LockFree

\* With the lock: adopt what runs and is initialised, promote what is stopped
\* or lost its memory, and create anew what is gone or of another image.
Inspects ==
    /\ drain.pc = "wants" /\ MayEnter
    /\ To(IF ~Names(Under, drain.seen) THEN "admit"
          ELSE IF Serviceable(Under, drain.seen) THEN "adopt"
          ELSE IF box[Under].fits THEN "promote" ELSE "admit")
    /\ UNCHANGED <<fleet, asks, pass, packs, bounds>>

\* The session row is written before the runner row, on every path.  From
\* then on the delivery is one of an existing session.
Records ==
    /\ live' = live \union {Under}
    /\ asks' = [asks EXCEPT ![Under] = "follows"]

Adopts ==
    /\ drain.pc = "adopt"
    /\ Records /\ To("claim")
    /\ UNCHANGED <<box, row, open, pass, packs, made, bounds>>

Attaches ==
    /\ drain.pc = "promote"
    /\ Records /\ To("start")
    /\ UNCHANGED <<box, row, open, pass, packs, made, bounds>>

\* session.init and session.resume of the runner; docker start, which changes
\* nothing of a container that runs.
Ready(b) == [b EXCEPT !.ready = TRUE]
Started(b) == [b EXCEPT !.up = TRUE, !.old = @ /\ b.up]

\* promote_hot reads the row again; a row or a container that has gone since
\* raises, and the caller creates a container instead.

Promotes ==
    /\ drain.pc = "start"
    /\ \/ RowHolds(Under) /\ box' = [box EXCEPT ![Under] = Ready(Started(@))] /\ To("claim")
       \/ ~RowHolds(Under) /\ To("admit") /\ UNCHANGED box
    /\ UNCHANGED <<row, live, open, made, asks, pass, packs, bounds>>

\* Adopting or promoting may fail half way (a mount, the RPC), with what was
\* stopped running or even initialised by then: recreate.
FallsBack ==
    /\ drain.pc \in {"adopt", "start"} /\ To("admit")
    /\ \/ Fault /\ UNCHANGED box
       \/ /\ drain.pc = "start" /\ RowHolds(Under) /\ Fault
          /\ \E b \in {Started(box[Under]), Ready(Started(box[Under]))} :
                box' = [box EXCEPT ![Under] = b]
       \/ /\ drain.pc = "adopt" /\ ~Serviceable(Under, drain.seen) /\ NoFault
          /\ UNCHANGED box
    /\ UNCHANGED <<row, live, open, made, asks, pass, packs, arrived>>

Hot == {p \in Projects : row[p] # Nothing}
Full == Cardinality(Hot) >= Cap
\* Mutant of Refused: one project too many.
RefusedWhenOver == Cardinality(Hot) > Cap /\ drain.seen = Nothing

Refused == Full /\ drain.seen = Nothing

\* What got no turn waits for another try.  A delivery of an existing session
\* may have used up its attempts, which ends in a question (SessionLoop).
Waits ==
    \/ UNCHANGED asks
    \/ asks[Under] = "follows" /\ asks' = [asks EXCEPT ![Under] = "none"]

Refuses ==
    /\ drain.pc = "admit" /\ Refused
    /\ drain' = Idle /\ Waits
    /\ UNCHANGED <<fleet, pass, packs, bounds>>

\* docker rm -f of the name, create, start: what had the name is replaced.
Creates ==
    /\ drain.pc = "admit" /\ ~Refused /\ made < MaxMade
    /\ box' = [box EXCEPT ![Under] = [id |-> made + 1, up |-> TRUE, ready |-> FALSE,
                                      old |-> FALSE, fits |-> TRUE]]
    /\ made' = made + 1 /\ To("init")
    /\ UNCHANGED <<row, live, open, asks, pass, packs, bounds>>

\* session.init, then the session row.
Initialises ==
    /\ drain.pc = "init" /\ Exists(Under) /\ box[Under].up
    /\ box' = [box EXCEPT ![Under] = Ready(@)]
    /\ Records
    /\ drain' = [drain EXCEPT !.pc = "claim", !.seen = box[Under].id]
    /\ UNCHANGED <<row, open, made, pass, packs, bounds>>

\* The removal by name has succeeded and the rest raises, or an assertion on
\* the new container or its initialisation does: it stays, named by no row.
\* The bound on containers is met as a create that fails.
BreaksOff ==
    /\ \/ /\ drain.pc = "admit" /\ ~Refused /\ box' = [box EXCEPT ![Under] = NoBox]
          /\ Fault \/ (made = MaxMade /\ NoFault)
       \/ /\ drain.pc = "init" /\ Exists(Under) /\ Fault
          /\ \E b \in {box[Under], Ready(box[Under])} : box' = [box EXCEPT ![Under] = b]
       \/ drain.pc = "init" /\ ~(Exists(Under) /\ box[Under].up) /\ NoFault /\ UNCHANGED box
    /\ drain' = Idle /\ Waits
    /\ UNCHANGED <<row, live, open, made, pass, packs, arrived>>

Claims ==
    /\ drain.pc = "claim"
    /\ row' = [row EXCEPT ![Under] = drain.seen]
    /\ drain' = [drain EXCEPT !.pc = drain.then, !.seen = Nothing]
    /\ UNCHANGED <<box, live, open, made, asks, pass, packs, bounds>>

\* The row is read once more for the endpoint; without one there is no turn.
Fetches ==
    /\ drain.pc = "fetch"
    /\ \/ row[Under] = Nothing /\ drain' = Idle /\ Waits /\ UNCHANGED open
       \/ /\ row[Under] # Nothing /\ open' = open \union {Under}
          /\ drain' = [drain EXCEPT !.pc = "works", !.seen = Nothing, !.then = "fetch"]
          /\ UNCHANGED asks
    /\ UNCHANGED <<box, row, live, made, pass, packs, bounds>>

\* The turn ends.  Without its container it has failed and is retried, until
\* its attempts are used up.
TurnEnds ==
    /\ drain.pc = "works"
    /\ open' = open \ {Under} /\ drain' = Idle
    /\ IF Serviceable(Under, row[Under])
         THEN asks' = [asks EXCEPT ![Under] = "none"]
         ELSE Waits
    /\ UNCHANGED <<box, row, live, made, pass, packs, bounds>>

-----------------------------------------------------------------------------
(***************************************************************************)
(* The reconciler: it reads docker, the sessions, the open turns and the   *)
(* rows one after the other, and acts on what it has read.                 *)
(***************************************************************************)

Lists ==
    /\ pass.pc = "resting"
    /\ pass' = [pass EXCEPT !.pc = "listed",
                            !.listed = {[p |-> p, id |-> box[p].id, old |-> box[p].old] :
                                           p \in {q \in Projects : Exists(q)}}]
    /\ UNCHANGED <<fleet, asks, drain, packs, bounds>>

ReadsLive ==
    /\ pass.pc = "listed"
    /\ pass' = [pass EXCEPT !.pc = "knowsLive", !.live = live]
    /\ UNCHANGED <<fleet, asks, drain, packs, bounds>>

ReadsOpen ==
    /\ pass.pc = "knowsLive"
    /\ pass' = [pass EXCEPT !.pc = "knowsOpen", !.open = open]
    /\ UNCHANGED <<fleet, asks, drain, packs, bounds>>

\* Mutants of Kept and Spared: any container of a live project is kept; the
\* age of a container does not matter.
KeptAnyway(c) == c.p \in pass.live
SparedAtWork(c) == c.p \in pass.open

\* _decide: keep the container that the row of a live project names, spare
\* the young and those under an open turn, remove the rest.
Kept(c) == c.p \in pass.live /\ row[c.p] = c.id
Spared(c) == ~c.old \/ c.p \in pass.open
Doomed(c) == ~Kept(c) /\ ~Spared(c)

\* Mutant of Unlisted: only rows of live projects.
NotListed(p) == row[p] # Nothing /\ \A c \in pass.listed : c.id # row[p]
UnlistedOfLive(p) == NotListed(p) /\ p \in pass.live

\* A row is stale when the container it names was not listed.
Unlisted(p) == NotListed(p)

ReadsRows ==
    /\ pass.pc = "knowsOpen"
    /\ pass' = [pass EXCEPT !.pc = "sweeps", !.listed = {},
                            !.doomed = {c \in pass.listed : Doomed(c)},
                            !.stale = {p \in Projects : Unlisted(p)}]
    /\ UNCHANGED <<fleet, asks, drain, packs, bounds>>

\* docker rm -f of the id listed: nothing happens when it has gone meanwhile.
Removes(c) ==
    /\ pass.pc = "sweeps" /\ c \in pass.doomed
    /\ pass' = [pass EXCEPT !.doomed = @ \ {c}]
    /\ box' = IF Names(c.p, c.id) THEN [box EXCEPT ![c.p] = NoBox] ELSE box
    /\ UNCHANGED <<row, live, open, made, asks, drain, packs, bounds>>

\* delete_runner goes by the project, whatever its row names by now.
ClearsRow(p) ==
    /\ pass.pc = "sweeps" /\ pass.doomed = {} /\ p \in pass.stale
    /\ pass' = [pass EXCEPT !.stale = @ \ {p}]
    /\ row' = [row EXCEPT ![p] = Nothing]
    /\ UNCHANGED <<box, live, open, made, asks, drain, packs, bounds>>

\* At its end the pass settles the turns a killed daemon left open (resumed
\* or retired, abstracted to their end).
PassEnds ==
    /\ pass.pc = "sweeps" /\ pass.doomed = {} /\ pass.stale = {}
    /\ pass' = Resting
    /\ open' = {p \in open : drain.pc = "works" /\ p = Under}
    /\ UNCHANGED <<box, row, live, made, asks, drain, packs, bounds>>

-----------------------------------------------------------------------------
(***************************************************************************)
(* Garbage collection, time and mishaps.                                   *)
(***************************************************************************)

\* Mutant of Unused: the project is not looked up again under the lock.
UnusedBefore(p) == TRUE

Unused(p) == p \notin live

\* The project is looked up under the lock that also covers its layout.  The
\* collector takes the lock once a project in its hourly pass, so a drain
\* that waits for it is not overtaken.
Packs(p) ==
    /\ LockFree /\ drain.pc # "wants" /\ Unused(p)
    /\ packs' = p
    /\ UNCHANGED <<fleet, asks, drain, pass, bounds>>

Packed ==
    /\ packs # Nobody /\ packs' = Nobody
    /\ UNCHANGED <<fleet, asks, drain, pass, bounds>>

\* Ten minutes after its start a container is old.  They do not go by between
\* the listing of a pass and its last removal, nor while the drain acts on a
\* row it has read, its wait for the lock included: those take seconds.  A
\* turn, or the sweep of GitHub at the end of a pass, may last.
PassActs == pass.pc # "resting" /\ ~(pass.pc = "sweeps" /\ pass.doomed = {} /\ pass.stale = {})
DrainActs == drain.seen # Nothing \/ drain.pc = "init"

TenMinutes ==
    /\ ~PassActs /\ ~DrainActs
    /\ \E p \in Projects : Exists(p) /\ ~box[p].old
    /\ box' = [p \in Projects |-> IF Exists(p) THEN [box[p] EXCEPT !.old = TRUE] ELSE NoBox]
    /\ UNCHANGED <<row, live, open, made, asks, drain, pass, packs, bounds>>

\* A container stops; its process is restarted and has forgotten its
\* initialisation; the image tag moves; somebody removes the container.
Mishaps(b) == {[b EXCEPT !.up = FALSE, !.ready = FALSE],
               [b EXCEPT !.ready = FALSE, !.old = FALSE],
               [b EXCEPT !.fits = FALSE],
               NoBox}

Mishap(p) ==
    /\ Exists(p) /\ Fault
    /\ \E b \in Mishaps(box[p]) : box' = [box EXCEPT ![p] = b]
    /\ UNCHANGED <<row, live, open, made, asks, drain, pass, packs, arrived>>

\* The daemon is killed: docker and the tables stay as they are.
Crash ==
    /\ Fault
    /\ drain' = Idle /\ pass' = Resting /\ packs' = Nobody
    /\ UNCHANGED <<fleet, asks, arrived>>

-----------------------------------------------------------------------------
Draining ==
    \/ Pings \/ Inspects \/ Adopts \/ Attaches \/ Promotes \/ FallsBack
    \/ Refuses \/ Creates \/ Initialises \/ BreaksOff \/ Claims \/ Fetches \/ TurnEnds

Reconciling ==
    \/ Lists \/ ReadsLive \/ ReadsOpen \/ ReadsRows
    \/ \E c \in pass.doomed : Removes(c)
    \/ \E p \in pass.stale : ClearsRow(p)
    \/ PassEnds

Next ==
    \/ \E p \in Projects : Arrives(p) \/ Closes(p) \/ Picks(p) \/ Packs(p) \/ Mishap(p)
    \/ Draining \/ Reconciling \/ Packed \/ TenMinutes \/ Crash

Spec == Init /\ [][Next]_vars

\* The threads keep running: the drain goes through every deferred delivery
\* of its batch, the reconciler starts a pass every five minutes, time passes.
\* A batch is the twenty oldest deliveries that are due.  That each project
\* is picked in its turn assumes that fewer than twenty older deliveries are
\* put off again and again without a clock (a full host, a step of creation
\* that fails).  A run has one delivery for each project.
Fairness ==
    /\ WF_vars(Draining) /\ WF_vars(Reconciling) /\ WF_vars(Packed)
    /\ \A p \in Projects : SF_vars(Picks(p))
    /\ SF_vars(TenMinutes)

FairSpec == Spec /\ Fairness

-----------------------------------------------------------------------------
(***************************************************************************)
(* Properties                                                              *)
(***************************************************************************)

\* Section 6.6: no more projects have a hot row than the cap allows, although
\* admission trusts a row read before the lock and the reconciler deletes
\* rows without it.
HotWithinCap == Cardinality(Hot) <= Cap

\* ADR-23: while git gc packs a clone, no session works in it and none is
\* being attached to it.
PackedAlone == packs # Nobody => packs \notin live

\* The reconciler takes no container from under a turn of a project that had
\* a session when the pass read the sessions: not one whose row was being
\* rewritten, nor one whose turn began after the pass read the open turns.
LiveTurnKept ==
    [][\A p \in pass.live :
          (/\ drain.pc = "works" /\ Under = p /\ Serviceable(p, row[p])
           /\ pass.doomed' # pass.doomed)
          => Serviceable(p, row[p])']_vars

\* A container that no row names, or whose project has no session left, is
\* removed, or taken into use again; a row that names a container docker does
\* not have is cleared or replaced.
Debris(p) == Exists(p) /\ (p \notin live \/ row[p] # box[p].id)
StaleRow(p) == row[p] # Nothing /\ ~RowHolds(p)
LeftoversGo == \A p \in Projects : []<>~Debris(p) /\ []<>~StaleRow(p)

\* A delivery does not wait for ever while fewer than Cap other projects have
\* sessions: the rows and containers of closed projects free their place.  A
\* container is lost each time a pass overlaps the writing of its row; what
\* is said holds as long as that is not for ever.
Served ==
    \A p \in Projects :
        []<>~(asks[p] # "none" /\ Cardinality(live \ {p}) < Cap /\ made < MaxMade)

=============================================================================
