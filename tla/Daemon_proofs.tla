--------------------------- MODULE Daemon_proofs ---------------------------
(***************************************************************************)
(* The threads of the gateway, for any tables, hitches and bounds.         *)
(***************************************************************************)
EXTENDS Daemon, FiniteSetTheorems, TLAPS

(***************************************************************************)
(* Types.  What they rest on: turn ids are given out in order, a turn in   *)
(* flight is the one the drain calls, and what the reconciler has read of  *)
(* a turn's attempts stays true until it acts, as nobody else counts them. *)
(***************************************************************************)
InOrder == \E n \in 0..MaxTurns : \A t \in TurnIds :
    IF t <= n THEN row[t].st # "none" ELSE row[t] = NoRow

\* A turn is listed once.
Once(turns) == \A g, h \in turns : g.t = h.t => g = h

Called ==
    /\ drain.pc \in {"inserted", "call"} => drain.t \in TurnIds
    /\ DrainAt("inserted") => drain.kind # "resume"
    /\ (DrainAt("call") /\ drain.kind = "resume") =>
          \E h \in drain.turns : h.t = drain.t /\ FirstSeen(h, drain.turns)

AsRead ==
    /\ Once(drain.turns) /\ Once(recon.turns)
    /\ \A h \in recon.turns : h.tries = row[h.t].tries /\ row[h.t].st # "none"
    /\ (recon.pc = "act" /\ recon.act = "mark") =>
          \A h \in recon.turns : Judged(h) => h.tries < MaxAttempts

Typed == TypeOK /\ InOrder /\ Called /\ AsRead

LEMMA SnapshotIs ==
  ASSUME TypeOK
  PROVE  /\ Snapshot \subseteq SeenTurns /\ Once(Snapshot)
         /\ \A h \in Snapshot : h.t \in TurnIds /\ Open(h.t) /\ h = Seen(h.t)
<1>1. MaxAttempts \in Nat
  BY DaemonAssumption
<1>2. ASSUME NEW t \in TurnIds PROVE Seen(t) \in SeenTurns /\ Seen(t).t = t
  <2>1. row[t] \in TurnRows
    BY DEF TypeOK
  <2>2. row[t].tries \in Nat /\ row[t].old \in BOOLEAN
    BY <1>1, <2>1 DEF TurnRows
  <2> QED
    BY <2>2 DEF Seen, SeenTurns
<1> QED
  BY <1>2 DEF Snapshot, Once

\* Only the first turn of a list is handled.
LEMMA FirstIsOne ==
  ASSUME NEW turns \in SUBSET SeenTurns, Once(turns),
         NEW g \in turns, NEW h \in turns, FirstSeen(g, turns), FirstSeen(h, turns)
  PROVE  g = h
<1>1. g.t \in Int /\ h.t \in Int
  BY DEF SeenTurns, TurnIds
<1>2. g.t <= h.t /\ h.t <= g.t
  BY DEF FirstSeen
<1> QED
  BY <1>1, <1>2 DEF Once

\* A new row gets the id after the last one.
LEMMA NewTurnIs ==
  ASSUME TypeOK, InOrder, NewTurn <= MaxTurns
  PROVE  /\ NewTurn \in TurnIds
         /\ \A t \in TurnIds : IF t < NewTurn THEN row[t].st # "none" ELSE row[t] = NoRow
<1>1. PICK n \in 0..MaxTurns :
        \A t \in TurnIds : IF t <= n THEN row[t].st # "none" ELSE row[t] = NoRow
  BY DEF InOrder
<1>2. MaxTurns \in Nat /\ n \in Int /\ 1 \in Int
  BY DaemonAssumption
<1>3. Used = 1..n
  BY <1>1, <1>2 DEF Used, TurnIds, NoRow
<1>4. Cardinality(1..n) = n
  BY <1>2, FS_Interval
<1>5. NewTurn = n + 1
  BY <1>3, <1>4 DEF NewTurn
<1> QED
  BY <1>1, <1>2, <1>5 DEF TurnIds

LEMMA TypedInit == Init => Typed
<1> SUFFICES ASSUME Init PROVE Typed
  OBVIOUS
<1>1. PICK scene \in Scenes :
        /\ deliveries = scene.deliveries /\ row = scene.row /\ left = scene.hitches
        /\ collector = [pc |-> scene.collector, nudge |-> FALSE]
        /\ worked = [t \in TurnIds |-> scene.row[t].tries]
  BY DEF Init
<1>2. /\ deliveries \in [Deliveries -> Statuses] /\ row \in [TurnIds -> TurnRows]
      /\ left \in [Hitches -> Nat] /\ scene.collector \in {"off", "none"}
  BY <1>1, DaemonAssumption
<1>3. worked \in [TurnIds -> Nat]
  BY <1>1, <1>2, DaemonAssumption DEF TurnRows
<1>4. collector \in [pc : {"none", "off", "clear", "begin", "collect", "wait"}, nudge : BOOLEAN]
  BY <1>1, <1>2
<1>5. drain \in Drainings /\ recon \in Reconcilings
  BY DEF Init, Starting, Sleeping, Drainings, Reconcilings
<1>6. drain.pc = "start" /\ drain.turns = {} /\ recon.turns = {} /\ recon.pc = "sleep"
  BY DEF Init, Starting, Sleeping
<1>7. TypeOK
  BY <1>2, <1>3, <1>4, <1>5, <1>6 DEF Init, TypeOK, DrainAt
<1>8. InOrder
  BY <1>1, ScenesAssumption DEF InOrder
<1> QED
  BY <1>6, <1>7, <1>8 DEF Typed, Called, AsRead, Once, DrainAt

\* What a statement on the table may do to the rows, attempts apart.
Kept == /\ row' \in [TurnIds -> TurnRows] /\ InOrder'
        /\ \A t \in TurnIds : /\ row'[t].tries = row[t].tries
                              /\ row[t].st # "none" => row'[t].st # "none"

LEMMA RowsKept ==
  ASSUME Typed, NEW t \in TurnIds,
         \/ row' \in {row, Unmark(t), Finish(t, "answered"), Finish(t, "interrupted")}
         \/ Ages(t)
         \/ t = NewTurn /\ NewTurn <= MaxTurns /\ row' = [row EXCEPT ![t].st = "open"]
  PROVE  Kept
<1>1. row \in [TurnIds -> TurnRows] /\ InOrder /\ TypeOK
  BY DEF Typed, TypeOK
<1>2. CASE row' = row
  BY <1>1, <1>2 DEF Kept, InOrder
<1>3. ASSUME NEW r \in TurnRows, row' = [row EXCEPT ![t] = r], r.tries = row[t].tries,
             r.st # "none", row[t].st # "none"
      PROVE  Kept
  <2>1. /\ row' \in [TurnIds -> TurnRows]
        /\ \A u \in TurnIds : row'[u].tries = row[u].tries /\ (row[u].st # "none" => row'[u].st # "none")
        /\ \A u \in TurnIds : u # t => row'[u] = row[u]
        /\ row'[t] = r
    BY <1>1, <1>3
  <2>2. PICK n \in 0..MaxTurns :
          \A u \in TurnIds : IF u <= n THEN row[u].st # "none" ELSE row[u] = NoRow
    BY <1>1 DEF InOrder
  <2>3. t <= n
    BY <1>3, <2>2 DEF NoRow
  <2>4. \A u \in TurnIds : IF u <= n THEN row'[u].st # "none" ELSE row'[u] = NoRow
    BY <1>3, <2>1, <2>2, <2>3
  <2>5. InOrder'
    BY <2>4 DEF InOrder
  <2> QED
    BY <2>1, <2>5 DEF Kept
<1>4. ASSUME NEW st \in {"open", "answered", "interrupted"}, row' = [row EXCEPT ![t].st = st],
             row[t].st # "none"
      PROVE  Kept
  <2> DEFINE r == [row[t] EXCEPT !.st = st]
  <2>1. r \in TurnRows /\ r.tries = row[t].tries /\ r.st = st
    BY <1>1 DEF TurnRows
  <2>2. row' = [row EXCEPT ![t] = r]
    BY <1>1, <1>4
  <2> HIDE DEF r
  <2> QED
    BY <1>3, <1>4, <2>1, <2>2
<1>5. CASE row' \in {Unmark(t), Finish(t, "answered"), Finish(t, "interrupted")}
  BY <1>2, <1>4, <1>5 DEF Unmark, Finish, Open
<1>6. CASE Ages(t)
  <2> DEFINE r == [row[t] EXCEPT !.old = TRUE]
  <2>1. r \in TurnRows /\ r.tries = row[t].tries /\ r.st = row[t].st
    BY <1>1 DEF TurnRows
  <2>2. row' = [row EXCEPT ![t] = r] /\ row[t].st # "none"
    BY <1>1, <1>6 DEF Ages, Open
  <2> HIDE DEF r
  <2> QED
    BY <1>3, <2>1, <2>2
<1>7. CASE t = NewTurn /\ NewTurn <= MaxTurns /\ row' = [row EXCEPT ![t].st = "open"]
  <2> DEFINE r == [row[t] EXCEPT !.st = "open"]
  <2>1. r \in TurnRows /\ r.tries = row[t].tries /\ r.st = "open"
    BY <1>1 DEF TurnRows
  <2>2. row' = [row EXCEPT ![t] = r]
    BY <1>1, <1>7
  <2> HIDE DEF r
  <2>3. /\ row' \in [TurnIds -> TurnRows]
        /\ \A u \in TurnIds : row'[u].tries = row[u].tries /\ (row[u].st # "none" => row'[u].st # "none")
        /\ \A u \in TurnIds : u # t => row'[u] = row[u]
        /\ row'[t] = r
    BY <1>1, <2>1, <2>2
  <2>4. \A u \in TurnIds : IF u <= t THEN row'[u].st # "none" ELSE row'[u] = NoRow
    BY <1>1, <1>7, <2>1, <2>3, NewTurnIs DEF TurnIds
  <2>5. t \in 0..MaxTurns
    BY DaemonAssumption DEF TurnIds
  <2>6. InOrder'
    BY <2>4, <2>5 DEF InOrder
  <2> QED
    BY <2>3, <2>6 DEF Kept
<1> QED
  BY <1>2, <1>5, <1>6, <1>7

\* Hitches run out.
LEMMA HitchIs ==
  ASSUME TypeOK, NEW h \in Hitches, Hitch(h)
  PROVE  left' \in [Hitches -> Nat]
  BY DEF TypeOK, Hitch

\* A step of anyone but the reconciler.
LEMMA TypedStep ==
  ASSUME Typed, Kept, recon' = recon, drain' \in Drainings, Once(drain'.turns), Called',
         deliveries' \in [Deliveries -> Statuses], pending' \subseteq Deliveries, nudge' \in BOOLEAN,
         session' \in {"running", "paused", "teardown"}, left' \in [Hitches -> Nat],
         inflight' = (IF drain'.pc = "call" THEN {drain'.t} ELSE {}), busy' \in BOOLEAN,
         disk' \in {"low", "mid", "high"}, breaker' \in BOOLEAN, governor' \in {"sample", "tripped"},
         collector' \in [pc : {"none", "off", "clear", "begin", "collect", "wait"}, nudge : BOOLEAN],
         worked' \in [TurnIds -> Nat], killed' \in Nat, sinceTrip' \in Nat, unswept' \in BOOLEAN
  PROVE  Typed'
<1>1. TypeOK'
  BY DEF TypeOK, Typed, DrainAt, Kept
<1>2. \A h \in recon.turns : h.t \in TurnIds
  BY DEF Typed, TypeOK, Reconcilings, SeenTurns
<1>3. AsRead'
  BY <1>2 DEF Typed, AsRead, Kept, Judged
<1> QED
  BY <1>1, <1>3 DEF Typed, Kept

\* The steps that leave the rows alone.
LEMMA RowsSame ==
  ASSUME Typed, row' = row
  PROVE  Kept
  BY DEF Typed, TypeOK, Kept, InOrder

\* The steps of the drain that touch neither tables nor runner.
LEMMA TypedQuiet ==
  ASSUME Typed,
         \/ BeginsPass \/ ChecksRow \/ EntersLoop \/ EntersBatch \/ BatchEnds
         \/ Waits \/ FiveSeconds \/ Clears
  PROVE  Typed'
<1>1. /\ UNCHANGED <<tables, pending, memory, recon, space, left, history>>
      /\ nudge' \in BOOLEAN /\ drain.pc \notin {"call", "inserted"}
  BY DEF BeginsPass, ChecksRow, EntersLoop, EntersBatch, BatchEnds, Waits, FiveSeconds, Clears,
     DrainAt, Typed, TypeOK
<1>2. drain \in Drainings /\ TypeOK /\ Once(drain.turns)
  BY DEF Typed, TypeOK, AsRead
<1>3. In("queued") \subseteq Deliveries /\ In("deferred") \subseteq Deliveries
  BY DEF In
<1> DEFINE marked == {h \in Snapshot : h.resuming}
<1>4. marked \subseteq SeenTurns /\ Once(marked)
  BY <1>2, SnapshotIs DEF Once
<1> HIDE DEF marked
<1>5. /\ drain' \in Drainings /\ Once(drain'.turns)
      /\ drain'.pc \notin {"call", "inserted"}
  <2>1. CASE BeginsPass
    BY <1>2, <1>3, <2>1 DEF BeginsPass, Oldest, Drainings, Paused, Then
  <2>2. CASE ChecksRow
    BY <1>2, <2>2 DEF ChecksRow, Drainings
  <2>3. CASE EntersLoop
    <3>1. CASE drain' = [drain EXCEPT !.pc = "resume", !.turns = marked]
      BY <1>2, <1>4, <3>1 DEF Drainings
    <3>2. CASE DrainGo(Paused)
      BY <1>2, <3>2 DEF DrainGo, Drainings, Paused, Then
    <3> QED
      BY <2>3, <3>1, <3>2 DEF EntersLoop, marked
  <2>4. CASE EntersBatch
    <3>1. PICK due \in SUBSET In("deferred") :
            drain' = [drain EXCEPT !.pc = "batch", !.rows = Oldest(BatchLimit, due)]
      BY <2>4 DEF EntersBatch
    <3>2. Oldest(BatchLimit, due) \subseteq Deliveries
      BY <1>3 DEF Oldest
    <3> QED
      BY <1>2, <3>1, <3>2 DEF Drainings
  <2>5. CASE BatchEnds \/ Waits \/ FiveSeconds \/ Clears
    BY <1>2, <2>5 DEF BatchEnds, Waits, FiveSeconds, Clears, DrainGo, Drainings, Then
  <2> QED
    BY <2>1, <2>2, <2>3, <2>4, <2>5
<1>6. Called'
  BY <1>5 DEF Called, DrainAt
<1>7. inflight' = (IF drain'.pc = "call" THEN {drain'.t} ELSE {}) /\ Kept
  BY <1>1, <1>5, RowsSame DEF memory, tables, Typed, TypeOK, DrainAt
<1>8. UNCHANGED <<deliveries, session, busy, disk, breaker, governor, collector, unswept, worked,
                  killed, sinceTrip>>
  BY <1>1 DEF tables, memory, space, history
<1> QED
  BY <1>1, <1>5, <1>6, <1>7, <1>8, TypedStep DEF Typed, TypeOK

LEMMA SettlesIs ==
  ASSUME TypeOK, NEW d \in Deliveries, Settles(d)
  PROVE  deliveries' \in [Deliveries -> Statuses] /\ deliveries'[d] # "queued"
           /\ \A e \in Deliveries : e # d => deliveries'[e] = deliveries[e]
  BY DEF Settles, Statuses, TypeOK

LEMMA MovesIs ==
  ASSUME TypeOK, Moves
  PROVE  session' \in {"running", "paused", "teardown"} /\ left' \in [Hitches -> Nat]
  BY HitchIs DEF Moves, TypeOK, Hitches

LEMMA TypedRow ==
  ASSUME Typed, NEW d \in drain.rows, HandlesRow(d)
  PROVE  Typed'
<1>1. drain \in Drainings /\ TypeOK /\ Once(drain.turns) /\ d \in Deliveries
  BY DEF Typed, TypeOK, AsRead, Drainings
<1>2. drain' \in Drainings /\ drain'.turns = drain.turns /\ drain'.pc = "rows"
  BY <1>1 DEF HandlesRow, Drainings
<1>3. Called'
  BY <1>2 DEF Called, DrainAt
<1>4. sinceTrip' \in Nat /\ Kept
  BY RowsSame DEF HandlesRow, Typed, TypeOK
<1>5. inflight' = {}
  BY DEF HandlesRow, DrainAt, memory, Typed, TypeOK
<1>6. UNCHANGED <<session, pending, nudge, busy, recon, disk, breaker, governor, collector, unswept, left,
                  worked, killed>>
  BY DEF HandlesRow, memory, space
<1>7. deliveries' \in [Deliveries -> Statuses]
  BY <1>1, SettlesIs DEF HandlesRow
<1> QED
  BY <1>1, <1>2, <1>3, <1>4, <1>5, <1>6, <1>7, TypedStep DEF TypeOK

LEMMA TypedRowFails ==
  ASSUME Typed, RowFails
  PROVE  Typed'
<1>1. drain \in Drainings /\ TypeOK /\ Once(drain.turns)
  BY DEF Typed, TypeOK, AsRead
<1>2. drain' \in Drainings /\ drain'.turns = drain.turns /\ drain'.pc = "wait"
  BY <1>1 DEF RowFails, Drainings, Then
<1>3. Called'
  BY <1>2 DEF Called, DrainAt
<1>4. UNCHANGED <<tables, pending, nudge, memory, recon, space, history>>
      /\ left' \in [Hitches -> Nat]
  BY <1>1, HitchIs DEF RowFails, Hitches
<1>5. Kept
  BY <1>4, RowsSame DEF tables
<1>6. inflight' = {}
  BY <1>1, <1>4 DEF RowFails, DrainAt, memory, TypeOK
<1>7. UNCHANGED <<deliveries, session, busy, disk, breaker, governor, collector, unswept, worked,
                  killed, sinceTrip>>
  BY <1>4 DEF tables, memory, space, history
<1> QED
  BY <1>1, <1>2, <1>3, <1>4, <1>5, <1>6, <1>7, TypedStep DEF TypeOK

LEMMA TypedDelivery ==
  ASSUME Typed, NEW d \in drain.rows, TakesDelivery(d) \/ InsertsTurn(d) \/ TurnReturns(d)
  PROVE  Typed'
<1>1. drain \in Drainings /\ TypeOK /\ Once(drain.turns) /\ d \in Deliveries /\ InOrder
  BY DEF Typed, TypeOK, AsRead, Drainings
<1>2. UNCHANGED <<pending, nudge, recon, disk, breaker, governor, collector, unswept, worked, killed,
                  sinceTrip>>
  BY DEF TakesDelivery, InsertsTurn, TurnReturns, space, history
<1>3. session' \in {"running", "paused", "teardown"} /\ left' \in [Hitches -> Nat]
  <2>1. CASE Moves
    BY <1>1, <2>1, MovesIs
  <2>2. CASE Hitch("fails") /\ UNCHANGED session
    BY <1>1, <2>2, HitchIs DEF Hitches, TypeOK
  <2> QED
    BY <2>1, <2>2 DEF TakesDelivery, InsertsTurn, TurnReturns
<1>4. deliveries' \in [Deliveries -> Statuses] /\ busy' \in BOOLEAN
  BY <1>1, SettlesIs DEF TakesDelivery, InsertsTurn, TurnReturns, memory, TypeOK
<1>5. CASE TakesDelivery(d)
  <2>1. drain' \in Drainings /\ drain'.turns = drain.turns /\ drain'.pc = "batch"
    BY <1>1, <1>5 DEF TakesDelivery, PastDelivery, Drainings
  <2>2. Called' /\ inflight' = {} /\ Kept
    BY <1>1, <1>5, <2>1, RowsSame DEF TakesDelivery, AtDelivery, memory, TypeOK, Called, DrainAt
  <2> QED
    BY <1>1, <1>2, <1>3, <1>4, <2>1, <2>2, TypedStep DEF TypeOK
<1>6. CASE InsertsTurn(d)
  <2>1. NewTurn \in TurnIds
    BY <1>1, <1>6, NewTurnIs DEF InsertsTurn
  <2>2. drain' = [drain EXCEPT !.pc = "inserted", !.t = NewTurn,
                     !.kind = IF session' = "running" THEN "dispatch" ELSE "teardown"]
    BY <1>6 DEF InsertsTurn
  <2>3. drain' \in Drainings /\ drain'.turns = drain.turns /\ drain'.pc = "inserted"
          /\ drain'.kind \in {"dispatch", "teardown"}
          /\ drain'.t = NewTurn
    BY <1>1, <2>1, <2>2 DEF Drainings
  <2>4. Called' /\ inflight' = {} /\ Kept
    BY <1>1, <1>6, <2>1, <2>3, RowsKept DEF InsertsTurn, AtDelivery, memory, TypeOK, Called, DrainAt
  <2> QED
    BY <1>1, <1>2, <1>3, <1>4, <2>3, <2>4, TypedStep DEF TypeOK
<1>7. CASE TurnReturns(d)
  <2>1. drain' \in Drainings /\ drain'.turns = drain.turns /\ drain'.pc = "batch"
    BY <1>1, <1>7 DEF TurnReturns, PastDelivery, Drainings
  <2>2. Called' /\ inflight' = {}
    BY <1>1, <1>7, <2>1 DEF TurnReturns, Landed, TypeOK, Called, DrainAt
  <2>3. Kept
    <3>1. row' = Finish(drain.t, "answered") /\ drain.t \in TurnIds
      BY <1>7 DEF TurnReturns, DrainAt, Typed, Called
    <3> QED
      BY <3>1, RowsKept
  <2> QED
    BY <1>1, <1>2, <1>3, <1>4, <2>1, <2>2, <2>3, TypedStep DEF TypeOK
<1> QED
  BY <1>5, <1>6, <1>7

LEMMA TypedResume ==
  ASSUME Typed, NEW h \in drain.turns,
         PassesOver(h) \/ FindsNoRunner(h) \/ CallsAgain(h) \/ ResumeReturns(h)
  PROVE  Typed'
<1>1. drain \in Drainings /\ TypeOK /\ Once(drain.turns) /\ h \in SeenTurns /\ h.t \in TurnIds
  BY DEF Typed, TypeOK, AsRead, Drainings, SeenTurns
<1>2. UNCHANGED <<deliveries, pending, nudge, recon, disk, breaker, governor, collector, unswept,
                  killed, sinceTrip>>
  BY DEF PassesOver, FindsNoRunner, CallsAgain, ResumeReturns, ResumeFails, space, history, tables
<1>3. FirstSeen(h, drain.turns)
  BY DEF PassesOver, FindsNoRunner, CallsAgain, ResumeReturns, Listed
<1>4. ASSUME drain' = PastListed(h)
      PROVE  drain' \in Drainings /\ Once(drain'.turns) /\ drain'.pc = "resume" /\ Called'
  <2>1. drain' \in Drainings /\ drain'.turns = drain.turns \ {h} /\ drain'.pc = "resume"
    BY <1>1, <1>4 DEF PastListed, Drainings, None
  <2> QED
    BY <1>1, <2>1 DEF Once, Called, DrainAt
<1>5. ASSUME ResumeFails(h)
      PROVE  Kept /\ session' \in {"running", "paused", "teardown"} /\ drain' = PastListed(h)
               /\ worked' = worked
  BY <1>1, <1>5, RowsKept DEF ResumeFails, history, TypeOK
<1>6. CASE PassesOver(h)
  <2>1. Kept /\ drain' = PastListed(h)
    BY <1>1, <1>6, RowsKept DEF PassesOver
  <2>2. inflight' = {}
    BY <1>1, <1>6 DEF PassesOver, Listed, DrainAt, memory, TypeOK
  <2>3. UNCHANGED <<session, busy, left, worked>>
    BY <1>6 DEF PassesOver, memory, history
  <2> QED
    BY <1>1, <1>2, <1>4, <2>1, <2>2, <2>3, TypedStep DEF TypeOK
<1>7. CASE FindsNoRunner(h)
  <2>1. inflight' = {} /\ busy' = busy
    BY <1>1, <1>7 DEF FindsNoRunner, Listed, DrainAt, memory, TypeOK
  <2>2. left' \in [Hitches -> Nat]
    BY <1>1, <1>7, HitchIs DEF FindsNoRunner, Hitches
  <2>3. ResumeFails(h)
    BY <1>7 DEF FindsNoRunner
  <2> QED
    BY <1>1, <1>2, <1>4, <1>5, <2>1, <2>2, <2>3, TypedStep DEF TypeOK
<1>8. CASE CallsAgain(h)
  <2>1. /\ drain' \in Drainings /\ drain'.turns = drain.turns /\ drain'.pc = "call" /\ drain'.t = h.t
    BY <1>1, <1>8 DEF CallsAgain, Drainings
  <2>2. inflight' = {drain'.t}
    BY <1>1, <1>8, <2>1 DEF CallsAgain, Listed, DrainAt, TypeOK
  <2>3. Called'
    BY <1>1, <1>3, <2>1 DEF Called, DrainAt
  <2>4. worked' \in [TurnIds -> Nat]
    BY <1>1, <1>8 DEF CallsAgain, TypeOK
  <2>5. UNCHANGED <<row, session, busy, left>>
    BY <1>8 DEF CallsAgain, tables
  <2> QED
    BY <1>1, <1>2, <2>1, <2>2, <2>3, <2>4, <2>5, RowsSame, TypedStep DEF TypeOK
<1>9. CASE ResumeReturns(h)
  <2>1. PICK g \in drain.turns : g.t = drain.t /\ FirstSeen(g, drain.turns)
    BY <1>9 DEF ResumeReturns, Typed, Called
  <2>2. drain.turns \in SUBSET SeenTurns
    BY <1>1 DEF Drainings
  <2>3. h.t = drain.t
    BY <1>1, <1>3, <2>1, <2>2, FirstIsOne
  <2>4. inflight' = {}
    BY <1>1, <1>9, <2>3 DEF ResumeReturns, Landed, DrainAt, TypeOK
  <2>5. CASE row' = Finish(h.t, "answered") /\ drain' = PastListed(h)
               /\ UNCHANGED <<session, busy, left, worked>>
    <3>1. Kept
      BY <1>1, <2>5, RowsKept
    <3> QED
      BY <1>1, <1>2, <1>4, <2>4, <2>5, <3>1, TypedStep DEF TypeOK
  <2>6. CASE Hitch("fails") /\ ResumeFails(h) /\ busy' \in {busy, TRUE}
    <3>1. left' \in [Hitches -> Nat] /\ busy' \in BOOLEAN
      BY <1>1, <2>6, HitchIs DEF Hitches, TypeOK
    <3> QED
      BY <1>1, <1>2, <1>4, <1>5, <2>4, <2>6, <3>1, TypedStep DEF TypeOK
  <2> QED
    BY <1>9, <2>5, <2>6 DEF ResumeReturns, history
<1> QED
  BY <1>6, <1>7, <1>8, <1>9

LEMMA TypedDrains ==
  ASSUME Typed, Drains \/ FiveSeconds
  PROVE  Typed'
<1>1. CASE CallsRunner
  <2>1. drain \in Drainings /\ TypeOK /\ Once(drain.turns) /\ DrainAt("inserted")
          /\ drain.t \in TurnIds /\ drain.kind # "resume"
    BY <1>1 DEF CallsRunner, Typed, TypeOK, AsRead, Called, DrainAt
  <2>2. /\ drain' \in Drainings /\ drain'.turns = drain.turns /\ drain'.pc = "call"
        /\ drain'.t = drain.t /\ drain'.kind = drain.kind
    BY <1>1, <2>1 DEF CallsRunner, DrainGo, Drainings
  <2>3. inflight' = {drain'.t} /\ Called'
    BY <1>1, <2>1, <2>2 DEF CallsRunner, TypeOK, Called, DrainAt
  <2>4. UNCHANGED <<deliveries, session, row, pending, nudge, busy, recon, disk, breaker, governor,
                    collector, unswept, left, worked, killed, sinceTrip>>
    BY <1>1 DEF CallsRunner, tables, space, history
  <2> QED
    BY <2>1, <2>2, <2>3, <2>4, RowsSame, TypedStep DEF TypeOK
<1> QED
  BY <1>1, TypedQuiet, TypedRow, TypedRowFails, TypedDelivery, TypedResume DEF Drains

LEMMA TypedReconciles ==
  ASSUME Typed, Reconciles
  PROVE  Typed'
<1>1. recon \in Reconcilings /\ TypeOK /\ Once(recon.turns) /\ row \in [TurnIds -> TurnRows]
  BY DEF Typed, TypeOK, AsRead
<1>2. UNCHANGED <<deliveries, pending, memory, drain, space, history>>
  BY DEF Reconciles, Sweeps, ListsTurns, PassEnds, Judges, Acts, tables
<1>3. ASSUME Kept, recon' \in Reconcilings, Once(recon'.turns), nudge' \in BOOLEAN,
             session' \in {"running", "paused", "teardown"}, left' \in [Hitches -> Nat],
             \A h \in recon'.turns : h.tries = row'[h.t].tries /\ row'[h.t].st # "none",
             (recon'.pc = "act" /\ recon'.act = "mark") =>
                \A h \in recon'.turns : FirstSeen(h, recon'.turns) => h.tries < MaxAttempts
      PROVE  Typed'
  <2>1. TypeOK'
    BY <1>2, <1>3 DEF Kept, Typed, TypeOK, DrainAt, memory, space, history
  <2> QED
    BY <1>2, <1>3, <2>1 DEF Kept, Typed, Called, AsRead, Judged, DrainAt
<1>4. CASE Sweeps
  <2>1. recon' \in Reconcilings /\ recon'.turns = recon.turns /\ recon'.pc = "list"
    BY <1>1, <1>4 DEF Sweeps, Reconcilings
  <2>2. session' \in {"running", "paused", "teardown"} /\ left' \in [Hitches -> Nat]
    BY <1>1, <1>4, HitchIs DEF Sweeps, Hitches, TypeOK
  <2>3. row' = row /\ nudge' = nudge
    BY <1>4 DEF Sweeps
  <2> QED
    BY <1>1, <1>3, <2>1, <2>2, <2>3, RowsSame DEF TypeOK, Typed, AsRead
<1>5. CASE ListsTurns
  <2>1. recon' \in Reconcilings /\ recon'.turns = Snapshot /\ recon'.pc = "check"
    BY <1>1, <1>5, SnapshotIs DEF ListsTurns, Reconcilings
  <2>2. \A h \in Snapshot : h.tries = row[h.t].tries /\ row[h.t].st # "none"
    BY <1>1, SnapshotIs DEF Seen, Open
  <2> QED
    BY <1>1, <1>3, <1>5, <2>1, <2>2, RowsSame, SnapshotIs DEF ListsTurns, tables, TypeOK
<1>6. CASE PassEnds
  <2>1. recon' \in Reconcilings /\ recon'.turns = {} /\ recon'.pc = "sleep"
    BY <1>6 DEF PassEnds, Sleeping, Reconcilings
  <2> QED
    BY <1>1, <1>3, <1>6, <2>1, RowsSame DEF PassEnds, tables, TypeOK, Once
<1>7. ASSUME NEW h \in recon.turns, Judges(h) PROVE Typed'
  <2> DEFINE act == IF Orphaned(h) THEN Verdict(h) ELSE "none"
  <2>1. act \in {"none", "retire", "mark", "ask"} /\ (act = "mark" => ~(h.tries >= MaxAttempts))
    BY DEF Verdict
  <2>2. recon' = IF act = "none" THEN [recon EXCEPT !.turns = @ \ {h}]
                 ELSE [recon EXCEPT !.pc = "act", !.act = act]
    BY <1>7 DEF Judges
  <2>3. recon.pc = "check" /\ FirstSeen(h, recon.turns) /\ h \in SeenTurns /\ MaxAttempts \in Nat
          /\ recon.turns \in SUBSET SeenTurns
    BY <1>1, <1>7, DaemonAssumption DEF Judges, Judged, Reconcilings
  <2> HIDE DEF act
  <2>4. /\ recon' \in Reconcilings /\ recon'.turns \subseteq recon.turns
        /\ recon'.pc = "act" => recon'.turns = recon.turns /\ recon'.act = act
    BY <1>1, <2>1, <2>2, <2>3 DEF Reconcilings
  <2>5. (recon'.pc = "act" /\ recon'.act = "mark") =>
           \A g \in recon'.turns : FirstSeen(g, recon'.turns) => g.tries < MaxAttempts
    BY <1>1, <2>1, <2>3, <2>4, FirstIsOne DEF SeenTurns
  <2>6. UNCHANGED <<row, session, nudge, left>>
    BY <1>7 DEF Judges, tables
  <2> QED
    BY <1>1, <1>3, <2>4, <2>5, <2>6, RowsSame DEF TypeOK, Typed, AsRead, Once
<1>8. ASSUME NEW h \in recon.turns, Acts(h) PROVE Typed'
  <2>1. recon.pc = "act" /\ FirstSeen(h, recon.turns) /\ h \in SeenTurns /\ h.t \in TurnIds
    BY <1>1, <1>8 DEF Acts, Judged, Reconcilings, SeenTurns
  <2>2. recon' \in Reconcilings /\ recon'.turns = recon.turns \ {h} /\ recon'.pc = "check"
    BY <1>1, <1>8 DEF Acts, Reconcilings
  <2>3. session' \in {"running", "paused", "teardown"} /\ UNCHANGED <<nudge, left>>
    BY <1>1, <1>8 DEF Acts, TypeOK
  <2>4. \A g \in recon'.turns : g.t # h.t /\ g.t \in TurnIds /\ g.tries = row[g.t].tries
                                /\ row[g.t].st # "none"
    BY <1>1, <2>2 DEF Once, Typed, AsRead, Reconcilings, SeenTurns
  <2>5. CASE recon.act # "mark"
    <3>1. Kept
      BY <1>8, <2>1, <2>5, RowsKept DEF Acts
    <3> QED
      BY <1>1, <1>3, <2>2, <2>3, <2>4, <3>1 DEF Kept, Once, TypeOK
  <2>6. CASE recon.act = "mark" /\ Open(h.t)
    <3> DEFINE r == [row[h.t] EXCEPT !.st = "resuming", !.tries = @ + 1]
    <3>1. row[h.t] \in TurnRows /\ row[h.t].tries < MaxAttempts /\ MaxAttempts \in Nat
      BY <1>1, <2>1, <2>6, DaemonAssumption DEF Typed, AsRead, Judged
    <3>2. r \in TurnRows /\ r.st = "resuming"
      <4>1. row[h.t].tries + 1 \in 0..MaxAttempts
        BY <3>1 DEF TurnRows
      <4> QED
        BY <3>1, <4>1 DEF TurnRows
    <3>3. row' = [row EXCEPT ![h.t] = r]
      BY <1>1, <1>8, <2>1, <2>6 DEF Acts, HandOver, Mark
    <3> HIDE DEF r
    <3>4. /\ row' \in [TurnIds -> TurnRows] /\ row'[h.t].st = "resuming"
          /\ \A u \in TurnIds : u # h.t => row'[u] = row[u]
      BY <1>1, <2>1, <3>2, <3>3
    <3>5. PICK n \in 0..MaxTurns :
            \A u \in TurnIds : IF u <= n THEN row[u].st # "none" ELSE row[u] = NoRow
      BY DEF Typed, InOrder
    <3>6. h.t <= n
      BY <2>1, <2>6, <3>5 DEF NoRow, Open
    <3>7. \A u \in TurnIds : IF u <= n THEN row'[u].st # "none" ELSE row'[u] = NoRow
      BY <3>4, <3>5, <3>6
    <3>8. InOrder'
      BY <3>7 DEF InOrder
    <3>9. TypeOK'
      BY <1>2, <2>2, <2>3, <3>4 DEF Typed, TypeOK, DrainAt, memory, space, history
    <3> QED
      BY <1>1, <1>2, <2>2, <2>4, <3>4, <3>8, <3>9 DEF Typed, Called, AsRead, Judged, DrainAt, Once
  <2>7. CASE recon.act = "mark" /\ ~Open(h.t)
    <3>1. Kept
      BY <1>8, <2>7, RowsSame DEF Acts, HandOver, Mark
    <3> QED
      BY <1>1, <1>3, <2>2, <2>3, <2>4, <3>1 DEF Kept, Once, TypeOK
  <2> QED
    BY <2>5, <2>6, <2>7
<1> QED
  BY <1>4, <1>5, <1>6, <1>7, <1>8 DEF Reconciles

LEMMA TypedNext == Typed /\ [Next]_vars => Typed'
<1> SUFFICES ASSUME Typed, [Next]_vars PROVE Typed'
  OBVIOUS
<1>1. TypeOK /\ Once(drain.turns)
  BY DEF Typed, AsRead
<1>2. CASE Kill
  <2>1. drain' \in Drainings /\ drain'.turns = {} /\ drain'.pc = "start"
    BY <1>2 DEF Kill, Starting, Drainings, None
  <2>2. recon' \in Reconcilings /\ recon'.turns = {} /\ recon'.pc = "sleep"
    BY <1>2 DEF Kill, Sleeping, Reconcilings
  <2>3. left' \in [Hitches -> Nat] /\ killed' \in Nat
    BY <1>1, <1>2, HitchIs DEF Kill, Hitches, TypeOK
  <2>4. collector' \in [pc : {"none", "off", "clear", "begin", "collect", "wait"}, nudge : BOOLEAN]
    BY <1>2 DEF Kill
  <2>5. UNCHANGED <<deliveries, session, row, disk, breaker, unswept, worked, sinceTrip>>
    BY <1>2 DEF Kill, tables
  <2>6. TypeOK'
    BY <1>1, <1>2, <2>1, <2>2, <2>3, <2>4, <2>5 DEF Kill, TypeOK, DrainAt
  <2> QED
    BY <2>1, <2>2, <2>5, <2>6 DEF Typed, InOrder, Called, AsRead, DrainAt, Once
<1>3. ASSUME UNCHANGED <<deliveries, session, row, nudge, inflight, drain, recon, worked, killed>>,
             left' \in [Hitches -> Nat], pending' \subseteq Deliveries, busy' \in BOOLEAN,
             disk' \in {"low", "mid", "high"}, breaker' \in BOOLEAN,
             governor' \in {"sample", "tripped"}, unswept' \in BOOLEAN, sinceTrip' \in Nat,
             collector' \in [pc : {"none", "off", "clear", "begin", "collect", "wait"}, nudge : BOOLEAN]
      PROVE  Typed'
  <2>1. TypeOK'
    BY <1>1, <1>3 DEF TypeOK, DrainAt
  <2> QED
    BY <1>3, <2>1 DEF Typed, InOrder, Called, AsRead, DrainAt, Judged
<1>4. CASE DiskFills \/ DiskFrees \/ Governs \/ Collects \/ Hourly \/ BusyEnds
  <2>1. UNCHANGED <<deliveries, session, row, pending, nudge, inflight, drain, recon, worked, killed>>
    BY <1>4 DEF DiskFills, DiskFrees, Governs, SamplesDisk, SignalsTrip, Collects, StartsCollector,
       CollectorRuns, Hourly, BusyEnds, work, tables, memory, space, history
  <2> USE DEF work, memory, tables, space, history
  <2>2. CASE DiskFills
    BY <1>1, <1>3, <2>1, <2>2, HitchIs DEF DiskFills, Hitches, TypeOK
  <2>3. CASE DiskFrees
    BY <1>1, <1>3, <2>1, <2>3 DEF DiskFrees, Frees, TypeOK
  <2>4. CASE Governs
    <3>1. collector' \in [pc : {"none", "off", "clear", "begin", "collect", "wait"}, nudge : BOOLEAN]
      <4>1. CASE collector' = collector
        BY <1>1, <4>1 DEF TypeOK
      <4>2. CASE SignalsTrip
        <5> DEFINE nudged == collector.nudge \/ collector.pc \notin {"off", "none"}
        <5>1. nudged \in BOOLEAN /\ collector' = [collector EXCEPT !.nudge = nudged]
          BY <4>2 DEF SignalsTrip
        <5> HIDE DEF nudged
        <5> QED
          BY <1>1, <5>1 DEF TypeOK
      <4> QED
        BY <2>4, <4>1, <4>2 DEF Governs, SamplesDisk
    <3>2. UNCHANGED <<left, pending, busy, disk>>
      BY <2>4 DEF Governs, SamplesDisk, SignalsTrip
    <3>3. breaker' \in BOOLEAN /\ governor' \in {"sample", "tripped"}
      BY <1>1, <2>4 DEF Governs, SamplesDisk, SignalsTrip, TypeOK
    <3>4. unswept' \in BOOLEAN /\ sinceTrip' \in Nat
      <4>1. CASE unswept' = TRUE /\ sinceTrip' = 0
        BY <4>1
      <4>2. CASE UNCHANGED <<unswept, sinceTrip>>
        BY <1>1, <4>2 DEF TypeOK
      <4> QED
        BY <2>4, <4>1, <4>2 DEF Governs, SamplesDisk, SignalsTrip
    <3> QED
      BY <1>1, <1>3, <2>1, <3>1, <3>2, <3>3, <3>4 DEF TypeOK
  <2>5. CASE Collects \/ Hourly
    <3>1. collector' \in [pc : {"none", "off", "clear", "begin", "collect", "wait"}, nudge : BOOLEAN]
      <4>1. CASE \E pc \in {"clear", "begin", "collect", "wait"} :
                    \/ collector' = [collector EXCEPT !.pc = pc]
                    \/ \E nudged \in {FALSE, collector.nudge} : collector' = [pc |-> pc, nudge |-> nudged]
        <5>1. /\ collector \in [pc : {"none", "off", "clear", "begin", "collect", "wait"}, nudge : BOOLEAN]
              /\ collector.nudge \in BOOLEAN
          BY <1>1 DEF TypeOK
        <5>2. PICK pc \in {"clear", "begin", "collect", "wait"} :
                \/ collector' = [collector EXCEPT !.pc = pc]
                \/ \E nudged \in {FALSE, collector.nudge} : collector' = [pc |-> pc, nudge |-> nudged]
          BY <4>1
        <5>3. CASE collector' = [collector EXCEPT !.pc = pc]
          BY <5>1, <5>3
        <5>4. ASSUME NEW nudged \in BOOLEAN, collector' = [pc |-> pc, nudge |-> nudged]
              PROVE  collector' \in [pc : {"none", "off", "clear", "begin", "collect", "wait"}, nudge : BOOLEAN]
          BY <5>4
        <5> QED
          BY <5>1, <5>2, <5>3, <5>4
      <4> QED
        BY <2>5, <4>1 DEF Collects, StartsCollector, CollectorRuns, Hourly, KeptAfter
    <3>2. disk' \in {"low", "mid", "high"}
      BY <1>1, <2>5 DEF Collects, StartsCollector, CollectorRuns, Frees, Hourly, TypeOK
    <3>3. unswept' \in BOOLEAN
      BY <1>1, <2>5 DEF Collects, StartsCollector, CollectorRuns, Hourly, TypeOK
    <3>4. UNCHANGED <<left, busy, breaker, governor, sinceTrip>>
      BY <2>5 DEF Collects, StartsCollector, CollectorRuns, Hourly
    <3> QED
      BY <1>1, <1>3, <2>1, <3>1, <3>2, <3>3, <3>4 DEF TypeOK
  <2>6. CASE BusyEnds
    BY <1>1, <1>3, <2>1, <2>6 DEF BusyEnds, TypeOK
  <2> QED
    BY <1>4, <2>2, <2>3, <2>4, <2>5, <2>6
<1>5. ASSUME NEW d \in Deliveries, Receives(d) \/ Nudges(d) PROVE Typed'
  <2>1. deliveries' \in [Deliveries -> Statuses] /\ pending' \subseteq Deliveries /\ nudge' \in BOOLEAN
    BY <1>1, <1>5 DEF Receives, Nudges, tables, Statuses, TypeOK
  <2>2. UNCHANGED <<session, row, memory, drain, recon, space, left, history>>
    BY <1>5 DEF Receives, Nudges, tables
  <2>3. TypeOK'
    BY <1>1, <2>1, <2>2 DEF TypeOK, DrainAt, memory, space, history
  <2> QED
    BY <2>2, <2>3 DEF Typed, InOrder, Called, AsRead, DrainAt, Judged
<1>6. ASSUME NEW t \in TurnIds, Ages(t) PROVE Typed'
  <2>1. Kept
    BY <1>6, RowsKept
  <2>2. UNCHANGED <<deliveries, session, pending, nudge, memory, drain, recon, space, left, history>>
    BY <1>6 DEF Ages
  <2>3. Called' /\ inflight' = (IF drain'.pc = "call" THEN {drain'.t} ELSE {})
    BY <1>1, <2>2 DEF memory, TypeOK, Typed, Called, DrainAt
  <2> QED
    BY <1>1, <2>1, <2>2, <2>3, TypedStep DEF memory, space, history, TypeOK
<1>7. CASE UNCHANGED vars
  <2>1. TypeOK'
    BY <1>1, <1>7 DEF vars, tables, memory, space, history, TypeOK, DrainAt
  <2> QED
    BY <1>7, <2>1 DEF vars, tables, Typed, InOrder, Called, AsRead, DrainAt, Judged
<1> QED
  BY <1>2, <1>4, <1>5, <1>6, <1>7, TypedDrains, TypedReconciles DEF Next

\* Type correctness: a turn in flight is the one the drain is calling, and no
\* turn is handed over more than MaxAttempts times.
THEOREM TypeCorrect == Spec => []TypeOK
<1>1. Typed => TypeOK
  BY DEF Typed
<1> QED
  BY <1>1, TypedInit, TypedNext, PTL DEF Spec

(***************************************************************************)
(* Intake under the breaker.                                               *)
(***************************************************************************)

\* The row in hand when the breaker opens is the last one.
Stops == sinceTrip \in Nat /\ sinceTrip <= 1 /\ (sinceTrip = 1 /\ breaker => ~DrainAt("row"))

LEMMA StopsNext == TypeOK /\ Stops /\ [Next]_vars => Stops'
<1> SUFFICES ASSUME TypeOK, Stops, [Next]_vars PROVE Stops'
  OBVIOUS
<1> USE DEF Stops, DrainAt, history, memory, space, tables, work
<1>1. CASE ChecksRow
  BY <1>1 DEF ChecksRow, RowsGoOn, TypeOK, Drainings
<1>2. ASSUME NEW d \in drain.rows, HandlesRow(d) PROVE Stops'
  BY <1>2 DEF HandlesRow, TypeOK, Drainings
<1>3. CASE Governs
  BY <1>3 DEF Governs, SamplesDisk, SignalsTrip, Trips, Resets
<1>4. CASE UNCHANGED <<sinceTrip, breaker>> /\ drain'.pc # "row"
  BY <1>4
<1>5. CASE UNCHANGED <<sinceTrip, breaker, drain>>
  BY <1>5
<1>6. CASE Drains
  <2>1. ASSUME ~ChecksRow, \A d \in drain.rows : ~HandlesRow(d)
        PROVE  UNCHANGED <<sinceTrip, breaker>> /\ drain'.pc # "row"
    BY <1>6, <2>1 DEF Drains, BeginsPass, RowFails, EntersLoop, EntersBatch, BatchEnds, CallsRunner,
       Waits, Clears, TakesDelivery, InsertsTurn, TurnReturns, PassesOver, FindsNoRunner, CallsAgain,
       ResumeReturns, ResumeFails, DrainGo, PastListed, PastDelivery, Paused, Then, TypeOK, Drainings
  <2> QED
    BY <1>1, <1>2, <1>4, <2>1
<1>7. CASE FiveSeconds \/ Kill
  BY <1>4, <1>7 DEF FiveSeconds, DrainGo, Then, Kill, Starting, TypeOK, Drainings
<1>8. CASE BusyEnds \/ Reconciles \/ (\E t \in TurnIds : Ages(t)) \/ DiskFills \/ DiskFrees
           \/ Collects \/ Hourly \/ \E d \in Deliveries : Receives(d) \/ Nudges(d)
  BY <1>5, <1>8 DEF BusyEnds, Reconciles, Sweeps, ListsTurns, PassEnds, Judges, Acts, Ages,
     DiskFills, DiskFrees, Collects, StartsCollector, CollectorRuns, Hourly, Receives, Nudges
<1>9. CASE UNCHANGED vars
  BY <1>5, <1>9 DEF vars
<1> QED
  BY <1>3, <1>6, <1>7, <1>8, <1>9 DEF Next

\* With the breaker open at most the row in hand leaves the queue.
THEOREM TripStopsIntakeHolds == Spec => []TripStopsIntake
<1>1. Init => Stops
  BY DEF Init, Stops
<1>2. Stops => TripStopsIntake
  BY DEF Stops, TripStopsIntake
<1> QED
  BY <1>1, <1>2, StopsNext, TypeCorrect, PTL DEF Spec

(***************************************************************************)
(* Wake-ups.  A delivery the drain has not on its list has its handler     *)
(* still to nudge, or was nudged for, or was left when the list was made:  *)
(* the drain forgets a nudge only before it reads the queue again.         *)
(***************************************************************************)
Passing == {"loop", "resume", "call", "batch", "inserted", "wait"}
Looked ==
    /\ (drain.pc \in {"rows", "row"} /\ ~nudge) =>
         In("queued") \subseteq pending \union drain.rows \union drain.skipped
    /\ (drain.pc \in Passing /\ ~nudge) => In("queued") \subseteq pending \union drain.skipped

LEMMA LookedNext == TypeOK /\ Looked /\ [Next]_vars => Looked'
<1> SUFFICES ASSUME TypeOK, Looked, [Next]_vars PROVE Looked'
  OBVIOUS
<1> USE DEF DrainAt, history, memory, space, tables, work
<1>1. drain \in Drainings /\ deliveries \in [Deliveries -> Statuses]
  BY DEF TypeOK
<1>2. CASE BeginsPass
  BY <1>1, <1>2 DEF BeginsPass, Paused, Then, Looked, Passing, In, Drainings
<1>3. CASE ChecksRow
  <2>1. UNCHANGED <<deliveries, nudge, pending>> /\ drain.pc = "rows"
    BY <1>3 DEF ChecksRow
  <2>2. CASE drain' = [drain EXCEPT !.pc = "row"]
    BY <1>1, <2>1, <2>2 DEF Looked, Passing, In, Drainings
  <2>3. CASE drain' = [drain EXCEPT !.pc = "loop", !.skipped = @ \union drain.rows]
    BY <1>1, <2>1, <2>3 DEF Looked, Passing, In, Drainings
  <2> QED
    BY <1>3, <2>2, <2>3 DEF ChecksRow
<1>4. ASSUME NEW d \in drain.rows, HandlesRow(d) PROVE Looked'
  <2>1. d \in Deliveries
    BY <1>1 DEF Drainings
  <2>2. drain'.pc = "rows" /\ drain'.rows = drain.rows \ {d} /\ drain'.skipped = drain.skipped
    BY <1>1, <1>4 DEF HandlesRow, Drainings
  <2>3. In("queued")' \subseteq In("queued") \ {d}
    BY <1>4, <2>1, SettlesIs DEF HandlesRow, In
  <2>4. UNCHANGED <<nudge, pending>> /\ drain.pc = "row"
    BY <1>4 DEF HandlesRow
  <2>5. ~nudge => In("queued")' \subseteq pending \union drain'.rows \union drain.skipped
    BY <2>2, <2>3, <2>4 DEF Looked
  <2> QED
    BY <2>2, <2>4, <2>5 DEF Looked, Passing
\* A pass that fails leaves the row in hand and those behind it.
<1>15. CASE RowFails
  <2>1. /\ drain'.pc = "wait" /\ drain'.skipped = drain.skipped \union drain.rows
        /\ drain.pc = "row" /\ UNCHANGED <<deliveries, nudge, pending>>
    BY <1>1, <1>15 DEF RowFails, Then, Drainings
  <2>2. ~nudge => In("queued")' \subseteq pending \union drain'.skipped
    BY <2>1 DEF Looked, In
  <2> QED
    BY <2>1, <2>2 DEF Looked, Passing
\* From the end of the rows to the sleep no delivery is queued.
<1>5. ASSUME drain.pc \in Passing \ {"wait"}, drain'.pc \in Passing, drain'.skipped = drain.skipped,
             UNCHANGED <<nudge, pending>>,
             deliveries' = deliveries \/ \E d \in Deliveries : Settles(d)
      PROVE  Looked'
  <2>1. In("queued")' \subseteq In("queued")
    BY <1>5, SettlesIs DEF In
  <2> QED
    BY <1>5, <2>1 DEF Looked, Passing
<1>6. CASE EntersLoop \/ EntersBatch \/ BatchEnds \/ CallsRunner
  BY <1>1, <1>5, <1>6 DEF EntersLoop, EntersBatch, BatchEnds, CallsRunner, DrainGo, Paused, Then,
     Passing, Drainings
<1>7. ASSUME NEW d \in drain.rows, TakesDelivery(d) \/ InsertsTurn(d) \/ TurnReturns(d) PROVE Looked'
  <2>1. d \in Deliveries
    BY <1>1 DEF Drainings
  <2> QED
    BY <1>1, <1>5, <1>7, <2>1 DEF TakesDelivery, InsertsTurn, TurnReturns, AtDelivery, PastDelivery,
       Passing, Drainings
<1>8. ASSUME NEW h \in drain.turns,
             PassesOver(h) \/ FindsNoRunner(h) \/ CallsAgain(h) \/ ResumeReturns(h)
      PROVE  Looked'
  BY <1>1, <1>5, <1>8 DEF PassesOver, FindsNoRunner, CallsAgain, ResumeReturns, ResumeFails, Listed,
     PastListed, Passing, Drainings
<1>9. CASE Waits \/ FiveSeconds \/ Clears
  BY <1>1, <1>9 DEF Waits, FiveSeconds, Clears, DrainGo, Then, Looked, Passing, Drainings
<1>10. CASE \E d \in Deliveries : Receives(d) \/ Nudges(d)
  BY <1>1, <1>10 DEF Receives, Nudges, Looked, In, Statuses
<1>11. CASE Kill
  BY <1>11 DEF Kill, Starting, Looked, Passing
<1>12. ASSUME UNCHANGED <<deliveries, pending, drain>>, nudge' = nudge \/ nudge' = TRUE PROVE Looked'
  BY <1>12 DEF Looked, In
<1>13. CASE BusyEnds \/ Reconciles \/ (\E t \in TurnIds : Ages(t)) \/ DiskFills \/ DiskFrees
           \/ Governs \/ Collects \/ Hourly
  BY <1>12, <1>13 DEF BusyEnds, Reconciles, Sweeps, ListsTurns, PassEnds, Judges, Acts, Ages,
     DiskFills, DiskFrees, Governs, SamplesDisk, SignalsTrip, Collects, StartsCollector,
     CollectorRuns, Hourly
<1>14. CASE UNCHANGED vars
  BY <1>12, <1>14 DEF vars
<1> QED
  BY <1>2, <1>3, <1>4, <1>6, <1>7, <1>8, <1>9, <1>10, <1>11, <1>13, <1>14, <1>15 DEF Next, Drains

\* When the drain sleeps, a row that is still queued has yet to wake it, or
\* was in the queue when its last pass began and was left there: beyond the
\* limit of the list, behind a row that failed, or kept from it by the breaker.
\* For any limits and any backlog; so no row that arrives later goes unseen.
THEOREM NoWakeupLostHolds == Spec => []NoWakeupLost
<1>1. Init => Looked
  BY DEF Init, Starting, Looked, Passing
<1>2. Looked => NoWakeupLost
  BY DEF Looked, Passing, NoWakeupLost, DrainAt
<1> QED
  BY <1>1, <1>2, LookedNext, TypeCorrect, PTL DEF Spec

(***************************************************************************)
(* Resumed turns.  A mark allows one call: the attempt is counted with it, *)
(* and it is due until the drain has made the call.  Only a kill in the    *)
(* call leaves a mark that has been used.                                  *)
(***************************************************************************)
Calling(t) == DrainAt("call") /\ drain.kind = "resume" /\ drain.t = t
Due(t) == ~Calling(t) /\ (row[t].st = "resuming" \/ \E h \in drain.turns : h.t = t)
Counted == \A t \in TurnIds : worked[t] + (IF Due(t) THEN 1 ELSE 0) <= row[t].tries + killed

LEMMA CountedInit == Init => Counted
<1> SUFFICES ASSUME Init, NEW t \in TurnIds
             PROVE  worked[t] + (IF Due(t) THEN 1 ELSE 0) <= row[t].tries + killed
  BY DEF Counted
<1>1. PICK scene \in Scenes :
        row = scene.row /\ worked = [u \in TurnIds |-> scene.row[u].tries]
  BY DEF Init
<1>2. row[t].st # "resuming"
  BY <1>1, ScenesAssumption
<1>3. ~Due(t)
  BY <1>2 DEF Init, Starting, Due
<1>4. row[t].tries \in Int
  BY <1>1, DaemonAssumption DEF TurnRows
<1> QED
  BY <1>1, <1>3, <1>4 DEF Init

LEMMA CountedStep ==
  ASSUME Typed, Typed', Counted, worked' = worked, killed' = killed,
         \A t \in TurnIds : \/ row'[t].tries = row[t].tries /\ (Due(t)' => Due(t))
                           \/ row'[t].tries = row[t].tries + 1
  PROVE  Counted'
<1> SUFFICES ASSUME NEW t \in TurnIds
             PROVE  worked'[t] + (IF Due(t)' THEN 1 ELSE 0) <= row'[t].tries + killed'
  BY DEF Counted
<1>1. worked[t] \in Int /\ killed \in Int /\ row[t].tries \in Int
  BY DEF Typed, TypeOK, TurnRows
<1> QED
  BY <1>1 DEF Counted

\* No row becomes due, and no call begins, in a step that only ends rows.
LEMMA DueStep ==
  ASSUME Typed, Typed', Counted, worked' = worked, killed' = killed,
         \A t \in TurnIds : row'[t].tries = row[t].tries /\ (row'[t].st = "resuming" => row[t].st = "resuming"),
         \A h \in drain'.turns : h \in drain.turns \/ row[h.t].st = "resuming",
         drain' = drain \/ ~DrainAt("call") \/ drain.kind # "resume"
  PROVE  Counted'
<1>1. \A t \in TurnIds : Due(t)' => ~Calling(t)
  BY DEF Due, Calling, DrainAt
<1>2. \A t \in TurnIds : Due(t)' => row[t].st = "resuming" \/ \E h \in drain.turns : h.t = t
  BY DEF Due
<1> QED
  BY <1>1, <1>2, CountedStep DEF Due

LEMMA EndsRows ==
  ASSUME Typed, NEW t \in TurnIds,
         row' \in {row, Unmark(t), Finish(t, "answered"), Finish(t, "interrupted")}
  PROVE  \A u \in TurnIds : row'[u].tries = row[u].tries /\ (row'[u].st = "resuming" => row[u].st = "resuming")
  BY DEF Typed, TypeOK, TurnRows, Unmark, Finish, Open

LEMMA CountedResume ==
  ASSUME Typed, Typed', Counted, NEW h \in drain.turns,
         PassesOver(h) \/ FindsNoRunner(h) \/ CallsAgain(h) \/ ResumeReturns(h)
  PROVE  Counted'
<1>1. drain \in Drainings /\ h.t \in TurnIds /\ Once(drain.turns) /\ TypeOK
  BY DEF Typed, TypeOK, AsRead, Drainings, SeenTurns
<1>2. CASE CallsAgain(h)
  <2>1. /\ drain'.turns = drain.turns /\ drain'.pc = "call" /\ drain'.kind = "resume" /\ drain'.t = h.t
        /\ drain.pc = "resume" /\ row' = row /\ killed' = killed
        /\ worked' = [worked EXCEPT ![h.t] = @ + 1]
    BY <1>1, <1>2 DEF CallsAgain, Listed, Drainings, DrainAt, tables
  <2> SUFFICES ASSUME NEW t \in TurnIds
               PROVE  worked'[t] + (IF Due(t)' THEN 1 ELSE 0) <= row'[t].tries + killed'
    BY DEF Counted
  <2>2. worked[t] \in Int /\ killed \in Int /\ row[t].tries \in Int
    BY DEF Typed, TypeOK, TurnRows
  <2>3. CASE t = h.t
    <3>1. Due(t) /\ ~Due(t)'
      BY <2>1, <2>3 DEF Due, Calling, DrainAt
    <3> QED
      BY <1>1, <2>1, <2>2, <2>3, <3>1 DEF Counted, TypeOK
  <2>4. CASE t # h.t
    <3>1. Due(t)' => Due(t)
      BY <2>1, <2>4 DEF Due, Calling, DrainAt
    <3>2. worked'[t] = worked[t]
      BY <1>1, <2>1, <2>4 DEF TypeOK
    <3> QED
      BY <2>1, <2>2, <3>1, <3>2 DEF Counted
  <2> QED
    BY <2>3, <2>4
<1>3. CASE PassesOver(h) \/ FindsNoRunner(h)
  <2>1. /\ row' \in {row, Unmark(h.t), Finish(h.t, "answered"), Finish(h.t, "interrupted")}
        /\ UNCHANGED <<worked, killed>> /\ ~DrainAt("call")
        /\ drain' = PastListed(h)
    BY <1>3 DEF PassesOver, FindsNoRunner, ResumeFails, Listed, DrainAt, history
  <2>2. drain'.turns \subseteq drain.turns
    BY <1>1, <2>1 DEF PastListed, Drainings
  <2> QED
    BY <1>1, <2>1, <2>2, EndsRows, DueStep
<1>4. CASE ResumeReturns(h)
  <2>1. PICK g \in drain.turns : g.t = drain.t /\ FirstSeen(g, drain.turns)
    BY <1>4 DEF ResumeReturns, Typed, Called
  <2>2. h.t = drain.t
    BY <1>1, <1>4, <2>1, FirstIsOne DEF ResumeReturns, Drainings
  <2>3. /\ row' \in {Unmark(h.t), Finish(h.t, "answered"), Finish(h.t, "interrupted")}
        /\ UNCHANGED <<worked, killed>> /\ drain' = PastListed(h)
    BY <1>4 DEF ResumeReturns, ResumeFails, history
  <2>4. drain'.turns = drain.turns \ {h}
    BY <1>1, <2>3 DEF PastListed, Drainings
  <2>5. row'[h.t].st # "resuming"
    BY <1>1, <2>3 DEF Unmark, Finish, Open, TypeOK, TurnRows
  <2>6. ~Due(h.t)'
    BY <1>1, <2>4, <2>5 DEF Due, Once
  <2>7. \A t \in TurnIds : row'[t].tries = row[t].tries /\ (row'[t].st = "resuming" => row[t].st = "resuming")
    BY <1>1, <2>3, EndsRows
  <2>8. \A t \in TurnIds : Due(t)' => Due(t)
    BY <2>2, <2>4, <2>6, <2>7 DEF Due, Calling
  <2> QED
    BY <2>3, <2>7, <2>8, CountedStep
<1> QED
  BY <1>2, <1>3, <1>4

LEMMA CountedNext == Typed /\ Typed' /\ Counted /\ [Next]_vars => Counted'
<1> SUFFICES ASSUME Typed, Typed', Counted, [Next]_vars PROVE Counted'
  OBVIOUS
<1> USE DEF history, space, tables, memory, work
<1>1. drain \in Drainings /\ TypeOK
  BY DEF Typed, TypeOK
<1>2. CASE EntersLoop
  <2>1. ASSUME NEW h \in Snapshot, h.resuming PROVE row[h.t].st = "resuming"
    <3>1. h = Seen(h.t)
      BY <1>1, SnapshotIs
    <3>2. Seen(h.t).resuming <=> row[h.t].st = "resuming"
      BY DEF Seen
    <3> QED
      BY <2>1, <3>1, <3>2
  <2>2. UNCHANGED <<row, worked, killed>> /\ drain.pc = "loop"
    BY <1>2 DEF EntersLoop, DrainAt
  <2>3. \A h \in drain'.turns : h \in drain.turns \/ row[h.t].st = "resuming"
    BY <1>1, <1>2, <2>1 DEF EntersLoop, DrainGo, Drainings
  <2> QED
    BY <2>2, <2>3, DueStep DEF DrainAt
<1>3. CASE BeginsPass \/ ChecksRow \/ RowFails \/ EntersBatch \/ BatchEnds \/ CallsRunner \/ Waits
           \/ Clears \/ FiveSeconds
  <2>1. UNCHANGED <<row, worked, killed>> /\ ~DrainAt("call")
    BY <1>3 DEF BeginsPass, ChecksRow, RowFails, EntersBatch, BatchEnds, CallsRunner, Waits, Clears, FiveSeconds,
       DrainAt
  <2>2. drain'.turns = drain.turns
    BY <1>1, <1>3 DEF BeginsPass, ChecksRow, RowFails, EntersBatch, BatchEnds, CallsRunner, Waits,
       Clears, FiveSeconds, DrainGo, Drainings
  <2> QED
    BY <2>1, <2>2, DueStep
<1>4. ASSUME NEW d \in drain.rows, HandlesRow(d) \/ TakesDelivery(d) PROVE Counted'
  <2>1. UNCHANGED <<row, worked, killed>> /\ ~DrainAt("call")
    BY <1>4 DEF HandlesRow, TakesDelivery, AtDelivery, DrainAt
  <2>2. drain'.turns = drain.turns
    BY <1>1, <1>4 DEF HandlesRow, TakesDelivery, PastDelivery, Drainings
  <2> QED
    BY <2>1, <2>2, DueStep
<1>5. ASSUME NEW d \in drain.rows, InsertsTurn(d) PROVE Counted'
  <2>1. UNCHANGED <<worked, killed>> /\ ~DrainAt("call")
    BY <1>5 DEF InsertsTurn, AtDelivery, DrainAt
  <2>2. drain'.turns = drain.turns
    BY <1>1, <1>5 DEF InsertsTurn, Drainings
  <2>3. \A t \in TurnIds : row'[t].tries = row[t].tries /\ (row'[t].st = "resuming" => row[t].st = "resuming")
    BY <1>1, <1>5 DEF InsertsTurn, TypeOK, TurnRows
  <2> QED
    BY <2>1, <2>2, <2>3, DueStep
<1>6. ASSUME NEW d \in drain.rows, TurnReturns(d) PROVE Counted'
  <2>1. UNCHANGED <<worked, killed>> /\ drain.kind # "resume" /\ drain.t \in TurnIds
          /\ row' = Finish(drain.t, "answered")
    BY <1>6 DEF TurnReturns, Typed, Called, DrainAt
  <2>2. drain'.turns = drain.turns
    BY <1>1, <1>6 DEF TurnReturns, PastDelivery, Drainings
  <2> QED
    BY <2>1, <2>2, EndsRows, DueStep
<1>7. ASSUME UNCHANGED <<row, worked, killed, drain>> PROVE Counted'
  BY <1>7, DueStep
<1>8. CASE Sweeps \/ ListsTurns \/ PassEnds \/ \E h \in recon.turns : Judges(h)
  BY <1>7, <1>8 DEF Sweeps, ListsTurns, PassEnds, Judges
<1>9. ASSUME NEW h \in recon.turns, Acts(h) PROVE Counted'
  <2>1. UNCHANGED <<worked, killed, drain>>
    BY <1>9 DEF Acts
  <2>2. h.t \in TurnIds
    BY <1>1 DEF TypeOK, Reconcilings, SeenTurns
  <2>3. CASE row' \in {row, Finish(h.t, "interrupted")}
    BY <2>1, <2>2, <2>3, EndsRows, DueStep
  <2>4. CASE row' = [row EXCEPT ![h.t].st = "resuming", ![h.t].tries = @ + 1]
    <3>1. /\ row'[h.t].tries = row[h.t].tries + 1
          /\ \A t \in TurnIds : t # h.t => row'[t] = row[t]
      BY <1>1, <2>2, <2>4 DEF TypeOK, TurnRows
    <3> QED
      BY <2>1, <2>2, <3>1, CountedStep DEF Due, Calling, DrainAt
  <2> QED
    BY <1>9, <2>3, <2>4 DEF Acts, HandOver, Mark, Finish
<1>10. ASSUME NEW t \in TurnIds, Ages(t) PROVE Counted'
  <2>1. \A u \in TurnIds : row'[u].tries = row[u].tries /\ row'[u].st = row[u].st
    BY <1>1, <1>10 DEF Ages, TypeOK, TurnRows
  <2> QED
    BY <1>10, <2>1, DueStep DEF Ages
<1>11. CASE Kill
  <2>1. killed' = killed + 1 /\ UNCHANGED <<row, worked>>
    BY <1>11 DEF Kill
  <2>2. \A t \in TurnIds : worked[t] \in Int /\ killed \in Int /\ row[t].tries \in Int
    BY <1>1 DEF TypeOK, TurnRows
  <2> QED
    BY <2>1, <2>2 DEF Counted
<1>12. CASE DiskFills \/ DiskFrees \/ Governs \/ Collects \/ Hourly \/ BusyEnds
            \/ \E d \in Deliveries : Receives(d) \/ Nudges(d)
  BY <1>7, <1>12 DEF DiskFills, DiskFrees, Governs, SamplesDisk, SignalsTrip, Collects,
     StartsCollector, CollectorRuns, Hourly, BusyEnds, Receives, Nudges
<1>13. CASE UNCHANGED vars
  BY <1>7, <1>13 DEF vars
<1> QED
  BY <1>2, <1>3, <1>4, <1>5, <1>6, <1>8, <1>9, <1>10, <1>11, <1>12, <1>13, CountedResume
     DEF Next, Drains, Reconciles

\* An interrupted turn is worked on again as often as it was handed over, and
\* once more for every kill.
THEOREM ResumesCountedHolds == Spec => []ResumesCounted
<1>1. TypeOK /\ Counted => ResumesCounted
  BY DEF TypeOK, TurnRows, Counted, ResumesCounted
<1>2. Spec => []Typed
  BY TypedInit, TypedNext, PTL DEF Spec
<1> QED
  BY <1>1, <1>2, CountedInit, CountedNext, TypeCorrect, PTL DEF Spec

(***************************************************************************)
(* The turn in hand.  Between the insertion of its row and the moment it   *)
(* is in flight the reconciler may take it for an orphan; then it has read *)
(* a new row of a running session, and all it does is to mark it.          *)
(***************************************************************************)
Dispatched == drain.kind = "dispatch" /\ session = "running"
Fresh(old, marked, tries) == ~old /\ (marked \/ tries < MaxAttempts)
Spared ==
    /\ (drain.pc \in {"inserted", "call"} /\ Dispatched /\ recon.pc = "act") =>
         \A h \in recon.turns : (Judged(h) /\ h.t = drain.t) => recon.act = "mark"
    /\ (DrainAt("inserted") /\ Dispatched) =>
         /\ Fresh(row[drain.t].old, row[drain.t].st = "resuming", row[drain.t].tries)
         /\ \A h \in recon.turns : h.t = drain.t => (h.running /\ Fresh(h.old, h.resuming, h.tries))

LEMMA SparedInserts ==
  ASSUME Typed, Spared, NEW d \in drain.rows, InsertsTurn(d)
  PROVE  Spared'
<1>1. drain \in Drainings /\ TypeOK /\ InOrder /\ NewTurn <= MaxTurns
  BY DEF Typed, TypeOK, InsertsTurn
<1>2. NewTurn \in TurnIds /\ row[NewTurn] = NoRow
  BY <1>1, NewTurnIs DEF TurnIds
<1>3. \A h \in recon.turns : h.t # NewTurn
  BY <1>2 DEF Typed, AsRead, NoRow
<1>4. drain'.t = NewTurn /\ recon' = recon /\ row' = [row EXCEPT ![NewTurn].st = "open"]
  BY <1>1 DEF InsertsTurn, Drainings
<1>5. row'[NewTurn].old = FALSE /\ row'[NewTurn].tries = 0
  BY <1>1, <1>2, <1>4 DEF TypeOK, TurnRows, NoRow
<1>6. Fresh(row'[NewTurn].old, row'[NewTurn].st = "resuming", row'[NewTurn].tries)
  BY <1>5, DaemonAssumption DEF Fresh
<1> QED
  BY <1>3, <1>4, <1>6 DEF Spared

LEMMA SparedJudges ==
  ASSUME Typed, Spared, NEW h \in recon.turns, Judges(h)
  PROVE  Spared'
<1> DEFINE act == IF Orphaned(h) THEN Verdict(h) ELSE "none"
<1>1. recon \in Reconcilings /\ TypeOK /\ Once(recon.turns)
  BY DEF Typed, TypeOK, AsRead
<1>2. /\ recon' = IF act = "none" THEN [recon EXCEPT !.turns = @ \ {h}]
                  ELSE [recon EXCEPT !.pc = "act", !.act = act]
      /\ UNCHANGED <<row, session, drain>> /\ recon.pc = "check" /\ FirstSeen(h, recon.turns)
  BY DEF Judges, Judged, tables
<1>3. (drain.pc \in {"inserted", "call"} /\ Dispatched /\ h.t = drain.t) => act \in {"none", "mark"}
  <2>1. CASE DrainAt("call")
    BY <1>1, <2>1 DEF Orphaned, TypeOK
  <2>2. CASE DrainAt("inserted") /\ Dispatched /\ h.t = drain.t
    <3>1. h.running /\ ~h.old /\ (h.resuming \/ h.tries < MaxAttempts)
      BY <2>2 DEF Spared, Fresh
    <3>2. h.tries \in Int /\ MaxAttempts \in Int
      BY <1>1, DaemonAssumption DEF Reconcilings, SeenTurns
    <3> QED
      BY <3>1, <3>2 DEF Verdict
  <2> QED
    BY <2>1, <2>2 DEF DrainAt
<1> HIDE DEF act
<1>4. recon'.turns \subseteq recon.turns
  BY <1>1, <1>2 DEF Reconcilings
<1>5. recon'.pc = "act" => recon'.turns = recon.turns /\ recon'.act = act /\ act # "none"
  BY <1>1, <1>2 DEF Reconcilings
<1>6. recon'.pc = "act" => \A g \in recon'.turns : FirstSeen(g, recon'.turns) => g = h
  BY <1>1, <1>2, <1>5, FirstIsOne DEF Reconcilings
<1> QED
  BY <1>2, <1>3, <1>4, <1>5, <1>6 DEF Spared, Dispatched, Judged, DrainAt

LEMMA SparedActs ==
  ASSUME Typed, Spared, NEW h \in recon.turns, Acts(h)
  PROVE  Spared'
<1>1. recon \in Reconcilings /\ TypeOK /\ h.t \in TurnIds /\ recon.pc = "act" /\ Judged(h)
  BY DEF Typed, TypeOK, Acts, Reconcilings, SeenTurns
<1>2. recon'.turns = recon.turns \ {h} /\ recon'.pc = "check" /\ drain' = drain
  BY <1>1 DEF Acts, Reconcilings
<1>3. session' = "running" => session = "running"
  BY DEF Acts
<1>4. ASSUME DrainAt("inserted"), Dispatched
      PROVE  Fresh(row'[drain.t].old, row'[drain.t].st = "resuming", row'[drain.t].tries)
  <2>1. Fresh(row[drain.t].old, row[drain.t].st = "resuming", row[drain.t].tries)
    BY <1>4 DEF Spared
  <2>2. CASE drain.t = h.t
    <3>1. recon.act = "mark" /\ row' = Mark(h.t)
      BY <1>1, <1>4, <2>2 DEF Spared, Acts, HandOver, DrainAt
    <3>2. CASE Open(h.t)
      <4>1. row'[h.t].st = "resuming" /\ row'[h.t].old = row[h.t].old
        BY <1>1, <3>1, <3>2 DEF Mark, TypeOK, TurnRows
      <4> QED
        BY <2>1, <2>2, <4>1 DEF Fresh
    <3> QED
      BY <2>1, <3>1, <3>2 DEF Mark
  <2>3. CASE drain.t # h.t
    <3>1. row'[drain.t] = row[drain.t]
      <4>1. drain.t \in TurnIds
        BY <1>4 DEF Typed, Called, DrainAt
      <4> QED
        BY <1>1, <2>3, <4>1 DEF Acts, HandOver, Mark, Finish, TypeOK
    <3> QED
      BY <2>1, <3>1
  <2> QED
    BY <2>2, <2>3
<1> QED
  BY <1>2, <1>3, <1>4 DEF Spared, Dispatched, DrainAt

LEMMA SparedNext == Typed /\ Spared /\ [Next]_vars => Spared'
<1> SUFFICES ASSUME Typed, Spared, [Next]_vars PROVE Spared'
  OBVIOUS
<1> USE DEF history, space, tables, memory, work
<1>1. drain \in Drainings /\ TypeOK
  BY DEF Typed, TypeOK
<1>2. ASSUME drain'.pc \notin {"inserted", "call"} \/ (drain'.pc = "call" /\ drain'.kind # "dispatch")
      PROVE  Spared'
  BY <1>2 DEF Spared, Dispatched, DrainAt
<1>3. CASE CallsRunner
  <2>1. drain'.pc = "call" /\ drain'.t = drain.t /\ drain'.kind = drain.kind /\ drain.pc = "inserted"
          /\ UNCHANGED <<row, session, recon>>
    BY <1>1, <1>3 DEF CallsRunner, DrainGo, Drainings, DrainAt
  <2> QED
    BY <2>1 DEF Spared, Dispatched, DrainAt, Judged
<1>4. CASE BeginsPass \/ ChecksRow \/ RowFails \/ EntersLoop \/ EntersBatch \/ BatchEnds \/ Waits
           \/ FiveSeconds \/ Clears \/ \E d \in drain.rows : HandlesRow(d) \/ TakesDelivery(d) \/ TurnReturns(d)
  BY <1>1, <1>2, <1>4 DEF BeginsPass, ChecksRow, RowFails, EntersLoop, EntersBatch, BatchEnds, Waits, FiveSeconds,
     Clears, HandlesRow, TakesDelivery, TurnReturns, DrainGo, Paused, Then, PastDelivery, Drainings
<1>5. ASSUME NEW h \in drain.turns,
             PassesOver(h) \/ FindsNoRunner(h) \/ CallsAgain(h) \/ ResumeReturns(h)
      PROVE  Spared'
  BY <1>1, <1>2, <1>5 DEF PassesOver, FindsNoRunner, CallsAgain, ResumeReturns, ResumeFails,
     PastListed, Drainings
<1>6. CASE Kill
  BY <1>2, <1>6 DEF Kill, Starting
<1>7. ASSUME UNCHANGED <<row, drain>>, session' = "running" => session = "running",
             recon' = recon \/ (recon'.pc # "act" /\ recon'.turns \subseteq recon.turns)
      PROVE  Spared'
  BY <1>7 DEF Spared, Dispatched, DrainAt, Judged
<1>8. CASE Sweeps \/ PassEnds
  BY <1>1, <1>7, <1>8 DEF Sweeps, PassEnds, Sleeping, TypeOK, Reconcilings
<1>9. CASE ListsTurns
  <2>1. recon'.turns = Snapshot /\ recon'.pc = "check" /\ UNCHANGED <<row, drain, session>>
    BY <1>1, <1>9 DEF ListsTurns, TypeOK, Reconcilings
  <2>2. ASSUME NEW h \in Snapshot, DrainAt("inserted"), Dispatched, h.t = drain.t
        PROVE  h.running /\ Fresh(h.old, h.resuming, h.tries)
    <3>1. h = Seen(drain.t)
      BY <1>1, <2>2, SnapshotIs
    <3>2. Fresh(row[drain.t].old, row[drain.t].st = "resuming", row[drain.t].tries)
      BY <2>2 DEF Spared
    <3> QED
      BY <2>2, <3>1, <3>2 DEF Seen, Dispatched, Fresh
  <2> QED
    BY <2>1, <2>2 DEF Spared, Dispatched, DrainAt
<1>10. ASSUME NEW t \in TurnIds, Ages(t) PROVE Spared'
  <2>1. UNCHANGED <<session, drain, recon>> /\ ~(DrainAt("inserted") /\ drain.t = t)
    BY <1>10 DEF Ages
  <2>2. DrainAt("inserted") => row'[drain.t] = row[drain.t]
    BY <1>1, <1>10, <2>1 DEF Ages, Typed, TypeOK, Called, DrainAt
  <2> QED
    BY <2>1, <2>2 DEF Spared, Dispatched, DrainAt, Judged
<1>11. CASE DiskFills \/ DiskFrees \/ Governs \/ Collects \/ Hourly \/ BusyEnds
            \/ \E d \in Deliveries : Receives(d) \/ Nudges(d)
  BY <1>7, <1>11 DEF DiskFills, DiskFrees, Governs, SamplesDisk, SignalsTrip, Collects,
     StartsCollector, CollectorRuns, Hourly, BusyEnds, Receives, Nudges
<1>12. CASE UNCHANGED vars
  BY <1>7, <1>12 DEF vars
<1> QED
  BY <1>3, <1>4, <1>5, <1>6, <1>8, <1>9, <1>10, <1>11, <1>12, SparedInserts, SparedJudges, SparedActs
     DEF Next, Drains, Reconciles

\* A turn that is dispatched is closed by its own call and by nobody else, as
\* long as its session is running.
THEOREM CallKeepsItsTurnHolds == Spec => CallKeepsItsTurn
<1>1. Init => Spared
  BY DEF Init, Starting, Spared, DrainAt
<1>2. ASSUME Typed, Spared, Next, NEW t \in TurnIds, DrainAt("call"), drain.kind = "dispatch", drain.t = t,
             Open(t), session = "running"
      PROVE  row'[t].st \in {"open", "resuming"} \/ drain'.pc # "call"
  <2> USE DEF history, space, tables, memory, work
  <2>1. drain \in Drainings /\ TypeOK /\ row[t].st \in {"open", "resuming"}
    BY <1>2 DEF Typed, TypeOK, Open
  <2>2. CASE row' = row
    BY <2>1, <2>2
  <2>3. CASE Drains \/ FiveSeconds
    <3>1. CASE \E d \in drain.rows : TurnReturns(d)
      BY <2>1, <3>1 DEF TurnReturns, PastDelivery, Drainings
    <3> QED
      BY <1>2, <2>3, <3>1 DEF Drains, FiveSeconds, BeginsPass, ChecksRow, RowFails, EntersLoop, EntersBatch,
         BatchEnds, Waits, Clears, CallsRunner, HandlesRow, TakesDelivery, InsertsTurn, AtDelivery, PassesOver,
         FindsNoRunner, CallsAgain, ResumeReturns, Listed, DrainAt
  <2>4. ASSUME NEW h \in recon.turns, Acts(h) PROVE row'[t].st \in {"open", "resuming"}
    <3>1. recon.pc = "act" /\ Judged(h) /\ h.t \in TurnIds
      BY <2>1, <2>4 DEF Acts, TypeOK, Reconcilings, SeenTurns
    <3>2. CASE h.t = t
      <4>1. row' = Mark(t)
        BY <1>2, <2>4, <3>1, <3>2 DEF Acts, HandOver, Spared, Dispatched, DrainAt
      <4>2. row'[t].st = "resuming"
        BY <1>2, <2>1, <4>1 DEF Mark, TypeOK, TurnRows
      <4> QED
        BY <4>2
    <3>3. CASE h.t # t
      <4>1. row'[t] = row[t]
        BY <2>1, <2>4, <3>1, <3>3 DEF Acts, HandOver, Mark, Finish, TypeOK
      <4> QED
        BY <2>1, <4>1
    <3> QED
      BY <3>2, <3>3
  <2>5. ASSUME NEW u \in TurnIds, Ages(u) PROVE row'[t].st \in {"open", "resuming"}
    <3>1. row'[t].st = row[t].st
      BY <2>1, <2>5 DEF Ages, TypeOK, TurnRows
    <3> QED
      BY <2>1, <3>1
  <2>6. CASE Kill
    BY <2>6 DEF Kill, Starting
  <2>7. CASE Sweeps \/ ListsTurns \/ PassEnds \/ DiskFills \/ DiskFrees \/ Governs \/ Collects \/ Hourly
             \/ BusyEnds \/ (\E h \in recon.turns : Judges(h))
             \/ \E d \in Deliveries : Receives(d) \/ Nudges(d)
    BY <2>2, <2>7 DEF Sweeps, ListsTurns, PassEnds, DiskFills, DiskFrees, Governs, SamplesDisk,
       SignalsTrip, Collects, StartsCollector, CollectorRuns, Hourly, BusyEnds, Judges, Receives, Nudges
  <2> QED
    BY <1>2, <2>3, <2>4, <2>5, <2>6, <2>7 DEF Next, Reconciles
<1>3. Typed /\ Spared /\ [Next]_vars =>
        [\A t \in TurnIds :
           (DrainAt("call") /\ drain.kind = "dispatch" /\ drain.t = t /\ Open(t) /\ session = "running")
             => (row'[t].st \in {"open", "resuming"} \/ ~(drain'.pc = "call"))]_vars
  BY <1>2
<1>4. Spec => []Typed
  BY TypedInit, TypedNext, PTL DEF Spec
<1> QED
  BY <1>1, <1>3, <1>4, SparedNext, PTL DEF Spec, CallKeepsItsTurn
=============================================================================
