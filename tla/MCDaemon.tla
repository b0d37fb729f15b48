------------------------------ MODULE MCDaemon ------------------------------
(***************************************************************************)
(* The tables the run of Daemon starts from, all of them tables a kill may *)
(* leave behind, and what goes wrong afterwards.                           *)
(***************************************************************************)
EXTENDS Daemon

Left(st) == [NoRow EXCEPT !.st = st]
Deferred(n) == [d \in Deliveries |-> IF d <= n THEN "deferred" ELSE "done"]
Hitching(k, f, m, t) == [kills |-> k, fails |-> f, moves |-> m, trips |-> t]

\* Two interrupted turns; runners that fail, a session that is paused.
TwoInterrupted ==
    [deliveries |-> Deferred(0), row |-> [t \in TurnIds |-> Left("open")],
     collector |-> "none", hitches |-> Hitching(0, 1, 1, 0)]

\* One, and kills again and again.
OneInterrupted ==
    [deliveries |-> Deferred(0),
     row |-> [t \in TurnIds |-> IF t = 1 THEN Left("open") ELSE Left("answered")],
     collector |-> "none", hitches |-> Hitching(2, 2, 1, 0)]

\* A delivery that gets a turn, and is interrupted in it.
OneDispatched ==
    [deliveries |-> Deferred(1), row |-> [t \in TurnIds |-> NoRow],
     collector |-> "none", hitches |-> Hitching(1, 1, 0, 0)]

\* One that meets a session on the move.
OneMoved ==
    [deliveries |-> Deferred(1),
     row |-> [t \in TurnIds |-> IF t = 1 THEN Left("answered") ELSE NoRow],
     collector |-> "none", hitches |-> Hitching(1, 0, 2, 0)]

\* A disk that fills while a webhook arrives.
DiskFull ==
    [deliveries |-> [d \in Deliveries |-> IF d = 1 THEN "queued" ELSE IF d = 2 THEN "away" ELSE "done"],
     row |-> [t \in TurnIds |-> Left("answered")],
     collector |-> "off", hitches |-> Hitching(0, 0, 0, 1)]

\* More rows than a pass lists, and one that cannot be written.
Backlog ==
    [deliveries |-> [d \in Deliveries |-> IF d <= 2 THEN "queued" ELSE "away"],
     row |-> [t \in TurnIds |-> Left("answered")],
     collector |-> "none", hitches |-> Hitching(0, 1, 0, 0)]

\* An interrupted turn, and a full disk.
BothAtOnce ==
    [deliveries |-> Deferred(0),
     row |-> [t \in TurnIds |-> IF t = 1 THEN Left("open") ELSE Left("answered")],
     collector |-> "off", hitches |-> Hitching(1, 0, 0, 1)]

AllScenes == {TwoInterrupted, OneInterrupted, OneDispatched, OneMoved, DiskFull, Backlog,
              BothAtOnce}
=============================================================================
