---------------------------- MODULE StallSignals ----------------------------
(***************************************************************************)
(* The two stall signals of a session under review.  The drain observes a  *)
(* push or a request for changes by fetching the review threads and the    *)
(* diff, runs both signals on a tracker it builds from the session row,    *)
(* and writes the tracker back.                                            *)
(***************************************************************************)
EXTENDS Naturals

CONSTANTS
    Threads,      \* review threads that may ever be opened
    Diffs,        \* diff stats of the branch against its base
    MaxHead,      \* bound: pushes
    MaxRounds,    \* bound: observations
    FpLimit,      \* StallTracker.fp_threshold
    ZeroLimit     \* StallTracker.zero_thread_threshold

ASSUME LimitsAssumption ==
    /\ MaxHead \in Nat \ {0} /\ MaxRounds \in Nat
    /\ FpLimit \in Nat \ {0} /\ ZeroLimit \in Nat \ {0}

None == "none"
NoFp == <<>>      \* last_fp is None
NoHead == 0       \* last_head is None
Heads == 1 .. MaxHead
Fingerprints == (SUBSET Threads) \X Diffs

\* A tracker is armed once the head was seen to change.
Trackers == [fp : Fingerprints \cup {NoFp}, repeat : Nat,
             head : Heads \cup {NoHead}, armed : BOOLEAN]

VARIABLES
    open,      \* GitHub: unresolved review threads
    head,      \* GitHub: head of the pull request
    diff,      \* GitHub: diff stat at that head
    row,       \* session: progress_fp ("A:" if armed), progress_repeat
    prior,     \* session: stall_open_threads
    zero,      \* session: zero_thread_rounds
    paused,    \* why the session was escalated, or None
    resolved,  \* history: a thread was resolved since the last round
    barren,    \* history: rounds in a row without one, up to ZeroLimit
    rounds     \* history: observations so far

github == <<open, head, diff>>
columns == <<row, prior, zero>>
vars == <<github, columns, paused, resolved, barren, rounds>>

Fresh == [fp |-> NoFp, repeat |-> 0, head |-> NoHead, armed |-> FALSE]

Init ==
    /\ open \in SUBSET Threads /\ head = 1 /\ diff \in Diffs
    /\ row = Fresh /\ prior = {} /\ zero = 0
    /\ paused = None
    /\ resolved = FALSE /\ barren = 0 /\ rounds = 0

\* observe_fingerprint, for an event that carries a head.
ObserveFingerprint(t, fp, h) ==
    LET armed == t.armed \/ (t.head # NoHead /\ t.head # h)
    IN  CASE t.head = NoHead -> [t EXCEPT !.fp = fp, !.repeat = 0, !.head = h]
          [] t.head # NoHead /\ ~armed -> [t EXCEPT !.fp = fp, !.repeat = 0]
          [] OTHER -> [fp |-> fp, head |-> h, armed |-> TRUE,
                       repeat |-> IF fp = t.fp THEN t.repeat + 1 ELSE 1]

\* It counts, and may fire, only when it knows an earlier head and is armed.
Fires(t, fp, h) ==
    LET u == ObserveFingerprint(t, fp, h)
    IN  t.head # NoHead /\ u.armed /\ u.repeat >= FpLimit

\* The row has no column for last_head, so the tracker is never armed and
\* this signal never fires.
Rebuilt == [row EXCEPT !.head = NoHead]

-----------------------------------------------------------------------------
(* GitHub.                                                                 *)

OpenThread(t) ==
    /\ t \notin open
    /\ open' = open \cup {t}
    /\ UNCHANGED <<head, diff, columns, paused, resolved, barren, rounds>>

ResolveThread(t) ==
    /\ t \in open
    /\ open' = open \ {t}
    /\ resolved' = TRUE
    /\ UNCHANGED <<head, diff, columns, paused, barren, rounds>>

Push ==
    /\ head < MaxHead
    /\ head' = head + 1
    /\ diff' \in Diffs
    /\ UNCHANGED <<open, columns, paused, resolved, barren, rounds>>

-----------------------------------------------------------------------------
(* _observe_stall_signals.  A failed fetch skips the signal that needs it. *)

\* threads_resolved: what was open at the last observation and no longer is.
Gone == prior \ open

\* Mutant of NextZero: a push starts the count again.
NextZeroOfRounds(round) == IF ~round \/ Gone # {} THEN 0 ELSE zero + 1

\* observe_review_round, on a request for changes whose threads were fetched.
NextZero(round) == IF ~round THEN zero
                   ELSE IF Gone = {} THEN zero + 1 ELSE 0

\* Mutant of StallReason: one round too many.
StallReasonLate(round, sampled) ==
    IF sampled /\ Fires(Rebuilt, <<open, diff>>, head) THEN "fingerprint"
    ELSE IF round /\ NextZero(round) > ZeroLimit THEN "zero"
    ELSE None

StallReason(round, sampled) ==
    IF sampled /\ Fires(Rebuilt, <<open, diff>>, head) THEN "fingerprint"
    ELSE IF round /\ NextZero(round) >= ZeroLimit THEN "zero"
    ELSE None

\* What an ideal observer makes of the same event.
Witness(round) ==
    IF round
    THEN /\ barren' = IF resolved THEN 0
                      ELSE IF barren < ZeroLimit THEN barren + 1 ELSE barren
         /\ resolved' = FALSE
    ELSE UNCHANGED <<barren, resolved>>

Observe(review, threadsSeen, diffSeen) ==
    LET round == review /\ threadsSeen
        sampled == threadsSeen /\ diffSeen
    IN  /\ paused = None /\ rounds < MaxRounds
        /\ rounds' = rounds + 1
        /\ paused' = StallReason(round, sampled)
        /\ IF paused' # None THEN UNCHANGED columns
           ELSE /\ row' = IF sampled
                          THEN ObserveFingerprint(Rebuilt, <<open, diff>>, head)
                          ELSE Rebuilt
                /\ zero' = NextZero(round)
                /\ prior' = IF threadsSeen THEN open ELSE prior
        /\ Witness(round)
        /\ UNCHANGED github

\* The owner's reply; it resets no stall column.
Resume ==
    /\ paused # None
    /\ paused' = None
    /\ UNCHANGED <<github, columns, resolved, barren, rounds>>

Next ==
    \/ \E t \in Threads : OpenThread(t) \/ ResolveThread(t)
    \/ Push
    \/ \E review, threadsSeen, diffSeen \in BOOLEAN :
            Observe(review, threadsSeen, diffSeen)
    \/ Resume

Spec == Init /\ [][Next]_vars

-----------------------------------------------------------------------------

\* Every variable has its type.
TypeOK ==
    /\ open \subseteq Threads /\ prior \subseteq Threads
    /\ head \in Heads /\ diff \in Diffs
    /\ row \in Trackers
    /\ zero \in Nat /\ barren \in 0 .. ZeroLimit /\ rounds \in 0 .. MaxRounds
    /\ paused \in {None, "fingerprint", "zero"}
    /\ resolved \in BOOLEAN

\* The stored count never falls behind the rounds that resolved nothing,
\* short of the one that pauses; a thread that is gone since the last
\* observation was resolved since the last round.
ZeroKeepsUp ==
    /\ zero >= barren \/ (barren = ZeroLimit /\ zero = ZeroLimit - 1)
    /\ Gone # {} => resolved

\* What BarrenRoundsPause rests on, whatever is fetched or fails.
Inv == TypeOK /\ ZeroKeepsUp

\* No stall goes unnoticed: the round that makes ZeroLimit of them without a
\* resolved thread pauses the session, whatever fetches failed in between.
BarrenRoundsPause ==
    [][\A diffSeen \in BOOLEAN :
        Observe(TRUE, TRUE, diffSeen) /\ barren' = ZeroLimit
            => paused' # None]_vars
=============================================================================
