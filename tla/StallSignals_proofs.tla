------------------------- MODULE StallSignals_proofs -------------------------
(***************************************************************************)
(* ZeroLimit rounds without a resolved thread pause the session, for any   *)
(* threads, diffs and limits.  The stored count may run ahead of the       *)
(* rounds that resolved nothing, never behind: a thread that is gone since *)
(* the last observation was resolved since the last round, as both are     *)
(* forgotten together, and an observation that pauses, and so leaves the   *)
(* columns as they are, found no thread gone.                              *)
(***************************************************************************)
EXTENDS StallSignals, TLAPS

\* The tracker is rebuilt without a head, so only barren rounds are a reason.
LEMMA ReasonIsZero ==
  ASSUME row \in Trackers, NEW round \in BOOLEAN, NEW sampled \in BOOLEAN
  PROVE  StallReason(round, sampled) =
           IF round /\ NextZero(round) >= ZeroLimit THEN "zero" ELSE None
<1>1. Rebuilt.head = NoHead
  BY DEF Rebuilt, Trackers
<1>2. ~Fires(Rebuilt, <<open, diff>>, head)
  BY <1>1 DEF Fires
<1> QED
  BY <1>2 DEF StallReason

LEMMA RebuiltType ==
  ASSUME TypeOK
  PROVE  /\ Rebuilt \in Trackers
         /\ ObserveFingerprint(Rebuilt, <<open, diff>>, head) \in Trackers
<1>1. Rebuilt \in Trackers /\ Rebuilt.head = NoHead
  BY DEF TypeOK, Rebuilt, Trackers
<1>2. <<open, diff>> \in Fingerprints /\ head \in Heads
  BY DEF TypeOK, Fingerprints
<1>3. ObserveFingerprint(Rebuilt, <<open, diff>>, head) =
        [Rebuilt EXCEPT !.fp = <<open, diff>>, !.repeat = 0, !.head = head]
  BY <1>1 DEF ObserveFingerprint
<1>4. ASSUME NEW t \in Trackers, NEW fp \in Fingerprints, NEW h \in Heads
      PROVE  [t EXCEPT !.fp = fp, !.repeat = 0, !.head = h] \in Trackers
  BY DEF Trackers
<1> QED
  BY <1>1, <1>2, <1>3, <1>4

LEMMA InvInit == Init => Inv
<1> SUFFICES ASSUME Init PROVE Inv
  OBVIOUS
<1>1. Fresh \in Trackers
  BY DEF Fresh, Trackers
<1>2. open \subseteq Threads /\ prior \subseteq Threads /\ resolved \in BOOLEAN
  BY Zenon DEF Init
<1>3. head \in Heads /\ zero \in Nat /\ barren \in 0 .. ZeroLimit /\ rounds \in 0 .. MaxRounds
  BY LimitsAssumption DEF Init, Heads
<1>4. TypeOK
  BY <1>1, <1>2, <1>3 DEF Init, TypeOK
<1> QED
  BY <1>4, LimitsAssumption DEF Init, Inv, ZeroKeepsUp, Gone

\* What users do on GitHub: a thread goes only when it is resolved.
LEMMA InvGitHub ==
  ASSUME Inv, Push \/ \E t \in Threads : OpenThread(t) \/ ResolveThread(t)
  PROVE  Inv'
<1> USE LimitsAssumption DEF Inv, TypeOK, ZeroKeepsUp, Gone, Heads, columns
<1>1. CASE Push
  BY <1>1 DEF Push
<1>2. ASSUME NEW t \in Threads, OpenThread(t) PROVE Inv'
  BY <1>2 DEF OpenThread
<1>3. ASSUME NEW t \in Threads, ResolveThread(t) PROVE Inv'
  BY <1>3 DEF ResolveThread
<1> QED
  BY <1>1, <1>2, <1>3

LEMMA InvObserve ==
  ASSUME Inv, NEW review \in BOOLEAN, NEW threadsSeen \in BOOLEAN, NEW diffSeen \in BOOLEAN,
         Observe(review, threadsSeen, diffSeen)
  PROVE  Inv'
<1> DEFINE round == review /\ threadsSeen
<1> DEFINE sampled == threadsSeen /\ diffSeen
<1> USE LimitsAssumption
<1>1. paused' = IF round /\ NextZero(round) >= ZeroLimit THEN "zero" ELSE None
  BY ReasonIsZero DEF Observe, Inv, TypeOK
<1>2. zero \in Nat /\ NextZero(round) \in Nat /\ barren \in 0..ZeroLimit
  BY DEF Inv, TypeOK, NextZero
<1>3. /\ barren' = IF round THEN IF resolved THEN 0
                                 ELSE IF barren < ZeroLimit THEN barren + 1 ELSE barren
                   ELSE barren
      /\ resolved' = IF round THEN FALSE ELSE resolved
  BY DEF Observe, Witness
<1>4. UNCHANGED github /\ rounds < MaxRounds /\ rounds' = rounds + 1
  BY DEF Observe
<1>5. CASE paused' = None
  <2>1. /\ zero' = NextZero(round) /\ (round => zero' < ZeroLimit)
        /\ prior' = IF threadsSeen THEN open ELSE prior
        /\ row' \in Trackers
    BY <1>1, <1>2, <1>5, RebuiltType DEF Observe, None, Inv
  <2>2. TypeOK'
    <3>1. /\ open' \subseteq Threads /\ prior' \subseteq Threads
          /\ head' \in Heads /\ diff' \in Diffs
          /\ zero' \in Nat /\ barren' \in 0 .. ZeroLimit /\ rounds' \in 0 .. MaxRounds
      BY <1>2, <1>3, <1>4, <2>1 DEF Inv, TypeOK, github
    <3>2. resolved' \in BOOLEAN
      BY <1>3 DEF Inv, TypeOK
    <3> QED
      BY <1>5, <2>1, <3>1, <3>2 DEF TypeOK
  <2>3. zero' >= barren' \/ (barren' = ZeroLimit /\ zero' = ZeroLimit - 1)
    BY <1>2, <1>3, <2>1 DEF Inv, TypeOK, ZeroKeepsUp, NextZero
  <2>4. (Gone # {} => resolved)'
    BY <1>3, <1>4, <2>1 DEF Inv, ZeroKeepsUp, Gone, github
  <2> QED
    BY <2>2, <2>3, <2>4 DEF Inv, ZeroKeepsUp
<1>6. CASE paused' # None
  <2>1. round /\ NextZero(round) >= ZeroLimit /\ paused' = "zero"
    BY <1>1, <1>6
  <2>2. Gone = {} /\ zero + 1 >= ZeroLimit
    BY <1>2, <2>1 DEF NextZero
  <2>3. UNCHANGED columns
    BY <1>6 DEF Observe
  <2>4. TypeOK'
    BY <1>2, <1>3, <1>4, <2>1, <2>3 DEF Inv, TypeOK, github, columns
  <2>5. zero' >= barren' \/ (barren' = ZeroLimit /\ zero' = ZeroLimit - 1)
    BY <1>2, <1>3, <2>1, <2>2, <2>3 DEF Inv, ZeroKeepsUp, columns
  <2>6. (Gone # {} => resolved)'
    BY <1>4, <2>2, <2>3 DEF Gone, github, columns
  <2> QED
    BY <2>4, <2>5, <2>6 DEF Inv, ZeroKeepsUp
<1> QED
  BY <1>5, <1>6

LEMMA InvNext == Inv /\ [Next]_vars => Inv'
<1> SUFFICES ASSUME Inv, [Next]_vars PROVE Inv'
  OBVIOUS
<1>1. CASE Resume
  BY <1>1 DEF Resume, Inv, TypeOK, ZeroKeepsUp, Gone, github, columns, None
<1>2. CASE UNCHANGED vars
  BY <1>2 DEF vars, Inv, TypeOK, ZeroKeepsUp, Gone, github, columns
<1> QED
  BY <1>1, <1>2, InvGitHub, InvObserve DEF Next

\* Type correctness, and the stored count of loop_safety.py:217 never behind
\* the rounds that resolved nothing.
THEOREM CountKeepsUp == Spec => []Inv
  BY InvInit, InvNext, PTL DEF Spec

\* One round that makes ZeroLimit of them finds the count one short of it.
LEMMA BarrenRound ==
  ASSUME Inv, NEW diffSeen \in BOOLEAN, Observe(TRUE, TRUE, diffSeen), barren' = ZeroLimit
  PROVE  paused' # None
<1> USE LimitsAssumption
<1>1. paused' = IF NextZero(TRUE) >= ZeroLimit THEN "zero" ELSE None
  BY ReasonIsZero DEF Observe, Inv, TypeOK
<1>2. ~resolved /\ barren >= ZeroLimit - 1
  BY DEF Observe, Witness, Inv, TypeOK
<1>3. Gone = {} /\ zero >= ZeroLimit - 1 /\ zero \in Nat
  BY <1>2 DEF Inv, TypeOK, ZeroKeepsUp
<1>4. NextZero(TRUE) >= ZeroLimit
  BY <1>3 DEF NextZero
<1> QED
  BY <1>1, <1>4 DEF None

\* Section 9.3: the round that makes ZeroLimit of them without a resolved
\* thread pauses the session, whatever fetches failed in between.
THEOREM BarrenRoundsAlwaysPause == Spec => BarrenRoundsPause
<1>1. Inv /\ [Next]_vars => [\A diffSeen \in BOOLEAN :
          Observe(TRUE, TRUE, diffSeen) /\ barren' = ZeroLimit => paused' # None]_vars
  BY BarrenRound
<1> QED
  BY <1>1, CountKeepsUp, PTL DEF Spec, BarrenRoundsPause
=============================================================================
