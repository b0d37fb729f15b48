--------------------------- MODULE CloseGate_proofs ---------------------------
(***************************************************************************)
(* The end of a session, for any bounds, worlds and starts: what is        *)
(* recorded as verified was ticked by the owner, no restore ticks without  *)
(* the owner, a session is closed only when swept, and torn down only      *)
(* because the owner closed the issue.                                     *)
(*                                                                         *)
(* None of them is inductive.  Between the owner's edit and the record     *)
(* there is a delivery, and between a close and its classification a job,  *)
(* a re-read, a hold or a sweep that read the row earlier.  The parts of   *)
(* Inv say what each of these carries.                                     *)
(***************************************************************************)
EXTENDS CloseGate, TLAPS

\* What the types rest on: the delivery in hand is a row, and is no longer in
\* the batch; each act is reported once, and each close reopened once.
Typed ==
    /\ TypeOK
    /\ world \in Worlds
    /\ job.step # "idle" => job.id \in DOMAIN inbox
    /\ job.id \notin batch
    /\ \/ Len(inbox) + (IF open THEN 0 ELSE 1) <= 2 * acts
       \/ Len(inbox) <= acts /\ \A i \in DOMAIN inbox : inbox[i].kind # "closed"

LEMMA EscalatedIs ==
  ASSUME NEW s \in Sessions, NEW reason \in {"hold", "reason"}
  PROVE  /\ Escalated(s, reason) \in Sessions
         /\ Escalated(s, reason).stamp = s.stamp /\ Escalated(s, reason).class = s.class
         /\ Escalated(s, reason).state \in {s.state, "PAUSED_HUMAN"}
         /\ Escalated(s, reason).state = "CLOSED" <=> s.state = "CLOSED"
         /\ Escalated(s, reason).resume \in {s.resume, "PLANNING"}
              \/ (Escalated(s, reason).resume = s.state /\ s.state # "CLOSED")
<1>1. CASE s.state = "CLOSED"
  BY <1>1 DEF Escalated
<1>2. CASE s.state # "CLOSED"
  <2> DEFINE to == IF s.state # "PAUSED_HUMAN" THEN s.state
                   ELSE IF s.resume = None THEN "PLANNING" ELSE s.resume
  <2>1. Escalated(s, reason) = [s EXCEPT !.state = "PAUSED_HUMAN", !.paused = reason,
                                         !.asked = TRUE, !.resume = to]
    BY <1>2 DEF Escalated
  <2>2. to \in Live \cup Terminal \cup {None} /\ (to = s.resume \/ to = "PLANNING" \/ to = s.state)
    BY DEF Sessions, States, Live, Terminal, None
  <2> HIDE DEF to
  <2> QED
    BY <1>2, <2>1, <2>2 DEF Sessions, States
<1> QED
  BY <1>1, <1>2

LEMMA FixForIs ==
  ASSUME NEW d \in Deliveries
  PROVE  /\ FixFor(d) \in Fixes \cup {NoFix}
         /\ FixFor(d).to = "up" => sess.stamp
  BY SMT DEF FixFor, Fixes, NoFix, Box, HasBlock, CanRaise, Deliveries, Bodies

LEMMA FixedIs ==
  ASSUME NEW fix \in Fixes \cup {NoFix}, NEW b \in Bodies
  PROVE  /\ Fixed(fix, b) \in Bodies
         /\ Fixed(fix, b) \in {b, "none", fix.to}
  BY SMT DEF Fixed, Fixes, NoFix, HasBlock, Bodies

LEMMA TypedInit == Init => Typed
<1> SUFFICES ASSUME Init PROVE Typed
  OBVIOUS
<1>1. PICK start \in Starts :
           /\ world = start.world /\ body = start.body /\ open = start.open
           /\ merged = start.merged /\ sess = start.sess
  BY DEF Init
<1>2. world \in Worlds /\ body \in Bodies /\ open \in BOOLEAN /\ merged \in BOOLEAN
        /\ sess \in Sessions
  BY <1>1, BoundsAssumption
<1>3. world.busy \in Nat /\ world.crashes \in Nat
  BY <1>2 DEF Worlds
<1>4. inbox \in Seq(Deliveries) /\ Len(inbox) = 0 /\ DOMAIN inbox = {} /\ MaxDeliveries \in Nat
  BY BoundsAssumption DEF Init, MaxDeliveries
<1>5. job \in Jobs /\ (job.step = "idle" <=> job.id = 0)
  BY DEF Init, Idle, Jobs, Steps, Bodies
<1>6. sweep \in Sweeps /\ seen \in Memory
  BY DEF Init, Asleep, Sweeps, Memory, States, Live, Terminal
<1>7. tries \in [Ids -> 0 .. MaxTries - 1]
  BY BoundsAssumption DEF Init
<1>8. TypeOK
  BY <1>2, <1>3, <1>4, <1>5, <1>6, <1>7, BoundsAssumption DEF TypeOK, Init, Roles
<1> QED
  BY <1>2, <1>4, <1>5, <1>8 DEF Typed, Init, Idle

\* Each thing done on GitHub adds at most one delivery.
LEMMA TypedReport ==
  ASSUME Typed, NEW kind \in Kinds, NEW by \in Users, NEW prev \in Bodies, NEW now \in Bodies,
         Report(kind, by, prev, now), acts < MaxActs, acts' = acts + 1,
         UNCHANGED <<world, merged, job, tries, sess, ledger, sweep, busy, crashes>>,
         body' \in Bodies, open' \in BOOLEAN, seen' \in Memory,
         IF kind = "closed" THEN open /\ ~open' ELSE open => open'
  PROVE  Typed'
<1> DEFINE d == [kind |-> kind, by |-> by, prev |-> prev, now |-> now]
<1>1. MaxDeliveries = 2 * MaxActs /\ MaxActs \in Nat /\ acts \in Nat
  BY BoundsAssumption DEF MaxDeliveries, Typed, TypeOK
<1>2. inbox \in Seq(Deliveries) /\ Len(inbox) \in Nat /\ DOMAIN inbox = 1 .. Len(inbox)
  BY DEF Typed, TypeOK
<1>3. d \in Deliveries /\ d.kind = kind
  BY DEF Deliveries, Users
<1>4. CASE inbox' = Append(inbox, d) /\ waiting' = waiting \cup {Len(inbox) + 1}
             /\ UNCHANGED <<aged, batch>>
  <2>1. /\ inbox' \in Seq(Deliveries) /\ Len(inbox') = Len(inbox) + 1
        /\ DOMAIN inbox' = 1 .. Len(inbox) + 1 /\ inbox'[Len(inbox) + 1] = d
        /\ \A i \in DOMAIN inbox : inbox'[i] = inbox[i]
    BY <1>2, <1>3, <1>4
  <2> HIDE DEF d
  <2>2. \/ Len(inbox') + (IF open' THEN 0 ELSE 1) <= 2 * acts'
        \/ Len(inbox') <= acts' /\ \A i \in DOMAIN inbox' : inbox'[i].kind # "closed"
    <3>1. CASE Len(inbox) + (IF open THEN 0 ELSE 1) <= 2 * acts
      BY <1>1, <1>2, <2>1, <3>1
    <3>2. CASE /\ Len(inbox) <= acts /\ \A i \in DOMAIN inbox : inbox[i].kind # "closed"
               /\ kind # "closed"
      BY <1>1, <1>2, <1>3, <2>1, <3>2
    <3>3. CASE Len(inbox) <= acts /\ kind = "closed"
      BY <1>1, <1>2, <2>1, <3>3
    <3> QED
      BY <3>1, <3>2, <3>3 DEF Typed
  <2>3. Len(inbox') <= MaxDeliveries
    BY <1>1, <1>2, <2>1, <2>2
  <2>4. TypeOK'
    BY <1>1, <1>2, <1>4, <2>1, <2>3 DEF Typed, TypeOK
  <2> QED
    BY <1>2, <1>4, <2>1, <2>2, <2>4 DEF Typed
<1>5. CASE UNCHANGED queue
  <2>1. \/ Len(inbox') + (IF open' THEN 0 ELSE 1) <= 2 * acts'
        \/ Len(inbox') <= acts' /\ \A i \in DOMAIN inbox' : inbox'[i].kind # "closed"
    BY <1>1, <1>2, <1>5 DEF queue, Typed
  <2>2. TypeOK'
    BY <1>1, <1>2, <1>5 DEF queue, Typed, TypeOK
  <2> QED
    BY <1>5, <2>1, <2>2 DEF queue, Typed
<1> QED
  BY <1>4, <1>5 DEF Report

LEMMA TypedGitHub ==
  ASSUME Typed, GitHub
  PROVE  Typed'
<1> USE DEF Act, Typed, TypeOK, Kinds, Users, Memory
<1>1. ASSUME NEW by \in Users, Close(by) PROVE Typed'
  BY <1>1, TypedReport DEF Close
<1>2. ASSUME NEW by \in Users, NEW to \in Bodies, Edit(by, to) PROVE Typed'
  BY <1>2, TypedReport DEF Edit
<1>3. CASE Reopen
  BY <1>3, TypedReport DEF Reopen
<1>4. CASE Reply
  BY <1>4, TypedReport DEF Reply
<1> QED
  BY <1>1, <1>2, <1>3, <1>4 DEF GitHub

-----------------------------------------------------------------------------
(* The drain.                                                              *)

\* A step that adds no delivery, and keeps or settles the one in hand.
LEMMA TypedStep ==
  ASSUME Typed, DrainOnly, UNCHANGED <<open, inbox>>, body' \in Bodies,
         NEW i \in DOMAIN inbox, batch' \subseteq batch, i \notin batch',
         Deferred \/ Settled(i),
         job' = Idle \/ (job' \in Jobs /\ job'.id = i /\ job'.step # "idle"),
         tries' \in [Ids -> 0 .. MaxTries - 1], sess' \in Sessions, ledger' \subseteq Roles,
         busy' \in 0 .. world.busy, seen' \in Memory
  PROVE  Typed'
<1>1. DOMAIN inbox = 1 .. Len(inbox) /\ Len(inbox) \in Nat
  BY DEF Typed, TypeOK
<1>2. /\ Idle \in Jobs /\ Idle.id = 0 /\ Idle.step = "idle" /\ i # 0 /\ 0 \notin batch
  BY <1>1 DEF Idle, Jobs, Steps, Bodies, Typed, TypeOK
<1>3. /\ job' \in Jobs /\ job'.id \notin batch' /\ (job'.step = "idle" <=> job'.id = 0)
      /\ (job'.step # "idle" => job'.id \in DOMAIN inbox')
  BY <1>2
<1>4. waiting' \subseteq DOMAIN inbox' /\ batch' \subseteq waiting'
  BY DEF Typed, TypeOK, Deferred, Settled
<1>5. TypeOK'
  BY <1>3, <1>4 DEF Typed, TypeOK, DrainOnly
<1> QED
  BY <1>3, <1>5 DEF Typed, DrainOnly

LEMMA IdleIs ==
  ASSUME NEW i \in Ids
  PROVE  /\ Idle \in Jobs
         /\ \A step \in Steps : [Idle EXCEPT !.step = step, !.id = i] \in Jobs
         /\ \A fix \in Fixes : [Idle EXCEPT !.step = "get", !.id = i, !.fix = fix] \in Jobs
  BY DEF Idle, Jobs, Steps, Bodies

\* The delivery in hand.
LEMMA InHand ==
  ASSUME Typed, job.step # "idle"
  PROVE  /\ job.id \in DOMAIN inbox /\ job.id \in Ids /\ inbox[job.id] \in Deliveries
         /\ job.id \notin batch /\ job \in Jobs /\ job.got \in Bodies
         /\ job.fix \in Fixes \cup {NoFix} /\ tries[job.id] \in 0 .. MaxTries - 1
         /\ body \in Bodies /\ sess \in Sessions
<1>1. DOMAIN inbox = 1 .. Len(inbox) /\ Len(inbox) \in Nat
  BY DEF Typed, TypeOK
<1>2. MaxDeliveries \in Nat
  BY BoundsAssumption DEF MaxDeliveries
<1> QED
  BY <1>1, <1>2 DEF Typed, TypeOK, Jobs, Ids

LEMMA TypedGetBody ==
  ASSUME Typed, GetBody
  PROVE  Typed'
<1>1. job.step = "get"
  BY DEF GetBody
<1>2. /\ body' = body /\ UNCHANGED <<open, inbox, batch, tries, ledger, busy, seen>> /\ DrainOnly
      /\ sess' \in {sess, Escalated(sess, "reason")}
      /\ Deferred \/ Settled(job.id)
      /\ job' = Idle \/ job' = [job EXCEPT !.step = "patch", !.got = body]
  BY Zenon DEF GetBody, Quiet
<1>3. sess' \in Sessions
  BY <1>1, <1>2, InHand, EscalatedIs
<1>4. job' = Idle \/ (job' \in Jobs /\ job'.id = job.id /\ job'.step # "idle")
  <2>1. CASE job' = [job EXCEPT !.step = "patch", !.got = body]
    <3>1. job \in Jobs /\ body \in Bodies /\ "patch" \in Steps
      BY <1>1, InHand DEF Steps
    <3> QED
      BY <2>1, <3>1 DEF Jobs
  <2> QED
    BY <1>2, <2>1
<1> QED
  BY <1>1, <1>2, <1>3, <1>4, InHand, TypedStep DEF Typed, TypeOK

LEMMA TypedPatchBody ==
  ASSUME Typed, PatchBody
  PROVE  Typed'
<1>1. job.step # "idle"
  BY DEF PatchBody
<1>2. body' \in Bodies
  BY <1>1, InHand, FixedIs DEF PatchBody
<1> QED
  BY <1>1, <1>2, InHand, TypedStep DEF PatchBody, Typed, TypeOK

LEMMA TypedComplain ==
  ASSUME Typed, Complain
  PROVE  Typed'
<1>1. job.step # "idle" /\ sess' \in {sess, Escalated(sess, "reason")}
  BY DEF Complain
<1>2. sess' \in Sessions
  BY <1>1, InHand, EscalatedIs
<1> QED
  BY <1>1, <1>2, InHand, TypedStep DEF Complain, Quiet, Typed, TypeOK

LEMMA TypedEnterTeardown ==
  ASSUME Typed, NEW i \in Ids, NEW b \in Bodies, EnterTeardown(i, b)
  PROVE  /\ sess' \in Sessions /\ Deferred
         /\ job' \in Jobs /\ job'.id = i /\ job'.step \in {"archive", "ensure"}
<1>1. job' \in Jobs /\ job'.id = i /\ job'.step \in {"archive", "ensure"}
  <2>1. PICK step \in {"archive", "ensure"} : job' = [Idle EXCEPT !.step = step, !.id = i]
    BY DEF EnterTeardown, Begin
  <2>2. job' \in Jobs
    BY <2>1, IdleIs DEF Steps
  <2>3. job'.id = i /\ job'.step = step
    BY <2>1 DEF Idle
  <2> QED
    BY <2>2, <2>3
<1>2. Classified(b) \in {None, "VERIFIED", "ABANDONED"}
  BY DEF Classified, ClassOf, Typed, TypeOK, Sessions
<1>3. sess' \in Sessions
  BY <1>2 DEF EnterTeardown, Typed, TypeOK, Sessions, States, Terminal
<1> QED
  BY <1>1, <1>3 DEF EnterTeardown

LEMMA TypedReread ==
  ASSUME Typed, Reread
  PROVE  Typed'
<1>1. job.step = "reread"
  BY DEF Reread
<1>2. UNCHANGED <<body, open, inbox, batch, tries, ledger, busy, seen>> /\ DrainOnly
  BY DEF Reread, Quiet
<1>3. CASE EnterTeardown(job.id, body) \/ EnterTeardown(job.id, inbox[job.id].now)
  <2>1. inbox[job.id].now \in Bodies
    BY <1>1, InHand DEF Deliveries
  <2> QED
    BY <1>1, <1>2, <1>3, <2>1, InHand, TypedEnterTeardown, TypedStep DEF Typed, TypeOK
<1>4. CASE Hold \/ (Settled(job.id) /\ job' = Idle /\ UNCHANGED sess)
  <2>1. sess' \in Sessions
    BY <1>1, <1>4, InHand, EscalatedIs DEF Hold
  <2> QED
    BY <1>1, <1>2, <1>4, <2>1, InHand, TypedStep DEF Hold, Typed, TypeOK
<1>5. CASE job' = [job EXCEPT !.step = "lower", !.got = body] /\ UNCHANGED sess /\ Deferred
  <2>1. job' \in Jobs /\ job'.id = job.id /\ job'.step # "idle"
    <3>1. job \in Jobs /\ body \in Bodies /\ "lower" \in Steps
      BY <1>1, InHand DEF Steps
    <3> QED
      BY <1>5, <3>1 DEF Jobs
  <2> QED
    BY <1>1, <1>2, <1>5, <2>1, InHand, TypedStep DEF Typed, TypeOK
<1> QED
  BY <1>3, <1>4, <1>5 DEF Reread

LEMMA TypedLower ==
  ASSUME Typed, Lower
  PROVE  Typed'
<1>1. job.step # "idle"
  BY DEF Lower
<1>2. body' \in Bodies
  BY <1>1, InHand, FixedIs DEF Lower, Fixes
<1>3. sess' \in Sessions
  BY <1>1, InHand, EscalatedIs DEF Lower, Hold
<1> QED
  BY <1>1, <1>2, <1>3, InHand, TypedStep DEF Lower, Hold, Typed, TypeOK

LEMMA TypedRetry ==
  ASSUME Typed, job.step # "idle", NEW left, NEW after, RetryOrGiveUp(left, after)
  PROVE  /\ tries' \in [Ids -> 0 .. MaxTries - 1] /\ sess' \in Sessions
         /\ Deferred \/ Settled(job.id)
         /\ job' = Idle \/ (job' \in Jobs /\ job'.id = job.id /\ job'.step # "idle")
<1>1. CASE ~GivesUp(job.id)
  <2>1. tries[job.id] + 1 \in 0 .. MaxTries - 1
    BY <1>1, InHand, BoundsAssumption DEF GivesUp
  <2> QED
    BY <1>1, <2>1 DEF RetryOrGiveUp, Typed, TypeOK
<1>2. CASE GivesUp(job.id)
  <2>1. tries' \in [Ids -> 0 .. MaxTries - 1]
    BY <1>2, BoundsAssumption DEF RetryOrGiveUp, Typed, TypeOK
  <2>2. sess' \in Sessions
    BY <1>2, InHand, EscalatedIs DEF RetryOrGiveUp
  <2>3. CASE job' = [job EXCEPT !.step = "archive"] /\ Deferred
    <3>1. job \in Jobs /\ "archive" \in Steps
      BY InHand DEF Steps
    <3> QED
      BY <2>1, <2>2, <2>3, <3>1 DEF Jobs
  <2> QED
    BY <1>2, <2>1, <2>2, <2>3 DEF RetryOrGiveUp
<1> QED
  BY <1>1, <1>2

LEMMA TypedEnsureSession ==
  ASSUME Typed, EnsureSession
  PROVE  Typed'
<1>1. job.step = "ensure"
  BY DEF EnsureSession
<1>2. UNCHANGED <<body, open, inbox, batch, busy, seen>> /\ DrainOnly /\ ledger' \in {ledger, Roles}
  BY DEF EnsureSession, Quiet
<1>3. CASE RetryOrGiveUp(ledger, "archive")
  BY <1>1, <1>2, <1>3, InHand, TypedRetry, TypedStep DEF Typed, TypeOK
<1>4. CASE /\ sess' = [sess EXCEPT !.state = "TEARDOWN", !.paused = None]
           /\ job' = [job EXCEPT !.step = "developer"] /\ Deferred /\ UNCHANGED tries
  <2>1. job \in Jobs /\ "developer" \in Steps
    BY <1>1, InHand DEF Steps
  <2>2. job' \in Jobs /\ job'.id = job.id /\ job'.step # "idle"
    BY <1>4, <2>1 DEF Jobs
  <2>3. sess' \in Sessions
    BY <1>4 DEF Typed, TypeOK, Sessions, States, Terminal
  <2> QED
    BY <1>1, <1>2, <1>4, <2>2, <2>3, InHand, TypedStep DEF Typed, TypeOK
<1> QED
  BY <1>3, <1>4 DEF EnsureSession

LEMMA TypedTeardownTurn ==
  ASSUME Typed, NEW role \in Roles, TeardownTurn(role)
  PROVE  Typed'
<1>1. job.step # "idle"
  BY DEF TeardownTurn, Roles
<1>2. PICK ok \in BOOLEAN :
        job' = [job EXCEPT !.step = IF role = "developer" THEN "architect" ELSE "tally",
                           !.failed = @ \/ ~ok]
  BY DEF TeardownTurn
<1>3. job' \in Jobs /\ job'.id = job.id /\ job'.step # "idle"
  <2>1. job \in Jobs /\ "architect" \in Steps /\ "tally" \in Steps
    BY <1>1, InHand DEF Steps
  <2> DEFINE next == IF role = "developer" THEN "architect" ELSE "tally"
             failed == job.failed \/ ~ok
  <2>2. next \in Steps /\ next # "idle" /\ failed \in BOOLEAN
    BY <2>1
  <2>3. job' = [job EXCEPT !.step = next, !.failed = failed]
    BY <1>2
  <2> HIDE DEF next, failed
  <2> QED
    BY <2>1, <2>2, <2>3 DEF Jobs
<1>4. ledger' \subseteq Roles
  BY DEF TeardownTurn, Confirmed, Typed, TypeOK
<1> QED
  BY <1>1, <1>3, <1>4, InHand, TypedStep DEF TeardownTurn, Quiet, Deferred, Typed, TypeOK

LEMMA TypedNoTurn ==
  ASSUME Typed, NEW role \in Roles, NoTurn(role)
  PROVE  Typed'
<1>1. job.step # "idle"
  BY DEF NoTurn, Roles
<1>2. busy' \in 0 .. world.busy
  BY DEF NoTurn, Typed, TypeOK, Worlds
<1> QED
  BY <1>1, <1>2, InHand, TypedStep DEF NoTurn, Quiet, Typed, TypeOK

LEMMA TypedTally ==
  ASSUME Typed, Tally
  PROVE  Typed'
<1>1. job.step = "tally"
  BY DEF Tally
<1>2. UNCHANGED <<body, open, inbox, batch, ledger, busy, seen>> /\ DrainOnly
  BY DEF Tally, Quiet
<1>3. CASE RetryOrGiveUp(ledger, "archive")
  BY <1>1, <1>2, <1>3, InHand, TypedRetry, TypedStep DEF Typed, TypeOK
<1>4. CASE job' = [job EXCEPT !.step = "archive"] /\ UNCHANGED <<tries, sess>> /\ Deferred
  <2>1. job \in Jobs /\ "archive" \in Steps
    BY <1>1, InHand DEF Steps
  <2>2. job' \in Jobs /\ job'.id = job.id /\ job'.step # "idle"
    BY <1>4, <2>1 DEF Jobs
  <2> QED
    BY <1>1, <1>2, <1>4, <2>2, InHand, TypedStep DEF Typed, TypeOK
<1> QED
  BY <1>3, <1>4 DEF Tally

LEMMA TypedArchive ==
  ASSUME Typed, Archive
  PROVE  Typed'
<1>1. job.step = "archive"
  BY DEF Archive
<1>2. UNCHANGED <<body, open, inbox, batch, ledger, busy, seen>> /\ DrainOnly
  BY DEF Archive, Quiet
<1>3. CASE RetryOrGiveUp(ledger, "stop")
  BY <1>1, <1>2, <1>3, InHand, TypedRetry, TypedStep DEF Typed, TypeOK
<1>4. CASE /\ sess' = [sess EXCEPT !.state = "CLOSED", !.paused = None]
           /\ tries' = [tries EXCEPT ![job.id] = 0] /\ Settled(job.id) /\ job' = Idle
  <2>1. sess' \in Sessions
    BY <1>4 DEF Typed, TypeOK, Sessions, States, Terminal
  <2>2. tries' \in [Ids -> 0 .. MaxTries - 1]
    <3>1. 0 \in 0 .. MaxTries - 1 /\ tries \in [Ids -> 0 .. MaxTries - 1]
      BY BoundsAssumption DEF Typed, TypeOK
    <3> QED
      BY <1>4, <3>1
  <2> QED
    BY <1>1, <1>2, <1>4, <2>1, <2>2, InHand, TypedStep DEF Typed, TypeOK
<1> QED
  BY <1>3, <1>4 DEF Archive

\* The next delivery of the pass.
LEMMA Picked ==
  ASSUME Typed, NEW i \in batch, batch' = batch \ {i}
  PROVE  /\ i \in DOMAIN inbox /\ i \in Ids /\ inbox[i] \in Deliveries
         /\ batch' \subseteq batch /\ i \notin batch'
         /\ body \in Bodies /\ sess \in Sessions /\ tries \in [Ids -> 0 .. MaxTries - 1]
         /\ ledger \subseteq Roles /\ busy \in 0 .. world.busy /\ seen \in Memory
<1>1. DOMAIN inbox = 1 .. Len(inbox) /\ Len(inbox) \in Nat
  BY DEF Typed, TypeOK
<1>2. MaxDeliveries \in Nat
  BY BoundsAssumption DEF MaxDeliveries
<1> QED
  BY <1>1, <1>2 DEF Typed, TypeOK, Ids

LEMMA TypedEdited ==
  ASSUME Typed, DrainOnly, job = Idle, NEW i \in batch, batch' = batch \ {i}, Edited(i)
  PROVE  Typed'
<1>1. sess' \in Sessions
  BY Picked DEF Edited, Stamped, Sessions
<1>2. job' = Idle \/ (job' \in Jobs /\ job'.id = i /\ job'.step # "idle")
  <2>1. CASE job' = [Idle EXCEPT !.step = "get", !.id = i, !.fix = FixFor(inbox[i])]
    BY <2>1, Picked, FixForIs DEF Idle, Jobs, Steps, Bodies
  <2> QED
    BY <2>1 DEF Edited
<1> QED
  BY <1>1, <1>2, Picked, TypedStep DEF Edited, Quiet

LEMMA TypedClosed ==
  ASSUME Typed, DrainOnly, job = Idle, NEW i \in batch, batch' = batch \ {i}, Closed(i)
  PROVE  Typed'
<1>1. UNCHANGED <<body, open, inbox, tries, ledger, busy, seen>>
  BY DEF Closed, Quiet
<1>2. CASE EnterTeardown(i, inbox[i].now)
  <2>1. inbox[i].now \in Bodies
    BY Picked DEF Deliveries
  <2> QED
    BY <1>1, <1>2, <2>1, Picked, TypedEnterTeardown, TypedStep
<1>3. CASE Begin("reread", i) /\ Deferred /\ UNCHANGED sess
  <2>1. job' \in Jobs /\ job'.id = i /\ job'.step # "idle"
    BY <1>3, Picked DEF Begin, Idle, Jobs, Steps, Bodies
  <2> QED
    BY <1>1, <1>3, <2>1, Picked, TypedStep
<1>4. CASE sess' = [sess EXCEPT !.asked = FALSE] /\ Settled(i) /\ UNCHANGED job
  <2>1. sess' \in Sessions
    BY <1>4, Picked DEF Sessions
  <2> QED
    BY <1>1, <1>4, <2>1, Picked, TypedStep
<1>5. CASE Deferred /\ UNCHANGED <<sess, job>>
  BY <1>1, <1>5, Picked, TypedStep
<1> QED
  BY <1>2, <1>3, <1>4, <1>5 DEF Closed

LEMMA TypedClosedByOther ==
  ASSUME Typed, DrainOnly, job = Idle, NEW i \in batch, batch' = batch \ {i}, ClosedByOther(i)
  PROVE  Typed'
<1>1. /\ job' \in Jobs /\ job'.id = i /\ job'.step # "idle" /\ inbox[i].kind = "closed"
      /\ UNCHANGED <<body, tries, sess, ledger, busy, seen>>
  BY Picked DEF ClosedByOther, Begin, Idle, Jobs, Steps, Bodies
<1>2. CASE inbox' = inbox /\ waiting' = waiting /\ (open => open') /\ open' \in BOOLEAN
  <2>1. job' \in Jobs /\ (job'.step = "idle" <=> job'.id = 0) /\ i # 0
    BY <1>1, Picked DEF Ids
  <2>2. TypeOK'
    BY <1>1, <1>2, <2>1, Picked DEF Typed, TypeOK, DrainOnly
  <2>3. Len(inbox) \in Nat /\ acts \in Nat /\ acts' = acts
    BY DEF Typed, TypeOK, DrainOnly
  <2>4. \/ Len(inbox') + (IF open' THEN 0 ELSE 1) <= 2 * acts'
        \/ Len(inbox') <= acts' /\ \A j \in DOMAIN inbox' : inbox'[j].kind # "closed"
    <3>1. (IF open' THEN 0 ELSE 1) <= (IF open THEN 0 ELSE 1)
      BY <1>2
    <3>2. CASE Len(inbox) + (IF open THEN 0 ELSE 1) <= 2 * acts
      BY <1>2, <2>3, <3>1, <3>2
    <3> QED
      BY <1>2, <2>3, <3>2 DEF Typed
  <2> QED
    BY <1>1, <1>2, <2>2, <2>4, Picked DEF Typed, DrainOnly
<1>3. CASE /\ ~open /\ open' = TRUE
           /\ inbox' = Append(inbox, [kind |-> "reopened", by |-> "gateway",
                                      prev |-> body, now |-> body])
           /\ waiting' = waiting \cup {Len(inbox) + 1}
  <2> DEFINE d == [kind |-> "reopened", by |-> "gateway", prev |-> body, now |-> body]
  <2>1. d \in Deliveries
    BY Picked DEF Deliveries, Kinds
  <2>2. inbox \in Seq(Deliveries) /\ Len(inbox) \in Nat /\ DOMAIN inbox = 1 .. Len(inbox)
          /\ acts \in Nat /\ acts' = acts /\ acts <= MaxActs /\ MaxActs \in Nat
    BY BoundsAssumption DEF Typed, TypeOK, DrainOnly
  <2>3. /\ inbox' \in Seq(Deliveries) /\ Len(inbox') = Len(inbox) + 1
        /\ DOMAIN inbox' = 1 .. Len(inbox) + 1
    BY <1>3, <2>1, <2>2
  <2>4. Len(inbox') + (IF open' THEN 0 ELSE 1) <= 2 * acts'
    BY <1>1, <1>3, <2>2, <2>3, Picked DEF Typed
  <2>5. Len(inbox') <= MaxDeliveries
    BY <1>3, <2>2, <2>3, <2>4 DEF MaxDeliveries
  <2>6. waiting' \subseteq DOMAIN inbox' /\ aged' \subseteq DOMAIN inbox' /\ batch' \subseteq waiting'
    BY <1>3, <2>2, <2>3, Picked DEF Typed, TypeOK, DrainOnly
  <2>7. job' \in Jobs /\ (job'.step = "idle" <=> job'.id = 0) /\ i # 0
    BY <1>1, Picked DEF Ids
  <2>8. TypeOK'
    BY <1>1, <1>3, <2>3, <2>5, <2>6, <2>7, Picked DEF Typed, TypeOK, DrainOnly
  <2>9. job'.id \in DOMAIN inbox' /\ job'.id \notin batch'
    BY <1>1, <2>2, <2>3, Picked
  <2> QED
    BY <2>4, <2>8, <2>9 DEF Typed, DrainOnly
<1>4. CASE open' = TRUE /\ open /\ UNCHANGED <<inbox, waiting>>
  BY <1>2, <1>4
<1>5. CASE UNCHANGED <<open, inbox, waiting>>
  BY <1>2, <1>5 DEF Typed, TypeOK
<1> QED
  BY <1>3, <1>4, <1>5 DEF ClosedByOther

LEMMA TypedReopened ==
  ASSUME Typed, DrainOnly, job = Idle, NEW i \in batch, batch' = batch \ {i},
         Reopened(i) \/ Replied(i)
  PROVE  Typed'
<1>1. sess' \in Sessions /\ seen' \in Memory /\ ledger' \subseteq Roles
  <2>1. CASE Reopened(i)
    <3>1. sess' \in Sessions
      BY <2>1, Picked DEF Reopened, Rearmed, Sessions
    <3> QED
      BY <2>1, <3>1, Picked DEF Reopened
  <2>2. CASE Replied(i)
    <3>1. CASE UNCHANGED <<sess, ledger, seen>>
      BY <3>1, Picked
    <3>2. CASE /\ sess' = [sess EXCEPT !.state = IF sess.resume = None THEN "PLANNING" ELSE sess.resume,
                                       !.paused = None, !.resume = None, !.asked = FALSE]
               /\ ledger' \in {ledger, Roles}
               /\ seen' = [seen EXCEPT !.replied = @ \/ ~open]
      <4>1. sess' \in Sessions
        BY <3>2, Picked DEF Sessions, States, Live, Terminal, None
      <4>2. seen' \in Memory
        BY <3>2, Picked DEF Memory, Typed, TypeOK
      <4> QED
        BY <3>2, <4>1, <4>2, Picked
    <3> QED
      BY <2>2, <3>1, <3>2 DEF Replied
  <2> QED
    BY <2>1, <2>2
<1>2. UNCHANGED <<body, open, inbox, tries, busy, job>> /\ Settled(i)
  BY DEF Reopened, Replied, Quiet
<1> QED
  BY <1>1, <1>2, Picked, TypedStep

LEMMA TypedDrain ==
  ASSUME Typed, Drain
  PROVE  Typed'
<1>1. CASE Pick
  <2>1. PICK i \in batch : /\ batch' = batch \ {i}
                           /\ Edited(i) \/ Closed(i) \/ ClosedByOther(i) \/ Reopened(i) \/ Replied(i)
    BY <1>1 DEF Pick
  <2> QED
    BY <1>1, <2>1, TypedEdited, TypedClosed, TypedClosedByOther, TypedReopened DEF Pick
<1>2. CASE StartPass
  BY <1>2 DEF StartPass, DrainOnly, github, Typed, TypeOK, Idle
<1> QED
  BY <1>1, <1>2, TypedGetBody, TypedPatchBody, TypedComplain, TypedReread, TypedLower,
     TypedEnsureSession, TypedTally, TypedArchive, TypedTeardownTurn, TypedNoTurn DEF Drain

-----------------------------------------------------------------------------
(* The sweep, and a kill.                                                  *)

LEMMA TypedReconcile ==
  ASSUME Typed, Reconcile
  PROVE  Typed'
<1>1. UNCHANGED <<world, body, open, merged, inbox, waiting, aged, batch, job, tries, ledger,
                  acts, busy, crashes>>
  BY DEF Reconcile, SweepList, SweepFetch, SweepApply, SweepEscalate, SweepAdopt, SweepOnly,
         github, queue, counters
<1>2. sess \in Sessions /\ sweep \in Sweeps /\ open \in BOOLEAN /\ seen \in Memory
  BY DEF Typed, TypeOK
<1>3. ASSUME sess' \in Sessions, sweep' \in Sweeps, seen' \in Memory PROVE Typed'
  BY <1>1, <1>3 DEF Typed, TypeOK
<1>4. CASE SweepList
  BY <1>2, <1>3, <1>4 DEF SweepList, Sweeps, Sessions, IsHeld
<1>5. CASE SweepFetch
  BY <1>2, <1>3, <1>5 DEF SweepFetch, Sweeps
<1>6. CASE SweepApply
  <2>1. sweep' \in Sweeps
    BY <1>2, <1>6 DEF SweepApply, Sweeps, Sessions
  <2>2. sess' \in Sessions
    BY <1>2, <1>6 DEF SweepApply, Sessions
  <2> QED
    BY <1>2, <1>3, <1>6, <2>1, <2>2 DEF SweepApply
<1>7. CASE SweepEscalate
  <2>1. [sess EXCEPT !.state = sweep.prev] \in Sessions
    BY <1>2 DEF Sessions, Sweeps
  <2>2. Escalated([sess EXCEPT !.state = sweep.prev], "hold") \in Sessions
    BY <2>1, EscalatedIs
  <2>3. sess' \in Sessions
    BY <1>2, <1>7, <2>2 DEF SweepEscalate, Sessions
  <2>4. sweep' \in Sweeps
    BY <1>2, <1>7 DEF SweepEscalate, Sweeps
  <2> QED
    BY <1>2, <1>3, <1>7, <2>3, <2>4 DEF SweepEscalate
<1>8. CASE SweepAdopt
  <2>1. sweep' \in Sweeps
    BY <1>8 DEF SweepAdopt, Asleep, Sweeps, States, Live, Terminal
  <2>2. sess' \in Sessions
    BY <1>2, <1>8 DEF SweepAdopt, Sessions, States, Live
  <2>3. seen' \in Memory
    BY <1>2, <1>8 DEF SweepAdopt, Memory
  <2> QED
    BY <1>3, <2>1, <2>2, <2>3
<1> QED
  BY <1>4, <1>5, <1>6, <1>7, <1>8 DEF Reconcile

LEMMA TypedCrash ==
  ASSUME Typed, Crash
  PROVE  Typed'
<1>1. 0 \in 0 .. MaxTries - 1
  BY BoundsAssumption
<1>2. job' \in Jobs /\ (job'.step = "idle" <=> job'.id = 0) /\ job'.step = "idle" /\ batch' = {}
  BY DEF Crash, Idle, Jobs, Steps, Bodies
<1>3. sweep' \in Sweeps /\ seen' \in Memory
  BY DEF Crash, Asleep, Sweeps, States, Live, Terminal, Memory, Typed, TypeOK
<1>4. crashes' \in 0 .. world.crashes
  BY DEF Crash, Typed, TypeOK, Worlds
<1>5. tries' \in [Ids -> 0 .. MaxTries - 1]
  BY <1>1 DEF Crash
<1>6. TypeOK'
  BY <1>2, <1>3, <1>4, <1>5 DEF Crash, github, Typed, TypeOK
<1> QED
  BY <1>2, <1>6 DEF Crash, github, Typed

LEMMA TypedNext == Typed /\ [Next]_vars => Typed'
<1> SUFFICES ASSUME Typed, [Next]_vars PROVE Typed'
  OBVIOUS
<1>1. CASE GraceElapses
  BY <1>1 DEF GraceElapses, github, counters, Typed, TypeOK
<1>2. CASE UNCHANGED vars
  BY <1>2 DEF vars, github, queue, counters, Typed, TypeOK
<1> QED
  BY <1>1, <1>2, TypedGitHub, TypedDrain, TypedReconcile, TypedCrash DEF Next

\* Type correctness: no delivery outlives its attempts.
THEOREM TypeCorrect == Spec => []TypeOK
<1>1. Typed => TypeOK
  BY DEF Typed
<1> QED
  BY <1>1, TypedInit, TypedNext, PTL DEF Spec

-----------------------------------------------------------------------------
(* What is recorded, classified and closed.                                *)

\* The deliveries of the owner tell what the owner did.
Told == \A i \in DOMAIN inbox : inbox[i].by = "owner" =>
    /\ (inbox[i].kind = "edited" /\ inbox[i].now = "up") => seen.vouched
    /\ inbox[i].kind = "closed" => seen.closedByOwner

\* A record, and a restore that ticks, go back to the owner.
Vouched ==
    /\ sess.stamp => seen.vouched
    /\ (job.step \in {"get", "patch"} /\ job.fix.to = "up") => seen.vouched
    /\ job.step = "patch" => Fixed(job.fix, job.got) # job.got

\* A close that is read again was proven by nobody, or withdrawn.
Doubted ==
    job.step = "reread" => (Box(inbox[job.id].now) = "up" \/ sess.stamp)

\* So does a job that begins with a close, and a state a sweep read.
Ending == {"reread", "ensure", "developer", "architect", "tally", "archive"}
Owned ==
    /\ job.step \in Ending => seen.closedByOwner
    /\ (sweep.at = "escalating" /\ sweep.prev \in Terminal) => seen.closedByOwner

\* No closed session is resumed, and none is archived over artifacts.
SweptFirst ==
    /\ sess.resume # "CLOSED"
    /\ sweep.at = "escalating" => sweep.prev # "CLOSED"
    /\ job.step = "archive" => ledger = {}

Safe == NeverForged /\ ClosedIsSwept /\ TornDownByOwner
Inv == Told /\ Vouched /\ Doubted /\ Owned /\ SweptFirst /\ Safe

LEMMA InvInit == Init => Inv
<1> SUFFICES ASSUME Init PROVE Inv
  OBVIOUS
<1>1. PICK start \in Starts : sess = start.sess
  BY DEF Init
<1>2. ~sess.stamp /\ sess.class = None /\ {sess.state, sess.resume} \cap Terminal = {}
  BY <1>1, StartsAssumption
<1>3. sess.class # "VERIFIED" /\ sess.state # "CLOSED" /\ sess.resume # "CLOSED"
  BY <1>2 DEF None, Terminal
<1>4. job = Idle /\ sweep = Asleep /\ DOMAIN inbox = {}
  BY DEF Init
<1> QED
  BY <1>2, <1>3, <1>4 DEF Inv, Told, Vouched, Doubted, Owned, Ending, SweptFirst, Safe,
     NeverForged, ClosedIsSwept, TornDownByOwner, Idle, Asleep

\* What the owner did is not forgotten, and the rows keep what they tell.
LEMMA ToldNext ==
  ASSUME Typed, Told, Next
  PROVE  /\ Told'
         /\ seen.vouched => seen'.vouched
         /\ seen.closedByOwner => seen'.closedByOwner
         /\ \A i \in DOMAIN inbox : i \in DOMAIN inbox' /\ inbox'[i] = inbox[i]
<1>1. inbox \in Seq(Deliveries) /\ Len(inbox) \in Nat /\ DOMAIN inbox = 1 .. Len(inbox)
        /\ seen \in Memory
  BY DEF Typed, TypeOK
<1>2. /\ seen.vouched => seen'.vouched
      /\ seen.closedByOwner => seen'.closedByOwner
  <2>1. CASE GitHub
    BY <1>1, <2>1 DEF GitHub, Edit, Close, Reopen, Reply, Memory
  <2>2. CASE Drain
    BY <1>1, <2>2 DEF Drain, StartPass, Pick, Edited, Closed, ClosedByOther, Reopened, Replied,
       GetBody, PatchBody, Complain, Reread, Lower, EnsureSession, Tally, Archive,
       TeardownTurn, NoTurn, Memory
  <2>3. CASE Reconcile \/ Crash \/ GraceElapses
    BY <1>1, <2>3 DEF Reconcile, SweepList, SweepFetch, SweepApply, SweepEscalate, SweepAdopt,
       Crash, GraceElapses, Memory
  <2> QED
    BY <2>1, <2>2, <2>3 DEF Next
<1>3. CASE inbox' = inbox
  BY <1>2, <1>3 DEF Told
<1>4. ASSUME NEW d \in Deliveries, inbox' = Append(inbox, d),
             d.by = "owner" => /\ (d.kind = "edited" /\ d.now = "up") => seen'.vouched
                               /\ d.kind = "closed" => seen'.closedByOwner
      PROVE  Told' /\ \A i \in DOMAIN inbox : i \in DOMAIN inbox' /\ inbox'[i] = inbox[i]
  <2>1. /\ DOMAIN inbox' = 1 .. Len(inbox) + 1 /\ inbox'[Len(inbox) + 1] = d
        /\ \A i \in DOMAIN inbox : inbox'[i] = inbox[i]
    BY <1>1, <1>4
  <2> QED
    BY <1>1, <1>2, <1>4, <2>1 DEF Told
<1>5. CASE GitHub
  <2>1. ASSUME NEW kind \in Kinds, NEW by \in Users, NEW prev \in Bodies, NEW now \in Bodies,
               Report(kind, by, prev, now),
               by = "owner" => /\ (kind = "edited" /\ now = "up") => seen'.vouched
                               /\ kind = "closed" => seen'.closedByOwner
        PROVE  Told' /\ \A i \in DOMAIN inbox : i \in DOMAIN inbox' /\ inbox'[i] = inbox[i]
    <3> DEFINE d == [kind |-> kind, by |-> by, prev |-> prev, now |-> now]
    <3>1. d \in Deliveries /\ d.kind = kind /\ d.by = by /\ d.now = now
      BY DEF Deliveries, Users
    <3>2. inbox' = inbox \/ inbox' = Append(inbox, d)
      BY <2>1 DEF Report, queue
    <3> HIDE DEF d
    <3> QED
      BY <1>2, <1>3, <1>4, <2>1, <3>1, <3>2
  <2>2. body \in Bodies /\ "owner" \in Users
    BY DEF Typed, TypeOK, Users
  <2>3. ASSUME NEW by \in Users, NEW to \in Bodies, Edit(by, to)
        PROVE  Told' /\ \A i \in DOMAIN inbox : i \in DOMAIN inbox' /\ inbox'[i] = inbox[i]
    BY <1>1, <2>1, <2>2, <2>3 DEF Edit, Kinds, Memory
  <2>4. ASSUME NEW by \in Users, Close(by)
        PROVE  Told' /\ \A i \in DOMAIN inbox : i \in DOMAIN inbox' /\ inbox'[i] = inbox[i]
    BY <1>1, <2>1, <2>2, <2>4 DEF Close, Kinds, Memory
  <2>5. CASE Reopen \/ Reply
    BY <2>1, <2>2, <2>5 DEF Reopen, Reply, Kinds
  <2> QED
    BY <1>2, <1>5, <2>3, <2>4, <2>5 DEF GitHub
<1>6. ASSUME NEW i \in batch, ClosedByOther(i)
      PROVE  Told' /\ \A j \in DOMAIN inbox : j \in DOMAIN inbox' /\ inbox'[j] = inbox[j]
  <2> DEFINE d == [kind |-> "reopened", by |-> "gateway", prev |-> body, now |-> body]
  <2>1. d \in Deliveries /\ d.by # "owner"
    BY DEF Deliveries, Kinds, Typed, TypeOK
  <2>2. inbox' = inbox \/ inbox' = Append(inbox, d)
    BY <1>6 DEF ClosedByOther
  <2> HIDE DEF d
  <2> QED
    BY <1>3, <1>4, <2>1, <2>2
<1>7. CASE Drain /\ ~\E i \in batch : ClosedByOther(i)
  <2>1. inbox' = inbox
    BY <1>7 DEF Drain, StartPass, Pick, Edited, Closed, Reopened, Replied, Quiet, queue,
       GetBody, PatchBody, Complain, Reread, Lower, EnsureSession, Tally, Archive,
       TeardownTurn, NoTurn
  <2> QED
    BY <1>2, <1>3, <2>1
<1>8. CASE Reconcile \/ Crash \/ GraceElapses
  <2>1. inbox' = inbox
    BY <1>8 DEF Reconcile, SweepList, SweepFetch, SweepApply, SweepEscalate, SweepAdopt,
       SweepOnly, queue, Crash, GraceElapses
  <2> QED
    BY <1>2, <1>3, <2>1
<1> QED
  BY <1>2, <1>5, <1>6, <1>7, <1>8 DEF Next

\* What neither the session row, nor the job, nor the artifacts are touched by.
LEMMA InvOthers ==
  ASSUME Typed, Inv, Next, UNCHANGED <<sess, ledger>>, job' \in {job, Idle}, sweep' \in {sweep, Asleep}
  PROVE  Inv'
<1>1. job.step = "reread" => job.id \in DOMAIN inbox
  BY DEF Typed
<1> QED
  BY <1>1, ToldNext DEF Inv, Vouched, Doubted, Owned, Ending, SweptFirst, Safe,
     NeverForged, ClosedIsSwept, TornDownByOwner, Idle, Asleep

\* A step of the drain that leaves what is recorded and classified alone.
LEMMA InvStep ==
  ASSUME Typed, Inv, Next, DrainOnly,
         sess' = sess \/ (\E reason \in {"hold", "reason"} : sess' = Escalated(sess, reason)),
         job'.step \notin {"get", "patch", "reread"},
         job'.step \in Ending => seen.closedByOwner,
         job'.step = "archive" => ledger' = {},
         sess.state = "CLOSED" => ledger' = {}
  PROVE  Inv'
<1>1. /\ sess'.stamp = sess.stamp /\ sess'.class = sess.class
      /\ sess'.state \in {sess.state, "PAUSED_HUMAN"}
      /\ sess'.state = "CLOSED" => sess.state = "CLOSED"
      /\ sess'.resume \in {sess.resume, "PLANNING"}
           \/ (sess'.resume = sess.state /\ sess.state # "CLOSED")
  BY EscalatedIs DEF Typed, TypeOK
<1>2. {sess'.state, sess'.resume} \cap Terminal # {} => {sess.state, sess.resume} \cap Terminal # {}
  BY <1>1 DEF Terminal
<1>3. sess'.resume # "CLOSED"
  BY <1>1 DEF Inv, SweptFirst
<1> QED
  BY <1>1, <1>2, <1>3, ToldNext DEF Inv, Vouched, Doubted, Owned, SweptFirst, Safe,
     NeverForged, ClosedIsSwept, TornDownByOwner, DrainOnly

LEMMA InvRetry ==
  ASSUME Typed, Inv, Next, DrainOnly, job.step \in {"ensure", "tally", "archive"},
         ledger' = ledger, NEW after, RetryOrGiveUp(ledger, after)
  PROVE  Inv'
<1>1. sess' = sess \/ (\E reason \in {"hold", "reason"} : sess' = Escalated(sess, reason))
  BY DEF RetryOrGiveUp
<1>2. job' = Idle \/ (job' = [job EXCEPT !.step = "archive"] /\ ledger = {})
  BY DEF RetryOrGiveUp, Swept
<1>3. job'.step = "idle" \/ (job'.step = "archive" /\ ledger = {})
  BY <1>2 DEF Idle, Typed, TypeOK, Jobs
<1> QED
  BY <1>1, <1>3, InvStep DEF Inv, Owned, Ending, Safe, ClosedIsSwept

LEMMA InvEdited ==
  ASSUME Typed, Inv, Next, DrainOnly, NEW i \in batch, batch' = batch \ {i}, job = Idle, Edited(i)
  PROVE  Inv'
<1>1. inbox[i] \in Deliveries /\ i \in DOMAIN inbox /\ sess \in Sessions
  BY Picked
<1>2. UNCHANGED <<ledger, seen>> /\ inbox[i].kind = "edited"
  BY DEF Edited
<1>3. CASE inbox[i].by = "owner"
  <2>1. sess' = [sess EXCEPT !.stamp = Stamped(inbox[i])] /\ job' = Idle
    BY <1>3 DEF Edited
  <2>2. Stamped(inbox[i]) => seen.vouched
    BY <1>1, <1>2, <1>3 DEF Stamped, Box, Deliveries, Bodies, Inv, Told, Vouched
  <2>3. sess'.stamp = Stamped(inbox[i]) /\ sess'.class = sess.class /\ sess'.state = sess.state
          /\ sess'.resume = sess.resume
    BY <1>1, <2>1 DEF Sessions
  <2> QED
    BY <1>2, <2>1, <2>2, <2>3, ToldNext DEF Inv, Vouched, Doubted, Owned, Ending, SweptFirst, Safe,
       NeverForged, ClosedIsSwept, TornDownByOwner, Idle, DrainOnly
<1>4. CASE inbox[i].by # "owner"
  <2>1. UNCHANGED sess
    BY <1>4 DEF Edited
  <2>2. CASE job' = [Idle EXCEPT !.step = "get", !.id = i, !.fix = FixFor(inbox[i])]
    <3>1. job'.step = "get" /\ job'.fix = FixFor(inbox[i])
      BY <2>2 DEF Idle
    <3>2. job'.fix.to = "up" => sess.stamp
      BY <1>1, <3>1, FixForIs
    <3> QED
      BY <1>2, <2>1, <3>1, <3>2, ToldNext DEF Inv, Vouched, Doubted, Owned, Ending, SweptFirst, Safe,
         NeverForged, ClosedIsSwept, TornDownByOwner, DrainOnly
  <2>3. CASE job' = job
    BY <1>2, <2>1, <2>3, InvOthers DEF DrainOnly
  <2> QED
    BY <2>2, <2>3 DEF Edited
<1> QED
  BY <1>3, <1>4

LEMMA InvEnterTeardown ==
  ASSUME Typed, Inv, Next, DrainOnly, ledger' = ledger, seen.closedByOwner,
         NEW i \in Ids, NEW b \in Bodies, EnterTeardown(i, b),
         sess.class # None \/ (Box(b) = "up" => seen.vouched)
  PROVE  Inv'
<1>1. sess \in Sessions
  BY DEF Typed, TypeOK
<1>2. /\ sess'.stamp = sess.stamp /\ sess'.class = Classified(b)
      /\ sess'.state = "TEARDOWN" /\ sess'.resume = sess.resume
  BY <1>1 DEF EnterTeardown, Sessions
<1>3. Classified(b) = "VERIFIED" => seen.vouched
  BY DEF Classified, ClassOf, Inv, Safe, NeverForged
<1>4. job'.step \in {"archive", "ensure"} /\ (job'.step = "archive" => ledger = {})
  BY DEF EnterTeardown, Begin, Idle
<1> QED
  BY <1>2, <1>3, <1>4, ToldNext DEF Inv, Vouched, Doubted, Owned, SweptFirst, Safe,
     NeverForged, ClosedIsSwept, TornDownByOwner, DrainOnly

LEMMA InvClosed ==
  ASSUME Typed, Inv, Next, DrainOnly, NEW i \in batch, batch' = batch \ {i}, job = Idle, Closed(i)
  PROVE  Inv'
<1>1. inbox[i] \in Deliveries /\ i \in DOMAIN inbox /\ i \in Ids /\ sess \in Sessions
  BY Picked
<1>2. UNCHANGED <<ledger, seen, inbox>> /\ inbox[i].kind = "closed" /\ inbox[i].by = "owner"
  BY DEF Closed, MayClose, Quiet
<1>3. seen.closedByOwner
  BY <1>1, <1>2 DEF Inv, Told
<1>4. inbox[i].now \in Bodies
  BY <1>1 DEF Deliveries
<1>5. CASE /\ EnterTeardown(i, inbox[i].now)
           /\ sess.class # None \/ ~(Unproven(inbox[i].now) \/ Withdrawn(inbox[i].now))
  <2>1. sess.class # None \/ (Box(inbox[i].now) = "up" => seen.vouched)
    BY <1>5 DEF Unproven, Inv, Vouched
  <2> QED
    BY <1>1, <1>2, <1>3, <1>4, <1>5, <2>1, InvEnterTeardown
<1>6. CASE /\ Begin("reread", i) /\ UNCHANGED sess
           /\ Unproven(inbox[i].now) \/ Withdrawn(inbox[i].now)
  <2>1. job'.step = "reread" /\ job'.id = i
    BY <1>6 DEF Begin, Idle
  <2>2. Box(inbox[i].now) = "up" \/ sess.stamp
    BY <1>6 DEF Unproven, Withdrawn
  <2> QED
    BY <1>2, <1>3, <1>6, <2>1, <2>2, ToldNext DEF Inv, Vouched, Doubted, Owned, SweptFirst, Safe,
       NeverForged, ClosedIsSwept, TornDownByOwner, DrainOnly
<1>7. CASE sess' = [sess EXCEPT !.asked = FALSE] /\ UNCHANGED job
  <2>1. /\ sess'.stamp = sess.stamp /\ sess'.class = sess.class
        /\ sess'.state = sess.state /\ sess'.resume = sess.resume
    BY <1>1, <1>7 DEF Sessions
  <2> QED
    BY <1>2, <1>7, <2>1, ToldNext DEF Inv, Vouched, Doubted, Owned, Ending, SweptFirst, Safe,
       NeverForged, ClosedIsSwept, TornDownByOwner, DrainOnly, Idle
<1>8. CASE UNCHANGED <<sess, job>>
  BY <1>2, <1>8, InvOthers DEF DrainOnly
<1> QED
  BY <1>5, <1>6, <1>7, <1>8 DEF Closed

LEMMA InvReopened ==
  ASSUME Typed, Inv, Next, DrainOnly, NEW i \in batch, batch' = batch \ {i}, job = Idle,
         Reopened(i) \/ Replied(i)
  PROVE  Inv'
<1>1. sess \in Sessions
  BY Picked
<1>2. CASE Reopened(i)
  <2>1. /\ sess'.stamp = sess.stamp /\ sess'.class = sess.class
        /\ sess'.state = sess.state /\ sess'.resume = sess.resume
    BY <1>1, <1>2 DEF Reopened, Rearmed, Sessions
  <2> QED
    BY <1>2, <2>1, ToldNext DEF Reopened, Inv, Vouched, Doubted, Owned, Ending, SweptFirst, Safe,
       NeverForged, ClosedIsSwept, TornDownByOwner, DrainOnly, Idle
<1>3. CASE Replied(i) /\ UNCHANGED <<sess, ledger>>
  BY <1>3, InvOthers DEF Replied, DrainOnly
<1>4. CASE /\ Replied(i)
           /\ sess' = [sess EXCEPT !.state = IF sess.resume = None THEN "PLANNING" ELSE sess.resume,
                                   !.paused = None, !.resume = None, !.asked = FALSE]
  <2>1. /\ sess'.stamp = sess.stamp /\ sess'.class = sess.class
        /\ sess'.state \in {"PLANNING", sess.resume} /\ sess'.resume = None
    BY <1>1, <1>4 DEF Sessions
  <2>2. sess'.state # "CLOSED" /\ sess'.resume # "CLOSED"
    BY <2>1 DEF Inv, SweptFirst, None
  <2>3. {sess'.state, sess'.resume} \cap Terminal # {} => {sess.state, sess.resume} \cap Terminal # {}
    BY <2>1 DEF Terminal, None
  <2>4. job' = job
    BY <1>4 DEF Replied
  <2> QED
    BY <2>1, <2>2, <2>3, <2>4, ToldNext DEF Inv, Vouched, Doubted, Owned, Ending, SweptFirst, Safe,
       NeverForged, ClosedIsSwept, TornDownByOwner, DrainOnly, Idle
<1> QED
  BY <1>2, <1>3, <1>4 DEF Replied

LEMMA InvGetBody ==
  ASSUME Typed, Inv, Next, GetBody
  PROVE  Inv'
<1>1. UNCHANGED <<ledger, seen>> /\ DrainOnly /\ job.step = "get" /\ job \in Jobs /\ body \in Bodies
  BY DEF GetBody, Typed, TypeOK
<1>2. CASE UNCHANGED sess /\ job' = [job EXCEPT !.step = "patch", !.got = body]
             /\ Fixed(job.fix, body) # body
  <2>1. job'.step = "patch" /\ job'.fix = job.fix /\ job'.got = body
    BY <1>1, <1>2 DEF Jobs
  <2> QED
    BY <1>1, <1>2, <2>1, ToldNext DEF Inv, Vouched, Doubted, Owned, Ending, SweptFirst, Safe,
       NeverForged, ClosedIsSwept, TornDownByOwner, DrainOnly
<1>3. CASE (sess' = sess \/ sess' = Escalated(sess, "reason")) /\ job' = Idle
  BY <1>1, <1>3, InvStep DEF Idle, Ending, Inv, Safe, ClosedIsSwept
<1> QED
  BY <1>2, <1>3 DEF GetBody

LEMMA InvReread ==
  ASSUME Typed, Inv, Next, Reread
  PROVE  Inv'
<1>1. UNCHANGED <<ledger, seen>> /\ DrainOnly /\ job.step = "reread" /\ job \in Jobs
  BY DEF Reread, Typed, TypeOK
<1>2. seen.closedByOwner
  BY <1>1 DEF Inv, Owned, Ending
<1>3. CASE \E b \in {body, inbox[job.id].now} :
             EnterTeardown(job.id, b) /\ Box(inbox[job.id].now) # "up"
  <2>1. body \in Bodies /\ inbox[job.id].now \in Bodies /\ job.id \in Ids
    BY <1>1, InHand DEF Deliveries
  <2>2. seen.vouched
    BY <1>1, <1>3 DEF Inv, Doubted, Vouched
  <2> QED
    BY <1>1, <1>2, <1>3, <2>1, <2>2, InvEnterTeardown
<1>4. CASE (sess' = sess \/ sess' = Escalated(sess, "hold"))
             /\ (job' = Idle \/ job' = [job EXCEPT !.step = "lower", !.got = body])
  <2>1. job'.step \in {"idle", "lower"}
    <3>1. CASE job' = [job EXCEPT !.step = "lower", !.got = body]
      BY <1>1, <3>1 DEF Jobs
    <3>2. CASE job' = Idle
      BY <3>2 DEF Idle
    <3> QED
      BY <1>4, <3>1, <3>2
  <2> QED
    BY <1>1, <1>4, <2>1, InvStep DEF Ending, Inv, Safe, ClosedIsSwept
<1> QED
  BY <1>3, <1>4 DEF Reread, Hold

LEMMA InvTeardown ==
  ASSUME Typed, Inv, Next, EnsureSession \/ Tally \/ Archive
  PROVE  Inv'
<1>1. DrainOnly /\ job.step \in {"ensure", "tally", "archive"} /\ UNCHANGED seen
        /\ job \in Jobs /\ sess \in Sessions
  BY DEF EnsureSession, Tally, Archive, Typed, TypeOK
<1>2. seen.closedByOwner
  BY <1>1 DEF Inv, Owned, Ending
<1>3. CASE ledger' = ledger /\ \E after \in {"archive", "stop"} : RetryOrGiveUp(ledger, after)
  BY <1>1, <1>3, InvRetry
<1>4. CASE UNCHANGED <<ledger, sess>> /\ job' = [job EXCEPT !.step = "archive"] /\ ledger = {}
  <2>1. job'.step = "archive"
    BY <1>1, <1>4 DEF Jobs
  <2> QED
    BY <1>1, <1>2, <1>4, <2>1, InvStep
<1>5. CASE /\ sess' = [sess EXCEPT !.state = "TEARDOWN", !.paused = None]
           /\ job' = [job EXCEPT !.step = "developer"]
  <2>1. job'.step = "developer"
    BY <1>1, <1>5 DEF Jobs
  <2>2. /\ sess'.stamp = sess.stamp /\ sess'.class = sess.class
        /\ sess'.state = "TEARDOWN" /\ sess'.resume = sess.resume
    BY <1>1, <1>5 DEF Sessions
  <2> QED
    BY <1>1, <1>2, <2>1, <2>2, ToldNext DEF Inv, Vouched, Doubted, Owned, SweptFirst, Safe,
       NeverForged, ClosedIsSwept, TornDownByOwner, DrainOnly
<1>6. CASE /\ Archive /\ job' = Idle
           /\ sess' = [sess EXCEPT !.state = "CLOSED", !.paused = None]
  <2>1. ledger' = ledger /\ ledger = {}
    BY <1>6 DEF Archive, Inv, SweptFirst
  <2>2. /\ sess'.stamp = sess.stamp /\ sess'.class = sess.class
        /\ sess'.state = "CLOSED" /\ sess'.resume = sess.resume
    BY <1>1, <1>6 DEF Sessions
  <2> QED
    BY <1>1, <1>2, <1>6, <2>1, <2>2, ToldNext DEF Inv, Vouched, Doubted, Owned, SweptFirst, Safe,
       NeverForged, ClosedIsSwept, TornDownByOwner, DrainOnly, Idle, Ending
<1> QED
  BY <1>3, <1>4, <1>5, <1>6 DEF EnsureSession, Tally, Archive

LEMMA InvTurn ==
  ASSUME Typed, Inv, Next, NEW role \in Roles, TeardownTurn(role) \/ NoTurn(role)
  PROVE  Inv'
<1>1. DrainOnly /\ job.step \in {"developer", "architect"} /\ UNCHANGED sess /\ job \in Jobs
  BY DEF TeardownTurn, NoTurn, Roles, Typed, TypeOK
<1>2. ledger' \subseteq ledger
  BY DEF TeardownTurn, NoTurn, Confirmed
<1>3. job'.step \in {"idle", "architect", "tally"}
  <2> DEFINE next == IF role = "developer" THEN "architect" ELSE "tally"
  <2>1. CASE TeardownTurn(role)
    <3>1. PICK ok \in BOOLEAN : job' = [job EXCEPT !.step = next, !.failed = @ \/ ~ok]
      BY <2>1 DEF TeardownTurn
    <3>2. next \in {"architect", "tally"}
      OBVIOUS
    <3> HIDE DEF next
    <3>3. job'.step = next
      BY <1>1, <3>1 DEF Jobs
    <3> QED
      BY <3>2, <3>3
  <2>2. CASE NoTurn(role)
    BY <2>2 DEF NoTurn, Idle
  <2> QED
    BY <2>1, <2>2
<1>4. seen.closedByOwner
  BY <1>1 DEF Inv, Owned, Ending
<1>5. sess.state = "CLOSED" => ledger' = {}
  BY <1>2 DEF Inv, Safe, ClosedIsSwept
<1> QED
  BY <1>1, <1>3, <1>4, <1>5, InvStep

LEMMA InvDrain ==
  ASSUME Typed, Inv, Next, Drain
  PROVE  Inv'
<1>1. CASE Pick
  <2>1. PICK i \in batch : /\ batch' = batch \ {i}
                           /\ Edited(i) \/ Closed(i) \/ ClosedByOther(i) \/ Reopened(i) \/ Replied(i)
    BY <1>1 DEF Pick
  <2>2. CASE ClosedByOther(i)
    BY <1>1, <2>2, InvStep DEF Pick, ClosedByOther, Begin, Idle, Ending, Inv, Safe, ClosedIsSwept
  <2> QED
    BY <1>1, <2>1, <2>2, InvEdited, InvClosed, InvReopened DEF Pick
<1>2. CASE StartPass
  BY <1>2, InvOthers DEF StartPass, DrainOnly
<1>3. CASE PatchBody \/ Complain \/ Lower
  BY <1>3, InvStep DEF PatchBody, Complain, Lower, Hold, Idle, Ending, Inv, Safe, ClosedIsSwept
<1> QED
  BY <1>1, <1>2, <1>3, InvGetBody, InvReread, InvTeardown, InvTurn DEF Drain

LEMMA InvReconcile ==
  ASSUME Typed, Inv, Next, Reconcile
  PROVE  Inv'
<1>1. UNCHANGED <<job, ledger, inbox>> /\ sess \in Sessions /\ sweep \in Sweeps
        /\ (job.step = "reread" => job.id \in DOMAIN inbox)
  BY DEF Reconcile, SweepList, SweepFetch, SweepApply, SweepEscalate, SweepAdopt, SweepOnly,
     queue, Typed, TypeOK
<1>2. CASE SweepList \/ SweepFetch
  <2>1. UNCHANGED sess /\ sweep'.at # "escalating"
    BY <1>1, <1>2 DEF SweepList, SweepFetch, Sweeps
  <2> QED
    BY <1>1, <2>1, ToldNext DEF Inv, Vouched, Doubted, Owned, Ending, SweptFirst, Safe,
       NeverForged, ClosedIsSwept, TornDownByOwner
<1>3. CASE SweepApply
  <2>1. /\ sess'.stamp = sess.stamp /\ sess'.class = sess.class
        /\ sess'.state = sess.state /\ sess'.resume = sess.resume
    BY <1>1, <1>3 DEF SweepApply, Sessions
  <2>2. sweep'.prev = sess.state /\ (sweep'.at = "escalating" => sess.state # "CLOSED")
    BY <1>1, <1>3 DEF SweepApply, Sweeps
  <2>3. sess.state \in Terminal => seen.closedByOwner
    BY DEF Inv, Safe, TornDownByOwner
  <2> QED
    BY <1>1, <2>1, <2>2, <2>3, ToldNext DEF Inv, Vouched, Doubted, Owned, Ending, SweptFirst, Safe,
       NeverForged, ClosedIsSwept, TornDownByOwner
<1>4. CASE SweepEscalate
  <2> DEFINE read == [sess EXCEPT !.state = sweep.prev]
  <2>1. read \in Sessions /\ read.state = sweep.prev /\ read.stamp = sess.stamp
          /\ read.class = sess.class /\ read.resume = sess.resume
    BY <1>1 DEF Sessions, Sweeps
  <2>2. sweep.at = "escalating" /\ sweep.prev # "CLOSED"
    BY <1>4 DEF SweepEscalate, Inv, SweptFirst
  <2>3. sess' = [Escalated(read, "hold") EXCEPT !.marker = sess.marker] /\ sweep'.at = "adopting"
    BY <1>1, <1>4 DEF SweepEscalate, Sweeps
  <2> HIDE DEF read
  <2>4. Escalated(read, "hold") \in Sessions
    BY <2>1, EscalatedIs
  <2>5. /\ sess'.stamp = Escalated(read, "hold").stamp /\ sess'.class = Escalated(read, "hold").class
        /\ sess'.state = Escalated(read, "hold").state /\ sess'.resume = Escalated(read, "hold").resume
    BY <2>3, <2>4 DEF Sessions
  <2>6. /\ sess'.stamp = sess.stamp /\ sess'.class = sess.class
        /\ sess'.state \in {sweep.prev, "PAUSED_HUMAN"} /\ sess'.state # "CLOSED"
        /\ sess'.resume \in {sess.resume, "PLANNING", sweep.prev}
    BY <2>1, <2>2, <2>5, EscalatedIs
  <2>7. sess'.resume # "CLOSED"
    BY <2>2, <2>6 DEF Inv, SweptFirst
  <2>8. {sess'.state, sess'.resume} \cap Terminal # {} => seen.closedByOwner
    BY <2>2, <2>6 DEF Terminal, Inv, Owned, Safe, TornDownByOwner
  <2> QED
    BY <1>1, <2>3, <2>6, <2>7, <2>8, ToldNext DEF Inv, Vouched, Doubted, Owned, Ending, SweptFirst,
       Safe, NeverForged, ClosedIsSwept, TornDownByOwner
<1>5. CASE SweepAdopt
  <2>1. sweep'.at = "idle"
    BY <1>5 DEF SweepAdopt, Asleep
  <2>2. CASE UNCHANGED sess
    BY <1>1, <2>1, <2>2, ToldNext DEF Inv, Vouched, Doubted, Owned, Ending, SweptFirst, Safe,
       NeverForged, ClosedIsSwept, TornDownByOwner
  <2>3. CASE sess' = [sess EXCEPT !.state = "AWAITING_VERIFICATION"]
    <3>1. /\ sess'.stamp = sess.stamp /\ sess'.class = sess.class
          /\ sess'.state = "AWAITING_VERIFICATION" /\ sess'.resume = sess.resume
      BY <1>1, <2>3 DEF Sessions
    <3>2. {sess'.state, sess'.resume} \cap Terminal # {} => {sess.state, sess.resume} \cap Terminal # {}
      BY <3>1 DEF Terminal
    <3> QED
      BY <1>1, <2>1, <3>1, <3>2, ToldNext DEF Inv, Vouched, Doubted, Owned, Ending, SweptFirst, Safe,
         NeverForged, ClosedIsSwept, TornDownByOwner
  <2> QED
    BY <1>5, <2>2, <2>3 DEF SweepAdopt
<1> QED
  BY <1>2, <1>3, <1>4, <1>5 DEF Reconcile

LEMMA InvNext == Typed /\ Inv /\ [Next]_vars => Inv'
<1> SUFFICES ASSUME Typed, Inv, [Next]_vars PROVE Inv'
  OBVIOUS
<1>1. CASE GitHub /\ Next
  BY <1>1, InvOthers DEF GitHub, Edit, Close, Reopen, Reply, Act
<1>2. CASE (GraceElapses \/ Crash) /\ Next
  BY <1>2, InvOthers DEF GraceElapses, Crash
<1>3. CASE UNCHANGED vars
  BY <1>3 DEF vars, github, queue, counters, Inv, Told, Vouched, Doubted, Owned, Ending, SweptFirst,
     Safe, NeverForged, ClosedIsSwept, TornDownByOwner
<1> QED
  BY <1>1, <1>2, <1>3, InvDrain, InvReconcile DEF Next

LEMMA SpecInv == Spec => [](Typed /\ Inv)
  BY TypedInit, TypedNext, InvInit, InvNext, PTL DEF Spec

\* ADR-17, section 10.3: no session is recorded as verified unless the owner
\* left the box up, in any world and through any faults and kills.
THEOREM NeverForgedHolds == Spec => []NeverForged
<1>1. Inv => NeverForged
  BY DEF Inv, Safe
<1> QED
  BY <1>1, SpecInv, PTL

\* A session is closed only when every artifact of it is seen gone.
THEOREM ClosedIsSweptHolds == Spec => []ClosedIsSwept
<1>1. Inv => ClosedIsSwept
  BY DEF Inv, Safe
<1> QED
  BY <1>1, SpecInv, PTL

\* Only a close by the owner classifies or tears down.
THEOREM TornDownByOwnerHolds == Spec => []TornDownByOwner
<1>1. Inv => TornDownByOwner
  BY DEF Inv, Safe
<1> QED
  BY <1>1, SpecInv, PTL

\* ADR-16: a restore raises the box only if the owner once left it up.
THEOREM OnlyVouchedRaisesHolds == Spec => OnlyVouchedRaises
<1>1. ASSUME Typed, Inv, PatchBody, body # "up", body' = "up"
      PROVE  seen.vouched
  <2>1. job.step = "patch" /\ body' = Fixed(job.fix, job.got)
    BY <1>1 DEF PatchBody
  <2>2. job.fix \in Fixes \cup {NoFix} /\ job.got \in Bodies
    BY <1>1, <2>1, InHand
  <2>3. Fixed(job.fix, job.got) # job.got
    BY <1>1, <2>1 DEF Inv, Vouched
  <2>4. job.fix.to = "up"
    BY <1>1, <2>1, <2>2, <2>3, FixedIs
  <2> QED
    BY <1>1, <2>1, <2>4 DEF Inv, Vouched
<1>2. Typed /\ Inv /\ [Next]_vars => [PatchBody /\ body # "up" /\ body' = "up" => seen.vouched]_vars
  BY <1>1
<1> QED
  BY <1>2, SpecInv, PTL DEF Spec, OnlyVouchedRaises
=============================================================================
