----------------------- MODULE RunnerPromises_proofs ------------------------
(***************************************************************************)
(* What the runner promises the gateway, for any roles, scripts, threads,  *)
(* sessions, processes and faults: that a turn is served as TurnService    *)
(* says, what a teardown's answer is worth, and that no CLI is left        *)
(* running with nobody to find it.                                         *)
(***************************************************************************)
EXTENDS Runner_proofs

(***************************************************************************)
(* The pipes of a process: what is on them belongs to turns of its role,   *)
(* and, unless the process has survived a kill, to the one turn that is    *)
(* waiting for it.                                                         *)
(***************************************************************************)
Reading == {"poll", "read", "kill", "respawn"}
Pending(x) == x.kept = "no" /\ x.fate = "up" /\ x.inbox # <<>>
Talks(x) == {x.inbox[i] : i \in DOMAIN x.inbox} \union {x.out[i].of : i \in DOMAIN x.out}

Heeds(c, pc, x) ==
    /\ pc = "write" /\ x.kept = "no" => x.out = <<>>
    /\ pc \in {"poll", "read"} /\ x.kept = "no" =>
         /\ \A i \in DOMAIN x.out : x.out[i].of = c
         /\ Pending(x) => \A i \in DOMAIN x.out : x.role \notin Correlated /\ x.out[i].kind = "error"

Pipes ==
    /\ \A k \in CliIds : \A p \in Talks(cli[k]) : call[p].kind = "turn" /\ call[p].role = cli[k].role
    /\ \A k \in CliIds : Pending(cli[k]) =>
         \E c \in CallIds : /\ call[c].pc \in Reading /\ sess[call[c].s].cli = k
                            /\ cli[k].inbox = <<c>>
    /\ \A c \in CallIds : call[c].pc \in {"write", "poll", "read"} =>
         Heeds(c, call[c].pc, cli[sess[call[c].s].cli])

LEMMA TalkIs ==
  ASSUME NEW x \in Clis
  PROVE  Talks(x) \subseteq CallIds
<1>1. \A i \in DOMAIN x.inbox : x.inbox[i] \in CallIds
  <2>1. x.inbox \in Seq(CallIds)
    BY DEF Clis
  <2> QED
    BY <2>1, LenProperties, ElementOfSeq
<1>2. \A i \in DOMAIN x.out : x.out[i].of \in CallIds
  <2>1. x.out \in Seq(Frames)
    BY DEF Clis
  <2>2. \A i \in DOMAIN x.out : x.out[i] \in Frames
    BY <2>1, LenProperties, ElementOfSeq
  <2> QED
    BY <2>2 DEF Frames
<1> QED
  BY <1>1, <1>2 DEF Talks

LEMMA PipesStep ==
  ASSUME Shape, Locked, Shape', Pipes, NEW c \in CallIds, NEW new \in Calls, Step(c, new),
         call[c].kind = "turn" => new.kind = "turn" /\ new.role = call[c].role,
         \A s \in SessIds : sess[s].lock \notin {None, c} =>
            /\ sess'[s].cli = sess[s].cli
            /\ sess[s].cli # None => cli'[sess[s].cli] = cli[sess[s].cli],
         \A k \in CliIds : \/ Talks(cli'[k]) = {}
                           \/ /\ cli'[k].role = cli[k].role
                              /\ \A p \in Talks(cli'[k]) :
                                   \/ p \in Talks(cli[k])
                                   \/ p = c /\ call[c].kind = "turn" /\ call[c].role = cli[k].role,
         \A k \in CliIds : Pending(cli'[k]) =>
            \/ Pending(cli[k]) /\ cli'[k].inbox = cli[k].inbox
            \/ new.pc \in Reading /\ sess'[new.s].cli = k /\ cli'[k].inbox = <<c>>,
         call[c].pc \in Reading => \/ /\ new.pc \in Reading
                                      /\ sess'[new.s].cli = sess[call[c].s].cli
                                   \/ ~Pending(cli'[sess[call[c].s].cli]),
         new.pc \in {"write", "poll", "read"} => Heeds(c, new.pc, cli'[sess'[new.s].cli])
  PROVE  Pipes'
<1>1. call'[c] = new /\ \A d \in CallIds \ {c} : call'[d] = call[d]
  BY StepIs DEF Shape
<1>2. ASSUME NEW d \in CallIds \ {c}, call[d].pc \in LockPcs \ Cliless
      PROVE  /\ sess'[call'[d].s].cli = sess[call[d].s].cli /\ call'[d] = call[d]
             /\ cli'[sess[call[d].s].cli] = cli[sess[call[d].s].cli]
  <2>1. sess[call[d].s].lock = d /\ call[d].s \in SessIds /\ sess[call[d].s].cli # None
    BY <1>2, AtLock, AtRole DEF Locked, Cliless
  <2>2. d \notin {None, c}
    BY Bounds
  <2> QED
    BY <1>1, <2>1, <2>2
<1>3. ASSUME NEW k \in CliIds, NEW p \in Talks(cli'[k])
      PROVE  call'[p].kind = "turn" /\ call'[p].role = cli'[k].role
  <2>1. /\ cli'[k].role = cli[k].role
        /\ \/ p \in Talks(cli[k])
           \/ p = c /\ call[c].kind = "turn" /\ call[c].role = cli[k].role
    BY <1>3
  <2>2. cli[k] \in Clis
    BY DEF Shape, Types
  <2>3. p \in CallIds /\ call[p].kind = "turn" /\ call[p].role = cli[k].role
    BY <2>1, <2>2, TalkIs DEF Pipes
  <2> QED
    BY <1>1, <2>1, <2>3
<1>4. ASSUME NEW k \in CliIds, Pending(cli'[k])
      PROVE  \E d \in CallIds : /\ call'[d].pc \in Reading /\ sess'[call'[d].s].cli = k
                                /\ cli'[k].inbox = <<d>>
  <2>1. CASE new.pc \in Reading /\ sess'[new.s].cli = k /\ cli'[k].inbox = <<c>>
    BY <1>1, <2>1
  <2>2. CASE Pending(cli[k]) /\ cli'[k].inbox = cli[k].inbox
    <3>1. PICK d \in CallIds : /\ call[d].pc \in Reading /\ sess[call[d].s].cli = k
                               /\ cli[k].inbox = <<d>>
      BY <2>2 DEF Pipes
    <3>2. CASE d = c
      BY <1>1, <1>4, <2>2, <3>1, <3>2
    <3>3. CASE d # c
      <4>1. call[d].pc \in LockPcs \ Cliless
        BY <3>1 DEF Reading, LockPcs, SessPcs, RolePcs, Cliless
      <4>2. call'[d].pc \in Reading /\ sess'[call'[d].s].cli = k /\ cli'[k].inbox = <<d>>
        BY <1>2, <2>2, <3>1, <3>3, <4>1
      <4> QED
        BY <4>2
    <3> QED
      BY <3>2, <3>3
  <2> QED
    BY <1>4, <2>1, <2>2
<1>5. ASSUME NEW d \in CallIds, call'[d].pc \in {"write", "poll", "read"}
      PROVE  Heeds(d, call'[d].pc, cli'[sess'[call'[d].s].cli])
  <2>1. CASE d = c
    BY <1>1, <1>5, <2>1
  <2>2. CASE d # c
    <3>1. call[d].pc \in LockPcs \ Cliless /\ call'[d] = call[d]
      BY <1>1, <1>5, <2>2 DEF LockPcs, SessPcs, RolePcs, Cliless
    <3>2. Heeds(d, call[d].pc, cli[sess[call[d].s].cli])
      BY <1>5, <3>1 DEF Pipes
    <3> QED
      BY <1>2, <2>2, <3>1, <3>2
  <2> QED
    BY <2>1, <2>2
<1> QED
  BY <1>3, <1>4, <1>5 DEF Pipes, Heeds, Pending, Talks

\* A step that touches no pipe.
LEMMA QuietPipes ==
  ASSUME Shape, Locked, Shape', Pipes, NEW c \in CallIds, NEW new \in Calls, Step(c, new),
         call[c].kind = "turn" => new.kind = "turn" /\ new.role = call[c].role,
         cli' = cli, \A s \in SessIds : sess'[s].cli = sess[s].cli, new.pc # "write",
         new.pc \in {"poll", "read"} => call[c].pc \in {"poll", "read"} /\ new.s = call[c].s,
         call[c].pc \in Reading => \/ new.pc \in Reading /\ new.s = call[c].s
                                   \/ ~Up(Cli(c))
  PROVE  Pipes'
<1>1. call[c].pc \in Reading => call[c].s \in SessIds
  BY AtRole, AtLock DEF Reading, LockPcs, SessPcs, RolePcs
<1>2. ASSUME call[c].pc \in Reading
      PROVE  \/ new.pc \in Reading /\ sess'[new.s].cli = sess[call[c].s].cli
             \/ ~Pending(cli'[sess[call[c].s].cli])
  <2>1. call[c].pc \in LockPcs \ {"spawn", "revive"}
    BY <1>2 DEF Reading, LockPcs, SessPcs, RolePcs
  <2>2. Cli(c) # None /\ Cli(c) = sess[call[c].s].cli
    BY <2>1, HasCli, Bounds
  <2> QED
    BY <1>1, <1>2, <2>2 DEF Up, Pending
<1>3. ASSUME new.pc \in {"write", "poll", "read"} PROVE Heeds(c, new.pc, cli'[sess'[new.s].cli])
  <2>1. new.pc \in {"poll", "read"} /\ call[c].pc \in {"poll", "read"} /\ new.s = call[c].s
    BY <1>3
  <2>2. Heeds(c, call[c].pc, cli[sess[call[c].s].cli]) /\ call[c].s \in SessIds
    BY <1>1, <2>1 DEF Pipes, Reading
  <2> QED
    BY <2>1, <2>2 DEF Heeds
<1>4. \A k \in CliIds : Pending(cli'[k]) => Pending(cli[k]) /\ cli'[k].inbox = cli[k].inbox
  OBVIOUS
<1>5. \A k \in CliIds : cli'[k].role = cli[k].role /\ \A p \in Talks(cli'[k]) : p \in Talks(cli[k])
  OBVIOUS
<1>6. \A s \in SessIds : sess[s].lock \notin {None, c} =>
            /\ sess'[s].cli = sess[s].cli
            /\ sess[s].cli # None => cli'[sess[s].cli] = cli[sess[s].cli]
  OBVIOUS
<1> QED
  BY <1>2, <1>3, <1>4, <1>5, <1>6, PipesStep

LEMMA GoesPipes ==
  ASSUME Shape, Locked, Shape', Pipes, NEW c \in CallIds, NEW pc \in Pcs, Go(c, pc), cli' = cli,
         \A s \in SessIds : sess'[s].cli = sess[s].cli, pc # "write",
         pc \in {"poll", "read"} => call[c].pc \in {"poll", "read"},
         call[c].pc \in Reading => pc \in Reading
  PROVE  Pipes'
<1>1. PICK new \in Calls :
        /\ Step(c, new) /\ new.pc = pc /\ new.kind = call[c].kind /\ new.role = call[c].role
        /\ new.s = call[c].s
  BY GoIs DEF Shape
<1> QED
  BY <1>1, QuietPipes

LEMMA EndsPipes ==
  ASSUME Shape, Locked, Shape', Pipes, NEW c \in CallIds, NEW how \in Told, Step(c, Ends(c, how)),
         cli' = cli, \A s \in SessIds : sess'[s].cli = sess[s].cli, call[c].pc \notin Reading
  PROVE  Pipes'
<1>1. PICK new : new = Ends(c, how)
  OBVIOUS
<1>2. /\ new \in Calls /\ new.pc = "ended" /\ new.kind = call[c].kind /\ new.role = call[c].role
      /\ Step(c, new)
  BY <1>1, EndsIs DEF Shape
<1> QED
  BY <1>2, QuietPipes

LEMMA NextRolePipes ==
  ASSUME Shape, Locked, Shape', Pipes, NEW c \in CallIds, Step(c, NextRole(c)),
         call[c].pc \in RolePcs, call[c].kind # "turn",
         cli' = cli, \A s \in SessIds : sess'[s].cli = sess[s].cli
  PROVE  Pipes'
<1>1. PICK new : new = NextRole(c)
  OBVIOUS
<1>2. new \in Calls /\ new.pc \in {"lookup", "ended"} /\ Step(c, new)
  BY <1>1, NextRoleFits
<1>3. call[c].pc \notin Reading
  BY AtLock DEF Reading, LockPcs, SessPcs, RolePcs
<1> QED
  BY <1>2, <1>3, QuietPipes

\* A thread that gives up holds no process that answers.
LEMMA GivesUpPipes ==
  ASSUME Shape, Locked, Shape', Pipes, NEW c \in CallIds, Step(c, GivesUp(c)),
         call[c].pc \in RolePcs, call[c].pc \notin Reading \/ ~Up(Cli(c)),
         cli' = cli, \A s \in SessIds : sess'[s].cli = sess[s].cli
  PROVE  Pipes'
<1>1. CASE call[c].kind # "turn"
  <2>1. Step(c, NextRole(c))
    BY <1>1 DEF GivesUp
  <2> QED
    BY <1>1, <2>1, NextRolePipes
<1>2. CASE call[c].kind = "turn"
  <2>1. PICK new : new = [call[c] EXCEPT !.pc = "sample", !.answer = "failed"]
    OBVIOUS
  <2>2. /\ new \in Calls /\ new.pc = "sample" /\ new.kind = call[c].kind
        /\ new.role = call[c].role /\ Step(c, new)
    BY <1>2, <2>1, AtRole DEF GivesUp, Calls, Pcs, Told
  <2>3. call[c].pc \in Reading => (new.pc \in Reading /\ new.s = call[c].s) \/ ~Up(Cli(c))
    OBVIOUS
  <2> QED
    BY <2>2, <2>3, QuietPipes
<1> QED
  BY <1>1, <1>2

LEMMA ThreadPipes ==
  ASSUME Shape, Locked, Shape', Pipes, NEW c \in CallIds,
         \/ Checks(c) \/ TakesTurn(c) \/ Ensures(c) \/ EntersTurn(c) \/ Polls(c) \/ ReadsEnd(c)
         \/ Expires(c) \/ Preflights(c) \/ TearsDown(c) \/ Pings(c) \/ Reports(c) \/ Clears(c)
  PROVE  Pipes'
<1> USE DEF Reading, RolePcs, Pcs, Told
<1>0. call[c] \in Calls /\ Fits(call[c]) /\ sess \in [SessIds -> Sessions]
  BY DEF Shape, Types
<1>1. CASE Checks(c)
  <2>1. call[c].pc = "check" /\ UNCHANGED <<cli, sess>>
    BY <1>1 DEF Checks, At
  <2> QED
    BY <1>1, <2>1, GoesPipes, EndsPipes DEF Checks
<1>2. CASE TakesTurn(c)
  <2>1. call[c].pc = "queue" /\ UNCHANGED <<cli, sess>> /\ Go(c, "lookup")
    BY <1>2 DEF TakesTurn, At
  <2> QED
    BY <2>1, GoesPipes
<1>3. CASE Ensures(c) \/ EntersTurn(c)
  <2>1. call[c].pc \in {"ensure", "enter"} /\ cli' = cli
    BY <1>3 DEF Ensures, EntersTurn, At
  <2>2. sess' = sess \/ sess' = [sess EXCEPT ![call[c].s].lock = c]
    BY <1>3 DEF Ensures, EntersTurn
  <2>3. \A s \in SessIds : sess'[s].cli = sess[s].cli
    BY <1>0, <2>2 DEF Sessions
  <2>4. \/ Go(c, "enter") \/ Go(c, "spawn") \/ Go(c, "drain") \/ Go(c, "revive")
        \/ call[c].kind # "turn" /\ Step(c, NextRole(c))
    BY <1>3 DEF Ensures, EntersTurn
  <2> QED
    BY <2>1, <2>3, <2>4, GoesPipes, NextRolePipes
<1>4. CASE Polls(c)
  <2>1. call[c].pc = "poll" /\ cli' = cli
    BY <1>4 DEF Polls, At
  <2>2. CASE Go(c, "read") /\ sess' = sess
    BY <2>1, <2>2, GoesPipes
  <2>3. CASE ~Up(Cli(c)) /\ Leaves(c, GivesUp(c))
    <3>1. Step(c, GivesUp(c)) /\ sess' = [sess EXCEPT ![call[c].s].lock = None]
      BY <2>3 DEF Leaves
    <3>2. \A s \in SessIds : sess'[s].cli = sess[s].cli
      BY <1>0, <3>1 DEF Sessions
    <3> QED
      BY <2>1, <2>3, <3>1, <3>2, GivesUpPipes
  <2> QED
    BY <1>4, <2>2, <2>3 DEF Polls
<1>5. CASE ReadsEnd(c) \/ Expires(c)
  <2>1. call[c].pc \in {"poll", "read"} /\ UNCHANGED <<cli, sess>>
    BY <1>5 DEF ReadsEnd, Expires, At
  <2>2. Go(c, "poll") \/ Go(c, "kill")
    BY <1>5 DEF ReadsEnd, Expires
  <2> QED
    BY <2>1, <2>2, GoesPipes
<1>6. CASE Preflights(c)
  <2>1. call[c].pc = "preflight" /\ UNCHANGED <<cli, sess>>
    BY <1>6 DEF Preflights, At
  <2>2. Go(c, "lookup") \/ Step(c, Ends(c, "refused"))
    BY <1>6 DEF Preflights
  <2> QED
    BY <2>1, <2>2, GoesPipes, EndsPipes
<1>7. CASE TearsDown(c) \/ Pings(c) \/ Reports(c)
  <2>1. call[c].pc \in {"close", "ping", "sample"} /\ UNCHANGED <<cli, sess>>
    BY <1>7 DEF TearsDown, Pings, Reports, At
  <2>2. \E how \in Told : Step(c, Ends(c, how))
    BY <1>0, <1>7 DEF TearsDown, Pings, Reports, Calls
  <2> QED
    BY <2>1, <2>2, EndsPipes
<1>8. CASE Clears(c)
  <2>1. call[c].pc = "shutting" /\ UNCHANGED <<cli, sess>> /\ Go(c, "close")
    BY <1>8 DEF Clears, At
  <2> QED
    BY <2>1, GoesPipes
<1> QED
  BY <1>1, <1>2, <1>3, <1>4, <1>5, <1>6, <1>7, <1>8

LEMMA ShutsPipes ==
  ASSUME Shape, Locked, Shape', Pipes, NEW c \in CallIds, Shuts(c) \/ ReapsOrphans(c)
  PROVE  Pipes'
<1>1. CASE Shuts(c)
  <2>1. PICK new \in Calls : Step(c, new) /\ new.pc = "shutting" /\ new.kind = "teardown"
    BY <1>1, ShutsIs
  <2>2. /\ call[c].pc = "shut" /\ call[c].kind = "teardown" /\ UNCHANGED <<cli, sess>>
    BY <1>1, ShutsIs DEF Shuts
  <2> QED
    BY <2>1, <2>2, QuietPipes DEF Reading
<1>2. CASE ReapsOrphans(c)
  <2>1. call[c].pc = "reap" /\ cli' = cli /\ sess' = [sess EXCEPT ![call[c].s].lock = None]
    BY <1>2 DEF ReapsOrphans, Leaves, At
  <2>2. sess \in [SessIds -> Sessions] /\ call[c] \in Calls
    BY DEF Shape, Types
  <2>3. \A s \in SessIds : sess'[s].cli = sess[s].cli
    BY <2>1, <2>2 DEF Sessions
  <2>4. PICK new : new = [call[c] EXCEPT !.pc = "sample"]
    OBVIOUS
  <2>5. /\ new \in Calls /\ new.pc = "sample" /\ new.kind = call[c].kind
        /\ new.role = call[c].role /\ Step(c, new)
    BY <1>2, <2>2, <2>4 DEF Calls, Pcs, ReapsOrphans, Leaves
  <2> QED
    BY <2>1, <2>3, <2>5, QuietPipes DEF Reading
<1> QED
  BY <1>1, <1>2

LEMMA LooksUpPipes ==
  ASSUME Shape, Locked, Shape', Pipes, NEW c \in CallIds, LooksUp(c)
  PROVE  Pipes'
<1> DEFINE s == registry[call[c].role]
<1>1. call[c].pc = "lookup" /\ call[c].pc \in RolePcs /\ cli' = cli
  BY DEF LooksUp, At, RolePcs
<1>2. call[c] \in Calls /\ s \in SessIds \union {None} /\ sess \in [SessIds -> Sessions]
  BY <1>1, AtRole DEF Shape, Types
<1>3. CASE /\ Alive(s) /\ Step(c, [call[c] EXCEPT !.s = s, !.pc = "ensure"]) /\ sess' = sess
  <2>1. PICK new : new = [call[c] EXCEPT !.s = s, !.pc = "ensure"]
    OBVIOUS
  <2>2. /\ new \in Calls /\ new.pc = "ensure" /\ new.kind = call[c].kind
        /\ new.role = call[c].role /\ Step(c, new)
    BY <1>2, <1>3, <2>1 DEF Calls, Pcs
  <2> QED
    BY <1>1, <1>3, <2>2, QuietPipes DEF Reading
<1>4. CASE Go(c, "evict") /\ sess' = sess
  BY <1>1, <1>4, GoesPipes DEF Reading, Pcs
<1>5. CASE Registers(c) /\ sess' = [sess EXCEPT ![NewSess].role = call[c].role]
  <2>1. \A t \in SessIds : sess'[t].cli = sess[t].cli
    BY <1>2, <1>5 DEF Sessions
  <2>2. PICK new \in Calls : /\ Step(c, new) /\ new.pc = "ensure" /\ new.kind = call[c].kind
                             /\ new.role = call[c].role
    BY <1>1, <1>5, RegistersIs
  <2> QED
    BY <1>1, <2>1, <2>2, QuietPipes DEF Reading
<1> QED
  BY <1>3, <1>4, <1>5 DEF LooksUp

LEMMA KillPipes ==
  ASSUME Shape, Locked, Shape', Pipes, NEW c \in CallIds, NEW new \in Calls, Step(c, new),
         call[c].kind = "turn" => new.kind = "turn" /\ new.role = call[c].role,
         NEW s \in SessIds, sess[s].lock \in {None, c}, NEW o \in Kills(c, s),
         NEW mark \in Marks \ {"no"}, cli' = Dead(s, o, mark),
         \A t \in SessIds : t # s => sess'[t].cli = sess[t].cli,
         new.pc \notin {"write", "poll", "read"}, call[c].pc \in Reading => call[c].s = s
  PROVE  Pipes'
<1>1. /\ \A k \in CliIds : k # sess[s].cli => cli'[k] = cli[k]
      /\ sess[s].cli # None =>
           LET k == sess[s].cli
           IN  /\ k \in CliIds /\ cli'[k].role = cli[k].role
               /\ cli'[k].fate = o.fate
               /\ cli'[k].kept = (IF o.fate = "up" THEN mark ELSE cli[k].kept)
               /\ cli'[k].inbox = (IF o.fate = "up" THEN cli[k].inbox ELSE <<>>)
               /\ cli'[k].out = (IF o.forget THEN <<>> ELSE cli[k].out)
  BY DeadIs DEF Shape
<1>2. sess[s].cli # None => ~Pending(cli'[sess[s].cli])
  BY <1>1 DEF Pending
<1>3. ASSUME NEW k \in CliIds
      PROVE  /\ cli'[k].role = cli[k].role
             /\ \A p \in Talks(cli'[k]) : p \in Talks(cli[k])
  <2>1. CASE k # sess[s].cli
    BY <1>1, <2>1
  <2>2. CASE k = sess[s].cli
    <3>1. k # None
      BY Bounds
    <3>2. /\ cli'[k].inbox \in {cli[k].inbox, <<>>} /\ cli'[k].out \in {cli[k].out, <<>>}
          /\ cli'[k].role = cli[k].role
      BY <1>1, <2>2, <3>1
    <3> QED
      BY <3>2 DEF Talks
  <2> QED
    BY <2>1, <2>2
<1>4. ASSUME NEW k \in CliIds, Pending(cli'[k])
      PROVE  Pending(cli[k]) /\ cli'[k].inbox = cli[k].inbox
  <2>1. k # sess[s].cli
    BY <1>2, <1>4, Bounds
  <2> QED
    BY <1>1, <1>4, <2>1
<1>5. ASSUME NEW t \in SessIds, sess[t].lock \notin {None, c}
      PROVE  /\ sess'[t].cli = sess[t].cli
             /\ sess[t].cli # None => cli'[sess[t].cli] = cli[sess[t].cli]
  <2>1. t # s
    BY <1>5
  <2>2. sess[t].cli # None => sess[t].cli # sess[s].cli /\ sess[t].cli \in CliIds
    BY <2>1 DEF Shape, Owned, Born
  <2> QED
    BY <1>1, <2>1, <2>2
<1>6. call[c].pc \in Reading => ~Pending(cli'[sess[call[c].s].cli])
  <2>1. call[c].pc \in Reading => sess[s].cli # None
    <3>1. Reading \subseteq LockPcs \ {"spawn", "revive"}
      BY DEF Reading, LockPcs, SessPcs, RolePcs
    <3> QED
      BY <3>1 DEF Locked
  <2> QED
    BY <1>2, <2>1
<1> QED
  BY <1>3, <1>4, <1>5, <1>6, PipesStep

LEMMA KillsLatePipes ==
  ASSUME Shape, Locked, Shape', Pipes, NEW c \in CallIds, KillsLate(c)
  PROVE  Pipes'
<1>1. PICK s : s = call[c].s
  OBVIOUS
<1>2. /\ call[c].pc = "kill" /\ s \in SessIds /\ call[c].kind = "turn" /\ call[c].pc \in LockPcs
      /\ "here" \in Marks \ {"no"}
  BY <1>1, KillsLateIs DEF Marks
<1>3. PICK o \in Kills(c, s), new \in Calls :
        /\ cli' = Dead(s, o, "here")
        /\ \A t \in SessIds : t # s => sess'[t] = sess[t]
        /\ Step(c, new) /\ new.kind = "turn" /\ new.role = call[c].role
        /\ new.pc \in {"ended", "sample"}
  BY <1>1, KillsLateIs
<1>4. sess[s].lock = c
  BY <1>1, <1>2 DEF Locked
<1> QED
  BY <1>1, <1>2, <1>3, <1>4, KillPipes

LEMMA ShutsOnePipes ==
  ASSUME Shape, Locked, Shape', Pipes, NEW c \in CallIds, NEW r \in Roles, ShutsOne(c, r)
  PROVE  Pipes'
<1>1. PICK s : s = registry[r]
  OBVIOUS
<1>2. /\ call[c].pc = "shutting" /\ s \in SessIds /\ call[c].kind = "teardown"
      /\ sess[s].lock = None /\ "torn" \in Marks \ {"no"}
  BY <1>1, ShutsOneIs DEF Marks
<1>3. PICK o \in Kills(c, s), new \in Calls :
        /\ cli' = Dead(s, o, "torn") /\ Counted(o) /\ sess' \in [SessIds -> Sessions]
        /\ sess'[s] = [role |-> r, lock |-> None, cli |-> Forgotten(s, o)]
        /\ \A t \in SessIds : t # s => sess'[t] = sess[t]
        /\ Step(c, new) /\ Fits(new) /\ HasSession(new)' /\ new.kind = "teardown"
        /\ (new.pc = "ended" /\ regLock' = None) \/ (new.pc = "shutting" /\ regLock' = regLock)
  BY <1>1, ShutsOneIs
<1>4. call[c].pc \notin Reading
  BY <1>2 DEF Reading
<1> QED
  BY <1>2, <1>3, <1>4, KillPipes

LEMMA EvictsPipes ==
  ASSUME Shape, Locked, Shape', Pipes, NEW c \in CallIds, Evicts(c)
  PROVE  Pipes'
<1>0. PICK s : s = registry[call[c].role]
  OBVIOUS
<1>1. /\ call[c].pc = "evict" /\ call[c].pc \in RolePcs /\ s \in SessIds /\ s \in Made
      /\ sess[s].lock = None /\ "here" \in Marks \ {"no"} /\ call[c] \in Calls
  BY <1>0, EvictsIs, AtRole DEF Evicts, Marks
<1>2. PICK o \in Kills(c, s) :
        /\ cli' = Dead(s, o, "here")
        /\ IF o.told = "raised"
           THEN /\ sess' = sess
                /\ IF call[c].kind = "turn"
                   THEN Step(c, Ends(c, "error")) /\ turnLock' = [turnLock EXCEPT ![call[c].role] = None]
                   ELSE Step(c, NextRole(c)) /\ UNCHANGED turnLock
           ELSE /\ Registers(c) /\ UNCHANGED turnLock
                /\ sess' = [sess EXCEPT ![s].cli = Forgotten(s, o), ![NewSess].role = call[c].role]
  BY <1>0 DEF Evicts
<1>3. PICK new \in Calls :
        /\ Step(c, new) /\ new.pc \in {"ended", "lookup", "ensure"}
        /\ call[c].kind = "turn" => new.kind = "turn" /\ new.role = call[c].role
  <2>1. CASE o.told = "raised" /\ call[c].kind = "turn"
    <3>1. Step(c, Ends(c, "error")) /\ "error" \in Told
      BY <1>2, <2>1 DEF Told
    <3>2. PICK new : new = Ends(c, "error")
      OBVIOUS
    <3>3. /\ new \in Calls /\ new.pc = "ended" /\ new.kind = call[c].kind
          /\ new.role = call[c].role
      BY <3>1, <3>2, EndsIs DEF Shape
    <3> QED
      BY <3>1, <3>2, <3>3
  <2>2. CASE o.told = "raised" /\ call[c].kind # "turn"
    <3>1. PICK new : new = NextRole(c)
      OBVIOUS
    <3>2. new \in Calls /\ new.pc \in {"lookup", "ended"}
      BY <1>1, <3>1, NextRoleFits
    <3> QED
      BY <1>2, <2>2, <3>1, <3>2
  <2>3. CASE o.told # "raised"
    BY <1>1, <1>2, <2>3, RegistersIs
  <2> QED
    BY <2>1, <2>2, <2>3
<1>4. \A t \in SessIds : t # s => sess'[t].cli = sess[t].cli
  <2>1. sess \in [SessIds -> Sessions]
    BY DEF Shape, Types
  <2> QED
    BY <1>1, <1>2, <2>1 DEF Sessions
<1>5. call[c].pc \notin Reading
  BY <1>1 DEF Reading
<1> QED
  BY <1>1, <1>2, <1>3, <1>4, <1>5, KillPipes

\* A process that has just been started has said nothing.
LEMMA SpawnsPipes ==
  ASSUME Shape, Locked, Shape', Pipes, NEW c \in CallIds, SpawnsCli(c) \/ Replaces(c)
  PROVE  Pipes'
<1>0. PICK s : s = call[c].s
  OBVIOUS
<1>1. /\ call[c].pc \in {"spawn", "revive", "respawn"} /\ s \in SessIds /\ sess[s].lock = c
      /\ NewCli \in CliIds /\ NewCli \notin Born /\ call[c] \in Calls
      /\ call[c].pc \in RolePcs
  <2>1. /\ call[c].pc \in {"spawn", "revive", "respawn"} /\ s \in SessIds
        /\ NewCli \in CliIds /\ NewCli \notin Born /\ call[c].pc \in LockPcs
    BY <1>0, SpawnsCliIs, ReplacesIs
  <2> QED
    BY <1>0, <2>1, AtRole, AtLock DEF Locked
<1>2. \E new \in Calls :
        /\ Step(c, new) /\ new.pc \notin {"write", "poll", "read"}
        /\ call[c].kind = "turn" => new.kind = "turn" /\ new.role = call[c].role
  <2>1. CASE Replaces(c)
    <3>1. PICK new \in Calls : Step(c, new) /\ new.pc = "reap" /\ new = [call[c] EXCEPT !.pc = "reap"]
      BY <2>1, ReplacesIs
    <3>2. new.kind = call[c].kind /\ new.role = call[c].role
      BY <1>1, <3>1 DEF Calls
    <3> QED
      BY <3>1, <3>2
  <2>2. CASE SpawnsCli(c)
    <3>1. PICK new \in Calls :
            /\ Step(c, new) /\ new.pc \in {"lookup", "sample", "ended", "drain", "enter"}
            /\ \/ new = GivesUp(c) \/ new = [call[c] EXCEPT !.pc = "drain"]
               \/ new = [call[c] EXCEPT !.pc = "enter"]
               \/ call[c].kind # "turn" /\ new = NextRole(c)
      BY <2>2, SpawnsCliIs
    <3>2. call[c].kind = "turn" => new.kind = "turn" /\ new.role = call[c].role
      BY <1>1, <3>1 DEF GivesUp, Calls
    <3> QED
      BY <3>1, <3>2
  <2> QED
    BY <2>1, <2>2
<1>3. PICK new \in Calls :
        /\ Step(c, new) /\ new.pc \notin {"write", "poll", "read"}
        /\ call[c].kind = "turn" => new.kind = "turn" /\ new.role = call[c].role
  BY <1>2
<1>4. CASE \E o \in Kills(c, s) : cli' = Dead(s, o, "here") /\ sess' = sess
  <2>1. call[c].pc \in Reading => call[c].s = s
    BY <1>0
  <2>2. "here" \in Marks \ {"no"}
    BY DEF Marks
  <2> QED
    BY <1>1, <1>3, <1>4, <2>1, <2>2, KillPipes
<1>5. ASSUME NEW child \in Clis, NEW d \in [CliIds -> Clis],
             child.inbox = <<>>, child.out = <<>>, cli' = [d EXCEPT ![NewCli] = child],
             \A t \in SessIds : t # s => sess'[t].cli = sess[t].cli,
             \/ d = cli /\ call[c].pc # "respawn"
             \/ \E o \in Kills(c, s) : d = Dead(s, o, "replaced")
      PROVE  Pipes'
  <2>1. /\ \A k \in CliIds : /\ k # sess[s].cli => d[k] = cli[k]
                             /\ d[k].role = cli[k].role
                             /\ d[k].inbox \in {cli[k].inbox, <<>>} /\ d[k].out \in {cli[k].out, <<>>}
                             /\ Pending(d[k]) => Pending(cli[k]) /\ d[k].inbox = cli[k].inbox
        /\ call[c].pc = "respawn" => sess[s].cli # None /\ ~Pending(d[sess[s].cli])
    <3>1. CASE d = cli /\ call[c].pc # "respawn"
      BY <3>1
    <3>2. ASSUME NEW o \in Kills(c, s), d = Dead(s, o, "replaced")
          PROVE  /\ \A k \in CliIds : /\ k # sess[s].cli => d[k] = cli[k]
                                      /\ d[k].role = cli[k].role
                                      /\ d[k].inbox \in {cli[k].inbox, <<>>}
                                      /\ d[k].out \in {cli[k].out, <<>>}
                                      /\ Pending(d[k]) => Pending(cli[k]) /\ d[k].inbox = cli[k].inbox
                 /\ sess[s].cli # None => ~Pending(d[sess[s].cli])
      <4>1. "replaced" \in Marks
        BY DEF Marks
      <4>2. /\ \A k \in CliIds : k # sess[s].cli => d[k] = cli[k]
            /\ sess[s].cli # None =>
                 LET k == sess[s].cli
                 IN  /\ d[k].role = cli[k].role
                     /\ d[k].fate = o.fate
                     /\ d[k].kept = (IF o.fate = "up" THEN "replaced" ELSE cli[k].kept)
                     /\ d[k].inbox = (IF o.fate = "up" THEN cli[k].inbox ELSE <<>>)
                     /\ d[k].out = (IF o.forget THEN <<>> ELSE cli[k].out)
        BY <1>1, <3>2, <4>1, DeadIs DEF Shape
      <4>3. sess[s].cli # None => ~Pending(d[sess[s].cli])
        BY <4>2 DEF Pending
      <4>4. None \notin CliIds
        BY Bounds
      <4>5. ASSUME NEW k \in CliIds
            PROVE  /\ k # sess[s].cli => d[k] = cli[k]
                   /\ d[k].role = cli[k].role
                   /\ d[k].inbox \in {cli[k].inbox, <<>>} /\ d[k].out \in {cli[k].out, <<>>}
                   /\ Pending(d[k]) => Pending(cli[k]) /\ d[k].inbox = cli[k].inbox
        BY <4>2, <4>3, <4>4
      <4> QED
        BY <4>3, <4>5
    <3>3. call[c].pc = "respawn" => sess[s].cli # None
      BY <1>0 DEF Locked, LockPcs, SessPcs, RolePcs
    <3> QED
      BY <1>5, <3>1, <3>2, <3>3
  <2>2. /\ cli'[NewCli] = child /\ Talks(child) = {} /\ ~Pending(child)
        /\ \A k \in CliIds : k # NewCli => cli'[k] = d[k]
    BY <1>1, <1>5 DEF Talks, Pending
  <2>3. ASSUME NEW k \in CliIds
        PROVE  \/ Talks(cli'[k]) = {}
               \/ cli'[k].role = cli[k].role /\ \A p \in Talks(cli'[k]) : p \in Talks(cli[k])
    <3>1. CASE k = NewCli
      BY <2>2, <3>1
    <3>2. CASE k # NewCli
      <4>1. /\ cli'[k].role = cli[k].role
            /\ cli'[k].inbox \in {cli[k].inbox, <<>>} /\ cli'[k].out \in {cli[k].out, <<>>}
        BY <2>1, <2>2, <3>2
      <4> QED
        BY <4>1 DEF Talks
    <3> QED
      BY <3>1, <3>2
  <2>4. \A k \in CliIds : Pending(cli'[k]) => Pending(cli[k]) /\ cli'[k].inbox = cli[k].inbox
    BY <2>1, <2>2
  <2>5. ASSUME NEW t \in SessIds, sess[t].lock \notin {None, c}
        PROVE  /\ sess'[t].cli = sess[t].cli
               /\ sess[t].cli # None => cli'[sess[t].cli] = cli[sess[t].cli]
    <3>1. t # s
      BY <1>1, <2>5
    <3>2. sess[t].cli # None =>
            sess[t].cli # sess[s].cli /\ sess[t].cli \in CliIds /\ sess[t].cli # NewCli
      BY <1>1, <3>1 DEF Shape, Owned, Born
    <3> QED
      BY <1>5, <2>1, <2>2, <3>1, <3>2
  <2>6. call[c].pc \in Reading => ~Pending(cli'[sess[call[c].s].cli])
    <3>1. call[c].pc \in Reading => call[c].pc = "respawn"
      BY <1>1 DEF Reading
    <3>2. call[c].pc = "respawn" => sess[s].cli # NewCli /\ sess[s].cli \in CliIds
      BY <1>1, <2>1 DEF Shape, Owned, Born
    <3> QED
      BY <1>0, <2>1, <2>2, <3>1, <3>2
  <2> QED
    BY <1>3, <2>3, <2>4, <2>5, <2>6, PipesStep
<1>6. CASE SpawnsCli(c)
  <2>1. PICK child \in Clis :
          /\ child.inbox = <<>> /\ child.out = <<>>
          /\ cli' = [cli EXCEPT ![NewCli] = child]
          /\ \A t \in SessIds : t # s => sess'[t] = sess[t]
    BY <1>0, <1>6, SpawnsCliIs
  <2>2. cli \in [CliIds -> Clis] /\ call[c].pc # "respawn"
    BY <1>6, SpawnsCliIs DEF Shape, Types
  <2> QED
    BY <1>5, <2>1, <2>2
<1>7. CASE Replaces(c)
  <2>1. PICK o \in Kills(c, s) :
          \/ cli' = Dead(s, o, "here") /\ sess' = sess
          \/ \E child \in Clis, d \in [CliIds -> Clis] :
               /\ d = Dead(s, o, "replaced") /\ child.inbox = <<>> /\ child.out = <<>>
               /\ cli' = [d EXCEPT ![NewCli] = child]
               /\ sess' = [sess EXCEPT ![s].cli = NewCli]
    BY <1>0, <1>7, ReplacesIs
  <2>2. CASE cli' = Dead(s, o, "here") /\ sess' = sess
    BY <1>4, <2>2
  <2>3. ASSUME NEW child \in Clis, NEW d \in [CliIds -> Clis],
               d = Dead(s, o, "replaced"), child.inbox = <<>>, child.out = <<>>,
               cli' = [d EXCEPT ![NewCli] = child], sess' = [sess EXCEPT ![s].cli = NewCli]
        PROVE  Pipes'
    <3>1. sess \in [SessIds -> Sessions]
      BY DEF Shape, Types
    <3>2. \A t \in SessIds : t # s => sess'[t].cli = sess[t].cli
      BY <2>3, <3>1
    <3> QED
      BY <1>5, <2>3, <3>2
  <2> QED
    BY <2>1, <2>2, <2>3
<1> QED
  BY <1>6, <1>7

\* Two threads do not work with one process.
LEMMA OneWorks ==
  ASSUME Shape, Locked, NEW c \in CallIds, NEW d \in CallIds,
         call[c].pc \in LockPcs \ Cliless, call[d].pc \in LockPcs \ Cliless,
         sess[call[d].s].cli = sess[call[c].s].cli
  PROVE  c = d
<1>1. /\ call[c].s \in SessIds /\ call[d].s \in SessIds
      /\ sess[call[c].s].lock = c /\ sess[call[d].s].lock = d /\ sess[call[c].s].cli # None
  BY AtLock, AtRole DEF Locked, Cliless
<1>2. call[c].s = call[d].s
  BY <1>1 DEF Shape, Owned
<1> QED
  BY <1>1, <1>2

\* The pipes of the process of a thread at work.
LEMMA MyPipes ==
  ASSUME Shape, Locked, Shape', Pipes, NEW c \in CallIds, NEW new \in Calls, Step(c, new),
         call[c].kind = "turn", new.kind = "turn", new.role = call[c].role, sess' = sess,
         new.s = call[c].s, call[c].pc \in LockPcs \ Cliless, NEW k, k = Cli(c),
         cli'[k].role = cli[k].role, \A n \in CliIds : n # k => cli'[n] = cli[n],
         \A p \in Talks(cli'[k]) : p \in Talks(cli[k]) \/ p = c,
         Pending(cli'[k]) => \/ Pending(cli[k]) /\ cli'[k].inbox = cli[k].inbox
                             \/ new.pc \in Reading /\ cli'[k].inbox = <<c>>,
         call[c].pc \in Reading /\ Pending(cli'[k]) => new.pc \in Reading,
         new.pc \in {"write", "poll", "read"} => Heeds(c, new.pc, cli'[k])
  PROVE  Pipes'
<1>1. k = sess[call[c].s].cli /\ k \in CliIds /\ cli[k].role = call[c].role
  BY HasCli DEF Cliless
<1>2. call[c].s \in SessIds /\ sess[call[c].s].lock = c
  BY AtLock, AtRole DEF Locked
<1>3. ASSUME NEW s \in SessIds, sess[s].lock \notin {None, c}
      PROVE  /\ sess'[s].cli = sess[s].cli
             /\ sess[s].cli # None => cli'[sess[s].cli] = cli[sess[s].cli]
  <2>1. s # call[c].s
    BY <1>2, <1>3
  <2>2. sess[s].cli # None => sess[s].cli # k /\ sess[s].cli \in CliIds
    BY <1>1, <1>2, <2>1 DEF Shape, Owned, Born
  <2> QED
    BY <2>2
<1>4. ASSUME NEW n \in CliIds
      PROVE  /\ cli'[n].role = cli[n].role
             /\ \A p \in Talks(cli'[n]) :
                  \/ p \in Talks(cli[n])
                  \/ p = c /\ call[c].kind = "turn" /\ call[c].role = cli[n].role
  BY <1>1
<1>5. ASSUME NEW n \in CliIds, Pending(cli'[n])
      PROVE  \/ Pending(cli[n]) /\ cli'[n].inbox = cli[n].inbox
             \/ new.pc \in Reading /\ sess'[new.s].cli = n /\ cli'[n].inbox = <<c>>
  BY <1>1, <1>5
<1>6. call[c].pc \in Reading => \/ /\ new.pc \in Reading
                                   /\ sess'[new.s].cli = sess[call[c].s].cli
                                \/ ~Pending(cli'[sess[call[c].s].cli])
  BY <1>1
<1> QED
  BY <1>1, <1>3, <1>4, <1>5, <1>6, PipesStep

LEMMA DrainsPipes ==
  ASSUME Shape, Locked, Shape', Pipes, NEW c \in CallIds, Drains(c)
  PROVE  Pipes'
<1>1. /\ call[c].pc = "drain" /\ call[c].pc \in LockPcs \ Cliless /\ call[c].pc \notin Reading
      /\ sess' = sess
  BY DEF Drains, At, LockPcs, SessPcs, RolePcs, Cliless, Reading
<1>2. PICK k : k = Cli(c)
  OBVIOUS
<1>3. /\ k \in CliIds /\ cli[k] \in Clis /\ cli \in [CliIds -> Clis] /\ call[c].kind = "turn"
  BY <1>1, <1>2, HasCli, AtLock DEF Cliless, Shape, Types
<1>4. cli' = [cli EXCEPT ![k].out = <<>>]
  BY <1>2 DEF Drains, Stale
<1>5. /\ cli'[k].out = <<>> /\ cli'[k].inbox = cli[k].inbox /\ cli'[k].role = cli[k].role
      /\ cli'[k].kept = cli[k].kept /\ cli'[k].fate = cli[k].fate
      /\ \A n \in CliIds : n # k => cli'[n] = cli[n]
  BY <1>3, <1>4 DEF Clis
<1>6. PICK new \in Calls :
        /\ Step(c, new) /\ new.pc = "write" /\ new.kind = call[c].kind /\ new.role = call[c].role
        /\ new.s = call[c].s
  <2>1. Go(c, "write") /\ "write" \in Pcs
    BY DEF Drains, Pcs
  <2> QED
    BY <2>1, GoIs DEF Shape
<1>7. /\ \A p \in Talks(cli'[k]) : p \in Talks(cli[k])
      /\ Pending(cli'[k]) => Pending(cli[k]) /\ cli'[k].inbox = cli[k].inbox
      /\ Heeds(c, new.pc, cli'[k])
  BY <1>5, <1>6 DEF Talks, Pending, Heeds
<1> QED
  BY <1>1, <1>2, <1>3, <1>5, <1>6, <1>7, MyPipes

LEMMA PromptsPipes ==
  ASSUME Shape, Locked, Shape', Pipes, NEW c \in CallIds, Prompts(c)
  PROVE  Pipes'
<1>1. /\ call[c].pc = "write" /\ call[c].pc \in LockPcs \ Cliless /\ call[c].pc \notin Reading
      /\ call[c].pc \in RolePcs
  BY DEF Prompts, At, LockPcs, SessPcs, RolePcs, Cliless, Reading
<1>2. CASE Leaves(c, GivesUp(c)) /\ cli' = cli
  <2>1. Step(c, GivesUp(c)) /\ sess' = [sess EXCEPT ![call[c].s].lock = None]
    BY <1>2 DEF Leaves
  <2>2. \A s \in SessIds : sess'[s].cli = sess[s].cli
    BY <2>1 DEF Shape, Types, Sessions
  <2> QED
    BY <1>1, <1>2, <2>1, <2>2, GivesUpPipes
<1>3. CASE /\ Go(c, "poll") /\ sess' = sess
           /\ cli' = [cli EXCEPT ![Cli(c)].inbox = Append(@, c), ![Cli(c)].greeted = TRUE]
  <2>1. PICK k : k = Cli(c)
    OBVIOUS
  <2>2. /\ k \in CliIds /\ cli[k] \in Clis /\ cli \in [CliIds -> Clis] /\ call[c].kind = "turn"
        /\ k = sess[call[c].s].cli /\ cli[k].inbox \in Seq(CallIds)
    BY <1>1, <2>1, HasCli, AtLock DEF Cliless, Shape, Types, Clis
  <2>3. /\ cli'[k].out = cli[k].out /\ cli'[k].inbox = Append(cli[k].inbox, c)
        /\ cli'[k].role = cli[k].role
        /\ cli'[k].kept = cli[k].kept /\ cli'[k].fate = cli[k].fate
        /\ \A n \in CliIds : n # k => cli'[n] = cli[n]
    BY <1>3, <2>1, <2>2 DEF Clis
  <2>4. PICK new \in Calls :
          /\ Step(c, new) /\ new.pc = "poll" /\ new.kind = call[c].kind
          /\ new.role = call[c].role /\ new.s = call[c].s
    <3>1. "poll" \in Pcs
      BY DEF Pcs
    <3> QED
      BY <1>3, <3>1, GoIs DEF Shape
  <2>5. ~Pending(cli[k])
    <3>1. SUFFICES ASSUME Pending(cli[k]) PROVE FALSE
      OBVIOUS
    <3>2. PICK d \in CallIds : call[d].pc \in Reading /\ sess[call[d].s].cli = k
      BY <2>2, <3>1 DEF Pipes
    <3>3. call[d].pc \in LockPcs \ Cliless
      BY <3>2 DEF Reading, LockPcs, SessPcs, RolePcs, Cliless
    <3>4. c = d
      BY <1>1, <2>2, <3>2, <3>3, OneWorks
    <3> QED
      BY <1>1, <3>2, <3>4
  <2>6. Pending(cli'[k]) => cli'[k].inbox = <<c>>
    <3>1. Pending(cli'[k]) => cli[k].inbox = <<>>
      BY <2>3, <2>5 DEF Pending
    <3>2. Append(<<>>, c) = <<c>>
      OBVIOUS
    <3> QED
      BY <2>3, <3>1, <3>2
  <2>7. \A p \in Talks(cli'[k]) : p \in Talks(cli[k]) \/ p = c
    <3>1. \A i \in DOMAIN cli'[k].inbox : cli'[k].inbox[i] = c \/ \E j \in DOMAIN cli[k].inbox :
                                              cli'[k].inbox[i] = cli[k].inbox[j]
      <4>1. PICK q : q = cli[k].inbox
        OBVIOUS
      <4>2. q \in Seq(CallIds) /\ cli'[k].inbox = Append(q, c)
        BY <2>2, <2>3, <4>1
      <4>3. \A i \in DOMAIN Append(q, c) :
              \/ Append(q, c)[i] = c
              \/ i \in DOMAIN q /\ Append(q, c)[i] = q[i]
        BY <4>2
      <4> QED
        BY <4>1, <4>2, <4>3
    <3> QED
      BY <2>3, <3>1 DEF Talks
  <2>8. Heeds(c, "poll", cli'[k])
    <3>1. Heeds(c, "write", cli[k])
      BY <1>1, <2>2 DEF Pipes
    <3>2. cli'[k].kept = "no" => cli'[k].out = <<>>
      BY <2>3, <3>1 DEF Heeds
    <3> QED
      BY <3>2 DEF Heeds
  <2>9. /\ new.pc \in Reading /\ new.kind = "turn" /\ sess' = sess
        /\ Heeds(c, new.pc, cli'[k])
    BY <1>3, <2>2, <2>4, <2>8 DEF Reading
  <2>10. Pending(cli'[k]) => \/ Pending(cli[k]) /\ cli'[k].inbox = cli[k].inbox
                             \/ new.pc \in Reading /\ cli'[k].inbox = <<c>>
    BY <2>6, <2>9
  <2> QED
    BY <1>1, <2>1, <2>2, <2>3, <2>4, <2>7, <2>9, <2>10, MyPipes
<1> QED
  BY <1>2, <1>3 DEF Prompts

LEMMA ReadsPipes ==
  ASSUME Shape, Locked, Shape', Pipes, NEW c \in CallIds, Reads(c)
  PROVE  Pipes'
<1>0. PICK k, f : k = Cli(c) /\ f = Head(cli[k].out)
  OBVIOUS
<1>1. /\ call[c].pc = "read" /\ call[c].pc \in LockPcs \ Cliless /\ call[c].pc \in Reading
      /\ sess' = sess /\ call[c].kind = "turn"
  BY ReadsIs DEF Reads, Cliless, Reading
<1>2. /\ k \in CliIds /\ cli[k] \in Clis /\ cli \in [CliIds -> Clis]
      /\ k = sess[call[c].s].cli /\ cli[k].role = call[c].role
      /\ cli[k].out \in Seq(Frames) /\ cli[k].out # <<>>
  BY <1>0, <1>1, HasCli DEF Cliless, Shape, Types, Clis, Reads
<1>3. PICK new \in Calls :
        /\ Step(c, new) /\ new.pc \in {"poll", "reap", "respawn"} /\ new.kind = "turn"
        /\ new.role = call[c].role /\ new.s = call[c].s
        /\ new.pc = "reap" => f.kind = "result" \/ call[c].role \in Correlated
  BY <1>0, ReadsIs
<1>4. cli' = [cli EXCEPT ![k].out = Tail(cli[k].out)]
  BY <1>0, <1>2 DEF Reads
<1>5. /\ cli'[k].out = Tail(cli[k].out) /\ cli'[k].inbox = cli[k].inbox
      /\ cli'[k].role = cli[k].role
      /\ cli'[k].kept = cli[k].kept /\ cli'[k].fate = cli[k].fate
      /\ \A n \in CliIds : n # k => cli'[n] = cli[n]
  BY <1>2, <1>4 DEF Clis
<1>6. /\ \A i \in DOMAIN cli'[k].out : i + 1 \in DOMAIN cli[k].out /\ cli'[k].out[i] = cli[k].out[i + 1]
      /\ 1 \in DOMAIN cli[k].out /\ f = cli[k].out[1]
  <2>1. PICK q : q = cli[k].out
    OBVIOUS
  <2>2. q \in Seq(Frames) /\ q # <<>>
    BY <1>2, <2>1
  <2>3. /\ \A i \in DOMAIN Tail(q) : i + 1 \in DOMAIN q /\ Tail(q)[i] = q[i + 1]
        /\ 1 \in DOMAIN q /\ Head(q) = q[1]
    BY <2>2
  <2> QED
    BY <1>0, <1>5, <2>1, <2>3
<1>7. Heeds(c, "read", cli[k])
  BY <1>1, <1>2 DEF Pipes
<1>8. Pending(cli'[k]) <=> Pending(cli[k])
  BY <1>5 DEF Pending
<1>9. \A p \in Talks(cli'[k]) : p \in Talks(cli[k])
  BY <1>5, <1>6 DEF Talks
<1>10. Heeds(c, "poll", cli'[k])
  BY <1>5, <1>6, <1>7, <1>8 DEF Heeds
<1>11. Pending(cli'[k]) => new.pc \in Reading
  <2>1. ASSUME Pending(cli[k]) PROVE new.pc # "reap"
    <3>1. cli[k].role \notin Correlated /\ f.kind = "error"
      BY <1>6, <1>7, <2>1 DEF Heeds, Pending
    <3> QED
      BY <1>2, <1>3, <3>1
  <2> QED
    BY <1>3, <1>8, <2>1 DEF Reading
<1>12. new.pc \in {"write", "poll", "read"} => Heeds(c, new.pc, cli'[k])
  BY <1>3, <1>10
<1>13. Pending(cli'[k]) => \/ Pending(cli[k]) /\ cli'[k].inbox = cli[k].inbox
                           \/ new.pc \in Reading /\ cli'[k].inbox = <<c>>
  BY <1>5, <1>8
<1>14. call[c].pc \in Reading /\ Pending(cli'[k]) => new.pc \in Reading
  BY <1>11
<1>15. \A p \in Talks(cli'[k]) : p \in Talks(cli[k]) \/ p = c
  BY <1>9
<1>16. k = Cli(c) /\ cli'[k].role = cli[k].role /\ \A n \in CliIds : n # k => cli'[n] = cli[n]
  BY <1>0, <1>5
<1> QED
  BY <1>1, <1>3, <1>12, <1>13, <1>14, <1>15, <1>16, MyPipes

LEMMA PipesFrom ==
  ASSUME UNCHANGED <<call, sess>>,
         \A k \in CliIds : \A p \in Talks(cli'[k]) : call[p].kind = "turn" /\ call[p].role = cli'[k].role,
         \A k \in CliIds : Pending(cli'[k]) =>
           \E c \in CallIds : /\ call[c].pc \in Reading /\ sess[call[c].s].cli = k
                              /\ cli'[k].inbox = <<c>>,
         \A c \in CallIds : call[c].pc \in {"write", "poll", "read"} =>
           Heeds(c, call[c].pc, cli'[sess[call[c].s].cli])
  PROVE  Pipes'
<1>1. \A k \in CliIds : \A p \in Talks(cli'[k]) : call'[p].kind = "turn" /\ call'[p].role = cli'[k].role
  OBVIOUS
<1>2. \A k \in CliIds : Pending(cli'[k]) =>
        \E c \in CallIds : /\ call'[c].pc \in Reading /\ sess'[call'[c].s].cli = k
                           /\ cli'[k].inbox = <<c>>
  OBVIOUS
<1>3. \A c \in CallIds : call'[c].pc \in {"write", "poll", "read"} =>
        Heeds(c, call'[c].pc, cli'[sess'[call'[c].s].cli])
  OBVIOUS
<1> QED
  BY <1>1, <1>2, <1>3 DEF Pipes, Heeds, Pending, Talks

\* What a process says is said in answer to what it was asked.
LEMMA AnswersPipes ==
  ASSUME Shape, Locked, Pipes, NEW k \in CliIds, Answers(k)
  PROVE  Pipes'
<1>1. UNCHANGED <<call, sess>>
  BY DEF Answers, threads
<1>2. PICK q, p : q = cli[k].inbox /\ p = Head(q)
  OBVIOUS
<1>3. /\ q \in Seq(CallIds) /\ q # <<>> /\ p \in CallIds /\ cli[k].out \in Seq(Frames)
      /\ \A n \in CliIds : n # k => cli'[n] = cli[n]
      /\ cli'[k].role = cli[k].role /\ cli'[k].fate = "up" /\ cli'[k].kept = cli[k].kept
      /\ cli[k].fate = "up"
  BY <1>2, AnswersIs DEF Up
<1>4. PICK kind \in {"result", "error"} :
        /\ Says(k, kind) \in Seq(Frames)
        /\ cli'[k].out = cli[k].out \o Says(k, kind)
        /\ \/ cli'[k].inbox = Tail(q)
           \/ cli'[k].inbox = q /\ kind = "error" /\ cli[k].role \notin Correlated
  BY <1>2, AnswersIs
<1>5. PICK a, b : a = cli[k].out /\ b = Says(k, kind)
  OBVIOUS
<1>6. /\ \A i \in DOMAIN b : b[i].of = p
      /\ kind = "error" /\ cli[k].role \notin Correlated => \A i \in DOMAIN b : b[i].kind = "error"
  BY <1>2, <1>5 DEF Says
<1>7. \A i \in DOMAIN cli'[k].out : \/ i \in DOMAIN a /\ cli'[k].out[i] = a[i]
                                    \/ \E j \in DOMAIN b : cli'[k].out[i] = b[j]
  <2>1. /\ a \in Seq(Frames) /\ b \in Seq(Frames) /\ cli'[k].out = a \o b
    BY <1>3, <1>4, <1>5
  <2> HIDE DEF Says
  <2>2. ASSUME NEW i \in DOMAIN (a \o b)
        PROVE  \/ i \in DOMAIN a /\ (a \o b)[i] = a[i]
               \/ i - Len(a) \in DOMAIN b /\ (a \o b)[i] = b[i - Len(a)]
    BY <2>1
  <2> QED
    BY <2>1, <2>2
<1>8. p \in Talks(cli[k]) /\ 1 \in DOMAIN q /\ p = q[1]
  <2>1. 1 \in DOMAIN q /\ p = q[1]
    BY <1>2, <1>3
  <2> QED
    BY <1>2, <2>1 DEF Talks
<1>9. \A x \in Talks(cli'[k]) : x \in Talks(cli[k])
  <2>1. \A i \in DOMAIN cli'[k].inbox : \E j \in DOMAIN q : cli'[k].inbox[i] = q[j]
    <3>1. CASE cli'[k].inbox = Tail(q)
      <4>1. \A i \in DOMAIN Tail(q) : i + 1 \in DOMAIN q /\ Tail(q)[i] = q[i + 1]
        BY <1>3
      <4> QED
        BY <3>1, <4>1
    <3>2. CASE cli'[k].inbox = q
      BY <3>2
    <3> QED
      BY <1>4, <3>1, <3>2
  <2>2. \A i \in DOMAIN cli'[k].out : cli'[k].out[i].of = p \/ \E j \in DOMAIN a : cli'[k].out[i].of = a[j].of
    BY <1>6, <1>7
  <2> QED
    BY <1>2, <1>5, <1>8, <2>1, <2>2 DEF Talks
<1>10. Pending(cli'[k]) => /\ Pending(cli[k]) /\ cli'[k].inbox = cli[k].inbox
                           /\ kind = "error" /\ cli[k].role \notin Correlated
  <2>1. SUFFICES ASSUME Pending(cli'[k])
                 PROVE  /\ Pending(cli[k]) /\ cli'[k].inbox = cli[k].inbox
                        /\ kind = "error" /\ cli[k].role \notin Correlated
    OBVIOUS
  <2>2. Pending(cli[k])
    BY <1>2, <1>3, <2>1 DEF Pending
  <2>3. PICK c \in CallIds : q = <<c>>
    BY <1>2, <2>2 DEF Pipes
  <2>4. Tail(q) = <<>>
    BY <2>3
  <2> QED
    BY <1>2, <1>4, <2>1, <2>2, <2>4 DEF Pending
<1>11. ASSUME NEW n \in CliIds, Pending(cli'[n])
       PROVE  \E c \in CallIds : /\ call[c].pc \in Reading /\ sess[call[c].s].cli = n
                                 /\ cli'[n].inbox = <<c>>
  <2>1. Pending(cli[n]) /\ cli'[n].inbox = cli[n].inbox
    BY <1>3, <1>10, <1>11
  <2> QED
    BY <2>1 DEF Pipes
<1>12. ASSUME NEW c \in CallIds, call[c].pc \in {"write", "poll", "read"}
       PROVE  Heeds(c, call[c].pc, cli'[sess[call[c].s].cli])
  <2>1. Heeds(c, call[c].pc, cli[sess[call[c].s].cli]) /\ call[c].pc \in LockPcs \ Cliless
    BY <1>12 DEF Pipes, LockPcs, SessPcs, RolePcs, Cliless
  <2>2. sess[call[c].s].cli \in CliIds
    BY <2>1, HasCli DEF Cliless
  <2>3. CASE sess[call[c].s].cli # k
    BY <1>3, <2>1, <2>2, <2>3
  <2>4. CASE sess[call[c].s].cli = k
    <3>1. ASSUME cli[k].kept = "no"
          PROVE  call[c].pc \in {"poll", "read"} /\ q = <<c>>
      <4>1. Pending(cli[k])
        BY <1>2, <1>3, <3>1 DEF Pending
      <4>2. PICK d \in CallIds : call[d].pc \in Reading /\ sess[call[d].s].cli = k /\ q = <<d>>
        BY <1>2, <4>1 DEF Pipes
      <4>3. call[d].pc \in LockPcs \ Cliless
        BY <4>2 DEF Reading, LockPcs, SessPcs, RolePcs, Cliless
      <4>4. c = d
        BY <2>1, <2>4, <4>2, <4>3, OneWorks
      <4> QED
        BY <1>12, <4>2, <4>4 DEF Reading
    <3>2. ASSUME cli[k].kept = "no"
          PROVE  \A i \in DOMAIN cli'[k].out : cli'[k].out[i].of = c
      <4>1. p = c
        BY <1>2, <3>1, <3>2
      <4>2. \A i \in DOMAIN a : a[i].of = c
        BY <1>5, <2>1, <2>4, <3>1, <3>2 DEF Heeds
      <4> QED
        BY <1>6, <1>7, <4>1, <4>2
    <3>3. ASSUME cli[k].kept = "no", Pending(cli'[k])
          PROVE  \A i \in DOMAIN cli'[k].out : cli[k].role \notin Correlated /\ cli'[k].out[i].kind = "error"
      <4>1. Pending(cli[k]) /\ cli[k].role \notin Correlated /\ kind = "error"
        BY <1>10, <3>3
      <4>2. \A i \in DOMAIN a : a[i].kind = "error"
        BY <1>5, <2>1, <2>4, <3>1, <3>3, <4>1 DEF Heeds
      <4> QED
        BY <1>6, <1>7, <4>1, <4>2
    <3> QED
      BY <1>3, <2>4, <3>1, <3>2, <3>3 DEF Heeds
  <2> QED
    BY <2>3, <2>4
<1>13. ASSUME NEW n \in CliIds, NEW x \in Talks(cli'[n])
       PROVE  call[x].kind = "turn" /\ call[x].role = cli'[n].role
  <2>1. x \in Talks(cli[n]) /\ cli'[n].role = cli[n].role
    BY <1>3, <1>9, <1>13
  <2> QED
    BY <2>1 DEF Pipes
<1> QED
  BY <1>1, <1>11, <1>12, <1>13, PipesFrom

LEMMA ExitsPipes ==
  ASSUME Shape, Locked, Pipes, NEW k \in CliIds, Exits(k)
  PROVE  Pipes'
<1>1. UNCHANGED <<call, sess>>
  BY DEF Exits, threads
<1>2. /\ \A n \in CliIds : n # k => cli'[n] = cli[n]
      /\ cli'[k].role = cli[k].role /\ cli'[k].kept = cli[k].kept
      /\ cli'[k].inbox = cli[k].inbox /\ cli'[k].out = cli[k].out
      /\ cli'[k].fate \in {"left", "gone"}
  BY ExitsIs
<1>3. ASSUME NEW n \in CliIds
      PROVE  /\ cli'[n].role = cli[n].role /\ cli'[n].kept = cli[n].kept
             /\ cli'[n].out = cli[n].out /\ Talks(cli'[n]) = Talks(cli[n])
             /\ Pending(cli'[n]) => Pending(cli[n]) /\ cli'[n].inbox = cli[n].inbox
  BY <1>2 DEF Talks, Pending
<1>4. ASSUME NEW n \in CliIds, NEW x \in Talks(cli'[n])
       PROVE  call[x].kind = "turn" /\ call[x].role = cli'[n].role
  BY <1>3, <1>4 DEF Pipes
<1>5. ASSUME NEW n \in CliIds, Pending(cli'[n])
      PROVE  \E c \in CallIds : /\ call[c].pc \in Reading /\ sess[call[c].s].cli = n
                                /\ cli'[n].inbox = <<c>>
  <2>1. Pending(cli[n]) /\ cli'[n].inbox = cli[n].inbox
    BY <1>3, <1>5
  <2> QED
    BY <2>1 DEF Pipes
<1>6. ASSUME NEW c \in CallIds, call[c].pc \in {"write", "poll", "read"}
      PROVE  Heeds(c, call[c].pc, cli'[sess[call[c].s].cli])
  <2>1. Heeds(c, call[c].pc, cli[sess[call[c].s].cli]) /\ call[c].pc \in LockPcs \ Cliless
    BY <1>6 DEF Pipes, LockPcs, SessPcs, RolePcs, Cliless
  <2>2. sess[call[c].s].cli \in CliIds
    BY <2>1, HasCli DEF Cliless
  <2> QED
    BY <1>3, <2>1, <2>2 DEF Heeds
<1> QED
  BY <1>1, <1>4, <1>5, <1>6, PipesFrom

LEMMA SendsPipes == ASSUME Shape, Locked, Shape', Pipes, Sends PROVE Pipes'
<1>1. PICK c \in CallIds, new \in Calls :
        /\ call[c] = NoCall /\ Step(c, new) /\ new.pc \in {"check", "preflight", "shut", "ping"}
        /\ UNCHANGED <<turnLock, sess, cli>>
  BY SendsIs
<1>2. call[c].kind = "none" /\ call[c].pc = "unsent"
  BY <1>1 DEF NoCall
<1>3. call[c].pc \notin Reading
  BY <1>2 DEF Reading
<1> QED
  BY <1>1, <1>2, <1>3, QuietPipes

LEMMA PipesInit == Init => Pipes
<1> SUFFICES ASSUME Init PROVE Pipes
  OBVIOUS
<1>1. \A c \in CallIds : call[c].pc = "unsent"
  BY DEF Init, NoCall
<1>2. \A k \in CliIds : cli[k].inbox = <<>> /\ cli[k].out = <<>>
  BY DEF Init
<1>3. \A k \in CliIds : Talks(cli[k]) = {} /\ ~Pending(cli[k])
  BY <1>2 DEF Talks, Pending
<1> QED
  BY <1>1, <1>3 DEF Pipes

LEMMA PipesNext == Shape /\ Locked /\ Pipes /\ [Next]_vars => Pipes'
<1> SUFFICES ASSUME Shape, Locked, Pipes, [Next]_vars PROVE Pipes'
  OBVIOUS
<1>0. Shape' /\ Locked'
  BY SolidNext
<1>1. CASE UNCHANGED <<call, sess, cli>>
  BY <1>1, PipesFrom DEF Pipes
<1>2. CASE Sends
  BY <1>0, <1>2, SendsPipes
<1>3. CASE UNCHANGED vars \/ Hears \/ Abandons
  <2>1. UNCHANGED <<call, sess, cli>>
    BY <1>3 DEF Hears, Abandons, vars
  <2> QED
    BY <1>1, <2>1
<1>4. CASE \E k \in CliIds : Answers(k) \/ Exits(k)
  BY <1>4, AnswersPipes, ExitsPipes
<1>5. ASSUME NEW c \in CallIds, Works(c) \/ Expires(c) PROVE Pipes'
  <2>1. CASE \/ Checks(c) \/ TakesTurn(c) \/ Ensures(c) \/ EntersTurn(c) \/ Polls(c) \/ ReadsEnd(c)
             \/ Expires(c) \/ Preflights(c) \/ TearsDown(c) \/ Pings(c) \/ Reports(c) \/ Clears(c)
    BY <1>0, <2>1, ThreadPipes
  <2>2. CASE Shuts(c) \/ ReapsOrphans(c) \/ LooksUp(c)
    BY <1>0, <2>2, ShutsPipes, LooksUpPipes
  <2>3. CASE Evicts(c) \/ SpawnsCli(c) \/ Replaces(c) \/ KillsLate(c)
    BY <1>0, <2>3, EvictsPipes, SpawnsPipes, KillsLatePipes
  <2>4. CASE Drains(c) \/ Prompts(c) \/ Reads(c)
    BY <1>0, <2>4, DrainsPipes, PromptsPipes, ReadsPipes
  <2>5. CASE \E r \in call[c].left : ShutsOne(c, r)
    <3>1. call[c].left \subseteq Roles
      BY DEF Shape, Types, Calls
    <3> QED
      BY <1>0, <2>5, <3>1, ShutsOnePipes
  <2> QED
    BY <1>5, <2>1, <2>2, <2>3, <2>4, <2>5 DEF Works
<1> QED
  BY <1>1, <1>2, <1>3, <1>4, <1>5 DEF Next, Runs

THEOREM PipesHold == Spec => []Pipes
<1>1. Init => Pipes
  BY PipesInit
<1> QED
  BY <1>1, PipesNext, Solid, PTL DEF Spec

-----------------------------------------------------------------------------
(***************************************************************************)
(* A runner serves turns as the gateway counts on.                         *)
(***************************************************************************)
Spoils(k) == cli[k].kept # "no" /\ \E s \in SessIds : sess[s].cli = k

LEMMA SpoiledIs == Spoiled = {cli[k].role : k \in {n \in CliIds : Spoils(n)}}
  BY DEF Spoiled, Spoils

LEMMA SpoiledSame ==
  ASSUME \A s \in SessIds : sess'[s].cli = sess[s].cli,
         \A k \in CliIds : cli'[k].kept = cli[k].kept /\ cli'[k].role = cli[k].role
  PROVE  Spoiled' = Spoiled
  BY DEF Spoiled

LEMMA SpoiledStep ==
  ASSUME NEW r \in Roles,
         \A k \in CliIds : \/ (Spoils(k)' <=> Spoils(k)) /\ cli'[k].role = cli[k].role
                           \/ (Spoils(k) => cli[k].role = r) /\ (Spoils(k)' => cli'[k].role = r)
  PROVE  /\ Spoiled' \in {Spoiled \union {r}, Spoiled \ {r}}
         /\ (\A k \in CliIds : Spoils(k) => Spoils(k)') => Spoiled' \in {Spoiled, Spoiled \union {r}}
<1>1. Spoiled' = {cli'[k].role : k \in {n \in CliIds : Spoils(n)'}}
  BY DEF Spoiled, Spoils
<1>2. \A q : q # r => (q \in Spoiled' <=> q \in Spoiled)
  BY <1>1, SpoiledIs
<1>3. ASSUME \A k \in CliIds : Spoils(k) => Spoils(k)', r \in Spoiled PROVE r \in Spoiled'
  BY <1>1, <1>3, SpoiledIs
<1> QED
  BY <1>2, <1>3

LEMMA KillSpoils ==
  ASSUME Shape, NEW c \in CallIds, NEW s \in SessIds, NEW r \in Roles, sess[s].role = r,
         NEW o \in Kills(c, s), NEW mark \in Marks \ {"no"}, cli' = Dead(s, o, mark),
         \A t \in SessIds : t # s => sess'[t].cli = sess[t].cli,
         sess'[s].cli \in {None, sess[s].cli}
  PROVE  /\ Spoiled' \in {Spoiled \union {r}, Spoiled \ {r}}
         /\ sess'[s].cli = sess[s].cli => Spoiled' \in {Spoiled, Spoiled \union {r}}
<1>1. /\ \A k \in CliIds : k # sess[s].cli => cli'[k] = cli[k]
      /\ sess[s].cli # None =>
           /\ cli'[sess[s].cli].role = cli[sess[s].cli].role
           /\ cli'[sess[s].cli].kept = (IF o.fate = "up" THEN mark ELSE cli[sess[s].cli].kept)
  BY DeadIs DEF Shape
<1>2. None \notin CliIds
  BY Bounds
<1>3. ASSUME NEW k \in CliIds, k # sess[s].cli
      PROVE  (Spoils(k)' <=> Spoils(k)) /\ cli'[k].role = cli[k].role
  <2>1. (\E t \in SessIds : sess'[t].cli = k) <=> (\E t \in SessIds : sess[t].cli = k)
    BY <1>2, <1>3
  <2> QED
    BY <1>1, <1>3, <2>1 DEF Spoils
<1>4. ASSUME NEW k \in CliIds, k = sess[s].cli
      PROVE  cli[k].role = r /\ cli'[k].role = r
  BY <1>1, <1>2, <1>4 DEF Shape, Owned
<1>5. Spoiled' \in {Spoiled \union {r}, Spoiled \ {r}}
  BY <1>3, <1>4, SpoiledStep
<1>6. ASSUME sess'[s].cli = sess[s].cli PROVE Spoiled' \in {Spoiled, Spoiled \union {r}}
  <2>1. ASSUME NEW k \in CliIds, Spoils(k) PROVE Spoils(k)'
    <3>1. CASE k = sess[s].cli
      BY <1>1, <1>2, <1>6, <2>1, <3>1 DEF Spoils
    <3>2. CASE k # sess[s].cli
      BY <1>3, <2>1, <3>2
    <3> QED
      BY <3>1, <3>2
  <2> QED
    BY <1>3, <1>4, <2>1, SpoiledStep
<1> QED
  BY <1>5, <1>6

Serves == [Service!Next]_Service!service

LEMMA Moves ==
  ASSUME Shape, NEW c \in CallIds, NEW new \in Calls, Step(c, new)
  PROVE  /\ Asked' = [Asked EXCEPT ![c] = AskedOf(new)]
         /\ Phase' = [Phase EXCEPT ![c] = PhaseOf(new)]
         /\ Heard' = [Heard EXCEPT ![c] = new.heard]
         /\ Asked[c] = AskedOf(call[c]) /\ Phase[c] = PhaseOf(call[c]) /\ Heard[c] = call[c].heard
<1>1. call'[c] = new /\ \A d \in CallIds \ {c} : call'[d] = call[d]
  BY StepIs DEF Shape
<1>2. Asked' = [d \in CallIds |-> AskedOf(call'[d])]
  BY DEF Asked, AskedOf
<1>3. Phase' = [d \in CallIds |-> PhaseOf(call'[d])]
  BY DEF Phase, PhaseOf
<1>4. Heard' = [d \in CallIds |-> call'[d].heard]
  BY DEF Heard
<1> QED
  BY <1>1, <1>2, <1>3, <1>4 DEF Asked, Phase, Heard

LEMMA Silent ==
  ASSUME UNCHANGED <<Asked, Phase, Heard>>,
         Spoiled' = Spoiled \/ \E r \in Roles : Spoiled' \in {Spoiled \union {r}, Spoiled \ {r}}
  PROVE  Serves
  BY DEF Serves, Service!Next, Service!service, Service!Spoil, Service!Heal

LEMMA Stays ==
  ASSUME Shape, NEW c \in CallIds, NEW new \in Calls, Step(c, new),
         AskedOf(new) = AskedOf(call[c]), PhaseOf(new) = PhaseOf(call[c]),
         new.heard = call[c].heard
  PROVE  UNCHANGED <<Asked, Phase, Heard>>
<1>1. /\ Asked' = [Asked EXCEPT ![c] = Asked[c]] /\ Phase' = [Phase EXCEPT ![c] = Phase[c]]
      /\ Heard' = [Heard EXCEPT ![c] = Heard[c]]
  BY Moves
<1>2. Asked' = Asked
  BY <1>1 DEF Asked
<1>3. Phase' = Phase
  BY <1>1 DEF Phase
<1>4. Heard' = Heard
  BY <1>1 DEF Heard
<1> QED
  BY <1>2, <1>3, <1>4

\* A call that is no turn, and a turn that is being served.
LEMMA WorkServes ==
  ASSUME Shape, NEW c \in CallIds, NEW new \in Calls, Step(c, new), new.kind = call[c].kind,
         call[c].kind = "turn" => /\ new.role = call[c].role
                                  /\ call[c].pc \in RolePcs /\ new.pc \in RolePcs,
         new.heard = call[c].heard,
         Spoiled' = Spoiled \/ \E r \in Roles : Spoiled' \in {Spoiled \union {r}, Spoiled \ {r}}
  PROVE  Serves
<1>1. AskedOf(new) = AskedOf(call[c])
  BY DEF AskedOf
<1>2. PhaseOf(new) = PhaseOf(call[c])
  BY DEF PhaseOf, RolePcs
<1> QED
  BY <1>1, <1>2, Stays, Silent

LEMMA EndsServe ==
  ASSUME Shape, NEW c \in CallIds, call[c].pc # "unsent", call[c].pc # "ended",
         NEW how \in Told, Step(c, Ends(c, how)),
         Spoiled' = Spoiled \/ (call[c].kind = "turn" /\ Spoiled' = Spoiled \union {call[c].role})
  PROVE  Serves
<1>1. PICK new : new = Ends(c, how)
  OBVIOUS
<1>2. /\ new \in Calls /\ new.pc = "ended" /\ new.kind = call[c].kind /\ new.role = call[c].role
      /\ new.heard = call[c].heard /\ Step(c, new)
  BY <1>1, EndsIs DEF Shape
<1>3. CASE call[c].kind # "turn"
  BY <1>2, <1>3, WorkServes
<1>4. CASE call[c].kind = "turn"
  <2>1. AskedOf(new) = AskedOf(call[c]) /\ AskedOf(call[c]) = call[c].role
    BY <1>2, <1>4 DEF AskedOf
  <2>2. PhaseOf(new) = "ended" /\ PhaseOf(call[c]) \in {"waiting", "served"}
    BY <1>2, <1>4 DEF PhaseOf
  <2>3. Asked' = Asked /\ Heard' = Heard
    <3>1. /\ Asked \in [CallIds -> {Asked[d] : d \in CallIds}]
          /\ Heard \in [CallIds -> {Heard[d] : d \in CallIds}]
      BY DEF Asked, Heard
    <3> QED
      BY <1>2, <2>1, <3>1, Moves
  <2>4. Phase' = [Phase EXCEPT ![c] = "ended"] /\ Phase[c] \in {"waiting", "served"}
        /\ Asked[c] = call[c].role
    BY <1>2, <2>1, <2>2, Moves
  <2>5. Service!End(c)
    BY <1>4, <2>3, <2>4 DEF Service!End
  <2> QED
    BY <2>5 DEF Serves, Service!Next
<1> QED
  BY <1>3, <1>4

LEMMA NextRoleServes ==
  ASSUME Shape, NEW c \in CallIds, Step(c, NextRole(c)), call[c].kind # "turn",
         call[c].pc \in RolePcs,
         Spoiled' = Spoiled \/ \E r \in Roles : Spoiled' \in {Spoiled \union {r}, Spoiled \ {r}}
  PROVE  Serves
<1>1. PICK new : new = NextRole(c)
  OBVIOUS
<1>2. /\ new \in Calls /\ new.kind = call[c].kind /\ new.heard = call[c].heard /\ Step(c, new)
  BY <1>1, NextRoleIs DEF Shape
<1> QED
  BY <1>2, WorkServes

LEMMA GivesUpServes ==
  ASSUME Shape, NEW c \in CallIds, Step(c, GivesUp(c)), call[c].pc \in RolePcs,
         Spoiled' = Spoiled \/ \E r \in Roles : Spoiled' \in {Spoiled \union {r}, Spoiled \ {r}}
  PROVE  Serves
<1>1. CASE call[c].kind # "turn"
  <2>1. Step(c, NextRole(c))
    BY <1>1 DEF GivesUp
  <2> QED
    BY <1>1, <2>1, NextRoleServes
<1>2. CASE call[c].kind = "turn"
  <2>1. PICK new : new = [call[c] EXCEPT !.pc = "sample", !.answer = "failed"]
    OBVIOUS
  <2>2. /\ new \in Calls /\ new.pc = "sample" /\ new.kind = call[c].kind
        /\ new.role = call[c].role /\ Step(c, new) /\ new.heard = call[c].heard
    BY <1>2, <2>1, AtRole DEF GivesUp, Calls, Pcs, Told
  <2> QED
    BY <2>2, WorkServes DEF RolePcs
<1> QED
  BY <1>1, <1>2

LEMMA GoesServe ==
  ASSUME Shape, NEW c \in CallIds, NEW pc \in Pcs, Go(c, pc),
         call[c].kind = "turn" => call[c].pc \in RolePcs /\ pc \in RolePcs,
         Spoiled' = Spoiled \/ \E r \in Roles : Spoiled' \in {Spoiled \union {r}, Spoiled \ {r}}
  PROVE  Serves
<1>1. PICK new \in Calls :
        /\ Step(c, new) /\ new.pc = pc /\ new.kind = call[c].kind /\ new.role = call[c].role
        /\ new.heard = call[c].heard
  BY GoIs DEF Shape
<1> QED
  BY <1>1, WorkServes

LEMMA TakesTurnServes ==
  ASSUME Shape, Locked, NEW c \in CallIds, TakesTurn(c)
  PROVE  Serves
<1>1. /\ call[c].pc = "queue" /\ turnLock[call[c].role] = None /\ Go(c, "lookup")
      /\ call[c].kind = "turn" /\ UNCHANGED <<cli, sess>> /\ call[c].role \in Roles
  BY DEF TakesTurn, At, Shape, Fits, TurnPcs
<1>2. PICK new \in Calls :
        /\ Step(c, new) /\ new.pc = "lookup" /\ new.kind = call[c].kind /\ new.role = call[c].role
        /\ new.heard = call[c].heard
  BY <1>1, GoIs DEF Shape, Pcs
<1>3. Spoiled' = Spoiled
  BY <1>1, SpoiledSame
<1>4. AskedOf(new) = AskedOf(call[c]) /\ PhaseOf(call[c]) = "waiting" /\ PhaseOf(new) = "served"
      /\ AskedOf(call[c]) = call[c].role
  BY <1>1, <1>2 DEF AskedOf, PhaseOf
<1>5. Asked' = Asked /\ Heard' = Heard
  <2>1. Asked' = [Asked EXCEPT ![c] = Asked[c]] /\ Heard' = [Heard EXCEPT ![c] = Heard[c]]
    BY <1>2, <1>4, Moves
  <2>2. Asked' = Asked
    BY <2>1 DEF Asked
  <2>3. Heard' = Heard
    BY <2>1 DEF Heard
  <2> QED
    BY <2>2, <2>3
<1>6. Phase' = [Phase EXCEPT ![c] = "served"] /\ Phase[c] = "waiting" /\ Asked[c] = call[c].role
  BY <1>2, <1>4, Moves
<1>7. ASSUME NEW u \in CallIds, Asked[u] = Asked[c] PROVE Phase[u] # "served"
  <2>1. SUFFICES ASSUME PhaseOf(call[u]) = "served" PROVE FALSE
    BY DEF Phase
  <2>2. call[u].kind = "turn" /\ call[u].pc \notin {"check", "queue", "ended"} /\ call[u] \in Calls
    BY <2>1 DEF PhaseOf, Shape, Types
  <2>3. call[u].role = call[c].role
    BY <1>6, <1>7, <2>2 DEF Asked, AskedOf
  <2>4. call[u].pc \in RolePcs
    <3>1. Fits(call[u]) /\ call[u].pc \in Pcs
      BY <2>2 DEF Shape, Calls
    <3>2. call[u].pc # "unsent"
      BY <2>2, <3>1 DEF Fits, NoCall
    <3> QED
      BY <2>2, <3>1, <3>2 DEF Fits, Pcs, RolePcs
  <2>5. turnLock[call[u].role] = u
    BY <2>2, <2>4 DEF Locked
  <2> QED
    BY <1>1, <2>3, <2>5, Bounds
<1>8. Service!Serve(c)
  BY <1>3, <1>5, <1>6, <1>7 DEF Service!Serve
<1> QED
  BY <1>8 DEF Serves, Service!Next

\* A turn hears what was said to another only of a process that survived.
LEMMA ReadsServe ==
  ASSUME Shape, Locked, Pipes, NEW c \in CallIds, Reads(c)
  PROVE  Serves
<1>0. PICK k, f : k = Cli(c) /\ f = Head(cli[k].out)
  OBVIOUS
<1>1. /\ call[c].pc = "read" /\ call[c].pc \in LockPcs \ Cliless /\ call[c].pc \in RolePcs
      /\ sess' = sess /\ call[c].kind = "turn"
  BY ReadsIs DEF Reads, Cliless, RolePcs
<1>2. /\ k \in CliIds /\ cli[k] \in Clis /\ cli \in [CliIds -> Clis]
      /\ k = sess[call[c].s].cli /\ cli[k].role = call[c].role /\ call[c].s \in SessIds
      /\ cli[k].out \in Seq(Frames) /\ cli[k].out # <<>> /\ call[c].role \in Roles
  BY <1>0, <1>1, HasCli, AtRole, AtLock DEF Cliless, Shape, Types, Clis, Reads
<1>3. PICK new \in Calls :
        /\ Step(c, new) /\ new.pc \in {"poll", "reap", "respawn"} /\ new.kind = "turn"
        /\ new.role = call[c].role
        /\ new.heard = (IF Mine(c, f) THEN call[c].heard \union {f.of} ELSE call[c].heard)
  BY <1>0, ReadsIs
<1>4. Spoiled' = Spoiled
  <2>1. cli' = [cli EXCEPT ![k].out = Tail(cli[k].out)]
    BY <1>0, <1>2 DEF Reads
  <2>2. \A n \in CliIds : cli'[n].kept = cli[n].kept /\ cli'[n].role = cli[n].role
    BY <1>2, <2>1 DEF Clis
  <2> QED
    BY <1>1, <2>2, SpoiledSame
<1>5. new.pc \in RolePcs
  BY <1>3 DEF RolePcs
<1>6. CASE ~Mine(c, f)
  BY <1>1, <1>3, <1>4, <1>5, <1>6, WorkServes
<1>7. CASE Mine(c, f)
  <2>1. 1 \in DOMAIN cli[k].out /\ f = cli[k].out[1] /\ f \in Frames
    BY <1>0, <1>2
  <2>2. PICK u \in CallIds : u = f.of
    BY <2>1 DEF Frames
  <2>3. call[u].kind = "turn" /\ call[u].role = call[c].role
    <3>1. u \in Talks(cli[k])
      BY <2>1, <2>2 DEF Talks
    <3> QED
      BY <1>2, <3>1 DEF Pipes
  <2>4. u = c \/ call[c].role \in Spoiled
    <3>1. CASE cli[k].kept = "no"
      <4>1. Heeds(c, "read", cli[k])
        BY <1>1, <1>2 DEF Pipes
      <4> QED
        BY <2>1, <2>2, <3>1, <4>1 DEF Heeds
    <3>2. CASE cli[k].kept # "no"
      <4>1. Spoils(k)
        BY <1>2, <3>2 DEF Spoils
      <4> QED
        BY <1>2, <4>1, SpoiledIs
    <3> QED
      BY <3>1, <3>2
  <2>5. /\ AskedOf(new) = AskedOf(call[c]) /\ PhaseOf(new) = PhaseOf(call[c])
        /\ PhaseOf(call[c]) = "served" /\ AskedOf(call[c]) = call[c].role
        /\ AskedOf(call[u]) = call[c].role
    BY <1>1, <1>3, <2>3 DEF AskedOf, PhaseOf
  <2>6. /\ Asked' = [Asked EXCEPT ![c] = Asked[c]] /\ Phase' = [Phase EXCEPT ![c] = Phase[c]]
        /\ Heard' = [Heard EXCEPT ![c] = Heard[c] \union {u}]
        /\ Phase[c] = "served" /\ Asked[c] = call[c].role
    BY <1>3, <1>7, <2>2, <2>5, Moves
  <2>7. Asked' = Asked
    BY <2>6 DEF Asked
  <2>8. Phase' = Phase
    BY <2>6 DEF Phase
  <2>9. Asked[u] = call[c].role
    BY <2>5 DEF Asked
  <2>10. Service!Hear(c, u)
    BY <1>4, <2>4, <2>6, <2>7, <2>8, <2>9 DEF Service!Hear
  <2> QED
    BY <2>10 DEF Serves, Service!Next
<1> QED
  BY <1>6, <1>7

LEMMA SendsServe == ASSUME Shape, Sends PROVE Serves
<1>1. PICK c \in CallIds, new \in Calls :
        /\ call[c] = NoCall /\ Step(c, new) /\ new.pc \in {"check", "preflight", "shut", "ping"}
        /\ UNCHANGED <<turnLock, sess, cli>> /\ new.heard = {} /\ Fits(new)
  BY SendsIs
<1>2. /\ AskedOf(call[c]) = "none" /\ PhaseOf(call[c]) = "idle" /\ call[c].heard = {}
  BY <1>1 DEF NoCall, AskedOf, PhaseOf
<1>3. Spoiled' = Spoiled
  BY <1>1, SpoiledSame
<1>4. CASE new.kind # "turn"
  <2>1. AskedOf(new) = "none" /\ PhaseOf(new) = "idle"
    BY <1>4 DEF AskedOf, PhaseOf
  <2> QED
    BY <1>1, <1>2, <1>3, <2>1, Stays, Silent
<1>5. CASE new.kind = "turn"
  <2>1. new.pc = "check" /\ new.role \in Roles
    BY <1>1, <1>5 DEF Fits
  <2>2. AskedOf(new) = new.role /\ PhaseOf(new) = "waiting"
    BY <1>5, <2>1 DEF AskedOf, PhaseOf
  <2>3. /\ Asked' = [Asked EXCEPT ![c] = new.role] /\ Phase' = [Phase EXCEPT ![c] = "waiting"]
        /\ Heard' = [Heard EXCEPT ![c] = Heard[c]] /\ Phase[c] = "idle"
    BY <1>1, <1>2, <2>2, Moves
  <2>4. Heard' = Heard
    BY <2>3 DEF Heard
  <2>5. Service!Ask(c, new.role)
    BY <1>3, <2>3, <2>4 DEF Service!Ask
  <2> QED
    BY <2>1, <2>5 DEF Serves, Service!Next
<1> QED
  BY <1>4, <1>5

LEMMA OutsideServes ==
  ASSUME Shape, Hears \/ Abandons \/ \E k \in CliIds : Answers(k) \/ Exits(k)
  PROVE  Serves
<1>1. UNCHANGED <<call, sess>>
  BY OutsideSteps
<1>2. \A k \in CliIds : cli'[k].kept = cli[k].kept /\ cli'[k].role = cli[k].role
  <2>1. CASE Hears \/ Abandons
    BY <2>1 DEF Hears, Abandons
  <2>2. CASE \E k \in CliIds : Answers(k)
    BY <2>2, AnswersIs
  <2>3. CASE \E k \in CliIds : Exits(k)
    BY <2>3, ExitsIs
  <2> QED
    BY <2>1, <2>2, <2>3
<1>3. Spoiled' = Spoiled
  BY <1>1, <1>2, SpoiledSame
<1>4. UNCHANGED <<Asked, Phase, Heard>>
  BY <1>1 DEF Asked, Phase, Heard, AskedOf, PhaseOf
<1> QED
  BY <1>3, <1>4, Silent

LEMMA PromptTells ==
  ASSUME cli \in [CliIds -> Clis], NEW c \in CallIds,
         cli' = [cli EXCEPT ![Cli(c)].inbox = Append(@, c), ![Cli(c)].greeted = TRUE]
  PROVE  \A n \in CliIds : cli'[n].kept = cli[n].kept /\ cli'[n].role = cli[n].role
<1>1. PICK k, q : k = Cli(c) /\ q = Append(cli[k].inbox, c)
  OBVIOUS
<1>2. cli' = [cli EXCEPT ![k] = [@ EXCEPT !.inbox = q, !.greeted = TRUE]]
  BY <1>1
<1>3. ASSUME NEW n \in CliIds
      PROVE  cli'[n].kept = cli[n].kept /\ cli'[n].role = cli[n].role
  <2>1. CASE n # k
    BY <1>2, <2>1
  <2>2. CASE n = k
    <3>1. cli'[n] = [cli[n] EXCEPT !.inbox = q, !.greeted = TRUE] /\ cli[n] \in Clis
      BY <1>2, <2>2
    <3> QED
      BY <3>1 DEF Clis
  <2> QED
    BY <2>1, <2>2
<1> QED
  BY <1>3

LEMMA DrainTells ==
  ASSUME cli \in [CliIds -> Clis], NEW k, cli' = [cli EXCEPT ![k].out = <<>>]
  PROVE  \A n \in CliIds : cli'[n].kept = cli[n].kept /\ cli'[n].role = cli[n].role
<1>1. ASSUME NEW n \in CliIds
      PROVE  cli'[n].kept = cli[n].kept /\ cli'[n].role = cli[n].role
  <2>1. CASE n # k
    BY <2>1
  <2>2. CASE n = k
    <3>1. cli'[n] = [cli[n] EXCEPT !.out = <<>>] /\ cli[n] \in Clis
      BY <2>2
    <3> QED
      BY <3>1 DEF Clis
  <2> QED
    BY <2>1, <2>2
<1> QED
  BY <1>1

LEMMA ThreadServes ==
  ASSUME Shape, Locked, NEW c \in CallIds,
         \/ Checks(c) \/ Ensures(c) \/ EntersTurn(c) \/ Polls(c) \/ ReadsEnd(c)
         \/ Expires(c) \/ Preflights(c) \/ TearsDown(c) \/ Pings(c) \/ Reports(c) \/ Clears(c)
         \/ Shuts(c) \/ ReapsOrphans(c) \/ LooksUp(c) \/ Prompts(c) \/ Drains(c)
  PROVE  Serves
<1> USE DEF RolePcs, Pcs, Told
<1>0. call[c] \in Calls /\ Fits(call[c]) /\ sess \in [SessIds -> Sessions] /\ cli \in [CliIds -> Clis]
  BY DEF Shape, Types
<1>1. CASE Checks(c)
  <2>1. call[c].pc = "check" /\ call[c].kind = "turn" /\ UNCHANGED <<cli, sess>>
    BY <1>0, <1>1 DEF Checks, At, Fits, TurnPcs
  <2>2. Spoiled' = Spoiled
    BY <2>1, SpoiledSame
  <2>3. CASE Step(c, Ends(c, "refused"))
    BY <2>1, <2>2, <2>3, EndsServe
  <2>4. CASE Go(c, "queue")
    <3>1. PICK new \in Calls :
            /\ Step(c, new) /\ new.pc = "queue" /\ new.kind = call[c].kind
            /\ new.role = call[c].role /\ new.heard = call[c].heard
      BY <2>4, GoIs DEF Shape
    <3>2. AskedOf(new) = AskedOf(call[c]) /\ PhaseOf(new) = PhaseOf(call[c])
      BY <2>1, <3>1 DEF AskedOf, PhaseOf
    <3> QED
      BY <2>2, <3>1, <3>2, Stays, Silent
  <2> QED
    BY <1>1, <2>3, <2>4 DEF Checks
<1>2. CASE Ensures(c) \/ EntersTurn(c)
  <2>1. call[c].pc \in {"ensure", "enter"} /\ cli' = cli
    BY <1>2 DEF Ensures, EntersTurn, At
  <2>2. sess' = sess \/ sess' = [sess EXCEPT ![call[c].s].lock = c]
    BY <1>2 DEF Ensures, EntersTurn
  <2>3. \A s \in SessIds : sess'[s].cli = sess[s].cli
    BY <1>0, <2>2 DEF Sessions
  <2>4. Spoiled' = Spoiled
    BY <2>1, <2>3, SpoiledSame
  <2>5. \/ Go(c, "enter") \/ Go(c, "spawn") \/ Go(c, "drain") \/ Go(c, "revive")
        \/ call[c].kind # "turn" /\ Step(c, NextRole(c))
    BY <1>2 DEF Ensures, EntersTurn
  <2> QED
    BY <2>1, <2>4, <2>5, GoesServe, NextRoleServes
<1>3. CASE Polls(c) \/ Prompts(c)
  <2>1. call[c].pc \in {"poll", "write"}
    BY <1>3 DEF Polls, Prompts, At
  <2>2. CASE Leaves(c, GivesUp(c)) /\ cli' = cli
    <3>1. Step(c, GivesUp(c)) /\ sess' = [sess EXCEPT ![call[c].s].lock = None]
      BY <2>2 DEF Leaves
    <3>2. \A s \in SessIds : sess'[s].cli = sess[s].cli
      BY <1>0, <3>1 DEF Sessions
    <3>3. Spoiled' = Spoiled
      BY <2>2, <3>2, SpoiledSame
    <3> QED
      BY <2>1, <3>1, <3>3, GivesUpServes
  <2>3. CASE /\ Go(c, "poll") /\ sess' = sess
             /\ cli' = [cli EXCEPT ![Cli(c)].inbox = Append(@, c), ![Cli(c)].greeted = TRUE]
    <3>1. \A n \in CliIds : cli'[n].kept = cli[n].kept /\ cli'[n].role = cli[n].role
      BY <1>0, <2>3, PromptTells
    <3>2. Spoiled' = Spoiled
      BY <2>3, <3>1, SpoiledSame
    <3> QED
      BY <2>1, <2>3, <3>2, GoesServe
  <2>4. CASE Go(c, "read") /\ UNCHANGED <<sess, cli>>
    <3>1. Spoiled' = Spoiled
      BY <2>4, SpoiledSame
    <3> QED
      BY <2>1, <2>4, <3>1, GoesServe
  <2> QED
    BY <1>3, <2>2, <2>3, <2>4 DEF Polls, Prompts
<1>4. CASE ReadsEnd(c) \/ Expires(c) \/ Drains(c)
  <2>1. call[c].pc \in {"poll", "read", "drain"} /\ sess' = sess
    BY <1>4 DEF ReadsEnd, Expires, Drains, At
  <2>2. Go(c, "poll") \/ Go(c, "kill") \/ Go(c, "write")
    BY <1>4 DEF ReadsEnd, Expires, Drains
  <2>3. cli' = cli \/ cli' = [cli EXCEPT ![Cli(c)].out = <<>>]
    BY <1>4 DEF ReadsEnd, Expires, Drains, Stale
  <2>4. \A n \in CliIds : cli'[n].kept = cli[n].kept /\ cli'[n].role = cli[n].role
    BY <1>0, <2>3, DrainTells
  <2>5. Spoiled' = Spoiled
    BY <2>1, <2>4, SpoiledSame
  <2> QED
    BY <2>1, <2>2, <2>5, GoesServe
<1>5. CASE Preflights(c)
  <2>1. call[c].pc = "preflight" /\ call[c].kind # "turn" /\ UNCHANGED <<cli, sess>>
    BY <1>0, <1>5 DEF Preflights, At, Fits
  <2>2. Go(c, "lookup") \/ Step(c, Ends(c, "refused"))
    BY <1>5 DEF Preflights
  <2>3. Spoiled' = Spoiled
    BY <2>1, SpoiledSame
  <2> QED
    BY <2>1, <2>2, <2>3, GoesServe, EndsServe
<1>6. CASE TearsDown(c) \/ Pings(c) \/ Reports(c)
  <2>1. call[c].pc \in {"close", "ping", "sample"} /\ UNCHANGED <<cli, sess>>
    BY <1>6 DEF TearsDown, Pings, Reports, At
  <2>2. \E how \in Told : Step(c, Ends(c, how))
    BY <1>0, <1>6 DEF TearsDown, Pings, Reports, Calls
  <2>3. Spoiled' = Spoiled
    BY <2>1, SpoiledSame
  <2> QED
    BY <2>1, <2>2, <2>3, EndsServe
<1>7. CASE Clears(c)
  <2>1. call[c].pc = "shutting" /\ call[c].kind # "turn" /\ UNCHANGED <<cli, sess>> /\ Go(c, "close")
    BY <1>0, <1>7 DEF Clears, At, Fits
  <2>2. Spoiled' = Spoiled
    BY <2>1, SpoiledSame
  <2> QED
    BY <2>1, <2>2, GoesServe
<1>8. CASE Shuts(c)
  <2>1. PICK new \in Calls : Step(c, new) /\ new.kind = "teardown" /\ new.heard = call[c].heard
    BY <1>8, ShutsIs
  <2>2. call[c].kind = "teardown" /\ UNCHANGED <<cli, sess>>
    BY <1>8, ShutsIs DEF Shuts
  <2>3. Spoiled' = Spoiled
    BY <2>2, SpoiledSame
  <2> QED
    BY <2>1, <2>2, <2>3, WorkServes
<1>9. CASE ReapsOrphans(c)
  <2>1. call[c].pc = "reap" /\ cli' = cli /\ sess' = [sess EXCEPT ![call[c].s].lock = None]
    BY <1>9 DEF ReapsOrphans, Leaves, At
  <2>2. \A s \in SessIds : sess'[s].cli = sess[s].cli
    BY <1>0, <2>1 DEF Sessions
  <2>3. Spoiled' = Spoiled
    BY <2>1, <2>2, SpoiledSame
  <2>4. PICK new : new = [call[c] EXCEPT !.pc = "sample"]
    OBVIOUS
  <2>5. /\ new \in Calls /\ new.pc = "sample" /\ new.kind = call[c].kind
        /\ new.role = call[c].role /\ Step(c, new) /\ new.heard = call[c].heard
    BY <1>0, <1>9, <2>4 DEF Calls, ReapsOrphans, Leaves
  <2> QED
    BY <2>1, <2>3, <2>5, WorkServes
<1>10. CASE LooksUp(c)
  <2>1. call[c].pc = "lookup" /\ cli' = cli
    BY <1>10 DEF LooksUp, At
  <2>2. sess' = sess \/ sess' = [sess EXCEPT ![NewSess].role = call[c].role]
    BY <1>10 DEF LooksUp
  <2>3. \A s \in SessIds : sess'[s].cli = sess[s].cli
    BY <1>0, <2>2 DEF Sessions
  <2>4. Spoiled' = Spoiled
    BY <2>1, <2>3, SpoiledSame
  <2>5. CASE Go(c, "evict")
    BY <2>1, <2>4, <2>5, GoesServe
  <2>6. CASE Registers(c)
    <3>1. PICK new \in Calls : /\ Step(c, new) /\ new.pc = "ensure" /\ new.kind = call[c].kind
                               /\ new.role = call[c].role /\ new.heard = call[c].heard
      BY <2>1, <2>6, RegistersIs
    <3> QED
      BY <2>1, <2>4, <3>1, WorkServes
  <2>7. CASE Step(c, [call[c] EXCEPT !.s = registry[call[c].role], !.pc = "ensure"])
    <3>1. PICK new : new = [call[c] EXCEPT !.s = registry[call[c].role], !.pc = "ensure"]
      OBVIOUS
    <3>2. registry[call[c].role] \in SessIds \union {None}
      BY <2>1, AtRole DEF Shape, Types
    <3>3. /\ new \in Calls /\ new.pc = "ensure" /\ new.kind = call[c].kind
          /\ new.role = call[c].role /\ Step(c, new) /\ new.heard = call[c].heard
      BY <1>0, <2>7, <3>1, <3>2 DEF Calls
    <3> QED
      BY <2>1, <2>4, <3>3, WorkServes
  <2> QED
    BY <1>10, <2>5, <2>6, <2>7 DEF LooksUp
<1> QED
  BY <1>1, <1>2, <1>3, <1>4, <1>5, <1>6, <1>7, <1>8, <1>9, <1>10

\* A kill that raises leaves the session its process.
LEMMA RaisedKeeps ==
  ASSUME Types, NEW s \in SessIds, NEW c \in CallIds, NEW o \in Kills(c, s)
  PROVE  /\ o.told = "raised" => Forgotten(s, o) = sess[s].cli
         /\ Forgotten(s, o) \in {None, sess[s].cli}
<1>1. o.told = "raised" => ~o.forget
  BY OutcomeIs
<1>2. ~o.forget => Forgotten(s, o) = sess[s].cli
  BY Zenon DEF Forgotten
<1>3. Forgotten(s, o) \in {None, sess[s].cli}
  BY DEF Forgotten
<1> QED
  BY <1>1, <1>2, <1>3

LEMMA EvictsServe ==
  ASSUME Shape, Locked, NEW c \in CallIds, Evicts(c)
  PROVE  Serves
<1>0. PICK s, r : s = registry[call[c].role] /\ r = call[c].role
  OBVIOUS
<1>1. /\ call[c].pc = "evict" /\ call[c].pc \in RolePcs /\ s \in SessIds /\ s \in Made
      /\ sess[s].role = r /\ "here" \in Marks \ {"no"} /\ call[c] \in Calls /\ r \in Roles
      /\ sess \in [SessIds -> Sessions] /\ Types
  BY <1>0, EvictsIs, AtRole DEF Marks, Shape, Types
<1>2. PICK o \in Kills(c, s) :
        /\ cli' = Dead(s, o, "here")
        /\ IF o.told = "raised"
           THEN /\ sess' = sess
                /\ IF call[c].kind = "turn"
                   THEN Step(c, Ends(c, "error")) /\ turnLock' = [turnLock EXCEPT ![call[c].role] = None]
                   ELSE Step(c, NextRole(c)) /\ UNCHANGED turnLock
           ELSE /\ Registers(c) /\ UNCHANGED turnLock
                /\ sess' = [sess EXCEPT ![s].cli = Forgotten(s, o), ![NewSess].role = call[c].role]
  BY <1>0 DEF Evicts
<1>3. CASE o.told = "raised"
  <2>1. sess' = sess
    BY <1>2, <1>3
  <2>2. Spoiled' \in {Spoiled, Spoiled \union {r}}
    BY <1>1, <1>2, <2>1, KillSpoils
  <2>3. CASE call[c].kind = "turn"
    <3>1. Step(c, Ends(c, "error")) /\ "error" \in Told
      BY <1>2, <1>3, <2>3 DEF Told
    <3> QED
      BY <1>0, <1>1, <2>2, <2>3, <3>1, EndsServe
  <2>4. CASE call[c].kind # "turn"
    <3>1. Step(c, NextRole(c))
      BY <1>2, <1>3, <2>4
    <3> QED
      BY <1>1, <2>2, <2>4, <3>1, NextRoleServes
  <2> QED
    BY <2>3, <2>4
<1>4. CASE o.told # "raised"
  <2>1. Registers(c) /\ sess' = [sess EXCEPT ![s].cli = Forgotten(s, o), ![NewSess].role = r]
    BY <1>0, <1>2, <1>4
  <2>2. PICK new \in Calls :
          /\ Step(c, new) /\ new.pc = "ensure" /\ new.kind = call[c].kind
          /\ new.role = call[c].role /\ new.heard = call[c].heard
    BY <1>1, <2>1, RegistersIs
  <2>3. NewSess \in SessIds /\ NewSess \notin Made
    BY <1>1, <2>1, RegistersIs
  <2>4. PICK n, f : n = NewSess /\ f = Forgotten(s, o)
    OBVIOUS
  <2>5. n # s /\ n \in SessIds /\ sess' = [sess EXCEPT ![s].cli = f, ![n].role = r]
    BY <1>1, <2>1, <2>3, <2>4
  <2>6. \A t \in SessIds : sess'[t].cli = IF t = s THEN f ELSE sess[t].cli
    BY <1>1, <2>5 DEF Sessions
  <2>7. f \in {None, sess[s].cli}
    BY <1>1, <2>4, RaisedKeeps
  <2>8. Spoiled' \in {Spoiled \union {r}, Spoiled \ {r}}
    BY <1>1, <1>2, <2>6, <2>7, KillSpoils
  <2>9. new.pc \in RolePcs
    BY <2>2 DEF RolePcs
  <2> QED
    BY <1>1, <2>2, <2>8, <2>9, WorkServes
<1> QED
  BY <1>3, <1>4

LEMMA KillsLateServe ==
  ASSUME Shape, Locked, NEW c \in CallIds, KillsLate(c)
  PROVE  Serves
<1>0. PICK s, r : s = call[c].s /\ r = call[c].role
  OBVIOUS
<1>1. /\ call[c].pc = "kill" /\ call[c].pc \in RolePcs /\ s \in SessIds /\ s \in Made
      /\ call[c].kind = "turn" /\ sess[s].role = r /\ "here" \in Marks \ {"no"} /\ r \in Roles
      /\ sess \in [SessIds -> Sessions] /\ Types
  <2>1. /\ call[c].pc = "kill" /\ call[c].pc \in RolePcs /\ s \in SessIds /\ s \in Made
        /\ call[c].kind = "turn" /\ call[c].pc \in SessPcs /\ r \in Roles
    BY <1>0, KillsLateIs
  <2> QED
    BY <1>0, <2>1 DEF Marks, Shape, Types, HasSession
<1>2. PICK o \in Kills(c, s) :
        /\ cli' = Dead(s, o, "here")
        /\ sess' = [sess EXCEPT ![s].lock = None, ![s].cli = Forgotten(s, o)]
        /\ IF o.told = "raised" THEN Step(c, Ends(c, "error")) ELSE Step(c, GivesUp(c))
  BY <1>0 DEF KillsLate
<1>3. PICK f : f = Forgotten(s, o)
  OBVIOUS
<1>4. \A t \in SessIds : sess'[t].cli = IF t = s THEN f ELSE sess[t].cli
  BY <1>1, <1>2, <1>3 DEF Sessions
<1>5. f \in {None, sess[s].cli} /\ (o.told = "raised" => f = sess[s].cli)
  BY <1>1, <1>3, RaisedKeeps
<1>6. /\ Spoiled' \in {Spoiled \union {r}, Spoiled \ {r}}
      /\ f = sess[s].cli => Spoiled' \in {Spoiled, Spoiled \union {r}}
  BY <1>1, <1>2, <1>4, <1>5, KillSpoils
<1>7. CASE o.told = "raised"
  <2>1. Spoiled' \in {Spoiled, Spoiled \union {r}} /\ Step(c, Ends(c, "error")) /\ "error" \in Told
    BY <1>2, <1>5, <1>6, <1>7 DEF Told
  <2> QED
    BY <1>0, <1>1, <2>1, EndsServe
<1>8. CASE o.told # "raised"
  <2>1. Step(c, GivesUp(c))
    BY <1>2, <1>8
  <2> QED
    BY <1>1, <1>6, <2>1, GivesUpServes
<1> QED
  BY <1>7, <1>8

\* A new process takes the place of the session's old one.
LEMMA NewCliSpoils ==
  ASSUME Shape, NEW s \in SessIds, NEW r \in Roles, sess[s].role = r, NEW n \in CliIds,
         n \notin Born, cli'[n].role = r, cli'[n].kept = "no",
         \A k \in CliIds : k # sess[s].cli /\ k # n => cli'[k] = cli[k],
         sess[s].cli # None => cli'[sess[s].cli].role = cli[sess[s].cli].role,
         \A t \in SessIds : t # s => sess'[t].cli = sess[t].cli, sess'[s].cli = n
  PROVE  Spoiled' \in {Spoiled \union {r}, Spoiled \ {r}}
<1>1. None \notin CliIds
  BY Bounds
<1>2. \A t \in SessIds : sess[t].cli # n
  BY <1>1 DEF Shape, Owned
<1>4. ASSUME NEW k \in CliIds, k # sess[s].cli, k # n
      PROVE  (Spoils(k)' <=> Spoils(k)) /\ cli'[k].role = cli[k].role
  <2>1. cli'[k] = cli[k]
    BY <1>4
  <2>2. (\E t \in SessIds : sess'[t].cli = k) <=> (\E t \in SessIds : sess[t].cli = k)
    BY <1>4
  <2> QED
    BY <2>1, <2>2 DEF Spoils
<1>5. ASSUME NEW k \in CliIds, k = sess[s].cli
      PROVE  cli[k].role = r /\ cli'[k].role = r
  <2>1. k # n /\ cli[k].role = r
    BY <1>1, <1>2, <1>5 DEF Shape, Owned
  <2> QED
    BY <1>1, <1>5, <2>1
<1>6. ~Spoils(n) /\ cli'[n].role = r
  BY <1>2 DEF Spoils
<1>7. ASSUME NEW k \in CliIds
      PROVE  \/ (Spoils(k)' <=> Spoils(k)) /\ cli'[k].role = cli[k].role
             \/ (Spoils(k) => cli[k].role = r) /\ (Spoils(k)' => cli'[k].role = r)
  BY <1>4, <1>5, <1>6
<1> QED
  BY <1>7, SpoiledStep

LEMMA SpawnsServe ==
  ASSUME Shape, Locked, NEW c \in CallIds, SpawnsCli(c)
  PROVE  Serves
<1>0. PICK s, r, n : s = call[c].s /\ r = call[c].role /\ n = NewCli
  OBVIOUS
<1>1. /\ call[c].pc \in {"spawn", "revive"} /\ call[c].pc \in RolePcs
      /\ s \in SessIds /\ sess[s].role = r /\ n \in CliIds /\ n \notin Born
  BY <1>0, SpawnsCliIs
<1>2. PICK child \in Clis, new \in Calls :
        /\ child.role = call[c].role /\ child.inbox = <<>>
        /\ child.out = <<>> /\ child.kept = "no" /\ child.fate # "unborn"
        /\ cli' = [cli EXCEPT ![NewCli] = child]
        /\ sess'[call[c].s] = [role |-> call[c].role, cli |-> NewCli,
                               lock |-> IF new.pc = "drain" THEN c ELSE None]
        /\ sess'[call[c].s].role = call[c].role /\ sess'[call[c].s].cli = NewCli
        /\ \A t \in SessIds : t # call[c].s => sess'[t] = sess[t]
        /\ sess' \in [SessIds -> Sessions] /\ cli' \in [CliIds -> Clis]
        /\ faults' \in 0..MaxFaults
        /\ new.pc \in {"lookup", "sample", "ended", "drain", "enter"}
        /\ Step(c, new) /\ Fits(new) /\ HasSession(new)
        /\ \/ new = GivesUp(c) /\ new.pc \in {"lookup", "sample", "ended"}
           \/ /\ child.fate = "up" /\ call[c].pc = "revive"
              /\ new = [call[c] EXCEPT !.pc = "drain"] /\ new.pc = "drain"
           \/ /\ child.fate = "up" /\ call[c].pc = "spawn" /\ call[c].kind = "turn"
              /\ new = [call[c] EXCEPT !.pc = "enter"] /\ new.pc = "enter"
           \/ /\ child.fate = "up" /\ call[c].pc = "spawn" /\ call[c].kind # "turn"
              /\ new = NextRole(c) /\ new.pc \in {"lookup", "ended"}
  BY SpawnsCliIs
<1>3. r \in Roles /\ cli \in [CliIds -> Clis] /\ call[c] \in Calls
  BY <1>0, <1>1, AtRole DEF Shape, Types
<1>4. Spoiled' \in {Spoiled \union {r}, Spoiled \ {r}}
  <2>1. /\ child.role = r /\ child.kept = "no" /\ cli' = [cli EXCEPT ![n] = child]
        /\ sess'[s].cli = n /\ \A t \in SessIds : t # s => sess'[t].cli = sess[t].cli
    BY <1>0, <1>2
  <2>2. /\ cli'[n].role = r /\ cli'[n].kept = "no"
        /\ \A k \in CliIds : k # n => cli'[k] = cli[k]
    BY <1>1, <1>3, <2>1
  <2>3. sess[s].cli # None => sess[s].cli \in CliIds /\ sess[s].cli # n
    BY <1>1 DEF Shape, Owned, Born
  <2>4. /\ s \in SessIds /\ sess[s].role = r /\ n \in CliIds /\ n \notin Born /\ r \in Roles
    BY <1>1, <1>3
  <2> QED
    BY <2>1, <2>2, <2>3, <2>4, NewCliSpoils
<1>5. CASE new = GivesUp(c)
  BY <1>1, <1>2, <1>3, <1>4, <1>5, GivesUpServes
<1>6. CASE new = [call[c] EXCEPT !.pc = "drain"] \/ new = [call[c] EXCEPT !.pc = "enter"]
  <2>1. /\ new.pc \in RolePcs /\ new.kind = call[c].kind /\ new.role = call[c].role
        /\ new.heard = call[c].heard
    BY <1>3, <1>6 DEF Calls, RolePcs
  <2> QED
    BY <1>1, <1>2, <1>3, <1>4, <2>1, WorkServes
<1>7. CASE call[c].kind # "turn" /\ new = NextRole(c)
  BY <1>1, <1>2, <1>3, <1>4, <1>7, NextRoleServes
<1> QED
  BY <1>2, <1>5, <1>6, <1>7

LEMMA ReplacesServe ==
  ASSUME Shape, Locked, NEW c \in CallIds, Replaces(c)
  PROVE  Serves
<1>0. PICK s, r, n : s = call[c].s /\ r = call[c].role /\ n = NewCli
  OBVIOUS
<1>1. /\ call[c].pc = "respawn" /\ call[c].pc \in RolePcs /\ call[c].kind = "turn"
      /\ s \in SessIds /\ sess[s].role = r /\ n \in CliIds /\ n \notin Born /\ r \in Roles
      /\ "here" \in Marks \ {"no"} /\ "replaced" \in Marks
      /\ sess \in [SessIds -> Sessions] /\ Types
  BY <1>0, ReplacesIs DEF Marks, Shape, Types
<1>2. Go(c, "reap") /\ "reap" \in Pcs /\ "reap" \in RolePcs
  BY DEF Replaces, Pcs, RolePcs
<1>3. PICK o \in Kills(c, s) :
        \/ cli' = Dead(s, o, "here") /\ sess' = sess
        \/ \E child \in Clis, d \in [CliIds -> Clis] :
             /\ d = Dead(s, o, "replaced") /\ child.role = r /\ child.kept = "no"
             /\ cli' = [d EXCEPT ![n] = child] /\ sess' = [sess EXCEPT ![s].cli = n]
  BY <1>0, ReplacesIs
<1>4. CASE cli' = Dead(s, o, "here") /\ sess' = sess
  <2>1. Spoiled' \in {Spoiled \union {r}, Spoiled \ {r}}
    BY <1>1, <1>4, KillSpoils
  <2> QED
    BY <1>1, <1>2, <2>1, GoesServe
<1>5. ASSUME NEW child \in Clis, NEW d \in [CliIds -> Clis],
             d = Dead(s, o, "replaced"), child.role = r, child.kept = "no",
             cli' = [d EXCEPT ![n] = child], sess' = [sess EXCEPT ![s].cli = n]
      PROVE  Serves
  <2>1. /\ \A k \in CliIds : k # sess[s].cli => d[k] = cli[k]
        /\ sess[s].cli # None => d[sess[s].cli].role = cli[sess[s].cli].role
    BY <1>1, <1>5, DeadIs
  <2>2. /\ \A t \in SessIds : t # s => sess'[t].cli = sess[t].cli
        /\ sess'[s].cli = n
    BY <1>1, <1>5 DEF Sessions
  <2>3. /\ cli'[n].role = r /\ cli'[n].kept = "no"
        /\ \A k \in CliIds : k # n => cli'[k] = d[k]
    BY <1>1, <1>5
  <2>4. sess[s].cli # None => sess[s].cli \in CliIds /\ sess[s].cli # n
    BY <1>1 DEF Shape, Owned, Born
  <2>5. Spoiled' \in {Spoiled \union {r}, Spoiled \ {r}}
    BY <1>1, <2>1, <2>2, <2>3, <2>4, NewCliSpoils
  <2> QED
    BY <1>1, <1>2, <2>5, GoesServe
<1> QED
  BY <1>3, <1>4, <1>5

LEMMA ShutsOneServe ==
  ASSUME Shape, Locked, NEW c \in CallIds, NEW r \in Roles, ShutsOne(c, r)
  PROVE  Serves
<1>1. PICK s : s = registry[r]
  OBVIOUS
<1>2. /\ call[c].pc = "shutting" /\ s \in SessIds /\ call[c].kind = "teardown"
      /\ sess[s].role = r /\ "torn" \in Marks \ {"no"} /\ Types
  BY <1>1, ShutsOneIs DEF Marks, Shape
<1>3. PICK o \in Kills(c, s), new \in Calls :
        /\ cli' = Dead(s, o, "torn")
        /\ sess'[s] = [role |-> r, lock |-> None, cli |-> Forgotten(s, o)]
        /\ \A t \in SessIds : t # s => sess'[t] = sess[t]
        /\ Step(c, new) /\ new.kind = "teardown" /\ new.heard = call[c].heard
  BY <1>1, ShutsOneIs
<1>4. Forgotten(s, o) \in {None, sess[s].cli}
  BY <1>2, RaisedKeeps
<1>5. Spoiled' \in {Spoiled \union {r}, Spoiled \ {r}}
  BY <1>2, <1>3, <1>4, KillSpoils
<1> QED
  BY <1>2, <1>3, <1>5, WorkServes

LEMMA ServiceInit == Init => Service!Init
<1> SUFFICES ASSUME Init PROVE Service!Init
  OBVIOUS
<1>1. \A c \in CallIds : call[c].kind = "none" /\ call[c].heard = {}
  BY DEF Init, NoCall
<1>2. \A k \in CliIds : cli[k].kept = "no"
  BY DEF Init
<1>3. Asked = [c \in CallIds |-> "none"] /\ Phase = [c \in CallIds |-> "idle"]
      /\ Heard = [c \in CallIds |-> {}]
  BY <1>1 DEF Asked, Phase, Heard, AskedOf, PhaseOf
<1>4. Spoiled = {}
  BY <1>2 DEF Spoiled
<1> QED
  BY <1>3, <1>4 DEF Service!Init

LEMMA ServesNext == Shape /\ Locked /\ Pipes /\ [Next]_vars => Serves
<1> SUFFICES ASSUME Shape, Locked, Pipes, [Next]_vars PROVE Serves
  OBVIOUS
<1>1. CASE UNCHANGED vars
  <2>1. UNCHANGED <<call, sess, cli>>
    BY <1>1 DEF vars
  <2>2. UNCHANGED <<Asked, Phase, Heard, Spoiled>>
    BY <2>1 DEF Asked, Phase, Heard, AskedOf, PhaseOf, Spoiled
  <2> QED
    BY <2>2, Silent
<1>2. CASE Sends
  BY <1>2, SendsServe
<1>3. CASE Hears \/ Abandons \/ \E k \in CliIds : Answers(k) \/ Exits(k)
  BY <1>3, OutsideServes
<1>4. ASSUME NEW c \in CallIds, Works(c) \/ Expires(c) PROVE Serves
  <2>1. CASE \/ Checks(c) \/ Ensures(c) \/ EntersTurn(c) \/ Polls(c) \/ ReadsEnd(c)
             \/ Expires(c) \/ Preflights(c) \/ TearsDown(c) \/ Pings(c) \/ Reports(c) \/ Clears(c)
             \/ Shuts(c) \/ ReapsOrphans(c) \/ LooksUp(c) \/ Prompts(c) \/ Drains(c)
    BY <2>1, ThreadServes
  <2>2. CASE TakesTurn(c) \/ Reads(c)
    BY <2>2, TakesTurnServes, ReadsServe
  <2>3. CASE Evicts(c) \/ SpawnsCli(c) \/ Replaces(c) \/ KillsLate(c)
    BY <2>3, EvictsServe, SpawnsServe, ReplacesServe, KillsLateServe
  <2>4. CASE \E r \in call[c].left : ShutsOne(c, r)
    <3>1. call[c].left \subseteq Roles
      BY DEF Shape, Types, Calls
    <3> QED
      BY <2>4, <3>1, ShutsOneServe
  <2> QED
    BY <1>4, <2>1, <2>2, <2>3, <2>4 DEF Works
<1> QED
  BY <1>1, <1>2, <1>3, <1>4 DEF Next, Runs

\* A runner serves turns as the gateway counts on: every step of a thread, a
\* process or the gateway is a step of TurnService or changes nothing of it.
THEOREM Refinement == Spec => ServesTurns
<1>1. Spec => Service!Init
  BY ServiceInit DEF Spec
<1>2. Shape /\ Locked /\ Pipes /\ [Next]_vars => [Service!Next]_Service!service
  BY ServesNext DEF Serves
<1>3. Spec => [][Service!Next]_Service!service
  BY <1>2, Solid, PipesHold, PTL DEF Spec
<1> QED
  BY <1>1, <1>3, PTL DEF ServesTurns, Service!Spec

-----------------------------------------------------------------------------
(***************************************************************************)
(* What a teardown has seen, and what has become of it.  A process that    *)
(* was replaced belongs to no session; a thread that is about to spawn has *)
(* found no live process in its session.                                   *)
(***************************************************************************)
Tearing(x) ==
    /\ x.saw \subseteq Born
    /\ x.pc = "shutting" /\ x.answer # "failed" =>
         \A k \in x.saw : Up(k) =>
           cli[k].kept = "replaced" \/ \E r \in x.left : sess[registry[r]].cli = k
    /\ (x.pc = "close" /\ x.answer # "failed")
         \/ (x.pc = "ended" /\ x.kind = "teardown" /\ x.answer = "ok") =>
         \A k \in x.saw : Up(k) => cli[k].kept = "replaced"

Tears ==
    /\ \A k \in CliIds : cli[k].kept = "replaced" => \A s \in SessIds : sess[s].cli # k
    /\ \A c \in CallIds : Tearing(call[c])
    /\ \A c \in CallIds : call[c].pc \in {"spawn", "revive"} => ~Alive(call[c].s)

\* A step that changes no process, nor which session has it.
Steady(c) ==
    /\ \A s \in SessIds : sess'[s].cli = sess[s].cli
    /\ \A k \in CliIds : cli'[k].fate = cli[k].fate /\ cli'[k].kept = cli[k].kept
    /\ \/ registry' = registry
       \/ /\ call[c].pc = "lookup" /\ regLock = None /\ registry[call[c].role] = None
          /\ \A r \in Roles : r # call[c].role => registry'[r] = registry[r]

Going(c, new) ==
    /\ new.kind = call[c].kind /\ new.saw = call[c].saw
    /\ call[c].pc \notin {"unsent", "ended"} /\ new.pc \notin {"unsent", "shutting", "close"}
    /\ new.pc \in RolePcs => \/ call[c].pc \in RolePcs /\ new.role = call[c].role
                             \/ new.pc = "lookup"
    /\ new.pc \in SessPcs => \/ /\ call[c].pc \in SessPcs /\ new.s = call[c].s
                                /\ new.role = call[c].role /\ registry' = registry
                             \/ new.s = registry'[new.role]
    /\ new.pc \in {"spawn", "revive"} => ~Alive(new.s)
    /\ new.pc = "evict" => registry' = registry /\ ~Alive(registry[new.role])
    /\ new.kind = "teardown" /\ new.pc = "ended" =>
         /\ call[c].pc = "close"
         /\ new.answer = "ok" => call[c].answer # "failed"

LEMMA SteadyGo ==
  ASSUME Shape, NEW c \in CallIds, NEW pc \in Pcs, Go(c, pc),
         call[c].pc \notin {"unsent", "ended"}, pc \notin {"unsent", "shutting", "close", "ended"},
         pc \in RolePcs => call[c].pc \in RolePcs \/ pc = "lookup",
         pc \in SessPcs => call[c].pc \in SessPcs /\ registry' = registry,
         pc \in {"spawn", "revive"} => ~Alive(call[c].s),
         pc = "evict" => registry' = registry /\ ~Alive(registry[call[c].role])
  PROVE  \E new \in Calls : Step(c, new) /\ Going(c, new)
<1>1. PICK new \in Calls :
        /\ Step(c, new) /\ new.pc = pc /\ new.kind = call[c].kind /\ new.role = call[c].role
        /\ new.s = call[c].s /\ new.saw = call[c].saw
  BY GoIs DEF Shape
<1>2. Going(c, new)
  BY <1>1 DEF Going
<1> QED
  BY <1>1, <1>2

LEMMA SteadyEnd ==
  ASSUME Shape, NEW c \in CallIds, NEW how \in Told, Step(c, Ends(c, how)),
         call[c].pc \notin {"unsent", "ended"},
         call[c].kind = "teardown" =>
           /\ call[c].pc = "close"
           /\ how = "ok" => call[c].answer # "failed"
  PROVE  \E new \in Calls : Step(c, new) /\ Going(c, new)
<1>1. PICK new : new = Ends(c, how)
  OBVIOUS
<1>2. /\ new \in Calls /\ new.pc = "ended" /\ new.kind = call[c].kind /\ new.saw = call[c].saw
      /\ new.answer = how /\ Step(c, new)
  BY <1>1, EndsIs DEF Shape
<1>3. Going(c, new)
  BY <1>2 DEF Going, RolePcs, SessPcs
<1> QED
  BY <1>2, <1>3

LEMMA SteadyNext ==
  ASSUME Shape, NEW c \in CallIds, Step(c, NextRole(c)), call[c].kind # "teardown",
         call[c].pc \notin {"unsent", "ended"}
  PROVE  \E new \in Calls : Step(c, new) /\ Going(c, new)
<1>1. PICK new : new = NextRole(c)
  OBVIOUS
<1>2. /\ new \in Calls /\ new.pc \in {"lookup", "ended"} /\ new.kind = call[c].kind
      /\ new.saw = call[c].saw /\ Step(c, new)
  BY <1>1, NextRoleIs DEF Shape
<1>3. Going(c, new)
  BY <1>2 DEF Going, RolePcs, SessPcs
<1> QED
  BY <1>2, <1>3

LEMMA SteadyGiveUp ==
  ASSUME Shape, NEW c \in CallIds, Step(c, GivesUp(c)), call[c].pc \in RolePcs
  PROVE  \E new \in Calls : Step(c, new) /\ Going(c, new)
<1>1. call[c].kind \in {"turn", "resume"} /\ call[c].pc \notin {"unsent", "ended"} /\ call[c] \in Calls
  BY AtRole
<1>2. CASE call[c].kind # "turn"
  <2>1. Step(c, NextRole(c))
    BY <1>2 DEF GivesUp
  <2> QED
    BY <1>1, <2>1, SteadyNext
<1>3. CASE call[c].kind = "turn"
  <2>1. PICK new : new = [call[c] EXCEPT !.pc = "sample", !.answer = "failed"]
    OBVIOUS
  <2>2. /\ new \in Calls /\ new.pc = "sample" /\ new.kind = call[c].kind
        /\ new.role = call[c].role /\ Step(c, new) /\ new.saw = call[c].saw
    BY <1>1, <1>3, <2>1 DEF GivesUp, Calls, Pcs, Told
  <2>3. Going(c, new)
    BY <1>1, <1>3, <2>2 DEF Going, RolePcs, SessPcs
  <2> QED
    BY <2>2, <2>3
<1> QED
  BY <1>2, <1>3

LEMMA SteadySess ==
  ASSUME sess \in [SessIds -> Sessions], NEW c \in CallIds, registry' = registry,
         \A k \in CliIds : cli'[k].fate = cli[k].fate /\ cli'[k].kept = cli[k].kept,
         NEW s, NEW x, sess' = sess \/ sess' = [sess EXCEPT ![s].lock = x]
  PROVE  Steady(c)
<1>1. \A t \in SessIds : sess'[t].cli = sess[t].cli
  BY DEF Sessions
<1> QED
  BY <1>1 DEF Steady

LEMMA ReadTells ==
  ASSUME cli \in [CliIds -> Clis], NEW k, NEW q, cli' = [cli EXCEPT ![k].out = q]
  PROVE  \A n \in CliIds : cli'[n].fate = cli[n].fate /\ cli'[n].kept = cli[n].kept
<1>1. ASSUME NEW n \in CliIds
      PROVE  cli'[n].fate = cli[n].fate /\ cli'[n].kept = cli[n].kept
  <2>1. CASE n # k
    BY <2>1
  <2>2. CASE n = k
    <3>1. cli'[n] = [cli[n] EXCEPT !.out = q] /\ cli[n] \in Clis
      BY <2>2
    <3> QED
      BY <3>1 DEF Clis
  <2> QED
    BY <2>1, <2>2
<1> QED
  BY <1>1

LEMMA PromptFate ==
  ASSUME cli \in [CliIds -> Clis], NEW c \in CallIds,
         cli' = [cli EXCEPT ![Cli(c)].inbox = Append(@, c), ![Cli(c)].greeted = TRUE]
  PROVE  \A n \in CliIds : cli'[n].fate = cli[n].fate /\ cli'[n].kept = cli[n].kept
<1>1. PICK k, q : k = Cli(c) /\ q = Append(cli[k].inbox, c)
  OBVIOUS
<1>2. cli' = [cli EXCEPT ![k] = [@ EXCEPT !.inbox = q, !.greeted = TRUE]]
  BY <1>1
<1>3. ASSUME NEW n \in CliIds
      PROVE  cli'[n].fate = cli[n].fate /\ cli'[n].kept = cli[n].kept
  <2>1. CASE n # k
    BY <1>2, <2>1
  <2>2. CASE n = k
    <3>1. cli'[n] = [cli[n] EXCEPT !.inbox = q, !.greeted = TRUE] /\ cli[n] \in Clis
      BY <1>2, <2>2
    <3> QED
      BY <3>1 DEF Clis
  <2> QED
    BY <2>1, <2>2
<1> QED
  BY <1>3

LEMMA LooksUpSteady ==
  ASSUME Shape, Locked, NEW c \in CallIds, LooksUp(c)
  PROVE  Steady(c) /\ \E new \in Calls : Step(c, new) /\ Going(c, new)
<1> DEFINE s == registry[call[c].role]
<1>1. /\ call[c].pc = "lookup" /\ regLock = None /\ cli' = cli /\ call[c].pc \in RolePcs
      /\ call[c].pc \notin {"unsent", "ended"}
  BY DEF LooksUp, At, RolePcs
<1>2. /\ call[c] \in Calls /\ s \in SessIds \union {None} /\ sess \in [SessIds -> Sessions]
      /\ call[c].kind # "teardown"
  BY <1>1, AtRole DEF Shape, Types
<1>3. CASE /\ Alive(s) /\ Step(c, [call[c] EXCEPT !.s = s, !.pc = "ensure"])
           /\ registry' = registry /\ sess' = sess
  <2>1. PICK new : new = [call[c] EXCEPT !.s = s, !.pc = "ensure"]
    OBVIOUS
  <2>2. /\ new \in Calls /\ new.pc = "ensure" /\ new.kind = call[c].kind
        /\ new.role = call[c].role /\ Step(c, new) /\ new.saw = call[c].saw /\ new.s = s
    BY <1>2, <1>3, <2>1 DEF Calls, Pcs
  <2>3. Going(c, new)
    BY <1>1, <1>2, <1>3, <2>2 DEF Going
  <2>4. Steady(c)
    BY <1>1, <1>3 DEF Steady
  <2> QED
    BY <2>2, <2>3, <2>4
<1>4. CASE ~Alive(s) /\ Go(c, "evict") /\ registry' = registry /\ sess' = sess
  <2>1. \E new \in Calls : Step(c, new) /\ Going(c, new)
    BY <1>1, <1>4, SteadyGo DEF Pcs, SessPcs
  <2>2. Steady(c)
    BY <1>1, <1>4 DEF Steady
  <2> QED
    BY <2>1, <2>2
<1>5. CASE s = None /\ Registers(c) /\ sess' = [sess EXCEPT ![NewSess].role = call[c].role]
  <2>1. \A t \in SessIds : sess'[t].cli = sess[t].cli
    BY <1>2, <1>5 DEF Sessions
  <2>2. PICK new \in Calls : /\ Step(c, new) /\ new.pc = "ensure" /\ new.kind = call[c].kind
                             /\ new.role = call[c].role /\ new.saw = call[c].saw
                             /\ new.s = NewSess
    BY <1>1, <1>5, RegistersIs
  <2>3. /\ registry'[call[c].role] = NewSess
        /\ \A r \in Roles : r # call[c].role => registry'[r] = registry[r]
    BY <1>1, <1>5, RegistersIs
  <2>4. Going(c, new)
    BY <1>1, <1>2, <2>2, <2>3 DEF Going
  <2>5. Steady(c)
    BY <1>1, <1>5, <2>1, <2>3 DEF Steady
  <2> QED
    BY <2>2, <2>4, <2>5
<1> QED
  BY <1>3, <1>4, <1>5 DEF LooksUp

LEMMA SteadyWorks ==
  ASSUME Shape, Locked, NEW c \in CallIds,
         \/ Checks(c) \/ TakesTurn(c) \/ Ensures(c) \/ EntersTurn(c) \/ Polls(c) \/ ReadsEnd(c)
         \/ Expires(c) \/ Preflights(c) \/ TearsDown(c) \/ Pings(c) \/ Reports(c)
         \/ ReapsOrphans(c) \/ LooksUp(c) \/ Prompts(c) \/ Drains(c) \/ Reads(c)
  PROVE  Steady(c) /\ \E new \in Calls : Step(c, new) /\ Going(c, new)
<1>0. /\ call[c] \in Calls /\ Fits(call[c]) /\ sess \in [SessIds -> Sessions]
      /\ cli \in [CliIds -> Clis]
  BY DEF Shape, Types
<1>1. CASE Checks(c) \/ TakesTurn(c) \/ Preflights(c)
  <2>1. /\ call[c].pc \in {"check", "queue", "preflight"} /\ UNCHANGED <<cli, sess, registry>>
        /\ call[c].kind # "teardown"
    BY <1>0, <1>1 DEF Checks, TakesTurn, Preflights, At, Fits, TurnPcs
  <2>2. Go(c, "queue") \/ Go(c, "lookup") \/ Step(c, Ends(c, "refused"))
    BY <1>1 DEF Checks, TakesTurn, Preflights
  <2>3. Steady(c)
    BY <2>1 DEF Steady
  <2>4. \E new \in Calls : Step(c, new) /\ Going(c, new)
    BY <2>1, <2>2, SteadyGo, SteadyEnd DEF Pcs, Told, RolePcs, SessPcs
  <2> QED
    BY <2>3, <2>4
<1>2. CASE Ensures(c) \/ EntersTurn(c)
  <2>1. /\ call[c].pc \in {"ensure", "enter"} /\ UNCHANGED <<cli, registry>>
        /\ call[c].kind # "teardown"
    BY <1>0, <1>2 DEF Ensures, EntersTurn, At, Fits, TurnPcs
  <2>2. sess' = sess \/ sess' = [sess EXCEPT ![call[c].s].lock = c]
    BY <1>2 DEF Ensures, EntersTurn
  <2>3. \/ Go(c, "enter") \/ Go(c, "drain") \/ Step(c, NextRole(c))
        \/ (~Alive(call[c].s) /\ (Go(c, "spawn") \/ Go(c, "revive")))
    BY <1>2 DEF Ensures, EntersTurn
  <2>4. Steady(c)
    BY <1>0, <2>1, <2>2, SteadySess
  <2>5. \E new \in Calls : Step(c, new) /\ Going(c, new)
    BY <2>1, <2>3, SteadyGo, SteadyNext DEF Pcs, RolePcs, SessPcs
  <2> QED
    BY <2>4, <2>5
<1>3. CASE Polls(c) \/ Prompts(c)
  <2>1. /\ call[c].pc \in {"poll", "write"} /\ registry' = registry /\ call[c].pc \in RolePcs
    BY <1>3 DEF Polls, Prompts, At, RolePcs
  <2>2. CASE Leaves(c, GivesUp(c)) /\ cli' = cli
    <3>1. Step(c, GivesUp(c)) /\ sess' = [sess EXCEPT ![call[c].s].lock = None]
      BY <2>2 DEF Leaves
    <3>2. Steady(c)
      BY <1>0, <2>1, <2>2, <3>1, SteadySess
    <3> QED
      BY <2>1, <3>1, <3>2, SteadyGiveUp
  <2>3. CASE /\ Go(c, "poll") /\ sess' = sess
             /\ cli' = [cli EXCEPT ![Cli(c)].inbox = Append(@, c), ![Cli(c)].greeted = TRUE]
    <3>1. \A n \in CliIds : cli'[n].fate = cli[n].fate /\ cli'[n].kept = cli[n].kept
      BY <1>0, <2>3, PromptFate
    <3>2. Steady(c)
      BY <1>0, <2>1, <2>3, <3>1, SteadySess
    <3>3. \E new \in Calls : Step(c, new) /\ Going(c, new)
      BY <2>1, <2>3, SteadyGo DEF Pcs, RolePcs, SessPcs
    <3> QED
      BY <3>2, <3>3
  <2>4. CASE Go(c, "read") /\ UNCHANGED <<sess, cli>>
    <3>1. Steady(c)
      BY <2>1, <2>4 DEF Steady
    <3>2. \E new \in Calls : Step(c, new) /\ Going(c, new)
      BY <2>1, <2>4, SteadyGo DEF Pcs, RolePcs, SessPcs
    <3> QED
      BY <3>1, <3>2
  <2> QED
    BY <1>3, <2>2, <2>3, <2>4 DEF Polls, Prompts
<1>4. CASE ReadsEnd(c) \/ Expires(c) \/ Drains(c)
  <2>1. call[c].pc \in {"poll", "read", "drain"} /\ sess' = sess /\ registry' = registry
    BY <1>4 DEF ReadsEnd, Expires, Drains, At
  <2>2. Go(c, "poll") \/ Go(c, "kill") \/ Go(c, "write")
    BY <1>4 DEF ReadsEnd, Expires, Drains
  <2>3. cli' = cli \/ cli' = [cli EXCEPT ![Cli(c)].out = <<>>]
    BY <1>4 DEF ReadsEnd, Expires, Drains, Stale
  <2>4. \A n \in CliIds : cli'[n].fate = cli[n].fate /\ cli'[n].kept = cli[n].kept
    BY <1>0, <2>3, ReadTells
  <2>5. Steady(c)
    BY <2>1, <2>4 DEF Steady
  <2>6. \E new \in Calls : Step(c, new) /\ Going(c, new)
    BY <2>1, <2>2, SteadyGo DEF Pcs, RolePcs, SessPcs
  <2> QED
    BY <2>5, <2>6
<1>5. CASE Pings(c) \/ Reports(c) \/ TearsDown(c)
  <2>1. /\ call[c].pc \in {"ping", "sample", "close"} /\ UNCHANGED <<cli, sess, registry>>
        /\ call[c].pc # "close" => call[c].kind # "teardown"
    BY <1>0, <1>5 DEF TearsDown, Pings, Reports, At, Fits, TurnPcs
  <2>2. \E how \in Told : /\ Step(c, Ends(c, how))
                          /\ call[c].pc = "close" /\ how = "ok" =>
                               call[c].answer # "failed"
    BY <1>0, <1>5 DEF TearsDown, Pings, Reports, Calls, At, Told
  <2>3. Steady(c)
    BY <2>1 DEF Steady
  <2>4. \E new \in Calls : Step(c, new) /\ Going(c, new)
    BY <2>1, <2>2, SteadyEnd
  <2> QED
    BY <2>3, <2>4
<1>6. CASE ReapsOrphans(c)
  <2>1. /\ call[c].pc = "reap" /\ cli' = cli /\ sess' = [sess EXCEPT ![call[c].s].lock = None]
        /\ registry' = registry
    BY <1>6 DEF ReapsOrphans, Leaves, At
  <2>2. Steady(c)
    BY <1>0, <2>1, SteadySess
  <2>3. PICK new : new = [call[c] EXCEPT !.pc = "sample"]
    OBVIOUS
  <2>4. /\ new \in Calls /\ new.pc = "sample" /\ new.kind = call[c].kind
        /\ new.role = call[c].role /\ Step(c, new) /\ new.saw = call[c].saw
    BY <1>0, <1>6, <2>3 DEF Calls, Pcs, ReapsOrphans, Leaves
  <2>5. Going(c, new)
    BY <2>1, <2>4 DEF Going, RolePcs, SessPcs
  <2> QED
    BY <2>2, <2>4, <2>5
<1>7. CASE Reads(c)
  <2>1. PICK new \in Calls :
          /\ Step(c, new) /\ new.pc \in {"poll", "reap", "respawn"} /\ new.kind = "turn"
          /\ new.role = call[c].role /\ new.s = call[c].s /\ new.saw = call[c].saw
    BY <1>7, ReadsIs
  <2>2. /\ call[c].pc = "read" /\ call[c].kind = "turn" /\ sess' = sess /\ registry' = registry
        /\ cli' = [cli EXCEPT ![Cli(c)].out = Tail(cli[Cli(c)].out)]
    BY <1>7, ReadsIs DEF Reads
  <2>3. \A n \in CliIds : cli'[n].fate = cli[n].fate /\ cli'[n].kept = cli[n].kept
    BY <1>0, <2>2, ReadTells
  <2>4. Steady(c)
    BY <2>2, <2>3 DEF Steady
  <2>5. Going(c, new)
    BY <2>1, <2>2 DEF Going, RolePcs, SessPcs
  <2> QED
    BY <2>1, <2>4, <2>5
<1>8. CASE LooksUp(c)
  BY <1>8, LooksUpSteady
<1> QED
  BY <1>1, <1>2, <1>3, <1>4, <1>5, <1>6, <1>7, <1>8

LEMMA TearsStep ==
  ASSUME Shape, Locked, Tears, NEW c \in CallIds, NEW new \in Calls, Step(c, new),
         \A k \in Born : /\ cli'[k].fate # "unborn" /\ (cli'[k].fate = "up" => cli[k].fate = "up")
                         /\ (cli[k].kept = "replaced" => cli'[k].kept = "replaced"),
         registry' = registry \/ regLock \in {None, c},
         \A s \in SessIds : sess[s].cli # None /\ cli'[sess[s].cli].fate = "up" =>
             sess'[s].cli = sess[s].cli \/ cli'[sess[s].cli].kept = "replaced",
         \A s \in SessIds : sess[s].lock \notin {None, c} => sess'[s].cli = sess[s].cli,
         \A k \in CliIds : cli'[k].kept = "replaced" => \A s \in SessIds : sess'[s].cli # k,
         Tearing(new)', new.pc \in {"spawn", "revive"} => ~Alive(new.s)'
  PROVE  Tears'
<1>1. call' \in [CallIds -> Calls] /\ call'[c] = new /\ \A d \in CallIds \ {c} : call'[d] = call[d]
  BY StepIs DEF Shape
<1>2. None \notin CliIds /\ None \notin CallIds /\ None \notin SessIds
  BY Bounds
<1>3. \A k \in Born : k \in Born' /\ (Up(k)' => Up(k))
  BY DEF Born, Up
<1>4. ASSUME NEW d \in CallIds, d # c, NEW x, x = call[d] PROVE Tearing(x)'
  <2>2. x \in Calls /\ Tearing(x) /\ Fits(x) /\ HasSession(x) /\ (x.pc = "shutting" => regLock = d)
    BY <1>4 DEF Shape, Types, Tears, RegHeld
  <2>3. x.saw \subseteq Born'
    BY <1>3, <2>2 DEF Tearing
  <2>4. ASSUME x.pc = "shutting", x.answer # "failed", NEW k \in x.saw, Up(k)'
        PROVE  cli'[k].kept = "replaced" \/ \E r \in x.left : sess'[registry'[r]].cli = k
    <3>1. k \in Born /\ Up(k) /\ k \in CliIds
      BY <1>3, <2>2, <2>4 DEF Tearing, Born
    <3>2. CASE cli[k].kept = "replaced"
      BY <3>1, <3>2
    <3>3. CASE \E r \in x.left : sess[registry[r]].cli = k
      <4>1. PICK r \in x.left : sess[registry[r]].cli = k
        BY <3>3
      <4>2. registry[r] \in SessIds /\ registry' = registry
        <5>1. registry' = registry
          BY <1>2, <1>4, <2>2, <2>4
        <5>2. r \in Roles /\ registry[r] # None
          BY <2>2, <4>1 DEF HasSession, Calls
        <5> QED
          BY <5>1, <5>2 DEF Shape, Types
      <4>3. cli'[k].fate = "up" /\ k # None
        BY <2>4 DEF Up
      <4> QED
        BY <4>1, <4>2, <4>3
    <3> QED
      BY <2>2, <2>4, <3>1, <3>2, <3>3 DEF Tearing
  <2>5. ASSUME (x.pc = "close" /\ x.answer # "failed")
                 \/ (x.pc = "ended" /\ x.kind = "teardown" /\ x.answer = "ok"),
               NEW k \in x.saw, Up(k)'
        PROVE  cli'[k].kept = "replaced"
    <3>1. k \in Born /\ Up(k)
      BY <1>3, <2>2, <2>5 DEF Tearing
    <3>2. cli[k].kept = "replaced"
      BY <2>2, <2>5, <3>1 DEF Tearing
    <3> QED
      BY <3>1, <3>2
  <2> QED
    BY <2>3, <2>4, <2>5 DEF Tearing
<1>5. ASSUME NEW d \in CallIds, d # c, NEW x, x = call[d], x.pc \in {"spawn", "revive"}
      PROVE  ~Alive(x.s)'
  <2>1. x.pc \in LockPcs
    BY <1>5 DEF LockPcs, SessPcs, RolePcs
  <2>2. x.s \in SessIds /\ sess[x.s].lock = d /\ ~Alive(x.s)
    BY <1>5, <2>1, AtRole, AtLock DEF Locked, Tears
  <2>3. sess'[x.s].cli = sess[x.s].cli
    BY <1>2, <1>5, <2>2
  <2>4. sess[x.s].cli # None => sess[x.s].cli \in Born
    BY <2>2 DEF Shape, Owned
  <2> QED
    BY <1>2, <1>3, <2>2, <2>3, <2>4 DEF Alive, Up
<1>6. ASSUME NEW d \in CallIds
      PROVE  \E x : /\ x = call'[d] /\ Tearing(x)'
                    /\ x.pc \in {"spawn", "revive"} => ~Alive(x.s)'
  <2>1. CASE d = c
    BY <1>1, <2>1
  <2>2. CASE d # c
    BY <1>1, <1>4, <1>5, <2>2
  <2> QED
    BY <2>1, <2>2
<1>7. ASSUME NEW d \in CallIds
      PROVE  Tearing(call[d])' /\ (call'[d].pc \in {"spawn", "revive"} => ~Alive(call[d].s)')
  <2>1. PICK x : /\ x = call'[d] /\ Tearing(x)'
                 /\ x.pc \in {"spawn", "revive"} => ~Alive(x.s)'
    BY <1>6
  <2>2. Tearing(call[d])'
    BY <2>1 DEF Tearing
  <2>3. call'[d].pc \in {"spawn", "revive"} => ~Alive(call[d].s)'
    BY <2>1 DEF Alive
  <2> QED
    BY <2>2, <2>3
<1> QED
  BY <1>7 DEF Tears

\* A call that is no teardown has seen nothing.
LEMMA NotTearing ==
  ASSUME NEW new \in Calls, new.saw \subseteq Born', new.kind # "teardown",
         new.pc \notin {"shutting", "close"}
  PROVE  Tearing(new)'
  BY DEF Tearing

LEMMA TearsSteady ==
  ASSUME Shape, Locked, Tears, NEW c \in CallIds, NEW new \in Calls, Step(c, new),
         Steady(c), Going(c, new)
  PROVE  Tears'
<1>1. /\ \A s \in SessIds : sess'[s].cli = sess[s].cli
      /\ \A k \in CliIds : cli'[k].fate = cli[k].fate /\ cli'[k].kept = cli[k].kept
      /\ registry' = registry \/ regLock = None
  BY DEF Steady
<1>2. \A k \in Born : k \in CliIds /\ cli[k].fate # "unborn"
  BY DEF Born
<1>3. Tearing(call[c]) /\ call[c].pc # "ended" /\ new.pc \notin {"shutting", "close"}
      /\ new.saw = call[c].saw /\ new.saw \subseteq CliIds
      /\ (new.pc = "ended" /\ new.kind = "teardown" /\ new.answer = "ok" =>
            call[c].pc = "close" /\ call[c].answer # "failed")
  BY DEF Tears, Going, Calls
<1>4. Tearing(new)'
  <2>1. new.saw \subseteq Born'
    BY <1>1, <1>2, <1>3 DEF Tearing, Born
  <2>2. \A k \in CliIds : Up(k)' => Up(k)
    BY <1>1 DEF Up
  <2> QED
    BY <1>1, <1>3, <2>1, <2>2 DEF Tearing
<1>5. new.pc \in {"spawn", "revive"} => ~Alive(new.s)'
  <2>1. SUFFICES ASSUME new.pc \in {"spawn", "revive"} PROVE ~Alive(new.s)'
    OBVIOUS
  <2>2. ~Alive(new.s) /\ new.s \in SessIds \union {None}
    BY <2>1 DEF Going, Calls
  <2>3. sess \in [SessIds -> Sessions]
    BY DEF Shape, Types
  <2> QED
    BY <1>1, <2>2, <2>3 DEF Alive, Up, Sessions
<1>6. \A k \in CliIds : cli'[k].kept = "replaced" => \A s \in SessIds : sess'[s].cli # k
  BY <1>1 DEF Tears
<1>7. \A k \in Born : /\ cli'[k].fate # "unborn" /\ (cli'[k].fate = "up" => cli[k].fate = "up")
                      /\ (cli[k].kept = "replaced" => cli'[k].kept = "replaced")
  BY <1>1, <1>2
<1>8. registry' = registry \/ regLock \in {None, c}
  BY <1>1
<1> QED
  BY <1>1, <1>4, <1>5, <1>6, <1>7, <1>8, TearsStep

\* What a kill does to the process of a session.
LEMMA KillDoes ==
  ASSUME Shape, NEW c \in CallIds, NEW s \in SessIds, NEW o \in Kills(c, s), NEW mark \in Marks,
         NEW d, d = Dead(s, o, mark), NEW f, f = Forgotten(s, o)
  PROVE  /\ \A k \in CliIds : k # sess[s].cli => d[k] = cli[k]
         /\ f \in {None, sess[s].cli} /\ (o.told = "raised" => f = sess[s].cli)
         /\ sess[s].cli # None =>
              LET k == sess[s].cli
              IN  /\ k \in CliIds /\ k \in Born /\ d[k].fate # "unborn"
                  /\ d[k].fate = "up" => cli[k].fate = "up" /\ f = k /\ d[k].kept = mark
                                          /\ o.told # "killed"
                  /\ d[k].fate # "up" => d[k].kept = cli[k].kept
<1>1. Types /\ None \notin CliIds
  BY Bounds DEF Shape
<1>2. /\ \A k \in CliIds : k # sess[s].cli => d[k] = cli[k]
      /\ sess[s].cli # None =>
           /\ sess[s].cli \in CliIds /\ d[sess[s].cli].fate = o.fate
           /\ d[sess[s].cli].kept = (IF o.fate = "up" THEN mark ELSE cli[sess[s].cli].kept)
  BY <1>1, DeadIs
<1>3. sess[s].cli # None => sess[s].cli \in Born /\ cli[sess[s].cli].fate # "unborn"
  BY DEF Shape, Owned, Born
<1>4. f \in {None, sess[s].cli} /\ (o.told = "raised" => f = sess[s].cli)
  BY <1>1, RaisedKeeps
<1>5. /\ sess[s].cli # None /\ cli[sess[s].cli].fate # "unborn" => o.fate # "unborn"
      /\ o.fate = "up" => cli[sess[s].cli].fate = "up"
      /\ o.told = "killed" => o.fate = "gone"
  BY <1>1, OutcomeIs
<1>6. o.fate = "up" => f = sess[s].cli
  <2>1. o.fate = "up" => ~o.forget
    BY <1>1, OutcomeIs
  <2>2. ~o.forget => f = sess[s].cli
    BY Zenon DEF Forgotten
  <2> QED
    BY <2>1, <2>2
<1> QED
  BY <1>1, <1>2, <1>3, <1>4, <1>5, <1>6

LEMMA TearsKill ==
  ASSUME Shape, Locked, Tears, NEW c \in CallIds, NEW new \in Calls, Step(c, new),
         NEW s \in SessIds, sess[s].lock \in {None, c}, NEW o \in Kills(c, s),
         NEW mark \in {"here", "torn"}, cli' = Dead(s, o, mark),
         sess'[s].cli \in {sess[s].cli, Forgotten(s, o)},
         \A t \in SessIds : t # s => sess'[t].cli = sess[t].cli,
         registry' = registry \/ regLock \in {None, c}, new.saw = call[c].saw,
         new.pc \notin {"spawn", "revive"},
         new.saw \subseteq Born' => Tearing(new)'
  PROVE  Tears'
<1>1. PICK f : f = Forgotten(s, o)
  OBVIOUS
<1>2. mark \in Marks /\ mark # "replaced" /\ None \notin CliIds
  BY Bounds DEF Marks
<1>3. /\ \A k \in CliIds : k # sess[s].cli => cli'[k] = cli[k]
      /\ f \in {None, sess[s].cli}
      /\ sess[s].cli # None =>
           /\ sess[s].cli \in CliIds /\ sess[s].cli \in Born /\ cli'[sess[s].cli].fate # "unborn"
           /\ cli'[sess[s].cli].fate = "up" => /\ cli[sess[s].cli].fate = "up" /\ f = sess[s].cli
                                               /\ cli'[sess[s].cli].kept = mark
           /\ cli'[sess[s].cli].fate # "up" => cli'[sess[s].cli].kept = cli[sess[s].cli].kept
  BY <1>1, <1>2, KillDoes
<1>4. \A k \in CliIds : k = sess[s].cli => cli[k].kept # "replaced"
  BY DEF Tears
<1>5. ASSUME NEW k \in Born
      PROVE  /\ cli'[k].fate # "unborn" /\ (cli'[k].fate = "up" => cli[k].fate = "up")
             /\ (cli[k].kept = "replaced" => cli'[k].kept = "replaced")
  BY <1>2, <1>3, <1>4 DEF Born
<1>6. ASSUME NEW t \in SessIds, sess[t].cli # None, cli'[sess[t].cli].fate = "up"
      PROVE  sess'[t].cli = sess[t].cli
  BY <1>1, <1>3, <1>6
<1>7. \A t \in SessIds : sess[t].lock \notin {None, c} => sess'[t].cli = sess[t].cli
  OBVIOUS
<1>8. ASSUME NEW k \in CliIds, cli'[k].kept = "replaced", NEW t \in SessIds
      PROVE  sess'[t].cli # k
  <2>1. cli[k].kept = "replaced"
    BY <1>2, <1>3, <1>8
  <2>2. sess[t].cli # k
    BY <2>1 DEF Tears
  <2> QED
    BY <1>1, <1>2, <1>3, <2>2
<1>9. new.saw \subseteq Born'
  BY <1>5 DEF Tears, Tearing, Born
<1> QED
  BY <1>2, <1>5, <1>6, <1>7, <1>8, <1>9, TearsStep

LEMMA NewCliTears ==
  ASSUME Shape, Locked, Tears, NEW c \in CallIds, NEW new \in Calls, Step(c, new),
         NEW s \in SessIds, sess[s].lock = c, NEW n \in CliIds, n \notin Born,
         cli'[n].kept = "no", cli'[n].fate # "unborn",
         \A k \in CliIds : k # n /\ k # sess[s].cli => cli'[k] = cli[k],
         sess[s].cli # None =>
           /\ cli'[sess[s].cli].fate # "unborn"
           /\ cli'[sess[s].cli].fate = "up" => /\ cli[sess[s].cli].fate = "up"
                                               /\ cli'[sess[s].cli].kept = "replaced"
           /\ cli'[sess[s].cli].kept \in {cli[sess[s].cli].kept, "replaced"},
         sess'[s].cli = n, \A t \in SessIds : t # s => sess'[t].cli = sess[t].cli,
         registry' = registry, new.saw = call[c].saw, new.kind # "teardown",
         new.pc \notin {"spawn", "revive", "shutting", "close"}
  PROVE  Tears'
<1>1. None \notin CliIds
  BY Bounds
<1>2. \A t \in SessIds : sess[t].cli # None => /\ sess[t].cli \in Born /\ sess[t].cli \in CliIds
                                               /\ sess[t].cli # n
                                               /\ (t # s => sess[t].cli # sess[s].cli)
  BY DEF Shape, Owned, Born
<1>3. ASSUME NEW k \in Born
      PROVE  /\ cli'[k].fate # "unborn" /\ (cli'[k].fate = "up" => cli[k].fate = "up")
             /\ (cli[k].kept = "replaced" => cli'[k].kept = "replaced")
  BY <1>1, <1>2 DEF Born
<1>4. ASSUME NEW t \in SessIds, sess[t].cli # None, cli'[sess[t].cli].fate = "up"
      PROVE  sess'[t].cli = sess[t].cli \/ cli'[sess[t].cli].kept = "replaced"
  BY <1>4
<1>5. \A t \in SessIds : sess[t].lock \notin {None, c} => sess'[t].cli = sess[t].cli
  OBVIOUS
<1>6. ASSUME NEW k \in CliIds, cli'[k].kept = "replaced", NEW t \in SessIds
      PROVE  sess'[t].cli # k
  <2>1. k # n
    BY <1>6
  <2>2. t # s => sess[t].cli # k
    <3>1. CASE k = sess[s].cli
      BY <1>1, <1>2, <3>1
    <3>2. CASE k # sess[s].cli
      <4>1. cli[k].kept = "replaced"
        BY <1>6, <2>1, <3>2
      <4> QED
        BY <4>1 DEF Tears
    <3> QED
      BY <3>1, <3>2
  <2> QED
    BY <2>1, <2>2
<1>7. Tearing(new)'
  <2>1. new.saw \subseteq Born'
    BY <1>3 DEF Tears, Tearing, Born
  <2> QED
    BY <2>1, NotTearing
<1> QED
  BY <1>3, <1>4, <1>5, <1>6, <1>7, TearsStep

LEMMA EvictsDoes ==
  ASSUME Shape, NEW c \in CallIds, Evicts(c), NEW s, s = registry[call[c].role]
  PROVE  /\ s \in SessIds /\ sess[s].lock = None /\ call[c].pc = "evict" /\ regLock = c
         /\ call[c].kind \in {"turn", "resume"} /\ call[c].role \in Roles
         /\ \E o \in Kills(c, s), new \in Calls :
              /\ cli' = Dead(s, o, "here") /\ Step(c, new) /\ new.saw = call[c].saw
              /\ new.kind = call[c].kind /\ new.pc \in {"ended", "lookup", "ensure"}
              /\ \A t \in SessIds : t # s => sess'[t].cli = sess[t].cli
              /\ \/ /\ o.told = "raised" /\ sess' = sess /\ registry' = registry
                    /\ new.pc # "ensure"
                 \/ /\ o.told # "raised" /\ sess'[s].cli = Forgotten(s, o)
                    /\ new.pc = "ensure" /\ new.role = call[c].role
                    /\ new.s = registry'[call[c].role]
                    /\ \A r \in Roles : r # call[c].role => registry'[r] = registry[r]
<1>1. /\ s \in SessIds /\ sess[s].lock = None /\ call[c].pc = "evict" /\ regLock = c
      /\ call[c].kind \in {"turn", "resume"} /\ call[c].role \in Roles
      /\ call[c].pc \in RolePcs /\ s \in Made /\ call[c] \in Calls
      /\ sess \in [SessIds -> Sessions]
  BY EvictsIs, AtRole DEF Evicts, Shape, Types
<1>2. PICK o \in Kills(c, s) :
        /\ cli' = Dead(s, o, "here")
        /\ IF o.told = "raised"
           THEN /\ sess' = sess /\ registry' = registry
                /\ IF call[c].kind = "turn"
                   THEN Step(c, Ends(c, "error")) /\ turnLock' = [turnLock EXCEPT ![call[c].role] = None]
                   ELSE Step(c, NextRole(c)) /\ UNCHANGED turnLock
           ELSE /\ Registers(c) /\ UNCHANGED turnLock
                /\ sess' = [sess EXCEPT ![s].cli = Forgotten(s, o), ![NewSess].role = call[c].role]
  BY DEF Evicts
<1>3. CASE o.told = "raised"
  <2>1. PICK new \in Calls :
          /\ Step(c, new) /\ new.pc \in {"ended", "lookup"} /\ new.kind = call[c].kind
          /\ new.saw = call[c].saw
    <3>1. CASE call[c].kind = "turn"
      <4>1. Step(c, Ends(c, "error")) /\ "error" \in Told
        BY <1>2, <1>3, <3>1 DEF Told
      <4>2. PICK new : new = Ends(c, "error")
        OBVIOUS
      <4>3. /\ new \in Calls /\ new.pc = "ended" /\ new.kind = call[c].kind
            /\ new.saw = call[c].saw
        BY <4>1, <4>2, EndsIs DEF Shape
      <4> QED
        BY <4>1, <4>2, <4>3
    <3>2. CASE call[c].kind # "turn"
      <4>1. PICK new : new = NextRole(c)
        OBVIOUS
      <4>2. /\ new \in Calls /\ new.pc \in {"lookup", "ended"} /\ new.kind = call[c].kind
            /\ new.saw = call[c].saw
        BY <4>1, NextRoleIs DEF Shape
      <4> QED
        BY <1>2, <1>3, <3>2, <4>1, <4>2
    <3> QED
      BY <3>1, <3>2
  <2>2. /\ o.told = "raised" /\ sess' = sess /\ registry' = registry /\ new.pc # "ensure"
        /\ \A t \in SessIds : t # s => sess'[t].cli = sess[t].cli
    BY <1>2, <1>3, <2>1
  <2> QED
    BY <1>1, <1>2, <2>1, <2>2
<1>4. CASE o.told # "raised"
  <2>1. Registers(c) /\ sess' = [sess EXCEPT ![s].cli = Forgotten(s, o), ![NewSess].role = call[c].role]
    BY <1>2, <1>4
  <2>2. PICK new \in Calls :
          /\ Step(c, new) /\ new.pc = "ensure" /\ new.kind = call[c].kind
          /\ new.role = call[c].role /\ new.saw = call[c].saw /\ new.s = NewSess
    BY <1>1, <2>1, RegistersIs
  <2>3. /\ NewSess \in SessIds /\ NewSess \notin Made /\ registry'[call[c].role] = NewSess
        /\ \A r \in Roles : r # call[c].role => registry'[r] = registry[r]
    BY <1>1, <2>1, RegistersIs
  <2>4. PICK n, f, r : n = NewSess /\ f = Forgotten(s, o) /\ r = call[c].role
    OBVIOUS
  <2>5. n # s /\ n \in SessIds /\ sess' = [sess EXCEPT ![s].cli = f, ![n].role = r]
    BY <1>1, <2>1, <2>3, <2>4
  <2>6. \A t \in SessIds : sess'[t].cli = IF t = s THEN f ELSE sess[t].cli
    BY <1>1, <2>5 DEF Sessions
  <2>7. /\ sess'[s].cli = Forgotten(s, o) /\ new.s = registry'[call[c].role]
        /\ \A t \in SessIds : t # s => sess'[t].cli = sess[t].cli
    BY <1>1, <2>2, <2>3, <2>4, <2>6
  <2> QED
    BY <1>1, <1>2, <1>4, <2>2, <2>3, <2>7
<1> QED
  BY <1>3, <1>4

LEMMA EvictsTears ==
  ASSUME Shape, Locked, Tears, NEW c \in CallIds, Evicts(c)
  PROVE  Tears'
<1>0. PICK s : s = registry[call[c].role]
  OBVIOUS
<1>1. /\ s \in SessIds /\ sess[s].lock = None /\ regLock = c
      /\ call[c].kind \in {"turn", "resume"}
  BY <1>0, EvictsDoes
<1>2. PICK o \in Kills(c, s), new \in Calls :
        /\ cli' = Dead(s, o, "here") /\ Step(c, new) /\ new.saw = call[c].saw
        /\ new.kind = call[c].kind /\ new.pc \in {"ended", "lookup", "ensure"}
        /\ \A t \in SessIds : t # s => sess'[t].cli = sess[t].cli
        /\ \/ /\ o.told = "raised" /\ sess' = sess /\ registry' = registry
              /\ new.pc # "ensure"
           \/ /\ o.told # "raised" /\ sess'[s].cli = Forgotten(s, o)
              /\ new.pc = "ensure" /\ new.role = call[c].role
              /\ new.s = registry'[call[c].role]
              /\ \A r \in Roles : r # call[c].role => registry'[r] = registry[r]
  BY <1>0, EvictsDoes
<1>3. sess'[s].cli \in {sess[s].cli, Forgotten(s, o)}
  BY <1>2
<1>4. new.saw \subseteq Born' => Tearing(new)'
  BY <1>1, <1>2, NotTearing
<1>5. new.pc \notin {"spawn", "revive"} /\ sess[s].lock \in {None, c} /\ regLock \in {None, c}
  BY <1>1, <1>2
<1> QED
  BY <1>1, <1>2, <1>3, <1>4, <1>5, TearsKill

LEMMA KillsLateDoes ==
  ASSUME Shape, NEW c \in CallIds, KillsLate(c), NEW s, s = call[c].s
  PROVE  /\ s \in SessIds /\ call[c].pc = "kill" /\ call[c].kind = "turn" /\ registry' = registry
         /\ \E o \in Kills(c, s), new \in Calls :
              /\ cli' = Dead(s, o, "here") /\ Step(c, new) /\ new.saw = call[c].saw
              /\ new.kind = "turn" /\ new.role = call[c].role /\ new.pc \in {"ended", "sample"}
              /\ sess'[s].cli = Forgotten(s, o)
              /\ \A t \in SessIds : t # s => sess'[t].cli = sess[t].cli
<1>1. /\ s \in SessIds /\ call[c].pc = "kill" /\ call[c].kind = "turn" /\ registry' = registry
      /\ call[c] \in Calls /\ sess \in [SessIds -> Sessions]
  BY KillsLateIs, AtRole DEF KillsLate, Shape, Types
<1>2. PICK o \in Kills(c, s) :
        /\ cli' = Dead(s, o, "here")
        /\ sess' = [sess EXCEPT ![s].lock = None, ![s].cli = Forgotten(s, o)]
        /\ IF o.told = "raised" THEN Step(c, Ends(c, "error")) ELSE Step(c, GivesUp(c))
  BY DEF KillsLate
<1>3. PICK f : f = Forgotten(s, o)
  OBVIOUS
<1>4. \A t \in SessIds : sess'[t].cli = IF t = s THEN f ELSE sess[t].cli
  BY <1>1, <1>2, <1>3 DEF Sessions
<1>5. PICK new \in Calls :
        /\ Step(c, new) /\ new.saw = call[c].saw
        /\ new.kind = "turn" /\ new.role = call[c].role /\ new.pc \in {"ended", "sample"}
  <2>1. CASE Step(c, Ends(c, "error"))
    <3>1. PICK new : new = Ends(c, "error")
      OBVIOUS
    <3>2. /\ new \in Calls /\ new.pc = "ended" /\ new.kind = call[c].kind
          /\ new.saw = call[c].saw /\ new.role = call[c].role
      BY <3>1, EndsIs DEF Shape, Told
    <3> QED
      BY <1>1, <2>1, <3>1, <3>2
  <2>2. CASE Step(c, GivesUp(c))
    <3>1. PICK new : new = [call[c] EXCEPT !.pc = "sample", !.answer = "failed"]
      OBVIOUS
    <3>2. /\ new \in Calls /\ new.pc = "sample" /\ new.kind = call[c].kind
          /\ new.role = call[c].role /\ Step(c, new) /\ new.saw = call[c].saw
      BY <1>1, <2>2, <3>1 DEF GivesUp, Calls, Pcs, Told
    <3> QED
      BY <1>1, <3>2
  <2> QED
    BY <1>2, <2>1, <2>2
<1> QED
  BY <1>1, <1>2, <1>3, <1>4, <1>5

LEMMA KillsLateTears ==
  ASSUME Shape, Locked, Tears, NEW c \in CallIds, KillsLate(c)
  PROVE  Tears'
<1>0. PICK s : s = call[c].s
  OBVIOUS
<1>1. /\ s \in SessIds /\ call[c].pc = "kill" /\ call[c].kind = "turn" /\ registry' = registry
      /\ sess[s].lock = c
  BY <1>0, KillsLateDoes DEF Locked, LockPcs, SessPcs, RolePcs
<1>2. PICK o \in Kills(c, s), new \in Calls :
        /\ cli' = Dead(s, o, "here") /\ Step(c, new) /\ new.saw = call[c].saw
        /\ new.kind = "turn" /\ new.role = call[c].role /\ new.pc \in {"ended", "sample"}
        /\ sess'[s].cli = Forgotten(s, o)
        /\ \A t \in SessIds : t # s => sess'[t].cli = sess[t].cli
  BY <1>0, KillsLateDoes
<1>3. new.saw \subseteq Born' => Tearing(new)'
  BY <1>2, NotTearing
<1>4. new.pc \notin {"spawn", "revive"}
  BY <1>2
<1> QED
  BY <1>1, <1>2, <1>3, <1>4, TearsKill

\* A teardown that killed what a role had has one role less to shut down;
\* when it could not, it says so.
LEMMA ShutsOneTears ==
  ASSUME Shape, Locked, Tears, NEW c \in CallIds, NEW r \in Roles, ShutsOne(c, r)
  PROVE  Tears'
<1>0. PICK s : s = registry[r]
  OBVIOUS
<1>1. /\ call[c].pc = "shutting" /\ s \in SessIds /\ call[c].kind = "teardown"
      /\ sess[s].lock = None /\ r \in call[c].left /\ registry' = registry /\ sess[s].role = r
      /\ call[c] \in Calls
  BY <1>0, ShutsOneIs DEF ShutsOne, Shape, Types
<1>2. PICK o \in Kills(c, s), new \in Calls :
        /\ cli' = Dead(s, o, "torn")
        /\ sess'[s] = [role |-> r, lock |-> None, cli |-> Forgotten(s, o)]
        /\ \A t \in SessIds : t # s => sess'[t] = sess[t]
        /\ Step(c, new) /\ new.kind = "teardown" /\ new.saw = call[c].saw
        /\ \/ new.pc = "ended" /\ new.answer = "error"
           \/ /\ new.pc = "shutting" /\ new.left = call[c].left \ {r}
              /\ \/ o.told = "killed" /\ new.answer = call[c].answer
                 \/ new.answer = "failed"
  BY <1>0, ShutsOneIs
<1>3. PICK f : f = Forgotten(s, o)
  OBVIOUS
<1>4. /\ \A k \in CliIds : k # sess[s].cli => cli'[k] = cli[k]
      /\ f \in {None, sess[s].cli}
      /\ sess[s].cli # None =>
           LET k == sess[s].cli
           IN  /\ k \in CliIds
               /\ cli'[k].fate = "up" => /\ cli[k].fate = "up" /\ f = k /\ cli'[k].kept = "torn"
                                         /\ o.told # "killed"
               /\ cli'[k].fate # "up" => cli'[k].kept = cli[k].kept
  BY <1>1, <1>2, <1>3, KillDoes DEF Marks
<1>5. ASSUME new.saw \subseteq Born' PROVE Tearing(new)'
  <2>1. CASE new.pc = "ended"
    <3>1. new.answer = "error"
      BY <1>2, <2>1
    <3> QED
      BY <1>5, <2>1, <3>1 DEF Tearing
  <2>2. ASSUME new.pc = "shutting", new.answer # "failed", NEW k \in new.saw, Up(k)'
        PROVE  cli'[k].kept = "replaced" \/ \E q \in new.left : sess'[registry'[q]].cli = k
    <3>1. /\ o.told = "killed" /\ call[c].answer # "failed" /\ new.left = call[c].left \ {r}
      BY <1>2, <2>2
    <3>2. k \in CliIds /\ cli'[k].fate = "up"
      BY <1>2, <2>2 DEF Calls, Up
    <3>3. k # sess[s].cli /\ cli'[k] = cli[k] /\ Up(k)
      BY <1>4, <2>2, <3>1, <3>2 DEF Up
    <3>4. cli[k].kept = "replaced" \/ \E q \in call[c].left : sess[registry[q]].cli = k
      BY <1>1, <1>2, <2>2, <3>1, <3>3 DEF Tears, Tearing
    <3>5. ASSUME NEW q \in call[c].left, sess[registry[q]].cli = k
          PROVE  q \in new.left /\ sess'[registry'[q]].cli = k
      <4>1. q # r
        BY <1>0, <3>3, <3>5
      <4>2. q \in Roles /\ registry[q] # None
        BY <1>1, <3>5 DEF Calls, Shape, HasSession
      <4>3. registry[q] \in SessIds /\ registry[q] # s
        BY <1>1, <4>1, <4>2 DEF Shape, Types, Owned
      <4> QED
        BY <1>1, <1>2, <3>1, <3>5, <4>1, <4>3
    <3> QED
      BY <3>3, <3>4, <3>5
  <2> QED
    BY <1>2, <1>5, <2>1, <2>2 DEF Tearing
<1>6. /\ sess'[s].cli = Forgotten(s, o) /\ new.pc \notin {"spawn", "revive"}
      /\ \A t \in SessIds : t # s => sess'[t].cli = sess[t].cli
  BY <1>2
<1> QED
  BY <1>1, <1>2, <1>5, <1>6, TearsKill

LEMMA GivesUpDoes ==
  ASSUME Shape, NEW c \in CallIds, call[c].pc \in RolePcs, NEW new, new = GivesUp(c)
  PROVE  /\ new \in Calls /\ new.pc \in {"lookup", "sample", "ended"}
         /\ new.kind = call[c].kind /\ new.saw = call[c].saw
         /\ new.pc = "sample" => new.role = call[c].role
<1>1. call[c] \in Calls
  BY AtRole
<1>2. CASE call[c].kind = "turn"
  <2>1. new = [call[c] EXCEPT !.pc = "sample", !.answer = "failed"]
    BY <1>2 DEF GivesUp
  <2> QED
    BY <1>1, <2>1 DEF Calls, Pcs, Told
<1>3. CASE call[c].kind # "turn"
  <2>1. new = NextRole(c)
    BY <1>3 DEF GivesUp
  <2> QED
    BY <2>1, NextRoleIs DEF Shape
<1> QED
  BY <1>2, <1>3

LEMMA SpawnsDoes ==
  ASSUME Shape, Locked, NEW c \in CallIds, SpawnsCli(c), NEW s, s = call[c].s, NEW n, n = NewCli
  PROVE  /\ s \in SessIds /\ sess[s].lock = c /\ n \in CliIds /\ n \notin Born
         /\ call[c].pc \in {"spawn", "revive"} /\ call[c].kind \in {"turn", "resume"}
         /\ registry' = registry /\ cli'[n].kept = "no" /\ cli'[n].fate # "unborn"
         /\ \A k \in CliIds : k # n => cli'[k] = cli[k]
         /\ sess'[s].cli = n /\ \A t \in SessIds : t # s => sess'[t].cli = sess[t].cli
         /\ \E new \in Calls :
              /\ Step(c, new) /\ new.kind = call[c].kind /\ new.saw = call[c].saw
              /\ new.pc \in {"lookup", "sample", "ended", "drain", "enter"}
              /\ new.pc = "sample" => new.role = call[c].role
              /\ new.pc \in {"drain", "enter"} => new.role = call[c].role /\ new.s = s
<1>1. /\ s \in SessIds /\ n \in CliIds /\ n \notin Born /\ registry' = registry
      /\ call[c].pc \in {"spawn", "revive"} /\ call[c].pc \in LockPcs /\ call[c].pc \in RolePcs
  BY SpawnsCliIs DEF SpawnsCli
<1>2. /\ sess[s].lock = c /\ call[c].kind \in {"turn", "resume"} /\ call[c] \in Calls
      /\ cli \in [CliIds -> Clis]
  BY <1>1, AtRole DEF Locked, Shape, Types
<1>3. PICK child \in Clis, new \in Calls :
        /\ child.role = call[c].role /\ child.inbox = <<>>
        /\ child.out = <<>> /\ child.kept = "no" /\ child.fate # "unborn"
        /\ cli' = [cli EXCEPT ![NewCli] = child]
        /\ sess'[call[c].s] = [role |-> call[c].role, cli |-> NewCli,
                               lock |-> IF new.pc = "drain" THEN c ELSE None]
        /\ sess'[call[c].s].role = call[c].role /\ sess'[call[c].s].cli = NewCli
        /\ \A t \in SessIds : t # call[c].s => sess'[t] = sess[t]
        /\ sess' \in [SessIds -> Sessions] /\ cli' \in [CliIds -> Clis]
        /\ faults' \in 0..MaxFaults
        /\ new.pc \in {"lookup", "sample", "ended", "drain", "enter"}
        /\ Step(c, new) /\ Fits(new) /\ HasSession(new)
        /\ \/ new = GivesUp(c) /\ new.pc \in {"lookup", "sample", "ended"}
           \/ /\ child.fate = "up" /\ call[c].pc = "revive"
              /\ new = [call[c] EXCEPT !.pc = "drain"] /\ new.pc = "drain"
           \/ /\ child.fate = "up" /\ call[c].pc = "spawn" /\ call[c].kind = "turn"
              /\ new = [call[c] EXCEPT !.pc = "enter"] /\ new.pc = "enter"
           \/ /\ child.fate = "up" /\ call[c].pc = "spawn" /\ call[c].kind # "turn"
              /\ new = NextRole(c) /\ new.pc \in {"lookup", "ended"}
  BY SpawnsCliIs
<1>4. /\ cli' = [cli EXCEPT ![n] = child] /\ child.kept = "no" /\ child.fate # "unborn"
      /\ sess'[s].cli = n /\ \A t \in SessIds : t # s => sess'[t].cli = sess[t].cli
  BY <1>3
<1>5. /\ cli'[n].kept = "no" /\ cli'[n].fate # "unborn"
      /\ \A k \in CliIds : k # n => cli'[k] = cli[k]
  BY <1>1, <1>2, <1>4
<1>6. /\ Step(c, new) /\ new.kind = call[c].kind /\ new.saw = call[c].saw
      /\ new.pc \in {"lookup", "sample", "ended", "drain", "enter"}
      /\ new.pc = "sample" => new.role = call[c].role
      /\ new.pc \in {"drain", "enter"} => new.role = call[c].role /\ new.s = s
  <2>1. CASE new = GivesUp(c)
    BY <1>1, <1>3, <2>1, GivesUpDoes
  <2>2. CASE new = [call[c] EXCEPT !.pc = "drain"] \/ new = [call[c] EXCEPT !.pc = "enter"]
    <3>1. new.kind = call[c].kind /\ new.saw = call[c].saw /\ new.role = call[c].role /\ new.s = s
      BY <1>2, <2>2 DEF Calls
    <3>2. Step(c, new) /\ new.pc \in {"drain", "enter"}
      BY <1>2, <1>3, <2>2 DEF Calls
    <3> QED
      BY <3>1, <3>2
  <2>3. CASE new = NextRole(c)
    BY <1>3, <2>3, NextRoleIs DEF Shape
  <2> QED
    BY <1>3, <2>1, <2>2, <2>3
<1> QED
  BY <1>1, <1>2, <1>3, <1>4, <1>5, <1>6

LEMMA SpawnsTears ==
  ASSUME Shape, Locked, Tears, NEW c \in CallIds, SpawnsCli(c)
  PROVE  Tears'
<1>0. PICK s, n : s = call[c].s /\ n = NewCli
  OBVIOUS
<1>1. /\ s \in SessIds /\ sess[s].lock = c /\ n \in CliIds /\ n \notin Born
      /\ call[c].pc \in {"spawn", "revive"} /\ call[c].kind \in {"turn", "resume"}
      /\ registry' = registry /\ cli'[n].kept = "no" /\ cli'[n].fate # "unborn"
      /\ \A k \in CliIds : k # n => cli'[k] = cli[k]
      /\ sess'[s].cli = n /\ \A t \in SessIds : t # s => sess'[t].cli = sess[t].cli
  BY <1>0, SpawnsDoes
<1>2. PICK new \in Calls :
        /\ Step(c, new) /\ new.kind = call[c].kind /\ new.saw = call[c].saw
        /\ new.pc \in {"lookup", "sample", "ended", "drain", "enter"}
  BY <1>0, SpawnsDoes
<1>3. ASSUME sess[s].cli # None
      PROVE  /\ cli'[sess[s].cli].fate # "unborn" /\ cli'[sess[s].cli].fate # "up"
             /\ cli'[sess[s].cli].kept = cli[sess[s].cli].kept
  <2>1. sess[s].cli \in Born /\ sess[s].cli \in CliIds /\ sess[s].cli # n
    BY <1>1, <1>3 DEF Shape, Owned, Born
  <2>2. cli[sess[s].cli].fate # "unborn" /\ cli[sess[s].cli].fate # "up"
    BY <1>0, <1>1, <1>3, <2>1, Bounds DEF Tears, Alive, Up, Born
  <2> QED
    BY <1>1, <2>1, <2>2
<1>4. new.kind # "teardown" /\ new.pc \notin {"spawn", "revive", "shutting", "close"}
  BY <1>1, <1>2
<1> QED
  BY <1>1, <1>2, <1>3, <1>4, NewCliTears

LEMMA ReplacesDoes ==
  ASSUME Shape, Locked, NEW c \in CallIds, Replaces(c), NEW s, s = call[c].s, NEW n, n = NewCli
  PROVE  /\ s \in SessIds /\ sess[s].lock = c /\ n \in CliIds /\ n \notin Born
         /\ call[c].pc = "respawn" /\ call[c].kind = "turn" /\ registry' = registry
         /\ \E new \in Calls : /\ Step(c, new) /\ new.pc = "reap" /\ new.kind = "turn"
                               /\ new.saw = call[c].saw /\ new.s = s /\ new.role = call[c].role
         /\ \E o \in Kills(c, s) :
              \/ /\ cli' = Dead(s, o, "here") /\ o.told = "raised" /\ sess' = sess
              \/ /\ cli'[n].kept = "no" /\ cli'[n].fate # "unborn"
                 /\ \A k \in CliIds : k # n /\ k # sess[s].cli => cli'[k] = cli[k]
                 /\ sess[s].cli # None =>
                      /\ cli'[sess[s].cli].fate # "unborn"
                      /\ cli'[sess[s].cli].fate = "up" => /\ cli[sess[s].cli].fate = "up"
                                                          /\ cli'[sess[s].cli].kept = "replaced"
                      /\ cli'[sess[s].cli].kept \in {cli[sess[s].cli].kept, "replaced"}
                 /\ sess'[s].cli = n /\ \A t \in SessIds : t # s => sess'[t].cli = sess[t].cli
<1>1. /\ s \in SessIds /\ n \in CliIds /\ n \notin Born /\ registry' = registry
      /\ call[c].pc = "respawn" /\ call[c].kind = "turn" /\ call[c].pc \in LockPcs
      /\ call[c].pc \in RolePcs /\ "replaced" \in Marks
      /\ sess \in [SessIds -> Sessions]
  BY ReplacesIs DEF Replaces, Marks, Shape, Types
<1>2. sess[s].lock = c /\ call[c] \in Calls
  BY <1>1, AtRole DEF Locked
<1>3. PICK new \in Calls : Step(c, new) /\ new.pc = "reap" /\ new = [call[c] EXCEPT !.pc = "reap"]
  BY ReplacesIs
<1>4. new.kind = "turn" /\ new.saw = call[c].saw /\ new.s = s /\ new.role = call[c].role
  BY <1>1, <1>2, <1>3 DEF Calls
<1>5. PICK o \in Kills(c, s) :
        \/ cli' = Dead(s, o, "here") /\ o.told = "raised" /\ sess' = sess
        \/ \E child \in Clis, d \in [CliIds -> Clis] :
             /\ d = Dead(s, o, "replaced") /\ child.kept = "no" /\ child.fate # "unborn"
             /\ cli' = [d EXCEPT ![n] = child] /\ sess' = [sess EXCEPT ![s].cli = n]
  BY ReplacesIs
<1>6. CASE cli' = Dead(s, o, "here") /\ o.told = "raised" /\ sess' = sess
  BY <1>1, <1>2, <1>3, <1>4, <1>6
<1>7. ASSUME NEW child \in Clis, NEW d \in [CliIds -> Clis],
             d = Dead(s, o, "replaced"), child.kept = "no", child.fate # "unborn",
             cli' = [d EXCEPT ![n] = child], sess' = [sess EXCEPT ![s].cli = n]
      PROVE  /\ cli'[n].kept = "no" /\ cli'[n].fate # "unborn"
             /\ \A k \in CliIds : k # n /\ k # sess[s].cli => cli'[k] = cli[k]
             /\ sess[s].cli # None =>
                  /\ cli'[sess[s].cli].fate # "unborn"
                  /\ cli'[sess[s].cli].fate = "up" => /\ cli[sess[s].cli].fate = "up"
                                                      /\ cli'[sess[s].cli].kept = "replaced"
                  /\ cli'[sess[s].cli].kept \in {cli[sess[s].cli].kept, "replaced"}
             /\ sess'[s].cli = n /\ \A t \in SessIds : t # s => sess'[t].cli = sess[t].cli
  <2>1. PICK f : f = Forgotten(s, o)
    OBVIOUS
  <2>2. /\ \A k \in CliIds : k # sess[s].cli => d[k] = cli[k]
        /\ sess[s].cli # None =>
             LET k == sess[s].cli
             IN  /\ k \in CliIds /\ k \in Born /\ d[k].fate # "unborn"
                 /\ d[k].fate = "up" => cli[k].fate = "up" /\ d[k].kept = "replaced"
                 /\ d[k].fate # "up" => d[k].kept = cli[k].kept
    BY <1>1, <1>7, <2>1, KillDoes
  <2>3. /\ cli'[n] = child /\ \A k \in CliIds : k # n => cli'[k] = d[k]
    BY <1>1, <1>7
  <2>4. sess'[s].cli = n /\ \A t \in SessIds : t # s => sess'[t].cli = sess[t].cli
    BY <1>1, <1>7 DEF Sessions
  <2> QED
    BY <1>1, <1>7, <2>2, <2>3, <2>4
<1> QED
  BY <1>1, <1>2, <1>3, <1>4, <1>5, <1>6, <1>7

LEMMA ReplacesTears ==
  ASSUME Shape, Locked, Tears, NEW c \in CallIds, Replaces(c)
  PROVE  Tears'
<1>0. PICK s, n : s = call[c].s /\ n = NewCli
  OBVIOUS
<1>1. /\ s \in SessIds /\ sess[s].lock = c /\ n \in CliIds /\ n \notin Born
      /\ registry' = registry
  BY <1>0, ReplacesDoes
<1>2. PICK new \in Calls : /\ Step(c, new) /\ new.pc = "reap" /\ new.kind = "turn"
                           /\ new.saw = call[c].saw
  BY <1>0, ReplacesDoes
<1>3. new.kind # "teardown" /\ new.pc \notin {"spawn", "revive", "shutting", "close"}
  BY <1>2
<1>4. PICK o \in Kills(c, s) :
        \/ /\ cli' = Dead(s, o, "here") /\ o.told = "raised" /\ sess' = sess
        \/ /\ cli'[n].kept = "no" /\ cli'[n].fate # "unborn"
           /\ \A k \in CliIds : k # n /\ k # sess[s].cli => cli'[k] = cli[k]
           /\ sess[s].cli # None =>
                /\ cli'[sess[s].cli].fate # "unborn"
                /\ cli'[sess[s].cli].fate = "up" => /\ cli[sess[s].cli].fate = "up"
                                                    /\ cli'[sess[s].cli].kept = "replaced"
                /\ cli'[sess[s].cli].kept \in {cli[sess[s].cli].kept, "replaced"}
           /\ sess'[s].cli = n /\ \A t \in SessIds : t # s => sess'[t].cli = sess[t].cli
  BY <1>0, ReplacesDoes
<1>5. CASE cli' = Dead(s, o, "here") /\ sess' = sess
  <2>1. new.saw \subseteq Born' => Tearing(new)'
    BY <1>3, NotTearing
  <2> QED
    BY <1>1, <1>2, <1>3, <1>5, <2>1, TearsKill
<1> QED
  BY <1>1, <1>2, <1>3, <1>4, <1>5, NewCliTears

LEMMA ShutsTears ==
  ASSUME Shape, Locked, Tears, NEW c \in CallIds, Shuts(c) \/ Clears(c)
  PROVE  Tears'
<1>1. \A k \in Born : k \in CliIds /\ cli[k].fate # "unborn"
  BY DEF Born
<1>2. UNCHANGED <<cli, sess>> /\ (registry' = registry \/ regLock \in {None, c})
  <2>1. CASE Shuts(c)
    BY <2>1 DEF Shuts
  <2>2. CASE Clears(c)
    <3>1. regLock = c
      BY <2>2 DEF Clears, At, Shape, RegHeld
    <3> QED
      BY <2>2, <3>1 DEF Clears
  <2> QED
    BY <2>1, <2>2
<1>3. \A k \in CliIds : cli'[k].kept = "replaced" => \A s \in SessIds : sess'[s].cli # k
  BY <1>2 DEF Tears
<1>4. PICK new \in Calls : Step(c, new) /\ new.pc \in {"shutting", "close"} /\ Tearing(new)'
  <2>1. CASE Shuts(c)
    <3>1. PICK new \in Calls :
            /\ Step(c, new) /\ new.pc = "shutting" /\ new.left = Listed
            /\ new.saw = {k \in CliIds : Up(k) /\ \E r \in Listed : sess[registry[r]].cli = k}
      BY <2>1, ShutsIs
    <3>2. registry' = registry
      BY <2>1 DEF Shuts
    <3>3. Tearing(new)'
      BY <1>2, <3>1, <3>2 DEF Tearing, Born, Up
    <3> QED
      BY <3>1, <3>3
  <2>2. CASE Clears(c)
    <3>1. call[c].pc = "shutting" /\ call[c].left = {} /\ Go(c, "close") /\ "close" \in Pcs
      BY <2>2 DEF Clears, At, Pcs
    <3>2. PICK new \in Calls :
            /\ Step(c, new) /\ new.pc = "close" /\ new.answer = call[c].answer
            /\ new.saw = call[c].saw
      BY <3>1, GoIs DEF Shape
    <3>3. Tearing(call[c])
      BY DEF Tears
    <3>4. Tearing(new)'
      BY <1>2, <3>1, <3>2, <3>3 DEF Tearing, Born, Up
    <3> QED
      BY <3>2, <3>4
  <2> QED
    BY <2>1, <2>2
<1> QED
  BY <1>1, <1>2, <1>3, <1>4, TearsStep

LEMMA SendsTears == ASSUME Shape, Locked, Tears, Sends PROVE Tears'
<1>1. PICK c \in CallIds, new \in Calls :
        /\ call[c] = NoCall /\ Step(c, new) /\ new.pc \in {"check", "preflight", "shut", "ping"}
        /\ UNCHANGED <<registry, sess, cli>> /\ new.saw = {}
  BY SendsIs
<1>2. Tearing(new)'
  BY <1>1 DEF Tearing
<1>3. \A k \in CliIds : cli'[k].kept = "replaced" => \A s \in SessIds : sess'[s].cli # k
  BY <1>1 DEF Tears
<1>4. \A k \in Born : k \in CliIds /\ cli[k].fate # "unborn"
  BY DEF Born
<1> QED
  BY <1>1, <1>2, <1>3, <1>4, TearsStep

LEMMA OutsideTears ==
  ASSUME Shape, Tears, UNCHANGED <<call, sess, registry>>,
         \A k \in CliIds : /\ cli'[k].kept = cli[k].kept
                           /\ cli'[k].fate = "unborn" <=> cli[k].fate = "unborn"
                           /\ cli'[k].fate = "up" => cli[k].fate = "up"
  PROVE  Tears'
<1>1. \A k \in CliIds : cli'[k].kept = "replaced" => \A s \in SessIds : sess'[s].cli # k
  BY DEF Tears
<1>2. ASSUME NEW c \in CallIds
      PROVE  Tearing(call[c])' /\ (call'[c].pc \in {"spawn", "revive"} => ~Alive(call[c].s)')
  <2>1. PICK x : x = call[c]
    OBVIOUS
  <2>2. Tearing(x) /\ x.saw \subseteq CliIds
    BY <2>1 DEF Tears, Shape, Types, Calls
  <2>3. Tearing(x)'
    BY <2>2 DEF Tearing, Born, Up
  <2>4. Tearing(call[c])'
    BY <2>1, <2>3 DEF Tearing
  <2>5. SUFFICES ASSUME call'[c].pc \in {"spawn", "revive"} PROVE ~Alive(call[c].s)'
    BY <2>4
  <2>6. call[c].s \in SessIds \union {None} /\ ~Alive(call[c].s) /\ sess \in [SessIds -> Sessions]
    BY <2>5 DEF Tears, Shape, Types, Calls
  <2> QED
    BY <2>6 DEF Alive, Up, Sessions
<1> QED
  BY <1>1, <1>2 DEF Tears

LEMMA OutsideFates ==
  ASSUME Shape, \E k \in CliIds : Answers(k) \/ Exits(k)
  PROVE  \A k \in CliIds : /\ cli'[k].kept = cli[k].kept
                           /\ cli'[k].fate = "unborn" <=> cli[k].fate = "unborn"
                           /\ cli'[k].fate = "up" => cli[k].fate = "up"
<1>1. PICK k \in CliIds : Answers(k) \/ Exits(k)
  OBVIOUS
<1>2. Up(k) /\ cli'[k].kept = cli[k].kept /\ cli'[k].fate # "unborn"
  BY <1>1, AnswersIs, ExitsIs
<1>3. \A n \in CliIds : n # k => cli'[n] = cli[n]
  BY <1>1, AnswersIs, ExitsIs
<1> QED
  BY <1>2, <1>3 DEF Up

LEMMA TearsInit == Init => Tears
<1> SUFFICES ASSUME Init PROVE Tears
  OBVIOUS
<1>1. \A c \in CallIds : call[c].pc = "unsent" /\ call[c].saw = {}
  BY DEF Init, NoCall
<1>2. \A k \in CliIds : cli[k].kept = "no"
  BY DEF Init
<1> QED
  BY <1>1, <1>2 DEF Tears, Tearing

LEMMA TearsNext == Shape /\ Locked /\ Tears /\ [Next]_vars => Tears'
<1> SUFFICES ASSUME Shape, Locked, Tears, [Next]_vars PROVE Tears'
  OBVIOUS
<1>1. CASE UNCHANGED vars \/ Hears \/ Abandons
  <2>1. UNCHANGED <<call, sess, registry, cli>>
    BY <1>1 DEF Hears, Abandons, vars, locks
  <2> QED
    BY <2>1, OutsideTears
<1>2. CASE Sends
  BY <1>2, SendsTears
<1>3. CASE \E k \in CliIds : Answers(k) \/ Exits(k)
  BY <1>3, OutsideTears, OutsideSteps, OutsideFates
<1>4. ASSUME NEW c \in CallIds, Works(c) \/ Expires(c) PROVE Tears'
  <2>1. CASE \/ Checks(c) \/ TakesTurn(c) \/ Ensures(c) \/ EntersTurn(c) \/ Polls(c) \/ ReadsEnd(c)
             \/ Expires(c) \/ Preflights(c) \/ TearsDown(c) \/ Pings(c) \/ Reports(c)
             \/ ReapsOrphans(c) \/ LooksUp(c) \/ Prompts(c) \/ Drains(c) \/ Reads(c)
    BY <2>1, SteadyWorks, TearsSteady
  <2>2. CASE Evicts(c) \/ SpawnsCli(c) \/ Replaces(c) \/ KillsLate(c)
    BY <2>2, EvictsTears, SpawnsTears, ReplacesTears, KillsLateTears
  <2>3. CASE Shuts(c) \/ Clears(c)
    BY <2>3, ShutsTears
  <2>4. CASE \E r \in call[c].left : ShutsOne(c, r)
    <3>1. call[c].left \subseteq Roles
      BY DEF Shape, Types, Calls
    <3> QED
      BY <2>4, <3>1, ShutsOneTears
  <2> QED
    BY <1>4, <2>1, <2>2, <2>3, <2>4 DEF Works
<1> QED
  BY <1>1, <1>2, <1>3, <1>4 DEF Next, Runs

THEOREM TearsHold == Spec => []Tears
<1>1. Init => Tears
  BY TearsInit
<1> QED
  BY <1>1, TearsNext, Solid, PTL DEF Spec

\* When session.teardown says ok, no CLI it found runs on: whatever other
\* threads do meanwhile, a CLI it saw has been killed or replaced.
THEOREM TeardownTellsTrue == Spec => []TeardownTells
<1>1. Tears => TeardownTells
  BY DEF Tears, Tearing, TeardownTells, At
<1> QED
  BY <1>1, TearsHold, PTL

-----------------------------------------------------------------------------
(***************************************************************************)
(* Where the CLIs that run are.  As long as the gateway has left no thread *)
(* behind it waits for the only one at work; a thread at work with a       *)
(* session finds it in the registry, and a CLI that runs belongs to a      *)
(* session of the registry, unless it was replaced or torn down.           *)
(***************************************************************************)
Waits == \A c \in CallIds :
             abandoned = 0 /\ call[c].pc \notin {"unsent", "ended"} => waiting = c

Kept(k) == \/ cli[k].kept \in {"replaced", "torn"}
           \/ \E r \in Roles : registry[r] # None /\ sess[registry[r]].cli = k

Shut(x) == x.pc = "shutting" =>
    \A r \in Roles \ x.left : Alive(registry[r]) => cli[sess[registry[r]].cli].kept = "torn"

Forgets ==
    Orderly =>
      /\ \A c \in CallIds : call[c].pc \in SessPcs => registry[call[c].role] = call[c].s
      /\ \A k \in CliIds : Up(k) => Kept(k)
      /\ \A c \in CallIds : call[c].pc = "evict" => ~Alive(registry[call[c].role])
      /\ \A c \in CallIds : Shut(call[c])

\* Two threads at work serve two roles, and nothing else is at work beside a
\* teardown or a resume.
LEMMA Alone ==
  ASSUME Shape, Locked, Waits, Orderly, NEW c \in CallIds, NEW d \in CallIds, c # d,
         call[c].pc \notin {"unsent", "ended"}, call[d].pc \notin {"unsent", "ended"}
  PROVE  /\ call[c].kind \notin {"resume", "teardown"} /\ call[d].kind \notin {"resume", "teardown"}
         /\ call[c].pc \in RolePcs /\ call[d].pc \in RolePcs => call[c].role # call[d].role
<1>1. call[c].kind \notin {"resume", "teardown"} /\ call[d].kind \notin {"resume", "teardown"}
  BY DEF Orderly, Waits
<1>2. ASSUME call[c].pc \in RolePcs, call[d].pc \in RolePcs PROVE call[c].role # call[d].role
  <2>1. call[c].kind = "turn" /\ call[d].kind = "turn"
    BY <1>1, <1>2, AtRole
  <2> QED
    BY <1>2, <2>1 DEF Locked
<1> QED
  BY <1>1, <1>2

LEMMA ForgetsStep ==
  ASSUME Shape, Locked, Waits, Forgets, Orderly, NEW c \in CallIds, NEW new \in Calls, Step(c, new),
         call[c].pc \notin {"unsent", "ended"},
         new.pc \in SessPcs => registry'[new.role] = new.s,
         \/ registry' = registry \/ call[c].kind = "teardown"
         \/ /\ call[c].pc \in RolePcs
            /\ \A r \in Roles : r # call[c].role => registry'[r] = registry[r],
         new.pc = "evict" => ~Alive(registry[new.role])',
         Shut(new)',
         \A k \in CliIds : Up(k)' => Kept(k)',
         \A s \in SessIds : Alive(s)' => \/ Alive(s)
                                         \/ call[c].pc \in RolePcs /\ sess[s].role = call[c].role
  PROVE  Forgets'
<1>1. call' \in [CallIds -> Calls] /\ call'[c] = new /\ \A d \in CallIds \ {c} : call'[d] = call[d]
  BY StepIs DEF Shape
<1>2. ASSUME NEW d \in CallIds, d # c, NEW x, x = call[d], x.pc \in SessPcs
      PROVE  registry'[x.role] = x.s
  <2>1. x.pc \in RolePcs /\ x.pc \notin {"unsent", "ended"}
    BY <1>2 DEF SessPcs, RolePcs
  <2>2. call[c].kind # "teardown" /\ (call[c].pc \in RolePcs => call[c].role # x.role)
    BY <1>2, <2>1, Alone
  <2>3. x.role \in Roles /\ registry[x.role] = x.s
    BY <1>2, <2>1, AtRole DEF Forgets
  <2> QED
    BY <2>2, <2>3
<1>3. ASSUME NEW d \in CallIds, d # c, NEW x, x = call[d], x.pc = "evict"
      PROVE  ~Alive(registry[x.role])'
  <2>1. x.pc \in RolePcs /\ x.pc \notin {"unsent", "ended"}
    BY <1>3 DEF RolePcs
  <2>2. call[c].kind # "teardown" /\ (call[c].pc \in RolePcs => call[c].role # x.role)
    BY <1>3, <2>1, Alone
  <2>3. /\ x.role \in Roles /\ ~Alive(registry[x.role]) /\ registry[x.role] # None
        /\ registry[x.role] \in SessIds /\ sess[registry[x.role]].role = x.role
    BY <1>3, <2>1, AtRole DEF Forgets, Shape, HasSession, Types, Owned
  <2>4. registry'[x.role] = registry[x.role]
    BY <2>2, <2>3
  <2>5. PICK t \in SessIds : t = registry[x.role] /\ t = registry'[x.role]
    BY <2>3, <2>4
  <2>6. ~Alive(t)'
    BY <2>2, <2>3, <2>5
  <2> QED
    BY <2>5, <2>6 DEF Alive, Up
<1>4. ASSUME NEW d \in CallIds, d # c, NEW x, x = call[d] PROVE Shut(x)'
  <2>1. SUFFICES ASSUME x.pc = "shutting" PROVE FALSE
    BY DEF Shut
  <2>2. x.kind = "teardown" /\ x.pc \notin {"unsent", "ended"}
    BY <1>4, <2>1 DEF Shape, Fits
  <2> QED
    BY <1>4, <2>2, Alone
<1>5. ASSUME NEW d \in CallIds
      PROVE  /\ call'[d].pc \in SessPcs => registry'[call'[d].role] = call'[d].s
             /\ call'[d].pc = "evict" => ~Alive(registry[call[d].role])'
             /\ Shut(call[d])'
  <2>1. PICK x : /\ x = call'[d] /\ Shut(x)'
                 /\ x.pc \in SessPcs => registry'[x.role] = x.s
                 /\ x.pc = "evict" => ~Alive(registry[x.role])'
    <3>1. CASE d = c
      BY <1>1, <3>1
    <3>2. CASE d # c
      BY <1>1, <1>2, <1>3, <1>4, <3>2
    <3> QED
      BY <3>1, <3>2
  <2>2. Shut(call[d])'
    BY <2>1 DEF Shut, Alive, Up
  <2>3. call'[d].pc = "evict" => ~Alive(registry[call[d].role])'
    BY <2>1 DEF Alive, Up
  <2> QED
    BY <2>1, <2>2, <2>3
<1> QED
  BY <1>5 DEF Forgets

\* A CLI that a step leaves with its session is still where it was.
LEMMA StillKept ==
  ASSUME Shape, NEW k \in CliIds, Kept(k), cli'[k].kept = cli[k].kept,
         NEW q, \A r \in Roles : r # q => registry'[r] = registry[r],
         q \in Roles /\ registry[q] # None /\ sess[registry[q]].cli = k => registry'[q] = registry[q],
         \A s \in SessIds : sess[s].cli = k => sess'[s].cli = k
  PROVE  Kept(k)'
<1>1. ASSUME NEW r \in Roles, registry[r] # None, sess[registry[r]].cli = k
      PROVE  registry'[r] # None /\ sess'[registry'[r]].cli = k
  <2>1. registry[r] \in SessIds
    BY <1>1 DEF Shape, Types
  <2>2. registry'[r] = registry[r]
    BY <1>1
  <2> QED
    BY <1>1, <2>1, <2>2
<1> QED
  BY <1>1 DEF Kept

\* What a kill leaves running is still where it was.
LEMMA KillSpares ==
  ASSUME Shape, NEW c \in CallIds, NEW s \in SessIds, NEW o \in Kills(c, s), NEW mark \in Marks,
         cli' = Dead(s, o, mark), sess'[s].cli \in {sess[s].cli, Forgotten(s, o)},
         \A t \in SessIds : t # s => sess'[t].cli = sess[t].cli
  PROVE  /\ \A k \in CliIds : Up(k)' =>
              /\ Up(k) /\ (\A t \in SessIds : sess[t].cli = k => sess'[t].cli = k)
              /\ cli'[k].kept = (IF k = sess[s].cli THEN mark ELSE cli[k].kept)
         /\ \A t \in SessIds : Alive(t)' => Alive(t)
<1>1. PICK f : f = Forgotten(s, o)
  OBVIOUS
<1>2. /\ \A k \in CliIds : k # sess[s].cli => cli'[k] = cli[k]
      /\ f \in {None, sess[s].cli}
      /\ sess[s].cli # None =>
           LET k == sess[s].cli
           IN  /\ k \in CliIds
               /\ cli'[k].fate = "up" => cli[k].fate = "up" /\ f = k /\ cli'[k].kept = mark
  BY <1>1, KillDoes
<1>3. ASSUME NEW k \in CliIds, Up(k)'
      PROVE  /\ Up(k) /\ (\A t \in SessIds : sess[t].cli = k => sess'[t].cli = k)
             /\ cli'[k].kept = (IF k = sess[s].cli THEN mark ELSE cli[k].kept)
  <2>1. k # None /\ cli'[k].fate = "up"
    BY <1>3 DEF Up
  <2>2. CASE k = sess[s].cli
    <3>1. cli[k].fate = "up" /\ f = k /\ cli'[k].kept = mark
      BY <1>2, <2>1, <2>2
    <3> QED
      BY <1>1, <2>1, <2>2, <3>1 DEF Up
  <2>3. CASE k # sess[s].cli
    BY <1>2, <2>1, <2>3 DEF Up
  <2> QED
    BY <2>2, <2>3
<1>4. ASSUME NEW t \in SessIds, Alive(t)' PROVE Alive(t)
  <2>1. t # None /\ Up(sess[t].cli)'
    BY <1>4 DEF Alive
  <2>2. sess'[t].cli \in {None, sess[t].cli} /\ sess'[t].cli # None /\ sess[t].cli \in CliIds \union {None}
    BY <1>1, <1>2, <2>1 DEF Up, Shape, Types, Sessions
  <2>3. sess[t].cli \in CliIds /\ sess'[t].cli = sess[t].cli
    BY <2>2
  <2>4. PICK k \in CliIds : k = sess[t].cli /\ k = sess'[t].cli
    BY <2>3
  <2>5. Up(k)'
    BY <2>1, <2>4 DEF Up
  <2>6. Up(k)
    BY <1>3, <2>5
  <2> QED
    BY <2>1, <2>4, <2>6 DEF Alive
<1> QED
  BY <1>3, <1>4

LEMMA SteadyForgets ==
  ASSUME Shape, Locked, Waits, Forgets, Orderly, NEW c \in CallIds, NEW new \in Calls, Step(c, new),
         Steady(c), Going(c, new)
  PROVE  Forgets'
<1>1. /\ \A s \in SessIds : sess'[s].cli = sess[s].cli
      /\ \A k \in CliIds : cli'[k].fate = cli[k].fate /\ cli'[k].kept = cli[k].kept
      /\ \/ registry' = registry
         \/ /\ call[c].pc = "lookup" /\ registry[call[c].role] = None
            /\ \A r \in Roles : r # call[c].role => registry'[r] = registry[r]
  BY DEF Steady
<1>2. call[c].pc \notin {"unsent", "ended"} /\ new.pc # "shutting"
  BY DEF Going
<1>3. new.pc \in SessPcs => registry'[new.role] = new.s
  BY DEF Going, Forgets
<1>4. \/ registry' = registry
      \/ /\ call[c].pc \in RolePcs
         /\ \A r \in Roles : r # call[c].role => registry'[r] = registry[r]
  BY <1>1 DEF RolePcs
<1>5. \A k \in CliIds : Up(k)' => Up(k)
  BY <1>1 DEF Up
<1>6. ASSUME NEW s \in SessIds, Alive(s)' PROVE Alive(s)
  <2>1. sess[s].cli \in CliIds \union {None}
    BY DEF Shape, Types, Sessions
  <2> QED
    BY <1>1, <1>6, <2>1 DEF Alive, Up
<1>7. ASSUME new.pc = "evict" PROVE ~Alive(registry[new.role])'
  <2>1. new.role \in Roles /\ registry' = registry /\ ~Alive(registry[new.role])
    BY <1>7, AtRole DEF Going, RolePcs
  <2>2. registry[new.role] \in SessIds \union {None}
    BY <2>1 DEF Shape, Types
  <2>3. PICK t : t = registry[new.role] /\ t = registry'[new.role]
    BY <2>1
  <2>4. ~Alive(t)'
    <3>1. CASE t \in SessIds
      BY <1>6, <2>1, <2>3, <3>1
    <3>2. CASE t = None
      BY <3>2 DEF Alive
    <3> QED
      BY <2>2, <2>3, <3>1, <3>2
  <2> QED
    BY <2>3, <2>4 DEF Alive, Up
<1>8. ASSUME NEW k \in CliIds, Up(k)' PROVE Kept(k)'
  <2>1. Kept(k) /\ cli'[k].kept = cli[k].kept
    BY <1>1, <1>5, <1>8 DEF Forgets
  <2>2. \A s \in SessIds : sess[s].cli = k => sess'[s].cli = k
    BY <1>1
  <2>3. PICK q : q = call[c].role
    OBVIOUS
  <2>4. /\ \A r \in Roles : r # q => registry'[r] = registry[r]
        /\ q \in Roles /\ registry[q] # None /\ sess[registry[q]].cli = k => registry'[q] = registry[q]
    BY <1>1, <2>3
  <2> QED
    BY <2>1, <2>2, <2>4, StillKept
<1>9. Shut(new)'
  BY <1>2 DEF Shut
<1> QED
  BY <1>2, <1>3, <1>4, <1>6, <1>7, <1>8, <1>9, ForgetsStep

\* The session of a role is killed where it is: what runs on is found there.
LEMMA KillKept ==
  ASSUME Shape, Forgets, Orderly, NEW c \in CallIds, NEW s \in SessIds, NEW o \in Kills(c, s),
         cli' = Dead(s, o, "here"), sess'[s].cli \in {sess[s].cli, Forgotten(s, o)},
         \A t \in SessIds : t # s => sess'[t].cli = sess[t].cli,
         NEW q \in Roles, registry[q] = s, registry' = registry
  PROVE  \A k \in CliIds : Up(k)' => Kept(k)'
<1>1. ASSUME NEW k \in CliIds, Up(k)' PROVE Kept(k)'
  <2>1. /\ Up(k) /\ (\A t \in SessIds : sess[t].cli = k => sess'[t].cli = k)
        /\ cli'[k].kept = (IF k = sess[s].cli THEN "here" ELSE cli[k].kept)
    BY <1>1, KillSpares DEF Marks
  <2>2. CASE k = sess[s].cli
    <3>1. registry'[q] # None /\ sess'[registry'[q]].cli = k
      BY <2>1, <2>2, Bounds
    <3> QED
      BY <3>1 DEF Kept
  <2>3. CASE k # sess[s].cli
    <3>1. Kept(k) /\ cli'[k].kept = cli[k].kept
      BY <2>1, <2>3 DEF Forgets
    <3> QED
      BY <2>1, <3>1, StillKept
  <2> QED
    BY <2>2, <2>3
<1> QED
  BY <1>1

LEMMA EvictsForgets ==
  ASSUME Shape, Locked, Waits, Forgets, Orderly, NEW c \in CallIds, Evicts(c)
  PROVE  Forgets'
<1>0. PICK s, q : s = registry[call[c].role] /\ q = call[c].role
  OBVIOUS
<1>1. /\ s \in SessIds /\ call[c].pc = "evict" /\ q \in Roles /\ registry[q] = s
      /\ ~Alive(s) /\ s # None
  BY <1>0, EvictsDoes, Bounds DEF Forgets
<1>2. PICK o \in Kills(c, s), new \in Calls :
        /\ cli' = Dead(s, o, "here") /\ Step(c, new) /\ new.saw = call[c].saw
        /\ new.kind = call[c].kind /\ new.pc \in {"ended", "lookup", "ensure"}
        /\ \A t \in SessIds : t # s => sess'[t].cli = sess[t].cli
        /\ \/ /\ o.told = "raised" /\ sess' = sess /\ registry' = registry
              /\ new.pc # "ensure"
           \/ /\ o.told # "raised" /\ sess'[s].cli = Forgotten(s, o)
              /\ new.pc = "ensure" /\ new.role = call[c].role
              /\ new.s = registry'[call[c].role]
              /\ \A r \in Roles : r # call[c].role => registry'[r] = registry[r]
  BY <1>0, EvictsDoes
<1>3. sess'[s].cli \in {sess[s].cli, Forgotten(s, o)} /\ "here" \in Marks
  BY <1>2 DEF Marks
<1>4. /\ \A k \in CliIds : Up(k)' =>
           /\ Up(k) /\ (\A t \in SessIds : sess[t].cli = k => sess'[t].cli = k)
           /\ cli'[k].kept = (IF k = sess[s].cli THEN "here" ELSE cli[k].kept)
      /\ \A t \in SessIds : Alive(t)' => Alive(t)
  BY <1>1, <1>2, <1>3, KillSpares
<1>5. \A r \in Roles : r # q => registry'[r] = registry[r]
  BY <1>0, <1>2
<1>6. ASSUME NEW k \in CliIds, Up(k)' PROVE Kept(k)'
  <2>1. Up(k) /\ k # sess[s].cli
    BY <1>1, <1>4, <1>6 DEF Alive
  <2>2. Kept(k) /\ cli'[k].kept = cli[k].kept
    BY <1>4, <1>6, <2>1 DEF Forgets
  <2>3. \A t \in SessIds : sess[t].cli = k => sess'[t].cli = k
    BY <1>4, <1>6
  <2> QED
    BY <1>1, <1>5, <2>1, <2>2, <2>3, StillKept
<1>7. new.pc \in SessPcs => registry'[new.role] = new.s
  BY <1>2 DEF SessPcs, RolePcs
<1>8. Shut(new)' /\ new.pc # "evict" /\ call[c].pc \in RolePcs
  BY <1>1, <1>2 DEF Shut, RolePcs
<1>9. call[c].pc \notin {"unsent", "ended"}
  BY <1>1
<1> QED
  BY <1>0, <1>2, <1>4, <1>5, <1>6, <1>7, <1>8, <1>9, ForgetsStep

LEMMA KillsLateForgets ==
  ASSUME Shape, Locked, Waits, Forgets, Orderly, NEW c \in CallIds, KillsLate(c)
  PROVE  Forgets'
<1>0. PICK s, q : s = call[c].s /\ q = call[c].role
  OBVIOUS
<1>1. /\ s \in SessIds /\ call[c].pc = "kill" /\ call[c].kind = "turn" /\ registry' = registry
      /\ call[c].pc \in RolePcs /\ call[c].pc \in SessPcs
  BY <1>0, KillsLateDoes DEF RolePcs, SessPcs
<1>2. q \in Roles /\ registry[q] = s
  BY <1>0, <1>1, AtRole DEF Forgets
<1>3. PICK o \in Kills(c, s), new \in Calls :
        /\ cli' = Dead(s, o, "here") /\ Step(c, new) /\ new.saw = call[c].saw
        /\ new.kind = "turn" /\ new.role = call[c].role /\ new.pc \in {"ended", "sample"}
        /\ sess'[s].cli = Forgotten(s, o)
        /\ \A t \in SessIds : t # s => sess'[t].cli = sess[t].cli
  BY <1>0, KillsLateDoes
<1>4. sess'[s].cli \in {sess[s].cli, Forgotten(s, o)} /\ "here" \in Marks
  BY <1>3 DEF Marks
<1>5. \A k \in CliIds : Up(k)' => Kept(k)'
  BY <1>1, <1>2, <1>3, <1>4, KillKept
<1>6. \A t \in SessIds : Alive(t)' => Alive(t)
  BY <1>1, <1>3, <1>4, KillSpares
<1>7. /\ new.pc \notin SessPcs /\ new.pc # "evict" /\ call[c].pc \notin {"unsent", "ended"}
      /\ Shut(new)'
  BY <1>1, <1>3 DEF Shut, SessPcs, RolePcs
<1> QED
  BY <1>1, <1>3, <1>5, <1>6, <1>7, ForgetsStep

LEMMA SpawnsForgets ==
  ASSUME Shape, Locked, Tears, Waits, Forgets, Orderly, NEW c \in CallIds, SpawnsCli(c)
  PROVE  Forgets'
<1>0. PICK s, n, q : s = call[c].s /\ n = NewCli /\ q = call[c].role
  OBVIOUS
<1>1. /\ s \in SessIds /\ n \in CliIds /\ n \notin Born
      /\ call[c].pc \in {"spawn", "revive"}
      /\ registry' = registry /\ cli'[n].kept = "no"
      /\ \A k \in CliIds : k # n => cli'[k] = cli[k]
      /\ sess'[s].cli = n /\ \A t \in SessIds : t # s => sess'[t].cli = sess[t].cli
  BY <1>0, SpawnsDoes
<1>2. PICK new \in Calls :
        /\ Step(c, new) /\ new.kind = call[c].kind /\ new.saw = call[c].saw
        /\ new.pc \in {"lookup", "sample", "ended", "drain", "enter"}
        /\ new.pc = "sample" => new.role = call[c].role
        /\ new.pc \in {"drain", "enter"} => new.role = call[c].role /\ new.s = s
  BY <1>0, SpawnsDoes
<1>3. call[c].pc \in RolePcs /\ call[c].pc \in SessPcs
  BY <1>1 DEF RolePcs, SessPcs
<1>4. /\ q \in Roles /\ registry[q] = s /\ sess[s].role = q /\ ~Alive(s) /\ s # None
  BY <1>0, <1>1, <1>3, AtRole, Bounds DEF Forgets, Tears
<1>5. \A t \in SessIds : sess[t].cli # n
  BY <1>1, Bounds DEF Shape, Owned
<1>6. ASSUME NEW k \in CliIds, Up(k)' PROVE Kept(k)'
  <2>1. CASE k = n
    <3>1. registry'[q] # None /\ sess'[registry'[q]].cli = k
      BY <1>1, <1>4, <2>1
    <3> QED
      BY <1>4, <3>1 DEF Kept
  <2>2. CASE k # n
    <3>1. Up(k) /\ cli'[k].kept = cli[k].kept
      BY <1>1, <1>6, <2>2 DEF Up
    <3>2. Kept(k) /\ k # sess[s].cli
      BY <1>4, <3>1 DEF Forgets, Alive
    <3>3. \A t \in SessIds : sess[t].cli = k => sess'[t].cli = k
      BY <1>1, <3>2
    <3> QED
      BY <1>1, <3>1, <3>2, <3>3, StillKept
  <2> QED
    BY <2>1, <2>2
<1>7. ASSUME NEW t \in SessIds, Alive(t)'
      PROVE  Alive(t) \/ (call[c].pc \in RolePcs /\ sess[t].role = call[c].role)
  <2>1. CASE t = s
    BY <1>0, <1>3, <1>4, <2>1
  <2>2. CASE t # s
    <3>1. sess'[t].cli = sess[t].cli /\ sess[t].cli # n /\ sess[t].cli \in CliIds \union {None}
      BY <1>1, <1>5, <2>2 DEF Shape, Types, Sessions
    <3>2. sess[t].cli \in CliIds
      BY <1>7, <3>1 DEF Alive, Up
    <3>3. cli'[sess[t].cli] = cli[sess[t].cli]
      BY <1>1, <3>1, <3>2
    <3> QED
      BY <1>7, <3>1, <3>3 DEF Alive, Up
  <2> QED
    BY <2>1, <2>2
<1>8. new.pc \in SessPcs => registry'[new.role] = new.s
  BY <1>0, <1>1, <1>2, <1>4 DEF SessPcs, RolePcs
<1>9. Shut(new)' /\ new.pc # "evict" /\ call[c].pc \notin {"unsent", "ended"}
  BY <1>1, <1>2 DEF Shut
<1> QED
  BY <1>1, <1>2, <1>6, <1>7, <1>8, <1>9, ForgetsStep

LEMMA ReplacesForgets ==
  ASSUME Shape, Locked, Waits, Forgets, Orderly, NEW c \in CallIds, Replaces(c)
  PROVE  Forgets'
<1>0. PICK s, n, q : s = call[c].s /\ n = NewCli /\ q = call[c].role
  OBVIOUS
<1>1. /\ s \in SessIds /\ n \in CliIds /\ n \notin Born /\ registry' = registry
      /\ call[c].pc = "respawn" /\ call[c].kind = "turn"
  BY <1>0, ReplacesDoes
<1>2. PICK new \in Calls : /\ Step(c, new) /\ new.pc = "reap" /\ new.kind = "turn"
                           /\ new.saw = call[c].saw /\ new.s = s /\ new.role = call[c].role
  BY <1>0, ReplacesDoes
<1>3. call[c].pc \in RolePcs /\ call[c].pc \in SessPcs
  BY <1>1 DEF RolePcs, SessPcs
<1>4. q \in Roles /\ registry[q] = s /\ sess[s].role = q /\ s # None
  BY <1>0, <1>1, <1>3, AtRole, Bounds DEF Forgets
<1>5. PICK o \in Kills(c, s) :
        \/ /\ cli' = Dead(s, o, "here") /\ o.told = "raised" /\ sess' = sess
        \/ /\ cli'[n].kept = "no" /\ cli'[n].fate # "unborn"
           /\ \A k \in CliIds : k # n /\ k # sess[s].cli => cli'[k] = cli[k]
           /\ sess[s].cli # None =>
                /\ cli'[sess[s].cli].fate # "unborn"
                /\ cli'[sess[s].cli].fate = "up" => /\ cli[sess[s].cli].fate = "up"
                                                    /\ cli'[sess[s].cli].kept = "replaced"
                /\ cli'[sess[s].cli].kept \in {cli[sess[s].cli].kept, "replaced"}
           /\ sess'[s].cli = n /\ \A t \in SessIds : t # s => sess'[t].cli = sess[t].cli
  BY <1>0, ReplacesDoes
<1>6. new.pc \in SessPcs => registry'[new.role] = new.s
  BY <1>0, <1>1, <1>2, <1>4
<1>7. Shut(new)' /\ new.pc # "evict" /\ call[c].pc \notin {"unsent", "ended"}
  BY <1>1, <1>2 DEF Shut
<1>8. CASE cli' = Dead(s, o, "here") /\ sess' = sess
  <2>1. \A k \in CliIds : Up(k)' => Kept(k)'
    BY <1>1, <1>4, <1>8, KillKept
  <2>2. "here" \in Marks /\ sess'[s].cli \in {sess[s].cli, Forgotten(s, o)}
    BY <1>8 DEF Marks
  <2>3. \A t \in SessIds : t # s => sess'[t].cli = sess[t].cli
    BY <1>8
  <2>4. \A t \in SessIds : Alive(t)' => Alive(t)
    BY <1>1, <1>8, <2>2, <2>3, KillSpares
  <2> QED
    BY <1>1, <1>2, <1>6, <1>7, <2>1, <2>4, ForgetsStep
<1>9. CASE /\ \A k \in CliIds : k # n /\ k # sess[s].cli => cli'[k] = cli[k]
           /\ sess[s].cli # None /\ cli'[sess[s].cli].fate = "up" =>
                cli'[sess[s].cli].kept = "replaced"
           /\ sess'[s].cli = n /\ \A t \in SessIds : t # s => sess'[t].cli = sess[t].cli
  <2>1. \A t \in SessIds : sess[t].cli # n /\ (sess[t].cli = sess[s].cli /\ sess[s].cli # None => t = s)
    BY <1>1, Bounds DEF Shape, Owned
  <2>2. ASSUME NEW k \in CliIds, Up(k)' PROVE Kept(k)'
    <3>1. CASE k = n
      <4>1. registry'[q] # None /\ sess'[registry'[q]].cli = k
        BY <1>1, <1>4, <1>9, <3>1
      <4> QED
        BY <1>4, <4>1 DEF Kept
    <3>2. CASE k # n /\ k = sess[s].cli
      <4>1. cli'[k].kept = "replaced"
        BY <1>9, <2>2, <3>2 DEF Up
      <4> QED
        BY <4>1 DEF Kept
    <3>3. CASE k # n /\ k # sess[s].cli
      <4>1. Up(k) /\ cli'[k].kept = cli[k].kept
        BY <1>9, <2>2, <3>3 DEF Up
      <4>2. Kept(k)
        BY <4>1 DEF Forgets
      <4>3. \A t \in SessIds : sess[t].cli = k => sess'[t].cli = k
        BY <1>9, <3>3
      <4> QED
        BY <1>1, <4>1, <4>2, <4>3, StillKept
    <3> QED
      BY <3>1, <3>2, <3>3
  <2>3. ASSUME NEW t \in SessIds, Alive(t)'
        PROVE  Alive(t) \/ (call[c].pc \in RolePcs /\ sess[t].role = call[c].role)
    <3>1. CASE t = s
      BY <1>0, <1>3, <1>4, <3>1
    <3>2. CASE t # s
      <4>1. sess'[t].cli = sess[t].cli /\ sess[t].cli # n /\ sess[t].cli \in CliIds \union {None}
        BY <1>9, <2>1, <3>2 DEF Shape, Types, Sessions
      <4>2. sess[t].cli \in CliIds /\ sess[t].cli # None
        BY <2>3, <4>1 DEF Alive, Up
      <4>3. sess[t].cli # sess[s].cli
        BY <2>1, <3>2, <4>2
      <4>4. cli'[sess[t].cli] = cli[sess[t].cli]
        BY <1>9, <4>1, <4>2, <4>3
      <4> QED
        BY <2>3, <4>1, <4>4 DEF Alive, Up
    <3> QED
      BY <3>1, <3>2
  <2> QED
    BY <1>1, <1>2, <1>6, <1>7, <2>2, <2>3, ForgetsStep
<1> QED
  BY <1>5, <1>8, <1>9

\* A teardown's role less, or its end; what survives is marked.
LEMMA ShutsOneForgets ==
  ASSUME Shape, Locked, Waits, Forgets, Orderly, NEW c \in CallIds, NEW r \in Roles, ShutsOne(c, r)
  PROVE  Forgets'
<1>0. PICK s : s = registry[r]
  OBVIOUS
<1>1. /\ call[c].pc = "shutting" /\ s \in SessIds /\ call[c].kind = "teardown"
      /\ r \in call[c].left /\ registry' = registry /\ sess[s].role = r
      /\ call[c] \in Calls
  BY <1>0, ShutsOneIs DEF ShutsOne, Shape, Types
<1>2. PICK o \in Kills(c, s), new \in Calls :
        /\ cli' = Dead(s, o, "torn")
        /\ sess'[s] = [role |-> r, lock |-> None, cli |-> Forgotten(s, o)]
        /\ \A t \in SessIds : t # s => sess'[t] = sess[t]
        /\ Step(c, new) /\ new.kind = "teardown" /\ new.saw = call[c].saw
        /\ \/ new.pc = "ended" /\ new.answer = "error"
           \/ new.pc = "shutting" /\ new.left = call[c].left \ {r}
  BY <1>0, ShutsOneIs
<1>3. PICK f : f = Forgotten(s, o)
  OBVIOUS
<1>4. /\ sess'[s].cli = Forgotten(s, o) /\ "torn" \in Marks
      /\ \A t \in SessIds : t # s => sess'[t].cli = sess[t].cli
  BY <1>2 DEF Marks
<1>5. /\ \A k \in CliIds : Up(k)' =>
           /\ Up(k) /\ (\A t \in SessIds : sess[t].cli = k => sess'[t].cli = k)
           /\ cli'[k].kept = (IF k = sess[s].cli THEN "torn" ELSE cli[k].kept)
      /\ \A t \in SessIds : Alive(t)' => Alive(t)
  BY <1>1, <1>2, <1>4, KillSpares
<1>6. ASSUME NEW k \in CliIds, Up(k)' PROVE Kept(k)'
  <2>1. CASE k = sess[s].cli
    BY <1>5, <1>6, <2>1 DEF Kept
  <2>2. CASE k # sess[s].cli
    <3>1. Kept(k) /\ cli'[k].kept = cli[k].kept
      BY <1>5, <1>6, <2>2 DEF Forgets
    <3>2. \A t \in SessIds : sess[t].cli = k => sess'[t].cli = k
      BY <1>5, <1>6
    <3> QED
      BY <1>1, <3>1, <3>2, StillKept
  <2> QED
    BY <2>1, <2>2
<1>7. ASSUME new.pc = "shutting", NEW q \in Roles \ new.left, Alive(registry[q])'
      PROVE  cli'[sess'[registry'[q]].cli].kept = "torn"
  <2>1. PICK t : t = registry[q] /\ t = registry'[q]
    BY <1>1
  <2>2. Alive(t)' /\ t \in SessIds /\ t # None
    <3>1. Alive(t)'
      BY <1>7, <2>1 DEF Alive, Up
    <3> QED
      BY <2>1, <3>1 DEF Alive, Shape, Types
  <2>3. Alive(t) /\ sess[t].role = q
    BY <1>5, <2>1, <2>2 DEF Shape, Owned
  <2>4. cli'[sess'[t].cli].fate = "up" /\ sess'[t].cli # None
    BY <2>2 DEF Alive, Up
  <2>5. PICK k \in CliIds : k = sess[t].cli
    BY <2>2, <2>3 DEF Alive, Up, Shape, Types, Sessions
  <2>6. sess'[t].cli = k
    <3>1. Forgotten(s, o) \in {None, sess[s].cli}
      BY <1>1, <1>3, <1>4, KillDoes
    <3> QED
      BY <1>4, <2>2, <2>4, <2>5, <3>1
  <2>7. Up(k)'
    BY <2>4, <2>6 DEF Up
  <2>8. CASE t = s
    BY <1>5, <2>1, <2>5, <2>6, <2>7, <2>8
  <2>9. CASE t # s
    <3>1. q # r /\ q \notin call[c].left
      BY <1>0, <1>2, <1>7, <2>1, <2>9
    <3>2. cli[k].kept = "torn"
      BY <1>1, <2>1, <2>3, <2>5, <3>1 DEF Forgets, Shut
    <3>3. k # sess[s].cli
      BY <1>1, <2>2, <2>3, <2>5, <2>9 DEF Shape, Owned, Alive, Up
    <3> QED
      BY <1>5, <2>1, <2>6, <2>7, <3>2, <3>3
  <2> QED
    BY <2>8, <2>9
<1>8. Shut(new)'
  BY <1>7 DEF Shut
<1>9. new.pc \notin SessPcs /\ new.pc # "evict" /\ call[c].pc \notin {"unsent", "ended"}
  BY <1>1, <1>2 DEF SessPcs, RolePcs
<1> QED
  BY <1>1, <1>2, <1>5, <1>6, <1>8, <1>9, ForgetsStep

LEMMA ShutsForgets ==
  ASSUME Shape, Locked, Waits, Forgets, Orderly, NEW c \in CallIds, Shuts(c) \/ Clears(c)
  PROVE  Forgets'
<1>1. UNCHANGED <<cli, sess>>
  BY DEF Shuts, Clears
<1>2. call[c].pc \in {"shut", "shutting"} /\ call[c].kind = "teardown"
  BY DEF Shuts, Clears, At, Shape, Fits
<1>3. \A s \in SessIds : Alive(s)' => Alive(s)
  BY <1>1 DEF Alive, Up
<1>4. \A k \in CliIds : Up(k)' => Kept(k)
  BY <1>1 DEF Forgets, Up
<1>5. CASE Shuts(c)
  <2>1. PICK new \in Calls : Step(c, new) /\ new.pc = "shutting" /\ new.left = Listed
    BY <1>5, ShutsIs
  <2>2. registry' = registry
    BY <1>5 DEF Shuts
  <2>3. \A k \in CliIds : Up(k)' => Kept(k)'
    BY <1>1, <1>4, <2>2 DEF Kept
  <2>4. Shut(new)'
    BY <2>1, <2>2 DEF Shut, Listed, Alive
  <2>5. new.pc \notin SessPcs /\ new.pc # "evict" /\ call[c].pc \notin {"unsent", "ended"}
    BY <1>2, <2>1 DEF SessPcs, RolePcs
  <2> QED
    BY <1>3, <2>1, <2>2, <2>3, <2>4, <2>5, ForgetsStep
<1>6. CASE Clears(c)
  <2>1. call[c].pc = "shutting" /\ call[c].left = {} /\ Go(c, "close") /\ "close" \in Pcs
    BY <1>6 DEF Clears, At, Pcs
  <2>2. PICK new \in Calls : Step(c, new) /\ new.pc = "close"
    BY <2>1, GoIs DEF Shape
  <2>3. ASSUME NEW k \in CliIds, Up(k)' PROVE Kept(k)'
    <3>1. Kept(k) /\ Up(k)
      BY <1>1, <1>4, <2>3 DEF Up
    <3>2. ASSUME NEW r \in Roles, registry[r] # None, sess[registry[r]].cli = k
          PROVE  cli[k].kept = "torn"
      BY <2>1, <3>1, <3>2 DEF Forgets, Shut, Alive
    <3>3. cli[k].kept \in {"replaced", "torn"}
      BY <3>1, <3>2 DEF Kept
    <3> QED
      BY <1>1, <3>3 DEF Kept
  <2>4. /\ new.pc \notin SessPcs /\ new.pc # "evict" /\ call[c].pc \notin {"unsent", "ended"}
        /\ Shut(new)'
    BY <1>2, <2>2 DEF SessPcs, RolePcs, Shut
  <2> QED
    BY <1>2, <1>3, <2>2, <2>3, <2>4, ForgetsStep
<1> QED
  BY <1>5, <1>6

\* What is at work is not disturbed by what is not.
LEMMA OutsideForgets ==
  ASSUME Shape, Forgets, Orderly, UNCHANGED <<sess, registry>>,
         \A c \in CallIds : call'[c] = call[c] \/ call'[c].pc \notin (SessPcs \union {"evict", "shutting"}),
         \A k \in CliIds : /\ cli'[k].kept = cli[k].kept
                           /\ cli'[k].fate = "up" => cli[k].fate = "up"
  PROVE  Forgets'
<1>1. \A s \in SessIds : Alive(s)' => Alive(s)
  <2>1. \A s \in SessIds : sess[s].cli \in CliIds \union {None}
    BY DEF Shape, Types, Sessions
  <2> QED
    BY <2>1 DEF Alive, Up
<1>2. \A k \in CliIds : Up(k)' => Kept(k)'
  BY DEF Up, Kept, Forgets
<1>3. ASSUME NEW x \in Calls, Shut(x) PROVE Shut(x)'
  <2>1. ASSUME x.pc = "shutting", NEW r \in Roles \ x.left, Alive(registry[r])'
        PROVE  cli'[sess'[registry'[r]].cli].kept = "torn"
    <3>1. PICK t : t = registry[r] /\ t = registry'[r]
      OBVIOUS
    <3>2. Alive(t)'
      BY <2>1, <3>1 DEF Alive, Up
    <3>3. t \in SessIds /\ sess[t].cli \in CliIds
      BY <3>1, <3>2 DEF Alive, Up, Shape, Types, Sessions
    <3>4. Alive(registry[r])
      BY <1>1, <3>1, <3>2, <3>3
    <3>5. cli[sess[registry[r]].cli].kept = "torn"
      BY <1>3, <2>1, <3>4 DEF Shut
    <3> QED
      BY <3>1, <3>3, <3>5
  <2> QED
    BY <2>1 DEF Shut
<1>4. ASSUME NEW x \in Calls, x.role \in Roles, ~Alive(registry[x.role]) PROVE ~Alive(registry[x.role])'
  <2>1. PICK t : t = registry[x.role] /\ t = registry'[x.role]
    OBVIOUS
  <2>2. t \in SessIds \union {None}
    BY <1>4, <2>1 DEF Shape, Types
  <2>3. ~Alive(t)'
    <3>1. CASE t \in SessIds
      BY <1>1, <1>4, <2>1, <3>1
    <3>2. CASE t = None
      BY <3>2 DEF Alive
    <3> QED
      BY <2>2, <3>1, <3>2
  <2> QED
    BY <2>1, <2>3 DEF Alive, Up
<1>5. ASSUME NEW c \in CallIds
      PROVE  /\ call'[c].pc \in SessPcs => registry'[call'[c].role] = call'[c].s
             /\ call'[c].pc = "evict" => ~Alive(registry[call[c].role])'
             /\ Shut(call[c])'
  <2>1. PICK x : x = call[c]
    OBVIOUS
  <2>2. CASE call'[c] = x
    <3>1. /\ x \in Calls /\ Shut(x) /\ (x.pc \in SessPcs => registry[x.role] = x.s)
          /\ (x.pc = "evict" => ~Alive(registry[x.role]) /\ x.role \in Roles)
      BY <2>1, AtRole DEF Forgets, Shape, Types, RolePcs
    <3>2. Shut(x)' /\ (x.pc = "evict" => ~Alive(registry[x.role])')
      BY <1>3, <1>4, <3>1
    <3>3. Shut(call[c])'
      BY <2>2, <3>2 DEF Shut, Alive, Up
    <3>4. call'[c].pc = "evict" => ~Alive(registry[call[c].role])'
      BY <2>2, <3>2 DEF Alive, Up
    <3> QED
      BY <2>2, <3>1, <3>3, <3>4
  <2>3. CASE call'[c].pc \notin (SessPcs \union {"evict", "shutting"})
    BY <2>3 DEF Shut
  <2> QED
    BY <2>1, <2>2, <2>3
<1> QED
  BY <1>2, <1>5 DEF Forgets

LEMMA SendsForgets ==
  ASSUME Shape, Waits, Forgets, Sends
  PROVE  Forgets' /\ Waits'
<1>1. PICK c \in CallIds, new \in Calls :
        /\ call[c] = NoCall /\ Step(c, new) /\ new.pc \in {"check", "preflight", "shut", "ping"}
        /\ waiting = None /\ waiting' = c
        /\ UNCHANGED <<registry, sess, cli, abandoned>>
  BY SendsIs
<1>2. call'[c] = new /\ \A d \in CallIds \ {c} : call'[d] = call[d]
  BY <1>1, StepIs DEF Shape
<1>3. Waits'
  BY <1>1, <1>2, Bounds DEF Waits
<1>4. Orderly' => Orderly
  <2>1. \A d \in CallIds : call'[d].kind \notin {"resume", "teardown"}
                             => call[d].kind \notin {"resume", "teardown"}
    BY <1>1, <1>2 DEF NoCall
  <2> QED
    BY <1>1, <2>1 DEF Orderly
<1>5. ASSUME Orderly PROVE Forgets'
  <2>1. \A d \in CallIds : call'[d] = call[d] \/ call'[d].pc \notin (SessPcs \union {"evict", "shutting"})
    BY <1>1, <1>2 DEF SessPcs, RolePcs
  <2> QED
    BY <1>1, <1>5, <2>1, OutsideForgets
<1> QED
  BY <1>3, <1>4, <1>5 DEF Forgets

LEMMA ActiveWorks ==
  ASSUME Shape, Locked, NEW c \in CallIds, Works(c) \/ Expires(c)
  PROVE  /\ UNCHANGED <<waiting, abandoned>> /\ call[c].pc \notin {"unsent", "ended"}
         /\ \E new \in Calls : Step(c, new) /\ new.kind = call[c].kind
<1>1. UNCHANGED <<waiting, abandoned>>
  BY DEF Works, Checks, TakesTurn, LooksUp, Evicts, Ensures, SpawnsCli, EntersTurn, Drains,
         Prompts, Polls, Reads, ReadsEnd, KillsLate, Replaces, ReapsOrphans, Reports,
         Preflights, Shuts, ShutsOne, Clears, TearsDown, Pings, Expires, world
<1>2. CASE \/ Checks(c) \/ TakesTurn(c) \/ Ensures(c) \/ EntersTurn(c) \/ Polls(c) \/ ReadsEnd(c)
           \/ Expires(c) \/ Preflights(c) \/ TearsDown(c) \/ Pings(c) \/ Reports(c)
           \/ ReapsOrphans(c) \/ LooksUp(c) \/ Prompts(c) \/ Drains(c) \/ Reads(c)
  <2>1. \E new \in Calls : Step(c, new) /\ Going(c, new)
    BY <1>2, SteadyWorks
  <2> QED
    BY <1>1, <2>1 DEF Going
<1>3. CASE Evicts(c)
  <2>1. PICK s : s = registry[call[c].role]
    OBVIOUS
  <2>2. call[c].pc = "evict" /\ \E new \in Calls : Step(c, new) /\ new.kind = call[c].kind
    BY <1>3, <2>1, EvictsDoes
  <2> QED
    BY <1>1, <2>2
<1>4. CASE SpawnsCli(c)
  <2>1. PICK s, n : s = call[c].s /\ n = NewCli
    OBVIOUS
  <2>2. /\ call[c].pc \in {"spawn", "revive"}
        /\ \E new \in Calls : Step(c, new) /\ new.kind = call[c].kind
    BY <1>4, <2>1, SpawnsDoes
  <2> QED
    BY <1>1, <2>2
<1>5. CASE Replaces(c)
  <2>1. PICK s, n : s = call[c].s /\ n = NewCli
    OBVIOUS
  <2>2. /\ call[c].pc = "respawn" /\ call[c].kind = "turn"
        /\ \E new \in Calls : Step(c, new) /\ new.kind = "turn"
    BY <1>5, <2>1, ReplacesDoes
  <2> QED
    BY <1>1, <2>2
<1>6. CASE KillsLate(c)
  <2>1. PICK s : s = call[c].s
    OBVIOUS
  <2>2. /\ call[c].pc = "kill" /\ call[c].kind = "turn"
        /\ \E new \in Calls : Step(c, new) /\ new.kind = "turn"
    BY <1>6, <2>1, KillsLateDoes
  <2> QED
    BY <1>1, <2>2
<1>7. CASE Shuts(c)
  <2>1. /\ call[c].pc = "shut" /\ call[c].kind = "teardown"
        /\ \E new \in Calls : Step(c, new) /\ new.kind = "teardown"
    BY <1>7, ShutsIs
  <2> QED
    BY <1>1, <2>1
<1>8. CASE \E r \in call[c].left : ShutsOne(c, r)
  <2>1. call[c].left \subseteq Roles
    BY DEF Shape, Types, Calls
  <2>2. PICK r \in Roles : ShutsOne(c, r)
    BY <1>8, <2>1
  <2>3. PICK s : s = registry[r]
    OBVIOUS
  <2>4. call[c].pc = "shutting" /\ call[c].kind = "teardown"
    BY <2>2, <2>3, ShutsOneIs
  <2>5. PICK o \in Kills(c, s), new \in Calls :
          /\ cli' = Dead(s, o, "torn")
          /\ sess'[s] = [role |-> r, lock |-> None, cli |-> Forgotten(s, o)]
          /\ \A t \in SessIds : t # s => sess'[t] = sess[t]
          /\ Step(c, new) /\ new.kind = "teardown" /\ new.saw = call[c].saw
          /\ \/ new.pc = "ended" /\ new.answer = "error"
             \/ new.pc = "shutting" /\ new.left = call[c].left \ {r}
    BY <2>2, <2>3, ShutsOneIs
  <2> QED
    BY <1>1, <2>4, <2>5
<1>9. CASE Clears(c)
  <2>1. call[c].pc = "shutting" /\ Go(c, "close") /\ "close" \in Pcs
    BY <1>9 DEF Clears, At, Pcs
  <2>2. \E new \in Calls : Step(c, new) /\ new.kind = call[c].kind
    BY <2>1, GoIs DEF Shape
  <2> QED
    BY <1>1, <2>1, <2>2
<1> QED
  BY <1>2, <1>3, <1>4, <1>5, <1>6, <1>7, <1>8, <1>9 DEF Works

LEMMA WorksForgets ==
  ASSUME Shape, Locked, Tears, Waits, Forgets, NEW c \in CallIds, Works(c) \/ Expires(c)
  PROVE  Waits' /\ Forgets'
<1>1. UNCHANGED <<waiting, abandoned>> /\ call[c].pc \notin {"unsent", "ended"}
  BY ActiveWorks
<1>2. PICK new \in Calls : Step(c, new) /\ new.kind = call[c].kind
  BY ActiveWorks
<1>3. call'[c] = new /\ \A d \in CallIds \ {c} : call'[d] = call[d]
  BY <1>2, StepIs DEF Shape
<1>4. Waits'
  BY <1>1, <1>3 DEF Waits
<1>5. Orderly' => Orderly
  <2>1. \A d \in CallIds : call'[d].kind = call[d].kind
    BY <1>2, <1>3
  <2> QED
    BY <1>1, <2>1 DEF Orderly
<1>6. ASSUME Orderly PROVE Forgets'
  <2>1. CASE \/ Checks(c) \/ TakesTurn(c) \/ Ensures(c) \/ EntersTurn(c) \/ Polls(c) \/ ReadsEnd(c)
             \/ Expires(c) \/ Preflights(c) \/ TearsDown(c) \/ Pings(c) \/ Reports(c)
             \/ ReapsOrphans(c) \/ LooksUp(c) \/ Prompts(c) \/ Drains(c) \/ Reads(c)
    BY <1>6, <2>1, SteadyWorks, SteadyForgets
  <2>2. CASE Evicts(c) \/ SpawnsCli(c) \/ Replaces(c) \/ KillsLate(c)
    BY <1>6, <2>2, EvictsForgets, SpawnsForgets, ReplacesForgets, KillsLateForgets
  <2>3. CASE Shuts(c) \/ Clears(c)
    BY <1>6, <2>3, ShutsForgets
  <2>4. CASE \E r \in call[c].left : ShutsOne(c, r)
    <3>1. call[c].left \subseteq Roles
      BY DEF Shape, Types, Calls
    <3> QED
      BY <1>6, <2>4, <3>1, ShutsOneForgets
  <2> QED
    BY <2>1, <2>2, <2>3, <2>4 DEF Works
<1>7. Forgets'
  BY <1>5, <1>6 DEF Forgets
<1> QED
  BY <1>4, <1>7

LEMMA ForgetsInit == Init => Waits /\ Forgets
<1> SUFFICES ASSUME Init PROVE Waits /\ Forgets
  OBVIOUS
<1> DEFINE n == Len(RoleOrder)
<1>1. \A c \in CallIds : call[c].pc = "unsent"
  BY DEF Init, NoCall
<1>2. /\ n \in Nat /\ 1..n \subseteq SessIds /\ 1..n \subseteq CliIds
      /\ \A i \in 1..n : RoleOrder[i] \in Roles
      /\ None = 0 /\ \A i, j \in 1..n : RoleOrder[i] = RoleOrder[j] => i = j
  BY Bounds, RunnerAssumption DEF Roles, SessIds, CliIds, None
<1>3. \A r \in Roles : registry[r] \in 1..n /\ RoleOrder[registry[r]] = r
  BY Bounds DEF Init, Roles
<1>4. PICK started \in {{}, Roles} :
        /\ sess = [s \in SessIds |->
                     IF s <= Len(RoleOrder)
                     THEN [role |-> RoleOrder[s], lock |-> None,
                           cli |-> IF RoleOrder[s] \in started THEN s ELSE None]
                     ELSE [role |-> "none", lock |-> None, cli |-> None]]
        /\ cli = [k \in CliIds |->
                    IF k <= Len(RoleOrder)
                    THEN [role |-> RoleOrder[k], inbox |-> <<>>, out |-> <<>>,
                          greeted |-> TRUE, kept |-> "no",
                          fate |-> IF RoleOrder[k] \in started THEN "up" ELSE "gone"]
                    ELSE [role |-> "none", inbox |-> <<>>, out |-> <<>>,
                          greeted |-> FALSE, kept |-> "no", fate |-> "unborn"]]
  BY DEF Init
<1>5. \A k \in CliIds : k <= n => k \in 1..n
  BY <1>2 DEF CliIds
<1>6. ASSUME NEW k \in CliIds, Up(k) PROVE Kept(k)
  <2>1. k \in 1..n /\ RoleOrder[k] \in started
    BY <1>4, <1>5, <1>6 DEF Up
  <2>2. registry[RoleOrder[k]] = k /\ RoleOrder[k] \in Roles
    BY <1>2, <1>3, <2>1
  <2>3. sess[k].cli = k /\ k # None
    BY <1>2, <1>4, <2>1
  <2> QED
    BY <2>2, <2>3 DEF Kept
<1> QED
  BY <1>1, <1>6 DEF Waits, Forgets, Shut, SessPcs, RolePcs

LEMMA ForgetsNext ==
  Shape /\ Locked /\ Tears /\ Waits /\ Forgets /\ [Next]_vars => Waits' /\ Forgets'
<1> SUFFICES ASSUME Shape, Locked, Tears, Waits, Forgets, [Next]_vars PROVE Waits' /\ Forgets'
  OBVIOUS
<1>1. CASE UNCHANGED vars \/ Hears \/ Abandons
  <2>1. UNCHANGED <<call, sess, registry, cli>>
    BY <1>1 DEF Hears, Abandons, vars, locks
  <2>2. Waits' /\ (Orderly' => Orderly)
    <3>1. CASE UNCHANGED vars \/ Hears
      BY <1>1, <3>1 DEF Waits, Orderly, Hears, At, vars, world
    <3>2. CASE Abandons
      <4>1. abandoned' # 0
        BY <3>2, Bounds DEF Abandons, Shape, Types
      <4> QED
        BY <2>1, <4>1 DEF Waits, Orderly
    <3> QED
      BY <1>1, <3>1, <3>2
  <2>3. Orderly => Forgets'
    BY <2>1, OutsideForgets
  <2>4. Forgets'
    BY <2>2, <2>3 DEF Forgets
  <2> QED
    BY <2>2, <2>4
<1>2. CASE Sends
  BY <1>2, SendsForgets
<1>3. CASE \E k \in CliIds : Answers(k) \/ Exits(k)
  <2>1. UNCHANGED <<call, sess, registry, waiting, abandoned>>
    BY <1>3 DEF Answers, Exits, threads, locks
  <2>2. Waits' /\ (Orderly' => Orderly)
    BY <2>1 DEF Waits, Orderly
  <2>3. \A k \in CliIds : /\ cli'[k].kept = cli[k].kept
                          /\ cli'[k].fate = "up" => cli[k].fate = "up"
    BY <1>3, OutsideFates
  <2>4. Orderly => Forgets'
    BY <2>1, <2>3, OutsideForgets
  <2>5. Forgets'
    BY <2>2, <2>4 DEF Forgets
  <2> QED
    BY <2>2, <2>5
<1>4. CASE Runs
  BY <1>4, WorksForgets DEF Runs
<1> QED
  BY <1>1, <1>2, <1>3, <1>4 DEF Next

THEOREM ForgetsHold == Spec => [](Waits /\ Forgets)
<1>1. Init => Waits /\ Forgets
  BY ForgetsInit
<1> QED
  BY <1>1, ForgetsNext, Solid, TearsHold, PTL DEF Spec

\* As long as no thread is left behind beside a teardown or a resume, a CLI
\* that runs is held by a session where the next turn or a teardown finds
\* it, unless a failed replacement or a failed teardown has said otherwise.
THEOREM NoneForgotten == Spec => []NothingForgotten
<1>1. Shape /\ Forgets => NothingForgotten
  <2> SUFFICES ASSUME Shape, Forgets, Orderly, NEW k \in CliIds, Up(k)
               PROVE  Held(k) \/ cli[k].kept \in {"replaced", "torn"}
    BY DEF NothingForgotten
  <2>1. Kept(k)
    BY DEF Forgets
  <2>2. ASSUME NEW r \in Roles, registry[r] # None, sess[registry[r]].cli = k
        PROVE  Held(k)
    <3>1. registry[r] \in SessIds
      BY <2>2 DEF Shape, Types
    <3> QED
      BY <2>2, <3>1 DEF Held
  <2> QED
    BY <2>1, <2>2 DEF Kept
<1> QED
  BY <1>1, Solid, ForgetsHold, PTL

=============================================================================
