---------------------------- MODULE Runner_proofs ----------------------------
(***************************************************************************)
(* The runner, for any roles, scripts, threads, sessions, processes and    *)
(* faults: the shape of its state and the holders of its locks.            *)
(***************************************************************************)
EXTENDS Runner, FiniteSetTheorems, SequenceTheorems, TLAPS

(***************************************************************************)
(* Types.                                                                  *)
(***************************************************************************)
Kinds == {"none", "turn", "resume", "teardown", "ping"}
Pcs == {"unsent", "check", "queue", "lookup", "evict", "ensure", "spawn", "enter",
        "revive", "drain", "write", "poll", "read", "kill", "respawn",
        "reap", "sample", "preflight", "shut", "shutting", "close", "ping", "ended"}
Told == {"none", "ok", "failed", "refused", "error"}
Marks == {"no", "here", "replaced", "torn"}
Fates == {"unborn", "up", "left", "gone"}

Calls == [kind : Kinds, role : Roles \union {"none"}, pc : Pcs, todo : Seq(Roles),
          left : SUBSET Roles, s : SessIds \union {None}, heard : SUBSET CallIds,
          answer : Told, saw : SUBSET CliIds]
Sessions == [role : Roles \union {"none"}, lock : Holders, cli : CliIds \union {None}]
Clis == [role : Roles \union {"none"}, inbox : Seq(CallIds), out : Seq(Frames),
         greeted : BOOLEAN, kept : Marks, fate : Fates]

Types ==
    /\ call \in [CallIds -> Calls] /\ script \in Scripts /\ waiting \in Holders
    /\ initialized \in BOOLEAN
    /\ turnLock \in [Roles -> Holders] /\ regLock \in Holders
    /\ registry \in [Roles -> SessIds \union {None}]
    /\ sess \in [SessIds -> Sessions] /\ cli \in [CliIds -> Clis]
    /\ faults \in 0..MaxFaults /\ abandoned \in 0..MaxAbandoned

HoldersWork ==
    \A c \in {regLock} \union {turnLock[r] : r \in Roles} \union {sess[s].lock : s \in SessIds} :
        c # None => call[c].pc \notin {"unsent", "ended"}

LEMMA TypesSuffice == Types /\ HoldersWork => TypeOK
  BY DEF Types, HoldersWork, TypeOK, Calls, Sessions, Clis, Kinds, Pcs, Told, Marks, Fates

(***************************************************************************)
(* Calls, sessions and processes are numbered in the order in which they   *)
(* are made.                                                               *)
(***************************************************************************)
Numbered(S) == S = 1..Cardinality(S)
Ordered == Numbered(Sent) /\ Numbered(Made) /\ Numbered(Born)

LEMMA Finite ==
  /\ IsFiniteSet(Sent) /\ Cardinality(Sent) \in Nat
  /\ IsFiniteSet(Made) /\ Cardinality(Made) \in Nat
  /\ IsFiniteSet(Born) /\ Cardinality(Born) \in Nat
<1>1. {MaxCalls, MaxSessions, MaxClis} \subseteq Int
  BY RunnerAssumption
<1>2. IsFiniteSet(CallIds) /\ IsFiniteSet(SessIds) /\ IsFiniteSet(CliIds)
  BY <1>1, FS_Interval DEF CallIds, SessIds, CliIds
<1> QED
  BY <1>2, FS_Subset, FS_CardinalityType DEF Sent, Made, Born

LEMMA NextNumber ==
  ASSUME NEW S, Numbered(S), Cardinality(S) \in Nat,
         NEW T, T = S \union {Cardinality(S) + 1}
  PROVE  Numbered(T) /\ Cardinality(S) + 1 \notin S
<1> DEFINE n == Cardinality(S)
<1>1. T = 1..(n + 1) /\ n + 1 \notin S
  BY DEF Numbered
<1>2. Cardinality(1..(n + 1)) = n + 1
  BY FS_Interval
<1> QED
  BY <1>1, <1>2 DEF Numbered

LEMMA New ==
  ASSUME Ordered
  PROVE  /\ NewSess \in Nat \ {0} /\ NewSess \notin Made
         /\ NewCli \in Nat \ {0} /\ NewCli \notin Born
         /\ Cardinality(Sent) + 1 \in Nat \ {0} /\ Cardinality(Sent) + 1 \notin Sent
  BY Finite, NextNumber DEF Ordered, NewSess, NewCli

(***************************************************************************)
(* Where a thread is says what kind of call it answers; the registry names *)
(* sessions of its roles, and no process belongs to two sessions.          *)
(***************************************************************************)
RolePcs == {"lookup", "evict", "ensure", "spawn", "enter", "revive", "drain", "write",
            "poll", "read", "kill", "respawn", "reap", "sample"}
SessPcs == RolePcs \ {"lookup", "evict", "sample"}      \* with a session
LockPcs == SessPcs \ {"ensure", "enter"}                \* with its lock
TurnPcs == (LockPcs \ {"spawn"}) \union {"check", "queue", "enter", "sample"}

Fits(x) ==
    /\ x.pc = "unsent" => x = NoCall
    /\ x.pc \in TurnPcs => x.kind = "turn"
    /\ x.pc \in {"lookup", "evict", "ensure", "spawn"} => x.kind \in {"turn", "resume"}
    /\ x.pc = "preflight" => x.kind = "resume"
    /\ x.pc \in {"shut", "shutting", "close"} => x.kind = "teardown"
    /\ x.pc = "ping" => x.kind = "ping"
    /\ x.pc # "unsent" => x.role \in Roles

HasSession(x) ==
    /\ x.pc \in SessPcs => x.s \in SessIds /\ sess[x.s].role = x.role
    /\ x.pc = "evict" => registry[x.role] # None
    /\ \A r \in x.left : registry[r] # None
    /\ x.left # {} => x.pc = "shutting"

Nobodys == [role |-> "none", lock |-> None, cli |-> None]

Owned ==
    /\ \A s \in SessIds : s \notin Made => sess[s] = Nobodys
    /\ \A r \in Roles : registry[r] # None => sess[registry[r]].role = r
    /\ \A s \in SessIds : sess[s].cli # None =>
          /\ sess[s].cli \in Born
          /\ cli[sess[s].cli].role = sess[s].role
          /\ \A t \in SessIds : sess[t].cli = sess[s].cli => s = t

RegHeld == \A c \in CallIds : call[c].pc \in {"evict", "shutting"} <=> regLock = c

Shape == /\ Types /\ Ordered /\ RegHeld /\ Owned
         /\ \A c \in CallIds : Fits(call[c]) /\ HasSession(call[c])

\* The lock of a session, and of a role, is held by the thread that is at
\* work there; past the spawn it has a process to work with.
Locked ==
    /\ \A c \in CallIds : call[c].pc \in LockPcs => sess[call[c].s].lock = c
    /\ \A s \in SessIds : sess[s].lock # None =>
          call[sess[s].lock].pc \in LockPcs /\ call[sess[s].lock].s = s
    /\ \A c \in CallIds : call[c].pc \in LockPcs \ {"spawn", "revive"} =>
          sess[call[c].s].cli # None
    /\ \A c \in CallIds : call[c].kind = "turn" /\ call[c].pc \in RolePcs =>
          turnLock[call[c].role] = c
    /\ \A r \in Roles : turnLock[r] # None =>
          /\ call[turnLock[r]].kind = "turn" /\ call[turnLock[r]].role = r
          /\ call[turnLock[r]].pc \in RolePcs

-----------------------------------------------------------------------------
(***************************************************************************)
(* What the operators of the model return.                                 *)
(***************************************************************************)
LEMMA Bounds ==
  /\ MaxCalls \in Nat /\ MaxSessions \in Nat /\ MaxClis \in Nat /\ MaxFaults \in Nat
  /\ MaxAbandoned \in Nat
  /\ None \notin CallIds /\ None \notin SessIds /\ None \notin CliIds
  /\ RoleOrder \in Seq(Roles) /\ DOMAIN RoleOrder = 1..Len(RoleOrder) /\ Len(RoleOrder) \in Nat
  BY RunnerAssumption, LenProperties DEF None, CallIds, SessIds, CliIds

LEMMA NextRoleIs ==
  ASSUME Types, NEW c \in CallIds, NEW new, new = NextRole(c)
  PROVE  /\ new \in Calls /\ new.pc \in {"lookup", "ended"}
         /\ new.pc = "lookup" => new.role \in Roles
         /\ new.pc = "lookup" => new.left = call[c].left
         /\ new.pc = "lookup" => new.answer = call[c].answer
         /\ new.pc = "ended" => new.role = call[c].role /\ new.left = {} /\ new.s = None
         /\ new.kind = call[c].kind /\ new.heard = call[c].heard /\ new.saw = call[c].saw
<1>1. call[c] \in Calls
  BY DEF Types
<1>2. CASE Len(call[c].todo) > 1
  <2>1. call[c].todo \in Seq(Roles)
    BY <1>1 DEF Calls
  <2>2. call[c].todo # <<>> /\ call[c].todo[2] \in Roles
    BY <1>2, <2>1, LenProperties, ElementOfSeq, EmptySeq
  <2>3. Tail(call[c].todo) \in Seq(Roles)
    BY <2>1, <2>2, HeadTailProperties
  <2>4. new = [call[c] EXCEPT !.todo = Tail(@), !.role = call[c].todo[2], !.pc = "lookup"]
    BY <1>2 DEF NextRole
  <2> QED
    BY <1>1, <2>2, <2>3, <2>4 DEF Calls, Pcs
<1>3. CASE ~(Len(call[c].todo) > 1)
  <2>1. new = Ends(c, "ok")
    BY <1>3 DEF NextRole
  <2>2. <<>> \in Seq(Roles)
    BY EmptySeq
  <2> QED
    BY <1>1, <2>1, <2>2 DEF Ends, Calls, Pcs, Told
<1> QED
  BY <1>2, <1>3

LEMMA EndsIs ==
  ASSUME Types, NEW c \in CallIds, NEW how \in Told, NEW new, new = Ends(c, how)
  PROVE  /\ new \in Calls /\ new.pc = "ended" /\ new.left = {} /\ new.s = None
         /\ new.kind = call[c].kind /\ new.role = call[c].role /\ new.heard = call[c].heard
         /\ new.saw = call[c].saw /\ new.answer = how
<1>1. call[c] \in Calls /\ <<>> \in Seq(Roles)
  BY EmptySeq DEF Types
<1> QED
  BY <1>1 DEF Ends, Calls, Pcs

LEMMA GivesUpIs ==
  ASSUME Types, NEW c \in CallIds, NEW new, new = GivesUp(c)
  PROVE  \/ call[c].kind = "turn" /\ new = [call[c] EXCEPT !.pc = "sample", !.answer = "failed"]
         \/ call[c].kind # "turn" /\ new = NextRole(c)
  BY DEF GivesUp

LEMMA OutcomeIs ==
  ASSUME Types, NEW s \in SessIds, NEW c \in CallIds, NEW o \in Kills(c, s)
  PROVE  /\ o.told \in {"killed", "kept", "raised"} /\ o.forget \in BOOLEAN
         /\ o.fate \in Fates
         /\ sess[s].cli # None /\ cli[sess[s].cli].fate # "unborn" => o.fate # "unborn"
         /\ o.fate = "up" => sess[s].cli # None /\ cli[sess[s].cli].fate = "up" /\ ~o.forget
         /\ o.told = "killed" => o.fate = "gone" /\ o.forget
         /\ o.told = "raised" => ~o.forget
         /\ o.told # "killed" => faults # MaxFaults /\ sess[s].cli # None
                                   /\ cli[sess[s].cli].fate # "gone"
         /\ ~o.forget => o.told # "killed"
<1>1. CASE o = Killed
  BY <1>1 DEF Killed, Fates
<1>2. ASSUME o # Killed
      PROVE  /\ sess[s].cli # None /\ cli[sess[s].cli].fate # "gone"
             /\ \/ o \in KillFails(cli[sess[s].cli].fate)
                \/ o \in KillRaises(c, cli[sess[s].cli].fate)
  BY <1>2 DEF Kills
<1>3. ASSUME o # Killed PROVE cli[sess[s].cli].fate \in Fates
  BY <1>2, <1>3 DEF Types, Sessions, Clis
<1>4. CASE o # Killed /\ o \in KillFails(cli[sess[s].cli].fate)
  <2>1. faults # MaxFaults
    BY <1>4 DEF KillFails
  <2>2. CASE cli[sess[s].cli].fate = "up"
    <3>1. \/ o = [fate |-> "up", forget |-> FALSE, told |-> "kept"]
          \/ o = [fate |-> "left", forget |-> FALSE, told |-> "kept"]
      BY <1>4, <2>1, <2>2 DEF KillFails
    <3>2. o.forget = FALSE /\ o.told = "kept" /\ o.fate \in {"up", "left"}
      BY <3>1
    <3>3. sess[s].cli # None /\ cli[sess[s].cli].fate # "gone"
      BY <1>2, <1>4
    <3>4. ~o.forget /\ o.forget \in BOOLEAN
      BY <3>2, Zenon
    <3> QED
      BY <2>1, <2>2, <3>2, <3>3, <3>4 DEF Fates
  <2>3. CASE cli[sess[s].cli].fate # "up"
    <3>1. o = [fate |-> "left", forget |-> TRUE, told |-> "kept"]
      BY <1>4, <2>1, <2>3 DEF KillFails
    <3> QED
      BY <1>2, <1>4, <2>1, <2>3, <3>1 DEF Fates
  <2> QED
    BY <2>2, <2>3
<1>5. CASE o # Killed /\ o \in KillRaises(c, cli[sess[s].cli].fate)
  <2>1. faults < MaxFaults /\ faults # MaxFaults
    BY <1>5, Bounds DEF KillRaises, Types
  <2>2. \E f \in {cli[sess[s].cli].fate, "left", "gone"} :
           o = [fate |-> f, forget |-> FALSE, told |-> "raised"]
    BY <1>5 DEF KillRaises
  <2> QED
    BY <1>2, <1>3, <1>5, <2>1, <2>2 DEF Fates
<1> QED
  BY <1>1, <1>2, <1>4, <1>5

LEMMA DeadIs ==
  ASSUME Types, NEW s \in SessIds, NEW c \in CallIds, NEW o \in Kills(c, s), NEW mark \in Marks,
         NEW d, d = Dead(s, o, mark)
  PROVE  /\ d \in [CliIds -> Clis]
         /\ \A k \in CliIds : k # sess[s].cli => d[k] = cli[k]
         /\ sess[s].cli # None =>
              LET k == sess[s].cli
              IN  /\ k \in CliIds /\ d[k].role = cli[k].role /\ d[k].greeted = cli[k].greeted
                  /\ d[k].fate = o.fate
                  /\ d[k].kept = (IF o.fate = "up" THEN mark ELSE cli[k].kept)
                  /\ d[k].inbox = (IF o.fate = "up" THEN cli[k].inbox ELSE <<>>)
                  /\ d[k].out = (IF o.forget THEN <<>> ELSE cli[k].out)
<1>1. o.fate \in Fates /\ o.forget \in BOOLEAN
  BY OutcomeIs
<1>2. cli \in [CliIds -> Clis] /\ sess[s].cli \in CliIds \union {None}
  BY DEF Types, Sessions
<1>3. CASE sess[s].cli = None
  BY <1>2, <1>3 DEF Dead, None, CliIds
<1>4. CASE sess[s].cli # None
  <2> DEFINE k == sess[s].cli
  <2>1. k \in CliIds /\ cli[k] \in Clis
    BY <1>2, <1>4
  <2>2. d = [cli EXCEPT ![k].fate = o.fate,
                        ![k].kept = IF o.fate = "up" THEN mark ELSE @,
                        ![k].inbox = IF o.fate = "up" THEN @ ELSE <<>>,
                        ![k].out = IF o.forget THEN <<>> ELSE @]
    BY <1>4 DEF Dead
  <2>3. <<>> \in Seq(CallIds) /\ <<>> \in Seq(Frames)
    BY EmptySeq
  <2>4. d[k] = [role |-> cli[k].role, inbox |-> IF o.fate = "up" THEN cli[k].inbox ELSE <<>>,
                out |-> IF o.forget THEN <<>> ELSE cli[k].out, greeted |-> cli[k].greeted,
                kept |-> IF o.fate = "up" THEN mark ELSE cli[k].kept, fate |-> o.fate]
    <3> DEFINE f == cli[k]
    <3>1. f = [role |-> f.role, inbox |-> f.inbox, out |-> f.out, greeted |-> f.greeted,
               kept |-> f.kept, fate |-> f.fate]
      BY <2>1 DEF Clis
    <3>2. d[k] = [f EXCEPT !.fate = o.fate,
                           !.kept = IF o.fate = "up" THEN mark ELSE f.kept,
                           !.inbox = IF o.fate = "up" THEN f.inbox ELSE <<>>,
                           !.out = IF o.forget THEN <<>> ELSE f.out]
      BY <1>2, <2>1, <2>2, <3>1
    <3> HIDE DEF f
    <3>3. d[k] = [role |-> f.role, inbox |-> IF o.fate = "up" THEN f.inbox ELSE <<>>,
                out |-> IF o.forget THEN <<>> ELSE f.out, greeted |-> f.greeted,
                kept |-> IF o.fate = "up" THEN mark ELSE f.kept, fate |-> o.fate]
      BY <3>1, <3>2
    <3> QED
      BY <3>3 DEF f
  <2>5. d[k] \in Clis
    BY <1>1, <2>1, <2>3, <2>4 DEF Clis
  <2>6. \A n \in CliIds : n # k => d[n] = cli[n]
    BY <1>2, <2>1, <2>2
  <2>7. d \in [CliIds -> Clis]
    BY <1>2, <2>1, <2>2, <2>5, <2>6
  <2> QED
    BY <1>4, <2>1, <2>4, <2>6, <2>7
<1> QED
  BY <1>3, <1>4

LEMMA SpawnIs ==
  ASSUME Types, NEW s \in SessIds, NEW b \in Spawns(s)
  PROVE  /\ b.child \in Clis /\ b.ok \in BOOLEAN
         /\ b.child.role = sess[s].role /\ b.child.inbox = <<>> /\ b.child.out = <<>>
         /\ b.child.kept = "no" /\ b.child.fate # "unborn"
         /\ ~b.ok => faults # MaxFaults
         /\ b.ok => b.child.fate = "up"
<1>1. <<>> \in Seq(CallIds) /\ <<>> \in Seq(Frames) /\ sess[s] \in Sessions
  BY EmptySeq DEF Types
<1>2. \A fate \in Fates, g \in BOOLEAN : Child(s, fate, g) \in Clis
  BY <1>1 DEF Child, Clis, Sessions, Marks
<1>3. CASE b = [child |-> Child(s, "up", TRUE), ok |-> TRUE]
  BY <1>2, <1>3 DEF Child, Fates
<1>4. CASE b = [child |-> Child(s, "gone", FALSE), ok |-> FALSE] /\ faults # MaxFaults
  BY <1>2, <1>4 DEF Child, Fates
<1>5. CASE b = [child |-> Child(s, "up", FALSE), ok |-> FALSE] /\ faults # MaxFaults
  BY <1>2, <1>5 DEF Child, Fates
<1> QED
  BY <1>3, <1>4, <1>5 DEF Spawns

LEMMA StepIs ==
  ASSUME Types, NEW c \in CallIds, NEW new \in Calls, Step(c, new)
  PROVE  /\ call' \in [CallIds -> Calls] /\ call'[c] = new
         /\ \A d \in CallIds \ {c} : call'[d] = call[d]
  BY DEF Types, Step

LEMMA GoIs ==
  ASSUME Types, NEW c \in CallIds, NEW pc \in Pcs, Go(c, pc)
  PROVE  \E new \in Calls :
           /\ new = [call[c] EXCEPT !.pc = pc] /\ Step(c, new)
           /\ new.pc = pc /\ new.kind = call[c].kind /\ new.role = call[c].role
           /\ new.left = call[c].left /\ new.s = call[c].s /\ new.heard = call[c].heard
           /\ new.answer = call[c].answer /\ new.saw = call[c].saw /\ new.todo = call[c].todo
<1>1. call \in [CallIds -> Calls] /\ call[c] \in Calls
  BY DEF Types
<1>2. Step(c, [call[c] EXCEPT !.pc = pc])
  BY <1>1 DEF Go, Step
<1>3. PICK new : new = [call[c] EXCEPT !.pc = pc]
  OBVIOUS
<1>4. /\ new \in Calls /\ new.pc = pc /\ new.kind = call[c].kind /\ new.role = call[c].role
      /\ new.left = call[c].left /\ new.s = call[c].s /\ new.heard = call[c].heard
      /\ new.answer = call[c].answer /\ new.saw = call[c].saw /\ new.todo = call[c].todo
  BY <1>1, <1>3 DEF Calls
<1> QED
  BY <1>2, <1>3, <1>4

(***************************************************************************)
(* A step of one thread makes at most one session and one process, changes *)
(* the role of none, and only the holder of the registry clears it.        *)
(***************************************************************************)
Grows ==
    /\ \A s \in SessIds : IF s \in Made THEN sess'[s].role = sess[s].role
                          ELSE sess'[s].lock = None /\ sess'[s].cli = None
                               /\ (sess'[s].role = "none" => sess'[s] = sess[s])
    /\ \A k \in Born : cli'[k].role = cli[k].role /\ cli'[k].fate # "unborn"
    /\ \A s \in SessIds :
         \/ sess'[s].cli \in {None, sess[s].cli}
         \/ /\ sess'[s].cli = NewCli /\ NewCli \in CliIds
            /\ cli'[NewCli].role = sess[s].role /\ cli'[NewCli].fate # "unborn"
            /\ \A t \in SessIds : t # s => sess'[t].cli # NewCli
    /\ \A r \in Roles : \/ registry'[r] \in {None, registry[r]}
                        \/ registry'[r] \in SessIds /\ sess'[registry'[r]].role = r

LEMMA MadeIs ==
  ASSUME Shape
  PROVE  /\ \A r \in Roles : registry[r] # None => registry[r] \in Made
         /\ \A s \in SessIds : sess[s].cli # None => s \in Made
         /\ \A c \in CallIds : call[c].pc \in SessPcs => call[c].s \in Made
<1>1. "none" \notin Roles
  BY RunnerAssumption
<1>2. \A r \in Roles : registry[r] \in SessIds \union {None}
  BY DEF Shape, Types
<1>3. \A r \in Roles : registry[r] # None => registry[r] \in Made
  BY <1>1, <1>2 DEF Shape, Owned, Made
<1>4. \A s \in SessIds : sess[s].cli # None => s \in Made
  BY DEF Shape, Owned, Nobodys
<1>5. ASSUME NEW c \in CallIds, call[c].pc \in SessPcs PROVE call[c].s \in Made
  <2>1. call[c].pc # "unsent"
    BY <1>5 DEF SessPcs, RolePcs
  <2> QED
    BY <1>1, <1>5, <2>1 DEF Shape, Fits, HasSession, Made
<1> QED
  BY <1>3, <1>4, <1>5

LEMMA OwnedGrows ==
  ASSUME Shape, Types', Grows
  PROVE  Owned'
<1>1. NewCli \notin Born
  BY New DEF Shape
<1>2. ASSUME NEW s \in SessIds, s \notin Made' PROVE (sess[s] = Nobodys)'
  <2>1. sess'[s].role = "none"
    BY <1>2 DEF Made
  <2>2. s \notin Made
    BY <2>1 DEF Grows, Made
  <2>3. sess'[s] = sess[s]
    BY <2>1, <2>2 DEF Grows
  <2> QED
    BY <2>2, <2>3 DEF Shape, Owned, Nobodys
<1>3. ASSUME NEW r \in Roles, registry'[r] # None PROVE sess'[registry'[r]].role = r
  <2>1. CASE registry'[r] = registry[r]
    <3>1. registry[r] \in Made /\ registry[r] \in SessIds
      BY <1>3, <2>1, MadeIs DEF Made
    <3> QED
      BY <1>3, <2>1, <3>1 DEF Grows, Shape, Owned
  <2> QED
    BY <1>3, <2>1 DEF Grows
<1>4. ASSUME NEW s \in SessIds, sess'[s].cli # None
      PROVE  /\ (sess[s].cli \in Born)'
             /\ cli'[sess'[s].cli].role = sess'[s].role
             /\ \A t \in SessIds : sess'[t].cli = sess'[s].cli => s = t
  <2>1. s \in Made /\ sess'[s].role = sess[s].role
    BY <1>4 DEF Grows
  <2>2. CASE sess'[s].cli = sess[s].cli
    <3>1. sess[s].cli \in Born /\ cli[sess[s].cli].role = sess[s].role
      BY <1>4, <2>2 DEF Shape, Owned
    <3>2. \A t \in SessIds : sess'[t].cli = sess'[s].cli => sess[t].cli = sess[s].cli
      BY <1>1, <1>4, <2>2, <3>1 DEF Grows
    <3>3. cli'[sess[s].cli].role = cli[sess[s].cli].role /\ cli'[sess[s].cli].fate # "unborn"
      BY <3>1 DEF Grows
    <3> QED
      BY <1>4, <2>1, <2>2, <3>1, <3>2, <3>3 DEF Shape, Owned, Born
  <2>3. CASE sess'[s].cli # sess[s].cli
    BY <1>4, <2>1, <2>3 DEF Grows, Born
  <2> QED
    BY <2>2, <2>3
<1> QED
  BY <1>2, <1>3, <1>4 DEF Owned

LEMMA ThreadKeeps ==
  ASSUME Shape, NEW c \in CallIds, NEW new \in Calls, Step(c, new), Grows,
         call[c].pc # "unsent", new.pc # "unsent", Fits(new), HasSession(new)',
         \A r \in Roles : registry[r] # None /\ registry'[r] = None => regLock = c
  PROVE  (\A d \in CallIds : Fits(call[d]) /\ HasSession(call[d]))' /\ Sent' = Sent
<1>1. call'[c] = new /\ \A d \in CallIds \ {c} : call'[d] = call[d]
  BY StepIs DEF Shape
<1>2. Sent' = Sent
  BY <1>1 DEF Sent, At
<1>3. ASSUME NEW d \in CallIds, d # c PROVE (Fits(call[d]) /\ HasSession(call[d]))'
  <2>0. PICK x : x = call[d]
    OBVIOUS
  <2>1. call'[d] = x /\ Fits(x) /\ HasSession(x)
    BY <1>1, <1>3, <2>0 DEF Shape
  <2>2. x \in Calls /\ (x.pc # "unsent" => x.role \in Roles)
    BY <2>0, <2>1 DEF Shape, Types, Fits
  <2>3. x.pc \in SessPcs => x.s \in SessIds /\ sess'[x.s].role = x.role
    BY <2>0, <2>1, MadeIs DEF HasSession, Grows
  <2>4. x.pc = "evict" \/ x.left # {} =>
          regLock # c /\ \A r \in Roles : registry[r] # None => registry'[r] # None
    BY <1>3, <2>0, <2>1 DEF Shape, RegHeld, HasSession
  <2>5. x.pc = "evict" => registry'[x.role] # None
    BY <2>1, <2>2, <2>4 DEF HasSession
  <2>6. ASSUME NEW r \in x.left PROVE registry'[r] # None
    BY <2>1, <2>2, <2>4, <2>6 DEF HasSession, Calls
  <2>7. HasSession(x)'
    BY <2>1, <2>3, <2>5, <2>6 DEF HasSession
  <2> QED
    BY <2>1, <2>7 DEF Fits, HasSession
<1>4. (Fits(call[c]) /\ HasSession(call[c]))'
  BY <1>1 DEF Fits, HasSession
<1> QED
  BY <1>2, <1>3, <1>4

LEMMA ShapeStep ==
  ASSUME Shape, Types', NEW c \in CallIds, NEW new \in Calls, Step(c, new), Grows, RegHeld',
         Numbered(Made)', Numbered(Born)',
         call[c].pc # "unsent", new.pc # "unsent", Fits(new), HasSession(new)',
         \A r \in Roles : registry[r] # None /\ registry'[r] = None => regLock = c
  PROVE  Shape'
<1>1. (\A d \in CallIds : Fits(call[d]) /\ HasSession(call[d]))' /\ Sent' = Sent
  BY ThreadKeeps
<1>2. Owned'
  BY OwnedGrows
<1>3. Numbered(Sent)'
  BY <1>1 DEF Shape, Ordered, Numbered
<1> QED
  BY <1>1, <1>2, <1>3 DEF Shape, Ordered

\* The registry lock changes hands with the step that takes or leaves it.
LEMMA RegHeldStep ==
  ASSUME Shape, NEW c \in CallIds, NEW new \in Calls, Step(c, new),
         \/ regLock' = regLock /\ (new.pc \in {"evict", "shutting"} <=> call[c].pc \in {"evict", "shutting"})
         \/ regLock = None /\ regLock' = c /\ new.pc \in {"evict", "shutting"}
         \/ /\ call[c].pc \in {"evict", "shutting"} /\ new.pc \notin {"evict", "shutting"}
            /\ regLock' = None
  PROVE  RegHeld'
<1>1. call'[c] = new /\ \A d \in CallIds \ {c} : call'[d] = call[d]
  BY StepIs DEF Shape
<1>2. \A d \in CallIds : call[d].pc \in {"evict", "shutting"} <=> regLock = d
  BY DEF Shape, RegHeld
<1>3. None \notin CallIds
  BY Bounds
<1>4. ASSUME NEW d \in CallIds
      PROVE  call'[d].pc \in {"evict", "shutting"} <=> regLock' = d
  <2>1. CASE d = c
    BY <1>1, <1>2, <1>3, <2>1
  <2>2. CASE d # c
    BY <1>1, <1>2, <1>3, <2>2
  <2> QED
    BY <2>1, <2>2
<1> QED
  BY <1>4 DEF RegHeld

LEMMA SameObjects ==
  ASSUME Shape,
         \A r \in Roles : registry'[r] \in {None, registry[r]},
         \A s \in SessIds : /\ sess'[s].role = sess[s].role
                            /\ sess'[s].cli \in {None, sess[s].cli}
                            /\ s \notin Made => sess'[s] = sess[s],
         \A k \in CliIds : /\ cli'[k].role = cli[k].role
                           /\ cli'[k].fate = "unborn" <=> cli[k].fate = "unborn"
  PROVE  Grows /\ Made' = Made /\ Born' = Born /\ Numbered(Made)' /\ Numbered(Born)'
<1>1. Made' = Made /\ Born' = Born
  BY DEF Made, Born
<1>2. Numbered(Made)' /\ Numbered(Born)'
  BY <1>1 DEF Shape, Ordered, Numbered
<1>3. \A s \in SessIds : s \notin Made => sess[s].lock = None /\ sess[s].cli = None
  BY DEF Shape, Owned, Nobodys
<1>4. \A k \in Born : k \in CliIds /\ cli[k].fate # "unborn"
  BY DEF Born
<1> QED
  BY <1>1, <1>2, <1>3, <1>4 DEF Grows

\* A step that only moves its thread.
LEMMA QuietShape ==
  ASSUME Shape, NEW c \in CallIds, NEW new \in Calls, Step(c, new),
         UNCHANGED <<script, waiting, regLock, registry, sess, cli, abandoned>>,
         initialized' \in BOOLEAN, turnLock' \in [Roles -> Holders], faults' \in 0..MaxFaults,
         call[c].pc \notin {"unsent", "evict", "shutting"},
         new.pc \notin {"unsent", "evict", "shutting"},
         Fits(new), HasSession(new)
  PROVE  Shape'
<1>1. Types'
  BY StepIs DEF Shape, Types
<1>2. Grows /\ Numbered(Made)' /\ Numbered(Born)'
  <2>1. \A r \in Roles : registry'[r] \in {None, registry[r]}
    OBVIOUS
  <2> QED
    BY <2>1, SameObjects
<1>3. RegHeld'
  BY RegHeldStep
<1>4. HasSession(new)'
  BY DEF HasSession
<1> QED
  BY <1>1, <1>2, <1>3, <1>4, ShapeStep

\* A step that also takes or releases the lock of its session.
LEMMA LockShape ==
  ASSUME Shape, NEW c \in CallIds, NEW new \in Calls, Step(c, new), NEW l \in Holders,
         call[c].pc \in SessPcs, sess' = [sess EXCEPT ![call[c].s].lock = l],
         UNCHANGED <<script, waiting, initialized, turnLock, regLock, registry, cli, faults, abandoned>>,
         new.pc \notin {"unsent", "evict", "shutting"}, Fits(new), HasSession(new)
  PROVE  Shape'
<1> DEFINE s == call[c].s
<1>0. s \in SessIds /\ s \in Made /\ sess \in [SessIds -> Sessions]
  BY MadeIs DEF Shape, HasSession, Types
<1>1. /\ sess' \in [SessIds -> Sessions]
      /\ \A t \in SessIds : /\ sess'[t].role = sess[t].role /\ sess'[t].cli = sess[t].cli
                            /\ t # s => sess'[t] = sess[t]
  BY <1>0 DEF Sessions
<1>2. Types'
  BY <1>1, StepIs DEF Shape, Types
<1>3. Grows /\ Numbered(Made)' /\ Numbered(Born)'
  <2>1. \A r \in Roles : registry'[r] \in {None, registry[r]}
    OBVIOUS
  <2> QED
    BY <1>0, <1>1, <2>1, SameObjects
<1>4. call[c].pc \notin {"unsent", "evict", "shutting"}
  BY DEF SessPcs, RolePcs
<1>5. RegHeld'
  BY <1>4, RegHeldStep
<1>6. HasSession(new)'
  BY <1>1 DEF HasSession
<1> QED
  BY <1>2, <1>3, <1>4, <1>5, <1>6, ShapeStep

\* A step that also writes to a process that has been born.
LEMMA PipeShape ==
  ASSUME Shape, NEW c \in CallIds, NEW new \in Calls, Step(c, new),
         UNCHANGED <<script, waiting, initialized, turnLock, regLock, registry, sess, faults, abandoned>>,
         cli' \in [CliIds -> Clis],
         \A k \in CliIds : /\ cli'[k].role = cli[k].role
                           /\ cli'[k].fate = "unborn" <=> cli[k].fate = "unborn",
         call[c].pc \notin {"unsent", "evict", "shutting"},
         new.pc \notin {"unsent", "evict", "shutting"},
         Fits(new), HasSession(new)
  PROVE  Shape'
<1>1. Types'
  BY StepIs DEF Shape, Types
<1>2. Grows /\ Numbered(Made)' /\ Numbered(Born)'
  <2>1. \A r \in Roles : registry'[r] \in {None, registry[r]}
    OBVIOUS
  <2> QED
    BY <2>1, SameObjects
<1>3. RegHeld'
  BY RegHeldStep
<1>4. HasSession(new)'
  BY DEF HasSession
<1> QED
  BY <1>1, <1>2, <1>3, <1>4, ShapeStep

LEMMA ShapeInit == Init => Shape
<1> SUFFICES ASSUME Init PROVE Shape
  OBVIOUS
<1> DEFINE n == Len(RoleOrder)
<1>0. /\ n \in Nat /\ 1..n \subseteq SessIds /\ 1..n \subseteq CliIds
      /\ \A i \in 1..n : RoleOrder[i] \in Roles
      /\ "none" \notin Roles /\ None = 0
  BY Bounds, RunnerAssumption DEF Roles, SessIds, CliIds, None
<1>1. \A r \in Roles : registry[r] \in 1..n /\ RoleOrder[registry[r]] = r
  BY Bounds DEF Init, Roles
<1>2. \A i, j \in 1..n : RoleOrder[i] = RoleOrder[j] => i = j
  BY Bounds, RunnerAssumption
<1>3. <<>> \in Seq(Roles) /\ <<>> \in Seq(CallIds) /\ <<>> \in Seq(Frames)
  BY EmptySeq
<1>4. NoCall \in Calls
  BY <1>3 DEF NoCall, Calls, Kinds, Pcs, Told
<1>5. PICK started \in {{}, Roles} :
        /\ sess = [s \in SessIds |->
                     IF s <= Len(RoleOrder)
                     THEN [role |-> RoleOrder[s], lock |-> None,
                           cli |-> IF RoleOrder[s] \in started THEN s ELSE None]
                     ELSE [role |-> "none", lock |-> None, cli |-> None]]
        /\ cli = [k \in CliIds |->
                    IF k <= Len(RoleOrder)
                    THEN [role |-> RoleOrder[k], inbox |-> <<>>, out |-> <<>>,
                          greeted |-> TRUE, kept |-> "no",
                          fate |-> IF RoleOrder[k] \in started THEN "up" ELSE "gone"]
                    ELSE [role |-> "none", inbox |-> <<>>, out |-> <<>>,
                          greeted |-> FALSE, kept |-> "no", fate |-> "unborn"]]
  BY DEF Init
<1>6. /\ \A s \in SessIds : s <= n => s \in 1..n
      /\ \A k \in CliIds : k <= n => k \in 1..n
  BY <1>0 DEF SessIds, CliIds
<1>7. sess \in [SessIds -> Sessions]
  BY <1>0, <1>5, <1>6 DEF Sessions, Holders
<1>8. cli \in [CliIds -> Clis]
  BY <1>0, <1>3, <1>5, <1>6 DEF Clis, Marks, Fates
<1>9. Types
  BY <1>0, <1>1, <1>4, <1>7, <1>8, Bounds DEF Types, Init, Holders
<1>10. Sent = {} /\ Made = 1..n /\ Born = 1..n
  <2>1. Sent = {}
    BY DEF Sent, Init, NoCall, At
  <2>2. Made = 1..n
    BY <1>0, <1>5, <1>6 DEF Made
  <2>3. Born = 1..n
    BY <1>0, <1>5, <1>6 DEF Born
  <2> QED
    BY <2>1, <2>2, <2>3
<1>11. Ordered
  <2>1. Cardinality(1..n) = n
    <3>1. 1 \in Int /\ n \in Int
      BY <1>0
    <3>2. Cardinality(1..n) = IF 1 > n THEN 0 ELSE n - 1 + 1
      BY <3>1, FS_Interval
    <3> QED
      BY <1>0, <3>2
  <2>2. Cardinality({}) = 0 /\ {} = 1..0
    BY FS_EmptySet
  <2>3. Numbered(Sent) /\ Numbered(Made) /\ Numbered(Born)
    BY <1>10, <2>1, <2>2 DEF Numbered
  <2> QED
    BY <2>3 DEF Ordered
<1>12. RegHeld
  BY Bounds DEF RegHeld, Init, NoCall
<1>13. Owned
  <2>1. \A s \in SessIds : s \notin Made => sess[s] = Nobodys
    BY <1>5, <1>6, <1>10 DEF Nobodys
  <2>2. \A r \in Roles : registry[r] # None => sess[registry[r]].role = r
    BY <1>0, <1>1, <1>5
  <2>3. \A s \in SessIds : sess[s].cli # None =>
          sess[s].cli = s /\ s \in Born /\ cli[s].role = sess[s].role
    BY <1>0, <1>5, <1>6, <1>10
  <2> QED
    BY <2>1, <2>2, <2>3 DEF Owned
<1>14. \A c \in CallIds : Fits(call[c]) /\ HasSession(call[c])
  BY DEF Init, NoCall, Fits, HasSession, SessPcs, RolePcs, TurnPcs, LockPcs
<1> QED
  BY <1>9, <1>11, <1>12, <1>13, <1>14 DEF Shape

-----------------------------------------------------------------------------
(***************************************************************************)
(* Every step keeps the shape of the state.                                *)
(***************************************************************************)
LEMMA AtRole ==
  ASSUME Shape, NEW c \in CallIds, call[c].pc \in RolePcs
  PROVE  /\ call[c] \in Calls /\ call[c].kind \in {"turn", "resume"} /\ call[c].role \in Roles
         /\ call[c].left = {} /\ call[c].pc \notin {"unsent", "ended", "shutting"}
         /\ call[c].pc \in SessPcs => /\ call[c].s \in SessIds /\ call[c].s \in Made
                                      /\ sess[call[c].s].role = call[c].role
<1>1. call[c] \in Calls /\ Fits(call[c]) /\ HasSession(call[c])
  BY DEF Shape, Types
<1>2. call[c].pc \notin {"unsent", "ended", "shutting"}
  BY DEF RolePcs
<1>3. call[c].kind \in {"turn", "resume"} /\ call[c].role \in Roles
  BY <1>1, <1>2 DEF Fits, RolePcs, TurnPcs, LockPcs, SessPcs
<1> QED
  BY <1>1, <1>2, <1>3, MadeIs DEF HasSession

LEMMA AtLock ==
  ASSUME Shape, NEW c \in CallIds, call[c].pc \in LockPcs
  PROVE  call[c].pc \in SessPcs /\ call[c].pc \in RolePcs
         /\ (call[c].pc # "spawn" => call[c].kind = "turn")
  BY DEF Shape, Fits, LockPcs, SessPcs, TurnPcs

LEMMA IdleFits ==
  ASSUME NEW new \in Calls, new.left = {}, new.pc \notin SessPcs, new.pc # "evict"
  PROVE  HasSession(new) /\ HasSession(new)'
  BY DEF HasSession

LEMMA EndsFits ==
  ASSUME Shape, NEW c \in CallIds, call[c].pc # "unsent", NEW how \in Told,
         NEW new, new = Ends(c, how)
  PROVE  /\ new \in Calls /\ new.pc = "ended" /\ Fits(new) /\ HasSession(new) /\ HasSession(new)'
<1>1. /\ new \in Calls /\ new.pc = "ended" /\ new.left = {} /\ new.role = call[c].role
  BY EndsIs DEF Shape
<1>2. new.role \in Roles
  BY <1>1 DEF Shape, Fits
<1>3. Fits(new)
  BY <1>1, <1>2 DEF Fits, TurnPcs, LockPcs, SessPcs, RolePcs
<1>4. new.pc \notin SessPcs /\ new.pc # "evict"
  BY <1>1 DEF SessPcs, RolePcs
<1> QED
  BY <1>1, <1>3, <1>4, IdleFits

LEMMA NextRoleFits ==
  ASSUME Shape, NEW c \in CallIds, call[c].pc \in RolePcs, NEW new, new = NextRole(c)
  PROVE  /\ new \in Calls /\ new.pc \in {"lookup", "ended"} /\ Fits(new)
         /\ HasSession(new) /\ HasSession(new)'
<1>1. /\ new \in Calls /\ new.pc \in {"lookup", "ended"} /\ new.left = {} /\ new.role \in Roles
      /\ new.kind \in {"turn", "resume"}
  BY AtRole, NextRoleIs DEF Shape
<1>2. Fits(new)
  BY <1>1 DEF Fits, TurnPcs, LockPcs, SessPcs, RolePcs
<1>3. new.pc \notin SessPcs /\ new.pc # "evict"
  BY <1>1 DEF SessPcs, RolePcs
<1> QED
  BY <1>1, <1>2, <1>3, IdleFits

LEMMA GivesUpFits ==
  ASSUME Shape, NEW c \in CallIds, call[c].pc \in RolePcs, NEW new, new = GivesUp(c)
  PROVE  /\ new \in Calls /\ new.pc \in {"lookup", "sample", "ended"} /\ Fits(new)
         /\ HasSession(new) /\ HasSession(new)'
<1>1. CASE call[c].kind = "turn"
  <2>1. new = [call[c] EXCEPT !.pc = "sample", !.answer = "failed"]
    BY <1>1, GivesUpIs DEF Shape
  <2>2. /\ new \in Calls /\ new.pc = "sample" /\ new.kind = "turn" /\ new.role \in Roles
        /\ new.left = {}
    BY <1>1, <2>1, AtRole DEF Calls, Pcs, Told
  <2>3. Fits(new)
    BY <2>2 DEF Fits, TurnPcs, LockPcs, SessPcs, RolePcs
  <2>4. new.pc \notin SessPcs /\ new.pc # "evict"
    BY <2>2 DEF SessPcs, RolePcs
  <2> QED
    BY <2>2, <2>3, <2>4, IdleFits
<1>2. CASE call[c].kind # "turn"
  BY <1>2, GivesUpIs, NextRoleFits DEF Shape
<1> QED
  BY <1>1, <1>2

\* The same thread, a call of the same kind and role, with its session.
LEMMA MovesFit ==
  ASSUME Shape, NEW c \in CallIds, NEW new \in Calls, call[c].pc # "unsent",
         new.kind = call[c].kind, new.role = call[c].role, new.left = {},
         new.pc \notin {"unsent", "evict"},
         \/ new.pc \in {"reap", "sample", "queue", "lookup", "drain", "write", "poll", "read",
                        "kill", "respawn", "revive", "enter"} /\ new.kind = "turn"
         \/ new.pc \in {"lookup", "ensure", "spawn"} /\ new.kind \in {"turn", "resume"},
         \/ new.pc \in {"queue", "lookup", "sample"}
         \/ new.s = call[c].s /\ call[c].pc \in SessPcs
  PROVE  Fits(new) /\ HasSession(new)
<1>1. Fits(call[c]) /\ HasSession(call[c])
  BY DEF Shape
<1>2. Fits(new)
  BY <1>1 DEF Fits, TurnPcs, LockPcs, SessPcs, RolePcs
<1>3. HasSession(new)
  BY <1>1 DEF HasSession, SessPcs, RolePcs
<1> QED
  BY <1>2, <1>3

LEMMA GoesFit ==
  ASSUME Shape, NEW c \in CallIds, NEW pc \in Pcs, Go(c, pc), call[c].pc # "unsent",
         call[c].left = {}, pc \notin {"unsent", "evict"},
         \/ pc \in {"reap", "sample", "queue", "lookup", "drain", "write", "poll", "read",
                    "kill", "respawn", "revive", "enter"} /\ call[c].kind = "turn"
         \/ pc \in {"lookup", "ensure", "spawn"} /\ call[c].kind \in {"turn", "resume"},
         pc \in {"queue", "lookup", "sample"} \/ call[c].pc \in SessPcs
  PROVE  \E new \in Calls :
           /\ Step(c, new) /\ new.pc = pc /\ Fits(new) /\ HasSession(new)
           /\ new = [call[c] EXCEPT !.pc = pc]
<1>1. Types
  BY DEF Shape
<1>2. PICK new \in Calls :
        /\ new = [call[c] EXCEPT !.pc = pc] /\ Step(c, new)
        /\ new.pc = pc /\ new.kind = call[c].kind /\ new.role = call[c].role
        /\ new.left = call[c].left /\ new.s = call[c].s
  BY <1>1, GoIs
<1>3. Fits(new) /\ HasSession(new)
  BY <1>2, MovesFit
<1> QED
  BY <1>2, <1>3

LEMMA ChecksShape == ASSUME Shape, NEW c \in CallIds, Checks(c) PROVE Shape'
<1>1. call[c].pc = "check" /\ call[c].left = {} /\ call[c].kind = "turn"
  BY DEF Checks, At, Shape, HasSession, Fits, TurnPcs
<1>2. PICK new \in Calls : /\ Step(c, new) /\ new.pc \in {"queue", "ended"}
                           /\ Fits(new) /\ HasSession(new)
  <2>1. CASE initialized
    <3>1. Go(c, "queue")
      BY <2>1 DEF Checks
    <3> QED
      BY <1>1, <3>1, GoesFit DEF Pcs
  <2>2. CASE ~initialized
    <3>1. Step(c, Ends(c, "refused"))
      BY <2>2 DEF Checks
    <3> QED
      BY <1>1, <3>1, EndsFits DEF Told
  <2> QED
    BY <2>1, <2>2
<1> QED
  BY <1>1, <1>2, QuietShape DEF Checks, locks, world, Shape, Types

LEMMA TakesTurnShape == ASSUME Shape, NEW c \in CallIds, TakesTurn(c) PROVE Shape'
<1>1. call[c].pc = "queue" /\ call[c].left = {} /\ call[c].kind = "turn" /\ call[c].role \in Roles
  BY DEF TakesTurn, At, Shape, HasSession, Fits, TurnPcs
<1>2. Go(c, "lookup")
  BY DEF TakesTurn
<1>3. PICK new \in Calls : /\ Step(c, new) /\ new.pc = "lookup" /\ Fits(new) /\ HasSession(new)
  BY <1>1, <1>2, GoesFit DEF Pcs
<1>4. turnLock' \in [Roles -> Holders]
  BY <1>1 DEF TakesTurn, Shape, Types, Holders
<1> QED
  BY <1>1, <1>3, <1>4, QuietShape DEF TakesTurn, world, Shape, Types

LEMMA PollsShape == ASSUME Shape, NEW c \in CallIds, Polls(c) PROVE Shape'
<1>1. call[c].pc = "poll" /\ call[c].pc \in LockPcs
  BY DEF Polls, At, LockPcs, SessPcs, RolePcs
<1>2. CASE Up(Cli(c))
  <2>1. Go(c, "read") /\ sess' = sess
    BY <1>2 DEF Polls
  <2>2. PICK new \in Calls : /\ Step(c, new) /\ new.pc = "read" /\ Fits(new) /\ HasSession(new)
    BY <1>1, <2>1, GoesFit, AtRole, AtLock DEF Pcs
  <2> QED
    BY <1>1, <2>1, <2>2, QuietShape DEF Polls, locks, world, Shape, Types
<1>3. CASE ~Up(Cli(c))
  <2>1. PICK new : new = GivesUp(c)
    OBVIOUS
  <2>2. Step(c, new) /\ sess' = [sess EXCEPT ![call[c].s].lock = None]
    BY <1>3, <2>1 DEF Polls, Leaves
  <2>3. /\ new \in Calls /\ new.pc \in {"lookup", "sample", "ended"} /\ Fits(new)
        /\ HasSession(new)
    BY <1>1, <2>1, GivesUpFits, AtLock
  <2> QED
    BY <1>1, <2>2, <2>3, LockShape, AtLock DEF Polls, locks, world, Holders
<1> QED
  BY <1>2, <1>3

LEMMA EntersTurnShape == ASSUME Shape, NEW c \in CallIds, EntersTurn(c) PROVE Shape'
<1>1. call[c].pc = "enter" /\ call[c].pc \in SessPcs /\ call[c].pc \in RolePcs
  BY DEF EntersTurn, At, SessPcs, RolePcs
<1>2. call[c].kind = "turn" /\ call[c].left = {}
  BY <1>1, AtRole DEF Shape, Fits, TurnPcs
<1>3. PICK new \in Calls : /\ Step(c, new) /\ new.pc \in {"drain", "revive"}
                           /\ Fits(new) /\ HasSession(new)
  <2>1. CASE Alive(call[c].s)
    <3>1. Go(c, "drain")
      BY <2>1 DEF EntersTurn
    <3> QED
      BY <1>1, <1>2, <3>1, GoesFit DEF Pcs
  <2>2. CASE ~Alive(call[c].s)
    <3>1. Go(c, "revive")
      BY <2>2 DEF EntersTurn
    <3> QED
      BY <1>1, <1>2, <3>1, GoesFit DEF Pcs
  <2> QED
    BY <2>1, <2>2
<1> QED
  BY <1>1, <1>3, LockShape DEF EntersTurn, locks, world, Holders

LEMMA EnsuresShape == ASSUME Shape, NEW c \in CallIds, Ensures(c) PROVE Shape'
<1>1. call[c].pc = "ensure" /\ call[c].pc \in SessPcs /\ call[c].pc \in RolePcs
  BY DEF Ensures, At, SessPcs, RolePcs
<1>2. call[c].kind \in {"turn", "resume"} /\ call[c].left = {}
  BY <1>1, AtRole
<1>3. CASE Alive(call[c].s)
  <2>1. PICK new \in Calls : /\ Step(c, new) /\ new.pc \in {"enter", "lookup", "ended"}
                             /\ Fits(new) /\ HasSession(new)
    <3>1. CASE call[c].kind = "turn"
      <4>1. Go(c, "enter")
        BY <1>3, <3>1 DEF Ensures
      <4> QED
        BY <1>1, <1>2, <3>1, <4>1, GoesFit DEF Pcs
    <3>2. CASE call[c].kind # "turn"
      <4>1. Step(c, NextRole(c))
        BY <1>3, <3>2 DEF Ensures
      <4> QED
        BY <1>1, <4>1, NextRoleFits
    <3> QED
      BY <3>1, <3>2
  <2>2. sess' = sess
    BY <1>3 DEF Ensures
  <2> QED
    BY <1>1, <2>1, <2>2, QuietShape DEF Ensures, locks, world, Shape, Types
<1>4. CASE ~Alive(call[c].s)
  <2>1. Go(c, "spawn") /\ sess' = [sess EXCEPT ![call[c].s].lock = c]
    BY <1>4 DEF Ensures
  <2>2. PICK new \in Calls : Step(c, new) /\ new.pc = "spawn" /\ Fits(new) /\ HasSession(new)
    BY <1>1, <1>2, <2>1, GoesFit DEF Pcs
  <2> QED
    BY <1>1, <2>1, <2>2, LockShape DEF Ensures, locks, world, Holders
<1> QED
  BY <1>3, <1>4

LEMMA CliIs ==
  ASSUME Shape, NEW c \in CallIds, call[c].pc \in SessPcs
  PROVE  /\ Cli(c) \in CliIds \union {None} /\ Cli(c) = sess[call[c].s].cli
         /\ Cli(c) # None => /\ Cli(c) \in CliIds /\ Cli(c) \in Born /\ cli[Cli(c)] \in Clis
                             /\ cli[Cli(c)].role = call[c].role
<1>1. call[c].s \in SessIds /\ sess[call[c].s].role = call[c].role
  BY DEF Shape, HasSession
<1> QED
  BY <1>1 DEF Cli, Shape, Types, Sessions, Owned, Born

LEMMA DrainsShape == ASSUME Shape, NEW c \in CallIds, Drains(c) PROVE Shape'
<1>1. call[c].pc = "drain" /\ call[c].pc \in LockPcs /\ call[c].pc \in SessPcs
      /\ call[c].pc \in RolePcs
  BY DEF Drains, At, SessPcs, RolePcs, LockPcs
<1>2. PICK new \in Calls : Step(c, new) /\ new.pc = "write" /\ Fits(new) /\ HasSession(new)
  <2>1. Go(c, "write")
    BY DEF Drains
  <2> QED
    BY <1>1, <2>1, GoesFit, AtRole, AtLock DEF Pcs
<1>3. /\ cli' \in [CliIds -> Clis]
      /\ \A k \in CliIds : /\ cli'[k].role = cli[k].role
                           /\ cli'[k].fate = "unborn" <=> cli[k].fate = "unborn"
  <2>1. <<>> \in Seq(Frames) /\ cli \in [CliIds -> Clis]
    BY EmptySeq DEF Shape, Types
  <2>2. cli' = [cli EXCEPT ![Cli(c)].out = <<>>]
    BY DEF Drains, Stale
  <2> QED
    BY <2>1, <2>2 DEF Clis
<1> QED
  BY <1>1, <1>2, <1>3, PipeShape DEF Drains, locks, world

LEMMA LeavesShape ==
  ASSUME Shape, NEW c \in CallIds, call[c].pc \in LockPcs, NEW new \in Calls, Leaves(c, new),
         UNCHANGED <<script, waiting, initialized, turnLock, regLock, registry, cli, faults, abandoned>>,
         new.pc \notin {"unsent", "evict", "shutting"}, Fits(new), HasSession(new)
  PROVE  Shape'
<1>1. None \in Holders /\ call[c].pc \in SessPcs
  BY AtLock DEF Holders
<1> QED
  BY <1>1, LockShape DEF Leaves

LEMMA PromptsShape == ASSUME Shape, NEW c \in CallIds, Prompts(c) PROVE Shape'
<1>1. call[c].pc = "write" /\ call[c].pc \in LockPcs /\ call[c].pc \in SessPcs
      /\ call[c].pc \in RolePcs
  BY DEF Prompts, At, SessPcs, RolePcs, LockPcs
<1>2. CASE Leaves(c, GivesUp(c)) /\ UNCHANGED cli
  <2>1. PICK new : new = GivesUp(c)
    OBVIOUS
  <2>2. /\ new \in Calls /\ new.pc \in {"lookup", "sample", "ended"} /\ Fits(new)
        /\ HasSession(new)
    BY <1>1, <2>1, GivesUpFits
  <2> QED
    BY <1>1, <1>2, <2>1, <2>2, LeavesShape DEF Prompts, locks, world
<1>3. CASE /\ Up(Cli(c)) /\ Go(c, "poll") /\ UNCHANGED sess
           /\ cli' = [cli EXCEPT ![Cli(c)].inbox = Append(@, c), ![Cli(c)].greeted = TRUE]
  <2>1. PICK new \in Calls : Step(c, new) /\ new.pc = "poll" /\ Fits(new) /\ HasSession(new)
    BY <1>1, <1>3, GoesFit, AtRole, AtLock DEF Pcs
  <2> DEFINE k == Cli(c)
  <2>2. k \in CliIds /\ cli[k] \in Clis /\ cli \in [CliIds -> Clis]
    BY <1>1, <1>3, CliIs DEF Up, Shape, Types
  <2>3. Append(cli[k].inbox, c) \in Seq(CallIds)
    BY <2>2, AppendProperties DEF Clis
  <2>4. /\ cli' \in [CliIds -> Clis]
        /\ \A n \in CliIds : /\ cli'[n].role = cli[n].role /\ cli'[n].fate = cli[n].fate
    BY <1>3, <2>2, <2>3 DEF Clis
  <2> QED
    BY <1>1, <1>3, <2>1, <2>4, PipeShape DEF Prompts, locks, world
<1> QED
  BY <1>2, <1>3 DEF Prompts

LEMMA HasCli ==
  ASSUME Shape, Locked, NEW c \in CallIds, call[c].pc \in LockPcs \ {"spawn", "revive"}
  PROVE  /\ Cli(c) = sess[call[c].s].cli /\ Cli(c) \in CliIds /\ Cli(c) \in Born
         /\ cli[Cli(c)] \in Clis /\ cli[Cli(c)].role = call[c].role
<1>1. call[c].pc \in LockPcs /\ call[c].pc \in SessPcs
  BY AtLock
<1>2. Cli(c) # None
  BY <1>1 DEF Locked, Cli
<1> QED
  BY <1>1, <1>2, CliIs

LEMMA ReadsIs ==
  ASSUME Shape, Locked, NEW c \in CallIds, Reads(c)
  PROVE  /\ call[c].pc = "read" /\ call[c].pc \in LockPcs /\ call[c].kind = "turn"
         /\ Cli(c) \in CliIds /\ cli[Cli(c)].role = call[c].role
         /\ Head(cli[Cli(c)].out) \in Frames
         /\ \E new \in Calls :
              LET f == Head(cli[Cli(c)].out)
              IN  /\ Step(c, new) /\ Fits(new) /\ HasSession(new)
                  /\ new.pc \in {"poll", "reap", "respawn"} /\ new.kind = "turn"
                  /\ new.role = call[c].role
                  /\ new.s = call[c].s /\ new.left = {} /\ new.saw = call[c].saw
                  /\ new.heard = (IF Mine(c, f) THEN call[c].heard \union {f.of}
                                               ELSE call[c].heard)
                  /\ new.pc = "poll" => ~Mine(c, f) \/ f.kind = "text"
                  /\ new.pc = "reap" => Mine(c, f)
                                      /\ (f.kind = "result" \/ call[c].role \in Correlated)
                  /\ new.pc = "respawn" => f.kind = "error" /\ call[c].role \notin Correlated
<1> DEFINE f == Head(cli[Cli(c)].out)
           next == IF ~Mine(c, f) \/ f.kind = "text" THEN "poll" ELSE After(c, f)
           ans == IF next = "poll" THEN call[c].answer
                  ELSE IF f.kind = "result" THEN "ok" ELSE "failed"
           hrd == IF Mine(c, f) THEN call[c].heard \union {f.of} ELSE call[c].heard
           new == [call[c] EXCEPT !.pc = next, !.heard = hrd, !.answer = ans]
<1>1. /\ call[c].pc = "read" /\ call[c].pc \in LockPcs /\ call[c].pc \in SessPcs
      /\ call[c].pc \in RolePcs /\ call[c].pc \in LockPcs \ {"spawn", "revive"}
  BY DEF Reads, At, SessPcs, RolePcs, LockPcs
<1>2. call[c].kind = "turn" /\ call[c] \in Calls /\ call[c].left = {}
  BY <1>1, AtRole, AtLock
<1>3. Cli(c) \in CliIds /\ cli[Cli(c)].role = call[c].role /\ cli[Cli(c)] \in Clis
  BY <1>1, HasCli
<1>4. f \in Frames
  <2>1. cli[Cli(c)].out \in Seq(Frames) /\ cli[Cli(c)].out # <<>>
    BY <1>3 DEF Clis, Reads
  <2> QED
    BY <2>1, HeadTailProperties
<1>5. next \in {"poll", "reap", "respawn"} /\ ans \in Told /\ hrd \in SUBSET CallIds
  BY <1>2, <1>4 DEF After, Calls, Told, Frames
<1>6. Step(c, new)
  <2>1. Step(c, [call[c] EXCEPT !.pc = next,
                                !.heard = IF Mine(c, f) THEN @ \union {f.of} ELSE @,
                                !.answer = IF next = "poll" THEN @
                                           ELSE IF f.kind = "result" THEN "ok" ELSE "failed"])
    BY DEF Reads
  <2> QED
    BY <2>1
<1>7. /\ next = "poll" => ~Mine(c, f) \/ f.kind = "text"
      /\ next = "reap" => Mine(c, f) /\ (f.kind = "result" \/ call[c].role \in Correlated)
      /\ next = "respawn" => f.kind = "error" /\ call[c].role \notin Correlated
  BY <1>4 DEF After, Frames
<1> HIDE DEF next, ans, hrd
<1>8. /\ new \in Calls /\ new.pc = next /\ new.kind = "turn" /\ new.role = call[c].role
      /\ new.s = call[c].s /\ new.left = {} /\ new.heard = hrd /\ new.saw = call[c].saw
  BY <1>2, <1>5 DEF Calls, Pcs
<1>9. Fits(new) /\ HasSession(new)
  BY <1>1, <1>2, <1>5, <1>8, MovesFit
<1> HIDE DEF new
<1> QED
  BY <1>1, <1>2, <1>3, <1>4, <1>5, <1>6, <1>7, <1>8, <1>9 DEF hrd

LEMMA ReadsShape == ASSUME Shape, Locked, NEW c \in CallIds, Reads(c) PROVE Shape'
<1>1. PICK new \in Calls : /\ Step(c, new) /\ new.pc \in {"poll", "reap", "respawn"}
                           /\ Fits(new) /\ HasSession(new)
  BY ReadsIs
<1>2. call[c].pc = "read" /\ Cli(c) \in CliIds /\ cli \in [CliIds -> Clis]
  BY ReadsIs DEF Shape, Types
<1>3. cli' = [cli EXCEPT ![Cli(c)].out = Tail(@)] /\ cli[Cli(c)].out # <<>>
  BY DEF Reads
<1>4. Tail(cli[Cli(c)].out) \in Seq(Frames)
  BY <1>2, <1>3, HeadTailProperties DEF Clis
<1>5. /\ cli' \in [CliIds -> Clis]
      /\ \A n \in CliIds : cli'[n].role = cli[n].role /\ cli'[n].fate = cli[n].fate
  BY <1>2, <1>3, <1>4 DEF Clis
<1> QED
  BY <1>1, <1>2, <1>5, PipeShape DEF Reads, locks, world

LEMMA ReadsEndShape == ASSUME Shape, NEW c \in CallIds, ReadsEnd(c) PROVE Shape'
<1>1. call[c].pc = "read" /\ call[c].pc \in LockPcs /\ call[c].pc \in SessPcs
      /\ call[c].pc \in RolePcs
  BY DEF ReadsEnd, At, SessPcs, RolePcs, LockPcs
<1>2. PICK new \in Calls : Step(c, new) /\ new.pc = "poll" /\ Fits(new) /\ HasSession(new)
  <2>1. Go(c, "poll")
    BY DEF ReadsEnd
  <2> QED
    BY <1>1, <2>1, GoesFit, AtRole, AtLock DEF Pcs
<1> QED
  BY <1>1, <1>2, QuietShape DEF ReadsEnd, locks, world, Shape, Types

LEMMA ExpiresShape == ASSUME Shape, NEW c \in CallIds, Expires(c) PROVE Shape'
<1>1. call[c].pc \in {"poll", "read"} /\ call[c].pc \in LockPcs /\ call[c].pc \in SessPcs
      /\ call[c].pc \in RolePcs
  BY DEF Expires, SessPcs, RolePcs, LockPcs
<1>2. PICK new \in Calls : Step(c, new) /\ new.pc = "kill" /\ Fits(new) /\ HasSession(new)
  <2>1. Go(c, "kill")
    BY DEF Expires
  <2> QED
    BY <1>1, <2>1, GoesFit, AtRole, AtLock DEF Pcs
<1> QED
  BY <1>1, <1>2, QuietShape DEF Expires, locks, world, Shape, Types

LEMMA ReapsOrphansShape == ASSUME Shape, NEW c \in CallIds, ReapsOrphans(c) PROVE Shape'
<1>1. call[c].pc = "reap" /\ call[c].pc \in LockPcs /\ call[c].pc \in SessPcs
      /\ call[c].pc \in RolePcs
  BY DEF ReapsOrphans, At, SessPcs, RolePcs, LockPcs
<1>2. PICK new : new = [call[c] EXCEPT !.pc = "sample"]
  OBVIOUS
<1>3. call[c] \in Calls /\ call[c].kind = "turn" /\ call[c].left = {}
  BY <1>1, AtRole, AtLock
<1>4. /\ new \in Calls /\ new.pc = "sample" /\ new.kind = "turn" /\ new.role = call[c].role
      /\ new.left = {}
  BY <1>2, <1>3 DEF Calls, Pcs
<1>5. Fits(new) /\ HasSession(new)
  BY <1>1, <1>3, <1>4, MovesFit
<1>6. Leaves(c, new)
  BY <1>2 DEF ReapsOrphans
<1> QED
  BY <1>1, <1>4, <1>5, <1>6, LeavesShape DEF ReapsOrphans, locks, world

LEMMA ReportsShape == ASSUME Shape, NEW c \in CallIds, Reports(c) PROVE Shape'
<1>1. call[c].pc = "sample" /\ call[c] \in Calls
  BY DEF Reports, At, Shape, Types
<1>2. PICK new : new = Ends(c, call[c].answer)
  OBVIOUS
<1>3. call[c].answer \in Told
  BY <1>1 DEF Calls
<1>4. new \in Calls /\ new.pc = "ended" /\ Fits(new) /\ HasSession(new)
  BY <1>1, <1>2, <1>3, EndsFits
<1>5. Step(c, new)
  BY <1>2 DEF Reports
<1>6. turnLock' \in [Roles -> Holders]
  BY DEF Reports, Shape, Types, Holders
<1> QED
  BY <1>1, <1>4, <1>5, <1>6, QuietShape DEF Reports, world, Shape, Types

LEMMA PreflightsShape == ASSUME Shape, NEW c \in CallIds, Preflights(c) PROVE Shape'
<1>1. call[c].pc = "preflight" /\ call[c].left = {} /\ call[c].kind = "resume"
  BY DEF Preflights, At, Shape, HasSession, Fits
<1>2. PICK new \in Calls : /\ Step(c, new) /\ new.pc \in {"lookup", "ended"}
                           /\ Fits(new) /\ HasSession(new)
  <2>1. CASE Go(c, "lookup")
    BY <1>1, <2>1, GoesFit DEF Pcs
  <2>2. CASE Step(c, Ends(c, "refused"))
    BY <1>1, <2>2, EndsFits DEF Told
  <2> QED
    BY <2>1, <2>2 DEF Preflights
<1>3. faults' \in 0..MaxFaults
  <2>1. faults \in 0..MaxFaults
    BY DEF Shape, Types
  <2>2. faults' = faults \/ (faults < MaxFaults /\ faults' = faults + 1)
    BY DEF Preflights, Fault
  <2> QED
    BY <2>1, <2>2, Bounds
<1>4. initialized' \in BOOLEAN
  BY DEF Preflights
<1> QED
  BY <1>1, <1>2, <1>3, <1>4, QuietShape DEF Preflights, locks, Shape, Types

LEMMA TearsDownShape == ASSUME Shape, NEW c \in CallIds, TearsDown(c) PROVE Shape'
<1>1. call[c].pc = "close"
  BY DEF TearsDown, At
<1>2. PICK how \in Told : Step(c, Ends(c, how))
  <2>1. CASE call[c].answer = "failed"
    BY <2>1 DEF TearsDown, Told
  <2>2. CASE call[c].answer # "failed"
    BY <2>2 DEF TearsDown, Told
  <2> QED
    BY <2>1, <2>2
<1>3. PICK new : new = Ends(c, how)
  OBVIOUS
<1>4. new \in Calls /\ new.pc = "ended" /\ Fits(new) /\ HasSession(new) /\ Step(c, new)
  BY <1>1, <1>2, <1>3, EndsFits
<1> QED
  BY <1>1, <1>4, QuietShape DEF TearsDown, locks, world, Shape, Types

LEMMA PingsShape == ASSUME Shape, NEW c \in CallIds, Pings(c) PROVE Shape'
<1>1. call[c].pc = "ping"
  BY DEF Pings, At
<1>3. PICK new : new = Ends(c, "ok")
  OBVIOUS
<1>4. new \in Calls /\ new.pc = "ended" /\ Fits(new) /\ HasSession(new) /\ Step(c, new)
  BY <1>1, <1>3, EndsFits DEF Told, Pings
<1> QED
  BY <1>1, <1>4, QuietShape DEF Pings, locks, world, Shape, Types

LEMMA KillIs ==
  ASSUME Shape, NEW c \in CallIds, NEW s \in SessIds, NEW o \in Kills(c, s), NEW mark \in Marks,
         NEW d, d = Dead(s, o, mark)
  PROVE  /\ d \in [CliIds -> Clis]
         /\ \A k \in CliIds : /\ d[k].role = cli[k].role
                              /\ d[k].fate = "unborn" <=> cli[k].fate = "unborn"
         /\ Forgotten(s, o) \in {None, sess[s].cli}
         /\ Counted(o) => faults' \in 0..MaxFaults
<1>1. Types
  BY DEF Shape
<1>2. /\ d \in [CliIds -> Clis]
      /\ \A k \in CliIds : k # sess[s].cli => d[k] = cli[k]
      /\ sess[s].cli # None =>
           /\ sess[s].cli \in CliIds /\ d[sess[s].cli].role = cli[sess[s].cli].role
           /\ d[sess[s].cli].fate = o.fate
  BY <1>1, DeadIs
<1>3. sess[s].cli # None => sess[s].cli \in Born
  BY DEF Shape, Owned
<1>4. sess[s].cli # None /\ cli[sess[s].cli].fate # "unborn" => o.fate # "unborn"
  BY <1>1, OutcomeIs
<1>5. \A k \in CliIds : /\ d[k].role = cli[k].role
                        /\ d[k].fate = "unborn" <=> cli[k].fate = "unborn"
  BY <1>2, <1>3, <1>4, Bounds DEF Born
<1>6. Counted(o) => faults' \in 0..MaxFaults
  <2>1. faults \in 0..MaxFaults
    BY <1>1 DEF Types
  <2>2. o.told # "killed" => faults # MaxFaults
    BY <1>1, OutcomeIs
  <2> QED
    BY <2>1, <2>2, Bounds DEF Counted
<1> QED
  BY <1>2, <1>5, <1>6 DEF Forgotten

LEMMA RegistersIs ==
  ASSUME Shape, NEW c \in CallIds, call[c].pc \in {"lookup", "evict"}, Registers(c)
  PROVE  /\ NewSess \in SessIds /\ NewSess \notin Made /\ sess[NewSess] = Nobodys
         /\ NewSess # registry[call[c].role]
         /\ call[c].role \in Roles
         /\ registry' \in [Roles -> SessIds \union {None}]
         /\ registry'[call[c].role] = NewSess
         /\ \A r \in Roles : r # call[c].role => registry'[r] = registry[r]
         /\ \E new \in Calls :
              /\ Step(c, new) /\ Fits(new) /\ new.pc = "ensure" /\ new.s = NewSess
              /\ new.kind = call[c].kind /\ new.role = call[c].role /\ new.left = {}
              /\ new.heard = call[c].heard /\ new.saw = call[c].saw /\ new.answer = call[c].answer
<1>1. NewSess \in SessIds /\ NewSess \notin Made
  BY New, Bounds DEF Registers, SessIds, Shape
<1>2. call[c].pc \in RolePcs
  BY DEF RolePcs
<1>3. call[c] \in Calls /\ call[c].kind \in {"turn", "resume"} /\ call[c].role \in Roles
      /\ call[c].left = {}
  BY <1>2, AtRole
<1>4. sess[NewSess] = Nobodys
  BY <1>1 DEF Shape, Owned
<1>5. /\ registry' \in [Roles -> SessIds \union {None}]
      /\ registry'[call[c].role] = NewSess
      /\ \A r \in Roles : r # call[c].role => registry'[r] = registry[r]
  BY <1>1, <1>3 DEF Registers, Shape, Types
<1>6. PICK new : new = [call[c] EXCEPT !.s = NewSess, !.pc = "ensure"]
  OBVIOUS
<1>7. /\ new \in Calls /\ new.pc = "ensure" /\ new.s = NewSess /\ new.kind = call[c].kind
      /\ new.role = call[c].role /\ new.left = {} /\ new.heard = call[c].heard
      /\ new.saw = call[c].saw /\ new.answer = call[c].answer
  BY <1>1, <1>3, <1>6 DEF Calls, Pcs
<1>8. Fits(new)
  BY <1>3, <1>7 DEF Fits, TurnPcs, LockPcs, SessPcs, RolePcs
<1>9. Step(c, new)
  BY <1>6 DEF Registers
<1>10. NewSess # registry[call[c].role]
  BY <1>1, <1>3, MadeIs, Bounds
<1> QED
  BY <1>1, <1>3, <1>4, <1>5, <1>7, <1>8, <1>9, <1>10

LEMMA NewSessShape ==
  ASSUME Shape, NEW c \in CallIds, call[c].pc \in {"lookup", "evict"}, Registers(c),
         sess' \in [SessIds -> Sessions], cli' \in [CliIds -> Clis],
         \A s \in SessIds \ {NewSess} : /\ sess'[s].role = sess[s].role
                                        /\ sess'[s].cli \in {None, sess[s].cli}
                                        /\ s \notin Made => sess'[s] = sess[s],
         sess'[NewSess] = [role |-> call[c].role, lock |-> None, cli |-> None],
         \A k \in CliIds : /\ cli'[k].role = cli[k].role
                           /\ cli'[k].fate = "unborn" <=> cli[k].fate = "unborn",
         UNCHANGED <<script, waiting, initialized, turnLock, abandoned>>, faults' \in 0..MaxFaults,
         \/ call[c].pc = "lookup" /\ regLock' = regLock
         \/ call[c].pc = "evict" /\ regLock' = None
  PROVE  Shape'
<1>1. PICK new \in Calls :
        /\ Step(c, new) /\ Fits(new) /\ new.pc = "ensure" /\ new.s = NewSess
        /\ new.kind = call[c].kind /\ new.role = call[c].role /\ new.left = {}
  BY RegistersIs
<1>2. /\ NewSess \in SessIds /\ NewSess \notin Made /\ call[c].role \in Roles
      /\ registry' \in [Roles -> SessIds \union {None}]
      /\ registry'[call[c].role] = NewSess
      /\ \A r \in Roles : r # call[c].role => registry'[r] = registry[r]
  BY RegistersIs
<1>3. Types'
  <2>1. call' \in [CallIds -> Calls]
    BY <1>1, StepIs DEF Shape
  <2>2. regLock' \in Holders
    BY DEF Shape, Types, Holders
  <2> QED
    BY <1>2, <2>1, <2>2 DEF Shape, Types
<1>4. "none" \notin Roles
  BY RunnerAssumption
<1>5. Made' = Made \union {NewSess} /\ Born' = Born
  <2>1. \A s \in SessIds : s \in Made' <=> s \in Made \/ s = NewSess
    BY <1>2, <1>4 DEF Made
  <2>2. Made' \subseteq SessIds /\ Made \subseteq SessIds
    BY DEF Made
  <2> QED
    BY <1>2, <2>1, <2>2 DEF Born
<1>6. Numbered(Made)' /\ Numbered(Born)'
  <2>1. Numbered(Made) /\ Numbered(Born) /\ Cardinality(Made) \in Nat
    BY Finite DEF Shape, Ordered
  <2>2. Made \union {NewSess} = Made \union {Cardinality(Made) + 1}
    BY DEF NewSess
  <2>3. Numbered(Made \union {NewSess})
    BY <2>1, <2>2, NextNumber
  <2> QED
    BY <1>5, <2>1, <2>3 DEF Numbered
<1>7. Grows
  <2>1. \A s \in SessIds : s \notin Made => sess[s].lock = None /\ sess[s].cli = None
    BY DEF Shape, Owned, Nobodys
  <2>2. \A k \in Born : k \in CliIds /\ cli[k].fate # "unborn"
    BY DEF Born
  <2>3. \A s \in SessIds : s = NewSess \/ s \in SessIds \ {NewSess}
    OBVIOUS
  <2>4. \A s \in SessIds : IF s \in Made THEN sess'[s].role = sess[s].role
                           ELSE sess'[s].lock = None /\ sess'[s].cli = None
                                /\ (sess'[s].role = "none" => sess'[s] = sess[s])
    BY <1>2, <1>4, <2>1, <2>3
  <2>5. \A s \in SessIds : sess'[s].cli \in {None, sess[s].cli}
    BY <1>2, <2>3
  <2>6. \A r \in Roles : \/ registry'[r] \in {None, registry[r]}
                         \/ registry'[r] \in SessIds /\ sess'[registry'[r]].role = r
    BY <1>2
  <2> QED
    BY <2>2, <2>4, <2>5, <2>6 DEF Grows
<1>8. RegHeld'
  <2>1. call[c].pc = "evict" \/ call[c].pc \notin {"evict", "shutting"}
    OBVIOUS
  <2>2. \/ regLock' = regLock /\ (new.pc \in {"evict", "shutting"} <=> call[c].pc \in {"evict", "shutting"})
        \/ /\ call[c].pc \in {"evict", "shutting"} /\ new.pc \notin {"evict", "shutting"}
           /\ regLock' = None
    BY <1>1
  <2> QED
    BY <1>1, <2>2, RegHeldStep
<1>9. HasSession(new)'
  BY <1>1, <1>2 DEF HasSession
<1>10. \A r \in Roles : ~(registry[r] # None /\ registry'[r] = None)
  BY <1>2, Bounds
<1> QED
  BY <1>1, <1>3, <1>6, <1>7, <1>8, <1>9, <1>10, ShapeStep

LEMMA LooksUpShape == ASSUME Shape, NEW c \in CallIds, LooksUp(c) PROVE Shape'
<1> DEFINE s == registry[call[c].role]
<1>1. call[c].pc = "lookup" /\ call[c].pc \in RolePcs
  BY DEF LooksUp, At, RolePcs
<1>2. call[c] \in Calls /\ call[c].kind \in {"turn", "resume"} /\ call[c].role \in Roles
      /\ call[c].left = {}
  BY <1>1, AtRole
<1>3. CASE /\ Alive(s) /\ Step(c, [call[c] EXCEPT !.s = s, !.pc = "ensure"])
           /\ UNCHANGED <<regLock, registry, sess>>
  <2>1. PICK new : new = [call[c] EXCEPT !.s = s, !.pc = "ensure"]
    OBVIOUS
  <2>2. s \in SessIds /\ sess[s].role = call[c].role
    BY <1>2, <1>3 DEF Alive, Shape, Types, Owned
  <2>3. /\ new \in Calls /\ new.pc = "ensure" /\ new.s = s /\ new.kind = call[c].kind
        /\ new.role = call[c].role /\ new.left = {}
    BY <1>2, <2>1, <2>2 DEF Calls, Pcs
  <2>4. Fits(new) /\ HasSession(new)
    BY <1>2, <2>2, <2>3 DEF Fits, HasSession, TurnPcs, LockPcs, SessPcs, RolePcs
  <2>5. Step(c, new)
    BY <1>3, <2>1
  <2> QED
    BY <1>1, <1>3, <2>3, <2>4, <2>5, QuietShape DEF LooksUp, world, Shape, Types
<1>4. CASE /\ s # None /\ ~Alive(s) /\ regLock' = c /\ Go(c, "evict")
           /\ UNCHANGED <<registry, sess>>
  <2>1. PICK new \in Calls :
          /\ Step(c, new) /\ new.pc = "evict" /\ new.kind = call[c].kind
          /\ new.role = call[c].role /\ new.left = call[c].left
    <3>1. Types /\ "evict" \in Pcs /\ Go(c, "evict")
      BY <1>4 DEF Shape, Pcs
    <3> QED
      BY <3>1, GoIs
  <2>2. Fits(new) /\ HasSession(new)
    BY <1>2, <1>4, <2>1 DEF Fits, HasSession, TurnPcs, LockPcs, SessPcs, RolePcs
  <2>3. HasSession(new)'
    BY <1>4, <2>2 DEF HasSession
  <2>4. RegHeld'
    BY <1>1, <1>4, <2>1, RegHeldStep DEF LooksUp
  <2>5. Types'
    BY <1>4, <2>1, StepIs DEF LooksUp, world, Shape, Types, Holders
  <2>6. Grows /\ Numbered(Made)' /\ Numbered(Born)'
    <3>1. \A r \in Roles : registry'[r] \in {None, registry[r]}
      BY <1>4
    <3> QED
      BY <1>4, <3>1, SameObjects DEF LooksUp
  <2> QED
    BY <1>1, <1>4, <2>1, <2>2, <2>3, <2>4, <2>5, <2>6, ShapeStep
<1>5. CASE /\ s = None /\ Registers(c)
           /\ sess' = [sess EXCEPT ![NewSess].role = call[c].role] /\ UNCHANGED regLock
  <2>1. NewSess \in SessIds /\ sess[NewSess] = Nobodys /\ sess \in [SessIds -> Sessions]
    BY <1>1, <1>5, RegistersIs DEF Shape, Types
  <2>2. sess'[NewSess] = [role |-> call[c].role, lock |-> None, cli |-> None]
    BY <1>5, <2>1 DEF Nobodys
  <2>3. \A t \in SessIds \ {NewSess} : sess'[t] = sess[t]
    BY <1>5, <2>1
  <2>4. sess' \in [SessIds -> Sessions]
    BY <1>2, <1>5, <2>1 DEF Sessions
  <2>5. cli' \in [CliIds -> Clis] /\ faults' \in 0..MaxFaults
    BY DEF LooksUp, world, Shape, Types
  <2> QED
    BY <1>1, <1>5, <2>2, <2>3, <2>4, <2>5, NewSessShape DEF LooksUp, world
<1> QED
  BY <1>3, <1>4, <1>5 DEF LooksUp

\* A step that ends what a process was doing, for its session too.
LEMMA KillShape ==
  ASSUME Shape, NEW c \in CallIds, NEW new \in Calls, Step(c, new), NEW s \in SessIds,
         NEW o \in Kills(c, s), NEW mark \in Marks, cli' = Dead(s, o, mark), Counted(o),
         sess' \in [SessIds -> Sessions],
         \A t \in SessIds : /\ sess'[t].role = sess[t].role
                            /\ sess'[t].cli \in {None, sess[t].cli}
                            /\ t \notin Made => sess'[t] = sess[t],
         UNCHANGED <<script, waiting, initialized, registry, abandoned>>,
         turnLock' \in [Roles -> Holders], regLock' \in Holders, RegHeld',
         call[c].pc # "unsent", new.pc # "unsent", Fits(new), HasSession(new)'
  PROVE  Shape'
<1>1. /\ cli' \in [CliIds -> Clis] /\ faults' \in 0..MaxFaults
      /\ \A k \in CliIds : /\ cli'[k].role = cli[k].role
                           /\ cli'[k].fate = "unborn" <=> cli[k].fate = "unborn"
  BY KillIs
<1>2. Types'
  BY <1>1, StepIs DEF Shape, Types
<1>3. Grows /\ Numbered(Made)' /\ Numbered(Born)'
  <2>1. \A r \in Roles : registry'[r] \in {None, registry[r]}
    OBVIOUS
  <2> QED
    BY <1>1, <2>1, SameObjects
<1> QED
  BY <1>2, <1>3, ShapeStep

LEMMA EvictsIs ==
  ASSUME Shape, NEW c \in CallIds, Evicts(c)
  PROVE  /\ call[c].pc = "evict" /\ call[c].pc \in RolePcs
         /\ registry[call[c].role] \in SessIds /\ registry[call[c].role] \in Made
         /\ sess[registry[call[c].role]].role = call[c].role
         /\ regLock = c /\ regLock' = None
<1>1. call[c].pc = "evict" /\ call[c].pc \in RolePcs
  BY DEF Evicts, At, RolePcs
<1>2. call[c].role \in Roles /\ registry[call[c].role] # None
  BY <1>1, AtRole DEF Shape, HasSession
<1> QED
  BY <1>1, <1>2, MadeIs DEF Evicts, Shape, Owned, Made, RegHeld

LEMMA EvictsShape == ASSUME Shape, NEW c \in CallIds, Evicts(c) PROVE Shape'
<1>0. PICK s : s = registry[call[c].role]
  OBVIOUS
<1>1. call[c].pc = "evict" /\ call[c].pc \in RolePcs /\ s \in SessIds /\ s \in Made
      /\ sess[s].role = call[c].role /\ regLock = c /\ regLock' = None /\ "here" \in Marks
  BY <1>0, EvictsIs DEF Marks
<1>2. PICK o \in Kills(c, s) :
        /\ cli' = Dead(s, o, "here") /\ Counted(o)
        /\ IF o.told = "raised"
           THEN /\ sess' = sess /\ registry' = registry
                /\ IF call[c].kind = "turn"
                   THEN Step(c, Ends(c, "error")) /\ turnLock' = [turnLock EXCEPT ![call[c].role] = None]
                   ELSE Step(c, NextRole(c)) /\ UNCHANGED turnLock
           ELSE /\ Registers(c) /\ UNCHANGED turnLock
                /\ sess' = [sess EXCEPT ![s].cli = Forgotten(s, o),
                                        ![NewSess].role = call[c].role]
  BY <1>0 DEF Evicts
<1>3. /\ cli' \in [CliIds -> Clis] /\ faults' \in 0..MaxFaults
      /\ \A k \in CliIds : /\ cli'[k].role = cli[k].role
                           /\ cli'[k].fate = "unborn" <=> cli[k].fate = "unborn"
      /\ Forgotten(s, o) \in {None, sess[s].cli}
  BY <1>1, <1>2, KillIs
<1>4. UNCHANGED <<script, waiting, initialized, abandoned>>
  BY DEF Evicts
<1>5. CASE o.told = "raised"
  <2>1. PICK new \in Calls : /\ Step(c, new) /\ new.pc \in {"lookup", "ended"}
                             /\ Fits(new) /\ HasSession(new)'
    <3>1. CASE call[c].kind = "turn"
      BY <1>1, <1>2, <1>5, <3>1, EndsFits DEF Told
    <3>2. CASE call[c].kind # "turn"
      BY <1>1, <1>2, <1>5, <3>2, NextRoleFits
    <3> QED
      BY <3>1, <3>2
  <2>2. RegHeld'
    BY <1>1, <2>1, RegHeldStep
  <2>3. turnLock' \in [Roles -> Holders] /\ regLock' \in Holders
    BY <1>1, <1>2, <1>5 DEF Shape, Types, Holders
  <2>4. sess' = sess /\ registry' = registry /\ sess' \in [SessIds -> Sessions]
    BY <1>2, <1>5 DEF Shape, Types
  <2> QED
    BY <1>1, <1>2, <1>4, <2>1, <2>2, <2>3, <2>4, KillShape
<1>6. CASE o.told # "raised"
  <2>1. /\ NewSess \in SessIds /\ NewSess \notin Made /\ sess[NewSess] = Nobodys
        /\ sess \in [SessIds -> Sessions] /\ call[c].role \in Roles
    BY <1>1, <1>2, <1>6, RegistersIs DEF Shape, Types
  <2>2. sess' = [sess EXCEPT ![s].cli = Forgotten(s, o), ![NewSess].role = call[c].role]
    BY <1>2, <1>6
  <2>3. s # NewSess
    BY <1>1, <2>1
  <2>4. sess'[NewSess] = [role |-> call[c].role, lock |-> None, cli |-> None]
    BY <2>1, <2>2, <2>3 DEF Nobodys
  <2>5. /\ \A t \in SessIds \ {NewSess} : t # s => sess'[t] = sess[t]
        /\ sess'[s] = [sess[s] EXCEPT !.cli = Forgotten(s, o)]
    BY <1>1, <2>1, <2>2, <2>3
  <2>6. sess[s] \in Sessions /\ Forgotten(s, o) \in CliIds \union {None}
    BY <1>1, <1>3, <2>1 DEF Sessions
  <2>7. sess'[s] \in Sessions /\ sess'[s].role = sess[s].role /\ sess'[s].cli = Forgotten(s, o)
    BY <2>5, <2>6 DEF Sessions
  <2>8. sess'[NewSess] \in Sessions
    BY <2>1, <2>4 DEF Sessions, Holders
  <2>9. sess' \in [SessIds -> Sessions]
    <3>1. \A t \in SessIds : sess'[t] \in Sessions
      BY <2>1, <2>5, <2>7, <2>8
    <3>2. sess' = [t \in SessIds |-> sess'[t]]
      BY <2>1, <2>2
    <3> QED
      BY <3>1, <3>2
  <2>10. \A t \in SessIds \ {NewSess} : /\ sess'[t].role = sess[t].role
                                        /\ sess'[t].cli \in {None, sess[t].cli}
                                        /\ t \notin Made => sess'[t] = sess[t]
    BY <1>1, <1>3, <2>5, <2>7
  <2> QED
    BY <1>1, <1>2, <1>3, <1>4, <1>6, <2>4, <2>9, <2>10, NewSessShape
<1> QED
  BY <1>5, <1>6

\* A step that gives its session a new process.
LEMMA NewCliShape ==
  ASSUME Shape, NEW c \in CallIds, NEW new \in Calls, Step(c, new), call[c].pc \in SessPcs,
         NewCli <= MaxClis, sess' \in [SessIds -> Sessions], cli' \in [CliIds -> Clis],
         \A t \in SessIds : sess'[t].role = sess[t].role,
         \A t \in SessIds : t # call[c].s => sess'[t] = sess[t],
         sess'[call[c].s].cli = NewCli,
         \A k \in CliIds \ {NewCli} : /\ cli'[k].role = cli[k].role
                                      /\ cli'[k].fate = "unborn" <=> cli[k].fate = "unborn",
         cli'[NewCli].role = call[c].role, cli'[NewCli].fate # "unborn",
         UNCHANGED <<script, waiting, initialized, turnLock, regLock, registry, abandoned>>,
         faults' \in 0..MaxFaults,
         new.pc \notin {"unsent", "evict", "shutting"}, Fits(new), HasSession(new)
  PROVE  Shape'
<1> DEFINE s == call[c].s
<1>1. s \in SessIds /\ s \in Made /\ sess[s].role = call[c].role
      /\ call[c].pc \notin {"unsent", "evict", "shutting"}
  BY AtRole DEF SessPcs, RolePcs
<1>2. NewCli \in CliIds /\ NewCli \notin Born
  BY New, Bounds DEF CliIds, Shape
<1>3. Types'
  BY StepIs DEF Shape, Types
<1>4. Made' = Made
  BY DEF Made
<1>5. Born' = Born \union {NewCli}
  <2>1. \A k \in CliIds : k \in Born' <=> k \in Born \/ k = NewCli
    BY <1>2 DEF Born
  <2>2. Born' \subseteq CliIds /\ Born \subseteq CliIds
    BY DEF Born
  <2> QED
    BY <1>2, <2>1, <2>2
<1>6. Numbered(Made)' /\ Numbered(Born)'
  <2>1. Numbered(Made) /\ Numbered(Born) /\ Cardinality(Born) \in Nat
    BY Finite DEF Shape, Ordered
  <2>2. Born \union {NewCli} = Born \union {Cardinality(Born) + 1}
    BY DEF NewCli
  <2>3. Numbered(Born \union {NewCli})
    BY <2>1, <2>2, NextNumber
  <2> QED
    BY <1>4, <1>5, <2>1, <2>3 DEF Numbered
<1>7. Grows
  <2>1. \A t \in SessIds : t \notin Made => sess[t].lock = None /\ sess[t].cli = None
    BY DEF Shape, Owned, Nobodys
  <2>2. \A k \in Born : k \in CliIds \ {NewCli} /\ cli[k].fate # "unborn"
    BY <1>2 DEF Born
  <2>3. \A t \in SessIds : t # s => sess'[t].cli = sess[t].cli /\ sess'[t].cli # NewCli
    <3>1. \A t \in SessIds : sess[t].cli # NewCli
      BY <1>2, Bounds DEF Shape, Owned
    <3> QED
      BY <3>1
  <2>4. \A t \in SessIds : IF t \in Made THEN sess'[t].role = sess[t].role
                           ELSE sess'[t].lock = None /\ sess'[t].cli = None
                                /\ (sess'[t].role = "none" => sess'[t] = sess[t])
    BY <1>1, <2>1
  <2>5. \A k \in Born : cli'[k].role = cli[k].role /\ cli'[k].fate # "unborn"
    BY <2>2
  <2>6. \A t \in SessIds :
           \/ sess'[t].cli \in {None, sess[t].cli}
           \/ /\ sess'[t].cli = NewCli /\ NewCli \in CliIds
              /\ cli'[NewCli].role = sess[t].role /\ cli'[NewCli].fate # "unborn"
              /\ \A u \in SessIds : u # t => sess'[u].cli # NewCli
    BY <1>1, <1>2, <2>3
  <2>7. \A r \in Roles : registry'[r] \in {None, registry[r]}
    OBVIOUS
  <2> QED
    BY <2>4, <2>5, <2>6, <2>7 DEF Grows
<1>8. RegHeld'
  BY <1>1, RegHeldStep
<1>9. HasSession(new)'
  BY DEF HasSession
<1>10. \A r \in Roles : ~(registry[r] # None /\ registry'[r] = None)
  OBVIOUS
<1> QED
  BY <1>1, <1>3, <1>6, <1>7, <1>8, <1>9, <1>10, ShapeStep

LEMMA SpawnsCliIs ==
  ASSUME Shape, NEW c \in CallIds, SpawnsCli(c)
  PROVE  /\ call[c].pc \in {"spawn", "revive"}
         /\ call[c].pc \in SessPcs /\ call[c].pc \in RolePcs /\ call[c].pc \in LockPcs
         /\ call[c].s \in SessIds /\ call[c].s \in Made /\ sess[call[c].s].role = call[c].role
         /\ NewCli \in CliIds /\ NewCli \notin Born
         /\ \E child \in Clis, new \in Calls :
              /\ child.role = call[c].role /\ child.inbox = <<>>
              /\ child.out = <<>> /\ child.kept = "no" /\ child.fate # "unborn"
              /\ cli' = [cli EXCEPT ![NewCli] = child]
              /\ sess'[call[c].s] = [role |-> call[c].role, cli |-> NewCli,
                                     lock |-> IF new.pc = "drain" THEN c ELSE None]
              /\ sess'[call[c].s].role = call[c].role /\ sess'[call[c].s].cli = NewCli
              /\ \A t \in SessIds : t # call[c].s => sess'[t] = sess[t]
              /\ sess' \in [SessIds -> Sessions] /\ cli' \in [CliIds -> Clis]
              /\ faults' \in 0..MaxFaults
              /\ new.pc \in {"lookup", "sample", "ended", "drain", "enter"}
              /\ Step(c, new) /\ Fits(new) /\ HasSession(new)
              /\ \/ new = GivesUp(c) /\ new.pc \in {"lookup", "sample", "ended"}
                 \/ /\ child.fate = "up" /\ call[c].pc = "revive"
                    /\ new = [call[c] EXCEPT !.pc = "drain"] /\ new.pc = "drain"
                 \/ /\ child.fate = "up" /\ call[c].pc = "spawn" /\ call[c].kind = "turn"
                    /\ new = [call[c] EXCEPT !.pc = "enter"] /\ new.pc = "enter"
                 \/ /\ child.fate = "up" /\ call[c].pc = "spawn" /\ call[c].kind # "turn"
                    /\ new = NextRole(c) /\ new.pc \in {"lookup", "ended"}
<1> DEFINE s == call[c].s
<1>1. /\ call[c].pc \in {"spawn", "revive"}
      /\ call[c].pc \in SessPcs /\ call[c].pc \in RolePcs /\ call[c].pc \in LockPcs
  BY DEF SpawnsCli, SessPcs, RolePcs, LockPcs
<1>2. /\ s \in SessIds /\ s \in Made /\ sess[s].role = call[c].role /\ call[c].left = {}
      /\ call[c].kind \in {"turn", "resume"} /\ Types /\ sess[s] \in Sessions
      /\ (call[c].pc = "revive" => call[c].kind = "turn")
  <2>1. Types /\ call[c].s \in SessIds /\ (call[c].pc = "revive" => call[c].kind = "turn")
    BY <1>1, AtRole, AtLock DEF Shape
  <2> QED
    BY <1>1, <2>1, AtRole DEF Types
<1>3. NewCli \in CliIds /\ NewCli \notin Born
  <2>1. NewCli <= MaxClis /\ Ordered
    BY DEF SpawnsCli, Shape
  <2> QED
    BY <2>1, New, Bounds DEF CliIds
<1>4. PICK b \in Spawns(s) :
        /\ Tried(b)
        /\ cli' = [cli EXCEPT ![NewCli] = b.child]
        /\ sess' = [sess EXCEPT ![s].cli = NewCli,
                                ![s].lock = IF At(c, "spawn") \/ ~b.ok THEN None ELSE c]
        /\ IF ~b.ok THEN Step(c, GivesUp(c))
           ELSE IF At(c, "revive") THEN Go(c, "drain")
           ELSE IF call[c].kind = "turn" THEN Go(c, "enter") ELSE Step(c, NextRole(c))
  BY DEF SpawnsCli
<1>5. /\ b.child \in Clis /\ b.child.role = call[c].role /\ b.child.inbox = <<>>
      /\ b.child.out = <<>> /\ b.child.kept = "no" /\ b.child.fate # "unborn"
      /\ b.ok => b.child.fate = "up"
      /\ ~b.ok => faults # MaxFaults
  BY <1>2, SpawnIs
<1>6. cli' \in [CliIds -> Clis]
  BY <1>3, <1>4, <1>5 DEF Shape, Types
<1>7. /\ sess'[s] = [role |-> call[c].role, cli |-> NewCli,
                     lock |-> IF call[c].pc = "spawn" \/ ~b.ok THEN None ELSE c]
      /\ \A t \in SessIds : t # s => sess'[t] = sess[t]
      /\ sess' \in [SessIds -> Sessions]
  <2>1. sess \in [SessIds -> Sessions]
    BY <1>2 DEF Types
  <2>2. PICK l \in Holders : l = IF At(c, "spawn") \/ ~b.ok THEN None ELSE c
    BY DEF Holders
  <2>3. sess' = [sess EXCEPT ![s].cli = NewCli, ![s].lock = l]
    BY <1>4, <2>2
  <2>4. sess'[s] = [role |-> sess[s].role, cli |-> NewCli, lock |-> l]
    BY <1>2, <2>1, <2>3 DEF Sessions
  <2>5. sess'[s] \in Sessions /\ \A t \in SessIds : t # s => sess'[t] = sess[t]
    BY <1>2, <1>3, <2>1, <2>3, <2>4 DEF Sessions
  <2>6. sess' \in [SessIds -> Sessions]
    BY <1>2, <2>1, <2>3, <2>5
  <2> QED
    BY <1>2, <2>2, <2>4, <2>5, <2>6 DEF At
<1>8. faults' \in 0..MaxFaults
  <2>1. faults \in 0..MaxFaults
    BY <1>2 DEF Types
  <2>2. CASE b.ok
    <3>1. faults' = faults + 0
      BY <1>4, <2>2, Zenon DEF Tried
    <3> QED
      BY <2>1, <3>1
  <2>3. CASE ~b.ok
    <3>1. faults' = faults + 1 /\ faults # MaxFaults
      BY <1>4, <1>5, <2>3, Zenon DEF Tried
    <3> QED
      BY <2>1, <3>1, Bounds
  <2> QED
    BY <2>2, <2>3
<1>9. \E new \in Calls :
        /\ Step(c, new) /\ Fits(new) /\ HasSession(new)
        /\ \/ ~b.ok /\ new = GivesUp(c) /\ new.pc \in {"lookup", "sample", "ended"}
           \/ /\ b.ok /\ call[c].pc = "revive"
              /\ new = [call[c] EXCEPT !.pc = "drain"] /\ new.pc = "drain"
           \/ /\ b.ok /\ call[c].pc = "spawn" /\ call[c].kind = "turn"
              /\ new = [call[c] EXCEPT !.pc = "enter"] /\ new.pc = "enter"
           \/ /\ b.ok /\ call[c].pc = "spawn" /\ call[c].kind # "turn" /\ new = NextRole(c)
              /\ new.pc \in {"lookup", "ended"}
  <2>1. CASE ~b.ok
    BY <1>1, <1>4, <2>1, GivesUpFits
  <2>2. CASE b.ok /\ call[c].pc = "revive"
    <3>1. Go(c, "drain")
      BY <1>4, <2>2 DEF At
    <3>2. PICK new \in Calls : /\ Step(c, new) /\ new.pc = "drain" /\ Fits(new) /\ HasSession(new)
                               /\ new = [call[c] EXCEPT !.pc = "drain"]
      BY <1>1, <1>2, <2>2, <3>1, GoesFit DEF Pcs
    <3> QED
      BY <2>2, <3>2
  <2>3. CASE b.ok /\ call[c].pc = "spawn" /\ call[c].kind = "turn"
    <3>1. Go(c, "enter")
      BY <1>4, <2>3 DEF At
    <3>2. PICK new \in Calls : /\ Step(c, new) /\ new.pc = "enter" /\ Fits(new) /\ HasSession(new)
                               /\ new = [call[c] EXCEPT !.pc = "enter"]
      BY <1>1, <1>2, <2>3, <3>1, GoesFit DEF Pcs
    <3> QED
      BY <2>3, <3>2
  <2>4. CASE b.ok /\ call[c].pc = "spawn" /\ call[c].kind # "turn"
    <3>1. Step(c, NextRole(c))
      BY <1>4, <2>4 DEF At
    <3> QED
      BY <1>1, <2>4, <3>1, NextRoleFits
  <2> QED
    BY <1>1, <2>1, <2>2, <2>3, <2>4
<1>10. PICK new \in Calls :
        /\ Step(c, new) /\ Fits(new) /\ HasSession(new)
        /\ \/ ~b.ok /\ new = GivesUp(c) /\ new.pc \in {"lookup", "sample", "ended"}
           \/ /\ b.ok /\ call[c].pc = "revive"
              /\ new = [call[c] EXCEPT !.pc = "drain"] /\ new.pc = "drain"
           \/ /\ b.ok /\ call[c].pc = "spawn" /\ call[c].kind = "turn"
              /\ new = [call[c] EXCEPT !.pc = "enter"] /\ new.pc = "enter"
           \/ /\ b.ok /\ call[c].pc = "spawn" /\ call[c].kind # "turn" /\ new = NextRole(c)
              /\ new.pc \in {"lookup", "ended"}
  BY <1>9
<1>11. \/ new = GivesUp(c) /\ new.pc \in {"lookup", "sample", "ended"}
       \/ /\ b.child.fate = "up" /\ call[c].pc = "revive"
          /\ new = [call[c] EXCEPT !.pc = "drain"] /\ new.pc = "drain"
       \/ /\ b.child.fate = "up" /\ call[c].pc = "spawn" /\ call[c].kind = "turn"
          /\ new = [call[c] EXCEPT !.pc = "enter"] /\ new.pc = "enter"
       \/ /\ b.child.fate = "up" /\ call[c].pc = "spawn" /\ call[c].kind # "turn"
          /\ new = NextRole(c) /\ new.pc \in {"lookup", "ended"}
  BY <1>5, <1>10
<1>12. sess'[s] = [role |-> call[c].role, cli |-> NewCli,
                   lock |-> IF new.pc = "drain" THEN c ELSE None]
  <2>1. CASE new.pc = "drain"
    BY <1>7, <1>10, <2>1
  <2>2. CASE new.pc # "drain"
    BY <1>7, <1>10, <2>2, <1>1
  <2> QED
    BY <2>1, <2>2
<1>13. cli' = [cli EXCEPT ![NewCli] = b.child]
  BY <1>4
<1>14. /\ sess'[s].role = call[c].role /\ sess'[s].cli = NewCli
       /\ new.pc \in {"lookup", "sample", "ended", "drain", "enter"}
  <2>1. sess'[s].role = call[c].role /\ sess'[s].cli = NewCli
    BY <1>12
  <2>2. new.pc \in {"lookup", "sample", "ended", "drain", "enter"}
    BY <1>11
  <2> QED
    BY <2>1, <2>2
<1>15. /\ b.child.role = call[c].role /\ b.child.inbox = <<>>
       /\ b.child.out = <<>> /\ b.child.kept = "no" /\ b.child.fate # "unborn"
       /\ cli' = [cli EXCEPT ![NewCli] = b.child]
       /\ sess'[s] = [role |-> call[c].role, cli |-> NewCli,
                      lock |-> IF new.pc = "drain" THEN c ELSE None]
       /\ sess'[s].role = call[c].role /\ sess'[s].cli = NewCli
       /\ \A t \in SessIds : t # s => sess'[t] = sess[t]
       /\ sess' \in [SessIds -> Sessions] /\ cli' \in [CliIds -> Clis]
       /\ faults' \in 0..MaxFaults
       /\ new.pc \in {"lookup", "sample", "ended", "drain", "enter"}
       /\ Step(c, new) /\ Fits(new) /\ HasSession(new)
  BY <1>5, <1>6, <1>7, <1>8, <1>10, <1>12, <1>13, <1>14
<1>16. b.child \in Clis
  BY <1>5
<1> QED
  BY <1>1, <1>2, <1>3, <1>11, <1>15, <1>16, Zenon

LEMMA SpawnsCliShape == ASSUME Shape, NEW c \in CallIds, SpawnsCli(c) PROVE Shape'
<1> DEFINE s == call[c].s
<1>1. /\ call[c].pc \in SessPcs /\ s \in SessIds /\ sess[s].role = call[c].role
      /\ NewCli \in CliIds
  BY SpawnsCliIs
<1>2. PICK child \in Clis, new \in Calls :
        /\ child.role = call[c].role /\ child.fate # "unborn"
        /\ cli' = [cli EXCEPT ![NewCli] = child]
        /\ sess'[s].role = call[c].role /\ sess'[s].cli = NewCli
        /\ \A t \in SessIds : t # s => sess'[t] = sess[t]
        /\ sess' \in [SessIds -> Sessions] /\ cli' \in [CliIds -> Clis]
        /\ faults' \in 0..MaxFaults
        /\ Step(c, new) /\ Fits(new) /\ HasSession(new)
        /\ new.pc \in {"lookup", "sample", "ended", "drain", "enter"}
  BY SpawnsCliIs
<1>3. /\ \A k \in CliIds \ {NewCli} : cli'[k] = cli[k]
      /\ cli'[NewCli] = child
  BY <1>1, <1>2 DEF Shape, Types
<1>4. \A t \in SessIds : sess'[t].role = sess[t].role
  BY <1>1, <1>2
<1> QED
  BY <1>1, <1>2, <1>3, <1>4, NewCliShape DEF SpawnsCli, locks

LEMMA KillsLateIs ==
  ASSUME Shape, NEW c \in CallIds, KillsLate(c)
  PROVE  /\ call[c].pc = "kill" /\ call[c].pc \in LockPcs /\ call[c].pc \in SessPcs
         /\ call[c].pc \in RolePcs /\ call[c].kind = "turn" /\ call[c].role \in Roles
         /\ call[c].s \in SessIds /\ call[c].s \in Made
         /\ \E o \in Kills(c, call[c].s), new \in Calls :
              /\ cli' = Dead(call[c].s, o, "here") /\ Counted(o)
              /\ sess' \in [SessIds -> Sessions]
              /\ sess'[call[c].s] = [role |-> call[c].role, lock |-> None,
                                     cli |-> Forgotten(call[c].s, o)]
              /\ \A t \in SessIds : t # call[c].s => sess'[t] = sess[t]
              /\ Step(c, new) /\ Fits(new) /\ HasSession(new) /\ HasSession(new)'
              /\ new.kind = "turn" /\ new.role = call[c].role /\ new.heard = call[c].heard
              /\ \/ /\ o.told = "raised" /\ new.pc = "ended"
                    /\ turnLock' = [turnLock EXCEPT ![call[c].role] = None]
                 \/ o.told # "raised" /\ new.pc = "sample" /\ turnLock' = turnLock
<1>1. /\ call[c].pc = "kill" /\ call[c].pc \in LockPcs /\ call[c].pc \in SessPcs
      /\ call[c].pc \in RolePcs
  BY DEF KillsLate, At, SessPcs, RolePcs, LockPcs
<1>2. call[c].kind = "turn" /\ call[c].role \in Roles /\ call[c].s \in SessIds
      /\ call[c].s \in Made /\ sess[call[c].s].role = call[c].role /\ Types /\ "here" \in Marks
  BY <1>1, AtRole, AtLock DEF Shape, Marks
<1>0. PICK s, r : s = call[c].s /\ r = call[c].role
  OBVIOUS
<1>3. PICK o \in Kills(c, s) :
        /\ cli' = Dead(s, o, "here") /\ Counted(o)
        /\ sess' = [sess EXCEPT ![s].lock = None, ![s].cli = Forgotten(s, o)]
        /\ IF o.told = "raised"
           THEN Step(c, Ends(c, "error")) /\ turnLock' = [turnLock EXCEPT ![r] = None]
           ELSE Step(c, GivesUp(c)) /\ UNCHANGED turnLock
  BY <1>0 DEF KillsLate
<1>4. Forgotten(s, o) \in CliIds \union {None}
  BY <1>0, <1>2, KillIs DEF Types, Sessions
<1>5. /\ sess' \in [SessIds -> Sessions]
      /\ sess'[s] = [role |-> r, lock |-> None, cli |-> Forgotten(s, o)]
      /\ \A t \in SessIds : t # s => sess'[t] = sess[t]
  <2>1. sess[s] \in Sessions /\ sess \in [SessIds -> Sessions]
    BY <1>0, <1>2 DEF Types
  <2>2. sess'[s] = [role |-> r, lock |-> None, cli |-> Forgotten(s, o)]
    BY <1>0, <1>2, <1>3, <2>1 DEF Sessions
  <2>3. sess'[s] \in Sessions
    BY <1>0, <1>2, <1>4, <2>2 DEF Sessions, Holders
  <2> QED
    BY <1>0, <1>2, <1>3, <2>1, <2>2, <2>3
<1>6. \E new \in Calls :
        /\ Step(c, new) /\ Fits(new) /\ HasSession(new) /\ HasSession(new)'
        /\ new.kind = "turn" /\ new.role = r /\ new.heard = call[c].heard
        /\ \/ o.told = "raised" /\ new.pc = "ended" /\ turnLock' = [turnLock EXCEPT ![r] = None]
           \/ o.told # "raised" /\ new.pc = "sample" /\ turnLock' = turnLock
  <2>1. CASE o.told = "raised"
    <3>1. PICK new : new = Ends(c, "error")
      OBVIOUS
    <3>2. /\ new \in Calls /\ new.pc = "ended" /\ Fits(new) /\ HasSession(new)
          /\ HasSession(new)'
      BY <1>1, <3>1, EndsFits DEF Told
    <3>3. new.kind = "turn" /\ new.role = r /\ new.heard = call[c].heard
      BY <1>0, <1>2, <3>1, EndsIs DEF Told
    <3> QED
      BY <1>3, <2>1, <3>1, <3>2, <3>3
  <2>2. CASE o.told # "raised"
    <3>1. PICK new : new = GivesUp(c)
      OBVIOUS
    <3>2. new \in Calls /\ Fits(new) /\ HasSession(new) /\ HasSession(new)'
      BY <1>1, <3>1, GivesUpFits
    <3>3. new = [call[c] EXCEPT !.pc = "sample", !.answer = "failed"] /\ call[c] \in Calls
      BY <1>2, <3>1, GivesUpIs DEF Types
    <3>4. new.pc = "sample" /\ new.kind = "turn" /\ new.role = r /\ new.heard = call[c].heard
      BY <1>0, <1>2, <3>3 DEF Calls
    <3> QED
      BY <1>3, <2>2, <3>1, <3>2, <3>4
  <2> QED
    BY <2>1, <2>2
<1> QED
  BY <1>0, <1>1, <1>2, <1>3, <1>5, <1>6

LEMMA KillsLateShape == ASSUME Shape, NEW c \in CallIds, KillsLate(c) PROVE Shape'
<1>0. PICK s, r : s = call[c].s /\ r = call[c].role
  OBVIOUS
<1>1. /\ call[c].pc = "kill" /\ s \in SessIds /\ s \in Made /\ r \in Roles /\ "here" \in Marks
      /\ sess[s].role = r
  BY <1>0, KillsLateIs, AtRole DEF Marks
<1>2. PICK o \in Kills(c, s), new \in Calls :
        /\ cli' = Dead(s, o, "here") /\ Counted(o) /\ sess' \in [SessIds -> Sessions]
        /\ sess'[s] = [role |-> r, lock |-> None, cli |-> Forgotten(s, o)]
        /\ \A t \in SessIds : t # s => sess'[t] = sess[t]
        /\ Step(c, new) /\ Fits(new) /\ HasSession(new)' /\ new.pc \in {"ended", "sample"}
        /\ turnLock' = [turnLock EXCEPT ![r] = None] \/ turnLock' = turnLock
  BY <1>0, KillsLateIs
<1>3. Forgotten(s, o) \in {None, sess[s].cli}
  BY <1>1, KillIs
<1>4. \A t \in SessIds : /\ sess'[t].role = sess[t].role
                         /\ sess'[t].cli \in {None, sess[t].cli}
                         /\ t \notin Made => sess'[t] = sess[t]
  BY <1>1, <1>2, <1>3
<1>5. turnLock' \in [Roles -> Holders]
  BY <1>2 DEF Shape, Types, Holders
<1>6. UNCHANGED <<script, waiting, initialized, regLock, registry, abandoned>>
  BY DEF KillsLate
<1>7. RegHeld'
  BY <1>1, <1>2, <1>6, RegHeldStep
<1>8. regLock' \in Holders
  BY <1>6 DEF Shape, Types
<1> QED
  BY <1>1, <1>2, <1>4, <1>5, <1>6, <1>7, <1>8, KillShape

LEMMA ReplacesIs ==
  ASSUME Shape, NEW c \in CallIds, Replaces(c)
  PROVE  /\ call[c].pc = "respawn" /\ call[c].pc \in LockPcs /\ call[c].pc \in SessPcs
         /\ call[c].pc \in RolePcs /\ call[c].kind = "turn" /\ call[c].role \in Roles
         /\ call[c].s \in SessIds /\ call[c].s \in Made /\ sess[call[c].s].role = call[c].role
         /\ NewCli \in CliIds /\ NewCli \notin Born
         /\ \E new \in Calls :
              /\ Step(c, new) /\ new.pc = "reap" /\ Fits(new) /\ HasSession(new)
              /\ new = [call[c] EXCEPT !.pc = "reap"]
         /\ \E o \in Kills(c, call[c].s) :
              \/ o.told = "raised" /\ cli' = Dead(call[c].s, o, "here") /\ Counted(o) /\ sess' = sess
              \/ \E child \in Clis, d \in [CliIds -> Clis] :
                   /\ o.told # "raised" /\ d = Dead(call[c].s, o, "replaced")
                   /\ child.role = call[c].role /\ child.inbox = <<>> /\ child.out = <<>>
                   /\ child.kept = "no" /\ child.fate # "unborn"
                   /\ cli' = [d EXCEPT ![NewCli] = child]
                   /\ faults' \in 0..MaxFaults
                   /\ sess' = [sess EXCEPT ![call[c].s].cli = NewCli]
<1>1. /\ call[c].pc = "respawn" /\ call[c].pc \in LockPcs /\ call[c].pc \in SessPcs
      /\ call[c].pc \in RolePcs
  BY DEF Replaces, At, SessPcs, RolePcs, LockPcs
<1>2. call[c].kind = "turn" /\ call[c].role \in Roles /\ call[c].s \in SessIds
      /\ call[c].s \in Made /\ sess[call[c].s].role = call[c].role /\ call[c].left = {}
  BY <1>1, AtRole, AtLock
<1>3. Types /\ "replaced" \in Marks /\ Ordered
  BY DEF Shape, Marks
<1>4. NewCli \in CliIds /\ NewCli \notin Born
  <2>1. NewCli <= MaxClis
    BY DEF Replaces
  <2> QED
    BY <1>3, <2>1, New, Bounds DEF CliIds
<1>5. PICK new \in Calls : /\ Step(c, new) /\ new.pc = "reap" /\ Fits(new) /\ HasSession(new)
                           /\ new = [call[c] EXCEPT !.pc = "reap"]
  <2>1. Go(c, "reap")
    BY DEF Replaces
  <2> QED
    BY <1>1, <1>2, <2>1, GoesFit DEF Pcs
<1>6. PICK s : s = call[c].s
  OBVIOUS
<1>7. PICK o \in Kills(c, s) :
        IF o.told = "raised"
        THEN /\ cli' = Dead(s, o, "here") /\ Counted(o) /\ sess' = sess
        ELSE \E b \in Spawns(s) :
             /\ cli' = [Dead(s, o, "replaced") EXCEPT ![NewCli] = b.child]
             /\ faults' = faults + (IF o.told = "killed" THEN 0 ELSE 1) + (IF b.ok THEN 0 ELSE 1)
             /\ faults' <= MaxFaults
             /\ sess' = [sess EXCEPT ![s].cli = NewCli]
  BY <1>6 DEF Replaces
<1>8. ASSUME o.told # "raised"
      PROVE  \E child \in Clis, d \in [CliIds -> Clis] :
               /\ o.told # "raised" /\ d = Dead(s, o, "replaced")
               /\ child.role = call[c].role /\ child.inbox = <<>> /\ child.out = <<>>
               /\ child.kept = "no" /\ child.fate # "unborn"
               /\ cli' = [d EXCEPT ![NewCli] = child]
               /\ faults' \in 0..MaxFaults
               /\ sess' = [sess EXCEPT ![s].cli = NewCli]
  <2>1. PICK b \in Spawns(s) :
          /\ cli' = [Dead(s, o, "replaced") EXCEPT ![NewCli] = b.child]
          /\ faults' = faults + (IF o.told = "killed" THEN 0 ELSE 1) + (IF b.ok THEN 0 ELSE 1)
          /\ faults' <= MaxFaults
          /\ sess' = [sess EXCEPT ![s].cli = NewCli]
    BY <1>7, <1>8
  <2>2. /\ b.child \in Clis /\ b.child.role = call[c].role /\ b.child.inbox = <<>>
        /\ b.child.out = <<>> /\ b.child.kept = "no" /\ b.child.fate # "unborn"
    BY <1>2, <1>3, <1>6, SpawnIs
  <2>3. PICK d : d = Dead(s, o, "replaced")
    OBVIOUS
  <2>4. d \in [CliIds -> Clis]
    BY <1>2, <1>3, <1>6, <2>3, DeadIs
  <2>5. faults' \in 0..MaxFaults
    <3>1. \E i \in {0, 1}, j \in {0, 1} : faults' = faults + i + j
      BY <2>1, Zenon
    <3>2. faults \in 0..MaxFaults
      BY <1>3 DEF Types
    <3> QED
      BY <2>1, <3>1, <3>2, Bounds
  <2> QED
    BY <1>8, <2>1, <2>2, <2>3, <2>4, <2>5
<1> QED
  BY <1>1, <1>2, <1>4, <1>5, <1>6, <1>7, <1>8

LEMMA ReplacesShape == ASSUME Shape, NEW c \in CallIds, Replaces(c) PROVE Shape'
<1>0. PICK s : s = call[c].s
  OBVIOUS
<1>1. /\ call[c].pc = "respawn" /\ call[c].pc \in SessPcs /\ s \in SessIds /\ s \in Made
      /\ sess[s].role = call[c].role /\ NewCli \in CliIds /\ NewCli \notin Born
      /\ "here" \in Marks /\ "replaced" \in Marks
  BY <1>0, ReplacesIs DEF Marks
<1>2. PICK new \in Calls : Step(c, new) /\ new.pc = "reap" /\ Fits(new) /\ HasSession(new)
  BY ReplacesIs
<1>3. PICK o \in Kills(c, s) :
        \/ o.told = "raised" /\ cli' = Dead(s, o, "here") /\ Counted(o) /\ sess' = sess
        \/ \E child \in Clis, d \in [CliIds -> Clis] :
             /\ o.told # "raised" /\ d = Dead(s, o, "replaced")
             /\ child.role = call[c].role /\ child.fate # "unborn"
             /\ cli' = [d EXCEPT ![NewCli] = child]
             /\ faults' \in 0..MaxFaults
             /\ sess' = [sess EXCEPT ![s].cli = NewCli]
  BY <1>0, ReplacesIs
<1>4. UNCHANGED <<script, waiting, initialized, turnLock, regLock, registry, abandoned>>
  BY DEF Replaces, locks
<1>5. HasSession(new)' /\ RegHeld'
  <2>1. \A t \in SessIds : sess'[t].role = sess[t].role
    <3>1. sess \in [SessIds -> Sessions]
      BY DEF Shape, Types
    <3> QED
      BY <1>1, <1>3, <3>1 DEF Sessions
  <2>2. HasSession(new)'
    BY <1>2, <1>4, <2>1 DEF HasSession
  <2>3. RegHeld'
    BY <1>1, <1>2, <1>4, RegHeldStep
  <2> QED
    BY <2>2, <2>3
<1>6. CASE o.told = "raised" /\ cli' = Dead(s, o, "here") /\ Counted(o) /\ sess' = sess
  <2>1. sess' \in [SessIds -> Sessions] /\ turnLock' \in [Roles -> Holders] /\ regLock' \in Holders
    BY <1>4, <1>6 DEF Shape, Types
  <2> QED
    BY <1>1, <1>2, <1>4, <1>5, <1>6, <2>1, KillShape
<1>7. ASSUME NEW child \in Clis, NEW d \in [CliIds -> Clis],
             d = Dead(s, o, "replaced"), child.role = call[c].role, child.fate # "unborn",
             cli' = [d EXCEPT ![NewCli] = child], faults' \in 0..MaxFaults,
             sess' = [sess EXCEPT ![s].cli = NewCli]
      PROVE  Shape'
  <2>1. \A k \in CliIds : /\ d[k].role = cli[k].role
                          /\ d[k].fate = "unborn" <=> cli[k].fate = "unborn"
    BY <1>1, <1>7, KillIs
  <2>2. /\ cli' \in [CliIds -> Clis] /\ cli'[NewCli] = child
        /\ \A k \in CliIds \ {NewCli} : cli'[k] = d[k]
    BY <1>1, <1>7
  <2>3. /\ sess' \in [SessIds -> Sessions] /\ sess'[s].cli = NewCli
        /\ sess'[s].role = sess[s].role
        /\ \A t \in SessIds : t # s => sess'[t] = sess[t]
    <3>1. sess \in [SessIds -> Sessions] /\ sess[s] \in Sessions
      BY <1>1 DEF Shape, Types
    <3> QED
      BY <1>1, <1>7, <3>1 DEF Sessions
  <2>4. NewCli <= MaxClis
    BY DEF Replaces
  <2> QED
    BY <1>0, <1>1, <1>2, <1>4, <1>7, <2>1, <2>2, <2>3, <2>4, NewCliShape
<1> QED
  BY <1>3, <1>6, <1>7

LEMMA ShutsIs ==
  ASSUME Shape, NEW c \in CallIds, Shuts(c)
  PROVE  /\ call[c].pc = "shut" /\ call[c].kind = "teardown" /\ regLock = None /\ regLock' = c
         /\ \E new \in Calls :
              /\ Step(c, new) /\ new.pc = "shutting" /\ new.kind = "teardown"
              /\ new.role = call[c].role /\ new.left = Listed /\ new.heard = call[c].heard
              /\ new.s = call[c].s /\ new.answer = call[c].answer
              /\ new.saw = {k \in CliIds : Up(k) /\ \E r \in Listed : sess[registry[r]].cli = k}
<1>1. /\ call[c].pc = "shut" /\ call[c].kind = "teardown" /\ call[c] \in Calls
  BY DEF Shuts, At, Shape, Fits, Types
<1>2. PICK saw : saw = {k \in CliIds : Up(k) /\ \E r \in Listed : sess[registry[r]].cli = k}
  OBVIOUS
<1>3. saw \in SUBSET CliIds /\ Listed \in SUBSET Roles
  BY <1>2 DEF Listed
<1>4. PICK new : new = [call[c] EXCEPT !.pc = "shutting", !.left = Listed, !.saw = saw]
  OBVIOUS
<1>5. /\ new \in Calls /\ new.pc = "shutting" /\ new.kind = "teardown"
      /\ new.role = call[c].role /\ new.left = Listed /\ new.heard = call[c].heard
      /\ new.s = call[c].s /\ new.answer = call[c].answer /\ new.saw = saw
  BY <1>1, <1>3, <1>4 DEF Calls, Pcs
<1>6. Step(c, new)
  BY <1>2, <1>4 DEF Shuts
<1> QED
  BY <1>1, <1>2, <1>5, <1>6 DEF Shuts

LEMMA ShutsShape == ASSUME Shape, NEW c \in CallIds, Shuts(c) PROVE Shape'
<1>1. /\ call[c].pc = "shut" /\ regLock = None /\ regLock' = c
  BY ShutsIs
<1>2. PICK new \in Calls :
        /\ Step(c, new) /\ new.pc = "shutting" /\ new.kind = "teardown"
        /\ new.role = call[c].role /\ new.left = Listed
  BY ShutsIs
<1>3. UNCHANGED <<script, waiting, initialized, turnLock, registry, sess, cli, faults, abandoned>>
  BY DEF Shuts, world
<1>4. call[c].role \in Roles
  BY <1>1 DEF Shape, Fits
<1>5. Fits(new) /\ HasSession(new)
  BY <1>2, <1>4 DEF Fits, HasSession, Listed, TurnPcs, LockPcs, SessPcs, RolePcs
<1>6. HasSession(new)'
  BY <1>3, <1>5 DEF HasSession
<1>7. RegHeld'
  BY <1>1, <1>2, RegHeldStep
<1>8. Types'
  BY <1>1, <1>2, <1>3, StepIs DEF Shape, Types, Holders
<1>9. Grows /\ Numbered(Made)' /\ Numbered(Born)'
  <2>1. \A r \in Roles : registry'[r] \in {None, registry[r]}
    BY <1>3
  <2> QED
    BY <1>3, <2>1, SameObjects
<1> QED
  BY <1>1, <1>2, <1>3, <1>5, <1>6, <1>7, <1>8, <1>9, ShapeStep

LEMMA ShutsOneIs ==
  ASSUME Shape, NEW c \in CallIds, NEW r \in Roles, ShutsOne(c, r), NEW s, s = registry[r]
  PROVE  /\ call[c].pc = "shutting" /\ call[c].kind = "teardown" /\ regLock = c /\ r \in call[c].left
         /\ s \in SessIds /\ s \in Made /\ sess[s].role = r
         /\ sess[s].lock = None
         /\ \E o \in Kills(c, s), new \in Calls :
              /\ cli' = Dead(s, o, "torn") /\ Counted(o)
              /\ sess' \in [SessIds -> Sessions]
              /\ sess'[s] = [role |-> r, lock |-> None,
                                       cli |-> Forgotten(s, o)]
              /\ \A t \in SessIds : t # s => sess'[t] = sess[t]
              /\ Step(c, new) /\ Fits(new) /\ HasSession(new)'
              /\ new.kind = "teardown" /\ new.role = call[c].role /\ new.heard = call[c].heard
              /\ new.saw = call[c].saw
              /\ \/ /\ o.told = "raised" /\ new.pc = "ended" /\ new.answer = "error"
                    /\ new.left = {} /\ regLock' = None
                 \/ /\ o.told # "raised" /\ new.pc = "shutting" /\ regLock' = regLock
                    /\ new.left = call[c].left \ {r} /\ new.s = call[c].s
                    /\ new.answer = IF o.told = "killed" THEN call[c].answer ELSE "failed"
<1>1. /\ call[c].pc = "shutting" /\ call[c] \in Calls /\ r \in call[c].left
  BY DEF ShutsOne, At, Shape, Types
<1>2. /\ call[c].kind = "teardown" /\ call[c].role \in Roles /\ registry[r] # None
      /\ regLock = c
  BY <1>1 DEF Shape, Fits, HasSession, RegHeld, Calls
<1>0. s = registry[r]
  OBVIOUS
<1>3. s \in SessIds /\ s \in Made /\ sess[s].role = r /\ Types /\ "torn" \in Marks
  BY <1>0, <1>2, MadeIs DEF Shape, Owned, Made, Marks
<1>4. PICK o \in Kills(c, s) :
        /\ cli' = Dead(s, o, "torn") /\ Counted(o)
        /\ sess' = [sess EXCEPT ![s].cli = Forgotten(s, o)]
        /\ IF o.told = "raised"
           THEN Step(c, Ends(c, "error")) /\ regLock' = None
           ELSE /\ Step(c, [call[c] EXCEPT !.left = @ \ {r}, !.answer = Verdict(c, o)])
                /\ UNCHANGED regLock
  BY <1>0 DEF ShutsOne
<1>5. sess[s].lock = None
  BY <1>0 DEF ShutsOne
<1>6. Forgotten(s, o) \in CliIds \union {None}
  BY <1>3 DEF Forgotten, Types, Sessions
<1>7. /\ sess' \in [SessIds -> Sessions]
      /\ sess'[s] = [role |-> r, lock |-> None, cli |-> Forgotten(s, o)]
      /\ \A t \in SessIds : t # s => sess'[t] = sess[t]
  <2>1. sess[s] \in Sessions /\ sess \in [SessIds -> Sessions]
    BY <1>3 DEF Types
  <2>2. sess'[s] = [role |-> r, lock |-> None, cli |-> Forgotten(s, o)]
    BY <1>3, <1>4, <1>5, <2>1 DEF Sessions
  <2>3. sess'[s] \in Sessions
    BY <1>2, <1>6, <2>2 DEF Sessions, Holders
  <2> QED
    BY <1>3, <1>4, <2>1, <2>2, <2>3
<1>8. UNCHANGED registry
  BY DEF ShutsOne
<1>9. \E new \in Calls :
        /\ Step(c, new) /\ Fits(new) /\ HasSession(new)'
        /\ new.kind = "teardown" /\ new.role = call[c].role /\ new.heard = call[c].heard
        /\ new.saw = call[c].saw
        /\ \/ /\ o.told = "raised" /\ new.pc = "ended" /\ new.answer = "error"
              /\ new.left = {} /\ regLock' = None
           \/ /\ o.told # "raised" /\ new.pc = "shutting" /\ regLock' = regLock
              /\ new.left = call[c].left \ {r} /\ new.s = call[c].s
              /\ new.answer = IF o.told = "killed" THEN call[c].answer ELSE "failed"
  <2>1. CASE o.told = "raised"
    <3>1. PICK new : new = Ends(c, "error")
      OBVIOUS
    <3>0. "error" \in Told
      BY DEF Told
    <3>2. /\ new \in Calls /\ new.pc = "ended" /\ Fits(new) /\ HasSession(new)'
      BY <1>1, <3>0, <3>1, EndsFits
    <3>3. /\ new.kind = "teardown" /\ new.role = call[c].role /\ new.heard = call[c].heard
          /\ new.saw = call[c].saw /\ new.answer = "error" /\ new.left = {}
      <4>1. Types
        BY <1>3
      <4>2. new.kind = call[c].kind /\ new.role = call[c].role /\ new.left = {}
        BY <4>1, <3>0, <3>1, EndsIs
      <4>3. new.heard = call[c].heard /\ new.saw = call[c].saw
        BY <4>1, <3>0, <3>1, EndsIs
      <4>4. new.answer = "error"
        BY <4>1, <3>0, <3>1, EndsIs
      <4> QED
        BY <1>2, <4>2, <4>3, <4>4
    <3> QED
      BY <1>4, <2>1, <3>1, <3>2, <3>3
  <2>2. CASE o.told # "raised"
    <3>1. PICK a \in Told : a = Verdict(c, o) /\ a = IF o.told = "killed" THEN call[c].answer ELSE "failed"
      BY <1>1 DEF Verdict, Calls, Told
    <3>2. PICK new : new = [call[c] EXCEPT !.left = @ \ {r}, !.answer = a]
      OBVIOUS
    <3>3. /\ new \in Calls /\ new.pc = "shutting" /\ new.left = call[c].left \ {r}
          /\ new.kind = "teardown" /\ new.role = call[c].role /\ new.heard = call[c].heard
          /\ new.saw = call[c].saw /\ new.answer = a /\ new.s = call[c].s
      BY <1>1, <1>2, <3>1, <3>2 DEF Calls
    <3>4. Step(c, new) /\ regLock' = regLock
      BY <1>4, <2>2, <3>1, <3>2
    <3>5. Fits(new)
      BY <1>2, <3>3 DEF Fits, TurnPcs, LockPcs, SessPcs, RolePcs
    <3>6. HasSession(new)'
      <4>1. \A q \in new.left : registry[q] # None
        BY <3>3, <1>1 DEF Shape, HasSession
      <4> QED
        BY <1>8, <3>3, <4>1 DEF HasSession, SessPcs, RolePcs
    <3> QED
      BY <2>2, <3>1, <3>3, <3>4, <3>5, <3>6
  <2> QED
    BY <2>1, <2>2
<1>10. PICK new \in Calls :
        /\ Step(c, new) /\ Fits(new) /\ HasSession(new)'
        /\ new.kind = "teardown" /\ new.role = call[c].role /\ new.heard = call[c].heard
        /\ new.saw = call[c].saw
        /\ \/ /\ o.told = "raised" /\ new.pc = "ended" /\ new.answer = "error"
              /\ new.left = {} /\ regLock' = None
           \/ /\ o.told # "raised" /\ new.pc = "shutting" /\ regLock' = regLock
              /\ new.left = call[c].left \ {r} /\ new.s = call[c].s
              /\ new.answer = IF o.told = "killed" THEN call[c].answer ELSE "failed"
  BY <1>9
<1> QED
  BY <1>1, <1>2, <1>3, <1>4, <1>5, <1>7, <1>10, Zenon

LEMMA ShutsOneShape ==
  ASSUME Shape, NEW c \in CallIds, NEW r \in Roles, ShutsOne(c, r) PROVE Shape'
<1>0. PICK s : s = registry[r]
  OBVIOUS
<1>1. /\ call[c].pc = "shutting" /\ s \in SessIds /\ s \in Made /\ sess[s].role = r
      /\ regLock = c /\ "torn" \in Marks
  BY <1>0, ShutsOneIs DEF Marks
<1>2. PICK o \in Kills(c, s), new \in Calls :
        /\ cli' = Dead(s, o, "torn") /\ Counted(o) /\ sess' \in [SessIds -> Sessions]
        /\ sess'[s] = [role |-> r, lock |-> None, cli |-> Forgotten(s, o)]
        /\ \A t \in SessIds : t # s => sess'[t] = sess[t]
        /\ Step(c, new) /\ Fits(new) /\ HasSession(new)'
        /\ (new.pc = "ended" /\ regLock' = None) \/ (new.pc = "shutting" /\ regLock' = regLock)
  BY <1>0, ShutsOneIs
<1>3. Forgotten(s, o) \in {None, sess[s].cli}
  BY DEF Forgotten
<1>4. ASSUME NEW t \in SessIds
      PROVE  /\ sess'[t].role = sess[t].role
             /\ sess'[t].cli \in {None, sess[t].cli}
             /\ t \notin Made => sess'[t] = sess[t]
  <2>1. sess'[s].role = sess[s].role /\ sess'[s].cli = Forgotten(s, o)
    BY <1>1, <1>2
  <2> QED
    BY <1>1, <1>2, <1>3, <2>1
<1>6. UNCHANGED <<script, waiting, initialized, turnLock, registry, abandoned>>
  BY DEF ShutsOne
<1>7. RegHeld'
  BY <1>1, <1>2, RegHeldStep
<1>8. regLock' \in Holders /\ turnLock' \in [Roles -> Holders]
  BY <1>2, <1>6 DEF Shape, Types, Holders
<1> QED
  BY <1>1, <1>2, <1>4, <1>6, <1>7, <1>8, KillShape

LEMMA ClearsShape == ASSUME Shape, NEW c \in CallIds, Clears(c) PROVE Shape'
<1>1. call[c].pc = "shutting" /\ call[c].left = {} /\ regLock = c /\ call[c].kind = "teardown"
      /\ call[c].role \in Roles
  BY DEF Clears, At, Shape, RegHeld, Fits
<1>2. PICK new \in Calls :
        /\ Step(c, new) /\ new.pc = "close" /\ new.kind = call[c].kind
        /\ new.role = call[c].role /\ new.left = call[c].left
  <2>1. Types /\ "close" \in Pcs /\ Go(c, "close")
    BY DEF Shape, Pcs, Clears
  <2> QED
    BY <2>1, GoIs
<1>3. Fits(new) /\ HasSession(new)'
  BY <1>1, <1>2 DEF Fits, HasSession, TurnPcs, LockPcs, SessPcs, RolePcs
<1>4. /\ UNCHANGED <<script, waiting, initialized, turnLock, sess, cli, faults, abandoned>>
      /\ registry' = [r \in Roles |-> None] /\ regLock' = None
  BY DEF Clears, world
<1>5. RegHeld'
  BY <1>1, <1>2, <1>4, RegHeldStep
<1>6. Types'
  BY <1>2, <1>4, StepIs DEF Shape, Types, Holders
<1>7. Grows /\ Numbered(Made)' /\ Numbered(Born)'
  BY <1>4, SameObjects
<1> QED
  BY <1>1, <1>2, <1>3, <1>5, <1>6, <1>7, ShapeStep

LEMMA SendsIs ==
  ASSUME Shape, Sends
  PROVE  \E c \in CallIds, new \in Calls :
           /\ c \notin Sent /\ Sent \union {c} = 1..(Cardinality(Sent) + 1)
           /\ c = Cardinality(Sent) + 1
           /\ call[c] = NoCall /\ Step(c, new) /\ Fits(new) /\ HasSession(new)
           /\ new.pc \in {"check", "preflight", "shut", "ping"} /\ new.kind # "none"
           /\ new.left = {} /\ new.s = None /\ new.heard = {} /\ new.answer = "none"
           /\ new.saw = {}
           /\ waiting = None /\ waiting' = c
           /\ UNCHANGED <<script, initialized, turnLock, regLock, registry, sess, cli, faults, abandoned>>
<1> DEFINE c == Cardinality(Sent) + 1
<1>1. /\ waiting = None /\ c \in DOMAIN script /\ waiting' = c
      /\ script[c].kind = "resume" => ~initialized
      /\ Step(c, [NoCall EXCEPT !.kind = script[c].kind,
                                !.role = IF script[c].kind = "resume" THEN RoleOrder[1] ELSE script[c].role,
                                !.pc = Enters[script[c].kind],
                                !.todo = IF script[c].kind = "resume" THEN RoleOrder ELSE <<>>])
      /\ UNCHANGED <<script, initialized, turnLock, regLock, registry, sess, cli, faults, abandoned>>
  BY DEF Sends, locks, world
<1>2. script \in Seq(Requests) /\ Len(script) <= MaxCalls
  BY RunnerAssumption DEF Shape, Types
<1>3. c \in CallIds /\ script[c] \in Requests
  <2>1. Len(script) \in Nat /\ DOMAIN script = 1..Len(script)
    BY <1>2, LenProperties
  <2>2. script[c] \in Requests
    BY <1>1, <1>2, <2>1, ElementOfSeq
  <2> QED
    BY <1>1, <1>2, <2>1, <2>2, Bounds DEF CallIds
<1>4. c \notin Sent /\ Numbered(Sent \union {c}) /\ Sent \union {c} = 1..c
  <2>1. Numbered(Sent) /\ Cardinality(Sent) \in Nat
    BY Finite DEF Shape, Ordered
  <2>2. c \notin Sent /\ Numbered(Sent \union {c})
    BY <2>1, NextNumber
  <2>3. Sent = 1..Cardinality(Sent)
    BY <2>1 DEF Numbered
  <2>4. Sent \union {c} = 1..c
    BY <2>1, <2>3
  <2> QED
    BY <2>2, <2>4
<1>5. call[c] = NoCall
  BY <1>3, <1>4 DEF Sent, Shape, Fits, At
<1>6. script[c].role \in Roles /\ script[c].kind \in {"turn", "resume", "teardown", "ping"}
  BY <1>3 DEF Requests
<1>7. RoleOrder[1] \in Roles
  <2>1. script[c].role \in Roles
    BY <1>6
  <2>2. DOMAIN RoleOrder # {}
    BY <2>1 DEF Roles
  <2>3. 1 \in DOMAIN RoleOrder
    BY <2>2, Bounds
  <2> QED
    BY <2>3 DEF Roles
<1>8. PICK k \in {"turn", "resume", "teardown", "ping"}, r \in Roles, pc \in Pcs, todo \in Seq(Roles) :
        /\ k = script[c].kind
        /\ r = IF script[c].kind = "resume" THEN RoleOrder[1] ELSE script[c].role
        /\ pc = Enters[k] /\ todo = IF script[c].kind = "resume" THEN RoleOrder ELSE <<>>
        /\ k = "turn" => pc = "check"
        /\ k = "resume" => pc = "preflight"
        /\ k = "teardown" => pc = "shut"
        /\ k = "ping" => pc = "ping"
  <2>1. <<>> \in Seq(Roles) /\ RoleOrder \in Seq(Roles)
    BY EmptySeq, Bounds
  <2>2. Enters["turn"] = "check" /\ Enters["resume"] = "preflight"
        /\ Enters["teardown"] = "shut" /\ Enters["ping"] = "ping"
    BY DEF Enters
  <2>3. Enters[script[c].kind] \in Pcs
    BY <1>6, <2>2 DEF Pcs
  <2> QED
    BY <1>6, <1>7, <2>1, <2>2, <2>3
<1>9. PICK new : new = [NoCall EXCEPT !.kind = k, !.role = r, !.pc = pc, !.todo = todo]
  OBVIOUS
<1>10. /\ new = [kind |-> k, role |-> r, pc |-> pc, todo |-> todo, left |-> {}, s |-> None,
                 heard |-> {}, answer |-> "none", saw |-> {}]
  BY <1>9 DEF NoCall
<1>11. new \in Calls
  BY <1>8, <1>10 DEF Calls, Kinds, Told
<1>12. Step(c, new)
  BY <1>1, <1>8, <1>9
<1>13. Fits(new) /\ HasSession(new)
  BY <1>8, <1>10 DEF Fits, HasSession, TurnPcs, LockPcs, SessPcs, RolePcs
<1>14. /\ new.pc \in {"check", "preflight", "shut", "ping"} /\ new.kind # "none"
       /\ new.left = {} /\ new.s = None /\ new.heard = {} /\ new.answer = "none" /\ new.saw = {}
  BY <1>8, <1>10
<1> QED
  BY <1>1, <1>3, <1>4, <1>5, <1>11, <1>12, <1>13, <1>14

LEMMA SendsShape == ASSUME Shape, Sends PROVE Shape'
<1>1. PICK c \in CallIds, new \in Calls :
        /\ c \notin Sent /\ Sent \union {c} = 1..(Cardinality(Sent) + 1)
        /\ c = Cardinality(Sent) + 1
        /\ call[c] = NoCall /\ Step(c, new) /\ Fits(new) /\ HasSession(new)
        /\ new.pc \in {"check", "preflight", "shut", "ping"} /\ waiting' = c
        /\ UNCHANGED <<script, initialized, turnLock, regLock, registry, sess, cli, faults, abandoned>>
  BY SendsIs
<1>2. /\ call' \in [CallIds -> Calls] /\ call'[c] = new
      /\ \A d \in CallIds \ {c} : call'[d] = call[d]
  BY <1>1, StepIs DEF Shape
<1>3. Types'
  BY <1>1, <1>2 DEF Shape, Types, Holders
<1>4. Sent' = Sent \union {c}
  BY <1>1, <1>2 DEF Sent, At, NoCall
<1>5. Ordered'
  <2>1. Numbered(Sent) /\ Cardinality(Sent) \in Nat
    BY Finite DEF Shape, Ordered
  <2>2. Numbered(Sent \union {c})
    BY <1>1, <2>1, NextNumber
  <2>3. Made' = Made /\ Born' = Born
    BY <1>1 DEF Made, Born
  <2> QED
    BY <1>4, <2>2, <2>3 DEF Shape, Ordered, Numbered
<1>6. RegHeld'
  <2>1. \A d \in CallIds : call'[d].pc \in {"evict", "shutting"} <=> call[d].pc \in {"evict", "shutting"}
    BY <1>1, <1>2 DEF NoCall
  <2> QED
    BY <1>1, <2>1 DEF Shape, RegHeld
<1>7. Owned'
  BY <1>1 DEF Shape, Owned, Made, Born
<1>8. ASSUME NEW d \in CallIds PROVE (Fits(call[d]) /\ HasSession(call[d]))'
  <2>1. Fits(call'[d])
    BY <1>1, <1>2 DEF Shape
  <2>2. CASE d = c
    BY <1>1, <1>2, <2>2 DEF Fits, HasSession
  <2>3. CASE d # c
    BY <1>1, <1>2, <2>3 DEF Shape, Fits, HasSession
  <2> QED
    BY <2>2, <2>3
<1> QED
  BY <1>3, <1>5, <1>6, <1>7, <1>8 DEF Shape

\* The gateway stops waiting; a CLI answers, or exits.
LEMMA OutsideShape ==
  ASSUME Shape, UNCHANGED <<call, script, initialized, turnLock, regLock, registry, sess>>,
         waiting' \in Holders, cli' \in [CliIds -> Clis], faults' \in 0..MaxFaults,
         abandoned' \in 0..MaxAbandoned,
         \A k \in CliIds : /\ cli'[k].role = cli[k].role
                           /\ cli'[k].fate = "unborn" <=> cli[k].fate = "unborn"
  PROVE  Shape'
<1>1. Types'
  BY DEF Shape, Types
<1>2. Grows /\ Numbered(Made)' /\ Numbered(Born)'
  <2>1. \A r \in Roles : registry'[r] \in {None, registry[r]}
    OBVIOUS
  <2> QED
    BY <2>1, SameObjects
<1>3. Owned'
  BY <1>1, <1>2, OwnedGrows
<1>4. Sent' = Sent /\ RegHeld'
  BY DEF Sent, At, Shape, RegHeld
<1>5. \A c \in CallIds : (Fits(call[c]) /\ HasSession(call[c]))'
  BY DEF Shape, Fits, HasSession
<1> QED
  BY <1>1, <1>2, <1>3, <1>4, <1>5 DEF Shape, Ordered, Numbered

LEMMA AnswersIs ==
  ASSUME Shape, NEW k \in CliIds, Answers(k)
  PROVE  /\ Up(k) /\ cli[k].inbox # <<>> /\ Head(cli[k].inbox) \in CallIds
         /\ cli[k].inbox \in Seq(CallIds) /\ cli[k].out \in Seq(Frames)
         /\ \A n \in CliIds : n # k => cli'[n] = cli[n]
         /\ cli'[k].role = cli[k].role /\ cli'[k].fate = "up" /\ cli'[k].kept = cli[k].kept
         /\ cli' \in [CliIds -> Clis] /\ faults' \in 0..MaxFaults
         /\ \E kind \in {"result", "error"} :
              /\ Says(k, kind) \in Seq(Frames)
              /\ cli'[k].out = cli[k].out \o Says(k, kind)
              /\ \/ cli'[k].inbox = Tail(cli[k].inbox)
                 \/ /\ cli'[k].inbox = cli[k].inbox /\ kind = "error"
                    /\ cli[k].role \notin Correlated
<1>1. cli \in [CliIds -> Clis] /\ cli[k] \in Clis /\ faults \in 0..MaxFaults
  BY DEF Shape, Types
<1>2. Up(k) /\ cli[k].inbox # <<>> /\ cli[k].fate = "up"
  BY DEF Answers, Busy, Up
<1>3. /\ Head(cli[k].inbox) \in CallIds /\ Tail(cli[k].inbox) \in Seq(CallIds)
      /\ cli[k].inbox \in Seq(CallIds) /\ cli[k].out \in Seq(Frames)
  BY <1>1, <1>2, HeadTailProperties DEF Clis
<1>4. \A kind \in {"result", "error"} : Says(k, kind) \in Seq(Frames)
  <2> TAKE kind \in {"result", "error"}
  <2> DEFINE t == [of |-> Head(cli[k].inbox), kind |-> "text"]
             f == [of |-> Head(cli[k].inbox), kind |-> kind]
  <2>1. t \in Frames /\ f \in Frames
    BY <1>3 DEF Frames
  <2>2. Says(k, kind) = <<t, f>> \/ Says(k, kind) = <<f>>
    BY DEF Says
  <2> HIDE DEF t, f
  <2>3. <<t, f>> \in Seq(Frames) /\ <<f>> \in Seq(Frames)
    BY <2>1
  <2> QED
    BY <2>2, <2>3
<1>5. \A kind \in {"result", "error"} : cli[k].out \o Says(k, kind) \in Seq(Frames)
  BY <1>3, <1>4, ConcatProperties
<1>6. PICK kind \in {"result", "error"}, q \in Seq(CallIds) :
        /\ cli' = [cli EXCEPT ![k].out = @ \o Says(k, kind), ![k].inbox = q]
        /\ \/ q = Tail(cli[k].inbox)
           \/ q = cli[k].inbox /\ kind = "error" /\ cli[k].role \notin Correlated
        /\ faults' = faults \/ (faults < MaxFaults /\ faults' = faults + 1)
  <2>1. CASE /\ \E kind \in {"result", "error"} :
                  cli' = [cli EXCEPT ![k].out = @ \o Says(k, kind), ![k].inbox = Tail(@)]
             /\ UNCHANGED faults
    BY <1>1, <1>3, <2>1 DEF Clis
  <2>2. CASE /\ cli[k].role \notin Correlated /\ Fault
             /\ cli' = [cli EXCEPT ![k].out = @ \o Says(k, "error")]
    <3>1. cli' = [cli EXCEPT ![k].out = @ \o Says(k, "error"), ![k].inbox = cli[k].inbox]
      BY <1>1, <2>2 DEF Clis
    <3> QED
      BY <1>3, <2>2, <3>1 DEF Fault
  <2> QED
    BY <2>1, <2>2 DEF Answers
<1>7. faults' \in 0..MaxFaults
  BY <1>1, <1>6, Bounds
<1>8. /\ cli'[k].role = cli[k].role /\ cli'[k].fate = "up" /\ cli'[k].kept = cli[k].kept
      /\ cli'[k].out = cli[k].out \o Says(k, kind) /\ cli'[k].inbox = q
      /\ cli'[k] \in Clis /\ \A n \in CliIds : n # k => cli'[n] = cli[n]
  BY <1>1, <1>2, <1>5, <1>6 DEF Clis
<1>9. cli' \in [CliIds -> Clis]
  BY <1>1, <1>6, <1>8
<1> QED
  BY <1>2, <1>3, <1>4, <1>6, <1>7, <1>8, <1>9

LEMMA ExitsIs ==
  ASSUME Shape, NEW k \in CliIds, Exits(k)
  PROVE  /\ Up(k) /\ cli' \in [CliIds -> Clis] /\ faults' \in 0..MaxFaults
         /\ \A n \in CliIds : n # k => cli'[n] = cli[n]
         /\ cli'[k].role = cli[k].role /\ cli'[k].kept = cli[k].kept
         /\ cli'[k].inbox = cli[k].inbox /\ cli'[k].out = cli[k].out
         /\ cli'[k].fate \in {"left", "gone"}
<1>1. cli \in [CliIds -> Clis] /\ cli[k] \in Clis /\ faults \in 0..MaxFaults
  BY DEF Shape, Types
<1>2. faults' \in 0..MaxFaults
  BY <1>1, Bounds DEF Exits, Fault
<1>3. PICK fate \in {"left", "gone"} : cli' = [cli EXCEPT ![k].fate = fate]
  BY DEF Exits
<1> QED
  BY <1>1, <1>2, <1>3 DEF Exits, Clis, Fates

LEMMA OutsideSteps ==
  ASSUME Shape, Hears \/ Abandons \/ \E k \in CliIds : Answers(k) \/ Exits(k)
  PROVE  Shape' /\ UNCHANGED <<call, script, initialized, turnLock, regLock, registry, sess>>
<1>1. CASE Hears
  BY <1>1, OutsideShape DEF Hears, locks, world, Holders, Shape, Types
<1>2. CASE Abandons
  <2>1. abandoned' \in 0..MaxAbandoned
    BY <1>2, Bounds DEF Abandons, Shape, Types
  <2> QED
    BY <1>2, <2>1, OutsideShape DEF Abandons, locks, Holders, Shape, Types
<1>3. ASSUME NEW k \in CliIds, Answers(k)
      PROVE  Shape' /\ UNCHANGED <<call, script, initialized, turnLock, regLock, registry, sess>>
  <2>1. UNCHANGED <<call, script, waiting, initialized, turnLock, regLock, registry, sess, abandoned>>
    BY <1>3 DEF Answers, threads, locks
  <2>2. waiting' \in Holders /\ abandoned' \in 0..MaxAbandoned
    BY <2>1 DEF Shape, Types
  <2>3. /\ cli' \in [CliIds -> Clis] /\ faults' \in 0..MaxFaults
        /\ \A n \in CliIds : /\ cli'[n].role = cli[n].role
                             /\ cli'[n].fate = "unborn" <=> cli[n].fate = "unborn"
    BY <1>3, AnswersIs DEF Up
  <2> QED
    BY <2>1, <2>2, <2>3, OutsideShape
<1>4. ASSUME NEW k \in CliIds, Exits(k)
      PROVE  Shape' /\ UNCHANGED <<call, script, initialized, turnLock, regLock, registry, sess>>
  <2>1. UNCHANGED <<call, script, waiting, initialized, turnLock, regLock, registry, sess, abandoned>>
    BY <1>4 DEF Exits, threads, locks
  <2>2. waiting' \in Holders /\ abandoned' \in 0..MaxAbandoned
    BY <2>1 DEF Shape, Types
  <2>3. /\ cli' \in [CliIds -> Clis] /\ faults' \in 0..MaxFaults
        /\ \A n \in CliIds : /\ cli'[n].role = cli[n].role
                             /\ cli'[n].fate = "unborn" <=> cli[n].fate = "unborn"
    BY <1>4, ExitsIs DEF Up
  <2> QED
    BY <2>1, <2>2, <2>3, OutsideShape
<1> QED
  BY <1>1, <1>2, <1>3, <1>4

-----------------------------------------------------------------------------
(***************************************************************************)
(* A lock has one holder, which is at work there.                          *)
(***************************************************************************)
Cliless == {"spawn", "revive"}

HoldsSession(c, new) ==
    /\ \A s \in SessIds : \/ sess'[s].lock = sess[s].lock
                          \/ sess[s].lock \in {None, c} /\ sess'[s].lock \in {None, c}
    /\ new.pc \in LockPcs => sess'[new.s].lock = c
    /\ \A s \in SessIds : sess'[s].lock = c => new.pc \in LockPcs /\ new.s = s
    /\ \A s \in SessIds : sess[s].lock \notin {None, c} => sess'[s].cli = sess[s].cli
    /\ new.pc \in LockPcs \ Cliless => sess'[new.s].cli # None

HoldsRole(c, new) ==
    /\ \A r \in Roles : \/ turnLock'[r] = turnLock[r]
                        \/ turnLock[r] \in {None, c} /\ turnLock'[r] \in {None, c}
    /\ new.kind = "turn" /\ new.pc \in RolePcs => turnLock'[new.role] = c
    /\ \A r \in Roles : turnLock'[r] = c =>
          new.kind = "turn" /\ new.role = r /\ new.pc \in RolePcs

LEMMA LockedStep ==
  ASSUME Shape, Locked, Shape', NEW c \in CallIds, NEW new \in Calls, Step(c, new),
         HoldsSession(c, new), HoldsRole(c, new)
  PROVE  Locked'
<1>1. call'[c] = new /\ \A d \in CallIds \ {c} : call'[d] = call[d]
  BY StepIs DEF Shape
<1>2. None \notin CallIds
  BY Bounds
<1>3. /\ \A s \in SessIds : sess[s].lock \in Holders /\ sess'[s].lock \in Holders
      /\ \A r \in Roles : turnLock[r] \in Holders /\ turnLock'[r] \in Holders
  BY DEF Shape, Types, Sessions
<1>4. ASSUME NEW d \in CallIds, call'[d].pc \in LockPcs
      PROVE  /\ sess'[call'[d].s].lock = d
             /\ call'[d].pc \notin Cliless => sess'[call'[d].s].cli # None
  <2>1. CASE d = c
    BY <1>1, <1>4, <2>1 DEF HoldsSession
  <2>2. CASE d # c
    <3>1. call'[d] = call[d] /\ sess[call[d].s].lock = d /\ call[d].s \in SessIds
      BY <1>1, <1>4, <2>2, AtLock, AtRole DEF Locked
    <3>2. call[d].pc \notin Cliless => sess[call[d].s].cli # None
      BY <1>4, <3>1 DEF Locked, Cliless
    <3> QED
      BY <1>2, <2>2, <3>1, <3>2 DEF HoldsSession
  <2> QED
    BY <2>1, <2>2
<1>5. ASSUME NEW s \in SessIds, sess'[s].lock # None
      PROVE  call'[sess'[s].lock].pc \in LockPcs /\ call'[sess'[s].lock].s = s
  <2>1. CASE sess'[s].lock = c
    BY <1>1, <2>1 DEF HoldsSession
  <2>2. CASE sess'[s].lock # c
    <3>1. sess'[s].lock = sess[s].lock
      BY <1>5, <2>2 DEF HoldsSession
    <3>2. sess[s].lock \in CallIds \ {c}
      BY <1>3, <1>5, <2>2, <3>1 DEF Holders
    <3> QED
      BY <1>1, <1>5, <3>1, <3>2 DEF Locked
  <2> QED
    BY <2>1, <2>2
<1>6. ASSUME NEW d \in CallIds, call'[d].kind = "turn", call'[d].pc \in RolePcs
      PROVE  turnLock'[call'[d].role] = d
  <2>1. CASE d = c
    BY <1>1, <1>6, <2>1 DEF HoldsRole
  <2>2. CASE d # c
    <3>1. call'[d] = call[d] /\ turnLock[call[d].role] = d /\ call[d].role \in Roles
      BY <1>1, <1>6, <2>2, AtRole DEF Locked
    <3> QED
      BY <1>2, <2>2, <3>1 DEF HoldsRole
  <2> QED
    BY <2>1, <2>2
<1>7. ASSUME NEW r \in Roles, turnLock'[r] # None
      PROVE  /\ call'[turnLock'[r]].kind = "turn" /\ call'[turnLock'[r]].role = r
             /\ call'[turnLock'[r]].pc \in RolePcs
  <2>1. CASE turnLock'[r] = c
    BY <1>1, <2>1 DEF HoldsRole
  <2>2. CASE turnLock'[r] # c
    <3>1. turnLock'[r] = turnLock[r]
      BY <1>7, <2>2 DEF HoldsRole
    <3>2. turnLock[r] \in CallIds \ {c}
      BY <1>3, <1>7, <2>2, <3>1 DEF Holders
    <3> QED
      BY <1>1, <1>7, <3>1, <3>2 DEF Locked
  <2> QED
    BY <2>1, <2>2
<1> QED
  BY <1>4, <1>5, <1>6, <1>7 DEF Locked, Cliless

LEMMA KeepsRole ==
  ASSUME Shape, Locked, NEW c \in CallIds, NEW new \in Calls, turnLock' = turnLock,
         new.kind = call[c].kind,
         call[c].kind = "turn" => new.role = call[c].role
                                    /\ (new.pc \in RolePcs <=> call[c].pc \in RolePcs)
  PROVE  HoldsRole(c, new)
<1>1. None \notin CallIds
  BY Bounds
<1>2. ASSUME NEW r \in Roles, turnLock[r] = c
      PROVE  call[c].kind = "turn" /\ call[c].role = r /\ call[c].pc \in RolePcs
  BY <1>1, <1>2 DEF Locked
<1> QED
  BY <1>2 DEF HoldsRole, Locked

LEMMA KeepsSession ==
  ASSUME Shape, Locked, NEW c \in CallIds, NEW new \in Calls,
         \A s \in SessIds : sess'[s].lock = sess[s].lock,
         \A s \in SessIds : sess[s].lock # None => \/ sess'[s].cli = sess[s].cli
                                                   \/ sess[s].lock = c /\ sess'[s].cli # None,
         new.pc \in LockPcs <=> call[c].pc \in LockPcs,
         new.pc \in LockPcs => new.s = call[c].s,
         new.pc \in LockPcs \ Cliless => \/ call[c].pc \notin Cliless
                                         \/ sess'[call[c].s].cli # None
  PROVE  HoldsSession(c, new)
<1>1. None \notin CallIds
  BY Bounds
<1>2. ASSUME NEW s \in SessIds, sess[s].lock = c PROVE call[c].pc \in LockPcs /\ call[c].s = s
  BY <1>1, <1>2 DEF Locked
<1>3. call[c].pc \in LockPcs => sess[call[c].s].lock = c /\ call[c].s \in SessIds
  BY AtLock, AtRole DEF Locked
<1>4. ASSUME new.pc \in LockPcs \ Cliless PROVE sess'[new.s].cli # None
  <2>1. CASE call[c].pc \notin Cliless
    <3>1. call[c].pc \in LockPcs /\ sess[call[c].s].cli # None /\ new.s = call[c].s
      BY <1>4, <2>1 DEF Locked, Cliless
    <3> QED
      BY <1>1, <1>3, <3>1
  <2> QED
    BY <1>4, <2>1
<1> QED
  BY <1>2, <1>3, <1>4 DEF HoldsSession

LEMMA ReleasesSession ==
  ASSUME Shape, Locked, NEW c \in CallIds, NEW new \in Calls, call[c].pc \in LockPcs,
         new.pc \notin LockPcs, sess'[call[c].s].lock = None,
         \A s \in SessIds : s # call[c].s => sess'[s] = sess[s]
  PROVE  HoldsSession(c, new)
<1>1. None \notin CallIds
  BY Bounds
<1>2. ASSUME NEW s \in SessIds, sess[s].lock = c PROVE call[c].pc \in LockPcs /\ call[c].s = s
  BY <1>1, <1>2 DEF Locked
<1>3. sess[call[c].s].lock = c /\ call[c].s \in SessIds
  BY AtLock, AtRole DEF Locked
<1> QED
  BY <1>1, <1>2, <1>3 DEF HoldsSession

LEMMA TakesSession ==
  ASSUME Shape, Locked, NEW c \in CallIds, NEW new \in Calls, call[c].pc \notin LockPcs,
         NEW s \in SessIds, sess[s].lock = None, sess'[s].lock = c, sess'[s].cli = sess[s].cli,
         \A t \in SessIds : t # s => sess'[t] = sess[t],
         new.pc \in LockPcs, new.s = s, new.pc \in Cliless \/ sess[s].cli # None
  PROVE  HoldsSession(c, new)
<1>1. None \notin CallIds
  BY Bounds
<1>2. \A t \in SessIds : sess[t].lock # c
  BY <1>1 DEF Locked
<1> QED
  BY <1>1, <1>2 DEF HoldsSession

\* A step along the thread's way, with the locks it has.
LEMMA GoesLocked ==
  ASSUME Shape, Locked, Shape', NEW c \in CallIds, NEW pc \in Pcs, Go(c, pc), UNCHANGED <<sess, turnLock>>,
         pc \in LockPcs <=> call[c].pc \in LockPcs,
         call[c].pc \in Cliless => pc \in Cliless,
         call[c].kind = "turn" => (pc \in RolePcs <=> call[c].pc \in RolePcs)
  PROVE  Locked'
<1>1. Types
  BY DEF Shape
<1>2. PICK new \in Calls :
        /\ Step(c, new) /\ new.pc = pc /\ new.kind = call[c].kind /\ new.role = call[c].role
        /\ new.s = call[c].s
  BY <1>1, GoIs
<1>3. HoldsRole(c, new)
  BY <1>2, KeepsRole
<1>4. HoldsSession(c, new)
  BY <1>2, KeepsSession
<1> QED
  BY <1>2, <1>3, <1>4, LockedStep

\* The end of a call that holds no session.
LEMMA EndsLocked ==
  ASSUME Shape, Locked, Shape', NEW c \in CallIds, NEW how \in Told, Step(c, Ends(c, how)),
         call[c].pc \notin LockPcs,
         \A s \in SessIds : sess'[s].lock = sess[s].lock,
         \A s \in SessIds : sess[s].lock # None => sess'[s].cli = sess[s].cli,
         \/ turnLock' = turnLock /\ (call[c].kind = "turn" => call[c].pc \notin RolePcs)
         \/ /\ turnLock' = [turnLock EXCEPT ![call[c].role] = None]
            /\ call[c].kind = "turn" /\ call[c].pc \in RolePcs
  PROVE  Locked'
<1>0. Types
  BY DEF Shape
<1>1. PICK new : new = Ends(c, how)
  OBVIOUS
<1>2. new \in Calls /\ new.pc = "ended" /\ new.kind = call[c].kind /\ new.role = call[c].role
      /\ Step(c, new)
  BY <1>0, <1>1, EndsIs
<1>3. new.pc \notin LockPcs /\ new.pc \notin RolePcs
  BY <1>2 DEF LockPcs, SessPcs, RolePcs
<1>4. HoldsSession(c, new)
  BY <1>2, <1>3, KeepsSession
<1>5. HoldsRole(c, new)
  <2>1. CASE turnLock' = turnLock /\ (call[c].kind = "turn" => call[c].pc \notin RolePcs)
    BY <1>2, <1>3, <2>1, KeepsRole
  <2>2. CASE /\ turnLock' = [turnLock EXCEPT ![call[c].role] = None]
             /\ call[c].kind = "turn" /\ call[c].pc \in RolePcs
    <3>1. call[c].role \in Roles /\ turnLock[call[c].role] = c /\ turnLock \in [Roles -> Holders]
      BY <2>2, AtRole DEF Locked, Shape, Types
    <3>2. None \notin CallIds
      BY Bounds
    <3>3. \A r \in Roles : turnLock[r] = c => r = call[c].role
      BY <3>2 DEF Locked
    <3>4. /\ turnLock'[call[c].role] = None
          /\ \A r \in Roles : r # call[c].role => turnLock'[r] = turnLock[r]
      BY <2>2, <3>1
    <3> QED
      BY <1>3, <3>1, <3>2, <3>3, <3>4 DEF HoldsRole
  <2> QED
    BY <2>1, <2>2
<1> QED
  BY <1>2, <1>4, <1>5, LockedStep

\* The end of a resume's work for a role.
LEMMA NextRoleLocked ==
  ASSUME Shape, Locked, Shape', NEW c \in CallIds, Step(c, NextRole(c)), call[c].pc \in RolePcs,
         call[c].kind # "turn", turnLock' = turnLock,
         \/ /\ call[c].pc \notin LockPcs /\ \A s \in SessIds : sess'[s].lock = sess[s].lock
            /\ \A s \in SessIds : sess[s].lock # None => sess'[s].cli = sess[s].cli
         \/ /\ call[c].pc \in LockPcs /\ sess'[call[c].s].lock = None
            /\ \A s \in SessIds : s # call[c].s => sess'[s] = sess[s]
  PROVE  Locked'
<1>1. PICK new : new = NextRole(c)
  OBVIOUS
<1>2. new \in Calls /\ new.pc \in {"lookup", "ended"} /\ new.kind = call[c].kind /\ Step(c, new)
  BY <1>1, NextRoleFits, NextRoleIs DEF Shape
<1>3. new.pc \notin LockPcs
  BY <1>2 DEF LockPcs, SessPcs, RolePcs
<1>4. HoldsSession(c, new)
  BY <1>2, <1>3, KeepsSession, ReleasesSession
<1>5. HoldsRole(c, new)
  BY <1>2, KeepsRole
<1> QED
  BY <1>2, <1>4, <1>5, LockedStep

\* A thread that gives up releases its session.
LEMMA GivesUpLocked ==
  ASSUME Shape, Locked, Shape', NEW c \in CallIds, Step(c, GivesUp(c)), call[c].pc \in LockPcs,
         turnLock' = turnLock, sess'[call[c].s].lock = None,
         \A s \in SessIds : s # call[c].s => sess'[s] = sess[s]
  PROVE  Locked'
<1>0. call[c].pc \in RolePcs /\ call[c] \in Calls
  BY AtLock, AtRole
<1>1. CASE call[c].kind # "turn"
  <2>1. Step(c, NextRole(c))
    BY <1>1 DEF GivesUp
  <2> QED
    BY <1>0, <1>1, <2>1, NextRoleLocked
<1>2. CASE call[c].kind = "turn"
  <2>1. PICK new : new = [call[c] EXCEPT !.pc = "sample", !.answer = "failed"]
    OBVIOUS
  <2>2. /\ new \in Calls /\ new.pc = "sample" /\ new.kind = call[c].kind
        /\ new.role = call[c].role /\ Step(c, new)
    BY <1>0, <1>2, <2>1 DEF GivesUp, Calls, Pcs, Told
  <2>3. new.pc \notin LockPcs /\ new.pc \in RolePcs
    BY <2>2 DEF LockPcs, SessPcs, RolePcs
  <2>4. HoldsSession(c, new)
    BY <2>2, <2>3, ReleasesSession
  <2>5. HoldsRole(c, new)
    BY <1>0, <2>2, <2>3, KeepsRole
  <2> QED
    BY <2>2, <2>4, <2>5, LockedStep
<1> QED
  BY <1>1, <1>2

LEMMA MoreLocked ==
  ASSUME Shape, Locked, Shape', NEW c \in CallIds,
         \/ Checks(c) \/ ReadsEnd(c) \/ Expires(c) \/ Preflights(c) \/ TearsDown(c) \/ Pings(c)
         \/ Reports(c) \/ Clears(c) \/ Shuts(c) \/ Drains(c)
  PROVE  Locked'
<1> USE DEF LockPcs, SessPcs, RolePcs, Cliless, Pcs, Told
<1>0. call[c] \in Calls /\ Fits(call[c])
  BY DEF Shape, Types
<1>1. CASE Checks(c)
  <2>1. call[c].pc = "check" /\ UNCHANGED <<sess, turnLock>>
    BY <1>1 DEF Checks, At, locks
  <2>2. CASE Go(c, "queue")
    BY <2>1, <2>2, GoesLocked
  <2>3. CASE Step(c, Ends(c, "refused"))
    BY <2>1, <2>3, EndsLocked
  <2> QED
    BY <1>1, <2>2, <2>3 DEF Checks
<1>2. CASE ReadsEnd(c) \/ Expires(c) \/ Drains(c)
  <2>1. call[c].pc \in {"poll", "read", "drain"} /\ UNCHANGED <<sess, turnLock>>
    BY <1>2 DEF ReadsEnd, Expires, Drains, At, locks
  <2>2. Go(c, "poll") \/ Go(c, "kill") \/ Go(c, "write")
    BY <1>2 DEF ReadsEnd, Expires, Drains
  <2> QED
    BY <2>1, <2>2, GoesLocked
<1>3. CASE Preflights(c)
  <2>1. call[c].pc = "preflight" /\ call[c].kind # "turn" /\ UNCHANGED <<sess, turnLock>>
    BY <1>0, <1>3 DEF Preflights, At, Fits, locks
  <2>2. CASE Go(c, "lookup")
    BY <2>1, <2>2, GoesLocked
  <2>3. CASE Step(c, Ends(c, "refused"))
    BY <2>1, <2>3, EndsLocked
  <2> QED
    BY <1>3, <2>2, <2>3 DEF Preflights
<1>4. CASE TearsDown(c) \/ Pings(c)
  <2>1. call[c].pc \in {"close", "ping"} /\ UNCHANGED <<sess, turnLock>>
    BY <1>4 DEF TearsDown, Pings, At, locks
  <2>2. Step(c, Ends(c, "ok")) \/ Step(c, Ends(c, "failed"))
    BY <1>4 DEF TearsDown, Pings
  <2> QED
    BY <2>1, <2>2, EndsLocked
<1>5. CASE Reports(c)
  <2>1. /\ call[c].pc = "sample" /\ sess' = sess /\ call[c].kind = "turn"
        /\ turnLock' = [turnLock EXCEPT ![call[c].role] = None]
        /\ Step(c, Ends(c, call[c].answer))
    BY <1>0, <1>5 DEF Reports, At, Fits, TurnPcs
  <2>2. call[c].answer \in Told
    BY <1>0 DEF Calls
  <2> QED
    BY <2>1, <2>2, EndsLocked
<1>6. CASE Clears(c)
  <2>1. call[c].pc = "shutting" /\ Go(c, "close") /\ UNCHANGED <<sess, turnLock>>
    BY <1>6 DEF Clears, At
  <2> QED
    BY <2>1, GoesLocked
<1>7. CASE Shuts(c)
  <2>1. PICK new \in Calls : Step(c, new) /\ new.pc = "shutting" /\ new.kind = "teardown"
    BY <1>7, ShutsIs
  <2>2. call[c].pc = "shut" /\ call[c].kind = "teardown" /\ UNCHANGED <<sess, turnLock>>
    BY <1>7, ShutsIs DEF Shuts
  <2>3. HoldsSession(c, new) /\ HoldsRole(c, new)
    BY <2>1, <2>2, KeepsSession, KeepsRole
  <2> QED
    BY <2>1, <2>3, LockedStep
<1> QED
  BY <1>1, <1>2, <1>3, <1>4, <1>5, <1>6, <1>7

LEMMA TakesTurnLocked ==
  ASSUME Shape, Locked, Shape', NEW c \in CallIds, TakesTurn(c)
  PROVE  Locked'
<1>1. /\ call[c].pc = "queue" /\ turnLock[call[c].role] = None /\ Go(c, "lookup")
      /\ turnLock' = [turnLock EXCEPT ![call[c].role] = c] /\ sess' = sess
      /\ call[c].kind = "turn" /\ call[c].role \in Roles /\ turnLock \in [Roles -> Holders]
  BY DEF TakesTurn, At, Shape, Fits, TurnPcs, Types
<1>2. PICK new \in Calls :
        /\ Step(c, new) /\ new.pc = "lookup" /\ new.kind = call[c].kind /\ new.role = call[c].role
  <2>1. Types /\ "lookup" \in Pcs
    BY DEF Shape, Pcs
  <2> QED
    BY <1>1, <2>1, GoIs
<1>3. None \notin CallIds
  BY Bounds
<1>4. call[c].pc \notin RolePcs /\ call[c].pc \notin LockPcs /\ new.pc \notin LockPcs
      /\ new.pc \in RolePcs
  BY <1>1, <1>2 DEF LockPcs, SessPcs, RolePcs
<1>5. \A r \in Roles : turnLock[r] # c
  BY <1>3, <1>4 DEF Locked
<1>6. HoldsRole(c, new)
  BY <1>1, <1>2, <1>4, <1>5 DEF HoldsRole
<1>7. HoldsSession(c, new)
  BY <1>1, <1>4, KeepsSession
<1> QED
  BY <1>2, <1>6, <1>7, LockedStep

LEMMA LooksUpLocked ==
  ASSUME Shape, Locked, Shape', NEW c \in CallIds, LooksUp(c)
  PROVE  Locked'
<1> DEFINE s == registry[call[c].role]
<1>1. call[c].pc = "lookup" /\ call[c].pc \in RolePcs /\ turnLock' = turnLock
  BY DEF LooksUp, At, RolePcs
<1>2. call[c] \in Calls /\ s \in SessIds \union {None}
  BY <1>1, AtRole DEF Shape, Types
<1>3. CASE /\ Alive(s) /\ Step(c, [call[c] EXCEPT !.s = s, !.pc = "ensure"]) /\ sess' = sess
  <2>1. PICK new : new = [call[c] EXCEPT !.s = s, !.pc = "ensure"]
    OBVIOUS
  <2>2. /\ new \in Calls /\ new.pc = "ensure" /\ new.kind = call[c].kind
        /\ new.role = call[c].role /\ Step(c, new)
    BY <1>2, <1>3, <2>1 DEF Calls, Pcs
  <2>3. new.pc \notin LockPcs /\ new.pc \in RolePcs /\ call[c].pc \notin LockPcs
    BY <1>1, <2>2 DEF LockPcs, SessPcs, RolePcs
  <2>4. HoldsSession(c, new)
    BY <1>3, <2>2, <2>3, KeepsSession
  <2>5. HoldsRole(c, new)
    BY <1>1, <2>2, <2>3, KeepsRole
  <2> QED
    BY <2>2, <2>4, <2>5, LockedStep
<1>4. CASE Go(c, "evict") /\ sess' = sess
  BY <1>1, <1>4, GoesLocked DEF LockPcs, SessPcs, RolePcs, Cliless, Pcs
<1>5. CASE Registers(c) /\ sess' = [sess EXCEPT ![NewSess].role = call[c].role]
  <2>1. NewSess \in SessIds /\ sess[NewSess] = Nobodys /\ sess \in [SessIds -> Sessions]
    BY <1>1, <1>5, RegistersIs DEF Shape, Types
  <2>2. \A t \in SessIds : sess'[t].lock = sess[t].lock /\ sess'[t].cli = sess[t].cli
    BY <1>5, <2>1 DEF Nobodys
  <2>3. PICK new \in Calls : /\ Step(c, new) /\ new.pc = "ensure" /\ new.kind = call[c].kind
                             /\ new.role = call[c].role
    BY <1>1, <1>5, RegistersIs
  <2>4. new.pc \notin LockPcs /\ new.pc \in RolePcs /\ call[c].pc \notin LockPcs
    BY <1>1, <2>3 DEF LockPcs, SessPcs, RolePcs
  <2>5. HoldsSession(c, new)
    BY <2>2, <2>4, KeepsSession
  <2>6. HoldsRole(c, new)
    BY <1>1, <2>3, <2>4, KeepsRole
  <2> QED
    BY <2>3, <2>5, <2>6, LockedStep
<1> QED
  BY <1>3, <1>4, <1>5 DEF LooksUp

LEMMA EvictsLocked ==
  ASSUME Shape, Locked, Shape', NEW c \in CallIds, Evicts(c)
  PROVE  Locked'
<1> DEFINE s == registry[call[c].role]
<1>1. call[c].pc = "evict" /\ call[c].pc \in RolePcs /\ s \in SessIds /\ s \in Made
      /\ call[c].pc \notin LockPcs /\ sess[s].lock = None
  BY EvictsIs DEF Evicts, LockPcs, SessPcs
<1>2. PICK o \in Kills(c, s) :
        IF o.told = "raised"
        THEN /\ sess' = sess
             /\ IF call[c].kind = "turn"
                THEN Step(c, Ends(c, "error")) /\ turnLock' = [turnLock EXCEPT ![call[c].role] = None]
                ELSE Step(c, NextRole(c)) /\ UNCHANGED turnLock
        ELSE /\ Registers(c) /\ UNCHANGED turnLock
             /\ sess' = [sess EXCEPT ![s].cli = Forgotten(s, o), ![NewSess].role = call[c].role]
  BY DEF Evicts
<1>3. CASE o.told = "raised" /\ call[c].kind = "turn"
  BY <1>1, <1>2, <1>3, EndsLocked DEF Told
<1>4. CASE o.told = "raised" /\ call[c].kind # "turn"
  BY <1>1, <1>2, <1>4, NextRoleLocked
<1>5. CASE o.told # "raised"
  <2>1. NewSess \in SessIds /\ sess[NewSess] = Nobodys /\ sess \in [SessIds -> Sessions]
        /\ NewSess # s
    BY <1>1, <1>2, <1>5, RegistersIs DEF Shape, Types
  <2>2. sess' = [sess EXCEPT ![s].cli = Forgotten(s, o), ![NewSess].role = call[c].role]
    BY <1>2, <1>5
  <2>3. /\ \A t \in SessIds \ {s, NewSess} : sess'[t] = sess[t]
        /\ sess'[s].lock = sess[s].lock /\ sess'[NewSess].lock = sess[NewSess].lock
    BY <1>1, <2>1, <2>2 DEF Sessions
  <2>4. /\ \A t \in SessIds : sess'[t].lock = sess[t].lock
        /\ \A t \in SessIds : sess[t].lock # None => sess'[t].cli = sess[t].cli
    BY <1>1, <2>1, <2>3 DEF Nobodys
  <2>5. PICK new \in Calls : /\ Step(c, new) /\ new.pc = "ensure" /\ new.kind = call[c].kind
                             /\ new.role = call[c].role
    BY <1>1, <1>2, <1>5, RegistersIs
  <2>6. new.pc \notin LockPcs /\ new.pc \in RolePcs
    BY <2>5 DEF LockPcs, SessPcs, RolePcs
  <2>7. HoldsSession(c, new)
    BY <1>1, <2>4, <2>6, KeepsSession
  <2>8. HoldsRole(c, new)
    BY <1>1, <1>2, <1>5, <2>5, <2>6, KeepsRole
  <2> QED
    BY <2>5, <2>7, <2>8, LockedStep
<1> QED
  BY <1>3, <1>4, <1>5

LEMMA EnsuresLocked ==
  ASSUME Shape, Locked, Shape', NEW c \in CallIds, Ensures(c)
  PROVE  Locked'
<1>1. /\ call[c].pc = "ensure" /\ call[c].pc \in RolePcs /\ call[c].pc \in SessPcs
      /\ call[c].pc \notin LockPcs /\ turnLock' = turnLock /\ sess[call[c].s].lock = None
  BY DEF Ensures, At, RolePcs, SessPcs, LockPcs, locks
<1>2. CASE Go(c, "enter") /\ sess' = sess
  BY <1>1, <1>2, GoesLocked DEF LockPcs, SessPcs, RolePcs, Cliless, Pcs
<1>3. CASE call[c].kind # "turn" /\ Step(c, NextRole(c)) /\ sess' = sess
  BY <1>1, <1>3, NextRoleLocked
<1>4. CASE Go(c, "spawn") /\ sess' = [sess EXCEPT ![call[c].s].lock = c]
  <2>1. call[c].s \in SessIds /\ sess \in [SessIds -> Sessions] /\ Types /\ "spawn" \in Pcs
    BY <1>1, AtRole DEF Shape, Types, Pcs
  <2>2. PICK new \in Calls :
          /\ Step(c, new) /\ new.pc = "spawn" /\ new.kind = call[c].kind /\ new.s = call[c].s
          /\ new.role = call[c].role
    BY <1>4, <2>1, GoIs
  <2>3. new.pc \in LockPcs /\ new.pc \in RolePcs /\ new.pc \in Cliless
    BY <2>2 DEF LockPcs, SessPcs, RolePcs, Cliless
  <2>4. /\ sess'[call[c].s].lock = c /\ sess'[call[c].s].cli = sess[call[c].s].cli
        /\ \A t \in SessIds : t # call[c].s => sess'[t] = sess[t]
    BY <1>4, <2>1 DEF Sessions
  <2>5. HoldsSession(c, new)
    BY <1>1, <2>1, <2>2, <2>3, <2>4, TakesSession
  <2>6. HoldsRole(c, new)
    BY <1>1, <2>2, <2>3, KeepsRole
  <2> QED
    BY <2>2, <2>5, <2>6, LockedStep
<1> QED
  BY <1>2, <1>3, <1>4 DEF Ensures

LEMMA EntersTurnLocked ==
  ASSUME Shape, Locked, Shape', NEW c \in CallIds, EntersTurn(c)
  PROVE  Locked'
<1>1. /\ call[c].pc = "enter" /\ call[c].pc \in RolePcs /\ call[c].pc \in SessPcs
      /\ call[c].pc \notin LockPcs /\ turnLock' = turnLock /\ sess[call[c].s].lock = None
      /\ sess' = [sess EXCEPT ![call[c].s].lock = c]
  BY DEF EntersTurn, At, RolePcs, SessPcs, LockPcs, locks
<1>2. call[c].s \in SessIds /\ sess \in [SessIds -> Sessions] /\ Types
      /\ "drain" \in Pcs /\ "revive" \in Pcs
  BY <1>1, AtRole DEF Shape, Types, Pcs
<1>3. PICK pc \in {"drain", "revive"} : Go(c, pc) /\ (pc = "drain" => Alive(call[c].s))
  BY DEF EntersTurn
<1>4. PICK new \in Calls :
        /\ Step(c, new) /\ new.pc = pc /\ new.kind = call[c].kind /\ new.s = call[c].s
        /\ new.role = call[c].role
  BY <1>2, <1>3, GoIs
<1>5. new.pc \in LockPcs /\ new.pc \in RolePcs /\ (new.pc \in Cliless \/ new.pc = "drain")
  BY <1>3, <1>4 DEF LockPcs, SessPcs, RolePcs, Cliless
<1>6. new.pc \in Cliless \/ sess[call[c].s].cli # None
  BY <1>3, <1>4, <1>5 DEF Alive, Up
<1>7. /\ sess'[call[c].s].lock = c /\ sess'[call[c].s].cli = sess[call[c].s].cli
      /\ \A t \in SessIds : t # call[c].s => sess'[t] = sess[t]
  BY <1>1, <1>2 DEF Sessions
<1>8. HoldsSession(c, new)
  BY <1>1, <1>2, <1>4, <1>5, <1>6, <1>7, TakesSession
<1>9. HoldsRole(c, new)
  BY <1>1, <1>4, <1>5, KeepsRole
<1> QED
  BY <1>4, <1>8, <1>9, LockedStep

LEMMA PromptsLocked ==
  ASSUME Shape, Locked, Shape', NEW c \in CallIds, Prompts(c) \/ Polls(c)
  PROVE  Locked'
<1>1. /\ call[c].pc \in {"write", "poll"} /\ call[c].pc \in LockPcs /\ call[c].pc \notin Cliless
      /\ call[c].pc \in SessPcs /\ call[c].pc \in RolePcs /\ turnLock' = turnLock
  BY DEF Prompts, Polls, At, LockPcs, SessPcs, RolePcs, Cliless, locks
<1>2. CASE sess' = sess /\ (Go(c, "poll") \/ Go(c, "read"))
  BY <1>1, <1>2, GoesLocked DEF LockPcs, SessPcs, RolePcs, Cliless, Pcs
<1>3. CASE Leaves(c, GivesUp(c))
  <2>1. call[c].s \in SessIds /\ sess \in [SessIds -> Sessions]
    BY <1>1, AtRole DEF Shape, Types
  <2>2. /\ sess'[call[c].s].lock = None
        /\ \A t \in SessIds : t # call[c].s => sess'[t] = sess[t]
    BY <1>3, <2>1 DEF Leaves, Sessions
  <2>3. Step(c, GivesUp(c))
    BY <1>3 DEF Leaves
  <2> QED
    BY <1>1, <2>2, <2>3, GivesUpLocked
<1> QED
  BY <1>2, <1>3 DEF Prompts, Polls

LEMMA ReadsLocked ==
  ASSUME Shape, Locked, Shape', NEW c \in CallIds, Reads(c)
  PROVE  Locked'
<1>1. PICK new \in Calls :
        /\ Step(c, new) /\ new.pc \in {"poll", "reap", "respawn"} /\ new.kind = "turn"
        /\ new.role = call[c].role /\ new.s = call[c].s
  BY ReadsIs
<1>2. /\ call[c].pc = "read" /\ call[c].kind = "turn" /\ sess' = sess /\ turnLock' = turnLock
  BY ReadsIs DEF Reads, locks
<1>3. /\ new.pc \in LockPcs /\ new.pc \in RolePcs /\ call[c].pc \in LockPcs
      /\ call[c].pc \in RolePcs /\ call[c].pc \notin Cliless
  BY <1>1, <1>2 DEF LockPcs, SessPcs, RolePcs, Cliless
<1>4. HoldsSession(c, new)
  BY <1>1, <1>2, <1>3, KeepsSession
<1>5. HoldsRole(c, new)
  BY <1>1, <1>2, <1>3, KeepsRole
<1> QED
  BY <1>1, <1>4, <1>5, LockedStep

LEMMA ReapsOrphansLocked ==
  ASSUME Shape, Locked, Shape', NEW c \in CallIds, ReapsOrphans(c)
  PROVE  Locked'
<1>1. /\ call[c].pc = "reap" /\ call[c].pc \in LockPcs /\ call[c].pc \in RolePcs
      /\ turnLock' = turnLock /\ call[c].kind = "turn"
  <2>1. call[c].pc = "reap" /\ turnLock' = turnLock
    BY DEF ReapsOrphans, At, locks
  <2> QED
    BY <2>1, AtLock DEF LockPcs, SessPcs, RolePcs
<1>2. call[c].s \in SessIds /\ sess \in [SessIds -> Sessions] /\ call[c] \in Calls
  BY <1>1, AtRole, AtLock DEF Shape, Types
<1>3. PICK new : new = [call[c] EXCEPT !.pc = "sample"]
  OBVIOUS
<1>4. /\ new \in Calls /\ new.pc = "sample" /\ new.kind = call[c].kind
      /\ new.role = call[c].role /\ Step(c, new)
  BY <1>2, <1>3 DEF Calls, Pcs, ReapsOrphans, Leaves
<1>5. /\ sess'[call[c].s].lock = None
      /\ \A t \in SessIds : t # call[c].s => sess'[t] = sess[t]
  BY <1>2 DEF ReapsOrphans, Leaves, Sessions
<1>6. new.pc \notin LockPcs /\ new.pc \in RolePcs
  BY <1>4 DEF LockPcs, SessPcs, RolePcs
<1>7. HoldsSession(c, new)
  BY <1>1, <1>4, <1>5, <1>6, ReleasesSession
<1>8. HoldsRole(c, new)
  BY <1>1, <1>4, <1>6, KeepsRole
<1> QED
  BY <1>4, <1>7, <1>8, LockedStep

LEMMA KillsLateLocked ==
  ASSUME Shape, Locked, Shape', NEW c \in CallIds, KillsLate(c)
  PROVE  Locked'
<1>0. PICK s, r : s = call[c].s /\ r = call[c].role
  OBVIOUS
<1>1. /\ call[c].pc = "kill" /\ call[c].pc \in LockPcs /\ call[c].pc \in RolePcs
      /\ call[c].kind = "turn" /\ r \in Roles /\ s \in SessIds
  BY <1>0, KillsLateIs
<1>2. PICK o \in Kills(c, s), new \in Calls :
        /\ sess'[s] = [role |-> r, lock |-> None, cli |-> Forgotten(s, o)]
        /\ \A t \in SessIds : t # s => sess'[t] = sess[t]
        /\ Step(c, new) /\ new.kind = "turn" /\ new.role = r
        /\ \/ new.pc = "ended" /\ turnLock' = [turnLock EXCEPT ![r] = None]
           \/ new.pc = "sample" /\ turnLock' = turnLock
  BY <1>0, KillsLateIs
<1>3. new.pc \notin LockPcs
  BY <1>2 DEF LockPcs, SessPcs, RolePcs
<1>4. sess'[call[c].s].lock = None /\ \A t \in SessIds : t # call[c].s => sess'[t] = sess[t]
  BY <1>0, <1>2
<1>5. HoldsSession(c, new)
  BY <1>1, <1>3, <1>4, ReleasesSession
<1>6. HoldsRole(c, new)
  <2>1. CASE new.pc = "sample" /\ turnLock' = turnLock
    <3>1. new.pc \in RolePcs
      BY <2>1 DEF RolePcs
    <3> QED
      BY <1>0, <1>1, <1>2, <2>1, <3>1, KeepsRole
  <2>2. CASE new.pc = "ended" /\ turnLock' = [turnLock EXCEPT ![r] = None]
    <3>1. turnLock[r] = c /\ turnLock \in [Roles -> Holders] /\ None \notin CallIds
      BY <1>0, <1>1, Bounds DEF Locked, Shape, Types
    <3>2. \A q \in Roles : turnLock[q] = c => q = r
      BY <1>0, <3>1 DEF Locked
    <3>3. turnLock'[r] = None /\ \A q \in Roles : q # r => turnLock'[q] = turnLock[q]
      BY <1>1, <2>2, <3>1
    <3>4. new.pc \notin RolePcs
      BY <2>2 DEF RolePcs
    <3> QED
      BY <3>1, <3>2, <3>3, <3>4 DEF HoldsRole
  <2> QED
    BY <1>2, <2>1, <2>2
<1> QED
  BY <1>2, <1>5, <1>6, LockedStep

LEMMA SpawnsCliLocked ==
  ASSUME Shape, Locked, Shape', NEW c \in CallIds, SpawnsCli(c)
  PROVE  Locked'
<1>0. PICK s, r : s = call[c].s /\ r = call[c].role
  OBVIOUS
<1>1. /\ call[c].pc \in {"spawn", "revive"} /\ call[c].pc \in LockPcs /\ call[c].pc \in RolePcs
      /\ s \in SessIds /\ NewCli \in CliIds /\ turnLock' = turnLock /\ None \notin CliIds
      /\ call[c] \in Calls /\ call[c].pc \in LockPcs
  BY <1>0, SpawnsCliIs, AtRole, Bounds DEF SpawnsCli, locks
<1>2. PICK new \in Calls :
        /\ sess'[s] = [role |-> r, cli |-> NewCli, lock |-> IF new.pc = "drain" THEN c ELSE None]
        /\ \A t \in SessIds : t # s => sess'[t] = sess[t]
        /\ Step(c, new)
        /\ \/ new = GivesUp(c) /\ new.pc \in {"lookup", "sample", "ended"}
           \/ /\ call[c].pc = "revive"
              /\ new = [call[c] EXCEPT !.pc = "drain"] /\ new.pc = "drain"
           \/ /\ call[c].pc = "spawn" /\ call[c].kind = "turn"
              /\ new = [call[c] EXCEPT !.pc = "enter"] /\ new.pc = "enter"
           \/ /\ call[c].pc = "spawn" /\ call[c].kind # "turn"
              /\ new = NextRole(c) /\ new.pc \in {"lookup", "ended"}
  BY <1>0, SpawnsCliIs
<1>3. /\ sess'[s].cli = NewCli /\ sess'[s].lock = (IF new.pc = "drain" THEN c ELSE None)
      /\ sess[s].lock = c
  BY <1>0, <1>1, <1>2 DEF Locked
<1>4. /\ new.pc # "drain" => sess'[call[c].s].lock = None
      /\ \A t \in SessIds : t # call[c].s => sess'[t] = sess[t]
  BY <1>0, <1>2, <1>3
<1>5. CASE new = GivesUp(c) /\ new.pc \in {"lookup", "sample", "ended"}
  BY <1>1, <1>2, <1>4, <1>5, GivesUpLocked
<1>6. CASE call[c].kind # "turn" /\ new = NextRole(c) /\ new.pc \in {"lookup", "ended"}
  BY <1>1, <1>2, <1>4, <1>6, NextRoleLocked
<1>7. CASE /\ call[c].kind = "turn" /\ new.pc = "enter"
           /\ new = [call[c] EXCEPT !.pc = "enter"]
  <2>1. new.kind = call[c].kind /\ new.role = call[c].role
    BY <1>1, <1>7 DEF Calls
  <2>2. new.pc \notin LockPcs /\ new.pc \in RolePcs
    BY <1>7 DEF LockPcs, SessPcs, RolePcs
  <2>3. HoldsSession(c, new)
    BY <1>1, <1>4, <1>7, <2>2, ReleasesSession
  <2>4. HoldsRole(c, new)
    BY <1>1, <2>1, <2>2, KeepsRole
  <2> QED
    BY <1>2, <2>3, <2>4, LockedStep
<1>8. CASE new.pc = "drain" /\ new = [call[c] EXCEPT !.pc = "drain"]
  <2>1. new.kind = call[c].kind /\ new.role = call[c].role /\ new.s = call[c].s
    BY <1>1, <1>8 DEF Calls
  <2>2. new.pc \in LockPcs /\ new.pc \in RolePcs
    BY <1>8 DEF LockPcs, SessPcs, RolePcs
  <2>3. /\ \A t \in SessIds : sess'[t].lock = sess[t].lock
        /\ \A t \in SessIds : sess[t].lock # None =>
             sess'[t].cli = sess[t].cli \/ (sess[t].lock = c /\ sess'[t].cli # None)
        /\ sess'[call[c].s].cli # None
    BY <1>0, <1>1, <1>2, <1>3, <1>8
  <2>4. HoldsSession(c, new)
    BY <1>1, <2>1, <2>2, <2>3, KeepsSession
  <2>5. HoldsRole(c, new)
    BY <1>1, <2>1, <2>2, KeepsRole
  <2> QED
    BY <1>2, <2>4, <2>5, LockedStep
<1> QED
  BY <1>2, <1>5, <1>6, <1>7, <1>8

LEMMA ReplacesLocked ==
  ASSUME Shape, Locked, Shape', NEW c \in CallIds, Replaces(c)
  PROVE  Locked'
<1>1. /\ call[c].pc = "respawn" /\ call[c].pc \in LockPcs /\ call[c].pc \in RolePcs
      /\ call[c].pc \notin Cliless /\ call[c].s \in SessIds /\ NewCli \in CliIds
      /\ turnLock' = turnLock /\ None \notin CliIds /\ call[c] \in Calls
  <2>1. call[c].pc = "respawn" /\ call[c].s \in SessIds /\ NewCli \in CliIds
        /\ call[c].pc \in LockPcs /\ call[c].pc \in RolePcs
    BY ReplacesIs
  <2> QED
    BY <2>1, AtRole, Bounds DEF Replaces, locks, Cliless
<1>2. PICK new \in Calls : Step(c, new) /\ new.pc = "reap" /\ new = [call[c] EXCEPT !.pc = "reap"]
  BY ReplacesIs
<1>3. new.kind = call[c].kind /\ new.role = call[c].role /\ new.s = call[c].s
  BY <1>1, <1>2 DEF Calls
<1>4. new.pc \in LockPcs /\ new.pc \in RolePcs
  BY <1>2 DEF LockPcs, SessPcs, RolePcs
<1>5. sess' = sess \/ sess' = [sess EXCEPT ![call[c].s].cli = NewCli]
  BY ReplacesIs
<1>6. /\ \A t \in SessIds : sess'[t].lock = sess[t].lock
      /\ \A t \in SessIds : sess[t].lock # None =>
           sess'[t].cli = sess[t].cli \/ (sess[t].lock = c /\ sess'[t].cli # None)
  <2>1. sess[call[c].s].lock = c /\ sess \in [SessIds -> Sessions]
    BY <1>1 DEF Locked, Shape, Types
  <2> QED
    BY <1>1, <1>5, <2>1 DEF Sessions
<1>7. HoldsSession(c, new)
  BY <1>1, <1>3, <1>4, <1>6, KeepsSession
<1>8. HoldsRole(c, new)
  BY <1>1, <1>3, <1>4, KeepsRole
<1> QED
  BY <1>2, <1>7, <1>8, LockedStep

LEMMA ShutsOneLocked ==
  ASSUME Shape, Locked, Shape', NEW c \in CallIds, NEW r \in Roles, ShutsOne(c, r)
  PROVE  Locked'
<1>0. PICK s : s = registry[r]
  OBVIOUS
<1>1. /\ call[c].pc = "shutting" /\ call[c].kind = "teardown" /\ s \in SessIds
      /\ sess[s].lock = None /\ turnLock' = turnLock
  BY <1>0, ShutsOneIs DEF ShutsOne
<1>2. PICK o \in Kills(c, s), new \in Calls :
        /\ sess'[s] = [role |-> r, lock |-> None, cli |-> Forgotten(s, o)]
        /\ \A t \in SessIds : t # s => sess'[t] = sess[t]
        /\ Step(c, new) /\ new.kind = "teardown" /\ new.pc \in {"ended", "shutting"}
  BY <1>0, ShutsOneIs
<1>3. new.pc \notin LockPcs /\ call[c].pc \notin LockPcs
  BY <1>1, <1>2 DEF LockPcs, SessPcs, RolePcs
<1>4. /\ \A t \in SessIds : sess'[t].lock = sess[t].lock
      /\ \A t \in SessIds : sess[t].lock # None => sess'[t].cli = sess[t].cli
  BY <1>1, <1>2
<1>5. HoldsSession(c, new)
  BY <1>3, <1>4, KeepsSession
<1>6. HoldsRole(c, new)
  BY <1>1, <1>2, KeepsRole
<1> QED
  BY <1>2, <1>5, <1>6, LockedStep

LEMMA SendsLocked == ASSUME Shape, Locked, Shape', Sends PROVE Locked'
<1>1. PICK c \in CallIds, new \in Calls :
        /\ call[c] = NoCall /\ Step(c, new) /\ new.pc \in {"check", "preflight", "shut", "ping"}
        /\ UNCHANGED <<turnLock, sess>>
  BY SendsIs
<1>2. call[c].kind = "none" /\ call[c].pc = "unsent"
  BY <1>1 DEF NoCall
<1>3. new.pc \notin LockPcs /\ call[c].pc \notin LockPcs /\ new.pc \notin RolePcs
  BY <1>1, <1>2 DEF LockPcs, SessPcs, RolePcs
<1>4. HoldsSession(c, new)
  BY <1>1, <1>3, KeepsSession
<1>5. HoldsRole(c, new)
  <2>1. None \notin CallIds
    BY Bounds
  <2>2. \A r \in Roles : turnLock[r] # c
    BY <1>2, <2>1 DEF Locked
  <2> QED
    BY <1>1, <1>3, <2>2 DEF HoldsRole
<1> QED
  BY <1>1, <1>4, <1>5, LockedStep

LEMMA LockedInit == Init => Locked
<1> SUFFICES ASSUME Init PROVE Locked
  OBVIOUS
<1>1. \A c \in CallIds : call[c].pc = "unsent"
  BY DEF Init, NoCall
<1>2. \A s \in SessIds : sess[s].lock = None
  BY DEF Init
<1>3. \A r \in Roles : turnLock[r] = None
  BY DEF Init
<1>4. \A c \in CallIds : call[c].pc \notin LockPcs /\ call[c].pc \notin RolePcs
  BY <1>1 DEF LockPcs, SessPcs, RolePcs
<1> QED
  BY <1>2, <1>3, <1>4 DEF Locked

-----------------------------------------------------------------------------
(***************************************************************************)
(* What every reachable state is like.                                     *)
(***************************************************************************)
LEMMA WorksSolid ==
  ASSUME Shape, Locked, NEW c \in CallIds, Works(c) \/ Expires(c)
  PROVE  Shape' /\ Locked'
<1>1. CASE Checks(c) \/ ReadsEnd(c) \/ Expires(c) \/ Preflights(c) \/ TearsDown(c) \/ Pings(c)
             \/ Reports(c) \/ Clears(c) \/ Shuts(c) \/ Drains(c)
  <2>1. Shape'
    BY <1>1, ChecksShape, ReadsEndShape, ExpiresShape, PreflightsShape, TearsDownShape,
       PingsShape, ReportsShape, ClearsShape, ShutsShape, DrainsShape
  <2> QED
    BY <1>1, <2>1, MoreLocked
<1>2. CASE TakesTurn(c)
  BY <1>2, TakesTurnShape, TakesTurnLocked
<1>3. CASE LooksUp(c)
  BY <1>3, LooksUpShape, LooksUpLocked
<1>4. CASE Evicts(c)
  BY <1>4, EvictsShape, EvictsLocked
<1>5. CASE Ensures(c)
  BY <1>5, EnsuresShape, EnsuresLocked
<1>6. CASE SpawnsCli(c)
  BY <1>6, SpawnsCliShape, SpawnsCliLocked
<1>7. CASE EntersTurn(c)
  BY <1>7, EntersTurnShape, EntersTurnLocked
<1>8. CASE Prompts(c) \/ Polls(c)
  BY <1>8, PromptsShape, PollsShape, PromptsLocked
<1>9. CASE Reads(c)
  BY <1>9, ReadsShape, ReadsLocked
<1>10. CASE KillsLate(c)
  BY <1>10, KillsLateShape, KillsLateLocked
<1>11. CASE Replaces(c)
  BY <1>11, ReplacesShape, ReplacesLocked
<1>12. CASE ReapsOrphans(c)
  BY <1>12, ReapsOrphansShape, ReapsOrphansLocked
<1>13. CASE \E r \in call[c].left : ShutsOne(c, r)
  <2>1. call[c].left \subseteq Roles
    BY DEF Shape, Types, Calls
  <2> QED
    BY <1>13, <2>1, ShutsOneShape, ShutsOneLocked
<1> QED
  BY <1>1, <1>2, <1>3, <1>4, <1>5, <1>6, <1>7, <1>8, <1>9, <1>10, <1>11, <1>12, <1>13 DEF Works

LEMMA SolidNext == Shape /\ Locked /\ [Next]_vars => Shape' /\ Locked'
<1> SUFFICES ASSUME Shape, Locked, [Next]_vars PROVE Shape' /\ Locked'
  OBVIOUS
<1>1. CASE UNCHANGED vars
  BY <1>1 DEF vars, Shape, Locked, Types, Ordered, Numbered, Sent, Made, Born, RegHeld, Owned,
              Fits, HasSession
<1>2. CASE Sends
  BY <1>2, SendsShape, SendsLocked
<1>3. CASE Hears \/ Abandons \/ \E k \in CliIds : Answers(k) \/ Exits(k)
  <2>1. Shape' /\ UNCHANGED <<call, turnLock, sess>>
    BY <1>3, OutsideSteps
  <2> QED
    BY <2>1 DEF Locked
<1>4. CASE Runs
  BY <1>4, WorksSolid DEF Runs
<1> QED
  BY <1>1, <1>2, <1>3, <1>4 DEF Next

\* A lock is held by a call that is at work.
LEMMA SolidWorks == Shape /\ Locked => HoldersWork
<1> SUFFICES ASSUME Shape, Locked PROVE HoldersWork
  OBVIOUS
<1>1. \A s \in SessIds : sess[s].lock # None => call[sess[s].lock].pc \notin {"unsent", "ended"}
  BY DEF Locked, LockPcs, SessPcs, RolePcs
<1>2. \A r \in Roles : turnLock[r] # None => call[turnLock[r]].pc \notin {"unsent", "ended"}
  BY DEF Locked, RolePcs
<1>3. regLock # None => call[regLock].pc \notin {"unsent", "ended"}
  <2>1. regLock # None => regLock \in CallIds
    BY DEF Shape, Types, Holders
  <2> QED
    BY <2>1 DEF Shape, RegHeld
<1> QED
  BY <1>1, <1>2, <1>3 DEF HoldersWork

THEOREM Solid == Spec => [](Shape /\ Locked)
<1>1. Init => Shape /\ Locked
  BY ShapeInit, LockedInit
<1> QED
  BY <1>1, SolidNext, PTL DEF Spec

\* Every variable keeps its shape, and a lock is always held by a call that
\* has not ended: a thread that leaves a turn, for whatever reason, leaves
\* no lock behind.
THEOREM TypeCorrect == Spec => []TypeOK
<1>1. Shape /\ Locked => TypeOK
  BY SolidWorks, TypesSuffice DEF Shape
<1> QED
  BY <1>1, Solid, PTL

=============================================================================
