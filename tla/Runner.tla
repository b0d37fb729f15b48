------------------------------- MODULE Runner -------------------------------
(***************************************************************************)
(* agentd-runner, the first process of a project's container.  Every       *)
(* connection of the gateway is a thread; threads share one CLI process    *)
(* per role through a registry of sessions.  Three kinds of lock order     *)
(* them: the turn lock of a role (server.py), the registry lock and the    *)
(* lock of a session (cli_session.py), taken in that order.                *)
(*                                                                         *)
(* The gateway waits for one call at a time, but a killed or timed out     *)
(* gateway leaves the thread of its call behind and the next one calls     *)
(* again.  A CLI answers the prompts on its pipe in order, at its own      *)
(* pace; it may exit, leave children behind, refuse to die, or answer a    *)
(* prompt a second time after it has reported an error.                    *)
(*                                                                         *)
(* Models and adapters do not change; which conversation a new CLI         *)
(* re-enters is left out.                                                  *)
(***************************************************************************)
EXTENDS Integers, Sequences, FiniteSets

CONSTANTS RoleOrder,     \* ROLE_UIDS, in order
          Correlated,    \* roles whose adapter answers by request id (grok)
          Scripts,       \* bound: the calls the gateway makes, in order
          MaxCalls, MaxSessions, MaxClis,  \* bounds: objects made
          MaxFaults,     \* bound: exits, failed kills and spawns, second answers
          MaxAbandoned   \* bound: calls whose gateway is gone

Roles == {RoleOrder[i] : i \in DOMAIN RoleOrder}
Requests == [kind : {"turn", "resume", "teardown", "ping"}, role : Roles]
ASSUME RunnerAssumption ==
    /\ RoleOrder \in Seq(Roles) /\ "none" \notin Roles
    /\ \A i, j \in DOMAIN RoleOrder : RoleOrder[i] = RoleOrder[j] => i = j
    /\ Correlated \subseteq Roles
    /\ \A sc \in Scripts : sc \in Seq(Requests) /\ Len(sc) <= MaxCalls
    /\ {MaxCalls, MaxSessions, MaxClis, MaxFaults, MaxAbandoned} \subseteq Nat
    /\ MaxSessions >= Len(RoleOrder) /\ MaxClis >= Len(RoleOrder)

CallIds == 1..MaxCalls
SessIds == 1..MaxSessions
CliIds == 1..MaxClis
None == 0

VARIABLES
    call,         \* the threads, one per call
    script,       \* what this gateway will ask for
    waiting,      \* the call the gateway waits for
    initialized,  \* STATE.initialized
    turnLock,     \* STATE._role_locks: the holder
    regLock,      \* _REGISTRY_LOCK: the holder
    registry,     \* _SESSIONS: the session of each role
    sess,         \* LiveCliSession objects: their lock and their process
    cli,          \* CLI processes, their pipes included
    faults, abandoned

threads == <<call, script, waiting>>
locks == <<turnLock, regLock>>
world == <<faults, abandoned>>
vars == <<call, script, waiting, initialized, turnLock, regLock, registry, sess, cli,
          faults, abandoned>>

NoCall == [kind |-> "none", role |-> "none", pc |-> "unsent", todo |-> <<>>, left |-> {}, s |-> None,
           heard |-> {}, answer |-> "none", saw |-> {}]
Frames == [of : CallIds, kind : {"text", "result", "error"}]

Sent == {c \in CallIds : call[c].pc # "unsent"}
Made == {s \in SessIds : sess[s].role # "none"}
Born == {k \in CliIds : cli[k].fate # "unborn"}
NewSess == Cardinality(Made) + 1
NewCli == Cardinality(Born) + 1

Up(k) == k # None /\ cli[k].fate = "up"
Alive(s) == s # None /\ Up(sess[s].cli)        \* is_alive()
Busy(k) == Up(k) /\ cli[k].inbox # <<>>

At(c, pc) == call[c].pc = pc
Go(c, pc) == call' = [call EXCEPT ![c].pc = pc]
Step(c, new) == call' = [call EXCEPT ![c] = new]
Ends(c, how) == [call[c] EXCEPT !.pc = "ended", !.answer = how, !.s = None, !.todo = <<>>, !.left = {}]
Fault == faults < MaxFaults /\ faults' = faults + 1

\* The container's session.init has been answered, which it is whether or
\* not the CLIs could be started; the first turn will try again.
Init ==
    /\ call = [c \in CallIds |-> NoCall]
    /\ script \in Scripts /\ waiting = None /\ initialized = TRUE
    /\ turnLock = [r \in Roles |-> None] /\ regLock = None
    /\ registry = [r \in Roles |-> CHOOSE i \in DOMAIN RoleOrder : RoleOrder[i] = r]
    /\ \E started \in {{}, Roles} :
        /\ sess = [s \in SessIds |->
                     IF s <= Len(RoleOrder)
                     THEN [role |-> RoleOrder[s], lock |-> None,
                           cli |-> IF RoleOrder[s] \in started THEN s ELSE None]
                     ELSE [role |-> "none", lock |-> None, cli |-> None]]
        /\ cli = [k \in CliIds |->
                    IF k <= Len(RoleOrder)
                    THEN [role |-> RoleOrder[k], inbox |-> <<>>, out |-> <<>>,
                          greeted |-> TRUE, kept |-> "no",
                          fate |-> IF RoleOrder[k] \in started THEN "up" ELSE "gone"]
                    ELSE [role |-> "none", inbox |-> <<>>, out |-> <<>>,
                          greeted |-> FALSE, kept |-> "no", fate |-> "unborn"]]
    /\ faults = 0 /\ abandoned = 0

(***************************************************************************)
(* The gateway.                                                            *)
(***************************************************************************)
Enters == [turn |-> "check", resume |-> "preflight", teardown |-> "shut", ping |-> "ping"]

\* session.resume is for a runner that says it cannot serve.
Sends ==
    LET c == Cardinality(Sent) + 1
    IN  /\ waiting = None /\ c \in DOMAIN script
        /\ script[c].kind = "resume" => ~initialized
        /\ Step(c, [NoCall EXCEPT !.kind = script[c].kind,
                                  !.role = IF script[c].kind = "resume" THEN RoleOrder[1] ELSE script[c].role,
                                  !.pc = Enters[script[c].kind],
                                  !.todo = IF script[c].kind = "resume" THEN RoleOrder ELSE <<>>])
        /\ waiting' = c
        /\ UNCHANGED <<script, initialized, locks, registry, sess, cli, world>>

Hears == /\ waiting # None /\ At(waiting, "ended")
         /\ waiting' = None
         /\ UNCHANGED <<call, script, initialized, locks, registry, sess, cli, world>>

\* The gateway is killed, or stops waiting; the thread does not know.
Abandons == /\ waiting # None /\ ~At(waiting, "ended")
            /\ abandoned < MaxAbandoned /\ abandoned' = abandoned + 1
            /\ waiting' = None
            /\ UNCHANGED <<call, script, initialized, locks, registry, sess, cli, faults>>

(***************************************************************************)
(* A CLI: prompts are answered in order.  After an error claude may come   *)
(* back to the same prompt.                                                *)
(***************************************************************************)
Says(k, kind) ==
    LET p == Head(cli[k].inbox)
    IN  IF cli[k].role \in Correlated
        THEN <<[of |-> p, kind |-> "text"], [of |-> p, kind |-> kind]>>
        ELSE <<[of |-> p, kind |-> kind]>>

Answers(k) ==
    /\ Busy(k)
    /\ \/ \E kind \in {"result", "error"} :
            cli' = [cli EXCEPT ![k].out = @ \o Says(k, kind), ![k].inbox = Tail(@)]
          /\ UNCHANGED faults
       \/ /\ cli[k].role \notin Correlated /\ Fault
          /\ cli' = [cli EXCEPT ![k].out = @ \o Says(k, "error")]
    /\ UNCHANGED <<threads, initialized, locks, registry, sess, abandoned>>

\* With or without children left running in its process group.
Exits(k) ==
    /\ Up(k) /\ Fault
    /\ \E fate \in {"left", "gone"} : cli' = [cli EXCEPT ![k].fate = fate]
    /\ UNCHANGED <<threads, initialized, locks, registry, sess, abandoned>>

(***************************************************************************)
(* Killing: what may come of it, as the process, whether the session       *)
(* forgets it, and what the caller is told.  The signal is sent by a       *)
(* forked helper; if another thread reaps the helper first, waiting for it *)
(* raises.                                                                 *)
(***************************************************************************)
Reaps(c) == \E d \in CallIds \ {c} : call[d].pc \in {"reap", "spawn", "respawn", "kill"}

KillFails(fate) ==
    IF faults = MaxFaults THEN {}
    ELSE IF fate = "up"
         THEN {[fate |-> "up", forget |-> FALSE, told |-> "kept"],
               [fate |-> "left", forget |-> FALSE, told |-> "kept"]}
         ELSE {[fate |-> "left", forget |-> TRUE, told |-> "kept"]}

KillRaises(c, fate) ==
    IF Reaps(c) /\ faults < MaxFaults
    THEN {[fate |-> f, forget |-> FALSE, told |-> "raised"] : f \in {fate, "left", "gone"}}
    ELSE {}

Killed == [fate |-> "gone", forget |-> TRUE, told |-> "killed"]

Kills(c, s) ==
    LET k == sess[s].cli
    IN  IF k = None \/ cli[k].fate = "gone" THEN {Killed}
        ELSE {Killed} \union KillFails(cli[k].fate) \union KillRaises(c, cli[k].fate)

\* What an outcome o does to the process of session s, and what it is told;
\* a CLI that survives is marked with what its session makes of it.
Dead(s, o, mark) ==
    IF sess[s].cli = None THEN cli
    ELSE [cli EXCEPT ![sess[s].cli].fate = o.fate,
                     ![sess[s].cli].kept = IF o.fate = "up" THEN mark ELSE @,
                     ![sess[s].cli].inbox = IF o.fate = "up" THEN @ ELSE <<>>,
                     ![sess[s].cli].out = IF o.forget THEN <<>> ELSE @]
ForgottenAtOnce(s, o) == None
Forgotten(s, o) == IF o.forget THEN None ELSE sess[s].cli
Counted(o) == faults' = faults + (IF o.told = "killed" THEN 0 ELSE 1)

(***************************************************************************)
(* Spawning: a child that dies within the liveness window raises; a grok   *)
(* that does not answer the handshake raises too, and is left running.     *)
(***************************************************************************)
Child(s, fate, greeted) == [role |-> sess[s].role, inbox |-> <<>>, out |-> <<>>,
                            greeted |-> greeted, kept |-> "no", fate |-> fate]
Spawns(s) == {[child |-> Child(s, "up", TRUE), ok |-> TRUE]}
                \union IF faults = MaxFaults THEN {}
                       ELSE {[child |-> Child(s, "gone", FALSE), ok |-> FALSE]}
                              \union IF sess[s].role \in Correlated
                                     THEN {[child |-> Child(s, "up", FALSE), ok |-> FALSE]}
                                     ELSE {}
Tried(b) == faults' = faults + (IF b.ok THEN 0 ELSE 1)

(***************************************************************************)
(* turn.dispatch and turn.resume.                                          *)
(***************************************************************************)
Checks(c) ==
    /\ At(c, "check")
    /\ IF initialized THEN Go(c, "queue") ELSE Step(c, Ends(c, "refused"))
    /\ UNCHANGED <<script, waiting, initialized, locks, registry, sess, cli, world>>

TakesTurn(c) ==
    /\ At(c, "queue") /\ turnLock[call[c].role] = None
    /\ turnLock' = [turnLock EXCEPT ![call[c].role] = c]
    /\ Go(c, "lookup")
    /\ UNCHANGED <<script, waiting, initialized, regLock, registry, sess, cli, world>>

\* The end of a thread's work for its role: a turn reads the memory of the
\* CLIs, releases the role and answers; session.resume goes on to the next.
NextRole(c) == IF Len(call[c].todo) > 1
               THEN [call[c] EXCEPT !.todo = Tail(@), !.role = call[c].todo[2], !.pc = "lookup"]
               ELSE Ends(c, "ok")
GivesUp(c) == IF call[c].kind = "turn" THEN [call[c] EXCEPT !.pc = "sample", !.answer = "failed"]
                                       ELSE NextRole(c)

Registers(c) ==
    /\ NewSess <= MaxSessions
    /\ registry' = [registry EXCEPT ![call[c].role] = NewSess]
    /\ Step(c, [call[c] EXCEPT !.s = NewSess, !.pc = "ensure"])

\* get_or_create_session: a session whose CLI is alive is shared.
LooksUp(c) ==
    /\ At(c, "lookup") /\ regLock = None
    /\ LET s == registry[call[c].role]
       IN  \/ /\ Alive(s)
              /\ Step(c, [call[c] EXCEPT !.s = s, !.pc = "ensure"])
              /\ UNCHANGED <<regLock, registry, sess>>
           \/ /\ s # None /\ ~Alive(s)
              /\ regLock' = c /\ Go(c, "evict")
              /\ UNCHANGED <<registry, sess>>
           \/ /\ s = None /\ Registers(c)
              /\ sess' = [sess EXCEPT ![NewSess].role = call[c].role]
              /\ UNCHANGED regLock
    /\ UNCHANGED <<script, waiting, initialized, turnLock, cli, world>>

\* The old session is shut down under the registry lock, and replaced
\* whatever came of it; only an exception is passed on.
Evicts(c) ==
    /\ At(c, "evict")
    /\ LET s == registry[call[c].role]
       IN  /\ sess[s].lock = None
           /\ \E o \in Kills(c, s) :
                /\ cli' = Dead(s, o, "here") /\ Counted(o)
                /\ IF o.told = "raised"
                   THEN /\ sess' = sess /\ registry' = registry
                        /\ IF call[c].kind = "turn"
                           THEN Step(c, Ends(c, "error")) /\ turnLock' = [turnLock EXCEPT ![call[c].role] = None]
                           ELSE Step(c, NextRole(c)) /\ UNCHANGED turnLock
                   ELSE /\ Registers(c) /\ UNCHANGED turnLock
                        /\ sess' = [sess EXCEPT ![s].cli = Forgotten(s, o),
                                                ![NewSess].role = call[c].role]
    /\ regLock' = None
    /\ UNCHANGED <<script, waiting, initialized, abandoned>>

\* ensure_spawned, under the session's lock.
Ensures(c) ==
    /\ At(c, "ensure") /\ sess[call[c].s].lock = None
    /\ IF Alive(call[c].s)
       THEN /\ IF call[c].kind = "turn" THEN Go(c, "enter") ELSE Step(c, NextRole(c))
            /\ UNCHANGED sess
       ELSE /\ Go(c, "spawn")
            /\ sess' = [sess EXCEPT ![call[c].s].lock = c]
    /\ UNCHANGED <<script, waiting, initialized, locks, registry, cli, world>>

\* From ensure_spawned, and from turn() when the CLI has died since.
SpawnsCli(c) ==
    /\ call[c].pc \in {"spawn", "revive"} /\ NewCli <= MaxClis
    /\ LET s == call[c].s
       IN  \E b \in Spawns(s) :
            /\ Tried(b)
            /\ cli' = [cli EXCEPT ![NewCli] = b.child]
            /\ sess' = [sess EXCEPT ![s].cli = NewCli,
                                    ![s].lock = IF At(c, "spawn") \/ ~b.ok THEN None ELSE c]
            /\ IF ~b.ok THEN Step(c, GivesUp(c))
               ELSE IF At(c, "revive") THEN Go(c, "drain")
               ELSE IF call[c].kind = "turn" THEN Go(c, "enter") ELSE Step(c, NextRole(c))
    /\ UNCHANGED <<script, waiting, initialized, locks, registry, abandoned>>

(***************************************************************************)
(* LiveCliSession.turn, under the session's lock.                          *)
(***************************************************************************)
EntersTurn(c) ==
    /\ At(c, "enter") /\ sess[call[c].s].lock = None
    /\ sess' = [sess EXCEPT ![call[c].s].lock = c]
    /\ Go(c, IF Alive(call[c].s) THEN "drain" ELSE "revive")
    /\ UNCHANGED <<script, waiting, initialized, locks, registry, cli, world>>

\* The turn is over for the session; its lock is released.
LeavesHolding(c, new) == Step(c, new) /\ UNCHANGED sess
Leaves(c, new) ==
    /\ Step(c, new)
    /\ sess' = [sess EXCEPT ![call[c].s].lock = None]

Cli(c) == sess[call[c].s].cli

\* What is on the pipe before the prompt is stale.
Stale(c) == <<>>
Drains(c) ==
    /\ At(c, "drain")
    /\ cli' = [cli EXCEPT ![Cli(c)].out = Stale(c)]
    /\ Go(c, "write")
    /\ UNCHANGED <<script, waiting, initialized, locks, registry, sess, world>>

\* A grok that never answered the handshake is asked again first.
Prompts(c) ==
    /\ At(c, "write")
    /\ \/ /\ Up(Cli(c))
          /\ cli' = [cli EXCEPT ![Cli(c)].inbox = Append(@, c), ![Cli(c)].greeted = TRUE]
          /\ Go(c, "poll") /\ UNCHANGED sess
       \/ /\ ~Up(Cli(c)) \/ ~cli[Cli(c)].greeted
          /\ Leaves(c, GivesUp(c)) /\ UNCHANGED cli
    /\ UNCHANGED <<script, waiting, initialized, locks, registry, world>>

\* Each round first asks whether the CLI is still there.
Polls(c) ==
    /\ At(c, "poll")
    /\ IF Up(Cli(c)) THEN Go(c, "read") /\ UNCHANGED sess
                     ELSE Leaves(c, GivesUp(c))
    /\ UNCHANGED <<script, waiting, initialized, locks, registry, cli, world>>

Mine(c, f) == f.kind = "text" \/ call[c].role \notin Correlated \/ f.of = c

\* An error of claude is answered with a fresh CLI (ADR-29).
AfterKept(c, f) == "reap"
After(c, f) == IF f.kind = "error" /\ call[c].role \notin Correlated THEN "respawn" ELSE "reap"

Reads(c) ==
    /\ At(c, "read") /\ cli[Cli(c)].out # <<>>
    /\ LET f == Head(cli[Cli(c)].out)
           next == IF ~Mine(c, f) \/ f.kind = "text" THEN "poll" ELSE After(c, f)
       IN  Step(c, [call[c] EXCEPT !.pc = next,
                                   !.heard = IF Mine(c, f) THEN @ \union {f.of} ELSE @,
                                   !.answer = IF next = "poll" THEN @
                                              ELSE IF f.kind = "result" THEN "ok" ELSE "failed"])
    /\ cli' = [cli EXCEPT ![Cli(c)].out = Tail(@)]
    /\ UNCHANGED <<script, waiting, initialized, locks, registry, sess, world>>

\* End of file, once nobody holds the pipe.
ReadsEnd(c) ==
    /\ At(c, "read") /\ ~Up(Cli(c)) /\ cli[Cli(c)].out = <<>>
    /\ Go(c, "poll")
    /\ UNCHANGED <<script, waiting, initialized, locks, registry, sess, cli, world>>

Expires(c) ==
    /\ call[c].pc \in {"poll", "read"}
    /\ Go(c, "kill")
    /\ UNCHANGED <<script, waiting, initialized, locks, registry, sess, cli, world>>

\* The deadline: the CLI is killed, or the report says it could not be.
KillsLate(c) ==
    /\ At(c, "kill")
    /\ LET s == call[c].s  r == call[c].role
       IN  \E o \in Kills(c, s) :
            /\ cli' = Dead(s, o, "here") /\ Counted(o)
            /\ sess' = [sess EXCEPT ![s].lock = None, ![s].cli = Forgotten(s, o)]
            /\ IF o.told = "raised"
               THEN Step(c, Ends(c, "error")) /\ turnLock' = [turnLock EXCEPT ![r] = None]
               ELSE Step(c, GivesUp(c)) /\ UNCHANGED turnLock
    /\ UNCHANGED <<script, waiting, initialized, regLock, registry, abandoned>>

\* An error does not prove the vendor is done with the prompt: the CLI is
\* replaced, killed or not.  Only a kill that raises leaves the old one.
Replaces(c) ==
    /\ At(c, "respawn") /\ NewCli <= MaxClis
    /\ LET s == call[c].s
       IN  \E o \in Kills(c, s) :
            /\ IF o.told = "raised"
               THEN /\ cli' = Dead(s, o, "here") /\ Counted(o) /\ sess' = sess
               ELSE \E b \in Spawns(s) :
                    /\ cli' = [Dead(s, o, "replaced") EXCEPT ![NewCli] = b.child]
                    /\ faults' = faults + (IF o.told = "killed" THEN 0 ELSE 1)
                                        + (IF b.ok THEN 0 ELSE 1)
                    /\ faults' <= MaxFaults
                    /\ sess' = [sess EXCEPT ![s].cli = NewCli]
    /\ Go(c, "reap")
    /\ UNCHANGED <<script, waiting, initialized, locks, registry, abandoned>>

\* Orphans are reaped under the session's lock, without the registry's.
MayReapLocked(c) == regLock = None
MayReap(c) == TRUE
ReapsOrphans(c) ==
    /\ At(c, "reap") /\ MayReap(c)
    /\ Leaves(c, [call[c] EXCEPT !.pc = "sample"])
    /\ UNCHANGED <<script, waiting, initialized, locks, registry, cli, world>>

\* rss_snapshot takes the registry lock; then the role is free.
Reports(c) ==
    /\ At(c, "sample") /\ regLock = None
    /\ Step(c, Ends(c, call[c].answer))
    /\ turnLock' = [turnLock EXCEPT ![call[c].role] = None]
    /\ UNCHANGED <<script, waiting, initialized, regLock, registry, sess, cli, world>>

(***************************************************************************)
(* session.resume, session.teardown and health.ping.                       *)
(***************************************************************************)
Preflights(c) ==
    /\ At(c, "preflight")
    /\ \/ initialized' = TRUE /\ Go(c, "lookup") /\ UNCHANGED faults
       \/ initialized' = FALSE /\ Step(c, Ends(c, "refused")) /\ Fault
    /\ UNCHANGED <<script, waiting, locks, registry, sess, cli, abandoned>>

Listed == {r \in Roles : registry[r] # None}

Shuts(c) ==
    /\ At(c, "shut") /\ regLock = None
    /\ regLock' = c
    /\ Step(c, [call[c] EXCEPT !.pc = "shutting", !.left = Listed,
                        !.saw = {k \in CliIds : Up(k) /\ \E r \in Listed : sess[registry[r]].cli = k}])
    /\ UNCHANGED <<script, waiting, initialized, turnLock, registry, sess, cli, world>>

\* One failure is enough to fail the call.
VerdictKilled(c, o) == call[c].answer
Verdict(c, o) == IF o.told = "killed" THEN call[c].answer ELSE "failed"

\* In the order in which the sessions were first made, which is any.
ShutsOne(c, r) ==
    /\ At(c, "shutting") /\ r \in call[c].left
    /\ LET s == registry[r]
       IN  /\ sess[s].lock = None
           /\ \E o \in Kills(c, s) :
                /\ cli' = Dead(s, o, "torn") /\ Counted(o)
                /\ sess' = [sess EXCEPT ![s].cli = Forgotten(s, o)]
                /\ IF o.told = "raised"
                   THEN Step(c, Ends(c, "error")) /\ regLock' = None
                   ELSE /\ Step(c, [call[c] EXCEPT !.left = @ \ {r}, !.answer = Verdict(c, o)])
                        /\ UNCHANGED regLock
    /\ UNCHANGED <<script, waiting, initialized, turnLock, registry, abandoned>>

\* The registry forgets every session, dead or not.
Clears(c) ==
    /\ At(c, "shutting") /\ call[c].left = {}
    /\ registry' = [r \in Roles |-> None]
    /\ regLock' = None /\ Go(c, "close")
    /\ UNCHANGED <<script, waiting, initialized, turnLock, sess, cli, world>>

TearsDown(c) ==
    /\ At(c, "close")
    /\ initialized' = FALSE
    /\ Step(c, Ends(c, IF call[c].answer = "failed" THEN "failed" ELSE "ok"))
    /\ UNCHANGED <<script, waiting, locks, registry, sess, cli, world>>

Pings(c) ==
    /\ At(c, "ping") /\ regLock = None
    /\ Step(c, Ends(c, "ok"))
    /\ UNCHANGED <<script, waiting, initialized, locks, registry, sess, cli, world>>

Works(c) ==
    \/ Checks(c) \/ TakesTurn(c) \/ LooksUp(c) \/ Evicts(c) \/ Ensures(c) \/ SpawnsCli(c)
    \/ EntersTurn(c) \/ Drains(c) \/ Prompts(c) \/ Polls(c) \/ Reads(c) \/ ReadsEnd(c)
    \/ KillsLate(c) \/ Replaces(c) \/ ReapsOrphans(c) \/ Reports(c)
    \/ Preflights(c) \/ Shuts(c) \/ (\E r \in call[c].left : ShutsOne(c, r)) \/ Clears(c) \/ TearsDown(c) \/ Pings(c)

Runs == \E c \in CallIds : Works(c) \/ Expires(c)

Next ==
    \/ Sends \/ Hears \/ Abandons
    \/ \E k \in CliIds : Answers(k) \/ Exits(k)
    \/ Runs

Spec == Init /\ [][Next]_vars

\* Some thread that can run does, and deadlines pass; a CLI, and the gateway,
\* need not do anything.
FairSpec == Spec /\ WF_vars(Runs)

(***************************************************************************)
(* Properties.                                                             *)
(***************************************************************************)
Holders == CallIds \union {None}

\* Every variable keeps its shape; a lock is held by a call that has not
\* ended.
TypeOK ==
    /\ call \in [CallIds ->
         [kind : {"none", "turn", "resume", "teardown", "ping"}, role : Roles \union {"none"},
          pc : {"unsent", "check", "queue", "lookup", "evict", "ensure", "spawn", "enter",
                "revive", "drain", "write", "poll", "read", "kill", "respawn",
                "reap", "sample", "preflight", "shut", "shutting", "close", "ping", "ended"},
          todo : Seq(Roles), left : SUBSET Roles, s : SessIds \union {None}, heard : SUBSET CallIds,
          answer : {"none", "ok", "failed", "refused", "error"}, saw : SUBSET CliIds]]
    /\ script \in Scripts /\ waiting \in Holders /\ initialized \in BOOLEAN
    /\ turnLock \in [Roles -> Holders] /\ regLock \in Holders
    /\ registry \in [Roles -> SessIds \union {None}]
    /\ sess \in [SessIds -> [role : Roles \union {"none"}, lock : Holders,
                             cli : CliIds \union {None}]]
    /\ cli \in [CliIds -> [role : Roles \union {"none"}, inbox : Seq(CallIds),
                           out : Seq(Frames), greeted : BOOLEAN, kept : {"no", "here", "replaced", "torn"},
                           fate : {"unborn", "up", "left", "gone"}]]
    /\ faults \in 0..MaxFaults /\ abandoned \in 0..MaxAbandoned
    /\ \A c \in {regLock} \union {turnLock[r] : r \in Roles} \union {sess[s].lock : s \in SessIds} :
         c # None => call[c].pc \notin {"unsent", "ended"}

\* The runner keeps what the gateway counts on.
AskedOf(x) == IF x.kind = "turn" THEN x.role ELSE "none"
PhaseOf(x) == CASE x.kind # "turn" -> "idle"
                [] x.kind = "turn" /\ x.pc \in {"check", "queue"} -> "waiting"
                [] x.kind = "turn" /\ x.pc = "ended" -> "ended"
                [] OTHER -> "served"
Asked == [c \in CallIds |-> AskedOf(call[c])]
Phase == [c \in CallIds |-> PhaseOf(call[c])]
Heard == [c \in CallIds |-> call[c].heard]
Spoiled == {cli[k].role : k \in {n \in CliIds : /\ cli[n].kept # "no"
                                              /\ \E s \in SessIds : sess[s].cli = n}}
Service == INSTANCE TurnService WITH
    Turns <- CallIds, NoRole <- "none", of <- Asked, phase <- Phase, heard <- Heard,
    spoiled <- Spoiled
ServesTurns == Service!Spec

\* A CLI that runs is held by a session in use, where the next turn or a
\* teardown finds it, unless a failed replacement or a failed teardown has
\* said otherwise.  A thread the gateway has left behind may spawn beside a
\* teardown or a resume.
Held(k) == \E s \in SessIds :
             /\ sess[s].cli = k
             /\ \/ \E r \in Roles : registry[r] = s
                \/ \E c \in CallIds : call[c].s = s /\ ~At(c, "ended")
Orderly == abandoned = 0 \/ \A c \in CallIds : call[c].kind \notin {"resume", "teardown"}
NothingForgotten == Orderly => \A k \in CliIds : 
                        Up(k) => Held(k) \/ cli[k].kept \in {"replaced", "torn"}

\* When session.teardown says ok, no CLI it found runs on.
TeardownTells ==
    \A c \in CallIds :
        (At(c, "ended") /\ call[c].kind = "teardown" /\ call[c].answer = "ok")
            => \A k \in call[c].saw : Up(k) => cli[k].kept = "replaced"

\* Every call is answered: the locks are taken in an order nobody inverts,
\* and what a turn waits for it does not wait for beyond its deadline.
EveryCallEnds == []<>(\A c \in CallIds : call[c].pc \in {"unsent", "ended"})
=============================================================================
