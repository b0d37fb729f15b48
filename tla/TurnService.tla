----------------------------- MODULE TurnService -----------------------------
(***************************************************************************)
(* What the gateway counts on when it asks a runner for a turn: the turns  *)
(* of a role are served one at a time, and what a turn reports was said in *)
(* answer to its own prompt.  A role whose CLI could not be killed is      *)
(* spoiled until another CLI takes its place; only then may a turn hear    *)
(* what was said to another.                                               *)
(***************************************************************************)
CONSTANTS Roles, Turns, NoRole

VARIABLES
    of,        \* the role asked, NoRole before the turn is asked for
    phase,     \* idle, waiting, served, ended
    heard,     \* the turns whose prompts the report answers
    spoiled    \* roles whose CLI would not die

service == <<of, phase, heard, spoiled>>

Init ==
    /\ of = [t \in Turns |-> NoRole]
    /\ phase = [t \in Turns |-> "idle"]
    /\ heard = [t \in Turns |-> {}]
    /\ spoiled = {}

Ask(t, r) ==
    /\ phase[t] = "idle"
    /\ of' = [of EXCEPT ![t] = r]
    /\ phase' = [phase EXCEPT ![t] = "waiting"]
    /\ UNCHANGED <<heard, spoiled>>

Serve(t) ==
    /\ phase[t] = "waiting"
    /\ \A u \in Turns : of[u] = of[t] => phase[u] # "served"
    /\ phase' = [phase EXCEPT ![t] = "served"]
    /\ UNCHANGED <<of, heard, spoiled>>

Hear(t, u) ==
    /\ phase[t] = "served"
    /\ u = t \/ (of[t] \in spoiled /\ of[u] = of[t])
    /\ heard' = [heard EXCEPT ![t] = @ \union {u}]
    /\ UNCHANGED <<of, phase, spoiled>>

\* A turn refused ends without having been served.  A role is spoiled, if at
\* all, by the turn that could not kill its CLI.
End(t) ==
    /\ phase[t] \in {"waiting", "served"}
    /\ phase' = [phase EXCEPT ![t] = "ended"]
    /\ spoiled' \in {spoiled, spoiled \union {of[t]}}
    /\ UNCHANGED <<of, heard>>

Spoil(r) == spoiled' = spoiled \union {r} /\ UNCHANGED <<of, phase, heard>>
Heal(r) == spoiled' = spoiled \ {r} /\ UNCHANGED <<of, phase, heard>>

Next == \/ \E t \in Turns : \/ \E r \in Roles : Ask(t, r)
                            \/ Serve(t) \/ End(t)
                            \/ \E u \in Turns : Hear(t, u)
        \/ \E r \in Roles : Spoil(r) \/ Heal(r)

Spec == Init /\ [][Next]_service
=============================================================================
