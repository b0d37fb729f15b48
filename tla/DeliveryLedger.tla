--------------------------- MODULE DeliveryLedger ---------------------------
(***************************************************************************)
(* What the deliveries table promises, whatever the drain does in between: *)
(* a delivery is received once, is worked on by one turn at a time, and is *)
(* settled once and for good; "routed" is said only of a delivery an agent *)
(* was given, and a settled delivery is never given to an agent again.     *)
(***************************************************************************)
EXTENDS Naturals

CONSTANT Deliveries

Outcomes == {"routed", "dropped", "done"}

VARIABLES
    status,    \* deliveries.status
    turns,     \* turns the runners accepted for a delivery
    running    \* the delivery an agent is at work on, or 0

ledger == <<status, turns, running>>

Init ==
    /\ status = [d \in Deliveries |-> "absent"]
    /\ turns = [d \in Deliveries |-> 0]
    /\ running = 0

Receive(d) ==
    /\ status[d] = "absent"
    /\ status' = [status EXCEPT ![d] = "deferred"]
    /\ UNCHANGED <<turns, running>>

Begin(d) ==
    /\ running = 0 /\ status[d] = "deferred"
    /\ running' = d
    /\ turns' = [turns EXCEPT ![d] = @ + 1]
    /\ UNCHANGED status

\* The runner turned the work down: the delivery is as it was.
Refuse(d) ==
    /\ running = d
    /\ running' = 0
    /\ turns' = [turns EXCEPT ![d] = @ - 1]
    /\ UNCHANGED status

Finish(d) ==
    /\ running = d /\ turns[d] > 0
    /\ running' = 0
    /\ \E outcome \in {"routed", "done"} :
        status' = [status EXCEPT ![d] = outcome]
    /\ UNCHANGED turns

\* The gateway was killed while an agent worked.
Abandon == running' = 0 /\ UNCHANGED <<status, turns>>

\* Nothing for an agent to do, or nothing more.
Close(d) ==
    /\ running = 0 /\ status[d] = "deferred"
    /\ \E outcome \in {"dropped", "done"} :
        status' = [status EXCEPT ![d] = outcome]
    /\ UNCHANGED <<turns, running>>

Next == \/ \E d \in Deliveries : \/ Receive(d) \/ Begin(d) \/ Refuse(d)
                                 \/ Finish(d) \/ Close(d)
        \/ Abandon

Spec == Init /\ [][Next]_ledger
=============================================================================
