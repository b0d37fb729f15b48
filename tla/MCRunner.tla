------------------------------ MODULE MCRunner ------------------------------
(***************************************************************************)
(* The runner with a claude and a grok, which answers by request id, and   *)
(* the calls a gateway makes of them over a few minutes.                   *)
(***************************************************************************)
EXTENDS Runner

BothRoles == <<"architect", "developer">>

Turn(r) == [kind |-> "turn", role |-> r]
Call(kind) == [kind |-> kind, role |-> "architect"]

\* Turns of one role behind each other; both roles, then a teardown; a
\* runner torn down and taken into service again; a ping meanwhile.
GatewayCalls ==
    {<<Turn("architect"), Turn("architect"), Turn("architect")>>,
     <<Turn("developer"), Turn("developer")>>,
     <<Turn("developer"), Turn("architect"), Call("teardown")>>,
     <<Turn("architect"), Call("teardown"), Call("resume"), Turn("architect")>>,
     <<Turn("architect"), Call("ping")>>}
=============================================================================
