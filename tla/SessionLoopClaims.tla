------------------------- MODULE SessionLoopClaims -------------------------
(***************************************************************************)
(* What the documents and comments of the repository say of the drain and  *)
(* the code does not do.  Each formula is checked on its own and refuted   *)
(* by a behaviour of the code; README.md quotes the sentence it comes from.*)
(***************************************************************************)
EXTENDS SessionLoopProperties

\* ADR-33 (c), ADR-38 (f'): a delivery left deferred is tried again.  A
\* delivery that moved the session or took the head is not then put aside as
\* a repetition of itself, with no agent ever told.
CuesReachAnAgent ==
    \A d \in Deliveries :
        took[d] /\ why[d] \in {"tracked", "duplicate"} => turnsFor[d] > 0

\* Section 8.1: an issue that passed the intake gate gets its roles and moves
\* on to PLANNING.
IntakeIsLeft == sess.state = "INTAKE" ~> sess.state # "INTAKE"

=============================================================================
