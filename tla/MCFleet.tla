------------------------------ MODULE MCFleet ------------------------------
(***************************************************************************)
(* Two repositories and room for one container.                            *)
(***************************************************************************)
EXTENDS Fleet
=============================================================================
