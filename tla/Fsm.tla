-------------------------------- MODULE Fsm --------------------------------
(***************************************************************************)
(* The session state machine: a pure table from (state, normalized event   *)
(* kind) to the next state.  The gateway drives it from observed GitHub    *)
(* events; every other module of this project calls Transition.            *)
(***************************************************************************)

DesignStates == {"INTAKE", "PLANNING", "DESIGN_REVIEW", "DESIGN_REWORK",
                 "DESIGN_APPROVED", "IMPLEMENTING", "PAUSED_HUMAN", "FAILED"}

CodeStates == {"CODE_REVIEW", "CODE_REWORK", "MERGING",
               "AWAITING_VERIFICATION"}

TerminalStates == {"TEARDOWN", "CLOSED"}

SessionStates == DesignStates \cup CodeStates \cup TerminalStates

\* The table proper.  A pair that is not listed leaves the state alone: no
\* entry maps a state to itself, so the code's None is "the same state".
Table(s, k) ==
    CASE s = "INTAKE" /\ k = "session_created" -> "PLANNING"
      [] s = "PLANNING" /\ k = "design_pr_opened" -> "DESIGN_REVIEW"
      [] s = "DESIGN_REVIEW" /\ k = "design_changes_requested" -> "DESIGN_REWORK"
      [] s = "DESIGN_REWORK" /\ k = "design_revised" -> "DESIGN_REVIEW"
      [] s = "DESIGN_REVIEW" /\ k = "design_approved" -> "DESIGN_APPROVED"
      [] s = "DESIGN_APPROVED" /\ k = "design_merged" -> "IMPLEMENTING"
      [] s = "IMPLEMENTING" /\ k = "feature_pr_opened" -> "CODE_REVIEW"
      [] s = "CODE_REVIEW" /\ k = "code_changes_requested" -> "CODE_REWORK"
      [] s = "CODE_REWORK" /\ k = "feature_revised" -> "CODE_REVIEW"
      [] s = "CODE_REVIEW" /\ k = "merge_authorized" -> "MERGING"
      [] s = "MERGING" /\ k = "feature_merged" -> "AWAITING_VERIFICATION"
      [] s = "AWAITING_VERIFICATION" /\ k = "feature_pr_opened" -> "IMPLEMENTING"
      [] OTHER -> s

Transition(s, k) ==
    CASE k = "escalation" -> "PAUSED_HUMAN"
      [] k = "owner_reply" /\ s = "PAUSED_HUMAN" -> "PLANNING"
      [] k = "issues_closed" -> IF s \in TerminalStates THEN s ELSE "TEARDOWN"
      [] OTHER -> Table(s, k)
=============================================================================
