--------------------------- MODULE MCSessionLoop ---------------------------
(***************************************************************************)
(* The rows and pull requests the runs of SessionLoop start from.  Each is *)
(* a state a live gateway is in between two passes.                        *)
(***************************************************************************)
EXTENDS SessionLoopClaims

NoRow == [state |-> None, paused |-> None, resume |-> None,
          pr |-> [h \in {"design", "feature"} |-> None],
          head |-> [h \in {"design", "feature"} |-> 0], endpoint |-> FALSE]

Row(st) == [NoRow EXCEPT !.state = st, !.endpoint = TRUE]

\* The row once a PR of that half is tracked at its first head.
With(row, half, p) == [row EXCEPT !.pr[half] = p, !.head[half] = 1]

Paused(row, reason, from) ==
    [row EXCEPT !.state = "PAUSED_HUMAN", !.paused = reason, !.resume = from]

Word(said, at) == [said |-> said, at |-> at]
NoPR == [phase |-> None, head |-> 0, shown |-> Word(None, 0), full |-> FALSE]
OpenAt1 == [NoPR EXCEPT !.phase = "open", !.head = 1]
ApprovedAt1 == [OpenAt1 EXCEPT !.shown = Word("approved", 1)]
MergedAt1 == [ApprovedAt1 EXCEPT !.phase = "merged"]

NoPRs == [p \in PRs |-> NoPR]

aDesign == CHOOSE p \in DesignPRs : TRUE
aFeature == CHOOSE p \in FeaturePRs : TRUE

\* Before the issue is opened.
AtIntake == {[row |-> NoRow, gh |-> NoPRs]}

\* A Design PR under review, or sent back once.
AtDesign == {[row |-> With(Row(st), "design", aDesign),
              gh |-> [NoPRs EXCEPT ![aDesign] = OpenAt1]] :
                st \in {"DESIGN_REVIEW", "DESIGN_REWORK"}}

\* Every point of a session at which something is about to land.
AtLanding ==
    {[row |-> With(Row("MERGING"), "feature", aFeature),
      gh |-> [NoPRs EXCEPT ![aFeature] = ApprovedAt1]]} \cup
    {[row |-> With(Row("AWAITING_VERIFICATION"), "feature", aFeature),
      gh |-> [NoPRs EXCEPT ![aFeature] = MergedAt1]]} \cup
    {[row |-> With(Row(st), "design", aDesign),
      gh |-> [NoPRs EXCEPT ![aDesign] = OpenAt1]] :
        st \in {"DESIGN_REVIEW", "DESIGN_APPROVED"}}

\* Paused with a question, held by a close, or paused before any runner; at
\* work; and before the issue is opened.
AtPauseOrWork ==
    {[row |-> Paused(Row("IMPLEMENTING"), reason, "IMPLEMENTING"), gh |-> NoPRs] :
        reason \in {"plain", "hold"}} \cup
    {[row |-> Paused(NoRow, "plain", "PLANNING"), gh |-> NoPRs]} \cup
    {[row |-> Row("IMPLEMENTING"), gh |-> NoPRs]} \cup AtIntake

\* A Feature PR under review, or paused there.
AtFeatureOrPause ==
    {[row |-> With(row, "feature", aFeature),
      gh |-> [NoPRs EXCEPT ![aFeature] = OpenAt1]] :
        row \in {Row("CODE_REVIEW"), Row("CODE_REWORK"),
                 Paused(Row("IMPLEMENTING"), "plain", "CODE_REVIEW")}}
=============================================================================
