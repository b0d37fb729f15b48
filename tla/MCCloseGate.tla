----------------------------- MODULE MCCloseGate -----------------------------
(***************************************************************************)
(* Small instances of the close gate.                                      *)
(***************************************************************************)
EXTENDS CloseGate

\* The owner ticks, unticks, or edits around the block; an agent may also
\* remove the line or the block, tick outside it, or wreck the body.
MCWrites == [owner |-> {"up", "down"},
             agent |-> {"up", "down", "noline", "none"}]

Fresh(state) == [state |-> state, paused |-> None, resume |-> None,
                 class |-> None, stamp |-> FALSE, marker |-> FALSE,
                 asked |-> FALSE]

\* The block is edited while everything fails, and the gateway is killed.
Unreliable == [acts |-> {"edit", "close", "reply"}, lost |-> {"edited"},
               faults |-> {"get", "patch", "reopen", "ensure", "turn", "archive"},
               sweeping |-> FALSE, crashes |-> 1, busy |-> 0]

\* The issue opens and closes, unheard of, and the sweep looks on.
Unheard == [acts |-> {"close", "reopen", "reply"}, lost |-> {"closed"},
            faults |-> {}, sweeping |-> TRUE, crashes |-> 0, busy |-> 0]

\* A runner that is busy when it is asked to tear down, and a kill.
Busy == [acts |-> {"close", "reply"}, lost |-> {}, faults |-> {"turn"},
         sweeping |-> FALSE, crashes |-> 1, busy |-> 1]

\* Edits, and nothing else.
Editing == [acts |-> {"edit"}, lost |-> {}, faults |-> {},
            sweeping |-> FALSE, crashes |-> 0, busy |-> 0]

\* After the merge, with the block in place.
AwaitingVerification(w) ==
    [world |-> w, body |-> "down", open |-> TRUE, merged |-> TRUE,
     sess |-> Fresh("AWAITING_VERIFICATION")]

\* Before the gateway has heard of the merge.
StillMerging(w) ==
    [world |-> w, body |-> "none", open |-> TRUE, merged |-> TRUE,
     sess |-> Fresh("MERGING")]

\* After a tick and a close no webhook told of, found by the sweep.
Found(w) ==
    [world |-> w, body |-> "up", open |-> FALSE, merged |-> TRUE,
     sess |-> [Fresh("PAUSED_HUMAN") EXCEPT
                  !.paused = "hold", !.resume = "AWAITING_VERIFICATION",
                  !.marker = TRUE, !.asked = TRUE]]

AllStarts == {AwaitingVerification(Unreliable), AwaitingVerification(Busy),
              StillMerging(Unheard), Found(Unheard)}
EditingStarts == {AwaitingVerification(Editing)}
=============================================================================
