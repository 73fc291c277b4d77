--------------------------- MODULE ReliableChannel ---------------------------
(***************************************************************************)
(* What a reader of a channel is promised: the messages that reach the     *)
(* channel are shown in the order in which they were sent, each of them    *)
(* once, and none is left out. The promise ends with a disturbance; what   *)
(* is shown after one has still been sent.                                 *)
(***************************************************************************)
EXTENDS Naturals, Sequences

CONSTANT Messages

VARIABLES log,       \* what was sent to the channel
          shown,     \* what its reader has seen
          disturbed  \* whether the promise of order has ended

Init == log = <<>> /\ shown = <<>> /\ disturbed = FALSE

Send == /\ \E m \in Messages : log' = Append(log, m)
        /\ UNCHANGED <<shown, disturbed>>

Show == /\ ~disturbed
        /\ Len(shown) < Len(log)
        /\ shown' = Append(shown, log[Len(shown) + 1])
        /\ UNCHANGED <<log, disturbed>>

Disturb == disturbed' = TRUE /\ UNCHANGED <<log, shown>>

ShowSome == /\ disturbed
            /\ \E i \in DOMAIN log : shown' = Append(shown, log[i])
            /\ UNCHANGED <<log, disturbed>>

Next == Send \/ Show \/ Disturb \/ ShowSome

Spec == Init /\ [][Next]_<<log, shown, disturbed>> /\ WF_<<log, shown, disturbed>>(Show)
=============================================================================
