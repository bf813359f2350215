----------------------------- MODULE MCLaneFeed -----------------------------
(* Two events of one lane over a short axis. *)
EXTENDS LaneFeed

OneScore == {<<1, 2>>}
Empty == <<>>
OneLoop == {[start |-> 1, end |-> 3]}
\* A mark on the second event, which does not play, and goes back to the start.
OneMark == {[at |-> 2, back |-> 0]}

=============================================================================
