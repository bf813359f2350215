------------------------------ MODULE MCEngine -------------------------------
(***************************************************************************)
(* Instances of Engine for TLC: the sets of commands, bundles, stamps and    *)
(* lane entries the network thread draws from in each run.  A block is four  *)
(* samples, so that a stop and a play fall inside one at different samples,  *)
(* and a run is two or three blocks.                                         *)
(***************************************************************************)
EXTENDS Engine

CONSTANTS g1, g2, l1

Run(k, on) == [op |-> "run", k |-> k, on |-> on]
LocateTo(k, p) == [op |-> "locate", k |-> k, position |-> p]
Loop(k, s, e) == [op |-> "loop", k |-> k, span |-> [start |-> s, end |-> e]]
LoopOff(k) == [op |-> "loop", k |-> k, span |-> None]
EndAt(k, e, b) == [op |-> "end", k |-> k, mark |-> [end |-> e, back |-> b]]
Ramp(k, n) == [op |-> "fade", k |-> k, samples |-> n]
Bind(k, g) == [op |-> "group", k |-> k, id |-> g]
TouchIn(g) == [op |-> "touch", group |-> g]
ClearAll == [op |-> "clear_sched", only |-> None]
Empty(l, r) == [op |-> "clear_lane", lane |-> l, release |-> r]
Note(l, p, n, kind) == [lane |-> l, position |-> p, length |-> n, kind |-> kind]

One == {0}
LanesOnZero == [l \in {l1} |-> 0]

\* Stops, plays and locates of one transport with a loop and an end mark, and
\* bundles that stop and play it inside a block, or touch its group: these wait on
\* its own axis once it governs the group, and on the device's before.
EdgeCommands ==
    {Run(0, TRUE), Run(0, FALSE), LocateTo(0, 3), Loop(0, 1, 4),
     EndAt(0, 6, 1), Bind(0, g1)}
EdgeBundles ==
    {<<Run(0, TRUE)>>, <<Run(0, FALSE)>>, <<Run(0, FALSE), Run(0, TRUE)>>,
     <<TouchIn(g2), TouchIn(g1)>>}
EdgeTimes == {2, 6}

\* The same with ramps, with loop changes over disk readers and by a bundle, and
\* with lane notes whose lane is edited and whose releases are queued, dropped
\* and cleared.
RampCommands ==
    {Run(0, TRUE), Run(0, FALSE), LocateTo(0, 3), Loop(0, 1, 4), Loop(0, 2, 3),
     LoopOff(0), EndAt(0, 6, 1), EndAt(0, 6, None), Ramp(0, 3), Bind(0, g1),
     Empty(l1, FALSE), Empty(l1, TRUE), ClearAll}
RampBundles ==
    {<<Run(0, FALSE)>>, <<Run(0, FALSE), Run(0, TRUE)>>, <<Loop(0, 1, 4)>>}
RampTimes == {6}
LaneNotes == {Note(l1, 1, 2, "synth"), Note(l1, 2, 4, "synth"), Note(l1, 2, 4, "node")}

NoNotes == {}
=============================================================================
