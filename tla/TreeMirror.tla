------------------------------ MODULE TreeMirror ------------------------------
(***************************************************************************)
(* The network thread's mirror of the node tree (src/src/osc/graph.rs) and    *)
(* the ids it has given out, against the tree of the audio thread.            *)
(*                                                                           *)
(* A message changes the mirror and is sent as a command; the audio thread    *)
(* applies commands and synths end by themselves meanwhile; what it frees      *)
(* comes back twice, as a processor to drop (the garbage FIFO) and as a death  *)
(* to tell (the event FIFO).  The network thread drains the first, then the    *)
(* second, one entry at a time, with the audio thread running throughout.     *)
(* Pausing, which the mirror ignores, and /node_start, which changes nothing, *)
(* are left out.                                                             *)
(***************************************************************************)
EXTENDS Trees, FiniteSets

CONSTANTS
    Actions,                    \* bound: add actions messages use
    Moves,                      \* bound: places messages move nodes to
    DoneActions,                \* bound: what synths end with
    FifoSize,                   \* room of the command FIFO
    MaxCommands                 \* bound: messages in a behaviour

ASSUME TreeMirrorAssumption ==
    /\ Actions \subseteq AddActions /\ Moves \subseteq Places /\ DoneActions \subseteq Freeing
    /\ FifoSize \in Nat \ {0} /\ MaxCommands \in Nat

VARIABLES
    engine, mirror,             \* the two trees
    inUse,                      \* the registry: ids given out and not returned
    reused,                     \* history: ids asked for by number while in use
    cmds, garbage, events,      \* the FIFOs, oldest first
    phase,                      \* the network thread: "messages", "garbage" or "events"
    strayed,                    \* history: the trees were set apart
    left                        \* bound: messages to come

mirrorVars == <<engine, mirror, inUse, reused, cmds, garbage, events, phase, strayed, left>>

-----------------------------------------------------------------------------
(* The network thread: messages                                              *)

\* A message that has changed the mirror is refused if the FIFO is full, which sets
\* the trees apart, as some messages do by themselves.
Send(cmd, apart) ==
    /\ phase = "messages" /\ left > 0
    /\ left' = left - 1
    /\ IF Len(cmds) < FifoSize
       THEN cmds' = Append(cmds, cmd) /\ strayed' = (strayed \/ apart)
       ELSE cmds' = cmds /\ strayed' = TRUE
    /\ UNCHANGED <<engine, garbage, events, phase>>

\* Mutant: an id the mirror had no place for is not taken.
TakenIfPlaced(n, placed) == IF placed THEN inUse \cup {n} ELSE inUse

\* The id is taken and the command sent whether or not the mirror took the node.
Taken(n, placed) == inUse \cup {n}

\* The processor of an earlier synth n, in the garbage or yet to die, will take a
\* new node n out of the mirror.
Awaited(n) ==
    /\ n \in SynthIds
    /\ \/ n \in Live(engine)
       \/ \E i \in DOMAIN cmds : cmds[i].op = "add" /\ cmds[i].node = n
       \/ \E i \in DOMAIN garbage : garbage[i] = <<"freed", n>>

\* A message may name the id it wants, one in use included.
New(n, target, action) ==
    LET placed == MayInsert(mirror, n, target, action) IN
    /\ mirror' = IF placed THEN Insert(Start(mirror), n, n \in GroupIds, target, action).tree
                 ELSE mirror
    /\ inUse' = Taken(n, placed)
    /\ reused' = reused \cup ({n} \cap inUse)
    /\ Send([op |-> "add", node |-> n, target |-> target, action |-> action, took |-> placed],
            placed /\ Awaited(n))

SendFree(n) ==
    /\ mirror' = Free(Start(mirror), n).tree
    /\ Send([op |-> "free", node |-> n], FALSE)
    /\ UNCHANGED <<inUse, reused>>

SendFreeAll(g) ==
    /\ mirror' = FreeAll(Start(mirror), g).tree
    /\ Send([op |-> "freeAll", node |-> g], FALSE)
    /\ UNCHANGED <<inUse, reused>>

SendDeepFree(g) ==
    /\ mirror' = DeepFree(Start(mirror), g).tree
    /\ Send([op |-> "deepFree", node |-> g], FALSE)
    /\ UNCHANGED <<inUse, reused>>

SendMove(n, target, place) ==
    LET placed == MayMove(mirror, n, target, place) IN
    /\ mirror' = IF placed THEN Move(mirror, n, target, place) ELSE mirror
    /\ Send([op |-> "move", node |-> n, target |-> target, action |-> place, took |-> placed],
            FALSE)
    /\ UNCHANGED <<inUse, reused>>

-----------------------------------------------------------------------------
(* The audio thread                                                          *)

\* Deaths go out as events and as garbage, each in the order of the deaths.
Reports(deaths) ==
    /\ events' = events \o [i \in DOMAIN deaths |-> deaths[i][1]]
    /\ garbage' = garbage \o [i \in DOMAIN deaths |-> <<"freed", deaths[i][1]>>]

\* What a command makes of the engine's tree, and whether the engine took it.
Applied(cmd) ==
    CASE cmd.op = "add" -> Insert(Start(engine), cmd.node, cmd.node \in GroupIds,
                                  cmd.target, cmd.action)
      [] cmd.op = "move" -> Start(Move(engine, cmd.node, cmd.target, cmd.action))
      [] cmd.op = "free" -> Free(Start(engine), cmd.node)
      [] cmd.op = "freeAll" -> FreeAll(Start(engine), cmd.node)
      [] cmd.op = "deepFree" -> DeepFree(Start(engine), cmd.node)

Takes(cmd) ==
    CASE cmd.op = "add" -> /\ MayInsert(engine, cmd.node, cmd.target, cmd.action)
                           /\ FitsInsert(engine, cmd.target, cmd.action)
      [] cmd.op = "move" -> /\ MayMove(engine, cmd.node, cmd.target, cmd.action)
                            /\ FitsMove(engine, cmd.node, cmd.target, cmd.action)
      [] OTHER -> TRUE

\* The mirror took what the engine refuses, or the other way round.
Disagree(cmd) == cmd.op \in {"add", "move"} /\ cmd.took # Takes(cmd)

\* The next command; a node refused comes back through the garbage.
ApplyCommand ==
    /\ cmds # << >>
    /\ LET cmd == Head(cmds) IN
          /\ IF Takes(cmd)
             THEN engine' = Applied(cmd).tree /\ Reports(Applied(cmd).deaths)
             ELSE /\ garbage' = IF cmd.op = "add" THEN Append(garbage, <<"rejected", cmd.node>>)
                                ELSE garbage
                  /\ UNCHANGED <<engine, events>>
          /\ strayed' = (strayed \/ Disagree(cmd))
    /\ cmds' = Tail(cmds)
    /\ UNCHANGED <<mirror, inUse, reused, phase, left>>

\* A synth ends by itself.  Of what its done action frees, the mirror is told of
\* the synths only.
Ends(n, action) ==
    LET x == Apply(Start(engine), n, action) IN
    /\ n \in Synths(engine)
    /\ engine' = x.tree
    /\ Reports(x.deaths)
    /\ strayed' = (strayed \/ \E i \in DOMAIN x.deaths : x.deaths[i][1] \in GroupIds)
    /\ UNCHANGED <<mirror, inUse, reused, cmds, phase, left>>

-----------------------------------------------------------------------------
(* The network thread: collecting                                            *)

\* Mutant: a processor come back says nothing of its node.
ForgetNothing(n) == mirror

Forget(n) == Free(Start(mirror), n).tree

Collect ==
    /\ phase = "messages"
    /\ phase' = "garbage"
    /\ UNCHANGED <<engine, mirror, inUse, reused, cmds, garbage, events, strayed, left>>

\* A freed synth leaves the mirror, a freed group does not; the id of a rejected
\* node is returned and the mirror left as it is.
CollectGarbage ==
    /\ phase = "garbage" /\ garbage # << >>
    /\ LET g == Head(garbage) IN
          /\ mirror' = IF g[1] = "freed" /\ g[2] \in SynthIds THEN Forget(g[2]) ELSE mirror
          /\ inUse' = IF g[1] = "rejected" THEN inUse \ {g[2]} ELSE inUse
    /\ garbage' = Tail(garbage)
    /\ UNCHANGED <<engine, reused, cmds, events, phase, strayed, left>>

GarbageDone ==
    /\ phase = "garbage" /\ garbage = << >>
    /\ phase' = "events"
    /\ UNCHANGED <<engine, mirror, inUse, reused, cmds, garbage, events, strayed, left>>

\* The death of a synth the mirror has is taken for that of an earlier one.
Outlived(n) == n \in SynthIds /\ n \in Live(mirror)

\* A death told returns its id.
CollectEvent ==
    /\ phase = "events" /\ events # << >>
    /\ LET n == Head(events) IN
          inUse' = IF Outlived(n) THEN inUse ELSE inUse \ {n}
    /\ events' = Tail(events)
    /\ UNCHANGED <<engine, mirror, reused, cmds, garbage, phase, strayed, left>>

EventsDone ==
    /\ phase = "events" /\ events = << >>
    /\ phase' = "messages"
    /\ UNCHANGED <<engine, mirror, inUse, reused, cmds, garbage, events, strayed, left>>

-----------------------------------------------------------------------------

MirrorInit ==
    /\ engine = RootOnly /\ mirror = RootOnly
    /\ inUse = {} /\ reused = {}
    /\ cmds = << >> /\ garbage = << >> /\ events = << >>
    /\ phase = "messages"
    /\ strayed = FALSE
    /\ left = MaxCommands

\* Bound: messages are about ids that were in use.
Known == inUse \cup reused

MirrorNext ==
    \/ \E n \in Ids, target \in Known \cup {Root}, action \in Actions : New(n, target, action)
    \/ \E n \in Known : SendFree(n)
    \/ \E g \in (Known \cap GroupIds) \cup {Root} : SendFreeAll(g) \/ SendDeepFree(g)
    \/ \E n \in Known, target \in Known \cup {Root}, place \in Moves : SendMove(n, target, place)
    \/ ApplyCommand
    \/ \E n \in SynthIds, action \in DoneActions : Ends(n, action)
    \/ Collect \/ CollectGarbage \/ GarbageDone \/ CollectEvent \/ EventsDone

MirrorSpec == MirrorInit /\ [][MirrorNext]_mirrorVars

-----------------------------------------------------------------------------

Quiet == cmds = << >> /\ garbage = << >> /\ events = << >>

\* An id may be given out again only once nothing is left of the node it named:
\* it is in no tree of the audio thread and in no command on its way there, unless
\* a message asked for the id by number while it was in use.
FreeIdsAreDead ==
    \A n \in Ids \ (inUse \cup reused) :
        /\ n \notin Live(engine)
        /\ \A i \in DOMAIN cmds : cmds[i].op = "add" => cmds[i].node # n

\* With everything delivered the mirror is the engine's tree, in order, unless a
\* message was refused, the two sides disagreed on one, a done action freed a
\* group, or an id was used again before its first node's processor came back.
Converges ==
    Quiet /\ ~ strayed => mirror = engine
=============================================================================
