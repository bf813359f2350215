--------------------------- MODULE TransportMirror ---------------------------
(***************************************************************************)
(* The network thread's transports (osc/server/commands/transport.rs and the *)
(* garbage loop of lifecycle.rs) against the engine's.  A message sends the   *)
(* engine its halves over a FIFO that may be full and changes the mirror; the *)
(* engine applies halves, stops transports on their end marks and loses       *)
(* groups by itself, and tells so through the garbage FIFO.                   *)
(*                                                                           *)
(* Time within a pass is left out: a rolling transport may be on its mark, a  *)
(* ramp at its end, and the readers of a transport through with a loop asked *)
(* for, in any block (Engine and FedStream have when).                        *)
(***************************************************************************)
EXTENDS Integers, SequencesExt, TLC

CONSTANTS
    Transports,
    GroupIds,                   \* ids clients give to groups
    Places,                     \* where clients locate to
    Start,                      \* where a redefined grid puts the transport
    None,                       \* no group, no place, nothing stopping
    Loops,                      \* loops clients set
    Given, Born,                \* of "fade" and "defined", and the groups, there were before
    FifoSize,                   \* room of the command FIFO
    Bounds                      \* messages of a behaviour, the settings they change, and
                                \* groups freed by done actions

Settings == {"looping", "mark", "fade"}
Bindings == {"group", "follow"}

\* A loop or none, an end mark with the place its pass goes back to or none, and
\* whether stops are ramped.
Offered ==
    [looping |-> Loops \cup {None},
     mark |-> [back : Places \cup {None}] \cup {None},
     fade |-> BOOLEAN]

ASSUME TransportMirrorAssumption ==
    /\ None \notin Places \cup Loops \cup GroupIds \cup {Start, "stop", "end"} \cup Transports
    /\ IsFiniteSet(Transports)
    /\ Born \subseteq GroupIds
    /\ FifoSize \in Nat \ {0}
    /\ Bounds \subseteq [messages : Nat, fields : SUBSET Settings, deaths : Nat]

VARIABLES
    mirror, engine,             \* the transports, as either side has them
    groups,                     \* groups in the translator's mirror
    live, frozen,               \* groups in the tree, and those paused there
    cmds, garbage,              \* the FIFOs, oldest first
    phase,                      \* the network thread: "messages" or "garbage"
    apart,                      \* history: what set the sides apart, by transport
    left                        \* of Bounds: what may still come

network == <<mirror, groups>>
audio == <<engine, live, frozen>>
vars == <<network, audio, cmds, garbage, phase, apart, left>>

IsBound(t) == t.group # None \/ t.follow # None

-----------------------------------------------------------------------------
(* Messages                                                                  *)

Half(k, op, value) == [op |-> op, transport |-> k, value |-> value]

Room == FifoSize - Len(cmds)
Fits(halves) == Len(halves) <= Room

\* Its halves are sent one after the other; the first one the FIFO refuses fails
\* the message.
Handle(halves) ==
    /\ phase = "messages" /\ left.messages > 0
    /\ left' = [left EXCEPT !.messages = @ - 1]
    /\ cmds' = cmds \o SubSeq(halves, 1, IF Fits(halves) THEN Len(halves) ELSE Room)
    /\ UNCHANGED <<audio, garbage, phase>>

Apart(cond, k, what) == IF cond THEN {<<k, what>>} ELSE {}

\* A message of one half: sent, then written down.
Change(k, half, field) ==
    /\ Handle(<<half>>)
    /\ mirror' = IF Fits(<<half>>) THEN [mirror EXCEPT ![k][field] = half.value] ELSE mirror
    /\ UNCHANGED <<groups, apart>>

\* A run is the engine's business only while a group is bound.
RunHalf(k, on) == IF IsBound(mirror[k]) THEN <<Half(k, "run", on)>> ELSE << >>

\* Whether transport k will roll once it has what is on its way.
Going(t) == t.rolling /\ t.stopping = None

Heading(k) ==
    LET runs == {i \in DOMAIN cmds : cmds[i].op = "run" /\ cmds[i].transport = k}
    IN  IF runs = {} THEN Going(engine[k]) ELSE cmds[Max(runs)].value

\* Said of a transport nothing is bound to, it is only written down.
OnlySaid(k, on) == Apart(~ IsBound(mirror[k]) /\ Heading(k) # on, k, "playing")

\* A play from a beat needs a grid.  It is a locate and a run, and the locate
\* stands if the run is refused.
Play(k, from) ==
    LET locate == IF from = None THEN << >> ELSE <<Half(k, "located", from)>>
        halves == locate \o RunHalf(k, TRUE)
        place == IF from # None /\ Fits(locate) THEN from ELSE mirror[k].located
    IN  /\ from # None => mirror[k].defined
        /\ Handle(halves)
        /\ mirror' = [mirror EXCEPT ![k].located = place, ![k].playing = @ \/ Fits(halves)]
        /\ apart' = apart \cup (IF Fits(halves) THEN OnlySaid(k, TRUE) ELSE {})
        /\ UNCHANGED groups

Stop(k) ==
    LET halves == RunHalf(k, FALSE) IN
    /\ Handle(halves)
    /\ mirror' = IF Fits(halves) THEN [mirror EXCEPT ![k].playing = FALSE] ELSE mirror
    /\ apart' = apart \cup OnlySaid(k, FALSE)
    /\ UNCHANGED groups

\* By beat, which needs a grid, or by sample; the mirror keeps the beat, and has
\* none to keep before the grid.
Locate(k, place) ==
    LET half == Half(k, "located", place) IN
    /\ Handle(<<half>>)
    /\ mirror' = IF Fits(<<half>>) /\ mirror[k].defined
                 THEN [mirror EXCEPT ![k].located = place] ELSE mirror
    /\ UNCHANGED <<groups, apart>>

Set(k, field, value) ==
    /\ field \in left.fields
    /\ Change(k, Half(k, field, value), field)

\* A grid defined anew: the tempo, a locate, a stop, and only then the mirror.
Define(k) ==
    LET toStart == <<Half(k, "tempo", None), Half(k, "located", Start)>>
        halves == toStart \o RunHalf(k, FALSE)
    IN  /\ Handle(halves)
        /\ mirror' = IF Fits(halves)
                     THEN [mirror EXCEPT ![k].playing = FALSE, ![k].located = Start,
                                         ![k].defined = TRUE]
                     ELSE mirror
        /\ apart' = apart \cup Apart(Room \in 2 .. Len(halves) - 1, k, "located")
                          \cup (IF Fits(halves) THEN OnlySaid(k, FALSE) ELSE {})
        /\ UNCHANGED groups

\* Mutant: a transport may follow what another governs.
FreeToGovern(k, field, g) == \A j \in Transports \ {k} : mirror[j].group # g

\* A group has one transport, and one binding to it.
FreeFor(k, field, g) ==
    \A j \in Transports, f \in Bindings : mirror[j][f] = g => j = k /\ f = field

Bind(k, field, g) ==
    /\ g # None => g \in groups /\ FreeFor(k, field, g)
    /\ Change(k, Half(k, field, g), field)

\* Clients give ids as they like: one may still name a group.
NewGroup(g) ==
    /\ Handle(<<Half(None, "new", g)>>)
    /\ groups' = groups \cup {g}
    /\ UNCHANGED <<mirror, apart>>

FreeGroup(g) ==
    /\ Handle(<<Half(None, "free", g)>>)
    /\ groups' = groups \ {g}
    /\ UNCHANGED <<mirror, apart>>

-----------------------------------------------------------------------------
(* The audio thread                                                          *)

Pause(g, on) == IF g \notin live THEN frozen ELSE IF on THEN frozen \cup {g} ELSE frozen \ {g}

\* TransportState::stop and the freeze of its group; ended when on its mark.  It goes
\* where a locate of the stopping phase sent it, or back where the mark says, and
\* returned, a history, says which it was last.
Freeze(k, ended, back, return) ==
    LET to == IF back # None THEN back ELSE return
        place == IF to # None THEN to ELSE engine[k].located
        returned == IF to # None THEN back = None ELSE engine[k].returned
    IN  /\ engine' = [engine EXCEPT ![k].rolling = FALSE, ![k].stopping = None,
                                    ![k].back = None, ![k].return = None,
                                    ![k].located = place, ![k].returned = returned]
        /\ frozen' = Pause(engine[k].group, TRUE)
        /\ garbage' = IF ended THEN Append(garbage, <<"ended", k>>) ELSE garbage

\* A stopping phase, and where it is to end.
Ramp(k, why, return) ==
    /\ engine' = [engine EXCEPT ![k].stopping = why, ![k].return = return]
    /\ UNCHANGED <<frozen, garbage>>

RunStop(k) ==
    IF ~ engine[k].rolling \/ engine[k].stopping # None
    THEN UNCHANGED <<engine, frozen, garbage>>
    ELSE IF engine[k].fade THEN Ramp(k, "stop", None) ELSE Freeze(k, FALSE, None, None)

\* A stopping phase is called off, and with it where it was to end.
RunPlay(k) ==
    /\ engine' = [engine EXCEPT ![k].rolling = TRUE, ![k].stopping = None,
                                ![k].back = None, ![k].return = None]
    /\ frozen' = IF engine[k].rolling THEN frozen ELSE Pause(engine[k].group, FALSE)
    /\ UNCHANGED garbage

\* Mutant: a group let go stays frozen.
LetGo(k) == frozen

\* In a stopping phase a locate is where the position rests once it is over.
TakeLocate(k, place) ==
    /\ engine' = IF engine[k].stopping = None
                 THEN [engine EXCEPT ![k].located = place, ![k].returned = FALSE]
                 ELSE [engine EXCEPT ![k].back = place]
    /\ UNCHANGED <<frozen, garbage>>

\* A rolling transport that governs disk readers, as it may, cues another loop than
\* the one in force; any other takes it at once.
TakeLoop(k, loop) ==
    /\ \E inForce \in {loop} \cup (IF engine[k].rolling /\ engine[k].group # None
                                    THEN {engine[k].looping} ELSE {}) :
            engine' = [engine EXCEPT ![k].asked = loop, ![k].looping = inForce]
    /\ UNCHANGED <<frozen, garbage>>

\* A group let go is thawed.
Thawed(k) == Pause(engine[k].group, FALSE)

\* The group bound before is let go, then the new one bound, if it is there.
Rebind(k, field, g) ==
    LET thawed == IF field = "group" THEN Thawed(k) ELSE frozen
        taken == g \in live
    IN  /\ engine' = [engine EXCEPT ![k][field] = IF taken THEN g ELSE None]
        /\ frozen' = IF field = "group" /\ taken /\ ~ engine[k].rolling
                     THEN thawed \cup {g} ELSE thawed
        /\ UNCHANGED garbage

\* A group dies: its processor comes back.
Dies(g) ==
    /\ live' = live \ {g} /\ frozen' = frozen \ {g}
    /\ garbage' = Append(garbage, <<"freed", g>>)

\* A binding to a group that is gone, and whose death the mirror has been told
\* already, is refused with nobody to hear of it.
Unheard(h) ==
    /\ h.op \in Bindings
    /\ h.value \notin live \cup {None}
    /\ mirror[h.transport][h.op] = h.value
    /\ \A i \in DOMAIN garbage : garbage[i] # <<"freed", h.value>>

\* A play calls off a stopping phase that was to go somewhere.
LosesLocate(h) ==
    /\ h.op = "run" /\ h.value
    /\ engine[h.transport].back # None

Tree(h) ==
    IF h.op = "new"
    THEN live' = live \cup {h.value} /\ UNCHANGED <<engine, frozen, garbage>>
    ELSE IF h.value \in live THEN Dies(h.value) /\ UNCHANGED engine
    ELSE UNCHANGED <<audio, garbage>>

Transport(h) ==
    LET k == h.transport IN
    /\ \/ h.op = "run" /\ h.value /\ RunPlay(k)
       \/ h.op = "run" /\ ~ h.value /\ RunStop(k)
       \/ h.op \in Bindings /\ Rebind(k, h.op, h.value)
       \/ h.op = "located" /\ TakeLocate(k, h.value)
       \/ h.op = "looping" /\ TakeLoop(k, h.value)
       \/ /\ h.op \in {"mark", "fade"}
          /\ engine' = [engine EXCEPT ![k][h.op] = h.value]
          /\ UNCHANGED <<frozen, garbage>>
       \/ h.op = "tempo" /\ UNCHANGED <<engine, frozen, garbage>>
    /\ UNCHANGED live

ApplyHalf ==
    /\ cmds # << >>
    /\ cmds' = Tail(cmds)
    /\ LET h == Head(cmds) IN
          /\ IF h.transport = None THEN Tree(h) ELSE Transport(h)
          /\ apart' = apart \cup Apart(Unheard(h), h.transport, h.op)
                            \cup Apart(LosesLocate(h), h.transport, "called off")
    /\ UNCHANGED <<network, phase, left>>

\* A loop asked for is put in force: its readers hold it, have been waited for long
\* enough, or read no more.
LoopLands(k) ==
    /\ engine[k].asked # engine[k].looping
    /\ engine' = [engine EXCEPT ![k].looping = engine[k].asked]
    /\ UNCHANGED <<network, live, frozen, cmds, garbage, phase, apart, left>>

\* A rolling transport comes upon its end mark, or its ramp's length before.  A
\* loop wins.
EndMark(k) ==
    /\ engine[k].rolling /\ engine[k].stopping = None
    /\ engine[k].mark # None /\ engine[k].looping = None
    /\ LET return == engine[k].mark.back IN
          Freeze(k, TRUE, None, return) \/ (engine[k].fade /\ Ramp(k, "end", return))
    /\ UNCHANGED <<network, live, cmds, phase, apart, left>>

RampDone(k) ==
    /\ engine[k].stopping # None
    /\ Freeze(k, engine[k].stopping = "end", engine[k].back, engine[k].return)
    /\ UNCHANGED <<network, live, cmds, phase, apart, left>>

\* A done action frees a group.
DoneAction(g) ==
    /\ left.deaths > 0
    /\ left' = [left EXCEPT !.deaths = @ - 1]
    /\ g \in live
    /\ Dies(g)
    /\ UNCHANGED <<network, engine, cmds, phase, apart>>

-----------------------------------------------------------------------------
(* Collecting                                                                *)

Collect ==
    /\ phase = "messages"
    /\ phase' = "garbage"
    /\ UNCHANGED <<network, audio, cmds, garbage, apart, left>>

\* Mutant: the mirror keeps the group.
KeepsGroup(t, g) == t

Unbound(t, g) ==
    [t EXCEPT !.group = IF @ = g THEN None ELSE @, !.follow = IF @ = g THEN None ELSE @]

\* A freed group is unbound on both sides; if the FIFO is full, on this one.
Freed(g) ==
    LET holds(f) == {k \in Transports : mirror[k][f] = g}
        halves == SetToSeq({Half(k, "group", None) : k \in holds("group")})
                  \o SetToSeq({Half(k, "follow", None) : k \in holds("follow")})
    IN  /\ mirror' = [k \in Transports |-> Unbound(mirror[k], g)]
        /\ cmds' = cmds \o SubSeq(halves, 1, IF Fits(halves) THEN Len(halves) ELSE Room)
        /\ apart' = IF Fits(halves) THEN apart
                    ELSE apart \cup {<<halves[i].transport, halves[i].op>> : i \in DOMAIN halves}

Ended(k) ==
    /\ mirror' = [mirror EXCEPT ![k].playing = FALSE]
    /\ apart' = apart \cup Apart(Heading(k), k, "playing")
    /\ UNCHANGED cmds

CollectGarbage ==
    /\ phase = "garbage" /\ garbage # << >>
    /\ LET g == Head(garbage) IN
          \/ g[1] = "freed" /\ Freed(g[2])
          \/ g[1] = "ended" /\ Ended(g[2])
    /\ garbage' = Tail(garbage)
    /\ UNCHANGED <<groups, audio, phase, left>>

GarbageDone ==
    /\ phase = "garbage" /\ garbage = << >>
    /\ phase' = "messages"
    /\ UNCHANGED <<network, audio, cmds, garbage, apart, left>>

-----------------------------------------------------------------------------

\* Each transport governs a group of Born or none.
Init ==
    \E held \in [Transports -> Born \cup {None}] :
        /\ \A j, k \in Transports : held[j] = held[k] => j = k \/ held[j] = None
        /\ mirror = [k \in Transports |->
             [located |-> Start, group |-> held[k], follow |-> None, playing |-> FALSE,
              looping |-> None, mark |-> None,
              fade |-> "fade" \in Given, defined |-> "defined" \in Given]]
        /\ engine = [k \in Transports |->
             [located |-> Start, group |-> held[k], follow |-> None, rolling |-> FALSE,
              looping |-> None, asked |-> None, mark |-> None, fade |-> "fade" \in Given,
              stopping |-> None, back |-> None, return |-> None, returned |-> FALSE]]
        /\ groups = Born /\ live = Born
        /\ frozen = Range(held) \ {None}
        /\ cmds = << >> /\ garbage = << >>
        /\ phase = "messages"
        /\ apart = {}
        /\ left \in Bounds

Message(k) ==
    \/ \E from \in Places \cup {None} : Play(k, from)
    \/ Stop(k)
    \/ \E place \in Places : Locate(k, place)
    \/ \E field \in Settings : \E value \in Offered[field] : Set(k, field, value)
    \/ Define(k)
    \/ \E field \in Bindings, g \in GroupIds \cup {None} : Bind(k, field, g)

Next ==
    \/ \E k \in Transports : Message(k) \/ LoopLands(k) \/ EndMark(k) \/ RampDone(k)
    \/ \E g \in GroupIds : NewGroup(g) \/ FreeGroup(g) \/ DoneAction(g)
    \/ ApplyHalf
    \/ Collect \/ CollectGarbage \/ GarbageDone

Spec == Init /\ [][Next]_vars

-----------------------------------------------------------------------------

Quiet ==
    /\ cmds = << >> /\ garbage = << >>
    /\ \A k \in Transports : engine[k].stopping = None /\ engine[k].asked = engine[k].looping

\* The grid tells where, and a grid half defined does not, nor where a mark's return
\* has put the transport.
StandsWhereSaid(k) ==
    mirror[k].defined /\ <<k, "located">> \notin apart /\ ~ engine[k].returned
        => mirror[k].located = engine[k].located

\* With everything delivered the mirror says of every transport what the engine
\* does, however many messages were refused: whether it rolls, its groups, its
\* settings and where it was put.  What sets the two apart for good: a play or a
\* stop said before a group is bound, a stop on the mark heard of after a later
\* play, a grid half defined, a freed group's unbinding refused, a group bound that
\* was dead already, and a locate of a stopping phase that a play calls off
\* (the mirror and every client are told the place, transport.rs:222-223, while the
\* transport plays on from where it was).  And until it is located anew, a pass that
\* went back by its mark, which on_transport_ended (transport.rs:453-462) does not
\* write down.
Agree ==
    Quiet => \A k \in Transports :
        /\ <<k, "playing">> \notin apart => mirror[k].playing = engine[k].rolling
        /\ <<k, "called off">> \notin apart => StandsWhereSaid(k)
        /\ \A f \in Bindings \cup Settings : <<k, f>> \notin apart => mirror[k][f] = engine[k][f]

BindingsAgree == \A k \in Transports, f \in Bindings : <<k, f>> \notin apart

\* A group has one transport on the audio thread too, and one binding to it, though
\* only the mirror is asked, ids are used again and groups die unasked.
OneTransport ==
    BindingsAgree =>
        \A j, k \in Transports, e, f \in Bindings :
            engine[j][e] # None /\ engine[j][e] = engine[k][f] => j = k /\ e = f

\* No group stays frozen with nobody to resume it: whichever is unbound, rebound
\* or freed while its transport is stopped, one that is paused is governed by a
\* transport clients see it bound to.
NoneLeftFrozen ==
    Quiet /\ BindingsAgree =>
        \A g \in frozen : \E k \in Transports : mirror[k].group = g
=============================================================================
