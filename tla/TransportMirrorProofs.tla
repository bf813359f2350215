------------------------- MODULE TransportMirrorProofs -------------------------
(***************************************************************************)
(* What TransportMirror's runs check of a few transports, proved for any number *)
(* of transports, groups, places and messages and a FIFO of any size.  The two *)
(* sides differ while halves are on their way, so the invariant compares the   *)
(* mirror with what the engine will have once they are applied (Final), at each *)
(* of them (Held): what was sent decides, and a half applied changes nothing of *)
(* it.  Told apart are the settings, the groups, whose death the mirror may have *)
(* yet to hear of, the place, which waits in a stopping phase, and the run, which *)
(* may end by itself.                                                          *)
(***************************************************************************)
EXTENDS TransportMirror, FiniteSetTheorems, SequenceTheorems, TLAPS

-----------------------------------------------------------------------------
(* What is on its way.                                                       *)

Binds(h, k, f) == h.transport = k /\ h.op = f

\* The f of transport k once the first n of halves c are applied is g, if it is
\* v at first and none of them is refused.
Held(c, v, k, f, n, g) ==
    \/ \E i \in 1 .. n : /\ Binds(c[i], k, f) /\ c[i].value = g
                         /\ \A j \in (i + 1) .. n : ~ Binds(c[j], k, f)
    \/ /\ v = g
       /\ \A j \in 1 .. n : ~ Binds(c[j], k, f)

\* The halves that were there already are applied as before.
LEMMA HeldBefore ==
    ASSUME NEW S, NEW c \in Seq(S), NEW s \in Seq(S), NEW v, NEW k, NEW f, NEW n \in 0 .. Len(c), NEW g
    PROVE  Held(c \o s, v, k, f, n, g) <=> Held(c, v, k, f, n, g)
  <1>1. \A i \in 1 .. n : (c \o s)[i] = c[i]
    OBVIOUS
  <1> QED  BY <1>1 DEF Held

\* Halves sent after them: the last of those that bind, or what was held.
LEMMA HeldAfter ==
    ASSUME NEW S, NEW c \in Seq(S), NEW s \in Seq(S), NEW v, NEW k, NEW f, NEW m \in 0 .. Len(s), NEW g,
           Held(c \o s, v, k, f, Len(c) + m, g)
    PROVE  \/ \E i \in 1 .. m : Binds(s[i], k, f) /\ s[i].value = g
           \/ Held(c, v, k, f, Len(c), g) /\ \A j \in 1 .. m : ~ Binds(s[j], k, f)
  <1> DEFINE l == Len(c)
             d == c \o s
  <1>1. l \in Nat /\ Len(d) = l + Len(s) /\ Len(s) \in Nat
    OBVIOUS
  <1>2. \A i \in 1 .. l : d[i] = c[i]
    OBVIOUS
  <1>3. \A i \in 1 .. m : l + i \in 1 .. l + m /\ d[l + i] = s[i]
    OBVIOUS
  <1>4. \A i \in 1 .. l + m : i \in 1 .. l \/ (i - l \in 1 .. m /\ d[i] = s[i - l])
    OBVIOUS
  <1> HIDE DEF l, d
  <1>5. CASE v = g /\ \A j \in 1 .. l + m : ~ Binds(d[j], k, f)
    <2>1. \A j \in 1 .. m : ~ Binds(s[j], k, f)
      BY <1>5, <1>3
    <2>2. \A j \in 1 .. l : j \in 1 .. l + m
      BY <1>1
    <2>3. Held(c, v, k, f, l, g)
      BY <1>5, <2>2, <1>2 DEF Held
    <2> QED  BY <2>1, <2>3 DEF l
  <1>6. ASSUME NEW i \in 1 .. l + m, Binds(d[i], k, f), d[i].value = g,
               \A j \in (i + 1) .. l + m : ~ Binds(d[j], k, f)
        PROVE  \/ \E h \in 1 .. m : Binds(s[h], k, f) /\ s[h].value = g
               \/ Held(c, v, k, f, l, g) /\ \A j \in 1 .. m : ~ Binds(s[j], k, f)
    <2>1. CASE i \in 1 .. l
      <3>1. \A j \in 1 .. m : l + j \in (i + 1) .. l + m
        BY <2>1, <1>1
      <3>2. \A j \in 1 .. m : ~ Binds(s[j], k, f)
        BY <1>6, <3>1, <1>3
      <3>3. \A j \in (i + 1) .. l : j \in (i + 1) .. l + m /\ j \in 1 .. l
        BY <2>1, <1>1
      <3>4. Held(c, v, k, f, l, g)
        BY <2>1, <1>6, <1>2, <3>3 DEF Held
      <3> QED  BY <3>2, <3>4
    <2> QED  BY <2>1, <1>4, <1>6
  <1>7. \/ v = g /\ \A j \in 1 .. l + m : ~ Binds(d[j], k, f)
        \/ \E i \in 1 .. l + m : /\ Binds(d[i], k, f) /\ d[i].value = g
                                 /\ \A j \in (i + 1) .. l + m : ~ Binds(d[j], k, f)
    BY DEF Held, l, d
  <1> QED  BY <1>5, <1>6, <1>7 DEF l

\* The first half applied: it binds what it says or nothing, and a half that
\* binds something else leaves what was held.
LEMMA HeldOn ==
    ASSUME NEW S, NEW c \in Seq(S), c # << >>, NEW v, NEW w, NEW k, NEW f, NEW n \in 0 .. Len(c) - 1, NEW g,
           w = g => IF Binds(c[1], k, f) THEN c[1].value = g ELSE v = g,
           Held(Tail(c), w, k, f, n, g)
    PROVE  Held(c, v, k, f, n + 1, g)
  <1> DEFINE d == Tail(c)
  <1>1. /\ Len(c) \in Nat /\ Len(c) # 0 /\ n \in Nat
        /\ \A i \in 1 .. n : d[i] = c[i + 1] /\ i + 1 \in 1 .. n + 1
    OBVIOUS
  <1> HIDE DEF d
  <1>2. ASSUME NEW i \in 1 .. n, Binds(d[i], k, f), d[i].value = g,
               \A j \in (i + 1) .. n : ~ Binds(d[j], k, f)
        PROVE  Held(c, v, k, f, n + 1, g)
    <2>1. i + 1 \in 1 .. n + 1 /\ Binds(c[i + 1], k, f) /\ c[i + 1].value = g
      BY <1>1, <1>2
    <2>2. ASSUME NEW j \in (i + 1 + 1) .. n + 1 PROVE ~ Binds(c[j], k, f)
      <3>1. j - 1 \in (i + 1) .. n /\ j - 1 \in 1 .. n /\ (j - 1) + 1 = j
        BY <1>1
      <3> QED  BY <3>1, <1>1, <1>2
    <2> QED  BY <2>1, <2>2 DEF Held
  <1>3. ASSUME w = g, \A j \in 1 .. n : ~ Binds(d[j], k, f)
        PROVE  Held(c, v, k, f, n + 1, g)
    <2>1. ASSUME NEW j \in 2 .. n + 1 PROVE ~ Binds(c[j], k, f)
      <3>1. j - 1 \in 1 .. n /\ (j - 1) + 1 = j
        BY <1>1
      <3> QED  BY <3>1, <1>1, <1>3
    <2>2. CASE Binds(c[1], k, f)
      <3>1. 1 \in 1 .. n + 1 /\ \A j \in (1 + 1) .. n + 1 : ~ Binds(c[j], k, f)
        BY <2>1, <1>1
      <3> QED  BY <3>1, <2>2, <1>3 DEF Held
    <2>3. CASE ~ Binds(c[1], k, f)
      <3>1. \A j \in 1 .. n + 1 : j = 1 \/ j \in 2 .. n + 1
        BY <1>1
      <3> QED  BY <3>1, <2>1, <2>3, <1>3 DEF Held
    <2> QED  BY <2>2, <2>3
  <1> QED  BY <1>2, <1>3 DEF Held, d

\* What it is once they are all applied.
Final(c, v, k, f, g) == Held(c, v, k, f, Len(c), g)

-----------------------------------------------------------------------------
(* The invariant.                                                            *)

Marks == [back : Places \cup {None}] \cup {None}
Values == Places \cup GroupIds \cup Loops \cup Marks \cup {Start, None, "stop", "end"} \cup BOOLEAN
MirrorFields == {"located", "group", "follow", "looping", "mark", "fade", "playing", "defined"}
EngineFields == {"located", "group", "follow", "looping", "asked", "mark", "fade", "rolling",
                 "stopping", "back", "return", "returned"}
RunHalves == [op : {"run"}, transport : Transports, value : BOOLEAN]
LocatedHalves == [op : {"located"}, transport : Transports, value : Values \ {None}]
MarkHalves == [op : {"mark"}, transport : Transports, value : Marks]
OtherHalves ==
    [op : ({"tempo"} \cup Settings \cup Bindings) \ {"mark"}, transport : Transports, value : Values]
TransportHalf == RunHalves \cup LocatedHalves \cup MarkHalves \cup OtherHalves
TreeHalf == [op : {"new", "free"}, transport : {None}, value : GroupIds]
Return == ({"freed"} \X GroupIds) \cup ({"ended"} \X Transports)

\* Only a stopping transport has somewhere to go.
Sound(t) ==
    /\ t.rolling \in BOOLEAN /\ t.returned \in BOOLEAN /\ t.mark \in Marks
    /\ t.stopping = None => t.back = None /\ t.return = None

\* The types.
Typed ==
    /\ mirror \in [Transports -> [MirrorFields -> Values]]
    /\ engine \in [Transports -> [EngineFields -> Values]]
    /\ \A k \in Transports : mirror[k].playing \in BOOLEAN /\ Sound(engine[k])
    /\ cmds \in Seq(TransportHalf \cup TreeHalf) /\ Len(cmds) <= FifoSize
    /\ garbage \in Seq(Return)
    /\ live \subseteq GroupIds /\ frozen \subseteq live

InGarbage(x) == \E i \in DOMAIN garbage : garbage[i] = x

\* Settings are where the mirror has them once what was sent is applied; of loops,
\* the one asked for.
Has(t, f) == IF f = "looping" THEN t.asked ELSE t[f]
SettingsTold ==
    \A k \in Transports, f \in Settings, g \in Values :
        Final(cmds, Has(engine[k], f), k, f, g) => mirror[k][f] = g

\* So are the groups, but for one whose death the mirror has yet to be told.
GroupsTold ==
    \A k \in Transports, f \in Bindings, g \in Values :
        <<k, f>> \notin apart /\ Final(cmds, engine[k][f], k, f, g) =>
            \/ mirror[k][f] = g
            \/ g = None /\ InGarbage(<<"freed", mirror[k][f]>>)

\* In a stopping phase the place is the one the transport is to be put at.  Where it
\* has gone back by its mark is no place told.
Away == CHOOSE x : x \notin Values
PlaceOf(t) == IF t.back # None THEN t.back ELSE IF t.returned THEN Away ELSE t.located
PlacesTold ==
    \A k \in Transports, g \in Values :
        /\ mirror[k].defined
        /\ <<k, "located">> \notin apart /\ <<k, "called off">> \notin apart
        /\ Final(cmds, PlaceOf(engine[k]), k, "located", g)
        => mirror[k].located = g

\* A transport rolls once what was sent is applied if the mirror says so, but for
\* one that stops on its mark with nothing sent since.
Ending(k) == engine[k].stopping = "end" \/ InGarbage(<<"ended", k>>)
RunsTold ==
    \A k \in Transports, g \in BOOLEAN :
        <<k, "playing">> \notin apart /\ Final(cmds, Going(engine[k]), k, "run", g) =>
            \/ mirror[k].playing = g
            \/ /\ mirror[k].playing /\ ~ g /\ Ending(k)
               /\ \A i \in DOMAIN cmds : ~ Binds(cmds[i], k, "run")

\* At no point of what was sent is a group bound twice.
BoundOnce ==
    BindingsAgree =>
        \A n \in 0 .. Len(cmds), j, k \in Transports, e, f \in Bindings, g \in Values \ {None} :
            /\ Held(cmds, engine[j][e], j, e, n, g)
            /\ Held(cmds, engine[k][f], k, f, n, g)
            => j = k /\ e = f

\* A paused group is governed on the audio thread.
FrozenGoverned == \A g \in frozen : \E k \in Transports : engine[k].group = g

\* What every step keeps.
MirrorInv ==
    /\ Typed
    /\ SettingsTold /\ GroupsTold /\ PlacesTold /\ RunsTold
    /\ BoundOnce /\ FrozenGoverned

\* With nothing on its way what is final is what there is.
LEMMA HeldAtFirst ==
    ASSUME NEW v, NEW k, NEW f, NEW g
    PROVE  Final(<< >>, v, k, f, g) <=> v = g
  BY DEF Final, Held

\* The type of a transport as Init has it in the mirror.
LEMMA MirrorRecord ==
    ASSUME NEW V, NEW a \in V, NEW b \in V, NEW c \in V, NEW d \in V, NEW e \in V, NEW f \in V,
           NEW g \in V, NEW h \in V
    PROVE  [located |-> a, group |-> b, follow |-> c, playing |-> d, looping |-> e, mark |-> f,
            fade |-> g, defined |-> h] \in [MirrorFields -> V]
  <1>1. [located |-> a, group |-> b, follow |-> c, playing |-> d, looping |-> e, mark |-> f,
         fade |-> g, defined |-> h]
        \in [located : V, group : V, follow : V, playing : V, looping : V, mark : V, fade : V,
             defined : V]
    OBVIOUS
  <1> QED  BY <1>1 DEF MirrorFields

\* The same of the engine.
LEMMA EngineRecord ==
    ASSUME NEW V, NEW a \in V, NEW b \in V, NEW c \in V, NEW d \in V, NEW e \in V, NEW f \in V,
           NEW g \in V, NEW h \in V, NEW i \in V, NEW l \in V, NEW m \in V, NEW n \in V
    PROVE  [located |-> a, group |-> b, follow |-> c, rolling |-> d, looping |-> e, asked |-> f,
            mark |-> g, fade |-> h, stopping |-> i, back |-> l, return |-> m, returned |-> n]
              \in [EngineFields -> V]
  <1>1. [located |-> a, group |-> b, follow |-> c, rolling |-> d, looping |-> e, asked |-> f,
         mark |-> g, fade |-> h, stopping |-> i, back |-> l, return |-> m, returned |-> n]
        \in [located : V, group : V, follow : V, rolling : V, looping : V, asked : V, mark : V,
             fade : V, stopping : V, back : V, return : V, returned : V]
    OBVIOUS
  <1> QED  BY <1>1 DEF EngineFields

\* Before any message the two sides are alike, and what is frozen is held.
LEMMA MirrorStarts == Init => MirrorInv
  <1> SUFFICES ASSUME Init PROVE MirrorInv
    OBVIOUS
  <1>1. PICK held \in [Transports -> Born \cup {None}] :
        /\ \A j, k \in Transports : held[j] = held[k] => j = k \/ held[j] = None
        /\ mirror = [k \in Transports |->
             [located |-> Start, group |-> held[k], follow |-> None, playing |-> FALSE,
              looping |-> None, mark |-> None,
              fade |-> "fade" \in Given, defined |-> "defined" \in Given]]
        /\ engine = [k \in Transports |->
             [located |-> Start, group |-> held[k], follow |-> None, rolling |-> FALSE,
              looping |-> None, asked |-> None, mark |-> None, fade |-> "fade" \in Given,
              stopping |-> None, back |-> None, return |-> None, returned |-> FALSE]]
        /\ frozen = Range(held) \ {None}
    BY DEF Init
  <1>2. ASSUME NEW k \in Transports
        PROVE  /\ mirror[k] \in [MirrorFields -> Values]
               /\ engine[k] \in [EngineFields -> Values]
               /\ mirror[k].playing = FALSE /\ engine[k].rolling = FALSE
               /\ engine[k].back = None /\ engine[k].stopping = None
               /\ engine[k].return = None /\ engine[k].returned = FALSE /\ engine[k].mark = None
               /\ \A f \in Settings : mirror[k][f] = Has(engine[k], f)
               /\ \A f \in Bindings \cup {"located"} : mirror[k][f] = engine[k][f]
               /\ engine[k].group = held[k] /\ engine[k].follow = None
    <2>1. held[k] \in Values /\ None \in Values /\ Start \in Values
      BY <1>1, TransportMirrorAssumption DEF Values
    <2>2. FALSE \in Values /\ \A x : (x \in Given) \in BOOLEAN
      BY DEF Values
    <2>3. BOOLEAN \subseteq Values
      BY DEF Values
    <2> DEFINE fa == "fade" \in Given
               de == "defined" \in Given
    <2>4. fa \in BOOLEAN /\ de \in BOOLEAN
      OBVIOUS
    <2>5. /\ mirror[k] = [located |-> Start, group |-> held[k], follow |-> None, playing |-> FALSE,
                          looping |-> None, mark |-> None, fade |-> fa, defined |-> de]
          /\ engine[k] = [located |-> Start, group |-> held[k], follow |-> None, rolling |-> FALSE,
                          looping |-> None, asked |-> None, mark |-> None, fade |-> fa,
                          stopping |-> None, back |-> None, return |-> None, returned |-> FALSE]
      BY <1>1
    <2> HIDE DEF fa, de
    <2>6. fa \in Values /\ de \in Values
      BY <2>3, <2>4
    <2>7. mirror[k] \in [MirrorFields -> Values]
      <3>1. [located |-> Start, group |-> held[k], follow |-> None, playing |-> FALSE,
             looping |-> None, mark |-> None, fade |-> fa, defined |-> de] \in [MirrorFields -> Values]
        BY <2>1, <2>2, <2>6, MirrorRecord
      <3> QED  BY <2>5, <3>1
    <2>8. engine[k] \in [EngineFields -> Values]
      <3>1. [located |-> Start, group |-> held[k], follow |-> None, rolling |-> FALSE,
             looping |-> None, asked |-> None, mark |-> None, fade |-> fa, stopping |-> None,
             back |-> None, return |-> None, returned |-> FALSE] \in [EngineFields -> Values]
        BY <2>1, <2>2, <2>6, EngineRecord
      <3> QED  BY <2>5, <3>1
    <2>9. /\ \A f \in Settings : mirror[k][f] = Has(engine[k], f)
          /\ \A f \in Bindings \cup {"located"} : mirror[k][f] = engine[k][f]
      BY <2>5 DEF Settings, Bindings, Has
    <2>10. /\ mirror[k].playing = FALSE /\ engine[k].rolling = FALSE
           /\ engine[k].back = None /\ engine[k].stopping = None
           /\ engine[k].return = None /\ engine[k].returned = FALSE /\ engine[k].mark = None
           /\ engine[k].group = held[k] /\ engine[k].follow = None
      BY <2>5
    <2> QED  BY <2>7, <2>8, <2>9, <2>10
  <1>3. /\ cmds = << >> /\ garbage = << >> /\ live = Born /\ apart = {}
        /\ mirror \in [Transports -> [MirrorFields -> Values]]
        /\ engine \in [Transports -> [EngineFields -> Values]]
    BY <1>1, <1>2 DEF Init
  <1>4. frozen = {held[k] : k \in Transports} \ {None}
    BY <1>1 DEF Range
  <1>5. Typed
    <2>1. frozen \subseteq live /\ live \subseteq GroupIds
      BY <1>1, <1>3, <1>4, TransportMirrorAssumption
    <2>2. Len(cmds) <= FifoSize /\ cmds \in Seq(TransportHalf \cup TreeHalf) /\ garbage \in Seq(Return)
      BY <1>3, TransportMirrorAssumption
    <2>3. \A k \in Transports : Sound(engine[k])
      BY <1>2 DEF Sound, Marks
    <2> QED  BY <1>2, <1>3, <2>1, <2>2, <2>3 DEF Typed
  <1>6. SettingsTold /\ GroupsTold /\ PlacesTold
    <2>1. ASSUME NEW k \in Transports, NEW f \in Bindings, NEW g, Final(cmds, engine[k][f], k, f, g)
          PROVE  mirror[k][f] = g
      BY <1>2, <1>3, <2>1, HeldAtFirst, ZenonT(30)
    <2>3. ASSUME NEW k \in Transports, NEW f \in Settings, NEW g,
                 Final(cmds, Has(engine[k], f), k, f, g)
          PROVE  mirror[k][f] = g
      BY <1>2, <1>3, <2>3, HeldAtFirst, ZenonT(30)
    <2>2. ASSUME NEW k \in Transports, NEW g, Final(cmds, PlaceOf(engine[k]), k, "located", g)
          PROVE  mirror[k].located = g
      <3>1. PlaceOf(engine[k]) = g
        BY <1>3, <2>2, HeldAtFirst
      <3> QED  BY <3>1, <1>2 DEF PlaceOf
    <2> QED  BY <2>1, <2>2, <2>3 DEF SettingsTold, GroupsTold, PlacesTold
  <1>7. RunsTold
    <2> SUFFICES ASSUME NEW k \in Transports, NEW g \in BOOLEAN, Final(cmds, Going(engine[k]), k, "run", g)
                 PROVE  mirror[k].playing = g
      BY DEF RunsTold
    <2>1. Going(engine[k]) = g
      BY <1>3, HeldAtFirst
    <2> QED  BY <2>1, <1>2 DEF Going
  <1>8. BoundOnce
    <2> SUFFICES ASSUME NEW n \in 0 .. Len(cmds), NEW j \in Transports, NEW k \in Transports,
                        NEW e \in Bindings, NEW f \in Bindings, NEW g \in Values \ {None},
                        Held(cmds, engine[j][e], j, e, n, g), Held(cmds, engine[k][f], k, f, n, g)
                 PROVE  j = k /\ e = f
      BY DEF BoundOnce
    <2>1. n = 0 /\ n = Len(cmds)
      BY <1>3
    <2>2. engine[j][e] = g /\ engine[k][f] = g
      BY <2>1, <1>3, HeldAtFirst DEF Final
    <2> QED  BY <2>2, <1>1, <1>2, TransportMirrorAssumption DEF Bindings
  <1>9. FrozenGoverned
    <2> SUFFICES ASSUME NEW g \in frozen PROVE \E k \in Transports : engine[k].group = g
      BY DEF FrozenGoverned
    <2>1. PICK k \in Transports : g = held[k]
      BY <1>4
    <2> QED  BY <2>1, <1>2
  <1> QED  BY <1>5, <1>6, <1>7, <1>8, <1>9 DEF MirrorInv

-----------------------------------------------------------------------------
(* Messages.                                                                 *)

AnyHalf == TransportHalf \cup TreeHalf
Silent(s, k, f) == \A i \in 1 .. Len(s) : ~ Binds(s[i], k, f)

\* What the mirror has goes from m to now as the halves say, if they say anything.
Says(s, k, f, m, now) ==
    \/ /\ ~ Silent(s, k, f)
       /\ \A i \in 1 .. Len(s) : Binds(s[i], k, f) => s[i].value = now
    \/ now = m /\ Silent(s, k, f)

\* What is final once more halves are sent: one of theirs, or what was final.
LEMMA FinalSent ==
    ASSUME NEW S, NEW c \in Seq(S), NEW s \in Seq(S), NEW v, NEW k, NEW f, NEW g,
           Final(c \o s, v, k, f, g)
    PROVE  \/ \E i \in 1 .. Len(s) : Binds(s[i], k, f) /\ s[i].value = g
           \/ Final(c, v, k, f, g) /\ Silent(s, k, f)
  <1>1. Len(c \o s) = Len(c) + Len(s) /\ Len(s) \in 0 .. Len(s)
    OBVIOUS
  <1>2. Held(c \o s, v, k, f, Len(c) + Len(s), g)
    BY <1>1 DEF Final
  <1>3. \/ \E i \in 1 .. Len(s) : Binds(s[i], k, f) /\ s[i].value = g
        \/ Held(c, v, k, f, Len(c), g) /\ \A j \in 1 .. Len(s) : ~ Binds(s[j], k, f)
    BY <1>1, <1>2, HeldAfter, Zenon
  <1> QED  BY <1>3 DEF Final, Silent

\* So of a field whose mirror goes as they say, it is what the mirror has now, or
\* was final and the mirror had it already.
LEMMA FinalSays ==
    ASSUME NEW S, NEW c \in Seq(S), NEW s \in Seq(S), NEW v, NEW k, NEW f, NEW g, NEW m, NEW now,
           Final(c \o s, v, k, f, g), Says(s, k, f, m, now)
    PROVE  now = g \/ (now = m /\ Final(c, v, k, f, g))
  <1>1. CASE \E i \in 1 .. Len(s) : Binds(s[i], k, f) /\ s[i].value = g
    BY <1>1 DEF Says, Silent
  <1>2. CASE Final(c, v, k, f, g) /\ Silent(s, k, f)
    BY <1>2 DEF Says
  <1> QED  BY <1>1, <1>2, FinalSent

\* Halves sent, and the mirror as they say.
Sends(s) ==
    /\ cmds' = cmds \o s /\ Len(cmds') <= FifoSize
    /\ apart \subseteq apart'
    /\ mirror' \in [Transports -> [MirrorFields -> Values]]
    /\ \A k \in Transports : mirror'[k].playing \in BOOLEAN
    /\ \A k \in Transports :
         /\ mirror'[k].defined /\ <<k, "located">> \notin apart' =>
              /\ Says(s, k, "located", mirror[k].located, mirror'[k].located)
              /\ mirror[k].defined \/ ~ Silent(s, k, "located")
         /\ <<k, "playing">> \notin apart' =>
              \/ Says(s, k, "run", mirror[k].playing, mirror'[k].playing)
              \/ /\ Silent(s, k, "run")
                 /\ \A g \in BOOLEAN :
                        Final(cmds, Going(engine[k]), k, "run", g) => mirror'[k].playing = g

\* The model's Heading is what is final of a run.
LEMMA HeadingIsFinal ==
    ASSUME Typed, NEW k \in Transports, NEW g, Final(cmds, Going(engine[k]), k, "run", g)
    PROVE  g = Heading(k)
  <1> DEFINE runs == {i \in DOMAIN cmds : cmds[i].op = "run" /\ cmds[i].transport = k}
             last == Max(runs)
  <1>1. Len(cmds) \in Nat /\ DOMAIN cmds = 1 .. Len(cmds)
    BY DEF Typed
  <1>2. CASE Going(engine[k]) = g /\ \A j \in 1 .. Len(cmds) : ~ Binds(cmds[j], k, "run")
    <2>1. runs = {}
      BY <1>1, <1>2 DEF Binds
    <2>2. Heading(k) = Going(engine[k])
      BY <2>1 DEF Heading
    <2> QED  BY <1>2, <2>2
  <1>3. ASSUME NEW i \in 1 .. Len(cmds), Binds(cmds[i], k, "run"), cmds[i].value = g,
               \A j \in (i + 1) .. Len(cmds) : ~ Binds(cmds[j], k, "run")
        PROVE  g = Heading(k)
    <2>1. i \in runs /\ \A j \in runs : i >= j
      BY <1>1, <1>3 DEF Binds
    <2>2. \A m \in runs : (\A j \in runs : m >= j) => m = i
      BY <1>1, <2>1
    <2>3. last = i
      BY <2>1, <2>2 DEF Max
    <2>4. Heading(k) = cmds[last].value
      BY <2>1 DEF Heading
    <2> QED  BY <1>3, <2>3, <2>4
  <1> QED  BY <1>2, <1>3 DEF Final, Held

\* What ends by itself goes on to, or the mirror has it ended.
EndingStays == \A k \in Transports : mirror'[k].playing /\ Ending(k) => Ending(k)'

\* Halves sent with the mirror changed as they say leave places and runs told.
LEMMA SendingTells ==
    ASSUME MirrorInv, NEW s \in Seq(AnyHalf), Sends(s), UNCHANGED audio, garbage' \in Seq(Return),
           EndingStays
    PROVE  PlacesTold' /\ RunsTold' /\ FrozenGoverned' /\ Typed'
  <1>0. cmds \in Seq(AnyHalf)
    BY DEF MirrorInv, Typed, AnyHalf
  <1>5. ASSUME NEW k, NEW g, Says(s, k, "located", mirror[k].located, mirror'[k].located),
               Final(cmds \o s, PlaceOf(engine[k]), k, "located", g)
        PROVE  \/ mirror'[k].located = g
               \/ /\ mirror'[k].located = mirror[k].located
                  /\ Final(cmds, PlaceOf(engine[k]), k, "located", g)
    BY <1>0, <1>5, FinalSays
  <1>1. PlacesTold'
    <2> SUFFICES ASSUME NEW k \in Transports, NEW g \in Values, mirror'[k].defined,
                        <<k, "located">> \notin apart', <<k, "called off">> \notin apart',
                        Final(cmds \o s, PlaceOf(engine[k]), k, "located", g)
                 PROVE  mirror'[k].located = g
      BY DEF PlacesTold, PlaceOf, audio, Sends
    <2>1. /\ Says(s, k, "located", mirror[k].located, mirror'[k].located)
          /\ mirror[k].defined \/ ~ Silent(s, k, "located")
          /\ <<k, "located">> \notin apart /\ <<k, "called off">> \notin apart
      BY DEF Sends
    <2>2. CASE ~ mirror[k].defined
      <3>1. ~ Silent(s, k, "located")
        BY <2>1, <2>2
      <3> QED  BY <3>1, <2>1, <1>0, FinalSent, ZenonT(30) DEF Says
    <2>3. CASE mirror[k].defined
      <3>1. \/ mirror'[k].located = g
            \/ /\ mirror'[k].located = mirror[k].located
               /\ Final(cmds, PlaceOf(engine[k]), k, "located", g)
        <4>1. Says(s, k, "located", mirror[k].located, mirror'[k].located)
          BY <2>1, Zenon
        <4>2. Final(cmds \o s, PlaceOf(engine[k]), k, "located", g)
          OBVIOUS
        <4> QED  BY <4>1, <4>2, <1>5, Zenon
      <3> QED  BY <3>1, <2>1, <2>3 DEF MirrorInv, PlacesTold
    <2> QED  BY <2>2, <2>3
  <1>2. RunsTold'
    <2> SUFFICES ASSUME NEW k \in Transports, NEW g \in BOOLEAN, <<k, "playing">> \notin apart',
                        Final(cmds \o s, Going(engine[k]), k, "run", g)
                 PROVE  \/ mirror'[k].playing = g
                        \/ /\ mirror'[k].playing /\ ~ g /\ Ending(k)'
                           /\ \A i \in DOMAIN (cmds \o s) : ~ Binds((cmds \o s)[i], k, "run")
      BY DEF RunsTold, Going, audio, Sends
    <2>1. <<k, "playing">> \notin apart
      BY DEF Sends
    <2>2. CASE Says(s, k, "run", mirror[k].playing, mirror'[k].playing)
      <3>1. CASE mirror'[k].playing = g
        BY <3>1
      <3>2. CASE mirror'[k].playing # g
        <4>1. mirror'[k].playing = mirror[k].playing /\ Final(cmds, Going(engine[k]), k, "run", g)
          BY <2>2, <3>2, <1>0, FinalSays
        <4>2. mirror[k].playing /\ ~ g /\ Ending(k) /\ \A i \in DOMAIN cmds : ~ Binds(cmds[i], k, "run")
          BY <4>1, <2>1, <3>2 DEF MirrorInv, RunsTold
        <4>3. Silent(s, k, "run")
          <5>1. ~ \E i \in 1 .. Len(s) : Binds(s[i], k, "run") /\ s[i].value = g
            BY <2>2, <3>2 DEF Says, Silent
          <5> QED  BY <5>1, <1>0, FinalSent
        <4>4. \A i \in DOMAIN (cmds \o s) : ~ Binds((cmds \o s)[i], k, "run")
          <5>1. ASSUME NEW i \in DOMAIN (cmds \o s)
                PROVE  \/ i \in DOMAIN cmds /\ (cmds \o s)[i] = cmds[i]
                       \/ i - Len(cmds) \in 1 .. Len(s) /\ (cmds \o s)[i] = s[i - Len(cmds)]
            BY <1>0
          <5> QED  BY <5>1, <4>2, <4>3 DEF Silent
        <4>5. mirror'[k].playing /\ Ending(k)'
          BY <4>1, <4>2 DEF EndingStays
        <4> QED  BY <4>2, <4>4, <4>5
      <3> QED  BY <3>1, <3>2
    <2>3. CASE /\ Silent(s, k, "run")
               /\ \A b \in BOOLEAN :
                      Final(cmds, Going(engine[k]), k, "run", b) => mirror'[k].playing = b
      <3>1. Final(cmds, Going(engine[k]), k, "run", g)
        BY <2>3, <1>0, FinalSent DEF Silent
      <3> QED  BY <3>1, <2>3
    <2> QED  BY <2>2, <2>3 DEF Sends
  <1>3. FrozenGoverned'
    BY DEF MirrorInv, FrozenGoverned, audio
  <1>4. Typed'
    <2>1. cmds' \in Seq(AnyHalf)
      BY <1>0 DEF Sends
    <2> QED  BY <2>1 DEF MirrorInv, Typed, Sends, audio, AnyHalf
  <1> QED  BY <1>1, <1>2, <1>3, <1>4

\* And settings.
LEMMA SendingTellsSettings ==
    ASSUME MirrorInv, NEW s \in Seq(AnyHalf), Sends(s), UNCHANGED audio,
           \A k \in Transports, f \in Settings : Says(s, k, f, mirror[k][f], mirror'[k][f])
    PROVE  SettingsTold'
  <1>0. cmds \in Seq(AnyHalf)
    BY DEF MirrorInv, Typed, AnyHalf
  <1>1. ASSUME NEW k \in Transports, NEW f \in Settings, NEW g \in Values,
               Final(cmds \o s, Has(engine[k], f), k, f, g)
        PROVE  \/ mirror'[k][f] = g
               \/ mirror'[k][f] = mirror[k][f] /\ Final(cmds, Has(engine[k], f), k, f, g)
    BY <1>0, <1>1, FinalSays, Zenon
  <1>2. engine' = engine /\ cmds' = cmds \o s
    BY DEF audio, Sends
  <1> SUFFICES ASSUME NEW k \in Transports, NEW f \in Settings, NEW g \in Values,
                      Final(cmds \o s, Has(engine[k], f), k, f, g)
               PROVE  mirror'[k][f] = g
    BY <1>2 DEF SettingsTold
  <1> QED  BY <1>1 DEF MirrorInv, SettingsTold

\* And groups, with no death taken out of the garbage.
LEMMA SendingTellsGroups ==
    ASSUME MirrorInv, NEW s \in Seq(AnyHalf), Sends(s), UNCHANGED audio,
           \A x : InGarbage(<<"freed", x>>) => InGarbage(<<"freed", x>>)',
           \A k \in Transports, f \in Bindings : Says(s, k, f, mirror[k][f], mirror'[k][f])
    PROVE  GroupsTold'
  <1>0. cmds \in Seq(AnyHalf)
    BY DEF MirrorInv, Typed, AnyHalf
  <1>1. ASSUME NEW k \in Transports, NEW f \in Bindings, NEW g \in Values,
               Final(cmds \o s, engine[k][f], k, f, g)
        PROVE  \/ mirror'[k][f] = g
               \/ mirror'[k][f] = mirror[k][f] /\ Final(cmds, engine[k][f], k, f, g)
    BY <1>0, <1>1, FinalSays, Zenon
  <1> SUFFICES ASSUME NEW k \in Transports, NEW f \in Bindings, NEW g \in Values,
                      <<k, f>> \notin apart', Final(cmds \o s, engine[k][f], k, f, g)
               PROVE  \/ mirror'[k][f] = g
                      \/ g = None /\ InGarbage(<<"freed", mirror[k][f]>>)'
    BY DEF GroupsTold, audio, Sends
  <1>2. <<k, f>> \notin apart
    BY DEF Sends
  <1>3. \/ mirror'[k][f] = g
        \/ mirror'[k][f] = mirror[k][f] /\ g = None /\ InGarbage(<<"freed", mirror[k][f]>>)
    BY <1>1, <1>2 DEF MirrorInv, GroupsTold
  <1>4. PICK m : m = mirror[k][f]
    OBVIOUS
  <1>5. InGarbage(<<"freed", m>>) => InGarbage(<<"freed", m>>)'
    OBVIOUS
  <1>6. CASE mirror'[k][f] = m /\ g = None /\ InGarbage(<<"freed", m>>)
    <2>1. InGarbage(<<"freed", m>>)'
      BY <1>5, <1>6
    <2>2. InGarbage(<<"freed", mirror[k][f]>>)'
      BY <1>6, <2>1 DEF InGarbage
    <2> QED  BY <1>6, <2>2
  <1> QED  BY <1>3, <1>4, <1>6

\* What is sent binds no group, or is one half that binds one to nobody else.
LEMMA SendingBindsOnce ==
    ASSUME MirrorInv, NEW s \in Seq(AnyHalf), cmds' = cmds \o s, apart \subseteq apart',
           UNCHANGED engine,
           \A k \in Transports, f \in Bindings, i \in 1 .. Len(s) :
               Binds(s[i], k, f) /\ s[i].value # None => Len(s) = 1 /\ FreeFor(k, f, s[i].value)
    PROVE  BoundOnce'
  <1>0. cmds \in Seq(AnyHalf) /\ Len(cmds) \in Nat /\ Len(s) \in Nat
    BY DEF MirrorInv, Typed, AnyHalf
  <1>1. BindingsAgree' => BindingsAgree
    BY DEF BindingsAgree
  <1> SUFFICES ASSUME BindingsAgree,
                      NEW n \in 0 .. Len(cmds \o s), NEW j \in Transports, NEW k \in Transports,
                      NEW e \in Bindings, NEW f \in Bindings, NEW g \in Values \ {None},
                      Held(cmds \o s, engine[j][e], j, e, n, g),
                      Held(cmds \o s, engine[k][f], k, f, n, g)
               PROVE  j = k /\ e = f
    BY <1>1 DEF BoundOnce
  <1>2. CASE n \in 0 .. Len(cmds)
    <2>1. Held(cmds, engine[j][e], j, e, n, g) /\ Held(cmds, engine[k][f], k, f, n, g)
      BY <1>0, <1>2, HeldBefore
    <2> QED  BY <1>2, <2>1 DEF MirrorInv, BoundOnce
  <1>3. ASSUME NEW m \in 1 .. Len(s), n = Len(cmds) + m PROVE j = k /\ e = f
    <2> DEFINE now(h, d) == \E i \in 1 .. m : Binds(s[i], h, d) /\ s[i].value = g
               old(h, d) == Final(cmds, engine[h][d], h, d, g)
    <2>0. m \in 0 .. Len(s) /\ 1 .. m \subseteq 1 .. Len(s)
      BY <1>0, <1>3
    <2>1. now(j, e) \/ old(j, e)
      BY <1>0, <1>3, <2>0, HeldAfter DEF Final
    <2>2. now(k, f) \/ old(k, f)
      BY <1>0, <1>3, <2>0, HeldAfter DEF Final
    <2>3. g # None /\ g \in Values
      BY TransportMirrorAssumption DEF Values
    <2>4. ASSUME NEW h \in Transports, NEW d \in Bindings, old(h, d) PROVE mirror[h][d] = g
      BY <2>3, <2>4 DEF MirrorInv, GroupsTold, BindingsAgree
    <2>5. ASSUME NEW h \in Transports, NEW d \in Bindings, now(h, d)
          PROVE  Len(s) = 1 /\ Binds(s[1], h, d) /\ FreeFor(h, d, g)
      <3>1. PICK i \in 1 .. m : Binds(s[i], h, d) /\ s[i].value = g
        BY <2>5
      <3>2. Len(s) = 1 /\ FreeFor(h, d, g)
        BY <2>0, <2>3, <3>1
      <3>3. i = 1
        BY <2>0, <3>2
      <3> QED  BY <3>1, <3>2, <3>3
    <2>6. CASE old(j, e) /\ old(k, f)
      <3>1. Len(cmds) \in 0 .. Len(cmds)
        BY <1>0
      <3> QED  BY <2>6, <3>1 DEF MirrorInv, BoundOnce, Final
    <2>7. CASE now(j, e) /\ now(k, f)
      BY <2>5, <2>7 DEF Binds
    <2> HIDE DEF now, old
    <2>8. CASE now(j, e) /\ old(k, f)
      <3>1. FreeFor(j, e, g) /\ mirror[k][f] = g
        BY <2>4, <2>5, <2>8
      <3> QED  BY <3>1 DEF FreeFor
    <2>9. CASE old(j, e) /\ now(k, f)
      <3>1. FreeFor(k, f, g) /\ mirror[j][e] = g
        BY <2>4, <2>5, <2>9
      <3> QED  BY <3>1 DEF FreeFor
    <2> QED  BY <2>1, <2>2, <2>6, <2>7, <2>8, <2>9
  <1>4. n \in 0 .. Len(cmds) \/ \E m \in 1 .. Len(s) : n = Len(cmds) + m
    <2>1. n \in 0 .. Len(cmds) + Len(s)
      BY <1>0
    <2>2. n \in 0 .. Len(cmds) \/ (n - Len(cmds) \in 1 .. Len(s) /\ n = Len(cmds) + (n - Len(cmds)))
      BY <1>0, <2>1
    <2> QED  BY <2>2
  <1> QED  BY <1>2, <1>3, <1>4

\* Halves are sent in order up to the first one refused.
LEMMA Sending ==
    ASSUME MirrorInv, NEW halves \in Seq(AnyHalf),
           cmds' = cmds \o SubSeq(halves, 1, IF Fits(halves) THEN Len(halves) ELSE Room)
    PROVE  \E s \in Seq(AnyHalf) :
             /\ cmds' = cmds \o s /\ Len(cmds') <= FifoSize
             /\ Len(s) <= Len(halves) /\ \A i \in 1 .. Len(s) : s[i] = halves[i]
             /\ Fits(halves) => s = halves
             /\ ~ Fits(halves) => Len(s) = Room /\ Room < Len(halves)
  <1> DEFINE n == IF Fits(halves) THEN Len(halves) ELSE Room
             s == SubSeq(halves, 1, n)
  <1>1. Len(halves) \in Nat /\ Room \in Nat /\ Len(cmds) \in Nat /\ FifoSize \in Nat
        /\ cmds \in Seq(AnyHalf) /\ Len(cmds) + Room = FifoSize
    BY TransportMirrorAssumption DEF MirrorInv, Typed, AnyHalf, Room
  <1>2. n \in 0 .. Len(halves) /\ n <= Room /\ (~ Fits(halves) => n = Room /\ Room < Len(halves))
        /\ (Fits(halves) => n = Len(halves))
    BY <1>1 DEF Fits
  <1> HIDE DEF n
  <1>3. s \in Seq(AnyHalf) /\ Len(s) = n /\ \A i \in 1 .. n : s[i] = halves[i]
    BY <1>1, <1>2
  <1>4. Fits(halves) => s = halves
    BY <1>1, <1>2
  <1>5. cmds' = cmds \o s
    BY DEF n
  <1> HIDE DEF s
  <1>6. Len(cmds') <= FifoSize
    BY <1>1, <1>2, <1>3, <1>5
  <1>7. Len(s) <= Len(halves)
    BY <1>1, <1>2, <1>3
  <1>8. ~ Fits(halves) => Len(s) = Room /\ Room < Len(halves)
    BY <1>2, <1>3
  <1>9. s \in Seq(AnyHalf) /\ \A i \in 1 .. Len(s) : s[i] = halves[i]
    BY <1>3
  <1> QED  BY <1>4, <1>5, <1>6, <1>7, <1>8, <1>9

\* The same of the halves of a message.
LEMMA Handling ==
    ASSUME MirrorInv, NEW halves \in Seq(AnyHalf), Handle(halves)
    PROVE  \E s \in Seq(AnyHalf) :
             /\ cmds' = cmds \o s /\ Len(cmds') <= FifoSize
             /\ Len(s) <= Len(halves) /\ \A i \in 1 .. Len(s) : s[i] = halves[i]
             /\ Fits(halves) => s = halves
             /\ ~ Fits(halves) => Len(s) = Room /\ Room < Len(halves)
  BY Sending DEF Handle

\* One field of one record is changed.
LEMMA FieldSet ==
    ASSUME NEW T, NEW F, NEW V, NEW a \in [T -> [F -> V]], NEW k \in T, NEW f \in F, NEW v \in V,
           NEW b, b = [a EXCEPT ![k][f] = v]
    PROVE  /\ b \in [T -> [F -> V]]
           /\ b[k][f] = v
           /\ \A j \in T, e \in F : j # k \/ e # f => b[j][e] = a[j][e]
  OBVIOUS

\* A message keeps the invariant if its mirror goes as its halves say, and what it
\* binds is bound to nothing else.
LEMMA MessageKeeps ==
    ASSUME MirrorInv, NEW s \in Seq(AnyHalf), Sends(s), UNCHANGED <<audio, garbage>>,
           \A k \in Transports, f \in Settings \cup Bindings :
               Says(s, k, f, mirror[k][f], mirror'[k][f]),
           \A k \in Transports, f \in Bindings, i \in 1 .. Len(s) :
               Binds(s[i], k, f) /\ s[i].value # None => Len(s) = 1 /\ FreeFor(k, f, s[i].value)
    PROVE  MirrorInv'
  <1>0. /\ garbage' \in Seq(Return) /\ UNCHANGED audio
        /\ \A x : InGarbage(x) => InGarbage(x)'
        /\ EndingStays
    BY DEF MirrorInv, Typed, EndingStays, Ending, InGarbage, audio
  <1>1. PlacesTold' /\ RunsTold' /\ FrozenGoverned' /\ Typed'
    BY <1>0, SendingTells
  <1>2. SettingsTold' /\ GroupsTold'
    BY <1>0, SendingTellsSettings, SendingTellsGroups
  <1>3. BoundOnce'
    BY SendingBindsOnce DEF Sends, audio
  <1> QED  BY <1>1, <1>2, <1>3 DEF MirrorInv

\* A message that is refused at its first half.
LEMMA NothingSaid ==
    ASSUME MirrorInv, NEW s \in Seq(AnyHalf), Len(s) = 0, cmds' = cmds \o s, Len(cmds') <= FifoSize,
           mirror' = mirror, apart \subseteq apart'
    PROVE  /\ Sends(s)
           /\ \A k \in Transports, f \in Settings \cup Bindings :
                  Says(s, k, f, mirror[k][f], mirror'[k][f])
           /\ \A k \in Transports, f \in Bindings, i \in 1 .. Len(s) : FALSE
  <1>1. \A k, f : Silent(s, k, f)
    BY DEF Silent
  <1>2. Sends(s)
    BY <1>1 DEF Sends, Says, MirrorInv, Typed
  <1> QED  BY <1>1, <1>2 DEF Says

\* Set and Bind: one half, whose field the mirror then has.
LEMMA ChangeKeeps ==
    ASSUME MirrorInv, NEW k \in Transports, NEW f \in Settings \cup Bindings, NEW x \in Values,
           f = "mark" => x \in Marks, f \in Bindings /\ x # None => FreeFor(k, f, x),
           Change(k, Half(k, f, x), f)
    PROVE  MirrorInv'
  <1> DEFINE h == Half(k, f, x)
             halves == <<h>>
  <1>1. h \in AnyHalf /\ h.transport = k /\ h.op = f /\ h.value = x
    BY DEF Half, AnyHalf, TransportHalf, MarkHalves, OtherHalves, Settings, Bindings
  <1>2. Handle(halves) /\ apart' = apart
        /\ mirror' = IF Fits(halves) THEN [mirror EXCEPT ![k][f] = x] ELSE mirror
    BY <1>1 DEF Change
  <1> HIDE DEF h
  <1>3. halves \in Seq(AnyHalf) /\ Len(halves) = 1 /\ halves[1] = h
    BY <1>1
  <1> HIDE DEF halves
  <1>4. PICK s \in Seq(AnyHalf) :
             /\ cmds' = cmds \o s /\ Len(cmds') <= FifoSize
             /\ Len(s) <= Len(halves) /\ \A i \in 1 .. Len(s) : s[i] = halves[i]
             /\ Fits(halves) => s = halves
             /\ ~ Fits(halves) => Len(s) = Room /\ Room < Len(halves)
    BY <1>2, <1>3, Handling
  <1>5. UNCHANGED <<audio, garbage>>
    BY <1>2 DEF Handle
  <1>6. CASE ~ Fits(halves)
    <2>1. Len(s) = 0
      BY <1>3, <1>4, <1>6
    <2> QED  BY <1>2, <1>4, <1>5, <1>6, <2>1, NothingSaid, MessageKeeps
  <1>7. CASE Fits(halves)
    <2>0. Len(s) = 1 /\ s[1] = h
      <3>1. s = halves
        BY <1>4, <1>7
      <3> QED  BY <1>3, <3>1
    <2>1. Len(s) = 1 /\ s[1] = h /\ 1 .. Len(s) = {1}
      BY <2>0
    <2>2. \A j \in Transports : \A e : j # k \/ e # f => Silent(s, j, e)
      BY <1>1, <2>1 DEF Silent, Binds
    <2>3. ~ Silent(s, k, f) /\ \A i \in 1 .. Len(s) : s[i].value = x
      BY <1>1, <2>1 DEF Silent, Binds
    <2>4. f \in MirrorFields /\ f # "located" /\ f # "playing" /\ f # "run" /\ f # "defined"
      BY DEF Settings, Bindings, MirrorFields
    <2>5. /\ mirror' \in [Transports -> [MirrorFields -> Values]]
          /\ mirror'[k][f] = x
          /\ \A j \in Transports, e \in MirrorFields : j # k \/ e # f => mirror'[j][e] = mirror[j][e]
      BY <1>2, <1>7, <2>4, FieldSet DEF MirrorInv, Typed
    <2>6. \A j \in Transports : /\ mirror'[j].located = mirror[j].located
                                /\ mirror'[j].playing = mirror[j].playing
                                /\ mirror'[j].defined = mirror[j].defined
      BY <2>4, <2>5 DEF MirrorFields
    <2>7. Sends(s)
      BY <1>2, <1>4, <2>2, <2>4, <2>5, <2>6 DEF Sends, Says, MirrorInv, Typed
    <2>8. \A j \in Transports, e \in Settings \cup Bindings : Says(s, j, e, mirror[j][e], mirror'[j][e])
      BY <2>2, <2>3, <2>5 DEF Says, MirrorFields, Settings, Bindings
    <2>9. \A j \in Transports, e \in Bindings, i \in 1 .. Len(s) :
               Binds(s[i], j, e) /\ s[i].value # None => Len(s) = 1 /\ FreeFor(j, e, s[i].value)
      BY <1>1, <2>1 DEF Binds
    <2> QED  BY <1>5, <2>7, <2>8, <2>9, MessageKeeps
  <1> QED  BY <1>6, <1>7

\* A group made or freed by a client is no business of a transport.
LEMMA GroupKeeps ==
    ASSUME MirrorInv, NEW g \in GroupIds, NewGroup(g) \/ FreeGroup(g)
    PROVE  MirrorInv'
  <1>1. PICK op \in {"new", "free"} : Handle(<<Half(None, op, g)>>)
    BY DEF NewGroup, FreeGroup
  <1> DEFINE h == Half(None, op, g)
             halves == <<h>>
  <1>2. h \in AnyHalf /\ h.transport = None
    BY DEF Half, AnyHalf, TreeHalf
  <1>3. Handle(halves) /\ apart' = apart /\ mirror' = mirror
    BY <1>1 DEF NewGroup, FreeGroup
  <1> HIDE DEF h
  <1>4. halves \in Seq(AnyHalf) /\ Len(halves) = 1 /\ halves[1] = h
    BY <1>2
  <1> HIDE DEF halves
  <1>5. PICK s \in Seq(AnyHalf) :
             /\ cmds' = cmds \o s /\ Len(cmds') <= FifoSize
             /\ Len(s) <= Len(halves) /\ \A i \in 1 .. Len(s) : s[i] = halves[i]
             /\ Fits(halves) => s = halves
             /\ ~ Fits(halves) => Len(s) = Room /\ Room < Len(halves)
    BY <1>3, <1>4, Handling
  <1>6. \A j \in Transports : \A e : Silent(s, j, e)
    <2>1. \A i \in 1 .. Len(s) : s[i] = h
      BY <1>4, <1>5
    <2> QED  BY <1>2, <2>1, TransportMirrorAssumption DEF Silent, Binds
  <1>7. UNCHANGED <<audio, garbage>>
    BY <1>3 DEF Handle
  <1>8. Sends(s)
    BY <1>3, <1>5, <1>6 DEF Sends, Says, MirrorInv, Typed
  <1>9. \A j \in Transports, e \in Settings \cup Bindings : Says(s, j, e, mirror[j][e], mirror'[j][e])
    BY <1>3, <1>6 DEF Says
  <1>10. \A j \in Transports, e \in Bindings, i \in 1 .. Len(s) : ~ Binds(s[i], j, e)
    BY <1>6 DEF Silent
  <1> QED  BY <1>7, <1>8, <1>9, <1>10, MessageKeeps

\* Locate: a place is told, and without a grid nothing is kept of it.
LEMMA LocateKeeps ==
    ASSUME MirrorInv, NEW k \in Transports, NEW place \in Places, Locate(k, place)
    PROVE  MirrorInv'
  <1> DEFINE h == Half(k, "located", place)
             halves == <<h>>
  <1>1. h \in AnyHalf /\ h.transport = k /\ h.op = "located" /\ h.value = place /\ place \in Values
    <2>1. place \in Values \ {None}
      BY TransportMirrorAssumption DEF Values
    <2> QED  BY <2>1 DEF Half, AnyHalf, TransportHalf, LocatedHalves
  <1>2. Handle(halves) /\ apart' = apart
        /\ mirror' = IF Fits(halves) /\ mirror[k].defined
                     THEN [mirror EXCEPT ![k].located = place] ELSE mirror
    BY DEF Locate
  <1> HIDE DEF h
  <1>3. halves \in Seq(AnyHalf) /\ Len(halves) = 1 /\ halves[1] = h
    BY <1>1
  <1> HIDE DEF halves
  <1>4. PICK s \in Seq(AnyHalf) :
             /\ cmds' = cmds \o s /\ Len(cmds') <= FifoSize
             /\ Len(s) <= Len(halves) /\ \A i \in 1 .. Len(s) : s[i] = halves[i]
             /\ Fits(halves) => s = halves
             /\ ~ Fits(halves) => Len(s) = Room /\ Room < Len(halves)
    BY <1>2, <1>3, Handling
  <1>5. UNCHANGED <<audio, garbage>>
    BY <1>2 DEF Handle
  <1>6. CASE ~ Fits(halves)
    <2>1. Len(s) = 0
      BY <1>3, <1>4, <1>6 DEF MirrorInv, Typed, Room
    <2>2. mirror' = mirror
      BY <1>2, <1>6
    <2> QED  BY <1>2, <1>4, <1>5, <2>1, <2>2, NothingSaid, MessageKeeps
  <1>7. CASE Fits(halves)
    <2>0. Len(s) = 1 /\ s[1] = h
      <3>1. s = halves
        BY <1>4, <1>7
      <3> QED  BY <1>3, <3>1
    <2>1. Len(s) = 1 /\ s[1] = h /\ 1 .. Len(s) = {1}
      BY <2>0
    <2>2. \A j \in Transports : \A e : j # k \/ e # "located" => Silent(s, j, e)
      BY <1>1, <2>1 DEF Silent, Binds
    <2>3. ~ Silent(s, k, "located") /\ \A i \in 1 .. Len(s) : s[i].value = place
      BY <1>1, <2>1 DEF Silent, Binds
    <2>4. /\ mirror' \in [Transports -> [MirrorFields -> Values]]
          /\ mirror[k].defined => mirror'[k]["located"] = place
          /\ \A j \in Transports, e \in MirrorFields : j # k \/ e # "located" => mirror'[j][e] = mirror[j][e]
      <3>1. "located" \in MirrorFields
        BY DEF MirrorFields
      <3>2. CASE mirror[k].defined
        <4>1. mirror' = [mirror EXCEPT ![k].located = place]
          BY <1>2, <1>7, <3>2
        <4>2. mirror \in [Transports -> [MirrorFields -> Values]]
          BY DEF MirrorInv, Typed
        <4>3. place \in Values
          BY <1>1
        <4> QED  BY <3>1, <4>1, <4>2, <4>3
      <3>3. CASE ~ mirror[k].defined
        BY <1>2, <3>3 DEF MirrorInv, Typed
      <3> QED  BY <3>2, <3>3
    <2>5. \A j \in Transports : /\ j # k => mirror'[j].located = mirror[j].located
                                /\ mirror'[j].playing = mirror[j].playing
                                /\ mirror'[j].defined = mirror[j].defined
      BY <2>4 DEF MirrorFields
    <2>6. Sends(s)
      <3>1. \A j \in Transports : Says(s, j, "run", mirror[j].playing, mirror'[j].playing)
        BY <2>2, <2>5 DEF Says
      <3>2. ASSUME NEW j \in Transports, mirror'[j].defined
            PROVE  Says(s, j, "located", mirror[j].located, mirror'[j].located) /\ mirror[j].defined
        BY <2>2, <2>3, <2>4, <2>5, <3>2 DEF Says
      <3> QED  BY <1>2, <1>4, <2>4, <2>5, <3>1, <3>2 DEF Sends, MirrorInv, Typed
    <2>7. \A j \in Transports, e \in Settings \cup Bindings : Says(s, j, e, mirror[j][e], mirror'[j][e])
      BY <2>2, <2>4 DEF Says, MirrorFields, Settings, Bindings
    <2>8. \A j \in Transports, e \in Bindings, i \in 1 .. Len(s) : ~ Binds(s[i], j, e)
      BY <1>1, <2>1 DEF Binds, Bindings
    <2> QED  BY <1>5, <2>6, <2>7, <2>8, MessageKeeps
  <1> QED  BY <1>6, <1>7

\* A message that runs or locates transport k, and its mirror as it is told.
LEMMA RunKeeps ==
    ASSUME MirrorInv, NEW k \in Transports, NEW s \in Seq(AnyHalf), UNCHANGED <<audio, garbage>>,
           cmds' = cmds \o s, Len(cmds') <= FifoSize, apart \subseteq apart',
           \A i \in 1 .. Len(s) : s[i].transport = k /\ s[i].op \in {"run", "located", "tempo"},
           mirror' \in [Transports -> [MirrorFields -> Values]],
           \A j \in Transports, e \in MirrorFields :
               j # k \/ e \notin {"located", "playing", "defined"} => mirror'[j][e] = mirror[j][e],
           mirror'[k].playing \in BOOLEAN,
           mirror'[k].defined /\ <<k, "located">> \notin apart' =>
               /\ Says(s, k, "located", mirror[k].located, mirror'[k].located)
               /\ mirror[k].defined \/ ~ Silent(s, k, "located"),
           <<k, "playing">> \notin apart' =>
               \/ Says(s, k, "run", mirror[k].playing, mirror'[k].playing)
               \/ mirror'[k].playing = Heading(k) /\ Silent(s, k, "run")
    PROVE  MirrorInv'
  <1>1. \A j \in Transports : \A e : j # k \/ e \in Settings \cup Bindings => Silent(s, j, e)
    BY DEF Silent, Binds, Settings, Bindings
  <1>2. \A j \in Transports \ {k} :
            /\ mirror'[j].playing = mirror[j].playing
            /\ mirror'[j].located = mirror[j].located
            /\ mirror'[j].defined = mirror[j].defined
    BY DEF MirrorFields
  <1>3. ASSUME NEW j \in Transports, j # k
        PROVE  /\ mirror'[j].playing \in BOOLEAN
               /\ Says(s, j, "located", mirror[j].located, mirror'[j].located)
               /\ Says(s, j, "run", mirror[j].playing, mirror'[j].playing)
               /\ mirror'[j].defined = mirror[j].defined
    BY <1>1, <1>2, <1>3 DEF Says, MirrorInv, Typed
  <1>7. <<k, "playing">> \notin apart' =>
            \/ Says(s, k, "run", mirror[k].playing, mirror'[k].playing)
            \/ /\ Silent(s, k, "run")
               /\ \A g \in BOOLEAN :
                      Final(cmds, Going(engine[k]), k, "run", g) => mirror'[k].playing = g
    BY HeadingIsFinal DEF MirrorInv
  <1>4. Sends(s)
    BY <1>3, <1>7 DEF Sends
  <1>5. \A j \in Transports, e \in Settings \cup Bindings : Says(s, j, e, mirror[j][e], mirror'[j][e])
    BY <1>1 DEF Says, MirrorFields, Settings, Bindings
  <1>6. \A j \in Transports, e \in Bindings, i \in 1 .. Len(s) : ~ Binds(s[i], j, e)
    BY <1>1 DEF Silent
  <1> QED  BY <1>4, <1>5, <1>6, MessageKeeps

\* The half of a run, when a group is bound.
LEMMA RunHalfIs ==
    ASSUME NEW k \in Transports, NEW on, on \in {TRUE, FALSE}
    PROVE  \E h \in AnyHalf :
             /\ h.transport = k /\ h.op = "run" /\ h.value = on
             /\ RunHalf(k, on) = IF IsBound(mirror[k]) THEN <<h>> ELSE << >>
  <1>1. on \in BOOLEAN
    OBVIOUS
  <1>2. Half(k, "run", on) \in AnyHalf
    BY <1>1 DEF Half, AnyHalf, TransportHalf, RunHalves
  <1> QED  BY <1>2 DEF RunHalf, Half

\* Stop: a half for a governed transport, only written down for another.
LEMMA StopKeeps ==
    ASSUME MirrorInv, NEW k \in Transports, Stop(k)
    PROVE  MirrorInv'
  <1> DEFINE halves == RunHalf(k, FALSE)
  <1>1. Handle(halves) /\ apart' = apart \cup OnlySaid(k, FALSE)
        /\ mirror' = IF Fits(halves) THEN [mirror EXCEPT ![k].playing = FALSE] ELSE mirror
    BY DEF Stop
  <1>7. FALSE \in {TRUE, FALSE}
    OBVIOUS
  <1>8. PICK h \in AnyHalf :
             /\ h.transport = k /\ h.op = "run" /\ h.value = FALSE
             /\ halves = IF IsBound(mirror[k]) THEN <<h>> ELSE << >>
    BY <1>7, RunHalfIs
  <1> HIDE DEF halves
  <1>2. /\ halves \in Seq(AnyHalf)
        /\ IsBound(mirror[k]) => Len(halves) = 1 /\ halves[1] = h
        /\ ~ IsBound(mirror[k]) => Len(halves) = 0
    BY <1>8
  <1>3. PICK s \in Seq(AnyHalf) :
             /\ cmds' = cmds \o s /\ Len(cmds') <= FifoSize
             /\ Len(s) <= Len(halves) /\ \A i \in 1 .. Len(s) : s[i] = halves[i]
             /\ Fits(halves) => s = halves
             /\ ~ Fits(halves) => Len(s) = Room /\ Room < Len(halves)
    BY <1>1, <1>2, Handling
  <1>4. UNCHANGED <<audio, garbage>>
    BY <1>1 DEF Handle
  <1>5. CASE ~ Fits(halves)
    <2>1. Len(halves) = 0 \/ Len(halves) = 1
      BY <1>2
    <2>2. Len(s) = 0
      <3>1. Len(s) < Len(halves) /\ Len(s) \in Nat
        BY <1>3, <1>5
      <3> QED  BY <1>2, <2>1, <3>1
    <2>3. mirror' = mirror /\ apart \subseteq apart'
      BY <1>1, <1>5
    <2> QED  BY <1>3, <1>4, <2>2, <2>3, NothingSaid, MessageKeeps
  <1>6. CASE Fits(halves)
    <2>1. s = halves
      BY <1>3, <1>6
    <2>2. \A i \in 1 .. Len(s) : s[i] = h
      BY <1>2, <2>1
    <2>3. IsBound(mirror[k]) => Len(s) = 1
      BY <1>2, <2>1
    <2>4. ~ IsBound(mirror[k]) => Len(s) = 0
      BY <1>2, <2>1
    <2>5. FALSE \in Values /\ "playing" \in MirrorFields
      BY DEF Values, MirrorFields
    <2>6. /\ mirror' \in [Transports -> [MirrorFields -> Values]]
          /\ mirror'[k]["playing"] = FALSE
          /\ \A j \in Transports, e \in MirrorFields : j # k \/ e # "playing" => mirror'[j][e] = mirror[j][e]
      <3>1. mirror' = [mirror EXCEPT ![k].playing = FALSE]
        BY <1>1, <1>6
      <3>2. mirror \in [Transports -> [MirrorFields -> Values]]
        BY DEF MirrorInv, Typed
      <3> QED  BY <2>5, <3>1, <3>2
    <2>7. mirror'[k].located = mirror[k].located /\ mirror'[k].defined = mirror[k].defined
      BY <2>6 DEF MirrorFields
    <2>8. Silent(s, k, "located")
      BY <1>8, <2>2 DEF Silent, Binds
    <2>9. <<k, "playing">> \notin apart' =>
               \/ Says(s, k, "run", mirror[k].playing, mirror'[k].playing)
               \/ mirror'[k].playing = Heading(k) /\ Silent(s, k, "run")
      <3>1. CASE IsBound(mirror[k])
        <4>1. 1 \in 1 .. Len(s) /\ Binds(s[1], k, "run")
          <5>1. 1 \in 1 .. Len(s)
            BY <2>3, <3>1
          <5> QED  BY <1>8, <2>2, <5>1 DEF Binds
        <4>2. \A i \in 1 .. Len(s) : s[i].value = mirror'[k].playing
          BY <1>8, <2>2, <2>6
        <4> QED  BY <4>1, <4>2 DEF Says, Silent
      <3>2. CASE ~ IsBound(mirror[k])
        <4>1. Silent(s, k, "run")
          BY <2>4, <3>2 DEF Silent
        <4>2. Heading(k) # FALSE => <<k, "playing">> \in apart'
          BY <1>1, <3>2 DEF OnlySaid, Apart
        <4> QED  BY <4>1, <4>2, <2>6
      <3> QED  BY <3>1, <3>2
    <2>10. \A i \in 1 .. Len(s) : s[i].transport = k /\ s[i].op \in {"run", "located", "tempo"}
      BY <1>8, <2>2
    <2>11. mirror'[k].playing \in BOOLEAN
      BY <2>6
    <2>12. mirror'[k].defined /\ <<k, "located">> \notin apart' =>
               /\ Says(s, k, "located", mirror[k].located, mirror'[k].located)
               /\ mirror[k].defined \/ ~ Silent(s, k, "located")
      BY <2>7, <2>8 DEF Says
    <2>13. \A j \in Transports, e \in MirrorFields :
               j # k \/ e \notin {"located", "playing", "defined"} => mirror'[j][e] = mirror[j][e]
      BY <2>6
    <2>14. apart \subseteq apart'
      BY <1>1
    <2> QED  BY <1>3, <1>4, <2>6, <2>9, <2>10, <2>11, <2>12, <2>13, <2>14, RunKeeps, Zenon
  <1> QED  BY <1>5, <1>6

\* The half of a locate.
LEMMA LocatedHalfIs ==
    ASSUME NEW k \in Transports, NEW place \in Values \ {None}
    PROVE  \E h \in AnyHalf : /\ h = Half(k, "located", place)
                              /\ h.transport = k /\ h.op = "located" /\ h.value = place
  <1>1. Half(k, "located", place) \in AnyHalf
    BY DEF Half, AnyHalf, TransportHalf, LocatedHalves
  <1> QED  BY <1>1 DEF Half

\* Play: both halves, the locate without the run, or neither.
LEMMA PlayKeeps ==
    ASSUME MirrorInv, NEW k \in Transports, NEW from \in Places \cup {None}, Play(k, from)
    PROVE  MirrorInv'
  <1> DEFINE locate == IF from = None THEN << >> ELSE <<Half(k, "located", from)>>
             runs == RunHalf(k, TRUE)
             halves == locate \o runs
             place == IF from # None /\ Fits(locate) THEN from ELSE mirror[k].located
  <1>1. /\ Handle(halves)
        /\ mirror' = [mirror EXCEPT ![k].located = place, ![k].playing = @ \/ Fits(halves)]
        /\ apart' = apart \cup (IF Fits(halves) THEN OnlySaid(k, TRUE) ELSE {})
        /\ from # None => mirror[k].defined
    BY DEF Play
  <1>2. TRUE \in {TRUE, FALSE} /\ from \in Values
    BY DEF Values
  <1>3. PICK r \in AnyHalf :
             /\ r.transport = k /\ r.op = "run" /\ r.value = TRUE
             /\ runs = IF IsBound(mirror[k]) THEN <<r>> ELSE << >>
    BY <1>2, RunHalfIs
  <1>4. PICK l \in AnyHalf : /\ from # None => l = Half(k, "located", from) /\ l.value = from
                             /\ l.transport = k /\ l.op = "located"
    <2>1. PICK p \in Values \ {None} : from # None => p = from
      BY TransportMirrorAssumption DEF Values
    <2> QED  BY <2>1, LocatedHalfIs
  <1>5. /\ locate = IF from = None THEN << >> ELSE <<l>>
        /\ runs = IF IsBound(mirror[k]) THEN <<r>> ELSE << >>
    BY <1>3, <1>4
  <1> HIDE DEF locate, runs
  <1>6. /\ locate \in Seq(AnyHalf) /\ runs \in Seq(AnyHalf) /\ halves \in Seq(AnyHalf)
        /\ Len(halves) = Len(locate) + Len(runs)
        /\ from = None => Len(locate) = 0
        /\ from # None => Len(locate) = 1 /\ halves[1] = l
        /\ ~ IsBound(mirror[k]) => Len(runs) = 0
        /\ IsBound(mirror[k]) => Len(runs) = 1 /\ halves[Len(locate) + 1] = r
    <2>1. locate \in Seq(AnyHalf) /\ runs \in Seq(AnyHalf)
      BY <1>5
    <2>2. /\ from = None => Len(locate) = 0
          /\ from # None => Len(locate) = 1 /\ locate[1] = l
          /\ ~ IsBound(mirror[k]) => Len(runs) = 0
          /\ IsBound(mirror[k]) => Len(runs) = 1 /\ runs[1] = r
      BY <1>5
    <2>3. halves \in Seq(AnyHalf) /\ Len(halves) = Len(locate) + Len(runs)
      BY <2>1
    <2>4. \A i \in 1 .. Len(locate) : halves[i] = locate[i]
      BY <2>1
    <2>5. \A i \in 1 .. Len(runs) : halves[Len(locate) + i] = runs[i]
      BY <2>1
    <2>6. from # None => halves[1] = l
      <3> SUFFICES ASSUME from # None PROVE halves[1] = l
        OBVIOUS
      <3>1. 1 \in 1 .. 1 /\ Len(locate) = 1
        BY <2>2
      <3> QED  BY <2>2, <2>4, <3>1
    <2>7. IsBound(mirror[k]) => halves[Len(locate) + 1] = r
      <3> SUFFICES ASSUME IsBound(mirror[k]) PROVE halves[Len(locate) + 1] = r
        OBVIOUS
      <3>1. 1 \in 1 .. 1 /\ Len(runs) = 1
        BY <2>2
      <3> QED  BY <2>2, <2>5, <3>1
    <2> QED  BY <2>1, <2>2, <2>3, <2>6, <2>7
  <1> HIDE DEF halves
  <1>7. PICK s \in Seq(AnyHalf) :
             /\ cmds' = cmds \o s /\ Len(cmds') <= FifoSize
             /\ Len(s) <= Len(halves) /\ \A i \in 1 .. Len(s) : s[i] = halves[i]
             /\ Fits(halves) => s = halves
             /\ ~ Fits(halves) => Len(s) = Room /\ Room < Len(halves)
    BY <1>1, <1>6, Handling
  <1>8. UNCHANGED <<audio, garbage>>
    BY <1>1 DEF Handle
  <1>9. Len(s) \in Nat /\ Len(locate) \in Nat /\ Len(runs) \in Nat /\ Len(cmds) \in Nat /\ Room \in Nat
    BY <1>6, TransportMirrorAssumption DEF MirrorInv, Typed, Room
  <1>33. PICK nl \in Nat, nr \in Nat, ns \in Nat, room \in Nat :
              nl = Len(locate) /\ nr = Len(runs) /\ ns = Len(s) /\ room = Room
    BY <1>9
  <1>31. /\ from = None => nl = 0
         /\ from # None => nl = 1
         /\ ~ IsBound(mirror[k]) => nr = 0
         /\ IsBound(mirror[k]) => nr = 1
         /\ ns <= nl + nr
    BY <1>6, <1>7, <1>33
  <1>32. /\ Fits(halves) => ns = nl + nr
         /\ ~ Fits(halves) => ns = room /\ room < nl + nr
         /\ Fits(locate) <=> nl <= room
         /\ Fits(halves) <=> nl + nr <= room
    BY <1>6, <1>7, <1>33 DEF Fits
  <1>10. ASSUME NEW i \in 1 .. Len(s)
         PROVE  \/ from # None /\ i = 1 /\ s[i] = l
                \/ IsBound(mirror[k]) /\ i = Len(locate) + 1 /\ s[i] = r
    <2>1. i \in Nat /\ 1 <= i /\ i <= ns /\ s[i] = halves[i]
      BY <1>7, <1>33
    <2>2. \/ from # None /\ i = 1
          \/ IsBound(mirror[k]) /\ i = nl + 1
      BY <1>31, <2>1
    <2> QED  BY <1>6, <1>33, <2>1, <2>2
  \* The locate stands as soon as its half is in.
  <1>11. from # None /\ Fits(locate) => 1 \in 1 .. Len(s) /\ s[1] = l
    <2> SUFFICES ASSUME from # None, Fits(locate) PROVE 1 \in 1 .. Len(s) /\ s[1] = l
      OBVIOUS
    <2>1. 1 <= ns
      BY <1>31, <1>32
    <2>2. 1 \in 1 .. Len(s)
      BY <1>33, <2>1
    <2> QED  BY <1>6, <1>7, <2>2
  <1>12. from # None /\ ~ Fits(locate) => Len(s) = 0
    BY <1>31, <1>32, <1>33
  <1>13. IsBound(mirror[k]) /\ Fits(halves) => Len(locate) + 1 \in 1 .. Len(s) /\ s[Len(locate) + 1] = r
    <2> SUFFICES ASSUME IsBound(mirror[k]), Fits(halves)
                 PROVE  Len(locate) + 1 \in 1 .. Len(s) /\ s[Len(locate) + 1] = r
      OBVIOUS
    <2>1. nl + 1 \in 1 .. ns
      BY <1>31, <1>32
    <2> QED  BY <1>6, <1>7, <1>33, <2>1
  <1>14. ~ Fits(halves) => Silent(s, k, "run")
    <2> SUFFICES ASSUME ~ Fits(halves), NEW i \in 1 .. Len(s), Binds(s[i], k, "run") PROVE FALSE
      BY DEF Silent
    <2>1. i = Len(locate) + 1 /\ IsBound(mirror[k])
      BY <1>3, <1>4, <1>10 DEF Binds
    <2>2. ns < nl + 1
      BY <1>31, <1>32, <2>1
    <2> QED  BY <1>33, <2>1, <2>2
  <1>15. ~ IsBound(mirror[k]) => Silent(s, k, "run")
    BY <1>4, <1>10 DEF Silent, Binds
  <1>16. from = None => Silent(s, k, "located")
    BY <1>3, <1>10 DEF Silent, Binds
  <1>17. PICK to \in Values : to = place
    BY <1>2 DEF MirrorInv, Typed, MirrorFields
  <1>18. PICK x \in Values : x = (mirror[k].playing \/ Fits(halves)) /\ x \in {TRUE, FALSE}
    BY DEF Values
  <1>19. mirror \in [Transports -> [MirrorFields -> Values]]
    BY DEF MirrorInv, Typed
  <1>34. PICK mid : mid = [mirror EXCEPT ![k].located = to]
    OBVIOUS
  <1>20. /\ mid \in [Transports -> [MirrorFields -> Values]]
         /\ mid[k]["located"] = to
         /\ \A j \in Transports, e \in MirrorFields : j # k \/ e # "located" => mid[j][e] = mirror[j][e]
    <2>1. "located" \in MirrorFields
      BY DEF MirrorFields
    <2> QED  BY <1>34, <1>19, <2>1
  <1>21. mirror' = [mid EXCEPT ![k].playing = x]
    <2>1. mirror' = [mid EXCEPT ![k].playing = @ \/ Fits(halves)]
      BY <1>1, <1>17, <1>34
    <2>2. mid[k].playing = mirror[k].playing
      BY <1>20 DEF MirrorFields
    <2> QED  BY <1>18, <2>1, <2>2
  <1> HIDE DEF place
  <1>35. mid \in [Transports -> [MirrorFields -> Values]]
    BY <1>20
  <1>22. /\ mirror' \in [Transports -> [MirrorFields -> Values]]
         /\ mirror'[k]["playing"] = x
         /\ \A j \in Transports, e \in MirrorFields : j # k \/ e # "playing" => mirror'[j][e] = mid[j][e]
    <2>1. "playing" \in MirrorFields
      BY DEF MirrorFields
    <2> QED  BY <1>21, <1>35, <2>1
  <1>23. /\ mirror'[k].located = place /\ mirror'[k].defined = mirror[k].defined
         /\ mirror'[k].playing = x
    BY <1>17, <1>20, <1>22 DEF MirrorFields
  <1>24. apart \subseteq apart'
    BY <1>1
  <1>25. \A i \in 1 .. Len(s) : s[i].transport = k /\ s[i].op \in {"run", "located", "tempo"}
    BY <1>3, <1>4, <1>10
  <1>26. Says(s, k, "located", mirror[k].located, mirror'[k].located)
    <2>1. CASE from = None
      BY <1>16, <1>23, <2>1 DEF Says, place
    <2>2. CASE from # None /\ Fits(locate)
      <3>1. place = from
        BY <2>2 DEF place
      <3>2. ~ Silent(s, k, "located")
        BY <1>4, <1>11, <2>2 DEF Silent, Binds
      <3>3. \A i \in 1 .. Len(s) : Binds(s[i], k, "located") => s[i].value = from
        BY <1>3, <1>4, <1>10 DEF Binds
      <3> QED  BY <1>23, <3>1, <3>2, <3>3 DEF Says
    <2>3. CASE from # None /\ ~ Fits(locate)
      <3>1. Silent(s, k, "located")
        BY <1>12, <2>3 DEF Silent
      <3>2. place = mirror[k].located
        BY <2>3 DEF place
      <3> QED  BY <1>23, <3>1, <3>2 DEF Says
    <2> QED  BY <2>1, <2>2, <2>3
  <1>27. mirror'[k].defined /\ <<k, "located">> \notin apart' =>
             /\ Says(s, k, "located", mirror[k].located, mirror'[k].located)
             /\ mirror[k].defined \/ ~ Silent(s, k, "located")
    BY <1>23, <1>26
  <1>28. <<k, "playing">> \notin apart' =>
             \/ Says(s, k, "run", mirror[k].playing, mirror'[k].playing)
             \/ mirror'[k].playing = Heading(k) /\ Silent(s, k, "run")
    <2>1. CASE ~ Fits(halves)
      <3>1. x = mirror[k].playing
        BY <1>18, <2>1 DEF MirrorInv, Typed
      <3> QED  BY <1>14, <1>23, <2>1, <3>1 DEF Says
    <2>2. CASE Fits(halves) /\ IsBound(mirror[k])
      <3>1. x = TRUE
        BY <1>18, <2>2
      <3>2. ~ Silent(s, k, "run")
        BY <1>3, <1>13, <2>2 DEF Silent, Binds
      <3>3. \A i \in 1 .. Len(s) : Binds(s[i], k, "run") => s[i].value = x
        BY <1>3, <1>4, <1>10, <3>1 DEF Binds
      <3> QED  BY <1>23, <3>2, <3>3 DEF Says
    <2>3. CASE Fits(halves) /\ ~ IsBound(mirror[k])
      <3>1. x = TRUE
        BY <1>18, <2>3
      <3>2. Heading(k) # TRUE => <<k, "playing">> \in apart'
        BY <1>1, <2>3 DEF OnlySaid, Apart
      <3> QED  BY <1>15, <1>23, <2>3, <3>1, <3>2
    <2> QED  BY <2>1, <2>2, <2>3
  <1>29. \A j \in Transports, e \in MirrorFields :
             j # k \/ e \notin {"located", "playing", "defined"} => mirror'[j][e] = mirror[j][e]
    BY <1>20, <1>22
  <1>30. mirror'[k].playing \in BOOLEAN
    BY <1>18, <1>23
  <1> QED  BY <1>7, <1>8, <1>22, <1>24, <1>25, <1>27, <1>28, <1>29, <1>30, RunKeeps, Zenon

\* Define: all its halves and then the mirror, or some and the mirror as it was.
LEMMA DefineKeeps ==
    ASSUME MirrorInv, NEW k \in Transports, Define(k)
    PROVE  MirrorInv'
  <1> DEFINE toStart == <<Half(k, "tempo", None), Half(k, "located", Start)>>
             runs == RunHalf(k, FALSE)
             halves == toStart \o runs
  <1>1. /\ Handle(halves)
        /\ mirror' = IF Fits(halves)
                     THEN [mirror EXCEPT ![k].playing = FALSE, ![k].located = Start,
                                         ![k].defined = TRUE]
                     ELSE mirror
        /\ apart' = apart \cup Apart(Room \in 2 .. Len(halves) - 1, k, "located")
                          \cup (IF Fits(halves) THEN OnlySaid(k, FALSE) ELSE {})
    BY DEF Define
  <1>2. FALSE \in {TRUE, FALSE} /\ Start \in Values \ {None}
    BY TransportMirrorAssumption DEF Values
  <1>3. PICK r \in AnyHalf :
             /\ r.transport = k /\ r.op = "run" /\ r.value = FALSE
             /\ runs = IF IsBound(mirror[k]) THEN <<r>> ELSE << >>
    BY <1>2, RunHalfIs
  <1>4. PICK l \in AnyHalf : /\ l = Half(k, "located", Start)
                             /\ l.transport = k /\ l.op = "located" /\ l.value = Start
    BY <1>2, LocatedHalfIs
  <1>5. PICK t \in AnyHalf : t = Half(k, "tempo", None) /\ t.transport = k /\ t.op = "tempo"
    <2>1. None \in Values
      BY DEF Values
    <2>2. Half(k, "tempo", None) \in AnyHalf
      BY <2>1 DEF Half, AnyHalf, TransportHalf, OtherHalves, Settings, Bindings
    <2> QED  BY <2>2 DEF Half
  <1>6. toStart = <<t, l>> /\ runs = IF IsBound(mirror[k]) THEN <<r>> ELSE << >>
    BY <1>3, <1>4, <1>5
  <1> HIDE DEF toStart, runs
  <1>7. /\ toStart \in Seq(AnyHalf) /\ Len(toStart) = 2 /\ toStart[1] = t /\ toStart[2] = l
        /\ runs \in Seq(AnyHalf)
        /\ ~ IsBound(mirror[k]) => Len(runs) = 0
        /\ IsBound(mirror[k]) => Len(runs) = 1 /\ runs[1] = r
    BY <1>6
  <1>8. /\ halves \in Seq(AnyHalf) /\ Len(halves) = 2 + Len(runs)
        /\ halves[1] = t /\ halves[2] = l
        /\ IsBound(mirror[k]) => halves[3] = r
    <2>6. toStart \in Seq(AnyHalf) /\ runs \in Seq(AnyHalf)
      BY <1>7
    <2>7. halves \in Seq(AnyHalf) /\ Len(halves) = Len(toStart) + Len(runs)
      BY <2>6
    <2>8. \A i \in 1 .. Len(toStart) : halves[i] = toStart[i]
      BY <2>6
    <2>9. \A i \in 1 .. Len(runs) : halves[Len(toStart) + i] = runs[i]
      BY <2>6
    <2> HIDE DEF halves
    <2>1. halves \in Seq(AnyHalf) /\ Len(halves) = 2 + Len(runs)
      BY <1>7, <2>7
    <2>2. \A i \in 1 .. 2 : halves[i] = toStart[i]
      BY <1>7, <2>8
    <2>3. \A i \in 1 .. Len(runs) : halves[2 + i] = runs[i]
      BY <1>7, <2>9
    <2>4. IsBound(mirror[k]) => halves[2 + 1] = r
      <3> SUFFICES ASSUME IsBound(mirror[k]) PROVE halves[2 + 1] = r
        OBVIOUS
      <3>1. 1 \in 1 .. 1 /\ Len(runs) = 1
        BY <1>7
      <3> QED  BY <1>7, <2>3, <3>1
    <2>5. 1 \in 1 .. 2 /\ 2 \in 1 .. 2 /\ 2 + 1 = 3
      OBVIOUS
    <2> QED  BY <1>7, <2>1, <2>2, <2>4, <2>5
  <1> HIDE DEF halves
  <1>9. PICK s \in Seq(AnyHalf) :
             /\ cmds' = cmds \o s /\ Len(cmds') <= FifoSize
             /\ Len(s) <= Len(halves) /\ \A i \in 1 .. Len(s) : s[i] = halves[i]
             /\ Fits(halves) => s = halves
             /\ ~ Fits(halves) => Len(s) = Room /\ Room < Len(halves)
    BY <1>1, <1>8, Handling
  <1>10. UNCHANGED <<audio, garbage>> /\ apart \subseteq apart'
    BY <1>1 DEF Handle
  <1>11. Len(s) \in Nat /\ Len(runs) \in Nat /\ Room \in Nat
    BY <1>7, TransportMirrorAssumption DEF MirrorInv, Typed, Room
  <1>12. PICK nr \in Nat, ns \in Nat, room \in Nat :
              nr = Len(runs) /\ ns = Len(s) /\ room = Room
    BY <1>11
  <1>13. /\ ~ IsBound(mirror[k]) => nr = 0
         /\ IsBound(mirror[k]) => nr = 1
         /\ ns <= 2 + nr
         /\ Fits(halves) => ns = 2 + nr
         /\ ~ Fits(halves) => ns = room /\ room < 2 + nr
    BY <1>7, <1>8, <1>9, <1>12
  <1>14. ASSUME NEW i \in 1 .. Len(s)
         PROVE  \/ i = 1 /\ s[i] = t
                \/ i = 2 /\ s[i] = l
                \/ IsBound(mirror[k]) /\ i = 3 /\ s[i] = r
    <2>1. i \in Nat /\ 1 <= i /\ i <= ns /\ s[i] = halves[i]
      BY <1>9, <1>12
    <2>2. \/ i = 1
          \/ i = 2
          \/ IsBound(mirror[k]) /\ i = 3
      BY <1>13, <2>1
    <2> QED  BY <1>8, <2>1, <2>2
  <1>15. \A i \in 1 .. Len(s) : s[i].transport = k /\ s[i].op \in {"run", "located", "tempo"}
    BY <1>3, <1>4, <1>5, <1>14
  <1>16. CASE Fits(halves)
    <2>1. 2 \in 1 .. Len(s) /\ s[2] = l
      <3>1. 2 <= ns
        BY <1>13, <1>16
      <3>2. 2 \in 1 .. Len(s)
        BY <1>12, <3>1
      <3> QED  BY <1>8, <1>9, <3>2
    <2>2. IsBound(mirror[k]) => 3 \in 1 .. Len(s) /\ s[3] = r
      <3> SUFFICES ASSUME IsBound(mirror[k]) PROVE 3 \in 1 .. Len(s) /\ s[3] = r
        OBVIOUS
      <3>1. 3 <= ns
        BY <1>13, <1>16
      <3>2. 3 \in 1 .. Len(s)
        BY <1>12, <3>1
      <3> QED  BY <1>8, <1>9, <3>2
    <2>3. /\ mirror' \in [Transports -> [MirrorFields -> Values]]
          /\ mirror'[k].playing = FALSE /\ mirror'[k].located = Start
          /\ \A j \in Transports, e \in MirrorFields :
                j # k \/ e \notin {"located", "playing", "defined"} => mirror'[j][e] = mirror[j][e]
      <3>1. mirror \in [Transports -> [MirrorFields -> Values]]
        BY DEF MirrorInv, Typed
      <3>2. FALSE \in Values /\ TRUE \in Values
        BY DEF Values
      <3>3. "located" \in MirrorFields /\ "playing" \in MirrorFields /\ "defined" \in MirrorFields
        BY DEF MirrorFields
      <3>4. PICK a : a = [mirror EXCEPT ![k].playing = FALSE]
        OBVIOUS
      <3>5. a \in [Transports -> [MirrorFields -> Values]] /\ a[k]["playing"] = FALSE
            /\ \A j \in Transports, e \in MirrorFields : j # k \/ e # "playing" => a[j][e] = mirror[j][e]
        BY <3>1, <3>2, <3>3, <3>4
      <3>6. PICK b : b = [a EXCEPT ![k].located = Start]
        OBVIOUS
      <3>7. b \in [Transports -> [MirrorFields -> Values]] /\ b[k]["located"] = Start
            /\ \A j \in Transports, e \in MirrorFields : j # k \/ e # "located" => b[j][e] = a[j][e]
        BY <1>2, <3>3, <3>5, <3>6
      <3>8. mirror' = [b EXCEPT ![k].defined = TRUE]
        BY <1>1, <1>16, <3>4, <3>6
      <3>9. mirror' \in [Transports -> [MirrorFields -> Values]]
            /\ \A j \in Transports, e \in MirrorFields : j # k \/ e # "defined" => mirror'[j][e] = b[j][e]
        BY <3>2, <3>3, <3>7, <3>8
      <3>10. mirror'[k]["playing"] = FALSE /\ mirror'[k]["located"] = Start
        <4>1. b[k]["playing"] = FALSE /\ b[k]["located"] = Start
          BY <3>3, <3>5, <3>7
        <4> QED  BY <3>3, <3>9, <4>1
      <3>11. ASSUME NEW j \in Transports, NEW e \in MirrorFields,
                    j # k \/ e \notin {"located", "playing", "defined"}
             PROVE  mirror'[j][e] = mirror[j][e]
        BY <3>5, <3>7, <3>9, <3>11
      <3> QED  BY <3>9, <3>10, <3>11
    <2>4. mirror'[k].playing \in BOOLEAN
      BY <2>3
    <2>5. mirror'[k].defined /\ <<k, "located">> \notin apart' =>
             /\ Says(s, k, "located", mirror[k].located, mirror'[k].located)
             /\ mirror[k].defined \/ ~ Silent(s, k, "located")
      <3>1. ~ Silent(s, k, "located")
        BY <1>4, <2>1 DEF Silent, Binds
      <3>2. \A i \in 1 .. Len(s) : Binds(s[i], k, "located") => s[i].value = Start
        BY <1>3, <1>4, <1>5, <1>14 DEF Binds
      <3> QED  BY <2>3, <3>1, <3>2 DEF Says
    <2>6. <<k, "playing">> \notin apart' =>
             \/ Says(s, k, "run", mirror[k].playing, mirror'[k].playing)
             \/ mirror'[k].playing = Heading(k) /\ Silent(s, k, "run")
      <3>1. CASE IsBound(mirror[k])
        <4>1. ~ Silent(s, k, "run")
          BY <1>3, <2>2, <3>1 DEF Silent, Binds
        <4>2. \A i \in 1 .. Len(s) : Binds(s[i], k, "run") => s[i].value = FALSE
          BY <1>3, <1>4, <1>5, <1>14 DEF Binds
        <4> QED  BY <2>3, <4>1, <4>2 DEF Says
      <3>2. CASE ~ IsBound(mirror[k])
        <4>1. Silent(s, k, "run")
          BY <1>4, <1>5, <1>14, <3>2 DEF Silent, Binds
        <4>2. Heading(k) # FALSE => <<k, "playing">> \in apart'
          BY <1>1, <1>16, <3>2 DEF OnlySaid, Apart
        <4> QED  BY <2>3, <4>1, <4>2
      <3> QED  BY <3>1, <3>2
    <2> QED  BY <1>9, <1>10, <1>15, <2>3, <2>4, <2>5, <2>6, RunKeeps, Zenon
  \* A grid half defined is located and not defined, or neither.
  <1>17. CASE ~ Fits(halves)
    <2>1. mirror' = mirror
      BY <1>1, <1>17
    <2>2. Silent(s, k, "run")
      <3> SUFFICES ASSUME NEW i \in 1 .. Len(s), Binds(s[i], k, "run") PROVE FALSE
        BY DEF Silent
      <3>1. IsBound(mirror[k]) /\ i = 3
        BY <1>4, <1>5, <1>14 DEF Binds
      <3>2. ns < 3
        BY <1>13, <1>17, <3>1
      <3> QED  BY <1>12, <3>1, <3>2
    <2>3. <<k, "located">> \notin apart' => Silent(s, k, "located")
      <3> SUFFICES ASSUME NEW i \in 1 .. Len(s), Binds(s[i], k, "located")
                   PROVE  <<k, "located">> \in apart'
        BY DEF Silent
      <3>1. i = 2
        BY <1>3, <1>5, <1>14 DEF Binds
      <3>2. 2 <= room /\ room <= (2 + nr) - 1
        BY <1>12, <1>13, <1>17, <3>1
      <3>3. Room \in 2 .. Len(halves) - 1
        BY <1>8, <1>12, <3>2
      <3> QED  BY <1>1, <3>3 DEF Apart
    <2>4. /\ mirror' \in [Transports -> [MirrorFields -> Values]]
          /\ mirror'[k].playing \in BOOLEAN
          /\ \A j \in Transports, e \in MirrorFields :
                j # k \/ e \notin {"located", "playing", "defined"} => mirror'[j][e] = mirror[j][e]
      BY <2>1 DEF MirrorInv, Typed
    <2>5. mirror'[k].defined /\ <<k, "located">> \notin apart' =>
             /\ Says(s, k, "located", mirror[k].located, mirror'[k].located)
             /\ mirror[k].defined \/ ~ Silent(s, k, "located")
      BY <2>1, <2>3 DEF Says
    <2>6. <<k, "playing">> \notin apart' =>
             \/ Says(s, k, "run", mirror[k].playing, mirror'[k].playing)
             \/ mirror'[k].playing = Heading(k) /\ Silent(s, k, "run")
      BY <2>1, <2>2 DEF Says
    <2> QED  BY <1>9, <1>10, <1>15, <2>4, <2>5, <2>6, RunKeeps, Zenon
  <1> QED  BY <1>16, <1>17

-----------------------------------------------------------------------------
(* The audio thread.                                                         *)

\* What is final of the rest is final of the whole, if the first half is applied.
LEMMA FinalOn ==
    ASSUME NEW S, NEW c \in Seq(S), c # << >>, NEW v, NEW w, NEW k, NEW f, NEW g,
           w = g => IF Binds(c[1], k, f) THEN c[1].value = g ELSE v = g,
           Final(Tail(c), w, k, f, g)
    PROVE  Final(c, v, k, f, g)
  <1>1. Len(c) \in Nat /\ Len(c) # 0 /\ Len(Tail(c)) = Len(c) - 1
    OBVIOUS
  <1>2. Len(c) - 1 \in 0 .. Len(c) - 1 /\ (Len(c) - 1) + 1 = Len(c)
    BY <1>1
  <1>3. Held(Tail(c), w, k, f, Len(c) - 1, g)
    BY <1>1 DEF Final
  <1>4. Held(c, v, k, f, (Len(c) - 1) + 1, g)
    BY <1>2, <1>3, HeldOn
  <1> QED  BY <1>2, <1>4 DEF Final

\* What is final of the rest is final of the whole, unless it is what there is now.
LEMMA FinalLater ==
    ASSUME NEW S, NEW c \in Seq(S), c # << >>, NEW v, NEW w, NEW k, NEW f, NEW g,
           Final(Tail(c), w, k, f, g)
    PROVE  \/ Final(c, v, k, f, g)
           \/ w = g /\ \A j \in 1 .. Len(Tail(c)) : ~ Binds(Tail(c)[j], k, f)
  <1>1. PICK x : x # g
    <2>1. g # TRUE \/ g # FALSE
      OBVIOUS
    <2> QED  BY <2>1
  <1>2. \/ Final(Tail(c), x, k, f, g)
        \/ w = g /\ \A j \in 1 .. Len(Tail(c)) : ~ Binds(Tail(c)[j], k, f)
    BY DEF Final, Held
  <1> QED  BY <1>1, <1>2, FinalOn

\* A half that is the last to bind k is what is final.
LEMMA LastIsFinal ==
    ASSUME NEW S, NEW c \in Seq(S), c # << >>, NEW v, NEW k, NEW f,
           Binds(c[1], k, f), \A j \in 1 .. Len(Tail(c)) : ~ Binds(Tail(c)[j], k, f)
    PROVE  Final(c, v, k, f, c[1].value)
  <1> DEFINE x == c[1].value
  <1>1. Final(Tail(c), x, k, f, x)
    BY DEF Final, Held
  <1>2. x = x => IF Binds(c[1], k, f) THEN c[1].value = x ELSE v = x
    OBVIOUS
  <1> HIDE DEF x
  <1>3. Final(c, v, k, f, x)
    BY <1>1, <1>2, FinalOn
  <1> QED  BY <1>3 DEF x

\* A death on its way to a mirror that has not changed.
LEMMA StillInGarbage ==
    ASSUME NEW k, NEW f, mirror'[k][f] = mirror[k][f],
           \A x : InGarbage(<<"freed", x>>) => InGarbage(<<"freed", x>>)',
           InGarbage(<<"freed", mirror[k][f]>>)
    PROVE  InGarbage(<<"freed", mirror[k][f]>>)'
  <1>1. PICK m : m = mirror[k][f]
    OBVIOUS
  <1>2. InGarbage(<<"freed", m>>)'
    BY <1>1
  <1> QED  BY <1>1, <1>2 DEF InGarbage

\* What is refused, and told or heard of.
Refused(h, k, f) ==
    /\ h.value \notin live \cup {None}
    /\ <<k, f>> \notin apart' => mirror[k][f] # h.value \/ InGarbage(<<"freed", h.value>>)

\* The first half is applied, and the engine is as it says.
Applies(h) ==
    /\ cmds # << >> /\ h = cmds[1] /\ cmds' = Tail(cmds)
    /\ mirror' = mirror /\ apart \subseteq apart'
    /\ \A x : InGarbage(x) => InGarbage(x)'
    /\ Typed' /\ FrozenGoverned'
    /\ \A k \in Transports, f \in Settings :
         Has(engine'[k], f) = IF Binds(h, k, f) THEN h.value ELSE Has(engine[k], f)
    /\ \A k \in Transports, f \in Bindings :
         \/ engine'[k][f] = IF Binds(h, k, f) THEN h.value ELSE engine[k][f]
         \/ Binds(h, k, f) /\ engine'[k][f] = None /\ Refused(h, k, f)
    /\ \A k \in Transports : <<k, "called off">> \notin apart' =>
         PlaceOf(engine'[k]) = IF Binds(h, k, "located") THEN h.value ELSE PlaceOf(engine[k])
    /\ \A k \in Transports :
         /\ Going(engine'[k]) = IF Binds(h, k, "run") THEN h.value ELSE Going(engine[k])
         /\ ~ Binds(h, k, "run") /\ Ending(k) => Ending(k)'

\* A half applied is no news to the mirror: it was told when it was sent.
LEMMA ApplyingTells ==
    ASSUME MirrorInv, NEW h, Applies(h)
    PROVE  SettingsTold' /\ GroupsTold' /\ PlacesTold' /\ RunsTold'
  <1>0. cmds \in Seq(AnyHalf)
    BY DEF MirrorInv, Typed, AnyHalf
  <1>1. /\ cmds # << >> /\ h = cmds[1] /\ cmds' = Tail(cmds)
        /\ mirror' = mirror /\ apart \subseteq apart'
        /\ \A x : InGarbage(<<"freed", x>>) => InGarbage(<<"freed", x>>)'
    BY DEF Applies
  <1>2. SettingsTold'
    <2> SUFFICES ASSUME NEW k \in Transports, NEW f \in Settings, NEW g \in Values,
                        Final(Tail(cmds), Has(engine'[k], f), k, f, g)
                 PROVE  mirror[k][f] = g
      BY <1>1 DEF SettingsTold, Has
    <2>1. Has(engine'[k], f) = IF Binds(h, k, f) THEN h.value ELSE Has(engine[k], f)
      BY DEF Applies
    <2>2. Final(cmds, Has(engine[k], f), k, f, g)
      BY <1>0, <1>1, <2>1, FinalOn
    <2> QED  BY <2>2 DEF MirrorInv, SettingsTold
  <1>3. GroupsTold'
    <2> SUFFICES ASSUME NEW k \in Transports, NEW f \in Bindings, NEW g \in Values,
                        <<k, f>> \notin apart', Final(Tail(cmds), engine'[k][f], k, f, g)
                 PROVE  \/ mirror[k][f] = g
                        \/ g = None /\ InGarbage(<<"freed", mirror[k][f]>>)'
      BY <1>1 DEF GroupsTold
    <2>0. <<k, f>> \notin apart
      BY <1>1
    <2> SUFFICES \/ mirror[k][f] = g
                 \/ g = None /\ InGarbage(<<"freed", mirror[k][f]>>)
      BY <1>1, StillInGarbage
    <2>1. CASE Final(cmds, engine[k][f], k, f, g)
      BY <2>0, <2>1 DEF MirrorInv, GroupsTold
    <2>2. CASE ~ Final(cmds, engine[k][f], k, f, g)
      <3>1. ~ (engine'[k][f] = IF Binds(h, k, f) THEN h.value ELSE engine[k][f])
        BY <1>0, <1>1, <2>2, FinalOn
      <3>2. Binds(h, k, f) /\ engine'[k][f] = None /\ Refused(h, k, f)
        BY <3>1 DEF Applies
      <3>3. g = None /\ \A j \in 1 .. Len(Tail(cmds)) : ~ Binds(Tail(cmds)[j], k, f)
        BY <1>0, <1>1, <2>2, <3>2, FinalLater
      <3>4. Final(cmds, engine[k][f], k, f, h.value)
        BY <1>0, <1>1, <3>2, <3>3, LastIsFinal
      <3>5. h \in AnyHalf /\ h.value \in Values
        <4>1. h \in AnyHalf
          BY <1>0, <1>1
        <4> QED  BY <4>1 DEF AnyHalf, TransportHalf, TreeHalf, RunHalves, LocatedHalves, MarkHalves,
                             OtherHalves, Values
      <3>6. mirror[k][f] = h.value
        BY <2>0, <3>2, <3>4, <3>5 DEF MirrorInv, GroupsTold, Refused
      <3>7. <<k, f>> \notin apart'
        OBVIOUS
      <3> QED  BY <3>2, <3>3, <3>6, <3>7 DEF Refused
    <2> QED  BY <2>1, <2>2
  <1>4. PlacesTold'
    <2> SUFFICES ASSUME NEW k \in Transports, NEW g \in Values, mirror[k].defined,
                        <<k, "located">> \notin apart', <<k, "called off">> \notin apart',
                        Final(Tail(cmds), PlaceOf(engine'[k]), k, "located", g)
                 PROVE  mirror[k].located = g
      BY <1>1 DEF PlacesTold, PlaceOf
    <2>1. PlaceOf(engine'[k]) = IF Binds(h, k, "located") THEN h.value ELSE PlaceOf(engine[k])
      BY DEF Applies
    <2>2. Final(cmds, PlaceOf(engine[k]), k, "located", g)
      BY <1>0, <1>1, <2>1, FinalOn
    <2>3. <<k, "located">> \notin apart /\ <<k, "called off">> \notin apart
      BY <1>1
    <2> QED  BY <2>2, <2>3 DEF MirrorInv, PlacesTold
  <1>5. RunsTold'
    <2> SUFFICES ASSUME NEW k \in Transports, NEW g \in BOOLEAN, <<k, "playing">> \notin apart',
                        Final(Tail(cmds), Going(engine'[k]), k, "run", g)
                 PROVE  \/ mirror[k].playing = g
                        \/ /\ mirror[k].playing /\ ~ g /\ Ending(k)'
                           /\ \A i \in DOMAIN Tail(cmds) : ~ Binds(Tail(cmds)[i], k, "run")
      BY <1>1 DEF RunsTold, Going
    <2>1. Going(engine'[k]) = IF Binds(h, k, "run") THEN h.value ELSE Going(engine[k])
      BY DEF Applies
    <2>2. Final(cmds, Going(engine[k]), k, "run", g)
      <3>1. PICK w : w = Going(engine'[k])
        OBVIOUS
      <3>2. w = g => IF Binds(cmds[1], k, "run") THEN cmds[1].value = g
                     ELSE Going(engine[k]) = g
        BY <1>1, <2>1, <3>1
      <3>3. Final(Tail(cmds), w, k, "run", g)
        BY <3>1
      <3> QED  BY <1>0, <1>1, <3>2, <3>3, FinalOn
    <2>3. <<k, "playing">> \notin apart
      BY <1>1
    <2>4. \/ mirror[k].playing = g
          \/ /\ mirror[k].playing /\ ~ g /\ Ending(k)
             /\ \A i \in DOMAIN cmds : ~ Binds(cmds[i], k, "run")
      BY <2>2, <2>3 DEF MirrorInv, RunsTold
    <2>5. CASE /\ mirror[k].playing /\ ~ g /\ Ending(k)
               /\ \A i \in DOMAIN cmds : ~ Binds(cmds[i], k, "run")
      <3>1. ~ Binds(h, k, "run")
        BY <1>0, <1>1, <2>5
      <3>2. Ending(k)'
        BY <2>5, <3>1 DEF Applies
      <3>3. ASSUME NEW i \in DOMAIN Tail(cmds) PROVE ~ Binds(Tail(cmds)[i], k, "run")
        <4>1. i + 1 \in DOMAIN cmds /\ Tail(cmds)[i] = cmds[i + 1]
          BY <1>0, <1>1
        <4> QED  BY <4>1, <2>5
      <3> QED  BY <2>5, <3>2, <3>3
    <2> QED  BY <2>4, <2>5
  <1> QED  BY <1>2, <1>3, <1>4, <1>5

\* Nor does it bind what was not going to be.
LEMMA ApplyingBindsOnce ==
    ASSUME MirrorInv, NEW h, Applies(h)
    PROVE  BoundOnce'
  <1>0. cmds \in Seq(AnyHalf)
    BY DEF MirrorInv, Typed, AnyHalf
  <1>1. cmds # << >> /\ h = cmds[1] /\ cmds' = Tail(cmds) /\ apart \subseteq apart'
    BY DEF Applies
  <1>2. BindingsAgree' => BindingsAgree
    BY <1>1 DEF BindingsAgree
  <1> SUFFICES ASSUME BindingsAgree,
                      NEW n \in 0 .. Len(Tail(cmds)), NEW j \in Transports, NEW k \in Transports,
                      NEW e \in Bindings, NEW f \in Bindings, NEW g \in Values \ {None},
                      Held(Tail(cmds), engine'[j][e], j, e, n, g),
                      Held(Tail(cmds), engine'[k][f], k, f, n, g)
               PROVE  j = k /\ e = f
    BY <1>1, <1>2 DEF BoundOnce
  <1>3. n \in 0 .. Len(cmds) - 1 /\ n + 1 \in 0 .. Len(cmds)
    BY <1>0, <1>1
  <1>4. ASSUME NEW i \in Transports, NEW d \in Bindings, Held(Tail(cmds), engine'[i][d], i, d, n, g)
        PROVE  Held(cmds, engine[i][d], i, d, n + 1, g)
    <2>1. g # None
      BY TransportMirrorAssumption
    <2>2. engine'[i][d] = g => IF Binds(cmds[1], i, d) THEN cmds[1].value = g ELSE engine[i][d] = g
      <3>1. \/ engine'[i][d] = IF Binds(h, i, d) THEN h.value ELSE engine[i][d]
            \/ engine'[i][d] = None
        BY DEF Applies
      <3> QED  BY <1>1, <2>1, <3>1
    <2> QED  BY <1>0, <1>1, <1>3, <1>4, <2>2, HeldOn
  <1> QED  BY <1>3, <1>4 DEF MirrorInv, BoundOnce

\* So what a half does keeps the invariant.
LEMMA ApplyingKeeps ==
    ASSUME MirrorInv, NEW h, Applies(h)
    PROVE  MirrorInv'
  <1>1. Typed' /\ FrozenGoverned'
    BY DEF Applies
  <1> QED  BY <1>1, ApplyingTells, ApplyingBindsOnce DEF MirrorInv

\* Pausing and resuming change one group, and only one that lives.
LEMMA FrozenType ==
    ASSUME MirrorInv, NEW g, NEW on
    PROVE  /\ Pause(g, on) \subseteq live
           /\ \A x : x \in Pause(g, on) => x \in frozen \/ x = g
  BY DEF MirrorInv, Typed, Pause

\* What a stop changes.
Stopped == {"rolling", "stopping", "back", "return", "located", "returned"}

\* A transport stops.
LEMMA FreezeDoes ==
    ASSUME MirrorInv, NEW k \in Transports, NEW ended, NEW return \in Values,
           Freeze(k, ended, engine[k].back, return)
    PROVE  /\ engine' \in [Transports -> [EngineFields -> Values]]
           /\ \A j \in Transports, e \in EngineFields :
                  j # k \/ e \notin Stopped => engine'[j][e] = engine[j][e]
           /\ Sound(engine'[k]) /\ Going(engine'[k]) = FALSE
           /\ \/ PlaceOf(engine'[k]) = PlaceOf(engine[k])
              \/ return # None /\ PlaceOf(engine'[k]) = Away
           /\ frozen' \subseteq live
           /\ \A g \in frozen' : g \in frozen \/ g = engine[k].group
  <1> DEFINE F == [Transports -> [EngineFields -> Values]]
             back == engine[k].back
             to == IF back # None THEN back ELSE return
             place == IF to # None THEN to ELSE engine[k].located
             again == IF to # None THEN back = None ELSE engine[k].returned
  <1>1. engine \in F /\ Sound(engine[k])
    BY DEF MirrorInv, Typed
  <1>2. FALSE \in Values /\ None \in Values /\ BOOLEAN \subseteq Values
    BY DEF Values
  <1>3. Stopped \subseteq EngineFields /\ "mark" \in EngineFields \ Stopped
    BY DEF EngineFields, Stopped
  <1>4. back \in Values /\ place \in Values /\ again \in BOOLEAN /\ again \in Values
    <2>1. engine[k].back \in Values /\ engine[k].located \in Values
      BY <1>1, <1>3 DEF Stopped
    <2>2. engine[k].returned \in BOOLEAN
      BY <1>1 DEF Sound
    <2> QED  BY <1>2, <2>1, <2>2
  <1>5. PICK a : a = [engine EXCEPT ![k]["rolling"] = FALSE]
    OBVIOUS
  <1>6. PICK b : b = [a EXCEPT ![k]["stopping"] = None]
    OBVIOUS
  <1>7. PICK c : c = [b EXCEPT ![k]["back"] = None]
    OBVIOUS
  <1>8. PICK d : d = [c EXCEPT ![k]["return"] = None]
    OBVIOUS
  <1>9. PICK e : e = [d EXCEPT ![k]["located"] = place]
    OBVIOUS
  <1>10. engine' = [e EXCEPT ![k]["returned"] = again]
    BY <1>5, <1>6, <1>7, <1>8, <1>9 DEF Freeze
  <1> HIDE DEF F
  <1>11. /\ a \in F /\ a[k]["rolling"] = FALSE
         /\ \A j \in Transports, f \in EngineFields : j # k \/ f # "rolling" => a[j][f] = engine[j][f]
    BY <1>1, <1>2, <1>3, <1>5, FieldSet DEF F, Stopped
  <1>12. /\ b \in F /\ b[k]["stopping"] = None
         /\ \A j \in Transports, f \in EngineFields : j # k \/ f # "stopping" => b[j][f] = a[j][f]
    BY <1>2, <1>3, <1>6, <1>11, FieldSet DEF F, Stopped
  <1>13. /\ c \in F /\ c[k]["back"] = None
         /\ \A j \in Transports, f \in EngineFields : j # k \/ f # "back" => c[j][f] = b[j][f]
    BY <1>2, <1>3, <1>7, <1>12, FieldSet DEF F, Stopped
  <1>14. /\ d \in F /\ d[k]["return"] = None
         /\ \A j \in Transports, f \in EngineFields : j # k \/ f # "return" => d[j][f] = c[j][f]
    BY <1>2, <1>3, <1>8, <1>13, FieldSet DEF F, Stopped
  <1>17. /\ e \in F /\ e[k]["located"] = place
         /\ \A j \in Transports, f \in EngineFields : j # k \/ f # "located" => e[j][f] = d[j][f]
    <2> HIDE DEF place
    <2> QED  BY <1>3, <1>4, <1>9, <1>14, FieldSet DEF F, Stopped
  <1>19. /\ engine' \in F /\ engine'[k]["returned"] = again
         /\ \A j \in Transports, f \in EngineFields : j # k \/ f # "returned" => engine'[j][f] = e[j][f]
    <2> HIDE DEF again
    <2> QED  BY <1>3, <1>4, <1>10, <1>17, FieldSet DEF F, Stopped
  <1>20. ASSUME NEW j \in Transports, NEW f \in EngineFields, j # k \/ f \notin Stopped
         PROVE  engine'[j][f] = engine[j][f]
    <2>1. engine'[j][f] = e[j][f]
      BY <1>19, <1>20 DEF Stopped
    <2>2. e[j][f] = d[j][f]
      BY <1>17, <1>20 DEF Stopped
    <2>3. d[j][f] = c[j][f]
      BY <1>14, <1>20 DEF Stopped
    <2>4. c[j][f] = b[j][f]
      BY <1>13, <1>20 DEF Stopped
    <2>5. b[j][f] = a[j][f] /\ a[j][f] = engine[j][f]
      BY <1>11, <1>12, <1>20 DEF Stopped
    <2> QED  BY <2>1, <2>2, <2>3, <2>4, <2>5
  <1>21. /\ engine'[k].rolling = FALSE /\ engine'[k].stopping = None /\ engine'[k].back = None
         /\ engine'[k].return = None /\ engine'[k].located = place /\ engine'[k].returned = again
    <2> HIDE DEF place, again
    <2>1. engine'[k]["located"] = place /\ engine'[k]["returned"] = again
      BY <1>3, <1>17, <1>19 DEF Stopped
    <2>2. engine'[k]["return"] = None
      BY <1>3, <1>14, <1>17, <1>19 DEF Stopped
    <2>3. engine'[k]["back"] = None
      BY <1>3, <1>13, <1>14, <1>17, <1>19 DEF Stopped
    <2>4. engine'[k]["stopping"] = None
      BY <1>3, <1>12, <1>13, <1>14, <1>17, <1>19 DEF Stopped
    <2>5. engine'[k]["rolling"] = FALSE
      BY <1>3, <1>11, <1>12, <1>13, <1>14, <1>17, <1>19 DEF Stopped
    <2> QED  BY <2>1, <2>2, <2>3, <2>4, <2>5
  <1>22. engine'[k].mark = engine[k].mark
    BY <1>3, <1>20
  <1>23. Sound(engine'[k]) /\ Going(engine'[k]) = FALSE
    <2> HIDE DEF again
    <2> QED  BY <1>1, <1>4, <1>21, <1>22 DEF Sound, Going
  <1>24. \/ PlaceOf(engine'[k]) = PlaceOf(engine[k])
         \/ return # None /\ PlaceOf(engine'[k]) = Away
    BY <1>21 DEF PlaceOf
  <1>25. frozen' = Pause(engine[k].group, TRUE)
    BY DEF Freeze
  <1> QED  BY <1>19, <1>20, <1>23, <1>24, <1>25, FrozenType DEF F

\* A transport starts to stop.
LEMMA RampDoes ==
    ASSUME MirrorInv, NEW k \in Transports, NEW why \in {"stop", "end"}, NEW return \in Values,
           Ramp(k, why, return)
    PROVE  /\ engine' \in [Transports -> [EngineFields -> Values]]
           /\ \A j \in Transports, e \in EngineFields :
                  j # k \/ e \notin Stopped => engine'[j][e] = engine[j][e]
           /\ engine'[k].stopping = why
           /\ Sound(engine'[k]) /\ Going(engine'[k]) = FALSE
           /\ PlaceOf(engine'[k]) = PlaceOf(engine[k])
           /\ frozen' = frozen /\ garbage' = garbage
  <1> DEFINE F == [Transports -> [EngineFields -> Values]]
  <1>1. Stopped \subseteq EngineFields /\ "mark" \in EngineFields \ Stopped
    BY DEF EngineFields, Stopped
  <1>2. why \in Values /\ why # None
    BY TransportMirrorAssumption DEF Values
  <1>3. engine \in F /\ Sound(engine[k])
    BY DEF MirrorInv, Typed
  <1>4. PICK a : a = [engine EXCEPT ![k]["stopping"] = why]
    OBVIOUS
  <1>5. engine' = [a EXCEPT ![k]["return"] = return] /\ frozen' = frozen /\ garbage' = garbage
    BY <1>4 DEF Ramp
  <1> HIDE DEF F
  <1>6. /\ a \in F /\ a[k]["stopping"] = why
        /\ \A j \in Transports, f \in EngineFields : j # k \/ f # "stopping" => a[j][f] = engine[j][f]
    BY <1>1, <1>2, <1>3, <1>4, FieldSet DEF F, Stopped
  <1>7. /\ engine' \in F
        /\ \A j \in Transports, f \in EngineFields : j # k \/ f # "return" => engine'[j][f] = a[j][f]
    BY <1>1, <1>5, <1>6, FieldSet DEF F, Stopped
  <1>8. ASSUME NEW j \in Transports, NEW f \in EngineFields, j # k \/ f \notin {"stopping", "return"}
        PROVE  engine'[j][f] = engine[j][f]
    <2>1. engine'[j][f] = a[j][f]
      BY <1>7, <1>8
    <2> QED  BY <1>6, <1>8, <2>1
  <1>9. engine'[k].stopping = why
    BY <1>1, <1>6, <1>7 DEF Stopped
  <1>10. /\ engine'[k].rolling = engine[k].rolling /\ engine'[k].back = engine[k].back
         /\ engine'[k].located = engine[k].located /\ engine'[k].returned = engine[k].returned
         /\ engine'[k].mark = engine[k].mark
    BY <1>1, <1>8 DEF Stopped
  <1>11. Sound(engine'[k]) /\ Going(engine'[k]) = FALSE /\ PlaceOf(engine'[k]) = PlaceOf(engine[k])
    BY <1>2, <1>3, <1>9, <1>10 DEF Sound, Going, PlaceOf
  <1>12. \A j \in Transports, f \in EngineFields :
             j # k \/ f \notin Stopped => engine'[j][f] = engine[j][f]
    BY <1>8 DEF Stopped
  <1> QED  BY <1>5, <1>7, <1>9, <1>11, <1>12 DEF F

\* What is handed back is added to what is on its way.
LEMMA GarbageGrows ==
    ASSUME MirrorInv, NEW r \in Return, garbage' = Append(garbage, r)
    PROVE  garbage' \in Seq(Return) /\ InGarbage(r)' /\ \A x : InGarbage(x) => InGarbage(x)'
  <1>1. garbage \in Seq(Return) /\ Len(garbage) \in Nat /\ DOMAIN garbage = 1 .. Len(garbage)
    BY DEF MirrorInv, Typed
  <1>2. /\ garbage' \in Seq(Return) /\ Len(garbage') = Len(garbage) + 1
        /\ DOMAIN garbage' = 1 .. Len(garbage')
        /\ garbage'[Len(garbage) + 1] = r /\ \A i \in 1 .. Len(garbage) : garbage'[i] = garbage[i]
    BY <1>1
  <1>3. Len(garbage) + 1 \in DOMAIN garbage' /\ \A i \in DOMAIN garbage : i \in DOMAIN garbage'
    BY <1>1, <1>2
  <1>4. InGarbage(r)'
    BY <1>2, <1>3 DEF InGarbage
  <1>5. ASSUME NEW x, InGarbage(x) PROVE InGarbage(x)'
    <2>1. PICK i \in DOMAIN garbage : garbage[i] = x
      BY <1>5 DEF InGarbage
    <2>2. i \in DOMAIN garbage' /\ garbage'[i] = x
      BY <1>1, <1>2, <1>3, <2>1
    <2> QED  BY <2>2 DEF InGarbage
  <1> QED  BY <1>2, <1>4, <1>5

\* The half that is applied, and the FIFO without it.
LEMMA NextHalf ==
    ASSUME MirrorInv, NEW h, cmds # << >>, h = Head(cmds), cmds' = Tail(cmds)
    PROVE  /\ h = cmds[1]
           /\ cmds' \in Seq(AnyHalf) /\ Len(cmds') <= FifoSize
           /\ h.transport = None => h \in TreeHalf /\ \A k \in Transports : \A f : ~ Binds(h, k, f)
           /\ h.transport # None => h \in TransportHalf /\ h.transport \in Transports
  <1>1. cmds \in Seq(AnyHalf) /\ Len(cmds) <= FifoSize /\ FifoSize \in Nat
    BY TransportMirrorAssumption DEF MirrorInv, Typed, AnyHalf
  <1>2. h = cmds[1] /\ h \in AnyHalf /\ cmds' \in Seq(AnyHalf) /\ Len(cmds') <= FifoSize
    BY <1>1
  <1>3. h \in TransportHalf => h.transport \in Transports
    BY DEF TransportHalf, RunHalves, LocatedHalves, MarkHalves, OtherHalves
  <1>4. h \in TreeHalf => h.transport = None
    BY DEF TreeHalf
  <1>5. None \notin Transports
    BY TransportMirrorAssumption
  <1> QED  BY <1>2, <1>3, <1>4, <1>5 DEF AnyHalf, Binds

\* A group is made or freed: every binding stands.
LEMMA TreeApplies ==
    ASSUME MirrorInv, NEW h, cmds # << >>, h = Head(cmds), cmds' = Tail(cmds), h.transport = None,
           mirror' = mirror, apart \subseteq apart', Tree(h)
    PROVE  Applies(h)
  <1>1. /\ h = cmds[1] /\ cmds' \in Seq(AnyHalf) /\ Len(cmds') <= FifoSize /\ h \in TreeHalf
        /\ \A k \in Transports : \A f : ~ Binds(h, k, f)
    BY NextHalf
  <1>2. /\ engine' = engine
        /\ garbage' = garbage \/ (h.value \in GroupIds /\ garbage' = Append(garbage, <<"freed", h.value>>))
        /\ frozen' \subseteq frozen
        /\ live' \subseteq live \cup {h.value} /\ frozen' \subseteq live'
    BY <1>1 DEF Tree, Dies, audio, MirrorInv, Typed, TreeHalf
  <1>3. garbage' \in Seq(Return) /\ \A x : InGarbage(x) => InGarbage(x)'
    <2>1. CASE garbage' = garbage
      BY <2>1 DEF InGarbage, MirrorInv, Typed
    <2>2. CASE h.value \in GroupIds /\ garbage' = Append(garbage, <<"freed", h.value>>)
      <3>1. <<"freed", h.value>> \in Return
        BY <2>2 DEF Return
      <3> QED  BY <2>2, <3>1, GarbageGrows
    <2> QED  BY <1>2, <2>1, <2>2
  <1>4. FrozenGoverned'
    BY <1>2 DEF MirrorInv, FrozenGoverned
  <1>5. h.value \in GroupIds
    BY <1>1 DEF TreeHalf
  <1>6. Typed'
    BY <1>1, <1>2, <1>3, <1>5 DEF MirrorInv, Typed, AnyHalf
  <1>7. \A k \in Transports : Ending(k) => Ending(k)'
    BY <1>2, <1>3 DEF Ending
  <1> QED  BY <1>1, <1>2, <1>3, <1>4, <1>6, <1>7 DEF Applies

\* The first half is one of transport k.
Takes(h, k) ==
    /\ cmds # << >> /\ h = Head(cmds) /\ cmds' = Tail(cmds)
    /\ h.transport # None /\ k = h.transport
    /\ mirror' = mirror /\ apart \subseteq apart' /\ live' = live

\* It is done: the transport is as it says, and the others as they were.
Done(h, k) ==
    /\ garbage' = garbage
    /\ engine' \in [Transports -> [EngineFields -> Values]]
    /\ \A j \in Transports, e \in EngineFields : j # k => engine'[j][e] = engine[j][e]
    /\ \A f \in Bindings : h.op # f => engine'[k][f] = engine[k][f]
    /\ \A f \in Settings : Has(engine'[k], f) = IF h.op = f THEN h.value ELSE Has(engine[k], f)
    /\ \A f \in Bindings : h.op = f => \/ engine'[k][f] = h.value
                                       \/ engine'[k][f] = None /\ Refused(h, k, f)
    /\ <<k, "called off">> \notin apart' =>
           PlaceOf(engine'[k]) = IF h.op = "located" THEN h.value ELSE PlaceOf(engine[k])
    /\ Going(engine'[k]) = IF h.op = "run" THEN h.value ELSE Going(engine[k])
    /\ h.op # "run" => engine'[k].stopping = engine[k].stopping
    /\ Sound(engine'[k])
    /\ frozen' \subseteq live /\ FrozenGoverned'

\* Fields that are all alike make records that are.
LEMMA RecordsAlike ==
    ASSUME MirrorInv, engine' \in [Transports -> [EngineFields -> Values]], NEW j \in Transports,
           \A e \in EngineFields : engine'[j][e] = engine[j][e]
    PROVE  engine'[j] = engine[j]
  <1>1. engine[j] \in [EngineFields -> Values] /\ engine'[j] \in [EngineFields -> Values]
    BY DEF MirrorInv, Typed
  <1> QED  BY <1>1

\* What is done to one transport is told of all of them.
LEMMA TransportApplies ==
    ASSUME MirrorInv, NEW h, NEW k, Takes(h, k), Done(h, k)
    PROVE  Applies(h)
  <1>0. /\ cmds # << >> /\ h = Head(cmds) /\ cmds' = Tail(cmds)
        /\ h.transport # None /\ k = h.transport
        /\ mirror' = mirror /\ apart \subseteq apart' /\ live' = live
    BY DEF Takes
  <1>20. /\ garbage' = garbage
         /\ engine' \in [Transports -> [EngineFields -> Values]]
         /\ \A j \in Transports, e \in EngineFields : j # k => engine'[j][e] = engine[j][e]
         /\ Sound(engine'[k])
         /\ frozen' \subseteq live /\ FrozenGoverned'
    BY DEF Done
  <1>1. /\ h = cmds[1] /\ cmds' \in Seq(AnyHalf) /\ Len(cmds') <= FifoSize
        /\ h \in TransportHalf /\ k \in Transports
    BY <1>0, NextHalf
  <1>2. \A f : Binds(h, k, f) <=> h.op = f
    BY <1>0 DEF Binds
  <1>3. \A j \in Transports : j # k => \A f : ~ Binds(h, j, f)
    BY <1>0 DEF Binds
  <1>4. ASSUME NEW j \in Transports, j # k PROVE engine'[j] = engine[j]
    <2>1. \A e \in EngineFields : engine'[j][e] = engine[j][e]
      BY <1>4, <1>20
    <2> QED  BY <1>20, <2>1, RecordsAlike
  <1>5. \A x : InGarbage(x) <=> InGarbage(x)'
    BY <1>20 DEF InGarbage
  <1>6. Typed'
    <2>1. \A j \in Transports : mirror'[j].playing \in BOOLEAN
      BY <1>0 DEF MirrorInv, Typed
    <2>2. ASSUME NEW j \in Transports PROVE Sound(engine'[j])
      <3>1. CASE j = k
        BY <1>20, <3>1
      <3>2. CASE j # k
        BY <1>4, <3>2 DEF MirrorInv, Typed
      <3> QED  BY <3>1, <3>2
    <2>3. /\ mirror' \in [Transports -> [MirrorFields -> Values]]
          /\ garbage' \in Seq(Return) /\ live' \subseteq GroupIds
      BY <1>0, <1>20 DEF MirrorInv, Typed
    <2>4. \A j \in Transports : Sound(engine[j])'
      BY <2>2 DEF Sound
    <2> QED  BY <1>0, <1>1, <1>20, <2>1, <2>3, <2>4 DEF Typed, AnyHalf
  <1>7. ASSUME NEW j \in Transports, NEW f \in Settings
        PROVE  Has(engine'[j], f) = IF Binds(h, j, f) THEN h.value ELSE Has(engine[j], f)
    <2>1. CASE j = k
      BY <1>2, <2>1 DEF Done
    <2>2. CASE j # k
      BY <1>3, <1>4, <2>2
    <2> QED  BY <2>1, <2>2
  <1>8. ASSUME NEW j \in Transports, NEW f \in Bindings
        PROVE  \/ engine'[j][f] = IF Binds(h, j, f) THEN h.value ELSE engine[j][f]
               \/ Binds(h, j, f) /\ engine'[j][f] = None /\ Refused(h, j, f)
    <2>1. CASE j = k
      <3>1. \/ engine'[k][f] = IF h.op = f THEN h.value ELSE engine[k][f]
            \/ h.op = f /\ engine'[k][f] = None /\ Refused(h, k, f)
        <4>1. CASE h.op = f
          BY <4>1 DEF Done
        <4>2. CASE h.op # f
          BY <4>2 DEF Done
        <4> QED  BY <4>1, <4>2
      <3> QED  BY <1>2, <2>1, <3>1
    <2>2. CASE j # k
      BY <1>3, <1>4, <2>2
    <2> QED  BY <2>1, <2>2
  <1>9. ASSUME NEW j \in Transports, <<j, "called off">> \notin apart'
        PROVE  PlaceOf(engine'[j]) = IF Binds(h, j, "located") THEN h.value ELSE PlaceOf(engine[j])
    <2>1. CASE j = k
      BY <1>2, <1>9, <2>1 DEF Done
    <2>2. CASE j # k
      BY <1>3, <1>4, <2>2
    <2> QED  BY <2>1, <2>2
  <1>10. ASSUME NEW j \in Transports
         PROVE  Going(engine'[j]) = IF Binds(h, j, "run") THEN h.value ELSE Going(engine[j])
    <2>1. CASE j = k
      BY <1>2, <2>1 DEF Done
    <2>2. CASE j # k
      BY <1>3, <1>4, <2>2
    <2> QED  BY <2>1, <2>2
  <1>11. ASSUME NEW j \in Transports, ~ Binds(h, j, "run"), Ending(j) PROVE Ending(j)'
    <2>1. engine'[j].stopping = engine[j].stopping
      BY <1>0, <1>2, <1>4, <1>11 DEF Done
    <2> QED  BY <1>5, <1>11, <2>1 DEF Ending
  <1> QED  BY <1>0, <1>1, <1>20, <1>5, <1>6, <1>7, <1>8, <1>9, <1>10, <1>11, Zenon DEF Applies

\* The type of a half of a transport.
LEMMA TakesHalf ==
    ASSUME MirrorInv, NEW h, NEW k, Takes(h, k)
    PROVE  /\ h \in TransportHalf /\ k \in Transports /\ h.value \in Values
           /\ h.op = "run" => h.value \in BOOLEAN
           /\ h.op = "located" => h.value # None
           /\ h.op = "mark" => h.value \in Marks
  <1>1. h \in TransportHalf /\ k \in Transports
    BY NextHalf DEF Takes
  <1> QED  BY <1>1 DEF TransportHalf, RunHalves, LocatedHalves, MarkHalves, OtherHalves, Settings,
                       Bindings, Values

\* What is governed stays so where no transport changes its group.
LEMMA StillGoverned ==
    ASSUME MirrorInv, NEW k \in Transports,
           \A j \in Transports : engine'[j].group = engine[j].group,
           \A g \in frozen' : g \in frozen \/ g = engine[k].group
    PROVE  FrozenGoverned'
  BY DEF MirrorInv, FrozenGoverned

\* Which fields are there, and that no two kinds share one.
LEMMA FieldTypes ==
    /\ Settings \cup Bindings \subseteq EngineFields /\ Settings \cap Bindings = {}
    /\ Stopped \cup {"group", "mark", "looping", "asked", "fade"} \subseteq EngineFields
    /\ (Stopped \cup {"run", "tempo"}) \cap (Settings \cup Bindings \cup {"asked"}) = {}
    /\ "asked" \notin Bindings
  BY DEF Settings, Bindings, EngineFields, Stopped

\* Settings are where the engine has them.
LEMMA HasAlike ==
    ASSUME NEW a, NEW b, a.asked = b.asked, a.mark = b.mark, a.fade = b.fade
    PROVE  \A f \in Settings : Has(a, f) = Has(b, f)
  BY DEF Has, Settings

\* RunPlay: it rolls, and where it was to be put is lost, or was nowhere.
LEMMA PlayApplies ==
    ASSUME MirrorInv, NEW h, NEW k, Takes(h, k), h.op = "run", h.value = TRUE, RunPlay(k),
           LosesLocate(h) => <<k, "called off">> \in apart'
    PROVE  Applies(h)
  <1>1. k \in Transports /\ h.value = TRUE
    BY TakesHalf
  <1>2. TRUE \in Values /\ None \in Values
    BY DEF Values
  <1>3. engine \in [Transports -> [EngineFields -> Values]]
    BY DEF MirrorInv, Typed
  <1> DEFINE F == [Transports -> [EngineFields -> Values]]
  <1>4. PICK a : a = [engine EXCEPT ![k]["rolling"] = TRUE]
    OBVIOUS
  <1>5. PICK b : b = [a EXCEPT ![k]["stopping"] = None]
    OBVIOUS
  <1>6. PICK c : c = [b EXCEPT ![k]["back"] = None]
    OBVIOUS
  <1>7. engine' = [c EXCEPT ![k]["return"] = None]
    BY <1>4, <1>5, <1>6 DEF RunPlay
  <1>30. engine \in F
    BY <1>3
  <1> HIDE DEF F
  <1>31. Stopped \subseteq EngineFields
    BY FieldTypes
  <1>8. /\ a \in F /\ a[k]["rolling"] = TRUE
        /\ \A j \in Transports, e \in EngineFields : j # k \/ e # "rolling" => a[j][e] = engine[j][e]
    BY <1>1, <1>2, <1>30, <1>4, <1>31, FieldSet DEF F, Stopped
  <1>9. /\ b \in F /\ b[k]["stopping"] = None
        /\ \A j \in Transports, e \in EngineFields : j # k \/ e # "stopping" => b[j][e] = a[j][e]
    BY <1>1, <1>2, <1>5, <1>8, <1>31, FieldSet DEF F, Stopped
  <1>10. /\ c \in F /\ c[k]["back"] = None
         /\ \A j \in Transports, e \in EngineFields : j # k \/ e # "back" => c[j][e] = b[j][e]
    BY <1>1, <1>2, <1>6, <1>9, <1>31, FieldSet DEF F, Stopped
  <1>11. /\ engine' \in F /\ engine'[k]["return"] = None
         /\ \A j \in Transports, e \in EngineFields : j # k \/ e # "return" => engine'[j][e] = c[j][e]
    BY <1>1, <1>2, <1>7, <1>10, <1>31, FieldSet DEF F, Stopped
  <1>12. ASSUME NEW j \in Transports, NEW e \in EngineFields,
                j # k \/ e \notin {"rolling", "stopping", "back", "return"}
         PROVE  engine'[j][e] = engine[j][e]
    <2>1. engine'[j][e] = c[j][e]
      BY <1>11, <1>12
    <2>2. c[j][e] = b[j][e]
      BY <1>10, <1>12
    <2>3. b[j][e] = a[j][e]
      BY <1>9, <1>12
    <2> QED  BY <1>8, <1>12, <2>1, <2>2, <2>3
  <1>13. /\ engine'[k].rolling = TRUE /\ engine'[k].stopping = None
         /\ engine'[k].back = None /\ engine'[k].return = None
    <2>1. engine'[k]["back"] = None
      BY <1>1, <1>10, <1>11, <1>31 DEF Stopped
    <2>2. engine'[k]["stopping"] = None
      BY <1>1, <1>9, <1>10, <1>11, <1>31 DEF Stopped
    <2>3. engine'[k]["rolling"] = TRUE
      BY <1>1, <1>8, <1>9, <1>10, <1>11, <1>31 DEF Stopped
    <2> QED  BY <1>11, <2>1, <2>2, <2>3
  <1>14. /\ engine'[k].located = engine[k].located /\ engine'[k].returned = engine[k].returned
         /\ engine'[k].mark = engine[k].mark /\ engine'[k].asked = engine[k].asked
         /\ engine'[k].fade = engine[k].fade
    BY <1>1, <1>12, FieldTypes DEF Stopped
  <1>15. /\ \A f \in Bindings : engine'[k][f] = engine[k][f] /\ h.op # f
         /\ \A f \in Settings : Has(engine'[k], f) = Has(engine[k], f) /\ h.op # f
    <2>1. \A f \in Bindings : engine'[k][f] = engine[k][f]
      BY <1>1, <1>12, FieldTypes DEF Stopped
    <2>2. \A f \in Settings : Has(engine'[k], f) = Has(engine[k], f)
      BY <1>14, HasAlike
    <2> QED  BY <2>1, <2>2, FieldTypes
  <1>16. <<k, "called off">> \notin apart' => PlaceOf(engine'[k]) = PlaceOf(engine[k])
    <2>1. <<k, "called off">> \notin apart' => engine[k].back = None
      BY <1>1 DEF LosesLocate, Takes
    <2> QED  BY <1>13, <1>14, <2>1 DEF PlaceOf
  <1>17. FrozenGoverned' /\ frozen' \subseteq live
    <2>1. \A g \in frozen' : g \in frozen \/ g = engine[k].group
      BY FrozenType DEF RunPlay
    <2>2. \A j \in Transports : engine'[j].group = engine[j].group
      BY <1>12, FieldTypes
    <2>3. frozen' \subseteq live
      <3>1. frozen \subseteq live
        BY DEF MirrorInv, Typed
      <3> QED  BY <3>1, FrozenType DEF RunPlay
    <2> QED  BY <1>1, <2>1, <2>2, <2>3, StillGoverned
  <1>18. garbage' = garbage
    BY DEF RunPlay
  <1>19. \A j \in Transports, e \in EngineFields : j # k => engine'[j][e] = engine[j][e]
    BY <1>12
  <1>20. h.value = TRUE /\ h.op = "run" /\ h.op # "located"
    BY <1>1
  <1>21. Sound(engine'[k])
    <2>1. Sound(engine[k])
      BY <1>1 DEF MirrorInv, Typed
    <2> QED  BY <1>13, <1>14, <2>1 DEF Sound
  <1>22. Done(h, k)
    <2>1. /\ \A f \in Bindings : h.op # f => engine'[k][f] = engine[k][f]
          /\ \A f \in Settings : Has(engine'[k], f) = IF h.op = f THEN h.value ELSE Has(engine[k], f)
          /\ \A f \in Bindings : h.op # f
      BY <1>15
    <2>3. <<k, "called off">> \notin apart' =>
             PlaceOf(engine'[k]) = IF h.op = "located" THEN h.value ELSE PlaceOf(engine[k])
      BY <1>16, <1>20
    <2>4. Going(engine'[k]) = IF h.op = "run" THEN h.value ELSE Going(engine[k])
      BY <1>13, <1>20 DEF Going
    <2>5. h.op # "run" => engine'[k].stopping = engine[k].stopping
      BY <1>20
    <2>6. engine' \in [Transports -> [EngineFields -> Values]]
      BY <1>11 DEF F
    <2> QED  BY <1>17, <1>18, <1>19, <1>21, <2>1, <2>3, <2>4, <2>5, <2>6 DEF Done
  <1> QED  BY <1>22, TransportApplies

\* What is in place of a transport that goes on as it did.
LEMMA GoesOn ==
    ASSUME MirrorInv, NEW h, NEW k, Takes(h, k), h.op \notin {"run", "located"},
           UNCHANGED <<frozen, garbage>>, engine' \in [Transports -> [EngineFields -> Values]],
           \A j \in Transports, e \in EngineFields :
               j # k \/ e \in Stopped \cup {"group"} => engine'[j][e] = engine[j][e],
           engine'[k].mark \in Marks,
           \A f \in Bindings : engine'[k][f] = engine[k][f] /\ h.op # f,
           \A f \in Settings : Has(engine'[k], f) = IF h.op = f THEN h.value ELSE Has(engine[k], f)
    PROVE  Applies(h)
  <1>1. k \in Transports
    BY TakesHalf
  <1>2. Sound(engine[k])
    BY <1>1 DEF MirrorInv, Typed
  <1>3. /\ engine'[k].rolling = engine[k].rolling /\ engine'[k].stopping = engine[k].stopping
        /\ engine'[k].back = engine[k].back /\ engine'[k].located = engine[k].located
        /\ engine'[k].return = engine[k].return /\ engine'[k].returned = engine[k].returned
    BY <1>1, FieldTypes DEF Stopped
  <1>4. PlaceOf(engine'[k]) = PlaceOf(engine[k]) /\ Going(engine'[k]) = Going(engine[k])
    BY <1>3 DEF PlaceOf, Going
  <1>5. Sound(engine'[k])
    BY <1>2, <1>3 DEF Sound
  <1>6. FrozenGoverned' /\ frozen' \subseteq live
    <2>1. \A j \in Transports : engine'[j].group = engine[j].group
      BY FieldTypes
    <2>2. frozen' \subseteq live
      BY DEF MirrorInv, Typed
    <2> QED  BY <1>1, <2>1, <2>2, StillGoverned
  <1>7. Done(h, k)
    <2>1. <<k, "called off">> \notin apart' =>
             PlaceOf(engine'[k]) = IF h.op = "located" THEN h.value ELSE PlaceOf(engine[k])
      BY <1>4
    <2>2. Going(engine'[k]) = IF h.op = "run" THEN h.value ELSE Going(engine[k])
      BY <1>4
    <2>3. garbage' = garbage
      OBVIOUS
    <2>4. h.op # "run" => engine'[k].stopping = engine[k].stopping
      BY <1>3
    <2> QED  BY <1>5, <1>6, <2>1, <2>2, <2>3, <2>4 DEF Done
  <1> QED  BY <1>7, TransportApplies

\* A mark, a fade or a tempo: one field, or none.
LEMMA SettingApplies ==
    ASSUME MirrorInv, NEW h, NEW k, Takes(h, k), UNCHANGED <<frozen, garbage>>,
           \/ h.op \in {"mark", "fade"} /\ engine' = [engine EXCEPT ![k][h.op] = h.value]
           \/ h.op = "tempo" /\ engine' = engine
    PROVE  Applies(h)
  <1>1. k \in Transports /\ h.value \in Values /\ (h.op = "mark" => h.value \in Marks)
    BY TakesHalf
  <1>2. engine \in [Transports -> [EngineFields -> Values]] /\ engine[k].mark \in Marks
    BY <1>1 DEF MirrorInv, Typed, Sound
  <1>3. CASE h.op = "tempo" /\ engine' = engine
    <2>1. h.op \notin {"run", "located"} /\ \A f \in Settings \cup Bindings : h.op # f
      BY <1>3, FieldTypes
    <2> QED  BY <1>2, <1>3, <2>1, GoesOn
  <1>4. ASSUME NEW f \in {"mark", "fade"}, h.op = f, engine' = [engine EXCEPT ![k][f] = h.value]
        PROVE  Applies(h)
    <2>1. f \in EngineFields /\ f \notin Stopped \cup {"group", "asked", "looping"} \cup Bindings
      BY FieldTypes DEF Settings, Bindings, Stopped
    <2>2. /\ engine' \in [Transports -> [EngineFields -> Values]] /\ engine'[k][f] = h.value
          /\ \A j \in Transports, e \in EngineFields : j # k \/ e # f => engine'[j][e] = engine[j][e]
      BY <1>1, <1>2, <1>4, <2>1, FieldSet
    <2>3. engine'[k].mark \in Marks
      BY <1>1, <1>2, <1>4, <2>2, FieldTypes
    <2>4. \A e \in Bindings : engine'[k][e] = engine[k][e] /\ h.op # e
      BY <1>1, <1>4, <2>1, <2>2, FieldTypes
    <2>5. \A e \in Settings : Has(engine'[k], e) = IF h.op = e THEN h.value ELSE Has(engine[k], e)
      <3>1. engine'[k].asked = engine[k].asked
        BY <1>1, <2>1, <2>2, FieldTypes
      <3>2. \A e \in {"mark", "fade"} : engine'[k][e] = IF f = e THEN h.value ELSE engine[k][e]
        BY <1>1, <2>2, FieldTypes
      <3> QED  BY <1>4, <3>1, <3>2 DEF Has, Settings
    <2>6. h.op \notin {"run", "located"}
      BY <1>4
    <2>7. \A j \in Transports, e \in EngineFields :
              j # k \/ e \in Stopped \cup {"group"} => engine'[j][e] = engine[j][e]
      BY <2>1, <2>2
    <2> QED  BY <2>2, <2>3, <2>4, <2>5, <2>6, <2>7, GoesOn
  <1> QED  BY <1>3, <1>4

\* TakeLoop: what is asked for is what was sent, whatever is in force.
LEMMA LoopApplies ==
    ASSUME MirrorInv, NEW h, NEW k, Takes(h, k), h.op = "looping", TakeLoop(k, h.value)
    PROVE  Applies(h)
  <1>1. k \in Transports /\ h.value \in Values
    BY TakesHalf
  <1>2. engine \in [Transports -> [EngineFields -> Values]] /\ engine[k].mark \in Marks
    BY <1>1 DEF MirrorInv, Typed, Sound
  <1>3. PICK inForce \in {h.value, engine[k].looping} :
            engine' = [engine EXCEPT ![k].asked = h.value, ![k].looping = inForce]
    BY DEF TakeLoop
  <1>4. inForce \in Values
    <2>1. engine[k]["looping"] \in Values
      BY <1>1, <1>2, FieldTypes
    <2> QED  BY <1>1, <2>1
  <1>5. PICK a : a = [engine EXCEPT ![k]["asked"] = h.value]
    OBVIOUS
  <1>6. engine' = [a EXCEPT ![k]["looping"] = inForce]
    BY <1>3, <1>5
  <1>7. /\ a \in [Transports -> [EngineFields -> Values]] /\ a[k]["asked"] = h.value
        /\ \A j \in Transports, e \in EngineFields : j # k \/ e # "asked" => a[j][e] = engine[j][e]
    BY <1>1, <1>2, <1>5, FieldTypes, FieldSet
  <1>8. /\ engine' \in [Transports -> [EngineFields -> Values]]
        /\ \A j \in Transports, e \in EngineFields : j # k \/ e # "looping" => engine'[j][e] = a[j][e]
    BY <1>1, <1>4, <1>6, <1>7, FieldTypes, FieldSet
  <1>9. ASSUME NEW j \in Transports, NEW e \in EngineFields, j # k \/ e \notin {"asked", "looping"}
        PROVE  engine'[j][e] = engine[j][e]
    BY <1>7, <1>8, <1>9
  <1>10. {"asked", "looping"} \cap (Stopped \cup Bindings \cup {"group", "mark", "fade"}) = {}
    BY DEF Stopped, Bindings
  <1>11. engine'[k].mark \in Marks
    BY <1>1, <1>2, <1>9, FieldTypes
  <1>12. \A e \in Bindings : engine'[k][e] = engine[k][e] /\ h.op # e
    BY <1>1, <1>9, <1>10, FieldTypes
  <1>13. \A e \in Settings : Has(engine'[k], e) = IF h.op = e THEN h.value ELSE Has(engine[k], e)
    <2>1. engine'[k].asked = h.value
      BY <1>1, <1>7, <1>8, FieldTypes
    <2>2. engine'[k].mark = engine[k].mark /\ engine'[k].fade = engine[k].fade
      BY <1>1, <1>9, FieldTypes
    <2> QED  BY <2>1, <2>2 DEF Has, Settings
  <1>14. \A j \in Transports, e \in EngineFields :
              j # k \/ e \in Stopped \cup {"group"} => engine'[j][e] = engine[j][e]
    BY <1>9, <1>10
  <1>15. UNCHANGED <<frozen, garbage>> /\ h.op \notin {"run", "located"}
    BY DEF TakeLoop
  <1> QED  BY <1>8, <1>11, <1>12, <1>13, <1>14, <1>15, GoesOn

\* RunStop: it has stopped, starts to stop, or was stopping.
LEMMA StopApplies ==
    ASSUME MirrorInv, NEW h, NEW k, Takes(h, k), h.op = "run", h.value = FALSE, RunStop(k)
    PROVE  Applies(h)
  <1>1. k \in Transports
    BY TakesHalf
  <1>2. engine \in [Transports -> [EngineFields -> Values]] /\ frozen \subseteq live
        /\ Sound(engine[k]) /\ None \in Values
    BY <1>1 DEF MirrorInv, Typed, Values
  <1>3. /\ engine' \in [Transports -> [EngineFields -> Values]]
        /\ \A j \in Transports, e \in EngineFields :
               j # k \/ e \notin Stopped => engine'[j][e] = engine[j][e]
        /\ PlaceOf(engine'[k]) = PlaceOf(engine[k]) /\ Going(engine'[k]) = FALSE
        /\ Sound(engine'[k])
        /\ garbage' = garbage /\ frozen' \subseteq live
        /\ \A g \in frozen' : g \in frozen \/ g = engine[k].group
    <2>1. CASE ~ engine[k].rolling \/ engine[k].stopping # None
      <3>1. engine' = engine /\ frozen' = frozen /\ garbage' = garbage
        BY <2>1 DEF RunStop
      <3>2. Going(engine[k]) = FALSE
        BY <2>1 DEF Going
      <3> QED  BY <1>2, <3>1, <3>2
    <2>2. CASE ~ (~ engine[k].rolling \/ engine[k].stopping # None) /\ engine[k].fade
      <3>1. Ramp(k, "stop", None) /\ "stop" \in {"stop", "end"}
        BY <2>2 DEF RunStop
      <3> QED  BY <1>1, <1>2, <3>1, RampDoes
    <2>3. CASE ~ (~ engine[k].rolling \/ engine[k].stopping # None) /\ ~ engine[k].fade
      <3>1. Freeze(k, FALSE, None, None) /\ engine[k].back = None
        BY <1>2, <2>3 DEF RunStop, Sound
      <3>2. Freeze(k, FALSE, engine[k].back, None)
        BY <3>1
      <3>3. garbage' = garbage
        BY <3>1 DEF Freeze
      <3> QED  BY <1>1, <1>2, <3>2, <3>3, FreezeDoes
    <2> QED  BY <2>1, <2>2, <2>3
  <1>4. /\ \A f \in Bindings : h.op # f /\ engine'[k][f] = engine[k][f]
        /\ \A f \in Settings : h.op # f /\ Has(engine'[k], f) = Has(engine[k], f)
    <2>1. \A f \in Bindings : h.op # f /\ engine'[k][f] = engine[k][f]
      BY <1>1, <1>3, FieldTypes
    <2>2. /\ engine'[k].asked = engine[k].asked /\ engine'[k].mark = engine[k].mark
          /\ engine'[k].fade = engine[k].fade
      BY <1>1, <1>3, FieldTypes DEF Stopped
    <2> QED  BY <2>1, <2>2, HasAlike, FieldTypes
  <1>5. FrozenGoverned'
    <2>1. \A j \in Transports : engine'[j].group = engine[j].group
      BY <1>3, FieldTypes DEF Stopped
    <2> QED  BY <1>1, <1>3, <2>1, StillGoverned
  <1>6. h.op = "run" /\ h.op # "located" /\ h.value = FALSE
    OBVIOUS
  <1>7. \A j \in Transports, e \in EngineFields : j # k => engine'[j][e] = engine[j][e]
    BY <1>3
  <1>8. Done(h, k)
    <2>1. /\ \A f \in Bindings : h.op # f => engine'[k][f] = engine[k][f]
          /\ \A f \in Settings : Has(engine'[k], f) = IF h.op = f THEN h.value ELSE Has(engine[k], f)
          /\ \A f \in Bindings : h.op # f
      BY <1>4
    <2>3. <<k, "called off">> \notin apart' =>
             PlaceOf(engine'[k]) = IF h.op = "located" THEN h.value ELSE PlaceOf(engine[k])
      BY <1>3, <1>6
    <2>4. Going(engine'[k]) = IF h.op = "run" THEN h.value ELSE Going(engine[k])
      BY <1>3, <1>6
    <2>5. h.op # "run" => engine'[k].stopping = engine[k].stopping
      BY <1>6
    <2> QED  BY <1>3, <1>5, <1>7, <2>1, <2>3, <2>4, <2>5 DEF Done
  <1> QED  BY <1>8, TransportApplies

\* TakeLocate: it is there, or will be when it has stopped.
LEMMA LocateApplies ==
    ASSUME MirrorInv, NEW h, NEW k, Takes(h, k), h.op = "located", TakeLocate(k, h.value)
    PROVE  Applies(h)
  <1>1. k \in Transports /\ h.value \in Values /\ h.value # None
    BY TakesHalf
  <1>2. engine \in [Transports -> [EngineFields -> Values]] /\ frozen \subseteq live
        /\ Sound(engine[k]) /\ FALSE \in Values
    BY <1>1 DEF MirrorInv, Typed, Values
  <1>20. Stopped \subseteq EngineFields
    BY FieldTypes
  <1>3. /\ engine' \in [Transports -> [EngineFields -> Values]]
        /\ \A j \in Transports, e \in EngineFields :
               j # k \/ e \notin {"back", "located", "returned"} => engine'[j][e] = engine[j][e]
        /\ PlaceOf(engine'[k]) = h.value
        /\ engine'[k].back # None => engine[k].stopping # None
        /\ engine'[k].returned \in BOOLEAN
    <2>1. CASE engine[k].stopping = None
      <3>1. PICK a : a = [engine EXCEPT ![k]["located"] = h.value]
        OBVIOUS
      <3>2. engine' = [a EXCEPT ![k]["returned"] = FALSE]
        BY <2>1, <3>1 DEF TakeLocate
      <3>3. a \in [Transports -> [EngineFields -> Values]] /\ a[k]["located"] = h.value
            /\ \A j \in Transports, e \in EngineFields : j # k \/ e # "located" => a[j][e] = engine[j][e]
        BY <1>1, <1>2, <1>20, <3>1, FieldSet DEF Stopped
      <3>4. engine' \in [Transports -> [EngineFields -> Values]] /\ engine'[k]["returned"] = FALSE
            /\ \A j \in Transports, e \in EngineFields : j # k \/ e # "returned" => engine'[j][e] = a[j][e]
        BY <1>1, <1>2, <1>20, <3>2, <3>3, FieldSet DEF Stopped
      <3>5. \A j \in Transports, e \in EngineFields :
               j # k \/ e \notin {"back", "located", "returned"} => engine'[j][e] = engine[j][e]
        BY <3>3, <3>4
      <3>6. engine'[k].back = None /\ engine'[k].located = h.value /\ engine'[k].returned = FALSE
        <4>1. engine[k].back = None
          BY <1>2, <2>1 DEF Sound
        <4>2. engine'[k]["back"] = engine[k]["back"] /\ engine'[k]["located"] = h.value
          BY <1>1, <1>20, <3>3, <3>4 DEF Stopped
        <4> QED  BY <3>4, <4>1, <4>2
      <3> QED  BY <3>4, <3>5, <3>6 DEF PlaceOf
    <2>2. CASE engine[k].stopping # None
      <3>1. engine' = [engine EXCEPT ![k].back = h.value]
        BY <2>2 DEF TakeLocate
      <3>2. engine' \in [Transports -> [EngineFields -> Values]] /\ engine'[k]["back"] = h.value
            /\ \A j \in Transports, e \in EngineFields : j # k \/ e # "back" => engine'[j][e] = engine[j][e]
        BY <1>1, <1>2, <1>20, <3>1, FieldSet DEF Stopped
      <3>3. engine'[k]["returned"] = engine[k]["returned"]
        BY <1>1, <1>20, <3>2 DEF Stopped
      <3> QED  BY <1>1, <1>2, <2>2, <3>2, <3>3 DEF PlaceOf, Sound
    <2> QED  BY <2>1, <2>2
  <1>4. /\ engine'[k].rolling = engine[k].rolling /\ engine'[k].stopping = engine[k].stopping
        /\ engine'[k].return = engine[k].return /\ engine'[k].mark = engine[k].mark
    BY <1>1, <1>3, FieldTypes DEF Stopped
  <1>5. Going(engine'[k]) = Going(engine[k])
    BY <1>4 DEF Going
  <1>6. /\ \A f \in Bindings : h.op # f /\ engine'[k][f] = engine[k][f]
        /\ \A f \in Settings : h.op # f /\ Has(engine'[k], f) = Has(engine[k], f)
    <2>1. \A f \in Bindings : h.op # f /\ engine'[k][f] = engine[k][f]
      BY <1>1, <1>3, FieldTypes DEF Stopped
    <2>2. engine'[k].asked = engine[k].asked /\ engine'[k].fade = engine[k].fade
      BY <1>1, <1>3, FieldTypes
    <2> QED  BY <1>4, <2>1, <2>2, HasAlike, FieldTypes DEF Stopped
  <1>7. frozen' = frozen /\ garbage' = garbage
    BY DEF TakeLocate
  <1>8. FrozenGoverned'
    <2>1. \A j \in Transports : engine'[j].group = engine[j].group
      BY <1>3, FieldTypes
    <2> QED  BY <1>1, <1>7, <2>1, StillGoverned
  <1>9. \A j \in Transports, e \in EngineFields : j # k => engine'[j][e] = engine[j][e]
    BY <1>3
  <1>10. Done(h, k)
    <2>3. PlaceOf(engine'[k]) = IF h.op = "located" THEN h.value ELSE PlaceOf(engine[k])
      BY <1>3
    <2>4. Going(engine'[k]) = IF h.op = "run" THEN h.value ELSE Going(engine[k])
      BY <1>5
    <2>5. Sound(engine'[k])
      BY <1>2, <1>3, <1>4 DEF Sound
    <2>6. /\ \A f \in Bindings : h.op # f => engine'[k][f] = engine[k][f]
          /\ \A f \in Settings : Has(engine'[k], f) = IF h.op = f THEN h.value ELSE Has(engine[k], f)
          /\ \A f \in Bindings : h.op # f
      BY <1>6
    <2>7. h.op # "run" => engine'[k].stopping = engine[k].stopping
      BY <1>4
    <2> QED  BY <1>2, <1>3, <1>7, <1>8, <1>9, <2>3, <2>4, <2>5, <2>6, <2>7 DEF Done
  <1> QED  BY <1>10, TransportApplies

\* Rebind: the group let go is resumed, and the one bound paused if it stands.
LEMMA RebindApplies ==
    ASSUME MirrorInv, NEW h, NEW k, Takes(h, k), h.op \in Bindings, Rebind(k, h.op, h.value),
           Unheard(h) => <<k, h.op>> \in apart'
    PROVE  Applies(h)
  <1>1. k \in Transports /\ h.value \in Values
    BY TakesHalf
  <1>2. engine \in [Transports -> [EngineFields -> Values]] /\ frozen \subseteq live /\ Sound(engine[k])
    BY <1>1 DEF MirrorInv, Typed
  <1>3. PICK f \in Bindings : f = h.op
    OBVIOUS
  <1>4. PICK v \in Values : v = (IF h.value \in live THEN h.value ELSE None)
    BY <1>1 DEF Values
  <1>5. engine' = [engine EXCEPT ![k][f] = v] /\ garbage' = garbage
    BY <1>3, <1>4 DEF Rebind
  <1>6. /\ engine' \in [Transports -> [EngineFields -> Values]] /\ engine'[k][f] = v
        /\ \A j \in Transports, e \in EngineFields : j # k \/ e # f => engine'[j][e] = engine[j][e]
    BY <1>1, <1>2, <1>5, FieldTypes
  <1>7. f \notin Settings \cup Stopped \cup {"run", "tempo", "asked"}
    BY DEF Settings, Bindings, Stopped
  <1>8. /\ engine'[k].rolling = engine[k].rolling /\ engine'[k].stopping = engine[k].stopping
        /\ engine'[k].back = engine[k].back /\ engine'[k].located = engine[k].located
        /\ engine'[k].return = engine[k].return /\ engine'[k].returned = engine[k].returned
        /\ engine'[k].mark = engine[k].mark
    BY <1>1, <1>6, <1>7, FieldTypes DEF Stopped, Settings
  <1>9. PlaceOf(engine'[k]) = PlaceOf(engine[k]) /\ Going(engine'[k]) = Going(engine[k])
    BY <1>8 DEF PlaceOf, Going
  <1>10. engine'[k][f] = h.value \/ (engine'[k][f] = None /\ Refused(h, k, f))
    <2>1. CASE h.value \in live \cup {None}
      BY <1>4, <1>6, <2>1
    <2>2. CASE h.value \notin live \cup {None}
      <3>1. <<k, f>> \notin apart' => mirror[k][f] # h.value \/ InGarbage(<<"freed", h.value>>)
        BY <1>3, <2>2 DEF Unheard, InGarbage, Takes
      <3> QED  BY <1>4, <1>6, <2>2, <3>1 DEF Refused
    <2> QED  BY <2>1, <2>2
  <1>11. frozen' \subseteq live /\ FrozenGoverned'
    <2>1. CASE f = "group"
      <3> DEFINE thawed == Thawed(k)
      <3>1. thawed \subseteq frozen \ {engine[k].group}
        BY <1>2 DEF Thawed, Pause
      <3>2. frozen' = thawed \/ (h.value \in live /\ frozen' = thawed \cup {h.value})
        BY <1>3, <2>1 DEF Rebind
      <3> HIDE DEF thawed
      <3>3. ASSUME NEW g \in frozen' PROVE \E j \in Transports : engine'[j].group = g
        <4>1. CASE g \in thawed
          <5>1. PICK j \in Transports : engine[j].group = g
            BY <3>1, <4>1 DEF MirrorInv, FrozenGoverned
          <5>2. j # k
            BY <3>1, <4>1, <5>1
          <5> QED  BY <1>6, <5>1, <5>2, FieldTypes
        <4>2. CASE g \notin thawed
          <5>1. h.value \in live /\ g = h.value
            BY <3>2, <4>2
          <5> QED  BY <1>1, <1>4, <1>6, <2>1, <5>1
        <4> QED  BY <4>1, <4>2
      <3> QED  BY <1>2, <3>1, <3>2, <3>3 DEF FrozenGoverned
    <2>2. CASE f # "group"
      <3>1. frozen' = frozen
        BY <1>3, <2>2 DEF Rebind
      <3>2. \A j \in Transports : engine'[j].group = engine[j].group
        BY <1>6, <2>2, FieldTypes
      <3> QED  BY <1>1, <1>2, <3>1, <3>2, StillGoverned
    <2> QED  BY <2>1, <2>2
  <1>12. Done(h, k)
    <2>1. \A e \in Bindings : h.op # e => engine'[k][e] = engine[k][e]
      BY <1>1, <1>3, <1>6, FieldTypes
    <2>2. \A e \in Settings : Has(engine'[k], e) = IF h.op = e THEN h.value ELSE Has(engine[k], e)
      <3>1. engine'[k].asked = engine[k].asked /\ engine'[k].fade = engine[k].fade
        BY <1>1, <1>6, <1>7, FieldTypes DEF Settings
      <3>2. \A e \in Settings : Has(engine'[k], e) = Has(engine[k], e)
        BY <1>8, <3>1, HasAlike
      <3> QED  BY <1>3, <1>7, <3>2
    <2>3. \A e \in Bindings : h.op = e => \/ engine'[k][e] = h.value
                                          \/ engine'[k][e] = None /\ Refused(h, k, e)
      BY <1>3, <1>10
    <2>4. PlaceOf(engine'[k]) = IF h.op = "located" THEN h.value ELSE PlaceOf(engine[k])
      BY <1>3, <1>7, <1>9 DEF Stopped
    <2>5. Going(engine'[k]) = IF h.op = "run" THEN h.value ELSE Going(engine[k])
      BY <1>3, <1>7, <1>9
    <2>6. Sound(engine'[k])
      BY <1>2, <1>8 DEF Sound
    <2>7. \A j \in Transports, e \in EngineFields : j # k => engine'[j][e] = engine[j][e]
      BY <1>6
    <2> QED  BY <1>5, <1>6, <1>8, <1>11, <2>1, <2>2, <2>3, <2>4, <2>5, <2>6, <2>7 DEF Done
  <1> QED  BY <1>12, TransportApplies

\* ApplyHalf, by what the half is about.
LEMMA ApplyHalfKeeps ==
    ASSUME MirrorInv, ApplyHalf
    PROVE  MirrorInv'
  <1> DEFINE h == Head(cmds)
             k == h.transport
  <1>1. /\ cmds # << >> /\ cmds' = Tail(cmds) /\ mirror' = mirror
        /\ IF h.transport = None THEN Tree(h) ELSE Transport(h)
        /\ apart' = apart \cup Apart(Unheard(h), k, h.op)
                          \cup Apart(LosesLocate(h), k, "called off")
    BY DEF ApplyHalf, network
  <1>2. /\ apart \subseteq apart'
        /\ Unheard(h) => <<k, h.op>> \in apart'
        /\ LosesLocate(h) => <<k, "called off">> \in apart'
    BY <1>1 DEF Apart
  <1>3. CASE h.transport = None
    <2>1. Applies(h)
      BY <1>1, <1>2, <1>3, TreeApplies
    <2> QED  BY <2>1, ApplyingKeeps
  <1>4. CASE h.transport # None
    <2>1. Transport(h)
      BY <1>1, <1>4
    <2>2. live' = live
      BY <2>1 DEF Transport
    <2>3. Takes(h, k)
      BY <1>1, <1>2, <1>4, <2>2 DEF Takes
    <2>4. h.op = "run" => h.value \in BOOLEAN
      BY <2>3, TakesHalf
    <2>5. \/ h.op = "run" /\ h.value = TRUE /\ RunPlay(k)
          \/ h.op = "run" /\ h.value = FALSE /\ RunStop(k)
          \/ h.op \in Bindings /\ Rebind(k, h.op, h.value)
          \/ h.op = "located" /\ TakeLocate(k, h.value)
          \/ h.op = "looping" /\ TakeLoop(k, h.value)
          \/ /\ h.op \in {"mark", "fade"} /\ engine' = [engine EXCEPT ![k][h.op] = h.value]
             /\ UNCHANGED <<frozen, garbage>>
          \/ h.op = "tempo" /\ UNCHANGED <<engine, frozen, garbage>>
      BY <2>1, <2>4 DEF Transport
    <2> HIDE DEF h, k
    <2>6. CASE h.op = "run" /\ h.value = TRUE /\ RunPlay(k)
      BY <1>2, <2>3, <2>6, PlayApplies, ApplyingKeeps
    <2>7. CASE h.op = "run" /\ h.value = FALSE /\ RunStop(k)
      BY <2>3, <2>7, StopApplies, ApplyingKeeps
    <2>8. CASE h.op \in Bindings /\ Rebind(k, h.op, h.value)
      BY <1>2, <2>3, <2>8, RebindApplies, ApplyingKeeps
    <2>9. CASE h.op = "located" /\ TakeLocate(k, h.value)
      BY <2>3, <2>9, LocateApplies, ApplyingKeeps
    <2>10. CASE /\ h.op \in {"mark", "fade"} /\ engine' = [engine EXCEPT ![k][h.op] = h.value]
                /\ UNCHANGED <<frozen, garbage>>
      BY <2>3, <2>10, SettingApplies, ApplyingKeeps
    <2>12. CASE h.op = "looping" /\ TakeLoop(k, h.value)
      BY <2>3, <2>12, LoopApplies, ApplyingKeeps
    <2>11. CASE h.op = "tempo" /\ UNCHANGED <<engine, frozen, garbage>>
      BY <2>3, <2>11, SettingApplies, ApplyingKeeps
    <2> QED  BY <2>5, <2>6, <2>7, <2>8, <2>9, <2>10, <2>11, <2>12
  <1> QED  BY <1>3, <1>4

\* A place told is not Away.
LEMMA AwayIsNoPlace == Away \notin Values
  BY NoSetContainsEverything DEF Away

\* The audio thread by itself: no transport comes to roll, and one that stops
\* says so.
LEMMA PlayingKeeps ==
    ASSUME MirrorInv, Typed', FrozenGoverned', UNCHANGED <<network, cmds, apart>>,
           \A x : InGarbage(x) => InGarbage(x)',
           \A k \in Transports :
               /\ \A f \in Bindings : engine'[k][f] = engine[k][f]
               /\ \A f \in Settings : Has(engine'[k], f) = Has(engine[k], f)
               /\ PlaceOf(engine'[k]) = PlaceOf(engine[k]) \/ PlaceOf(engine'[k]) = Away
               /\ \/ Going(engine'[k]) = Going(engine[k])
                  \/ Going(engine[k]) = TRUE /\ Going(engine'[k]) = FALSE /\ Ending(k)'
               /\ Ending(k) => Ending(k)'
    PROVE  MirrorInv'
  <1>1. mirror' = mirror /\ cmds' = cmds /\ apart' = apart
    BY DEF network
  <1>2. SettingsTold'
    <2> SUFFICES ASSUME NEW k \in Transports, NEW f \in Settings, NEW g \in Values,
                        Final(cmds, Has(engine'[k], f), k, f, g)
                 PROVE  mirror[k][f] = g
      BY <1>1 DEF SettingsTold, Has
    <2>1. Has(engine'[k], f) = Has(engine[k], f)
      OBVIOUS
    <2>2. Final(cmds, Has(engine[k], f), k, f, g)
      BY <2>1
    <2> QED  BY <2>2 DEF MirrorInv, SettingsTold
  <1>3. GroupsTold'
    <2> SUFFICES ASSUME NEW k \in Transports, NEW f \in Bindings, NEW g \in Values,
                        <<k, f>> \notin apart, Final(cmds, engine'[k][f], k, f, g)
                 PROVE  \/ mirror[k][f] = g
                        \/ g = None /\ InGarbage(<<"freed", mirror[k][f]>>)'
      BY <1>1 DEF GroupsTold
    <2>1. Final(cmds, engine[k][f], k, f, g)
      OBVIOUS
    <2>2. \/ mirror[k][f] = g
          \/ g = None /\ InGarbage(<<"freed", mirror[k][f]>>)
      BY <2>1 DEF MirrorInv, GroupsTold
    <2> QED  BY <1>1, <2>2, StillInGarbage
  <1>4. PlacesTold'
    <2> SUFFICES ASSUME NEW k \in Transports, NEW g \in Values,
                        /\ mirror[k].defined
                        /\ <<k, "located">> \notin apart /\ <<k, "called off">> \notin apart
                        /\ Final(cmds, PlaceOf(engine'[k]), k, "located", g)
                 PROVE  mirror[k].located = g
      BY <1>1 DEF PlacesTold, PlaceOf
    <2>1. Final(cmds, PlaceOf(engine[k]), k, "located", g)
      <3>1. CASE PlaceOf(engine'[k]) = PlaceOf(engine[k])
        BY <3>1
      <3>2. CASE PlaceOf(engine'[k]) = Away
        <4>1. Away # g
          BY AwayIsNoPlace
        <4> QED  BY <3>2, <4>1 DEF Final, Held
      <3> QED  BY <3>1, <3>2
    <2> QED  BY <2>1 DEF MirrorInv, PlacesTold
  <1>5. RunsTold'
    <2> SUFFICES ASSUME NEW k \in Transports, NEW g \in BOOLEAN, <<k, "playing">> \notin apart,
                        Final(cmds, Going(engine'[k]), k, "run", g)
                 PROVE  \/ mirror[k].playing = g
                        \/ /\ mirror[k].playing /\ ~ g /\ Ending(k)'
                           /\ \A i \in DOMAIN cmds : ~ Binds(cmds[i], k, "run")
      BY <1>1 DEF RunsTold, Going
    <2>1. ASSUME Final(cmds, Going(engine[k]), k, "run", g)
          PROVE  \/ mirror[k].playing = g
                 \/ /\ mirror[k].playing /\ ~ g /\ Ending(k)'
                    /\ \A i \in DOMAIN cmds : ~ Binds(cmds[i], k, "run")
      BY <2>1 DEF MirrorInv, RunsTold
    <2>2. CASE Going(engine'[k]) = Going(engine[k])
      BY <2>1, <2>2
    <2>3. CASE Going(engine[k]) = TRUE /\ Going(engine'[k]) = FALSE /\ Ending(k)'
      <3>1. CASE \A j \in 1 .. Len(cmds) : ~ Binds(cmds[j], k, "run")
        <4>1. g = FALSE
          BY <2>3, <3>1 DEF Final, Held
        <4>2. Final(cmds, Going(engine[k]), k, "run", TRUE)
          BY <2>3, <3>1 DEF Final, Held
        <4>3. mirror[k].playing = TRUE
          BY <4>2 DEF MirrorInv, RunsTold
        <4>4. \A i \in DOMAIN cmds : ~ Binds(cmds[i], k, "run")
          <5>1. cmds \in Seq(AnyHalf)
            BY DEF MirrorInv, Typed, AnyHalf
          <5> QED  BY <3>1, <5>1
        <4> QED  BY <2>3, <4>1, <4>3, <4>4
      <3>2. CASE ~ \A j \in 1 .. Len(cmds) : ~ Binds(cmds[j], k, "run")
        <4>1. Final(cmds, Going(engine[k]), k, "run", g)
          BY <3>2 DEF Final, Held
        <4> QED  BY <2>1, <4>1
      <3> QED  BY <3>1, <3>2
    <2> QED  BY <2>2, <2>3
  <1>6. BoundOnce'
    <2>1. \A k \in Transports, f \in Bindings : engine'[k][f] = engine[k][f]
      OBVIOUS
    <2> QED  BY <1>1, <2>1 DEF MirrorInv, BoundOnce, BindingsAgree
  <1> QED  BY <1>2, <1>3, <1>4, <1>5, <1>6 DEF MirrorInv

\* Transport k plays on to its end or comes to it.
LEMMA OnePlays ==
    ASSUME MirrorInv, NEW k \in Transports, UNCHANGED <<network, live, cmds, apart>>,
           engine' \in [Transports -> [EngineFields -> Values]],
           \A j \in Transports, e \in EngineFields :
               j # k \/ e \notin Stopped => engine'[j][e] = engine[j][e],
           PlaceOf(engine'[k]) = PlaceOf(engine[k]) \/ PlaceOf(engine'[k]) = Away,
           Going(engine'[k]) = FALSE,
           Going(engine[k]) = TRUE => Ending(k)',
           Ending(k) => Ending(k)',
           Sound(engine'[k]),
           frozen' \subseteq live, \A g \in frozen' : g \in frozen \/ g = engine[k].group,
           garbage' \in Seq(Return), \A x : InGarbage(x) => InGarbage(x)'
    PROVE  MirrorInv'
  <1>1. ASSUME NEW j \in Transports, j # k PROVE engine'[j] = engine[j]
    <2>1. \A e \in EngineFields : engine'[j][e] = engine[j][e]
      BY <1>1
    <2> QED  BY <2>1, RecordsAlike
  <1>2. Typed'
    <2>1. ASSUME NEW j \in Transports PROVE Sound(engine'[j])
      <3>1. CASE j = k
        BY <3>1
      <3>2. CASE j # k
        BY <1>1, <3>2 DEF MirrorInv, Typed
      <3> QED  BY <3>1, <3>2
    <2>2. /\ mirror' \in [Transports -> [MirrorFields -> Values]] /\ live' \subseteq GroupIds
          /\ cmds' \in Seq(TransportHalf \cup TreeHalf) /\ Len(cmds') <= FifoSize
          /\ \A j \in Transports : mirror'[j].playing \in BOOLEAN
      BY DEF MirrorInv, Typed, network
    <2>3. \A j \in Transports : Sound(engine[j])'
      BY <2>1 DEF Sound
    <2> QED  BY <2>2, <2>3 DEF Typed
  <1>3. FrozenGoverned'
    <2>1. \A j \in Transports : engine'[j].group = engine[j].group
      BY FieldTypes DEF Stopped
    <2> QED  BY <2>1, StillGoverned
  <1>4. ASSUME NEW j \in Transports
        PROVE  /\ \A f \in Bindings : engine'[j][f] = engine[j][f]
               /\ \A f \in Settings : Has(engine'[j], f) = Has(engine[j], f)
               /\ PlaceOf(engine'[j]) = PlaceOf(engine[j]) \/ PlaceOf(engine'[j]) = Away
               /\ \/ Going(engine'[j]) = Going(engine[j])
                  \/ Going(engine[j]) = TRUE /\ Going(engine'[j]) = FALSE /\ Ending(j)'
               /\ Ending(j) => Ending(j)'
    <2>1. CASE j = k
      <3>1. Going(engine[k]) = TRUE \/ Going(engine[k]) = FALSE
        BY DEF Going
      <3>2. \A f \in Bindings : engine'[j][f] = engine[j][f]
        BY <2>1, FieldTypes
      <3>3. /\ engine'[k].asked = engine[k].asked /\ engine'[k].mark = engine[k].mark
            /\ engine'[k].fade = engine[k].fade
        BY FieldTypes DEF Stopped
      <3>4. \A f \in Settings : Has(engine'[j], f) = Has(engine[j], f)
        BY <2>1, <3>3, HasAlike
      <3> QED  BY <2>1, <3>1, <3>2, <3>4
    <2>2. CASE j # k
      <3>1. Ending(j) => Ending(j)'
        BY <1>1, <2>2 DEF Ending
      <3> QED  BY <1>1, <2>2, <3>1
    <2> QED  BY <2>1, <2>2
  <1> QED  BY <1>2, <1>3, <1>4, PlayingKeeps

\* A stop by itself, if it is told where the transport was to go on.
LEMMA FreezeKeeps ==
    ASSUME MirrorInv, NEW k \in Transports, NEW ended, ended \in {TRUE, FALSE},
           NEW return \in Values, Freeze(k, ended, engine[k].back, return),
           Going(engine[k]) = TRUE \/ engine[k].stopping = "end" => ended = TRUE,
           UNCHANGED <<network, live, cmds, apart>>
    PROVE  MirrorInv'
  <1>1. /\ engine' \in [Transports -> [EngineFields -> Values]]
        /\ \A j \in Transports, e \in EngineFields :
               j # k \/ e \notin Stopped => engine'[j][e] = engine[j][e]
        /\ Sound(engine'[k]) /\ Going(engine'[k]) = FALSE
        /\ PlaceOf(engine'[k]) = PlaceOf(engine[k]) \/ PlaceOf(engine'[k]) = Away
        /\ frozen' \subseteq live
        /\ \A g \in frozen' : g \in frozen \/ g = engine[k].group
    BY FreezeDoes
  <1>2. /\ garbage' \in Seq(Return) /\ \A x : InGarbage(x) => InGarbage(x)'
        /\ ended = TRUE => InGarbage(<<"ended", k>>)'
    <2>1. CASE ended = TRUE
      <3>1. garbage' = Append(garbage, <<"ended", k>>)
        BY <2>1 DEF Freeze
      <3>2. <<"ended", k>> \in Return
        BY DEF Return
      <3> QED  BY <3>1, <3>2, GarbageGrows
    <2>2. CASE ended = FALSE
      <3>1. garbage' = garbage
        BY <2>2 DEF Freeze
      <3> QED  BY <2>2, <3>1 DEF MirrorInv, Typed, InGarbage
    <2> QED  BY <2>1, <2>2
  <1>3. ended = TRUE => Ending(k)'
    BY <1>2 DEF Ending
  <1>4. Ending(k) => Ending(k)'
    BY <1>2, <1>3 DEF Ending
  <1>5. Going(engine[k]) = TRUE => Ending(k)'
    BY <1>3
  <1> QED  BY <1>1, <1>2, <1>4, <1>5, OnePlays

\* EndMark: it stops, or starts to, and says so.
LEMMA EndMarkKeeps ==
    ASSUME MirrorInv, NEW k \in Transports, EndMark(k)
    PROVE  MirrorInv'
  <1>1. engine[k].stopping = None /\ engine[k].mark # None /\ UNCHANGED <<network, live, cmds, apart>>
    BY DEF EndMark
  <1> DEFINE return == engine[k].mark.back
  <1>2. return \in Values /\ engine[k].back = None
    <2>1. Sound(engine[k])
      BY DEF MirrorInv, Typed
    <2>2. engine[k].mark \in [back : Places \cup {None}]
      BY <1>1, <2>1 DEF Sound, Marks
    <2> QED  BY <1>1, <2>1, <2>2 DEF Sound, Values
  <1>3. Freeze(k, TRUE, None, return) \/ Ramp(k, "end", return)
    BY DEF EndMark
  <1> HIDE DEF return
  <1>4. CASE Freeze(k, TRUE, None, return)
    <2>1. TRUE \in {TRUE, FALSE} /\ TRUE = TRUE
      OBVIOUS
    <2>2. Freeze(k, TRUE, engine[k].back, return)
      BY <1>2, <1>4
    <2> QED  BY <1>1, <1>2, <2>1, <2>2, FreezeKeeps
  <1>5. CASE Ramp(k, "end", return)
    <2>1. "end" \in {"stop", "end"}
      OBVIOUS
    <2>2. /\ engine' \in [Transports -> [EngineFields -> Values]]
          /\ \A j \in Transports, e \in EngineFields :
                 j # k \/ e \notin Stopped => engine'[j][e] = engine[j][e]
          /\ engine'[k].stopping = "end"
          /\ Sound(engine'[k]) /\ Going(engine'[k]) = FALSE
          /\ PlaceOf(engine'[k]) = PlaceOf(engine[k])
          /\ frozen' = frozen /\ garbage' = garbage
      BY <1>2, <1>5, <2>1, RampDoes
    <2>3. Ending(k)'
      BY <2>2 DEF Ending
    <2>4. /\ garbage' \in Seq(Return) /\ frozen' \subseteq live
          /\ \A x : InGarbage(x) => InGarbage(x)'
      BY <2>2 DEF MirrorInv, Typed, InGarbage
    <2> QED  BY <1>1, <2>2, <2>3, <2>4, OnePlays
  <1> QED  BY <1>3, <1>4, <1>5

\* RampDone: it has stopped, and says so if it was on its mark.
LEMMA RampDoneKeeps ==
    ASSUME MirrorInv, NEW k \in Transports, RampDone(k)
    PROVE  MirrorInv'
  <1>1. engine[k].stopping # None /\ UNCHANGED <<network, live, cmds, apart>>
    BY DEF RampDone
  <1>2. PICK ended : ended = (engine[k].stopping = "end") /\ ended \in {TRUE, FALSE}
    OBVIOUS
  <1>3. engine[k].return \in Values
    <2>1. engine[k]["return"] \in Values
      BY FieldTypes DEF MirrorInv, Typed, Stopped
    <2> QED  BY <2>1
  <1>4. Freeze(k, ended, engine[k].back, engine[k].return)
    BY <1>2 DEF RampDone
  <1>5. Going(engine[k]) = FALSE
    BY <1>1 DEF Going
  <1>6. engine[k].stopping = "end" => ended = TRUE
    BY <1>2
  <1> QED  BY <1>1, <1>2, <1>3, <1>4, <1>5, <1>6, FreezeKeeps

\* LoopLands: what was asked for is in force, and what is told was asked for.
LEMMA LoopLandsKeeps ==
    ASSUME MirrorInv, NEW k \in Transports, LoopLands(k)
    PROVE  MirrorInv'
  <1>1. /\ engine' = [engine EXCEPT ![k].looping = engine[k].asked]
        /\ UNCHANGED <<network, live, frozen, cmds, garbage, apart>>
    BY DEF LoopLands
  <1>2. engine \in [Transports -> [EngineFields -> Values]]
    BY DEF MirrorInv, Typed
  <1>3. "looping" \in EngineFields /\ "looping" \notin Stopped \cup Bindings \cup {"asked", "mark", "fade"}
    BY FieldTypes DEF Stopped, Bindings
  <1>4. engine[k]["asked"] \in Values
    BY <1>2, FieldTypes
  <1>5. /\ engine' \in [Transports -> [EngineFields -> Values]]
        /\ \A j \in Transports, e \in EngineFields : j # k \/ e # "looping" => engine'[j][e] = engine[j][e]
    BY <1>1, <1>2, <1>3, <1>4, FieldSet
  <1>6. ASSUME NEW j \in Transports
        PROVE  /\ engine'[j].rolling = engine[j].rolling /\ engine'[j].stopping = engine[j].stopping
               /\ engine'[j].back = engine[j].back /\ engine'[j].located = engine[j].located
               /\ engine'[j].return = engine[j].return /\ engine'[j].returned = engine[j].returned
               /\ engine'[j].mark = engine[j].mark /\ engine'[j].asked = engine[j].asked
               /\ engine'[j].fade = engine[j].fade /\ engine'[j].group = engine[j].group
    BY <1>5, FieldTypes DEF Stopped
  <1>7. Typed'
    <2>1. \A j \in Transports : Sound(engine[j])'
      BY <1>6 DEF MirrorInv, Typed, Sound
    <2>2. /\ mirror' = mirror /\ cmds' = cmds /\ garbage' = garbage /\ live' = live /\ frozen' = frozen
      BY <1>1 DEF network
    <2> QED  BY <1>5, <2>1, <2>2 DEF MirrorInv, Typed
  <1>8. FrozenGoverned'
    BY <1>1, <1>6 DEF MirrorInv, FrozenGoverned
  <1>9. \A x : InGarbage(x) => InGarbage(x)'
    BY <1>1 DEF InGarbage
  <1>10. ASSUME NEW j \in Transports
         PROVE  /\ \A f \in Bindings : engine'[j][f] = engine[j][f]
                /\ \A f \in Settings : Has(engine'[j], f) = Has(engine[j], f)
                /\ PlaceOf(engine'[j]) = PlaceOf(engine[j])
                /\ Going(engine'[j]) = Going(engine[j])
                /\ Ending(j) => Ending(j)'
    <2>1. \A f \in Bindings : engine'[j][f] = engine[j][f]
      BY <1>3, <1>5, FieldTypes
    <2>2. \A f \in Settings : Has(engine'[j], f) = Has(engine[j], f)
      BY <1>6, HasAlike
    <2>3. PlaceOf(engine'[j]) = PlaceOf(engine[j]) /\ Going(engine'[j]) = Going(engine[j])
      BY <1>6 DEF PlaceOf, Going
    <2>4. Ending(j) => Ending(j)'
      BY <1>6, <1>9 DEF Ending
    <2> QED  BY <2>1, <2>2, <2>3, <2>4
  <1> QED  BY <1>1, <1>7, <1>8, <1>9, <1>10, PlayingKeeps

\* DoneAction: the death is on its way to the mirror.
LEMMA DoneActionKeeps ==
    ASSUME MirrorInv, NEW g \in GroupIds, DoneAction(g)
    PROVE  MirrorInv'
  <1>1. /\ g \in live /\ Dies(g) /\ mirror' = mirror /\ engine' = engine /\ cmds' = cmds
        /\ apart' = apart /\ UNCHANGED network
    BY DEF DoneAction, network
  <1>2. <<"freed", g>> \in Return /\ garbage' = Append(garbage, <<"freed", g>>)
    BY <1>1 DEF Return, Dies
  <1>3. garbage' \in Seq(Return) /\ \A x : InGarbage(x) => InGarbage(x)'
    BY <1>2, GarbageGrows
  <1>4. Typed' /\ FrozenGoverned'
    <2>1. live' = live \ {g} /\ frozen' = frozen \ {g}
      BY <1>1 DEF Dies
    <2>2. Typed'
      BY <1>1, <1>3, <2>1 DEF MirrorInv, Typed
    <2> QED  BY <1>1, <2>1, <2>2 DEF MirrorInv, FrozenGoverned
  <1>5. \A k \in Transports : Ending(k) => Ending(k)'
    BY <1>1, <1>3 DEF Ending
  <1> QED  BY <1>1, <1>3, <1>4, <1>5, PlayingKeeps

-----------------------------------------------------------------------------
(* Collecting.                                                               *)

\* SetToSeq of a finite set is a sequence of it that leaves nothing out.
LEMMA SetToSeqIs ==
    ASSUME NEW S, IsFiniteSet(S)
    PROVE  /\ SetToSeq(S) \in Seq(S)
           /\ \A x \in S : \E i \in 1 .. Len(SetToSeq(S)) : SetToSeq(S)[i] = x
  <1> DEFINE n == Cardinality(S)
             s == SetToSeq(S)
  <1>1. n \in Nat /\ ExistsBijection(1 .. n, S)
    BY FS_CardinalityType
  <1>2. \E f \in [1 .. n -> S] : IsInjective(f)
    BY <1>1 DEF ExistsBijection, Bijection, Injection
  <1>3. s \in [1 .. n -> S] /\ IsInjective(s)
    BY <1>2 DEF SetToSeq
  <1> HIDE DEF s
  <1>4. s \in Injection(1 .. n, S)
    BY <1>3 DEF Injection
  <1>5. IsFiniteSet(1 .. n) /\ Cardinality(1 .. n) = n
    BY <1>1, FS_Interval
  <1>6. s \in Surjection(1 .. n, S)
    BY <1>4, <1>5, FS_Injection
  <1> HIDE DEF n
  <1>7. s \in Seq(S) /\ Len(s) = n
    BY <1>1, <1>3
  <1>8. \A x \in S : \E i \in 1 .. n : s[i] = x
    BY <1>6 DEF Surjection
  <1> QED  BY <1>7, <1>8 DEF s

\* A sequence of a part is a sequence of the whole.
LEMMA PartOfSeq ==
    ASSUME NEW S, NEW T, \A x \in S : x \in T, NEW s \in Seq(S)
    PROVE  s \in Seq(T) /\ \A i \in 1 .. Len(s) : s[i] \in S
  <1>1. Len(s) \in Nat /\ \A i \in 1 .. Len(s) : s[i] \in S
    OBVIOUS
  <1>2. s = [i \in 1 .. Len(s) |-> s[i]]
    OBVIOUS
  <1> QED  BY <1>1, <1>2

\* The halves that unbind the transports of H.
Unbinding(H, f) == {Half(k, f, None) : k \in H}

\* Sequence s unbinds the f of every one of them and nothing else.
Unbinds(s, H, f) ==
    /\ s \in Seq(AnyHalf)
    /\ \A i \in 1 .. Len(s) : s[i].op = f /\ s[i].value = None /\ s[i].transport \in H
    /\ \A k \in H : \E i \in 1 .. Len(s) : Binds(s[i], k, f)

\* They are sent for every one of them, and bind nothing.
LEMMA UnbindingHalves ==
    ASSUME NEW H \in SUBSET Transports, NEW f \in Bindings,
           NEW s, s = SetToSeq(Unbinding(H, f))
    PROVE  Unbinds(s, H, f)
  <1> DEFINE S == Unbinding(H, f)
             m == [k \in H |-> Half(k, f, None)]
  <1>1. IsFiniteSet(H)
    BY FS_Subset, TransportMirrorAssumption
  <1>2. m \in Surjection(H, S)
    BY DEF Surjection, Unbinding
  <1>3. IsFiniteSet(S)
    BY <1>1, <1>2, FS_Surjection
  <1>4. \A x \in S : x \in AnyHalf /\ x.op = f /\ x.value = None /\ x.transport \in H
    <2>1. None \in Values
      BY DEF Values
    <2>2. ASSUME NEW k \in H PROVE Half(k, f, None) \in AnyHalf
      BY <2>1 DEF Half, AnyHalf, TransportHalf, OtherHalves, Settings, Bindings
    <2> QED  BY <2>2 DEF Half, Unbinding
  <1>5. \A k \in H : Half(k, f, None) \in S /\ Binds(Half(k, f, None), k, f)
    BY DEF Half, Binds, Unbinding
  <1> HIDE DEF S, m
  <1>6. \A x \in S : \E i \in 1 .. Len(s) : s[i] = x
    BY <1>3, SetToSeqIs DEF S
  <1>8. s \in Seq(S)
    BY <1>3, SetToSeqIs DEF S
  <1>7. s \in Seq(AnyHalf) /\ \A i \in 1 .. Len(s) : s[i] \in S
    BY <1>4, <1>8, PartOfSeq
  <1> QED  BY <1>4, <1>5, <1>6, <1>7 DEF Unbinds

\* What is collected is gone from the garbage, and nothing else.
LEMMA GarbageShrinks ==
    ASSUME MirrorInv, garbage # << >>, garbage' = Tail(garbage)
    PROVE  /\ garbage' \in Seq(Return) /\ Head(garbage) \in Return
           /\ \A x : x # Head(garbage) /\ InGarbage(x) => InGarbage(x)'
  <1>1. garbage \in Seq(Return)
    BY DEF MirrorInv, Typed
  <1>2. garbage' \in Seq(Return) /\ Head(garbage) \in Return /\ Head(garbage) = garbage[1]
    BY <1>1
  <1>3. ASSUME NEW x, x # Head(garbage), InGarbage(x) PROVE InGarbage(x)'
    <2>1. PICK i \in DOMAIN garbage : garbage[i] = x
      BY <1>3 DEF InGarbage
    <2>2. i # 1
      BY <1>2, <1>3, <2>1
    <2>3. i - 1 \in DOMAIN Tail(garbage) /\ Tail(garbage)[i - 1] = garbage[i]
      BY <1>1, <2>1, <2>2
    <2>4. \E j \in DOMAIN garbage' : garbage'[j] = x
      BY <2>1, <2>3
    <2> QED  BY <2>4 DEF InGarbage
  <1> QED  BY <1>2, <1>3

\* Ended: the mirror has the transport stopped, as it was going to be, or it is
\* apart.
LEMMA EndedKeeps ==
    ASSUME MirrorInv, NEW k \in Transports, garbage # << >>, Head(garbage) = <<"ended", k>>,
           garbage' = Tail(garbage), Ended(k), UNCHANGED audio
    PROVE  MirrorInv'
  <1> DEFINE s == << >>
  <1>1. cmds \in Seq(AnyHalf) /\ Len(cmds) <= FifoSize
    BY DEF MirrorInv, Typed, AnyHalf
  <1>2. s \in Seq(AnyHalf) /\ cmds' = cmds \o s /\ Len(cmds') <= FifoSize /\ Len(s) = 0
    BY <1>1 DEF Ended
  <1> HIDE DEF s
  <1>3. \A j, f : Silent(s, j, f)
    BY <1>2 DEF Silent
  <1>4. /\ mirror' \in [Transports -> [MirrorFields -> Values]] /\ mirror'[k]["playing"] = FALSE
        /\ \A j \in Transports, e \in MirrorFields :
               j # k \/ e # "playing" => mirror'[j][e] = mirror[j][e]
    <2>1. "playing" \in MirrorFields /\ FALSE \in Values
      BY DEF MirrorFields, Values
    <2>2. mirror \in [Transports -> [MirrorFields -> Values]]
      BY DEF MirrorInv, Typed
    <2>3. mirror' = [mirror EXCEPT ![k].playing = FALSE]
      BY DEF Ended
    <2> QED  BY <2>1, <2>2, <2>3
  <1>5. Settings \cup Bindings \cup {"located", "defined", "playing"} \subseteq MirrorFields
        /\ "playing" \notin Settings \cup Bindings \cup {"located", "defined"}
    BY DEF Settings, Bindings, MirrorFields
  <1>6. /\ garbage' \in Seq(Return)
        /\ \A x : x # <<"ended", k>> /\ InGarbage(x) => InGarbage(x)'
    BY GarbageShrinks
  <1>7. apart \subseteq apart' /\ (<<k, "playing">> \notin apart' => ~ Heading(k))
    BY DEF Ended, Apart
  <1>8. Sends(s)
    <2>1. ASSUME NEW j \in Transports
          PROVE  /\ mirror'[j].playing \in BOOLEAN
                 /\ mirror'[j].located = mirror[j].located /\ mirror'[j].defined = mirror[j].defined
      <3>1. mirror'[j].located = mirror[j].located /\ mirror'[j].defined = mirror[j].defined
        BY <1>4, <1>5
      <3>2. CASE j = k
        BY <1>4, <3>1, <3>2
      <3>3. CASE j # k
        BY <1>4, <1>5, <3>1, <3>3 DEF MirrorInv, Typed
      <3> QED  BY <3>2, <3>3
    <2>2. \A j \in Transports : Says(s, j, "located", mirror[j].located, mirror'[j].located)
      BY <1>3, <2>1 DEF Says
    <2>3. ASSUME NEW j \in Transports, <<j, "playing">> \notin apart'
          PROVE  \/ Says(s, j, "run", mirror[j].playing, mirror'[j].playing)
                 \/ /\ Silent(s, j, "run")
                    /\ \A g \in BOOLEAN :
                           Final(cmds, Going(engine[j]), j, "run", g) => mirror'[j].playing = g
      <3>1. CASE j = k
        <4>1. ASSUME NEW g \in BOOLEAN, Final(cmds, Going(engine[j]), j, "run", g)
              PROVE  mirror'[j].playing = g
          <5>1. g = Heading(k)
            BY <3>1, <4>1, HeadingIsFinal DEF MirrorInv
          <5>2. g = FALSE
            BY <1>7, <2>3, <3>1, <5>1
          <5> QED  BY <1>4, <3>1, <5>2
        <4> QED  BY <1>3, <4>1
      <3>2. CASE j # k
        BY <1>3, <1>4, <1>5, <3>2 DEF Says
      <3> QED  BY <3>1, <3>2
    <2>4. ASSUME NEW j \in Transports, mirror'[j].defined
          PROVE  mirror[j].defined
      BY <2>1, <2>4
    <2> QED  BY <1>2, <1>4, <1>7, <2>1, <2>2, <2>3, <2>4 DEF Sends
  <1>9. \A j \in Transports, f \in Settings \cup Bindings : Says(s, j, f, mirror[j][f], mirror'[j][f])
    BY <1>3, <1>4, <1>5 DEF Says
  <1>10. EndingStays
    <2> SUFFICES ASSUME NEW j \in Transports, mirror'[j].playing = TRUE, Ending(j) PROVE Ending(j)'
      <3>1. \A j \in Transports : mirror'[j].playing \in BOOLEAN
        BY <1>8 DEF Sends
      <3> QED  BY <3>1 DEF EndingStays
    <2>1. j # k
      BY <1>4
    <2>2. InGarbage(<<"ended", j>>) => InGarbage(<<"ended", j>>)'
      BY <1>6, <2>1
    <2> QED  BY <2>2 DEF Ending, audio
  <1>11. \A x : InGarbage(<<"freed", x>>) => InGarbage(<<"freed", x>>)'
    BY <1>6
  <1>12. PlacesTold' /\ RunsTold' /\ FrozenGoverned' /\ Typed'
    BY <1>2, <1>6, <1>8, <1>10, SendingTells
  <1>13. SettingsTold' /\ GroupsTold'
    BY <1>2, <1>8, <1>9, <1>11, SendingTellsSettings, SendingTellsGroups
  <1>14. BoundOnce'
    <2>1. \A j \in Transports, f \in Bindings, i \in 1 .. Len(s) :
               Binds(s[i], j, f) /\ s[i].value # None => Len(s) = 1 /\ FreeFor(j, f, s[i].value)
      BY <1>3 DEF Silent
    <2> QED  BY <1>2, <1>7, <2>1, SendingBindsOnce DEF audio
  <1> QED  BY <1>12, <1>13, <1>14 DEF MirrorInv

\* A mirror without a group.
LEMMA UnboundIs ==
    ASSUME NEW t \in [MirrorFields -> Values], NEW g
    PROVE  /\ Unbound(t, g) \in [MirrorFields -> Values]
           /\ \A f \in Bindings : Unbound(t, g)[f] = IF t[f] = g THEN None ELSE t[f]
           /\ \A f \in MirrorFields \ Bindings : Unbound(t, g)[f] = t[f]
  <1>1. None \in Values
    BY DEF Values
  <1>2. "group" \in MirrorFields /\ "follow" \in MirrorFields
    BY DEF MirrorFields
  <1>3. t["group"] \in Values /\ t["follow"] \in Values
    BY <1>2
  <1>4. PICK a \in Values : a = (IF t.group = g THEN None ELSE t.group)
    BY <1>1, <1>3
  <1>5. PICK b \in Values : b = (IF t.follow = g THEN None ELSE t.follow)
    BY <1>1, <1>3
  <1>6. Unbound(t, g) = [t EXCEPT !.group = a, !.follow = b]
    BY <1>4, <1>5 DEF Unbound
  <1> QED  BY <1>2, <1>4, <1>5, <1>6 DEF Bindings

\* The halves of a freed group are in the FIFO, or what they unbind is apart.
LEMMA FreedSends ==
    ASSUME MirrorInv, NEW g \in GroupIds, Freed(g)
    PROVE  \E s \in Seq(AnyHalf) :
             /\ cmds' = cmds \o s /\ Len(cmds') <= FifoSize /\ apart \subseteq apart'
             /\ \A i \in 1 .. Len(s) : s[i].op \in Bindings /\ s[i].value = None
                                       /\ mirror[s[i].transport][s[i].op] = g
             /\ \A k \in Transports, f \in Bindings :
                    mirror[k][f] = g /\ <<k, f>> \notin apart' => ~ Silent(s, k, f)
  <1> DEFINE H == {k \in Transports : mirror[k]["group"] = g}
             F == {k \in Transports : mirror[k]["follow"] = g}
  <1>0. H \in SUBSET Transports /\ F \in SUBSET Transports /\ "group" \in Bindings /\ "follow" \in Bindings
    BY DEF Bindings
  <1>1. PICK a : a = SetToSeq(Unbinding(H, "group"))
    OBVIOUS
  <1>2. PICK b : b = SetToSeq(Unbinding(F, "follow"))
    OBVIOUS
  <1> DEFINE halves == a \o b
  <1>3. /\ cmds' = cmds \o SubSeq(halves, 1, IF Fits(halves) THEN Len(halves) ELSE Room)
        /\ apart' = IF Fits(halves) THEN apart
                    ELSE apart \cup {<<halves[i].transport, halves[i].op>> : i \in DOMAIN halves}
    BY <1>1, <1>2 DEF Freed, Unbinding
  <1> HIDE DEF H, F
  <1>4. /\ a \in Seq(AnyHalf)
        /\ \A i \in 1 .. Len(a) : a[i].op = "group" /\ a[i].value = None /\ a[i].transport \in H
        /\ \A k \in H : \E i \in 1 .. Len(a) : Binds(a[i], k, "group")
    <2>1. Unbinds(a, H, "group")
      BY <1>0, <1>1, UnbindingHalves, Zenon
    <2> QED  BY <2>1 DEF Unbinds
  <1>5. /\ b \in Seq(AnyHalf)
        /\ \A i \in 1 .. Len(b) : b[i].op = "follow" /\ b[i].value = None /\ b[i].transport \in F
        /\ \A k \in F : \E i \in 1 .. Len(b) : Binds(b[i], k, "follow")
    <2>1. Unbinds(b, F, "follow")
      BY <1>0, <1>2, UnbindingHalves, Zenon
    <2> QED  BY <2>1 DEF Unbinds
  <1>6. /\ halves \in Seq(AnyHalf) /\ DOMAIN halves = 1 .. Len(halves)
        /\ Len(halves) = Len(a) + Len(b) /\ Len(a) \in Nat /\ Len(b) \in Nat
        /\ \A i \in 1 .. Len(a) : halves[i] = a[i]
        /\ \A i \in 1 .. Len(b) : halves[Len(a) + i] = b[i]
    BY <1>4, <1>5
  <1> HIDE DEF halves
  <1>7. \A i \in 1 .. Len(halves) : i \in 1 .. Len(a) \/ (i - Len(a) \in 1 .. Len(b) /\ i = Len(a) + (i - Len(a)))
    BY <1>6
  <1>8. ASSUME NEW i \in 1 .. Len(halves)
        PROVE  halves[i].op \in Bindings /\ halves[i].value = None /\ mirror[halves[i].transport][halves[i].op] = g
    <2>1. CASE i \in 1 .. Len(a)
      BY <1>4, <1>6, <2>1 DEF Bindings, H
    <2>2. CASE i - Len(a) \in 1 .. Len(b) /\ i = Len(a) + (i - Len(a))
      <3>1. halves[i] = b[i - Len(a)]
        BY <1>6, <2>2
      <3> QED  BY <1>5, <2>2, <3>1 DEF Bindings, F
    <2> QED  BY <1>7, <2>1, <2>2
  <1>9. ASSUME NEW k \in Transports, NEW f \in Bindings, mirror[k][f] = g
        PROVE  \E i \in 1 .. Len(halves) : Binds(halves[i], k, f)
    <2>1. CASE f = "group"
      <3>1. PICK i \in 1 .. Len(a) : Binds(a[i], k, "group")
        BY <1>4, <1>9, <2>1 DEF H
      <3>2. i \in 1 .. Len(halves) /\ halves[i] = a[i]
        BY <1>6
      <3> QED  BY <2>1, <3>1, <3>2
    <2>2. CASE f = "follow"
      <3>1. PICK i \in 1 .. Len(b) : Binds(b[i], k, "follow")
        BY <1>5, <1>9, <2>2 DEF F
      <3>2. Len(a) + i \in 1 .. Len(halves) /\ halves[Len(a) + i] = b[i]
        BY <1>6
      <3> QED  BY <2>2, <3>1, <3>2
    <2> QED  BY <2>1, <2>2 DEF Bindings
  <1>10. PICK s \in Seq(AnyHalf) :
             /\ cmds' = cmds \o s /\ Len(cmds') <= FifoSize
             /\ Len(s) <= Len(halves) /\ \A i \in 1 .. Len(s) : s[i] = halves[i]
             /\ Fits(halves) => s = halves
    BY <1>3, <1>6, Sending
  <1>11. \A i \in 1 .. Len(s) : i \in 1 .. Len(halves)
    <2>1. Len(s) \in Nat /\ Len(halves) \in Nat
      BY <1>6
    <2> QED  BY <1>10, <2>1
  <1>12. \A i \in 1 .. Len(s) : s[i].op \in Bindings /\ s[i].value = None
                                /\ mirror[s[i].transport][s[i].op] = g
    BY <1>8, <1>10, <1>11
  <1>13. ASSUME NEW k \in Transports, NEW f \in Bindings, mirror[k][f] = g, <<k, f>> \notin apart'
         PROVE  ~ Silent(s, k, f)
    <2>1. PICK i \in 1 .. Len(halves) : Binds(halves[i], k, f)
      BY <1>9, <1>13
    <2>2. Fits(halves)
      <3>1. <<halves[i].transport, halves[i].op>> = <<k, f>>
        BY <2>1 DEF Binds
      <3>2. i \in DOMAIN halves
        BY <1>6
      <3> QED  BY <1>3, <1>13, <3>1, <3>2
    <2> QED  BY <1>10, <2>1, <2>2 DEF Silent
  <1>14. apart \subseteq apart'
    BY <1>3
  <1> QED  BY <1>10, <1>12, <1>13, <1>14

\* Freed: every binding to the group is let go on both sides, or apart.
LEMMA FreedKeeps ==
    ASSUME MirrorInv, NEW g \in GroupIds, garbage # << >>, Head(garbage) = <<"freed", g>>,
           garbage' = Tail(garbage), Freed(g), UNCHANGED audio
    PROVE  MirrorInv'
  <1>1. PICK s \in Seq(AnyHalf) :
             /\ cmds' = cmds \o s /\ Len(cmds') <= FifoSize /\ apart \subseteq apart'
             /\ \A i \in 1 .. Len(s) : s[i].op \in Bindings /\ s[i].value = None
                                       /\ mirror[s[i].transport][s[i].op] = g
             /\ \A k \in Transports, f \in Bindings :
                    mirror[k][f] = g /\ <<k, f>> \notin apart' => ~ Silent(s, k, f)
    BY FreedSends, Zenon
  <1>2. /\ g # None /\ None \in Values
        /\ Bindings \subseteq MirrorFields
        /\ Settings \cup {"located", "defined", "playing"} \subseteq MirrorFields \ Bindings
        /\ {"located", "run"} \cap Bindings = {} /\ Settings \cap Bindings = {}
    BY TransportMirrorAssumption DEF Values, Bindings, MirrorFields, Settings
  <1>3. \A k, f : f \notin Bindings => Silent(s, k, f)
    BY <1>1 DEF Silent, Binds
  <1>4. \A k, f : mirror[k][f] # g => Silent(s, k, f)
    BY <1>1 DEF Silent, Binds
  <1>5. /\ mirror' \in [Transports -> [MirrorFields -> Values]]
        /\ \A k \in Transports, f \in MirrorFields \ Bindings : mirror'[k][f] = mirror[k][f]
        /\ \A k \in Transports, f \in Bindings :
               mirror'[k][f] = IF mirror[k][f] = g THEN None ELSE mirror[k][f]
    <2>1. mirror \in [Transports -> [MirrorFields -> Values]]
      BY DEF MirrorInv, Typed
    <2>2. mirror' = [k \in Transports |-> Unbound(mirror[k], g)]
      BY DEF Freed
    <2>3. ASSUME NEW k \in Transports
          PROVE  /\ mirror'[k] \in [MirrorFields -> Values]
                 /\ \A f \in Bindings : mirror'[k][f] = IF mirror[k][f] = g THEN None ELSE mirror[k][f]
                 /\ \A f \in MirrorFields \ Bindings : mirror'[k][f] = mirror[k][f]
      <3>1. mirror[k] \in [MirrorFields -> Values] /\ mirror'[k] = Unbound(mirror[k], g)
        BY <2>1, <2>2
      <3> QED  BY <3>1, UnboundIs
    <2> QED  BY <2>2, <2>3
  <1>6. /\ garbage' \in Seq(Return)
        /\ \A x : x # <<"freed", g>> /\ InGarbage(x) => InGarbage(x)'
    BY GarbageShrinks
  <1>7. Sends(s)
    <2>1. ASSUME NEW k \in Transports
          PROVE  /\ mirror'[k].playing \in BOOLEAN /\ mirror'[k].playing = mirror[k].playing
                 /\ mirror'[k].located = mirror[k].located /\ mirror'[k].defined = mirror[k].defined
      <3>1. mirror[k].playing \in BOOLEAN
        BY DEF MirrorInv, Typed
      <3>2. mirror'[k].playing = mirror[k].playing
        BY <1>2, <1>5
      <3>3. mirror'[k].located = mirror[k].located /\ mirror'[k].defined = mirror[k].defined
        BY <1>2, <1>5
      <3> QED  BY <3>1, <3>2, <3>3
    <2>2. \A k \in Transports : Says(s, k, "located", mirror[k].located, mirror'[k].located)
      BY <1>2, <1>3, <2>1 DEF Says
    <2>3. \A k \in Transports : Says(s, k, "run", mirror[k].playing, mirror'[k].playing)
      BY <1>2, <1>3, <2>1 DEF Says
    <2>4. ASSUME NEW k \in Transports, mirror'[k].defined PROVE mirror[k].defined
      BY <2>1, <2>4
    <2> QED  BY <1>1, <1>5, <2>1, <2>2, <2>3, <2>4 DEF Sends
  <1>8. \A k \in Transports, f \in Settings : Says(s, k, f, mirror[k][f], mirror'[k][f])
    BY <1>2, <1>3, <1>5 DEF Says
  <1>9. EndingStays
    <2> SUFFICES ASSUME NEW k \in Transports, Ending(k) PROVE Ending(k)'
      BY DEF EndingStays
    <2>1. InGarbage(<<"ended", k>>) => InGarbage(<<"ended", k>>)'
      <3>1. <<"ended", k>> # <<"freed", g>>
        OBVIOUS
      <3> QED  BY <1>6, <3>1
    <2> QED  BY <2>1 DEF Ending, audio
  <1>10. PlacesTold' /\ RunsTold' /\ FrozenGoverned' /\ Typed'
    BY <1>6, <1>7, <1>9, SendingTells
  <1>11. SettingsTold'
    BY <1>7, <1>8, SendingTellsSettings
  <1>12. GroupsTold'
    <2>1. cmds \in Seq(AnyHalf)
      BY DEF MirrorInv, Typed, AnyHalf
    <2>2. ASSUME NEW k \in Transports, NEW f \in Bindings, NEW v \in Values, <<k, f>> \notin apart',
                 Final(cmds \o s, engine[k][f], k, f, v)
          PROVE  \/ mirror'[k][f] = v
                 \/ v = None /\ InGarbage(<<"freed", mirror[k][f]>>) /\ mirror[k][f] # g
                    /\ mirror'[k][f] = mirror[k][f]
      <3>1. \/ \E i \in 1 .. Len(s) : Binds(s[i], k, f) /\ s[i].value = v
            \/ Final(cmds, engine[k][f], k, f, v) /\ Silent(s, k, f)
        BY <2>1, <2>2, FinalSent, Zenon
      <3>2. CASE mirror[k][f] = g
        <4>1. ~ Silent(s, k, f)
          BY <1>1, <2>2, <3>2
        <4>2. v = None
          BY <1>1, <3>1, <4>1
        <4> QED  BY <1>5, <3>2, <4>2
      <3>3. CASE mirror[k][f] # g
        <4>1. Final(cmds, engine[k][f], k, f, v)
          BY <1>4, <3>1, <3>3 DEF Silent
        <4>2. <<k, f>> \notin apart
          BY <1>1, <2>2
        <4>3. mirror[k][f] = v \/ (v = None /\ InGarbage(<<"freed", mirror[k][f]>>))
          BY <4>1, <4>2 DEF MirrorInv, GroupsTold
        <4>4. mirror'[k][f] = mirror[k][f]
          BY <1>5, <3>3
        <4> QED  BY <3>3, <4>3, <4>4
      <3> QED  BY <3>2, <3>3
    <2> SUFFICES ASSUME NEW k \in Transports, NEW f \in Bindings, NEW v \in Values, <<k, f>> \notin apart',
                        Final(cmds \o s, engine[k][f], k, f, v)
                 PROVE  mirror'[k][f] = v \/ (v = None /\ InGarbage(<<"freed", mirror[k][f]>>)')
      BY <1>1 DEF GroupsTold, audio
    <2>3. PICK m : m = mirror[k][f]
      OBVIOUS
    <2>4. m # g /\ InGarbage(<<"freed", m>>) => InGarbage(<<"freed", m>>)'
      <3>1. m # g => <<"freed", m>> # <<"freed", g>>
        OBVIOUS
      <3> QED  BY <1>6, <3>1
    <2>5. CASE v = None /\ InGarbage(<<"freed", m>>) /\ m # g /\ mirror'[k][f] = m
      <3>1. InGarbage(<<"freed", m>>)'
        BY <2>4, <2>5
      <3>2. InGarbage(<<"freed", mirror[k][f]>>)'
        BY <2>5, <3>1 DEF InGarbage
      <3> QED  BY <2>5, <3>2
    <2>6. \/ mirror'[k][f] = v
          \/ v = None /\ InGarbage(<<"freed", mirror[k][f]>>) /\ mirror[k][f] # g
             /\ mirror'[k][f] = mirror[k][f]
      BY <2>2
    <2> QED  BY <2>3, <2>5, <2>6
  <1>13. BoundOnce'
    <2>1. \A k \in Transports, f \in Bindings, i \in 1 .. Len(s) :
               Binds(s[i], k, f) /\ s[i].value # None => Len(s) = 1 /\ FreeFor(k, f, s[i].value)
      BY <1>1
    <2> QED  BY <1>1, <2>1, SendingBindsOnce DEF audio
  <1> QED  BY <1>10, <1>11, <1>12, <1>13 DEF MirrorInv

\* CollectGarbage, by what comes back.
LEMMA CollectGarbageKeeps ==
    ASSUME MirrorInv, CollectGarbage
    PROVE  MirrorInv'
  <1>1. garbage # << >> /\ garbage' = Tail(garbage) /\ UNCHANGED audio
    BY DEF CollectGarbage
  <1>2. garbage \in Seq(Return) /\ Head(garbage) \in Return
    BY <1>1 DEF MirrorInv, Typed
  <1>3. PICK g : g = Head(garbage) /\ g \in Return
    BY <1>2
  <1>4. CASE g[1] = "freed" /\ Freed(g[2])
    <2>1. g[2] \in GroupIds /\ g = <<"freed", g[2]>>
      BY <1>3, <1>4 DEF Return
    <2> QED  BY <1>1, <1>3, <1>4, <2>1, FreedKeeps
  <1>5. CASE g[1] = "ended" /\ Ended(g[2])
    <2>1. g[2] \in Transports /\ g = <<"ended", g[2]>>
      BY <1>3, <1>5 DEF Return
    <2> QED  BY <1>1, <1>3, <1>5, <2>1, EndedKeeps
  <1> QED  BY <1>3, <1>4, <1>5 DEF CollectGarbage

\* What nothing of the invariant changes in.
LEMMA RestKeeps ==
    ASSUME MirrorInv, UNCHANGED <<mirror, engine, live, frozen, cmds, garbage, apart>>
    PROVE  MirrorInv'
  <1>1. Typed' /\ SettingsTold'
    BY DEF MirrorInv, Typed, SettingsTold, Sound, Has
  <1>2. GroupsTold' /\ PlacesTold'
    BY DEF MirrorInv, GroupsTold, PlacesTold, PlaceOf, InGarbage
  <1>3. RunsTold'
    BY DEF MirrorInv, RunsTold, Ending, InGarbage, Going
  <1>4. BoundOnce' /\ FrozenGoverned'
    BY DEF MirrorInv, BoundOnce, BindingsAgree, FrozenGoverned
  <1> QED  BY <1>1, <1>2, <1>3, <1>4 DEF MirrorInv

\* One step of either thread.
LEMMA MirrorStays == MirrorInv /\ [Next]_vars => MirrorInv'
  <1> SUFFICES ASSUME MirrorInv, [Next]_vars PROVE MirrorInv'
    OBVIOUS
  <1>1. ASSUME NEW k \in Transports, Message(k) PROVE MirrorInv'
    <2>1. ASSUME NEW from \in Places \cup {None}, Play(k, from) PROVE MirrorInv'
      BY <2>1, PlayKeeps
    <2>2. CASE Stop(k)
      BY <2>2, StopKeeps
    <2>3. ASSUME NEW place \in Places, Locate(k, place) PROVE MirrorInv'
      BY <2>3, LocateKeeps
    <2>4. ASSUME NEW field \in Settings, NEW value \in Offered[field], Set(k, field, value)
          PROVE  MirrorInv'
      <3>1. /\ field \in Settings \cup Bindings /\ field \notin Bindings /\ value \in Values
            /\ field = "mark" => value \in Marks
        BY DEF Offered, Settings, Bindings, Values, Marks
      <3>2. Change(k, Half(k, field, value), field)
        BY <2>4 DEF Set
      <3> QED  BY <3>1, <3>2, ChangeKeeps
    <2>5. CASE Define(k)
      BY <2>5, DefineKeeps
    <2>6. ASSUME NEW field \in Bindings, NEW g \in GroupIds \cup {None}, Bind(k, field, g)
          PROVE  MirrorInv'
      <3>1. /\ field \in Settings \cup Bindings /\ g \in Values /\ field # "mark"
            /\ Change(k, Half(k, field, g), field) /\ (g # None => FreeFor(k, field, g))
        BY <2>6 DEF Bind, Values, Bindings
      <3> QED  BY <3>1, ChangeKeeps
    <2> QED  BY <1>1, <2>1, <2>2, <2>3, <2>4, <2>5, <2>6 DEF Message
  <1>2. ASSUME NEW k \in Transports, EndMark(k) PROVE MirrorInv'
    BY <1>2, EndMarkKeeps
  <1>3. ASSUME NEW k \in Transports, RampDone(k) PROVE MirrorInv'
    BY <1>3, RampDoneKeeps
  <1>10. ASSUME NEW k \in Transports, LoopLands(k) PROVE MirrorInv'
    BY <1>10, LoopLandsKeeps
  <1>4. ASSUME NEW g \in GroupIds, NewGroup(g) \/ FreeGroup(g) PROVE MirrorInv'
    BY <1>4, GroupKeeps
  <1>5. ASSUME NEW g \in GroupIds, DoneAction(g) PROVE MirrorInv'
    BY <1>5, DoneActionKeeps
  <1>6. CASE ApplyHalf
    BY <1>6, ApplyHalfKeeps
  <1>7. CASE CollectGarbage
    BY <1>7, CollectGarbageKeeps
  <1>8. CASE Collect \/ GarbageDone
    BY <1>8, RestKeeps DEF Collect, GarbageDone, network, audio
  <1>9. CASE UNCHANGED vars
    BY <1>9, RestKeeps DEF vars, network, audio
  <1> QED  BY <1>1, <1>2, <1>3, <1>4, <1>5, <1>6, <1>7, <1>8, <1>9, <1>10 DEF Next

\* What the invariant makes true of the mirror and of the engine, whatever is on
\* its way.
LEMMA MirrorHolds == Spec => []MirrorInv
  <1>1. Init => MirrorInv
    BY MirrorStarts
  <1>2. MirrorInv /\ [Next]_vars => MirrorInv'
    BY MirrorStays
  <1> QED  BY <1>1, <1>2, PTL DEF Spec

\* With everything delivered the mirror is as the engine: what a client is told of
\* a transport (transport.rs:148-330) is what the audio thread does.
THEOREM MirrorAgrees == Spec => []Agree
  <1>1. MirrorInv => Agree
    <2> SUFFICES ASSUME MirrorInv, Quiet, NEW k \in Transports
                 PROVE  /\ <<k, "playing">> \notin apart => mirror[k].playing = engine[k].rolling
                        /\ <<k, "called off">> \notin apart => StandsWhereSaid(k)
                        /\ \A f \in Bindings \cup Settings :
                               <<k, f>> \notin apart => mirror[k][f] = engine[k][f]
      BY DEF Agree
    <2>1. /\ cmds = << >> /\ garbage = << >> /\ engine[k].stopping = None
          /\ engine[k].asked = engine[k].looping
      BY DEF Quiet
    <2>2. /\ engine[k].back = None /\ engine[k].rolling \in BOOLEAN
          /\ engine[k].returned \in BOOLEAN
          /\ engine[k] \in [EngineFields -> Values]
      BY <2>1 DEF MirrorInv, Typed, Sound
    <2>3. \A x : ~ InGarbage(x)
      BY <2>1 DEF InGarbage
    <2>4. \A v, f : Final(cmds, v, k, f, v)
      BY <2>1, HeldAtFirst
    <2>5. ASSUME <<k, "playing">> \notin apart PROVE mirror[k].playing = engine[k].rolling
      <3>1. PICK g : g = engine[k].rolling /\ g \in BOOLEAN
        BY <2>2
      <3>2. Going(engine[k]) = g
        BY <2>1, <3>1 DEF Going
      <3>3. Final(cmds, Going(engine[k]), k, "run", g)
        BY <2>4, <3>2
      <3>4. ~ Ending(k)
        BY <2>1, <2>3, TransportMirrorAssumption DEF Ending
      <3> QED  BY <2>5, <3>1, <3>3, <3>4 DEF MirrorInv, RunsTold
    <2>6. ASSUME <<k, "called off">> \notin apart PROVE StandsWhereSaid(k)
      <3> SUFFICES ASSUME mirror[k].defined, <<k, "located">> \notin apart, ~ engine[k].returned
                   PROVE  mirror[k].located = engine[k].located
        BY DEF StandsWhereSaid
      <3>1. PlaceOf(engine[k]) = engine[k].located /\ engine[k].located \in Values
        BY <2>2 DEF PlaceOf, EngineFields
      <3>2. Final(cmds, PlaceOf(engine[k]), k, "located", engine[k].located)
        BY <2>4, <3>1
      <3> QED  BY <2>6, <3>1, <3>2 DEF MirrorInv, PlacesTold
    <2>7. ASSUME NEW f \in Bindings \cup Settings, <<k, f>> \notin apart
          PROVE  mirror[k][f] = engine[k][f]
      <3>1. engine[k][f] \in Values
        BY <2>2 DEF Bindings, Settings, EngineFields
      <3>2. Final(cmds, engine[k][f], k, f, engine[k][f])
        BY <2>4
      <3>3. CASE f \in Settings
        <4>1. Has(engine[k], f) = engine[k][f]
          BY <2>1 DEF Has
        <4>2. Final(cmds, Has(engine[k], f), k, f, engine[k][f])
          BY <3>2, <4>1
        <4> QED  BY <3>1, <3>3, <4>2 DEF MirrorInv, SettingsTold
      <3>4. CASE f \in Bindings
        BY <2>3, <2>7, <3>1, <3>2, <3>4 DEF MirrorInv, GroupsTold
      <3> QED  BY <3>3, <3>4
    <2> QED  BY <2>5, <2>6, <2>7
  <1> QED  BY <1>1, MirrorHolds, PTL

\* Whatever is unbound, rebound or freed, a paused group is one whose transport
\* clients still see (engine.rs resumes what it lets go).
THEOREM NoGroupLeftFrozen == Spec => []NoneLeftFrozen
  <1>1. MirrorInv => NoneLeftFrozen
    <2> SUFFICES ASSUME MirrorInv, Quiet, BindingsAgree, NEW g \in frozen
                 PROVE  \E k \in Transports : mirror[k].group = g
      BY DEF NoneLeftFrozen
    <2>1. cmds = << >> /\ garbage = << >>
      BY DEF Quiet
    <2>2. PICK k \in Transports : engine[k].group = g
      BY DEF MirrorInv, FrozenGoverned
    <2>3. g \in Values /\ "group" \in Bindings /\ <<k, "group">> \notin apart
      BY DEF MirrorInv, Typed, Values, Bindings, BindingsAgree
    <2>4. Final(cmds, engine[k]["group"], k, "group", g)
      BY <2>1, <2>2, HeldAtFirst
    <2>5. mirror[k]["group"] = g
      BY <2>1, <2>3, <2>4 DEF MirrorInv, GroupsTold, InGarbage
    <2> QED  BY <2>5
  <1> QED  BY <1>1, MirrorHolds, PTL

\* Only the mirror is asked whether a group is free to bind (transport.rs), and the
\* engine never has two bindings to one.
THEOREM EachGroupOneTransport == Spec => []OneTransport
  <1>1. MirrorInv => OneTransport
    <2> SUFFICES ASSUME MirrorInv, BindingsAgree, NEW j \in Transports, NEW k \in Transports,
                        NEW e \in Bindings, NEW f \in Bindings,
                        engine[j][e] # None, engine[j][e] = engine[k][f]
                 PROVE  j = k /\ e = f
      BY DEF OneTransport
    <2>1. 0 \in 0 .. Len(cmds)
      BY DEF MirrorInv, Typed
    <2>2. PICK g : g = engine[j][e]
      OBVIOUS
    <2>3. g \in Values \ {None}
      BY <2>2 DEF MirrorInv, Typed, Bindings, EngineFields
    <2>4. Held(cmds, engine[j][e], j, e, 0, g) /\ Held(cmds, engine[k][f], k, f, 0, g)
      BY <2>2 DEF Held
    <2> QED  BY <2>1, <2>3, <2>4 DEF MirrorInv, BoundOnce
  <1> QED  BY <1>1, MirrorHolds, PTL
=============================================================================
