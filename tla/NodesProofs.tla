------------------------------ MODULE NodesProofs ------------------------------
(***************************************************************************)
(* Proofs about the node tree, in three parts.                               *)
(*                                                                           *)
(* Trees.  The operations of Trees take a grown tree to a grown tree: parents  *)
(* and children agree, and every set of nodes without the root has a node     *)
(* whose parent is outside it (Rooted), which is what stands for "the parents  *)
(* lead to the root" and makes walks up and down the tree end.  What an        *)
(* operation frees is Made: who dies, who is paused, and that each death is     *)
(* reported once, a node never after what was in it.  The loops of the code    *)
(* are followed by induction on their steps, of a set of step numbers (the     *)
(* lemma Induction, from < being well founded on Nat).                         *)
(*                                                                           *)
(* NodeTree and TreeMirror.  The tree of the audio thread is grown in every    *)
(* state of either (TreeInvariant, MirrorInvariant); with commands, events and *)
(* garbage under way, an id in use is in one place (InOnePlace).               *)
(*                                                                           *)
(* IdIndex.  Whatever the hash and the size of the table, every id is found     *)
(* where it was last recorded.  The invariant says that the cells a probe      *)
(* crosses are in use, and, during a removal, that no entry the loop has        *)
(* passed has the hole on its path.                                           *)
(***************************************************************************)
EXTENDS NodeTree, TreeMirror, IdIndex, FiniteSetTheorems, WellFoundedInduction, TLAPS

\* A tree is made of its live nodes, finitely many; every node but the root is in a group.
Shaped(t) ==
    /\ t = [parent |-> [n \in Live(t) |-> t.parent[n]],
            kids |-> [g \in Groups(t) |-> t.kids[g]],
            paused |-> t.paused]
    /\ IsFiniteSet(Live(t))
    /\ Root \in Groups(t) /\ Groups(t) \subseteq Live(t) /\ NoNode \notin Live(t)
    /\ t.parent[Root] = NoNode
    /\ \A n \in Live(t) \ {Root} : t.parent[n] \in Groups(t)
    /\ \A g \in Groups(t) : t.kids[g] \in Seq(Live(t))
    /\ t.paused \subseteq Live(t)

\* No entry twice.
Apart(s) == \A i, j \in 1 .. Len(s) : s[i] = s[j] => i = j

\* A group has once each the nodes whose parent it is.
Linked(t) ==
    \A g \in Groups(t) : /\ Apart(t.kids[g])
                         /\ \A n \in Live(t) : n \in ToSet(t.kids[g]) <=> t.parent[n] = g

\* No nodes have their parents among themselves only: all of them lead to the root.
Rooted(t) ==
    \A S \in SUBSET (Live(t) \ {Root}) : S # {} => \E n \in S : t.parent[n] \notin S

\* What every operation keeps.
Grown(t) == Shaped(t) /\ Linked(t) /\ Rooted(t)

Smaller == {ss \in Nat \X Nat : ss[1] < ss[2]}

\* < is well founded on the naturals.
LEMMA SmallerWF == IsWellFoundedOn(Smaller, Nat)
BY NatLessThanWellFounded DEF OpToRel, Smaller

\* Induction over the naturals, of a set.
LEMMA Induction ==
    ASSUME NEW S, 0 \in S, \A k \in Nat : k \in S => k + 1 \in S
    PROVE  \A k \in Nat : k \in S
<1> DEFINE Bad == Nat \ S
<1> SUFFICES ASSUME Bad # {} PROVE FALSE
    OBVIOUS
<1>1. PICK x \in Bad : \A y \in Bad : ~ (<<y, x>> \in Smaller)
    <2> HIDE DEF Bad
    <2>1. Bad \subseteq Nat
        BY DEF Bad
    <2> QED BY <2>1, SmallerWF, WFMin
<1>2. x \in Nat /\ x # 0 /\ x \notin S
    BY <1>1
<1>3. x - 1 \in Nat /\ x - 1 < x
    BY <1>2
<1>4. <<x - 1, x>> \in Smaller
    BY <1>2, <1>3 DEF Smaller
<1>5. x - 1 \in S
    BY <1>1, <1>3, <1>4
<1>6. (x - 1) + 1 \in S
    BY <1>3, <1>5
<1> QED BY <1>2, <1>6

\* The function up of Above exists: what is in every set that holds m and, with a
\* node, its parent.
LEMMA AboveIs ==
    ASSUME NEW t, Grown(t), NEW m \in Live(t)
    PROVE  Above(t, m) = {m} \cup (IF m = Root THEN {} ELSE Above(t, t.parent[m]))
<1> DEFINE L == Live(t)
           Closed(C) == \A c \in C : c # Root => t.parent[c] \in C
           Anc(n) == {a \in L : \A C \in SUBSET L : n \in C /\ Closed(C) => a \in C}
           up[n \in L] == {n} \cup (IF n = Root THEN {} ELSE up[t.parent[n]])
           g == [n \in L |-> Anc(n)]
<1>0. \A n \in L : n # Root => t.parent[n] \in L
    BY DEF Grown, Shaped
<1>1. ASSUME NEW n \in L PROVE Anc(n) = {n} \cup (IF n = Root THEN {} ELSE Anc(t.parent[n]))
    <2> DEFINE B == {n} \cup (IF n = Root THEN {} ELSE Anc(t.parent[n]))
    <2>1. ASSUME NEW a \in Anc(n) PROVE a \in B
        <3>1. B \in SUBSET L /\ n \in B
            BY <1>1
        <3>2. ASSUME NEW c \in B, c # Root PROVE t.parent[c] \in B
            <4>1. CASE c = n
                BY <3>2, <4>1, <1>0
            <4>2. CASE c # n
                <5>1. n # Root /\ c \in Anc(t.parent[n])
                    BY <3>2, <4>2
                <5>2. t.parent[c] \in Anc(t.parent[n])
                    BY <5>1, <3>2, <1>0
                <5> QED BY <5>1, <5>2
            <4> QED BY <4>1, <4>2
        <3> HIDE DEF B
        <3> QED BY <2>1, <3>1, <3>2
    <2>2. ASSUME NEW a \in B PROVE a \in Anc(n)
        <3>1. CASE a = n
            BY <3>1, <1>1
        <3>2. CASE n # Root /\ a \in Anc(t.parent[n])
            BY <3>2, <1>0
        <3> QED BY <3>1, <3>2, <2>2
    <2> HIDE DEF Anc
    <2> QED BY <2>1, <2>2
<1>2. g = [n \in L |-> {n} \cup (IF n = Root THEN {} ELSE g[t.parent[n]])]
    <2> HIDE DEF Anc
    <2> SUFFICES ASSUME NEW n \in L
                 PROVE  Anc(n) = {n} \cup (IF n = Root THEN {} ELSE g[t.parent[n]])
        OBVIOUS
    <2>1. CASE n = Root
        BY <1>1, <2>1
    <2>2. CASE n # Root
        BY <1>0, <1>1, <2>2
    <2> QED BY <2>1, <2>2
<1>3. up = [n \in L |-> {n} \cup (IF n = Root THEN {} ELSE up[t.parent[n]])]
    <2> HIDE DEF g
    <2> QED BY <1>2
<1>4. \A n \in L : Above(t, n) = up[n]
    BY DEF Above
<1> HIDE DEF up
<1>5. up[m] = {m} \cup (IF m = Root THEN {} ELSE up[t.parent[m]])
    BY <1>3
<1>6. CASE m = Root
    BY <1>4, <1>5, <1>6
<1>7. CASE m # Root
    BY <1>4, <1>5, <1>7, <1>0
<1> QED BY <1>6, <1>7

\* The nodes above are closed under parents, and hold the root.
LEMMA AboveClosed ==
    ASSUME NEW t, Grown(t), NEW m \in Live(t)
    PROVE  /\ m \in Above(t, m) /\ Above(t, m) \subseteq Live(t) /\ Root \in Above(t, m)
           /\ \A a \in Above(t, m) : a # Root => t.parent[a] \in Above(t, m)
<1> DEFINE Good(n) == /\ n \in Above(t, n) /\ Above(t, n) \subseteq Live(t) /\ Root \in Above(t, n)
                      /\ \A a \in Above(t, n) : a # Root => t.parent[a] \in Above(t, n)
           Bad == {n \in Live(t) \ {Root} : ~ Good(n)}
<1>1. Root \in Live(t) /\ \A n \in Live(t) \ {Root} : t.parent[n] \in Live(t)
    BY DEF Grown, Shaped
<1>2. Good(Root)
    BY <1>1, AboveIs
<1>3. Bad = {}
    <2> SUFFICES ASSUME Bad # {} PROVE FALSE
        OBVIOUS
    <2>1. PICK n \in Bad : t.parent[n] \notin Bad
        BY DEF Grown, Rooted
    <2>2. Good(t.parent[n]) /\ t.parent[n] \in Live(t)
        BY <1>1, <1>2, <2>1
    <2>3. n \in Live(t) \ {Root} /\ Above(t, n) = {n} \cup Above(t, t.parent[n])
        BY AboveIs, <2>1
    <2>4. Good(n)
        BY <2>2, <2>3
    <2> QED BY <2>1, <2>4
<1> QED BY <1>2, <1>3

\* A child is at one place of its parent's row.
LEMMA AtIs ==
    ASSUME NEW t, Grown(t), NEW n \in Live(t), n # Root
    PROVE  /\ t.parent[n] \in Groups(t) /\ t.kids[t.parent[n]] \in Seq(Live(t))
           /\ At(t, n) \in 1 .. Len(t.kids[t.parent[n]])
           /\ t.kids[t.parent[n]][At(t, n)] = n
<1> DEFINE row == t.kids[t.parent[n]]
           I == {i \in 1 .. Len(row) : row[i] = n}
<1>1. t.parent[n] \in Groups(t) /\ row \in Seq(Live(t))
    BY DEF Grown, Shaped
<1>2. n \in ToSet(row) /\ Apart(row)
    BY <1>1 DEF Grown, Linked
<1>3. PICK i \in 1 .. Len(row) : row[i] = n
    BY <1>1, <1>2 DEF ToSet
<1>4. I = {i}
    BY <1>2, <1>3 DEF Apart
<1>5. At(t, n) = IF I # {} THEN Min(I) ELSE 0
    BY DEF At, SelectInSeq
<1>6. Min({i}) = i
    BY <1>3 DEF Min
<1> QED BY <1>1, <1>3, <1>4, <1>5, <1>6

\* Rows joined, cut and thinned, entry by entry.
LEMMA JoinIs ==
    ASSUME NEW L, NEW s \in Seq(L), NEW r \in Seq(L)
    PROVE  /\ s \o r \in Seq(L) /\ Len(s \o r) = Len(s) + Len(r)
           /\ \A i \in 1 .. Len(s) + Len(r) :
                 (s \o r)[i] = IF i <= Len(s) THEN s[i] ELSE r[i - Len(s)]
OBVIOUS

LEMMA CutIs ==
    ASSUME NEW L, NEW s \in Seq(L), NEW i \in 1 .. Len(s) + 1, NEW j \in 0 .. Len(s), i <= j + 1
    PROVE  /\ SubSeq(s, i, j) \in Seq(L) /\ Len(SubSeq(s, i, j)) = j + 1 - i
           /\ \A k \in 1 .. j + 1 - i : SubSeq(s, i, j)[k] = s[i + k - 1]
<1> \A k \in i .. j : s[k] \in L
    OBVIOUS
<1> QED OBVIOUS

\* One place is taken out of a row.
LEMMA RemoveAtIs ==
    ASSUME NEW L, NEW row \in Seq(L), NEW i \in 1 .. Len(row)
    PROVE  /\ RemoveAt(row, i) \in Seq(L) /\ Len(RemoveAt(row, i)) = Len(row) - 1
           /\ \A j \in 1 .. Len(row) - 1 :
                 RemoveAt(row, i)[j] = IF j < i THEN row[j] ELSE row[j + 1]
<1> DEFINE a == SubSeq(row, 1, i - 1)
           b == SubSeq(row, i + 1, Len(row))
<1>1. a \in Seq(L) /\ Len(a) = i - 1 /\ \A j \in 1 .. i - 1 : a[j] = row[j]
    BY CutIs
<1>2. b \in Seq(L) /\ Len(b) = Len(row) - i /\ \A j \in 1 .. Len(row) - i : b[j] = row[j + i]
    BY CutIs
<1>3. RemoveAt(row, i) = a \o b
    BY DEF RemoveAt
<1> HIDE DEF a, b
<1>4. a \o b \in Seq(L) /\ Len(a \o b) = Len(row) - 1
    <2>1. a \o b \in Seq(L) /\ Len(a \o b) = Len(a) + Len(b)
        BY <1>1, <1>2, JoinIs
    <2>2. Len(row) \in Nat
        OBVIOUS
    <2> QED BY <1>1, <1>2, <2>1, <2>2
<1>5. \A j \in 1 .. Len(row) - 1 : (a \o b)[j] = IF j < i THEN row[j] ELSE row[j + 1]
    <2>1. \A j \in 1 .. Len(a) + Len(b) :
             (a \o b)[j] = IF j <= Len(a) THEN a[j] ELSE b[j - Len(a)]
        BY <1>1, <1>2, JoinIs
    <2>2. Len(row) \in Nat
        OBVIOUS
    <2> QED BY <1>1, <1>2, <2>1, <2>2
<1> QED BY <1>3, <1>4, <1>5

\* A row of distinct nodes loses the node and nothing else.
LEMMA RemoveApart ==
    ASSUME NEW L, NEW row \in Seq(L), Apart(row), NEW i \in 1 .. Len(row)
    PROVE  /\ Apart(RemoveAt(row, i))
           /\ ToSet(RemoveAt(row, i)) = ToSet(row) \ {row[i]}
<1> DEFINE r == RemoveAt(row, i)
<1>1. /\ r \in Seq(L) /\ Len(r) = Len(row) - 1
      /\ \A j \in 1 .. Len(row) - 1 : r[j] = IF j < i THEN row[j] ELSE row[j + 1]
    BY RemoveAtIs
<1> HIDE DEF r
<1>2. Apart(r)
    BY <1>1 DEF Apart
<1>3. ASSUME NEW x \in ToSet(r) PROVE x \in ToSet(row) /\ x # row[i]
    <2>1. PICK j \in 1 .. Len(r) : x = r[j]
        BY <1>1, <1>3 DEF ToSet
    <2> QED BY <1>1, <2>1 DEF ToSet, Apart
<1>4. ASSUME NEW x \in ToSet(row), x # row[i] PROVE x \in ToSet(r)
    <2>1. PICK j \in 1 .. Len(row) : x = row[j]
        BY <1>4 DEF ToSet
    <2>2. CASE j < i
        <3>1. j \in 1 .. Len(r) /\ r[j] = x
            BY <1>1, <2>1, <2>2
        <3> QED BY <1>1, <3>1 DEF ToSet
    <2>3. CASE j > i
        <3>1. j - 1 \in 1 .. Len(r) /\ r[j - 1] = x
            BY <1>1, <2>1, <2>3
        <3> QED BY <1>1, <3>1 DEF ToSet
    <2> QED BY <1>4, <2>1, <2>2, <2>3
<1> QED BY <1>2, <1>3, <1>4 DEF r

-----------------------------------------------------------------------------

Seen(s) == ToSet(s.order) \cup ToSet(s.stack)

\* The walk from n so far: what it has seen is below n, what is on the stack is
\* still to visit, and the children of what it visited are seen.
Walked(t, n, s) ==
    /\ s.stack \in Seq(Live(t)) /\ s.order \in Seq(Live(t))
    /\ Apart(s.stack) /\ Apart(s.order) /\ ToSet(s.stack) \cap ToSet(s.order) = {}
    /\ n \in Seen(s)
    /\ \A m \in Seen(s) : m # n => m # Root /\ t.parent[m] \in ToSet(s.order)
    /\ \A c \in Live(t) \ {Root} : t.parent[c] \in ToSet(s.order) => c \in Seen(s)
    /\ \A i, j \in 1 .. Len(s.order) : i < j => t.parent[s.order[i]] # s.order[j]

\* Rows as sets, and joined.
LEMMA ToSetIs ==
    ASSUME NEW L, NEW s \in Seq(L)
    PROVE  ToSet(s) = {s[i] : i \in 1 .. Len(s)} /\ ToSet(s) \subseteq L
BY DEF ToSet

LEMMA JoinApart ==
    ASSUME NEW L, NEW s \in Seq(L), NEW r \in Seq(L), Apart(s), Apart(r),
           ToSet(s) \cap ToSet(r) = {}
    PROVE  s \o r \in Seq(L) /\ Apart(s \o r) /\ ToSet(s \o r) = ToSet(s) \cup ToSet(r)
<1>1. s \o r \in Seq(L) /\ Len(s \o r) = Len(s) + Len(r)
    OBVIOUS
<1>2. \A i \in 1 .. Len(s) + Len(r) : (s \o r)[i] = IF i <= Len(s) THEN s[i] ELSE r[i - Len(s)]
    OBVIOUS
<1>3. \A i \in 1 .. Len(s) : s[i] \in ToSet(s)
    BY ToSetIs
<1>4. \A i \in 1 .. Len(r) : r[i] \in ToSet(r)
    BY ToSetIs
<1>5. Apart(s \o r)
    BY <1>1, <1>2, <1>3, <1>4 DEF Apart
<1>6. ASSUME NEW x \in ToSet(s \o r) PROVE x \in ToSet(s) \cup ToSet(r)
    <2>1. PICK i \in 1 .. Len(s) + Len(r) : x = (s \o r)[i]
        BY <1>1, <1>6 DEF ToSet
    <2> QED BY <1>2, <1>3, <1>4, <2>1
<1>7. ASSUME NEW x \in ToSet(s) PROVE x \in ToSet(s \o r)
    <2>1. PICK i \in 1 .. Len(s) : x = s[i]
        BY <1>7, ToSetIs
    <2>2. i \in 1 .. Len(s \o r) /\ (s \o r)[i] = x
        BY <1>1, <1>2, <2>1
    <2> QED BY <1>1, <2>2 DEF ToSet
<1>8. ASSUME NEW x \in ToSet(r) PROVE x \in ToSet(s \o r)
    <2>1. PICK i \in 1 .. Len(r) : x = r[i]
        BY <1>8, ToSetIs
    <2>2. i + Len(s) \in 1 .. Len(s \o r) /\ (s \o r)[i + Len(s)] = x
        BY <1>1, <1>2, <2>1
    <2> QED BY <1>1, <2>2 DEF ToSet
<1> QED BY <1>1, <1>5, <1>6, <1>7, <1>8

\* The last entry of a row, and the row without it.
LEMMA LastIs ==
    ASSUME NEW L, NEW s \in Seq(L), s # << >>, Apart(s)
    PROVE  /\ Last(s) \in ToSet(s) /\ Front(s) \in Seq(L) /\ Apart(Front(s))
           /\ ToSet(Front(s)) = ToSet(s) \ {Last(s)}
<1>1. Len(s) \in Nat /\ Len(s) > 0 /\ Last(s) = s[Len(s)]
    BY DEF Last
<1>2. Front(s) \in Seq(L) /\ Len(Front(s)) = Len(s) - 1
      /\ \A i \in 1 .. Len(s) - 1 : Front(s)[i] = s[i]
    <2>1. Front(s) = SubSeq(s, 1, Len(s) - 1)
        BY DEF Front
    <2>2. 1 \in 1 .. Len(s) + 1 /\ Len(s) - 1 \in 0 .. Len(s)
        BY <1>1
    <2>3. 1 <= (Len(s) - 1) + 1
        BY <1>1
    <2>4. /\ SubSeq(s, 1, Len(s) - 1) \in Seq(L)
          /\ Len(SubSeq(s, 1, Len(s) - 1)) = (Len(s) - 1) + 1 - 1
          /\ \A k \in 1 .. (Len(s) - 1) + 1 - 1 : SubSeq(s, 1, Len(s) - 1)[k] = s[1 + k - 1]
        BY <2>2, <2>3, CutIs
    <2> QED BY <1>1, <2>1, <2>4
<1>3. Last(s) \in ToSet(s)
    BY <1>1 DEF ToSet
<1>4. Apart(Front(s))
    BY <1>1, <1>2 DEF Apart
<1>5. ASSUME NEW x \in ToSet(Front(s)) PROVE x \in ToSet(s) /\ x # Last(s)
    <2>1. PICK i \in 1 .. Len(s) - 1 : x = s[i]
        BY <1>2, <1>5 DEF ToSet
    <2> QED BY <1>1, <2>1 DEF ToSet, Apart
<1>6. ASSUME NEW x \in ToSet(s), x # Last(s) PROVE x \in ToSet(Front(s))
    <2>1. PICK i \in 1 .. Len(s) : x = s[i]
        BY <1>6 DEF ToSet
    <2>2. i \in 1 .. Len(Front(s)) /\ Front(s)[i] = x
        BY <1>1, <1>2, <1>6, <2>1
    <2> QED BY <1>2, <2>2 DEF ToSet
<1> QED BY <1>2, <1>3, <1>4, <1>5, <1>6

\* A turn visits one more.
LEMMA TurnWalks ==
    ASSUME NEW t, Grown(t), NEW n \in Live(t), NEW s, Walked(t, n, s), s.stack # << >>
    PROVE  /\ Walked(t, n, Turn(t, s))
           /\ Len(Turn(t, s).order) = Len(s.order) + 1
<1> DEFINE L == Live(t)
           m == Last(s.stack)
           rest == Front(s.stack)
           kids == IF m \in Groups(t) THEN t.kids[m] ELSE << >>
           u == Turn(t, s)
           O == ToSet(s.order)
           K == ToSet(s.stack)
<1>1. /\ m \in K /\ rest \in Seq(L) /\ Apart(rest) /\ ToSet(rest) = K \ {m}
      /\ m \in L /\ m \notin O
    BY LastIs, ToSetIs DEF Walked
<1>2. /\ kids \in Seq(L) /\ Apart(kids) /\ ToSet(kids) = {c \in L : t.parent[c] = m}
    <2>1. CASE m \in Groups(t)
        <3>1. kids = t.kids[m] /\ kids \in Seq(L)
            BY <2>1 DEF Grown, Shaped
        <3>2. ToSet(kids) \subseteq L
            BY <3>1, ToSetIs
        <3> QED BY <2>1, <3>1, <3>2 DEF Grown, Linked
    <2>2. CASE m \notin Groups(t)
        <3>1. \A c \in L : t.parent[c] # m
            BY <2>2, <1>1 DEF Grown, Shaped
        <3> QED BY <2>2, <3>1 DEF Apart, ToSet
    <2> QED BY <2>1, <2>2
<1>3. u.stack = rest \o kids /\ u.order = Append(s.order, m)
    BY DEF Turn
<1>4. O \subseteq L /\ K \subseteq L /\ O \cap K = {} /\ s.order \in Seq(L) /\ Root \in L
      /\ \A c \in L : c # Root => t.parent[c] \in L
    BY ToSetIs DEF Walked, Grown, Shaped
<1>5. /\ u.order \in Seq(L) /\ Len(u.order) = Len(s.order) + 1
      /\ \A i \in 1 .. Len(s.order) : u.order[i] = s.order[i] /\ s.order[i] \in O
      /\ u.order[Len(s.order) + 1] = m
    <2>1. \A i \in 1 .. Len(s.order) : s.order[i] \in O
        BY <1>4, ToSetIs
    <2> QED BY <1>1, <1>3, <1>4, <2>1
<1>6. Apart(u.order) /\ ToSet(u.order) = O \cup {m}
    <2>1. Apart(u.order)
        <3>1. \A i, j \in 1 .. Len(s.order) : s.order[i] = s.order[j] => i = j
            BY DEF Walked, Apart
        <3>2. \A i \in 1 .. Len(s.order) : u.order[i] # m
            BY <1>1, <1>5
        <3>3. Len(s.order) \in Nat
            BY <1>4
        <3> HIDE DEF u, m
        <3> SUFFICES ASSUME NEW i \in 1 .. Len(s.order) + 1, NEW j \in 1 .. Len(s.order) + 1,
                            u.order[i] = u.order[j]
                     PROVE  i = j
            BY <1>5 DEF Apart
        <3>4. CASE i \in 1 .. Len(s.order) /\ j \in 1 .. Len(s.order)
            BY <1>5, <3>1, <3>4
        <3>5. CASE i = Len(s.order) + 1 \/ j = Len(s.order) + 1
            BY <1>5, <3>2, <3>3, <3>5
        <3> QED BY <3>3, <3>4, <3>5
    <2>2. ToSet(u.order) = {u.order[i] : i \in 1 .. Len(s.order) + 1}
        BY <1>5, ToSetIs
    <2>3. O = {s.order[i] : i \in 1 .. Len(s.order)} /\ Len(s.order) \in Nat
        BY <1>4, ToSetIs
    <2>4. ASSUME NEW x \in ToSet(u.order) PROVE x \in O \cup {m}
        BY <1>5, <2>2, <2>3, <2>4
    <2>5. ASSUME NEW x \in O PROVE x \in ToSet(u.order)
        BY <1>5, <2>2, <2>3, <2>5
    <2>6. m \in ToSet(u.order)
        BY <1>5, <2>2, <2>3
    <2> QED BY <2>1, <2>4, <2>5, <2>6
\* What is above n is not seen, or the nodes seen would have no top.
<1>7. n # Root => t.parent[n] \notin O \cup K
    <2> SUFFICES ASSUME n # Root, t.parent[n] \in O \cup K PROVE FALSE
        OBVIOUS
    <2>1. Root \notin O \cup K
        BY DEF Walked, Seen
    <2>2. (O \cup K) \in SUBSET (L \ {Root}) /\ O \cup K # {}
        BY <1>4, <2>1, <1>1
    <2>3. \A x \in O \cup K : t.parent[x] \in O \cup K
        BY DEF Walked, Seen
    <2> QED BY <2>2, <2>3 DEF Grown, Rooted
<1>8. \A c \in ToSet(kids) : c \notin O \cup K /\ c # Root
    <2> SUFFICES ASSUME NEW c \in ToSet(kids) PROVE c \notin O \cup K /\ c # Root
        OBVIOUS
    <2>1. c \in L /\ t.parent[c] = m /\ c # Root
        BY <1>1, <1>2 DEF Grown, Shaped
    <2>2. CASE c = n
        BY <1>1, <1>7, <2>1, <2>2
    <2>3. CASE c # n
        BY <1>1, <2>1, <2>3 DEF Walked, Seen
    <2> QED BY <2>1, <2>2, <2>3
<1>9. u.stack \in Seq(L) /\ Apart(u.stack) /\ ToSet(u.stack) = (K \ {m}) \cup ToSet(kids)
    <2>1. ToSet(rest) \cap ToSet(kids) = {}
        BY <1>1, <1>8
    <2> HIDE DEF kids, rest, u
    <2> QED BY <1>1, <1>2, <1>3, <2>1, JoinApart
<1>10. Seen(u) = O \cup K \cup ToSet(kids)
    BY <1>1, <1>6, <1>9 DEF Seen
<1>11. ToSet(u.stack) \cap ToSet(u.order) = {} /\ n \in Seen(u)
    BY <1>1, <1>4, <1>6, <1>8, <1>9, <1>10 DEF Walked, Seen
<1>12. \A x \in Seen(u) : x # n => x # Root /\ t.parent[x] \in ToSet(u.order)
    <2> SUFFICES ASSUME NEW x \in Seen(u), x # n PROVE x # Root /\ t.parent[x] \in ToSet(u.order)
        OBVIOUS
    <2>1. CASE x \in O \cup K
        BY <1>6, <2>1 DEF Walked, Seen
    <2>2. CASE x \in ToSet(kids)
        BY <1>2, <1>6, <1>8, <2>2
    <2> QED BY <1>10, <2>1, <2>2
<1>13. \A c \in L \ {Root} : t.parent[c] \in ToSet(u.order) => c \in Seen(u)
    <2> SUFFICES ASSUME NEW c \in L \ {Root}, t.parent[c] \in O \cup {m} PROVE c \in Seen(u)
        BY <1>6
    <2>1. CASE t.parent[c] \in O
        BY <1>10, <2>1 DEF Walked, Seen
    <2>2. CASE t.parent[c] = m
        BY <1>2, <1>10, <2>2
    <2> QED BY <2>1, <2>2
<1>14. \A i, j \in 1 .. Len(u.order) : i < j => t.parent[u.order[i]] # u.order[j]
    <2> SUFFICES ASSUME NEW i \in 1 .. Len(u.order), NEW j \in 1 .. Len(u.order), i < j
                 PROVE  t.parent[u.order[i]] # u.order[j]
        OBVIOUS
    <2>1. i \in 1 .. Len(s.order) /\ u.order[i] = s.order[i] /\ s.order[i] \in O
        BY <1>4, <1>5
    <2>2. CASE j \in 1 .. Len(s.order)
        BY <1>5, <2>1, <2>2 DEF Walked
    <2>3. CASE j = Len(s.order) + 1
        <3>1. u.order[j] = m
            BY <1>5, <2>3
        <3>2. CASE s.order[i] = n
            <4>1. CASE n = Root
                BY <4>1, <3>1, <3>2, <2>1, <1>1 DEF Grown, Shaped
            <4>2. CASE n # Root
                BY <4>2, <3>1, <3>2, <2>1, <1>1, <1>7
            <4> QED BY <4>1, <4>2
        <3>3. CASE s.order[i] # n
            BY <1>1, <2>1, <3>1, <3>3 DEF Walked, Seen
        <3> QED BY <3>2, <3>3
    <2> QED BY <1>4, <1>5, <2>2, <2>3
<1> HIDE DEF u
<1>15. Walked(t, n, u)
    BY <1>5, <1>6, <1>9, <1>11, <1>12, <1>13, <1>14 DEF Walked
<1> QED BY <1>5, <1>15 DEF u

\* What ByStack visits from n: n and, with a node, its children, each once, a node
\* before what is in it.
Branch(t, n, S) ==
    /\ n \in S /\ S \subseteq Live(t)
    /\ \A m \in S : m # n => m # Root /\ t.parent[m] \in S
    /\ \A c \in Live(t) \ {Root} : t.parent[c] \in S => c \in S

\* The stack walk ends with the branch of the node, each node once, before what is in it.
LEMMA ByStackIs ==
    ASSUME NEW t, Grown(t), NEW n \in Live(t)
    PROVE  /\ ByStack(t, n) \in Seq(Live(t)) /\ Apart(ByStack(t, n))
           /\ Branch(t, n, ToSet(ByStack(t, n)))
           /\ \A i, j \in 1 .. Len(ByStack(t, n)) :
                 i < j => t.parent[ByStack(t, n)[i]] # ByStack(t, n)[j]
<1> DEFINE L == Live(t)
           N == Cardinality(L)
           b == [stack |-> <<n>>, order |-> << >>]
           after[k \in 0 .. N] == IF k = 0 THEN b ELSE Turn(t, after[k - 1])
           S == {k \in Nat : k <= N => /\ Walked(t, n, after[k])
                                        /\ (after[k].stack = << >> \/ Len(after[k].order) = k)}
<1>1. IsFiniteSet(L) /\ N \in Nat
    BY FS_CardinalityType DEF Grown, Shaped
<1>2. ByStack(t, n) = after[N].order
    BY DEF ByStack
<1> HIDE DEF N
<1>3. after = [k \in 0 .. N |-> IF k = 0 THEN b ELSE Turn(t, after[k - 1])]
    <2> HIDE DEF b
    <2> DEFINE Has(M) == \E g : g = [k \in 0 .. M |-> IF k = 0 THEN b ELSE Turn(t, g[k - 1])]
               T == {M \in Nat : Has(M)}
    <2>1. 0 \in T
        <3> DEFINE g == [k \in 0 .. 0 |-> b]
        <3>1. g = [k \in 0 .. 0 |-> IF k = 0 THEN b ELSE Turn(t, g[k - 1])]
            OBVIOUS
        <3> HIDE DEF g
        <3> QED BY <3>1
    <2>2. ASSUME NEW M \in Nat, M \in T PROVE M + 1 \in T
        <3>1. PICK g : g = [k \in 0 .. M |-> IF k = 0 THEN b ELSE Turn(t, g[k - 1])]
            BY <2>2
        <3> DEFINE h == [k \in 0 .. M + 1 |-> IF k <= M THEN g[k] ELSE Turn(t, g[M])]
        <3>2. \A k \in 0 .. M + 1 : h[k] = IF k = 0 THEN b ELSE Turn(t, h[k - 1])
            <4> SUFFICES ASSUME NEW k \in 0 .. M + 1
                         PROVE  h[k] = IF k = 0 THEN b ELSE Turn(t, h[k - 1])
                OBVIOUS
            <4>1. CASE k = 0
                BY <3>1, <4>1
            <4>2. CASE k # 0 /\ k <= M
                BY <3>1, <4>2
            <4>3. CASE k = M + 1
                BY <4>3
            <4> QED BY <4>1, <4>2, <4>3
        <3>3. h = [k \in 0 .. M + 1 |-> IF k = 0 THEN b ELSE Turn(t, h[k - 1])]
            BY <3>2
        <3> HIDE DEF h
        <3> QED BY <3>3
    <2> HIDE DEF T
    <2>3. \A M \in Nat : M \in T
        BY <2>1, <2>2, Induction
    <2>4. \A M \in Nat : Has(M)
        BY <2>3 DEF T
    <2>5. \E g : g = [k \in 0 .. N |-> IF k = 0 THEN b ELSE Turn(t, g[k - 1])]
        BY <1>1, <2>4
    <2> HIDE DEF Has
    <2> QED BY <2>5
<1> HIDE DEF after
<1>4. 0 \in S
    <2>1. after[0] = b
        BY <1>1, <1>3
    <2>2. Walked(t, n, b)
        <3>1. ToSet(<<n>>) = {n} /\ ToSet(<< >>) = {}
            BY DEF ToSet
        <3>2. <<n>> \in Seq(L) /\ Len(<<n>>) = 1 /\ << >> \in Seq(L) /\ Len(<< >>) = 0
            OBVIOUS
        <3>3. Apart(<<n>>) /\ Apart(<< >>)
            BY <3>2 DEF Apart
        <3> QED BY <3>1, <3>2, <3>3 DEF Walked, Seen
    <2> QED BY <2>1, <2>2
<1>5. ASSUME NEW k \in Nat, k \in S PROVE k + 1 \in S
    <2> SUFFICES ASSUME k + 1 <= N
                 PROVE  /\ Walked(t, n, after[k + 1])
                        /\ after[k + 1].stack = << >> \/ Len(after[k + 1].order) = k + 1
        OBVIOUS
    <2>1. /\ Walked(t, n, after[k])
          /\ after[k].stack = << >> \/ Len(after[k].order) = k
        BY <1>1, <1>5
    <2>2. after[k + 1] = Turn(t, after[k])
        <3>1. k + 1 \in 0 .. N /\ k + 1 # 0 /\ (k + 1) - 1 = k
            BY <1>1
        <3> QED BY <1>3, <3>1
    <2>3. CASE after[k].stack = << >>
        BY <2>1, <2>2, <2>3 DEF Turn
    <2>4. CASE after[k].stack # << >>
        BY <2>1, <2>2, <2>4, TurnWalks
    <2> QED BY <2>3, <2>4
<1>6. \A k \in Nat : k \in S
    <2> HIDE DEF S
    <2> QED BY <1>4, <1>5, Induction
<1> DEFINE s == after[N]
           order == s.order
<1>7. Walked(t, n, s) /\ (s.stack = << >> \/ Len(order) = N)
    BY <1>1, <1>6
<1> HIDE DEF s
<1>8. order \in Seq(L) /\ Apart(order)
    BY <1>7 DEF Walked
<1>9. s.stack = << >>
    <2> SUFFICES ASSUME s.stack # << >> PROVE FALSE
        OBVIOUS
    <2>1. Len(order) = N
        BY <1>7
    <2>2. order \in Injection(1 .. N, L)
        <3>1. order \in [1 .. N -> L]
            BY <1>8, <2>1
        <3> QED BY <1>8, <2>1, <3>1 DEF Injection, IsInjective, Apart
    <2>3. IsFiniteSet(1 .. N) /\ Cardinality(1 .. N) = N
        BY <1>1, FS_Interval
    <2>4. order \in Surjection(1 .. N, L)
        BY <1>1, <2>2, <2>3, FS_Injection DEF N
    <2>5. L \subseteq ToSet(order)
        BY <2>1, <2>4, <1>8 DEF Surjection, ToSet
    <2>6. Last(s.stack) \in ToSet(s.stack) /\ Last(s.stack) \in L
        BY <1>7, LastIs, ToSetIs DEF Walked
    <2> QED BY <1>7, <2>5, <2>6 DEF Walked
<1>10. ToSet(s.stack) = {}
    BY <1>9 DEF ToSet
<1>11. Branch(t, n, ToSet(order))
    BY <1>7, <1>10, ToSetIs DEF Branch, Walked, Seen
<1> QED BY <1>2, <1>7, <1>8, <1>11 DEF s, Walked

-----------------------------------------------------------------------------

\* A row of children with some left out, in the same order.
Thinned(r, row) ==
    /\ Len(r) <= Len(row)
    /\ \A i, j \in 1 .. Len(r) : i < j =>
         \E a, b \in 1 .. Len(row) : a < b /\ row[a] = r[i] /\ row[b] = r[j]

\* The tree u is t with some nodes out of it.
Pruned(t, u) ==
    /\ Grown(u)
    /\ Live(u) \subseteq Live(t) /\ Groups(u) = Groups(t) \cap Live(u)
    /\ \A n \in Live(u) : u.parent[n] = t.parent[n]
    /\ u.paused = t.paused \cap Live(u)
    /\ \A g \in Groups(u) : Thinned(u.kids[g], t.kids[g])

\* Thinning keeps order, and can be done again.
LEMMA RemoveThins ==
    ASSUME NEW L, NEW row \in Seq(L), NEW k \in 1 .. Len(row)
    PROVE  Thinned(RemoveAt(row, k), row)
<1> DEFINE r == RemoveAt(row, k)
<1>1. /\ Len(r) = Len(row) - 1
      /\ \A j \in 1 .. Len(row) - 1 : r[j] = IF j < k THEN row[j] ELSE row[j + 1]
    BY RemoveAtIs
<1> HIDE DEF r
<1>2. Len(row) \in Nat /\ k \in Nat
    OBVIOUS
<1> SUFFICES ASSUME NEW i \in 1 .. Len(r), NEW j \in 1 .. Len(r), i < j
             PROVE  \E a, b \in 1 .. Len(row) : a < b /\ row[a] = r[i] /\ row[b] = r[j]
    BY <1>1, <1>2 DEF Thinned, r
<1>3. CASE j < k
    BY <1>1, <1>2, <1>3, SMTT(30)
<1>4. CASE i < k /\ ~ (j < k)
    <2>1. i \in 1 .. Len(row) /\ j + 1 \in 1 .. Len(row) /\ i < j + 1
        BY <1>1, <1>2
    <2>2. row[i] = r[i] /\ row[j + 1] = r[j]
        BY <1>1, <1>2, <1>4
    <2> QED BY <2>1, <2>2
<1>5. CASE ~ (i < k)
    <2>1. i + 1 \in 1 .. Len(row) /\ j + 1 \in 1 .. Len(row) /\ i + 1 < j + 1
        BY <1>1, <1>2
    <2>2. row[i + 1] = r[i] /\ row[j + 1] = r[j]
        BY <1>1, <1>2, <1>5
    <2> QED BY <2>1, <2>2
<1> QED BY <1>2, <1>3, <1>4, <1>5

LEMMA ThinnedSame == ASSUME NEW L, NEW row \in Seq(L) PROVE Thinned(row, row)
<1> Len(row) \in Nat
    OBVIOUS
<1> QED BY DEF Thinned

LEMMA ThinnedTwice ==
    ASSUME NEW L, NEW q \in Seq(L), NEW r \in Seq(L), NEW s \in Seq(L), Thinned(q, r), Thinned(r, s)
    PROVE  Thinned(q, s)
<1>1. Len(q) \in Nat /\ Len(r) \in Nat /\ Len(s) \in Nat
    OBVIOUS
<1>2. Len(q) <= Len(s)
    BY <1>1 DEF Thinned
<1> SUFFICES ASSUME NEW i \in 1 .. Len(q), NEW j \in 1 .. Len(q), i < j
             PROVE  \E a, b \in 1 .. Len(s) : a < b /\ s[a] = q[i] /\ s[b] = q[j]
    BY <1>2 DEF Thinned
<1>3. PICK a \in 1 .. Len(r), b \in 1 .. Len(r) : a < b /\ r[a] = q[i] /\ r[b] = q[j]
    BY DEF Thinned
<1>4. PICK c \in 1 .. Len(s), d \in 1 .. Len(s) : c < d /\ s[c] = r[a] /\ s[d] = r[b]
    BY <1>3 DEF Thinned
<1> QED BY <1>3, <1>4

\* So can pruning.
LEMMA PrunedSame == ASSUME NEW t, Grown(t) PROVE Pruned(t, t)
<1>1. \A g \in Groups(t) : t.kids[g] \in Seq(Live(t))
    BY DEF Grown, Shaped
<1>2. \A g \in Groups(t) : Thinned(t.kids[g], t.kids[g])
    BY <1>1, ThinnedSame
<1>3. Groups(t) \subseteq Live(t) /\ t.paused \subseteq Live(t)
    BY DEF Grown, Shaped
<1> QED BY <1>2, <1>3 DEF Pruned

LEMMA PrunedTwice ==
    ASSUME NEW t, NEW u, NEW v, Grown(t), Pruned(t, u), Pruned(u, v)
    PROVE  Pruned(t, v)
<1>1. Grown(u) /\ Grown(v) /\ Live(v) \subseteq Live(u) /\ Live(u) \subseteq Live(t)
    BY DEF Pruned
<1>2. Groups(v) = Groups(t) \cap Live(v)
    BY <1>1 DEF Pruned
<1>3. \A n \in Live(v) : v.parent[n] = t.parent[n]
    BY <1>1 DEF Pruned
<1>4. v.paused = t.paused \cap Live(v)
    BY <1>1 DEF Pruned
<1>5. ASSUME NEW g \in Groups(v) PROVE Thinned(v.kids[g], t.kids[g])
    <2>1. g \in Groups(u) /\ g \in Groups(t)
        BY <1>1, <1>2, <1>5 DEF Pruned
    <2>2. v.kids[g] \in Seq(Live(t)) /\ u.kids[g] \in Seq(Live(t)) /\ t.kids[g] \in Seq(Live(t))
        <3>1. v.kids[g] \in Seq(Live(v)) /\ u.kids[g] \in Seq(Live(u)) /\ t.kids[g] \in Seq(Live(t))
            BY <1>1, <1>5, <2>1 DEF Grown, Shaped
        <3>2. Seq(Live(v)) \subseteq Seq(Live(t)) /\ Seq(Live(u)) \subseteq Seq(Live(t))
            BY <1>1
        <3> QED BY <3>1, <3>2
    <2> QED BY <1>5, <2>1, <2>2, ThinnedTwice DEF Pruned
<1> QED BY <1>1, <1>2, <1>3, <1>4, <1>5 DEF Pruned

\* A node and what is in it are taken out.
Cut(t, n) == Without(Unlink(t, n), ToSet(ByStack(t, n)))

\* What a cut leaves, field by field.
LEMMA CutFields ==
    ASSUME NEW t, Grown(t), NEW n \in Live(t) \ {Root}
    PROVE  LET S == ToSet(ByStack(t, n))
               p == t.parent[n]
               kids == [t.kids EXCEPT ![p] = RemoveAt(t.kids[p], At(t, n))]
           IN  Cut(t, n) = [parent |-> [m \in Live(t) \ S |-> t.parent[m]],
                              kids |-> [g \in Groups(t) \ S |-> kids[g]],
                              paused |-> t.paused \ S]
<1> DEFINE S == ToSet(ByStack(t, n))
           p == t.parent[n]
           kids == [t.kids EXCEPT ![p] = RemoveAt(t.kids[p], At(t, n))]
<1>1. t = [parent |-> [m \in Live(t) |-> t.parent[m]], kids |-> [g \in Groups(t) |-> t.kids[g]],
           paused |-> t.paused]
    BY DEF Grown, Shaped
<1>2. Unlink(t, n) = [t EXCEPT !.kids = kids]
    BY <1>1 DEF Unlink
<1>3. /\ Unlink(t, n).parent = t.parent /\ Unlink(t, n).kids = kids
      /\ Unlink(t, n).paused = t.paused
    BY <1>1, <1>2
<1>4. DOMAIN kids = Groups(t)
    BY DEF Groups
<1> HIDE DEF kids, S
<1> QED BY <1>3, <1>4 DEF Cut, Without, Restrict, Live, Groups, S, kids

\* A row within a set is a row of that set.
LEMMA SeqIn ==
    ASSUME NEW L, NEW M, NEW s \in Seq(L), \A i \in 1 .. Len(s) : s[i] \in M
    PROVE  s \in Seq(M)
OBVIOUS

\* A cut prunes: the node and all under it are out, the rest stays.
LEMMA CutPrunes ==
    ASSUME NEW t, Grown(t), NEW n \in Live(t) \ {Root}
    PROVE  /\ Pruned(t, Cut(t, n))
           /\ Live(Cut(t, n)) = Live(t) \ ToSet(ByStack(t, n))
<1> DEFINE S == ToSet(ByStack(t, n))
           p == t.parent[n]
           row == RemoveAt(t.kids[p], At(t, n))
           u == Cut(t, n)
<1>1. Branch(t, n, S) /\ S \subseteq Live(t) /\ n \in S
    BY ByStackIs DEF Branch
<1> HIDE DEF S
<1>2. p \in Groups(t) /\ t.kids[p] \in Seq(Live(t)) /\ At(t, n) \in 1 .. Len(t.kids[p])
      /\ t.kids[p][At(t, n)] = n
    BY AtIs
<1>3. /\ row \in Seq(Live(t)) /\ Thinned(row, t.kids[p])
      /\ Apart(row) /\ ToSet(row) = ToSet(t.kids[p]) \ {n}
    <2>1. Apart(t.kids[p])
        BY <1>2 DEF Grown, Linked
    <2> QED BY <1>2, <2>1, RemoveAtIs, RemoveThins, RemoveApart
<1> DEFINE kids == [t.kids EXCEPT ![p] = row]
<1>4. u = [parent |-> [m \in Live(t) \ S |-> t.parent[m]],
           kids |-> [g \in Groups(t) \ S |-> kids[g]],
           paused |-> t.paused \ S]
    BY CutFields DEF S
<1>5. \A g \in Groups(t) : kids[g] = IF g = p THEN row ELSE t.kids[g]
    BY <1>2 DEF Groups
<1> HIDE DEF kids, row, u
<1>6. /\ Live(u) = Live(t) \ S /\ Groups(u) = Groups(t) \ S /\ u.paused = t.paused \ S
      /\ \A m \in Live(u) : u.parent[m] = t.parent[m]
      /\ \A g \in Groups(u) : u.kids[g] = IF g = p THEN row ELSE t.kids[g]
      /\ u = [parent |-> [m \in Live(u) |-> u.parent[m]], kids |-> [g \in Groups(u) |-> u.kids[g]],
              paused |-> u.paused]
    <2>1. /\ u.parent = [m \in Live(t) \ S |-> t.parent[m]]
          /\ u.kids = [g \in Groups(t) \ S |-> kids[g]]
          /\ u.paused = t.paused \ S
        BY <1>4
    <2>2. Live(u) = Live(t) \ S /\ Groups(u) = Groups(t) \ S
        BY <2>1 DEF Live, Groups
    <2>3. /\ \A m \in Live(u) : u.parent[m] = t.parent[m]
          /\ \A g \in Groups(u) : u.kids[g] = IF g = p THEN row ELSE t.kids[g]
        BY <2>1, <2>2, <1>5
    <2>4. /\ u.parent = [m \in Live(u) |-> u.parent[m]]
          /\ u.kids = [g \in Groups(u) |-> u.kids[g]]
        BY <2>1, <2>2
    <2> QED BY <1>4, <2>1, <2>2, <2>3, <2>4
<1>7. /\ Root \in Groups(t) /\ Groups(t) \subseteq Live(t) /\ NoNode \notin Live(t)
      /\ t.parent[Root] = NoNode /\ \A m \in Live(t) \ {Root} : t.parent[m] \in Groups(t)
      /\ \A g \in Groups(t) : t.kids[g] \in Seq(Live(t)) /\ t.paused \subseteq Live(t)
    BY DEF Grown, Shaped
<1>8. Root \notin S
    BY <1>1, <1>7 DEF Branch
<1>9. \A m \in Live(u) \ {Root} : t.parent[m] \in Groups(u)
    BY <1>1, <1>6, <1>7 DEF Branch
\* The rows are those of t without the dead.
<1>10. ASSUME NEW g \in Groups(u)
       PROVE  /\ u.kids[g] \in Seq(Live(u)) /\ Apart(u.kids[g]) /\ Thinned(u.kids[g], t.kids[g])
              /\ \A m \in Live(u) : m \in ToSet(u.kids[g]) <=> t.parent[m] = g
    <2>0. g \in Groups(t) /\ g \notin S
        BY <1>6
    <2>1. t.kids[g] \in Seq(Live(t)) /\ Apart(t.kids[g])
          /\ \A m \in Live(t) : m \in ToSet(t.kids[g]) <=> t.parent[m] = g
        BY <2>0, <1>7 DEF Grown, Linked
    <2>2. /\ u.kids[g] \in Seq(Live(t)) /\ Apart(u.kids[g]) /\ Thinned(u.kids[g], t.kids[g])
          /\ ToSet(u.kids[g]) = ToSet(t.kids[g]) \ {n}
        <3>1. CASE g = p
            BY <1>3, <1>6, <3>1
        <3>2. CASE g # p
            <4>1. u.kids[g] = t.kids[g] /\ n \notin ToSet(t.kids[g])
                BY <1>6, <2>1, <3>2
            <4> QED BY <2>1, <4>1, ThinnedSame
        <3> QED BY <3>1, <3>2
    <2>3. \A i \in 1 .. Len(u.kids[g]) : u.kids[g][i] \in Live(u)
        <3> SUFFICES ASSUME NEW i \in 1 .. Len(u.kids[g]) PROVE u.kids[g][i] \notin S
            BY <1>6, <2>2, ToSetIs
        <3>1. u.kids[g][i] \in ToSet(u.kids[g]) /\ u.kids[g][i] \in Live(t)
            BY <2>2, ToSetIs
        <3>2. u.kids[g][i] # n /\ t.parent[u.kids[g][i]] = g
            BY <2>1, <2>2, <3>1
        <3> QED BY <1>1, <2>0, <3>2 DEF Branch
    <2>4. u.kids[g] \in Seq(Live(u))
        BY <2>2, <2>3, SeqIn
    <2>5. \A m \in Live(u) : m # n /\ m \in Live(t)
        BY <1>1, <1>6
    <2> QED BY <2>1, <2>2, <2>4, <2>5
<1>11. Shaped(u)
    <2>1. IsFiniteSet(Live(u))
        BY <1>6, FS_Subset DEF Grown, Shaped
    <2> QED BY <1>6, <1>7, <1>8, <1>9, <1>10, <2>1 DEF Shaped
<1>12. Linked(u)
    BY <1>6, <1>10 DEF Linked
<1>13. Rooted(u)
    <2> SUFFICES ASSUME NEW B \in SUBSET (Live(u) \ {Root}), B # {}
                 PROVE  \E m \in B : u.parent[m] \notin B
        BY DEF Rooted
    <2>1. PICK m \in B : t.parent[m] \notin B
        BY <1>6 DEF Grown, Rooted
    <2> QED BY <1>6, <2>1
<1>14. Groups(u) = Groups(t) \cap Live(u) /\ u.paused = t.paused \cap Live(u)
    BY <1>6, <1>7
<1> QED BY <1>6, <1>10, <1>11, <1>12, <1>13, <1>14 DEF Pruned, Grown, S, u

\* Parents are live groups.
LEMMA ParentsLive ==
    ASSUME NEW t, Grown(t)
    PROVE  /\ Root \in Live(t) /\ \A m \in Live(t) \ {Root} : t.parent[m] \in Live(t)
           /\ Groups(t) \subseteq Live(t)
BY DEF Grown, Shaped

\* What is visited from n is what n is above.
LEMMA BranchAbove ==
    ASSUME NEW t, Grown(t), NEW n \in Live(t), NEW S, Branch(t, n, S)
    PROVE  S = {m \in Live(t) : n \in Above(t, m)}
<1>1. ASSUME NEW m \in S PROVE n \in Above(t, m)
    <2> DEFINE Bad == {k \in S : n \notin Above(t, k)}
    <2> SUFFICES ASSUME Bad # {} PROVE FALSE
        BY <1>1
    <2>1. \A k \in Bad : k \in Live(t) /\ k # n /\ k # Root
        BY AboveClosed DEF Branch
    <2>2. PICK k \in Bad : t.parent[k] \notin Bad
        BY <2>1 DEF Grown, Rooted
    <2>3. t.parent[k] \in S
        BY <2>1, <2>2 DEF Branch
    <2>4. n \in Above(t, t.parent[k])
        BY <2>2, <2>3
    <2>5. Above(t, k) = {k} \cup Above(t, t.parent[k])
        BY <2>1, AboveIs
    <2> QED BY <2>2, <2>4, <2>5
<1>2. ASSUME NEW m \in Live(t), n \in Above(t, m) PROVE m \in S
    <2> DEFINE Bad == {k \in Live(t) : n \in Above(t, k) /\ k \notin S}
    <2> SUFFICES ASSUME Bad # {} PROVE FALSE
        BY <1>2
    <2>1. \A k \in Bad : k # n /\ k # Root
        BY AboveIs DEF Branch
    <2>2. PICK k \in Bad : t.parent[k] \notin Bad
        BY <2>1 DEF Grown, Rooted
    <2>3. Above(t, k) = {k} \cup Above(t, t.parent[k]) /\ t.parent[k] \in Live(t)
        BY <2>1, AboveIs, ParentsLive
    <2>4. t.parent[k] \in S
        BY <2>1, <2>2, <2>3
    <2>5. k \in S
        BY <2>1, <2>2, <2>4 DEF Branch
    <2> QED BY <2>2, <2>5
<1> QED BY <1>1, <1>2 DEF Branch

\* What is above a node stays so while it lives.
LEMMA AbovePruned ==
    ASSUME NEW t, NEW u, Grown(t), Pruned(t, u), NEW m \in Live(u)
    PROVE  Above(u, m) = Above(t, m)
<1> DEFINE Bad == {k \in Live(u) : Above(u, k) # Above(t, k)}
<1>1. Grown(u) /\ Live(u) \subseteq Live(t) /\ \A k \in Live(u) : u.parent[k] = t.parent[k]
    BY DEF Pruned
<1>2. Root \notin Bad
    BY <1>1, AboveIs, ParentsLive
<1> SUFFICES ASSUME Bad # {} PROVE FALSE
    OBVIOUS
<1>3. PICK k \in Bad : u.parent[k] \notin Bad
    BY <1>1, <1>2 DEF Grown, Rooted
<1>4. k # Root /\ k \in Live(u) /\ u.parent[k] \in Live(u)
    BY <1>1, <1>2, ParentsLive
<1>5. Above(u, k) = {k} \cup Above(u, u.parent[k]) /\ Above(t, k) = {k} \cup Above(t, t.parent[k])
    BY <1>1, <1>4, AboveIs
<1> QED BY <1>1, <1>3, <1>4, <1>5

\* Nodes kept with all above them are not under one that is not kept.
KeptWhole(t, K) == K \subseteq Live(t) /\ \A k \in K : k # Root => t.parent[k] \in K

\* What is above a kept node is kept.
LEMMA AboveKept ==
    ASSUME NEW t, Grown(t), NEW m \in Live(t)
    PROVE  KeptWhole(t, Above(t, m))
BY AboveClosed DEF KeptWhole

LEMMA KeptOutside ==
    ASSUME NEW t, Grown(t), NEW K, KeptWhole(t, K), NEW m \in K
    PROVE  Above(t, m) \subseteq K
<1> DEFINE Bad == {k \in K : ~ (Above(t, k) \subseteq K)}
<1> SUFFICES ASSUME Bad # {} PROVE FALSE
    OBVIOUS
<1>1. \A k \in Bad : k \in Live(t) /\ k # Root
    BY AboveIs DEF KeptWhole
<1>2. PICK k \in Bad : t.parent[k] \notin Bad
    BY <1>1 DEF Grown, Rooted
<1>3. Above(t, k) = {k} \cup Above(t, t.parent[k]) /\ t.parent[k] \in K
    BY <1>1, <1>2, AboveIs DEF KeptWhole
<1> QED BY <1>2, <1>3

\* What x makes of the tree t, by freeing: it keeps K, and reports every death
\* once, with the parent the node had, no node after what was in it.
Came(t, x, K) ==
    /\ x = [tree |-> x.tree, deaths |-> x.deaths]
    /\ Pruned(t, x.tree)
    /\ KeptWhole(t, K) /\ K \subseteq Live(x.tree)
    /\ x.deaths \in Seq(Live(t) \X Live(t))
    /\ \A i \in 1 .. Len(x.deaths) :
         /\ x.deaths[i][2] = t.parent[x.deaths[i][1]]
         /\ x.deaths[i][2] \in K \/ x.deaths[i][2] \notin Live(x.tree)
         /\ \A j \in 1 .. Len(x.deaths) : x.deaths[i][1] = x.deaths[j][1] => i = j
         /\ \A j \in 1 .. Len(x.deaths) : i < j => x.deaths[i][2] # x.deaths[j][1]
    /\ \A n \in Live(t) :
         n \in Live(x.tree) <=> \A i \in 1 .. Len(x.deaths) : x.deaths[i][1] # n

\* A free takes out the node and what is in it, and reports them.
LEMMA FreeComes ==
    ASSUME NEW t, Grown(t), NEW x, NEW K, Came(t, x, K),
           NEW n, n \in Live(x.tree) => n # Root /\ n \notin K /\ t.parent[n] \in K
    PROVE  /\ Came(t, Free(x, n), K)
           /\ Live(Free(x, n).tree) = {m \in Live(x.tree) : n \notin Above(t, m)}
<1> DEFINE u == x.tree
           order == ByStack(u, n)
           S == ToSet(order)
           add == [i \in DOMAIN order |-> <<order[i], u.parent[order[i]]>>]
           y == Free(x, n)
<1>1. Grown(u) /\ Live(u) \subseteq Live(t) /\ \A m \in Live(u) : u.parent[m] = t.parent[m]
    BY DEF Came, Pruned
<1>2. \A m \in Live(u) : Above(t, m) \subseteq Live(u) /\ Above(t, m) = Above(u, m)
    BY <1>1, AbovePruned, AboveClosed DEF Came
<1>3. CASE n \notin Live(u)
    <2>1. Free(x, n) = x
        BY <1>3 DEF Free
    <2> QED BY <1>2, <1>3, <2>1
<1>4. CASE n \in Live(u)
    <2>0. n # Root /\ n \notin K /\ t.parent[n] \in K
        BY <1>4
    <2>1. y = [tree |-> Cut(u, n), deaths |-> x.deaths \o add]
        BY <1>4, <2>0 DEF Free, Cut
    <2>2. /\ order \in Seq(Live(u)) /\ Apart(order) /\ Branch(u, n, S)
          /\ \A i, j \in 1 .. Len(order) : i < j => u.parent[order[i]] # order[j]
        BY <1>1, <1>4, ByStackIs
    <2>3. Pruned(u, Cut(u, n)) /\ Live(Cut(u, n)) = Live(u) \ S
        BY <1>1, <1>4, <2>0, CutPrunes
    <2>4. S = {m \in Live(u) : n \in Above(t, m)}
        BY <1>1, <1>2, <1>4, <2>2, BranchAbove
    <2>5. Pruned(t, Cut(u, n))
        BY <2>3, PrunedTwice DEF Came
    <2>6. Live(Cut(u, n)) = {m \in Live(u) : n \notin Above(t, m)}
        BY <2>3, <2>4
    <2>7. K \subseteq Live(Cut(u, n))
        <3>1. \A k \in K : n \notin Above(t, k)
            BY <2>0, KeptOutside DEF Came
        <3> QED BY <2>6, <3>1 DEF Came
    <2>8. Root \notin S
        BY <2>0, <2>2 DEF Branch
    <2> HIDE DEF S, order
    <2>9. /\ add \in Seq(Live(t) \X Live(t)) /\ Len(add) = Len(order)
          /\ \A i \in 1 .. Len(order) : /\ add[i] = <<order[i], t.parent[order[i]]>>
                                         /\ order[i] \in S /\ order[i] \in Live(u)
        <3>1. \A i \in 1 .. Len(order) : order[i] \in S /\ order[i] \in Live(u)
            BY <2>2, ToSetIs DEF S
        <3>2. \A i \in 1 .. Len(order) : u.parent[order[i]] \in Live(t)
            BY <1>1, <2>8, <3>1, ParentsLive
        <3>3. DOMAIN order = 1 .. Len(order) /\ Len(order) \in Nat
            BY <2>2
        <3>4. add = [i \in 1 .. Len(order) |-> <<order[i], u.parent[order[i]]>>]
            BY <3>3
        <3> QED BY <1>1, <3>1, <3>2, <3>3, <3>4
    <2> HIDE DEF add
    <2> DEFINE d == x.deaths
               e == d \o add
    <2>10. d \in Seq(Live(t) \X Live(t)) /\ Len(d) \in Nat /\ Len(order) \in Nat
        BY <2>2 DEF Came
    <2>D. d = x.deaths
        OBVIOUS
    <2> HIDE DEF d
    <2>11. /\ e \in Seq(Live(t) \X Live(t)) /\ Len(e) = Len(d) + Len(order)
           /\ \A i \in 1 .. Len(d) + Len(order) : e[i] = IF i <= Len(d) THEN d[i] ELSE add[i - Len(d)]
        <3>1. add \in Seq(Live(t) \X Live(t)) /\ Len(add) = Len(order)
            BY <2>9
        <3> HIDE DEF e
        <3>2. e = d \o add
            BY DEF e
        <3>3. /\ d \o add \in Seq(Live(t) \X Live(t)) /\ Len(d \o add) = Len(d) + Len(add)
              /\ \A i \in 1 .. Len(d) + Len(add) :
                    (d \o add)[i] = IF i <= Len(d) THEN d[i] ELSE add[i - Len(d)]
            BY <2>10, <3>1, JoinIs
        <3> QED BY <3>1, <3>2, <3>3
    <2> HIDE DEF e
    \* Each entry is an old one, of a node that was dead already, or a new one.
    <2>12. ASSUME NEW i \in 1 .. Len(e)
           PROVE  \/ i \in 1 .. Len(d) /\ e[i] = d[i] /\ d[i][1] \notin Live(u) /\ d[i][1] \in Live(t)
                  \/ /\ i > Len(d) /\ i - Len(d) \in 1 .. Len(order)
                     /\ e[i] = <<order[i - Len(d)], t.parent[order[i - Len(d)]]>>
                     /\ order[i - Len(d)] \in S
        <3>1. CASE i <= Len(d)
            <4>1. i \in 1 .. Len(d) /\ e[i] = d[i]
                <5>1. i \in 1 .. Len(d) /\ i \in 1 .. Len(d) + Len(order)
                    BY <2>10, <2>11, <3>1
                <5> QED BY <2>11, <3>1, <5>1
            <4>2. d[i][1] \in Live(t)
                BY <2>10, <4>1
            <4> QED BY <4>1, <4>2, <2>D DEF Came
        <3>2. CASE i > Len(d)
            <4>1. i - Len(d) \in 1 .. Len(order) /\ ~ (i <= Len(d)) /\ i \in 1 .. Len(d) + Len(order)
                BY <2>10, <2>11, <3>2
            <4>2. e[i] = add[i - Len(d)]
                BY <2>11, <4>1
            <4> QED BY <2>9, <3>2, <4>1, <4>2
        <3> QED BY <2>10, <2>11, <3>1, <3>2
    <2>13. ASSUME NEW i \in 1 .. Len(e)
           PROVE  /\ e[i][2] = t.parent[e[i][1]]
                  /\ e[i][2] \in K \/ e[i][2] \notin Live(Cut(u, n))
        <3>1. CASE i \in 1 .. Len(d) /\ e[i] = d[i]
            BY <2>6, <3>1, <2>D DEF Came
        <3>2. CASE /\ i > Len(d) /\ i - Len(d) \in 1 .. Len(order)
                   /\ e[i] = <<order[i - Len(d)], t.parent[order[i - Len(d)]]>>
                   /\ order[i - Len(d)] \in S
            <4>1. CASE order[i - Len(d)] = n
                BY <2>0, <3>2, <4>1
            <4>2. CASE order[i - Len(d)] # n
                <5>1. t.parent[order[i - Len(d)]] \in S
                    BY <1>1, <2>2, <3>2, <4>2 DEF Branch
                <5> QED BY <2>3, <3>2, <5>1
            <4> QED BY <4>1, <4>2
        <3> QED BY <2>12, <3>1, <3>2
    <2>14. ASSUME NEW i \in 1 .. Len(e), NEW j \in 1 .. Len(e)
           PROVE  /\ e[i][1] = e[j][1] => i = j
                  /\ i < j => e[i][2] # e[j][1]
        <3>1. CASE i \in 1 .. Len(d) /\ e[i] = d[i] /\ d[i][1] \notin Live(u)
            <4>1. CASE j \in 1 .. Len(d) /\ e[j] = d[j]
                BY <3>1, <4>1, <2>D DEF Came
            <4>2. CASE /\ j > Len(d) /\ j - Len(d) \in 1 .. Len(order)
                       /\ e[j] = <<order[j - Len(d)], t.parent[order[j - Len(d)]]>>
                       /\ order[j - Len(d)] \in S
                <5>1. e[j][1] \in Live(u) /\ e[j][1] \notin K
                    <6> DEFINE o == order[j - Len(d)]
                    <6>0. o \in Live(u)
                        BY <2>9, <4>2
                    <6>1. e[j][1] = o /\ o \in S /\ o \in Live(u)
                        BY <4>2, <6>0
                    <6>2. o \notin Live(Cut(u, n))
                        BY <2>3, <6>1
                    <6> QED BY <2>7, <6>1, <6>2
                <5>2. d[i][2] \in K \/ d[i][2] \notin Live(u)
                    BY <3>1, <2>D DEF Came
                <5> QED BY <3>1, <5>1, <5>2
            <4> QED BY <2>12, <4>1, <4>2
        <3>2. CASE /\ i > Len(d) /\ i - Len(d) \in 1 .. Len(order)
                   /\ e[i] = <<order[i - Len(d)], t.parent[order[i - Len(d)]]>>
                   /\ order[i - Len(d)] \in S
            <4>1. CASE j \in 1 .. Len(d) /\ e[j] = d[j] /\ d[j][1] \notin Live(u)
                <5>1. e[i][1] \in Live(u)
                    <6> DEFINE o == order[i - Len(d)]
                    <6>1. o \in Live(u)
                        BY <2>9, <3>2
                    <6>2. e[i][1] = o
                        BY <3>2
                    <6> QED BY <6>1, <6>2
                <5> QED BY <2>10, <3>2, <4>1, <5>1
            <4>2. CASE /\ j > Len(d) /\ j - Len(d) \in 1 .. Len(order)
                       /\ e[j] = <<order[j - Len(d)], t.parent[order[j - Len(d)]]>>
                <5>1. order[i - Len(d)] = order[j - Len(d)] => i - Len(d) = j - Len(d)
                    BY <2>2, <3>2, <4>2 DEF Apart
                <5>2. i < j => t.parent[order[i - Len(d)]] # order[j - Len(d)]
                    <6> DEFINE a == i - Len(d)
                               b == j - Len(d)
                    <6>1. i < j => a < b
                        <7>1. i \in Nat /\ j \in Nat /\ Len(d) \in Nat
                            BY <2>10, <2>11
                        <7> QED BY <7>1
                    <6>2. a \in 1 .. Len(order) /\ b \in 1 .. Len(order)
                        BY <3>2, <4>2
                    <6> HIDE DEF a, b, u
                    <6>3. a < b => u.parent[order[a]] # order[b]
                        BY <2>2, <6>2
                    <6>4. u.parent[order[a]] = t.parent[order[a]]
                        BY <1>1, <2>9, <6>2
                    <6>5. a < b => t.parent[order[a]] # order[b]
                        BY <6>3, <6>4
                    <6> QED BY <6>1, <6>5 DEF a, b
                <5> QED BY <2>10, <2>11, <3>2, <4>2, <5>1, <5>2
            <4> QED BY <2>12, <4>1, <4>2
        <3> QED BY <2>12, <3>1, <3>2
    <2>15. ASSUME NEW m \in Live(t)
           PROVE  m \in Live(Cut(u, n)) <=> \A i \in 1 .. Len(e) : e[i][1] # m
        <3>1. CASE m \notin Live(u)
            <4>1. PICK i \in 1 .. Len(d) : d[i][1] = m
                BY <3>1, <2>D DEF Came
            <4>2. i \in 1 .. Len(e) /\ e[i] = d[i]
                <5>1. i \in 1 .. Len(d) + Len(order) /\ i <= Len(d)
                    BY <2>10, <4>1
                <5> QED BY <2>11, <5>1
            <4> QED BY <2>3, <3>1, <4>1, <4>2
        <3>2. CASE m \in S
            <4>1. PICK i \in 1 .. Len(order) : order[i] = m
                BY <2>2, <3>2, ToSetIs DEF S
            <4>2. i + Len(d) \in 1 .. Len(e) /\ e[i + Len(d)] = add[i]
                <5>1. i \in Nat /\ i >= 1 /\ i <= Len(order)
                    BY <2>10, <4>1
                <5>2. i + Len(d) \in 1 .. Len(d) + Len(order) /\ ~ (i + Len(d) <= Len(d))
                      /\ (i + Len(d)) - Len(d) = i
                    BY <2>10, <5>1
                <5> QED BY <2>11, <5>2
            <4>3. e[i + Len(d)][1] = m
                BY <2>9, <4>1, <4>2
            <4> QED BY <2>3, <3>2, <4>2, <4>3
        <3>3. CASE m \in Live(u) /\ m \notin S
            <4>1. \A i \in 1 .. Len(e) : e[i][1] # m
                BY <2>12, <3>3
            <4> QED BY <2>3, <3>3, <4>1
        <3> QED BY <3>1, <3>2, <3>3
    <2>16. y.tree = Cut(u, n) /\ y.deaths = e /\ y = [tree |-> y.tree, deaths |-> y.deaths]
        BY <2>1, <2>D DEF e
    <2> HIDE DEF y
    <2>17. KeptWhole(t, K)
        BY DEF Came
    <2>18. Came(t, y, K)
        BY <2>5, <2>7, <2>11, <2>13, <2>14, <2>15, <2>16, <2>17, <2>D DEF Came
    <2> QED BY <2>6, <2>16, <2>18 DEF y
<1> QED BY <1>3, <1>4

\* What a free leaves, by the tree there was before it.
LEMMA FreeLeaves ==
    ASSUME NEW t, Grown(t), NEW y, NEW K, Came(t, y, K),
           NEW r, r \in Live(y.tree) => r # Root /\ r \notin K /\ t.parent[r] \in K
    PROVE  \A m : m \in Live(Free(y, r).tree) <=> m \in Live(y.tree) /\ r \notin Above(t, m)
<1>1. Live(Free(y, r).tree) = {m \in Live(y.tree) : r \notin Above(t, m)}
    BY FreeComes
<1> QED BY <1>1

\* Each of a row is freed whose parent is kept.
LEMMA FreeEachComes ==
    ASSUME NEW t, Grown(t), NEW x, NEW K, Came(t, x, K), NEW R, NEW row \in Seq(R), NEW spared,
           \A i \in 1 .. Len(row) : row[i] \notin spared /\ row[i] \in Live(x.tree) =>
               row[i] # Root /\ row[i] \notin K /\ t.parent[row[i]] \in K
    PROVE  /\ Came(t, FreeEach(x, row, spared), K)
           /\ Live(FreeEach(x, row, spared).tree) =
                {m \in Live(x.tree) :
                    \A i \in 1 .. Len(row) : row[i] \notin spared => row[i] \notin Above(t, m)}
<1> DEFINE N == Len(row)
           after[k \in 0 .. N] ==
               IF k = 0 THEN x
               ELSE IF row[k] \in spared THEN after[k - 1] ELSE Free(after[k - 1], row[k])
           Left(k) == {m \in Live(x.tree) :
                          \A i \in 1 .. k : row[i] \notin spared => row[i] \notin Above(t, m)}
           S == {k \in Nat : k <= N => /\ Came(t, after[k], K)
                                        /\ Live(after[k].tree) = Left(k)}
<1>1. N \in Nat
    OBVIOUS
<1>2. FreeEach(x, row, spared) = after[N]
    BY DEF FreeEach
<1> HIDE DEF N
<1>3. after = [k \in 0 .. N |->
                 IF k = 0 THEN x
                 ELSE IF row[k] \in spared THEN after[k - 1] ELSE Free(after[k - 1], row[k])]
    <2> DEFINE Has(M) == \E g : g = [k \in 0 .. M |->
                                        IF k = 0 THEN x
                                        ELSE IF row[k] \in spared THEN g[k - 1]
                                        ELSE Free(g[k - 1], row[k])]
               T == {M \in Nat : Has(M)}
    <2>1. 0 \in T
        <3> DEFINE g == [k \in 0 .. 0 |-> x]
        <3>1. g = [k \in 0 .. 0 |-> IF k = 0 THEN x
                                    ELSE IF row[k] \in spared THEN g[k - 1]
                                    ELSE Free(g[k - 1], row[k])]
            OBVIOUS
        <3> HIDE DEF g
        <3> QED BY <3>1
    <2>2. ASSUME NEW M \in Nat, M \in T PROVE M + 1 \in T
        <3>1. PICK g : g = [k \in 0 .. M |-> IF k = 0 THEN x
                                             ELSE IF row[k] \in spared THEN g[k - 1]
                                             ELSE Free(g[k - 1], row[k])]
            BY <2>2
        <3> DEFINE h == [k \in 0 .. M + 1 |->
                            IF k <= M THEN g[k]
                            ELSE IF row[k] \in spared THEN g[M] ELSE Free(g[M], row[k])]
        <3>2. \A k \in 0 .. M + 1 : h[k] = IF k = 0 THEN x
                                           ELSE IF row[k] \in spared THEN h[k - 1]
                                           ELSE Free(h[k - 1], row[k])
            <4> SUFFICES ASSUME NEW k \in 0 .. M + 1
                         PROVE  h[k] = IF k = 0 THEN x
                                       ELSE IF row[k] \in spared THEN h[k - 1]
                                       ELSE Free(h[k - 1], row[k])
                OBVIOUS
            <4>1. CASE k = 0
                BY <3>1, <4>1
            <4>2. CASE k # 0 /\ k <= M
                BY <3>1, <4>2
            <4>3. CASE k = M + 1
                BY <4>3
            <4> QED BY <4>1, <4>2, <4>3
        <3>3. h = [k \in 0 .. M + 1 |-> IF k = 0 THEN x
                                        ELSE IF row[k] \in spared THEN h[k - 1]
                                        ELSE Free(h[k - 1], row[k])]
            BY <3>2
        <3> HIDE DEF h
        <3> QED BY <3>3
    <2> HIDE DEF T
    <2>3. \A M \in Nat : M \in T
        BY <2>1, <2>2, Induction
    <2>4. \A M \in Nat : Has(M)
        BY <2>3 DEF T
    <2>5. \E g : g = [k \in 0 .. N |-> IF k = 0 THEN x
                                       ELSE IF row[k] \in spared THEN g[k - 1]
                                       ELSE Free(g[k - 1], row[k])]
        BY <1>1, <2>4
    <2> HIDE DEF Has
    <2> QED BY <2>5
<1> HIDE DEF after
<1>4. 0 \in S
    <2>1. after[0] = x
        BY <1>1, <1>3
    <2> QED BY <2>1
<1>5. ASSUME NEW k \in Nat, k \in S PROVE k + 1 \in S
    <2> SUFFICES ASSUME k + 1 <= N
                 PROVE  Came(t, after[k + 1], K) /\ Live(after[k + 1].tree) = Left(k + 1)
        OBVIOUS
    <2>1. Came(t, after[k], K) /\ Live(after[k].tree) = Left(k) /\ k + 1 \in 1 .. Len(row)
        BY <1>1, <1>5 DEF N
    <2>2. after[k + 1] = IF row[k + 1] \in spared THEN after[k] ELSE Free(after[k], row[k + 1])
        <3>1. k + 1 \in 0 .. N /\ k + 1 # 0 /\ (k + 1) - 1 = k
            BY <1>1
        <3> QED BY <1>3, <3>1
    <2>3. \A i \in 1 .. k + 1 : i \in 1 .. k \/ i = k + 1
        OBVIOUS
    <2>4. \A i \in 1 .. k : i \in 1 .. k + 1
        OBVIOUS
    <2>5. CASE row[k + 1] \in spared
        <3>1. Left(k + 1) = Left(k)
            BY <2>3, <2>4, <2>5
        <3> QED BY <2>1, <2>2, <2>5, <3>1
    <2>6. CASE row[k + 1] \notin spared
        <3>1. Left(k + 1) = {m \in Left(k) : row[k + 1] \notin Above(t, m)}
            BY <2>3, <2>4, <2>6
        <3>2. row[k + 1] \in Live(after[k].tree) =>
                 row[k + 1] # Root /\ row[k + 1] \notin K /\ t.parent[row[k + 1]] \in K
            BY <2>1, <2>6
        <3> HIDE DEF Left
        <3>3. /\ Came(t, Free(after[k], row[k + 1]), K)
              /\ Live(Free(after[k], row[k + 1]).tree) =
                   {m \in Live(after[k].tree) : row[k + 1] \notin Above(t, m)}
            <4> DEFINE y == after[k]
                       r == row[k + 1]
            <4>1. Came(t, y, K) /\ (r \in Live(y.tree) => r # Root /\ r \notin K /\ t.parent[r] \in K)
                BY <2>1, <3>2
            <4> HIDE DEF y, r
            <4>2. Came(t, Free(y, r), K)
                BY <4>1, FreeComes
            <4>3. Live(Free(y, r).tree) = {m \in Live(y.tree) : r \notin Above(t, m)}
                BY <4>1, FreeComes
            <4> QED BY <4>2, <4>3 DEF y, r
        <3> QED BY <2>1, <2>2, <2>6, <3>1, <3>3
    <2> QED BY <2>5, <2>6
<1>6. \A k \in Nat : k \in S
    <2> HIDE DEF S
    <2> QED BY <1>4, <1>5, Induction
<1> QED BY <1>1, <1>2, <1>6 DEF N

\* The start of every operation: nothing is freed yet.
LEMMA StartCame ==
    ASSUME NEW t, Grown(t), NEW K, KeptWhole(t, K)
    PROVE  Came(t, [tree |-> t, deaths |-> << >>], K)
<1> DEFINE x == [tree |-> t, deaths |-> << >>]
<1>1. x.deaths = << >> /\ x.tree = t /\ x = [tree |-> x.tree, deaths |-> x.deaths]
    OBVIOUS
<1>2. Len(<< >>) = 0 /\ << >> \in Seq(Live(t) \X Live(t))
    OBVIOUS
<1> HIDE DEF x
<1> QED BY <1>1, <1>2, PrunedSame DEF Came, KeptWhole, x

\* A node is not above its own parent.
LEMMA NotAboveParent ==
    ASSUME NEW t, Grown(t), NEW n \in Live(t) \ {Root}
    PROVE  n \notin Above(t, t.parent[n])
<1> DEFINE p == t.parent[n]
           B == Above(t, p) \ {m \in Above(t, p) : n \notin Above(t, m)}
<1>0. p \in Live(t)
    BY ParentsLive
<1> SUFFICES ASSUME n \in Above(t, p) PROVE FALSE
    OBVIOUS
<1>1. B \subseteq Live(t) \ {Root} /\ p \in B
    <2>1. Above(t, p) \subseteq Live(t) /\ p \in Above(t, p)
        BY <1>0, AboveClosed
    <2>2. Root \notin B
        <3>1. Above(t, Root) = {Root}
            BY ParentsLive, AboveIs
        <3> QED BY <3>1
    <2> QED BY <2>1, <2>2
<1>2. PICK m \in B : t.parent[m] \notin B
    BY <1>1 DEF Grown, Rooted
<1>3. m \in Live(t) /\ m # Root /\ n \in Above(t, m) /\ m \in Above(t, p)
    BY <1>1, <1>2
<1>4. Above(t, m) = {m} \cup Above(t, t.parent[m]) /\ t.parent[m] \in Above(t, p)
    BY <1>0, <1>3, AboveIs, AboveClosed
<1>5. n \notin Above(t, t.parent[m])
    BY <1>2, <1>4
<1>6. m = n
    BY <1>3, <1>4, <1>5
<1> QED BY <1>1, <1>2, <1>6

\* What is above a node but itself is a group.
LEMMA AboveGroups ==
    ASSUME NEW t, Grown(t)
    PROVE  /\ KeptWhole(t, Groups(t))
           /\ \A m \in Live(t), a \in Live(t) : a \in Above(t, m) => a = m \/ a \in Groups(t)
<1>1. KeptWhole(t, Groups(t))
    BY DEF KeptWhole, Grown, Shaped
<1>2. ASSUME NEW m \in Live(t), NEW a \in Above(t, m), a # m PROVE a \in Groups(t)
    <2>1. m # Root /\ a \in Above(t, t.parent[m])
        BY <1>2, AboveIs
    <2>2. t.parent[m] \in Groups(t)
        BY <2>1 DEF Grown, Shaped
    <2> QED BY <1>1, <2>1, <2>2, KeptOutside
<1> QED BY <1>1, <1>2

\* A row reversed.
LEMMA ReverseIs ==
    ASSUME NEW L, NEW s \in Seq(L)
    PROVE  /\ Reverse(s) \in Seq(L) /\ Len(Reverse(s)) = Len(s)
           /\ \A i \in 1 .. Len(s) : /\ Reverse(s)[i] = s[Len(s) - i + 1]
                                      /\ Len(s) - i + 1 \in 1 .. Len(s)
<1>1. Len(s) \in Nat
    OBVIOUS
<1>2. \A i \in 1 .. Len(s) : (Len(s) - i) + 1 \in 1 .. Len(s)
    BY <1>1
<1>3. Reverse(s) = [i \in 1 .. Len(s) |-> s[(Len(s) - i) + 1]]
    BY DEF Reverse
<1>4. \A i \in 1 .. Len(s) : s[(Len(s) - i) + 1] \in L
    BY <1>2
<1> QED BY <1>1, <1>2, <1>3, <1>4

LEMMA ReverseSet ==
    ASSUME NEW L, NEW s \in Seq(L)
    PROVE  ToSet(Reverse(s)) = ToSet(s)
<1>1. /\ Reverse(s) \in Seq(L) /\ Len(Reverse(s)) = Len(s)
      /\ \A i \in 1 .. Len(s) : /\ Reverse(s)[i] = s[Len(s) - i + 1]
                                 /\ Len(s) - i + 1 \in 1 .. Len(s)
    BY ReverseIs
<1>2. Len(s) \in Nat
    OBVIOUS
<1>3. ToSet(Reverse(s)) = {Reverse(s)[i] : i \in 1 .. Len(s)} /\ ToSet(s) = {s[i] : i \in 1 .. Len(s)}
    BY <1>1, ToSetIs
<1>4. \A i \in 1 .. Len(s) : Reverse(s)[i] \in ToSet(s)
    BY <1>1, <1>3
<1>5. ASSUME NEW i \in 1 .. Len(s) PROVE s[i] \in ToSet(Reverse(s))
    <2> DEFINE j == Len(s) - i + 1
    <2>1. j \in 1 .. Len(s) /\ Len(s) - j + 1 = i
        BY <1>2
    <2>2. Reverse(s)[j] = s[i]
        BY <1>1, <2>1
    <2> QED BY <1>3, <2>1, <2>2
<1> QED BY <1>3, <1>4, <1>5

\* What is under a group is under one of its children.
LEMMA UnderGroup ==
    ASSUME NEW t, Grown(t), NEW g \in Groups(t), NEW m \in Live(t)
    PROVE  (\E c \in ToSet(t.kids[g]) : c \in Above(t, m)) <=> m # g /\ g \in Above(t, m)
<1>1. /\ t.kids[g] \in Seq(Live(t)) /\ g \in Live(t) /\ t.parent[Root] # g
      /\ \A k \in Live(t) : k \in ToSet(t.kids[g]) <=> t.parent[k] = g
    BY DEF Grown, Shaped, Linked
<1>2. ToSet(t.kids[g]) \subseteq Live(t)
    BY <1>1, ToSetIs
<1>3. ASSUME m # g, g \in Above(t, m) PROVE \E c \in ToSet(t.kids[g]) : c \in Above(t, m)
    <2> DEFINE B == {k \in Above(t, m) : k # g /\ g \in Above(t, k)}
    <2>1. m \in B /\ B \subseteq Live(t)
        BY <1>3, AboveClosed
    <2>2. Root \notin B
        <3>1. Above(t, Root) = {Root}
            BY ParentsLive, AboveIs
        <3> QED BY <3>1
    <2>3. PICK k \in B : t.parent[k] \notin B
        <3>1. B \in SUBSET (Live(t) \ {Root}) /\ B # {}
            BY <2>1, <2>2
        <3> QED BY <3>1 DEF Grown, Rooted
    <2>4. k \in Live(t) /\ k # Root /\ k # g /\ g \in Above(t, k) /\ k \in Above(t, m)
        BY <2>1, <2>2, <2>3
    <2>5. Above(t, k) = {k} \cup Above(t, t.parent[k]) /\ t.parent[k] \in Above(t, m)
        BY <2>4, AboveIs, AboveClosed
    <2>6. t.parent[k] = g
        BY <2>3, <2>4, <2>5
    <2> QED BY <1>1, <2>4, <2>6
<1>4. ASSUME NEW c \in ToSet(t.kids[g]), c \in Above(t, m) PROVE m # g /\ g \in Above(t, m)
    <2>1. c \in Live(t) \ {Root} /\ t.parent[c] = g
        BY <1>1, <1>2
    <2>2. t.parent[c] \in Above(t, m)
        BY <1>4, <2>1, AboveClosed
    <2>3. m # g
        BY <1>4, <2>1, NotAboveParent
    <2> QED BY <2>1, <2>2, <2>3
<1> QED BY <1>3, <1>4

\* A group is emptied whose parents are kept, itself among them.
LEMMA FreeAllComes ==
    ASSUME NEW t, Grown(t), NEW x, NEW K, Came(t, x, K), NEW g \in K,
           \A m \in Live(x.tree) \ {Root} : t.parent[m] = g => m \notin K
    PROVE  /\ Came(t, FreeAll(x, g), K)
           /\ Live(FreeAll(x, g).tree) = {m \in Live(x.tree) : m # g => g \notin Above(t, m)}
<1> DEFINE u == x.tree
<1>1. Grown(u) /\ Live(u) \subseteq Live(t) /\ g \in Live(u) /\ g \in Live(t)
      /\ \A m \in Live(u) : u.parent[m] = t.parent[m]
      /\ Groups(u) = Groups(t) \cap Live(u)
    BY DEF Came, Pruned
<1>2. \A m \in Live(u) : Above(t, m) = Above(u, m) /\ Above(t, m) \subseteq Live(u)
    BY <1>1, AbovePruned, AboveClosed DEF Came
<1>3. CASE g \notin Groups(u)
    <2>1. FreeAll(x, g) = x
        BY <1>3 DEF FreeAll
    <2>2. \A m \in Live(u) : m # g => g \notin Above(t, m)
        BY <1>1, <1>2, <1>3, AboveGroups
    <2> QED BY <2>1, <2>2
<1>4. CASE g \in Groups(u)
    <2> DEFINE row == Reverse(u.kids[g])
    <2>1. /\ u.kids[g] \in Seq(Live(u))
          /\ \A m \in Live(u) : m \in ToSet(u.kids[g]) <=> u.parent[m] = g
        BY <1>1, <1>4 DEF Grown, Shaped, Linked
    <2>2. row \in Seq(Live(u)) /\ ToSet(row) = ToSet(u.kids[g])
        BY <2>1, ReverseIs, ReverseSet
    <2>3. FreeAll(x, g) = FreeEach(x, row, {})
        BY <1>4 DEF FreeAll
    <2> HIDE DEF row
    <2>4. ToSet(row) = {row[i] : i \in 1 .. Len(row)}
        BY <2>2, ToSetIs
    <2>5. u.parent[Root] # g
        BY <1>1 DEF Grown, Shaped
    <2>6. \A i \in 1 .. Len(row) :
             row[i] # Root /\ row[i] \notin K /\ t.parent[row[i]] = g /\ row[i] \in Live(u)
        <3> SUFFICES ASSUME NEW i \in 1 .. Len(row)
                     PROVE  row[i] # Root /\ row[i] \notin K /\ t.parent[row[i]] = g /\ row[i] \in Live(u)
            OBVIOUS
        <3>1. row[i] \in Live(u) /\ u.parent[row[i]] = g
            BY <2>1, <2>2, <2>4
        <3> QED BY <1>1, <2>5, <3>1
    <2>7. /\ Came(t, FreeEach(x, row, {}), K)
          /\ Live(FreeEach(x, row, {}).tree) =
               {m \in Live(x.tree) : \A i \in 1 .. Len(row) : row[i] \notin {} => row[i] \notin Above(t, m)}
        <3> DEFINE none == {}
                   z == FreeEach(x, row, none)
        <3> HIDE DEF none
        <3>1. \A i \in 1 .. Len(row) : row[i] \notin none /\ row[i] \in Live(u) =>
                 row[i] # Root /\ row[i] \notin K /\ t.parent[row[i]] \in K
            BY <2>6
        <3>2. Came(t, z, K)
            BY <2>2, <3>1, FreeEachComes
        <3>3. Live(z.tree) =
                {m \in Live(x.tree) : \A i \in 1 .. Len(row) : row[i] \notin none => row[i] \notin Above(t, m)}
            BY <2>2, <3>1, FreeEachComes
        <3> QED BY <3>2, <3>3 DEF none
    <2>8. ASSUME NEW m \in Live(u)
          PROVE  (\A i \in 1 .. Len(row) : row[i] \notin Above(t, m)) <=> (m # g => g \notin Above(t, m))
        <3>1. (\E c \in ToSet(row) : c \in Above(t, m)) <=> m # g /\ g \in Above(t, m)
            BY <1>1, <1>2, <1>4, <2>2, UnderGroup
        <3> QED BY <2>4, <3>1
    <2> QED BY <2>3, <2>7, <2>8
<1> QED BY <1>3, <1>4

\* The synths at any depth go, and the groups stay.
LEMMA DeepFreeComes ==
    ASSUME NEW t, Grown(t), NEW x, Came(t, x, Groups(t)), NEW g
    PROVE  /\ Came(t, DeepFree(x, g), Groups(t))
           /\ Live(DeepFree(x, g).tree) =
                {m \in Live(x.tree) : m \in Groups(t) \/ m = g \/ g \notin Above(t, m)}
<1> DEFINE u == x.tree
           G == Groups(t)
<1>1. Grown(u) /\ Live(u) \subseteq Live(t) /\ Groups(u) = G /\ G \subseteq Live(u)
      /\ \A m \in Live(u) : u.parent[m] = t.parent[m]
    BY DEF Came, Pruned
<1>2. \A m \in Live(u) : Above(t, m) = Above(u, m) /\ Above(t, m) \subseteq Live(u)
    BY <1>1, AbovePruned, AboveClosed DEF Came
<1>3. CASE g \notin Groups(u)
    <2>1. DeepFree(x, g) = x
        BY <1>3 DEF DeepFree
    <2>2. \A m \in Live(u) : m = g \/ g \notin Above(t, m)
        BY <1>1, <1>2, <1>3, AboveGroups
    <2> QED BY <2>1, <2>2
<1>4. CASE g \in Groups(u)
    <2> DEFINE order == ByStack(u, g)
               N == Len(order)
               after[k \in 0 .. N] ==
                   IF k = 0 THEN x
                   ELSE IF order[k] \notin Groups(u) THEN after[k - 1]
                   ELSE FreeEach(after[k - 1], u.kids[order[k]], Groups(u))
               Left(k) == {m \in Live(u) : \A i \in 1 .. k :
                              order[i] \in G /\ m \notin G => t.parent[m] # order[i]}
               S == {k \in Nat : k <= N => /\ Came(t, after[k], G)
                                            /\ Live(after[k].tree) = Left(k)}
    <2>1. DeepFree(x, g) = after[N]
        BY <1>4 DEF DeepFree
    <2>2. /\ order \in Seq(Live(u)) /\ N \in Nat
          /\ ToSet(order) = {m \in Live(u) : g \in Above(t, m)}
        <3>1. g \in Live(u)
            BY <1>1, <1>4
        <3>2. order \in Seq(Live(u)) /\ Branch(u, g, ToSet(order))
            BY <1>1, <3>1, ByStackIs
        <3>3. ToSet(order) = {m \in Live(u) : g \in Above(u, m)}
            BY <1>1, <3>1, <3>2, BranchAbove
        <3> QED BY <1>2, <3>2, <3>3
    <2> HIDE DEF N, order
    <2>3. after = [k \in 0 .. N |->
                     IF k = 0 THEN x
                     ELSE IF order[k] \notin Groups(u) THEN after[k - 1]
                     ELSE FreeEach(after[k - 1], u.kids[order[k]], Groups(u))]
        <3> HIDE DEF u, G
        <3> DEFINE Has(M) == \E f : f = [k \in 0 .. M |->
                                            IF k = 0 THEN x
                                            ELSE IF order[k] \notin Groups(u) THEN f[k - 1]
                                            ELSE FreeEach(f[k - 1], u.kids[order[k]], Groups(u))]
                   T == {M \in Nat : Has(M)}
        <3>1. 0 \in T
            <4> DEFINE f == [k \in 0 .. 0 |-> x]
            <4>1. f = [k \in 0 .. 0 |->
                         IF k = 0 THEN x
                         ELSE IF order[k] \notin Groups(u) THEN f[k - 1]
                         ELSE FreeEach(f[k - 1], u.kids[order[k]], Groups(u))]
                OBVIOUS
            <4> HIDE DEF f
            <4> QED BY <4>1
        <3>2. ASSUME NEW M \in Nat, M \in T PROVE M + 1 \in T
            <4>1. PICK f : f = [k \in 0 .. M |->
                                  IF k = 0 THEN x
                                  ELSE IF order[k] \notin Groups(u) THEN f[k - 1]
                                  ELSE FreeEach(f[k - 1], u.kids[order[k]], Groups(u))]
                BY <3>2
            <4> DEFINE h == [k \in 0 .. M + 1 |->
                               IF k <= M THEN f[k]
                               ELSE IF order[k] \notin Groups(u) THEN f[M]
                               ELSE FreeEach(f[M], u.kids[order[k]], Groups(u))]
            <4>2. \A k \in 0 .. M + 1 :
                     h[k] = IF k = 0 THEN x
                            ELSE IF order[k] \notin Groups(u) THEN h[k - 1]
                            ELSE FreeEach(h[k - 1], u.kids[order[k]], Groups(u))
                <5> SUFFICES ASSUME NEW k \in 0 .. M + 1
                             PROVE  h[k] = IF k = 0 THEN x
                                           ELSE IF order[k] \notin Groups(u) THEN h[k - 1]
                                           ELSE FreeEach(h[k - 1], u.kids[order[k]], Groups(u))
                    OBVIOUS
                <5>1. CASE k = 0
                    BY <4>1, <5>1
                <5>2. CASE k # 0 /\ k <= M
                    BY <4>1, <5>2
                <5>3. CASE k = M + 1
                    BY <5>3
                <5> QED BY <5>1, <5>2, <5>3
            <4>3. h = [k \in 0 .. M + 1 |->
                         IF k = 0 THEN x
                         ELSE IF order[k] \notin Groups(u) THEN h[k - 1]
                         ELSE FreeEach(h[k - 1], u.kids[order[k]], Groups(u))]
                BY <4>2
            <4> HIDE DEF h
            <4> QED BY <4>3
        <3> HIDE DEF T
        <3>3. \A M \in Nat : M \in T
            BY <3>1, <3>2, Induction
        <3>4. \A M \in Nat : Has(M)
            BY <3>3 DEF T
        <3>5. \E f : f = [k \in 0 .. N |->
                            IF k = 0 THEN x
                            ELSE IF order[k] \notin Groups(u) THEN f[k - 1]
                            ELSE FreeEach(f[k - 1], u.kids[order[k]], Groups(u))]
            BY <2>2, <3>4
        <3> HIDE DEF Has
        <3> QED BY <3>5
    <2> HIDE DEF after
    <2>4. 0 \in S
        <3>1. after[0] = x
            BY <2>2, <2>3
        <3> QED BY <3>1
    <2>5. ASSUME NEW k \in Nat, k \in S PROVE k + 1 \in S
        <3> SUFFICES ASSUME k + 1 <= N
                     PROVE  Came(t, after[k + 1], G) /\ Live(after[k + 1].tree) = Left(k + 1)
            OBVIOUS
        <3> DEFINE y == after[k]
                   q == order[k + 1]
                   row == u.kids[q]
                   z == FreeEach(y, row, Groups(u))
        <3>1. Came(t, y, G) /\ Live(y.tree) = Left(k) /\ k + 1 \in 1 .. Len(order)
            BY <2>2, <2>5 DEF N
        <3>2. after[k + 1] = IF q \notin Groups(u) THEN y ELSE z
            <4>1. k + 1 \in 0 .. N /\ k + 1 # 0 /\ (k + 1) - 1 = k
                BY <2>2
            <4> QED BY <2>3, <4>1
        <3>3. \A i \in 1 .. k + 1 : i \in 1 .. k \/ i = k + 1
            OBVIOUS
        <3>4. \A i \in 1 .. k : i \in 1 .. k + 1
            OBVIOUS
        <3>5. CASE q \notin Groups(u)
            <4>1. Left(k + 1) = Left(k)
                BY <1>1, <3>3, <3>4, <3>5
            <4> QED BY <3>1, <3>2, <3>5, <4>1
        <3>6. CASE q \in Groups(u)
            <4>1. Left(k + 1) = {m \in Left(k) : m \notin G => t.parent[m] # q}
                BY <1>1, <3>3, <3>4, <3>6
            <4>2. /\ row \in Seq(Live(u))
                  /\ \A m \in Live(u) : m \in ToSet(row) <=> u.parent[m] = q
                BY <1>1, <3>6 DEF Grown, Shaped, Linked
            <4>3. \A m \in Left(k) : m \in Live(u)
                OBVIOUS
            <4> HIDE DEF y, q, row, Left, u, G, z
            <4>4. ToSet(row) = {row[i] : i \in 1 .. Len(row)}
                BY <4>2, ToSetIs
            <4>5. \A i \in 1 .. Len(row) : row[i] \in Live(u) /\ t.parent[row[i]] = q
                BY <1>1, <4>2, <4>4, ToSetIs
            <4>6. Root \in G
                BY DEF Grown, Shaped, G
            <4>7. \A i \in 1 .. Len(row) : row[i] \notin Groups(u) /\ row[i] \in Live(y.tree) =>
                     row[i] # Root /\ row[i] \notin G /\ t.parent[row[i]] \in G
                BY <1>1, <3>6, <4>5, <4>6
            <4>8. Came(t, z, G)
                BY <3>1, <4>2, <4>7, FreeEachComes DEF z
            <4>9. Live(z.tree) = {m \in Live(y.tree) : \A i \in 1 .. Len(row) :
                                    row[i] \notin Groups(u) => row[i] \notin Above(t, m)}
                BY <3>1, <4>2, <4>7, FreeEachComes DEF z
            <4>10. ASSUME NEW m \in Live(u)
                   PROVE  (\A i \in 1 .. Len(row) : row[i] \notin Groups(u) => row[i] \notin Above(t, m))
                          <=> (m \notin G => t.parent[m] # q)
                <5>1. ASSUME m \notin G, t.parent[m] = q
                      PROVE  \E i \in 1 .. Len(row) : row[i] \notin Groups(u) /\ row[i] \in Above(t, m)
                    <6>1. PICK i \in 1 .. Len(row) : row[i] = m
                        BY <1>1, <4>2, <4>4, <5>1
                    <6>2. m \in Above(t, m)
                        BY <1>1, AboveClosed
                    <6> QED BY <1>1, <5>1, <6>1, <6>2
                <5>2. ASSUME NEW i \in 1 .. Len(row), row[i] \notin Groups(u), row[i] \in Above(t, m)
                      PROVE  m \notin G /\ t.parent[m] = q
                    <6>1. row[i] = m
                        BY <1>1, <4>5, <5>2, AboveGroups DEF G
                    <6> QED BY <1>1, <4>5, <5>2, <6>1
                <5> QED BY <5>1, <5>2
            <4>11. Live(z.tree) = Left(k + 1)
                BY <3>1, <4>1, <4>3, <4>9, <4>10
            <4> QED BY <3>2, <3>6, <4>8, <4>11
        <3> QED BY <3>5, <3>6
    <2>6. \A k \in Nat : k \in S
        <3> HIDE DEF S
        <3> QED BY <2>4, <2>5, Induction
    <2>7. Came(t, after[N], G) /\ Live(after[N].tree) = Left(N)
        BY <2>2, <2>6
    <2>8. ASSUME NEW m \in Live(u)
          PROVE  m \in Left(N) <=> m \in G \/ m = g \/ g \notin Above(t, m)
        <3>1. ToSet(order) = {order[i] : i \in 1 .. N}
            BY <2>2, ToSetIs DEF N
        <3>2. ASSUME m \notin G, m # g, g \in Above(t, m) PROVE m \notin Left(N)
            <4>1. m # Root /\ m \in Live(t)
                BY <1>1, <3>2 DEF Grown, Shaped
            <4>2. t.parent[m] \in G /\ g \in Above(t, t.parent[m]) /\ t.parent[m] \in Live(u)
                <5>1. Above(t, m) = {m} \cup Above(t, t.parent[m])
                    BY <4>1, AboveIs
                <5>2. t.parent[m] \in G
                    BY <4>1 DEF Grown, Shaped
                <5> QED BY <1>1, <3>2, <5>1, <5>2
            <4>3. PICK i \in 1 .. N : order[i] = t.parent[m]
                BY <2>2, <3>1, <4>2
            <4> QED BY <3>2, <4>2, <4>3
        <3>3. ASSUME m \notin Left(N) PROVE m \notin G /\ m # g /\ g \in Above(t, m)
            <4>1. PICK i \in 1 .. N : order[i] \in G /\ m \notin G /\ t.parent[m] = order[i]
                BY <3>3
            <4>2. order[i] \in Live(u) /\ g \in Above(t, order[i])
                BY <2>2, <3>1, <4>1
            <4>3. m # Root /\ m \in Live(t)
                BY <1>1, <4>1 DEF Grown, Shaped
            <4>4. Above(t, m) = {m} \cup Above(t, t.parent[m])
                BY <4>3, AboveIs
            <4> QED BY <1>1, <1>4, <4>1, <4>2, <4>4
        <3> HIDE DEF Left
        <3> QED BY <3>2, <3>3
    <2>9. \A m \in Left(N) : m \in Live(u)
        OBVIOUS
    <2> HIDE DEF Left
    <2> QED BY <2>1, <2>7, <2>8, <2>9
<1> QED BY <1>3, <1>4

-----------------------------------------------------------------------------
(* Done actions.                                                            *)

\* What x makes of the tree t: the nodes of D die, those of P are paused, the rest
\* stays, and every death is reported once, with the parent the node had, no node
\* after what was in it.
Made(t, x, D, P) ==
    /\ x = [tree |-> x.tree, deaths |-> x.deaths]
    /\ Grown(x.tree)
    /\ Live(x.tree) = Live(t) \ D /\ Groups(x.tree) = Groups(t) \ D
    /\ \A m \in Live(x.tree) : x.tree.parent[m] = t.parent[m]
    /\ \A g \in Groups(x.tree) : Thinned(x.tree.kids[g], t.kids[g])
    /\ x.tree.paused = P
    /\ x.deaths \in Seq(Live(t) \X Live(t))
    /\ \A i \in 1 .. Len(x.deaths) :
         /\ x.deaths[i][2] = t.parent[x.deaths[i][1]]
         /\ \A j \in 1 .. Len(x.deaths) : x.deaths[i][1] = x.deaths[j][1] => i = j
         /\ \A j \in 1 .. Len(x.deaths) : i < j => x.deaths[i][2] # x.deaths[j][1]
    /\ \A n \in Live(t) :
         n \in Live(x.tree) <=> \A i \in 1 .. Len(x.deaths) : x.deaths[i][1] # n

\* What freeing alone makes.
LEMMA CameMade ==
    ASSUME NEW t, Grown(t), NEW x, NEW K, Came(t, x, K), NEW D, Live(x.tree) = Live(t) \ D
    PROVE  Made(t, x, D, t.paused \ D)
<1>1. t.paused \subseteq Live(t) /\ Groups(t) \subseteq Live(t)
    BY DEF Grown, Shaped
<1>2. Groups(x.tree) = Groups(t) \ D /\ x.tree.paused = t.paused \ D
    BY <1>1 DEF Came, Pruned
<1> QED BY <1>2 DEF Came, Pruned, Made

\* Pausing keeps a tree one.
LEMMA PausedGrows ==
    ASSUME NEW t, Grown(t), NEW P \in SUBSET Live(t)
    PROVE  LET u == [t EXCEPT !.paused = P]
           IN  /\ Grown(u) /\ Live(u) = Live(t) /\ Groups(u) = Groups(t)
               /\ u.kids = t.kids /\ u.parent = t.parent /\ u.paused = P
<1> DEFINE u == [t EXCEPT !.paused = P]
<1>1. t = [parent |-> [m \in Live(t) |-> t.parent[m]], kids |-> [g \in Groups(t) |-> t.kids[g]],
           paused |-> t.paused] /\ t.paused \subseteq Live(t)
    BY DEF Grown, Shaped
<1>2. /\ u.parent = t.parent /\ u.kids = t.kids /\ u.paused = P
      /\ u = [parent |-> t.parent, kids |-> t.kids, paused |-> P]
    BY <1>1
<1> HIDE DEF u
<1>3. Live(u) = Live(t) /\ Groups(u) = Groups(t)
    BY <1>2 DEF Live, Groups
<1>4. t.parent = [m \in Live(t) |-> t.parent[m]] /\ t.kids = [g \in Groups(t) |-> t.kids[g]]
    BY <1>1
<1>5. Shaped(u)
    BY <1>2, <1>3, <1>4 DEF Grown, Shaped
<1>6. Linked(u) /\ Rooted(u)
    BY <1>2, <1>3 DEF Grown, Linked, Rooted
<1> QED BY <1>2, <1>3, <1>5, <1>6 DEF Grown, u

\* Pausing leaves the tree as it is.
LEMMA PauseGrows ==
    ASSUME NEW t, Grown(t), NEW n, NEW b \in BOOLEAN
    PROVE  LET u == SetPaused(t, n, b)
               P == IF n \notin Live(t) THEN t.paused
                    ELSE IF b THEN t.paused \cup {n} ELSE t.paused \ {n}
           IN  u = [t EXCEPT !.paused = P] /\ Grown(u)
<1> DEFINE P == IF n \notin Live(t) THEN t.paused
                ELSE IF b THEN t.paused \cup {n} ELSE t.paused \ {n}
<1>1. t = [parent |-> [m \in Live(t) |-> t.parent[m]], kids |-> [g \in Groups(t) |-> t.kids[g]],
           paused |-> t.paused] /\ t.paused \subseteq Live(t)
    BY DEF Grown, Shaped
<1>2. SetPaused(t, n, b) = [t EXCEPT !.paused = P]
    BY <1>1 DEF SetPaused
<1>3. P \in SUBSET Live(t)
    BY <1>1
<1> HIDE DEF P
<1>4. Grown([t EXCEPT !.paused = P])
    BY <1>3, PausedGrows
<1> QED BY <1>2, <1>4 DEF P

\* A pause, as what an operation makes.
LEMMA PauseMade ==
    ASSUME NEW t, NEW x, NEW D, NEW P, Made(t, x, D, P), NEW n, NEW b \in BOOLEAN, NEW Q,
           Q = IF n \notin Live(t) \ D THEN P ELSE IF b THEN P \cup {n} ELSE P \ {n}
    PROVE  Made(t, Pause(x, n, b), D, Q)
<1> DEFINE u == x.tree
           v == SetPaused(u, n, b)
           y == Pause(x, n, b)
<1>1. x = [tree |-> u, deaths |-> x.deaths] /\ Grown(u) /\ Live(u) = Live(t) \ D /\ u.paused = P
    BY DEF Made
<1>2. y = [tree |-> v, deaths |-> x.deaths]
    BY <1>1 DEF Pause
<1>3. v = [u EXCEPT !.paused = Q] /\ Grown(v)
    BY <1>1, PauseGrows
<1>4. u = [parent |-> u.parent, kids |-> u.kids, paused |-> u.paused]
    BY <1>1 DEF Grown, Shaped
<1> HIDE DEF v, y, u
<1>5. v.parent = u.parent /\ v.kids = u.kids /\ v.paused = Q /\ y.tree = v /\ y.deaths = x.deaths
    BY <1>2, <1>3, <1>4
<1>6. Live(v) = Live(u) /\ Groups(v) = Groups(u)
    BY <1>5 DEF Live, Groups
<1>7. y = [tree |-> y.tree, deaths |-> y.deaths]
    BY <1>2, <1>5
<1>8. /\ Live(u) = Live(t) \ D /\ Groups(u) = Groups(t) \ D
      /\ \A m \in Live(u) : u.parent[m] = t.parent[m]
      /\ \A g \in Groups(u) : Thinned(u.kids[g], t.kids[g])
      /\ x.deaths \in Seq(Live(t) \X Live(t))
      /\ \A i \in 1 .. Len(x.deaths) :
           /\ x.deaths[i][2] = t.parent[x.deaths[i][1]]
           /\ \A j \in 1 .. Len(x.deaths) : x.deaths[i][1] = x.deaths[j][1] => i = j
           /\ \A j \in 1 .. Len(x.deaths) : i < j => x.deaths[i][2] # x.deaths[j][1]
      /\ \A k \in Live(t) :
           k \in Live(u) <=> \A i \in 1 .. Len(x.deaths) : x.deaths[i][1] # k
    BY DEF Made, u
<1> DEFINE w == y.tree
           d == y.deaths
<1>9. w = v /\ d = x.deaths /\ w.paused = Q /\ Grown(w) /\ y = [tree |-> w, deaths |-> d]
    BY <1>3, <1>5, <1>7
<1> HIDE DEF w, d
<1>10. /\ Live(w) = Live(t) \ D /\ Groups(w) = Groups(t) \ D
       /\ \A m \in Live(w) : w.parent[m] = t.parent[m]
       /\ \A g \in Groups(w) : Thinned(w.kids[g], t.kids[g])
    BY <1>5, <1>6, <1>8, <1>9
<1>11. /\ d \in Seq(Live(t) \X Live(t))
       /\ \A i \in 1 .. Len(d) :
           /\ d[i][2] = t.parent[d[i][1]]
           /\ \A j \in 1 .. Len(d) : d[i][1] = d[j][1] => i = j
           /\ \A j \in 1 .. Len(d) : i < j => d[i][2] # d[j][1]
       /\ \A k \in Live(t) : k \in Live(w) <=> \A i \in 1 .. Len(d) : d[i][1] # k
    BY <1>6, <1>8, <1>9
<1>12. Made(t, y, D, Q)
    BY <1>9, <1>10, <1>11 DEF Made, w, d
<1> QED BY <1>12 DEF y

\* A child is where its place says.
LEMMA PlaceIs ==
    ASSUME NEW t, Grown(t), NEW g \in Groups(t), NEW i \in 1 .. Len(t.kids[g])
    PROVE  /\ At(t, t.kids[g][i]) = i /\ t.parent[t.kids[g][i]] = g
           /\ t.kids[g][i] \in Live(t) \ {Root} /\ t.kids[g][i] \in ToSet(t.kids[g])
<1> DEFINE c == t.kids[g][i]
<1>1. /\ t.kids[g] \in Seq(Live(t)) /\ t.parent[Root] # g /\ Apart(t.kids[g])
      /\ \A k \in Live(t) : k \in ToSet(t.kids[g]) <=> t.parent[k] = g
    BY DEF Grown, Shaped, Linked
<1>2. c \in ToSet(t.kids[g]) /\ c \in Live(t)
    BY <1>1, ToSetIs
<1>3. t.parent[c] = g /\ c # Root
    BY <1>1, <1>2
<1> HIDE DEF c
<1>4. At(t, c) \in 1 .. Len(t.kids[g]) /\ t.kids[g][At(t, c)] = c
    BY <1>2, <1>3, AtIs
<1>5. At(t, c) = i
    BY <1>1, <1>4 DEF Apart, c
<1> QED BY <1>2, <1>3, <1>5 DEF c

\* A sibling is in the same group.
LEMMA SiblingIs ==
    ASSUME NEW t, Grown(t), NEW n \in Live(t) \ {Root}, NEW delta \in {-1, 1}
    PROVE  LET m == Sibling(t, n, delta)
           IN  \/ m = NoNode /\ m \notin Live(t)
               \/ m \in Live(t) \ {Root} /\ m # n /\ m # NoNode /\ t.parent[m] = t.parent[n]
<1> DEFINE row == t.kids[t.parent[n]]
           at == At(t, n) + delta
<1>1. NoNode \notin Live(t)
    BY DEF Grown, Shaped
<1>2. t.parent[n] \in Groups(t) /\ row \in Seq(Live(t)) /\ At(t, n) \in 1 .. Len(row)
    BY AtIs
<1>3. Sibling(t, n, delta) = IF at \in DOMAIN row THEN row[at] ELSE NoNode
    BY DEF Sibling
<1>4. CASE at \in DOMAIN row
    <2>1. at \in 1 .. Len(row) /\ at # At(t, n)
        BY <1>2, <1>4
    <2>2. At(t, row[at]) = at /\ t.parent[row[at]] = t.parent[n] /\ row[at] \in Live(t) \ {Root}
        BY <1>2, <2>1, PlaceIs
    <2> QED BY <1>1, <1>3, <1>4, <2>1, <2>2
<1>5. CASE at \notin DOMAIN row
    BY <1>1, <1>3, <1>5
<1> QED BY <1>4, <1>5

\* A synth has nothing under it.
LEMMA UnderSynth ==
    ASSUME NEW t, Grown(t), NEW n \in Synths(t)
    PROVE  /\ \A m \in Live(t) : n \in Above(t, m) <=> m = n
           /\ n \in Live(t) \ {Root} /\ t.parent[n] \in Groups(t) /\ t.parent[n] \in Live(t)
           /\ n \notin Groups(t)
<1>1. n \in Live(t) /\ n \notin Groups(t)
    BY DEF Synths
<1>2. Root \in Groups(t) /\ Groups(t) \subseteq Live(t)
    BY DEF Grown, Shaped
<1>3. t.parent[n] \in Groups(t)
    BY <1>1, <1>2 DEF Grown, Shaped
<1> QED BY <1>1, <1>2, <1>3, AboveGroups, AboveClosed

\* A node is freed alone, all above some other node being kept.
LEMMA FreeSelfComes ==
    ASSUME NEW t, Grown(t), NEW n \in Synths(t), NEW K, KeptWhole(t, K),
           n \notin K, t.parent[n] \in K
    PROVE  Came(t, Free(Start(t), n), K) /\ Live(Free(Start(t), n).tree) = Live(t) \ {n}
<1> DEFINE x == Start(t)
<1>1. Came(t, x, K) /\ x.tree = t
    BY StartCame DEF Start
<1> HIDE DEF x
<1>2. n # Root
    BY UnderSynth
<1>3. Came(t, Free(x, n), K)
    BY <1>1, <1>2, FreeComes
<1>4. \A m : m \in Live(Free(x, n).tree) <=> m \in Live(x.tree) /\ n \notin Above(t, m)
    BY <1>1, <1>2, FreeLeaves
<1>5. Live(Free(x, n).tree) = Live(t) \ {n}
    BY <1>1, <1>4, UnderSynth
<1> QED BY <1>3, <1>5 DEF x

\* What is above a node's group is kept when the node is freed, or one beside it.
LEMMA GroupKept ==
    ASSUME NEW t, Grown(t), NEW n \in Live(t) \ {Root}
    PROVE  /\ KeptWhole(t, Above(t, t.parent[n]))
           /\ \A m \in Live(t) \ {Root} : t.parent[m] = t.parent[n] =>
                 m \notin Above(t, t.parent[n])
           /\ t.parent[n] \in Above(t, t.parent[n])
<1>1. t.parent[n] \in Live(t)
    BY ParentsLive
<1> QED BY <1>1, AboveKept, NotAboveParent, AboveClosed

\* Freeing the synth and a neighbour.
LEMMA FreeBothMade ==
    ASSUME NEW t, Grown(t), NEW n \in Synths(t), NEW delta \in {-1, 1}
    PROVE  LET m == Sibling(t, n, delta)
               D == Under(t, {n, m})
           IN  Made(t, Free(Free(Start(t), n), m), D, t.paused \ D)
<1> DEFINE m == Sibling(t, n, delta)
           D == Under(t, {n, m})
           K == Above(t, t.parent[n])
           x == Free(Start(t), n)
<1>1. n \in Live(t) \ {Root} /\ n \notin Groups(t)
    BY UnderSynth
<1>2. KeptWhole(t, K) /\ n \notin K /\ t.parent[n] \in K
    BY <1>1, GroupKept
<1>3. m \in Live(t) => m # Root /\ m \notin K /\ t.parent[m] \in K
    BY <1>1, <1>2, SiblingIs, GroupKept
<1> HIDE DEF m, K
<1>4. Came(t, x, K) /\ Live(x.tree) = Live(t) \ {n}
    BY <1>2, FreeSelfComes
<1> HIDE DEF x
<1>5. m \in Live(x.tree) => m # Root /\ m \notin K /\ t.parent[m] \in K
    BY <1>3, <1>4
<1>6. Came(t, Free(x, m), K)
    BY <1>4, <1>5, FreeComes
<1>7. \A k : k \in Live(Free(x, m).tree) <=> k \in Live(x.tree) /\ m \notin Above(t, k)
    BY <1>4, <1>5, FreeLeaves
<1>8. Live(Free(x, m).tree) = Live(t) \ D
    BY <1>4, <1>7, UnderSynth DEF Under
<1> HIDE DEF D
<1> QED BY <1>6, <1>8, CameMade DEF x, m, D

\* The neighbour is emptied if it is a group.
LEMMA EmptyBesideMade ==
    ASSUME NEW t, Grown(t), NEW n \in Synths(t), NEW delta \in {-1, 1}
    PROVE  LET m == Sibling(t, n, delta)
               D == {n} \cup ((IF m \in Groups(t) THEN Under(t, {m}) \ {m} ELSE {m}) \cap Live(t))
           IN  Made(t, FreeOrFreeAll(Free(Start(t), n), m), D, t.paused \ D)
<1> DEFINE m == Sibling(t, n, delta)
           E == IF m \in Groups(t) THEN Under(t, {m}) \ {m} ELSE {m}
           D == {n} \cup (E \cap Live(t))
           x == Free(Start(t), n)
           y == FreeOrFreeAll(x, m)
<1>1. n \in Live(t) \ {Root} /\ n \notin Groups(t) /\ t.parent[n] \in Live(t)
    BY UnderSynth
<1>2. \/ m = NoNode /\ m \notin Live(t)
      \/ m \in Live(t) \ {Root} /\ m # n /\ m # NoNode /\ t.parent[m] = t.parent[n]
    BY <1>1, SiblingIs
<1> HIDE DEF m
<1>3. CASE m \in Groups(t)
    <2> DEFINE K == Above(t, m)
    <2>1. m \in Live(t) \ {Root} /\ m # n /\ t.parent[m] = t.parent[n]
        BY <1>2, <1>3 DEF Grown, Shaped
    <2>2. K = {m} \cup Above(t, t.parent[n])
        BY <2>1, AboveIs
    <2>3. KeptWhole(t, K) /\ n \notin K /\ t.parent[n] \in K /\ m \in K
        BY <1>1, <2>1, <2>2, AboveKept, GroupKept
    <2>4. \A c \in Live(t) \ {Root} : t.parent[c] = m => c \notin K
        BY <2>1, NotAboveParent
    <2> HIDE DEF K
    <2>5. Came(t, x, K) /\ Live(x.tree) = Live(t) \ {n}
        BY <2>3, FreeSelfComes
    <2>6. m \in Groups(x.tree)
        BY <1>3, <2>1, <2>5 DEF Came, Pruned
    <2>7. y = FreeAll(x, m)
        BY <2>6 DEF FreeOrFreeAll
    <2> HIDE DEF x, y
    <2>8. \A c \in Live(x.tree) \ {Root} : t.parent[c] = m => c \notin K
        BY <2>4, <2>5
    <2>9. Came(t, FreeAll(x, m), K)
        BY <2>3, <2>5, <2>8, FreeAllComes
    <2>10. Live(FreeAll(x, m).tree) = {c \in Live(x.tree) : c # m => m \notin Above(t, c)}
        BY <2>3, <2>5, <2>8, FreeAllComes
    <2>11. Live(y.tree) = Live(t) \ D
        BY <1>3, <2>5, <2>7, <2>10 DEF Under
    <2> HIDE DEF D
    <2> QED BY <2>7, <2>9, <2>11, CameMade DEF x, y, m, D
<1>4. CASE m \notin Groups(t)
    <2> DEFINE K == Above(t, t.parent[n])
    <2>1. KeptWhole(t, K) /\ n \notin K /\ t.parent[n] \in K
        BY <1>1, GroupKept
    <2>2. m \in Live(t) => m # Root /\ m \notin K /\ t.parent[m] \in K
        BY <1>1, <1>2, <2>1, GroupKept
    <2> HIDE DEF K
    <2>3. Came(t, x, K) /\ Live(x.tree) = Live(t) \ {n}
        BY <2>1, FreeSelfComes
    <2>4. m \notin Groups(x.tree)
        BY <1>4, <2>3 DEF Came, Pruned
    <2>5. y = Free(x, m)
        BY <2>4 DEF FreeOrFreeAll
    <2> HIDE DEF x, y
    <2>6. m \in Live(x.tree) => m # Root /\ m \notin K /\ t.parent[m] \in K
        BY <2>2, <2>3
    <2>7. Came(t, Free(x, m), K)
        BY <2>3, <2>6, FreeComes
    <2>8. \A c : c \in Live(Free(x, m).tree) <=> c \in Live(x.tree) /\ m \notin Above(t, c)
        BY <2>3, <2>6, FreeLeaves
    <2>9. \A c \in Live(t) : m \in Above(t, c) <=> m = c
        BY <1>2, <1>4, AboveGroups, AboveClosed
    <2>10. Live(y.tree) = Live(t) \ D
        BY <1>4, <2>3, <2>5, <2>8, <2>9
    <2> HIDE DEF D
    <2> QED BY <2>5, <2>7, <2>10, CameMade DEF x, y, m, D
<1> QED BY <1>3, <1>4

\* Freeing the synth and the synths in a neighbouring group.
LEMMA DeepBesideMade ==
    ASSUME NEW t, Grown(t), NEW n \in Synths(t), NEW delta \in {-1, 1}
    PROVE  LET m == Sibling(t, n, delta)
               D == {n} \cup (Under(t, {m}) \cap Synths(t))
           IN  Made(t, FreeOrDeepFree(Free(Start(t), n), m), D, t.paused \ D)
<1> DEFINE m == Sibling(t, n, delta)
           D == {n} \cup (Under(t, {m}) \cap Synths(t))
           x == Free(Start(t), n)
           y == FreeOrDeepFree(x, m)
           K == Groups(t)
<1>1. n \in Live(t) \ {Root} /\ n \notin Groups(t) /\ t.parent[n] \in Groups(t)
    BY UnderSynth
<1>2. \/ m = NoNode /\ m \notin Live(t)
      \/ m \in Live(t) \ {Root} /\ m # n /\ m # NoNode /\ t.parent[m] = t.parent[n]
    BY <1>1, SiblingIs
<1> HIDE DEF m
<1>3. KeptWhole(t, K) /\ n \notin K /\ t.parent[n] \in K
    BY <1>1, AboveGroups
<1>4. Came(t, x, K) /\ Live(x.tree) = Live(t) \ {n}
    BY <1>3, FreeSelfComes
<1>5. Groups(x.tree) = Groups(t)
    BY <1>4 DEF Came, Pruned
<1> HIDE DEF x
<1>6. CASE m \in Groups(t)
    <2>1. y = DeepFree(x, m)
        BY <1>5, <1>6 DEF FreeOrDeepFree
    <2>2. Came(t, DeepFree(x, m), Groups(t))
        BY <1>4, DeepFreeComes
    <2>3. Live(DeepFree(x, m).tree) =
            {c \in Live(x.tree) : c \in Groups(t) \/ c = m \/ m \notin Above(t, c)}
        BY <1>4, DeepFreeComes
    <2> HIDE DEF y
    <2>4. Live(y.tree) = Live(t) \ D
        BY <1>1, <1>4, <1>6, <2>1, <2>3 DEF Under, Synths
    <2> HIDE DEF D
    <2> QED BY <2>1, <2>2, <2>4, CameMade DEF x, y, m, D
<1>7. CASE m \notin Groups(t)
    <2>1. y = Free(x, m)
        BY <1>5, <1>7 DEF FreeOrDeepFree
    <2>2. m \in Live(x.tree) => m # Root /\ m \notin K /\ t.parent[m] \in K
        BY <1>1, <1>2, <1>4, <1>7
    <2> HIDE DEF K
    <2>3. Came(t, Free(x, m), K)
        BY <1>4, <2>2, FreeComes
    <2>4. \A c : c \in Live(Free(x, m).tree) <=> c \in Live(x.tree) /\ m \notin Above(t, c)
        BY <1>4, <2>2, FreeLeaves
    <2>5. \A c \in Live(t) : m \in Above(t, c) <=> m = c
        BY <1>2, <1>7, AboveGroups, AboveClosed
    <2> HIDE DEF y
    <2>6. Live(y.tree) = Live(t) \ D
        BY <1>1, <1>4, <1>7, <2>1, <2>4, <2>5 DEF Under, Synths
    <2> HIDE DEF D
    <2> QED BY <2>1, <2>3, <2>6, CameMade DEF x, y, m, D
<1> QED BY <1>6, <1>7

\* The neighbours on one side.
Beside(t, n, delta) ==
    {m \in ToSet(t.kids[t.parent[n]]) :
        IF delta < 0 THEN At(t, m) < At(t, n) ELSE At(t, m) > At(t, n)}

\* Freeing the neighbours on one side.
LEMMA FreeSideComes ==
    ASSUME NEW t, Grown(t), NEW n \in Live(t) \ {Root}, NEW delta \in {-1, 1}
    PROVE  LET y == FreeSide(Start(t), n, delta)
           IN  /\ Came(t, y, Above(t, t.parent[n]))
               /\ \A m : m \in Live(y.tree) <=>
                            m \in Live(t) /\ \A c \in Beside(t, n, delta) : c \notin Above(t, m)
<1> DEFINE g == t.parent[n]
           row == t.kids[g]
           at == At(t, n)
           side == IF delta < 0 THEN Reverse(SubSeq(row, 1, at - 1)) ELSE SubSeq(row, at + 1, Len(row))
           K == Above(t, g)
           x == Start(t)
           y == FreeSide(x, n, delta)
<1>1. g \in Groups(t) /\ row \in Seq(Live(t)) /\ at \in 1 .. Len(row) /\ Len(row) \in Nat
    BY AtIs
<1>2. Came(t, x, K) /\ x.tree = t
    BY GroupKept, StartCame DEF Start
<1>3. y = FreeEach(x, side, {})
    BY <1>2 DEF FreeSide
<1>4. \A i \in 1 .. Len(row) :
         /\ At(t, row[i]) = i /\ t.parent[row[i]] = g
         /\ row[i] \in Live(t) \ {Root} /\ row[i] \in ToSet(row)
    BY <1>1, PlaceIs
<1>5. ToSet(row) = {row[i] : i \in 1 .. Len(row)}
    BY <1>1, ToSetIs
<1> HIDE DEF row, x, y, K, at
<1>6. side \in Seq(Live(t)) /\ ToSet(side) = Beside(t, n, delta)
    <2>1. CASE delta < 0
        <3> DEFINE q == SubSeq(row, 1, at - 1)
        <3>1. /\ q \in Seq(Live(t)) /\ Len(q) = at - 1
              /\ \A k \in 1 .. at - 1 : q[k] = row[k]
            <4>1. 1 \in 1 .. Len(row) + 1 /\ at - 1 \in 0 .. Len(row) /\ 1 <= (at - 1) + 1
                BY <1>1
            <4>2. /\ SubSeq(row, 1, at - 1) \in Seq(Live(t))
                  /\ Len(SubSeq(row, 1, at - 1)) = (at - 1) + 1 - 1
                  /\ \A k \in 1 .. (at - 1) + 1 - 1 : SubSeq(row, 1, at - 1)[k] = row[1 + k - 1]
                BY <1>1, <4>1, CutIs
            <4> QED BY <1>1, <4>2
        <3>2. side = Reverse(q)
            BY <2>1
        <3> HIDE DEF q, side
        <3>3. side \in Seq(Live(t)) /\ ToSet(side) = ToSet(q)
            BY <3>1, <3>2, ReverseIs, ReverseSet
        <3>4. ToSet(q) = {row[k] : k \in 1 .. at - 1}
            <4>1. ToSet(q) = {q[k] : k \in 1 .. at - 1}
                BY <3>1, ToSetIs
            <4> QED BY <3>1, <4>1
        <3>5. Beside(t, n, delta) = {m \in ToSet(row) : At(t, m) < at}
            BY <2>1 DEF Beside, row, at
        <3>6. ASSUME NEW m \in Beside(t, n, delta) PROVE m \in ToSet(q)
            <4>1. PICK i \in 1 .. Len(row) : m = row[i]
                BY <1>5, <3>5, <3>6
            <4>2. i < at
                BY <1>4, <3>5, <3>6, <4>1
            <4>3. i \in 1 .. at - 1
                BY <1>1, <4>1, <4>2
            <4> QED BY <3>4, <4>1, <4>3
        <3>7. ASSUME NEW m \in ToSet(q) PROVE m \in Beside(t, n, delta)
            <4>1. PICK i \in 1 .. at - 1 : m = row[i]
                BY <3>4, <3>7
            <4>2. i \in 1 .. Len(row) /\ i < at
                BY <1>1, <4>1
            <4> QED BY <1>4, <3>5, <4>1, <4>2
        <3> QED BY <3>3, <3>6, <3>7
    <2>2. CASE ~ (delta < 0)
        <3> DEFINE q == SubSeq(row, at + 1, Len(row))
        <3>1. /\ q \in Seq(Live(t)) /\ Len(q) = Len(row) - at
              /\ \A k \in 1 .. Len(row) - at : q[k] = row[k + at]
            <4>1. at + 1 \in 1 .. Len(row) + 1 /\ Len(row) \in 0 .. Len(row) /\ at + 1 <= Len(row) + 1
                BY <1>1
            <4>2. /\ SubSeq(row, at + 1, Len(row)) \in Seq(Live(t))
                  /\ Len(SubSeq(row, at + 1, Len(row))) = Len(row) + 1 - (at + 1)
                  /\ \A k \in 1 .. Len(row) + 1 - (at + 1) :
                        SubSeq(row, at + 1, Len(row))[k] = row[(at + 1) + k - 1]
                BY <1>1, <4>1, CutIs
            <4>3. Len(row) + 1 - (at + 1) = Len(row) - at
                BY <1>1
            <4>4. \A k \in 1 .. Len(row) - at : (at + 1) + k - 1 = k + at
                BY <1>1
            <4> QED BY <4>2, <4>3, <4>4
        <3>2. side = q
            BY <2>2
        <3> HIDE DEF q, side
        <3>4. ToSet(q) = {row[k + at] : k \in 1 .. Len(row) - at}
            <4>1. ToSet(q) = {q[k] : k \in 1 .. Len(row) - at}
                BY <3>1, ToSetIs
            <4> QED BY <3>1, <4>1
        <3>5. Beside(t, n, delta) = {m \in ToSet(row) : At(t, m) > at}
            BY <2>2 DEF Beside, row, at
        <3>6. ASSUME NEW m \in Beside(t, n, delta) PROVE m \in ToSet(q)
            <4>1. PICK i \in 1 .. Len(row) : m = row[i]
                BY <1>5, <3>5, <3>6
            <4>2. i > at
                BY <1>4, <3>5, <3>6, <4>1
            <4>3. i - at \in 1 .. Len(row) - at /\ (i - at) + at = i
                BY <1>1, <4>1, <4>2
            <4> QED BY <3>4, <4>1, <4>3
        <3>7. ASSUME NEW m \in ToSet(q) PROVE m \in Beside(t, n, delta)
            <4>1. PICK k \in 1 .. Len(row) - at : m = row[k + at]
                BY <3>4, <3>7
            <4>2. k + at \in 1 .. Len(row) /\ k + at > at
                BY <1>1, <4>1
            <4> QED BY <1>4, <3>5, <4>1, <4>2
        <3> QED BY <3>1, <3>2, <3>6, <3>7
    <2> QED BY <2>1, <2>2
<1> HIDE DEF side
<1>7. ToSet(side) = {side[i] : i \in 1 .. Len(side)}
    BY <1>6, ToSetIs
<1>8. \A c \in Beside(t, n, delta) : c \in Live(t) \ {Root} /\ t.parent[c] = g
    <2>1. \A c \in Beside(t, n, delta) : c \in ToSet(row)
        BY DEF Beside, row
    <2> QED BY <1>4, <1>5, <2>1
<1>9. \A c \in Beside(t, n, delta) : c # Root /\ c \notin K /\ t.parent[c] \in K
    BY <1>8, GroupKept DEF K
<1>10. \A i \in 1 .. Len(side) : side[i] \notin {} /\ side[i] \in Live(x.tree) =>
          side[i] # Root /\ side[i] \notin K /\ t.parent[side[i]] \in K
    BY <1>6, <1>7, <1>9
<1>11. Came(t, FreeEach(x, side, {}), K)
    BY <1>2, <1>6, <1>10, FreeEachComes
<1>12. Live(FreeEach(x, side, {}).tree) =
         {m \in Live(x.tree) : \A i \in 1 .. Len(side) : side[i] \notin {} => side[i] \notin Above(t, m)}
    BY <1>2, <1>6, <1>10, FreeEachComes
<1>13. \A m : m \in Live(y.tree) <=>
                 m \in Live(t) /\ \A c \in Beside(t, n, delta) : c \notin Above(t, m)
    BY <1>2, <1>3, <1>6, <1>7, <1>12
<1> QED BY <1>3, <1>11, <1>13 DEF x, y, K

\* Freeing them, and then the synth.
LEMMA FreeSideMade ==
    ASSUME NEW t, Grown(t), NEW n \in Synths(t), NEW delta \in {-1, 1}
    PROVE  LET D == Under(t, {n} \cup Beside(t, n, delta))
           IN  Made(t, Free(FreeSide(Start(t), n, delta), n), D, t.paused \ D)
<1> DEFINE D == Under(t, {n} \cup Beside(t, n, delta))
           K == Above(t, t.parent[n])
           y == FreeSide(Start(t), n, delta)
<1>1. n \in Live(t) \ {Root}
    BY UnderSynth
<1>2. n \notin K /\ t.parent[n] \in K
    BY <1>1, GroupKept
<1>3. Came(t, y, K)
    BY <1>1, FreeSideComes
<1>4. \A m : m \in Live(y.tree) <=> m \in Live(t) /\ \A c \in Beside(t, n, delta) : c \notin Above(t, m)
    BY <1>1, FreeSideComes
<1> HIDE DEF K, y
<1>5. Came(t, Free(y, n), K)
    BY <1>1, <1>2, <1>3, FreeComes
<1>6. \A m : m \in Live(Free(y, n).tree) <=> m \in Live(y.tree) /\ n \notin Above(t, m)
    BY <1>1, <1>2, <1>3, FreeLeaves
<1>7. Live(Free(y, n).tree) = Live(t) \ D
    BY <1>4, <1>6 DEF Under
<1> HIDE DEF D
<1> QED BY <1>5, <1>7, CameMade DEF y, D

\* Freeing one node, a group's content, and the synths in it.
LEMMA FreeSelfMade ==
    ASSUME NEW t, Grown(t), NEW n \in Synths(t)
    PROVE  Made(t, Free(Start(t), n), {n}, t.paused \ {n})
<1>1. KeptWhole(t, Groups(t)) /\ n \notin Groups(t) /\ t.parent[n] \in Groups(t)
    BY UnderSynth, AboveGroups
<1>2. Came(t, Free(Start(t), n), Groups(t)) /\ Live(Free(Start(t), n).tree) = Live(t) \ {n}
    BY <1>1, FreeSelfComes
<1> QED BY <1>2, CameMade

LEMMA FreeMade ==
    ASSUME NEW t, Grown(t), NEW n \in Live(t) \ {Root}
    PROVE  Made(t, Free(Start(t), n), Under(t, {n}), t.paused \ Under(t, {n}))
<1> DEFINE K == Above(t, t.parent[n])
           x == Start(t)
<1>1. KeptWhole(t, K) /\ n \notin K /\ t.parent[n] \in K
    BY GroupKept
<1> HIDE DEF K
<1>2. Came(t, x, K) /\ x.tree = t
    BY <1>1, StartCame DEF Start
<1> HIDE DEF x
<1>3. Came(t, Free(x, n), K)
    BY <1>1, <1>2, FreeComes
<1>4. \A m : m \in Live(Free(x, n).tree) <=> m \in Live(x.tree) /\ n \notin Above(t, m)
    BY <1>1, <1>2, FreeLeaves
<1>5. Live(Free(x, n).tree) = Live(t) \ Under(t, {n})
    BY <1>2, <1>4 DEF Under
<1> QED BY <1>3, <1>5, CameMade DEF x

LEMMA FreeAllMade ==
    ASSUME NEW t, Grown(t), NEW g \in Groups(t)
    PROVE  LET D == Under(t, ToSet(t.kids[g]))
           IN  Made(t, FreeAll(Start(t), g), D, t.paused \ D)
<1> DEFINE K == Above(t, g)
           D == Under(t, ToSet(t.kids[g]))
           x == Start(t)
<1>1. g \in Live(t)
    BY DEF Grown, Shaped
<1>2. KeptWhole(t, K) /\ g \in K
    BY <1>1, AboveKept, AboveClosed
<1>3. Came(t, x, K) /\ x.tree = t
    BY <1>2, StartCame DEF Start
<1>4. \A m \in Live(t) \ {Root} : t.parent[m] = g => m \notin K
    BY NotAboveParent
<1> HIDE DEF K, x
<1>5. Came(t, FreeAll(x, g), K)
    BY <1>2, <1>3, <1>4, FreeAllComes
<1>6. Live(FreeAll(x, g).tree) = {m \in Live(x.tree) : m # g => g \notin Above(t, m)}
    BY <1>2, <1>3, <1>4, FreeAllComes
<1>7. \A m \in Live(t) : (\E c \in ToSet(t.kids[g]) : c \in Above(t, m)) <=> m # g /\ g \in Above(t, m)
    BY UnderGroup
<1>8. Live(FreeAll(x, g).tree) = Live(t) \ D
    BY <1>3, <1>6, <1>7 DEF Under
<1> HIDE DEF D
<1> QED BY <1>5, <1>8, CameMade DEF x, D

LEMMA DeepFreeMade ==
    ASSUME NEW t, Grown(t), NEW g \in Groups(t)
    PROVE  LET D == Under(t, {g}) \cap Synths(t)
           IN  Made(t, DeepFree(Start(t), g), D, t.paused \ D)
<1> DEFINE D == Under(t, {g}) \cap Synths(t)
           x == Start(t)
<1>1. Came(t, x, Groups(t)) /\ x.tree = t
    BY AboveGroups, StartCame DEF Start
<1> HIDE DEF x
<1>2. Came(t, DeepFree(x, g), Groups(t))
    BY <1>1, DeepFreeComes
<1>3. Live(DeepFree(x, g).tree) =
        {m \in Live(x.tree) : m \in Groups(t) \/ m = g \/ g \notin Above(t, m)}
    BY <1>1, DeepFreeComes
<1>4. Live(DeepFree(x, g).tree) = Live(t) \ D
    BY <1>1, <1>3 DEF Under, Synths
<1> HIDE DEF D
<1> QED BY <1>2, <1>4, CameMade DEF x, D

\* Every done action frees what its description says.
LEMMA ApplyMade ==
    ASSUME NEW t, Grown(t), NEW n \in Synths(t), NEW action \in Freeing
    PROVE  Made(t, Apply(Start(t), n, action), Doomed(t, n, action), StillPaused(t, n, action))
<1> DEFINE x == Start(t)
           prev == Sibling(t, n, -1)
           next == Sibling(t, n, 1)
           D == Doomed(t, n, action)
           P == StillPaused(t, n, action)
           y == Apply(x, n, action)
           p == t.parent[n]
<1>1. x.tree = t /\ n \in Live(t) \ {Root} /\ p \in Groups(t) /\ NoNode \notin t.paused
    BY UnderSynth DEF Start, Grown, Shaped
<1>2. Neighbour(x, n, -1) = prev /\ Neighbour(x, n, 1) = next
    BY <1>1 DEF Neighbour
<1>3. \A m : m \in Live(t) => m # NoNode
    BY DEF Grown, Shaped
<1>4. n \in Live(x.tree)
    BY <1>1
<1>5. \A delta \in {-1, 1} : \/ Sibling(t, n, delta) = NoNode /\ Sibling(t, n, delta) \notin Live(t)
                             \/ Sibling(t, n, delta) \in Live(t) \ {Root} /\ Sibling(t, n, delta) # n
    BY <1>1, SiblingIs
<1>6. /\ (prev = NoNode /\ prev \notin Live(t)) \/ (prev \in Live(t) /\ prev # n)
      /\ (next = NoNode /\ next \notin Live(t)) \/ (next \in Live(t) /\ next # n)
    BY <1>5
<1>7. Beside(t, n, -1) = {m \in ToSet(t.kids[p]) : At(t, m) < At(t, n)}
      /\ Beside(t, n, 1) = {m \in ToSet(t.kids[p]) : At(t, m) > At(t, n)}
    BY DEF Beside
<1>8. Made(t, Free(x, n), {n}, t.paused \ {n})
    BY FreeSelfMade
<1> HIDE DEF x, prev, next, y, D, P
<1>a. CASE action = "FreeSelf"
    <2>1. y = Free(x, n)
        BY <1>2, <1>4, <1>a DEF Apply, y
    <2>2. D = {n} /\ P = t.paused \ {n}
        BY <1>a DEF D, P, Doomed, StillPaused
    <2> QED BY <1>8, <2>1, <2>2 DEF x, y, D, P
<1>b. CASE action = "FreeSelfAndPrev"
    <2>1. y = Free(Free(x, n), prev)
        BY <1>2, <1>4, <1>b DEF Apply, y
    <2>2. D = Under(t, {n, prev}) /\ P = t.paused \ D
        BY <1>b DEF D, P, Doomed, StillPaused, prev
    <2>3. Made(t, Free(Free(Start(t), n), Sibling(t, n, -1)), Under(t, {n, Sibling(t, n, -1)}),
               t.paused \ Under(t, {n, Sibling(t, n, -1)}))
        BY FreeBothMade
    <2> QED BY <2>1, <2>2, <2>3 DEF x, y, D, P, prev
<1>c. CASE action = "FreeSelfAndNext"
    <2>1. y = Free(Free(x, n), next)
        BY <1>2, <1>4, <1>c DEF Apply, y
    <2>2. D = Under(t, {n, next}) /\ P = t.paused \ D
        BY <1>c DEF D, P, Doomed, StillPaused, next
    <2>3. Made(t, Free(Free(Start(t), n), Sibling(t, n, 1)), Under(t, {n, Sibling(t, n, 1)}),
               t.paused \ Under(t, {n, Sibling(t, n, 1)}))
        BY FreeBothMade
    <2> QED BY <2>1, <2>2, <2>3 DEF x, y, D, P, next
<1>d. CASE action = "FreeSelfAndFreeAllInPrev"
    <2> DEFINE E == {n} \cup ((IF prev \in Groups(t) THEN Under(t, {prev}) \ {prev} ELSE {prev})
                              \cap Live(t))
    <2>1. y = FreeOrFreeAll(Free(x, n), prev)
        BY <1>2, <1>4, <1>d DEF Apply, y
    <2>2. D = E /\ P = t.paused \ D
        BY <1>d DEF D, P, Doomed, StillPaused, prev
    <2>3. Made(t, FreeOrFreeAll(Free(Start(t), n), prev), E, t.paused \ E)
        BY EmptyBesideMade DEF prev
    <2> QED BY <2>1, <2>2, <2>3 DEF x, y, D, P
<1>e. CASE action = "FreeSelfAndFreeAllInNext"
    <2> DEFINE E == {n} \cup ((IF next \in Groups(t) THEN Under(t, {next}) \ {next} ELSE {next})
                              \cap Live(t))
    <2>1. y = FreeOrFreeAll(Free(x, n), next)
        BY <1>2, <1>4, <1>e DEF Apply, y
    <2>2. D = E /\ P = t.paused \ D
        BY <1>e DEF D, P, Doomed, StillPaused, next
    <2>3. Made(t, FreeOrFreeAll(Free(Start(t), n), next), E, t.paused \ E)
        BY EmptyBesideMade DEF next
    <2> QED BY <2>1, <2>2, <2>3 DEF x, y, D, P
<1>f. CASE action = "FreeSelfToHead"
    <2> DEFINE E == Under(t, {n} \cup Beside(t, n, -1))
    <2>1. y = Free(FreeSide(x, n, -1), n)
        BY <1>4, <1>f DEF Apply, y
    <2>2. D = E /\ P = t.paused \ D
        BY <1>7, <1>f DEF D, P, Doomed, StillPaused
    <2>3. Made(t, Free(FreeSide(Start(t), n, -1), n), E, t.paused \ E)
        BY FreeSideMade
    <2> QED BY <2>1, <2>2, <2>3 DEF x, y, D, P
<1>g. CASE action = "FreeSelfToTail"
    <2> DEFINE E == Under(t, {n} \cup Beside(t, n, 1))
    <2>1. y = Free(FreeSide(x, n, 1), n)
        BY <1>4, <1>g DEF Apply, y
    <2>2. D = E /\ P = t.paused \ D
        BY <1>7, <1>g DEF D, P, Doomed, StillPaused
    <2>3. Made(t, Free(FreeSide(Start(t), n, 1), n), E, t.paused \ E)
        BY FreeSideMade
    <2> QED BY <2>1, <2>2, <2>3 DEF x, y, D, P
<1>h. CASE action = "FreeSelfPausePrev"
    <2> DEFINE Q == IF prev \notin Live(t) \ {n} THEN t.paused \ {n} ELSE (t.paused \ {n}) \cup {prev}
    <2>1. y = Pause(Free(x, n), prev, TRUE)
        BY <1>2, <1>4, <1>h DEF Apply, y
    <2>2. D = {n} /\ P = (t.paused \ {n}) \cup ({prev} \ {NoNode})
        BY <1>h DEF D, P, Doomed, StillPaused, prev
    <2>3. P = Q
        BY <1>3, <1>6, <2>2
    <2>4. Made(t, Pause(Free(x, n), prev, TRUE), {n}, Q)
        <3> DEFINE z == Free(x, n)
        <3>1. Made(t, z, {n}, t.paused \ {n})
            BY <1>8
        <3> HIDE DEF z
        <3> QED BY <3>1, PauseMade DEF z
    <2> QED BY <2>1, <2>2, <2>3, <2>4 DEF x, y, D, P
<1>i. CASE action = "FreeSelfPauseNext"
    <2> DEFINE Q == IF next \notin Live(t) \ {n} THEN t.paused \ {n} ELSE (t.paused \ {n}) \cup {next}
    <2>1. y = Pause(Free(x, n), next, TRUE)
        BY <1>2, <1>4, <1>i DEF Apply, y
    <2>2. D = {n} /\ P = (t.paused \ {n}) \cup ({next} \ {NoNode})
        BY <1>i DEF D, P, Doomed, StillPaused, next
    <2>3. P = Q
        BY <1>3, <1>6, <2>2
    <2>4. Made(t, Pause(Free(x, n), next, TRUE), {n}, Q)
        <3> DEFINE z == Free(x, n)
        <3>1. Made(t, z, {n}, t.paused \ {n})
            BY <1>8
        <3> HIDE DEF z
        <3> QED BY <3>1, PauseMade DEF z
    <2> QED BY <2>1, <2>2, <2>3, <2>4 DEF x, y, D, P
<1>j. CASE action = "FreeSelfResumeNext"
    <2> DEFINE Q == IF next \notin Live(t) \ {n} THEN t.paused \ {n} ELSE (t.paused \ {n}) \ {next}
    <2>1. y = Pause(Free(x, n), next, FALSE)
        BY <1>2, <1>4, <1>j DEF Apply, y
    <2>2. D = {n} /\ P = t.paused \ ({n} \cup ({next} \ {NoNode}))
        BY <1>j DEF D, P, Doomed, StillPaused, next
    <2>3. P = Q
        BY <1>1, <1>3, <1>6, <2>2
    <2>4. Made(t, Pause(Free(x, n), next, FALSE), {n}, Q)
        <3> DEFINE z == Free(x, n)
        <3>1. Made(t, z, {n}, t.paused \ {n})
            BY <1>8
        <3> HIDE DEF z
        <3> QED BY <3>1, PauseMade DEF z
    <2> QED BY <2>1, <2>2, <2>3, <2>4 DEF x, y, D, P
<1>k. CASE action = "FreeSelfAndDeepFreePrev"
    <2> DEFINE E == {n} \cup (Under(t, {prev}) \cap Synths(t))
    <2>1. y = FreeOrDeepFree(Free(x, n), prev)
        BY <1>2, <1>4, <1>k DEF Apply, y
    <2>2. D = E /\ P = t.paused \ D
        BY <1>k DEF D, P, Doomed, StillPaused, prev
    <2>3. Made(t, FreeOrDeepFree(Free(Start(t), n), prev), E, t.paused \ E)
        BY DeepBesideMade DEF prev
    <2> QED BY <2>1, <2>2, <2>3 DEF x, y, D, P
<1>l. CASE action = "FreeSelfAndDeepFreeNext"
    <2> DEFINE E == {n} \cup (Under(t, {next}) \cap Synths(t))
    <2>1. y = FreeOrDeepFree(Free(x, n), next)
        BY <1>2, <1>4, <1>l DEF Apply, y
    <2>2. D = E /\ P = t.paused \ D
        BY <1>l DEF D, P, Doomed, StillPaused, next
    <2>3. Made(t, FreeOrDeepFree(Free(Start(t), n), next), E, t.paused \ E)
        BY DeepBesideMade DEF next
    <2> QED BY <2>1, <2>2, <2>3 DEF x, y, D, P
<1>m. CASE action = "FreeAllInGroup"
    <2> DEFINE E == Under(t, ToSet(t.kids[p]))
    <2>1. y = FreeAll(x, p)
        BY <1>1, <1>4, <1>m DEF Apply, y
    <2>2. D = E /\ P = t.paused \ D
        BY <1>m DEF D, P, Doomed, StillPaused
    <2>3. Made(t, FreeAll(Start(t), p), E, t.paused \ E)
        BY <1>1, FreeAllMade
    <2> QED BY <2>1, <2>2, <2>3 DEF x, y, D, P
<1>n. CASE action = "FreeGroup" /\ p = Root
    <2>1. y = Free(x, n)
        BY <1>1, <1>4, <1>n DEF Apply, y, FreeEnclosing
    <2>2. D = {n} /\ P = t.paused \ {n}
        BY <1>n DEF D, P, Doomed, StillPaused
    <2> QED BY <1>8, <2>1, <2>2 DEF x, y, D, P
<1>o. CASE action = "FreeGroup" /\ p # Root
    <2>1. y = Free(x, p)
        BY <1>1, <1>4, <1>o DEF Apply, y, FreeEnclosing
    <2>2. D = Under(t, {p}) /\ P = t.paused \ D
        BY <1>o DEF D, P, Doomed, StillPaused
    <2>3. p \in Live(t) \ {Root}
        BY <1>1, <1>o DEF Grown, Shaped
    <2>4. Made(t, Free(Start(t), p), Under(t, {p}), t.paused \ Under(t, {p}))
        BY <2>3, FreeMade
    <2> QED BY <2>1, <2>2, <2>4 DEF x, y, D, P
<1> QED BY <1>a, <1>b, <1>c, <1>d, <1>e, <1>f, <1>g, <1>h, <1>i, <1>j, <1>k, <1>l, <1>m, <1>n, <1>o
       DEF Freeing

\* What stays is in the order it was in.
LEMMA ThinnedOrder ==
    ASSUME NEW t, Grown(t), NEW u, Grown(u), Live(u) \subseteq Live(t),
           \A m \in Live(u) : u.parent[m] = t.parent[m],
           \A g \in Groups(u) : Thinned(u.kids[g], t.kids[g]),
           NEW m \in Live(u) \ {Root}, NEW k \in Live(u) \ {Root}, u.parent[m] = u.parent[k]
    PROVE  At(u, m) < At(u, k) <=> At(t, m) < At(t, k)
<1> DEFINE g == u.parent[m]
           i == At(u, m)
           j == At(u, k)
<1>1. /\ g \in Groups(u) /\ i \in 1 .. Len(u.kids[g]) /\ u.kids[g][i] = m
      /\ j \in 1 .. Len(u.kids[g]) /\ u.kids[g][j] = k
    BY AtIs
<1>2. /\ g \in Groups(t) /\ At(t, m) \in 1 .. Len(t.kids[g]) /\ At(t, k) \in 1 .. Len(t.kids[g])
      /\ t.kids[g] \in Seq(Live(t))
    BY AtIs
<1>3. \A a \in 1 .. Len(t.kids[g]) : At(t, t.kids[g][a]) = a
    BY <1>2, PlaceIs
<1> DEFINE r == u.kids[g]
           row == t.kids[g]
<1>4. Thinned(r, row)
    BY <1>1
<1> HIDE DEF g, i, j, r, row
<1>t. \A a, b \in 1 .. Len(r) : a < b =>
         \E c, d \in 1 .. Len(row) : c < d /\ row[c] = r[a] /\ row[d] = r[b]
    BY <1>4 DEF Thinned
<1>r. /\ i \in 1 .. Len(r) /\ r[i] = m /\ j \in 1 .. Len(r) /\ r[j] = k
      /\ \A a \in 1 .. Len(row) : At(t, row[a]) = a
    BY <1>1, <1>3 DEF r, row
<1>5. ASSUME i < j PROVE At(t, m) < At(t, k)
    <2>1. PICK a \in 1 .. Len(row), b \in 1 .. Len(row) : a < b /\ row[a] = m /\ row[b] = k
        BY <1>t, <1>r, <1>5
    <2> QED BY <1>r, <2>1
<1>6. ASSUME j < i PROVE At(t, k) < At(t, m)
    <2>1. PICK a \in 1 .. Len(row), b \in 1 .. Len(row) : a < b /\ row[a] = k /\ row[b] = m
        BY <1>t, <1>r, <1>6
    <2> QED BY <1>r, <2>1
<1>7. i = j => m = k
    BY <1>1
<1>8. i \in Int /\ j \in Int /\ At(t, m) \in Int /\ At(t, k) \in Int
    BY <1>1, <1>2
<1> QED BY <1>5, <1>6, <1>7, <1>8 DEF i, j

-----------------------------------------------------------------------------
(* Adding and moving.                                                       *)

\* A row with an entry more.
Widened(r, row, i, e) ==
    /\ Len(r) = Len(row) + 1
    /\ \A j \in 1 .. Len(row) + 1 :
          r[j] = IF j < i THEN row[j] ELSE IF j = i THEN e ELSE row[j - 1]

\* An entry put into a row of others.
LEMMA InsertAtIs ==
    ASSUME NEW L, NEW row \in Seq(L), NEW i \in 1 .. Len(row) + 1, NEW e \in L
    PROVE  InsertAt(row, i, e) \in Seq(L) /\ Widened(InsertAt(row, i, e), row, i, e)
<1> DEFINE a == SubSeq(row, 1, i - 1)
           b == SubSeq(row, i, Len(row))
           c == a \o <<e>>
<1>0. Len(row) \in Nat /\ i \in Nat /\ i >= 1 /\ i <= Len(row) + 1
    OBVIOUS
<1>1. a \in Seq(L) /\ Len(a) = i - 1 /\ \A j \in 1 .. i - 1 : a[j] = row[j]
    <2>1. 1 \in 1 .. Len(row) + 1 /\ i - 1 \in 0 .. Len(row) /\ 1 <= (i - 1) + 1
        BY <1>0
    <2>2. /\ SubSeq(row, 1, i - 1) \in Seq(L) /\ Len(SubSeq(row, 1, i - 1)) = (i - 1) + 1 - 1
          /\ \A k \in 1 .. (i - 1) + 1 - 1 : SubSeq(row, 1, i - 1)[k] = row[1 + k - 1]
        BY <2>1, CutIs
    <2> QED BY <1>0, <2>2
<1>2. b \in Seq(L) /\ Len(b) = Len(row) + 1 - i /\ \A j \in 1 .. Len(row) + 1 - i : b[j] = row[i + j - 1]
    <2>1. Len(row) \in 0 .. Len(row) /\ i <= Len(row) + 1
        BY <1>0
    <2> QED BY <2>1, CutIs
<1>3. InsertAt(row, i, e) = c \o b
    BY DEF InsertAt
<1> HIDE DEF a, b
<1>4. c \in Seq(L) /\ Len(c) = i /\ \A j \in 1 .. i : c[j] = IF j < i THEN row[j] ELSE e
    <2>1. <<e>> \in Seq(L) /\ Len(<<e>>) = 1 /\ <<e>>[1] = e
        OBVIOUS
    <2> DEFINE s == <<e>>
    <2> HIDE DEF s
    <2>2. s \in Seq(L) /\ Len(s) = 1 /\ s[1] = e
        BY <2>1 DEF s
    <2>3. /\ a \o s \in Seq(L) /\ Len(a \o s) = Len(a) + Len(s)
          /\ \A j \in 1 .. Len(a) + Len(s) : (a \o s)[j] = IF j <= Len(a) THEN a[j] ELSE s[j - Len(a)]
        BY <1>1, <2>2, JoinIs
    <2>4. \A j \in 1 .. i : (a \o s)[j] = IF j < i THEN row[j] ELSE e
        <3> SUFFICES ASSUME NEW j \in 1 .. i PROVE (a \o s)[j] = IF j < i THEN row[j] ELSE e
            OBVIOUS
        <3>1. CASE j < i
            BY <1>0, <1>1, <2>2, <2>3, <3>1
        <3>2. CASE j = i
            <4>1. j - Len(a) = 1 /\ ~ (j <= Len(a)) /\ j \in 1 .. Len(a) + Len(s)
                BY <1>0, <1>1, <2>2, <3>2
            <4>2. (a \o s)[j] = s[j - Len(a)]
                BY <2>3, <4>1
            <4>3. s[j - Len(a)] = e
                BY <2>2, <4>1
            <4>4. ~ (j < i)
                BY <1>0, <3>2
            <4> QED BY <4>2, <4>3, <4>4
        <3>3. j < i \/ j = i
            BY <1>0
        <3> QED BY <3>1, <3>2, <3>3, Zenon
    <2> QED BY <1>0, <1>1, <2>2, <2>3, <2>4 DEF s
<1> HIDE DEF c
<1>5. /\ c \o b \in Seq(L) /\ Len(c \o b) = Len(c) + Len(b)
      /\ \A j \in 1 .. Len(c) + Len(b) : (c \o b)[j] = IF j <= Len(c) THEN c[j] ELSE b[j - Len(c)]
    BY <1>2, <1>4, JoinIs
<1>6. \A j \in 1 .. Len(row) + 1 :
         (c \o b)[j] = IF j < i THEN row[j] ELSE IF j = i THEN e ELSE row[j - 1]
    <2> SUFFICES ASSUME NEW j \in 1 .. Len(row) + 1
                 PROVE  (c \o b)[j] = IF j < i THEN row[j] ELSE IF j = i THEN e ELSE row[j - 1]
        OBVIOUS
    <2>0. j \in 1 .. Len(c) + Len(b)
        BY <1>0, <1>2, <1>4
    <2>1. CASE j <= i
        BY <1>0, <1>4, <1>5, <2>0, <2>1
    <2>2. CASE j > i
        <3>1. j - i \in 1 .. Len(row) + 1 - i /\ i + (j - i) - 1 = j - 1 /\ ~ (j <= i) /\ ~ (j < i)
            BY <1>0, <2>2
        <3>2. b[j - i] = row[j - 1]
            BY <1>2, <3>1
        <3>3. (c \o b)[j] = b[j - Len(c)]
            BY <1>4, <1>5, <2>0, <3>1
        <3>4. j # i
            BY <1>0, <2>2
        <3>5. b[j - Len(c)] = row[j - 1]
            BY <1>4, <3>2
        <3> QED BY <3>1, <3>3, <3>4, <3>5
    <2>3. j <= i \/ j > i
        BY <1>0
    <2> QED BY <2>1, <2>2, <2>3, Zenon
<1>7. Len(c \o b) = Len(row) + 1
    BY <1>0, <1>2, <1>4, <1>5
<1> QED BY <1>3, <1>5, <1>6, <1>7 DEF Widened

\* A row of distinct nodes that gets another stays one.
LEMMA InsertApart ==
    ASSUME NEW L, NEW row \in Seq(L), Apart(row), NEW i \in 1 .. Len(row) + 1,
           NEW e \in L, e \notin ToSet(row)
    PROVE  Apart(InsertAt(row, i, e)) /\ ToSet(InsertAt(row, i, e)) = ToSet(row) \cup {e}
<1> DEFINE r == InsertAt(row, i, e)
<1>0. Len(row) \in Nat /\ i \in Nat /\ i >= 1 /\ i <= Len(row) + 1
    OBVIOUS
<1>1. /\ r \in Seq(L) /\ Len(r) = Len(row) + 1
      /\ \A j \in 1 .. Len(row) + 1 : r[j] = IF j < i THEN row[j] ELSE IF j = i THEN e ELSE row[j - 1]
    <2>1. r \in Seq(L) /\ Widened(r, row, i, e)
        BY InsertAtIs
    <2> HIDE DEF r
    <2> QED BY <2>1 DEF Widened
<1>2. ToSet(row) = {row[j] : j \in 1 .. Len(row)} /\ ToSet(r) = {r[j] : j \in 1 .. Len(row) + 1}
    BY <1>1, ToSetIs
<1> HIDE DEF r
<1>3. \A j \in 1 .. Len(row) : row[j] # e
    BY <1>2
\* The place in row of each but the new one.
<1> DEFINE from(j) == IF j < i THEN j ELSE j - 1
<1>4. \A j \in 1 .. Len(row) + 1 : j # i => from(j) \in 1 .. Len(row) /\ r[j] = row[from(j)]
    BY <1>0, <1>1
<1>5. r[i] = e /\ i \in 1 .. Len(row) + 1
    BY <1>0, <1>1
<1>6. \A j, k \in 1 .. Len(row) + 1 : j # i /\ k # i /\ from(j) = from(k) => j = k
    BY <1>0
<1> HIDE DEF from
<1>7. ASSUME NEW j \in 1 .. Len(row) + 1, NEW k \in 1 .. Len(row) + 1, r[j] = r[k] PROVE j = k
    <2>1. CASE j # i /\ k # i
        <3>1. row[from(j)] = row[from(k)] /\ from(j) \in 1 .. Len(row) /\ from(k) \in 1 .. Len(row)
            BY <1>4, <1>7, <2>1
        <3>2. from(j) = from(k)
            BY <3>1 DEF Apart
        <3> QED BY <1>6, <2>1, <3>2
    <2>2. CASE j = i /\ k # i
        BY <1>3, <1>4, <1>5, <1>7, <2>2
    <2>3. CASE j # i /\ k = i
        BY <1>3, <1>4, <1>5, <1>7, <2>3
    <2> QED BY <2>1, <2>2, <2>3
<1>8. Apart(r)
    BY <1>1, <1>7 DEF Apart
<1>9. \A x \in ToSet(r) : x \in ToSet(row) \cup {e}
    BY <1>2, <1>4, <1>5
<1>10. ASSUME NEW x \in ToSet(row) PROVE x \in ToSet(r)
    <2>1. PICK j \in 1 .. Len(row) : x = row[j]
        BY <1>2
    <2>2. CASE j < i
        <3>1. j \in 1 .. Len(row) + 1 /\ r[j] = x
            BY <1>0, <1>1, <2>1, <2>2
        <3> QED BY <1>2, <3>1
    <2>3. CASE ~ (j < i)
        <3>1. j + 1 \in 1 .. Len(row) + 1 /\ ~ (j + 1 < i) /\ j + 1 # i /\ (j + 1) - 1 = j
            BY <1>0, <2>3
        <3>2. r[j + 1] = x
            BY <1>1, <2>1, <3>1
        <3> QED BY <1>2, <3>1, <3>2
    <2> QED BY <2>2, <2>3
<1>11. ToSet(r) = ToSet(row) \cup {e}
    BY <1>2, <1>5, <1>9, <1>10
<1> QED BY <1>8, <1>11 DEF r

\* A tree with one more node is one.
LEMMA AddedGrows ==
    ASSUME NEW t, Grown(t), NEW n, n \notin Live(t), n # NoNode, NEW g \in Groups(t),
           NEW at \in 1 .. Len(t.kids[g]) + 1, NEW b \in BOOLEAN, NEW u,
           u = Placed(t, n, g, at, b)
    PROVE  /\ Grown(u) /\ Live(u) = Live(t) \cup {n} /\ u.paused = t.paused
           /\ Groups(u) = Groups(t) \cup (IF b THEN {n} ELSE {})
           /\ \A h \in Groups(u) : Len(u.kids[h]) = IF h = n THEN 0
                                                    ELSE IF h = g THEN Len(t.kids[g]) + 1
                                                    ELSE Len(t.kids[h])
<1> DEFINE placed == [t.kids EXCEPT ![g] = InsertAt(@, at, n)]
           row == InsertAt(t.kids[g], at, n)
           L == Live(t) \cup {n}
           N == IF b THEN {n} ELSE {}
<1>1. /\ t = [parent |-> [m \in Live(t) |-> t.parent[m]], kids |-> [h \in Groups(t) |-> t.kids[h]],
              paused |-> t.paused]
      /\ IsFiniteSet(Live(t)) /\ Root \in Groups(t) /\ Groups(t) \subseteq Live(t)
      /\ NoNode \notin Live(t) /\ t.parent[Root] = NoNode
      /\ \A m \in Live(t) \ {Root} : t.parent[m] \in Groups(t)
      /\ \A h \in Groups(t) : t.kids[h] \in Seq(Live(t))
      /\ t.paused \subseteq Live(t)
    BY DEF Grown, Shaped
<1>2. \A h \in Groups(t) : t.kids[h] \in Seq(L) /\ Apart(t.kids[h]) /\ n \notin ToSet(t.kids[h])
    <2> SUFFICES ASSUME NEW h \in Groups(t)
                 PROVE  t.kids[h] \in Seq(L) /\ Apart(t.kids[h]) /\ n \notin ToSet(t.kids[h])
        OBVIOUS
    <2>1. t.kids[h] \in Seq(Live(t))
        BY <1>1
    <2>2. ToSet(t.kids[h]) \subseteq Live(t)
        BY <2>1, ToSetIs
    <2> QED BY <2>1, <2>2 DEF Grown, Linked
<1>3. /\ row \in Seq(L) /\ Len(row) = Len(t.kids[g]) + 1
      /\ Apart(row) /\ ToSet(row) = ToSet(t.kids[g]) \cup {n}
    <2>1. row \in Seq(L) /\ Len(row) = Len(t.kids[g]) + 1
        BY <1>2, InsertAtIs DEF Widened
    <2>2. Apart(row) /\ ToSet(row) = ToSet(t.kids[g]) \cup {n}
        BY <1>2, InsertApart
    <2> QED BY <2>1, <2>2
<1>4. /\ u.parent = With(t.parent, n, g) /\ u.paused = t.paused
      /\ u.kids = IF b THEN With(placed, n, << >>) ELSE placed
      /\ u = [parent |-> u.parent, kids |-> u.kids, paused |-> u.paused]
    BY <1>1 DEF Placed
<1>5. placed = [h \in Groups(t) |-> IF h = g THEN row ELSE t.kids[h]]
    <2>1. t.kids = [h \in Groups(t) |-> t.kids[h]]
        BY <1>1
    <2> DEFINE kids == t.kids
    <2> HIDE DEF row
    <2>2. kids = [h \in Groups(t) |-> kids[h]] /\ row = InsertAt(kids[g], at, n)
        BY <2>1 DEF row
    <2>3. placed = [kids EXCEPT ![g] = row]
        BY <2>2
    <2> HIDE DEF kids, placed
    <2>4. placed = [h \in Groups(t) |-> IF h = g THEN row ELSE kids[h]]
        BY <2>2, <2>3
    <2> QED BY <2>4 DEF kids
<1> HIDE DEF row, placed
<1>6. u.parent = [m \in L |-> IF m = n THEN g ELSE t.parent[m]]
    <2>1. DOMAIN t.parent = Live(t)
        BY DEF Live
    <2> QED BY <1>4, <2>1 DEF With
<1>7. u.kids = [h \in Groups(t) \cup N |-> IF h = n THEN << >> ELSE IF h = g THEN row ELSE t.kids[h]]
    <2>1. DOMAIN placed = Groups(t) /\ n \notin Groups(t)
        BY <1>1, <1>5
    <2>2. CASE b
        BY <1>4, <1>5, <2>1, <2>2 DEF With
    <2>3. CASE ~ b
        BY <1>4, <1>5, <2>1, <2>3
    <2> QED BY <2>2, <2>3
<1>8. Live(u) = L /\ Groups(u) = Groups(t) \cup N
    BY <1>6, <1>7 DEF Live, Groups
<1>9. /\ \A m \in L : u.parent[m] = IF m = n THEN g ELSE t.parent[m]
      /\ \A h \in Groups(u) : u.kids[h] = IF h = n THEN << >> ELSE IF h = g THEN row ELSE t.kids[h]
    BY <1>6, <1>7, <1>8
<1>10. n # Root /\ n \notin Groups(t) /\ g # n
    BY <1>1
<1>11. Shaped(u)
    <2>1. u.parent = [m \in Live(u) |-> u.parent[m]] /\ u.kids = [h \in Groups(u) |-> u.kids[h]]
        BY <1>6, <1>7, <1>8
    <2>2. u = [parent |-> [m \in Live(u) |-> u.parent[m]], kids |-> [h \in Groups(u) |-> u.kids[h]],
               paused |-> u.paused]
        BY <1>4, <2>1
    <2>3. IsFiniteSet(Live(u))
        BY <1>1, <1>8, FS_AddElement
    <2>4. \A h \in Groups(u) : u.kids[h] \in Seq(Live(u))
        <3>1. << >> \in Seq(L)
            OBVIOUS
        <3> QED BY <1>2, <1>3, <1>8, <1>9, <3>1
    <2>5. \A m \in Live(u) \ {Root} : u.parent[m] \in Groups(u)
        BY <1>1, <1>8, <1>9
    <2>6. u.parent[Root] = NoNode /\ Root \in Groups(u) /\ Groups(u) \subseteq Live(u)
          /\ NoNode \notin Live(u) /\ u.paused \subseteq Live(u)
        BY <1>1, <1>4, <1>8, <1>9, <1>10
    <2> QED BY <2>2, <2>3, <2>4, <2>5, <2>6 DEF Shaped
<1>12. Linked(u)
    <2> SUFFICES ASSUME NEW h \in Groups(u)
                 PROVE  /\ Apart(u.kids[h])
                        /\ \A m \in Live(u) : m \in ToSet(u.kids[h]) <=> u.parent[m] = h
        BY DEF Linked
    <2>1. CASE h = n
        <3>1. u.kids[h] = << >> /\ ToSet(<< >>) = {} /\ Apart(<< >>)
            BY <1>9, <2>1 DEF ToSet, Apart
        <3>2. \A m \in Live(u) : u.parent[m] # n
            BY <1>1, <1>8, <1>9, <1>10
        <3> QED BY <2>1, <3>1, <3>2
    <2>2. CASE h # n
        <3>1. h \in Groups(t) /\ \A m \in Live(t) : m \in ToSet(t.kids[h]) <=> t.parent[m] = h
            BY <1>8, <2>2 DEF Grown, Linked
        <3>2. CASE h = g
            BY <1>3, <1>8, <1>9, <2>2, <3>1, <3>2
        <3>3. CASE h # g
            BY <1>2, <1>8, <1>9, <2>2, <3>1, <3>3
        <3> QED BY <3>2, <3>3
    <2> QED BY <2>1, <2>2
<1>13. Rooted(u)
    <2> SUFFICES ASSUME NEW B \in SUBSET (Live(u) \ {Root}), B # {}
                 PROVE  \E m \in B : u.parent[m] \notin B
        BY DEF Rooted
    <2>1. CASE B \ {n} # {}
        <3>1. PICK m \in B \ {n} : t.parent[m] \notin B \ {n}
            <4>1. (B \ {n}) \in SUBSET (Live(t) \ {Root})
                BY <1>8
            <4> QED BY <2>1, <4>1 DEF Grown, Rooted
        <3>2. m \in Live(t) \ {Root} /\ m # n
            BY <1>8, <3>1
        <3>3. t.parent[m] # n /\ u.parent[m] = t.parent[m]
            BY <1>1, <1>8, <1>9, <1>10, <3>2
        <3> QED BY <3>1, <3>3
    <2>2. CASE B \ {n} = {}
        <3>1. B = {n}
            BY <2>2
        <3> QED BY <1>8, <1>9, <1>10, <3>1
    <2> QED BY <2>1, <2>2
<1>14. \A h \in Groups(u) : Len(u.kids[h]) = IF h = n THEN 0
                                             ELSE IF h = g THEN Len(t.kids[g]) + 1
                                             ELSE Len(t.kids[h])
    BY <1>3, <1>9
<1> QED BY <1>4, <1>8, <1>11, <1>12, <1>13, <1>14 DEF Grown

\* What is freed leaves its row.
LEMMA CutRow ==
    ASSUME NEW t, Grown(t), NEW n \in Live(t) \ {Root}
    PROVE  /\ Free(Start(t), n).tree = Cut(t, n)
           /\ t.parent[n] \in Groups(Cut(t, n))
           /\ Len(Cut(t, n).kids[t.parent[n]]) = Len(t.kids[t.parent[n]]) - 1
<1> DEFINE S == ToSet(ByStack(t, n))
           p == t.parent[n]
           row == RemoveAt(t.kids[p], At(t, n))
           kids == [t.kids EXCEPT ![p] = row]
           u == Cut(t, n)
<1>1. u = [parent |-> [m \in Live(t) \ S |-> t.parent[m]],
           kids |-> [g \in Groups(t) \ S |-> kids[g]],
           paused |-> t.paused \ S]
    BY CutFields
<1>2. Branch(t, n, S)
    BY ByStackIs
<1>3. p \in Groups(t) /\ t.kids[p] \in Seq(Live(t)) /\ At(t, n) \in 1 .. Len(t.kids[p])
    BY AtIs
<1>4. Len(row) = Len(t.kids[p]) - 1
    BY <1>3, RemoveAtIs
<1>5. p \notin S
    <2>1. p \notin Live(t) \/ p \in Live(t)
        OBVIOUS
    <2>2. S = {m \in Live(t) : n \in Above(t, m)}
        BY <1>2, BranchAbove
    <2>3. n \notin Above(t, p)
        BY NotAboveParent
    <2> QED BY <2>2, <2>3
<1>6. Free(Start(t), n).tree = u
    BY DEF Free, Start, Cut
<1> HIDE DEF S, row, u
<1>7. u.kids = [g \in Groups(t) \ S |-> kids[g]]
    BY <1>1
<1>8. p \in Groups(u) /\ u.kids[p] = row
    BY <1>3, <1>5, <1>7 DEF Groups
<1> QED BY <1>4, <1>6, <1>8 DEF u

\* The group a place is in is a live one.
LEMMA LiveParent ==
    ASSUME NEW t, Grown(t), NEW target, NEW action \in AddActions, IsPlace(t, target, action)
    PROVE  /\ target \in Live(t) /\ Destination(t, target, action) \in Groups(t)
           /\ action \notin {"head", "tail"} =>
                 target # Root /\ Destination(t, target, action) = t.parent[target]
BY DEF IsPlace, Destination, Grown, Shaped

\* What an insertion into g makes of the tree t: v, in which it has freed, and u,
\* with n in it.
Grafted(t, v, u, n, isGroup, g, widens) ==
    /\ Grown(u)
    /\ Live(u) = Live(v) \cup {n} /\ Live(v) \subseteq Live(t)
    /\ Groups(u) = Groups(v) \cup (IF isGroup THEN {n} ELSE {})
    /\ Groups(v) = Groups(t) \cap Live(v)
    /\ \A h \in Groups(u) :
         \/ h = n /\ Len(u.kids[h]) = 0
         \/ h \in Groups(t) /\ Len(u.kids[h]) <= Len(t.kids[h])
         \/ h = g /\ widens /\ h \in Groups(t) /\ Len(u.kids[h]) = Len(t.kids[h]) + 1

\* An insertion grows a tree: what "replace" takes out leaves, and n comes in.
LEMMA InsertGrows ==
    ASSUME NEW t, Grown(t), NEW n, n # NoNode, NEW target, NEW action \in AddActions,
           MayInsert(t, n, target, action), NEW b \in BOOLEAN
    PROVE  LET x == Insert(Start(t), n, b, target, action)
               y == IF action = "replace" THEN Free(Start(t), target) ELSE Start(t)
           IN  /\ x.deaths = y.deaths
               /\ Grafted(t, y.tree, x.tree, n, b, Destination(t, target, action),
                          action # "replace")
<1> DEFINE x == Insert(Start(t), n, b, target, action)
           y == IF action = "replace" THEN Free(Start(t), target) ELSE Start(t)
           g == Destination(t, target, action)
           at == Position(t, g, target, action)
           u == y.tree
<1>1. /\ target \in Live(t) /\ g \in Groups(t) /\ n \notin Live(t)
      /\ action \notin {"head", "tail"} => target # Root /\ g = t.parent[target]
    BY LiveParent DEF MayInsert
<1>2. Start(t).tree = t /\ Start(t).deaths = << >> /\ Start(t) = [tree |-> t, deaths |-> << >>]
    BY DEF Start
<1>3. t.kids[g] \in Seq(Live(t)) /\ Len(t.kids[g]) \in Nat
    BY <1>1 DEF Grown, Shaped
<1>4. action \notin {"head", "tail"} => At(t, target) \in 1 .. Len(t.kids[g])
    BY <1>1, AtIs
<1> HIDE DEF g
<1>5. at \in 1 .. Len(t.kids[g]) + 1 /\ (action = "replace" => at \in 1 .. Len(t.kids[g]))
    <2>1. CASE action = "head"
        BY <1>3, <2>1 DEF Position
    <2>2. CASE action = "tail"
        BY <1>3, <2>2 DEF Position
    <2>3. CASE action = "before" \/ action = "replace"
        <3>1. at = At(t, target)
            BY <2>3 DEF Position
        <3> QED BY <1>3, <1>4, <2>3, <3>1
    <2>4. CASE action = "after"
        <3>1. at = At(t, target) + 1
            BY <2>4 DEF Position
        <3> QED BY <1>3, <1>4, <2>4, <3>1
    <2> QED BY <2>1, <2>2, <2>3, <2>4 DEF AddActions, Places
<1> HIDE DEF at
<1>6. /\ Grown(u) /\ Live(u) \subseteq Live(t) /\ Groups(u) = Groups(t) \cap Live(u)
      /\ y = [tree |-> u, deaths |-> y.deaths]
      /\ g \in Groups(u) /\ at \in 1 .. Len(u.kids[g]) + 1
      /\ \A h \in Groups(u) : Len(u.kids[h]) <= Len(t.kids[h])
      /\ action = "replace" => Len(u.kids[g]) = Len(t.kids[g]) - 1
    <2>1. CASE action = "replace"
        <3> DEFINE D == Under(t, {target})
        <3>1. target \in Live(t) \ {Root} /\ g = t.parent[target]
            BY <1>1, <2>1
        <3>2. Made(t, Free(Start(t), target), D, t.paused \ D)
            BY <3>1, FreeMade
        <3>3. y = Free(Start(t), target) /\ u = Cut(t, target)
            BY <2>1, <3>1, CutRow
        <3>4. g \in Groups(u) /\ Len(u.kids[g]) = Len(t.kids[g]) - 1
            BY <3>1, <3>3, CutRow
        <3> HIDE DEF y, u, D
        <3>5. u = y.tree
            BY DEF u
        <3>6. /\ Grown(u) /\ y = [tree |-> u, deaths |-> y.deaths]
              /\ Live(u) = Live(t) \ D /\ Groups(u) = Groups(t) \ D
              /\ \A h \in Groups(u) : Thinned(u.kids[h], t.kids[h])
            BY <3>2, <3>3, <3>5 DEF Made
        <3>7. Groups(t) \subseteq Live(t)
            BY DEF Grown, Shaped
        <3>8. \A h \in Groups(u) : Len(u.kids[h]) <= Len(t.kids[h])
            BY <3>6 DEF Thinned
        <3> QED BY <1>3, <1>5, <2>1, <3>4, <3>6, <3>7, <3>8
    <2>2. CASE action # "replace"
        <3>1. y = Start(t) /\ u = t
            BY <1>2, <2>2
        <3>2. Groups(t) \subseteq Live(t) /\ \A h \in Groups(t) : Len(t.kids[h]) \in Nat
            BY DEF Grown, Shaped
        <3> HIDE DEF y, u
        <3> QED BY <1>1, <1>2, <1>5, <2>2, <3>1, <3>2
    <2> QED BY <2>1, <2>2
<1>7. x = [y EXCEPT !.tree = Placed(u, n, g, at, b)]
    BY <1>2 DEF Insert, g, at
<1> HIDE DEF x, y, u
<1>8. x.deaths = y.deaths /\ x.tree = Placed(u, n, g, at, b)
    BY <1>6, <1>7
<1> DEFINE v == x.tree
<1>9. /\ Grown(v) /\ Live(v) = Live(u) \cup {n}
      /\ Groups(v) = Groups(u) \cup (IF b THEN {n} ELSE {})
      /\ \A h \in Groups(v) : Len(v.kids[h]) = IF h = n THEN 0
                                               ELSE IF h = g THEN Len(u.kids[g]) + 1
                                               ELSE Len(u.kids[h])
    <2>1. n \notin Live(u)
        BY <1>1, <1>6
    <2>2. v = Placed(u, n, g, at, b)
        BY <1>8
    <2> HIDE DEF v
    <2>3. /\ Grown(u) /\ n \notin Live(u) /\ n # NoNode /\ g \in Groups(u)
          /\ at \in 1 .. Len(u.kids[g]) + 1 /\ b \in BOOLEAN
        BY <1>6, <2>1
    <2>4. Grown(v) /\ Live(v) = Live(u) \cup {n}
        BY <2>2, <2>3, AddedGrows
    <2>5. Groups(v) = Groups(u) \cup (IF b THEN {n} ELSE {})
        BY <2>2, <2>3, AddedGrows
    <2>6. \A h \in Groups(v) : Len(v.kids[h]) = IF h = n THEN 0
                                                ELSE IF h = g THEN Len(u.kids[g]) + 1
                                                ELSE Len(u.kids[h])
        BY <2>2, <2>3, AddedGrows
    <2> QED BY <2>4, <2>5, <2>6
<1> HIDE DEF v
<1>10. ASSUME NEW h \in Groups(v)
       PROVE  \/ h = n /\ Len(v.kids[h]) = 0
              \/ h \in Groups(t) /\ Len(v.kids[h]) <= Len(t.kids[h])
              \/ /\ h = g /\ action # "replace" /\ h \in Groups(t)
                 /\ Len(v.kids[h]) = Len(t.kids[h]) + 1
    <2>1. CASE h = n
        BY <1>9, <2>1
    <2>2. CASE h # n /\ h = g /\ action = "replace"
        BY <1>1, <1>3, <1>6, <1>9, <2>2
    <2>3. CASE h # n /\ h = g /\ action # "replace"
        <3>1. Len(v.kids[h]) = Len(u.kids[g]) + 1 /\ Len(u.kids[g]) <= Len(t.kids[g])
              /\ g \in Groups(t)
            BY <1>6, <1>9, <2>3
        <3>2. Len(u.kids[g]) \in Nat
            BY <1>6 DEF Grown, Shaped
        <3> DEFINE a == Len(v.kids[h])
                   c == Len(u.kids[g])
                   d == Len(t.kids[h])
        <3>3. a = c + 1 /\ c <= d /\ c \in Nat /\ d \in Nat
            BY <1>3, <2>3, <3>1, <3>2
        <3> HIDE DEF a, c, d
        <3>4. a <= d \/ a = d + 1
            BY <3>3
        <3> QED BY <2>3, <3>1, <3>4 DEF a, d
    <2>4. CASE h # n /\ h # g
        <3>1. h \in Groups(u)
            BY <1>9, <2>4
        <3> QED BY <1>6, <1>9, <2>4, <3>1
    <2> QED BY <2>1, <2>2, <2>3, <2>4
<1>11. Live(u) \subseteq Live(t) /\ Groups(u) = Groups(t) \cap Live(u)
    BY <1>6
<1>12. Grafted(t, u, v, n, b, g, action # "replace")
    BY <1>9, <1>10, <1>11 DEF Grafted
<1> QED BY <1>8, <1>12 DEF x, y, u, g, v

\* A move leaves a tree, which its cycle check is for.
LEMMA MoveGrows ==
    ASSUME NEW t, Grown(t), NEW n, NEW target, NEW place \in Places, MayMove(t, n, target, place)
    PROVE  LET u == Move(t, n, target, place)
               g == Destination(t, target, place)
           IN  /\ Grown(u) /\ Live(u) = Live(t) /\ Groups(u) = Groups(t) /\ u.paused = t.paused
               /\ g \in Groups(t)
               /\ \A h \in Groups(t) :
                    \/ Len(u.kids[h]) <= Len(t.kids[h])
                    \/ h = g /\ g # t.parent[n] /\ Len(u.kids[h]) = Len(t.kids[h]) + 1
<1> DEFINE g == Destination(t, target, place)
           p == t.parent[n]
           w == Unlink(t, n)
           at == Position(w, g, target, place)
           u == Move(t, n, target, place)
           out == RemoveAt(t.kids[p], At(t, n))
           mid == [t.kids EXCEPT ![p] = out]
           row == InsertAt(mid[g], at, n)
<1>1. /\ n \in Live(t) \ {Root} /\ n # target /\ target \in Live(t) /\ g \in Groups(t)
      /\ n \notin Above(t, g)
      /\ place \notin {"head", "tail"} => target # Root /\ g = t.parent[target]
    BY LiveParent DEF MayMove, AddActions
<1>2. /\ t = [parent |-> [m \in Live(t) |-> t.parent[m]], kids |-> [h \in Groups(t) |-> t.kids[h]],
              paused |-> t.paused]
      /\ IsFiniteSet(Live(t)) /\ Root \in Groups(t) /\ Groups(t) \subseteq Live(t)
      /\ NoNode \notin Live(t) /\ t.parent[Root] = NoNode
      /\ \A m \in Live(t) \ {Root} : t.parent[m] \in Groups(t)
      /\ \A h \in Groups(t) : t.kids[h] \in Seq(Live(t))
      /\ t.paused \subseteq Live(t)
    BY DEF Grown, Shaped
<1>3. \A h \in Groups(t) : /\ Apart(t.kids[h])
                           /\ \A m \in Live(t) : m \in ToSet(t.kids[h]) <=> t.parent[m] = h
    BY DEF Grown, Linked
<1>4. p \in Groups(t) /\ At(t, n) \in 1 .. Len(t.kids[p]) /\ t.kids[p][At(t, n)] = n
    BY <1>1, AtIs
<1>5. /\ out \in Seq(Live(t)) /\ Apart(out) /\ ToSet(out) = ToSet(t.kids[p]) \ {n}
      /\ Len(out) = Len(t.kids[p]) - 1
    <2>1. out \in Seq(Live(t)) /\ Len(out) = Len(t.kids[p]) - 1
        BY <1>2, <1>4, RemoveAtIs
    <2>2. Apart(out) /\ ToSet(out) = ToSet(t.kids[p]) \ {n}
        BY <1>2, <1>3, <1>4, RemoveApart
    <2> QED BY <2>1, <2>2
<1>6. w = [parent |-> t.parent, kids |-> mid, paused |-> t.paused]
    <2>1. w = [t EXCEPT !.kids = mid]
        BY DEF Unlink
    <2> HIDE DEF w, mid
    <2>2. w.parent = t.parent /\ w.kids = mid /\ w.paused = t.paused
        BY <1>2, <2>1
    <2> QED BY <1>2, <2>1
<1> HIDE DEF g, out, w
<1>7. mid = [h \in Groups(t) |-> IF h = p THEN out ELSE t.kids[h]]
    BY <1>2
<1>8. \A h \in Groups(t) :
         /\ mid[h] \in Seq(Live(t)) /\ Apart(mid[h]) /\ Len(mid[h]) \in Nat
         /\ Len(mid[h]) = IF h = p THEN Len(t.kids[h]) - 1 ELSE Len(t.kids[h])
         /\ \A m \in Live(t) : m \in ToSet(mid[h]) <=> t.parent[m] = h /\ m # n
    <2> SUFFICES ASSUME NEW h \in Groups(t)
                 PROVE  /\ mid[h] \in Seq(Live(t)) /\ Apart(mid[h]) /\ Len(mid[h]) \in Nat
                        /\ Len(mid[h]) = IF h = p THEN Len(t.kids[h]) - 1 ELSE Len(t.kids[h])
                        /\ \A m \in Live(t) : m \in ToSet(mid[h]) <=> t.parent[m] = h /\ m # n
        OBVIOUS
    <2>1. CASE h = p
        <3>1. mid[h] = out
            BY <1>7, <2>1
        <3>2. Len(out) \in Nat
            BY <1>5
        <3> QED BY <1>3, <1>4, <1>5, <2>1, <3>1, <3>2
    <2>2. CASE h # p
        <3>1. mid[h] = t.kids[h]
            BY <1>7, <2>2
        <3>2. Len(t.kids[h]) \in Nat
            BY <1>2
        <3> QED BY <1>2, <1>3, <2>2, <3>1, <3>2
    <2> QED BY <2>1, <2>2
<1> HIDE DEF mid
<1>9. at \in 1 .. Len(mid[g]) + 1
    <2>0. Len(mid[g]) \in Nat /\ w.kids = mid /\ w.parent = t.parent
        BY <1>1, <1>6, <1>8
    <2>1. CASE place = "head"
        BY <2>0, <2>1 DEF Position
    <2>2. CASE place = "tail"
        BY <2>0, <2>2 DEF Position
    <2>3. CASE place \notin {"head", "tail"}
        <3> DEFINE r == mid[g]
                   I == {i \in 1 .. Len(r) : r[i] = target}
        <3>1. g = t.parent[target] /\ target \in ToSet(r) /\ r \in Seq(Live(t)) /\ Apart(r)
            BY <1>1, <1>8, <2>3
        <3>2. At(w, target) = IF I # {} THEN Min(I) ELSE 0
            BY <2>0, <3>1 DEF At, SelectInSeq
        <3> HIDE DEF r
        <3>3. PICK i \in 1 .. Len(r) : r[i] = target
            BY <3>1 DEF ToSet
        <3>4. I = {i}
            BY <3>1, <3>3 DEF Apart
        <3>5. Min({i}) = i
            BY <3>3 DEF Min
        <3>6. At(w, target) \in 1 .. Len(r)
            BY <3>2, <3>3, <3>4, <3>5
        <3>7. at = At(w, target) \/ at = At(w, target) + 1
            BY <2>3 DEF Position, Places
        <3>8. Len(r) \in Nat
            BY <3>1
        <3> QED BY <3>6, <3>7, <3>8 DEF r
    <2> QED BY <2>1, <2>2, <2>3
<1> HIDE DEF at
<1>10. /\ row \in Seq(Live(t)) /\ Len(row) = Len(mid[g]) + 1
       /\ Apart(row) /\ ToSet(row) = ToSet(mid[g]) \cup {n}
    <2>1. mid[g] \in Seq(Live(t)) /\ Apart(mid[g]) /\ n \notin ToSet(mid[g]) /\ n \in Live(t)
        BY <1>1, <1>8
    <2>2. row \in Seq(Live(t)) /\ Len(row) = Len(mid[g]) + 1
        BY <1>9, <2>1, InsertAtIs DEF Widened
    <2>3. Apart(row) /\ ToSet(row) = ToSet(mid[g]) \cup {n}
        BY <1>9, <2>1, InsertApart
    <2> QED BY <2>2, <2>3
<1>11. u = [w EXCEPT !.kids[g] = row, !.parent[n] = g]
    BY <1>6 DEF Move, w, g, at
<1> HIDE DEF u, row
<1>12. /\ u.parent = [m \in Live(t) |-> IF m = n THEN g ELSE t.parent[m]]
       /\ u.kids = [h \in Groups(t) |-> IF h = g THEN row ELSE mid[h]]
       /\ u.paused = t.paused
       /\ u = [parent |-> u.parent, kids |-> u.kids, paused |-> u.paused]
    <2>1. t.parent = [m \in Live(t) |-> t.parent[m]]
        BY <1>2
    <2>2. u = [parent |-> [t.parent EXCEPT ![n] = g], kids |-> [mid EXCEPT ![g] = row],
               paused |-> t.paused]
        BY <1>6, <1>11
    <2> QED BY <1>7, <2>1, <2>2
<1>13. Live(u) = Live(t) /\ Groups(u) = Groups(t)
    BY <1>12 DEF Live, Groups
<1>14. /\ \A m \in Live(t) : u.parent[m] = IF m = n THEN g ELSE t.parent[m]
       /\ \A h \in Groups(t) : u.kids[h] = IF h = g THEN row ELSE mid[h]
    BY <1>12
<1>15. Shaped(u)
    <2>1. u.parent = [m \in Live(u) |-> u.parent[m]] /\ u.kids = [h \in Groups(u) |-> u.kids[h]]
        BY <1>12, <1>13
    <2>2. \A h \in Groups(u) : u.kids[h] \in Seq(Live(u))
        BY <1>8, <1>10, <1>13, <1>14
    <2>3. \A m \in Live(u) \ {Root} : u.parent[m] \in Groups(u)
        BY <1>1, <1>2, <1>13, <1>14
    <2>4. u.parent[Root] = NoNode
        BY <1>1, <1>2, <1>14
    <2> QED BY <1>2, <1>12, <1>13, <2>1, <2>2, <2>3, <2>4 DEF Shaped
<1>16. Linked(u)
    <2> SUFFICES ASSUME NEW h \in Groups(t)
                 PROVE  /\ Apart(u.kids[h])
                        /\ \A m \in Live(t) : m \in ToSet(u.kids[h]) <=> u.parent[m] = h
        BY <1>13 DEF Linked
    <2>1. CASE h = g
        BY <1>8, <1>10, <1>14, <2>1
    <2>2. CASE h # g
        BY <1>8, <1>14, <2>2
    <2> QED BY <2>1, <2>2
\* A set with no top would have one without n, above which n is not.
<1>17. Rooted(u)
    <2> SUFFICES ASSUME NEW B \in SUBSET (Live(t) \ {Root}), B # {},
                        \A m \in B : u.parent[m] \in B
                 PROVE  FALSE
        BY <1>13 DEF Rooted
    <2>1. CASE n \notin B
        <3>1. \A m \in B : t.parent[m] \in B
            BY <1>14, <2>1
        <3> QED BY <3>1 DEF Grown, Rooted
    <2>2. CASE n \in B
        <3> DEFINE C == B \cap Above(t, g)
        <3>0. g \in Live(t)
            BY <1>1, <1>2
        <3>1. g \in C
            BY <1>1, <1>14, <2>2, <3>0, AboveClosed
        <3>2. \A m \in C : m # n /\ m \in Live(t) \ {Root}
            BY <1>1
        <3>3. \A m \in C : t.parent[m] \in C
            <4> SUFFICES ASSUME NEW m \in C PROVE t.parent[m] \in C
                OBVIOUS
            <4>1. t.parent[m] \in B
                BY <1>14, <3>2
            <4>2. t.parent[m] \in Above(t, g)
                BY <3>0, <3>2, AboveClosed
            <4> QED BY <4>1, <4>2
        <3> HIDE DEF C
        <3>4. C \in SUBSET (Live(t) \ {Root})
            BY <3>2
        <3> QED BY <3>1, <3>3, <3>4 DEF Grown, Rooted
    <2> QED BY <2>1, <2>2
<1>18. ASSUME NEW h \in Groups(t)
       PROVE  \/ Len(u.kids[h]) <= Len(t.kids[h])
              \/ h = g /\ g # p /\ Len(u.kids[h]) = Len(t.kids[h]) + 1
    <2> DEFINE a == Len(u.kids[h])
               c == Len(mid[h])
               d == Len(t.kids[h])
    <2>1. /\ a = IF h = g THEN c + 1 ELSE c
          /\ c = IF h = p THEN d - 1 ELSE d
          /\ c \in Nat /\ d \in Nat
        BY <1>2, <1>8, <1>10, <1>14
    <2> HIDE DEF a, c, d
    <2>2. a <= d \/ (h = g /\ h # p /\ a = d + 1)
        BY <2>1
    <2> QED BY <2>2 DEF a, d
<1> QED BY <1>1, <1>12, <1>13, <1>15, <1>16, <1>17, <1>18 DEF Grown, u, g

-----------------------------------------------------------------------------
(* NodeTree: the tree and its done actions.                                 *)

\* Synths and groups have ids of their own.
Named(t) == Live(t) \subseteq Ids \cup {Root} /\ Groups(t) = Live(t) \ SynthIds

\* The tree is within what the slab and the lists of children were allocated for.
Sized(t) ==
    /\ Cardinality(Live(t)) <= MaxNodes
    /\ \A g \in Groups(t) \ {Root} : Len(t.kids[g]) <= MaxChildren

\* The done actions queued are of synths, each with one that frees.
Queued == /\ queue \in Seq(SynthIds)
          /\ \A i \in 1 .. Len(queue) : ending[queue[i]] \in Freeing

\* The invariant of the tree and of the done actions that wait.
TreeInvariant ==
    /\ Grown(tree) /\ Named(tree) /\ Sized(tree)
    /\ ending \in Endings
    /\ Queued
    /\ draining => queue # << >>

\* What is grown is a forest.
LEMMA GrownIsForest == ASSUME NEW t, Grown(t) PROVE IsForest(t)
<1>1. \A g \in Groups(t) : t.kids[g] \in Seq(Live(t))
    BY DEF Grown, Shaped
<1>2. ASSUME NEW g \in Groups(t)
      PROVE  /\ \A i, j \in DOMAIN t.kids[g] : t.kids[g][i] = t.kids[g][j] => i = j
             /\ ToSet(t.kids[g]) = {n \in Live(t) : t.parent[n] = g}
    <2>1. DOMAIN t.kids[g] = 1 .. Len(t.kids[g]) /\ ToSet(t.kids[g]) \subseteq Live(t)
        BY <1>1, ToSetIs
    <2>2. Apart(t.kids[g]) /\ \A n \in Live(t) : n \in ToSet(t.kids[g]) <=> t.parent[n] = g
        BY DEF Grown, Linked
    <2>3. ToSet(t.kids[g]) = {n \in Live(t) : t.parent[n] = g}
        BY <2>1, <2>2
    <2> QED BY <2>1, <2>2, <2>3 DEF Apart
<1>3. ASSUME NEW S \in SUBSET (Live(t) \ {Root}), S # {}
      PROVE  \E n \in S : t.parent[n] \in Live(t) \ S
    <2>1. PICK n \in S : t.parent[n] \notin S
        BY <1>3 DEF Grown, Rooted
    <2>2. t.parent[n] \in Live(t)
        BY DEF Grown, Shaped
    <2> QED BY <2>1, <2>2
<1> QED BY <1>2, <1>3 DEF IsForest

\* The empty tree is one.
LEMMA RootGrows == Grown(RootOnly) /\ Live(RootOnly) = {Root} /\ Groups(RootOnly) = {Root}
<1>1. /\ RootOnly.parent = [n \in {Root} |-> NoNode] /\ RootOnly.kids = [g \in {Root} |-> << >>]
      /\ RootOnly.paused = {}
      /\ RootOnly = [parent |-> RootOnly.parent, kids |-> RootOnly.kids, paused |-> RootOnly.paused]
    BY DEF RootOnly
<1>2. Live(RootOnly) = {Root} /\ Groups(RootOnly) = {Root}
    BY <1>1 DEF Live, Groups
<1>3. Shaped(RootOnly)
    <2>1. IsFiniteSet({Root})
        BY FS_Singleton
    <2>2. << >> \in Seq(Live(RootOnly))
        OBVIOUS
    <2>3. NoNode # Root
        BY TreesAssumption
    <2> QED BY <1>1, <1>2, <2>1, <2>2, <2>3 DEF Shaped
<1>4. Linked(RootOnly)
    <2>1. Apart(<< >>)
        BY DEF Apart
    <2>2. ToSet(<< >>) = {}
        BY DEF ToSet
    <2> QED BY <1>1, <1>2, <2>1, <2>2, TreesAssumption DEF Linked
<1>5. Rooted(RootOnly)
    BY <1>2 DEF Rooted
<1> QED BY <1>2, <1>3, <1>4, <1>5 DEF Grown

\* Freeing keeps what the tree is.
LEMMA MadeKeeps ==
    ASSUME NEW t, Grown(t), Named(t), Sized(t), NEW x, NEW D, NEW P, Made(t, x, D, P)
    PROVE  Grown(x.tree) /\ Named(x.tree) /\ Sized(x.tree)
<1> DEFINE u == x.tree
<1>1. /\ Grown(u) /\ Live(u) = Live(t) \ D /\ Groups(u) = Groups(t) \ D
      /\ \A g \in Groups(u) : Thinned(u.kids[g], t.kids[g])
    BY DEF Made
<1>2. Named(u)
    BY <1>1 DEF Named
<1>3. Cardinality(Live(u)) <= MaxNodes
    <2>1. IsFiniteSet(Live(t)) /\ Live(u) \subseteq Live(t)
        BY <1>1 DEF Grown, Shaped
    <2>2. Cardinality(Live(u)) <= Cardinality(Live(t))
          /\ Cardinality(Live(u)) \in Nat /\ Cardinality(Live(t)) \in Nat
        BY <2>1, FS_Subset, FS_CardinalityType
    <2>3. Cardinality(Live(t)) <= MaxNodes /\ MaxNodes \in Nat
        BY TreesAssumption DEF Sized
    <2> QED BY <2>2, <2>3
<1>4. ASSUME NEW g \in Groups(u) \ {Root} PROVE Len(u.kids[g]) <= MaxChildren
    <2>1. Len(u.kids[g]) <= Len(t.kids[g]) /\ Len(t.kids[g]) <= MaxChildren
        BY <1>1 DEF Thinned, Sized
    <2>2. Len(u.kids[g]) \in Nat /\ Len(t.kids[g]) \in Nat /\ MaxChildren \in Nat
        BY <1>1, TreesAssumption DEF Grown, Shaped
    <2> QED BY <2>1, <2>2
<1> QED BY <1>1, <1>2, <1>3, <1>4 DEF Sized

\* So does an insertion that fits.
LEMMA InsertKeepsTree ==
    ASSUME NEW t, Grown(t), Named(t), Sized(t), NEW n \in Ids, NEW target, NEW action \in AddActions,
           MayInsert(t, n, target, action), FitsInsert(t, target, action)
    PROVE  LET u == Insert(Start(t), n, n \in GroupIds, target, action).tree
           IN  Grown(u) /\ Named(u) /\ Sized(u)
<1> DEFINE x == Insert(Start(t), n, n \in GroupIds, target, action)
           y == IF action = "replace" THEN Free(Start(t), target) ELSE Start(t)
           g == Destination(t, target, action)
           b == n \in GroupIds
           u == x.tree
           v == y.tree
<1>1. n # NoNode /\ n # Root /\ b \in BOOLEAN
    BY TreesAssumption DEF Ids
<1>0. Grafted(t, v, u, n, b, g, action # "replace")
    BY <1>1, InsertGrows
<1> HIDE DEF u, v, b, x, y
<1>2. /\ Grown(u) /\ Live(u) = Live(v) \cup {n} /\ Live(v) \subseteq Live(t)
      /\ Groups(u) = Groups(v) \cup (IF b THEN {n} ELSE {})
      /\ Groups(v) = Groups(t) \cap Live(v)
    BY <1>0 DEF Grafted
<1>3. \A h \in Groups(u) :
        \/ h = n /\ Len(u.kids[h]) = 0
        \/ h \in Groups(t) /\ Len(u.kids[h]) <= Len(t.kids[h])
        \/ /\ h = g /\ action # "replace" /\ h \in Groups(t)
           /\ Len(u.kids[h]) = Len(t.kids[h]) + 1
    BY <1>0 DEF Grafted
<1>4. Named(u)
    <2>1. b <=> n \notin SynthIds
        BY TreesAssumption DEF b, Ids
    <2> QED BY <1>2, <2>1 DEF Named
<1>5. Cardinality(Live(u)) <= MaxNodes
    <2>1. IsFiniteSet(Live(t)) /\ IsFiniteSet(Live(t) \cup {n}) /\ n \notin Live(t)
        BY FS_AddElement DEF Grown, Shaped, MayInsert
    <2>2. Cardinality(Live(u)) <= Cardinality(Live(t) \cup {n}) /\ Cardinality(Live(u)) \in Nat
        <3>1. Live(u) \subseteq Live(t) \cup {n}
            BY <1>2
        <3> QED BY <2>1, <3>1, FS_Subset, FS_CardinalityType
    <2>3. Cardinality(Live(t) \cup {n}) = Cardinality(Live(t)) + 1 /\ Cardinality(Live(t)) \in Nat
        BY <2>1, FS_AddElement, FS_CardinalityType
    <2>4. Cardinality(Live(t)) < MaxNodes /\ MaxNodes \in Nat
        BY TreesAssumption DEF FitsInsert
    <2> QED BY <2>2, <2>3, <2>4
<1>6. ASSUME NEW h \in Groups(u) \ {Root} PROVE Len(u.kids[h]) <= MaxChildren
    <2>0. MaxChildren \in Nat /\ Len(u.kids[h]) \in Nat
        BY <1>2, TreesAssumption DEF Grown, Shaped
    <2>1. CASE h = n /\ Len(u.kids[h]) = 0
        BY <2>0, <2>1
    <2>2. CASE h \in Groups(t) /\ Len(u.kids[h]) <= Len(t.kids[h])
        <3>1. Len(t.kids[h]) <= MaxChildren /\ Len(t.kids[h]) \in Nat
            BY <2>2 DEF Sized, Grown, Shaped
        <3> QED BY <2>0, <2>2, <3>1
    <2>3. CASE /\ h = g /\ action # "replace" /\ h \in Groups(t)
               /\ Len(u.kids[h]) = Len(t.kids[h]) + 1
        <3>1. Len(t.kids[h]) < MaxChildren
            BY <2>3 DEF FitsInsert, HasRoom
        <3>2. Len(t.kids[h]) \in Nat
            BY <2>3 DEF Grown, Shaped
        <3> QED BY <2>0, <2>3, <3>1, <3>2
    <2> QED BY <1>3, <2>1, <2>2, <2>3
<1> QED BY <1>2, <1>4, <1>5, <1>6 DEF Sized, u, x, b

\* And a move that fits.
LEMMA MoveKeepsTree ==
    ASSUME NEW t, Grown(t), Named(t), Sized(t), NEW n, NEW target, NEW place \in Places,
           MayMove(t, n, target, place), FitsMove(t, n, target, place)
    PROVE  LET u == Move(t, n, target, place) IN Grown(u) /\ Named(u) /\ Sized(u)
<1> DEFINE u == Move(t, n, target, place)
           g == Destination(t, target, place)
<1>1. Grown(u) /\ Live(u) = Live(t) /\ Groups(u) = Groups(t) /\ g \in Groups(t)
    BY MoveGrows
<1>2. \A h \in Groups(t) :
         \/ Len(u.kids[h]) <= Len(t.kids[h])
         \/ h = g /\ g # t.parent[n] /\ Len(u.kids[h]) = Len(t.kids[h]) + 1
    BY MoveGrows
<1>3. g # t.parent[n] => g = Root \/ Len(t.kids[g]) < MaxChildren
    BY DEF FitsMove, HasRoom
<1> HIDE DEF u, g
<1>4. Named(u)
    BY <1>1 DEF Named
<1>5. ASSUME NEW h \in Groups(u) \ {Root} PROVE Len(u.kids[h]) <= MaxChildren
    <2>0. MaxChildren \in Nat /\ Len(u.kids[h]) \in Nat /\ Len(t.kids[h]) \in Nat
        BY <1>1, TreesAssumption DEF Grown, Shaped
    <2>1. Len(t.kids[h]) <= MaxChildren
        BY <1>1 DEF Sized
    <2>2. CASE Len(u.kids[h]) <= Len(t.kids[h])
        BY <2>0, <2>1, <2>2
    <2>3. CASE h = g /\ g # t.parent[n] /\ Len(u.kids[h]) = Len(t.kids[h]) + 1
        <3>1. Len(t.kids[h]) < MaxChildren
            BY <1>3, <2>3
        <3> QED BY <2>0, <2>3, <3>1
    <2> QED BY <1>1, <1>2, <2>2, <2>3
<1> QED BY <1>1, <1>4, <1>5 DEF Sized, u

\* The root alone is a tree that keeps the invariant.
LEMMA InitTree == Init => TreeInvariant
<1> SUFFICES ASSUME Init PROVE TreeInvariant
    OBVIOUS
<1>1. tree = RootOnly /\ queue = << >> /\ draining = FALSE /\ ending \in Endings
    BY DEF Init
<1>2. Named(tree) /\ Sized(tree)
    <2>1. Live(tree) = {Root} /\ Groups(tree) = {Root} /\ Cardinality({Root}) = 1
        BY <1>1, RootGrows, FS_Singleton
    <2>2. Root \notin SynthIds /\ 1 <= MaxNodes
        BY TreesAssumption
    <2> QED BY <2>1, <2>2 DEF Named, Sized
<1>3. Queued
    BY <1>1 DEF Queued
<1> QED BY <1>1, <1>2, <1>3, RootGrows DEF TreeInvariant

\* A command keeps the invariant if it keeps the tree one.
LEMMA CommandKeeps ==
    ASSUME TreeInvariant, NEW x, Command(x), Grown(x.tree), Named(x.tree), Sized(x.tree)
    PROVE  TreeInvariant'
<1>1. tree' = x.tree /\ ending' = ending /\ queue' = queue /\ draining' = draining
    BY DEF Command
<1>2. Grown(tree') /\ Named(tree') /\ Sized(tree')
    BY <1>1
<1>3. Queued'
    BY <1>1 DEF TreeInvariant, Queued
<1> QED BY <1>1, <1>2, <1>3 DEF TreeInvariant

\* The synths of a slice queue up.
LEMMA SliceKeeps ==
    ASSUME TreeInvariant, NEW F \in SUBSET {n \in Synths(tree) : Runs(n)}, Slice(F)
    PROVE  TreeInvariant'
<1>1. Grown(tree) /\ Named(tree) /\ Sized(tree) /\ ending \in Endings /\ Queued /\ ~ draining
    BY DEF TreeInvariant, Slice
<1>2. /\ tree' = [tree EXCEPT !.paused = @ \cup {n \in F : ending[n] = "PauseSelf"}]
      /\ ending' = ending /\ draining' = draining
    BY DEF Slice
<1>3. F \subseteq Live(tree) /\ F \subseteq SynthIds
    BY <1>1 DEF Synths, Named
<1> DEFINE P == tree.paused \cup {n \in F : ending[n] = "PauseSelf"}
           G == {n \in F : ending[n] # "PauseSelf"}
<1>4. tree' = [tree EXCEPT !.paused = P] /\ P \in SUBSET Live(tree)
    BY <1>1, <1>2, <1>3 DEF Grown, Shaped
<1> HIDE DEF P
<1>5. Grown(tree') /\ Named(tree') /\ Sized(tree')
    <2> DEFINE u == [tree EXCEPT !.paused = P]
    <2>1. Grown(u) /\ Live(u) = Live(tree) /\ Groups(u) = Groups(tree) /\ u.kids = tree.kids
        BY <1>1, <1>4, PausedGrows
    <2> HIDE DEF u
    <2>2. Named(u) /\ Sized(u)
        BY <1>1, <2>1 DEF Named, Sized
    <2> QED BY <1>4, <2>1, <2>2 DEF u
<1>6. PICK s \in SetToSeqs(G) : queue' = Kept(queue \o s)
    BY DEF Slice
<1>7. s \in Seq(SynthIds) /\ \A i \in 1 .. Len(s) : ending[s[i]] \in Freeing
    <2>1. IsFiniteSet(G)
        BY <1>1, <1>3, FS_Subset DEF Grown, Shaped
    <2>2. Cardinality(G) \in Nat
        BY <2>1, FS_CardinalityType
    <2>3. s \in [1 .. Cardinality(G) -> G]
        BY <1>6 DEF SetToSeqs
    <2>4. \A n \in G : n \in SynthIds /\ ending[n] \in Freeing
        <3>1. ending \in [SynthIds -> Freeing \cup {"PauseSelf"}]
            BY <1>1, NodeTreeAssumption
        <3> QED BY <1>3, <3>1
    <2> HIDE DEF G
    <2>5. s \in Seq(G) /\ Len(s) = Cardinality(G)
        BY <2>2, <2>3
    <2>6. \A i \in 1 .. Len(s) : s[i] \in G
        BY <2>5
    <2> QED BY <2>4, <2>5, <2>6, SeqIn
<1> HIDE DEF G
<1>8. Queued'
    <2> DEFINE r == queue \o s
               N == IF Len(r) < MaxNodes THEN Len(r) ELSE MaxNodes
    <2>1. /\ r \in Seq(SynthIds) /\ Len(r) = Len(queue) + Len(s)
          /\ \A i \in 1 .. Len(queue) + Len(s) :
                r[i] = IF i <= Len(queue) THEN queue[i] ELSE s[i - Len(queue)]
        <3>1. queue \in Seq(SynthIds) /\ s \in Seq(SynthIds)
            BY <1>1, <1>7 DEF Queued
        <3> QED BY <3>1, JoinIs
    <2>2. Len(queue) \in Nat /\ Len(s) \in Nat /\ MaxNodes \in Nat
        BY <1>1, <1>7, TreesAssumption DEF Queued
    <2>3. ASSUME NEW i \in 1 .. Len(r) PROVE ending[r[i]] \in Freeing
        <3>1. CASE i <= Len(queue)
            <4>1. r[i] = queue[i] /\ i \in 1 .. Len(queue)
                BY <2>1, <2>2, <3>1
            <4> QED BY <1>1, <4>1 DEF Queued
        <3>2. CASE i > Len(queue)
            <4>1. i - Len(queue) \in 1 .. Len(s) /\ ~ (i <= Len(queue)) /\ i \in 1 .. Len(queue) + Len(s)
                BY <2>1, <2>2, <3>2
            <4>2. r[i] = s[i - Len(queue)]
                BY <2>1, <4>1
            <4> QED BY <1>7, <4>1, <4>2
        <3> QED BY <2>1, <2>2, <3>1, <3>2
    <2> HIDE DEF r
    <2>4. N \in 0 .. Len(r)
        BY <2>1, <2>2
    <2> HIDE DEF N
    <2>5. /\ SubSeq(r, 1, N) \in Seq(SynthIds) /\ Len(SubSeq(r, 1, N)) = N + 1 - 1
          /\ \A k \in 1 .. N + 1 - 1 : SubSeq(r, 1, N)[k] = r[1 + k - 1]
        <3>1. 1 \in 1 .. Len(r) + 1 /\ 1 <= N + 1
            BY <2>1, <2>2, <2>4
        <3> QED BY <2>1, <2>4, <3>1, CutIs
    <2>6. queue' = SubSeq(r, 1, N)
        BY <1>6 DEF Kept, r, N
    <2>7. Len(queue') = N /\ \A k \in 1 .. N : queue'[k] = r[k]
        <3>1. N + 1 - 1 = N /\ \A k \in 1 .. N : 1 + k - 1 = k
            BY <2>1, <2>2, <2>4
        <3> QED BY <2>5, <2>6, <3>1
    <2>8. \A k \in 1 .. N : k \in 1 .. Len(r)
        BY <2>1, <2>2, <2>4
    <2> QED BY <1>2, <2>3, <2>5, <2>6, <2>7, <2>8 DEF Queued
<1> QED BY <1>1, <1>2, <1>5, <1>8 DEF TreeInvariant

\* A queued action is applied to the tree it meets.
LEMMA DrainKeeps ==
    ASSUME TreeInvariant, Drain
    PROVE  TreeInvariant'
<1> DEFINE n == Head(queue)
           x == Apply(Now, n, ending[n])
<1>1. /\ Grown(tree) /\ Named(tree) /\ Sized(tree) /\ ending \in Endings
      /\ queue \in Seq(SynthIds) /\ queue # << >>
      /\ \A i \in 1 .. Len(queue) : ending[queue[i]] \in Freeing
    BY DEF TreeInvariant, Queued, Drain
<1>2. /\ tree' = x.tree /\ queue' = Tail(queue) /\ draining' = (queue' # << >>)
      /\ ending' = ending
    BY DEF Drain
<1>3. n \in SynthIds /\ ending[n] \in Freeing
    <2>1. n = queue[1] /\ 1 \in 1 .. Len(queue)
        BY <1>1
    <2> QED BY <1>1, <2>1
<1> HIDE DEF n
<1>4. Grown(x.tree) /\ Named(x.tree) /\ Sized(x.tree)
    <2>1. CASE n \notin Live(tree)
        <3>1. x.tree = tree
            BY <2>1 DEF Apply, Now, Start
        <3> QED BY <1>1, <3>1
    <2>2. CASE n \in Live(tree)
        <3>1. n \in Synths(tree)
            BY <1>1, <1>3, <2>2 DEF Named, Synths
        <3>2. Made(tree, Apply(Start(tree), n, ending[n]), Doomed(tree, n, ending[n]),
                   StillPaused(tree, n, ending[n]))
            BY <1>1, <1>3, <3>1, ApplyMade
        <3> QED BY <1>1, <3>2, MadeKeeps DEF Now
    <2> QED BY <2>1, <2>2
<1> HIDE DEF x
<1>5. Queued'
    <2>1. Tail(queue) \in Seq(SynthIds) /\ Len(Tail(queue)) = Len(queue) - 1
          /\ \A i \in 1 .. Len(queue) - 1 : Tail(queue)[i] = queue[i + 1] /\ i + 1 \in 1 .. Len(queue)
        BY <1>1
    <2> QED BY <1>1, <1>2, <2>1 DEF Queued
<1>6. Grown(tree') /\ Named(tree') /\ Sized(tree')
    BY <1>2, <1>4
<1> QED BY <1>1, <1>2, <1>5, <1>6 DEF TreeInvariant

\* Every step keeps it.
LEMMA NextTree == TreeInvariant /\ [Next]_vars => TreeInvariant'
<1> SUFFICES ASSUME TreeInvariant, [Next]_vars PROVE TreeInvariant'
    OBVIOUS
<1>0. Grown(tree) /\ Named(tree) /\ Sized(tree) /\ Now = Start(tree)
    BY DEF TreeInvariant, Now
<1>1. ASSUME NEW n \in Ids, NEW target \in Live(tree), NEW action \in AddActions, Add(n, target, action)
      PROVE  TreeInvariant'
    <2> DEFINE x == Insert(Start(tree), n, n \in GroupIds, target, action)
    <2>1. MayInsert(tree, n, target, action) /\ FitsInsert(tree, target, action) /\ Command(x)
        BY <1>0, <1>1 DEF Add
    <2>2. Grown(x.tree) /\ Named(x.tree) /\ Sized(x.tree)
        BY <1>0, <2>1, InsertKeepsTree
    <2> HIDE DEF x
    <2> QED BY <2>1, <2>2, CommandKeeps
<1>2. ASSUME NEW n \in Live(tree), FreeNode(n)
      PROVE  TreeInvariant'
    <2> DEFINE x == Free(Start(tree), n)
    <2>1. n \in Live(tree) \ {Root} /\ Command(x)
        BY <1>0, <1>2 DEF FreeNode
    <2>2. Made(tree, x, Under(tree, {n}), tree.paused \ Under(tree, {n}))
        BY <1>0, <2>1, FreeMade
    <2> HIDE DEF x
    <2> QED BY <1>0, <2>1, <2>2, MadeKeeps, CommandKeeps
<1>3. ASSUME NEW g \in Live(tree), FreeAllIn(g)
      PROVE  TreeInvariant'
    <2> DEFINE x == FreeAll(Start(tree), g)
               D == Under(tree, ToSet(tree.kids[g]))
    <2>1. g \in Groups(tree) /\ Command(x)
        BY <1>0, <1>3 DEF FreeAllIn
    <2>2. Made(tree, x, D, tree.paused \ D)
        BY <1>0, <2>1, FreeAllMade
    <2> HIDE DEF x, D
    <2> QED BY <1>0, <2>1, <2>2, MadeKeeps, CommandKeeps
<1>4. ASSUME NEW g \in Live(tree), DeepFreeIn(g)
      PROVE  TreeInvariant'
    <2> DEFINE x == DeepFree(Start(tree), g)
               D == Under(tree, {g}) \cap Synths(tree)
    <2>1. g \in Groups(tree) /\ Command(x)
        BY <1>0, <1>4 DEF DeepFreeIn
    <2>2. Made(tree, x, D, tree.paused \ D)
        BY <1>0, <2>1, DeepFreeMade
    <2> HIDE DEF x, D
    <2> QED BY <1>0, <2>1, <2>2, MadeKeeps, CommandKeeps
<1>5. ASSUME NEW n \in Live(tree), NEW target \in Live(tree), NEW place \in Places,
             MoveNode(n, target, place)
      PROVE  TreeInvariant'
    <2> DEFINE u == Move(tree, n, target, place)
               x == [tree |-> u, deaths |-> << >>]
    <2>1. MayMove(tree, n, target, place) /\ FitsMove(tree, n, target, place) /\ Command(x)
        BY <1>0, <1>5 DEF MoveNode, Start
    <2>2. Grown(u) /\ Named(u) /\ Sized(u)
        BY <1>0, <2>1, MoveKeepsTree
    <2>3. x.tree = u
        OBVIOUS
    <2> HIDE DEF x, u
    <2> QED BY <2>1, <2>2, <2>3, CommandKeeps
<1>6. ASSUME NEW n \in Live(tree), NEW run \in BOOLEAN, RunNode(n, run)
      PROVE  TreeInvariant'
    <2> DEFINE x == Pause(Start(tree), n, ~ run)
               P == IF ~ run THEN tree.paused \cup {n} ELSE tree.paused \ {n}
               u == [tree EXCEPT !.paused = P]
    <2>1. Command(x) /\ x.tree = SetPaused(tree, n, ~ run)
        BY <1>0, <1>6 DEF RunNode, Pause, Start
    <2>2. SetPaused(tree, n, ~ run) = u /\ P \in SUBSET Live(tree)
        <3>1. tree = [parent |-> tree.parent, kids |-> tree.kids, paused |-> tree.paused]
              /\ tree.paused \subseteq Live(tree)
            BY <1>0 DEF Grown, Shaped
        <3> QED BY <3>1 DEF SetPaused
    <2> HIDE DEF P, x
    <2>3. Grown(u) /\ Live(u) = Live(tree) /\ Groups(u) = Groups(tree) /\ u.kids = tree.kids
        BY <1>0, <2>2, PausedGrows
    <2> HIDE DEF u
    <2>4. Named(u) /\ Sized(u)
        BY <1>0, <2>3 DEF Named, Sized
    <2> QED BY <2>1, <2>2, <2>3, <2>4, CommandKeeps
<1>7. ASSUME NEW F \in SUBSET {n \in Synths(tree) : Runs(n)}, Slice(F)
      PROVE  TreeInvariant'
    BY <1>7, SliceKeeps
<1>8. CASE EndBlock
    <2>1. tree' = tree /\ queue' = queue /\ ending' = ending /\ draining' = (queue # << >>)
        BY <1>8 DEF EndBlock
    <2> QED BY <2>1 DEF TreeInvariant, Queued
<1>9. CASE Drain
    BY <1>9, DrainKeeps
<1>10. CASE UNCHANGED vars
    BY <1>10 DEF TreeInvariant, Queued, vars
<1> QED BY <1>1, <1>2, <1>3, <1>4, <1>5, <1>6, <1>7, <1>8, <1>9, <1>10 DEF Next

\* So every state has it.
LEMMA TreeInvariantHolds == Spec => []TreeInvariant
BY InitTree, NextTree, PTL DEF Spec

\* The tree of the audio thread is a forest within its bounds, whatever commands and
\* done actions make of it: the lists of children and the parents agree, and every
\* node is under the root.
THEOREM StaysForest == Spec => []Forest
<1>1. TreeInvariant => Forest
    <2> SUFFICES ASSUME TreeInvariant PROVE Forest
        OBVIOUS
    <2>1. IsForest(tree) /\ tree.paused \subseteq Live(tree)
        BY GrownIsForest DEF TreeInvariant, Grown, Shaped
    <2> QED BY <2>1 DEF TreeInvariant, Forest, Sized
<1> QED BY <1>1, TreeInvariantHolds, PTL

\* Every operation in Operations reports its deaths, by what it is shown to make.
LEMMA OperationMade ==
    ASSUME Grown(tree), NEW x \in Operations
    PROVE  \E D, P : Made(tree, x, D, P)
<1>0. Now = Start(tree)
    BY DEF Now
<1>1. ASSUME NEW n \in Live(tree), x = Free(Now, n)
      PROVE  \E D, P : Made(tree, x, D, P)
    <2>1. CASE n = Root
        <3>1. x = Start(tree)
            BY <1>0, <1>1, <2>1 DEF Free, Start
        <3>2. Came(tree, Start(tree), Groups(tree))
            BY AboveGroups, StartCame DEF Start
        <3>3. Live(x.tree) = Live(tree) \ {}
            BY <3>1 DEF Start
        <3> QED BY <3>1, <3>2, <3>3, CameMade
    <2>2. CASE n # Root
        BY <1>0, <1>1, <2>2, FreeMade
    <2> QED BY <2>1, <2>2
<1>2. ASSUME NEW g \in Groups(tree), x = FreeAll(Now, g)
      PROVE  \E D, P : Made(tree, x, D, P)
    BY <1>0, <1>2, FreeAllMade
<1>3. ASSUME NEW g \in Groups(tree), x = DeepFree(Now, g)
      PROVE  \E D, P : Made(tree, x, D, P)
    BY <1>0, <1>3, DeepFreeMade
<1>4. ASSUME NEW n \in Synths(tree), NEW action \in Freeing, x = Apply(Now, n, action)
      PROVE  \E D, P : Made(tree, x, D, P)
    BY <1>0, <1>4, ApplyMade
<1> QED BY <1>1, <1>2, <1>3, <1>4 DEF Operations

\* In every state the tree comes to, whatever an operation of /node or of a done action
\* would free it reports, once each and with no node after what was in it.
THEOREM DeathsAreReported == Spec => []ReportsDeaths
<1>1. TreeInvariant => ReportsDeaths
    <2> SUFFICES ASSUME TreeInvariant, NEW x \in Operations
                 PROVE  LET n == [i \in DOMAIN x.deaths |-> x.deaths[i][1]] IN
                          /\ ToSet(n) = Live(tree) \ Live(x.tree)
                          /\ \A i \in DOMAIN n : x.deaths[i][2] = tree.parent[n[i]]
                          /\ \A i, j \in DOMAIN n : i < j => n[i] # n[j] /\ tree.parent[n[i]] # n[j]
        BY DEF ReportsDeaths
    <2>1. PICK D, P : Made(tree, x, D, P)
        BY OperationMade DEF TreeInvariant
    <2> DEFINE d == x.deaths
               n == [i \in DOMAIN d |-> d[i][1]]
    <2>2. /\ d \in Seq(Live(tree) \X Live(tree))
          /\ \A i \in 1 .. Len(d) :
               /\ d[i][2] = tree.parent[d[i][1]]
               /\ \A j \in 1 .. Len(d) : d[i][1] = d[j][1] => i = j
               /\ \A j \in 1 .. Len(d) : i < j => d[i][2] # d[j][1]
          /\ \A m \in Live(tree) :
               m \in Live(x.tree) <=> \A i \in 1 .. Len(d) : d[i][1] # m
          /\ Live(x.tree) \subseteq Live(tree)
        BY <2>1 DEF Made
    <2> HIDE DEF d
    <2>3. DOMAIN d = 1 .. Len(d) /\ Len(d) \in Nat
        BY <2>2
    <2>4. n = [i \in 1 .. Len(d) |-> d[i][1]]
        BY <2>3
    <2> HIDE DEF n
    <2>5. DOMAIN n = 1 .. Len(d) /\ \A i \in 1 .. Len(d) : n[i] = d[i][1] /\ n[i] \in Live(tree)
        <3>1. \A i \in 1 .. Len(d) : d[i] \in Live(tree) \X Live(tree)
            BY <2>2
        <3>2. \A i \in 1 .. Len(d) : d[i][1] \in Live(tree)
            BY <3>1
        <3> QED BY <2>4, <3>2
    <2>6. ToSet(n) = {n[i] : i \in 1 .. Len(d)}
        BY <2>5 DEF ToSet
    <2>7. ToSet(n) = Live(tree) \ Live(x.tree)
        BY <2>2, <2>5, <2>6
    <2>8. \A i \in DOMAIN n : d[i][2] = tree.parent[n[i]]
        BY <2>2, <2>5
    <2>9. ASSUME NEW i \in DOMAIN n, NEW j \in DOMAIN n, i < j
          PROVE  n[i] # n[j] /\ tree.parent[n[i]] # n[j]
        <3>1. i # j
            BY <2>3, <2>5, <2>9
        <3> QED BY <2>2, <2>5, <2>9, <3>1
    <2> QED BY <2>7, <2>8, <2>9 DEF n, d
<1> QED BY <1>1, TreeInvariantHolds, PTL

\* In every state the tree comes to, each done action frees, pauses and leaves the nodes
\* its description says, found beside and above the synth that ends, and leaves the rest
\* where it was and in order.
THEOREM DoneActionsAsDescribed == Spec => []DoneActionAsDescribed
<1>1. TreeInvariant => DoneActionAsDescribed
    <2> SUFFICES ASSUME TreeInvariant, NEW n \in Synths(tree), NEW action \in Freeing
                 PROVE  LET t == Apply(Now, n, action).tree
                            doomed == Doomed(tree, n, action)
                        IN  /\ IsForest(t)
                            /\ Live(t) = Live(tree) \ doomed /\ Groups(t) = Groups(tree) \ doomed
                            /\ \A m \in Live(t) : t.parent[m] = tree.parent[m]
                            /\ \A m, k \in Live(t) \ {Root} :
                                  t.parent[m] = t.parent[k] =>
                                      (At(t, m) < At(t, k) <=> At(tree, m) < At(tree, k))
                            /\ t.paused = StillPaused(tree, n, action)
        BY DEF DoneActionAsDescribed
    <2> DEFINE x == Apply(Start(tree), n, action)
               t == x.tree
               D == Doomed(tree, n, action)
    <2>1. Grown(tree) /\ Now = Start(tree)
        BY DEF TreeInvariant, Now
    <2>2. Made(tree, x, D, StillPaused(tree, n, action))
        BY <2>1, ApplyMade
    <2> HIDE DEF x, D
    <2>3. /\ Grown(t) /\ Live(t) = Live(tree) \ D /\ Groups(t) = Groups(tree) \ D
          /\ \A m \in Live(t) : t.parent[m] = tree.parent[m]
          /\ \A g \in Groups(t) : Thinned(t.kids[g], tree.kids[g])
          /\ t.paused = StillPaused(tree, n, action)
        BY <2>2 DEF Made
    <2> HIDE DEF t
    <2>4. IsForest(t)
        BY <2>3, GrownIsForest
    <2>5. ASSUME NEW m \in Live(t) \ {Root}, NEW k \in Live(t) \ {Root}, t.parent[m] = t.parent[k]
          PROVE  At(t, m) < At(t, k) <=> At(tree, m) < At(tree, k)
        <3>1. Live(t) \subseteq Live(tree)
            BY <2>3
        <3> QED BY <2>1, <2>3, <2>5, <3>1, ThinnedOrder
    <2> QED BY <2>1, <2>3, <2>4, <2>5 DEF t, x, D
<1> QED BY <1>1, TreeInvariantHolds, PTL

-----------------------------------------------------------------------------
(* TreeMirror: the ids given out.                                           *)

\* The entries of a queue of <<tag, id>> that have the tag: their ids, each once but
\* for those of R.
Tagged(q, tag) == {id \in Ids : \E i \in 1 .. Len(q) : q[i] = <<tag, id>>}

Once(q, tag, R) ==
    \A i, j \in 1 .. Len(q) : q[i][1] = tag /\ q[i][2] \notin R /\ q[j] = q[i] => i = j

\* The entries of a list differ, but for those of R.
ApartBut(s, R) == \A i, j \in 1 .. Len(s) : s[i] = s[j] /\ s[i] \notin R => i = j

\* What commands are about.
Sent(q) == [i \in 1 .. Len(q) |-> <<q[i].op, q[i].node>>]

Tags == {"freed", "rejected", "add", "move", "free", "freeAll", "deepFree"}

\* A queue of such entries.
TagList(q) == q \in Seq(Tags \X (Ids \cup {Root}))

Messages ==
    [op : {"add"}, node : Ids, target : Ids \cup {Root}, action : AddActions, took : BOOLEAN]
    \cup [op : {"move"}, node : Ids, target : Ids \cup {Root}, action : Places, took : BOOLEAN]
    \cup [op : {"free"}, node : Ids]
    \cup [op : {"freeAll", "deepFree"}, node : GroupIds \cup {Root}]

\* Ids of nodes in the audio thread's tree, on their way there, refused, and dead.
Living == Live(engine) \ {Root}
Coming == Tagged(Sent(cmds), "add")
Refused == Tagged(garbage, "rejected")
Told == ToSet(events)

\* An id in use is in one place: its node is in the tree, on its way there, refused
\* and coming back, or dead and being told of; except the ids asked for again.
InOnePlace ==
    /\ Once(Sent(cmds), "add", reused) /\ Once(garbage, "rejected", reused)
    /\ ApartBut(events, reused)
    /\ Living \cap Coming \subseteq reused /\ Living \cap Refused \subseteq reused
    /\ Living \cap Told \subseteq reused /\ Coming \cap Refused \subseteq reused
    /\ Coming \cap Told \subseteq reused /\ Refused \cap Told \subseteq reused
    /\ Living \cup Coming \cup Refused \cup Told \subseteq inUse \cup reused

\* The invariant of the audio thread's tree, the FIFOs and the registry of ids.
MirrorInvariant ==
    /\ Grown(engine) /\ Named(engine) /\ Sized(engine)
    /\ cmds \in Seq(Messages)
    /\ garbage \in Seq({"freed", "rejected"} \X Ids)
    /\ events \in Seq(Ids)
    /\ inUse \subseteq Ids /\ reused \subseteq Ids
    /\ InOnePlace

\* A queue without its first entry.
LEMMA TailTagged ==
    ASSUME NEW q, TagList(q), q # << >>, NEW tag, NEW R, Once(q, tag, R)
    PROVE  /\ TagList(Tail(q)) /\ Once(Tail(q), tag, R)
           /\ Tagged(Tail(q), tag) \subseteq Tagged(q, tag)
           /\ q[1][1] = tag => q[1][2] \notin Tagged(Tail(q), tag) \ R
           /\ q[1][1] = tag /\ q[1][2] \in Ids => q[1][2] \in Tagged(q, tag)
<1>0. q \in Seq(Tags \X (Ids \cup {Root}))
    BY DEF TagList
<1>1. /\ Tail(q) \in Seq(Tags \X (Ids \cup {Root})) /\ Len(Tail(q)) = Len(q) - 1
      /\ Len(q) \in Nat /\ Len(q) >= 1
      /\ \A i \in 1 .. Len(q) - 1 : Tail(q)[i] = q[i + 1]
    BY <1>0
<1> DEFINE r == Tail(q)
<1> HIDE DEF r
<1>2. \A i \in 1 .. Len(r) : i + 1 \in 1 .. Len(q) /\ r[i] = q[i + 1] /\ i + 1 # 1
    BY <1>1 DEF r
<1>3. Once(r, tag, R)
    <2> SUFFICES ASSUME NEW i \in 1 .. Len(r), NEW j \in 1 .. Len(r), r[i][1] = tag, r[i][2] \notin R, r[j] = r[i]
                 PROVE  i = j
        BY DEF Once
    <2>1. i + 1 = j + 1
        BY <1>2 DEF Once
    <2> QED BY <2>1
<1>4. Tagged(r, tag) \subseteq Tagged(q, tag)
    BY <1>2 DEF Tagged
<1>5. 1 \in 1 .. Len(q) /\ q[1] \in Tags \X (Ids \cup {Root})
    BY <1>0, <1>1
<1>6. q[1] = <<q[1][1], q[1][2]>>
    BY <1>5
<1>7. ASSUME q[1][1] = tag, q[1][2] \in Tagged(r, tag), q[1][2] \notin R PROVE FALSE
    <2>1. PICK i \in 1 .. Len(r) : r[i] = <<tag, q[1][2]>>
        BY <1>7 DEF Tagged
    <2>2. q[i + 1] = q[1]
        BY <1>2, <1>6, <1>7, <2>1
    <2> QED BY <1>2, <1>5, <1>7, <2>2 DEF Once
<1>8. q[1][1] = tag /\ q[1][2] \in Ids => q[1][2] \in Tagged(q, tag)
    BY <1>5, <1>6 DEF Tagged
<1> QED BY <1>1, <1>3, <1>4, <1>7, <1>8 DEF r, TagList

\* Two queues one after the other, with the tag in one of them only.
LEMMA JoinTagged ==
    ASSUME NEW q, TagList(q), NEW r, TagList(r), NEW tag, NEW R, Once(q, tag, R),
           \A i \in 1 .. Len(r) : r[i][1] # tag
    PROVE  /\ TagList(q \o r) /\ Once(q \o r, tag, R)
           /\ Tagged(q \o r, tag) = Tagged(q, tag)
<1> DEFINE s == q \o r
<1>0. q \in Seq(Tags \X (Ids \cup {Root})) /\ r \in Seq(Tags \X (Ids \cup {Root}))
    BY DEF TagList
<1>1. /\ s \in Seq(Tags \X (Ids \cup {Root})) /\ Len(s) = Len(q) + Len(r)
      /\ Len(q) \in Nat /\ Len(r) \in Nat
      /\ \A i \in 1 .. Len(q) + Len(r) : s[i] = IF i <= Len(q) THEN q[i] ELSE r[i - Len(q)]
    BY <1>0, JoinIs
<1> HIDE DEF s
<1>2. \A i \in 1 .. Len(q) : i \in 1 .. Len(s) /\ s[i] = q[i]
    <2> SUFFICES ASSUME NEW i \in 1 .. Len(q) PROVE i \in 1 .. Len(s) /\ s[i] = q[i]
        OBVIOUS
    <2>1. i \in 1 .. Len(q) + Len(r) /\ i <= Len(q)
        BY <1>1
    <2> QED BY <1>1, <2>1
<1>3. ASSUME NEW i \in 1 .. Len(s), s[i][1] = tag PROVE i \in 1 .. Len(q)
    <2>1. CASE i <= Len(q)
        BY <1>1, <2>1
    <2>2. CASE i > Len(q)
        <3>1. i - Len(q) \in 1 .. Len(r) /\ ~ (i <= Len(q)) /\ i \in 1 .. Len(q) + Len(r)
            BY <1>1, <2>2
        <3>2. s[i] = r[i - Len(q)]
            BY <1>1, <3>1
        <3> QED BY <1>3, <3>1, <3>2
    <2> QED BY <1>1, <2>1, <2>2
<1>4. Once(s, tag, R)
    <2> SUFFICES ASSUME NEW i \in 1 .. Len(s), NEW j \in 1 .. Len(s), s[i][1] = tag, s[i][2] \notin R, s[j] = s[i]
                 PROVE  i = j
        BY DEF Once
    <2>1. i \in 1 .. Len(q) /\ j \in 1 .. Len(q)
        BY <1>3
    <2> QED BY <1>2, <2>1 DEF Once
<1>5. Tagged(s, tag) = Tagged(q, tag)
    <2>1. Tagged(q, tag) \subseteq Tagged(s, tag)
        BY <1>2 DEF Tagged
    <2>2. ASSUME NEW id \in Tagged(s, tag) PROVE id \in Tagged(q, tag)
        <3>1. PICK i \in 1 .. Len(s) : s[i] = <<tag, id>> /\ id \in Ids
            BY DEF Tagged
        <3>2. i \in 1 .. Len(q)
            BY <1>3, <3>1
        <3> QED BY <1>2, <3>1, <3>2 DEF Tagged
    <2> QED BY <2>1, <2>2
<1> QED BY <1>1, <1>4, <1>5 DEF s, TagList

\* What differs but for some ids differs but for more of them.
LEMMA OnceMore ==
    ASSUME NEW q, NEW tag, NEW R, NEW S, R \subseteq S, Once(q, tag, R)
    PROVE  Once(q, tag, S)
BY DEF Once

LEMMA ApartMore ==
    ASSUME NEW s, NEW R, NEW S, R \subseteq S, ApartBut(s, R)
    PROVE  ApartBut(s, S)
BY DEF ApartBut

\* Two lists one after the other that share only ids of R.
LEMMA JoinApartBut ==
    ASSUME NEW s \in Seq(Ids), NEW r \in Seq(Ids), NEW R, ApartBut(s, R), Apart(r),
           ToSet(s) \cap ToSet(r) \subseteq R
    PROVE  /\ s \o r \in Seq(Ids) /\ ApartBut(s \o r, R)
           /\ ToSet(s \o r) = ToSet(s) \cup ToSet(r)
<1> DEFINE u == s \o r
<1>1. /\ u \in Seq(Ids) /\ Len(u) = Len(s) + Len(r) /\ Len(s) \in Nat /\ Len(r) \in Nat
      /\ \A i \in 1 .. Len(s) + Len(r) : u[i] = IF i <= Len(s) THEN s[i] ELSE r[i - Len(s)]
    BY JoinIs
<1> HIDE DEF u
<1>2. /\ ToSet(s) = {s[i] : i \in 1 .. Len(s)} /\ ToSet(r) = {r[i] : i \in 1 .. Len(r)}
      /\ ToSet(u) = {u[i] : i \in 1 .. Len(u)}
    BY <1>1, ToSetIs
<1>3. ASSUME NEW i \in 1 .. Len(u), i <= Len(s) PROVE i \in 1 .. Len(s) /\ u[i] = s[i]
    BY <1>1, <1>3
<1>4. ASSUME NEW i \in 1 .. Len(u), ~ (i <= Len(s))
      PROVE  i - Len(s) \in 1 .. Len(r) /\ u[i] = r[i - Len(s)]
    BY <1>1, <1>4
<1>5. ApartBut(u, R)
    <2> SUFFICES ASSUME NEW i \in 1 .. Len(u), NEW j \in 1 .. Len(u), u[i] = u[j], u[i] \notin R
                 PROVE  i = j
        BY DEF ApartBut
    <2>1. CASE i <= Len(s) /\ j <= Len(s)
        BY <1>3, <2>1 DEF ApartBut
    <2>2. CASE ~ (i <= Len(s)) /\ ~ (j <= Len(s))
        <3>1. i - Len(s) = j - Len(s)
            BY <1>4, <2>2 DEF Apart
        <3> QED BY <1>1, <3>1
    <2>3. CASE i <= Len(s) /\ ~ (j <= Len(s))
        BY <1>2, <1>3, <1>4, <2>3
    <2>4. CASE ~ (i <= Len(s)) /\ j <= Len(s)
        BY <1>2, <1>3, <1>4, <2>4
    <2> QED BY <2>1, <2>2, <2>3, <2>4
<1>6. ToSet(u) = ToSet(s) \cup ToSet(r)
    <2>1. \A i \in 1 .. Len(u) : u[i] \in ToSet(s) \cup ToSet(r)
        BY <1>2, <1>3, <1>4
    <2>2. \A i \in 1 .. Len(s) : i \in 1 .. Len(u) /\ u[i] = s[i]
        BY <1>1
    <2>3. \A i \in 1 .. Len(r) : i + Len(s) \in 1 .. Len(u) /\ u[i + Len(s)] = r[i]
        <3> SUFFICES ASSUME NEW i \in 1 .. Len(r)
                     PROVE  i + Len(s) \in 1 .. Len(u) /\ u[i + Len(s)] = r[i]
            OBVIOUS
        <3>1. /\ i + Len(s) \in 1 .. Len(s) + Len(r) /\ ~ (i + Len(s) <= Len(s))
              /\ i + Len(s) - Len(s) = i
            BY <1>1
        <3> QED BY <1>1, <3>1
    <2> QED BY <1>2, <2>1, <2>2, <2>3
<1> QED BY <1>1, <1>5, <1>6 DEF u

\* A queue with an entry more.
LEMMA AppendTagged ==
    ASSUME NEW q, TagList(q), NEW a \in Tags, NEW id \in Ids \cup {Root}, NEW tag, NEW R, Once(q, tag, R),
           a = tag => (id \notin Tagged(q, tag) \/ id \in R) /\ id \in Ids
    PROVE  /\ TagList(Append(q, <<a, id>>)) /\ Once(Append(q, <<a, id>>), tag, R)
           /\ Tagged(Append(q, <<a, id>>), tag) = Tagged(q, tag) \cup (IF a = tag THEN {id} ELSE {})
<1> DEFINE s == Append(q, <<a, id>>)
<1>0. q \in Seq(Tags \X (Ids \cup {Root}))
    BY DEF TagList
<1>1. /\ s \in Seq(Tags \X (Ids \cup {Root})) /\ Len(s) = Len(q) + 1 /\ Len(q) \in Nat
      /\ \A i \in 1 .. Len(q) : s[i] = q[i]
      /\ s[Len(q) + 1] = <<a, id>>
    BY <1>0
<1> HIDE DEF s
<1>2. \A i \in 1 .. Len(s) : i \in 1 .. Len(q) \/ i = Len(q) + 1
    BY <1>1
<1>3. Once(s, tag, R)
    <2> SUFFICES ASSUME NEW i \in 1 .. Len(s), NEW j \in 1 .. Len(s), s[i][1] = tag, s[i][2] \notin R, s[j] = s[i]
                 PROVE  i = j
        BY DEF Once
    <2>1. CASE i \in 1 .. Len(q) /\ j \in 1 .. Len(q)
        BY <1>1, <2>1 DEF Once
    <2>2. ASSUME NEW k \in 1 .. Len(q), s[k] = <<a, id>>, a = tag, id \notin R PROVE FALSE
        BY <1>1, <2>2 DEF Tagged
    <2>3. CASE i = Len(q) + 1 /\ j \in 1 .. Len(q)
        BY <1>1, <2>2, <2>3
    <2>4. CASE i \in 1 .. Len(q) /\ j = Len(q) + 1
        BY <1>1, <2>2, <2>4
    <2> QED BY <1>2, <2>1, <2>3, <2>4
<1>4. ASSUME NEW m PROVE m \in Tagged(s, tag) <=> m \in Tagged(q, tag) \/ (a = tag /\ m = id)
    <2>1. CASE m \in Tagged(q, tag)
        <3>1. PICK i \in 1 .. Len(q) : q[i] = <<tag, m>> /\ m \in Ids
            BY <2>1 DEF Tagged
        <3>2. i \in 1 .. Len(s) /\ s[i] = <<tag, m>>
            BY <1>1, <3>1
        <3> QED BY <2>1, <3>1, <3>2 DEF Tagged
    <2>2. CASE a = tag /\ m = id
        <3>1. Len(q) + 1 \in 1 .. Len(s)
            BY <1>1
        <3> QED BY <1>1, <2>2, <3>1 DEF Tagged
    <2>3. ASSUME m \in Tagged(s, tag) PROVE m \in Tagged(q, tag) \/ (a = tag /\ m = id)
        <3>1. PICK i \in 1 .. Len(s) : s[i] = <<tag, m>> /\ m \in Ids
            BY <2>3 DEF Tagged
        <3>2. CASE i \in 1 .. Len(q)
            BY <1>1, <3>1, <3>2 DEF Tagged
        <3>3. CASE i = Len(q) + 1
            BY <1>1, <3>1, <3>3
        <3> QED BY <1>2, <3>2, <3>3
    <2> QED BY <2>1, <2>2, <2>3
<1>5. Tagged(s, tag) = Tagged(q, tag) \cup (IF a = tag THEN {id} ELSE {})
    BY <1>4
<1> QED BY <1>1, <1>3, <1>5 DEF s, TagList

\* The commands' ids, as commands are sent and taken.
LEMMA SentType == ASSUME NEW q \in Seq(Messages) PROVE Sent(q) \in Seq(Tags \X (Ids \cup {Root}))
<1>1. ASSUME NEW i \in 1 .. Len(q) PROVE <<q[i].op, q[i].node>> \in Tags \X (Ids \cup {Root})
    <2>1. q[i] \in Messages
        OBVIOUS
    <2> QED BY <2>1 DEF Messages, Tags, Ids
<1> QED BY <1>1 DEF Sent

\* The tags of a queue of messages, one taken off and one put on.
LEMMA SentTail ==
    ASSUME NEW q \in Seq(Messages), q # << >>
    PROVE  /\ Sent(Tail(q)) = Tail(Sent(q)) /\ Sent(q) # << >>
           /\ Sent(q)[1] = <<q[1].op, q[1].node>>
<1>1. /\ Len(q) \in Nat /\ Len(q) >= 1 /\ Len(Tail(q)) = Len(q) - 1
      /\ \A i \in 1 .. Len(q) - 1 : Tail(q)[i] = q[i + 1]
    OBVIOUS
<1> DEFINE s == Sent(q)
<1>2. s \in Seq(Tags \X (Ids \cup {Root})) /\ Len(s) = Len(q)
      /\ \A i \in 1 .. Len(q) : s[i] = <<q[i].op, q[i].node>>
    <2>1. s \in Seq(Tags \X (Ids \cup {Root}))
        BY SentType
    <2> QED BY <1>1, <2>1 DEF Sent
<1> HIDE DEF s
<1>3. /\ Len(Tail(s)) = Len(q) - 1 /\ s # << >>
      /\ Tail(s) = [i \in 1 .. Len(q) - 1 |-> s[i + 1]]
    <2>1. s # << >> /\ Len(s) = Len(q)
        BY <1>1, <1>2
    <2>2. /\ Tail(s) \in Seq(Tags \X (Ids \cup {Root})) /\ Len(Tail(s)) = Len(q) - 1
          /\ \A i \in 1 .. Len(q) - 1 : Tail(s)[i] = s[i + 1]
        BY <1>2, <2>1
    <2> DEFINE r == Tail(s)
    <2> HIDE DEF r
    <2>3. r \in Seq(Tags \X (Ids \cup {Root})) /\ Len(r) = Len(q) - 1
        BY <2>2 DEF r
    <2>4. r = [i \in 1 .. Len(q) - 1 |-> r[i]]
        BY <2>3
    <2>5. \A i \in 1 .. Len(q) - 1 : r[i] = s[i + 1]
        BY <2>2 DEF r
    <2> QED BY <2>1, <2>2, <2>4, <2>5 DEF r
<1>4. \A i \in 1 .. Len(q) - 1 : s[i + 1] = <<Tail(q)[i].op, Tail(q)[i].node>>
    BY <1>1, <1>2
<1>5. Sent(Tail(q)) = [i \in 1 .. Len(q) - 1 |-> <<Tail(q)[i].op, Tail(q)[i].node>>]
    BY <1>1 DEF Sent
<1>6. Sent(Tail(q)) = Tail(s)
    BY <1>3, <1>4, <1>5
<1>7. 1 \in 1 .. Len(q)
    BY <1>1
<1> QED BY <1>2, <1>3, <1>6, <1>7 DEF s

LEMMA SentAppend ==
    ASSUME NEW q \in Seq(Messages), NEW m \in Messages
    PROVE  Sent(Append(q, m)) = Append(Sent(q), <<m.op, m.node>>)
<1> DEFINE r == Append(q, m)
           s == Sent(q)
<1>1. /\ Len(q) \in Nat /\ Len(r) = Len(q) + 1 /\ r[Len(q) + 1] = m
      /\ \A i \in 1 .. Len(q) : r[i] = q[i]
    OBVIOUS
<1>2. s \in Seq(Tags \X (Ids \cup {Root})) /\ Len(s) = Len(q)
      /\ \A i \in 1 .. Len(q) : s[i] = <<q[i].op, q[i].node>>
    <2>1. s \in Seq(Tags \X (Ids \cup {Root}))
        BY SentType
    <2> QED BY <1>1, <2>1 DEF Sent
<1> HIDE DEF r, s
<1> DEFINE e == <<m.op, m.node>>
<1> HIDE DEF e
<1>3. Append(s, e) = [i \in 1 .. Len(q) + 1 |-> IF i = Len(q) + 1 THEN e ELSE s[i]]
    <2> DEFINE a == Append(s, e)
    <2>0. e \in Tags \X (Ids \cup {Root})
        BY DEF e, Messages, Tags, Ids
    <2>1. /\ a \in Seq(Tags \X (Ids \cup {Root})) /\ Len(a) = Len(q) + 1 /\ a[Len(q) + 1] = e
          /\ \A i \in 1 .. Len(q) : a[i] = s[i]
        BY <1>2, <2>0
    <2> HIDE DEF a
    <2>2. a = [i \in 1 .. Len(q) + 1 |-> a[i]]
        BY <2>1
    <2>3. \A i \in 1 .. Len(q) + 1 : i = Len(q) + 1 \/ i \in 1 .. Len(q)
        BY <1>1
    <2>4. \A i \in 1 .. Len(q) + 1 : a[i] = IF i = Len(q) + 1 THEN e ELSE s[i]
        BY <2>1, <2>3
    <2> QED BY <2>2, <2>4 DEF a
<1>4. Sent(r) = [i \in 1 .. Len(q) + 1 |-> <<r[i].op, r[i].node>>]
    BY <1>1 DEF Sent
<1>5. ASSUME NEW i \in 1 .. Len(q) + 1
      PROVE  <<r[i].op, r[i].node>> = IF i = Len(q) + 1 THEN e ELSE s[i]
    <2>1. CASE i = Len(q) + 1
        BY <1>1, <2>1 DEF e
    <2>2. CASE i # Len(q) + 1
        <3>1. i \in 1 .. Len(q)
            BY <1>1, <2>2
        <3> QED BY <1>1, <1>2, <2>2, <3>1
    <2> QED BY <2>1, <2>2
<1> QED BY <1>3, <1>4, <1>5 DEF r, s, e

\* Nothing done, nothing dies.
LEMMA StartMade == ASSUME NEW t, Grown(t) PROVE Made(t, Start(t), {}, t.paused \ {})
<1>1. Came(t, Start(t), Groups(t))
    BY AboveGroups, StartCame DEF Start
<1>2. Live(Start(t).tree) = Live(t) \ {}
    BY DEF Start
<1> QED BY <1>1, <1>2, CameMade

\* The deaths of an operation as the two FIFOs have them.
Names(d) == [i \in DOMAIN d |-> d[i][1]]

LEMMA DeathsAre ==
    ASSUME NEW t, Grown(t), NEW y, NEW D, NEW P, Made(t, y, D, P), NEW d, d = y.deaths
    PROVE  /\ Names(d) \in Seq(Live(t) \ {Root}) /\ Apart(Names(d))
           /\ ToSet(Names(d)) = Live(t) \ Live(y.tree)
           /\ DOMAIN d = 1 .. Len(Names(d))
<1> DEFINE n == Names(d)
<1>1. /\ d \in Seq(Live(t) \X Live(t))
      /\ \A i, j \in 1 .. Len(d) : d[i][1] = d[j][1] => i = j
      /\ \A m \in Live(t) : m \in Live(y.tree) <=> \A i \in 1 .. Len(d) : d[i][1] # m
      /\ Live(y.tree) \subseteq Live(t) /\ Root \in Live(y.tree) /\ Root \in Live(t)
    BY DEF Made, Grown, Shaped
<1>2. DOMAIN d = 1 .. Len(d) /\ Len(d) \in Nat
    BY <1>1
<1>3. n = [i \in 1 .. Len(d) |-> d[i][1]]
    BY <1>2 DEF Names
<1>4. \A i \in 1 .. Len(d) : d[i][1] \in Live(t) /\ d[i][1] # Root
    <2>1. \A i \in 1 .. Len(d) : d[i] \in Live(t) \X Live(t)
        BY <1>1
    <2>2. \A i \in 1 .. Len(d) : d[i][1] \in Live(t)
        BY <2>1
    <2> QED BY <1>1, <2>2
<1> HIDE DEF n
<1>5. n \in Seq(Live(t) \ {Root}) /\ Len(n) = Len(d) /\ \A i \in 1 .. Len(d) : n[i] = d[i][1]
    BY <1>2, <1>3, <1>4
<1>6. Apart(n)
    BY <1>1, <1>5 DEF Apart
<1>7. ToSet(n) = {n[i] : i \in 1 .. Len(n)}
    BY <1>5, ToSetIs
<1>8. ToSet(n) = Live(t) \ Live(y.tree)
    BY <1>1, <1>4, <1>5, <1>7
<1> QED BY <1>2, <1>5, <1>6, <1>8 DEF n

\* Deaths reported are told of once, and return no id before that.
LEMMA ReportsKeep ==
    ASSUME MirrorInvariant, NEW y, NEW D, NEW P, Made(engine, y, D, P), Reports(y.deaths)
    PROVE  /\ events' \in Seq(Ids) /\ ApartBut(events', reused)
           /\ ToSet(events') = Told \cup (Live(engine) \ Live(y.tree))
           /\ garbage' \in Seq({"freed", "rejected"} \X Ids) /\ Once(garbage', "rejected", reused)
           /\ Tagged(garbage', "rejected") = Refused
<1> DEFINE d == y.deaths
           n == Names(d)
           f == [i \in DOMAIN d |-> <<"freed", d[i][1]>>]
<1>1. /\ Grown(engine) /\ Named(engine) /\ events \in Seq(Ids) /\ ApartBut(events, reused)
      /\ garbage \in Seq({"freed", "rejected"} \X Ids) /\ Once(garbage, "rejected", reused)
      /\ Living \cap Told \subseteq reused
    BY DEF MirrorInvariant, InOnePlace
<1>2. /\ n \in Seq(Live(engine) \ {Root}) /\ Apart(n) /\ ToSet(n) = Live(engine) \ Live(y.tree)
      /\ DOMAIN d = 1 .. Len(n)
    BY <1>1, DeathsAre
<1>3. events' = events \o n /\ garbage' = garbage \o f
    BY DEF Reports, Names
<1>4. f = [i \in 1 .. Len(n) |-> <<"freed", n[i]>>]
    <2>1. \A i \in DOMAIN d : n[i] = d[i][1]
        BY DEF Names
    <2> QED BY <1>2, <2>1
<1> HIDE DEF n, f
<1>5. n \in Seq(Ids) /\ ToSet(n) \subseteq Living
    <2>1. Living \subseteq Ids
        BY <1>1 DEF Living, Named
    <2>2. n \in Seq(Ids)
        BY <1>2, <2>1, SeqIn DEF Living
    <2>3. ToSet(n) \subseteq Live(engine) \ {Root}
        BY <1>2, ToSetIs
    <2> QED BY <2>2, <2>3 DEF Living
<1>6. /\ events \o n \in Seq(Ids) /\ ApartBut(events \o n, reused)
      /\ ToSet(events \o n) = ToSet(events) \cup ToSet(n)
    <2>1. ToSet(events) \cap ToSet(n) \subseteq reused
        BY <1>1, <1>5 DEF Told
    <2> QED BY <1>1, <1>2, <1>5, <2>1, JoinApartBut
<1>7. /\ f \in Seq({"freed", "rejected"} \X Ids) /\ \A i \in 1 .. Len(f) : f[i][1] # "rejected"
    <2>1. Len(n) \in Nat /\ \A i \in 1 .. Len(n) : n[i] \in Ids
        BY <1>5
    <2> QED BY <1>4, <2>1
<1>8. TagList(garbage) /\ TagList(f)
    <2>1. {"freed", "rejected"} \X Ids \subseteq Tags \X (Ids \cup {Root})
        BY DEF Tags
    <2> QED BY <1>1, <1>7, <2>1 DEF TagList
<1>9. Once(garbage \o f, "rejected", reused) /\ Tagged(garbage \o f, "rejected") = Tagged(garbage, "rejected")
    <2>1. Once(garbage, "rejected", reused) /\ \A i \in 1 .. Len(f) : f[i][1] # "rejected"
        BY <1>1, <1>7
    <2>2. Once(garbage \o f, "rejected", reused)
        BY <1>8, <2>1, JoinTagged
    <2>3. Tagged(garbage \o f, "rejected") = Tagged(garbage, "rejected")
        BY <1>8, <2>1, JoinTagged
    <2> QED BY <2>2, <2>3
<1>10. garbage \o f \in Seq({"freed", "rejected"} \X Ids)
    BY <1>1, <1>7
<1> QED BY <1>2, <1>3, <1>6, <1>9, <1>10 DEF Told, Refused

\* What a command the engine takes makes of its tree.
LEMMA AppliedMakes ==
    ASSUME MirrorInvariant, NEW c \in Messages, Takes(c)
    PROVE  \E y, D, P :
             /\ Made(engine, y, D, P) /\ Applied(c).deaths = y.deaths
             /\ Live(Applied(c).tree) = Live(y.tree) \cup (IF c.op = "add" THEN {c.node} ELSE {})
             /\ Grown(Applied(c).tree) /\ Named(Applied(c).tree) /\ Sized(Applied(c).tree)
<1>0. Grown(engine) /\ Named(engine) /\ Sized(engine)
    BY DEF MirrorInvariant
<1> DEFINE x == Applied(c)
           s == Start(engine)
<1>s. Made(engine, s, {}, engine.paused \ {}) /\ s.tree = engine /\ s.deaths = << >>
    BY <1>0, StartMade DEF Start
\* Of the operations that only free.
<1>f. ASSUME NEW D, NEW P, Made(engine, x, D, P), c.op # "add"
      PROVE  \E y, E, Q :
               /\ Made(engine, y, E, Q) /\ x.deaths = y.deaths
               /\ Live(x.tree) = Live(y.tree) \cup (IF c.op = "add" THEN {c.node} ELSE {})
               /\ Grown(x.tree) /\ Named(x.tree) /\ Sized(x.tree)
    BY <1>0, <1>f, MadeKeeps
<1>1. CASE c.op = "add"
    <2> DEFINE n == c.node
               b == n \in GroupIds
               y == IF c.action = "replace" THEN Free(s, c.target) ELSE s
               z == Insert(s, n, b, c.target, c.action)
    <2>1. n \in Ids /\ c.action \in AddActions /\ n # NoNode /\ b \in BOOLEAN
        BY <1>1, TreesAssumption DEF Messages, Ids
    <2>2. MayInsert(engine, n, c.target, c.action) /\ FitsInsert(engine, c.target, c.action)
        BY <1>1 DEF Takes
    <2>3. x = z
        BY <1>1 DEF Applied
    <2>4. /\ z.deaths = y.deaths
          /\ Grafted(engine, y.tree, z.tree, n, b, Destination(engine, c.target, c.action),
                     c.action # "replace")
        BY <1>0, <2>1, <2>2, InsertGrows
    <2>5. Grown(z.tree) /\ Named(z.tree) /\ Sized(z.tree)
        BY <1>0, <2>1, <2>2, InsertKeepsTree
    <2>6. \E D, P : Made(engine, y, D, P)
        <3>1. CASE c.action = "replace"
            <4>1. c.target \in Live(engine) \ {Root}
                BY <2>2, <3>1 DEF MayInsert, IsPlace
            <4> QED BY <1>0, <3>1, <4>1, FreeMade
        <3>2. CASE c.action # "replace"
            BY <1>s, <3>2
        <3> QED BY <3>1, <3>2
    <2> HIDE DEF y, z, x
    <2>7. Live(z.tree) = Live(y.tree) \cup {n}
        BY <2>4 DEF Grafted
    <2> QED BY <1>1, <2>3, <2>4, <2>5, <2>6, <2>7 DEF x
<1>2. CASE c.op = "move"
    <2> DEFINE u == Move(engine, c.node, c.target, c.action)
    <2>1. c.action \in Places
        BY <1>2 DEF Messages
    <2>2. MayMove(engine, c.node, c.target, c.action) /\ FitsMove(engine, c.node, c.target, c.action)
        BY <1>2 DEF Takes
    <2>3. x = Start(u)
        BY <1>2 DEF Applied
    <2>4. Live(u) = Live(engine)
        BY <1>0, <2>1, <2>2, MoveGrows
    <2>5. Grown(u) /\ Named(u) /\ Sized(u)
        BY <1>0, <2>1, <2>2, MoveKeepsTree
    <2> HIDE DEF x, u
    <2>6. x.tree = u /\ x.deaths = << >>
        BY <2>3 DEF Start
    <2> HIDE DEF s
    <2>7. Live(x.tree) = Live(s.tree) \cup (IF c.op = "add" THEN {c.node} ELSE {})
        BY <1>2, <1>s, <2>4, <2>6
    <2> QED BY <1>s, <2>5, <2>6, <2>7 DEF x
<1>3. CASE c.op = "free"
    <2>1. x = Free(s, c.node) /\ c.node \in Ids /\ c.node # Root
        BY <1>3, TreesAssumption DEF Applied, Messages, Ids
    <2>2. CASE c.node \in Live(engine)
        <3>1. Made(engine, x, Under(engine, {c.node}), engine.paused \ Under(engine, {c.node}))
            BY <1>0, <2>1, <2>2, FreeMade
        <3> QED BY <1>3, <1>f, <3>1
    <2>3. CASE c.node \notin Live(engine)
        <3>1. x = s
            BY <1>s, <2>1, <2>3 DEF Free
        <3> QED BY <1>3, <1>f, <1>s, <3>1
    <2> QED BY <2>2, <2>3
<1>4. CASE c.op = "freeAll"
    <2>1. x = FreeAll(s, c.node)
        BY <1>4 DEF Applied
    <2>2. CASE c.node \in Groups(engine)
        <3> DEFINE D == Under(engine, ToSet(engine.kids[c.node]))
        <3>1. Made(engine, x, D, engine.paused \ D)
            BY <1>0, <2>1, <2>2, FreeAllMade
        <3> QED BY <1>4, <1>f, <3>1
    <2>3. CASE c.node \notin Groups(engine)
        <3>1. x = s
            BY <1>s, <2>1, <2>3 DEF FreeAll
        <3> QED BY <1>4, <1>f, <1>s, <3>1
    <2> QED BY <2>2, <2>3
<1>5. CASE c.op = "deepFree"
    <2>1. x = DeepFree(s, c.node)
        BY <1>5 DEF Applied
    <2>2. CASE c.node \in Groups(engine)
        <3> DEFINE D == Under(engine, {c.node}) \cap Synths(engine)
        <3>1. Made(engine, x, D, engine.paused \ D)
            BY <1>0, <2>1, <2>2, DeepFreeMade
        <3> QED BY <1>5, <1>f, <3>1
    <2>3. CASE c.node \notin Groups(engine)
        <3>1. x = s
            BY <1>s, <2>1, <2>3 DEF DeepFree
        <3> QED BY <1>5, <1>f, <1>s, <3>1
    <2> QED BY <2>2, <2>3
<1>6. c.op \in {"add", "move", "free", "freeAll", "deepFree"}
    BY DEF Messages
<1> QED BY <1>1, <1>2, <1>3, <1>4, <1>5, <1>6

\* At first no id is in use.
LEMMA InitMirror == MirrorInit => MirrorInvariant
<1> SUFFICES ASSUME MirrorInit PROVE MirrorInvariant
    OBVIOUS
<1>1. /\ engine = RootOnly /\ inUse = {} /\ reused = {} /\ cmds = << >> /\ garbage = << >> /\ events = << >>
    BY DEF MirrorInit
<1>2. Grown(engine) /\ Live(engine) = {Root} /\ Groups(engine) = {Root}
    BY <1>1, RootGrows
<1>3. Named(engine) /\ Sized(engine)
    <2>1. Cardinality({Root}) = 1
        BY FS_Singleton
    <2>2. Root \notin SynthIds /\ 1 <= MaxNodes
        BY TreesAssumption
    <2> QED BY <1>2, <2>1, <2>2 DEF Named, Sized
<1>4. Living = {} /\ Told = {} /\ ApartBut(events, reused)
    BY <1>1, <1>2 DEF Living, Told, ToSet, ApartBut
<1>5. Refused = {} /\ Once(garbage, "rejected", reused)
    BY <1>1 DEF Refused, Tagged, Once
<1>6. Coming = {} /\ Once(Sent(cmds), "add", reused)
    BY <1>1 DEF Coming, Tagged, Once, Sent
<1>7. InOnePlace
    BY <1>1, <1>4, <1>5, <1>6 DEF InOnePlace
<1>8. cmds \in Seq(Messages) /\ garbage \in Seq({"freed", "rejected"} \X Ids) /\ events \in Seq(Ids)
    BY <1>1
<1> QED BY <1>1, <1>2, <1>3, <1>7, <1>8 DEF MirrorInvariant

\* A message sent: an id given out is in use and on its way, if it is not refused.
LEMMA SendKeeps ==
    ASSUME MirrorInvariant, NEW m \in Messages, NEW apart, Send(m, apart),
           IF m.op = "add"
           THEN inUse' = inUse \cup {m.node} /\ reused' = reused \cup ({m.node} \cap inUse)
           ELSE inUse' = inUse /\ reused' = reused
    PROVE  MirrorInvariant'
<1>1. /\ engine' = engine /\ garbage' = garbage /\ events' = events
      /\ cmds' = Append(cmds, m) \/ cmds' = cmds
    BY DEF Send
<1>2. /\ Grown(engine) /\ Named(engine) /\ Sized(engine) /\ cmds \in Seq(Messages)
      /\ garbage \in Seq({"freed", "rejected"} \X Ids) /\ events \in Seq(Ids) /\ inUse \subseteq Ids /\ reused \subseteq Ids
      /\ InOnePlace
    BY DEF MirrorInvariant
<1> DEFINE more == IF m.op = "add" THEN {m.node} ELSE {}
<1>3. Living' = Living /\ Refused' = Refused /\ Told' = Told
    BY <1>1 DEF Living, Refused, Told
<1>4. m.op = "add" => m.node \in Ids
    BY DEF Messages
<1>5. /\ inUse' = inUse \cup more /\ reused' = reused \cup (more \cap inUse)
      /\ more \subseteq Ids
    BY <1>4
<1>6. Once(garbage, "rejected", reused)' /\ ApartBut(events, reused)'
    <2>1. /\ Once(garbage, "rejected", reused') /\ ApartBut(events, reused')
        BY <1>2, <1>5, OnceMore, ApartMore DEF InOnePlace
    <2> QED BY <1>1, <2>1
<1>7. /\ Once(Sent(cmds'), "add", reused') /\ cmds' \in Seq(Messages)
      /\ Tagged(Sent(cmds'), "add") \subseteq Coming \cup more
    <2>1. Once(Sent(cmds), "add", reused')
        BY <1>2, <1>5, OnceMore DEF InOnePlace
    <2>2. CASE cmds' = cmds
        BY <1>2, <2>1, <2>2 DEF Coming
    <2>3. CASE cmds' = Append(cmds, m)
        <3> DEFINE s == Sent(cmds)
                   r == Append(s, <<m.op, m.node>>)
                   R == reused'
        <3>1. TagList(s) /\ Once(s, "add", R) /\ Tagged(s, "add") \subseteq inUse \cup reused
            BY <1>2, <2>1, SentType DEF InOnePlace, Coming, TagList
        <3>2. m.op \in Tags /\ m.node \in Ids \cup {Root}
            BY DEF Messages, Tags, Ids
        <3>3. m.op = "add" => (m.node \notin Tagged(s, "add") \/ m.node \in R) /\ m.node \in Ids
            BY <1>4, <1>5, <3>1
        <3>4. Sent(cmds') = r /\ cmds' \in Seq(Messages)
            BY <1>2, <2>3, SentAppend
        <3> HIDE DEF s, R
        <3>5. Once(r, "add", R)
            BY <3>1, <3>2, <3>3, AppendTagged
        <3>6. Tagged(r, "add") = Tagged(s, "add") \cup more
            BY <3>1, <3>2, <3>3, AppendTagged
        <3> QED BY <3>4, <3>5, <3>6 DEF s, R, Coming
    <2> QED BY <1>1, <2>2, <2>3
<1>8. Coming' \subseteq Coming \cup more /\ Once(Sent(cmds), "add", reused)'
    BY <1>7 DEF Coming
<1> HIDE DEF more
<1>9. InOnePlace'
    <2>1. /\ Living \cap Coming \subseteq reused /\ Living \cap Refused \subseteq reused
          /\ Living \cap Told \subseteq reused /\ Coming \cap Refused \subseteq reused
          /\ Coming \cap Told \subseteq reused /\ Refused \cap Told \subseteq reused
          /\ Living \cup Coming \cup Refused \cup Told \subseteq inUse \cup reused
        BY <1>2 DEF InOnePlace
    <2> QED BY <1>3, <1>5, <1>6, <1>8, <2>1 DEF InOnePlace
<1>10. inUse' \subseteq Ids /\ reused' \subseteq Ids
    BY <1>2, <1>5
<1> QED BY <1>1, <1>2, <1>7, <1>9, <1>10 DEF MirrorInvariant

\* A command taken off its FIFO: its id comes no more.
LEMMA HeadTaken ==
    ASSUME MirrorInvariant, cmds # << >>, cmds' = Tail(cmds)
    PROVE  /\ Head(cmds) \in Messages /\ cmds' \in Seq(Messages) /\ Once(Sent(cmds'), "add", reused)
           /\ Coming' \subseteq Coming
           /\ Head(cmds).op = "add" => Head(cmds).node \in Coming /\ Head(cmds).node \notin Coming' \ reused
<1> DEFINE s == Sent(cmds)
           c == Head(cmds)
<1>1. cmds \in Seq(Messages) /\ Once(s, "add", reused)
    BY DEF MirrorInvariant, InOnePlace
<1>2. c = cmds[1] /\ c \in Messages /\ Tail(cmds) \in Seq(Messages)
    BY <1>1
<1>3. TagList(s) /\ s # << >> /\ Sent(Tail(cmds)) = Tail(s)
      /\ s[1] = <<c.op, c.node>>
    BY <1>1, <1>2, SentType, SentTail DEF TagList
<1> HIDE DEF s, c
<1>4. /\ Once(Tail(s), "add", reused) /\ Tagged(Tail(s), "add") \subseteq Tagged(s, "add")
      /\ s[1][1] = "add" => s[1][2] \notin Tagged(Tail(s), "add") \ reused
      /\ s[1][1] = "add" /\ s[1][2] \in Ids => s[1][2] \in Tagged(s, "add")
    BY <1>1, <1>3, TailTagged
<1>5. c.op = "add" => c.node \in Ids
    BY <1>2 DEF Messages
<1>6. Coming = Tagged(s, "add") /\ Coming' = Tagged(Sent(cmds'), "add")
    BY DEF Coming, s
<1>7. Coming' = Tagged(Tail(s), "add")
    BY <1>3, <1>6
<1>8. Once(Sent(cmds'), "add", reused) /\ Coming' \subseteq Coming
    BY <1>3, <1>4, <1>6, <1>7
<1>9. c.op = "add" => c.node \in Coming /\ c.node \notin Coming' \ reused
    BY <1>3, <1>4, <1>5, <1>6, <1>7
<1> QED BY <1>2, <1>8, <1>9 DEF c

\* A command taken: its node comes into the tree or back as refused.
LEMMA ApplyCommandKeeps ==
    ASSUME MirrorInvariant, ApplyCommand
    PROVE  MirrorInvariant'
<1> DEFINE c == Head(cmds)
<1>1. /\ cmds # << >> /\ cmds' = Tail(cmds) /\ inUse' = inUse /\ reused' = reused
      /\ Takes(c) => engine' = Applied(c).tree /\ Reports(Applied(c).deaths)
      /\ ~ Takes(c) => /\ garbage' = IF c.op = "add" THEN Append(garbage, <<"rejected", c.node>>)
                                     ELSE garbage
                       /\ engine' = engine /\ events' = events
    BY DEF ApplyCommand
<1>2. /\ Grown(engine) /\ Named(engine) /\ Sized(engine)
      /\ garbage \in Seq({"freed", "rejected"} \X Ids) /\ events \in Seq(Ids) /\ inUse \subseteq Ids /\ reused \subseteq Ids
      /\ Once(garbage, "rejected", reused) /\ ApartBut(events, reused)
      /\ Living \cap Coming \subseteq reused /\ Living \cap Refused \subseteq reused
      /\ Living \cap Told \subseteq reused /\ Coming \cap Refused \subseteq reused
      /\ Coming \cap Told \subseteq reused /\ Refused \cap Told \subseteq reused
      /\ Living \cup Coming \cup Refused \cup Told \subseteq inUse \cup reused
    BY DEF MirrorInvariant, InOnePlace
<1>3. /\ c \in Messages /\ cmds' \in Seq(Messages) /\ Once(Sent(cmds'), "add", reused)
      /\ Coming' \subseteq Coming
      /\ c.op = "add" => c.node \in Coming /\ c.node \notin Coming' \ reused
    BY <1>1, HeadTaken
<1>4. Once(Sent(cmds), "add", reused)'
    BY <1>1, <1>3
<1> HIDE DEF c
<1>5. CASE Takes(c)
    <2>1. PICK y, D, P :
            /\ Made(engine, y, D, P) /\ Applied(c).deaths = y.deaths
            /\ Live(Applied(c).tree) = Live(y.tree) \cup (IF c.op = "add" THEN {c.node} ELSE {})
            /\ Grown(Applied(c).tree) /\ Named(Applied(c).tree) /\ Sized(Applied(c).tree)
        BY <1>3, <1>5, AppliedMakes
    <2>2. Reports(y.deaths) /\ engine' = Applied(c).tree
        BY <1>1, <1>5, <2>1
    <2>3. /\ events' \in Seq(Ids) /\ ApartBut(events', reused)
          /\ ToSet(events') = Told \cup (Live(engine) \ Live(y.tree))
          /\ garbage' \in Seq({"freed", "rejected"} \X Ids) /\ Once(garbage', "rejected", reused)
          /\ Tagged(garbage', "rejected") = Refused
        BY <2>1, <2>2, ReportsKeep
    <2>4. Live(y.tree) \subseteq Live(engine) /\ Root \in Live(y.tree) /\ Root \in Live(engine)
        BY <1>2, <2>1 DEF Made, Grown, Shaped
    <2> DEFINE L == Live(y.tree) \ {Root}
               new == IF c.op = "add" THEN {c.node} ELSE {}
    <2>5. L \subseteq Living /\ Live(engine) \ Live(y.tree) = Living \ L
        BY <2>4 DEF Living
    <2>6. Living' = (Live(y.tree) \cup new) \ {Root}
        BY <2>1, <2>2 DEF Living
    <2>7. Living' \subseteq L \cup new
        BY <2>6
    <2>8. Told' = Told \cup (Living \ L) /\ Refused' = Refused
        BY <2>3, <2>5 DEF Told, Refused
    <2> HIDE DEF L
    <2>9. InOnePlace'
        <3>1. CASE c.op = "add"
            BY <1>2, <1>3, <1>1, <1>4, <2>3, <2>5, <2>7, <2>8, <3>1 DEF InOnePlace
        <3>2. CASE c.op # "add"
            BY <1>2, <1>3, <1>1, <1>4, <2>3, <2>5, <2>7, <2>8, <3>2 DEF InOnePlace
        <3> QED BY <3>1, <3>2
    <2>10. Grown(engine') /\ Named(engine') /\ Sized(engine')
        BY <2>1, <2>2
    <2> QED BY <1>1, <1>2, <1>3, <2>3, <2>9, <2>10 DEF MirrorInvariant
<1>6. CASE ~ Takes(c)
    <2>1. engine' = engine /\ events' = events
        BY <1>1, <1>6
    <2>2. Living' = Living /\ Told' = Told
        BY <2>1 DEF Living, Told
    <2>3. CASE c.op = "add"
        <3>1. garbage' = Append(garbage, <<"rejected", c.node>>)
            BY <1>1, <1>6, <2>3
        <3>2. TagList(garbage) /\ "rejected" \in Tags /\ c.node \in Ids
            <4>1. {"freed", "rejected"} \X Ids \subseteq Tags \X (Ids \cup {Root})
                BY DEF Tags
            <4>2. c.node \in Ids
                BY <1>3, <2>3 DEF Messages
            <4> QED BY <1>2, <4>1, <4>2 DEF Tags, TagList
        <3>3. c.node \notin Tagged(garbage, "rejected") \/ c.node \in reused
            BY <1>2, <1>3, <2>3 DEF Refused
        <3>4. Once(Append(garbage, <<"rejected", c.node>>), "rejected", reused)
            BY <1>2, <3>2, <3>3, AppendTagged
        <3>5. Tagged(Append(garbage, <<"rejected", c.node>>), "rejected") =
                Tagged(garbage, "rejected") \cup {c.node}
            BY <1>2, <3>2, <3>3, AppendTagged
        <3>6. garbage' \in Seq({"freed", "rejected"} \X Ids)
            BY <1>2, <3>1, <3>2
        <3>7. Refused' = Refused \cup {c.node} /\ Once(garbage, "rejected", reused)'
            BY <1>1, <3>1, <3>4, <3>5 DEF Refused
        <3>8. InOnePlace'
            BY <1>1, <1>2, <1>3, <1>4, <2>1, <2>2, <2>3, <3>7 DEF InOnePlace
        <3> QED BY <1>1, <1>2, <1>3, <2>1, <3>6, <3>8 DEF MirrorInvariant
    <2>4. CASE c.op # "add"
        <3>1. garbage' = garbage
            BY <1>1, <1>6, <2>4
        <3>2. Refused' = Refused
            BY <3>1 DEF Refused
        <3>3. InOnePlace'
            BY <1>1, <1>2, <1>3, <1>4, <2>1, <2>2, <3>1, <3>2 DEF InOnePlace
        <3> QED BY <1>1, <1>2, <1>3, <2>1, <3>1, <3>3 DEF MirrorInvariant
    <2> QED BY <2>3, <2>4
<1> QED BY <1>5, <1>6

\* A synth that ends leaves the tree for the two FIFOs.
LEMMA EndsKeeps ==
    ASSUME MirrorInvariant, NEW n \in SynthIds, NEW action \in DoneActions, Ends(n, action)
    PROVE  MirrorInvariant'
<1> DEFINE x == Apply(Start(engine), n, action)
<1>1. /\ n \in Synths(engine) /\ engine' = x.tree /\ Reports(x.deaths)
      /\ inUse' = inUse /\ reused' = reused /\ cmds' = cmds
    BY DEF Ends
<1>2. action \in Freeing
    BY TreeMirrorAssumption
<1>3. /\ Grown(engine) /\ Named(engine) /\ Sized(engine) /\ inUse \subseteq Ids /\ reused \subseteq Ids
      /\ cmds \in Seq(Messages) /\ Once(Sent(cmds), "add", reused)
      /\ Living \cap Coming \subseteq reused /\ Living \cap Refused \subseteq reused
      /\ Living \cap Told \subseteq reused /\ Coming \cap Refused \subseteq reused
      /\ Coming \cap Told \subseteq reused /\ Refused \cap Told \subseteq reused
      /\ Living \cup Coming \cup Refused \cup Told \subseteq inUse \cup reused
    BY DEF MirrorInvariant, InOnePlace
<1>4. Made(engine, x, Doomed(engine, n, action), StillPaused(engine, n, action))
    BY <1>1, <1>2, <1>3, ApplyMade
<1> HIDE DEF x
<1>5. Grown(x.tree) /\ Named(x.tree) /\ Sized(x.tree)
    BY <1>3, <1>4, MadeKeeps
<1>6. /\ events' \in Seq(Ids) /\ ApartBut(events', reused)
      /\ ToSet(events') = Told \cup (Live(engine) \ Live(x.tree))
      /\ garbage' \in Seq({"freed", "rejected"} \X Ids) /\ Once(garbage', "rejected", reused)
      /\ Tagged(garbage', "rejected") = Refused
    BY <1>1, <1>4, ReportsKeep
<1>7. Live(x.tree) \subseteq Live(engine) /\ Root \in Live(x.tree)
    BY <1>4 DEF Made, Grown, Shaped
<1>8. Living' \subseteq Living /\ Told' = Told \cup (Living \ Living') /\ Refused' = Refused
    BY <1>1, <1>6, <1>7 DEF Living, Told, Refused
<1>9. Coming' = Coming /\ Once(Sent(cmds), "add", reused)'
    BY <1>1, <1>3 DEF Coming
<1>10. InOnePlace'
    BY <1>1, <1>3, <1>6, <1>8, <1>9 DEF InOnePlace
<1> QED BY <1>1, <1>3, <1>5, <1>6, <1>10 DEF MirrorInvariant

\* A refused node's id is returned with its processor.
LEMMA CollectGarbageKeeps ==
    ASSUME MirrorInvariant, CollectGarbage
    PROVE  MirrorInvariant'
<1> DEFINE g == Head(garbage)
<1>1. /\ garbage # << >> /\ garbage' = Tail(garbage)
      /\ inUse' = IF g[1] = "rejected" THEN inUse \ {g[2]} ELSE inUse
      /\ engine' = engine /\ cmds' = cmds /\ events' = events /\ reused' = reused
    BY DEF CollectGarbage
<1>2. /\ Grown(engine) /\ Named(engine) /\ Sized(engine) /\ inUse \subseteq Ids /\ reused \subseteq Ids
      /\ cmds \in Seq(Messages) /\ events \in Seq(Ids)
      /\ garbage \in Seq({"freed", "rejected"} \X Ids) /\ Once(garbage, "rejected", reused)
      /\ Once(Sent(cmds), "add", reused) /\ ApartBut(events, reused)
      /\ Living \cap Coming \subseteq reused /\ Living \cap Refused \subseteq reused
      /\ Living \cap Told \subseteq reused /\ Coming \cap Refused \subseteq reused
      /\ Coming \cap Told \subseteq reused /\ Refused \cap Told \subseteq reused
      /\ Living \cup Coming \cup Refused \cup Told \subseteq inUse \cup reused
    BY DEF MirrorInvariant, InOnePlace
<1>3. TagList(garbage)
    <2>1. {"freed", "rejected"} \X Ids \subseteq Tags \X (Ids \cup {Root})
        BY DEF Tags
    <2> QED BY <1>2, <2>1 DEF TagList
<1>4. /\ Once(Tail(garbage), "rejected", reused)
      /\ Tagged(Tail(garbage), "rejected") \subseteq Tagged(garbage, "rejected")
      /\ garbage[1][1] = "rejected" => garbage[1][2] \notin Tagged(Tail(garbage), "rejected") \ reused
      /\ garbage[1][1] = "rejected" /\ garbage[1][2] \in Ids =>
            garbage[1][2] \in Tagged(garbage, "rejected")
    BY <1>1, <1>2, <1>3, TailTagged
<1>5. g = garbage[1] /\ g \in {"freed", "rejected"} \X Ids
      /\ Tail(garbage) \in Seq({"freed", "rejected"} \X Ids)
    BY <1>1, <1>2
<1> HIDE DEF g
<1>6. g[2] \in Ids
    BY <1>5
<1>7. Refused' \subseteq Refused /\ Once(garbage, "rejected", reused)'
    BY <1>1, <1>4 DEF Refused
<1>8. g[1] = "rejected" => g[2] \in Refused /\ g[2] \notin Refused' \ reused
    BY <1>1, <1>4, <1>5, <1>6 DEF Refused
<1>9. /\ Living' = Living /\ Told' = Told /\ Coming' = Coming
      /\ Once(Sent(cmds), "add", reused)' /\ ApartBut(events, reused)'
    BY <1>1, <1>2 DEF Living, Told, Coming
<1>10. InOnePlace'
    <2>1. CASE g[1] = "rejected"
        BY <1>1, <1>2, <1>7, <1>8, <1>9, <2>1 DEF InOnePlace
    <2>2. CASE g[1] # "rejected"
        BY <1>1, <1>2, <1>7, <1>9, <2>2 DEF InOnePlace
    <2> QED BY <2>1, <2>2
<1> QED BY <1>1, <1>2, <1>5, <1>10 DEF MirrorInvariant

\* A death told returns its id.
LEMMA CollectEventKeeps ==
    ASSUME MirrorInvariant, CollectEvent
    PROVE  MirrorInvariant'
<1> DEFINE n == Head(events)
<1>1. /\ events # << >> /\ events' = Tail(events)
      /\ inUse' = IF Outlived(n) THEN inUse ELSE inUse \ {n}
      /\ engine' = engine /\ cmds' = cmds /\ garbage' = garbage /\ reused' = reused
    BY DEF CollectEvent
<1>2. /\ Grown(engine) /\ Named(engine) /\ Sized(engine) /\ inUse \subseteq Ids /\ reused \subseteq Ids
      /\ cmds \in Seq(Messages) /\ events \in Seq(Ids)
      /\ garbage \in Seq({"freed", "rejected"} \X Ids) /\ Once(garbage, "rejected", reused)
      /\ Once(Sent(cmds), "add", reused) /\ ApartBut(events, reused)
      /\ Living \cap Coming \subseteq reused /\ Living \cap Refused \subseteq reused
      /\ Living \cap Told \subseteq reused /\ Coming \cap Refused \subseteq reused
      /\ Coming \cap Told \subseteq reused /\ Refused \cap Told \subseteq reused
      /\ Living \cup Coming \cup Refused \cup Told \subseteq inUse \cup reused
    BY DEF MirrorInvariant, InOnePlace
<1> DEFINE r == Tail(events)
<1>3. /\ n = events[1] /\ r \in Seq(Ids) /\ Len(r) = Len(events) - 1
      /\ Len(events) \in Nat /\ Len(events) >= 1
      /\ \A i \in 1 .. Len(events) - 1 : r[i] = events[i + 1]
    BY <1>1, <1>2
<1> HIDE DEF n, r
<1>4. \A i \in 1 .. Len(r) : i + 1 \in 1 .. Len(events) /\ r[i] = events[i + 1] /\ i + 1 # 1
    BY <1>3
<1>5. 1 \in 1 .. Len(events)
    BY <1>3
<1>6. Told = {events[i] : i \in 1 .. Len(events)} /\ ToSet(r) = {r[i] : i \in 1 .. Len(r)}
    <2>1. ToSet(events) = {events[i] : i \in 1 .. Len(events)}
        BY <1>2, ToSetIs
    <2>2. ToSet(r) = {r[i] : i \in 1 .. Len(r)}
        BY <1>3, ToSetIs
    <2> QED BY <2>1, <2>2 DEF Told
<1>7. ToSet(r) \subseteq Told /\ n \notin ToSet(r) \ reused
    <2>1. ToSet(r) \subseteq Told
        BY <1>4, <1>6
    <2>2. ASSUME n \in ToSet(r) \ reused PROVE FALSE
        <3>1. PICK i \in 1 .. Len(r) : r[i] = n
            BY <1>6, <2>2
        <3> QED BY <1>2, <1>3, <1>4, <1>5, <2>2, <3>1 DEF ApartBut
    <2> QED BY <2>1, <2>2
<1>8. ApartBut(r, reused)
    <2> SUFFICES ASSUME NEW i \in 1 .. Len(r), NEW j \in 1 .. Len(r), r[i] = r[j],
                        r[i] \notin reused
                 PROVE  i = j
        BY DEF ApartBut
    <2>1. i + 1 = j + 1
        BY <1>2, <1>4 DEF ApartBut
    <2> QED BY <2>1
<1>9. n \in Told
    BY <1>3, <1>5, <1>6
<1>10. Told' = ToSet(r) /\ ApartBut(events, reused)' /\ events' = r
    BY <1>1, <1>8 DEF Told, r
<1>11. /\ Living' = Living /\ Refused' = Refused /\ Coming' = Coming
       /\ Once(Sent(cmds), "add", reused)' /\ Once(garbage, "rejected", reused)'
    BY <1>1, <1>2 DEF Living, Refused, Coming
<1>12. inUse' = inUse \/ inUse' = inUse \ {n}
    BY <1>1
<1>13. reused' = reused /\ Told' \subseteq Told /\ n \notin Told' \ reused
    BY <1>1, <1>7, <1>10
<1>14. /\ (Living \cap Told)' \subseteq reused /\ (Coming \cap Told)' \subseteq reused
       /\ (Refused \cap Told)' \subseteq reused
    BY <1>2, <1>11, <1>13
<1>15. (Living \cup Coming \cup Refused \cup Told)' \subseteq inUse' \cup reused
    BY <1>2, <1>9, <1>11, <1>12, <1>13
<1>16. InOnePlace'
    BY <1>2, <1>10, <1>11, <1>13, <1>14, <1>15 DEF InOnePlace
<1> QED BY <1>1, <1>2, <1>3, <1>10, <1>12, <1>13, <1>16 DEF MirrorInvariant

\* What the collecting thread's own steps leave.
LEMMA TurnKeeps ==
    ASSUME MirrorInvariant, UNCHANGED <<engine, inUse, reused, cmds, garbage, events>>
    PROVE  MirrorInvariant'
<1>1. /\ engine' = engine /\ inUse' = inUse /\ reused' = reused /\ cmds' = cmds
      /\ garbage' = garbage /\ events' = events
    OBVIOUS
<1>2. Living' = Living /\ Coming' = Coming /\ Refused' = Refused /\ Told' = Told
    BY <1>1 DEF Living, Coming, Refused, Told
<1>3. Once(Sent(cmds), "add", reused)' /\ Once(garbage, "rejected", reused)' /\ ApartBut(events, reused)'
    BY <1>1 DEF MirrorInvariant, InOnePlace
<1>4. InOnePlace'
    BY <1>1, <1>2, <1>3 DEF MirrorInvariant, InOnePlace
<1> QED BY <1>1, <1>4 DEF MirrorInvariant

\* A new id names nothing, or has been asked for again.
LEMMA NewKeeps ==
    ASSUME MirrorInvariant, NEW n \in Ids, NEW target \in Known \cup {Root},
           NEW action \in Actions, New(n, target, action)
    PROVE  MirrorInvariant'
<1> DEFINE placed == MayInsert(mirror, n, target, action)
           m == [op |-> "add", node |-> n, target |-> target, action |-> action, took |-> placed]
<1>1. inUse \subseteq Ids /\ reused \subseteq Ids /\ Actions \subseteq AddActions
    BY TreeMirrorAssumption DEF MirrorInvariant
<1>2. placed \in BOOLEAN
    BY DEF MayInsert
<1>3. /\ inUse' = inUse \cup {n} /\ reused' = reused \cup ({n} \cap inUse)
      /\ Send(m, placed /\ Awaited(n))
    BY DEF New, Taken
<1> HIDE DEF placed
<1>4. m \in Messages
    BY <1>1, <1>2 DEF Messages, Known
<1>5. m.op = "add" /\ m.node = n
    OBVIOUS
<1> HIDE DEF m
<1> QED BY <1>3, <1>4, <1>5, SendKeeps

\* The messages that give no id out.
LEMMA OthersKeep ==
    ASSUME MirrorInvariant, NEW m \in Messages, m.op # "add", Send(m, FALSE),
           UNCHANGED <<inUse, reused>>
    PROVE  MirrorInvariant'
BY SendKeeps

\* A move gives no id out.
LEMMA SendMoveKeeps ==
    ASSUME MirrorInvariant, NEW n \in Known, NEW target \in Known \cup {Root},
           NEW place \in Moves, SendMove(n, target, place)
    PROVE  MirrorInvariant'
<1> DEFINE placed == MayMove(mirror, n, target, place)
           m == [op |-> "move", node |-> n, target |-> target, action |-> place, took |-> placed]
<1>1. inUse \subseteq Ids /\ reused \subseteq Ids /\ Moves \subseteq Places
    BY TreeMirrorAssumption DEF MirrorInvariant
<1>2. placed \in BOOLEAN
    BY DEF MayMove
<1>3. UNCHANGED <<inUse, reused>> /\ Send(m, FALSE)
    BY DEF SendMove
<1> HIDE DEF placed
<1>4. m \in Messages
    BY <1>1, <1>2 DEF Messages, Known
<1>5. m.op # "add"
    OBVIOUS
<1> HIDE DEF m
<1> QED BY <1>3, <1>4, <1>5, OthersKeep

\* Every step keeps the invariant.
LEMMA NextMirror == MirrorInvariant /\ [MirrorNext]_mirrorVars => MirrorInvariant'
<1> SUFFICES ASSUME MirrorInvariant, [MirrorNext]_mirrorVars PROVE MirrorInvariant'
    OBVIOUS
<1>1. ASSUME NEW n \in Ids, NEW target \in Known \cup {Root}, NEW action \in Actions,
             New(n, target, action)
      PROVE  MirrorInvariant'
    BY <1>1, NewKeeps
<1>2. ASSUME NEW n \in Known, SendFree(n) PROVE MirrorInvariant'
    <2> DEFINE m == [op |-> "free", node |-> n]
    <2>1. m \in Messages /\ m.op # "add"
        BY DEF MirrorInvariant, Messages, Known
    <2>2. Send(m, FALSE) /\ UNCHANGED <<inUse, reused>>
        BY <1>2 DEF SendFree
    <2> HIDE DEF m
    <2> QED BY <2>1, <2>2, OthersKeep
<1>3. ASSUME NEW g \in (Known \cap GroupIds) \cup {Root}, SendFreeAll(g) PROVE MirrorInvariant'
    <2> DEFINE m == [op |-> "freeAll", node |-> g]
    <2>1. m \in Messages /\ m.op # "add"
        BY DEF Messages
    <2>2. Send(m, FALSE) /\ UNCHANGED <<inUse, reused>>
        BY <1>3 DEF SendFreeAll
    <2> HIDE DEF m
    <2> QED BY <2>1, <2>2, OthersKeep
<1>4. ASSUME NEW g \in (Known \cap GroupIds) \cup {Root}, SendDeepFree(g) PROVE MirrorInvariant'
    <2> DEFINE m == [op |-> "deepFree", node |-> g]
    <2>1. m \in Messages /\ m.op # "add"
        BY DEF Messages
    <2>2. Send(m, FALSE) /\ UNCHANGED <<inUse, reused>>
        BY <1>4 DEF SendDeepFree
    <2> HIDE DEF m
    <2> QED BY <2>1, <2>2, OthersKeep
<1>5. ASSUME NEW n \in Known, NEW target \in Known \cup {Root}, NEW place \in Moves,
             SendMove(n, target, place)
      PROVE  MirrorInvariant'
    BY <1>5, SendMoveKeeps
<1>6. CASE ApplyCommand
    BY <1>6, ApplyCommandKeeps
<1>7. ASSUME NEW n \in SynthIds, NEW action \in DoneActions, Ends(n, action) PROVE MirrorInvariant'
    BY <1>7, EndsKeeps
<1>8. CASE CollectGarbage
    BY <1>8, CollectGarbageKeeps
<1>9. CASE CollectEvent
    BY <1>9, CollectEventKeeps
<1>10. CASE Collect \/ GarbageDone \/ EventsDone \/ UNCHANGED mirrorVars
    <2>1. UNCHANGED <<engine, inUse, reused, cmds, garbage, events>>
        BY <1>10 DEF Collect, GarbageDone, EventsDone, mirrorVars
    <2> QED BY <2>1, TurnKeeps
<1> QED BY <1>1, <1>2, <1>3, <1>4, <1>5, <1>6, <1>7, <1>8, <1>9, <1>10 DEF MirrorNext

\* So every state has it.
LEMMA MirrorInvariantHolds == MirrorSpec => []MirrorInvariant
<1> QED BY InitMirror, NextMirror, PTL DEF MirrorSpec

\* An id that may be given out again names nothing any more: no node of the audio
\* thread's tree and no command on its way there; except an id that was asked for by
\* number while it was in use.
THEOREM FreeIdsStayDead == MirrorSpec => []FreeIdsAreDead
<1>1. ASSUME MirrorInvariant PROVE FreeIdsAreDead
    <2>1. /\ cmds \in Seq(Messages) /\ Living \cup Coming \subseteq inUse \cup reused
        BY <1>1 DEF MirrorInvariant, InOnePlace
    <2> SUFFICES ASSUME NEW n \in Ids \ (inUse \cup reused)
                 PROVE  /\ n \notin Live(engine)
                        /\ \A i \in DOMAIN cmds : cmds[i].op = "add" => cmds[i].node # n
        BY DEF FreeIdsAreDead
    <2>2. n # Root
        BY TreesAssumption DEF Ids
    <2>3. n \notin Live(engine)
        BY <2>1, <2>2 DEF Living
    <2>4. ASSUME NEW i \in DOMAIN cmds, cmds[i].op = "add", cmds[i].node = n PROVE FALSE
        <3>1. i \in 1 .. Len(cmds) /\ Len(cmds) \in Nat
            BY <2>1
        <3>2. /\ Len(Sent(cmds)) = Len(cmds)
              /\ Sent(cmds)[i] = <<cmds[i].op, cmds[i].node>>
            <4>1. Sent(cmds) \in Seq(Tags \X (Ids \cup {Root}))
                BY <2>1, SentType
            <4> QED BY <3>1, <4>1 DEF Sent
        <3>3. n \in Coming
            BY <2>4, <3>1, <3>2 DEF Coming, Tagged
        <3> QED BY <2>1, <3>3
    <2> QED BY <2>3, <2>4
<1> QED BY <1>1, MirrorInvariantHolds, PTL

-----------------------------------------------------------------------------
(* IdIndex: the probes and the holes.                                       *)

\* A cell and an entry's home are on the probe path of the entry at c up to c.
OnPath(h, d, c) == Ahead(h, d) < Ahead(h, c)

\* The hole's content is stale while a removal is under way.
Stale == IF Idle THEN {} ELSE {hole}

Entries == {c \in Cells \ Stale : keys[c] # Empty}

\* An id has one entry, with the slot recorded for it; ids not held have none.
Recorded ==
    /\ \A c, d \in Entries : keys[c] = keys[d] => c = d
    /\ \A c \in Entries : known[keys[c]] = slots[c]
    /\ \A id \in Held : \E c \in Entries : keys[c] = id

\* Probes reach their entries.
Reached ==
    \A c \in Entries : \A d \in Cells : OnPath(home[keys[c]], d, c) => keys[d] # Empty

\* What a removal has passed is in use, and has no hole on its path.
Passed ==
    ~ Idle =>
        /\ known[leaving] = None
        /\ \A d \in Cells : Ahead(hole, d) <= Ahead(hole, scan) => keys[d] # Empty
        /\ \A c \in Cells \ {hole} :
              Ahead(hole, c) <= Ahead(hole, scan) => ~ OnPath(home[keys[c]], hole, c)

\* The table never fills up.
Roomy ==
    /\ IsFiniteSet(Held)
    /\ Cardinality(Held \cup (IF Idle THEN {} ELSE {leaving})) <= Capacity

Invariant == IndexTypes /\ Recorded /\ Reached /\ Passed /\ Roomy

-----------------------------------------------------------------------------
(* Arithmetic of a circular table.                                          *)

\* A probe takes less than a round.
LEMMA AheadType == \A a, b \in Cells : Ahead(a, b) \in 0 .. Size - 1
BY IndexAssumption DEF Ahead, Cells

\* As many steps on the same way lead to the same cell.
LEMMA AheadSame == \A a, b, c \in Cells : Ahead(a, b) = Ahead(a, c) <=> b = c
BY IndexAssumption DEF Ahead, Cells

\* No step leads to the cell itself.
LEMMA AheadSelf == \A a \in Cells, b \in Cells : Ahead(a, b) = 0 <=> a = b
BY IndexAssumption DEF Ahead, Cells

\* The next cell is a cell.
LEMMA NextType == \A c \in Cells : NextCell(c) \in Cells
BY IndexAssumption DEF NextCell, Cells

\* The next cell is one step further, short of a round.
LEMMA NextAhead ==
    \A a, c \in Cells : NextCell(c) # a => Ahead(a, NextCell(c)) = Ahead(a, c) + 1
BY IndexAssumption DEF NextCell, Ahead, Cells

\* Just short of a round, every cell has been passed.
LEMMA NextRound ==
    \A a, c, d \in Cells : NextCell(c) = a => Ahead(a, d) <= Ahead(a, c)
BY IndexAssumption DEF NextCell, Ahead, Cells

\* What lies on the way from a to c, and from b to c, when b does.
LEMMA Between ==
    \A h, a, b, c \in Cells :
        OnPath(h, a, c) /\ OnPath(a, b, c) => OnPath(h, b, c)
BY IndexAssumption DEF OnPath, Ahead, Cells

\* What comes before a cell on a path comes before what follows it.
LEMMA CellsBefore ==
    \A h, a, b, c \in Cells :
        OnPath(h, a, c) /\ OnPath(h, b, a) => OnPath(h, b, c)
<1> SUFFICES ASSUME NEW h \in Cells, NEW a \in Cells, NEW b \in Cells, NEW c \in Cells,
                    OnPath(h, a, c), OnPath(h, b, a)
             PROVE  OnPath(h, b, c)
    OBVIOUS
<1> QED BY AheadType DEF OnPath

\* The test of NodeIndex::remove, whichever side of the wrap: the hole is not on
\* the entry's path.
LEMMA StaysIff ==
    ASSUME IndexTypes, NEW c \in Cells, c # hole, keys[c] # Empty
    PROVE  Stays(c) <=> ~ OnPath(home[keys[c]], hole, c)
<1>1. home[keys[c]] \in Cells /\ hole \in Cells
    BY IndexAssumption DEF IndexTypes
<1> QED BY <1>1, IndexAssumption DEF Stays, OnPath, Ahead, Cells

-----------------------------------------------------------------------------

\* A table the slab cannot fill keeps a cell empty: its entries are as many as
\* the ids held, and a removal under way has one more cell in use.
LEMMA EmptyCell ==
    ASSUME Invariant
    PROVE  \E e \in Cells : keys[e] = Empty
<1> DEFINE Using == Held \cup (IF Idle THEN {} ELSE {leaving})
           InUse == {c \in Cells : keys[c] # Empty}
           holder == [c \in InUse |-> IF c \in Stale THEN leaving ELSE keys[c]]
<1>1. IsFiniteSet(Cells) /\ Cardinality(Cells) = Size
    BY FS_Interval, IndexAssumption DEF Cells
<1>2. IsFiniteSet(Using) /\ Cardinality(Using) <= Capacity
    <2>1. IsFiniteSet(Held) /\ IsFiniteSet({leaving})
        BY FS_Singleton DEF Invariant, Roomy
    <2> QED BY <2>1, FS_Union, FS_EmptySet DEF Invariant, Roomy
<1>3. holder \in [InUse -> Using]
    <2> SUFFICES ASSUME NEW c \in InUse PROVE holder[c] \in Using
        OBVIOUS
    <2>1. CASE c \in Stale
        BY <2>1 DEF Stale
    <2>2. CASE c \notin Stale
        <3>1. c \in Entries
            BY <2>2 DEF Entries
        <3>2. keys[c] \in NodeIds /\ slots[c] \in Slots /\ known[keys[c]] = slots[c]
            BY <3>1 DEF Invariant, IndexTypes, Recorded, Entries
        <3>3. keys[c] \in Held
            BY <3>2, IndexAssumption DEF Held
        <3> QED BY <2>2, <3>3
    <2> QED BY <2>1, <2>2
<1>4. \A c, d \in InUse : holder[c] = holder[d] => c = d
    <2> SUFFICES ASSUME NEW c \in InUse, NEW d \in InUse, holder[c] = holder[d]
                 PROVE  c = d
        OBVIOUS
    <2>1. \A e \in InUse \ Stale : e \in Entries /\ holder[e] = keys[e]
        BY DEF Entries
    <2>2. \A e \in InUse \ Stale : ~ Idle => holder[e] # leaving
        <3> SUFFICES ASSUME NEW e \in InUse \ Stale, ~ Idle PROVE holder[e] # leaving
            OBVIOUS
        <3>1. known[keys[e]] = slots[e] /\ slots[e] \in Slots
            BY <2>1 DEF Invariant, Recorded, IndexTypes
        <3>2. known[leaving] = None
            BY DEF Invariant, Passed
        <3> QED BY <2>1, <3>1, <3>2, IndexAssumption
    <2>3. CASE c \in Stale \/ d \in Stale
        BY <2>2, <2>3 DEF Stale
    <2>4. CASE c \notin Stale /\ d \notin Stale
        BY <2>1, <2>4 DEF Invariant, Recorded
    <2> QED BY <2>3, <2>4
<1>5. Cardinality(InUse) <= Cardinality(Using)
    <2>1. IsFiniteSet(InUse)
        BY <1>1, FS_Subset
    <2>2. holder \in Injection(InUse, Using)
        <3> HIDE DEF holder, InUse, Using
        <3> QED BY <1>3, <1>4 DEF Injection, IsInjective
    <2> HIDE DEF holder, InUse, Using
    <2> QED BY <1>2, <2>1, <2>2, FS_Injection
<1>6. InUse # Cells
    <2> HIDE DEF InUse, Using
    <2>1. Cardinality(Using) \in Nat
        BY <1>2, FS_CardinalityType
    <2> QED BY <1>1, <1>2, <1>5, <2>1, IndexAssumption
<1> QED BY <1>6

\* An empty table keeps the invariant.
LEMMA InitInvariant == IndexInit => Invariant
<1> SUFFICES ASSUME IndexInit PROVE Invariant
    OBVIOUS
<1>1. IndexTypes
    BY IndexAssumption DEF IndexInit, IndexTypes, Cells
<1>2. Held = {} /\ Entries = {} /\ Idle
    BY DEF IndexInit, Held, Entries, Idle
<1>3. Roomy
    BY <1>2, FS_EmptySet, IndexAssumption DEF Roomy
<1> QED BY <1>1, <1>2, <1>3 DEF Invariant, Recorded, Reached, Passed

\* Cells stay what they are.
LEMMA NextTypeOK == Invariant /\ [IndexNext]_indexVars => IndexTypes'
<1> SUFFICES ASSUME Invariant, [IndexNext]_indexVars PROVE IndexTypes'
    OBVIOUS
<1> USE DEF Invariant, IndexTypes
<1>1. ASSUME NEW id \in NodeIds, NEW s \in Slots, InsertKey(id, s) PROVE IndexTypes'
    BY <1>1 DEF InsertKey
<1>2. ASSUME NEW id \in NodeIds, RemoveKey(id) PROVE IndexTypes'
    BY <1>2 DEF RemoveKey
<1>3. CASE Shift
    BY <1>3, NextType DEF Shift
<1>4. CASE Close
    BY <1>4, IndexAssumption DEF Close, Cells
<1>5. CASE UNCHANGED indexVars
    BY <1>5 DEF indexVars
<1> QED BY <1>1, <1>2, <1>3, <1>4, <1>5 DEF IndexNext

\* Insertion takes the first cell of the probe that is empty or holds the id,
\* which has no other entry: nothing beyond an empty cell belongs to the probe.
LEMMA InsertKeeps ==
    ASSUME Invariant, NEW id \in NodeIds, NEW s \in Slots, InsertKey(id, s)
    PROVE  Invariant'
<1>0. IndexTypes'
    BY NextTypeOK DEF IndexNext
<1>1. PICK c \in Cells : /\ StopsAt(id, c)
                         /\ keys' = [keys EXCEPT ![c] = id]
                         /\ slots' = [slots EXCEPT ![c] = s]
    BY DEF InsertKey
<1>2. /\ Idle /\ Idle' /\ home' = home /\ Stale = {} /\ Stale' = {}
      /\ known' = [known EXCEPT ![id] = s]
    BY DEF InsertKey, Idle, Stale
<1> USE DEF IndexTypes
<1>3. /\ IndexTypes /\ Recorded /\ Reached
      /\ \A d \in Cells : home[id] \in Cells
    BY IndexAssumption DEF Invariant
<1>4. Entries' = Entries \cup {c}
    BY <1>1, <1>2, <1>3, IndexAssumption DEF Entries
<1>5. \A d \in Entries : keys[d] = id => d = c
    <2> SUFFICES ASSUME NEW d \in Entries, keys[d] = id, d # c PROVE FALSE
        OBVIOUS
    <2>1. d \in Cells /\ home[id] \in Cells
        BY <1>3 DEF Entries
    <2>2. ~ OnPath(home[id], d, c)
        BY <1>1, <2>1 DEF StopsAt, OnPath
    <2>3. OnPath(home[id], c, d)
        BY <2>1, <2>2, AheadType, AheadSame DEF OnPath
    <2>4. keys[c] # Empty
        BY <1>3, <2>1, <2>3 DEF Reached
    <2>5. keys[c] = id
        BY <1>1, <2>4 DEF StopsAt
    <2>6. c \in Entries
        BY <1>2, <2>4 DEF Entries
    <2> QED BY <1>3, <2>5, <2>6 DEF Recorded
<1>6. \A d \in Entries : d # c => keys'[d] = keys[d] /\ slots'[d] = slots[d] /\ keys[d] # id
    BY <1>1, <1>3, <1>5 DEF Entries
<1>7. keys'[c] = id /\ slots'[c] = s
    BY <1>1, <1>3
<1>8. Recorded'
    <2>1. \A d, e \in Entries' : keys'[d] = keys'[e] => d = e
        BY <1>3, <1>4, <1>6, <1>7 DEF Recorded
    <2>2. \A d \in Entries' : known'[keys'[d]] = slots'[d]
        <3> SUFFICES ASSUME NEW d \in Entries' PROVE known'[keys'[d]] = slots'[d]
            OBVIOUS
        <3>1. CASE d = c
            BY <1>2, <1>3, <1>7, <3>1
        <3>2. CASE d # c
            BY <1>2, <1>3, <1>4, <1>6, <3>2 DEF Recorded, Entries
        <3> QED BY <3>1, <3>2
    <2>3. \A i \in Held' : \E d \in Entries' : keys'[d] = i
        <3> SUFFICES ASSUME NEW i \in Held' PROVE \E d \in Entries' : keys'[d] = i
            OBVIOUS
        <3>1. CASE i = id
            BY <1>4, <1>7, <3>1
        <3>2. CASE i # id
            <4>1. i \in Held
                BY <1>2, <1>3, <3>2 DEF Held
            <4>2. PICK d \in Entries : keys[d] = i
                BY <1>3, <4>1 DEF Recorded
            <4>3. d # c
                BY <1>1, <3>2, <4>2 DEF StopsAt, Entries
            <4> QED BY <1>4, <1>6, <4>2, <4>3
        <3> QED BY <3>1, <3>2
    <2> QED BY <2>1, <2>2, <2>3 DEF Recorded
<1>9. Reached'
    <2> SUFFICES ASSUME NEW e \in Entries', NEW d \in Cells, OnPath(home[keys'[e]], d, e)
                 PROVE  keys'[d] # Empty
        BY <1>2 DEF Reached, OnPath, Ahead
    <2>1. CASE e = c
        BY <1>1, <1>3, <1>7, <2>1, IndexAssumption DEF StopsAt, OnPath
    <2>2. CASE e # c
        BY <1>1, <1>3, <1>4, <1>6, <2>2, IndexAssumption DEF Reached
    <2> QED BY <2>1, <2>2
<1>10. Passed'
    BY <1>2 DEF Passed
<1>11. Roomy'
    <2>1. Held' = Held \cup {id}
        BY <1>2, <1>3, IndexAssumption DEF Held
    <2>2. IsFiniteSet(Held \cup {id})
        BY FS_AddElement DEF Invariant, Roomy
    <2>3. Cardinality(Held \cup {id}) <= Capacity
        BY DEF InsertKey, Room
    <2>4. Held' \cup {} = Held'
        OBVIOUS
    <2> QED BY <1>2, <2>1, <2>2, <2>3, <2>4 DEF Roomy
<1> QED BY <1>0, <1>8, <1>9, <1>10, <1>11 DEF Invariant

\* A removal begins by leaving its id's only entry for a hole.
LEMMA RemoveKeeps ==
    ASSUME Invariant, NEW id \in NodeIds, RemoveKey(id)
    PROVE  Invariant'
<1>0. IndexTypes'
    BY NextTypeOK DEF IndexNext
<1> USE DEF IndexTypes
<1>1. PICK c \in Cells : StopsAt(id, c) /\ keys[c] = id /\ hole' = c /\ scan' = c
    BY DEF RemoveKey
<1>2. /\ Idle /\ ~ Idle' /\ Stale = {} /\ Stale' = {c}
      /\ UNCHANGED <<home, keys, slots>>
      /\ leaving' = id /\ known' = [known EXCEPT ![id] = None]
    BY <1>1, IndexAssumption DEF RemoveKey, Idle, Stale
<1>3. IndexTypes /\ Recorded /\ Reached
    BY DEF Invariant
<1>4. c \in Entries /\ Entries' = Entries \ {c}
    BY <1>1, <1>2, IndexAssumption DEF Entries
<1>5. \A d \in Entries' : keys[d] # id /\ keys[d] \in NodeIds
    BY <1>1, <1>3, <1>4 DEF Recorded, Entries
<1>6. id \in Held /\ Held' = Held \ {id}
    <2>1. known[id] = slots[c] /\ slots[c] \in Slots
        BY <1>1, <1>3, <1>4 DEF Recorded
    <2> QED BY <1>2, <1>3, <2>1, IndexAssumption DEF Held
<1>7. Recorded'
    <2>1. \A d, e \in Entries' : keys'[d] = keys'[e] => d = e
        BY <1>2, <1>3, <1>4 DEF Recorded
    <2>2. \A d \in Entries' : known'[keys'[d]] = slots'[d]
        BY <1>2, <1>3, <1>4, <1>5 DEF Recorded
    <2>3. \A i \in Held' : \E d \in Entries' : keys'[d] = i
        BY <1>1, <1>2, <1>3, <1>4, <1>6 DEF Recorded
    <2> QED BY <2>1, <2>2, <2>3 DEF Recorded
<1>8. Reached'
    BY <1>2, <1>3, <1>4 DEF Reached, OnPath, Ahead
<1>9. Passed'
    <2>1. known'[leaving'] = None
        BY <1>2, <1>3
    <2>2. \A d \in Cells : Ahead(c, d) <= Ahead(c, c) => d = c
        BY <1>1, AheadType, AheadSelf
    <2> QED BY <1>1, <1>2, <2>1, <2>2, IndexAssumption DEF Passed, OnPath, Ahead
<1>10. Roomy'
    <2>1. Held' \cup {id} = Held /\ Held \cup {} = Held
        BY <1>6
    <2>2. IsFiniteSet(Held')
        BY <1>6, FS_Subset DEF Invariant, Roomy
    <2> QED BY <1>2, <2>1, <2>2 DEF Invariant, Roomy
<1> QED BY <1>0, <1>7, <1>8, <1>9, <1>10 DEF Invariant

\* A turn of the removal's loop does not come round to the hole.
LEMMA ShortOfHole ==
    ASSUME Invariant, ~ Idle
    PROVE  NextCell(scan) # hole
<1>1. hole \in Cells /\ scan \in Cells
    BY DEF Invariant, IndexTypes
<1>2. PICK e \in Cells : keys[e] = Empty
    BY EmptyCell
<1>3. ~ (Ahead(hole, e) <= Ahead(hole, scan))
    BY <1>2 DEF Invariant, Passed
<1> QED BY <1>1, <1>2, <1>3, NextRound

\* A turn of the loop leaves an entry, or moves it back into the hole, which was
\* on its path; the hole is then where it was.
LEMMA ShiftKeeps ==
    ASSUME Invariant, Shift
    PROVE  Invariant'
<1>0. IndexTypes'
    BY NextTypeOK DEF IndexNext
<1> DEFINE c == NextCell(scan)
<1> USE DEF IndexTypes
<1>1. /\ ~ Idle /\ ~ Idle' /\ keys[c] # Empty /\ scan' = c
      /\ UNCHANGED <<home, leaving, known>>
      /\ c \in Cells /\ scan \in Cells /\ hole \in Cells /\ c # hole
    BY NextType, ShortOfHole DEF Shift, Idle, Invariant
<1>2. IndexTypes /\ Recorded /\ Reached /\ Passed
    BY DEF Invariant
<1>3. /\ Ahead(hole, c) = Ahead(hole, scan) + 1
      /\ Held' = Held /\ Stale = {hole} /\ Stale' = {hole'}
    BY <1>1, NextAhead DEF Held, Stale
<1>4. keys[hole] # Empty
    <2>1. Ahead(hole, hole) <= Ahead(hole, scan)
        BY <1>1, AheadSelf, AheadType
    <2> QED BY <1>1, <1>2, <2>1 DEF Passed
<1>5. c \in Entries /\ keys[c] \in NodeIds /\ home[keys[c]] \in Cells
    BY <1>1, <1>2, <1>3, IndexAssumption DEF Entries
<1>6. Roomy'
    BY <1>1, <1>3 DEF Invariant, Roomy
<1>7. CASE Stays(c) /\ UNCHANGED <<keys, slots, hole>>
    <2>1. Entries' = Entries
        BY <1>3, <1>7 DEF Entries
    <2>2. Recorded'
        BY <1>1, <1>2, <1>3, <1>7, <2>1 DEF Recorded
    <2>3. Reached'
        BY <1>1, <1>2, <1>7, <2>1 DEF Reached, OnPath, Ahead
    <2>4. Passed'
        <3>1. \A d \in Cells : Ahead(hole, d) <= Ahead(hole, c) =>
                                Ahead(hole, d) <= Ahead(hole, scan) \/ d = c
            BY <1>1, <1>3, AheadType, AheadSame
        <3>2. ~ OnPath(home[keys[c]], hole, c)
            BY <1>1, <1>2, <1>7, StaysIff
        <3>3. \A d \in Cells : Ahead(hole, d) <= Ahead(hole, c) => keys[d] # Empty
            BY <1>1, <1>2, <3>1 DEF Passed
        <3>4. \A d \in Cells \ {hole} :
                 Ahead(hole, d) <= Ahead(hole, c) => ~ OnPath(home[keys[d]], hole, d)
            BY <1>1, <1>2, <3>1, <3>2 DEF Passed
        <3> QED BY <1>1, <1>2, <1>7, <3>3, <3>4 DEF Passed, OnPath, Ahead
    <2> QED BY <1>0, <1>6, <2>2, <2>3, <2>4 DEF Invariant
<1>8. CASE /\ ~ Stays(c)
           /\ keys' = [keys EXCEPT ![hole] = keys[c]]
           /\ slots' = [slots EXCEPT ![hole] = slots[c]]
           /\ hole' = c
    <2>1. /\ keys'[hole] = keys[c] /\ slots'[hole] = slots[c]
          /\ \A d \in Cells \ {hole} : keys'[d] = keys[d] /\ slots'[d] = slots[d]
        BY <1>1, <1>2, <1>8
    <2>2. Entries' = (Entries \ {c}) \cup {hole}
        BY <1>1, <1>3, <1>5, <1>8, <2>1 DEF Entries
    <2>3. \A d \in Cells : keys'[d] # Empty <=> keys[d] # Empty
        BY <1>1, <1>4, <2>1
    <2>4. \A d \in Entries \ {c} : d \in Cells \ {hole} /\ keys[d] # keys[c] /\ keys[d] \in NodeIds
        BY <1>2, <1>3, <1>5 DEF Entries, Recorded
    <2>5. Recorded'
        <3>1. \A d, e \in Entries' : keys'[d] = keys'[e] => d = e
            BY <1>2, <2>1, <2>2, <2>4 DEF Recorded
        <3>2. \A d \in Entries' : known'[keys'[d]] = slots'[d]
            BY <1>1, <1>2, <1>5, <2>1, <2>2, <2>4 DEF Recorded
        <3>3. \A i \in Held' : \E d \in Entries' : keys'[d] = i
            <4> SUFFICES ASSUME NEW i \in Held PROVE \E d \in Entries' : keys'[d] = i
                BY <1>3
            <4>1. PICK d \in Entries : keys[d] = i
                BY <1>2 DEF Recorded
            <4> QED BY <2>1, <2>2, <2>4, <4>1
        <3> QED BY <3>1, <3>2, <3>3 DEF Recorded
    <2>6. OnPath(home[keys[c]], hole, c)
        BY <1>1, <1>2, <1>8, StaysIff
    <2>7. Reached'
        <3> SUFFICES ASSUME NEW e \in Entries', NEW d \in Cells, OnPath(home[keys'[e]], d, e)
                     PROVE  keys[d] # Empty
            BY <1>1, <2>3 DEF Reached, OnPath, Ahead
        <3>1. CASE e = hole
            <4>1. OnPath(home[keys[c]], d, c)
                BY <1>1, <1>5, <2>1, <2>6, <3>1, CellsBefore
            <4> QED BY <1>2, <1>5, <4>1 DEF Reached
        <3>2. CASE e # hole
            BY <1>2, <2>1, <2>2, <2>4, <3>2 DEF Reached
        <3> QED BY <3>1, <3>2
    <2>8. Passed'
        <3>1. \A d \in Cells : Ahead(c, d) <= Ahead(c, c) => d = c
            BY <1>1, AheadType, AheadSelf
        <3> QED BY <1>1, <1>2, <1>8, <2>3, <3>1 DEF Passed, OnPath, Ahead
    <2> QED BY <1>0, <1>6, <2>5, <2>7, <2>8 DEF Invariant
<1> QED BY <1>7, <1>8 DEF Shift

\* The hole may be emptied: no entry left behind has it on its path, and none
\* further on has, since the empty cell the loop stopped at would be on it too.
LEMMA CloseKeeps ==
    ASSUME Invariant, Close
    PROVE  Invariant'
<1>0. IndexTypes'
    BY NextTypeOK DEF IndexNext
<1> DEFINE n == NextCell(scan)
<1> USE DEF IndexTypes
<1>1. /\ ~ Idle /\ Idle' /\ keys[n] = Empty
      /\ keys' = [keys EXCEPT ![hole] = Empty]
      /\ UNCHANGED <<home, slots, known>>
      /\ n \in Cells /\ scan \in Cells /\ hole \in Cells /\ n # hole
    BY NextType, ShortOfHole DEF Close, Idle, Invariant
<1>2. IndexTypes /\ Recorded /\ Reached /\ Passed
    BY DEF Invariant
<1>3. /\ Ahead(hole, n) = Ahead(hole, scan) + 1
      /\ Held' = Held /\ Stale = {hole} /\ Stale' = {}
    BY <1>1, NextAhead DEF Held, Stale
<1>4. \A d \in Cells \ {hole} : keys'[d] = keys[d]
    BY <1>1, <1>2
<1>5. Entries' = Entries /\ Entries \subseteq Cells \ {hole}
    BY <1>1, <1>2, <1>3, <1>4 DEF Entries
<1>6. \A c \in Entries : ~ OnPath(home[keys[c]], hole, c)
    <2> SUFFICES ASSUME NEW c \in Entries, OnPath(home[keys[c]], hole, c) PROVE FALSE
        OBVIOUS
    <2>1. c \in Cells \ {hole} /\ keys[c] # Empty /\ home[keys[c]] \in Cells
        BY <1>2, <1>5, IndexAssumption DEF Entries
    <2>2. ~ (Ahead(hole, c) <= Ahead(hole, scan))
        BY <1>1, <1>2, <2>1 DEF Passed
    <2>3. c # n
        BY <1>1, <2>1
    <2>4. OnPath(hole, n, c)
        BY <1>1, <1>3, <2>1, <2>2, <2>3, AheadType, AheadSame DEF OnPath
    <2>5. OnPath(home[keys[c]], n, c)
        BY <1>1, <2>1, <2>4, Between
    <2> QED BY <1>1, <1>2, <2>5 DEF Reached
<1>7. Recorded'
    BY <1>1, <1>2, <1>3, <1>4, <1>5 DEF Recorded
<1>8. Reached'
    <2> SUFFICES ASSUME NEW c \in Entries, NEW d \in Cells, OnPath(home[keys[c]], d, c)
                 PROVE  keys'[d] # Empty
        BY <1>1, <1>4, <1>5 DEF Reached, OnPath, Ahead
    <2>1. d # hole
        BY <1>6
    <2> QED BY <1>2, <1>4, <2>1 DEF Reached
<1>9. Passed'
    BY <1>1 DEF Passed
<1>10. Roomy'
    <2>1. IsFiniteSet(Held) /\ Cardinality(Held \cup {leaving}) <= Capacity
        BY <1>1 DEF Invariant, Roomy
    <2>2. IsFiniteSet(Held \cup {leaving})
        BY <2>1, FS_AddElement
    <2>3. Cardinality(Held) <= Cardinality(Held \cup {leaving})
        BY <2>2, FS_Subset
    <2>4. Held \cup {} = Held
        OBVIOUS
    <2>5. Cardinality(Held) <= Capacity
        <3>1. Cardinality(Held) \in Nat /\ Cardinality(Held \cup {leaving}) \in Nat
            BY <2>1, <2>2, FS_CardinalityType
        <3> QED BY <2>1, <2>3, <3>1, IndexAssumption
    <2> QED BY <1>1, <1>3, <2>1, <2>4, <2>5 DEF Roomy
<1> QED BY <1>0, <1>7, <1>8, <1>9, <1>10 DEF Invariant

\* Nothing happening keeps it.
LEMMA StutterKeeps == Invariant /\ UNCHANGED indexVars => Invariant'
BY DEF indexVars, Invariant, IndexTypes, Recorded, Reached, Passed, Roomy, Entries, Stale,
       Idle, Held, OnPath, Ahead

\* What the index's operations keep: one entry for each id held, reached by its
\* probe, and behind a removal no entry cut off by the hole.
THEOREM IndexInvariant == IndexSpec => []Invariant
<1>1. Invariant /\ [IndexNext]_indexVars => Invariant'
    BY InsertKeeps, RemoveKeeps, ShiftKeeps, CloseKeeps, StutterKeeps DEF IndexNext
<1> QED BY <1>1, InitInvariant, PTL DEF IndexSpec

-----------------------------------------------------------------------------

\* A probe stops, on one cell: the nearest to the id's home that is empty or
\* holds it, and there is one since some cell is empty.
LEMMA StopIsUnique ==
    ASSUME Invariant, NEW id \in NodeIds, NEW c \in Cells, StopsAt(id, c)
    PROVE  (CHOOSE d \in Cells : StopsAt(id, d)) = c
<1>1. home[id] \in Cells
    BY IndexAssumption DEF Invariant, IndexTypes
<1>2. ASSUME NEW d \in Cells, StopsAt(id, d) PROVE d = c
    <2>1. ~ (Ahead(home[id], d) < Ahead(home[id], c))
        BY <1>2 DEF StopsAt
    <2>2. ~ (Ahead(home[id], c) < Ahead(home[id], d))
        BY <1>2 DEF StopsAt
    <2> QED BY <1>1, <2>1, <2>2, AheadType, AheadSame
<1> QED BY <1>2

\* The nearest of some cells to a home.
LEMMA Nearest ==
    ASSUME NEW h \in Cells, NEW S \in SUBSET Cells, S # {}
    PROVE  \E c \in S : \A d \in S : ~ (Ahead(h, d) < Ahead(h, c))
<1> DEFINE D == {Ahead(h, c) : c \in S}
           R == OpToRel(<, Nat)
<1>1. D \subseteq Nat /\ D # {}
    BY AheadType
<1>2. PICK n \in D : \A m \in D : <<m, n>> \notin R
    <2> HIDE DEF D
    <2> QED BY <1>1, WFMin, NatLessThanWellFounded DEF R
<1>3. \A m \in D : ~ (m < n)
    BY <1>1, <1>2 DEF OpToRel
<1> QED BY <1>3

\* Between operations the index answers for every id what was last recorded.
LEMMA InvariantFinds == Invariant => Finds
<1> SUFFICES ASSUME Invariant, Idle, NEW id \in NodeIds PROVE Lookup(id) = known[id]
    BY DEF Finds
<1> USE DEF IndexTypes
<1>1. /\ IndexTypes /\ Recorded /\ Reached /\ Entries \subseteq Cells
      /\ \A c \in Cells : keys[c] # Empty => c \in Entries
      /\ \A c \in Entries : keys[c] # Empty
    BY DEF Invariant, Entries, Stale
<1>2. home[id] \in Cells
    BY <1>1, IndexAssumption
<1>3. CASE id \in Held
    <2>1. PICK c \in Entries : keys[c] = id
        BY <1>1, <1>3 DEF Recorded
    <2>2. \A d \in Cells : Ahead(home[id], d) < Ahead(home[id], c) => keys[d] \notin {Empty, id}
        <3> SUFFICES ASSUME NEW d \in Cells, OnPath(home[id], d, c)
                     PROVE  keys[d] # Empty /\ keys[d] # id
            BY DEF OnPath
        <3>1. keys[d] # Empty
            BY <1>1, <2>1 DEF Reached
        <3>2. d # c
            BY <1>1, <1>2, <2>1, AheadType DEF OnPath
        <3> QED BY <1>1, <2>1, <3>1, <3>2 DEF Recorded
    <2>3. StopsAt(id, c)
        BY <2>1, <2>2 DEF StopsAt
    <2>4. Lookup(id) = slots[c]
        BY <1>1, <2>1, <2>3, StopIsUnique DEF Lookup
    <2> QED BY <1>1, <2>1, <2>4 DEF Recorded
<1>4. CASE id \notin Held
    <2> DEFINE S == {c \in Cells : keys[c] \in {Empty, id}}
    <2>1. S # {}
        BY EmptyCell
    <2>2. PICK c \in S : \A d \in S : ~ (Ahead(home[id], d) < Ahead(home[id], c))
        <3> HIDE DEF S
        <3>1. S \in SUBSET Cells
            BY DEF S
        <3> QED BY <1>2, <2>1, <3>1, Nearest
    <2>3. StopsAt(id, c)
        BY <2>2 DEF StopsAt
    <2>4. keys[c] = Empty
        <3> SUFFICES ASSUME keys[c] # Empty PROVE FALSE
            OBVIOUS
        <3>1. keys[c] = id /\ c \in Entries
            BY <1>1
        <3>2. known[id] = slots[c] /\ slots[c] \in Slots
            BY <1>1, <3>1 DEF Recorded
        <3> QED BY <1>4, <3>2, IndexAssumption DEF Held
    <2> QED BY <1>4, <2>3, <2>4, StopIsUnique DEF Lookup, Held
<1> QED BY <1>3, <1>4

\* Whatever was inserted and removed before, an id between operations is found
\* in the slot last recorded for it, and one removed is not found.
THEOREM AlwaysFinds == IndexSpec => []Finds
BY IndexInvariant, InvariantFinds, PTL
=============================================================================
