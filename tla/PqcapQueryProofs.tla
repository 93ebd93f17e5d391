-------------------------- MODULE PqcapQueryProofs --------------------------
(***************************************************************************)
(* Queries of a capture while calls of pqcap_embed_index work on it and    *)
(* other programs replace it, for every value of the constants: what they  *)
(* return is of one capture that was at the path, and what was located can *)
(* be read until the file changes.                                         *)
(***************************************************************************)
EXTENDS PqcapQuery, PqcapIndexerProofs

(***************************************************************************)
(* Captures of which only the first blocks are left.                       *)
(***************************************************************************)

(* b is d, of which fewer bytes may be there.                              *)
PieceOf(b, d) == b.at = d.at /\ b.type = d.type /\ b.len = d.len /\ b.body = d.body

(* s is as much of t as there is of it.                                    *)
AsFar(s, t) ==
  /\ Len(s) <= Len(t)
  /\ \A n \in 1..Len(s) : PieceOf(s[n], t[n])

(* A sequence of pieces in file order, with none left out before another,  *)
(* is made of the first ones.                                              *)
LEMMA FirstOnes ==
  ASSUME NEW S, NEW u \in Seq(S), NEW v \in Seq(S),
         \A n \in 1..Len(u) : u[n].at \in Nat,
         \A n \in 1..Len(v) : v[n].at \in Nat,
         \A m, n \in 1..Len(u) : m < n => u[m].at < u[n].at,
         \A m, n \in 1..Len(v) : m < n => v[m].at < v[n].at,
         \A n \in 1..Len(u) : \E m \in 1..Len(v) : PieceOf(u[n], v[m]),
         \A n \in 1..Len(u), m \in 1..Len(v) : v[m].at < u[n].at =>
           \E k \in 1..Len(u) : u[k].at = v[m].at
  PROVE  AsFar(u, v)
<1>1. Len(u) \in Nat /\ Len(v) \in Nat
  OBVIOUS
<1> DEFINE T == {n \in 1..Len(u) : ~ (n <= Len(v) /\ u[n].at = v[n].at)}
<1>2. T = {}
  <2> SUFFICES ASSUME T # {}  PROVE FALSE
    OBVIOUS
  <2>1. T \in SUBSET Nat
    OBVIOUS
  <2> HIDE DEF T
  <2>2. PICK x \in T : \A y \in T : x <= y
    BY <2>1, LeastNumber
  <2>3. x \in 1..Len(u) /\ ~ (x <= Len(v) /\ u[x].at = v[x].at)
    BY <2>2 DEF T
  <2>4. \A k \in 1..Len(u) : k < x => k <= Len(v) /\ u[k].at = v[k].at
    <3>1. ASSUME NEW k \in 1..Len(u), k < x  PROVE k \notin T
      BY <1>1, <2>2, <2>3, <3>1
    <3> QED BY <3>1 DEF T
  <2>5. PICK m \in 1..Len(v) : u[x].at = v[m].at
    BY <2>3 DEF PieceOf
  <2>6. CASE m < x
    <3>1. m \in 1..Len(u) /\ u[m].at = v[m].at
      BY <1>1, <2>3, <2>4, <2>6
    <3>2. u[m].at < u[x].at /\ u[m].at \in Nat /\ u[x].at \in Nat
      BY <2>3, <2>6, <3>1
    <3> QED BY <2>5, <3>1, <3>2
  <2>7. CASE m = x
    BY <1>1, <2>3, <2>5, <2>7
  <2>8. CASE x < m
    <3>1. x \in 1..Len(v) /\ v[x].at < v[m].at
      BY <1>1, <2>3, <2>8
    <3>2. PICK k \in 1..Len(u) : u[k].at = v[x].at
      BY <2>3, <2>5, <3>1
    <3>3. u[k].at < u[x].at /\ u[k].at \in Nat /\ u[x].at \in Nat
      BY <2>3, <2>5, <3>1, <3>2
    <3>4. k < x
      <4>1. CASE x < k
        <5>1. u[x].at < u[k].at
          BY <2>3, <4>1
        <5> QED BY <3>3, <5>1
      <4>2. CASE x = k
        BY <3>3, <4>2
      <4> QED BY <1>1, <2>3, <4>1, <4>2
    <3>5. k \in 1..Len(v) /\ v[k].at = v[x].at
      BY <1>1, <2>4, <3>2, <3>4
    <3>6. v[k].at < v[x].at /\ v[k].at \in Nat
      BY <3>1, <3>4, <3>5
    <3> QED BY <3>5, <3>6
  <2> QED BY <1>1, <2>3, <2>6, <2>7, <2>8
<1>3. \A n \in 1..Len(u) : n <= Len(v) /\ u[n].at = v[n].at
  BY <1>2
<1> HIDE DEF T
<1>4. Len(u) <= Len(v)
  <2>1. CASE Len(u) = 0
    BY <1>1, <2>1
  <2>2. CASE Len(u) # 0
    <3>1. Len(u) \in 1..Len(u)
      BY <1>1, <2>2
    <3> QED BY <1>3, <3>1
  <2> QED BY <2>1, <2>2
<1>5. ASSUME NEW n \in 1..Len(u)  PROVE PieceOf(u[n], v[n])
  <2>1. PICK m \in 1..Len(v) : PieceOf(u[n], v[m])
    OBVIOUS
  <2>2. n \in 1..Len(v) /\ v[m].at = v[n].at
    BY <1>1, <1>3, <2>1 DEF PieceOf
  <2>3. v[m].at \in Nat /\ v[n].at \in Nat
    BY <2>2
  <2>4. ~ (m < n)
    <3>1. m < n => v[m].at < v[n].at
      BY <2>2
    <3> QED BY <2>2, <2>3, <3>1
  <2>5. ~ (n < m)
    <3>1. n < m => v[n].at < v[m].at
      BY <2>2
    <3> QED BY <2>2, <2>3, <3>1
  <2>6. m = n
    BY <1>1, <2>2, <2>4, <2>5
  <2> QED BY <2>1, <2>6
<1> QED BY <1>4, <1>5 DEF AsFar

(* Of the blocks of c the first m are in f, where they were, the last of   *)
(* them perhaps cut; the others in f are no packets.                       *)
CutAfter(c, f, m) ==
  /\ m <= Len(f.blocks)
  /\ \A i \in 1..(m - 1) : f.blocks[i] = c.blocks[i]
  /\ m > 0 => PieceOf(f.blocks[m], c.blocks[m])
  /\ \A i \in DOMAIN f.blocks : i > m => f.blocks[i].type \notin {"EPB", "SPB"}

Cut(c, f) == \E m \in 0..Len(c.blocks) : CutAfter(c, f, m)

LEMMA CutSelf ==
  ASSUME NEW c \in Image
  PROVE  Cut(c, c)
<1>1. Len(c.blocks) \in Nat /\ DOMAIN c.blocks = 1..Len(c.blocks)
  BY DEF Image
<1>2. CutAfter(c, c, Len(c.blocks))
  BY <1>1 DEF CutAfter, PieceOf
<1> QED BY <1>1, <1>2 DEF Cut

LEMMA CutEmpty ==
  ASSUME NEW c \in Image
  PROVE  Cut(c, EmptyImage)
<1>1. CutAfter(c, EmptyImage, 0)
  BY DEF CutAfter, EmptyImage
<1>2. 0 \in 0..Len(c.blocks)
  BY DEF Image
<1> QED BY <1>1, <1>2 DEF Cut

LEMMA CutEmbed ==
  ASSUME NEW c \in Image, NEW f \in Image, Cut(c, f),
         NEW t \in Table, NEW length \in Nat \ {0}
  PROVE  Cut(c, EmbedParquet(f, t, length))
<1> DEFINE g == EmbedParquet(f, t, length)
           n == Len(f.blocks)
<1>1. Embeds(f, t, length, g)
  BY EmbedFacts
<1> HIDE DEF g
<1>2. /\ n \in Nat /\ DOMAIN f.blocks = 1..n /\ DOMAIN g.blocks = 1..(n + 2)
      /\ Len(g.blocks) = n + 2
      /\ \A i \in 1..n : g.blocks[i] = f.blocks[i]
      /\ g.blocks[n + 1].type = "CUSTOM" /\ g.blocks[n + 2].type = "FOOTER"
  BY <1>1 DEF Embeds
<1>3. PICK m \in 0..Len(c.blocks) : CutAfter(c, f, m)
  BY DEF Cut
<1>4. m \in Nat /\ m <= n
  <2>1. Len(c.blocks) \in Nat
    BY DEF Image
  <2> QED BY <1>3, <2>1 DEF CutAfter
<1> HIDE DEF n
<1>5. \A i \in DOMAIN g.blocks : i \in 1..n \/ i = n + 1 \/ i = n + 2
  BY <1>2
<1>6. \A i \in DOMAIN g.blocks : i > m => g.blocks[i].type \notin {"EPB", "SPB"}
  BY <1>2, <1>3, <1>5 DEF CutAfter
<1>7. \A i \in 1..(m - 1) : g.blocks[i] = c.blocks[i]
  BY <1>2, <1>3, <1>4 DEF CutAfter
<1>8. m > 0 => PieceOf(g.blocks[m], c.blocks[m])
  BY <1>2, <1>3, <1>4 DEF CutAfter
<1>9. CutAfter(c, g, m)
  BY <1>2, <1>4, <1>6, <1>7, <1>8 DEF CutAfter
<1> QED BY <1>3, <1>9 DEF Cut, g

LEMMA CutTorn ==
  ASSUME NEW c \in Image, NEW f \in Image, Cut(c, f),
         NEW cuts \in SUBSET Nat, NEW g \in TornImages(f, cuts)
  PROVE  Cut(c, g)
<1>1. ASSUME NEW k \in DOMAIN f.blocks, NEW h \in Nat, g = TornAfter(f, k, h)
      PROVE  Cut(c, g)
  <2>1. /\ k \in 1..Len(f.blocks) /\ DOMAIN f.blocks = 1..Len(f.blocks)
        /\ DOMAIN g.blocks = 1..k /\ Len(g.blocks) = k
        /\ \A i \in 1..(k - 1) : g.blocks[i] = f.blocks[i]
        /\ g.blocks[k].at = f.blocks[k].at /\ g.blocks[k].type = f.blocks[k].type
        /\ g.blocks[k].len = f.blocks[k].len /\ g.blocks[k].body = f.blocks[k].body
    BY <1>1, TornFacts
  <2>2. PICK m \in 0..Len(c.blocks) : CutAfter(c, f, m)
    BY DEF Cut
  <2>3. Len(c.blocks) \in Nat /\ Len(f.blocks) \in Nat /\ m \in Nat /\ k \in Nat
    <3>1. Len(c.blocks) \in Nat /\ Len(f.blocks) \in Nat
      BY DEF Image
    <3> QED BY <2>1, <2>2, <3>1
  <2>4. CASE k <= m
    <3>1. \A i \in 1..(k - 1) : g.blocks[i] = c.blocks[i]
      BY <2>1, <2>2, <2>3, <2>4 DEF CutAfter
    <3>2. PieceOf(f.blocks[k], c.blocks[k])
      BY <2>1, <2>2, <2>3, <2>4 DEF CutAfter, PieceOf
    <3>3. PieceOf(g.blocks[k], c.blocks[k])
      BY <2>1, <3>2 DEF PieceOf
    <3>4. CutAfter(c, g, k)
      BY <2>1, <2>3, <3>1, <3>3 DEF CutAfter
    <3> QED BY <2>1, <2>3, <2>4, <3>4 DEF Cut
  <2>5. CASE ~ (k <= m)
    <3>1. \A i \in 1..(m - 1) : g.blocks[i] = c.blocks[i]
      BY <2>1, <2>2, <2>3, <2>5 DEF CutAfter
    <3>2. m > 0 => PieceOf(g.blocks[m], c.blocks[m])
      BY <2>1, <2>2, <2>3, <2>5 DEF CutAfter
    <3>3. \A i \in DOMAIN g.blocks : i \in DOMAIN f.blocks /\ g.blocks[i].type = f.blocks[i].type
      BY <2>1, <2>3
    <3>4. CutAfter(c, g, m)
      BY <2>1, <2>2, <2>3, <2>5, <3>1, <3>2, <3>3 DEF CutAfter
    <3> QED BY <2>2, <3>4 DEF Cut
  <2> QED BY <2>4, <2>5
<1> QED BY <1>1, CutEmpty, TornCases

(* The first blocks of a capture are a capture.                            *)
LEMMA FirstBlocks ==
  ASSUME NEW c \in Image, Chained(c), NEW m \in 1..Len(c.blocks)
  PROVE  \E d \in Image : /\ Chained(d)
                          /\ Len(d.blocks) = m - 1 /\ DOMAIN d.blocks = 1..(m - 1)
                          /\ \A i \in 1..(m - 1) : d.blocks[i] = c.blocks[i]
<1> DEFINE s == SubSeq(c.blocks, 1, m - 1)
           d == [size |-> c.blocks[m].at, blocks |-> s]
<1>1. /\ c.blocks \in Seq(Block) /\ Len(c.blocks) \in Nat /\ m \in Nat
      /\ DOMAIN c.blocks = 1..Len(c.blocks)
  BY DEF Image
<1>2. /\ s \in Seq(Block) /\ Len(s) = m - 1 /\ DOMAIN s = 1..(m - 1)
      /\ \A i \in 1..(m - 1) : s[i] = c.blocks[i]
  BY <1>1
<1>3. c.blocks[m].at \in Nat
  BY <1>1, ImageNumbers
<1> HIDE DEF s
<1>4. d \in Image /\ d.blocks = s /\ d.size = c.blocks[m].at
  BY <1>2, <1>3 DEF Image
<1> HIDE DEF d
<1>5. ASSUME NEW i \in DOMAIN d.blocks
      PROVE  /\ d.blocks[i].held = d.blocks[i].len /\ d.blocks[i].len >= 12
             /\ d.blocks[i].at = IF i = 1 THEN 0 ELSE d.blocks[i - 1].at + d.blocks[i - 1].len
             /\ i = Len(d.blocks) => d.size = d.blocks[i].at + d.blocks[i].len
  <2>1. i \in 1..(m - 1) /\ i \in DOMAIN c.blocks /\ d.blocks[i] = c.blocks[i]
    BY <1>1, <1>2, <1>4
  <2>2. i # 1 => i - 1 \in 1..(m - 1) /\ d.blocks[i - 1] = c.blocks[i - 1]
    BY <1>1, <1>2, <1>4, <2>1
  <2>3. i = m - 1 => c.blocks[m].at = c.blocks[i].at + c.blocks[i].len
    <3>1. m # 1 => c.blocks[m].at = c.blocks[m - 1].at + c.blocks[m - 1].len
      BY <1>1 DEF Chained
    <3> QED BY <1>1, <2>1, <3>1
  <2> QED BY <1>2, <1>4, <2>1, <2>2, <2>3 DEF Chained
<1>6. d.blocks = <<>> => d.size = 0
  <2>1. d.blocks = <<>> => m = 1
    BY <1>1, <1>2, <1>4
  <2>2. c.blocks[1].at = 0 \/ m # 1
    BY <1>1 DEF Chained
  <2> QED BY <1>4, <2>1, <2>2
<1>7. Chained(d)
  BY <1>5, <1>6 DEF Chained
<1> QED BY <1>2, <1>4, <1>7

(* A reader of such a file finds the first packets of the capture.         *)
LEMMA CutPackets ==
  ASSUME NEW c \in Image, InOrder(c), c.blocks = <<>> \/ Chained(c),
         NEW f \in Image, InOrder(f), Cut(c, f)
  PROVE  AsFar(PacketsOf(f), PacketsOf(c))
<1> DEFINE u == Walk(f, PacketKinds)
           v == Walk(c, PacketKinds)
<1>1. PacketsOf(f) = u /\ PacketsOf(c) = v
  BY ReadIsWalk
<1>2. PICK m \in 0..Len(c.blocks) : CutAfter(c, f, m)
  BY DEF Cut
<1>3. /\ Len(c.blocks) \in Nat /\ Len(f.blocks) \in Nat /\ m \in Nat
      /\ DOMAIN c.blocks = 1..Len(c.blocks) /\ DOMAIN f.blocks = 1..Len(f.blocks)
      /\ 0 \in 0..c.size /\ 0 \in 0..f.size
  <2>1. Len(c.blocks) \in Nat /\ Len(f.blocks) \in Nat
    BY DEF Image
  <2> QED BY <1>2, <2>1 DEF Image
<1>4. Collected(f, PacketKinds, 0, u) /\ Collected(c, PacketKinds, 0, v)
  BY <1>3, WalkCollects DEF Walk
<1>5. /\ \A n \in 1..Len(u) : \E i \in DOMAIN f.blocks : u[n] = f.blocks[i] /\ f.blocks[i] \in PacketKinds
      /\ \A n \in 1..Len(v) : \E i \in DOMAIN c.blocks : v[n] = c.blocks[i] /\ c.blocks[i] \in PacketKinds
  BY WalkBlocks
<1> HIDE DEF u, v
<1>6. ASSUME NEW i \in DOMAIN f.blocks, f.blocks[i] \in PacketKinds
      PROVE  i \in 1..m /\ PieceOf(f.blocks[i], c.blocks[i]) /\ c.blocks[i] \in PacketKinds
  <2>1. i <= m
    BY <1>2, <1>3, <1>6 DEF CutAfter, PacketKinds
  <2>2. PieceOf(f.blocks[i], c.blocks[i])
    <3>1. CASE i = m
      BY <1>2, <1>3, <3>1 DEF CutAfter
    <3>2. CASE i # m
      <4>1. i \in 1..(m - 1)
        BY <1>3, <2>1, <3>2
      <4> QED BY <1>2, <4>1 DEF CutAfter, PieceOf
    <3> QED BY <3>1, <3>2
  <2>3. c.blocks[i] \in Block
    BY <1>3, <2>1, ImageNumbers
  <2> QED BY <1>3, <1>6, <2>1, <2>2, <2>3 DEF PieceOf, PacketKinds
<1>7. CASE c.blocks = <<>>
  <2>1. m = 0
    BY <1>2, <1>7
  <2>2. \A n \in 1..Len(u) : FALSE
    BY <1>5, <1>6, <2>1
  <2>3. Len(u) \in Nat /\ Len(v) \in Nat
    BY <1>4 DEF Collected
  <2>4. Len(u) = 0
    BY <2>2, <2>3
  <2> QED BY <1>1, <2>3, <2>4 DEF AsFar
<1>8. CASE Chained(c)
  <2>1. Heads(c, c)
    BY <1>3 DEF Heads
  <2>2. ASSUME NEW i \in DOMAIN c.blocks, c.blocks[i] \in PacketKinds
        PROVE  \E n \in 1..Len(v) : v[n] = c.blocks[i]
    BY <1>8, <2>1, <2>2, WalkReaches DEF v
  <2>3. ASSUME NEW i \in DOMAIN c.blocks, i < m, c.blocks[i] \in PacketKinds
        PROVE  \E n \in 1..Len(u) : u[n] = c.blocks[i]
    <3>1. m \in 1..Len(c.blocks)
      BY <1>2, <1>3, <2>3
    <3>2. PICK d \in Image : /\ Chained(d)
                             /\ Len(d.blocks) = m - 1 /\ DOMAIN d.blocks = 1..(m - 1)
                             /\ \A k \in 1..(m - 1) : d.blocks[k] = c.blocks[k]
      BY <1>8, <3>1, FirstBlocks
    <3>3. Heads(d, f)
      <4>1. m - 1 <= Len(f.blocks) /\ \A k \in 1..(m - 1) : f.blocks[k] = c.blocks[k]
        BY <1>2, <1>3 DEF CutAfter
      <4> QED BY <3>2, <4>1 DEF Heads
    <3>4. i \in DOMAIN d.blocks /\ d.blocks[i] = c.blocks[i]
      BY <1>3, <2>3, <3>2
    <3>5. \E n \in 1..Len(u) : u[n] = d.blocks[i]
      BY <2>3, <3>2, <3>3, <3>4, WalkReaches DEF u
    <3> QED BY <3>4, <3>5
  <2>4. ASSUME NEW n \in 1..Len(u)  PROVE \E k \in 1..Len(v) : PieceOf(u[n], v[k])
    <3>1. PICK i \in DOMAIN f.blocks : u[n] = f.blocks[i] /\ f.blocks[i] \in PacketKinds
      BY <1>5
    <3>2. i \in DOMAIN c.blocks /\ PieceOf(u[n], c.blocks[i]) /\ c.blocks[i] \in PacketKinds
      BY <1>2, <1>3, <1>6, <3>1
    <3> QED BY <2>2, <3>2
  <2>5. ASSUME NEW n \in 1..Len(u), NEW k \in 1..Len(v), v[k].at < u[n].at
        PROVE  \E x \in 1..Len(u) : u[x].at = v[k].at
    <3>1. PICK i \in DOMAIN f.blocks : u[n] = f.blocks[i] /\ f.blocks[i] \in PacketKinds
      BY <1>5
    <3>2. i \in 1..m /\ i \in DOMAIN c.blocks /\ u[n].at = c.blocks[i].at
      BY <1>2, <1>3, <1>6, <3>1 DEF PieceOf
    <3>3. PICK l \in DOMAIN c.blocks : v[k] = c.blocks[l] /\ c.blocks[l] \in PacketKinds
      BY <1>5
    <3>4. c.blocks[i].at \in Nat /\ c.blocks[i].held \in Nat /\ c.blocks[l].at \in Nat
      BY <3>2, <3>3, ImageNumbers
    <3>5. ~ (i < l)
      <4>1. i < l => c.blocks[i].at + c.blocks[i].held <= c.blocks[l].at
        BY <3>2, <3>3 DEF InOrder
      <4>2. c.blocks[l].at < c.blocks[i].at
        BY <2>5, <3>2, <3>3
      <4> QED BY <3>4, <4>1, <4>2
    <3>6. i # l
      BY <2>5, <3>2, <3>3, <3>4
    <3>7. l < m
      BY <1>3, <3>2, <3>3, <3>5, <3>6
    <3> QED BY <2>3, <3>3, <3>7
  <2>6. AsFar(u, v)
    BY <1>4, <2>4, <2>5, FirstOnes DEF Collected
  <2> QED BY <1>1, <2>6
<1> QED BY <1>7, <1>8

(***************************************************************************)
(* What is in the file while calls that do not overlap may stop anywhere.  *)
(***************************************************************************)

(* Every table in f lists the first packets of the capture c.              *)
FirstTables(c, f) ==
  \A i \in DOMAIN f.blocks : f.blocks[i].type = "CUSTOM" => ListsFirst(f.blocks[i].body.table, c)

LEMMA AllAreFirst ==
  ASSUME NEW t \in Table, NEW c \in Image, Lists(t, c)
  PROVE  ListsFirst(t, c)
<1>1. PacketsOf(c) \in Seq(PacketKinds)
  BY ReadIsWalk, WalkBlocks
<1>2. Len(PacketsOf(c)) \in Nat
  BY <1>1
<1> QED BY <1>2 DEF Lists, ListsFirst

LEMMA FirstOfCut ==
  ASSUME NEW t \in Table, NEW f, NEW c, Lists(t, f), AsFar(PacketsOf(f), PacketsOf(c))
  PROVE  ListsFirst(t, c)
<1> DEFINE u == PacketsOf(f)
           v == PacketsOf(c)
<1>1. Len(t) = Len(u) /\ DOMAIN t = 1..Len(t) /\ \A n \in DOMAIN t : IsRow(t[n], n, u[n])
  BY DEF Lists, Table
<1>2. Len(u) <= Len(v) /\ \A n \in 1..Len(u) : PieceOf(u[n], v[n])
  BY DEF AsFar
<1> HIDE DEF u, v
<1>3. ASSUME NEW n \in DOMAIN t  PROVE IsRow(t[n], n, v[n])
  <2>1. IsRow(t[n], n, u[n]) /\ PieceOf(u[n], v[n])
    BY <1>1, <1>2
  <2> QED BY <2>1 DEF IsRow, Describes, DataAt, PieceOf
<1> QED BY <1>1, <1>2, <1>3 DEF ListsFirst, u, v

LEMMA FirstTablesEmbed ==
  ASSUME NEW c, NEW f \in Image, FirstTables(c, f), NEW t \in Table, ListsFirst(t, c),
         NEW length \in Nat \ {0}
  PROVE  FirstTables(c, EmbedParquet(f, t, length))
<1> DEFINE g == EmbedParquet(f, t, length)
           n == Len(f.blocks)
<1>1. Embeds(f, t, length, g)
  BY EmbedFacts
<1> HIDE DEF g
<1>2. /\ n \in Nat /\ DOMAIN f.blocks = 1..n /\ DOMAIN g.blocks = 1..(n + 2)
      /\ \A i \in 1..n : g.blocks[i] = f.blocks[i]
      /\ g.blocks[n + 1].type = "CUSTOM" /\ g.blocks[n + 1].body.table = t
      /\ g.blocks[n + 2].type = "FOOTER"
  BY <1>1 DEF Embeds
<1> HIDE DEF n
<1>3. \A i \in DOMAIN g.blocks : i \in 1..n \/ i = n + 1 \/ i = n + 2
  BY <1>2
<1>4. FirstTables(c, g)
  BY <1>2, <1>3 DEF FirstTables
<1> QED BY <1>4 DEF g

LEMMA FirstTablesTorn ==
  ASSUME NEW c, NEW f \in Image, FirstTables(c, f),
         NEW cuts \in SUBSET Nat, NEW g \in TornImages(f, cuts)
  PROVE  FirstTables(c, g)
<1>1. ASSUME NEW k \in DOMAIN f.blocks, NEW h \in Nat, g = TornAfter(f, k, h)
      PROVE  FirstTables(c, g)
  <2>1. /\ k \in 1..Len(f.blocks) /\ DOMAIN f.blocks = 1..Len(f.blocks)
        /\ DOMAIN g.blocks = 1..k
        /\ \A i \in 1..(k - 1) : g.blocks[i] = f.blocks[i]
        /\ g.blocks[k].type = f.blocks[k].type /\ g.blocks[k].body = f.blocks[k].body
    BY <1>1, TornFacts
  <2>2. Len(f.blocks) \in Nat
    BY DEF Image
  <2>3. \A i \in DOMAIN g.blocks : /\ i \in DOMAIN f.blocks
                                   /\ g.blocks[i].type = f.blocks[i].type
                                   /\ g.blocks[i].body = f.blocks[i].body
    BY <2>1, <2>2
  <2> QED BY <2>3 DEF FirstTables
<1>2. FirstTables(c, EmptyImage)
  BY DEF FirstTables, EmptyImage
<1> QED BY <1>1, <1>2, TornCases

(* f has been made of what was left of c.                                  *)
LeftOf(c, f) == Cut(c, f) /\ FirstTables(c, f)

FirstInv ==
  /\ RightInv
  /\ LeftOf(placed.image, file)
  /\ \A j \in Job : pc[j] \in {"parquet", "open", "write"} => LeftOf(placed.image, image[j])

LEMMA CaptureLeft ==
  ASSUME NEW c \in Captures, Intact(c)
  PROVE  LeftOf(c.image, c.image)
<1>1. c.image \in Image
  BY CaptureTypes DEF OrderedImage
<1>2. ASSUME NEW i \in DOMAIN c.image.blocks, c.image.blocks[i].type = "CUSTOM"
      PROVE  ListsFirst(c.image.blocks[i].body.table, c.image)
  <2>1. c.image.blocks[i] \in Block
    BY <1>1, ImageNumbers
  <2>2. c.image.blocks[i].body.table \in Table
    BY <1>2, <2>1 DEF Block, BlockOf
  <2> QED BY <1>1, <1>2, <2>2, AllAreFirst DEF Intact
<1> QED BY <1>1, <1>2, CutSelf DEF LeftOf, FirstTables

LEMMA FirstInvInit ==
  ASSUME \A c \in Captures : Linked(c) /\ Intact(c) /\ RightlyIndexed(c.image), Init
  PROVE  FirstInv
<1>1. \A j \in Job : pc[j] = "idle"
  BY DEF Init
<1>2. LeftOf(placed.image, file)
  BY CaptureLeft DEF Init
<1> QED BY <1>1, <1>2, RightInvInit DEF FirstInv

LEMMA FirstInvStep ==
  ASSUME \A c \in Captures : Linked(c) /\ Intact(c) /\ RightlyIndexed(c.image),
         FirstInv, Alone', [Next]_vars
  PROVE  FirstInv'
<1> USE DEF Goto
<1>1. /\ RightInv /\ SerialInv /\ TypeInv
      /\ placed \in Captures /\ Intact(placed)
      /\ placed.image \in Image /\ InOrder(placed.image)
      /\ placed.image.blocks = <<>> \/ Chained(placed.image)
      /\ LeftOf(placed.image, file)
      /\ \A j \in Job : ListInv(j) /\ CallInv(j)
      /\ DOMAIN pc = Job /\ DOMAIN image = Job
      /\ \A j \in Job : image[j] \in OrderedImage /\ image[j] \in Image
      /\ Tidy
  <2>1. placed \in Captures /\ Intact(placed)
    BY DEF FirstInv, RightInv, SerialInv, TypeInv
  <2>2. placed.image.blocks = <<>> \/ Chained(placed.image)
    BY <2>1, IndexerAssumption DEF Intact
  <2> QED BY <2>1, <2>2, CaptureTypes
          DEF FirstInv, RightInv, SerialInv, TypeInv, Tidy, OrderedImage
<1>2. RightInv'
  BY <1>1, RightInvStep
<1>3. ASSUME NEW j \in Job, NEW step \in Steps \ {"parquet", "open", "write"},
             pc' = [pc EXCEPT ![j] = step], UNCHANGED <<placed, image>>,
             LeftOf(placed.image, file')
      PROVE  FirstInv'
  <2>1. \A k \in Job : pc'[k] \in {"parquet", "open", "write"} =>
          pc[k] \in {"parquet", "open", "write"}
    BY <1>1, <1>3
  <2> QED BY <1>2, <1>3, <2>1 DEF FirstInv
<1>4. ASSUME NEW j \in Job, EnsurePlainCapture(j) \/ FetchPacketFeaturesFromCapture(j) \/ Scan(j)
      PROVE  FirstInv'
  <2>1. /\ UNCHANGED <<placed, file, image>>
        /\ \E step \in {"failed", "fetch", "scan", "meta"} : pc' = [pc EXCEPT ![j] = step]
    BY <1>4 DEF EnsurePlainCapture, FetchPacketFeaturesFromCapture, Scan, world, local
  <2> QED BY <1>1, <1>3, <2>1 DEF Steps, Running, Ended
<1>5. ASSUME NEW j \in Job, WriteMetadata(j) \/ Remove(j)  PROVE FirstInv'
  <2>1. /\ UNCHANGED <<placed, file, image>>
        /\ \E step \in {"read", "done"} : pc' = [pc EXCEPT ![j] = step]
    BY <1>5 DEF WriteMetadata, Remove, world, local
  <2> QED BY <1>1, <1>3, <2>1 DEF Steps, Running, Ended
<1>6. ASSUME NEW j \in Job, UNCHANGED <<placed, file>>, NEW g, LeftOf(placed.image, g),
             image' = [image EXCEPT ![j] = g],
             NEW step, pc' = [pc EXCEPT ![j] = step]
      PROVE  FirstInv'
  <2>1. image'[j] = g /\ \A k \in Job : k # j => image'[k] = image[k] /\ pc'[k] = pc[k]
    BY <1>1, <1>6
  <2>2. ASSUME NEW k \in Job, pc'[k] \in {"parquet", "open", "write"}
        PROVE  LeftOf(placed.image, image'[k])
    BY <1>6, <2>1, <2>2 DEF FirstInv
  <2> QED BY <1>1, <1>2, <1>6, <2>2 DEF FirstInv
<1>7. ASSUME NEW j \in Job, ReadCapture(j)  PROVE FirstInv'
  <2>1. UNCHANGED <<placed, file>>
    BY <1>7 DEF ReadCapture, world
  <2>2. CASE image' = [image EXCEPT ![j] = file] /\ pc' = [pc EXCEPT ![j] = "parquet"]
    BY <1>1, <1>6, <2>1, <2>2
  <2>3. CASE image' = image /\ pc' = [pc EXCEPT ![j] = "failed"]
    BY <1>1, <1>3, <2>1, <2>3 DEF Steps, Ended
  <2> QED BY <1>7, <2>2, <2>3 DEF ReadCapture
<1>8. ASSUME NEW j \in Job, ReadParquet(j)  PROVE FirstInv'
  <2>1. pc[j] = "parquet" /\ UNCHANGED <<placed, file>>
    BY <1>8 DEF ReadParquet, world
  <2>2. CASE image' = image /\ pc' = [pc EXCEPT ![j] = "failed"]
    BY <1>1, <1>3, <2>1, <2>2 DEF Steps, Ended
  <2>3. ASSUME NEW p \in temp, pc' = [pc EXCEPT ![j] = "open"],
               image' = [image EXCEPT ![j] = EmbedParquet(image[j], p.table, p.length)]
        PROVE  FirstInv'
    <3>1. p.table \in Table /\ p.length \in Nat \ {0}
      BY <1>1, IndexerAssumption DEF TypeInv
    <3>2. Lists(p.table, image[j])
      BY <1>1, <2>1 DEF ListInv
    <3>3. LeftOf(placed.image, image[j])
      BY <2>1 DEF FirstInv
    <3>4. AsFar(PacketsOf(image[j]), PacketsOf(placed.image))
      BY <1>1, <3>3, CutPackets DEF LeftOf, OrderedImage
    <3>5. ListsFirst(p.table, placed.image)
      BY <3>1, <3>2, <3>4, FirstOfCut
    <3>6. LeftOf(placed.image, EmbedParquet(image[j], p.table, p.length))
      BY <1>1, <3>1, <3>3, <3>5, CutEmbed, FirstTablesEmbed DEF LeftOf
    <3> QED BY <1>6, <2>1, <2>3, <3>6
  <2> QED BY <1>8, <2>2, <2>3 DEF ReadParquet
<1>9. ASSUME NEW j \in Job, UNCHANGED <<placed, image>>, LeftOf(placed.image, file'),
             pc[j] \in {"parquet", "open", "write"}, NEW step, pc' = [pc EXCEPT ![j] = step]
      PROVE  FirstInv'
  <2>1. \A k \in Job : pc'[k] \in {"parquet", "open", "write"} =>
          pc[k] \in {"parquet", "open", "write"}
    BY <1>1, <1>9
  <2> QED BY <1>2, <1>9, <2>1 DEF FirstInv
<1>10. ASSUME NEW j \in Job, OpenForWrite(j)  PROVE FirstInv'
  <2>1. /\ pc[j] = "open" /\ UNCHANGED <<placed, image>> /\ file' = EmptyImage
        /\ pc' = [pc EXCEPT ![j] = "write"]
    BY <1>10 DEF OpenForWrite, world, local
  <2>2. LeftOf(placed.image, EmptyImage)
    BY <1>1, CutEmpty DEF LeftOf, FirstTables, EmptyImage
  <2> QED BY <1>9, <2>1, <2>2
<1>11. ASSUME NEW j \in Job, WritePart(j)  PROVE FirstInv'
  <2>1. /\ pc[j] = "write" /\ UNCHANGED <<placed, image, pc>>
    BY <1>11 DEF WritePart, world
  <2>2. file' \in TornImages(image[j], TornSizes)
    BY <1>1, <1>2, <2>1 DEF RightInv, SerialInv, Tidy
  <2>3. LeftOf(placed.image, image[j])
    BY <2>1 DEF FirstInv
  <2>4. LeftOf(placed.image, file')
    BY <1>1, <2>2, <2>3, IndexerAssumption, CutTorn, FirstTablesTorn DEF LeftOf
  <2> QED BY <1>2, <2>1, <2>4 DEF FirstInv
<1>12. ASSUME NEW j \in Job, WriteFile(j)  PROVE FirstInv'
  <2>1. /\ pc[j] = "write" /\ UNCHANGED <<placed, image>>
        /\ file' = Spliced(file, written[j], image[j]) \/ file' = file
        /\ pc' = [pc EXCEPT ![j] = "remove"]
    BY <1>12 DEF WriteFile, Closed, world
  <2>2. file = written[j]
    BY <1>1, <2>1 DEF Tidy
  <2>3. file' = image[j] \/ file' = file
    BY <2>1, <2>2, SplicedAlone
  <2>4. LeftOf(placed.image, image[j])
    BY <2>1 DEF FirstInv
  <2>5. LeftOf(placed.image, file')
    BY <1>1, <2>3, <2>4
  <2> QED BY <1>9, <2>1, <2>5
<1>13. ASSUME NEW j \in Job, Fail(j)  PROVE FirstInv'
  <2>1. UNCHANGED <<placed, image, file>> /\ pc' = [pc EXCEPT ![j] = "failed"]
    BY <1>13 DEF Fail, Closed, world
  <2> QED BY <1>1, <1>3, <2>1 DEF Steps, Ended
<1>14. CASE Replace
  <2>1. /\ \A k \in Job : pc[k] \notin Running
        /\ placed' \in Captures /\ file' = placed'.image /\ pc' = pc
    BY <1>14 DEF Replace
  <2>2. LeftOf(placed'.image, file')
    BY <2>1, CaptureLeft
  <2>3. \A k \in Job : pc'[k] \notin {"parquet", "open", "write"}
    BY <2>1 DEF Running
  <2> QED BY <1>2, <2>2, <2>3 DEF FirstInv
<1>15. CASE UNCHANGED vars
  <2>1. UNCHANGED <<placed, file, pc, image>>
    BY <1>15 DEF vars, world, local
  <2> QED BY <1>2, <2>1 DEF FirstInv
<1> QED BY <1>4, <1>5, <1>7, <1>8, <1>10, <1>11, <1>12, <1>13, <1>14, <1>15
        DEF Next, EmbedPqcapIndex

(***************************************************************************)
(* What a query may meet in the file, as long as calls have not both       *)
(* overlapped and stopped early.                                           *)
(***************************************************************************)

(* t is an index of the capture c, or of what a call that stopped left.    *)
Tells(t, c) ==
  /\ t \in Table
  /\ ListsFirst(t, c.image)
  /\ faults = 0 => Lists(t, c.image)

Told(c, f) ==
  /\ f \in Image
  /\ \A i \in DOMAIN f.blocks : f.blocks[i].type = "CUSTOM" => Tells(f.blocks[i].body.table, c)

FileInv ==
  /\ faults = 0 => OverlapInv
  /\ overlapped \in BOOLEAN
  /\ ~ overlapped => FirstInv

(* What has stopped stays so.                                              *)
LEMMA FaultsGrow ==
  ASSUME TypeInv, [Next]_vars
  PROVE  faults' = 0 => faults = 0
<1>1. ASSUME NEW j \in Job, EmbedPqcapIndex(j)  PROVE faults' = faults \/ faults' = faults + 1
  BY <1>1 DEF EmbedPqcapIndex, EnsurePlainCapture, FetchPacketFeaturesFromCapture, Scan,
              WriteMetadata, ReadCapture, ReadParquet, OpenForWrite, WritePart, WriteFile, Remove
<1>2. faults' = faults \/ faults' = faults + 1
  BY <1>1 DEF Next, Fail, Replace, vars
<1>3. faults \in Nat
  BY IndexerAssumption DEF TypeInv
<1> QED BY <1>2, <1>3

LEMMA WholeTold ==
  ASSUME TypeInv, FileInv, Orderly, NEW c, c = placed
  PROVE  Told(c, file)
<1>1. file \in Image /\ c.image \in Image
  BY CaptureTypes DEF TypeInv, OrderedImage
<1>2. ASSUME NEW i \in DOMAIN file.blocks, file.blocks[i].type = "CUSTOM"
      PROVE  Tells(file.blocks[i].body.table, c)
  <2> DEFINE t == file.blocks[i].body.table
  <2>1. t \in Table
    <3>1. file.blocks[i] \in Block
      BY <1>1, ImageNumbers
    <3> QED BY <1>2, <3>1 DEF Block, BlockOf
  <2>2. faults = 0 => Lists(t, c.image)
    BY <1>2, CleanTables DEF FileInv, OverlapInv, Orderly
  <2>3. ~ overlapped => ListsFirst(t, c.image)
    BY <1>2 DEF FileInv, FirstInv, LeftOf, FirstTables
  <2>4. ListsFirst(t, c.image)
    BY <1>1, <2>1, <2>2, <2>3, AllAreFirst DEF Orderly
  <2> QED BY <2>1, <2>2, <2>4 DEF Tells
<1> QED BY <1>1, <1>2 DEF Told

(* A table that lists a capture is the only one that does.                 *)
LEMMA OneList ==
  ASSUME NEW t \in Table, NEW u \in Table, NEW f, Lists(t, f), Lists(u, f)
  PROVE  t = u
<1>1. /\ Len(t) = Len(u) /\ Len(t) \in Nat
      /\ DOMAIN t = 1..Len(t) /\ DOMAIN u = 1..Len(u)
  BY DEF Lists, Table
<1>2. ASSUME NEW n \in 1..Len(t)  PROVE t[n] = u[n]
  <2> DEFINE e == t[n]
             d == u[n]
  <2>1. e \in TableEntry /\ d \in TableEntry
    BY <1>1, ElementsOf DEF Table
  <2>2. IsRow(e, n, PacketsOf(f)[n]) /\ IsRow(d, n, PacketsOf(f)[n])
    BY <1>1 DEF Lists
  <2> HIDE DEF e, d
  <2>3. /\ e.frame_number = d.frame_number /\ e.captured_length = d.captured_length
        /\ e.offset = d.offset /\ e.size = d.size /\ e.pkt = d.pkt /\ e.linktype = d.linktype
    BY <2>2 DEF IsRow, Describes
  <2>4. e = d
    BY <2>1, <2>3 DEF TableEntry
  <2> QED BY <2>4 DEF e, d
<1> QED BY <1>1, <1>2 DEF Table

(***************************************************************************)
(* Queries only look: what jobs keep of the file, they find.               *)
(***************************************************************************)

LEMMA QueriesLook ==
  /\ QueryInit => Init
  /\ [QueryNext]_allVars => [Next]_vars
<1>1. QueryInit => Init
  BY DEF QueryInit
<1>2. ASSUME [QueryNext]_allVars  PROVE [Next]_vars
  <2>1. ASSUME NEW q \in Query, QueryStep(q)  PROVE UNCHANGED vars
    BY <2>1 DEF QueryStep, ReplacementScan, DetectCaptureFormat, OpenPackets, ReadPacket,
              PqcapOffsetSize,
                ParsePqcapMetadataLocation, OpenSubFile, ReadParquetMeta, ReadParquetRows, Execute
  <2>2. JobStep => Next
    BY DEF JobStep, Next
  <2>3. ReplacePath => Next
    BY DEF ReplacePath, Next
  <2>4. UNCHANGED allVars => UNCHANGED vars
    BY DEF allVars
  <2> QED BY <1>2, <2>1, <2>2, <2>3, <2>4 DEF QueryNext
<1> QED BY <1>1, <1>2

LEMMA AtMostOne ==
  ASSUME NEW S, IsFiniteSet(S), ~ (Cardinality(S) > 1), NEW x \in S, NEW y \in S
  PROVE  x = y
<1>1. SUFFICES ASSUME x # y  PROVE FALSE
  OBVIOUS
<1>2. IsFiniteSet({x}) /\ Cardinality({x}) = 1
  BY FS_Singleton
<1>3. Cardinality({x} \cup {y}) = 2
  BY <1>1, <1>2, FS_AddElement
<1>4. Cardinality({x} \cup {y}) <= Cardinality(S)
  BY FS_Subset
<1>5. Cardinality(S) \in Nat
  BY FS_CardinalityType
<1> QED BY <1>3, <1>4, <1>5

(* Who has overlapped has; as long as nobody has, one job is at work.      *)
LEMMA OverlapStays ==
  ASSUME overlapped \in BOOLEAN, [QueryNext]_allVars
  PROVE  overlapped' \in BOOLEAN /\ (overlapped => overlapped')
<1>1. ASSUME NEW q \in Query, QueryStep(q)  PROVE overlapped' = overlapped
  BY <1>1 DEF QueryStep, ReplacementScan, DetectCaptureFormat, OpenPackets, ReadPacket,
              PqcapOffsetSize, history,
              ParsePqcapMetadataLocation, OpenSubFile, ReadParquetMeta, ReadParquetRows, Execute
<1>2. ReplacePath \/ UNCHANGED allVars => overlapped' = overlapped
  BY DEF ReplacePath, allVars, queryVars, history
<1>3. JobStep => overlapped' = (overlapped \/ Cardinality({ j \in Job : pc'[j] \in Running }) > 1)
  BY DEF JobStep
<1> QED BY <1>1, <1>2, <1>3 DEF QueryNext

LEMMA AloneStays ==
  ASSUME IsFiniteSet(Job), Alone, [QueryNext]_allVars, ~ overlapped'
  PROVE  Alone'
<1>1. CASE JobStep
  <2> DEFINE S == { j \in Job : pc'[j] \in Running }
  <2>1. ~ (Cardinality(S) > 1)
    BY <1>1 DEF JobStep
  <2>2. IsFiniteSet(S)
    BY FS_Subset
  <2>3. ASSUME NEW j \in S, NEW k \in S  PROVE j = k
    <3> HIDE DEF S
    <3> QED BY <2>1, <2>2, AtMostOne
  <2> QED BY <2>3 DEF Alone
<1>2. ASSUME pc' = pc  PROVE Alone'
  BY <1>2 DEF Alone
<1>3. ASSUME NEW q \in Query, QueryStep(q)  PROVE pc' = pc
  BY <1>3 DEF QueryStep, ReplacementScan, DetectCaptureFormat, OpenPackets, ReadPacket,
              PqcapOffsetSize, vars,
              ParsePqcapMetadataLocation, OpenSubFile, ReadParquetMeta, ReadParquetRows, Execute
<1>4. ReplacePath \/ UNCHANGED allVars => pc' = pc
  BY DEF ReplacePath, Replace, allVars, vars
<1> QED BY <1>1, <1>2, <1>3, <1>4 DEF QueryNext

(* While no call has stopped, what one has written is whole; while no two  *)
(* have overlapped, it is made of the capture's first packets.             *)
LEMMA FileInvInit ==
  ASSUME \A c \in Captures : Linked(c) /\ Intact(c) /\ RightlyIndexed(c.image), QueryInit
  PROVE  TypeInv /\ FileInv
BY TypeInvInit, OverlapInvInit, FirstInvInit DEF FileInv, QueryInit

LEMMA FileInvStep ==
  ASSUME IsFiniteSet(Job),
         \A c \in Captures : Linked(c) /\ Intact(c) /\ RightlyIndexed(c.image),
         TypeInv, FileInv, [QueryNext]_allVars
  PROVE  TypeInv' /\ FileInv'
<1>1. [Next]_vars /\ TypeInv'
  BY QueriesLook, TypeInvStep
<1>2. overlapped' \in BOOLEAN /\ (overlapped => overlapped')
  BY OverlapStays DEF FileInv
<1>3. ASSUME faults' = 0  PROVE OverlapInv'
  <2>1. faults = 0
    BY <1>1, <1>3, FaultsGrow
  <2> QED BY <1>1, <1>3, <2>1, OverlapInvStep DEF FileInv
<1>4. ASSUME ~ overlapped'  PROVE FirstInv'
  <2>1. FirstInv /\ Alone
    BY <1>2, <1>4 DEF FileInv, FirstInv, RightInv, SerialInv
  <2>2. Alone'
    BY <1>4, <2>1, AloneStays
  <2> QED BY <1>1, <2>1, <2>2, FirstInvStep
<1> QED BY <1>1, <1>2, <1>3, <1>4 DEF FileInv

(***************************************************************************)
(* The query's side.                                                       *)
(***************************************************************************)
QueryShape ==
  /\ at = [q \in Query |-> at[q]]
  /\ DOMAIN at = Query /\ DOMAIN view = Query /\ DOMAIN size = Query /\ DOMAIN loc = Query
  /\ DOMAIN meta = Query /\ DOMAIN answer = Query /\ DOMAIN reader = Query
  /\ DOMAIN during = Query /\ DOMAIN disturbed = Query

(* The handle of q sees the capture c, or what a job has made of it.       *)
Sees(q, c) ==
  /\ view[q].live => c = placed
  /\ ~ view[q].live => Told(c, view[q].image)

(* From its second open on a query looks at the file of one capture.       *)
AnswerInv(q) ==
  /\ at[q] # "idle" => placed \in during[q]
  /\ at[q] \in {"meta", "rows"} => \E c \in during[q] :
       /\ Sees(q, c)
       /\ at[q] = "rows" => \A t \in meta[q] : Tells(t, c)
  /\ at[q] = "answered" => \E c \in during[q] : \A t \in answer[q] : Tells(t, c)

QueryInv == QueryShape /\ \A q \in Query : AnswerInv(q)

LEMMA QueryInvInit == QueryInit => QueryInv
BY DEF QueryInit, QueryInv, QueryShape, AnswerInv

LEMMA QueryShapeStep ==
  ASSUME QueryShape, [QueryNext]_allVars
  PROVE  QueryShape'
<1>1. ASSUME NEW q \in Query, QueryStep(q)  PROVE QueryShape'
  BY <1>1 DEF QueryShape, QueryStep, ReplacementScan, DetectCaptureFormat, OpenPackets, ReadPacket,
              PqcapOffsetSize,
              ParsePqcapMetadataLocation, OpenSubFile, ReadParquetMeta, ReadParquetRows,
              Execute, Moves, Begins, OpenPath, private, history, ClassicNext, PcapngNext, HandsOut
<1>2. JobStep => QueryShape'
  BY DEF QueryShape, JobStep, private
<1>3. ReplacePath => QueryShape'
  BY DEF QueryShape, ReplacePath
<1>4. UNCHANGED allVars => QueryShape'
  BY DEF QueryShape, allVars, queryVars, private, history
<1> QED BY <1>1, <1>2, <1>3, <1>4 DEF QueryNext

(* A table stays one of the capture, whatever stops later.                 *)
LEMMA TellsStill ==
  ASSUME NEW t, NEW c, Tells(t, c), faults' = 0 => faults = 0
  PROVE  Tells(t, c)'
BY DEF Tells

LEMMA ToldStill ==
  ASSUME NEW c, NEW f, Told(c, f), faults' = 0 => faults = 0
  PROVE  Told(c, f)'
BY TellsStill DEF Told

LEMMA TablesTold ==
  ASSUME TypeInv, FileInv, Orderly, NEW q \in Query, NEW c, Sees(q, c)
  PROVE  \A t \in TablesBehind(q) : Tells(t, c)
<1>1. Told(c, Behind(q))
  BY WholeTold DEF Sees, Behind
<1> QED BY <1>1 DEF TablesBehind, TablesAt, Told

(* A step of one query, which leaves the file and other queries alone.     *)
LEMMA StepOfQuery ==
  ASSUME QueryInv, QueryShape', NEW q \in Query, NEW step, at' = [at EXCEPT ![q] = step],
         UNCHANGED vars,
         \A k \in Query : k # q => /\ view'[k] = view[k]
                                   /\ meta'[k] = meta[k]
                                   /\ answer'[k] = answer[k]
                                   /\ during'[k] = during[k],
         AnswerInv(q)'
  PROVE  QueryInv'
<1>1. placed' = placed /\ faults' = faults
  BY DEF vars, world
<1>2. ASSUME NEW k \in Query, k # q  PROVE AnswerInv(k)'
  <2>1. /\ at'[k] = at[k] /\ view'[k] = view[k] /\ meta'[k] = meta[k]
        /\ answer'[k] = answer[k] /\ during'[k] = during[k]
    BY <1>2 DEF QueryInv, QueryShape
  <2>2. AnswerInv(k)
    BY DEF QueryInv
  <2> QED BY <1>1, <2>1, <2>2 DEF AnswerInv, Sees, Told, Tells
<1> QED BY <1>2 DEF QueryInv

(* A step of the world: handles keep what they see.                        *)
LEMMA AnswerInvWorld ==
  ASSUME QueryInv, NEW q \in Query, UNCHANGED <<at, meta, answer>>,
         during[q] \subseteq during'[q],
         at[q] # "idle" => placed' \in during'[q],
         \A c \in during[q] : Sees(q, c) => Sees(q, c)',
         faults' = 0 => faults = 0
  PROVE  AnswerInv(q)'
<1>1. AnswerInv(q)
  BY DEF QueryInv
<1>2. ASSUME at[q] \in {"meta", "rows"}
      PROVE  \E c \in during'[q] : /\ Sees(q, c)'
                                   /\ at[q] = "rows" => \A t \in meta[q] : Tells(t, c)'
  <2>1. PICK c \in during[q] : /\ Sees(q, c)
                               /\ at[q] = "rows" => \A t \in meta[q] : Tells(t, c)
    BY <1>1, <1>2 DEF AnswerInv
  <2>2. c \in during'[q] /\ Sees(q, c)'
    BY <2>1
  <2>3. at[q] = "rows" => \A t \in meta[q] : Tells(t, c)'
    BY <2>1, TellsStill
  <2> QED BY <2>2, <2>3
<1>3. ASSUME at[q] = "answered"
      PROVE  \E c \in during'[q] : \A t \in answer[q] : Tells(t, c)'
  <2>1. PICK c \in during[q] : \A t \in answer[q] : Tells(t, c)
    BY <1>1, <1>3 DEF AnswerInv
  <2>2. \A t \in answer[q] : Tells(t, c)'
    BY <2>1, TellsStill
  <2> QED BY <2>2
<1> QED BY <1>2, <1>3 DEF AnswerInv

LEMMA QueryInvStep ==
  ASSUME \A c \in Captures : Linked(c) /\ Intact(c) /\ RightlyIndexed(c.image),
         TypeInv, FileInv, Orderly, QueryInv, [QueryNext]_allVars
  PROVE  QueryInv'
<1>1. /\ QueryShape' /\ QueryShape
      /\ DOMAIN at = Query /\ DOMAIN view = Query /\ DOMAIN meta = Query
      /\ DOMAIN answer = Query /\ DOMAIN during = Query
      /\ \A q \in Query : AnswerInv(q)
  BY QueryShapeStep DEF QueryInv, QueryShape
<1>2. faults' = 0 => faults = 0
  BY QueriesLook, FaultsGrow
<1> USE DEF Moves
<1>3. ASSUME NEW q \in Query, NEW suffix \in Suffix, ReplacementScan(q, suffix)
      PROVE  QueryInv'
  <2>1. /\ at' = [at EXCEPT ![q] = Route(suffix)] /\ during' = [during EXCEPT ![q] = {placed}]
        /\ UNCHANGED vars /\ UNCHANGED <<view, meta, answer>>
    BY <1>3 DEF ReplacementScan, Begins, private
  <2>2. AnswerInv(q)'
    BY <1>1, <2>1 DEF AnswerInv, Route, vars, world
  <2> QED BY <1>1, <2>1, <2>2, StepOfQuery
<1>4. ASSUME NEW q \in Query, DetectCaptureFormat(q) \/ ReadPacket(q)  PROVE QueryInv'
  <2>1. /\ at[q] \in {"packets", "reading"} /\ UNCHANGED vars
        /\ UNCHANGED <<view, meta, answer, during>> /\ placed' = placed
    BY <1>4 DEF DetectCaptureFormat, ReadPacket, private, history, vars, world
  <2>2. PICK step \in {"failed", "classic", "pcapng", "reading", "done"} :
          at' = [at EXCEPT ![q] = step]
    <3>1. CASE at' = at
      <4>1. DetectCaptureFormat(q) => at[q] = "packets" /\ at'[q] # "packets"
        BY <1>1 DEF DetectCaptureFormat
      <4>2. at[q] = "reading"
        BY <1>4, <3>1, <4>1 DEF ReadPacket
      <4>3. at' = [at EXCEPT ![q] = "reading"]
        BY <3>1, <4>2 DEF QueryInv, QueryShape
      <4> QED BY <4>3
    <3>2. CASE at' # at
      BY <1>4, <3>2 DEF DetectCaptureFormat, ReadPacket, ClassicNext, PcapngNext, HandsOut
    <3> QED BY <3>1, <3>2
  <2>3. AnswerInv(q)'
    BY <1>1, <2>1, <2>2 DEF AnswerInv
  <2> QED BY <1>1, <2>1, <2>2, <2>3, StepOfQuery
<1>14. ASSUME NEW q \in Query, OpenPackets(q)  PROVE QueryInv'
  <2>1. /\ at[q] \in {"classic", "pcapng"} /\ UNCHANGED vars
        /\ UNCHANGED <<meta, answer, during>> /\ placed' = placed
    BY <1>14 DEF OpenPackets, history, vars, world
  <2>2. PICK step \in {"failed", "reading"} : at' = [at EXCEPT ![q] = step]
    BY <1>14 DEF OpenPackets
  <2>3. \A k \in Query : k # q => view'[k] = view[k]
    BY <1>1, <1>14 DEF OpenPackets, OpenPath
  <2>4. AnswerInv(q)'
    BY <1>1, <2>1, <2>2 DEF AnswerInv
  <2> QED BY <1>1, <2>1, <2>2, <2>3, <2>4, StepOfQuery
<1>5. ASSUME NEW q \in Query, PqcapOffsetSize(q)  PROVE QueryInv'
  <2>1. /\ at[q] = "offset" /\ UNCHANGED vars /\ UNCHANGED <<meta, answer, during>>
        /\ placed' = placed
        /\ view' = [view EXCEPT ![q] = [live |-> TRUE, image |-> EmptyImage]]
    BY <1>5 DEF PqcapOffsetSize, OpenPath, vars, world
  <2>2. PICK step \in {"failed", "tail"} : at' = [at EXCEPT ![q] = step]
    BY <1>5 DEF PqcapOffsetSize
  <2>3. AnswerInv(q)'
    BY <1>1, <2>1, <2>2 DEF AnswerInv
  <2> QED BY <1>1, <2>1, <2>2, <2>3, StepOfQuery
<1>6. ASSUME NEW q \in Query, ParsePqcapMetadataLocation(q)  PROVE QueryInv'
  <2>1. /\ at[q] = "tail" /\ UNCHANGED vars /\ UNCHANGED <<view, meta, answer, during>>
        /\ placed' = placed
    BY <1>6 DEF ParsePqcapMetadataLocation, history, vars, world
  <2>2. PICK step \in {"failed", "located"} : at' = [at EXCEPT ![q] = step]
    BY <1>6 DEF ParsePqcapMetadataLocation
  <2>3. AnswerInv(q)'
    BY <1>1, <2>1, <2>2 DEF AnswerInv
  <2> QED BY <1>1, <2>1, <2>2, <2>3, StepOfQuery
<1>7. ASSUME NEW q \in Query, OpenSubFile(q)  PROVE QueryInv'
  <2>1. /\ at[q] = "located" /\ UNCHANGED vars /\ UNCHANGED <<meta, answer, during>>
        /\ placed' = placed /\ at' = [at EXCEPT ![q] = "meta"]
        /\ view' = [view EXCEPT ![q] = [live |-> TRUE, image |-> EmptyImage]]
    BY <1>7 DEF OpenSubFile, OpenPath, history, vars, world
  <2>2. placed \in during[q]
    BY <1>1, <2>1 DEF AnswerInv
  <2>3. Sees(q, placed)'
    BY <1>1, <2>1 DEF Sees
  <2>4. AnswerInv(q)'
    BY <1>1, <2>1, <2>2, <2>3 DEF AnswerInv
  <2> QED BY <1>1, <2>1, <2>4, StepOfQuery
<1>8. ASSUME NEW q \in Query, ReadParquetMeta(q)  PROVE QueryInv'
  <2>1. /\ at[q] = "meta" /\ UNCHANGED vars /\ UNCHANGED <<view, answer, during>>
        /\ placed' = placed /\ faults' = faults
        /\ meta' = [meta EXCEPT ![q] = TablesBehind(q)]
    BY <1>8 DEF ReadParquetMeta, history, vars, world
  <2>2. PICK step \in {"failed", "rows"} : at' = [at EXCEPT ![q] = step]
    BY <1>8 DEF ReadParquetMeta
  <2>3. placed \in during[q]
    BY <1>1, <2>1 DEF AnswerInv
  <2>4. PICK c \in during[q] : Sees(q, c)
    BY <1>1, <2>1 DEF AnswerInv
  <2>5. \A t \in TablesBehind(q) : Tells(t, c)
    BY <2>4, TablesTold
  <2>6. Sees(q, c)' /\ \A t \in meta'[q] : Tells(t, c)'
    BY <1>1, <2>1, <2>4, <2>5 DEF Sees, Told, Tells
  <2>7. AnswerInv(q)'
    BY <1>1, <2>1, <2>2, <2>3, <2>6 DEF AnswerInv
  <2> QED BY <1>1, <2>1, <2>2, <2>7, StepOfQuery
<1>9. ASSUME NEW q \in Query, ReadParquetRows(q)  PROVE QueryInv'
  <2>1. /\ at[q] = "rows" /\ UNCHANGED vars /\ UNCHANGED <<view, meta, during>>
        /\ placed' = placed /\ faults' = faults
    BY <1>9 DEF ReadParquetRows, private, history, vars, world
  <2>2. placed \in during[q]
    BY <1>1, <2>1 DEF AnswerInv
  <2>3. CASE answer' = answer /\ at' = [at EXCEPT ![q] = "failed"]
    <3>1. AnswerInv(q)'
      BY <1>1, <2>1, <2>2, <2>3 DEF AnswerInv
    <3> QED BY <1>1, <2>1, <2>3, <3>1, StepOfQuery
  <2>4. CASE /\ answer' = [answer EXCEPT ![q] = meta[q] \cup TablesBehind(q)]
             /\ at' = [at EXCEPT ![q] = "answered"]
    <3>1. PICK c \in during[q] : Sees(q, c) /\ \A t \in meta[q] : Tells(t, c)
      BY <1>1, <2>1 DEF AnswerInv
    <3>2. \A t \in TablesBehind(q) : Tells(t, c)
      BY <3>1, TablesTold
    <3>3. answer'[q] = meta[q] \cup TablesBehind(q)
      BY <1>1, <2>4
    <3>4. \A t \in answer'[q] : Tells(t, c)'
      BY <2>1, <3>1, <3>2, <3>3, TellsStill
    <3>5. AnswerInv(q)'
      BY <1>1, <2>1, <2>2, <2>4, <3>4 DEF AnswerInv
    <3> QED BY <1>1, <2>1, <2>4, <3>5, StepOfQuery
  <2> QED BY <1>9, <2>3, <2>4 DEF ReadParquetRows
<1>10. ASSUME NEW q \in Query, Execute(q)  PROVE QueryInv'
  <2>1. /\ UNCHANGED vars /\ UNCHANGED <<view, meta, answer>> /\ placed' = placed
        /\ at' = [at EXCEPT ![q] = "located"]
        /\ during' = [during EXCEPT ![q] = {placed}]
    BY <1>10 DEF Execute, Begins, private, vars, world
  <2>2. AnswerInv(q)'
    BY <1>1, <2>1 DEF AnswerInv
  <2> QED BY <1>1, <2>1, <2>2, StepOfQuery
<1>11. ASSUME NEW q \in Query, JobStep \/ UNCHANGED allVars  PROVE AnswerInv(q)'
  <2>1. UNCHANGED <<placed, at, view, meta, answer, during>>
    <3>1. ASSUME NEW j \in Job, EmbedPqcapIndex(j) \/ Fail(j)  PROVE placed' = placed
      BY <3>1 DEF EmbedPqcapIndex, EnsurePlainCapture, FetchPacketFeaturesFromCapture, Scan,
                  WriteMetadata, ReadCapture, ReadParquet, OpenForWrite, WritePart, WriteFile, Remove,
                  Fail, world
    <3> QED BY <1>11, <3>1 DEF JobStep, private, allVars, queryVars, history, vars, world
  <2>2. ASSUME NEW c \in during[q], Sees(q, c)  PROVE Sees(q, c)'
    <3> DEFINE f == view[q].image
    <3>1. ASSUME ~ view[q].live  PROVE Told(c, view[q].image)'
      <4>1. PICK g : g = view[q].image
        OBVIOUS
      <4>2. Told(c, g)
        BY <2>2, <3>1, <4>1 DEF Sees
      <4>3. Told(c, g)'
        BY <1>2, <4>2, ToldStill
      <4> QED BY <2>1, <4>1, <4>3
    <3> QED BY <2>1, <2>2, <3>1 DEF Sees
  <2> QED BY <1>1, <1>2, <2>1, <2>2, AnswerInvWorld DEF AnswerInv
<1>12. ASSUME NEW q \in Query, ReplacePath  PROVE AnswerInv(q)'
  <2>1. /\ UNCHANGED <<at, meta, answer>> /\ faults' = faults
        /\ view'[q] = IF view[q].live THEN [live |-> FALSE, image |-> file] ELSE view[q]
        /\ during'[q] = during[q] \cup {placed'}
    BY <1>12 DEF ReplacePath, Replace
  <2>2. ASSUME NEW c \in during[q], Sees(q, c)  PROVE Sees(q, c)'
    <3>1. CASE view[q].live
      <4>1. Told(c, file)
        BY <2>2, <3>1, WholeTold DEF Sees
      <4>2. PICK g : g = file
        OBVIOUS
      <4>3. Told(c, g)'
        BY <1>2, <4>1, <4>2, ToldStill
      <4>4. ~ view'[q].live /\ view'[q].image = g
        BY <2>1, <3>1, <4>2
      <4> QED BY <4>3, <4>4 DEF Sees
    <3>2. CASE ~ view[q].live
      <4>1. PICK g : g = view[q].image
        OBVIOUS
      <4>2. Told(c, g)
        BY <2>2, <3>2, <4>1 DEF Sees
      <4>3. Told(c, g)'
        BY <1>2, <4>2, ToldStill
      <4>4. ~ view'[q].live /\ view'[q].image = g
        BY <2>1, <3>2, <4>1
      <4> QED BY <4>3, <4>4 DEF Sees
    <3> QED BY <3>1, <3>2
  <2> QED BY <1>1, <1>2, <2>1, <2>2, AnswerInvWorld DEF AnswerInv
<1>13. (JobStep \/ ReplacePath \/ UNCHANGED allVars) => QueryInv'
  BY <1>1, <1>11, <1>12 DEF QueryInv
<1> QED BY <1>3, <1>4, <1>5, <1>6, <1>7, <1>8, <1>9, <1>10, <1>13, <1>14 DEF QueryNext, QueryStep

(* All of it together: while calls have not both overlapped and stopped    *)
(* early, which once it is so stays so.                                    *)
AllInv ==
  /\ TypeInv
  /\ FileInv
  /\ Orderly => QueryInv

LEMMA OrderlyBefore ==
  ASSUME TypeInv, FileInv, [QueryNext]_allVars, Orderly'
  PROVE  Orderly
<1>1. [Next]_vars
  BY QueriesLook
<1>2. ~ clashed
  BY <1>1, ClashedForGood DEF Orderly
<1>3. faults' = 0 => faults = 0
  BY <1>1, FaultsGrow
<1>4. overlapped => overlapped'
  BY OverlapStays DEF FileInv
<1> QED BY <1>2, <1>3, <1>4 DEF Orderly

LEMMA AllInvStep ==
  ASSUME IsFiniteSet(Job),
         \A c \in Captures : Linked(c) /\ Intact(c) /\ RightlyIndexed(c.image),
         AllInv, [QueryNext]_allVars
  PROVE  AllInv'
<1>1. TypeInv' /\ FileInv'
  BY FileInvStep DEF AllInv
<1>2. ASSUME Orderly'  PROVE QueryInv'
  BY <1>2, OrderlyBefore, QueryInvStep DEF AllInv
<1> QED BY <1>1, <1>2 DEF AllInv

LEMMA AllInvKept ==
  ASSUME IsFiniteSet(Job),
         \A c \in Captures : Linked(c) /\ Intact(c) /\ RightlyIndexed(c.image)
  PROVE  QuerySpec => []AllInv
<1>1. QueryInit => AllInv
  BY FileInvInit, QueryInvInit DEF AllInv
<1>2. AllInv /\ [QueryNext]_allVars => AllInv'
  BY AllInvStep
<1> QED BY <1>1, <1>2, PTL DEF QuerySpec

(* A query of the metadata plane answers with one table, and it is one of  *)
(* a capture that was at the path meanwhile (after a job has died while    *)
(* writing: of what it left), for any number of queries, jobs, failures    *)
(* and replacements.                                                       *)
THEOREM AnswersOneIndex ==
  ASSUME IsFiniteSet(Job),
         \A c \in Captures : Linked(c) /\ Intact(c) /\ RightlyIndexed(c.image)
  PROVE  QuerySpec => []AnswerIsOneIndex
<1>1. ASSUME QueryInv, NEW q \in Query, at[q] = "answered"
      PROVE  \E c \in during[q] : \A t \in answer[q] :
               /\ ListsFirst(t, c.image)
               /\ faults = 0 => answer[q] = {t} /\ Lists(t, c.image)
  <2>1. PICK c \in during[q] : \A t \in answer[q] : Tells(t, c)
    BY <1>1 DEF QueryInv, AnswerInv
  <2>2. ASSUME NEW t \in answer[q], faults = 0
        PROVE  answer[q] = {t} /\ Lists(t, c.image)
    <3>1. t \in Table /\ Lists(t, c.image)
      BY <2>1, <2>2 DEF Tells
    <3>2. ASSUME NEW u \in answer[q]  PROVE u = t
      <4>1. u \in Table /\ Lists(u, c.image)
        BY <2>1, <2>2 DEF Tells
      <4> QED BY <3>1, <4>1, OneList
    <3> QED BY <3>1, <3>2
  <2> QED BY <2>1, <2>2 DEF Tells
<1>2. AllInv => AnswerIsOneIndex
  BY <1>1 DEF AllInv, AnswerIsOneIndex
<1> QED BY <1>2, AllInvKept, PTL


(***************************************************************************)
(* Packets, read one by one while calls that do not stop early write the   *)
(* capture anew.                                                           *)
(***************************************************************************)

(* Of what is in f the blocks of c are pieces of them, where they were: a  *)
(* piece that is not whole ends with the file.  The rest is behind c, and  *)
(* no packets.                                                             *)
PartOf(c, f) ==
  \A i \in DOMAIN f.blocks :
    \/ /\ \E k \in DOMAIN c.blocks : PieceOf(f.blocks[i], c.blocks[k])
       /\ \/ f.blocks[i].held = f.blocks[i].len
          \/ f.blocks[i].at + f.blocks[i].len > f.size
    \/ f.blocks[i].type \notin {"EPB", "SPB"} /\ f.blocks[i].at >= c.size

LEMMA MadeIsPart ==
  ASSUME NEW c \in Image, Chained(c), NEW f \in Image, MadeOf(c, f)
  PROVE  PartOf(c, f)
<1>1. /\ DOMAIN c.blocks = 1..Len(c.blocks) /\ DOMAIN f.blocks = 1..Len(f.blocks)
      /\ Len(c.blocks) \in Nat /\ Len(f.blocks) \in Nat
  BY DEF Image
<1>2. ASSUME NEW i \in DOMAIN f.blocks, NEW k \in DOMAIN c.blocks, f.blocks[i] = c.blocks[k]
      PROVE  PieceOf(f.blocks[i], c.blocks[k]) /\ f.blocks[i].held = f.blocks[i].len
  BY <1>2 DEF Chained, PieceOf
<1>3. ASSUME NEW i \in DOMAIN f.blocks, f.blocks[i].type \in {"EPB", "SPB"}
      PROVE  \E k \in DOMAIN c.blocks : f.blocks[i] = c.blocks[k]
  BY <1>3 DEF MadeOf, PacketBlocks
<1>4. ASSUME NEW i \in DOMAIN f.blocks, i <= Len(c.blocks)
      PROVE  i \in DOMAIN c.blocks /\ f.blocks[i] = c.blocks[i]
  BY <1>1, <1>4 DEF MadeOf, Heads
<1>5. ASSUME NEW i \in DOMAIN f.blocks, ~ (i <= Len(c.blocks))
      PROVE  f.blocks[i].at >= c.size
  BY <1>1, <1>5 DEF MadeOf
<1> QED BY <1>2, <1>3, <1>4, <1>5 DEF PartOf

LEMMA TornIsPart ==
  ASSUME NEW c \in Image, NEW f \in OrderedImage, PartOf(c, f),
         NEW cuts \in SUBSET Nat, NEW g \in TornImages(f, cuts)
  PROVE  PartOf(c, g)
<1>1. f \in Image /\ InFile(f) /\ f.size \in Nat
  BY DEF OrderedImage, InOrder, Image
<1>2. ASSUME NEW k \in DOMAIN f.blocks, NEW h \in Nat, h <= f.blocks[k].held, g = TornAfter(f, k, h)
      PROVE  PartOf(c, g)
  <2>1. /\ g.size = f.blocks[k].at + h
        /\ k \in 1..Len(f.blocks) /\ DOMAIN f.blocks = 1..Len(f.blocks)
        /\ DOMAIN g.blocks = 1..k
        /\ \A i \in 1..(k - 1) : g.blocks[i] = f.blocks[i]
        /\ g.blocks[k].at = f.blocks[k].at /\ g.blocks[k].type = f.blocks[k].type
        /\ g.blocks[k].len = f.blocks[k].len /\ g.blocks[k].body = f.blocks[k].body
        /\ g.blocks[k].held = h
    BY <1>1, <1>2, TornFacts
  <2>2. Len(f.blocks) \in Nat
    BY <1>1 DEF Image
  <2>3. /\ f.blocks[k].at \in Nat /\ f.blocks[k].held \in Nat /\ f.blocks[k].len \in Nat
        /\ f.blocks[k].at + f.blocks[k].held <= f.size
    BY <1>1, ImageNumbers DEF InFile
  <2>4. g.size <= f.size
    BY <1>1, <1>2, <2>1, <2>3
  <2>5. ASSUME NEW i \in DOMAIN g.blocks
        PROVE  /\ i \in DOMAIN f.blocks
               /\ g.blocks[i].at = f.blocks[i].at /\ g.blocks[i].type = f.blocks[i].type
               /\ g.blocks[i].len = f.blocks[i].len /\ g.blocks[i].body = f.blocks[i].body
               /\ i # k => g.blocks[i].held = f.blocks[i].held
    <3>1. i \in DOMAIN f.blocks /\ (i = k \/ i \in 1..(k - 1))
      BY <2>1, <2>2
    <3> QED BY <2>1, <3>1
  <2>6. ASSUME NEW i \in DOMAIN g.blocks,
               \E m \in DOMAIN c.blocks : PieceOf(f.blocks[i], c.blocks[m]),
               \/ f.blocks[i].held = f.blocks[i].len
               \/ f.blocks[i].at + f.blocks[i].len > f.size
        PROVE  \/ g.blocks[i].held = g.blocks[i].len
               \/ g.blocks[i].at + g.blocks[i].len > g.size
    <3>1. /\ f.blocks[i].at \in Nat /\ f.blocks[i].len \in Nat
          /\ g.blocks[i].at = f.blocks[i].at /\ g.blocks[i].len = f.blocks[i].len
      BY <1>1, <2>5, ImageNumbers
    <3> DEFINE end == f.blocks[i].at + f.blocks[i].len
    <3>2. end \in Nat /\ g.blocks[i].at + g.blocks[i].len = end
      BY <3>1
    <3>3. f.blocks[i].held = f.blocks[i].len \/ end > f.size
      BY <2>6
    <3>4. g.size \in Nat
      BY <2>1, <2>3
    <3>5. CASE end > f.size
      <4> HIDE DEF end
      <4>1. end > g.size
        BY <1>1, <2>4, <3>2, <3>4, <3>5
      <4> QED BY <3>2, <4>1
    <3>6. CASE f.blocks[i].held = f.blocks[i].len /\ i # k
      BY <2>5, <3>1, <3>6
    <3>7. CASE f.blocks[i].held = f.blocks[i].len /\ i = k
      <4>1. end = f.blocks[k].at + f.blocks[k].held
        BY <3>7
      <4>2. g.size = f.blocks[k].at + h /\ g.blocks[i].held = h
        BY <2>1, <3>7
      <4>3. h = f.blocks[k].held \/ h < f.blocks[k].held
        BY <1>2, <2>3
      <4>4. h = f.blocks[k].held => g.blocks[i].held = g.blocks[i].len
        BY <3>1, <3>7, <4>2
      <4>5. h < f.blocks[k].held => end > g.size
        BY <2>3, <4>1, <4>2
      <4> QED BY <3>2, <4>3, <4>4, <4>5
    <3> QED BY <3>3, <3>5, <3>6, <3>7
  <2> QED BY <2>5, <2>6 DEF PartOf, PieceOf
<1>3. CASE g = EmptyImage
  BY <1>3 DEF PartOf, EmptyImage
<1> QED BY <1>1, <1>2, <1>3, TornCases

LEMMA FileIsPart ==
  ASSUME TypeInv, CleanInv, Intact(placed), ~ placed.classic
  PROVE  PartOf(placed.image, file)
<1>1. /\ placed.image \in Image /\ Chained(placed.image)
      /\ file \in OrderedImage /\ file \in Image
  BY CaptureTypes DEF TypeInv, CleanInv, Tidy, OrderedImage, Intact
<1>2. CASE \A j \in Job : pc[j] # "write"
  BY <1>1, <1>2, MadeIsPart DEF CleanInv, FreeInv
<1>3. ASSUME NEW j \in Job, pc[j] = "write"  PROVE PartOf(placed.image, file)
  <2>1. /\ file \in TornImages(image[j], TornSizes) /\ MadeOf(placed.image, image[j])
        /\ image[j] \in OrderedImage /\ image[j] \in Image
    BY <1>3 DEF CleanInv, Tidy, HeldInv, OrderedImage
  <2>2. PartOf(placed.image, image[j])
    BY <1>1, <2>1, MadeIsPart
  <2> QED BY <1>1, <2>1, <2>2, TornIsPart, IndexerAssumption
<1> QED BY <1>2, <1>3

(* The packets of a whole capture: all of them, in order.                  *)
LEMMA PacketsInOrder ==
  ASSUME NEW c \in Image, InOrder(c), Chained(c)
  PROVE  LET v == PacketsOf(c)
         IN  /\ v \in Seq(PacketKinds)
             /\ \A n \in 1..Len(v) : \E i \in DOMAIN c.blocks : v[n] = c.blocks[i]
             /\ \A n \in 1..Len(v) : v[n].at \in Nat
             /\ \A m, n \in 1..Len(v) : m < n => v[m].at < v[n].at
             /\ \A i \in PacketBlocks(c) : \E n \in 1..Len(v) : v[n] = c.blocks[i]
<1> DEFINE v == Walk(c, PacketKinds)
<1>1. PacketsOf(c) = v
  BY ReadIsWalk
<1>2. 0 \in 0..c.size
  BY DEF Image
<1>3. Collected(c, PacketKinds, 0, v)
  BY <1>2, WalkCollects DEF Walk
<1>4. Heads(c, c)
  BY DEF Heads, Image
<1>5. ASSUME NEW i \in PacketBlocks(c)  PROVE \E n \in 1..Len(v) : v[n] = c.blocks[i]
  <2>1. i \in DOMAIN c.blocks /\ c.blocks[i] \in PacketKinds
    BY ImageNumbers DEF PacketBlocks, PacketKinds
  <2> QED BY <1>4, <2>1, WalkReaches
<1> HIDE DEF v
<1> QED BY <1>1, <1>3, <1>5 DEF Collected

(* What a reader of the capture c has handed out when it is at pos: the    *)
(* first packets, each of them once and whole, and those that are left are *)
(* not behind it.                                                          *)
Handed(got, n, pkt) == got[n] = [pkt |-> pkt, whole |-> TRUE]

Progress(c, pos, got) ==
  /\ pos \in Nat
  /\ got \in Seq([pkt : Packet, whole : BOOLEAN])
  /\ c.classic =>
       /\ Len(got) <= Len(c.records)
       /\ \A n \in 1..Len(got) : Handed(got, n, c.records[n].pkt)
  /\ ~ c.classic =>
       LET v == PacketsOf(c.image)
       IN  /\ Len(got) <= Len(v)
           /\ \A n \in 1..Len(got) : Handed(got, n, v[n].body.pkt) /\ v[n].at < pos
           /\ \A n \in 1..Len(v) : n > Len(got) => v[n].at >= pos

LEMMA ProgressBegins == ASSUME NEW c \in Captures, Intact(c)  PROVE Progress(c, 0, <<>>)
<1>1. c.records \in Seq(Record) /\ c.image \in Image /\ InOrder(c.image)
  BY CaptureTypes DEF OrderedImage
<1>2. ~ c.classic => LET v == PacketsOf(c.image)
                     IN  /\ v \in Seq(PacketKinds)
                         /\ \A n \in 1..Len(v) : v[n].at \in Nat
  BY <1>1, PacketsInOrder DEF Intact
<1>3. ~ c.classic => LET v == PacketsOf(c.image)
                     IN  Len(v) \in Nat /\ \A n \in 1..Len(v) : v[n].at >= 0
  BY <1>2
<1>4. Len(c.records) \in Nat
  BY <1>1
<1> QED BY <1>3, <1>4 DEF Progress

(* A reader's next packet is the capture's next.                           *)
LEMMA NextPacket ==
  ASSUME NEW c \in Image, InOrder(c), Chained(c), NEW f \in Image, PartOf(c, f),
         NEW pos \in Nat, ~ ReaderStops(f, pos)
  PROVE  LET b == HeaderAt(f, pos)
             v == PacketsOf(c)
         IN  /\ b.len \in Nat /\ b.len >= 12
             /\ \A n \in 1..Len(v) : v[n].at > pos => v[n].at >= pos + b.len
             /\ b.type \notin {"EPB", "SPB"} => \A n \in 1..Len(v) : v[n].at # pos
             /\ b.type \in {"EPB", "SPB"} =>
                  /\ b.held = b.len
                  /\ \E n \in 1..Len(v) : v[n].at = pos /\ v[n].body = b.body
<1> DEFINE b == HeaderAt(f, pos)
           v == PacketsOf(c)
<1>1. b.len >= 12 /\ ~ (pos + b.len > f.size)
  <2>1. ~ (b.len < 12) /\ ~ (pos + b.len > f.size)
    BY DEF ReaderStops
  <2>2. b.len \in Nat
    <3>1. CASE \E i \in DOMAIN f.blocks : f.blocks[i].at = pos /\ f.blocks[i].held >= 8
      <4>1. \E i \in DOMAIN f.blocks : b = f.blocks[i]
        BY <3>1 DEF HeaderAt
      <4> QED BY <4>1, ImageNumbers
    <3>2. CASE ~ \E i \in DOMAIN f.blocks : f.blocks[i].at = pos /\ f.blocks[i].held >= 8
      BY <3>2 DEF HeaderAt, OpaqueHeader
    <3> QED BY <3>1, <3>2
  <2> QED BY <2>1, <2>2
<1>2. PICK i \in DOMAIN f.blocks : b = f.blocks[i] /\ f.blocks[i].at = pos
  <2>1. \E i \in DOMAIN f.blocks : f.blocks[i].at = pos /\ f.blocks[i].held >= 8
    BY <1>1 DEF HeaderAt, OpaqueHeader
  <2> QED BY <2>1 DEF HeaderAt
<1>3. b.at = pos /\ b.len \in Nat /\ b.held \in Nat /\ f.size \in Nat
  BY <1>2, ImageNumbers DEF Image
<1>4. /\ v \in Seq(PacketKinds)
      /\ \A n \in 1..Len(v) : \E k \in DOMAIN c.blocks : v[n] = c.blocks[k]
      /\ \A n \in 1..Len(v) : v[n].at \in Nat
      /\ \A k \in PacketBlocks(c) : \E n \in 1..Len(v) : v[n] = c.blocks[k]
  BY PacketsInOrder
<1> HIDE DEF b, v
<1>5. ASSUME NEW n \in 1..Len(v)  PROVE v[n].type \in {"EPB", "SPB"}
  <2>1. v[n] \in PacketKinds
    BY <1>4, ElementsOf
  <2> QED BY <2>1 DEF PacketKinds
<1>6. \A k \in DOMAIN c.blocks :
        /\ c.blocks[k].at \in Nat /\ c.blocks[k].len \in Nat /\ c.blocks[k].len >= 12
        /\ c.blocks[k].held = c.blocks[k].len
        /\ c.blocks[k].at + c.blocks[k].len <= c.size
  <2>1. ASSUME NEW k \in DOMAIN c.blocks
        PROVE  c.blocks[k].at + c.blocks[k].held <= c.size
    BY DEF InOrder, InFile
  <2> QED BY <2>1, ImageNumbers DEF Chained
<1>7. c.size \in Nat
  BY DEF Image
<1>8. ASSUME NEW k \in DOMAIN c.blocks, PieceOf(b, c.blocks[k]),
             b.held = b.len \/ b.at + b.len > f.size
      PROVE  /\ \A n \in 1..Len(v) : v[n].at > pos => v[n].at >= pos + b.len
             /\ b.type \notin {"EPB", "SPB"} => \A n \in 1..Len(v) : v[n].at # pos
             /\ b.type \in {"EPB", "SPB"} =>
                  /\ b.held = b.len
                  /\ \E n \in 1..Len(v) : v[n].at = pos /\ v[n].body = b.body
  <2>1. /\ c.blocks[k].at = pos /\ c.blocks[k].len = b.len /\ c.blocks[k].type = b.type
        /\ c.blocks[k].body = b.body
    BY <1>3, <1>8 DEF PieceOf
  <2>2. b.held = b.len
    BY <1>1, <1>3, <1>8
  <2>3. ASSUME NEW n \in 1..Len(v), NEW l \in DOMAIN c.blocks, v[n] = c.blocks[l], l # k
        PROVE  v[n].at < pos \/ v[n].at >= pos + b.len
    <3>1. /\ l < k => c.blocks[l].at + c.blocks[l].held <= c.blocks[k].at
          /\ k < l => c.blocks[k].at + c.blocks[k].held <= c.blocks[l].at
      BY DEF InOrder
    <3>2. l < k \/ k < l
      BY <2>3 DEF Image
    <3>3. c.blocks[l].at \in Nat /\ c.blocks[l].len >= 12 /\ c.blocks[l].len \in Nat
          /\ c.blocks[l].held = c.blocks[l].len /\ c.blocks[k].held = c.blocks[k].len
      BY <1>6
    <3> QED BY <1>3, <2>1, <2>3, <3>1, <3>2, <3>3
  <2>4. ASSUME NEW n \in 1..Len(v), v[n].at > pos  PROVE v[n].at >= pos + b.len
    <3>1. PICK l \in DOMAIN c.blocks : v[n] = c.blocks[l]
      BY <1>4
    <3>2. l # k
      BY <2>1, <2>4, <3>1
    <3>3. v[n].at \in Nat
      BY <1>4
    <3> QED BY <2>3, <2>4, <3>1, <3>2, <3>3
  <2>5. ASSUME NEW n \in 1..Len(v), v[n].at = pos  PROVE b.type \in {"EPB", "SPB"}
    <3>1. PICK l \in DOMAIN c.blocks : v[n] = c.blocks[l]
      BY <1>4
    <3>2. l = k
      <4>1. l # k => pos < pos \/ pos >= pos + b.len
        BY <2>3, <2>5, <3>1
      <4> QED BY <1>1, <1>3, <4>1
    <3> QED BY <1>5, <2>1, <3>1, <3>2
  <2>6. ASSUME b.type \in {"EPB", "SPB"}
        PROVE  \E n \in 1..Len(v) : v[n].at = pos /\ v[n].body = b.body
    <3>1. k \in PacketBlocks(c)
      BY <2>1, <2>6 DEF PacketBlocks
    <3> QED BY <1>4, <2>1, <3>1
  <2> QED BY <2>2, <2>4, <2>5, <2>6
<1>9. ASSUME b.type \notin {"EPB", "SPB"}, b.at >= c.size
      PROVE  \A n \in 1..Len(v) : v[n].at < pos
  <2>1. ASSUME NEW n \in 1..Len(v)  PROVE v[n].at < pos
    <3>1. PICK l \in DOMAIN c.blocks : v[n] = c.blocks[l]
      BY <1>4
    <3>2. c.blocks[l].at \in Nat /\ c.blocks[l].len >= 12 /\ c.blocks[l].len \in Nat
          /\ c.blocks[l].at + c.blocks[l].len <= c.size
      BY <1>6
    <3> QED BY <1>3, <1>7, <1>9, <3>1, <3>2
  <2> QED BY <2>1
<1>10. ASSUME b.type \notin {"EPB", "SPB"}, b.at >= c.size, NEW n \in 1..Len(v)
       PROVE  ~ (v[n].at > pos) /\ v[n].at # pos
  <2>1. v[n].at < pos /\ v[n].at \in Nat
    BY <1>4, <1>9, <1>10
  <2> QED BY <2>1
<1>11. \/ /\ \E k \in DOMAIN c.blocks : PieceOf(b, c.blocks[k])
          /\ b.held = b.len \/ b.at + b.len > f.size
       \/ b.type \notin {"EPB", "SPB"} /\ b.at >= c.size
  BY <1>2 DEF PartOf
<1>12. /\ \A n \in 1..Len(v) : v[n].at > pos => v[n].at >= pos + b.len
       /\ b.type \notin {"EPB", "SPB"} => \A n \in 1..Len(v) : v[n].at # pos
       /\ b.type \in {"EPB", "SPB"} =>
            /\ b.held = b.len
            /\ \E n \in 1..Len(v) : v[n].at = pos /\ v[n].body = b.body
  <2>1. CASE /\ \E k \in DOMAIN c.blocks : PieceOf(b, c.blocks[k])
             /\ b.held = b.len \/ b.at + b.len > f.size
    BY <1>8, <2>1
  <2>2. CASE b.type \notin {"EPB", "SPB"} /\ b.at >= c.size
    BY <1>10, <2>2
  <2> QED BY <1>11, <2>1, <2>2
<1> QED BY <1>1, <1>3, <1>12 DEF b, v

(***************************************************************************)
(* Readers of the packet plane.                                            *)
(***************************************************************************)
ReaderInv(q) ==
  at[q] \in {"reading", "done"} => \E c \in during[q] :
    /\ c \in Captures
    /\ reader[q].source = {c}
    /\ Progress(c, reader[q].pos, reader[q].got)
    /\ view[q].live => c = placed
    /\ ~ view[q].live /\ ~ c.classic => view[q].image \in Image /\ PartOf(c.image, view[q].image)

ReadersInv == faults = 0 /\ ~ clashed => \A q \in Query : ReaderInv(q)

PlaneInv == AllInv /\ ReadersInv

(* What the world does to a file, the reader's handle makes up for.        *)
LEMMA ReaderInvWorld ==
  ASSUME NEW q \in Query, ReaderInv(q), UNCHANGED <<at, reader>>,
         during[q] \subseteq during'[q],
         \/ placed' = placed /\ view'[q] = view[q]
         \/ ~ view[q].live /\ view'[q] = view[q]
         \/ /\ view[q].live /\ view'[q] = [live |-> FALSE, image |-> file]
            /\ ~ placed.classic => file \in Image /\ PartOf(placed.image, file)
  PROVE  ReaderInv(q)'
<1>1. SUFFICES ASSUME at[q] \in {"reading", "done"}  PROVE ReaderInv(q)'
  BY DEF ReaderInv
<1>2. PICK c \in during[q] :
        /\ c \in Captures
        /\ reader[q].source = {c}
        /\ Progress(c, reader[q].pos, reader[q].got)
        /\ view[q].live => c = placed
        /\ ~ view[q].live /\ ~ c.classic =>
             view[q].image \in Image /\ PartOf(c.image, view[q].image)
  BY <1>1 DEF ReaderInv
<1>3. c \in during'[q] /\ reader' = reader
  BY <1>2
<1>4. /\ view'[q].live => c = placed'
      /\ ~ view'[q].live /\ ~ c.classic =>
           view'[q].image \in Image /\ PartOf(c.image, view'[q].image)
  BY <1>2
<1> QED BY <1>2, <1>3, <1>4 DEF ReaderInv, Progress, Handed

(* A step of a reader.                                                     *)
LEMMA ReaderGoesOn ==
  ASSUME NEW c \in Captures, Intact(c), NEW pos, NEW got, Progress(c, pos, got), ~ c.classic,
         NEW f \in Image, PartOf(c.image, f), ~ ReaderStops(f, pos)
  PROVE  LET b == HeaderAt(f, pos)
         IN  /\ b.type \in {"EPB", "SPB"} =>
                  Progress(c, pos + b.len,
                           Append(got, [pkt |-> b.body.pkt, whole |-> b.held = b.len]))
             /\ b.type \notin {"EPB", "SPB"} => Progress(c, pos + b.len, got)
<1> DEFINE b == HeaderAt(f, pos)
           v == PacketsOf(c.image)
           n == Len(got)
           e == [pkt |-> b.body.pkt, whole |-> b.held = b.len]
<1>1. c.image \in Image /\ InOrder(c.image) /\ Chained(c.image)
  BY CaptureTypes DEF OrderedImage, Intact
<1>2. /\ pos \in Nat /\ got \in Seq([pkt : Packet, whole : BOOLEAN])
      /\ n <= Len(v)
      /\ \A x \in 1..n : Handed(got, x, v[x].body.pkt) /\ v[x].at < pos
      /\ \A x \in 1..Len(v) : x > n => v[x].at >= pos
  BY DEF Progress
<1>3. /\ v \in Seq(PacketKinds)
      /\ \A x \in 1..Len(v) : v[x].at \in Nat
      /\ \A x, y \in 1..Len(v) : x < y => v[x].at < v[y].at
  BY <1>1, PacketsInOrder
<1>4. /\ b.len \in Nat /\ b.len >= 12
      /\ \A x \in 1..Len(v) : v[x].at > pos => v[x].at >= pos + b.len
      /\ b.type \notin {"EPB", "SPB"} => \A x \in 1..Len(v) : v[x].at # pos
      /\ b.type \in {"EPB", "SPB"} =>
           /\ b.held = b.len
           /\ \E x \in 1..Len(v) : v[x].at = pos /\ v[x].body = b.body
  BY <1>1, <1>2, NextPacket
<1>5. n \in Nat /\ Len(v) \in Nat /\ pos + b.len \in Nat /\ pos < pos + b.len
  BY <1>2, <1>3, <1>4
<1> HIDE DEF b, v
<1>6. ASSUME b.type \in {"EPB", "SPB"}
      PROVE  Progress(c, pos + b.len, Append(got, e))
  <2>1. PICK x \in 1..Len(v) : v[x].at = pos /\ v[x].body = b.body
    BY <1>4, <1>6
  <2>2. x = n + 1
    <3>1. ~ (x <= n)
      <4>1. x <= n => v[x].at < pos
        BY <1>2, <1>5
      <4> QED BY <1>2, <2>1, <4>1
    <3>2. ~ (n + 1 < x)
      <4>1. n + 1 < x => n + 1 \in 1..Len(v) /\ v[n + 1].at < v[x].at /\ v[n + 1].at >= pos
                          /\ v[n + 1].at \in Nat
        BY <1>2, <1>3, <1>5
      <4> QED BY <1>2, <2>1, <4>1
    <3> QED BY <1>5, <3>1, <3>2
  <2>3. e = [pkt |-> b.body.pkt, whole |-> TRUE] /\ b.body.pkt \in Packet
    <3>1. v[x] \in PacketKinds
      BY <1>3, ElementsOf
    <3>2. v[x].body.pkt \in Packet
      BY <3>1 DEF PacketKinds, Block, BlockOf
    <3> QED BY <1>4, <1>6, <2>1, <3>2
  <2> HIDE DEF e
  <2>4. /\ Append(got, e) \in Seq([pkt : Packet, whole : BOOLEAN])
        /\ Len(Append(got, e)) = n + 1
        /\ Append(got, e)[n + 1] = e
        /\ \A y \in 1..n : Append(got, e)[y] = got[y]
    <3>1. e \in [pkt : Packet, whole : BOOLEAN]
      BY <2>3
    <3> QED BY <1>2, <3>1
  <2> DEFINE g == Append(got, e)
  <2>5. /\ g \in Seq([pkt : Packet, whole : BOOLEAN]) /\ Len(g) = n + 1 /\ g[n + 1] = e
        /\ \A y \in 1..n : g[y] = got[y]
    BY <2>4
  <2> HIDE DEF g, n
  <2>6. Len(g) <= Len(v)
    BY <1>5, <2>1, <2>2, <2>5
  <2>7. ASSUME NEW y \in 1..(n + 1)
        PROVE  Handed(g, y, v[y].body.pkt) /\ v[y].at < pos + b.len
    <3>1. CASE y = n + 1
      BY <1>5, <2>1, <2>2, <2>3, <2>5, <3>1 DEF Handed
    <3>2. CASE y # n + 1
      <4>1. y \in 1..n /\ y \in 1..Len(v)
        BY <1>2, <1>5, <3>2
      <4>2. Handed(g, y, v[y].body.pkt)
        BY <1>2, <2>5, <4>1 DEF Handed
      <4>3. v[y].at < pos /\ v[y].at \in Nat
        BY <1>2, <1>3, <4>1
      <4> QED BY <1>2, <1>4, <4>2, <4>3
    <3> QED BY <3>1, <3>2
  <2>8. ASSUME NEW y \in 1..Len(v), y > n + 1  PROVE v[y].at >= pos + b.len
    <3>1. v[x].at < v[y].at
      BY <1>3, <1>5, <2>1, <2>2, <2>8
    <3>2. v[y].at > pos
      BY <1>2, <1>3, <2>1, <3>1
    <3> QED BY <1>4, <3>2
  <2> QED BY <1>5, <2>5, <2>6, <2>7, <2>8 DEF Progress, v, g
<1>7. ASSUME b.type \notin {"EPB", "SPB"}  PROVE Progress(c, pos + b.len, got)
  <2>1. ASSUME NEW y \in 1..n  PROVE v[y].at < pos + b.len
    <3>1. v[y].at < pos /\ y \in 1..Len(v)
      BY <1>2, <1>5
    <3>2. v[y].at \in Nat
      BY <1>3, <3>1
    <3> QED BY <1>2, <1>4, <3>1, <3>2
  <2>2. ASSUME NEW y \in 1..Len(v), y > n  PROVE v[y].at >= pos + b.len
    <3>1. v[y].at >= pos /\ v[y].at # pos /\ v[y].at \in Nat
      BY <1>2, <1>3, <1>4, <1>7, <2>2
    <3>2. v[y].at > pos
      BY <1>2, <3>1
    <3> QED BY <1>4, <3>2
  <2> HIDE DEF n
  <2> QED BY <1>2, <1>5, <2>1, <2>2 DEF Progress, v, n
<1> QED BY <1>6, <1>7 DEF b

LEMMA ReaderStep ==
  ASSUME \A c \in Captures : Linked(c) /\ Intact(c) /\ RightlyIndexed(c.image),
         TypeInv, CleanInv, QueryShape, NEW q \in Query, ReaderInv(q), ReadPacket(q)
  PROVE  ReaderInv(q)'
<1>1. /\ at[q] = "reading" /\ UNCHANGED <<placed, file, view, during>>
      /\ DOMAIN at = Query /\ DOMAIN reader = Query
  BY DEF ReadPacket, history, vars, world, QueryShape
<1>2. PICK c \in during[q] :
        /\ c \in Captures
        /\ reader[q].source = {c}
        /\ Progress(c, reader[q].pos, reader[q].got)
        /\ view[q].live => c = placed
        /\ ~ view[q].live /\ ~ c.classic =>
             view[q].image \in Image /\ PartOf(c.image, view[q].image)
  BY <1>1 DEF ReaderInv
<1>3. IF c.classic THEN ClassicNext(q, c) ELSE PcapngNext(q)
  BY <1>2 DEF ReadPacket
<1>4. ASSUME reader' = reader  PROVE ReaderInv(q)'
  BY <1>1, <1>2, <1>4 DEF ReaderInv, Progress, Handed
<1>5. ASSUME NEW pos, NEW got, Progress(c, pos, got),
             reader'[q].source = reader[q].source,
             reader'[q].pos = pos, reader'[q].got = got
      PROVE  ReaderInv(q)'
  BY <1>1, <1>2, <1>5 DEF ReaderInv, Progress, Handed
<1>6. CASE c.classic
  <2> DEFINE n == Len(reader[q].got) + 1
  <2>1. CASE n <= Len(c.records) /\ HandsOut(q, c.records[n].pkt, TRUE, 1)
    <3> DEFINE e == [pkt |-> c.records[n].pkt, whole |-> TRUE]
               got == reader[q].got
               pos == reader[q].pos
    <3>1. /\ reader'[q].source = reader[q].source
          /\ reader'[q].pos = pos + 1 /\ reader'[q].got = Append(got, e)
      BY <1>1, <2>1 DEF HandsOut
    <3>2. /\ pos \in Nat /\ got \in Seq([pkt : Packet, whole : BOOLEAN])
          /\ Len(got) <= Len(c.records)
          /\ \A x \in 1..Len(got) : Handed(got, x, c.records[x].pkt)
      BY <1>2, <1>6 DEF Progress
    <3>3. c.records \in Seq(Record)
      BY <1>2, CaptureTypes
    <3>4. Len(got) \in Nat /\ Len(c.records) \in Nat /\ n \in 1..Len(c.records)
      BY <2>1, <3>2, <3>3
    <3>5. e \in [pkt : Packet, whole : BOOLEAN]
      <4>1. c.records[n] \in Record
        BY <3>3, <3>4, ElementsOf
      <4> QED BY <4>1 DEF Record
    <3> DEFINE g == Append(got, e)
    <3>6. /\ g \in Seq([pkt : Packet, whole : BOOLEAN]) /\ Len(g) = n /\ g[n] = e
          /\ \A x \in 1..Len(got) : g[x] = got[x]
      <4>1. n = Len(got) + 1
        OBVIOUS
      <4> HIDE DEF e, got, n
      <4> QED BY <3>2, <3>4, <3>5, <4>1
    <3>7. ASSUME NEW x \in 1..Len(g)  PROVE Handed(g, x, c.records[x].pkt)
      <4>1. CASE x = n
        BY <3>6, <4>1 DEF Handed
      <4>2. CASE x # n
        <5>1. x \in 1..Len(got)
          BY <3>4, <3>6, <4>2
        <5> QED BY <3>2, <3>6, <5>1 DEF Handed
      <4> QED BY <4>1, <4>2
    <3>8. pos + 1 \in Nat /\ Len(g) <= Len(c.records)
      BY <2>1, <3>2, <3>6
    <3> HIDE DEF g, pos, got
    <3>9. Progress(c, pos + 1, g)
      BY <1>6, <3>6, <3>7, <3>8 DEF Progress
    <3> QED BY <1>5, <3>1, <3>9 DEF g
  <2>2. CASE ~ (n <= Len(c.records) /\ HandsOut(q, c.records[n].pkt, TRUE, 1))
    BY <1>3, <1>4, <1>6, <2>2 DEF ClassicNext
  <2> QED BY <2>1, <2>2
<1>7. CASE ~ c.classic
  <2> DEFINE f == Behind(q)
             pos == reader[q].pos
             b == HeaderAt(f, pos)
  <2>1. f \in Image /\ PartOf(c.image, f)
    <3>1. CASE view[q].live
      <4>1. Intact(placed) /\ file \in Image /\ placed = c
        BY <1>2, <3>1, CaptureTypes DEF TypeInv, CleanInv, Tidy, OrderedImage
      <4> QED BY <1>7, <3>1, <4>1, FileIsPart DEF Behind
    <3>2. CASE ~ view[q].live
      BY <1>2, <1>7, <3>2 DEF Behind
    <3> QED BY <3>1, <3>2
  <2>2. Intact(c)
    BY <1>2
  <2>3. PcapngNext(q)
    BY <1>3, <1>7
  <2>4. CASE ReaderStops(f, pos)
    BY <1>4, <2>3, <2>4 DEF PcapngNext
  <2>5. CASE ~ ReaderStops(f, pos) /\ b.type \in {"EPB", "SPB"}
    <3>1. HandsOut(q, b.body.pkt, b.held = b.len, b.len)
      BY <2>3, <2>5 DEF PcapngNext
    <3>2. /\ reader'[q].source = reader[q].source
          /\ reader'[q].pos = pos + b.len
          /\ reader'[q].got = Append(reader[q].got, [pkt |-> b.body.pkt, whole |-> b.held = b.len])
      BY <1>1, <3>1 DEF HandsOut
    <3>3. Progress(c, pos + b.len,
                   Append(reader[q].got, [pkt |-> b.body.pkt, whole |-> b.held = b.len]))
      BY <1>2, <1>7, <2>1, <2>2, <2>5, ReaderGoesOn
    <3> HIDE DEF b, pos
    <3> QED BY <1>5, <3>2, <3>3
  <2>6. CASE ~ ReaderStops(f, pos) /\ b.type \notin {"EPB", "SPB"}
    <3>1. reader' = [reader EXCEPT ![q].pos = @ + b.len]
      BY <2>3, <2>6 DEF PcapngNext
    <3>2. /\ reader'[q].source = reader[q].source
          /\ reader'[q].pos = pos + b.len
          /\ reader'[q].got = reader[q].got
      BY <1>1, <3>1
    <3>3. Progress(c, pos + b.len, reader[q].got)
      BY <1>2, <1>7, <2>1, <2>2, <2>6, ReaderGoesOn
    <3> HIDE DEF b, pos
    <3> QED BY <1>5, <3>2, <3>3
  <2> QED BY <2>4, <2>5, <2>6
<1> QED BY <1>6, <1>7

LEMMA ReadersInvStep ==
  ASSUME \A c \in Captures : Linked(c) /\ Intact(c) /\ RightlyIndexed(c.image),
         AllInv, ReadersInv, [QueryNext]_allVars, faults' = 0, ~ clashed',
         NEW q \in Query
  PROVE  ReaderInv(q)'
<1>1. faults = 0 /\ ~ clashed
  <2>1. [Next]_vars /\ TypeInv
    BY QueriesLook DEF AllInv
  <2> QED BY <2>1, FaultsGrow, ClashedForGood
<1>2. /\ TypeInv /\ CleanInv /\ QueryInv /\ QueryShape
      /\ \A k \in Query : ReaderInv(k) /\ AnswerInv(k)
  BY <1>1 DEF AllInv, FileInv, OverlapInv, Orderly, QueryInv, ReadersInv
<1>3. /\ DOMAIN at = Query /\ DOMAIN view = Query /\ DOMAIN reader = Query
      /\ DOMAIN during = Query
      /\ placed \in Captures /\ Intact(placed) /\ file \in Image
  BY <1>2, CaptureTypes DEF QueryShape, TypeInv, CleanInv, Tidy, OrderedImage
<1> USE DEF Moves
<1>4. ASSUME UNCHANGED <<placed, at, view, reader, during>>  PROVE ReaderInv(q)'
  <2>1. during[q] \subseteq during'[q] /\ view'[q] = view[q]
    BY <1>4
  <2> QED BY <1>2, <1>4, <2>1, ReaderInvWorld
<1>5. ASSUME NEW k \in Query, k # q, UNCHANGED placed,
             at'[q] = at[q], view'[q] = view[q], reader'[q] = reader[q], during'[q] = during[q]
      PROVE  ReaderInv(q)'
  <2>1. ReaderInv(q)
    BY <1>2
  <2> QED BY <1>5, <2>1 DEF ReaderInv, Progress, Handed
<1>6. ASSUME NEW k \in Query, QueryStep(k), k # q  PROVE ReaderInv(q)'
  <2>1. /\ UNCHANGED placed /\ at'[q] = at[q] /\ view'[q] = view[q]
        /\ reader'[q] = reader[q] /\ during'[q] = during[q]
    BY <1>3, <1>6 DEF QueryStep, ReplacementScan, DetectCaptureFormat, OpenPackets, ReadPacket,
              ClassicNext, PcapngNext, HandsOut, PqcapOffsetSize, ParsePqcapMetadataLocation,
              OpenSubFile, ReadParquetMeta, ReadParquetRows, Execute, Begins, OpenPath,
              private, history, vars, world
  <2> QED BY <1>5, <1>6, <2>1
<1>7. ASSUME at'[q] \notin {"reading", "done"}  PROVE ReaderInv(q)'
  BY <1>7 DEF ReaderInv
<1>8. ASSUME NEW suffix \in Suffix, ReplacementScan(q, suffix)  PROVE ReaderInv(q)'
  <2>1. at'[q] \notin {"reading", "done"}
    BY <1>3, <1>8 DEF ReplacementScan, Route
  <2> QED BY <1>7, <2>1
<1>9. ASSUME \/ DetectCaptureFormat(q) \/ PqcapOffsetSize(q) \/ ParsePqcapMetadataLocation(q)
             \/ OpenSubFile(q) \/ ReadParquetMeta(q) \/ ReadParquetRows(q) \/ Execute(q)
      PROVE  ReaderInv(q)'
  <2>1. at'[q] \notin {"reading", "done"}
    BY <1>3, <1>9 DEF DetectCaptureFormat, PqcapOffsetSize, ParsePqcapMetadataLocation,
              OpenSubFile, ReadParquetMeta, ReadParquetRows, Execute
  <2> QED BY <1>7, <2>1
<1>10. ASSUME OpenPackets(q)  PROVE ReaderInv(q)'
  <2>1. CASE Readable(file) /\ placed.classic = (at[q] = "classic")
    <3>1. /\ reader'[q] = [source |-> {placed}, pos |-> 0, got |-> <<>>]
          /\ view'[q].live
      BY <1>3, <1>10, <2>1 DEF OpenPackets, OpenPath, NoReader
    <3>2. /\ placed \in during[q] /\ UNCHANGED <<placed, during>>
      <4>1. at[q] # "idle"
        BY <1>10 DEF OpenPackets
      <4> QED BY <1>2, <1>10, <4>1 DEF AnswerInv, OpenPackets, history, vars, world
    <3>3. Progress(placed, 0, <<>>)
      BY <1>3, ProgressBegins
    <3>4. Progress(placed, 0, <<>>)'
      BY <3>2, <3>3 DEF Progress, Handed
    <3> QED BY <1>3, <3>1, <3>2, <3>4 DEF ReaderInv
  <2>2. CASE ~ (Readable(file) /\ placed.classic = (at[q] = "classic"))
    <3>1. at'[q] = "failed"
      BY <1>3, <1>10, <2>2 DEF OpenPackets
    <3> QED BY <1>7, <3>1
  <2> QED BY <2>1, <2>2
<1>11. ASSUME ReadPacket(q)  PROVE ReaderInv(q)'
  BY <1>2, <1>11, ReaderStep
<1>12. ASSUME NEW k \in Query, QueryStep(k)  PROVE ReaderInv(q)'
  <2>1. CASE k = q
    BY <1>8, <1>9, <1>10, <1>11, <1>12, <2>1 DEF QueryStep
  <2>2. CASE k # q
    BY <1>6, <1>12, <2>2
  <2> QED BY <2>1, <2>2
<1>13. CASE JobStep \/ UNCHANGED allVars
  <2>1. ASSUME NEW j \in Job, EmbedPqcapIndex(j) \/ Fail(j)  PROVE placed' = placed
    BY <2>1 DEF EmbedPqcapIndex, EnsurePlainCapture, FetchPacketFeaturesFromCapture, Scan,
                WriteMetadata, ReadCapture, ReadParquet, OpenForWrite, WritePart, WriteFile, Remove,
                Fail, world
  <2>2. UNCHANGED <<placed, at, view, reader, during>>
    BY <1>13, <2>1 DEF JobStep, private, allVars, queryVars, history, vars, world
  <2> QED BY <1>4, <2>2
<1>14. CASE ReplacePath
  <2>1. /\ UNCHANGED <<at, reader>> /\ during[q] \subseteq during'[q]
        /\ view'[q] = IF view[q].live THEN [live |-> FALSE, image |-> file] ELSE view[q]
    BY <1>14 DEF ReplacePath
  <2>2. ~ placed.classic => PartOf(placed.image, file)
    BY <1>2, <1>3, FileIsPart
  <2>3. CASE view[q].live
    <3>1. view'[q] = [live |-> FALSE, image |-> file]
      BY <2>1, <2>3
    <3> QED BY <1>2, <1>3, <2>1, <2>2, <2>3, <3>1, ReaderInvWorld
  <2>4. CASE ~ view[q].live
    <3>1. view'[q] = view[q]
      BY <2>1, <2>4
    <3> QED BY <1>2, <2>1, <2>4, <3>1, ReaderInvWorld
  <2> QED BY <2>3, <2>4
<1> QED BY <1>12, <1>13, <1>14 DEF QueryNext

LEMMA LeadsBy ==
  ASSUME NEW S, NEW s \in Seq(S), NEW t \in Seq(S), Len(s) <= Len(t),
         \A n \in 1..Len(s) : s[n] = t[n]
  PROVE  Leads(s, t)
<1>1. SubSeq(t, 1, Len(s)) = s
  OBVIOUS
<1> QED BY <1>1 DEF Leads

LEMMA ProgressLeads ==
  ASSUME NEW c \in Captures, Intact(c), NEW pos, NEW got, Progress(c, pos, got)
  PROVE  /\ Leads([n \in DOMAIN got |-> got[n].pkt], PacketsIn(c))
         /\ \A n \in DOMAIN got : got[n].whole
<1> DEFINE s == [n \in DOMAIN got |-> got[n].pkt]
           t == PacketsIn(c)
<1>1. got \in Seq([pkt : Packet, whole : BOOLEAN])
  BY DEF Progress
<1>2. DOMAIN got = 1..Len(got) /\ Len(got) \in Nat
  BY <1>1
<1>3. ASSUME NEW n \in 1..Len(got)  PROVE got[n].pkt \in Packet
  <2>1. got[n] \in [pkt : Packet, whole : BOOLEAN]
    BY <1>1, ElementsOf
  <2> QED BY <2>1
<1>4. s \in Seq(Packet) /\ Len(s) = Len(got) /\ \A n \in 1..Len(s) : s[n] = got[n].pkt
  BY <1>2, <1>3
<1> HIDE DEF s
<1>5. CASE c.classic
  <2>1. c.records \in Seq(Record)
    BY CaptureTypes
  <2>2. t = [n \in 1..Len(c.records) |-> c.records[n].pkt] /\ Len(c.records) \in Nat
    BY <1>5, <2>1 DEF PacketsIn
  <2>3. \A n \in 1..Len(c.records) : c.records[n].pkt \in Packet
    <3>1. \A n \in 1..Len(c.records) : c.records[n] \in Record
      BY <2>1, ElementsOf
    <3> QED BY <3>1 DEF Record
  <2>4. t \in Seq(Packet) /\ Len(t) = Len(c.records)
        /\ \A n \in 1..Len(t) : t[n] = c.records[n].pkt
    BY <2>2, <2>3
  <2> HIDE DEF t
  <2>5. /\ Len(got) <= Len(c.records)
        /\ \A n \in 1..Len(got) : Handed(got, n, c.records[n].pkt)
    BY <1>5 DEF Progress
  <2>6. Len(s) <= Len(t) /\ \A n \in 1..Len(s) : s[n] = t[n]
    BY <1>2, <1>4, <2>2, <2>4, <2>5 DEF Handed
  <2>7. Leads(s, t)
    BY <1>4, <2>4, <2>6, LeadsBy
  <2> QED BY <1>2, <2>5, <2>7 DEF Handed, s, t
<1>6. CASE ~ c.classic
  <2> DEFINE v == PacketsOf(c.image)
  <2>1. v \in Seq(PacketKinds)
    <3>1. c.image \in Image /\ InOrder(c.image) /\ Chained(c.image)
      BY <1>6, CaptureTypes DEF OrderedImage, Intact
    <3> QED BY <3>1, PacketsInOrder
  <2>2. /\ Len(got) <= Len(v)
        /\ \A n \in 1..Len(got) : Handed(got, n, v[n].body.pkt)
    BY <1>6 DEF Progress
  <2>3. t = [n \in 1..Len(v) |-> v[n].body.pkt]
    BY <1>6 DEF PacketsIn
  <2> HIDE DEF v
  <2>4. \A n \in 1..Len(v) : v[n].body.pkt \in Packet
    <3>1. \A n \in 1..Len(v) : v[n] \in PacketKinds
      BY <2>1, ElementsOf
    <3>2. \A b \in PacketKinds : b.body.pkt \in Packet
      BY DEF PacketKinds, Block, BlockOf
    <3> QED BY <3>1, <3>2
  <2>5. Len(v) \in Nat
    BY <2>1
  <2>6. t \in Seq(Packet) /\ Len(t) = Len(v)
        /\ \A n \in 1..Len(t) : t[n] = v[n].body.pkt
    BY <2>3, <2>4, <2>5
  <2> HIDE DEF t
  <2>7. Len(s) <= Len(t) /\ \A n \in 1..Len(s) : s[n] = t[n]
    BY <1>2, <1>4, <2>2, <2>5, <2>6 DEF Handed
  <2>8. Leads(s, t)
    BY <1>4, <2>6, <2>7, LeadsBy
  <2> QED BY <1>2, <2>2, <2>8 DEF Handed, s, t
<1> QED BY <1>5, <1>6

(* A query of the packet plane hands out packets of one capture that was   *)
(* at the path, from the first one on, each whole and none left out, for   *)
(* any number of queries, of calls that overlap and of replacements, while *)
(* no call has stopped early or lost bytes, and none has used the file     *)
(* between the fopen and the fclose of another.                            *)
THEOREM PacketPlanePrefix ==
  ASSUME IsFiniteSet(Job),
         \A c \in Captures : Linked(c) /\ Intact(c) /\ RightlyIndexed(c.image)
  PROVE  QuerySpec => [](faults = 0 => PacketPlaneIsPrefix)
<1>1. QueryInit => PlaneInv
  <2>1. QueryInit => AllInv
    BY FileInvInit, QueryInvInit DEF AllInv
  <2>2. QueryInit => ReadersInv
    BY DEF QueryInit, ReadersInv, ReaderInv
  <2> QED BY <2>1, <2>2 DEF PlaneInv
<1>2. PlaneInv /\ [QueryNext]_allVars => PlaneInv'
  <2> SUFFICES ASSUME PlaneInv, [QueryNext]_allVars  PROVE PlaneInv'
    OBVIOUS
  <2>1. AllInv'
    BY AllInvStep DEF PlaneInv
  <2>2. ASSUME faults' = 0, ~ clashed'  PROVE \A q \in Query : ReaderInv(q)'
    BY <2>2, ReadersInvStep DEF PlaneInv
  <2> QED BY <2>1, <2>2 DEF PlaneInv, ReadersInv
<1>3. PlaneInv => (faults = 0 => PacketPlaneIsPrefix)
  <2> SUFFICES ASSUME PlaneInv, faults = 0, NEW q \in Query, at[q] \in {"reading", "done"}, Orderly
               PROVE  \E c \in during[q] :
                        /\ Leads([n \in DOMAIN reader[q].got |-> reader[q].got[n].pkt], PacketsIn(c))
                        /\ \A n \in DOMAIN reader[q].got :
                             \/ reader[q].got[n].whole
                             \/ faults > 0 /\ n = Len(reader[q].got)
    BY DEF PacketPlaneIsPrefix
  <2>1. ReaderInv(q)
    BY DEF PlaneInv, ReadersInv, Orderly
  <2>2. PICK c \in during[q] : c \in Captures /\ Progress(c, reader[q].pos, reader[q].got)
    BY <2>1 DEF ReaderInv
  <2> QED BY <2>2, ProgressLeads
<1> QED BY <1>1, <1>2, <1>3, PTL DEF QuerySpec

(***************************************************************************)
(* While jobs do not overlap, what is located can be read.                 *)
(***************************************************************************)

(* A locator that is accepted stands at the end of the file, and an index  *)
(* is where it says.                                                       *)
LEMMA LocatedPublished ==
  ASSUME NEW f, FooterAtEnd(f), RightlyIndexed(f), NEW l \in MetadataLocations(f, f.size)
  PROVE  TablesAt(f, l.offset, l.length) # {}
<1>1. PICK i \in DOMAIN f.blocks :
        /\ ParseFooterLocator(f.blocks[i])
        /\ l = [offset |-> f.blocks[i].body.offset, length |-> f.blocks[i].body.length]
        /\ RangeAccepted(f.blocks[i].body.offset, f.blocks[i].body.length, f.size)
  BY DEF MetadataLocations, LocatorsBefore
<1>2. i = Len(f.blocks) /\ HasFooter(f)
  BY <1>1 DEF FooterAtEnd, ParseFooterLocator
<1>3. LocatorAccepted(f)
  BY <1>1, <1>2 DEF LocatorAccepted, TailBlock
<1>4. PublishedTables(f) # {}
  BY <1>3 DEF RightlyIndexed
<1>5. l.offset = TailBlock(f).body.offset /\ l.length = TailBlock(f).body.length
  BY <1>1, <1>2 DEF TailBlock
<1> QED BY <1>3, <1>4, <1>5 DEF PublishedTables

Located == {"located", "meta", "rows", "answered"}

(* Until the file is written to or replaced, the location that q has found *)
(* is the one that the file has.                                           *)
LocInv(q) ==
  /\ at[q] \in 
       {"idle", "declined", "packets", "classic", "pcapng", "reading", "offset", "tail", "done"} => loc[q] = {}
  /\ at[q] \in Located => loc[q] # {}
  /\ at[q] = "failed" /\ loc[q] # {} => disturbed[q]
  /\ at[q] = "tail" /\ ~ disturbed[q] => view[q].live /\ size[q] = file.size
  /\ at[q] \in {"meta", "rows"} /\ ~ disturbed[q] => view[q].live
  /\ at[q] \in Located /\ ~ disturbed[q] => loc[q] = MetadataLocations(file, file.size)

LocatedInv ==
  /\ QueryShape
  /\ overlapped \in BOOLEAN
  /\ ~ overlapped => RightInv /\ \A q \in Query : LocInv(q)

LEMMA LocatedInvInit ==
  ASSUME \A c \in Captures : Linked(c) /\ RightlyIndexed(c.image), QueryInit
  PROVE  LocatedInv
<1>1. RightInv
  BY RightInvInit DEF QueryInit
<1> QED BY <1>1 DEF QueryInit, LocatedInv, QueryShape, LocInv, Located

(* A step of one query, which leaves the file and other queries alone.     *)
LEMMA LocStepOfQuery ==
  ASSUME QueryShape, \A k \in Query : LocInv(k),
         NEW q \in Query, NEW step, at' = [at EXCEPT ![q] = step],
         file' = file,
         \A k \in Query : k # q => /\ view'[k] = view[k]
                                   /\ size'[k] = size[k]
                                   /\ loc'[k] = loc[k]
                                   /\ disturbed'[k] = disturbed[k],
         LocInv(q)'
  PROVE  \A k \in Query : LocInv(k)'
<1>1. ASSUME NEW k \in Query, k # q  PROVE LocInv(k)'
  <2>1. at'[k] = at[k]
    BY <1>1 DEF QueryShape
  <2>2. LocInv(k)
    OBVIOUS
  <2> QED BY <1>1, <2>1, <2>2 DEF LocInv
<1> QED BY <1>1

LEMMA LocInvStep ==
  ASSUME QueryShape, \A q \in Query : LocInv(q), RightInv, [QueryNext]_allVars
  PROVE  \A q \in Query : LocInv(q)'
<1>1. /\ DOMAIN at = Query /\ DOMAIN view = Query /\ DOMAIN size = Query
      /\ DOMAIN loc = Query /\ DOMAIN disturbed = Query
  BY DEF QueryShape
<1>2. FooterAtEnd(file) /\ RightlyIndexed(file)
  BY DEF RightInv, SerialInv
<1>3. ASSUME NEW q \in Query, at[q] \in {"meta", "rows"}, ~ disturbed[q]
      PROVE  TablesBehind(q) # {}
  <2>1. /\ view[q].live /\ loc[q] # {} /\ loc[q] = MetadataLocations(file, file.size)
    BY <1>3 DEF LocInv, Located
  <2>2. PICK l \in loc[q] : TablesAt(file, l.offset, l.length) # {}
    BY <1>2, <2>1, LocatedPublished
  <2> QED BY <2>1, <2>2 DEF TablesBehind, Behind
<1> USE DEF Moves
<1>4. ASSUME NEW q \in Query, NEW suffix \in Suffix, ReplacementScan(q, suffix)
      PROVE  \A k \in Query : LocInv(k)'
  <2>1. /\ at' = [at EXCEPT ![q] = Route(suffix)] /\ at[q] = "idle"
        /\ UNCHANGED <<file, view, size, loc, disturbed>>
    BY <1>4 DEF ReplacementScan, private, vars
  <2>2. LocInv(q)'
    BY <1>1, <2>1 DEF LocInv, Located, Route
  <2> QED BY <2>1, <2>2, LocStepOfQuery
<1>5. ASSUME NEW q \in Query, DetectCaptureFormat(q) \/ OpenPackets(q) \/ ReadPacket(q)
      PROVE  \A k \in Query : LocInv(k)'
  <2>1. /\ at[q] \in {"packets", "classic", "pcapng", "reading"}
        /\ UNCHANGED <<file, size, loc, disturbed>>
        /\ \A k \in Query : k # q => view'[k] = view[k]
    BY <1>1, <1>5 DEF DetectCaptureFormat, OpenPackets, ReadPacket, OpenPath, private, history, vars
  <2>2. PICK step \in {"done", "failed", "classic", "pcapng", "reading"} :
          at' = [at EXCEPT ![q] = step]
    <3>1. CASE at' = at
      <4>1. DetectCaptureFormat(q) => at[q] = "packets" /\ at'[q] # "packets"
        BY <1>1 DEF DetectCaptureFormat
      <4>2. at[q] # "packets"
        BY <1>5, <3>1, <4>1 DEF OpenPackets, ReadPacket
      <4>3. at' = [at EXCEPT ![q] = at[q]]
        BY <3>1 DEF QueryShape
      <4> QED BY <2>1, <4>2, <4>3
    <3>2. CASE at' # at
      BY <1>5, <3>2 DEF DetectCaptureFormat, OpenPackets, ReadPacket, ClassicNext, PcapngNext, HandsOut
    <3> QED BY <3>1, <3>2
  <2>3. LocInv(q)'
    BY <1>1, <2>1, <2>2 DEF LocInv, Located
  <2> QED BY <2>1, <2>2, <2>3, LocStepOfQuery
<1>6. ASSUME NEW q \in Query, PqcapOffsetSize(q)  PROVE \A k \in Query : LocInv(k)'
  <2>1. /\ at[q] = "offset" /\ UNCHANGED <<file, loc>>
        /\ view' = [view EXCEPT ![q] = [live |-> TRUE, image |-> EmptyImage]]
        /\ size' = [size EXCEPT ![q] = file.size]
        /\ disturbed' = [disturbed EXCEPT ![q] = FALSE]
    BY <1>6 DEF PqcapOffsetSize, OpenPath, vars
  <2>2. PICK step \in {"failed", "tail"} : at' = [at EXCEPT ![q] = step]
    BY <1>6 DEF PqcapOffsetSize
  <2>3. LocInv(q)'
    BY <1>1, <2>1, <2>2 DEF LocInv, Located
  <2> QED BY <1>1, <2>1, <2>2, <2>3, LocStepOfQuery
<1>7. ASSUME NEW q \in Query, ParsePqcapMetadataLocation(q)
      PROVE  \A k \in Query : LocInv(k)'
  <2>1. /\ at[q] = "tail" /\ UNCHANGED <<file, view, size, disturbed>>
        /\ loc' = [loc EXCEPT ![q] = MetadataLocations(Behind(q), size[q])]
        /\ at' = [at EXCEPT ![q] = IF loc'[q] = {} THEN "failed" ELSE "located"]
    BY <1>7 DEF ParsePqcapMetadataLocation, history, vars
  <2>2. ~ disturbed[q] => loc'[q] = MetadataLocations(file, file.size)
    BY <1>1, <2>1 DEF LocInv, Behind
  <2>3. LocInv(q)'
    BY <1>1, <2>1, <2>2 DEF LocInv, Located
  <2> QED BY <1>1, <2>1, <2>3, LocStepOfQuery
<1>8. ASSUME NEW q \in Query, OpenSubFile(q)  PROVE \A k \in Query : LocInv(k)'
  <2>1. /\ at[q] = "located" /\ UNCHANGED <<file, size, loc, disturbed>>
        /\ at' = [at EXCEPT ![q] = "meta"]
        /\ view' = [view EXCEPT ![q] = [live |-> TRUE, image |-> EmptyImage]]
    BY <1>8 DEF OpenSubFile, OpenPath, history, vars
  <2>2. LocInv(q)'
    BY <1>1, <2>1 DEF LocInv, Located
  <2> QED BY <1>1, <2>1, <2>2, LocStepOfQuery
<1>9. ASSUME NEW q \in Query, ReadParquetMeta(q)  PROVE \A k \in Query : LocInv(k)'
  <2>1. /\ at[q] = "meta" /\ UNCHANGED <<file, view, size, loc, disturbed>>
        /\ meta' = [meta EXCEPT ![q] = TablesBehind(q)]
        /\ at' = [at EXCEPT ![q] = IF meta'[q] = {} THEN "failed" ELSE "rows"]
    BY <1>9 DEF ReadParquetMeta, history, vars
  <2>2. meta'[q] = TablesBehind(q)
    BY <2>1 DEF QueryShape
  <2>3. LocInv(q)'
    BY <1>1, <1>3, <2>1, <2>2 DEF LocInv, Located
  <2> QED BY <2>1, <2>3, LocStepOfQuery
<1>10. ASSUME NEW q \in Query, ReadParquetRows(q)  PROVE \A k \in Query : LocInv(k)'
  <2>1. /\ at[q] = "rows" /\ UNCHANGED <<file, view, size, loc, disturbed>>
        /\ at' = [at EXCEPT ![q] = IF TablesBehind(q) = {} THEN "failed" ELSE "answered"]
    BY <1>10 DEF ReadParquetRows, private, history, vars
  <2>2. LocInv(q)'
    BY <1>1, <1>3, <2>1 DEF LocInv, Located
  <2> QED BY <2>1, <2>2, LocStepOfQuery
<1>11. ASSUME NEW q \in Query, Execute(q)  PROVE \A k \in Query : LocInv(k)'
  <2>1. /\ at[q] \in {"answered", "failed"} /\ loc[q] # {}
        /\ UNCHANGED <<file, view, size, loc, disturbed>>
        /\ at' = [at EXCEPT ![q] = "located"]
    BY <1>11 DEF Execute, private, vars
  <2>2. LocInv(q)'
    BY <1>1, <2>1 DEF LocInv, Located
  <2> QED BY <2>1, <2>2, LocStepOfQuery
<1>12. ASSUME NEW q \in Query, JobStep  PROVE LocInv(q)'
  <2>1. UNCHANGED <<at, view, size, loc>> /\ disturbed'[q] = (disturbed[q] \/ file' # file)
    BY <1>12 DEF JobStep, private
  <2>2. LocInv(q)
    OBVIOUS
  <2> QED BY <2>1, <2>2 DEF LocInv
<1>13. ASSUME NEW q \in Query, ReplacePath  PROVE LocInv(q)'
  <2>1. UNCHANGED <<at, size, loc>> /\ disturbed'[q] = TRUE
    BY <1>13 DEF ReplacePath
  <2>2. LocInv(q)
    OBVIOUS
  <2> QED BY <2>1, <2>2 DEF LocInv
<1>14. ASSUME NEW q \in Query, UNCHANGED allVars  PROVE LocInv(q)'
  <2>1. UNCHANGED <<file, at, view, size, loc, disturbed>>
    BY <1>14 DEF allVars, queryVars, private, history, vars
  <2>2. LocInv(q)
    OBVIOUS
  <2> QED BY <2>1, <2>2 DEF LocInv
<1> QED BY <1>4, <1>5, <1>6, <1>7, <1>8, <1>9, <1>10, <1>11, <1>12, <1>13, <1>14
        DEF QueryNext, QueryStep

LEMMA LocatedInvStep ==
  ASSUME IsFiniteSet(Job), \A c \in Captures : Linked(c) /\ RightlyIndexed(c.image),
         LocatedInv, [QueryNext]_allVars
  PROVE  LocatedInv'
<1>1. QueryShape' /\ QueryShape
  BY QueryShapeStep DEF LocatedInv
<1>2. overlapped' \in BOOLEAN /\ (overlapped => overlapped')
  BY OverlapStays DEF LocatedInv
<1>3. ASSUME ~ overlapped'  PROVE RightInv' /\ \A q \in Query : LocInv(q)'
  <2>1. RightInv /\ \A q \in Query : LocInv(q)
    BY <1>2, <1>3 DEF LocatedInv
  <2>2. Alone'
    BY <1>3, <2>1, AloneStays DEF RightInv, SerialInv
  <2>3. RightInv'
    BY <2>1, <2>2, QueriesLook, RightInvStep
  <2> QED BY <1>1, <2>1, <2>3, LocInvStep
<1> QED BY <1>1, <1>2, <1>3 DEF LocatedInv

(* As long as no two jobs have been at work at once, a query that has      *)
(* located an index fails only if the file was written to or replaced      *)
(* since: wherever jobs have stopped early, and for any number of them.    *)
THEOREM LocatedReadable ==
  ASSUME IsFiniteSet(Job), \A c \in Captures : Linked(c) /\ RightlyIndexed(c.image)
  PROVE  QuerySpec => []LocatedIsReadable
<1>1. QueryInit => LocatedInv
  BY LocatedInvInit
<1>2. LocatedInv /\ [QueryNext]_allVars => LocatedInv'
  BY LocatedInvStep
<1>3. LocatedInv => LocatedIsReadable
  BY DEF LocatedInv, LocInv, LocatedIsReadable
<1> QED BY <1>1, <1>2, <1>3, PTL DEF QuerySpec

=============================================================================
