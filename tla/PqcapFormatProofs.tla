------------------------- MODULE PqcapFormatProofs -------------------------
(***************************************************************************)
(* Facts about captures and their images that the proofs of the writer, of *)
(* the indexer and of the queries share: what appending, embedding and     *)
(* cutting make of an image, and how a walk over it unfolds.               *)
(***************************************************************************)
EXTENDS PqcapFormat, WellFoundedInduction, TLAPS

(***************************************************************************)
(* Induction, over sets: the library's induction theorems take a           *)
(* predicate, which the provers cannot instantiate.                        *)
(***************************************************************************)

(* A set of natural numbers that is not empty has a least element.         *)
LEMMA LeastNumber ==
  ASSUME NEW T \in SUBSET Nat, T # {}
  PROVE  \E x \in T : \A y \in T : x <= y
<1> DEFINE Below == {p \in Nat \X Nat : p[1] < p[2]}
<1>1. IsWellFoundedOn(Below, Nat)
  BY NatLessThanWellFounded DEF OpToRel
<1>2. PICK x \in T : \A y \in T : ~ (<<y, x>> \in Below)
  <2> HIDE DEF Below
  <2> QED BY <1>1, WFMin
<1>3. ASSUME NEW y \in T  PROVE x <= y
  <2>1. <<y, x>> \in Nat \X Nat /\ x \in Nat /\ y \in Nat
    OBVIOUS
  <2>2. ~ (y < x)
    BY <1>2, <2>1
  <2> QED BY <2>1, <2>2
<1> QED BY <1>3

(* What holds at a position whenever it holds at those behind it holds     *)
(* everywhere.                                                             *)
LEMMA Downwards ==
  ASSUME NEW n \in Nat, NEW Q \in SUBSET (0..n),
         \A p \in 0..n : (\A q \in (p + 1)..n : q \in Q) => p \in Q
  PROVE  Q = 0..n
<1> SUFFICES ASSUME NEW r \in 0..n, r \notin Q  PROVE FALSE
  OBVIOUS
<1> DEFINE T == {m \in 0..n : n - m \notin Q}
<1>1. n - r \in T
  OBVIOUS
<1>2. PICK m \in T : \A y \in T : m <= y
  <2>1. T \in SUBSET Nat
    OBVIOUS
  <2> HIDE DEF T
  <2> QED BY <1>1, <2>1, LeastNumber
<1>3. n - m \in 0..n /\ n - m \notin Q
  OBVIOUS
<1>4. PICK q \in (n - m + 1)..n : q \notin Q
  BY <1>3
<1>5. n - q \in 0..n /\ n - (n - q) = q
  BY <1>3, <1>4
<1>6. n - q \in T
  BY <1>4, <1>5
<1>7. m <= n - q
  BY <1>2, <1>6
<1> QED BY <1>3, <1>4, <1>7

(* w is what a walk collects from each position on: nothing where it       *)
(* stops, else `out` and what it collects from `next` on.                  *)
Collects(w, n, stop, out, next) ==
  w = [p \in 0..n |-> IF p \in stop THEN <<>> ELSE out[p] \o w[next[p]]]

(* A walk that only goes forward is well defined.                          *)
LEMMA WalkExists ==
  ASSUME NEW n \in Nat, NEW stop, NEW out, NEW next,
         \A p \in 0..n : p \in stop \/ next[p] \in (p + 1)..n
  PROVE  \E w : Collects(w, n, stop, out, next)
<1> DEFINE From(g, p) == [q \in p..n |-> IF q \in stop THEN <<>> ELSE out[q] \o g[next[q]]]
           Q == {p \in 0..n : \E g : g = From(g, p)}
<1>1. ASSUME NEW p \in 0..n, \A q \in (p + 1)..n : q \in Q
      PROVE  p \in Q
  <2>1. \E h : h = From(h, p + 1)
    <3>1. CASE p + 1 \in (p + 1)..n
      BY <1>1, <3>1
    <3>2. CASE (p + 1)..n = {}
      <4>1. \A h : From(h, p + 1) = [q \in {} |-> <<>>]
        BY <3>2
      <4> HIDE DEF From
      <4> QED BY <4>1
    <3>3. (p + 1)..n = {} \/ p + 1 \in (p + 1)..n
      OBVIOUS
    <3> HIDE DEF From
    <3> QED BY <3>1, <3>2, <3>3
  <2>2. PICK h : h = From(h, p + 1)
    BY <2>1
  <2> DEFINE g == [q \in p..n |-> IF q = p THEN IF p \in stop THEN <<>> ELSE out[p] \o h[next[p]]
                                           ELSE h[q]]
  <2>3. ASSUME NEW q \in (p + 1)..n  PROVE g[q] = h[q]
    OBVIOUS
  <2>4. ASSUME NEW q \in p..n
        PROVE  g[q] = IF q \in stop THEN <<>> ELSE out[q] \o g[next[q]]
    <3>1. CASE q \in stop
      <4>1. CASE q = p
        BY <3>1, <4>1
      <4>2. CASE q # p
        <5>1. q \in (p + 1)..n
          BY <4>2
        <5>2. h[q] = <<>>
          BY <2>2, <3>1, <5>1
        <5> QED BY <2>3, <3>1, <5>1, <5>2
      <4> QED BY <4>1, <4>2
    <3>2. CASE q \notin stop
      <4>1. next[q] \in (q + 1)..n
        BY <3>2
      <4>2. next[q] \in (p + 1)..n
        BY <4>1
      <4>3. g[next[q]] = h[next[q]]
        BY <2>3, <4>2
      <4>4. CASE q = p
        <5>1. g[p] = out[p] \o h[next[p]]
          BY <3>2, <4>4
        <5> HIDE DEF g
        <5> QED BY <3>2, <4>3, <4>4, <5>1
      <4>5. CASE q # p
        <5>1. q \in (p + 1)..n
          BY <4>5
        <5>2. h[q] = out[q] \o h[next[q]]
          BY <2>2, <3>2, <5>1
        <5>3. g[q] = h[q]
          BY <2>3, <5>1
        <5> HIDE DEF g
        <5> QED BY <3>2, <4>3, <5>2, <5>3
      <4> QED BY <4>4, <4>5
    <3> QED BY <3>1, <3>2
  <2>5. g = [q \in p..n |-> g[q]]
    OBVIOUS
  <2> HIDE DEF g
  <2>6. g = From(g, p)
    BY <2>4, <2>5
  <2> QED BY <2>6
<1>2. Q \in SUBSET (0..n)
  OBVIOUS
<1> HIDE DEF Q
<1>3. Q = 0..n
  BY <1>1, <1>2, Downwards
<1>4. 0 \in Q
  BY <1>3
<1>5. \E g : g = From(g, 0)
  BY <1>4 DEF Q
<1> QED BY <1>5 DEF Collects

(***************************************************************************)
(* Blocks and images.                                                      *)
(***************************************************************************)

(* The elements of a sequence over S are in S.                             *)
LEMMA ElementsOf ==
  ASSUME NEW S, NEW s \in Seq(S), NEW i \in 1..Len(s)
  PROVE  s[i] \in S
OBVIOUS

(* Two sequences, one behind the other.                                    *)
LEMMA Joined ==
  ASSUME NEW S, NEW s \in Seq(S), NEW t \in Seq(S)
  PROVE  /\ s \o t \in Seq(S)
         /\ Len(s \o t) = Len(s) + Len(t)
         /\ \A i \in 1..Len(s) : (s \o t)[i] = s[i]
         /\ \A i \in 1..Len(t) : (s \o t)[Len(s) + i] = t[i]
OBVIOUS

(* Padding rounds a length up, by less than 4 bytes.                       *)
LEMMA PadBounds ==
  ASSUME NEW n \in Nat
  PROVE  PadTo4(n) \in Nat /\ n <= PadTo4(n) /\ PadTo4(n) <= n + 3
BY DEF PadTo4

(* A block of any kind has numbers for its position and lengths.           *)
LEMMA BlockNumbers ==
  ASSUME NEW b \in Block
  PROVE  b.at \in Nat /\ b.held \in Nat /\ b.len \in Nat
BY DEF Block, BlockOf

(* The position and the lengths of a block of an image are numbers.        *)
LEMMA ImageNumbers ==
  ASSUME NEW f \in Image, NEW i \in DOMAIN f.blocks
  PROVE  /\ f.blocks[i] \in Block
         /\ f.blocks[i].at \in Nat /\ f.blocks[i].held \in Nat /\ f.blocks[i].len \in Nat
<1>1. i \in 1..Len(f.blocks) /\ f.blocks \in Seq(Block)
  BY DEF Image
<1>2. f.blocks[i] \in Block
  BY <1>1, ElementsOf
<1> QED BY <1>2, BlockNumbers

(* A block stays one when its position or its stored bytes change.         *)
LEMMA BlockUpdates ==
  ASSUME NEW b \in Block, NEW n \in Nat
  PROVE  /\ [b EXCEPT !.at = n] \in Block
         /\ [b EXCEPT !.held = n] \in Block
         /\ [b EXCEPT !.at = n].held = b.held
<1>1. CASE b \in BlockOf("SHB", [section : {TRUE}])
  BY <1>1 DEF Block, BlockOf
<1>2. CASE b \in BlockOf("IDB", [link : Nat])
  BY <1>2 DEF Block, BlockOf
<1>3. CASE b \in BlockOf("EPB", [pkt : Packet, cap : Nat, link : Nat, ord : Nat])
  BY <1>3 DEF Block, BlockOf
<1>4. CASE b \in BlockOf("SPB", [pkt : Packet, cap : Nat, link : Nat, ord : Nat])
  BY <1>4 DEF Block, BlockOf
<1>5. CASE b \in BlockOf("CUSTOM", [enterprise : {PQCAP_ENTERPRISE_ID}, magic : {PQCAP_MAGIC},
                                    version : Nat, length : Nat, table : Table])
  BY <1>5 DEF Block, BlockOf
<1>6. CASE b \in BlockOf("FOOTER", [enterprise : {PQCAP_ENTERPRISE_ID}, magic : {PQCAP_FOOTER_MAGIC},
                                    version : Nat, offset : Nat, length : Nat])
  BY <1>6 DEF Block, BlockOf
<1> QED BY <1>1, <1>2, <1>3, <1>4, <1>5, <1>6 DEF Block

(* A block whose position changes keeps the rest.                          *)
LEMMA MovedBlock ==
  ASSUME NEW b \in Block, NEW n \in Nat
  PROVE  LET c == [b EXCEPT !.at = n]
         IN  /\ c.at = n /\ c.type = b.type /\ c.held = b.held
             /\ c.len = b.len /\ c.body = b.body
<1>1. CASE b \in BlockOf("SHB", [section : {TRUE}])
  BY <1>1 DEF BlockOf
<1>2. CASE b \in BlockOf("IDB", [link : Nat])
  BY <1>2 DEF BlockOf
<1>3. CASE b \in BlockOf("EPB", [pkt : Packet, cap : Nat, link : Nat, ord : Nat])
  BY <1>3 DEF BlockOf
<1>4. CASE b \in BlockOf("SPB", [pkt : Packet, cap : Nat, link : Nat, ord : Nat])
  BY <1>4 DEF BlockOf
<1>5. CASE b \in BlockOf("CUSTOM", [enterprise : {PQCAP_ENTERPRISE_ID}, magic : {PQCAP_MAGIC},
                                    version : Nat, length : Nat, table : Table])
  BY <1>5 DEF BlockOf
<1>6. CASE b \in BlockOf("FOOTER", [enterprise : {PQCAP_ENTERPRISE_ID}, magic : {PQCAP_FOOTER_MAGIC},
                                    version : Nat, offset : Nat, length : Nat])
  BY <1>6 DEF BlockOf
<1> QED BY <1>1, <1>2, <1>3, <1>4, <1>5, <1>6 DEF Block

(* A block whose stored bytes are cut keeps the rest.                      *)
LEMMA CutBlock ==
  ASSUME NEW b \in Block, NEW n \in Nat
  PROVE  LET c == [b EXCEPT !.held = n]
         IN  /\ c \in Block
             /\ c.held = n /\ c.at = b.at /\ c.type = b.type /\ c.len = b.len
             /\ c.body = b.body
<1>1. CASE b \in BlockOf("SHB", [section : {TRUE}])
  BY <1>1, BlockUpdates DEF BlockOf
<1>2. CASE b \in BlockOf("IDB", [link : Nat])
  BY <1>2, BlockUpdates DEF BlockOf
<1>3. CASE b \in BlockOf("EPB", [pkt : Packet, cap : Nat, link : Nat, ord : Nat])
  BY <1>3, BlockUpdates DEF BlockOf
<1>4. CASE b \in BlockOf("SPB", [pkt : Packet, cap : Nat, link : Nat, ord : Nat])
  BY <1>4, BlockUpdates DEF BlockOf
<1>5. CASE b \in BlockOf("CUSTOM", [enterprise : {PQCAP_ENTERPRISE_ID}, magic : {PQCAP_MAGIC},
                                    version : Nat, length : Nat, table : Table])
  BY <1>5, BlockUpdates DEF BlockOf
<1>6. CASE b \in BlockOf("FOOTER", [enterprise : {PQCAP_ENTERPRISE_ID}, magic : {PQCAP_FOOTER_MAGIC},
                                    version : Nat, offset : Nat, length : Nat])
  BY <1>6, BlockUpdates DEF BlockOf
<1> QED BY <1>1, <1>2, <1>3, <1>4, <1>5, <1>6 DEF Block

(* Appending a block to an image yields an image.                          *)
LEMMA AppendImage ==
  ASSUME NEW f \in Image, NEW b \in Block
  PROVE  AppendBlock(f, b) \in Image
<1>1. [b EXCEPT !.at = f.size] \in Block
  BY BlockUpdates DEF Image
<1>2. f.size + b.held \in Nat
  BY BlockNumbers DEF Image
<1> QED BY <1>1, <1>2 DEF AppendBlock, Image

(* AppendBlock adds one block, at the end of the image, and keeps the rest.*)
LEMMA AppendFacts ==
  ASSUME NEW f \in Image, NEW b \in Block
  PROVE  LET g == AppendBlock(f, b)
             n == Len(f.blocks) + 1
         IN  /\ g \in Image
             /\ Len(f.blocks) \in Nat
             /\ DOMAIN f.blocks = 1..(n - 1)
             /\ DOMAIN g.blocks = 1..n
             /\ Len(g.blocks) = n
             /\ g.size = f.size + b.held
             /\ \A i \in DOMAIN f.blocks : g.blocks[i] = f.blocks[i]
             /\ g.blocks[n].at = f.size
             /\ g.blocks[n].type = b.type
             /\ g.blocks[n].held = b.held
             /\ g.blocks[n].len = b.len
             /\ g.blocks[n].body = b.body
<1> DEFINE c == [b EXCEPT !.at = f.size]
<1>1. f.blocks \in Seq(Block) /\ f.size \in Nat
  BY DEF Image
<1>2. c \in Block
  BY <1>1, BlockUpdates
<1>3. AppendBlock(f, b).blocks = Append(f.blocks, c)
  BY DEF AppendBlock
<1>4. AppendBlock(f, b).size = f.size + b.held
  BY DEF AppendBlock
<1>5. /\ Len(f.blocks) \in Nat
      /\ DOMAIN f.blocks = 1..Len(f.blocks)
      /\ Len(Append(f.blocks, c)) = Len(f.blocks) + 1
      /\ DOMAIN Append(f.blocks, c) = 1..(Len(f.blocks) + 1)
      /\ \A i \in 1..Len(f.blocks) : Append(f.blocks, c)[i] = f.blocks[i]
      /\ Append(f.blocks, c)[Len(f.blocks) + 1] = c
  BY <1>1, <1>2
<1>6. /\ c.at = f.size /\ c.type = b.type /\ c.held = b.held /\ c.len = b.len /\ c.body = b.body
  BY <1>1, MovedBlock
<1>7. Len(f.blocks) + 1 - 1 = Len(f.blocks)
  BY <1>5
<1> HIDE DEF c
<1> QED BY <1>3, <1>4, <1>5, <1>6, <1>7, AppendImage

(* A cut at a block leaves the blocks before it and what is left of it.    *)
LEMMA TornFacts ==
  ASSUME NEW f \in Image, NEW k \in DOMAIN f.blocks, NEW h \in Nat
  PROVE  LET g == TornAfter(f, k, h)
         IN  /\ g \in Image /\ g.size = f.blocks[k].at + h
             /\ k \in 1..Len(f.blocks) /\ DOMAIN f.blocks = 1..Len(f.blocks)
             /\ DOMAIN g.blocks = 1..k /\ Len(g.blocks) = k
             /\ \A i \in 1..(k - 1) : g.blocks[i] = f.blocks[i]
             /\ g.blocks[k].at = f.blocks[k].at
             /\ g.blocks[k].type = f.blocks[k].type
             /\ g.blocks[k].len = f.blocks[k].len
             /\ g.blocks[k].body = f.blocks[k].body
             /\ g.blocks[k].held = h
<1> DEFINE S == SubSeq(f.blocks, 1, k - 1)
           b == [f.blocks[k] EXCEPT !.held = h]
           g == TornAfter(f, k, h)
<1>1. /\ f.blocks \in Seq(Block) /\ Len(f.blocks) \in Nat
      /\ DOMAIN f.blocks = 1..Len(f.blocks) /\ k \in 1..Len(f.blocks)
  BY DEF Image
<1>2. f.blocks[k] \in Block /\ f.blocks[k].at \in Nat
  BY <1>1, ElementsOf, BlockNumbers
<1>3. /\ b \in Block /\ b.held = h /\ b.at = f.blocks[k].at /\ b.type = f.blocks[k].type
      /\ b.len = f.blocks[k].len /\ b.body = f.blocks[k].body
  BY <1>2, CutBlock
<1>4. /\ S \in Seq(Block) /\ Len(S) = k - 1
      /\ \A i \in 1..(k - 1) : S[i] = f.blocks[i]
  BY <1>1
<1>5. g.size = f.blocks[k].at + h /\ g.blocks = Append(S, b) /\ g = [size |-> g.size, blocks |-> g.blocks]
  BY DEF TornAfter
<1> HIDE DEF S, b, g
<1>6. /\ DOMAIN g.blocks = 1..k /\ Len(g.blocks) = k /\ g.blocks \in Seq(Block)
      /\ g.blocks[k] = b
      /\ \A i \in 1..(k - 1) : g.blocks[i] = f.blocks[i]
  BY <1>1, <1>3, <1>4, <1>5
<1>7. g.size \in Nat
  BY <1>2, <1>5
<1>8. g \in Image
  BY <1>5, <1>6, <1>7 DEF Image
<1> QED BY <1>1, <1>3, <1>5, <1>6, <1>8 DEF g

(* A failing write leaves nothing, or a cut that spares the last byte.     *)
LEMMA TornCases ==
  ASSUME NEW f \in Image, NEW cuts \in SUBSET Nat, NEW g \in TornImages(f, cuts)
  PROVE  \/ g = EmptyImage
         \/ \E k \in DOMAIN f.blocks, h \in Nat :
              /\ h <= f.blocks[k].held
              /\ k = Len(f.blocks) => h < f.blocks[k].held
              /\ g = TornAfter(f, k, h)
<1>1. Len(f.blocks) \in Nat /\ DOMAIN f.blocks = 1..Len(f.blocks)
  BY DEF Image
<1>2. \A k \in DOMAIN f.blocks : f.blocks[k].held \in Nat
  BY ImageNumbers
<1>3. CASE \E k \in 1..(Len(f.blocks) - 1) : g = TornAfter(f, k, f.blocks[k].held)
  <2> PICK k \in 1..(Len(f.blocks) - 1) : g = TornAfter(f, k, f.blocks[k].held)
    BY <1>3
  <2>1. k \in DOMAIN f.blocks /\ k # Len(f.blocks)
    BY <1>1
  <2> QED BY <1>2, <2>1
<1>4. CASE \E k \in 1..Len(f.blocks) : \E h \in cuts \cap 1..(f.blocks[k].held - 1) :
             g = TornAfter(f, k, h)
  <2> PICK k \in 1..Len(f.blocks) :
         \E h \in cuts \cap 1..(f.blocks[k].held - 1) : g = TornAfter(f, k, h)
    BY <1>4
  <2> PICK h \in cuts \cap 1..(f.blocks[k].held - 1) : g = TornAfter(f, k, h)
    OBVIOUS
  <2>1. k \in DOMAIN f.blocks /\ h \in Nat /\ f.blocks[k].held \in Nat
    BY <1>1, <1>2
  <2>2. h < f.blocks[k].held
    BY <2>1
  <2> QED BY <2>1, <2>2
<1> QED BY <1>3, <1>4 DEF TornImages

(* Whatever a failing write leaves of an image is an image.                *)
LEMMA TornImagesAreImages ==
  ASSUME NEW f \in Image, NEW cuts \in SUBSET Nat
  PROVE  TornImages(f, cuts) \subseteq Image
<1> SUFFICES ASSUME NEW g \in TornImages(f, cuts) PROVE g \in Image
  OBVIOUS
<1>1. EmptyImage \in Image
  BY DEF EmptyImage, Image
<1> QED BY <1>1, TornCases, TornFacts

(***************************************************************************)
(* The file that EmbedParquet makes.                                       *)
(***************************************************************************)

(* Embedding a table in an image yields an image.                          *)
LEMMA EmbeddedImage ==
  ASSUME NEW f \in Image, NEW t \in Table, NEW length \in Nat
  PROVE  EmbedParquet(f, t, length) \in Image
<1>1. U32 \in Nat \ {0} /\ U64 \in Nat \ {0}
  BY WidthAssumption
<1>2. CustomBodySize(length) \in Nat
  BY PadBounds DEF CustomBodySize
<1>3. CustomBlock(t, length) \in Block
  <2>1. 12 + CustomBodySize(length) \in Nat /\ (12 + CustomBodySize(length)) % U32 \in Nat
    BY <1>1, <1>2
  <2> QED BY <2>1 DEF CustomBlock, Block, BlockOf
<1>4. ParquetAbsOffset(f) \in Nat /\ length % U64 \in Nat
  BY <1>1 DEF ParquetAbsOffset, Image, META_DATA
<1>5. FooterBlock(ParquetAbsOffset(f), length % U64) \in Block
  BY <1>4 DEF FooterBlock, Block, BlockOf
<1> QED BY <1>3, <1>5, AppendImage DEF EmbedParquet

(* What EmbedParquet makes of f: g has two blocks more.                    *)
Embeds(f, t, length, g) ==
  LET n == Len(f.blocks)
  IN  /\ n \in Nat /\ f.size \in Nat
      /\ g \in Image
      /\ DOMAIN f.blocks = 1..n
      /\ DOMAIN g.blocks = 1..(n + 2)
      /\ Len(g.blocks) = n + 2
      /\ \A i \in 1..n : g.blocks[i] = f.blocks[i]
      /\ g.blocks[n + 1].type = "CUSTOM"
      /\ g.blocks[n + 1].at = f.size
      /\ g.blocks[n + 1].held >= META_DATA + length
      /\ g.blocks[n + 1].body.length = length
      /\ g.blocks[n + 1].body.table = t
      /\ g.blocks[n + 2].type = "FOOTER"
      /\ g.blocks[n + 2].held = 44
      /\ ParseFooterLocator(g.blocks[n + 2])
      /\ g.blocks[n + 2].body.offset = (f.size + META_DATA) % U64
      /\ g.blocks[n + 2].body.length = length % U64
      /\ g.blocks[n + 2].at = f.size + g.blocks[n + 1].held
      /\ g.size = f.size + g.blocks[n + 1].held + 44
      /\ g.size >= f.size + META_DATA + length

LEMMA EmbedFacts ==
  ASSUME NEW f \in Image, NEW t \in Table, NEW length \in Nat \ {0}
  PROVE  Embeds(f, t, length, EmbedParquet(f, t, length))
<1> DEFINE c == CustomBlock(t, length)
           k == FooterBlock(ParquetAbsOffset(f), length % U64)
           h == AppendBlock(f, c)
           g == AppendBlock(h, k)
           n == Len(f.blocks)
<1>1. U32 \in Nat \ {0} /\ U64 \in Nat \ {0} /\ length \in Nat
  BY WidthAssumption
<1>2. CustomBodySize(length) \in Nat /\ CustomBodySize(length) >= 25 + length
  BY PadBounds DEF CustomBodySize
<1>3. c \in Block
  <2>1. 12 + CustomBodySize(length) \in Nat /\ (12 + CustomBodySize(length)) % U32 \in Nat
    BY <1>1, <1>2
  <2> QED BY <2>1 DEF CustomBlock, Block, BlockOf
<1>4. k \in Block
  <2>1. ParquetAbsOffset(f) \in Nat /\ length % U64 \in Nat
    BY <1>1 DEF ParquetAbsOffset, Image, META_DATA
  <2> QED BY <2>1 DEF FooterBlock, Block, BlockOf
<1>5. /\ c.type = "CUSTOM" /\ c.held = 12 + CustomBodySize(length)
      /\ c.body.length = length /\ c.body.table = t
  BY DEF CustomBlock
<1>6. /\ k.type = "FOOTER" /\ k.held = 44 /\ k.len = 44
      /\ k.body.enterprise = PQCAP_ENTERPRISE_ID /\ k.body.magic = PQCAP_FOOTER_MAGIC
      /\ k.body.version = 1
      /\ k.body.offset = (f.size + META_DATA) % U64 /\ k.body.length = length % U64
  BY DEF FooterBlock, ParquetAbsOffset
<1> HIDE DEF c, k
<1>7. /\ h \in Image /\ n \in Nat /\ DOMAIN f.blocks = 1..n
      /\ DOMAIN h.blocks = 1..(n + 1) /\ Len(h.blocks) = n + 1
      /\ h.size = f.size + c.held
      /\ \A i \in 1..n : h.blocks[i] = f.blocks[i]
      /\ h.blocks[n + 1].at = f.size /\ h.blocks[n + 1].type = c.type
      /\ h.blocks[n + 1].held = c.held /\ h.blocks[n + 1].body = c.body
  BY <1>3, AppendFacts
<1> HIDE DEF h
<1>8. /\ g \in Image
      /\ DOMAIN g.blocks = 1..(Len(h.blocks) + 1) /\ Len(g.blocks) = Len(h.blocks) + 1
      /\ g.size = h.size + k.held
      /\ \A i \in DOMAIN h.blocks : g.blocks[i] = h.blocks[i]
      /\ g.blocks[Len(h.blocks) + 1].type = k.type
      /\ g.blocks[Len(h.blocks) + 1].held = k.held
      /\ g.blocks[Len(h.blocks) + 1].len = k.len
      /\ g.blocks[Len(h.blocks) + 1].at = h.size
      /\ g.blocks[Len(h.blocks) + 1].body = k.body
  BY <1>4, <1>7, AppendFacts
<1>9. EmbedParquet(f, t, length) = g
  BY DEF EmbedParquet, c, k, h
<1> HIDE DEF g
<1>10. /\ Len(h.blocks) + 1 = n + 2 /\ f.size \in Nat
       /\ \A i \in 1..n : i \in DOMAIN h.blocks
       /\ n + 1 \in DOMAIN h.blocks
  <2>1. n + 1 + 1 = n + 2
    BY <1>7
  <2> QED BY <1>7, <2>1 DEF Image
<1>11. c.held >= META_DATA + length /\ g.size >= f.size + META_DATA + length
  <2> DEFINE s == CustomBodySize(length)
             z == f.size
  <2>1. s \in Nat /\ s >= 25 + length /\ z \in Nat
    BY <1>2, <1>10
  <2>2. c.held = 12 + s /\ g.size = z + (12 + s) + 44
    <3>1. h.size = z + (12 + s)
      BY <1>5, <1>7
    <3>2. g.size = h.size + 44
      BY <1>6, <1>8
    <3> QED BY <1>5, <3>1, <3>2
  <2> HIDE DEF s, z
  <2>3. 12 + s >= 33 + length /\ z + (12 + s) + 44 >= z + 33 + length
    BY <1>1, <2>1
  <2> QED BY <2>2, <2>3 DEF z, META_DATA
<1>12. /\ DOMAIN g.blocks = 1..(n + 2) /\ Len(g.blocks) = n + 2
       /\ g.blocks[n + 2].type = "FOOTER" /\ g.blocks[n + 2].held = 44
       /\ g.blocks[n + 2].body.offset = (f.size + META_DATA) % U64
       /\ g.blocks[n + 2].body.length = length % U64
       /\ g.blocks[n + 2].at = h.size
  BY <1>6, <1>8, <1>10
<1>13. g.blocks[n + 1] = h.blocks[n + 1] /\ \A i \in 1..n : g.blocks[i] = f.blocks[i]
  BY <1>7, <1>8, <1>10
<1>14. ParseFooterLocator(g.blocks[n + 2])
  <2>1. /\ g.blocks[n + 2].len = 44 /\ g.blocks[n + 2].body.enterprise = PQCAP_ENTERPRISE_ID
        /\ g.blocks[n + 2].body.magic = PQCAP_FOOTER_MAGIC /\ g.blocks[n + 2].body.version = 1
    BY <1>6, <1>8, <1>10
  <2> QED BY <1>12, <2>1 DEF ParseFooterLocator, PQCAP_FOOTER_BLOCK_SIZE
<1> HIDE DEF n
<1>15. /\ g.blocks[n + 1].type = "CUSTOM" /\ g.blocks[n + 1].at = f.size
       /\ g.blocks[n + 1].held = c.held
       /\ g.blocks[n + 1].held >= META_DATA + length
       /\ g.blocks[n + 1].body.length = length /\ g.blocks[n + 1].body.table = t
  BY <1>5, <1>7, <1>11, <1>13
<1>16. /\ g.blocks[n + 2].at = f.size + g.blocks[n + 1].held
       /\ g.size = f.size + g.blocks[n + 1].held + 44
  BY <1>6, <1>7, <1>8, <1>12, <1>15
<1>17. Embeds(f, t, length, g)
  BY <1>7, <1>8, <1>10, <1>11, <1>12, <1>13, <1>14, <1>15, <1>16 DEF Embeds, n
<1> QED BY <1>9, <1>17

(* The footer that EmbedParquet appends is one that read_pqcap accepts, in *)
(* a file shorter than 2^64 bytes.                                         *)
LEMMA EmbedAccepted ==
  ASSUME NEW f \in Image, NEW t \in Table, NEW length \in Nat \ {0},
         EmbedParquet(f, t, length).size < U64
  PROVE  LET g == EmbedParquet(f, t, length)
         IN  /\ LocatorAccepted(g)
             /\ TailBlock(g).body.offset = f.size + META_DATA
             /\ TailBlock(g).body.length = length
<1> DEFINE g == EmbedParquet(f, t, length)
           x == f.size + META_DATA
           n == Len(f.blocks)
           h == g.blocks[n + 1].held
           z == g.size
<1>1. Embeds(f, t, length, g)
  BY EmbedFacts
<1> HIDE DEF g
<1>2. /\ n \in Nat /\ f.size \in Nat /\ g \in Image /\ DOMAIN g.blocks = 1..(n + 2)
      /\ Len(g.blocks) = n + 2 /\ ParseFooterLocator(g.blocks[n + 2])
      /\ g.blocks[n + 2].body.offset = x % U64 /\ g.blocks[n + 2].body.length = length % U64
      /\ h >= META_DATA + length /\ g.blocks[n + 2].at = f.size + h
      /\ z = f.size + h + 44
  BY <1>1 DEF Embeds
<1>3. z < U64 /\ U64 \in Nat /\ z \in Nat /\ length \in Nat \ {0} /\ h \in Nat
  <2>1. n + 1 \in DOMAIN g.blocks
    BY <1>2
  <2>2. h \in Nat
    BY <1>2, <2>1, ImageNumbers
  <2> QED BY <1>2, <2>2, WidthAssumption DEF Image, g
<1>4. TailBlock(g) = g.blocks[n + 2] /\ g.blocks # <<>>
  BY <1>2 DEF TailBlock
<1> HIDE DEF n, h, z
<1>5. x \in Nat /\ z >= x + length /\ z >= 44 /\ f.size + h = z - 44
  <2> DEFINE s == f.size
  <2>1. s \in Nat /\ h >= META_DATA + length /\ z = s + h + 44 /\ x = s + META_DATA
    BY <1>2
  <2> HIDE DEF s, x
  <2>2. x \in Nat /\ z >= x + length /\ z >= 44 /\ s + h = z - 44
    BY <2>1, <1>3 DEF META_DATA
  <2> QED BY <2>2 DEF s
<1> HIDE DEF x
<1>6. HasFooter(g)
  BY <1>2, <1>4, <1>5 DEF HasFooter, PQCAP_FOOTER_BLOCK_SIZE, z
<1>7. x % U64 = x /\ length % U64 = length /\ (x + length) % U64 = x + length
  <2>1. x \in 0..(U64 - 1) /\ length \in 0..(U64 - 1) /\ x + length \in 0..(U64 - 1)
    BY <1>3, <1>5
  <2> QED BY <1>3, <2>1
<1>8. RangeAccepted(x, length, z)
  BY <1>3, <1>5, <1>7 DEF RangeAccepted
<1>9. TailBlock(g).body.offset = x /\ TailBlock(g).body.length = length
  BY <1>2, <1>4, <1>7
<1>10. LocatorAccepted(g)
  BY <1>6, <1>8, <1>9 DEF LocatorAccepted, z
<1> QED BY <1>9, <1>10 DEF g, x

(* Embedding an index neither adds nor moves a packet.                     *)
LEMMA EmbedKeepsPackets ==
  ASSUME NEW f \in Image, NEW t \in Table, NEW length \in Nat \ {0}
  PROVE  LET g == EmbedParquet(f, t, length)
         IN  /\ PacketBlocks(g) = PacketBlocks(f)
             /\ \A i \in PacketBlocks(f) : g.blocks[i] = f.blocks[i]
<1> DEFINE g == EmbedParquet(f, t, length)
           n == Len(f.blocks)
<1>1. /\ n \in Nat
      /\ DOMAIN f.blocks = 1..n
      /\ DOMAIN g.blocks = 1..(n + 2)
      /\ \A i \in 1..n : g.blocks[i] = f.blocks[i]
      /\ g.blocks[n + 1].type = "CUSTOM"
      /\ g.blocks[n + 2].type = "FOOTER"
  <2>1. Embeds(f, t, length, g)
    BY EmbedFacts
  <2> QED BY <2>1 DEF Embeds
<1> HIDE DEF g, n
<1>2. \A i \in DOMAIN g.blocks : i \in 1..n \/ i = n + 1 \/ i = n + 2
  BY <1>1
<1>3. \A i \in PacketBlocks(g) : i \in 1..n
  BY <1>1, <1>2 DEF PacketBlocks
<1>4. \A i \in 1..n : i \in DOMAIN g.blocks
  BY <1>1
<1>5. /\ PacketBlocks(g) = PacketBlocks(f)
      /\ \A i \in PacketBlocks(f) : g.blocks[i] = f.blocks[i]
  BY <1>1, <1>3, <1>4 DEF PacketBlocks
<1> QED BY <1>5 DEF g

(* The index that EmbedParquet embeds is the one that read_pqcap finds, in *)
(* a file shorter than 2^64 bytes in which no block stands past the end.   *)
LEMMA EmbedFound ==
  ASSUME NEW f \in Image, NEW t \in Table, NEW length \in Nat \ {0},
         InFile(f), EmbedParquet(f, t, length).size < U64
  PROVE  LET g == EmbedParquet(f, t, length)
         IN  LocatorAccepted(g) /\ PublishedTables(g) = {t}
<1> DEFINE g == EmbedParquet(f, t, length)
           n == Len(f.blocks)
<1>1. /\ LocatorAccepted(g)
      /\ TailBlock(g).body.offset = f.size + META_DATA
      /\ TailBlock(g).body.length = length
  BY EmbedAccepted
<1>2. Embeds(f, t, length, g)
  BY EmbedFacts
<1> HIDE DEF g
<1>3. /\ n \in Nat /\ f.size \in Nat
      /\ DOMAIN f.blocks = 1..n
      /\ DOMAIN g.blocks = 1..(n + 2)
      /\ \A i \in 1..n : g.blocks[i] = f.blocks[i]
      /\ g.blocks[n + 1].type = "CUSTOM"
      /\ g.blocks[n + 1].at = f.size
      /\ g.blocks[n + 1].held >= META_DATA + length
      /\ g.blocks[n + 1].body.length = length
      /\ g.blocks[n + 1].body.table = t
      /\ g.blocks[n + 2].type = "FOOTER"
  BY <1>2 DEF Embeds
<1> HIDE DEF n
<1>4. ASSUME NEW i \in DOMAIN g.blocks, g.blocks[i].type = "CUSTOM",
             g.blocks[i].at + META_DATA = f.size + META_DATA,
             g.blocks[i].held >= META_DATA + length
      PROVE  i = n + 1
  <2>1. CASE i \in 1..n
    <3> DEFINE a == f.blocks[i].at
               h == f.blocks[i].held
               z == f.size
    <3>1. a \in Nat /\ h \in Nat /\ a + h <= z /\ z \in Nat
      BY <1>3, <2>1, ImageNumbers DEF InFile
    <3>2. a + META_DATA = z + META_DATA /\ h >= META_DATA + length
      BY <1>3, <1>4, <2>1
    <3> HIDE DEF a, h, z
    <3>3. FALSE
      BY <3>1, <3>2 DEF META_DATA
    <3> QED BY <3>3
  <2>2. i = n + 1 \/ i = n + 2 \/ i \in 1..n
    BY <1>3
  <2> QED BY <1>3, <1>4, <2>1, <2>2
<1>5. n + 1 \in DOMAIN g.blocks
  BY <1>3
<1>6. TablesAt(g, f.size + META_DATA, length) = {t}
  BY <1>3, <1>4, <1>5 DEF TablesAt
<1>7. PublishedTables(g) = {t}
  BY <1>1, <1>6 DEF PublishedTables
<1> QED BY <1>1, <1>7 DEF g

(* Without a footer block at its end an image has no index.                *)
LEMMA NoFooterNoIndex ==
  ASSUME NEW f, f.blocks # <<>> => TailBlock(f).type # "FOOTER" \/ TailBlock(f).held # 44
  PROVE  ~ LocatorAccepted(f)
BY DEF LocatorAccepted, HasFooter, ParseFooterLocator, PQCAP_FOOTER_BLOCK_SIZE

(***************************************************************************)
(* Images whose blocks follow one another.                                 *)
(***************************************************************************)
OrderedImage == {f \in Image : InOrder(f)}

LEMMA EmptyOrdered == EmptyImage \in OrderedImage
BY DEF EmptyImage, OrderedImage, Image, InOrder, InFile

(* What is appended to a file follows the blocks that are there.           *)
LEMMA EmbedOrdered ==
  ASSUME NEW f \in OrderedImage, NEW t \in Table, NEW length \in Nat \ {0}
  PROVE  EmbedParquet(f, t, length) \in OrderedImage
<1> DEFINE g == EmbedParquet(f, t, length)
           n == Len(f.blocks)
           z == f.size
           h == g.blocks[n + 1].held
<1>1. f \in Image /\ InOrder(f)
  BY DEF OrderedImage
<1>2. Embeds(f, t, length, g)
  BY <1>1, EmbedFacts
<1> HIDE DEF g
<1>3. /\ n \in Nat /\ z \in Nat /\ g \in Image /\ h \in Nat
      /\ DOMAIN f.blocks = 1..n /\ DOMAIN g.blocks = 1..(n + 2)
      /\ \A i \in 1..n : g.blocks[i] = f.blocks[i]
      /\ g.blocks[n + 1].at = z
      /\ g.blocks[n + 2].at = z + h /\ g.blocks[n + 2].held = 44
      /\ g.size = z + h + 44
  <2>1. /\ n \in Nat /\ z \in Nat /\ g \in Image
        /\ DOMAIN f.blocks = 1..n /\ DOMAIN g.blocks = 1..(n + 2)
        /\ \A i \in 1..n : g.blocks[i] = f.blocks[i]
        /\ g.blocks[n + 1].at = z
        /\ g.blocks[n + 2].at = z + h /\ g.blocks[n + 2].held = 44
        /\ g.size = z + h + 44
    BY <1>2 DEF Embeds
  <2>2. n + 1 \in DOMAIN g.blocks
    BY <2>1
  <2> QED BY <2>1, <2>2, ImageNumbers
<1> DEFINE end(i) == g.blocks[i].at + g.blocks[i].held
<1>4. \A i \in 1..n : end(i) <= z /\ end(i) \in Nat
  <2>1. \A i \in DOMAIN f.blocks :
          /\ f.blocks[i].at + f.blocks[i].held <= f.size
          /\ f.blocks[i].at + f.blocks[i].held \in Nat
    BY <1>1, ImageNumbers DEF InOrder, InFile
  <2> QED BY <1>3, <2>1
<1>5. end(n + 1) = z + h /\ end(n + 2) = z + h + 44
  BY <1>3
<1>6. \A i \in 1..n, k \in 1..n : i < k => end(i) <= g.blocks[k].at
  BY <1>1, <1>3 DEF InOrder
<1>7. \A i \in DOMAIN g.blocks : i \in 1..n \/ i = n + 1 \/ i = n + 2
  BY <1>3
<1> HIDE DEF n, z, h, end
<1>8. \A i \in DOMAIN g.blocks : end(i) <= g.size
  <2> SUFFICES ASSUME NEW i \in DOMAIN g.blocks  PROVE end(i) <= g.size
    OBVIOUS
  <2>1. CASE i \in 1..n
    <3>1. end(i) <= z /\ end(i) \in Nat
      BY <1>4, <2>1
    <3> QED BY <1>3, <3>1
  <2>2. CASE i = n + 1 \/ i = n + 2
    BY <1>3, <1>5, <2>2
  <2> QED BY <1>7, <2>1, <2>2
<1>9. ASSUME NEW i \in DOMAIN g.blocks, NEW k \in DOMAIN g.blocks, i < k
      PROVE  end(i) <= g.blocks[k].at
  <2>1. CASE k \in 1..n
    <3>1. i \in 1..n
      BY <1>3, <1>9, <2>1
    <3> QED BY <1>6, <1>9, <2>1, <3>1
  <2>2. CASE k = n + 1
    <3>1. i \in 1..n
      BY <1>3, <1>9, <2>2
    <3> QED BY <1>3, <1>4, <2>2, <3>1
  <2>3. CASE k = n + 2
    <3>1. i \in 1..n \/ i = n + 1
      BY <1>3, <1>7, <1>9, <2>3
    <3>2. CASE i \in 1..n
      <4>1. end(i) <= z /\ end(i) \in Nat
        BY <1>4, <3>2
      <4> QED BY <1>3, <2>3, <4>1
    <3>3. CASE i = n + 1
      BY <1>3, <1>5, <2>3, <3>3
    <3> QED BY <3>1, <3>2, <3>3
  <2> QED BY <1>7, <2>1, <2>2, <2>3
<1>10. InOrder(g)
  BY <1>8, <1>9 DEF InOrder, InFile, end
<1> QED BY <1>3, <1>10 DEF OrderedImage, g

LEMMA TornOrdered ==
  ASSUME NEW f \in OrderedImage, NEW cuts \in SUBSET Nat, NEW g \in TornImages(f, cuts)
  PROVE  g \in OrderedImage
<1>1. f \in Image /\ InOrder(f)
  BY DEF OrderedImage
<1>2. ASSUME NEW k \in DOMAIN f.blocks, NEW h \in Nat, h <= f.blocks[k].held,
             g = TornAfter(f, k, h)
      PROVE  g \in OrderedImage
  <2>1. /\ g \in Image /\ g.size = f.blocks[k].at + h
        /\ k \in 1..Len(f.blocks) /\ DOMAIN f.blocks = 1..Len(f.blocks) /\ Len(f.blocks) \in Nat
        /\ DOMAIN g.blocks = 1..k
        /\ \A i \in 1..(k - 1) : g.blocks[i] = f.blocks[i]
        /\ g.blocks[k].at = f.blocks[k].at /\ g.blocks[k].held = h
    <3>1. /\ g \in Image /\ g.size = f.blocks[k].at + h
          /\ k \in 1..Len(f.blocks) /\ DOMAIN f.blocks = 1..Len(f.blocks)
          /\ DOMAIN g.blocks = 1..k
          /\ \A i \in 1..(k - 1) : g.blocks[i] = f.blocks[i]
          /\ g.blocks[k].at = f.blocks[k].at /\ g.blocks[k].held = h
      BY <1>1, <1>2, TornFacts
    <3>2. Len(f.blocks) \in Nat
      BY <1>1 DEF Image
    <3> QED BY <3>1, <3>2
  <2> DEFINE a == f.blocks[k].at
  <2>2. a \in Nat
    BY <1>1, ImageNumbers
  <2>3. \A i \in 1..(k - 1) :
          /\ i \in DOMAIN f.blocks /\ i < k
          /\ g.blocks[i].at + g.blocks[i].held \in Nat
          /\ g.blocks[i].at + g.blocks[i].held <= a
    <3>1. \A i \in 1..(k - 1) : i \in DOMAIN f.blocks /\ i < k
      BY <2>1
    <3>2. \A i \in 1..(k - 1) : f.blocks[i].at + f.blocks[i].held <= a
      BY <1>1, <1>2, <3>1 DEF InOrder
    <3>3. \A i \in 1..(k - 1) : f.blocks[i].at + f.blocks[i].held \in Nat
      BY <1>1, <3>1, ImageNumbers
    <3> HIDE DEF a
    <3> QED BY <2>1, <3>1, <3>2, <3>3
  <2>4. \A i \in DOMAIN g.blocks : i \in 1..(k - 1) \/ i = k
    BY <2>1
  <2> HIDE DEF a
  <2>5. \A i \in DOMAIN g.blocks : g.blocks[i].at + g.blocks[i].held <= a + h
    <3>1. \A i \in 1..(k - 1) : g.blocks[i].at + g.blocks[i].held <= a + h
      BY <2>2, <2>3
    <3>2. g.blocks[k].at + g.blocks[k].held <= a + h
      BY <2>1, <2>2 DEF a
    <3> QED BY <2>4, <3>1, <3>2
  <2>6. ASSUME NEW i \in DOMAIN g.blocks, NEW l \in DOMAIN g.blocks, i < l
        PROVE  g.blocks[i].at + g.blocks[i].held <= g.blocks[l].at
    <3>1. i \in 1..(k - 1)
      BY <2>1, <2>6
    <3>2. CASE l = k
      BY <2>1, <2>3, <3>1, <3>2 DEF a
    <3>3. CASE l \in 1..(k - 1)
      <4>1. i \in DOMAIN f.blocks /\ l \in DOMAIN f.blocks
        BY <2>3, <3>1, <3>3
      <4> QED BY <1>1, <2>1, <2>6, <3>1, <3>3, <4>1 DEF InOrder
    <3> QED BY <2>4, <3>2, <3>3
  <2>7. g.size = a + h
    BY <2>1 DEF a
  <2>8. InOrder(g)
    BY <2>5, <2>6, <2>7 DEF InOrder, InFile
  <2> QED BY <2>1, <2>8 DEF OrderedImage
<1> QED BY <1>1, <1>2, TornCases, EmptyOrdered

(***************************************************************************)
(* ScanPacketLocations and the table.                                      *)
(***************************************************************************)

(* Where the walk goes on, it reads the header of a block that starts      *)
(* there.                                                                  *)
LEMMA ScanReadsBlock ==
  ASSUME NEW f \in Image, NEW p \in Nat, ~ ScanStops(f, p)
  PROVE  \E i \in DOMAIN f.blocks :
           /\ HeaderAt(f, p) = f.blocks[i]
           /\ f.blocks[i].at = p
           /\ f.blocks[i].len >= 12
<1>1. ~ (HeaderAt(f, p).len < 12)
  BY DEF ScanStops
<1>2. \E i \in DOMAIN f.blocks : f.blocks[i].at = p /\ f.blocks[i].held >= 8
  BY <1>1 DEF HeaderAt, OpaqueHeader
<1>3. PICK i \in DOMAIN f.blocks : HeaderAt(f, p) = f.blocks[i] /\ f.blocks[i].at = p
  BY <1>2 DEF HeaderAt
<1>4. f.blocks[i].len \in Nat
  BY BlockNumbers DEF Image
<1> QED BY <1>1, <1>3, <1>4

(* The locations of a block are at most one, with natural numbers in it.   *)
LEMMA LocationTypes ==
  ASSUME NEW b \in Block, NEW p \in Nat
  PROVE  LocationsAt(b, p) \in Seq([offset : Nat, size : Nat])
<1>1. b.type \in {"EPB", "SPB"} => b.body.cap \in Nat
  BY DEF Block, BlockOf
<1>2. CASE b.type = "EPB" /\ b.len >= 32
  <2>1. [offset |-> p + EPB_DATA, size |-> b.body.cap] \in [offset : Nat, size : Nat]
    BY <1>1, <1>2 DEF EPB_DATA
  <2>2. LocationsAt(b, p) = <<[offset |-> p + EPB_DATA, size |-> b.body.cap]>>
    BY <1>2 DEF LocationsAt
  <2> QED BY <2>1, <2>2
<1>3. CASE b.type = "SPB" /\ b.len >= 16 /\ ~ (b.type = "EPB" /\ b.len >= 32)
  <2>1. [offset |-> p + SPB_DATA, size |-> b.body.cap] \in [offset : Nat, size : Nat]
    BY <1>1, <1>3 DEF SPB_DATA
  <2>2. LocationsAt(b, p) = <<[offset |-> p + SPB_DATA, size |-> b.body.cap]>>
    BY <1>3 DEF LocationsAt
  <2> QED BY <2>1, <2>2
<1>4. CASE ~ (b.type = "EPB" /\ b.len >= 32) /\ ~ (b.type = "SPB" /\ b.len >= 16)
  <2>1. LocationsAt(b, p) = <<>>
    BY <1>4 DEF LocationsAt
  <2> QED BY <2>1
<1> QED BY <1>2, <1>3, <1>4

(* As many rows as locations make a table.                                 *)
LEMMA MetadataTableType ==
  ASSUME NEW S, \A r \in S : r.pkt \in Packet /\ r.captured \in Nat /\ r.link \in Nat,
         NEW R \in Seq(S), NEW L \in Seq([offset : Nat, size : Nat]),
         Len(R) = Len(L), NEW default \in Nat
  PROVE  /\ MetadataTable(R, L, default) \in Table
         /\ Len(MetadataTable(R, L, default)) = Len(R)
<1>1. \A i \in 1..Len(R) : R[i] \in S /\ L[i] \in [offset : Nat, size : Nat]
  BY ElementsOf
<1>2. \A i \in 1..Len(R) : MetadataTable(R, L, default)[i] \in TableEntry
  BY <1>1 DEF MetadataTable, TableEntry, EffectiveLink
<1>3. MetadataTable(R, L, default) = [i \in 1..Len(R) |-> MetadataTable(R, L, default)[i]]
  BY DEF MetadataTable
<1> QED BY <1>2, <1>3 DEF Table

(***************************************************************************)
(* Walks over a capture.  ScanPacketLocations and the reader of packets    *)
(* are the same walk, and differ in the blocks they take.                  *)
(***************************************************************************)
PacketKinds == {b \in Block : b.type \in {"EPB", "SPB"}}

Locatable ==
  {b \in Block : (b.type = "EPB" /\ b.len >= 32) \/ (b.type = "SPB" /\ b.len >= 16)}

Taken(b, take) == IF b \in take THEN <<b>> ELSE <<>>

WalkFrom(f, take) ==
  LET w[p \in 0..f.size] ==
        IF ScanStops(f, p)
        THEN <<>>
        ELSE Taken(HeaderAt(f, p), take) \o w[p + HeaderAt(f, p).len]
  IN  w

Walk(f, take) == WalkFrom(f, take)[0]

(* Where a walk goes on there is a block, and it goes forward.             *)
LEMMA WalkStep ==
  ASSUME NEW f \in Image, NEW p \in 0..f.size, ~ ScanStops(f, p)
  PROVE  /\ HeaderAt(f, p) \in Block
         /\ HeaderAt(f, p).at = p
         /\ HeaderAt(f, p).len \in Nat /\ HeaderAt(f, p).len >= 12
         /\ p + HeaderAt(f, p).len \in (p + 1)..f.size
         /\ \E i \in DOMAIN f.blocks : HeaderAt(f, p) = f.blocks[i]
<1>1. PICK i \in DOMAIN f.blocks :
        HeaderAt(f, p) = f.blocks[i] /\ f.blocks[i].at = p /\ f.blocks[i].len >= 12
  BY ScanReadsBlock DEF Image
<1>2. f.blocks[i] \in Block /\ f.blocks[i].len \in Nat
  BY ImageNumbers
<1>3. ~ (p + HeaderAt(f, p).len > f.size) /\ f.size \in Nat
  BY DEF ScanStops, Image
<1>4. p + f.blocks[i].len \in (p + 1)..f.size
  <2> DEFINE l == f.blocks[i].len
             z == f.size
  <2>1. l \in Nat /\ l >= 12 /\ z \in Nat /\ p \in 0..z /\ ~ (p + l > z)
    BY <1>1, <1>2, <1>3
  <2> HIDE DEF l, z
  <2>2. p + l \in (p + 1)..z
    BY <2>1
  <2> QED BY <2>2 DEF l, z
<1> QED BY <1>1, <1>2, <1>4

(* A walk unfolds: it takes the block it is at, or not, and goes on.       *)
LEMMA WalkUnfolds ==
  ASSUME NEW f \in Image, NEW take
  PROVE  LET w == WalkFrom(f, take)
         IN  \A p \in 0..f.size :
               w[p] = IF ScanStops(f, p)
                      THEN <<>>
                      ELSE Taken(HeaderAt(f, p), take) \o w[p + HeaderAt(f, p).len]
<1> DEFINE n == f.size
           stop == {p \in 0..n : ScanStops(f, p)}
           out == [p \in 0..n |-> Taken(HeaderAt(f, p), take)]
           next == [p \in 0..n |-> p + HeaderAt(f, p).len]
           Step(w) == [p \in 0..n |-> IF ScanStops(f, p)
                                      THEN <<>>
                                      ELSE Taken(HeaderAt(f, p), take)
                                             \o w[p + HeaderAt(f, p).len]]
<1>1. n \in Nat
  BY DEF Image
<1>2. \A p \in 0..n : p \in stop \/ next[p] \in (p + 1)..n
  BY WalkStep
<1>3. \A w : Collects(w, n, stop, out, next) => w = Step(w)
  BY DEF Collects
<1> HIDE DEF n, stop, out, next
<1>4. \E w : Collects(w, n, stop, out, next)
  BY <1>1, <1>2, WalkExists
<1>5. \E w : w = Step(w)
  <2> HIDE DEF Step
  <2> QED BY <1>3, <1>4
<1>6. WalkFrom(f, take) = CHOOSE w : w = Step(w)
  BY DEF WalkFrom, n
<1>7. WalkFrom(f, take) = Step(WalkFrom(f, take))
  <2> HIDE DEF Step
  <2> QED BY <1>5, <1>6
<1> QED BY <1>7 DEF n

(* Taking one block more, or none.                                         *)
LEMMA TakeOne ==
  ASSUME NEW S, NEW b \in S, NEW t \in Seq(S)
  PROVE  LET u == <<b>> \o t
         IN  /\ u \in Seq(S) /\ Len(u) = Len(t) + 1 /\ DOMAIN u = 1..(Len(t) + 1)
             /\ u[1] = b
             /\ \A i \in 1..Len(t) : u[i + 1] = t[i]
OBVIOUS

LEMMA TakeNone ==
  ASSUME NEW S, NEW t \in Seq(S)
  PROVE  <<>> \o t = t
OBVIOUS

(* What a walk collects from p on: blocks that it takes, of the image, in  *)
(* the order in which they stand there, none before p.                     *)
Collected(f, take, p, s) ==
  /\ s \in Seq(take)
  /\ \A n \in 1..Len(s) : s[n].at \in Nat /\ s[n].at >= p
                            /\ \E i \in DOMAIN f.blocks : s[n] = f.blocks[i]
  /\ \A m, n \in 1..Len(s) : m < n => s[m].at < s[n].at

LEMMA WalkCollects ==
  ASSUME NEW f \in Image, NEW take, NEW p \in 0..f.size
  PROVE  Collected(f, take, p, WalkFrom(f, take)[p])
<1> DEFINE w == WalkFrom(f, take)
           z == f.size
           Q == {q \in 0..z : Collected(f, take, q, w[q])}
<1>1. z \in Nat
  BY DEF Image
<1>2. ASSUME NEW q \in 0..z, \A r \in (q + 1)..z : r \in Q
      PROVE  q \in Q
  <2> DEFINE b == HeaderAt(f, q)
             r == q + b.len
             t == w[r]
  <2>1. w[q] = IF ScanStops(f, q) THEN <<>> ELSE Taken(b, take) \o t
    BY WalkUnfolds
  <2>2. CASE ScanStops(f, q)
    <3>1. w[q] = <<>>
      BY <2>1, <2>2
    <3>2. Collected(f, take, q, <<>>)
      BY DEF Collected
    <3> HIDE DEF w
    <3> QED BY <3>1, <3>2
  <2>3. CASE ~ ScanStops(f, q)
    <3>1. /\ b.at = q /\ r \in (q + 1)..z /\ q \in Nat
          /\ \E i \in DOMAIN f.blocks : b = f.blocks[i]
      BY <1>1, <2>3, WalkStep
    <3>2. Collected(f, take, r, t)
      BY <1>2, <3>1
    <3>3. r > q
      BY <1>1, <3>1
    <3>4. w[q] = Taken(b, take) \o t
      BY <2>1, <2>3
    <3> HIDE DEF w, b, r, t
    <3>5. CASE b \notin take
      <4>1. w[q] = t
        BY <3>2, <3>4, <3>5, TakeNone DEF Taken, Collected
      <4>2. \A n \in 1..Len(t) : t[n].at >= q
        BY <1>1, <3>1, <3>2, <3>3 DEF Collected
      <4>3. Collected(f, take, q, t)
        BY <3>2, <4>2 DEF Collected
      <4> QED BY <4>1, <4>3
    <3>6. CASE b \in take
      <4> DEFINE u == <<b>> \o t
      <4>1. t \in Seq(take) /\ Len(t) \in Nat
        BY <3>2 DEF Collected
      <4>2. /\ u \in Seq(take) /\ Len(u) = Len(t) + 1
            /\ u[1] = b /\ \A i \in 1..Len(t) : u[i + 1] = t[i]
        BY <3>6, <4>1, TakeOne
      <4> HIDE DEF u
      <4>3. ASSUME NEW n \in 1..Len(u)
            PROVE  n = 1 \/ (n - 1 \in 1..Len(t) /\ u[n] = t[n - 1])
        <5>1. CASE n # 1
          <6>1. n - 1 \in 1..Len(t) /\ (n - 1) + 1 = n
            BY <4>1, <4>2, <5>1
          <6>2. u[(n - 1) + 1] = t[n - 1]
            BY <4>2, <6>1
          <6> QED BY <6>1, <6>2
        <5> QED BY <5>1
      <4>4. ASSUME NEW n \in 1..Len(u)
            PROVE  /\ u[n].at \in Nat /\ u[n].at >= q /\ (n # 1 => u[n].at > q)
                   /\ \E i \in DOMAIN f.blocks : u[n] = f.blocks[i]
        <5>1. CASE n = 1
          BY <3>1, <4>2, <5>1
        <5>2. CASE n - 1 \in 1..Len(t) /\ u[n] = t[n - 1]
          BY <1>1, <3>1, <3>2, <3>3, <5>2 DEF Collected
        <5> QED BY <4>3, <5>1, <5>2
      <4>5. ASSUME NEW m \in 1..Len(u), NEW n \in 1..Len(u), m < n
            PROVE  u[m].at < u[n].at
        <5>1. n # 1 /\ n - 1 \in 1..Len(t) /\ u[n] = t[n - 1]
          BY <4>1, <4>2, <4>3, <4>5
        <5>2. CASE m = 1
          BY <3>1, <4>2, <4>4, <5>1, <5>2
        <5>3. CASE m - 1 \in 1..Len(t) /\ u[m] = t[m - 1]
          <6>1. m - 1 < n - 1
            BY <4>5
          <6> QED BY <3>2, <5>1, <5>3, <6>1 DEF Collected
        <5> QED BY <4>3, <5>2, <5>3
      <4>6. Collected(f, take, q, u)
        BY <4>2, <4>4, <4>5 DEF Collected
      <4>7. w[q] = u
        BY <3>4, <3>6 DEF Taken, u
      <4> QED BY <4>6, <4>7
    <3> QED BY <3>5, <3>6
  <2> QED BY <2>2, <2>3
<1>3. Q \in SUBSET (0..z)
  OBVIOUS
<1> HIDE DEF Q
<1>4. Q = 0..z
  BY <1>1, <1>2, <1>3, Downwards
<1> QED BY <1>4 DEF Q

(* Two lists in the order of the file, the first within the second, and    *)
(* not shorter: they are the same.                                         *)
LEMMA SameAscending ==
  ASSUME NEW S, NEW u \in Seq(S), NEW v \in Seq(S),
         \A n \in 1..Len(u) : u[n].at \in Nat,
         \A n \in 1..Len(v) : v[n].at \in Nat,
         \A m, n \in 1..Len(u) : m < n => u[m].at < u[n].at,
         \A m, n \in 1..Len(v) : m < n => v[m].at < v[n].at,
         \A n \in 1..Len(u) : \E m \in 1..Len(v) : u[n] = v[m]
  PROVE  Len(u) <= Len(v) /\ (Len(u) = Len(v) => u = v)
<1> DEFINE h == [n \in 1..Len(u) |-> CHOOSE m \in 1..Len(v) : u[n] = v[m]]
           k == Len(u)
           l == Len(v)
<1>1. \A n \in 1..k : h[n] \in 1..l /\ u[n] = v[h[n]]
  OBVIOUS
<1>2. k \in Nat /\ l \in Nat
  OBVIOUS
<1> HIDE DEF h
<1>3. ASSUME NEW m \in 1..k, NEW n \in 1..k, m < n  PROVE h[m] < h[n]
  <2>1. u[m].at < u[n].at /\ u[m].at \in Nat /\ u[n].at \in Nat
    BY <1>3
  <2>2. v[h[m]].at < v[h[n]].at
    BY <1>1, <2>1
  <2>3. h[m] \in 1..l /\ h[n] \in 1..l
    BY <1>1
  <2>4. CASE h[m] = h[n]
    <3>1. u[m] = v[h[m]] /\ u[n] = v[h[n]]
      BY <1>1
    <3>2. u[m].at = u[n].at
      BY <2>4, <3>1
    <3> HIDE DEF k, l
    <3> QED BY <2>1, <3>2
  <2>5. CASE h[n] < h[m]
    <3>1. v[h[n]].at < v[h[m]].at
      BY <2>3, <2>5
    <3> QED BY <1>1, <2>1, <3>1
  <2> QED BY <1>2, <2>3, <2>4, <2>5
<1> HIDE DEF k, l
<1>4. \A n \in 1..k : h[n] >= n
  <2> SUFFICES ASSUME NEW r \in 1..k, h[r] < r  PROVE FALSE
    BY <1>1, <1>2
  <2> DEFINE T == {n \in 1..k : h[n] < n}
  <2>1. r \in T
    OBVIOUS
  <2>2. T \in SUBSET Nat
    OBVIOUS
  <2> HIDE DEF T
  <2>3. PICK n \in T : \A y \in T : n <= y
    BY <2>1, <2>2, LeastNumber
  <2>4. n \in 1..k /\ h[n] < n /\ h[n] \in 1..l
    BY <1>1 DEF T
  <2>5. h[n] \in 1..k
    BY <1>2, <2>4
  <2>6. h[h[n]] < h[n]
    BY <1>3, <2>4, <2>5
  <2>7. h[n] \in T
    BY <2>5, <2>6 DEF T
  <2> QED BY <1>2, <2>3, <2>4, <2>7
<1>5. \A n \in 1..k : l - h[n] >= k - n
  <2> SUFFICES ASSUME NEW r \in 1..k, l - h[r] < k - r  PROVE FALSE
    BY <1>1, <1>2
  <2> DEFINE T == {i \in 0..k : k - i \in 1..k /\ l - h[k - i] < i}
  <2>1. k - r \in T
    <3>1. k - r \in 0..k /\ k - (k - r) = r
      BY <1>2
    <3> QED BY <3>1
  <2>2. T \in SUBSET Nat
    OBVIOUS
  <2> HIDE DEF T
  <2>3. PICK i \in T : \A y \in T : i <= y
    BY <2>1, <2>2, LeastNumber
  <2>4. i \in 0..k /\ k - i \in 1..k /\ l - h[k - i] < i /\ h[k - i] \in 1..l
    BY <1>1 DEF T
  <2>5. i # 0 /\ i - 1 \in 0..k /\ k - (i - 1) \in 1..k /\ k - i < k - (i - 1)
    <3>1. PICK p \in 1..l : l - p < i
      BY <2>4
    <3>2. i \in Nat /\ i # 0
      BY <1>2, <2>4, <3>1
    <3>3. i \in 0..k /\ k \in Nat /\ k - i \in 1..k
      BY <1>2, <2>4
    <3> QED BY <3>2, <3>3
  <2>6. h[k - i] < h[k - (i - 1)] /\ h[k - (i - 1)] \in 1..l
    BY <1>1, <1>3, <2>4, <2>5
  <2>7. l - h[k - (i - 1)] < i - 1
    BY <1>2, <2>4, <2>6
  <2>8. i - 1 \in T
    BY <2>5, <2>7 DEF T
  <2> QED BY <1>2, <2>3, <2>4, <2>8
<1>6. k <= l
  <2>1. CASE k = 0
    BY <1>2, <2>1
  <2>2. CASE k # 0
    <3>1. k \in 1..k
      BY <1>2, <2>2
    <3> QED BY <1>1, <1>2, <1>4, <3>1
  <2> QED BY <2>1, <2>2
<1>7. ASSUME k = l  PROVE u = v
  <2>1. \A n \in 1..k : h[n] = n
    BY <1>1, <1>2, <1>4, <1>5, <1>7
  <2>2. \A n \in 1..k : u[n] = v[n]
    BY <1>1, <2>1
  <2> QED BY <1>7, <2>2 DEF k, l
<1> QED BY <1>6, <1>7 DEF k, l

(* What one walk collects, another one that takes it collects as well.     *)
Shares(s, t, take) ==
  \A n \in 1..Len(s) : s[n] \in take => \E m \in 1..Len(t) : t[m] = s[n]

LEMMA WalkTakes ==
  ASSUME NEW f \in Image, NEW some, NEW other, NEW p \in 0..f.size
  PROVE  Shares(WalkFrom(f, some)[p], WalkFrom(f, other)[p], other)
<1> DEFINE v == WalkFrom(f, some)
           w == WalkFrom(f, other)
           z == f.size
           Meets(s, t) == Shares(s, t, other)
           Q == {q \in 0..z : Meets(v[q], w[q])}
<1>1. z \in Nat
  BY DEF Image
<1>2. ASSUME NEW q \in 0..z, \A r \in (q + 1)..z : r \in Q
      PROVE  q \in Q
  <2> DEFINE b == HeaderAt(f, q)
             r == q + b.len
             s == v[r]
             t == w[r]
  <2>1. /\ v[q] = IF ScanStops(f, q) THEN <<>> ELSE Taken(b, some) \o s
        /\ w[q] = IF ScanStops(f, q) THEN <<>> ELSE Taken(b, other) \o t
    BY WalkUnfolds
  <2>2. CASE ScanStops(f, q)
    <3>1. v[q] = <<>>
      BY <2>1, <2>2
    <3>2. Len(<<>>) = 0
      OBVIOUS
    <3> HIDE DEF v, w
    <3> QED BY <3>1, <3>2 DEF Shares
  <2>3. CASE ~ ScanStops(f, q)
    <3>1. r \in (q + 1)..z
      BY <2>3, WalkStep
    <3>2. Meets(s, t)
      BY <1>2, <3>1
    <3>3. v[q] = Taken(b, some) \o s /\ w[q] = Taken(b, other) \o t
      BY <2>1, <2>3
    <3>4. s \in Seq(some) /\ t \in Seq(other)
      <4>1. r \in 0..z
        BY <1>1, <3>1
      <4> QED BY <4>1, WalkCollects DEF Collected
    <3> HIDE DEF v, w, b, r, s, t
    <3>5. ASSUME NEW k \in 1..Len(v[q]), v[q][k] \in other
          PROVE  (b \in other /\ v[q][k] = b) \/ \E m \in 1..Len(t) : t[m] = v[q][k]
      <4>1. CASE b \notin some
        <5>1. v[q] = s
          BY <3>3, <3>4, <4>1, TakeNone DEF Taken
        <5> QED BY <3>2, <3>5, <5>1 DEF Shares
      <4>2. CASE b \in some
        <5>1. PICK u : u = <<b>> \o s
          OBVIOUS
        <5>2. /\ v[q] = u /\ Len(u) = Len(s) + 1 /\ u[1] = b
              /\ \A i \in 1..Len(s) : u[i + 1] = s[i]
          BY <3>3, <3>4, <4>2, <5>1, TakeOne DEF Taken
        <5>3. CASE k = 1
          BY <3>5, <5>2, <5>3
        <5>4. CASE k # 1
          <6>1. k - 1 \in 1..Len(s) /\ (k - 1) + 1 = k
            BY <3>4, <5>2, <5>4
          <6>2. v[q][k] = s[k - 1]
            BY <5>2, <6>1
          <6> QED BY <3>2, <3>5, <6>1, <6>2 DEF Shares
        <5> QED BY <5>3, <5>4
      <4> QED BY <4>1, <4>2
    <3>6. /\ b \in other => 1 \in 1..Len(w[q]) /\ w[q][1] = b
          /\ \A m \in 1..Len(t) : \E l \in 1..Len(w[q]) : w[q][l] = t[m]
      <4>1. CASE b \notin other
        <5>1. w[q] = t
          BY <3>3, <3>4, <4>1, TakeNone DEF Taken
        <5> QED BY <4>1, <5>1
      <4>2. CASE b \in other
        <5>1. PICK u : u = <<b>> \o t
          OBVIOUS
        <5>2. /\ w[q] = u /\ Len(u) = Len(t) + 1 /\ u[1] = b /\ Len(t) \in Nat
              /\ \A i \in 1..Len(t) : u[i + 1] = t[i]
          BY <3>3, <3>4, <4>2, <5>1, TakeOne DEF Taken
        <5>3. \A m \in 1..Len(t) : m + 1 \in 1..Len(w[q]) /\ w[q][m + 1] = t[m]
          BY <5>2
        <5>4. 1 \in 1..Len(w[q]) /\ w[q][1] = b
          BY <5>2
        <5> QED BY <5>3, <5>4
      <4> QED BY <4>1, <4>2
    <3>7. Meets(v[q], w[q])
      BY <3>5, <3>6 DEF Shares
    <3> QED BY <3>7
  <2> QED BY <2>2, <2>3
<1>3. Q \in SUBSET (0..z)
  OBVIOUS
<1> HIDE DEF Q
<1>4. Q = 0..z
  BY <1>1, <1>2, <1>3, Downwards
<1>5. Meets(v[p], w[p])
  BY <1>4 DEF Q
<1> QED BY <1>5

(* f begins with the blocks of c.                                          *)
Heads(c, f) ==
  /\ Len(c.blocks) <= Len(f.blocks)
  /\ \A i \in 1..Len(c.blocks) : f.blocks[i] = c.blocks[i]

(* In blocks that are in order no two have their header at one place.      *)
LEMMA HeaderOfBlock ==
  ASSUME NEW f \in Image, InOrder(f), NEW i \in DOMAIN f.blocks, f.blocks[i].held >= 8
  PROVE  HeaderAt(f, f.blocks[i].at) = f.blocks[i]
<1> DEFINE p == f.blocks[i].at
<1>1. ASSUME NEW k \in DOMAIN f.blocks, f.blocks[k].at = p, f.blocks[k].held >= 8
      PROVE  k = i
  <2>1. /\ f.blocks[i].at \in Nat /\ f.blocks[k].at \in Nat
        /\ f.blocks[i].held \in Nat /\ f.blocks[k].held \in Nat
    BY ImageNumbers
  <2>2. /\ k < i => f.blocks[k].at + f.blocks[k].held <= f.blocks[i].at
        /\ i < k => f.blocks[i].at + f.blocks[i].held <= f.blocks[k].at
    BY DEF InOrder
  <2>3. i \in Nat /\ k \in Nat
    BY DEF Image
  <2>4. ~ (k < i)
    BY <1>1, <2>1, <2>2
  <2>5. ~ (i < k)
    BY <1>1, <2>1, <2>2
  <2> QED BY <2>3, <2>4, <2>5
<1>2. (CHOOSE k \in DOMAIN f.blocks : f.blocks[k].at = p /\ f.blocks[k].held >= 8) = i
  BY <1>1
<1> QED BY <1>2 DEF HeaderAt

(* A walk over a file that begins with a whole capture comes to every      *)
(* block of the capture.                                                   *)
LEMMA WalkReaches ==
  ASSUME NEW c \in Image, Chained(c), NEW f \in Image, InOrder(f), Heads(c, f),
         NEW take, NEW i \in DOMAIN c.blocks, c.blocks[i] \in take
  PROVE  \E n \in 1..Len(Walk(f, take)) : Walk(f, take)[n] = c.blocks[i]
<1> DEFINE w == WalkFrom(f, take)
           z == f.size
           b == c.blocks[i]
           Meets(s) == \E n \in 1..Len(s) : s[n] = b
           Q == {q \in 0..z : \A k \in 1..i : c.blocks[k].at = q => Meets(w[q])}
<1>1. /\ z \in Nat /\ DOMAIN c.blocks = 1..Len(c.blocks) /\ DOMAIN f.blocks = 1..Len(f.blocks)
      /\ Len(c.blocks) \in Nat /\ Len(f.blocks) \in Nat /\ i \in 1..Len(c.blocks)
  BY DEF Image
<1>2. ASSUME NEW q \in 0..z, \A r \in (q + 1)..z : r \in Q,
             NEW k \in 1..i, c.blocks[k].at = q
      PROVE  Meets(w[q])
  <2> DEFINE h == HeaderAt(f, q)
             r == q + h.len
             t == w[r]
             l == c.blocks[k].len
  <2>1. k \in DOMAIN c.blocks /\ k \in DOMAIN f.blocks /\ f.blocks[k] = c.blocks[k]
    BY <1>1 DEF Heads
  <2>2. c.blocks[k].held = l /\ l >= 12 /\ l \in Nat /\ q + l <= z
    <3>1. c.blocks[k].held = c.blocks[k].len /\ c.blocks[k].len >= 12
      BY <2>1 DEF Chained
    <3>2. f.blocks[k].at + f.blocks[k].held <= f.size
      BY <2>1 DEF InOrder, InFile
    <3> QED BY <1>2, <2>1, <3>1, <3>2, ImageNumbers
  <2>3. h = c.blocks[k]
    <3>1. f.blocks[k].held >= 8 /\ f.blocks[k].at = q
      BY <1>2, <2>1, <2>2
    <3> QED BY <2>1, <3>1, HeaderOfBlock
  <2>4. ~ ScanStops(f, q)
    <3> HIDE DEF l
    <3>1. h.len = l
      BY <2>3 DEF l
    <3> HIDE DEF h
    <3>2. q + 12 <= z /\ ~ (h.len < 12) /\ ~ (q + h.len > z) /\ q \in Nat
      BY <1>1, <2>2, <3>1
    <3> QED BY <1>1, <3>2 DEF ScanStops, h
  <2>5. r \in (q + 1)..z
    BY <2>4, WalkStep
  <2>6. w[q] = Taken(h, take) \o t
    BY <2>4, WalkUnfolds
  <2>7. t \in Seq(take)
    <3>1. r \in 0..z
      BY <1>1, <2>5
    <3> QED BY <3>1, WalkCollects DEF Collected
  <2>8. CASE k = i
    <3>1. h = b /\ b \in take
      BY <2>3, <2>8
    <3> HIDE DEF w, t, h, b, r
    <3>2. PICK u : u = <<b>> \o t
      OBVIOUS
    <3>3. w[q] = u /\ Len(u) = Len(t) + 1 /\ u[1] = b /\ Len(t) \in Nat
      BY <2>6, <2>7, <3>1, <3>2, TakeOne DEF Taken
    <3>4. 1 \in 1..Len(u)
      BY <3>3
    <3> QED BY <3>3, <3>4
  <2>9. CASE k # i
    <3>1. k + 1 \in 1..i /\ k + 1 \in DOMAIN c.blocks /\ k + 1 # 1 /\ (k + 1) - 1 = k
      BY <1>1, <2>9
    <3>2. c.blocks[k + 1].at = c.blocks[k].at + c.blocks[k].len
      BY <3>1 DEF Chained
    <3>3. c.blocks[k + 1].at = r
      BY <1>2, <2>3, <3>2
    <3>4. Meets(t)
      BY <1>2, <2>5, <3>1, <3>3
    <3> HIDE DEF w, t, h, b, r
    <3>5. CASE h \notin take
      <4>1. w[q] = t
        BY <2>6, <2>7, <3>5, TakeNone DEF Taken
      <4> QED BY <3>4, <4>1
    <3>6. CASE h \in take
      <4>1. PICK u : u = <<h>> \o t
        OBVIOUS
      <4>2. /\ w[q] = u /\ Len(u) = Len(t) + 1 /\ Len(t) \in Nat
            /\ \A m \in 1..Len(t) : u[m + 1] = t[m]
        BY <2>6, <2>7, <3>6, <4>1, TakeOne DEF Taken
      <4>3. PICK m \in 1..Len(t) : t[m] = b
        BY <3>4
      <4>4. m + 1 \in 1..Len(u) /\ u[m + 1] = b
        BY <4>2, <4>3
      <4> QED BY <4>2, <4>4
    <3> QED BY <3>5, <3>6
  <2> QED BY <2>8, <2>9
<1>3. Q \in SUBSET (0..z)
  OBVIOUS
<1>4. \A q \in 0..z : (\A r \in (q + 1)..z : r \in Q) => q \in Q
  <2> SUFFICES ASSUME NEW q \in 0..z, \A r \in (q + 1)..z : r \in Q  PROVE q \in Q
    OBVIOUS
  <2>1. \A k \in 1..i : c.blocks[k].at = q => Meets(w[q])
    <3> HIDE DEF Q, Meets, w
    <3> QED BY <1>2
  <2> QED BY <2>1
<1> HIDE DEF Q
<1>5. Q = 0..z
  BY <1>1, <1>3, <1>4, Downwards
<1>6. 0 \in 0..z /\ 1 \in 1..i /\ 1 \in DOMAIN c.blocks
  BY <1>1
<1>7. c.blocks[1].at = 0
  BY <1>6 DEF Chained
<1>8. Meets(w[0])
  BY <1>5, <1>6, <1>7 DEF Q
<1> QED BY <1>8 DEF Walk

(* A walk that collects only what another one does, and not less, collects *)
(* the same.                                                               *)
LEMMA WalkWithin ==
  ASSUME NEW f \in Image, NEW g \in Image, NEW some, NEW other,
         \A n \in 1..Len(Walk(f, some)) : \E m \in 1..Len(Walk(g, other)) :
           Walk(f, some)[n] = Walk(g, other)[m]
  PROVE  /\ Len(Walk(f, some)) <= Len(Walk(g, other))
         /\ Len(Walk(f, some)) = Len(Walk(g, other)) => Walk(f, some) = Walk(g, other)
<1> DEFINE u == Walk(f, some)
           v == Walk(g, other)
           S == some \cup other
<1>1. 0 \in 0..f.size /\ 0 \in 0..g.size
  BY DEF Image
<1>2. Collected(f, some, 0, u) /\ Collected(g, other, 0, v)
  BY <1>1, WalkCollects DEF Walk
<1> HIDE DEF u, v
<1>3. u \in Seq(S) /\ v \in Seq(S)
  BY <1>2 DEF Collected
<1> HIDE DEF S
<1>4. /\ \A n \in 1..Len(u) : u[n].at \in Nat
      /\ \A n \in 1..Len(v) : v[n].at \in Nat
      /\ \A m, n \in 1..Len(u) : m < n => u[m].at < u[n].at
      /\ \A m, n \in 1..Len(v) : m < n => v[m].at < v[n].at
  BY <1>2 DEF Collected
<1>5. \A n \in 1..Len(u) : \E m \in 1..Len(v) : u[n] = v[m]
  BY DEF u, v
<1>6. Len(u) <= Len(v) /\ (Len(u) = Len(v) => u = v)
  BY <1>3, <1>4, <1>5, SameAscending
<1> QED BY <1>6 DEF u, v

(* What a walk collects, block by block.                                   *)
LEMMA WalkBlocks ==
  ASSUME NEW f \in Image, NEW take
  PROVE  /\ Walk(f, take) \in Seq(take)
         /\ \A n \in 1..Len(Walk(f, take)) : \E i \in DOMAIN f.blocks :
              Walk(f, take)[n] = f.blocks[i] /\ f.blocks[i] \in take
<1>1. 0 \in 0..f.size
  BY DEF Image
<1> DEFINE u == Walk(f, take)
<1>2. Collected(f, take, 0, u)
  BY <1>1, WalkCollects DEF Walk
<1> HIDE DEF u
<1>3. u \in Seq(take) /\ \A n \in 1..Len(u) : \E i \in DOMAIN f.blocks : u[n] = f.blocks[i]
  BY <1>2 DEF Collected
<1>4. \A n \in 1..Len(u) : u[n] \in take
  BY <1>3, ElementsOf
<1>5. \A n \in 1..Len(u) : \E i \in DOMAIN f.blocks : u[n] = f.blocks[i] /\ f.blocks[i] \in take
  BY <1>3, <1>4
<1> QED BY <1>3, <1>5 DEF u

(* The scan finds fewer packets than the reader, or the same ones.         *)
LEMMA ScanWithinRead ==
  ASSUME NEW f \in Image, Len(Walk(f, Locatable)) = Len(Walk(f, PacketKinds))
  PROVE  Walk(f, Locatable) = Walk(f, PacketKinds)
<1>1. 0 \in 0..f.size
  BY DEF Image
<1> DEFINE u == Walk(f, Locatable)
           v == Walk(f, PacketKinds)
<1>2. \A n \in 1..Len(u) : u[n] \in Locatable
  BY WalkBlocks, ElementsOf
<1>3. \A n \in 1..Len(u) : u[n] \in PacketKinds
  BY <1>2 DEF Locatable, PacketKinds
<1>4. Shares(u, v, PacketKinds)
  BY <1>1, WalkTakes DEF Walk
<1>5. \A n \in 1..Len(u) : \E m \in 1..Len(v) : u[n] = v[m]
  BY <1>3, <1>4 DEF Shares
<1> QED BY <1>5, WalkWithin

(* In a file whose packets are all those of a whole capture c, a walk that *)
(* finds as many packets as c has finds those of c.                        *)
LEMMA WalkOfPackets ==
  ASSUME NEW c \in Image, Chained(c), InOrder(c), NEW f \in Image,
         NEW some \in SUBSET PacketKinds,
         \A i \in DOMAIN f.blocks : f.blocks[i] \in some =>
           \E k \in DOMAIN c.blocks : f.blocks[i] = c.blocks[k]
  PROVE  /\ Len(Walk(f, some)) <= Len(Walk(c, PacketKinds))
         /\ Len(Walk(f, some)) = Len(Walk(c, PacketKinds)) =>
              Walk(f, some) = Walk(c, PacketKinds)
<1> DEFINE u == Walk(f, some)
           v == Walk(c, PacketKinds)
<1>1. \A n \in 1..Len(u) : \E k \in DOMAIN c.blocks : u[n] = c.blocks[k] /\ c.blocks[k] \in PacketKinds
  BY WalkBlocks
<1>2. Heads(c, c)
  BY DEF Heads, Image
<1>3. \A n \in 1..Len(u) : \E m \in 1..Len(v) : u[n] = v[m]
  BY <1>1, <1>2, WalkReaches
<1> QED BY <1>3, WalkWithin

(* A file that begins with a whole capture and has no other packets reads  *)
(* as the capture does.                                                    *)
LEMMA WalkOfBeginning ==
  ASSUME NEW c \in Image, Chained(c), InOrder(c), NEW f \in Image, InOrder(f), Heads(c, f),
         NEW take,
         \A i \in DOMAIN f.blocks : f.blocks[i] \in take =>
           \E k \in DOMAIN c.blocks : f.blocks[i] = c.blocks[k]
  PROVE  Walk(f, take) = Walk(c, take)
<1> DEFINE u == Walk(f, take)
           v == Walk(c, take)
<1>1. Heads(c, c)
  BY DEF Heads, Image
<1>2. \A n \in 1..Len(u) : \E k \in DOMAIN c.blocks : u[n] = c.blocks[k] /\ c.blocks[k] \in take
  BY WalkBlocks
<1>3. \A n \in 1..Len(u) : \E m \in 1..Len(v) : u[n] = v[m]
  BY <1>1, <1>2, WalkReaches
<1>4. \A n \in 1..Len(v) : \E k \in DOMAIN c.blocks : v[n] = c.blocks[k] /\ c.blocks[k] \in take
  BY WalkBlocks
<1>5. \A n \in 1..Len(v) : \E m \in 1..Len(u) : v[n] = u[m]
  BY <1>4, WalkReaches
<1>6. Len(u) <= Len(v) /\ Len(v) <= Len(u) /\ (Len(u) = Len(v) => u = v)
  BY <1>3, <1>5, WalkWithin
<1>7. Len(u) \in Nat /\ Len(v) \in Nat
  BY WalkBlocks
<1> QED BY <1>6, <1>7

(* A file without blocks has nothing to collect.                           *)
LEMMA WalkOfNothing ==
  ASSUME NEW f \in Image, f.blocks = <<>>, NEW take
  PROVE  Walk(f, take) = <<>>
<1> DEFINE u == Walk(f, take)
<1>1. u \in Seq(take) /\ \A n \in 1..Len(u) : \E i \in DOMAIN f.blocks : u[n] = f.blocks[i]
  BY WalkBlocks
<1>2. DOMAIN f.blocks = {}
  OBVIOUS
<1> HIDE DEF u
<1> QED BY <1>1, <1>2 DEF u

(* ScanPacketLocations is the walk that takes the locatable packets.       *)
ScanFrom(f) ==
  LET scan[pos \in 0..f.size] ==
        IF ScanStops(f, pos)
        THEN <<>>
        ELSE LocationsAt(HeaderAt(f, pos), pos)
               \o scan[pos + HeaderAt(f, pos).len]
  IN  scan

LEMMA ScanUnfolds ==
  ASSUME NEW f \in Image
  PROVE  \A p \in 0..f.size :
           ScanFrom(f)[p] = IF ScanStops(f, p)
                            THEN <<>>
                            ELSE LocationsAt(HeaderAt(f, p), p)
                                   \o ScanFrom(f)[p + HeaderAt(f, p).len]
<1> DEFINE n == f.size
           stop == {p \in 0..n : ScanStops(f, p)}
           out == [p \in 0..n |-> LocationsAt(HeaderAt(f, p), p)]
           next == [p \in 0..n |-> p + HeaderAt(f, p).len]
           Step(w) == [p \in 0..n |-> IF ScanStops(f, p)
                                      THEN <<>>
                                      ELSE LocationsAt(HeaderAt(f, p), p)
                                             \o w[p + HeaderAt(f, p).len]]
<1>1. n \in Nat
  BY DEF Image
<1>2. \A p \in 0..n : p \in stop \/ next[p] \in (p + 1)..n
  BY WalkStep
<1>3. \A w : Collects(w, n, stop, out, next) => w = Step(w)
  BY DEF Collects
<1> HIDE DEF n, stop, out, next
<1>4. \E w : Collects(w, n, stop, out, next)
  BY <1>1, <1>2, WalkExists
<1>5. \E w : w = Step(w)
  <2> HIDE DEF Step
  <2> QED BY <1>3, <1>4
<1>6. ScanFrom(f) = CHOOSE w : w = Step(w)
  BY DEF ScanFrom, n
<1>7. ScanFrom(f) = Step(ScanFrom(f))
  <2> HIDE DEF Step
  <2> QED BY <1>5, <1>6
<1> QED BY <1>7 DEF n

(* l locates the blocks of s, in their order.                              *)
AreLocations(l, s) ==
  /\ l \in Seq([offset : Nat, size : Nat])
  /\ Len(l) = Len(s)
  /\ \A n \in 1..Len(s) : l[n].offset = DataAt(s[n]) /\ l[n].size = s[n].body.cap

LEMMA ScanIsWalk ==
  ASSUME NEW f \in Image
  PROVE  AreLocations(ScanPacketLocations(f), Walk(f, Locatable))
<1> DEFINE w == WalkFrom(f, Locatable)
           l == ScanFrom(f)
           z == f.size
           Q == {q \in 0..z : AreLocations(l[q], w[q])}
<1>1. z \in Nat
  BY DEF Image
<1>2. ASSUME NEW q \in 0..z, \A r \in (q + 1)..z : r \in Q
      PROVE  AreLocations(l[q], w[q])
  <2> DEFINE b == HeaderAt(f, q)
             r == q + b.len
             s == w[r]
             t == l[r]
  <2>1. /\ w[q] = IF ScanStops(f, q) THEN <<>> ELSE Taken(b, Locatable) \o s
        /\ l[q] = IF ScanStops(f, q) THEN <<>> ELSE LocationsAt(b, q) \o t
    BY WalkUnfolds, ScanUnfolds
  <2>2. CASE ScanStops(f, q)
    <3>1. w[q] = <<>> /\ l[q] = <<>>
      BY <2>1, <2>2
    <3>2. AreLocations(<<>>, <<>>)
      BY DEF AreLocations
    <3> HIDE DEF w, l
    <3> QED BY <3>1, <3>2
  <2>3. CASE ~ ScanStops(f, q)
    <3>1. r \in (q + 1)..z /\ b \in Block /\ b.at = q
      BY <2>3, WalkStep
    <3>2. AreLocations(t, s)
      BY <1>2, <3>1
    <3>3. w[q] = Taken(b, Locatable) \o s /\ l[q] = LocationsAt(b, q) \o t
      BY <2>1, <2>3
    <3>4. s \in Seq(Locatable)
      <4>1. r \in 0..z
        BY <1>1, <3>1
      <4> QED BY <4>1, WalkCollects DEF Collected
    <3>5. q \in Nat
      BY <1>1
    <3> HIDE DEF w, l, b, r, s, t
    <3>6. CASE b \notin Locatable
      <4>1. LocationsAt(b, q) = <<>> /\ Taken(b, Locatable) = <<>>
        BY <3>1, <3>6 DEF LocationsAt, Locatable, Taken
      <4>2. w[q] = s /\ l[q] = t
        BY <3>2, <3>3, <3>4, <4>1, TakeNone DEF AreLocations
      <4> QED BY <3>2, <4>2
    <3>7. CASE b \in Locatable
      <4> DEFINE x == [offset |-> DataAt(b), size |-> b.body.cap]
      <4>1. LocationsAt(b, q) = <<x>> /\ Taken(b, Locatable) = <<b>>
        BY <3>1, <3>7 DEF LocationsAt, Locatable, Taken, DataAt
      <4>2. x \in [offset : Nat, size : Nat] /\ x.offset = DataAt(b) /\ x.size = b.body.cap
        <5>1. b.body.cap \in Nat
          BY <3>7 DEF Locatable, Block, BlockOf
        <5>2. DataAt(b) \in Nat
          BY <3>1, <3>5 DEF DataAt, EPB_DATA, SPB_DATA
        <5> QED BY <5>1, <5>2
      <4> HIDE DEF x
      <4>3. PICK u, v : u = <<b>> \o s /\ v = <<x>> \o t
        OBVIOUS
      <4>4. /\ w[q] = u /\ Len(u) = Len(s) + 1 /\ u[1] = b
            /\ \A i \in 1..Len(s) : u[i + 1] = s[i]
        BY <3>3, <3>4, <3>7, <4>1, <4>3, TakeOne
      <4>5. /\ l[q] = v /\ v \in Seq([offset : Nat, size : Nat])
            /\ Len(v) = Len(t) + 1 /\ v[1] = x
            /\ \A i \in 1..Len(t) : v[i + 1] = t[i]
        BY <3>2, <3>3, <4>1, <4>2, <4>3, TakeOne DEF AreLocations
      <4>6. ASSUME NEW n \in 1..Len(u)
            PROVE  v[n].offset = DataAt(u[n]) /\ v[n].size = u[n].body.cap
        <5>1. CASE n = 1
          BY <4>2, <4>4, <4>5, <5>1
        <5>2. CASE n # 1
          <6>1. n - 1 \in 1..Len(s) /\ (n - 1) + 1 = n
            BY <3>4, <4>4, <5>2
          <6>2. u[n] = s[n - 1] /\ v[n] = t[n - 1]
            BY <3>2, <4>4, <4>5, <6>1 DEF AreLocations
          <6> QED BY <3>2, <6>1, <6>2 DEF AreLocations
        <5> QED BY <5>1, <5>2
      <4>7. Len(v) = Len(u)
        BY <3>2, <4>4, <4>5 DEF AreLocations
      <4> QED BY <4>4, <4>5, <4>6, <4>7 DEF AreLocations
    <3> QED BY <3>6, <3>7
  <2> QED BY <2>2, <2>3
<1>3. Q \in SUBSET (0..z)
  OBVIOUS
<1>4. \A q \in 0..z : (\A r \in (q + 1)..z : r \in Q) => q \in Q
  <2> SUFFICES ASSUME NEW q \in 0..z, \A r \in (q + 1)..z : r \in Q  PROVE q \in Q
    OBVIOUS
  <2>1. AreLocations(l[q], w[q])
    <3> HIDE DEF Q, w, l
    <3> QED BY <1>2
  <2> QED BY <2>1
<1> HIDE DEF Q
<1>5. Q = 0..z
  BY <1>1, <1>3, <1>4, Downwards
<1>6. AreLocations(l[0], w[0])
  <2>1. 0 \in 0..z
    BY <1>1
  <2> QED BY <1>5, <2>1 DEF Q
<1>7. ScanPacketLocations(f) = l[0]
  BY DEF ScanPacketLocations, ScanFrom
<1> QED BY <1>6, <1>7 DEF Walk

==============================================================================
