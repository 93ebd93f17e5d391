------------------------- MODULE PqcapIndexerProofs -------------------------
(***************************************************************************)
(* What pqcap_embed_index does to the file at its path, for every value of *)
(* the constants.  Whether calls overlap or not: the variables keep their  *)
(* types and files their layout, and a classic capture with packets is     *)
(* never written to.  Calls that do not overlap leave at most one index,   *)
(* which lists the packets of the capture, and, if none of them stops while*)
(* it writes or loses its last bytes, all blocks of the capture where they *)
(* were.  Calls that overlap and do not stop early publish no index of     *)
(* anything else as long as none uses the file while another writes it,    *)
(* and do not all fail.                                                    *)
(***************************************************************************)
EXTENDS PqcapIndexer, PqcapFormatProofs, FiniteSetTheorems

(***************************************************************************)
(* The reader of packets.                                                  *)
(***************************************************************************)

(* The reader stops where the scan does.                                   *)
LEMMA ReaderStopsWithScan ==
  ASSUME NEW f \in Image, NEW p \in 0..f.size
  PROVE  ReaderStops(f, p) <=> ScanStops(f, p)
<1> DEFINE l == HeaderAt(f, p).len
           z == f.size
<1>1. l \in Nat
  <2>1. CASE \E i \in DOMAIN f.blocks : f.blocks[i].at = p /\ f.blocks[i].held >= 8
    BY <2>1, ImageNumbers DEF HeaderAt
  <2>2. CASE ~ \E i \in DOMAIN f.blocks : f.blocks[i].at = p /\ f.blocks[i].held >= 8
    BY <2>2 DEF HeaderAt, OpaqueHeader
  <2> QED BY <2>1, <2>2
<1>2. z \in Nat /\ p \in Nat
  BY DEF Image
<1>3. /\ ReaderStops(f, p) <=> l < 12 \/ p + l > z
      /\ ScanStops(f, p) <=> p + 12 > z \/ l < 12 \/ p + l > z
  BY DEF ReaderStops, ScanStops
<1> HIDE DEF l, z
<1> QED BY <1>1, <1>2, <1>3

(* It is the walk that takes the packet blocks.                            *)
LEMMA ReadIsWalk ==
  ASSUME NEW f \in Image
  PROVE  PacketsOf(f) = Walk(f, PacketKinds)
<1> DEFINE Read(r) ==
             [p \in 0..f.size |->
                IF ReaderStops(f, p)
                THEN <<>>
                ELSE (IF HeaderAt(f, p).type \in {"EPB", "SPB"} THEN <<HeaderAt(f, p)>> ELSE <<>>)
                       \o r[p + HeaderAt(f, p).len]]
           Step(r) ==
             [p \in 0..f.size |->
                IF ScanStops(f, p)
                THEN <<>>
                ELSE Taken(HeaderAt(f, p), PacketKinds) \o r[p + HeaderAt(f, p).len]]
<1>1. ASSUME NEW r, NEW p \in 0..f.size  PROVE Read(r)[p] = Step(r)[p]
  <2>1. CASE ScanStops(f, p)
    BY <2>1, ReaderStopsWithScan
  <2>2. CASE ~ ScanStops(f, p)
    <3>1. HeaderAt(f, p) \in Block
      BY <2>2, WalkStep
    <3>2. Taken(HeaderAt(f, p), PacketKinds)
            = IF HeaderAt(f, p).type \in {"EPB", "SPB"} THEN <<HeaderAt(f, p)>> ELSE <<>>
      BY <3>1 DEF Taken, PacketKinds
    <3> QED BY <2>2, <3>2, ReaderStopsWithScan
  <2> QED BY <2>1, <2>2
<1>2. \A r : Read(r) = Step(r)
  BY <1>1
<1>3. PacketsOf(f) = (CHOOSE r : r = Read(r))[0]
  BY DEF PacketsOf
<1>4. Walk(f, PacketKinds) = (CHOOSE r : r = Step(r))[0]
  BY DEF Walk, WalkFrom
<1> HIDE DEF Read, Step
<1> QED BY <1>2, <1>3, <1>4

(* What it hands out of a packet: the row of a table.                      *)
RowsOf(r, s) ==
  /\ Len(r) = Len(s)
  /\ \A n \in 1..Len(s) : /\ r[n].pkt = s[n].body.pkt
                          /\ r[n].captured = s[n].body.cap
                          /\ r[n].link = s[n].body.link

LEMMA ReadFacts ==
  ASSUME NEW f \in Image, placed \in Captures
  PROVE  /\ PacketsOf(f) \in Seq(PacketKinds)
         /\ ReadPackets(f) \in Seq(Record)
         /\ ~ placed.classic => RowsOf(ReadPackets(f), PacketsOf(f))
<1> DEFINE s == PacketsOf(f)
           r == [n \in 1..Len(s) |-> [pkt      |-> s[n].body.pkt,
                                      captured |-> s[n].body.cap,
                                      link     |-> s[n].body.link]]
<1>1. s \in Seq(PacketKinds)
  BY ReadIsWalk, WalkBlocks
<1>2. ReadPackets(f) = IF placed.classic THEN placed.records ELSE r
  BY DEF ReadPackets
<1> HIDE DEF s
<1>3. \A n \in 1..Len(s) : s[n] \in PacketKinds
  BY <1>1, ElementsOf
<1>4. \A b \in PacketKinds : b.body.pkt \in Packet /\ b.body.cap \in Nat /\ b.body.link \in Nat
  BY DEF PacketKinds, Block, BlockOf
<1>5. \A n \in 1..Len(s) : [pkt      |-> s[n].body.pkt,
                            captured |-> s[n].body.cap,
                            link     |-> s[n].body.link] \in Record
  BY <1>3, <1>4 DEF Record
<1>6. r \in Seq(Record)
  <2>1. Len(s) \in Nat
    BY <1>1
  <2> QED BY <1>5, <2>1
<1>7. RowsOf(r, s)
  <2>1. Len(s) \in Nat
    BY <1>1
  <2>2. Len(r) = Len(s)
    BY <2>1
  <2> QED BY <2>2 DEF RowsOf
<1>8. placed.records \in Seq(Record)
  BY IndexerAssumption DEF CaptureFile
<1> HIDE DEF r
<1> QED BY <1>1, <1>2, <1>6, <1>7, <1>8 DEF s

(***************************************************************************)
(* A part of a write, in a file that others may have written meanwhile.    *)
(***************************************************************************)

LEMMA StartBounds ==
  ASSUME NEW f \in Image, NEW pos \in Nat
  PROVE  StartBefore(f, pos) \in 0..Len(f.blocks)
<1> DEFINE n == Len(f.blocks)
           T == { i \in DOMAIN f.blocks : f.blocks[i].at < pos }
<1>1. n \in Nat /\ DOMAIN f.blocks = 1..n
  BY DEF Image
<1>2. IsFiniteSet(1..n) /\ Cardinality(1..n) = n
  BY <1>1, FS_Interval
<1>3. T \subseteq 1..n
  BY <1>1
<1> HIDE DEF T
<1>4. IsFiniteSet(T) /\ Cardinality(T) \in Nat /\ Cardinality(T) <= n
  <2>1. IsFiniteSet(T) /\ Cardinality(T) <= Cardinality(1..n)
    BY <1>2, <1>3, FS_Subset
  <2> QED BY <1>2, <2>1, FS_CardinalityType
<1>5. StartBefore(f, pos) = Cardinality(T)
  BY DEF StartBefore, T
<1> QED BY <1>1, <1>4, <1>5

LEMMA LongerIsBlock ==
  ASSUME NEW b \in Block, NEW s \in Seq(Block)
  PROVE  Longer(b, s) \in Block
<1> DEFINE T == { i \in Twins(b, s) : s[i].held > b.held }
<1>1. T \subseteq 1..Len(s)
  BY DEF Twins
<1>2. Longer(b, s) = IF T = {} THEN b ELSE s[CHOOSE i \in T : TRUE]
  BY DEF Longer
<1> HIDE DEF T
<1>3. CASE T = {}
  BY <1>2, <1>3
<1>4. CASE T # {}
  <2>1. (CHOOSE i \in T : TRUE) \in 1..Len(s)
    BY <1>1, <1>4
  <2> QED BY <1>2, <1>4, <2>1, ElementsOf
<1> QED BY <1>3, <1>4

LEMMA CutAtIsBlock ==
  ASSUME NEW b \in Block, NEW pos \in Nat
  PROVE  CutAt(b, pos) \in Block
<1>1. CASE b.at < pos /\ pos < b.at + b.held
  <2>1. pos - b.at \in Nat
    BY <1>1, BlockNumbers
  <2> QED BY <1>1, <2>1, CutBlock DEF CutAt
<1>2. CASE ~ (b.at < pos /\ pos < b.at + b.held)
  BY <1>2 DEF CutAt
<1> QED BY <1>1, <1>2

LEMMA JoinedThree ==
  ASSUME NEW S, NEW s \in Seq(S), NEW t \in Seq(S), NEW u \in Seq(S)
  PROVE  s \o t \o u \in Seq(S)
OBVIOUS

(* What two writers make of a file has the form of a file.                 *)
LEMMA SplicedImage ==
  ASSUME NEW f \in Image, NEW from \in Image, NEW g \in Image
  PROVE  Spliced(f, from, g) \in Image
<1> DEFINE m == StartBefore(f, from.size)
           n == StartBefore(g, from.size)
           k == StartBefore(f, g.size)
           Left(b) == IF b.at + b.held < from.size
                      THEN b
                      ELSE IF Twins(b, g.blocks) = {} THEN CutAt(b, from.size)
                                                      ELSE Longer(b, g.blocks)
           before == [i \in 1..m |-> Left(f.blocks[i])]
           new    == [i \in 1..(Len(g.blocks) - n) |-> Longer(g.blocks[n + i], f.blocks)]
           behind == SubSeq(f.blocks, k + 1, Len(f.blocks))
           size   == IF f.size > g.size THEN f.size ELSE g.size
<1>1. /\ f.blocks \in Seq(Block) /\ g.blocks \in Seq(Block)
      /\ f.size \in Nat /\ g.size \in Nat /\ from.size \in Nat
      /\ Len(f.blocks) \in Nat /\ Len(g.blocks) \in Nat
  BY DEF Image
<1>2. m \in 0..Len(f.blocks) /\ n \in 0..Len(g.blocks) /\ k \in 0..Len(f.blocks)
  BY <1>1, StartBounds
<1>3. \A b \in Block : Left(b) \in Block
  BY <1>1, CutAtIsBlock, LongerIsBlock
<1>4. Spliced(f, from, g)
        = IF f = from THEN g ELSE [size |-> size, blocks |-> before \o new \o behind]
  BY DEF Spliced
<1> HIDE DEF m, n, k, Left
<1>5. before \in Seq(Block)
  <2>1. \A i \in 1..m : i \in 1..Len(f.blocks)
    BY <1>1, <1>2
  <2>2. \A i \in 1..m : Left(f.blocks[i]) \in Block
    BY <1>1, <1>3, <2>1, ElementsOf
  <2>3. m \in Nat
    BY <1>1, <1>2
  <2> QED BY <2>2, <2>3
<1>6. new \in Seq(Block)
  <2>1. Len(g.blocks) - n \in Nat /\ \A i \in 1..(Len(g.blocks) - n) : n + i \in 1..Len(g.blocks)
    BY <1>1, <1>2
  <2>2. \A i \in 1..(Len(g.blocks) - n) : Longer(g.blocks[n + i], f.blocks) \in Block
    BY <1>1, <2>1, ElementsOf, LongerIsBlock
  <2> QED BY <2>1, <2>2
<1>7. behind \in Seq(Block)
  BY <1>1, <1>2
<1>8. size \in Nat
  BY <1>1
<1> HIDE DEF before, new, behind, size
<1>9. before \o new \o behind \in Seq(Block)
  BY <1>5, <1>6, <1>7, JoinedThree
<1> QED BY <1>4, <1>8, <1>9 DEF Image

(* Who writes alone writes what it means to.                               *)
LEMMA SplicedAlone == ASSUME NEW f, NEW g  PROVE Spliced(f, f, g) = g
BY DEF Spliced

(***************************************************************************)
(* Types, and the layout of files.                                         *)
(***************************************************************************)
Steps == {"idle"} \cup Running \cup Ended

Matched == Running \ {"fetch", "scan"}

TypeInv ==
  /\ placed \in Captures
  /\ file \in Image
  /\ temp \subseteq [table : Table, length : ParquetSizes]
  /\ pc \in [Job -> Steps]
  /\ rows \in [Job -> Seq(Record)]
  /\ locs \in [Job -> Seq([offset : Nat, size : Nat])]
  /\ \A j \in Job : pc[j] \in Matched => Len(rows[j]) = Len(locs[j])
  /\ image \in [Job -> Image]
  /\ written \in [Job -> Image]
  /\ faults \in 0..MaxFaults
  /\ replaced \in 0..MaxReplaced
  /\ spoilt \subseteq Job
  /\ clashed \in BOOLEAN

(* As many rows as locations make a table with a row for each.             *)
LEMMA MetadataType ==
  ASSUME TypeInv, NEW j \in Job, Len(rows[j]) = Len(locs[j])
  PROVE  /\ Metadata(j) \in Table
         /\ Metadata(j) = MetadataTable(rows[j], locs[j], DefaultLinktype(rows[j]))
<1> DEFINE r == rows[j]
           l == locs[j]
           d == DefaultLinktype(r)
<1>1. r \in Seq(Record) /\ l \in Seq([offset : Nat, size : Nat])
  BY DEF TypeInv
<1>2. SubSeq(r, 1, Len(l)) = r
  BY <1>1
<1>3. d \in Nat
  <2>1. r # <<>> => r[1] \in Record
    BY <1>1
  <2> QED BY <2>1 DEF DefaultLinktype, Record
<1>4. \A x \in Record : x.pkt \in Packet /\ x.captured \in Nat /\ x.link \in Nat
  BY DEF Record
<1>5. Metadata(j) = MetadataTable(SubSeq(r, 1, Len(l)), l, d)
  BY DEF Metadata
<1>6. Len(r) = Len(l)
  OBVIOUS
<1> HIDE DEF r, l, d
<1>7. MetadataTable(r, l, d) \in Table
  BY <1>1, <1>3, <1>4, <1>6, MetadataTableType
<1> QED BY <1>2, <1>5, <1>7 DEF r, l, d

LEMMA CaptureTypes ==
  ASSUME NEW c \in Captures
  PROVE  /\ c.image \in OrderedImage /\ c.image \in Image
         /\ c.classic \in BOOLEAN /\ c.records \in Seq(Record)
BY IndexerAssumption DEF CaptureFile, OrderedImage

LEMMA TypeInvInit == Init => TypeInv
<1> SUFFICES ASSUME Init  PROVE TypeInv
  OBVIOUS
<1>1. file \in Image
  BY CaptureTypes DEF Init
<1>2. /\ 0 \in 0..MaxFaults /\ 0 \in 0..MaxReplaced
  BY IndexerAssumption
<1>3. rows \in [Job -> Seq(Record)] /\ locs \in [Job -> Seq([offset : Nat, size : Nat])]
  BY DEF Init
<1>4. image \in [Job -> Image] /\ written \in [Job -> Image]
  BY EmptyOrdered DEF Init, OrderedImage
<1> QED BY <1>1, <1>2, <1>3, <1>4 DEF Init, TypeInv, Steps, Matched, Running

(* A step of a call that keeps its rows and locations.                     *)
LEMMA TypesInStep ==
  ASSUME TypeInv, NEW j \in Job, NEW step \in Steps, pc' = [pc EXCEPT ![j] = step],
         step \in Matched => Len(rows'[j]) = Len(locs'[j]),
         placed' = placed, replaced' = replaced,
         faults' \in 0..MaxFaults,
         file' \in Image,
         temp' \subseteq [table : Table, length : ParquetSizes],
         rows' \in [Job -> Seq(Record)],
         locs' \in [Job -> Seq([offset : Nat, size : Nat])],
         \A k \in Job : k # j => rows'[k] = rows[k] /\ locs'[k] = locs[k],
         image' \in [Job -> Image], written' \in [Job -> Image],
         spoilt' \subseteq Job, clashed' \in BOOLEAN
  PROVE  TypeInv'
<1>1. pc' \in [Job -> Steps]
  BY DEF TypeInv
<1>2. \A k \in Job : pc'[k] = IF k = j THEN step ELSE pc[k]
  BY DEF TypeInv
<1>3. ASSUME NEW k \in Job, pc'[k] \in Matched  PROVE Len(rows'[k]) = Len(locs'[k])
  BY <1>2, <1>3 DEF TypeInv
<1> QED BY <1>1, <1>3 DEF TypeInv

LEMMA TypeInvStep ==
  ASSUME TypeInv, [Next]_vars
  PROVE  TypeInv'
<1> USE DEF Goto
<1>1. /\ placed \in Captures /\ file \in Image
      /\ temp \subseteq [table : Table, length : ParquetSizes]
      /\ pc \in [Job -> Steps]
      /\ rows \in [Job -> Seq(Record)]
      /\ locs \in [Job -> Seq([offset : Nat, size : Nat])]
      /\ \A j \in Job : pc[j] \in Matched => Len(rows[j]) = Len(locs[j])
      /\ image \in [Job -> Image] /\ written \in [Job -> Image]
      /\ faults \in 0..MaxFaults /\ replaced \in 0..MaxReplaced
      /\ spoilt \subseteq Job /\ clashed \in BOOLEAN
  BY DEF TypeInv
<1>2. \A j \in Job : Uses(j) => spoilt' \subseteq Job /\ clashed' \in BOOLEAN
  BY <1>1 DEF Uses, Clashes
<1>3. ASSUME NEW j \in Job, EnsurePlainCapture(j)  PROVE TypeInv'
  <2>1. PICK step \in {"failed", "fetch"} : pc' = [pc EXCEPT ![j] = step]
    BY <1>3 DEF EnsurePlainCapture
  <2> QED BY <1>1, <1>3, <2>1, TypesInStep
          DEF EnsurePlainCapture, world, local, marks, Steps, Matched, Running, Ended
<1>4. ASSUME NEW j \in Job, FetchPacketFeaturesFromCapture(j)  PROVE TypeInv'
  <2>1. ReadPackets(file) \in Seq(Record)
    BY <1>1, ReadFacts
  <2>2. /\ rows' \in [Job -> Seq(Record)] /\ \A k \in Job : k # j => rows'[k] = rows[k]
        /\ spoilt' \subseteq Job /\ clashed' \in BOOLEAN
    BY <1>1, <1>2, <1>4, <2>1 DEF FetchPacketFeaturesFromCapture
  <2>3. PICK step \in {"failed", "scan"} : pc' = [pc EXCEPT ![j] = step]
    BY <1>4 DEF FetchPacketFeaturesFromCapture
  <2> QED BY <1>1, <1>4, <2>2, <2>3, TypesInStep
          DEF FetchPacketFeaturesFromCapture, world, Steps, Matched, Running, Ended
<1>5. ASSUME NEW j \in Job, Scan(j)  PROVE TypeInv'
  <2> DEFINE L == Seq([offset : Nat, size : Nat])
  <2>1. ScanPacketLocations(file) \in L
    BY <1>1, ScanIsWalk DEF AreLocations
  <2>2. /\ locs' = [locs EXCEPT ![j] = ScanPacketLocations(file)]
        /\ rows' = rows /\ image' = image /\ written' = written
        /\ placed' = placed /\ replaced' = replaced
        /\ file' = file /\ temp' = temp /\ faults' = faults
        /\ spoilt' \subseteq Job /\ clashed' \in BOOLEAN
    BY <1>2, <1>5 DEF Scan, world
  <2>3. locs' \in [Job -> L] /\ \A k \in Job : k # j => locs'[k] = locs[k]
    BY <1>1, <2>1, <2>2
  <2>4. PICK step \in Steps :
          pc' = [pc EXCEPT ![j] = step] /\ (step \in Matched => Len(rows'[j]) = Len(locs'[j]))
    <3>1. "failed" \in Steps /\ "failed" \notin Matched /\ "meta" \in Steps
      BY DEF Steps, Matched, Running, Ended
    <3>2. CASE pc' = [pc EXCEPT ![j] = "failed"]
      BY <3>1, <3>2
    <3>3. CASE ~ (pc' = [pc EXCEPT ![j] = "failed"])
      <4>1. Len(rows[j]) = Len(locs'[j]) /\ pc' = [pc EXCEPT ![j] = "meta"]
        BY <1>5, <3>3 DEF Scan
      <4> QED BY <2>2, <3>1, <4>1
    <3> QED BY <3>2, <3>3
  <2> HIDE DEF L
  <2> QED BY <1>1, <2>2, <2>3, <2>4, TypesInStep DEF L
<1>6. ASSUME NEW j \in Job, WriteMetadata(j)  PROVE TypeInv'
  <2>1. pc[j] \in Matched
    BY <1>6 DEF WriteMetadata, Matched, Running
  <2>2. Metadata(j) \in Table
    BY <1>1, <2>1, MetadataType
  <2>3. temp' \subseteq [table : Table, length : ParquetSizes]
    BY <1>6, <2>2 DEF WriteMetadata
  <2> QED BY <1>1, <1>6, <2>1, <2>3, TypesInStep
          DEF WriteMetadata, world, local, marks, Steps, Matched, Running
<1>7. ASSUME NEW j \in Job, ReadCapture(j)  PROVE TypeInv'
  <2>1. pc[j] \in Matched
    BY <1>7 DEF ReadCapture, Matched, Running
  <2>2. image' \in [Job -> Image] /\ spoilt' \subseteq Job /\ clashed' \in BOOLEAN
    BY <1>1, <1>2, <1>7 DEF ReadCapture
  <2>3. PICK step \in {"failed", "parquet"} : pc' = [pc EXCEPT ![j] = step]
    BY <1>7 DEF ReadCapture
  <2> QED BY <1>1, <1>7, <2>1, <2>2, <2>3, TypesInStep
          DEF ReadCapture, world, Steps, Matched, Running, Ended
<1>8. ASSUME NEW j \in Job, ReadParquet(j)  PROVE TypeInv'
  <2>1. pc[j] \in Matched
    BY <1>8 DEF ReadParquet, Matched, Running
  <2>2. \A p \in temp : EmbedParquet(image[j], p.table, p.length) \in Image
    BY <1>1, IndexerAssumption, EmbeddedImage
  <2>3. image' \in [Job -> Image]
    BY <1>1, <1>8, <2>2 DEF ReadParquet
  <2>4. PICK step \in {"failed", "open"} : pc' = [pc EXCEPT ![j] = step]
    BY <1>8 DEF ReadParquet
  <2> QED BY <1>1, <1>8, <2>1, <2>3, <2>4, TypesInStep
          DEF ReadParquet, world, marks, Steps, Matched, Running, Ended
<1>9. ASSUME NEW j \in Job, OpenForWrite(j)  PROVE TypeInv'
  <2>1. pc[j] \in Matched
    BY <1>9 DEF OpenForWrite, Matched, Running
  <2>2. EmptyImage \in Image
    BY EmptyOrdered DEF OrderedImage
  <2>3. /\ written' \in [Job -> Image] /\ file' \in Image
        /\ spoilt' \subseteq Job /\ clashed' \in BOOLEAN
    BY <1>1, <1>2, <1>9, <2>2 DEF OpenForWrite
  <2> QED BY <1>1, <1>9, <2>1, <2>3, TypesInStep
          DEF OpenForWrite, world, Steps, Matched, Running
<1>10. ASSUME NEW j \in Job, WritePart(j)  PROVE TypeInv'
  <2>1. TornImages(image[j], TornSizes) \subseteq Image
    BY <1>1, IndexerAssumption, TornImagesAreImages
  <2>2. file' \in Image /\ written' \in [Job -> Image]
    BY <1>1, <1>10, <2>1, SplicedImage DEF WritePart
  <2> QED BY <1>1, <1>10, <2>2 DEF WritePart, world, marks, TypeInv
<1>11. ASSUME NEW j \in Job, WriteFile(j)  PROVE TypeInv'
  <2>1. pc[j] \in Matched
    BY <1>11 DEF WriteFile, Matched, Running
  <2>2. EmptyImage \in Image
    BY EmptyOrdered DEF OrderedImage
  <2>3. file' \in Image /\ written' \in [Job -> Image]
    BY <1>1, <1>11, <2>2, SplicedImage DEF WriteFile, Closed
  <2>4. spoilt' \subseteq Job /\ faults' \in 0..MaxFaults
    BY <1>1, <1>11, IndexerAssumption DEF WriteFile
  <2> QED BY <1>1, <1>11, <2>1, <2>3, <2>4, TypesInStep
          DEF WriteFile, Closed, world, Steps, Matched, Running
<1>12. ASSUME NEW j \in Job, Remove(j)  PROVE TypeInv'
  BY <1>1, <1>12, TypesInStep DEF Remove, world, local, marks, Steps, Matched, Running, Ended
<1>13. ASSUME NEW j \in Job, Fail(j)  PROVE TypeInv'
  <2>1. EmptyImage \in Image
    BY EmptyOrdered DEF OrderedImage
  <2>2. written' \in [Job -> Image] /\ spoilt' \subseteq Job
    BY <1>1, <1>13, <2>1 DEF Fail, Closed
  <2>3. faults' \in 0..MaxFaults
    BY <1>1, <1>13, IndexerAssumption DEF Fail
  <2> QED BY <1>1, <1>13, <2>2, <2>3, TypesInStep
          DEF Fail, Closed, world, Steps, Matched, Running, Ended
<1>14. CASE Replace
  <2>1. placed' \in Captures /\ file' \in Image
    BY <1>14, CaptureTypes DEF Replace
  <2>2. replaced' \in 0..MaxReplaced
    BY <1>1, <1>14, IndexerAssumption DEF Replace
  <2> QED BY <1>1, <1>14, <2>1, <2>2 DEF Replace, local, TypeInv
<1>15. CASE UNCHANGED vars
  BY <1>1, <1>15 DEF vars, world, local, marks, TypeInv
<1> QED BY <1>3, <1>4, <1>5, <1>6, <1>7, <1>8, <1>9, <1>10, <1>11, <1>12, <1>13, <1>14, <1>15
        DEF Next, EmbedPqcapIndex

(* The variables have their types, whether calls overlap or not: no table  *)
(* has a row without a location, and whatever calls make of the file by    *)
(* writing over each other's output, it is a sequence of blocks.           *)
THEOREM TypesKept == Spec => []TypeInv
BY TypeInvInit, TypeInvStep, PTL DEF Spec

THEOREM TypeCorrect == Spec => []TypeOK
<1>1. TypeInv => TypeOK
  BY DEF TypeInv, TypeOK, Steps, Matched
<1> QED BY <1>1, TypesKept, PTL

(***************************************************************************)
(* Files that nobody uses while another writes them.                       *)
(***************************************************************************)

(* The blocks of a file stand one behind the other, and what a call is     *)
(* writing is the beginning of what it means to write.                     *)
Tidy ==
  /\ file \in OrderedImage
  /\ image \in [Job -> OrderedImage]
  /\ \A j \in Job : pc[j] = "write" =>
       file = written[j] /\ file \in TornImages(image[j], TornSizes) /\ ~ Clashes(j)

LEMMA TidyInit == Init => Tidy
BY CaptureTypes, EmptyOrdered DEF Init, Tidy

LEMMA TidyInStep ==
  ASSUME TypeInv, Tidy, NEW j \in Job, NEW step, step # "write", pc' = [pc EXCEPT ![j] = step],
         \A k \in Job : k # j => image'[k] = image[k] /\ written'[k] = written[k],
         file' \in OrderedImage, image' \in [Job -> OrderedImage],
         file' = file \/ pc[j] = "write"
  PROVE  Tidy'
<1>1. pc'[j] = step /\ \A k \in Job : k # j => pc'[k] = pc[k]
  BY DEF TypeInv
<1>2. ASSUME NEW k \in Job, pc'[k] = "write"
      PROVE  file' = written'[k] /\ file' \in TornImages(image'[k], TornSizes) /\ ~ Clashes(k)'
  <2>1. k # j /\ pc[k] = "write"
    BY <1>1, <1>2
  <2>2. pc[j] # "write"
    BY <2>1 DEF Tidy, Clashes
  <2>3. ~ Clashes(k)'
    BY <1>1, <2>1 DEF Tidy, Clashes
  <2> QED BY <2>1, <2>2, <2>3 DEF Tidy
<1> QED BY <1>2 DEF Tidy

LEMMA TidyStep ==
  ASSUME TypeInv, Tidy, ~ clashed', [Next]_vars
  PROVE  Tidy'
<1> USE DEF Goto
<1>1. /\ file \in OrderedImage /\ image \in [Job -> OrderedImage] /\ pc \in [Job -> Steps]
      /\ DOMAIN written = Job
  BY DEF TypeInv, Tidy
<1>2. ASSUME NEW j \in Job, EnsurePlainCapture(j)  PROVE Tidy'
  <2>1. PICK step \in {"failed", "fetch"} : pc' = [pc EXCEPT ![j] = step]
    BY <1>2 DEF EnsurePlainCapture
  <2> QED BY <1>1, <1>2, <2>1, TidyInStep DEF EnsurePlainCapture, local
<1>3. ASSUME NEW j \in Job, FetchPacketFeaturesFromCapture(j)  PROVE Tidy'
  <2>1. PICK step \in {"failed", "scan"} : pc' = [pc EXCEPT ![j] = step]
    BY <1>3 DEF FetchPacketFeaturesFromCapture
  <2> QED BY <1>1, <1>3, <2>1, TidyInStep DEF FetchPacketFeaturesFromCapture
<1>4. ASSUME NEW j \in Job, Scan(j)  PROVE Tidy'
  <2>1. PICK step \in {"failed", "meta"} : pc' = [pc EXCEPT ![j] = step]
    BY <1>4 DEF Scan
  <2>2. file' = file /\ image' = image /\ written' = written
    BY <1>4 DEF Scan
  <2> QED BY <1>1, <2>1, <2>2, TidyInStep
<1>5. ASSUME NEW j \in Job, WriteMetadata(j)  PROVE Tidy'
  BY <1>1, <1>5, TidyInStep DEF WriteMetadata, local
<1>6. ASSUME NEW j \in Job, ReadCapture(j)  PROVE Tidy'
  <2>1. PICK step \in {"failed", "parquet"} : pc' = [pc EXCEPT ![j] = step]
    BY <1>6 DEF ReadCapture
  <2>2. /\ image' \in [Job -> OrderedImage] /\ file' = file /\ written' = written
        /\ \A k \in Job : k # j => image'[k] = image[k]
    BY <1>1, <1>6 DEF ReadCapture
  <2> QED BY <1>1, <2>1, <2>2, TidyInStep
<1>7. ASSUME NEW j \in Job, ReadParquet(j)  PROVE Tidy'
  <2>1. PICK step \in {"failed", "open"} : pc' = [pc EXCEPT ![j] = step]
    BY <1>7 DEF ReadParquet
  <2>2. \A p \in temp : EmbedParquet(image[j], p.table, p.length) \in OrderedImage
    BY <1>1, IndexerAssumption, EmbedOrdered DEF TypeInv
  <2>3. /\ image' \in [Job -> OrderedImage] /\ file' = file /\ written' = written
        /\ \A k \in Job : k # j => image'[k] = image[k]
    BY <1>1, <1>7, <2>2 DEF ReadParquet
  <2> QED BY <1>1, <2>1, <2>3, TidyInStep
<1>8. ASSUME NEW j \in Job, OpenForWrite(j)  PROVE Tidy'
  <2>1. /\ file' = EmptyImage /\ image' = image /\ written'[j] = EmptyImage
        /\ pc'[j] = "write" /\ \A k \in Job : k # j => pc'[k] = pc[k]
        /\ ~ Clashes(j)
    BY <1>1, <1>8 DEF OpenForWrite, Uses
  <2>2. \A k \in Job : pc'[k] = "write" => k = j
    BY <2>1 DEF Clashes
  <2>3. EmptyImage \in TornImages(image'[j], TornSizes)
    BY DEF TornImages
  <2> QED BY <1>1, <2>1, <2>2, <2>3, EmptyOrdered DEF Tidy, Clashes
<1>9. ASSUME NEW j \in Job, WritePart(j)  PROVE Tidy'
  <2>1. /\ pc[j] = "write" /\ file = written[j] /\ ~ Clashes(j) /\ pc' = pc /\ image' = image
    BY <1>9 DEF WritePart, Tidy
  <2>2. PICK g \in TornImages(image[j], TornSizes) :
          file' = Spliced(file, written[j], g) /\ written' = [written EXCEPT ![j] = g]
    BY <1>9 DEF WritePart
  <2>3. file' = g /\ written'[j] = g /\ g \in OrderedImage
    BY <1>1, <2>1, <2>2, SplicedAlone, IndexerAssumption, TornOrdered
  <2>4. \A k \in Job : pc'[k] = "write" => k = j
    BY <2>1 DEF Clashes
  <2> QED BY <1>1, <2>1, <2>3, <2>4 DEF Tidy, Clashes
<1>10. ASSUME NEW j \in Job, WriteFile(j)  PROVE Tidy'
  <2>1. /\ pc[j] = "write" /\ pc' = [pc EXCEPT ![j] = "remove"] /\ image' = image
        /\ \A k \in Job : k # j => written'[k] = written[k]
        /\ file' = Spliced(file, written[j], image[j]) \/ file' = file
    BY <1>1, <1>10 DEF WriteFile, Closed
  <2>2. file = written[j]
    BY <2>1 DEF Tidy
  <2>3. file' \in OrderedImage
    BY <1>1, <2>1, <2>2, SplicedAlone
  <2> QED BY <1>1, <2>1, <2>3, TidyInStep
<1>11. ASSUME NEW j \in Job, Remove(j)  PROVE Tidy'
  BY <1>1, <1>11, TidyInStep DEF Remove, local
<1>12. ASSUME NEW j \in Job, Fail(j)  PROVE Tidy'
  <2>1. /\ pc' = [pc EXCEPT ![j] = "failed"] /\ image' = image /\ file' = file
        /\ \A k \in Job : k # j => written'[k] = written[k]
    BY <1>1, <1>12 DEF Fail, Closed
  <2> QED BY <1>1, <2>1, TidyInStep
<1>13. CASE Replace
  <2>1. /\ \A k \in Job : pc'[k] # "write"
        /\ file' \in OrderedImage /\ image' = image
    BY <1>13, CaptureTypes DEF Replace, local, Running
  <2> QED BY <1>1, <2>1 DEF Tidy
<1>14. CASE UNCHANGED vars
  BY <1>14 DEF vars, local, Tidy, Clashes
<1> QED BY <1>2, <1>3, <1>4, <1>5, <1>6, <1>7, <1>8, <1>9, <1>10, <1>11, <1>12, <1>13, <1>14
        DEF Next, EmbedPqcapIndex

(***************************************************************************)
(* A classic capture.                                                      *)
(***************************************************************************)
Writing == {"meta", "read", "parquet", "open", "write", "remove"}

ClassicInv ==
  /\ placed \in Captures
  /\ pc \in [Job -> {"idle"} \cup Running \cup Ended]
  /\ DOMAIN rows = Job /\ DOMAIN locs = Job
  /\ placed.records # <<>> =>
       /\ file = placed.image
       /\ \A j \in Job : pc[j] \notin Writing /\ (pc[j] = "scan" => rows[j] = placed.records)

(* A scan of bytes that are no blocks finds nothing, and neither does the  *)
(* reader of blocks.                                                       *)
LEMMA NothingToScan ==
  ASSUME NEW f \in Image, f.blocks = <<>>
  PROVE  Len(ScanPacketLocations(f)) = 0 /\ PacketsOf(f) = <<>>
<1>1. Walk(f, Locatable) = <<>> /\ Walk(f, PacketKinds) = <<>>
  BY WalkOfNothing
<1>2. Len(ScanPacketLocations(f)) = Len(<<>>)
  BY <1>1, ScanIsWalk DEF AreLocations
<1> QED BY <1>1, <1>2, ReadIsWalk

LEMMA ClassicInvInit == Init => ClassicInv
BY DEF Init, ClassicInv, Running, Writing

(* The scan finds no block where the reader found packets, and the call    *)
(* stops; nothing else leads to a step that writes.                        *)
LEMMA ClassicInvStep == ClassicInv /\ [Next]_vars => ClassicInv'
<1> SUFFICES ASSUME ClassicInv, [Next]_vars  PROVE ClassicInv'
  OBVIOUS
<1> USE DEF ClassicInv
<1>1. ASSUME placed.records # <<>>
      PROVE  placed.classic /\ placed.image.blocks = <<>> /\ placed.image \in Image
             /\ placed.records \in Seq(Record)
  BY <1>1, IndexerAssumption DEF CaptureFile
<1>2. ASSUME NEW j \in Job, EnsurePlainCapture(j)  PROVE ClassicInv'
  <2>1. PICK step \in {"failed", "fetch"} : pc' = [pc EXCEPT ![j] = step]
    BY <1>2 DEF EnsurePlainCapture, Goto
  <2> QED BY <1>2, <2>1 DEF EnsurePlainCapture, MayStart, world, local, Running, Ended, Writing
<1>3. ASSUME NEW j \in Job, FetchPacketFeaturesFromCapture(j)  PROVE ClassicInv'
  <2>1. placed.records # <<>> => ReadPackets(file) = placed.records
    BY <1>1 DEF ReadPackets
  <2>2. PICK step \in {"failed", "scan"} :
          /\ pc' = [pc EXCEPT ![j] = step]
          /\ step = "scan" => rows' = [rows EXCEPT ![j] = ReadPackets(file)]
          /\ step = "failed" => rows' = rows
    BY <1>3 DEF FetchPacketFeaturesFromCapture, Goto
  <2>3. /\ pc[j] = "fetch" /\ placed' = placed /\ file' = file /\ locs' = locs
        /\ pc'[j] = step /\ \A k \in Job : k # j => pc'[k] = pc[k] /\ rows'[k] = rows[k]
        /\ DOMAIN rows' = Job /\ pc' \in [Job -> {"idle"} \cup Running \cup Ended]
        /\ step = "scan" => rows'[j] = ReadPackets(file)
    BY <1>3, <2>2 DEF FetchPacketFeaturesFromCapture, world, Running, Ended
  <2> QED BY <2>1, <2>2, <2>3 DEF Writing
<1>4. ASSUME NEW j \in Job, Scan(j)  PROVE ClassicInv'
  <2>1. /\ pc' \in [Job -> {"idle"} \cup Running \cup Ended]
        /\ DOMAIN rows' = Job /\ DOMAIN locs' = Job /\ placed' \in Captures
        /\ rows' = rows /\ placed' = placed /\ file' = file
    BY <1>4 DEF Scan, Goto, world, Running, Ended
  <2>2. ASSUME placed.records # <<>>  PROVE pc'[j] = "failed"
    <3>1. Len(locs'[j]) = 0
      BY <1>1, <1>4, <2>2, NothingToScan DEF Scan
    <3>2. rows[j] = placed.records
      BY <1>4, <2>2 DEF Scan
    <3>3. Len(rows[j]) # Len(locs'[j])
      BY <1>1, <2>2, <3>1, <3>2
    <3> QED BY <1>4, <3>3 DEF Scan, Goto
  <2>3. \A k \in Job : k # j => pc'[k] = pc[k]
    BY <1>4 DEF Scan, Goto
  <2> QED BY <2>1, <2>2, <2>3 DEF Writing
<1>5. ASSUME NEW j \in Job, pc[j] \in Writing, placed' = placed, rows' = rows, locs' = locs,
             NEW step \in Running \cup Ended, pc' = [pc EXCEPT ![j] = step]
      PROVE  ClassicInv'
  <2>1. placed.records = <<>>
    BY <1>5
  <2> QED BY <1>5, <2>1
<1>6. ASSUME NEW j \in Job, WriteMetadata(j)  PROVE ClassicInv'
  BY <1>5, <1>6 DEF WriteMetadata, Goto, world, local, Running, Writing
<1>7. ASSUME NEW j \in Job, ReadCapture(j)  PROVE ClassicInv'
  BY <1>5, <1>7 DEF ReadCapture, Goto, world, Running, Ended, Writing
<1>8. ASSUME NEW j \in Job, ReadParquet(j)  PROVE ClassicInv'
  BY <1>5, <1>8 DEF ReadParquet, Goto, world, Running, Ended, Writing
<1>9. ASSUME NEW j \in Job, OpenForWrite(j)  PROVE ClassicInv'
  BY <1>5, <1>9 DEF OpenForWrite, Goto, world, Running, Writing
<1>10. ASSUME NEW j \in Job, WritePart(j)  PROVE ClassicInv'
  BY <1>10 DEF WritePart, world, Writing
<1>11. ASSUME NEW j \in Job, WriteFile(j)  PROVE ClassicInv'
  BY <1>5, <1>11 DEF WriteFile, Closed, Goto, world, Running, Writing
<1>12. ASSUME NEW j \in Job, Remove(j)  PROVE ClassicInv'
  BY <1>5, <1>12 DEF Remove, Goto, world, local, Ended, Writing
<1>13. ASSUME NEW j \in Job, Fail(j)  PROVE ClassicInv'
  BY <1>13 DEF Fail, Closed, Goto, world, Ended, Writing
<1>14. CASE Replace
  BY <1>14 DEF Replace, local, Running, Writing
<1>15. CASE UNCHANGED vars
  BY <1>15 DEF vars, world, local
<1> QED BY <1>2, <1>3, <1>4, <1>6, <1>7, <1>8, <1>9, <1>10, <1>11, <1>12, <1>13, <1>14, <1>15
         DEF Next, EmbedPqcapIndex

(* A classic capture with packets is never written to, whether calls       *)
(* overlap or not.                                                         *)
THEOREM ClassicNeverWritten == Spec => []ClassicRefused
<1>1. ClassicInv => ClassicRefused
  BY DEF ClassicInv, ClassicRefused
<1> QED BY <1>1, ClassicInvInit, ClassicInvStep, PTL DEF Spec

(***************************************************************************)
(* Calls that do not overlap: one index, and the capture where it was.     *)
(***************************************************************************)
NoFooter(f) ==
  \A i \in DOMAIN f.blocks : f.blocks[i].type = "FOOTER" =>
    f.blocks[i].held < PQCAP_FOOTER_BLOCK_SIZE

(* f ends with a whole footer that reads back, and has no other.           *)
Footed(f) ==
  /\ f.blocks # <<>>
  /\ TailBlock(f).type = "FOOTER" /\ TailBlock(f).held = PQCAP_FOOTER_BLOCK_SIZE
  /\ FooterAtEnd(f)

LEMMA NothingFooted == NoFooter(EmptyImage)
BY DEF NoFooter, EmptyImage

(* Without a whole footer there is none at the end, and no index.          *)
LEMMA FooterlessUnindexed ==
  ASSUME NEW f \in Image, NoFooter(f)
  PROVE  FooterAtEnd(f) /\ ~ LocatorAccepted(f)
<1>1. \A i \in DOMAIN f.blocks : f.blocks[i].held \in Nat
  BY ImageNumbers
<1>2. FooterAtEnd(f)
  BY <1>1 DEF NoFooter, FooterAtEnd, PQCAP_FOOTER_BLOCK_SIZE
<1>3. f.blocks # <<>> => TailBlock(f).type # "FOOTER" \/ TailBlock(f).held # 44
  <2>1. f.blocks # <<>> => Len(f.blocks) \in DOMAIN f.blocks
    BY DEF Image
  <2> QED BY <1>1, <2>1 DEF NoFooter, TailBlock, PQCAP_FOOTER_BLOCK_SIZE
<1> QED BY <1>2, <1>3, NoFooterNoIndex

(* What EmbedParquetInPqcap builds begins with the file and ends in its    *)
(* only footer.                                                            *)
LEMMA EmbedFooted ==
  ASSUME NEW f \in Image, NoFooter(f), NEW t \in Table, NEW length \in Nat \ {0}
  PROVE  Footed(EmbedParquet(f, t, length)) /\ Heads(f, EmbedParquet(f, t, length))
<1> DEFINE g == EmbedParquet(f, t, length)
           n == Len(f.blocks)
<1>1. Embeds(f, t, length, g)
  BY EmbedFacts
<1> HIDE DEF g
<1>2. /\ n \in Nat /\ f.size \in Nat /\ g \in Image
      /\ DOMAIN f.blocks = 1..n /\ DOMAIN g.blocks = 1..(n + 2) /\ Len(g.blocks) = n + 2
      /\ \A i \in 1..n : g.blocks[i] = f.blocks[i]
      /\ g.blocks[n + 1].type = "CUSTOM"
      /\ g.blocks[n + 2].type = "FOOTER" /\ g.blocks[n + 2].held = 44
      /\ ParseFooterLocator(g.blocks[n + 2])
      /\ g.blocks[n + 2].at = f.size + g.blocks[n + 1].held
      /\ g.size = f.size + g.blocks[n + 1].held + 44
  BY <1>1 DEF Embeds
<1>3. Heads(f, g)
  BY <1>2 DEF Heads
<1>4. f.size + g.blocks[n + 1].held \in Nat
  <2>1. n + 1 \in DOMAIN g.blocks
    BY <1>2
  <2> QED BY <1>2, <2>1, ImageNumbers
<1>5. TailBlock(g) = g.blocks[n + 2] /\ g.blocks # <<>>
  BY <1>2 DEF TailBlock
<1>6. HasFooter(g)
  <2> DEFINE a == f.size + g.blocks[n + 1].held
  <2>1. a \in Nat /\ g.size = a + 44 /\ TailBlock(g).at = a
    BY <1>2, <1>4, <1>5
  <2> HIDE DEF a
  <2>2. g.size >= 44 /\ TailBlock(g).at = g.size - 44
    BY <2>1
  <2> QED BY <1>2, <1>5, <2>2 DEF HasFooter, PQCAP_FOOTER_BLOCK_SIZE
<1>7. \A i \in DOMAIN g.blocks : i \in 1..n \/ i = n + 1 \/ i = n + 2
  BY <1>2
<1> HIDE DEF n
<1>8. ASSUME NEW i \in DOMAIN g.blocks, g.blocks[i].type = "FOOTER"
      PROVE  g.blocks[i].held <= 44 /\ (g.blocks[i].held = 44 => i = n + 2)
  <2>1. CASE i \in 1..n
    <3>1. f.blocks[i].type = "FOOTER" /\ i \in DOMAIN f.blocks /\ f.blocks[i].held \in Nat
      BY <1>2, <1>8, <2>1, ImageNumbers
    <3>2. f.blocks[i].held < 44
      BY <3>1 DEF NoFooter, PQCAP_FOOTER_BLOCK_SIZE
    <3> QED BY <1>2, <2>1, <3>1, <3>2
  <2>2. CASE i = n + 1
    BY <1>2, <1>8, <2>2
  <2>3. CASE i = n + 2
    BY <1>2, <2>3
  <2> QED BY <1>7, <1>8, <2>1, <2>2, <2>3
<1>9. FooterAtEnd(g)
  BY <1>2, <1>6, <1>8 DEF FooterAtEnd, PQCAP_FOOTER_BLOCK_SIZE
<1> QED BY <1>2, <1>3, <1>5, <1>9 DEF Footed, PQCAP_FOOTER_BLOCK_SIZE, g

(* What a write that stops part of the way leaves of it has no footer.     *)
LEMMA TornUnfooted ==
  ASSUME NEW f \in Image, Footed(f), NEW cuts \in SUBSET Nat, NEW g \in TornImages(f, cuts)
  PROVE  NoFooter(g)
<1>1. ASSUME NEW k \in DOMAIN f.blocks, NEW h \in Nat, h <= f.blocks[k].held,
             k = Len(f.blocks) => h < f.blocks[k].held, g = TornAfter(f, k, h)
      PROVE  NoFooter(g)
  <2>1. /\ k \in 1..Len(f.blocks) /\ DOMAIN f.blocks = 1..Len(f.blocks)
        /\ DOMAIN g.blocks = 1..k
        /\ \A i \in 1..(k - 1) : g.blocks[i] = f.blocks[i]
        /\ g.blocks[k].type = f.blocks[k].type /\ g.blocks[k].held = h
    BY <1>1, TornFacts
  <2>2. Len(f.blocks) \in Nat /\ f.blocks[k].held \in Nat
    BY ImageNumbers DEF Image
  <2>3. \A i \in DOMAIN f.blocks : f.blocks[i].type = "FOOTER" =>
          /\ f.blocks[i].held <= 44
          /\ f.blocks[i].held = 44 => i = Len(f.blocks)
    BY DEF Footed, FooterAtEnd, PQCAP_FOOTER_BLOCK_SIZE
  <2>4. ASSUME NEW i \in DOMAIN g.blocks, g.blocks[i].type = "FOOTER"
        PROVE  g.blocks[i].held < 44
    <3>1. CASE i = k
      BY <1>1, <2>1, <2>2, <2>3, <2>4, <3>1
    <3>2. CASE i # k
      <4>1. i \in 1..(k - 1) /\ i \in DOMAIN f.blocks /\ i # Len(f.blocks)
        BY <2>1, <2>2, <3>2
      <4>2. f.blocks[i].held \in Nat /\ g.blocks[i] = f.blocks[i]
        BY <2>1, <4>1, ImageNumbers
      <4>3. f.blocks[i].held <= 44 /\ f.blocks[i].held # 44
        BY <2>3, <2>4, <4>1, <4>2
      <4> QED BY <4>2, <4>3
    <3> QED BY <3>1, <3>2
  <2> QED BY <2>4 DEF NoFooter, PQCAP_FOOTER_BLOCK_SIZE
<1> QED BY <1>1, TornCases, NothingFooted

(* What a call that is under way knows: there was no footer when it        *)
(* looked, what it read is the capture, what it writes ends in a footer,   *)
(* and nobody else has touched the file since.                             *)
CallInv(j) ==
  /\ pc[j] \in {"fetch", "scan", "meta", "read"} => NoFooter(file)
  /\ pc[j] \in {"parquet", "open", "write"} =>
       (spoilt = {} => Heads(placed.image, image[j]))
  /\ pc[j] = "parquet" => NoFooter(image[j])
  /\ pc[j] \in {"open", "write"} => Footed(image[j])

Alone == \A j, k \in Job : pc[j] \in Running /\ pc[k] \in Running => j = k

KeptInv ==
  (\A j \in Job : pc[j] # "write") /\ spoilt = {} => Heads(placed.image, file)

SerialInv ==
  /\ TypeInv
  /\ Alone
  /\ ~ clashed
  /\ Tidy
  /\ FooterAtEnd(file)
  /\ \A j \in Job : CallInv(j)
  /\ KeptInv

LEMMA CaptureBegins ==
  ASSUME NEW c \in Captures
  PROVE  FooterAtEnd(c.image) /\ Heads(c.image, c.image)
<1>1. FooterAtEnd(c.image) /\ c.image \in Image
  BY IndexerAssumption, CaptureTypes
<1> QED BY <1>1 DEF Heads, Image

LEMMA SerialInvInit == Init => SerialInv
<1> SUFFICES ASSUME Init  PROVE SerialInv
  OBVIOUS
<1>1. \A j \in Job : pc[j] = "idle"
  BY DEF Init
<1>2. Alone /\ \A j \in Job : CallInv(j)
  BY <1>1 DEF Alone, CallInv, Running
<1>3. FooterAtEnd(file) /\ KeptInv
  BY CaptureBegins DEF Init, KeptInv
<1>4. ~ clashed
  BY DEF Init
<1> QED BY <1>2, <1>3, <1>4, TypeInvInit, TidyInit DEF SerialInv

(* A step of one call is no matter of the others: none of them runs.       *)
LEMMA StepOfOne ==
  ASSUME SerialInv, TypeInv', ~ clashed', Tidy', NEW j \in Job, NEW step,
         pc[j] \in Running \/ \A k \in Job : pc[k] \notin Running,
         pc' = [pc EXCEPT ![j] = step],
         FooterAtEnd(file'), CallInv(j)', KeptInv'
  PROVE  SerialInv'
<1>1. \A k \in Job : k # j => pc'[k] = pc[k] /\ pc'[k] \notin Running
  BY DEF SerialInv, Alone, TypeInv
<1>2. Alone'
  BY <1>1 DEF Alone
<1>3. ASSUME NEW k \in Job  PROVE CallInv(k)'
  <2>1. CASE k = j
    BY <2>1
  <2>2. CASE k # j
    <3>1. pc'[k] \notin Running
      BY <1>1, <2>2
    <3> QED BY <3>1 DEF CallInv, Running
  <2> QED BY <2>1, <2>2
<1> QED BY <1>2, <1>3 DEF SerialInv

(* A step that leaves the file alone, of a call that was not writing it.   *)
LEMMA FileKept ==
  ASSUME SerialInv, NEW j \in Job, NEW step, pc[j] # "write", pc' = [pc EXCEPT ![j] = step],
         placed' = placed, file' = file, spoilt' = spoilt
  PROVE  KeptInv'
<1>1. \A k \in Job : k # j => pc'[k] = pc[k]
  BY DEF SerialInv, TypeInv
<1>2. (\A k \in Job : pc'[k] # "write") => \A k \in Job : pc[k] # "write"
  BY <1>1
<1> QED BY <1>2 DEF SerialInv, KeptInv

(* A call that is under way has the file for itself.                       *)
LEMMA NoClash ==
  ASSUME Alone, ~ clashed, [Next]_vars
  PROVE  ~ clashed'
<1>1. ASSUME NEW j \in Job, pc[j] \in Running  PROVE ~ Clashes(j)
  BY <1>1 DEF Alone, Clashes, Running
<1>2. ASSUME NEW j \in Job, Uses(j), pc[j] \in Running  PROVE ~ clashed'
  BY <1>1, <1>2 DEF Uses
<1>3. ASSUME NEW j \in Job, FetchPacketFeaturesFromCapture(j) \/ Scan(j) \/ ReadCapture(j)
                              \/ OpenForWrite(j)
      PROVE  Uses(j) /\ pc[j] \in Running
  BY <1>3 DEF FetchPacketFeaturesFromCapture, Scan, ReadCapture, OpenForWrite, Running
<1>4. ASSUME NEW j \in Job, EnsurePlainCapture(j) \/ WriteMetadata(j) \/ ReadParquet(j)
                              \/ WritePart(j) \/ WriteFile(j) \/ Remove(j) \/ Fail(j)
      PROVE  clashed' = clashed
  BY <1>4 DEF EnsurePlainCapture, WriteMetadata, ReadParquet, WritePart, WriteFile, Remove, Fail,
              marks
<1>5. CASE Replace \/ UNCHANGED vars
  BY <1>5 DEF Replace, vars, marks
<1> QED BY <1>2, <1>3, <1>4, <1>5 DEF Next, EmbedPqcapIndex

(* Calls that wait for each other do not overlap.                          *)
LEMMA OneAtATime ==
  ASSUME ~ Concurrent, TypeInv, Alone, [Next]_vars
  PROVE  Alone'
<1> USE DEF Goto
<1>1. DOMAIN pc = Job
  BY DEF TypeInv
<1>2. ASSUME NEW j \in Job, EnsurePlainCapture(j)  PROVE Alone'
  <2>1. /\ \A k \in Job : pc[k] \notin Running
        /\ \E step \in {"failed", "fetch"} : pc' = [pc EXCEPT ![j] = step]
    BY <1>2 DEF EnsurePlainCapture, MayStart
  <2>2. \A k \in Job : k # j => pc'[k] \notin Running
    BY <1>1, <2>1
  <2> QED BY <2>2 DEF Alone
<1>3. ASSUME NEW j \in Job, pc[j] \in Running, NEW step, pc' = [pc EXCEPT ![j] = step]
      PROVE  Alone'
  <2>1. \A k \in Job : pc'[k] \in Running => pc[k] \in Running
    BY <1>1, <1>3
  <2> QED BY <2>1 DEF Alone
<1>4. ASSUME NEW j \in Job,
             \/ FetchPacketFeaturesFromCapture(j) \/ Scan(j) \/ WriteMetadata(j) \/ ReadCapture(j)
             \/ ReadParquet(j) \/ OpenForWrite(j) \/ WriteFile(j) \/ Remove(j) \/ Fail(j)
      PROVE  pc[j] \in Running /\ \E step : pc' = [pc EXCEPT ![j] = step]
  <2>1. pc[j] \in Running
    BY <1>4 DEF FetchPacketFeaturesFromCapture, Scan, WriteMetadata, ReadCapture, ReadParquet,
                OpenForWrite, WriteFile, Remove, Fail, Running
  <2>2. CASE FetchPacketFeaturesFromCapture(j) \/ ReadCapture(j) \/ ReadParquet(j) \/ Fail(j)
    BY <2>1, <2>2 DEF FetchPacketFeaturesFromCapture, ReadCapture, ReadParquet, Fail
  <2>3. CASE WriteMetadata(j) \/ OpenForWrite(j) \/ WriteFile(j) \/ Remove(j)
    BY <2>1, <2>3 DEF WriteMetadata, OpenForWrite, WriteFile, Remove
  <2>4. CASE Scan(j)
    BY <2>1, <2>4 DEF Scan
  <2> QED BY <1>4, <2>2, <2>3, <2>4
<1>5. CASE Replace \/ UNCHANGED vars \/ \E j \in Job : WritePart(j)
  BY <1>5 DEF Replace, vars, WritePart, Alone
<1> QED BY <1>2, <1>3, <1>4, <1>5 DEF Next, EmbedPqcapIndex

LEMMA SerialInvStep ==
  ASSUME SerialInv, Alone', [Next]_vars
  PROVE  SerialInv'
<1> USE DEF Goto
<1>1. /\ TypeInv /\ Tidy /\ FooterAtEnd(file) /\ \A j \in Job : CallInv(j)
      /\ DOMAIN pc = Job /\ DOMAIN image = Job /\ DOMAIN written = Job
      /\ file \in Image /\ \A j \in Job : image[j] \in OrderedImage /\ image[j] \in Image
  BY DEF SerialInv, TypeInv, Tidy
<1>2. TypeInv' /\ ~ clashed' /\ Tidy'
  <2>1. TypeInv' /\ ~ clashed'
    BY <1>1, TypeInvStep, NoClash DEF SerialInv
  <2> QED BY <1>1, <2>1, TidyStep
<1>3. ASSUME NEW j \in Job, EnsurePlainCapture(j)  PROVE SerialInv'
  <2>1. PICK step \in {"failed", "fetch"} :
          /\ pc' = [pc EXCEPT ![j] = step]
          /\ step = "fetch" => ~ HasFooter(file)
    BY <1>3 DEF EnsurePlainCapture
  <2>2. /\ pc[j] = "idle" /\ placed' = placed /\ file' = file /\ image' = image
        /\ spoilt' = spoilt
    BY <1>3 DEF EnsurePlainCapture, MayStart, world, local, marks
  <2>3. step = "fetch" => NoFooter(file)
    <3>1. \A i \in DOMAIN file.blocks : file.blocks[i].held \in Nat
      BY <1>1, ImageNumbers
    <3> QED BY <1>1, <2>1, <3>1 DEF FooterAtEnd, NoFooter, PQCAP_FOOTER_BLOCK_SIZE
  <2>4. pc'[j] = step /\ \A k \in Job : k # j => pc'[k] = pc[k]
    BY <1>1, <2>1
  <2>5. KeptInv'
    BY <2>1, <2>2, FileKept
  <2>6. ASSUME NEW k \in Job  PROVE CallInv(k)'
    <3>1. CASE k = j
      BY <2>1, <2>2, <2>3, <2>4, <3>1 DEF CallInv
    <3>2. CASE k # j
      BY <1>1, <2>2, <2>4, <3>2 DEF CallInv
    <3> QED BY <3>1, <3>2
  <2> QED BY <1>1, <1>2, <2>2, <2>5, <2>6 DEF SerialInv
<1>4. ASSUME NEW j \in Job, pc[j] \in {"fetch", "scan", "meta"},
             NEW step \in {"scan", "meta", "read", "failed"},
             pc' = [pc EXCEPT ![j] = step], placed' = placed, file' = file, spoilt' = spoilt
      PROVE  SerialInv'
  <2>1. pc'[j] = step
    BY <1>1, <1>4
  <2>2. CallInv(j)'
    BY <1>1, <1>4, <2>1 DEF CallInv
  <2>3. KeptInv'
    BY <1>4, FileKept
  <2>4. pc[j] \in Running
    BY <1>4 DEF Running
  <2> QED BY <1>1, <1>2, <1>4, <2>2, <2>3, <2>4, StepOfOne
<1>5. ASSUME NEW j \in Job, FetchPacketFeaturesFromCapture(j)  PROVE SerialInv'
  <2>1. PICK step \in {"failed", "scan"} : pc' = [pc EXCEPT ![j] = step]
    BY <1>5 DEF FetchPacketFeaturesFromCapture
  <2> QED BY <1>4, <1>5, <2>1 DEF FetchPacketFeaturesFromCapture, Uses, world
<1>6. ASSUME NEW j \in Job, Scan(j)  PROVE SerialInv'
  <2>1. PICK step \in {"failed", "meta"} : pc' = [pc EXCEPT ![j] = step]
    BY <1>6 DEF Scan
  <2> QED BY <1>4, <1>6, <2>1 DEF Scan, Uses, world
<1>7. ASSUME NEW j \in Job, WriteMetadata(j)  PROVE SerialInv'
  BY <1>4, <1>7 DEF WriteMetadata, world, marks
<1>8. ASSUME NEW j \in Job, pc[j] \in Running, pc[j] # "write", pc' = [pc EXCEPT ![j] = "failed"],
             placed' = placed, file' = file, spoilt' = spoilt
      PROVE  SerialInv'
  <2>1. pc'[j] = "failed"
    BY <1>1, <1>8
  <2>2. CallInv(j)'
    BY <2>1 DEF CallInv
  <2>3. KeptInv'
    BY <1>8, FileKept
  <2> QED BY <1>1, <1>2, <1>8, <2>2, <2>3, StepOfOne
<1>9. ASSUME NEW j \in Job, ReadCapture(j)  PROVE SerialInv'
  <2>1. /\ pc[j] = "read" /\ pc[j] \in Running
        /\ placed' = placed /\ file' = file /\ spoilt' = spoilt
    BY <1>9 DEF ReadCapture, Uses, world, Running
  <2>2. CASE pc' = [pc EXCEPT ![j] = "parquet"] /\ image' = [image EXCEPT ![j] = file]
    <3>1. pc'[j] = "parquet" /\ image'[j] = file
      BY <1>1, <2>2
    <3>2. NoFooter(file)
      BY <1>1, <2>1 DEF CallInv
    <3>3. KeptInv'
      BY <2>1, <2>2, FileKept
    <3>4. \A k \in Job : pc[k] # "write"
      BY <2>1 DEF SerialInv, Alone, Running
    <3>5. spoilt' = {} => Heads(placed.image, file)
      BY <2>1, <3>4 DEF SerialInv, KeptInv
    <3>6. CallInv(j)'
      BY <2>1, <3>1, <3>2, <3>5 DEF CallInv
    <3> QED BY <1>1, <1>2, <2>1, <2>2, <3>3, <3>6, StepOfOne
  <2>3. CASE pc' = [pc EXCEPT ![j] = "failed"]
    BY <1>8, <2>1, <2>3
  <2> QED BY <1>9, <2>2, <2>3 DEF ReadCapture
<1>10. ASSUME NEW j \in Job, ReadParquet(j)  PROVE SerialInv'
  <2>1. /\ pc[j] = "parquet" /\ placed' = placed /\ file' = file /\ pc[j] \in Running
        /\ spoilt' = spoilt
    BY <1>10 DEF ReadParquet, world, marks, Running
  <2>2. CASE pc' = [pc EXCEPT ![j] = "failed"]
    BY <1>8, <2>1, <2>2
  <2>3. ASSUME NEW p \in temp, pc' = [pc EXCEPT ![j] = "open"],
               image' = [image EXCEPT ![j] = EmbedParquet(image[j], p.table, p.length)]
        PROVE  SerialInv'
    <3> DEFINE g == EmbedParquet(image[j], p.table, p.length)
    <3>1. NoFooter(image[j]) /\ (spoilt = {} => Heads(placed.image, image[j]))
      BY <1>1, <2>1 DEF CallInv
    <3>2. p.table \in Table /\ p.length \in Nat \ {0}
      BY <1>1, IndexerAssumption DEF TypeInv
    <3>3. Footed(g) /\ Heads(image[j], g)
      BY <1>1, <3>1, <3>2, EmbedFooted
    <3>4. image'[j] = g /\ pc'[j] = "open"
      BY <1>1, <2>3
    <3> HIDE DEF g
    <3>5. Heads(placed.image, image[j]) => Heads(placed.image, g)
      <4>1. Len(image[j].blocks) \in Nat /\ Len(placed.image.blocks) \in Nat
            /\ Len(g.blocks) \in Nat
        <5>1. image[j] \in Image /\ placed.image \in Image /\ g \in Image
          BY <1>1, <1>2, <3>4, CaptureTypes DEF TypeInv
        <5> QED BY <5>1 DEF Image
      <4> QED BY <3>3, <4>1 DEF Heads
    <3>6. KeptInv'
      BY <2>1, <2>3, FileKept
    <3>7. CallInv(j)'
      BY <2>1, <3>1, <3>3, <3>4, <3>5 DEF CallInv
    <3> QED BY <1>1, <1>2, <2>1, <2>3, <3>6, <3>7, StepOfOne
  <2> QED BY <1>10, <2>2, <2>3 DEF ReadParquet
<1>11. ASSUME NEW j \in Job, OpenForWrite(j)  PROVE SerialInv'
  <2>1. /\ pc[j] = "open" /\ pc' = [pc EXCEPT ![j] = "write"] /\ file' = EmptyImage
        /\ placed' = placed /\ image' = image /\ pc[j] \in Running /\ spoilt' = spoilt
    BY <1>11 DEF OpenForWrite, Uses, world, Running
  <2>2. pc'[j] = "write"
    BY <1>1, <2>1
  <2>3. CallInv(j)'
    BY <1>1, <2>1, <2>2 DEF CallInv
  <2>4. KeptInv'
    BY <2>2 DEF KeptInv
  <2>5. FooterAtEnd(file')
    BY <2>1, EmptyOrdered, NothingFooted, FooterlessUnindexed DEF OrderedImage
  <2> QED BY <1>1, <1>2, <2>1, <2>3, <2>4, <2>5, StepOfOne
<1>12. ASSUME NEW j \in Job, WritePart(j)  PROVE SerialInv'
  <2>1. /\ pc[j] = "write" /\ pc' = pc /\ image' = image /\ placed' = placed /\ spoilt' = spoilt
    BY <1>12 DEF WritePart, world, marks
  <2>2. file' \in TornImages(image[j], TornSizes) /\ Footed(image[j])
    BY <1>1, <1>2, <2>1 DEF Tidy, CallInv
  <2>3. file' \in Image /\ NoFooter(file')
    BY <1>1, <2>2, IndexerAssumption, TornImagesAreImages, TornUnfooted
  <2>4. FooterAtEnd(file')
    BY <2>3, FooterlessUnindexed
  <2>5. \A k \in Job : k # j => pc[k] \notin Running
    BY <2>1 DEF SerialInv, Alone, Running
  <2>6. \A k \in Job : CallInv(k)'
    BY <1>1, <2>1, <2>5 DEF CallInv, Running
  <2>7. KeptInv'
    BY <2>1 DEF KeptInv
  <2> QED BY <1>2, <2>4, <2>6, <2>7 DEF SerialInv
<1>13. ASSUME NEW j \in Job, WriteFile(j)  PROVE SerialInv'
  <2>1. /\ pc[j] = "write" /\ pc' = [pc EXCEPT ![j] = "remove"]
        /\ \/ file' = Spliced(file, written[j], image[j]) /\ spoilt' = spoilt
           \/ file' = file /\ spoilt' = spoilt \cup {j}
        /\ placed' = placed /\ pc[j] \in Running
    BY <1>13 DEF WriteFile, world, Running
  <2>2. /\ Footed(image[j]) /\ (spoilt = {} => Heads(placed.image, image[j]))
        /\ file = written[j] /\ FooterAtEnd(file)
    BY <1>1, <2>1 DEF CallInv, Tidy
  <2>3. \/ file' = image[j] /\ spoilt' = spoilt
        \/ file' = file /\ spoilt' = spoilt \cup {j}
    BY <2>1, <2>2, SplicedAlone
  <2>4. pc'[j] = "remove"
    BY <1>1, <2>1
  <2>5. CallInv(j)'
    BY <2>4 DEF CallInv
  <2>6. KeptInv'
    BY <2>1, <2>2, <2>3 DEF KeptInv
  <2>7. FooterAtEnd(file')
    BY <2>2, <2>3 DEF Footed
  <2> QED BY <1>1, <1>2, <2>1, <2>5, <2>6, <2>7, StepOfOne
<1>14. ASSUME NEW j \in Job, Remove(j)  PROVE SerialInv'
  <2>1. /\ pc[j] = "remove" /\ pc' = [pc EXCEPT ![j] = "done"] /\ file' = file
        /\ placed' = placed /\ pc[j] \in Running /\ spoilt' = spoilt
    BY <1>14 DEF Remove, world, marks, Running
  <2>2. pc'[j] = "done"
    BY <1>1, <2>1
  <2>3. CallInv(j)'
    BY <2>2 DEF CallInv
  <2>4. KeptInv'
    BY <2>1, FileKept
  <2> QED BY <1>1, <1>2, <2>1, <2>3, <2>4, StepOfOne
<1>15. ASSUME NEW j \in Job, Fail(j)  PROVE SerialInv'
  <2>1. /\ pc[j] \in Running /\ placed' = placed /\ file' = file
        /\ pc' = [pc EXCEPT ![j] = "failed"]
        /\ spoilt' = IF pc[j] = "write" THEN spoilt \cup {j} ELSE spoilt
    BY <1>15 DEF Fail, world
  <2>2. CASE pc[j] # "write"
    BY <1>8, <2>1, <2>2
  <2>3. CASE pc[j] = "write"
    <3>1. pc'[j] = "failed" /\ spoilt' # {}
      BY <1>1, <2>1, <2>3
    <3>2. CallInv(j)' /\ KeptInv'
      BY <3>1 DEF CallInv, KeptInv
    <3> QED BY <1>1, <1>2, <2>1, <2>3, <3>2, StepOfOne
  <2> QED BY <2>2, <2>3
<1>16. CASE Replace
  <2>1. /\ \A k \in Job : pc[k] \notin Running
        /\ placed' \in Captures /\ file' = placed'.image /\ pc' = pc
    BY <1>16 DEF Replace
  <2>2. \A k \in Job : CallInv(k)'
    BY <2>1 DEF CallInv, Running
  <2>3. FooterAtEnd(file') /\ KeptInv'
    BY <2>1, CaptureBegins DEF KeptInv
  <2> QED BY <1>2, <2>2, <2>3 DEF SerialInv
<1>17. CASE UNCHANGED vars
  <2>1. placed' = placed /\ file' = file /\ pc' = pc /\ image' = image /\ spoilt' = spoilt
    BY <1>17 DEF vars, world, local, marks
  <2> QED BY <1>1, <1>2, <2>1 DEF SerialInv, CallInv, KeptInv
<1> QED BY <1>3, <1>5, <1>6, <1>7, <1>9, <1>10, <1>11, <1>12, <1>13, <1>14, <1>15, <1>16, <1>17
        DEF Next, EmbedPqcapIndex

(* Calls that do not overlap leave at most one index in the file, however  *)
(* often they are made and whatever a call that stopped left behind.       *)
THEOREM SerialOneIndex == ASSUME ~ Concurrent PROVE Spec => []OneIndex
<1>1. SerialInv => OneIndex
  <2> SUFFICES ASSUME SerialInv  PROVE Cardinality(Footers(file)) <= 1
    BY DEF OneIndex
  <2>1. Footers(file) \subseteq {Len(file.blocks)}
    BY DEF SerialInv, FooterAtEnd, Footers
  <2>2. IsFiniteSet({Len(file.blocks)}) /\ Cardinality({Len(file.blocks)}) = 1
    BY FS_Singleton
  <2>3. Cardinality(Footers(file)) <= Cardinality({Len(file.blocks)})
    BY <2>1, <2>2, FS_Subset
  <2> QED BY <2>2, <2>3
<1>2. SerialInv /\ [Next]_vars => SerialInv'
  BY OneAtATime, SerialInvStep DEF SerialInv
<1> QED BY <1>1, <1>2, SerialInvInit, PTL DEF Spec

(* Calls that do not overlap keep every block of the capture where it was, *)
(* unless one of them stopped while it wrote the file, or the flush of its *)
(* fclose failed, which the call does not notice.                          *)
THEOREM SerialKeepsCapture == ASSUME ~ Concurrent PROVE Spec => []CaptureKept
<1>1. SerialInv => CaptureKept
  <2> SUFFICES ASSUME SerialInv, \A j \in Job : pc[j] # "write", spoilt = {}
               PROVE  Leads(placed.image.blocks, file.blocks)
    BY DEF CaptureKept
  <2> DEFINE s == placed.image.blocks
             t == file.blocks
  <2>1. s \in Seq(Block) /\ t \in Seq(Block)
    BY CaptureTypes DEF SerialInv, TypeInv, Image
  <2>2. Len(s) <= Len(t) /\ \A i \in 1..Len(s) : t[i] = s[i]
    BY DEF SerialInv, KeptInv, Heads
  <2> HIDE DEF s, t
  <2>3. SubSeq(t, 1, Len(s)) = s
    BY <2>1, <2>2
  <2> QED BY <2>2, <2>3 DEF Leads, s, t
<1>2. SerialInv /\ [Next]_vars => SerialInv'
  BY OneAtATime, SerialInvStep DEF SerialInv
<1> QED BY <1>1, <1>2, SerialInvInit, PTL DEF Spec

(***************************************************************************)
(* Calls that do not overlap: what the index lists.                        *)
(***************************************************************************)

(* No packet of f is of LINKTYPE_NULL.                                     *)
LinkedImage(f) == \A i \in PacketBlocks(f) : f.blocks[i].body.link # 0

(* A table of the rows and the locations of the same packets describes     *)
(* them, one by one.                                                       *)
LEMMA MetadataLists ==
  ASSUME NEW f \in Image, LinkedImage(f), NEW r, NEW l, NEW default,
         RowsOf(r, PacketsOf(f)), AreLocations(l, PacketsOf(f))
  PROVE  Lists(MetadataTable(r, l, default), f)
<1> DEFINE s == PacketsOf(f)
           t == MetadataTable(r, l, default)
<1>1. s \in Seq(PacketKinds) /\ s = Walk(f, PacketKinds)
  BY ReadIsWalk, WalkBlocks
<1>2. ASSUME NEW n \in 1..Len(s)  PROVE s[n].body.link # 0
  <2>1. PICK i \in DOMAIN f.blocks : s[n] = f.blocks[i] /\ f.blocks[i] \in PacketKinds
    BY <1>1, <1>2, WalkBlocks
  <2>2. i \in PacketBlocks(f)
    BY <2>1 DEF PacketBlocks, PacketKinds
  <2> QED BY <2>1, <2>2 DEF LinkedImage
<1>3. RowsOf(r, s) /\ AreLocations(l, s)
  OBVIOUS
<1>4. /\ Len(r) = Len(s) /\ Len(s) \in Nat
      /\ DOMAIN t = 1..Len(r)
      /\ \A n \in 1..Len(r) : /\ t[n].offset = l[n].offset
                              /\ t[n].size = l[n].size
                              /\ t[n].pkt = r[n].pkt
                              /\ t[n].frame_number = n
                              /\ t[n].captured_length = IF r[n].captured # 0
                                                        THEN r[n].captured ELSE l[n].size
                              /\ t[n].linktype = EffectiveLink(r[n].link, default)
  BY <1>1, <1>3 DEF RowsOf, MetadataTable
<1>5. Len(t) = Len(s)
  <2>1. t \in Seq({t[n] : n \in 1..Len(r)})
    BY <1>1, <1>4 DEF MetadataTable
  <2> QED BY <1>4, <2>1
<1> HIDE DEF s, t
<1>6. ASSUME NEW n \in 1..Len(s)  PROVE IsRow(t[n], n, s[n])
  <2>1. /\ r[n].pkt = s[n].body.pkt /\ r[n].captured = s[n].body.cap
        /\ r[n].link = s[n].body.link
        /\ l[n].offset = DataAt(s[n]) /\ l[n].size = s[n].body.cap
    BY <1>3 DEF RowsOf, AreLocations
  <2>2. Describes(t[n], s[n])
    BY <1>2, <1>4, <2>1 DEF Describes, EffectiveLink
  <2>3. t[n].frame_number = n /\ t[n].captured_length = s[n].body.cap
    BY <1>4, <2>1
  <2> QED BY <2>2, <2>3 DEF IsRow
<1> QED BY <1>4, <1>5, <1>6 DEF Lists, s, t

(* What stands before the index that is embedded in f is f.                *)
LEMMA PlaneOfEmbed ==
  ASSUME NEW f \in Image, NEW t \in Table, NEW length \in Nat \ {0}
  PROVE  PacketPlane(EmbedParquet(f, t, length)) = f
<1> DEFINE g == EmbedParquet(f, t, length)
           n == Len(f.blocks)
<1>1. Embeds(f, t, length, g)
  BY EmbedFacts
<1> HIDE DEF g
<1>2. /\ n \in Nat /\ g \in Image /\ Len(g.blocks) = n + 2
      /\ DOMAIN g.blocks = 1..(n + 2)
      /\ \A i \in 1..n : g.blocks[i] = f.blocks[i]
      /\ g.blocks[n + 1].at = f.size
  BY <1>1 DEF Embeds
<1>3. Len(g.blocks) - 1 = n + 1 /\ Len(g.blocks) - 2 = n
  BY <1>2
<1>4. SubSeq(g.blocks, 1, n) = f.blocks
  <2>1. g.blocks \in Seq(Block) /\ f.blocks \in Seq(Block)
    BY <1>2 DEF Image
  <2> QED BY <1>2, <2>1
<1>5. f = [size |-> f.size, blocks |-> f.blocks]
  BY DEF Image
<1> QED BY <1>2, <1>3, <1>4, <1>5 DEF PacketPlane, g

(* f has an index that read_pqcap accepts: one table, of k rows, that      *)
(* lists the packets of the capture before it.                             *)
IndexedAs(f, k) ==
  /\ LocatorAccepted(f)
  /\ \E t \in PublishedTables(f) :
       PublishedTables(f) = {t} /\ Len(t) = k /\ Lists(t, PacketPlane(f))

LEMMA EmbedIndexes ==
  ASSUME NEW f \in OrderedImage, LinkedImage(f), NEW t \in Table, NEW length \in Nat \ {0},
         Lists(t, f), EmbedParquet(f, t, length).size < U64
  PROVE  /\ IndexedAs(EmbedParquet(f, t, length), Len(t))
         /\ LinkedImage(EmbedParquet(f, t, length))
<1> DEFINE g == EmbedParquet(f, t, length)
<1>1. f \in Image /\ InFile(f)
  BY DEF OrderedImage, InOrder
<1>2. LocatorAccepted(g) /\ PublishedTables(g) = {t}
  BY <1>1, EmbedFound
<1>3. PacketPlane(g) = f
  BY <1>1, PlaneOfEmbed
<1>4. /\ PacketBlocks(g) = PacketBlocks(f)
      /\ \A i \in PacketBlocks(f) : g.blocks[i] = f.blocks[i]
  BY <1>1, EmbedKeepsPackets
<1> HIDE DEF g
<1> QED BY <1>2, <1>3, <1>4 DEF IndexedAs, LinkedImage, g

LEMMA TornLinked ==
  ASSUME NEW f \in Image, LinkedImage(f), NEW cuts \in SUBSET Nat, NEW g \in TornImages(f, cuts)
  PROVE  LinkedImage(g)
<1>1. ASSUME NEW k \in DOMAIN f.blocks, NEW h \in Nat, g = TornAfter(f, k, h)
      PROVE  LinkedImage(g)
  <2>1. /\ k \in 1..Len(f.blocks) /\ DOMAIN f.blocks = 1..Len(f.blocks)
        /\ DOMAIN g.blocks = 1..k
        /\ \A i \in 1..(k - 1) : g.blocks[i] = f.blocks[i]
        /\ g.blocks[k].type = f.blocks[k].type /\ g.blocks[k].body = f.blocks[k].body
    BY <1>1, TornFacts
  <2>2. Len(f.blocks) \in Nat
    BY DEF Image
  <2>3. \A i \in DOMAIN g.blocks : /\ i \in DOMAIN f.blocks
                                   /\ g.blocks[i].type = f.blocks[i].type
                                   /\ g.blocks[i].body = f.blocks[i].body
    BY <2>1, <2>2
  <2> QED BY <2>3 DEF LinkedImage, PacketBlocks
<1>2. LinkedImage(EmptyImage)
  BY DEF LinkedImage, PacketBlocks, EmptyImage
<1> QED BY <1>1, <1>2, TornCases

(* What a call that is under way holds in its hands: the packets of the    *)
(* file, then a table of them, then a file with that table.                *)
ListInv(j) ==
  /\ pc[j] = "scan" => Readable(file) /\ rows[j] = ReadPackets(file)
  /\ pc[j] = "meta" => RowsOf(rows[j], PacketsOf(file)) /\ AreLocations(locs[j], PacketsOf(file))
  /\ pc[j] = "read" => \A p \in temp : Lists(p.table, file) /\ Len(p.table) = Len(rows[j])
  /\ pc[j] = "parquet" =>
       /\ LinkedImage(image[j])
       /\ \A p \in temp : Lists(p.table, image[j]) /\ Len(p.table) = Len(rows[j])
  /\ pc[j] \in {"open", "write"} =>
       LinkedImage(image[j]) /\ IndexedAs(image[j], Len(rows[j]))
  /\ pc[j] = "remove" /\ j \notin spoilt => IndexedAs(file, Len(rows[j]))

RightInv ==
  /\ SerialInv
  /\ RightlyIndexed(file)
  /\ LinkedImage(file)
  /\ \A j \in Job : ListInv(j)

LEMMA RightInvInit ==
  ASSUME \A c \in Captures : Linked(c) /\ RightlyIndexed(c.image), Init
  PROVE  RightInv
<1>1. \A j \in Job : pc[j] = "idle"
  BY DEF Init
<1>2. \A j \in Job : ListInv(j)
  BY <1>1 DEF ListInv
<1>3. RightlyIndexed(file) /\ LinkedImage(file)
  BY DEF Init, Linked, LinkedImage
<1> QED BY <1>2, <1>3, SerialInvInit DEF RightInv

LEMMA RightStepOfOne ==
  ASSUME SerialInv, SerialInv', NEW j \in Job, NEW step,
         pc[j] \in Running \/ \A k \in Job : pc[k] \notin Running,
         pc' = [pc EXCEPT ![j] = step],
         RightlyIndexed(file'), LinkedImage(file'), ListInv(j)'
  PROVE  RightInv'
<1>1. \A k \in Job : k # j => pc'[k] \notin Running
  BY DEF SerialInv, Alone, TypeInv
<1>2. ASSUME NEW k \in Job  PROVE ListInv(k)'
  BY <1>1 DEF ListInv, Running
<1> QED BY <1>2 DEF RightInv

(* A file that the scan finds as many packets in as the reader did.        *)
LEMMA ScanMatches ==
  ASSUME NEW f \in Image, placed \in Captures, Readable(f),
         Len(ReadPackets(f)) = Len(ScanPacketLocations(f))
  PROVE  /\ RowsOf(ReadPackets(f), PacketsOf(f))
         /\ AreLocations(ScanPacketLocations(f), PacketsOf(f))
<1> DEFINE s == PacketsOf(f)
           l == ScanPacketLocations(f)
           r == ReadPackets(f)
           v == Walk(f, Locatable)
<1>1. AreLocations(l, v) /\ Len(l) = Len(v)
  BY ScanIsWalk DEF AreLocations
<1>2. s = Walk(f, PacketKinds)
  BY ReadIsWalk
<1>3. CASE placed.classic
  <2>1. f.blocks = <<>>
    BY <1>3, IndexerAssumption DEF Readable
  <2>2. s = <<>> /\ v = <<>>
    BY <2>1, NothingToScan, WalkOfNothing
  <2>3. Len(r) = 0
    BY <1>1, <2>2
  <2>4. RowsOf(r, s)
    BY <2>2, <2>3 DEF RowsOf
  <2> QED BY <1>1, <2>2, <2>4
<1>4. CASE ~ placed.classic
  <2>1. RowsOf(r, s)
    BY <1>4, ReadFacts
  <2>2. Len(r) = Len(s)
    BY <2>1 DEF RowsOf
  <2>3. Len(v) = Len(s)
    BY <1>1, <2>2
  <2>4. v = s
    BY <1>2, <2>3, ScanWithinRead
  <2> QED BY <1>1, <2>1, <2>4
<1> QED BY <1>3, <1>4

LEMMA RightInvStep ==
  ASSUME \A c \in Captures : Linked(c) /\ RightlyIndexed(c.image),
         RightInv, Alone', [Next]_vars
  PROVE  RightInv'
<1> USE DEF Goto
<1>1. /\ SerialInv /\ TypeInv /\ RightlyIndexed(file) /\ LinkedImage(file)
      /\ \A j \in Job : ListInv(j) /\ CallInv(j)
      /\ placed \in Captures /\ file \in Image /\ file \in OrderedImage
      /\ DOMAIN pc = Job /\ DOMAIN rows = Job /\ DOMAIN locs = Job /\ DOMAIN image = Job
      /\ \A j \in Job : image[j] \in OrderedImage /\ image[j] \in Image
      /\ Tidy
  BY DEF RightInv, SerialInv, TypeInv, OrderedImage, Tidy
<1>2. SerialInv'
  BY <1>1, SerialInvStep
<1>3. ASSUME NEW j \in Job, NEW step \in {"fetch", "done", "failed"},
             pc[j] \in Running \/ \A k \in Job : pc[k] \notin Running,
             pc' = [pc EXCEPT ![j] = step], RightlyIndexed(file'), LinkedImage(file')
      PROVE  RightInv'
  <2>1. pc'[j] = step
    BY <1>1, <1>3
  <2>2. ListInv(j)'
    BY <1>3, <2>1 DEF ListInv
  <2> QED BY <1>1, <1>2, <1>3, <2>2, RightStepOfOne
<1>4. ASSUME NEW j \in Job, EnsurePlainCapture(j)  PROVE RightInv'
  <2>1. /\ UNCHANGED <<placed, file, temp, rows, locs, image, spoilt>>
        /\ \E step \in {"failed", "fetch"} : pc' = [pc EXCEPT ![j] = step]
    BY <1>4 DEF EnsurePlainCapture, world, local, marks
  <2>2. pc'[j] \in {"failed", "fetch"} /\ \A k \in Job : k # j => pc'[k] = pc[k]
    BY <1>1, <2>1
  <2>3. ASSUME NEW k \in Job  PROVE ListInv(k)'
    BY <1>1, <2>1, <2>2 DEF ListInv, Readable, ReadPackets
  <2> QED BY <1>1, <1>2, <2>1, <2>3 DEF RightInv
<1>5. ASSUME NEW j \in Job, FetchPacketFeaturesFromCapture(j)  PROVE RightInv'
  <2>1. pc[j] \in Running /\ file' = file /\ placed' = placed
    BY <1>5 DEF FetchPacketFeaturesFromCapture, world, Running
  <2>2. CASE /\ Readable(file)
             /\ rows' = [rows EXCEPT ![j] = ReadPackets(file)]
             /\ pc' = [pc EXCEPT ![j] = "scan"]
    <3>1. pc'[j] = "scan" /\ rows'[j] = ReadPackets(file)
      BY <1>1, <2>2
    <3>2. ListInv(j)'
      BY <2>1, <2>2, <3>1 DEF ListInv, Readable, ReadPackets
    <3> QED BY <1>1, <1>2, <2>1, <2>2, <3>2, RightStepOfOne
  <2>3. CASE pc' = [pc EXCEPT ![j] = "failed"]
    BY <1>1, <1>3, <2>1, <2>3
  <2> QED BY <1>5, <2>2, <2>3 DEF FetchPacketFeaturesFromCapture
<1>6. ASSUME NEW j \in Job, Scan(j)  PROVE RightInv'
  <2>1. /\ pc[j] = "scan" /\ pc[j] \in Running /\ file' = file /\ rows' = rows
        /\ locs'[j] = ScanPacketLocations(file)
    BY <1>1, <1>6 DEF Scan, Running
  <2>2. Readable(file) /\ rows[j] = ReadPackets(file)
    BY <1>1, <2>1 DEF ListInv
  <2>3. CASE pc' = [pc EXCEPT ![j] = "failed"]
    BY <1>1, <1>3, <2>1, <2>3
  <2>4. CASE ~ (pc' = [pc EXCEPT ![j] = "failed"])
    <3>1. Len(rows[j]) = Len(locs'[j]) /\ pc' = [pc EXCEPT ![j] = "meta"]
      BY <1>6, <2>4 DEF Scan
    <3>2. Len(ReadPackets(file)) = Len(ScanPacketLocations(file)) /\ pc'[j] = "meta"
      BY <1>1, <2>1, <2>2, <3>1
    <3>3. RowsOf(rows'[j], PacketsOf(file)) /\ AreLocations(locs'[j], PacketsOf(file))
      BY <1>1, <2>1, <2>2, <3>2, ScanMatches
    <3>4. ListInv(j)'
      BY <2>1, <3>2, <3>3 DEF ListInv
    <3> QED BY <1>1, <1>2, <2>1, <3>1, <3>4, RightStepOfOne
  <2> QED BY <2>3, <2>4
<1>7. ASSUME NEW j \in Job, WriteMetadata(j)  PROVE RightInv'
  <2>1. /\ pc[j] = "meta" /\ pc[j] \in Running /\ pc[j] \in Matched
        /\ file' = file /\ rows' = rows
        /\ \A p \in temp' : p.table = Metadata(j)
        /\ pc' = [pc EXCEPT ![j] = "read"] /\ pc'[j] = "read"
    BY <1>1, <1>7 DEF WriteMetadata, Running, Matched, local
  <2>2. RowsOf(rows[j], PacketsOf(file)) /\ AreLocations(locs[j], PacketsOf(file))
    BY <1>1, <2>1 DEF ListInv
  <2>3. Len(rows[j]) = Len(locs[j])
    BY <1>1, <2>1 DEF TypeInv
  <2>4. Metadata(j) = MetadataTable(rows[j], locs[j], DefaultLinktype(rows[j]))
    BY <1>1, <2>3, MetadataType
  <2>5. Lists(Metadata(j), file)
    BY <1>1, <2>2, <2>4, MetadataLists
  <2>6. Len(Metadata(j)) = Len(rows[j])
    BY <2>2, <2>5 DEF Lists, RowsOf
  <2>7. ListInv(j)'
    BY <2>1, <2>5, <2>6 DEF ListInv
  <2> QED BY <1>1, <1>2, <2>1, <2>7, RightStepOfOne
<1>8. ASSUME NEW j \in Job, ReadCapture(j)  PROVE RightInv'
  <2>1. pc[j] = "read" /\ pc[j] \in Running /\ file' = file /\ rows' = rows /\ temp' = temp
    BY <1>8 DEF ReadCapture, Running
  <2>2. CASE pc' = [pc EXCEPT ![j] = "parquet"] /\ image' = [image EXCEPT ![j] = file]
    <3>1. pc'[j] = "parquet" /\ image'[j] = file
      BY <1>1, <2>2
    <3>2. \A p \in temp : Lists(p.table, file) /\ Len(p.table) = Len(rows[j])
      BY <1>1, <2>1 DEF ListInv
    <3>3. ListInv(j)'
      BY <1>1, <2>1, <3>1, <3>2 DEF ListInv
    <3> QED BY <1>1, <1>2, <2>1, <2>2, <3>3, RightStepOfOne
  <2>3. CASE pc' = [pc EXCEPT ![j] = "failed"]
    BY <1>1, <1>3, <2>1, <2>3
  <2> QED BY <1>8, <2>2, <2>3 DEF ReadCapture
<1>9. ASSUME NEW j \in Job, ReadParquet(j)  PROVE RightInv'
  <2>1. pc[j] = "parquet" /\ pc[j] \in Running /\ file' = file /\ rows' = rows
    BY <1>9 DEF ReadParquet, Running
  <2>2. CASE pc' = [pc EXCEPT ![j] = "failed"]
    BY <1>1, <1>3, <2>1, <2>2
  <2>3. ASSUME NEW p \in temp, pc' = [pc EXCEPT ![j] = "open"],
               EmbedParquet(image[j], p.table, p.length).size < U64,
               image' = [image EXCEPT ![j] = EmbedParquet(image[j], p.table, p.length)]
        PROVE  RightInv'
    <3>1. /\ LinkedImage(image[j]) /\ Lists(p.table, image[j])
          /\ Len(p.table) = Len(rows[j])
      BY <1>1, <2>1 DEF ListInv
    <3>2. p.table \in Table /\ p.length \in Nat \ {0}
      BY <1>1, IndexerAssumption DEF TypeInv
    <3>3. image'[j] = EmbedParquet(image[j], p.table, p.length) /\ pc'[j] = "open"
      BY <1>1, <2>3
    <3>4. LinkedImage(image'[j]) /\ IndexedAs(image'[j], Len(rows[j]))
      BY <1>1, <2>3, <3>1, <3>2, <3>3, EmbedIndexes
    <3>5. ListInv(j)'
      BY <2>1, <3>3, <3>4 DEF ListInv
    <3> QED BY <1>1, <1>2, <2>1, <2>3, <3>5, RightStepOfOne
  <2> QED BY <1>9, <2>2, <2>3 DEF ReadParquet
<1>10. ASSUME NEW j \in Job, OpenForWrite(j)  PROVE RightInv'
  <2>1. /\ pc[j] = "open" /\ pc[j] \in Running /\ file' = EmptyImage
        /\ rows' = rows /\ image' = image
        /\ pc' = [pc EXCEPT ![j] = "write"] /\ pc'[j] = "write"
    BY <1>1, <1>10 DEF OpenForWrite, local, Running
  <2>2. ListInv(j)'
    BY <1>1, <2>1 DEF ListInv
  <2>3. RightlyIndexed(file')
    <3>1. EmptyImage \in Image
      BY EmptyOrdered DEF OrderedImage
    <3> QED BY <2>1, <3>1, NothingFooted, FooterlessUnindexed DEF RightlyIndexed
  <2>4. LinkedImage(file')
    BY <2>1 DEF LinkedImage, PacketBlocks, EmptyImage
  <2> QED BY <1>1, <1>2, <2>1, <2>2, <2>3, <2>4, RightStepOfOne
<1>11. ASSUME NEW j \in Job, WritePart(j)  PROVE RightInv'
  <2>1. /\ pc[j] = "write" /\ pc' = pc /\ image' = image /\ rows' = rows
    BY <1>11 DEF WritePart
  <2>2. /\ file' \in TornImages(image[j], TornSizes) /\ Footed(image[j])
        /\ LinkedImage(image[j])
    BY <1>1, <1>2, <2>1 DEF SerialInv, Tidy, CallInv, ListInv
  <2>3. file' \in Image /\ NoFooter(file') /\ LinkedImage(file')
    BY <1>1, <2>2, IndexerAssumption, TornImagesAreImages, TornUnfooted, TornLinked
  <2>4. RightlyIndexed(file')
    BY <2>3, FooterlessUnindexed DEF RightlyIndexed
  <2>5. \A k \in Job : k # j => pc[k] \notin Running
    BY <1>1, <2>1 DEF SerialInv, Alone, Running
  <2>6. \A k \in Job : ListInv(k)'
    BY <1>1, <2>1, <2>5 DEF ListInv, Running
  <2> QED BY <1>2, <2>3, <2>4, <2>6 DEF RightInv
<1>12. ASSUME NEW j \in Job, WriteFile(j)  PROVE RightInv'
  <2>1. /\ pc[j] = "write" /\ pc[j] \in Running
        /\ rows' = rows
        /\ pc' = [pc EXCEPT ![j] = "remove"] /\ pc'[j] = "remove"
        /\ \/ file' = Spliced(file, written[j], image[j])
           \/ file' = file /\ spoilt' = spoilt \cup {j}
    BY <1>1, <1>12 DEF WriteFile, Closed, Running
  <2>2. file = written[j] /\ LinkedImage(image[j]) /\ IndexedAs(image[j], Len(rows[j]))
    BY <1>1, <2>1 DEF Tidy, ListInv
  <2>3. file' = image[j] \/ (file' = file /\ j \in spoilt')
    BY <2>1, <2>2, SplicedAlone
  <2>4. ListInv(j)'
    BY <2>1, <2>2, <2>3 DEF ListInv
  <2>5. RightlyIndexed(file') /\ LinkedImage(file')
    BY <1>1, <2>2, <2>3 DEF RightlyIndexed, IndexedAs
  <2> QED BY <1>1, <1>2, <2>1, <2>4, <2>5, RightStepOfOne
<1>13. ASSUME NEW j \in Job, Remove(j) \/ Fail(j)  PROVE RightInv'
  <2>1. PICK step \in {"done", "failed"} : pc' = [pc EXCEPT ![j] = step]
    BY <1>13 DEF Remove, Fail
  <2>2. pc[j] \in Running /\ file' = file
    BY <1>13 DEF Remove, Fail, Running
  <2> QED BY <1>1, <1>3, <2>1, <2>2
<1>14. CASE Replace
  <2>1. /\ \A k \in Job : pc[k] \notin Running
        /\ placed' \in Captures /\ file' = placed'.image /\ pc' = pc
    BY <1>14 DEF Replace
  <2>2. \A k \in Job : ListInv(k)'
    BY <2>1 DEF ListInv, Running
  <2>3. RightlyIndexed(file') /\ LinkedImage(file')
    BY <2>1 DEF Linked, LinkedImage
  <2> QED BY <1>2, <2>2, <2>3 DEF RightInv
<1>15. CASE UNCHANGED vars
  <2>1. /\ placed' = placed /\ file' = file /\ pc' = pc /\ image' = image
        /\ temp' = temp /\ rows' = rows /\ locs' = locs /\ spoilt' = spoilt
    BY <1>15 DEF vars, world, local, marks
  <2>2. \A k \in Job : ListInv(k)'
    BY <1>1, <2>1 DEF ListInv, Readable, ReadPackets
  <2> QED BY <1>1, <1>2, <2>1, <2>2 DEF RightInv
<1> QED BY <1>4, <1>5, <1>6, <1>7, <1>8, <1>9, <1>10, <1>11, <1>12, <1>13, <1>14, <1>15
        DEF Next, EmbedPqcapIndex

(* Calls that do not overlap leave no index that lists anything else than  *)
(* the packets of the capture it is embedded in: not the packets of an     *)
(* earlier capture whose Parquet file a call that stopped left behind, not *)
(* one that is cut, and none at all in a file that was not written whole.  *)
THEOREM SerialIndexRight ==
  ASSUME ~ Concurrent, \A c \in Captures : Linked(c) /\ RightlyIndexed(c.image)
  PROVE  Spec => []IndexListsPackets
<1>1. RightInv => IndexListsPackets
  BY DEF RightInv, IndexListsPackets
<1>2. Init => RightInv
  BY RightInvInit
<1>3. RightInv /\ [Next]_vars => RightInv'
  BY OneAtATime, RightInvStep DEF RightInv, SerialInv
<1> QED BY <1>1, <1>2, <1>3, PTL DEF Spec

(* When such a call is about to return, the index is there, with a row for *)
(* every packet that the call counts, unless the flush of its fclose       *)
(* failed, which the call does not notice.                                 *)
THEOREM SerialIndexOnReturn ==
  ASSUME ~ Concurrent, \A c \in Captures : Linked(c) /\ RightlyIndexed(c.image)
  PROVE  Spec => []IndexedOnReturn
<1>1. RightInv => IndexedOnReturn
  BY DEF RightInv, IndexedOnReturn, ListInv, IndexedAs
<1>2. Init => RightInv
  BY RightInvInit
<1>3. RightInv /\ [Next]_vars => RightInv'
  BY OneAtATime, RightInvStep DEF RightInv, SerialInv
<1> QED BY <1>1, <1>2, <1>3, PTL DEF Spec

(***************************************************************************)
(* Calls that overlap and do not stop early: whose packets an index lists. *)
(***************************************************************************)

(* What calls may make of the capture c: it begins with c, its packet      *)
(* blocks are those of c, and its tables list the packets of c.            *)
MadeOf(c, f) ==
  /\ Heads(c, f)
  /\ f.size >= c.size
  /\ \A i \in DOMAIN f.blocks : i > Len(c.blocks) => f.blocks[i].at >= c.size
  /\ \A i \in PacketBlocks(f) : \E k \in DOMAIN c.blocks : f.blocks[i] = c.blocks[k]
  /\ \A i \in DOMAIN f.blocks : f.blocks[i].type = "CUSTOM" => Lists(f.blocks[i].body.table, c)

LEMMA EmbedMadeOf ==
  ASSUME NEW c \in Image, NEW f \in Image, MadeOf(c, f), NEW t \in Table, Lists(t, c),
         NEW length \in Nat \ {0}
  PROVE  MadeOf(c, EmbedParquet(f, t, length))
<1> DEFINE g == EmbedParquet(f, t, length)
           n == Len(f.blocks)
<1>1. Embeds(f, t, length, g)
  BY EmbedFacts
<1>2. /\ PacketBlocks(g) = PacketBlocks(f)
      /\ \A i \in PacketBlocks(f) : g.blocks[i] = f.blocks[i]
  BY EmbedKeepsPackets
<1> HIDE DEF g
<1>3. /\ n \in Nat /\ g \in Image
      /\ DOMAIN f.blocks = 1..n /\ DOMAIN g.blocks = 1..(n + 2) /\ Len(g.blocks) = n + 2
      /\ \A i \in 1..n : g.blocks[i] = f.blocks[i]
      /\ g.blocks[n + 1].type = "CUSTOM" /\ g.blocks[n + 1].body.table = t
      /\ g.blocks[n + 2].type = "FOOTER"
  BY <1>1 DEF Embeds
<1>4. Len(c.blocks) \in Nat /\ c.size \in Nat /\ f.size \in Nat
  BY DEF Image
<1>5. /\ g.blocks[n + 1].at = f.size /\ g.blocks[n + 1].held \in Nat
      /\ g.blocks[n + 2].at = f.size + g.blocks[n + 1].held
      /\ g.size \in Nat /\ g.size >= f.size
  <2>1. /\ g.blocks[n + 1].at = f.size
        /\ g.blocks[n + 2].at = f.size + g.blocks[n + 1].held
        /\ g.size = f.size + g.blocks[n + 1].held + 44
    BY <1>1 DEF Embeds
  <2> HIDE DEF n
  <2>2. n + 1 \in DOMAIN g.blocks
    BY <1>3
  <2>3. g.blocks[n + 1].held \in Nat
    BY <1>3, <2>2, ImageNumbers
  <2> QED BY <1>4, <2>1, <2>3
<1> HIDE DEF n
<1>6. \A i \in DOMAIN g.blocks : i \in 1..n \/ i = n + 1 \/ i = n + 2
  BY <1>3
<1>7. \A i \in PacketBlocks(g) : \E k \in DOMAIN c.blocks : g.blocks[i] = c.blocks[k]
  BY <1>2 DEF MadeOf
<1>8. \A i \in DOMAIN g.blocks : g.blocks[i].type = "CUSTOM" => Lists(g.blocks[i].body.table, c)
  BY <1>3, <1>6 DEF MadeOf
<1>9. Heads(c, g)
  <2>1. Len(c.blocks) <= n /\ \A i \in 1..Len(c.blocks) : f.blocks[i] = c.blocks[i]
    BY DEF MadeOf, Heads, n
  <2> QED BY <1>3, <1>4, <2>1 DEF Heads
<1>10. f.size >= c.size
  BY DEF MadeOf
<1>11. ASSUME NEW i \in DOMAIN g.blocks, i > Len(c.blocks)  PROVE g.blocks[i].at >= c.size
  <2>1. CASE i \in 1..n
    <3>1. i \in DOMAIN f.blocks /\ g.blocks[i] = f.blocks[i]
      BY <1>3, <2>1
    <3> QED BY <1>11, <3>1 DEF MadeOf
  <2>2. CASE i = n + 1 \/ i = n + 2
    BY <1>4, <1>5, <1>10, <2>2
  <2> QED BY <1>6, <2>1, <2>2
<1>12. g.size >= c.size
  BY <1>4, <1>5, <1>10
<1> QED BY <1>7, <1>8, <1>9, <1>11, <1>12 DEF MadeOf, g

(* The tables of what a write has written so far are its own.              *)
LEMMA TornTables ==
  ASSUME NEW f \in Image, NEW cuts \in SUBSET Nat, NEW g \in TornImages(f, cuts),
         NEW i \in DOMAIN g.blocks, g.blocks[i].type = "CUSTOM"
  PROVE  \E k \in DOMAIN f.blocks : f.blocks[k].type = "CUSTOM"
                                      /\ f.blocks[k].body = g.blocks[i].body
<1>1. ASSUME NEW k \in DOMAIN f.blocks, NEW h \in Nat, g = TornAfter(f, k, h)
      PROVE  /\ i \in DOMAIN f.blocks /\ f.blocks[i].type = "CUSTOM"
             /\ f.blocks[i].body = g.blocks[i].body
  <2>1. /\ k \in 1..Len(f.blocks) /\ DOMAIN f.blocks = 1..Len(f.blocks)
        /\ DOMAIN g.blocks = 1..k
        /\ \A n \in 1..(k - 1) : g.blocks[n] = f.blocks[n]
        /\ g.blocks[k].type = f.blocks[k].type /\ g.blocks[k].body = f.blocks[k].body
    BY <1>1, TornFacts
  <2>2. Len(f.blocks) \in Nat
    BY DEF Image
  <2>3. i \in DOMAIN f.blocks /\ (i = k \/ i \in 1..(k - 1))
    BY <2>1, <2>2
  <2>4. g.blocks[i].type = f.blocks[i].type /\ g.blocks[i].body = f.blocks[i].body
    BY <2>1, <2>3
  <2> QED BY <2>3, <2>4
<1>2. g # EmptyImage
  BY DEF EmptyImage
<1>3. \E k \in DOMAIN f.blocks : \E h \in Nat : g = TornAfter(f, k, h)
  BY <1>2, TornCases
<1> QED BY <1>1, <1>3

(* Who is able to read such a file reads the packets of the capture.       *)
LEMMA ReadsCapture ==
  ASSUME placed \in Captures, Intact(placed), NEW f \in OrderedImage,
         MadeOf(placed.image, f), Readable(f)
  PROVE  ReadPackets(f) = ReadPackets(placed.image)
<1> DEFINE c == placed.image
<1>1. c \in Image /\ InOrder(c) /\ f \in Image /\ InOrder(f)
  BY CaptureTypes DEF OrderedImage
<1>2. CASE placed.classic
  BY <1>2 DEF ReadPackets
<1>3. CASE ~ placed.classic
  <2>1. Chained(c) /\ Heads(c, f)
    BY <1>3 DEF Intact, MadeOf
  <2>2. \A i \in DOMAIN f.blocks : f.blocks[i] \in PacketKinds =>
          \E k \in DOMAIN c.blocks : f.blocks[i] = c.blocks[k]
    BY DEF MadeOf, PacketBlocks, PacketKinds
  <2>3. Walk(f, PacketKinds) = Walk(c, PacketKinds)
    BY <1>1, <2>1, <2>2, WalkOfBeginning
  <2>4. PacketsOf(f) = PacketsOf(c)
    BY <1>1, <2>3, ReadIsWalk
  <2> QED BY <1>3, <2>4 DEF ReadPackets
<1> QED BY <1>2, <1>3

(* A scan that finds as many packets in such a file as the capture has     *)
(* finds the packets of the capture, whichever file the rows were read of. *)
LEMMA ScansCapture ==
  ASSUME placed \in Captures, Intact(placed), NEW f \in OrderedImage,
         MadeOf(placed.image, f),
         Len(ReadPackets(placed.image)) = Len(ScanPacketLocations(f))
  PROVE  /\ RowsOf(ReadPackets(placed.image), PacketsOf(placed.image))
         /\ AreLocations(ScanPacketLocations(f), PacketsOf(placed.image))
<1> DEFINE c == placed.image
           l == ScanPacketLocations(f)
           r == ReadPackets(c)
           v == Walk(f, Locatable)
           w == Walk(c, PacketKinds)
<1>1. c \in Image /\ InOrder(c) /\ f \in Image
  BY CaptureTypes DEF OrderedImage
<1>2. AreLocations(l, v) /\ Len(l) = Len(v)
  BY <1>1, ScanIsWalk DEF AreLocations
<1>3. PacketsOf(c) = w
  BY <1>1, ReadIsWalk
<1>4. Locatable \in SUBSET PacketKinds
  BY DEF Locatable, PacketKinds
<1>5. \A i \in DOMAIN f.blocks : f.blocks[i] \in Locatable =>
        \E k \in DOMAIN c.blocks : f.blocks[i] = c.blocks[k]
  BY <1>4 DEF MadeOf, PacketBlocks, PacketKinds
<1>6. CASE placed.classic
  <2>1. c.blocks = <<>>
    BY <1>6, IndexerAssumption
  <2>2. w = <<>>
    BY <1>1, <2>1, WalkOfNothing
  <2>3. v \in Seq(Locatable) /\ \A n \in 1..Len(v) : \E i \in DOMAIN f.blocks :
          v[n] = f.blocks[i] /\ f.blocks[i] \in Locatable
    BY <1>1, WalkBlocks
  <2>4. \A n \in 1..Len(v) : FALSE
    BY <1>5, <2>1, <2>3
  <2>5. v = <<>>
    <3> HIDE DEF v
    <3>1. Len(v) \in Nat
      BY <2>3
    <3>2. Len(v) = 0
      BY <2>4, <3>1
    <3> QED BY <2>3, <3>2
  <2>6. Len(r) = 0
    BY <1>2, <2>5
  <2>7. RowsOf(r, w)
    BY <2>2, <2>6 DEF RowsOf
  <2> QED BY <1>2, <1>3, <2>2, <2>5, <2>7
<1>7. CASE ~ placed.classic
  <2>1. RowsOf(r, w) /\ Len(r) = Len(w)
    BY <1>1, <1>3, <1>7, ReadFacts DEF RowsOf
  <2>2. Len(v) = Len(w)
    BY <1>2, <2>1
  <2>3. Chained(c)
    BY <1>7 DEF Intact
  <2>4. v = w
    BY <1>1, <1>4, <1>5, <2>2, <2>3, WalkOfPackets
  <2> QED BY <1>2, <1>3, <2>1, <2>4
<1> QED BY <1>6, <1>7

Holding == {"read", "parquet", "open", "write", "remove"}

HeldInv(j) ==
  /\ pc[j] = "scan" => rows[j] = ReadPackets(placed.image)
  /\ pc[j] = "meta" =>
       /\ RowsOf(rows[j], PacketsOf(placed.image))
       /\ AreLocations(locs[j], PacketsOf(placed.image))
  /\ pc[j] \in {"parquet", "open", "write"} => MadeOf(placed.image, image[j])

FreeInv == (\A j \in Job : pc[j] # "write") => MadeOf(placed.image, file)

(* The Parquet file is there only while some call is going to use it, so   *)
(* no capture that is put at the path later meets one.                     *)
CleanInv ==
  /\ Tidy
  /\ FreeInv
  /\ \A p \in temp : Lists(p.table, placed.image)
  /\ temp # {} => \E j \in Job : pc[j] \in Holding
  /\ \A j \in Job : HeldInv(j)

OverlapInv == TypeInv /\ (~ clashed => CleanInv)

LEMMA CaptureMadeOf ==
  ASSUME NEW c \in Captures, Intact(c)
  PROVE  MadeOf(c.image, c.image)
<1>1. Heads(c.image, c.image) /\ c.image \in Image
  BY CaptureBegins, CaptureTypes
<1>2. /\ DOMAIN c.image.blocks = 1..Len(c.image.blocks) /\ Len(c.image.blocks) \in Nat
      /\ c.image.size \in Nat
  BY <1>1 DEF Image
<1> QED BY <1>1, <1>2 DEF MadeOf, Intact, PacketBlocks

LEMMA OverlapInvInit ==
  ASSUME \A c \in Captures : Intact(c), Init
  PROVE  OverlapInv
<1>1. \A j \in Job : pc[j] = "idle"
  BY DEF Init
<1>2. \A j \in Job : HeldInv(j)
  BY <1>1 DEF HeldInv
<1>3. FreeInv
  BY CaptureMadeOf DEF Init, FreeInv
<1>4. temp = {}
  BY DEF Init
<1> QED BY <1>2, <1>3, <1>4, TypeInvInit, TidyInit DEF OverlapInv, CleanInv

(* What a call knows does not depend on what the others do.                *)
LEMMA OverlapStepOfOne ==
  ASSUME TypeInv, CleanInv, Tidy', NEW j \in Job, NEW step, pc' = [pc EXCEPT ![j] = step],
         placed' = placed,
         \A k \in Job : k # j => /\ rows'[k] = rows[k]
                                 /\ locs'[k] = locs[k]
                                 /\ image'[k] = image[k],
         FreeInv',
         \A p \in temp' : Lists(p.table, placed.image),
         temp' # {} => step \in Holding \/ (temp # {} /\ pc[j] \notin Holding),
         HeldInv(j)'
  PROVE  CleanInv'
<1>1. DOMAIN pc = Job
  BY DEF TypeInv
<1>2. pc'[j] = step /\ \A k \in Job : k # j => pc'[k] = pc[k]
  BY <1>1
<1>3. ASSUME NEW k \in Job  PROVE HeldInv(k)'
  <2>1. CASE k = j
    BY <2>1
  <2>2. CASE k # j
    <3>1. HeldInv(k)
      BY DEF CleanInv
    <3> QED BY <1>2, <2>2, <3>1 DEF HeldInv, ReadPackets
  <2> QED BY <2>1, <2>2
<1>4. temp' # {} => \E k \in Job : pc'[k] \in Holding
  BY <1>2 DEF CleanInv
<1> QED BY <1>3, <1>4 DEF CleanInv

LEMMA FreeKept ==
  ASSUME TypeInv, FreeInv, NEW j \in Job, NEW step, pc[j] # "write",
         pc' = [pc EXCEPT ![j] = step], placed' = placed, file' = file
  PROVE  FreeInv'
<1>1. \A k \in Job : k # j => pc'[k] = pc[k]
  BY DEF TypeInv
<1>2. (\A k \in Job : pc'[k] # "write") => \A k \in Job : pc[k] # "write"
  BY <1>1
<1> QED BY <1>2 DEF FreeInv

LEMMA CleanStep ==
  ASSUME \A c \in Captures : Linked(c) /\ Intact(c),
         TypeInv, CleanInv, faults' = 0, ~ clashed', [Next]_vars
  PROVE  CleanInv'
<1> USE DEF Goto
<1>1. /\ placed \in Captures /\ Intact(placed) /\ LinkedImage(placed.image)
      /\ placed.image \in Image /\ FreeInv
      /\ \A p \in temp : Lists(p.table, placed.image)
      /\ \A j \in Job : HeldInv(j)
      /\ file \in OrderedImage /\ file \in Image
      /\ DOMAIN pc = Job /\ DOMAIN rows = Job /\ DOMAIN locs = Job /\ DOMAIN image = Job
      /\ \A j \in Job : image[j] \in OrderedImage /\ image[j] \in Image
  BY CaptureTypes DEF CleanInv, TypeInv, Tidy, OrderedImage, Linked, LinkedImage
<1>2. Tidy'
  BY TidyStep DEF CleanInv
<1>3. ASSUME NEW j \in Job, Uses(j), pc[j] # "write"
      PROVE  ~ Clashes(j) /\ MadeOf(placed.image, file)
  <2>1. ~ Clashes(j)
    BY <1>3 DEF Uses
  <2> QED BY <1>1, <1>3, <2>1 DEF Clashes, FreeInv
<1>4. ASSUME NEW j \in Job, NEW step \in {"fetch", "done", "failed"}, pc[j] # "write",
             pc' = [pc EXCEPT ![j] = step], placed' = placed, file' = file,
             UNCHANGED <<rows, locs, image>>,
             \/ temp' = {}
             \/ temp' = temp /\ pc[j] \notin Holding
      PROVE  CleanInv'
  <2>1. HeldInv(j)'
    BY <1>1, <1>4 DEF HeldInv
  <2>2. FreeInv'
    BY <1>1, <1>4, FreeKept
  <2> QED BY <1>1, <1>2, <1>4, <2>1, <2>2, OverlapStepOfOne
<1>5. ASSUME NEW j \in Job, EnsurePlainCapture(j)  PROVE CleanInv'
  <2>1. PICK step \in {"failed", "fetch"} : pc' = [pc EXCEPT ![j] = step]
    BY <1>5 DEF EnsurePlainCapture
  <2> QED BY <1>4, <1>5, <2>1 DEF EnsurePlainCapture, MayStart, world, local, Holding
<1>6. ASSUME NEW j \in Job, FetchPacketFeaturesFromCapture(j)  PROVE CleanInv'
  <2>1. /\ pc[j] = "fetch" /\ UNCHANGED <<placed, file, temp, locs, image>> /\ Uses(j)
    BY <1>6 DEF FetchPacketFeaturesFromCapture, world
  <2>2. CASE /\ Readable(file)
             /\ rows' = [rows EXCEPT ![j] = ReadPackets(file)]
             /\ pc' = [pc EXCEPT ![j] = "scan"]
    <3>1. MadeOf(placed.image, file) /\ pc'[j] = "scan"
      BY <1>1, <1>3, <2>1, <2>2
    <3>2. rows'[j] = ReadPackets(placed.image)
      BY <1>1, <2>2, <3>1, ReadsCapture
    <3>3. HeldInv(j)'
      BY <2>1, <3>1, <3>2 DEF HeldInv, ReadPackets
    <3>4. FreeInv'
      BY <1>1, <2>1, <2>2, FreeKept
    <3> QED BY <1>1, <1>2, <2>1, <2>2, <3>3, <3>4, OverlapStepOfOne DEF Holding
  <2>3. CASE pc' = [pc EXCEPT ![j] = "failed"] /\ rows' = rows
    BY <1>4, <2>1, <2>3 DEF Holding
  <2> QED BY <1>6, <2>2, <2>3 DEF FetchPacketFeaturesFromCapture
<1>7. ASSUME NEW j \in Job, Scan(j)  PROVE CleanInv'
  <2>1. /\ pc[j] = "scan" /\ UNCHANGED <<placed, file, temp, rows, image>> /\ Uses(j)
        /\ locs' = [locs EXCEPT ![j] = ScanPacketLocations(file)]
        /\ locs'[j] = ScanPacketLocations(file)
    BY <1>1, <1>7 DEF Scan, world
  <2>2. rows[j] = ReadPackets(placed.image) /\ MadeOf(placed.image, file)
    BY <1>1, <1>3, <2>1 DEF HeldInv
  <2>3. CASE pc' = [pc EXCEPT ![j] = "failed"]
    <3>1. pc'[j] = "failed"
      BY <1>1, <2>3
    <3>2. HeldInv(j)'
      BY <3>1 DEF HeldInv
    <3>3. FreeInv'
      BY <1>1, <2>1, <2>3, FreeKept
    <3> QED BY <1>1, <1>2, <2>1, <2>3, <3>2, <3>3, OverlapStepOfOne DEF Holding
  <2>4. CASE ~ (pc' = [pc EXCEPT ![j] = "failed"])
    <3>1. pc' = [pc EXCEPT ![j] = "meta"] /\ Len(rows[j]) = Len(locs'[j])
      BY <1>7, <2>4 DEF Scan
    <3>2. Len(ReadPackets(placed.image)) = Len(ScanPacketLocations(file)) /\ pc'[j] = "meta"
      BY <1>1, <2>1, <2>2, <3>1
    <3>3. /\ RowsOf(rows'[j], PacketsOf(placed.image))
          /\ AreLocations(locs'[j], PacketsOf(placed.image))
      BY <1>1, <2>1, <2>2, <3>2, ScansCapture
    <3>4. HeldInv(j)'
      BY <2>1, <3>2, <3>3 DEF HeldInv
    <3>5. FreeInv'
      BY <1>1, <2>1, <3>1, FreeKept
    <3> QED BY <1>1, <1>2, <2>1, <3>1, <3>4, <3>5, OverlapStepOfOne DEF Holding
  <2> QED BY <2>3, <2>4
<1>8. ASSUME NEW j \in Job, WriteMetadata(j)  PROVE CleanInv'
  <2>1. /\ pc[j] = "meta" /\ pc[j] \in Matched /\ UNCHANGED <<placed, file, rows, locs, image>>
        /\ \A p \in temp' : p.table = Metadata(j)
        /\ pc' = [pc EXCEPT ![j] = "read"] /\ pc'[j] = "read"
    BY <1>1, <1>8 DEF WriteMetadata, world, local, Running, Matched
  <2>2. /\ RowsOf(rows[j], PacketsOf(placed.image))
        /\ AreLocations(locs[j], PacketsOf(placed.image))
    BY <1>1, <2>1 DEF HeldInv
  <2>3. Len(rows[j]) = Len(locs[j])
    BY <1>1, <2>1 DEF TypeInv
  <2>4. Metadata(j) = MetadataTable(rows[j], locs[j], DefaultLinktype(rows[j]))
    BY <2>3, MetadataType
  <2>5. Lists(Metadata(j), placed.image)
    BY <1>1, <2>2, <2>4, MetadataLists
  <2>6. HeldInv(j)'
    BY <2>1 DEF HeldInv
  <2>7. FreeInv'
    BY <1>1, <2>1, FreeKept
  <2> QED BY <1>2, <2>1, <2>5, <2>6, <2>7, OverlapStepOfOne DEF Holding
<1>9. ASSUME NEW j \in Job, ReadCapture(j)  PROVE CleanInv'
  <2>1. /\ pc[j] = "read" /\ UNCHANGED <<placed, file, temp, rows, locs>> /\ Uses(j)
    BY <1>9 DEF ReadCapture, world
  <2>2. ~ Clashes(j) /\ MadeOf(placed.image, file)
    BY <1>3, <2>1
  <2>3. /\ image' = [image EXCEPT ![j] = file] /\ image'[j] = file
        /\ pc' = [pc EXCEPT ![j] = "parquet"] /\ pc'[j] = "parquet"
    BY <1>1, <1>9, <2>2 DEF ReadCapture
  <2>4. HeldInv(j)'
    BY <2>1, <2>2, <2>3 DEF HeldInv
  <2>5. FreeInv'
    BY <1>1, <2>1, <2>3, FreeKept
  <2> QED BY <1>1, <1>2, <2>1, <2>3, <2>4, <2>5, OverlapStepOfOne DEF Holding
<1>10. ASSUME NEW j \in Job, ReadParquet(j)  PROVE CleanInv'
  <2>1. pc[j] = "parquet" /\ UNCHANGED <<placed, file, temp, rows, locs>>
    BY <1>10 DEF ReadParquet, world
  <2>2. CASE temp = {} /\ image' = image /\ pc' = [pc EXCEPT ![j] = "failed"]
    BY <1>4, <2>1, <2>2
  <2>3. ASSUME NEW p \in temp, pc' = [pc EXCEPT ![j] = "open"],
               image' = [image EXCEPT ![j] = EmbedParquet(image[j], p.table, p.length)]
        PROVE  CleanInv'
    <3>1. p.table \in Table /\ p.length \in Nat \ {0} /\ Lists(p.table, placed.image)
      BY <1>1, IndexerAssumption DEF TypeInv
    <3>2. MadeOf(placed.image, image[j])
      BY <1>1, <2>1 DEF HeldInv
    <3>3. image'[j] = EmbedParquet(image[j], p.table, p.length) /\ pc'[j] = "open"
      BY <1>1, <2>3
    <3>4. MadeOf(placed.image, image'[j])
      BY <1>1, <3>1, <3>2, <3>3, EmbedMadeOf
    <3>5. HeldInv(j)'
      BY <2>1, <3>3, <3>4 DEF HeldInv
    <3>6. FreeInv'
      BY <1>1, <2>1, <2>3, FreeKept
    <3> QED BY <1>1, <1>2, <2>1, <2>3, <3>5, <3>6, OverlapStepOfOne DEF Holding
  <2> QED BY <1>10, <2>2, <2>3 DEF ReadParquet
<1>11. ASSUME NEW j \in Job, OpenForWrite(j)  PROVE CleanInv'
  <2>1. /\ pc[j] = "open" /\ UNCHANGED <<placed, temp, rows, locs, image>>
        /\ pc' = [pc EXCEPT ![j] = "write"] /\ pc'[j] = "write"
    BY <1>1, <1>11 DEF OpenForWrite, world
  <2>2. HeldInv(j)' /\ FreeInv'
    BY <1>1, <2>1 DEF HeldInv, FreeInv
  <2> QED BY <1>1, <1>2, <2>1, <2>2, OverlapStepOfOne DEF Holding
<1>12. ASSUME NEW j \in Job, WritePart(j)  PROVE CleanInv'
  <2>1. pc[j] = "write" /\ UNCHANGED <<placed, temp, pc, rows, locs, image>>
    BY <1>12 DEF WritePart, world
  <2>2. FreeInv' /\ \A k \in Job : HeldInv(k)'
    BY <1>1, <2>1 DEF HeldInv, FreeInv, ReadPackets
  <2> QED BY <1>2, <2>1, <2>2 DEF CleanInv
<1>13. ASSUME NEW j \in Job, WriteFile(j)  PROVE CleanInv'
  <2>1. ~ (faults' = faults + 1)
    BY IndexerAssumption DEF TypeInv
  <2>2. /\ pc[j] = "write" /\ UNCHANGED <<placed, temp, rows, locs, image>>
        /\ file' = Spliced(file, written[j], image[j])
        /\ pc' = [pc EXCEPT ![j] = "remove"] /\ pc'[j] = "remove"
    BY <1>1, <1>13, <2>1 DEF WriteFile, Closed, world
  <2>3. file = written[j]
    BY <2>2 DEF CleanInv, Tidy
  <2>4. file' = image[j] /\ MadeOf(placed.image, image[j])
    BY <1>1, <2>2, <2>3, SplicedAlone DEF HeldInv
  <2>5. HeldInv(j)' /\ FreeInv'
    BY <2>2, <2>4 DEF HeldInv, FreeInv
  <2> QED BY <1>1, <1>2, <2>2, <2>5, OverlapStepOfOne DEF Holding
<1>14. ASSUME NEW j \in Job, Remove(j)  PROVE CleanInv'
  BY <1>4, <1>14 DEF Remove, world, local
<1>15. ASSUME NEW j \in Job, Fail(j)  PROVE FALSE
  <2>1. faults' = faults + 1 /\ faults \in Nat
    BY <1>15, IndexerAssumption DEF Fail, TypeInv
  <2> QED BY <2>1
<1>16. CASE Replace
  <2>1. /\ \A k \in Job : pc[k] \notin Running
        /\ placed' \in Captures /\ file' = placed'.image /\ pc' = pc /\ temp' = temp
    BY <1>16 DEF Replace
  <2>2. temp = {}
    BY <2>1 DEF CleanInv, Holding, Running
  <2>3. \A k \in Job : HeldInv(k)'
    BY <2>1 DEF HeldInv, Running
  <2>4. FreeInv'
    BY <2>1, CaptureMadeOf DEF FreeInv
  <2> QED BY <1>2, <2>1, <2>2, <2>3, <2>4 DEF CleanInv
<1>17. CASE UNCHANGED vars
  <2>1. UNCHANGED <<placed, file, temp, pc, rows, locs, image>>
    BY <1>17 DEF vars, world, local
  <2>2. FreeInv' /\ \A k \in Job : HeldInv(k)'
    BY <1>1, <2>1 DEF FreeInv, HeldInv, ReadPackets
  <2> QED BY <1>2, <2>1, <2>2 DEF CleanInv
<1> QED BY <1>5, <1>6, <1>7, <1>8, <1>9, <1>10, <1>11, <1>12, <1>13, <1>14, <1>15, <1>16, <1>17
        DEF Next, EmbedPqcapIndex

(* What calls did to the file is not forgotten.                            *)
LEMMA ClashedForGood == ASSUME clashed, [Next]_vars  PROVE clashed'
BY DEF Next, EmbedPqcapIndex, EnsurePlainCapture, FetchPacketFeaturesFromCapture, Scan,
       WriteMetadata, ReadCapture, ReadParquet, OpenForWrite, WritePart, WriteFile, Remove, Fail,
       Replace, Uses, vars, marks

LEMMA OverlapInvStep ==
  ASSUME \A c \in Captures : Linked(c) /\ Intact(c),
         OverlapInv, faults' = 0, [Next]_vars
  PROVE  OverlapInv'
<1>1. TypeInv'
  BY TypeInvStep DEF OverlapInv
<1>2. ASSUME ~ clashed'  PROVE CleanInv'
  <2>1. TypeInv /\ CleanInv
    BY <1>2, ClashedForGood DEF OverlapInv, TypeInv
  <2> QED BY <1>2, <2>1, CleanStep
<1> QED BY <1>1, <1>2 DEF OverlapInv

(* The tables in the file are then of the capture, also while a call is    *)
(* writing it.                                                             *)
LEMMA CleanTables ==
  ASSUME TypeInv, CleanInv, NEW i \in DOMAIN file.blocks, file.blocks[i].type = "CUSTOM"
  PROVE  Lists(file.blocks[i].body.table, placed.image)
<1>1. CASE \A j \in Job : pc[j] # "write"
  BY <1>1 DEF CleanInv, FreeInv, MadeOf
<1>2. CASE \E j \in Job : pc[j] = "write"
  <2>1. PICK j \in Job : pc[j] = "write"
    BY <1>2
  <2>2. file \in TornImages(image[j], TornSizes) /\ MadeOf(placed.image, image[j])
        /\ image[j] \in Image
    BY <2>1 DEF CleanInv, Tidy, HeldInv, TypeInv
  <2>3. PICK k \in DOMAIN image[j].blocks :
          image[j].blocks[k].type = "CUSTOM" /\ image[j].blocks[k].body = file.blocks[i].body
    BY <2>2, TornTables, IndexerAssumption
  <2> QED BY <2>2, <2>3 DEF MadeOf
<1> QED BY <1>1, <1>2

(* Of calls that overlap, and of which none stops early, none leaves an    *)
(* index that read_pqcap accepts and that lists anything else than the     *)
(* packets of the capture at the path, as long as none has read or         *)
(* truncated the file between the fopen and the fclose of another:         *)
(* whatever output of another a call read, its rows, its locations and the *)
(* Parquet file that it finds are of that capture.                         *)
THEOREM OverlapNeverForeign ==
  ASSUME MaxFaults = 0, \A c \in Captures : Linked(c) /\ Intact(c)
  PROVE  Spec => []IndexNeverForeign
<1>1. OverlapInv => IndexNeverForeign
  BY CleanTables DEF OverlapInv, IndexNeverForeign, PublishedTables, TablesAt
<1>2. Init => OverlapInv
  BY OverlapInvInit
<1>3. OverlapInv /\ [Next]_vars => OverlapInv'
  <2> SUFFICES ASSUME OverlapInv, [Next]_vars  PROVE OverlapInv'
    OBVIOUS
  <2>1. TypeInv'
    BY TypeInvStep DEF OverlapInv
  <2>2. faults' = 0
    BY <2>1 DEF TypeInv
  <2> QED BY <2>2, OverlapInvStep
<1> QED BY <1>1, <1>2, <1>3, PTL DEF Spec

(***************************************************************************)
(* Calls that overlap and do not stop early: not all of them fail.         *)
(***************************************************************************)

(* Of a capture whose packet blocks have room for a header the scan finds  *)
(* as many packets as the reader.                                          *)
LEMMA LegibleMatches ==
  ASSUME placed \in Captures, Legible(placed), placed.records = <<>>
  PROVE  Len(ReadPackets(placed.image)) = Len(ScanPacketLocations(placed.image))
<1> DEFINE c == placed.image
           v == Walk(c, Locatable)
           w == Walk(c, PacketKinds)
<1>1. c \in Image /\ 0 \in 0..c.size
  BY CaptureTypes DEF OrderedImage, Image
<1>2. Len(ScanPacketLocations(c)) = Len(v)
  BY <1>1, ScanIsWalk DEF AreLocations
<1>3. CASE placed.classic
  <2>1. c.blocks = <<>>
    BY <1>3, IndexerAssumption
  <2>2. v = <<>>
    BY <1>1, <2>1, WalkOfNothing
  <2> QED BY <1>2, <1>3, <2>2 DEF ReadPackets
<1>4. CASE ~ placed.classic
  <2>1. Len(ReadPackets(c)) = Len(w)
    BY <1>1, <1>4, ReadFacts, ReadIsWalk DEF RowsOf
  <2>2. /\ v \in Seq(Locatable)
        /\ \A n \in 1..Len(v) : v[n] \in Locatable
    BY <1>1, WalkBlocks
  <2>3. /\ w \in Seq(PacketKinds)
        /\ \A n \in 1..Len(w) : \E i \in DOMAIN c.blocks :
             w[n] = c.blocks[i] /\ c.blocks[i] \in PacketKinds
    BY <1>1, WalkBlocks
  <2>4. \A n \in 1..Len(v) : v[n] \in PacketKinds
    BY <2>2 DEF Locatable, PacketKinds
  <2>5. ASSUME NEW n \in 1..Len(w)  PROVE w[n] \in Locatable
    <3>1. PICK i \in DOMAIN c.blocks : w[n] = c.blocks[i] /\ c.blocks[i] \in PacketKinds
      BY <2>3
    <3>2. i \in PacketBlocks(c)
      BY <3>1 DEF PacketBlocks, PacketKinds
    <3>3. c.blocks[i].len >= (IF c.blocks[i].type = "EPB" THEN 32 ELSE 16)
      BY <3>2 DEF Legible
    <3> QED BY <3>1, <3>3 DEF PacketKinds, Locatable
  <2>6. Shares(v, w, PacketKinds) /\ Shares(w, v, Locatable)
    BY <1>1, WalkTakes DEF Walk
  <2>7. /\ \A n \in 1..Len(v) : \E m \in 1..Len(w) : v[n] = w[m]
        /\ \A n \in 1..Len(w) : \E m \in 1..Len(v) : w[n] = v[m]
    <3> HIDE DEF v, w
    <3> QED BY <2>4, <2>5, <2>6 DEF Shares
  <2>8. Len(v) <= Len(w) /\ Len(w) <= Len(v)
    BY <1>1, <2>7, WalkWithin
  <2>9. Len(v) \in Nat /\ Len(w) \in Nat
    BY <2>2, <2>3
  <2>10. Len(v) = Len(w)
    <3> HIDE DEF v, w
    <3> QED BY <2>8, <2>9
  <2> QED BY <1>2, <2>1, <2>10
<1> QED BY <1>3, <1>4

(* No call has opened the file for writing.                                *)
Unwritten == \A j \in Job : pc[j] \notin {"write", "remove", "done"}

(* Until a call writes the index, nothing has made one fail.               *)
StartedInv(j) ==
  /\ pc[j] # "failed"
  /\ pc[j] = "scan" => rows[j] = ReadPackets(placed.image)
  /\ pc[j] \in {"read", "parquet"} => temp # {}

StartInv ==
  /\ TypeInv
  /\ Indexable(placed) /\ Unwritten =>
       file = placed.image /\ \A j \in Job : StartedInv(j)

LEMMA StartInvInit == Init => StartInv
<1> SUFFICES ASSUME Init  PROVE StartInv
  OBVIOUS
<1>1. file = placed.image /\ \A j \in Job : pc[j] = "idle"
  BY DEF Init
<1>2. \A j \in Job : StartedInv(j)
  BY <1>1 DEF StartedInv
<1> QED BY <1>1, <1>2, TypeInvInit DEF StartInv

(* A step of one call that does not write.                                 *)
LEMMA StartStepOfOne ==
  ASSUME StartInv, TypeInv', NEW j \in Job, NEW step, pc' = [pc EXCEPT ![j] = step],
         pc[j] \notin {"write", "remove", "done"},
         placed' = placed, file' = file, temp # {} => temp' # {},
         \A k \in Job : k # j => rows'[k] = rows[k],
         Indexable(placed) /\ file = placed.image /\ Unwritten /\ StartedInv(j)
           => StartedInv(j)'
  PROVE  StartInv'
<1>1. DOMAIN pc = Job
  BY DEF StartInv, TypeInv
<1>2. pc'[j] = step /\ \A k \in Job : k # j => pc'[k] = pc[k]
  BY <1>1
<1> SUFFICES ASSUME Indexable(placed), Unwritten'
             PROVE  file = placed.image /\ \A k \in Job : StartedInv(k)'
  BY DEF StartInv
<1>3. Unwritten
  BY <1>2 DEF Unwritten
<1>4. file = placed.image /\ \A k \in Job : StartedInv(k)
  BY <1>3 DEF StartInv
<1>5. ASSUME NEW k \in Job, k # j  PROVE StartedInv(k)'
  BY <1>2, <1>4, <1>5 DEF StartedInv, ReadPackets
<1> QED BY <1>3, <1>4, <1>5

LEMMA StartInvStep ==
  ASSUME MaxFaults = 0, MaxReplaced = 0, \A c \in Captures : Legible(c),
         StartInv, [Next]_vars
  PROVE  StartInv'
<1> USE DEF Goto
<1>1. /\ TypeInv /\ placed \in Captures /\ Legible(placed)
      /\ DOMAIN pc = Job /\ DOMAIN rows = Job /\ DOMAIN locs = Job
  BY DEF StartInv, TypeInv
<1>2. TypeInv'
  BY <1>1, TypeInvStep
<1>3. ASSUME NEW j \in Job, Unwritten  PROVE ~ Clashes(j)
  BY <1>3 DEF Unwritten, Clashes
<1>4. ASSUME NEW j \in Job, EnsurePlainCapture(j)  PROVE StartInv'
  <2>1. PICK step \in {"failed", "fetch"} : pc' = [pc EXCEPT ![j] = step]
    BY <1>4 DEF EnsurePlainCapture
  <2>2. pc[j] = "idle" /\ UNCHANGED <<placed, file, temp, rows>>
    BY <1>4 DEF EnsurePlainCapture, MayStart, world, local
  <2>3. ASSUME Indexable(placed), file = placed.image, Unwritten  PROVE StartedInv(j)'
    <3>1. pc'[j] = "fetch"
      BY <1>1, <1>4, <1>3, <2>3 DEF EnsurePlainCapture, Indexable
    <3> QED BY <3>1 DEF StartedInv
  <2> QED BY <1>2, <2>1, <2>2, <2>3, StartStepOfOne
<1>5. ASSUME NEW j \in Job, FetchPacketFeaturesFromCapture(j)  PROVE StartInv'
  <2>1. /\ pc[j] = "fetch" /\ UNCHANGED <<placed, file, temp>>
        /\ \A k \in Job : k # j => rows'[k] = rows[k]
    BY <1>1, <1>5 DEF FetchPacketFeaturesFromCapture, world
  <2>2. PICK step \in {"scan", "failed"} : pc' = [pc EXCEPT ![j] = step]
    BY <1>5 DEF FetchPacketFeaturesFromCapture
  <2>3. ASSUME file = placed.image, Unwritten  PROVE StartedInv(j)'
    <3>1. Readable(file) /\ ~ Clashes(j)
      BY <1>1, <1>3, <2>3 DEF Legible, Readable
    <3>2. pc'[j] = "scan" /\ rows'[j] = ReadPackets(placed.image)
      BY <1>1, <1>5, <2>3, <3>1 DEF FetchPacketFeaturesFromCapture
    <3> QED BY <2>1, <3>2 DEF StartedInv, ReadPackets
  <2> QED BY <1>2, <2>1, <2>2, <2>3, StartStepOfOne
<1>6. ASSUME NEW j \in Job, Scan(j)  PROVE StartInv'
  <2>1. /\ pc[j] = "scan" /\ UNCHANGED <<placed, file, temp, rows>>
        /\ locs'[j] = ScanPacketLocations(file)
    BY <1>1, <1>6 DEF Scan, world
  <2>2. PICK step \in {"meta", "failed"} : pc' = [pc EXCEPT ![j] = step]
    BY <1>6 DEF Scan
  <2>3. ASSUME Indexable(placed), file = placed.image, Unwritten, StartedInv(j)
        PROVE  StartedInv(j)'
    <3>1. Len(rows[j]) = Len(locs'[j])
      BY <1>1, <2>1, <2>3, LegibleMatches DEF StartedInv, Indexable
    <3>2. pc'[j] = "meta"
      BY <1>1, <1>6, <1>3, <2>3, <3>1 DEF Scan
    <3> QED BY <3>2 DEF StartedInv
  <2> QED BY <1>2, <2>1, <2>2, <2>3, StartStepOfOne
<1>7. ASSUME NEW j \in Job, WriteMetadata(j)  PROVE StartInv'
  <2>1. /\ pc[j] = "meta" /\ UNCHANGED <<placed, file, rows>> /\ temp' # {}
        /\ pc' = [pc EXCEPT ![j] = "read"] /\ pc'[j] = "read"
    BY <1>1, <1>7 DEF WriteMetadata, world, local
  <2>2. StartedInv(j)'
    BY <2>1 DEF StartedInv
  <2> QED BY <1>2, <2>1, <2>2, StartStepOfOne
<1>8. ASSUME NEW j \in Job, ReadCapture(j)  PROVE StartInv'
  <2>1. pc[j] = "read" /\ UNCHANGED <<placed, file, rows, temp>>
    BY <1>8 DEF ReadCapture, world
  <2>2. PICK step \in {"parquet", "failed"} : pc' = [pc EXCEPT ![j] = step]
    BY <1>8 DEF ReadCapture
  <2>3. ASSUME Unwritten, StartedInv(j)  PROVE StartedInv(j)'
    <3>1. pc'[j] = "parquet"
      BY <1>1, <1>8, <1>3, <2>3 DEF ReadCapture
    <3> QED BY <2>1, <2>3, <3>1 DEF StartedInv
  <2> QED BY <1>2, <2>1, <2>2, <2>3, StartStepOfOne
<1>9. ASSUME NEW j \in Job, ReadParquet(j)  PROVE StartInv'
  <2>1. /\ pc[j] = "parquet" /\ UNCHANGED <<placed, file, rows, temp>>
        /\ \/ temp = {} /\ pc' = [pc EXCEPT ![j] = "failed"]
           \/ pc' = [pc EXCEPT ![j] = "open"]
    BY <1>9 DEF ReadParquet, world
  <2>2. ASSUME StartedInv(j)  PROVE StartedInv(j)'
    <3>1. pc'[j] = "open"
      BY <1>1, <2>1, <2>2 DEF StartedInv
    <3> QED BY <3>1 DEF StartedInv
  <2> QED BY <1>2, <2>1, <2>2, StartStepOfOne
<1>10. ASSUME NEW j \in Job, NEW step \in {"write", "remove", "done"},
             pc' = [pc EXCEPT ![j] = step]
      PROVE  StartInv'
  <2>1. ~ Unwritten'
    BY <1>1, <1>10 DEF Unwritten
  <2> QED BY <1>2, <2>1 DEF StartInv
<1>11. ASSUME NEW j \in Job, OpenForWrite(j) \/ WriteFile(j) \/ Remove(j)  PROVE StartInv'
  BY <1>10, <1>11 DEF OpenForWrite, WriteFile, Remove
<1>12. ASSUME NEW j \in Job, WritePart(j)  PROVE StartInv'
  <2>1. pc[j] = "write" /\ pc' = pc
    BY <1>12 DEF WritePart
  <2>2. ~ Unwritten'
    BY <2>1 DEF Unwritten
  <2> QED BY <1>2, <2>2 DEF StartInv
<1>13. ASSUME NEW j \in Job, Fail(j)  PROVE FALSE
  BY <1>1, <1>13 DEF Fail, TypeInv
<1>14. ASSUME Replace  PROVE FALSE
  BY <1>1, <1>14 DEF Replace, TypeInv
<1>15. CASE UNCHANGED vars
  <2>1. UNCHANGED <<placed, file, temp, pc, rows>>
    BY <1>15 DEF vars, world, local
  <2> QED BY <1>2, <2>1 DEF StartInv, StartedInv, Unwritten, ReadPackets
<1> QED BY <1>4, <1>5, <1>6, <1>7, <1>8, <1>9, <1>11, <1>12, <1>13, <1>14, <1>15
        DEF Next, EmbedPqcapIndex

(* Calls that overlap and of which none stops early do not all fail on a   *)
(* capture that can be indexed: what makes one fail is what another has    *)
(* written, and the first to write returns.                                *)
THEOREM OverlapSucceeds ==
  ASSUME Job # {}, MaxFaults = 0, MaxReplaced = 0, \A c \in Captures : Legible(c)
  PROVE  Spec => []SomeJobSucceeds
<1>1. StartInv => SomeJobSucceeds
  <2> SUFFICES ASSUME StartInv, \A j \in Job : pc[j] \in Ended, Indexable(placed),
                      \A j \in Job : pc[j] # "done"
               PROVE  FALSE
    BY DEF SomeJobSucceeds
  <2>1. Unwritten
    BY DEF Unwritten, Ended
  <2>2. \A j \in Job : StartedInv(j)
    BY <2>1 DEF StartInv
  <2> QED BY <2>2 DEF StartedInv, Ended
<1>2. StartInv /\ [Next]_vars => StartInv'
  BY StartInvStep
<1> QED BY <1>1, <1>2, StartInvInit, PTL DEF Spec

=============================================================================
