-------------------------- MODULE PqcapWriterProofs --------------------------
(***************************************************************************)
(* A COPY that writes a capture, for every value of the constants: the     *)
(* variables have their types, and an index that read_pqcap accepts        *)
(* describes the packets of its capture, even if writes were lost or torn  *)
(* and at any point of the statement.                                      *)
(***************************************************************************)
EXTENDS PqcapWriter, PqcapFormatProofs

(***************************************************************************)
(* What the writer appends.                                                *)
(***************************************************************************)

(* The blocks that the writer appends are blocks.                          *)
LEMMA WrittenBlocks ==
  ASSUME NEW link \in Nat, NEW packet \in Packet, NEW size \in Nat, NEW ord \in Nat
  PROVE  /\ SectionBlock \in Block
         /\ InterfaceBlock(link) \in Block
         /\ PacketBlock(packet, size, link, ord) \in Block
<1>1. U32 \in Nat \ {0} /\ SHBSize \in Nat
  BY WidthAssumption, WriterAssumption
<1>2. SectionBlock \in Block
  BY <1>1 DEF SectionBlock, Block, BlockOf
<1>3. InterfaceBlock(link) \in Block
  BY <1>1 DEF InterfaceBlock, Block, BlockOf
<1>4. 32 + PadTo4(size) \in Nat /\ (32 + PadTo4(size)) % U32 \in Nat /\ size % U32 \in Nat
  BY <1>1, PadBounds
<1>5. PacketBlock(packet, size, link, ord) \in Block
  BY <1>4 DEF PacketBlock, Block, BlockOf
<1> QED BY <1>2, <1>3, <1>5

(* A packet block that is cut is a block.                                  *)
LEMMA CutPacketIsBlock ==
  ASSUME NEW link \in Nat, NEW packet \in Packet, NEW size \in Nat, NEW ord \in Nat,
         NEW h \in Nat, NEW n \in Nat
  PROVE  CutPacketBlock(packet, size, link, ord, h, n) \in Block
<1> DEFINE len == (32 + PadTo4(size)) % U32
           cap == IF h < 24 THEN n ELSE size % U32
<1>1. U32 \in Nat \ {0}
  BY WidthAssumption
<1>2. PadTo4(size) \in Nat
  BY PadBounds
<1>3. len \in Nat /\ cap \in Nat
  BY <1>1, <1>2
<1> HIDE DEF len, cap
<1>4. CutPacketBlock(packet, size, link, ord, h, n)
        = [type |-> "EPB", at |-> 0, held |-> h, len |-> len,
           body |-> [pkt |-> packet, cap |-> cap, link |-> link, ord |-> ord]]
  BY DEF CutPacketBlock, cap, len
<1>5. CutPacketBlock(packet, size, link, ord, h, n)
        \in BlockOf("EPB", [pkt : Packet, cap : Nat, link : Nat, ord : Nat])
  BY <1>3, <1>4 DEF BlockOf
<1> QED BY <1>5 DEF Block

(* A row of a chunk has the types of InputRow, and so has what is buffered *)
(* of it.                                                                  *)
LEMMA RowTypes ==
  ASSUME NEW c \in Chunk, NEW n \in 1..Len(RowsOf[c])
  PROVE  /\ RowsOf[c][n] \in InputRow
         /\ DataLink(RowsOf[c][n]) \in 0..(U16 - 1)
         /\ Buffered(RowsOf[c][n]) \in BufferedRow
<1>1. RowsOf[c] \in Seq(InputRow)
  BY WriterAssumption
<1>2. RowsOf[c][n] \in InputRow
  BY <1>1
<1>3. U16 \in Nat \ {0}
  BY WriterAssumption
<1>4. DataLink(RowsOf[c][n]) \in 0..(U16 - 1)
  BY <1>2, <1>3 DEF DataLink, InputRow
<1>5. CapturedLength(RowsOf[c][n]) \in Nat
  BY <1>2, WidthAssumption DEF CapturedLength, InputRow
<1> QED BY <1>2, <1>4, <1>5 DEF Buffered, BufferedRow, InputRow

(* What a write, whole or failing, leaves of an image is an image.         *)
LEMMA WrittenImages ==
  ASSUME NEW f \in Image, NEW row \in InputRow, NEW link \in Nat, NEW ord \in Nat
  PROVE  /\ Written(f, row, link, ord) \in Image
         /\ PartlyWritten(f, row, link, ord) \subseteq Image
<1> DEFINE whole == PacketBlock(row.pkt, row.payload, link, ord)
<1>1. row.pkt \in Packet /\ row.payload \in Nat
  BY WidthAssumption DEF InputRow
<1>2. whole \in Block /\ InterfaceBlock(link) \in Block
  BY <1>1, WrittenBlocks
<1>3. WithInterface(f, link) \in Image
  BY <1>2, AppendImage DEF WithInterface
<1>4. Written(f, row, link, ord) \in Image
  BY <1>2, <1>3, AppendImage DEF Written
<1>5. ASSUME NEW h \in TornSizes, NEW n \in Misreads
      PROVE  AppendBlock(WithInterface(f, link),
                         CutPacketBlock(row.pkt, row.payload, link, ord, h, n)) \in Image
  <2>1. h \in Nat /\ n \in Nat
    BY WriterAssumption
  <2>2. CutPacketBlock(row.pkt, row.payload, link, ord, h, n) \in Block
    BY <1>1, <2>1, CutPacketIsBlock
  <2> QED BY <1>3, <2>2, AppendImage
<1> QED BY <1>3, <1>4, <1>5 DEF PartlyWritten

(***************************************************************************)
(* Types.                                                                  *)
(***************************************************************************)
(* TypeOK is inductive together with what holds of the calls of the sink.  *)
TypeInv == TypeOK /\ CallInv

(* A statement starts with variables of their types and no call.           *)
LEMMA InitTypeInv == Init => TypeInv
<1> SUFFICES ASSUME Init PROVE TypeInv
  OBVIOUS
<1>1. EmptyImage \in Image
  BY DEF EmptyImage, Image
<1>2. TypeOK
  <2>1. 0 \in 0..MaxFaults
    BY WriterAssumption
  <2>2. /\ rows \in Seq(BufferedRow)
        /\ locs \in Seq([offset : Nat, size : Nat])
    BY DEF Init
  <2>3. cfg \in [mode : {"pcapng", "pqcap"}, linktype : Nat]
    BY DEF Init
  <2>4. /\ pc \in [Thread -> {"idle", "wait", "write", "push"}]
        /\ chunk \in [Thread -> Chunk \cup {NoChunk}]
        /\ r \in [Thread -> Nat]
    BY DEF Init
  <2> QED BY <1>1, <2>1, <2>2, <2>3, <2>4 DEF Init, TypeOK, Stages
<1>3. CallInv
  BY DEF Init, CallInv
<1> QED BY <1>2, <1>3 DEF TypeInv

(* What a thread that is past Acquire works on.                            *)
LEMMA CurrentRow ==
  ASSUME TypeInv, NEW t \in Thread, pc[t] \in {"write", "push"},
         pc[t] = "push" \/ ~ LoopEnds(t)
  PROVE  /\ chunk[t] \in Chunk
         /\ r[t] \in 1..Len(RowsOf[chunk[t]])
         /\ Row(t) \in InputRow
         /\ DataLink(Row(t)) \in 0..(U16 - 1)
         /\ Buffered(Row(t)) \in BufferedRow
<1>1. chunk[t] \in Chunk /\ r[t] \in Nat /\ r[t] >= 1
  BY DEF TypeInv, TypeOK, CallInv
<1>2. RowsOf[chunk[t]] \in Seq(InputRow)
  BY <1>1, WriterAssumption
<1>3. Len(RowsOf[chunk[t]]) \in Nat
  BY <1>2
<1>4. r[t] <= Len(RowsOf[chunk[t]])
  BY <1>1, <1>3 DEF TypeInv, CallInv, LoopEnds
<1>5. r[t] \in 1..Len(RowsOf[chunk[t]])
  BY <1>1, <1>3, <1>4
<1> QED BY <1>1, <1>5, RowTypes DEF Row

(* The link type a packet is written with.                                 *)
LEMMA LinkTypes ==
  ASSUME TypeInv, NEW link \in 0..(U16 - 1)
  PROVE  EffectiveLink(link, cfg.linktype) \in Nat
BY WriterAssumption DEF TypeInv, TypeOK, EffectiveLink

(* The sink's write of a packet leaves an image, whether or not it fails.  *)
LEMMA WriteBlockFile ==
  ASSUME TypeInv, NEW t \in Thread, WriteBlock(t)
  PROVE  file' \in Image /\ faults' \in 0..MaxFaults
<1> DEFINE link == EffectiveLink(DataLink(Row(t)), cfg.linktype)
           ord  == Len(rows) + 1
<1>1. Row(t) \in InputRow /\ link \in Nat
  BY CurrentRow, LinkTypes DEF WriteBlock
<1>2. file \in Image /\ ord \in Nat
  BY DEF TypeInv, TypeOK
<1>3. /\ Written(file, Row(t), link, ord) \in Image
      /\ PartlyWritten(file, Row(t), link, ord) \subseteq Image
  BY <1>1, <1>2, WrittenImages
<1>4. file' = Written(file, Row(t), link, ord) \/ file' \in PartlyWritten(file, Row(t), link, ord)
  BY DEF WriteBlock
<1>5. faults' \in 0..MaxFaults
  BY WriterAssumption DEF WriteBlock, TypeInv, TypeOK
<1> QED BY <1>3, <1>4, <1>5

(* A write of the index, whole or failing, leaves images.                  *)
LEMMA EmbedImages ==
  ASSUME TypeOK, Embed \/ EmbedFails
  PROVE  file' \in Image /\ stray' \subseteq Image
<1>1. file \in Image /\ stray \subseteq Image
  BY DEF TypeOK
<1>2. ASSUME NEW p \in parquet
      PROVE  Embedded(p) \in Image /\ TornImages(Embedded(p), TornSizes) \subseteq Image
  <2>1. p.table \in Table /\ p.length \in Nat
    BY WriterAssumption DEF TypeOK
  <2>2. Embedded(p) \in Image
    BY <1>1, <2>1, EmbeddedImage DEF Embedded
  <2> QED BY <2>2, TornImagesAreImages, WriterAssumption
<1>3. ASSUME NEW image \in Image, Put(image)
      PROVE  file' \in Image /\ stray' \subseteq Image
  BY <1>1, <1>3 DEF Put
<1>4. UNCHANGED <<file, stray>> \/ \E image \in Image : Put(image)
  BY <1>2 DEF Embed, EmbedFails
<1> QED BY <1>1, <1>3, <1>4

(* A close leaves an image.                                                *)
LEMMA CloseImage ==
  ASSUME TypeOK, Close
  PROVE  file' \in Image /\ faults' \in 0..MaxFaults
<1>1. file \in Image /\ faults \in 0..MaxFaults /\ MaxFaults \in Nat
  BY WriterAssumption DEF TypeOK
<1>2. TornImages(file, TornSizes) \subseteq Image
  BY <1>1, TornImagesAreImages, WriterAssumption
<1> QED BY <1>1, <1>2 DEF Close

(* Every step of the statement keeps the types.                            *)
LEMMA NextTypeInv == TypeInv /\ [Next]_vars => TypeInv'
<1> SUFFICES ASSUME TypeInv, [Next]_vars
             PROVE  TypeInv'
  OBVIOUS
<1> USE DEF TypeInv
<1>0. MaxFaults \in Nat /\ NoThread \notin Thread
  BY WriterAssumption
<1>1. ASSUME NEW s \in CopyStatements, Bind(s)
      PROVE  TypeInv'
  <2>1. s \in CopyStatement
    BY WriterAssumption
  <2>2. cfg' \in [mode : {"pcapng", "pqcap"}, linktype : Nat]
    BY <1>1, <2>1 DEF Bind, BindAccepts, TypeOK, CopyStatement
  <2> QED BY <1>1, <2>2 DEF Bind, TypeOK, CallInv, Stages, copyVars, calls, capture, placing, naming, scanVars
<1>2. CASE InitializeGlobal
  <2>1. EmptyImage \in Image
    BY DEF EmptyImage, Image
  <2>2. cfg.linktype \in Nat
    BY DEF TypeOK
  <2>3. SectionBlock \in Block
    BY WriterAssumption, WidthAssumption DEF SectionBlock, Block, BlockOf
  <2>4. InterfaceBlock(cfg.linktype) \in Block
    BY <2>2, WidthAssumption DEF InterfaceBlock, Block, BlockOf
  <2>5. Preamble(cfg.linktype) \in Image
    BY <2>1, <2>3, <2>4, AppendImage DEF Preamble
  <2> QED BY <1>2, <2>5 DEF InitializeGlobal, TypeOK, CallInv, Stages, statement, copyVars,
                            calls, placing, naming, scanVars
<1>3. ASSUME NEW t \in Thread, NEW c \in Chunk, SinkCall(t, c)
      PROVE  TypeInv'
  <2>1. TypeOK'
    BY <1>3 DEF SinkCall, TypeOK, statement, capture, placing, naming, scanVars
  <2>2. CallInv'
    BY <1>3 DEF SinkCall, TypeOK, CallInv, statement, capture, placing, naming, scanVars
  <2> QED BY <2>1, <2>2
<1>4. ASSUME NEW t \in Thread, Acquire(t)
      PROVE  TypeInv'
  <2>1. TypeOK'
    BY <1>4 DEF Acquire, TypeOK, statement, capture, placing, naming, scanVars
  <2>2. CallInv'
    BY <1>0, <1>4 DEF Acquire, TypeOK, CallInv, statement, capture, placing, naming, scanVars
  <2> QED BY <2>1, <2>2
<1>5. ASSUME NEW t \in Thread, SinkReject(t)
      PROVE  TypeInv'
  <2>1. TypeOK'
    BY <1>5 DEF SinkReject, TypeOK, Stages, statement, capture, placing, naming, scanVars
  <2>2. CallInv'
    BY <1>5 DEF SinkReject, TypeOK, CallInv, statement, capture, placing, naming, scanVars
  <2> QED BY <2>1, <2>2
<1>6. ASSUME NEW t \in Thread, WriteBlock(t)
      PROVE  TypeInv'
  <2>1. file' \in Image /\ faults' \in 0..MaxFaults
    BY <1>6, WriteBlockFile
  <2>2. TypeOK'
    BY <1>6, <2>1 DEF WriteBlock, TypeOK, statement, placing, naming, scanVars
  <2>3. r[t] <= Len(RowsOf[chunk[t]])
    BY <1>6, CurrentRow DEF WriteBlock
  <2>4. CallInv'
    BY <1>6, <2>3 DEF WriteBlock, TypeOK, CallInv, statement, scanVars
  <2> QED BY <2>2, <2>4
<1>7. ASSUME NEW t \in Thread, PushRow(t)
      PROVE  TypeInv'
  <2>1. rows' \in Seq(BufferedRow)
    BY <1>7, CurrentRow DEF PushRow, TypeOK
  <2>2. TypeOK'
    BY <1>7, <2>1 DEF PushRow, TypeOK, statement, capture, placing, naming, scanVars
  <2>3. CallInv'
    BY <1>7 DEF PushRow, TypeOK, CallInv, statement, capture, placing, naming, scanVars
  <2> QED BY <2>2, <2>3
<1>8. ASSUME NEW t \in Thread, SinkReturn(t)
      PROVE  TypeInv'
  <2>1. TypeOK'
    BY <1>8 DEF SinkReturn, TypeOK, Stages, statement, capture, placing, naming, scanVars
  <2>2. CallInv'
    BY <1>8 DEF SinkReturn, TypeOK, CallInv, statement, capture, placing, naming, scanVars
  <2> QED BY <2>1, <2>2
<1>9. CASE Destroy
  BY <1>9 DEF Destroy, TypeOK, CallInv, Stages, statement, copyVars, calls, capture, placing, naming, scanVars
<1>10. CASE Close
  <2>1. file' \in Image /\ faults' \in 0..MaxFaults
    BY <1>10, CloseImage
  <2> QED BY <1>10, <2>1 DEF Close, TypeOK, CallInv, Stages, statement, calls, placing, naming,
                            scanVars
<1>11. CASE OpenForScan
  <2>1. <<>> \in Seq([offset : Nat, size : Nat])
    OBVIOUS
  <2> QED BY <1>11, <2>1 DEF OpenForScan, Fail, TypeOK, CallInv, Stages, statement, calls, capture, placing, naming
<1>12. CASE ScanStep
  <2>1. file \in Image /\ pos \in Nat
    BY DEF TypeOK
  <2>2. PICK i \in DOMAIN file.blocks : HeaderAt(file, pos) = file.blocks[i]
    BY <1>12, <2>1, ScanReadsBlock DEF ScanStep
  <2>3. file.blocks[i] \in Block
    BY <2>1 DEF Image
  <2>4. pos' \in Nat
    BY <1>12, <2>1, <2>2, <2>3, BlockNumbers DEF ScanStep
  <2>5. LocationsAt(HeaderAt(file, pos), pos) \in Seq([offset : Nat, size : Nat])
    BY <2>1, <2>2, <2>3, LocationTypes
  <2>6. locs' \in Seq([offset : Nat, size : Nat])
    BY <1>12, <2>5 DEF ScanStep, TypeOK
  <2> QED BY <1>12, <2>4, <2>6 DEF ScanStep, TypeOK, CallInv, statement, copyVars, calls, capture, placing, naming
<1>13. CASE ScanEnd
  BY <1>13 DEF ScanEnd, TypeOK, CallInv, Stages, statement, copyVars, calls, capture, placing, naming, scanVars
<1>14. CASE WriteMetadata
  <2>1. parquet' \subseteq [table : Table, length : ParquetSizes]
    <3>1. CASE CountsMatch
      <4>1. \A x \in BufferedRow : x.pkt \in Packet /\ x.captured \in Nat /\ x.link \in Nat
        BY WriterAssumption DEF BufferedRow
      <4>2. MetadataTable(rows, locs, cfg.linktype) \in Table
        BY <3>1, <4>1, MetadataTableType DEF CountsMatch, TypeOK
      <4> QED BY <1>14, <3>1, <4>2 DEF WriteMetadata
    <3>2. CASE ~ CountsMatch
      BY <1>14, <3>2 DEF WriteMetadata, TypeOK
    <3> QED BY <3>1, <3>2
  <2> QED BY <1>14, <2>1 DEF WriteMetadata, Fail, TypeOK, CallInv, Stages, statement, calls,
                             capture, placing, naming, scanVars
<1>15. CASE Embed
  <2>1. file' \in Image /\ stray' \subseteq Image
    BY <1>15, EmbedImages
  <2>2. faults' \in 0..MaxFaults /\ unflushed' \in BOOLEAN
    <3>1. /\ faults' = faults \/ (faults < MaxFaults /\ faults' = faults + 1)
          /\ unflushed' = unflushed \/ unflushed' = TRUE
      BY <1>15 DEF Embed
    <3>2. faults \in 0..MaxFaults /\ unflushed \in BOOLEAN
      BY DEF TypeOK
    <3>3. faults' \in 0..MaxFaults
      BY <1>0, <3>1, <3>2
    <3>4. unflushed' \in BOOLEAN
      BY <3>1, <3>2, Zenon
    <3> QED BY <3>3, <3>4
  <2>3. UNCHANGED <<statement, copyVars, writer, naming, scanVars, parquet>> /\ stage' = "tidy"
    BY <1>15 DEF Embed
  <2>4. TypeOK'
    BY <2>1, <2>2, <2>3 DEF TypeOK, Stages, statement, copyVars, calls, naming, scanVars
  <2>5. stage = "embed"
    BY <1>15 DEF Embed
  <2>6. CallInv'
    BY <2>3, <2>5 DEF CallInv, copyVars, calls
  <2> QED BY <2>4, <2>6
<1>16. CASE RemoveTemp
  BY <1>16 DEF RemoveTemp, TypeOK, CallInv, Stages, statement, calls, capture, placing, naming,
               scanVars
<1>17. CASE MoveTmpFile
  BY <1>17 DEF MoveTmpFile, TypeOK, CallInv, statement, copyVars, calls, scanVars
<1>18. CASE InitializeGlobalFails
  BY <1>0, <1>18 DEF InitializeGlobalFails, TypeOK, CallInv, Stages, statement, copyVars, calls,
                     capture, placing, naming, scanVars
<1>19. CASE WriteMetadataFails
  BY <1>0, <1>19 DEF WriteMetadataFails, Fail, TypeOK, CallInv, Stages, statement, calls,
                     capture, placing, naming, scanVars
<1>20. CASE EmbedFails
  <2>1. file' \in Image /\ stray' \subseteq Image
    BY <1>20, EmbedImages
  <2>2. faults' \in 0..MaxFaults
    BY <1>0, <1>20 DEF EmbedFails, TypeOK
  <2>3. /\ UNCHANGED <<statement, calls, writer, naming, unflushed, rows, scanVars, parquet>>
        /\ stage' = "failed" /\ lock' = NoThread /\ stage \in {"read", "embed"}
    BY <1>20 DEF EmbedFails, Fail
  <2>4. TypeOK'
    BY <2>1, <2>2, <2>3 DEF TypeOK, Stages, statement, calls, naming, scanVars
  <2>5. CallInv'
    BY <2>3 DEF CallInv, calls
  <2> QED BY <2>4, <2>5
<1>21. CASE Resolve
  <2>1. path' \in {"tmp_", "final"}
    BY <1>21 DEF Resolve, ResolveCapturePath
  <2> QED BY <1>21, <2>1 DEF Resolve, TypeOK, CallInv, Stages, statement, copyVars, calls, scanVars
<1>22. CASE EmbedRead
  BY <1>22 DEF EmbedRead, Fail, TypeOK, CallInv, Stages, statement, calls, capture, placing,
               naming, scanVars
<1>23. CASE UNCHANGED vars
  BY <1>23 DEF vars, TypeOK, CallInv, statement, copyVars, calls, capture, placing, naming, scanVars
<1> QED BY <1>1, <1>2, <1>3, <1>4, <1>5, <1>6, <1>7, <1>8, <1>9, <1>10, <1>11, <1>12, <1>13,
           <1>14, <1>15, <1>16, <1>17, <1>18, <1>19, <1>20, <1>21, <1>22, <1>23
        DEF Next, Sink, Finalize, Failures

(* The variables of a COPY have their types, whatever the constants.       *)
THEOREM TypeCorrect == Spec => []TypeOK
<1>1. Init => TypeInv
  BY InitTypeInv
<1>2. TypeInv /\ [Next]_vars => TypeInv'
  BY NextTypeInv
<1>3. TypeInv => TypeOK
  BY DEF TypeInv
<1> QED BY <1>1, <1>2, <1>3, PTL DEF Spec

(***************************************************************************)
(* Appending blocks.                                                       *)
(***************************************************************************)

(* Appending a block of a capture keeps the layout.                        *)
LEMMA AppendLaid ==
  ASSUME NEW f \in Image, WellLaid(f), NEW b \in Block,
         b.type \in {"SHB", "IDB", "EPB"}, b.held > 0, b.type = "EPB" => b.len >= 32
  PROVE  WellLaid(AppendBlock(f, b))
<1> DEFINE g == AppendBlock(f, b)
           n == Len(f.blocks) + 1
<1>1. /\ n \in Nat /\ DOMAIN f.blocks = 1..(n - 1) /\ DOMAIN g.blocks = 1..n
      /\ g.size = f.size + b.held
      /\ \A i \in 1..(n - 1) : g.blocks[i] = f.blocks[i]
      /\ g.blocks[n].at = f.size /\ g.blocks[n].type = b.type /\ g.blocks[n].held = b.held
      /\ g.blocks[n].len = b.len
  BY AppendFacts
<1>2. f.size \in Nat /\ b.held \in Nat /\ \A i \in 1..(n - 1) : f.blocks[i] \in Block
  BY <1>1, BlockNumbers, ElementsOf DEF Image
<1>3. \A i \in 1..(n - 1) : f.blocks[i].at \in Nat /\ f.blocks[i].held \in Nat
  BY <1>2, BlockNumbers
<1> HIDE DEF g, n
<1>4. \A i \in 1..n : i \in 1..(n - 1) \/ i = n
  BY <1>1
<1>5. ASSUME NEW i \in DOMAIN g.blocks
      PROVE  /\ g.blocks[i].type \in {"SHB", "IDB", "EPB"}
             /\ g.blocks[i].held > 0
             /\ g.blocks[i].at + g.blocks[i].held <= g.size
             /\ g.blocks[i].type = "EPB" => g.blocks[i].len >= 32
  <2>1. CASE i \in 1..(n - 1)
    <3>1. /\ f.blocks[i].type \in {"SHB", "IDB", "EPB"}
          /\ f.blocks[i].held > 0
          /\ f.blocks[i].at + f.blocks[i].held <= f.size
          /\ f.blocks[i].type = "EPB" => f.blocks[i].len >= 32
      BY <1>1, <2>1 DEF WellLaid
    <3>2. f.blocks[i].at + f.blocks[i].held <= g.size
      BY <1>1, <1>2, <1>3, <2>1, <3>1
    <3>3. g.blocks[i] = f.blocks[i]
      BY <1>1, <2>1
    <3> QED BY <3>1, <3>2, <3>3
  <2>2. CASE i = n
    BY <1>1, <1>2, <2>2
  <2> QED BY <1>1, <1>4, <2>1, <2>2
<1>6. ASSUME NEW i \in DOMAIN g.blocks, NEW j \in DOMAIN g.blocks, i < j
      PROVE  g.blocks[i].at + g.blocks[i].held <= g.blocks[j].at
  <2>1. i \in 1..(n - 1)
    BY <1>1, <1>6
  <2>2. CASE j \in 1..(n - 1)
    <3>1. /\ f.blocks[i].at + f.blocks[i].held <= f.blocks[j].at
          /\ g.blocks[i] = f.blocks[i] /\ g.blocks[j] = f.blocks[j]
      BY <1>1, <1>6, <2>1, <2>2 DEF WellLaid
    <3> QED BY <3>1
  <2>3. CASE j = n
    <3>1. f.blocks[i].at + f.blocks[i].held <= f.size
      BY <1>1, <2>1 DEF WellLaid
    <3> QED BY <1>1, <1>2, <1>3, <2>1, <2>3, <3>1
  <2> QED BY <1>1, <1>4, <2>2, <2>3
<1>7. WellLaid(g)
  BY <1>5, <1>6 DEF WellLaid
<1> QED BY <1>7 DEF g

(***************************************************************************)
(* Writing a packet.                                                       *)
(***************************************************************************)

(* g is f with at most one packet block more, at the end, and that block   *)
(* is for the given packet, link type and row.                             *)
Grows(f, g, packet, link, ord) ==
  /\ g \in Image
  /\ WellLaid(g)
  /\ DOMAIN f.blocks \subseteq DOMAIN g.blocks
  /\ \A i \in DOMAIN f.blocks : g.blocks[i] = f.blocks[i]
  /\ \A i \in PacketBlocks(g) \ DOMAIN f.blocks :
       /\ \A j \in PacketBlocks(g) : j # i => j \in DOMAIN f.blocks /\ j < i
       /\ g.blocks[i].body.pkt = packet
       /\ g.blocks[i].body.link = link
       /\ g.blocks[i].body.ord = ord

(* An image grows by a block that is not of a packet.                      *)
LEMMA GrowsByOther ==
  ASSUME NEW f \in Image, WellLaid(f), NEW b \in Block, b.type = "IDB", b.held > 0,
         NEW packet, NEW link, NEW ord
  PROVE  Grows(f, AppendBlock(f, b), packet, link, ord)
<1> DEFINE g == AppendBlock(f, b)
<1>1. WellLaid(g)
  BY AppendLaid
<1>2. /\ g \in Image /\ Len(f.blocks) \in Nat
      /\ DOMAIN f.blocks = 1..Len(f.blocks) /\ DOMAIN g.blocks = 1..(Len(f.blocks) + 1)
      /\ \A i \in DOMAIN f.blocks : g.blocks[i] = f.blocks[i]
      /\ g.blocks[Len(f.blocks) + 1].type = "IDB"
  BY AppendFacts
<1> HIDE DEF g
<1>3. PacketBlocks(g) \ DOMAIN f.blocks = {}
  BY <1>2 DEF PacketBlocks
<1>4. Grows(f, g, packet, link, ord)
  BY <1>1, <1>2, <1>3 DEF Grows
<1> QED BY <1>4 DEF g

(* An image grows by a packet block.                                       *)
LEMMA GrowsByPacket ==
  ASSUME NEW f \in Image, WellLaid(f), NEW b \in Block, b.type = "EPB", b.held > 0,
         b.len >= 32
  PROVE  Grows(f, AppendBlock(f, b), b.body.pkt, b.body.link, b.body.ord)
<1> DEFINE g == AppendBlock(f, b)
<1>1. WellLaid(g)
  BY AppendLaid
<1>2. /\ g \in Image /\ Len(f.blocks) \in Nat
      /\ DOMAIN f.blocks = 1..Len(f.blocks) /\ DOMAIN g.blocks = 1..(Len(f.blocks) + 1)
      /\ \A i \in DOMAIN f.blocks : g.blocks[i] = f.blocks[i]
      /\ g.blocks[Len(f.blocks) + 1].body = b.body
  BY AppendFacts
<1> HIDE DEF g
<1>3. ASSUME NEW i \in PacketBlocks(g) \ DOMAIN f.blocks
      PROVE  /\ i = Len(f.blocks) + 1
             /\ \A j \in PacketBlocks(g) : j # i => j \in DOMAIN f.blocks /\ j < i
  BY <1>2 DEF PacketBlocks
<1>4. Grows(f, g, b.body.pkt, b.body.link, b.body.ord)
  BY <1>1, <1>2, <1>3 DEF Grows
<1> QED BY <1>4 DEF g

(* An image that grew without a packet block may still grow by one.        *)
LEMMA GrowsTwice ==
  ASSUME NEW f \in Image, NEW g, NEW h, NEW packet, NEW link, NEW ord,
         Grows(f, g, packet, link, ord), Grows(g, h, packet, link, ord),
         PacketBlocks(g) \subseteq DOMAIN f.blocks
  PROVE  Grows(f, h, packet, link, ord)
<1>1. DOMAIN f.blocks \subseteq DOMAIN h.blocks
  BY DEF Grows
<1>2. \A i \in DOMAIN f.blocks : h.blocks[i] = f.blocks[i]
  BY DEF Grows
<1>3. \A j \in PacketBlocks(h) : j \in DOMAIN g.blocks => j \in DOMAIN f.blocks
  BY DEF Grows, PacketBlocks
<1>4. ASSUME NEW i \in PacketBlocks(h) \ DOMAIN f.blocks
      PROVE  i \in PacketBlocks(h) \ DOMAIN g.blocks
  BY <1>3
<1>5. ASSUME NEW i \in PacketBlocks(h) \ DOMAIN f.blocks
      PROVE  /\ \A j \in PacketBlocks(h) : j # i => j \in DOMAIN f.blocks /\ j < i
             /\ h.blocks[i].body.pkt = packet
             /\ h.blocks[i].body.link = link
             /\ h.blocks[i].body.ord = ord
  BY <1>3, <1>4 DEF Grows
<1> QED BY <1>1, <1>2, <1>5 DEF Grows

(* light_write_packet, whole or failing, grows the capture as described.   *)
LEMMA WritesGrow ==
  ASSUME NEW f \in Image, WellLaid(f), NEW row \in InputRow, NEW link \in Nat, NEW ord \in Nat,
         NEW g \in {Written(f, row, link, ord)} \cup PartlyWritten(f, row, link, ord)
  PROVE  Grows(f, g, row.pkt, link, ord)
<1> DEFINE whole == PacketBlock(row.pkt, row.payload, link, ord)
           h == WithInterface(f, link)
<1>1. row.pkt \in Packet /\ row.payload \in Nat /\ row.payload + 36 <= U32 /\ U32 \in Nat
  BY WidthAssumption DEF InputRow
<1>2. whole \in Block /\ InterfaceBlock(link) \in Block
  BY <1>1, WrittenBlocks
<1>3. InterfaceBlock(link).type = "IDB" /\ InterfaceBlock(link).held > 0
  BY DEF InterfaceBlock
<1>4. Grows(f, f, row.pkt, link, ord)
  BY DEF Grows, PacketBlocks
<1>5. Grows(f, h, row.pkt, link, ord) /\ PacketBlocks(h) \subseteq DOMAIN f.blocks
  <2>1. CASE h = f
    BY <1>4, <2>1 DEF PacketBlocks
  <2>2. CASE h = AppendBlock(f, InterfaceBlock(link))
    <3>1. Grows(f, h, row.pkt, link, ord)
      BY <1>2, <1>3, <2>2, GrowsByOther
    <3>2. /\ Len(f.blocks) \in Nat /\ DOMAIN f.blocks = 1..Len(f.blocks)
          /\ DOMAIN h.blocks = 1..(Len(f.blocks) + 1)
          /\ h.blocks[Len(f.blocks) + 1].type = "IDB"
      BY <1>2, <1>3, <2>2, AppendFacts
    <3>3. PacketBlocks(h) \subseteq DOMAIN f.blocks
      BY <3>2 DEF PacketBlocks
    <3> QED BY <3>1, <3>3
  <2> QED BY <2>1, <2>2 DEF WithInterface
<1>6. h \in Image /\ WellLaid(h)
  BY <1>5 DEF Grows
<1>7. /\ whole.type = "EPB" /\ whole.held > 0 /\ whole.len >= 32
      /\ whole.body.pkt = row.pkt /\ whole.body.link = link /\ whole.body.ord = ord
  <2>1. PadTo4(row.payload) \in Nat /\ PadTo4(row.payload) <= row.payload + 3
    BY <1>1, PadBounds
  <2>2. 32 + PadTo4(row.payload) \in 0..(U32 - 1)
    BY <1>1, <2>1
  <2>3. (32 + PadTo4(row.payload)) % U32 = 32 + PadTo4(row.payload)
    BY <1>1, <2>2
  <2> QED BY <2>1, <2>3 DEF PacketBlock
<1>8. Grows(h, AppendBlock(h, whole), row.pkt, link, ord)
  BY <1>2, <1>6, <1>7, GrowsByPacket
<1>9. ASSUME NEW n \in TornSizes, NEW m \in Misreads
      PROVE  Grows(h, AppendBlock(h, CutPacketBlock(row.pkt, row.payload, link, ord, n, m)),
                   row.pkt, link, ord)
  <2> DEFINE c == CutPacketBlock(row.pkt, row.payload, link, ord, n, m)
  <2>1. n \in Nat /\ n > 0 /\ m \in Nat
    BY WriterAssumption
  <2>2. /\ c \in Block /\ c.held = n /\ c.type = whole.type /\ c.len = whole.len
        /\ c.body.pkt = whole.body.pkt /\ c.body.link = whole.body.link
        /\ c.body.ord = whole.body.ord
    <3>1. row.payload \in Nat /\ row.pkt \in Packet
      BY <1>1, WidthAssumption
    <3>2. c \in Block
      BY <2>1, <3>1, CutPacketIsBlock
    <3>3. /\ c.held = n /\ c.type = "EPB" /\ c.len = whole.len
          /\ c.body.pkt = row.pkt /\ c.body.link = link /\ c.body.ord = ord
      BY DEF CutPacketBlock, PacketBlock
    <3> HIDE DEF whole, c
    <3> QED BY <1>7, <3>2, <3>3
  <2> HIDE DEF whole, c
  <2>3. Grows(h, AppendBlock(h, c), c.body.pkt, c.body.link, c.body.ord)
    BY <1>6, <1>7, <2>1, <2>2, GrowsByPacket
  <2>4. Grows(h, AppendBlock(h, c), row.pkt, link, ord)
    BY <1>7, <2>2, <2>3
  <2> QED BY <2>4 DEF c
<1> HIDE DEF whole, h
<1>10. \/ g = f
       \/ g = h
       \/ g = AppendBlock(h, whole)
       \/ \E n \in TornSizes, m \in Misreads :
            g = AppendBlock(h, CutPacketBlock(row.pkt, row.payload, link, ord, n, m))
  BY DEF Written, PartlyWritten, whole, h
<1> QED BY <1>4, <1>5, <1>8, <1>9, <1>10, GrowsTwice

(* Room for the locations found so far leaves room for the next one, which *)
(* belongs to a later row.                                                 *)
LEMMA GapArithmetic ==
  ASSUME NEW x \in Nat, NEW y \in Nat, NEW z \in Nat, NEW n \in Nat, NEW m \in 1..n,
         x + (n - m) <= y, y < z
  PROVE  x + (n + 1 - m) <= z
OBVIOUS

(* With as many locations as rows, none belongs to a row beyond its own.   *)
LEMMA RoomArithmetic ==
  ASSUME NEW n \in Nat, NEW m \in 1..n, NEW x \in 1..n, NEW y \in 1..n, x + (n - m) <= y
  PROVE  x <= m
OBVIOUS

(***************************************************************************)
(* The walk of ScanPacketLocations.                                        *)
(***************************************************************************)

(* The packet blocks of a captured image are enhanced packet blocks, with  *)
(* numbers for their fields.                                               *)
LEMMA PacketBlockFields ==
  ASSUME NEW f \in Image, WellLaid(f), NEW i \in PacketBlocks(f)
  PROVE  /\ i \in DOMAIN f.blocks /\ i \in Nat
         /\ f.blocks[i].type = "EPB"
         /\ f.blocks[i].at \in Nat
         /\ f.blocks[i].body \in [pkt : Packet, cap : Nat, link : Nat, ord : Nat]
         /\ DataAt(f.blocks[i]) = f.blocks[i].at + 28
<1>1. i \in DOMAIN f.blocks /\ i \in 1..Len(f.blocks)
  BY DEF PacketBlocks, Image
<1>2. f.blocks[i] \in Block
  BY <1>1, ElementsOf DEF Image
<1>3. f.blocks[i].type = "EPB"
  BY <1>1 DEF PacketBlocks, WellLaid
<1>4. f.blocks[i].body \in [pkt : Packet, cap : Nat, link : Nat, ord : Nat]
  BY <1>2, <1>3 DEF Block, BlockOf
<1> QED BY <1>1, <1>2, <1>3, <1>4, BlockNumbers DEF DataAt, EPB_DATA

(* Blocks start one behind the other.                                      *)
LEMMA BlocksAscend ==
  ASSUME NEW f \in Image, WellLaid(f), NEW i \in DOMAIN f.blocks, NEW j \in DOMAIN f.blocks,
         i < j
  PROVE  f.blocks[i].at < f.blocks[j].at
<1>1. /\ f.blocks[i].at \in Nat /\ f.blocks[j].at \in Nat
      /\ f.blocks[i].held \in Nat
  BY ImageNumbers
<1>2. f.blocks[i].held > 0 /\ f.blocks[i].at + f.blocks[i].held <= f.blocks[j].at
  BY DEF WellLaid
<1> QED BY <1>1, <1>2

(* Two packet blocks that start at one place are one.                      *)
LEMMA PacketBlocksApart ==
  ASSUME NEW f \in Image, WellLaid(f), NEW i \in DOMAIN f.blocks, NEW j \in DOMAIN f.blocks
  PROVE  /\ f.blocks[i].at = f.blocks[j].at => i = j
         /\ f.blocks[i].at < f.blocks[j].at => i < j
<1>1. i \in 1..Len(f.blocks) /\ j \in 1..Len(f.blocks)
  BY DEF Image
<1>2. f.blocks[i] \in Block /\ f.blocks[j] \in Block
  BY <1>1, ElementsOf DEF Image
<1>3. f.blocks[i].at \in Nat /\ f.blocks[j].at \in Nat
  BY <1>2, BlockNumbers
<1>4. i < j \/ j < i \/ i = j
  BY <1>1
<1>5. /\ i < j => f.blocks[i].at < f.blocks[j].at
      /\ j < i => f.blocks[j].at < f.blocks[i].at
  BY BlocksAscend
<1> QED BY <1>1, <1>3, <1>4, <1>5

(* One iteration of the walk keeps what it has found in order.             *)
LEMMA ScanStepLocated ==
  ASSUME NEW f \in Image, WellLaid(f), InRowOrder(f), NEW p \in Nat,
         NEW found \in Seq([offset : Nat, size : Nat]),
         Located(f, p, found), ~ ScanStops(f, p)
  PROVE  Located(f, p + HeaderAt(f, p).len, found \o LocationsAt(HeaderAt(f, p), p))
<1>1. PICK k \in DOMAIN f.blocks : /\ HeaderAt(f, p) = f.blocks[k]
                                   /\ f.blocks[k].at = p
                                   /\ f.blocks[k].len >= 12
  BY ScanReadsBlock
<1> DEFINE q == p + f.blocks[k].len
           N == Len(found)
<1>2. f.blocks[k] \in Block /\ f.blocks[k].len \in Nat
  <2>1. k \in 1..Len(f.blocks)
    BY DEF Image
  <2>2. f.blocks[k] \in Block
    BY <2>1, ElementsOf DEF Image
  <2> QED BY <2>2, BlockNumbers
<1>3. q \in Nat /\ p < q
  BY <1>1, <1>2
<1>4. N \in Nat /\ DOMAIN found = 1..N
  OBVIOUS
<1> HIDE DEF q, N
<1>5. \A n \in DOMAIN found : \E i \in PacketBlocks(f) :
         /\ Locates(found[n], f.blocks[i])
         /\ f.blocks[i].at < q
         /\ f.blocks[i].body.ord >= n
  <2> SUFFICES ASSUME NEW n \in DOMAIN found
               PROVE  \E i \in PacketBlocks(f) :
                         /\ Locates(found[n], f.blocks[i])
                         /\ f.blocks[i].at < q
                         /\ f.blocks[i].body.ord >= n
    OBVIOUS
  <2>1. PICK i \in PacketBlocks(f) : /\ Locates(found[n], f.blocks[i])
                                     /\ f.blocks[i].at < p
                                     /\ f.blocks[i].body.ord >= n
    BY DEF Located
  <2>2. f.blocks[i].at \in Nat
    BY PacketBlockFields
  <2>3. f.blocks[i].at < q
    BY <1>3, <2>1, <2>2
  <2> QED BY <2>1, <2>3
<1>6. CASE k \notin PacketBlocks(f)
  <2>1. LocationsAt(f.blocks[k], p) = <<>>
    BY <1>6 DEF LocationsAt, PacketBlocks
  <2>2. found \o LocationsAt(f.blocks[k], p) = found
    BY <2>1
  <2>3. Located(f, q, found)
    BY <1>5 DEF Located
  <2> QED BY <1>1, <2>2, <2>3 DEF q
<1>7. CASE k \in PacketBlocks(f)
  <2> DEFINE b == f.blocks[k]
             new == [offset |-> p + EPB_DATA, size |-> b.body.cap]
             more == Append(found, new)
  <2>1. /\ b.type = "EPB" /\ b.len >= 32 /\ DataAt(b) = p + EPB_DATA
        /\ b.body \in [pkt : Packet, cap : Nat, link : Nat, ord : Nat]
    BY <1>1, <1>7, PacketBlockFields DEF WellLaid, EPB_DATA
  <2>2. LocationsAt(b, p) = <<new>>
    BY <2>1 DEF LocationsAt
  <2>3. new \in [offset : Nat, size : Nat]
    BY <2>1 DEF EPB_DATA
  <2>4. found \o LocationsAt(b, p) = more
    BY <2>2, <2>3
  <2>5. /\ DOMAIN more = 1..(N + 1)
        /\ \A n \in 1..N : more[n] = found[n]
        /\ more[N + 1] = new
    BY <1>4, <2>3 DEF N
  <2>6. Locates(new, b)
    BY <2>1 DEF Locates
  <2> HIDE DEF more, new
  <2>7. \A n \in 1..N : \A i \in PacketBlocks(f) :
          Locates(found[n], f.blocks[i]) => /\ f.blocks[i].at < p
                                            /\ f.blocks[i].body.ord < b.body.ord
    <3> SUFFICES ASSUME NEW n \in 1..N, NEW i \in PacketBlocks(f),
                        Locates(found[n], f.blocks[i])
                 PROVE  f.blocks[i].at < p /\ f.blocks[i].body.ord < b.body.ord
      OBVIOUS
    <3>1. PICK j \in PacketBlocks(f) : Locates(found[n], f.blocks[j]) /\ f.blocks[j].at < p
      BY <1>4 DEF Located
    <3>2. DataAt(f.blocks[i]) = DataAt(f.blocks[j])
      BY <3>1 DEF Locates
    <3>3. f.blocks[i].at = f.blocks[j].at
      <4>1. /\ f.blocks[i].at \in Nat /\ DataAt(f.blocks[i]) = f.blocks[i].at + 28
            /\ f.blocks[j].at \in Nat /\ DataAt(f.blocks[j]) = f.blocks[j].at + 28
        BY <3>1, PacketBlockFields
      <4>2. f.blocks[i].at + 28 = f.blocks[j].at + 28
        BY <3>2, <4>1, Zenon
      <4> DEFINE x == f.blocks[i].at
                 y == f.blocks[j].at
      <4>3. x \in Nat /\ y \in Nat /\ x + 28 = y + 28
        BY <4>1, <4>2
      <4> HIDE DEF x, y
      <4>4. x = y
        BY <4>3
      <4> QED BY <4>4 DEF x, y
    <3>4. i \in DOMAIN f.blocks /\ i < k
      BY <1>1, <3>1, <3>3, PacketBlocksApart, PacketBlockFields
    <3>5. f.blocks[i].body.ord < b.body.ord
      BY <1>7, <3>4 DEF InRowOrder
    <3> QED BY <3>1, <3>3, <3>5
  <2>8. b.body.ord >= N + 1
    <3>1. CASE N = 0
      BY <1>7, <2>1, <3>1 DEF InRowOrder
    <3>2. CASE N \in 1..N
      <4>1. PICK i \in PacketBlocks(f) : /\ Locates(found[N], f.blocks[i])
                                         /\ f.blocks[i].body.ord >= N
        BY <1>4, <3>2 DEF Located
      <4>2. f.blocks[i].body.ord < b.body.ord /\ f.blocks[i].body.ord \in Nat
        BY <2>7, <3>2, <4>1, PacketBlockFields
      <4> QED BY <1>4, <2>1, <4>1, <4>2
    <3> QED BY <1>4, <3>1, <3>2
  <2>9. \A n \in DOMAIN more : n \in 1..N \/ n = N + 1
    BY <1>4, <2>5
  <2>10. ASSUME NEW n \in DOMAIN more
         PROVE  \E i \in PacketBlocks(f) :
                   /\ Locates(more[n], f.blocks[i])
                   /\ f.blocks[i].at < q
                   /\ f.blocks[i].body.ord >= n
    <3>1. CASE n \in 1..N
      BY <1>4, <1>5, <2>5, <3>1
    <3>2. CASE n = N + 1
      BY <1>1, <1>3, <1>7, <2>5, <2>6, <2>8, <3>2
    <3> QED BY <2>9, <3>1, <3>2
  <2>11. ASSUME NEW m \in DOMAIN more, NEW n \in DOMAIN more, m < n
         PROVE  more[m].offset < more[n].offset
    <3>1. m \in 1..N
      BY <1>4, <2>5, <2>11
    <3>2. CASE n \in 1..N
      BY <1>4, <2>5, <2>11, <3>1, <3>2 DEF Located
    <3>3. CASE n = N + 1
      <4>1. PICK i \in PacketBlocks(f) : Locates(found[m], f.blocks[i]) /\ f.blocks[i].at < p
        BY <1>4, <3>1 DEF Located
      <4>2. found[m].offset = f.blocks[i].at + 28 /\ f.blocks[i].at \in Nat
        BY <4>1, PacketBlockFields DEF Locates
      <4>3. more[n].offset = p + 28
        BY <2>5, <3>3 DEF new, EPB_DATA
      <4>4. f.blocks[i].at + 28 < p + 28
        BY <4>1, <4>2
      <4>5. more[m].offset = f.blocks[i].at + 28
        BY <2>5, <3>1, <4>2
      <4> QED BY <4>3, <4>4, <4>5
    <3> QED BY <2>9, <3>2, <3>3
  <2>12. \A i \in PacketBlocks(f) : Locates(new, f.blocks[i]) => i = k
    <3> SUFFICES ASSUME NEW i \in PacketBlocks(f), Locates(new, f.blocks[i])
                 PROVE  i = k
      OBVIOUS
    <3>1. DataAt(f.blocks[i]) = p + 28
      BY DEF Locates, new, EPB_DATA
    <3>2. f.blocks[i].at = p
      BY <3>1, PacketBlockFields
    <3> QED BY <1>1, <3>2, PacketBlocksApart, PacketBlockFields
  <2>13. ASSUME NEW m \in DOMAIN more, NEW n \in DOMAIN more,
                NEW i \in PacketBlocks(f), NEW j \in PacketBlocks(f),
                m <= n, Locates(more[m], f.blocks[i]), Locates(more[n], f.blocks[j])
         PROVE  f.blocks[i].body.ord + (n - m) <= f.blocks[j].body.ord
    <3>0. f.blocks[i].body.ord \in Nat /\ f.blocks[j].body.ord \in Nat
      BY PacketBlockFields
    <3>1. CASE n \in 1..N
      <4>1. m \in 1..N
        BY <1>4, <2>5, <2>13, <3>1
      <4> QED BY <1>4, <2>5, <2>13, <3>1, <4>1 DEF Located
    <3>2. CASE n = N + 1 /\ m \in 1..N
      <4>1. j = k
        BY <2>5, <2>12, <2>13, <3>2
      <4>2. N \in 1..N
        BY <1>4, <3>2
      <4>3. PICK l \in PacketBlocks(f) : Locates(found[N], f.blocks[l])
        BY <1>4, <4>2 DEF Located
      <4>4. f.blocks[i].body.ord + (N - m) <= f.blocks[l].body.ord
        <5>1. Locates(found[m], f.blocks[i]) /\ m <= N
          BY <2>5, <2>13, <3>2
        <5> QED BY <1>4, <3>2, <4>2, <4>3, <5>1 DEF Located
      <4>5. f.blocks[l].body.ord < b.body.ord /\ f.blocks[l].body.ord \in Nat
        BY <2>7, <4>2, <4>3, PacketBlockFields
      <4>6. f.blocks[i].body.ord + (n - m) <= b.body.ord
        <5> DEFINE x == f.blocks[i].body.ord
                   y == f.blocks[l].body.ord
                   z == b.body.ord
        <5>1. x \in Nat /\ y \in Nat /\ z \in Nat /\ y < z
          BY <2>1, <3>0, <4>5
        <5>2. x + (N - m) <= y
          BY <4>4
        <5> HIDE DEF x, y, z
        <5>3. x + (N + 1 - m) <= z
          BY <1>4, <3>2, <5>1, <5>2, GapArithmetic
        <5>4. x + (n - m) <= z
          BY <1>4, <3>2, <5>1, <5>3
        <5> QED BY <5>4 DEF x, y, z
      <4>7. f.blocks[j].body.ord = b.body.ord
        BY <4>1
      <4> HIDE DEF b
      <4> QED BY <4>6, <4>7, Zenon
    <3>3. CASE n = N + 1 /\ m = N + 1
      <4>1. i = k /\ j = k
        BY <2>5, <2>12, <2>13, <3>3
      <4> QED BY <1>4, <3>0, <3>3, <4>1
    <3> QED BY <2>9, <3>1, <3>2, <3>3
  <2>14. Located(f, q, more)
    BY <2>10, <2>11, <2>13 DEF Located
  <2> QED BY <1>1, <2>4, <2>14 DEF q
<1> QED BY <1>6, <1>7

(* A walk that has found as many locations as there are rows has found     *)
(* every packet block, each for its own row: the table then describes the  *)
(* packets.                                                                *)
LEMMA CountsMakeIndex ==
  ASSUME NEW f \in Image, WellLaid(f), InRowOrder(f), NEW p \in Nat,
         NEW R \in Seq(BufferedRow), NEW default \in Nat,
         \A i \in PacketBlocks(f) :
            /\ f.blocks[i].body.ord \in DOMAIN R
            /\ f.blocks[i].body.pkt = R[f.blocks[i].body.ord].pkt
            /\ f.blocks[i].body.link = EffectiveLink(R[f.blocks[i].body.ord].link, default),
         NEW L \in Seq([offset : Nat, size : Nat]), Located(f, p, L), Len(R) = Len(L)
  PROVE  DescribesPackets(MetadataTable(R, L, default), f)
<1> DEFINE t == MetadataTable(R, L, default)
           N == Len(R)
<1>1. N \in Nat /\ DOMAIN R = 1..N /\ DOMAIN L = 1..N
  OBVIOUS
<1>2. /\ DOMAIN t = 1..N
      /\ \A n \in 1..N : /\ t[n].offset = L[n].offset
                          /\ t[n].size = L[n].size
                          /\ t[n].pkt = R[n].pkt
                          /\ t[n].linktype = EffectiveLink(R[n].link, default)
  BY DEF MetadataTable
<1> HIDE DEF t, N
<1>3. \A n \in 1..N : \A i \in PacketBlocks(f) :
         Locates(L[n], f.blocks[i]) => f.blocks[i].body.ord <= n
  <2> SUFFICES ASSUME NEW n \in 1..N, NEW i \in PacketBlocks(f), Locates(L[n], f.blocks[i])
               PROVE  f.blocks[i].body.ord <= n
    OBVIOUS
  <2>1. N \in 1..N /\ n <= N
    BY <1>1
  <2>2. PICK j \in PacketBlocks(f) : Locates(L[N], f.blocks[j])
    BY <1>1, <2>1 DEF Located
  <2>3. f.blocks[i].body.ord + (N - n) <= f.blocks[j].body.ord
    BY <1>1, <2>1, <2>2 DEF Located
  <2>4. f.blocks[j].body.ord \in 1..N
    BY <1>1
  <2>5. f.blocks[i].body.ord \in 1..N
    BY <1>1
  <2> QED BY <1>1, <2>3, <2>4, <2>5, RoomArithmetic
<1>4. \A n \in 1..N : \E i \in PacketBlocks(f) :
         Locates(L[n], f.blocks[i]) /\ f.blocks[i].body.ord = n
  <2> SUFFICES ASSUME NEW n \in 1..N
               PROVE  \E i \in PacketBlocks(f) :
                         Locates(L[n], f.blocks[i]) /\ f.blocks[i].body.ord = n
    OBVIOUS
  <2>1. PICK i \in PacketBlocks(f) : Locates(L[n], f.blocks[i]) /\ f.blocks[i].body.ord >= n
    BY <1>1 DEF Located
  <2>2. f.blocks[i].body.ord \in 1..N /\ f.blocks[i].body.ord <= n
    BY <1>1, <1>3, <2>1
  <2>3. f.blocks[i].body.ord = n
    BY <1>1, <2>1, <2>2
  <2> QED BY <2>1, <2>3
<1>5. \A n \in 1..N : \A i \in PacketBlocks(f) :
         Locates(L[n], f.blocks[i]) /\ f.blocks[i].body.ord = n => Describes(t[n], f.blocks[i])
  BY <1>2 DEF Describes, Locates
<1>6. ASSUME NEW n \in DOMAIN t
      PROVE  \E i \in PacketBlocks(f) : Describes(t[n], f.blocks[i])
  BY <1>2, <1>4, <1>5
<1>7. ASSUME NEW i \in PacketBlocks(f)
      PROVE  \E n \in DOMAIN t : Describes(t[n], f.blocks[i])
  <2>1. f.blocks[i].body.ord \in 1..N
    BY <1>1
  <2>2. PICK j \in PacketBlocks(f) : /\ Locates(L[f.blocks[i].body.ord], f.blocks[j])
                                     /\ f.blocks[j].body.ord = f.blocks[i].body.ord
    BY <1>4, <2>1
  <2>3. i = j
    <3>1. i \in Nat /\ j \in Nat /\ f.blocks[i].body.ord \in Nat
      BY PacketBlockFields
    <3> QED BY <2>2, <3>1 DEF InRowOrder
  <2> QED BY <1>2, <1>5, <2>1, <2>2, <2>3
<1>8. ASSUME NEW m \in DOMAIN t, NEW n \in DOMAIN t, m < n
      PROVE  t[m].offset < t[n].offset
  BY <1>1, <1>2, <1>8 DEF Located
<1>9. DescribesPackets(t, f)
  BY <1>6, <1>7, <1>8 DEF DescribesPackets
<1> QED BY <1>9 DEF t

(***************************************************************************)
(* The index of a capture.                                                 *)
(***************************************************************************)

(* A capture that has not been indexed has no index.                       *)
LEMMA CaptureHasNoIndex ==
  ASSUME NEW f \in Image, WellLaid(f)
  PROVE  ~ LocatorAccepted(f)
<1>1. CASE f.blocks = <<>>
  BY <1>1, NoFooterNoIndex
<1>2. CASE f.blocks # <<>>
  <2>1. Len(f.blocks) \in DOMAIN f.blocks
    BY <1>2 DEF Image
  <2>2. TailBlock(f).type # "FOOTER"
    BY <2>1 DEF TailBlock, WellLaid
  <2> QED BY <2>2, NoFooterNoIndex
<1> QED BY <1>1, <1>2

(* Embedding a table that describes the packets makes it the index of the  *)
(* capture, in a file shorter than 2^64 bytes.                             *)
LEMMA EmbedPublishes ==
  ASSUME NEW f \in Image, WellLaid(f), NEW t \in Table, NEW length \in Nat \ {0},
         DescribesPackets(t, f), EmbedParquet(f, t, length).size < U64
  PROVE  LET g == EmbedParquet(f, t, length)
         IN  PublishedTables(g) \in {{}, {t}} /\ DescribesPackets(t, g)
             /\ (LocatorAccepted(g) => PublishedTables(g) = {t})
<1> DEFINE g == EmbedParquet(f, t, length)
<1>1. InFile(f)
  BY DEF WellLaid, InFile
<1>2. PublishedTables(g) = {t}
  BY <1>1, EmbedFound
<1>3. /\ PacketBlocks(g) = PacketBlocks(f)
      /\ \A i \in PacketBlocks(f) : g.blocks[i] = f.blocks[i]
  BY EmbedKeepsPackets
<1> HIDE DEF g
<1>4. DescribesPackets(t, g)
  BY <1>3 DEF DescribesPackets
<1> QED BY <1>2, <1>4 DEF g

(* Whatever a failing write leaves of an indexed capture has no index: the *)
(* footer comes last.                                                      *)
LEMMA TornHasNoIndex ==
  ASSUME NEW f \in Image, WellLaid(f), NEW t \in Table, NEW length \in Nat \ {0},
         NEW cuts \in SUBSET Nat,
         NEW g \in TornImages(EmbedParquet(f, t, length), cuts)
  PROVE  ~ LocatorAccepted(g)
<1> DEFINE e == EmbedParquet(f, t, length)
           n == Len(f.blocks)
<1>1. /\ n \in Nat
      /\ e \in Image
      /\ DOMAIN f.blocks = 1..n
      /\ DOMAIN e.blocks = 1..(n + 2)
      /\ Len(e.blocks) = n + 2
      /\ \A i \in 1..n : e.blocks[i] = f.blocks[i]
      /\ e.blocks[n + 1].type = "CUSTOM"
      /\ e.blocks[n + 2].held = 44
  <2>1. Embeds(f, t, length, e)
    BY EmbedFacts
  <2> QED BY <2>1 DEF Embeds
<1>2. g \in TornImages(e, cuts)
  OBVIOUS
<1> HIDE DEF e, n
<1>3. ASSUME NEW k \in 1..(n + 2), k # n + 2  PROVE e.blocks[k].type # "FOOTER"
  <2>1. \A i \in 1..n : e.blocks[i].type # "FOOTER"
    BY <1>1 DEF WellLaid
  <2>2. k \in 1..n \/ k = n + 1
    BY <1>1, <1>3
  <2> QED BY <1>1, <2>1, <2>2
<1>4. CASE g = EmptyImage
  BY <1>4, NoFooterNoIndex DEF EmptyImage
<1>5. ASSUME NEW k \in DOMAIN e.blocks, NEW h \in Nat,
             k = Len(e.blocks) => h < e.blocks[k].held, g = TornAfter(e, k, h)
      PROVE  ~ LocatorAccepted(g)
  <2>1. Len(g.blocks) = k /\ g.blocks[k].type = e.blocks[k].type /\ g.blocks[k].held = h
    <3>1. e \in Image
      BY <1>1
    <3> QED BY <3>1, <1>5, TornFacts
  <2>2. CASE k = n + 2
    BY <1>1, <1>5, <2>1, <2>2, NoFooterNoIndex DEF TailBlock
  <2>3. CASE k # n + 2
    BY <1>1, <1>3, <2>1, <2>3, NoFooterNoIndex DEF TailBlock
  <2> QED BY <2>2, <2>3
<1>6. \/ g = EmptyImage
      \/ \E k \in DOMAIN e.blocks, h \in Nat :
           /\ h <= e.blocks[k].held
           /\ k = Len(e.blocks) => h < e.blocks[k].held
           /\ g = TornAfter(e, k, h)
  BY <1>1, <1>2, TornCases
<1> QED BY <1>4, <1>5, <1>6

(***************************************************************************)
(* The invariant.                                                          *)
(***************************************************************************)
(* The inductive invariant: the types and the parts of IndexInv.           *)
FullInv == TypeOK /\ IndexInv

(* Nothing has been written when the statement is bound.                   *)
LEMMA InitFullInv == Init => FullInv
<1> SUFFICES ASSUME Init PROVE FullInv
  OBVIOUS
<1>1. TypeOK /\ CallInv
  BY InitTypeInv DEF TypeInv
<1>2. file = EmptyImage /\ stage = "bind"
  BY DEF Init
<1>3. DOMAIN file.blocks = {} /\ file.blocks = <<>>
  BY <1>2 DEF EmptyImage
<1>4. PacketBlocks(file) = {}
  BY <1>3 DEF PacketBlocks
<1>5. LayoutInv
  BY <1>2, <1>3 DEF LayoutInv, WellLaid
<1>6. OrderInv
  BY <1>4 DEF OrderInv, RowsShadowBlocks, InRowOrder
<1>7. ScanInv /\ ParquetInv
  BY <1>2 DEF ScanInv, ParquetInv
<1>8. IndexDescribesPackets
  BY <1>3, NoFooterNoIndex DEF IndexDescribesPackets
<1> QED BY <1>1, <1>5, <1>6, <1>7, <1>8 DEF FullInv, IndexInv

(* A step that leaves the capture alone leaves its index alone.            *)
LEMMA SameIndex ==
  ASSUME IndexDescribesPackets, file' = file
  PROVE  IndexDescribesPackets'
BY DEF IndexDescribesPackets

(* While no thread is between writing a packet and buffering its row, all  *)
(* packet blocks have a row.                                               *)
LEMMA AllBuffered ==
  ASSUME OrderInv, Capturing, \A t \in Thread : pc[t] # "push"
  PROVE  \A i \in PacketBlocks(file) : BufferedAs(file.blocks[i])
BY DEF OrderInv, RowsShadowBlocks, InFlight

(* A step that moves no thread from or to the middle of a row, and neither *)
(* writes nor buffers, keeps the order.                                    *)
LEMMA SameOrder ==
  ASSUME OrderInv, Capturing, \A t \in Thread : pc[t] # "push",
         file' = file, rows' = rows, cfg' = cfg
  PROVE  OrderInv'
<1>1. \A i \in PacketBlocks(file) : BufferedAs(file.blocks[i])
  BY AllBuffered
<1>2. \A i \in PacketBlocks(file)' : BufferedAs(file.blocks[i])'
  BY <1>1 DEF BufferedAs
<1>3. RowsShadowBlocks'
  BY <1>2 DEF RowsShadowBlocks
<1>4. InRowOrder(file)'
  BY DEF OrderInv, InRowOrder
<1> QED BY <1>3, <1>4 DEF OrderInv

(* Only the thread that holds the lock is in the middle of a row.          *)
LEMMA LockExcludes ==
  ASSUME CallInv, NEW t \in Thread, pc[t] \in {"write", "push"}
  PROVE  \A u \in Thread : pc[u] = "push" => u = t
BY DEF CallInv

(* Past the sink no thread is in the middle of a row.                      *)
LEMMA FinalizeExcludes ==
  ASSUME CallInv, stage \notin {"copy", "abort"}
  PROVE  \A u \in Thread : pc[u] # "push"
BY DEF CallInv

(* WriteBlock keeps the invariant.                                         *)
LEMMA WriteBlockIndex ==
  ASSUME FullInv, NEW t \in Thread, WriteBlock(t)
  PROVE  LayoutInv' /\ OrderInv' /\ ScanInv' /\ ParquetInv' /\ IndexDescribesPackets'
<1> DEFINE link == EffectiveLink(DataLink(Row(t)), cfg.linktype)
           ord  == Len(rows) + 1
<1>1. TypeInv /\ CallInv /\ LayoutInv /\ OrderInv
  BY DEF FullInv, IndexInv, TypeInv
<1>2. pc[t] = "write" /\ stage \in {"copy", "abort"}
  BY <1>1 DEF WriteBlock, CallInv
<1>3. Capturing /\ WellLaid(file) /\ file \in Image
  BY <1>1, <1>2 DEF Capturing, LayoutInv, TypeInv, TypeOK
<1>4. \A u \in Thread : pc[u] # "push"
  BY <1>1, <1>2, LockExcludes
<1>5. \A i \in PacketBlocks(file) : BufferedAs(file.blocks[i])
  BY <1>1, <1>3, <1>4, AllBuffered
<1>6. Row(t) \in InputRow /\ link \in Nat
  BY <1>1, CurrentRow, LinkTypes DEF WriteBlock
<1>7. Len(rows) \in Nat /\ ord \in Nat /\ DOMAIN rows = 1..Len(rows)
  BY <1>1 DEF TypeInv, TypeOK
<1>8. Grows(file, file', Row(t).pkt, link, ord)
  <2>1. file' \in {Written(file, Row(t), link, ord)} \cup PartlyWritten(file, Row(t), link, ord)
    BY DEF WriteBlock
  <2> HIDE DEF link, ord
  <2> QED BY <1>3, <1>6, <1>7, <2>1, WritesGrow
<1>9. UNCHANGED <<stage, chunk, r, rows, cfg, parquet, pos, locs>> /\ pc' = [pc EXCEPT ![t] = "push"]
  BY DEF WriteBlock, statement, scanVars
<1>10. \A i \in PacketBlocks(file') : i \in DOMAIN file.blocks =>
          i \in PacketBlocks(file) /\ file'.blocks[i] = file.blocks[i]
  BY <1>8 DEF Grows, PacketBlocks
<1>11. RowsShadowBlocks'
  <2> SUFFICES ASSUME NEW i \in PacketBlocks(file')
               PROVE  BufferedAs(file.blocks[i])' \/ InFlight(file.blocks[i])'
    BY DEF RowsShadowBlocks
  <2>1. CASE i \in DOMAIN file.blocks
    <3>1. BufferedAs(file.blocks[i]) /\ file'.blocks[i] = file.blocks[i]
      BY <1>5, <1>10, <2>1
    <3> QED BY <1>9, <3>1 DEF BufferedAs
  <2>2. CASE i \notin DOMAIN file.blocks
    <3>1. /\ file'.blocks[i].body.pkt = Row(t).pkt
          /\ file'.blocks[i].body.link = link
          /\ file'.blocks[i].body.ord = ord
      BY <1>8, <2>2 DEF Grows
    <3>2. pc'[t] = "push"
      BY <1>1, <1>9 DEF TypeInv, TypeOK
    <3>3. Row(t)' = Row(t)
      BY <1>9 DEF Row
    <3> QED BY <1>9, <3>1, <3>2, <3>3 DEF InFlight
  <2> QED BY <2>1, <2>2
<1>12. InRowOrder(file')
  <2>1. \A i \in PacketBlocks(file') : i \in DOMAIN file.blocks =>
           /\ i \in PacketBlocks(file)
           /\ file'.blocks[i].body.ord = file.blocks[i].body.ord
           /\ file'.blocks[i].body.ord \in 1..Len(rows)
    BY <1>5, <1>7, <1>10 DEF BufferedAs
  <2>2. \A i \in PacketBlocks(file') : i \notin DOMAIN file.blocks =>
           /\ file'.blocks[i].body.ord = Len(rows) + 1
           /\ \A j \in PacketBlocks(file') : j # i => j \in DOMAIN file.blocks /\ j < i
    BY <1>8 DEF Grows
  <2>3. InRowOrder(file)
    BY <1>1, <1>3 DEF OrderInv
  <2>4. ASSUME NEW i \in PacketBlocks(file')
        PROVE  file'.blocks[i].body.ord >= 1
    BY <1>7, <2>1, <2>2
  <2>5. ASSUME NEW i \in PacketBlocks(file'), NEW j \in PacketBlocks(file'), i < j
        PROVE  file'.blocks[i].body.ord < file'.blocks[j].body.ord
    <3>0. i \in Nat /\ j \in Nat
      BY <1>8 DEF Grows, PacketBlocks, Image
    <3>1. CASE i \in DOMAIN file.blocks /\ j \in DOMAIN file.blocks
      BY <2>1, <2>3, <2>5, <3>1 DEF InRowOrder
    <3>2. CASE i \in DOMAIN file.blocks /\ j \notin DOMAIN file.blocks
      BY <1>7, <2>1, <2>2, <3>2
    <3>3. CASE i \notin DOMAIN file.blocks
      BY <2>2, <2>5, <3>0, <3>3
    <3> QED BY <3>1, <3>2, <3>3
  <2> QED BY <2>4, <2>5 DEF InRowOrder
<1>13. WellLaid(file') /\ file' \in Image
  BY <1>8 DEF Grows
<1>14. LayoutInv'
  BY <1>2, <1>9, <1>13 DEF LayoutInv
<1>15. OrderInv'
  BY <1>11, <1>12 DEF OrderInv
<1>16. ScanInv' /\ ParquetInv'
  BY <1>2, <1>9 DEF ScanInv, ParquetInv
<1>17. IndexDescribesPackets'
  BY <1>13, CaptureHasNoIndex DEF IndexDescribesPackets
<1> QED BY <1>14, <1>15, <1>16, <1>17

(* PushRow keeps the invariant: the row that is buffered is the one whose  *)
(* packet was written last.                                                *)
LEMMA PushRowIndex ==
  ASSUME FullInv, NEW t \in Thread, PushRow(t)
  PROVE  LayoutInv' /\ OrderInv' /\ ScanInv' /\ ParquetInv' /\ IndexDescribesPackets'
<1>1. TypeInv /\ CallInv /\ LayoutInv /\ OrderInv /\ IndexDescribesPackets
  BY DEF FullInv, IndexInv, TypeInv
<1>2. pc[t] = "push" /\ stage \in {"copy", "abort"}
  BY <1>1 DEF PushRow, CallInv
<1>3. Capturing
  BY <1>2 DEF Capturing
<1>4. UNCHANGED <<stage, file, cfg, parquet, pos, locs>> /\ rows' = Append(rows, Buffered(Row(t)))
  BY DEF PushRow, statement, capture, scanVars
<1>5. Buffered(Row(t)) \in BufferedRow /\ rows \in Seq(BufferedRow)
  BY <1>1, <1>2, CurrentRow DEF TypeInv, TypeOK
<1>6. /\ Len(rows) \in Nat /\ DOMAIN rows = 1..Len(rows) /\ DOMAIN rows' = 1..(Len(rows) + 1)
      /\ \A n \in 1..Len(rows) : rows'[n] = rows[n]
      /\ rows'[Len(rows) + 1] = Buffered(Row(t))
  BY <1>4, <1>5
<1>7. RowsShadowBlocks'
  <2> SUFFICES ASSUME NEW i \in PacketBlocks(file)
               PROVE  BufferedAs(file.blocks[i])'
    BY <1>4 DEF RowsShadowBlocks
  <2> DEFINE b == file.blocks[i]
  <2>1. BufferedAs(b) \/ InFlight(b)
    BY <1>1, <1>3 DEF OrderInv, RowsShadowBlocks
  <2>2. b' = b /\ cfg' = cfg
    BY <1>4
  <2>3. CASE BufferedAs(b)
    <3>1. b.body.ord \in 1..Len(rows) /\ b.body.ord \in 1..(Len(rows) + 1)
      BY <1>6, <2>3 DEF BufferedAs
    <3>2. b.body.ord \in DOMAIN rows' /\ rows'[b.body.ord] = rows[b.body.ord]
      BY <1>6, <3>1
    <3>3. /\ b.body.pkt = rows[b.body.ord].pkt
          /\ b.body.link = EffectiveLink(rows[b.body.ord].link, cfg.linktype)
      BY <2>3 DEF BufferedAs
    <3> QED BY <2>2, <3>2, <3>3 DEF BufferedAs
  <2>4. CASE InFlight(b)
    <3>1. /\ b.body.ord = Len(rows) + 1
          /\ b.body.pkt = Row(t).pkt
          /\ b.body.link = EffectiveLink(DataLink(Row(t)), cfg.linktype)
      BY <1>1, <1>2, <2>4, LockExcludes DEF InFlight
    <3>2. b.body.ord \in DOMAIN rows' /\ rows'[b.body.ord] = Buffered(Row(t))
      BY <1>6, <3>1
    <3>3. Buffered(Row(t)).pkt = Row(t).pkt /\ Buffered(Row(t)).link = DataLink(Row(t))
      BY DEF Buffered
    <3> QED BY <2>2, <3>1, <3>2, <3>3 DEF BufferedAs
  <2> QED BY <2>1, <2>3, <2>4
<1>8. OrderInv'
  BY <1>1, <1>3, <1>4, <1>7 DEF OrderInv, InRowOrder
<1>9. LayoutInv'
  BY <1>1, <1>4 DEF LayoutInv, Capturing
<1>10. ScanInv' /\ ParquetInv'
  BY <1>2, <1>4 DEF ScanInv, ParquetInv
<1> QED BY <1>1, <1>4, <1>8, <1>9, <1>10, SameIndex

(* The steps of the sink that neither write nor buffer.                    *)
LEMMA OtherSinkIndex ==
  ASSUME FullInv, NEW t \in Thread,
         \/ \E c \in Chunk : SinkCall(t, c)
         \/ Acquire(t)
         \/ SinkReject(t)
         \/ SinkReturn(t)
  PROVE  LayoutInv' /\ OrderInv' /\ ScanInv' /\ ParquetInv' /\ IndexDescribesPackets'
<1>1. TypeOK /\ CallInv /\ LayoutInv /\ OrderInv /\ IndexDescribesPackets
  BY DEF FullInv, IndexInv
<1>2. /\ UNCHANGED <<file, rows, cfg>>
      /\ stage' \in {stage, "abort"}
      /\ stage \in {"copy", "abort"}
  BY <1>1 DEF SinkCall, Acquire, SinkReject, SinkReturn, CallInv, statement, capture
<1>3. Capturing /\ Capturing'
  BY <1>2 DEF Capturing
<1>4. OrderInv'
  <2>1. CASE \E c \in Chunk : SinkCall(t, c)
    <3>1. PICK c \in Chunk : SinkCall(t, c)
      BY <2>1
    <3>2. pc[t] = "idle" /\ pc' = [pc EXCEPT ![t] = "wait"]
          /\ chunk' = [chunk EXCEPT ![t] = c] /\ r' = [r EXCEPT ![t] = 1]
      BY <3>1 DEF SinkCall
    <3>3. \A u \in Thread : pc[u] = "push" => pc'[u] = "push" /\ Row(u)' = Row(u)
      BY <1>1, <3>2 DEF TypeOK, Row
    <3>4. ASSUME NEW i \in PacketBlocks(file)
          PROVE  BufferedAs(file.blocks[i])' \/ InFlight(file.blocks[i])'
      <4>1. CASE BufferedAs(file.blocks[i])
        BY <1>2, <4>1 DEF BufferedAs
      <4>2. CASE InFlight(file.blocks[i])
        <5>1. PICK u \in Thread :
                 /\ pc[u] = "push"
                 /\ file.blocks[i].body.pkt = Row(u).pkt
                 /\ file.blocks[i].body.link = EffectiveLink(DataLink(Row(u)), cfg.linktype)
          BY <4>2 DEF InFlight
        <5>2. pc'[u] = "push" /\ Row(u)' = Row(u)
          BY <3>3, <5>1
        <5>3. file.blocks[i].body.ord = Len(rows) + 1
          BY <4>2 DEF InFlight
        <5> QED BY <1>2, <5>1, <5>2, <5>3 DEF InFlight
      <4> QED BY <1>1, <1>3, <4>1, <4>2 DEF OrderInv, RowsShadowBlocks
    <3>5. RowsShadowBlocks'
      BY <1>2, <3>4 DEF RowsShadowBlocks
    <3> QED BY <1>1, <1>2, <1>3, <3>5 DEF OrderInv, InRowOrder
  <2>2. CASE Acquire(t) \/ SinkReject(t) \/ SinkReturn(t)
    <3>1. \A u \in Thread : pc[u] # "push"
      <4>1. CASE Acquire(t)
        BY <1>1, <4>1, WriterAssumption DEF Acquire, CallInv
      <4>2. CASE SinkReject(t) \/ SinkReturn(t)
        <5>1. pc[t] = "write"
          BY <4>2 DEF SinkReject, SinkReturn
        <5> QED BY <1>1, <5>1, LockExcludes
      <4> QED BY <2>2, <4>1, <4>2
    <3> QED BY <1>1, <1>2, <1>3, <3>1, SameOrder
  <2> QED BY <2>1, <2>2
<1>5. LayoutInv'
  BY <1>1, <1>2, <1>3 DEF LayoutInv
<1>6. ScanInv' /\ ParquetInv'
  BY <1>2 DEF ScanInv, ParquetInv
<1> QED BY <1>1, <1>2, <1>4, <1>5, <1>6, SameIndex

(* The steps outside the sink that only move the statement on.             *)
LEMMA QuietIndex ==
  ASSUME FullInv,
         UNCHANGED <<file, rows, cfg>>,
         Capturing' => Capturing /\ (stage' \in {"bind", "open"} => stage \in {"bind", "open"}),
         Capturing' => \A t \in Thread : pc[t] # "push",
         ScanInv', ParquetInv'
  PROVE  LayoutInv' /\ OrderInv' /\ ScanInv' /\ ParquetInv' /\ IndexDescribesPackets'
<1>1. LayoutInv /\ OrderInv /\ IndexDescribesPackets
  BY DEF FullInv, IndexInv
<1>2. LayoutInv'
  BY <1>1 DEF LayoutInv
<1>3. OrderInv'
  <2>1. CASE ~ Capturing'
    BY <2>1 DEF OrderInv
  <2>2. CASE Capturing'
    BY <1>1, <2>2, SameOrder
  <2> QED BY <2>1, <2>2
<1> QED BY <1>1, <1>2, <1>3, SameIndex

(* The end of a capture may be missing after its close: the rest is laid   *)
(* as it was.                                                              *)
LEMMA TornLaid ==
  ASSUME NEW f \in Image, WellLaid(f), NEW cuts \in SUBSET (Nat \ {0}),
         NEW g \in TornImages(f, cuts)
  PROVE  /\ WellLaid(g)
         /\ \A i \in PacketBlocks(g) : /\ i \in PacketBlocks(f)
                                       /\ g.blocks[i].at = f.blocks[i].at
                                       /\ g.blocks[i].type = f.blocks[i].type
                                       /\ g.blocks[i].body = f.blocks[i].body
<1>1. CASE g = EmptyImage
  <2>1. DOMAIN EmptyImage.blocks = {}
    BY DEF EmptyImage
  <2> QED BY <1>1, <2>1 DEF WellLaid, PacketBlocks
<1>2. ASSUME NEW k \in DOMAIN f.blocks, NEW h \in Nat, h > 0, g = TornAfter(f, k, h)
      PROVE  /\ WellLaid(g)
             /\ \A i \in PacketBlocks(g) : /\ i \in PacketBlocks(f)
                                           /\ g.blocks[i].at = f.blocks[i].at
                                           /\ g.blocks[i].type = f.blocks[i].type
                                           /\ g.blocks[i].body = f.blocks[i].body
  <2>1. /\ g \in Image /\ g.size = f.blocks[k].at + h
        /\ k \in 1..Len(f.blocks) /\ DOMAIN f.blocks = 1..Len(f.blocks)
        /\ DOMAIN g.blocks = 1..k
        /\ \A i \in 1..(k - 1) : g.blocks[i] = f.blocks[i]
        /\ g.blocks[k].at = f.blocks[k].at /\ g.blocks[k].type = f.blocks[k].type
        /\ g.blocks[k].len = f.blocks[k].len /\ g.blocks[k].body = f.blocks[k].body
        /\ g.blocks[k].held = h
    BY <1>2, TornFacts
  <2>2. Len(f.blocks) \in Nat /\ k \in Nat
    BY <2>1 DEF Image
  <2>3. \A i \in DOMAIN f.blocks : f.blocks[i].at \in Nat /\ f.blocks[i].held \in Nat
    BY ImageNumbers
  <2>4. \A i \in 1..k : i \in DOMAIN f.blocks /\ (i \in 1..(k - 1) \/ i = k)
    BY <2>1, <2>2
  <2>5. \A i \in 1..k : /\ g.blocks[i].at = f.blocks[i].at
                        /\ g.blocks[i].type = f.blocks[i].type
                        /\ g.blocks[i].len = f.blocks[i].len
                        /\ g.blocks[i].body = f.blocks[i].body
    BY <2>1, <2>4
  <2>6. ASSUME NEW i \in 1..(k - 1)
        PROVE  g.blocks[i].held > 0 /\ g.blocks[i].at + g.blocks[i].held <= g.size
    <3>1. i \in DOMAIN f.blocks /\ g.blocks[i] = f.blocks[i] /\ i < k
      BY <2>1, <2>2, <2>4
    <3>2. f.blocks[i].held > 0
      BY <3>1 DEF WellLaid
    <3>3. f.blocks[i].at + f.blocks[i].held <= f.blocks[k].at
      BY <3>1 DEF WellLaid
    <3>4. f.blocks[i].at + f.blocks[i].held <= g.size
      <4> DEFINE x == f.blocks[i].at
                 y == f.blocks[i].held
                 z == f.blocks[k].at
      <4>1. x \in Nat /\ y \in Nat /\ z \in Nat /\ x + y <= z /\ g.size = z + h
        BY <2>1, <2>3, <3>1, <3>3
      <4> HIDE DEF x, y, z
      <4>2. x + y <= g.size
        BY <1>2, <4>1
      <4> QED BY <4>2 DEF x, y
    <3> QED BY <3>1, <3>2, <3>4
  <2>7. g.blocks[k].held > 0 /\ g.blocks[k].at + g.blocks[k].held <= g.size
    BY <1>2, <2>1, <2>3
  <2>8. ASSUME NEW i \in DOMAIN g.blocks, NEW j \in DOMAIN g.blocks, i < j
        PROVE  g.blocks[i].at + g.blocks[i].held <= g.blocks[j].at
    <3>1. /\ i \in 1..(k - 1) /\ i \in DOMAIN f.blocks /\ j \in DOMAIN f.blocks
          /\ g.blocks[i] = f.blocks[i] /\ g.blocks[j].at = f.blocks[j].at
      BY <2>1, <2>2, <2>4, <2>5, <2>8
    <3>2. f.blocks[i].at + f.blocks[i].held <= f.blocks[j].at
      BY <2>8, <3>1 DEF WellLaid
    <3> QED BY <3>1, <3>2
  <2>9. \A i \in DOMAIN g.blocks :
          /\ g.blocks[i].type \in {"SHB", "IDB", "EPB"}
          /\ g.blocks[i].type = "EPB" => g.blocks[i].len >= 32
    BY <2>1, <2>4, <2>5 DEF WellLaid
  <2>10. WellLaid(g)
    BY <2>1, <2>4, <2>6, <2>7, <2>8, <2>9 DEF WellLaid
  <2>11. \A i \in PacketBlocks(g) : i \in 1..k /\ i \in PacketBlocks(f)
    BY <2>1, <2>4, <2>5 DEF PacketBlocks
  <2> QED BY <2>5, <2>10, <2>11
<1>3. \/ g = EmptyImage
      \/ \E k \in DOMAIN f.blocks, h \in Nat : h > 0 /\ g = TornAfter(f, k, h)
  <2>1. Len(f.blocks) \in Nat /\ DOMAIN f.blocks = 1..Len(f.blocks)
    BY DEF Image
  <2>2. \A k \in DOMAIN f.blocks : f.blocks[k].held \in Nat /\ f.blocks[k].held > 0
    BY ImageNumbers DEF WellLaid
  <2>3. CASE \E k \in 1..(Len(f.blocks) - 1) : g = TornAfter(f, k, f.blocks[k].held)
    <3>1. PICK k \in 1..(Len(f.blocks) - 1) : g = TornAfter(f, k, f.blocks[k].held)
      BY <2>3
    <3>2. k \in DOMAIN f.blocks
      BY <2>1
    <3> QED BY <2>2, <3>1, <3>2
  <2>4. CASE \E k \in 1..Len(f.blocks) : \E h \in cuts \cap 1..(f.blocks[k].held - 1) :
               g = TornAfter(f, k, h)
    <3>1. PICK k \in 1..Len(f.blocks) : \E h \in cuts \cap 1..(f.blocks[k].held - 1) :
                                           g = TornAfter(f, k, h)
      BY <2>4
    <3>2. PICK h \in cuts : g = TornAfter(f, k, h)
      BY <3>1
    <3>3. k \in DOMAIN f.blocks /\ h \in Nat /\ h > 0
      BY <2>1
    <3> QED BY <3>2, <3>3
  <2> QED BY <2>3, <2>4 DEF TornImages
<1> QED BY <1>1, <1>2, <1>3

(* What a write of the index, whole or failing, makes of the capture.      *)
LEMMA EmbedCases ==
  ASSUME Embed \/ EmbedFails
  PROVE  \/ file' = file /\ (EmbedFails \/ stray' # {})
         \/ \E p \in parquet : /\ stage = "embed"
                               /\ file' \in TornImages(Embedded(p), TornSizes)
                               /\ EmbedFails \/ unflushed'
         \/ \E p \in parquet : /\ Embed
                               /\ Embedded(p).size < U64
                               /\ file' = Embedded(p)
BY DEF Embed, EmbedFails, Put

(* Every step of the statement keeps the types and the invariant.          *)
LEMMA NextFullInv == FullInv /\ [Next]_vars => FullInv'
<1> SUFFICES ASSUME FullInv, [Next]_vars
             PROVE  FullInv'
  OBVIOUS
<1>0. TypeOK /\ CallInv /\ LayoutInv /\ OrderInv /\ ScanInv /\ ParquetInv
      /\ IndexDescribesPackets /\ TypeInv
  BY DEF FullInv, IndexInv, TypeInv
<1> DEFINE Rest == LayoutInv /\ OrderInv /\ ScanInv /\ ParquetInv /\ IndexDescribesPackets
<1>1. TypeInv'
  BY <1>0, NextTypeInv
<1> SUFFICES Rest'
  BY <1>1 DEF FullInv, IndexInv, TypeInv
<1>2. stage \notin {"copy", "abort"} => \A t \in Thread : pc[t] # "push"
  BY <1>0, FinalizeExcludes
<1>3. ASSUME NEW s \in CopyStatements, Bind(s)
      PROVE  Rest'
  <2>1. stage = "bind" /\ stage' \in {"open", "failed"} /\ UNCHANGED <<file, rows>>
    BY <1>3 DEF Bind, copyVars, capture
  <2>2. file = EmptyImage /\ file' = EmptyImage
    BY <1>0, <2>1 DEF LayoutInv, Capturing
  <2>3. DOMAIN EmptyImage.blocks = {} /\ PacketBlocks(EmptyImage) = {}
    BY DEF EmptyImage, PacketBlocks
  <2>4. LayoutInv'
    BY <2>2, <2>3 DEF LayoutInv, WellLaid
  <2>5. OrderInv'
    BY <2>2, <2>3 DEF OrderInv, RowsShadowBlocks, InRowOrder
  <2>6. ScanInv' /\ ParquetInv'
    BY <2>1 DEF ScanInv, ParquetInv
  <2> QED BY <1>0, <2>2, <2>4, <2>5, <2>6, SameIndex
<1>4. CASE InitializeGlobal
  <2>1. file' = Preamble(cfg.linktype) /\ stage' = "copy"
    BY <1>4 DEF InitializeGlobal
  <2> DEFINE e == AppendBlock(EmptyImage, SectionBlock)
             b == InterfaceBlock(cfg.linktype)
  <2>2. cfg.linktype \in Nat
    BY <1>0 DEF TypeOK
  <2>3. EmptyImage \in Image /\ WellLaid(EmptyImage) /\ PacketBlocks(EmptyImage) = {}
    <3>1. EmptyImage \in Image
      BY DEF EmptyImage, Image
    <3>2. DOMAIN EmptyImage.blocks = {}
      BY DEF EmptyImage
    <3> QED BY <3>1, <3>2 DEF WellLaid, PacketBlocks
  <2>4. SectionBlock \in Block /\ b \in Block
    <3>1. U32 \in Nat \ {0} /\ SHBSize \in Nat
      BY WidthAssumption, WriterAssumption
    <3>2. SectionBlock \in Block
      BY <3>1 DEF SectionBlock, Block, BlockOf
    <3>3. b \in Block
      BY <2>2, <3>1 DEF InterfaceBlock, Block, BlockOf
    <3> QED BY <3>2, <3>3
  <2>5. /\ SectionBlock.type = "SHB" /\ SectionBlock.held > 0
        /\ b.type = "IDB" /\ b.held > 0
    BY WriterAssumption, WidthAssumption DEF SectionBlock, InterfaceBlock
  <2> HIDE DEF b
  <2>6. e \in Image /\ WellLaid(e)
    BY <2>3, <2>4, <2>5, AppendLaid, AppendImage
  <2>7. PacketBlocks(e) = {}
    <3>1. /\ DOMAIN e.blocks = 1..(Len(EmptyImage.blocks) + 1)
          /\ DOMAIN EmptyImage.blocks = 1..Len(EmptyImage.blocks)
          /\ Len(EmptyImage.blocks) \in Nat
          /\ \A i \in DOMAIN EmptyImage.blocks : e.blocks[i] = EmptyImage.blocks[i]
          /\ e.blocks[Len(EmptyImage.blocks) + 1].type = "SHB"
      BY <2>3, <2>4, <2>5, AppendFacts
    <3> HIDE DEF e
    <3>2. \A i \in DOMAIN e.blocks : \/ i \in DOMAIN EmptyImage.blocks
                                     \/ i = Len(EmptyImage.blocks) + 1
      BY <3>1
    <3> QED BY <2>3, <3>1, <3>2 DEF PacketBlocks
  <2>8. Grows(e, AppendBlock(e, b), 0, 0, 0)
    BY <2>4, <2>5, <2>6, GrowsByOther
  <2>9. WellLaid(file') /\ file' \in Image
    BY <2>1, <2>8 DEF Grows, Preamble, b
  <2>10. PacketBlocks(file') = {}
    <3>1. file' = AppendBlock(e, b)
      BY <2>1 DEF Preamble, b
    <3>2. /\ DOMAIN file'.blocks = 1..(Len(e.blocks) + 1)
          /\ DOMAIN e.blocks = 1..Len(e.blocks)
          /\ Len(e.blocks) \in Nat
          /\ \A i \in DOMAIN e.blocks : file'.blocks[i] = e.blocks[i]
          /\ file'.blocks[Len(e.blocks) + 1].type = "IDB"
      BY <2>4, <2>5, <2>6, <3>1, AppendFacts
    <3> HIDE DEF e
    <3>3. \A i \in DOMAIN file'.blocks : i \in DOMAIN e.blocks \/ i = Len(e.blocks) + 1
      BY <3>2
    <3> QED BY <2>7, <3>2, <3>3 DEF PacketBlocks
  <2>11. LayoutInv' /\ ScanInv' /\ ParquetInv'
    BY <2>1, <2>9 DEF LayoutInv, ScanInv, ParquetInv
  <2>12. OrderInv'
    BY <2>10 DEF OrderInv, RowsShadowBlocks, InRowOrder
  <2> QED BY <2>9, <2>11, <2>12, CaptureHasNoIndex DEF IndexDescribesPackets
<1>5. ASSUME NEW t \in Thread, Sink(t)
      PROVE  Rest'
  BY <1>5, WriteBlockIndex, PushRowIndex, OtherSinkIndex DEF Sink
<1>6. CASE Destroy
  <2>1. stage' = "failed" /\ UNCHANGED <<file, rows, cfg>>
    BY <1>6 DEF Destroy, statement, copyVars, capture
  <2> QED BY <2>1, QuietIndex DEF ScanInv, ParquetInv, Capturing
<1>7. CASE Close
  <2>1. /\ stage = "copy" /\ stage' \in {"done", "resolve"} /\ UNCHANGED <<rows, cfg>>
        /\ \A t \in Thread : pc[t] # "push"
        /\ file' = file \/ file' \in TornImages(file, TornSizes)
    BY <1>7 DEF Close, statement
  <2>2. CASE file' = file
    BY <2>1, <2>2, QuietIndex DEF ScanInv, ParquetInv, Capturing
  <2>3. CASE file' \in TornImages(file, TornSizes)
    <3>1. file \in Image /\ WellLaid(file) /\ InRowOrder(file)
          /\ \A i \in PacketBlocks(file) : BufferedAs(file.blocks[i])
      BY <1>0, <2>1, AllBuffered DEF TypeOK, LayoutInv, OrderInv, Capturing
    <3>2. TornSizes \in SUBSET (Nat \ {0})
      BY WriterAssumption
    <3>3. /\ WellLaid(file')
          /\ \A i \in PacketBlocks(file') : /\ i \in PacketBlocks(file)
                                            /\ file'.blocks[i].body = file.blocks[i].body
      BY <2>3, <3>1, <3>2, TornLaid
    <3>4. ASSUME NEW i \in PacketBlocks(file')
          PROVE  BufferedAs(file.blocks[i])'
      <4>1. /\ BufferedAs(file.blocks[i])
            /\ file'.blocks[i].body = file.blocks[i].body
        BY <3>1, <3>3
      <4> QED BY <2>1, <4>1 DEF BufferedAs
    <3>5. InRowOrder(file')
      BY <3>1, <3>3 DEF InRowOrder
    <3>6. OrderInv'
      BY <3>4, <3>5 DEF OrderInv, RowsShadowBlocks
    <3>7. LayoutInv' /\ ScanInv' /\ ParquetInv'
      BY <2>1, <3>3 DEF LayoutInv, ScanInv, ParquetInv
    <3>8. file' \in Image
      BY <1>0, <1>7, CloseImage
    <3>9. IndexDescribesPackets'
      BY <3>3, <3>8, CaptureHasNoIndex DEF IndexDescribesPackets
    <3> QED BY <3>6, <3>7, <3>9
  <2> QED BY <2>1, <2>2, <2>3
<1>8. CASE OpenForScan
  <2>1. stage = "scan" /\ stage' \in {"walk", "failed"} /\ locs' = <<>> /\ pos' = 0
        /\ UNCHANGED <<file, rows, cfg>>
    BY <1>8 DEF OpenForScan, Fail, statement, capture
  <2>2. ScanInv' /\ ParquetInv'
    BY <2>1 DEF ScanInv, ParquetInv, Located
  <2> QED BY <1>2, <2>1, <2>2, QuietIndex DEF Capturing
<1>9. CASE ScanStep
  <2>1. /\ stage = "walk" /\ stage' = stage /\ ~ ScanStops(file, pos)
        /\ locs' = locs \o LocationsAt(HeaderAt(file, pos), pos)
        /\ pos' = pos + HeaderAt(file, pos).len
        /\ UNCHANGED <<file, rows, cfg>>
    BY <1>9 DEF ScanStep, statement, copyVars, capture
  <2>2. Capturing /\ WellLaid(file) /\ InRowOrder(file) /\ Located(file, pos, locs)
    BY <1>0, <2>1 DEF Capturing, LayoutInv, OrderInv, ScanInv
  <2>3. file \in Image /\ pos \in Nat /\ locs \in Seq([offset : Nat, size : Nat])
    BY <1>0 DEF TypeOK
  <2>4. Located(file, pos + HeaderAt(file, pos).len, locs \o LocationsAt(HeaderAt(file, pos), pos))
    BY <2>1, <2>2, <2>3, ScanStepLocated
  <2>5. ScanInv' /\ ParquetInv'
    BY <2>1, <2>4 DEF ScanInv, ParquetInv
  <2> QED BY <1>2, <2>1, <2>5, QuietIndex DEF Capturing
<1>10. CASE ScanEnd
  <2>1. stage = "walk" /\ stage' = "meta" /\ UNCHANGED <<file, rows, cfg, pos, locs>>
    BY <1>10 DEF ScanEnd, statement, copyVars, capture, scanVars
  <2>2. ScanInv' /\ ParquetInv'
    BY <1>0, <2>1 DEF ScanInv, ParquetInv
  <2> QED BY <1>2, <2>1, <2>2, QuietIndex DEF Capturing
<1>11. CASE WriteMetadata
  <2>1. stage = "meta" /\ stage' \in {"read", "failed"} /\ UNCHANGED <<file, rows, cfg, pos, locs>>
    BY <1>11 DEF WriteMetadata, Fail, statement, capture, scanVars
  <2>2. ScanInv'
    BY <1>0, <2>1 DEF ScanInv
  <2>3. ParquetInv'
    <3>1. CASE stage' = "read"
      <4>1. CountsMatch
        BY <1>11, <3>1 DEF WriteMetadata, Fail
      <4>2. \A p \in parquet' : p.table = MetadataTable(rows, locs, cfg.linktype)
        BY <1>11, <4>1 DEF WriteMetadata
      <4>3. Capturing /\ WellLaid(file) /\ InRowOrder(file) /\ Located(file, pos, locs)
        BY <1>0, <2>1 DEF Capturing, LayoutInv, OrderInv, ScanInv
      <4>4. /\ file \in Image /\ pos \in Nat /\ locs \in Seq([offset : Nat, size : Nat])
            /\ rows \in Seq(BufferedRow) /\ cfg.linktype \in Nat
        BY <1>0 DEF TypeOK
      <4>5. \A i \in PacketBlocks(file) : BufferedAs(file.blocks[i])
        BY <1>0, <1>2, <2>1, <4>3, AllBuffered
      <4>6. DescribesPackets(MetadataTable(rows, locs, cfg.linktype), file)
        BY <4>1, <4>3, <4>4, <4>5, CountsMakeIndex DEF BufferedAs, CountsMatch
      <4> QED BY <2>1, <4>2, <4>6 DEF ParquetInv
    <3>2. CASE stage' # "read"
      BY <2>1, <3>2 DEF ParquetInv
    <3> QED BY <3>1, <3>2
  <2> QED BY <1>2, <2>1, <2>2, <2>3, QuietIndex DEF Capturing
<1>12. CASE Embed \/ EmbedFails
  <2>1. stage \in {"read", "embed"} /\ stage' \in {"tidy", "failed"}
    BY <1>12 DEF Embed, EmbedFails, Fail
  <2>2. LayoutInv' /\ OrderInv' /\ ScanInv' /\ ParquetInv'
    BY <2>1 DEF LayoutInv, OrderInv, ScanInv, ParquetInv, Capturing
  <2>3. file \in Image /\ WellLaid(file)
    BY <1>0, <2>1 DEF TypeOK, LayoutInv, Capturing
  <2>4. ASSUME NEW p \in parquet
        PROVE  /\ p.table \in Table /\ p.length \in Nat \ {0}
               /\ DescribesPackets(p.table, file)
    BY <1>0, <2>1, WriterAssumption DEF TypeOK, ParquetInv
  <2>5. ASSUME file' = file
        PROVE  IndexDescribesPackets'
    BY <1>0, <2>5, SameIndex
  <2>6. ASSUME NEW p \in parquet, file' \in TornImages(Embedded(p), TornSizes)
        PROVE  IndexDescribesPackets'
    <3>1. file' \in TornImages(EmbedParquet(file, p.table, p.length), TornSizes)
      BY <2>6 DEF Embedded
    <3>2. ~ LocatorAccepted(file')
      BY <2>3, <2>4, <3>1, WriterAssumption, TornHasNoIndex
    <3> QED BY <3>2 DEF IndexDescribesPackets
  <2>7. ASSUME NEW p \in parquet, Embedded(p).size < U64, file' = Embedded(p)
        PROVE  IndexDescribesPackets'
    <3>1. LocatorAccepted(file') =>
            PublishedTables(file') = {p.table} /\ DescribesPackets(p.table, file')
      BY <2>3, <2>4, <2>7, EmbedPublishes DEF Embedded
    <3> QED BY <3>1 DEF IndexDescribesPackets
  <2> QED BY <1>12, <2>2, <2>5, <2>6, <2>7, EmbedCases
<1>13. CASE RemoveTemp
  <2>1. stage' = "done" /\ UNCHANGED <<file, rows, cfg>>
    BY <1>13 DEF RemoveTemp, statement, capture
  <2> QED BY <2>1, QuietIndex DEF ScanInv, ParquetInv, Capturing
<1>14. CASE MoveTmpFile
  <2>1. UNCHANGED <<stage, file, rows, cfg, pos, locs, parquet>>
    BY <1>14 DEF MoveTmpFile, statement, copyVars, scanVars
  <2>2. writer = "closed"
    BY <1>14 DEF MoveTmpFile
  <2>3. ScanInv' /\ ParquetInv'
    BY <1>0, <2>1 DEF ScanInv, ParquetInv
  <2>4. LayoutInv'
    BY <1>0, <2>1 DEF LayoutInv, Capturing
  <2>5. UNCHANGED <<pc, chunk, r>>
    BY <1>14 DEF MoveTmpFile, copyVars, calls
  <2>6. OrderInv'
    BY <1>0, <2>1, <2>5 DEF OrderInv, RowsShadowBlocks, BufferedAs, InFlight, Row, InRowOrder,
                            Capturing
  <2> QED BY <1>0, <2>1, <2>3, <2>4, <2>6, SameIndex
<1>15. CASE InitializeGlobalFails
  <2>1. stage' = "failed" /\ UNCHANGED <<file, rows, cfg>>
    BY <1>15 DEF InitializeGlobalFails, statement, copyVars, capture
  <2> QED BY <2>1, QuietIndex DEF ScanInv, ParquetInv, Capturing
<1>16. CASE WriteMetadataFails
  <2>1. stage' = "failed" /\ UNCHANGED <<file, rows, cfg>>
    BY <1>16 DEF WriteMetadataFails, Fail, statement, capture
  <2> QED BY <2>1, QuietIndex DEF ScanInv, ParquetInv, Capturing
<1>17. CASE Resolve \/ EmbedRead
  <2>1. /\ stage \in {"resolve", "read"} /\ stage' \in {"scan", "embed", "failed"}
        /\ stage' = "embed" => stage = "read"
        /\ UNCHANGED <<file, rows, cfg, pos, locs, parquet>>
    BY <1>17 DEF Resolve, EmbedRead, Fail, statement, copyVars, capture, scanVars
  <2>2. ScanInv' /\ ParquetInv'
    BY <1>0, <2>1 DEF ScanInv, ParquetInv
  <2> QED BY <1>2, <2>1, <2>2, QuietIndex DEF Capturing
<1>18. CASE UNCHANGED vars
  <2>1. /\ UNCHANGED <<stage, file, rows, cfg, pos, locs, parquet, pc, chunk, r>>
    BY <1>18 DEF vars, statement, copyVars, calls, capture, scanVars
  <2>2. LayoutInv'
    BY <1>0, <2>1 DEF LayoutInv, Capturing
  <2>3. OrderInv'
    BY <1>0, <2>1 DEF OrderInv, RowsShadowBlocks, BufferedAs, InFlight, Row, InRowOrder, Capturing
  <2>4. ScanInv' /\ ParquetInv'
    BY <1>0, <2>1 DEF ScanInv, ParquetInv
  <2> QED BY <1>0, <2>1, <2>2, <2>3, <2>4, SameIndex
<1> QED BY <1>3, <1>4, <1>5, <1>6, <1>7, <1>8, <1>9, <1>10, <1>11, <1>12, <1>13, <1>14, <1>15,
           <1>16, <1>17, <1>18 DEF Next, Finalize, Failures

(* Whatever the chunks, the threads, their interleaving and the writes     *)
(* that fail: an index of a COPY that read_pqcap accepts describes the     *)
(* packet blocks of its capture exactly.                                   *)
THEOREM IndexCorrect == Spec => []IndexDescribesPackets
<1>1. Init => FullInv
  BY InitFullInv
<1>2. FullInv /\ [Next]_vars => FullInv'
  BY NextFullInv
<1>3. FullInv => IndexDescribesPackets
  BY DEF FullInv, IndexInv
<1> QED BY <1>1, <1>2, <1>3, PTL DEF Spec

(* Rows and packet blocks stay in step until the index is embedded,        *)
(* because the sink holds its mutex from one to the other.                 *)
THEOREM RowsInStep == Spec => [](Capturing => RowsShadowBlocks)
<1>1. Init => FullInv
  BY InitFullInv
<1>2. FullInv /\ [Next]_vars => FullInv'
  BY NextFullInv
<1>3. FullInv => (Capturing => RowsShadowBlocks)
  BY DEF FullInv, IndexInv, OrderInv
<1> QED BY <1>1, <1>2, <1>3, PTL DEF Spec

==============================================================================
